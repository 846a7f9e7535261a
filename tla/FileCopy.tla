------------------------------ MODULE FileCopy ------------------------------
(***************************************************************************)
(* CopyFromFileDescriptor and CopyToFileDescriptor: a CopyFromFileHandler  *)
(* reads a file and writes it to the end "from" of a socket, a             *)
(* CopyToFileHandler reads its end "to" and writes a second file.  They    *)
(* live on one message loop, alternate between steps posted to its task    *)
(* runner and waits of the default async waiter, and delete themselves     *)
(* before they report to their callback.                                   *)
(*                                                                         *)
(* Either end may have another user; SocketPipe, which has the             *)
(* specification, says which.  run is the function of a handler that is    *)
(* about to be executed; a handler is named after its end.                 *)
(*                                                                         *)
(* External: the socket takes part of a write when it is nearly full; the  *)
(* task runner (TaskRunnerContract) runs a posted step once, or drops it   *)
(* once the loop is destroyed.  File reads and writes may fail at any      *)
(* time.  A file is the sequence of the numbers of its units.              *)
(*                                                                         *)
(* Operators named X_y are faulty variants of X.                           *)
(***************************************************************************)
EXTENDS Integers, Sequences, FiniteSets, SequencesExt, FiniteSetsExt, WaitBound

CONSTANTS MaxSize,     \* bound on the units in the source file or string
          BufferSize,  \* of either handler, and of BlockingDrainFrom
          Capacity     \* of the socket

ASSUME FileCopyAssumption ==
  MaxSize \in Nat /\ BufferSize \in Nat \ {0} /\ Capacity \in Nat \ {0}

Ends == {"from", "to"}

VARIABLES
  status, calling, callback, phase,   \* of HandlerContract
  watcher, answers, inCallback,       \* of AsyncWaiter
  owner,            \* of each end of the socket, "closed" when it has none
  wait_id_,         \* of each handler
  posted,           \* the step of each handler with the task runner
  run,              \* what a handler is about to execute
  result,           \* what each copy returned or told its callback
  size,             \* units in the source
  offset,           \* units of the source that have been read
  buffer_,          \* of CopyFromFileHandler, up to buffer_end_
  buffer_offset_,
  socket,           \* units under way
  shutdown,         \* the end "from" was shut down for writing
  destination       \* the units written to the second file or string

Waiter == INSTANCE AsyncWaiter

waiterVars == <<status, calling, callback, phase, watcher, answers, inCallback>>
stepVars == <<owner, wait_id_, posted, run, result>>
fromVars == <<size, offset, buffer_, buffer_offset_>>
dataVars == <<fromVars, socket, shutdown, destination>>
vars == <<waiterVars, stepVars, dataVars>>

Open(e) == owner[e] # "closed"

Room == Capacity - Len(socket)

\* What the socket answers to a write and to a read.
WriteStatus ==
  IF ~Open("to") THEN "PEER_CLOSED" ELSE IF Room = 0 THEN "SHOULD_WAIT" ELSE "OK"

ReadStatus ==
  IF socket # <<>> THEN "OK"
  ELSE IF ~Open("from") THEN "PEER_CLOSED"
  ELSE IF shutdown THEN "BAD_STATE" ELSE "SHOULD_WAIT"

\* Each end is waited for until it can be used, or until the other is closed:
\* MX_SOCKET_READ_DISABLED, the shutdown, is not among the signals.
Triggered(e) ==
  IF e = "from" THEN Room > 0 \/ ~Open("to") ELSE socket # <<>> \/ ~Open("from")

\* The client gives an end of its socket to a new handler, whose constructor
\* posts its first step.  A task runner whose loop is gone drops it.
NewHandler(e, step) ==
  /\ owner[e] = "client"
  /\ result[e] = "none"
  /\ owner' = [owner EXCEPT ![e] = "handler"]
  /\ posted' = [posted EXCEPT ![e] = IF phase = "ended" THEN "none" ELSE step]
  /\ UNCHANGED <<waiterVars, wait_id_, run, result, dataVars>>

CopyToFileDescriptor == NewHandler("to", "OnHandleReady")

CopyFromFileDescriptor == ~shutdown /\ NewHandler("from", "FillBuffer")
-----------------------------------------------------------------------------
(* How a step of a handler ends: one of these three *)

Post(h, step) ==
  /\ posted' = [posted EXCEPT ![h] = step]
  /\ run' = <<>>
  /\ UNCHANGED <<waiterVars, owner, wait_id_, result>>

Wait(h) ==
  /\ \E w \in Waiter!Waits :
       /\ Waiter!AsyncWait(w)
       /\ wait_id_' = [wait_id_ EXCEPT ![h] = w]
  /\ run' = <<>>
  /\ UNCHANGED <<owner, posted, result>>

\* delete this, which closes the socket's end, then the callback.
SendCallback(h, value) ==
  /\ owner' = [owner EXCEPT ![h] = "closed"]
  /\ result' = [result EXCEPT ![h] = value]
  /\ run' = <<>>
  /\ UNCHANGED <<waiterVars, wait_id_, posted>>
-----------------------------------------------------------------------------
(* CopyFromFileHandler *)

FillBuffer ==
  /\ run = <<"from", "FillBuffer">>
  /\ offset < size
  /\ \E n \in 1..Min({BufferSize, size - offset}) :
       /\ buffer_' = [i \in 1..n |-> offset + i]
       /\ offset' = offset + n
  /\ buffer_offset_' = 0
  /\ run' = <<"from", "ready">>
  /\ UNCHANGED <<waiterVars, owner, wait_id_, posted, result, size, socket, shutdown,
                 destination>>

FillBufferEnds ==
  /\ run = <<"from", "FillBuffer">>
  /\ offset = size
  /\ SendCallback("from", "true")
  /\ UNCHANGED dataVars

FillBufferFails ==
  /\ run = <<"from", "FillBuffer">>
  /\ SendCallback("from", "false")
  /\ UNCHANGED dataVars

Written == Min({Room, Len(buffer_) - buffer_offset_})

WriteSocket ==
  /\ run = <<"from", "ready">>
  /\ WriteStatus = "OK"
  /\ socket' = socket \o SubSeq(buffer_, buffer_offset_ + 1, buffer_offset_ + Written)
  /\ buffer_offset_' = buffer_offset_ + Written
  /\ Post("from", IF buffer_offset_' = Len(buffer_) THEN "FillBuffer" ELSE "OnHandleReady")
  /\ UNCHANGED <<size, offset, buffer_, shutdown, destination>>

WriteSocketWaits ==
  /\ run = <<"from", "ready">>
  /\ WriteStatus = "SHOULD_WAIT"
  /\ Wait("from")
  /\ UNCHANGED dataVars

\* The other end is closed, or the wait before failed.
WriteSocketFails ==
  /\ \/ run = <<"from", "ready">> /\ WriteStatus = "PEER_CLOSED"
     \/ run = <<"from", "error">>
  /\ SendCallback("from", "false")
  /\ UNCHANGED dataVars
-----------------------------------------------------------------------------
(* CopyToFileHandler *)

Peek == SubSeq(socket, 1, Min({BufferSize, Len(socket)}))

ReadSocket ==
  /\ run = <<"to", "ready">>
  /\ ReadStatus = "OK"
  /\ socket' = SubSeq(socket, Len(Peek) + 1, Len(socket))
  /\ destination' = destination \o Peek
  /\ Post("to", "OnHandleReady")
  /\ UNCHANGED <<fromVars, shutdown>>

\* Some of what was read may have been written.
WriteFileFails ==
  /\ run = <<"to", "ready">>
  /\ ReadStatus = "OK"
  /\ socket' = SubSeq(socket, Len(Peek) + 1, Len(socket))
  /\ \E n \in 0..(Len(Peek) - 1) : destination' = destination \o SubSeq(Peek, 1, n)
  /\ SendCallback("to", "false")
  /\ UNCHANGED <<fromVars, shutdown>>

ReadSocketWaits ==
  /\ run = <<"to", "ready">>
  /\ ReadStatus = "SHOULD_WAIT"
  /\ Wait("to")
  /\ UNCHANGED dataVars

\* The other end is closed and its data has been read.
ReadSocketEnds ==
  /\ run = <<"to", "ready">>
  /\ ReadStatus = "PEER_CLOSED"
  /\ SendCallback("to", "true")
  /\ UNCHANGED dataVars

\* The other end was shut down, or the wait before failed: the loop is being
\* destroyed.
ReadSocketFails ==
  /\ \/ run = <<"to", "ready">> /\ ReadStatus = "BAD_STATE"
     \/ run = <<"to", "error">>
  /\ SendCallback("to", "false")
  /\ UNCHANGED dataVars
-----------------------------------------------------------------------------
(* What makes the handlers run *)

\* The waiter calls back the handler that holds this wait.
WaitComplete_Kept(w) ==
  \E h \in Ends :
    /\ wait_id_[h] = w
    /\ Waiter!CallCallback(w)
    /\ run' = <<h, callback>>
    /\ UNCHANGED <<owner, wait_id_, posted, result, dataVars>>
WaitComplete(w) ==
  \E h \in Ends :
    /\ wait_id_[h] = w
    /\ Waiter!CallCallback(w)
    /\ wait_id_' = [wait_id_ EXCEPT ![h] = 0]
    /\ run' = <<h, callback>>
    /\ UNCHANGED <<owner, posted, result, dataVars>>

LoopIdle == run = <<>> /\ calling = 0

\* The runner runs a step with nothing else on the loop's stack.
RunPosted(h) ==
  /\ LoopIdle
  /\ phase = "open"
  /\ posted[h] # "none"
  /\ run' = <<h, IF posted[h] = "FillBuffer" THEN "FillBuffer" ELSE "ready">>
  /\ posted' = [posted EXCEPT ![h] = "none"]
  /\ UNCHANGED <<waiterVars, owner, wait_id_, result, dataVars>>

DropPosted(h) ==
  /\ LoopIdle
  /\ phase = "closing"
  /\ posted[h] # "none"
  /\ posted' = [posted EXCEPT ![h] = "none"]
  /\ UNCHANGED <<waiterVars, owner, wait_id_, run, result, dataVars>>

LoopCalls(w) ==
  /\ run = <<>>
  /\ phase = "open" => \E h \in Ends : wait_id_[h] = w /\ Triggered(h)
  /\ Waiter!LoopCalls(w)
  /\ UNCHANGED <<stepVars, dataVars>>

LoopReturns ==
  /\ run = <<>>
  /\ Waiter!LoopReturns
  /\ UNCHANGED <<stepVars, dataVars>>

LoopCloses ==
  /\ run = <<>>
  /\ Waiter!LoopCloses
  /\ UNCHANGED <<stepVars, dataVars>>

LoopEnds ==
  /\ run = <<>>
  /\ \A h \in Ends : posted[h] = "none"
  /\ Waiter!LoopEnds
  /\ UNCHANGED <<stepVars, dataVars>>
-----------------------------------------------------------------------------
HandlerStep ==
  \/ FillBuffer \/ FillBufferEnds \/ WriteSocket \/ WriteSocketWaits \/ WriteSocketFails
  \/ ReadSocket \/ ReadSocketWaits \/ ReadSocketEnds \/ ReadSocketFails
  \/ \E w \in Waiter!Waits : WaitComplete(w)

LoopStep ==
  \/ \E h \in Ends : RunPosted(h) \/ DropPosted(h)
  \/ \E w \in Waiter!Waits : LoopCalls(w)
  \/ LoopReturns \/ LoopEnds
-----------------------------------------------------------------------------
IsWaiting(h) == \E w \in Waiter!Waits : wait_id_[h] = w /\ watcher[w] = "live"

Continuations(h) ==
  {c \in {"posted", "running", "waiting"} :
     CASE c = "posted"  -> posted[h] # "none"
       [] c = "running" -> run # <<>> /\ run[1] = h
       [] c = "waiting" -> IsWaiting(h)}

\* A handler always has exactly one way to go on: it is running, or its next
\* step is posted, or it has a wait pending.  None, and it would be leaked with
\* its callback uncalled, which only the destruction of the loop brings about;
\* two, and it would go on after it deleted itself.  A handler that is gone
\* has none, every pending wait is some handler's, and wait_id_ is not left
\* over when the wait is answered (FTL_DCHECK(!wait_id_) in SendCallback).
OneContinuation ==
  /\ \A h \in Ends :
       IF owner[h] # "handler" THEN Continuations(h) = {}
       ELSE IF phase = "open"  THEN Cardinality(Continuations(h)) = 1
                               ELSE Cardinality(Continuations(h)) <= 1
  /\ \A w \in Waiter!Waits :
       status[w] = "registered" => \E h \in Ends : owner[h] = "handler" /\ wait_id_[h] = w
  /\ run # <<>> => wait_id_[run[1]] = 0
=============================================================================
