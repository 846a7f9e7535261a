----------------------------- MODULE SocketPipe -----------------------------
(***************************************************************************)
(* One socket, and whatever this library does with its two ends: the copy  *)
(* handlers of FileCopy, BlockingCopyFromString, BlockingDrainFrom and     *)
(* BlockingCopyToString, and WriteStringToSocket, in every combination.    *)
(* The tests of files.cc, strings.cc and blocking_drain.cc are some of     *)
(* them.  What else the client may do with an end it holds is to write to  *)
(* it itself, shut its writing down, or close it.                          *)
(*                                                                         *)
(* A blocking call runs on a thread other than the message loop's; a call  *)
(* on the loop's thread would keep a handler at the other end from going   *)
(* on.  frame is where the call on an end is: about to read or write, or   *)
(* in wait_one.                                                            *)
(*                                                                         *)
(* The source of a string is not empty.  WriteStringToSocket may be given  *)
(* more than the socket takes: its FTL_DCHECK compares with a capacity the *)
(* author knew of, not with the socket's, and is gone in a release build.  *)
(*                                                                         *)
(* Operators named X_y are faulty variants of X.                           *)
(***************************************************************************)
EXTENDS FileCopy

VARIABLE frame   \* of each end's blocking call: "none", "copying", "wait_one"

pipeVars == <<vars, frame>>

Units == 1..MaxSize

TypeOK ==
  /\ Waiter!TypeOK
  /\ owner \in [Ends -> {"client", "handler", "thread", "local", "closed"}]
  /\ wait_id_ \in [Ends -> 0..MaxWaits]
  /\ posted \in [Ends -> {"none", "FillBuffer", "OnHandleReady"}]
  /\ run \in {<<>>} \cup (Ends \X {"FillBuffer", "ready", "error"})
  /\ result \in [Ends -> {"none", "true", "false"}]
  /\ size \in 0..MaxSize /\ offset \in 0..size
  /\ buffer_ \in Seq(Units) /\ Len(buffer_) <= BufferSize
  /\ buffer_offset_ \in 0..Len(buffer_)
  /\ socket \in Seq(Units) /\ Len(socket) <= Capacity
  /\ shutdown \in BOOLEAN
  /\ destination \in Seq(Units)
  /\ frame \in [Ends -> {"none", "copying", "wait_one"}]

\* The socket has been created by the client, or by WriteStringToSocket, which
\* keeps both ends until it is done.
Init ==
  /\ Waiter!Init
  /\ wait_id_ = [e \in Ends |-> 0]
  /\ posted = [e \in Ends |-> "none"]
  /\ run = <<>>
  /\ result = [e \in Ends |-> "none"]
  /\ size \in 0..MaxSize
  /\ offset = 0
  /\ buffer_ = <<>>
  /\ buffer_offset_ = 0
  /\ socket = <<>>
  /\ shutdown = FALSE
  /\ destination = <<>>
  /\ \/ /\ owner = [e \in Ends |-> "client"]
        /\ frame = [e \in Ends |-> "none"]
     \/ /\ 0 < size
        /\ owner = [e \in Ends |-> "local"]
        /\ frame = [e \in Ends |-> IF e = "from" THEN "copying" ELSE "none"]
-----------------------------------------------------------------------------
(* What the client does with its ends *)

\* A blocking call on its thread.
BeginBlocking(e) ==
  /\ owner[e] = "client"
  /\ result[e] = "none"
  /\ e = "from" => ~shutdown /\ offset < size
  /\ owner' = [owner EXCEPT ![e] = "thread"]
  /\ frame' = [frame EXCEPT ![e] = "copying"]
  /\ UNCHANGED <<waiterVars, wait_id_, posted, run, result, dataVars>>

ClientWrites ==
  /\ owner["from"] = "client"
  /\ ~shutdown
  /\ offset < size
  /\ WriteStatus = "OK"
  /\ offset' = offset + 1
  /\ socket' = Append(socket, offset + 1)
  /\ UNCHANGED <<waiterVars, stepVars, size, buffer_, buffer_offset_, shutdown,
                 destination, frame>>

ClientShutsDown ==
  /\ owner["from"] = "client"
  /\ ~shutdown
  /\ shutdown' = TRUE
  /\ UNCHANGED <<waiterVars, stepVars, fromVars, socket, destination, frame>>

ClientCloses(e) ==
  /\ owner[e] = "client"
  /\ owner' = [owner EXCEPT ![e] = "closed"]
  /\ UNCHANGED <<waiterVars, wait_id_, posted, run, result, dataVars, frame>>
-----------------------------------------------------------------------------
(* BlockingCopyFromString and WriteStringToSocket *)

\* The call returns value: WriteStringToSocket closes its end and hands over
\* the other; the caller of BlockingCopyFromString still has its end.
WriterReturns(value) ==
  /\ frame' = [frame EXCEPT !["from"] = "none"]
  /\ result' = [result EXCEPT !["from"] = value]
  /\ owner' = IF owner["from"] = "local" THEN [from |-> "closed", to |-> "client"]
                                         ELSE [owner EXCEPT !["from"] = "client"]
  /\ UNCHANGED <<waiterVars, wait_id_, posted, run>>

BlockingWrite_Once ==
  /\ frame["from"] = "copying"
  /\ WriteStatus = "OK"
  /\ LET n == Min({Room, size - offset}) IN
       /\ socket' = socket \o [i \in 1..n |-> offset + i]
       /\ offset' = offset + n
  /\ WriterReturns("true")
  /\ UNCHANGED <<size, buffer_, buffer_offset_, shutdown, destination>>
BlockingWrite ==
  /\ frame["from"] = "copying"
  /\ WriteStatus = "OK"
  /\ LET n == Min({Room, size - offset}) IN
       /\ socket' = socket \o [i \in 1..n |-> offset + i]
       /\ offset' = offset + n
  /\ IF offset' = size THEN WriterReturns("true")
                       ELSE UNCHANGED <<waiterVars, stepVars, frame>>
  /\ UNCHANGED <<size, buffer_, buffer_offset_, shutdown, destination>>

\* The reader is gone, and the rest with it: that is a success.
BlockingWriteEnds ==
  /\ frame["from"] = "copying"
  /\ WriteStatus = "PEER_CLOSED"
  /\ WriterReturns("true")
  /\ UNCHANGED dataVars
-----------------------------------------------------------------------------
(* BlockingDrainFrom; for BlockingCopyToString, destination is the string *)

\* The drain returns, and its end of the socket is closed.
DrainReturns(value) ==
  /\ frame' = [frame EXCEPT !["to"] = "none"]
  /\ result' = [result EXCEPT !["to"] = value]
  /\ owner' = [owner EXCEPT !["to"] = "closed"]
  /\ UNCHANGED <<waiterVars, wait_id_, posted, run>>

\* write_bytes takes what was read, or less, which ends the drain.
BlockingRead ==
  /\ frame["to"] = "copying"
  /\ ReadStatus = "OK"
  /\ socket' = SubSeq(socket, Len(Peek) + 1, Len(socket))
  /\ \/ /\ destination' = destination \o Peek
        /\ UNCHANGED <<waiterVars, stepVars, frame>>
     \/ /\ \E n \in 0..(Len(Peek) - 1) : destination' = destination \o SubSeq(Peek, 1, n)
        /\ DrainReturns("false")
  /\ UNCHANGED <<fromVars, shutdown>>

BlockingReadEnds ==
  /\ frame["to"] = "copying"
  /\ ReadStatus \in {"PEER_CLOSED", "BAD_STATE"}
  /\ DrainReturns(IF ReadStatus = "PEER_CLOSED" THEN "true" ELSE "false")
  /\ UNCHANGED dataVars
-----------------------------------------------------------------------------
BlockingWaits(e) ==
  /\ frame[e] = "copying"
  /\ (IF e = "from" THEN WriteStatus ELSE ReadStatus) = "SHOULD_WAIT"
  /\ frame' = [frame EXCEPT ![e] = "wait_one"]
  /\ UNCHANGED <<waiterVars, stepVars, dataVars>>

WaitReturns_Once(e) ==
  /\ frame[e] = "wait_one"
  /\ IF e = "from" THEN Room > 0 ELSE socket # <<>>
  /\ frame' = [frame EXCEPT ![e] = "copying"]
  /\ UNCHANGED <<waiterVars, stepVars, dataVars>>
WaitReturns(e) ==
  /\ frame[e] = "wait_one"
  /\ Triggered(e)
  /\ frame' = [frame EXCEPT ![e] = "copying"]
  /\ UNCHANGED <<waiterVars, stepVars, dataVars>>

WriterStep ==
  BlockingWrite \/ BlockingWriteEnds \/ BlockingWaits("from") \/ WaitReturns("from")

DrainStep ==
  BlockingRead \/ BlockingReadEnds \/ BlockingWaits("to") \/ WaitReturns("to")

ClientStep ==
  \/ (CopyToFileDescriptor \/ CopyFromFileDescriptor) /\ UNCHANGED frame
  \/ \E e \in Ends : BeginBlocking(e) \/ ClientCloses(e)
  \/ ClientWrites \/ ClientShutsDown

LoopGoesOn == (HandlerStep \/ LoopStep) /\ UNCHANGED frame

\* A thread whose other end is held by a handler the loop has forgotten waits
\* for ever.
Terminated == phase = "ended" /\ UNCHANGED pipeVars

Next ==
  \/ ClientStep \/ WriterStep \/ DrainStep
  \/ LoopGoesOn
  \/ (FillBufferFails \/ WriteFileFails \/ LoopCloses) /\ UNCHANGED frame
  \/ Terminated

Spec == Init /\ [][Next]_pipeVars

\* Threads and the loop do what is due; the loop's work is finite, so it does
\* not matter in which order.  Nothing is assumed of the client.
FairSpec ==
  Spec /\ WF_pipeVars(LoopGoesOn) /\ WF_pipeVars(WriterStep) /\ WF_pipeVars(DrainStep)
-----------------------------------------------------------------------------
Source == [i \in 1..size |-> i]

\* Through partial writes, waits and steps, buffers and socket stay in their
\* bounds, and units arrive once and in order.  A reader reports success only
\* when the socket has been drained and can have no more ("Returns |true| if
\* the socket has been drained", blocking_drain.h); when both sides report
\* success, all units have arrived, although BlockingCopyFromString calls it a
\* success when its reader is gone.
CopyIsExact ==
  /\ TypeOK
  /\ IsPrefix(destination, Source)
  /\ result["to"] = "true" => socket = <<>> /\ ~Open("from")
  /\ result["to"] = "true" /\ result["from"] = "true" => destination = Source

OtherEnd(e) == IF e = "from" THEN "to" ELSE "from"

\* What a copy may have to wait for: the client to use or close the other end,
\* even after it shut down its writing, which none of the readers' waits look
\* for; and a handler whose loop is gone.  WriteStringToSocket waits for room
\* that only the reader could make to which it has not returned yet.
MayStall(e) ==
  \/ owner[OtherEnd(e)] = "client"
  \/ owner[e] = "local" /\ size > Capacity
  \/ phase # "open" /\ \E h \in Ends : owner[h] = "handler"

\* A copy ends, with success or without, whatever is at the other end, unless
\* it stalls on one of the things above: the handlers' callbacks are called and
\* the blocking calls return.  So does WriteStringToSocket, up to a string that
\* just fills the socket.
CopiesEnd ==
  \A e \in Ends :
    owner[e] \in {"handler", "thread"} \/ frame[e] # "none"
      ~> owner[e] \in {"client", "closed"} \/ MayStall(e)
=============================================================================
