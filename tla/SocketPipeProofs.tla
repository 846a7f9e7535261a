-------------------------- MODULE SocketPipeProofs --------------------------
(***************************************************************************)
(* Theorems about SocketPipe and the copy handlers of FileCopy, for any    *)
(* amount of data, any sizes of the buffers and of the socket, and any     *)
(* number of waits: a handler always has exactly one way to go on, a copy  *)
(* reports once, and what the two sides copy arrives once, in order, and   *)
(* completely when both report success.                                    *)
(***************************************************************************)
EXTENDS SocketPipe, SequenceTheorems, FiniteSetTheorems, TLAPS

Running(h) == run # <<>> /\ run[1] = h

\* Who may be at an end: a blocking call has its frame there, a copy that is
\* over has left it to the client or closed it, and WriteStringToSocket holds
\* both or neither.
EndsInv ==
  /\ owner["from"] = "local" <=> owner["to"] = "local"
  /\ frame["from"] # "none" => owner["from"] \in {"thread", "local"}
  /\ frame["to"] # "none" => owner["to"] = "thread"
  /\ \A e \in Ends : result[e] # "none" => owner[e] \in {"client", "closed"}

\* The live waits are those the handlers remember, no two handlers the same.
WaitInv ==
  /\ \A h \in Ends : wait_id_[h] # 0 => watcher[wait_id_[h]] = "live"
  /\ \A w \in Waits : watcher[w] = "live" => \E h \in Ends : wait_id_[h] = w
  /\ wait_id_["from"] = wait_id_["to"] => wait_id_["from"] = 0
  /\ callback = "none" <=> calling = 0
  /\ run # <<>> => calling = 0 \/ inCallback

\* A handler runs, or has posted a step, or waits; it does no two of these, and
\* one as long as the loop is open.
GoOnInv ==
  \A h \in Ends :
    /\ owner[h] # "handler" => posted[h] = "none" /\ ~Running(h) /\ wait_id_[h] = 0
    /\ posted[h] # "none" => ~Running(h) /\ wait_id_[h] = 0
    /\ Running(h) => wait_id_[h] = 0
    /\ owner[h] = "handler" /\ phase = "open" =>
         posted[h] # "none" \/ Running(h) \/ wait_id_[h] # 0

\* What has been read from the source and is not in the socket yet.
Pending == Len(buffer_) - buffer_offset_

\* s holds a + 1, a + 2 and so on.
Consecutive(s, a) == \A i \in 1..Len(s) : s[i] = a + i

\* Buffer, socket and destination hold consecutive units of the source.
UnitsInv ==
  /\ Consecutive(buffer_, offset - Len(buffer_))
  /\ Consecutive(socket, offset - Pending - Len(socket))
  /\ Consecutive(destination, 0)

\* Nothing is missing between destination and socket, until a reader gives up
\* with part of what it read unwritten.
NoneLostInv ==
  /\ Len(destination) <= offset - Pending - Len(socket)
  /\ result["to"] # "false" => Len(destination) = offset - Pending - Len(socket)

\* The buffer is refilled when all of it has been written, and only a handler
\* has one.
BufferInv ==
  /\ posted["from"] = "FillBuffer" \/ run = <<"from", "FillBuffer">> => Pending = 0
  /\ owner["from"] \notin {"handler", "closed"} => buffer_ = <<>>

\* What a success says, and when it is said although not all was copied.
SuccessInv ==
  /\ result["to"] = "true" => socket = <<>> /\ ~Open("from")
  /\ result["from"] = "true" =>
       \/ offset = size /\ Pending = 0
       \/ ~Open("to") /\ result["to"] # "true"

StreamInv == UnitsInv /\ NoneLostInv /\ BufferInv /\ SuccessInv
-----------------------------------------------------------------------------
(* Sequences of consecutive units *)

LEMMA MinOfTwo ==
  ASSUME NEW a \in Nat, NEW b \in Nat
  PROVE  Min({a, b}) \in {a, b} /\ Min({a, b}) <= a /\ Min({a, b}) <= b
  <1> DEFINE m == IF a <= b THEN a ELSE b
  <1>1. m \in {a, b} /\ \A y \in {a, b} : m <= y
    OBVIOUS
  <1>2. Min({a, b}) \in {a, b} /\ \A y \in {a, b} : Min({a, b}) <= y
    BY <1>1 DEF Min
  <1> QED
    BY <1>2

LEMMA ConcatConsecutive ==
  ASSUME NEW S, NEW s \in Seq(S), NEW t \in Seq(S), NEW a \in Int,
         Consecutive(s, a), Consecutive(t, a + Len(s))
  PROVE  /\ s \o t \in Seq(S)
         /\ Len(s \o t) = Len(s) + Len(t)
         /\ Consecutive(s \o t, a)
  <1>1. Len(s) \in Nat /\ Len(t) \in Nat
    BY LenProperties
  <1>2. /\ s \o t \in Seq(S)
        /\ Len(s \o t) = Len(s) + Len(t)
        /\ \A i \in 1..(Len(s) + Len(t)) :
             (s \o t)[i] = IF i <= Len(s) THEN s[i] ELSE t[i - Len(s)]
    BY ConcatProperties
  <1>3. ASSUME NEW i \in 1..(Len(s) + Len(t))
        PROVE  (s \o t)[i] = a + i
    <2>1. CASE i <= Len(s)
      BY <1>1, <1>2, <2>1 DEF Consecutive
    <2>2. CASE i > Len(s)
      <3>1. i - Len(s) \in 1..Len(t) /\ (a + Len(s)) + (i - Len(s)) = a + i
        BY <1>1, <2>2
      <3>2. (s \o t)[i] = t[i - Len(s)]
        BY <1>1, <1>2, <2>2
      <3>3. QED
        BY <3>1, <3>2 DEF Consecutive
    <2>3. QED
      BY <1>1, <2>1, <2>2
  <1>4. QED
    BY <1>2, <1>3 DEF Consecutive

LEMMA SubSeqConsecutive ==
  ASSUME NEW S, NEW s \in Seq(S), NEW a \in Int, Consecutive(s, a),
         NEW m \in 1..(Len(s) + 1), NEW n \in (m - 1)..Len(s)
  PROVE  /\ SubSeq(s, m, n) \in Seq(S)
         /\ Len(SubSeq(s, m, n)) = n - m + 1
         /\ Consecutive(SubSeq(s, m, n), a + m - 1)
  <1>1. Len(s) \in Nat /\ \A i \in 1..Len(s) : s[i] \in S
    BY LenProperties, ElementOfSeq
  <1>2. \A i \in m..n : s[i] \in S
    BY <1>1
  <1>3. /\ SubSeq(s, m, n) \in Seq(S)
        /\ Len(SubSeq(s, m, n)) = IF m <= n THEN n - m + 1 ELSE 0
        /\ \A i \in 1..(n - m + 1) : SubSeq(s, m, n)[i] = s[m + i - 1]
    BY <1>1, <1>2, SubSeqProperties
  <1>4. Len(SubSeq(s, m, n)) = n - m + 1
    BY <1>1, <1>3
  <1>5. ASSUME NEW i \in 1..(n - m + 1)
        PROVE  SubSeq(s, m, n)[i] = (a + m - 1) + i
    <2>1. m + i - 1 \in 1..Len(s) /\ a + (m + i - 1) = (a + m - 1) + i
      BY <1>1
    <2>2. QED
      BY <1>3, <2>1 DEF Consecutive
  <1>6. QED
    BY <1>3, <1>4, <1>5 DEF Consecutive

\* The next n units of the source.
LEMMA NextUnits ==
  ASSUME NEW a \in Nat, NEW n \in Nat, a + n <= MaxSize
  PROVE  /\ [i \in 1..n |-> a + i] \in Seq(Units)
         /\ Len([i \in 1..n |-> a + i]) = n
         /\ Consecutive([i \in 1..n |-> a + i], a)
  <1> DEFINE s == [i \in 1..n |-> a + i]
  <1>1. s \in Seq(Units) /\ Len(s) = n
    <2>1. \A i \in 1..n : a + i \in Units
      BY FileCopyAssumption DEF Units
    <2>2. s \in [1..n -> Units]
      BY <2>1
    <2>3. s \in Seq(Units)
      BY <2>2, SeqDef
    <2>4. DOMAIN s = 1..n /\ DOMAIN s = 1..Len(s) /\ Len(s) \in Nat
      BY <2>2, <2>3, LenProperties
    <2> HIDE DEF s
    <2>5. QED
      BY <2>3, <2>4
  <1>2. \A i \in 1..n : s[i] = a + i
    OBVIOUS
  <1>3. QED
    BY <1>1, <1>2 DEF Consecutive
-----------------------------------------------------------------------------
(* The waiter, with any client *)

\* A watcher that the loop is calling is either still registered, or it has
\* deleted itself and is in its client's callback.
FrameInv ==
  /\ calling # 0 /\ ~inCallback => status[calling] = "registered"
  /\ inCallback => calling # 0 /\ watcher[calling] = "answered"

FreshInv == \A w \in Waits : status[w] = "unused" => watcher[w] = "none"

WaiterInv == Waiter!TypeOK /\ FrameInv /\ FreshInv /\ Waiter!WatchersRegistered

LEMMA WaiterInit == Waiter!Init => WaiterInv
  <1> SUFFICES ASSUME Waiter!Init
               PROVE  WaiterInv
    OBVIOUS
  <1> USE AsyncWaiterAssumption DEF Waiter!Init, Waiter!Loop!Init, Waiter!Waits, Waits
  <1>1. Waiter!TypeOK
    <2>1. inCallback \in BOOLEAN
      BY Zenon
    <2>2. QED
      BY <2>1, SMT DEF Waiter!TypeOK
  <1>2. FrameInv
    BY Zenon DEF FrameInv
  <1>3. FreshInv /\ Waiter!WatchersRegistered
    BY SMT DEF FreshInv, Waiter!WatchersRegistered
  <1> QED
    BY <1>1, <1>2, <1>3 DEF WaiterInv

LEMMA WaiterPreserved == WaiterInv /\ [Waiter!Next]_Waiter!vars => WaiterInv'
  <1> SUFFICES ASSUME WaiterInv, [Waiter!Next]_Waiter!vars
               PROVE  WaiterInv'
    OBVIOUS
  <1> USE AsyncWaiterAssumption DEF Waits, Waiter!Waits, WaiterInv, Waiter!TypeOK, FrameInv,
          FreshInv, Waiter!WatchersRegistered
  <1>1. ASSUME NEW w \in Waits, Waiter!AsyncWait(w)
        PROVE  WaiterInv'
    <2> watcher[w] = "none"
      BY <1>1 DEF Waiter!AsyncWait, Waiter!Fresh
    <2> QED
      BY <1>1, SMT DEF Waiter!AsyncWait, Waiter!Loop!Add, Waiter!Loop!Become
  <1>2. ASSUME NEW w \in Waits, Waiter!CancelWait(w)
        PROVE  WaiterInv'
    BY <1>2, SMT DEF Waiter!CancelWait, Waiter!ClientRuns, Waiter!DestroyWatcher,
       Waiter!Loop!Remove, Waiter!Loop!Become, Waiter!loopVars
  <1>3. ASSUME NEW w \in Waits, Waiter!CallCallback(w)
        PROVE  WaiterInv'
    <2>1. /\ inCallback'
          /\ inCallback' \in BOOLEAN
      BY <1>3, Zenon DEF Waiter!CallCallback
    <2>2. /\ calling = w /\ ~inCallback
          /\ watcher' = [watcher EXCEPT ![w] = "answered"]
          /\ answers' = [answers EXCEPT ![w] = @ + 1]
          /\ status' = [status EXCEPT ![w] = "removed"]
          /\ UNCHANGED <<calling, callback, phase>>
      BY <1>3 DEF Waiter!CallCallback, Waiter!DestroyWatcher, Waiter!Loop!Remove,
         Waiter!Loop!Become
    <2>3. QED
      BY <2>1, <2>2, SMT
  <1>4. ASSUME NEW w \in Waits, Waiter!LoopCalls(w)
        PROVE  WaiterInv'
    BY <1>4, SMT DEF Waiter!LoopCalls, Waiter!Loop!CallReady, Waiter!Loop!CallError,
       Waiter!waiterVars
  <1>5. CASE Waiter!LoopReturns
    <2>1. /\ ~inCallback'
          /\ inCallback' \in BOOLEAN
      BY <1>5, Zenon DEF Waiter!LoopReturns
    <2>2. /\ inCallback
          /\ status' = IF callback = "error" THEN [status EXCEPT ![calling] = "removed"]
                                             ELSE status
          /\ calling' = 0 /\ callback' = "none" /\ phase' = phase
          /\ watcher' = watcher /\ answers' = answers
      BY <1>5 DEF Waiter!LoopReturns, Waiter!Loop!Return, Waiter!Loop!Become
    <2>3. QED
      BY <2>1, <2>2, SMT
  <1>6. CASE Waiter!LoopCloses
    BY <1>6, SMT DEF Waiter!LoopCloses, Waiter!Loop!Close, Waiter!waiterVars
  <1>7. CASE Waiter!LoopEnds
    BY <1>7, SMT DEF Waiter!LoopEnds, Waiter!Loop!End, Waiter!waiterVars
  <1>8. CASE Waiter!Terminated \/ UNCHANGED Waiter!vars
    BY <1>8, SMT DEF Waiter!Terminated, Waiter!vars, Waiter!loopVars, Waiter!waiterVars
  <1> QED
    BY <1>1, <1>2, <1>3, <1>4, <1>5, <1>6, <1>7, <1>8 DEF Waiter!Next

\* What a step of the waiter does to its watchers and to the loop.
LEMMA WaiterSteps ==
  ASSUME NEW w \in Waits
  PROVE  /\ Waiter!AsyncWait(w) =>
              /\ status[w] = "unused"
              /\ watcher' = [watcher EXCEPT ![w] = "live"]
              /\ UNCHANGED <<calling, callback, phase, inCallback>>
         /\ Waiter!CallCallback(w) =>
              /\ calling = w /\ ~inCallback
              /\ watcher' = [watcher EXCEPT ![w] = "answered"]
              /\ inCallback'
              /\ UNCHANGED <<calling, callback, phase>>
         /\ Waiter!LoopCalls(w) =>
              /\ calling' = w /\ callback' \in {"ready", "error"}
              /\ UNCHANGED <<watcher, phase, inCallback>>
         /\ Waiter!LoopReturns =>
              calling' = 0 /\ callback' = "none" /\ UNCHANGED <<watcher, phase>>
         /\ Waiter!LoopCloses =>
              phase' # "open" /\ UNCHANGED <<watcher, calling, callback, inCallback>>
         /\ Waiter!LoopEnds =>
              phase' # "open" /\ UNCHANGED <<watcher, calling, callback, inCallback>>
  BY DEF Waiter!AsyncWait, Waiter!CallCallback, Waiter!LoopCalls, Waiter!LoopReturns,
         Waiter!LoopCloses, Waiter!LoopEnds, Waiter!Fresh, Waiter!DestroyWatcher,
         Waiter!waiterVars, Waiter!loopVars, Waiter!Loop!Add, Waiter!Loop!Remove,
         Waiter!Loop!Become, Waiter!Loop!CallReady, Waiter!Loop!CallError,
         Waiter!Loop!Return, Waiter!Loop!Close, Waiter!Loop!End

\* What is proved of the waiter, in the terms of this module.
LEMMA WaiterFacts ==
  ASSUME WaiterInv
  PROVE  /\ Waiter!TypeOK
         /\ watcher \in [Waits -> {"none", "live", "answered", "cancelled"}]
         /\ calling \in Waits \cup {0} /\ inCallback \in BOOLEAN
         /\ inCallback => calling # 0
         /\ calling # 0 /\ ~inCallback => watcher[calling] = "live"
         /\ \A w \in Waits :
              /\ status[w] = "unused" => watcher[w] = "none"
              /\ status[w] = "registered" => watcher[w] = "live"
  BY AsyncWaiterAssumption DEF WaiterInv, FrameInv, FreshInv, Waiter!TypeOK,
     Waiter!WatchersRegistered, Waiter!Waits, Waits
-----------------------------------------------------------------------------
(* Control: every step, by what it does to the handlers, the blocking calls *)
(* and the waiter.                                                          *)

Steps == {"FillBuffer", "OnHandleReady"}
Values == {"true", "false"}

HandlerStops(h) ==
  /\ Running(h)
  /\ \/ \E step \in Steps : Post(h, step)
     \/ Wait(h)
     \/ \E value \in Values : SendCallback(h, value)
  /\ UNCHANGED frame

CallBegins(e) == (\E step \in Steps : NewHandler(e, step)) /\ UNCHANGED frame

CallReturns ==
  \/ frame["from"] = "copying" /\ \E value \in Values : WriterReturns(value)
  \/ frame["to"] = "copying" /\ \E value \in Values : DrainReturns(value)

FrameMoves ==
  /\ UNCHANGED <<waiterVars, stepVars>>
  /\ \/ UNCHANGED frame
     \/ \E e \in Ends, f \in {"copying", "wait_one"} :
          frame[e] # "none" /\ frame' = [frame EXCEPT ![e] = f]

LEMMA ControlSteps ==
  ASSUME [Next]_pipeVars
  PROVE  \/ \E h \in Ends : HandlerStops(h)
         \/ \E h \in Ends : (RunPosted(h) \/ DropPosted(h)) /\ UNCHANGED frame
         \/ \E w \in Waits : (WaitComplete(w) \/ LoopCalls(w)) /\ UNCHANGED frame
         \/ (FillBuffer \/ LoopReturns \/ LoopCloses \/ LoopEnds) /\ UNCHANGED frame
         \/ \E e \in Ends : CallBegins(e) \/ BeginBlocking(e) \/ ClientCloses(e)
         \/ CallReturns
         \/ FrameMoves
  <1>1. CASE (\/ FillBufferEnds \/ FillBufferFails \/ WriteSocketFails \/ WriteSocket
              \/ WriteSocketWaits) /\ UNCHANGED frame
    <2>1. Running("from")
      BY <1>1 DEF FillBufferEnds, FillBufferFails, WriteSocketFails, WriteSocket,
         WriteSocketWaits, Running
    <2>2. \/ \E step \in Steps : Post("from", step)
          \/ Wait("from")
          \/ \E value \in Values : SendCallback("from", value)
      BY <1>1 DEF FillBufferEnds, FillBufferFails, WriteSocketFails, WriteSocket,
         WriteSocketWaits, Steps, Values
    <2>3. QED
      BY <1>1, <2>1, <2>2 DEF HandlerStops, Ends
  <1>2. CASE (\/ ReadSocket \/ WriteFileFails \/ ReadSocketWaits \/ ReadSocketEnds
              \/ ReadSocketFails) /\ UNCHANGED frame
    <2>1. Running("to")
      BY <1>2 DEF ReadSocket, WriteFileFails, ReadSocketWaits, ReadSocketEnds,
         ReadSocketFails, Running
    <2>2. \/ \E step \in Steps : Post("to", step)
          \/ Wait("to")
          \/ \E value \in Values : SendCallback("to", value)
      BY <1>2 DEF ReadSocket, WriteFileFails, ReadSocketWaits, ReadSocketEnds,
         ReadSocketFails, Steps, Values
    <2>3. QED
      BY <1>2, <2>1, <2>2 DEF HandlerStops, Ends
  <1>3. CASE (CopyToFileDescriptor \/ CopyFromFileDescriptor) /\ UNCHANGED frame
    BY <1>3 DEF CopyToFileDescriptor, CopyFromFileDescriptor, CallBegins, Steps, Ends
  <1>4. CASE ClientWrites \/ ClientShutsDown \/ Terminated \/ UNCHANGED pipeVars
    BY <1>4 DEF ClientWrites, ClientShutsDown, Terminated, FrameMoves, pipeVars, vars
  <1>5. CASE BlockingWrite \/ BlockingWriteEnds
    BY <1>5 DEF BlockingWrite, BlockingWriteEnds, FrameMoves, CallReturns, Values
  <1>6. CASE BlockingRead
    BY <1>6 DEF BlockingRead, FrameMoves, CallReturns, Values
  <1>7. CASE BlockingReadEnds
    BY <1>7 DEF BlockingReadEnds, FrameMoves, CallReturns, Values
  <1>8. ASSUME NEW e \in Ends, BlockingWaits(e) \/ WaitReturns(e)
        PROVE  FrameMoves
    BY <1>8 DEF BlockingWaits, WaitReturns, FrameMoves
  <1>9. "from" \in Ends /\ "to" \in Ends /\ Waiter!Waits = Waits
    BY DEF Ends, Waiter!Waits, Waits
  <1>10. QED
    BY <1>1, <1>2, <1>3, <1>4, <1>5, <1>6, <1>7, <1>8, <1>9
       DEF Next, ClientStep, WriterStep, DrainStep, LoopGoesOn, HandlerStep, LoopStep

ControlTypeOK ==
  /\ owner \in [Ends -> {"client", "handler", "thread", "local", "closed"}]
  /\ wait_id_ \in [Ends -> 0..MaxWaits]
  /\ posted \in [Ends -> {"none", "FillBuffer", "OnHandleReady"}]
  /\ run \in {<<>>} \cup (Ends \X {"FillBuffer", "ready", "error"})
  /\ result \in [Ends -> {"none", "true", "false"}]
  /\ frame \in [Ends -> {"none", "copying", "wait_one"}]

ControlInv == ControlTypeOK /\ EndsInv /\ WaitInv /\ GoOnInv

LEMMA RunIs ==
  ASSUME NEW h \in Ends, NEW f \in {"FillBuffer", "ready", "error"}
  PROVE  /\ <<h, f>> \in {<<>>} \cup (Ends \X {"FillBuffer", "ready", "error"})
         /\ <<h, f>> # <<>>
         /\ <<h, f>>[1] = h
  OBVIOUS

LEMMA ControlPreserved ==
  ASSUME ControlInv, WaiterInv, [Next]_pipeVars
  PROVE  ControlInv'
  <1> USE AsyncWaiterAssumption DEF Waits, Ends
  <1> USE WaiterFacts DEF ControlInv, ControlTypeOK, EndsInv, WaitInv, GoOnInv, Running
  <1>1. ASSUME NEW h \in Ends, HandlerStops(h)
        PROVE  ControlInv'
    <2>1. /\ run # <<>> /\ run[1] = h
          /\ owner[h] = "handler" /\ posted[h] = "none" /\ wait_id_[h] = 0
          /\ frame[h] = "none" /\ result[h] = "none"
          /\ \A g \in Ends : g # h => ~Running(g)
      BY <1>1 DEF HandlerStops
    <2>2. UNCHANGED frame
      BY <1>1 DEF HandlerStops
    <2>3. CASE \E step \in Steps : Post(h, step)
      BY <2>1, <2>2, <2>3 DEF Post, Steps, waiterVars
    <2>4. CASE Wait(h)
      <3>1. PICK w \in Waits : Waiter!AsyncWait(w) /\ wait_id_' = [wait_id_ EXCEPT ![h] = w]
        BY <2>4 DEF Wait, Waiter!Waits
      <3>2. /\ watcher[w] = "none" /\ watcher' = [watcher EXCEPT ![w] = "live"]
            /\ UNCHANGED <<calling, callback, phase, inCallback>>
        BY <3>1, WaiterSteps
      <3>3. run' = <<>> /\ UNCHANGED <<owner, posted, result>>
        BY <2>4 DEF Wait
      <3>4. ControlTypeOK' /\ EndsInv' /\ GoOnInv'
        BY <2>1, <2>2, <3>1, <3>2, <3>3
      <3>5. WaitInv'
        BY <2>1, <3>1, <3>2, <3>3
      <3>6. QED
        BY <3>4, <3>5
    <2>5. CASE \E value \in Values : SendCallback(h, value)
      BY <2>1, <2>2, <2>5 DEF SendCallback, Values, waiterVars
    <2>6. QED
      BY <1>1, <2>3, <2>4, <2>5 DEF HandlerStops
  <1>2. ASSUME NEW h \in Ends, RunPosted(h), UNCHANGED frame
        PROVE  ControlInv'
    <2> DEFINE f == IF posted[h] = "FillBuffer" THEN "FillBuffer" ELSE "ready"
    <2>1. /\ f \in {"FillBuffer", "ready", "error"} /\ run' = <<h, f>>
          /\ run = <<>> /\ calling = 0 /\ posted[h] # "none"
          /\ posted' = [posted EXCEPT ![h] = "none"]
          /\ UNCHANGED <<waiterVars, owner, wait_id_, result>>
      BY <1>2 DEF RunPosted, LoopIdle
    <2> HIDE DEF f
    <2>2. run' # <<>> /\ run'[1] = h
          /\ run' \in {<<>>} \cup (Ends \X {"FillBuffer", "ready", "error"})
      BY <2>1, RunIs
    <2>3. QED
      BY <1>2, <2>1, <2>2 DEF waiterVars
  <1>3. ASSUME NEW h \in Ends, DropPosted(h), UNCHANGED frame
        PROVE  ControlInv'
    BY <1>3 DEF DropPosted, LoopIdle, waiterVars
  <1>4. ASSUME NEW w \in Waits, WaitComplete(w), UNCHANGED frame
        PROVE  ControlInv'
    <2>1. PICK h \in Ends : /\ wait_id_[h] = w /\ Waiter!CallCallback(w)
                            /\ wait_id_' = [wait_id_ EXCEPT ![h] = 0]
                            /\ run' = <<h, callback>>
                            /\ UNCHANGED <<owner, posted, result>>
      BY <1>4 DEF WaitComplete
    <2>2. /\ calling = w /\ ~inCallback /\ inCallback'
          /\ watcher' = [watcher EXCEPT ![w] = "answered"]
          /\ UNCHANGED <<calling, callback, phase>>
      BY <2>1, WaiterSteps
    <2>3. callback \in {"ready", "error"} /\ run = <<>> /\ owner[h] = "handler"
      BY <2>1, <2>2 DEF Waiter!TypeOK
    <2>4. run' # <<>> /\ run'[1] = h
          /\ run' \in {<<>>} \cup (Ends \X {"FillBuffer", "ready", "error"})
      BY <2>1, <2>3, RunIs
    <2>5. ControlTypeOK' /\ EndsInv' /\ GoOnInv'
      BY <1>4, <2>1, <2>2, <2>3, <2>4
    <2>6. WaitInv'
      BY <2>1, <2>2, <2>3, <2>4
    <2>7. QED
      BY <2>5, <2>6
  <1>5. ASSUME NEW w \in Waits, LoopCalls(w), UNCHANGED frame
        PROVE  ControlInv'
    <2>1. /\ run = <<>> /\ calling' = w /\ callback' \in {"ready", "error"}
          /\ UNCHANGED <<watcher, phase, inCallback, stepVars>>
      BY <1>5, WaiterSteps DEF LoopCalls
    <2>2. QED
      BY <1>5, <2>1 DEF stepVars
  <1>6. CASE (LoopReturns \/ LoopCloses \/ LoopEnds) /\ UNCHANGED frame
    <2>1. /\ run = <<>>
          /\ UNCHANGED stepVars
          /\ Waiter!LoopReturns \/ Waiter!LoopCloses \/ Waiter!LoopEnds
      BY <1>6 DEF LoopReturns, LoopCloses, LoopEnds
    <2>2. \/ calling' = 0 /\ callback' = "none" /\ UNCHANGED <<watcher, phase>>
          \/ phase' # "open" /\ UNCHANGED <<watcher, calling, callback>>
      BY <2>1, WaiterSteps DEF Waiter!LoopReturns, Waiter!LoopCloses, Waiter!LoopEnds,
         Waiter!Loop!Return, Waiter!Loop!Close, Waiter!Loop!End, Waiter!waiterVars
    <2>3. QED
      BY <1>6, <2>1, <2>2 DEF stepVars
  <1>7. CASE FillBuffer /\ UNCHANGED frame
    <2>1. /\ run = <<"from", "FillBuffer">> /\ run' = <<"from", "ready">>
          /\ UNCHANGED <<waiterVars, owner, wait_id_, posted, result>>
      BY <1>7 DEF FillBuffer
    <2>2. QED
      BY <1>7, <2>1 DEF waiterVars
  <1>8. ASSUME NEW e \in Ends, CallBegins(e)
        PROVE  ControlInv'
    BY <1>8 DEF CallBegins, NewHandler, Steps, waiterVars
  <1>9. ASSUME NEW e \in Ends, BeginBlocking(e) \/ ClientCloses(e)
        PROVE  ControlInv'
    BY <1>9 DEF BeginBlocking, ClientCloses, waiterVars
  <1>10. ASSUME NEW value \in Values, frame["from"] = "copying", WriterReturns(value)
         PROVE  ControlInv'
    BY <1>10 DEF WriterReturns, Values, waiterVars
  <1>11. ASSUME NEW value \in Values, frame["to"] = "copying", DrainReturns(value)
         PROVE  ControlInv'
    BY <1>11 DEF DrainReturns, Values, waiterVars
  <1>12. CASE FrameMoves
    BY <1>12 DEF FrameMoves, waiterVars, stepVars
  <1>13. QED
    BY <1>1, <1>2, <1>3, <1>4, <1>5, <1>6, <1>7, <1>8, <1>9, <1>10, <1>11, <1>12,
       ControlSteps DEF CallReturns

LEMMA ContinuationsAre ==
  ASSUME NEW h \in Ends,
         posted[h] # "none" => ~Running(h) /\ ~IsWaiting(h),
         Running(h) => ~IsWaiting(h)
  PROVE  /\ Cardinality(Continuations(h)) <= 1
         /\ posted[h] = "none" /\ ~Running(h) /\ ~IsWaiting(h) => Continuations(h) = {}
         /\ posted[h] # "none" \/ Running(h) \/ IsWaiting(h) =>
              Cardinality(Continuations(h)) = 1
  <1>1. /\ "posted"  \in Continuations(h) <=> posted[h] # "none"
        /\ "running" \in Continuations(h) <=> Running(h)
        /\ "waiting" \in Continuations(h) <=> IsWaiting(h)
        /\ \A c \in Continuations(h) : c \in {"posted", "running", "waiting"}
    BY DEF Continuations, Running
  <1>2. \/ Continuations(h) = {}
        \/ \E c : Continuations(h) = {c}
    BY <1>1
  <1>3. CASE Continuations(h) = {}
    <2>1. Cardinality(Continuations(h)) = 0
      BY <1>3, FS_EmptySet
    <2>2. QED
      BY <1>1, <1>3, <2>1
  <1>4. CASE \E c : Continuations(h) = {c}
    <2>1. PICK c : Continuations(h) = {c}
      BY <1>4
    <2>2. Cardinality({c}) = 1
      BY FS_Singleton
    <2>3. QED
      BY <1>1, <2>1, <2>2
  <1>5. QED
    BY <1>2, <1>3, <1>4

LEMMA ControlOne == ControlInv /\ WaiterInv => OneContinuation
  <1> SUFFICES ASSUME ControlInv, WaiterInv
               PROVE  OneContinuation
    OBVIOUS
  <1> USE AsyncWaiterAssumption, WaiterFacts DEF ControlInv, WaitInv, GoOnInv, ControlTypeOK
  <1>0. Waiter!Waits = Waits
    BY DEF Waiter!Waits, Waits
  <1>1. ASSUME NEW h \in Ends
        PROVE  IsWaiting(h) <=> wait_id_[h] # 0
    BY <1>0 DEF IsWaiting, Waits
  <1>2. ASSUME NEW h \in Ends
        PROVE  IF owner[h] # "handler" THEN Continuations(h) = {}
               ELSE IF phase = "open"  THEN Cardinality(Continuations(h)) = 1
                                       ELSE Cardinality(Continuations(h)) <= 1
    <2>1. /\ posted[h] # "none" => ~Running(h) /\ ~IsWaiting(h)
          /\ Running(h) => ~IsWaiting(h)
          /\ owner[h] # "handler" => posted[h] = "none" /\ ~Running(h) /\ ~IsWaiting(h)
          /\ owner[h] = "handler" /\ phase = "open" =>
               posted[h] # "none" \/ Running(h) \/ IsWaiting(h)
      BY <1>1
    <2>2. /\ Cardinality(Continuations(h)) <= 1
          /\ posted[h] = "none" /\ ~Running(h) /\ ~IsWaiting(h) => Continuations(h) = {}
          /\ posted[h] # "none" \/ Running(h) \/ IsWaiting(h) =>
               Cardinality(Continuations(h)) = 1
      BY <2>1, ContinuationsAre
    <2>3. QED
      BY <2>1, <2>2
  <1>3. ASSUME NEW w \in Waits, status[w] = "registered"
        PROVE  \E h \in Ends : owner[h] = "handler" /\ wait_id_[h] = w
    BY <1>3 DEF Waits
  <1>4. run # <<>> => wait_id_[run[1]] = 0
    BY DEF Running
  <1>5. QED
    BY <1>0, <1>2, <1>3, <1>4 DEF OneContinuation
-----------------------------------------------------------------------------
(* Data *)

DataTypeOK ==
  /\ size \in 0..MaxSize /\ offset \in 0..size
  /\ buffer_ \in Seq(Units) /\ Len(buffer_) <= BufferSize
  /\ buffer_offset_ \in 0..Len(buffer_)
  /\ socket \in Seq(Units) /\ Len(socket) <= Capacity
  /\ shutdown \in BOOLEAN
  /\ destination \in Seq(Units)

DataInv == DataTypeOK /\ StreamInv

LEMMA ControlFacts ==
  ASSUME ControlInv
  PROVE  /\ \A h \in Ends : Running(h) =>
              owner[h] = "handler" /\ posted[h] = "none" /\ result[h] = "none"
         /\ frame["from"] # "none" =>
              owner["from"] \in {"thread", "local"} /\ result["from"] = "none"
         /\ frame["to"] # "none" => owner["to"] = "thread" /\ result["to"] = "none"
         /\ owner["from"] = "local" <=> owner["to"] = "local"
         /\ \A e \in Ends : owner[e] # "handler" => posted[e] = "none" /\ ~Running(e)
         /\ owner \in [Ends -> {"client", "handler", "thread", "local", "closed"}]
         /\ posted \in [Ends -> {"none", "FillBuffer", "OnHandleReady"}]
         /\ result \in [Ends -> {"none", "true", "false"}]
  BY DEF ControlInv, ControlTypeOK, EndsInv, GoOnInv, Ends

\* Lengths, offsets and capacities are numbers.
LEMMA DataFacts ==
  ASSUME DataTypeOK
  PROVE  /\ MaxSize \in Nat /\ BufferSize \in Nat \ {0} /\ Capacity \in Nat \ {0}
         /\ size \in Nat /\ offset \in Nat /\ offset <= size /\ size <= MaxSize
         /\ Len(buffer_) \in Nat /\ buffer_offset_ \in Nat
         /\ Pending \in Nat /\ Pending <= Len(buffer_)
         /\ Len(socket) \in Nat /\ Len(destination) \in Nat
         /\ Room \in Nat
         /\ socket = <<>> <=> Len(socket) = 0
         /\ buffer_ = <<>> => Pending = 0
  <1>1. Len(buffer_) \in Nat /\ Len(socket) \in Nat /\ Len(destination) \in Nat
    BY LenProperties DEF DataTypeOK
  <1>2. (socket = <<>> <=> Len(socket) = 0) /\ (buffer_ = <<>> => Len(buffer_) = 0)
    BY EmptySeq DEF DataTypeOK
  <1>3. QED
    BY <1>1, <1>2, FileCopyAssumption DEF DataTypeOK, Pending, Room

\* What a write adds to the socket continues what is in it.
LEMMA SocketGrows ==
  ASSUME DataTypeOK, UnitsInv,
         NEW s \in Seq(Units), NEW a \in Int, Consecutive(s, a),
         a = offset - Pending, Len(s) <= Room
  PROVE  /\ socket \o s \in Seq(Units)
         /\ Len(socket \o s) = Len(socket) + Len(s)
         /\ Len(socket \o s) <= Capacity
         /\ Consecutive(socket \o s, a - Len(socket))
  <1> DEFINE b == a - Len(socket)
  <1>1. b \in Int /\ b + Len(socket) = a /\ Len(socket) \in Nat /\ Len(s) \in Nat
    BY DataFacts, LenProperties
  <1>2. Consecutive(socket, b) /\ socket \in Seq(Units)
    BY DEF UnitsInv, DataTypeOK
  <1> HIDE DEF b
  <1>3. Consecutive(s, b + Len(socket))
    BY <1>1
  <1>4. /\ socket \o s \in Seq(Units)
        /\ Len(socket \o s) = Len(socket) + Len(s)
        /\ Consecutive(socket \o s, b)
    BY <1>1, <1>2, <1>3, ConcatConsecutive
  <1>5. Len(socket) + Len(s) <= Capacity
    BY <1>1, FileCopyAssumption DEF Room
  <1>6. QED
    BY <1>4, <1>5 DEF b

\* What a reader takes from the socket, n units of it written to the
\* destination.
LEMMA SocketDrains ==
  ASSUME DataTypeOK, UnitsInv, NEW n \in 0..Len(Peek),
         Len(destination) = offset - Pending - Len(socket)
  PROVE  LET rest == SubSeq(socket, Len(Peek) + 1, Len(socket))
             out  == destination \o SubSeq(Peek, 1, n)
         IN  /\ Len(Peek) \in 0..Len(socket)
             /\ rest \in Seq(Units)
             /\ Len(rest) = Len(socket) - Len(Peek)
             /\ Consecutive(rest, offset - Pending - Len(rest))
             /\ out \in Seq(Units)
             /\ Len(out) = Len(destination) + n
             /\ Consecutive(out, 0)
             /\ SubSeq(Peek, 1, Len(Peek)) = Peek
  <1> DEFINE k == Min({BufferSize, Len(socket)})
             a == Len(destination)
             rest == SubSeq(socket, Len(Peek) + 1, Len(socket))
             part == SubSeq(Peek, 1, n)
  <1>1. /\ Len(socket) \in Nat /\ a \in Int /\ Len(destination) \in Nat
        /\ offset \in Nat /\ Pending \in Nat
        /\ k \in 0..Len(socket)
    <2>1. /\ Len(socket) \in Nat /\ BufferSize \in Nat /\ Len(destination) \in Nat
          /\ offset \in Nat /\ Pending \in Nat
      BY DataFacts
    <2>2. k \in {BufferSize, Len(socket)} /\ k <= Len(socket)
      BY <2>1, MinOfTwo
    <2>3. QED
      BY <2>1, <2>2
  <1>2. Consecutive(socket, a) /\ socket \in Seq(Units) /\ destination \in Seq(Units)
        /\ Consecutive(destination, 0)
    BY DEF UnitsInv, DataTypeOK
  <1> HIDE DEF k, a
  <1>3. Peek \in Seq(Units) /\ Len(Peek) = k /\ Consecutive(Peek, a)
    <2>1. 1 \in 1..(Len(socket) + 1) /\ k \in (1 - 1)..Len(socket) /\ k - 1 + 1 = k
          /\ a + 1 - 1 = a
      BY <1>1
    <2>2. /\ SubSeq(socket, 1, k) \in Seq(Units)
          /\ Len(SubSeq(socket, 1, k)) = k - 1 + 1
          /\ Consecutive(SubSeq(socket, 1, k), a + 1 - 1)
      BY <1>1, <1>2, <2>1, SubSeqConsecutive
    <2>3. QED
      BY <2>1, <2>2 DEF Peek, k
  <1>4. rest \in Seq(Units) /\ Len(rest) = Len(socket) - k /\ Consecutive(rest, a + k)
    <2> DEFINE m == k + 1
    <2>1. m \in 1..(Len(socket) + 1) /\ Len(socket) \in (m - 1)..Len(socket)
          /\ Len(socket) - m + 1 = Len(socket) - k /\ a + m - 1 = a + k
      BY <1>1
    <2> HIDE DEF m
    <2>2. /\ SubSeq(socket, m, Len(socket)) \in Seq(Units)
          /\ Len(SubSeq(socket, m, Len(socket))) = Len(socket) - m + 1
          /\ Consecutive(SubSeq(socket, m, Len(socket)), a + m - 1)
      BY <1>1, <1>2, <2>1, SubSeqConsecutive
    <2>3. QED
      BY <1>3, <2>1, <2>2 DEF m
  <1>5. part \in Seq(Units) /\ Len(part) = n /\ Consecutive(part, a)
    <2>1. 1 \in 1..(Len(Peek) + 1) /\ n \in (1 - 1)..Len(Peek) /\ n - 1 + 1 = n
          /\ a + 1 - 1 = a
      BY <1>1, <1>3
    <2>2. /\ SubSeq(Peek, 1, n) \in Seq(Units)
          /\ Len(SubSeq(Peek, 1, n)) = n - 1 + 1
          /\ Consecutive(SubSeq(Peek, 1, n), a + 1 - 1)
      BY <1>1, <1>3, <2>1, SubSeqConsecutive
    <2>3. QED
      BY <2>1, <2>2
  <1> HIDE DEF rest, part
  <1>6. /\ destination \o part \in Seq(Units)
        /\ Len(destination \o part) = Len(destination) + n
        /\ Consecutive(destination \o part, 0)
    <2>1. 0 \in Int /\ Consecutive(part, 0 + Len(destination))
      BY <1>1, <1>5 DEF a
    <2>2. /\ destination \o part \in Seq(Units)
          /\ Len(destination \o part) = Len(destination) + Len(part)
          /\ Consecutive(destination \o part, 0)
      BY <1>2, <1>5, <2>1, ConcatConsecutive, Zenon
    <2>3. QED
      BY <1>5, <2>2
  <1>7. offset - Pending - Len(rest) = a + k
    BY <1>1, <1>4 DEF a
  <1>8. SubSeq(Peek, 1, Len(Peek)) = Peek
    BY <1>3, SubSeqFull
  <1>9. QED
    BY <1>1, <1>3, <1>4, <1>6, <1>7, <1>8 DEF rest, part

LEMMA DataPreserved ==
  ASSUME ControlInv, WaiterInv, DataInv, [Next]_pipeVars
  PROVE  DataInv'
  <1>a. /\ \A h \in Ends : Running(h) =>
              owner[h] = "handler" /\ posted[h] = "none" /\ result[h] = "none"
        /\ frame["from"] # "none" =>
             owner["from"] \in {"thread", "local"} /\ result["from"] = "none"
        /\ frame["to"] # "none" => owner["to"] = "thread" /\ result["to"] = "none"
        /\ owner["from"] = "local" <=> owner["to"] = "local"
        /\ \A e \in Ends : owner[e] # "handler" => posted[e] = "none" /\ ~Running(e)
        /\ owner \in [Ends -> {"client", "handler", "thread", "local", "closed"}]
        /\ posted \in [Ends -> {"none", "FillBuffer", "OnHandleReady"}]
        /\ result \in [Ends -> {"none", "true", "false"}]
    BY ControlFacts
  <1>b. /\ DataTypeOK
        /\ MaxSize \in Nat /\ BufferSize \in Nat \ {0} /\ Capacity \in Nat \ {0}
        /\ size \in Nat /\ offset \in Nat /\ offset <= size /\ size <= MaxSize
        /\ Len(buffer_) \in Nat /\ buffer_offset_ \in Nat
        /\ Pending \in Nat /\ Pending <= Len(buffer_)
        /\ Len(socket) \in Nat /\ Len(destination) \in Nat
        /\ Room \in Nat
        /\ socket = <<>> <=> Len(socket) = 0
        /\ buffer_ = <<>> => Pending = 0
    BY DataFacts DEF DataInv
  <1>c. UnitsInv /\ NoneLostInv /\ BufferInv /\ SuccessInv
    BY DEF DataInv, StreamInv
  <1> SUFFICES DataTypeOK' /\ UnitsInv' /\ NoneLostInv' /\ BufferInv' /\ SuccessInv'
    BY DEF DataInv, StreamInv
  <1> HIDE DEF DataInv, StreamInv
  <1> USE <1>a, <1>b, <1>c
  <1>0. callback # "FillBuffer"
    BY WaiterFacts DEF Waiter!TypeOK
  <1>1. CASE FillBuffer
    <2>1. Running("from") /\ Pending = 0
      BY <1>1 DEF FillBuffer, Running, BufferInv
    <2>2. PICK n \in 1..Min({BufferSize, size - offset}) :
            buffer_' = [i \in 1..n |-> offset + i] /\ offset' = offset + n
      BY <1>1 DEF FillBuffer
    <2>3. n \in Nat \ {0} /\ n <= BufferSize /\ offset + n <= size
      <3>1. size - offset \in Nat
        OBVIOUS
      <3>2. Min({BufferSize, size - offset}) \in Nat
            /\ Min({BufferSize, size - offset}) <= BufferSize
            /\ Min({BufferSize, size - offset}) <= size - offset
        BY <3>1, MinOfTwo
      <3>3. QED
        BY <2>2, <3>2
    <2>4. buffer_' \in Seq(Units) /\ Len(buffer_') = n /\ Consecutive(buffer_', offset)
      <3>1. n \in Nat /\ offset + n <= MaxSize
        BY <2>3
      <3>2. QED
        BY <2>2, <3>1, NextUnits, Zenon
    <2>5. /\ run' = <<"from", "ready">> /\ buffer_offset_' = 0
          /\ UNCHANGED <<owner, posted, result, size, socket, shutdown, destination>>
      BY <1>1 DEF FillBuffer
    <2>6. Pending' = n /\ offset' - Pending' = offset - Pending
          /\ offset' - Len(buffer_') = offset
      <3>1. Pending' = n
        BY <2>3, <2>4, <2>5 DEF Pending
      <3>2. offset' = offset + n
        BY <2>2
      <3>3. QED
        BY <2>1, <2>3, <2>4, <3>1, <3>2
    <2>7. DataTypeOK'
      BY <2>2, <2>3, <2>4, <2>5 DEF DataTypeOK
    <2>8. UnitsInv'
      BY <2>4, <2>5, <2>6 DEF UnitsInv
    <2>9. NoneLostInv'
      BY <2>5, <2>6 DEF NoneLostInv
    <2>10. BufferInv' /\ SuccessInv'
      BY <2>1, <2>5 DEF BufferInv, SuccessInv, Ends, Open
    <2>11. QED
      BY <2>7, <2>8, <2>9, <2>10
  <1>2. CASE WriteSocket
    <2> DEFINE n == Written
               part == SubSeq(buffer_, buffer_offset_ + 1, buffer_offset_ + n)
    <2>1. Running("from")
      BY <1>2 DEF WriteSocket, Running
    <2>2. n \in Nat /\ n <= Room /\ n <= Pending
      BY MinOfTwo DEF Written, Pending
    <2>3. /\ buffer_offset_' = buffer_offset_ + n /\ socket' = socket \o part
          /\ run' = <<>>
          /\ posted' = [posted EXCEPT !["from"] =
                          IF buffer_offset_' = Len(buffer_) THEN "FillBuffer" ELSE "OnHandleReady"]
          /\ UNCHANGED <<owner, result, size, offset, buffer_, shutdown, destination>>
      BY <1>2 DEF WriteSocket, Post
    <2> HIDE DEF n
    <2>4. /\ part \in Seq(Units) /\ Len(part) = n
          /\ Consecutive(part, offset - Pending)
      <3> DEFINE m == buffer_offset_ + 1
                 l == buffer_offset_ + n
                 a == offset - Len(buffer_)
      <3>1. /\ m \in 1..(Len(buffer_) + 1) /\ l \in (m - 1)..Len(buffer_)
            /\ l - m + 1 = n /\ a \in Int /\ a + m - 1 = offset - Pending
        BY <2>2 DEF Pending
      <3>2. buffer_ \in Seq(Units) /\ Consecutive(buffer_, a)
        BY DEF DataTypeOK, UnitsInv
      <3> HIDE DEF m, l, a
      <3>3. /\ SubSeq(buffer_, m, l) \in Seq(Units)
            /\ Len(SubSeq(buffer_, m, l)) = l - m + 1
            /\ Consecutive(SubSeq(buffer_, m, l), a + m - 1)
        BY <3>1, <3>2, SubSeqConsecutive
      <3>4. QED
        BY <3>1, <3>3 DEF m, l
    <2> HIDE DEF part
    <2>5. /\ socket' \in Seq(Units) /\ Len(socket') = Len(socket) + n
          /\ Len(socket') <= Capacity
          /\ Consecutive(socket', offset - Pending - Len(socket))
      <3> DEFINE a == offset - Pending
      <3>1. a \in Int /\ Len(part) <= Room
        BY <2>2, <2>4
      <3> HIDE DEF a
      <3>2. a = offset - Pending
        BY DEF a
      <3>3. /\ socket \o part \in Seq(Units)
            /\ Len(socket \o part) = Len(socket) + Len(part)
            /\ Len(socket \o part) <= Capacity
            /\ Consecutive(socket \o part, a - Len(socket))
        BY <2>4, <3>1, <3>2, SocketGrows
      <3>4. QED
        BY <2>3, <2>4, <3>2, <3>3
    <2>6. Pending' = Pending - n
          /\ offset' - Pending' - Len(socket') = offset - Pending - Len(socket)
      BY <2>2, <2>3, <2>5 DEF Pending
    <2>7. DataTypeOK'
      BY <2>2, <2>3, <2>5 DEF DataTypeOK, Pending
    <2>8. UnitsInv'
      BY <2>3, <2>5, <2>6 DEF UnitsInv
    <2>9. NoneLostInv'
      BY <2>3, <2>6 DEF NoneLostInv
    <2>10. BufferInv'
      BY <2>1, <2>3 DEF BufferInv, Ends, Pending
    <2>11. SuccessInv'
      BY <2>1, <2>3 DEF SuccessInv, Ends, Open
    <2>12. QED
      BY <2>7, <2>8, <2>9, <2>10, <2>11
  <1>3. ASSUME NEW n \in 0..Len(Peek),
               Running("to") \/ frame["to"] # "none",
               socket' = SubSeq(socket, Len(Peek) + 1, Len(socket)),
               destination' = destination \o SubSeq(Peek, 1, n),
               UNCHANGED <<fromVars, shutdown>>,
               \/ n = Len(Peek) /\ UNCHANGED <<owner, result>>
                  /\ run' \in {<<>>, run} /\ posted'["from"] = posted["from"]
               \/ /\ owner' = [owner EXCEPT !["to"] = "closed"]
                  /\ result' = [result EXCEPT !["to"] = "false"]
                  /\ run' \in {<<>>, run} /\ UNCHANGED posted
        PROVE  DataTypeOK' /\ UnitsInv' /\ NoneLostInv' /\ BufferInv' /\ SuccessInv'
    <2>1. result["to"] = "none" /\ owner["to"] \in {"handler", "thread"}
      BY <1>3 DEF Ends
    <2>2. Len(destination) = offset - Pending - Len(socket)
      BY <2>1 DEF NoneLostInv
    <2>3. /\ Len(Peek) \in 0..Len(socket)
          /\ socket' \in Seq(Units)
          /\ Len(socket') = Len(socket) - Len(Peek)
          /\ Consecutive(socket', offset - Pending - Len(socket'))
          /\ destination' \in Seq(Units)
          /\ Len(destination') = Len(destination) + n
          /\ Consecutive(destination', 0)
      BY <1>3, <2>2, SocketDrains
    <2>4. Pending' = Pending /\ UNCHANGED <<size, offset, buffer_, buffer_offset_>>
      BY <1>3 DEF fromVars, Pending
    <2>5. DataTypeOK'
      BY <1>3, <2>3, <2>4 DEF DataTypeOK
    <2>6. UnitsInv'
      BY <2>3, <2>4 DEF UnitsInv
    <2>7. NoneLostInv'
      <3>1. /\ offset' - Pending' - Len(socket') = Len(destination) + Len(Peek)
            /\ Len(destination') = Len(destination) + n
            /\ n <= Len(Peek)
        BY <2>2, <2>3, <2>4
      <3>2. n = Len(Peek) \/ result'["to"] = "false"
        BY <1>3 DEF Ends
      <3>3. QED
        BY <2>3, <3>1, <3>2, SMTT(40) DEF NoneLostInv
    <2>8. BufferInv'
      <3>1. owner'["from"] = owner["from"] /\ posted'["from"] = posted["from"]
        BY <1>3 DEF Ends
      <3>2. run' = run \/ run' # <<"from", "FillBuffer">>
        <4>1. <<>> # <<"from", "FillBuffer">>
          OBVIOUS
        <4>2. run' = <<>> \/ run' = run
          BY <1>3, Zenon
        <4>3. QED
          BY <4>1, <4>2
      <3>3. QED
        BY <2>4, <3>1, <3>2 DEF BufferInv
    <2>9. SuccessInv'
      BY <1>3, <2>1, <2>4 DEF SuccessInv, Ends, Open
    <2>10. QED
      BY <2>5, <2>6, <2>7, <2>8, <2>9
  <1>4. CASE ReadSocket \/ WriteFileFails \/ BlockingRead
    <2>1. Running("to") \/ frame["to"] # "none"
      BY <1>4 DEF ReadSocket, WriteFileFails, BlockingRead, Running
    <2>2. /\ socket' = SubSeq(socket, Len(Peek) + 1, Len(socket))
          /\ UNCHANGED <<fromVars, shutdown>>
      BY <1>4 DEF ReadSocket, WriteFileFails, BlockingRead
    <2>3. Len(Peek) \in Nat /\ SubSeq(Peek, 1, Len(Peek)) = Peek
      <3>1. Len(destination) = offset - Pending - Len(socket)
        BY <2>1 DEF NoneLostInv, Ends
      <3>2. Peek \in Seq(Units)
        <4> DEFINE k == Min({BufferSize, Len(socket)})
        <4>1. k \in {BufferSize, Len(socket)} /\ k <= Len(socket)
          BY MinOfTwo
        <4> HIDE DEF k
        <4>2. \A i \in 1..k : socket[i] \in Units
          BY <4>1, ElementOfSeq DEF DataTypeOK
        <4>3. k \in Int /\ 1 \in Int
          BY <4>1
        <4>4. SubSeq(socket, 1, k) \in Seq(Units)
          BY <4>2, <4>3, SubSeqProperties
        <4>5. QED
          BY <4>4 DEF Peek, k
      <3>3. QED
        BY <3>2, SubSeqFull, LenProperties
    <2>4. CASE ReadSocket \/ (BlockingRead /\ destination' = destination \o Peek
                              /\ UNCHANGED <<waiterVars, stepVars, frame>>)
      <3>1. /\ destination' = destination \o SubSeq(Peek, 1, Len(Peek))
            /\ Len(Peek) \in 0..Len(Peek)
            /\ UNCHANGED <<owner, result>>
            /\ run' \in {<<>>, run} /\ posted'["from"] = posted["from"]
        BY <2>3, <2>4, SMTT(40) DEF ReadSocket, Post, stepVars, Ends
      <3>2. QED
        BY <2>1, <2>2, <3>1, <1>3
    <2>5. CASE WriteFileFails \/ (BlockingRead /\ DrainReturns("false") /\
               \E n \in 0..(Len(Peek) - 1) : destination' = destination \o SubSeq(Peek, 1, n))
      <3>1. PICK n \in 0..(Len(Peek) - 1) : destination' = destination \o SubSeq(Peek, 1, n)
        BY <2>5 DEF WriteFileFails
      <3>2. /\ owner' = [owner EXCEPT !["to"] = "closed"]
            /\ result' = [result EXCEPT !["to"] = "false"]
            /\ run' \in {<<>>, run} /\ UNCHANGED posted
        BY <2>5 DEF WriteFileFails, SendCallback, DrainReturns
      <3>3. n \in 0..Len(Peek)
        BY <2>3, <3>1
      <3>4. QED
        BY <2>1, <2>2, <3>1, <3>2, <3>3, <1>3
    <2>6. QED
      BY <1>4, <2>4, <2>5 DEF BlockingRead
  <1>5. CASE ClientWrites
    <2>1. /\ owner["from"] = "client" /\ WriteStatus = "OK"
          /\ offset < size /\ offset' = offset + 1 /\ socket' = Append(socket, offset + 1)
          /\ UNCHANGED <<stepVars, size, buffer_, buffer_offset_, shutdown, destination>>
      BY <1>5 DEF ClientWrites
    <2>2. Pending = 0 /\ Room >= 1 /\ Open("to") /\ buffer_ = <<>> /\ Len(buffer_) = 0
      BY <2>1 DEF BufferInv, WriteStatus, Pending
    <2>3. <<offset + 1>> \in Seq(Units) /\ Len(<<offset + 1>>) = 1
          /\ Consecutive(<<offset + 1>>, offset)
      BY <2>1 DEF Units, Consecutive
    <2>4. socket' = socket \o <<offset + 1>>
      BY <2>1, <2>3, AppendIsConcat, SMTT(40) DEF DataTypeOK, Units
    <2>5. /\ socket' \in Seq(Units) /\ Len(socket') = Len(socket) + 1
          /\ Len(socket') <= Capacity
          /\ Consecutive(socket', offset - Len(socket))
      <3> DEFINE s == <<offset + 1>>
      <3> HIDE DEF s
      <3>1. s \in Seq(Units) /\ Len(s) = 1 /\ Consecutive(s, offset) /\ socket' = socket \o s
        BY <2>3, <2>4 DEF s
      <3>2. offset \in Int /\ offset = offset - Pending /\ Len(s) <= Room
        BY <2>2, <3>1
      <3>3. QED
        BY <3>1, <3>2, SocketGrows, ZenonT(60)
    <2>6. Pending' = 0 /\ offset' - Pending' - Len(socket') = offset - Len(socket)
      BY <2>1, <2>2, <2>5 DEF Pending
    <2>7. DataTypeOK'
      BY <2>1, <2>5 DEF DataTypeOK
    <2>8. UnitsInv'
      <3>1. Consecutive(buffer_', offset' - Len(buffer_'))
        BY <2>1, <2>2 DEF Consecutive
      <3>2. QED
        BY <2>1, <2>5, <2>6, <3>1 DEF UnitsInv
    <2>9. NoneLostInv'
      BY <2>1, <2>2, <2>6 DEF NoneLostInv, stepVars
    <2>10. BufferInv' /\ SuccessInv'
      BY <2>1, <2>2, <2>6 DEF BufferInv, SuccessInv, Open, stepVars
    <2>11. QED
      BY <2>7, <2>8, <2>9, <2>10
  <1>6. CASE BlockingWrite
    <2> DEFINE n == Min({Room, size - offset})
               part == [i \in 1..n |-> offset + i]
    <2>1. /\ frame["from"] = "copying" /\ WriteStatus = "OK"
          /\ offset' = offset + n /\ socket' = socket \o part
          /\ \/ offset' = size /\ WriterReturns("true")
             \/ UNCHANGED stepVars
          /\ UNCHANGED <<size, buffer_, buffer_offset_, shutdown, destination>>
      BY <1>6 DEF BlockingWrite
    <2>2. owner["from"] \in {"thread", "local"} /\ result["from"] = "none"
          /\ Pending = 0 /\ Open("to") /\ buffer_ = <<>> /\ Len(buffer_) = 0
      BY <2>1 DEF BufferInv, WriteStatus
    <2>3. n \in Nat /\ n <= Room /\ n <= size - offset
      <3>1. size - offset \in Nat
        OBVIOUS
      <3>2. QED
        BY <3>1, MinOfTwo
    <2> HIDE DEF n
    <2>4. part \in Seq(Units) /\ Len(part) = n /\ Consecutive(part, offset)
      <3>1. offset + n <= MaxSize
        BY <2>3
      <3>2. QED
        BY <2>3, <3>1, NextUnits, Zenon
    <2> HIDE DEF part
    <2>5. /\ socket' \in Seq(Units) /\ Len(socket') = Len(socket) + n
          /\ Len(socket') <= Capacity
          /\ Consecutive(socket', offset - Len(socket))
      <3>1. offset \in Int /\ offset = offset - Pending /\ Len(part) <= Room
        BY <2>2, <2>3, <2>4
      <3>2. QED
        BY <2>1, <2>4, <3>1, SocketGrows
    <2>6. Pending' = 0 /\ offset' - Pending' - Len(socket') = offset - Len(socket)
      BY <2>1, <2>2, <2>3, <2>5 DEF Pending
    <2>7. DataTypeOK'
      BY <2>1, <2>3, <2>5 DEF DataTypeOK
    <2>8. UnitsInv'
      <3>1. Consecutive(buffer_', offset' - Len(buffer_'))
        BY <2>1, <2>2 DEF Consecutive
      <3>2. QED
        BY <2>1, <2>5, <2>6, <3>1 DEF UnitsInv
    <2>9. /\ result'["to"] = result["to"] /\ UNCHANGED <<posted, run>>
          /\ owner'["from"] # "handler"
          /\ UNCHANGED result \/ offset' = size
      BY <2>1, <2>2 DEF WriterReturns, stepVars, Ends
    <2>10. NoneLostInv'
      BY <2>1, <2>2, <2>6, <2>9 DEF NoneLostInv
    <2>11. BufferInv'
      BY <2>1, <2>2, <2>6, <2>9 DEF BufferInv
    <2>12. SuccessInv'
      BY <2>1, <2>2, <2>6, <2>9 DEF SuccessInv, Open
    <2>13. QED
      BY <2>7, <2>8, <2>10, <2>11, <2>12
  <1>7. ASSUME UNCHANGED <<fromVars, socket, destination>>, shutdown' \in BOOLEAN
        PROVE  /\ DataTypeOK' /\ UnitsInv' /\ Pending' = Pending
               /\ UNCHANGED <<size, offset, buffer_, buffer_offset_, socket>>
               /\ Len(destination') - offset' + Pending' + Len(socket')
                    = Len(destination) - offset + Pending + Len(socket)
    BY <1>7 DEF fromVars, DataTypeOK, UnitsInv, Pending
  <1>8. ASSUME UNCHANGED <<fromVars, socket, destination, owner, result>>,
               shutdown' \in BOOLEAN,
               posted'["from"] \in {posted["from"], "none"},
               run' = <<"from", "FillBuffer">> =>
                 run = <<"from", "FillBuffer">> \/ posted["from"] = "FillBuffer"
        PROVE  DataTypeOK' /\ UnitsInv' /\ NoneLostInv' /\ BufferInv' /\ SuccessInv'
    <2>1. DataTypeOK' /\ UnitsInv' /\ Pending' = Pending
          /\ UNCHANGED <<size, offset, buffer_, buffer_offset_, socket, destination>>
      BY <1>7, <1>8
    <2>2. NoneLostInv' /\ SuccessInv'
      BY <1>8, <2>1 DEF NoneLostInv, SuccessInv, Open
    <2>3. BufferInv'
      BY <1>8, <2>1 DEF BufferInv
    <2>4. QED
      BY <2>1, <2>2, <2>3
  <1>9. CASE \/ WriteSocketWaits \/ ReadSocketWaits
             \/ \E h \in Ends : RunPosted(h) \/ DropPosted(h)
             \/ \E w \in Waits : WaitComplete(w) \/ LoopCalls(w)
             \/ LoopReturns \/ LoopCloses \/ LoopEnds
             \/ ClientShutsDown
             \/ \E e \in Ends : BlockingWaits(e) \/ WaitReturns(e)
             \/ Terminated \/ UNCHANGED pipeVars
    <2>1. UNCHANGED <<fromVars, socket, destination, owner, result>>
      BY <1>9 DEF WriteSocketWaits, ReadSocketWaits, RunPosted, DropPosted, WaitComplete,
         LoopCalls, LoopReturns, LoopCloses, LoopEnds, ClientShutsDown, BlockingWaits,
         WaitReturns, Terminated, Wait, pipeVars, vars, stepVars, dataVars
    <2>2. shutdown' \in BOOLEAN
      BY <1>9 DEF WriteSocketWaits, ReadSocketWaits, RunPosted, DropPosted, WaitComplete,
         LoopCalls, LoopReturns, LoopCloses, LoopEnds, ClientShutsDown, BlockingWaits,
         WaitReturns, Terminated, Wait, pipeVars, vars, stepVars, dataVars, DataTypeOK
    <2>3. posted'["from"] \in {posted["from"], "none"}
      BY <1>9 DEF WriteSocketWaits, ReadSocketWaits, RunPosted, DropPosted, WaitComplete,
         LoopCalls, LoopReturns, LoopCloses, LoopEnds, ClientShutsDown, BlockingWaits,
         WaitReturns, Terminated, Wait, pipeVars, vars, stepVars, dataVars, Ends
    <2>4. run' = <<"from", "FillBuffer">> =>
            run = <<"from", "FillBuffer">> \/ posted["from"] = "FillBuffer"
      <3>1. \A h : <<h, callback>> # <<"from", "FillBuffer">>
        BY <1>0
      <3>2. \A h : <<h, "ready">> # <<"from", "FillBuffer">>
        OBVIOUS
      <3>3. QED
        BY <1>9, <3>1, <3>2 DEF WriteSocketWaits, ReadSocketWaits, RunPosted,
           DropPosted, WaitComplete, LoopCalls, LoopReturns, LoopCloses, LoopEnds,
           ClientShutsDown, BlockingWaits, WaitReturns, Terminated, Wait, pipeVars, vars,
           stepVars
    <2>5. QED
      BY <2>1, <2>2, <2>3, <2>4, <1>8
  <1>10. CASE FillBufferEnds \/ FillBufferFails \/ WriteSocketFails
    <2>1. /\ Running("from")
          /\ owner' = [owner EXCEPT !["from"] = "closed"]
          /\ \/ offset = size /\ Pending = 0
                /\ result' = [result EXCEPT !["from"] = "true"]
             \/ result' = [result EXCEPT !["from"] = "false"]
          /\ run' = <<>> /\ UNCHANGED <<posted, dataVars>>
      BY <1>10 DEF FillBufferEnds, FillBufferFails, WriteSocketFails, SendCallback,
         Running, BufferInv
    <2>2. UNCHANGED <<fromVars, socket, destination>> /\ shutdown' \in BOOLEAN
      BY <2>1 DEF dataVars, DataTypeOK
    <2>3. result'["to"] = result["to"] /\ owner'["to"] = owner["to"]
      BY <2>1 DEF Ends
    <2>4. NoneLostInv'
      BY <1>7, <2>2, <2>3 DEF NoneLostInv
    <2>5. SuccessInv'
      BY <1>7, <2>1, <2>2, <2>3 DEF SuccessInv, Open, Ends
    <2>6. BufferInv'
      BY <1>7, <2>1, <2>2 DEF BufferInv, Ends
    <2>7. QED
      BY <1>7, <2>2, <2>4, <2>5, <2>6
  <1>11. CASE ReadSocketEnds \/ ReadSocketFails \/ BlockingReadEnds
    <2>1. /\ Running("to") \/ frame["to"] # "none"
          /\ owner' = [owner EXCEPT !["to"] = "closed"]
          /\ \/ socket = <<>> /\ ~Open("from")
                /\ result' = [result EXCEPT !["to"] = "true"]
             \/ result' = [result EXCEPT !["to"] = "false"]
          /\ run' \in {<<>>, run} /\ UNCHANGED <<posted, dataVars>>
      BY <1>11 DEF ReadSocketEnds, ReadSocketFails, BlockingReadEnds, SendCallback,
         DrainReturns, Running, ReadStatus
    <2>2. UNCHANGED <<fromVars, socket, destination>> /\ shutdown' \in BOOLEAN
      BY <2>1 DEF dataVars, DataTypeOK
    <2>3. /\ result'["from"] = result["from"] /\ owner'["from"] = owner["from"]
          /\ owner'["to"] = "closed" /\ result["to"] = "none"
          /\ owner["to"] \in {"handler", "thread"}
      BY <2>1 DEF Ends
    <2>4. NoneLostInv'
      BY <1>7, <2>2, <2>3 DEF NoneLostInv
    <2>5. SuccessInv'
      BY <1>7, <2>1, <2>2, <2>3 DEF SuccessInv, Open, Ends
    <2>6. BufferInv'
      <3>1. <<>> # <<"from", "FillBuffer">>
        OBVIOUS
      <3>2. run' = <<>> \/ run' = run
        BY <2>1, Zenon
      <3>3. UNCHANGED <<posted, buffer_>> /\ Pending' = Pending
        BY <1>7, <2>1, <2>2
      <3>4. run' = run \/ run' # <<"from", "FillBuffer">>
        BY <3>1, <3>2
      <3>5. QED
        BY <2>3, <3>3, <3>4 DEF BufferInv
    <2>7. QED
      BY <1>7, <2>2, <2>4, <2>5, <2>6
  <1>12. CASE BlockingWriteEnds
    <2>1. /\ frame["from"] # "none" /\ ~Open("to")
          /\ WriterReturns("true") /\ UNCHANGED dataVars
      BY <1>12 DEF BlockingWriteEnds, WriteStatus
    <2>2. owner["from"] = "thread" /\ result["from"] = "none" /\ result["to"] # "true"
      BY <2>1 DEF Open, SuccessInv
    <2>3. /\ owner' = [owner EXCEPT !["from"] = "client"]
          /\ result' = [result EXCEPT !["from"] = "true"]
          /\ UNCHANGED <<posted, run>>
      BY <2>1, <2>2 DEF WriterReturns
    <2>4. UNCHANGED <<fromVars, socket, destination>> /\ shutdown' \in BOOLEAN
      BY <2>1 DEF dataVars, DataTypeOK
    <2>5. NoneLostInv' /\ SuccessInv'
      BY <1>7, <2>1, <2>2, <2>3, <2>4 DEF NoneLostInv, SuccessInv, Open, Ends
    <2>6. BufferInv'
      BY <1>7, <2>2, <2>3, <2>4 DEF BufferInv, Ends
    <2>7. QED
      BY <1>7, <2>4, <2>5, <2>6
  <1>13. CASE \/ CopyToFileDescriptor \/ CopyFromFileDescriptor
              \/ \E e \in Ends : BeginBlocking(e) \/ ClientCloses(e)
    <2>1. PICK e \in Ends :
            /\ owner[e] = "client"
            /\ \/ owner' = [owner EXCEPT ![e] = "handler"]
               \/ owner' = [owner EXCEPT ![e] = "thread"]
               \/ owner' = [owner EXCEPT ![e] = "closed"]
            /\ UNCHANGED <<run, result, dataVars>>
            /\ UNCHANGED posted \/ \E step : posted' = [posted EXCEPT ![e] = step]
      BY <1>13 DEF CopyToFileDescriptor, CopyFromFileDescriptor, NewHandler, BeginBlocking,
         ClientCloses, Ends
    <2>2. UNCHANGED <<fromVars, socket, destination>> /\ shutdown' \in BOOLEAN
      BY <2>1 DEF dataVars, DataTypeOK
    <2>3. NoneLostInv' /\ SuccessInv'
      BY <1>7, <2>1, <2>2 DEF NoneLostInv, SuccessInv, Open, Ends
    <2>4. BufferInv'
      <3>1. CASE e = "from"
        <4>1. Pending = 0 /\ buffer_ = <<>>
          BY <2>1, <3>1 DEF BufferInv
        <4>2. QED
          BY <1>7, <2>2, <4>1 DEF BufferInv
      <3>2. CASE e = "to"
        BY <1>7, <2>1, <2>2, <3>2 DEF BufferInv, Ends
      <3>3. QED
        BY <3>1, <3>2 DEF Ends
    <2>5. QED
      BY <1>7, <2>2, <2>3, <2>4
  <1>14. Waiter!Waits = Waits
    BY DEF Waiter!Waits, Waits
  <1>15. QED
    BY <1>1, <1>2, <1>4, <1>5, <1>6, <1>9, <1>10, <1>11, <1>12, <1>13, <1>14
       DEF Next, ClientStep, WriterStep, DrainStep, LoopGoesOn, HandlerStep, LoopStep, Ends
-----------------------------------------------------------------------------
\* Whatever the handlers do, the waiter takes one of its own steps or none.
LEMMA WaiterStep == [Next]_pipeVars => [Waiter!Next]_Waiter!vars
  <1> SUFFICES ASSUME [Next]_pipeVars
               PROVE  Waiter!Next \/ UNCHANGED Waiter!vars
    OBVIOUS
  <1> USE DEF waiterVars, Waiter!vars, Waiter!loopVars, Waiter!waiterVars, Waiter!Waits, Waits
  <1>1. ASSUME NEW h \in Ends, HandlerStops(h)
        PROVE  Waiter!Next \/ UNCHANGED Waiter!vars
    BY <1>1 DEF HandlerStops, Post, Wait, SendCallback, Waiter!Next
  <1>2. ASSUME NEW w \in Waits, WaitComplete(w) \/ LoopCalls(w)
        PROVE  Waiter!Next
    BY <1>2 DEF WaitComplete, LoopCalls, Waiter!Next
  <1>3. CASE LoopReturns \/ LoopCloses \/ LoopEnds
    BY <1>3 DEF LoopReturns, LoopCloses, LoopEnds, Waiter!Next
  <1>4. ASSUME \/ FillBuffer \/ CallReturns \/ FrameMoves
               \/ \E h \in Ends : RunPosted(h) \/ DropPosted(h)
               \/ \E e \in Ends : CallBegins(e) \/ BeginBlocking(e) \/ ClientCloses(e)
        PROVE  UNCHANGED Waiter!vars
    BY <1>4 DEF FillBuffer, CallReturns, WriterReturns, DrainReturns, FrameMoves, RunPosted,
       DropPosted, CallBegins, NewHandler, BeginBlocking, ClientCloses
  <1>5. QED
    BY <1>1, <1>2, <1>3, <1>4, ControlSteps

PInv == ControlInv /\ DataInv /\ WaiterInv

LEMMA InitPInv == Init => PInv
  <1> SUFFICES ASSUME Init
               PROVE  PInv
    OBVIOUS
  <1> USE AsyncWaiterAssumption, FileCopyAssumption
  <1>1. WaiterInv
    BY WaiterInit DEF Init
  <1>2. /\ \A w \in Waits : watcher[w] = "none"
        /\ calling = 0 /\ callback = "none" /\ run = <<>> /\ phase = "open"
        /\ wait_id_ = [e \in Ends |-> 0] /\ posted = [e \in Ends |-> "none"]
        /\ result = [e \in Ends |-> "none"]
        /\ \/ owner = [e \in Ends |-> "client"] /\ frame = [e \in Ends |-> "none"]
           \/ /\ owner = [e \in Ends |-> "local"]
              /\ frame = [e \in Ends |-> IF e = "from" THEN "copying" ELSE "none"]
    BY DEF Init, Waiter!Init, Waiter!Loop!Init, Waiter!Waits, Waits
  <1>3. ControlTypeOK /\ GoOnInv
    BY <1>2 DEF ControlTypeOK, GoOnInv, Running, Ends
  <1>4. EndsInv /\ WaitInv
    BY <1>2 DEF EndsInv, WaitInv, Ends
  <1>5. /\ size \in 0..MaxSize /\ offset = 0 /\ buffer_ = <<>> /\ buffer_offset_ = 0
        /\ socket = <<>> /\ shutdown = FALSE /\ destination = <<>>
    BY DEF Init
  <1>6. <<>> \in Seq(Units) /\ Len(<<>>) = 0
    BY EmptySeq
  <1>7. DataTypeOK
    <2>1. 0 \in 0..size /\ 0 \in 0..0 /\ 0 <= BufferSize /\ 0 <= Capacity
      BY <1>5
    <2>2. QED
      BY <1>5, <1>6, <2>1, Zenon DEF DataTypeOK
  <1>8. UnitsInv /\ NoneLostInv
    <2>1. Len(buffer_) = 0 /\ Len(socket) = 0 /\ Len(destination) = 0 /\ Pending = 0
      BY <1>5, <1>6 DEF Pending
    <2>2. UnitsInv
      BY <2>1 DEF UnitsInv, Consecutive
    <2>3. offset = 0
      BY <1>5
    <2>4. QED
      BY <2>1, <2>2, <2>3 DEF NoneLostInv
  <1>9. BufferInv /\ SuccessInv
    BY <1>2, <1>5, <1>6 DEF BufferInv, SuccessInv, Pending, Ends
  <1>10. QED
    BY <1>1, <1>3, <1>4, <1>7, <1>8, <1>9 DEF PInv, ControlInv, DataInv, StreamInv

LEMMA StepPInv == PInv /\ [Next]_pipeVars => PInv'
  BY ControlPreserved, DataPreserved, WaiterStep, WaiterPreserved, AsyncWaiterAssumption
     DEF PInv

\* The copy handlers use the default async waiter as one of its clients may.
THEOREM HandlersUseWaiter == Spec => Waiter!Spec
  BY WaiterStep, PTL DEF Spec, Init, Waiter!Spec

LEMMA Inductive == Spec => []PInv
  BY InitPInv, StepPInv, PTL DEF Spec

LEMMA PInvTypes == PInv => TypeOK
  BY WaiterFacts DEF PInv, ControlInv, ControlTypeOK, DataInv, DataTypeOK, TypeOK

\* Every variable of the two ends, of the waiter under the handlers and of the
\* socket keeps its type.
THEOREM TypeCorrect == Spec => []TypeOK
  BY Inductive, PInvTypes, PTL

\* A copy handler that exists always has exactly one way to go on, until the
\* loop is destroyed, and one that deleted itself has none: no step that was
\* posted and no wait that is pending leads to a handler that is gone.
THEOREM HandlersAlwaysGoOn == Spec => []OneContinuation
  <1>1. PInv => OneContinuation
    BY ControlOne DEF PInv
  <1>2. QED
    BY <1>1, Inductive, PTL

\* For every amount of data, size of the buffers and of the socket, and
\* whichever handler, blocking call or client is at either end: what arrives is
\* the beginning of the source; success at the reading end means that the
\* socket is drained and closed, at both ends that all has arrived.
THEOREM CopiesAreExact == Spec => []CopyIsExact
  <1>1. ASSUME PInv
        PROVE  CopyIsExact
    <2>1. TypeOK /\ DataTypeOK /\ UnitsInv /\ NoneLostInv /\ SuccessInv
      BY <1>1, PInvTypes DEF PInv, DataInv, StreamInv
    <2> USE DataFacts, <2>1
    <2>2. /\ Source \in Seq(Units) /\ Len(Source) = size
          /\ \A i \in 1..size : Source[i] = i
      <3>1. /\ [i \in 1..size |-> 0 + i] \in Seq(Units)
            /\ Len([i \in 1..size |-> 0 + i]) = size
            /\ Consecutive([i \in 1..size |-> 0 + i], 0)
        <4>1. 0 \in Nat /\ size \in Nat /\ 0 + size <= MaxSize
          OBVIOUS
        <4>2. QED
          BY <4>1, NextUnits, Zenon
      <3>2. [i \in 1..size |-> 0 + i] = Source
        BY DEF Source
      <3>3. QED
        BY <3>1, <3>2 DEF Source
    <2>3. /\ destination \in Seq(Units) /\ Len(destination) \in Nat
          /\ Len(destination) <= size
          /\ \A i \in 1..Len(destination) : destination[i] = i
      BY DEF DataTypeOK, UnitsInv, Consecutive, NoneLostInv
    <2>4. IsPrefix(destination, Source)
      BY <2>2, <2>3 DEF IsPrefix
    <2>5. result["to"] = "true" => socket = <<>> /\ ~Open("from")
      BY DEF SuccessInv
    <2>6. ASSUME result["to"] = "true", result["from"] = "true"
          PROVE  destination = Source
      <3>1. Len(destination) = size
        BY <2>6 DEF SuccessInv, NoneLostInv
      <3>2. \A i \in 1..size : destination[i] = Source[i]
        BY <2>2, <2>3, <3>1
      <3>3. QED
        BY <2>2, <2>3, <3>1, <3>2, SeqEqual
    <2>7. QED
      BY <2>4, <2>5, <2>6 DEF CopyIsExact
  <1>2. QED
    BY <1>1, Inductive, PTL
-----------------------------------------------------------------------------
(* What a step may do to a copy *)

\* A copy handler goes only by closing its end, and its callback has then been
\* told; what a copy has reported stays, and it does not start again.
CopyEnds(e) ==
  /\ owner[e] = "closed" => owner'[e] = "closed"
  /\ owner[e] = "handler" =>
       \/ owner'[e] = "handler" /\ result'[e] = result[e]
       \/ owner'[e] = "closed" /\ result'[e] # "none"
  /\ result[e] # "none" => result'[e] = result[e] /\ owner'[e] \in {"client", "closed"}

\* What has been written stays as it is, and once the reader has reported,
\* nothing follows.
Delivers ==
  /\ IsPrefix(destination, destination')
  /\ result["to"] # "none" => destination' = destination

CopiesEndOnce == [][Delivers /\ \A e \in Ends : CopyEnds(e)]_pipeVars

LEMMA CopyEndsStep ==
  ASSUME ControlInv, [Next]_pipeVars
  PROVE  \A e \in Ends : CopyEnds(e)
  <1> USE ControlFacts
  <1>1. ASSUME NEW h \in Ends, HandlerStops(h)
        PROVE  \A e \in Ends : CopyEnds(e)
    <2>1. owner[h] = "handler" /\ result[h] = "none"
      BY <1>1 DEF HandlerStops
    <2>2. CASE (\E step \in Steps : Post(h, step)) \/ Wait(h)
      BY <2>2 DEF Post, Wait, CopyEnds, Ends, ControlInv, EndsInv
    <2>3. CASE \E value \in Values : SendCallback(h, value)
      BY <2>1, <2>3 DEF SendCallback, Values, CopyEnds, ControlInv, EndsInv
    <2>4. QED
      BY <1>1, <2>2, <2>3 DEF HandlerStops
  <1>2. ASSUME NEW c \in Ends, CallBegins(c) \/ BeginBlocking(c) \/ ClientCloses(c)
        PROVE  \A e \in Ends : CopyEnds(e)
    BY <1>2 DEF CallBegins, NewHandler, BeginBlocking, ClientCloses, CopyEnds, ControlInv,
       EndsInv
  <1>3. CASE CallReturns
    BY <1>3 DEF CallReturns, WriterReturns, DrainReturns, Values, CopyEnds, Ends, ControlInv,
       EndsInv
  <1>4. ASSUME UNCHANGED <<owner, result>>
        PROVE  \A e \in Ends : CopyEnds(e)
    BY <1>4 DEF CopyEnds, ControlInv, EndsInv
  <1>5. ASSUME \/ \E h \in Ends : RunPosted(h) \/ DropPosted(h)
               \/ \E w \in Waits : WaitComplete(w) \/ LoopCalls(w)
               \/ FillBuffer \/ LoopReturns \/ LoopCloses \/ LoopEnds \/ FrameMoves
        PROVE  UNCHANGED <<owner, result>>
    BY <1>5 DEF RunPosted, DropPosted, WaitComplete, LoopCalls, FillBuffer, LoopReturns,
       LoopCloses, LoopEnds, FrameMoves, stepVars
  <1>6. QED
    BY <1>1, <1>2, <1>3, <1>4, <1>5, ControlSteps

LEMMA DeliversStep ==
  ASSUME ControlInv, DataInv, [Next]_pipeVars
  PROVE  Delivers
  <1>1. /\ destination \in Seq(Units) /\ socket \in Seq(Units)
        /\ Len(socket) \in Nat /\ BufferSize \in Nat
    BY FileCopyAssumption DEF DataInv, DataTypeOK
  <1>2. ASSUME NEW more \in Seq(Units), destination' = destination \o more
        PROVE  IsPrefix(destination, destination')
    BY <1>1, <1>2 DEF IsPrefix
  <1>3. CASE destination' = destination
    BY <1>1, <1>3 DEF Delivers, IsPrefix
  <1>4. CASE ReadSocket \/ WriteFileFails \/ BlockingRead
    <2>1. ASSUME NEW t \in Seq(Units), NEW n \in Nat, n <= Len(t)
          PROVE  SubSeq(t, 1, n) \in Seq(Units)
      <3>1. Len(t) \in Nat /\ \A i \in 1..Len(t) : t[i] \in Units
        BY LenProperties, ElementOfSeq
      <3>2. \A i \in 1..n : t[i] \in Units
        BY <2>1, <3>1
      <3>3. QED
        BY <3>2, SubSeqProperties
    <2>a. Peek \in Seq(Units) /\ Len(Peek) \in Nat
      <3> DEFINE m == Min({BufferSize, Len(socket)})
      <3>1. m \in Nat /\ m <= Len(socket)
        BY <1>1, MinOfTwo
      <3> HIDE DEF m
      <3>2. SubSeq(socket, 1, m) \in Seq(Units)
        BY <1>1, <2>1, <3>1
      <3>3. Peek \in Seq(Units)
        BY <3>2 DEF Peek, m
      <3>4. QED
        BY <3>3, LenProperties
    <2>2. \E more \in Seq(Units) : destination' = destination \o more
      <3>1. CASE destination' = destination \o Peek
        BY <2>a, <3>1
      <3>2. CASE \E n \in 0..(Len(Peek) - 1) : destination' = destination \o SubSeq(Peek, 1, n)
        <4>1. PICK n \in 0..(Len(Peek) - 1) : destination' = destination \o SubSeq(Peek, 1, n)
          BY <3>2
        <4>2. n \in Nat /\ n <= Len(Peek)
          BY <2>a, <4>1
        <4>3. QED
          BY <2>1, <2>a, <4>1, <4>2
      <3>3. QED
        BY <1>4, <3>1, <3>2 DEF ReadSocket, WriteFileFails, BlockingRead
    <2>3. result["to"] = "none"
      <3>1. CASE ReadSocket \/ WriteFileFails
        <4>1. Running("to")
          BY <3>1 DEF ReadSocket, WriteFileFails, Running
        <4>2. QED
          BY <4>1, ControlFacts DEF Ends
      <3>2. CASE BlockingRead
        BY <3>2, ControlFacts DEF BlockingRead
      <3>3. QED
        BY <1>4, <3>1, <3>2
    <2>4. QED
      BY <1>2, <2>2, <2>3 DEF Delivers
  <1>5. ASSUME ~(ReadSocket \/ WriteFileFails \/ BlockingRead)
        PROVE  destination' = destination
    <2>1. CASE HandlerStep
      BY <1>5, <2>1
         DEF HandlerStep, FillBuffer, FillBufferEnds, WriteSocket, WriteSocketWaits,
         WriteSocketFails, ReadSocketWaits, ReadSocketEnds, ReadSocketFails, WaitComplete,
         dataVars
    <2>2. CASE LoopStep \/ FillBufferFails \/ LoopCloses
      BY <2>2 DEF LoopStep, RunPosted, DropPosted, LoopCalls, LoopReturns, LoopEnds,
         FillBufferFails, LoopCloses, dataVars
    <2>3. CASE ClientStep
      BY <2>3 DEF ClientStep, CopyToFileDescriptor, CopyFromFileDescriptor, NewHandler,
         BeginBlocking, ClientCloses, ClientWrites, ClientShutsDown, dataVars
    <2>4. CASE WriterStep \/ DrainStep
      BY <1>5, <2>4 DEF WriterStep, DrainStep, BlockingWrite, BlockingWriteEnds,
         BlockingReadEnds, BlockingWaits, WaitReturns, dataVars
    <2>5. CASE Terminated \/ UNCHANGED pipeVars
      BY <2>5 DEF Terminated, pipeVars, vars, dataVars
    <2>6. QED
      BY <1>5, <2>1, <2>2, <2>3, <2>4, <2>5 DEF Next, LoopGoesOn
  <1>6. QED
    BY <1>3, <1>4, <1>5

\* A copy ends once and reports once, a handler in the step in which it deletes
\* itself and so closes its end of the socket; what has been delivered is not
\* taken back, and a reader that has reported writes nothing more.
THEOREM CopiesReportOnce == Spec => CopiesEndOnce
  <1>1. PInv /\ [Next]_pipeVars => [Delivers /\ \A e \in Ends : CopyEnds(e)]_pipeVars
    BY CopyEndsStep, DeliversStep DEF PInv
  <1>2. QED
    BY <1>1, Inductive, PTL DEF Spec, CopiesEndOnce
=============================================================================
