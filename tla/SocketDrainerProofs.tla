------------------------- MODULE SocketDrainerProofs -------------------------
(***************************************************************************)
(* Theorems about AsyncWaiter and SocketDrainer, for any amount of data,   *)
(* size of reads and number of waits: the loop never holds a HandleWatcher *)
(* that is gone and a wait ends once, with any client; neither the waiter  *)
(* nor ReadData's frame ever refers to a drainer that is gone, no drainer  *)
(* is left waiting for nothing, and the client is told of data in order    *)
(* and of the end once, after all data.                                    *)
(***************************************************************************)
EXTENDS SocketDrainer, TLAPS

\* A drainer waits exactly while it is draining and not on the stack.
WaitInv ==
  /\ \A w \in Waits : watcher[w] = "live" => alive /\ wait_id_ = w
  /\ alive /\ wait_id_ # 0 => at = "idle" /\ source_ = "draining"
  /\ alive /\ source_ = "draining" /\ at = "idle" => wait_id_ # 0 /\ watcher[wait_id_] = "live"
  /\ calling # 0 /\ ~inCallback => at = "idle"

\* is_destroyed says, while the client is in OnDataAvailable, whether the
\* drainer that called it is gone.
SentinelInv ==
  /\ at \in {"ReadData", "WaitForData"} => alive
  /\ at = "OnDataAvailable" => destruction_sentinel_ /\ (alive <=> ~is_destroyed)
  /\ alive /\ destruction_sentinel_ => at = "OnDataAvailable"

DataInv ==
  /\ unread <= written
  /\ at \in {"ReadData", "OnDataAvailable", "WaitForData"} => source_ = "draining"
  /\ at = "OnDataComplete" => source_ = "complete"
  /\ CompleteIsComplete

DInv == TypeOK /\ WaitInv /\ SentinelInv /\ DataInv
-----------------------------------------------------------------------------
LEMMA MinOfTwo ==
  ASSUME NEW a \in Nat, NEW b \in Nat
  PROVE  Min({a, b}) \in Nat /\ Min({a, b}) <= a /\ Min({a, b}) <= b
  <1> DEFINE m == IF a <= b THEN a ELSE b
  <1>1. m \in {a, b} /\ \A y \in {a, b} : m <= y
    OBVIOUS
  <1>2. Min({a, b}) \in {a, b} /\ \A y \in {a, b} : Min({a, b}) <= y
    BY <1>1 DEF Min
  <1> QED
    BY <1>2

-----------------------------------------------------------------------------
(* The waiter, with any client *)

\* A watcher that the loop is calling is either still registered, or it has
\* deleted itself and is in its client's callback.
FrameInv ==
  /\ calling # 0 /\ ~inCallback => status[calling] = "registered"
  /\ inCallback => calling # 0 /\ watcher[calling] = "answered"

FreshInv == \A w \in Waits : status[w] = "unused" => watcher[w] = "none"

WaiterInv == Waiter!TypeOK /\ FrameInv /\ FreshInv /\ Waiter!WatchersRegistered

LEMMA WaiterInit == Waiter!Init => WaiterInv
  <1> SUFFICES ASSUME Waiter!Init
               PROVE  WaiterInv
    OBVIOUS
  <1> USE AsyncWaiterAssumption DEF Waiter!Init, Waiter!Loop!Init, Waiter!Waits, Waits
  <1>1. Waiter!TypeOK
    <2>1. inCallback \in BOOLEAN
      BY Zenon
    <2>2. QED
      BY <2>1, SMT DEF Waiter!TypeOK
  <1>2. FrameInv
    BY Zenon DEF FrameInv
  <1>3. FreshInv /\ Waiter!WatchersRegistered
    BY SMT DEF FreshInv, Waiter!WatchersRegistered
  <1> QED
    BY <1>1, <1>2, <1>3 DEF WaiterInv

LEMMA WaiterPreserved == WaiterInv /\ [Waiter!Next]_Waiter!vars => WaiterInv'
  <1> SUFFICES ASSUME WaiterInv, [Waiter!Next]_Waiter!vars
               PROVE  WaiterInv'
    OBVIOUS
  <1> USE AsyncWaiterAssumption DEF Waits, Waiter!Waits, WaiterInv, Waiter!TypeOK, FrameInv,
          FreshInv, Waiter!WatchersRegistered
  <1>1. ASSUME NEW w \in Waits, Waiter!AsyncWait(w)
        PROVE  WaiterInv'
    <2> watcher[w] = "none"
      BY <1>1 DEF Waiter!AsyncWait, Waiter!Fresh
    <2> QED
      BY <1>1, SMT DEF Waiter!AsyncWait, Waiter!Loop!Add, Waiter!Loop!Become
  <1>2. ASSUME NEW w \in Waits, Waiter!CancelWait(w)
        PROVE  WaiterInv'
    BY <1>2, SMT DEF Waiter!CancelWait, Waiter!ClientRuns, Waiter!DestroyWatcher,
       Waiter!Loop!Remove, Waiter!Loop!Become, Waiter!loopVars
  <1>3. ASSUME NEW w \in Waits, Waiter!CallCallback(w)
        PROVE  WaiterInv'
    <2>1. /\ inCallback'
          /\ inCallback' \in BOOLEAN
      BY <1>3, Zenon DEF Waiter!CallCallback
    <2>2. /\ calling = w /\ ~inCallback
          /\ watcher' = [watcher EXCEPT ![w] = "answered"]
          /\ answers' = [answers EXCEPT ![w] = @ + 1]
          /\ status' = [status EXCEPT ![w] = "removed"]
          /\ UNCHANGED <<calling, callback, phase>>
      BY <1>3 DEF Waiter!CallCallback, Waiter!DestroyWatcher, Waiter!Loop!Remove,
         Waiter!Loop!Become
    <2>3. QED
      BY <2>1, <2>2, SMT
  <1>4. ASSUME NEW w \in Waits, Waiter!LoopCalls(w)
        PROVE  WaiterInv'
    BY <1>4, SMT DEF Waiter!LoopCalls, Waiter!Loop!CallReady, Waiter!Loop!CallError,
       Waiter!waiterVars
  <1>5. CASE Waiter!LoopReturns
    <2>1. /\ ~inCallback'
          /\ inCallback' \in BOOLEAN
      BY <1>5, Zenon DEF Waiter!LoopReturns
    <2>2. /\ inCallback
          /\ status' = IF callback = "error" THEN [status EXCEPT ![calling] = "removed"]
                                             ELSE status
          /\ calling' = 0 /\ callback' = "none" /\ phase' = phase
          /\ watcher' = watcher /\ answers' = answers
      BY <1>5 DEF Waiter!LoopReturns, Waiter!Loop!Return, Waiter!Loop!Become
    <2>3. QED
      BY <2>1, <2>2, SMT
  <1>6. CASE Waiter!LoopCloses
    BY <1>6, SMT DEF Waiter!LoopCloses, Waiter!Loop!Close, Waiter!waiterVars
  <1>7. CASE Waiter!LoopEnds
    BY <1>7, SMT DEF Waiter!LoopEnds, Waiter!Loop!End, Waiter!waiterVars
  <1>8. CASE Waiter!Terminated \/ UNCHANGED Waiter!vars
    BY <1>8, SMT DEF Waiter!Terminated, Waiter!vars, Waiter!loopVars, Waiter!waiterVars
  <1> QED
    BY <1>1, <1>2, <1>3, <1>4, <1>5, <1>6, <1>7, <1>8 DEF Waiter!Next
-----------------------------------------------------------------------------
(* The waiter's part of each step *)

\* Whatever the drainer does, the waiter takes one of its own steps or none.
LEMMA Implements == TypeOK /\ [Next]_vars => [Waiter!Next]_Waiter!vars
  <1> SUFFICES ASSUME TypeOK, [Next]_vars
               PROVE  Waiter!Next \/ UNCHANGED Waiter!vars
    OBVIOUS
  <1> USE DEF waiterVars, Waiter!vars, Waiter!loopVars, Waiter!waiterVars, Waiter!Waits
  <1>1. CASE Destroy
    <2>1. CASE wait_id_ = 0
      BY <1>1, <2>1 DEF Destroy
    <2>2. CASE wait_id_ # 0
      BY <1>1, <2>2, SocketDrainerAssumption, AsyncWaiterAssumption
         DEF Destroy, TypeOK, Waiter!Next
    <2> QED
      BY <2>1, <2>2
  <1>2. CASE DrainerStep
    BY <1>2 DEF DrainerStep, ReadSome, ReadNothing, ReadEnd, AvailableReturns,
       CompleteReturns, WaitForData, WaitComplete, Waiter!Next
  <1>3. CASE LoopStep \/ LoopCloses
    BY <1>3 DEF LoopStep, LoopCalls, LoopReturns, LoopEnds, LoopCloses, Waiter!Next
  <1>4. CASE Start \/ PeerWrites \/ PeerStops("shutdown") \/ PeerStops("closed")
             \/ Terminated \/ UNCHANGED vars
    BY <1>4 DEF Start, PeerWrites, PeerStops, Terminated, vars
  <1> QED
    BY <1>1, <1>2, <1>3, <1>4 DEF Next

\* What a step of the waiter does to its watchers.
LEMMA WaiterSteps ==
  ASSUME NEW w \in Waits
  PROVE  /\ Waiter!AsyncWait(w) =>
              /\ calling = 0 \/ inCallback
              /\ watcher' = [watcher EXCEPT ![w] = "live"]
              /\ UNCHANGED <<calling, inCallback>>
         /\ Waiter!CancelWait(w) =>
              /\ watcher' = [watcher EXCEPT ![w] = "cancelled"]
              /\ UNCHANGED <<calling, inCallback>>
         /\ Waiter!CallCallback(w) =>
              /\ calling = w /\ ~inCallback
              /\ watcher' = [watcher EXCEPT ![w] = "answered"]
              /\ inCallback'
              /\ calling' = calling
         /\ Waiter!LoopCalls(w) => UNCHANGED <<watcher, inCallback>>
         /\ Waiter!LoopReturns => UNCHANGED watcher /\ calling' = 0
         /\ Waiter!LoopCloses => UNCHANGED <<watcher, calling, inCallback>>
         /\ Waiter!LoopEnds => UNCHANGED <<watcher, calling, inCallback>>
  BY DEF Waiter!AsyncWait, Waiter!CancelWait, Waiter!CallCallback, Waiter!LoopCalls,
         Waiter!LoopReturns, Waiter!LoopCloses, Waiter!LoopEnds, Waiter!ClientRuns,
         Waiter!DestroyWatcher, Waiter!waiterVars, Waiter!loopVars, Waiter!Loop!Add,
         Waiter!Loop!Remove, Waiter!Loop!Return, Waiter!Loop!Close, Waiter!Loop!End
-----------------------------------------------------------------------------
DrainerTypeOK ==
  /\ alive \in BOOLEAN
  /\ wait_id_ \in 0..MaxWaits
  /\ destruction_sentinel_ \in BOOLEAN
  /\ is_destroyed \in BOOLEAN
  /\ at \in {"idle", "ReadData", "OnDataAvailable", "WaitForData", "OnDataComplete"}
  /\ source_ \in {"none", "draining", "complete"}
  /\ unread \in 0..MaxData
  /\ written \in 0..MaxData
  /\ peer \in {"open", "shutdown", "closed"}

LEMMA InitDInv == Init => DInv /\ WaiterInv
  <1> SUFFICES ASSUME Init
               PROVE  DInv /\ WaiterInv
    OBVIOUS
  <1>1. WaiterInv
    BY WaiterInit DEF Init
  <1>3. TypeOK
    <2>1. 0 \in 0..MaxWaits /\ 0 \in 0..MaxData
      BY AsyncWaiterAssumption, SocketDrainerAssumption
    <2> QED
      BY <1>1, <2>1 DEF Init, WaiterInv, TypeOK
  <1>4. WaitInv /\ SentinelInv /\ DataInv
    BY DEF Init, Waiter!Init, Waiter!Loop!Init, Waiter!Waits, Waits, WaitInv, SentinelInv,
       DataInv, CompleteIsComplete
  <1> QED
    BY <1>1, <1>3, <1>4 DEF DInv

LEMMA StepDInv == DInv /\ WaiterInv /\ [Next]_vars => DInv' /\ WaiterInv'
  <1> SUFFICES ASSUME DInv, WaiterInv, [Next]_vars
               PROVE  DInv' /\ WaiterInv'
    OBVIOUS
  <1>0. WaiterInv' /\ Waiter!TypeOK'
    <2>1. WaiterInv'
      BY Implements, WaiterPreserved DEF DInv
    <2> QED
      BY <2>1 DEF WaiterInv
  <1>a. \A w \in Waits : calling = w /\ ~inCallback => watcher[w] = "live"
    BY DEF WaiterInv, FrameInv, Waiter!WatchersRegistered, Waiter!Waits, Waits
  <1> SUFFICES DrainerTypeOK' /\ WaitInv' /\ SentinelInv' /\ DataInv'
    BY <1>0 DEF DrainerTypeOK, DInv, TypeOK
  <1>b. /\ watcher \in [Waits -> {"none", "live", "answered", "cancelled"}]
        /\ calling \in Waits \cup {0} /\ inCallback \in BOOLEAN
        /\ DrainerTypeOK /\ WaitInv /\ SentinelInv /\ DataInv
    BY DEF DInv, TypeOK, DrainerTypeOK, Waiter!TypeOK, Waiter!Waits, Waits
  <1> HIDE DEF DInv
  <1> USE <1>b, AsyncWaiterAssumption, SocketDrainerAssumption
          DEF DrainerTypeOK, WaitInv, SentinelInv, DataInv, CompleteIsComplete, Waits,
              Waiter!Waits, waiterVars, drainerVars, socketVars
  <1>1. CASE Start
    <2>1. /\ at' = "ReadData" /\ source_' = "draining"
          /\ unread' = 0 /\ written' = 0 /\ peer' = "open"
          /\ UNCHANGED <<watcher, calling, inCallback, alive, wait_id_>>
          /\ UNCHANGED <<destruction_sentinel_, is_destroyed>>
          /\ alive /\ source_ # "draining" /\ at # "OnDataAvailable"
          /\ ~(calling # 0 /\ ~inCallback)
      BY <1>1 DEF Start, Waiter!ClientRuns
    <2>2. DrainerTypeOK'
      BY <2>1
    <2>3. WaitInv' /\ SentinelInv' /\ DataInv'
      BY <2>1
    <2> QED
      BY <2>2, <2>3
  <1>2. CASE Destroy
    <2>1. /\ at' = at /\ at \in ClientFrames /\ UNCHANGED <<wait_id_, source_, socketVars>>
          /\ ~alive' /\ alive' \in BOOLEAN
          /\ destruction_sentinel_' = destruction_sentinel_
          /\ is_destroyed' = (is_destroyed \/ destruction_sentinel_)
          /\ alive
      BY <1>2 DEF Destroy
    <2>2. /\ \A w \in Waits : watcher'[w] # "live"
          /\ UNCHANGED <<calling, inCallback>>
      <3>1. CASE wait_id_ = 0
        BY <1>2, <3>1 DEF Destroy
      <3>2. CASE wait_id_ # 0
        BY <1>2, <3>2, WaiterSteps DEF Destroy
      <3> QED
        BY <3>1, <3>2
    <2>3. is_destroyed' \in BOOLEAN
      BY <2>1
    <2>4. DrainerTypeOK'
      BY <2>1, <2>3
    <2>5. WaitInv' /\ DataInv'
      BY <2>1, <2>2 DEF ClientFrames
    <2>6. SentinelInv'
      BY <2>1, Zenon DEF ClientFrames
    <2> QED
      BY <2>4, <2>5, <2>6
  <1>3. CASE ReadSome
    <2>1. unread - Min({unread, BufferSize}) \in 0..unread
      BY MinOfTwo
    <2>2. /\ at = "ReadData" /\ at' = "OnDataAvailable"
          /\ unread' = unread - Min({unread, BufferSize})
          /\ UNCHANGED <<watcher, calling, inCallback, alive, wait_id_, source_>>
          /\ UNCHANGED <<written, peer>>
      BY <1>3 DEF ReadSome
    <2>3. /\ destruction_sentinel_' /\ destruction_sentinel_' \in BOOLEAN
          /\ ~is_destroyed' /\ is_destroyed' \in BOOLEAN
      BY <1>3 DEF ReadSome
    <2>4. DrainerTypeOK'
      BY <2>1, <2>2, <2>3
    <2>5. WaitInv' /\ DataInv'
      BY <2>1, <2>2
    <2>6. SentinelInv'
      BY <2>2, <2>3
    <2> QED
      BY <2>4, <2>5, <2>6
  <1>4. CASE ReadNothing \/ ReadEnd \/ CompleteReturns
    BY <1>4 DEF ReadNothing, ReadEnd, CompleteReturns
  <1>4a. CASE AvailableReturns
    <2>1. /\ at = "OnDataAvailable"
          /\ UNCHANGED <<watcher, calling, inCallback, alive, wait_id_, is_destroyed>>
          /\ UNCHANGED <<source_, socketVars>>
      BY <1>4a DEF AvailableReturns
    <2>2. CASE is_destroyed
      BY <1>4a, <2>1, <2>2 DEF AvailableReturns
    <2>3. CASE ~is_destroyed
      <3>1. /\ at' = "WaitForData"
            /\ ~destruction_sentinel_' /\ destruction_sentinel_' \in BOOLEAN
        BY <1>4a, <2>3 DEF AvailableReturns
      <3> QED
        BY <2>1, <2>3, <3>1
    <2> QED
      BY <2>2, <2>3
  <1>5. CASE WaitForData
    <2>1. PICK w \in Waits : Waiter!AsyncWait(w) /\ wait_id_' = w
      BY <1>5 DEF WaitForData
    <2> QED
      BY <1>5, <2>1, WaiterSteps DEF WaitForData
  <1>6. ASSUME NEW w \in Waits, WaitComplete(w)
        PROVE  DrainerTypeOK' /\ WaitInv' /\ SentinelInv' /\ DataInv'
    BY <1>6, <1>a, WaiterSteps DEF WaitComplete
  <1>7. CASE PeerWrites
    BY <1>7 DEF PeerWrites
  <1>8. CASE PeerStops("shutdown") \/ PeerStops("closed")
    BY <1>8 DEF PeerStops
  <1>9. ASSUME NEW w \in Waits, LoopCalls(w)
        PROVE  DrainerTypeOK' /\ WaitInv' /\ SentinelInv' /\ DataInv'
    BY <1>9, WaiterSteps DEF LoopCalls
  <1>10. CASE LoopReturns \/ LoopCloses \/ LoopEnds
    <2>1. UNCHANGED <<watcher, drainerVars, socketVars>>
      BY <1>10 DEF LoopReturns, LoopCloses, LoopEnds, Waiter!LoopReturns,
         Waiter!LoopCloses, Waiter!LoopEnds, Waiter!waiterVars
    <2>2. at = "idle"
      BY <1>10 DEF LoopReturns, LoopCloses, LoopEnds
    <2> QED
      BY <2>1, <2>2
  <1>11. CASE Terminated \/ UNCHANGED vars
    BY <1>11 DEF Terminated, vars
  <1> QED
    BY <1>1, <1>2, <1>3, <1>4, <1>5, <1>6, <1>7, <1>8, <1>9, <1>10, <1>11,
       <1>4a DEF Next, DrainerStep, LoopStep

LEMMA WaiterInductive == Waiter!Spec => []WaiterInv
  BY WaiterInit, WaiterPreserved, PTL DEF Waiter!Spec

\* No HandleWatcher is called by the loop after it was deleted, none that
\* exists is unknown to an open loop, and none answers twice or after
\* CancelWait: with any client of AsyncWait and CancelWait, whatever it does in
\* callbacks and during the destruction of the loop.
THEOREM WaiterWatchersRegistered == Waiter!Spec => []Waiter!WatchersRegistered
  <1>1. WaiterInv => Waiter!WatchersRegistered
    BY DEF WaiterInv
  <1> QED
    BY WaiterInductive, <1>1, PTL

\* A wait ends once: its callback is entered from a HandleWatcher that exists
\* and is being called, with no other callback on the stack, and after that,
\* or after CancelWait, nothing is done with it.
EndsOnce(w) ==
  /\ watcher[w] \in {"answered", "cancelled"} => watcher'[w] = watcher[w]
  /\ calling # w /\ calling' = w => watcher[w] = "live" /\ calling = 0
  /\ watcher[w] # "answered" /\ watcher'[w] = "answered" =>
       watcher[w] = "live" /\ calling = w /\ ~inCallback

WaitsEndOnce == [][\A w \in Waits : EndsOnce(w)]_Waiter!vars

\* Whatever the clients of the waiter do in their callbacks.
THEOREM WaiterEndsWaitsOnce == Waiter!Spec => WaitsEndOnce
  <1>1. ASSUME WaiterInv, [Waiter!Next]_Waiter!vars, NEW w \in Waits
        PROVE  EndsOnce(w)
    <2>1. /\ watcher \in [Waits -> {"none", "live", "answered", "cancelled"}]
          /\ calling # 0 /\ ~inCallback => status[calling] = "registered"
          /\ w # 0
          /\ \A v \in Waits : /\ status[v] = "registered" => watcher[v] = "live"
                              /\ status[v] = "unused" => watcher[v] = "none"
      BY <1>1, AsyncWaiterAssumption
         DEF WaiterInv, Waiter!TypeOK, FrameInv, FreshInv, Waiter!WatchersRegistered,
             Waiter!Waits, Waits
    <2> USE DEF Waiter!Waits, Waits, EndsOnce, Waiter!waiterVars, Waiter!loopVars
    <2>2. ASSUME NEW v \in Waits, Waiter!AsyncWait(v)
          PROVE  EndsOnce(w)
      BY <2>1, <2>2 DEF Waiter!AsyncWait, Waiter!Fresh, Waiter!Loop!Add
    <2>3. ASSUME NEW v \in Waits, Waiter!CancelWait(v) \/ Waiter!CallCallback(v)
          PROVE  EndsOnce(w)
      BY <2>1, <2>3 DEF Waiter!CancelWait, Waiter!CallCallback, Waiter!DestroyWatcher,
         Waiter!Loop!Remove
    <2>4. ASSUME NEW v \in Waits, Waiter!LoopCalls(v)
          PROVE  EndsOnce(w)
      BY <2>1, <2>4 DEF Waiter!LoopCalls, Waiter!Loop!CallReady, Waiter!Loop!CallError
    <2>5. CASE Waiter!LoopReturns \/ Waiter!LoopCloses \/ Waiter!LoopEnds
      <3>1. watcher' = watcher /\ (calling' = calling \/ calling' = 0)
        BY <2>5 DEF Waiter!LoopReturns, Waiter!LoopCloses, Waiter!LoopEnds,
           Waiter!Loop!Return, Waiter!Loop!Close, Waiter!Loop!End
      <3> QED
        BY <2>1, <3>1
    <2>6. CASE Waiter!Terminated \/ UNCHANGED Waiter!vars
      BY <2>1, <2>6 DEF Waiter!Terminated, Waiter!vars
    <2> QED
      BY <1>1, <2>2, <2>3, <2>4, <2>5, <2>6 DEF Waiter!Next
  <1>2. WaiterInv /\ [Waiter!Next]_Waiter!vars => [\A w \in Waits : EndsOnce(w)]_Waiter!vars
    BY <1>1
  <1> QED
    BY <1>2, WaiterInductive, PTL DEF Waiter!Spec, WaitsEndOnce

\* Each step of the waiter is one that the loop's contract has, or none of the
\* loop's.
LEMMA StepsOfLoop == [Waiter!Next]_Waiter!vars => [Waiter!Loop!Next]_Waiter!Loop!vars
  <1> SUFFICES ASSUME [Waiter!Next]_Waiter!vars
               PROVE  Waiter!Loop!Next \/ UNCHANGED Waiter!Loop!vars
    OBVIOUS
  <1> USE DEF Waiter!Loop!vars, Waiter!loopVars, Waiter!Loop!Next
  <1>1. ASSUME NEW w \in Waiter!Waits,
               \/ Waiter!AsyncWait(w) \/ Waiter!CancelWait(w)
               \/ Waiter!CallCallback(w) \/ Waiter!LoopCalls(w)
        PROVE  Waiter!Loop!Next \/ UNCHANGED Waiter!Loop!vars
    BY <1>1 DEF Waiter!AsyncWait, Waiter!CancelWait, Waiter!CallCallback, Waiter!LoopCalls,
       Waiter!DestroyWatcher
  <1>2. CASE Waiter!LoopReturns \/ Waiter!LoopCloses \/ Waiter!LoopEnds
    BY <1>2 DEF Waiter!LoopReturns, Waiter!LoopCloses, Waiter!LoopEnds
  <1>3. CASE Waiter!Terminated \/ UNCHANGED Waiter!vars
    BY <1>3 DEF Waiter!Terminated, Waiter!vars
  <1> QED
    BY <1>1, <1>2, <1>3 DEF Waiter!Next

\* HandleWatchers are clients the loop's contract is written for: they delete
\* themselves in their callback, and CancelWait deletes them at any time.
THEOREM WaiterUsesLoop == Waiter!Spec => Waiter!Loop!Spec
  <1>1. Waiter!Init => Waiter!Loop!Init
    BY DEF Waiter!Init
  <1> QED
    BY <1>1, StepsOfLoop, PTL DEF Waiter!Spec, Waiter!Loop!Spec

LEMMA Inductive == Spec => [](DInv /\ WaiterInv)
  BY InitDInv, StepDInv, PTL DEF Spec

\* Every variable of the drainer, of the waiter under it and of the socket
\* keeps its type.
THEOREM TypeCorrect == Spec => []TypeOK
  BY Inductive, PTL DEF DInv

\* The drainer is a client of the waiter: what it does, its destruction in any
\* of its frames included, is a behaviour of AsyncWaiter's own specification.
THEOREM DrainerUsesWaiter == Spec => Waiter!Spec
  <1>1. Init => Waiter!Init
    BY DEF Init
  <1>2. DInv /\ [Next]_vars => [Waiter!Next]_Waiter!vars
    BY Implements DEF DInv
  <1> QED
    BY <1>1, <1>2, Inductive, PTL DEF Spec, Waiter!Spec

\* Whatever the waiter and the loop hold leads to a drainer that exists, and a
\* drainer that is neither on the stack nor done has a wait that the loop
\* knows, wherever its client starts and destroys it.
THEOREM WaitsAlwaysOwned == Spec => []WaitsOwned
  <1>1. DInv /\ WaiterInv => WaitsOwned
    <2> SUFFICES ASSUME DInv, WaiterInv
                 PROVE  WaitsOwned
      OBVIOUS
    <2>1. \A w \in Waits : /\ status[w] = "registered" => watcher[w] = "live"
                           /\ watcher[w] = "live" => status[w] = "registered" \/ phase # "open"
      BY DEF WaiterInv, Waiter!WatchersRegistered, Waiter!Waits, Waits
    <2> QED
      BY <2>1 DEF DInv, WaitInv, WaitsOwned, TypeOK, Waits, Waiter!Waits
  <1> QED
    BY Inductive, <1>1, PTL

\* The waiter keeps its promise to this client: no HandleWatcher is called
\* after it was deleted, an open loop knows each that exists, and none answers
\* twice or after CancelWait, wherever the drainer is destroyed.
THEOREM WatchersAlwaysRegistered == Spec => []WatchersRegistered
  <1>1. WaiterInv => WatchersRegistered
    BY DEF WaiterInv, WatchersRegistered
  <1> QED
    BY Inductive, <1>1, PTL

\* ReadData goes on only with a drainer that exists, and the drainer points
\* into its frame only while it is there, although the client may destroy it
\* in OnDataAvailable.
THEOREM FramesNeverDangle == Spec => []NoDanglingFrame
  <1>1. DInv => NoDanglingFrame
    BY DEF DInv, SentinelInv, NoDanglingFrame
  <1> QED
    BY Inductive, <1>1, PTL

\* OnDataComplete comes when all data has been delivered, whether the peer
\* shut down or closed its end, and for reads of any size.
THEOREM CompletionIsComplete == Spec => []CompleteIsComplete
  <1>1. DInv => CompleteIsComplete
    BY DEF DInv, DataInv
  <1> QED
    BY Inductive, <1>1, PTL

\* What the client hears is a stream: OnDataAvailable, with data, any number
\* of times, then OnDataComplete, once, all of it from a drainer that exists;
\* nothing is taken from the socket without OnDataAvailable, and a drainer
\* that is gone only leaves the frame it is in.
Reports ==
  /\ at # "OnDataAvailable" /\ at' = "OnDataAvailable" =>
       alive /\ source_ = "draining" /\ unread' < unread
  /\ at # "OnDataComplete" /\ at' = "OnDataComplete" =>
       alive /\ source_ = "draining" /\ source_' = "complete"
  /\ source_ = "complete" /\ source_' # "complete" => at' = "ReadData" /\ unread' = 0
  /\ unread' < unread => at' = "OnDataAvailable" \/ source_ # "draining"
  /\ ~alive => ~alive' /\ at' \in {at, "idle"}

ClientHearsInOrder == [][Reports]_vars

LEMMA ReportsStep == ASSUME DInv, WaiterInv, [Next]_vars PROVE Reports
  <1>1. /\ unread \in Nat
        /\ at \in {"ReadData", "WaitForData"} => alive
        /\ at \in {"ReadData", "OnDataAvailable", "WaitForData"} => source_ = "draining"
        /\ at = "OnDataAvailable" => (alive <=> ~is_destroyed)
        /\ \A w \in Waits : watcher[w] = "live" => alive
        /\ \A w \in Waits : calling = w /\ ~inCallback => watcher[w] = "live"
    BY SocketDrainerAssumption
       DEF DInv, TypeOK, SentinelInv, DataInv, WaitInv, WaiterInv, FrameInv,
           Waiter!WatchersRegistered, Waiter!Waits, Waits
  <1> USE DEF Reports, waiterVars, drainerVars, socketVars
  <1>2. CASE Start \/ Destroy
    BY <1>1, <1>2 DEF Start, Destroy, ClientFrames
  <1>3. CASE ReadSome
    <2>1. unread > 0 /\ BufferSize \in Nat \ {0}
      BY <1>3, SocketDrainerAssumption DEF ReadSome
    <2>2. Min({unread, BufferSize}) \in {unread, BufferSize}
      <3>1. \E x \in {unread, BufferSize} : \A y \in {unread, BufferSize} : x <= y
        BY <1>1, <2>1
      <3> QED
        BY <3>1 DEF Min
    <2>3. unread - Min({unread, BufferSize}) < unread
      BY <1>1, <2>1, <2>2
    <2> QED
      BY <1>1, <1>3, <2>3 DEF ReadSome
  <1>4. CASE ReadNothing \/ ReadEnd \/ AvailableReturns \/ CompleteReturns
    BY <1>1, <1>4 DEF ReadNothing, ReadEnd, AvailableReturns, CompleteReturns
  <1>5. CASE WaitForData
    BY <1>1, <1>5 DEF WaitForData
  <1>6. ASSUME NEW w \in Waits, WaitComplete(w)
        PROVE  Reports
    BY <1>1, <1>6 DEF WaitComplete, Waiter!CallCallback
  <1>7. CASE PeerWrites \/ PeerStops("shutdown") \/ PeerStops("closed")
    BY <1>1, <1>7 DEF PeerWrites, PeerStops
  <1>8. CASE LoopStep \/ LoopCloses
    BY <1>1, <1>8 DEF LoopStep, LoopCalls, LoopReturns, LoopEnds, LoopCloses
  <1>9. CASE Terminated \/ UNCHANGED vars
    BY <1>1, <1>9 DEF Terminated, vars
  <1> QED
    BY <1>2, <1>3, <1>4, <1>5, <1>6, <1>7, <1>8, <1>9
       DEF Next, DrainerStep, Waiter!Waits, Waits

\* The client of a drainer is called in that order and never after it has
\* destroyed the drainer, in whichever callback it does so.
THEOREM ClientIsToldInOrder == Spec => ClientHearsInOrder
  <1>1. DInv /\ WaiterInv /\ [Next]_vars => [Reports]_vars
    BY ReportsStep
  <1> QED
    BY <1>1, Inductive, PTL DEF Spec, ClientHearsInOrder
=============================================================================
