---------------------------- MODULE FDWaiterProofs ----------------------------
(***************************************************************************)
(* Theorems about FDWaiter, for any number of waits: a wait is all there   *)
(* or not at all on each of the ways out of it, and is answered or         *)
(* cancelled at most once, also when its callback starts the next wait or  *)
(* destroys the waiter; no wait is forgotten.                              *)
(***************************************************************************)
EXTENDS FDWaiter, TLAPS

\* Where the thread is, what is on its stack and what of a wait there is.
FrameInv ==
  /\ at = "idle" \/ (at = "Wait" /\ below = "idle") => calling = 0
  /\ at = "callback" \/ (at = "Wait" /\ below = "callback") =>
       calling # 0 /\ status[calling] = "removed"
  /\ at = "Wait" => alive /\ io_ /\ key_ = 0 /\ callback_ = 0 /\ references = 1
  /\ at = "OnHandle" => calling # 0 /\ status[calling] = "registered"
  /\ io_ => alive

\* The wait in progress has not been answered, and later ones not begun.
FreshInv ==
  /\ \A w \in Waits : status[w] = "unused" \/ key_ = w => answers[w] = 0 /\ w \notin cancelled
  /\ key_ # 0 => status[key_] # "unused"

IInv == TypeOK /\ FrameInv /\ FreshInv /\ WholeWait /\ OneShot
-----------------------------------------------------------------------------
LEMMA InitIInv == Init => IInv
  <1> SUFFICES ASSUME Init
               PROVE  IInv
    OBVIOUS
  <1> USE FDWaiterAssumption DEF Init, Loop!Init, Waits
  <1>1. /\ alive /\ ~io_
        /\ alive \in BOOLEAN /\ io_ \in BOOLEAN
    BY Zenon
  <1>2. /\ status = [w \in Waits |-> "unused"] /\ calling = 0 /\ callback = "none"
        /\ phase = "open" /\ key_ = 0 /\ callback_ = 0 /\ at = "idle" /\ below = "idle"
        /\ references = 0 /\ answers = [w \in Waits |-> 0] /\ cancelled = {}
    OBVIOUS
  <1>3. TypeOK
    BY <1>1, <1>2, SMT DEF TypeOK
  <1>4. FrameInv /\ FreshInv
    BY <1>1, <1>2, SMT DEF FrameInv, FreshInv
  <1>5. WholeWait /\ OneShot
    BY <1>1, <1>2, SMT DEF WholeWait, OneShot
  <1> QED
    BY <1>3, <1>4, <1>5 DEF IInv

\* What Cancel leaves behind, whichever of its callers it has.
Canceled ==
  /\ ~io_' /\ io_' \in BOOLEAN
  /\ key_' = 0 /\ callback_' = 0 /\ references' = references - 1
  /\ status' \in [Waits -> {"unused", "registered", "removed"}]
  /\ \A w \in Waits :
       status'[w] = IF w = key_ /\ status[w] = "registered" THEN "removed" ELSE status[w]
  /\ UNCHANGED <<calling, callback, phase>>

LEMMA CancelBodyIdle == ASSUME IInv, CancelBody PROVE Canceled
  <1> USE DEF Canceled
  <1>1. ~io_' /\ io_' \in BOOLEAN
    BY Zenon DEF CancelBody
  <1>2. key_' = 0 /\ callback_' = 0 /\ references' = references - 1
    BY DEF CancelBody
  <1>3. CASE key_ # 0 /\ status[key_] = "registered"
    BY <1>1, <1>2, <1>3 DEF CancelBody, Loop!Remove, Loop!Become, IInv, TypeOK
  <1>4. CASE ~(key_ # 0 /\ status[key_] = "registered")
    <2>1. UNCHANGED <<status, calling, callback, phase>>
      BY <1>4 DEF CancelBody, loopVars
    <2>2. QED
      BY <1>1, <1>2, <1>4, <2>1, FDWaiterAssumption, SMT DEF IInv, TypeOK, Waits
  <1> QED
    BY <1>3, <1>4

LEMMA StepIInv == IInv /\ [Next]_vars => IInv'
  <1> SUFFICES ASSUME IInv, [Next]_vars
               PROVE  IInv'
    OBVIOUS
  <1>0. CancelBody => Canceled
    BY CancelBodyIdle
  <1> USE FDWaiterAssumption
      DEF Waits, IInv, TypeOK, loopVars, waitVars, frameVars, historyVars
  <1>1. CASE WaitBegins
    <2>1. io_' /\ io_' \in BOOLEAN
      BY <1>1, Zenon DEF WaitBegins
    <2>2. /\ at \in {"idle", "callback"} /\ alive /\ ~io_
          /\ references' = references + 1 /\ at' = "Wait" /\ below' = at
          /\ UNCHANGED <<loopVars, alive, key_, callback_, historyVars>>
      BY <1>1 DEF WaitBegins, ClientRuns
    <2>3. QED
      BY <2>1, <2>2, SMT DEF FrameInv, FreshInv, WholeWait, OneShot
  <1>2. CASE WaitUnsupported
    <2>1. /\ at = "Wait" /\ at' = below
          /\ UNCHANGED <<alive, below, historyVars>>
      BY <1>2 DEF WaitUnsupported
    <2>2. Canceled
      BY <1>0, <1>2 DEF WaitUnsupported
    <2>3. QED
      <3>1. TypeOK'
        BY <2>1, <2>2, SMT DEF Canceled, FrameInv
      <3>2. FrameInv'
        BY <2>1, <2>2, SMT DEF Canceled, FrameInv
      <3>3. FreshInv'
        BY <2>1, <2>2, SMT DEF Canceled, FrameInv, FreshInv
      <3>4. WholeWait'
        BY <2>1, <2>2, SMT DEF Canceled, FrameInv, WholeWait
      <3>5. OneShot'
        BY <2>1, <2>2, SMT DEF Canceled, OneShot
      <3>6. QED
        BY <3>1, <3>2, <3>3, <3>4, <3>5
  <1>3. CASE WaitAdds
    <2>1. PICK w \in Waits : Loop!Add(w) /\ key_' = w /\ callback_' = w
      BY <1>3 DEF WaitAdds
    <2>2. /\ at = "Wait" /\ at' = below
          /\ UNCHANGED <<alive, io_, references, below, historyVars>>
      BY <1>3 DEF WaitAdds
    <2>3. QED
      <3>1. TypeOK'
        BY <2>1, <2>2, SMT DEF Loop!Add, Loop!Become
      <3>2. FrameInv'
        BY <2>1, <2>2, SMT DEF Loop!Add, Loop!Become, FrameInv
      <3>3. FreshInv'
        BY <2>1, <2>2, SMT DEF Loop!Add, Loop!Become, FrameInv, FreshInv
      <3>4. WholeWait'
        BY <2>1, <2>2, SMT DEF Loop!Add, Loop!Become, FrameInv, WholeWait
      <3>5. OneShot'
        BY <2>1, <2>2, SMT DEF Loop!Add, Loop!Become, OneShot
      <3>6. QED
        BY <3>1, <3>2, <3>3, <3>4, <3>5
  <1>4. CASE Cancel
    <2>1. /\ at \in {"idle", "callback"} /\ alive /\ io_
          /\ cancelled' = cancelled \cup {key_}
          /\ UNCHANGED <<alive, frameVars, answers>>
      BY <1>4 DEF Cancel, ClientRuns
    <2>2. Canceled
      BY <1>0, <1>4 DEF Cancel
    <2>3. QED
      <3>1. TypeOK'
        BY <2>1, <2>2, SMT DEF Canceled, WholeWait
      <3>2. FrameInv'
        BY <2>1, <2>2, SMT DEF Canceled, FrameInv
      <3>3. FreshInv'
        BY <2>1, <2>2, SMT DEF Canceled, FreshInv
      <3>4. WholeWait'
        BY <2>1, <2>2, SMT DEF Canceled, WholeWait
      <3>5. OneShot'
        BY <2>1, <2>2, SMT DEF Canceled, FreshInv, OneShot
      <3>6. QED
        BY <3>1, <3>2, <3>3, <3>4, <3>5
  <1>5. CASE Destroy
    <2>1. /\ ~alive' /\ alive' \in BOOLEAN
      BY <1>5, Zenon DEF Destroy
    <2>2. at \in {"idle", "callback"} /\ UNCHANGED <<frameVars, answers>>
      BY <1>5 DEF Destroy, ClientRuns
    <2>3. CASE io_
      <3>1. Canceled /\ cancelled' = cancelled \cup {key_}
        BY <1>0, <1>5, <2>3 DEF Destroy
      <3>2. QED
        <4>1. TypeOK'
          BY <2>1, <2>2, <2>3, <3>1, SMT DEF Canceled, WholeWait
        <4>2. FrameInv'
          BY <2>1, <2>2, <2>3, <3>1, SMT DEF Canceled, FrameInv
        <4>3. FreshInv'
          BY <2>1, <2>2, <2>3, <3>1, SMT DEF Canceled, FreshInv
        <4>4. WholeWait'
          BY <2>1, <2>2, <2>3, <3>1, SMT DEF Canceled, WholeWait
        <4>5. OneShot'
          BY <2>1, <2>2, <2>3, <3>1, SMT DEF Canceled, FreshInv, OneShot
        <4>6. QED
          BY <4>1, <4>2, <4>3, <4>4, <4>5
    <2>4. CASE ~io_
      <3>1. UNCHANGED <<loopVars, waitVars, cancelled>>
        BY <1>5, <2>4 DEF Destroy
      <3>2. QED
        BY <2>1, <2>2, <2>4, <3>1, SMT DEF FrameInv, FreshInv, WholeWait, OneShot
    <2>5. QED
      BY <2>3, <2>4
  <1>6. CASE OnHandle
    <2>1. /\ at = "OnHandle" /\ at' = "callback"
          /\ answers' = [answers EXCEPT ![callback_] = @ + 1]
          /\ UNCHANGED <<alive, below, cancelled>>
      BY <1>6 DEF OnHandle
    <2>2. Canceled
      BY <1>0, <1>6 DEF OnHandle
    <2>3. QED
      <3>1. TypeOK'
        BY <2>1, <2>2, SMT DEF Canceled, FrameInv, WholeWait
      <3>2. FrameInv'
        BY <2>1, <2>2, SMT DEF Canceled, FrameInv, WholeWait
      <3>3. FreshInv'
        BY <2>1, <2>2, SMT DEF Canceled, FreshInv, WholeWait
      <3>4. WholeWait'
        BY <2>1, <2>2, SMT DEF Canceled, FrameInv, WholeWait
      <3>5. OneShot'
        BY <2>1, <2>2, SMT DEF Canceled, FreshInv, WholeWait, OneShot
      <3>6. QED
        BY <3>1, <3>2, <3>3, <3>4, <3>5
  <1>7. ASSUME NEW w \in Waits, LoopCalls(w)
        PROVE  IInv'
    <2>1. /\ at = "idle" /\ at' = "OnHandle" /\ status[w] = "registered"
          /\ calling' = w /\ callback' \in {"ready", "error"}
          /\ UNCHANGED <<status, phase, alive, waitVars, below, historyVars>>
      BY <1>7 DEF LoopCalls, Loop!CallReady, Loop!CallError
    <2>2. QED
      <3>1. TypeOK'
        BY <2>1, SMT
      <3>2. FrameInv'
        BY <2>1, SMT DEF FrameInv, WholeWait
      <3>3. FreshInv'
        BY <2>1, SMT DEF FreshInv
      <3>4. WholeWait'
        BY <2>1, SMT DEF WholeWait
      <3>5. OneShot'
        BY <2>1, SMT DEF OneShot
      <3>6. QED
        BY <3>1, <3>2, <3>3, <3>4, <3>5
  <1>8. CASE LoopReturns
    <2>1. /\ at = "callback" /\ at' = "idle" /\ calling' = 0 /\ callback' = "none"
          /\ calling # 0
          /\ status' = status \/ status' = [status EXCEPT ![calling] = "removed"]
          /\ UNCHANGED <<phase, alive, waitVars, below, historyVars>>
      BY <1>8 DEF LoopReturns, Loop!Return, Loop!Become
    <2>2. status' = status
      BY <2>1 DEF FrameInv
    <2>3. QED
      BY <2>1, <2>2, SMT DEF FrameInv, FreshInv, WholeWait, OneShot
  <1>9. CASE LoopCloses \/ LoopEnds
    <2>1. /\ phase' \in {"closing", "ended"}
          /\ UNCHANGED <<status, calling, callback, alive, waitVars, frameVars, historyVars>>
      BY <1>9 DEF LoopCloses, LoopEnds, Loop!Close, Loop!End
    <2>2. QED
      BY <2>1, SMT DEF FrameInv, FreshInv, WholeWait, OneShot
  <1>10. CASE Terminated \/ UNCHANGED vars
    <2>1. UNCHANGED vars
      BY <1>10 DEF Terminated
    <2>2. QED
      BY <2>1, SMT DEF vars, FrameInv, FreshInv, WholeWait, OneShot
  <1> QED
    BY <1>1, <1>2, <1>3, <1>4, <1>5, <1>6, <1>7, <1>8, <1>9, <1>10 DEF Next

LEMMA Inductive == Spec => []IInv
  BY InitIInv, StepIInv, PTL DEF Spec

\* Every variable of the waiter keeps its type; a waiter holds one mxio_t
\* reference at most.
THEOREM TypeCorrect == Spec => []TypeOK
  BY Inductive, PTL DEF IInv

\* Reference, handler and callback of a wait come and go together, and the
\* loop only ever calls the waiter that exists for the wait it is engaged in.
THEOREM WaitsAreWhole == Spec => []WholeWait
  BY Inductive, PTL DEF IInv

\* No callback is called twice, or after Cancel or the waiter's destruction.
THEOREM WaitsAreOneShot == Spec => []OneShot
  BY Inductive, PTL DEF IInv

\* The converse of OneShot: a wait that was begun is in progress, answered or
\* cancelled; while it is in progress the waiter has all of it.
NoWaitForgotten ==
  \A w \in Waits :
    status[w] # "unused" =>
      answers[w] = 1 \/ w \in cancelled \/ (alive /\ io_ /\ key_ = w /\ callback_ = w)

LEMMA ForgottenPreserved == IInv /\ NoWaitForgotten /\ [Next]_vars => NoWaitForgotten'
  <1> SUFFICES ASSUME IInv, NoWaitForgotten, [Next]_vars, NEW w \in Waits,
                      status'[w] # "unused"
               PROVE  \/ answers'[w] = 1 \/ w \in cancelled'
                      \/ alive' /\ io_' /\ key_' = w /\ callback_' = w
    BY DEF NoWaitForgotten
  <1> DEFINE Settled == answers[w] = 1 \/ w \in cancelled
             Pending == alive /\ io_ /\ key_ = w /\ callback_ = w
  <1>1. /\ w # 0 /\ key_ \in Waits \cup {0} /\ answers \in [Waits -> Nat]
        /\ at # "Wait" => (io_ <=> key_ # 0) /\ callback_ = key_
        /\ at = "Wait" => key_ = 0
        /\ io_ => alive
        /\ at = "callback" => status[calling] # "unused"
    BY FDWaiterAssumption DEF IInv, TypeOK, WholeWait, FrameInv, Waits
  <1>2. at = "OnHandle" => key_ # 0
    BY FDWaiterAssumption DEF IInv, TypeOK, WholeWait, FrameInv, Waits
  <1>3. key_ # 0 => answers[key_] = 0
    BY <1>1 DEF IInv, FreshInv
  <1>4. status[w] # "unused" => Settled \/ Pending
    BY DEF NoWaitForgotten
  <1>5. ASSUME CancelBody
        PROVE  status[w] # "unused"
    <2>1. Canceled
      BY <1>5, CancelBodyIdle
    <2> QED
      BY <2>1 DEF Canceled
  <1> USE DEF loopVars, waitVars, frameVars, historyVars
  <1>6. CASE WaitBegins
    BY <1>1, <1>4, <1>6 DEF WaitBegins
  <1>7. CASE WaitUnsupported
    <2>1. Settled
      BY <1>1, <1>4, <1>5, <1>7 DEF WaitUnsupported
    <2> QED
      BY <1>7, <2>1 DEF WaitUnsupported
  <1>8. CASE WaitAdds
    <2>1. PICK v \in Waits : Loop!Add(v) /\ key_' = v /\ callback_' = v
      BY <1>8 DEF WaitAdds
    <2>2. at = "Wait" /\ UNCHANGED <<alive, io_, historyVars>> /\ alive /\ io_
      BY <1>8 DEF WaitAdds, IInv, FrameInv
    <2>3. v # w => status[w] # "unused"
      BY <2>1 DEF Loop!Add, Loop!Become, IInv, TypeOK
    <2> QED
      BY <1>1, <1>4, <2>1, <2>2, <2>3
  <1>9. CASE Cancel \/ (Destroy /\ io_)
    <2>1. CancelBody /\ cancelled' = cancelled \cup {key_} /\ UNCHANGED answers
      BY <1>9 DEF Cancel, Destroy
    <2> QED
      BY <1>4, <1>5, <2>1
  <1>10. CASE Destroy /\ ~io_
    BY <1>4, <1>10 DEF Destroy
  <1>11. CASE OnHandle
    <2>1. CancelBody /\ answers' = [answers EXCEPT ![callback_] = @ + 1]
          /\ UNCHANGED cancelled /\ at = "OnHandle"
      BY <1>11 DEF OnHandle
    <2>2. CASE w = key_
      BY <1>1, <1>2, <1>3, <2>1, <2>2
    <2>3. CASE w # key_
      BY <1>1, <1>4, <1>5, <2>1, <2>3
    <2> QED
      BY <2>2, <2>3
  <1>12. CASE LoopReturns
    BY <1>1, <1>4, <1>12 DEF LoopReturns, Loop!Return, Loop!Become, IInv, TypeOK
  <1>13. CASE (\E v \in Waits : LoopCalls(v)) \/ LoopCloses \/ LoopEnds
    BY <1>4, <1>13 DEF LoopCalls, LoopCloses, LoopEnds, Loop!CallReady, Loop!CallError,
       Loop!Close, Loop!End
  <1>14. CASE Terminated \/ UNCHANGED vars
    BY <1>4, <1>14 DEF Terminated, vars
  <1> QED
    BY <1>6, <1>7, <1>8, <1>9, <1>10, <1>11, <1>12, <1>13, <1>14 DEF Next

\* Each wait is answered or cancelled exactly once or still in progress: on
\* none of the ways out of Wait, Cancel, OnHandleReady, OnHandleError and
\* ~FDWaiter is a callback lost.
THEOREM WaitsAccountedFor == Spec => [](OneShot /\ NoWaitForgotten)
  <1>1. Init => NoWaitForgotten
    BY DEF Init, Loop!Init, NoWaitForgotten
  <1>2. IInv => OneShot
    BY DEF IInv
  <1> QED
    BY <1>1, <1>2, ForgottenPreserved, Inductive, PTL DEF Spec
-----------------------------------------------------------------------------
(* The loop *)

\* Each step of the waiter is one that the loop's contract has, or none of the
\* loop's: a key is removed once, and only one that the loop gave out.
LEMMA LoopStep == IInv /\ [Next]_vars => [Loop!Next]_Loop!vars
  <1> SUFFICES ASSUME IInv, [Next]_vars
               PROVE  Loop!Next \/ UNCHANGED Loop!vars
    OBVIOUS
  <1> USE DEF Loop!vars, loopVars, Loop!Next
  <1>1. ASSUME CancelBody
        PROVE  Loop!Next \/ UNCHANGED Loop!vars
    BY <1>1 DEF CancelBody, IInv, TypeOK
  <1>2. CASE WaitUnsupported \/ Cancel \/ Destroy \/ OnHandle
    BY <1>1, <1>2 DEF WaitUnsupported, Cancel, Destroy, OnHandle
  <1>3. CASE WaitBegins \/ WaitAdds
    BY <1>3 DEF WaitBegins, WaitAdds
  <1>4. CASE (\E w \in Waits : LoopCalls(w)) \/ LoopReturns \/ LoopCloses \/ LoopEnds
    BY <1>4 DEF LoopCalls, LoopReturns, LoopCloses, LoopEnds
  <1>5. CASE Terminated \/ UNCHANGED vars
    BY <1>5 DEF Terminated, vars
  <1> QED
    BY <1>2, <1>3, <1>4, <1>5 DEF Next

\* FDWaiter is a client the loop's contract is written for, whatever is called
\* from its callback.
THEOREM WaiterUsesLoop == Spec => Loop!Spec
  <1>1. Init => Loop!Init
    BY DEF Init
  <1> QED
    BY <1>1, LoopStep, Inductive, PTL DEF Spec, Loop!Spec
=============================================================================
