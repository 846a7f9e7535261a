------------------------------ MODULE FDWaiter ------------------------------
(***************************************************************************)
(* FDWaiter: a one-shot wait on a file descriptor, that is a handler of    *)
(* the message loop and a reference to the descriptor's mxio_t.  The       *)
(* callback runs when the waiter is idle again, so that it may start the   *)
(* next wait, or destroy the waiter it was called by.                      *)
(*                                                                         *)
(* The n-th handler key, the wait that made it and that wait's callback    *)
(* are the number n.  The message loop is its contract, whose variables    *)
(* this module shares; mxio is external, a count of references.            *)
(*                                                                         *)
(* Preconditions of the code (FTL_DCHECK) are guards: one wait at a time,  *)
(* Cancel only of a wait.  Operators named X_y are faulty variants of X.   *)
(***************************************************************************)
EXTENDS Integers

CONSTANT MaxWaits   \* bound on the number of calls of Wait that succeed

Waits == 1..MaxWaits

ASSUME FDWaiterAssumption == MaxWaits \in Nat

VARIABLES
  status, calling, callback, phase,   \* of HandlerContract
  alive,       \* the FDWaiter exists
  io_,         \* whether there is an mxio_t
  key_,        \* 0 if there is no handler
  callback_,   \* 0 if it is empty
  at,          \* the waiter's frame: "idle", "Wait", "OnHandle", "callback"
  below,       \* the frame that called Wait
  references,  \* to mxio_ts, taken by the waiter and not released
  answers,     \* how often each callback was called
  cancelled    \* the waits ended by Cancel or by the destructor

Loop == INSTANCE HandlerContract WITH Handlers <- Waits, NoHandler <- 0

loopVars == <<status, calling, callback, phase>>
waitVars == <<io_, key_, callback_, references>>
frameVars == <<at, below>>
historyVars == <<answers, cancelled>>
vars == <<loopVars, alive, waitVars, frameVars, historyVars>>

TypeOK ==
  /\ status \in [Waits -> {"unused", "registered", "removed"}]
  /\ calling \in Waits \cup {0}
  /\ callback \in {"none", "ready", "error"}
  /\ phase \in {"open", "closing", "ended"}
  /\ alive \in BOOLEAN
  /\ io_ \in BOOLEAN
  /\ key_ \in Waits \cup {0}
  /\ callback_ \in Waits \cup {0}
  /\ at \in {"idle", "Wait", "OnHandle", "callback"}
  /\ below \in {"idle", "callback"}
  /\ references \in {0, 1}
  /\ answers \in [Waits -> Nat]
  /\ cancelled \subseteq Waits

Init ==
  /\ Loop!Init
  /\ alive = TRUE
  /\ io_ = FALSE
  /\ key_ = 0
  /\ callback_ = 0
  /\ at = "idle"
  /\ below = "idle"
  /\ references = 0
  /\ answers = [w \in Waits |-> 0]
  /\ cancelled = {}

\* Client code runs on the loop's thread, perhaps in the waiter's callback.
ClientRuns == at \in {"idle", "callback"} /\ phase # "ended"
-----------------------------------------------------------------------------
\* Wait, up to __mxio_wait_begin.  A bad descriptor ends it before.
WaitBegins ==
  /\ ClientRuns
  /\ alive
  /\ ~io_
  /\ io_' = TRUE
  /\ references' = references + 1
  /\ at' = "Wait"
  /\ below' = at
  /\ UNCHANGED <<loopVars, alive, key_, callback_, historyVars>>

\* The body of Cancel.  RemoveHandler ignores a key that is not registered.
CancelBody ==
  /\ IF key_ # 0 /\ status[key_] = "registered" THEN Loop!Remove(key_)
                                                ELSE UNCHANGED loopVars
  /\ references' = references - 1
  /\ io_' = FALSE
  /\ key_' = 0
  /\ callback_' = 0

\* The descriptor cannot be waited on.
WaitUnsupported_Leak ==
  /\ at = "Wait"
  /\ io_' = FALSE
  /\ at' = below
  /\ UNCHANGED <<loopVars, alive, key_, callback_, references, below, historyVars>>
WaitUnsupported ==
  /\ at = "Wait"
  /\ CancelBody
  /\ at' = below
  /\ UNCHANGED <<alive, below, historyVars>>

WaitAdds ==
  /\ at = "Wait"
  /\ \E w \in Waits :
       /\ \A v \in 1..(w - 1) : status[v] # "unused"
       /\ Loop!Add(w)
       /\ key_' = w
       /\ callback_' = w
  /\ at' = below
  /\ UNCHANGED <<alive, io_, references, below, historyVars>>

Cancel ==
  /\ ClientRuns
  /\ alive
  /\ io_
  /\ cancelled' = cancelled \cup {key_}
  /\ CancelBody
  /\ UNCHANGED <<alive, frameVars, answers>>

\* ~FDWaiter
Destroy ==
  /\ ClientRuns
  /\ alive
  /\ alive' = FALSE
  /\ IF io_ THEN CancelBody /\ cancelled' = cancelled \cup {key_}
            ELSE UNCHANGED <<loopVars, waitVars, cancelled>>
  /\ UNCHANGED <<frameVars, answers>>

\* OnHandleReady and OnHandleError: the callback is moved out, the waiter
\* made idle, and only then the callback entered.
OnHandle_Uncancelled ==
  /\ at = "OnHandle"
  /\ answers' = [answers EXCEPT ![calling] = @ + 1]
  /\ at' = "callback"
  /\ UNCHANGED <<loopVars, alive, waitVars, below, cancelled>>
OnHandle_ErrorIgnored ==
  /\ at = "OnHandle"
  /\ IF callback = "ready"
       THEN CancelBody /\ answers' = [answers EXCEPT ![calling] = @ + 1]
       ELSE UNCHANGED <<loopVars, waitVars, answers>>
  /\ at' = "callback"
  /\ UNCHANGED <<alive, below, cancelled>>
OnHandle ==
  /\ at = "OnHandle"
  /\ answers' = [answers EXCEPT ![callback_] = @ + 1]
  /\ CancelBody
  /\ at' = "callback"
  /\ UNCHANGED <<alive, below, cancelled>>
-----------------------------------------------------------------------------
(* The message loop; an error is a timeout or the loop's destruction *)

LoopCalls(w) ==
  /\ at = "idle"
  /\ Loop!CallReady(w) \/ Loop!CallError(w)
  /\ at' = "OnHandle"
  /\ UNCHANGED <<alive, waitVars, below, historyVars>>

LoopReturns ==
  /\ at = "callback"
  /\ Loop!Return
  /\ at' = "idle"
  /\ UNCHANGED <<alive, waitVars, below, historyVars>>

LoopCloses ==
  /\ at = "idle"
  /\ Loop!Close
  /\ UNCHANGED <<alive, waitVars, frameVars, historyVars>>

LoopEnds ==
  /\ at = "idle"
  /\ Loop!End
  /\ UNCHANGED <<alive, waitVars, frameVars, historyVars>>

Terminated == phase = "ended" /\ UNCHANGED vars

Next ==
  \/ WaitBegins \/ WaitUnsupported \/ WaitAdds \/ Cancel \/ Destroy
  \/ OnHandle
  \/ \E w \in Waits : LoopCalls(w)
  \/ LoopReturns \/ LoopCloses \/ LoopEnds
  \/ Terminated

Spec == Init /\ [][Next]_vars

\* Calls and callbacks return; the destructor of the loop goes on.
FairSpec ==
  /\ Spec
  /\ WF_vars(OnHandle \/ LoopReturns)
  /\ WF_vars(WaitUnsupported \/ WaitAdds)
  /\ SF_vars(phase = "closing" /\ \E w \in Waits : LoopCalls(w))
-----------------------------------------------------------------------------
\* A wait is all there or not at all: outside Wait and between callbacks the
\* reference, the handler and the callback come and go together, on each of
\* the ways out of a wait.  The exception is a Wait called when the loop is
\* being destroyed, whose handler is suppressed.  What the loop will call is
\* this waiter, for the wait it is engaged in.
WholeWait ==
  /\ at # "Wait" =>
       /\ references = IF io_ THEN 1 ELSE 0
       /\ io_ <=> key_ # 0
       /\ callback_ = key_
       /\ io_ => status[key_] = "registered" \/ phase # "open"
  /\ \A w \in Waits : status[w] = "registered" => alive /\ key_ = w

\* "An asynchronous, one-shot wait": its callback is called at most once, and
\* not after Cancel or the destruction of the waiter.
OneShot ==
  \A w \in Waits : answers[w] + (IF w \in cancelled THEN 1 ELSE 0) <= 1

\* "Calls callback when the wait completes": also with the error that the
\* destruction of the loop is.
WaitsSettle ==
  \A w \in Waits :
    status[w] = "registered" /\ phase = "closing" ~> answers[w] = 1 \/ w \in cancelled
=============================================================================
