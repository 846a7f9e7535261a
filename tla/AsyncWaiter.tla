----------------------------- MODULE AsyncWaiter -----------------------------
(***************************************************************************)
(* The default FidlAsyncWaiter: AsyncWait makes a HandleWatcher, which     *)
(* registers itself with the thread's message loop and deletes itself      *)
(* before it calls its callback; CancelWait deletes it.  A watcher, its    *)
(* key_ and the wait id its client holds are one number here, the key.     *)
(*                                                                         *)
(* The message loop is its contract: this module shares the variables of   *)
(* HandlerContract, which MessageLoop implements, and takes its actions.   *)
(* Modules of clients take the actions of this one in turn; in its own     *)
(* specification the client is any code on the loop's thread.              *)
(*                                                                         *)
(* Operators named X_y are faulty variants of X.                           *)
(***************************************************************************)
EXTENDS Naturals, WaitBound

VARIABLES
  status, calling, callback, phase,   \* of HandlerContract
  watcher,      \* each HandleWatcher: "none", "live", "answered", "cancelled"
  answers,      \* how often the callback of each wait was called
  inCallback    \* the watcher on the stack has called its client's callback

Loop == INSTANCE HandlerContract WITH Handlers <- Waits, NoHandler <- 0

loopVars == <<status, calling, callback, phase>>
waiterVars == <<watcher, answers, inCallback>>
vars == <<loopVars, waiterVars>>

TypeOK ==
  /\ status \in [Waits -> {"unused", "registered", "removed"}]
  /\ calling \in Waits \cup {0}
  /\ callback \in {"none", "ready", "error"}
  /\ phase \in {"open", "closing", "ended"}
  /\ watcher \in [Waits -> {"none", "live", "answered", "cancelled"}]
  /\ answers \in [Waits -> {0, 1}]
  /\ inCallback \in BOOLEAN

Init ==
  /\ Loop!Init
  /\ watcher = [w \in Waits |-> "none"]
  /\ answers = [w \in Waits |-> 0]
  /\ inCallback = FALSE

\* The loop's thread is in client code, and has a message loop.
ClientRuns == phase # "ended" /\ (calling = 0 \/ inCallback)

Fresh(w) == status[w] = "unused" /\ \A v \in 1..(w - 1) : status[v] # "unused"

AsyncWait(w) ==
  /\ ClientRuns
  /\ Fresh(w)
  /\ Loop!Add(w)
  /\ watcher' = [watcher EXCEPT ![w] = "live"]
  /\ UNCHANGED <<answers, inCallback>>

\* ~HandleWatcher: RemoveHandler, which ignores a key it does not know.
DestroyWatcher(w) ==
  IF status[w] = "registered" THEN Loop!Remove(w) ELSE UNCHANGED loopVars

\* The client holds a wait id until it is answered.
CancelWait_Leak(w) ==
  /\ ClientRuns
  /\ watcher[w] = "live"
  /\ DestroyWatcher(w)
  /\ UNCHANGED waiterVars
CancelWait(w) ==
  /\ ClientRuns
  /\ watcher[w] = "live"
  /\ DestroyWatcher(w)
  /\ watcher' = [watcher EXCEPT ![w] = "cancelled"]
  /\ UNCHANGED <<answers, inCallback>>

\* OnHandleReady or OnHandleError: delete this, then enter the callback.
CallCallback_ReadyOnly(w) ==
  /\ calling = w
  /\ ~inCallback
  /\ IF callback = "ready"
       THEN /\ DestroyWatcher(w)
            /\ watcher' = [watcher EXCEPT ![w] = "answered"]
            /\ answers' = [answers EXCEPT ![w] = @ + 1]
       ELSE UNCHANGED <<loopVars, watcher, answers>>
  /\ inCallback' = TRUE
CallCallback(w) ==
  /\ calling = w
  /\ ~inCallback
  /\ DestroyWatcher(w)
  /\ watcher' = [watcher EXCEPT ![w] = "answered"]
  /\ answers' = [answers EXCEPT ![w] = @ + 1]
  /\ inCallback' = TRUE

-----------------------------------------------------------------------------
(* What the message loop does, in the terms of its contract.  Waits have no *)
(* deadline here: while the loop is open a watcher hears of signals only.   *)

LoopCalls(w) ==
  /\ Loop!CallReady(w) \/ (phase = "closing" /\ Loop!CallError(w))
  /\ UNCHANGED waiterVars

LoopReturns ==
  /\ inCallback
  /\ Loop!Return
  /\ inCallback' = FALSE
  /\ UNCHANGED <<watcher, answers>>

LoopCloses == Loop!Close /\ UNCHANGED waiterVars

LoopEnds == Loop!End /\ UNCHANGED waiterVars
-----------------------------------------------------------------------------
Terminated == phase = "ended" /\ UNCHANGED vars

Next ==
  \/ \E w \in Waits :
       AsyncWait(w) \/ CancelWait(w) \/ CallCallback(w) \/ LoopCalls(w)
  \/ LoopReturns \/ LoopCloses \/ LoopEnds
  \/ Terminated

Spec == Init /\ [][Next]_vars

\* The loop refers only to watchers that exist, and a watcher that exists is
\* known to the loop: the one exception is a wait begun when the loop is being
\* destroyed, which AddHandler suppresses without saying so.  A callback comes
\* at most once, from the watcher that is gone by then, and not after
\* CancelWait.
WatchersRegistered ==
  \A w \in Waits :
    /\ status[w] = "registered" => watcher[w] = "live"
    /\ watcher[w] = "live" => status[w] = "registered" \/ phase # "open"
    /\ answers[w] = IF watcher[w] = "answered" THEN 1 ELSE 0

\* A wait that is pending when the loop is destroyed is answered, with an
\* error, unless a client cancels it.
PendingWaitsAnswered ==
  \A w \in Waits :
    status[w] = "registered" /\ phase = "closing"
      ~> watcher[w] \in {"answered", "cancelled"}
=============================================================================
