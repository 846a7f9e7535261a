---------------------------- MODULE SocketDrainer ----------------------------
(***************************************************************************)
(* SocketDrainer over the default async waiter: it reads its socket, hands *)
(* what it read to its client, waits for more, and says so when there will *)
(* be no more.  The client may destroy the drainer wherever its own code   *)
(* runs, OnDataAvailable and OnDataComplete included; ReadData notices     *)
(* through destruction_sentinel_, which points to a local of its frame.    *)
(*                                                                         *)
(* at is the drainer's frame on the loop's stack: the function about to    *)
(* run, or the client callback it is in.  While it is not "idle" the loop  *)
(* cannot go on.  The socket is external: a count of unread units, and     *)
(* whether its other end may still write; what it holds can be read after  *)
(* the other end closed, or shut down its writing.                         *)
(*                                                                         *)
(* Preconditions of the code (FTL_DCHECK(!wait_id_)) are guards: Start is  *)
(* called of a drainer that is not draining.  Operators named X_y are      *)
(* faulty variants of X.                                                   *)
(***************************************************************************)
EXTENDS Integers, FiniteSets, FiniteSetsExt, WaitBound

CONSTANTS MaxData,     \* bound on what is written to one socket
          BufferSize   \* what one read takes at most

ASSUME SocketDrainerAssumption ==
  MaxData \in Nat /\ BufferSize \in Nat \ {0}

VARIABLES
  status, calling, callback, phase,   \* of HandlerContract
  watcher, answers, inCallback,       \* of AsyncWaiter
  alive,                  \* the SocketDrainer exists
  wait_id_,
  destruction_sentinel_,  \* whether it points to is_destroyed
  is_destroyed,           \* local of ReadData
  at,
  source_,                \* "none" before Start, "draining", "complete"
  unread, written,        \* in the socket now, and ever
  peer                    \* the other end: "open", "shutdown", "closed"

Waiter == INSTANCE AsyncWaiter

waiterVars == <<status, calling, callback, phase, watcher, answers, inCallback>>
drainerVars == <<alive, wait_id_, destruction_sentinel_, is_destroyed, at, source_>>
socketVars == <<unread, written, peer>>
vars == <<waiterVars, drainerVars, socketVars>>

TypeOK ==
  /\ Waiter!TypeOK
  /\ alive \in BOOLEAN
  /\ wait_id_ \in 0..MaxWaits
  /\ destruction_sentinel_ \in BOOLEAN
  /\ is_destroyed \in BOOLEAN
  /\ at \in {"idle", "ReadData", "OnDataAvailable", "WaitForData", "OnDataComplete"}
  /\ source_ \in {"none", "draining", "complete"}
  /\ unread \in 0..MaxData
  /\ written \in 0..MaxData
  /\ peer \in {"open", "shutdown", "closed"}

Init ==
  /\ Waiter!Init
  /\ alive = TRUE
  /\ wait_id_ = 0
  /\ destruction_sentinel_ = FALSE
  /\ is_destroyed = FALSE
  /\ at = "idle"
  /\ source_ = "none"
  /\ unread = 0
  /\ written = 0
  /\ peer = "open"
-----------------------------------------------------------------------------
(* What the client does *)

ClientFrames == {"idle", "OnDataAvailable", "OnDataComplete"}

\* Bound: a session needs a wait per unit, one for the end and, when the loop
\* is destroyed, one that is suppressed.
WaitsLeft == Cardinality({w \in Waiter!Waits : status[w] = "unused"}) >= MaxData + 2

\* The new socket's other end is somebody else's and still open.
Start ==
  /\ Waiter!ClientRuns
  /\ at \in {"idle", "OnDataComplete"}
  /\ alive
  /\ source_ # "draining"
  /\ WaitsLeft
  /\ source_' = "draining"
  /\ at' = "ReadData"
  /\ unread' = 0 /\ written' = 0 /\ peer' = "open"
  /\ UNCHANGED <<waiterVars, alive, wait_id_, destruction_sentinel_, is_destroyed>>

\* ~SocketDrainer.  With a wait pending this needs the thread's message loop.
Destroy_NoCancel ==
  /\ at \in ClientFrames
  /\ Waiter!ClientRuns
  /\ alive
  /\ alive' = FALSE
  /\ is_destroyed' = (is_destroyed \/ destruction_sentinel_)
  /\ UNCHANGED <<waiterVars, wait_id_, destruction_sentinel_, at, source_, socketVars>>
Destroy_NoSentinel ==
  /\ at \in ClientFrames
  /\ Waiter!ClientRuns
  /\ alive
  /\ IF wait_id_ # 0 THEN Waiter!CancelWait(wait_id_) ELSE UNCHANGED waiterVars
  /\ alive' = FALSE
  /\ UNCHANGED <<wait_id_, destruction_sentinel_, is_destroyed, at, source_, socketVars>>
Destroy ==
  /\ at \in ClientFrames
  /\ Waiter!ClientRuns
  /\ alive
  /\ IF wait_id_ # 0 THEN Waiter!CancelWait(wait_id_) ELSE UNCHANGED waiterVars
  /\ alive' = FALSE
  /\ is_destroyed' = (is_destroyed \/ destruction_sentinel_)
  /\ UNCHANGED <<wait_id_, destruction_sentinel_, at, source_, socketVars>>
-----------------------------------------------------------------------------
(* The drainer *)

\* MX_OK, up to the call of OnDataAvailable.
ReadSome ==
  /\ at = "ReadData"
  /\ unread > 0
  /\ unread' = unread - Min({unread, BufferSize})
  /\ is_destroyed' = FALSE
  /\ destruction_sentinel_' = TRUE
  /\ at' = "OnDataAvailable"
  /\ UNCHANGED <<waiterVars, alive, wait_id_, source_, written, peer>>

\* MX_ERR_SHOULD_WAIT.
ReadNothing ==
  /\ at = "ReadData"
  /\ unread = 0
  /\ peer = "open"
  /\ at' = "WaitForData"
  /\ UNCHANGED <<waiterVars, alive, wait_id_, destruction_sentinel_, is_destroyed,
                 source_, socketVars>>

\* MX_ERR_PEER_CLOSED, or MX_ERR_BAD_STATE after the peer's shutdown.
ReadEnd_Shutdown ==
  /\ at = "ReadData"
  /\ unread = 0
  /\ peer # "open"
  /\ source_' = IF peer = "closed" THEN "complete" ELSE source_
  /\ at' = IF peer = "closed" THEN "OnDataComplete" ELSE "idle"
  /\ UNCHANGED <<waiterVars, alive, wait_id_, destruction_sentinel_, is_destroyed,
                 socketVars>>
ReadEnd ==
  /\ at = "ReadData"
  /\ unread = 0
  /\ peer # "open"
  /\ source_' = "complete"
  /\ at' = "OnDataComplete"
  /\ UNCHANGED <<waiterVars, alive, wait_id_, destruction_sentinel_, is_destroyed,
                 socketVars>>

\* The client returns to ReadData, which may have lost its drainer.
AvailableReturns ==
  /\ at = "OnDataAvailable"
  /\ IF is_destroyed
       THEN at' = "idle" /\ UNCHANGED destruction_sentinel_
       ELSE at' = "WaitForData" /\ destruction_sentinel_' = FALSE
  /\ UNCHANGED <<waiterVars, alive, wait_id_, is_destroyed, source_, socketVars>>

CompleteReturns ==
  /\ at = "OnDataComplete"
  /\ at' = "idle"
  /\ UNCHANGED <<waiterVars, alive, wait_id_, destruction_sentinel_, is_destroyed,
                 source_, socketVars>>

WaitForData ==
  /\ at = "WaitForData"
  /\ \E w \in Waiter!Waits :
       /\ Waiter!AsyncWait(w)
       /\ wait_id_' = w
  /\ at' = "idle"
  /\ UNCHANGED <<alive, destruction_sentinel_, is_destroyed, source_, socketVars>>

\* The waiter's callback; the result of the wait is not looked at.
WaitComplete_Ended(w) ==
  /\ Waiter!CallCallback(w)
  /\ wait_id_' = 0
  /\ IF peer = "open" THEN at' = "ReadData" /\ UNCHANGED source_
                      ELSE at' = "OnDataComplete" /\ source_' = "complete"
  /\ UNCHANGED <<alive, destruction_sentinel_, is_destroyed, socketVars>>
WaitComplete(w) ==
  /\ Waiter!CallCallback(w)
  /\ wait_id_' = 0
  /\ at' = "ReadData"
  /\ UNCHANGED <<alive, destruction_sentinel_, is_destroyed, source_, socketVars>>
-----------------------------------------------------------------------------
(* The other end of the socket, and the message loop *)

PeerWrites ==
  /\ peer = "open"
  /\ written < MaxData
  /\ written' = written + 1
  /\ unread' = unread + 1
  /\ UNCHANGED <<waiterVars, drainerVars, peer>>

PeerStops(how) ==
  /\ peer \in IF how = "shutdown" THEN {"open"} ELSE {"open", "shutdown"}
  /\ peer' = how
  /\ UNCHANGED <<waiterVars, drainerVars, unread, written>>

\* MX_SOCKET_READABLE | MX_SOCKET_READ_DISABLED | MX_SOCKET_PEER_CLOSED
Triggered == unread > 0 \/ peer # "open"

LoopCalls(w) ==
  /\ at = "idle"
  /\ phase = "open" => Triggered
  /\ Waiter!LoopCalls(w)
  /\ UNCHANGED <<drainerVars, socketVars>>

LoopReturns ==
  /\ at = "idle"
  /\ Waiter!LoopReturns
  /\ UNCHANGED <<drainerVars, socketVars>>

LoopCloses ==
  /\ at = "idle"
  /\ Waiter!LoopCloses
  /\ UNCHANGED <<drainerVars, socketVars>>

LoopEnds ==
  /\ at = "idle"
  /\ Waiter!LoopEnds
  /\ UNCHANGED <<drainerVars, socketVars>>
-----------------------------------------------------------------------------
DrainerStep ==
  \/ ReadSome \/ ReadNothing \/ ReadEnd
  \/ AvailableReturns \/ CompleteReturns \/ WaitForData
  \/ \E w \in Waiter!Waits : WaitComplete(w)

LoopStep ==
  \/ \E w \in Waiter!Waits : LoopCalls(w)
  \/ LoopReturns \/ LoopEnds

Terminated == phase = "ended" /\ UNCHANGED vars

Next ==
  \/ Start \/ Destroy
  \/ DrainerStep
  \/ PeerWrites \/ PeerStops("shutdown") \/ PeerStops("closed")
  \/ LoopStep \/ LoopCloses
  \/ Terminated

Spec == Init /\ [][Next]_vars

\* Code that was called returns, and the loop calls a handler whose signals
\* are there (MessageLoop!TriggeredHandled, DestructionEnds).
FairSpec == Spec /\ WF_vars(DrainerStep) /\ WF_vars(LoopStep)
-----------------------------------------------------------------------------
(* Whatever the loop and the waiter still hold leads to a drainer that     *)
(* exists, at most one wait at a time, and no watcher is forgotten: the    *)
(* callback's context never dangles.  Conversely a drainer that neither    *)
(* runs nor waits has said that it is complete: only the destruction of    *)
(* the loop can silence it.                                                *)
WaitsOwned ==
  /\ \A w \in Waiter!Waits :
       watcher[w] = "live" \/ status[w] = "registered" => alive /\ wait_id_ = w
  /\ alive /\ source_ = "draining" /\ at = "idle" /\ calling = 0 /\ phase = "open"
       => wait_id_ # 0 /\ status[wait_id_] = "registered"

\* ReadData goes on with its drainer only if there is one, and the drainer
\* holds a pointer into ReadData's frame only while that frame is there.
NoDanglingFrame ==
  /\ at \in {"ReadData", "WaitForData"} => alive
  /\ alive /\ destruction_sentinel_ => at = "OnDataAvailable"

\* OnDataComplete means that everything written was delivered before.
CompleteIsComplete == source_ = "complete" => unread = 0 /\ peer # "open"

\* The waiter's own promises, with the drainer for its client: the loop refers
\* only to watchers that exist, those that exist are known to it unless they
\* were begun in its destruction, and none answers twice.
WatchersRegistered == Waiter!WatchersRegistered

\* A wait that is pending when the loop is destroyed is answered or cancelled.
PendingWaitsAnswered == Waiter!PendingWaitsAnswered

\* When the other end stops writing, the client hears of it, unless it
\* destroys the drainer or the loop goes.
EndIsReported ==
  source_ = "draining" /\ peer # "open" ~> source_ = "complete" \/ ~alive \/ phase # "open"
=============================================================================
