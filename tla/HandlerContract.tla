--------------------------- MODULE HandlerContract ---------------------------
(***************************************************************************)
(* What a MessageLoop promises the handlers registered with it: a handler  *)
(* is called only while it is registered, one callback at a time; an error *)
(* is the last thing it hears; nothing is registered any more once the     *)
(* loop closes, and the loop ends only when every handler has been removed *)
(* or told.  A handler here is one registration, that is one key.          *)
(***************************************************************************)
EXTENDS Naturals

CONSTANTS Handlers, NoHandler

VARIABLES
  status,    \* of each registration
  calling,   \* the handler whose callback is on the stack
  callback,  \* which callback that is
  phase      \* "open", "closing" in the destructor of the loop, "ended"

vars == <<status, calling, callback, phase>>

Init ==
  /\ status = [h \in Handlers |-> "unused"]
  /\ calling = NoHandler
  /\ callback = "none"
  /\ phase = "open"

Become(h, s) == status' = [status EXCEPT ![h] = s]

Add(h) ==
  /\ phase # "ended"
  /\ status[h] = "unused"
  /\ Become(h, IF phase = "open" THEN "registered" ELSE "removed")
  /\ UNCHANGED <<calling, callback, phase>>

Remove(h) ==
  /\ phase # "ended"
  /\ status[h] = "registered"
  /\ Become(h, "removed")
  /\ UNCHANGED <<calling, callback, phase>>

CallReady(h) ==
  /\ phase = "open"
  /\ calling = NoHandler
  /\ status[h] = "registered"
  /\ calling' = h
  /\ callback' = "ready"
  /\ UNCHANGED <<status, phase>>

CallError(h) ==
  /\ phase # "ended"
  /\ calling = NoHandler
  /\ status[h] = "registered"
  /\ calling' = h
  /\ callback' = "error"
  /\ UNCHANGED <<status, phase>>

\* A handler that was told of an error is no longer registered.
Return ==
  /\ calling # NoHandler
  /\ IF callback = "error" THEN Become(calling, "removed") ELSE UNCHANGED status
  /\ calling' = NoHandler
  /\ callback' = "none"
  /\ UNCHANGED phase

Close ==
  /\ phase = "open"
  /\ calling = NoHandler
  /\ phase' = "closing"
  /\ UNCHANGED <<status, calling, callback>>

End ==
  /\ phase = "closing"
  /\ calling = NoHandler
  /\ \A h \in Handlers : status[h] # "registered"
  /\ phase' = "ended"
  /\ UNCHANGED <<status, calling, callback>>

Next ==
  \/ \E h \in Handlers : Add(h) \/ Remove(h) \/ CallReady(h) \/ CallError(h)
  \/ Return \/ Close \/ End

Spec == Init /\ [][Next]_vars
=============================================================================
