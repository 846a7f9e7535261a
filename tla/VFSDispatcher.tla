---------------------------- MODULE VFSDispatcher ----------------------------
(***************************************************************************)
(* VFSDispatcher and its VFSHandlers: one handler of the message loop per  *)
(* connection, that serves the requests on a channel by calling            *)
(* mxrio_handler, and must close the connection's iostate once, whichever  *)
(* way it ends: the request that says so, a failure, the peer, the end of  *)
(* the loop or the dispatcher's destructor.                                *)
(*                                                                         *)
(* A handler, its key and its connection are one number.  at is the frame  *)
(* of the handler the loop is calling.                                     *)
(*                                                                         *)
(* External: the channel, with at most one unread request, and             *)
(* mxrio_handler, which takes a request and serves it, or closes when it   *)
(* is given no channel.  While it does either, the file system may add     *)
(* connections.  What it may not do is to destroy the dispatcher it is     *)
(* called by, or to add a connection to one that is being destroyed:       *)
(* handlers would be used after they were freed, or never be freed.        *)
(*                                                                         *)
(* Operators named X_y are faulty variants of X.                           *)
(***************************************************************************)
EXTENDS Naturals

CONSTANT MaxConnections   \* bound on the calls of AddVFSHandler

Connections == 1..MaxConnections

ASSUME VFSDispatcherAssumption == MaxConnections \in Nat

VARIABLES
  status, calling, callback, phase,   \* of HandlerContract
  dispatcher,    \* "live", "destroying", "gone"
  handlers_,
  object,        \* each VFSHandler: "none", "live", "deleted"
  key_,          \* the handlers whose key_ is not 0
  at,
  needs_close,   \* argument of VFSHandler::Stop
  closes,        \* how often each iostate was closed
  unread,        \* the connections with a request in their channel
  hungup         \* the connections closed by their peer

Loop == INSTANCE HandlerContract WITH Handlers <- Connections, NoHandler <- 0

loopVars == <<status, calling, callback, phase>>
handlerVars == <<handlers_, object, key_>>
channelVars == <<unread, hungup>>
vars == <<loopVars, dispatcher, handlerVars, at, needs_close, closes, channelVars>>

TypeOK ==
  /\ status \in [Connections -> {"unused", "registered", "removed"}]
  /\ calling \in Connections \cup {0}
  /\ callback \in {"none", "ready", "error"}
  /\ phase \in {"open", "closing", "ended"}
  /\ dispatcher \in {"live", "destroying", "gone"}
  /\ handlers_ \subseteq Connections
  /\ object \in [Connections -> {"none", "live", "deleted"}]
  /\ key_ \subseteq Connections
  /\ at \in {"idle", "OnHandleReady", "OnHandleError", "serving", "Stop", "closing",
             "DispatcherStop", "return"}
  /\ needs_close \in BOOLEAN
  /\ closes \in [Connections -> {0, 1}]
  /\ unread \subseteq Connections
  /\ hungup \subseteq Connections

Init ==
  /\ Loop!Init
  /\ dispatcher = "live"
  /\ handlers_ = {}
  /\ object = [c \in Connections |-> "none"]
  /\ key_ = {}
  /\ at = "idle"
  /\ needs_close = FALSE
  /\ closes = [c \in Connections |-> 0]
  /\ unread = {}
  /\ hungup = {}
-----------------------------------------------------------------------------
Start(c) == Loop!Add(c) /\ key_' = key_ \cup {c}

\* From the loop's thread, at large or in mxrio_handler.
AddVFSHandler(c) ==
  /\ at \in {"idle", "serving", "closing"}
  /\ dispatcher = "live"
  /\ \A d \in 1..(c - 1) : status[d] # "unused"
  /\ Start(c)
  /\ object' = [object EXCEPT ![c] = "live"]
  /\ handlers_' = handlers_ \cup {c}
  /\ UNCHANGED <<dispatcher, at, needs_close, closes, channelVars>>

\* RemoveHandler ignores a key that the loop does not know.
RemoveHandler(c) ==
  IF status[c] = "registered" THEN Loop!Remove(c) ELSE UNCHANGED loopVars

Close(c) == closes' = [closes EXCEPT ![c] = @ + 1]

\* delete handler, with ~VFSHandler.
DeleteHandler(c) ==
  /\ object' = [object EXCEPT ![c] = "deleted"]
  /\ IF c \in key_ THEN RemoveHandler(c) /\ key_' = key_ \ {c} /\ Close(c)
                   ELSE UNCHANGED <<loopVars, key_, closes>>

\* ~VFSDispatcher, while the thread has its message loop.
Destroy ==
  /\ at = "idle"
  /\ phase # "ended"
  /\ dispatcher = "live"
  /\ dispatcher' = "destroying"
  /\ UNCHANGED <<loopVars, handlerVars, at, needs_close, closes, channelVars>>

DestroyNext(c) ==
  /\ dispatcher = "destroying"
  /\ c \in handlers_
  /\ object[c] = "live"
  /\ DeleteHandler(c)
  /\ UNCHANGED <<dispatcher, handlers_, at, needs_close, channelVars>>

DestroyReturns ==
  /\ dispatcher = "destroying"
  /\ \A c \in handlers_ : object[c] # "live"
  /\ handlers_' = {}
  /\ dispatcher' = "gone"
  /\ UNCHANGED <<loopVars, object, key_, at, needs_close, closes, channelVars>>
-----------------------------------------------------------------------------
(* VFSHandler, called by the loop *)

OnHandleReady ==
  /\ at = "OnHandleReady"
  /\ IF calling \in unread
       THEN /\ unread' = unread \ {calling}
            /\ at' = "serving"
            /\ UNCHANGED needs_close
       ELSE /\ needs_close' = TRUE
            /\ at' = "Stop"
            /\ UNCHANGED unread
  /\ UNCHANGED <<loopVars, dispatcher, handlerVars, closes, hungup>>

\* mxrio_handler has served the request.
ServedMore ==
  /\ at = "serving"
  /\ at' = "return"
  /\ UNCHANGED <<loopVars, dispatcher, handlerVars, needs_close, closes, channelVars>>

\* ERR_DISPATCHER_DONE: the request was to close, and mxrio_handler has.
ServedLast_NeedsClose ==
  /\ at = "serving"
  /\ Close(calling)
  /\ needs_close' = TRUE
  /\ at' = "Stop"
  /\ UNCHANGED <<loopVars, dispatcher, handlerVars, channelVars>>
ServedLast ==
  /\ at = "serving"
  /\ Close(calling)
  /\ needs_close' = FALSE
  /\ at' = "Stop"
  /\ UNCHANGED <<loopVars, dispatcher, handlerVars, channelVars>>

ServeFails ==
  /\ at = "serving"
  /\ needs_close' = TRUE
  /\ at' = "Stop"
  /\ UNCHANGED <<loopVars, dispatcher, handlerVars, closes, channelVars>>

OnHandleError_Ignored ==
  /\ at = "OnHandleError"
  /\ at' = "return"
  /\ UNCHANGED <<loopVars, dispatcher, handlerVars, needs_close, closes, channelVars>>
OnHandleError ==
  /\ at = "OnHandleError"
  /\ needs_close' = TRUE
  /\ at' = "Stop"
  /\ UNCHANGED <<loopVars, dispatcher, handlerVars, closes, channelVars>>

\* VFSHandler::Stop, up to and into mxrio_handler if it needs to close.
Stop ==
  /\ at = "Stop"
  /\ RemoveHandler(calling)
  /\ key_' = key_ \ {calling}
  /\ IF needs_close THEN Close(calling) /\ at' = "closing"
                    ELSE at' = "DispatcherStop" /\ UNCHANGED closes
  /\ UNCHANGED <<dispatcher, handlers_, object, needs_close, channelVars>>

CloseReturns ==
  /\ at = "closing"
  /\ at' = "DispatcherStop"
  /\ UNCHANGED <<loopVars, dispatcher, handlerVars, needs_close, closes, channelVars>>

\* VFSDispatcher::Stop
DispatcherStop_Kept ==
  /\ at = "DispatcherStop"
  /\ DeleteHandler(calling)
  /\ at' = "return"
  /\ UNCHANGED <<dispatcher, handlers_, needs_close, channelVars>>
DispatcherStop ==
  /\ at = "DispatcherStop"
  /\ handlers_' = handlers_ \ {calling}
  /\ DeleteHandler(calling)
  /\ at' = "return"
  /\ UNCHANGED <<dispatcher, needs_close, channelVars>>
-----------------------------------------------------------------------------
(* The peers and the message loop *)

PeerSends(c) ==
  /\ object[c] = "live"
  /\ c \notin unread \cup hungup
  /\ unread' = unread \cup {c}
  /\ UNCHANGED <<loopVars, dispatcher, handlerVars, at, needs_close, closes, hungup>>

PeerHangsUp(c) ==
  /\ object[c] = "live"
  /\ c \notin hungup
  /\ hungup' = hungup \cup {c}
  /\ UNCHANGED <<loopVars, dispatcher, handlerVars, at, needs_close, closes, unread>>

LoopCalls(c) ==
  /\ at = "idle"
  /\ dispatcher # "destroying"
  /\ \/ c \in unread \cup hungup /\ Loop!CallReady(c) /\ at' = "OnHandleReady"
     \/ phase = "closing" /\ Loop!CallError(c) /\ at' = "OnHandleError"
  /\ UNCHANGED <<dispatcher, handlerVars, needs_close, closes, channelVars>>

LoopReturns ==
  /\ at = "return"
  /\ Loop!Return
  /\ at' = "idle"
  /\ UNCHANGED <<dispatcher, handlerVars, needs_close, closes, channelVars>>

LoopCloses ==
  /\ dispatcher # "destroying"
  /\ Loop!Close
  /\ UNCHANGED <<dispatcher, handlerVars, at, needs_close, closes, channelVars>>

LoopEnds ==
  /\ dispatcher # "destroying"
  /\ Loop!End
  /\ UNCHANGED <<dispatcher, handlerVars, at, needs_close, closes, channelVars>>
-----------------------------------------------------------------------------
HandlerStep ==
  \/ OnHandleReady \/ OnHandleError
  \/ ServedMore \/ ServedLast \/ ServeFails
  \/ Stop \/ CloseReturns \/ DispatcherStop
  \/ LoopReturns

Terminated == phase = "ended" /\ UNCHANGED vars

Next ==
  \/ \E c \in Connections :
       AddVFSHandler(c) \/ DestroyNext(c) \/ PeerSends(c) \/ PeerHangsUp(c) \/ LoopCalls(c)
  \/ Destroy \/ DestroyReturns
  \/ HandlerStep
  \/ LoopCloses \/ LoopEnds
  \/ Terminated

Spec == Init /\ [][Next]_vars

\* Handlers and the destructor return; a handler whose signal is there, or
\* that must hear of the loop's end, is called (MessageLoop!TriggeredHandled,
\* DestructionEnds).
FairSpec ==
  /\ Spec
  /\ WF_vars(HandlerStep)
  /\ WF_vars(DestroyReturns \/ \E c \in Connections : DestroyNext(c))
  /\ \A c \in Connections : SF_vars(LoopCalls(c))
-----------------------------------------------------------------------------
\* An iostate is closed once and not again, however its connection ends: not
\* by the handler's destructor when Stop has done it, not by Stop when the
\* peer's request has, and no handler is deleted with its iostate open.
ClosedOnce ==
  \A c \in Connections :
    /\ closes[c] <= 1
    /\ object[c] = "deleted" => closes[c] = 1
    /\ object[c] = "live" /\ closes[c] = 1
         => calling = c /\ at \in {"Stop", "closing", "DispatcherStop"}

\* Whoever refers to a handler finds it: the loop, the frames of the handler
\* itself and handlers_, which is all that exist, so that the destructor
\* deletes each of them and none twice.
HandlersOwned ==
  /\ dispatcher # "destroying" => handlers_ = {c \in Connections : object[c] = "live"}
  /\ dispatcher = "gone" => handlers_ = {}
  /\ \A c \in Connections : status[c] = "registered" => object[c] = "live"
  /\ at \notin {"idle", "return"} => object[calling] = "live" /\ dispatcher = "live"

\* A connection does not stay open behind a peer that has gone, or a loop that
\* is being destroyed: requests that are still there are served before.
ConnectionsClosed ==
  \A c \in Connections :
    status[c] = "registered" /\ (c \in hungup \/ phase = "closing") ~> closes[c] = 1
=============================================================================
