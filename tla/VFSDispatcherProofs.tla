------------------------- MODULE VFSDispatcherProofs -------------------------
(***************************************************************************)
(* Theorems about VFSDispatcher, for any number of connections: each       *)
(* connection is closed exactly once, the dispatcher owns exactly the      *)
(* handlers that exist, none of them is forgotten, and only what is open   *)
(* is served.                                                              *)
(***************************************************************************)
EXTENDS VFSDispatcher, TLAPS

\* What the handler's frame says of the connection that is being called.
FrameInv ==
  /\ at = "idle" <=> calling = 0
  /\ dispatcher = "destroying" => at = "idle"
  /\ at = "Stop" /\ needs_close => closes[calling] = 0
  /\ at = "Stop" /\ ~needs_close => closes[calling] = 1
  /\ at \in {"closing", "DispatcherStop"} =>
       closes[calling] = 1 /\ status[calling] # "registered"

\* key_ is reset in Stop, or with the handler.
KeyInv ==
  \A c \in Connections :
    c \in key_ <=> /\ object[c] = "live"
                   /\ ~(calling = c /\ at \in {"closing", "DispatcherStop"})

FreshInv ==
  \A c \in Connections :
    /\ status[c] = "unused" => object[c] = "none"
    /\ object[c] = "none" => closes[c] = 0
    /\ object[c] = "live" => c \in handlers_

IInv == TypeOK /\ FrameInv /\ KeyInv /\ FreshInv /\ ClosedOnce /\ HandlersOwned
-----------------------------------------------------------------------------
LEMMA InitIInv == Init => IInv
  <1> SUFFICES ASSUME Init
               PROVE  IInv
    OBVIOUS
  <1> USE VFSDispatcherAssumption DEF Init, Loop!Init, Connections
  <1>1. TypeOK
    <2>1. needs_close \in BOOLEAN
      BY Zenon
    <2>2. QED
      BY <2>1, SMT DEF TypeOK
  <1>2. FrameInv /\ KeyInv /\ FreshInv
    BY SMT DEF FrameInv, KeyInv, FreshInv
  <1>3. ClosedOnce /\ HandlersOwned
    BY SMT DEF ClosedOnce, HandlersOwned
  <1> QED
    BY <1>1, <1>2, <1>3 DEF IInv

LEMMA StepIInv == IInv /\ [Next]_vars => IInv'
  <1> SUFFICES ASSUME IInv, [Next]_vars
               PROVE  IInv'
    OBVIOUS
  <1> USE VFSDispatcherAssumption
      DEF Connections, IInv, TypeOK, FrameInv, KeyInv, FreshInv, ClosedOnce,
          HandlersOwned, loopVars, handlerVars, channelVars
  <1>1. ASSUME NEW c \in Connections, AddVFSHandler(c)
        PROVE  IInv'
    BY <1>1, SMT DEF AddVFSHandler, Start, Loop!Add, Loop!Become
  <1>2. CASE Destroy
    BY <1>2, SMT DEF Destroy
  <1>3. ASSUME NEW c \in Connections, DestroyNext(c)
        PROVE  IInv'
    <2>1. /\ dispatcher = "destroying" /\ object[c] = "live" /\ calling = 0 /\ c \in key_
          /\ object' = [object EXCEPT ![c] = "deleted"]
          /\ closes' = [closes EXCEPT ![c] = @ + 1]
          /\ key_' = key_ \ {c}
          /\ UNCHANGED <<dispatcher, handlers_, at, needs_close, channelVars>>
      BY <1>3 DEF DestroyNext, DeleteHandler, Close
    <2>2. /\ status' \in [Connections -> {"unused", "registered", "removed"}]
          /\ \A d \in Connections : status'[d] = status[d] \/ (d = c /\ status'[d] = "removed")
          /\ status'[c] # "registered"
          /\ UNCHANGED <<calling, callback, phase>>
      BY <1>3, <2>1 DEF DestroyNext, DeleteHandler, RemoveHandler, Loop!Remove, Loop!Become
    <2>3. QED
      BY <2>1, <2>2, SMT
  <1>4. CASE DestroyReturns
    BY <1>4, SMT DEF DestroyReturns
  <1>5. CASE OnHandleReady
    <2>1. CASE calling \in unread
      <3>1. /\ at = "OnHandleReady" /\ at' = "serving"
            /\ unread' = unread \ {calling}
            /\ UNCHANGED <<loopVars, dispatcher, handlerVars, needs_close, closes, hungup>>
        BY <1>5, <2>1 DEF OnHandleReady
      <3>2. QED
        BY <3>1, SMT
    <2>2. CASE calling \notin unread
      <3>1. needs_close' /\ needs_close' \in BOOLEAN
        BY <1>5, <2>2, Zenon DEF OnHandleReady
      <3>2. /\ at = "OnHandleReady" /\ at' = "Stop"
            /\ UNCHANGED <<loopVars, dispatcher, handlerVars, closes, channelVars>>
        BY <1>5, <2>2 DEF OnHandleReady
      <3>3. QED
        BY <3>1, <3>2, SMT
    <2>3. QED
      BY <2>1, <2>2
  <1>6. CASE ServedMore
    BY <1>6, SMT DEF ServedMore
  <1>7. CASE ServedLast
    <2>1. ~needs_close' /\ needs_close' \in BOOLEAN
      BY <1>7, Zenon DEF ServedLast
    <2>2. /\ at = "serving" /\ at' = "Stop"
          /\ closes' = [closes EXCEPT ![calling] = @ + 1]
          /\ UNCHANGED <<loopVars, dispatcher, handlerVars, channelVars>>
      BY <1>7 DEF ServedLast, Close
    <2>3. QED
      BY <2>1, <2>2, SMT
  <1>8. CASE ServeFails \/ OnHandleError
    <2>1. needs_close' /\ needs_close' \in BOOLEAN
      BY <1>8, Zenon DEF ServeFails, OnHandleError
    <2>2. /\ at \in {"serving", "OnHandleError"} /\ at' = "Stop"
          /\ UNCHANGED <<loopVars, dispatcher, handlerVars, closes, channelVars>>
      BY <1>8 DEF ServeFails, OnHandleError
    <2>3. QED
      BY <2>1, <2>2, SMT
  <1>9. CASE Stop
    BY <1>9, SMT DEF Stop, RemoveHandler, Close, Loop!Remove, Loop!Become
  <1>10. CASE CloseReturns
    BY <1>10, SMT DEF CloseReturns
  <1>11. CASE DispatcherStop
    <2>1. /\ at = "DispatcherStop" /\ at' = "return"
          /\ handlers_' = handlers_ \ {calling}
          /\ object' = [object EXCEPT ![calling] = "deleted"]
          /\ UNCHANGED <<loopVars, key_, closes, dispatcher, needs_close, channelVars>>
      BY <1>11 DEF DispatcherStop, DeleteHandler
    <2>2. QED
      BY <2>1, SMT
  <1>12. ASSUME NEW c \in Connections, PeerSends(c) \/ PeerHangsUp(c)
         PROVE  IInv'
    <2>1. /\ unread' \subseteq Connections /\ hungup' \subseteq Connections
          /\ UNCHANGED <<loopVars, dispatcher, handlerVars, at, needs_close, closes>>
      BY <1>12 DEF PeerSends, PeerHangsUp
    <2>2. QED
      BY <2>1, SMT
  <1>13. ASSUME NEW c \in Connections, LoopCalls(c)
         PROVE  IInv'
    BY <1>13, SMT DEF LoopCalls, Loop!CallReady, Loop!CallError
  <1>14. CASE LoopReturns
    BY <1>14, SMT DEF LoopReturns, Loop!Return, Loop!Become
  <1>15. CASE LoopCloses \/ LoopEnds
    <2>1. /\ phase' \in {"closing", "ended"}
          /\ UNCHANGED <<status, calling, callback, dispatcher, handlerVars, at, needs_close,
                         closes, channelVars>>
      BY <1>15 DEF LoopCloses, LoopEnds, Loop!Close, Loop!End
    <2>2. QED
      BY <2>1, SMT
  <1>16. CASE Terminated \/ UNCHANGED vars
    <2>1. UNCHANGED vars
      BY <1>16 DEF Terminated
    <2>2. QED
      BY <2>1, SMT DEF vars
  <1> QED
    BY <1>1, <1>2, <1>3, <1>4, <1>5, <1>6, <1>7, <1>8, <1>9, <1>10, <1>11, <1>12,
       <1>13, <1>14, <1>15, <1>16 DEF Next, HandlerStep

LEMMA Inductive == Spec => []IInv
  BY InitIInv, StepIInv, PTL DEF Spec

\* Every variable of the dispatcher and of its handlers keeps its type.
THEOREM TypeCorrect == Spec => []TypeOK
  BY Inductive, PTL DEF IInv

\* Each iostate is closed exactly once by the time its VFSHandler is deleted,
\* on each of the ways a connection can end.
THEOREM ConnectionsClosedOnce == Spec => []ClosedOnce
  BY Inductive, PTL DEF IInv

\* handlers_ is the set of the VFSHandlers that exist; the loop and the frames
\* on its stack refer to no other.
THEOREM HandlersAlwaysOwned == Spec => []HandlersOwned
  BY Inductive, PTL DEF IInv
-----------------------------------------------------------------------------
(* What is served *)

\* The converse of what HandlersOwned says of the loop: while it is open it
\* knows every VFSHandler there is, but one that has begun to stop.
NoConnectionForgotten ==
  phase = "open" =>
    \A c \in Connections :
      object[c] = "live" =>
        \/ status[c] = "registered"
        \/ calling = c /\ at \in {"closing", "DispatcherStop"}

\* OnHandleError is called by the destruction of the loop only.
ErrorInv == callback = "error" => phase # "open"

LEMMA ForgottenPreserved ==
  IInv /\ ErrorInv /\ NoConnectionForgotten /\ [Next]_vars
    => ErrorInv' /\ NoConnectionForgotten'
  <1> SUFFICES ASSUME IInv, ErrorInv, NoConnectionForgotten, [Next]_vars
               PROVE  ErrorInv' /\ NoConnectionForgotten'
    OBVIOUS
  <1> USE VFSDispatcherAssumption
      DEF Connections, ErrorInv, NoConnectionForgotten, loopVars, handlerVars, channelVars
  <1>0. /\ status \in [Connections -> {"unused", "registered", "removed"}]
        /\ object \in [Connections -> {"none", "live", "deleted"}]
        /\ calling \in Connections \cup {0}
        /\ at = "idle" <=> calling = 0
        /\ at \notin {"idle", "return"} => object[calling] = "live"
    BY DEF IInv, TypeOK, FrameInv, HandlersOwned
  <1>1. ASSUME NEW c \in Connections, AddVFSHandler(c)
        PROVE  ErrorInv' /\ NoConnectionForgotten'
    BY <1>0, <1>1 DEF AddVFSHandler, Start, Loop!Add, Loop!Become
  <1>2. ASSUME NEW c \in Connections, DestroyNext(c)
        PROVE  ErrorInv' /\ NoConnectionForgotten'
    BY <1>0, <1>2 DEF DestroyNext, DeleteHandler, RemoveHandler, Loop!Remove, Loop!Become
  <1>3. CASE Destroy \/ DestroyReturns \/ OnHandleReady \/ OnHandleError \/ ServedMore
             \/ ServedLast \/ ServeFails \/ CloseReturns
    BY <1>0, <1>3 DEF Destroy, DestroyReturns, OnHandleReady, OnHandleError, ServedMore,
       ServedLast, ServeFails, CloseReturns
  <1>4. CASE Stop
    BY <1>0, <1>4 DEF Stop, RemoveHandler, Loop!Remove, Loop!Become
  <1>5. CASE DispatcherStop
    BY <1>0, <1>5 DEF DispatcherStop, DeleteHandler, RemoveHandler, Loop!Remove, Loop!Become
  <1>6. CASE \E c \in Connections : PeerSends(c) \/ PeerHangsUp(c) \/ LoopCalls(c)
    BY <1>0, <1>6 DEF PeerSends, PeerHangsUp, LoopCalls, Loop!CallReady, Loop!CallError
  <1>7. CASE LoopReturns \/ LoopCloses \/ LoopEnds
    BY <1>0, <1>7 DEF LoopReturns, LoopCloses, LoopEnds, Loop!Return, Loop!Become,
       Loop!Close, Loop!End
  <1>8. CASE Terminated \/ UNCHANGED vars
    BY <1>8 DEF Terminated, vars
  <1> QED
    BY <1>1, <1>2, <1>3, <1>4, <1>5, <1>6, <1>7, <1>8 DEF Next, HandlerStep

\* No connection of an open loop is left without somebody who will hear of its
\* requests and of its end: VFSHandler::Start, Stop and ~VFSHandler register
\* and remove the handler with the connection, not before or after.
THEOREM NoConnectionIsForgotten == Spec => []NoConnectionForgotten
  <1>1. Init => ErrorInv /\ NoConnectionForgotten
    BY DEF Init, Loop!Init, ErrorInv, NoConnectionForgotten
  <1> QED
    BY <1>1, ForgottenPreserved, Inductive, PTL DEF Spec

\* mxrio_handler is entered with an iostate that is open, of a handler that
\* its dispatcher owns; a request is taken from a channel only to serve it; a
\* closed iostate stays closed, a deleted handler deleted.
ServesOpen(c) ==
  /\ calling = c /\ at # "serving" /\ at' = "serving" =>
       object[c] = "live" /\ closes[c] = 0 /\ c \in handlers_ /\ dispatcher = "live"
  /\ c \in unread /\ c \notin unread' => calling = c /\ at' = "serving"
  /\ closes[c] = 1 => closes'[c] = 1
  /\ object[c] = "deleted" => object'[c] = "deleted"

OnlyOpenServed == [][\A c \in Connections : ServesOpen(c)]_vars

LEMMA ServesOpenStep ==
  ASSUME IInv, IInv', [Next]_vars, NEW c \in Connections
  PROVE  ServesOpen(c)
  <1> USE DEF loopVars, handlerVars, channelVars
  <1>1. /\ closes \in [Connections -> {0, 1}] /\ closes' \in [Connections -> {0, 1}]
        /\ object \in [Connections -> {"none", "live", "deleted"}]
        /\ at # "idle" => calling \in Connections
        /\ object[c] = "live" => c \in handlers_
        /\ at \notin {"idle", "return"} => object[calling] = "live" /\ dispatcher = "live"
        /\ object[c] = "live" /\ closes[c] = 1
             => calling = c /\ at \in {"Stop", "closing", "DispatcherStop"}
    BY VFSDispatcherAssumption
       DEF IInv, TypeOK, FrameInv, FreshInv, ClosedOnce, HandlersOwned, Connections
  <1>2. ASSUME NEW d \in Connections, AddVFSHandler(d)
        PROVE  ServesOpen(c)
    <2>1. object[d] = "none"
      BY <1>2 DEF AddVFSHandler, Start, Loop!Add, IInv, FreshInv
    <2> QED
      BY <1>1, <1>2, <2>1 DEF AddVFSHandler, ServesOpen
  <1>3. ASSUME NEW d \in Connections, DestroyNext(d) \/ PeerSends(d) \/ PeerHangsUp(d) \/ LoopCalls(d)
        PROVE  ServesOpen(c)
    BY <1>1, <1>3 DEF DestroyNext, DeleteHandler, Close, PeerSends, PeerHangsUp, LoopCalls,
       ServesOpen
  <1>4. CASE OnHandleReady
    BY <1>1, <1>4 DEF OnHandleReady, ServesOpen
  <1>5. CASE ServedMore \/ ServedLast \/ ServeFails \/ OnHandleError \/ CloseReturns
             \/ LoopReturns \/ Stop \/ DispatcherStop
    BY <1>1, <1>5 DEF ServedMore, ServedLast, ServeFails, OnHandleError, CloseReturns,
       LoopReturns, Stop, DispatcherStop, DeleteHandler, Close, ServesOpen
  <1>6. CASE Destroy \/ DestroyReturns \/ LoopCloses \/ LoopEnds
    BY <1>1, <1>6 DEF Destroy, DestroyReturns, LoopCloses, LoopEnds, ServesOpen
  <1>7. CASE Terminated \/ UNCHANGED vars
    BY <1>1, <1>7 DEF Terminated, vars, ServesOpen
  <1> QED
    BY <1>2, <1>3, <1>4, <1>5, <1>6, <1>7 DEF Next, HandlerStep

\* However requests, hang-ups, failures and the end of the loop or of the
\* dispatcher meet, none is served on an iostate that was closed.
THEOREM OnlyOpenIsServed == Spec => OnlyOpenServed
  <1>1. IInv /\ IInv' /\ [Next]_vars => [\A c \in Connections : ServesOpen(c)]_vars
    BY ServesOpenStep
  <1> QED
    BY <1>1, Inductive, PTL DEF Spec, OnlyOpenServed
-----------------------------------------------------------------------------
(* The loop *)

\* Each step of a handler or of the dispatcher is one that the loop's contract
\* has, or none of the loop's.
LEMMA LoopStep == IInv /\ [Next]_vars => [Loop!Next]_Loop!vars
  <1> SUFFICES ASSUME IInv, [Next]_vars
               PROVE  Loop!Next \/ UNCHANGED Loop!vars
    OBVIOUS
  <1> USE DEF Loop!vars, loopVars, Loop!Next
  <1>1. ASSUME NEW c \in Connections, RemoveHandler(c)
        PROVE  Loop!Next \/ UNCHANGED Loop!vars
    BY <1>1 DEF RemoveHandler
  <1>2. ASSUME NEW c \in Connections, DeleteHandler(c)
        PROVE  Loop!Next \/ UNCHANGED Loop!vars
    BY <1>1, <1>2 DEF DeleteHandler
  <1>3. ASSUME NEW c \in Connections,
               AddVFSHandler(c) \/ DestroyNext(c) \/ PeerSends(c) \/ PeerHangsUp(c) \/ LoopCalls(c)
        PROVE  Loop!Next \/ UNCHANGED Loop!vars
    BY <1>2, <1>3 DEF AddVFSHandler, Start, DestroyNext, PeerSends, PeerHangsUp, LoopCalls
  <1>4. CASE Stop \/ DispatcherStop
    <2>1. calling \in Connections
      BY <1>4 DEF Stop, DispatcherStop, IInv, FrameInv, TypeOK
    <2> QED
      BY <1>1, <1>2, <1>4, <2>1 DEF Stop, DispatcherStop
  <1>5. CASE OnHandleReady \/ OnHandleError \/ ServedMore \/ ServedLast \/ ServeFails
             \/ CloseReturns \/ LoopReturns
    BY <1>5 DEF OnHandleReady, OnHandleError, ServedMore, ServedLast, ServeFails,
       CloseReturns, LoopReturns
  <1>6. CASE Destroy \/ DestroyReturns \/ LoopCloses \/ LoopEnds
    BY <1>6 DEF Destroy, DestroyReturns, LoopCloses, LoopEnds
  <1>7. CASE Terminated \/ UNCHANGED vars
    BY <1>7 DEF Terminated, vars
  <1> QED
    BY <1>3, <1>4, <1>5, <1>6, <1>7 DEF Next, HandlerStep

\* The handlers of a dispatcher are clients the loop's contract is written for,
\* on each of the ways they are deleted.
THEOREM DispatcherUsesLoop == Spec => Loop!Spec
  <1>1. Init => Loop!Init
    BY DEF Init
  <1> QED
    BY <1>1, LoopStep, Inductive, PTL DEF Spec, Loop!Spec
=============================================================================
