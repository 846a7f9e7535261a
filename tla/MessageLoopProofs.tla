-------------------------- MODULE MessageLoopProofs --------------------------
(***************************************************************************)
(* Theorems about MessageLoop, for any number of handlers: who owns the    *)
(* records, which waits are armed, what the removed flag means, and that   *)
(* the destructor leaves nothing behind, for every re-entrant use of the   *)
(* loop by tasks, handlers and after-task callbacks; that it is what       *)
(* HandlerContract promises; that a registration ends for good and the     *)
(* port is served in its order; and that MessageLoopPrograms only uses it. *)
(***************************************************************************)
EXTENDS MessageLoopPrograms, SequenceTheorems, TLAPS

\* Keys not given out yet have no record; the stack and the loop agree.
KeysInv == \A key \in Keys : key >= next_handler_key_ => record[key] = "none"

ContextInv ==
  /\ current_handler_ # NoRecord <=> context \in {"ready", "error"}
  /\ context \in {"shutdown", "dead"} => loop = "shutdown"

\* The port holds at most one packet of a wait, and only of pending ones.
PacketsInv ==
  /\ \A i \in 1..Len(packets) : packets[i] \in waits
  /\ \A i, j \in 1..Len(packets) : packets[i] = packets[j] => i = j

WaitsInv == waits = handlers_ \ Current

RecordInv == KeysInv /\ ContextInv /\ RemovedFlagExact /\ RecordsOwned /\ WaitsInv

IInv == RecordInv /\ PacketsInv /\ NothingLeft
-----------------------------------------------------------------------------
(* What taking a packet out of the port does to the others. *)

\* The elements before position i stay, those after it move up by one.
LEMMA RemoveAtShape ==
  ASSUME NEW S, NEW s \in Seq(S), NEW i \in 1..Len(s)
  PROVE  /\ RemoveAt(s, i) \in Seq(S)
         /\ Len(RemoveAt(s, i)) = Len(s) - 1
         /\ \A j \in 1..(Len(s) - 1) :
              RemoveAt(s, i)[j] = IF j < i THEN s[j] ELSE s[j + 1]
  <1> DEFINE front == SubSeq(s, 1, i - 1)
             back  == SubSeq(s, i + 1, Len(s))
  <1>1. Len(s) \in Nat /\ \A j \in 1..Len(s) : s[j] \in S
    BY LenProperties, ElementOfSeq
  <1>2. /\ front \in Seq(S)
        /\ Len(front) = i - 1
        /\ \A j \in 1..(i - 1) : front[j] = s[j]
    <2>1. \A j \in 1..(i - 1) : s[j] \in S
      BY <1>1
    <2>2. QED
      BY <1>1, <2>1, SubSeqProperties
  <1>3. /\ back \in Seq(S)
        /\ Len(back) = Len(s) - i
        /\ \A j \in 1..(Len(s) - i) : back[j] = s[i + j]
    <2>1. \A j \in (i + 1)..Len(s) : s[j] \in S
      BY <1>1
    <2>2. QED
      BY <1>1, <2>1, SubSeqProperties
  <1>4. RemoveAt(s, i) = front \o back
    BY DEF RemoveAt
  <1> HIDE DEF front, back
  <1>5. /\ front \o back \in Seq(S)
        /\ Len(front \o back) = Len(s) - 1
        /\ \A j \in 1..(Len(s) - 1) :
             (front \o back)[j] = IF j <= i - 1 THEN front[j] ELSE back[j - (i - 1)]
    <2>1. Len(front) + Len(back) = Len(s) - 1
      BY <1>1, <1>2, <1>3
    <2>2. /\ front \o back \in Seq(S)
          /\ Len(front \o back) = Len(front) + Len(back)
          /\ \A j \in 1..(Len(front) + Len(back)) :
               (front \o back)[j] = IF j <= Len(front) THEN front[j]
                                    ELSE back[j - Len(front)]
      BY <1>2, <1>3, ConcatProperties
    <2>3. QED
      BY <1>2, <2>1, <2>2
  <1>6. \A j \in 1..(Len(s) - 1) :
          (front \o back)[j] = IF j < i THEN s[j] ELSE s[j + 1]
    <2> TAKE j \in 1..(Len(s) - 1)
    <2>1. CASE j < i
      BY <2>1, <1>1, <1>2, <1>5
    <2>2. CASE ~(j < i)
      <3>1. j - (i - 1) \in 1..(Len(s) - i)
        BY <2>2, <1>1
      <3>2. back[j - (i - 1)] = s[i + (j - (i - 1))]
        BY <3>1, <1>3
      <3>3. i + (j - (i - 1)) = j + 1
        BY <1>1
      <3>4. QED
        BY <2>2, <3>2, <3>3, <1>1, <1>5
    <2>3. QED
      BY <2>1, <2>2
  <1>7. QED
    BY <1>4, <1>5, <1>6

\* A list without repetitions stays one, and loses exactly the element taken.
LEMMA RemoveAtInjective ==
  ASSUME NEW S, NEW s \in Seq(S), NEW i \in 1..Len(s),
         \A j, k \in 1..Len(s) : s[j] = s[k] => j = k
  PROVE  LET r == RemoveAt(s, i)
         IN  /\ \A j, k \in 1..Len(r) : r[j] = r[k] => j = k
             /\ \A j \in 1..Len(r) : r[j] # s[i]
             /\ \A j \in 1..Len(r) : \E k \in 1..Len(s) : r[j] = s[k]
  <1> DEFINE r == RemoveAt(s, i)
             at(j) == IF j < i THEN j ELSE j + 1
  <1>1. Len(s) \in Nat /\ Len(r) = Len(s) - 1
    BY RemoveAtShape, LenProperties
  <1>2. \A j \in 1..Len(r) : r[j] = s[at(j)]
    BY <1>1, RemoveAtShape
  <1>3. \A j \in 1..Len(r) : at(j) \in 1..Len(s) /\ at(j) # i
    BY <1>1
  <1>4. \A j, k \in 1..Len(r) : at(j) = at(k) => j = k
    BY <1>1
  <1> HIDE DEF r, at
  <1>5. QED
    BY <1>2, <1>3, <1>4 DEF r
-----------------------------------------------------------------------------
\* Forget leaves a well-formed list of packets without the forgotten one.
LEMMA ForgetPackets ==
  ASSUME TypeOK, PacketsInv, NEW key \in Keys, Forget(key)
  PROVE  packets' \in Seq(Keys) /\ PacketsInv'
  <1>1. CASE \A i \in 1..Len(packets) : packets[i] # key
    <2>1. packets' = packets
      BY <1>1 DEF Forget
    <2>2. QED
      BY <1>1, <2>1 DEF Forget, TypeOK, PacketsInv
  <1>2. ASSUME NEW i \in 1..Len(packets), packets[i] = key,
               packets' = RemoveAt(packets, i)
        PROVE  packets' \in Seq(Keys) /\ PacketsInv'
    <2>1. packets \in Seq(Keys)
      BY DEF TypeOK
    <2>2. packets' \in Seq(Keys)
      BY <1>2, <2>1, RemoveAtShape
    <2>3. /\ \A j, k \in 1..Len(packets') : packets'[j] = packets'[k] => j = k
          /\ \A j \in 1..Len(packets') : packets'[j] # key
          /\ \A j \in 1..Len(packets') : \E k \in 1..Len(packets) : packets'[j] = packets[k]
      <3>1. \A j, k \in 1..Len(packets) : packets[j] = packets[k] => j = k
        BY DEF PacketsInv
      <3>2. LET r == RemoveAt(packets, i)
            IN  /\ \A j, k \in 1..Len(r) : r[j] = r[k] => j = k
                /\ \A j \in 1..Len(r) : r[j] # packets[i]
                /\ \A j \in 1..Len(r) : \E k \in 1..Len(packets) : r[j] = packets[k]
        BY <2>1, <3>1, RemoveAtInjective
      <3>3. QED
        BY <1>2, <3>2
    <2>4. \A j \in 1..Len(packets') : packets'[j] \in waits'
      BY <2>3 DEF PacketsInv, Forget
    <2>5. QED
      BY <2>2, <2>3, <2>4 DEF PacketsInv
  <1>3. QED
    BY <1>1, <1>2 DEF Forget

\* The steps of the loop, one by one: every proof below has these cases.  A
\* handler is called by Handle, from the dispatcher or from Shutdown.
LEMMA EveryStep ==
  ASSUME TypeOK, RecordInv, [Next]_vars
  PROVE  \/ \E hasTimeout \in BOOLEAN : AddHandler(hasTimeout)
         \/ \E key \in Keys : RemoveHandler(key) \/ Trigger(key)
         \/ AddHandlerSuppressed
         \/ QuitNow
         \/ SetAfterTaskCallback
         \/ ClearAfterTaskCallback
         \/ Run
         \/ Destroy
         \/ RunTask
         \/ TaskReturns
         \/ ReadyReturns
         \/ ErrorReturns
         \/ EpilogueReturns
         \/ RunReturns
         \/ ShutdownDeletesTask
         \/ DestroyReturns
         \/ \E key \in Keys : Handle(key, "ready") /\ Dispatching
         \/ \E key \in Keys :
              /\ Handle(key, "error")
              /\ context \in {"dispatch", "shutdown"}
         \/ UNCHANGED vars
  <1>1. DispatchReady => \E key \in Keys : Handle(key, "ready") /\ Dispatching
    BY HeadTailProperties DEF DispatchReady, TypeOK
  <1>2. QED
    BY <1>1 DEF Next, Client, Returns, Dispatch, Shutdown, Terminated, DispatchTimeout,
       ShutdownCancels, Dispatching

LEMMA TypePreserved == TypeOK /\ RecordInv /\ PacketsInv /\ [Next]_vars => TypeOK'
  <1> SUFFICES ASSUME TypeOK, RecordInv, PacketsInv, [Next]_vars
               PROVE  TypeOK'
    OBVIOUS
  <1> USE MessageLoopAssumption DEF TypeOK, Contexts, Keys, handlerVars, currentVars, asyncVars
  <1>1. ASSUME NEW hasTimeout \in BOOLEAN, AddHandler(hasTimeout)
        PROVE  TypeOK'
    <2>1. /\ next_handler_key_ \in Keys
          /\ next_handler_key_' \in 1..(MaxKey + 1)
      BY <1>1 DEF AddHandler, NewKey
    <2>2. /\ record' \in [Keys -> {"none", "live", "deleted"}]
          /\ handlers_' \subseteq Keys /\ waits' \subseteq Keys /\ deadline' \subseteq Keys
      BY <1>1, <2>1 DEF AddHandler
    <2>3. QED
      BY <1>1, <2>1, <2>2 DEF AddHandler
  <1>2. ASSUME NEW key \in Keys, RemoveHandler(key)
        PROVE  TypeOK'
    <2>1. packets' \in Seq(Keys)
      BY <1>2, ForgetPackets DEF RemoveHandler, CancelAndDelete
    <2>2. QED
      BY <1>2, <2>1 DEF RemoveHandler, CancelAndDelete, Forget, Delete
  <1>3. ASSUME AddHandlerSuppressed
        PROVE  TypeOK'
    BY <1>3 DEF AddHandlerSuppressed, NewKey, Delete, ClientCode
  <1>4. ASSUME QuitNow
        PROVE  TypeOK'
    BY <1>4 DEF QuitNow, ClientCode
  <1>5. ASSUME SetAfterTaskCallback
        PROVE  TypeOK'
    BY <1>5 DEF SetAfterTaskCallback, ClientCode
  <1>6. ASSUME ClearAfterTaskCallback
        PROVE  TypeOK'
    BY <1>6 DEF ClearAfterTaskCallback, ClientCode
  <1>7. ASSUME Run
        PROVE  TypeOK'
    BY <1>7 DEF Run
  <1>8. ASSUME Destroy
        PROVE  TypeOK'
    BY <1>8 DEF Destroy
  <1>9. ASSUME RunTask
        PROVE  TypeOK'
    BY <1>9 DEF RunTask, Dispatching
  <1>10. ASSUME TaskReturns
        PROVE  TypeOK'
    BY <1>10 DEF TaskReturns, Resume
  <1>11. ASSUME ReadyReturns
        PROVE  TypeOK'
    BY <1>11 DEF ReadyReturns, Unwind, Resume, Delete, RecordInv, ContextInv
  <1>12. ASSUME ErrorReturns
        PROVE  TypeOK'
    BY <1>12 DEF ErrorReturns, EraseFailed, Unwind, Resume, Delete, RecordInv, ContextInv
  <1>13. ASSUME EpilogueReturns
        PROVE  TypeOK'
    BY <1>13 DEF EpilogueReturns
  <1>14. ASSUME RunReturns
        PROVE  TypeOK'
    BY <1>14 DEF RunReturns
  <1>15. ASSUME ShutdownDeletesTask
        PROVE  TypeOK'
    BY <1>15 DEF ShutdownDeletesTask
  <1>16. ASSUME DestroyReturns
        PROVE  TypeOK'
    BY <1>16 DEF DestroyReturns
  <1>17. ASSUME NEW key \in Keys, Trigger(key)
        PROVE  TypeOK'
    BY <1>17 DEF Trigger
  <1>18. ASSUME NEW key \in Keys, Handle(key, "ready"), Dispatching
        PROVE  TypeOK'
    <2>1. packets' \in Seq(Keys)
      BY <1>18, ForgetPackets DEF Handle
    <2>2. QED
      BY <1>18, <2>1 DEF Handle, Forget, Delete
  <1>19. ASSUME NEW key \in Keys, Handle(key, "error"),
               context \in {"dispatch", "shutdown"}
        PROVE  TypeOK'
    <2>1. packets' \in Seq(Keys)
      BY <1>19, ForgetPackets DEF Handle
    <2>2. QED
      BY <1>19, <2>1 DEF Handle, Forget, Delete
  <1>20. CASE UNCHANGED vars
    BY <1>20 DEF vars, handlerVars, currentVars, asyncVars
  <1>21. QED
    BY <1>1, <1>2, <1>3, <1>4, <1>5, <1>6, <1>7, <1>8, <1>9, <1>10, <1>11, <1>12,
       <1>13, <1>14, <1>15, <1>16, <1>17, <1>18, <1>19, <1>20, EveryStep

LEMMA RecordPreserved == TypeOK /\ RecordInv /\ [Next]_vars => RecordInv'
  <1> SUFFICES ASSUME TypeOK, RecordInv, [Next]_vars
               PROVE  RecordInv'
    OBVIOUS
  <1> USE MessageLoopAssumption DEF TypeOK, RecordInv, KeysInv, ContextInv,
         RemovedFlagExact, RecordsOwned, WaitsInv, Current, Contexts, Keys,
         handlerVars, currentVars, asyncVars
  <1>1. ASSUME NEW hasTimeout \in BOOLEAN, AddHandler(hasTimeout)
        PROVE  RecordInv'
    BY <1>1 DEF AddHandler, NewKey, ClientCode
  <1>2. ASSUME NEW key \in Keys, RemoveHandler(key)
        PROVE  RecordInv'
    BY <1>2 DEF RemoveHandler, CancelAndDelete, Delete, Forget, ClientCode
  <1>3. ASSUME AddHandlerSuppressed
        PROVE  RecordInv'
    BY <1>3 DEF AddHandlerSuppressed, NewKey, Delete, ClientCode
  <1>4. ASSUME QuitNow
        PROVE  RecordInv'
    BY <1>4 DEF QuitNow, ClientCode
  <1>5. ASSUME SetAfterTaskCallback
        PROVE  RecordInv'
    BY <1>5 DEF SetAfterTaskCallback, ClientCode
  <1>6. ASSUME ClearAfterTaskCallback
        PROVE  RecordInv'
    BY <1>6 DEF ClearAfterTaskCallback, ClientCode
  <1>7. ASSUME Run
        PROVE  RecordInv'
    BY <1>7 DEF Run
  <1>8. ASSUME Destroy
        PROVE  RecordInv'
    BY <1>8 DEF Destroy
  <1>9. ASSUME RunTask
        PROVE  RecordInv'
    BY <1>9 DEF RunTask, Dispatching
  <1>10. ASSUME TaskReturns
        PROVE  RecordInv'
    BY <1>10 DEF TaskReturns, Resume
  <1>11. ASSUME ReadyReturns
        PROVE  RecordInv'
    BY <1>11 DEF ReadyReturns, Unwind, Resume, Delete
  <1>12. ASSUME ErrorReturns
        PROVE  RecordInv'
    BY <1>12 DEF ErrorReturns, EraseFailed, Unwind, Resume, Delete
  <1>13. ASSUME EpilogueReturns
        PROVE  RecordInv'
    BY <1>13 DEF EpilogueReturns
  <1>14. ASSUME RunReturns
        PROVE  RecordInv'
    BY <1>14 DEF RunReturns
  <1>15. ASSUME ShutdownDeletesTask
        PROVE  RecordInv'
    BY <1>15 DEF ShutdownDeletesTask
  <1>16. ASSUME DestroyReturns
        PROVE  RecordInv'
    BY <1>16 DEF DestroyReturns
  <1>17. ASSUME NEW key \in Keys, Trigger(key)
        PROVE  RecordInv'
    BY <1>17 DEF Trigger
  <1>18. ASSUME NEW key \in Keys, Handle(key, "ready"), Dispatching
        PROVE  RecordInv'
    BY <1>18 DEF Handle, Dispatching, Forget
  <1>19. ASSUME NEW key \in Keys, Handle(key, "error"),
               context \in {"dispatch", "shutdown"}
        PROVE  RecordInv'
    BY <1>19 DEF Handle, Forget
  <1>20. CASE UNCHANGED vars
    BY <1>20 DEF vars, handlerVars, currentVars, asyncVars
  <1>21. QED
    BY <1>1, <1>2, <1>3, <1>4, <1>5, <1>6, <1>7, <1>8, <1>9, <1>10, <1>11, <1>12,
       <1>13, <1>14, <1>15, <1>16, <1>17, <1>18, <1>19, <1>20, EveryStep

LEMMA PacketsPreserved == TypeOK /\ RecordInv /\ PacketsInv /\ [Next]_vars => PacketsInv'
  <1> SUFFICES ASSUME TypeOK, RecordInv, PacketsInv, [Next]_vars
               PROVE  PacketsInv'
    OBVIOUS
  <1> USE MessageLoopAssumption DEF handlerVars, currentVars, asyncVars
  <1>1. ASSUME NEW hasTimeout \in BOOLEAN, AddHandler(hasTimeout)
        PROVE  PacketsInv'
    BY <1>1 DEF AddHandler, PacketsInv
  <1>2. ASSUME NEW key \in Keys, RemoveHandler(key)
        PROVE  PacketsInv'
    <2>1. CASE current_handler_ = key
      BY <1>2, <2>1 DEF RemoveHandler, PacketsInv
    <2>2. CASE current_handler_ # key
      BY <1>2, <2>2, ForgetPackets DEF RemoveHandler, CancelAndDelete
    <2>3. QED
      BY <2>1, <2>2
  <1>3. ASSUME AddHandlerSuppressed
        PROVE  PacketsInv'
    BY <1>3 DEF AddHandlerSuppressed, PacketsInv
  <1>4. ASSUME QuitNow
        PROVE  PacketsInv'
    BY <1>4 DEF QuitNow, PacketsInv
  <1>5. ASSUME SetAfterTaskCallback
        PROVE  PacketsInv'
    BY <1>5 DEF SetAfterTaskCallback, PacketsInv
  <1>6. ASSUME ClearAfterTaskCallback
        PROVE  PacketsInv'
    BY <1>6 DEF ClearAfterTaskCallback, PacketsInv
  <1>7. ASSUME Run
        PROVE  PacketsInv'
    BY <1>7 DEF Run, PacketsInv
  <1>8. ASSUME Destroy
        PROVE  PacketsInv'
    BY <1>8 DEF Destroy, PacketsInv
  <1>9. ASSUME RunTask
        PROVE  PacketsInv'
    BY <1>9 DEF RunTask, PacketsInv
  <1>10. ASSUME TaskReturns
        PROVE  PacketsInv'
    BY <1>10 DEF TaskReturns, PacketsInv, Resume
  <1>11. ASSUME ReadyReturns
        PROVE  PacketsInv'
    BY <1>11 DEF ReadyReturns, PacketsInv, Resume
  <1>12. ASSUME ErrorReturns
        PROVE  PacketsInv'
    BY <1>12 DEF ErrorReturns, PacketsInv, Resume
  <1>13. ASSUME EpilogueReturns
        PROVE  PacketsInv'
    BY <1>13 DEF EpilogueReturns, PacketsInv, Resume
  <1>14. ASSUME RunReturns
        PROVE  PacketsInv'
    BY <1>14 DEF RunReturns, PacketsInv, Resume
  <1>15. ASSUME ShutdownDeletesTask
        PROVE  PacketsInv'
    BY <1>15 DEF ShutdownDeletesTask, PacketsInv
  <1>16. ASSUME DestroyReturns
        PROVE  PacketsInv'
    BY <1>16 DEF DestroyReturns, PacketsInv, Resume
  <1>17. ASSUME NEW key \in Keys, Trigger(key)
        PROVE  PacketsInv'
    <2>1. packets' = Append(packets, key) /\ waits' = waits /\ key \in waits
      BY <1>17 DEF Trigger
    <2>2. /\ Len(packets') = Len(packets) + 1
          /\ packets'[Len(packets) + 1] = key
          /\ \A i \in 1..Len(packets) : packets'[i] = packets[i]
      BY <2>1, AppendProperties DEF TypeOK
    <2>3. Len(packets) \in Nat
      BY LenProperties DEF TypeOK
    <2>4. QED
      BY <1>17, <2>1, <2>2, <2>3 DEF Trigger, PacketsInv
  <1>18. ASSUME NEW key \in Keys, Handle(key, "ready"), Dispatching
        PROVE  PacketsInv'
    BY <1>18, ForgetPackets DEF Handle
  <1>19. ASSUME NEW key \in Keys, Handle(key, "error"),
               context \in {"dispatch", "shutdown"}
        PROVE  PacketsInv'
    BY <1>19, ForgetPackets DEF Handle
  <1>20. CASE UNCHANGED vars
    BY <1>20 DEF vars, PacketsInv, handlerVars, currentVars, asyncVars
  <1>21. QED
    BY <1>1, <1>2, <1>3, <1>4, <1>5, <1>6, <1>7, <1>8, <1>9, <1>10, <1>11, <1>12,
       <1>13, <1>14, <1>15, <1>16, <1>17, <1>18, <1>19, <1>20, EveryStep

LEMMA LeftPreserved == TypeOK /\ RecordInv /\ NothingLeft /\ [Next]_vars => NothingLeft'
  <1> SUFFICES ASSUME TypeOK, RecordInv, NothingLeft, [Next]_vars
               PROVE  NothingLeft'
    OBVIOUS
  <1> USE MessageLoopAssumption DEF TypeOK, NothingLeft, Contexts, Keys, handlerVars, currentVars, asyncVars
  <1>1. ASSUME NEW hasTimeout \in BOOLEAN, AddHandler(hasTimeout)
        PROVE  NothingLeft'
    BY <1>1 DEF AddHandler, NewKey, ClientCode
  <1>2. ASSUME NEW key \in Keys, RemoveHandler(key)
        PROVE  NothingLeft'
    BY <1>2 DEF RemoveHandler, CancelAndDelete, Delete, Forget, ClientCode
  <1>3. ASSUME AddHandlerSuppressed
        PROVE  NothingLeft'
    BY <1>3 DEF AddHandlerSuppressed, NewKey, Delete, ClientCode
  <1>4. ASSUME QuitNow
        PROVE  NothingLeft'
    BY <1>4 DEF QuitNow, ClientCode
  <1>5. ASSUME SetAfterTaskCallback
        PROVE  NothingLeft'
    BY <1>5 DEF SetAfterTaskCallback, ClientCode
  <1>6. ASSUME ClearAfterTaskCallback
        PROVE  NothingLeft'
    BY <1>6 DEF ClearAfterTaskCallback, ClientCode
  <1>7. ASSUME Run
        PROVE  NothingLeft'
    BY <1>7 DEF Run
  <1>8. ASSUME Destroy
        PROVE  NothingLeft'
    BY <1>8 DEF Destroy
  <1>9. ASSUME RunTask
        PROVE  NothingLeft'
    BY <1>9 DEF RunTask, Dispatching
  <1>10. ASSUME TaskReturns
        PROVE  NothingLeft'
    BY <1>10 DEF TaskReturns, Resume
  <1>11. ASSUME ReadyReturns
        PROVE  NothingLeft'
    BY <1>11 DEF ReadyReturns, Unwind, Resume, Delete
  <1>12. ASSUME ErrorReturns
        PROVE  NothingLeft'
    BY <1>12 DEF ErrorReturns, EraseFailed, Unwind, Resume, Delete
  <1>13. ASSUME EpilogueReturns
        PROVE  NothingLeft'
    BY <1>13 DEF EpilogueReturns
  <1>14. ASSUME RunReturns
        PROVE  NothingLeft'
    BY <1>14 DEF RunReturns
  <1>15. ASSUME ShutdownDeletesTask
        PROVE  NothingLeft'
    BY <1>15 DEF ShutdownDeletesTask
  <1>16. ASSUME DestroyReturns
        PROVE  NothingLeft'
    BY <1>16 DEF DestroyReturns, RecordInv, ContextInv, RecordsOwned, WaitsInv, Current
  <1>17. ASSUME NEW key \in Keys, Trigger(key)
        PROVE  NothingLeft'
    BY <1>17 DEF Trigger
  <1>18. ASSUME NEW key \in Keys, Handle(key, "ready"), Dispatching
        PROVE  NothingLeft'
    BY <1>18 DEF Handle, Dispatching, Forget
  <1>19. ASSUME NEW key \in Keys, Handle(key, "error"),
               context \in {"dispatch", "shutdown"}
        PROVE  NothingLeft'
    BY <1>19 DEF Handle, Forget
  <1>20. CASE UNCHANGED vars
    BY <1>20 DEF vars, handlerVars, currentVars, asyncVars
  <1>21. QED
    BY <1>1, <1>2, <1>3, <1>4, <1>5, <1>6, <1>7, <1>8, <1>9, <1>10, <1>11, <1>12,
       <1>13, <1>14, <1>15, <1>16, <1>17, <1>18, <1>19, <1>20, EveryStep
-----------------------------------------------------------------------------
LEMMA InitIInv == Init => TypeOK /\ IInv
  <1> SUFFICES ASSUME Init
               PROVE  TypeOK /\ IInv
    OBVIOUS
  <1> USE MessageLoopAssumption DEF Init, FirstKey
  <1>1. TypeOK
    <2>1. packets \in Seq(Keys) /\ record \in [Keys -> {"none", "live", "deleted"}]
      BY EmptySeq, SMT
    <2>2. next_handler_key_ \in 1..(MaxKey + 1)
      BY SMT
    <2>3. QED
      BY <2>1, <2>2, Zenon DEF TypeOK, Contexts
  <1>2. KeysInv /\ ContextInv /\ RecordsOwned /\ WaitsInv
    BY DEF KeysInv, ContextInv, RecordsOwned, WaitsInv, Current
  <1>3. RemovedFlagExact /\ NothingLeft
    BY DEF RemovedFlagExact, Current, NothingLeft
  <1>4. PacketsInv
    BY EmptySeq, SMT DEF PacketsInv
  <1>5. QED
    BY <1>1, <1>2, <1>3, <1>4 DEF IInv, RecordInv

LEMMA StepIInv == TypeOK /\ IInv /\ [Next]_vars => (TypeOK /\ IInv)'
  BY TypePreserved, RecordPreserved, PacketsPreserved, LeftPreserved DEF IInv

LEMMA Inductive == Spec => [](TypeOK /\ IInv)
  BY InitIInv, StepIInv, PTL DEF Spec

\* Every variable of the message loop keeps the type message_loop.h declares.
THEOREM TypeCorrect == Spec => []TypeOK
  BY Inductive, PTL

\* No pointer to a HandlerRecord dangles and no record leaks, however handlers,
\* tasks and callbacks add and remove each other's registrations.
THEOREM RecordsAlwaysOwned == Spec => []RecordsOwned
  <1>1. IInv => RecordsOwned
    BY DEF IInv, RecordInv
  <1>2. QED
    BY <1>1, Inductive, PTL

\* A registered handler that is not being called waits for its signals, and
\* nothing else does.
THEOREM HandlersAlwaysArmed == Spec => []HandlersArmed
  <1>1. TypeOK /\ IInv => HandlersArmed
    BY DEF IInv, RecordInv, WaitsInv, PacketsInv, HandlersArmed, ToSet, TypeOK
  <1>2. QED
    BY <1>1, Inductive, PTL

\* current_handler_removed_ is about the handler on the stack, never a later one.
THEOREM RemovedFlagAlwaysExact == Spec => []RemovedFlagExact
  <1>1. IInv => RemovedFlagExact
    BY DEF IInv, RecordInv
  <1>2. QED
    BY <1>1, Inductive, PTL

\* ~MessageLoop's FTL_DCHECK(handlers_.empty()) never fails.
THEOREM DestructorLeavesNothing == Spec => []NothingLeft
  <1>1. IInv => NothingLeft
    BY DEF IInv
  <1>2. QED
    BY <1>1, Inductive, PTL
-----------------------------------------------------------------------------
(* The refinement.  The contract sees which keys were given out and which   *)
(* of them are registered, the callback on the stack and the loop's phase.  *)

\* The loop is not shut down while it runs, nor before its destructor.
PhaseInv ==
  /\ is_running_ => loop # "shutdown"
  /\ context = "outside" => ~is_running_ /\ loop = "runnable"

LEMMA PhasePreserved == TypeOK /\ RecordInv /\ PhaseInv /\ [Next]_vars => PhaseInv'
  <1> SUFFICES ASSUME TypeOK, RecordInv, PhaseInv, [Next]_vars
               PROVE  PhaseInv'
    OBVIOUS
  <1> USE DEF PhaseInv, currentVars, asyncVars
  <1>1. ASSUME \/ \E hasTimeout \in BOOLEAN : AddHandler(hasTimeout)
               \/ \E key \in Keys : RemoveHandler(key) \/ Trigger(key)
               \/ AddHandlerSuppressed \/ SetAfterTaskCallback \/ ClearAfterTaskCallback
        PROVE  PhaseInv'
    BY <1>1 DEF AddHandler, RemoveHandler, Trigger, AddHandlerSuppressed,
       SetAfterTaskCallback, ClearAfterTaskCallback
  <1>2. ASSUME QuitNow \/ Run \/ Destroy \/ RunReturns
        PROVE  PhaseInv'
    BY <1>2 DEF QuitNow, Run, Destroy, RunReturns
  <1>3. ASSUME TaskReturns \/ ReadyReturns \/ ErrorReturns \/ EpilogueReturns
        PROVE  PhaseInv'
    BY <1>3 DEF TaskReturns, ReadyReturns, ErrorReturns, EpilogueReturns, Resume
  <1>4. ASSUME RunTask \/ ShutdownDeletesTask \/ DestroyReturns
        PROVE  PhaseInv'
    BY <1>4 DEF RunTask, ShutdownDeletesTask, DestroyReturns
  <1>5. ASSUME NEW key \in Keys, Handle(key, "ready") \/ Handle(key, "error")
        PROVE  PhaseInv'
    BY <1>5 DEF Handle
  <1>6. CASE UNCHANGED vars
    BY <1>6 DEF vars
  <1>7. QED
    BY <1>1, <1>2, <1>3, <1>4, <1>5, <1>6, EveryStep

StatusOf(key) == IF key >= next_handler_key_ THEN "unused"
                 ELSE IF key \in handlers_ THEN "registered" ELSE "removed"
CallbackOf == IF context \in {"ready", "error"} THEN context ELSE "none"
PhaseOf == IF context = "dead" THEN "ended"
           ELSE IF loop = "shutdown" THEN "closing" ELSE "open"
UnchangedForHandlers ==
  /\ \A key \in Keys : StatusOf(key)' = StatusOf(key)
  /\ UNCHANGED <<current_handler_, CallbackOf, PhaseOf>>

\* Every step of the loop is one of the contract, or one no handler can tell.
LEMMA StepRefines ==
  ASSUME TypeOK, IInv, PhaseInv, [Next]_vars
  PROVE  [Contract!Next]_Contract!vars
  <1> USE MessageLoopAssumption
  <1>1. /\ next_handler_key_ \in Nat /\ handlers_ \subseteq Keys /\ Keys \subseteq Nat
        /\ \A key \in handlers_ : key < next_handler_key_
        /\ current_handler_ # NoRecord =>
             current_handler_ \in Keys /\ current_handler_ < next_handler_key_
        /\ current_handler_ = NoRecord <=> context \notin {"ready", "error"}
    BY DEF TypeOK, IInv, RecordInv, KeysInv, ContextInv, RecordsOwned, Current, Keys
  <1>2. UnchangedForHandlers => UNCHANGED Contract!vars
    BY DEF UnchangedForHandlers, StatusOf, CallbackOf, PhaseOf, Contract!vars
  <1>3. ASSUME NEW hasTimeout \in BOOLEAN, AddHandler(hasTimeout)
        PROVE  \E key \in Keys : Contract!Add(key)
    <2> PICK key \in Keys : key = next_handler_key_
      BY <1>1, <1>3 DEF AddHandler, NewKey, Keys, TypeOK
    <2>1. UNCHANGED <<current_handler_, context, loop>> /\ PhaseOf = "open"
      BY <1>1, <1>3 DEF AddHandler, NewKey, ClientCode, PhaseOf, Keys, TypeOK, currentVars
    <2>2. /\ StatusOf(key) = "unused"
          /\ \A k \in Keys : StatusOf(k)' = IF k = key THEN "registered" ELSE StatusOf(k)
      BY <1>1, <1>3, <2>1 DEF AddHandler, NewKey, StatusOf
    <2>3. Contract!Add(key)
      BY <2>1, <2>2 DEF Contract!Add, Contract!Become, StatusOf, PhaseOf
    <2>4. QED
      BY <2>3
  <1>4. ASSUME AddHandlerSuppressed
        PROVE  \E key \in Keys : Contract!Add(key)
    <2> PICK key \in Keys : key = next_handler_key_
      BY <1>1, <1>4 DEF AddHandlerSuppressed, NewKey, Keys, TypeOK
    <2>1. UNCHANGED <<current_handler_, context, loop>> /\ PhaseOf = "closing"
      BY <1>1, <1>4 DEF AddHandlerSuppressed, NewKey, ClientCode, PhaseOf, Keys, TypeOK,
         currentVars, asyncVars
    <2>2. /\ StatusOf(key) = "unused"
          /\ \A k \in Keys : StatusOf(k)' = IF k = key THEN "removed" ELSE StatusOf(k)
      BY <1>1, <1>4, <2>1 DEF AddHandlerSuppressed, NewKey, StatusOf
    <2>3. Contract!Add(key)
      BY <2>1, <2>2 DEF Contract!Add, Contract!Become, StatusOf, PhaseOf
    <2>4. QED
      BY <2>3
  <1>5. ASSUME NEW key \in Keys, RemoveHandler(key)
        PROVE  Contract!Remove(key)
    <2>1. UNCHANGED <<current_handler_, context, loop>> /\ PhaseOf # "ended"
      BY <1>5 DEF RemoveHandler, ClientCode, PhaseOf
    <2>2. /\ StatusOf(key) = "registered"
          /\ \A k \in Keys : StatusOf(k)' = IF k = key THEN "removed" ELSE StatusOf(k)
      BY <1>1, <1>5 DEF RemoveHandler, StatusOf
    <2>3. QED
      BY <2>1, <2>2 DEF Contract!Remove, Contract!Become, StatusOf, PhaseOf
  <1>6. ASSUME \/ SetAfterTaskCallback \/ ClearAfterTaskCallback \/ Run \/ QuitNow
               \/ RunTask \/ TaskReturns \/ EpilogueReturns \/ RunReturns
               \/ ShutdownDeletesTask \/ UNCHANGED vars
               \/ \E key \in Keys : Trigger(key)
        PROVE  UnchangedForHandlers
    <2>1. UNCHANGED <<current_handler_, handlers_, next_handler_key_>>
      BY <1>6 DEF SetAfterTaskCallback, ClearAfterTaskCallback, Run, QuitNow, RunTask,
         TaskReturns, EpilogueReturns, RunReturns, ShutdownDeletesTask, Trigger, vars,
         handlerVars, currentVars
    <2>2. /\ (context # "dead" /\ context' # "dead") \/ UNCHANGED context
          /\ (loop # "shutdown" /\ loop' # "shutdown") \/ UNCHANGED loop
      BY <1>6 DEF SetAfterTaskCallback, ClearAfterTaskCallback, Run, QuitNow, RunTask,
         TaskReturns, EpilogueReturns, RunReturns, ShutdownDeletesTask, Trigger, vars,
         asyncVars, Resume, Dispatching, PhaseInv
    <2>3. \/ context \notin {"ready", "error"} /\ context' \notin {"ready", "error"}
          \/ UNCHANGED context
      BY <1>6 DEF SetAfterTaskCallback, ClearAfterTaskCallback, Run, QuitNow, RunTask,
         TaskReturns, EpilogueReturns, RunReturns, ShutdownDeletesTask, Trigger, vars,
         Resume, Dispatching
    <2>4. QED
      BY <2>1, <2>2, <2>3 DEF UnchangedForHandlers, StatusOf, CallbackOf, PhaseOf
  <1>7. ASSUME Destroy
        PROVE  Contract!Close
    BY <1>1, <1>7 DEF Destroy, PhaseInv, Contract!Close, handlerVars, currentVars
  <1>8. ASSUME ReadyReturns \/ ErrorReturns
        PROVE  /\ current_handler_ \in Keys /\ current_handler_ # NoRecord
               /\ current_handler_' = NoRecord
               /\ UNCHANGED next_handler_key_
               /\ PhaseOf' = PhaseOf /\ CallbackOf' = "none"
    BY <1>1, <1>8 DEF ReadyReturns, ErrorReturns, Unwind, Resume, PhaseOf, CallbackOf, asyncVars
  <1>9. ASSUME ReadyReturns
        PROVE  Contract!Return
    <2>1. \A k \in Keys : StatusOf(k)' = StatusOf(k)
      BY <1>8, <1>9 DEF ReadyReturns, StatusOf
    <2>2. context = "ready"
      BY <1>9 DEF ReadyReturns
    <2>3. QED
      BY <1>8, <1>9, <2>1, <2>2 DEF Contract!Return, StatusOf, PhaseOf, CallbackOf
  <1>10. ASSUME ErrorReturns
        PROVE  Contract!Return
    <2>1. handlers_' = handlers_ \ {current_handler_}
      BY <1>8, <1>10 DEF ErrorReturns, EraseFailed, IInv, RecordInv, RemovedFlagExact, Current
    <2>2. \A k \in Keys : StatusOf(k)' = IF k = current_handler_ THEN "removed" ELSE StatusOf(k)
      BY <1>1, <1>8, <1>10, <2>1 DEF StatusOf
    <2>3. context = "error"
      BY <1>10 DEF ErrorReturns
    <2>4. QED
      BY <1>8, <1>10, <2>2, <2>3 DEF Contract!Return, Contract!Become, StatusOf, PhaseOf, CallbackOf
  <1>11. ASSUME NEW key \in Keys, Handle(key, "ready") \/ Handle(key, "error"),
                context \in {"dispatch", "shutdown"}
        PROVE  /\ current_handler_ = NoRecord /\ current_handler_' = key
               /\ StatusOf(key) = "registered"
               /\ \A k \in Keys : StatusOf(k)' = StatusOf(k)
               /\ PhaseOf # "ended" /\ PhaseOf' = PhaseOf
               /\ loop = "runnable" => PhaseOf = "open"
    BY <1>1, <1>11 DEF Handle, IInv, RecordInv, WaitsInv, StatusOf, PhaseOf, handlerVars
  <1>12. ASSUME NEW key \in Keys, Handle(key, "ready"), Dispatching
        PROVE  Contract!CallReady(key)
    BY <1>11, <1>12 DEF Handle, Dispatching, Contract!CallReady, StatusOf, PhaseOf
  <1>13. ASSUME NEW key \in Keys, Handle(key, "error"), context \in {"dispatch", "shutdown"}
        PROVE  Contract!CallError(key)
    BY <1>11, <1>13 DEF Handle, Contract!CallError, StatusOf, PhaseOf
  <1>14. ASSUME DestroyReturns
        PROVE  Contract!End
    <2>1. loop = "shutdown" /\ handlers_ = {} /\ current_handler_ = NoRecord
      BY <1>1, <1>14 DEF DestroyReturns, IInv, RecordInv, ContextInv, WaitsInv, Current
    <2>2. QED
      BY <2>1, <1>14 DEF DestroyReturns, Contract!End, handlerVars, currentVars, asyncVars
  <1>15. ASSUME NEW key \in Keys,
                \/ Contract!Add(key) \/ Contract!Remove(key)
                \/ Contract!CallReady(key) \/ Contract!CallError(key)
         PROVE  Contract!Next
    BY <1>15 DEF Contract!Next
  <1>16. Contract!Return \/ Contract!Close \/ Contract!End => Contract!Next
    BY DEF Contract!Next
  <1>17. CASE \E hasTimeout \in BOOLEAN : AddHandler(hasTimeout)
    BY <1>3, <1>15, <1>17
  <1>18. CASE \E key \in Keys : RemoveHandler(key) \/ Trigger(key)
    BY <1>2, <1>5, <1>6, <1>15, <1>18
  <1>19. CASE \E key \in Keys : Handle(key, "ready") /\ Dispatching
    BY <1>12, <1>15, <1>19
  <1>20. CASE \E key \in Keys :
                /\ Handle(key, "error")
                /\ context \in {"dispatch", "shutdown"}
    BY <1>13, <1>15, <1>20
  <1>21. CASE AddHandlerSuppressed
    BY <1>4, <1>15, <1>21
  <1>22. CASE Destroy \/ ReadyReturns \/ ErrorReturns \/ DestroyReturns
    BY <1>7, <1>9, <1>10, <1>14, <1>16, <1>22
  <1>23. CASE \/ SetAfterTaskCallback \/ ClearAfterTaskCallback \/ Run \/ QuitNow
              \/ RunTask \/ TaskReturns \/ EpilogueReturns \/ RunReturns
              \/ ShutdownDeletesTask \/ UNCHANGED vars
    BY <1>2, <1>6, <1>23
  <1>24. QED
    <2>1. RecordInv
      BY DEF IInv
    <2>2. QED
      BY <2>1, <1>17, <1>18, <1>19, <1>20, <1>21, <1>22, <1>23, EveryStep

\* What a MessageLoop promises its handlers holds for every re-entrant use:
\* a handler is called only while it is registered and no other is being
\* called, nothing after an error or RemoveHandler; none is registered once
\* the loop is shut down, and none is left when it is destroyed.
THEOREM ImplementsHandlerContract == Spec => ImplementsContract
  <1>1. Init => PhaseInv /\ Contract!Init
    BY MessageLoopAssumption DEF Init, FirstKey, PhaseInv, Contract!Init, Keys
  <1>2. Spec => []PhaseInv
    BY <1>1, PhasePreserved, Inductive, PTL DEF Spec, IInv
  <1>3. QED
    BY <1>1, <1>2, StepRefines, Inductive, PTL DEF Spec, ImplementsContract, Contract!Spec
-----------------------------------------------------------------------------
(* What a step may do to a registration, and to the order of the port. *)

\* The end of a registration is final.  A callback begins with a registered
\* handler and a live record, which outlives it whatever the callback does
\* with its own key; after OnHandleError the key is gone.
EndsForGood(key) ==
  /\ StatusOf(key) = "removed" => StatusOf(key)' = "removed"
  /\ record[key] = "deleted" => record'[key] = "deleted"
  /\ current_handler_ # key /\ current_handler_' = key =>
       current_handler_ = NoRecord /\ key \in handlers_ /\ record[key] = "live"
  /\ current_handler_ = key =>
       \/ current_handler_' = key /\ record'[key] = "live"
       \/ current_handler_' = NoRecord /\ (context = "error" => key \notin handlers_')

RegistrationsEnd == [][\A key \in Keys : EndsForGood(key)]_vars

\* libasync takes the next packet of the port.
CallsReady ==
  current_handler_ = NoRecord /\ current_handler_' # NoRecord /\ context' = "ready"

\* A packet leaves the port only with a call or with the end of the
\* registration, is never put back, and moves one place on when the packet
\* of another is delivered: whose packet is the i-th is called, however
\* ready the others are, after i - 1 of them at the latest.
MovesOn(key) ==
  \A i \in 1..Len(packets) :
    packets[i] = key =>
      \/ current_handler_' = key
      \/ key \notin handlers_'
      \/ \E j \in 1..Len(packets') :
           /\ packets'[j] = key /\ j <= i
           /\ CallsReady => j = i - 1

PortInOrder == [][\A key \in Keys : MovesOn(key)]_vars

LEMMA EndsForGoodStep ==
  ASSUME TypeOK, RecordInv, RecordInv', [Next]_vars, NEW k \in Keys
  PROVE  EndsForGood(k)
  <1> USE MessageLoopAssumption DEF handlerVars, currentVars, asyncVars
  <1>1. /\ next_handler_key_ \in Nat /\ k \in Nat /\ k # NoRecord
        /\ handlers_ \subseteq Keys
        /\ record \in [Keys -> {"none", "live", "deleted"}]
        /\ k >= next_handler_key_ => record[k] = "none"
    BY DEF TypeOK, RecordInv, KeysInv, Keys
  <1>2. /\ current_handler_ = k => record[k] = "live"
        /\ current_handler_' = k => record'[k] = "live"
        /\ k \in handlers_ => record[k] = "live"
    BY <1>1 DEF RecordInv, RecordsOwned, Current
  <1>3. ASSUME /\ next_handler_key_' \in {next_handler_key_, next_handler_key_ + 1}
               /\ k \in handlers_' => k \in handlers_ \/ k = next_handler_key_
               /\ record'[k] \in {record[k], "deleted"} \/ k = next_handler_key_
        PROVE  /\ StatusOf(k) = "removed" => StatusOf(k)' = "removed"
               /\ record[k] = "deleted" => record'[k] = "deleted"
    BY <1>1, <1>3 DEF StatusOf
  <1>4. CASE UNCHANGED <<current_handler_, next_handler_key_, handlers_, record>>
    BY <1>2, <1>3, <1>4 DEF EndsForGood
  <1>5. ASSUME NEW hasTimeout \in BOOLEAN, AddHandler(hasTimeout)
        PROVE  EndsForGood(k)
    BY <1>1, <1>2, <1>3, <1>5 DEF AddHandler, NewKey, EndsForGood
  <1>6. ASSUME AddHandlerSuppressed
        PROVE  EndsForGood(k)
    BY <1>1, <1>2, <1>3, <1>6 DEF AddHandlerSuppressed, NewKey, Delete, EndsForGood
  <1>7. ASSUME NEW key \in Keys, RemoveHandler(key)
        PROVE  EndsForGood(k)
    BY <1>1, <1>2, <1>3, <1>7 DEF RemoveHandler, CancelAndDelete, Delete, EndsForGood
  <1>8. ASSUME NEW key \in Keys, Handle(key, "ready") \/ Handle(key, "error"),
               context \in {"dispatch", "shutdown"}
        PROVE  EndsForGood(k)
    <2>1. current_handler_ = NoRecord /\ key \in handlers_
      BY <1>8 DEF Handle, RecordInv, ContextInv, WaitsInv
    <2>2. QED
      BY <1>1, <1>2, <1>3, <1>8, <2>1 DEF Handle, EndsForGood
  <1>9. ASSUME ReadyReturns
        PROVE  EndsForGood(k)
    BY <1>1, <1>2, <1>3, <1>9 DEF ReadyReturns, Unwind, Delete, EndsForGood
  <1>10. ASSUME ErrorReturns
         PROVE  EndsForGood(k)
    <2>1. handlers_' = handlers_ \ {current_handler_}
      BY <1>10 DEF ErrorReturns, EraseFailed, RecordInv, RemovedFlagExact, ContextInv, Current
    <2>2. QED
      BY <1>1, <1>2, <1>3, <1>10, <2>1 DEF ErrorReturns, Unwind, Delete, EndsForGood
  <1>11. ASSUME \/ QuitNow \/ SetAfterTaskCallback \/ ClearAfterTaskCallback \/ Run
                \/ Destroy \/ RunTask \/ TaskReturns \/ EpilogueReturns \/ RunReturns
                \/ ShutdownDeletesTask \/ DestroyReturns \/ UNCHANGED vars
                \/ \E key \in Keys : Trigger(key)
         PROVE  UNCHANGED <<current_handler_, next_handler_key_, handlers_, record>>
    BY <1>11 DEF QuitNow, SetAfterTaskCallback, ClearAfterTaskCallback, Run, Destroy,
       RunTask, TaskReturns, EpilogueReturns, RunReturns, ShutdownDeletesTask,
       DestroyReturns, Trigger, vars
  <1>12. QED
    BY <1>4, <1>5, <1>6, <1>7, <1>8, <1>9, <1>10, <1>11, EveryStep DEF Dispatching

\* Removing a handler, or an error, is the end of its key in every frame of
\* the loop: it is not called again, and its record is not brought back.
THEOREM RegistrationsEndForGood == Spec => RegistrationsEnd
  <1>1. TypeOK /\ IInv /\ (TypeOK /\ IInv)' /\ [Next]_vars
          => [\A key \in Keys : EndsForGood(key)]_vars
    BY EndsForGoodStep DEF IInv
  <1>2. QED
    BY <1>1, Inductive, PTL DEF Spec, RegistrationsEnd

\* What Forget leaves of a packet's place.
LEMMA ForgetKeepsOrder ==
  ASSUME TypeOK, PacketsInv, NEW key \in Keys, Forget(key),
         NEW i \in 1..Len(packets), packets[i] # key
  PROVE  \E j \in 1..Len(packets') :
           /\ packets'[j] = packets[i] /\ j <= i
           /\ i > 1 /\ packets[1] = key => j = i - 1
  <1>1. Len(packets) \in Nat /\ packets \in Seq(Keys)
    BY LenProperties DEF TypeOK
  <1>2. CASE packets' = packets /\ \A k \in 1..Len(packets) : packets[k] # key
    BY <1>1, <1>2
  <1>3. ASSUME NEW k \in 1..Len(packets), packets[k] = key, packets' = RemoveAt(packets, k)
        PROVE  \E j \in 1..Len(packets') :
                 /\ packets'[j] = packets[i] /\ j <= i
                 /\ i > 1 /\ packets[1] = key => j = i - 1
    <2>1. /\ Len(packets') = Len(packets) - 1
          /\ \A j \in 1..(Len(packets) - 1) :
               packets'[j] = IF j < k THEN packets[j] ELSE packets[j + 1]
      BY <1>1, <1>3, RemoveAtShape
    <2>2. CASE i < k
      <3>1. i \in 1..(Len(packets) - 1) /\ packets'[i] = packets[i]
        BY <1>1, <2>1, <2>2
      <3>2. i > 1 => packets[1] # key
        BY <1>1, <1>3, <2>2 DEF PacketsInv
      <3>3. QED
        BY <1>1, <2>1, <3>1, <3>2
    <2>3. CASE i > k
      <3>1. i - 1 \in 1..(Len(packets) - 1) /\ ~(i - 1 < k) /\ (i - 1) + 1 = i
        BY <1>1, <2>3
      <3>2. packets'[i - 1] = packets[i]
        BY <2>1, <3>1
      <3>3. QED
        BY <1>1, <2>1, <3>1, <3>2
    <2>4. QED
      BY <1>1, <1>3, <2>2, <2>3
  <1>4. QED
    BY <1>2, <1>3 DEF Forget

LEMMA MovesOnStep ==
  ASSUME TypeOK, RecordInv, PacketsInv, [Next]_vars, NEW key \in Keys
  PROVE  MovesOn(key)
  <1> USE MessageLoopAssumption DEF handlerVars, currentVars, asyncVars
  <1> SUFFICES ASSUME NEW i \in 1..Len(packets), packets[i] = key
               PROVE  \/ current_handler_' = key
                      \/ key \notin handlers_'
                      \/ \E j \in 1..Len(packets') :
                           /\ packets'[j] = key /\ j <= i
                           /\ CallsReady => j = i - 1
    BY DEF MovesOn
  <1> DEFINE Moved == \/ current_handler_' = key
                      \/ key \notin handlers_'
                      \/ \E j \in 1..Len(packets') :
                           /\ packets'[j] = key /\ j <= i
                           /\ CallsReady => j = i - 1
  <1>1. Len(packets) \in Nat /\ packets \in Seq(Keys)
    BY LenProperties DEF TypeOK
  <1>2. CASE packets' = packets /\ ~CallsReady
    BY <1>1, <1>2
  <1>3. ASSUME NEW k \in Keys, Trigger(k)
        PROVE  Moved
    <2>1. /\ Len(packets') = Len(packets) + 1
          /\ \A j \in 1..Len(packets) : packets'[j] = packets[j]
      BY <1>1, <1>3, AppendProperties DEF Trigger
    <2>2. ~CallsReady
      BY <1>3 DEF Trigger, CallsReady
    <2>3. QED
      BY <1>1, <2>1, <2>2
  <1>4. ASSUME NEW k \in Keys, RemoveHandler(k)
        PROVE  Moved
    <2>1. ~CallsReady
      BY <1>4 DEF RemoveHandler, CallsReady
    <2>2. CASE k = key
      BY <1>4, <2>2 DEF RemoveHandler
    <2>3. CASE k # key
      <3>1. CASE packets' = packets
        BY <1>2, <2>1, <3>1
      <3>2. CASE Forget(k)
        BY <2>1, <2>3, <3>2, ForgetKeepsOrder
      <3>3. QED
        BY <1>4, <3>1, <3>2 DEF RemoveHandler, CancelAndDelete
    <2>4. QED
      BY <2>2, <2>3
  <1>5. ASSUME NEW k \in Keys, Handle(k, "error")
        PROVE  Moved
    <2>1. ~CallsReady
      BY <1>5 DEF Handle, CallsReady
    <2>2. CASE k = key
      BY <1>5, <2>2 DEF Handle
    <2>3. CASE k # key
      BY <1>5, <2>1, <2>3, ForgetKeepsOrder DEF Handle
    <2>4. QED
      BY <2>2, <2>3
  <1>6. ASSUME DispatchReady
        PROVE  Moved
    <2> DEFINE k == packets[1]
    <2>1. Handle(k, "ready") /\ k \in Keys /\ 1 \in 1..Len(packets)
      BY <1>1, <1>6, HeadTailProperties, EmptySeq DEF DispatchReady
    <2>2. CASE k = key
      BY <2>1, <2>2 DEF Handle
    <2>3. CASE k # key
      <3>1. i > 1
        BY <1>1, <2>3
      <3>2. QED
        BY <2>1, <2>3, <3>1, ForgetKeepsOrder DEF Handle
    <2>4. QED
      BY <2>2, <2>3
  <1>7. ASSUME \/ \E hasTimeout \in BOOLEAN : AddHandler(hasTimeout)
               \/ AddHandlerSuppressed \/ QuitNow \/ SetAfterTaskCallback
               \/ ClearAfterTaskCallback \/ Run \/ Destroy \/ RunTask \/ TaskReturns
               \/ ReadyReturns \/ ErrorReturns \/ EpilogueReturns \/ RunReturns
               \/ ShutdownDeletesTask \/ DestroyReturns \/ UNCHANGED vars
        PROVE  packets' = packets /\ ~CallsReady
    BY <1>7 DEF AddHandler, AddHandlerSuppressed, QuitNow, SetAfterTaskCallback,
       ClearAfterTaskCallback, Run, Destroy, RunTask, TaskReturns, ReadyReturns,
       ErrorReturns, EpilogueReturns, RunReturns, ShutdownDeletesTask, DestroyReturns,
       Unwind, vars, CallsReady
  <1>8. QED
    BY <1>2, <1>3, <1>4, <1>5, <1>6, <1>7
       DEF Next, Client, Returns, Dispatch, Shutdown, Terminated, DispatchTimeout,
           ShutdownCancels

\* The dispatcher serves triggered handlers in the order of their packets: a
\* busy handler delays another by one call, and by no more.
THEOREM PortServedInOrder == Spec => PortInOrder
  <1>1. TypeOK /\ IInv /\ [Next]_vars => [\A key \in Keys : MovesOn(key)]_vars
    BY MovesOnStep DEF IInv
  <1>2. QED
    BY <1>1, Inductive, PTL DEF Spec, PortInOrder
-----------------------------------------------------------------------------
(* Whole programs.  A statement either calls MessageLoop or leaves it alone. *)

LEMMA ProgramStepsLoop ==
  ASSUME TypeOK, [ProgramNext]_allVars
  PROVE  [Next]_vars
  <1>1. CASE CallAddHandler
    <2>1. CASE AddHandlerSuppressed
      BY <2>1 DEF Next, Client
    <2>2. CASE AddHandler(Now.timeout)
      <3>1. AddHandler(TRUE) \/ AddHandler(FALSE)
        BY <2>2 DEF AddHandler
      <3>2. QED
        BY <3>1 DEF Next, Client
    <2>3. QED
      BY <1>1, <2>1, <2>2 DEF CallAddHandler
  <1>2. CASE CallRemoveHandler
    <2>1. CASE RemoveHandler(Now.key)
      <3>1. Now.key \in Keys
        BY <2>1 DEF RemoveHandler, TypeOK
      <3>2. QED
        BY <2>1, <3>1 DEF Next, Client
    <2>2. QED
      BY <1>2, <2>1 DEF CallRemoveHandler
  <1>3. CASE CallQuitNow \/ CallCallbackSetters \/ CallRun \/ CallDestroy
    BY <1>3 DEF CallQuitNow, CallCallbackSetters, CallRun, CallDestroy, Next, Client
  <1>4. CASE CallPostTask \/ CallSay \/ Expect
    BY <1>4 DEF CallPostTask, CallSay, Expect
  <1>5. CASE ArbitraryClient
    BY <1>5 DEF ArbitraryClient, Next
  <1>6. CASE CallbackReturns \/ TakeTask \/ DeleteTask \/ LoopReturns \/ DestructorReturns
    BY <1>6 DEF CallbackReturns, TakeTask, DeleteTask, LoopReturns, DestructorReturns,
       Next, Dispatch, Shutdown
  <1>7. CASE CallReady \/ CallTimeout \/ CallCanceled
    BY <1>7 DEF CallReady, CallTimeout, CallCanceled, Next, Dispatch, Shutdown
  <1>8. CASE Signal
    <2>1. PICK key : Trigger(key)
      BY <1>8 DEF Signal
    <2>2. key \in Keys
      BY <2>1 DEF Trigger, TypeOK
    <2>3. QED
      BY <2>1, <2>2 DEF Next
  <1>9. CASE Ended \/ UNCHANGED allVars
    BY <1>9 DEF Ended, allVars
  <1>10. QED
    BY <1>1, <1>2, <1>3, <1>4, <1>5, <1>6, <1>7, <1>8, <1>9
       DEF ProgramNext, ProgramStep, Statement

\* A program of the unit tests does with the loop only what a client may: all
\* that is proved of MessageLoop holds in each of them.
THEOREM ProgramsUseMessageLoop == ProgramSpec => Spec
  <1>1. ProgramInit => Init
    BY DEF ProgramInit
  <1>2. Init => TypeOK /\ IInv
    BY InitIInv
  <1>3. TypeOK /\ IInv /\ [ProgramNext]_allVars => (TypeOK /\ IInv)' /\ [Next]_vars
    BY ProgramStepsLoop, StepIInv
  <1>4. QED
    BY <1>1, <1>2, <1>3, PTL DEF ProgramSpec, Spec
=============================================================================
