-------------------------- MODULE TaskQueueProofs --------------------------
(***************************************************************************)
(* Theorems about TaskQueue, for any number of posting threads and tasks:  *)
(* type correctness; the lock, the delegate and the loop's life; who owns  *)
(* a closure; that the whole is what TaskRunnerContract promises, and that *)
(* each task therefore runs once or is dropped once, in the order of       *)
(* acceptance.  Then about Threads, which uses it: a thread that was       *)
(* joined is done.                                                         *)
(***************************************************************************)
EXTENDS Threads, SequenceTheorems, FiniteSetTheorems, TLAPS

\* What the loop thread's position says of the loop and of the queue.
LifeInv ==
  /\ main = "unborn" <=> loop = "none"
  /\ main \in {"init_lock", "init", "outside"} => loop = "runnable"
  /\ main \in {"dispatch", "running"} => loop \in {"runnable", "quit"}
  /\ main \in {"shutdown", "freeing", "clear_lock", "clear"} <=> loop = "shutdown"
  /\ main = "dead" <=> loop = "gone"
  /\ is_running_ <=> main \in {"dispatch", "running"}
  /\ drop_incoming_tasks_ <=> main \in {"clear", "dead"}
  /\ delegate_ <=> main \notin {"unborn", "init_lock", "clear", "dead"}

\* Who is in a critical section holds the lock.
LockInv ==
  /\ \A th \in Threads : pc[th] \in {"add", "post", "unlock", "query", "ask"} => mutex_ = th
  /\ main \in {"init", "clear"} => mutex_ = LoopThread
  /\ main \notin ClientCode => pc[LoopThread] = "idle"
  /\ \A th \in Threads : pc[th] \in {"post", "ask"} => delegate_

\* A thread that holds the lock and is not in a critical section is deleting
\* a closure that libasync refused.
DestroyInv ==
  \A th \in Threads :
    /\ pc[th] = "idle" /\ mutex_ = th => th = LoopThread /\ main \in {"init", "clear"}
    /\ pc[th] \in {"lock", "destroy", "query_lock"} /\ mutex_ = th =>
         loop = "shutdown" /\ delegate_
    /\ pc[th] = "lock" => mutex_ # th
    /\ pc[th] = "query_lock" /\ mutex_ = th => arg[th] \in Observers

\* Who has a closure in hand, and who has none.
ArgInv ==
  \A th \in Threads :
    /\ pc[th] \in {"lock", "add", "post", "destroy"} => arg[th] \in Tasks
    /\ pc[th] \in {"idle", "unlock"} => arg[th] = NoTask

\* The loop thread has a task exactly while it runs or destroys one.
CurrentInv == current = NoTask <=> main \notin {"running", "freeing"}

\* A closure waits for its destructor in a caller's hands only when the loop
\* is shut down.
RefusedInv ==
  \A th \in Threads :
    pc[th] \in {"destroy", "query_lock", "query", "ask"} /\ arg[th] # NoTask =>
      loop \in {"shutdown", "gone"}

IInv == /\ ArgInv /\ LifeInv /\ LockInv /\ DestroyInv
        /\ CurrentInv /\ RefusedInv /\ NoneStranded

InHand(t) == \E th \in Threads : arg[th] = t

\* A closure is live exactly if somebody has it; two threads, two slots of a
\* queue, or two of the four kinds of owners never have the same one.
OwnInv ==
  /\ \A t \in Tasks :
       fate[t] = "live" <=> \/ InHand(t) \/ Contains(incoming_queue_, t)
                            \/ Contains(scheduled, t) \/ current = t
  /\ \A t \in Tasks :
       /\ InHand(t) => /\ ~Contains(incoming_queue_, t)
                       /\ ~Contains(scheduled, t)
                       /\ current # t
       /\ Contains(incoming_queue_, t) => ~Contains(scheduled, t) /\ current # t
       /\ Contains(scheduled, t) => current # t
  /\ \A a, b \in Threads : arg[a] = arg[b] => a = b \/ arg[a] = NoTask
  /\ IsInjective(incoming_queue_) /\ IsInjective(scheduled)
-----------------------------------------------------------------------------
(* What taking an element out of one of the queues, or putting one in,     *)
(* does to it.                                                             *)

\* The elements before position i stay, those after it move up by one.
LEMMA RemoveAtShape ==
  ASSUME NEW S, NEW s \in Seq(S), NEW i \in 1..Len(s)
  PROVE  /\ RemoveAt(s, i) \in Seq(S)
         /\ Len(RemoveAt(s, i)) = Len(s) - 1
         /\ \A j \in 1..(Len(s) - 1) :
              RemoveAt(s, i)[j] = IF j < i THEN s[j] ELSE s[j + 1]
  <1> DEFINE front == SubSeq(s, 1, i - 1)
             back  == SubSeq(s, i + 1, Len(s))
  <1>1. Len(s) \in Nat /\ \A j \in 1..Len(s) : s[j] \in S
    BY LenProperties, ElementOfSeq
  <1>2. /\ front \in Seq(S)
        /\ Len(front) = i - 1
        /\ \A j \in 1..(i - 1) : front[j] = s[j]
    <2>1. \A j \in 1..(i - 1) : s[j] \in S
      BY <1>1
    <2>2. QED
      BY <1>1, <2>1, SubSeqProperties
  <1>3. /\ back \in Seq(S)
        /\ Len(back) = Len(s) - i
        /\ \A j \in 1..(Len(s) - i) : back[j] = s[i + j]
    <2>1. \A j \in (i + 1)..Len(s) : s[j] \in S
      BY <1>1
    <2>2. QED
      BY <1>1, <2>1, SubSeqProperties
  <1>4. RemoveAt(s, i) = front \o back
    BY DEF RemoveAt
  <1> HIDE DEF front, back
  <1>5. /\ front \o back \in Seq(S)
        /\ Len(front \o back) = Len(s) - 1
        /\ \A j \in 1..(Len(s) - 1) :
             (front \o back)[j] = IF j <= i - 1 THEN front[j] ELSE back[j - (i - 1)]
    <2>1. Len(front) + Len(back) = Len(s) - 1
      BY <1>1, <1>2, <1>3
    <2>2. /\ front \o back \in Seq(S)
          /\ Len(front \o back) = Len(front) + Len(back)
          /\ \A j \in 1..(Len(front) + Len(back)) :
               (front \o back)[j] = IF j <= Len(front) THEN front[j]
                                    ELSE back[j - Len(front)]
      BY <1>2, <1>3, ConcatProperties
    <2>3. QED
      BY <1>2, <2>1, <2>2
  <1>6. \A j \in 1..(Len(s) - 1) :
          (front \o back)[j] = IF j < i THEN s[j] ELSE s[j + 1]
    <2> TAKE j \in 1..(Len(s) - 1)
    <2>1. CASE j < i
      BY <2>1, <1>1, <1>2, <1>5
    <2>2. CASE ~(j < i)
      <3>1. j - (i - 1) \in 1..(Len(s) - i)
        BY <2>2, <1>1
      <3>2. back[j - (i - 1)] = s[i + (j - (i - 1))]
        BY <3>1, <1>3
      <3>3. i + (j - (i - 1)) = j + 1
        BY <1>1
      <3>4. QED
        BY <2>2, <3>2, <3>3, <1>1, <1>5
    <2>3. QED
      BY <2>1, <2>2
  <1>7. QED
    BY <1>4, <1>5, <1>6

LEMMA RemoveAtType ==
  ASSUME NEW S, NEW s \in Seq(S), NEW i \in 1..Len(s)
  PROVE  RemoveAt(s, i) \in Seq(S) /\ s[i] \in S
  BY RemoveAtShape, ElementOfSeq

\* A list without repetitions stays one, and loses exactly the element taken.
LEMMA RemoveAtInjective ==
  ASSUME NEW S, NEW s \in Seq(S), NEW i \in 1..Len(s),
         \A j, k \in 1..Len(s) : s[j] = s[k] => j = k
  PROVE  LET r == RemoveAt(s, i)
         IN  /\ \A j, k \in 1..Len(r) : r[j] = r[k] => j = k
             /\ \A j \in 1..Len(r) : r[j] # s[i]
             /\ \A j \in 1..Len(r) : \E k \in 1..Len(s) : r[j] = s[k]
  <1> DEFINE r == RemoveAt(s, i)
             at(j) == IF j < i THEN j ELSE j + 1
  <1>1. Len(s) \in Nat /\ Len(r) = Len(s) - 1
    BY RemoveAtShape, LenProperties
  <1>2. \A j \in 1..Len(r) : r[j] = s[at(j)]
    BY <1>1, RemoveAtShape
  <1>3. \A j \in 1..Len(r) : at(j) \in 1..Len(s) /\ at(j) # i
    BY <1>1
  <1>4. \A j, k \in 1..Len(r) : at(j) = at(k) => j = k
    BY <1>1
  <1> HIDE DEF r, at
  <1>5. QED
    BY <1>2, <1>3, <1>4 DEF r

\* What an element added at the end, or taken off the front, does to a list
\* without repetitions: to what it contains, and to its having none.
LEMMA AppendContains ==
  ASSUME NEW S, NEW s \in Seq(S), NEW e \in S
  PROVE  /\ Append(s, e) \in Seq(S)
         /\ \A x : Contains(Append(s, e), x) <=> Contains(s, x) \/ x = e
         /\ IsInjective(s) /\ ~Contains(s, e) => IsInjective(Append(s, e))
  <1> DEFINE r == Append(s, e)
  <1>1. /\ Len(s) \in Nat /\ DOMAIN s = 1..Len(s)
        /\ r \in Seq(S)
        /\ Len(r) = Len(s) + 1 /\ DOMAIN r = 1..Len(r)
        /\ \A j \in 1..Len(s) : r[j] = s[j]
        /\ r[Len(s) + 1] = e
    BY AppendProperties, LenProperties
  <1> HIDE DEF r
  <1>2. \A x : Contains(r, x) <=> Contains(s, x) \/ x = e
    BY <1>1 DEF Contains
  <1>3. IsInjective(s) /\ ~Contains(s, e) => IsInjective(r)
    BY <1>1 DEF Contains, IsInjective
  <1>4. QED
    BY <1>1, <1>2, <1>3 DEF r

LEMMA TailContains ==
  ASSUME NEW S, NEW s \in Seq(S), s # <<>>, IsInjective(s)
  PROVE  /\ Head(s) \in S /\ Contains(s, Head(s))
         /\ Tail(s) \in Seq(S)
         /\ \A x : Contains(Tail(s), x) <=> Contains(s, x) /\ x # Head(s)
         /\ IsInjective(Tail(s))
  <1> DEFINE r == Tail(s)
             h == Head(s)
  <1>1. /\ Len(s) \in Nat \ {0} /\ DOMAIN s = 1..Len(s)
        /\ h \in S /\ h = s[1]
        /\ r \in Seq(S)
        /\ Len(r) = Len(s) - 1 /\ DOMAIN r = 1..Len(r)
        /\ \A j \in 1..Len(r) : r[j] = s[j + 1]
    BY HeadTailProperties, LenProperties, EmptySeq
  <1> HIDE DEF r, h
  <1>2. ASSUME NEW x
        PROVE  Contains(r, x) <=> Contains(s, x) /\ x # h
    <2>1. ASSUME NEW j \in 1..Len(r), r[j] = x
          PROVE  Contains(s, x) /\ x # h
      BY <1>1, <2>1 DEF Contains, IsInjective
    <2>2. ASSUME NEW k \in 1..Len(s), s[k] = x, x # h
          PROVE  Contains(r, x)
      <3>1. k - 1 \in 1..Len(r) /\ r[k - 1] = s[(k - 1) + 1] /\ (k - 1) + 1 = k
        BY <1>1, <2>2
      <3>2. QED
        BY <2>2, <3>1 DEF Contains
    <2>3. QED
      BY <2>1, <2>2 DEF Contains
  <1>3. IsInjective(r)
    <2> SUFFICES ASSUME NEW j \in 1..Len(r), NEW k \in 1..Len(r), r[j] = r[k]
                 PROVE  j = k
      BY <1>1 DEF IsInjective
    <2>1. j + 1 \in 1..Len(s) /\ k + 1 \in 1..Len(s) /\ s[j + 1] = s[k + 1]
      BY <1>1
    <2>2. j + 1 = k + 1
      BY <1>1, <2>1 DEF IsInjective
    <2>3. QED
      BY <2>2
  <1>4. Contains(s, h)
    BY <1>1 DEF Contains
  <1>5. QED
    BY <1>1, <1>2, <1>3, <1>4 DEF r, h

LEMMA RemoveAtContains ==
  ASSUME NEW S, NEW s \in Seq(S), NEW i \in 1..Len(s), IsInjective(s)
  PROVE  /\ s[i] \in S /\ Contains(s, s[i])
         /\ RemoveAt(s, i) \in Seq(S)
         /\ \A x : Contains(RemoveAt(s, i), x) <=> Contains(s, x) /\ x # s[i]
         /\ IsInjective(RemoveAt(s, i))
  <1> DEFINE r == RemoveAt(s, i)
  <1>1. /\ Len(s) \in Nat /\ DOMAIN s = 1..Len(s)
        /\ r \in Seq(S)
        /\ Len(r) = Len(s) - 1 /\ DOMAIN r = 1..Len(r)
        /\ \A j \in 1..Len(r) : r[j] = IF j < i THEN s[j] ELSE s[j + 1]
    BY RemoveAtShape, LenProperties
  <1>2. /\ \A j, k \in 1..Len(r) : r[j] = r[k] => j = k
        /\ \A j \in 1..Len(r) : r[j] # s[i] /\ \E k \in 1..Len(s) : r[j] = s[k]
    <2>1. \A j, k \in 1..Len(s) : s[j] = s[k] => j = k
      BY <1>1 DEF IsInjective
    <2>2. QED
      BY <2>1, RemoveAtInjective
  <1>3. s[i] \in S
    BY ElementOfSeq
  <1> HIDE DEF r
  <1>4. ASSUME NEW x, NEW k \in 1..Len(s), s[k] = x, x # s[i]
        PROVE  Contains(r, x)
    <2>1. CASE k < i
      <3>1. k \in 1..Len(r) /\ r[k] = s[k]
        BY <1>1, <2>1
      <3>2. QED
        BY <1>4, <3>1 DEF Contains
    <2>2. CASE k > i
      <3>1. k - 1 \in 1..Len(r) /\ r[k - 1] = s[(k - 1) + 1] /\ (k - 1) + 1 = k
        BY <1>1, <2>2
      <3>2. QED
        BY <1>4, <3>1 DEF Contains
    <2>3. QED
      BY <1>1, <1>4, <2>1, <2>2
  <1>5. \A x : Contains(r, x) <=> Contains(s, x) /\ x # s[i]
    BY <1>2, <1>4 DEF Contains
  <1>6. IsInjective(r)
    BY <1>1, <1>2 DEF IsInjective
  <1>7. Contains(s, s[i])
    BY DEF Contains
  <1>8. QED
    BY <1>1, <1>3, <1>5, <1>6, <1>7 DEF r

\* Two queues in line: what happens at the end of the second, and between the
\* two, seen as one queue.
LEMMA QueuesInLine ==
  ASSUME NEW S, NEW s \in Seq(S), NEW q \in Seq(S)
  PROVE  /\ s \o <<>> = s
         /\ \A e \in S : s \o Append(q, e) = Append(s \o q, e)
         /\ q # <<>> => Append(s, Head(q)) \o Tail(q) = s \o q
  <1>1. s \o <<>> = s
    BY ConcatEmptySeq
  <1>2. ASSUME NEW e \in S
        PROVE  s \o Append(q, e) = Append(s \o q, e)
    <2>1. Append(q, e) = q \o <<e>> /\ Append(s \o q, e) = (s \o q) \o <<e>>
      BY AppendIsConcat, ConcatProperties
    <2>2. <<e>> \in Seq(S)
      OBVIOUS
    <2>3. QED
      BY <2>1, <2>2, ConcatAssociative
  <1>3. ASSUME q # <<>>
        PROVE  Append(s, Head(q)) \o Tail(q) = s \o q
    <2> DEFINE h == Head(q)
    <2>1. /\ h \in S /\ h = q[1] /\ Tail(q) \in Seq(S)
          /\ Len(Tail(q)) = Len(q) - 1 /\ Len(q) \in Nat \ {0}
          /\ \A i \in 1..Len(Tail(q)) : Tail(q)[i] = q[i + 1]
      BY <1>3, HeadTailProperties, LenProperties, EmptySeq
    <2>2. <<h>> \in Seq(S) /\ Len(<<h>>) = 1 /\ <<h>>[1] = h
      BY <2>1
    <2> HIDE DEF h
    <2>3. /\ <<h>> \o Tail(q) \in Seq(S)
          /\ Len(<<h>> \o Tail(q)) = Len(q)
          /\ \A i \in 1..Len(q) : (<<h>> \o Tail(q))[i] = q[i]
      <3>1. /\ <<h>> \o Tail(q) \in Seq(S)
            /\ Len(<<h>> \o Tail(q)) = 1 + Len(Tail(q))
            /\ \A i \in 1..(1 + Len(Tail(q))) :
                 (<<h>> \o Tail(q))[i] = IF i <= 1 THEN <<h>>[i] ELSE Tail(q)[i - 1]
        BY <2>1, <2>2, ConcatProperties
      <3>2. ASSUME NEW i \in 1..Len(q)
            PROVE  (<<h>> \o Tail(q))[i] = q[i]
        <4>1. CASE i = 1
          BY <2>1, <2>2, <3>1, <4>1
        <4>2. CASE i > 1
          <5>1. i - 1 \in 1..Len(Tail(q)) /\ (i - 1) + 1 = i
            BY <2>1, <4>2
          <5>2. QED
            BY <2>1, <3>1, <4>2, <5>1
        <4>3. QED
          BY <4>1, <4>2, <2>1
      <3>3. QED
        BY <2>1, <3>1, <3>2
    <2>4. <<h>> \o Tail(q) = q
      BY <2>3, SeqEqual
    <2>5. Append(s, h) = s \o <<h>>
      BY <2>1, AppendIsConcat
    <2>6. QED
      BY <2>1, <2>2, <2>4, <2>5, ConcatAssociative DEF h
  <1>4. QED
    BY <1>1, <1>2, <1>3
-----------------------------------------------------------------------------
(* The steps of the system, one by one: every proof below has these cases. *)
LEMMA EveryStep ==
  ASSUME TypeOK, [Next]_vars
  PROVE  \/ \E th \in Threads, t \in Tasks, time \in 0..MaxTime : Enter(th, t, time)
         \/ \E th \in Threads :
              \/ Acquire(th)
              \/ AddTask(th)
              \/ DelegatePostTask(th)
              \/ DestroyClosure(th)
              \/ Unlock(th)
              \/ QueryDelegate(th)
              \/ QueryReturns(th)
              \/ RunsTasksOnCurrentThread(th)
         \/ ConstructLoop
         \/ InitDelegate
         \/ InitDelegateTransfer
         \/ InitDelegateReturns
         \/ Run
         \/ HandleRan
         \/ QuitNow
         \/ RunReturns
         \/ Shutdown
         \/ HandleCanceled
         \/ ShutdownReturns
         \/ ClearDelegate
         \/ DestructorReturns
         \/ Tick
         \/ \E i \in 1..Len(scheduled) : Dispatch(i) \/ ShutdownCancels(i)
         \/ UNCHANGED vars
  <1> USE TaskQueueAssumption
  <1>1. ASSUME NEW th \in Threads, NEW t \in Tasks, PostTask(th, t)
        PROVE  \E time \in 0..MaxTime : Enter(th, t, time)
    BY <1>1 DEF PostTask
  <1>2. ASSUME NEW th \in Threads, NEW t \in Tasks, NEW delay \in Delays,
               PostDelayedTask(th, t, delay)
        PROVE  \E time \in 0..MaxTime : Enter(th, t, time)
    <2> DEFINE time == IF delay > 0 THEN now + delay ELSE 0
    <2>1. Enter(th, t, time)
      BY <1>2 DEF PostDelayedTask
    <2>2. time \in 0..MaxTime
      BY <2>1 DEF Enter, TypeOK
    <2>3. QED
      BY <2>1, <2>2
  <1>3. QED
    BY <1>1, <1>2 DEF Next, Call, CallStep, LoopStep, ClientStep, Terminated,
       PostTaskForTime

LEMMA TypePreserved == TypeOK /\ ArgInv /\ [Next]_vars => TypeOK'
  <1> SUFFICES ASSUME TypeOK, ArgInv, [Next]_vars
               PROVE  TypeOK'
    OBVIOUS
  <1> USE TaskQueueAssumption DEF TypeOK, CallStates, Mains, queueVars, loopVars, callVars
  <1>1. ASSUME NEW th \in Threads, NEW t \in Tasks, NEW time \in 0..MaxTime, Enter(th, t, time)
        PROVE  TypeOK'
    BY <1>1 DEF Enter, CanCall
  <1>2. ASSUME NEW th \in Threads, Acquire(th)
        PROVE  TypeOK'
    BY <1>2 DEF Acquire
  <1>3. ASSUME NEW th \in Threads, AddTask(th)
        PROVE  TypeOK'
    <2>1. arg[th] \in Tasks
      BY <1>3 DEF AddTask, AddTaskDrops, AddTaskDelegates, AddTaskBuffers, ArgInv
    <2>2. Append(incoming_queue_, arg[th]) \in Seq(Tasks)
      BY <2>1
    <2>3. QED
      BY <1>3, <2>2, ZenonT(60) DEF AddTask, AddTaskDrops, AddTaskDelegates, AddTaskBuffers
  <1>4. ASSUME NEW th \in Threads, DelegatePostTask(th)
        PROVE  TypeOK'
    <2>1. arg[th] \in Tasks
      BY <1>4 DEF DelegatePostTask, ArgInv
    <2>2. Append(scheduled, arg[th]) \in Seq(Tasks)
      BY <2>1
    <2>3. QED
      BY <1>4, <2>2, ZenonT(60) DEF DelegatePostTask
  <1>5. ASSUME NEW th \in Threads, DestroyClosure(th)
        PROVE  TypeOK'
    BY <1>5, ZenonT(60) DEF DestroyClosure
  <1>6. ASSUME NEW th \in Threads, Unlock(th)
        PROVE  TypeOK'
    BY <1>6 DEF Unlock
  <1>7. ASSUME NEW th \in Threads, QueryDelegate(th)
        PROVE  TypeOK'
    BY <1>7 DEF QueryDelegate
  <1>8. ASSUME NEW th \in Threads, QueryReturns(th)
        PROVE  TypeOK'
    BY <1>8 DEF QueryReturns
  <1>9. ASSUME NEW th \in Threads, RunsTasksOnCurrentThread(th)
        PROVE  TypeOK'
    BY <1>9 DEF RunsTasksOnCurrentThread, CanCall
  <1>10. ASSUME ConstructLoop
        PROVE  TypeOK'
    BY <1>10 DEF ConstructLoop, At
  <1>11. ASSUME InitDelegate
        PROVE  TypeOK'
    BY <1>11 DEF InitDelegate, At, Threads
  <1>12. ASSUME InitDelegateTransfer
        PROVE  TypeOK'
    BY <1>12 DEF InitDelegateTransfer, At
  <1>13. ASSUME InitDelegateReturns
        PROVE  TypeOK'
    BY <1>13 DEF InitDelegateReturns, At
  <1>14. ASSUME Run
        PROVE  TypeOK'
    BY <1>14 DEF Run, At
  <1>15. ASSUME HandleRan
        PROVE  TypeOK'
    BY <1>15 DEF HandleRan, At
  <1>16. ASSUME QuitNow
        PROVE  TypeOK'
    BY <1>16 DEF QuitNow
  <1>17. ASSUME RunReturns
        PROVE  TypeOK'
    BY <1>17 DEF RunReturns, At
  <1>18. ASSUME Shutdown
        PROVE  TypeOK'
    BY <1>18 DEF Shutdown, At
  <1>19. ASSUME HandleCanceled
        PROVE  TypeOK'
    BY <1>19 DEF HandleCanceled, At
  <1>20. ASSUME ShutdownReturns
        PROVE  TypeOK'
    BY <1>20 DEF ShutdownReturns, At
  <1>21. ASSUME ClearDelegate
        PROVE  TypeOK'
    BY <1>21 DEF ClearDelegate, At, Threads
  <1>22. ASSUME DestructorReturns
        PROVE  TypeOK'
    BY <1>22 DEF DestructorReturns, At
  <1>23. ASSUME Tick
        PROVE  TypeOK'
    BY <1>23 DEF Tick
  <1>24. ASSUME NEW i \in 1..Len(scheduled), Dispatch(i)
        PROVE  TypeOK'
    BY <1>24, RemoveAtType DEF Dispatch, At
  <1>25. ASSUME NEW i \in 1..Len(scheduled), ShutdownCancels(i)
        PROVE  TypeOK'
    BY <1>25, RemoveAtType DEF ShutdownCancels, At
  <1>26. CASE UNCHANGED vars
    BY <1>26 DEF vars, queueVars, loopVars, callVars
  <1>27. QED
    BY <1>1, <1>2, <1>3, <1>4, <1>5, <1>6, <1>7, <1>8, <1>9, <1>10, <1>11, <1>12,
       <1>13, <1>14, <1>15, <1>16, <1>17, <1>18, <1>19, <1>20, <1>21, <1>22, <1>23,
       <1>24, <1>25, <1>26, EveryStep

LEMMA ArgPreserved == TypeOK /\ ArgInv /\ [Next]_vars => ArgInv'
  <1> SUFFICES ASSUME TypeOK, ArgInv, [Next]_vars
               PROVE  ArgInv'
    OBVIOUS
  <1> USE TaskQueueAssumption DEF TypeOK, ArgInv, Threads, CallStates, Mains, queueVars, loopVars, callVars
  <1>1. ASSUME NEW th \in Threads, NEW t \in Tasks, NEW time \in 0..MaxTime, Enter(th, t, time)
        PROVE  ArgInv'
    BY <1>1 DEF Enter, CanCall
  <1>2. ASSUME NEW th \in Threads, Acquire(th)
        PROVE  ArgInv'
    BY <1>2 DEF Acquire
  <1>3. ASSUME NEW th \in Threads, AddTask(th)
        PROVE  ArgInv'
    BY <1>3 DEF AddTask, AddTaskDrops, AddTaskDelegates, AddTaskBuffers
  <1>4. ASSUME NEW th \in Threads, DelegatePostTask(th)
        PROVE  ArgInv'
    BY <1>4, ZenonT(60) DEF DelegatePostTask
  <1>5. ASSUME NEW th \in Threads, DestroyClosure(th)
        PROVE  ArgInv'
    BY <1>5 DEF DestroyClosure
  <1>6. ASSUME NEW th \in Threads, Unlock(th)
        PROVE  ArgInv'
    BY <1>6 DEF Unlock
  <1>7. ASSUME NEW th \in Threads, QueryDelegate(th)
        PROVE  ArgInv'
    BY <1>7 DEF QueryDelegate
  <1>8. ASSUME NEW th \in Threads, QueryReturns(th)
        PROVE  ArgInv'
    BY <1>8 DEF QueryReturns
  <1>9. ASSUME NEW th \in Threads, RunsTasksOnCurrentThread(th)
        PROVE  ArgInv'
    BY <1>9 DEF RunsTasksOnCurrentThread, CanCall
  <1>10. ASSUME ConstructLoop
        PROVE  ArgInv'
    BY <1>10 DEF ConstructLoop, At
  <1>11. ASSUME InitDelegate
        PROVE  ArgInv'
    BY <1>11 DEF InitDelegate, At
  <1>12. ASSUME InitDelegateTransfer
        PROVE  ArgInv'
    BY <1>12 DEF InitDelegateTransfer, At
  <1>13. ASSUME InitDelegateReturns
        PROVE  ArgInv'
    BY <1>13 DEF InitDelegateReturns, At
  <1>14. ASSUME Run
        PROVE  ArgInv'
    BY <1>14 DEF Run, At
  <1>15. ASSUME HandleRan
        PROVE  ArgInv'
    BY <1>15 DEF HandleRan, At
  <1>16. ASSUME QuitNow
        PROVE  ArgInv'
    BY <1>16 DEF QuitNow
  <1>17. ASSUME RunReturns
        PROVE  ArgInv'
    BY <1>17 DEF RunReturns, At
  <1>18. ASSUME Shutdown
        PROVE  ArgInv'
    BY <1>18 DEF Shutdown, At
  <1>19. ASSUME HandleCanceled
        PROVE  ArgInv'
    BY <1>19 DEF HandleCanceled, At
  <1>20. ASSUME ShutdownReturns
        PROVE  ArgInv'
    BY <1>20 DEF ShutdownReturns, At
  <1>21. ASSUME ClearDelegate
        PROVE  ArgInv'
    BY <1>21 DEF ClearDelegate, At
  <1>22. ASSUME DestructorReturns
        PROVE  ArgInv'
    BY <1>22 DEF DestructorReturns, At
  <1>23. ASSUME Tick
        PROVE  ArgInv'
    BY <1>23 DEF Tick
  <1>24. ASSUME NEW i \in 1..Len(scheduled), Dispatch(i)
        PROVE  ArgInv'
    BY <1>24 DEF Dispatch, At
  <1>25. ASSUME NEW i \in 1..Len(scheduled), ShutdownCancels(i)
        PROVE  ArgInv'
    BY <1>25 DEF ShutdownCancels, At
  <1>26. CASE UNCHANGED vars
    BY <1>26 DEF vars, queueVars, loopVars, callVars
  <1>27. QED
    BY <1>1, <1>2, <1>3, <1>4, <1>5, <1>6, <1>7, <1>8, <1>9, <1>10, <1>11, <1>12,
       <1>13, <1>14, <1>15, <1>16, <1>17, <1>18, <1>19, <1>20, <1>21, <1>22, <1>23,
       <1>24, <1>25, <1>26, EveryStep

LEMMA LifePreserved == TypeOK /\ LifeInv /\ [Next]_vars => LifeInv'
  <1> SUFFICES ASSUME TypeOK, LifeInv, [Next]_vars
               PROVE  LifeInv'
    OBVIOUS
  <1> USE TaskQueueAssumption DEF TypeOK, LifeInv, CallStates, Mains, queueVars, loopVars, callVars
  <1>1. ASSUME NEW th \in Threads, NEW t \in Tasks, NEW time \in 0..MaxTime, Enter(th, t, time)
        PROVE  LifeInv'
    BY <1>1 DEF Enter, CanCall
  <1>2. ASSUME NEW th \in Threads, Acquire(th)
        PROVE  LifeInv'
    BY <1>2 DEF Acquire
  <1>3. ASSUME NEW th \in Threads, AddTask(th)
        PROVE  LifeInv'
    BY <1>3 DEF AddTask, AddTaskDrops, AddTaskDelegates, AddTaskBuffers
  <1>4. ASSUME NEW th \in Threads, DelegatePostTask(th)
        PROVE  LifeInv'
    BY <1>4 DEF DelegatePostTask
  <1>5. ASSUME NEW th \in Threads, DestroyClosure(th)
        PROVE  LifeInv'
    BY <1>5 DEF DestroyClosure
  <1>6. ASSUME NEW th \in Threads, Unlock(th)
        PROVE  LifeInv'
    BY <1>6 DEF Unlock
  <1>7. ASSUME NEW th \in Threads, QueryDelegate(th)
        PROVE  LifeInv'
    BY <1>7 DEF QueryDelegate
  <1>8. ASSUME NEW th \in Threads, QueryReturns(th)
        PROVE  LifeInv'
    BY <1>8 DEF QueryReturns
  <1>9. ASSUME NEW th \in Threads, RunsTasksOnCurrentThread(th)
        PROVE  LifeInv'
    BY <1>9 DEF RunsTasksOnCurrentThread, CanCall
  <1>10. ASSUME ConstructLoop
        PROVE  LifeInv'
    BY <1>10 DEF ConstructLoop, At
  <1>11. ASSUME InitDelegate
        PROVE  LifeInv'
    BY <1>11 DEF InitDelegate, At
  <1>12. ASSUME InitDelegateTransfer
        PROVE  LifeInv'
    BY <1>12 DEF InitDelegateTransfer, At
  <1>13. ASSUME InitDelegateReturns
        PROVE  LifeInv'
    BY <1>13 DEF InitDelegateReturns, At
  <1>14. ASSUME Run
        PROVE  LifeInv'
    BY <1>14 DEF Run, At
  <1>15. ASSUME HandleRan
        PROVE  LifeInv'
    BY <1>15 DEF HandleRan, At
  <1>16. ASSUME QuitNow
        PROVE  LifeInv'
    BY <1>16 DEF QuitNow
  <1>17. ASSUME RunReturns
        PROVE  LifeInv'
    BY <1>17 DEF RunReturns, At
  <1>18. ASSUME Shutdown
        PROVE  LifeInv'
    BY <1>18 DEF Shutdown, At
  <1>19. ASSUME HandleCanceled
        PROVE  LifeInv'
    BY <1>19 DEF HandleCanceled, At
  <1>20. ASSUME ShutdownReturns
        PROVE  LifeInv'
    BY <1>20 DEF ShutdownReturns, At
  <1>21. ASSUME ClearDelegate
        PROVE  LifeInv'
    BY <1>21 DEF ClearDelegate, At
  <1>22. ASSUME DestructorReturns
        PROVE  LifeInv'
    BY <1>22 DEF DestructorReturns, At
  <1>23. ASSUME Tick
        PROVE  LifeInv'
    BY <1>23 DEF Tick
  <1>24. ASSUME NEW i \in 1..Len(scheduled), Dispatch(i)
        PROVE  LifeInv'
    BY <1>24 DEF Dispatch, At
  <1>25. ASSUME NEW i \in 1..Len(scheduled), ShutdownCancels(i)
        PROVE  LifeInv'
    BY <1>25 DEF ShutdownCancels, At
  <1>26. CASE UNCHANGED vars
    BY <1>26 DEF vars, queueVars, loopVars, callVars
  <1>27. QED
    BY <1>1, <1>2, <1>3, <1>4, <1>5, <1>6, <1>7, <1>8, <1>9, <1>10, <1>11, <1>12,
       <1>13, <1>14, <1>15, <1>16, <1>17, <1>18, <1>19, <1>20, <1>21, <1>22, <1>23,
       <1>24, <1>25, <1>26, EveryStep

LEMMA LockPreserved == TypeOK /\ LifeInv /\ LockInv /\ DestroyInv /\ [Next]_vars => LockInv'
  <1> SUFFICES ASSUME TypeOK, LifeInv, LockInv, DestroyInv, [Next]_vars
               PROVE  LockInv'
    OBVIOUS
  <1> USE TaskQueueAssumption DEF TypeOK, LifeInv, LockInv, DestroyInv, ClientCode, Mains, CallStates, Threads, queueVars, loopVars, callVars
  <1>1. ASSUME NEW th \in Threads, NEW t \in Tasks, NEW time \in 0..MaxTime, Enter(th, t, time)
        PROVE  LockInv'
    BY <1>1 DEF Enter, CanCall
  <1>2. ASSUME NEW th \in Threads, Acquire(th)
        PROVE  LockInv'
    BY <1>2 DEF Acquire
  <1>3. ASSUME NEW th \in Threads, AddTask(th)
        PROVE  LockInv'
    BY <1>3 DEF AddTask, AddTaskDrops, AddTaskDelegates, AddTaskBuffers
  <1>4. ASSUME NEW th \in Threads, DelegatePostTask(th)
        PROVE  LockInv'
    BY <1>4 DEF DelegatePostTask
  <1>5. ASSUME NEW th \in Threads, DestroyClosure(th)
        PROVE  LockInv'
    BY <1>5 DEF DestroyClosure
  <1>6. ASSUME NEW th \in Threads, Unlock(th)
        PROVE  LockInv'
    BY <1>6 DEF Unlock
  <1>7. ASSUME NEW th \in Threads, QueryDelegate(th)
        PROVE  LockInv'
    BY <1>7 DEF QueryDelegate
  <1>8. ASSUME NEW th \in Threads, QueryReturns(th)
        PROVE  LockInv'
    BY <1>8 DEF QueryReturns
  <1>9. ASSUME NEW th \in Threads, RunsTasksOnCurrentThread(th)
        PROVE  LockInv'
    BY <1>9 DEF RunsTasksOnCurrentThread, CanCall
  <1>10. ASSUME ConstructLoop
        PROVE  LockInv'
    BY <1>10 DEF ConstructLoop, At
  <1>11. ASSUME InitDelegate
        PROVE  LockInv'
    BY <1>11 DEF InitDelegate, At
  <1>12. ASSUME InitDelegateTransfer
        PROVE  LockInv'
    BY <1>12 DEF InitDelegateTransfer, At
  <1>13. ASSUME InitDelegateReturns
        PROVE  LockInv'
    BY <1>13 DEF InitDelegateReturns, At
  <1>14. ASSUME Run
        PROVE  LockInv'
    BY <1>14 DEF Run, At
  <1>15. ASSUME HandleRan
        PROVE  LockInv'
    BY <1>15 DEF HandleRan, At
  <1>16. ASSUME QuitNow
        PROVE  LockInv'
    BY <1>16 DEF QuitNow
  <1>17. ASSUME RunReturns
        PROVE  LockInv'
    BY <1>17 DEF RunReturns, At
  <1>18. ASSUME Shutdown
        PROVE  LockInv'
    BY <1>18 DEF Shutdown, At
  <1>19. ASSUME HandleCanceled
        PROVE  LockInv'
    BY <1>19 DEF HandleCanceled, At
  <1>20. ASSUME ShutdownReturns
        PROVE  LockInv'
    BY <1>20 DEF ShutdownReturns, At
  <1>21. ASSUME ClearDelegate
        PROVE  LockInv'
    BY <1>21 DEF ClearDelegate, At
  <1>22. ASSUME DestructorReturns
        PROVE  LockInv'
    BY <1>22 DEF DestructorReturns, At
  <1>23. ASSUME Tick
        PROVE  LockInv'
    BY <1>23 DEF Tick
  <1>24. ASSUME NEW i \in 1..Len(scheduled), Dispatch(i)
        PROVE  LockInv'
    BY <1>24 DEF Dispatch, At
  <1>25. ASSUME NEW i \in 1..Len(scheduled), ShutdownCancels(i)
        PROVE  LockInv'
    BY <1>25 DEF ShutdownCancels, At
  <1>26. CASE UNCHANGED vars
    BY <1>26 DEF vars, queueVars, loopVars, callVars
  <1>27. QED
    BY <1>1, <1>2, <1>3, <1>4, <1>5, <1>6, <1>7, <1>8, <1>9, <1>10, <1>11, <1>12,
       <1>13, <1>14, <1>15, <1>16, <1>17, <1>18, <1>19, <1>20, <1>21, <1>22, <1>23,
       <1>24, <1>25, <1>26, EveryStep

LEMMA DestroyPreserved == TypeOK /\ LifeInv /\ LockInv /\ DestroyInv /\ [Next]_vars => DestroyInv'
  <1> SUFFICES ASSUME TypeOK, LifeInv, LockInv, DestroyInv, [Next]_vars
               PROVE  DestroyInv'
    OBVIOUS
  <1> USE TaskQueueAssumption DEF TypeOK, LifeInv, LockInv, DestroyInv, ClientCode, Mains, CallStates, Threads, queueVars, loopVars, callVars
  <1>1. ASSUME NEW th \in Threads, NEW t \in Tasks, NEW time \in 0..MaxTime, Enter(th, t, time)
        PROVE  DestroyInv'
    BY <1>1 DEF Enter, CanCall
  <1>2. ASSUME NEW th \in Threads, Acquire(th)
        PROVE  DestroyInv'
    BY <1>2 DEF Acquire
  <1>3. ASSUME NEW th \in Threads, AddTask(th)
        PROVE  DestroyInv'
    BY <1>3 DEF AddTask, AddTaskDrops, AddTaskDelegates, AddTaskBuffers
  <1>4. ASSUME NEW th \in Threads, DelegatePostTask(th)
        PROVE  DestroyInv'
    BY <1>4 DEF DelegatePostTask
  <1>5. ASSUME NEW th \in Threads, DestroyClosure(th)
        PROVE  DestroyInv'
    BY <1>5 DEF DestroyClosure
  <1>6. ASSUME NEW th \in Threads, Unlock(th)
        PROVE  DestroyInv'
    BY <1>6 DEF Unlock
  <1>7. ASSUME NEW th \in Threads, QueryDelegate(th)
        PROVE  DestroyInv'
    BY <1>7 DEF QueryDelegate
  <1>8. ASSUME NEW th \in Threads, QueryReturns(th)
        PROVE  DestroyInv'
    BY <1>8 DEF QueryReturns
  <1>9. ASSUME NEW th \in Threads, RunsTasksOnCurrentThread(th)
        PROVE  DestroyInv'
    BY <1>9 DEF RunsTasksOnCurrentThread, CanCall
  <1>10. ASSUME ConstructLoop
        PROVE  DestroyInv'
    BY <1>10 DEF ConstructLoop, At
  <1>11. ASSUME InitDelegate
        PROVE  DestroyInv'
    BY <1>11 DEF InitDelegate, At
  <1>12. ASSUME InitDelegateTransfer
        PROVE  DestroyInv'
    BY <1>12 DEF InitDelegateTransfer, At
  <1>13. ASSUME InitDelegateReturns
        PROVE  DestroyInv'
    BY <1>13 DEF InitDelegateReturns, At
  <1>14. ASSUME Run
        PROVE  DestroyInv'
    BY <1>14 DEF Run, At
  <1>15. ASSUME HandleRan
        PROVE  DestroyInv'
    BY <1>15 DEF HandleRan, At
  <1>16. ASSUME QuitNow
        PROVE  DestroyInv'
    BY <1>16 DEF QuitNow
  <1>17. ASSUME RunReturns
        PROVE  DestroyInv'
    BY <1>17 DEF RunReturns, At
  <1>18. ASSUME Shutdown
        PROVE  DestroyInv'
    BY <1>18 DEF Shutdown, At
  <1>19. ASSUME HandleCanceled
        PROVE  DestroyInv'
    BY <1>19 DEF HandleCanceled, At
  <1>20. ASSUME ShutdownReturns
        PROVE  DestroyInv'
    BY <1>20 DEF ShutdownReturns, At
  <1>21. ASSUME ClearDelegate
        PROVE  DestroyInv'
    BY <1>21 DEF ClearDelegate, At
  <1>22. ASSUME DestructorReturns
        PROVE  DestroyInv'
    BY <1>22 DEF DestructorReturns, At
  <1>23. ASSUME Tick
        PROVE  DestroyInv'
    BY <1>23 DEF Tick
  <1>24. ASSUME NEW i \in 1..Len(scheduled), Dispatch(i)
        PROVE  DestroyInv'
    BY <1>24 DEF Dispatch, At
  <1>25. ASSUME NEW i \in 1..Len(scheduled), ShutdownCancels(i)
        PROVE  DestroyInv'
    BY <1>25 DEF ShutdownCancels, At
  <1>26. CASE UNCHANGED vars
    BY <1>26 DEF vars, queueVars, loopVars, callVars
  <1>27. QED
    BY <1>1, <1>2, <1>3, <1>4, <1>5, <1>6, <1>7, <1>8, <1>9, <1>10, <1>11, <1>12,
       <1>13, <1>14, <1>15, <1>16, <1>17, <1>18, <1>19, <1>20, <1>21, <1>22, <1>23,
       <1>24, <1>25, <1>26, EveryStep

LEMMA StrandedPreserved ==
  TypeOK /\ LifeInv /\ LockInv /\ NoneStranded /\ [Next]_vars => NoneStranded'
  <1> SUFFICES ASSUME TypeOK, LifeInv, LockInv, NoneStranded, [Next]_vars
               PROVE  NoneStranded'
    OBVIOUS
  <1> USE TaskQueueAssumption DEF TypeOK, LifeInv, LockInv, NoneStranded, Mains, queueVars, loopVars, callVars
  <1>1. ASSUME NEW th \in Threads, NEW t \in Tasks, NEW time \in 0..MaxTime, Enter(th, t, time)
        PROVE  NoneStranded'
    BY <1>1 DEF Enter, CanCall
  <1>2. ASSUME NEW th \in Threads, Acquire(th)
        PROVE  NoneStranded'
    BY <1>2 DEF Acquire
  <1>3. ASSUME NEW th \in Threads, AddTask(th)
        PROVE  NoneStranded'
    BY <1>3 DEF AddTask, AddTaskDrops, AddTaskDelegates, AddTaskBuffers
  <1>4. ASSUME NEW th \in Threads, DelegatePostTask(th)
        PROVE  NoneStranded'
    BY <1>4 DEF DelegatePostTask
  <1>5. ASSUME NEW th \in Threads, DestroyClosure(th)
        PROVE  NoneStranded'
    BY <1>5 DEF DestroyClosure
  <1>6. ASSUME NEW th \in Threads, Unlock(th)
        PROVE  NoneStranded'
    BY <1>6 DEF Unlock
  <1>7. ASSUME NEW th \in Threads, QueryDelegate(th)
        PROVE  NoneStranded'
    BY <1>7 DEF QueryDelegate
  <1>8. ASSUME NEW th \in Threads, QueryReturns(th)
        PROVE  NoneStranded'
    BY <1>8 DEF QueryReturns
  <1>9. ASSUME NEW th \in Threads, RunsTasksOnCurrentThread(th)
        PROVE  NoneStranded'
    BY <1>9 DEF RunsTasksOnCurrentThread, CanCall
  <1>10. ASSUME ConstructLoop
        PROVE  NoneStranded'
    BY <1>10 DEF ConstructLoop, At
  <1>11. ASSUME InitDelegate
        PROVE  NoneStranded'
    BY <1>11 DEF InitDelegate, At
  <1>12. ASSUME InitDelegateTransfer
        PROVE  NoneStranded'
    BY <1>12 DEF InitDelegateTransfer, At
  <1>13. ASSUME InitDelegateReturns
        PROVE  NoneStranded'
    BY <1>13 DEF InitDelegateReturns, At
  <1>14. ASSUME Run
        PROVE  NoneStranded'
    BY <1>14 DEF Run, At
  <1>15. ASSUME HandleRan
        PROVE  NoneStranded'
    BY <1>15 DEF HandleRan, At
  <1>16. ASSUME QuitNow
        PROVE  NoneStranded'
    BY <1>16 DEF QuitNow
  <1>17. ASSUME RunReturns
        PROVE  NoneStranded'
    BY <1>17 DEF RunReturns, At
  <1>18. ASSUME Shutdown
        PROVE  NoneStranded'
    BY <1>18 DEF Shutdown, At
  <1>19. ASSUME HandleCanceled
        PROVE  NoneStranded'
    BY <1>19 DEF HandleCanceled, At
  <1>20. ASSUME ShutdownReturns
        PROVE  NoneStranded'
    BY <1>20 DEF ShutdownReturns, At
  <1>21. ASSUME ClearDelegate
        PROVE  NoneStranded'
    BY <1>21 DEF ClearDelegate, At
  <1>22. ASSUME DestructorReturns
        PROVE  NoneStranded'
    BY <1>22 DEF DestructorReturns, At
  <1>23. ASSUME Tick
        PROVE  NoneStranded'
    BY <1>23 DEF Tick
  <1>24. ASSUME NEW i \in 1..Len(scheduled), Dispatch(i)
        PROVE  NoneStranded'
    BY <1>24 DEF Dispatch, At
  <1>25. ASSUME NEW i \in 1..Len(scheduled), ShutdownCancels(i)
        PROVE  NoneStranded'
    BY <1>25 DEF ShutdownCancels, At
  <1>26. CASE UNCHANGED vars
    BY <1>26 DEF vars, queueVars, loopVars, callVars
  <1>27. QED
    BY <1>1, <1>2, <1>3, <1>4, <1>5, <1>6, <1>7, <1>8, <1>9, <1>10, <1>11, <1>12,
       <1>13, <1>14, <1>15, <1>16, <1>17, <1>18, <1>19, <1>20, <1>21, <1>22, <1>23,
       <1>24, <1>25, <1>26, EveryStep
LEMMA CurrentPreserved == TypeOK /\ CurrentInv /\ [Next]_vars => CurrentInv'
  <1> SUFFICES ASSUME TypeOK, CurrentInv, [Next]_vars
               PROVE  CurrentInv'
    OBVIOUS
  <1> USE TaskQueueAssumption DEF CurrentInv
  <1>1. ASSUME NEW th \in Threads, NEW t \in Tasks, NEW time \in 0..MaxTime, Enter(th, t, time)
        PROVE  CurrentInv'
    BY <1>1 DEF Enter, loopVars
  <1>2. ASSUME NEW th \in Threads,
               \/ Acquire(th) \/ AddTask(th) \/ DelegatePostTask(th) \/ DestroyClosure(th)
               \/ Unlock(th) \/ QueryDelegate(th) \/ QueryReturns(th)
               \/ RunsTasksOnCurrentThread(th)
        PROVE  CurrentInv'
    BY <1>2 DEF Acquire, AddTask, DelegatePostTask, DestroyClosure, Unlock,
       QueryDelegate, QueryReturns, RunsTasksOnCurrentThread, loopVars
  <1>3. ASSUME \/ ConstructLoop \/ InitDelegate \/ InitDelegateTransfer
               \/ InitDelegateReturns \/ Run \/ RunReturns \/ QuitNow
        PROVE  CurrentInv'
    BY <1>3 DEF ConstructLoop, InitDelegate, InitDelegateTransfer,
       InitDelegateReturns, Run, RunReturns, QuitNow, At
  <1>4. ASSUME HandleRan \/ HandleCanceled
        PROVE  CurrentInv'
    BY <1>4 DEF HandleRan, HandleCanceled, At
  <1>5. ASSUME Shutdown \/ ShutdownReturns \/ ClearDelegate \/ DestructorReturns
        PROVE  CurrentInv'
    BY <1>5 DEF Shutdown, ShutdownReturns, ClearDelegate, DestructorReturns, At
  <1>6. ASSUME NEW i \in 1..Len(scheduled), Dispatch(i) \/ ShutdownCancels(i)
        PROVE  CurrentInv'
    <2>1. scheduled[i] \in Tasks
      BY RemoveAtType DEF TypeOK
    <2>2. QED
      BY <1>6, <2>1 DEF Dispatch, ShutdownCancels, At
  <1>7. ASSUME Tick \/ UNCHANGED vars
        PROVE  CurrentInv'
    BY <1>7 DEF Tick, vars, loopVars
  <1>8. QED
    BY <1>1, <1>2, <1>3, <1>4, <1>5, <1>6, <1>7, EveryStep

LEMMA RefusedPreserved ==
  TypeOK /\ ArgInv /\ LifeInv /\ RefusedInv /\ [Next]_vars => RefusedInv'
  <1> SUFFICES ASSUME TypeOK, ArgInv, LifeInv, RefusedInv, [Next]_vars
               PROVE  RefusedInv'
    OBVIOUS
  <1> USE TaskQueueAssumption DEF TypeOK, RefusedInv
  <1>1. ASSUME NEW th \in Threads, NEW t \in Tasks, NEW time \in 0..MaxTime, Enter(th, t, time)
        PROVE  RefusedInv'
    BY <1>1 DEF Enter, loopVars
  <1>2. ASSUME NEW th \in Threads, Acquire(th) \/ Unlock(th) \/ QueryDelegate(th)
        PROVE  RefusedInv'
    BY <1>2 DEF Acquire, Unlock, QueryDelegate, loopVars
  <1>3. ASSUME NEW th \in Threads, AddTask(th)
        PROVE  RefusedInv'
    BY <1>3 DEF AddTask, AddTaskDrops, AddTaskDelegates, AddTaskBuffers, loopVars,
       LifeInv, Mains
  <1>4. ASSUME NEW th \in Threads, DelegatePostTask(th)
        PROVE  RefusedInv'
    BY <1>4 DEF DelegatePostTask
  <1>5. ASSUME NEW th \in Threads,
               DestroyClosure(th) \/ QueryReturns(th) \/ RunsTasksOnCurrentThread(th)
        PROVE  RefusedInv'
    BY <1>5 DEF DestroyClosure, QueryReturns, RunsTasksOnCurrentThread, CanCall,
       ArgInv, loopVars
  <1>6. ASSUME \/ InitDelegate \/ InitDelegateTransfer \/ InitDelegateReturns \/ Run
               \/ HandleRan \/ HandleCanceled \/ ShutdownReturns \/ ClearDelegate \/ Tick
        PROVE  RefusedInv'
    BY <1>6 DEF InitDelegate, InitDelegateTransfer, InitDelegateReturns, Run,
       HandleRan, HandleCanceled, ShutdownReturns, ClearDelegate, Tick, callVars,
       loopVars
  <1>7. ASSUME ConstructLoop \/ QuitNow \/ RunReturns \/ Shutdown \/ DestructorReturns
        PROVE  RefusedInv'
    BY <1>7 DEF ConstructLoop, QuitNow, RunReturns, Shutdown, DestructorReturns, At,
       callVars, LifeInv, Mains
  <1>8. ASSUME NEW i \in 1..Len(scheduled), Dispatch(i) \/ ShutdownCancels(i)
        PROVE  RefusedInv'
    BY <1>8 DEF Dispatch, ShutdownCancels, callVars
  <1>9. CASE UNCHANGED vars
    BY <1>9 DEF vars, callVars, loopVars
  <1>10. QED
    BY <1>1, <1>2, <1>3, <1>4, <1>5, <1>6, <1>7, <1>8, <1>9, EveryStep
-----------------------------------------------------------------------------
LEMMA InitIInv == Init => TypeOK /\ IInv
  <1> SUFFICES ASSUME Init
               PROVE  TypeOK /\ IInv
    OBVIOUS
  <1> USE TaskQueueAssumption DEF Init
  <1>1. TypeOK
    <2>1. incoming_queue_ \in Seq(Tasks) /\ scheduled \in Seq(Tasks)
      BY EmptySeq
    <2>2. now \in 0..MaxTime /\ target \in [Tasks -> 0..MaxTime]
      BY SMT
    <2>3. fate \in [Tasks -> {"fresh", "live", "ran", "dropped"}]
      BY SMT
    <2>4. pc \in [Threads -> CallStates] /\ arg \in [Threads -> Tasks \cup {NoTask}]
      BY SMT DEF CallStates
    <2>5. QED
      BY <2>1, <2>2, <2>3, <2>4, Zenon DEF TypeOK, Mains
  <1>2. ArgInv /\ LifeInv /\ CurrentInv /\ RefusedInv /\ NoneStranded
    BY DEF ArgInv, LifeInv, CurrentInv, RefusedInv, NoneStranded
  <1>3. LockInv /\ DestroyInv
    BY DEF LockInv, DestroyInv, ClientCode, Mains, Threads
  <1>4. QED
    BY <1>1, <1>2, <1>3 DEF IInv

LEMMA StepIInv == TypeOK /\ IInv /\ [Next]_vars => (TypeOK /\ IInv)'
  BY TypePreserved, ArgPreserved, LifePreserved, LockPreserved, DestroyPreserved,
     CurrentPreserved, RefusedPreserved, StrandedPreserved DEF IInv

LEMMA Inductive == Spec => [](TypeOK /\ IInv)
  BY InitIInv, StepIInv, PTL DEF Spec

\* Every variable of the task queue keeps its type, for any number of threads
\* and tasks: what IncomingTaskQueue and MessageLoop declare.
THEOREM TypeCorrect == Spec => []TypeOK
  BY Inductive, PTL

\* ~MessageLoop never frees the loop under a thread that is about to call it
\* through delegate_ (AddTask and RunsTasksOnCurrentThread call under the
\* lock that ClearDelegate takes).
THEOREM DelegateOutlivesCalls == Spec => []DelegateAlive
  <1>1. TypeOK /\ IInv => DelegateAlive
    BY DEF IInv, LifeInv, LockInv, DelegateAlive, TypeOK, Mains
  <1>2. QED
    BY <1>1, Inductive, PTL

\* No accepted task is left where nobody will look for it: not in the buffer
\* once InitDelegate is done, not with libasync once Shutdown is.
THEOREM NoTaskStranded == Spec => []NoneStranded
  <1>1. IInv => NoneStranded
    BY DEF IInv
  <1>2. QED
    BY <1>1, Inductive, PTL

\* A quit request is never left over for the next Run.
THEOREM NoQuitLeftOver == Spec => []NoStaleQuit
  <1>1. TypeOK /\ IInv => NoStaleQuit
    BY DEF IInv, LifeInv, NoStaleQuit, TypeOK, Mains
  <1>2. QED
    BY <1>1, Inductive, PTL

\* The only way a thread can wait for its own lock is the destructor of a
\* closure that MessageLoop::PostTask refuses during the shutdown.
THEOREM SelfDeadlockConfined == Spec => []SelfDeadlockOnlyInShutdown
  <1>1. TypeOK /\ IInv => SelfDeadlockOnlyInShutdown
    BY DEF IInv, DestroyInv, SelfDeadlockOnlyInShutdown, SelfDeadlocked, WaitsForItself
  <1>2. QED
    BY <1>1, Inductive, PTL
-----------------------------------------------------------------------------
(* Who has a closure.  What a step does to that is one of a few things: a   *)
(* caller hands a closure over; the call passes it on to a queue or drops   *)
(* it; InitDelegate moves it; the loop takes it up, and is done with it.    *)

LEMMA OwnershipStep ==
  ASSUME TypeOK, IInv, [Next]_vars
  PROVE  \/ \E th \in Threads, t \in Tasks :
              /\ fate[t] = "fresh" /\ arg[th] = NoTask
              /\ fate' = [fate EXCEPT ![t] = "live"]
              /\ arg' = [arg EXCEPT ![th] = t]
              /\ UNCHANGED <<incoming_queue_, scheduled, current>>
         \/ \E th \in Threads :
              /\ arg[th] \in Tasks
              /\ arg' = [arg EXCEPT ![th] = NoTask]
              /\ \/ /\ incoming_queue_' = Append(incoming_queue_, arg[th])
                    /\ UNCHANGED <<fate, scheduled, current>>
                 \/ /\ scheduled' = Append(scheduled, arg[th])
                    /\ UNCHANGED <<fate, incoming_queue_, current>>
                 \/ /\ fate' = [fate EXCEPT ![arg[th]] = "dropped"]
                    /\ UNCHANGED <<incoming_queue_, scheduled, current>>
         \/ /\ incoming_queue_ # <<>>
            /\ scheduled' = Append(scheduled, Head(incoming_queue_))
            /\ incoming_queue_' = Tail(incoming_queue_)
            /\ UNCHANGED <<fate, arg, current>>
         \/ \E i \in 1..Len(scheduled) :
              /\ current = NoTask
              /\ current' = scheduled[i]
              /\ scheduled' = RemoveAt(scheduled, i)
              /\ UNCHANGED <<fate, arg, incoming_queue_>>
         \/ /\ current \in Tasks
            /\ current' = NoTask
            /\ \E end \in {"ran", "dropped"} : fate' = [fate EXCEPT ![current] = end]
            /\ UNCHANGED <<arg, incoming_queue_, scheduled>>
         \/ UNCHANGED <<fate, arg, incoming_queue_, scheduled, current>>
  <1> DEFINE Same == UNCHANGED <<fate, arg, incoming_queue_, scheduled, current>>
  <1> USE TaskQueueAssumption DEF queueVars, loopVars, callVars, At
  <1>1. ASSUME NEW th \in Threads, NEW t \in Tasks, NEW time \in 0..MaxTime, Enter(th, t, time)
        PROVE  /\ fate[t] = "fresh" /\ arg[th] = NoTask
               /\ fate' = [fate EXCEPT ![t] = "live"]
               /\ arg' = [arg EXCEPT ![th] = t]
               /\ UNCHANGED <<incoming_queue_, scheduled, current>>
    BY <1>1 DEF Enter, CanCall, IInv, ArgInv
  <1>2. ASSUME NEW th \in Threads, AddTask(th)
        PROVE  \/ Same
               \/ /\ arg[th] \in Tasks
                  /\ arg' = [arg EXCEPT ![th] = NoTask]
                  /\ incoming_queue_' = Append(incoming_queue_, arg[th])
                  /\ UNCHANGED <<fate, scheduled, current>>
    BY <1>2 DEF AddTask, AddTaskDrops, AddTaskDelegates, AddTaskBuffers, IInv, ArgInv
  <1>3. ASSUME NEW th \in Threads, DelegatePostTask(th)
        PROVE  \/ Same
               \/ /\ arg[th] \in Tasks
                  /\ arg' = [arg EXCEPT ![th] = NoTask]
                  /\ scheduled' = Append(scheduled, arg[th])
                  /\ UNCHANGED <<fate, incoming_queue_, current>>
    BY <1>3 DEF DelegatePostTask, IInv, ArgInv
  <1>4. ASSUME NEW th \in Threads, DestroyClosure(th) \/ QueryReturns(th)
        PROVE  \/ Same
               \/ /\ arg[th] \in Tasks
                  /\ arg' = [arg EXCEPT ![th] = NoTask]
                  /\ fate' = [fate EXCEPT ![arg[th]] = "dropped"]
                  /\ UNCHANGED <<incoming_queue_, scheduled, current>>
    BY <1>4 DEF DestroyClosure, QueryReturns, IInv, ArgInv, TypeOK
  <1>5. ASSUME NEW th \in Threads,
               Acquire(th) \/ Unlock(th) \/ QueryDelegate(th) \/ RunsTasksOnCurrentThread(th)
        PROVE  Same
    BY <1>5 DEF Acquire, Unlock, QueryDelegate, RunsTasksOnCurrentThread
  <1>6. ASSUME \/ ConstructLoop \/ InitDelegate \/ InitDelegateReturns \/ Run \/ QuitNow
               \/ RunReturns \/ Shutdown \/ ShutdownReturns \/ ClearDelegate
               \/ DestructorReturns \/ Tick \/ UNCHANGED vars
        PROVE  Same
    BY <1>6 DEF ConstructLoop, InitDelegate, InitDelegateReturns, Run, QuitNow,
       RunReturns, Shutdown, ShutdownReturns, ClearDelegate, DestructorReturns, Tick, vars
  <1>7. ASSUME HandleRan \/ HandleCanceled
        PROVE  /\ current \in Tasks
               /\ current' = NoTask
               /\ \E end \in {"ran", "dropped"} : fate' = [fate EXCEPT ![current] = end]
               /\ UNCHANGED <<arg, incoming_queue_, scheduled>>
    <2>1. current \in Tasks
      BY <1>7 DEF HandleRan, HandleCanceled, IInv, CurrentInv, TypeOK
    <2>2. QED
      BY <1>7, <2>1 DEF HandleRan, HandleCanceled
  <1>8. ASSUME NEW i \in 1..Len(scheduled), Dispatch(i) \/ ShutdownCancels(i)
        PROVE  /\ current = NoTask
               /\ current' = scheduled[i]
               /\ scheduled' = RemoveAt(scheduled, i)
               /\ UNCHANGED <<fate, arg, incoming_queue_>>
    BY <1>8 DEF Dispatch, ShutdownCancels, IInv, CurrentInv
  <1>9. ASSUME InitDelegateTransfer
        PROVE  /\ incoming_queue_ # <<>>
               /\ scheduled' = Append(scheduled, Head(incoming_queue_))
               /\ incoming_queue_' = Tail(incoming_queue_)
               /\ UNCHANGED <<fate, arg, current>>
    BY <1>9 DEF InitDelegateTransfer
  <1>10. QED
    BY <1>1, <1>2, <1>3, <1>4, <1>5, <1>6, <1>7, <1>8, <1>9, EveryStep

LEMMA OwnPreserved == TypeOK /\ IInv /\ OwnInv /\ [Next]_vars => OwnInv'
  <1> SUFFICES ASSUME TypeOK, IInv, OwnInv, [Next]_vars
               PROVE  OwnInv'
    OBVIOUS
  <1> USE TaskQueueAssumption
  <1>1. /\ arg \in [Threads -> Tasks \cup {NoTask}]
        /\ fate \in [Tasks -> {"fresh", "live", "ran", "dropped"}]
        /\ incoming_queue_ \in Seq(Tasks) /\ scheduled \in Seq(Tasks)
        /\ IsInjective(incoming_queue_) /\ IsInjective(scheduled)
    BY DEF TypeOK, OwnInv
  <1>1a. fate \in [Tasks -> {"fresh", "live", "ran", "dropped"}]
    BY <1>1
  <1>2. ASSUME NEW th \in Threads, NEW t \in Tasks, fate[t] = "fresh", arg[th] = NoTask,
               fate' = [fate EXCEPT ![t] = "live"],
               arg' = [arg EXCEPT ![th] = t],
               UNCHANGED <<incoming_queue_, scheduled, current>>
        PROVE  OwnInv'
    BY <1>1, <1>2 DEF OwnInv, InHand
  <1>3. ASSUME NEW th \in Threads, arg[th] \in Tasks, arg' = [arg EXCEPT ![th] = NoTask]
        PROVE  /\ \A t \in Tasks : InHand(t)' <=> InHand(t) /\ t # arg[th]
               /\ InHand(arg[th])
               /\ \A a, b \in Threads : arg'[a] = arg'[b] => a = b \/ arg'[a] = NoTask
    BY <1>1, <1>3 DEF OwnInv, InHand
  <1>4. ASSUME NEW th \in Threads, arg[th] \in Tasks, arg' = [arg EXCEPT ![th] = NoTask],
               incoming_queue_' = Append(incoming_queue_, arg[th]),
               UNCHANGED <<fate, scheduled, current>>
        PROVE  OwnInv'
    <2>1. ~Contains(incoming_queue_, arg[th])
      BY <1>3, <1>4 DEF OwnInv
    <2>2. /\ \A t \in Tasks : Contains(incoming_queue_', t) <=>
               Contains(incoming_queue_, t) \/ t = arg[th]
          /\ IsInjective(incoming_queue_')
      BY <1>1, <1>4, <2>1, AppendContains
    <2>3. QED
      BY <1>3, <1>4, <2>2, ZenonT(60) DEF OwnInv
  <1>5. ASSUME NEW th \in Threads, arg[th] \in Tasks, arg' = [arg EXCEPT ![th] = NoTask],
               scheduled' = Append(scheduled, arg[th]),
               UNCHANGED <<fate, incoming_queue_, current>>
        PROVE  OwnInv'
    <2>1. ~Contains(scheduled, arg[th])
      BY <1>3, <1>5 DEF OwnInv
    <2>2. /\ \A t \in Tasks : Contains(scheduled', t) <=> Contains(scheduled, t) \/ t = arg[th]
          /\ IsInjective(scheduled')
      BY <1>1, <1>5, <2>1, AppendContains
    <2>3. QED
      BY <1>3, <1>5, <2>2, ZenonT(60) DEF OwnInv
  <1>6. ASSUME NEW th \in Threads, arg[th] \in Tasks, arg' = [arg EXCEPT ![th] = NoTask],
               fate' = [fate EXCEPT ![arg[th]] = "dropped"],
               UNCHANGED <<incoming_queue_, scheduled, current>>
        PROVE  OwnInv'
    BY <1>3, <1>6, <1>1a, ZenonT(60) DEF OwnInv
  <1>7. ASSUME incoming_queue_ # <<>>,
               scheduled' = Append(scheduled, Head(incoming_queue_)),
               incoming_queue_' = Tail(incoming_queue_),
               UNCHANGED <<fate, arg, current>>
        PROVE  OwnInv'
    <2> DEFINE h == Head(incoming_queue_)
    <2>1. /\ h \in Tasks /\ Contains(incoming_queue_, h)
          /\ \A t \in Tasks : Contains(incoming_queue_', t) <=> Contains(incoming_queue_, t) /\ t # h
          /\ IsInjective(incoming_queue_')
      BY <1>1, <1>7, TailContains
    <2>2. ~Contains(scheduled, h)
      BY <2>1 DEF OwnInv
    <2>3. /\ \A t \in Tasks : Contains(scheduled', t) <=> Contains(scheduled, t) \/ t = h
          /\ IsInjective(scheduled')
      BY <1>1, <1>7, <2>1, <2>2, AppendContains
    <2> HIDE DEF h
    <2>4. QED
      BY <1>7, <2>1, <2>3 DEF OwnInv, InHand
  <1>8. ASSUME NEW i \in 1..Len(scheduled), current = NoTask, current' = scheduled[i],
               scheduled' = RemoveAt(scheduled, i),
               UNCHANGED <<fate, arg, incoming_queue_>>
        PROVE  OwnInv'
    <2>1. /\ current' \in Tasks /\ Contains(scheduled, current')
          /\ \A t \in Tasks : Contains(scheduled', t) <=> Contains(scheduled, t) /\ t # current'
          /\ IsInjective(scheduled')
      BY <1>1, <1>8, RemoveAtContains
    <2>2. QED
      BY <1>8, <2>1 DEF OwnInv, InHand
  <1>9. ASSUME current \in Tasks, current' = NoTask, NEW end \in {"ran", "dropped"},
               fate' = [fate EXCEPT ![current] = end],
               UNCHANGED <<arg, incoming_queue_, scheduled>>
        PROVE  OwnInv'
    BY <1>1, <1>9 DEF OwnInv, InHand
  <1>10. CASE UNCHANGED <<fate, arg, incoming_queue_, scheduled, current>>
    BY <1>10 DEF OwnInv, InHand
  <1>11. QED
    BY <1>2, <1>4, <1>5, <1>6, <1>7, <1>8, <1>9, <1>10, OwnershipStep

LEMMA InitOwn == Init => OwnInv
  <1> SUFFICES ASSUME Init
               PROVE  OwnInv
    OBVIOUS
  <1>1. \A t : ~Contains(<<>>, t)
    BY EmptySeq DEF Contains
  <1>2. IsInjective(<<>>)
    BY EmptySeq DEF IsInjective
  <1>3. QED
    BY <1>1, <1>2, TaskQueueAssumption DEF Init, OwnInv, InHand

LEMMA OwnInductive == Spec => []OwnInv
  BY InitOwn, OwnPreserved, Inductive, PTL DEF Spec

\* A posted closure is never lost, duplicated, or reachable when it is gone:
\* AddTask, InitDelegate, MessageLoop::PostTask and the record's Handle pass
\* one owning pointer on, whatever the threads do in between.
THEOREM ClosuresHaveOneOwner == Spec => []OneOwner
  <1>1. ASSUME TypeOK, OwnInv, NEW t \in Tasks
        PROVE  Cardinality(Owners(t)) = IF fate[t] = "live" THEN 1 ELSE 0
    <2>1. CASE fate[t] # "live"
      <3>1. Owners(t) = {}
        BY <1>1, <2>1 DEF Owners, OwnInv, InHand, Contains
      <3>2. QED
        BY <2>1, <3>1, FS_EmptySet
    <2>2. ASSUME NEW x, Owners(t) = {x}, fate[t] = "live"
          PROVE  Cardinality(Owners(t)) = 1
      BY <2>2, FS_Singleton
    <2>3. ASSUME NEW th \in Threads, arg[th] = t
          PROVE  Owners(t) = {<<"call", th>>}
      <3>1. \A a \in Threads : arg[a] = t <=> a = th
        BY <1>1, <2>3, TaskQueueAssumption DEF OwnInv
      <3>2. InHand(t)
        BY <2>3 DEF InHand
      <3>3. ~Contains(incoming_queue_, t) /\ ~Contains(scheduled, t) /\ current # t
        BY <1>1, <3>2 DEF OwnInv
      <3>4. QED
        BY <3>1, <3>3 DEF Owners, Contains
    <2>4. ASSUME NEW i \in 1..Len(incoming_queue_), incoming_queue_[i] = t
          PROVE  Owners(t) = {<<"incoming", i>>}
      <3>1. DOMAIN incoming_queue_ = 1..Len(incoming_queue_)
        BY LenProperties, <1>1 DEF TypeOK
      <3>2. \A j \in 1..Len(incoming_queue_) : incoming_queue_[j] = t <=> j = i
        BY <1>1, <2>4, <3>1 DEF OwnInv, IsInjective
      <3>3. Contains(incoming_queue_, t)
        BY <2>4 DEF Contains
      <3>4. ~InHand(t) /\ ~Contains(scheduled, t) /\ current # t
        BY <1>1, <3>3 DEF OwnInv
      <3>5. QED
        BY <3>2, <3>4 DEF Owners, Contains, InHand
    <2>5. ASSUME NEW i \in 1..Len(scheduled), scheduled[i] = t
          PROVE  Owners(t) = {<<"scheduled", i>>}
      <3>1. DOMAIN scheduled = 1..Len(scheduled)
        BY LenProperties, <1>1 DEF TypeOK
      <3>2. \A j \in 1..Len(scheduled) : scheduled[j] = t <=> j = i
        BY <1>1, <2>5, <3>1 DEF OwnInv, IsInjective
      <3>3. Contains(scheduled, t)
        BY <2>5 DEF Contains
      <3>4. ~InHand(t) /\ ~Contains(incoming_queue_, t) /\ current # t
        BY <1>1, <3>3 DEF OwnInv
      <3>5. QED
        BY <3>2, <3>4 DEF Owners, Contains, InHand
    <2>6. ASSUME current = t
          PROVE  Owners(t) = {<<"loop", 0>>}
      <3>1. ~InHand(t) /\ ~Contains(incoming_queue_, t) /\ ~Contains(scheduled, t)
        BY <1>1, <2>6 DEF OwnInv
      <3>2. QED
        BY <2>6, <3>1 DEF Owners, Contains, InHand
    <2>7. QED
      BY <1>1, <2>1, <2>2, <2>3, <2>4, <2>5, <2>6 DEF OwnInv, InHand, Contains
  <1>2. TypeOK /\ OwnInv => OneOwner
    BY <1>1 DEF OneOwner
  <1>3. QED
    BY <1>2, Inductive, OwnInductive, PTL
-----------------------------------------------------------------------------
(* The refinement.  The abstract queue is the two queues in line, and the   *)
(* state of a task is read off its owner: each step below is a step of the  *)
(* contract or changes nothing that the contract sees.                      *)

AbstractQueue == scheduled \o incoming_queue_
Open == loop \notin {"shutdown", "gone"}
UnchangedForCallers ==
  /\ \A u \in Tasks : StateOf(u)' = StateOf(u)
  /\ AbstractQueue' = AbstractQueue
  /\ UNCHANGED <<target, now>>
  /\ Open' <=> Open

\* What StateOf says, without its appeal to the guards being exclusive.
StateByOwner(t) ==
  IF fate[t] # "live" THEN fate[t]
  ELSE IF InHand(t) THEN "offered"
  ELSE IF current # t THEN "queued"
  ELSE IF main = "running" THEN "running" ELSE "dropped"

StatesByOwner == \A t \in Tasks : StateOf(t) = StateByOwner(t)

LEMMA StateIs == OwnInv => StatesByOwner
  <1> SUFFICES ASSUME OwnInv, NEW t \in Tasks
               PROVE  StateOf(t) = StateByOwner(t)
    BY DEF StatesByOwner
  <1>1. /\ fate[t] # "live" => ~InHand(t) /\ current # t
        /\ InHand(t) => current # t
    BY DEF OwnInv
  <1>2. CASE fate[t] # "live"
    BY <1>1, <1>2 DEF StateOf, StateByOwner, InHand
  <1>3. CASE fate[t] = "live" /\ InHand(t)
    BY <1>1, <1>3 DEF StateOf, StateByOwner, InHand
  <1>4. CASE fate[t] = "live" /\ ~InHand(t) /\ current = t
    BY <1>4 DEF StateOf, StateByOwner, InHand
  <1>5. CASE fate[t] = "live" /\ ~InHand(t) /\ current # t
    BY <1>5 DEF StateOf, StateByOwner, InHand
  <1>6. QED
    BY <1>2, <1>3, <1>4, <1>5

\* A call of the task runner offers a task, sees it accepted or refused, or
\* does nothing that another caller could tell.
LEMMA CallsRefine ==
  ASSUME TypeOK, IInv, OwnInv, StatesByOwner, StatesByOwner', NEW th \in Threads,
         \/ \E t \in Tasks, time \in 0..MaxTime : Enter(th, t, time)
         \/ Acquire(th) \/ AddTask(th) \/ DelegatePostTask(th) \/ DestroyClosure(th)
         \/ Unlock(th) \/ QueryDelegate(th) \/ QueryReturns(th)
         \/ RunsTasksOnCurrentThread(th)
  PROVE  \/ \E t \in Tasks, time \in 0..MaxTime : Contract!Offer(t, time)
         \/ \E t \in Tasks : Contract!Accept(t) \/ Contract!Refuse(t)
         \/ UnchangedForCallers
  <1> USE TaskQueueAssumption
  <1>1. /\ arg \in [Threads -> Tasks \cup {NoTask}]
        /\ fate \in [Tasks -> {"fresh", "live", "ran", "dropped"}]
        /\ incoming_queue_ \in Seq(Tasks) /\ scheduled \in Seq(Tasks)
        /\ target \in [Tasks -> 0..MaxTime]
    BY DEF TypeOK
  <1>2. ASSUME NEW t \in Tasks, NEW time \in 0..MaxTime, Enter(th, t, time)
        PROVE  Contract!Offer(t, time)
    <2>1. arg[th] = NoTask /\ fate[t] = "fresh"
      BY <1>2 DEF Enter, CanCall, IInv, ArgInv
    <2>2. StateOf(t) = "fresh"
      BY <2>1 DEF StatesByOwner, StateByOwner
    <2>3. \A u \in Tasks : StateOf(u)' = IF u = t THEN "offered" ELSE StateOf(u)
      <3>1. \A u \in Tasks : InHand(u)' <=> InHand(u) \/ u = t
        BY <1>1, <1>2, <2>1 DEF Enter, InHand
      <3>2. QED
        BY <1>1, <1>2, <2>1, <3>1, SMTT(40) DEF Enter, StatesByOwner, StateByOwner, loopVars
    <2>4. QED
      BY <1>1, <1>2, <2>2, <2>3 DEF Enter, Contract!Offer, queueVars, loopVars
  <1>3. ASSUME arg[th] \in Tasks, arg' = [arg EXCEPT ![th] = NoTask], current' = current,
               main' = main
        PROVE  /\ StateOf(arg[th]) = "offered"
               /\ fate' = fate =>
                    \A u \in Tasks : StateOf(u)' = IF u = arg[th] THEN "queued" ELSE StateOf(u)
               /\ fate' = [fate EXCEPT ![arg[th]] = "dropped"] =>
                    \A u \in Tasks : StateOf(u)' = IF u = arg[th] THEN "dropped" ELSE StateOf(u)
    <2>1. InHand(arg[th])
      BY DEF InHand
    <2>2. fate[arg[th]] = "live" /\ current # arg[th]
      BY <1>3, <2>1 DEF OwnInv
    <2>3. \A a \in Threads : arg[a] = arg[th] => a = th
      BY <1>3 DEF OwnInv
    <2>4. StateOf(arg[th]) = "offered"
      BY <1>3, <2>1, <2>2 DEF StatesByOwner, StateByOwner
    <2>5. \A u \in Tasks : InHand(u)' <=> InHand(u) /\ u # arg[th]
      BY <1>1, <1>3, <2>3 DEF InHand
    <2>6. ASSUME fate' = fate, NEW u \in Tasks
          PROVE  StateOf(u)' = IF u = arg[th] THEN "queued" ELSE StateOf(u)
      BY <1>3, <2>1, <2>2, <2>5, <2>6 DEF StatesByOwner, StateByOwner
    <2>7. ASSUME fate' = [fate EXCEPT ![arg[th]] = "dropped"], NEW u \in Tasks
          PROVE  StateOf(u)' = IF u = arg[th] THEN "dropped" ELSE StateOf(u)
      <3>1. fate'[u] = IF u = arg[th] THEN "dropped" ELSE fate[u]
        BY <1>1, <2>7
      <3>2. QED
        BY <1>3, <2>2, <2>5, <3>1 DEF StatesByOwner, StateByOwner
    <2>8. QED
      BY <2>4, <2>6, <2>7
  <1>4. ASSUME AddTaskBuffers(th), UNCHANGED <<loopVars, target, fate, now>>
        PROVE  Contract!Accept(arg[th])
    <2>1. arg[th] \in Tasks
      BY <1>4 DEF AddTaskBuffers, IInv, ArgInv
    <2>2. Open
      BY <1>4 DEF AddTaskBuffers, IInv, LifeInv, TypeOK, Mains, Open
    <2>3. scheduled \o Append(incoming_queue_, arg[th]) = Append(scheduled \o incoming_queue_, arg[th])
      BY <1>1, <2>1, QueuesInLine, SMTT(40)
    <2>4. QED
      BY <1>1, <1>3, <1>4, <2>1, <2>2, <2>3
         DEF AddTaskBuffers, Contract!Accept, loopVars, Open
  <1>5. ASSUME DelegatePostTask(th), loop # "shutdown"
        PROVE  Contract!Accept(arg[th])
    <2>1. arg[th] \in Tasks
      BY <1>5 DEF DelegatePostTask, IInv, ArgInv
    <2>2. Open /\ delegate_ /\ mutex_ = th
      BY <1>5 DEF DelegatePostTask, IInv, LifeInv, LockInv, TypeOK, Mains, Open
    <2>3. main # "init"
      BY <1>5, <2>2 DEF DelegatePostTask, IInv, LockInv, ClientCode, Threads
    <2>4. incoming_queue_ = <<>>
      BY <2>2, <2>3 DEF IInv, LifeInv, NoneStranded, TypeOK, Mains
    <2>5. Append(scheduled, arg[th]) \o <<>> = Append(scheduled \o <<>>, arg[th])
      BY <1>1, <2>1, QueuesInLine, AppendContains
    <2>6. QED
      BY <1>1, <1>3, <1>5, <2>1, <2>2, <2>4, <2>5
         DEF DelegatePostTask, Contract!Accept, queueVars, Open
  <1>6. ASSUME DestroyClosure(th) \/ QueryReturns(th), arg[th] \in Tasks,
               ~(DestroyClosure(th) /\ arg[th] \in Observers)
        PROVE  Contract!Refuse(arg[th])
    <2>1. ~Open
      BY <1>6 DEF DestroyClosure, QueryReturns, IInv, RefusedInv, Open
    <2>2. /\ arg' = [arg EXCEPT ![th] = NoTask]
          /\ fate' = [fate EXCEPT ![arg[th]] = "dropped"]
          /\ UNCHANGED <<queueVars, loopVars, target, now>>
      BY <1>6 DEF DestroyClosure, QueryReturns
    <2>3. QED
      BY <1>3, <1>6, <2>1, <2>2 DEF Contract!Refuse, queueVars, loopVars, Open
  <1>7. ASSUME \/ Acquire(th) \/ Unlock(th) \/ QueryDelegate(th) \/ RunsTasksOnCurrentThread(th)
               \/ AddTaskDrops(th) /\ UNCHANGED <<loopVars, target, fate, now>>
               \/ AddTaskDelegates(th) /\ UNCHANGED <<loopVars, target, fate, now>>
               \/ DelegatePostTask(th) /\ loop = "shutdown"
               \/ DestroyClosure(th) /\ arg[th] \in Observers
               \/ QueryReturns(th) /\ arg[th] = NoTask
        PROVE  UnchangedForCallers
    <2>1. UNCHANGED <<fate, arg, main, current, incoming_queue_, scheduled, loop, target, now>>
      BY <1>1, <1>7 DEF Acquire, Unlock, QueryDelegate, RunsTasksOnCurrentThread,
         AddTaskDrops, AddTaskDelegates, DelegatePostTask, DestroyClosure, QueryReturns,
         queueVars, loopVars
    <2>2. QED
      BY <2>1 DEF UnchangedForCallers, StateOf, AbstractQueue, Open
  <1>8. DestroyClosure(th) => arg[th] \in Tasks
    BY DEF DestroyClosure, IInv, ArgInv
  <1>9. QED
    BY <1>1, <1>2, <1>4, <1>5, <1>6, <1>7, <1>8 DEF AddTask, AddTaskDrops, AddTaskDelegates,
       AddTaskBuffers, DelegatePostTask, IInv, ArgInv

\* The loop thread starts, finishes or discards an accepted task, closes the
\* runner, or does nothing that a caller could tell.
LEMMA LoopRefines ==
  ASSUME TypeOK, IInv, OwnInv, StatesByOwner, StatesByOwner',
         \/ ConstructLoop \/ InitDelegate \/ InitDelegateTransfer \/ InitDelegateReturns
         \/ Run \/ HandleRan \/ QuitNow \/ RunReturns \/ Shutdown \/ HandleCanceled
         \/ ShutdownReturns \/ ClearDelegate \/ DestructorReturns \/ Tick
         \/ \E i \in 1..Len(scheduled) : Dispatch(i) \/ ShutdownCancels(i)
         \/ UNCHANGED vars
  PROVE  \/ \E t \in Tasks : Contract!Start(t) \/ Contract!Finish(t) \/ Contract!Discard(t)
         \/ Contract!Close \/ Contract!Tick
         \/ UnchangedForCallers
  <1> USE TaskQueueAssumption
  <1>1. /\ arg \in [Threads -> Tasks \cup {NoTask}]
        /\ fate \in [Tasks -> {"fresh", "live", "ran", "dropped"}]
        /\ incoming_queue_ \in Seq(Tasks) /\ scheduled \in Seq(Tasks)
    BY DEF TypeOK
  <1>2. ASSUME current = NoTask \/ UNCHANGED main, UNCHANGED <<fate, arg, current>>
        PROVE  \A u \in Tasks : StateOf(u)' = StateOf(u)
    BY <1>2 DEF StatesByOwner, StateByOwner, InHand
  <1>3. current = NoTask => \A u \in Tasks : StateOf(u) # "running"
    BY <1>1 DEF StatesByOwner, StateByOwner
  <1>4. ASSUME \/ ConstructLoop \/ InitDelegate \/ InitDelegateReturns
               \/ Run \/ QuitNow \/ RunReturns \/ ShutdownReturns \/ ClearDelegate
               \/ DestructorReturns \/ UNCHANGED vars
        PROVE  UnchangedForCallers
    <2>1. /\ UNCHANGED <<fate, arg, current, incoming_queue_, scheduled, target, now>>
          /\ current = NoTask \/ UNCHANGED main
      BY <1>4 DEF ConstructLoop, InitDelegate, InitDelegateReturns, Run, QuitNow, RunReturns,
         ShutdownReturns, ClearDelegate, DestructorReturns, At, vars, queueVars, callVars,
         loopVars, IInv, CurrentInv
    <2>2. Open' <=> Open
      BY <1>4 DEF ConstructLoop, InitDelegate, InitDelegateReturns, Run, QuitNow, RunReturns,
         ShutdownReturns, ClearDelegate, DestructorReturns, At, vars, loopVars, IInv, LifeInv,
         Open
    <2>3. QED
      BY <1>2, <2>1, <2>2 DEF UnchangedForCallers, AbstractQueue
  <1>5. ASSUME InitDelegateTransfer
        PROVE  UnchangedForCallers
    <2>1. Append(scheduled, Head(incoming_queue_)) \o Tail(incoming_queue_)
            = scheduled \o incoming_queue_
      BY <1>1, <1>5, QueuesInLine DEF InitDelegateTransfer
    <2>2. QED
      BY <1>2, <1>5, <2>1 DEF InitDelegateTransfer, UnchangedForCallers, AbstractQueue, Open,
         callVars
  <1>6. ASSUME HandleRan \/ HandleCanceled
        PROVE  /\ current \in Tasks
               /\ StateOf(current) = IF main = "running" THEN "running" ELSE "dropped"
               /\ \A u \in Tasks : StateOf(u)' = IF u = current THEN fate'[u] ELSE StateOf(u)
    <2>1. current \in Tasks /\ current' = NoTask /\ UNCHANGED arg
      BY <1>6 DEF HandleRan, HandleCanceled, At, IInv, CurrentInv, TypeOK, callVars
    <2>2. fate[current] = "live" /\ ~InHand(current)
      BY <2>1 DEF OwnInv
    <2>3. \A u \in Tasks : IF u = current THEN fate'[u] # "live" ELSE fate'[u] = fate[u]
      BY <1>1, <1>6, <2>1 DEF HandleRan, HandleCanceled
    <2>4. \A u \in Tasks : InHand(u)' <=> InHand(u)
      BY <2>1 DEF InHand
    <2>5. QED
      BY <2>1, <2>2, <2>3, <2>4 DEF StatesByOwner, StateByOwner
  <1>7. ASSUME HandleRan
        PROVE  Contract!Finish(current)
    <2>1. main = "running" /\ fate'[current] = "ran" /\ UNCHANGED <<scheduled, incoming_queue_, target, now, loop>>
      BY <1>1, <1>6, <1>7 DEF HandleRan, At, queueVars
    <2>2. QED
      BY <1>6, <1>7, <2>1 DEF Contract!Finish
  <1>8. ASSUME HandleCanceled
        PROVE  UnchangedForCallers
    <2>1. main = "freeing" /\ fate'[current] = "dropped" /\ UNCHANGED <<scheduled, incoming_queue_, target, now, loop>>
      BY <1>1, <1>6, <1>8 DEF HandleCanceled, At, queueVars
    <2>2. QED
      BY <1>6, <1>8, <2>1 DEF UnchangedForCallers, AbstractQueue, Open
  <1>9. ASSUME Shutdown
        PROVE  Contract!Close
    <2>1. current = NoTask /\ loop = "runnable" /\ loop' = "shutdown"
      BY <1>9 DEF Shutdown, At, IInv, CurrentInv, LifeInv
    <2>2. \A u \in Tasks : StateOf(u)' = StateOf(u)
      BY <1>2, <1>9, <2>1 DEF Shutdown, callVars
    <2>3. QED
      BY <1>3, <1>9, <2>1, <2>2 DEF Shutdown, Contract!Close, queueVars
  <1>10. ASSUME NEW i \in 1..Len(scheduled), Dispatch(i) \/ ShutdownCancels(i)
        PROVE  /\ scheduled[i] \in Tasks
               /\ current = NoTask /\ incoming_queue_ = <<>> /\ incoming_queue_' = <<>>
               /\ scheduled \o incoming_queue_ = scheduled
               /\ (scheduled \o incoming_queue_)' = Contract!RemoveAt(scheduled, i)
               /\ \A u \in Tasks : StateOf(u)' =
                    IF u = scheduled[i]
                      THEN IF main' = "running" THEN "running" ELSE "dropped"
                      ELSE StateOf(u)
    <2>1. /\ current = NoTask /\ incoming_queue_ = <<>> /\ incoming_queue_' = <<>>
          /\ current' = scheduled[i] /\ scheduled' = RemoveAt(scheduled, i)
          /\ UNCHANGED <<fate, arg>>
      BY <1>10 DEF Dispatch, ShutdownCancels, At, queueVars, callVars, IInv, CurrentInv,
         NoneStranded
    <2>2. scheduled[i] \in Tasks /\ RemoveAt(scheduled, i) \in Seq(Tasks)
      BY <1>1, RemoveAtType
    <2>3. Contains(scheduled, scheduled[i])
      BY DEF Contains
    <2>4. fate[scheduled[i]] = "live" /\ ~InHand(scheduled[i])
      BY <2>2, <2>3 DEF OwnInv
    <2>5. \A u \in Tasks : InHand(u)' <=> InHand(u)
      BY <2>1 DEF InHand
    <2>6. \A u \in Tasks : StateOf(u)' =
            IF u = scheduled[i] THEN IF main' = "running" THEN "running" ELSE "dropped"
            ELSE StateOf(u)
      BY <2>1, <2>2, <2>4, <2>5 DEF StatesByOwner, StateByOwner
    <2>7. Contract!RemoveAt(scheduled, i) = RemoveAt(scheduled, i)
      BY DEF Contract!RemoveAt, RemoveAt
    <2>8. QED
      BY <1>1, <2>1, <2>2, <2>6, <2>7, QueuesInLine
  <1>11. ASSUME NEW i \in 1..Len(scheduled), Dispatch(i)
        PROVE  Contract!Start(scheduled[i])
    <2>1. /\ loop = "runnable" /\ loop' = loop /\ main' = "running" /\ UNCHANGED <<target, now>>
          /\ target[scheduled[i]] <= now
          /\ \A j \in 1..(i - 1) : target[scheduled[j]] # target[scheduled[i]]
      BY <1>11 DEF Dispatch, At
    <2>2. QED
      BY <1>3, <1>10, <1>11, <2>1 DEF Contract!Start
  <1>12. ASSUME NEW i \in 1..Len(scheduled), ShutdownCancels(i)
        PROVE  Contract!Discard(scheduled[i])
    <2>1. loop = "shutdown" /\ loop' = loop /\ main' = "freeing" /\ UNCHANGED <<target, now>>
      BY <1>12 DEF ShutdownCancels, At, IInv, LifeInv
    <2>2. QED
      BY <1>10, <1>12, <2>1 DEF Contract!Discard
  <1>13. ASSUME Tick
        PROVE  Contract!Tick
    <2>1. \A u \in Tasks : StateOf(u)' = StateOf(u)
      BY <1>2, <1>13 DEF Tick, loopVars, callVars
    <2>2. QED
      BY <1>13, <2>1 DEF Tick, Contract!Tick, loopVars, queueVars
  <1>14. QED
    BY <1>4, <1>5, <1>6, <1>7, <1>8, <1>9, <1>10, <1>11, <1>12, <1>13

\* Each step is one of the contract's, or changes nothing that it sees.
LEMMA StepRefines ==
  TypeOK /\ IInv /\ OwnInv /\ OwnInv' /\ [Next]_vars => [Contract!Next]_Contract!vars
  <1> SUFFICES ASSUME TypeOK, IInv, OwnInv, OwnInv', [Next]_vars
               PROVE  [Contract!Next]_Contract!vars
    OBVIOUS
  <1> USE TaskQueueAssumption
  <1>1. StatesByOwner /\ StatesByOwner'
    <2>1. OwnInv' => StatesByOwner'
      BY StateIs, PTL
    <2> QED
      BY <2>1, StateIs
  <1>2. ASSUME UnchangedForCallers
        PROVE  UNCHANGED Contract!vars
    <2>1. [t \in Tasks |-> StateOf(t)]' = [t \in Tasks |-> StateOf(t)]
      BY <1>2 DEF UnchangedForCallers
    <2>2. (scheduled \o incoming_queue_)' = scheduled \o incoming_queue_
      BY <1>2 DEF UnchangedForCallers, AbstractQueue
    <2>3. (loop \notin {"shutdown", "gone"})' = (loop \notin {"shutdown", "gone"})
      BY <1>2 DEF UnchangedForCallers, Open
    <2>4. QED
      BY <1>2, <2>1, <2>2, <2>3 DEF UnchangedForCallers, Contract!vars
  <1>3. QED
    BY <1>1, <1>2, EveryStep, CallsRefine, LoopRefines DEF Contract!Next

\* IncomingTaskQueue and MessageLoop are what ftl::TaskRunner promises: for
\* any threads that post, whatever the loop does meanwhile, a task is accepted
\* until the shutdown, runs at most once and not early, in the order of
\* acceptance per target time, and is destroyed unrun only after it.
THEOREM ImplementsTaskRunner == Spec => ImplementsContract
  <1> USE TaskQueueAssumption
  <1>1. Init => Contract!Init
    <2> SUFFICES ASSUME Init
                 PROVE  Contract!Init
      OBVIOUS
    <2>1. \A t \in Tasks : StateOf(t) = "fresh"
      BY InitOwn, StateIs DEF Init, StatesByOwner, StateByOwner, InHand
    <2>2. <<>> \o <<>> = <<>>
      BY ConcatEmptySeq, EmptySeq
    <2>3. QED
      BY <2>1, <2>2 DEF Init, Contract!Init
  <1>2. QED
    BY <1>1, StepRefines, Inductive, OwnInductive, PTL
       DEF Spec, ImplementsContract, Contract!Spec
-----------------------------------------------------------------------------
(* What the contract means for a task from its post to its end. *)

\* The one task t that a step of the contract is about, seen by callers.
TaskStep(t) ==
  /\ \A u \in Tasks : u # t => StateOf(u)' = StateOf(u)
  /\ \/ /\ StateOf(t) = "fresh" /\ StateOf(t)' = "offered"
        /\ AbstractQueue' = AbstractQueue
        /\ \A u \in Tasks : u # t => target'[u] = target[u]
     \/ /\ StateOf(t) = "offered" /\ StateOf(t)' = "queued"
        /\ AbstractQueue' = Append(AbstractQueue, t) /\ target' = target
     \/ /\ StateOf(t) = "offered" /\ StateOf(t)' = "dropped"
        /\ AbstractQueue' = AbstractQueue /\ target' = target
        /\ ~Open
     \/ /\ StateOf(t) = "queued" /\ StateOf(t)' = "running"
        /\ Open /\ target' = target /\ target[t] <= now
        /\ \A u \in Tasks : StateOf(u) # "running"
        /\ \E i \in 1..Len(AbstractQueue) :
             /\ AbstractQueue[i] = t
             /\ \A j \in 1..(i - 1) : target[AbstractQueue[j]] # target[t]
             /\ AbstractQueue' = RemoveAt(AbstractQueue, i)
     \/ /\ StateOf(t) = "running" /\ StateOf(t)' = "ran"
        /\ AbstractQueue' = AbstractQueue /\ target' = target
     \/ /\ StateOf(t) = "queued" /\ StateOf(t)' = "dropped"
        /\ ~Open /\ target' = target

NoTaskStep ==
  /\ \A u \in Tasks : StateOf(u)' = StateOf(u)
  /\ AbstractQueue' = AbstractQueue
  /\ target' = target

\* The queue holds each accepted task once.
LEMMA QueueIs ==
  ASSUME TypeOK, OwnInv
  PROVE  /\ AbstractQueue \in Seq(Tasks) /\ Len(AbstractQueue) \in Nat
         /\ \A i, j \in 1..Len(AbstractQueue) :
              AbstractQueue[i] = AbstractQueue[j] => i = j
         /\ \A i \in 1..Len(AbstractQueue) : StateOf(AbstractQueue[i]) = "queued"
  <1> DEFINE s == scheduled
             q == incoming_queue_
             n == Len(scheduled)
             m == Len(incoming_queue_)
  <1>1. s \in Seq(Tasks) /\ q \in Seq(Tasks) /\ n \in Nat /\ m \in Nat
    BY LenProperties DEF TypeOK
  <1>2. /\ AbstractQueue \in Seq(Tasks) /\ Len(AbstractQueue) = n + m
        /\ \A i \in 1..(n + m) :
             AbstractQueue[i] = IF i <= n THEN s[i] ELSE q[i - n]
    BY <1>1, ConcatProperties DEF AbstractQueue
  <1>3. /\ \A i, j \in 1..n : s[i] = s[j] => i = j
        /\ \A i, j \in 1..m : q[i] = q[j] => i = j
    BY <1>1, LenProperties DEF OwnInv, IsInjective
  <1>4. /\ \A i \in 1..n : s[i] \in Tasks /\ Contains(s, s[i])
        /\ \A i \in 1..m : q[i] \in Tasks /\ Contains(q, q[i])
    BY <1>1, ElementOfSeq DEF Contains
  <1>5. \A t \in Tasks : ~(Contains(s, t) /\ Contains(q, t))
    BY DEF OwnInv
  <1> HIDE DEF s, q, n, m
  <1>6. ASSUME NEW i \in 1..(n + m)
        PROVE  IF i <= n THEN i \in 1..n ELSE i - n \in 1..m
    BY <1>1
  <1>7. ASSUME NEW i \in 1..(n + m), NEW j \in 1..(n + m),
               AbstractQueue[i] = AbstractQueue[j]
        PROVE  i = j
    <2>1. CASE i <= n /\ j <= n
      BY <1>2, <1>3, <1>6, <1>7, <2>1
    <2>2. CASE ~(i <= n) /\ ~(j <= n)
      <3>1. i - n = j - n
        BY <1>2, <1>3, <1>6, <1>7, <2>2
      <3> QED
        BY <1>1, <3>1
    <2>3. CASE i <= n /\ ~(j <= n)
      BY <1>2, <1>4, <1>5, <1>6, <1>7, <2>3
    <2>4. CASE ~(i <= n) /\ j <= n
      BY <1>2, <1>4, <1>5, <1>6, <1>7, <2>4
    <2> QED
      BY <2>1, <2>2, <2>3, <2>4
  <1>8. ASSUME NEW i \in 1..(n + m)
        PROVE  StateOf(AbstractQueue[i]) = "queued"
    <2> DEFINE t == AbstractQueue[i]
    <2>1. t \in Tasks /\ (Contains(s, t) \/ Contains(q, t))
      BY <1>2, <1>4, <1>6
    <2> HIDE DEF t
    <2>2. fate[t] = "live" /\ ~InHand(t) /\ current # t
      BY <2>1 DEF OwnInv, s, q
    <2>3. StateOf(t) = "queued"
      BY <2>1, <2>2, StateIs DEF StatesByOwner, StateByOwner
    <2> QED
      BY <2>3 DEF t
  <1> QED
    BY <1>1, <1>2, <1>7, <1>8

LEMMA OneTaskAtATime ==
  ASSUME TypeOK, IInv, OwnInv, OwnInv', [Next]_vars
  PROVE  (\E t \in Tasks : TaskStep(t)) \/ NoTaskStep
  <1> DEFINE state == [t \in Tasks |-> StateOf(t)]
  <1>1. Contract!Next \/ UNCHANGED Contract!vars
    BY StepRefines
  <1>2. \A t \in Tasks : state[t] = StateOf(t)
    OBVIOUS
  <1>3. \A t \in Tasks : state'[t] = StateOf(t)'
    OBVIOUS
  <1>4. AbstractQueue = scheduled \o incoming_queue_
    BY DEF AbstractQueue
  <1>5. AbstractQueue' = (scheduled \o incoming_queue_)'
    BY DEF AbstractQueue
  <1>6. CASE UNCHANGED Contract!vars
    BY <1>2, <1>3, <1>4, <1>5, <1>6 DEF Contract!vars, NoTaskStep
  <1>7. CASE Contract!Close \/ Contract!Tick
    BY <1>2, <1>3, <1>4, <1>5, <1>7 DEF Contract!Close, Contract!Tick, NoTaskStep
  <1>8. ASSUME NEW t \in Tasks,
               \/ \E d \in 0..MaxTime : Contract!Offer(t, d)
               \/ Contract!Accept(t) \/ Contract!Refuse(t) \/ Contract!Start(t)
               \/ Contract!Finish(t) \/ Contract!Discard(t)
        PROVE  TaskStep(t)
    <2>1. \A i \in 1..Len(AbstractQueue) : AbstractQueue[i] = t => StateOf(t) = "queued"
      BY QueueIs
    <2> HIDE DEF state
    <2>2. ASSUME NEW v, state' = [state EXCEPT ![t] = v]
          PROVE  /\ StateOf(t)' = v
                 /\ \A u \in Tasks : u # t => StateOf(u)' = StateOf(u)
      <3>1. state \in [Tasks -> {StateOf(u) : u \in Tasks}]
        BY DEF state
      <3> QED
        BY <1>2, <1>3, <2>2, <3>1
    <2>3. CASE \E d \in 0..MaxTime : Contract!Offer(t, d)
      <3>1. PICK d \in 0..MaxTime : Contract!Offer(t, d)
        BY <2>3
      <3>2. /\ state[t] = "fresh" /\ state' = [state EXCEPT ![t] = "offered"]
            /\ target' = [target EXCEPT ![t] = d]
            /\ (scheduled \o incoming_queue_)' = scheduled \o incoming_queue_
        BY <3>1 DEF Contract!Offer, state
      <3> QED
        BY <1>2, <1>4, <1>5, <2>2, <3>2 DEF TaskStep, TypeOK
    <2>4. CASE Contract!Accept(t)
      <3>1. /\ state[t] = "offered" /\ state' = [state EXCEPT ![t] = "queued"]
            /\ target' = target
            /\ (scheduled \o incoming_queue_)' = Append(scheduled \o incoming_queue_, t)
        BY <2>4 DEF Contract!Accept, state
      <3> QED
        BY <1>2, <1>4, <1>5, <2>2, <3>1 DEF TaskStep
    <2>5. CASE Contract!Refuse(t)
      <3>1. /\ state[t] = "offered" /\ state' = [state EXCEPT ![t] = "dropped"]
            /\ target' = target /\ ~Open
            /\ (scheduled \o incoming_queue_)' = scheduled \o incoming_queue_
        BY <2>5 DEF Contract!Refuse, state, Open
      <3> QED
        BY <1>2, <1>4, <1>5, <2>2, <3>1 DEF TaskStep
    <2>6. CASE Contract!Finish(t)
      <3>1. /\ state[t] = "running" /\ state' = [state EXCEPT ![t] = "ran"]
            /\ target' = target
            /\ (scheduled \o incoming_queue_)' = scheduled \o incoming_queue_
        BY <2>6 DEF Contract!Finish, state
      <3> QED
        BY <1>2, <1>4, <1>5, <2>2, <3>1 DEF TaskStep
    <2>7. CASE Contract!Start(t)
      <3>1. /\ state' = [state EXCEPT ![t] = "running"]
            /\ target' = target /\ target[t] <= now /\ Open
            /\ \A u \in Tasks : state[u] # "running"
        BY <2>7 DEF Contract!Start, state, Open
      <3>2. \E i \in 1..Len(AbstractQueue) :
              /\ AbstractQueue[i] = t
              /\ \A j \in 1..(i - 1) : target[AbstractQueue[j]] # target[t]
              /\ AbstractQueue' = RemoveAt(AbstractQueue, i)
        BY <1>4, <1>5, <2>7 DEF Contract!Start, Contract!RemoveAt, RemoveAt
      <3> QED
        BY <1>2, <2>1, <2>2, <3>1, <3>2 DEF TaskStep
    <2>8. CASE Contract!Discard(t)
      <3>1. /\ state' = [state EXCEPT ![t] = "dropped"]
            /\ target' = target /\ ~Open
        BY <2>8 DEF Contract!Discard, state, Open
      <3>2. \E i \in 1..Len(AbstractQueue) : AbstractQueue[i] = t
        BY <1>4, <2>8 DEF Contract!Discard
      <3> QED
        BY <2>1, <2>2, <3>1, <3>2 DEF TaskStep
    <2> QED
      BY <1>8, <2>3, <2>4, <2>5, <2>6, <2>7, <2>8
  <1> QED
    BY <1>1, <1>6, <1>7, <1>8 DEF Contract!Next
\* t has been accepted before u and both still wait for their turn.
Ahead(t, u) ==
  \E i, j \in 1..Len(AbstractQueue) :
    i < j /\ AbstractQueue[i] = t /\ AbstractQueue[j] = u

\* Every step leaves a task where it was or takes it one stage further: a
\* closure that has run is never run again, one that runs comes to its end,
\* and an accepted one is run, alone and not before its time, or deleted
\* when the loop has been shut down.
GoesOn(t) ==
  /\ StateOf(t) \in {"ran", "dropped"} => StateOf(t)' = StateOf(t)
  /\ StateOf(t) = "running" => StateOf(t)' \in {"running", "ran"}
  /\ StateOf(t) = "queued" =>
       \/ StateOf(t)' = "queued"
       \/ /\ StateOf(t)' = "running" /\ Open /\ target[t] <= now
          /\ \A u \in Tasks : StateOf(u) # "running"
       \/ StateOf(t)' = "dropped" /\ ~Open
  /\ StateOf(t) = "offered" => StateOf(t)' \in {"offered", "queued"} \/ ~Open
  /\ StateOf(t) # "fresh" => target'[t] = target[t]

EachTaskOnce == [][\A t \in Tasks : GoesOn(t)]_vars

\* AddTask puts a task behind all those accepted before it, whichever of the
\* two queues they are in, and until the loop is shut down none overtakes an
\* earlier one of its target time: the earlier leaves the queue to be run.
KeepsItsPlace(t, u) ==
  /\ StateOf(t) = "queued" /\ StateOf(u) = "offered" /\ StateOf(u)' = "queued"
       => Ahead(t, u)'
  /\ Ahead(t, u) /\ target[t] = target[u] /\ Open
       => Ahead(t, u)' \/ StateOf(t)' = "running"

FirstComeFirstServed == [][\A t, u \in Tasks : KeepsItsPlace(t, u)]_vars

LEMMA QueuedIsInQueue ==
  ASSUME TypeOK, OwnInv, NEW t \in Tasks, StateOf(t) = "queued"
  PROVE  \E i \in 1..Len(AbstractQueue) : AbstractQueue[i] = t
  <1>1. fate[t] # "queued"
    BY DEF TypeOK
  <1>2. fate[t] = "live" /\ ~InHand(t) /\ current # t
    BY <1>1, StateIs DEF StatesByOwner, StateByOwner
  <1>3. Contains(scheduled, t) \/ Contains(incoming_queue_, t)
    BY <1>2 DEF OwnInv
  <1>4. /\ Len(scheduled) \in Nat /\ Len(incoming_queue_) \in Nat
        /\ Len(AbstractQueue) = Len(scheduled) + Len(incoming_queue_)
        /\ \A i \in 1..(Len(scheduled) + Len(incoming_queue_)) :
             AbstractQueue[i] = IF i <= Len(scheduled) THEN scheduled[i]
                                ELSE incoming_queue_[i - Len(scheduled)]
    BY LenProperties, ConcatProperties DEF AbstractQueue, TypeOK
  <1>5. CASE Contains(scheduled, t)
    <2>1. PICK i \in 1..Len(scheduled) : scheduled[i] = t
      BY <1>5 DEF Contains
    <2>2. QED
      BY <1>4, <2>1
  <1>6. CASE Contains(incoming_queue_, t)
    <2>1. PICK i \in 1..Len(incoming_queue_) : incoming_queue_[i] = t
      BY <1>6 DEF Contains
    <2>2. /\ i + Len(scheduled) \in 1..Len(AbstractQueue)
          /\ AbstractQueue[i + Len(scheduled)]
               = incoming_queue_[(i + Len(scheduled)) - Len(scheduled)]
      BY <1>4, <2>1
    <2>3. (i + Len(scheduled)) - Len(scheduled) = i
      BY <1>4
    <2>4. QED
      BY <2>1, <2>2, <2>3
  <1>7. QED
    BY <1>3, <1>5, <1>6

\* Each closure is run at most once, alone, not early, and not forgotten
\* while there is a loop: MessageLoop::PostTask, OnHandleReady and Shutdown,
\* and the calls of AddTask and InitDelegate that race with them.
THEOREM TasksRunOnce == Spec => EachTaskOnce
  <1>1. ASSUME TypeOK, IInv, OwnInv, OwnInv', [Next]_vars, NEW t \in Tasks
        PROVE  GoesOn(t)
    <2>1. CASE NoTaskStep
      BY <1>1, <2>1 DEF NoTaskStep, GoesOn
    <2>2. ASSUME NEW x \in Tasks, TaskStep(x)
          PROVE  GoesOn(t)
      <3>1. CASE x = t
        BY <2>2, <3>1 DEF TaskStep, GoesOn
      <3>2. CASE x # t
        BY <2>2, <3>2 DEF TaskStep, GoesOn
      <3>3. QED
        BY <3>1, <3>2
    <2>3. QED
      BY <1>1, <2>1, <2>2, OneTaskAtATime
  <1>2. TypeOK /\ IInv /\ OwnInv /\ OwnInv' /\ [Next]_vars
          => [\A t \in Tasks : GoesOn(t)]_vars
    BY <1>1
  <1>3. QED
    BY <1>2, Inductive, OwnInductive, PTL DEF Spec, EachTaskOnce

\* The tasks of one target time are run in the order in which AddTask took
\* them, through incoming_queue_, InitDelegate and the loop's own queue.
THEOREM AcceptedInOrder == Spec => FirstComeFirstServed
  <1>1. ASSUME TypeOK, IInv, OwnInv, OwnInv', [Next]_vars,
               NEW t \in Tasks, NEW u \in Tasks
        PROVE  KeepsItsPlace(t, u)
    <2> DEFINE q == AbstractQueue
               n == Len(AbstractQueue)
    <2>1. /\ q \in Seq(Tasks) /\ n \in Nat
          /\ \A i, j \in 1..n : q[i] = q[j] => i = j
          /\ StateOf(t) = "queued" => \E i \in 1..n : q[i] = t
      BY <1>1, QueueIs, QueuedIsInQueue
    <2>2. Ahead(t, u) <=> \E i, j \in 1..n : i < j /\ q[i] = t /\ q[j] = u
      BY DEF Ahead
    <2>3. Ahead(t, u)' <=> \E i, j \in 1..Len(q') : i < j /\ q'[i] = t /\ q'[j] = u
      BY DEF Ahead
    <2> HIDE DEF n, q
    <2>4. CASE q' = q /\ ~(StateOf(u) = "offered" /\ StateOf(u)' = "queued")
      BY <2>2, <2>3, <2>4 DEF KeepsItsPlace, n, q
    <2>5. ASSUME NEW x \in Tasks, q' = Append(q, x),
                 StateOf(u)' = "queued" /\ StateOf(u) # "queued" => u = x
          PROVE  KeepsItsPlace(t, u)
      <3>1. /\ Len(q') = n + 1 /\ q'[n + 1] = x
            /\ \A i \in 1..n : q'[i] = q[i]
        BY <2>1, <2>5, AppendProperties DEF n, q
      <3>2. QED
        BY <2>1, <2>2, <2>3, <2>5, <3>1 DEF KeepsItsPlace
    <2>6. ASSUME NEW x \in Tasks, NEW i \in 1..n, q[i] = x, q' = RemoveAt(q, i),
                 \A j \in 1..(i - 1) : target[q[j]] # target[x],
                 StateOf(x)' = "running",
                 ~(StateOf(u) = "offered" /\ StateOf(u)' = "queued")
          PROVE  KeepsItsPlace(t, u)
      <3>1. /\ Len(q') = n - 1
            /\ \A j \in 1..(n - 1) : q'[j] = IF j < i THEN q[j] ELSE q[j + 1]
        BY <2>1, <2>6, RemoveAtShape, ZenonT(60) DEF n, q
      <3>2. ASSUME NEW a \in 1..n, NEW b \in 1..n, a < b, q[a] = t, q[b] = u,
                   target[t] = target[u]
            PROVE  Ahead(t, u)' \/ StateOf(t)' = "running"
        <4>1. CASE i = a
          BY <2>6, <3>2, <4>1
        <4>2. i # b
          BY <2>1, <2>6, <3>2
        <4>3. ASSUME NEW k \in 1..n, k # i
              PROVE  LET j == IF k < i THEN k ELSE k - 1
                     IN j \in 1..(n - 1) /\ q'[j] = q[k]
          <5>1. CASE k < i
            BY <2>1, <3>1, <4>3, <5>1
          <5>2. CASE ~(k < i)
            <6>1. k - 1 \in 1..(n - 1) /\ ~(k - 1 < i) /\ (k - 1) + 1 = k
              BY <2>1, <4>3, <5>2
            <6>2. QED
              BY <3>1, <5>2, <6>1
          <5>3. QED
            BY <5>1, <5>2
        <4>4. CASE i # a
          <5> DEFINE A == IF a < i THEN a ELSE a - 1
                     B == IF b < i THEN b ELSE b - 1
          <5>1. A \in 1..(n - 1) /\ q'[A] = t /\ B \in 1..(n - 1) /\ q'[B] = u
            BY <3>2, <4>2, <4>3, <4>4
          <5>2. A < B
            BY <2>1, <3>2, <4>2, <4>4
          <5>3. QED
            BY <2>3, <3>1, <5>1, <5>2
        <4>5. QED
          BY <4>1, <4>4
      <3>3. QED
        BY <2>2, <2>6, <3>2 DEF KeepsItsPlace
    <2>7. CASE NoTaskStep
      BY <2>4, <2>7 DEF NoTaskStep, q
    <2>8. ASSUME NEW x \in Tasks, TaskStep(x)
          PROVE  KeepsItsPlace(t, u)
      <3>1. u # x => StateOf(u)' = StateOf(u)
        BY <2>8 DEF TaskStep
      <3>2. CASE StateOf(x) = "offered" /\ StateOf(x)' = "queued"
        <4>1. q' = Append(q, x)
          BY <2>8, <3>2 DEF TaskStep, q
        <4>2. QED
          BY <2>5, <3>1, <4>1
      <3>3. CASE StateOf(x) = "queued" /\ StateOf(x)' = "running"
        <4>1. PICK i \in 1..n :
                /\ q[i] = x /\ q' = RemoveAt(q, i)
                /\ \A j \in 1..(i - 1) : target[q[j]] # target[x]
          BY <2>8, <3>3 DEF TaskStep, q, n
        <4>2. QED
          BY <2>6, <3>1, <3>3, <4>1
      <3>4. CASE StateOf(x) = "queued" /\ StateOf(x)' = "dropped"
        BY <2>8, <3>1, <3>4 DEF TaskStep, KeepsItsPlace
      <3>5. CASE /\ ~(StateOf(x) = "offered" /\ StateOf(x)' = "queued")
                 /\ StateOf(x) # "queued"
        <4>1. q' = q
          BY <2>8, <3>5 DEF TaskStep, q
        <4>2. QED
          BY <2>4, <3>1, <3>5, <4>1
      <3>6. QED
        BY <2>8, <3>2, <3>3, <3>4, <3>5 DEF TaskStep
    <2>9. QED
      BY <1>1, <2>7, <2>8, OneTaskAtATime
  <1>2. TypeOK /\ IInv /\ OwnInv /\ OwnInv' /\ [Next]_vars
          => [\A t, u \in Tasks : KeepsItsPlace(t, u)]_vars
    BY <1>1
  <1>3. QED
    BY <1>2, Inductive, OwnInductive, PTL DEF Spec, FirstComeFirstServed
-----------------------------------------------------------------------------
(* Thread and CreateThread: the same loop and queue with an owner. *)

\* Whatever Thread, CreateThread and their owner do, the queue and the loop
\* are used as TaskQueue says: every theorem above holds of them too.
THEOREM ThreadsUseTaskQueue == ThreadsSpec => Spec
  <1>1. ThreadsInit => Init
    BY DEF ThreadsInit
  <1>2. [ThreadsNext]_threadsVars => [Next]_vars
    <2>1. Body => ClientStep
      BY DEF Body, ClientStep
    <2>2. RunQuit => ClientStep
      BY DEF RunQuit, ClientStep
    <2>3. PostQuitTask => \E th \in Threads : Call(th)
      BY ThreadsAssumption DEF PostQuitTask, Call, Threads
    <2>4. OwnerStep \/ JoinReturns => UNCHANGED vars
      BY DEF OwnerStep, RunThread, CreateThread, Join, JoinReturns
    <2>5. UNCHANGED threadsVars => UNCHANGED vars
      BY DEF threadsVars
    <2>6. QED
      BY <2>1, <2>2, <2>3, <2>4, <2>5
         DEF ThreadsNext, LoopGoesOn, ThreadsTerminated, Next
  <1>3. QED
    BY <1>1, <1>2, PTL DEF ThreadsSpec, Spec

\* The thread is joined when its loop is dead, and the loop thread uses the
\* task runner only from inside its loop.
JoinInv ==
  /\ thread_ # "none" => ~Anyhow
  /\ thread_ = "joined" => main = "dead"
  /\ ~Anyhow /\ main \notin {"dispatch", "running", "shutdown", "freeing"} =>
       pc[LoopThread] = "idle"

LEMMA JoinPreserved ==
  TypeOK /\ IInv /\ JoinInv /\ [ThreadsNext]_threadsVars => JoinInv'
  <1> SUFFICES ASSUME TypeOK, IInv, JoinInv, [ThreadsNext]_threadsVars
               PROVE  JoinInv'
    OBVIOUS
  <1> DEFINE Inside == {"dispatch", "running", "shutdown", "freeing"}
  <1> USE TaskQueueAssumption, ThreadsAssumption
  <1>1. pc \in [Threads -> CallStates] /\ LoopThread \in Threads
    BY DEF TypeOK, Threads
  <1>2. CASE OwnerStep \/ JoinReturns
    BY <1>2 DEF OwnerStep, RunThread, CreateThread, Join, JoinReturns, JoinInv, Anyhow,
       vars, loopVars, callVars
  <1>3. CASE Body
    BY <1>3 DEF Body, ConstructLoop, Run, Shutdown, At, JoinInv, Anyhow, threadVars, callVars
  <1>4. CASE RunQuit \/ (Tick /\ UNCHANGED threadVars) \/ UNCHANGED threadsVars
    BY <1>4 DEF RunQuit, QuitNow, Tick, threadsVars, threadVars, JoinInv, Anyhow, vars,
       loopVars, callVars
  <1>5. CASE PostQuitTask
    BY <1>1, <1>5 DEF PostQuitTask, PostTask, Enter, threadVars, JoinInv, Anyhow, loopVars
  <1>6. CASE LoopGoesOn
    <2>1. UNCHANGED <<maker, thread_>> /\ LoopStep
      BY <1>6 DEF LoopGoesOn
    <2>2. /\ UNCHANGED pc
          /\ main = "dead" => main' = "dead"
          /\ main \in Inside /\ main' \notin Inside => pc[LoopThread] = "idle"
      BY <2>1 DEF LoopStep, InitDelegate, InitDelegateTransfer, InitDelegateReturns,
         Dispatch, HandleRan, RunReturns, ShutdownCancels, HandleCanceled,
         ShutdownReturns, ClearDelegate, DestructorReturns, At, callVars
    <2>3. QED
      BY <2>1, <2>2 DEF JoinInv, Anyhow
  <1>7. ASSUME NEW th \in Threads, MayCall(th), Call(th), UNCHANGED threadVars
        PROVE  JoinInv'
    <2>1. /\ main' = main
          /\ th # LoopThread => pc'[LoopThread] = pc[LoopThread]
      BY <1>1, <1>7 DEF Call, PostTask, PostTaskForTime, PostDelayedTask, Enter,
         RunsTasksOnCurrentThread, loopVars
    <2>2. QED
      BY <1>7, <2>1 DEF MayCall, JoinInv, Anyhow, threadVars
  <1>8. ASSUME NEW th \in Threads, CallStep(th), UNCHANGED threadVars
        PROVE  JoinInv'
    <2>1. /\ main' = main /\ pc[th] # "idle"
          /\ th # LoopThread => pc'[LoopThread] = pc[LoopThread]
      BY <1>1, <1>8 DEF CallStep, Acquire, AddTask, AddTaskDrops, AddTaskDelegates,
         AddTaskBuffers, DelegatePostTask, DestroyClosure, Unlock, QueryDelegate,
         QueryReturns, loopVars
    <2>2. QED
      BY <1>8, <2>1 DEF JoinInv, Anyhow, threadVars
  <1>9. CASE Anyhow /\ ClientStep /\ UNCHANGED threadVars
    BY <1>9 DEF JoinInv, Anyhow, threadVars
  <1>10. CASE ThreadsTerminated
    BY <1>10 DEF ThreadsTerminated, Terminated, JoinInv, Anyhow, threadVars, vars,
       loopVars, callVars
  <1>11. QED
    BY <1>2, <1>3, <1>4, <1>5, <1>6, <1>7, <1>8, <1>9, <1>10 DEF ThreadsNext

\* Thread::Join gives back a thread that is really done: when it has returned
\* nothing that was posted is left with the loop or its queue.
THEOREM JoinedThreadIsDone == ThreadsSpec => []JoinMeansDone
  <1>1. ThreadsInit => JoinInv
    BY TaskQueueAssumption DEF ThreadsInit, Init, JoinInv, Threads
  <1>2. ThreadsSpec => [](TypeOK /\ IInv /\ OwnInv)
    BY ThreadsUseTaskQueue, Inductive, OwnInductive, PTL
  <1>3. ThreadsSpec => []JoinInv
    BY <1>1, <1>2, JoinPreserved, PTL DEF ThreadsSpec
  <1>4. TypeOK /\ IInv /\ OwnInv /\ JoinInv => JoinMeansDone
    <2> SUFFICES ASSUME TypeOK, IInv, OwnInv, JoinInv, thread_ = "joined"
                 PROVE  /\ loop = "gone" /\ ~delegate_
                        /\ \A t \in Tasks : fate[t] = "live" => \E th \in Posters : arg[th] = t
      BY DEF JoinMeansDone
    <2>1. main = "dead" /\ ~Anyhow /\ pc[LoopThread] = "idle"
      BY DEF JoinInv
    <2>2. loop = "gone" /\ ~delegate_
      BY <2>1 DEF IInv, LifeInv
    <2>3. incoming_queue_ = <<>> /\ scheduled = <<>> /\ current = NoTask
      BY <2>1 DEF IInv, NoneStranded, CurrentInv
    <2>4. \A t : ~Contains(<<>>, t)
      BY EmptySeq DEF Contains
    <2>5. arg[LoopThread] = NoTask
      BY <2>1 DEF IInv, ArgInv, Threads
    <2>6. ASSUME NEW t \in Tasks, fate[t] = "live"
          PROVE  \E th \in Posters : arg[th] = t
      <3>1. InHand(t)
        BY <2>3, <2>4, <2>6, TaskQueueAssumption DEF OwnInv
      <3>2. QED
        BY <2>5, <3>1, TaskQueueAssumption DEF InHand, Threads
    <2>7. QED
      BY <2>2, <2>6
  <1>5. QED
    BY <1>2, <1>3, <1>4, PTL
=============================================================================
