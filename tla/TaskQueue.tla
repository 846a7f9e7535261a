------------------------------ MODULE TaskQueue ------------------------------
(***************************************************************************)
(* internal::IncomingTaskQueue and the half of MessageLoop that schedules, *)
(* runs and destroys tasks, with the threads that use them: one loop       *)
(* thread, which constructs the loop, runs it and destroys it, and any     *)
(* number of posting threads.  The queue is the one object they share; its *)
(* mutex_ is a variable that names the holder, and every critical section  *)
(* is split at the points where another thread or the libasync dispatcher  *)
(* can observe it.                                                         *)
(*                                                                         *)
(* External, modelled from its use in src/: libasync's loop.  Its task     *)
(* list takes a task unless the loop is shut down (MX_ERR_BAD_STATE),      *)
(* dispatches a due task, first come first served among tasks of one       *)
(* deadline, until Quit is called, and on Shutdown hands every task left   *)
(* to its handler with MX_ERR_CANCELED.  Between tasks of different        *)
(* deadlines any order is allowed, which is more than libasync does.       *)
(*                                                                         *)
(* Operators named X_y are faulty variants of X, with which the properties *)
(* below are checked to fail; the specification does not use them.         *)
(***************************************************************************)
EXTENDS Integers, Sequences, FiniteSets, SequencesExt

CONSTANTS Tasks,       \* closures, each posted at most once
          Observers,   \* those whose destructor uses the task runner
          Posters,     \* threads that post, other than the loop's own
          LoopThread,  \* the thread of the message loop
          Queriers,    \* threads that call RunsTasksOnCurrentThread
          Delays,      \* delays given to PostDelayedTask
          MaxTime,     \* bound on the clock and on target times
          NoTask, NoThread

Threads == Posters \cup {LoopThread}

ASSUME TaskQueueAssumption ==
  /\ NoTask \notin Tasks
  /\ NoThread \notin Threads
  /\ LoopThread \notin Posters
  /\ Observers \subseteq Tasks
  /\ Queriers \subseteq Threads
  /\ Delays \subseteq Int
  /\ MaxTime \in Nat

VARIABLES
  mutex_,                \* the thread that holds the queue's mutex
  incoming_queue_,       \* tasks buffered until there is a delegate
  delegate_,             \* whether delegate_ points to the message loop
  drop_incoming_tasks_,
  loop,                  \* state of loop_: "none" before the constructor,
                         \* "gone" once the MessageLoop is destroyed
  scheduled,             \* libasync's list of pending TaskRecords
  is_running_,
  target,                \* target time of each task; 0 is ftl::TimePoint()
  fate,                  \* "live" while some closure object exists
  pc, arg,               \* call in progress of each thread, and its task
  main,                  \* where the loop thread is in the loop's life
  current,               \* task the loop thread runs or destroys
  now

queueVars == <<incoming_queue_, delegate_, drop_incoming_tasks_>>
loopVars  == <<loop, scheduled, is_running_, main, current>>
callVars  == <<pc, arg>>
vars == <<mutex_, queueVars, loopVars, callVars, target, fate, now>>

CallStates == {"idle", "lock", "add", "post", "destroy", "unlock",
               "query_lock", "query", "ask"}
Mains == {"unborn", "init_lock", "init", "outside", "dispatch", "running",
          "shutdown", "freeing", "clear_lock", "clear", "dead"}

TypeOK ==
  /\ mutex_ \in Threads \cup {NoThread}
  /\ incoming_queue_ \in Seq(Tasks)
  /\ delegate_ \in BOOLEAN
  /\ drop_incoming_tasks_ \in BOOLEAN
  /\ loop \in {"none", "runnable", "quit", "shutdown", "gone"}
  /\ scheduled \in Seq(Tasks)
  /\ is_running_ \in BOOLEAN
  /\ target \in [Tasks -> 0..MaxTime]
  /\ fate \in [Tasks -> {"fresh", "live", "ran", "dropped"}]
  /\ pc \in [Threads -> CallStates]
  /\ arg \in [Threads -> Tasks \cup {NoTask}]
  /\ main \in Mains
  /\ current \in Tasks \cup {NoTask}
  /\ now \in 0..MaxTime

Init ==
  /\ mutex_ = NoThread
  /\ incoming_queue_ = <<>>
  /\ delegate_ = FALSE
  /\ drop_incoming_tasks_ = FALSE
  /\ loop = "none"
  /\ scheduled = <<>>
  /\ is_running_ = FALSE
  /\ target = [t \in Tasks |-> 0]
  /\ fate = [t \in Tasks |-> "fresh"]
  /\ pc = [th \in Threads |-> "idle"]
  /\ arg = [th \in Threads |-> NoTask]
  /\ main = "unborn"
  /\ current = NoTask
  /\ now = 0

-----------------------------------------------------------------------------
(* Calls of the task runner, from any thread.  The loop thread makes them  *)
(* wherever client code runs on it: before and after the loop's life,      *)
(* between runs, and from tasks, handlers and destructors.                 *)

ClientCode == Mains \ {"init_lock", "init", "clear_lock", "clear"}

CanCall(th) == pc[th] = "idle" /\ (th = LoopThread => main \in ClientCode)

\* The entry of AddTask: the task is in the caller's hands.
Enter(th, t, time) ==
  /\ CanCall(th)
  /\ fate[t] = "fresh"
  /\ time <= MaxTime
  /\ fate' = [fate EXCEPT ![t] = "live"]
  /\ target' = [target EXCEPT ![t] = time]
  /\ pc' = [pc EXCEPT ![th] = "lock"]
  /\ arg' = [arg EXCEPT ![th] = t]
  /\ UNCHANGED <<mutex_, queueVars, loopVars, now>>

PostTask(th, t) == Enter(th, t, 0)

PostTaskForTime(th, t, time) == Enter(th, t, time)

PostDelayedTask_Unclamped(th, t, delay) == Enter(th, t, now + delay)
PostDelayedTask(th, t, delay) == Enter(th, t, IF delay > 0 THEN now + delay ELSE 0)

\* ftl::MutexLocker's constructor; the mutex is not recursive.
Acquire(th) ==
  /\ pc[th] \in {"lock", "query_lock"}
  /\ mutex_ = NoThread
  /\ mutex_' = th
  /\ pc' = [pc EXCEPT ![th] = IF @ = "lock" THEN "add" ELSE "query"]
  /\ UNCHANGED <<queueVars, loopVars, arg, target, fate, now>>

\* A dropped closure outlives the locker of AddTask: the caller destroys it.
AddTaskDrops_UnderLock(th) ==
  /\ pc[th] = "add"
  /\ drop_incoming_tasks_
  /\ pc' = [pc EXCEPT ![th] = "destroy"]
  /\ UNCHANGED <<mutex_, arg, queueVars>>
AddTaskDrops(th) ==
  /\ pc[th] = "add"
  /\ drop_incoming_tasks_
  /\ mutex_' = NoThread
  /\ pc' = [pc EXCEPT ![th] = "destroy"]
  /\ UNCHANGED <<arg, queueVars>>

AddTaskDelegates(th) ==
  /\ pc[th] = "add"
  /\ ~drop_incoming_tasks_
  /\ delegate_
  /\ pc' = [pc EXCEPT ![th] = "post"]
  /\ UNCHANGED <<mutex_, arg, queueVars>>

AddTaskBuffers(th) ==
  /\ pc[th] = "add"
  /\ ~drop_incoming_tasks_
  /\ ~delegate_
  /\ incoming_queue_' = Append(incoming_queue_, arg[th])
  /\ pc' = [pc EXCEPT ![th] = "unlock"]
  /\ arg' = [arg EXCEPT ![th] = NoTask]
  /\ UNCHANGED <<mutex_, delegate_, drop_incoming_tasks_>>

AddTask(th) ==
  /\ AddTaskDrops(th) \/ AddTaskDelegates(th) \/ AddTaskBuffers(th)
  /\ UNCHANGED <<loopVars, target, fate, now>>

\* MessageLoop::PostTask, called through delegate_: libasync takes the record,
\* or the record and the closure in it are deleted on the spot.
DelegatePostTask(th) ==
  /\ pc[th] = "post"
  /\ IF loop = "shutdown"
       THEN /\ pc' = [pc EXCEPT ![th] = "destroy"]
            /\ UNCHANGED <<scheduled, arg>>
       ELSE /\ scheduled' = Append(scheduled, arg[th])
            /\ pc' = [pc EXCEPT ![th] = "unlock"]
            /\ arg' = [arg EXCEPT ![th] = NoTask]
  /\ UNCHANGED <<mutex_, queueVars, loop, is_running_, main, current, target,
                 fate, now>>

\* The destructor of a refused closure.  An observer's uses the task runner.
DestroyClosure(th) ==
  /\ pc[th] = "destroy"
  /\ IF arg[th] \in Observers
       THEN /\ pc' = [pc EXCEPT ![th] = "query_lock"]
            /\ UNCHANGED <<arg, fate>>
       ELSE /\ fate' = [fate EXCEPT ![arg[th]] = "dropped"]
            /\ arg' = [arg EXCEPT ![th] = NoTask]
            /\ pc' = [pc EXCEPT ![th] = IF mutex_ = th THEN "unlock" ELSE "idle"]
  /\ UNCHANGED <<mutex_, queueVars, loopVars, target, now>>

Unlock(th) ==
  /\ pc[th] = "unlock"
  /\ mutex_' = NoThread
  /\ pc' = [pc EXCEPT ![th] = "idle"]
  /\ UNCHANGED <<queueVars, loopVars, arg, target, fate, now>>

RunsTasksOnCurrentThread(th) ==
  /\ CanCall(th)
  /\ pc' = [pc EXCEPT ![th] = "query_lock"]
  /\ UNCHANGED <<mutex_, queueVars, loopVars, arg, target, fate, now>>

QueryDelegate(th) ==
  /\ pc[th] = "query"
  /\ delegate_
  /\ pc' = [pc EXCEPT ![th] = "ask"]
  /\ UNCHANGED <<mutex_, queueVars, loopVars, arg, target, fate, now>>

\* The delegate, if there is one, has answered, and the lock is released.  When
\* the call came from a closure's destructor, that destructor ends too.
QueryReturns(th) ==
  /\ pc[th] = "ask" \/ (pc[th] = "query" /\ ~delegate_)
  /\ mutex_' = NoThread
  /\ pc' = [pc EXCEPT ![th] = "idle"]
  /\ arg' = [arg EXCEPT ![th] = NoTask]
  /\ fate' = IF arg[th] = NoTask THEN fate ELSE [fate EXCEPT ![arg[th]] = "dropped"]
  /\ UNCHANGED <<queueVars, loopVars, target, now>>
-----------------------------------------------------------------------------
(* The life of the message loop, on its own thread. *)

\* The loop thread moves on only between the calls its client code makes.
At(place) == main = place /\ pc[LoopThread] = "idle"

\* The constructor up to InitDelegate: loop_ exists, g_current is set.
ConstructLoop ==
  /\ At("unborn")
  /\ loop' = "runnable"
  /\ main' = "init_lock"
  /\ UNCHANGED <<mutex_, queueVars, scheduled, is_running_, current, callVars,
                 target, fate, now>>

InitDelegate ==
  /\ At("init_lock")
  /\ mutex_ = NoThread
  /\ mutex_' = LoopThread
  /\ delegate_' = TRUE
  /\ main' = "init"
  /\ UNCHANGED <<incoming_queue_, drop_incoming_tasks_, loop, scheduled,
                 is_running_, current, callVars, target, fate, now>>

\* One turn of InitDelegate's loop over the buffered tasks.
InitDelegateTransfer_Backwards ==
  /\ At("init")
  /\ incoming_queue_ # <<>>
  /\ scheduled' = Append(scheduled, Last(incoming_queue_))
  /\ incoming_queue_' = Front(incoming_queue_)
  /\ UNCHANGED <<mutex_, delegate_, drop_incoming_tasks_, loop, is_running_,
                 main, current, callVars, target, fate, now>>
InitDelegateTransfer ==
  /\ At("init")
  /\ incoming_queue_ # <<>>
  /\ scheduled' = Append(scheduled, Head(incoming_queue_))
  /\ incoming_queue_' = Tail(incoming_queue_)
  /\ UNCHANGED <<mutex_, delegate_, drop_incoming_tasks_, loop, is_running_,
                 main, current, callVars, target, fate, now>>

InitDelegateReturns_Early ==
  /\ At("init")
  /\ mutex_' = NoThread
  /\ main' = "outside"
  /\ UNCHANGED <<queueVars, loop, scheduled, is_running_, current, callVars,
                 target, fate, now>>
InitDelegateReturns_Locked ==
  /\ At("init")
  /\ incoming_queue_ = <<>>
  /\ main' = "outside"
  /\ UNCHANGED <<mutex_, queueVars, loop, scheduled, is_running_, current,
                 callVars, target, fate, now>>
InitDelegateReturns ==
  /\ At("init")
  /\ incoming_queue_ = <<>>
  /\ mutex_' = NoThread
  /\ main' = "outside"
  /\ UNCHANGED <<queueVars, loop, scheduled, is_running_, current, callVars,
                 target, fate, now>>

\* Run may be called again after it returned, never nested (FTL_CHECK).
Run ==
  /\ At("outside")
  /\ is_running_' = TRUE
  /\ main' = "dispatch"
  /\ UNCHANGED <<mutex_, queueVars, loop, scheduled, current, callVars, target,
                 fate, now>>

\* libasync picks a due task, the first scheduled of its deadline.
Dispatch(i) ==
  /\ At("dispatch")
  /\ loop = "runnable"
  /\ i \in 1..Len(scheduled)
  /\ target[scheduled[i]] <= now
  /\ \A j \in 1..(i - 1) : target[scheduled[j]] # target[scheduled[i]]
  /\ current' = scheduled[i]
  /\ scheduled' = RemoveAt(scheduled, i)
  /\ main' = "running"
  /\ UNCHANGED <<mutex_, queueVars, loop, is_running_, callVars, target, fate, now>>

\* TaskRecord::Handle with MX_OK returns: the closure ran and is deleted.
HandleRan ==
  /\ At("running")
  /\ fate' = [fate EXCEPT ![current] = "ran"]
  /\ current' = NoTask
  /\ main' = "dispatch"
  /\ UNCHANGED <<mutex_, queueVars, loop, scheduled, is_running_, callVars,
                 target, now>>

\* From a task, a handler, or code around Run: outside Run it does nothing.
QuitNow_Always ==
  /\ pc[LoopThread] = "idle"
  /\ main \in {"outside", "dispatch", "running", "shutdown", "freeing"}
  /\ loop' = "quit"
  /\ UNCHANGED <<mutex_, queueVars, scheduled, is_running_, main, current,
                 callVars, target, fate, now>>
QuitNow ==
  /\ pc[LoopThread] = "idle"
  /\ main \in {"outside", "dispatch", "running", "shutdown", "freeing"}
  /\ loop' = IF is_running_ THEN "quit" ELSE loop
  /\ UNCHANGED <<mutex_, queueVars, scheduled, is_running_, main, current,
                 callVars, target, fate, now>>

\* loop_.Run() returned: ResetQuit and the end of Run.
RunReturns ==
  /\ At("dispatch")
  /\ loop = "quit"
  /\ loop' = "runnable"
  /\ is_running_' = FALSE
  /\ main' = "outside"
  /\ UNCHANGED <<mutex_, queueVars, scheduled, current, callVars, target, fate, now>>

\* The destructor, up to the first effect of loop_.Shutdown().
Shutdown ==
  /\ At("outside")
  /\ loop' = "shutdown"
  /\ main' = "shutdown"
  /\ UNCHANGED <<mutex_, queueVars, scheduled, is_running_, current, callVars,
                 target, fate, now>>

\* A task left over is handled with MX_ERR_CANCELED: deleted without running.
ShutdownCancels(i) ==
  /\ At("shutdown")
  /\ i \in 1..Len(scheduled)
  /\ current' = scheduled[i]
  /\ scheduled' = RemoveAt(scheduled, i)
  /\ main' = "freeing"
  /\ UNCHANGED <<mutex_, queueVars, loop, is_running_, callVars, target, fate, now>>

HandleCanceled_Leak ==
  /\ At("freeing")
  /\ current' = NoTask
  /\ main' = "shutdown"
  /\ UNCHANGED <<mutex_, queueVars, loop, scheduled, is_running_, callVars,
                 target, fate, now>>
HandleCanceled ==
  /\ At("freeing")
  /\ fate' = [fate EXCEPT ![current] = "dropped"]
  /\ current' = NoTask
  /\ main' = "shutdown"
  /\ UNCHANGED <<mutex_, queueVars, loop, scheduled, is_running_, callVars,
                 target, now>>

ShutdownReturns ==
  /\ At("shutdown")
  /\ scheduled = <<>>
  /\ main' = "clear_lock"
  /\ UNCHANGED <<mutex_, queueVars, loop, scheduled, is_running_, current,
                 callVars, target, fate, now>>

ClearDelegate_Unlocked ==
  /\ At("clear_lock")
  /\ drop_incoming_tasks_' = TRUE
  /\ delegate_' = FALSE
  /\ main' = "clear"
  /\ UNCHANGED <<mutex_, incoming_queue_, loop, scheduled, is_running_, current,
                 callVars, target, fate, now>>
ClearDelegate_KeepsBuffering ==
  /\ At("clear_lock")
  /\ mutex_ = NoThread
  /\ mutex_' = LoopThread
  /\ delegate_' = FALSE
  /\ main' = "clear"
  /\ UNCHANGED <<incoming_queue_, drop_incoming_tasks_, loop, scheduled,
                 is_running_, current, callVars, target, fate, now>>
ClearDelegate ==
  /\ At("clear_lock")
  /\ mutex_ = NoThread
  /\ mutex_' = LoopThread
  /\ drop_incoming_tasks_' = TRUE
  /\ delegate_' = FALSE
  /\ main' = "clear"
  /\ UNCHANGED <<incoming_queue_, loop, scheduled, is_running_, current,
                 callVars, target, fate, now>>

\* ClearDelegate unlocks, and the members of MessageLoop are destroyed.
DestructorReturns ==
  /\ At("clear")
  /\ mutex_' = NoThread
  /\ loop' = "gone"
  /\ main' = "dead"
  /\ UNCHANGED <<queueVars, scheduled, is_running_, current, callVars, target,
                 fate, now>>

Tick ==
  /\ now < MaxTime
  /\ now' = now + 1
  /\ UNCHANGED <<mutex_, queueVars, loopVars, callVars, target, fate>>
-----------------------------------------------------------------------------
Call(th) ==
  \/ \E t \in Tasks :
       \/ PostTask(th, t)
       \/ \E time \in 0..MaxTime : PostTaskForTime(th, t, time)
       \/ \E delay \in Delays : PostDelayedTask(th, t, delay)
  \/ th \in Queriers /\ RunsTasksOnCurrentThread(th)

CallStep(th) ==
  \/ Acquire(th) \/ AddTask(th) \/ DelegatePostTask(th) \/ DestroyClosure(th)
  \/ Unlock(th) \/ QueryDelegate(th) \/ QueryReturns(th)

\* The steps the loop thread takes by itself, and those its client chooses.
LoopStep ==
  \/ InitDelegate \/ InitDelegateTransfer \/ InitDelegateReturns
  \/ \E i \in 1..Len(scheduled) : Dispatch(i)
  \/ HandleRan
  \/ RunReturns
  \/ \E i \in 1..Len(scheduled) : ShutdownCancels(i)
  \/ HandleCanceled \/ ShutdownReturns
  \/ ClearDelegate \/ DestructorReturns

ClientStep == ConstructLoop \/ Run \/ QuitNow \/ Shutdown

WaitsForItself(th) == pc[th] \in {"lock", "query_lock"} /\ mutex_ = th

\* A closure that MessageLoop::PostTask refuses during the shutdown is deleted
\* under the queue's lock, and its destructor waits for that lock, for ever.
SelfDeadlocked(th) == WaitsForItself(th) /\ loop = "shutdown" /\ arg[th] \in Observers

\* Where nothing need go on: all tasks are settled and the loop is gone, or a
\* thread has locked itself out.
Terminated ==
  /\ \/ main = "dead" /\ \A th \in Threads : pc[th] = "idle"
     \/ \E th \in Threads : SelfDeadlocked(th)
  /\ UNCHANGED vars

Next ==
  \/ \E th \in Threads : Call(th) \/ CallStep(th)
  \/ LoopStep
  \/ ClientStep
  \/ Tick
  \/ Terminated

Spec == Init /\ [][Next]_vars

\* A thread takes the mutex.
Locks(th) == Acquire(th) \/ (th = LoopThread /\ (InitDelegate \/ ClearDelegate))

\* Threads inside a call of the runner and the loop thread keep going, a
\* thread that waits for a mutex that is free again and again gets it, and time
\* passes.  What clients choose to do, they need not ever do.
Fairness ==
  /\ \A th \in Threads : WF_vars(CallStep(th)) /\ SF_vars(Locks(th))
  /\ WF_vars(LoopStep)
  /\ WF_vars(Tick)

FairSpec == Spec /\ Fairness
-----------------------------------------------------------------------------
(* Safety *)

Owners(t) ==
  {<<"call", th>> : th \in {th \in Threads : arg[th] = t}}
    \cup {<<"incoming", i>> : i \in {i \in 1..Len(incoming_queue_) : incoming_queue_[i] = t}}
    \cup {<<"scheduled", i>> : i \in {i \in 1..Len(scheduled) : scheduled[i] = t}}
    \cup IF current = t THEN {<<"loop", 0>>} ELSE {}

\* A live closure is in exactly one place: in the hands of one call, in one
\* slot of one of the two queues, or with the loop thread.  It is never lost
\* on the way from AddTask through InitDelegate to its record, never run or
\* deleted twice, and nothing refers to a closure that is gone.
OneOwner ==
  \A t \in Tasks : Cardinality(Owners(t)) = IF fate[t] = "live" THEN 1 ELSE 0

\* A thread that calls through the delegate_ it has read finds the message
\* loop alive: ~MessageLoop cannot get past ClearDelegate under its feet.
DelegateAlive ==
  \A th \in Threads : pc[th] \in {"post", "ask"} => loop \notin {"none", "gone"}

\* Once InitDelegate has let go of the lock no task waits in the buffer,
\* where nobody would look for it again; ~MessageLoop leaves no record behind.
NoneStranded ==
  /\ main \notin {"unborn", "init_lock", "init"} => incoming_queue_ = <<>>
  /\ main \in {"clear_lock", "clear", "dead"} => scheduled = <<>>

\* A quit is requested only of a loop that runs, so the next Run does not
\* return before it has done anything.
NoStaleQuit == loop = "quit" => is_running_

\* No thread waits for the mutex it holds itself: the task runner may be used
\* from wherever client code runs, destructors of tasks included ("This
\* object is threadsafe"; "the message loop's task runner can still be
\* accessed during message loop destruction").
NoSelfDeadlock == \A th \in Threads : ~WaitsForItself(th)

\* What holds of the code: only between loop_.Shutdown() and ClearDelegate,
\* when MessageLoop::PostTask deletes the closure under the queue's lock, can
\* a closure's destructor meet its own lock.  AddTask's early return is safe.
SelfDeadlockOnlyInShutdown ==
  \A th \in Threads :
    WaitsForItself(th) => SelfDeadlocked(th) /\ delegate_

(* The loop and its queue implement what a task runner promises. *)
StateOf(t) ==
  CASE fate[t] # "live" -> fate[t]
    [] \E th \in Threads : arg[th] = t -> "offered"
    [] current = t -> IF main = "running" THEN "running" ELSE "dropped"
    [] OTHER -> "queued"

Contract == INSTANCE TaskRunnerContract WITH
  state <- [t \in Tasks |-> StateOf(t)],
  queue <- scheduled \o incoming_queue_,
  due <- target,
  now <- now,
  open <- loop \notin {"shutdown", "gone"}

\* Whatever the threads do, tasks run once, one at a time, not early, in the
\* order of acceptance per target time, also those posted before there was a
\* loop (message_loop_unittest.cc: CanRunTasksInOrder, CanPreloadTasks), and
\* a task is destroyed unrun only when the loop is shut down.
ImplementsContract == Contract!Spec
-----------------------------------------------------------------------------
(* Liveness, under FairSpec *)

LockedOut == \E th \in Threads : SelfDeadlocked(th)

\* Every call of the task runner returns, whatever the loop and other threads
\* do meanwhile, unless a thread deadlocks with itself: its call does not
\* return, and no call that comes behind it gets the lock.
CallsReturn == \A th \in Threads : pc[th] # "idle" ~> pc[th] = "idle" \/ LockedOut

\* A task that was posted, before the loop existed or since, is run or
\* dropped unless the loop stops running first.
PostedTasksSettle ==
  \A t \in Tasks :
    fate[t] = "live" /\ main \in {"dispatch", "running"}
      ~> fate[t] # "live" \/ main = "outside"

\* ~MessageLoop ends, with posters at work on other threads, and every task
\* that was ever posted has been run or destroyed, unless a thread deadlocks
\* with itself: then ClearDelegate waits for the lock for ever.
DestructionSettles ==
  main = "shutdown" ~> LockedOut \/ (main = "dead" /\ \A t \in Tasks : fate[t] # "live")
=============================================================================
