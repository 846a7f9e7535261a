------------------------------- MODULE Threads -------------------------------
(***************************************************************************)
(* Thread and CreateThread over TaskQueue: a thread whose body constructs  *)
(* a MessageLoop on a queue made by its owner, runs it once and destroys   *)
(* it, and an owner that starts the thread, posts to it and joins it.  The *)
(* owner is one of the posting threads; the others post at any time.       *)
(*                                                                         *)
(* maker says how the thread is made.  Under Anyhow there is no owner and  *)
(* the loop thread's client is as arbitrary as TaskQueue's.                *)
(*                                                                         *)
(* External: ftl::Thread and std::thread.  Run starts the body, Join waits *)
(* for its end.  A thread is started once; its name is left out.           *)
(***************************************************************************)
EXTENDS TaskQueue

CONSTANTS Owner,      \* the thread that starts and joins
          Quits,      \* closures that call QuitNow
          Reposters   \* closures that call PostQuitTask, which posts a Quits

ASSUME ThreadsAssumption ==
  /\ Owner \in Posters
  /\ Quits \subseteq Tasks
  /\ Reposters \subseteq Tasks \ Quits

VARIABLES maker,     \* "Thread", "CreateThread" or "Anyhow"
          thread_,   \* "none", "running", "joining", "joined"
          left       \* the body has returned from MessageLoop::Run

threadVars == <<maker, thread_, left>>
threadsVars == <<vars, threadVars>>

ThreadsInit ==
  /\ Init
  /\ maker \in {"Thread", "CreateThread", "Anyhow"}
  /\ thread_ = "none"
  /\ left = FALSE

Anyhow == maker = "Anyhow"
-----------------------------------------------------------------------------
(* The owner *)

\* Thread::Run.  The task runner exists since the constructor: tasks may have
\* been posted to it.
RunThread ==
  /\ maker = "Thread"
  /\ thread_ = "none"
  /\ pc[Owner] = "idle"
  /\ thread_' = "running"
  /\ UNCHANGED <<vars, maker, left>>

\* The caller has the task runner only when the thread has started.
CreateThread ==
  /\ maker = "CreateThread"
  /\ thread_ = "none"
  /\ thread_' = "running"
  /\ UNCHANGED <<vars, maker, left>>

Join ==
  /\ thread_ = "running"
  /\ pc[Owner] = "idle"
  /\ thread_' = "joining"
  /\ UNCHANGED <<vars, maker, left>>

JoinReturns ==
  /\ thread_ = "joining"
  /\ main = "dead"
  /\ thread_' = "joined"
  /\ UNCHANGED <<vars, maker, left>>

\* Who has the task runner and is not blocked; the loop thread has no code of
\* its own around its loop.
MayCall(th) ==
  \/ Anyhow
  \/ /\ th = Owner => thread_ # "joining"
     /\ th = LoopThread => main \in {"dispatch", "running", "shutdown", "freeing"}
     /\ maker = "CreateThread" => thread_ # "none"

OwnerStep == RunThread \/ CreateThread \/ Join
-----------------------------------------------------------------------------
(* The body: Thread::Main, RunMessageLoop *)

Body_RunsAgain ==
  /\ ~Anyhow
  /\ thread_ # "none"
  /\ ConstructLoop \/ Run \/ (left /\ Shutdown)
  /\ UNCHANGED threadVars
Body ==
  /\ ~Anyhow
  /\ thread_ # "none"
  /\ ConstructLoop \/ (~left /\ Run) \/ (left /\ Shutdown)
  /\ UNCHANGED threadVars

\* What the closures do while they run.
RunQuit ==
  /\ ~Anyhow
  /\ main = "running" /\ current \in Quits
  /\ QuitNow
  /\ UNCHANGED threadVars

PostQuitTask ==
  /\ ~Anyhow
  /\ main = "running" /\ current \in Reposters
  /\ \E quit \in Quits : PostTask(LoopThread, quit)
  /\ UNCHANGED threadVars

BodyDone ==
  /\ current \in Quits => loop = "quit"
  /\ current \in Reposters => \E quit \in Quits : fate[quit] # "fresh"

\* LoopStep, where a closure returns only when it has done what it does.
LoopGoesOn ==
  /\ LoopStep
  /\ main = "running" => (Anyhow \/ BodyDone)
  /\ left' = (left \/ (main = "dispatch" /\ main' = "outside"))
  /\ UNCHANGED <<maker, thread_>>

ThreadsTerminated == Terminated /\ UNCHANGED threadVars

ThreadsNext ==
  \/ OwnerStep \/ JoinReturns \/ Body \/ RunQuit \/ PostQuitTask \/ LoopGoesOn
  \/ \E th \in Threads :
       /\ (MayCall(th) /\ Call(th)) \/ CallStep(th)
       /\ UNCHANGED threadVars
  \/ Anyhow /\ ClientStep /\ UNCHANGED threadVars
  \/ Tick /\ UNCHANGED threadVars
  \/ ThreadsTerminated

ThreadsSpec == ThreadsInit /\ [][ThreadsNext]_threadsVars

\* As in TaskQueue; and a started thread executes its body, its closures and
\* the join that waits for it.
ThreadsFairness ==
  /\ \A th \in Threads :
       /\ WF_threadsVars(CallStep(th) /\ UNCHANGED threadVars)
       /\ SF_threadsVars(Locks(th) /\ UNCHANGED threadVars)
  /\ WF_threadsVars(LoopGoesOn)
  /\ WF_threadsVars(Tick /\ UNCHANGED threadVars)
  /\ WF_threadsVars(Body \/ RunQuit \/ PostQuitTask)
  /\ WF_threadsVars(JoinReturns)

FairThreads == ThreadsSpec /\ ThreadsFairness
-----------------------------------------------------------------------------
\* When Join has returned, the thread's loop is gone and owes nobody
\* anything: every closure posted by then has run or been destroyed, but for
\* those another thread is just having refused.
JoinMeansDone ==
  thread_ = "joined" =>
    /\ loop = "gone"
    /\ ~delegate_
    /\ \A t \in Tasks : fate[t] = "live" => \E th \in Posters : arg[th] = t

\* One task that quits, posted before the thread runs, while it starts, or
\* while it is joined, from outside or by another task, is enough for Join to
\* return (thread_unittest.cc: Control; create_thread_unittest.cc), unless a
\* thread that posts during the shutdown deadlocks with itself.
JoinEnds ==
  thread_ = "joining" /\ (\E t \in Quits \cup Reposters : fate[t] \notin {"fresh", "dropped"})
    ~> thread_ = "joined" \/ LockedOut
=============================================================================
