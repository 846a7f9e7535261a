------------------------- MODULE MessageLoopPrograms -------------------------
(***************************************************************************)
(* Whole programs on one MessageLoop: the tests of                         *)
(* src/tasks/message_loop_unittest.cc, each a program of its own whose     *)
(* assertions must hold in every order libasync and the kernel may choose, *)
(* and, under the name Anything, the arbitrary client of MessageLoop.      *)
(* Tasks and handlers are composed here: tasks is what IncomingTaskQueue   *)
(* and libasync hold between them, in the order of their deadlines.        *)
(*                                                                         *)
(* A script is a sequence of statements.  main is what remains of the test *)
(* body, script what remains of the callback that the loop is calling.     *)
(* log is what the test's own counters and vectors record.                 *)
(*                                                                         *)
(* Mocks that only count, gtest and the statuses passed to OnHandleError   *)
(* are left out; so are the tests of GetCurrent and of FDWaiter.           *)
(***************************************************************************)
EXTENDS MessageLoop, FiniteSets

CONSTANTS Anything,   \* the program that does anything
          MaxLog      \* log keeps the first MaxLog entries

ASSUME ProgramsAssumption == MaxLog \in Nat

VARIABLES program, main, script, tasks, log

programVars == <<main, script, tasks, log>>
allVars == <<vars, program, programVars>>
-----------------------------------------------------------------------------
(* Statements *)

Say(entry) == [call |-> "Say", entry |-> entry]
Add(timeout) == [call |-> "AddHandler", timeout |-> timeout]
RemoveKey(key) == [call |-> "RemoveHandler", key |-> key]
Call(name) == [call |-> name]

\* A closure: its body and, what runs when it is deleted, its destructor.
Task(run, destructor) == [run |-> run, destructor |-> destructor, delayed |-> FALSE]
Post(run) == [call |-> "PostTask", task |-> Task(run, <<>>)]
PostObserver(run, destructor) == [call |-> "PostTask", task |-> Task(run, destructor)]
PostDelayed(run) ==
  [call |-> "PostTask", task |-> [Task(run, <<>>) EXCEPT !.delayed = TRUE]]
PostQuitTask == Post(<<Call("QuitNow")>>)

ExpectLog(entries) == [call |-> "ExpectLog", log |-> entries]
ExpectCount(entry, n) == [call |-> "ExpectCount", entry |-> entry, n |-> n]
ExpectRunsTasks == [call |-> "ExpectRunsTasks"]
ExpectHandler(key, present) == [call |-> "ExpectHandler", key |-> key, present |-> present]
-----------------------------------------------------------------------------
(* The programs.  readable: keys whose object asserts its trigger. *)

Program(statements) ==
  [preload   |-> <<>>,
   main      |-> statements,
   onReady   |-> [key \in Keys |-> <<Say("ready")>>],
   onError   |-> [key \in Keys |-> <<Say("error")>>],
   afterTask |-> <<>>,
   readable  |-> {}]

Ran == <<ExpectCount("ran", 0), Say("ran"), Call("QuitNow")>>

CanRunTasks ==
  Program(<<Post(Ran), Call("Run"), ExpectCount("ran", 1), Call("Destroy")>>)

CanPostTasksFromTasks ==
  Program(<<Post(<<Post(Ran)>>), Call("Run"), ExpectCount("ran", 1), Call("Destroy")>>)

TriplyNestedTasks ==
  LET three == <<Say("three"), Call("QuitNow")>>
      two   == <<Say("two"), Post(three)>>
      one   == <<Say("one"), Post(two)>>
  IN  Program(<<Post(one), Call("Run"), ExpectLog(<<"one", "two", "three">>),
                Call("Destroy")>>)

CanRunTasksInOrder ==
  Program(<<Post(<<Say("0")>>), Post(<<Say("1")>>), PostQuitTask, Post(<<Say("2")>>),
            Call("Run"), ExpectLog(<<"0", "1">>), Call("Destroy")>>)

CanPreloadTasks ==
  [Program(<<Call("Run"), ExpectCount("ran", 1), Call("Destroy")>>)
     EXCEPT !.preload = <<Task(Ran, <<>>)>>]

AfterTaskCallbacks ==
  [Program(<<Call("SetAfterTaskCallback"), Post(<<Say("0")>>), Post(<<Say("1")>>),
             PostQuitTask, Post(<<Say("2")>>), Call("Run"),
             ExpectLog(<<"0", "callback", "1", "callback", "callback">>), Call("Destroy")>>)
     EXCEPT !.afterTask = <<Say("callback")>>]

RemoveAfterTaskCallbacksDuringCallback ==
  [Program(<<Call("SetAfterTaskCallback"), Post(<<Say("0")>>), Post(<<Say("1")>>),
             PostQuitTask, Call("Run"), ExpectLog(<<"0", "callback", "1">>),
             Call("Destroy")>>)
     EXCEPT !.afterTask = <<Say("callback"), Call("ClearAfterTaskCallback")>>]

TaskDestructionTime ==
  LET observer == PostObserver(<<>>, <<Say("destroyed")>>)
  IN  Program(<<PostQuitTask, Call("Run"), observer, ExpectCount("destroyed", 0),
                Call("Destroy"), ExpectCount("destroyed", 1),
                observer, ExpectCount("destroyed", 2)>>)

CanQuitCurrent ==
  Program(<<Post(<<Say("ran"), Call("QuitNow")>>), Call("Run"), ExpectCount("ran", 1),
            Call("Destroy")>>)

CanQuitManyTimes ==
  Program(<<Call("QuitNow"), Call("QuitNow"), PostQuitTask, Call("Run"),
            Call("QuitNow"), Call("QuitNow"), Call("Destroy")>>)

QuitFromReady ==
  [Program(<<Add(FALSE), Call("Run"), ExpectLog(<<"ready">>), ExpectHandler(1, TRUE),
             Call("Destroy")>>)
     EXCEPT !.readable = {1},
            !.onReady[1] = <<Call("QuitNow"), Say("ready")>>]

RemoveOnReady == <<ExpectHandler(1, TRUE), RemoveKey(1), Say("ready"), PostQuitTask>>

HandleReady ==
  [Program(<<Add(FALSE), Call("Run"), ExpectLog(<<"ready">>), ExpectHandler(1, FALSE),
             Call("Destroy")>>)
     EXCEPT !.readable = {1}, !.onReady[1] = RemoveOnReady]

AfterHandleReadyCallback ==
  [Program(<<Add(FALSE), Call("SetAfterTaskCallback"), Call("Run"), ExpectCount("ready", 1),
             ExpectCount("error", 0), ExpectCount("callback", 2), ExpectHandler(1, FALSE),
             Call("Destroy")>>)
     EXCEPT !.readable = {1}, !.onReady[1] = RemoveOnReady,
            !.afterTask = <<Say("callback")>>]

AfterDeadlineExpiredCallback ==
  [Program(<<Add(TRUE), PostDelayed(<<Call("QuitNow")>>), Call("SetAfterTaskCallback"),
             Call("Run"), ExpectCount("callback", 2), Call("Destroy")>>)
     EXCEPT !.afterTask = <<Say("callback")>>]

QuitWhenDeadlineExpired ==
  [Program(<<Add(TRUE), Call("Run"), ExpectLog(<<"error">>), ExpectHandler(1, FALSE),
             Call("Destroy")>>)
     EXCEPT !.onError[1] = <<Call("QuitNow"), Say("error")>>]

Destruction == Program(<<Add(FALSE), Call("Destroy"), ExpectLog(<<"error">>)>>)

MultipleHandleDestruction ==
  LET odd == <<RemoveKey(1), RemoveKey(3), Say("odd error")>>
  IN  [Program(<<Add(FALSE), Add(FALSE), Add(FALSE), Call("Destroy"),
                 ExpectCount("odd error", 1), ExpectCount("error", 1)>>)
         EXCEPT !.onError[1] = odd, !.onError[3] = odd]

AddHandlerOnError ==
  [Program(<<Add(FALSE), Call("Destroy"), ExpectLog(<<"error">>)>>)
     EXCEPT !.onError = [key \in Keys |-> <<Add(FALSE), Say("error")>>]]

TaskRunnerAvailableDuringLoopDestruction ==
  LET fromHandler == PostObserver(<<Say("ran")>>, <<Say("from handler destroyed")>>)
      fromTask    == PostObserver(<<Say("ran")>>, <<Say("from task destroyed")>>)
      destroyed   == <<Say("destroyed"), ExpectRunsTasks, fromTask>>
  IN  [Program(<<PostObserver(<<>>, destroyed), Add(FALSE),
                 Call("Destroy"), ExpectCount("error", 1), ExpectCount("ran", 0),
                 ExpectCount("from handler destroyed", 1), ExpectCount("destroyed", 1),
                 ExpectCount("from task destroyed", 1)>>)
         EXCEPT !.onError[1] = <<Say("error"), ExpectRunsTasks, fromHandler>>]

Programs ==
  <<CanRunTasks, CanPostTasksFromTasks, TriplyNestedTasks, CanRunTasksInOrder,
    CanPreloadTasks, AfterTaskCallbacks, RemoveAfterTaskCallbacksDuringCallback,
    TaskDestructionTime, CanQuitCurrent, CanQuitManyTimes, QuitFromReady, HandleReady,
    AfterHandleReadyCallback, AfterDeadlineExpiredCallback, QuitWhenDeadlineExpired,
    Destruction, MultipleHandleDestruction, AddHandlerOnError,
    TaskRunnerAvailableDuringLoopDestruction>>

The(p) == IF p = Anything
          THEN [Program(<<>>) EXCEPT !.onReady = [key \in Keys |-> <<>>],
                                     !.onError = [key \in Keys |-> <<>>],
                                     !.readable = Keys]
          ELSE Programs[p]
-----------------------------------------------------------------------------
\* The constructor drains a queue that was filled before the loop existed.
ProgramInit ==
  /\ Init
  /\ program \in {Anything} \cup DOMAIN Programs
  /\ main = The(program).main
  /\ script = <<>>
  /\ tasks = The(program).preload
  /\ log = <<>>

\* The statements of the code that has control, none while libasync has it.
Control ==
  CASE context \in {"outside", "dead"} -> main
    [] context \in {"dispatch", "shutdown"} -> <<>>
    [] OTHER -> script

At(call) == Control # <<>> /\ Head(Control).call = call
Now == Head(Control)

Continue(statements) ==
  IF context \in {"outside", "dead"}
    THEN main' = statements /\ UNCHANGED script
    ELSE script' = statements /\ UNCHANGED main

Step == Continue(Tail(Control)) /\ UNCHANGED <<program, tasks, log>>

CallAddHandler ==
  /\ At("AddHandler")
  /\ AddHandler(Now.timeout) \/ AddHandlerSuppressed
  /\ Step

\* An unknown key is ignored.
CallRemoveHandler ==
  /\ At("RemoveHandler")
  /\ \/ RemoveHandler(Now.key)
     \/ Now.key \notin handlers_ /\ UNCHANGED vars
  /\ Step

\* Quitting a loop that does not run is ignored.
CallQuitNow ==
  /\ At("QuitNow")
  /\ QuitNow \/ (~is_running_ /\ UNCHANGED vars)
  /\ Step

CallCallbackSetters ==
  /\ \/ At("SetAfterTaskCallback") /\ SetAfterTaskCallback
     \/ At("ClearAfterTaskCallback") /\ ClearAfterTaskCallback
  /\ Step

CallRun == At("Run") /\ Run /\ Step
CallDestroy == At("Destroy") /\ Destroy /\ Step

\* Once the loop is shut down a closure is deleted by the call that posts it:
\* by MessageLoop::PostTask, or by a queue that drops what comes in.
CallPostTask_Late ==
  /\ At("PostTask")
  /\ tasks' = Append(tasks, Now.task)
  /\ Continue(Tail(Control))
  /\ UNCHANGED <<vars, program, log>>
CallPostTask ==
  /\ At("PostTask")
  /\ IF loop = "shutdown"
       THEN Continue(Now.task.destructor \o Tail(Control)) /\ UNCHANGED tasks
       ELSE Continue(Tail(Control)) /\ tasks' = Append(tasks, Now.task)
  /\ UNCHANGED <<vars, program, log>>

CallSay ==
  /\ At("Say")
  /\ log' = IF Len(log) < MaxLog THEN Append(log, Now.entry) ELSE log
  /\ Continue(Tail(Control))
  /\ UNCHANGED <<vars, program, tasks>>

Expect ==
  /\ At("ExpectLog") \/ At("ExpectCount") \/ At("ExpectHandler") \/ At("ExpectRunsTasks")
  /\ Step
  /\ UNCHANGED vars

Statement ==
  \/ CallAddHandler \/ CallRemoveHandler \/ CallQuitNow \/ CallCallbackSetters
  \/ CallRun \/ CallDestroy \/ CallPostTask \/ CallSay \/ Expect

ArbitraryClient == program = Anything /\ Client /\ UNCHANGED <<program, programVars>>

\* A callback returns when its statements are done.
CallbackReturns ==
  /\ script = <<>>
  /\ Returns
  /\ script' = IF context' = "epilogue" THEN The(program).afterTask ELSE <<>>
  /\ UNCHANGED <<program, main, tasks, log>>

Enter(statements) == script' = statements /\ UNCHANGED <<program, main, tasks, log>>

\* libasync keeps tasks and timeouts in the order of their deadlines; the
\* delayed task here is due after every handler's timeout.
TakeTask ==
  /\ RunTask
  /\ IF program = Anything
       THEN UNCHANGED <<script, tasks>>
       ELSE /\ tasks # <<>>
            /\ Head(tasks).delayed => deadline \cap waits = {}
            /\ script' = Head(tasks).run \o Head(tasks).destructor
            /\ tasks' = Tail(tasks)
  /\ UNCHANGED <<program, main, log>>

DeleteTask ==
  /\ ShutdownDeletesTask
  /\ IF program = Anything
       THEN UNCHANGED <<script, tasks>>
       ELSE tasks # <<>> /\ script' = Head(tasks).destructor /\ tasks' = Tail(tasks)
  /\ UNCHANGED <<program, main, log>>

CallReady == DispatchReady /\ Enter(The(program).onReady[current_handler_'])
CallTimeout ==
  /\ \E key \in Keys : DispatchTimeout(key)
  /\ Enter(The(program).onError[current_handler_'])
CallCanceled ==
  /\ \E key \in Keys : ShutdownCancels(key)
  /\ Enter(The(program).onError[current_handler_'])

Signal ==
  /\ \E key \in The(program).readable : Trigger(key)
  /\ UNCHANGED <<program, programVars>>

LoopReturns == RunReturns /\ UNCHANGED <<program, programVars>>
DestructorReturns == tasks = <<>> /\ DestroyReturns /\ UNCHANGED <<program, programVars>>

Ended == context = "dead" /\ main = <<>> /\ UNCHANGED allVars

ProgramStep ==
  \/ Statement \/ CallbackReturns
  \/ TakeTask \/ CallReady \/ CallTimeout \/ Signal \/ LoopReturns
  \/ CallCanceled \/ DeleteTask \/ DestructorReturns

ProgramNext == ProgramStep \/ ArbitraryClient \/ Ended

ProgramSpec == ProgramInit /\ [][ProgramNext]_allVars

\* As in MessageLoop; and a given program takes a step while it has one: its
\* objects are signalled from the start, its timeouts elapse.
ProgramFairness ==
  /\ WF_allVars(CallbackReturns)
  /\ SF_allVars(CallReady)
  /\ WF_allVars(LoopReturns)
  /\ SF_allVars(CallCanceled)
  /\ SF_allVars(DestructorReturns)
  /\ WF_allVars(program # Anything /\ ProgramStep)

FairPrograms == ProgramSpec /\ ProgramFairness
-----------------------------------------------------------------------------
HasHandler(key) == key \in handlers_

\* All client code here is on the loop's thread: what counts is the delegate,
\* which ClearDelegate takes away when loop_.Shutdown() is done.
RunsTasksOnCurrentThread == context # "dead"

\* The assertions of message_loop_unittest.cc hold wherever control reaches
\* one, whatever the order in which tasks, signals, timeouts and cancellations
\* are delivered.
ExpectationsMet ==
  /\ At("ExpectLog") => log = Now.log
  /\ At("ExpectCount") =>
       Cardinality({i \in 1..Len(log) : log[i] = Now.entry}) = Now.n
  /\ At("ExpectHandler") => (HasHandler(Now.key) = Now.present)
  /\ At("ExpectRunsTasks") => RunsTasksOnCurrentThread

\* Every test ends: the loop it runs is left, the loop it destroys is
\* destroyed, and the statements after them are reached.
ProgramsEnd == program # Anything ~> context = "dead" /\ main = <<>>
=============================================================================
