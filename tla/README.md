# A verification development for mtl

`mtl` is the support library that couples a C++ program to the kernel and to
`libasync`: a message loop with its task queue and handlers, threads that run
one, and small clients of the loop (file descriptor waiters, the default FIDL
async waiter, socket drainers and copies, directory watchers, a VFS
dispatcher, shared VMOs).  This directory models it in TLA+, checks the models
with TLC on small instances, and proves with TLAPS, for every value of the
constants, their invariants, what a step of them may never do, and that the loop
implements its contracts.

`PROJECT.json` is the index: components, runs, the faulty variants each
property is checked against, the source lines each definition stands for, the
hazards and the theorems.  Source paths below are relative to the repository.

## 1. Inventory

### IncomingTaskQueue (`tasks/incoming_task_queue.*`)
- *State*: `mutex_`, `incoming_queue_` (tasks posted before there is a loop),
  `delegate_` (the loop, once there is one), `drop_incoming_tasks_`.
- *Operations*: `PostTask`, `PostTaskForTime`, `PostDelayedTask`, all through
  `AddTask`; `RunsTasksOnCurrentThread`; `InitDelegate`, `ClearDelegate`.
- *Interactions*: called by any thread; calls the loop through
  `TaskQueueDelegate`, **with its mutex held**; the loop's constructor and
  destructor call it.
- *Hard*: three regimes (buffer, delegate, drop) switched while other threads
  post; the delegate's life; closures whose destructors run arbitrary code.
- *Correct when*: no task is lost, duplicated, stranded in the buffer or run
  out of order; the delegate is never called after its destruction; calls
  return.

### MessageLoop (`tasks/message_loop.*`, `tasks/message_loop_handler.*`)
- *State*: `loop_` (libasync), the task queue, `handlers_` and
  `next_handler_key_`, `current_handler_`, `current_handler_removed_`,
  `is_running_`, `after_task_callback_`; `TaskRecord`s and `HandlerRecord`s
  owned jointly with libasync.
- *Operations*: construction, `Run`, `QuitNow`, `PostQuitTask`, `PostTask` (as
  delegate), `AddHandler`, `RemoveHandler`, `HasHandler`,
  `Set/ClearAfterTaskCallback`, `TaskRecord::Handle`,
  `HandlerRecord::Handle`, `Epilogue`, destruction.
- *Interactions*: libasync calls it back; it calls tasks, handlers and the
  after-task callback, and each of these may call it again.
- *Hard*: re-entrancy (a handler removes itself, another one, or adds one,
  from `OnHandleReady`, from `OnHandleError`, from the after-task callback,
  from a task destroyed at shutdown); packets already queued for a handler
  that is removed; destruction while clients still post and register.
- *Correct when*: records neither dangle nor leak, a handler is called only
  while registered and never after its error, tasks run once and in order,
  the destructor ends and leaves nothing.

### Threads (`threading/*`)
`CreateThread` and `Thread` make a queue first and construct, run and destroy
the loop on a new thread, so the queue lives through all three regimes.
- *State*: `running_`, the queue (`Thread`), the thread's own place.
- *Hard*: the owner and others post before the thread runs, while it starts
  and while it is joined.
- *Correct when*: one quit, wherever it falls, is enough for `Join` to return,
  and nothing of the thread is left when it has.

### Clients of the loop
- `FDWaiter` (`tasks/fd_waiter.*`): a one-shot wait on a descriptor; state
  `io_`, `key_`, `callback_`.  Hard: the callback may start the next wait or
  delete the waiter.
- Default async waiter (`waiter/default.cc`): one `HandleWatcher` per wait,
  which deletes itself before it calls back.
- `SocketDrainer` (`socket/socket_drainer.*`): `source_`, `wait_id_`,
  `destruction_sentinel_`.  Hard: the client may destroy the drainer from
  `OnDataAvailable`.
- File copies (`socket/files.*`): `CopyToFileHandler`, `CopyFromFileHandler`
  alternate between posted steps and waits and delete themselves before the
  callback.  Hard: partial writes, the end of the loop in the middle.
- Blocking helpers (`socket/blocking_drain.*`, `socket/strings.*`): loops over
  read or write and `wait_one`.  Hard: what each takes for the end of the
  other side, and for success; who waits for whom.
- `DeviceWatcher` (`io/device_watcher.*`): parses watch messages and calls
  back per name.  Hard: the callback may destroy the watcher mid-message; the
  arithmetic of the parser.
- VFS dispatcher (`vfs/*`): a set of `VFSHandler`s, each deleted by the
  dispatcher from its own loop callback.  Hard: a connection is closed once
  on whichever of five ways it ends; connections come while one is served.
- `SharedVmo` (`vmo/shared_vmo.*`): `vmo_`, `map_flags_`, `mapping_`, counted
  references.  Hard: threads map, copy and release references at once.
- VMO containers (`vmo/vmo.*`, `vmo/file.*`, `vmo/strings.*`,
  `vmo/vector.*`): a VMO from a container or file, and back.  Hard: partial
  transfers; the size may change between two system calls.
- `object_info`, `redirection`: one system call per function, no state.

## 2. Modules

Threads and time are in the task half of the loop, re-entrancy in its handler
half, so the loop is modelled twice, each half with its own abstract contract;
`MessageLoopPrograms` puts tasks and handlers together again, on one thread.
The clients are modelled over the contract, not over the loop.

    TaskRunnerContract  <=  TaskQueue   (IncomingTaskQueue + MessageLoop, tasks; n threads)
                              +-- Threads  (and who makes and joins the thread)
    HandlerContract     <=  MessageLoop (handlers; one thread, arbitrary client code)
          |                   +-- MessageLoopPrograms  (and tasks; whole programs)
          |
          +-- FDWaiter          +-- AsyncWaiter --+-- SocketDrainer
          +-- DeviceWatcher                       +-- FileCopy -- SocketPipe
          +-- VFSDispatcher
    SharedVmo -- VmoTransfer

`A <= B`: B implements A under a refinement mapping (`ImplementsContract`).
Below `HandlerContract` a module shares the contract's variables (`status`,
`calling`, `callback`, `phase`) and takes its actions (`Loop!Add`,
`Loop!Remove`, `Loop!CallReady`, ...) as conjuncts of its own.  `SocketDrainer`
and `FileCopy` take the actions of `AsyncWaiter` in the same way.

| module | models | state corresponds to |
|---|---|---|
| `TaskRunnerContract` | what a task runner promises | per task: offered, queued, running, ran, dropped |
| `TaskQueue` | `IncomingTaskQueue` and `MessageLoop` as its delegate | `mutex_`, `incoming_queue_`, `delegate_`, `drop_incoming_tasks_`, `is_running_` by name; `scheduled` is libasync's list of `TaskRecord`s; `pc`, `arg` are each thread's place in a call; `main` is the place of the loop thread in construction, `Run` or destruction; `fate` is the closure's |
| `HandlerContract` | what the loop promises handlers | per registration: unused, registered, removed |
| `MessageLoop` | `AddHandler`, `RemoveHandler`, `HandlerRecord::Handle`, `Run`, `QuitNow`, after-task callback, destruction | `handlers_`, `current_handler_`, `current_handler_removed_`, `next_handler_key_`, `is_running_`, `after_task_callback_` by name; `record` is the state of each `HandlerRecord`, `waits` the waits libasync knows, `packets` the port's queue, `context` what is on the stack |
| `Threads` | `Thread`, `CreateThread`, over `TaskQueue` | `thread_` is where the owner sees the thread, `maker` which of the two made it |
| `MessageLoopPrograms` | the programs of `message_loop_unittest.cc`, over `MessageLoop` with its tasks | `main`, `script`: what remains of the test body and of the callback; `tasks`: the queue; `log`: the tests' counters and vectors |
| `FDWaiter` | `FDWaiter` | `io_`, `key_`, `callback_`; `references` counts `mxio_t` references |
| `AsyncWaiter` | `HandleWatcher`, `AsyncWait`, `CancelWait` | `watcher[w]` is the object of wait w |
| `SocketDrainer` | `SocketDrainer` | `wait_id_`, `destruction_sentinel_`, `is_destroyed`; the socket is a number of unread units and the state of its peer |
| `WaitBound` | | the wait ids, and the bound on them |
| `FileCopy` | both copy handlers, each at one end of a socket | `wait_id_`, `buffer_`, `buffer_offset_`, per end; a file is the sequence of its units' numbers |
| `SocketPipe` | the blocking helpers, and everything that may use the two ends of one socket | `owner` is who has an end, `frame` where the blocking call on it is, `result` what was reported |
| `SharedVmo` | `SharedVmo` | `map_flags_`, `mapping_`, `mapping_once_flag_` by name; `holders` have references; `at` is each thread's place in `Map` |
| `VmoTransfer` | `VmoFromContainer`, `VmoFromFd`, `VmoFromFilename`, `ContainerFromVmo`, the VMO in a `SharedVmo` | `vmo` is the VMO's contents, `container` each reader's, `made` and `read` what was returned |
| `DeviceWatcher` | `DeviceWatcher` | `pos` is `msg - buf`, `size`, `namelen` locals; `dir_watch_` |
| `VFSDispatcher` | `VFSDispatcher`, `VFSHandler` | `handlers_`, `key_`, `needs_close`; `closes` counts `mxrio_handler(MX_HANDLE_INVALID)` |
| `*Proofs` | the theorems | |

Each `MC` module extends its component for TLC.  An action is one stretch of
code between two points at which somebody else may act: for `TaskQueue` the
acquisition of the mutex and the calls that leave the queue; for the
single-threaded modules the calls of client code and the returns to the loop.
Operators named `X_y` are faulty variants of `X`, used only to show that each
property can be violated (`mutants` in `PROJECT.json`).

### Assumptions about what is not in the repository
- *libasync*: keeps tasks ordered by target time, first come first served
  among equal ones (tasks with different target times may run in any order in
  the model once due); calls a wait once per posting, rearms a wait that
  returns `ASYNC_WAIT_AGAIN` before it runs the epilogue; its `Shutdown`
  delivers `MX_ERR_CANCELED` to all tasks and waits, `Cancel` works meanwhile,
  and posting or waiting after it returns `MX_ERR_BAD_STATE`.  Whether the
  epilogue runs during `Shutdown` is left open (both are modelled).
- *`ftl::MutexLocker`*: a non-recursive mutex, which waiting threads get in any
  order.  When `AddTask` returns early the closure, a parameter, is destroyed after the unlock.
- A closure's destructor that follows its run is part of the run.
- `HandlerKey` is 64 bits wide and does not wrap.
- A queue sees one life of a loop.  `FTL_DCHECK`s that state duties of the
  caller are guards; those that state what the code ensures are properties.  The
  one exception is `strings.cc:53`, which stands in for a check against the
  socket's capacity with a number: strings that do not fit are in the model.
- The kernel: a channel is lossless, a socket may take part of a write, what a
  closed peer sent can still be read.
- *The kernel's VMOs*: `read` and `write` may be partial, every call may fail,
  and other holders may resize.  `ftl::RefPtr` and `std::call_once` do what
  they promise.
- *Callers*: a blocking helper is not called on the thread of the loop that
  serves the other end; a client that holds a registration is destroyed before its loop
  is gone (all of them dereference `MessageLoop::GetCurrent()`);
  `VFSDispatcher` is not destroyed, nor added to when being destroyed, by
  what `mxrio_handler` runs.

## 3. Runs

| run | asks | bounds | distinct states |
|---|---|---|---|
| `task_queue_safety` | One owner per closure, no call into a dead loop, nothing stranded or stale, the contract, and where a thread may wait for itself | 2 posters + loop thread, 3 tasks, 2 with destructors that use the runner, delays -1, 0, 1 | 167,680 |
| `threads_join` | Does one quit, wherever it falls, end a thread, and is nothing left of it?  Do calls return, posted tasks settle, destruction end? | owner, another poster and the thread; a task that quits and one that posts it; the poster's destructor uses the runner; the other poster asks `RunsTasksOnCurrentThread`; made by `Thread`, by `CreateThread`, or by anybody | 40,342 |
| `task_queue_self_deadlock` | "This object is threadsafe": may a destructor use the runner? *No* (finding 1) | 2 of 3 tasks | - |
| `message_loop_programs` | The tests of `message_loop_unittest.cc` in every order of delivery, and an arbitrary client: do the assertions hold and the programs end, do records neither dangle nor leak, does the contract hold, is every handler served, does the destructor end? | 19 programs and any client, 3 registrations, 6 log entries | 11,671 |
| `message_loop_removed_before_error` | "automatically removed before": is it? *No* (finding 2) | 2 | - |
| `fd_waiter` | Is a wait whole or absent on all its ways out, and one-shot? | 5 waits | 2,022 |
| `socket_drainer` | Destruction and restart from callbacks, both kinds of end, and the watchers of the waiter under it, which delete themselves | 10 waits, 3 units, reads of 2 | 6,411 |
| `socket_pipe` | All the ways to use the two ends of a socket: is what arrives exact, does every copy end, has every handler one continuation? | up to 4 units, buffer 2, socket 3, 7 waits | 23,445 |
| `vmo` | `Map` by several threads while references come and go; is a transfer that succeeds whole, whoever resizes the VMO? | 3 threads, 2 addresses, up to 2 units | 650,370 (by symmetry) |
| `device_watcher_events` | Every device once and in order, destruction mid-message | 2 messages of up to 8 bytes, the size of the buffer; 12 bytes to the end of the stack | 4,061 |
| `device_watcher_only_devices` | "whenever a device is found": only then? *No* (finding 3) | same | - |
| `vfs_connections` | Each connection closed exactly once, no handler lost | 3 connections | 28,543 |

Why these bounds are enough to be interesting:
- *TaskQueue*: two posters and the loop thread let a post meet each of the
  buffer, delegate and drop regimes while another thread is inside a call.
  Three tasks let two be in the buffer, whose order can be wrong, while a third
  overtakes; three delays cover the clamp, and clocks 0 and 1 give two target
  times.  In the runs with observers a destructor may post another observer.
- *MessageLoop*: three keys are the handler called, another that it removes,
  and one that it adds; the port may hold a packet of each.
- *Threads*: the quit, and a task that posts it from the thread itself; the
  owner posts before the thread runs, while it runs and before it joins, the
  other poster at any time.  The destructor of the task that posts the quit uses
  the runner, so the deadlock of finding 1 happens here too: the liveness
  properties except it by name (`LockedOut`), and nothing else.
- *Programs*: no test in the repository adds more handlers or logs more, so
  for the programs the bounds are exact.  What the run adds to the tests is
  the order of delivery: the tests pass in the one order their machine chose.
- *FDWaiter*: one wait beyond those needed for a callback that begins the next
  wait, whose callback begins another in the destructor of the loop.
- *SocketDrainer*: reads of 2 out of 3 units make a full, a partial and an
  empty read; the waits suffice for two sessions.
- *SocketPipe*: contents > socket > buffer, so that a file takes two buffers,
  the writer outruns a slow reader, and a full buffer is written in parts; the
  waits are enough for one per unit on either side.  `WriteStringToSocket` is
  also given a string that does not fit.
- *Vmo*: one thread maps, one waits for it, one passes references on; the
  contents may be read or written in no, one or two units.  Nothing tells
  threads apart, so they are symmetric; the run has no temporal property.
- *DeviceWatcher*: messages with one and two events, lengths of zero and more,
  one that fills the buffer, so that the drift of `size` takes the parser out of
  the message, out of the buffer and off the stack.
- *VFSDispatcher*: a connection that is served, one it adds, and one beside.

Every run checks for deadlock.  `Terminated`, a stutter, is enabled only where
nothing need go on: all is done, or the program is lost in a way the models
name, a thread that waits for its own mutex (`SelfDeadlocked`, finding 1) or a
parser that faulted.

## 4. Fairness

What client code may choose it need not ever do: no fairness on calls, `Run`,
`QuitNow`, destruction, peers.  Fair are
- a thread inside a call (`CallStep`, per thread, weak: the holder of the mutex
  always continues, and an acquisition that is not granted is retried by the
  system), the loop thread's own steps and the clock;
- taking the queue's mutex (`Locks`, strong): a thread that waits for it gets it
  if it is released again and again.  Weak fairness would let other threads'
  calls keep it out for ever, which no lock that wakes its waiters does.  A
  mutex that is not released any more grants nothing: so `CallsReturn`,
  `DestructionSettles` and `JoinEnds` except the states in which a thread has
  locked itself out (`LockedOut`), the others that wait behind it included;
- in `MessageLoop`, code that has been called returns (weak); the dispatch of
  the port's oldest packet, strong, because between two dispatches the loop is
  busy; `RunReturns` once a quit is requested; each
  cancellation of `Shutdown`, and its end, strong, because the handlers it
  calls may add work in between;
- in `MessageLoopPrograms` also that a given program takes a step while it has
  one: its objects are signalled from the start and its timeouts elapse;
- in `Threads`, the body of the thread, and `Join` once the body has ended.
  Whether anybody quits the loop is the client's affair: `JoinEnds` demands it;
- in `SocketPipe`, each blocking call (it polls, or the kernel wakes it), and
  the loop with its task runner; not the client at the other end, and so
  `CopiesEnd` excuses a copy that waits for it, and a `WriteStringToSocket`
  whose string does not fit, since it holds the other end itself (`MayStall`);
- in `DeviceWatcher`, the watcher and the loop.  A parser that ran off the stack
  has no process to go on in, and `MessagesRead` excepts it;
- in the clients, that callbacks return and that the loop calls whom it must.
  This is `TriggeredHandled` and `DestructionEnds` of `MessageLoop` and
  `PostedTasksSettle` of `TaskQueue`, taken as assumptions.

## 5. Proofs

TLAPS proves, for any number of threads, tasks, keys, delays, waits and
connections, contents, messages, buffers and sockets of any size, and any bound
on the clock:

| theorem | says |
|---|---|
| `TaskQueueProofs!TypeCorrect` | `TypeOK` |
| `TaskQueueProofs!DelegateOutlivesCalls` | `DelegateAlive` |
| `TaskQueueProofs!NoTaskStranded` | `NoneStranded` |
| `TaskQueueProofs!NoQuitLeftOver` | `NoStaleQuit` |
| `TaskQueueProofs!SelfDeadlockConfined` | `SelfDeadlockOnlyInShutdown` |
| `TaskQueueProofs!ClosuresHaveOneOwner` | `OneOwner` |
| `TaskQueueProofs!ImplementsTaskRunner` | `ImplementsContract`: every step is one of `TaskRunnerContract` or a stutter |
| `TaskQueueProofs!TasksRunOnce` | `EachTaskOnce`: an accepted task runs once, alone, not early, or is dropped once by a loop that is shut down |
| `TaskQueueProofs!AcceptedInOrder` | `FirstComeFirstServed`: tasks of one target time run in the order of their acceptance |
| `TaskQueueProofs!ThreadsUseTaskQueue` | `ThreadsSpec => Spec`: all of the above holds of `Threads` |
| `TaskQueueProofs!JoinedThreadIsDone` | `JoinMeansDone` |
| `MessageLoopProofs!TypeCorrect` | `TypeOK` |
| `MessageLoopProofs!RecordsAlwaysOwned` | `RecordsOwned` |
| `MessageLoopProofs!HandlersAlwaysArmed` | `HandlersArmed` |
| `MessageLoopProofs!RemovedFlagAlwaysExact` | `RemovedFlagExact` |
| `MessageLoopProofs!DestructorLeavesNothing` | `NothingLeft` |
| `MessageLoopProofs!ImplementsHandlerContract` | `ImplementsContract`: every step is one of `HandlerContract` or a stutter |
| `MessageLoopProofs!RegistrationsEndForGood` | `RegistrationsEnd`: a key whose registration ended is not registered or called again |
| `MessageLoopProofs!PortServedInOrder` | `PortInOrder`: whose packet is the i-th is called after i - 1 others at the latest |
| `MessageLoopProofs!ProgramsUseMessageLoop` | `ProgramSpec => Spec`: all of the above holds of each program |
| `FDWaiterProofs!WaitsAreWhole`, `!WaitsAreOneShot`, `!TypeCorrect` | `WholeWait`, `OneShot`, `TypeOK` |
| `FDWaiterProofs!WaitsAccountedFor` | `OneShot` and `NoWaitForgotten`: each wait is in progress, or was answered or cancelled exactly once |
| `FDWaiterProofs!WaiterUsesLoop`, `DeviceWatcherProofs!WatcherUsesLoop`, `VFSDispatcherProofs!DispatcherUsesLoop` | `Spec => Loop!Spec`: each client does to the loop only what `HandlerContract` allows |
| `SocketDrainerProofs!WaiterUsesLoop` | the same of `AsyncWaiter`, and so of its clients |
| `SocketDrainerProofs!WaiterWatchersRegistered` | `WatchersRegistered` of `AsyncWaiter`, with any client |
| `SocketDrainerProofs!WaiterEndsWaitsOnce` | `WaitsEndOnce`: a wait is called back at most once, not after `CancelWait`, with any client |
| `SocketDrainerProofs!DrainerUsesWaiter` | `Spec => Waiter!Spec`: the drainer is such a client |
| `SocketDrainerProofs!TypeCorrect` | `TypeOK` |
| `SocketDrainerProofs!WatchersAlwaysRegistered` | `WatchersRegistered`, with the drainer for a client |
| `SocketDrainerProofs!WaitsAlwaysOwned` | `WaitsOwned` |
| `SocketDrainerProofs!FramesNeverDangle` | `NoDanglingFrame` |
| `SocketDrainerProofs!CompletionIsComplete` | `CompleteIsComplete` |
| `SocketDrainerProofs!ClientIsToldInOrder` | `ClientHearsInOrder`: of data as it is taken, then of the end, once, and of nothing after the client destroyed the drainer |
| `SocketPipeProofs!TypeCorrect` | `TypeOK` |
| `SocketPipeProofs!HandlersUseWaiter` | `Spec => Waiter!Spec`: so are the copy handlers |
| `SocketPipeProofs!HandlersAlwaysGoOn` | `OneContinuation` |
| `SocketPipeProofs!CopiesAreExact` | `CopyIsExact` |
| `SocketPipeProofs!CopiesReportOnce` | `CopiesEndOnce`: a copy ends and reports once, and nothing is delivered after it |
| `DeviceWatcherProofs!TypeCorrect` | `TypeOK`: `size`, unsigned, never wraps below zero; of `pos`, which may leave the buffer, nothing is claimed |
| `DeviceWatcherProofs!WatcherNeverDangles` | `NoDanglingWatcher` |
| `DeviceWatcherProofs!EveryDeviceReported` | `EveryDevice`: each device that was sent, once and in order, also by a parser that runs off the stack afterwards |
| `VmoProofs!MapAlwaysShared` | `MapIsShared` |
| `VmoProofs!MappingIsFinal` | `MappedOnce`: `mapping_` is written once, before anybody is told; the last reference unmaps |
| `VmoProofs!TransfersAreWhole` | `TransferIsWhole` |
| `VFSDispatcherProofs!ConnectionsClosedOnce` | `ClosedOnce` |
| `VFSDispatcherProofs!HandlersAlwaysOwned`, `!TypeCorrect` | `HandlersOwned`, `TypeOK` |
| `VFSDispatcherProofs!NoConnectionIsForgotten` | `NoConnectionForgotten`: an open loop knows every handler that has not begun to stop |
| `VFSDispatcherProofs!OnlyOpenIsServed` | `OnlyOpenServed`: nothing is served on an iostate that was closed |

They rest on the named assumptions on the constants in the modules, and on
nothing else.  The invariants and actions named here that no run checks are
defined in the proof modules.

*TaskQueue.*  None of the invariants is inductive alone.  That the delegate is
alive in a call needs that whoever is between the test of `delegate_` and its
use holds the mutex (`LockInv`), that the loop is destroyed only behind
`ClearDelegate`, which needs the mutex too, and how `loop`, `delegate_` and
`drop_incoming_tasks_` go with the loop thread's place (`LifeInv`).  That no
task is stranded needs that nobody appends to the buffer once the delegate is
set.  `ArgInv` ties the task a thread carries to its place, and `DestroyInv`
says who may be in a closure's destructor under the lock, which confines the
self-deadlock.  With `TypeOK` and `NoneStranded` these are inductive; each
action preserves each part in a lemma or step of its own.

`OneOwner` counts owners; `OwnInv` says instead what a step can be held
against: the live closures are those that are in a thread's hand, in one of the
two queues or current, the four kinds exclude each other, no two threads have
the same one and no queue has one twice.  Its proof has one lemma on what a
step does to the four (`OwnershipStep`), for which the lemmas on queues say what
appending, `Tail` and `RemoveAt` do to the elements.

*The contract of a task runner.*  The state of a task in the contract is read
off its owner (`StateIs`), which is well defined by `OwnInv` only; the
contract's queue is `scheduled \o incoming_queue_`, and the transfer in
`InitDelegate` moves tasks from the front of the second part to the end of the
first, so that it is a stutter.  Two more facts are needed: that the loop thread
has a task exactly while it runs or frees one (`CurrentInv`), and that a closure
is destroyed in its caller's hands only when the loop is shut down
(`RefusedInv`), without which a task could be dropped by an open runner.

From there on a task's history is read in the contract.  Each step of
`TaskQueue` is a step of the contract (`StepRefines`), so it moves one task on or
none (`TaskStep`, `NoTaskStep`), and `EachTaskOnce` says where to.  Of the order,
the abstract queue changes in three ways (`QueueIs`): a task is appended, taken
out at an index, or all stay; each keeps the others in their order, and the
index taken is that of the first task of its target time.  What makes
`FirstComeFirstServed` more than a fact about one sequence is that it is two in
the code, `incoming_queue_` and the loop's, with a thread in `AddTask` for each.

*Threads.*  `Thread`, `CreateThread` and their owner only take steps of
`TaskQueue`, so the theorems carry over.  `JoinMeansDone` needs besides that a
joined thread's loop is dead, and that the loop thread calls the task runner
only from inside its loop (`JoinInv`).

*MessageLoop.*  `RecordInv` relates the stack, `current_handler_`,
`current_handler_removed_`, `handlers_` and the live records in each frame: its
parts are that keys are handed out once (`KeysInv`), which record a frame works
on (`ContextInv`), `RemovedFlagExact` and `RecordsOwned`, and which waits
libasync knows (`WaitsInv`).  `PacketsInv` says that packets belong to armed
handlers; with `TypeOK` and
`NothingLeft` they are inductive.  The point of the argument is `Unwind`: the
record of a handler that removed itself is still there until `Handle` returns,
and is deleted exactly then.

`RegistrationsEnd` and `PortInOrder` are about single steps, from these
invariants: one call at a time, begun only for a live record that is
registered, and ended by `Unwind`; `Forget` takes a removed handler's packet out
of the port and lets the others keep their order (`ForgetKeepsOrder`).
`PortInOrder` bounds the wait of a triggered handler by its place in the port,
however the others are signalled again; with the fairness of section 4 that is
`TriggeredHandled`.

*The contract of handlers.*  The contract sees the keys given out, which of
them are registered, the callback on the stack and the phase.  A handler that
removed itself is still being called but no longer registered: so
`RemovedFlagExact` decides whether the end of `Handle` is the contract's removal
or a stutter.  That the loop is not shut down while it runs (`PhaseInv`) makes
the phase go one way.  The mapping's `phase` was a `CASE` with arms that
overlap; such a `CASE` has a value that nobody can reason about, so it is an
`IF` now, with the same value for TLC.

*From the loop to its clients.*  A client is proved over `HandlerContract`
alone.  That is enough because `MessageLoop` implements the contract, for any
client code, and because each client's specification implies the contract's
(the `...UsesLoop` theorems): it never removes a registration that is not
there, nor acts on a loop that has ended.

*Clients.*  What these proofs need besides the properties is where the callback
that runs has come from.  In `FDWaiter`, that the waiter being called is
registered until it has cancelled itself and its callback runs, and that inside
`Wait` there is a reference and nothing else (`FrameInv`); that the wait in
progress is not answered yet (`FreshInv`).  In `AsyncWaiter`, that a watcher
being called is either still registered, or has deleted itself and is in its
client's callback (`FrameInv`), and that a wait id not given out has no watcher
(`FreshInv`).  In `VFSDispatcher`, how often the connection being called
has been closed in each frame of its handler (`FrameInv`), that `key_` is reset
in `Stop` or with the handler (`KeyInv`), and that a connection that does not
exist yet was never closed.

`WholeWait`, `HandlersOwned` and the like say what is held by whom; that nothing
is lost is the converse.  `NoWaitForgotten` of `FDWaiter` and
`NoConnectionForgotten` of the dispatcher are inductive on top of them; the
second needs that `OnHandleError` comes only with the end of the loop
(`ErrorInv`), for else a handler deregistered by an error would sit idle in an
open loop.

`SocketDrainerProofs` first shows that every step of the drainer is a step of
`AsyncWaiter` or none (`Implements`), so that the waiter's inductive invariant
comes for nothing; on top of it are that a drainer waits exactly while it
drains and is not on the stack (`WaitInv`), that `is_destroyed` says, in
`OnDataAvailable`, whether the drainer is gone (`SentinelInv`), and where each
frame stands towards the data (`DataInv`).

*SocketPipe.*  The same for the copy handlers (`WaiterStep`).  The control part:
who may be at an end (`EndsInv`), that the live waits are those the handlers
remember (`WaitInv`), and that a handler runs, has posted, or waits, never two of
these, and one as long as the loop is open (`GoOnInv`); `OneContinuation`, which
counts continuations, follows.  The data part says where each unit is: buffer,
socket and destination hold consecutive units of the source, each beginning
where the next one ends (`UnitsInv`); none is missing in between, until a reader
fails with part of what it read unwritten (`NoneLostInv`); the buffer is
refilled only when it is empty (`BufferInv`); and what a reported success says,
the one exception of `BlockingCopyFromString` included (`SuccessInv`).  So the
exception is exactly the one found by TLC.

`CopiesEndOnce` follows step by step from `EndsInv` and `GoOnInv`: what runs at an
end has not reported yet.

*DeviceWatcher.*  `LifeInv` says that the watcher has a frame exactly while the
loop calls it, and that a registration ends with its watcher.  `ParseInv` says
that a name whose device is being reported is no longer than `size` allows, which
keeps `size` from wrapping.  It says nothing of where the name lies, and nothing
could: the parser does leave the buffer.  Nothing depends on what the bytes
behind a message hold.

`EveryDevice` needs to know where the parser is.  `CoverInv` says that it stands at
an event of the message or behind all of them, and that `size`, of which the
parser does not subtract the headers, is too large by two for each event it has
passed: it never ends early, and what it reads too much of lies behind the last
event.  Nor does it fault early: the events lie in the buffer, and the buffer on
the stack.
`ToldInv` relates what has been reported to what was passed.  Where the events of
a message begin is a recursive function (`Offsets`), and its properties, that
offsets grow by the length of each event and that two events do not share one,
are by induction over the message.  The rules of induction of the library cannot
be used; the proofs take the least counterexample instead, which exists because
`<` is well-founded on the naturals, a fact about sets (`Least`).

*Vmo.*  `VmoTransfer` implements `SharedVmo` in the same way.  `LifeInv` ties
the object's life to its references, `OnceInv` says that one thread maps and
nobody returns from `call_once` before it is done; then an answer of `Map` is
always `mapping_`, and `MappedOnce` says the same step by step.  `TransferInv`
needs of them only that nobody reads before the VMO is made, and that a
container got its length from the VMO.

Each inductive invariant was first checked by TLC, as an invariant, on the
instance of the component's run.

## 6. Only model-checked, and not modelled

Only with TLC:
- all liveness: `CallsReturn`, `PostedTasksSettle`, `DestructionSettles`,
  `JoinEnds`, `TriggeredHandled`, `DestructionEnds`, `ProgramsEnd`,
  `PendingWaitsAnswered`, `EndIsReported`, `CopiesEnd`, `WaitsSettle`,
  `MessagesRead`, `ConnectionsClosed`.  It is beyond the prover;
- `ExpectationsMet`, which is about given programs and what they expect, and no
  statement about constants: its states are those of the run, all of them.

Excused, and so not caught by any property (the hazards without one in
`PROJECT.json` say why): a wait that is begun while the loop is destroyed is
suppressed, and promised nothing; a drainer or a copy that depends on one is
silent from then on; a copy waits for a client that keeps its end, shut down for
writing or not; a string that does not fit is never written.  All of these are
states of the models.  That the parser of `DeviceWatcher` stays in its buffer is
no property, for it does not.

Not modelled: a second `Thread::Run` on one object (one life per queue); thread
names; copies on several loops joined by one socket; deadlines of the default
async waiter (no client in the repository sets one); blocking helpers called
on the thread of the loop at the other end (they wait for ever, by design);
`object_info`, `redirection` (one system call per function: there is no state
between calls, and nothing that an interleaving could disturb).

## 7. Findings

1. *A task's destructor may deadlock the queue* (`incoming_task_queue.cc:33`,
   run `task_queue_self_deadlock`).  `AddTask` calls the delegate with `mutex_`
   held; when the loop is shut down the delegate deletes the record and the
   closure in it; a destructor that uses the task runner locks the mutex its
   thread holds.  `incoming_task_queue.h:35` says "This object is threadsafe",
   `message_loop_unittest.cc:578-580` that the runner can be accessed while
   tasks are torn down.  `SelfDeadlockOnlyInShutdown`, proved, says that this
   is the only way: the buffered and the dropped tasks die outside the lock.
   Such a call does not return, and `ClearDelegate`, `Join` and all later calls
   wait behind it: the liveness properties except this case by name.
2. *OnHandleError comes before the removal* (`message_loop.cc:247`, run
   `message_loop_removed_before_error`), the documentation
   (`message_loop_handler.h:38-40`) says after.
3. *DeviceWatcher's parser loses two bytes per event*
   (`device_watcher.cc:95`, run `device_watcher_only_devices`): it reads on
   behind the message, in uninitialised bytes, and may report a device that was
   never sent.  Every device that was sent is reported nevertheless
   (`EveryDevice`).  Since `msg` is not compared with the end of `buf` either,
   the parser may go on behind the buffer, over the stack, and off it; the model
   follows it there.  Nothing written down speaks of this, so no property does.

Observed, and contradicting nothing that is written down: `CopyToFileHandler`
reports success when the writer at the other end failed in the middle, since
all it sees is a closed socket; `BlockingCopyFromString` reports success when
its reader is gone, and a copy whose peer shut down its writing while the
reader was waiting goes on waiting until the peer closes its end;
`WriteStringToSocket` waits for ever with a string that does not fit the socket,
which its debug check (`strings.cc:53`) guards only up to a presumed capacity; a
wait begun
during the destruction of the loop is suppressed without a sign, so that a
drainer or copy then falls silent and a copy handler is leaked; a socket whose
peer shut down its writing ends a `SocketDrainer` but is an error for the
copies.

## 8. Plan

1. Done: the core, its contracts and proofs; all clients of the loop; threads;
   the programs of the loop's tests; the socket helpers; shared VMOs.
2. Done: every invariant and both refinements the runs check as theorems, but
   for `ExpectationsMet` (section 6).
3. Done: what a step may do, as theorems: the histories of tasks, registrations,
   packets, waits, connections, copies, drainers and mappings.
4. Later, models: copies between two loops on two threads.
