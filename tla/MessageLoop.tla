----------------------------- MODULE MessageLoop -----------------------------
(***************************************************************************)
(* The half of MessageLoop that registers handlers, calls them and owns    *)
(* their records.  All of it happens on the loop's thread (FTL_DCHECK), so *)
(* what is hard is re-entrancy: code that the loop calls, a task, a        *)
(* handler, the after-task callback, may add and remove handlers, the one  *)
(* being called included, ask the loop to quit, or replace the callback.   *)
(* context is what is on the stack above the loop.                         *)
(*                                                                         *)
(* A HandlerRecord is named by its key_; keys are 64 bits wide and never   *)
(* reused.  Tasks appear only as a context: TaskQueue has the rest.        *)
(*                                                                         *)
(* External, modelled from its use in src/: libasync's waits.  Begin is    *)
(* refused once the loop is shut down.  A triggered wait is delivered in   *)
(* the order of the port's packets, a deadline at any time while the wait  *)
(* is pending, and Shutdown cancels the pending waits in any order.  A     *)
(* wait is not pending while its handler runs, ASYNC_WAIT_AGAIN makes it   *)
(* pending again before the epilogue, and Cancel also removes its packet,  *)
(* during the shutdown too.                                                *)
(*                                                                         *)
(* Operators named X_y are faulty variants of X, with which the properties *)
(* below are checked to fail; the specification does not use them.         *)
(***************************************************************************)
EXTENDS Integers, Sequences, SequencesExt

CONSTANTS MaxKey,    \* bound on the number of AddHandler calls
          NoRecord   \* nullptr

Keys == 1..MaxKey

ASSUME MessageLoopAssumption == MaxKey \in Nat /\ NoRecord \notin Nat

VARIABLES
  next_handler_key_,
  handlers_,                 \* keys of the map
  record,                    \* state of the HandlerRecord made for each key
  deadline,                  \* records that have a timeout
  current_handler_,
  current_handler_removed_,
  is_running_,
  after_task_callback_,      \* whether there is one
  loop,                      \* libasync: "runnable", "quit", "shutdown"
  waits,                     \* records whose wait is pending in libasync
  packets,                   \* port packets of triggered waits, oldest first
  context

asyncVars == <<loop, waits, packets>>
handlerVars == <<next_handler_key_, handlers_, record, deadline>>
currentVars == <<current_handler_, current_handler_removed_>>
vars == <<handlerVars, currentVars, is_running_, after_task_callback_,
          asyncVars, context>>

Contexts == {"outside", "dispatch", "task", "ready", "error", "epilogue",
             "shutdown", "dead"}

\* Where client code runs.
ClientCode == {"outside", "task", "ready", "error", "epilogue"}

TypeOK ==
  /\ next_handler_key_ \in 1..(MaxKey + 1)
  /\ handlers_ \subseteq Keys
  /\ record \in [Keys -> {"none", "live", "deleted"}]
  /\ deadline \subseteq Keys
  /\ current_handler_ \in Keys \cup {NoRecord}
  /\ current_handler_removed_ \in BOOLEAN
  /\ is_running_ \in BOOLEAN
  /\ after_task_callback_ \in BOOLEAN
  /\ loop \in {"runnable", "quit", "shutdown"}
  /\ waits \subseteq Keys
  /\ packets \in Seq(Keys)
  /\ context \in Contexts

FirstKey == 1

Init ==
  /\ next_handler_key_ = FirstKey
  /\ handlers_ = {}
  /\ record = [key \in Keys |-> "none"]
  /\ deadline = {}
  /\ current_handler_ = NoRecord
  /\ current_handler_removed_ = FALSE
  /\ is_running_ = FALSE
  /\ after_task_callback_ = FALSE
  /\ loop = "runnable"
  /\ waits = {}
  /\ packets = <<>>
  /\ context = "outside"

Delete(key) == record' = [record EXCEPT ![key] = "deleted"]

\* libasync forgets a wait: WaitWithTimeout::Cancel, or its delivery.
Forget(key) ==
  /\ waits' = waits \ {key}
  /\ \/ \E i \in 1..Len(packets) : packets[i] = key /\ packets' = RemoveAt(packets, i)
     \/ (\A i \in 1..Len(packets) : packets[i] # key) /\ UNCHANGED packets
-----------------------------------------------------------------------------
(* What client code may do *)

NewKey ==
  /\ context \in ClientCode
  /\ next_handler_key_ <= MaxKey
  /\ next_handler_key_' = next_handler_key_ + 1

AddHandler(hasTimeout) ==
  /\ NewKey
  /\ loop # "shutdown"
  /\ record' = [record EXCEPT ![next_handler_key_] = "live"]
  /\ waits' = waits \cup {next_handler_key_}
  /\ deadline' = IF hasTimeout THEN deadline \cup {next_handler_key_} ELSE deadline
  /\ handlers_' = handlers_ \cup {next_handler_key_}
  /\ UNCHANGED <<currentVars, is_running_, after_task_callback_, loop, packets, context>>

\* Begin fails with MX_ERR_BAD_STATE: the key returned stands for nothing.
AddHandlerSuppressed_Mapped ==
  /\ NewKey
  /\ loop = "shutdown"
  /\ Delete(next_handler_key_)
  /\ handlers_' = handlers_ \cup {next_handler_key_}
  /\ UNCHANGED <<deadline, currentVars, is_running_, after_task_callback_, asyncVars, context>>
AddHandlerSuppressed_Registered ==
  /\ NewKey
  /\ loop = "shutdown"
  /\ record' = [record EXCEPT ![next_handler_key_] = "live"]
  /\ waits' = waits \cup {next_handler_key_}
  /\ handlers_' = handlers_ \cup {next_handler_key_}
  /\ UNCHANGED <<deadline, currentVars, is_running_, after_task_callback_, loop, packets,
                 context>>
AddHandlerSuppressed ==
  /\ NewKey
  /\ loop = "shutdown"
  /\ Delete(next_handler_key_)
  /\ UNCHANGED <<handlers_, deadline, currentVars, is_running_,
                 after_task_callback_, asyncVars, context>>

CancelAndDelete_NoCancel(key) == Delete(key) /\ UNCHANGED <<waits, packets>>
CancelAndDelete(key) == Forget(key) /\ Delete(key)

\* An unknown key is ignored; the record of the running handler is left to
\* HandlerRecord::Handle.
RemoveHandler_AtOnce(key) ==
  /\ context \in ClientCode
  /\ key \in handlers_
  /\ handlers_' = handlers_ \ {key}
  /\ CancelAndDelete(key)
  /\ UNCHANGED <<next_handler_key_, deadline, currentVars, is_running_,
                 after_task_callback_, loop, context>>
RemoveHandler(key) ==
  /\ context \in ClientCode
  /\ key \in handlers_
  /\ handlers_' = handlers_ \ {key}
  /\ IF current_handler_ = key
       THEN /\ current_handler_removed_' = TRUE
            /\ UNCHANGED <<record, waits, packets>>
       ELSE /\ CancelAndDelete(key)
            /\ UNCHANGED current_handler_removed_
  /\ UNCHANGED <<next_handler_key_, deadline, current_handler_, is_running_,
                 after_task_callback_, loop, context>>

QuitNow_FlagOnly ==
  /\ context \in ClientCode
  /\ is_running_
  /\ is_running_' = FALSE
  /\ UNCHANGED <<handlerVars, currentVars, after_task_callback_, asyncVars, context>>
QuitNow ==
  /\ context \in ClientCode
  /\ is_running_
  /\ loop' = "quit"
  /\ UNCHANGED <<handlerVars, currentVars, is_running_, after_task_callback_,
                 waits, packets, context>>

SetAfterTaskCallback ==
  /\ context \in ClientCode
  /\ after_task_callback_' = TRUE
  /\ UNCHANGED <<handlerVars, currentVars, is_running_, asyncVars, context>>

ClearAfterTaskCallback ==
  /\ context \in ClientCode
  /\ after_task_callback_' = FALSE
  /\ UNCHANGED <<handlerVars, currentVars, is_running_, asyncVars, context>>

\* Not nested (FTL_CHECK).
Run ==
  /\ context = "outside"
  /\ is_running_' = TRUE
  /\ context' = "dispatch"
  /\ UNCHANGED <<handlerVars, currentVars, after_task_callback_, asyncVars>>

\* ~MessageLoop enters loop_.Shutdown().
Destroy ==
  /\ context = "outside"
  /\ loop' = "shutdown"
  /\ context' = "shutdown"
  /\ UNCHANGED <<handlerVars, currentVars, is_running_, after_task_callback_,
                 waits, packets>>
-----------------------------------------------------------------------------
(* What libasync and the kernel do *)

\* The object of a pending wait asserts the trigger.
Trigger(key) ==
  /\ key \in waits
  /\ \A i \in 1..Len(packets) : packets[i] # key
  /\ loop # "shutdown"
  /\ packets' = Append(packets, key)
  /\ UNCHANGED <<handlerVars, currentVars, is_running_, after_task_callback_,
                 loop, waits, context>>

Dispatching == context = "dispatch" /\ loop = "runnable"

RunTask ==
  /\ Dispatching
  /\ context' = "task"
  /\ UNCHANGED <<handlerVars, currentVars, is_running_, after_task_callback_, asyncVars>>

\* HandlerRecord::Handle up to the callback; libasync has let go of the wait.
Handle(key, callback) ==
  /\ key \in waits
  /\ Forget(key)
  /\ current_handler_' = key
  /\ context' = callback
  /\ UNCHANGED <<handlerVars, current_handler_removed_, is_running_,
                 after_task_callback_, loop>>

DispatchReady ==
  /\ Dispatching
  /\ packets # <<>>
  /\ Handle(Head(packets), "ready")

DispatchTimeout(key) ==
  /\ Dispatching
  /\ key \in deadline
  /\ Handle(key, "error")

ShutdownCancels(key) ==
  /\ context = "shutdown"
  /\ Handle(key, "error")

\* Where libasync goes on after a task or a handler: Epilogue, if there is an
\* after-task callback.  Whether Shutdown has epilogues is left open.
Resume ==
  LET back == IF loop = "shutdown" THEN "shutdown" ELSE "dispatch"
  IN  context' \in IF ~after_task_callback_ THEN {back}
                   ELSE IF loop = "shutdown" THEN {"epilogue", "shutdown"}
                   ELSE {"epilogue"}

TaskReturns ==
  /\ context = "task"
  /\ Resume
  /\ UNCHANGED <<handlerVars, currentVars, is_running_, after_task_callback_, asyncVars>>

\* The end of HandlerRecord::Handle, after either callback.
Unwind_KeepFlag == current_handler_' = NoRecord /\ UNCHANGED current_handler_removed_
Unwind == current_handler_' = NoRecord /\ current_handler_removed_' = FALSE

ReadyReturns ==
  /\ context = "ready"
  /\ IF current_handler_removed_
       THEN /\ Delete(current_handler_)
            /\ UNCHANGED waits
       ELSE /\ waits' = waits \cup {current_handler_}    \* ASYNC_WAIT_AGAIN
            /\ UNCHANGED record
  /\ Unwind
  /\ Resume
  /\ UNCHANGED <<next_handler_key_, handlers_, deadline, is_running_,
                 after_task_callback_, loop, packets>>

\* After OnHandleError the handler goes, unless the callback removed it.
EraseFailed_Missing == UNCHANGED handlers_
EraseFailed ==
  handlers_' = IF current_handler_removed_ THEN handlers_
                                           ELSE handlers_ \ {current_handler_}

ErrorReturns_Again ==
  /\ context = "error"
  /\ EraseFailed
  /\ IF current_handler_removed_
       THEN Delete(current_handler_) /\ UNCHANGED waits
       ELSE waits' = waits \cup {current_handler_} /\ UNCHANGED record
  /\ Unwind
  /\ Resume
  /\ UNCHANGED <<next_handler_key_, deadline, is_running_, after_task_callback_, loop,
                 packets>>
ErrorReturns ==
  /\ context = "error"
  /\ EraseFailed
  /\ Delete(current_handler_)
  /\ Unwind
  /\ Resume
  /\ UNCHANGED <<next_handler_key_, deadline, is_running_, after_task_callback_, asyncVars>>

EpilogueReturns ==
  /\ context = "epilogue"
  /\ context' = IF loop = "shutdown" THEN "shutdown" ELSE "dispatch"
  /\ UNCHANGED <<handlerVars, currentVars, is_running_, after_task_callback_, asyncVars>>

\* loop_.Run() has returned: ResetQuit and the rest of Run.
RunReturns_StillRunning ==
  /\ context = "dispatch"
  /\ loop = "quit"
  /\ loop' = "runnable"
  /\ context' = "outside"
  /\ UNCHANGED <<handlerVars, currentVars, is_running_, after_task_callback_, waits, packets>>
RunReturns ==
  /\ context = "dispatch"
  /\ loop = "quit"
  /\ loop' = "runnable"
  /\ is_running_' = FALSE
  /\ context' = "outside"
  /\ UNCHANGED <<handlerVars, currentVars, after_task_callback_, waits, packets>>

\* A task left in libasync's list is deleted: its destructor is client code.
ShutdownDeletesTask ==
  /\ context = "shutdown"
  /\ context' = "task"
  /\ UNCHANGED <<handlerVars, currentVars, is_running_, after_task_callback_, asyncVars>>

DestroyReturns ==
  /\ context = "shutdown"
  /\ waits = {}
  /\ context' = "dead"
  /\ UNCHANGED <<handlerVars, currentVars, is_running_, after_task_callback_, asyncVars>>
-----------------------------------------------------------------------------
Client ==
  \/ \E hasTimeout \in BOOLEAN : AddHandler(hasTimeout)
  \/ AddHandlerSuppressed
  \/ \E key \in Keys : RemoveHandler(key)
  \/ QuitNow \/ SetAfterTaskCallback \/ ClearAfterTaskCallback
  \/ Run \/ Destroy

Returns == TaskReturns \/ ReadyReturns \/ ErrorReturns \/ EpilogueReturns

Dispatch ==
  \/ RunTask \/ DispatchReady
  \/ \E key \in Keys : DispatchTimeout(key)

Shutdown ==
  \/ \E key \in Keys : ShutdownCancels(key)
  \/ ShutdownDeletesTask
  \/ DestroyReturns

Terminated == context = "dead" /\ UNCHANGED vars

Next ==
  \/ Client
  \/ \E key \in Keys : Trigger(key)
  \/ Returns \/ Dispatch \/ RunReturns \/ Shutdown
  \/ Terminated

Spec == Init /\ [][Next]_vars

\* Client code returns; libasync alternates between tasks and packets and
\* has finitely many tasks to delete at the shutdown.  No fairness for what
\* clients choose and for what objects are signalled.
Fairness ==
  /\ WF_vars(Returns)
  /\ SF_vars(DispatchReady)
  /\ WF_vars(RunReturns)
  /\ SF_vars(\E key \in Keys : ShutdownCancels(key))
  /\ SF_vars(DestroyReturns)

FairSpec == Spec /\ Fairness
-----------------------------------------------------------------------------
(* Safety *)

Current == {current_handler_} \ {NoRecord}

\* The records that exist are those of the registered handlers and the one
\* being called: no pointer in handlers_, in libasync or in current_handler_
\* dangles, and no record is forgotten, whoever removes whom from where.
RecordsOwned == {key \in Keys : record[key] = "live"} = handlers_ \cup Current

\* A registered handler is being called or waits for its signals: removing a
\* handler disarms it and a handler that stays is rearmed.  What the port
\* delivers next belongs to a pending wait, so to a live record.
HandlersArmed ==
  /\ waits = handlers_ \ Current
  /\ ToSet(packets) \subseteq waits

\* The flag that makes Handle delete its record is about the record being
\* called, and never left over for the next one.
RemovedFlagExact ==
  current_handler_removed_ <=> Current # {} /\ ~(Current \subseteq handlers_)

\* The destructor ends with every handler told or removed
\* (FTL_DCHECK(handlers_.empty())) and no record leaked.
NothingLeft ==
  context = "dead" => handlers_ = {} /\ \A key \in Keys : record[key] # "live"

\* "The handler is automatically removed by the message loop before invoking
\* this callback" (message_loop_handler.h, OnHandleError).
RemovedBeforeError == context = "error" => current_handler_ \notin handlers_

Contract == INSTANCE HandlerContract WITH
  Handlers <- Keys,
  NoHandler <- NoRecord,
  status <- [key \in Keys |-> IF key >= next_handler_key_ THEN "unused"
                              ELSE IF key \in handlers_ THEN "registered"
                              ELSE "removed"],
  calling <- current_handler_,
  callback <- IF context \in {"ready", "error"} THEN context ELSE "none",
  phase <- IF context = "dead" THEN "ended"
           ELSE IF loop = "shutdown" THEN "closing" ELSE "open"

\* A handler is called only while registered, one at a time, nothing after an
\* error or RemoveHandler, none added once the loop is shut down.
ImplementsContract == Contract!Spec
-----------------------------------------------------------------------------
(* Liveness, under FairSpec *)

\* A handler whose signal has arrived is called (or removed) as long as the
\* loop runs and is not asked to quit, however busy the others keep it.
TriggeredHandled ==
  \A key \in Keys :
    key \in ToSet(packets) /\ is_running_
      ~> key \notin ToSet(packets) \/ loop # "runnable" \/ ~is_running_

\* The destructor ends, though handlers add handlers while they are told
\* (message_loop_unittest.cc: AddHandlerOnError).
DestructionEnds == context = "shutdown" ~> context = "dead"
=============================================================================
