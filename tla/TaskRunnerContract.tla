------------------------- MODULE TaskRunnerContract -------------------------
(***************************************************************************)
(* What ftl::TaskRunner promises its callers, as MessageLoop provides it:  *)
(* a task handed to the runner is accepted as long as the loop has not     *)
(* been shut down, and then run at most once, one task at a time, never    *)
(* before its target time, and in the order of acceptance among the tasks  *)
(* of one target time.  A task is destroyed unrun only once the loop is    *)
(* shut down.  No thread, lock, delegate or second queue appears here:     *)
(* TaskQueue implements this module with all of them.                      *)
(***************************************************************************)
EXTENDS Naturals, Sequences, SequencesExt

CONSTANTS Tasks,      \* the closures callers may post
          MaxTime     \* bound on the clock

VARIABLES
  state,   \* where each task is in its life
  queue,   \* the accepted tasks, in the order of their acceptance
  due,     \* the target time of each task
  now,     \* the clock
  open     \* FALSE from the shutdown of the loop on

vars == <<state, queue, due, now, open>>

States == {"fresh", "offered", "queued", "running", "ran", "dropped"}

Init ==
  /\ state = [t \in Tasks |-> "fresh"]
  /\ queue = <<>>
  /\ due = [t \in Tasks |-> 0]
  /\ now = 0
  /\ open = TRUE

\* A caller hands a task over, to be run at d or later.
Offer(t, d) ==
  /\ state[t] = "fresh"
  /\ state' = [state EXCEPT ![t] = "offered"]
  /\ due' = [due EXCEPT ![t] = d]
  /\ UNCHANGED <<queue, now, open>>

Accept(t) ==
  /\ open
  /\ state[t] = "offered"
  /\ state' = [state EXCEPT ![t] = "queued"]
  /\ queue' = Append(queue, t)
  /\ UNCHANGED <<due, now, open>>

\* Only a closed runner turns a task away.
Refuse(t) ==
  /\ ~open
  /\ state[t] = "offered"
  /\ state' = [state EXCEPT ![t] = "dropped"]
  /\ UNCHANGED <<queue, due, now, open>>

Start(t) ==
  /\ open
  /\ \A u \in Tasks : state[u] # "running"
  /\ due[t] <= now
  /\ \E i \in 1..Len(queue) :
       /\ queue[i] = t
       /\ \A j \in 1..(i - 1) : due[queue[j]] # due[t]
       /\ queue' = RemoveAt(queue, i)
  /\ state' = [state EXCEPT ![t] = "running"]
  /\ UNCHANGED <<due, now, open>>

Finish(t) ==
  /\ state[t] = "running"
  /\ state' = [state EXCEPT ![t] = "ran"]
  /\ UNCHANGED <<queue, due, now, open>>

Close ==
  /\ open
  /\ \A u \in Tasks : state[u] # "running"
  /\ open' = FALSE
  /\ UNCHANGED <<state, queue, due, now>>

Discard(t) ==
  /\ ~open
  /\ \E i \in 1..Len(queue) :
       /\ queue[i] = t
       /\ queue' = RemoveAt(queue, i)
  /\ state' = [state EXCEPT ![t] = "dropped"]
  /\ UNCHANGED <<due, now, open>>

Tick ==
  /\ now < MaxTime
  /\ now' = now + 1
  /\ UNCHANGED <<state, queue, due, open>>

Next ==
  \/ \E t \in Tasks :
       \/ \E d \in 0..MaxTime : Offer(t, d)
       \/ Accept(t) \/ Refuse(t) \/ Start(t) \/ Finish(t) \/ Discard(t)
  \/ Close
  \/ Tick

Spec == Init /\ [][Next]_vars
=============================================================================
