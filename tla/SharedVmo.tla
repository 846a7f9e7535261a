----------------------------- MODULE SharedVmo -----------------------------
(***************************************************************************)
(* SharedVmo: an object of threads that hold references to it, which maps  *)
(* its VMO when the first of them calls Map and unmaps it when the last    *)
(* reference goes.  Where the memory is mapped is decided in               *)
(* std::call_once; Map reads mapping_ after it, without a lock.            *)
(*                                                                         *)
(* External: ftl::RefPtr counts references, and passes one on from a       *)
(* thread that has one; a thread's own copies count as one here.  The      *)
(* kernel may refuse to map.                                               *)
(*                                                                         *)
(* Operators named X_y are faulty variants of X.                           *)
(***************************************************************************)
EXTENDS Naturals, FiniteSets

CONSTANTS Threads,
          Addresses   \* where the VMO may be mapped; 0 is not one of them

ASSUME SharedVmoAssumption == 0 \notin Addresses

VARIABLES
  holders,             \* the threads with a reference
  object,              \* "none", "alive", "destroyed"
  map_flags_,          \* whether any are set
  mapping_once_flag_,  \* "new", "running", "done"
  mapping_,
  mapped,              \* where the VMO is mapped in the process
  at,                  \* of each thread: where it is in Map
  answers              \* of each thread: what Map returned to it

objectVars == <<holders, object, map_flags_>>
mappingVars == <<mapping_once_flag_, mapping_, mapped>>
sharedVars == <<objectVars, mappingVars, at, answers>>

SharedTypeOK ==
  /\ holders \subseteq Threads
  /\ object \in {"none", "alive", "destroyed"}
  /\ map_flags_ \in BOOLEAN
  /\ mapping_once_flag_ \in {"new", "running", "done"}
  /\ mapping_ \in Addresses \cup {0}
  /\ mapped \subseteq Addresses
  /\ at \in [Threads -> {"idle", "call_once", "map", "return"}]
  /\ answers \in [Threads -> SUBSET (Addresses \cup {0})]

SharedInit ==
  /\ holders = {}
  /\ object = "none"
  /\ map_flags_ \in BOOLEAN
  /\ mapping_once_flag_ = "new"
  /\ mapping_ = 0
  /\ mapped = {}
  /\ at = [t \in Threads |-> "idle"]
  /\ answers = [t \in Threads |-> {}]
-----------------------------------------------------------------------------
\* MakeRefCounted.
Construct(t) ==
  /\ object = "none"
  /\ object' = "alive"
  /\ holders' = {t}
  /\ UNCHANGED <<map_flags_, mappingVars, at, answers>>

CopyReference(t, u) ==
  /\ t \in holders /\ u \notin holders
  /\ holders' = holders \cup {u}
  /\ UNCHANGED <<object, map_flags_, mappingVars, at, answers>>

\* ~RefPtr.  The last one destroys the object, which unmaps the VMO.
Release(t) ==
  /\ t \in holders
  /\ at[t] = "idle"
  /\ holders' = holders \ {t}
  /\ IF holders' = {} THEN object' = "destroyed" /\ mapped' = mapped \ {mapping_}
                      ELSE UNCHANGED <<object, mapped>>
  /\ UNCHANGED <<map_flags_, mapping_once_flag_, mapping_, at, answers>>

Goto(t, where) == at' = [at EXCEPT ![t] = where]

Map(t) ==
  /\ t \in holders
  /\ at[t] = "idle"
  /\ Goto(t, IF map_flags_ THEN "call_once" ELSE "return")
  /\ UNCHANGED <<objectVars, mappingVars, answers>>

\* The first thread in call_once does the work; the others wait until it is
\* done.
OnceBegins_IfUnmapped(t) ==
  /\ at[t] = "call_once"
  /\ mapping_ = 0
  /\ mapping_once_flag_' = "running"
  /\ Goto(t, "map")
  /\ UNCHANGED <<objectVars, mapping_, mapped, answers>>
OnceBegins(t) ==
  /\ at[t] = "call_once"
  /\ mapping_once_flag_ = "new"
  /\ mapping_once_flag_' = "running"
  /\ Goto(t, "map")
  /\ UNCHANGED <<objectVars, mapping_, mapped, answers>>

OncePasses(t) ==
  /\ at[t] = "call_once"
  /\ mapping_once_flag_ = "done"
  /\ Goto(t, "return")
  /\ UNCHANGED <<objectVars, mappingVars, answers>>

MapVmo(t) ==
  /\ at[t] = "map"
  /\ \/ \E a \in Addresses \ mapped : mapping_' = a /\ mapped' = mapped \cup {a}
     \/ UNCHANGED <<mapping_, mapped>>
  /\ mapping_once_flag_' = "done"
  /\ Goto(t, "return")
  /\ UNCHANGED <<objectVars, answers>>

MapReturns(t) ==
  /\ at[t] = "return"
  /\ answers' = [answers EXCEPT ![t] = @ \cup {mapping_}]
  /\ Goto(t, "idle")
  /\ UNCHANGED <<objectVars, mappingVars>>

SharedStep(t) ==
  \/ \E u \in Threads : CopyReference(t, u)
  \/ Release(t) \/ Map(t)
  \/ OnceBegins(t) \/ OncePasses(t) \/ MapVmo(t) \/ MapReturns(t)
-----------------------------------------------------------------------------
\* All threads are given the same answer, whoever maps the VMO and whatever
\* the kernel says; what they were given stays mapped until all references
\* have been released (shared_vmo.h), and nothing is mapped after that, nor
\* anywhere else before.
MapIsShared ==
  /\ \A t, u \in Threads : \A a \in answers[t], b \in answers[u] : a = b
  /\ \A t \in holders : answers[t] \subseteq mapped \cup {0}
  /\ mapped \subseteq {mapping_}
  /\ holders = {} => mapped = {}
=============================================================================
