------------------------------ MODULE VmoProofs ------------------------------
(***************************************************************************)
(* Theorems about VmoTransfer and its SharedVmo, for any number of threads *)
(* and any size: Map gives all of them one answer, for good, and what it   *)
(* gave them stays mapped while anybody has a reference; a transfer that   *)
(* succeeds is whole.                                                      *)
(***************************************************************************)
EXTENDS VmoTransfer, TLAPS

SharedNext == \E t \in Threads : Construct(t) \/ SharedStep(t)

\* The object lives as long as somebody holds it, and only then is anybody in
\* Map or is it mapped.
LifeInv ==
  /\ object = "alive" <=> holders # {}
  /\ object = "none" => mapping_once_flag_ = "new"
  /\ \A t \in Threads : at[t] # "idle" => t \in holders
  /\ mapped = IF mapping_ # 0 /\ holders # {} THEN {mapping_} ELSE {}

\* One thread maps, once, and nobody returns before it is done.
OnceInv ==
  /\ mapping_once_flag_ # "done" => mapping_ = 0
  /\ ~map_flags_ => mapping_once_flag_ = "new"
  /\ \A t \in Threads :
       /\ at[t] = "map" => mapping_once_flag_ = "running"
       /\ at[t] \in {"call_once", "map"} => map_flags_
       /\ at[t] = "return" \/ answers[t] # {} => ~map_flags_ \/ mapping_once_flag_ = "done"
  /\ \A t, u \in Threads : at[t] = "map" /\ at[u] = "map" => t = u

AnswersInv == \A t \in Threads : answers[t] \subseteq {mapping_}

IInv == SharedTypeOK /\ LifeInv /\ OnceInv /\ AnswersInv
-----------------------------------------------------------------------------
LEMMA InitIInv == Init => IInv
  <1> SUFFICES ASSUME SharedInit
               PROVE  IInv
    BY DEF Init
  <1>1. map_flags_ \in BOOLEAN
    BY Zenon DEF SharedInit
  <1> QED
    BY <1>1, SMT DEF SharedInit, IInv, SharedTypeOK, LifeInv, OnceInv, AnswersInv

\* Whatever VmoTransfer does, SharedVmo takes one of its own steps or none.
LEMMA Implements == Next => SharedNext \/ UNCHANGED sharedVars
  BY DEF Next, VmoCreate, VmoWrite, VmoFromFilename, Share, Shares, GetSize, ReadVmo,
         OtherResizes, Terminated, vars, SharedNext

LEMMA StepIInv == IInv /\ (SharedNext \/ UNCHANGED sharedVars) => IInv'
  <1> SUFFICES ASSUME IInv, SharedNext \/ UNCHANGED sharedVars
               PROVE  IInv'
    OBVIOUS
  <1> USE SharedVmoAssumption DEF IInv, SharedTypeOK, LifeInv, OnceInv, AnswersInv
  <1>1. ASSUME NEW t \in Threads, Construct(t)
        PROVE  IInv'
    BY <1>1, SMT DEF Construct, mappingVars
  <1>2. ASSUME NEW t \in Threads, NEW u \in Threads, CopyReference(t, u)
        PROVE  IInv'
    BY <1>2, SMT DEF CopyReference, mappingVars
  <1>3. ASSUME NEW t \in Threads, Release(t)
        PROVE  IInv'
    BY <1>3, SMT DEF Release
  <1>4. ASSUME NEW t \in Threads, Map(t)
        PROVE  IInv'
    BY <1>4, SMT DEF Map, Goto, objectVars, mappingVars
  <1>5. ASSUME NEW t \in Threads, OnceBegins(t)
        PROVE  IInv'
    BY <1>5, SMT DEF OnceBegins, Goto, objectVars
  <1>6. ASSUME NEW t \in Threads, OncePasses(t)
        PROVE  IInv'
    BY <1>6, SMT DEF OncePasses, Goto, objectVars, mappingVars
  <1>7. ASSUME NEW t \in Threads, MapVmo(t)
        PROVE  IInv'
    BY <1>7, SMT DEF MapVmo, Goto, objectVars
  <1>8. ASSUME NEW t \in Threads, MapReturns(t)
        PROVE  IInv'
    BY <1>8, SMT DEF MapReturns, Goto, objectVars, mappingVars
  <1>9. CASE UNCHANGED sharedVars
    BY <1>9, SMT DEF sharedVars, objectVars, mappingVars
  <1> QED
    BY <1>1, <1>2, <1>3, <1>4, <1>5, <1>6, <1>7, <1>8, <1>9 DEF SharedNext, SharedStep

LEMMA Inductive == Spec => []IInv
  <1>1. IInv /\ [Next]_vars => IInv'
    BY StepIInv, Implements DEF vars
  <1> QED
    BY InitIInv, <1>1, PTL DEF Spec

\* All threads that call Map are told the same, and what they were told stays
\* mapped until the last reference goes, however calls, copies and releases of
\* references interleave.
THEOREM MapAlwaysShared == Spec => []MapIsShared
  <1>1. IInv => MapIsShared
    BY DEF IInv, SharedTypeOK, LifeInv, OnceInv, AnswersInv, MapIsShared
  <1> QED
    BY Inductive, <1>1, PTL

\* What Map has answered, an address or none, it always answers; an address is
\* unmapped only with the last reference; the object does not come back.
MappingStands ==
  /\ (\E t \in Threads : answers[t] # {}) \/ mapping_ # 0 => mapping_' = mapping_
  /\ mapped \subseteq mapped' \/ holders' = {}
  /\ object = "destroyed" => object' = "destroyed" /\ holders' = {} /\ mapped' = {}

MappedOnce == [][MappingStands]_vars

LEMMA MappingStandsStep ==
  ASSUME IInv, SharedNext
  PROVE  MappingStands
  <1> USE DEF IInv, LifeInv, MappingStands
  <1>1. ASSUME NEW t \in Threads, NEW u \in Threads,
               Construct(t) \/ CopyReference(t, u) \/ Release(t) \/ Map(t)
               \/ OnceBegins(t) \/ OncePasses(t) \/ MapReturns(t)
        PROVE  MappingStands
    BY <1>1 DEF Construct, CopyReference, Release, Map, OnceBegins, OncePasses, MapReturns,
       objectVars, mappingVars
  <1>2. ASSUME NEW t \in Threads, MapVmo(t)
        PROVE  MappingStands
    <2>1. /\ mapping_once_flag_ = "running" /\ map_flags_ /\ mapping_ = 0
          /\ \A u \in Threads : answers[u] = {}
      BY <1>2 DEF MapVmo, OnceInv
    <2>2. mapped \subseteq mapped' /\ UNCHANGED objectVars
      BY <1>2 DEF MapVmo
    <2>3. object # "destroyed"
      BY <1>2 DEF MapVmo
    <2>4. QED
      BY <2>1, <2>2, <2>3
  <1>3. QED
    BY <1>1, <1>2 DEF SharedNext, SharedStep

\* mapping_ is written once, before anybody is told: Map may read it without a
\* lock behind call_once.  Only the destructor unmaps, and nothing is mapped or
\* handed out after it.
THEOREM MappingIsFinal == Spec => MappedOnce
  <1>1. ASSUME IInv, UNCHANGED sharedVars
        PROVE  [MappingStands]_vars
    BY <1>1 DEF IInv, LifeInv, sharedVars, objectVars, mappingVars, MappingStands
  <1>2. IInv /\ [Next]_vars => [MappingStands]_vars
    BY <1>1, MappingStandsStep, Implements
  <1>3. QED
    BY <1>2, Inductive, PTL DEF Spec, MappedOnce
-----------------------------------------------------------------------------
\* What ContainerFromVmo relies on between its two system calls.
TransferInv ==
  /\ size \in Nat
  /\ vmo \in Seq(Nat)
  /\ made = "created" => ~resized
  /\ object # "none" => made = "true"
  /\ resized => object # "none"
  /\ read \in [Threads -> {"none", "sized", "true", "false"}]
  /\ container \in [Threads -> Seq(Int)]
  /\ \A t \in Threads : read[t] = "sized" /\ ~resized => Len(container[t]) = size
  /\ TransferIsWhole

LEMMA InitTransferInv == Init => TransferInv
  <1> SUFFICES ASSUME Init
               PROVE  TransferInv
    OBVIOUS
  <1>1. size \in Nat
    BY VmoTransferAssumption DEF Init
  <1> QED
    BY <1>1 DEF Init, SharedInit, TransferInv, TransferIsWhole

LEMMA StepTransferInv == IInv /\ TransferInv /\ [Next]_vars => TransferInv'
  <1> SUFFICES ASSUME IInv, TransferInv, [Next]_vars
               PROVE  TransferInv'
    OBVIOUS
  <1>0. size' = size
    BY DEF Next, VmoCreate, VmoWrite, VmoFromFilename, Share, Shares, GetSize, ReadVmo,
           OtherResizes, Terminated, vars, transferVars
  <1>a. Source' = Source /\ Source \in Seq(Nat) /\ Len(Source) = size
    BY <1>0 DEF Source, TransferInv
  <1>b. \A t \in Threads : t \in holders => made = "true" /\ object = "alive"
    BY DEF IInv, LifeInv, TransferInv
  <1>1. CASE VmoCreate
    <2>1. Filled(<<>>, 0, size, 0) \in Seq(Nat)
      BY SMT DEF Filled, TransferInv
    <2>2. size = 0 => Filled(<<>>, 0, size, 0) = Source
      BY SMT DEF Filled, Source
    <2> QED
      BY <1>1, <1>a, <2>1, <2>2 DEF VmoCreate, TransferInv, TransferIsWhole, sharedVars,
         objectVars
  <1>2. CASE VmoWrite
    <2>1. \A actual \in 0..size : Filled(Source, actual, size, 0) \in Seq(Nat)
      BY <1>a, SMT DEF Filled, TransferInv
    <2>2. Filled(Source, size, size, 0) = Source
      BY SMT DEF Filled, Source
    <2> QED
      BY <1>2, <1>a, <2>1, <2>2 DEF VmoWrite, TransferInv, TransferIsWhole, sharedVars,
         objectVars
  <1>3. CASE VmoFromFilename
    BY <1>3, <1>a DEF VmoFromFilename, TransferInv, TransferIsWhole, sharedVars, objectVars
  <1>4. ASSUME NEW t \in Threads, Share(t)
        PROVE  TransferInv'
    BY <1>4, <1>a DEF Share, Construct, transferVars, TransferInv, TransferIsWhole
  <1>5. ASSUME NEW t \in Threads, Shares(t)
        PROVE  TransferInv'
    <2>1. object # "none" => object' # "none"
      BY <1>5 DEF Shares, SharedStep, CopyReference, Release, Map, OnceBegins, OncePasses,
                  MapVmo, MapReturns, objectVars
    <2>2. object = "none" => object' = "none"
      BY <1>5 DEF Shares, SharedStep, CopyReference, Release, Map, OnceBegins, OncePasses,
                  MapVmo, MapReturns, objectVars, IInv, LifeInv
    <2> QED
      BY <1>5, <1>a, <2>1, <2>2 DEF Shares, transferVars, TransferInv, TransferIsWhole
  <1>6. ASSUME NEW t \in Threads, GetSize(t)
        PROVE  TransferInv'
    <2>1. Filled(<<>>, 0, Len(vmo), Pad) \in Seq(Int)
          /\ Len(Filled(<<>>, 0, Len(vmo), Pad)) = Len(vmo)
      BY SMT DEF Filled, TransferInv, Pad
    <2>2. vmo = <<>> => Len(vmo) = 0
      OBVIOUS
    <2>3. vmo = <<>> /\ ~resized => Filled(<<>>, 0, Len(vmo), Pad) = Source
      <3> SUFFICES ASSUME vmo = <<>>, ~resized
                   PROVE  Filled(<<>>, 0, 0, Pad) = Source
        BY <2>2
      <3>1. size = 0
        BY <1>6, <1>a, <1>b, <2>2 DEF GetSize, MayRead, TransferInv, TransferIsWhole
      <3> QED
        BY <3>1, SMT DEF Filled, Source
    <2>4. ~resized => Len(vmo) = size
      BY <1>6, <1>a, <1>b DEF GetSize, MayRead, TransferInv, TransferIsWhole
    <2>5. CASE container' = container /\ read' = [read EXCEPT ![t] = "false"]
      BY <1>6, <1>a, <2>5, SMT
         DEF GetSize, TransferInv, TransferIsWhole, sharedVars, objectVars
    <2>6. CASE ~(container' = container /\ read' = [read EXCEPT ![t] = "false"])
      <3> DEFINE c == Filled(<<>>, 0, Len(vmo), Pad)
      <3>1. /\ container' = [container EXCEPT ![t] = c]
            /\ read' = [read EXCEPT ![t] = IF vmo = <<>> THEN "true" ELSE "sized"]
        BY <1>6, <2>6 DEF GetSize
      <3>2. c \in Seq(Int) /\ Len(c) = Len(vmo) /\ (~resized => Len(c) = size)
            /\ (vmo = <<>> => Len(c) = 0) /\ (vmo = <<>> /\ ~resized => c = Source)
        BY <2>1, <2>2, <2>3, <2>4
      <3> HIDE DEF c
      <3>3. UNCHANGED <<size, made, vmo, resized, object>>
        BY <1>6 DEF GetSize, sharedVars, objectVars
      <3>4. /\ container' \in [Threads -> Seq(Int)]
            /\ read' \in [Threads -> {"none", "sized", "true", "false"}]
        BY <3>1, <3>2 DEF TransferInv
      <3>5. \A u \in Threads : read'[u] = "sized" /\ ~resized => Len(container'[u]) = size
        BY <3>1, <3>2 DEF TransferInv
      <3>6. \A u \in Threads : read'[u] = "true" =>
              /\ \A i \in 1..Len(container'[u]) : container'[u][i] # Pad
              /\ ~resized => container'[u] = Source
        <4> TAKE u \in Threads
        <4>1. CASE u = t
          BY <3>1, <3>2, <4>1, SMT DEF TransferInv
        <4>2. CASE u # t
          BY <3>1, <4>2 DEF TransferInv, TransferIsWhole
        <4> QED
          BY <4>1, <4>2
      <3> QED
        BY <1>a, <3>3, <3>4, <3>5, <3>6 DEF TransferInv, TransferIsWhole
    <2> QED
      BY <2>5, <2>6
  <1>7. ASSUME NEW t \in Threads, ReadVmo(t)
        PROVE  TransferInv'
    <2>1. CASE container' = container /\ read' = [read EXCEPT ![t] = "false"]
      BY <1>7, <1>a, <2>1, SMT
         DEF ReadVmo, TransferInv, TransferIsWhole, sharedVars, objectVars
    <2>2. CASE ~(container' = container /\ read' = [read EXCEPT ![t] = "false"])
      <3> DEFINE n == Len(container[t])
      <3>1. PICK num_read \in 0..Len(vmo) :
              /\ num_read <= n
              /\ container' = [container EXCEPT ![t] = Filled(vmo, num_read, n, Pad)]
              /\ read' = [read EXCEPT ![t] = IF num_read = n THEN "true" ELSE "false"]
        BY <1>7, <2>2 DEF ReadVmo
      <3>2. n \in Nat
        BY DEF TransferInv
      <3>3. Filled(vmo, num_read, n, Pad) \in Seq(Int)
        BY <3>1, <3>2, SMT DEF Filled, TransferInv, Pad
      <3>4. num_read = n => \A i \in 1..n : Filled(vmo, num_read, n, Pad)[i] = vmo[i]
                                           /\ vmo[i] \in Nat
        BY <3>1, <3>2, SMT DEF Filled, TransferInv
      <3>5. Len(Filled(vmo, num_read, n, Pad)) = n
        BY <3>2, <3>3, SMT DEF Filled
      <3>6. num_read = n /\ ~resized => Filled(vmo, num_read, n, Pad) = Source
        <4> SUFFICES ASSUME num_read = n, ~resized
                     PROVE  Filled(vmo, n, n, Pad) = Source
          OBVIOUS
        <4>1. vmo = Source /\ n = size
          BY <1>7, <1>b DEF ReadVmo, MayRead, TransferInv, TransferIsWhole
        <4> QED
          BY <4>1, SMT DEF Filled, Source
      <3> HIDE DEF n
      <3>7. num_read = n => \A i \in 1..n : Filled(vmo, num_read, n, Pad)[i] # Pad
        BY <3>2, <3>4, SMT DEF Pad
      <3> DEFINE c == Filled(vmo, num_read, n, Pad)
      <3>8. /\ container' = [container EXCEPT ![t] = c]
            /\ read' = [read EXCEPT ![t] = IF num_read = n THEN "true" ELSE "false"]
            /\ c \in Seq(Int) /\ Len(c) = n
            /\ num_read = n => \A i \in 1..Len(c) : c[i] # Pad
            /\ num_read = n /\ ~resized => c = Source
        BY <3>1, <3>3, <3>5, <3>6, <3>7
      <3> HIDE DEF c
      <3>9. UNCHANGED <<size, made, vmo, resized, object>>
        BY <1>7 DEF ReadVmo, sharedVars, objectVars
      <3>10. /\ container' \in [Threads -> Seq(Int)]
             /\ read' \in [Threads -> {"none", "sized", "true", "false"}]
        BY <3>8 DEF TransferInv
      <3>11. \A u \in Threads : read'[u] = "sized" /\ ~resized => Len(container'[u]) = size
        BY <3>8 DEF TransferInv
      <3>12. \A u \in Threads : read'[u] = "true" =>
               /\ \A i \in 1..Len(container'[u]) : container'[u][i] # Pad
               /\ ~resized => container'[u] = Source
        <4> TAKE u \in Threads
        <4>1. CASE u = t
          <5> read[t] = "sized"
            BY <1>7 DEF ReadVmo
          <5> QED
            BY <3>8, <4>1 DEF TransferInv
        <4>2. CASE u # t
          BY <3>8, <4>2 DEF TransferInv, TransferIsWhole
        <4> QED
          BY <4>1, <4>2
      <3> QED
        BY <1>a, <3>9, <3>10, <3>11, <3>12 DEF TransferInv, TransferIsWhole
    <2> QED
      BY <2>1, <2>2
  <1>8. CASE OtherResizes
    <2>1. vmo' \in Seq(Nat)
      BY <1>8, VmoTransferAssumption, SMT DEF OtherResizes, TransferInv
    <2> QED
      BY <1>8, <1>a, <2>1 DEF OtherResizes, TransferInv, TransferIsWhole, sharedVars,
         objectVars
  <1>9. CASE Terminated \/ UNCHANGED vars
    BY <1>9, <1>a DEF Terminated, vars, sharedVars, objectVars, transferVars, TransferInv,
       TransferIsWhole
  <1> QED
    BY <1>1, <1>2, <1>3, <1>4, <1>5, <1>6, <1>7, <1>8, <1>9 DEF Next

\* A VMO that was made holds its whole source, and a container that was filled
\* the whole of what the VMO held, for sources of any size and any number of
\* readers.
THEOREM TransfersAreWhole == Spec => []TransferIsWhole
  <1>1. TransferInv => TransferIsWhole
    BY DEF TransferInv
  <1> QED
    BY Inductive, InitTransferInv, StepTransferInv, <1>1, PTL DEF Spec
=============================================================================
