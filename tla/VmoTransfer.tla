---------------------------- MODULE VmoTransfer ----------------------------
(***************************************************************************)
(* A VMO made from a string or vector (VmoFromContainer) or from a file    *)
(* (VmoFromFd, VmoFromFilename), held by a SharedVmo, and read back into   *)
(* containers by the threads that hold it (ContainerFromVmo), while        *)
(* another holder of the VMO may change its size.                          *)
(*                                                                         *)
(* External: every system call may fail, and a read or write may be        *)
(* partial.  The VMO is a sequence of units, 0 what the kernel fills it    *)
(* with; a unit of a container that was not read is Pad.                   *)
(*                                                                         *)
(* Operators named X_y are faulty variants of X.                           *)
(***************************************************************************)
EXTENDS SharedVmo, Integers, Sequences

CONSTANT MaxSize   \* bound on the units in the source

Pad == -1

ASSUME VmoTransferAssumption == MaxSize \in Nat

VARIABLES
  size,       \* units in the source
  made,       \* the making of the VMO: "none", "created", "true", "false"
  vmo,        \* the contents of the VMO
  resized,    \* somebody else changed its size
  read,       \* of each thread: "none", "sized", "true", "false"
  container   \* of each thread

transferVars == <<size, made, vmo, resized, read, container>>
vars == <<sharedVars, transferVars>>

Source == [i \in 1..size |-> i]

\* The first n units of s, followed by as many of fill as make up length.
Filled(s, n, length, fill) == [i \in 1..length |-> IF i <= n THEN s[i] ELSE fill]

Init ==
  /\ SharedInit
  /\ size \in 0..MaxSize
  /\ made = "none"
  /\ vmo = <<>>
  /\ resized = FALSE
  /\ read = [t \in Threads |-> "none"]
  /\ container = [t \in Threads |-> <<>>]
-----------------------------------------------------------------------------
(* VmoFromContainer *)

VmoCreate ==
  /\ made = "none"
  /\ \/ made' = "false" /\ UNCHANGED vmo
     \/ /\ vmo' = Filled(<<>>, 0, size, 0)
        /\ made' = IF size = 0 THEN "true" ELSE "created"
  /\ UNCHANGED <<sharedVars, size, resized, read, container>>

\* A VMO that was written in part is left with the caller.
VmoWrite ==
  /\ made = "created"
  /\ \/ made' = "false" /\ UNCHANGED vmo
     \/ \E actual \in 0..size :
          /\ vmo' = Filled(Source, actual, size, 0)
          /\ made' = IF actual = size THEN "true" ELSE "false"
  /\ UNCHANGED <<sharedVars, size, resized, read, container>>

\* The file is opened, unless that is done, and mxio makes the VMO; either
\* may fail.
VmoFromFilename ==
  /\ made = "none"
  /\ \/ made' = "false" /\ UNCHANGED vmo
     \/ made' = "true" /\ vmo' = Source
  /\ UNCHANGED <<sharedVars, size, resized, read, container>>
-----------------------------------------------------------------------------
(* The SharedVmo, and ContainerFromVmo of its VMO *)

Share(t) == made = "true" /\ Construct(t) /\ UNCHANGED transferVars

MayRead(t) == t \in holders /\ at[t] = "idle"

GetSize(t) ==
  /\ MayRead(t)
  /\ read[t] = "none"
  /\ \/ read' = [read EXCEPT ![t] = "false"] /\ UNCHANGED container
     \/ /\ container' = [container EXCEPT ![t] = Filled(<<>>, 0, Len(vmo), Pad)]
        /\ read' = [read EXCEPT ![t] = IF vmo = <<>> THEN "true" ELSE "sized"]
  /\ UNCHANGED <<sharedVars, size, made, vmo, resized>>

\* The VMO may no longer have the size that it had.
ReadVmo_Unchecked(t) ==
  /\ MayRead(t)
  /\ read[t] = "sized"
  /\ \/ read' = [read EXCEPT ![t] = "false"] /\ UNCHANGED container
     \/ \E num_read \in 0..Len(vmo) :
          LET num_bytes == Len(container[t]) IN
            /\ num_read <= num_bytes
            /\ container' = [container EXCEPT ![t] = Filled(vmo, num_read, num_bytes, Pad)]
            /\ read' = [read EXCEPT ![t] = "true"]
  /\ UNCHANGED <<sharedVars, size, made, vmo, resized>>
ReadVmo(t) ==
  /\ MayRead(t)
  /\ read[t] = "sized"
  /\ \/ read' = [read EXCEPT ![t] = "false"] /\ UNCHANGED container
     \/ \E num_read \in 0..Len(vmo) :
          LET num_bytes == Len(container[t]) IN
            /\ num_read <= num_bytes
            /\ container' = [container EXCEPT ![t] = Filled(vmo, num_read, num_bytes, Pad)]
            /\ read' = [read EXCEPT ![t] = IF num_read = num_bytes THEN "true" ELSE "false"]
  /\ UNCHANGED <<sharedVars, size, made, vmo, resized>>

\* Bound: once.
OtherResizes ==
  /\ object = "alive"
  /\ ~resized
  /\ resized' = TRUE
  /\ \E n \in 0..MaxSize : vmo' = [i \in 1..n |-> IF i <= Len(vmo) THEN vmo[i] ELSE 0]
  /\ UNCHANGED <<sharedVars, size, made, read, container>>

\* A thread that reads keeps its reference until it is done.
Shares(t) == read[t] # "sized" /\ SharedStep(t) /\ UNCHANGED transferVars

Terminated == (made = "false" \/ object = "destroyed") /\ UNCHANGED vars

Next ==
  \/ VmoCreate \/ VmoWrite \/ VmoFromFilename
  \/ \E t \in Threads : Share(t) \/ Shares(t) \/ GetSize(t) \/ ReadVmo(t)
  \/ OtherResizes
  \/ Terminated

Spec == Init /\ [][Next]_vars
-----------------------------------------------------------------------------
\* Success means whole contents: a VMO that was made holds the source, a
\* container that was filled holds only what was in the VMO, and all of it
\* unless somebody changed the size on the way.
TransferIsWhole ==
  /\ made = "true" /\ ~resized => vmo = Source
  /\ \A t \in Threads : read[t] = "true" =>
       /\ \A i \in 1..Len(container[t]) : container[t][i] # Pad
       /\ ~resized => container[t] = Source
=============================================================================
