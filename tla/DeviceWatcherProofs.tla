------------------------- MODULE DeviceWatcherProofs -------------------------
(***************************************************************************)
(* Theorems about DeviceWatcher, for any messages that fit the buffer, any *)
(* number of them, and any bytes behind their end and behind the buffer:   *)
(* the parser and the loop never refer to a watcher that is gone, size     *)
(* does not wrap, and every device is reported, once and in order, also by *)
(* a parser that then runs off the stack.                                  *)
(*                                                                         *)
(* Where an event begins is defined by recursion over its message.  The    *)
(* library's induction rules are about operators; the inductions here go   *)
(* through the least element of a set of numbers instead (Least).          *)
(***************************************************************************)
EXTENDS DeviceWatcher, SequenceTheorems, WellFoundedInduction, TLAPS

\* The loop's side and the watcher's: the watcher has a frame exactly while
\* the loop calls it, the registration ends with the watcher, and in the
\* callback the watcher may or may not be there, with or without a
\* registration.
LifeInv ==
  /\ at = "idle" => calling = 0
  /\ at # "idle" => calling = 1 /\ alive # "none"
  /\ at \in {"OnHandleReady", "OnHandleError"} => status[1] = "registered"
  /\ alive = "none" <=> status[1] = "unused"
  /\ callback = "none" <=> calling = 0
  /\ NoDanglingWatcher

\* The parser has a message, and while it calls the client it still has as much
\* in size as it will take off for the name.
ParseInv ==
  /\ at \in {"parse", "callback"} => received # <<>>
  /\ at = "callback" => size >= namelen + 2

DWInv == TypeOK /\ LifeInv /\ ParseInv

-----------------------------------------------------------------------------
(* The parser's view of a message *)

\* Where an event begins the parser sees that event, elsewhere any bytes: in
\* both cases a place and a length.
LEMMA HeadersAre ==
  ASSUME TypeOK, received # <<>>, NEW h \in Fitting
  PROVE  h[1] \in Nat /\ h[3] \in Nat /\ size >= h[3] + 2
  <1>1. size >= h[3] + 2 /\ h \in Headers
    BY DEF Fitting
  <1>2. CASE EventAt = {}
    BY <1>1, <1>2, DeviceWatcherAssumption DEF Headers
  <1>3. CASE EventAt # {}
    <2>1. PICK i \in EventAt : h = <<i, Message[i].event, Message[i].namelen>>
      BY <1>1, <1>3 DEF Headers
    <2>2. received \in Seq(Messages)
      BY DEF TypeOK
    <2>3. Len(received) \in Nat \ {0} /\ received[Len(received)] \in Messages
      BY <2>2, LenProperties, EmptySeq
    <2>4. Message \in Messages
      BY <2>3 DEF Message, Last
    <2>5. Message \in Seq(Events)
      BY <2>4, DeviceWatcherAssumption
    <2>6. i \in 1..Len(Message)
      BY DEF EventAt
    <2>7. Message[i] \in Events
      BY <2>5, <2>6, ElementOfSeq
    <2> QED
      BY <1>1, <2>1, <2>5, <2>6, <2>7, LenProperties DEF Events
  <1> QED
    BY <1>2, <1>3

\* An event that fits leaves size a size.
LEMMA AdvanceKeepsSize ==
  ASSUME NEW p \in Nat, NEW s \in 0..BufferBytes, NEW n \in Nat, s >= n + 2
  PROVE  p + 2 + n \in Nat /\ s - n \in 0..BufferBytes
  BY DeviceWatcherAssumption

-----------------------------------------------------------------------------
(* Every step *)

LEMMA InitDWInv == Init => DWInv
  <1> SUFFICES ASSUME Init
               PROVE  DWInv
    OBVIOUS
  <1> USE DeviceWatcherAssumption DEF Init, Loop!Init
  <1>1. TypeOK
    <2>1. dir_watch_ \in BOOLEAN /\ peer \in BOOLEAN
      BY Zenon
    <2>2. <<>> \in Seq(Messages) /\ <<>> \in Seq(Nat \X Nat)
      BY EmptySeq
    <2> QED
      BY <2>1, <2>2 DEF TypeOK, Frames
  <1>2. LifeInv
    BY DEF LifeInv, NoDanglingWatcher
  <1>3. ParseInv
    BY DEF ParseInv
  <1> QED
    BY <1>1, <1>2, <1>3 DEF DWInv

\* What the loop's part of each step does with the one handler.
LEMMA LoopSteps ==
  /\ Loop!Add(1) =>
       /\ status[1] = "unused"
       /\ \/ status' = [status EXCEPT ![1] = "registered"]
          \/ status' = [status EXCEPT ![1] = "removed"]
       /\ UNCHANGED <<calling, callback, phase>>
  /\ Loop!Remove(1) =>
       /\ status' = [status EXCEPT ![1] = "removed"]
       /\ UNCHANGED <<calling, callback, phase>>
  /\ Loop!CallReady(1) =>
       /\ status[1] = "registered" /\ calling' = 1 /\ callback' = "ready"
       /\ UNCHANGED <<status, phase>>
  /\ Loop!CallError(1) =>
       /\ status[1] = "registered" /\ calling' = 1 /\ callback' = "error"
       /\ UNCHANGED <<status, phase>>
  /\ Loop!Return =>
       /\ status' = [status EXCEPT ![calling] = "removed"] \/ status' = status
       /\ callback = "error" => status' = [status EXCEPT ![calling] = "removed"]
       /\ calling' = 0 /\ callback' = "none" /\ phase' = phase
  /\ Loop!Close => phase' = "closing" /\ UNCHANGED <<status, calling, callback>>
  /\ Loop!End => phase' = "ended" /\ UNCHANGED <<status, calling, callback>>
  BY DEF Loop!Add, Loop!Remove, Loop!CallReady, Loop!CallError, Loop!Return, Loop!Close,
         Loop!End, Loop!Become

LEMMA StepDWInv == DWInv /\ [Next]_vars => DWInv'
  <1> SUFFICES ASSUME DWInv, [Next]_vars
               PROVE  DWInv'
    OBVIOUS
  <1> USE DeviceWatcherAssumption, LoopSteps
      DEF DWInv, TypeOK, LifeInv, ParseInv, NoDanglingWatcher, Frames, loopVars,
          channelVars, parseVars
  <1>1. CASE Create
    BY <1>1 DEF Create
  <1>2. CASE Destroy
    BY <1>2 DEF Destroy
  <1>3. CASE ReadMessage
    <2>1. /\ Head(channel) \in Messages
          /\ channel' \in Seq(Messages)
      BY <1>3, HeadTailProperties DEF ReadMessage
    <2>2. received \in Seq(Messages) /\ received' = Append(received, Head(channel))
      BY <1>3 DEF ReadMessage
    <2>3. received' \in Seq(Messages) /\ received' # <<>>
      <3> HIDE DEF DWInv
      <3>1. /\ Append(received, Head(channel)) \in Seq(Messages)
            /\ Append(received, Head(channel)) # <<>>
        BY <2>1, <2>2, AppendProperties
      <3> QED
        BY <2>2, <3>1
    <2>4. pos' = 0 /\ size' \in 0..BufferBytes
      BY <1>3, <2>1 DEF ReadMessage
    <2> QED
      BY <1>3, <2>1, <2>3, <2>4 DEF ReadMessage
  <1>4. CASE PeerClosed \/ OnHandleError
    BY <1>4 DEF PeerClosed, OnHandleError
  <1>5. CASE ParseEnds \/ ParseFaults
    BY <1>5 DEF ParseEnds, ParseFaults
  <1>6. CASE ParseSkips
    <2>1. PICK h \in Fitting : Advance(h[3])
      BY <1>6 DEF ParseSkips
    <2>2. h[3] \in Nat /\ size >= h[3] + 2
      BY <1>6, HeadersAre DEF ParseSkips
    <2>3. pos' \in Nat /\ size' \in 0..BufferBytes
      <3>1. pos' = pos + 2 + h[3] /\ size' = size - h[3]
        BY <2>1 DEF Advance
      <3>2. pos \in Nat /\ size \in 0..BufferBytes
        OBVIOUS
      <3> QED
        BY <2>2, <3>1, <3>2, AdvanceKeepsSize
    <2>4. /\ at = "parse"
          /\ UNCHANGED <<loopVars, alive, dir_watch_, channelVars, at, received, namelen,
                         reported>>
      BY <1>6 DEF ParseSkips
    <2> QED
      BY <2>3, <2>4
  <1>7. CASE ParseReports
    <2>1. PICK h \in Fitting :
            /\ namelen' = h[3]
            /\ reported' = Append(reported, <<Len(received), h[1]>>)
      BY <1>7 DEF ParseReports
    <2>2. h[1] \in Nat /\ h[3] \in Nat /\ size >= h[3] + 2
      BY <1>7, HeadersAre DEF ParseReports
    <2>3. namelen' \in 0..BufferBytes
      BY <2>1, <2>2
    <2>4. <<Len(received), h[1]>> \in Nat \X Nat
      BY <2>2, LenProperties
    <2>5. reported' \in Seq(Nat \X Nat)
      BY <2>1, <2>4, AppendProperties
    <2> QED
      BY <1>7, <2>1, <2>2, <2>3, <2>5 DEF ParseReports
  <1>8. CASE CallbackReturns
    <2>1. CASE alive = "yes"
      BY <1>8, <2>1 DEF CallbackReturns, Advance
    <2>2. CASE alive # "yes"
      BY <1>8, <2>2 DEF CallbackReturns
    <2> QED
      BY <2>1, <2>2
  <1>9. ASSUME NEW m \in Messages, FileSystemSends(m)
        PROVE  DWInv'
    <2>1. channel' \in Seq(Messages)
      BY <1>9, AppendProperties DEF FileSystemSends
    <2> QED
      BY <1>9, <2>1 DEF FileSystemSends
  <1>10. CASE FileSystemCloses
    BY <1>10, ZenonT(60) DEF FileSystemCloses
  <1>11. CASE LoopCallsReady \/ LoopCallsError
    <2>1. /\ at = "idle" /\ at' \in {"OnHandleReady", "OnHandleError"}
          /\ Loop!CallReady(1) \/ Loop!CallError(1)
          /\ UNCHANGED <<alive, dir_watch_, channelVars, parseVars>>
      BY <1>11, Zenon DEF LoopCallsReady, LoopCallsError
    <2> QED
      BY <2>1
  <1>12. CASE LoopReturns
    BY <1>12 DEF LoopReturns
  <1>13. CASE LoopCloses \/ LoopEnds
    BY <1>13 DEF LoopCloses, LoopEnds
  <1>14. CASE Terminated \/ UNCHANGED vars
    BY <1>14, SMTT(40) DEF Terminated, vars
  <1> QED
    BY <1>1, <1>2, <1>3, <1>4, <1>5, <1>6, <1>7, <1>8, <1>9, <1>10, <1>11, <1>12, <1>13,
       <1>14 DEF Next, WatcherStep

LEMMA Inductive == Spec => []DWInv
  BY InitDWInv, StepDWInv, PTL DEF Spec

\* Every variable keeps its type.  In particular size, which is unsigned, does
\* not wrap below zero, because each step takes off less than the test of the
\* length has found in it.  Nothing is said of where the parser gets to: pos may
\* pass the end of the buffer.
THEOREM TypeCorrect == Spec => []TypeOK
  <1>1. DWInv => TypeOK
    BY DEF DWInv
  <1> QED
    BY Inductive, <1>1, PTL

\* OnHandleReady's parser and OnHandleError run with a watcher that exists, and
\* the loop holds none that does not, for any messages and wherever the client
\* destroys the watcher, in the callback for a device included.
THEOREM WatcherNeverDangles == Spec => []NoDanglingWatcher
  <1>1. DWInv => NoDanglingWatcher
    BY DEF DWInv, LifeInv
  <1> QED
    BY Inductive, <1>1, PTL
-----------------------------------------------------------------------------
(* Where events begin *)

Less == {p \in Nat \X Nat : p[1] < p[2]}

\* The least-number principle, for a set.
LEMMA Least ==
  ASSUME NEW T \in SUBSET Nat, T # {}
  PROVE  \E n \in T : \A k \in T : n <= k
  <1>1. IsWellFoundedOn(Less, Nat)
    <2>1. IsWellFoundedOn({p \in Nat \X Nat : p[1] < p[2]}, Nat)
      BY NatLessThanWellFounded DEF OpToRel
    <2> QED
      BY <2>1 DEF Less
  <1>2. PICK n \in T : \A k \in T : <<k, n>> \notin Less
    <2>1. T \subseteq Nat
      OBVIOUS
    <2> QED
      BY <1>1, <2>1, WFMin
  <1>3. \A k \in T : ~(k < n)
    BY <1>2 DEF Less
  <1>4. \A k \in T : n <= k
    BY <1>3
  <1> QED
    BY <1>4

\* What Offsets says of the first n events of m.
Begin(o, m, n) ==
  /\ o \in [0..n -> Nat]
  /\ o[0] = 0
  /\ \A i \in 1..n : o[i] = o[i - 1] + 2 + m[i].namelen

LEMMA EventsOf ==
  ASSUME NEW m \in Seq(Events)
  PROVE  Len(m) \in Nat /\ \A i \in 1..Len(m) : m[i] \in Events /\ m[i].namelen \in Nat
  <1>1. Len(m) \in Nat /\ \A i \in 1..Len(m) : m[i] \in Events
    BY ElementOfSeq, LenProperties
  <1> QED
    BY <1>1 DEF Events

LEMMA OffsetsExist ==
  ASSUME NEW m \in Seq(Events)
  PROVE  \E o : Begin(o, m, Len(m))
  <1> DEFINE Bad == {n \in 0..Len(m) : ~ \E o : Begin(o, m, n)}
  <1>1. Len(m) \in Nat /\ \A i \in 1..Len(m) : m[i].namelen \in Nat
    BY EventsOf
  <1>2. SUFFICES ASSUME Bad # {}
                 PROVE  FALSE
    BY <1>1
  <1>3. PICK n \in Bad : \A k \in Bad : n <= k
    <2>1. Bad \in SUBSET Nat
      BY <1>1
    <2> HIDE DEF Bad
    <2> QED
      BY <1>2, <2>1, Least
  <1>4. n \in 0..Len(m) /\ ~ \E o : Begin(o, m, n)
    OBVIOUS
  <1>5. CASE n = 0
    <2>1. Begin([i \in 0..0 |-> 0], m, 0)
      BY DEF Begin
    <2> QED
      BY <1>4, <1>5, <2>1
  <1>6. CASE n # 0
    <2>1. n \in 1..Len(m) /\ n - 1 \in 0..Len(m)
      BY <1>1, <1>4, <1>6
    <2>2. n - 1 \notin Bad
      <3> HIDE DEF Bad
      <3> QED
        BY <1>3, <2>1
    <2>3. PICK o : Begin(o, m, n - 1)
      BY <2>1, <2>2
    <2> DEFINE q == [i \in 0..n |-> IF i = n THEN o[n - 1] + 2 + m[n].namelen ELSE o[i]]
    <2>4. n \in Nat \ {0} /\ m[n].namelen \in Nat
      BY <1>1, <2>1
    <2>5. o \in [0..(n - 1) -> Nat] /\ o[0] = 0
      BY <2>3 DEF Begin
    <2>6. q \in [0..n -> Nat] /\ q[0] = 0
      BY <2>4, <2>5
    <2>7. ASSUME NEW i \in 1..n
          PROVE  q[i] = q[i - 1] + 2 + m[i].namelen
      <3>1. i # n => o[i] = o[i - 1] + 2 + m[i].namelen
        BY <2>3, <2>4 DEF Begin
      <3> QED
        BY <2>4, <3>1
    <2>8. Begin(q, m, n)
      BY <2>6, <2>7 DEF Begin
    <2> QED
      BY <1>4, <2>8
  <1> QED
    BY <1>5, <1>6

\* The recursion defines Offsets: there is one function that satisfies it.
LEMMA OffsetsBegin ==
  ASSUME NEW m \in Seq(Events)
  PROVE  Begin(Offsets(m), m, Len(m))
  <1> DEFINE D(o) == [i \in 0..Len(m) |-> IF i = 0 THEN 0 ELSE o[i - 1] + 2 + m[i].namelen]
  <1>1. Len(m) \in Nat
    BY LenProperties
  <1>2. PICK o : Begin(o, m, Len(m))
    BY OffsetsExist
  <1>3. o = D(o)
    BY <1>1, <1>2 DEF Begin
  <1>4. Offsets(m) = CHOOSE f : f = D(f)
    BY DEF Offsets
  <1>5. Offsets(m) = D(Offsets(m))
    <2> HIDE DEF D
    <2> QED
      BY <1>3, <1>4
  <1>6. ASSUME NEW p, p = D(p)
        PROVE  p = o
    <2> DEFINE Bad == {n \in 0..Len(m) : p[n] # o[n]}
    <2>1. SUFFICES ASSUME Bad # {}
                   PROVE  FALSE
      <3>1. \A n \in 0..Len(m) : p[n] = o[n]
        BY <2>1
      <3>2. /\ p = [n \in 0..Len(m) |-> p[n]]
            /\ o = [n \in 0..Len(m) |-> o[n]]
        BY <1>3, <1>6
      <3> HIDE DEF D
      <3> QED
        BY <3>1, <3>2
    <2>2. PICK n \in Bad : \A k \in Bad : n <= k
      <3>1. Bad \in SUBSET Nat
        BY <1>1
      <3> HIDE DEF Bad
      <3> QED
        BY <2>1, <3>1, Least
    <2>3. n \in 0..Len(m) /\ p[n] # o[n]
      BY <2>2
    <2>4. n # 0
      BY <1>3, <1>6, <2>3
    <2>5. n - 1 \in 0..Len(m) /\ n - 1 \notin Bad
      <3> HIDE DEF Bad
      <3> QED
        BY <1>1, <2>2, <2>3, <2>4
    <2>6. p[n - 1] = o[n - 1]
      BY <2>5
    <2> QED
      BY <1>3, <1>6, <2>3, <2>4, <2>6
  <1>7. Offsets(m) = o
    <2> HIDE DEF D
    <2> QED
      BY <1>5, <1>6
  <1> QED
    BY <1>2, <1>7

\* Later events begin behind earlier ones.
LEMMA OffsetsGrow ==
  ASSUME NEW m \in Seq(Events), NEW i \in 0..Len(m), NEW j \in 0..Len(m), i < j
  PROVE  Offsets(m)[i] < Offsets(m)[j]
  <1> DEFINE o == Offsets(m)
             Bad == {n \in 0..Len(m) : i < n /\ ~(o[i] < o[n])}
  <1>1. Begin(o, m, Len(m)) /\ Len(m) \in Nat /\ \A n \in 1..Len(m) : m[n].namelen \in Nat
    BY OffsetsBegin, EventsOf
  <1> HIDE DEF o
  <1>2. SUFFICES ASSUME Bad # {}
                 PROVE  FALSE
    BY DEF o
  <1>3. PICK n \in Bad : \A k \in Bad : n <= k
    <2>1. Bad \in SUBSET Nat
      BY <1>1
    <2> HIDE DEF Bad
    <2> QED
      BY <1>2, <2>1, Least
  <1>4. n \in 1..Len(m) /\ n - 1 \in 0..Len(m) /\ i < n /\ ~(o[i] < o[n])
    BY <1>1, <1>3
  <1>5. o[n] = o[n - 1] + 2 + m[n].namelen /\ o[i] \in Nat /\ o[n - 1] \in Nat /\ o[n] \in Nat
    BY <1>1, <1>4 DEF Begin
  <1>6. n - 1 \notin Bad
    <2> HIDE DEF Bad
    <2> QED
      BY <1>1, <1>3, <1>4
  <1>7. i = n - 1 \/ o[i] < o[n - 1]
    BY <1>1, <1>4, <1>6
  <1> QED
    BY <1>1, <1>4, <1>5, <1>7, SMTT(40)
-----------------------------------------------------------------------------
(* Every device is reported *)

\* The devices before event n + 1 of the message being parsed.
Upto(n) == {d \in Devices : d[1] < Len(received) \/ d[2] <= n}

\* The parser has come to event n + 1 of the message.  size still counts the
\* headers it has passed.
AtEvent(n) == pos = Offsets(Message)[n] /\ size = Bytes(Message) + 2 * n - pos

\* What the client has been told are the first devices sent, in their order.
ToldInv ==
  /\ \A i, j \in Found : i < j => Before(reported[i], reported[j])
  /\ Told \subseteq Devices
  /\ \A d \in Told : {c \in Devices : Before(c, d)} \subseteq Told

\* How far that goes: to where the parser is, and once it is behind the end of
\* the message, whatever it takes for events there, to the last device.
CoverInv ==
  /\ at \notin {"parse", "callback"} /\ alive # "no" => Told = Devices
  /\ at = "parse" =>
       \/ \E n \in 0..Len(Message) : AtEvent(n) /\ Told = Upto(n)
       \/ pos > Bytes(Message) /\ Told = Devices
  /\ at = "callback" =>
       \/ \E n \in 0..(Len(Message) - 1) :
            AtEvent(n) /\ namelen = Message[n + 1].namelen /\ Told = Upto(n + 1)
       \/ pos >= Bytes(Message) /\ Told = Devices

\* The message being parsed.
LEMMA MessageIs ==
  ASSUME TypeOK, received # <<>>
  PROVE  /\ Len(received) \in Nat \ {0}
         /\ Message = received[Len(received)]
         /\ Message \in Messages /\ Message \in Seq(Events)
         /\ Len(Message) \in Nat
         /\ \A i \in 1..Len(Message) : Message[i] \in Events /\ Message[i].namelen \in Nat
         /\ Begin(Offsets(Message), Message, Len(Message))
  <1>1. received \in Seq(Messages)
    BY DEF TypeOK
  <1>2. Len(received) \in Nat \ {0} /\ received[Len(received)] \in Messages
    BY <1>1, LenProperties, EmptySeq
  <1>3. Message = received[Len(received)]
    BY DEF Message, Last
  <1>4. Message \in Messages /\ Message \in Seq(Events)
    BY <1>2, <1>3, DeviceWatcherAssumption
  <1> QED
    BY <1>2, <1>3, <1>4, EventsOf, OffsetsBegin

\* At the beginning of an event the parser sees that event and nothing else, it
\* fits, and it is all in memory.
LEMMA HeaderAtEvent ==
  ASSUME TypeOK, received # <<>>, NEW n \in 0..(Len(Message) - 1), AtEvent(n)
  PROVE  /\ Headers = {<<n + 1, Message[n + 1].event, Message[n + 1].namelen>>}
         /\ Fitting = Headers /\ size >= 2
         /\ Offsets(Message)[n + 1] = pos + 2 + Message[n + 1].namelen
         /\ Mapped(2) /\ Mapped(2 + Message[n + 1].namelen)
  <1> DEFINE o == Offsets(Message)
  <1>1. /\ Message \in Seq(Events) /\ Len(Message) \in Nat
        /\ Begin(o, Message, Len(Message))
        /\ \A i \in 1..Len(Message) : Message[i].namelen \in Nat
    BY MessageIs
  <1>2. n + 1 \in 1..Len(Message) /\ n \in 0..Len(Message) /\ n \in Nat
    BY <1>1
  <1>3. \A i, j \in 0..Len(Message) : i < j => o[i] < o[j]
    BY <1>1, OffsetsGrow
  <1>4. o[n + 1] = o[n] + 2 + Message[n + 1].namelen /\ o[n] \in Nat /\ o[n + 1] \in Nat
    BY <1>1, <1>2 DEF Begin
  <1>5. EventAt = {n + 1}
    <2>1. ASSUME NEW i \in EventAt
          PROVE  i = n + 1
      <3>1. i - 1 \in 0..Len(Message) /\ o[i - 1] = o[n] /\ i \in Nat
        BY <1>1, <2>1 DEF EventAt, AtEvent
      <3>2. ~(o[n] < o[n])
        BY <1>4
      <3>3. ~(i - 1 < n) /\ ~(n < i - 1)
        BY <1>2, <1>3, <3>1, <3>2
      <3> QED
        BY <1>2, <3>1, <3>3
    <2>2. n + 1 \in EventAt
      BY <1>2 DEF EventAt, AtEvent
    <2> QED
      BY <2>1, <2>2
  <1>6. Headers = {<<n + 1, Message[n + 1].event, Message[n + 1].namelen>>}
    BY <1>5 DEF Headers
  <1>7. Bytes(Message) >= o[n + 1] /\ Bytes(Message) \in Nat
    <2>1. Bytes(Message) = o[Len(Message)] /\ Len(Message) \in 0..Len(Message)
      BY <1>1 DEF Bytes
    <2>2. Bytes(Message) \in Nat
      BY <1>1, <2>1 DEF Begin
    <2>3. n + 1 = Len(Message) \/ o[n + 1] < o[Len(Message)]
      BY <1>1, <1>2, <1>3
    <2> QED
      BY <1>4, <2>1, <2>2, <2>3
  <1>8. size >= Message[n + 1].namelen + 2 /\ Message[n + 1].namelen \in Nat
    <2>1. size = Bytes(Message) + 2 * n - o[n] /\ Message[n + 1].namelen \in Nat
      BY <1>1, <1>2 DEF AtEvent
    <2> HIDE DEF o
    <2> QED
      BY <1>2, <1>4, <1>7, <2>1, SMTT(40)
  <1>9. size >= 2
    BY <1>8 DEF TypeOK
  <1>10. Fitting = Headers
    BY <1>6, <1>8, <1>9 DEF Fitting
  <1>11. Mapped(2) /\ Mapped(2 + Message[n + 1].namelen)
    <2>1. Bytes(Message) <= StackBytes
      BY MessageIs, DeviceWatcherAssumption
    <2>2. pos = o[n]
      BY DEF AtEvent
    <2> HIDE DEF o
    <2> QED
      BY <1>4, <1>7, <1>8, <2>1, <2>2, DeviceWatcherAssumption DEF Mapped
  <1> QED
    BY <1>4, <1>6, <1>9, <1>10, <1>11 DEF AtEvent

\* Behind the end of the message no event begins.
LEMMA HeaderBehind ==
  ASSUME TypeOK, received # <<>>, pos >= Bytes(Message), NEW h \in Fitting
  PROVE  h[1] = 0 /\ h[3] \in Nat
  <1>1. /\ Message \in Seq(Events) /\ Len(Message) \in Nat
        /\ Begin(Offsets(Message), Message, Len(Message))
    BY MessageIs
  <1>2. EventAt = {}
    <2> SUFFICES ASSUME NEW i \in EventAt
                 PROVE  FALSE
      OBVIOUS
    <2>1. /\ i - 1 \in 0..Len(Message) /\ i - 1 < Len(Message)
          /\ Len(Message) \in 0..Len(Message)
          /\ Offsets(Message)[i - 1] = pos
      BY <1>1 DEF EventAt
    <2>2. Offsets(Message)[i - 1] < Offsets(Message)[Len(Message)]
      BY <1>1, <2>1, OffsetsGrow
    <2>3. pos \in Nat /\ Offsets(Message)[Len(Message)] \in Nat
      BY <1>1, <2>1 DEF Begin
    <2> QED
      BY <2>1, <2>2, <2>3 DEF Bytes
  <1>3. h \in {0} \X EventTypes \X (0..MaxName)
    BY <1>2 DEF Fitting, Headers
  <1> QED
    BY <1>3, DeviceWatcherAssumption

LEMMA BytesIs ==
  ASSUME TypeOK, received # <<>>
  PROVE  Bytes(Message) \in Nat /\ Bytes(Message) = Offsets(Message)[Len(Message)]
  BY MessageIs DEF Bytes, Begin

\* All devices are before the end of the last message.
LEMMA UptoAll ==
  ASSUME TypeOK, received # <<>>
  PROVE  Upto(Len(Message)) = Devices
  <1>1. /\ Message = received[Len(received)]
        /\ Len(received) \in Nat /\ Len(Message) \in Nat
    BY MessageIs
  <1> QED
    BY <1>1 DEF Upto, Devices, Places

\* What is known and what was told only change with these two variables.
LEMMA SameDevices ==
  ASSUME UNCHANGED <<received, reported>>
  PROVE  /\ Message' = Message /\ Devices' = Devices /\ \A n : Upto(n)' = Upto(n)
         /\ Found' = Found /\ Told' = Told
         /\ ToldInv => ToldInv'
  BY SMTT(40) DEF Message, Devices, Places, Upto, Found, Genuine, Told, ToldInv, Before

\* A report that is no device changes nothing of what was told.
LEMMA ReportsGarbage ==
  ASSUME TypeOK, reported' = Append(reported, <<Len(received), 0>>), UNCHANGED received
  PROVE  Told' = Told /\ (ToldInv => ToldInv')
  <1>1. Len(reported) \in Nat /\ Len(reported') = Len(reported) + 1
    BY AppendProperties, LenProperties DEF TypeOK
  <1>2. /\ \A i \in 1..Len(reported) : reported'[i] = reported[i]
        /\ reported'[Len(reported) + 1] = <<Len(received), 0>>
    BY AppendProperties DEF TypeOK
  <1>3. Found' = Found /\ \A i \in Found : reported'[i] = reported[i]
    BY <1>1, <1>2 DEF Found, Genuine
  <1>4. Told' = Told
    BY <1>3 DEF Told
  <1>5. Devices' = Devices
    BY DEF Devices, Places
  <1>6. ASSUME NEW i \in Found, NEW j \in Found
        PROVE  Before(reported'[i], reported'[j]) = Before(reported[i], reported[j])
    BY <1>3
  <1> QED
    BY <1>3, <1>4, <1>5, <1>6, ZenonT(60) DEF ToldInv, Before

\* A device is reported when all those before it were.
LEMMA ReportsDevice ==
  ASSUME TypeOK, ToldInv, received # <<>>, UNCHANGED received,
         NEW n \in 0..(Len(Message) - 1), Told = Upto(n),
         Message[n + 1].event # "other",
         reported' = Append(reported, <<Len(received), n + 1>>)
  PROVE  Told' = Upto(n + 1) /\ ToldInv'
  <1> DEFINE d == <<Len(received), n + 1>>
             k == Len(reported) + 1
  <1>1. Len(reported) \in Nat /\ Len(reported') = k
    BY AppendProperties, LenProperties DEF TypeOK
  <1>2. (\A i \in 1..Len(reported) : reported'[i] = reported[i]) /\ reported'[k] = d
    BY AppendProperties DEF TypeOK
  <1>3. /\ Message = received[Len(received)]
        /\ Len(received) \in Nat \ {0} /\ Len(Message) \in Nat /\ n \in Nat
    BY MessageIs
  <1>4. Found' = Found \cup {k} /\ \A i \in Found : reported'[i] = reported[i]
    BY <1>1, <1>2, <1>3 DEF Found, Genuine
  <1>5. Told' = Told \cup {d}
    BY <1>2, <1>4, ZenonT(60) DEF Told
  <1>6. d \in Devices
    BY <1>3 DEF Devices, Places
  <1>7. \A c \in Devices : c = <<c[1], c[2]>> /\ c[1] \in 1..Len(received) /\ c[2] \in Nat
    <2> SUFFICES ASSUME NEW j \in 1..Len(received), NEW i \in Places(j)
                 PROVE  <<j, i>>[2] \in Nat
      BY DEF Devices
    <2> QED
      BY DEF Places
  <1>8. Upto(n + 1) = Upto(n) \cup {d}
    <2>1. ASSUME NEW c \in Upto(n + 1), c \notin Upto(n)
          PROVE  c = d
      <3>1. c \in Devices /\ c = <<c[1], c[2]>> /\ c[1] \in 1..Len(received) /\ c[2] \in Nat
        BY <1>7 DEF Upto
      <3>2. c[1] = Len(received) /\ c[2] <= n + 1 /\ ~(c[2] <= n)
        BY <1>3, <2>1, <3>1 DEF Upto
      <3>3. c[2] = n + 1
        BY <1>3, <3>1, <3>2
      <3> QED
        BY <3>1, <3>2, <3>3
    <2>2. d \in Upto(n + 1)
      BY <1>3, <1>6 DEF Upto
    <2>3. ASSUME NEW c \in Upto(n)
          PROVE  c \in Upto(n + 1)
      <3>1. c \in Devices /\ c[2] \in Nat /\ (c[1] < Len(received) \/ c[2] <= n)
        BY <1>7 DEF Upto
      <3> QED
        BY <1>3, <3>1 DEF Upto
    <2> QED
      BY <2>1, <2>2, <2>3
  <1>9. Devices' = Devices
    BY DEF Devices, Places
  <1>10. \A c \in Devices : Before(c, d) => c \in Upto(n)
    BY <1>3, <1>7 DEF Before, Upto
  <1>11. \A c \in Upto(n) : Before(c, d)
    BY <1>3, <1>7 DEF Before, Upto
  <1>12. ASSUME NEW i \in Found', NEW j \in Found', i < j
         PROVE  Before(reported'[i], reported'[j])
    <2>1. CASE j = k
      <3>1. i \in Nat /\ k \in Nat
        BY <1>1, <1>4 DEF Found
      <3>2. i \in Found
        BY <1>4, <1>12, <2>1, <3>1
      <3>3. reported'[i] \in Upto(n)
        BY <1>4, <3>2 DEF Told
      <3> QED
        BY <1>2, <1>11, <2>1, <3>3
    <2>2. CASE j # k
      <3>1. j \in Found /\ i \in 1..Len(reported') /\ j \in 1..Len(reported)
        BY <1>4, <2>2 DEF Found
      <3>2. i \in Found
        BY <1>1, <1>4, <1>12, <3>1
      <3> QED
        BY <1>4, <1>12, <3>1, <3>2 DEF ToldInv
    <2> QED
      BY <2>1, <2>2
  <1>13. Told' \subseteq Devices'
    BY <1>5, <1>6, <1>9 DEF ToldInv
  <1>14. ASSUME NEW e \in Told'
         PROVE  {c \in Devices' : Before(c, e)} \subseteq Told'
    BY <1>5, <1>9, <1>10 DEF ToldInv
  <1>15. ToldInv'
    BY <1>12, <1>13, <1>14 DEF ToldInv, Before
  <1> QED
    BY <1>5, <1>8, <1>15

\* A new message is behind all that was reported.
LEMMA ReadsMessage ==
  ASSUME TypeOK, ToldInv, Told = Devices, NEW m \in Messages,
         received' = Append(received, m), UNCHANGED reported
  PROVE  Message' = m /\ Told' = Upto(0)' /\ ToldInv'
  <1>1. received \in Seq(Messages) /\ Len(received) \in Nat
    BY LenProperties DEF TypeOK
  <1>2. /\ Len(received') = Len(received) + 1
        /\ \A i \in 1..Len(received) : received'[i] = received[i]
        /\ received'[Len(received')] = m
    BY <1>1, AppendProperties
  <1>3. Message' = m
    BY <1>2 DEF Message, Last
  <1>4. Found' = Found /\ Told' = Told
    BY DEF Found, Genuine, Told
  <1>5. \A i \in 1..Len(received) : Places(i)' = Places(i)
    BY <1>2 DEF Places
  <1>6. Devices' = Devices \cup ({Len(received) + 1} \X Places(Len(received))')
    <2> DEFINE new == {Len(received) + 1} \X Places(Len(received))'
    <2>1. 1..Len(received') = 1..Len(received) \cup {Len(received) + 1}
      BY <1>1, <1>2
    <2>2. \A c : c \in Devices' <=> \E i \in 1..Len(received') : c \in {i} \X Places(i)'
      BY DEF Devices
    <2>3. \A c : c \in Devices <=> \E i \in 1..Len(received) : c \in {i} \X Places(i)
      BY DEF Devices
    <2>4. \A c : c \in Devices' <=> c \in Devices \/ c \in new
      <3>1. \A i \in 1..Len(received) : {i} \X Places(i)' = {i} \X Places(i)
        BY <1>5
      <3>2. \A c : c \in Devices' <=>
              (\E i \in 1..Len(received) : c \in {i} \X Places(i)') \/ c \in new
        BY <1>2, <2>1, <2>2 DEF Places
      <3> HIDE DEF new
      <3> QED
        BY <2>3, <3>1, <3>2
    <2> HIDE DEF new
    <2>5. Devices' = Devices \cup new
      BY <2>4
    <2> QED
      BY <2>5 DEF new
  <1>7. \A c \in Devices : c[1] \in 1..Len(received)
    BY DEF Devices
  <1>8. \A c \in {Len(received) + 1} \X Places(Len(received))' :
          c[1] = Len(received) + 1 /\ c[2] \in Nat \ {0}
    BY DEF Places
  <1>9. Upto(0)' = Devices
    BY <1>1, <1>2, <1>6, <1>7, <1>8 DEF Upto
  <1>10. \A d \in Devices : {c \in Devices' : Before(c, d)} \subseteq Devices
    BY <1>1, <1>6, <1>7, <1>8 DEF Before
  <1>11. ToldInv'
    BY <1>4, <1>6, <1>10 DEF ToldInv, Before
  <1> QED
    BY <1>3, <1>4, <1>9, <1>11

LEMMA InitCover == Init => ToldInv /\ CoverInv
  <1> SUFFICES ASSUME Init
               PROVE  ToldInv /\ CoverInv
    OBVIOUS
  <1>1. received = <<>> /\ reported = <<>> /\ at = "idle"
    BY DEF Init
  <1>2. Found = {} /\ Told = {} /\ Devices = {}
    BY <1>1 DEF Found, Told, Devices
  <1> QED
    BY <1>1, <1>2 DEF ToldInv, CoverInv

LEMMA SizeAtNext ==
  ASSUME NEW b \in Nat, NEW n \in Nat, NEW p \in Nat, NEW l \in Nat
  PROVE  (b + 2 * n - p) - l = b + 2 * (n + 1) - (p + 2 + l)
  OBVIOUS

LEMMA StepCover ==
  DWInv /\ ToldInv /\ CoverInv /\ [Next]_vars => ToldInv' /\ CoverInv'
  <1> SUFFICES ASSUME DWInv, ToldInv, CoverInv, [Next]_vars
               PROVE  ToldInv' /\ CoverInv'
    OBVIOUS
  <1> DEFINE Settled(place) == place \notin {"parse", "callback"}
  <1>0. TypeOK /\ LifeInv /\ ParseInv
    BY DEF DWInv
  \* Steps that neither read, nor report, nor move the parser.
  <1>1. ASSUME UNCHANGED <<received, reported>>, Settled(at'), Settled(at) \/ alive = "no",
               alive' = alive \/ alive' = "no" \/ alive = "none"
        PROVE  ToldInv' /\ CoverInv'
    BY <1>1, SameDevices DEF CoverInv
  <1>2. CASE Create \/ Destroy
    <2>1. ASSUME Create
          PROVE  UNCHANGED <<received, reported, at>> /\ at = "idle" /\ alive = "none"
      BY <2>1 DEF Create, parseVars
    <2>2. ASSUME Destroy
          PROVE  /\ UNCHANGED <<received, reported, at, pos, size, namelen>>
                 /\ at \in {"idle", "callback"} /\ alive' = "no"
      BY <2>2 DEF Destroy, parseVars
    <2>3. CASE at = "idle"
      BY <1>1, <1>2, <2>1, <2>2, <2>3
    <2>4. CASE at = "callback"
      <3>1. /\ UNCHANGED <<received, reported, at, pos, size, namelen>>
            /\ alive' = "no"
        BY <1>2, <2>1, <2>2, <2>4
      <3>2. /\ Message' = Message /\ Devices' = Devices /\ \A n : Upto(n)' = Upto(n)
            /\ Told' = Told /\ ToldInv'
        BY <3>1, SameDevices
      <3> QED
        BY <2>4, <3>1, <3>2 DEF CoverInv, AtEvent
    <2> QED
      BY <1>2, <2>1, <2>2, <2>3, <2>4
  <1>3. CASE ReadMessage
    <2>1. /\ channel \in Seq(Messages) /\ channel # <<>>
          /\ received' = Append(received, Head(channel)) /\ reported' = reported
          /\ at = "OnHandleReady" /\ at' = "parse"
          /\ pos' = 0 /\ size' = Bytes(Head(channel))
      BY <1>0, <1>3 DEF ReadMessage, TypeOK
    <2> DEFINE m == Head(channel)
    <2>2. m \in Messages
      BY <2>1, HeadTailProperties
    <2>3. Told = Devices
      BY <1>0, <2>1 DEF CoverInv, LifeInv, NoDanglingWatcher
    <2>4. Message' = m /\ Told' = Upto(0)' /\ ToldInv'
      BY <1>0, <2>1, <2>2, <2>3, ReadsMessage
    <2>5. m \in Seq(Events) /\ Len(m) \in Nat /\ Offsets(m)[0] = 0 /\ Bytes(m) \in Nat
      BY <2>2, DeviceWatcherAssumption, EventsOf, OffsetsBegin DEF Begin
    <2>6. AtEvent(0)' /\ 0 \in 0..Len(Message')
      BY <2>1, <2>4, <2>5 DEF AtEvent
    <2> QED
      BY <2>1, <2>4, <2>6 DEF CoverInv
  <1>4. CASE PeerClosed \/ OnHandleError
    BY <1>1, <1>4 DEF PeerClosed, OnHandleError, parseVars
  \* The parser stops at no event of the message: each fits and is in memory.
  <1>5. CASE ParseEnds \/ ParseFaults
    <2>1. /\ UNCHANGED <<received, reported, alive>>
          /\ at = "parse" /\ at' \in {"return", "fault"}
          /\ \/ size < 2 \/ Headers \ Fitting # {}
             \/ ~Mapped(2) \/ \E h \in Fitting : ~Mapped(2 + h[3])
      BY <1>5 DEF ParseEnds, ParseFaults, parseVars
    <2>2. received # <<>> /\ size \in Nat
      BY <1>0, <2>1 DEF ParseInv, TypeOK
    <2>3. Told = Devices
      <3>1. CASE \E n \in 0..Len(Message) : AtEvent(n) /\ Told = Upto(n)
        <4>1. PICK n \in 0..Len(Message) : AtEvent(n) /\ Told = Upto(n)
          BY <3>1
        <4>2. Len(Message) \in Nat
          BY <1>0, <2>2, MessageIs
        <4>3. n \notin 0..(Len(Message) - 1)
          <5> SUFFICES ASSUME n \in 0..(Len(Message) - 1)
                       PROVE  FALSE
            OBVIOUS
          <5>1. /\ Fitting = Headers /\ size >= 2
                /\ Mapped(2) /\ \A h \in Fitting : Mapped(2 + h[3])
            BY <1>0, <2>2, <4>1, HeaderAtEvent
          <5> QED
            BY <2>1, <2>2, <5>1
        <4>4. n = Len(Message)
          BY <4>2, <4>3
        <4> QED
          BY <1>0, <2>2, <4>1, <4>4, UptoAll
      <3> QED
        BY <2>1, <3>1 DEF CoverInv
    <2> QED
      BY <2>1, <2>3, SameDevices DEF CoverInv
  <1>7. CASE ParseSkips \/ ParseReports
    <2>1. PICK h \in Fitting :
            \/ /\ h[2] = "other" /\ Advance(h[3])
               /\ at' = "parse" /\ UNCHANGED reported
            \/ /\ h[2] # "other" /\ namelen' = h[3]
               /\ reported' = Append(reported, <<Len(received), h[1]>>)
               /\ at' = "callback" /\ UNCHANGED <<pos, size>>
      BY <1>7 DEF ParseSkips, ParseReports
    <2>2. at = "parse" /\ UNCHANGED <<received, alive>> /\ received # <<>>
      BY <1>0, <1>7 DEF ParseSkips, ParseReports, ParseInv
    <2>3. Message' = Message /\ Devices' = Devices /\ \A n : Upto(n)' = Upto(n)
      BY <2>2 DEF Message, Devices, Places, Upto
    <2>4. Len(Message) \in Nat /\ Bytes(Message) \in Nat /\ pos \in Nat /\ size \in Nat
      BY <1>0, <2>2, MessageIs, BytesIs, DeviceWatcherAssumption DEF TypeOK
    <2>5. ASSUME NEW n \in 0..(Len(Message) - 1), AtEvent(n), Told = Upto(n)
          PROVE  ToldInv' /\ CoverInv'
      <3>1. /\ h = <<n + 1, Message[n + 1].event, Message[n + 1].namelen>>
            /\ Offsets(Message)[n + 1] = pos + 2 + Message[n + 1].namelen
        BY <1>0, <2>2, <2>5, HeaderAtEvent
      <3>2. Message[n + 1].namelen \in Nat /\ n \in Nat /\ n + 1 \in 0..Len(Message)
        BY <1>0, <2>2, <2>4, MessageIs
      <3>3. CASE h[2] = "other"
        <4>1. Advance(h[3]) /\ at' = "parse" /\ UNCHANGED reported
          BY <2>1, <3>3
        <4>2. Told' = Told /\ ToldInv'
          BY <2>2, <4>1, SameDevices
        <4>3. Upto(n + 1) = Upto(n)
          <5>1. \A d \in Devices : d[1] = Len(received) => d[2] # n + 1
            <6> SUFFICES ASSUME NEW j \in 1..Len(received), NEW i \in Places(j),
                                j = Len(received), i = n + 1
                         PROVE  FALSE
              BY DEF Devices
            <6> QED
              BY <1>0, <2>2, <3>1, <3>3, MessageIs DEF Places
          <5>2. \A d \in Devices : d[2] \in Nat /\ d[1] \in 1..Len(received)
            BY DEF Devices, Places
          <5>3. Len(received) \in Nat
            BY <1>0, <2>2, MessageIs
          <5> QED
            BY <3>2, <5>1, <5>2, <5>3 DEF Upto
        <4>4. AtEvent(n + 1)'
          <5>1. pos' = pos + 2 + h[3] /\ size' = size - h[3]
            BY <4>1 DEF Advance
          <5>2. pos' = Offsets(Message)[n + 1]
            BY <3>1, <5>1
          <5>3. size = Bytes(Message) + 2 * n - pos
            BY <2>5 DEF AtEvent
          <5>4. size' = Bytes(Message) + 2 * (n + 1) - pos'
            <6>1. h[3] = Message[n + 1].namelen
              BY <3>1
            <6>2. h[3] \in Nat /\ n \in Nat
              BY <3>2, <6>1
            <6>3. (Bytes(Message) + 2 * n - pos) - h[3]
                    = Bytes(Message) + 2 * (n + 1) - (pos + 2 + h[3])
              BY <2>4, <6>2, SizeAtNext, SMTT(40)
            <6> QED
              BY <5>1, <5>3, <6>3, Zenon
          <5> QED
            BY <2>3, <5>2, <5>4 DEF AtEvent
        <4> QED
          BY <2>3, <2>5, <3>2, <4>1, <4>2, <4>3, <4>4 DEF CoverInv
      <3>4. CASE h[2] # "other"
        <4>1. /\ namelen' = Message[n + 1].namelen
              /\ reported' = Append(reported, <<Len(received), n + 1>>)
              /\ at' = "callback" /\ UNCHANGED <<pos, size>>
          BY <2>1, <3>1, <3>4
        <4>2. Told' = Upto(n + 1) /\ ToldInv'
          BY <1>0, <2>2, <2>5, <3>1, <3>4, <4>1, ReportsDevice
        <4>3. AtEvent(n)'
          BY <2>3, <2>5, <4>1 DEF AtEvent
        <4> QED
          BY <2>3, <4>1, <4>2, <4>3 DEF CoverInv
      <3> QED
        BY <3>3, <3>4
    <2>6. ASSUME pos >= Bytes(Message), Told = Devices
          PROVE  ToldInv' /\ CoverInv'
      <3>1. h[1] = 0 /\ h[3] \in Nat
        BY <1>0, <2>2, <2>6, HeaderBehind
      <3>2. CASE h[2] = "other"
        <4>1. Advance(h[3]) /\ at' = "parse" /\ UNCHANGED reported
          BY <2>1, <3>2
        <4>2. Told' = Told /\ ToldInv'
          BY <2>2, <4>1, SameDevices
        <4>3. pos' > Bytes(Message)
          BY <2>4, <2>6, <3>1, <4>1 DEF Advance
        <4> QED
          BY <2>3, <2>6, <4>1, <4>2, <4>3 DEF CoverInv, Bytes
      <3>3. CASE h[2] # "other"
        <4>1. /\ reported' = Append(reported, <<Len(received), 0>>)
              /\ at' = "callback" /\ UNCHANGED <<pos, size>>
          BY <2>1, <3>1, <3>3
        <4>2. Told' = Told /\ ToldInv'
          BY <1>0, <2>2, <4>1, ReportsGarbage
        <4> QED
          BY <2>3, <2>6, <4>1, <4>2 DEF CoverInv, Bytes
      <3> QED
        BY <3>2, <3>3
    <2>7. ASSUME AtEvent(Len(Message)), Told = Upto(Len(Message))
          PROVE  pos >= Bytes(Message) /\ Told = Devices
      BY <1>0, <2>2, <2>4, <2>7, BytesIs, UptoAll DEF AtEvent
    <2>8. CASE \E n \in 0..Len(Message) : AtEvent(n) /\ Told = Upto(n)
      <3>1. PICK n \in 0..Len(Message) : AtEvent(n) /\ Told = Upto(n)
        BY <2>8
      <3>2. n \in 0..(Len(Message) - 1) \/ n = Len(Message)
        BY <2>4
      <3> QED
        BY <2>5, <2>6, <2>7, <3>1, <3>2
    <2>9. CASE pos > Bytes(Message) /\ Told = Devices
      BY <2>4, <2>6, <2>9
    <2> QED
      BY <2>2, <2>8, <2>9 DEF CoverInv
  <1>8. CASE CallbackReturns
    <2>1. at = "callback" /\ UNCHANGED <<received, reported, alive>> /\ received # <<>>
      BY <1>0, <1>8 DEF CallbackReturns, ParseInv
    <2>2. /\ Message' = Message /\ Devices' = Devices /\ \A n : Upto(n)' = Upto(n)
          /\ Told' = Told /\ ToldInv'
      BY <2>1, SameDevices
    <2>3. /\ Len(Message) \in Nat /\ Bytes(Message) \in Nat /\ pos \in Nat /\ size \in Nat
          /\ namelen \in Nat
      BY <1>0, <2>1, MessageIs, BytesIs, DeviceWatcherAssumption DEF TypeOK
    <2>4. CASE alive = "yes"
      <3>1. at' = "parse" /\ pos' = pos + 2 + namelen /\ size' = size - namelen
        BY <1>8, <2>4 DEF CallbackReturns, Advance
      <3>2. ASSUME NEW n \in 0..(Len(Message) - 1),
                   AtEvent(n) /\ namelen = Message[n + 1].namelen /\ Told = Upto(n + 1)
            PROVE  CoverInv'
        <4>1. pos' = Offsets(Message)[n + 1]
          BY <1>0, <2>1, <3>1, <3>2, HeaderAtEvent
        <4>2. n + 1 \in 0..Len(Message) /\ n \in Nat
          BY <2>3
        <4>3. size = Bytes(Message) + 2 * n - pos
          BY <3>2 DEF AtEvent
        <4>4. size' = Bytes(Message) + 2 * (n + 1) - pos'
          BY <2>3, <3>1, <4>2, <4>3
        <4>5. AtEvent(n + 1)'
          BY <2>2, <4>1, <4>4 DEF AtEvent
        <4> QED
          BY <2>2, <3>1, <3>2, <4>2, <4>5 DEF CoverInv
      <3>3. ASSUME pos >= Bytes(Message), Told = Devices
            PROVE  CoverInv'
        <4>1. pos' > Bytes(Message)
          BY <2>3, <3>1, <3>3
        <4> QED
          BY <2>2, <3>1, <3>3, <4>1 DEF CoverInv, Bytes
      <3> QED
        BY <2>1, <2>2, <3>2, <3>3 DEF CoverInv
    <2>5. CASE alive # "yes"
      <3>1. alive = "no"
        BY <1>0, <2>1, <2>5 DEF LifeInv, TypeOK
      <3> QED
        BY <1>8, <2>1, <2>2, <2>5, <3>1 DEF CallbackReturns, CoverInv
    <2> QED
      BY <2>4, <2>5
  <1>9. CASE (\E m \in Messages : FileSystemSends(m)) \/ FileSystemCloses \/ UNCHANGED vars
             \/ Terminated
    <2>1. UNCHANGED <<received, reported, at, pos, size, namelen, alive>>
      BY <1>9 DEF FileSystemSends, FileSystemCloses, Terminated, vars, parseVars
    <2>2. /\ Message' = Message /\ Devices' = Devices /\ \A n : Upto(n)' = Upto(n)
          /\ Told' = Told /\ ToldInv'
      BY <2>1, SameDevices
    <2> QED
      BY <2>1, <2>2 DEF CoverInv, AtEvent
  <1>10. CASE LoopCallsReady \/ LoopCallsError \/ LoopReturns \/ LoopCloses \/ LoopEnds
    <2>1. /\ UNCHANGED <<received, reported, alive>>
          /\ at \in {"idle", "return"}
          /\ at' \in {"idle", "OnHandleReady", "OnHandleError"}
      BY <1>10 DEF LoopCallsReady, LoopCallsError, LoopReturns, LoopCloses, LoopEnds, parseVars
    <2> QED
      BY <1>1, <2>1
  <1> QED
    BY <1>2, <1>3, <1>4, <1>5, <1>7, <1>8, <1>9, <1>10 DEF Next, WatcherStep

\* DeviceWatcher reports each device of each message, once and in the order
\* sent, for any messages that fit the buffer and whatever the bytes behind
\* them: size, which is not decreased by the headers, keeps the parser going
\* too long, possibly out of the buffer and off the stack, but never ends it
\* before the last device.
THEOREM EveryDeviceReported == Spec => []EveryDevice
  <1>1. Spec => [](ToldInv /\ CoverInv)
    BY InitCover, StepCover, Inductive, PTL DEF Spec
  <1>2. DWInv /\ ToldInv /\ CoverInv => EveryDevice
    BY DEF DWInv, ToldInv, CoverInv, EveryDevice
  <1> QED
    BY <1>1, <1>2, Inductive, PTL
-----------------------------------------------------------------------------
(* The loop *)

\* Each step of the watcher is one that the loop's contract has, or none of
\* the loop's.
LEMMA StepsOfLoop == [Next]_vars => [Loop!Next]_Loop!vars
  <1> SUFFICES ASSUME [Next]_vars
               PROVE  Loop!Next \/ UNCHANGED Loop!vars
    OBVIOUS
  <1> USE DEF Loop!vars, loopVars, Loop!Next
  <1>1. CASE Create \/ Destroy
    BY <1>1 DEF Create, Destroy
  <1>2. CASE WatcherStep
    BY <1>2 DEF WatcherStep, ReadMessage, PeerClosed, OnHandleError, ParseEnds, ParseFaults,
       ParseSkips, ParseReports, CallbackReturns
  <1>3. CASE LoopCallsReady \/ LoopCallsError \/ LoopReturns \/ LoopCloses \/ LoopEnds
    BY <1>3 DEF LoopCallsReady, LoopCallsError, LoopReturns, LoopCloses, LoopEnds
  <1>4. CASE (\E m \in Messages : FileSystemSends(m)) \/ FileSystemCloses
    BY <1>4 DEF FileSystemSends, FileSystemCloses
  <1>5. CASE Terminated \/ UNCHANGED vars
    BY <1>5 DEF Terminated, vars
  <1> QED
    BY <1>1, <1>2, <1>3, <1>4, <1>5 DEF Next

\* DeviceWatcher is a client the loop's contract is written for, destroyed in
\* its callback or elsewhere.
THEOREM WatcherUsesLoop == Spec => Loop!Spec
  <1>1. Init => Loop!Init
    BY DEF Init
  <1> QED
    BY <1>1, StepsOfLoop, PTL DEF Spec, Loop!Spec
=============================================================================
