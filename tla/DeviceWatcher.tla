---------------------------- MODULE DeviceWatcher ----------------------------
(***************************************************************************)
(* DeviceWatcher: a handler on the channel on which the file system sends  *)
(* what is in a directory and what is added to it.  A message is a run of  *)
(* events, each an event byte, a length byte and a name; OnHandleReady     *)
(* reads one message into a buffer and parses it, and calls the client for *)
(* each device.  The client may destroy the watcher from that callback.    *)
(*                                                                         *)
(* A message is the sequence of its events; of a name only the length      *)
(* matters, and a device is identified by its place, <<message, event>>.   *)
(* Positions and sizes are in bytes.  The parser compares what it reads    *)
(* with size only, never with the end of the buffer, and may leave it.     *)
(* The buffer is a local that is not initialised, and the stack is what    *)
(* lies behind it: where no event begins the parser finds any event byte   *)
(* and any length, in the buffer or not.  A read behind the last mapped    *)
(* byte of the stack ends the process, with at = "fault".                  *)
(*                                                                         *)
(* External: the channel, and the file system behind it, which sends whole *)
(* events.  The message loop is its contract, with one handler, 1.         *)
(* Operators named X_y are faulty variants of X.                           *)
(***************************************************************************)
EXTENDS Integers, Sequences, SequencesExt

CONSTANTS Messages,     \* what the file system may send: sequences of events
          MaxMessages,  \* bound on the messages sent
          MaxName,      \* bound on the lengths found in uninitialised bytes
          BufferBytes,  \* VFS_WATCH_MSG_MAX
          StackBytes    \* from the start of buf to the end of the mapped stack

EventTypes == {"added", "existing", "other"}
Events == [event : EventTypes, namelen : Nat]

\* Where the events of a message begin, and, at Len(m), where the message ends.
Offsets(m) ==
  LET offset[i \in 0..Len(m)] == IF i = 0 THEN 0 ELSE offset[i - 1] + 2 + m[i].namelen
  IN  offset

Bytes(m) == Offsets(m)[Len(m)]

ASSUME DeviceWatcherAssumption ==
  /\ MaxMessages \in Nat /\ MaxName \in Nat /\ BufferBytes \in Nat
  /\ StackBytes \in Nat /\ BufferBytes <= StackBytes
  /\ \A m \in Messages :
       /\ m \in Seq(Events)
       /\ Bytes(m) \in 1..BufferBytes

VARIABLES
  status, calling, callback, phase,   \* of HandlerContract
  alive,        \* "none" before Create, "yes", "no"
  dir_watch_,   \* whether the watcher's end of the channel is open
  channel,      \* messages sent and not read
  peer,         \* whether the file system's end is open
  received,     \* messages read
  at,           \* the watcher's frame
  pos, size,    \* locals of OnHandleReady: msg - buf, and what is left
  namelen,      \* of the event the callback was called for
  reported      \* what the client was told

Loop == INSTANCE HandlerContract WITH Handlers <- {1}, NoHandler <- 0

loopVars == <<status, calling, callback, phase>>
channelVars == <<channel, peer>>
parseVars == <<received, pos, size, namelen, reported>>
vars == <<loopVars, alive, dir_watch_, channelVars, at, parseVars>>

Frames == {"idle", "OnHandleReady", "OnHandleError", "parse", "callback", "return",
           "fault"}

TypeOK ==
  /\ status \in [{1} -> {"unused", "registered", "removed"}]
  /\ calling \in {0, 1}
  /\ callback \in {"none", "ready", "error"}
  /\ phase \in {"open", "closing", "ended"}
  /\ alive \in {"none", "yes", "no"}
  /\ dir_watch_ \in BOOLEAN
  /\ channel \in Seq(Messages)
  /\ peer \in BOOLEAN
  /\ received \in Seq(Messages)
  /\ at \in Frames
  /\ pos \in Nat
  /\ size \in 0..BufferBytes
  /\ namelen \in 0..BufferBytes
  /\ reported \in Seq(Nat \X Nat)

Init ==
  /\ Loop!Init
  /\ alive = "none"
  /\ dir_watch_ = FALSE
  /\ channel = <<>>
  /\ peer = FALSE
  /\ received = <<>>
  /\ at = "idle"
  /\ pos = 0
  /\ size = 0
  /\ namelen = 0
  /\ reported = <<>>
-----------------------------------------------------------------------------
(* What the client does *)

\* Create succeeds: the file system holds the other end, the handler is added.
Create ==
  /\ at = "idle"
  /\ calling = 0
  /\ alive = "none"
  /\ Loop!Add(1)
  /\ alive' = "yes"
  /\ dir_watch_' = TRUE
  /\ peer' = TRUE
  /\ UNCHANGED <<channel, at, parseVars>>

\* ~DeviceWatcher, from the callback or from elsewhere on the loop's thread,
\* while there is a message loop (GetCurrent() is null afterwards).
Destroy ==
  /\ at \in {"idle", "callback"}
  /\ phase # "ended"
  /\ alive = "yes"
  /\ IF status[1] = "registered" THEN Loop!Remove(1) ELSE UNCHANGED loopVars
  /\ alive' = "no"
  /\ dir_watch_' = FALSE
  /\ UNCHANGED <<channelVars, at, parseVars>>
-----------------------------------------------------------------------------
(* The watcher *)

\* MX_CHANNEL_READABLE: up to the loop over the events.
ReadMessage ==
  /\ at = "OnHandleReady"
  /\ channel # <<>>
  /\ received' = Append(received, Head(channel))
  /\ channel' = Tail(channel)
  /\ pos' = 0
  /\ size' = Bytes(Head(channel))
  /\ at' = "parse"
  /\ UNCHANGED <<loopVars, alive, dir_watch_, peer, namelen, reported>>

\* MX_CHANNEL_PEER_CLOSED, and nothing to read.
PeerClosed_First ==
  /\ at = "OnHandleReady"
  /\ ~peer
  /\ dir_watch_' = FALSE
  /\ at' = "return"
  /\ UNCHANGED <<loopVars, alive, channelVars, parseVars>>
PeerClosed ==
  /\ at = "OnHandleReady"
  /\ channel = <<>>
  /\ dir_watch_' = FALSE
  /\ at' = "return"
  /\ UNCHANGED <<loopVars, alive, channelVars, parseVars>>

\* MessageLoopHandler's OnHandleError does nothing.
OnHandleError ==
  /\ at = "OnHandleError"
  /\ at' = "return"
  /\ UNCHANGED <<loopVars, alive, dir_watch_, channelVars, parseVars>>

Message == Last(received)

\* The event of the message that begins at pos, if one does.
EventAt == {i \in 1..Len(Message) : Offsets(Message)[i - 1] = pos}

\* What the parser sees at pos: <<place, event, namelen>>.
Headers ==
  IF EventAt # {}
    THEN {<<i, Message[i].event, Message[i].namelen>> : i \in EventAt}
    ELSE {0} \X EventTypes \X (0..MaxName)

\* The headers that pass the parser's test of the length.
Fitting == IF size >= 2 THEN {h \in Headers : size >= h[3] + 2} ELSE {}

\* The next n bytes can be read.
Mapped(n) == pos + n <= StackBytes

ParseEnds ==
  /\ at = "parse"
  /\ size < 2 \/ (Mapped(2) /\ Headers \ Fitting # {})
  /\ at' = "return"
  /\ UNCHANGED <<loopVars, alive, dir_watch_, channelVars, parseVars>>

\* The header, or the name that is to be reported, cannot be read.
ParseFaults ==
  /\ at = "parse"
  /\ size >= 2
  /\ ~Mapped(2) \/ \E h \in Fitting : h[2] # "other" /\ ~Mapped(2 + h[3])
  /\ at' = "fault"
  /\ UNCHANGED <<loopVars, alive, dir_watch_, channelVars, parseVars>>

\* size is not decreased by the two bytes of the header.
Advance_Header(length) ==
  /\ pos' = pos + length
  /\ size' = size - length
Advance(length) ==
  /\ pos' = pos + 2 + length
  /\ size' = size - length

\* The name of another event is not read.
ParseSkips ==
  /\ at = "parse"
  /\ Mapped(2)
  /\ \E h \in Fitting : h[2] = "other" /\ Advance(h[3])
  /\ UNCHANGED <<loopVars, alive, dir_watch_, channelVars, at, received, namelen, reported>>

ParseReports ==
  /\ at = "parse"
  /\ \E h \in Fitting :
       /\ h[2] # "other"
       /\ Mapped(2 + h[3])
       /\ namelen' = h[3]
       /\ reported' = Append(reported, <<Len(received), h[1]>>)
  /\ at' = "callback"
  /\ UNCHANGED <<loopVars, alive, dir_watch_, channelVars, received, pos, size>>

\* The weak pointer tells whether the callback destroyed the watcher.
CallbackReturns_Unchecked ==
  /\ at = "callback"
  /\ Advance(namelen)
  /\ at' = "parse"
  /\ UNCHANGED <<loopVars, alive, dir_watch_, channelVars, received, namelen, reported>>
CallbackReturns ==
  /\ at = "callback"
  /\ IF alive = "yes" THEN Advance(namelen) /\ at' = "parse"
                      ELSE UNCHANGED <<pos, size>> /\ at' = "return"
  /\ UNCHANGED <<loopVars, alive, dir_watch_, channelVars, received, namelen, reported>>
-----------------------------------------------------------------------------
(* The file system and the message loop *)

FileSystemSends(m) ==
  /\ peer
  /\ Len(received) + Len(channel) < MaxMessages
  /\ channel' = Append(channel, m)
  /\ UNCHANGED <<loopVars, alive, dir_watch_, peer, at, parseVars>>

FileSystemCloses ==
  /\ peer
  /\ peer' = FALSE
  /\ UNCHANGED <<loopVars, alive, dir_watch_, channel, at, parseVars>>

LoopCallsReady ==
  /\ at = "idle"
  /\ dir_watch_
  /\ channel # <<>> \/ ~peer
  /\ Loop!CallReady(1)
  /\ at' = "OnHandleReady"
  /\ UNCHANGED <<alive, dir_watch_, channelVars, parseVars>>

LoopCallsError ==
  /\ at = "idle"
  /\ phase = "closing"
  /\ Loop!CallError(1)
  /\ at' = "OnHandleError"
  /\ UNCHANGED <<alive, dir_watch_, channelVars, parseVars>>

LoopReturns ==
  /\ at = "return"
  /\ Loop!Return
  /\ at' = "idle"
  /\ UNCHANGED <<alive, dir_watch_, channelVars, parseVars>>

LoopCloses ==
  /\ at = "idle"
  /\ Loop!Close
  /\ UNCHANGED <<alive, dir_watch_, channelVars, at, parseVars>>

LoopEnds ==
  /\ at = "idle"
  /\ Loop!End
  /\ UNCHANGED <<alive, dir_watch_, channelVars, at, parseVars>>
-----------------------------------------------------------------------------
WatcherStep ==
  \/ ReadMessage \/ PeerClosed \/ OnHandleError
  \/ ParseEnds \/ ParseFaults \/ ParseSkips \/ ParseReports \/ CallbackReturns

Terminated == (phase = "ended" \/ at = "fault") /\ UNCHANGED vars

Next ==
  \/ Create \/ Destroy
  \/ WatcherStep
  \/ \E m \in Messages : FileSystemSends(m)
  \/ FileSystemCloses
  \/ LoopCallsReady \/ LoopCallsError \/ LoopReturns \/ LoopCloses \/ LoopEnds
  \/ Terminated

Spec == Init /\ [][Next]_vars

FairSpec ==
  /\ Spec
  /\ WF_vars(WatcherStep)
  /\ WF_vars(LoopCallsReady \/ LoopReturns)
-----------------------------------------------------------------------------
\* The parser goes on only with a watcher that exists, and the loop holds no
\* watcher that does not, though the callback may destroy it mid-message.
NoDanglingWatcher ==
  /\ at \in {"OnHandleReady", "OnHandleError", "parse"} => alive = "yes"
  /\ status[1] = "registered" => alive = "yes"

Genuine(r) == r[2] # 0

Places(m) == {i \in 1..Len(received[m]) : received[m][i].event # "other"}

\* The devices of the messages read, and the order in which they were sent.
Devices == UNION {{m} \X Places(m) : m \in 1..Len(received)}
Before(c, d) == c[1] < d[1] \/ (c[1] = d[1] /\ c[2] < d[2])

Found == {i \in 1..Len(reported) : Genuine(reported[i])}
Told == {reported[i] : i \in Found}

\* "Asynchronously invokes callback for all existing devices within the
\* specified directory as well as any subsequently added devices until the
\* device watcher is destroyed": each device of a message is reported, once and
\* in order, whatever else is reported in between; none is passed over, and all
\* are reported when the parser is done, also one that went on behind the end
\* of the message until it could not read any more.  size, unsigned, does not
\* wrap below zero on the way.
EveryDevice ==
  /\ TypeOK
  /\ \A i, j \in Found : i < j => Before(reported[i], reported[j])
  /\ Told \subseteq Devices
  /\ \A d \in Told : {c \in Devices : Before(c, d)} \subseteq Told
  /\ at \in {"return", "fault"} /\ alive = "yes" => Told = Devices

\* "Callback function which is invoked whenever a device is found": and not
\* for anything else, so not for bytes behind the end of the message.
OnlyDevices == \A i \in 1..Len(reported) : Genuine(reported[i])

\* What the file system sends is read, as long as there is a watcher, a loop
\* and, the parser not having run off the stack, a process; also what it sent
\* before it closed its end.
MessagesRead ==
  channel # <<>> /\ alive = "yes"
    ~> channel = <<>> \/ alive = "no" \/ phase # "open" \/ at = "fault"
=============================================================================
