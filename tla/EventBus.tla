-------------------------------- MODULE EventBus --------------------------------
(***************************************************************************)
(* The event bus: internal/engine/events.go.                               *)
(*                                                                         *)
(* Publish appends to the recent history and offers the event to every     *)
(* registered subscriber without waiting; Subscribe fills a new channel    *)
(* with the history and registers it; cancel unregisters and closes it,    *)
(* then drains it.  All but the drain happens under b.mu.  An event is the *)
(* number of its publication.                                              *)
(*                                                                         *)
(* A channel is modelled by all the events ever sent on it (sent[r]) and   *)
(* how many of them were received (read[r]); its buffer is what is between.*)
(* The readers are the WebSocket handler (api/ws.go), the tray and the     *)
(* autostart watcher; each cancels from the goroutine that reads.          *)
(***************************************************************************)
EXTENDS Naturals, Sequences

CONSTANTS
  Reader,      \* the goroutines that subscribe
  RecentCap,   \* recentEventsCap, 200 in the code
  BufSize,     \* the argument of Subscribe
  MaxEvents    \* bound: events published

ASSUME BusConstants ==
  /\ RecentCap \in Nat \ {0}
  /\ BufSize \in Nat \ {0}
  /\ MaxEvents \in Nat

VARIABLES
  count,       \* events published so far
  recent,      \* b.recent
  subs,        \* b.subs: the readers that are registered
  filling,     \* the reader whose Subscribe holds b.mu, as a set of at most one
  closed,      \* readers whose channel is closed and not yet drained
  sent,        \* per reader, the events sent on its channel
  read,        \* per reader, how many of them were received
  joined,      \* history: count when the reader subscribed
  missed       \* history: events dropped because the buffer was full

vars == <<count, recent, subs, filling, closed, sent, read, joined, missed>>

Event == 1 .. MaxEvents

TypeOK ==
  /\ count \in 0 .. MaxEvents
  /\ recent \in Seq(Event) /\ Len(recent) <= RecentCap
  /\ subs \subseteq Reader
  /\ filling \subseteq Reader
  /\ closed \subseteq Reader
  /\ sent \in [Reader -> Seq(Event)]
  /\ read \in [Reader -> Nat]
  /\ joined \in [Reader -> Nat]
  /\ missed \in [Reader -> Nat]

Init ==
  /\ count = 0 /\ recent = <<>>
  /\ subs = {} /\ filling = {} /\ closed = {}
  /\ sent = [r \in Reader |-> <<>>]
  /\ read = [r \in Reader |-> 0]
  /\ joined = [r \in Reader |-> 0]
  /\ missed = [r \in Reader |-> 0]

-----------------------------------------------------------------------------
(* Ways this code could be wrong: each replaces the definition it names to    *)
(* show that a property of this module notices.                               *)

BufferOnly == BufSize                                     \* Capacity
LockIgnored == TRUE                                       \* Unlocked
TrimsLate(s) == IF Len(s) > RecentCap THEN Tail(s) ELSE s \* Trim
TrimsNewest(s) ==                                         \* Trim
  IF Len(s) >= RecentCap THEN SubSeq(s, 1, Len(s) - 1) ELSE s

-----------------------------------------------------------------------------

\* The capacity of a subscriber's channel.
Capacity == BufSize + RecentCap

Buffered(r) == Len(sent[r]) - read[r]

\* b.mu can be taken: only a Subscribe keeps it across steps of the model.
Unlocked == filling = {}

\* b.recent makes room for one more event.
Trim(s) == IF Len(s) >= RecentCap THEN Tail(s) ELSE s

\* The event goes to the subscribers whose channel has room.
Publish ==
  /\ count < MaxEvents
  /\ Unlocked
  /\ count' = count + 1
  /\ recent' = Append(Trim(recent), count')
  /\ LET full == {r \in subs : Buffered(r) >= Capacity} IN
       /\ sent' = [r \in Reader |->
                     IF r \in subs \ full THEN Append(sent[r], count')
                                          ELSE sent[r]]
       /\ missed' = [r \in Reader |->
                       IF r \in full THEN missed[r] + 1 ELSE missed[r]]
  /\ UNCHANGED <<subs, filling, closed, read, joined>>

\* Subscribe makes a channel and takes the lock ...
SubscribeBegin(r) ==
  /\ Unlocked
  /\ r \notin subs \cup closed
  /\ filling' = {r}
  /\ sent' = [sent EXCEPT ![r] = <<>>]
  /\ read' = [read EXCEPT ![r] = 0]
  /\ joined' = [joined EXCEPT ![r] = count]
  /\ missed' = [missed EXCEPT ![r] = 0]
  /\ UNCHANGED <<count, recent, subs, closed>>

\* ... sends it the history - a send that would wait for room, with the lock
\* held and no reader yet ...
SendRecent(r) ==
  /\ r \in filling
  /\ Len(sent[r]) < Len(recent)
  /\ Buffered(r) < Capacity
  /\ sent' = [sent EXCEPT ![r] = Append(@, recent[Len(@) + 1])]
  /\ UNCHANGED <<count, recent, subs, filling, closed, read, joined, missed>>

\* ... and registers it.
SubscribeEnd(r) ==
  /\ r \in filling
  /\ Len(sent[r]) = Len(recent)
  /\ subs' = subs \cup {r}
  /\ filling' = {}
  /\ UNCHANGED <<count, recent, closed, sent, read, joined, missed>>

Receive(r) ==
  /\ r \in subs
  /\ Buffered(r) > 0
  /\ read' = [read EXCEPT ![r] = @ + 1]
  /\ UNCHANGED <<count, recent, subs, filling, closed, sent, joined, missed>>

\* cancel, under the lock ...
Cancel(r) ==
  /\ Unlocked
  /\ r \in subs
  /\ subs' = subs \ {r}
  /\ closed' = closed \cup {r}
  /\ UNCHANGED <<count, recent, filling, sent, read, joined, missed>>

\* ... and after it.
Drain(r) ==
  /\ r \in closed
  /\ read' = [read EXCEPT ![r] = Len(sent[r])]
  /\ closed' = closed \ {r}
  /\ UNCHANGED <<count, recent, subs, filling, sent, joined, missed>>

ReaderStep(r) ==
  \/ SubscribeBegin(r) \/ SendRecent(r) \/ SubscribeEnd(r)
  \/ Receive(r) \/ Cancel(r) \/ Drain(r)

Next == Publish \/ \E r \in Reader : ReaderStep(r)

Spec == Init /\ [][Next]_vars

-----------------------------------------------------------------------------
(* Properties. *)

\* Subscribe never waits for room while it holds the lock of the bus, which
\* would stop every publisher - and with them every supervisor - for good
\* (events.go:77-80).
PrefillNeverBlocks ==
  \A r \in filling : Len(sent[r]) < Len(recent) => Buffered(r) < Capacity

Smaller(a, b) == IF a < b THEN a ELSE b

\* From the history on, a subscriber is sent every event or the bus dropped it
\* on a full buffer: none slips between the copy of the history and the
\* registration (events.go:78-83 against 64-68).
NothingVanishes ==
  \A r \in subs :
    Len(sent[r]) + missed[r] = Smaller(joined[r], RecentCap) + count - joined[r]

\* Whatever the length of the history, a subscriber that reads nothing loses
\* no event before BufSize of them came after it subscribed (events.go:73-77).
BufferHonoured ==
  \A r \in subs : missed[r] > 0 => count > joined[r] + BufSize

\* The bus implements the lossy feed, seen by a reader from the moment its
\* Subscribe returns until it cancels.
Feed == INSTANCE LossyFeed WITH
  History <- RecentCap,
  log <- count,
  feed <- [r \in Reader |-> IF r \in subs THEN sent[r] ELSE <<>>],
  open <- subs

FeedSpec == Feed!Spec
=============================================================================
