---------------------------- MODULE EventBus_proofs ----------------------------
(***************************************************************************)
(* Proofs about the event bus, for any number of readers and events and    *)
(* any capacities.  The invariant says what the history is (the latest     *)
(* events, in order), what a channel that is being filled holds (a prefix  *)
(* of the history, none of it read) and how the events a subscriber was    *)
(* sent and those it missed add up.                                        *)
(***************************************************************************)
EXTENDS EventBus, TLAPS

\* The history is the latest events, as many as fit.
HistoryInv ==
  /\ Len(recent) = Smaller(count, RecentCap)
  /\ \A i \in 1 .. Len(recent) : recent[i] = count - Len(recent) + i

\* A reader is subscribing, registered, draining or none of these.
PhaseInv ==
  /\ \A r \in filling : filling = {r} /\ r \notin subs \cup closed
  /\ subs \cap closed = {}

\* While the lock is held the channel is filled with the history, in order.
FillInv ==
  \A r \in filling :
    /\ read[r] = 0 /\ missed[r] = 0 /\ joined[r] = count
    /\ Len(sent[r]) <= Len(recent)
    /\ \A i \in 1 .. Len(sent[r]) : sent[r][i] = recent[i]

ReadInv == \A r \in Reader : read[r] <= Len(sent[r]) /\ joined[r] <= count

TypeInv == TypeOK /\ ReadInv

IInv ==
  /\ TypeInv
  /\ HistoryInv
  /\ PhaseInv
  /\ FillInv
  /\ NothingVanishes
  /\ BufferHonoured

-----------------------------------------------------------------------------
(* Types. *)

LEMMA TypeInit == Init => TypeInv
BY BusConstants DEF Init, TypeInv, TypeOK, ReadInv, Event

\* Making room in the history and adding an event to it.
LEMMA TrimType ==
  ASSUME TypeInv
  PROVE  /\ Trim(recent) \in Seq(Event)
         /\ Len(Trim(recent)) < RecentCap
<1>1. /\ recent \in Seq(Event) /\ Len(recent) \in Nat /\ Len(recent) <= RecentCap
      /\ RecentCap \in Nat /\ RecentCap > 0
  BY BusConstants DEF TypeInv, TypeOK
<1>2. CASE Len(recent) < RecentCap
  BY <1>1, <1>2 DEF Trim
<1>3. CASE Len(recent) = RecentCap
  <2>1. recent # <<>>
    BY <1>1, <1>3
  <2>2. Tail(recent) \in Seq(Event) /\ Len(Tail(recent)) = Len(recent) - 1
    BY <1>1, <2>1
  <2> QED
    BY <1>1, <1>3, <2>2 DEF Trim
<1> QED
  BY <1>1, <1>2, <1>3

\* What Publish does to the channel of one reader.
LEMMA Offered ==
  ASSUME TypeInv, Publish, NEW r \in Reader
  PROVE  /\ r \in subs /\ Buffered(r) < Capacity =>
              sent'[r] = Append(sent[r], count') /\ missed'[r] = missed[r]
         /\ r \in subs /\ Buffered(r) >= Capacity =>
              sent'[r] = sent[r] /\ missed'[r] = missed[r] + 1
         /\ r \notin subs => sent'[r] = sent[r] /\ missed'[r] = missed[r]
<1>1. Buffered(r) \in Nat /\ Capacity \in Nat
  BY BusConstants DEF TypeInv, TypeOK, ReadInv, Buffered, Capacity
<1>2. ~(Buffered(r) < Capacity /\ Buffered(r) >= Capacity)
  BY <1>1
<1> QED
  BY <1>2 DEF Publish

\* A channel has room or it has not.
LEMMA OfferedCases ==
  ASSUME TypeInv, NEW r \in Reader
  PROVE  Buffered(r) < Capacity \/ Buffered(r) >= Capacity
<1>1. Buffered(r) \in Nat /\ Capacity \in Nat
  BY BusConstants DEF TypeInv, TypeOK, ReadInv, Buffered, Capacity
<1> QED
  BY <1>1

LEMMA TypePublish == ASSUME TypeInv, Publish PROVE TypeInv'
<1>1. count' = count + 1 /\ count' \in Event /\ count' \in 0 .. MaxEvents
  BY BusConstants DEF TypeInv, TypeOK, Publish, Event
<1>2. recent' \in Seq(Event) /\ Len(recent') <= RecentCap
  <2>1. recent' = Append(Trim(recent), count')
    BY DEF Publish
  <2>2. /\ Append(Trim(recent), count') \in Seq(Event)
        /\ Len(Append(Trim(recent), count')) = Len(Trim(recent)) + 1
    BY <1>1, TrimType
  <2>3. Len(Trim(recent)) \in Nat /\ RecentCap \in Nat
    BY TrimType, BusConstants
  <2> QED
    BY <2>1, <2>2, <2>3, TrimType
<1>3. ASSUME NEW r \in Reader
      PROVE  /\ sent'[r] \in Seq(Event) /\ Len(sent[r]) <= Len(sent'[r])
             /\ missed'[r] \in Nat
  <2>1. sent[r] \in Seq(Event) /\ missed[r] \in Nat /\ Len(sent[r]) \in Nat
    BY DEF TypeInv, TypeOK
  <2>2. /\ Append(sent[r], count') \in Seq(Event)
        /\ Len(Append(sent[r], count')) = Len(sent[r]) + 1
    BY <1>1, <2>1
  <2>3. \/ sent'[r] = sent[r] /\ missed'[r] \in {missed[r], missed[r] + 1}
        \/ sent'[r] = Append(sent[r], count') /\ missed'[r] = missed[r]
    BY Offered, OfferedCases
  <2>4. missed'[r] \in Nat
    BY <2>1, <2>3
  <2>5. CASE sent'[r] = sent[r]
    BY <2>1, <2>4, <2>5
  <2>6. CASE sent'[r] = Append(sent[r], count')
    BY <2>1, <2>2, <2>4, <2>6
  <2> QED
    BY <2>3, <2>5, <2>6
<1>4. sent' \in [Reader -> Seq(Event)] /\ missed' \in [Reader -> Nat]
  <2>1. sent' = [r \in Reader |-> sent'[r]] /\ missed' = [r \in Reader |-> missed'[r]]
    BY DEF Publish
  <2> QED
    BY <1>3, <2>1
<1>5. /\ subs' = subs /\ filling' = filling /\ closed' = closed
      /\ read' = read /\ joined' = joined
  BY DEF Publish
<1>6. ReadInv'
  BY <1>1, <1>3, <1>4, <1>5 DEF TypeInv, TypeOK, ReadInv
<1> QED
  BY <1>1, <1>2, <1>4, <1>5, <1>6 DEF TypeInv, TypeOK

LEMMA TypeReader ==
  ASSUME TypeInv, PhaseInv, NEW r \in Reader, ReaderStep(r)
  PROVE  TypeInv'
<1> USE BusConstants DEF TypeInv, TypeOK, ReadInv, Event
<1>1. CASE SubscribeBegin(r)
  BY <1>1 DEF SubscribeBegin
<1>2. CASE SendRecent(r)
  <2>1. recent[Len(sent[r]) + 1] \in Event
    BY <1>2 DEF SendRecent
  <2> QED
    BY <1>2, <2>1, SMTT(30) DEF SendRecent
<1>3. CASE SubscribeEnd(r)
  BY <1>3 DEF SubscribeEnd
<1>4. CASE Receive(r)
  BY <1>4, SMTT(30) DEF Receive, Buffered
<1>5. CASE Cancel(r)
  BY <1>5 DEF Cancel
<1>6. CASE Drain(r)
  BY <1>6 DEF Drain
<1> QED
  BY <1>1, <1>2, <1>3, <1>4, <1>5, <1>6 DEF ReaderStep

-----------------------------------------------------------------------------
(* The invariant. *)

LEMMA InvInit == Init => IInv
<1> SUFFICES ASSUME Init PROVE IInv
  OBVIOUS
<1>1. TypeInv
  BY TypeInit
<1> QED
  BY <1>1, BusConstants
     DEF Init, IInv, HistoryInv, PhaseInv, FillInv, NothingVanishes,
         BufferHonoured, Smaller

LEMMA HistoryPublish == ASSUME TypeInv, HistoryInv, Publish PROVE HistoryInv'
<1> DEFINE n == Len(recent)
<1>0. /\ recent \in Seq(Event) /\ n \in Nat /\ n <= RecentCap
      /\ RecentCap \in Nat /\ RecentCap > 0
      /\ count \in Nat /\ count' \in Event /\ count' = count + 1
      /\ recent' = Append(Trim(recent), count')
  BY BusConstants DEF TypeInv, TypeOK, Publish, Event
<1>1. n = Smaller(count, RecentCap) /\ \A i \in 1 .. n : recent[i] = count - n + i
  BY DEF HistoryInv
<1>2. CASE n < RecentCap
  <2>1. recent' = Append(recent, count')
    BY <1>0, <1>2 DEF Trim
  <2>2. /\ Len(recent') = n + 1 /\ recent'[n + 1] = count'
        /\ \A i \in 1 .. n : recent'[i] = recent[i]
    BY <1>0, <2>1
  <2>3. count = n
    BY <1>0, <1>1, <1>2 DEF Smaller
  <2>4. \A i \in 1 .. n + 1 : recent'[i] = count' - (n + 1) + i
    <3> SUFFICES ASSUME NEW i \in 1 .. n + 1
                 PROVE  recent'[i] = count' - (n + 1) + i
      OBVIOUS
    <3>1. CASE i = n + 1
      BY <1>0, <2>2, <2>3, <3>1
    <3>2. CASE i \in 1 .. n
      <4>1. recent'[i] = recent[i] /\ recent[i] = count - n + i
        BY <1>1, <2>2, <3>2
      <4>2. i \in Nat /\ n \in Nat /\ count' = n + 1
        BY <1>0, <2>3, <3>2
      <4> HIDE DEF n
      <4>3. n - n + i = (n + 1) - (n + 1) + i
        BY <4>2
      <4> QED
        BY <2>3, <4>1, <4>2, <4>3
    <3>3. n \in Nat
      BY <1>0
    <3> HIDE DEF n
    <3>4. i = n + 1 \/ i \in 1 .. n
      BY <3>3
    <3> QED
      BY <3>1, <3>2, <3>4
  <2>5. n + 1 = Smaller(count', RecentCap)
    BY <1>0, <1>2, <2>3 DEF Smaller
  <2> QED
    BY <2>2, <2>4, <2>5 DEF HistoryInv, Smaller
<1>3. CASE n = RecentCap
  <2>1. recent' = Append(Tail(recent), count')
    BY <1>0, <1>3 DEF Trim
  <2>2. recent # <<>>
    BY <1>0, <1>3
  <2>3. /\ Tail(recent) \in Seq(Event) /\ Len(Tail(recent)) = n - 1
        /\ \A i \in 1 .. n - 1 : Tail(recent)[i] = recent[i + 1]
    BY <1>0, <2>2
  <2>4. /\ Len(recent') = n /\ recent'[n] = count'
        /\ \A i \in 1 .. n - 1 : recent'[i] = Tail(recent)[i]
    <3>1. ASSUME NEW s \in Seq(Event), NEW e \in Event
          PROVE  /\ Len(Append(s, e)) = Len(s) + 1
                 /\ Append(s, e)[Len(s) + 1] = e
                 /\ \A i \in 1 .. Len(s) : Append(s, e)[i] = s[i]
      OBVIOUS
    <3> DEFINE s == Tail(recent)
    <3>2. s \in Seq(Event) /\ Len(s) = n - 1 /\ recent' = Append(s, count')
      BY <2>1, <2>3
    <3>3. n \in Nat /\ count' \in Event
      BY <1>0
    <3> HIDE DEF s, n
    <3>4. (n - 1) + 1 = n
      BY <3>3
    <3>5. /\ Len(recent') = n /\ recent'[n] = count'
          /\ \A i \in 1 .. n - 1 : recent'[i] = s[i]
      BY <3>1, <3>2, <3>3, <3>4
    <3> QED
      BY <3>5 DEF s, n
  <2>5. \A i \in 1 .. n - 1 : i + 1 \in 1 .. n
    BY <1>0
  <2>6. \A i \in 1 .. n - 1 : recent'[i] = count - n + (i + 1)
    BY <1>1, <2>3, <2>4, <2>5
  <2>7. \A i \in 1 .. n : recent'[i] = count' - n + i
    BY <1>0, <2>4, <2>6
  <2>8. n = Smaller(count', RecentCap)
    BY <1>0, <1>1, <1>3 DEF Smaller
  <2> QED
    BY <2>4, <2>7, <2>8 DEF HistoryInv, Smaller
<1> QED
  BY <1>0, <1>2, <1>3

LEMMA InvPublish == ASSUME IInv, Publish PROVE IInv'
<1> USE BusConstants DEF IInv
<1>1. TypeInv'
  BY TypePublish
<1>2. HistoryInv'
  BY HistoryPublish
<1>3. PhaseInv' /\ FillInv'
  BY DEF PhaseInv, FillInv, Publish, Unlocked
<1>4. ASSUME NEW r \in subs'
      PROVE  /\ Len(sent'[r]) + missed'[r]
                  = Smaller(joined'[r], RecentCap) + count' - joined'[r]
             /\ missed'[r] > 0 => count' > joined'[r] + BufSize
  <2> DEFINE n == Len(sent[r])
             m == missed[r]
             j == joined[r]
             h == Smaller(j, RecentCap)
  <2>0. r \in subs /\ r \in Reader /\ joined'[r] = j /\ sent[r] \in Seq(Event)
    BY <1>4 DEF Publish, TypeInv, TypeOK
  <2>1. count' = count + 1 /\ count' \in Event
    BY DEF Publish, TypeInv, TypeOK, Event
  <2>2. /\ n \in Nat /\ m \in Nat /\ j \in Nat /\ count \in Nat /\ read[r] \in Nat
        /\ RecentCap \in Nat /\ BufSize \in Nat
    BY <2>0 DEF TypeInv, TypeOK
  <2>3. h \in Nat /\ h <= RecentCap
    BY <2>2 DEF Smaller
  <2>4. n + m = h + count - j /\ (m > 0 => count > j + BufSize)
    BY <2>0 DEF NothingVanishes, BufferHonoured
  <2>5. CASE Buffered(r) < Capacity
    <3>1. sent'[r] = Append(sent[r], count') /\ missed'[r] = m
      BY <2>0, <2>5, Offered
    <3>2. Len(sent'[r]) = n + 1
      BY <2>0, <2>1, <3>1
    <3> HIDE DEF n, m, j, h
    <3>3. n + 1 + m = h + (count + 1) - j /\ (m > 0 => count + 1 > j + BufSize)
      BY <2>2, <2>3, <2>4
    <3> QED
      BY <2>0, <2>1, <3>1, <3>2, <3>3 DEF h
  <2>6. CASE Buffered(r) >= Capacity
    <3>1. sent'[r] = sent[r] /\ missed'[r] = m + 1
      BY <2>0, <2>6, Offered
    <3>2. n - read[r] >= BufSize + RecentCap
      BY <2>6 DEF Buffered, Capacity
    <3>3. Len(sent'[r]) = n
      BY <3>1
    <3> HIDE DEF n, m, j, h
    <3>4. n + (m + 1) = h + (count + 1) - j
      BY <2>2, <2>3, <2>4
    <3>5. count + 1 > j + BufSize
      BY <2>2, <2>3, <2>4, <3>2
    <3> QED
      BY <2>0, <2>1, <3>1, <3>3, <3>4, <3>5 DEF h
  <2> QED
    BY <2>0, <2>5, <2>6, OfferedCases
<1> QED
  BY <1>1, <1>2, <1>3, <1>4 DEF NothingVanishes, BufferHonoured

LEMMA InvReader == ASSUME IInv, NEW r \in Reader, ReaderStep(r) PROVE IInv'
<1> USE BusConstants DEF IInv
<1>1. TypeInv'
  BY TypeReader
<1> USE DEF HistoryInv, PhaseInv, FillInv, NothingVanishes, BufferHonoured
<1>2. CASE SubscribeBegin(r)
  BY <1>1, <1>2 DEF SubscribeBegin, Unlocked, TypeInv, TypeOK
<1>3. CASE SendRecent(r)
  <2>1. /\ sent[r] \in Seq(Event)
        /\ sent'[r] = Append(sent[r], recent[Len(sent[r]) + 1])
        /\ Len(sent[r]) + 1 \in 1 .. Len(recent)
    BY <1>3 DEF SendRecent, TypeInv, TypeOK
  <2>2. Len(sent'[r]) <= Len(recent)
    BY <2>1
  <2>3. \A i \in 1 .. Len(sent'[r]) : sent'[r][i] = recent[i]
    BY <1>3, <2>1 DEF SendRecent
  <2>4. \A q \in subs : sent'[q] = sent[q]
    BY <1>3 DEF SendRecent, TypeInv, TypeOK
  <2>5. HistoryInv' /\ PhaseInv'
    BY <1>3 DEF SendRecent
  <2>6. FillInv'
    BY <1>3, <2>2, <2>3 DEF SendRecent
  <2> QED
    BY <1>1, <1>3, <2>4, <2>5, <2>6 DEF SendRecent
<1>4. CASE SubscribeEnd(r)
  <2>1. Len(sent[r]) = Smaller(count, RecentCap)
    BY <1>4 DEF SubscribeEnd
  <2>2. joined[r] = count /\ missed[r] = 0 /\ count \in Nat
    BY <1>4 DEF SubscribeEnd, TypeInv, TypeOK
  <2>3. Len(sent[r]) + missed[r]
          = Smaller(joined[r], RecentCap) + count - joined[r]
    BY <2>1, <2>2 DEF Smaller
  <2>4. /\ subs' = subs \cup {r} /\ filling' = {}
        /\ UNCHANGED <<count, recent, closed, sent, read, joined, missed>>
    BY <1>4 DEF SubscribeEnd
  <2>5. HistoryInv' /\ PhaseInv' /\ FillInv'
    BY <1>4, <2>4 DEF SubscribeEnd, Smaller
  <2>6. NothingVanishes'
    BY <2>3, <2>4 DEF Smaller
  <2>7. BufferHonoured'
    BY <2>2, <2>4
  <2> QED
    BY <1>1, <2>5, <2>6, <2>7
<1>5. CASE Receive(r)
  BY <1>1, <1>5 DEF Receive
<1>6. CASE Cancel(r)
  BY <1>1, <1>6 DEF Cancel, Unlocked
<1>7. CASE Drain(r)
  BY <1>1, <1>7 DEF Drain
<1> QED
  BY <1>2, <1>3, <1>4, <1>5, <1>6, <1>7 DEF ReaderStep

LEMMA InvNext == IInv /\ [Next]_vars => IInv'
<1> SUFFICES ASSUME IInv, [Next]_vars PROVE IInv'
  OBVIOUS
<1>1. CASE Publish
  BY <1>1, InvPublish
<1>2. CASE \E r \in Reader : ReaderStep(r)
  BY <1>2, InvReader
<1>3. CASE UNCHANGED vars
  BY <1>3 DEF vars, IInv, TypeInv, TypeOK, ReadInv, HistoryInv, PhaseInv,
              FillInv, NothingVanishes, BufferHonoured, Smaller
<1> QED
  BY <1>1, <1>2, <1>3 DEF Next

THEOREM Invariant == Spec => []IInv
<1>1. Init => IInv
  BY InvInit
<1>2. IInv /\ [Next]_vars => IInv'
  BY InvNext
<1> QED
  BY <1>1, <1>2, PTL DEF Spec

-----------------------------------------------------------------------------
(* What the invariant gives. *)

\* Every variable of the bus keeps its type; the history stays within its cap.
THEOREM BusTypeCorrect == Spec => []TypeOK
<1>1. IInv => TypeOK
  BY DEF IInv, TypeInv
<1> QED
  BY <1>1, Invariant, PTL

\* Subscribe fills its channel without waiting, however long the history is:
\* the lock of the bus is not held for ever (events.go:77-83).
THEOREM SubscribeNeverBlocks == Spec => []PrefillNeverBlocks
<1>1. IInv => PrefillNeverBlocks
  <2> SUFFICES ASSUME IInv, NEW r \in filling, Len(sent[r]) < Len(recent)
               PROVE  Buffered(r) < Capacity
    BY DEF PrefillNeverBlocks
  <2>1. read[r] = 0
    BY DEF IInv, FillInv
  <2>2. /\ Len(sent[r]) \in Nat /\ Len(recent) \in Nat
        /\ Len(recent) <= RecentCap
        /\ RecentCap \in Nat /\ BufSize \in Nat
    BY BusConstants DEF IInv, TypeInv, TypeOK
  <2> QED
    BY <2>1, <2>2 DEF Buffered, Capacity
<1> QED
  BY <1>1, Invariant, PTL

\* A subscriber is sent every event since its history or the bus counted it as
\* dropped on a full buffer (events.go:64-83).
THEOREM EventsAddUp == Spec => []NothingVanishes
<1>1. IInv => NothingVanishes
  BY DEF IInv
<1> QED
  BY <1>1, Invariant, PTL

\* The first event a subscriber can lose comes after BufSize others
\* (events.go:73-77).
THEOREM BufferIsHonoured == Spec => []BufferHonoured
<1>1. IInv => BufferHonoured
  BY DEF IInv
<1> QED
  BY <1>1, Invariant, PTL

-----------------------------------------------------------------------------
(* The bus implements the lossy feed. *)

FeedView == [r \in Reader |-> IF r \in subs THEN sent[r] ELSE <<>>]

LEMMA FeedInit == Init => Feed!Init
BY DEF Init, Feed!Init

\* A registered reader has the history at the moment it joins.
LEMMA HistoryIsLatest ==
  ASSUME IInv, NEW r \in Reader, SubscribeEnd(r)
  PROVE  sent[r] = Feed!Latest(IF count < RecentCap THEN count ELSE RecentCap)
<1> DEFINE n == IF count < RecentCap THEN count ELSE RecentCap
<1>1. /\ sent[r] \in Seq(Event) /\ Len(sent[r]) = Len(recent)
      /\ \A i \in 1 .. Len(recent) : sent[r][i] = recent[i]
  BY DEF SubscribeEnd, IInv, TypeInv, TypeOK, FillInv
<1>2. /\ Len(recent) = n
      /\ \A i \in 1 .. Len(recent) : recent[i] = count - Len(recent) + i
  BY DEF IInv, HistoryInv, Smaller
<1>3. sent[r] = [i \in 1 .. Len(sent[r]) |-> sent[r][i]]
  BY <1>1
<1> HIDE DEF n
<1>4. sent[r] = [i \in 1 .. n |-> count - n + i]
  BY <1>1, <1>2, <1>3
<1> QED
  BY <1>4 DEF n, Feed!Latest

LEMMA FeedNext == IInv /\ [Next]_vars => [Feed!Next]_(Feed!vars)
<1> SUFFICES ASSUME IInv, [Next]_vars PROVE [Feed!Next]_(Feed!vars)
  OBVIOUS
<1> USE DEF IInv, TypeInv, TypeOK
<1>1. CASE Publish
  <2> DEFINE reached == {r \in subs : Buffered(r) < Capacity}
  <2>1. count' = count + 1 /\ subs' = subs
    BY <1>1 DEF Publish
  <2>2. ASSUME NEW r \in Reader
        PROVE  (IF r \in subs' THEN sent'[r] ELSE <<>>)
                 = IF r \in reached THEN Append(FeedView[r], count')
                                    ELSE FeedView[r]
    <3>1. FeedView[r] = IF r \in subs THEN sent[r] ELSE <<>>
      BY DEF FeedView
    <3> QED
      BY <1>1, <2>1, <3>1, Offered, OfferedCases
  <2>3. reached \in SUBSET subs
    OBVIOUS
  <2>4. FeedView' = [r \in Reader |-> IF r \in reached
                                        THEN Append(FeedView[r], count')
                                        ELSE FeedView[r]]
    BY <2>2 DEF FeedView
  <2> HIDE DEF reached
  <2>5. Feed!Publish
    BY <2>1, <2>3, <2>4 DEF Feed!Publish, FeedView
  <2> QED
    BY <2>5 DEF Feed!Next
<1>2. ASSUME NEW r \in Reader, ReaderStep(r) PROVE [Feed!Next]_(Feed!vars)
  <2>1. CASE SubscribeBegin(r)
    <3>1. FeedView' = FeedView
      BY <2>1 DEF SubscribeBegin, FeedView
    <3> QED
      BY <2>1, <3>1 DEF SubscribeBegin, Feed!vars, FeedView
  <2>2. CASE SendRecent(r)
    <3>1. FeedView' = FeedView
      BY <2>2 DEF SendRecent, FeedView, PhaseInv
    <3> QED
      BY <2>2, <3>1 DEF SendRecent, Feed!vars, FeedView
  <2>3. CASE SubscribeEnd(r)
    <3>1. sent[r] = Feed!Latest(IF count < RecentCap THEN count ELSE RecentCap)
      BY <2>3, HistoryIsLatest
    <3>2. r \notin subs /\ subs' = subs \cup {r} /\ count' = count
      BY <2>3 DEF SubscribeEnd, PhaseInv
    <3>3. FeedView' = [FeedView EXCEPT ![r] = sent[r]]
      BY <2>3 DEF SubscribeEnd, FeedView
    <3>4. Feed!Join(r)
      BY <3>1, <3>2, <3>3 DEF Feed!Join, FeedView
    <3> QED
      BY <3>4 DEF Feed!Next
  <2>4. CASE Receive(r)
    BY <2>4 DEF Receive, Feed!vars
  <2>5. CASE Cancel(r)
    <3>1. FeedView' = [FeedView EXCEPT ![r] = <<>>]
      BY <2>5 DEF Cancel, FeedView
    <3>2. Feed!Leave(r)
      BY <2>5, <3>1 DEF Cancel, Feed!Leave, FeedView
    <3> QED
      BY <3>2 DEF Feed!Next
  <2>6. CASE Drain(r)
    BY <2>6 DEF Drain, Feed!vars
  <2> QED
    BY <1>2, <2>1, <2>2, <2>3, <2>4, <2>5, <2>6 DEF ReaderStep
<1>3. CASE UNCHANGED vars
  BY <1>3 DEF vars, Feed!vars
<1> QED
  BY <1>1, <1>2, <1>3 DEF Next

\* To a registered reader the bus is the lossy feed: the history, then events
\* in the order of publication, none twice (events.go:55-93).
THEOREM ImplementsFeed == Spec => FeedSpec
<1>1. Init => Feed!Init
  BY FeedInit
<1>2. IInv /\ [Next]_vars => [Feed!Next]_(Feed!vars)
  BY FeedNext
<1> QED
  BY <1>1, <1>2, Invariant, PTL DEF Spec, FeedSpec, Feed!Spec
=============================================================================
