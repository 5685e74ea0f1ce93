------------------------- MODULE TrafficAccounting_proofs -------------------------
(***************************************************************************)
(* The accounts of TrafficAccounting hold for every number of tunnels,      *)
(* bytes, samples and seconds.                                              *)
(*                                                                         *)
(* A meter owes a tunnel what it will add at its next reading.  Either it   *)
(* has not seen the total go down, and owes the difference to what it read  *)
(* last, or it has missed (or is about to see) a total that started over,   *)
(* and owes at most the whole total.  In both cases what it has counted and *)
(* what it owes is no more than what was moved, which every step keeps.  A  *)
(* tunnel that was deleted while it ran is owed nothing: it is not read.    *)
(*                                                                         *)
(* That the buckets of an answer lose no record needs no invariant but the  *)
(* types: it is a fact about sums over finite sets, in the last part.       *)
(***************************************************************************)
EXTENDS TrafficAccounting, FiniteSetTheorems, NaturalsInduction, WellFoundedInduction, TLAPS

\* A tunnel without a supervisor has no total; until its total starts over it is
\* what was moved, but for the late bytes.
TunnelAt(t) ==
  /\ mode[t] = "none" => cum[t] = 0
  /\ ~renewed[t] => Total(t) + late[t] = moved[t]

\* What a meter has counted and what it owes.
OwingAt(m, t) ==
  ~blurred[m][t] =>
    \/ base[m][t] <= Total(t) /\ counted[m][t] + (Total(t) - base[m][t]) <= moved[t]
    \/ counted[m][t] + Total(t) <= moved[t]

NothingIsLostAt(m, t) ==
  ~blurred[m][t] /\ ~renewed[t] =>
    /\ base[m][t] <= Total(t)
    /\ counted[m][t] + (Total(t) - base[m][t]) + late[t] = moved[t]

MeterAt(m, t) ==
  /\ ~blurred[m][t] => counted[m][t] <= moved[t]
  /\ t \notin removed => OwingAt(m, t) /\ NothingIsLostAt(m, t)

Accounts ==
  /\ TypeOK
  /\ \A t \in Tunnel : TunnelAt(t)
  /\ \A m \in Meter, t \in Tunnel : MeterAt(m, t)

-----------------------------------------------------------------------------
(* The readings. *)

LEMMA ReadingType ==
  ASSUME TypeOK
  PROVE  \A t \in Tunnel : Reading(t) \in Nat /\ Total(t) \in Nat
BY DEF TypeOK, Reading, Total

LEMMA DeltaType ==
  ASSUME TypeOK, NEW m \in Meter
  PROVE  /\ Delta(m) \in [Tunnel -> Nat]
         /\ \A t \in Tunnel : Delta(m)[t] =
              IF t \in Listed THEN Difference(Reading(t), base[m][t]) ELSE 0
<1>1. \A t \in Tunnel : Reading(t) \in Nat /\ base[m][t] \in Nat
  BY ReadingType DEF TypeOK
<1>2. \A x, y \in Nat : Difference(x, y) \in Nat
  BY DEF Difference
<1>3. QED BY <1>1, <1>2 DEF Delta

LEMMA CountType ==
  ASSUME TypeOK, NEW m \in Meter, Count(m)
  PROVE  /\ counted' \in [Meter -> [Tunnel -> Nat]]
         /\ blurred' \in [Meter -> [Tunnel -> BOOLEAN]]
<1>1. [t \in Tunnel |-> counted[m][t] + Delta(m)[t]] \in [Tunnel -> Nat]
  <2>1. Delta(m) \in [Tunnel -> Nat] /\ counted[m] \in [Tunnel -> Nat]
    BY DeltaType DEF TypeOK
  <2>2. \A t \in Tunnel : counted[m][t] + Delta(m)[t] \in Nat
    BY <2>1
  <2>3. QED BY <2>2
<1>2. [t \in Tunnel |-> blurred[m][t] \/ mode[t] = "closing"] \in [Tunnel -> BOOLEAN]
  OBVIOUS
<1>3. counted' \in [Meter -> [Tunnel -> Nat]]
  BY <1>1 DEF TypeOK, Count
<1>4. blurred' \in [Meter -> [Tunnel -> BOOLEAN]]
  BY <1>2 DEF TypeOK, Count
<1>5. QED BY <1>3, <1>4

\* The ring never holds more than Cap samples.
LEMMA TrimmedType ==
  ASSUME NEW S, NEW s \in Seq(S), NEW x \in S, Len(s) <= Cap
  PROVE  Trimmed(Append(s, x)) \in Seq(S) /\ Len(Trimmed(Append(s, x))) <= Cap
<1>1. Append(s, x) \in Seq(S) /\ Len(Append(s, x)) = Len(s) + 1
  OBVIOUS
<1>2. Append(s, x) # <<>>
  BY <1>1
<1>3. Tail(Append(s, x)) \in Seq(S) /\ Len(Tail(Append(s, x))) = Len(s)
  BY <1>1, <1>2
<1>4. Len(s) \in Nat /\ Cap \in Nat
  BY TrafficConstants
<1>5. QED BY <1>1, <1>3, <1>4 DEF Trimmed

-----------------------------------------------------------------------------
(* Types. *)

LEMMA InitType == Init => TypeOK
<1> SUFFICES ASSUME Init PROVE TypeOK
  OBVIOUS
<1>1. now \in Time /\ flushed \in Time
  BY TrafficConstants DEF Init, Time
<1>2. samples \in Seq([Tunnel -> Nat]) /\ Len(samples) <= Cap
  BY TrafficConstants DEF Init
<1>3. QED BY <1>1, <1>2 DEF Init, TypeOK, Zero, Mode

LEMMA TunnelStepType ==
  ASSUME TypeOK, NEW t \in Tunnel,
         \/ Start(t) \/ ForwardsUp(t) \/ Move(t) \/ ConnectionLost(t)
         \/ CloseBegin(t) \/ CloseEnd(t) \/ Stop(t) \/ Remove(t)
  PROVE  TypeOK'
<1> DEFINE Same == UNCHANGED <<base, samples, db, now, flushed, counted>>
<1>1. Same /\ removed' \subseteq Tunnel
  BY DEF TypeOK, Start, ForwardsUp, Move, ConnectionLost, CloseBegin, CloseEnd, Stop, Remove,
         accounts
<1>2. mode' \in [Tunnel -> Mode]
  <2>1. \E x \in Mode : mode' = [mode EXCEPT ![t] = x]
    <3>1. mode[t] \in Mode /\ mode = [mode EXCEPT ![t] = mode[t]]
      BY DEF TypeOK
    <3>2. CASE Start(t)
      BY <3>1, <3>2 DEF Start, Mode, TypeOK
    <3>3. CASE Move(t)
      BY <3>1, <3>3 DEF Move
    <3>4. CASE ~Start(t) /\ ~Move(t)
      BY <3>1, <3>4 DEF ForwardsUp, ConnectionLost, CloseBegin, CloseEnd, Stop, Remove, Mode
    <3>5. QED BY <3>2, <3>3, <3>4
  <2>2. QED BY <2>1 DEF TypeOK
<1>3. fwd' \in [Tunnel -> Nat] /\ cum' \in [Tunnel -> Nat]
  <2>1. fwd[t] \in Nat /\ cum[t] \in Nat
    BY DEF TypeOK
  <2>2. TakenOver(t) \in Nat /\ fwd[t] + 1 \in Nat
    BY <2>1 DEF TakenOver
  <2>3. fwd' = fwd \/ \E n \in Nat : fwd' = [fwd EXCEPT ![t] = n]
    <3>1. CASE Move(t)
      BY <2>2, <3>1 DEF Move
    <3>2. CASE ~Move(t)
      BY <3>2 DEF Start, ForwardsUp, ConnectionLost, CloseBegin, CloseEnd, Stop, Remove
    <3>3. QED BY <3>1, <3>2
  <2>4. cum' = cum \/ \E n \in Nat : cum' = [cum EXCEPT ![t] = n]
    <3>1. CASE CloseBegin(t)
      BY <2>2, <3>1 DEF CloseBegin
    <3>2. CASE ~CloseBegin(t)
      BY <3>2 DEF Start, ForwardsUp, Move, ConnectionLost, CloseEnd, Stop, Remove
    <3>3. QED BY <3>1, <3>2
  <2>5. QED BY <2>3, <2>4 DEF TypeOK
<1>4. moved' \in [Tunnel -> Nat] /\ late' \in [Tunnel -> Nat]
  <2>1. CASE Move(t)
    <3>1. moved[t] + 1 \in Nat /\ late[t] \in Nat /\ late[t] + 1 \in Nat
      BY DEF TypeOK
    <3>2. \E n \in Nat : late' = [late EXCEPT ![t] = n]
      BY <2>1, <3>1 DEF Move
    <3>3. QED BY <2>1, <3>1, <3>2 DEF Move, TypeOK
  <2>2. CASE ~Move(t)
    BY <2>2 DEF Start, ForwardsUp, ConnectionLost, CloseBegin, CloseEnd, Stop, Remove,
                TypeOK
  <2>3. QED BY <2>1, <2>2
<1>5. renewed' \in [Tunnel -> BOOLEAN]
  <2>1. renewed' = renewed \/ \E b \in BOOLEAN : renewed' = [renewed EXCEPT ![t] = b]
    BY DEF Start, ForwardsUp, Move, ConnectionLost, CloseBegin, CloseEnd, Stop, Remove,
           TypeOK
  <2>2. QED BY <2>1 DEF TypeOK
<1>6. blurred' \in [Meter -> [Tunnel -> BOOLEAN]]
  <2>1. CASE Start(t)
    <3>1. ASSUME NEW m \in Meter, NEW b \in BOOLEAN
          PROVE  [blurred[m] EXCEPT ![t] = b] \in [Tunnel -> BOOLEAN]
      BY <3>1 DEF TypeOK
    <3>2. ASSUME NEW m \in Meter
          PROVE  [blurred[m] EXCEPT ![t] = @ \/ mode[t] \in {"broken", "closing"}]
                   \in [Tunnel -> BOOLEAN]
      BY <3>1
    <3>3. QED BY <2>1, <3>2 DEF Start
  <2>2. CASE ~Start(t)
    BY <2>2 DEF ForwardsUp, Move, ConnectionLost, CloseBegin, CloseEnd, Stop, Remove, TypeOK
  <2>3. QED BY <2>1, <2>2
<1>7. QED BY <1>1, <1>2, <1>3, <1>4, <1>5, <1>6 DEF TypeOK

LEMMA SampleType == TypeOK /\ Sample => TypeOK'
<1> SUFFICES ASSUME TypeOK, Sample PROVE TypeOK'
  OBVIOUS
<1>1. "sample" \in Meter
  BY DEF Meter
<1>2. counted' \in [Meter -> [Tunnel -> Nat]] /\ blurred' \in [Meter -> [Tunnel -> BOOLEAN]]
  BY <1>1, CountType DEF Sample
<1>3. base' \in [Meter -> [Tunnel -> Nat]]
  <2>1. [t \in Tunnel |-> IF t \in Listed THEN Reading(t) ELSE 0] \in [Tunnel -> Nat]
    BY ReadingType
  <2>2. QED BY <2>1 DEF Sample, TypeOK
<1>4. samples' \in Seq([Tunnel -> Nat]) /\ Len(samples') <= Cap
  <2> DEFINE S == [Tunnel -> Nat]
  <2>1. Delta("sample") \in S
    BY <1>1, DeltaType
  <2>2. samples \in Seq(S) /\ Len(samples) <= Cap
    BY DEF TypeOK
  <2> HIDE DEF S
  <2>3. Trimmed(Append(samples, Delta("sample"))) \in Seq(S)
        /\ Len(Trimmed(Append(samples, Delta("sample")))) <= Cap
    BY <2>1, <2>2, TrimmedType
  <2>4. samples' \in Seq(S) /\ Len(samples') <= Cap
    BY <2>3 DEF Sample
  <2>5. QED BY <2>4 DEF S
<1>5. QED BY <1>2, <1>3, <1>4 DEF Sample, TypeOK

LEMMA FlushType == TypeOK /\ Flush => TypeOK'
<1> SUFFICES ASSUME TypeOK, Flush PROVE TypeOK'
  OBVIOUS
<1>1. "flush" \in Meter
  BY DEF Meter
<1>2. counted' \in [Meter -> [Tunnel -> Nat]] /\ blurred' \in [Meter -> [Tunnel -> BOOLEAN]]
  BY <1>1, CountType DEF Flush
<1>3. base' \in [Meter -> [Tunnel -> Nat]]
  <2>1. [t \in Tunnel |-> IF t \in Listed THEN Reading(t) ELSE base["flush"][t]]
          \in [Tunnel -> Nat]
    BY <1>1, ReadingType DEF TypeOK
  <2>2. base' = [base EXCEPT !["flush"] =
                   [t \in Tunnel |-> IF t \in Listed THEN Reading(t) ELSE base["flush"][t]]]
    BY <1>1 DEF Flush, TypeOK
  <2>3. QED BY <2>1, <2>2 DEF TypeOK
<1>4. db' \in [Tunnel -> [Time -> Nat]]
  <2>1. PICK recorded \in SUBSET Tunnel :
          db' = [t \in Tunnel |->
                   IF t \in recorded /\ Delta("flush")[t] > 0
                     THEN [db[t] EXCEPT ![now] = Delta("flush")[t]] ELSE db[t]]
    BY DEF Flush
  <2>2. \A t \in Tunnel : Delta("flush")[t] \in Nat /\ db[t] \in [Time -> Nat]
    BY <1>1, DeltaType DEF TypeOK
  <2>3. \A t \in Tunnel : [db[t] EXCEPT ![now] = Delta("flush")[t]] \in [Time -> Nat]
    BY <2>2
  <2>4. QED BY <2>1, <2>2, <2>3
<1>5. now' \in Time /\ flushed' \in Time
  BY DEF Flush, TypeOK
<1>6. UNCHANGED <<removed, mode, fwd, cum, samples, moved, late, renewed>>
  BY DEF Flush
<1>7. QED BY <1>2, <1>3, <1>4, <1>5, <1>6 DEF TypeOK

LEMMA RestartType == TypeOK /\ Restart => TypeOK'
<1> SUFFICES ASSUME TypeOK, Restart PROVE TypeOK'
  OBVIOUS
<1>1. mode' \in [Tunnel -> Mode] /\ removed' \subseteq Tunnel
  BY DEF Restart, Mode, TypeOK
<1>2. fwd' \in [Tunnel -> Nat] /\ cum' \in [Tunnel -> Nat]
      /\ base' \in [Meter -> [Tunnel -> Nat]]
  BY DEF Restart, Zero
<1>3. samples' \in Seq([Tunnel -> Nat]) /\ Len(samples') <= Cap
  BY TrafficConstants DEF Restart
<1>4. db' \in [Tunnel -> [Time -> Nat]]
  BY DEF Restart, TypeOK
<1>5. renewed' \in [Tunnel -> BOOLEAN]
  BY DEF Restart
<1>6. UNCHANGED <<now, flushed, moved, late, counted, blurred>>
  BY DEF Restart
<1>7. QED BY <1>1, <1>2, <1>3, <1>4, <1>5, <1>6 DEF TypeOK

LEMMA NextType == TypeOK /\ [Next]_vars => TypeOK'
<1> SUFFICES ASSUME TypeOK, [Next]_vars PROVE TypeOK'
  OBVIOUS
<1>1. ASSUME NEW t \in Tunnel,
             \/ Start(t) \/ ForwardsUp(t) \/ Move(t) \/ ConnectionLost(t)
             \/ CloseBegin(t) \/ CloseEnd(t) \/ Stop(t) \/ Remove(t)
      PROVE  TypeOK'
  BY <1>1, TunnelStepType
<1>2. CASE Sample
  BY <1>2, SampleType
<1>3. CASE Flush
  BY <1>3, FlushType
<1>4. CASE Tick
  <2>1. now' \in Time
    BY <1>4, TrafficConstants DEF Tick, TypeOK, Time
  <2>2. QED BY <1>4, <2>1 DEF Tick, TypeOK
<1>5. CASE Restart
  BY <1>5, RestartType
<1>6. CASE UNCHANGED vars
  BY <1>6 DEF vars, TypeOK
<1>7. QED BY <1>1, <1>2, <1>3, <1>4, <1>5, <1>6 DEF Next

\* Every variable keeps its type, and the ring its length (traffic.go:104-108).
THEOREM TypeCorrect == Spec => []TypeOK
<1>1. QED BY InitType, NextType, PTL DEF Spec

-----------------------------------------------------------------------------
(* The accounts.                                                              *)

LEMMA InitAccounts == Init => Accounts
<1> SUFFICES ASSUME Init PROVE Accounts
  OBVIOUS
<1>1. \A t \in Tunnel : Total(t) = 0 /\ moved[t] = 0 /\ late[t] = 0 /\ cum[t] = 0
  BY DEF Init, Zero, Total
<1>2. \A m \in Meter, t \in Tunnel : base[m][t] = 0 /\ counted[m][t] = 0
  BY DEF Init, Zero
<1>3. QED BY <1>1, <1>2, InitType
          DEF Accounts, TunnelAt, MeterAt, OwingAt, NothingIsLostAt

\* A reading that does not blur sees the total, and takes what the meter owes.
LEMMA Reads ==
  ASSUME Accounts, NEW m \in Meter, NEW t \in Listed, mode[t] # "closing", ~blurred[m][t]
  PROVE  /\ Reading(t) = Total(t)
         /\ counted[m][t] + Delta(m)[t] <= moved[t]
         /\ ~renewed[t] => counted[m][t] + Delta(m)[t] + late[t] = moved[t]
<1> DEFINE c == counted[m][t]  b == base[m][t]  T == Total(t)  R == Reading(t)
           d == Delta(m)[t]
<1>1. c \in Nat /\ b \in Nat /\ T \in Nat /\ R \in Nat
      /\ moved[t] \in Nat /\ late[t] \in Nat /\ mode[t] \in Mode
  BY ReadingType DEF Accounts, TypeOK, Listed
<1>2. R = T
  BY DEF Reading, Total
<1>3. d = Difference(R, b)
  BY DeltaType DEF Accounts, Listed
<1>4. (b <= T /\ c + (T - b) <= moved[t]) \/ c + T <= moved[t]
  BY DEF Accounts, MeterAt, OwingAt, Listed
<1>5. ~renewed[t] => b <= T /\ c + (T - b) + late[t] = moved[t]
  BY DEF Accounts, MeterAt, NothingIsLostAt, Listed
<1> HIDE DEF c, b, T, R, d
<1>6. c + d <= moved[t]
  BY <1>1, <1>2, <1>3, <1>4 DEF Difference
<1>7. ~renewed[t] => c + d + late[t] = moved[t]
  <2> SUFFICES ASSUME ~renewed[t] PROVE c + d + late[t] = moved[t]
    OBVIOUS
  <2>1. b <= T /\ c + (T - b) + late[t] = moved[t]
    BY <1>5
  <2>2. d = T - b
    BY <1>1, <1>2, <1>3, <2>1 DEF Difference
  <2>3. QED BY <2>1, <2>2
<1>8. QED BY <1>2, <1>6, <1>7 DEF c, b, T, R, d

\* A reading by one meter, whatever it does with what it counted.
LEMMA CountAccounts ==
  ASSUME Accounts, TypeOK', NEW m \in Meter, Count(m),
         UNCHANGED <<removed, mode, fwd, cum, moved, late, renewed>>,
         \A t \in Listed : base'[m][t] = Reading(t),
         \A n \in Meter \ {m} : base'[n] = base[n]
  PROVE  Accounts'
<1>1. \A t \in Tunnel : Total(t)' = Total(t)
  BY DEF Total
<1>2. ASSUME NEW t \in Tunnel
      PROVE  TunnelAt(t)'
  <2>1. TunnelAt(t)
    BY DEF Accounts
  <2>2. QED BY <1>1, <2>1 DEF TunnelAt
<1>3. ASSUME NEW n \in Meter, NEW t \in Tunnel
      PROVE  MeterAt(n, t)'
  <2>1. MeterAt(n, t)
    BY DEF Accounts
  <2>2. CASE n # m
    <3>1. counted'[n] = counted[n] /\ blurred'[n] = blurred[n] /\ base'[n] = base[n]
      BY <1>3, <2>2 DEF Count, Accounts, TypeOK
    <3>2. QED BY <1>1, <1>3, <2>1, <3>1 DEF MeterAt, OwingAt, NothingIsLostAt
  <2>3. CASE n = m /\ ~blurred'[m][t]
    <3>1. counted'[m][t] = counted[m][t] + Delta(m)[t]
      BY <1>3 DEF Count, Accounts, TypeOK
    <3>2. mode[t] # "closing" /\ ~blurred[m][t]
      BY <1>3, <2>3 DEF Count, Accounts, TypeOK
    <3>3. counted[m][t] \in Nat /\ Total(t) \in Nat /\ moved[t] \in Nat /\ late[t] \in Nat
          /\ counted'[m][t] \in Nat
      BY ReadingType DEF Accounts, TypeOK
    <3>4. CASE t \in Listed
      <4>1. /\ Reading(t) = Total(t)
            /\ counted[m][t] + Delta(m)[t] <= moved[t]
            /\ ~renewed[t] => counted[m][t] + Delta(m)[t] + late[t] = moved[t]
        BY <3>2, <3>4, Reads
      <4>2. base'[m][t] = Total(t)
        BY <3>4, <4>1
      <4>3. QED BY <1>1, <1>3, <2>3, <3>1, <3>3, <4>1, <4>2
                DEF MeterAt, OwingAt, NothingIsLostAt
    <3>5. CASE t \notin Listed
      <4>1. Delta(m)[t] = 0
        BY <1>3, <3>5, DeltaType DEF Accounts
      <4>2. counted'[m][t] <= moved'[t]
        BY <2>1, <2>3, <3>1, <3>2, <3>3, <4>1 DEF MeterAt
      <4>3. QED BY <1>3, <2>3, <3>5, <4>2 DEF MeterAt, Listed
    <3>6. QED BY <3>4, <3>5
  <2>4. CASE n = m /\ blurred'[m][t]
    BY <2>4 DEF MeterAt, OwingAt, NothingIsLostAt
  <2>5. QED BY <2>2, <2>3, <2>4
<1>4. QED BY <1>2, <1>3 DEF Accounts

\* A step that keeps a tunnel's total, or adds to it what was moved.
LEMMA KeepsAccounts ==
  ASSUME Accounts, TypeOK', NEW t \in Tunnel, NEW x \in Nat, NEW y \in Nat,
         Total(t)' = Total(t) + x, late'[t] = late[t] + y, moved'[t] = moved[t] + x + y,
         renewed'[t] = renewed[t], removed \subseteq removed',
         mode'[t] = "none" => cum'[t] = 0,
         \A m \in Meter : /\ base'[m][t] = base[m][t]
                          /\ counted'[m][t] = counted[m][t]
                          /\ blurred'[m][t] = blurred[m][t]
  PROVE  TunnelAt(t)' /\ \A m \in Meter : MeterAt(m, t)'
<1>1. Total(t) \in Nat /\ moved[t] \in Nat /\ late[t] \in Nat
  BY ReadingType DEF Accounts, TypeOK
<1>2. TunnelAt(t)'
  <2>1. TunnelAt(t)
    BY DEF Accounts
  <2>2. ~renewed[t] => Total(t)' + late'[t] = moved'[t]
    BY <1>1, <2>1 DEF TunnelAt
  <2>3. QED BY <2>2 DEF TunnelAt
<1>3. ASSUME NEW m \in Meter
      PROVE  MeterAt(m, t)'
  <2>1. MeterAt(m, t)
    BY DEF Accounts
  <2>2. base[m][t] \in Nat /\ counted[m][t] \in Nat
    BY DEF Accounts, TypeOK
  <2>3. t \notin removed' => OwingAt(m, t)'
    BY <1>1, <2>1, <2>2 DEF MeterAt, OwingAt
  <2>4. t \notin removed' => NothingIsLostAt(m, t)'
    BY <1>1, <2>1, <2>2 DEF MeterAt, NothingIsLostAt
  <2>5. ~blurred'[m][t] => counted'[m][t] <= moved'[t]
    BY <1>1, <2>1, <2>2 DEF MeterAt
  <2>6. QED BY <2>3, <2>4, <2>5 DEF MeterAt
<1>4. QED BY <1>2, <1>3

\* A step that makes a tunnel's total start over, unless the meters are blurred.
LEMMA StartsOver ==
  ASSUME Accounts, TypeOK', NEW t \in Tunnel,
         cum'[t] = 0, Total(t)' \in {0, fwd[t]},
         Total(t)' = 0 \/ (mode[t] = "broken" /\ \A m \in Meter : blurred'[m][t]),
         moved'[t] = moved[t], late'[t] = late[t], removed' = removed,
         ~renewed'[t] => ~renewed[t] /\ moved[t] = 0,
         \A m \in Meter : /\ base'[m][t] = base[m][t]
                          /\ counted'[m][t] = counted[m][t]
                          /\ blurred[m][t] => blurred'[m][t]
  PROVE  TunnelAt(t)' /\ \A m \in Meter : MeterAt(m, t)'
<1>1. Total(t) \in Nat /\ moved[t] \in Nat /\ late[t] \in Nat /\ fwd[t] \in Nat
      /\ cum[t] \in Nat
  BY ReadingType DEF Accounts, TypeOK
<1>2. TunnelAt(t)
  BY DEF Accounts
<1>3. ASSUME ~renewed'[t]
      PROVE  Total(t) = 0 /\ late[t] = 0 /\ moved[t] = 0 /\ Total(t)' = 0
  <2>1. Total(t) = 0 /\ late[t] = 0 /\ moved[t] = 0
    BY <1>1, <1>2, <1>3 DEF TunnelAt
  <2>2. mode[t] = "broken" => fwd[t] = 0
    BY <1>1, <2>1 DEF Total
  <2>3. QED BY <2>1, <2>2
<1>4. TunnelAt(t)'
  BY <1>3 DEF TunnelAt
<1>5. ASSUME NEW m \in Meter
      PROVE  MeterAt(m, t)'
  <2>1. MeterAt(m, t)
    BY DEF Accounts
  <2>2. base[m][t] \in Nat /\ counted[m][t] \in Nat
    BY DEF Accounts, TypeOK
  <2>3. ASSUME ~blurred'[m][t]
        PROVE  Total(t)' = 0 /\ ~blurred[m][t]
    BY <2>3
  <2>4. ~blurred'[m][t] => counted'[m][t] <= moved'[t]
    BY <2>1, <2>3 DEF MeterAt
  <2>5. OwingAt(m, t)'
    BY <1>1, <2>2, <2>3, <2>4 DEF OwingAt
  <2>6. t \notin removed' => NothingIsLostAt(m, t)'
    <3> SUFFICES ASSUME t \notin removed, ~blurred'[m][t], ~renewed'[t]
                 PROVE  /\ base'[m][t] <= Total(t)'
                        /\ counted'[m][t] + (Total(t)' - base'[m][t]) + late'[t] = moved'[t]
      BY DEF NothingIsLostAt
    <3>1. /\ base[m][t] <= Total(t)
          /\ counted[m][t] + (Total(t) - base[m][t]) + late[t] = moved[t]
      BY <2>1, <2>3 DEF MeterAt, NothingIsLostAt
    <3>2. Total(t)' = Total(t)
      BY <1>3
    <3>3. QED BY <3>1, <3>2
  <2>7. QED BY <2>4, <2>5, <2>6 DEF MeterAt
<1>6. QED BY <1>4, <1>5

\* What a step of tunnel u does to the accounts of the others: nothing.
LEMMA OtherTunnels ==
  ASSUME Accounts, NEW u \in Tunnel,
         \/ Start(u) \/ ForwardsUp(u) \/ Move(u) \/ ConnectionLost(u)
         \/ CloseBegin(u) \/ CloseEnd(u) \/ Stop(u) \/ Remove(u),
         NEW t \in Tunnel, t # u
  PROVE  TunnelAt(t)' /\ \A m \in Meter : MeterAt(m, t)'
<1>1. /\ mode'[t] = mode[t] /\ fwd'[t] = fwd[t] /\ cum'[t] = cum[t]
      /\ moved'[t] = moved[t] /\ late'[t] = late[t] /\ renewed'[t] = renewed[t]
      /\ t \in removed' <=> t \in removed
  BY DEF Start, ForwardsUp, Move, ConnectionLost, CloseBegin, CloseEnd, Stop, Remove,
         Accounts, TypeOK
<1>2. \A m \in Meter : blurred'[m][t] = blurred[m][t]
  <2>1. CASE Start(u)
    BY <2>1 DEF Start, Accounts, TypeOK
  <2>2. CASE ~Start(u)
    BY <2>2 DEF ForwardsUp, Move, ConnectionLost, CloseBegin, CloseEnd, Stop, Remove
  <2>3. QED BY <2>1, <2>2
<1>3. base' = base /\ counted' = counted
  BY DEF Start, ForwardsUp, Move, ConnectionLost, CloseBegin, CloseEnd, Stop, Remove,
         accounts
<1>4. TunnelAt(t) /\ \A m \in Meter : MeterAt(m, t)
  BY DEF Accounts
<1>5. Total(t)' = Total(t)
  BY <1>1 DEF Total
<1>6. TunnelAt(t)'
  BY <1>1, <1>4, <1>5 DEF TunnelAt
<1>7. ASSUME NEW m \in Meter
      PROVE  MeterAt(m, t)'
  BY <1>1, <1>2, <1>3, <1>4, <1>5 DEF MeterAt, OwingAt, NothingIsLostAt
<1>8. QED BY <1>6, <1>7

LEMMA OwnTunnel ==
  ASSUME Accounts, TypeOK', NEW t \in Tunnel,
         \/ Start(t) \/ ForwardsUp(t) \/ Move(t) \/ ConnectionLost(t)
         \/ CloseBegin(t) \/ CloseEnd(t) \/ Stop(t) \/ Remove(t)
  PROVE  TunnelAt(t)' /\ \A m \in Meter : MeterAt(m, t)'
<1> DEFINE SameMeters ==
      \A m \in Meter : /\ base'[m][t] = base[m][t]
                       /\ counted'[m][t] = counted[m][t]
                       /\ blurred'[m][t] = blurred[m][t]
<1>1. /\ mode \in [Tunnel -> Mode] /\ fwd \in [Tunnel -> Nat] /\ cum \in [Tunnel -> Nat]
      /\ moved \in [Tunnel -> Nat] /\ late \in [Tunnel -> Nat]
      /\ renewed \in [Tunnel -> BOOLEAN]
      /\ Total(t) \in Nat
  BY ReadingType DEF Accounts, TypeOK
<1>2. mode[t] = "none" => cum[t] = 0
  BY DEF Accounts, TunnelAt
<1>3. ~Start(t) => SameMeters
  BY DEF ForwardsUp, Move, ConnectionLost, CloseBegin, CloseEnd, Stop, Remove, accounts
<1> HIDE DEF SameMeters
<1>4. CASE Start(t)
  <2>1. cum'[t] = 0 /\ fwd'[t] = fwd[t] /\ moved'[t] = moved[t] /\ late'[t] = late[t]
        /\ removed' = removed
    BY <1>1, <1>4 DEF Start
  <2>2. mode'[t] = IF mode[t] = "none" THEN "down" ELSE mode[t]
    BY <1>1, <1>4 DEF Start
  <2>3. renewed'[t] = (renewed[t] \/ moved[t] > 0)
    BY <1>1, <1>4 DEF Start
  <2>4. ASSUME NEW m \in Meter
        PROVE  /\ base'[m][t] = base[m][t]
               /\ counted'[m][t] = counted[m][t]
               /\ blurred'[m][t] = (blurred[m][t] \/ mode[t] \in {"broken", "closing"})
    BY <1>4 DEF Start, accounts, Accounts, TypeOK
  <2>5. Total(t)' = IF mode[t] = "broken" THEN fwd[t] ELSE 0
    BY <1>1, <1>4, <2>1, <2>2 DEF Start, Total
  <2>6. ~renewed'[t] => ~renewed[t] /\ moved[t] = 0
    <3>1. ~(moved[t] > 0) => moved[t] = 0
      BY <1>1
    <3>2. QED BY <2>3, <3>1
  <2>7. Total(t)' = 0 \/ (mode[t] = "broken" /\ \A m \in Meter : blurred'[m][t])
    BY <2>4, <2>5
  <2>8. \A m \in Meter : /\ base'[m][t] = base[m][t]
                         /\ counted'[m][t] = counted[m][t]
                         /\ blurred[m][t] => blurred'[m][t]
    BY <2>4
  <2>9. Total(t)' \in {0, fwd[t]}
    BY <2>5
  <2>10. QED BY <2>1, <2>6, <2>7, <2>8, <2>9, StartsOver
<1>5. CASE Stop(t)
  <2>1. cum'[t] = 0 /\ moved'[t] = moved[t] /\ late'[t] = late[t] /\ mode'[t] = "none"
        /\ removed' = removed
    BY <1>1, <1>5 DEF Stop
  <2>2. renewed'[t] = (renewed[t] \/ moved[t] > 0)
    BY <1>1, <1>5 DEF Stop
  <2>3. Total(t)' = 0
    BY <2>1 DEF Total
  <2>4. \A m \in Meter : /\ base'[m][t] = base[m][t]
                         /\ counted'[m][t] = counted[m][t]
                         /\ blurred[m][t] => blurred'[m][t]
    BY <1>5 DEF Stop, accounts
  <2>5. ~renewed'[t] => ~renewed[t] /\ moved[t] = 0
    <3>1. ~(moved[t] > 0) => moved[t] = 0
      BY <1>1
    <3>2. QED BY <2>2, <3>1
  <2>6. QED BY <2>1, <2>3, <2>4, <2>5, StartsOver
<1>6. CASE Move(t)
  <2> DEFINE x == IF mode[t] = "closing" THEN 0 ELSE 1
             y == IF mode[t] = "closing" THEN 1 ELSE 0
  <2>1. mode'[t] = mode[t] /\ cum'[t] = cum[t] /\ fwd'[t] = fwd[t] + 1
        /\ moved'[t] = moved[t] + 1 /\ renewed'[t] = renewed[t] /\ removed' = removed
    BY <1>1, <1>6 DEF Move
  <2>2. late'[t] = IF mode[t] = "closing" THEN late[t] + 1 ELSE late[t]
    BY <1>1, <1>6 DEF Move
  <2>3. x \in Nat /\ y \in Nat /\ moved'[t] = moved[t] + x + y /\ late'[t] = late[t] + y
    BY <1>1, <2>1, <2>2
  <2>4. Total(t)' = Total(t) + x
    BY <1>1, <1>6, <2>1 DEF Move, Total
  <2>5. SameMeters
    BY <1>3, <1>6 DEF Move, Start, accounts, SameMeters
  <2>6. mode'[t] = "none" => cum'[t] = 0
    BY <1>2, <2>1
  <2> HIDE DEF x, y
  <2>7. QED BY <2>1, <2>3, <2>4, <2>5, <2>6, KeepsAccounts DEF SameMeters
<1>7. CASE ForwardsUp(t) \/ ConnectionLost(t) \/ CloseBegin(t) \/ CloseEnd(t) \/ Remove(t)
  <2>1. moved' = moved /\ late' = late /\ renewed' = renewed /\ removed \subseteq removed'
    BY <1>7 DEF ForwardsUp, ConnectionLost, CloseBegin, CloseEnd, Remove
  <2>2. Total(t)' = Total(t)
    BY <1>1, <1>7
       DEF ForwardsUp, ConnectionLost, CloseBegin, CloseEnd, Remove, Total, TakenOver
  <2>3. mode'[t] = "none" => cum'[t] = 0
    BY <1>1, <1>2, <1>7 DEF ForwardsUp, ConnectionLost, CloseBegin, CloseEnd, Remove
  <2>4. SameMeters
    BY <1>7
       DEF ForwardsUp, ConnectionLost, CloseBegin, CloseEnd, Remove, accounts, SameMeters
  <2>5. Total(t)' = Total(t) + 0 /\ late'[t] = late[t] + 0
        /\ moved'[t] = moved[t] + 0 + 0 /\ renewed'[t] = renewed[t]
    BY <1>1, <2>1, <2>2
  <2>6. QED BY <2>1, <2>3, <2>4, <2>5, KeepsAccounts DEF SameMeters
<1>8. QED BY <1>4, <1>5, <1>6, <1>7

LEMMA RestartAccounts == Accounts /\ Restart /\ TypeOK' => Accounts'
<1> SUFFICES ASSUME Accounts, Restart, TypeOK' PROVE Accounts'
  OBVIOUS
<1>1. ASSUME NEW t \in Tunnel
      PROVE  TunnelAt(t)' /\ \A m \in Meter : MeterAt(m, t)'
  <2>1. cum'[t] = 0 /\ moved'[t] = moved[t] /\ late'[t] = late[t]
    BY DEF Restart, Zero
  <2>2. renewed'[t] = (renewed[t] \/ moved[t] > 0)
    BY DEF Restart
  <2>3. Total(t)' = 0
    BY <2>1 DEF Restart, Zero, Total
  <2>4. moved[t] \in Nat /\ late[t] \in Nat /\ Total(t) \in Nat
    BY ReadingType DEF Accounts, TypeOK
  <2>5. TunnelAt(t) /\ \A m \in Meter : MeterAt(m, t)
    BY DEF Accounts
  <2>6. ~renewed'[t] => ~renewed[t] /\ moved[t] = 0 /\ late[t] = 0
    <3>1. ~(moved[t] > 0) => moved[t] = 0
      BY <2>4
    <3>2. ~renewed[t] /\ moved[t] = 0 => late[t] = 0
      BY <2>4, <2>5 DEF TunnelAt
    <3>3. QED BY <2>2, <3>1, <3>2
  <2>7. TunnelAt(t)'
    BY <2>1, <2>3, <2>6 DEF TunnelAt
  <2>8. ASSUME NEW m \in Meter
        PROVE  MeterAt(m, t)'
    <3>1. base'[m][t] = 0 /\ counted'[m][t] = counted[m][t] /\ blurred'[m][t] = blurred[m][t]
      BY DEF Restart, Zero
    <3>2. counted[m][t] \in Nat /\ base[m][t] \in Nat
      BY DEF Accounts, TypeOK
    <3>3. ~blurred[m][t] => counted[m][t] <= moved[t]
      BY <2>5 DEF MeterAt
    <3>4. OwingAt(m, t)'
      BY <2>1, <2>3, <3>1, <3>2, <3>3 DEF OwingAt
    <3>5. ~blurred[m][t] /\ ~renewed'[t] => counted[m][t] = 0
      BY <2>4, <2>6, <3>2, <3>3
    <3>6. NothingIsLostAt(m, t)'
      BY <2>1, <2>3, <2>6, <3>1, <3>5 DEF NothingIsLostAt
    <3>7. QED BY <2>1, <3>1, <3>3, <3>4, <3>6 DEF MeterAt
  <2>9. QED BY <2>7, <2>8
<1>2. QED BY <1>1 DEF Accounts

LEMMA NextAccounts == Accounts /\ [Next]_vars => Accounts'
<1> SUFFICES ASSUME Accounts, [Next]_vars PROVE Accounts'
  OBVIOUS
<1>1. TypeOK'
  BY NextType DEF Accounts
<1>2. ASSUME NEW u \in Tunnel,
             \/ Start(u) \/ ForwardsUp(u) \/ Move(u) \/ ConnectionLost(u)
             \/ CloseBegin(u) \/ CloseEnd(u) \/ Stop(u) \/ Remove(u)
      PROVE  Accounts'
  <2>1. ASSUME NEW t \in Tunnel
        PROVE  TunnelAt(t)' /\ \A m \in Meter : MeterAt(m, t)'
    <3>1. CASE t = u
      BY <1>1, <1>2, <3>1, OwnTunnel
    <3>2. CASE t # u
      BY <1>2, <3>2, OtherTunnels
    <3>3. QED BY <3>1, <3>2
  <2>2. QED BY <1>1, <2>1 DEF Accounts
<1>3. CASE Sample
  <2>1. base'["sample"] = [t \in Tunnel |-> IF t \in Listed THEN Reading(t) ELSE 0]
        /\ \A n \in Meter \ {"sample"} : base'[n] = base[n]
    BY <1>3 DEF Sample, Accounts, TypeOK, Meter
  <2>2. "sample" \in Meter /\ Count("sample")
        /\ UNCHANGED <<removed, mode, fwd, cum, moved, late, renewed>>
    BY <1>3 DEF Sample, Meter
  <2>3. \A t \in Listed : base'["sample"][t] = Reading(t)
    BY <2>1 DEF Listed
  <2>4. QED BY <1>1, <2>1, <2>2, <2>3, CountAccounts
<1>4. CASE Flush
  <2>1. base'["flush"] =
          [t \in Tunnel |-> IF t \in Listed THEN Reading(t) ELSE base["flush"][t]]
        /\ \A n \in Meter \ {"flush"} : base'[n] = base[n]
    BY <1>4 DEF Flush, Accounts, TypeOK, Meter
  <2>2. "flush" \in Meter /\ Count("flush")
        /\ UNCHANGED <<removed, mode, fwd, cum, moved, late, renewed>>
    BY <1>4 DEF Flush, Meter
  <2>3. \A t \in Listed : base'["flush"][t] = Reading(t)
    BY <2>1 DEF Listed
  <2>4. QED BY <1>1, <2>1, <2>2, <2>3, CountAccounts
<1>5. CASE Tick \/ UNCHANGED vars
  <2>1. UNCHANGED <<removed, mode, fwd, cum, base, moved, late, counted, renewed, blurred>>
    BY <1>5 DEF Tick, vars
  <2>2. QED BY <1>1, <2>1
            DEF Accounts, TunnelAt, MeterAt, OwingAt, NothingIsLostAt, Total
<1>6. CASE Restart
  BY <1>1, <1>6, RestartAccounts
<1>7. QED BY <1>2, <1>3, <1>4, <1>5, <1>6 DEF Next

-----------------------------------------------------------------------------

LEMMA AccountsAlways == Spec => []Accounts
<1>1. QED BY InitAccounts, NextAccounts, PTL DEF Spec

\* No meter counts a byte twice (supervisor.go:247-261 against 433-440,
\* traffic.go:93-103), but for the readings that are known to be wrong.
THEOREM NoDoubleCount == Spec => []NoByteIsCountedTwice
<1>1. Accounts => NoByteIsCountedTwice
  BY DEF Accounts, MeterAt, NoByteIsCountedTwice
<1>2. QED BY <1>1, AccountsAlways, PTL

\* Until its total starts over, every byte of a configured tunnel is counted, or
\* will be at the next reading, or was moved while the forwarders drained
\* (supervisor.go:247-261, traffic.go:82-147); a stop and a delete lose the rest.
THEOREM NothingLost == Spec => []NothingIsLost
<1>1. Accounts => NothingIsLost
  BY DEF Accounts, MeterAt, NothingIsLostAt, NothingIsLost, Listed
<1>2. QED BY <1>1, AccountsAlways, PTL

-----------------------------------------------------------------------------
(* Induction, over the natural numbers and over finite sets. *)

LEMMA Least ==
  ASSUME NEW T \in SUBSET Nat, T # {}
  PROVE  \E x \in T : \A y \in T : x <= y
<1> DEFINE R == OpToRel(<, Nat)
<1>1. IsWellFoundedOn(R, Nat)
  BY NatLessThanWellFounded, Zenon
<1>2. \A x, y \in Nat : x < y => <<x, y>> \in R
  BY DEF OpToRel
<1> HIDE DEF R
<1>3. PICK x \in T : \A y \in T : <<y, x>> \notin R
  BY <1>1, WFMin
<1>4. ASSUME NEW y \in T PROVE x <= y
  <2>1. x \in Nat /\ y \in Nat /\ ~(y < x)
    BY <1>2, <1>3
  <2>2. QED BY <2>1
<1>5. QED BY <1>4

LEMMA Induction ==
  ASSUME NEW T \in SUBSET Nat, 0 \in T, \A n \in T : n + 1 \in T
  PROVE  T = Nat
<1>1. SUFFICES ASSUME Nat \ T # {} PROVE FALSE
  OBVIOUS
<1>2. PICK x \in Nat \ T : \A y \in Nat \ T : x <= y
  BY <1>1, Least
<1>3. x # 0 /\ x - 1 \in Nat
  BY <1>2
<1>4. x - 1 \in T
  BY <1>2, <1>3
<1>5. x - 1 + 1 = x
  BY <1>2
<1>6. QED BY <1>2, <1>4, <1>5

LEMMA FiniteInduction ==
  ASSUME NEW S, IsFiniteSet(S), NEW C, {} \in C,
         \A T \in SUBSET S : \A x \in S \ T : T \in C => T \cup {x} \in C
  PROVE  S \in C
<1> DEFINE R == StrictSubsetOrdering(S)
           U == (SUBSET S) \ C
<1>1. IsWellFoundedOn(R, SUBSET S)
  BY FS_StrictSubsetOrderingWellFounded, FS_FiniteSubsetsOfFinite
<1>2. \A T \in SUBSET S : \A x \in T : <<T \ {x}, T>> \in R
  BY DEF StrictSubsetOrdering
<1> HIDE DEF R
<1>3. SUFFICES ASSUME U # {} PROVE FALSE
  OBVIOUS
<1>4. PICK T \in U : \A V \in U : <<V, T>> \notin R
  <2>1. U \subseteq SUBSET S
    OBVIOUS
  <2> HIDE DEF U
  <2>2. QED BY <1>1, <1>3, <2>1, WFMin
<1>5. PICK x \in T : TRUE
  BY <1>4
<1>6. T \ {x} \in C
  BY <1>2, <1>4, <1>5
<1>7. (T \ {x}) \cup {x} = T
  BY <1>5
<1>8. QED BY <1>4, <1>5, <1>6, <1>7

\* g is defined by recursion up to n: from b, by the steps st.
Solves(g, b, st, n) ==
  g[0] = b /\ \A i \in 0 .. n : i # 0 => g[i] = st[i][g[i - 1]]

\* Recursion defines a function.
LEMMA Recursion ==
  ASSUME NEW S, NEW b \in S, NEW st \in [Nat -> [S -> S]], NEW m \in Nat
  PROVE  \E g \in [0 .. m -> S] : Solves(g, b, st, m)
<1> DEFINE T == {n \in Nat : \E g \in [0 .. n -> S] : Solves(g, b, st, n)}
<1>1. 0 \in T
  <2> DEFINE g == [i \in 0 .. 0 |-> b]
  <2>1. g \in [0 .. 0 -> S] /\ Solves(g, b, st, 0)
    BY DEF Solves
  <2> HIDE DEF g
  <2>2. QED BY <2>1
<1>2. ASSUME NEW n \in T PROVE n + 1 \in T
  <2>1. n \in Nat /\ \E g \in [0 .. n -> S] : Solves(g, b, st, n)
    OBVIOUS
  <2>2. PICK g \in [0 .. n -> S] : Solves(g, b, st, n)
    BY <2>1
  <2> DEFINE v == st[n + 1][g[n]]
             h == [i \in 0 .. n + 1 |-> IF i = n + 1 THEN v ELSE g[i]]
  <2>3. g[n] \in S
    BY <2>1
  <2>4. v \in S
    BY <2>1, <2>3
  <2>5. h[n + 1] = v /\ (\A i \in 0 .. n : h[i] = g[i]) /\ n + 1 # 0
    BY <2>1
  <2>6. h \in [0 .. n + 1 -> S]
    <3>1. \A i \in 0 .. n + 1 : i # n + 1 => i \in 0 .. n
      BY <2>1
    <3> HIDE DEF v
    <3>2. QED BY <2>4, <3>1
  <2> HIDE DEF h
  <2>7. h[0] = b
    BY <2>1, <2>2, <2>5 DEF Solves
  <2>8. ASSUME NEW i \in 0 .. n + 1, i # 0 PROVE h[i] = st[i][h[i - 1]]
    <3>1. CASE i = n + 1
      <4>1. i - 1 = n /\ n \in 0 .. n
        BY <2>1, <3>1
      <4>2. h[i - 1] = g[n]
        BY <2>5, <4>1
      <4>3. QED BY <2>5, <3>1, <4>2
    <3>2. CASE i # n + 1
      <4>1. i \in 0 .. n /\ i - 1 \in 0 .. n
        BY <2>1, <2>8, <3>2
      <4>2. h[i] = g[i] /\ h[i - 1] = g[i - 1]
        BY <2>5, <4>1
      <4>3. QED BY <2>2, <2>8, <4>1, <4>2 DEF Solves
    <3>3. QED BY <3>1, <3>2
  <2>9. Solves(h, b, st, n + 1)
    BY <2>7, <2>8 DEF Solves
  <2>10. QED BY <2>1, <2>6, <2>9
<1>3. T = Nat
  <2>1. T \in SUBSET Nat
    OBVIOUS
  <2> HIDE DEF T
  <2>2. QED BY <1>1, <1>2, <2>1, Induction
<1>4. QED BY <1>3

-----------------------------------------------------------------------------
(* Sums. *)

\* The element a sum takes next.
Taken(T) == CHOOSE x \in T : TRUE

\* g adds up f over every subset of S.
AddsUp(g, f, S) ==
  \A T \in SUBSET S : g[T] = IF T = {} THEN 0 ELSE f[Taken(T)] + g[T \ {Taken(T)}]

LEMMA TakenIn ==
  ASSUME NEW T, T # {}
  PROVE  Taken(T) \in T
BY DEF Taken

LEMMA SumIs ==
  ASSUME NEW f, NEW S
  PROVE  SumFunctionOnSet(f, S) =
           (CHOOSE g : g = [T \in SUBSET S |->
              IF T = {} THEN 0 ELSE f[Taken(T)] + g[T \ {Taken(T)}]])[S]
BY DEF SumFunctionOnSet, FoldFunctionOnSet, MapThenFoldSet, Taken

\* Two ways to add up agree where both do.
LEMMA SameSums ==
  ASSUME NEW f, NEW g, NEW h, NEW S, NEW R, IsFiniteSet(S \cap R),
         AddsUp(g, f, S), AddsUp(h, f, R), NEW Q, Q \subseteq S, Q \subseteq R
  PROVE  g[Q] = h[Q]
<1>1. IsFiniteSet(Q)
  <2>1. Q \in SUBSET (S \cap R)
    OBVIOUS
  <2>2. QED BY <2>1, FS_Subset
<1> DEFINE U == {n \in Nat : \A T \in SUBSET Q : Cardinality(T) <= n => g[T] = h[T]}
<1>2. \A T \in SUBSET Q : IsFiniteSet(T) /\ Cardinality(T) \in Nat
  BY <1>1, FS_Subset, FS_CardinalityType
<1>3. 0 \in U
  <2>1. ASSUME NEW T \in SUBSET Q, Cardinality(T) <= 0 PROVE g[T] = h[T]
    <3>1. T = {}
      BY <1>2, <2>1, FS_EmptySet
    <3>2. T \in SUBSET S /\ T \in SUBSET R
      OBVIOUS
    <3>3. QED BY <3>1, <3>2 DEF AddsUp
  <2>2. QED BY <2>1
<1>4. ASSUME NEW n \in U PROVE n + 1 \in U
  <2>1. n \in Nat /\ \A T \in SUBSET Q : Cardinality(T) <= n => g[T] = h[T]
    OBVIOUS
  <2>2. ASSUME NEW T \in SUBSET Q, Cardinality(T) <= n + 1 PROVE g[T] = h[T]
    <3>1. T \in SUBSET S /\ T \in SUBSET R
      OBVIOUS
    <3>2. CASE T = {}
      BY <3>1, <3>2 DEF AddsUp
    <3>3. CASE T # {}
      <4> DEFINE c == Taken(T)
                 V == T \ {c}
      <4>1. c \in T
        BY <3>3, TakenIn
      <4>2. Cardinality(V) = Cardinality(T) - 1 /\ V \in SUBSET Q
        BY <1>2, <4>1, FS_RemoveElement
      <4>3. g[V] = h[V]
        BY <1>2, <2>1, <2>2, <4>2
      <4>4. g[T] = f[c] + g[V] /\ h[T] = f[c] + h[V]
        BY <3>1, <3>3 DEF AddsUp
      <4>5. QED BY <4>3, <4>4
    <3>4. QED BY <3>2, <3>3
  <2>3. QED BY <2>1, <2>2
<1>5. U = Nat
  <2>1. U \in SUBSET Nat
    OBVIOUS
  <2> HIDE DEF U
  <2>2. QED BY <1>3, <1>4, <2>1, Induction
<1>6. Cardinality(Q) \in U /\ Cardinality(Q) <= Cardinality(Q)
  BY <1>2, <1>5
<1>7. QED BY <1>6

\* g adds up f over S and all its subsets, and gives what the sum operator gives.
SumBy(g, f, S) ==
  g \in [SUBSET S -> Nat] /\ AddsUp(g, f, S) /\ SumFunctionOnSet(f, S) = g[S]

IsSum(f, S) == \E g : SumBy(g, f, S)

\* A finite sum can be added up, and is what the community's operator computes.
LEMMA SumAddsUp ==
  ASSUME NEW D, NEW f \in [D -> Nat], NEW S \in SUBSET D, IsFiniteSet(S)
  PROVE  IsSum(f, S)
<1> DEFINE X == [SUBSET S -> Nat]
           step(h) == [T \in SUBSET S |->
                         IF T = {} THEN 0 ELSE f[Taken(T)] + h[T \ {Taken(T)}]]
           st == [i \in Nat |-> [h \in X |-> step(h)]]
           b == [T \in SUBSET S |-> 0]
           m == Cardinality(S)
<1>1. \A T \in SUBSET S : IsFiniteSet(T) /\ Cardinality(T) \in Nat /\ Cardinality(T) <= m
  BY FS_Subset, FS_CardinalityType
<1>2. m \in Nat
  BY FS_CardinalityType
<1>3. ASSUME NEW T \in SUBSET S, T # {}
      PROVE  /\ Taken(T) \in D /\ T \ {Taken(T)} \in SUBSET S /\ f[Taken(T)] \in Nat
             /\ Cardinality(T \ {Taken(T)}) = Cardinality(T) - 1
  <2>1. Taken(T) \in T
    BY <1>3, TakenIn
  <2>2. Cardinality(T \ {Taken(T)}) = Cardinality(T) - 1
    BY <1>1, <2>1, FS_RemoveElement
  <2>3. QED BY <2>1, <2>2
<1>4. b \in X
  OBVIOUS
<1>5. \A h \in X : step(h) \in X
  <2>1. ASSUME NEW h \in X, NEW T \in SUBSET S
        PROVE  (IF T = {} THEN 0 ELSE f[Taken(T)] + h[T \ {Taken(T)}]) \in Nat
    <3>1. CASE T = {}
      BY <3>1
    <3>2. CASE T # {}
      <4>1. f[Taken(T)] \in Nat /\ h[T \ {Taken(T)}] \in Nat
        BY <1>3, <3>2
      <4>2. QED BY <3>2, <4>1
    <3>3. QED BY <3>1, <3>2
  <2>2. QED BY <2>1
<1>6. st \in [Nat -> [X -> X]] /\ \A i \in Nat, h \in X : st[i][h] = step(h)
  <2> HIDE DEF X, step
  <2>1. QED BY <1>5
<1>7. \E h \in [0 .. m + 1 -> X] : Solves(h, b, st, m + 1)
  <2> HIDE DEF X, b, st, m
  <2>1. QED BY <1>2, <1>4, <1>6, Recursion
<1>8. PICK h \in [0 .. m + 1 -> X] : Solves(h, b, st, m + 1)
  BY <1>7
<1>9. h[0] = b /\ \A i \in 0 .. m : h[i] \in X /\ h[i + 1] \in X /\ h[i + 1] = step(h[i])
  <2>1. ASSUME NEW i \in 0 .. m
        PROVE  h[i] \in X /\ h[i + 1] \in X /\ h[i + 1] = step(h[i])
    <3>1. i \in 0 .. m + 1 /\ i + 1 \in 0 .. m + 1 /\ i + 1 # 0 /\ i + 1 - 1 = i
          /\ i + 1 \in Nat
      BY <1>2
    <3> HIDE DEF X, b, st, m, step
    <3>2. h[i] \in X /\ h[i + 1] \in X
      BY <3>1
    <3>3. h[i + 1] = st[i + 1][h[i]]
      BY <1>8, <3>1 DEF Solves
    <3>4. QED BY <1>6, <3>1, <3>2, <3>3
  <2> HIDE DEF X, b, st, m, step
  <2>2. QED BY <1>8, <2>1 DEF Solves
<1>10. \A i \in 0 .. m : \A T \in SUBSET S :
         h[i + 1][T] = IF T = {} THEN 0 ELSE f[Taken(T)] + h[i][T \ {Taken(T)}]
  <2>1. ASSUME NEW i \in 0 .. m, NEW T \in SUBSET S
        PROVE  h[i + 1][T] = IF T = {} THEN 0 ELSE f[Taken(T)] + h[i][T \ {Taken(T)}]
    <3>1. h[i + 1] = step(h[i])
      BY <1>9
    <3>2. step(h[i])[T] = IF T = {} THEN 0 ELSE f[Taken(T)] + h[i][T \ {Taken(T)}]
      OBVIOUS
    <3> HIDE DEF step
    <3>3. QED BY <3>1, <3>2
  <2>2. QED BY <2>1
<1>11. \A T \in SUBSET S : h[0][T] = 0
  BY <1>9
<1> HIDE DEF X, b, st, step, m
<1> DEFINE U == {n \in Nat : n <= m =>
                   \A T \in SUBSET S : Cardinality(T) <= n => h[n + 1][T] = h[n][T]}
<1>12. 0 \in U
  <2>1. ASSUME NEW T \in SUBSET S, Cardinality(T) <= 0 PROVE h[0 + 1][T] = h[0][T]
    <3>1. T = {}
      BY <1>1, <2>1, FS_EmptySet
    <3>2. 0 \in 0 .. m
      BY <1>2
    <3>3. QED BY <1>10, <1>11, <3>1, <3>2
  <2>2. QED BY <2>1
<1>13. ASSUME NEW n \in U PROVE n + 1 \in U
  <2>1. n \in Nat /\ (n <= m => \A T \in SUBSET S : Cardinality(T) <= n => h[n + 1][T] = h[n][T])
    OBVIOUS
  <2> HIDE DEF U
  <2>2. ASSUME n + 1 <= m, NEW T \in SUBSET S, Cardinality(T) <= n + 1
        PROVE  h[n + 1 + 1][T] = h[n + 1][T]
    <3>1. n \in 0 .. m /\ n + 1 \in 0 .. m
      BY <1>2, <2>1, <2>2
    <3>2. h[n + 1 + 1][T] = IF T = {} THEN 0 ELSE f[Taken(T)] + h[n + 1][T \ {Taken(T)}]
      BY <1>10, <3>1
    <3>3. h[n + 1][T] = IF T = {} THEN 0 ELSE f[Taken(T)] + h[n][T \ {Taken(T)}]
      BY <1>10, <3>1
    <3>4. CASE T # {}
      <4>1. Cardinality(T \ {Taken(T)}) <= n /\ T \ {Taken(T)} \in SUBSET S
        <5>1. Cardinality(T) \in Nat
          BY <1>1
        <5>2. Cardinality(T \ {Taken(T)}) = Cardinality(T) - 1
          BY <1>3, <3>4
        <5>3. QED BY <2>1, <2>2, <5>1, <5>2
      <4>2. h[n + 1][T \ {Taken(T)}] = h[n][T \ {Taken(T)}]
        BY <2>1, <3>1, <4>1
      <4>3. QED BY <3>2, <3>3, <3>4, <4>2
    <3>5. CASE T = {}
      BY <3>2, <3>3, <3>5
    <3>6. QED BY <3>4, <3>5
  <2>3. n + 1 \in Nat
    BY <2>1
  <2>4. QED BY <2>2, <2>3 DEF U
<1>14. U = Nat
  <2>1. U \in SUBSET Nat
    OBVIOUS
  <2> HIDE DEF U
  <2>2. QED BY <1>12, <1>13, <2>1, Induction
<1> DEFINE g == h[m + 1]
<1>15. g \in [SUBSET S -> Nat]
  <2>1. m \in 0 .. m
    BY <1>2
  <2>2. QED BY <1>9, <2>1 DEF X
<1>16. AddsUp(g, f, S)
  <2>1. m \in U /\ m <= m /\ m \in 0 .. m
    BY <1>2, <1>14
  <2>2. \A T \in SUBSET S : h[m + 1][T] = h[m][T]
    BY <1>1, <2>1
  <2>3. ASSUME NEW T \in SUBSET S
        PROVE  g[T] = IF T = {} THEN 0 ELSE f[Taken(T)] + g[T \ {Taken(T)}]
    <3>1. g[T] = IF T = {} THEN 0 ELSE f[Taken(T)] + h[m][T \ {Taken(T)}]
      BY <1>10, <2>1
    <3>2. T # {} => h[m][T \ {Taken(T)}] = g[T \ {Taken(T)}]
      BY <1>3, <2>2
    <3>3. QED BY <3>1, <3>2
  <2>4. QED BY <2>3 DEF AddsUp
<1> HIDE DEF g, U
<1> DEFINE k == CHOOSE q : q = [T \in SUBSET S |->
                  IF T = {} THEN 0 ELSE f[Taken(T)] + q[T \ {Taken(T)}]]
<1>17. k = [T \in SUBSET S |-> IF T = {} THEN 0 ELSE f[Taken(T)] + k[T \ {Taken(T)}]]
  <2>1. g = [T \in SUBSET S |-> g[T]]
    BY <1>15
  <2>2. g = [T \in SUBSET S |-> IF T = {} THEN 0 ELSE f[Taken(T)] + g[T \ {Taken(T)}]]
    BY <1>16, <2>1 DEF AddsUp
  <2>3. QED BY <2>2, Zenon
<1>18. SumFunctionOnSet(f, S) = k[S]
  BY SumIs
<1> HIDE DEF k
<1>19. AddsUp(k, f, S)
  BY <1>17 DEF AddsUp
<1>20. k[S] = g[S]
  <2>1. S \cap S = S
    OBVIOUS
  <2>2. QED BY <1>16, <1>19, <2>1, SameSums
<1>21. QED BY <1>15, <1>16, <1>18, <1>20 DEF IsSum, SumBy

\* A sum takes its elements one by one ...
LEMMA SumTakes ==
  ASSUME NEW D, NEW f \in [D -> Nat], NEW S \in SUBSET D, IsFiniteSet(S)
  PROVE  /\ SumFunctionOnSet(f, S) \in Nat
         /\ S = {} => SumFunctionOnSet(f, S) = 0
         /\ S # {} => SumFunctionOnSet(f, S)
                        = f[Taken(S)] + SumFunctionOnSet(f, S \ {Taken(S)})
<1>1. PICK g \in [SUBSET S -> Nat] : AddsUp(g, f, S) /\ SumFunctionOnSet(f, S) = g[S]
  <2>1. IsSum(f, S)
    BY SumAddsUp
  <2>2. QED BY <2>1 DEF IsSum, SumBy
<1>2. S \in SUBSET S
  OBVIOUS
<1>3. SumFunctionOnSet(f, S) \in Nat /\ (S = {} => SumFunctionOnSet(f, S) = 0)
  BY <1>1, <1>2 DEF AddsUp
<1>4. ASSUME S # {}
      PROVE  SumFunctionOnSet(f, S) = f[Taken(S)] + SumFunctionOnSet(f, S \ {Taken(S)})
  <2> DEFINE V == S \ {Taken(S)}
  <2>1. V \in SUBSET D /\ IsFiniteSet(V) /\ V \subseteq S
    BY FS_Subset
  <2>2. g[S] = f[Taken(S)] + g[V]
    BY <1>1, <1>2, <1>4 DEF AddsUp
  <2> HIDE DEF V
  <2>3. PICK h \in [SUBSET V -> Nat] : AddsUp(h, f, V) /\ SumFunctionOnSet(f, V) = h[V]
    <3>1. IsSum(f, V)
      BY <2>1, SumAddsUp
    <3>2. QED BY <3>1 DEF IsSum, SumBy
  <2>4. h[V] = g[V]
    <3>1. V \cap S = V /\ V \subseteq V
      BY <2>1
    <3>2. QED BY <1>1, <2>1, <2>3, <3>1, SameSums
  <2>5. QED BY <1>1, <2>2, <2>3, <2>4 DEF V
<1>5. QED BY <1>3, <1>4

\* ... and the order does not matter.
LEMMA SumWithout ==
  ASSUME NEW D, NEW f \in [D -> Nat], NEW S \in SUBSET D, IsFiniteSet(S), NEW x \in S
  PROVE  SumFunctionOnSet(f, S) = f[x] + SumFunctionOnSet(f, S \ {x})
<1> DEFINE sum(T) == SumFunctionOnSet(f, T)
           U == {n \in Nat : \A T \in SUBSET S : Cardinality(T) <= n =>
                   \A y \in T : sum(T) = f[y] + sum(T \ {y})}
<1>1. \A T \in SUBSET S : IsFiniteSet(T) /\ Cardinality(T) \in Nat /\ T \in SUBSET D
  BY FS_Subset, FS_CardinalityType
<1>2. \A T \in SUBSET S : sum(T) \in Nat
  BY <1>1, SumTakes
<1>3. \A T \in SUBSET S : T # {} =>
        Taken(T) \in T /\ sum(T) = f[Taken(T)] + sum(T \ {Taken(T)})
  BY <1>1, SumTakes, TakenIn
<1>4. \A T \in SUBSET S : \A y \in T : Cardinality(T \ {y}) = Cardinality(T) - 1
  BY <1>1, FS_RemoveElement
<1> HIDE DEF sum
<1>5. 0 \in U
  <2>1. \A T \in SUBSET S : Cardinality(T) <= 0 => T = {}
    <3>1. ASSUME NEW T \in SUBSET S, Cardinality(T) <= 0 PROVE T = {}
      BY <1>1, <3>1, FS_EmptySet
    <3>2. QED BY <3>1
  <2>2. QED BY <2>1
<1>6. ASSUME NEW n \in U PROVE n + 1 \in U
  <2>1. n \in Nat /\ \A T \in SUBSET S : Cardinality(T) <= n =>
                       \A y \in T : sum(T) = f[y] + sum(T \ {y})
    OBVIOUS
  <2>2. ASSUME NEW T \in SUBSET S, Cardinality(T) <= n + 1, NEW y \in T
        PROVE  sum(T) = f[y] + sum(T \ {y})
    <3> DEFINE c == Taken(T)
    <3>1. c \in T /\ sum(T) = f[c] + sum(T \ {c})
      BY <1>3
    <3> HIDE DEF c
    <3>2. CASE c = y
      BY <3>1, <3>2
    <3>3. CASE c # y
      <4> DEFINE V == T \ {c}
                 W == T \ {y}
                 Z == (T \ {c}) \ {y}
      <4>1. V \in SUBSET S /\ W \in SUBSET S /\ Z \in SUBSET S
            /\ y \in V /\ c \in W /\ W \ {c} = Z
        BY <3>1, <3>3
      <4>2. Cardinality(V) <= n /\ Cardinality(W) <= n
        <5>1. Cardinality(V) = Cardinality(T) - 1 /\ Cardinality(W) = Cardinality(T) - 1
              /\ Cardinality(T) \in Nat
          BY <1>1, <1>4, <3>1
        <5> HIDE DEF V, W
        <5>2. QED BY <2>1, <2>2, <5>1
      <4>3. sum(V) = f[y] + sum(Z) /\ sum(W) = f[c] + sum(Z)
        BY <2>1, <4>1, <4>2
      <4>4. sum(Z) \in Nat /\ f[y] \in Nat /\ f[c] \in Nat
        BY <1>2, <3>1, <4>1
      <4> HIDE DEF Z
      <4>5. QED BY <3>1, <4>3, <4>4
    <3>4. QED BY <3>2, <3>3
  <2>3. n + 1 \in Nat
    BY <2>1
  <2>4. QED BY <2>2, <2>3
<1>7. U = Nat
  <2>1. U \in SUBSET Nat
    OBVIOUS
  <2> HIDE DEF U
  <2>2. QED BY <1>5, <1>6, <2>1, Induction
<1>8. Cardinality(S) \in U /\ Cardinality(S) <= Cardinality(S) /\ S \in SUBSET S
  BY <1>1, <1>7
<1>9. sum(S) = f[x] + sum(S \ {x})
  BY <1>8
<1>10. QED BY <1>9 DEF sum

\* The sum over two disjoint sets ...
LEMMA SumOfTwo ==
  ASSUME NEW D, NEW f \in [D -> Nat], NEW A \in SUBSET D, NEW B \in SUBSET D,
         IsFiniteSet(A), IsFiniteSet(B), A \cap B = {}
  PROVE  SumFunctionOnSet(f, A \cup B) = SumFunctionOnSet(f, A) + SumFunctionOnSet(f, B)
<1> DEFINE sum(T) == SumFunctionOnSet(f, T)
           C == {T \in SUBSET B : sum(A \cup T) = sum(A) + sum(T)}
<1>1. \A T \in SUBSET B : /\ IsFiniteSet(T) /\ IsFiniteSet(A \cup T)
                          /\ T \in SUBSET D /\ A \cup T \in SUBSET D
  <2>1. ASSUME NEW T \in SUBSET B PROVE IsFiniteSet(T) /\ IsFiniteSet(A \cup T)
    <3>1. IsFiniteSet(T)
      BY FS_Subset
    <3>2. QED BY <3>1, FS_Union
  <2>2. QED BY <2>1
<1>2. \A T \in SUBSET B : sum(T) \in Nat /\ sum(A \cup T) \in Nat
  BY <1>1, SumTakes
<1>3. sum(A) \in Nat /\ sum({}) = 0
  <2>1. {} \in SUBSET D /\ IsFiniteSet({})
    BY FS_EmptySet
  <2>2. QED BY <2>1, SumTakes
<1>4. \A T \in SUBSET B : \A x \in T : sum(T) = f[x] + sum(T \ {x})
  <2>1. ASSUME NEW T \in SUBSET B, NEW x \in T PROVE sum(T) = f[x] + sum(T \ {x})
    <3>1. IsFiniteSet(T) /\ T \in SUBSET D
      BY <1>1
    <3>2. QED BY <3>1, SumWithout
  <2>2. QED BY <2>1
<1>5. \A T \in SUBSET B : \A x \in T : sum(A \cup T) = f[x] + sum((A \cup T) \ {x})
  <2>1. ASSUME NEW T \in SUBSET B, NEW x \in T
        PROVE  sum(A \cup T) = f[x] + sum((A \cup T) \ {x})
    <3>1. x \in A \cup T /\ A \cup T \in SUBSET D /\ IsFiniteSet(A \cup T)
      BY <1>1
    <3> DEFINE V == A \cup T
    <3> HIDE DEF V
    <3>2. x \in V /\ V \in SUBSET D /\ IsFiniteSet(V)
      BY <3>1 DEF V
    <3>3. SumFunctionOnSet(f, V) = f[x] + SumFunctionOnSet(f, V \ {x})
      BY <3>2, SumWithout
    <3>4. QED BY <3>3 DEF V
  <2>2. QED BY <2>1
<1> HIDE DEF sum
<1>6. {} \in C
  <2>1. A \cup {} = A
    OBVIOUS
  <2>2. QED BY <1>3, <2>1
<1>7. ASSUME NEW T \in SUBSET B, NEW x \in B \ T, T \in C
      PROVE  T \cup {x} \in C
  <2> DEFINE V == T \cup {x}
  <2>1. V \in SUBSET B /\ x \in V /\ V \ {x} = T /\ (A \cup V) \ {x} = A \cup T
    OBVIOUS
  <2>2. sum(A \cup T) = sum(A) + sum(T)
    BY <1>7
  <2> HIDE DEF V
  <2>3. sum(V) = f[x] + sum(T) /\ sum(A \cup V) = f[x] + sum(A \cup T)
    BY <1>4, <1>5, <2>1
  <2>4. f[x] \in Nat /\ sum(T) \in Nat
    BY <1>2, <2>1
  <2>5. sum(A \cup V) = sum(A) + sum(V)
    BY <1>3, <2>2, <2>3, <2>4
  <2>6. QED BY <2>1, <2>5 DEF V
<1>8. B \in C
  <2> HIDE DEF C
  <2>1. QED BY <1>6, <1>7, FiniteInduction
<1>9. QED BY <1>8 DEF sum

\* ... and over disjoint parts.
LEMMA SumOfParts ==
  ASSUME NEW D, NEW f \in [D -> Nat], IsFiniteSet(D), NEW K, IsFiniteSet(K),
         NEW P \in [K -> SUBSET D], \A j, k \in K : j # k => P[j] \cap P[k] = {},
         NEW q \in [K -> Nat], \A k \in K : q[k] = SumFunctionOnSet(f, P[k])
  PROVE  SumFunctionOnSet(q, K) = SumFunctionOnSet(f, UNION {P[k] : k \in K})
<1> DEFINE all(J) == UNION {P[k] : k \in J}
           C == {J \in SUBSET K : SumFunctionOnSet(q, J) = SumFunctionOnSet(f, all(J))}
<1>1. \A A \in SUBSET D : IsFiniteSet(A)
  BY FS_Subset
<1>2. \A J \in SUBSET K : IsFiniteSet(J) /\ all(J) \in SUBSET D
  BY FS_Subset
<1>3. {} \in C
  <2>1. {} \in SUBSET D /\ {} \in SUBSET K /\ IsFiniteSet({}) /\ all({}) = {}
    BY FS_EmptySet
  <2>2. SumFunctionOnSet(q, {}) = 0 /\ SumFunctionOnSet(f, {}) = 0
    BY <2>1, SumTakes
  <2> HIDE DEF all
  <2>3. QED BY <2>1, <2>2
<1>4. ASSUME NEW J \in SUBSET K, NEW x \in K \ J, J \in C
      PROVE  J \cup {x} \in C
  <2> DEFINE V == J \cup {x}
  <2>1. V \in SUBSET K /\ x \in V /\ V \ {x} = J
    OBVIOUS
  <2>2. all(V) = all(J) \cup P[x] /\ all(J) \cap P[x] = {} /\ P[x] \in SUBSET D
        /\ all(J) \in SUBSET D
    OBVIOUS
  <2>3. SumFunctionOnSet(q, J) = SumFunctionOnSet(f, all(J))
    BY <1>4
  <2> HIDE DEF V, all
  <2>4. IsFiniteSet(V)
    BY <1>2, <2>1
  <2>5. SumFunctionOnSet(q, V) = q[x] + SumFunctionOnSet(q, J)
    BY <2>1, <2>4, SumWithout
  <2>6. SumFunctionOnSet(f, all(V)) = SumFunctionOnSet(f, all(J)) + SumFunctionOnSet(f, P[x])
    BY <1>1, <2>2, SumOfTwo
  <2>7. q[x] = SumFunctionOnSet(f, P[x]) /\ q[x] \in Nat
    OBVIOUS
  <2>8. SumFunctionOnSet(f, all(J)) \in Nat
    BY <1>1, <2>2, SumTakes
  <2>9. SumFunctionOnSet(q, V) = SumFunctionOnSet(f, all(V))
    BY <2>3, <2>5, <2>6, <2>7, <2>8
  <2>10. QED BY <2>1, <2>9 DEF V
<1>5. K \in C
  <2> HIDE DEF C
  <2>1. QED BY <1>3, <1>4, FiniteInduction
<1>6. QED BY <1>5

-----------------------------------------------------------------------------
(* The buckets of an answer. *)

LEMMA TruncatedFacts ==
  ASSUME NEW s \in Nat, NEW d \in Nat \ {0}
  PROVE  Truncated(s, d) \in Nat /\ Truncated(s, d) <= s /\ Truncated(s, d) % d = 0
<1> DEFINE q == s \div d
           r == s % d
<1>1. s = d * q + r /\ q \in Nat /\ r \in Nat /\ r <= s
  OBVIOUS
<1>2. \A p \in Nat : (d * p) % d = 0
  OBVIOUS
<1> HIDE DEF q, r
<1>3. s - r = d * q /\ s - r \in Nat /\ s - r <= s
  BY <1>1
<1>4. (s - r) % d = 0
  BY <1>1, <1>2, <1>3
<1>5. QED BY <1>3, <1>4 DEF Truncated, r

LEMMA TruncatedGrows ==
  ASSUME NEW r \in Nat, NEW s \in Nat, r <= s, NEW d \in Nat \ {0}
  PROVE  Truncated(r, d) <= Truncated(s, d)
BY DEF Truncated

\* Whatever the range and the step: the buckets are disjoint, and together they
\* are the range.
LEMMA BucketsPartition ==
  ASSUME NEW from \in Nat, NEW to \in Nat, NEW step \in Nat \ {0}
  PROVE  LET range == {s \in Time : from <= s /\ s < to}
         IN  \A s \in range : Truncated(s, step) \in Starts(from, to, step)
<1> SUFFICES ASSUME NEW s \in Time, from <= s, s < to
             PROVE  Truncated(s, step) \in Starts(from, to, step)
  OBVIOUS
<1>1. s \in Nat /\ s <= MaxTime /\ MaxTime \in Nat
  BY TrafficConstants DEF Time
<1> DEFINE k == Truncated(s, step)
<1>2. k \in Nat /\ k <= s /\ k % step = 0
  BY <1>1, TruncatedFacts
<1>3. Truncated(from, step) <= k
  BY <1>1, TruncatedGrows
<1> HIDE DEF k
<1>4. k \in Time /\ k < to
  BY <1>1, <1>2 DEF Time
<1>5. QED BY <1>2, <1>3, <1>4 DEF Starts, k

LEMMA QueryAddsUp ==
  ASSUME TypeOK, NEW from \in Nat, NEW to \in Nat, NEW step \in Nat \ {0}
  PROVE  SumFunction(Query(from, to, step)) = Recorded({s \in Time : from <= s /\ s < to})
<1> DEFINE D == Tunnel \X Time
           f == [r \in D |-> db[r[1]][r[2]]]
           K == Starts(from, to, step)
           bucket(k) == {s \in Time : from <= s /\ s < to /\ Truncated(s, step) = k}
           range == {s \in Time : from <= s /\ s < to}
           P == [k \in K |-> Tunnel \X bucket(k)]
           q == Query(from, to, step)
<1>1. IsFiniteSet(Time) /\ IsFiniteSet(D)
  <2>1. IsFiniteSet(Time)
    BY TrafficConstants, FS_Interval DEF Time
  <2>2. QED BY <2>1, TrafficConstants, FS_Product
<1>2. f \in [D -> Nat]
  BY DEF TypeOK
<1>3. IsFiniteSet(K)
  <2>1. K \in SUBSET Time
    BY DEF Starts
  <2>2. QED BY <1>1, <2>1, FS_Subset
<1>4. P \in [K -> SUBSET D]
  OBVIOUS
<1>5. \A j, k \in K : j # k => P[j] \cap P[k] = {}
  OBVIOUS
<1>6. UNION {P[k] : k \in K} = Tunnel \X range
  <2>1. ASSUME NEW t \in Tunnel, NEW s \in range
        PROVE  \E k \in K : <<t, s>> \in P[k]
    <3> DEFINE k == Truncated(s, step)
    <3>1. k \in K
      BY BucketsPartition
    <3>2. s \in bucket(k)
      OBVIOUS
    <3>3. <<t, s>> \in P[k]
      BY <3>1, <3>2
    <3>4. QED BY <3>1, <3>3
  <2>2. \A k \in K : P[k] \subseteq Tunnel \X range
    OBVIOUS
  <2> HIDE DEF P, K
  <2>3. QED BY <2>1, <2>2
<1>7. \A S \in SUBSET D : IsFiniteSet(S)
  BY <1>1, FS_Subset
<1>8. \A k \in K : Recorded(bucket(k)) = SumFunctionOnSet(f, P[k])
  BY DEF Recorded
<1>9. Recorded(range) = SumFunctionOnSet(f, Tunnel \X range)
  BY DEF Recorded
<1>10. q = [k \in K |-> Recorded(bucket(k))]
  BY DEF Query
<1> HIDE DEF D, f, K, range, P, q, bucket
<1>11. \A k \in K : SumFunctionOnSet(f, P[k]) \in Nat
  <2>1. ASSUME NEW k \in K PROVE SumFunctionOnSet(f, P[k]) \in Nat
    <3>1. P[k] \in SUBSET D
      BY <1>4
    <3>2. QED BY <1>2, <1>7, <3>1, SumTakes
  <2>2. QED BY <2>1
<1>12. q \in [K -> Nat] /\ \A k \in K : q[k] = SumFunctionOnSet(f, P[k])
  BY <1>8, <1>10, <1>11
<1>13. SumFunctionOnSet(q, K) = SumFunctionOnSet(f, UNION {P[k] : k \in K})
  BY <1>1, <1>2, <1>3, <1>4, <1>5, <1>12, SumOfParts
<1>14. SumFunction(q) = SumFunctionOnSet(q, K)
  BY <1>12 DEF SumFunction
<1>15. QED BY <1>6, <1>9, <1>13, <1>14 DEF q, range

\* Whatever the history holds, whenever it is asked for and into buckets of
\* whatever size: the buckets of the answer hold every record of the range, and
\* each once (store.go:60-112, handler_traffic.go:34-37).
THEOREM AnswerIsExact == Spec => []QueryIsExact
<1>1. ASSUME TypeOK PROVE QueryIsExact
  <2>1. now \in Nat /\ MaxTime \in Nat
    BY <1>1, TrafficConstants DEF TypeOK, Time
  <2>2. ASSUME NEW from \in 0 .. now, NEW step \in 1 .. MaxTime + 1
        PROVE  SumFunction(Query(from, now, step))
                 = Recorded({s \in Time : from <= s /\ s < now})
    <3>1. from \in Nat /\ step \in Nat \ {0}
      BY <2>1
    <3>2. QED BY <1>1, <2>1, <3>1, QueryAddsUp
  <2>3. QED BY <2>2 DEF QueryIsExact
<1>2. TypeOK => QueryIsExact
  BY <1>1
<1>3. QED BY <1>2, TypeCorrect, PTL
=============================================================================
