---------------------------- MODULE TrafficAccounting ----------------------------
(***************************************************************************)
(* What becomes of the bytes a tunnel moves: the counters of its forwarders *)
(* (forward/local.go), the total its supervisor carries over from one       *)
(* connection to the next (engine/supervisor.go), the two meters that turn  *)
(* totals into differences, one for the chart, one for the history          *)
(* (engine/traffic.go), and the history, stored by the second and queried   *)
(* in buckets (traffic/store.go).                                           *)
(*                                                                         *)
(* One direction is modelled: the other is the same code once more.  The    *)
(* second loop a Start may launch beside a dying one is the subject of      *)
(* TunnelSupervisor; here such a Start only blurs the accounts.             *)
(***************************************************************************)
EXTENDS Naturals, Sequences, FiniteSets, Functions

CONSTANTS
  Tunnel,
  Cap,       \* realtimeSamplesCap
  Retention, \* the age at which a start of the program drops records
  MaxMoved,  \* bound on the bytes a tunnel moves
  MaxTime    \* bound on the clock

ASSUME TrafficConstants ==
  /\ IsFiniteSet(Tunnel)
  /\ Cap \in Nat \ {0} /\ MaxTime \in Nat \ {0}
  /\ Retention \in Nat /\ MaxMoved \in Nat

VARIABLES
  removed,  \* the tunnels that were deleted from the configuration
  mode,     \* how far each tunnel is (see Mode)
  fwd,      \* the bytes its forwarders count
  cum,      \* cumBytesIn: the bytes of its earlier connections
  base,     \* prev and lastFlushed: what each meter read last
  samples,  \* the differences of the last seconds
  db,       \* the history: bytes by tunnel and second, 0 if there is no record
  now, flushed, \* the clock; the second of the last flush
  moved,    \* history: the bytes each tunnel has moved
  late,     \* history: those it moved after its forwarders were taken stock of
  counted,  \* history: the sum of the differences each meter took
  renewed,  \* history: the total of the tunnel, once it had moved bytes, started over
  blurred   \* history: the meter read the tunnel when its total was wrong

vars == <<removed, mode, fwd, cum, base, samples, db, now, flushed,
          moved, late, counted, renewed, blurred>>

Meter == {"sample", "flush"}

\* no supervisor, no forwarders, forwarders, connection lost, total taken over
\* and forwarders still draining.
Mode == {"none", "down", "up", "broken", "closing"}

Time == 0 .. MaxTime

TypeOK ==
  /\ removed \subseteq Tunnel
  /\ mode \in [Tunnel -> Mode]
  /\ fwd \in [Tunnel -> Nat] /\ cum \in [Tunnel -> Nat]
  /\ base \in [Meter -> [Tunnel -> Nat]]
  /\ samples \in Seq([Tunnel -> Nat]) /\ Len(samples) <= Cap
  /\ db \in [Tunnel -> [Time -> Nat]]
  /\ now \in Time /\ flushed \in Time
  /\ moved \in [Tunnel -> Nat] /\ late \in [Tunnel -> Nat]
  /\ counted \in [Meter -> [Tunnel -> Nat]]
  /\ renewed \in [Tunnel -> BOOLEAN]
  /\ blurred \in [Meter -> [Tunnel -> BOOLEAN]]

Zero == [t \in Tunnel |-> 0]

Init ==
  /\ removed = {} /\ mode = [t \in Tunnel |-> "none"]
  /\ fwd = Zero /\ cum = Zero /\ moved = Zero /\ late = Zero
  /\ base = [m \in Meter |-> Zero] /\ counted = [m \in Meter |-> Zero]
  /\ samples = <<>> /\ db = [t \in Tunnel |-> [s \in Time |-> 0]]
  /\ now = 1 /\ flushed = 0
  /\ renewed = [t \in Tunnel |-> FALSE]
  /\ blurred = [m \in Meter |-> [t \in Tunnel |-> FALSE]]

-----------------------------------------------------------------------------
(* Ways this code could be wrong: each replaces the definition it names to    *)
(* show that a property of this module notices.                               *)

KeepsOneMore(s) == IF Len(s) > Cap + 1 THEN Tail(s) ELSE s     \* Trimmed
WholeTotal(total, last) == total                               \* Difference
LosesConnection(t) == cum[t]                                   \* TakenOver
FromTheStart(from, to, step) ==                                \* Starts
  {k \in Time : from <= k /\ k < to /\ (k - from) % step = 0}

-----------------------------------------------------------------------------
(* The tunnels. *)

accounts == <<base, samples, db, now, flushed, counted>>

\* Starts a tunnel that is configured and not running.  One that is still closing
\* loses its total but not its forwarders.
Start(t) ==
  /\ t \notin removed /\ mode[t] \in {"none", "down", "broken", "closing"}
  /\ cum' = [cum EXCEPT ![t] = 0]
  /\ mode' = [mode EXCEPT ![t] = IF @ = "none" THEN "down" ELSE @]
  /\ renewed' = [renewed EXCEPT ![t] = @ \/ moved[t] > 0]
  /\ blurred' = [m \in Meter |->
       [blurred[m] EXCEPT ![t] = @ \/ mode[t] \in {"broken", "closing"}]]
  /\ UNCHANGED <<removed, accounts, fwd, moved, late>>

ForwardsUp(t) ==
  /\ mode[t] = "down" /\ mode' = [mode EXCEPT ![t] = "up"]
  /\ fwd' = [fwd EXCEPT ![t] = 0]
  /\ UNCHANGED <<removed, accounts, cum, moved, late, renewed, blurred>>

\* countingWriter; connections go on while the forwarders drain them.
Move(t) ==
  /\ mode[t] \in {"up", "broken", "closing"} /\ moved[t] < MaxMoved
  /\ fwd' = [fwd EXCEPT ![t] = @ + 1] /\ moved' = [moved EXCEPT ![t] = @ + 1]
  /\ late' = [late EXCEPT ![t] = IF mode[t] = "closing" THEN @ + 1 ELSE @]
  /\ UNCHANGED <<removed, accounts, mode, cum, renewed, blurred>>

ConnectionLost(t) ==
  /\ mode[t] = "up" /\ mode' = [mode EXCEPT ![t] = "broken"]
  /\ UNCHANGED <<removed, accounts, fwd, cum, moved, late, renewed, blurred>>

\* The snapshot before cleanup.
TakenOver(t) == cum[t] + fwd[t]

CloseBegin(t) ==
  /\ mode[t] = "broken" /\ mode' = [mode EXCEPT ![t] = "closing"]
  /\ cum' = [cum EXCEPT ![t] = TakenOver(t)]
  /\ UNCHANGED <<removed, accounts, fwd, moved, late, renewed, blurred>>

CloseEnd(t) ==
  /\ mode[t] = "closing" /\ mode' = [mode EXCEPT ![t] = "down"]
  /\ fwd' = [fwd EXCEPT ![t] = 0]
  /\ UNCHANGED <<removed, accounts, cum, moved, late, renewed, blurred>>

\* StopTunnel holds e.mu until the loop has ended, which keeps the meters out.
Stop(t) ==
  /\ mode[t] # "none" /\ mode' = [mode EXCEPT ![t] = "none"]
  /\ fwd' = [fwd EXCEPT ![t] = 0] /\ cum' = [cum EXCEPT ![t] = 0]
  /\ renewed' = [renewed EXCEPT ![t] = @ \/ moved[t] > 0]
  /\ UNCHANGED <<removed, accounts, moved, late, blurred>>

\* deleteTunnel takes the tunnel off the configuration and tells the engine
\* nothing: one that runs goes on, and can only be stopped.
Remove(t) ==
  /\ removed' = removed \cup {t}
  /\ UNCHANGED <<accounts, mode, fwd, cum, moved, late, renewed, blurred>>

-----------------------------------------------------------------------------
(* The meters. *)

\* ListStatus goes through the configuration.
Listed == Tunnel \ removed

\* Status: the total so far and what the forwarders count, which between
\* CloseBegin and CloseEnd has become part of the total already.
Reading(t) == cum[t] + (IF mode[t] \in {"up", "broken", "closing"} THEN fwd[t] ELSE 0)

\* A total that went down is taken for one that started over.
Difference(total, last) == IF total < last THEN total ELSE total - last

Delta(m) ==
  [t \in Tunnel |-> IF t \in Listed THEN Difference(Reading(t), base[m][t]) ELSE 0]

Count(m) ==
  /\ counted' = [counted EXCEPT ![m] = [t \in Tunnel |-> @[t] + Delta(m)[t]]]
  /\ blurred' = [blurred EXCEPT ![m] = [t \in Tunnel |-> @[t] \/ mode[t] = "closing"]]

Trimmed(s) == IF Len(s) > Cap THEN Tail(s) ELSE s

\* What the next second is compared with: a tunnel that is no longer listed is
\* forgotten.
Sample ==
  /\ Count("sample")
  /\ base' = [base EXCEPT !["sample"] =
                [t \in Tunnel |-> IF t \in Listed THEN Reading(t) ELSE 0]]
  /\ samples' = Trimmed(Append(samples, Delta("sample")))
  /\ UNCHANGED <<removed, mode, fwd, cum, db, now, flushed, moved, late, renewed>>

\* A record that cannot be written is lost: the next flush starts from here.
Flush ==
  /\ flushed < now /\ flushed' = now
  /\ Count("flush")
  /\ base' = [base EXCEPT !["flush"] =
                [t \in Tunnel |-> IF t \in Listed THEN Reading(t) ELSE @[t]]]
  /\ \E recorded \in SUBSET Tunnel :
       db' = [t \in Tunnel |->
                IF t \in recorded /\ Delta("flush")[t] > 0
                  THEN [db[t] EXCEPT ![now] = Delta("flush")[t]] ELSE db[t]]
  /\ UNCHANGED <<removed, mode, fwd, cum, samples, now, moved, late, renewed>>

Tick ==
  /\ now < MaxTime /\ now' = now + 1
  /\ UNCHANGED <<removed, mode, fwd, cum, base, samples, db, flushed,
                 moved, late, counted, renewed, blurred>>

\* The program ends and is started again.  The last flush comes after the tunnels
\* were stopped and finds nothing.  Prune runs at the start.  A tunnel that was
\* removed comes back if that could not be saved.
Restart ==
  /\ removed' \in SUBSET removed
  /\ mode' = [t \in Tunnel |-> "none"]
  /\ fwd' = Zero /\ cum' = Zero /\ base' = [m \in Meter |-> Zero] /\ samples' = <<>>
  /\ db' = [t \in Tunnel |->
              [s \in Time |-> IF s + Retention < now THEN 0 ELSE db[t][s]]]
  /\ renewed' = [t \in Tunnel |-> renewed[t] \/ moved[t] > 0]
  /\ UNCHANGED <<now, flushed, moved, late, counted, blurred>>

Next ==
  \/ \E t \in Tunnel :
       \/ Start(t) \/ ForwardsUp(t) \/ Move(t) \/ ConnectionLost(t)
       \/ CloseBegin(t) \/ CloseEnd(t) \/ Stop(t) \/ Remove(t)
  \/ Sample \/ Flush \/ Tick \/ Restart

Spec == Init /\ [][Next]_vars

-----------------------------------------------------------------------------
(* The history, as it is asked for. *)

Truncated(s, step) == s - (s % step)

\* The buckets of an answer, by the second they start.
Starts(from, to, step) ==
  {k \in Time : Truncated(from, step) <= k /\ k < to /\ k % step = 0}

\* The records of these seconds, of whatever tunnel, added up.
Recorded(seconds) ==
  SumFunctionOnSet([r \in Tunnel \X Time |-> db[r[1]][r[2]]], Tunnel \X seconds)

Query(from, to, step) ==
  [k \in Starts(from, to, step) |->
     Recorded({s \in Time : from <= s /\ s < to /\ Truncated(s, step) = k})]

-----------------------------------------------------------------------------
(* Properties. *)

\* A meter never counts more bytes than the tunnel moved, across lost
\* connections, stops, starts and restarts of the program, as long as it did not
\* read the tunnel while the same bytes were in both counters
\* (supervisor.go:247-261 against 433-440, traffic.go:93-103).
NoByteIsCountedTwice ==
  \A m \in Meter, t \in Tunnel : ~blurred[m][t] => counted[m][t] <= moved[t]

\* The bytes the supervisor answers for: Reading without the double count.
Total(t) == cum[t] + (IF mode[t] \in {"up", "broken"} THEN fwd[t] ELSE 0)

\* As long as a tunnel is configured and its total did not start over, every byte
\* has been counted once, will be counted by the next reading, or was moved while
\* the forwarders drained: losing the connection loses nothing else.  What a stop
\* or a delete finds uncounted is lost: nothing flushes when a tunnel stops, and a
\* deleted tunnel goes on unseen (traffic.go:130-147, engine.go:93-102, 137-149).
NothingIsLost ==
  \A m \in Meter, t \in Listed :
    ~blurred[m][t] /\ ~renewed[t] =>
      /\ base[m][t] <= Total(t)
      /\ counted[m][t] + (Total(t) - base[m][t]) + late[t] = moved[t]

\* The buckets of an answer, which always ends with the present, hold every record
\* of the range once, however the range and the buckets are aligned
\* (store.go:60-112, handler_traffic.go:34-37).
QueryIsExact ==
  \A from \in 0 .. now, step \in 1 .. MaxTime + 1 :
    SumFunction(Query(from, now, step)) = Recorded({s \in Time : from <= s /\ s < now})
=============================================================================
