------------------------------- MODULE LossyFeed -------------------------------
(***************************************************************************)
(* What the event bus promises to its readers, whatever its buffers are:   *)
(* a reader is handed the most recent events when it joins, then events in *)
(* the order of publication; some may be missing, none comes twice.        *)
(***************************************************************************)
EXTENDS Naturals, Sequences

CONSTANTS
  Reader,
  History     \* how many past events a new reader is handed

VARIABLES
  log,        \* number of events published: events are 1 .. log
  feed,       \* per reader, the events it was handed since it joined
  open        \* the readers that have joined

vars == <<log, feed, open>>

Init ==
  /\ log = 0
  /\ feed = [r \in Reader |-> <<>>]
  /\ open = {}

\* An event reaches some of the readers.
Publish ==
  /\ log' = log + 1
  /\ \E reached \in SUBSET open :
       feed' = [r \in Reader |->
                  IF r \in reached THEN Append(feed[r], log') ELSE feed[r]]
  /\ UNCHANGED open

\* The last n events of a log.
Latest(n) == [i \in 1 .. n |-> log - n + i]

Join(r) ==
  /\ r \notin open
  /\ open' = open \cup {r}
  /\ feed' = [feed EXCEPT ![r] = Latest(IF log < History THEN log ELSE History)]
  /\ UNCHANGED log

Leave(r) ==
  /\ r \in open
  /\ open' = open \ {r}
  /\ feed' = [feed EXCEPT ![r] = <<>>]
  /\ UNCHANGED log

Next == Publish \/ \E r \in Reader : Join(r) \/ Leave(r)

Spec == Init /\ [][Next]_vars
=============================================================================
