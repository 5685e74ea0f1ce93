----------------------------- MODULE TunnelEngineMC -----------------------------
(* The calls TLC explores TunnelEngine with.                                   *)
EXTENDS TunnelEngine

Ask(c, op, t) == [by |-> c, op |-> op, tunnel |-> t]
Any(c) == {Ask(c, op, 1) : op \in Op}

\* Two tunnels come up, or one is told to stop; then a call that queues behind
\* it, or stops them all.
APatient == CHOOSE c \in Callers : c \in Patient
AHasty == CHOOSE c \in Callers : c \notin Patient
CallsScript ==
  << {Ask(APatient, "start", 1)},
     {Ask(APatient, "start", 2), Ask(AHasty, "stop", 1), Ask(AHasty, "restart", 1)},
     {Ask(APatient, "start", 1), Ask(APatient, "stop", 1), Ask(APatient, "shutdown", 1)} >>

\* What the tray shows decides nothing: no action and no property of calls reads it.
NotShown == <<config, engine, sup, loop, cancelled, backlog, tray>>

\* Nor does what the tray shows matter once an event was dropped, and its list
\* is made anew for each event.
NotOutdated ==
  << config, engine, sup, loop, cancelled, dropped,
     IF dropped THEN << >>
     ELSE << backlog, tray, view,
             IF backlog > 0 \/ tray = 1 THEN << >> ELSE overview >> >>

\* A tunnel that comes up, then any two calls about it, of either kind of caller.
EngineScript == <<{Ask(APatient, "start", 1)}, Any(AHasty), Any(APatient)>>

OrphanScript == [n \in 1 .. 4 |-> Any(APatient)]
=============================================================================
