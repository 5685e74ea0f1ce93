------------------------------ MODULE TunnelEngine ------------------------------
(***************************************************************************)
(* The engine: internal/engine/engine.go, with the callers that use it     *)
(* (the API handlers, the tray, the autostart), the configuration that the *)
(* API changes underneath it, and the tray that follows its events.        *)
(*                                                                         *)
(* e.mu is held for the whole of StartTunnel, StopTunnel, RestartTunnel    *)
(* and Shutdown, also while they wait for a loop to end.  The map e.sups   *)
(* holds at most one supervisor of a tunnel; one that was dropped from it  *)
(* may still have loops running.                                           *)
(*                                                                         *)
(* The supervisor is the one of TunnelSupervisor, in steps as coarse as    *)
(* the engine can tell apart: a loop dials, connects, is up (it holds the  *)
(* listeners of its tunnel), cleans up, has failed, backs off or is gone.  *)
(* Its policy and the cause of a failure are free.                         *)
(*                                                                         *)
(* Tunnels are numbered in the order they were created.  The tray makes    *)
(* its items once, one for each tunnel of the program's start; the API     *)
(* creates, changes and deletes tunnels after that and tells neither the   *)
(* engine nor the tray.                                                    *)
(*                                                                         *)
(* Abstracted: what is in a configuration (its version only; an edit may   *)
(* or may not move the listeners), traffic, logs.  The engine and the tray *)
(* read the configuration without its lock; one read is one step here.     *)
(***************************************************************************)
EXTENDS Naturals, Sequences

CONSTANTS
  Items,         \* tunnels configured when the program starts
  Callers,       \* goroutines that call the engine
  Patient,       \* the callers whose context never ends (tray, autostart)
  Script,        \* bound: for each call in turn, who asks for what
  MaxEdits,      \* bound: tunnels created, changed or deleted
  TrayBuffer,    \* events the channel of the tray holds
  None           \* no caller, no tunnel, no supervisor

Tunnels == 1 .. Items + MaxEdits

Op == {"start", "stop", "restart", "shutdown"}

\* Who asks what of the engine.  A shutdown stops all tunnels, whichever it names.
Command == [by : Callers, op : Op, tunnel : Tunnels]

MaxCalls == Len(Script)

ASSUME EngineAssumption ==
  /\ Patient \subseteq Callers
  /\ Items \in Nat /\ MaxEdits \in Nat
  /\ Script \in Seq(SUBSET Command)
  /\ TrayBuffer \in Nat \ {0}
  /\ None \notin Callers \cup Tunnels \cup 1 .. MaxCalls /\ None \notin Op

State == {"stopped", "starting", "running", "degraded", "error", "stopping"}

VARIABLES
  listed,     \* cfg.Tunnels: the tunnels of the configuration, in its order
  conf,       \* per tunnel, its version in the configuration; 0: not there
  created,    \* number of tunnels so far, the ones of the start included
  edits,      \* number of changes so far
  sups,       \* e.sups: per tunnel, its supervisor or None
  sup,        \* the supervisors made so far
  loop,       \* the loops started so far: home, phase, the context they read
  cancelled,  \* contexts cancelled; each is named by the loop it was made for
  lock,       \* the caller that holds e.mu
  call,       \* what each caller is doing
  requests,   \* calls so far
  backlog,    \* events in the channel of the tray
  dropped,    \* an event found that channel full
  tray,       \* 0: waits for an event; 1: lists; i + 1: asks about item i
  overview,   \* per tunnel, the state in the icon and the tooltip
  view        \* per item of the menu, the name and the state it shows

config == <<listed, conf, created, edits>>
engine == <<sups, lock, call, requests>>
channel == <<backlog, dropped>>
display == <<tray, overview, view>>
vars == <<config, engine, sup, loop, cancelled, channel, display>>

Sups == 1 .. Len(sup)
Loops == 1 .. Len(loop)

SupType == [tunnel : Tunnels, version : 1 .. MaxEdits + 1, state : State,
            gen : 0 .. MaxCalls]
LoopType ==
  [home : 1 .. MaxCalls, ctx : 1 .. MaxCalls,
   phase : {"dial", "connect", "up", "cleanup", "failed", "wait", "gone"}]
CallType ==
  [op : Op \cup {None}, tunnel : Tunnels \cup {None},
   phase : {"idle", "queued", "holding"},
   todo : SUBSET (1 .. MaxCalls), waits : SUBSET (1 .. MaxCalls)]

\* A caller that is not calling.
NoCall == [op |-> None, tunnel |-> None, phase |-> "idle",
           todo |-> {}, waits |-> {}]

TypeOK ==
  /\ listed \in Seq(Tunnels)
  /\ conf \in [Tunnels -> 0 .. MaxEdits + 1]
  /\ created \in Items .. Items + MaxEdits
  /\ edits \in 0 .. MaxEdits
  /\ sup \in Seq(SupType)
  /\ sups \in [Tunnels -> Sups \cup {None}]
  /\ loop \in Seq(LoopType)
  /\ cancelled \subseteq Loops
  /\ lock \in Callers \cup {None}
  /\ call \in [Callers -> CallType]
  /\ requests \in 0 .. MaxCalls
  /\ backlog \in 0 .. TrayBuffer
  /\ dropped \in BOOLEAN
  /\ tray \in 0 .. Items + 2
  /\ overview \in [Tunnels -> State]
  /\ view \in [1 .. Items -> [name : Tunnels, state : State]]

Init ==
  /\ listed = [i \in 1 .. Items |-> i] /\ created = Items
  /\ conf = [t \in Tunnels |-> IF t <= Items THEN 1 ELSE 0] /\ edits = 0
  /\ sups = [t \in Tunnels |-> None]
  /\ sup = << >> /\ loop = << >> /\ cancelled = {}
  /\ lock = None /\ requests = 0
  /\ call = [c \in Callers |-> NoCall]
  /\ backlog = 0 /\ dropped = FALSE
  /\ tray = 0 /\ overview = [t \in Tunnels |-> "stopped"]
  /\ view = [i \in 1 .. Items |-> [name |-> i, state |-> "stopped"]]

-----------------------------------------------------------------------------
(* Ways this code could be wrong: each replaces the definition it names to    *)
(* show that a property of this module notices.                               *)

StopsNothing(c) == {}                                          \* ToStop
KeepsEntry(c) == sups                                          \* Dropped
SendsAndWaits == backlog < TrayBuffer /\ backlog' = backlog + 1
                 /\ UNCHANGED dropped                          \* Publish
ReadsUnlocked == TRUE                                          \* ReadLock
OverfillsBuffer == backlog' = backlog + 1 /\ UNCHANGED dropped \* Publish

-----------------------------------------------------------------------------
(* Events, and the state of a supervisor. *)

\* Publish never waits: an event that finds the channel full is dropped.
Publish ==
  \/ backlog < TrayBuffer /\ backlog' = backlog + 1 /\ UNCHANGED dropped
  \/ backlog = TrayBuffer /\ dropped' = TRUE /\ UNCHANGED backlog

\* setState publishes before s.mu is released.
SetState(s, to) == sup' = [sup EXCEPT ![s].state = to] /\ Publish

\* s.loopCtx, and whether it is done.
LoopCtx(s) == sup[s].gen
LoopCtxDone(s) == LoopCtx(s) \in cancelled

\* <-s.loopDone
LoopEnded(s) == loop[LoopCtx(s)].phase = "gone"

\* What GetStatus answers, of a tunnel in the configuration or not: the tray
\* shows the empty status of an unknown one like "stopped".
Status(t) == IF sups[t] = None THEN "stopped" ELSE sup[sups[t]].state

\* e.mu can be locked for a call, and read-locked for a status.
Unlocked == lock = None
ReadLock == lock = None

-----------------------------------------------------------------------------
(* The calls. *)

InState(c, phase) == call[c].phase = phase
Request(c) ==
  /\ InState(c, "idle") /\ requests < MaxCalls
  /\ \E r \in Script[requests + 1] :
       /\ r.by = c
       /\ call' = [call EXCEPT ![c] = [op |-> r.op, tunnel |-> r.tunnel,
                                       phase |-> "queued", todo |-> {}, waits |-> {}]]
  /\ requests' = requests + 1
  /\ UNCHANGED <<config, sups, lock, sup, loop, cancelled, channel, display>>

\* The supervisors a call stops: its tunnel's, or all of them.
ToStop(c) ==
  LET named == CASE call[c].op = "start" -> {}
                 [] call[c].op = "shutdown" -> Tunnels
                 [] OTHER -> {call[c].tunnel}
  IN {sups[t] : t \in named} \ {None}

Acquire(c) ==
  /\ InState(c, "queued") /\ Unlocked
  /\ lock' = c
  /\ call' = [call EXCEPT ![c].phase = "holding", ![c].todo = ToStop(c)]
  /\ UNCHANGED <<config, sups, requests, sup, loop, cancelled, channel, display>>

\* Stop of one supervisor, up to its select.  Shutdown runs them in parallel.
StopBegin(c, s) ==
  /\ s \in call[c].todo
  /\ IF sup[s].state \in {"stopped", "stopping"}
     THEN /\ call' = [call EXCEPT ![c].todo = @ \ {s}]
          /\ UNCHANGED <<sup, cancelled, channel>>
     ELSE /\ call' = [call EXCEPT ![c].todo = @ \ {s}, ![c].waits = @ \cup {s}]
          /\ SetState(s, "stopping")
          /\ cancelled' = cancelled \cup {LoopCtx(s)}
  /\ UNCHANGED <<config, sups, lock, requests, loop, display>>

StopDone(c, s) ==
  /\ s \in call[c].waits /\ LoopEnded(s)
  /\ call' = [call EXCEPT ![c].waits = @ \ {s}]
  /\ IF sup[s].state = "stopped" THEN UNCHANGED <<sup, channel>>
                                 ELSE SetState(s, "stopped")
  /\ UNCHANGED <<config, sups, lock, requests, loop, cancelled, display>>

\* The context of the call ends first.  Shutdown's always may.
StopTimedOut(c, s) ==
  /\ s \in call[c].waits
  /\ c \notin Patient \/ call[c].op = "shutdown"
  /\ call' = [call EXCEPT ![c].waits = @ \ {s}]
  /\ UNCHANGED <<config, sups, lock, requests, sup, loop, cancelled, channel,
                 display>>

\* The map once the supervisors that were told to stop have been dropped.
Dropped(c) ==
  CASE call[c].op = "start" -> sups
    [] call[c].op = "shutdown" -> [t \in Tunnels |-> None]
    [] OTHER -> [sups EXCEPT ![call[c].tunnel] = None]

\* A call that holds the lock and has no supervisor left to stop.
Ready(c) == InState(c, "holding") /\ call[c].todo = {} /\ call[c].waits = {}

Return(c) ==
  /\ Ready(c)
  /\ lock' = None
  /\ call' = [call EXCEPT ![c] = NoCall]

FinishStop(c) ==
  /\ call[c].op \in {"stop", "shutdown"}
  /\ Return(c)
  /\ sups' = Dropped(c)
  /\ UNCHANGED <<config, requests, sup, loop, cancelled, channel, display>>

\* StartTunnel and RestartTunnel answer with an error: the tunnel is not in
\* the configuration, an SSH connection of its chain is not, or (StartTunnel
\* only) its supervisor is running or starting.
Refuse(c) ==
  LET t == call[c].tunnel
      s == Dropped(c)[t]
  IN /\ call[c].op \in {"start", "restart"}
     /\ Return(c)
     /\ sups' = Dropped(c)
     /\ \/ conf[t] = 0
        \/ s = None
        \/ s # None /\ sup[s].state \in {"running", "starting"}
     /\ UNCHANGED <<config, requests, sup, loop, cancelled, channel, display>>

\* Start of a supervisor: a new context, a new loop.
NewLoop(s) ==
  LET g == Len(loop) + 1
  IN loop' = Append(loop, [home |-> s, ctx |-> g, phase |-> "dial"])

\* The tunnel has no supervisor: one is made from the configuration.
StartNew(c) ==
  LET t == call[c].tunnel
      s == Len(sup) + 1
  IN /\ call[c].op \in {"start", "restart"}
     /\ Return(c)
     /\ conf[t] # 0
     /\ Dropped(c)[t] = None
     /\ sups' = [Dropped(c) EXCEPT ![t] = s]
     /\ sup' = Append(sup, [tunnel |-> t, version |-> conf[t],
                            state |-> "starting", gen |-> Len(loop) + 1])
     /\ NewLoop(s)
     /\ Publish
     /\ UNCHANGED <<config, requests, cancelled, display>>

\* It has one, which starts again with the configuration it was made from.
StartOld(c) ==
  LET s == Dropped(c)[call[c].tunnel]
  IN /\ call[c].op \in {"start", "restart"}
     /\ Return(c)
     /\ conf[call[c].tunnel] # 0
     /\ s # None
     /\ sup[s].state \notin {"running", "starting"}
     /\ sups' = Dropped(c)
     /\ sup' = [sup EXCEPT ![s].state = "starting", ![s].gen = Len(loop) + 1]
     /\ NewLoop(s)
     /\ Publish
     /\ UNCHANGED <<config, requests, cancelled, display>>

-----------------------------------------------------------------------------
(* The loops of the supervisors. *)

Home(g) == loop[g].home
SamePort(g, h) ==
  /\ sup[Home(g)].tunnel = sup[Home(h)].tunnel
  /\ sup[Home(g)].version = sup[Home(h)].version

Moves(g, from, to) ==
  /\ loop[g].phase = from
  /\ loop' = [loop EXCEPT ![g].phase = to]

\* The loop reads s.loopCtx, then waits on it.
WaitsOn(g, from, to) ==
  /\ loop[g].phase = from
  /\ loop' = [loop EXCEPT ![g].phase = to, ![g].ctx = LoopCtx(Home(g))]

Quietly == UNCHANGED <<sup, channel>>
others == <<config, engine, cancelled, display>>

\* The dial of the first hop obeys the context; what comes after it does not.
Dialled(g) ==
  /\ ~LoopCtxDone(Home(g))
  /\ Moves(g, "dial", "connect")
  /\ Quietly /\ UNCHANGED others

\* The chain is up and the listeners are open.
Up(g) ==
  /\ WaitsOn(g, "connect", "up")
  /\ \A h \in Loops : loop[h].phase \in {"up", "cleanup"} => ~SamePort(g, h)
  /\ SetState(Home(g), "running")
  /\ UNCHANGED others

\* The chain fails.  After a Stop that is no error.
ChainFailed(g) ==
  /\ \E from \in {"dial", "connect"} :
       IF LoopCtxDone(Home(g))
       THEN Moves(g, from, "gone") /\ SetState(Home(g), "stopped")
       ELSE Moves(g, from, "failed") /\ SetState(Home(g), "error")
  /\ UNCHANGED others

\* A listener fails: its address is taken, or the server refuses it.
ForwardFailed(g) ==
  /\ Moves(g, "connect", "failed")
  /\ SetState(Home(g), "error")
  /\ UNCHANGED others

\* The policy, the rate limit or the cause of the failure ends the loop.
GiveUp(g) == Moves(g, "failed", "gone") /\ Quietly /\ UNCHANGED others

BackOff(g) == WaitsOn(g, "failed", "wait") /\ Quietly /\ UNCHANGED others

Lost(g) ==
  /\ Moves(g, "up", "cleanup")
  /\ SetState(Home(g), "degraded")
  /\ UNCHANGED others

StopSeen(g) ==
  /\ loop[g].ctx \in cancelled
  /\ Moves(g, "up", "cleanup")
  /\ Quietly /\ UNCHANGED others

\* The listeners and the chain are closed, then the loop decides.
CleanedUp(g) ==
  /\ \/ /\ LoopCtxDone(Home(g))
        /\ Moves(g, "cleanup", "gone") /\ SetState(Home(g), "stopped")
     \/ /\ ~LoopCtxDone(Home(g))
        /\ \/ Moves(g, "cleanup", "gone") /\ SetState(Home(g), "error")
           \/ WaitsOn(g, "cleanup", "wait") /\ Quietly
  /\ UNCHANGED others

Retry(g) ==
  /\ Moves(g, "wait", "dial")
  /\ SetState(Home(g), "starting")
  /\ UNCHANGED others

BackoffCancelled(g) ==
  /\ loop[g].ctx \in cancelled
  /\ Moves(g, "wait", "gone")
  /\ SetState(Home(g), "stopped")
  /\ UNCHANGED others

-----------------------------------------------------------------------------
(* The API changes the configuration under a lock of its own; the tray        *)
(* follows the events and asks the engine for the states.                     *)

Create ==
  /\ edits < MaxEdits
  /\ edits' = edits + 1
  /\ created' = created + 1
  /\ listed' = Append(listed, created + 1)
  /\ conf' = [conf EXCEPT ![created + 1] = edits + 2]
  /\ UNCHANGED <<engine, sup, loop, cancelled, channel, display>>

Edit(t) ==
  /\ edits < MaxEdits
  /\ conf[t] # 0
  /\ edits' = edits + 1
  /\ conf' = [conf EXCEPT ![t] = edits + 2]
  /\ UNCHANGED <<listed, created>>
  /\ UNCHANGED <<engine, sup, loop, cancelled, channel, display>>

\* deleteTunnel does not tell the engine: a tunnel that runs goes on.
Delete(i) ==
  /\ edits < MaxEdits
  /\ edits' = edits + 1
  /\ listed' = [k \in 1 .. Len(listed) - 1 |->
                  IF k < i THEN listed[k] ELSE listed[k + 1]]
  /\ conf' = [conf EXCEPT ![listed[i]] = 0]
  /\ UNCHANGED created
  /\ UNCHANGED <<engine, sup, loop, cancelled, channel, display>>

TrayReceive ==
  /\ tray = 0 /\ backlog > 0
  /\ backlog' = backlog - 1
  /\ tray' = 1
  /\ UNCHANGED <<config, engine, sup, loop, cancelled, dropped, overview, view>>

\* ListStatus goes through the configuration.
TrayList ==
  /\ tray = 1 /\ ReadLock
  /\ overview' = [t \in Tunnels |->
                    IF conf[t] # 0 THEN Status(t) ELSE "stopped"]
  /\ tray' = 2
  /\ UNCHANGED <<config, engine, sup, loop, cancelled, channel, view>>

\* The i-th item takes its name from the i-th tunnel of the configuration and
\* its state from the tunnel it was made for.
TrayItem(i) ==
  /\ tray = i + 1 /\ i <= Len(listed) /\ ReadLock
  /\ view' = [view EXCEPT ![i] = [name |-> listed[i], state |-> Status(i)]]
  /\ tray' = i + 2
  /\ UNCHANGED <<config, engine, sup, loop, cancelled, channel, overview>>

\* No item is left, or no tunnel to go with it.
TrayDone ==
  /\ tray >= 2
  /\ tray - 1 > Items \/ tray - 1 > Len(listed)
  /\ tray' = 0
  /\ UNCHANGED <<config, engine, sup, loop, cancelled, channel, overview, view>>

-----------------------------------------------------------------------------
CallStep(c) ==
  \/ Acquire(c)
  \/ \E s \in Sups : StopBegin(c, s) \/ StopDone(c, s) \/ StopTimedOut(c, s)
  \/ FinishStop(c) \/ Refuse(c) \/ StartNew(c) \/ StartOld(c)

LoopStep(g) ==
  \/ Dialled(g) \/ Up(g) \/ ChainFailed(g) \/ ForwardFailed(g)
  \/ GiveUp(g) \/ BackOff(g)
  \/ StopSeen(g) \/ CleanedUp(g) \/ Retry(g) \/ BackoffCancelled(g)

Next ==
  \/ \E c \in Callers : Request(c) \/ CallStep(c)
  \/ \E g \in Loops : LoopStep(g) \/ Lost(g)
  \/ Create \/ (\E t \in Tunnels : Edit(t)) \/ (\E i \in 1 .. Len(listed) : Delete(i))
  \/ TrayReceive \/ TrayList \/ (\E i \in 1 .. Items : TrayItem(i)) \/ TrayDone

Spec == Init /\ [][Next]_vars

\* A waiting caller gets the lock in the end (sync.RWMutex hands it over), a
\* caller that holds it and a loop go on, and the tray reads its channel.  That
\* a loop goes on takes servers that answer, or connections that fail: a later
\* dial, a handshake and a remote listener have no deadline (chain.go:87, 94,
\* remote.go:79, 140).  Nothing says that a caller gives up or that a tunnel
\* that is up is lost.
FairSpec ==
  /\ Spec
  /\ \A c \in Callers :
       /\ SF_vars(Acquire(c))
       /\ WF_vars(\/ \E s \in Sups : StopBegin(c, s) \/ StopDone(c, s)
                  \/ FinishStop(c) \/ Refuse(c) \/ StartNew(c) \/ StartOld(c))
  /\ \A g \in 1 .. MaxCalls : WF_vars(g \in Loops /\ LoopStep(g))
  /\ WF_vars(TrayReceive \/ TrayDone)
  /\ SF_vars(TrayList \/ \E i \in 1 .. Items : TrayItem(i))

-----------------------------------------------------------------------------
(* Properties. *)

\* A supervisor that the engine no longer holds was told to stop if any loop
\* of it is left: nothing runs that no call can reach and none has stopped.
\* (StopTunnel and RestartTunnel drop a supervisor even when Stop timed out,
\* getOrCreateSupervisor makes one only for a tunnel that has none.)
AccountedFor ==
  \A g \in Loops :
    \/ loop[g].phase = "gone"
    \/ sups[sup[Home(g)].tunnel] = Home(g)
    \/ LoopCtxDone(Home(g))

\* Tunnels deleted so far.
Deleted == created - Len(listed)

\* Between two calls, with every event read and none dropped, the icon shows
\* the states of the configured tunnels, and an item of the menu the state of
\* its own.  No event goes with the change of e.sups: it is the lock, held from
\* the event to that change, that keeps the tray right.  No event goes with a
\* delete either, and each one takes an item at the end of the menu out of the
\* refresh and may put the others under the name of a neighbour.
TrayIsCurrent ==
  (Unlocked /\ tray = 0 /\ backlog = 0 /\ ~dropped) =>
    /\ \A t \in Tunnels : conf[t] # 0 => overview[t] = Status(t)
    /\ \A i \in 1 .. Items :
         /\ i + Deleted <= Items => view[i].state = Status(i)
         /\ Deleted = 0 => view[i].name = i

\* A restart puts the configuration of that moment to work: it never starts the
\* supervisor it stopped, which has a copy of the old one.
RestartAppliesConfig ==
  [][\A c \in Callers :
       (call[c].op = "restart" /\ call'[c].op = None /\ Len(loop') > Len(loop)) =>
         LET t == call[c].tunnel IN
         sups'[t] # None /\ sup'[sups'[t]].version = conf[t]]_vars

\* Every call returns, as long as the servers answer (FairSpec), whatever the
\* loops publish while it holds the lock that the tray, which reads their events,
\* waits for.
CallsReturn ==
  \A c \in Callers : InState(c, "queued") ~> InState(c, "idle")

\* A tunnel that was stopped lets go of its listeners: a loop of a supervisor
\* the engine has dropped, when it waits, waits on a context that is cancelled.
StoppedTunnelLetsGo ==
  \A g \in Loops :
    loop[g].phase = "up" /\ sups[sup[Home(g)].tunnel] # Home(g) =>
      loop[g].ctx \in cancelled
=============================================================================
