--------------------------- MODULE TunnelEngine_proofs ---------------------------
(***************************************************************************)
(* What the engine promises for every number of tunnels, callers, calls and  *)
(* changes of the configuration, and for every size of the tray's channel:  *)
(* whatever still runs is reachable or was told to stop, the tray is never   *)
(* wrong in silence, and a restart runs the configuration of its moment.     *)
(***************************************************************************)
EXTENDS TunnelEngine, FiniteSets, FiniteSetTheorems, TLAPS

\* The tunnels whose supervisors a call stops and drops.
Named(c) == CASE call[c].op = "start" -> {}
              [] call[c].op = "shutdown" -> Tunnels
              [] OTHER -> {call[c].tunnel}

\* Nothing is left for the tray to learn.
Quiet == tray # 1 /\ backlog = 0 /\ ~dropped

LEMMA BoundTypes ==
  /\ Items \in Nat /\ MaxCalls \in Nat /\ MaxEdits \in Nat /\ TrayBuffer \in Nat \ {0}
  /\ \A n \in 1 .. MaxCalls : Script[n] \subseteq Command
  /\ None \notin Callers \cup Tunnels \cup 1 .. MaxCalls /\ None \notin Op
<1>1. Script \in Seq(SUBSET Command)
  BY EngineAssumption
<1>2. Len(Script) \in Nat /\ \A n \in 1 .. Len(Script) : Script[n] \in SUBSET Command
  BY <1>1
<1>3. QED BY <1>2, EngineAssumption DEF MaxCalls

-----------------------------------------------------------------------------
(* Sequences of records. *)

LEMMA FieldsSet ==
  ASSUME NEW S, NEW q \in Seq(S), NEW n \in 1 .. Len(q), NEW r, NEW x \in S,
         r = [q EXCEPT ![n] = x]
  PROVE  /\ r \in Seq(S) /\ Len(r) = Len(q) /\ r[n] = x
         /\ \A m \in 1 .. Len(q) : m # n => r[m] = q[m]
OBVIOUS

LEMMA OneMore ==
  ASSUME NEW S, NEW q \in Seq(S), NEW x \in S
  PROVE  /\ Append(q, x) \in Seq(S) /\ Len(Append(q, x)) = Len(q) + 1 /\ Len(q) \in Nat
         /\ \A m \in 1 .. Len(q) : Append(q, x)[m] = q[m]
         /\ Append(q, x)[Len(q) + 1] = x
OBVIOUS

LEMMA Elements ==
  ASSUME NEW S, NEW q \in Seq(S)
  PROVE  Len(q) \in Nat /\ \A n \in 1 .. Len(q) : q[n] \in S
OBVIOUS

-----------------------------------------------------------------------------
(* Types. *)

Busy == {c \in Callers : call[c].phase # "idle"}

\* A call starts at most one loop and is over then.
Counted ==
  /\ IsFiniteSet(Busy) /\ Cardinality(Busy) + Len(loop) <= requests
  /\ Len(sup) <= Len(loop)

\* Where supervisors, loops and contexts belong.
Homes ==
  /\ \A t \in Tunnels : sups[t] # None => sup[sups[t]].tunnel = t
  /\ \A s \in Sups : sup[s].gen \in Loops /\ loop[sup[s].gen].home = s
  /\ \A g \in Loops : /\ loop[g].home \in Sups /\ loop[g].ctx \in Loops
                      /\ loop[loop[g].ctx].home = loop[g].home

\* Who holds the lock, and what a call that does not hold it has not done.
Holder ==
  \A c \in Callers :
    /\ call[c].phase = "holding" <=> lock = c
    /\ call[c].phase # "idle" => call[c].op \in Op /\ call[c].tunnel \in Tunnels
    /\ call[c].phase # "holding" => call[c].todo = {} /\ call[c].waits = {}

LEMMA Limits ==
  ASSUME TypeOK, Counted
  PROVE  /\ Len(sup) \in Nat /\ Len(loop) \in Nat /\ Len(sup) <= MaxCalls
         /\ Len(loop) <= MaxCalls /\ MaxCalls \in Nat
         /\ \A c \in Busy : Len(loop) < MaxCalls
         /\ Sups \subseteq 1 .. MaxCalls /\ Loops \subseteq 1 .. MaxCalls
<1>1. Len(sup) \in Nat /\ Len(loop) \in Nat /\ requests \in 0 .. MaxCalls /\ MaxCalls \in Nat
  BY Elements, BoundTypes DEF TypeOK
<1>2. IsFiniteSet(Busy) /\ Cardinality(Busy) \in Nat
  BY FS_CardinalityType DEF Counted
<1>3. Len(loop) <= MaxCalls /\ Len(sup) <= MaxCalls
  BY <1>1, <1>2 DEF Counted
<1>4. ASSUME NEW c \in Busy
      PROVE  Len(loop) < MaxCalls
  <2>1. Cardinality(Busy) # 0
    BY <1>2, FS_EmptySet
  <2>2. QED BY <1>1, <1>2, <2>1 DEF Counted
<1>5. QED BY <1>1, <1>3, <1>4 DEF Sups, Loops

\* A step that changes no more of a supervisor than its state ...
SupsKept ==
  /\ sup' \in Seq(SupType) /\ Len(sup') = Len(sup)
  /\ \A s \in Sups : sup'[s].tunnel = sup[s].tunnel /\ sup'[s].gen = sup[s].gen

\* ... and no more of a loop than its place and the context it waits on.
LoopsKept ==
  /\ loop' \in Seq(LoopType) /\ Len(loop') = Len(loop)
  /\ \A g \in Loops : /\ loop'[g].home = loop[g].home
                      /\ loop'[g].ctx \in {loop[g].ctx, sup[loop[g].home].gen}

Published ==
  backlog' \in 0 .. TrayBuffer /\ dropped' \in BOOLEAN /\ (backlog' # 0 \/ dropped')

LEMMA PublishTells ==
  ASSUME TypeOK, Publish
  PROVE  Published
<1>1. /\ backlog \in 0 .. TrayBuffer /\ dropped \in BOOLEAN /\ TrayBuffer \in Nat \ {0}
  BY BoundTypes DEF TypeOK
<1>2. CASE backlog < TrayBuffer /\ backlog' = backlog + 1 /\ UNCHANGED dropped
  <2>1. backlog' \in 0 .. TrayBuffer /\ backlog' # 0
    BY <1>1, <1>2
  <2>2. QED BY <1>1, <1>2, <2>1 DEF Published
<1>3. CASE backlog = TrayBuffer /\ dropped' = TRUE /\ UNCHANGED backlog
  <2>1. dropped' /\ dropped' \in BOOLEAN /\ backlog' = backlog
    BY <1>3
  <2>2. QED BY <1>1, <2>1 DEF Published
<1>4. QED BY <1>2, <1>3 DEF Publish

LEMMA StateSet ==
  ASSUME TypeOK, NEW s \in Sups, NEW to \in State, SetState(s, to)
  PROVE  /\ SupsKept /\ Published /\ sup'[s].state = to
         /\ \A r \in Sups : r # s => sup'[r] = sup[r]
<1> DEFINE x == [sup[s] EXCEPT !.state = to]
<1>1. sup \in Seq(SupType) /\ sup[s] \in SupType /\ s \in 1 .. Len(sup)
  BY Elements DEF TypeOK, Sups
<1>2. x \in SupType /\ x.tunnel = sup[s].tunnel /\ x.gen = sup[s].gen /\ x.state = to
  BY <1>1 DEF SupType
<1>3. sup' = [sup EXCEPT ![s] = x]
  BY DEF SetState
<1> HIDE DEF x
<1>4. /\ sup' \in Seq(SupType) /\ Len(sup') = Len(sup) /\ sup'[s] = x
      /\ \A m \in 1 .. Len(sup) : m # s => sup'[m] = sup[m]
  BY <1>1, <1>2, <1>3, FieldsSet
<1>5. Published
  BY PublishTells DEF SetState
<1>6. QED BY <1>2, <1>4, <1>5 DEF SupsKept, Sups

LEMMA SupUnchanged ==
  ASSUME TypeOK, sup' = sup
  PROVE  SupsKept
BY DEF TypeOK, SupsKept

LEMMA LoopUnchanged ==
  ASSUME TypeOK, loop' = loop
  PROVE  LoopsKept
BY DEF TypeOK, LoopsKept

Phase == {"dial", "connect", "up", "cleanup", "failed", "wait", "gone"}

LEMMA LoopMoves ==
  ASSUME TypeOK, Homes, Counted, NEW g \in Loops, NEW from, NEW to \in Phase,
         Moves(g, from, to) \/ WaitsOn(g, from, to)
  PROVE  LoopsKept
<1>1. loop \in Seq(LoopType) /\ loop[g] \in LoopType /\ g \in 1 .. Len(loop)
  BY Elements DEF TypeOK, Loops
<1>2. /\ loop[g].home \in Sups /\ sup[loop[g].home].gen \in Loops
      /\ sup[loop[g].home].gen \in 1 .. MaxCalls
  BY Limits DEF Homes
<1>3. ASSUME NEW x \in LoopType, loop' = [loop EXCEPT ![g] = x],
             x.home = loop[g].home, x.ctx \in {loop[g].ctx, sup[loop[g].home].gen}
      PROVE  LoopsKept
  <2>1. /\ loop' \in Seq(LoopType) /\ Len(loop') = Len(loop) /\ loop'[g] = x
        /\ \A m \in 1 .. Len(loop) : m # g => loop'[m] = loop[m]
    BY <1>1, <1>3, FieldsSet
  <2>2. QED BY <1>3, <2>1 DEF LoopsKept, Loops
<1>4. CASE Moves(g, from, to)
  <2> DEFINE x == [loop[g] EXCEPT !.phase = to]
  <2>1. x \in LoopType /\ x.home = loop[g].home /\ x.ctx = loop[g].ctx
    BY <1>1 DEF LoopType, Phase
  <2>2. loop' = [loop EXCEPT ![g] = x]
    BY <1>4 DEF Moves
  <2> HIDE DEF x
  <2>3. QED BY <1>3, <2>1, <2>2
<1>5. CASE WaitsOn(g, from, to)
  <2> DEFINE x == [loop[g] EXCEPT !.phase = to, !.ctx = sup[loop[g].home].gen]
  <2>1. x \in LoopType /\ x.home = loop[g].home /\ x.ctx = sup[loop[g].home].gen
    BY <1>1, <1>2 DEF LoopType, Phase
  <2>2. loop' = [loop EXCEPT ![g] = x]
    BY <1>5 DEF WaitsOn, LoopCtx, Home
  <2> HIDE DEF x
  <2>3. QED BY <1>3, <2>1, <2>2
<1>6. QED BY <1>4, <1>5

\* What a step of a loop leaves alone, and what it may do.
LoopStepMade(g) ==
  /\ UNCHANGED others /\ SupsKept /\ LoopsKept
  /\ \/ UNCHANGED <<sup, channel>>
     \/ /\ Published
        /\ \A s \in Sups : sup'[s].state \in {"stopped", "stopping"} =>
                             sup[s].state \in {"stopped", "stopping"} \/ LoopCtxDone(s)

LEMMA LoopSteps ==
  ASSUME TypeOK, Homes, Counted, NEW g \in Loops,
         \A c \in cancelled : LoopCtxDone(Home(c)),
         LoopStep(g) \/ Lost(g)
  PROVE  LoopStepMade(g)
<1>1. Home(g) \in Sups
  BY DEF Homes, Home
<1>2. ASSUME LoopsKept, Quietly, UNCHANGED others
      PROVE  LoopStepMade(g)
  BY <1>2, SupUnchanged DEF LoopStepMade, Quietly
<1>3. ASSUME LoopsKept, UNCHANGED others, NEW to \in State, SetState(Home(g), to),
             to \in {"stopped", "stopping"} => LoopCtxDone(Home(g))
      PROVE  LoopStepMade(g)
  <2>1. /\ SupsKept /\ Published /\ sup'[Home(g)].state = to
        /\ \A r \in Sups : r # Home(g) => sup'[r] = sup[r]
    BY <1>1, <1>3, StateSet
  <2>2. \A s \in Sups : sup'[s].state \in {"stopped", "stopping"} =>
                          sup[s].state \in {"stopped", "stopping"} \/ LoopCtxDone(s)
    BY <1>3, <2>1
  <2>3. QED BY <1>3, <2>1, <2>2 DEF LoopStepMade
<1>4. ASSUME NEW from, NEW to \in Phase, Moves(g, from, to) \/ WaitsOn(g, from, to)
      PROVE  LoopsKept
  BY <1>4, LoopMoves
<1> USE DEF Phase, State
<1>5. CASE Dialled(g)
  BY <1>2, <1>4, <1>5 DEF Dialled
<1>6. CASE Up(g)
  BY <1>3, <1>4, <1>6 DEF Up
<1>7. CASE ChainFailed(g)
  BY <1>3, <1>4, <1>7 DEF ChainFailed
<1>8. CASE ForwardFailed(g)
  BY <1>3, <1>4, <1>8 DEF ForwardFailed
<1>9. CASE GiveUp(g)
  BY <1>2, <1>4, <1>9 DEF GiveUp
<1>10. CASE BackOff(g)
  BY <1>2, <1>4, <1>10 DEF BackOff
<1>11. CASE Lost(g)
  BY <1>3, <1>4, <1>11 DEF Lost
<1>12. CASE StopSeen(g)
  BY <1>2, <1>4, <1>12 DEF StopSeen
<1>13. CASE CleanedUp(g)
  <2>1. CASE LoopCtxDone(Home(g)) /\ Moves(g, "cleanup", "gone") /\ SetState(Home(g), "stopped")
    BY <1>3, <1>4, <1>13, <2>1 DEF CleanedUp
  <2>2. CASE Moves(g, "cleanup", "gone") /\ SetState(Home(g), "error")
    BY <1>3, <1>4, <1>13, <2>2 DEF CleanedUp
  <2>3. CASE WaitsOn(g, "cleanup", "wait") /\ Quietly
    BY <1>2, <1>4, <1>13, <2>3 DEF CleanedUp
  <2>4. QED BY <1>13, <2>1, <2>2, <2>3 DEF CleanedUp
<1>14. CASE Retry(g)
  BY <1>3, <1>4, <1>14 DEF Retry
<1>15. CASE BackoffCancelled(g)
  <2>1. LoopCtxDone(Home(g))
    BY <1>15 DEF BackoffCancelled, Homes, Home
  <2>2. QED BY <1>3, <1>4, <1>15, <2>1 DEF BackoffCancelled
<1>16. QED BY <1>5, <1>6, <1>7, <1>8, <1>9, <1>10, <1>11, <1>12, <1>13, <1>14, <1>15
           DEF LoopStep

-----------------------------------------------------------------------------
(* The invariant. *)

\* A supervisor whose context is cancelled is on its way out: in the map only
\* while the call that stops it holds the lock, and then the tray has something
\* left to learn.
CancelInv ==
  /\ \A g \in cancelled : LoopCtxDone(Home(g))
  /\ \A s \in Sups : sup[s].state \in {"stopped", "stopping"} => LoopCtxDone(s)
  /\ \A s \in Sups : sups[sup[s].tunnel] = s \/ LoopCtxDone(s)
  /\ \A t \in Tunnels : sups[t] # None /\ LoopCtxDone(sups[t]) =>
       lock # None /\ t \in Named(lock) /\ ~Quiet

\* What the call that holds the lock has stopped so far.
StopInv ==
  \A c \in Callers :
    /\ \A s \in call[c].todo : s \in Sups /\ sup[s].tunnel \in Named(c)
    /\ \A s \in call[c].waits : s \in Sups /\ LoopCtxDone(s)
    /\ call[c].phase = "holding" =>
         \A t \in Named(c) : sups[t] = None \/ sups[t] \in call[c].todo
                             \/ LoopCtxDone(sups[t])

\* The tunnels of the configuration: those that were not created yet are nowhere,
\* and until the first delete the i-th one is the i-th created.
CfgInv ==
  /\ Len(listed) <= created /\ created <= Items + edits
  /\ \A t \in Tunnels : t > created =>
       conf[t] = 0 /\ sups[t] = None /\ overview[t] = "stopped"
  /\ Deleted = 0 => /\ \A i \in 1 .. Len(listed) : listed[i] = i
                    /\ \A i \in 1 .. Items : view[i].name = i

\* The round of the menu that is under way has come past an item.
Past(i) == tray = 0 \/ tray > i + 1

ViewInv ==
  Quiet => /\ \A t \in Tunnels : conf[t] # 0 => overview[t] = Status(t)
           /\ \A i \in 1 .. Items :
                Past(i) /\ i + Deleted <= Items => view[i].state = Status(i)

Inv == /\ TypeOK /\ Counted /\ Homes /\ Holder
       /\ CancelInv /\ StopInv /\ CfgInv /\ ViewInv

LEMMA InMap ==
  ASSUME TypeOK, NEW t \in Tunnels, sups[t] # None
  PROVE  sups[t] \in Sups
BY DEF TypeOK

LEMMA NoneIsNoSupervisor ==
  ASSUME TypeOK, Counted
  PROVE  None \notin Sups /\ None \notin Callers /\ None \notin Op /\ None \notin Tunnels
BY Limits, BoundTypes

\* What a call does to the configuration: nothing, and it makes a supervisor
\* only for a tunnel that is in it.
LEMMA CfgKept ==
  ASSUME TypeOK, CfgInv, UNCHANGED <<listed, conf, created, edits, tray, overview, view>>,
         \A t \in Tunnels : sups'[t] # None => sups[t] # None \/ conf[t] # 0
  PROVE  CfgInv'
<1>1. Deleted' = Deleted
  BY DEF Deleted
<1>2. QED BY <1>1 DEF CfgInv

\* A step that keeps the shape of supervisors and loops.
LEMMA Frame ==
  ASSUME TypeOK, Homes, SupsKept, LoopsKept, sups' = sups
  PROVE  /\ Sups' = Sups /\ Loops' = Loops /\ Homes'
         /\ sups' \in [Tunnels -> Sups' \cup {None}]
         /\ \A s \in Sups : sup'[s].tunnel = sup[s].tunnel /\ sup'[s].gen = sup[s].gen
         /\ \A g \in Loops : loop'[g].home = loop[g].home
<1>1. Sups' = Sups /\ Loops' = Loops
  BY DEF Sups, Loops, SupsKept, LoopsKept
<1>2. /\ \A s \in Sups : sup'[s].tunnel = sup[s].tunnel /\ sup'[s].gen = sup[s].gen
      /\ \A g \in Loops : /\ loop'[g].home = loop[g].home
                          /\ loop'[g].ctx \in {loop[g].ctx, sup[loop[g].home].gen}
  BY DEF SupsKept, LoopsKept
<1>3. sups' \in [Tunnels -> Sups \cup {None}]
  BY DEF TypeOK
<1>4. \A t \in Tunnels : sups'[t] # None => sup'[sups'[t]].tunnel = t
  BY <1>2, InMap DEF Homes
<1>5. \A s \in Sups : sup'[s].gen \in Loops /\ loop'[sup'[s].gen].home = s
  BY <1>2 DEF Homes
<1>6. \A g \in Loops : /\ loop'[g].home \in Sups /\ loop'[g].ctx \in Loops
                       /\ loop'[loop'[g].ctx].home = loop'[g].home
  BY <1>2 DEF Homes
<1>7. QED BY <1>1, <1>2, <1>3, <1>4, <1>5, <1>6 DEF Homes

LEMMA CountKept ==
  ASSUME Counted, requests' = requests, Len(loop') = Len(loop), Len(sup') = Len(sup),
         \A c \in Callers : call'[c].phase = call[c].phase
  PROVE  Counted'
<1>1. Busy' = Busy
  BY DEF Busy
<1>2. QED BY <1>1 DEF Counted

LEMMA CallSet ==
  ASSUME TypeOK, NEW c \in Callers, NEW x \in CallType, call' = [call EXCEPT ![c] = x]
  PROVE  /\ call' \in [Callers -> CallType] /\ call'[c] = x
         /\ \A d \in Callers : d # c => call'[d] = call[d]
BY DEF TypeOK

LEMMA TellsTheTray ==
  ASSUME Published, UNCHANGED display
  PROVE  ~Quiet'
BY DEF Published, Quiet, display

-----------------------------------------------------------------------------
(* The loops. *)

LEMMA LoopKeepsInv ==
  ASSUME Inv, NEW g \in Loops, LoopStep(g) \/ Lost(g)
  PROVE  Inv'
<1>1. TypeOK /\ Counted /\ Homes /\ Holder /\ CancelInv /\ StopInv /\ CfgInv /\ ViewInv
  BY DEF Inv
<1>2. LoopStepMade(g)
  BY <1>1, LoopSteps DEF CancelInv
<1>3. /\ SupsKept /\ LoopsKept /\ UNCHANGED <<config, engine, cancelled, display>>
      /\ UNCHANGED <<listed, conf, created, edits, sups, lock, call, requests, cancelled, tray, overview, view>>
  BY <1>2 DEF LoopStepMade, others, config, engine, display
<1>4. /\ Sups' = Sups /\ Loops' = Loops /\ Homes'
      /\ sups' \in [Tunnels -> Sups' \cup {None}]
      /\ \A s \in Sups : sup'[s].tunnel = sup[s].tunnel /\ sup'[s].gen = sup[s].gen
      /\ \A h \in Loops : loop'[h].home = loop[h].home
  BY <1>1, <1>3, Frame
<1>5. \A s \in Sups : LoopCtxDone(s)' <=> LoopCtxDone(s)
  BY <1>3, <1>4 DEF LoopCtxDone, LoopCtx
<1>6. \A c : Named(c)' = Named(c)
  BY <1>3 DEF Named
<1>7. backlog' \in 0 .. TrayBuffer /\ dropped' \in BOOLEAN
  BY <1>1, <1>2 DEF LoopStepMade, Published, TypeOK, channel
<1>8. TypeOK'
  BY <1>1, <1>3, <1>4, <1>7 DEF TypeOK, SupsKept, LoopsKept
<1>9. Counted' /\ Holder'
  BY <1>1, <1>3, CountKept DEF SupsKept, LoopsKept, Holder
<1>10. UNCHANGED <<sup, channel>> \/ ~Quiet'
  BY <1>2, <1>3, TellsTheTray DEF LoopStepMade
<1>11. ~Quiet => ~Quiet'
  BY <1>3, <1>10 DEF Quiet, channel
<1>12. CancelInv'
  <2>1. \A h \in cancelled : LoopCtxDone(Home(h))'
    <3>1. \A h \in cancelled : h \in Loops /\ Home(h) \in Sups /\ Home(h)' = Home(h)
      BY <1>1, <1>4 DEF TypeOK, Homes, Home
    <3>2. QED BY <1>1, <1>3, <1>4, <3>1 DEF CancelInv, LoopCtxDone, LoopCtx
  <2>2. \A s \in Sups : sup'[s].state \in {"stopped", "stopping"} => LoopCtxDone(s)'
    BY <1>1, <1>2, <1>5 DEF LoopStepMade, CancelInv
  <2>3. \A s \in Sups : sups'[sup'[s].tunnel] = s \/ LoopCtxDone(s)'
    BY <1>1, <1>3, <1>4, <1>5 DEF CancelInv
  <2>4. \A t \in Tunnels : sups'[t] # None /\ LoopCtxDone(sups[t])' =>
          lock' # None /\ t \in Named(lock)' /\ ~Quiet'
    BY <1>1, <1>3, <1>5, <1>6, <1>11, InMap DEF CancelInv
  <2>5. QED BY <1>3, <1>4, <2>1, <2>2, <2>3, <2>4 DEF CancelInv, LoopCtxDone, LoopCtx, Named
<1>13. StopInv'
  <2>1. ASSUME NEW c \in Callers
        PROVE  /\ \A s \in call[c].todo : s \in Sups' /\ sup'[s].tunnel \in Named(c)'
               /\ \A s \in call[c].waits : s \in Sups' /\ LoopCtxDone(s)'
               /\ call[c].phase = "holding" =>
                    \A t \in Named(c)' : sups[t] = None \/ sups[t] \in call[c].todo
                                         \/ LoopCtxDone(sups[t])'
    <3>1. \A t \in Named(c) : t \in Tunnels \/ call[c].phase # "holding"
      BY <1>1 DEF Named, Holder
    <3>2. \A s \in call[c].todo : s \in Sups' /\ sup'[s].tunnel \in Named(c)'
      BY <1>1, <1>4, <1>6 DEF StopInv
    <3>3. \A s \in call[c].waits : s \in Sups' /\ LoopCtxDone(s)'
      BY <1>1, <1>4, <1>5 DEF StopInv
    <3>4. ASSUME call[c].phase = "holding", NEW t \in Named(c)
          PROVE  sups[t] = None \/ sups[t] \in call[c].todo \/ LoopCtxDone(sups[t])'
      <4>1. t \in Tunnels
        BY <3>1, <3>4
      <4>2. sups[t] = None \/ sups[t] \in call[c].todo \/ LoopCtxDone(sups[t])
        BY <1>1, <3>4 DEF StopInv
      <4>3. CASE sups[t] # None
        <5>1. sups[t] \in Sups /\ sups'[t] = sups[t]
          BY <1>1, <1>3, <4>1, <4>3, InMap
        <5>2. QED BY <1>5, <4>2, <4>3, <5>1 DEF LoopCtxDone, LoopCtx
      <4>4. QED BY <4>3
    <3>5. QED BY <1>6, <3>2, <3>3, <3>4
  <2>2. QED BY <1>3, <2>1 DEF StopInv, LoopCtxDone, LoopCtx
<1>14. ViewInv'
  <2>1. CASE UNCHANGED <<sup, channel>>
    <3>1. Quiet' <=> Quiet
      BY <1>3, <2>1 DEF Quiet, channel
    <3>2. \A t : Status(t)' = Status(t)
      BY <1>3, <2>1 DEF Status
    <3>3. Deleted' = Deleted /\ \A i : Past(i)' <=> Past(i)
      BY <1>3 DEF Deleted, Past
    <3>4. QED BY <1>1, <1>3, <3>1, <3>2, <3>3 DEF ViewInv
  <2>2. QED BY <1>10, <2>1 DEF ViewInv
<1>15. CfgInv'
  BY <1>1, <1>3, CfgKept
<1>16. QED BY <1>4, <1>8, <1>9, <1>12, <1>13, <1>14, <1>15 DEF Inv

-----------------------------------------------------------------------------
(* The calls. *)

\* A step that touches neither supervisors, loops nor their contexts.
StillSame == UNCHANGED <<listed, conf, created, edits, sups, sup, loop, cancelled, channel, display>>

LEMMA SameState ==
  ASSUME StillSame
  PROVE  /\ \A s : LoopCtxDone(s)' <=> LoopCtxDone(s)
         /\ Sups' = Sups /\ Loops' = Loops /\ (Quiet' <=> Quiet)
         /\ \A g : Home(g)' = Home(g)
         /\ \A t : Status(t)' = Status(t)
         /\ Homes <=> Homes'
         /\ (CfgInv <=> CfgInv') /\ (ViewInv <=> ViewInv')
         /\ UNCHANGED <<listed, conf, created, edits, sups, sup, loop, cancelled, backlog, dropped, tray, overview, view>>
BY DEF StillSame, LoopCtxDone, LoopCtx, Sups, Loops, Quiet, Home, Status, Homes, CfgInv,
       ViewInv, Deleted, Past, channel, display

LEMMA RequestKeepsInv ==
  ASSUME Inv, NEW c \in Callers, Request(c)
  PROVE  Inv'
<1>0. requests \in 0 .. MaxCalls /\ requests < MaxCalls
  BY DEF Inv, TypeOK, Request
<1> PICK cmd \in Script[requests + 1] :
       call' = [call EXCEPT ![c] = [op |-> cmd.op, tunnel |-> cmd.tunnel,
                                    phase |-> "queued", todo |-> {}, waits |-> {}]]
  BY DEF Request
<1> DEFINE op == cmd.op
           u == cmd.tunnel
<1>a. op \in Op /\ u \in Tunnels
  <2>1. requests + 1 \in 1 .. MaxCalls
    BY <1>0, BoundTypes
  <2>2. cmd \in Command
    BY <2>1, BoundTypes
  <2>3. QED BY <2>2 DEF Command
<1> DEFINE x == [op |-> op, tunnel |-> u, phase |-> "queued", todo |-> {}, waits |-> {}]
<1>1. TypeOK /\ Counted /\ Homes /\ Holder /\ CancelInv /\ StopInv /\ CfgInv /\ ViewInv
  BY DEF Inv
<1>2. /\ call[c].phase = "idle" /\ requests < MaxCalls /\ requests' = requests + 1
      /\ call' = [call EXCEPT ![c] = x] /\ lock' = lock /\ StillSame
  BY DEF Request, InState, StillSame, config
<1> HIDE DEF op, u
<1>3. x \in CallType /\ x.op = op /\ x.tunnel = u /\ x.phase = "queued" /\ x.todo = {}
      /\ x.waits = {}
  BY <1>a DEF CallType
<1> HIDE DEF x
<1>4. /\ call' \in [Callers -> CallType] /\ call'[c] = x
      /\ \A d \in Callers : d # c => call'[d] = call[d]
  BY <1>1, <1>2, <1>3, CallSet
<1>5. lock # c
  BY <1>1, <1>2 DEF Holder
<1>6. /\ \A s : LoopCtxDone(s)' <=> LoopCtxDone(s)
      /\ Sups' = Sups /\ Loops' = Loops /\ (Quiet' <=> Quiet)
      /\ \A g : Home(g)' = Home(g)
      /\ Homes' /\ CfgInv' /\ ViewInv'
      /\ UNCHANGED <<listed, conf, created, edits, sups, sup, loop, cancelled, backlog, dropped, tray, overview, view>>
  BY <1>1, <1>2, SameState
<1>7. \A d \in Callers : d # c => Named(d)' = Named(d)
  BY <1>4 DEF Named
<1>8. TypeOK'
  BY <1>1, <1>2, <1>4, <1>6, BoundTypes DEF TypeOK
<1>9. Counted'
  <2>1. Busy' = Busy \cup {c} /\ c \notin Busy
    BY <1>2, <1>3, <1>4 DEF Busy
  <2>2. IsFiniteSet(Busy) /\ Cardinality(Busy) \in Nat
    BY <1>1, FS_CardinalityType DEF Counted
  <2>3. IsFiniteSet(Busy') /\ Cardinality(Busy') = Cardinality(Busy) + 1
    BY <2>1, <2>2, FS_AddElement
  <2>4. Len(loop) \in Nat /\ requests \in Nat
    BY <1>1, Limits, BoundTypes DEF TypeOK
  <2>5. QED BY <1>1, <1>2, <1>6, <2>2, <2>3, <2>4 DEF Counted
<1>10. Holder'
  BY <1>a, <1>1, <1>2, <1>3, <1>4, <1>5 DEF Holder
<1>11. CancelInv'
  <2>1. lock # None => lock \in Callers
    BY <1>1 DEF TypeOK
  <2>2. \A t \in Tunnels : sups[t] # None /\ LoopCtxDone(sups[t]) =>
          lock # None /\ t \in Named(lock)' /\ ~Quiet
    <3>1. lock # None => Named(lock)' = Named(lock)
      BY <1>2, <1>4, <1>5, <2>1 DEF Named
    <3>2. QED BY <1>1, <3>1 DEF CancelInv
  <2>3. QED BY <1>1, <1>2, <1>6, <2>2 DEF CancelInv, LoopCtxDone, LoopCtx
<1>12. StopInv'
  <2>1. ASSUME NEW d \in Callers
        PROVE  /\ \A s \in call'[d].todo : s \in Sups /\ sup[s].tunnel \in Named(d)'
               /\ \A s \in call'[d].waits : s \in Sups /\ LoopCtxDone(s)
               /\ call'[d].phase = "holding" =>
                    \A t \in Named(d)' : sups[t] = None \/ sups[t] \in call'[d].todo
                                         \/ LoopCtxDone(sups[t])
    <3>1. CASE d = c
      BY <1>3, <1>4, <3>1
    <3>2. CASE d # c
      BY <1>1, <1>4, <1>6, <1>7, <3>2 DEF StopInv
    <3>3. QED BY <3>1, <3>2
  <2>2. QED BY <1>6, <2>1 DEF StopInv, LoopCtxDone, LoopCtx
<1>13. QED BY <1>6, <1>8, <1>9, <1>10, <1>11, <1>12 DEF Inv

LEMMA AcquireKeepsInv ==
  ASSUME Inv, NEW c \in Callers, Acquire(c)
  PROVE  Inv'
<1> DEFINE x == [call[c] EXCEPT !.phase = "holding", !.todo = ToStop(c)]
<1>1. TypeOK /\ Counted /\ Homes /\ Holder /\ CancelInv /\ StopInv /\ CfgInv /\ ViewInv
  BY DEF Inv
<1>2. /\ call[c].phase = "queued" /\ lock = None /\ requests' = requests
      /\ call' = [call EXCEPT ![c] = x] /\ lock' = c /\ StillSame
  BY DEF Acquire, InState, Unlocked, StillSame, config
<1>3. call[c] \in CallType /\ call[c].tunnel \in Tunnels /\ call[c].waits = {}
      /\ call[c].op \in Op
  BY <1>1, <1>2 DEF TypeOK, Holder
<1>4. Named(c) \subseteq Tunnels
  BY <1>3 DEF Named
<1>5. ToStop(c) = {sups[t] : t \in Named(c)} \ {None}
  BY DEF ToStop, Named
<1>6. \A s \in ToStop(c) : s \in Sups /\ sup[s].tunnel \in Named(c)
  BY <1>1, <1>4, <1>5, InMap DEF Homes
<1>7. ToStop(c) \in SUBSET (1 .. MaxCalls)
  BY <1>1, <1>6, Limits
<1>8. x \in CallType /\ x.op = call[c].op /\ x.tunnel = call[c].tunnel
      /\ x.phase = "holding" /\ x.todo = ToStop(c) /\ x.waits = {}
  BY <1>3, <1>7 DEF CallType
<1> HIDE DEF x
<1>9. /\ call' \in [Callers -> CallType] /\ call'[c] = x
      /\ \A d \in Callers : d # c => call'[d] = call[d]
  BY <1>1, <1>2, <1>8, CallSet
<1>10. /\ \A s : LoopCtxDone(s)' <=> LoopCtxDone(s)
       /\ Sups' = Sups /\ Loops' = Loops /\ (Quiet' <=> Quiet)
       /\ \A g : Home(g)' = Home(g)
       /\ Homes' /\ CfgInv' /\ ViewInv'
       /\ UNCHANGED <<listed, conf, created, edits, sups, sup, loop, cancelled, backlog, dropped, tray, overview, view>>
  BY <1>1, <1>2, SameState
<1>11. \A d \in Callers : Named(d)' = Named(d)
  BY <1>8, <1>9 DEF Named
<1>12. TypeOK'
  BY <1>1, <1>2, <1>9, <1>10 DEF TypeOK
<1>13. Counted'
  <2>1. Busy' = Busy
    BY <1>2, <1>8, <1>9 DEF Busy
  <2>2. QED BY <1>1, <1>2, <1>10, <2>1 DEF Counted
<1>14. Holder'
  <2>1. \A d \in Callers : lock # d
    BY <1>1, <1>2, NoneIsNoSupervisor
  <2>2. QED BY <1>1, <1>2, <1>3, <1>8, <1>9, <2>1 DEF Holder
<1>15. CancelInv'
  <2>1. \A t \in Tunnels : ~(sups[t] # None /\ LoopCtxDone(sups[t]))
    BY <1>1, <1>2 DEF CancelInv
  <2>2. QED BY <1>1, <1>2, <1>10, <2>1 DEF CancelInv, LoopCtxDone, LoopCtx
<1>16. StopInv'
  <2>1. ASSUME NEW d \in Callers
        PROVE  /\ \A s \in call'[d].todo : s \in Sups /\ sup[s].tunnel \in Named(d)'
               /\ \A s \in call'[d].waits : s \in Sups /\ LoopCtxDone(s)
               /\ call'[d].phase = "holding" =>
                    \A t \in Named(d)' : sups[t] = None \/ sups[t] \in call'[d].todo
                                         \/ LoopCtxDone(sups[t])
    <3>1. CASE d = c
      BY <1>5, <1>6, <1>8, <1>9, <1>10, <1>11, <3>1
    <3>2. CASE d # c
      BY <1>1, <1>9, <1>10, <1>11, <3>2 DEF StopInv
    <3>3. QED BY <3>1, <3>2
  <2>2. QED BY <1>10, <2>1 DEF StopInv, LoopCtxDone, LoopCtx
<1>17. QED BY <1>10, <1>12, <1>13, <1>14, <1>15, <1>16 DEF Inv

\* The call that holds the lock gets on with what it has to stop ...
Progress(c, x) ==
  /\ call[c].phase = "holding" /\ x \in CallType
  /\ x.op = call[c].op /\ x.tunnel = call[c].tunnel /\ x.phase = "holding"
  /\ call' = [call EXCEPT ![c] = x]
  /\ UNCHANGED <<config, sups, lock, requests, loop, display>>

LEMMA Progressed ==
  ASSUME TypeOK, Counted, Holder, NEW c \in Callers, NEW x, Progress(c, x),
         Len(sup') = Len(sup)
  PROVE  /\ call' \in [Callers -> CallType] /\ call'[c] = x
         /\ \A d \in Callers : d # c => /\ call'[d] = call[d]
                                        /\ call[d].todo = {} /\ call[d].waits = {}
                                        /\ call[d].phase # "holding"
         /\ \A d \in Callers : Named(d)' = Named(d)
         /\ lock = c /\ lock' = c /\ Counted' /\ Holder'
         /\ UNCHANGED <<listed, conf, created, edits, sups, requests, loop, tray, overview, view>>
<1>1. UNCHANGED <<listed, conf, created, edits, sups, lock, requests, loop, tray, overview, view>>
  BY DEF Progress, config, display
<1>2. /\ call' \in [Callers -> CallType] /\ call'[c] = x
      /\ \A d \in Callers : d # c => call'[d] = call[d]
  BY CallSet DEF Progress
<1>3. \A d \in Callers : Named(d)' = Named(d)
  BY <1>2 DEF Named, Progress
<1>4. lock = c /\ \A d \in Callers : d # c => call[d].phase # "holding"
  BY DEF Holder, Progress
<1>5. Counted'
  <2>1. \A d \in Callers : call'[d].phase = call[d].phase
    BY <1>2 DEF Progress
  <2>2. QED BY <1>1, <2>1, CountKept
<1>6. Holder'
  <2>1. call[c].op \in Op /\ call[c].tunnel \in Tunnels
    BY <1>4 DEF Holder, Progress
  <2>2. QED BY <1>1, <1>2, <1>4, <2>1 DEF Holder, Progress
<1>7. QED BY <1>1, <1>2, <1>3, <1>4, <1>5, <1>6 DEF Holder

\* ... without a change of any state ...
LEMMA QuietProgress ==
  ASSUME Inv, NEW c \in Callers, NEW x, Progress(c, x), UNCHANGED <<sup, cancelled, channel>>,
         x.todo \subseteq call[c].todo, x.waits \subseteq call[c].waits,
         \A s \in call[c].todo : s \in x.todo \/ LoopCtxDone(s)
  PROVE  Inv'
<1>1. TypeOK /\ Counted /\ Homes /\ Holder /\ CancelInv /\ StopInv /\ CfgInv /\ ViewInv
  BY DEF Inv
<1>2. /\ call' \in [Callers -> CallType] /\ call'[c] = x
      /\ \A d \in Callers : d # c => /\ call'[d] = call[d]
                                     /\ call[d].todo = {} /\ call[d].waits = {}
                                     /\ call[d].phase # "holding"
      /\ \A d \in Callers : Named(d)' = Named(d)
      /\ lock = c /\ lock' = c /\ Counted' /\ Holder'
      /\ UNCHANGED <<listed, conf, created, edits, sups, requests, loop, tray, overview, view>>
  BY <1>1, Progressed
<1>3. StillSame
  BY <1>2 DEF StillSame, display
<1>4. /\ Sups' = Sups /\ Loops' = Loops /\ (Quiet' <=> Quiet)
      /\ \A g : Home(g)' = Home(g)
      /\ Homes' /\ CfgInv' /\ ViewInv'
      /\ UNCHANGED <<sup, cancelled, backlog, dropped>>
  BY <1>1, <1>3, SameState
<1>5. TypeOK'
  BY <1>1, <1>2, <1>4 DEF TypeOK
<1>6. CancelInv'
  <2>1. Named(lock)' = Named(lock)
    BY <1>2 DEF Named
  <2>2. QED BY <1>1, <1>2, <1>4, <2>1 DEF CancelInv, LoopCtxDone, LoopCtx
<1>7. StopInv'
  <2>1. ASSUME NEW d \in Callers
        PROVE  /\ \A s \in call'[d].todo : s \in Sups /\ sup[s].tunnel \in Named(d)'
               /\ \A s \in call'[d].waits : s \in Sups /\ LoopCtxDone(s)
               /\ call'[d].phase = "holding" =>
                    \A t \in Named(d)' : sups[t] = None \/ sups[t] \in call'[d].todo
                                         \/ LoopCtxDone(sups[t])
    <3>1. CASE d = c
      BY <1>1, <1>2, <3>1 DEF StopInv, Progress
    <3>2. CASE d # c
      BY <1>2, <3>2
    <3>3. QED BY <3>1, <3>2
  <2>2. QED BY <1>2, <1>4, <2>1 DEF StopInv, LoopCtxDone, LoopCtx
<1>8. QED BY <1>2, <1>4, <1>5, <1>6, <1>7 DEF Inv

\* ... or with an event, when the context of one supervisor is cancelled.
LEMMA ToldProgress ==
  ASSUME Inv, NEW c \in Callers, NEW x, Progress(c, x), NEW s \in Sups,
         NEW to \in {"stopped", "stopping"}, SetState(s, to),
         cancelled' = cancelled \cup {LoopCtx(s)},
         LoopCtxDone(s) \/ sup[s].tunnel \in Named(c),
         x.todo \subseteq call[c].todo, x.waits \subseteq call[c].waits \cup {s},
         \A r \in call[c].todo : r \in x.todo \/ r = s
  PROVE  Inv'
<1>1. TypeOK /\ Counted /\ Homes /\ Holder /\ CancelInv /\ StopInv /\ CfgInv /\ ViewInv
  BY DEF Inv
<1>2. /\ SupsKept /\ Published /\ sup'[s].state = to
      /\ \A r \in Sups : r # s => sup'[r] = sup[r]
  BY <1>1, StateSet DEF State
<1>3. /\ call' \in [Callers -> CallType] /\ call'[c] = x
      /\ \A d \in Callers : d # c => /\ call'[d] = call[d]
                                     /\ call[d].todo = {} /\ call[d].waits = {}
                                     /\ call[d].phase # "holding"
      /\ \A d \in Callers : Named(d)' = Named(d)
      /\ lock = c /\ lock' = c /\ Counted' /\ Holder'
      /\ UNCHANGED <<listed, conf, created, edits, sups, requests, loop, tray, overview, view>>
  BY <1>1, <1>2, Progressed DEF SupsKept
<1>4. LoopsKept
  BY <1>1, <1>3, LoopUnchanged
<1>5. /\ Sups' = Sups /\ Loops' = Loops /\ Homes'
      /\ sups' \in [Tunnels -> Sups' \cup {None}]
      /\ \A r \in Sups : sup'[r].tunnel = sup[r].tunnel /\ sup'[r].gen = sup[r].gen
  BY <1>1, <1>2, <1>3, <1>4, Frame
<1>6. ~Quiet'
  BY <1>2, TellsTheTray DEF Progress
<1>7. sup[s].gen \in Loops /\ loop[sup[s].gen].home = s
  BY <1>1 DEF Homes
<1>8. cancelled' = cancelled \cup {sup[s].gen}
  BY DEF LoopCtx
<1>9. \A r \in Sups : LoopCtxDone(r)' <=> LoopCtxDone(r) \/ sup[r].gen = sup[s].gen
  BY <1>5, <1>8 DEF LoopCtxDone, LoopCtx
<1>10. \A r \in Sups : sup[r].gen = sup[s].gen <=> r = s
  BY <1>1, <1>7 DEF Homes
<1>11. TypeOK'
  <2>1. cancelled' \subseteq Loops
    BY <1>1, <1>7, <1>8 DEF TypeOK
  <2>2. QED BY <1>1, <1>2, <1>3, <1>5, <2>1 DEF TypeOK, SupsKept, Published
<1>12. CancelInv'
  <2>1. ASSUME NEW g \in cancelled'
        PROVE  LoopCtxDone(Home(g))'
    <3>1. g \in Loops /\ Home(g)' = Home(g) /\ Home(g) \in Sups
      BY <1>1, <1>3, <1>7, <1>8 DEF TypeOK, Homes, Home
    <3>2. CASE g \in cancelled
      BY <1>1, <1>3, <1>5, <1>8, <3>1, <3>2 DEF CancelInv, LoopCtxDone, LoopCtx
    <3>3. CASE g = sup[s].gen
      BY <1>3, <1>5, <1>7, <1>8, <3>3 DEF LoopCtxDone, LoopCtx, Home
    <3>4. QED BY <1>8, <3>2, <3>3
  <2>2. \A r \in Sups : sup'[r].state \in {"stopped", "stopping"} => LoopCtxDone(r)'
    BY <1>1, <1>2, <1>9 DEF CancelInv
  <2>3. \A r \in Sups : sups'[sup'[r].tunnel] = r \/ LoopCtxDone(r)'
    BY <1>1, <1>3, <1>5, <1>9 DEF CancelInv
  <2>4. ASSUME NEW t \in Tunnels, sups[t] # None, sup'[sups[t]].gen \in cancelled'
        PROVE  t \in Named(c)
    <3>1. sups[t] \in Sups /\ sup[sups[t]].tunnel = t
      BY <1>1, <2>4, InMap DEF Homes
    <3>2. LoopCtxDone(sups[t]) \/ sups[t] = s
      BY <1>5, <1>8, <1>10, <2>4, <3>1 DEF LoopCtxDone, LoopCtx
    <3>3. LoopCtxDone(sups[t]) => t \in Named(c)
      BY <1>1, <1>3, <2>4 DEF CancelInv
    <3>4. QED BY <3>1, <3>2, <3>3
  <2>5. lock' # None /\ Named(lock)' = Named(c)
    BY <1>1, <1>3, NoneIsNoSupervisor DEF Named
  <2>6. QED BY <1>3, <1>5, <1>6, <2>1, <2>2, <2>3, <2>4, <2>5
            DEF CancelInv, LoopCtxDone, LoopCtx
<1>13. StopInv'
  <2>1. ASSUME NEW d \in Callers
        PROVE  /\ \A r \in call'[d].todo : r \in Sups /\ sup'[r].tunnel \in Named(d)'
               /\ \A r \in call'[d].waits : r \in Sups /\ sup'[r].gen \in cancelled'
               /\ call'[d].phase = "holding" =>
                    \A t \in Named(d)' : sups[t] = None \/ sups[t] \in call'[d].todo
                                         \/ sup'[sups[t]].gen \in cancelled'
    <3>1. CASE d # c
      BY <1>3, <3>1
    <3>2. CASE d = c
      <4>1. \A r \in x.todo : r \in Sups /\ sup'[r].tunnel \in Named(c)
        BY <1>1, <1>5 DEF StopInv
      <4>2. \A r \in x.waits : r \in Sups /\ sup'[r].gen \in cancelled'
        BY <1>1, <1>5, <1>8 DEF StopInv, LoopCtxDone, LoopCtx
      <4>3. ASSUME NEW t \in Named(c)
            PROVE  sups[t] = None \/ sups[t] \in x.todo \/ sup'[sups[t]].gen \in cancelled'
        <5>1. t \in Tunnels
          BY <1>1, <4>3 DEF Named, Holder, Progress
        <5>2. CASE sups[t] # None
          <6>1. sups[t] \in Sups
            BY <1>1, <5>1, <5>2, InMap
          <6>2. sups[t] \in call[c].todo \/ LoopCtxDone(sups[t])
            BY <1>1, <5>2 DEF StopInv, Progress
          <6>3. QED BY <1>5, <1>8, <6>1, <6>2 DEF LoopCtxDone, LoopCtx
        <5>3. QED BY <5>2
      <4>4. QED BY <1>3, <3>2, <4>1, <4>2, <4>3
    <3>3. QED BY <3>1, <3>2
  <2>2. QED BY <1>3, <1>5, <2>1 DEF StopInv, LoopCtxDone, LoopCtx
<1>14. ViewInv'
  BY <1>6 DEF ViewInv
<1>15. CfgInv'
  BY <1>1, <1>3, CfgKept DEF Progress, config
<1>16. QED BY <1>3, <1>5, <1>11, <1>12, <1>13, <1>14, <1>15 DEF Inv

LEMMA StopKeepsInv ==
  ASSUME Inv, NEW c \in Callers, NEW s \in Sups,
         StopBegin(c, s) \/ StopDone(c, s) \/ StopTimedOut(c, s)
  PROVE  Inv'
<1>1. TypeOK /\ Counted /\ Homes /\ Holder /\ CancelInv /\ StopInv
  BY DEF Inv
<1>2. call[c] \in CallType /\ s \in 1 .. MaxCalls
  BY <1>1, Limits DEF TypeOK
<1>3. s \in call[c].todo \/ s \in call[c].waits
  BY DEF StopBegin, StopDone, StopTimedOut
<1>4. call[c].phase = "holding"
  BY <1>1, <1>3 DEF Holder
<1> DEFINE todo == call[c].todo \ {s}
           waits == call[c].waits \ {s}
           more == call[c].waits \cup {s}
<1>5. todo \in SUBSET (1 .. MaxCalls) /\ waits \in SUBSET (1 .. MaxCalls)
      /\ more \in SUBSET (1 .. MaxCalls)
      /\ call[c].todo \in SUBSET (1 .. MaxCalls) /\ call[c].waits \in SUBSET (1 .. MaxCalls)
  BY <1>2 DEF CallType
<1>6. /\ todo \subseteq call[c].todo /\ waits \subseteq call[c].waits
      /\ more \subseteq call[c].waits \cup {s}
      /\ \A r \in call[c].todo : r \in todo \/ r = s
  OBVIOUS
<1> HIDE DEF todo, waits, more
<1>7. CASE StopBegin(c, s)
  <2>1. CASE sup[s].state \in {"stopped", "stopping"}
    <3> DEFINE x == [call[c] EXCEPT !.todo = todo, !.waits = call[c].waits]
    <3>1. x \in CallType /\ x.op = call[c].op /\ x.tunnel = call[c].tunnel
          /\ x.phase = "holding" /\ x.todo = todo /\ x.waits = call[c].waits
      BY <1>2, <1>4, <1>5 DEF CallType
    <3>2. call' = [call EXCEPT ![c].todo = todo]
          /\ UNCHANGED <<sup, cancelled, channel>>
      BY <1>7, <2>1 DEF StopBegin, todo
    <3>3. x = [call[c] EXCEPT !.todo = todo]
      BY <1>2 DEF CallType
    <3>4. call' = [call EXCEPT ![c] = x]
      BY <3>2, <3>3
    <3> HIDE DEF x
    <3>5. Progress(c, x)
      BY <1>4, <1>7, <3>1, <3>4 DEF Progress, StopBegin
    <3>6. \A r \in call[c].todo : r \in x.todo \/ LoopCtxDone(r)
      BY <1>1, <1>6, <2>1, <3>1 DEF CancelInv
    <3>7. QED BY <1>6, <3>1, <3>2, <3>5, <3>6, QuietProgress
  <2>2. CASE sup[s].state \notin {"stopped", "stopping"}
    <3> DEFINE x == [call[c] EXCEPT !.todo = todo, !.waits = more]
    <3>1. x \in CallType /\ x.op = call[c].op /\ x.tunnel = call[c].tunnel
          /\ x.phase = "holding" /\ x.todo = todo /\ x.waits = more
      BY <1>2, <1>4, <1>5 DEF CallType
    <3>2. /\ call' = [call EXCEPT ![c].todo = @ \ {s}, ![c].waits = @ \cup {s}]
          /\ SetState(s, "stopping") /\ cancelled' = cancelled \cup {LoopCtx(s)}
          /\ s \in call[c].todo
      BY <1>7, <2>2 DEF StopBegin
    <3>3. call' = [call EXCEPT ![c] = x]
      BY <3>2 DEF todo, more
    <3> HIDE DEF x
    <3>4. Progress(c, x)
      BY <1>4, <1>7, <3>1, <3>3 DEF Progress, StopBegin
    <3>5. sup[s].tunnel \in Named(c)
      BY <1>1, <3>2 DEF StopInv
    <3>6. QED BY <1>6, <3>1, <3>2, <3>4, <3>5, ToldProgress
  <2>3. QED BY <2>1, <2>2
<1>8. CASE StopDone(c, s) \/ StopTimedOut(c, s)
  <2> DEFINE x == [call[c] EXCEPT !.todo = call[c].todo, !.waits = waits]
  <2>1. x \in CallType /\ x.op = call[c].op /\ x.tunnel = call[c].tunnel
        /\ x.phase = "holding" /\ x.todo = call[c].todo /\ x.waits = waits
    BY <1>2, <1>4, <1>5 DEF CallType
  <2>2. call' = [call EXCEPT ![c].waits = waits]
    BY <1>8 DEF StopDone, StopTimedOut, waits
  <2>3. x = [call[c] EXCEPT !.waits = waits]
    BY <1>2 DEF CallType
  <2>4. call' = [call EXCEPT ![c] = x]
    BY <2>2, <2>3
  <2> HIDE DEF x
  <2>5. Progress(c, x)
    BY <1>4, <1>8, <2>1, <2>4 DEF Progress, StopDone, StopTimedOut
  <2>6. LoopCtxDone(s)
    BY <1>1, <1>8 DEF StopInv, StopDone, StopTimedOut
  <2>7. cancelled' = cancelled
    BY <1>8 DEF StopDone, StopTimedOut
  <2>8. CASE UNCHANGED <<sup, channel>>
    BY <1>6, <2>1, <2>5, <2>7, <2>8, QuietProgress
  <2>9. CASE SetState(s, "stopped")
    <3>1. cancelled' = cancelled \cup {LoopCtx(s)}
      BY <2>6, <2>7 DEF LoopCtxDone
    <3>2. QED BY <1>6, <2>1, <2>5, <2>6, <2>9, <3>1, ToldProgress
  <2>10. QED BY <1>8, <2>8, <2>9 DEF StopDone, StopTimedOut
<1>9. QED BY <1>7, <1>8

-----------------------------------------------------------------------------
(* The end of a call. *)

LEMMA Returned ==
  ASSUME TypeOK, Counted, Holder, StopInv, NEW c \in Callers, Return(c)
  PROVE  /\ call' \in [Callers -> CallType] /\ lock = c /\ lock' = None
         /\ Holder' /\ StopInv'
         /\ call[c].op \in Op /\ call[c].tunnel \in Tunnels /\ c \in Busy
         /\ IsFiniteSet(Busy') /\ Cardinality(Busy') = Cardinality(Busy) - 1
         /\ Cardinality(Busy) \in Nat
         /\ Dropped(c) \in [Tunnels -> Sups \cup {None}]
         /\ \A t \in Tunnels : Dropped(c)[t] = IF t \in Named(c) THEN None ELSE sups[t]
         /\ \A t \in Named(c) : t \in Tunnels /\ (sups[t] = None \/ LoopCtxDone(sups[t]))
<1>1. /\ call[c].phase = "holding" /\ call[c].todo = {} /\ lock' = None
      /\ call' = [call EXCEPT ![c] = NoCall]
  BY DEF Return, Ready, InState
<1>2. /\ NoCall \in CallType /\ NoCall.phase = "idle" /\ NoCall.todo = {}
      /\ NoCall.waits = {}
  BY DEF NoCall, CallType
<1>3. /\ call' \in [Callers -> CallType] /\ call'[c] = NoCall
      /\ \A d \in Callers : d # c => call'[d] = call[d]
  BY <1>1, <1>2, CallSet
<1>4. /\ lock = c /\ call[c].op \in Op /\ call[c].tunnel \in Tunnels
      /\ \A d \in Callers : d # c => /\ call[d].phase # "holding"
                                     /\ call[d].todo = {} /\ call[d].waits = {}
  BY <1>1 DEF Holder
<1>5. \A d \in Callers : d # None
  BY NoneIsNoSupervisor
<1>6. Holder'
  BY <1>1, <1>2, <1>3, <1>4, <1>5 DEF Holder
<1>7. StopInv'
  <2>1. \A d \in Callers : /\ call'[d].phase # "holding"
                           /\ call'[d].todo = {} /\ call'[d].waits = {}
    BY <1>2, <1>3, <1>4
  <2>2. QED BY <2>1 DEF StopInv
<1>8. c \in Busy /\ Busy' = Busy \ {c}
  BY <1>1, <1>2, <1>3 DEF Busy
<1>9. /\ IsFiniteSet(Busy') /\ Cardinality(Busy') = Cardinality(Busy) - 1
      /\ Cardinality(Busy) \in Nat
  BY <1>8, FS_RemoveElement, FS_CardinalityType DEF Counted
<1>10. Named(c) \subseteq Tunnels
  BY <1>4 DEF Named
<1>11. sups \in [Tunnels -> Sups \cup {None}]
  BY DEF TypeOK
<1>12. /\ Dropped(c) \in [Tunnels -> Sups \cup {None}]
       /\ \A t \in Tunnels : Dropped(c)[t] = IF t \in Named(c) THEN None ELSE sups[t]
  BY <1>4, <1>11 DEF Dropped, Named
<1>13. \A t \in Named(c) : sups[t] = None \/ LoopCtxDone(sups[t])
  BY <1>1 DEF StopInv
<1>14. QED BY <1>1, <1>3, <1>4, <1>6, <1>7, <1>8, <1>9, <1>10, <1>12, <1>13

\* A supervisor that stays in the map is not cancelled, one that is not is.
LEMMA StaysOrGone ==
  ASSUME TypeOK, Counted, Homes, Holder, CancelInv, StopInv, NEW c \in Callers, Return(c)
  PROVE  /\ \A t \in Tunnels : Dropped(c)[t] # None =>
              /\ Dropped(c)[t] = sups[t] /\ t \notin Named(c)
              /\ sups[t] \in Sups /\ sup[sups[t]].tunnel = t /\ ~LoopCtxDone(sups[t])
         /\ \A s \in Sups : \/ LoopCtxDone(s)
                            \/ Dropped(c)[sup[s].tunnel] = s /\ sup[s].tunnel \in Tunnels
<1>1. /\ lock = c /\ c # None
      /\ \A t \in Tunnels : Dropped(c)[t] = IF t \in Named(c) THEN None ELSE sups[t]
      /\ \A t \in Named(c) : t \in Tunnels /\ (sups[t] = None \/ LoopCtxDone(sups[t]))
  BY Returned, NoneIsNoSupervisor
<1>2. ASSUME NEW t \in Tunnels, Dropped(c)[t] # None
      PROVE  /\ Dropped(c)[t] = sups[t] /\ t \notin Named(c)
             /\ sups[t] \in Sups /\ sup[sups[t]].tunnel = t /\ ~LoopCtxDone(sups[t])
  <2>1. t \notin Named(c) /\ Dropped(c)[t] = sups[t] /\ sups[t] # None
    BY <1>1, <1>2
  <2>2. sups[t] \in Sups /\ sup[sups[t]].tunnel = t
    BY <2>1, InMap DEF Homes
  <2>3. ~LoopCtxDone(sups[t])
    BY <1>1, <2>1 DEF CancelInv
  <2>4. QED BY <2>1, <2>2, <2>3
<1>3. ASSUME NEW s \in Sups
      PROVE  \/ LoopCtxDone(s)
             \/ Dropped(c)[sup[s].tunnel] = s /\ sup[s].tunnel \in Tunnels
  <2>1. sup[s] \in SupType
    BY Elements DEF TypeOK, Sups
  <2>2. sup[s].tunnel \in Tunnels
    BY <2>1 DEF SupType
  <2>3. CASE sups[sup[s].tunnel] = s
    <3>1. s # None
      BY NoneIsNoSupervisor
    <3>2. QED BY <1>1, <2>2, <2>3, <3>1
  <2>4. QED BY <2>2, <2>3 DEF CancelInv
<1>4. QED BY <1>2, <1>3

LEMMA LeaveKeepsInv ==
  ASSUME Inv, NEW c \in Callers, FinishStop(c) \/ Refuse(c)
  PROVE  Inv'
<1>1. TypeOK /\ Counted /\ Homes /\ Holder /\ CancelInv /\ StopInv /\ CfgInv /\ ViewInv
  BY DEF Inv
<1>2. /\ Return(c) /\ sups' = Dropped(c)
      /\ UNCHANGED <<listed, conf, created, edits, requests, sup, loop, cancelled, backlog, dropped, tray, overview, view>>
  BY DEF FinishStop, Refuse, config, channel, display
<1>3. /\ call' \in [Callers -> CallType] /\ lock = c /\ lock' = None
      /\ Holder' /\ StopInv'
      /\ IsFiniteSet(Busy') /\ Cardinality(Busy') = Cardinality(Busy) - 1
      /\ Cardinality(Busy) \in Nat
      /\ Dropped(c) \in [Tunnels -> Sups \cup {None}]
      /\ \A t \in Tunnels : Dropped(c)[t] = IF t \in Named(c) THEN None ELSE sups[t]
      /\ \A t \in Named(c) : t \in Tunnels /\ (sups[t] = None \/ LoopCtxDone(sups[t]))
  BY <1>1, <1>2, Returned
<1>4. /\ \A t \in Tunnels : Dropped(c)[t] # None =>
           /\ Dropped(c)[t] = sups[t]
           /\ sups[t] \in Sups /\ sup[sups[t]].tunnel = t /\ ~LoopCtxDone(sups[t])
      /\ \A s \in Sups : LoopCtxDone(s) \/ Dropped(c)[sup[s].tunnel] = s
  BY <1>1, <1>2, StaysOrGone
<1>5. Sups' = Sups /\ Loops' = Loops /\ (Quiet' <=> Quiet)
  BY <1>2 DEF Sups, Loops, Quiet
<1>6. TypeOK'
  BY <1>1, <1>2, <1>3, <1>5 DEF TypeOK
<1>7. Counted'
  <2>1. Len(loop) \in Nat /\ requests \in Nat
    BY <1>1, Limits, BoundTypes DEF TypeOK
  <2>2. QED BY <1>1, <1>2, <1>3, <2>1 DEF Counted
<1>8. Homes'
  BY <1>1, <1>2, <1>4, <1>5 DEF Homes
<1>9. CancelInv'
  <2>1. \A t \in Tunnels : Dropped(c)[t] # None => ~(sup[Dropped(c)[t]].gen \in cancelled)
    BY <1>4 DEF LoopCtxDone, LoopCtx
  <2>2. QED BY <1>1, <1>2, <1>4, <1>5, <2>1 DEF CancelInv, LoopCtxDone, LoopCtx, Home
<1>10. ViewInv'
  <2>1. ASSUME Quiet, NEW t \in Tunnels
        PROVE  sups'[t] = sups[t]
    <3>1. sups[t] = None \/ ~LoopCtxDone(sups[t])
      BY <1>1, <2>1 DEF CancelInv
    <3>2. QED BY <1>2, <1>3, <3>1
  <2>2. Quiet => \A t \in Tunnels : Status(t)' = Status(t)
    BY <1>2, <2>1 DEF Status
  <2>3. Deleted' = Deleted /\ \A i : Past(i)' <=> Past(i)
    BY <1>2 DEF Deleted, Past
  <2>4. \A i \in 1 .. Items : i \in Tunnels
    BY BoundTypes DEF Tunnels
  <2>5. QED BY <1>1, <1>2, <1>5, <2>2, <2>3, <2>4 DEF ViewInv
<1>11. CfgInv'
  BY <1>1, <1>2, <1>3, CfgKept
<1>12. QED BY <1>3, <1>6, <1>7, <1>8, <1>9, <1>10, <1>11 DEF Inv

\* A new loop belongs to one supervisor and has a context of its own.
LEMMA LoopAdded ==
  ASSUME TypeOK, Counted, NEW c \in Busy, NEW s \in 1 .. MaxCalls, NewLoop(s)
  PROVE  /\ loop' \in Seq(LoopType) /\ Len(loop') = Len(loop) + 1 /\ Len(loop) \in Nat
         /\ Loops' = Loops \cup {Len(loop) + 1} /\ Len(loop) + 1 \notin Loops
         /\ Len(loop) + 1 \in 1 .. MaxCalls
         /\ \A g \in Loops : loop'[g] = loop[g]
         /\ loop'[Len(loop) + 1].home = s /\ loop'[Len(loop) + 1].ctx = Len(loop) + 1
<1> DEFINE n == Len(loop) + 1
           x == [home |-> s, ctx |-> n, phase |-> "dial"]
<1>1. n \in 1 .. MaxCalls /\ Len(loop) \in Nat
  BY Limits
<1>2. x \in LoopType /\ x.home = s /\ x.ctx = n
  BY <1>1 DEF LoopType
<1>3. loop \in Seq(LoopType) /\ loop' = Append(loop, x)
  BY DEF TypeOK, NewLoop
<1> HIDE DEF x
<1>4. /\ loop' \in Seq(LoopType) /\ Len(loop') = n
      /\ \A g \in 1 .. Len(loop) : loop'[g] = loop[g]
      /\ loop'[n] = x
  BY <1>2, <1>3, OneMore
<1>5. Loops' = Loops \cup {n} /\ n \notin Loops
  BY <1>1, <1>4 DEF Loops
<1>6. QED BY <1>1, <1>2, <1>4, <1>5 DEF Loops

LEMMA StartNewKeepsInv ==
  ASSUME Inv, NEW c \in Callers, StartNew(c)
  PROVE  Inv'
<1> DEFINE u == call[c].tunnel
           n == Len(sup) + 1
           g == Len(loop) + 1
           x == [tunnel |-> u, version |-> conf[u], state |-> "starting", gen |-> g]
<1>1. TypeOK /\ Counted /\ Homes /\ Holder /\ CancelInv /\ StopInv /\ CfgInv /\ ViewInv
  BY DEF Inv
<1>2. /\ Return(c) /\ conf[u] # 0 /\ Dropped(c)[u] = None
      /\ sups' = [Dropped(c) EXCEPT ![u] = n] /\ sup' = Append(sup, x)
      /\ NewLoop(n) /\ Publish
      /\ UNCHANGED <<listed, conf, created, edits, requests, cancelled, tray, overview, view>>
  BY DEF StartNew, config, display
<1>3. /\ call' \in [Callers -> CallType] /\ lock = c /\ lock' = None
      /\ Holder' /\ StopInv' /\ u \in Tunnels /\ c \in Busy
      /\ IsFiniteSet(Busy') /\ Cardinality(Busy') = Cardinality(Busy) - 1
      /\ Cardinality(Busy) \in Nat
      /\ Dropped(c) \in [Tunnels -> Sups \cup {None}]
  BY <1>1, <1>2, Returned
<1>4. /\ \A t \in Tunnels : Dropped(c)[t] # None =>
           /\ Dropped(c)[t] = sups[t]
           /\ sups[t] \in Sups /\ sup[sups[t]].tunnel = t /\ ~LoopCtxDone(sups[t])
      /\ \A s \in Sups : \/ LoopCtxDone(s)
                         \/ Dropped(c)[sup[s].tunnel] = s /\ sup[s].tunnel \in Tunnels
  BY <1>1, <1>2, StaysOrGone
<1>5. n \in 1 .. MaxCalls /\ g \in 1 .. MaxCalls /\ Len(sup) \in Nat /\ Len(loop) \in Nat
  BY <1>1, <1>3, Limits DEF Counted
<1>6. conf[u] \in 1 .. MaxEdits + 1
  <2>1. conf[u] \in 0 .. MaxEdits + 1 /\ MaxEdits \in Nat
    BY <1>1, <1>3, BoundTypes DEF TypeOK
  <2>2. QED BY <1>2, <2>1
<1>7. x \in SupType /\ x.tunnel = u /\ x.state = "starting" /\ x.gen = g
  BY <1>3, <1>5, <1>6 DEF SupType, State
<1>8. sup \in Seq(SupType)
  BY <1>1 DEF TypeOK
<1> HIDE DEF x
<1>9. /\ sup' \in Seq(SupType) /\ Len(sup') = n /\ sup'[n] = x
      /\ \A s \in 1 .. Len(sup) : sup'[s] = sup[s]
  BY <1>2, <1>7, <1>8, OneMore
<1>10. Sups' = Sups \cup {n} /\ n \notin Sups /\ \A s \in Sups : sup'[s] = sup[s]
  BY <1>5, <1>9 DEF Sups
<1>11. /\ loop' \in Seq(LoopType) /\ Len(loop') = Len(loop) + 1
       /\ Loops' = Loops \cup {g} /\ g \notin Loops
       /\ \A h \in Loops : loop'[h] = loop[h]
       /\ loop'[g].home = n /\ loop'[g].ctx = g
  BY <1>1, <1>2, <1>3, <1>5, LoopAdded
<1>12. /\ sups' \in [Tunnels -> Sups' \cup {None}] /\ sups'[u] = n
       /\ \A t \in Tunnels : t # u => sups'[t] = Dropped(c)[t]
  BY <1>2, <1>3, <1>10
<1>13. cancelled \subseteq Loops
  BY <1>1 DEF TypeOK
<1>14. Published
  BY <1>1, <1>2, PublishTells
<1>15. ~Quiet'
  BY <1>2, <1>14, TellsTheTray DEF display
<1> HIDE DEF g, n
<1>16. TypeOK'
  <2>1. lock' \in Callers \cup {None} /\ cancelled' \subseteq Loops'
    BY <1>2, <1>3, <1>11, <1>13
  <2>2. QED BY <1>1, <1>2, <1>3, <1>9, <1>11, <1>12, <1>14, <2>1 DEF TypeOK, Published
<1>17. Counted'
  <2>1. requests \in Nat
    BY <1>1, BoundTypes DEF TypeOK
  <2>2. QED BY <1>1, <1>2, <1>3, <1>5, <1>9, <1>11, <2>1 DEF Counted, n
<1>18. Homes'
  <2>1. \A t \in Tunnels : sups'[t] # None => sup'[sups'[t]].tunnel = t
    BY <1>4, <1>7, <1>9, <1>10, <1>12
  <2>2. \A s \in Sups' : sup'[s].gen \in Loops' /\ loop'[sup'[s].gen].home = s
    BY <1>1, <1>7, <1>9, <1>10, <1>11 DEF Homes
  <2>3. \A h \in Loops' : /\ loop'[h].home \in Sups' /\ loop'[h].ctx \in Loops'
                          /\ loop'[loop'[h].ctx].home = loop'[h].home
    BY <1>1, <1>10, <1>11 DEF Homes
  <2>4. QED BY <2>1, <2>2, <2>3 DEF Homes
<1>19. CancelInv'
  <2>1. \A h \in cancelled : loop'[h].home \in Sups
                             /\ sup'[loop'[h].home].gen \in cancelled
    BY <1>1, <1>10, <1>11, <1>13 DEF CancelInv, Homes, LoopCtxDone, LoopCtx, Home
  <2>2. \A s \in Sups' : sup'[s].state \in {"stopped", "stopping"} =>
                           sup'[s].gen \in cancelled
    BY <1>1, <1>7, <1>9, <1>10 DEF CancelInv, LoopCtxDone, LoopCtx
  <2>3. \A s \in Sups' : sups'[sup'[s].tunnel] = s \/ sup'[s].gen \in cancelled
    <3>1. \A s \in Sups : s # None
      BY <1>1, NoneIsNoSupervisor
    <3>2. ASSUME NEW s \in Sups, ~(sup[s].gen \in cancelled)
          PROVE  sups'[sup[s].tunnel] = s
      <4>1. Dropped(c)[sup[s].tunnel] = s /\ sup[s].tunnel \in Tunnels
        BY <1>4, <3>2 DEF LoopCtxDone, LoopCtx
      <4>2. sup[s].tunnel # u
        BY <1>2, <3>1, <4>1
      <4>3. QED BY <1>12, <4>1, <4>2
    <3>3. QED BY <1>7, <1>9, <1>10, <1>12, <3>2
  <2>4. \A t \in Tunnels : sups'[t] # None => ~(sup'[sups'[t]].gen \in cancelled)
    BY <1>4, <1>7, <1>9, <1>10, <1>11, <1>12, <1>13 DEF LoopCtxDone, LoopCtx
  <2>5. QED BY <1>2, <2>1, <2>2, <2>3, <2>4 DEF CancelInv, LoopCtxDone, LoopCtx, Home
<1>20. ViewInv'
  BY <1>15 DEF ViewInv
<1>21. CfgInv'
  <2>1. \A t \in Tunnels : sups'[t] # None => sups[t] # None \/ conf[t] # 0
    BY <1>2, <1>4, <1>12
  <2>2. QED BY <1>1, <1>2, <2>1, CfgKept
<1>22. QED BY <1>3, <1>16, <1>17, <1>18, <1>19, <1>20, <1>21 DEF Inv

\* A restart starts no supervisor it has just dropped.
LEMMA OnlyStartStartsOld ==
  ASSUME TypeOK, Counted, Holder, StopInv, NEW c \in Callers, StartOld(c)
  PROVE  /\ call[c].op = "start" /\ Named(c) = {} /\ Dropped(c) = sups
         /\ sups[call[c].tunnel] \in Sups
<1>1. /\ Return(c) /\ call[c].op \in {"start", "restart"}
      /\ Dropped(c)[call[c].tunnel] # None
  BY DEF StartOld
<1>2. /\ call[c].tunnel \in Tunnels
      /\ \A t \in Tunnels : Dropped(c)[t] = IF t \in Named(c) THEN None ELSE sups[t]
  BY <1>1, Returned
<1>3. call[c].op = "start"
  BY <1>1, <1>2 DEF Named
<1>4. Named(c) = {} /\ Dropped(c) = sups
  BY <1>3 DEF Named, Dropped
<1>5. QED BY <1>1, <1>2, <1>3, <1>4, InMap

LEMMA StartOldKeepsInv ==
  ASSUME Inv, NEW c \in Callers, StartOld(c)
  PROVE  Inv'
<1> DEFINE u == call[c].tunnel
           s == sups[u]
           g == Len(loop) + 1
           x == [sup[s] EXCEPT !.state = "starting", !.gen = g]
<1>1. TypeOK /\ Counted /\ Homes /\ Holder /\ CancelInv /\ StopInv /\ CfgInv /\ ViewInv
  BY DEF Inv
<1>2. call[c].op = "start" /\ Named(c) = {} /\ Dropped(c) = sups /\ s \in Sups
  BY <1>1, OnlyStartStartsOld
<1>3. /\ Return(c) /\ sups' = sups
      /\ sup' = [sup EXCEPT ![s].state = "starting", ![s].gen = g]
      /\ NewLoop(s) /\ Publish
      /\ UNCHANGED <<listed, conf, created, edits, requests, cancelled, tray, overview, view>>
  BY <1>2 DEF StartOld, config, display
<1>4. /\ call' \in [Callers -> CallType] /\ lock = c /\ lock' = None
      /\ Holder' /\ StopInv' /\ u \in Tunnels /\ c \in Busy
      /\ IsFiniteSet(Busy') /\ Cardinality(Busy') = Cardinality(Busy) - 1
      /\ Cardinality(Busy) \in Nat
  BY <1>1, <1>3, Returned
<1>5. /\ \A t \in Tunnels : sups[t] # None =>
           sups[t] \in Sups /\ sup[sups[t]].tunnel = t /\ ~LoopCtxDone(sups[t])
      /\ \A r \in Sups : LoopCtxDone(r) \/ sups[sup[r].tunnel] = r
  BY <1>1, <1>2, <1>3, StaysOrGone
<1>6. g \in 1 .. MaxCalls /\ Len(loop) \in Nat /\ s \in 1 .. MaxCalls
  BY <1>1, <1>2, <1>4, Limits
<1>7. sup \in Seq(SupType) /\ sup[s] \in SupType /\ s \in 1 .. Len(sup)
  BY <1>1, <1>2, Elements DEF TypeOK, Sups
<1> HIDE DEF g, s
<1>8. x \in SupType /\ x.tunnel = sup[s].tunnel /\ x.state = "starting" /\ x.gen = g
  <2>1. "starting" \in State /\ g \in 0 .. MaxCalls
    BY <1>6 DEF State
  <2>2. QED BY <1>7, <2>1 DEF SupType
<1>9. sup' = [sup EXCEPT ![s] = x]
  BY <1>3
<1> HIDE DEF x
<1>10. /\ sup' \in Seq(SupType) /\ Len(sup') = Len(sup) /\ sup'[s] = x
       /\ \A r \in 1 .. Len(sup) : r # s => sup'[r] = sup[r]
  BY <1>7, <1>8, <1>9, FieldsSet
<1>11. Sups' = Sups /\ \A r \in Sups : /\ r # s => sup'[r] = sup[r]
                                       /\ sup'[r].tunnel = sup[r].tunnel
  BY <1>8, <1>10 DEF Sups
<1>12. /\ loop' \in Seq(LoopType) /\ Len(loop') = Len(loop) + 1
       /\ Loops' = Loops \cup {g} /\ g \notin Loops
       /\ \A h \in Loops : loop'[h] = loop[h]
       /\ loop'[g].home = s /\ loop'[g].ctx = g
  BY <1>1, <1>3, <1>4, <1>6, LoopAdded DEF g
<1>13. cancelled \subseteq Loops
  BY <1>1 DEF TypeOK
<1>14. Published
  BY <1>1, <1>3, PublishTells
<1>15. ~Quiet'
  BY <1>3, <1>14, TellsTheTray DEF display
<1>16. s # None /\ sup[s].tunnel = u /\ ~LoopCtxDone(s)
  <2>1. s # None
    BY <1>1, <1>2, NoneIsNoSupervisor
  <2>2. QED BY <1>4, <1>5, <2>1 DEF s
<1>17. TypeOK'
  <2>1. lock' \in Callers \cup {None} /\ cancelled' \subseteq Loops'
        /\ sups' \in [Tunnels -> Sups' \cup {None}]
    BY <1>1, <1>3, <1>4, <1>11, <1>12, <1>13 DEF TypeOK
  <2>2. QED BY <1>1, <1>3, <1>4, <1>10, <1>12, <1>14, <2>1 DEF TypeOK, Published
<1>18. Counted'
  <2>1. requests \in Nat /\ Len(sup) \in Nat
    BY <1>1, Limits, BoundTypes DEF TypeOK
  <2>2. QED BY <1>1, <1>3, <1>4, <1>6, <1>10, <1>12, <2>1 DEF Counted
<1>19. Homes'
  <2>1. \A t \in Tunnels : sups'[t] # None => sup'[sups'[t]].tunnel = t
    BY <1>3, <1>5, <1>11
  <2>2. \A r \in Sups' : sup'[r].gen \in Loops' /\ loop'[sup'[r].gen].home = r
    BY <1>1, <1>8, <1>10, <1>11, <1>12 DEF Homes
  <2>3. \A h \in Loops' : /\ loop'[h].home \in Sups' /\ loop'[h].ctx \in Loops'
                          /\ loop'[loop'[h].ctx].home = loop'[h].home
    BY <1>1, <1>2, <1>11, <1>12 DEF Homes
  <2>4. QED BY <2>1, <2>2, <2>3 DEF Homes
<1>20. CancelInv'
  <2>1. ASSUME NEW h \in cancelled
        PROVE  loop'[h].home \in Sups /\ sup'[loop'[h].home].gen \in cancelled
    <3>1. h \in Loops /\ loop[h].home \in Sups /\ loop'[h] = loop[h]
      BY <1>1, <1>12, <1>13 DEF Homes
    <3>2. sup[loop[h].home].gen \in cancelled
      BY <1>1 DEF CancelInv, LoopCtxDone, LoopCtx, Home
    <3>3. loop[h].home # s
      BY <1>16, <3>2 DEF LoopCtxDone, LoopCtx
    <3>4. QED BY <1>11, <3>1, <3>2, <3>3
  <2>2. \A r \in Sups : sup'[r].state \in {"stopped", "stopping"} =>
                          sup'[r].gen \in cancelled
    BY <1>1, <1>8, <1>10, <1>11 DEF CancelInv, LoopCtxDone, LoopCtx
  <2>3. \A r \in Sups : sups[sup'[r].tunnel] = r \/ sup'[r].gen \in cancelled
    <3>1. sups[sup[s].tunnel] = s
      BY <1>16 DEF s
    <3>2. QED BY <1>5, <1>11, <3>1 DEF LoopCtxDone, LoopCtx
  <2>4. \A t \in Tunnels : sups[t] # None => ~(sup'[sups[t]].gen \in cancelled)
    BY <1>5, <1>8, <1>10, <1>11, <1>12, <1>13 DEF LoopCtxDone, LoopCtx
  <2>5. UNCHANGED <<sups, cancelled>>
    BY <1>3
  <2>6. QED BY <1>11, <2>1, <2>2, <2>3, <2>4, <2>5 DEF CancelInv, LoopCtxDone, LoopCtx, Home
<1>21. ViewInv'
  BY <1>15 DEF ViewInv
<1>22. CfgInv'
  BY <1>1, <1>3, CfgKept
<1>23. QED BY <1>4, <1>17, <1>18, <1>19, <1>20, <1>21, <1>22 DEF Inv

-----------------------------------------------------------------------------
(* The configuration and the tray. *)

\* A step that leaves supervisors, loops, the lock and the calls alone keeps
\* the invariant if the tray does not come to rest on a wrong view.
LEMMA OutsideKeepsInv ==
  ASSUME Inv, UNCHANGED <<sups, sup, loop, cancelled, lock, call, requests>>,
         TypeOK', CfgInv', ViewInv', Quiet' => Quiet \/ lock = None
  PROVE  Inv'
<1>1. Counted /\ Homes /\ Holder /\ CancelInv /\ StopInv
  BY DEF Inv
<1>2. Counted' /\ Homes' /\ Holder' /\ StopInv'
  BY <1>1 DEF Counted, Busy, Homes, Holder, StopInv, Sups, Loops, Named, LoopCtxDone, LoopCtx
<1>3. CancelInv'
  <2>1. \A t \in Tunnels : sups[t] # None /\ LoopCtxDone(sups[t]) =>
          lock # None /\ t \in Named(lock) /\ ~Quiet'
    BY <1>1 DEF CancelInv
  <2>2. lock' = lock /\ Named(lock)' = Named(lock)
    BY DEF Named
  <2>3. QED BY <1>1, <2>1, <2>2 DEF CancelInv, LoopCtxDone, LoopCtx, Home, Sups
<1>4. QED BY <1>2, <1>3 DEF Inv

\* The numbers that the configuration and the tray count with.
LEMMA Numbers ==
  ASSUME TypeOK
  PROVE  /\ Items \in Nat /\ MaxEdits \in Nat /\ edits \in 0 .. MaxEdits
         /\ created \in Items .. Items + MaxEdits /\ created \in Nat
         /\ Len(listed) \in Nat /\ listed \in Seq(Tunnels)
         /\ \A i \in 1 .. Len(listed) : listed[i] \in Tunnels
         /\ tray \in 0 .. Items + 2 /\ backlog \in 0 .. TrayBuffer /\ TrayBuffer \in Nat
         /\ \A i \in 1 .. Items : i \in Tunnels
         /\ \A t \in Tunnels : t \in Nat
<1>1. listed \in Seq(Tunnels) /\ created \in Items .. Items + MaxEdits
  BY DEF TypeOK
<1>2. QED BY <1>1, BoundTypes, Elements DEF TypeOK, Tunnels

LEMMA StatusType ==
  ASSUME TypeOK, NEW t \in Tunnels
  PROVE  Status(t) \in State
<1>1. CASE sups[t] = None
  BY <1>1 DEF Status, State
<1>2. CASE sups[t] # None
  <2>1. sup[sups[t]] \in SupType
    BY <1>2, InMap, Elements DEF TypeOK, Sups
  <2>2. QED BY <1>2, <2>1 DEF Status, SupType
<1>3. QED BY <1>1, <1>2

\* No change of the configuration touches what the tray has to learn.
LEMMA ConfigKeepsInv ==
  ASSUME Inv, \/ Create
              \/ \E t \in Tunnels : Edit(t)
              \/ \E i \in 1 .. Len(listed) : Delete(i)
  PROVE  Inv'
<1>1. TypeOK /\ CfgInv /\ ViewInv
  BY DEF Inv
<1>2. /\ Items \in Nat /\ MaxEdits \in Nat /\ edits \in 0 .. MaxEdits
      /\ created \in Items .. Items + MaxEdits /\ created \in Nat
      /\ Len(listed) \in Nat /\ listed \in Seq(Tunnels)
      /\ \A i \in 1 .. Len(listed) : listed[i] \in Tunnels
      /\ \A i \in 1 .. Items : i \in Tunnels
      /\ \A t \in Tunnels : t \in Nat
  BY <1>1, Numbers
<1>3. /\ edits < MaxEdits /\ edits' = edits + 1
      /\ UNCHANGED <<engine, sup, loop, cancelled, channel, display>>
      /\ UNCHANGED <<sups, lock, call, requests, sup, loop, cancelled, backlog, dropped,
                     tray, overview, view>>
  BY DEF Create, Edit, Delete, engine, channel, display
<1>4. /\ edits' \in 0 .. MaxEdits /\ conf \in [Tunnels -> 0 .. MaxEdits + 1]
      /\ edits + 2 \in 0 .. MaxEdits + 1
  BY <1>1, <1>2, <1>3 DEF TypeOK
<1>5. Quiet' <=> Quiet
  BY <1>3 DEF Quiet
<1>6. /\ \A t : Status(t)' = Status(t)
      /\ \A i : Past(i)' <=> Past(i)
  BY <1>3 DEF Status, Past
<1>7. CASE Create
  <2> DEFINE n == created + 1
  <2>1. /\ created' = n /\ listed' = Append(listed, n)
        /\ conf' = [conf EXCEPT ![n] = edits + 2]
    BY <1>7 DEF Create
  <2>2. created <= Items + edits
    BY <1>1 DEF CfgInv
  <2>3. n \in Tunnels /\ n \in Items .. Items + MaxEdits
    BY <1>2, <1>3, <2>2 DEF Tunnels
  <2>4. conf' \in [Tunnels -> 0 .. MaxEdits + 1] /\ conf'[n] = edits + 2
        /\ \A t \in Tunnels : t # n => conf'[t] = conf[t]
    BY <1>4, <2>1, <2>3
  <2>5. /\ listed' \in Seq(Tunnels) /\ Len(listed') = Len(listed) + 1
        /\ \A i \in 1 .. Len(listed) : listed'[i] = listed[i]
        /\ listed'[Len(listed) + 1] = n
    BY <1>2, <2>1, <2>3, OneMore
  <2>6. TypeOK'
    BY <1>1, <1>3, <1>4, <2>1, <2>3, <2>4, <2>5 DEF TypeOK, Sups, Loops
  <2>7. Deleted' = Deleted
    BY <1>2, <2>1, <2>5 DEF Deleted
  <2>8. CfgInv'
    <3>1. Len(listed') <= created' /\ created' <= Items + edits'
      BY <1>1, <1>2, <1>3, <2>1, <2>5 DEF CfgInv
    <3>2. \A t \in Tunnels : t > created' =>
            conf'[t] = 0 /\ sups'[t] = None /\ overview'[t] = "stopped"
      BY <1>1, <1>2, <1>3, <2>1, <2>4 DEF CfgInv
    <3>3. Deleted = 0 => \A i \in 1 .. Len(listed') : listed'[i] = i
      <4>1. ASSUME Deleted = 0, NEW i \in 1 .. Len(listed')
            PROVE  listed'[i] = i
        <5>1. Len(listed) = created
          BY <1>2, <4>1 DEF Deleted
        <5>2. CASE i \in 1 .. Len(listed)
          BY <1>1, <2>5, <4>1, <5>2 DEF CfgInv
        <5>3. CASE i = n
          BY <2>5, <5>1, <5>3
        <5>4. QED BY <1>2, <2>5, <4>1, <5>1, <5>2, <5>3
      <4>2. QED BY <4>1
    <3>4. Deleted = 0 => \A i \in 1 .. Items : view'[i].name = i
      BY <1>1, <1>3 DEF CfgInv
    <3>5. QED BY <2>7, <3>1, <3>2, <3>3, <3>4 DEF CfgInv
  <2>9. ViewInv'
    <3>1. n > created
      BY <1>2
    <3>2. sups[n] = None /\ overview[n] = "stopped"
      BY <1>1, <2>3, <3>1 DEF CfgInv
    <3>3. overview[n] = Status(n)
      BY <3>2 DEF Status
    <3>4. QED BY <1>1, <1>3, <1>5, <1>6, <2>4, <2>7, <3>3 DEF ViewInv
  <2>10. QED BY <1>3, <1>5, <2>6, <2>8, <2>9, OutsideKeepsInv
<1>8. ASSUME NEW u \in Tunnels, Edit(u)
      PROVE  Inv'
  <2>1. /\ conf[u] # 0 /\ conf' = [conf EXCEPT ![u] = edits + 2]
        /\ UNCHANGED <<listed, created>>
    BY <1>8 DEF Edit
  <2>2. conf' \in [Tunnels -> 0 .. MaxEdits + 1]
        /\ \A t \in Tunnels : t # u => conf'[t] = conf[t]
    BY <1>4, <2>1
  <2>3. TypeOK'
    BY <1>1, <1>3, <1>4, <2>1, <2>2 DEF TypeOK, Sups, Loops
  <2>4. Deleted' = Deleted
    BY <2>1 DEF Deleted
  <2>5. CfgInv'
    <3>1. \A t \in Tunnels : t > created' =>
            conf'[t] = 0 /\ sups'[t] = None /\ overview'[t] = "stopped"
      BY <1>1, <1>3, <2>1, <2>2 DEF CfgInv
    <3>2. Len(listed') <= created' /\ created' <= Items + edits'
      BY <1>1, <1>2, <1>3, <2>1 DEF CfgInv
    <3>3. Deleted = 0 => /\ \A i \in 1 .. Len(listed') : listed'[i] = i
                         /\ \A i \in 1 .. Items : view'[i].name = i
      BY <1>1, <1>3, <2>1 DEF CfgInv
    <3>4. QED BY <2>4, <3>1, <3>2, <3>3 DEF CfgInv
  <2>6. ViewInv'
    BY <1>1, <1>3, <1>5, <1>6, <2>1, <2>2, <2>4 DEF ViewInv
  <2>7. QED BY <1>3, <1>5, <2>3, <2>5, <2>6, OutsideKeepsInv
<1>9. ASSUME NEW k \in 1 .. Len(listed), Delete(k)
      PROVE  Inv'
  <2>1. /\ conf' = [conf EXCEPT ![listed[k]] = 0] /\ created' = created
        /\ listed' = [j \in 1 .. Len(listed) - 1 |->
                        IF j < k THEN listed[j] ELSE listed[j + 1]]
    BY <1>9 DEF Delete
  <2>2. conf' \in [Tunnels -> 0 .. MaxEdits + 1]
        /\ \A t \in Tunnels : conf'[t] = conf[t] \/ conf'[t] = 0
    BY <1>2, <1>4, <2>1
  <2>3. listed' \in Seq(Tunnels) /\ Len(listed') = Len(listed) - 1
    <3>1. Len(listed) - 1 \in Nat
      BY <1>2
    <3>2. listed' \in [1 .. Len(listed) - 1 -> Tunnels]
      BY <1>2, <2>1
    <3>3. QED BY <3>1, <3>2
  <2>4. TypeOK'
    BY <1>1, <1>3, <1>4, <2>1, <2>2, <2>3 DEF TypeOK, Sups, Loops
  <2>5. Deleted \in Nat /\ Deleted' = Deleted + 1
    <3>1. created \in Nat /\ Len(listed) \in Nat /\ Len(listed) <= created
      BY <1>1, <1>2 DEF CfgInv
    <3>2. Deleted' = created - (Len(listed) - 1)
      BY <2>1, <2>3 DEF Deleted
    <3>3. Deleted = created - Len(listed)
      BY DEF Deleted
    <3> HIDE DEF Deleted
    <3>4. QED BY <3>1, <3>2, <3>3
  <2>6. CfgInv'
    <3>1. Len(listed') <= created' /\ created' <= Items + edits'
      BY <1>1, <1>2, <1>3, <2>1, <2>3 DEF CfgInv
    <3>2. \A t \in Tunnels : t > created' =>
            conf'[t] = 0 /\ sups'[t] = None /\ overview'[t] = "stopped"
      BY <1>1, <1>3, <2>1, <2>2 DEF CfgInv
    <3>3. Deleted' # 0
      BY <2>5
    <3>4. QED BY <3>1, <3>2, <3>3 DEF CfgInv
  <2>7. ViewInv'
    <3>1. \A i \in 1 .. Items : i + Deleted' <= Items => i + Deleted <= Items
      BY <1>2, <2>5
    <3>2. QED BY <1>1, <1>3, <1>5, <1>6, <2>2, <3>1 DEF ViewInv
  <2>8. QED BY <1>3, <1>5, <2>4, <2>6, <2>7, OutsideKeepsInv
<1>10. QED BY <1>7, <1>8, <1>9

LEMMA TrayKeepsInv ==
  ASSUME Inv, TrayReceive \/ TrayList \/ (\E i \in 1 .. Items : TrayItem(i)) \/ TrayDone
  PROVE  Inv'
<1>1. TypeOK /\ CfgInv /\ ViewInv
  BY DEF Inv
<1>2. UNCHANGED <<listed, conf, created, edits, sups, lock, call, requests, sup, loop,
                  cancelled, dropped>>
  BY DEF TrayReceive, TrayList, TrayItem, TrayDone, config, engine, channel
<1>3. /\ Items \in Nat /\ created \in Items .. Items + MaxEdits /\ MaxEdits \in Nat
      /\ Len(listed) \in Nat
      /\ \A i \in 1 .. Len(listed) : listed[i] \in Tunnels
      /\ tray \in 0 .. Items + 2 /\ backlog \in 0 .. TrayBuffer /\ TrayBuffer \in Nat
      /\ \A i \in 1 .. Items : i \in Tunnels
  BY <1>1, Numbers
<1>4. /\ Deleted' = Deleted /\ \A t : Status(t)' = Status(t)
  BY <1>2 DEF Deleted, Status
<1>5. CASE TrayReceive
  <2>1. backlog > 0 /\ backlog' = backlog - 1 /\ tray' = 1 /\ UNCHANGED <<overview, view>>
    BY <1>5 DEF TrayReceive
  <2>2. backlog' \in 0 .. TrayBuffer /\ tray' \in 0 .. Items + 2
    BY <1>3, <2>1
  <2>3. TypeOK'
    BY <1>1, <1>2, <2>1, <2>2 DEF TypeOK, Sups, Loops
  <2>4. ~Quiet'
    BY <2>1 DEF Quiet
  <2>5. CfgInv'
    BY <1>1, <1>2, <1>4, <2>1 DEF CfgInv
  <2>6. QED BY <1>2, <2>3, <2>4, <2>5, OutsideKeepsInv DEF ViewInv
<1>6. CASE TrayList
  <2>1. /\ lock = None /\ tray' = 2 /\ backlog' = backlog /\ view' = view
        /\ overview' = [t \in Tunnels |-> IF conf[t] # 0 THEN Status(t) ELSE "stopped"]
    BY <1>6 DEF TrayList, ReadLock, channel
  <2>2. overview' \in [Tunnels -> State]
    BY <1>1, <2>1, StatusType DEF State
  <2>3. TypeOK'
    BY <1>1, <1>2, <1>3, <2>1, <2>2 DEF TypeOK, Sups, Loops
  <2>4. CfgInv'
    BY <1>1, <1>2, <1>4, <2>1 DEF CfgInv
  <2>5. ViewInv'
    <3>1. \A i \in 1 .. Items : ~Past(i)'
      BY <1>3, <2>1 DEF Past
    <3>2. QED BY <1>2, <1>4, <2>1, <3>1 DEF ViewInv
  <2>6. QED BY <1>2, <2>1, <2>3, <2>4, <2>5, OutsideKeepsInv
<1>7. ASSUME NEW k \in 1 .. Items, TrayItem(k)
      PROVE  Inv'
  <2>1. /\ tray = k + 1 /\ k <= Len(listed) /\ lock = None /\ tray' = k + 2
        /\ backlog' = backlog /\ overview' = overview
        /\ view' = [view EXCEPT ![k] = [name |-> listed[k], state |-> Status(k)]]
    BY <1>7 DEF TrayItem, ReadLock, channel
  <2>2. listed[k] \in Tunnels /\ Status(k) \in State /\ tray' \in 0 .. Items + 2
    BY <1>1, <1>3, <2>1, StatusType
  <2>3. /\ view' \in [1 .. Items -> [name : Tunnels, state : State]]
        /\ view'[k].name = listed[k] /\ view'[k].state = Status(k)
        /\ \A i \in 1 .. Items : i # k => view'[i] = view[i]
    BY <1>1, <2>1, <2>2 DEF TypeOK
  <2>4. TypeOK'
    BY <1>1, <1>2, <2>1, <2>2, <2>3 DEF TypeOK, Sups, Loops
  <2>5. CfgInv'
    <3>1. Deleted = 0 => \A i \in 1 .. Items : view'[i].name = i
      BY <1>1, <1>3, <2>1, <2>3 DEF CfgInv
    <3>2. QED BY <1>1, <1>2, <1>4, <2>1, <3>1 DEF CfgInv
  <2>6. Quiet' <=> Quiet
    BY <1>2, <1>3, <2>1 DEF Quiet
  <2>7. ViewInv'
    <3>1. \A i \in 1 .. Items : Past(i)' => Past(i) \/ i = k
      BY <1>3, <2>1 DEF Past
    <3>2. QED BY <1>1, <1>2, <1>4, <2>1, <2>3, <2>6, <3>1 DEF ViewInv
  <2>8. QED BY <1>2, <2>1, <2>4, <2>5, <2>7, OutsideKeepsInv
<1>8. CASE TrayDone
  <2>1. /\ tray >= 2 /\ (tray - 1 > Items \/ tray - 1 > Len(listed))
        /\ tray' = 0 /\ backlog' = backlog /\ UNCHANGED <<overview, view>>
    BY <1>8 DEF TrayDone, channel
  <2>2. TypeOK'
    BY <1>1, <1>2, <1>3, <2>1 DEF TypeOK, Sups, Loops
  <2>3. CfgInv'
    BY <1>1, <1>2, <1>4, <2>1 DEF CfgInv
  <2>4. Quiet' => Quiet
    BY <1>2, <1>3, <2>1 DEF Quiet
  <2>5. \A i \in 1 .. Items : i + Deleted <= Items => Past(i)
    BY <1>3, <1>8 DEF Past, Deleted, TrayDone
  <2>6. ViewInv'
    BY <1>1, <1>2, <1>4, <2>1, <2>4, <2>5 DEF ViewInv
  <2>7. QED BY <1>2, <2>2, <2>3, <2>4, <2>6, OutsideKeepsInv
<1>9. QED BY <1>5, <1>6, <1>7, <1>8

-----------------------------------------------------------------------------
(* The theorems. *)

LEMMA InvInit ==
  ASSUME Init
  PROVE  Inv
<1>1. /\ sup = << >> /\ loop = << >> /\ cancelled = {} /\ lock = None /\ requests = 0
      /\ sups = [t \in Tunnels |-> None] /\ call = [c \in Callers |-> NoCall]
      /\ listed = [i \in 1 .. Items |-> i] /\ created = Items /\ edits = 0
      /\ conf = [t \in Tunnels |-> IF t <= Items THEN 1 ELSE 0]
      /\ backlog = 0 /\ dropped = FALSE /\ tray = 0
      /\ overview = [t \in Tunnels |-> "stopped"]
      /\ view = [i \in 1 .. Items |-> [name |-> i, state |-> "stopped"]]
  BY DEF Init
<1>2. Sups = {} /\ Loops = {} /\ Len(sup) = 0 /\ Len(loop) = 0
      /\ sup \in Seq(SupType) /\ loop \in Seq(LoopType)
  BY <1>1 DEF Sups, Loops
<1>3. NoCall \in CallType /\ NoCall.phase = "idle" /\ NoCall.todo = {} /\ NoCall.waits = {}
  BY DEF NoCall, CallType
<1>4. /\ Items \in Nat /\ MaxCalls \in Nat /\ MaxEdits \in Nat /\ TrayBuffer \in Nat
      /\ None \notin Callers
  BY BoundTypes
<1>a. /\ \A i \in 1 .. Items : i \in Tunnels
      /\ \A t \in Tunnels : t \in Nat
  BY <1>4 DEF Tunnels
<1>b. Len(listed) = Items /\ listed \in Seq(Tunnels) /\ \A i \in 1 .. Items : listed[i] = i
  BY <1>1, <1>4, <1>a
<1>5. TypeOK
  <2>1. conf \in [Tunnels -> 0 .. MaxEdits + 1] /\ edits \in 0 .. MaxEdits
        /\ requests \in 0 .. MaxCalls /\ backlog \in 0 .. TrayBuffer
        /\ created \in Items .. Items + MaxEdits /\ tray \in 0 .. Items + 2
    BY <1>1, <1>4
  <2>2. call \in [Callers -> CallType] /\ overview \in [Tunnels -> State]
        /\ sups \in [Tunnels -> Sups \cup {None}]
    BY <1>1, <1>3 DEF State
  <2>3. view \in [1 .. Items -> [name : Tunnels, state : State]]
    BY <1>1, <1>a DEF State
  <2>4. QED BY <1>1, <1>2, <1>b, <2>1, <2>2, <2>3 DEF TypeOK
<1>6. Counted
  <2>1. Busy = {}
    BY <1>1, <1>3 DEF Busy
  <2>2. QED BY <1>1, <1>2, <2>1, FS_EmptySet DEF Counted
<1>7. Homes
  BY <1>1, <1>2 DEF Homes
<1>8. Holder
  BY <1>1, <1>3, <1>4 DEF Holder
<1>9. CancelInv
  BY <1>1, <1>2 DEF CancelInv
<1>10. StopInv
  BY <1>1, <1>3 DEF StopInv
<1>11. ViewInv
  BY <1>1, <1>a DEF ViewInv, Status
<1>12. CfgInv
  BY <1>1, <1>4, <1>a, <1>b DEF CfgInv
<1>13. QED BY <1>5, <1>6, <1>7, <1>8, <1>9, <1>10, <1>11, <1>12 DEF Inv

LEMMA InvStutter ==
  ASSUME Inv, UNCHANGED vars
  PROVE  Inv'
<1>1. UNCHANGED <<listed, conf, created, edits, sups, lock, call, requests, sup, loop, cancelled, backlog,
                  dropped, tray, overview, view>>
  BY DEF vars, config, engine, channel, display
<1>2. TypeOK'
  BY <1>1 DEF Inv, TypeOK, Sups, Loops
<1>3. StillSame /\ (Quiet' => Quiet)
  BY <1>1 DEF StillSame, channel, display, Quiet
<1>4. CfgInv' /\ ViewInv'
  BY <1>3, SameState DEF Inv
<1>5. QED BY <1>1, <1>2, <1>3, <1>4, OutsideKeepsInv

LEMMA InvStep ==
  ASSUME Inv, [Next]_vars
  PROVE  Inv'
<1>1. ASSUME NEW c \in Callers, CallStep(c)
      PROVE  Inv'
  BY <1>1, AcquireKeepsInv, StopKeepsInv, LeaveKeepsInv, StartNewKeepsInv, StartOldKeepsInv
  DEF CallStep
<1>2. QED BY <1>1, RequestKeepsInv, LoopKeepsInv, ConfigKeepsInv, TrayKeepsInv, InvStutter
          DEF Next

LEMMA Invariant == Spec => []Inv
<1>1. Init => Inv
  BY InvInit
<1>2. Inv /\ [Next]_vars => Inv'
  BY InvStep
<1>3. QED BY <1>1, <1>2, PTL DEF Spec

\* Every variable of the engine keeps its type, for every number of callers
\* and tunnels; in particular no call starts more than one loop
\* (engine.go:79-121).
THEOREM EngineTypeCorrect == Spec => []TypeOK
<1>1. Inv => TypeOK
  BY DEF Inv
<1>2. QED BY <1>1, Invariant, PTL

\* A supervisor that the engine dropped was told to stop if any loop of it is
\* left, however many calls, callers and tunnels there are and whenever their
\* contexts end (engine.go:66-121).
THEOREM NothingUnaccounted == Spec => []AccountedFor
<1>1. Inv => AccountedFor
  BY DEF Inv, AccountedFor, CancelInv, Homes, Home
<1>2. QED BY <1>1, Invariant, PTL

\* A tray that has read every event, none dropped, shows as soon as nobody holds
\* the lock the states of all tunnels in the configuration in its icon, and in
\* each item the state of its own tunnel, whatever is created, changed and
\* deleted meanwhile: all items until the first delete, and after it all but as
\* many at the end of the menu as tunnels were deleted (tray.go:153-168 against
\* engine.go:123-149; handler_tunnel.go:135-162 tells nobody).
THEOREM TrayNeverWrongInSilence == Spec => []TrayIsCurrent
<1>1. Inv => TrayIsCurrent
  BY DEF Inv, CfgInv, ViewInv, Past, TrayIsCurrent, Quiet
<1>2. QED BY <1>1, Invariant, PTL

\* The condition of RestartAppliesConfig for one caller.
Applies(c) ==
  (call[c].op = "restart" /\ call'[c].op = None /\ Len(loop') > Len(loop)) =>
    LET t == call[c].tunnel IN
    sups'[t] # None /\ sup'[sups'[t]].version = conf[t]

LEMMA RestartsApply ==
  ASSUME Inv, [Next]_vars, NEW c \in Callers
  PROVE  Applies(c)
<1>1. TypeOK /\ Counted /\ Homes /\ Holder /\ CancelInv /\ StopInv
  BY DEF Inv
<1>2. Len(loop) \in Nat /\ Len(sup) \in Nat /\ "restart" # None
  BY <1>1, Limits, NoneIsNoSupervisor DEF Op
<1>3. ASSUME Len(loop') = Len(loop)
      PROVE  Applies(c)
  BY <1>2, <1>3 DEF Applies
<1>4. ASSUME NEW d \in Callers, Return(d), c # d
      PROVE  Applies(c)
  <2>1. call' = [call EXCEPT ![d] = NoCall] /\ call \in [Callers -> CallType]
    BY <1>1, <1>4 DEF Return, TypeOK
  <2>2. call'[c] = call[c]
    BY <1>4, <2>1
  <2>3. QED BY <1>2, <2>2 DEF Applies
<1>5. CASE UNCHANGED vars
  BY <1>3, <1>5 DEF vars
<1>6. ASSUME NEW d \in Callers, Request(d)
      PROVE  Applies(c)
  BY <1>3, <1>6 DEF Request
<1>7. ASSUME NEW d \in Callers, CallStep(d)
      PROVE  Applies(c)
  <2>1. CASE Acquire(d)
    BY <1>3, <2>1 DEF Acquire
  <2>2. ASSUME NEW s \in Sups, StopBegin(d, s) \/ StopDone(d, s) \/ StopTimedOut(d, s)
        PROVE  Applies(c)
    BY <1>3, <2>2 DEF StopBegin, StopDone, StopTimedOut
  <2>3. CASE FinishStop(d) \/ Refuse(d)
    BY <1>3, <2>3 DEF FinishStop, Refuse
  <2>4. CASE StartNew(d)
    <3>1. Return(d)
      BY <2>4 DEF StartNew
    <3>2. CASE c = d
      <4> DEFINE u == call[c].tunnel
                 x == [tunnel |-> u, version |-> conf[u], state |-> "starting",
                       gen |-> Len(loop) + 1]
      <4>1. u \in Tunnels /\ Dropped(c) \in [Tunnels -> Sups \cup {None}]
        BY <1>1, <3>1, <3>2, Returned
      <4>2. sups' = [Dropped(c) EXCEPT ![u] = Len(sup) + 1] /\ sup' = Append(sup, x)
            /\ sup' \in Seq(SupType)
        <5>1. Inv'
          BY <2>4, StartNewKeepsInv
        <5>2. QED BY <2>4, <3>2, <5>1 DEF StartNew, Inv, TypeOK
      <4>3. sups'[u] = Len(sup) + 1
        BY <4>1, <4>2
      <4>4. sup \in Seq(SupType)
        BY <1>1 DEF TypeOK
      <4>5. x.version = conf[u]
        OBVIOUS
      <4> HIDE DEF x
      <4>6. sup'[Len(sup) + 1] = x
        BY <4>2, <4>4
      <4>7. Len(sup) + 1 # None
        BY <1>1, <2>4, <1>2, Limits, Returned, <3>1, BoundTypes DEF Counted
      <4>8. QED BY <4>3, <4>5, <4>6, <4>7 DEF Applies
    <3>3. QED BY <1>4, <3>1, <3>2
  <2>5. CASE StartOld(d)
    <3>1. Return(d) /\ call[d].op = "start"
      BY <1>1, <2>5, OnlyStartStartsOld DEF StartOld
    <3>2. QED BY <1>4, <3>1 DEF Applies
  <2>6. QED BY <1>7, <2>1, <2>2, <2>3, <2>4, <2>5 DEF CallStep
<1>8. ASSUME NEW g \in Loops, LoopStep(g) \/ Lost(g)
      PROVE  Applies(c)
  <2>1. LoopStepMade(g)
    BY <1>1, <1>8, LoopSteps DEF CancelInv
  <2>2. QED BY <1>3, <2>1 DEF LoopStepMade, LoopsKept
<1>9. ASSUME Create \/ (\E t : Edit(t)) \/ (\E i : Delete(i))
      PROVE  Applies(c)
  BY <1>3, <1>9 DEF Create, Edit, Delete
<1>10. CASE TrayReceive \/ TrayList \/ (\E i : TrayItem(i)) \/ TrayDone
  BY <1>3, <1>10 DEF TrayReceive, TrayList, TrayItem, TrayDone
<1>11. QED BY <1>5, <1>6, <1>7, <1>8, <1>9, <1>10 DEF Next

\* A restart runs the configuration of its moment, whatever was edited before
\* and whoever else is calling (engine.go:105-121).
THEOREM RestartRunsCurrent == Spec => RestartAppliesConfig
<1>1. Inv /\ [Next]_vars => [\A c \in Callers : Applies(c)]_vars
  BY RestartsApply
<1>2. [\A c \in Callers : Applies(c)]_vars <=>
      [\A c \in Callers :
         (call[c].op = "restart" /\ call'[c].op = None /\ Len(loop') > Len(loop)) =>
           LET t == call[c].tunnel IN
           sups'[t] # None /\ sup'[sups'[t]].version = conf[t]]_vars
  BY DEF Applies
<1>3. QED BY <1>1, <1>2, Invariant, PTL DEF Spec, RestartAppliesConfig
=============================================================================
