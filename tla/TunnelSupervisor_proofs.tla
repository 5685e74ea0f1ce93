------------------------- MODULE TunnelSupervisor_proofs -------------------------
(***************************************************************************)
(* Proofs about TunnelSupervisor, for every value of its constants.        *)
(*                                                                         *)
(* They are about every behaviour, those in which a Start is let in beside *)
(* a loop that has not ended included: what is promised until that happens *)
(* says so in the property itself (Alone).  Only type correctness and the  *)
(* policy's word on automatic restarts outlive it.                         *)
(***************************************************************************)
EXTENDS TunnelSupervisor, TLAPS

-----------------------------------------------------------------------------
(* Type correctness. *)

\* What keeps TypeOK: a loop exists only after a Start, knows its channel once
\* it has begun to build, and has a forwarder in hand when it waits for one.
TypeInv ==
  /\ TypeOK
  /\ state # "stopped" => gen # 0
  /\ \A g \in Loops :
       /\ pc[g] # "none" => gen # 0
       /\ pc[g] \notin {"none", "build"} => doneCh[g] # 0
       /\ pc[g] = "drain" => next[g] > 0
       /\ pc[g] = "backoff" => policy.autoRestart

-----------------------------------------------------------------------------
(* The inductive invariant, which holds until a Start overlaps a loop. *)

\* Only the loop of the last Start can be alive.
OneLoop ==
  \A g \in Loops :
    /\ g < gen => pc[g] = "done"
    /\ g = gen => pc[g] # "none"
    /\ g > gen => pc[g] = "none"

\* Contexts and channels belong to the loop of the Start that made them.
SignalsInv ==
  /\ cancelled \subseteq {gen}
  /\ caller = "idle" <=> gen \notin cancelled
  /\ \A g \in closed : pc[g] = "done"
  /\ caller = "stopped" => state = "stopped" /\ gen \in closed
  /\ \A g \in Loops :
       /\ pc[g] \notin {"none", "build"} => doneCh[g] = g
       /\ pc[g] = "build" => doneCh[g] \in {0, g}
       /\ pc[g] = "none" => doneCh[g] = 0
       /\ pc[g] = "run" => ctx[g] = g

\* Which chain and which forwarders a loop holds, place by place.
HandlesInv ==
  \A g \in Loops :
    /\ pc[g] \in {"none", "build", "dial", "connect", "chainErr", "chainFail",
                  "clear", "check", "aborted", "retry", "backoff", "exit",
                  "done"} => g \notin chainOpen
    /\ pc[g] \in {"forward", "run", "cleanup"} => g \in chainOpen
    /\ pc[g] \in {"forward", "rollback", "drain", "run", "cleanup"} => chain = g
    /\ pc[g] \in {"run", "cleanup"} => fwds = g
    /\ pc[g] = "stopFwds" => seen[g].chain = g /\ seen[g].fwds = g

\* Which ports a loop listens on, place by place.
PortsInv ==
  \A g \in Loops, m \in Mapping :
    /\ port[m] = g => pc[g] \in {"forward", "rollback", "drain", "run",
                                 "cleanup", "stopFwds"}
    /\ pc[g] \in {"forward", "drain"} => (port[m] = g <=> m < next[g])
    /\ pc[g] \in {"rollback", "stopFwds"} => (port[m] = g <=> m <= next[g])
    /\ pc[g] \in {"run", "cleanup"} => port[m] = g

\* What is shown of the tunnel, against where its loop is.
ShownInv ==
  /\ mismatch => state \notin {"running", "degraded"}
  /\ state = "error" => lastErr # "none"
  /\ \A g \in Loops :
       /\ pc[g] \in {"build", "dial", "connect", "chainErr", "chainFail",
                     "forward", "rollback", "drain"} => state # "error"
       /\ pc[g] \in {"chainErr", "chainFail"} => why[g] \in {"chain", "hostKey"}
       /\ pc[g] \in {"run", "cleanup", "stopFwds", "clear", "check",
                     "closeChain", "retry", "backoff"} => ~mismatch
       /\ pc[g] \in {"closeChain", "retry"} => lastErr # "none"
       /\ pc[g] \in {"cleanup", "stopFwds", "clear", "check"} =>
            lastErr # "none" \/ gen \in cancelled
       /\ pc[g] = "aborted" => state # "error" \/ ~mismatch
       /\ pc[g] = "backoff" =>
            policy.autoRestart /\ recent < MaxRestartsPerHour
       /\ (g = gen /\ state = "running" /\ gen \notin cancelled) =>
            pc[g] = "run"
       /\ (g = gen /\ state = "error" /\ mismatch) => pc[g] \in {"exit", "done"}

LoopInv == OneLoop /\ SignalsInv /\ HandlesInv /\ PortsInv /\ ShownInv

IInv == TypeInv /\ (Alone => LoopInv)

(* TypeInv is kept by each family of steps. *)

LEMMA TypeInvEngineCall ==
  ASSUME TypeInv, EngineCall
  PROVE  TypeInv'
<1> USE ConstantsAssumption DEF TypeInv, TypeOK, Goto, Transition, quiet,
   outer, shown, handles,
         own, world
<1>1. CASE Start
  <2>1. gen + 1 \in Loops /\ gen' \in 0 .. MaxStarts /\ gen' # 0
    BY <1>1 DEF Start, Loops
  <2>2. pc' \in [Loops -> Label]
    BY <1>1, <2>1 DEF Start, Label
  <2>3. \A g \in Loops : pc'[g] \notin {"none", "build"} => pc'[g] = pc[g]
    BY <1>1, <2>1 DEF Start
  <2>4. \A g \in Loops : pc'[g] = "drain" => pc[g] = "drain"
    BY <1>1, <2>1 DEF Start
  <2> QED
    BY <1>1, <2>1, <2>2, <2>3, <2>4 DEF Start, TunnelState
<1>2. CASE StopBegin
  <2>1. gen \in Loops
    BY <1>2 DEF StopBegin, Loops
  <2> QED
    BY <1>2, <2>1 DEF StopBegin, TunnelState
<1>3. CASE StopDone
  BY <1>3 DEF StopDone, LoopSignalled, TunnelState
<1>4. CASE StopTimedOut
  BY <1>4 DEF StopTimedOut
<1> QED
  BY <1>1, <1>2, <1>3, <1>4 DEF EngineCall

LEMMA TypeInvBuildStep ==
  ASSUME TypeInv, NEW g \in Loops, BuildStep(g)
  PROVE  TypeInv'
<1> USE ConstantsAssumption DEF TypeInv, TypeOK, Goto, Transition, quiet,
   outer, shown, handles,
         own, world
<1>1. CASE BuildBegin(g)
  BY <1>1 DEF BuildBegin, DoneChannel, Label, Loops
<1>2. CASE Dialled(g)
  BY <1>2 DEF Dialled, CtxDone, Label
<1>3. CASE ChainUp(g)
  BY <1>3 DEF ChainUp, Label, None
<1>4. CASE ChainFailed(g)
  BY <1>4 DEF ChainFailed, Label, Cause
<1>5. CASE CheckCancelled(g)
  BY <1>5 DEF CheckCancelled, LoopCtxDone, Label
<1>6. CASE ReportChainError(g)
  BY <1>6 DEF ReportChainError, AfterChainError, Label, Cause, TunnelState
<1> QED
  BY <1>1, <1>2, <1>3, <1>4, <1>5, <1>6 DEF BuildStep

LEMMA TypeInvForwardStep ==
  ASSUME TypeInv, NEW g \in Loops, ForwardStep(g)
  PROVE  TypeInv'
<1> USE ConstantsAssumption DEF TypeInv, TypeOK, Goto, Transition, quiet,
   outer, shown, handles,
         own, world
<1>1. CASE StartForward(g)
  <2>1. next' \in [Loops -> 0 .. Mappings + 1]
    BY <1>1, SMTT(30) DEF StartForward, Mapping
  <2>2. port' \in [Mapping -> Loops \cup {None}]
    BY <1>1 DEF StartForward
  <2>3. \A h \in Loops : pc[h] = "drain" => next'[h] = next[h]
    BY <1>1 DEF StartForward
  <2> QED
    BY <1>1, <2>1, <2>2, <2>3 DEF StartForward
<1>2. CASE ForwardFailed(g)
  BY <1>2, SMTT(30) DEF ForwardFailed, Label, Mapping, Cause
<1>3. CASE RollbackForward(g)
  BY <1>3 DEF RollbackForward, Label
<1>4. CASE DrainCancelled(g)
  BY <1>4 DEF DrainCancelled, Drained, CtxDone, Label
<1>5. CASE ReportForwardError(g)
  BY <1>5 DEF ReportForwardError, Label, Cause, TunnelState, None
<1>6. CASE CloseFailedChain(g)
  BY <1>6 DEF CloseFailedChain, Label
<1>7. CASE Running(g)
  BY <1>7 DEF Running, ReportUp, Label, Cause, TunnelState
<1> QED
  BY <1>1, <1>2, <1>3, <1>4, <1>5, <1>6, <1>7 DEF ForwardStep

LEMMA TypeInvCleanupStep ==
  ASSUME TypeInv, NEW g \in Loops, CleanupStep(g)
  PROVE  TypeInv'
<1> USE ConstantsAssumption DEF TypeInv, TypeOK, Goto, Transition, quiet,
   outer, shown, handles,
         own, world
<1>1. CASE StopSeen(g)
  BY <1>1 DEF StopSeen, CtxDone, Label, Cause
<1>2. CASE ReadHandles(g)
  BY <1>2 DEF ReadHandles, Label, HandlesType, None
<1>3. CASE StopForward(g)
  <2>1. next' \in [Loops -> 0 .. Mappings + 1]
    BY <1>3 DEF StopForward
  <2>2. port' \in [Mapping -> Loops \cup {None}]
    BY <1>3 DEF StopForward, PortsWithout
  <2>3. \A h \in Loops : pc[h] = "drain" => next'[h] = next[h]
    BY <1>3 DEF StopForward
  <2> QED
    BY <1>3, <2>1, <2>2, <2>3 DEF StopForward
<1>4. CASE CloseChain(g)
  BY <1>4 DEF CloseChain, Label
<1>5. CASE ClearHandles(g)
  BY <1>5 DEF ClearHandles, Label, None
<1>6. CASE CheckAfterRun(g)
  BY <1>6 DEF CheckAfterRun, LoopCtxDone, Label
<1>7. CASE Abort(g)
  BY <1>7 DEF Abort, Label, TunnelState
<1> QED
  BY <1>1, <1>2, <1>3, <1>4, <1>5, <1>6, <1>7 DEF CleanupStep

LEMMA TypeInvRestartStep ==
  ASSUME TypeInv, NEW g \in Loops, RestartStep(g)
  PROVE  TypeInv'
<1> USE ConstantsAssumption DEF TypeInv, TypeOK, Goto, Transition, quiet,
   outer, shown, handles,
         own, world
<1>1. CASE NoAutoRestart(g)
  BY <1>1 DEF NoAutoRestart, GiveUp, AfterRun, RestartsWanted, Label,
     TunnelState
<1>2. CASE RateLimited(g)
  BY <1>2 DEF RateLimited, GiveUp, AfterRun, RestartsWanted, RestartRecorded,
     Label, TunnelState, Cause
<1>3. CASE BackOff(g)
  BY <1>3 DEF BackOff, RestartsWanted, RestartRecorded, Label
<1>4. CASE BackoffElapsed(g)
  BY <1>4 DEF BackoffElapsed, Label, TunnelState
<1>5. CASE BackoffCancelled(g)
  BY <1>5 DEF BackoffCancelled, CtxDone, Label, TunnelState
<1>6. CASE Exit(g)
  <2>1. doneCh[g] \in 0 .. MaxStarts /\ doneCh[g] # 0
    BY <1>6 DEF Exit
  <2>2. doneCh[g] \in Loops
    BY ConstantsAssumption, <2>1 DEF Loops
  <2> QED
    BY <1>6, <2>2 DEF Exit, SignalDone, Label
<1> QED
  BY <1>1, <1>2, <1>3, <1>4, <1>5, <1>6 DEF RestartStep

LEMMA TypeInvOutsideStep ==
  ASSUME TypeInv, NEW g \in Loops, OutsideStep(g)
  PROVE  TypeInv'
<1> USE ConstantsAssumption DEF TypeInv, TypeOK, Goto, Transition, quiet,
   outer, shown, handles,
         own, world
<1>1. CASE ClientsLeft(g)
  BY <1>1 DEF ClientsLeft, Drained, Label
<1>2. CASE KeepAliveLost(g)
  BY <1>2 DEF KeepAliveLost, ReportLost, Label, TunnelState, Cause
<1> QED
  BY <1>1, <1>2 DEF OutsideStep

LEMMA TypeInvInit ==
  ASSUME Init
  PROVE  TypeInv
<1> USE DEF Init
<1>1. 0 \in 0 .. MaxStarts /\ 0 \in 0 .. MaxOverlaps /\ 0 \in 0 .. Mappings + 1
  BY ConstantsAssumption
<1>2. seen \in [Loops -> HandlesType]
  BY DEF HandlesType
<1>3. /\ state \in TunnelState /\ lastErr \in Cause
      /\ pc \in [Loops -> Label] /\ why \in [Loops -> Cause]
  BY DEF TunnelState, Cause, Label
<1>4. TypeOK
  BY <1>1, <1>2, <1>3 DEF TypeOK
<1>5. \A g \in Loops : pc[g] = "none"
  OBVIOUS
<1> QED
  BY <1>4, <1>5 DEF TypeInv

LEMMA TypeInvNext ==
  ASSUME TypeInv, [Next]_vars
  PROVE  TypeInv'
<1>1. CASE EngineCall
  BY <1>1, TypeInvEngineCall
<1>2. ASSUME NEW g \in Loops, LoopStep(g) \/ OutsideStep(g)
      PROVE  TypeInv'
  BY <1>2, TypeInvBuildStep, TypeInvForwardStep, TypeInvCleanupStep,
     TypeInvRestartStep, TypeInvOutsideStep DEF LoopStep
<1>3. CASE UNCHANGED vars
  BY <1>3 DEF TypeInv, TypeOK, vars, outer, shown, handles, own, world
<1> QED
  BY <1>1, <1>2, <1>3 DEF Next

LEMMA TypeInvariance == Spec => []TypeInv
<1>1. Init => TypeInv
  BY TypeInvInit
<1>2. TypeInv /\ [Next]_vars => TypeInv'
  BY TypeInvNext
<1> QED
  BY <1>1, <1>2, PTL DEF Spec

\* Every variable keeps its type, for any caller.
THEOREM TypeCorrect == Spec => []TypeOK
<1>1. TypeInv => TypeOK
  BY DEF TypeInv
<1> QED
  BY <1>1, TypeInvariance, PTL

-----------------------------------------------------------------------------
(* Only the loop of the last Start takes steps. *)

\* A step of a loop is a step of a goroutine that exists and has not ended.
LEMMA LoopPlace ==
  ASSUME TypeInv, NEW g \in Loops, LoopStep(g) \/ OutsideStep(g)
  PROVE  pc[g] \notin {"none", "done"}
<1> USE DEF Transition
<1>1. CASE BuildStep(g)
  BY <1>1 DEF BuildStep, BuildBegin, Dialled, ChainUp, ChainFailed,
     CheckCancelled, ReportChainError
<1>2. CASE ForwardStep(g)
  BY <1>2 DEF ForwardStep, StartForward, ForwardFailed, RollbackForward,
     DrainCancelled, Drained, ReportForwardError, CloseFailedChain, Running
<1>3. CASE CleanupStep(g)
  BY <1>3 DEF CleanupStep, StopSeen, ReadHandles, StopForward, CloseChain,
     ClearHandles, CheckAfterRun, Abort
<1>4. CASE RestartStep(g)
  BY <1>4 DEF RestartStep, NoAutoRestart, RateLimited, BackOff, BackoffElapsed,
     BackoffCancelled, Exit
<1>5. CASE OutsideStep(g)
  BY <1>5 DEF OutsideStep, ClientsLeft, Drained, KeepAliveLost
<1> QED
  BY <1>1, <1>2, <1>3, <1>4, <1>5 DEF LoopStep

\* The loop that takes a step is the newest one, and Stop has not returned.
LEMMA LoopAlive ==
  ASSUME TypeInv, OneLoop, SignalsInv,
         NEW g \in Loops, LoopStep(g) \/ OutsideStep(g)
  PROVE  g = gen /\ caller # "stopped"
<1>1. pc[g] \notin {"none", "done"}
  BY LoopPlace
<1>2. g = gen
  BY <1>1 DEF OneLoop, TypeInv, TypeOK, Loops
<1> QED
  BY <1>1, <1>2 DEF SignalsInv

\* At its exit a loop can only close its channel.
LEMMA ExitOnly ==
  ASSUME TypeInv, NEW g \in Loops, LoopStep(g) \/ OutsideStep(g),
         pc[g] = "exit"
  PROVE  Exit(g)
<1> USE DEF Transition
<1>1. CASE BuildStep(g)
  BY <1>1 DEF BuildStep, BuildBegin, Dialled, ChainUp, ChainFailed,
     CheckCancelled, ReportChainError
<1>2. CASE ForwardStep(g)
  BY <1>2 DEF ForwardStep, StartForward, ForwardFailed, RollbackForward,
     DrainCancelled, Drained, ReportForwardError, CloseFailedChain, Running
<1>3. CASE CleanupStep(g)
  BY <1>3 DEF CleanupStep, StopSeen, ReadHandles, StopForward, CloseChain,
     ClearHandles, CheckAfterRun, Abort
<1>4. CASE RestartStep(g)
  BY <1>4 DEF RestartStep, NoAutoRestart, RateLimited, BackOff, BackoffElapsed,
     BackoffCancelled
<1>5. CASE OutsideStep(g)
  BY <1>5 DEF OutsideStep, ClientsLeft, Drained, KeepAliveLost
<1> QED
  BY <1>1, <1>2, <1>3, <1>4, <1>5 DEF LoopStep

(* Each family of steps leaves at most the last loop alive. *)

LEMMA OneLoopEngineCall ==
  ASSUME Alone', TypeInv, OneLoop, SignalsInv, EngineCall
  PROVE  OneLoop'
<1> USE DEF TypeInv, TypeOK, OneLoop, SignalsInv, Goto, Transition,
         quiet, outer, shown, handles, own, world
<1>1. CASE Start
  BY <1>1 DEF Start, LoopLeft, Alone, Loops
<1>2. CASE StopBegin
  BY <1>2 DEF StopBegin
<1>3. CASE StopDone
  BY <1>3 DEF StopDone, LoopSignalled
<1>4. CASE StopTimedOut
  BY <1>4 DEF StopTimedOut
<1> QED
  BY <1>1, <1>2, <1>3, <1>4 DEF EngineCall

LEMMA OneLoopBuildStep ==
  ASSUME Alone', TypeInv, OneLoop, SignalsInv, NEW g \in Loops, BuildStep(g)
  PROVE  OneLoop'
<1> USE DEF TypeInv, TypeOK, OneLoop, SignalsInv, Goto, Transition,
         quiet, outer, shown, handles, own, world
<1>0. g = gen /\ caller # "stopped"
  BY LoopAlive DEF LoopStep
<1>1. CASE BuildBegin(g)
  BY <1>0, <1>1 DEF BuildBegin, DoneChannel
<1>2. CASE Dialled(g)
  BY <1>0, <1>2 DEF Dialled, CtxDone
<1>3. CASE ChainUp(g)
  BY <1>0, <1>3 DEF ChainUp
<1>4. CASE ChainFailed(g)
  BY <1>0, <1>4 DEF ChainFailed
<1>5. CASE CheckCancelled(g)
  BY <1>0, <1>5 DEF CheckCancelled, LoopCtxDone
<1>6. CASE ReportChainError(g)
  BY <1>0, <1>6 DEF ReportChainError, AfterChainError
<1> QED
  BY <1>1, <1>2, <1>3, <1>4, <1>5, <1>6 DEF BuildStep

LEMMA OneLoopForwardStep ==
  ASSUME Alone', TypeInv, OneLoop, SignalsInv,
         NEW g \in Loops, ForwardStep(g)
  PROVE  OneLoop'
<1> USE DEF TypeInv, TypeOK, OneLoop, SignalsInv, Goto, Transition,
         quiet, outer, shown, handles, own, world
<1>0. g = gen /\ caller # "stopped"
  BY LoopAlive DEF LoopStep
<1>1. CASE StartForward(g)
  BY <1>0, <1>1 DEF StartForward
<1>2. CASE ForwardFailed(g)
  BY <1>0, <1>2 DEF ForwardFailed
<1>3. CASE RollbackForward(g)
  BY <1>0, <1>3 DEF RollbackForward
<1>4. CASE DrainCancelled(g)
  BY <1>0, <1>4 DEF DrainCancelled, Drained, CtxDone
<1>5. CASE ReportForwardError(g)
  BY <1>0, <1>5 DEF ReportForwardError
<1>6. CASE CloseFailedChain(g)
  BY <1>0, <1>6 DEF CloseFailedChain
<1>7. CASE Running(g)
  BY <1>0, <1>7 DEF Running, ReportUp
<1> QED
  BY <1>1, <1>2, <1>3, <1>4, <1>5, <1>6, <1>7 DEF ForwardStep

LEMMA OneLoopCleanupStep ==
  ASSUME Alone', TypeInv, OneLoop, SignalsInv,
         NEW g \in Loops, CleanupStep(g)
  PROVE  OneLoop'
<1> USE DEF TypeInv, TypeOK, OneLoop, SignalsInv, Goto, Transition,
         quiet, outer, shown, handles, own, world
<1>0. g = gen /\ caller # "stopped"
  BY LoopAlive DEF LoopStep
<1>1. CASE StopSeen(g)
  BY <1>0, <1>1 DEF StopSeen, CtxDone
<1>2. CASE ReadHandles(g)
  BY <1>0, <1>2 DEF ReadHandles
<1>3. CASE StopForward(g)
  BY <1>0, <1>3 DEF StopForward, PortsWithout
<1>4. CASE CloseChain(g)
  BY <1>0, <1>4 DEF CloseChain
<1>5. CASE ClearHandles(g)
  BY <1>0, <1>5 DEF ClearHandles
<1>6. CASE CheckAfterRun(g)
  BY <1>0, <1>6 DEF CheckAfterRun, LoopCtxDone
<1>7. CASE Abort(g)
  BY <1>0, <1>7 DEF Abort
<1> QED
  BY <1>1, <1>2, <1>3, <1>4, <1>5, <1>6, <1>7 DEF CleanupStep

LEMMA OneLoopRestartStep ==
  ASSUME Alone', TypeInv, OneLoop, SignalsInv,
         NEW g \in Loops, RestartStep(g)
  PROVE  OneLoop'
<1> USE DEF TypeInv, TypeOK, OneLoop, SignalsInv, Goto, Transition,
         quiet, outer, shown, handles, own, world
<1>0. g = gen /\ caller # "stopped"
  BY LoopAlive DEF LoopStep
<1>1. CASE NoAutoRestart(g)
  BY <1>0, <1>1 DEF NoAutoRestart, GiveUp, AfterRun, RestartsWanted
<1>2. CASE RateLimited(g)
  BY <1>0, <1>2 DEF RateLimited, GiveUp, AfterRun, RestartsWanted,
     RestartRecorded
<1>3. CASE BackOff(g)
  BY <1>0, <1>3 DEF BackOff, RestartsWanted, RestartRecorded
<1>4. CASE BackoffElapsed(g)
  BY <1>0, <1>4 DEF BackoffElapsed
<1>5. CASE BackoffCancelled(g)
  BY <1>0, <1>5 DEF BackoffCancelled, CtxDone
<1>6. CASE Exit(g)
  BY <1>0, <1>6 DEF Exit, SignalDone
<1> QED
  BY <1>1, <1>2, <1>3, <1>4, <1>5, <1>6 DEF RestartStep

LEMMA OneLoopOutsideStep ==
  ASSUME Alone', TypeInv, OneLoop, SignalsInv,
         NEW g \in Loops, OutsideStep(g)
  PROVE  OneLoop'
<1> USE DEF TypeInv, TypeOK, OneLoop, SignalsInv, Goto, Transition,
         quiet, outer, shown, handles, own, world
<1>0. g = gen /\ caller # "stopped"
  BY LoopAlive DEF LoopStep
<1>1. CASE ClientsLeft(g)
  BY <1>0, <1>1 DEF ClientsLeft, Drained
<1>2. CASE KeepAliveLost(g)
  BY <1>0, <1>2 DEF KeepAliveLost, ReportLost
<1> QED
  BY <1>1, <1>2 DEF OutsideStep

(* Each family of steps keeps contexts and channels with their loop. *)

LEMMA SignalsInvEngineCall ==
  ASSUME Alone', TypeInv, OneLoop, SignalsInv, EngineCall
  PROVE  SignalsInv'
<1> USE DEF TypeInv, TypeOK, OneLoop, SignalsInv, Goto, Transition,
         quiet, outer, shown, handles, own, world
<1>1. CASE Start
  BY <1>1 DEF Start
<1>2. CASE StopBegin
  BY <1>2 DEF StopBegin
<1>3. CASE StopDone
  BY <1>3 DEF StopDone, LoopSignalled
<1>4. CASE StopTimedOut
  BY <1>4 DEF StopTimedOut
<1> QED
  BY <1>1, <1>2, <1>3, <1>4 DEF EngineCall

LEMMA SignalsInvBuildStep ==
  ASSUME Alone', TypeInv, OneLoop, SignalsInv, NEW g \in Loops, BuildStep(g)
  PROVE  SignalsInv'
<1> USE DEF TypeInv, TypeOK, OneLoop, SignalsInv, Goto, Transition,
         quiet, outer, shown, handles, own, world
<1>0. g = gen /\ caller # "stopped"
  BY LoopAlive DEF LoopStep
<1>1. CASE BuildBegin(g)
  BY <1>0, <1>1 DEF BuildBegin, DoneChannel
<1>2. CASE Dialled(g)
  BY <1>0, <1>2 DEF Dialled, CtxDone
<1>3. CASE ChainUp(g)
  BY <1>0, <1>3 DEF ChainUp
<1>4. CASE ChainFailed(g)
  BY <1>0, <1>4 DEF ChainFailed
<1>5. CASE CheckCancelled(g)
  BY <1>0, <1>5 DEF CheckCancelled, LoopCtxDone
<1>6. CASE ReportChainError(g)
  BY <1>0, <1>6 DEF ReportChainError, AfterChainError
<1> QED
  BY <1>1, <1>2, <1>3, <1>4, <1>5, <1>6 DEF BuildStep

LEMMA SignalsInvForwardStep ==
  ASSUME Alone', TypeInv, OneLoop, SignalsInv,
         NEW g \in Loops, ForwardStep(g)
  PROVE  SignalsInv'
<1> USE DEF TypeInv, TypeOK, OneLoop, SignalsInv, Goto, Transition,
         quiet, outer, shown, handles, own, world
<1>0. g = gen /\ caller # "stopped"
  BY LoopAlive DEF LoopStep
<1>1. CASE StartForward(g)
  BY <1>0, <1>1 DEF StartForward
<1>2. CASE ForwardFailed(g)
  BY <1>0, <1>2 DEF ForwardFailed
<1>3. CASE RollbackForward(g)
  BY <1>0, <1>3 DEF RollbackForward
<1>4. CASE DrainCancelled(g)
  BY <1>0, <1>4 DEF DrainCancelled, Drained, CtxDone
<1>5. CASE ReportForwardError(g)
  BY <1>0, <1>5 DEF ReportForwardError
<1>6. CASE CloseFailedChain(g)
  BY <1>0, <1>6 DEF CloseFailedChain
<1>7. CASE Running(g)
  BY <1>0, <1>7 DEF Running, ReportUp
<1> QED
  BY <1>1, <1>2, <1>3, <1>4, <1>5, <1>6, <1>7 DEF ForwardStep

LEMMA SignalsInvCleanupStep ==
  ASSUME Alone', TypeInv, OneLoop, SignalsInv,
         NEW g \in Loops, CleanupStep(g)
  PROVE  SignalsInv'
<1> USE DEF TypeInv, TypeOK, OneLoop, SignalsInv, Goto, Transition,
         quiet, outer, shown, handles, own, world
<1>0. g = gen /\ caller # "stopped"
  BY LoopAlive DEF LoopStep
<1>1. CASE StopSeen(g)
  BY <1>0, <1>1 DEF StopSeen, CtxDone
<1>2. CASE ReadHandles(g)
  BY <1>0, <1>2 DEF ReadHandles
<1>3. CASE StopForward(g)
  BY <1>0, <1>3 DEF StopForward, PortsWithout
<1>4. CASE CloseChain(g)
  BY <1>0, <1>4 DEF CloseChain
<1>5. CASE ClearHandles(g)
  BY <1>0, <1>5 DEF ClearHandles
<1>6. CASE CheckAfterRun(g)
  BY <1>0, <1>6 DEF CheckAfterRun, LoopCtxDone
<1>7. CASE Abort(g)
  BY <1>0, <1>7 DEF Abort
<1> QED
  BY <1>1, <1>2, <1>3, <1>4, <1>5, <1>6, <1>7 DEF CleanupStep

LEMMA SignalsInvRestartStep ==
  ASSUME Alone', TypeInv, OneLoop, SignalsInv,
         NEW g \in Loops, RestartStep(g)
  PROVE  SignalsInv'
<1> USE DEF TypeInv, TypeOK, OneLoop, SignalsInv, Goto, Transition,
         quiet, outer, shown, handles, own, world
<1>0. g = gen /\ caller # "stopped"
  BY LoopAlive DEF LoopStep
<1>1. CASE NoAutoRestart(g)
  BY <1>0, <1>1 DEF NoAutoRestart, GiveUp, AfterRun, RestartsWanted
<1>2. CASE RateLimited(g)
  BY <1>0, <1>2 DEF RateLimited, GiveUp, AfterRun, RestartsWanted,
     RestartRecorded
<1>3. CASE BackOff(g)
  BY <1>0, <1>3 DEF BackOff, RestartsWanted, RestartRecorded
<1>4. CASE BackoffElapsed(g)
  BY <1>0, <1>4 DEF BackoffElapsed
<1>5. CASE BackoffCancelled(g)
  BY <1>0, <1>5 DEF BackoffCancelled, CtxDone
<1>6. CASE Exit(g)
  BY <1>0, <1>6 DEF Exit, SignalDone
<1> QED
  BY <1>1, <1>2, <1>3, <1>4, <1>5, <1>6 DEF RestartStep

LEMMA SignalsInvOutsideStep ==
  ASSUME Alone', TypeInv, OneLoop, SignalsInv,
         NEW g \in Loops, OutsideStep(g)
  PROVE  SignalsInv'
<1> USE DEF TypeInv, TypeOK, OneLoop, SignalsInv, Goto, Transition,
         quiet, outer, shown, handles, own, world
<1>0. g = gen /\ caller # "stopped"
  BY LoopAlive DEF LoopStep
<1>1. CASE ClientsLeft(g)
  BY <1>0, <1>1 DEF ClientsLeft, Drained
<1>2. CASE KeepAliveLost(g)
  BY <1>0, <1>2 DEF KeepAliveLost, ReportLost
<1> QED
  BY <1>1, <1>2 DEF OutsideStep

(* Each family of steps keeps chains and handles with their loop. *)

LEMMA HandlesInvEngineCall ==
  ASSUME Alone', TypeInv, OneLoop, SignalsInv, HandlesInv, EngineCall
  PROVE  HandlesInv'
<1> USE DEF TypeInv, TypeOK, OneLoop, SignalsInv, HandlesInv, Goto, Transition,
         quiet, outer, shown, handles, own, world
<1>1. CASE Start
  BY <1>1 DEF Start
<1>2. CASE StopBegin
  BY <1>2 DEF StopBegin
<1>3. CASE StopDone
  BY <1>3 DEF StopDone, LoopSignalled
<1>4. CASE StopTimedOut
  BY <1>4 DEF StopTimedOut
<1> QED
  BY <1>1, <1>2, <1>3, <1>4 DEF EngineCall

LEMMA HandlesInvBuildStep ==
  ASSUME Alone', TypeInv, OneLoop, SignalsInv, HandlesInv,
         NEW g \in Loops, BuildStep(g)
  PROVE  HandlesInv'
<1> USE DEF TypeInv, TypeOK, OneLoop, SignalsInv, HandlesInv, Goto, Transition,
         quiet, outer, shown, handles, own, world
<1>0. g = gen /\ caller # "stopped"
  BY LoopAlive DEF LoopStep
<1>1. CASE BuildBegin(g)
  BY <1>0, <1>1 DEF BuildBegin, DoneChannel
<1>2. CASE Dialled(g)
  BY <1>0, <1>2 DEF Dialled, CtxDone
<1>3. CASE ChainUp(g)
  BY <1>0, <1>3 DEF ChainUp
<1>4. CASE ChainFailed(g)
  BY <1>0, <1>4 DEF ChainFailed
<1>5. CASE CheckCancelled(g)
  BY <1>0, <1>5 DEF CheckCancelled, LoopCtxDone
<1>6. CASE ReportChainError(g)
  BY <1>0, <1>6 DEF ReportChainError, AfterChainError
<1> QED
  BY <1>1, <1>2, <1>3, <1>4, <1>5, <1>6 DEF BuildStep

LEMMA HandlesInvForwardStep ==
  ASSUME Alone', TypeInv, OneLoop, SignalsInv, HandlesInv,
         NEW g \in Loops, ForwardStep(g)
  PROVE  HandlesInv'
<1> USE DEF TypeInv, TypeOK, OneLoop, SignalsInv, HandlesInv, Goto, Transition,
         quiet, outer, shown, handles, own, world
<1>0. g = gen /\ caller # "stopped"
  BY LoopAlive DEF LoopStep
<1>1. CASE StartForward(g)
  BY <1>0, <1>1 DEF StartForward
<1>2. CASE ForwardFailed(g)
  BY <1>0, <1>2 DEF ForwardFailed
<1>3. CASE RollbackForward(g)
  BY <1>0, <1>3 DEF RollbackForward
<1>4. CASE DrainCancelled(g)
  BY <1>0, <1>4 DEF DrainCancelled, Drained, CtxDone
<1>5. CASE ReportForwardError(g)
  BY <1>0, <1>5 DEF ReportForwardError
<1>6. CASE CloseFailedChain(g)
  BY <1>0, <1>6 DEF CloseFailedChain
<1>7. CASE Running(g)
  BY <1>0, <1>7 DEF Running, ReportUp
<1> QED
  BY <1>1, <1>2, <1>3, <1>4, <1>5, <1>6, <1>7 DEF ForwardStep

LEMMA HandlesInvCleanupStep ==
  ASSUME Alone', TypeInv, OneLoop, SignalsInv, HandlesInv,
         NEW g \in Loops, CleanupStep(g)
  PROVE  HandlesInv'
<1> USE DEF TypeInv, TypeOK, OneLoop, SignalsInv, HandlesInv, Goto, Transition,
         quiet, outer, shown, handles, own, world
<1>0. g = gen /\ caller # "stopped"
  BY LoopAlive DEF LoopStep
<1>1. CASE StopSeen(g)
  BY <1>0, <1>1 DEF StopSeen, CtxDone
<1>2. CASE ReadHandles(g)
  BY <1>0, <1>2 DEF ReadHandles, HandlesType
<1>3. CASE StopForward(g)
  BY <1>0, <1>3 DEF StopForward, PortsWithout
<1>4. CASE CloseChain(g)
  BY <1>0, <1>4 DEF CloseChain
<1>5. CASE ClearHandles(g)
  BY <1>0, <1>5 DEF ClearHandles
<1>6. CASE CheckAfterRun(g)
  BY <1>0, <1>6 DEF CheckAfterRun, LoopCtxDone
<1>7. CASE Abort(g)
  BY <1>0, <1>7 DEF Abort
<1> QED
  BY <1>1, <1>2, <1>3, <1>4, <1>5, <1>6, <1>7 DEF CleanupStep

LEMMA HandlesInvRestartStep ==
  ASSUME Alone', TypeInv, OneLoop, SignalsInv, HandlesInv,
         NEW g \in Loops, RestartStep(g)
  PROVE  HandlesInv'
<1> USE DEF TypeInv, TypeOK, OneLoop, SignalsInv, HandlesInv, Goto, Transition,
         quiet, outer, shown, handles, own, world
<1>0. g = gen /\ caller # "stopped"
  BY LoopAlive DEF LoopStep
<1>1. CASE NoAutoRestart(g)
  BY <1>0, <1>1 DEF NoAutoRestart, GiveUp, AfterRun, RestartsWanted
<1>2. CASE RateLimited(g)
  BY <1>0, <1>2 DEF RateLimited, GiveUp, AfterRun, RestartsWanted,
     RestartRecorded
<1>3. CASE BackOff(g)
  BY <1>0, <1>3 DEF BackOff, RestartsWanted, RestartRecorded
<1>4. CASE BackoffElapsed(g)
  BY <1>0, <1>4 DEF BackoffElapsed
<1>5. CASE BackoffCancelled(g)
  BY <1>0, <1>5 DEF BackoffCancelled, CtxDone
<1>6. CASE Exit(g)
  BY <1>0, <1>6 DEF Exit, SignalDone
<1> QED
  BY <1>1, <1>2, <1>3, <1>4, <1>5, <1>6 DEF RestartStep

LEMMA HandlesInvOutsideStep ==
  ASSUME Alone', TypeInv, OneLoop, SignalsInv, HandlesInv,
         NEW g \in Loops, OutsideStep(g)
  PROVE  HandlesInv'
<1> USE DEF TypeInv, TypeOK, OneLoop, SignalsInv, HandlesInv, Goto, Transition,
         quiet, outer, shown, handles, own, world
<1>0. g = gen /\ caller # "stopped"
  BY LoopAlive DEF LoopStep
<1>1. CASE ClientsLeft(g)
  BY <1>0, <1>1 DEF ClientsLeft, Drained
<1>2. CASE KeepAliveLost(g)
  BY <1>0, <1>2 DEF KeepAliveLost, ReportLost
<1> QED
  BY <1>1, <1>2 DEF OutsideStep

(* Each family of steps keeps the ports with their loop. *)

LEMMA PortsInvEngineCall ==
  ASSUME Alone', TypeInv, OneLoop, SignalsInv, HandlesInv, PortsInv, EngineCall
  PROVE  PortsInv'
<1> USE DEF TypeInv, TypeOK, OneLoop, SignalsInv, HandlesInv, PortsInv, Goto,
   Transition,
         quiet, outer, shown, handles, own, world
<1>1. CASE Start
  BY <1>1 DEF Start
<1>2. CASE StopBegin
  BY <1>2 DEF StopBegin
<1>3. CASE StopDone
  BY <1>3 DEF StopDone, LoopSignalled
<1>4. CASE StopTimedOut
  BY <1>4 DEF StopTimedOut
<1> QED
  BY <1>1, <1>2, <1>3, <1>4 DEF EngineCall

LEMMA PortsInvBuildStep ==
  ASSUME Alone', TypeInv, OneLoop, SignalsInv, HandlesInv, PortsInv,
         NEW g \in Loops, BuildStep(g)
  PROVE  PortsInv'
<1> USE DEF TypeInv, TypeOK, OneLoop, SignalsInv, HandlesInv, PortsInv, Goto,
   Transition,
         quiet, outer, shown, handles, own, world
<1>0. g = gen /\ caller # "stopped"
  BY LoopAlive DEF LoopStep
<1>a. \A h \in Loops, m \in Mapping : h # g => port[m] # h
  BY <1>0 DEF Loops
<1>b. /\ g # None /\ next[g] \in Nat /\ Mappings \in Nat
      /\ \A m \in Mapping : m \in Nat /\ 0 < m /\ m <= Mappings
  BY ConstantsAssumption, SMTT(30) DEF Loops, Mapping, None
<1>1. CASE BuildBegin(g)
  BY <1>0, <1>a, <1>b, <1>1 DEF BuildBegin, DoneChannel
<1>2. CASE Dialled(g)
  BY <1>0, <1>a, <1>b, <1>2 DEF Dialled, CtxDone
<1>3. CASE ChainUp(g)
  BY <1>0, <1>a, <1>b, <1>3 DEF ChainUp
<1>4. CASE ChainFailed(g)
  BY <1>0, <1>a, <1>b, <1>4 DEF ChainFailed
<1>5. CASE CheckCancelled(g)
  BY <1>0, <1>a, <1>b, <1>5 DEF CheckCancelled, LoopCtxDone
<1>6. CASE ReportChainError(g)
  BY <1>0, <1>a, <1>b, <1>6 DEF ReportChainError, AfterChainError
<1> QED
  BY <1>1, <1>2, <1>3, <1>4, <1>5, <1>6 DEF BuildStep

LEMMA PortsInvForwardStep ==
  ASSUME Alone', TypeInv, OneLoop, SignalsInv, HandlesInv, PortsInv,
         NEW g \in Loops, ForwardStep(g)
  PROVE  PortsInv'
<1> USE DEF TypeInv, TypeOK, OneLoop, SignalsInv, HandlesInv, PortsInv, Goto,
   Transition,
         quiet, outer, shown, handles, own, world
<1>0. g = gen /\ caller # "stopped"
  BY LoopAlive DEF LoopStep
<1>a. \A h \in Loops, m \in Mapping : h # g => port[m] # h
  BY <1>0 DEF Loops
<1>b. /\ g # None /\ next[g] \in Nat /\ Mappings \in Nat
      /\ \A m \in Mapping : m \in Nat /\ 0 < m /\ m <= Mappings
  BY ConstantsAssumption, SMTT(30) DEF Loops, Mapping, None
<1>1. CASE StartForward(g)
  BY <1>0, <1>a, <1>b, <1>1 DEF StartForward, Mapping, None
<1>2. CASE ForwardFailed(g)
  BY <1>0, <1>a, <1>b, <1>2 DEF ForwardFailed
<1>3. CASE RollbackForward(g)
  BY <1>0, <1>a, <1>b, <1>3 DEF RollbackForward, None
<1>4. CASE DrainCancelled(g)
  BY <1>0, <1>a, <1>b, <1>4 DEF DrainCancelled, Drained, CtxDone
<1>5. CASE ReportForwardError(g)
  BY <1>0, <1>a, <1>b, <1>5 DEF ReportForwardError, None
<1>6. CASE CloseFailedChain(g)
  BY <1>0, <1>a, <1>b, <1>6 DEF CloseFailedChain
<1>7. CASE Running(g)
  BY <1>0, <1>a, <1>b, <1>7 DEF Running, ReportUp
<1> QED
  BY <1>1, <1>2, <1>3, <1>4, <1>5, <1>6, <1>7 DEF ForwardStep

LEMMA PortsInvCleanupStep ==
  ASSUME Alone', TypeInv, OneLoop, SignalsInv, HandlesInv, PortsInv,
         NEW g \in Loops, CleanupStep(g)
  PROVE  PortsInv'
<1> USE DEF TypeInv, TypeOK, OneLoop, SignalsInv, HandlesInv, PortsInv, Goto,
   Transition,
         quiet, outer, shown, handles, own, world
<1>0. g = gen /\ caller # "stopped"
  BY LoopAlive DEF LoopStep
<1>a. \A h \in Loops, m \in Mapping : h # g => port[m] # h
  BY <1>0 DEF Loops
<1>b. /\ g # None /\ next[g] \in Nat /\ Mappings \in Nat
      /\ \A m \in Mapping : m \in Nat /\ 0 < m /\ m <= Mappings
  BY ConstantsAssumption, SMTT(30) DEF Loops, Mapping, None
<1>1. CASE StopSeen(g)
  BY <1>0, <1>a, <1>b, <1>1 DEF StopSeen, CtxDone
<1>2. CASE ReadHandles(g)
  BY <1>0, <1>a, <1>b, <1>2 DEF ReadHandles, None, HandlesType
<1>3. CASE StopForward(g)
  BY <1>0, <1>a, <1>b, <1>3 DEF StopForward, PortsWithout, None
<1>4. CASE CloseChain(g)
  BY <1>0, <1>a, <1>b, <1>4 DEF CloseChain
<1>5. CASE ClearHandles(g)
  BY <1>0, <1>a, <1>b, <1>5 DEF ClearHandles
<1>6. CASE CheckAfterRun(g)
  BY <1>0, <1>a, <1>b, <1>6 DEF CheckAfterRun, LoopCtxDone
<1>7. CASE Abort(g)
  BY <1>0, <1>a, <1>b, <1>7 DEF Abort
<1> QED
  BY <1>1, <1>2, <1>3, <1>4, <1>5, <1>6, <1>7 DEF CleanupStep

LEMMA PortsInvRestartStep ==
  ASSUME Alone', TypeInv, OneLoop, SignalsInv, HandlesInv, PortsInv,
         NEW g \in Loops, RestartStep(g)
  PROVE  PortsInv'
<1> USE DEF TypeInv, TypeOK, OneLoop, SignalsInv, HandlesInv, PortsInv, Goto,
   Transition,
         quiet, outer, shown, handles, own, world
<1>0. g = gen /\ caller # "stopped"
  BY LoopAlive DEF LoopStep
<1>a. \A h \in Loops, m \in Mapping : h # g => port[m] # h
  BY <1>0 DEF Loops
<1>b. /\ g # None /\ next[g] \in Nat /\ Mappings \in Nat
      /\ \A m \in Mapping : m \in Nat /\ 0 < m /\ m <= Mappings
  BY ConstantsAssumption, SMTT(30) DEF Loops, Mapping, None
<1>1. CASE NoAutoRestart(g)
  BY <1>0, <1>a, <1>b, <1>1 DEF NoAutoRestart, GiveUp, AfterRun, RestartsWanted
<1>2. CASE RateLimited(g)
  BY <1>0, <1>a, <1>b, <1>2 DEF RateLimited, GiveUp, AfterRun, RestartsWanted,
     RestartRecorded
<1>3. CASE BackOff(g)
  BY <1>0, <1>a, <1>b, <1>3 DEF BackOff, RestartsWanted, RestartRecorded
<1>4. CASE BackoffElapsed(g)
  BY <1>0, <1>a, <1>b, <1>4 DEF BackoffElapsed
<1>5. CASE BackoffCancelled(g)
  BY <1>0, <1>a, <1>b, <1>5 DEF BackoffCancelled, CtxDone
<1>6. CASE Exit(g)
  BY <1>0, <1>a, <1>b, <1>6 DEF Exit, SignalDone
<1> QED
  BY <1>1, <1>2, <1>3, <1>4, <1>5, <1>6 DEF RestartStep

LEMMA PortsInvOutsideStep ==
  ASSUME Alone', TypeInv, OneLoop, SignalsInv, HandlesInv, PortsInv,
         NEW g \in Loops, OutsideStep(g)
  PROVE  PortsInv'
<1> USE DEF TypeInv, TypeOK, OneLoop, SignalsInv, HandlesInv, PortsInv, Goto,
   Transition,
         quiet, outer, shown, handles, own, world
<1>0. g = gen /\ caller # "stopped"
  BY LoopAlive DEF LoopStep
<1>a. \A h \in Loops, m \in Mapping : h # g => port[m] # h
  BY <1>0 DEF Loops
<1>b. /\ g # None /\ next[g] \in Nat /\ Mappings \in Nat
      /\ \A m \in Mapping : m \in Nat /\ 0 < m /\ m <= Mappings
  BY ConstantsAssumption, SMTT(30) DEF Loops, Mapping, None
<1>1. CASE ClientsLeft(g)
  BY <1>0, <1>a, <1>b, <1>1 DEF ClientsLeft, Drained
<1>2. CASE KeepAliveLost(g)
  BY <1>0, <1>a, <1>b, <1>2 DEF KeepAliveLost, ReportLost
<1> QED
  BY <1>1, <1>2 DEF OutsideStep

(* Each family of steps keeps what is shown in line with the loop. *)

LEMMA ShownInvEngineCall ==
  ASSUME Alone', TypeInv, OneLoop, SignalsInv, ShownInv, EngineCall
  PROVE  ShownInv'
<1> USE DEF TypeInv, TypeOK, OneLoop, SignalsInv, ShownInv, Goto, Transition,
         quiet, outer, shown, handles, own, world
<1>1. CASE Start
  BY <1>1 DEF Start, LoopLeft, Alone
<1>2. CASE StopBegin
  BY <1>2 DEF StopBegin
<1>3. CASE StopDone
  BY <1>3 DEF StopDone, LoopSignalled
<1>4. CASE StopTimedOut
  BY <1>4 DEF StopTimedOut
<1> QED
  BY <1>1, <1>2, <1>3, <1>4 DEF EngineCall

LEMMA ShownInvBuildStep ==
  ASSUME Alone', TypeInv, OneLoop, SignalsInv, ShownInv,
         NEW g \in Loops, BuildStep(g)
  PROVE  ShownInv'
<1> USE DEF TypeInv, TypeOK, OneLoop, SignalsInv, ShownInv, Goto, Transition,
         quiet, outer, shown, handles, own, world
<1>0. g = gen /\ caller # "stopped"
  BY LoopAlive DEF LoopStep
<1>1. CASE BuildBegin(g)
  BY <1>0, <1>1 DEF BuildBegin, DoneChannel
<1>2. CASE Dialled(g)
  BY <1>0, <1>2 DEF Dialled, CtxDone
<1>3. CASE ChainUp(g)
  BY <1>0, <1>3 DEF ChainUp
<1>4. CASE ChainFailed(g)
  BY <1>0, <1>4 DEF ChainFailed
<1>5. CASE CheckCancelled(g)
  BY <1>0, <1>5 DEF CheckCancelled, LoopCtxDone
<1>6. CASE ReportChainError(g)
  <2>1. lastErr' # "none" /\ state' = "error"
    BY <1>0, <1>6 DEF ReportChainError
  <2>2. CASE why[g] = "hostKey"
    <3>1. pc'[g] = "exit"
      BY <1>6, <2>2 DEF ReportChainError, AfterChainError
    <3> QED
      BY <1>0, <1>6, <2>1, <3>1 DEF ReportChainError
  <2>3. CASE why[g] # "hostKey"
    <3>1. mismatch' = FALSE
      BY <1>6, <2>3 DEF ReportChainError
    <3>2. pc'[g] = "retry"
      BY <1>6, <2>3, SMTT(30) DEF ReportChainError, AfterChainError
    <3> QED
      BY <1>0, <1>6, <2>1, <3>1, <3>2 DEF ReportChainError
  <2> QED
    BY <2>2, <2>3
<1> QED
  BY <1>1, <1>2, <1>3, <1>4, <1>5, <1>6 DEF BuildStep

LEMMA ShownInvForwardStep ==
  ASSUME Alone', TypeInv, OneLoop, SignalsInv, ShownInv,
         NEW g \in Loops, ForwardStep(g)
  PROVE  ShownInv'
<1> USE DEF TypeInv, TypeOK, OneLoop, SignalsInv, ShownInv, Goto, Transition,
         quiet, outer, shown, handles, own, world
<1>0. g = gen /\ caller # "stopped"
  BY LoopAlive DEF LoopStep
<1>1. CASE StartForward(g)
  BY <1>0, <1>1 DEF StartForward
<1>2. CASE ForwardFailed(g)
  BY <1>0, <1>2 DEF ForwardFailed
<1>3. CASE RollbackForward(g)
  BY <1>0, <1>3 DEF RollbackForward
<1>4. CASE DrainCancelled(g)
  BY <1>0, <1>4 DEF DrainCancelled, Drained, CtxDone
<1>5. CASE ReportForwardError(g)
  BY <1>0, <1>5 DEF ReportForwardError
<1>6. CASE CloseFailedChain(g)
  BY <1>0, <1>6 DEF CloseFailedChain
<1>7. CASE Running(g)
  BY <1>0, <1>7 DEF Running, ReportUp
<1> QED
  BY <1>1, <1>2, <1>3, <1>4, <1>5, <1>6, <1>7 DEF ForwardStep

LEMMA ShownInvCleanupStep ==
  ASSUME Alone', TypeInv, OneLoop, SignalsInv, ShownInv,
         NEW g \in Loops, CleanupStep(g)
  PROVE  ShownInv'
<1> USE DEF TypeInv, TypeOK, OneLoop, SignalsInv, ShownInv, Goto, Transition,
         quiet, outer, shown, handles, own, world
<1>0. g = gen /\ caller # "stopped"
  BY LoopAlive DEF LoopStep
<1>1. CASE StopSeen(g)
  BY <1>0, <1>1 DEF StopSeen, CtxDone
<1>2. CASE ReadHandles(g)
  BY <1>0, <1>2 DEF ReadHandles
<1>3. CASE StopForward(g)
  BY <1>0, <1>3 DEF StopForward, PortsWithout
<1>4. CASE CloseChain(g)
  BY <1>0, <1>4 DEF CloseChain
<1>5. CASE ClearHandles(g)
  BY <1>0, <1>5 DEF ClearHandles
<1>6. CASE CheckAfterRun(g)
  BY <1>0, <1>6 DEF CheckAfterRun, LoopCtxDone
<1>7. CASE Abort(g)
  BY <1>0, <1>7 DEF Abort
<1> QED
  BY <1>1, <1>2, <1>3, <1>4, <1>5, <1>6, <1>7 DEF CleanupStep

LEMMA ShownInvRestartStep ==
  ASSUME Alone', TypeInv, OneLoop, SignalsInv, ShownInv,
         NEW g \in Loops, RestartStep(g)
  PROVE  ShownInv'
<1> USE DEF TypeInv, TypeOK, OneLoop, SignalsInv, ShownInv, Goto, Transition,
         quiet, outer, shown, handles, own, world
<1>0. g = gen /\ caller # "stopped"
  BY LoopAlive DEF LoopStep
<1>1. CASE NoAutoRestart(g)
  BY <1>0, <1>1 DEF NoAutoRestart, GiveUp, AfterRun, RestartsWanted
<1>2. CASE RateLimited(g)
  BY <1>0, <1>2 DEF RateLimited, GiveUp, AfterRun, RestartsWanted,
     RestartRecorded
<1>3. CASE BackOff(g)
  BY <1>0, <1>3 DEF BackOff, RestartsWanted, RestartRecorded
<1>4. CASE BackoffElapsed(g)
  BY <1>0, <1>4 DEF BackoffElapsed
<1>5. CASE BackoffCancelled(g)
  BY <1>0, <1>5 DEF BackoffCancelled, CtxDone
<1>6. CASE Exit(g)
  BY <1>0, <1>6 DEF Exit, SignalDone
<1> QED
  BY <1>1, <1>2, <1>3, <1>4, <1>5, <1>6 DEF RestartStep

LEMMA ShownInvOutsideStep ==
  ASSUME Alone', TypeInv, OneLoop, SignalsInv, ShownInv,
         NEW g \in Loops, OutsideStep(g)
  PROVE  ShownInv'
<1> USE DEF TypeInv, TypeOK, OneLoop, SignalsInv, ShownInv, Goto, Transition,
         quiet, outer, shown, handles, own, world
<1>0. g = gen /\ caller # "stopped"
  BY LoopAlive DEF LoopStep
<1>1. CASE ClientsLeft(g)
  BY <1>0, <1>1 DEF ClientsLeft, Drained
<1>2. CASE KeepAliveLost(g)
  BY <1>0, <1>2 DEF KeepAliveLost, ReportLost
<1> QED
  BY <1>1, <1>2 DEF OutsideStep

-----------------------------------------------------------------------------
(* The invariant holds. *)

\* An overlap is never forgotten.
LEMMA AloneBefore ==
  ASSUME TypeInv, [Next]_vars, Alone'
  PROVE  Alone
<1> USE DEF Alone, outer, quiet, Goto, Transition
<1>1. CASE EngineCall
  BY <1>1 DEF EngineCall, Start, StopBegin, StopDone, StopTimedOut, TypeInv,
     TypeOK
<1>2. ASSUME NEW g \in Loops, BuildStep(g)
      PROVE  overlaps' = overlaps
  BY <1>2 DEF BuildStep, BuildBegin, Dialled, ChainUp, ChainFailed,
     CheckCancelled, ReportChainError
<1>3. ASSUME NEW g \in Loops, ForwardStep(g)
      PROVE  overlaps' = overlaps
  BY <1>3 DEF ForwardStep, StartForward, ForwardFailed, RollbackForward,
     DrainCancelled, Drained, ReportForwardError, CloseFailedChain, Running
<1>4. ASSUME NEW g \in Loops, CleanupStep(g)
      PROVE  overlaps' = overlaps
  BY <1>4 DEF CleanupStep, StopSeen, ReadHandles, StopForward, CloseChain,
     ClearHandles, CheckAfterRun, Abort
<1>5. ASSUME NEW g \in Loops, RestartStep(g)
      PROVE  overlaps' = overlaps
  BY <1>5 DEF RestartStep, NoAutoRestart, RateLimited, BackOff,
     BackoffElapsed, BackoffCancelled, Exit
<1>6. ASSUME NEW g \in Loops, OutsideStep(g)
      PROVE  overlaps' = overlaps
  BY <1>6 DEF OutsideStep, ClientsLeft, Drained, KeepAliveLost
<1>7. CASE UNCHANGED vars
  BY <1>7 DEF vars
<1> QED
  BY <1>1, <1>2, <1>3, <1>4, <1>5, <1>6, <1>7 DEF Next, LoopStep

LEMMA IInvNext ==
  ASSUME IInv, [Next]_vars
  PROVE  IInv'
<1>1. TypeInv'
  BY TypeInvNext DEF IInv
<1> SUFFICES ASSUME Alone' PROVE LoopInv'
  BY <1>1 DEF IInv
<1>a. TypeInv /\ LoopInv
  BY AloneBefore DEF IInv
<1> USE <1>a DEF LoopInv
<1>2. CASE EngineCall
  BY <1>2, OneLoopEngineCall, SignalsInvEngineCall,
     HandlesInvEngineCall, PortsInvEngineCall, ShownInvEngineCall
<1>3. ASSUME NEW g \in Loops, BuildStep(g)
      PROVE  LoopInv'
  BY <1>3, OneLoopBuildStep, SignalsInvBuildStep, HandlesInvBuildStep,
     PortsInvBuildStep, ShownInvBuildStep
<1>4. ASSUME NEW g \in Loops, ForwardStep(g)
      PROVE  LoopInv'
  BY <1>4, OneLoopForwardStep, SignalsInvForwardStep,
     HandlesInvForwardStep, PortsInvForwardStep, ShownInvForwardStep
<1>5. ASSUME NEW g \in Loops, CleanupStep(g)
      PROVE  LoopInv'
  BY <1>5, OneLoopCleanupStep, SignalsInvCleanupStep,
     HandlesInvCleanupStep, PortsInvCleanupStep, ShownInvCleanupStep
<1>6. ASSUME NEW g \in Loops, RestartStep(g)
      PROVE  LoopInv'
  BY <1>6, OneLoopRestartStep, SignalsInvRestartStep,
     HandlesInvRestartStep, PortsInvRestartStep, ShownInvRestartStep
<1>7. ASSUME NEW g \in Loops, OutsideStep(g)
      PROVE  LoopInv'
  BY <1>7, OneLoopOutsideStep, SignalsInvOutsideStep,
     HandlesInvOutsideStep, PortsInvOutsideStep, ShownInvOutsideStep
<1>8. CASE UNCHANGED vars
  <2> USE <1>8 DEF vars, outer, shown, handles, own, world
  <2>1. OneLoop' /\ SignalsInv'
    BY DEF OneLoop, SignalsInv
  <2>2. HandlesInv' /\ PortsInv'
    BY DEF HandlesInv, PortsInv
  <2>3. ShownInv'
    BY DEF ShownInv
  <2> QED
    BY <2>1, <2>2, <2>3
<1> QED
  BY <1>2, <1>3, <1>4, <1>5, <1>6, <1>7, <1>8 DEF Next, LoopStep

LEMMA IInvariance == Spec => []IInv
<1>1. Init => IInv
  <2> SUFFICES ASSUME Init PROVE IInv
    OBVIOUS
  <2>1. TypeInv
    BY TypeInvInit
  <2>2. \A g \in Loops : g > gen
    BY DEF Init, Loops
  <2>3. OneLoop /\ SignalsInv
    BY <2>2 DEF Init, OneLoop, SignalsInv, Loops
  <2>4. HandlesInv /\ PortsInv
    BY DEF Init, HandlesInv, PortsInv, None, Loops
  <2>5. ShownInv
    BY DEF Init, ShownInv
  <2> QED
    BY <2>1, <2>3, <2>4, <2>5 DEF IInv, LoopInv
<1>2. IInv /\ [Next]_vars => IInv'
  BY IInvNext
<1> QED
  BY <1>1, <1>2, PTL DEF Spec

-----------------------------------------------------------------------------
(* The results. *)

\* As long as no Start overlapped a loop, no attempt leaves a listener or an
\* SSH chain behind it.
THEOREM NoLeak == Spec => []NothingLeaks
<1>1. IInv => NothingLeaks
  BY DEF IInv, LoopInv, HandlesInv, PortsInv, NothingLeaks, HoldsNothing
<1> QED
  BY <1>1, IInvariance, PTL

\* As long as no Start overlapped a loop, a Stop that returns without an error
\* leaves nothing running.
THEOREM CleanStop == Spec => []StopReturnsClean
<1>1. IInv => StopReturnsClean
  <2> SUFFICES ASSUME IInv, Alone, caller = "stopped"
               PROVE  /\ state = "stopped"
                      /\ \A g \in Loops :
                           pc[g] \in {"none", "done"} /\ HoldsNothing(g)
    BY DEF StopReturnsClean
  <2>1. state = "stopped" /\ gen \in closed
    BY DEF IInv, LoopInv, SignalsInv
  <2>2. pc[gen] = "done"
    BY <2>1 DEF IInv, LoopInv, SignalsInv
  <2>3. \A g \in Loops : pc[g] \in {"none", "done"}
    BY <2>2 DEF IInv, LoopInv, OneLoop, TypeInv, TypeOK, Loops
  <2>4. \A g \in Loops : HoldsNothing(g)
    BY <2>3 DEF IInv, LoopInv, HandlesInv, PortsInv, HoldsNothing
  <2> QED
    BY <2>1, <2>3, <2>4
<1> QED
  BY <1>1, IInvariance, PTL

\* As long as no Start overlapped a loop, a tunnel shown running is up until it
\* is told to stop.
THEOREM RunningTunnelIsUp == Spec => []RunningIsBacked
<1>1. IInv => RunningIsBacked
  <2> SUFFICES ASSUME IInv, Alone, state = "running", gen \notin cancelled
               PROVE  \E g \in Loops :
                        /\ pc[g] = "run" /\ chain = g /\ fwds = g
                        /\ g \in chainOpen /\ \A m \in Mapping : port[m] = g
    BY DEF RunningIsBacked
  <2>1. gen \in Loops
    BY DEF IInv, TypeInv, TypeOK, Loops
  <2>2. pc[gen] = "run"
    BY <2>1 DEF IInv, LoopInv, ShownInv
  <2> QED
    BY <2>1, <2>2 DEF IInv, LoopInv, HandlesInv, PortsInv
<1> QED
  BY <1>1, IInvariance, PTL

\* As long as no Start overlapped a loop, the host key panel and a running chain
\* are never shown together.
THEOREM MismatchMeansDown == Spec => []MismatchOnlyWhenDown
<1>1. IInv => MismatchOnlyWhenDown
  BY DEF IInv, LoopInv, ShownInv, MismatchOnlyWhenDown
<1> QED
  BY <1>1, IInvariance, PTL

\* As long as no Start overlapped a loop, an error state has its cause.
THEOREM ErrorHasCause == Spec => []ErrorIsExplained
<1>1. IInv => ErrorIsExplained
  BY DEF IInv, LoopInv, ShownInv, ErrorIsExplained
<1> QED
  BY <1>1, IInvariance, PTL

\* As long as no Start overlapped a loop, a host key error is never retried
\* behind the user's back: in that state the loop has nothing left to do but to
\* end.
THEOREM HostKeyErrorIsFinal == Spec => HostKeyErrorHeldAlone
<1>1. ASSUME IInv, [Next]_vars, Alone, state = "error", mismatch, state' # state
      PROVE  gen' # gen \/ caller' # caller
  <2>1. CASE EngineCall
    <3>1. CASE Start
      BY <1>1, <3>1, ConstantsAssumption DEF Start, IInv, TypeInv, TypeOK
    <3>2. CASE StopBegin \/ StopDone \/ StopTimedOut
      BY <3>2 DEF StopBegin, StopDone, StopTimedOut
    <3> QED
      BY <2>1, <3>1, <3>2 DEF EngineCall
  <2>2. ASSUME NEW g \in Loops, LoopStep(g) \/ OutsideStep(g)
        PROVE  FALSE
    <3>1. g = gen /\ pc[g] \notin {"none", "done"}
      BY <1>1, <2>2, LoopAlive, LoopPlace DEF IInv, LoopInv
    <3>2. pc[g] = "exit"
      BY <1>1, <3>1 DEF IInv, LoopInv, ShownInv
    <3>3. Exit(g)
      BY <1>1, <2>2, <3>2, ExitOnly DEF IInv
    <3> QED
      BY <1>1, <3>3 DEF Exit, shown
  <2>3. CASE UNCHANGED vars
    BY <1>1, <2>3 DEF vars, shown
  <2> QED
    BY <1>1, <2>1, <2>2, <2>3 DEF Next
<1>2. IInv /\ [Next]_vars =>
        [ (Alone /\ state = "error" /\ mismatch /\ state' # state)
            => (gen' # gen \/ caller' # caller) ]_vars
  BY <1>1
<1> QED
  BY <1>2, IInvariance, PTL DEF Spec, HostKeyErrorHeldAlone

\* The loop goes back to "starting" by itself only after a backoff.
LEMMA BackToStarting ==
  ASSUME TypeInv, NEW g \in Loops, LoopStep(g) \/ OutsideStep(g),
         state # "starting", state' = "starting"
  PROVE  pc[g] = "backoff"
<1> USE DEF Transition, quiet, shown
<1>1. CASE BuildStep(g)
  BY <1>1 DEF BuildStep, BuildBegin, Dialled, ChainUp, ChainFailed,
     CheckCancelled,
                    ReportChainError
<1>2. CASE ForwardStep(g)
  BY <1>2 DEF ForwardStep, StartForward, ForwardFailed, RollbackForward,
                    DrainCancelled, Drained, ReportForwardError,
                    CloseFailedChain, Running, ReportUp
<1>3. CASE CleanupStep(g)
  BY <1>3 DEF CleanupStep, StopSeen, ReadHandles, StopForward, CloseChain,
                    ClearHandles, CheckAfterRun, Abort
<1>4. CASE RestartStep(g)
  BY <1>4 DEF RestartStep, NoAutoRestart, RateLimited, BackOff, GiveUp,
                    BackoffElapsed, BackoffCancelled, Exit
<1>5. CASE OutsideStep(g)
  BY <1>5 DEF OutsideStep, ClientsLeft, Drained, KeepAliveLost, ReportLost
<1> QED
  BY <1>1, <1>2, <1>3, <1>4, <1>5 DEF LoopStep

\* A restart is only ever one the policy asks for; as long as no Start overlapped
\* a loop it is within the limit and never follows a host key error.
THEOREM RestartIsPolicy == Spec => RetryIsAllowed
<1>1. ASSUME IInv, [Next]_vars,
             state # "starting", state' = "starting", gen' = gen
      PROVE  /\ policy.autoRestart
             /\ ~Alone \/ (recent < MaxRestartsPerHour /\ ~mismatch)
  <2>1. CASE EngineCall
    <3>1. ~Start
      BY <1>1, ConstantsAssumption DEF Start, IInv, TypeInv, TypeOK
    <3> QED
      BY <1>1, <2>1, <3>1 DEF EngineCall, StopBegin, StopDone, StopTimedOut,
                              shown
  <2>2. ASSUME NEW g \in Loops, LoopStep(g) \/ OutsideStep(g)
        PROVE  /\ policy.autoRestart
               /\ ~Alone \/ (recent < MaxRestartsPerHour /\ ~mismatch)
    <3>1. pc[g] = "backoff"
      BY <1>1, <2>2, BackToStarting DEF IInv
    <3> QED
      BY <1>1, <3>1 DEF IInv, TypeInv, LoopInv, ShownInv
  <2>3. CASE UNCHANGED vars
    BY <1>1, <2>3 DEF vars, shown
  <2> QED
    BY <1>1, <2>1, <2>2, <2>3 DEF Next
<1>2. IInv /\ [Next]_vars =>
        [ (state # "starting" /\ state' = "starting" /\ gen' = gen)
            => /\ policy.autoRestart
               /\ ~Alone \/ (recent < MaxRestartsPerHour /\ ~mismatch) ]_vars
  BY <1>1
<1> QED
  BY <1>2, IInvariance, PTL DEF Spec, RetryIsAllowed

=============================================================================
