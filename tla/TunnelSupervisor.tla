---------------------------- MODULE TunnelSupervisor ----------------------------
(***************************************************************************)
(* The supervisor of one tunnel: internal/engine/supervisor.go.            *)
(*                                                                         *)
(* Start spawns a goroutine running runLoop: build the SSH chain, start    *)
(* the forwarders, wait for the keepalive to fail or for Stop, clean up,   *)
(* and - when the policy says so - back off and try again.  The goroutine  *)
(* spawned by the g-th Start is "loop g"; pc[g] says where it is.  A step  *)
(* is the code between two points where another goroutine can get in: a    *)
(* critical section of s.mu, a blocking call, or a read of a field of s    *)
(* outside the lock.                                                       *)
(*                                                                         *)
(* s.loopCtx and s.loopDone are replaced by each Start, so a context or a  *)
(* channel is named by the Start that made it, and "s.loopCtx" in the code *)
(* is the value gen in the model: a loop that is blocked in a select holds *)
(* the context it read when it entered (ctx[g]), not the current one.      *)
(*                                                                         *)
(* The caller is the engine (engine.go), which holds its own lock around   *)
(* Start and Stop and drops the supervisor after a Stop.                   *)
(*                                                                         *)
(* Abstracted: delays (a backoff takes some time), the text of errors      *)
(* (their cause only), byte counters, timestamps and log events.           *)
(***************************************************************************)
EXTENDS Naturals, FiniteSets

CONSTANTS
  MaxStarts,           \* bound: calls of Start that are not refused
  MaxOverlaps,         \* bound: those of them that find a loop not yet ended
  Mappings,            \* number of port mappings of the tunnel
  MaxRestartsPerHour,  \* Policy.MaxRestartsPerHour
  AutoRestart,         \* the values of Policy.AutoRestart to consider
  KeepAlive            \* the values to consider: some hop has a keepalive

ASSUME ConstantsAssumption ==
  /\ MaxStarts \in Nat \ {0}
  /\ MaxOverlaps \in Nat
  /\ Mappings \in Nat
  /\ MaxRestartsPerHour \in Nat \ {0}
  /\ AutoRestart \subseteq BOOLEAN
  /\ KeepAlive \subseteq BOOLEAN

Loops == 1 .. MaxStarts
None == 0
Mapping == 1 .. Mappings

TunnelState ==
  {"stopped", "starting", "running", "degraded", "error", "stopping"}

\* What s.lastErr is about; "none" is the empty string.
Cause == {"none", "chain", "hostKey", "forward", "keepAlive", "rate"}

\* remote: the mode is "remote", the server listens on the tunnel's behalf.
PolicyType ==
  [autoRestart : AutoRestart, keepAlive : KeepAlive, remote : BOOLEAN]
HandlesType == [chain : Loops \cup {None}, fwds : Loops \cup {None}]

VARIABLES
  policy,      \* s.tunnel: policy, keepalive and mode, fixed at creation
  state,       \* s.state
  lastErr,     \* s.lastErr
  mismatch,    \* s.hostKeyMismatch # nil
  chain,       \* s.chain: the loop that built it, or None
  fwds,        \* s.fwds: the loop that started them, or None
  gen,         \* number of Starts: names s.loopCtx and s.loopDone
  overlaps,    \* history: Starts let in beside a loop that had not ended
  cancelled,   \* the contexts that were cancelled
  closed,      \* the loopDone channels that were closed
  recent,      \* Len(s.restartTimes)
  caller,      \* what the engine is doing with this supervisor
  pc,          \* where each loop is
  ctx,         \* the context each loop read last
  doneCh,      \* the channel its "defer close(s.loopDone)" will close
  why,         \* the cause of the failure the loop is handling
  next,        \* index into the mappings, when starting or stopping them
  seen,        \* s.chain and s.fwds as read by cleanup
  chainOpen,   \* the loops whose SSH chain is open
  port         \* per mapping, the loop whose forwarder listens, or None

outer == <<policy, gen, overlaps, cancelled, closed, caller>>
shown == <<state, lastErr, mismatch>>
handles == <<chain, fwds>>
own == <<ctx, doneCh, why, next, seen>>
world == <<chainOpen, port>>
quiet == <<outer, shown, handles, recent, world>>
vars == <<outer, shown, handles, recent, pc, own, world>>

Label ==
  {"none", "build", "dial", "connect", "chainErr", "chainFail", "forward",
   "rollback", "drain", "closeChain", "run", "cleanup", "stopFwds", "clear",
   "check", "aborted", "retry", "backoff", "exit", "done"}

TypeOK ==
  /\ policy \in PolicyType
  /\ state \in TunnelState
  /\ lastErr \in Cause
  /\ mismatch \in BOOLEAN
  /\ chain \in Loops \cup {None}
  /\ fwds \in Loops \cup {None}
  /\ gen \in 0 .. MaxStarts
  /\ overlaps \in 0 .. MaxOverlaps
  /\ cancelled \subseteq Loops
  /\ closed \subseteq Loops
  /\ recent \in Nat
  /\ caller \in {"idle", "stopping", "stopped", "abandoned"}
  /\ pc \in [Loops -> Label]
  /\ ctx \in [Loops -> 0 .. MaxStarts]
  /\ doneCh \in [Loops -> 0 .. MaxStarts]
  /\ why \in [Loops -> Cause]
  /\ next \in [Loops -> 0 .. Mappings + 1]
  /\ seen \in [Loops -> HandlesType]
  /\ chainOpen \subseteq Loops
  /\ port \in [Mapping -> Loops \cup {None}]

Init ==
  /\ policy \in PolicyType
  /\ state = "stopped" /\ lastErr = "none" /\ mismatch = FALSE
  /\ chain = None /\ fwds = None
  /\ gen = 0 /\ overlaps = 0 /\ cancelled = {} /\ closed = {}
  /\ recent = 0
  /\ caller = "idle"
  /\ pc = [g \in Loops |-> "none"]
  /\ ctx = [g \in Loops |-> 0]
  /\ doneCh = [g \in Loops |-> 0]
  /\ why = [g \in Loops |-> "none"]
  /\ next = [g \in Loops |-> 0]
  /\ seen = [g \in Loops |-> [chain |-> None, fwds |-> None]]
  /\ chainOpen = {}
  /\ port = [m \in Mapping |-> None]

Goto(g, to) == pc' = [pc EXCEPT ![g] = to]
Transition(g, from, to) == pc[g] = from /\ Goto(g, to)

-----------------------------------------------------------------------------
(* Ways this code could be wrong: each replaces the definition it names to    *)
(* show that a property of this module notices.                               *)

NeverSeesCancel(g) == FALSE                                    \* CtxDone
ReturnsBeforeLoop == TRUE                                      \* LoopSignalled
ClosesNilChannel(g) == doneCh[g]                               \* DoneChannel
RetriesHostKeyError(g) == "retry"                              \* AfterChainError
KeepsMismatch ==                                               \* ReportUp
  lastErr' = "none" /\ state' = "running" /\ UNCHANGED mismatch
DropsError == state' = "degraded" /\ UNCHANGED lastErr         \* ReportLost
StaysRunning == lastErr' = "keepAlive" /\ UNCHANGED state      \* ReportLost
SkipsFirstForwarder(m, owner) ==                               \* PortsWithout
  [port EXCEPT ![m] = IF @ = owner /\ m > 1 THEN None ELSE @]
StaysDegraded(g) == FALSE                                      \* AfterRun
AlwaysRestarts == TRUE                                         \* RestartsWanted
NeverSignals(g) == UNCHANGED closed                            \* SignalDone

-----------------------------------------------------------------------------
(* Contexts. *)

\* The context that loop g is waiting on is cancelled.
CtxDone(g) == ctx[g] \in cancelled

\* s.loopCtx.Err() # nil: the context of the last Start.
LoopCtxDone == gen \in cancelled

-----------------------------------------------------------------------------
(* The calls of the engine. *)

\* The loop of an earlier Start has not ended.
LoopLeft == \E g \in 1 .. gen : pc[g] # "done"

\* Start.  The guard of the code looks at the state alone: a tunnel in error or
\* degraded may still have a loop, and gets a second one (overlaps counts it).
Start ==
  /\ caller = "idle"
  /\ gen < MaxStarts
  /\ state \notin {"running", "starting"}
  /\ gen' = gen + 1
  /\ overlaps' = IF LoopLeft THEN overlaps + 1 ELSE overlaps
  /\ overlaps' <= MaxOverlaps
  /\ recent' = 0
  /\ state' = "starting"
  /\ Goto(gen + 1, "build")
  /\ UNCHANGED <<policy, cancelled, closed, caller, lastErr, mismatch, handles,
                 own, world>>

\* Stop, up to the select.
StopBegin ==
  /\ caller = "idle"
  /\ state \notin {"stopped", "stopping"}
  /\ state' = "stopping"
  /\ cancelled' = cancelled \cup {gen}
  /\ caller' = "stopping"
  /\ UNCHANGED <<policy, gen, overlaps, closed, lastErr, mismatch, handles,
                 recent, pc, own, world>>

\* <-s.loopDone
LoopSignalled == gen \in closed

\* Stop, when loopDone is closed.
StopDone ==
  /\ caller = "stopping"
  /\ LoopSignalled
  /\ state' = "stopped"
  /\ caller' = "stopped"
  /\ UNCHANGED <<policy, gen, overlaps, cancelled, closed, lastErr, mismatch,
                 handles, recent, pc, own, world>>

\* Stop, when the caller's context ends first: the loop goes on by itself.
StopTimedOut ==
  /\ caller = "stopping"
  /\ caller' = "abandoned"
  /\ UNCHANGED <<policy, gen, overlaps, cancelled, closed, shown, handles,
                 recent, pc, own, world>>

-----------------------------------------------------------------------------
(* Building the chain. *)

\* defer evaluates s.loopDone once, when the goroutine first runs.
DoneChannel(g) == IF doneCh[g] = 0 THEN gen ELSE doneCh[g]

\* BuildChain is called with the current s.loopCtx.
BuildBegin(g) ==
  /\ Transition(g, "build", "dial")
  /\ ctx' = [ctx EXCEPT ![g] = gen]
  /\ doneCh' = [doneCh EXCEPT ![g] = DoneChannel(g)]
  /\ UNCHANGED <<quiet, why, next, seen>>

\* The dial of the first hop obeys the context ...
Dialled(g) ==
  /\ Transition(g, "dial", "connect")
  /\ ~CtxDone(g)
  /\ UNCHANGED <<quiet, own>>

\* ... the handshakes and the dials of the later hops obey nothing: they wait
\* for a server, without a context or a deadline (AwaitsServer).  Nothing reads s.chain
\* between the return of BuildChain and its store, so they are one step.
ChainUp(g) ==
  /\ Transition(g, "connect", "forward")
  /\ chainOpen' = chainOpen \cup {g}
  /\ chain' = g
  /\ next' = [next EXCEPT ![g] = 1]
  /\ UNCHANGED <<outer, shown, fwds, recent, ctx, doneCh, why, seen, port>>

\* BuildChain closes the hops it had opened before it returns an error.
ChainFailed(g) ==
  /\ \/ pc[g] = "dial" /\ why' = [why EXCEPT ![g] = "chain"]
     \/ /\ pc[g] = "connect"
        /\ \E c \in {"chain", "hostKey"} : why' = [why EXCEPT ![g] = c]
  /\ Goto(g, "chainErr")
  /\ UNCHANGED <<quiet, ctx, doneCh, next, seen>>

\* s.loopCtx.Err(), read outside the lock.
CheckCancelled(g) ==
  /\ Transition(g, "chainErr", IF LoopCtxDone THEN "aborted" ELSE "chainFail")
  /\ UNCHANGED <<quiet, own>>

\* A host key error is final; any other one may be retried.
AfterChainError(g) == IF why[g] = "hostKey" THEN "exit" ELSE "retry"

ReportChainError(g) ==
  /\ Transition(g, "chainFail", AfterChainError(g))
  /\ lastErr' = why[g]
  /\ mismatch' = (why[g] = "hostKey")
  /\ state' = "error"
  /\ UNCHANGED <<outer, handles, recent, own, world>>

-----------------------------------------------------------------------------
(* Starting the forwarders. *)

\* One forwarder listens: its port must be free.  In mode remote the port is
\* the server's, and its answer is waited for without a deadline.
StartForward(g) ==
  /\ pc[g] = "forward"
  /\ next[g] \in Mapping
  /\ port[next[g]] = None
  /\ port' = [port EXCEPT ![next[g]] = g]
  /\ next' = [next EXCEPT ![g] = @ + 1]
  /\ UNCHANGED <<outer, shown, handles, recent, pc, ctx, doneCh, why, seen,
                 chainOpen>>

\* It fails - the port is taken, by this process or another, or the server
\* refuses: the forwarders before it are to be stopped.
ForwardFailed(g) ==
  /\ Transition(g, "forward", "rollback")
  /\ next[g] \in Mapping
  /\ why' = [why EXCEPT ![g] = "forward"]
  /\ next' = [next EXCEPT ![g] = @ - 1]
  /\ UNCHANGED <<quiet, ctx, doneCh, seen>>

\* fwds[j].Stop(s.loopCtx) closes the listener - in mode remote by a request to
\* the server - and then waits for its clients.
RollbackForward(g) ==
  /\ Transition(g, "rollback", "drain")
  /\ next[g] > 0
  /\ port' = [port EXCEPT ![next[g]] = None]
  /\ ctx' = [ctx EXCEPT ![g] = gen]
  /\ UNCHANGED <<outer, shown, handles, recent, doneCh, why, next, seen,
                 chainOpen>>

Drained(g) ==
  /\ Transition(g, "drain", "rollback")
  /\ next' = [next EXCEPT ![g] = @ - 1]
  /\ UNCHANGED <<quiet, ctx, doneCh, why, seen>>

\* The wait ends because the clients left, whenever they like ...
ClientsLeft(g) == Drained(g)

\* ... or because the context is cancelled: the code gives it no time limit.
DrainCancelled(g) == CtxDone(g) /\ Drained(g)

ReportForwardError(g) ==
  /\ Transition(g, "rollback", "closeChain")
  /\ next[g] = 0
  /\ lastErr' = "forward"
  /\ mismatch' = FALSE
  /\ chain' = None
  /\ state' = "error"
  /\ UNCHANGED <<outer, fwds, recent, own, world>>

\* chain.Close() on the loop's own chain, after the state is published.
CloseFailedChain(g) ==
  /\ Transition(g, "closeChain", "retry")
  /\ chainOpen' = chainOpen \ {g}
  /\ UNCHANGED <<outer, shown, handles, recent, own, port>>

ReportUp == lastErr' = "none" /\ mismatch' = FALSE /\ state' = "running"

\* All forwarders listen.  waitForError then reads s.loopCtx.
Running(g) ==
  /\ Transition(g, "forward", "run")
  /\ next[g] = Mappings + 1
  /\ fwds' = g
  /\ ReportUp
  /\ ctx' = [ctx EXCEPT ![g] = gen]
  /\ UNCHANGED <<outer, chain, recent, doneCh, why, next, seen, world>>

-----------------------------------------------------------------------------
(* Waiting and cleaning up. *)

\* waitForError returns "": no state is set.
StopSeen(g) ==
  /\ Transition(g, "run", "cleanup")
  /\ CtxDone(g)
  /\ why' = [why EXCEPT ![g] = "none"]
  /\ UNCHANGED <<quiet, ctx, doneCh, next, seen>>

ReportLost == lastErr' = "keepAlive" /\ state' = "degraded"

\* waitForError returns a keepalive failure; when the context is cancelled as
\* well, the select picks either.
KeepAliveLost(g) ==
  /\ Transition(g, "run", "cleanup")
  /\ policy.keepAlive
  /\ ReportLost
  /\ why' = [why EXCEPT ![g] = "keepAlive"]
  /\ UNCHANGED <<outer, mismatch, handles, recent, ctx, doneCh, next, seen,
                 world>>

\* cleanup copies the shared handles ...
ReadHandles(g) ==
  /\ Transition(g, "cleanup", "stopFwds")
  /\ seen' = [seen EXCEPT ![g] = [chain |-> chain, fwds |-> fwds]]
  /\ next' = [next EXCEPT ![g] = IF fwds = None THEN 0 ELSE Mappings]
  /\ UNCHANGED <<quiet, ctx, doneCh, why>>

PortsWithout(m, owner) ==
  [port EXCEPT ![m] = IF @ = owner THEN None ELSE @]

\* ... stops those forwarders in reverse order: the graceful timeout bounds the
\* wait for the clients, but not the closing of the listener before it, which
\* in mode remote waits for the server's answer (AwaitsServer) ...
StopForward(g) ==
  /\ pc[g] = "stopFwds"
  /\ next[g] > 0
  /\ port' = PortsWithout(next[g], seen[g].fwds)
  /\ next' = [next EXCEPT ![g] = @ - 1]
  /\ UNCHANGED <<outer, shown, handles, recent, pc, ctx, doneCh, why, seen,
                 chainOpen>>

\* ... and then closes that chain.
CloseChain(g) ==
  /\ Transition(g, "stopFwds", "clear")
  /\ next[g] = 0
  /\ chainOpen' = chainOpen \ {seen[g].chain}
  /\ UNCHANGED <<outer, shown, handles, recent, own, port>>

ClearHandles(g) ==
  /\ Transition(g, "clear", "check")
  /\ chain' = None
  /\ fwds' = None
  /\ UNCHANGED <<outer, shown, recent, own, world>>

CheckAfterRun(g) ==
  /\ Transition(g, "check", IF LoopCtxDone THEN "aborted" ELSE "retry")
  /\ UNCHANGED <<quiet, own>>

\* A cancelled context was observed: the loop reports "stopped" and returns.
Abort(g) ==
  /\ Transition(g, "aborted", "exit")
  /\ state' = "stopped"
  /\ UNCHANGED <<outer, lastErr, mismatch, handles, recent, own, world>>

-----------------------------------------------------------------------------
(* Restart policy. *)

\* After a run the state is still "degraded" and becomes "error" only when
\* the loop gives up; the other failures have set it already.
AfterRun(g) == why[g] \notin {"chain", "forward"}

GiveUp(g) ==
  /\ state' = IF AfterRun(g) THEN "error" ELSE state
  /\ Goto(g, "exit")

RestartsWanted == policy.autoRestart

NoAutoRestart(g) ==
  /\ pc[g] = "retry"
  /\ ~RestartsWanted
  /\ GiveUp(g)
  /\ UNCHANGED <<outer, lastErr, mismatch, handles, recent, own, world>>

\* rateLimitExceeded: some of the recorded times are younger than an hour, the
\* attempt is recorded with them, and the result compared with the limit.
RestartRecorded(kept) == kept \in 0 .. recent /\ recent' = kept + 1

RateLimited(g) ==
  /\ pc[g] = "retry"
  /\ RestartsWanted
  /\ \E kept \in 0 .. recent : RestartRecorded(kept)
  /\ recent' >= MaxRestartsPerHour
  /\ lastErr' = "rate"
  /\ GiveUp(g)
  /\ UNCHANGED <<outer, mismatch, handles, own, world>>

BackOff(g) ==
  /\ Transition(g, "retry", "backoff")
  /\ RestartsWanted
  /\ \E kept \in 0 .. recent : RestartRecorded(kept)
  /\ recent' < MaxRestartsPerHour
  /\ ctx' = [ctx EXCEPT ![g] = gen]
  /\ UNCHANGED <<outer, shown, handles, doneCh, why, next, seen, world>>

\* The select of backoffSleep: with both cases ready it picks either.
BackoffElapsed(g) ==
  /\ Transition(g, "backoff", "build")
  /\ state' = "starting"
  /\ UNCHANGED <<outer, lastErr, mismatch, handles, recent, own, world>>

BackoffCancelled(g) ==
  /\ Transition(g, "backoff", "exit")
  /\ CtxDone(g)
  /\ state' = "stopped"
  /\ UNCHANGED <<outer, lastErr, mismatch, handles, recent, own, world>>

SignalDone(g) == closed' = closed \cup {doneCh[g]}

\* The deferred close(s.loopDone).  Closing a channel twice would end the
\* program, and with it the behaviour.
Exit(g) ==
  /\ Transition(g, "exit", "done")
  /\ doneCh[g] \notin closed
  /\ SignalDone(g)
  /\ UNCHANGED <<policy, gen, overlaps, cancelled, caller, shown, handles,
                 recent, own, world>>

-----------------------------------------------------------------------------

EngineCall == Start \/ StopBegin \/ StopDone \/ StopTimedOut

BuildStep(g) ==
  \/ BuildBegin(g) \/ Dialled(g) \/ ChainUp(g) \/ ChainFailed(g)
  \/ CheckCancelled(g) \/ ReportChainError(g)

ForwardStep(g) ==
  \/ StartForward(g) \/ ForwardFailed(g) \/ RollbackForward(g)
  \/ DrainCancelled(g) \/ ReportForwardError(g) \/ CloseFailedChain(g)
  \/ Running(g)

CleanupStep(g) ==
  \/ StopSeen(g) \/ ReadHandles(g) \/ StopForward(g) \/ CloseChain(g)
  \/ ClearHandles(g) \/ CheckAfterRun(g) \/ Abort(g)

RestartStep(g) ==
  \/ NoAutoRestart(g) \/ RateLimited(g) \/ BackOff(g) \/ BackoffElapsed(g)
  \/ BackoffCancelled(g) \/ Exit(g)

\* The steps a loop takes by itself, and those it owes to its surroundings.
LoopStep(g) == BuildStep(g) \/ ForwardStep(g) \/ CleanupStep(g) \/ RestartStep(g)
OutsideStep(g) == ClientsLeft(g) \/ KeepAliveLost(g)

Next == EngineCall \/ \E g \in Loops : LoopStep(g) \/ OutsideStep(g)

Spec == Init /\ [][Next]_vars

\* Loop g waits for a server that owes it an answer, with no context and no
\* deadline of its own: for a handshake or the dial of a later hop
\* (chain.go:87, 94), for a remote listener to open (remote.go:79) or to close
\* (remote.go:140).
AwaitsServer(g) ==
  \/ pc[g] = "connect"
  \/ /\ policy.remote
     /\ pc[g] \in {"forward", "rollback", "stopFwds"}
     /\ next[g] \in Mapping

\* The scheduler runs every goroutine and timers fire.  Nobody owes a server's
\* answer, a client's departure, a keepalive failure, a Start, a Stop or the
\* end of the caller's context.
Fairness ==
  /\ \A g \in Loops : WF_vars(~AwaitsServer(g) /\ LoopStep(g))
  /\ WF_vars(StopDone)

FairSpec == Spec /\ Fairness

\* The servers answer, or their connections fail, every time a loop waits.
ServerAnswers == \A g \in Loops : []<>~AwaitsServer(g)

-----------------------------------------------------------------------------
(* Properties.                                                             *)
(*                                                                         *)
(* Two loops of one tunnel share its state, its chain and its forwarders,  *)
(* and the guard of Start lets a second one in.  Most of what follows is   *)
(* promised only until that has happened, and says so: Alone.  The run     *)
(* TunnelSupervisorOverlap shows a promise that is broken after it.        *)

\* No Start overlapped a loop so far (supervisor.go:57 does not see to it).
Alone == overlaps = 0

HoldsNothing(g) ==
  /\ g \notin chainOpen
  /\ \A m \in Mapping : port[m] # g

\* As long as no Start overlapped a loop: one that is about to connect, waits
\* to retry or has ended has given back every listener and the SSH chain of its
\* earlier attempt (runLoop's error paths and cleanup, supervisor.go:186-261).
NothingLeaks ==
  Alone =>
    \A g \in Loops :
      pc[g] \in {"none", "build", "dial", "connect", "backoff", "exit", "done"}
        => HoldsNothing(g)

\* As long as no Start overlapped a loop: when Stop returns without an error,
\* the tunnel is shown stopped, every loop has ended, and no listener or SSH
\* chain is left (Stop waits for loopDone, supervisor.go:85-97; engine_test.go:69
\* and :139 rely on it).
StopReturnsClean ==
  (Alone /\ caller = "stopped") =>
    /\ state = "stopped"
    /\ \A g \in Loops : pc[g] \in {"none", "done"} /\ HoldsNothing(g)

\* As long as no Start overlapped a loop and until it is asked to stop, a tunnel
\* shown running is up: one loop waits in waitForError, the chain that Status
\* reports connected is open, and every mapping has its listener
\* (supervisor.go:222-228, Status at 419).
RunningIsBacked ==
  (Alone /\ state = "running" /\ gen \notin cancelled) =>
    \E g \in Loops :
      /\ pc[g] = "run"
      /\ chain = g /\ fwds = g
      /\ g \in chainOpen
      /\ \A m \in Mapping : port[m] = g

\* As long as no Start overlapped a loop, the host key panel of a tunnel is
\* never shown while its chain is up: a success or another failure clears
\* hostKeyMismatch (supervisor.go:126, 190, 225).
MismatchOnlyWhenDown ==
  (Alone /\ mismatch) => state \notin {"running", "degraded"}

\* As long as no Start overlapped a loop, a tunnel shown in error carries a
\* cause: no path reaches the error state with the empty lastErr that Running
\* stores (supervisor.go:224, 238, 270).
ErrorIsExplained == (Alone /\ state = "error") => lastErr # "none"

\* A tunnel in error because of a host key stays so until the user acts: only
\* Start or Stop changes its state ("A changed host key never resolves
\* itself", supervisor.go:149; ROADMAP.md:524).
HostKeyErrorHeld ==
  [][ (state = "error" /\ mismatch /\ state' # state)
        => (gen' # gen \/ caller' # caller) ]_vars

\* The same, as long as no Start overlapped a loop.
HostKeyErrorHeldAlone ==
  [][ (Alone /\ state = "error" /\ mismatch /\ state' # state)
        => (gen' # gen \/ caller' # caller) ]_vars

\* A tunnel goes back to "starting" without a Start only when the policy asks
\* for restarts and, as long as no Start overlapped a loop, when fewer than
\* MaxRestartsPerHour of them are on record and its last failure was not a host
\* key (supervisor.go:156-176, 198-218, 271-292).
RetryIsAllowed ==
  [][ (state # "starting" /\ state' = "starting" /\ gen' = gen)
        => /\ policy.autoRestart
           /\ ~Alone \/ (recent < MaxRestartsPerHour /\ ~mismatch) ]_vars

\* A Stop comes back, whatever the loop was doing when it was called, provided
\* the servers answer.
StopReturns ==
  ServerAnswers => (caller = "stopping" ~> caller \in {"stopped", "abandoned"})

\* Once it is told to stop, the tunnel gives everything back for good, even
\* when the caller of Stop did not wait for it - provided the servers answer
\* and no Start overlapped a loop.  A server that is silent keeps cleanup in
\* the closing of a remote listener, before the chain is closed.
StopSettles ==
  ServerAnswers =>
    (gen \in cancelled ~> (~Alone \/ [](\A g \in Loops : HoldsNothing(g))))

\* No loop stays for ever on the way up or down: "starting" and "degraded" end,
\* provided the servers answer, and unless a client of a forwarder that is
\* being rolled back never leaves.
TransientStatesEnd ==
  ServerAnswers =>
    \A st \in {"starting", "degraded"} :
      (state = st) ~> (state # st \/ \E g \in Loops : pc[g] = "drain")

=============================================================================
