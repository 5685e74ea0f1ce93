# OpsTunnel in TLA+: models, model checking and proofs

OpsTunnel keeps SSH tunnels up: a Go program (a server, or a desktop program
around the same engine) that builds chains of SSH connections, listens for
local, remote or dynamic forwards over them, restarts what fails, and shows all
of it through an HTTP API, a WebSocket and a web interface.  This directory
holds TLA+ modules for the parts of it that are hard to get right, the TLC runs
that check them on small instances, and proofs, checked by TLAPS, that the
main properties hold for every value of the constants.

`PROJECT.json` is the index: components, runs, the mapping from each definition
to the lines it models, the mutants that show each property can fail, findings,
hazards and theorems.

    tlc -config TunnelSupervisor.cfg TunnelSupervisor     # a run
    tlapm TunnelSupervisor_proofs.tla                     # a proof

Contents: 1 inventory · 2 modules and how they match the code · 3 runs ·
4 fairness · 5 proofs · 6 findings · 7 behaviour the models show and no property
forbids · 8 what is not modelled · 9 plan


## 1. Inventory

### How the parts interact

    HTTP API, tray, autostart ──► Engine ──► Supervisor (one per tunnel)
        │        ▲                  │            │
        │        │ events           │            ├─► SSH chain ─► keepalives
        ▼        │                  ▼            │      └─► host key store
    Config ◄── Event bus ◄──── publishes ────────┘
    store                                        └─► forwarders ─► connections
                  Traffic sampler ── asks Engine for the counters ─► traffic store

    Browser tab:  pages ◄─ query cache ◄─ answers ─ HTTP API
                  pages ◄─ EventSocket ◄─ events ── Event bus
                  forms ─► calls ─► middleware (sessions) ─► handlers ─► Config

Two locks order most of the program.  `e.mu` (engine) is held for the whole of
a start, stop, restart or shutdown, including the time Stop waits for a loop to
end; status queries need it too.  `s.mu` (supervisor) is held only around
changes of its fields.  The event bus has its own lock and must never block a
publisher, because the loops publish while Stop, holding `e.mu`, waits for
them.  The API holds one lock around the configuration, which the engine reads
without taking it.

### Components

**Tunnel supervisor** (`internal/engine/supervisor.go`).
*State*: state shown, last error, host key mismatch, the SSH chain, the
forwarders, `loopCtx`/`loopCancel`/`loopDone`, the times of recent restarts.
*Operations*: Start, Stop, Status, and the goroutine `runLoop` with its chain
and forwarder set-up, its wait for a keepalive failure, cleanup and backoff.
*Hard*: Start replaces the context and the channel that older goroutines refer
to; the loop writes the state without looking at the context; Stop may give up
waiting; setting up the n-th forwarder may fail after n-1 succeeded.
*Correct when*: nothing is leaked on any path; a Stop without error leaves
nothing behind; "running" means up; a host key error ends the retries; retries
obey the policy; every Stop comes back.

**Engine** (`internal/engine/engine.go`).
*State*: the map `e.sups`.  *Operations*: StartTunnel, StopTunnel,
RestartTunnel, GetStatus, ListStatus, Shutdown.
*Hard*: long critical sections; a supervisor that is dropped while its loop
still runs; the configuration that changes between two calls.
*Correct when*: whatever runs is reachable or has been told to stop; a restart
runs the configuration of that moment; every call returns.

**Event bus** (`internal/engine/events.go`).
*State*: recent history, subscribers and their channels.
*Operations*: Publish, Subscribe, cancel.
*Hard*: the seam between history and live events; channels that fill up;
closing a channel others send to.
*Correct when*: it never blocks, never reorders or repeats, and drops only from
a full buffer.

**Known hosts and host key verification** (`internal/ssh/hostkey.go`,
`internal/api/handler_hostkey.go`).
*State*: trusted keys in memory and in a file, pending keys in memory.
*Operations*: the handshake's callback in modes insecure, acceptNew and strict;
trust a pending key, revoke a key, list.
*Hard*: several handshakes and requests at once, saves that fail, restarts.
*Correct when*: trust is earned, explicit and durable, and so is its revocation.

**SSH chain and keepalive** (`internal/ssh/chain.go`, `keepalive.go`,
`auth.go`).  *State*: the hops, their keepalive goroutines and error channels.
*Operations*: build hop by hop through the previous one, close in reverse
order, count missed replies.  *Hard*: a hop that fails half way; a peer that
does not answer.  *Correct when*: a failure closes every earlier hop; a dead
connection is reported once.

**Forwarders** (`internal/forward/`: local, remote, dynamic, SOCKS5, access
list).  *State*: listener, open connections, byte counters.
*Operations*: Start, Stop, accept, relay; for SOCKS5 also CONNECT, BIND and the
access list.  *Hard*: stopping while connections are accepted and relayed; half
closed relays; BIND's timer against its accept.  *Correct when*: a stopped
forwarder accepts nothing and has no relay left, or said that it gave up
waiting; the access list decides as documented, with deny first.

**Restart backoff** (`internal/engine/backoff.go`): a delay that grows with
`restartCount` to a maximum, plus up to a tenth of jitter; a Start, or a tunnel
that comes up, resets the count.

**Traffic sampler and store** (`internal/engine/traffic.go`,
`internal/traffic/store.go`).  *State*: two meters, each with the totals it read
last, a ring of samples, records by tunnel and second.  *Operations*: sample,
flush, record, query, prune.  *Hard*: totals that start again from zero; a total
that is wrong for a while; buckets that are not aligned with the range asked
for.  *Correct when*: no byte is counted twice, none is lost, an answer holds
what the history holds.

**Configuration: rules and store** (`internal/config/`).  *State*: the file,
encrypted fields.  *Operations*: load, save, defaults, validation, encryption,
redaction.  *Hard*: a save that fails after the memory has changed; a crash
during a save; values that look encrypted.  *Correct when*: file and memory
agree after every answered request; chains name connections that exist.

**API** (`internal/api/`).  *State*: the configuration in memory under `s.mu`,
the sessions in memory and in a file.  *Operations*: create, change and delete
tunnels and connections; settings; control; login and sessions; the event
stream.  *Hard*: rollbacks that are missing in some handlers; two requests that
each are right and together are not; sessions that expire while they are looked
up and written; a restart after a write that failed.

**Programs** (`cmd/tunnel-server`, `cmd/tunnel-desktop`).  Wiring, autostart of
tunnels, shutdown; on the desktop a tray that follows the events of the bus and
calls the engine.  *Hard*: the tray shows a copy of the states that only events
refresh.

**Web interface: events and status** (`ui/src/lib/ws.ts`, `hooks/use-tunnels.ts`,
the list, the detail page, the dashboard, the dialog that trusts a key).
*State*: the socket and its buffer, the cached status and the reading under way,
the dialog, the mutations.  *Operations*: connect, message, close; read,
invalidate, poll, cancel; navigate, click, confirm.  *Hard*: three asynchronous
channels that overtake each other; replays after a reconnect and for a late
listener; a page that is left while its call is under way; what the user
confirms changing under the dialog.  *Correct when*: the key that becomes
trusted is the one that was shown; what the page was told is read; a tunnel that
is down is not shown as up for ever.

**Web interface: forms, settings and login** (`ui/src/components/ssh`,
`components/tunnel`, `components/settings`, `pages/login.tsx`, `router.tsx`).
*State*: the cached lists, the form and its fields, the calls under way, the
cookie.  *Hard*: forms filled from masked and from old answers; answers that
meet another form than the one that asked; a session that ends under an open
form.  *Correct when*: what is shown in place of a secret is never stored as one.

The hazards found in these parts are in `PROJECT.json` under "hazards", each at
its line, with the properties that watch it or the reason why none does.


## 2. Modules and how they match the code

| Module | Models | Companion modules |
|---|---|---|
| `TunnelSupervisor` | one supervisor and its loops, step by step | `TunnelSupervisor_proofs` |
| `TunnelEngine` | the engine over several supervisors, callers, edits of the configuration, the tray | `TunnelEngineMC`, `TunnelEngine_proofs` |
| `EventBus` | Publish, Subscribe, cancel and the readers | `LossyFeed` (abstract), `EventBus_proofs` |
| `HostKeyTrust` | handshakes, store, pending keys, trust and revoke requests | `HostKeyTrustMC`, `HostKeyTrust_proofs` |
| `TunnelConsole` | the web interface at work on one tunnel, against the handlers it calls | `TunnelConsoleMC`, `TunnelConsole_proofs` |
| `ConfigService` | the configuration in memory and in the file, and the handlers that change it | `ConfigService_proofs` |
| `Sessions` | login sessions in memory and in their file | proved about in `WebAdmin_proofs` |
| `WebAdmin` | the forms, settings and login of one tab, over `ConfigService` and `Sessions` | `WebAdminMC`, `WebAdmin_proofs` |
| `TrafficAccounting` | counters, totals, meters, history and its queries | `TrafficAccounting_proofs` |

Every module with operators that a bug could change has a section "mutants":
alternative bodies of single definitions.  They are in no specification; they
are used to see that each property fails when the code is broken in that way.

### TunnelSupervisor

A step is the code between two points where another goroutine can get in: a
critical section of `s.mu`, a blocking call, or a read of a field of `s`
outside its lock.  `pc[g]` is the place of the goroutine that the g-th
successful Start spawned.

| Code | Model |
|---|---|
| `s.state`, `s.lastErr`, `s.hostKeyMismatch`, `s.chain`, `s.fwds` | `state`, `lastErr`, `mismatch`, `chain`, `fwds` |
| `s.loopCtx`, `s.loopDone` | named by the Start that made them: the current ones are `gen`; `ctx[g]` is the context loop g read when it entered its select |
| `loopCancel()`, `close(s.loopDone)` | `cancelled`, `closed` |
| `defer close(s.loopDone)`, evaluated when `runLoop` begins | `BuildBegin` fixes `doneCh[g]`; `SignalDone` closes it |
| `Start`; `Stop` to its wait; its two ways out | `Start`; `StopBegin`; `StopDone`, `StopTimedOut` |
| `BuildChain` and its failures | `BuildBegin`, `Dialled`, `ChainUp`, `ChainFailed`, `CheckCancelled`, `ReportChainError` |
| `startForwarders` and its rollback | `StartForward`, `ForwardFailed`, `RollbackForward`, `ClientsLeft`, `DrainCancelled`, `ReportForwardError`, `CloseFailedChain` |
| success, `waitForError`, loss | `Running`, `StopSeen`, `KeepAliveLost` |
| `cleanup` (reads the handles under the lock, works outside it) | `ReadHandles`, `StopForward`, `CloseChain`, `ClearHandles` |
| `scheduleRestart`, rate limit, backoff | `NoAutoRestart`, `RateLimited`, `BackOff`, `BackoffElapsed`, `BackoffCancelled`, `GiveUp` |

Abstracted: how long a delay is, the wording of errors (their cause is kept),
byte counters, timestamps, log events.  Restart times older than an hour may
leave the record at any attempt (`RestartRecorded`).

`overlaps` counts, as history, the Starts that found a loop of an earlier one
left.  The code does **not** prevent them (`supervisor.go:57` looks at the state
alone; see the findings), so the model does not either: `MaxOverlaps` is only a
bound of an instance.  Two loops share the state, the chain and the forwarders
of the tunnel, and most of what the supervisor promises ends there; these
properties say so, by the premise `Alone == overlaps = 0`.

`AwaitsServer` marks the places where a loop waits for a server with no context
and no deadline of its own: the dial of a later hop, a handshake, and the
opening and closing of a remote listener (`policy.remote`).

### EventBus and LossyFeed

An event is the number of its publication.  A channel is modelled by all events
ever sent on it (`sent`) and how many were received (`read`); its buffer is the
difference.  `SubscribeBegin`, `SendRecent` and `SubscribeEnd` are one critical
section of the code, split so that a send on a full channel while the lock is
held would be visible: `filling` is the reader that holds it.  `Cancel` and
`Drain` are the two halves of cancel.

`LossyFeed` is what a reader may rely on: the latest events when it joins, then
events in order of publication, some possibly missing, none twice.  `FeedSpec`
is the bus seen through the mapping at the end of `EventBus`.

### HostKeyTrust

Each method of `JSONHostKeyStore` is one step, with the success or failure of
its save inside it; a handshake is a lookup, then an acceptance, an Add or a
parked pending key; a request is a check, then an Add or a Delete, then the
removal of the pending key.  `SaveFailed` leaves memory changed and file
unchanged, as in the code; `Restart` reads the file again and forgets the
pending keys and everything under way.  History variables: what each host
offered, which keys were earned, and what the last answered request promised.

### TunnelEngine

`lock` is the caller that holds `e.mu` for writing.  A supervisor here is a
record with its tunnel, the version of the configuration it copied, its state
and its current context; a loop is a phase (dial, connect, up, cleanup, failed,
wait, gone) and the context it read.  Retries and failures are free choices:
policies and causes are settled in `TunnelSupervisor`, whose steps these are,
grouped as coarsely as the engine can tell apart.  That grouping is argued, not
proved.  `Create`, `Edit` and `Delete` change the configuration (`listed`,
`conf`) at any time and tell neither the engine nor the tray.

The tray receives an event, lists the states of the configured tunnels for its
icon, and then goes through its items, with the read lock once for each
(`TrayReceive`, `TrayList`, `TrayItem`, `TrayDone`); its channel holds
`TrayBuffer` events.  The items are made once, from the tunnels of the start.
The i-th of them takes its name from the i-th tunnel of the configuration, its
state from the tunnel it was made for, and the walk ends where either list does
(`tray.go:160-169`): after d deletes the last d items are never refreshed again.
Tunnels are numbered in the order of their creation, so item i is that of
tunnel i.

### TunnelConsole

The server side is the supervisor reduced to the states it announces, with the
one thing that matters to a client: a stop or restart holds `e.mu` across steps
(`engine`), and `GetStatus` waits for it.  An event is the position of its
publication.

| Code | Model |
|---|---|
| `EventSocket.ws`, `buffer`, the events under way | `link`, `buffer`, `wire` |
| `connect`, `onmessage`, `onclose` with its delay | `Connect`, `OnMessage`, `Closed` |
| `onEvent`, which replays the buffer to a new listener | `Replayed`, in `Navigate` |
| `useTunnelStatus`: data, fetch in flight, invalidated | `shown`, `fetch` with `reply`, `stale` |
| `refetchInterval`; focus; one retry | `Due` and `Poll`; `Refocus`; `StatusFails` |
| `invalidateQueries`, which cancels a reading unless it is the first | `Invalidated` |
| buttons of card and header, `isBusy`, dialog and its `onTrusted` | `CardOffers`, `HeaderOffers`, `Busy`, `OpenDialog`, `CallReturns` |

React Query is external; what is taken from it are the defaults `main.tsx` leaves
alone.  A mutation whose page was left is still answered, but nobody is told
(`mine`).

### ConfigService, Sessions, WebAdmin

A handler of `ConfigService` runs under `s.mu`, but its save is a step of its
own (`SaveRenames`, `SaveFails`), because the program may die before, in or
after it.  `undo` is where the handler goes back to; a delete has nothing to go
back to, and settings are taken over field by field, both as in the code.
`loose` is history: which of these two left memory different from the file.
Records keep the fields the rules look at: authentication, the secrets, the
chain, the limits of the backoff (500 and 15000 ms are 1 and 2), and `sound` for
everything that is validated field by field.

`Sessions` has one action per method of the session store, with the write of
the file, which may fail and is then forgotten, inside it.  Two history
variables follow the logouts whose write failed: `owed` until a later write
succeeds, `undone` once the program was restarted before that.

`WebAdmin` puts one browser tab and a second client with the bearer token around
them.  A call goes through phases: `sent`, `admitted` or `denied` by the
middleware, `served` under `s.mu`, answered, and `over` once the tab has noticed.
The tab acts between any two of them.  `form` is the form or dialog that is
open, with what was typed; `seen` are the cached lists it was filled from;
`by` says who waits for the answer of a call: the form that sent it, the page
that showed the form, or nobody.

### TrafficAccounting

`fwd` is the counter of the forwarders, `cum` the total the supervisor carries
over, `base` what each meter read last.  `closing` is the time between the
addition of the counters to the total (`CloseBegin`) and the drop of the
forwarders (`CloseEnd`), in which `Status` counts them twice.  `removed` are the
tunnels deleted from the configuration: a delete tells the engine nothing, so
one that runs goes on, can be stopped but not started, and is read by no meter.
A restart brings it back if the delete could not be saved.  History variables:
the bytes moved, those of them that were moved while closing, what each meter
counted, whether the total started over, and whether a meter read the total in
that window (`blurred`).  One direction is modelled.  A second loop beside a
dying one belongs to `TunnelSupervisor`; here it only blurs the accounts.  The
clock counts seconds, the resolution of the keys of the history.


## 3. Runs

Distinct states are those of the complete state space of the instance.

| Run | Instance | Distinct states | Shows |
|---|---|---|---|
| `supervisor` | 2 starts, no overlap, 2 mappings, limit 2, all policies, local and remote listeners | 17,184 | 6 invariants, 2 action and 3 liveness properties |
| `supervisor_overlap` | 2 starts, the second may overlap | – | violates `HostKeyErrorHeld` |
| `eventbus` | 2 readers, history 2, buffer 1, 6 events | 265,624 | 4 invariants and the refinement of `LossyFeed` |
| `hostkeys` | 2 hosts, 2 keys, 2 handshakes, 1 request | 3.2 million (symmetry) | trust is earned and survives a restart |
| `hostkeys_revoke` | 1 host | – | violates `RevocationSurvivesRestart` |
| `hostkeys_first_use` | 1 host | – | violates `KeyChangeIsConfirmed` |
| `engine` | 2 tunnels, 3 scripted calls of 2 callers, 1 edit, tray buffer 1 | 2,605,120 (view) | accounting, tray, restart |
| `engine_calls` | 2 tunnels, 3 scripted calls of 2 callers | 151,170 (view) | every call returns |
| `engine_orphan` | 1 tunnel, 1 caller, 4 calls | – | violates `StoppedTunnelLetsGo` |
| `console` | 1 tunnel, 2 keys, four alternatives of up to 3 events and 2 calls | 457,815 | 5 invariants and 2 liveness properties of the interface |
| `admin` | 2 connections, 2 tunnels, 1 secret, six alternatives of up to 3 calls | 1,646,219 | configuration, secrets and sessions stay consistent |
| `traffic` | 1 tunnel, 2 bytes, 3 seconds, ring of 1 | 912,939 | bytes are counted once, queries are exact |

**supervisor.**
`NothingLeaks` follows listeners and chains through every failure path.
`StopReturnsClean` relates the end of Stop to all loops, not only the one it
waited for.  `RunningIsBacked` relates what is shown to what is open.
`HostKeyErrorHeldAlone` and `RetryIsAllowed` are about steps: nobody but the user
brings a tunnel back from a changed key, and nobody retries against the policy.
`StopSettles` says that a cancelled tunnel gives everything back even if its
Stop gave up.  The three liveness properties have the premise `ServerAnswers`
(section 4): without it a Stop need not return, because `RemoteForwarder.Stop`
closes its listener with a request that waits for the server (`remote.go:140`),
and what the loop then still holds, its chain included, is not given back.
*Bounds*: two starts give one complete life after another, so a
channel or context left by the first is there to be confused with those of the
second; two mappings are the least with a first, a last, and a rollback of one
that did start; a limit of two restarts reaches the limit, and since the
attempt is recorded before it is compared, one restart is made.  With a limit
of two the record is at, below and back below the limit as entries expire.

**eventbus.**  *Bounds*: a history of two is shorter than the six events, so it
is trimmed and wraps; a buffer of one is the least that accepts a live event;
six events allow a reader that joins with a full history to fill its whole
buffer (three) and then to lose events; two readers make one lag while the
other joins.  `NothingVanishes` counts: sent plus dropped is history plus later
events, so none slips between the copy of the history and the registration.

**hostkeys.**  *Bounds*: two handshakes are the least that can interleave on one
host; with two keys the host can change its key; with two hosts the save of one
writes the changed memory of the other, which is how a failed save becomes
durable later.  Symmetry among hosts, keys and handshakes; only invariants are
checked under it.

**engine.**  A script says who may ask for what in each call (`EngineScript`): a
patient caller (the tray, the autostart: its context never ends) starts tunnel 1;
a hasty one asks anything of it; a patient one asks anything of it once more, a
shutdown included.  *Bounds*: three calls contain restart and stop in any order,
with a call queued behind one that waits, and a supervisor dropped by a Stop that
timed out while the next one starts.  One edit creates a tunnel, changes one or
deletes any.  Two items are the least of which a delete leaves one behind that
takes the other's name.  A channel of one event makes the loss of events possible
at once.  The calls are about tunnel 1; that the exclusion of the last items in
`TrayIsCurrent` is needed shows only when tunnel 2 runs, which the theorem covers
for all calls.  The `VIEW` `NotOutdated` leaves out what the tray shows once an
event was dropped, and the list it made for its icon while that will be made
anew: nothing reads either before it is written, and no property speaks of it.
`TrayIsCurrent` is less obvious than it looks: dropping a supervisor from the
map publishes nothing, and the tray is right only because the last event is
published inside the critical section that ends with the drop, so that its
reading waits for the lock.  It says nothing of the items that deletes took out
of the refresh (section 7).

**engine_calls.**  The script (`CallsScript`): tunnel 1 is started; then tunnel 2
is, or a hasty caller stops or restarts tunnel 1; then tunnel 1 is started or
stopped once more, or everything is shut down.  So a call queues behind a Stop
that waits for its loop and may time out, a Shutdown waits for the loops of two
tunnels at once, and a tray with room for one event reads under the same lock.
No edit: it takes no lock.  The `VIEW` `NotShown` leaves out what the tray shows,
which no action reads; every action whose fairness is assumed changes something
else as well.

**console.**  The product of events, clicks, keys and reconnects is out of reach,
so a behaviour has one of four bounds (`ConsoleBounds`), fixed at its start:
three events, one of them a log line or of another tunnel, with a socket that
connects and breaks and no click; three changes and a call without any socket,
where readings may fail; two calls (trust after trust, trust and revoke, a test
and what follows it) and two keys that change underneath; a call while events
arrive.  The channel (1 beyond the history) and the buffers (2) are smaller than
the three events, so events are lost and buffers wrap.  `TrustedWasShown` needs
the dialog, a second handshake and a status read again to go wrong;
`SocketInOrder` and `LogEndsWithBuffer` a reconnect with its replay and a page
opened in between; `ToldIsRead` an event that overtakes a reading.
`UpIsFollowed` and `DashboardSettles` must hold without any socket.

**admin.**  Six alternatives (`AdminBounds`): the form of connections with
reveals, against a client that changes the authentication underneath; the form
of tunnels against a client that deletes the connection; connections deleted
while a tunnel is created over them, with failing saves and a restart; deletes of
tunnels and the settings on a file that today's rules refuse, with failing saves
and a restart; login, logout, expiry and a restart with a disk that may refuse;
the edit of a chain of two hops.  Two connections are the least for a chain with
an order and for one that is used and one that is not; calls are two, one that is
under way while another is sent, three where login, logout and a change follow
each other; two tokens let a second session exist when the first has ended.
One secret is enough: no rule compares two.

**traffic.**  One tunnel, because the accounts of tunnels are independent but
for the queries, which only add them up; two bytes, so that one is counted and
one is not; three seconds, so that the buckets of a query, of every
width from one second to more than the whole history, start inside, at and
outside of a range; a ring of one that overflows at the second sample.  The
theorems say the same for every number of each.

Deadlock is not checked in the supervisor, bus, engine, console, admin and
traffic runs, because those systems do come to rest: the bounds on starts,
events, calls and bytes end them, and a stopped tunnel stays stopped.  The liveness properties take its place.  The
host key run never rests and checks it.


## 4. Fairness

*TunnelSupervisor*: weak fairness of each loop, but for the steps that wait for a
server, and of the return of Stop.  Goroutines are scheduled, timers fire, and the
dial of the first hop ends (it obeys the context and has a timeout,
`chain.go:81`).  Everything else that asks a server has no deadline and no
context: the dial of a later hop through the one before it (`chain.go:87`), every
handshake (`chain.go:94`), and for remote forwards the opening (`remote.go:79`)
and the closing (`remote.go:140`) of the listener, the latter before
`RemoteForwarder.Stop` comes to the wait that is limited by the grace period.
`AwaitsServer` names these places.  That they end is no part of the fairness but
the premise `ServerAnswers` of the three liveness properties: what they promise,
they promise as long as servers answer or connections break.  A server that goes
silent without breaking the connection can hold a Stop up, and with it `e.mu`,
until its caller's context ends; a keepalive does not help once the loop is in
cleanup.  Not assumed: that a client of a forwarder being rolled back leaves
(`ClientsLeft`), that a keepalive fails, that anyone calls Start or Stop, or that
the context of a Stop ends.  `TransientStatesEnd` therefore excepts the rollback
that waits for a client.

*TunnelEngine*: strong fairness of taking the lock, for callers and the tray
(`sync.RWMutex` does not starve a waiter, and the lock is released again and
again); weak fairness of a caller that holds it, of the loops and of the tray's
receive.  The fairness of the loops holds under the same premise as above:
`CallsReturn` is promised as long as the servers answer, since a patient caller
(`context.Background()`, `tray.go:121-125`) waits for its loop without limit.
Status queries wait for `e.mu` for as long.  Not assumed: that the context of a
caller ends, that a tunnel that is up is lost, that the configuration changes.

*TunnelConsole*: weak fairness of the poll (a timer) and of a stop that has
begun (`StopReturns` of the supervisor); strong fairness of the answer and of
the arrival of a status.  The second is needed because each reconnect replays
events, each of which cancels a reading under way: an answer can be overtaken
again and again, but reconnects are at least a second apart (`ws.ts:45-51`), far
more than a reading takes.  Two more assumptions are in the fairness of the
poll: the browser believes that it is online (React Query pauses its readings
while `navigator.onLine` is false), and the page is in the foreground
(`refetchInterval` pauses in the background; `Refocus` reads again).  The list and
the dashboard ask for a status once the list of tunnels has loaded; `Navigate`
takes it as loaded.  Not assumed: that the socket ever connects or
delivers anything, that a user does anything, that a loop moves.

*EventBus*, *HostKeyTrust*, *WebAdmin* and *TrafficAccounting* have safety
properties only and no fairness.


## 5. Proofs

Every invariant that a passing run checks is also a theorem, and so are the
action properties of the supervisor and of the engine and the refinement of
`LossyFeed`; what is left to TLC alone is at the end of this section.  Nothing is
assumed but the named assumptions on constants in each module, which TLC
evaluates on the instances.  Most say that a bound is a natural number, or that a
set is finite (the tunnels of the history are added up, so there must be finitely
many; the alternatives of a run are a finite set).  Two say more.
`ConsoleConstants` and `AdminConstants` describe the alternatives a behaviour
chooses from: a file to start with whose chains name what exists, since the file
is loaded as it is (section 7), and requests of the second client that the
handlers can decode, since all others are refused before they reach the
configuration (`decodeBody`).  `OthersSendSecrets` says that neither this file
nor this client has the mask in place of a secret: a client that sends a mask
back has it stored, and `MaskIsNeverStored` is a property of the pages.

| Theorem | States |
|---|---|
| `TypeCorrect` | every variable of the supervisor keeps its type, overlap or not |
| `NoLeak`, `CleanStop`, `RunningTunnelIsUp`, `MismatchMeansDown`, `ErrorHasCause` | the invariants of the supervisor run, as long as no Start overlapped a loop; `supervisor.go:57` does not see to that |
| `HostKeyErrorIsFinal`, `RestartIsPolicy` | its two action properties (`HostKeyErrorHeldAlone`, `RetryIsAllowed`) under the same premise; that a retry is one the policy asks for holds without it |
| `EngineTypeCorrect`, `NothingUnaccounted`, `TrayNeverWrongInSilence`, `RestartRunsCurrent` | the invariants and the action property of the engine run |
| `BusTypeCorrect`, `SubscribeNeverBlocks`, `EventsAddUp`, `BufferIsHonoured` | the invariants of the bus |
| `ImplementsFeed` | the bus refines `LossyFeed` |
| `TrustTypeCorrect`, `OnlyEarnedTrust`, `TrustIsDurable` | the invariants of the host key run |
| `ServiceTypeCorrect`, `ChainsNeverDangle`, `MemoryFollowsFile` | the configuration keeps its type, its references and its agreement with the file |
| `EndedStaysOut` | a session that was logged out of is not valid again, but for a logout whose write failed and that no later write made good before a restart |
| `AdminImplementsService`, `AdminImplementsSessions` | the pages, calls and clients of `WebAdmin` drive the configuration and the sessions only as `ConfigService` and `Sessions` allow |
| `AdminTypeCorrect`, `PagesLeaveNoDanglingChain`, `PagesLeaveMemoryAsFile`, `PagesStayLoggedOut`, `MaskStaysOut` | the five invariants of the admin run |
| `ConsoleTypeCorrect`, `OnlyShownKeysTrusted`, `EventsInOrder`, `LogIsComplete`, `WhatWasToldIsRead` | the five invariants of the console run |
| `TrafficAccounting_proofs!TypeCorrect`, `NoDoubleCount`, `NothingLost`, `AnswerIsExact` | the accounts of the traffic (a tunnel taken out of the configuration is owed nothing), and that the answers to queries add up |

**Supervisor.**  None of the invariants is inductive: whether a loop may open a
listener depends on there being no other loop, and whether Stop may return on
which channel a loop will close.  The inductive invariant is
`IInv == TypeInv /\ (Alone => LoopInv)`: the types always, the rest as long as
no Start overlapped a loop, which once it has happened is never undone.  Its
parts:

- `TypeInv`, the types, and that a loop exists only after a Start, knows its
  channel once it builds, and has a forwarder in hand while it waits for one;
- `OneLoop`, only the loop of the last Start can be alive;
- `SignalsInv`, which channel each loop will close and which context it holds,
  so that the channel Stop waits for is closed by the loop Stop has cancelled;
- `HandlesInv` and `PortsInv`, for each place of a loop, whether its chain is
  open, which handles point to it and on which ports it listens; in the middle
  of starting or stopping, the ports up to an index;
- `ShownInv`, what is shown in each place: that `error` has its cause, that a
  mismatch on display means that the tunnel is not up.

There is one lemma per part and per family of steps, with one case per action;
`IInvNext` puts them together.  No theorem has a hypothesis on the instance:
`Alone` is part of the properties, since `OneLoop` is false without it and so is
most of what they say.  `supervisor_overlap` shows this for a changed host key,
which is why that run checks `HostKeyErrorHeld`, the form without the premise, and
`engine_orphan` for a Stop.

**Engine.**  `AccountedFor` and `TrayIsCurrent` rest on one fact, `CancelInv`: a
supervisor whose context is cancelled is in the map only while the call that
stops it holds the lock, and then the tray has an event left to read, lost one,
or waits for that lock.  `StopInv` says what that call has stopped so far, so
that whatever it drops is cancelled; `Homes` that a loop waits only on contexts
of its own supervisor, so that a backoff that is cancelled belongs to a
supervisor that is; `Counted` that a call starts at most one loop, which bounds
all sequences.  `OnlyStartStartsOld`, that a restart never finds the supervisor
it dropped, gives `RestartAppliesConfig`.  For the tray two more parts: `CfgInv`,
that until the first delete the i-th tunnel of the configuration is the i-th that
was created, and that a tunnel not yet created runs nowhere; and `ViewInv`, that
when nothing is left to learn, every item the round of the menu has come past
(`Past`) shows the state of its tunnel, unless it is among the last `Deleted`
items.  It has to speak of a round that is half way, since configuration and
states can change between two items.

**Bus.**  `IInv` says that the history is exactly the latest events
(`HistoryInv`), that a registered reader is not being filled or drained
(`PhaseInv`), and how far the fill of a new channel has come (`FillInv`).  With
`NothingVanishes` and `BufferHonoured` it is inductive.  For the refinement,
`HistoryIsLatest` shows that the history handed over is the one `LossyFeed`
hands over; each step is then a step of the feed or a stutter: `SubscribeEnd`
joins, `Cancel` leaves, `Publish` publishes to those whose buffer had room.

**Host keys.**  `TrustIsEarned` needs `OnTheWay`: a key that a handshake or a
request is about to add was offered, and is confirmed or comes to a host that
had none.  `TrustSurvivesRestart` needs `MemoryAgrees`: a promise that was
answered holds in memory too, because every later save writes the memory of all
hosts.  `SetEntryKeeps` states once what a change of one entry, saved or not,
does to the promises.

**Configuration.**  A request ends in one of four ways, which `RequestEnds`
proves of every handler and every body: accepted and being saved, refused
without a trace, a delete that only takes a record away, settings taken over
half way.  The invariant `Promises` is kept by each of the four.  What makes it
inductive is that while a save runs the agreement with the file is a property of
`undo`, not of memory, and that a delete which left memory smaller than the file
can be followed by any number of others.  These theorems are about `ServiceSpec`,
the service under every request.

**Sessions.**  `FileFollows`: a session that is in the file and not in memory has
expired there, or its logout is `owed` a write; and one in memory expires there no
later than in memory.  So a restart brings back nothing but what was owed, and
`LoadSessions` records that as `undone`.  `EndedIsOut` excepts exactly these, for
the code does bring them back (section 7).

**Pages over the service.**  `AdminImplementsService` is what carries the
theorems about the service over to the pages.  The service is open: it accepts
every request a handler can decode.  So the obligation is that every call the
tab sends is one of these (`Sendable`), at the time it is *served*, which may be
long after the form that sent it was filled, edited, closed or replaced.  The
invariant is `TabTyped`: calls that wait or were admitted are sendable
(`CallOK`), drafts are records of the service (`FormOK`), cached lists are lists
of records (`Lists`), the call whose save is under way is a change
(`ServingOK`), and an answer to a reveal is a value of a field that can be
revealed.  It needs lemmas about what a form makes of a record: a redacted
record is one that a form can show and send back (`RedactedConn`,
`RedactedTunnel`, `DraftsFit`), and a chain keeps its type when a hop is removed
(`WithoutType`) or moved (`MovedType`).  `StepSimulates` then says of every step
that it is a request, an outcome of a save, a restart or a stutter of the
service, and likewise of the sessions.

`MaskIsNeverStored` takes a second invariant, `Unmasked`, over five places a mask
could hide in: memory, file, the copy to go back to, the open form, the calls
with their answers.  The form is empty where the list had a mask
(`FormMade` and `PlainDraft`); a revealed secret comes from memory, where there
is none (`RevealPlain`); a body that omits a field takes it from the record it
changes (`MergedPlain`); a rollback or a restart brings back what had none.

**Interface.**  `TrustedWasShown` needs `Trusty`: every call to trust a key names
one the user accepted; whatever key waits when the call is served, `Matches`
lets through no other.  `SocketInOrder` needs to know that no event in the buffer
or on the way is later than the last published, that the buffer is before the
wire, and that a dialling socket remembers nothing, so that the replayed history
repeats nothing (`Ordered`).  `ToldIsRead` needs the same for the answer on its
way (`Heard`): it was given after everything the page was told, because being
told cancels the reading.

For `LogEndsWithBuffer` and the sizes in `TypeOK` this invariant is extended to
`Complete`.  `Sized` says that the log of a page ends with what is logged of the
buffer: a message that arrives is added to both, the buffer may drop its oldest
and the log its own, and `Kept` of the shorter buffer is an end of `Kept` of the
longer one (lemmas about `Kept`, by induction over the sequence).  The log never
loses what the buffer still has because both hold `MaxBuffer` and the log is
trimmed no earlier.  `Counted` says that a stop that has begun announces at most
two more changes, one of which is behind it when it shows `stopped`, which bounds
the events; that no call is forgotten keeps `engine` pointing to one.  `Read`
says that no answer is younger than the last event.  None of this needs fairness
or the bounds of `ConsoleBounds`.

**Traffic.**  `NoByteIsCountedTwice` is not inductive: a meter that has not
noticed that a total started over owes less than it will count.  `OwingAt` states
what it owes in both cases, and is inductive together with `TunnelAt` and
`NothingIsLost`.  Of a tunnel that was removed while it ran the meters owe
nothing; what stays true is that no more was counted than moved.  `Reads` proves once what a reading that does not blur takes;
`KeepsAccounts` and `StartsOver` what the two kinds of steps of a tunnel do to
the accounts of all meters.

`QueryIsExact` compares two sums: that over the buckets of the answer, and that
over the records in the range.  `BucketsPartition` is the arithmetic: rounding
down to the width of a bucket puts every second of the range into one bucket that
the query starts, and no second into two.  `SumOfParts` is the algebra: the sum
over a union of disjoint finite sets is the sum of the sums (from `SumOfTwo`,
`SumTakes` and `SumWithout`, by induction over finite sets).  `QueryAddsUp` puts
them together for every range and width; the type invariant is all it needs of
the state.

**Induction over data.**  The induction theorems of the library take an operator
as parameter, which the provers cannot instantiate.  The proofs above use
instances that take a *set* instead and are first-order: `Least` (a nonempty set
of numbers has a least element, from the well-foundedness of `<` and `WFMin`),
from it `Induction`, and in the same way `FiniteInduction` over the subsets of a
finite set and `Recursion`, that a function defined by recursion exists.  So what
is recursive in a module with theorems is a recursive function (`Kept`,
`Without`, the folds behind `SumFunction`), not a RECURSIVE operator and not
`SelectSeq`, about which the prover knows nothing.  `Least` and `Induction` stand
in each of the three modules that need them, each of which extends the module of
its own component only.

**Only model-checked.**  Liveness under fairness (`StopReturns`, `StopSettles`,
`TransientStatesEnd`, `CallsReturn`, `UpIsFollowed`, `DashboardSettles`), which is
outside what the prover handles, as is ENABLED.  The violations of section 6 are
counterexamples, which TLC finds.  Everything else that a run checks is proved.


## 6. Findings

Each is a run that must end in a violation.

1. **`supervisor_overlap`, `HostKeyErrorHeld`** (`supervisor.go:57`).  Start
   refuses only a tunnel that is running or starting.  A tunnel in error whose
   loop is backing off gets a second loop.  When the second ends on a changed
   host key, the backoff of the first elapses and the tunnel goes back to
   starting, although "A changed host key never resolves itself"
   (`supervisor.go:149`) and retries are documented as suppressed.
2. **`engine_orphan`, `StoppedTunnelLetsGo`** (`supervisor.go:61`).  The same
   overlap, one call further: the first loop comes up on the context of the
   second Start, a third Start replaces that context without cancelling it, and
   Stop cancels only the third.  The supervisor is dropped and the first loop
   keeps listening; no call reaches it any more.
3. **`hostkeys_revoke`, `RevocationSurvivesRestart`** (`hostkey.go:141`).  A
   revocation whose save fails is answered with an error but has left memory.
   Repeated, as an idempotent request may be, it finds nothing to delete and
   succeeds without saving: the key is trusted again after a restart.
4. **`hostkeys_first_use`, `KeyChangeIsConfirmed`** (`hostkey.go:266`).  In mode
   acceptNew lookup and Add are two critical sections.  A second handshake that
   looked up before the first stored its key replaces that key with its own, a
   change of a trusted key nobody confirmed.


## 7. Behaviour the models show and no property forbids

Each of these is a path of the code that the models contain; the properties are
stated so that they hold beside it, and name it where they have to.  No run
exhibits one, so none is a finding of `PROJECT.json`.  That does not mean that the
source approves of them.  Against the first three stands a line of the source
itself; about the others it says nothing that was found.

*Where a document, a text or a comment says otherwise.*
- "On tunnel stop, flush immediately" (`ROADMAP.md:58`): no stop flushes, only the
  timer and the end of the sampler (`traffic.go:130-147`, `engine.go:93-102`).
  What a tunnel moved since the last flush is lost to the records when it stops.
  `NothingIsLost` therefore ends at the moment a total starts over.
- "(unchanged if empty)" (`en.json:124`), the placeholder of a secret: an empty
  password is refused and an omitted passphrase erased.
- "updates icon, tooltip, and per-tunnel labels on state change" (`tray.go:152`):
  the walk over the items ends with the shorter of items and configuration
  (`tray.go:160-163`), so that after a delete the last items are never refreshed,
  items before them may carry the name of a neighbour, and a tunnel created later
  has no item at all.

*Engine.*
- `deleteTunnel` (`handler_tunnel.go:135-162`) never asks the engine to stop
  anything.  A tunnel that runs goes on, is in no list any more
  (`engine.go:141`) and can still be stopped by who knows its name; its bytes
  are counted by nobody.  No event is published, so that the icon of the tray
  keeps counting it until another tunnel changes.

*Traffic.*
- From the addition of the counters to the total until the forwarders are
  dropped, up to the grace period of the drain, `Status` counts their bytes
  twice (`supervisor.go:247-261`); the drop that follows is taken for a total
  that started over, and the whole total is counted once more (`blurred`).
- Bytes moved in that time are in no total afterwards (`late`).
- The last flush runs after the engine was shut down and finds no tunnel: what
  was moved since the flush before is not recorded.
- A tunnel deleted while it runs is sampled no longer (`engine.go:141`).

*Configuration.*
- A delete is not rolled back when its save fails, and is answered with success
  when the validation refuses what is left; the record is back after a restart.
- Settings that are refused leave the fields before the refused one in memory,
  and the next successful save makes them durable.
- A `PUT` sends the whole record of the form.  A form that was filled before
  another client's change takes that change back.
- A tunnel whose form is opened and saved stores the mask "***" as the password
  of its SOCKS5 proxy (`tunnel-form.tsx:33`); `MaskIsNeverStored` is therefore
  about connections only.
- The file is loaded as it is: a chain edited by hand to name a connection that
  does not exist is shown without that hop and cannot be repaired in the form.

*Sessions.*
- A logout whose write fails is undone by a restart before the next write
  (`session.go:51-74`, `138-145`); `EndedIsOut` excepts it by `undone`.
- The guard shows the app when the check of the session itself fails; the first
  call then leads back to the login.

*Interface.*
- A success closes the form that is open by then, and a revealed secret replaces
  what was typed since.
- `onTrusted` starts the tunnel although another call on it is under way.
- A tunnel that hangs in `starting` is offered no Stop on either page.
- `stopping` is practically never shown: the status waits for the lock that the
  stop holds.
- The first reading of a status is not cancelled by an event, so that a page may
  show a state older than one it was told of, until the next reading.
- The log viewer shows an event again that a reconnect replays.


## 8. What is not modelled, and why

- *Time*: delays end, their length is not compared.  Nothing checked here
  depends on how long a backoff is.
- *Torn reads* of the configuration, which the engine reads without the lock of
  the API: the model reads a configuration in one step.
- *A tray that subscribes late* (`app.go:33`, `main.go:111-115`) and replays the
  history: the tray of the model listens from the beginning.
- *A known hosts file edited by hand*: an entry that cannot be decoded is taken
  for none (`hostkey.go:123-126`); the store itself writes no such entry.
- *The mount of the list and the dashboard in two steps*: their status readings
  start once the list of tunnels has loaded (`tunnel-list.tsx:49`,
  `dashboard.tsx:64-70`), the replay of the socket a little earlier; `Navigate`
  takes both together.
- *How a call ends that waits for a silent server*: premise of the liveness
  properties (section 4).
- *Relays and the SOCKS5 wire format*: a forwarder counts bytes, and what they
  are does not matter to anything modelled.
- *The hops of a chain one by one* and the count of missed keepalives: the
  supervisor sees a chain that comes up, fails, or is lost.
- *Cryptography and SSH itself* are external: a handshake succeeds, fails, or
  offers a key.  So is the encryption of the fields of the file.
- *The database* of the traffic store, *React*, its *router* and *React Query*
  are external and modelled from how they are used.
- *Two tabs of one browser*: a second client stands for every other writer; the
  cookie they would share is that of the one tab.
- *Widgets, texts, assets, menus, packaging*: no state of their own that matters.

Parts marked partly or not modelled in `PROJECT.json` carry their own note.


## 9. Plan

Done, in this order: `TunnelSupervisor`, `EventBus` with `LossyFeed`,
`HostKeyTrust`, each with its proofs; `TunnelEngine`; `TunnelConsole`;
`ConfigService`, `Sessions` and `WebAdmin`; `TrafficAccounting`; the proofs of
`ConfigService`, `Sessions`, `TrafficAccounting`, `TunnelConsole` and
`TunnelEngine`; then `WebAdmin` as an implementation of the service and the
sessions, and the invariants of the console and the traffic that need an
induction, so that every invariant of a passing run is a theorem.

What would come next:

1. **Forwarder** with **SSHChain** – accept, relay and stop of a forwarder
   (local, remote, BIND), the hops and their keepalives.  After a stop nothing
   is accepted and nothing relays; a failed hop closes the earlier ones; a lost
   connection is reported once;
2. the access list and the restart backoff as pure functions, compared with
   reference definitions over bounded inputs, and then, written as recursive
   functions, proved with the lemmas of induction of section 5;
3. a proof that each step of `TunnelEngine` is one of `TunnelSupervisor`, which
   now is argued: the supervisors of the engine are records of one variable, so
   it needs a mapping of each to the variables of the other module.
