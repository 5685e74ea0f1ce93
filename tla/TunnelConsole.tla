------------------------------ MODULE TunnelConsole ------------------------------
(***************************************************************************)
(* The web interface at work on one tunnel (src/ui/src): the event socket   *)
(* (lib/ws.ts), the cached status (hooks/use-tunnels.ts), the pages that    *)
(* show it, the buttons they offer and the dialog that trusts a host key -  *)
(* against the handlers that answer it.                                     *)
(*                                                                         *)
(* Everything between the two is asynchronous: events on the socket,        *)
(* answers of the status query, answers of the calls.  The cache is React   *)
(* Query with the defaults main.tsx leaves alone: an invalidated query is   *)
(* read again at once if a page shows it; a reading in flight is cancelled  *)
(* for it only if there is a value already.                                 *)
(*                                                                         *)
(* An event is the position of its publication; the tunnel's own state      *)
(* changes are of kind "state", its log lines "log", the state changes of   *)
(* other tunnels "other".  On the server the supervisor is reduced to the   *)
(* states it announces.                                                    *)
(***************************************************************************)
EXTENDS Naturals, Sequences, SequencesExt

CONSTANTS
  Key, NoKey,  \* host keys; none
  NoStatus,    \* no status was read yet
  RecentCap,   \* recentEventsCap of the bus, 200 in the code
  BufSize,     \* Subscribe(256) in api/ws.go
  MaxBuffer,   \* MAX_BUFFER of the socket and MAX_ENTRIES of the log, both 200
  Bounds       \* bounds, of which a behaviour has one (see bound)

ASSUME ConsoleConstants ==
  /\ NoKey \notin Key
  /\ RecentCap \in Nat \ {0} /\ BufSize \in Nat \ {0} /\ MaxBuffer \in Nat \ {0}
  /\ Bounds \subseteq [events : Nat, noise : Nat, calls : Nat,
                        socket : BOOLEAN, fails : BOOLEAN, keys : SUBSET Key]
  /\ IsFiniteSet(Bounds)

VARIABLES
  bound,       \* bound: events published (a stop that has begun adds two), how
               \* many of them are no change of this tunnel, calls clicked,
               \* whether the socket ever connects, whether a reading of the
               \* status may fail, the keys a host may offer
  \* the server
  server,      \* what GetStatus would answer: state and hostKey
  engine,      \* the call that holds e.mu across steps, 0 if none
  pending,     \* the key the last refused handshake left to be confirmed
  trusted,     \* the key in known_hosts
  published,   \* the kinds of the events published so far
  \* the socket
  link,        \* "down", "dialling" or "up"
  wire,        \* events sent to this client that it has not seen
  buffer,      \* EventSocket.buffer
  \* the pages
  page,        \* "list", "detail", "dashboard", or "other" (connections, settings)
  entries,     \* the events the log viewer shows
  dialog,      \* the offered key of the dialog that is open
  calls,       \* the calls made, in order
  \* the cached status
  shown,       \* query.data, with the number of events before the reading
  fetch,       \* "idle", "asked", "again" (the one retry) or "answered"
  reply,       \* the answer on its way
  stale,       \* isInvalidated
  \* history
  accepted,    \* the keys that were on the screen when the user accepted
  excused      \* the last reading missed a change: see ToldIsRead

serverVars == <<server, engine, pending, trusted, published>>
socketVars == <<link, wire, buffer>>
queryVars == <<shown, fetch, reply, stale, excused>>
pageVars == <<page, entries, dialog, calls, accepted>>
vars == <<bound, serverVars, socketVars, queryVars, pageVars>>

MaxEvent == Max({b.events : b \in Bounds}) + 2
Event == 1 .. MaxEvent
State == {"stopped", "starting", "running", "degraded", "error", "stopping"}
Kind == {"state", "log", "other"}
Op == {"start", "stop", "restart", "trust", "revoke", "test"}
Status == [state : State, hostKey : Key \cup {NoKey}]
Reading == [state : State, hostKey : Key \cup {NoKey}, at : 0 .. MaxEvent]
Call == [op : Op, key : Key \cup {NoKey},
         phase : {"sent", "ok", "refused", "over"}, mine : BOOLEAN]

TypeOK ==
  /\ bound \in Bounds
  /\ server \in Status
  /\ engine \in 0 .. Len(calls)
  /\ pending \in Key \cup {NoKey} /\ trusted \in Key \cup {NoKey}
  /\ published \in Seq(Kind) /\ Len(published) <= MaxEvent
  /\ link \in {"down", "dialling", "up"}
  /\ wire \in Seq(Event) /\ Len(wire) <= BufSize + RecentCap
  /\ buffer \in Seq(Event) /\ Len(buffer) <= MaxBuffer
  /\ page \in {"list", "detail", "dashboard", "other"}
  /\ entries \in Seq(Event) /\ Len(entries) <= MaxBuffer
  /\ dialog \in Key \cup {NoKey}
  /\ calls \in Seq(Call)
  /\ shown \in Reading \cup {NoStatus}
  /\ fetch \in {"idle", "asked", "again", "answered"}
  /\ reply \in Reading \cup {NoStatus}
  /\ stale \in BOOLEAN /\ excused \in BOOLEAN
  /\ accepted \subseteq Key

\* A browser tab is opened on a program whose tunnel is stopped or, having
\* autoStart, is starting.
Init ==
  /\ bound \in Bounds
  /\ \E s \in {"stopped", "starting"} : server = [state |-> s, hostKey |-> NoKey]
  /\ engine = 0 /\ pending = NoKey /\ trusted = NoKey /\ published = <<>>
  /\ link = "down" /\ wire = <<>> /\ buffer = <<>>
  /\ page = "other" /\ entries = <<>> /\ dialog = NoKey /\ calls = <<>>
  /\ shown = NoStatus /\ fetch = "idle" /\ reply = NoStatus
  /\ stale = FALSE /\ excused = FALSE
  /\ accepted = {}

-----------------------------------------------------------------------------
(* Ways this code could be wrong: each replaces the definition it names to    *)
(* show that a property of this module notices.                               *)

PolledForgetsDegraded(s) == s \in {"running", "starting"}      \* Polled
AnyKeyTaken(i) == pending # NoKey                              \* Matches
BufferSurvives(b) == b                                         \* OnConnect
NothingReplayed(b) == <<>>                                     \* Replayed
OnlyListsWant(p, e) ==                                         \* Wants
  p \in {"list", "dashboard"} /\ published[e] # "log"
DueByState ==                                                  \* Due
  shown # NoStatus /\ shown.state \in {"running", "starting", "degraded"}
BufferGrows(s) == IF Len(s) > MaxBuffer + 1 THEN Tail(s) ELSE s \* LastOnes

-----------------------------------------------------------------------------
(* The server. *)

Capacity == BufSize + RecentCap

\* Publish: the event is on its way to the client unless its channel is full.
Publish(kind) ==
  /\ published' = Append(published, kind)
  /\ wire' = IF link = "up" /\ Len(wire) < Capacity
               THEN Append(wire, Len(published) + 1) ELSE wire
  /\ UNCHANGED <<link, buffer>>

Room == Len(published) < bound.events

SetState(s, k) ==
  /\ server' = [state |-> s, hostKey |-> k]
  /\ Publish("state")

\* What the loop of the supervisor does by itself.
SupervisorMoves ==
  /\ Room /\ engine = 0
  /\ \/ /\ server.state = "starting"
        /\ SetState("running", NoKey) /\ UNCHANGED pending
     \/ /\ server.state = "starting"
        /\ SetState("error", NoKey) /\ UNCHANGED pending
     \/ /\ server.state = "starting"
        /\ \E k \in bound.keys \ {trusted} : SetState("error", k) /\ pending' = k
     \/ /\ server.state = "running"
        /\ SetState("degraded", NoKey) /\ UNCHANGED pending
     \/ /\ server.state = "degraded"
        /\ \E s \in {"starting", "error"} : SetState(s, NoKey)
        /\ UNCHANGED pending
     \/ /\ server.state = "error" /\ server.hostKey = NoKey
        /\ SetState("starting", NoKey) /\ UNCHANGED pending
  /\ UNCHANGED <<engine, trusted, queryVars, pageVars>>

\* Log lines of this tunnel, state changes of the others.
OtherEvent ==
  /\ Room /\ Len(SelectSeq(published, LAMBDA k : k # "state")) < bound.noise
  /\ \E k \in {"log", "other"} : Publish(k)
  /\ UNCHANGED <<server, engine, pending, trusted, queryVars, pageVars>>

\* The loop of another tunnel meets another key at the same host.
OtherHandshake ==
  /\ \E k \in bound.keys \ {trusted, pending} : pending' = k
  /\ UNCHANGED <<server, engine, trusted, published, socketVars, queryVars,
                 pageVars>>

Settle(i, phase) == calls' = [calls EXCEPT ![i].phase = phase]

\* POST /tunnels/{id}/start.
HandleStart(i) ==
  /\ Room /\ engine = 0
  /\ calls[i].op = "start" /\ calls[i].phase = "sent"
  /\ IF server.state \in {"running", "starting"}
       THEN Settle(i, "refused") /\ UNCHANGED <<server, published, socketVars>>
       ELSE Settle(i, "ok") /\ SetState("starting", server.hostKey)
  /\ UNCHANGED <<engine, pending, trusted, queryVars, page, entries, dialog,
                 accepted>>

\* POST /tunnels/{id}/stop and /restart take e.mu ...
HandleStop(i) ==
  /\ Room /\ engine = 0
  /\ calls[i].op \in {"stop", "restart"} /\ calls[i].phase = "sent"
  /\ IF server.state = "stopped"
       THEN /\ server' = [server EXCEPT !.hostKey = NoKey]
            /\ UNCHANGED <<published, socketVars>>
            /\ IF calls[i].op = "stop"
                 THEN Settle(i, "ok") /\ UNCHANGED engine
                 ELSE engine' = i /\ UNCHANGED calls
       ELSE /\ SetState("stopping", server.hostKey)
            /\ engine' = i /\ UNCHANGED calls
  /\ UNCHANGED <<pending, trusted, queryVars, page, entries, dialog, accepted>>

\* ... and keep it until the supervisor has stopped and is forgotten, a restart
\* until a new one is started.
EngineProceeds ==
  /\ engine # 0
  /\ \/ /\ server.state = "stopping"
        /\ SetState("stopped", NoKey)
        /\ IF calls[engine].op = "stop"
             THEN Settle(engine, "ok") /\ engine' = 0
             ELSE UNCHANGED <<calls, engine>>
     \/ /\ server.state = "stopped"
        /\ SetState("starting", NoKey)
        /\ Settle(engine, "ok") /\ engine' = 0
  /\ UNCHANGED <<pending, trusted, queryVars, page, entries, dialog, accepted>>

\* The fingerprint the user confirmed is that of the key that waits.
Matches(i) == pending # NoKey /\ pending = calls[i].key

\* PUT /host-keys: only the key that waits can be trusted.
HandleTrust(i) ==
  /\ calls[i].op = "trust" /\ calls[i].phase = "sent"
  /\ IF Matches(i)
       THEN Settle(i, "ok") /\ trusted' = pending /\ pending' = NoKey
       ELSE Settle(i, "refused") /\ UNCHANGED <<trusted, pending>>
  /\ UNCHANGED <<server, engine, published, socketVars, queryVars, page,
                 entries, dialog, accepted>>

\* DELETE /host-keys.
HandleRevoke(i) ==
  /\ calls[i].op = "revoke" /\ calls[i].phase = "sent"
  /\ Settle(i, "ok") /\ trusted' = NoKey /\ pending' = NoKey
  /\ UNCHANGED <<server, engine, published, socketVars, queryVars, page,
                 entries, dialog, accepted>>

\* POST /ssh-connections/{id}/test: a handshake of its own, with the key it was
\* offered in the answer if that is what it failed on.
HandleTest(i) ==
  /\ calls[i].op = "test" /\ calls[i].phase = "sent"
  /\ \E k \in (bound.keys \ {trusted}) \cup {NoKey} :
       /\ calls' = [calls EXCEPT ![i].phase = "ok", ![i].key = k]
       /\ pending' = IF k = NoKey THEN pending ELSE k
  /\ UNCHANGED <<server, engine, trusted, published, socketVars, queryVars, page,
                 entries, dialog, accepted>>

-----------------------------------------------------------------------------
(* The cached status. *)

Watched == page # "other"

\* The states in which the status is read every three seconds.
Polled(s) == s \in {"running", "starting", "degraded"}

\* refetch with cancelRefetch, of a query that has data.
Refetch(f) == "asked"

\* invalidateQueries on the status key.
Invalidated ==
  /\ fetch' = IF ~Watched THEN fetch
              ELSE IF shown # NoStatus THEN Refetch(fetch)
              ELSE IF fetch = "idle" THEN "asked" ELSE fetch
  /\ reply' = IF fetch' = "answered" THEN reply ELSE NoStatus
  /\ stale' = TRUE

\* GET /tunnels/{id}/status needs e.mu.
StatusAnswered ==
  /\ fetch \in {"asked", "again"} /\ engine = 0
  /\ reply' = [state |-> server.state, hostKey |-> server.hostKey,
               at |-> Len(published)]
  /\ fetch' = "answered"
  /\ UNCHANGED <<serverVars, socketVars, pageVars, shown, stale, excused>>

\* The events of this connection that change this tunnel's state.
Told(b) == {e \in ToSet(b) : published[e] = "state"}

StatusArrives ==
  /\ fetch = "answered"
  /\ shown' = reply /\ reply' = NoStatus
  /\ fetch' = "idle" /\ stale' = FALSE
  /\ excused' = (shown = NoStatus /\ \E e \in Told(buffer) : e > reply.at)
  /\ UNCHANGED <<serverVars, socketVars, pageVars>>

\* retry: 1, and none for a query that nobody watches any more.
StatusFails ==
  /\ bound.fails /\ fetch \in {"asked", "again"}
  /\ fetch' = IF fetch = "asked" /\ Watched THEN "again" ELSE "idle"
  /\ excused' = (excused \/ fetch' = "idle")
  /\ UNCHANGED <<serverVars, socketVars, pageVars, shown, reply, stale>>

\* refetchInterval: on the dashboard it does not depend on the state.
Due == page = "dashboard" \/ (shown # NoStatus /\ Polled(shown.state))

Poll ==
  /\ Watched /\ fetch = "idle" /\ Due
  /\ fetch' = "asked"
  /\ UNCHANGED <<serverVars, socketVars, pageVars, shown, reply, stale, excused>>

\* The window gets the focus again and the reading is stale or old.
Refocus ==
  /\ Watched /\ fetch = "idle"
  /\ fetch' = "asked"
  /\ UNCHANGED <<serverVars, socketVars, pageVars, shown, reply, stale, excused>>

-----------------------------------------------------------------------------
(* The event socket. *)

LastOnes(s) == IF Len(s) > MaxBuffer THEN Tail(s) ELSE s

\* connect() forgets the buffer: the server sends its history again.
OnConnect(b) == <<>>

Connect ==
  /\ bound.socket /\ link = "down"
  /\ link' = "dialling" /\ buffer' = OnConnect(buffer)
  /\ UNCHANGED <<serverVars, wire, queryVars, pageVars>>

\* The handler subscribes: the channel starts with the history of the bus.
Accepted ==
  /\ link = "dialling"
  /\ link' = "up"
  /\ wire' = LET n == Len(published) IN
             [j \in 1 .. (IF n < RecentCap THEN n ELSE RecentCap) |->
                (IF n < RecentCap THEN 0 ELSE n - RecentCap) + j]
  /\ UNCHANGED <<serverVars, buffer, queryVars, pageVars>>

\* onclose: another connect after a delay.
Closed ==
  /\ link # "down"
  /\ link' = "down" /\ wire' = <<>>
  /\ UNCHANGED <<serverVars, buffer, queryVars, pageVars>>

\* The callback of a page for one event: the detail page wants the state
\* changes of its tunnel, the list and the dashboard those of any tunnel.
Wants(p, e) ==
  \/ published[e] = "state"
  \/ p \in {"list", "dashboard"} /\ published[e] = "other"

\* The log viewer wants whatever is about its tunnel.
Logged(e) == published[e] # "other"

\* The elements of s that are in S, in their order.
Kept(s, S) ==
  LET f[i \in 0 .. Len(s)] ==
        IF i = 0 THEN <<>>
        ELSE IF s[i] \in S THEN Append(f[i - 1], s[i]) ELSE f[i - 1]
  IN f[Len(s)]

LogOf(s) == Kept(s, {e \in ToSet(s) : Logged(e)})

OnMessage ==
  /\ link = "up" /\ wire # <<>>
  /\ LET e == Head(wire) IN
       /\ wire' = Tail(wire)
       /\ buffer' = LastOnes(Append(buffer, e))
       /\ entries' = IF page = "detail" /\ Logged(e)
                       THEN LastOnes(Append(entries, e)) ELSE entries
       /\ IF Watched /\ Wants(page, e) THEN Invalidated
                                    ELSE UNCHANGED <<fetch, reply, stale>>
  /\ UNCHANGED <<serverVars, link, shown, excused, page, dialog, calls, accepted>>

-----------------------------------------------------------------------------
(* The pages. *)

\* onEvent: a listener is first given what the socket remembers.
Replayed(b) == b

\* A page is mounted: the query is read if it has no value or an invalidated
\* one, perhaps if the value is old (staleTime), and the replayed events run
\* through the callback.  What belongs to the page that is left - dialog,
\* isPending, the callbacks of mutate - is gone.  The list and the dashboard ask
\* for a status only once the list of tunnels has loaded, and are replayed the
\* buffer before that; here the list has loaded, as it has on every visit but the
\* first, and both are one step.
Navigate(p) ==
  /\ p # page
  /\ page' = p /\ dialog' = NoKey
  /\ calls' = [i \in DOMAIN calls |-> [calls[i] EXCEPT !.mine = FALSE]]
  /\ entries' = IF p = "detail" THEN LogOf(Replayed(buffer)) ELSE <<>>
  /\ LET told == \E e \in ToSet(Replayed(buffer)) : Wants(p, e) IN
        \/ /\ p = "other"
           /\ UNCHANGED <<fetch, reply, stale>>
        \/ /\ p # "other" /\ told /\ shown # NoStatus
           /\ fetch' = "asked" /\ reply' = NoStatus /\ stale' = TRUE
        \/ /\ p # "other" /\ ~(told /\ shown # NoStatus)
           /\ \/ fetch = "idle" /\ fetch' = "asked"
              \/ (fetch # "idle" \/ (shown # NoStatus /\ ~stale)) /\ fetch' = fetch
           /\ UNCHANGED <<reply, stale>>
  /\ UNCHANGED <<serverVars, socketVars, shown, excused, accepted>>

\* Without a status the tunnel is shown as stopped.
ShownState == IF shown = NoStatus THEN "stopped" ELSE shown.state

Pending(op) ==
  \E i \in DOMAIN calls :
    /\ calls[i].op = op /\ calls[i].mine /\ calls[i].phase # "over"
    /\ \A j \in DOMAIN calls : calls[j].op = op /\ calls[j].mine => j <= i

Busy == \E op \in {"start", "stop", "restart"} : Pending(op)

\* The buttons of a card of the list ...
CardOffers(op) ==
  \/ op \in {"start", "restart"} /\ ShownState = "error"
  \/ op = "start" /\ ShownState = "stopped"
  \/ op = "stop" /\ ShownState \in {"running", "degraded"}

\* ... and of the header of the detail page.
HeaderOffers(op) ==
  \/ op = "start" /\ ShownState \in {"stopped", "error"}
  \/ op = "stop" /\ ShownState \in {"running", "degraded"}
  \/ op = "restart" /\ ShownState \notin {"starting", "stopping"}

\* How the dashboard counts a tunnel.
CountedAs(s) ==
  CASE s = "running" -> "running"
    [] s \in {"error", "degraded"} -> "errors"
    [] OTHER -> "stopped"

Made(op, k) == Append(calls, [op |-> op, key |-> k, phase |-> "sent", mine |-> TRUE])

ClickControl ==
  /\ dialog = NoKey /\ ~Busy /\ Len(calls) < bound.calls
  /\ \E op \in Op :
       /\ \/ page = "list" /\ CardOffers(op)
          \/ page = "detail" /\ HeaderOffers(op)
       /\ calls' = Made(op, NoKey)
  /\ UNCHANGED <<serverVars, socketVars, queryVars, page, entries, dialog, accepted>>

\* The button beside an error that is about a host key.
OpenDialog ==
  /\ page \in {"list", "detail"} /\ dialog = NoKey
  /\ ShownState \in {"error", "degraded"} /\ shown.hostKey # NoKey
  /\ dialog' = shown.hostKey
  /\ UNCHANGED <<serverVars, socketVars, queryVars, page, entries, calls, accepted>>

CloseDialog ==
  /\ dialog # NoKey /\ dialog' = NoKey
  /\ UNCHANGED <<serverVars, socketVars, queryVars, page, entries, calls, accepted>>

\* The key the request names when the dialog shows k.
Confirmed(k) == k

ClickTrust ==
  /\ dialog # NoKey /\ ~Pending("trust") /\ Len(calls) < bound.calls
  /\ calls' = Made("trust", Confirmed(dialog))
  /\ accepted' = accepted \cup {dialog}
  /\ UNCHANGED <<serverVars, socketVars, queryVars, page, entries, dialog>>

\* The list of known hosts in the settings, after its confirmation.
ClickRevoke ==
  /\ page = "other" /\ ~Pending("revoke") /\ Len(calls) < bound.calls
  /\ calls' = Made("revoke", NoKey)
  /\ UNCHANGED <<serverVars, socketVars, queryVars, page, entries, dialog, accepted>>

\* The test button of the connections.
ClickTest ==
  /\ page = "other" /\ dialog = NoKey /\ ~Pending("test")
  /\ Len(calls) < bound.calls
  /\ calls' = Made("test", NoKey)
  /\ UNCHANGED <<serverVars, socketVars, queryVars, page, entries, dialog, accepted>>

\* The answer of a call.  Every success but that of a test invalidates the
\* status; a test that met an unknown key opens the dialog; a dialog that is told
\* of its success closes, and starts the tunnel, busy or not, or tests again.
CallReturns(i) ==
  /\ calls[i].phase \in {"ok", "refused"}
  /\ LET c == calls[i]
         done == [calls EXCEPT ![i].phase = "over"]
         ok == c.phase = "ok"
         follow == ok /\ c.op = "trust" /\ c.mine
         next == IF page = "other" THEN "test" ELSE "start"
     IN /\ calls' = IF follow
                      THEN Append(done, [op |-> next, key |-> NoKey,
                                         phase |-> "sent", mine |-> TRUE])
                      ELSE done
        /\ dialog' = IF follow THEN NoKey
                     ELSE IF c.op = "test" /\ c.mine /\ c.key # NoKey THEN c.key
                     ELSE dialog
        /\ IF ok /\ c.op # "test" THEN Invalidated ELSE UNCHANGED <<fetch, reply, stale>>
  /\ UNCHANGED <<serverVars, socketVars, shown, excused, page, entries, accepted>>

-----------------------------------------------------------------------------

Server ==
  \/ SupervisorMoves \/ OtherEvent \/ OtherHandshake \/ EngineProceeds
  \/ \E i \in DOMAIN calls :
       \/ HandleStart(i) \/ HandleStop(i) \/ HandleTrust(i) \/ HandleRevoke(i)
       \/ HandleTest(i)

Browser ==
  \/ StatusAnswered \/ StatusArrives \/ StatusFails \/ Poll \/ Refocus
  \/ Connect \/ Accepted \/ Closed \/ OnMessage
  \/ \E i \in DOMAIN calls : CallReturns(i)

User ==
  \/ \E p \in {"list", "detail", "dashboard", "other"} : Navigate(p)
  \/ ClickControl \/ OpenDialog \/ CloseDialog \/ ClickTrust \/ ClickRevoke
  \/ ClickTest

Bounded(A) == A /\ UNCHANGED bound

Next == Bounded(Server \/ Browser \/ User)

\* The timer of the poll fires and a stop ends; a server that is asked again and
\* again answers some time, and not every answer is overtaken by a reconnect
\* whose replay cancels the reading (reconnects are at least a second apart).
\* The timer is that of a browser that believes it is online: React Query pauses
\* its readings otherwise.
Fairness ==
  /\ WF_vars(Bounded(Poll)) /\ WF_vars(Bounded(EngineProceeds))
  /\ SF_vars(Bounded(StatusAnswered)) /\ SF_vars(Bounded(StatusArrives))

Spec == Init /\ [][Next]_vars /\ Fairness

-----------------------------------------------------------------------------
(* Properties. *)

\* Every key the interface makes the server trust is one the user had before
\* his eyes when he accepted, although the status under the dialog is read
\* again and other handshakes replace the pending key
\* (host-key-mismatch-dialog.tsx:53-57 against detail-header.tsx:126).
TrustedWasShown == trusted # NoKey => trusted \in accepted

\* Across reconnects with their replays, what a late listener is given and what
\* is still to come are in the order of publication, without repetition
\* (ws.ts:22-43 against events.go:78-83).
SocketInOrder ==
  LET s == buffer \o wire IN \A i, j \in DOMAIN s : i < j => s[i] < s[j]

\* Whenever the log viewer was opened, it ends with everything about its tunnel
\* that the socket remembers (log-viewer.tsx:26-32, ws.ts:58-62).
LogEndsWithBuffer ==
  page = "detail" => IsSuffix(LogOf(buffer), entries)

\* A state change the page was told of is never left unread: the status shown
\* is read after it or is being read.  Excused are a first reading, which an
\* event does not cancel, and a reading given up after its retry
\* (tunnel-detail.tsx:19-24, tunnel-list.tsx:30-34, use-tunnels.ts:27-40).
ToldIsRead ==
  Watched /\ shown # NoStatus /\ fetch = "idle" /\ ~excused =>
    \A e \in Told(buffer) : e <= shown.at

\* Even when every event is lost, a tunnel that went down does not stay on the
\* screen as one that is up (use-tunnels.ts:32-38).
ShownUp == Watched /\ ShownState \in {"starting", "running", "degraded"}
WentDown == server.state \in {"stopped", "error"}

UpIsFollowed == (ShownUp /\ WentDown) ~> ~(ShownUp /\ WentDown)

\* The dashboard, which is not told what it missed either, ends up counting the
\* tunnel as what it is, also one it took for stopped (dashboard.tsx:64-70,
\* 84-90).
Miscounted ==
  page = "dashboard" /\ CountedAs(ShownState) # CountedAs(server.state)

DashboardSettles == Miscounted ~> ~Miscounted
=============================================================================
