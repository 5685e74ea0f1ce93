--------------------------------- MODULE WebAdmin ---------------------------------
(***************************************************************************)
(* The pages that edit the configuration (src/ui/src: the forms of the      *)
(* connections and the tunnels, the delete dialogs, the settings, the login *)
(* page) in one browser tab, together with the service that answers them    *)
(* (ConfigService) and the sessions that admit the tab (Sessions).          *)
(*                                                                         *)
(* Between the two are the calls: each is admitted or denied by the         *)
(* middleware, served under s.mu, answered and finally noticed by the tab,  *)
(* which by then may show another form or the login page.  A client with    *)
(* the bearer token changes the configuration behind the back of the tab;   *)
(* the program may die at any step.                                         *)
(***************************************************************************)
EXTENDS ConfigService, Sessions

CONSTANTS
  New,      \* the identifier of a form that creates
  NoForm,   \* no form or dialog is open
  NoToken,  \* the browser has no session cookie
  Bounds    \* bounds, of which a behaviour has one (see bound)

NewTunnel == [chain |-> <<>>, userpass |-> FALSE, proxy |-> Empty, restart |-> TRUE,
              min |-> 1, max |-> 2, sound |-> FALSE]

RevealField == {"password", "pem", "phrase"}

\* What the handlers can decode.
Sendable(r) ==
  \/ r.op = "create" /\ r.kind = "conn" /\ r.body \in ConnRecord
  \/ r.op = "create" /\ r.kind = "tunnel" /\ r.body \in TunnelRecord
  \/ r.op = "update" /\ r.kind = "conn" /\ r.id \in Conn /\ r.body \in ConnBody
  \/ /\ r.op = "update" /\ r.kind = "tunnel" /\ r.id \in Tunnel
     /\ DOMAIN r.body \subseteq DOMAIN NewTunnel
     /\ Merged(NewTunnel, r.body) \in TunnelRecord
  \/ r.op = "delete" /\ r.kind = "conn" /\ r.id \in Conn
  \/ r.op = "delete" /\ r.kind = "tunnel" /\ r.id \in Tunnel
  \/ r.op = "reveal" /\ r.kind = "conn" /\ r.id \in Conn /\ r.body \in RevealField
  \/ r.op = "patch" /\ r.kind = "settings" /\ r.body \in SettingsBody

\* A connection, or some fields of one, in which no secret is the mask.
Plain(c) ==
  /\ "secret" \in DOMAIN c => c.secret # Mask
  /\ "phrase" \in DOMAIN c => c.phrase # Mask

ASSUME AdminConstants ==
  /\ New \notin Conn \cup Tunnel /\ NoToken \notin Token
  /\ \A b \in Bounds :
       /\ b.calls \in Nat /\ b.edits \in Nat /\ b.restarts \in Nat
       /\ b.fails \in BOOLEAN /\ b.login \in BOOLEAN
       /\ b.pages \in (SUBSET {"ssh", "tunnels", "settings"}) \ {{}}
       /\ b.config \in Config /\ NoDangling(b.config)
       /\ \A r \in b.script : Sendable(r)

\* The other client sends the secrets themselves, never what an answer showed it;
\* the file of the start has none either.
ASSUME OthersSendSecrets ==
  \A b \in Bounds :
    /\ \A c \in Ids(b.config.conns) : Plain(b.config.conns[c])
    /\ \A r \in b.script : r.kind = "conn" /\ r.op \in {"create", "update"} => Plain(r.body)

VARIABLES
  bound,    \* bound: calls made, edits of a form, restarts, whether the disk may
            \* refuse, whether a login is configured, the pages in use, what the
            \* other client sends, the configuration at the start
  restarts, \* how often the program was restarted
  page,     \* "login", "ssh", "tunnels" or "settings"
  cookie,   \* the session cookie
  seen,     \* the lists of the query cache, as they were last read
  form,     \* the form or dialog that is open
  calls,    \* the calls made, in order
  serving   \* the call whose handler holds s.mu, 0 if none

tabVars == <<page, cookie, seen, form>>
vars == <<bound, restarts, serviceVars, sessionVars, tabVars, calls, serving>>

Page == {"login", "ssh", "tunnels", "settings"}
Op == {"create", "update", "delete", "reveal", "patch", "login", "logout"}
Phase == {"sent", "denied", "admitted", "served", "ok", "refused", "failed", "over"}

\* The state of SSHForm: what was typed into the fields.
ConnDraft ==
  [auth : AuthType, password : Value, pem : Value, phrase : Value, sound : BOOLEAN]

TypeOK ==
  /\ ServiceTypeOK /\ SessionsTypeOK
  /\ bound \in Bounds /\ restarts \in 0 .. bound.restarts
  /\ page \in Page /\ cookie \in Token \cup {NoToken}
  /\ seen.conns \in [Conn -> ConnRecord \cup {Absent}]
  /\ seen.tunnels \in [Tunnel -> Stored \cup {Absent}]
  /\ form # NoForm =>
       /\ form.kind = "conn" => form.draft \in ConnDraft /\ form.id \in Conn \cup {New}
       /\ form.kind = "tunnel" =>
            form.draft \in TunnelRecord /\ form.id \in Tunnel \cup {New}
  /\ \A i \in DOMAIN calls : calls[i].op \in Op /\ calls[i].phase \in Phase
  /\ serving \in 0 .. Len(calls) /\ (serving = 0 <=> job = Idle)

Init ==
  /\ bound \in Bounds /\ restarts = 0
  /\ StartsWith(bound.config) /\ SessionsInit
  /\ page = (IF bound.login THEN "login" ELSE CHOOSE p \in bound.pages : TRUE)
  /\ cookie = NoToken
  /\ seen = [conns |-> [c \in Conn |-> Absent], tunnels |-> [t \in Tunnel |-> Absent]]
  /\ form = NoForm /\ calls = <<>> /\ serving = 0

-----------------------------------------------------------------------------
(* A way this code could be wrong. *)

CachedDraft(c) ==                                              \* ConnFormState
  [auth |-> c.auth, password |-> IF c.auth = "password" THEN c.secret ELSE Empty,
   pem |-> IF c.auth = "inline" THEN c.secret ELSE Empty,
   phrase |-> c.phrase, sound |-> c.sound]

-----------------------------------------------------------------------------
(* Calls. *)

\* Without a login, and for the bearer token, the middleware lets a call pass.
Request(op, kind, id, body, by) ==
  [op |-> op, kind |-> kind, id |-> id, body |-> body, by |-> by,
   phase |-> IF bound.login /\ by = "tab" THEN "sent" ELSE "admitted"]

CanCall == Len(calls) < bound.calls
Send(r) == CanCall /\ calls' = Append(calls, r)

\* The mutation of this tab is pending.
Sending(op, kind) ==
  \E i \in DOMAIN calls : /\ calls[i].op = op /\ calls[i].kind = kind
                          /\ calls[i].by = "tab" /\ calls[i].phase # "over"

Tell(i, phase) == calls' = [calls EXCEPT ![i].phase = phase]

\* Nothing comes of call i any more.
Over(cs, i) ==
  [cs EXCEPT ![i] = [@ EXCEPT !.id = New, !.body = <<>>, !.by = "gone", !.phase = "over"]]

Admits == ~bound.login \/ (cookie # NoToken /\ Alive(cookie))

\* The middleware looks the session up and lets the call pass or answers 401; the
\* handler runs later.
Auth(i) ==
  /\ calls[i].phase = "sent" /\ calls[i].op \notin {"login", "logout"}
  /\ Tell(i, IF Admits THEN "admitted" ELSE "denied")
  /\ IF cookie = NoToken THEN UNCHANGED sessionVars ELSE LooksUp(cookie, bound.fails)
  /\ UNCHANGED <<bound, restarts, serviceVars, tabVars, serving>>

\* The handler of a change takes s.mu.
Serve(i) ==
  LET c == calls[i] IN
  /\ c.phase = "admitted"
  /\ \/ c.op = "create" /\ c.kind = "conn" /\ \E x \in Conn : CreateConn(x, c.body)
     \/ c.op = "create" /\ c.kind = "tunnel" /\ \E x \in Tunnel : CreateTunnel(x, c.body)
     \/ c.op = "update" /\ c.kind = "conn" /\ UpdateConn(c.id, c.body)
     \/ c.op = "update" /\ c.kind = "tunnel" /\ UpdateTunnel(c.id, c.body)
     \/ c.op = "delete" /\ c.kind = "conn" /\ DeleteConn(c.id)
     \/ c.op = "delete" /\ c.kind = "tunnel" /\ DeleteTunnel(c.id)
     \/ c.op = "patch" /\ PatchSettings(c.body)
  /\ serving' = i /\ Tell(i, "served")
  /\ UNCHANGED <<bound, restarts, sessionVars, tabVars>>

Saves ==
  /\ SaveRenames \/ (bound.fails /\ SaveFails)
  /\ UNCHANGED <<bound, restarts, sessionVars, tabVars, calls, serving>>

Answers ==
  /\ serving # 0 /\ Reply
  /\ Tell(serving, job) /\ serving' = 0
  /\ UNCHANGED <<bound, restarts, sessionVars, tabVars>>

\* POST /ssh-connections/{id}/reveal: the field that was asked for, in clear.
Field(c, f) ==
  CASE f = "password" -> IF c.auth = "password" THEN c.secret ELSE Empty
    [] f = "pem" -> IF c.auth = "inline" THEN c.secret ELSE Empty
    [] f = "phrase" -> c.phrase

Reveals(i) ==
  LET c == calls[i] IN
  /\ c.phase = "admitted" /\ c.op = "reveal" /\ job = Idle
  /\ IF mem.conns[c.id] = Absent THEN Tell(i, "refused")
     ELSE calls' = [calls EXCEPT ![i].phase = "ok",
                      ![i].body = [field |-> c.body, value |-> Field(mem.conns[c.id], c.body)]]
  /\ UNCHANGED <<bound, restarts, serviceVars, sessionVars, tabVars, serving>>

\* Login and logout pass the middleware.
HandleLogin(i) ==
  /\ calls[i].op = "login" /\ calls[i].phase = "sent"
  /\ \E k \in Token \ drawn : /\ CreateSession(k, bound.fails)
                              /\ calls' = [calls EXCEPT ![i].phase = "ok", ![i].id = k]
  /\ UNCHANGED <<bound, restarts, serviceVars, tabVars, serving>>

HandleLogout(i) ==
  /\ calls[i].op = "logout" /\ calls[i].phase = "sent"
  /\ IF calls[i].id = NoToken THEN UNCHANGED sessionVars
                              ELSE EndSession(calls[i].id, bound.fails)
  /\ Tell(i, "ok")
  /\ UNCHANGED <<bound, restarts, serviceVars, tabVars, serving>>

\* The program dies and is started again; the calls it had not answered fail.
Dies ==
  /\ restarts < bound.restarts /\ restarts' = restarts + 1
  /\ Restart /\ LoadSessions
  /\ calls' = [i \in DOMAIN calls |->
       IF calls[i].phase \in {"sent", "admitted", "served"}
         THEN [calls[i] EXCEPT !.phase = "failed"] ELSE calls[i]]
  /\ serving' = 0
  /\ UNCHANGED <<bound, tabVars>>

OtherClient ==
  /\ \E r \in bound.script : Send(Request(r.op, r.kind, r.id, r.body, "script"))
  /\ UNCHANGED <<bound, restarts, serviceVars, sessionVars, tabVars, serving>>

-----------------------------------------------------------------------------
(* The tab. *)

serverVars == <<bound, restarts, serviceVars, sessionVars, serving>>

\* Who waits for the answers of the tab's calls once the page is left ("gone":
\* nobody) ...
Forgotten ==
  [i \in DOMAIN calls |-> IF calls[i].by = "script" THEN calls[i]
                          ELSE [calls[i] EXCEPT !.by = "gone"]]

\* ... and once the form is: the page that showed it ("left") waits for what was
\* submitted, nobody for what was to be revealed.
Abandoned ==
  [i \in DOMAIN calls |->
     IF calls[i].by # "tab" \/ calls[i].op \notin {"create", "update", "reveal"}
       THEN calls[i]
       ELSE [calls[i] EXCEPT !.by = IF calls[i].op = "reveal" THEN "gone" ELSE "left"]]

\* The lists a page shows; the form of a tunnel also offers the connections.
Shows(kind) ==
  \/ kind = "conns" /\ page = "ssh"
  \/ page = "tunnels" /\ (kind = "conns" => form # NoForm /\ form.kind = "tunnel")

\* A list is read: on mount, after a change, on focus.
ReadList ==
  /\ job = Idle /\ Admits
  /\ \/ /\ Shows("conns")
        /\ seen' = [seen EXCEPT !.conns = [c \in Conn |-> RedactConn(mem.conns[c])]]
     \/ /\ Shows("tunnels")
        /\ seen' = [seen EXCEPT !.tunnels = [t \in Tunnel |-> RedactTunnel(mem.tunnels[t])]]
  /\ UNCHANGED <<serverVars, page, cookie, form, calls>>

\* The same reading is answered 401: the whole page is loaded anew, at /login.
ReadDenied ==
  /\ page # "login" /\ ~Admits
  /\ page' = "login" /\ form' = NoForm /\ calls' = Forgotten
  /\ seen' = [conns |-> [c \in Conn |-> Absent], tunnels |-> [t \in Tunnel |-> Absent]]
  /\ UNCHANGED <<serverVars, cookie>>

\* AuthGuard: the app is shown to a session, and when the check itself fails.
OpenApp ==
  /\ page = "login" /\ (Admits \/ bound.fails)
  /\ page' \in bound.pages
  /\ UNCHANGED <<serverVars, cookie, seen, form, calls>>

Navigate ==
  /\ page # "login" /\ form = NoForm
  /\ page' \in bound.pages \ {page} /\ calls' = Forgotten
  /\ UNCHANGED <<serverVars, cookie, seen, form>>

ClickLogin ==
  /\ page = "login" /\ ~Sending("login", "auth")
  /\ Send(Request("login", "auth", NoToken, <<>>, "tab"))
  /\ UNCHANGED <<serverVars, tabVars>>

ClickLogout ==
  /\ bound.login /\ page # "login" /\ form = NoForm
  /\ Send(Request("logout", "auth", cookie, <<>>, "tab"))
  /\ UNCHANGED <<serverVars, tabVars>>

Form(kind, id, draft) == [kind |-> kind, id |-> id, draft |-> draft, edits |-> 0]

\* The secrets of a connection are not put into its form.
ConnFormState(c) ==
  [auth |-> c.auth, password |-> Empty, pem |-> Empty, phrase |-> Empty,
   sound |-> c.sound]

NewConn == [auth |-> "password", password |-> Empty, pem |-> Empty,
            phrase |-> Empty, sound |-> FALSE]

OpenForm ==
  /\ form = NoForm
  /\ \/ /\ page = "ssh"
        /\ \/ form' = Form("conn", New, NewConn)
           \/ \E c \in Ids(seen.conns) :
                form' = Form("conn", c, ConnFormState(seen.conns[c]))
     \/ /\ page = "tunnels"
        /\ \/ form' = Form("tunnel", New, NewTunnel)
           \/ \E t \in Ids(seen.tunnels) : form' = Form("tunnel", t, seen.tunnels[t])
  /\ UNCHANGED <<serverVars, page, cookie, seen, calls>>

OpenDelete ==
  /\ form = NoForm
  /\ \/ page = "ssh" /\ \E c \in Ids(seen.conns) : form' = Form("deleteConn", c, <<>>)
     \/ page = "tunnels"
        /\ \E t \in Ids(seen.tunnels) : form' = Form("deleteTunnel", t, <<>>)
  /\ UNCHANGED <<serverVars, page, cookie, seen, calls>>

\* Cancel does not wait for what was submitted.
CloseForm ==
  /\ form # NoForm /\ form' = NoForm /\ calls' = Abandoned
  /\ UNCHANGED <<serverVars, page, cookie, seen>>

Edit(draft) ==
  /\ form.edits < bound.edits /\ draft # form.draft
  /\ form' = [form EXCEPT !.draft = draft, !.edits = @ + 1]

\* The fields of SSHForm that its authentication shows.
Editable(d) ==
  CASE d.auth = "password" -> {"password"}
    [] d.auth = "inline" -> {"pem", "phrase"}
    [] d.auth = "file" -> {"phrase"}
    [] d.auth = "none" -> {}

EditConn ==
  /\ form # NoForm /\ form.kind = "conn"
  /\ LET d == form.draft IN
     \/ \E a \in AuthType : Edit([d EXCEPT !.auth = a])
     \/ \E f \in Editable(d), v \in Secret \cup {Empty} : Edit([d EXCEPT ![f] = v])
     \/ Edit([d EXCEPT !.sound = TRUE])
  /\ UNCHANGED <<serverVars, page, cookie, seen, calls>>

\* The eye beside an empty secret asks for the stored one.
ClickReveal ==
  /\ form # NoForm /\ form.kind = "conn" /\ form.id # New
  /\ \E f \in Editable(form.draft) :
       /\ form.draft[f] = Empty
       /\ Send(Request("reveal", "conn", form.id, f, "tab"))
  /\ UNCHANGED <<serverVars, tabVars>>

\* A chain with a hop filtered out.
Without(chain, c) ==
  LET f[i \in 0 .. Len(chain)] ==
        IF i = 0 THEN <<>>
        ELSE IF chain[i] = c THEN f[i - 1] ELSE Append(f[i - 1], chain[i])
  IN f[Len(chain)]

\* ChainSelector: the hops that can be added are those of the list that are not
\* in the chain; those the list does not have can be neither removed nor moved.
EditChain(d) ==
  LET hops == ToSet(d.chain)
      listed == Ids(seen.conns)
  IN
  \/ \E c \in listed \ hops : Edit([d EXCEPT !.chain = Append(@, c)])
  \/ \E c \in listed \cap hops :
       Edit([d EXCEPT !.chain = Without(@, c)])
  \/ \E i, j \in DOMAIN d.chain :
       /\ {d.chain[i], d.chain[j]} \subseteq listed
       /\ Edit([d EXCEPT !.chain = InsertAt(RemoveAt(@, i), j, @[i])])

\* MappingEditor; another mode starts over with an empty mapping.
EditMapping(d) ==
  \/ Edit([d EXCEPT !.sound = TRUE])
  \/ \E v \in Secret \cup {Empty} : Edit([d EXCEPT !.userpass = TRUE, !.proxy = v])

ChangeMode(d) == Edit([d EXCEPT !.userpass = FALSE, !.proxy = Empty, !.sound = FALSE])

EditPolicy(d) ==
  \E m \in {0, 3} : Edit([d EXCEPT !.restart = FALSE, !.min = m, !.max = 0])

EditTunnel ==
  /\ form # NoForm /\ form.kind = "tunnel"
  /\ \/ EditChain(form.draft) \/ EditMapping(form.draft)
     \/ ChangeMode(form.draft) \/ EditPolicy(form.draft)
  /\ UNCHANGED <<serverVars, page, cookie, seen, calls>>

\* buildFormData: only what the authentication uses is sent.
BuildFormData(d) ==
  [auth |-> d.auth,
   secret |-> CASE d.auth = "password" -> d.password
                [] d.auth = "inline" -> d.pem
                [] OTHER -> Empty,
   phrase |-> IF d.auth \in {"inline", "file"} THEN d.phrase ELSE Empty,
   sound |-> d.sound]

Submit ==
  /\ form # NoForm /\ form.kind \in {"conn", "tunnel"}
  /\ LET op == IF form.id = New THEN "create" ELSE "update"
         body == IF form.kind = "conn" THEN BuildFormData(form.draft) ELSE form.draft
     IN ~Sending(op, form.kind) /\ Send(Request(op, form.kind, form.id, body, "tab"))
  /\ UNCHANGED <<serverVars, tabVars>>

ConfirmDelete ==
  /\ form # NoForm /\ form.kind \in {"deleteConn", "deleteTunnel"}
  /\ LET kind == IF form.kind = "deleteConn" THEN "conn" ELSE "tunnel" IN
       ~Sending("delete", kind) /\ Send(Request("delete", kind, form.id, <<>>, "tab"))
  /\ UNCHANGED <<serverVars, tabVars>>

\* Every control of the settings sends what it changes at once.
LevelChoices == {[level |-> v] : v \in {"info", "debug"}}
ThemeChoices == {[theme |-> v] : v \in {"light", "dark"}}

ClickSetting ==
  /\ page = "settings"
  /\ \E body \in LevelChoices \cup ThemeChoices :
       Send(Request("patch", "settings", New, body, "tab"))
  /\ UNCHANGED <<serverVars, tabVars>>

\* An answer meets the tab as it is now: an edit that succeeded closes the form
\* of whatever record is edited meanwhile, a secret that was asked for replaces
\* what was typed meanwhile.
Concluded(c) ==
  IF c.phase # "ok" \/ form = NoForm \/ c.by \notin {"tab", "left"} THEN form
  ELSE CASE c.op = "reveal" /\ form.kind = "conn" /\ form.id = c.id
              /\ c.body.value # Empty -> [form EXCEPT !.draft[c.body.field] = c.body.value]
         [] c.op \in {"create", "update"} /\ form.kind = c.kind
              /\ (c.op = "create" <=> form.id = New) -> NoForm
         [] c.op = "delete" /\ form.kind \in {"deleteConn", "deleteTunnel"} -> NoForm
         [] OTHER -> form

Noticed(i) ==
  LET c == calls[i] IN
  /\ c.phase \in {"ok", "refused", "failed"}
  /\ c.op \notin {"login", "logout"}
  /\ form' = Concluded(c)
  /\ calls' = Over(IF form' = NoForm THEN Abandoned ELSE calls, i)
  /\ UNCHANGED <<serverVars, page, cookie, seen>>

\* 401: see ReadDenied.  The promise of the call is never settled.
Denied(i) ==
  /\ calls[i].phase = "denied" /\ calls[i].by \in {"tab", "left"}
  /\ page' = "login" /\ form' = NoForm /\ calls' = Over(Forgotten, i)
  /\ seen' = [conns |-> [c \in Conn |-> Absent], tunnels |-> [t \in Tunnel |-> Absent]]
  /\ UNCHANGED <<serverVars, cookie>>

\* The cookie comes and goes with the answer, whatever the tab shows by then.
LoggedIn(i) ==
  /\ calls[i].op = "login" /\ calls[i].phase \in {"ok", "failed"}
  /\ IF calls[i].phase = "ok"
       THEN /\ cookie' = calls[i].id
            /\ page' \in (IF calls[i].by = "tab" THEN bound.pages ELSE {page})
       ELSE UNCHANGED <<cookie, page>>
  /\ calls' = Over(calls, i)
  /\ UNCHANGED <<serverVars, seen, form>>

LoggedOut(i) ==
  /\ calls[i].op = "logout" /\ calls[i].phase \in {"ok", "failed"}
  /\ IF calls[i].phase = "ok"
       THEN /\ cookie' = NoToken /\ page' = "login" /\ form' = NoForm
            /\ calls' = Over(Forgotten, i)
            /\ seen' = [conns |-> [c \in Conn |-> Absent],
                        tunnels |-> [t \in Tunnel |-> Absent]]
       ELSE calls' = Over(calls, i) /\ UNCHANGED tabVars
  /\ UNCHANGED serverVars

-----------------------------------------------------------------------------

SessionClock ==
  /\ bound.login /\ (Tick \/ Cleanup(bound.fails))
  /\ UNCHANGED <<bound, restarts, serviceVars, tabVars, calls, serving>>

Server ==
  \/ \E i \in DOMAIN calls :
       \/ Auth(i) \/ Serve(i) \/ Reveals(i) \/ HandleLogin(i) \/ HandleLogout(i)
  \/ Saves \/ Answers \/ Dies \/ SessionClock

Tab ==
  \/ ReadList \/ ReadDenied \/ OpenApp \/ Navigate \/ ClickLogin \/ ClickLogout
  \/ OpenForm \/ OpenDelete \/ CloseForm \/ EditConn \/ ClickReveal \/ EditTunnel
  \/ Submit \/ ConfirmDelete \/ ClickSetting
  \/ \E i \in DOMAIN calls : Noticed(i) \/ Denied(i) \/ LoggedIn(i) \/ LoggedOut(i)

Next == Server \/ Tab \/ OtherClient

Spec == Init /\ [][Next]_vars

-----------------------------------------------------------------------------
(* A property. *)

\* What answers show instead of a secret is never stored as the secret of a
\* connection, whatever is read, revealed, typed and sent in whatever order
\* (ssh-form.tsx:79-86 against redact.go:6-21).
MaskIsNeverStored ==
  \A c \in Ids(mem.conns) : mem.conns[c].secret # Mask /\ mem.conns[c].phrase # Mask
=============================================================================
