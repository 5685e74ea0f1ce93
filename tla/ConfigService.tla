------------------------------ MODULE ConfigService ------------------------------
(***************************************************************************)
(* The configuration and the handlers that change it: the tunnels, the SSH  *)
(* connections and the settings in memory (Server.data), the file they are  *)
(* saved to (config/store.go), and what happens when one of the two steps   *)
(* fails or the program dies between them (api/handler_tunnel.go,           *)
(* handler_ssh.go, handler_settings.go).                                    *)
(*                                                                         *)
(* A record keeps what the rules tell apart: the secrets, the chain, the    *)
(* policy limits that have defaults; `sound' stands for everything else     *)
(* that is validated field by field (names, hosts, ports).                  *)
(***************************************************************************)
EXTENDS Naturals, Sequences, SequencesExt

CONSTANTS
  Conn, Tunnel,  \* identifiers: each is given out once (xid)
  Secret,        \* passwords, keys, passphrases
  Mask,          \* what answers show instead of a secret, "***"
  Empty,         \* no secret
  Absent,        \* no record
  Idle           \* no handler holds s.mu for writing

VARIABLES
  mem,     \* Server.data
  file,    \* config.json
  used,    \* the identifiers given out so far
  job,     \* how far the handler that holds s.mu is, or Idle
  undo,    \* the configuration that handler goes back to if it fails
  loose    \* history: how memory may have left the file since the last save

serviceVars == <<mem, file, used, job, undo, loose>>

Value == Secret \cup {Mask, Empty}
AuthType == {"password", "inline", "file", "none"}

ConnRecord ==
  [auth : AuthType, secret : Value, phrase : Value, sound : BOOLEAN]

TunnelRecord ==
  [chain : Seq(Conn), userpass : BOOLEAN, proxy : Value, restart : BOOLEAN,
   min : Nat, max : Nat, sound : BOOLEAN]

Settings == [level : {"info", "debug"}, theme : {"light", "dark"}]

\* A tunnel once its defaults are applied has no zero limit.
Stored == {t \in TunnelRecord : t.min > 0 /\ t.max > 0}

ASSUME ConfigConstants ==
  /\ Mask \notin Secret /\ Empty \notin Secret /\ Mask # Empty
  /\ Idle \notin {"writing", "ok", "refused", "failed"}
  /\ Conn \cap Tunnel = {}
  /\ Absent \notin ConnRecord \cup TunnelRecord

Config ==
  [conns : [Conn -> ConnRecord \cup {Absent}],
   tunnels : [Tunnel -> Stored \cup {Absent}],
   settings : Settings]

Ids(f) == {x \in DOMAIN f : f[x] # Absent}

-----------------------------------------------------------------------------
(* Ways this code could be wrong: each replaces the definition it names to    *)
(* show that a property of this module notices.                               *)

RolledBackOnErrorsOnly(new, old) == new           \* RolledBack
Unreferenced(c) == {}                             \* References
NotFoundUnanswered ==                             \* NotFound
  job' = Idle /\ UNCHANGED <<mem, undo, loose>>

-----------------------------------------------------------------------------
(* The rules. *)

\* ApplyTunnelDefaults: 500 and 15000 ms are 1 and 2 here.
WithDefaults(t) ==
  [t EXCEPT !.restart = t.restart \/ (t.min = 0 /\ t.max = 0),
            !.min = IF t.min = 0 THEN 1 ELSE t.min,
            !.max = IF t.max = 0 THEN 2 ELSE t.max]

ValidConn(c) == c.sound /\ (c.auth \in {"password", "inline"} => c.secret # Empty)

ValidTunnel(t, ids) ==
  /\ t.sound
  /\ t.chain # <<>> /\ ToSet(t.chain) \subseteq ids
  /\ t.userpass => t.proxy # Empty
  /\ 0 < t.min /\ t.min <= t.max

Valid(cfg) ==
  /\ \A c \in Ids(cfg.conns) : ValidConn(cfg.conns[c])
  /\ \A t \in Ids(cfg.tunnels) : ValidTunnel(cfg.tunnels[t], Ids(cfg.conns))

\* The tunnels of mem whose chain has c.
References(c) == {t \in Ids(mem.tunnels) : c \in ToSet(mem.tunnels[t].chain)}

\* What an answer shows.
Masked(v) == IF v = Empty THEN Empty ELSE Mask
RedactConn(c) ==
  IF c = Absent THEN Absent ELSE [c EXCEPT !.secret = Masked(@), !.phrase = Masked(@)]
RedactTunnel(t) == IF t = Absent THEN Absent ELSE [t EXCEPT !.proxy = Masked(@)]

\* A PUT sends every field but the identifier, a PATCH some of them.
Merged(old, body) ==
  [k \in DOMAIN old |-> IF k \in DOMAIN body THEN body[k] ELSE old[k]]

-----------------------------------------------------------------------------
(* The handlers.  Each validates the whole configuration with its change in   *)
(* it, saves it and answers, all under s.mu.                                  *)

\* Where a create or an update that is refused or not saved goes back to.
RolledBack(new, old) == old

\* saveConfig: a configuration with errors is not saved.
Attempt(new, back) ==
  IF Valid(new)
    THEN mem' = new /\ undo' = back /\ job' = "writing"
    ELSE mem' = back /\ undo' = back /\ job' = "refused"

NotFound == job' = "refused" /\ UNCHANGED <<mem, undo, loose>>

CreateConn(c, body) ==
  /\ job = Idle /\ c \notin used
  /\ used' = used \cup {c}
  /\ LET new == [mem EXCEPT !.conns[c] = body] IN Attempt(new, RolledBack(new, mem))
  /\ UNCHANGED <<file, loose>>

UpdateConn(c, body) ==
  /\ job = Idle
  /\ IF mem.conns[c] = Absent THEN NotFound
     ELSE /\ LET new == [mem EXCEPT !.conns[c] = Merged(@, body)]
             IN Attempt(new, RolledBack(new, mem))
          /\ UNCHANGED loose
  /\ UNCHANGED <<file, used>>

\* A delete is not taken back: not when the validation refuses what is left,
\* which it answers with success, unsaved, and not when the save fails.
Discard(new) ==
  /\ mem' = new /\ undo' = new
  /\ job' = IF Valid(new) THEN "writing" ELSE "ok"
  /\ loose' = loose \cup {"delete"}

DeleteConn(c) ==
  /\ job = Idle
  /\ IF mem.conns[c] = Absent \/ References(c) # {} THEN NotFound
     ELSE Discard([mem EXCEPT !.conns[c] = Absent])
  /\ UNCHANGED <<file, used>>

CreateTunnel(t, body) ==
  /\ job = Idle /\ t \notin used
  /\ used' = used \cup {t}
  /\ LET new == [mem EXCEPT !.tunnels[t] = WithDefaults(body)]
     IN Attempt(new, RolledBack(new, mem))
  /\ UNCHANGED <<file, loose>>

UpdateTunnel(t, body) ==
  /\ job = Idle
  /\ IF mem.tunnels[t] = Absent THEN NotFound
     ELSE /\ LET new == [mem EXCEPT !.tunnels[t] = WithDefaults(Merged(@, body))]
             IN Attempt(new, RolledBack(new, mem))
          /\ UNCHANGED loose
  /\ UNCHANGED <<file, used>>

DeleteTunnel(t) ==
  /\ job = Idle
  /\ IF mem.tunnels[t] = Absent THEN NotFound
     ELSE Discard([mem EXCEPT !.tunnels[t] = Absent])
  /\ UNCHANGED <<file, used>>

\* The fields are taken over one by one, so that a theme that is refused leaves
\* the level that came with it in memory, unsaved.
PatchSettings(body) ==
  /\ job = Idle
  /\ LET new == [mem EXCEPT !.settings = Merged(@, body)] IN
       IF new.settings \in Settings
         THEN Attempt(new, RolledBack(new, mem)) /\ UNCHANGED loose
         ELSE /\ job' = "refused" /\ undo' = mem
              /\ mem' = IF new.settings.level \in {"info", "debug"}
                          THEN [mem EXCEPT !.settings.level = new.settings.level]
                          ELSE mem
              /\ loose' = IF mem' = mem THEN loose ELSE loose \cup {"settings"}
  /\ UNCHANGED <<file, used>>

\* FileStore.Save writes a temporary file, syncs it and renames it ...
SaveRenames ==
  /\ job = "writing"
  /\ file' = mem /\ loose' = {} /\ job' = "ok"
  /\ UNCHANGED <<mem, used, undo>>

\* ... or fails and leaves the file as it was.
SaveFails ==
  /\ job = "writing"
  /\ mem' = undo /\ job' = "failed"
  /\ UNCHANGED <<file, used, undo, loose>>

\* The answer is written before s.mu is given up.
Reply ==
  /\ job \in {"ok", "refused", "failed"}
  /\ job' = Idle /\ undo' = mem
  /\ UNCHANGED <<mem, file, used, loose>>

\* Load applies the defaults again.
Loaded(cfg) ==
  [cfg EXCEPT !.tunnels = [t \in Tunnel |->
     IF cfg.tunnels[t] = Absent THEN Absent ELSE WithDefaults(cfg.tunnels[t])]]

\* The program dies at any point and is started again: it loads the file and
\* saves what it loaded.
Restart ==
  /\ mem' = Loaded(file) /\ file' = mem' /\ undo' = mem'
  /\ job' = Idle /\ loose' = {}
  /\ UNCHANGED used

-----------------------------------------------------------------------------

NoDangling(cfg) ==
  \A t \in Ids(cfg.tunnels) : ToSet(cfg.tunnels[t].chain) \subseteq Ids(cfg.conns)

\* The program starts with a file an earlier run saved; an older or an edited
\* one may have records the rules of today refuse.
StartsWith(cfg) ==
  /\ mem = cfg /\ file = cfg /\ undo = cfg
  /\ used = Ids(cfg.conns) \cup Ids(cfg.tunnels)
  /\ job = Idle /\ loose = {}

ServiceInit == \E cfg \in Config : NoDangling(cfg) /\ StartsWith(cfg)

\* The bodies of requests: all the fields of a record, or some.
Some(T, names) == {[k \in S |-> r[k]] : S \in SUBSET names, r \in T}
ConnBody == Some(ConnRecord, {"auth", "secret", "phrase", "sound"})
TunnelBody ==
  Some(TunnelRecord, {"chain", "userpass", "proxy", "restart", "min", "max", "sound"})
SettingsBody ==
  Some([level : {"info", "debug", "bad"}, theme : {"light", "dark", "bad"}],
       {"level", "theme"})

ServiceNext ==
  \/ \E c \in Conn :
       \/ \E body \in ConnRecord : CreateConn(c, body)
       \/ \E body \in ConnBody : UpdateConn(c, body)
       \/ DeleteConn(c)
  \/ \E t \in Tunnel :
       \/ \E body \in TunnelRecord : CreateTunnel(t, body)
       \/ \E body \in TunnelBody : UpdateTunnel(t, body)
       \/ DeleteTunnel(t)
  \/ \E body \in SettingsBody : PatchSettings(body)
  \/ SaveRenames \/ SaveFails \/ Reply \/ Restart

ServiceSpec == ServiceInit /\ [][ServiceNext]_serviceVars

-----------------------------------------------------------------------------
(* Properties. *)

ServiceTypeOK ==
  /\ mem \in Config /\ file \in Config /\ undo \in Config
  /\ used \subseteq Conn \cup Tunnel
  /\ job \in {Idle, "writing", "ok", "refused", "failed"}
  /\ loose \subseteq {"delete", "settings"}

\* No tunnel, in memory or in the file, names a connection that does not exist,
\* although a connection and the tunnel that is to use it are changed by
\* different requests (handler_ssh.go:149 against validate.go:160-167).
NoDanglingChain == NoDangling(mem) /\ NoDangling(file)

\* Outside of a save, memory is what the file holds: a change that was
\* acknowledged is saved, one that was refused or could not be saved left no
\* trace.  Two handlers break this and are named: a delete that was not saved
\* (handler_tunnel.go:153-159), which only makes records disappear, and settings
\* that were refused half way (handler_settings.go:70-98).
MemoryIsFile ==
  job # "writing" =>
    /\ \A c \in Ids(mem.conns) : mem.conns[c] = file.conns[c]
    /\ \A t \in Ids(mem.tunnels) : mem.tunnels[t] = file.tunnels[t]
    /\ "delete" \notin loose => /\ Ids(mem.conns) = Ids(file.conns)
                               /\ Ids(mem.tunnels) = Ids(file.tunnels)
    /\ "settings" \notin loose => mem.settings = file.settings
=============================================================================
