--------------------------- MODULE ConfigService_proofs ---------------------------
(***************************************************************************)
(* ConfigService keeps its promises for every set of connections, tunnels   *)
(* and secrets.                                                             *)
(*                                                                         *)
(* A request ends in one of four ways: accepted, and being saved; refused   *)
(* without a trace; a delete, which only takes a record away; or settings   *)
(* taken over half way.  What the configuration promises is kept by each of *)
(* the four.  While a save runs the promises are those of the configuration *)
(* it may have to go back to.                                               *)
(***************************************************************************)
EXTENDS ConfigService, TLAPS

Accepted ==
  \E new \in Config : /\ Valid(new) /\ mem' = new /\ undo' = mem
                      /\ job' = "writing" /\ loose' = loose

Refused == mem' = mem /\ undo' \in {mem, undo} /\ job' = "refused" /\ loose' = loose

\* What new has, mem has.
Smaller(new) ==
  /\ \A c \in Ids(new.conns) : c \in Ids(mem.conns) /\ new.conns[c] = mem.conns[c]
  /\ \A t \in Ids(new.tunnels) : t \in Ids(mem.tunnels) /\ new.tunnels[t] = mem.tunnels[t]
  /\ new.settings = mem.settings

Discarded ==
  \E new \in Config : Smaller(new) /\ (NoDangling(mem) => NoDangling(new)) /\ Discard(new)

HalfPatched ==
  \E s \in Settings : /\ mem' = [mem EXCEPT !.settings = s] /\ undo' = mem
                      /\ job' = "refused" /\ loose' = loose \cup {"settings"}

AnyRequest ==
  \/ \E c \in Conn :
       \/ \E body \in ConnRecord : CreateConn(c, body)
       \/ \E body \in ConnBody : UpdateConn(c, body)
       \/ DeleteConn(c)
  \/ \E t \in Tunnel :
       \/ \E body \in TunnelRecord : CreateTunnel(t, body)
       \/ \E body \in TunnelBody : UpdateTunnel(t, body)
       \/ DeleteTunnel(t)
  \/ \E body \in SettingsBody : PatchSettings(body)

-----------------------------------------------------------------------------
(* Records. *)

LEMMA MergedConn ==
  ASSUME NEW old \in ConnRecord, NEW body \in ConnBody
  PROVE  Merged(old, body) \in ConnRecord
<1>1. PICK S \in SUBSET {"auth", "secret", "phrase", "sound"}, r \in ConnRecord :
        body = [k \in S |-> r[k]]
  BY DEF ConnBody, Some
<1>2. DOMAIN body = S /\ \A k \in S : body[k] = r[k]
  BY <1>1
<1>3. DOMAIN old = {"auth", "secret", "phrase", "sound"}
  BY DEF ConnRecord
<1>4. Merged(old, body) = [auth |-> IF "auth" \in S THEN r.auth ELSE old.auth,
                           secret |-> IF "secret" \in S THEN r.secret ELSE old.secret,
                           phrase |-> IF "phrase" \in S THEN r.phrase ELSE old.phrase,
                           sound |-> IF "sound" \in S THEN r.sound ELSE old.sound]
  BY <1>2, <1>3 DEF Merged
<1>5. QED BY <1>4 DEF ConnRecord

LEMMA MergedTunnel ==
  ASSUME NEW old \in TunnelRecord, NEW body \in TunnelBody
  PROVE  Merged(old, body) \in TunnelRecord
<1>1. PICK S \in SUBSET {"chain", "userpass", "proxy", "restart", "min", "max", "sound"},
           r \in TunnelRecord :
        body = [k \in S |-> r[k]]
  BY DEF TunnelBody, Some
<1>2. DOMAIN body = S /\ \A k \in S : body[k] = r[k]
  BY <1>1
<1>3. DOMAIN old = {"chain", "userpass", "proxy", "restart", "min", "max", "sound"}
  BY DEF TunnelRecord
<1>4. Merged(old, body) =
        [chain |-> IF "chain" \in S THEN r.chain ELSE old.chain,
         userpass |-> IF "userpass" \in S THEN r.userpass ELSE old.userpass,
         proxy |-> IF "proxy" \in S THEN r.proxy ELSE old.proxy,
         restart |-> IF "restart" \in S THEN r.restart ELSE old.restart,
         min |-> IF "min" \in S THEN r.min ELSE old.min,
         max |-> IF "max" \in S THEN r.max ELSE old.max,
         sound |-> IF "sound" \in S THEN r.sound ELSE old.sound]
  BY <1>2, <1>3 DEF Merged
<1>5. QED BY <1>4 DEF TunnelRecord

LEMMA DefaultsApplied ==
  ASSUME NEW t \in TunnelRecord
  PROVE  WithDefaults(t) \in Stored /\ WithDefaults(t).chain = t.chain
<1>1. WithDefaults(t) \in TunnelRecord /\ WithDefaults(t).chain = t.chain
  BY DEF WithDefaults, TunnelRecord
<1>2. WithDefaults(t).min > 0 /\ WithDefaults(t).max > 0
  BY DEF WithDefaults, TunnelRecord
<1>3. QED BY <1>1, <1>2 DEF Stored

LEMMA StoredIsNotAbsent == Absent \notin Stored /\ Absent \notin ConnRecord
BY ConfigConstants DEF Stored

\* A configuration with one record replaced is a configuration.
LEMMA WithConn ==
  ASSUME NEW cfg \in Config, NEW c \in Conn, NEW r \in ConnRecord \cup {Absent}
  PROVE  [cfg EXCEPT !.conns[c] = r] \in Config
BY DEF Config

LEMMA WithTunnel ==
  ASSUME NEW cfg \in Config, NEW t \in Tunnel, NEW r \in Stored \cup {Absent}
  PROVE  [cfg EXCEPT !.tunnels[t] = r] \in Config
BY DEF Config

LEMMA WithSettings ==
  ASSUME NEW cfg \in Config, NEW s \in Settings
  PROVE  [cfg EXCEPT !.settings = s] \in Config
BY DEF Config

LEMMA LoadedConfig ==
  ASSUME NEW cfg \in Config
  PROVE  Loaded(cfg) \in Config /\ (NoDangling(cfg) => NoDangling(Loaded(cfg)))
<1> DEFINE new == Loaded(cfg)
<1>1. \A t \in Tunnel : cfg.tunnels[t] \in Stored \cup {Absent}
  BY DEF Config
<1>2. \A t \in Tunnel : cfg.tunnels[t] # Absent =>
        /\ WithDefaults(cfg.tunnels[t]) \in Stored
        /\ WithDefaults(cfg.tunnels[t]).chain = cfg.tunnels[t].chain
  BY <1>1, DefaultsApplied DEF Stored
<1>3. new.conns = cfg.conns /\ DOMAIN cfg.tunnels = Tunnel /\ DOMAIN new.tunnels = Tunnel
      /\ \A t \in Tunnel : new.tunnels[t] =
           IF cfg.tunnels[t] = Absent THEN Absent ELSE WithDefaults(cfg.tunnels[t])
  BY DEF Config, Loaded
<1>4. new \in Config
  <2>1. [t \in Tunnel |-> IF cfg.tunnels[t] = Absent THEN Absent
                          ELSE WithDefaults(cfg.tunnels[t])]
          \in [Tunnel -> Stored \cup {Absent}]
    BY <1>2
  <2>2. QED BY <2>1 DEF Config, Loaded
<1>5. ASSUME NoDangling(cfg), NEW t \in Ids(new.tunnels)
      PROVE  ToSet(new.tunnels[t].chain) \subseteq Ids(new.conns)
  <2>1. t \in Tunnel /\ cfg.tunnels[t] # Absent
    BY <1>3, <1>5 DEF Ids
  <2>2. new.tunnels[t].chain = cfg.tunnels[t].chain
    BY <1>2, <1>3, <2>1
  <2>3. t \in Ids(cfg.tunnels)
    BY <1>3, <2>1 DEF Ids
  <2>4. QED BY <1>3, <1>5, <2>2, <2>3 DEF NoDangling
<1>6. QED BY <1>4, <1>5 DEF NoDangling

-----------------------------------------------------------------------------
(* The four ways a request ends. *)

LEMMA AttemptEnds ==
  ASSUME NEW new \in Config, Attempt(new, RolledBack(new, mem)), loose' = loose
  PROVE  Accepted \/ Refused
BY DEF Attempt, RolledBack, Accepted, Refused

LEMMA NotFoundIsRefused == NotFound => Refused
BY DEF NotFound, Refused

LEMMA ConnRequestEnds ==
  ASSUME mem \in Config, NEW c \in Conn,
         \/ \E body \in ConnRecord : CreateConn(c, body)
         \/ \E body \in ConnBody : UpdateConn(c, body)
         \/ DeleteConn(c)
  PROVE  Accepted \/ Refused \/ Discarded
<1>1. ASSUME NEW body \in ConnRecord, CreateConn(c, body)
      PROVE  Accepted \/ Refused
  <2> DEFINE new == [mem EXCEPT !.conns[c] = body]
  <2>1. new \in Config
    BY WithConn
  <2>2. Attempt(new, RolledBack(new, mem)) /\ loose' = loose
    BY <1>1 DEF CreateConn
  <2> HIDE DEF new
  <2>3. QED BY <2>1, <2>2, AttemptEnds
<1>2. ASSUME NEW body \in ConnBody, UpdateConn(c, body)
      PROVE  Accepted \/ Refused
  <2> DEFINE new == [mem EXCEPT !.conns[c] = Merged(@, body)]
  <2>1. CASE mem.conns[c] = Absent
    BY <1>2, <2>1, NotFoundIsRefused DEF UpdateConn
  <2>2. CASE mem.conns[c] # Absent
    <3>1. mem.conns[c] \in ConnRecord
      BY <2>2 DEF Config
    <3>2. Merged(mem.conns[c], body) \in ConnRecord
      BY <3>1, MergedConn
    <3>3. new \in Config
      BY <3>2, WithConn
    <3>4. Attempt(new, RolledBack(new, mem)) /\ loose' = loose
      BY <1>2, <2>2 DEF UpdateConn
    <3> HIDE DEF new
    <3>5. QED BY <3>3, <3>4, AttemptEnds
  <2>3. QED BY <2>1, <2>2
<1>3. CASE DeleteConn(c)
  <2> DEFINE new == [mem EXCEPT !.conns[c] = Absent]
  <2>1. CASE mem.conns[c] = Absent \/ References(c) # {}
    BY <1>3, <2>1, NotFoundIsRefused DEF DeleteConn
  <2>2. CASE mem.conns[c] # Absent /\ References(c) = {}
    <3>1. new \in Config
      BY WithConn
    <3>2. Discard(new)
      BY <1>3, <2>2 DEF DeleteConn
    <3>3. new.tunnels = mem.tunnels /\ new.settings = mem.settings
          /\ DOMAIN new.conns = Conn /\ DOMAIN mem.conns = Conn
          /\ new.conns[c] = Absent /\ \A d \in Conn \ {c} : new.conns[d] = mem.conns[d]
      BY DEF Config
    <3> HIDE DEF new
    <3>4. Ids(new.conns) = Ids(mem.conns) \ {c}
      BY <3>3 DEF Ids
    <3>5. Smaller(new)
      BY <3>3, <3>4 DEF Smaller, Ids
    <3>6. ASSUME NoDangling(mem), NEW t \in Ids(new.tunnels)
          PROVE  ToSet(new.tunnels[t].chain) \subseteq Ids(new.conns)
      <4>1. t \in Ids(mem.tunnels) /\ new.tunnels[t] = mem.tunnels[t]
        BY <3>3, <3>6
      <4>2. ToSet(mem.tunnels[t].chain) \subseteq Ids(mem.conns)
        BY <3>6, <4>1 DEF NoDangling
      <4>3. c \notin ToSet(mem.tunnels[t].chain)
        BY <2>2, <4>1 DEF References
      <4>4. QED BY <3>4, <4>1, <4>2, <4>3
    <3>7. QED BY <3>1, <3>2, <3>5, <3>6 DEF Discarded, NoDangling
  <2>3. QED BY <2>1, <2>2
<1>4. QED BY <1>1, <1>2, <1>3

LEMMA TunnelRequestEnds ==
  ASSUME mem \in Config, NEW t \in Tunnel,
         \/ \E body \in TunnelRecord : CreateTunnel(t, body)
         \/ \E body \in TunnelBody : UpdateTunnel(t, body)
         \/ DeleteTunnel(t)
  PROVE  Accepted \/ Refused \/ Discarded
<1>1. ASSUME NEW body \in TunnelRecord, CreateTunnel(t, body)
      PROVE  Accepted \/ Refused
  <2> DEFINE new == [mem EXCEPT !.tunnels[t] = WithDefaults(body)]
  <2>1. new \in Config
    BY DefaultsApplied, WithTunnel
  <2>2. Attempt(new, RolledBack(new, mem)) /\ loose' = loose
    BY <1>1 DEF CreateTunnel
  <2> HIDE DEF new
  <2>3. QED BY <2>1, <2>2, AttemptEnds
<1>2. ASSUME NEW body \in TunnelBody, UpdateTunnel(t, body)
      PROVE  Accepted \/ Refused
  <2> DEFINE new == [mem EXCEPT !.tunnels[t] = WithDefaults(Merged(@, body))]
  <2>1. CASE mem.tunnels[t] = Absent
    BY <1>2, <2>1, NotFoundIsRefused DEF UpdateTunnel
  <2>2. CASE mem.tunnels[t] # Absent
    <3>1. mem.tunnels[t] \in TunnelRecord
      BY <2>2 DEF Config, Stored
    <3>2. WithDefaults(Merged(mem.tunnels[t], body)) \in Stored
      BY <3>1, MergedTunnel, DefaultsApplied
    <3>3. new \in Config
      BY <3>2, WithTunnel
    <3>4. Attempt(new, RolledBack(new, mem)) /\ loose' = loose
      BY <1>2, <2>2 DEF UpdateTunnel
    <3> HIDE DEF new
    <3>5. QED BY <3>3, <3>4, AttemptEnds
  <2>3. QED BY <2>1, <2>2
<1>3. CASE DeleteTunnel(t)
  <2> DEFINE new == [mem EXCEPT !.tunnels[t] = Absent]
  <2>1. CASE mem.tunnels[t] = Absent
    BY <1>3, <2>1, NotFoundIsRefused DEF DeleteTunnel
  <2>2. CASE mem.tunnels[t] # Absent
    <3>1. new \in Config
      BY WithTunnel
    <3>2. Discard(new)
      BY <1>3, <2>2 DEF DeleteTunnel
    <3>3. new.conns = mem.conns /\ new.settings = mem.settings
          /\ DOMAIN new.tunnels = Tunnel /\ DOMAIN mem.tunnels = Tunnel
          /\ new.tunnels[t] = Absent /\ \A u \in Tunnel \ {t} : new.tunnels[u] = mem.tunnels[u]
      BY DEF Config
    <3> HIDE DEF new
    <3>4. Smaller(new)
      BY <3>3 DEF Smaller, Ids
    <3>5. NoDangling(mem) => NoDangling(new)
      BY <3>3, <3>4 DEF NoDangling, Smaller
    <3>6. QED BY <3>1, <3>2, <3>4, <3>5 DEF Discarded
  <2>3. QED BY <2>1, <2>2
<1>4. QED BY <1>1, <1>2, <1>3

LEMMA PatchEnds ==
  ASSUME mem \in Config, NEW body \in SettingsBody, PatchSettings(body)
  PROVE  Accepted \/ Refused \/ HalfPatched
<1> DEFINE new == [mem EXCEPT !.settings = Merged(@, body)]
<1>1. mem.settings \in Settings
  BY DEF Config
<1>2. new.settings = Merged(mem.settings, body)
  BY DEF Config
<1>3. CASE new.settings \in Settings
  <2>1. new \in Config
    BY <1>2, <1>3, WithSettings
  <2>2. Attempt(new, RolledBack(new, mem)) /\ loose' = loose
    BY <1>3 DEF PatchSettings
  <2> HIDE DEF new
  <2>3. QED BY <2>1, <2>2, AttemptEnds
<1>4. CASE new.settings \notin Settings
  <2>1. /\ job' = "refused" /\ undo' = mem
        /\ mem' = IF new.settings.level \in {"info", "debug"}
                    THEN [mem EXCEPT !.settings.level = new.settings.level] ELSE mem
        /\ loose' = IF mem' = mem THEN loose ELSE loose \cup {"settings"}
    BY <1>4 DEF PatchSettings
  <2> DEFINE l == new.settings.level
             s == [mem.settings EXCEPT !.level = l]
  <2> HIDE DEF new
  <2>2. CASE mem' = mem
    BY <2>1, <2>2 DEF Refused
  <2>3. CASE mem' # mem
    <3>1. l \in {"info", "debug"} /\ mem' = [mem EXCEPT !.settings.level = l]
      BY <2>1, <2>3
    <3>2. s \in Settings
      BY <1>1, <3>1 DEF Settings
    <3>3. mem' = [mem EXCEPT !.settings = s]
      BY <3>1
    <3>4. QED BY <2>1, <2>3, <3>2, <3>3 DEF HalfPatched
  <2>4. QED BY <2>2, <2>3
<1>5. QED BY <1>3, <1>4

LEMMA RequestEnds ==
  ASSUME mem \in Config, AnyRequest
  PROVE  (Accepted \/ Refused \/ Discarded \/ HalfPatched) /\ job = Idle /\ file' = file
         /\ used \subseteq used' /\ used' \subseteq used \cup Conn \cup Tunnel
<1>1. Accepted \/ Refused \/ Discarded \/ HalfPatched
  BY ConnRequestEnds, TunnelRequestEnds, PatchEnds DEF AnyRequest
<1>2. job = Idle /\ file' = file
      /\ used \subseteq used' /\ used' \subseteq used \cup Conn \cup Tunnel
  BY DEF AnyRequest, CreateConn, UpdateConn, DeleteConn, CreateTunnel, UpdateTunnel,
         DeleteTunnel, PatchSettings
<1>3. QED BY <1>1, <1>2

-----------------------------------------------------------------------------
(* What the configuration promises. *)

\* Memory has nothing the file does not have, but for what is named.
Near(cfg) ==
  /\ \A c \in Ids(cfg.conns) : cfg.conns[c] = file.conns[c]
  /\ \A t \in Ids(cfg.tunnels) : cfg.tunnels[t] = file.tunnels[t]
  /\ "delete" \notin loose => /\ Ids(cfg.conns) = Ids(file.conns)
                             /\ Ids(cfg.tunnels) = Ids(file.tunnels)
  /\ "settings" \notin loose => cfg.settings = file.settings

Promises ==
  /\ ServiceTypeOK
  /\ NoDangling(mem) /\ NoDangling(file) /\ NoDangling(undo)
  /\ IF job = "writing" THEN Near(undo) ELSE Near(mem)

LEMMA InitPromises == ServiceInit => Promises
<1> SUFFICES ASSUME NEW cfg \in Config, NoDangling(cfg), StartsWith(cfg) PROVE Promises
  BY DEF ServiceInit
<1>1. ServiceTypeOK
  BY DEF ServiceTypeOK, StartsWith, Ids, Config
<1>2. Near(mem)
  BY DEF Near, StartsWith
<1>3. job # "writing"
  BY ConfigConstants DEF StartsWith
<1>4. QED BY <1>1, <1>2, <1>3 DEF Promises, StartsWith

LEMMA RequestKeeps == Promises /\ AnyRequest => Promises'
<1> SUFFICES ASSUME Promises, AnyRequest PROVE Promises'
  OBVIOUS
<1>1. /\ Accepted \/ Refused \/ Discarded \/ HalfPatched
      /\ job = Idle /\ file' = file
      /\ used' \subseteq Conn \cup Tunnel
  BY RequestEnds DEF Promises, ServiceTypeOK
<1>2. mem \in Config /\ file \in Config /\ undo \in Config
      /\ loose \subseteq {"delete", "settings"}
  BY DEF Promises, ServiceTypeOK
<1>3. NoDangling(mem) /\ NoDangling(file) /\ NoDangling(undo) /\ Near(mem)
  BY <1>1, ConfigConstants DEF Promises
<1>4. CASE Accepted
  <2>1. PICK new \in Config : /\ Valid(new) /\ mem' = new /\ undo' = mem
                              /\ job' = "writing" /\ loose' = loose
    BY <1>4 DEF Accepted
  <2>2. NoDangling(new)
    BY <2>1 DEF NoDangling, Valid, ValidTunnel
  <2>3. Near(undo)'
    BY <1>1, <1>3, <2>1 DEF Near
  <2>4. ServiceTypeOK'
    BY <1>1, <1>2, <2>1 DEF ServiceTypeOK
  <2>5. NoDangling(mem)' /\ NoDangling(file)' /\ NoDangling(undo)'
    BY <1>1, <1>3, <2>1, <2>2 DEF NoDangling
  <2>6. QED BY <2>1, <2>3, <2>4, <2>5 DEF Promises
<1>5. CASE Refused
  <2>1. mem' = mem /\ undo' \in {mem, undo} /\ job' = "refused" /\ loose' = loose
    BY <1>5 DEF Refused
  <2>2. Near(mem)'
    BY <1>1, <1>3, <2>1 DEF Near
  <2>3. ServiceTypeOK'
    BY <1>1, <1>2, <2>1 DEF ServiceTypeOK
  <2>4. NoDangling(mem)' /\ NoDangling(file)' /\ NoDangling(undo)'
    BY <1>1, <1>3, <2>1 DEF NoDangling
  <2>5. QED BY <2>1, <2>2, <2>3, <2>4 DEF Promises
<1>6. CASE Discarded
  <2>1. PICK new \in Config : Smaller(new) /\ NoDangling(new) /\ Discard(new)
    BY <1>3, <1>6 DEF Discarded
  <2>2. mem' = new /\ undo' = new /\ job' \in {"writing", "ok"}
        /\ loose' = loose \cup {"delete"}
    BY <2>1 DEF Discard
  <2>3. \A c \in Ids(new.conns) : new.conns[c] = file.conns[c]
    BY <1>3, <2>1 DEF Near, Smaller
  <2>4. \A t \in Ids(new.tunnels) : new.tunnels[t] = file.tunnels[t]
    BY <1>3, <2>1 DEF Near, Smaller
  <2>5. "settings" \notin loose => new.settings = file.settings
    BY <1>3, <2>1 DEF Near, Smaller
  <2>6. Near(mem)' /\ Near(undo)'
    BY <1>1, <2>2, <2>3, <2>4, <2>5 DEF Near
  <2>7. ServiceTypeOK'
    BY <1>1, <1>2, <2>1, <2>2 DEF ServiceTypeOK
  <2>8. NoDangling(mem)' /\ NoDangling(file)' /\ NoDangling(undo)'
    BY <1>1, <1>3, <2>1, <2>2 DEF NoDangling
  <2>9. QED BY <2>6, <2>7, <2>8 DEF Promises
<1>7. CASE HalfPatched
  <2>1. PICK s \in Settings : /\ mem' = [mem EXCEPT !.settings = s] /\ undo' = mem
                              /\ job' = "refused" /\ loose' = loose \cup {"settings"}
    BY <1>7 DEF HalfPatched
  <2>2. mem' \in Config /\ mem'.conns = mem.conns /\ mem'.tunnels = mem.tunnels
    BY <1>2, <2>1, WithSettings DEF Config
  <2>3. Near(mem)'
    BY <1>1, <1>3, <2>1, <2>2 DEF Near
  <2>4. ServiceTypeOK'
    BY <1>1, <1>2, <2>1, <2>2 DEF ServiceTypeOK
  <2>5. NoDangling(mem)' /\ NoDangling(file)' /\ NoDangling(undo)'
    BY <1>1, <1>3, <2>1, <2>2 DEF NoDangling
  <2>6. QED BY <2>1, <2>3, <2>4, <2>5 DEF Promises
<1>8. QED BY <1>1, <1>4, <1>5, <1>6, <1>7

LEMMA NextPromises == Promises /\ [ServiceNext]_serviceVars => Promises'
<1> SUFFICES ASSUME Promises, [ServiceNext]_serviceVars PROVE Promises'
  OBVIOUS
<1>1. mem \in Config /\ file \in Config /\ undo \in Config
      /\ loose \subseteq {"delete", "settings"} /\ used \subseteq Conn \cup Tunnel
  BY DEF Promises, ServiceTypeOK
<1>2. NoDangling(mem) /\ NoDangling(file) /\ NoDangling(undo)
      /\ IF job = "writing" THEN Near(undo) ELSE Near(mem)
  BY DEF Promises
<1>3. CASE AnyRequest
  BY <1>3, RequestKeeps
<1>4. CASE SaveRenames
  <2>1. file' = mem /\ mem' = mem /\ loose' = {} /\ job' = "ok"
        /\ used' = used /\ undo' = undo
    BY <1>4 DEF SaveRenames
  <2>2. Near(mem)'
    BY <2>1 DEF Near
  <2>3. ServiceTypeOK'
    BY <1>1, <2>1 DEF ServiceTypeOK
  <2>4. NoDangling(mem)' /\ NoDangling(file)' /\ NoDangling(undo)'
    BY <1>2, <2>1 DEF NoDangling
  <2>5. QED BY <2>1, <2>2, <2>3, <2>4 DEF Promises
<1>5. CASE SaveFails
  <2>1. mem' = undo /\ job' = "failed" /\ job = "writing"
        /\ file' = file /\ used' = used /\ undo' = undo /\ loose' = loose
    BY <1>5 DEF SaveFails
  <2>2. Near(mem)'
    BY <1>2, <2>1 DEF Near
  <2>3. ServiceTypeOK'
    BY <1>1, <2>1 DEF ServiceTypeOK
  <2>4. NoDangling(mem)' /\ NoDangling(file)' /\ NoDangling(undo)'
    BY <1>2, <2>1 DEF NoDangling
  <2>5. QED BY <2>1, <2>2, <2>3, <2>4 DEF Promises
<1>6. CASE Reply
  <2>1. mem' = mem /\ job' = Idle /\ undo' = mem /\ job # "writing" /\ job' # "writing"
        /\ file' = file /\ used' = used /\ loose' = loose
    BY <1>6, ConfigConstants DEF Reply
  <2>2. Near(mem)'
    BY <1>2, <2>1 DEF Near
  <2>3. ServiceTypeOK'
    BY <1>1, <2>1 DEF ServiceTypeOK
  <2>4. NoDangling(mem)' /\ NoDangling(file)' /\ NoDangling(undo)'
    BY <1>2, <2>1 DEF NoDangling
  <2>5. QED BY <2>1, <2>2, <2>3, <2>4 DEF Promises
<1>7. CASE Restart
  <2>1. mem' = Loaded(file) /\ file' = mem' /\ undo' = mem'
        /\ job' = Idle /\ loose' = {} /\ used' = used
    BY <1>7 DEF Restart
  <2>2. Loaded(file) \in Config /\ NoDangling(Loaded(file))
    BY <1>1, <1>2, LoadedConfig
  <2>3. Near(mem)'
    BY <2>1 DEF Near
  <2>4. ServiceTypeOK'
    BY <1>1, <2>1, <2>2 DEF ServiceTypeOK
  <2>5. NoDangling(mem)' /\ NoDangling(file)' /\ NoDangling(undo)'
    BY <2>1, <2>2 DEF NoDangling
  <2>6. job' # "writing"
    BY <2>1, ConfigConstants
  <2>7. QED BY <2>3, <2>4, <2>5, <2>6 DEF Promises
<1>8. CASE UNCHANGED serviceVars
  <2>1. mem' = mem /\ file' = file /\ undo' = undo /\ job' = job /\ used' = used
        /\ loose' = loose
    BY <1>8 DEF serviceVars
  <2>2. QED BY <2>1 DEF Promises, ServiceTypeOK, NoDangling, Near
<1>9. QED BY <1>3, <1>4, <1>5, <1>6, <1>7, <1>8 DEF ServiceNext, AnyRequest

-----------------------------------------------------------------------------

LEMMA PromisesAlways == ServiceSpec => []Promises
<1>1. QED BY InitPromises, NextPromises, PTL DEF ServiceSpec

\* Whatever requests, failed saves and restarts leave behind are configurations
\* with every limit set.
THEOREM ServiceTypeCorrect == ServiceSpec => []ServiceTypeOK
<1>1. Promises => ServiceTypeOK
  BY DEF Promises
<1>2. QED BY <1>1, PromisesAlways, PTL

\* No chain names a connection that does not exist, in memory or in the file
\* (handler_ssh.go:149, validate.go:160-167).
THEOREM ChainsNeverDangle == ServiceSpec => []NoDanglingChain
<1>1. Promises => NoDanglingChain
  BY DEF Promises, NoDanglingChain
<1>2. QED BY <1>1, PromisesAlways, PTL

\* Outside of a save, memory is what the file holds, but for a delete that was not
\* saved and settings that were refused half way.
THEOREM MemoryFollowsFile == ServiceSpec => []MemoryIsFile
<1>1. Promises => MemoryIsFile
  BY DEF Promises, Near, MemoryIsFile
<1>2. QED BY <1>1, PromisesAlways, PTL
=============================================================================
