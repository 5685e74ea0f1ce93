------------------------------ MODULE HostKeyTrust ------------------------------
(***************************************************************************)
(* Trusted host keys: internal/ssh/hostkey.go and the two requests that    *)
(* change them, internal/api/handler_hostkey.go.                           *)
(*                                                                         *)
(* A handshake looks the host up in the store and, depending on the mode   *)
(* of the connection, accepts the key the server offers, stores it, or     *)
(* parks it as pending.  The user trusts a pending key by its fingerprint, *)
(* or revokes a trusted one.  Each method of JSONHostKeyStore is atomic    *)
(* (one of its two locks); a handshake or a request is several of them.    *)
(*                                                                         *)
(* The file is written under a temporary name and renamed: a save happens  *)
(* as a whole, or fails and leaves the file as it was.  A fingerprint      *)
(* stands for its key.  Mode insecure never touches the store and an       *)
(* invalid mode fails closed, so neither is here.  Lookup answers an entry *)
(* it cannot decode like none; every entry is written by Add, which        *)
(* encodes it, so only a file edited by hand holds one: not modelled.      *)
(***************************************************************************)
CONSTANTS
  Host,        \* host:port endpoints
  Key,         \* host keys
  Handshake,   \* goroutines that run handshakes
  Request,     \* goroutines that serve API requests
  NoKey,       \* no entry
  Unsure       \* no answer to hold the store to

ASSUME TrustConstants == NoKey \notin Key /\ Unsure \notin Key \cup {NoKey}

Entry == Key \cup {NoKey}
Mode == {"acceptNew", "strict"}

VARIABLES
  keys,        \* store.keys
  pending,     \* store.pending, in memory only
  disk,        \* the contents of known_hosts.json
  dial,        \* what each handshake is doing
  req,         \* what each request is doing
  offered,     \* history: the keys each host offered
  earned,      \* history: the keys of a host that the user confirmed or that
               \* came when it had none
  answered     \* history: what the last Add or Delete of the host made of its
               \* entry, if it returned no error

store == <<keys, disk, answered>>
vars == <<store, pending, dial, req, offered, earned>>

Idle == [at |-> "idle"]

\* A handshake that has looked up the entry of its host ...
DialType ==
  [at : {"looked"}, host : Host, mode : Mode, key : Key, stored : Entry]

\* ... and a request about one, with the key it is to trust.
RequestType ==
  [at : {"add"}, host : Host, key : Key] \cup [at : {"delete", "clear"}, host : Host]

TypeOK ==
  /\ keys \in [Host -> Entry]
  /\ pending \in [Host -> Entry]
  /\ disk \in [Host -> Entry]
  /\ dial \in [Handshake -> DialType \cup {Idle}]
  /\ req \in [Request -> RequestType \cup {Idle}]
  /\ offered \in [Host -> SUBSET Key]
  /\ earned \in [Host -> SUBSET Key]
  /\ answered \in [Host -> Entry \cup {Unsure}]

\* First start: there is no file, so load gives an empty store.
Init ==
  /\ keys = [h \in Host |-> NoKey]
  /\ pending = [h \in Host |-> NoKey]
  /\ disk = [h \in Host |-> NoKey]
  /\ dial = [d \in Handshake |-> Idle]
  /\ req = [u \in Request |-> Idle]
  /\ offered = [h \in Host |-> {}]
  /\ earned = [h \in Host |-> {}]
  /\ answered = [h \in Host |-> NoKey]

-----------------------------------------------------------------------------
(* Ways this code could be wrong: each replaces the definition it names to    *)
(* show that a property of this module notices.                               *)

AddsInAnyMode(d) == dial[d].stored = NoKey                 \* FirstUse
AnyFingerprint(h, k) == pending[h] # NoKey                 \* Confirms
IgnoresMissing(h, k) == TRUE                               \* Confirms
SkipsSave == UNCHANGED disk                                \* SaveDone

-----------------------------------------------------------------------------
(* The store. *)

\* save writes the whole map.
SaveDone == disk' = keys'

\* The map in memory changes first; an error of save is returned, and nothing
\* is undone.
SetEntry(h, entry) ==
  /\ keys' = [keys EXCEPT ![h] = entry]
  /\ \/ SaveDone /\ answered' = [answered EXCEPT ![h] = entry]
     \/ UNCHANGED disk /\ answered' = [answered EXCEPT ![h] = Unsure]

SaveFailed(h) == answered'[h] = Unsure

\* Delete of a missing entry returns without a save.
AlreadyGone(h) ==
  /\ keys[h] = NoKey
  /\ answered' = [answered EXCEPT ![h] = NoKey]
  /\ UNCHANGED <<keys, disk>>

-----------------------------------------------------------------------------
(* Handshakes. *)

HangUp(d) == dial' = [dial EXCEPT ![d] = Idle]

\* The server offers a key and the callback looks up the host's entry.
Lookup(d) ==
  /\ dial[d] = Idle
  /\ \E h \in Host, m \in Mode, k \in Key :
       /\ dial' = [dial EXCEPT ![d] =
            [at |-> "looked", host |-> h, mode |-> m, key |-> k,
             stored |-> keys[h]]]
       /\ offered' = [offered EXCEPT ![h] = @ \cup {k}]
       /\ earned' = IF m = "acceptNew" /\ keys[h] = NoKey
                      THEN [earned EXCEPT ![h] = @ \cup {k}]
                      ELSE earned
  /\ UNCHANGED <<store, pending, req>>

\* The key is the one that was found: the handshake goes on.
Accept(d) ==
  /\ dial[d] # Idle
  /\ dial[d].stored = dial[d].key
  /\ HangUp(d)
  /\ UNCHANGED <<store, pending, req, offered, earned>>

FirstUse(d) == dial[d].mode = "acceptNew" /\ dial[d].stored = NoKey

\* Nothing was found: the key is stored, and the handshake goes on unless the
\* save failed.
AddFirst(d) ==
  /\ dial[d] # Idle
  /\ FirstUse(d)
  /\ SetEntry(dial[d].host, dial[d].key)
  /\ HangUp(d)
  /\ UNCHANGED <<pending, req, offered, earned>>

\* Otherwise record parks the offered key and the handshake is rejected.
Park(d) ==
  /\ dial[d] # Idle
  /\ dial[d].stored # dial[d].key
  /\ ~FirstUse(d)
  /\ pending' = [pending EXCEPT ![dial[d].host] = dial[d].key]
  /\ HangUp(d)
  /\ UNCHANGED <<store, req, offered, earned>>

-----------------------------------------------------------------------------
(* Requests. *)

Answer(u) == req' = [req EXCEPT ![u] = Idle]
GoOn(u) == req' = [req EXCEPT ![u] = [at |-> "clear", host |-> req[u].host]]

\* The fingerprint in the request is the one of the pending key.
Confirms(h, k) == pending[h] = k

\* PUT with a fingerprint: the handler reads the pending key; without one, or
\* with another one, it answers 409.
Trust(u) ==
  /\ req[u] = Idle
  /\ \E h \in Host, k \in Key :
       /\ Confirms(h, k)
       /\ req' = [req EXCEPT ![u] =
                    [at |-> "add", host |-> h, key |-> pending[h]]]
       /\ earned' = [earned EXCEPT ![h] = @ \cup {k}]
  /\ UNCHANGED <<store, pending, dial, offered>>

\* It stores that key; an error ends the request.
TrustAdd(u) ==
  /\ req[u] # Idle
  /\ req[u].at = "add"
  /\ SetEntry(req[u].host, req[u].key)
  /\ IF SaveFailed(req[u].host) THEN Answer(u) ELSE GoOn(u)
  /\ UNCHANGED <<pending, dial, offered, earned>>

\* DELETE.
Revoke(u) ==
  /\ req[u] = Idle
  /\ \E h \in Host :
       req' = [req EXCEPT ![u] = [at |-> "delete", host |-> h]]
  /\ UNCHANGED <<store, pending, dial, offered, earned>>

RevokeDelete(u) ==
  /\ req[u] # Idle
  /\ req[u].at = "delete"
  /\ LET h == req[u].host IN
       \/ AlreadyGone(h)
       \/ keys[h] # NoKey /\ SetEntry(h, NoKey)
  /\ IF SaveFailed(req[u].host) THEN Answer(u) ELSE GoOn(u)
  /\ UNCHANGED <<pending, dial, offered, earned>>

\* Both end by dropping the pending key of the host, whichever it is by now.
Clear(u) ==
  /\ req[u] # Idle
  /\ req[u].at = "clear"
  /\ pending' = [pending EXCEPT ![req[u].host] = NoKey]
  /\ Answer(u)
  /\ UNCHANGED <<store, dial, offered, earned>>

\* The process ends, between any two steps, and starts again.
Restart ==
  /\ keys' = disk
  /\ pending' = [h \in Host |-> NoKey]
  /\ dial' = [d \in Handshake |-> Idle]
  /\ req' = [u \in Request |-> Idle]
  /\ UNCHANGED <<disk, answered, offered, earned>>

HandshakeStep(d) == Lookup(d) \/ Accept(d) \/ AddFirst(d) \/ Park(d)
RequestStep(u) ==
  Trust(u) \/ TrustAdd(u) \/ Revoke(u) \/ RevokeDelete(u) \/ Clear(u)

Next ==
  \/ \E d \in Handshake : HandshakeStep(d)
  \/ \E u \in Request : RequestStep(u)
  \/ Restart

Spec == Init /\ [][Next]_vars

-----------------------------------------------------------------------------
(* Properties. *)

\* A key is trusted, in memory or in the file, only if the host offered it and
\* either the user confirmed it by its fingerprint or it came in mode acceptNew
\* when the host had no key - whatever handshakes and requests run side by side
\* (hostkey.go:264-286, handler_hostkey.go:51-67; ROADMAP.md:521-522).
TrustIsEarned ==
  \A h \in Host :
    ({keys[h], disk[h]} \ {NoKey}) \subseteq (offered[h] \cap earned[h])

\* A key that Add accepted without error is in the file until another Add or
\* Delete of the same host, whatever saves of other hosts fail meanwhile: a
\* restart does not forget it (hostkey.go:100-114, 130-135).
TrustSurvivesRestart ==
  \A h \in Host : answered[h] \in Key => disk[h] = answered[h]

\* A revocation that was answered without error holds after a restart too
\* ("revokeHostKey removes a trusted host key. Idempotent.",
\* handler_hostkey.go:80).
RevocationSurvivesRestart ==
  \A h \in Host : answered[h] = NoKey => disk[h] = NoKey

\* A trusted key gives way to another one only when the user confirms it ("no
\* silent re-TOFU", ROADMAP.md:521).
KeyChangeIsConfirmed ==
  [][ \A h \in Host :
        (keys[h] \in Key /\ keys'[h] \in Key \ {keys[h]}) =>
           \/ \E u \in Request :
                req[u] # Idle /\ req[u].at = "add" /\ req[u].key = keys'[h]
           \/ keys' = disk    \* the file is read again
     ]_vars
=============================================================================
