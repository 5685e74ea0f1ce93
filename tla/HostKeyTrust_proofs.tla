-------------------------- MODULE HostKeyTrust_proofs --------------------------
(***************************************************************************)
(* Proofs about the host key store, for any number of hosts, keys,         *)
(* handshakes and requests.  What is trusted was earned because what is on *)
(* its way to the store was: the key of a handshake that found no entry,   *)
(* the pending keys, and the key of a request that is about to be added.   *)
(* What Add accepted survives a restart because memory agrees with it too, *)
(* so that the save of another host writes the same.                       *)
(***************************************************************************)
EXTENDS HostKeyTrust, TLAPS

OnTheWay ==
  /\ \A d \in Handshake : dial[d] # Idle =>
       /\ dial[d].key \in offered[dial[d].host]
       /\ FirstUse(d) => dial[d].key \in earned[dial[d].host]
  /\ \A u \in Request : req[u] # Idle /\ req[u].at = "add" =>
       req[u].key \in offered[req[u].host] \cap earned[req[u].host]
  /\ \A h \in Host : pending[h] # NoKey => pending[h] \in offered[h]

MemoryAgrees ==
  \A h \in Host : answered[h] \in Key => keys[h] = answered[h]

IInv ==
  /\ TypeOK
  /\ OnTheWay
  /\ TrustIsEarned
  /\ MemoryAgrees
  /\ TrustSurvivesRestart

-----------------------------------------------------------------------------

\* A handshake in progress is about a host and has a key.
LEMMA Dialling ==
  ASSUME TypeOK, NEW d \in Handshake, dial[d] # Idle
  PROVE  dial[d] \in DialType /\ dial[d].host \in Host /\ dial[d].key \in Key
BY DEF TypeOK, DialType

\* A request in progress is about a host; one that adds has a key.
LEMMA Requesting ==
  ASSUME TypeOK, NEW u \in Request, req[u] # Idle
  PROVE  /\ req[u].host \in Host
         /\ req[u].at = "add" => req[u].key \in Key
BY DEF TypeOK, RequestType

\* Setting an entry to a key that was earned, or to none, keeps the store right.
LEMMA SetEntryKeeps ==
  ASSUME TypeOK, TrustIsEarned, MemoryAgrees, TrustSurvivesRestart,
         NEW h \in Host, NEW e \in Entry, SetEntry(h, e),
         e # NoKey => e \in offered[h] \cap earned[h],
         UNCHANGED <<offered, earned>>
  PROVE  /\ keys' \in [Host -> Entry] /\ disk' \in [Host -> Entry]
         /\ answered' \in [Host -> Entry \cup {Unsure}]
         /\ TrustIsEarned' /\ MemoryAgrees' /\ TrustSurvivesRestart'
<1>1. keys' = [keys EXCEPT ![h] = e] /\ keys' \in [Host -> Entry]
  BY DEF SetEntry, TypeOK
<1>2. CASE disk' = keys' /\ answered' = [answered EXCEPT ![h] = e]
  <2>1. answered' \in [Host -> Entry \cup {Unsure}]
    BY <1>2 DEF TypeOK
  <2>2. TrustIsEarned'
    BY <1>1, <1>2 DEF TypeOK, TrustIsEarned
  <2>3. MemoryAgrees' /\ TrustSurvivesRestart'
    BY <1>1, <1>2 DEF TypeOK, MemoryAgrees, TrustSurvivesRestart
  <2> QED
    BY <1>1, <1>2, <2>1, <2>2, <2>3
<1>3. CASE disk' = disk /\ answered' = [answered EXCEPT ![h] = Unsure]
  <2>1. answered' \in [Host -> Entry \cup {Unsure}] /\ disk' \in [Host -> Entry]
    BY <1>3 DEF TypeOK
  <2>2. TrustIsEarned'
    BY <1>1, <1>3 DEF TypeOK, TrustIsEarned
  <2>3. MemoryAgrees' /\ TrustSurvivesRestart'
    BY <1>1, <1>3, TrustConstants
       DEF TypeOK, MemoryAgrees, TrustSurvivesRestart
  <2> QED
    BY <1>1, <2>1, <2>2, <2>3
<1> QED
  BY <1>2, <1>3 DEF SetEntry, SaveDone

-----------------------------------------------------------------------------

LEMMA InvInit == Init => IInv
BY TrustConstants
   DEF Init, IInv, TypeOK, Entry, OnTheWay, TrustIsEarned, MemoryAgrees,
       TrustSurvivesRestart

LEMMA InvHandshake ==
  ASSUME IInv, NEW d \in Handshake, HandshakeStep(d)
  PROVE  IInv'
<1> USE DEF IInv, store
<1>1. CASE Lookup(d)
  <2>1. PICK h \in Host, m \in Mode, k \in Key :
          /\ dial' = [dial EXCEPT ![d] =
               [at |-> "looked", host |-> h, mode |-> m, key |-> k,
                stored |-> keys[h]]]
          /\ offered' = [offered EXCEPT ![h] = @ \cup {k}]
          /\ earned' = IF m = "acceptNew" /\ keys[h] = NoKey
                         THEN [earned EXCEPT ![h] = @ \cup {k}]
                         ELSE earned
    BY <1>1 DEF Lookup
  <2>2. UNCHANGED <<store, pending, req>>
    BY <1>1 DEF Lookup
  <2>3. [at |-> "looked", host |-> h, mode |-> m, key |-> k,
         stored |-> keys[h]] \in DialType
    BY DEF DialType, TypeOK
  <2>4. /\ offered' \in [Host -> SUBSET Key]
        /\ \A g \in Host : offered[g] \subseteq offered'[g]
        /\ k \in offered'[h]
    BY <2>1 DEF TypeOK
  <2>5. /\ earned' \in [Host -> SUBSET Key]
        /\ \A g \in Host : earned[g] \subseteq earned'[g]
        /\ m = "acceptNew" /\ keys[h] = NoKey => k \in earned'[h]
    BY <2>1 DEF TypeOK
  <2>6. TypeOK'
    BY <2>1, <2>2, <2>3, <2>4, <2>5 DEF TypeOK
  <2>7. TrustIsEarned' /\ MemoryAgrees' /\ TrustSurvivesRestart'
    BY <2>2, <2>4, <2>5
       DEF TrustIsEarned, MemoryAgrees, TrustSurvivesRestart
  <2>8. ASSUME NEW c \in Handshake, dial'[c] # Idle
        PROVE  /\ dial'[c].key \in offered'[dial'[c].host]
               /\ FirstUse(c)' => dial'[c].key \in earned'[dial'[c].host]
    <3>1. CASE c = d
      <4>1. dial'[c] = [at |-> "looked", host |-> h, mode |-> m, key |-> k,
                        stored |-> keys[h]]
        BY <2>1, <3>1 DEF TypeOK
      <4> QED
        BY <2>4, <2>5, <4>1 DEF FirstUse
    <3>2. CASE c # d
      <4>1. dial'[c] = dial[c]
        BY <2>1, <3>2 DEF TypeOK
      <4>2. dial[c].host \in Host
        BY <2>8, <4>1, Dialling
      <4> QED
        BY <2>4, <2>5, <2>8, <4>1, <4>2 DEF OnTheWay, FirstUse
    <3> QED
      BY <3>1, <3>2
  <2>9. ASSUME NEW u \in Request, req'[u] # Idle, req'[u].at = "add"
        PROVE  req'[u].key \in offered'[req'[u].host] \cap earned'[req'[u].host]
    <3>1. req'[u] = req[u]
      BY <2>2
    <3>2. req[u].host \in Host
      BY <2>9, <3>1, Requesting
    <3> QED
      BY <2>4, <2>5, <2>9, <3>1, <3>2 DEF OnTheWay
  <2>10. \A g \in Host : pending'[g] # NoKey => pending'[g] \in offered'[g]
    BY <2>2, <2>4 DEF OnTheWay
  <2> QED
    BY <2>6, <2>7, <2>8, <2>9, <2>10 DEF OnTheWay
<1>2. CASE dial[d] # Idle /\ HangUp(d) /\ UNCHANGED <<req, offered, earned>>
  <2>1. dial' \in [Handshake -> DialType \cup {Idle}]
    BY <1>2 DEF HangUp, TypeOK
  <2>2. \A c \in Handshake : dial'[c] = Idle \/ dial'[c] = dial[c]
    BY <1>2 DEF HangUp, TypeOK
  <2>3. /\ \A c \in Handshake : dial'[c] # Idle =>
             /\ dial'[c].key \in offered'[dial'[c].host]
             /\ FirstUse(c)' => dial'[c].key \in earned'[dial'[c].host]
        /\ \A u \in Request : req'[u] # Idle /\ req'[u].at = "add" =>
             req'[u].key \in offered'[req'[u].host] \cap earned'[req'[u].host]
    BY <1>2, <2>2 DEF OnTheWay, FirstUse
  <2>4. dial[d].host \in Host /\ dial[d].key \in Key
    BY <1>2, Dialling
  <2>5. CASE Accept(d)
    BY <1>2, <2>1, <2>3, <2>5
       DEF Accept, TypeOK, OnTheWay, TrustIsEarned, MemoryAgrees,
           TrustSurvivesRestart
  <2>6. CASE AddFirst(d)
    <3>1. dial[d].key \in offered[dial[d].host] \cap earned[dial[d].host]
      BY <1>2, <2>6 DEF AddFirst, OnTheWay
    <3>2. SetEntry(dial[d].host, dial[d].key) /\ pending' = pending
      BY <2>6 DEF AddFirst
    <3>3. /\ keys' \in [Host -> Entry] /\ disk' \in [Host -> Entry]
          /\ answered' \in [Host -> Entry \cup {Unsure}]
          /\ TrustIsEarned' /\ MemoryAgrees' /\ TrustSurvivesRestart'
      BY <1>2, <2>4, <3>1, <3>2, SetEntryKeeps DEF Entry
    <3> QED
      BY <1>2, <2>1, <2>3, <3>2, <3>3 DEF TypeOK, OnTheWay
  <2>7. CASE Park(d)
    <3>1. pending' = [pending EXCEPT ![dial[d].host] = dial[d].key]
      BY <2>7 DEF Park
    <3>2. dial[d].key \in offered[dial[d].host]
      BY <1>2 DEF OnTheWay
    <3>3. pending' \in [Host -> Entry]
      BY <2>4, <3>1 DEF TypeOK, Entry
    <3>4. \A h \in Host : pending'[h] # NoKey => pending'[h] \in offered'[h]
      BY <1>2, <2>4, <3>1, <3>2 DEF TypeOK, OnTheWay
    <3>5. UNCHANGED store
      BY <2>7 DEF Park
    <3>6. TrustIsEarned' /\ MemoryAgrees' /\ TrustSurvivesRestart'
      BY <1>2, <3>5 DEF TrustIsEarned, MemoryAgrees, TrustSurvivesRestart
    <3> QED
      BY <1>2, <2>1, <2>3, <3>3, <3>4, <3>5, <3>6 DEF TypeOK, OnTheWay
  <2>8. Accept(d) \/ AddFirst(d) \/ Park(d)
    BY <1>2 DEF HandshakeStep, Lookup
  <2> QED
    BY <2>5, <2>6, <2>7, <2>8
<1> QED
  BY <1>1, <1>2 DEF HandshakeStep, Accept, AddFirst, Park

LEMMA InvRequest ==
  ASSUME IInv, NEW u \in Request, RequestStep(u)
  PROVE  IInv'
<1> USE DEF IInv, store
<1>1. CASE Trust(u)
  <2>1. PICK h \in Host, k \in Key :
          /\ pending[h] = k
          /\ req' = [req EXCEPT ![u] =
                       [at |-> "add", host |-> h, key |-> pending[h]]]
          /\ earned' = [earned EXCEPT ![h] = @ \cup {k}]
    BY <1>1 DEF Trust, Confirms
  <2>2. UNCHANGED <<store, pending, dial, offered>>
    BY <1>1 DEF Trust
  <2>3. [at |-> "add", host |-> h, key |-> pending[h]] \in RequestType
    BY <2>1 DEF RequestType
  <2>4. k \in offered[h]
    BY <2>1, TrustConstants DEF OnTheWay
  <2>5. /\ earned' \in [Host -> SUBSET Key]
        /\ \A g \in Host : earned[g] \subseteq earned'[g]
        /\ k \in earned'[h]
    BY <2>1 DEF TypeOK
  <2>6. TypeOK'
    BY <2>1, <2>2, <2>3, <2>5 DEF TypeOK
  <2>7. TrustIsEarned' /\ MemoryAgrees' /\ TrustSurvivesRestart'
    BY <2>2, <2>5 DEF TrustIsEarned, MemoryAgrees, TrustSurvivesRestart
  <2>8. ASSUME NEW c \in Handshake, dial'[c] # Idle
        PROVE  /\ dial'[c].key \in offered'[dial'[c].host]
               /\ FirstUse(c)' => dial'[c].key \in earned'[dial'[c].host]
    <3>1. dial[c].host \in Host
      BY <2>2, <2>8, Dialling
    <3> QED
      BY <2>2, <2>5, <2>8, <3>1 DEF OnTheWay, FirstUse
  <2>9. ASSUME NEW v \in Request, req'[v] # Idle, req'[v].at = "add"
        PROVE  req'[v].key \in offered'[req'[v].host] \cap earned'[req'[v].host]
    <3>1. CASE v = u
      <4>1. req'[v] = [at |-> "add", host |-> h, key |-> pending[h]]
        BY <2>1, <3>1 DEF TypeOK
      <4> QED
        BY <2>1, <2>2, <2>4, <2>5, <4>1
    <3>2. CASE v # u
      <4>1. req'[v] = req[v]
        BY <2>1, <3>2 DEF TypeOK
      <4>2. req[v].host \in Host
        BY <2>9, <4>1, Requesting
      <4> QED
        BY <2>2, <2>5, <2>9, <4>1, <4>2 DEF OnTheWay
    <3> QED
      BY <3>1, <3>2
  <2> QED
    BY <2>2, <2>6, <2>7, <2>8, <2>9 DEF OnTheWay
<1>2. CASE Revoke(u)
  <2>1. PICK h \in Host :
          req' = [req EXCEPT ![u] = [at |-> "delete", host |-> h]]
    BY <1>2 DEF Revoke
  <2>2. UNCHANGED <<store, pending, dial, offered, earned>>
    BY <1>2 DEF Revoke
  <2>3. [at |-> "delete", host |-> h] \in RequestType
    BY DEF RequestType
  <2>4. TypeOK'
    BY <2>1, <2>2, <2>3 DEF TypeOK
  <2>5. \A v \in Request :
          req'[v] # Idle /\ req'[v].at = "add" => req'[v] = req[v]
    BY <2>1 DEF TypeOK
  <2> QED
    BY <2>2, <2>4, <2>5
       DEF OnTheWay, FirstUse, TrustIsEarned, MemoryAgrees, TrustSurvivesRestart
<1>3. CASE req[u] # Idle /\ (Answer(u) \/ GoOn(u))
           /\ UNCHANGED <<dial, offered, earned>>
  <2>1. req[u].host \in Host /\ (req[u].at = "add" => req[u].key \in Key)
    BY <1>3, Requesting
  <2>2. [at |-> "clear", host |-> req[u].host] \in RequestType
    BY <2>1 DEF RequestType
  <2>3. req' \in [Request -> RequestType \cup {Idle}]
    BY <1>3, <2>2 DEF TypeOK, Answer, GoOn
  <2>4. \A v \in Request :
          req'[v] # Idle /\ req'[v].at = "add" => req'[v] = req[v]
    BY <1>3 DEF TypeOK, Answer, GoOn
  <2>5. /\ \A c \in Handshake : dial'[c] # Idle =>
             /\ dial'[c].key \in offered'[dial'[c].host]
             /\ FirstUse(c)' => dial'[c].key \in earned'[dial'[c].host]
        /\ \A v \in Request : req'[v] # Idle /\ req'[v].at = "add" =>
             req'[v].key \in offered'[req'[v].host] \cap earned'[req'[v].host]
    BY <1>3, <2>4 DEF OnTheWay, FirstUse
  <2>6. CASE TrustAdd(u)
    <3>1. req[u].key \in offered[req[u].host] \cap earned[req[u].host]
      BY <2>6 DEF TrustAdd, OnTheWay
    <3>2. SetEntry(req[u].host, req[u].key) /\ pending' = pending
      BY <2>6 DEF TrustAdd
    <3>3. req[u].key \in Entry
      BY <2>1, <2>6 DEF TrustAdd, Entry
    <3>4. /\ keys' \in [Host -> Entry] /\ disk' \in [Host -> Entry]
          /\ answered' \in [Host -> Entry \cup {Unsure}]
          /\ TrustIsEarned' /\ MemoryAgrees' /\ TrustSurvivesRestart'
      BY <1>3, <2>1, <3>1, <3>2, <3>3, SetEntryKeeps
    <3> QED
      BY <1>3, <2>3, <2>5, <3>2, <3>4 DEF TypeOK, OnTheWay
  <2>7. CASE RevokeDelete(u)
    <3>1. pending' = pending
      BY <2>7 DEF RevokeDelete
    <3>2. CASE AlreadyGone(req[u].host)
      <4>1. /\ keys' = keys /\ disk' = disk
            /\ answered' = [answered EXCEPT ![req[u].host] = NoKey]
        BY <3>2 DEF AlreadyGone
      <4>2. answered' \in [Host -> Entry \cup {Unsure}]
        BY <4>1 DEF TypeOK, Entry
      <4>3. TrustIsEarned' /\ MemoryAgrees' /\ TrustSurvivesRestart'
        BY <1>3, <2>1, <4>1, TrustConstants
           DEF TypeOK, TrustIsEarned, MemoryAgrees, TrustSurvivesRestart
      <4> QED
        BY <1>3, <2>3, <2>5, <3>1, <4>1, <4>2, <4>3 DEF TypeOK, OnTheWay
    <3>3. CASE SetEntry(req[u].host, NoKey)
      <4>1. /\ keys' \in [Host -> Entry] /\ disk' \in [Host -> Entry]
            /\ answered' \in [Host -> Entry \cup {Unsure}]
            /\ TrustIsEarned' /\ MemoryAgrees' /\ TrustSurvivesRestart'
        BY <1>3, <2>1, <3>3, SetEntryKeeps DEF Entry
      <4> QED
        BY <1>3, <2>3, <2>5, <3>1, <4>1 DEF TypeOK, OnTheWay
    <3> QED
      BY <2>7, <3>2, <3>3 DEF RevokeDelete
  <2>8. CASE Clear(u)
    <3>1. pending' = [pending EXCEPT ![req[u].host] = NoKey] /\ UNCHANGED store
      BY <2>8 DEF Clear
    <3>2. pending' \in [Host -> Entry]
      BY <3>1 DEF TypeOK, Entry
    <3>3. \A h \in Host : pending'[h] # NoKey => pending'[h] \in offered'[h]
      BY <1>3, <2>1, <3>1 DEF TypeOK, OnTheWay
    <3>4. TrustIsEarned' /\ MemoryAgrees' /\ TrustSurvivesRestart'
      BY <1>3, <3>1 DEF TrustIsEarned, MemoryAgrees, TrustSurvivesRestart
    <3> QED
      BY <1>3, <2>3, <2>5, <3>1, <3>2, <3>3, <3>4 DEF TypeOK, OnTheWay
  <2>9. TrustAdd(u) \/ RevokeDelete(u) \/ Clear(u)
    BY <1>3 DEF RequestStep, Trust, Revoke
  <2> QED
    BY <2>6, <2>7, <2>8, <2>9
<1> QED
  BY <1>1, <1>2, <1>3
     DEF RequestStep, TrustAdd, RevokeDelete, Clear

LEMMA InvRestart == ASSUME IInv, Restart PROVE IInv'
BY TrustConstants
   DEF IInv, Restart, TypeOK, Entry, OnTheWay, TrustIsEarned, MemoryAgrees,
       TrustSurvivesRestart

LEMMA InvNext == IInv /\ [Next]_vars => IInv'
<1> SUFFICES ASSUME IInv, [Next]_vars PROVE IInv'
  OBVIOUS
<1>1. CASE \E d \in Handshake : HandshakeStep(d)
  BY <1>1, InvHandshake
<1>2. CASE \E u \in Request : RequestStep(u)
  BY <1>2, InvRequest
<1>3. CASE Restart
  BY <1>3, InvRestart
<1>4. CASE UNCHANGED vars
  BY <1>4
     DEF vars, store, IInv, TypeOK, OnTheWay, FirstUse, TrustIsEarned,
         MemoryAgrees, TrustSurvivesRestart
<1> QED
  BY <1>1, <1>2, <1>3, <1>4 DEF Next

THEOREM TrustInvariant == Spec => []IInv
<1>1. Init => IInv
  BY InvInit
<1>2. IInv /\ [Next]_vars => IInv'
  BY InvNext
<1> QED
  BY <1>1, <1>2, PTL DEF Spec

-----------------------------------------------------------------------------
(* What the invariant gives. *)

\* Every variable keeps its type: in particular a request that is to add a key
\* has one (handler_hostkey.go:51-55).
THEOREM TrustTypeCorrect == Spec => []TypeOK
<1>1. IInv => TypeOK
  BY DEF IInv
<1> QED
  BY <1>1, TrustInvariant, PTL

\* No key is trusted, in memory or in the file, unless the host offered it and
\* it was confirmed or came on first use, whatever runs side by side and
\* wherever the process is restarted (hostkey.go:264-286).
THEOREM OnlyEarnedTrust == Spec => []TrustIsEarned
<1>1. IInv => TrustIsEarned
  BY DEF IInv
<1> QED
  BY <1>1, TrustInvariant, PTL

\* A key that Add accepted is in the file until another Add or Delete of the
\* host (hostkey.go:100-114, 130-135).
THEOREM TrustIsDurable == Spec => []TrustSurvivesRestart
<1>1. IInv => TrustSurvivesRestart
  BY DEF IInv
<1> QED
  BY <1>1, TrustInvariant, PTL
=============================================================================
