------------------------------ MODULE WebAdmin_proofs ------------------------------
(***************************************************************************)
(* The pages and the service together keep what the service and the         *)
(* sessions promise on their own, and never store a mask, for every set of  *)
(* records and secrets and every number of calls, edits and restarts.       *)
(*                                                                         *)
(* The tab sends only what the handlers can decode, although what it sends  *)
(* is edited from what it was shown; so each step is a step of the service  *)
(* or leaves it alone, and the same for the sessions.                       *)
(***************************************************************************)
EXTENDS WebAdmin, ConfigService_proofs, WellFoundedInduction

(* Induction and recursion over the natural numbers. *)

\* A set of natural numbers has a least element ...
LEMMA Least ==
  ASSUME NEW T \in SUBSET Nat, T # {}
  PROVE  \E x \in T : \A y \in T : x <= y
<1> DEFINE R == OpToRel(<, Nat)
<1>1. IsWellFoundedOn(R, Nat)
  BY NatLessThanWellFounded, Zenon
<1>2. \A x, y \in Nat : x < y => <<x, y>> \in R
  BY DEF OpToRel
<1> HIDE DEF R
<1>3. PICK x \in T : \A y \in T : <<y, x>> \notin R
  BY <1>1, WFMin
<1>4. ASSUME NEW y \in T PROVE x <= y
  <2>1. x \in Nat /\ y \in Nat /\ ~(y < x)
    BY <1>2, <1>3
  <2>2. QED BY <2>1
<1>5. QED BY <1>4

\* ... so that what holds of 0 and of n + 1 whenever of n holds of all.
LEMMA Induction ==
  ASSUME NEW T \in SUBSET Nat, 0 \in T, \A n \in T : n + 1 \in T
  PROVE  T = Nat
<1>1. SUFFICES ASSUME Nat \ T # {} PROVE FALSE
  OBVIOUS
<1>2. PICK x \in Nat \ T : \A y \in Nat \ T : x <= y
  BY <1>1, Least
<1>3. x # 0 /\ x - 1 \in Nat
  BY <1>2
<1>4. x - 1 \in T
  BY <1>2, <1>3
<1>5. x - 1 + 1 = x
  BY <1>2
<1>6. QED BY <1>2, <1>4, <1>5

\* g is defined by recursion up to n: from b, by the steps st.
Solves(g, b, st, n) ==
  g[0] = b /\ \A i \in 0 .. n : i # 0 => g[i] = st[i][g[i - 1]]

\* Recursion defines a function.
LEMMA Recursion ==
  ASSUME NEW S, NEW b \in S, NEW st \in [Nat -> [S -> S]], NEW m \in Nat
  PROVE  \E g \in [0 .. m -> S] : Solves(g, b, st, m)
<1> DEFINE T == {n \in Nat : \E g \in [0 .. n -> S] : Solves(g, b, st, n)}
<1>1. 0 \in T
  <2> DEFINE g == [i \in 0 .. 0 |-> b]
  <2>1. g \in [0 .. 0 -> S] /\ Solves(g, b, st, 0)
    BY DEF Solves
  <2> HIDE DEF g
  <2>2. QED BY <2>1
<1>2. ASSUME NEW n \in T PROVE n + 1 \in T
  <2>1. n \in Nat /\ \E g \in [0 .. n -> S] : Solves(g, b, st, n)
    OBVIOUS
  <2>2. PICK g \in [0 .. n -> S] : Solves(g, b, st, n)
    BY <2>1
  <2> DEFINE v == st[n + 1][g[n]]
             h == [i \in 0 .. n + 1 |-> IF i = n + 1 THEN v ELSE g[i]]
  <2>3. g[n] \in S
    BY <2>1
  <2>4. v \in S
    BY <2>1, <2>3
  <2>5. h[n + 1] = v /\ (\A i \in 0 .. n : h[i] = g[i]) /\ n + 1 # 0
    BY <2>1
  <2>6. h \in [0 .. n + 1 -> S]
    <3>1. \A i \in 0 .. n + 1 : i # n + 1 => i \in 0 .. n
      BY <2>1
    <3> HIDE DEF v
    <3>2. QED BY <2>4, <3>1
  <2> HIDE DEF h
  <2>7. h[0] = b
    BY <2>1, <2>2, <2>5 DEF Solves
  <2>8. ASSUME NEW i \in 0 .. n + 1, i # 0 PROVE h[i] = st[i][h[i - 1]]
    <3>1. CASE i = n + 1
      <4>1. i - 1 = n /\ n \in 0 .. n
        BY <2>1, <3>1
      <4>2. h[i - 1] = g[n]
        BY <2>5, <4>1
      <4>3. QED BY <2>5, <3>1, <4>2
    <3>2. CASE i # n + 1
      <4>1. i \in 0 .. n /\ i - 1 \in 0 .. n
        BY <2>1, <2>8, <3>2
      <4>2. h[i] = g[i] /\ h[i - 1] = g[i - 1]
        BY <2>5, <4>1
      <4>3. QED BY <2>2, <2>8, <4>1, <4>2 DEF Solves
    <3>3. QED BY <3>1, <3>2
  <2>9. Solves(h, b, st, n + 1)
    BY <2>7, <2>8 DEF Solves
  <2>10. QED BY <2>1, <2>6, <2>9
<1>3. T = Nat
  <2>1. T \in SUBSET Nat
    OBVIOUS
  <2> HIDE DEF T
  <2>2. QED BY <1>1, <1>2, <2>1, Induction
<1>4. QED BY <1>3

\* A chain without a hop is a chain.
LEMMA WithoutType ==
  ASSUME NEW S, NEW s \in Seq(S), NEW c
  PROVE Without(s, c) \in Seq(S)
<1> DEFINE st == [i \in Nat |-> [q \in Seq(S) |->
             IF i \notin DOMAIN s \/ s[i] = c THEN q ELSE Append(q, s[i])]]
           F == CHOOSE f : f = [i \in 0 .. Len(s) |->
                  IF i = 0 THEN <<>> ELSE IF s[i] = c THEN f[i - 1] ELSE Append(f[i - 1], s[i])]
<1>1. Len(s) \in Nat /\ DOMAIN s = 1 .. Len(s) /\ \A i \in 1 .. Len(s) : s[i] \in S
  OBVIOUS
<1>2. st \in [Nat -> [Seq(S) -> Seq(S)]]
  BY <1>1
<1>3. \A i \in 1 .. Len(s), q \in Seq(S) :
        st[i][q] = IF s[i] = c THEN q ELSE Append(q, s[i])
  BY <1>1
<1> HIDE DEF st
<1>4. PICK g \in [0 .. Len(s) -> Seq(S)] :
        g[0] = <<>> /\ \A i \in 0 .. Len(s) : i # 0 => g[i] = st[i][g[i - 1]]
  <2> HIDE DEF F
  <2> DEFINE Q == Seq(S)
             b == <<>>
             m == Len(s)
  <2>1. b \in Q /\ st \in [Nat -> [Q -> Q]] /\ m \in Nat
    BY <1>1, <1>2
  <2> HIDE DEF Q, b, m
  <2>2. \E g \in [0 .. m -> Q] : Solves(g, b, st, m)
    BY <2>1, Recursion
  <2>3. QED BY <2>2 DEF Q, b, m, Solves
<1>5. g = [i \in 0 .. Len(s) |->
             IF i = 0 THEN <<>> ELSE IF s[i] = c THEN g[i - 1] ELSE Append(g[i - 1], s[i])]
  <2>1. ASSUME NEW i \in 0 .. Len(s), i # 0
        PROVE  g[i] = IF s[i] = c THEN g[i - 1] ELSE Append(g[i - 1], s[i])
    <3>1. i \in 1 .. Len(s) /\ i - 1 \in 0 .. Len(s)
      BY <1>1, <2>1
    <3>2. QED BY <1>3, <1>4, <2>1, <3>1
  <2>2. QED BY <1>4, <2>1
<1>6. F = [i \in 0 .. Len(s) |->
             IF i = 0 THEN <<>> ELSE IF s[i] = c THEN F[i - 1] ELSE Append(F[i - 1], s[i])]
  BY <1>5
<1>7. Without(s, c) = F[Len(s)]
  BY DEF Without
<1> HIDE DEF F
<1> DEFINE U == {n \in Nat : n <= Len(s) => F[n] \in Seq(S)}
<1>8. 0 \in U
  BY <1>6, <1>1
<1>9. ASSUME NEW n \in U PROVE n + 1 \in U
  <2>1. SUFFICES ASSUME n + 1 <= Len(s) PROVE F[n + 1] \in Seq(S)
    OBVIOUS
  <2>2. n \in 0 .. Len(s) /\ n + 1 \in 1 .. Len(s) /\ n + 1 \in 0 .. Len(s)
        /\ n + 1 # 0 /\ n + 1 - 1 = n
    BY <2>1, <1>1
  <2>3. F[n] \in Seq(S)
    BY <2>2
  <2>4. \A i \in 0 .. Len(s) :
          i # 0 => F[i] = IF s[i] = c THEN F[i - 1] ELSE Append(F[i - 1], s[i])
    BY <1>6
  <2>5. F[n + 1] = IF s[n + 1] = c THEN F[n] ELSE Append(F[n], s[n + 1])
    BY <2>2, <2>4
  <2>6. QED BY <2>3, <2>5, <2>2, <1>1
<1>10. U = Nat
  <2>1. U \in SUBSET Nat
    OBVIOUS
  <2> HIDE DEF U
  <2>2. QED BY <1>8, <1>9, <2>1, Induction
<1>11. Len(s) \in U
  BY <1>1, <1>10
<1>12. QED BY <1>7, <1>11

-----------------------------------------------------------------------------
(* The sessions.  What makes an ended session stay ended is that the file has no *)
(* session that is valid and that memory does not have, but for the logouts that  *)
(* it still owes.                                                               *)

\* A session is only in the file if it was given out, it expires there no later
\* than in memory, and one that is not in memory is owed or has expired there too.
FileFollows ==
  \A k \in Token : /\ k \notin drawn => (sessions[k] = 0 /\ kept[k] = 0)
                   /\ sessions[k] # 0 => kept[k] <= sessions[k]
                   /\ (sessions[k] = 0 /\ k \notin owed) => kept[k] < now

SessionsSound ==
  /\ SessionsTypeOK
  /\ FileFollows
  /\ \A k \in ended \ undone : sessions[k] = 0

LEMMA SoundTypes ==
  ASSUME SessionsSound
  PROVE  /\ now \in Nat /\ now > 0 /\ now <= MaxTime /\ MaxTime \in Nat /\ Ttl \in Nat
         /\ \A k \in Token : /\ sessions[k] \in 0 .. MaxTime + Ttl /\ sessions[k] \in Nat
                             /\ kept[k] \in 0 .. MaxTime + Ttl /\ kept[k] \in Nat
BY SessionConstants DEF SessionsSound, SessionsTypeOK

\* Sessions are only taken off the list: by a logout, or because they have expired.
LEMMA UnlistKeeps ==
  ASSUME SessionsSound,
         NEW gone \in SUBSET Token, NEW out \in SUBSET Token, NEW broken \in BOOLEAN,
         Unlist(gone, out, broken),
         \A k \in gone : k \in out \/ ~Alive(k)
  PROVE  /\ sessions' \in [Token -> 0 .. MaxTime + Ttl]
         /\ kept' \in [Token -> 0 .. MaxTime + Ttl]
         /\ owed' \subseteq owed \cup out
         /\ FileFollows'
         /\ \A k \in Token : sessions'[k] = IF k \in gone THEN 0 ELSE sessions[k]
         /\ now' = now /\ drawn' = drawn
<1>1. SessionsTypeOK /\ FileFollows
  BY DEF SessionsSound
<1>2. sessions' \in [Token -> 0 .. MaxTime + Ttl]
      /\ \A k \in Token : sessions'[k] = IF k \in gone THEN 0 ELSE sessions[k]
  BY SoundTypes DEF Unlist
<1>3. now' = now /\ drawn' = drawn
  BY DEF Unlist
<1>4. CASE sessions' = sessions
  <2>1. kept' = kept /\ owed' = owed
    BY <1>4 DEF Unlist
  <2>2. QED BY <1>1, <1>2, <1>3, <1>4, <2>1 DEF SessionsTypeOK, FileFollows
<1>5. CASE sessions' # sessions
  <2>1. Persist(out, broken)
    BY <1>5 DEF Unlist
  <2>2. CASE kept' = Written(sessions', kept) /\ owed' = {}
    <3>1. kept' = sessions'
      BY <2>2 DEF Written
    <3>2. FileFollows'
      BY <1>1, <1>2, <1>3, <2>2, <3>1, SoundTypes DEF FileFollows
    <3>3. QED BY <1>2, <1>3, <2>2, <3>1, <3>2
  <2>3. CASE owed' = owed \cup out /\ kept' = kept
    <3>1. ASSUME NEW k \in Token
          PROVE  /\ k \notin drawn' => (sessions'[k] = 0 /\ kept'[k] = 0)
                 /\ sessions'[k] # 0 => kept'[k] <= sessions'[k]
      BY <1>1, <1>2, <1>3, <2>3 DEF FileFollows
    <3>2. ASSUME NEW k \in Token, sessions'[k] = 0, k \notin owed'
          PROVE  kept'[k] < now'
      <4>1. CASE sessions[k] = 0
        BY <1>1, <1>3, <2>3, <3>2, <4>1 DEF FileFollows
      <4>2. CASE sessions[k] # 0
        <5>1. k \in gone
          BY <1>2, <3>2, <4>2
        <5>2. ~Alive(k)
          BY <2>3, <3>2, <5>1
        <5>3. sessions[k] < now /\ kept[k] <= sessions[k]
          BY <1>1, <4>2, <5>2, SoundTypes DEF Alive, FileFollows
        <5>4. QED BY <1>3, <2>3, <5>3, SoundTypes
      <4>3. QED BY <4>1, <4>2
    <3>3. FileFollows'
      BY <3>1, <3>2 DEF FileFollows
    <3>4. QED BY <1>1, <1>2, <1>3, <2>3, <3>3 DEF SessionsTypeOK
  <2>4. QED BY <2>1, <2>2, <2>3 DEF Persist
<1>6. QED BY <1>4, <1>5

LEMMA InitSound == SessionsInit => SessionsSound
<1> SUFFICES ASSUME SessionsInit PROVE SessionsSound
  OBVIOUS
<1>1. now \in 1 .. MaxTime
  BY SessionConstants DEF SessionsInit
<1>2. sessions \in [Token -> 0 .. MaxTime + Ttl] /\ kept \in [Token -> 0 .. MaxTime + Ttl]
  BY SessionConstants DEF SessionsInit
<1>3. SessionsTypeOK
  BY <1>1, <1>2 DEF SessionsInit, SessionsTypeOK
<1>4. now = 1 /\ \A k \in Token : sessions[k] = 0 /\ kept[k] = 0
  BY DEF SessionsInit
<1>5. FileFollows
  BY <1>4 DEF FileFollows
<1>6. QED BY <1>3, <1>5 DEF SessionsInit, SessionsSound

LEMMA CreateKeeps ==
  ASSUME SessionsSound, NEW k \in Token, NEW broken \in BOOLEAN, CreateSession(k, broken)
  PROVE  SessionsSound'
<1>1. /\ k \notin drawn /\ drawn' = drawn \cup {k} /\ now' = now
      /\ ended' = ended /\ undone' = undone
      /\ sessions' = [sessions EXCEPT ![k] = now + Ttl] /\ Persist({}, broken)
  BY DEF CreateSession
<1>2. SessionsTypeOK /\ FileFollows /\ k \notin ended
  BY <1>1 DEF SessionsSound, SessionsTypeOK
<1>3. /\ sessions' \in [Token -> 0 .. MaxTime + Ttl]
      /\ sessions'[k] = now + Ttl /\ sessions'[k] # 0 /\ sessions'[k] \in Nat
      /\ \A j \in Token \ {k} : sessions'[j] = sessions[j]
  BY <1>1, <1>2, SoundTypes DEF SessionsTypeOK
<1>4. \A j \in ended' \ undone' : sessions'[j] = 0
  BY <1>1, <1>2, <1>3 DEF SessionsSound, SessionsTypeOK
<1>5. CASE kept' = Written(sessions', kept) /\ owed' = {}
  <2>1. kept' = sessions'
    BY <1>5 DEF Written
  <2>2. \A j \in Token : sessions'[j] \in Nat
    BY <1>3, SoundTypes
  <2>3. \A j \in Token : j \notin drawn' => sessions'[j] = 0
    BY <1>1, <1>2, <1>3 DEF FileFollows
  <2>4. FileFollows'
    BY <1>1, <2>1, <2>2, <2>3, SoundTypes DEF FileFollows
  <2>5. SessionsTypeOK'
    BY <1>1, <1>2, <1>3, <1>5, <2>1 DEF SessionsTypeOK
  <2>6. QED BY <1>4, <2>4, <2>5 DEF SessionsSound
<1>6. CASE owed' = owed /\ kept' = kept
  <2>1. kept[k] = 0
    BY <1>1, <1>2 DEF FileFollows
  <2>2. FileFollows'
    BY <1>1, <1>2, <1>3, <1>6, <2>1, SoundTypes DEF FileFollows
  <2>3. SessionsTypeOK'
    BY <1>1, <1>2, <1>3, <1>6 DEF SessionsTypeOK
  <2>4. QED BY <1>4, <2>2, <2>3 DEF SessionsSound
<1>7. QED BY <1>1, <1>5, <1>6 DEF Persist

LEMMA EndKeeps ==
  ASSUME SessionsSound, NEW k \in Token, NEW broken \in BOOLEAN,
         k \in drawn, EndSession(k, broken)
  PROVE  SessionsSound'
<1>1. /\ Unlist({k}, {k}, broken) /\ ended' = ended \cup {k}
      /\ undone' = IF sessions[k] = 0 THEN undone ELSE undone \ {k}
  BY DEF EndSession
<1>2. /\ sessions' \in [Token -> 0 .. MaxTime + Ttl]
      /\ kept' \in [Token -> 0 .. MaxTime + Ttl]
      /\ owed' \subseteq owed \cup {k}
      /\ FileFollows'
      /\ \A j \in Token : sessions'[j] = IF j \in {k} THEN 0 ELSE sessions[j]
      /\ now' = now /\ drawn' = drawn
  BY <1>1, UnlistKeeps
<1>3. SessionsTypeOK
  BY DEF SessionsSound
<1>4. SessionsTypeOK'
  BY <1>1, <1>2, <1>3 DEF SessionsTypeOK
<1>5. \A j \in ended' \ undone' : sessions'[j] = 0
  BY <1>1, <1>2, <1>3 DEF SessionsSound, SessionsTypeOK
<1>6. QED BY <1>2, <1>4, <1>5 DEF SessionsSound

\* What has expired is swept.
LEMMA SweepKeeps ==
  ASSUME SessionsSound, NEW gone \in SUBSET Token, NEW broken \in BOOLEAN,
         \A k \in gone : ~Alive(k), Unlist(gone, {}, broken),
         ended' = ended, undone' = undone
  PROVE  SessionsSound'
<1>1. /\ sessions' \in [Token -> 0 .. MaxTime + Ttl]
      /\ kept' \in [Token -> 0 .. MaxTime + Ttl]
      /\ owed' \subseteq owed \cup {}
      /\ FileFollows'
      /\ \A k \in Token : sessions'[k] = IF k \in gone THEN 0 ELSE sessions[k]
      /\ now' = now /\ drawn' = drawn
  BY UnlistKeeps
<1>2. SessionsTypeOK /\ SessionsTypeOK'
  BY <1>1 DEF SessionsSound, SessionsTypeOK
<1>3. \A k \in ended' \ undone' : sessions'[k] = 0
  BY <1>1, <1>2 DEF SessionsSound, SessionsTypeOK
<1>4. QED BY <1>1, <1>2, <1>3 DEF SessionsSound

LEMMA LoadKeeps ==
  ASSUME SessionsSound, LoadSessions
  PROVE  SessionsSound'
<1>1. /\ sessions' = [k \in Token |-> IF now <= kept[k] THEN kept[k] ELSE 0]
      /\ undone' = undone \cup owed /\ owed' = {}
      /\ now' = now /\ kept' = kept /\ drawn' = drawn /\ ended' = ended
  BY DEF LoadSessions
<1>2. SessionsTypeOK /\ FileFollows
  BY DEF SessionsSound
<1>3. SessionsTypeOK'
  BY <1>1, <1>2, SoundTypes DEF SessionsTypeOK
<1>4. FileFollows'
  BY <1>1, <1>2, SoundTypes DEF FileFollows
<1>5. ASSUME NEW k \in ended \ (undone \cup owed)
      PROVE  sessions'[k] = 0
  <2>1. k \in Token /\ sessions[k] = 0
    BY <1>2 DEF SessionsSound, SessionsTypeOK
  <2>2. kept[k] < now
    BY <1>2, <2>1 DEF FileFollows
  <2>3. QED BY <1>1, <2>1, <2>2, SoundTypes
<1>6. QED BY <1>1, <1>3, <1>4, <1>5 DEF SessionsSound

LEMMA NextSound == SessionsSound /\ [SessionsNext]_sessionVars => SessionsSound'
<1> SUFFICES ASSUME SessionsSound, [SessionsNext]_sessionVars PROVE SessionsSound'
  OBVIOUS
<1>1. SessionsTypeOK /\ FileFollows
  BY DEF SessionsSound
<1>2. ASSUME NEW k \in Token, NEW broken \in BOOLEAN, CreateSession(k, broken)
      PROVE  SessionsSound'
  BY <1>2, CreateKeeps
<1>3. ASSUME NEW k \in Token, NEW broken \in BOOLEAN, k \in drawn, EndSession(k, broken)
      PROVE  SessionsSound'
  BY <1>3, EndKeeps
<1>4. ASSUME NEW k \in Token, NEW broken \in BOOLEAN, LooksUp(k, broken)
      PROVE  SessionsSound'
  <2>1. CASE ~Alive(k) /\ Unlist({k}, {}, broken) /\ ended' = ended /\ undone' = undone
    BY <2>1, SweepKeeps
  <2>2. CASE UNCHANGED sessionVars
    BY <2>2 DEF sessionVars, SessionsSound, SessionsTypeOK, FileFollows
  <2>3. QED BY <1>4, <2>1, <2>2 DEF LooksUp
<1>5. ASSUME NEW broken \in BOOLEAN, Cleanup(broken)
      PROVE  SessionsSound'
  <2> DEFINE gone == {k \in Token : ~Alive(k)}
  <2>1. Unlist(gone, {}, broken) /\ ended' = ended /\ undone' = undone
    BY <1>5 DEF Cleanup
  <2>2. gone \in SUBSET Token /\ \A k \in gone : ~Alive(k)
    OBVIOUS
  <2> HIDE DEF gone
  <2>3. QED BY <2>1, <2>2, SweepKeeps
<1>6. CASE Tick
  <2>1. now' = now + 1 /\ now < MaxTime
        /\ UNCHANGED <<sessions, kept, drawn, ended, owed, undone>>
    BY <1>6 DEF Tick
  <2>2. now' \in 1 .. MaxTime
    BY <2>1, SoundTypes
  <2>3. FileFollows'
    BY <1>1, <2>1, SoundTypes DEF FileFollows
  <2>4. QED BY <1>1, <2>1, <2>2, <2>3 DEF SessionsSound, SessionsTypeOK
<1>7. CASE LoadSessions
  BY <1>7, LoadKeeps
<1>8. CASE UNCHANGED sessionVars
  BY <1>8 DEF sessionVars, SessionsSound, SessionsTypeOK, FileFollows
<1>9. QED BY <1>2, <1>3, <1>4, <1>5, <1>6, <1>7, <1>8 DEF SessionsNext

-----------------------------------------------------------------------------

(* What the tab holds and what it sends. *)

Change == {"create", "update", "delete", "patch"}

\* A call, when d are the tokens given out so far.
CallOK(c, d) ==
  /\ DOMAIN c = {"op", "kind", "id", "body", "by", "phase"}
  /\ c.op \in Op /\ c.phase \in Phase
  /\ c.op \notin {"login", "logout"} /\ c.phase \in {"sent", "admitted"} => Sendable(c)
  /\ c.op = "reveal" /\ c.phase = "ok" => c.body.field \in RevealField /\ c.body.value \in Value
  /\ c.op = "login" /\ c.phase = "ok" => c.id \in d
  /\ c.op = "logout" /\ c.phase = "sent" => c.id \in d \cup {NoToken}

CallsOK(cs, d) ==
  /\ cs \in Seq(Range(cs))
  /\ \A i \in DOMAIN cs : CallOK(cs[i], d)

\* The calls new are the calls cs, further on, and maybe more.
Grows(cs, new) ==
  /\ Len(cs) \in Nat /\ Len(new) \in Nat /\ Len(cs) <= Len(new)
  /\ \A i \in 1 .. Len(cs) : new[i].op = cs[i].op

Lists ==
  [conns : [Conn -> ConnRecord \cup {Absent}], tunnels : [Tunnel -> Stored \cup {Absent}]]

FormOK(f) ==
  f # NoForm =>
    /\ DOMAIN f = {"kind", "id", "draft", "edits"}
    /\ f.kind \in {"conn", "tunnel", "deleteConn", "deleteTunnel"}
    /\ f.kind = "conn" => f.draft \in ConnDraft /\ f.id \in Conn \cup {New}
    /\ f.kind = "tunnel" => f.draft \in TunnelRecord /\ f.id \in Tunnel \cup {New}
    /\ f.kind = "deleteConn" => f.id \in Conn
    /\ f.kind = "deleteTunnel" => f.id \in Tunnel

ServingOK ==
  /\ serving \in 0 .. Len(calls) /\ (serving = 0 <=> job = Idle)
  /\ serving # 0 => calls[serving].op \in Change

TabTyped ==
  /\ bound \in Bounds /\ restarts \in 0 .. bound.restarts
  /\ page \in Page /\ cookie \in drawn \cup {NoToken}
  /\ seen \in Lists /\ FormOK(form) /\ CallsOK(calls, drawn) /\ ServingOK

AdminInv == Promises /\ SessionsSound /\ TabTyped

-----------------------------------------------------------------------------
(* Sequences of calls. *)

LEMMA SequenceOfItsElements ==
  ASSUME NEW S, NEW s \in Seq(S)
  PROVE  s \in Seq(Range(s))
<1>1. DOMAIN s = 1 .. Len(s) /\ Len(s) \in Nat
  OBVIOUS
<1>2. \A i \in 1 .. Len(s) : s[i] \in Range(s)
  BY <1>1 DEF Range
<1>3. QED BY <1>1, <1>2

LEMMA CallsAppend ==
  ASSUME NEW cs, NEW r, NEW d, CallsOK(cs, d), CallOK(r, d)
  PROVE  CallsOK(Append(cs, r), d) /\ Grows(cs, Append(cs, r))
<1> DEFINE new == Append(cs, r)
           S == Range(cs)
<1>1. cs \in Seq(S)
  BY DEF CallsOK
<1> HIDE DEF S
<1>2. /\ new \in Seq(S \cup {r}) /\ Len(new) = Len(cs) + 1 /\ new[Len(cs) + 1] = r
      /\ \A i \in 1 .. Len(cs) : new[i] = cs[i]
  BY <1>1
<1>3. /\ Len(cs) \in Nat /\ DOMAIN cs = 1 .. Len(cs) /\ DOMAIN new = 1 .. Len(cs) + 1
  BY <1>1, <1>2
<1>4. new \in Seq(Range(new))
  BY <1>2, SequenceOfItsElements
<1> HIDE DEF new
<1>5. ASSUME NEW i \in DOMAIN new PROVE CallOK(new[i], d)
  <2>1. CASE i = Len(cs) + 1
    BY <1>2, <2>1
  <2>2. CASE i \in 1 .. Len(cs)
    BY <1>2, <1>3, <2>2 DEF CallsOK
  <2>3. QED BY <1>3, <1>5, <2>1, <2>2
<1>6. CallsOK(new, d)
  BY <1>4, <1>5 DEF CallsOK
<1>7. Grows(cs, new)
  BY <1>2, <1>3 DEF Grows
<1>8. QED BY <1>6, <1>7 DEF new

LEMMA CallsChange ==
  ASSUME NEW cs, NEW new, NEW d, NEW e, CallsOK(cs, d),
         new = [i \in DOMAIN cs |-> new[i]],
         \A i \in DOMAIN cs : CallOK(new[i], e) /\ new[i].op = cs[i].op
  PROVE  CallsOK(new, e) /\ Grows(cs, new)
<1>1. cs \in Seq(Range(cs))
  BY DEF CallsOK
<1>2. Len(cs) \in Nat /\ DOMAIN cs = 1 .. Len(cs)
  BY <1>1
<1>3. DOMAIN new = 1 .. Len(cs) /\ new = [i \in 1 .. Len(cs) |-> new[i]]
  BY <1>2
<1>4. \A i \in 1 .. Len(cs) : new[i] \in Range(new)
  BY <1>3 DEF Range
<1>5. new \in Seq(Range(new)) /\ Len(new) = Len(cs)
  BY <1>2, <1>3, <1>4
<1>6. CallsOK(new, e)
  BY <1>2, <1>3, <1>5 DEF CallsOK
<1>7. Grows(cs, new)
  BY <1>2, <1>5 DEF Grows
<1>8. QED BY <1>6, <1>7

LEMMA CallsStay ==
  ASSUME NEW cs, NEW d, NEW e, CallsOK(cs, d), d \subseteq e
  PROVE  CallsOK(cs, e) /\ Grows(cs, cs)
<1>1. cs \in Seq(Range(cs))
  BY DEF CallsOK
<1>2. Len(cs) \in Nat
  BY <1>1
<1>3. \A i \in DOMAIN cs : CallOK(cs[i], e)
  BY DEF CallsOK, CallOK
<1>4. QED BY <1>1, <1>2, <1>3 DEF CallsOK, Grows

LEMMA GrowsOn ==
  ASSUME NEW a, NEW b, NEW c, Grows(a, b), Grows(b, c)
  PROVE  Grows(a, c)
<1>1. Len(a) \in Nat /\ Len(b) \in Nat /\ Len(c) \in Nat /\ Len(a) <= Len(b) /\ Len(b) <= Len(c)
  BY DEF Grows
<1>2. \A i \in 1 .. Len(a) : i \in 1 .. Len(b)
  BY <1>1
<1>3. QED BY <1>1, <1>2 DEF Grows

\* What happens to one call.
WithBy(c, by) == [c EXCEPT !.by = by]
WithPhase(c, phase) == [c EXCEPT !.phase = phase]
Gone(c) == [c EXCEPT !.id = New, !.body = <<>>, !.by = "gone", !.phase = "over"]

LEMMA ByKeeps ==
  ASSUME NEW c, NEW by, NEW d, CallOK(c, d)
  PROVE  CallOK(WithBy(c, by), d) /\ WithBy(c, by).op = c.op
<1> DEFINE n == WithBy(c, by)
<1>1. DOMAIN c = {"op", "kind", "id", "body", "by", "phase"}
  BY DEF CallOK
<1>2. /\ DOMAIN n = {"op", "kind", "id", "body", "by", "phase"}
      /\ n.op = c.op /\ n.kind = c.kind /\ n.id = c.id /\ n.body = c.body /\ n.phase = c.phase
  BY <1>1 DEF WithBy
<1> HIDE DEF n
<1>3. Sendable(c) => Sendable(n)
  BY <1>2 DEF Sendable
<1>4. CallOK(n, d) /\ n.op = c.op
  BY <1>2, <1>3 DEF CallOK
<1>5. QED BY <1>4 DEF n

LEMMA PhaseKeeps ==
  ASSUME NEW c, NEW phase \in Phase, NEW d, CallOK(c, d),
         phase \in {"sent", "admitted"} =>
           c.op \notin {"login", "logout"} /\ c.phase \in {"sent", "admitted"},
         phase = "ok" => c.op \notin {"reveal", "login"}
  PROVE  CallOK(WithPhase(c, phase), d) /\ WithPhase(c, phase).op = c.op
<1> DEFINE n == WithPhase(c, phase)
<1>1. DOMAIN c = {"op", "kind", "id", "body", "by", "phase"}
  BY DEF CallOK
<1>2. /\ DOMAIN n = {"op", "kind", "id", "body", "by", "phase"}
      /\ n.op = c.op /\ n.kind = c.kind /\ n.id = c.id /\ n.body = c.body /\ n.phase = phase
  BY <1>1 DEF WithPhase
<1> HIDE DEF n
<1>3. Sendable(c) => Sendable(n)
  BY <1>2 DEF Sendable
<1>4. CallOK(n, d) /\ n.op = c.op
  BY <1>2, <1>3 DEF CallOK
<1>5. QED BY <1>4 DEF n

LEMMA GoneKeeps ==
  ASSUME NEW c, NEW d, CallOK(c, d)
  PROVE  CallOK(Gone(c), d) /\ Gone(c).op = c.op
<1> DEFINE n == Gone(c)
<1>1. DOMAIN c = {"op", "kind", "id", "body", "by", "phase"}
  BY DEF CallOK
<1>2. /\ DOMAIN n = {"op", "kind", "id", "body", "by", "phase"}
      /\ n.op = c.op /\ n.phase = "over"
  BY <1>1 DEF Gone
<1> HIDE DEF n
<1>3. CallOK(n, d) /\ n.op = c.op
  BY <1>2 DEF CallOK, Phase
<1>4. QED BY <1>3 DEF n

\* What the tab and the server do to all the calls, or to one.
LEMMA TellKeeps ==
  ASSUME NEW d, CallsOK(calls, d), NEW i \in DOMAIN calls, NEW phase \in Phase,
         phase \in {"sent", "admitted"} =>
           calls[i].op \notin {"login", "logout"} /\ calls[i].phase \in {"sent", "admitted"},
         phase = "ok" => calls[i].op \notin {"reveal", "login"},
         Tell(i, phase)
  PROVE  CallsOK(calls', d) /\ Grows(calls, calls')
<1>1. calls' = [calls EXCEPT ![i] = WithPhase(calls[i], phase)]
  BY DEF Tell, WithPhase
<1> DEFINE new == [calls EXCEPT ![i] = WithPhase(calls[i], phase)]
<1>2. CallOK(calls[i], d)
  BY DEF CallsOK
<1>3. CallOK(WithPhase(calls[i], phase), d) /\ WithPhase(calls[i], phase).op = calls[i].op
  BY <1>2, PhaseKeeps
<1>4. new = [j \in DOMAIN calls |-> new[j]]
      /\ \A j \in DOMAIN calls : new[j] = IF j = i THEN WithPhase(calls[i], phase) ELSE calls[j]
  OBVIOUS
<1> HIDE DEF new
<1>5. \A j \in DOMAIN calls : CallOK(new[j], d) /\ new[j].op = calls[j].op
  BY <1>3, <1>4 DEF CallsOK
<1>6. CallsOK(new, d) /\ Grows(calls, new)
  BY <1>4, <1>5, CallsChange
<1>7. QED BY <1>1, <1>6 DEF new

LEMMA OverKeeps ==
  ASSUME NEW cs, NEW d, CallsOK(cs, d), NEW i \in DOMAIN cs
  PROVE  CallsOK(Over(cs, i), d) /\ Grows(cs, Over(cs, i))
<1> DEFINE new == [cs EXCEPT ![i] = Gone(cs[i])]
<1>1. Over(cs, i) = new
  BY DEF Over, Gone
<1>2. CallOK(cs[i], d)
  BY DEF CallsOK
<1>3. CallOK(Gone(cs[i]), d) /\ Gone(cs[i]).op = cs[i].op
  BY <1>2, GoneKeeps
<1>4. new = [j \in DOMAIN cs |-> new[j]]
      /\ \A j \in DOMAIN cs : new[j] = IF j = i THEN Gone(cs[i]) ELSE cs[j]
  OBVIOUS
<1> HIDE DEF new
<1>5. \A j \in DOMAIN cs : CallOK(new[j], d) /\ new[j].op = cs[j].op
  BY <1>3, <1>4 DEF CallsOK
<1>6. CallsOK(new, d) /\ Grows(cs, new)
  BY <1>4, <1>5, CallsChange
<1>7. QED BY <1>1, <1>6

LEMMA ForgottenKeeps ==
  ASSUME NEW d, CallsOK(calls, d)
  PROVE  CallsOK(Forgotten, d) /\ Grows(calls, Forgotten) /\ DOMAIN Forgotten = DOMAIN calls
<1> DEFINE new == Forgotten
<1>1. new = [j \in DOMAIN calls |-> new[j]]
      /\ \A j \in DOMAIN calls : new[j] \in {calls[j], WithBy(calls[j], "gone")}
  BY DEF Forgotten, WithBy
<1> HIDE DEF new
<1>2. ASSUME NEW j \in DOMAIN calls
      PROVE  CallOK(new[j], d) /\ new[j].op = calls[j].op
  <2>1. CallOK(calls[j], d)
    BY DEF CallsOK
  <2>2. QED BY <1>1, <2>1, ByKeeps
<1>3. CallsOK(new, d) /\ Grows(calls, new)
  BY <1>1, <1>2, CallsChange
<1>4. QED BY <1>1, <1>3 DEF new

LEMMA AbandonedKeeps ==
  ASSUME NEW d, CallsOK(calls, d)
  PROVE  CallsOK(Abandoned, d) /\ Grows(calls, Abandoned) /\ DOMAIN Abandoned = DOMAIN calls
<1> DEFINE new == Abandoned
<1>1. new = [j \in DOMAIN calls |-> new[j]]
      /\ \A j \in DOMAIN calls :
           new[j] \in {calls[j], WithBy(calls[j], "gone"), WithBy(calls[j], "left")}
  BY DEF Abandoned, WithBy
<1> HIDE DEF new
<1>2. ASSUME NEW j \in DOMAIN calls
      PROVE  CallOK(new[j], d) /\ new[j].op = calls[j].op
  <2>1. CallOK(calls[j], d)
    BY DEF CallsOK
  <2>2. QED BY <1>1, <2>1, ByKeeps
<1>3. CallsOK(new, d) /\ Grows(calls, new)
  BY <1>1, <1>2, CallsChange
<1>4. QED BY <1>1, <1>3 DEF new

\* A call that is made, with the fields its operation needs.
LEMMA SendKeeps ==
  ASSUME NEW d, CallsOK(calls, d), NEW r, Send(r),
         DOMAIN r = {"op", "kind", "id", "body", "by", "phase"},
         r.op \in Op, r.phase \in {"sent", "admitted"},
         r.op \notin {"login", "logout"} => Sendable(r),
         r.op = "logout" => r.id \in d \cup {NoToken}
  PROVE  CallsOK(calls', d) /\ Grows(calls, calls')
<1>1. CallOK(r, d)
  BY DEF CallOK, Phase
<1>2. calls' = Append(calls, r)
  BY DEF Send
<1>3. QED BY <1>1, <1>2, CallsAppend

-----------------------------------------------------------------------------
(* Records and forms. *)

LEMMA SomeValues == Empty \in Value /\ Secret \subseteq Value
BY DEF Value

LEMMA RedactedConn ==
  ASSUME NEW c \in ConnRecord \cup {Absent}
  PROVE  RedactConn(c) \in ConnRecord \cup {Absent}
<1>1. \A v : Masked(v) \in Value
  BY DEF Masked, Value
<1>2. CASE c = Absent
  BY <1>2 DEF RedactConn
<1>3. CASE c # Absent
  <2>1. RedactConn(c) = [c EXCEPT !.secret = Masked(c.secret), !.phrase = Masked(c.phrase)]
    BY <1>3 DEF RedactConn
  <2>2. c \in ConnRecord
    BY <1>3
  <2>3. \A v, w \in Value : [c EXCEPT !.secret = v, !.phrase = w] \in ConnRecord
    BY <2>2 DEF ConnRecord
  <2>4. Masked(c.secret) \in Value /\ Masked(c.phrase) \in Value
    BY <1>1
  <2>5. QED BY <2>1, <2>3, <2>4
<1>4. QED BY <1>2, <1>3

LEMMA RedactedTunnel ==
  ASSUME NEW t \in Stored \cup {Absent}
  PROVE  RedactTunnel(t) \in Stored \cup {Absent}
<1>1. \A v : Masked(v) \in Value
  BY DEF Masked, Value
<1>2. CASE t = Absent
  BY <1>2 DEF RedactTunnel
<1>3. CASE t # Absent
  <2>1. RedactTunnel(t) = [t EXCEPT !.proxy = Masked(t.proxy)]
    BY <1>3 DEF RedactTunnel
  <2>2. t \in TunnelRecord /\ t.min > 0 /\ t.max > 0
    BY <1>3 DEF Stored
  <2>3. ASSUME NEW v \in Value
        PROVE  /\ [t EXCEPT !.proxy = v] \in TunnelRecord
               /\ [t EXCEPT !.proxy = v].min = t.min /\ [t EXCEPT !.proxy = v].max = t.max
    BY <2>2 DEF TunnelRecord
  <2>4. /\ RedactTunnel(t) \in TunnelRecord
        /\ RedactTunnel(t).min = t.min /\ RedactTunnel(t).max = t.max
    BY <1>1, <2>1, <2>3
  <2>5. QED BY <2>2, <2>4 DEF Stored
<1>4. QED BY <1>2, <1>3

LEMMA DraftsFit ==
  /\ NewConn \in ConnDraft /\ NewTunnel \in TunnelRecord
  /\ \A c \in ConnRecord : ConnFormState(c) \in ConnDraft
  /\ \A d \in ConnDraft : BuildFormData(d) \in ConnRecord
<1>1. NewConn \in ConnDraft
  BY SomeValues DEF NewConn, ConnDraft, AuthType
<1>2. NewTunnel \in TunnelRecord
  <2>1. <<>> \in Seq(Conn)
    OBVIOUS
  <2>2. QED BY <2>1, SomeValues DEF NewTunnel, TunnelRecord
<1>3. ASSUME NEW c \in ConnRecord PROVE ConnFormState(c) \in ConnDraft
  BY SomeValues DEF ConnFormState, ConnDraft, ConnRecord
<1>4. ASSUME NEW d \in ConnDraft PROVE BuildFormData(d) \in ConnRecord
  <2> DEFINE secret == CASE d.auth = "password" -> d.password
                         [] d.auth = "inline" -> d.pem
                         [] OTHER -> Empty
             phrase == IF d.auth \in {"inline", "file"} THEN d.phrase ELSE Empty
  <2>1. d.auth \in AuthType /\ d.password \in Value /\ d.pem \in Value /\ d.phrase \in Value
        /\ d.sound \in BOOLEAN
    BY DEF ConnDraft
  <2>2. secret \in Value /\ phrase \in Value
    BY <2>1, SomeValues
  <2>3. BuildFormData(d) = [auth |-> d.auth, secret |-> secret, phrase |-> phrase,
                            sound |-> d.sound]
    BY DEF BuildFormData
  <2> HIDE DEF secret, phrase
  <2>4. QED BY <2>1, <2>2, <2>3 DEF ConnRecord
<1>5. QED BY <1>1, <1>2, <1>3, <1>4

\* A record is a body with all the fields.
LEMMA RecordsAreBodies ==
  /\ ConnRecord \subseteq ConnBody
  /\ \A t \in TunnelRecord : DOMAIN t \subseteq DOMAIN NewTunnel
                             /\ Merged(NewTunnel, t) \in TunnelRecord
<1>1. ASSUME NEW c \in ConnRecord PROVE c \in ConnBody
  <2> DEFINE names == {"auth", "secret", "phrase", "sound"}
  <2>1. c = [k \in names |-> c[k]]
    BY DEF ConnRecord
  <2>2. names \in SUBSET names
    OBVIOUS
  <2> HIDE DEF names
  <2>3. c \in Some(ConnRecord, names)
    BY <2>1, <2>2 DEF Some
  <2>4. QED BY <2>3 DEF ConnBody, names
<1>2. ASSUME NEW t \in TunnelRecord
      PROVE  DOMAIN t \subseteq DOMAIN NewTunnel /\ Merged(NewTunnel, t) \in TunnelRecord
  <2> DEFINE names == {"chain", "userpass", "proxy", "restart", "min", "max", "sound"}
  <2>1. DOMAIN NewTunnel = names
    BY DEF NewTunnel
  <2>2. DOMAIN t = names /\ t = [k \in names |-> t[k]]
    BY DEF TunnelRecord
  <2> HIDE DEF names
  <2>3. Merged(NewTunnel, t) = t
    BY <2>1, <2>2 DEF Merged
  <2>4. QED BY <2>1, <2>2, <2>3
<1>3. QED BY <1>1, <1>2

\* A form that is opened.
LEMMA FormMade ==
  ASSUME NEW kind \in {"conn", "tunnel", "deleteConn", "deleteTunnel"}, NEW id, NEW draft,
         kind = "conn" => draft \in ConnDraft /\ id \in Conn \cup {New},
         kind = "tunnel" => draft \in TunnelRecord /\ id \in Tunnel \cup {New},
         kind = "deleteConn" => id \in Conn,
         kind = "deleteTunnel" => id \in Tunnel
  PROVE  FormOK(Form(kind, id, draft))
<1> DEFINE f == Form(kind, id, draft)
<1>1. /\ DOMAIN f = {"kind", "id", "draft", "edits"}
      /\ f.kind = kind /\ f.id = id /\ f.draft = draft
  BY DEF Form
<1> HIDE DEF f
<1>2. FormOK(f)
  BY <1>1 DEF FormOK
<1>3. QED BY <1>2 DEF f

\* A form whose draft is replaced.
LEMMA DraftKeeps ==
  ASSUME NEW f, FormOK(f), f # NoForm, NEW draft, NEW g,
         DOMAIN g = DOMAIN f, g.kind = f.kind, g.id = f.id, g.draft = draft,
         f.kind = "conn" => draft \in ConnDraft,
         f.kind = "tunnel" => draft \in TunnelRecord
  PROVE  FormOK(g)
BY DEF FormOK

LEMMA EditKeeps ==
  ASSUME FormOK(form), form # NoForm, NEW draft, Edit(draft),
         form.kind = "conn" => draft \in ConnDraft,
         form.kind = "tunnel" => draft \in TunnelRecord
  PROVE  FormOK(form')
<1> DEFINE g == [form EXCEPT !.draft = draft, !.edits = @ + 1]
<1>1. form' = g
  BY DEF Edit
<1>2. DOMAIN form = {"kind", "id", "draft", "edits"}
  BY DEF FormOK
<1>3. DOMAIN g = DOMAIN form /\ g.kind = form.kind /\ g.id = form.id /\ g.draft = draft
  BY <1>2
<1> HIDE DEF g
<1>4. FormOK(g)
  BY <1>3, DraftKeeps
<1>5. QED BY <1>1, <1>4

LEMMA EditConnKeeps ==
  ASSUME FormOK(form), EditConn
  PROVE  FormOK(form')
<1> DEFINE d == form.draft
<1>1. form # NoForm /\ form.kind = "conn" /\ d \in ConnDraft
  BY DEF EditConn, FormOK
<1>2. ASSUME NEW a \in AuthType, Edit([d EXCEPT !.auth = a]) PROVE FormOK(form')
  <2>1. [d EXCEPT !.auth = a] \in ConnDraft
    BY <1>1 DEF ConnDraft
  <2>2. QED BY <1>1, <1>2, <2>1, EditKeeps
<1>3. ASSUME NEW f \in Editable(d), NEW v \in Secret \cup {Empty}, Edit([d EXCEPT ![f] = v])
      PROVE  FormOK(form')
  <2>1. f \in RevealField
    BY <1>1 DEF Editable, RevealField, ConnDraft, AuthType
  <2>2. [d EXCEPT ![f] = v] \in ConnDraft
    BY <1>1, <2>1, SomeValues DEF ConnDraft, RevealField
  <2>3. QED BY <1>1, <1>3, <2>2, EditKeeps
<1>4. ASSUME Edit([d EXCEPT !.sound = TRUE]) PROVE FormOK(form')
  <2>1. [d EXCEPT !.sound = TRUE] \in ConnDraft
    BY <1>1 DEF ConnDraft
  <2>2. QED BY <1>1, <1>4, <2>1, EditKeeps
<1>5. QED BY <1>2, <1>3, <1>4 DEF EditConn

\* A hop that is moved within a chain.
LEMMA MovedType ==
  ASSUME NEW S, NEW s \in Seq(S), NEW i \in DOMAIN s, NEW j \in DOMAIN s
  PROVE  InsertAt(RemoveAt(s, i), j, s[i]) \in Seq(S)
<1>1. Len(s) \in Nat /\ DOMAIN s = 1 .. Len(s) /\ i \in Nat /\ j \in Nat /\ s[i] \in S
      /\ 1 <= j /\ j <= Len(s) /\ 1 <= i /\ i <= Len(s)
  OBVIOUS
<1>2. RemoveAt(s, i) \in Seq(S) /\ Len(RemoveAt(s, i)) = Len(s) - 1
  <2>1. SubSeq(s, 1, i - 1) \in Seq(S) /\ Len(SubSeq(s, 1, i - 1)) = i - 1
    BY <1>1
  <2>2. SubSeq(s, i + 1, Len(s)) \in Seq(S) /\ Len(SubSeq(s, i + 1, Len(s))) = Len(s) - i
    BY <1>1
  <2> DEFINE a == SubSeq(s, 1, i - 1)
             b == SubSeq(s, i + 1, Len(s))
  <2>3. RemoveAt(s, i) = a \o b /\ a \in Seq(S) /\ b \in Seq(S)
        /\ Len(a) = i - 1 /\ Len(b) = Len(s) - i
    BY <2>1, <2>2 DEF RemoveAt
  <2> HIDE DEF a, b
  <2>4. a \o b \in Seq(S) /\ Len(a \o b) = Len(a) + Len(b)
    BY <2>3
  <2>5. QED BY <1>1, <2>3, <2>4
<1> DEFINE r == RemoveAt(s, i)
<1>3. r \in Seq(S) /\ Len(r) = Len(s) - 1
  BY <1>2
<1> HIDE DEF r
<1>4. SubSeq(r, 1, j - 1) \in Seq(S)
  BY <1>1, <1>3
<1>5. SubSeq(r, j, Len(r)) \in Seq(S)
  BY <1>1, <1>3
<1>6. InsertAt(r, j, s[i]) \in Seq(S)
  BY <1>1, <1>4, <1>5 DEF InsertAt
<1>7. QED BY <1>6 DEF r

LEMMA EditTunnelKeeps ==
  ASSUME FormOK(form), seen \in Lists, EditTunnel
  PROVE  FormOK(form')
<1> DEFINE d == form.draft
<1>1. form # NoForm /\ form.kind = "tunnel" /\ d \in TunnelRecord
  BY DEF EditTunnel, FormOK
<1>2. d.chain \in Seq(Conn) /\ Ids(seen.conns) \subseteq Conn
  BY <1>1 DEF TunnelRecord, Lists, Ids
<1>3. ASSUME NEW chain \in Seq(Conn), Edit([d EXCEPT !.chain = chain])
      PROVE  FormOK(form')
  <2>1. [d EXCEPT !.chain = chain] \in TunnelRecord
    BY <1>1 DEF TunnelRecord
  <2>2. QED BY <1>1, <1>3, <2>1, EditKeeps
<1>4. CASE EditChain(d)
  <2>1. ASSUME NEW c \in Ids(seen.conns), Edit([d EXCEPT !.chain = Append(d.chain, c)])
        PROVE  FormOK(form')
    <3>1. Append(d.chain, c) \in Seq(Conn)
      BY <1>2
    <3>2. QED BY <1>3, <2>1, <3>1
  <2>2. ASSUME NEW c \in Ids(seen.conns), Edit([d EXCEPT !.chain = Without(d.chain, c)])
        PROVE  FormOK(form')
    <3>1. Without(d.chain, c) \in Seq(Conn)
      BY <1>2, WithoutType
    <3>2. QED BY <1>3, <2>2, <3>1
  <2>3. ASSUME NEW i \in DOMAIN d.chain, NEW j \in DOMAIN d.chain,
               Edit([d EXCEPT !.chain = InsertAt(RemoveAt(d.chain, i), j, d.chain[i])])
        PROVE  FormOK(form')
    <3>1. InsertAt(RemoveAt(d.chain, i), j, d.chain[i]) \in Seq(Conn)
      BY <1>2, MovedType
    <3>2. QED BY <1>3, <2>3, <3>1
  <2>4. DOMAIN d = {"chain", "userpass", "proxy", "restart", "min", "max", "sound"}
    BY <1>1 DEF TunnelRecord
  <2>5. QED BY <1>4, <2>1, <2>2, <2>3, <2>4 DEF EditChain
<1>5. CASE EditMapping(d)
  <2>1. ASSUME Edit([d EXCEPT !.sound = TRUE]) PROVE FormOK(form')
    <3>1. [d EXCEPT !.sound = TRUE] \in TunnelRecord
      BY <1>1 DEF TunnelRecord
    <3>2. QED BY <1>1, <2>1, <3>1, EditKeeps
  <2>2. ASSUME NEW v \in Secret \cup {Empty}, Edit([d EXCEPT !.userpass = TRUE, !.proxy = v])
        PROVE  FormOK(form')
    <3>0. v \in Value
      BY SomeValues
    <3>1. [d EXCEPT !.userpass = TRUE, !.proxy = v] \in TunnelRecord
      BY <1>1, <3>0 DEF TunnelRecord
    <3>2. QED BY <1>1, <2>2, <3>1, EditKeeps
  <2>3. QED BY <1>5, <2>1, <2>2 DEF EditMapping
<1>6. CASE ChangeMode(d)
  <2>1. [d EXCEPT !.userpass = FALSE, !.proxy = Empty, !.sound = FALSE] \in TunnelRecord
    BY <1>1, SomeValues DEF TunnelRecord
  <2>2. QED BY <1>1, <1>6, <2>1, EditKeeps DEF ChangeMode
<1>7. CASE EditPolicy(d)
  <2>1. PICK m \in {0, 3} : Edit([d EXCEPT !.restart = FALSE, !.min = m, !.max = 0])
    BY <1>7 DEF EditPolicy
  <2>0. m \in Nat
    BY <2>1
  <2>2. [d EXCEPT !.restart = FALSE, !.min = m, !.max = 0] \in TunnelRecord
    BY <1>1, <2>0 DEF TunnelRecord
  <2>3. QED BY <1>1, <2>1, <2>2, EditKeeps
<1>8. QED BY <1>4, <1>5, <1>6, <1>7 DEF EditTunnel

LEMMA ConcludedKeeps ==
  ASSUME FormOK(form), NEW d, NEW c, CallOK(c, d)
  PROVE  FormOK(Concluded(c))
<1>1. FormOK(NoForm)
  BY DEF FormOK
<1>2. ASSUME c.op = "reveal", c.phase = "ok", form # NoForm, form.kind = "conn"
      PROVE  FormOK([form EXCEPT !.draft[c.body.field] = c.body.value])
  <2> DEFINE v == [form.draft EXCEPT ![c.body.field] = c.body.value]
             g == [form EXCEPT !.draft[c.body.field] = c.body.value]
  <2>1. c.body.field \in RevealField /\ c.body.value \in Value
    BY <1>2 DEF CallOK
  <2>2. form.draft \in ConnDraft /\ DOMAIN form = {"kind", "id", "draft", "edits"}
    BY <1>2 DEF FormOK
  <2>3. v \in ConnDraft
    BY <2>1, <2>2 DEF ConnDraft, RevealField
  <2>4. DOMAIN g = DOMAIN form /\ g.kind = form.kind /\ g.id = form.id /\ g.draft = v
    BY <2>2
  <2> HIDE DEF g, v
  <2>5. FormOK(g)
    BY <1>2, <2>3, <2>4, DraftKeeps
  <2>6. QED BY <2>5 DEF g
<1>3. Concluded(c) # form => c.phase = "ok" /\ form # NoForm
  BY DEF Concluded
<1>4. CASE c.phase = "ok" /\ form # NoForm /\ Concluded(c) # form
  <2>1. CASE c.op = "reveal"
    BY <1>2, <1>4, <2>1 DEF Concluded
  <2>2. CASE c.op # "reveal"
    <3>1. Concluded(c) \in {form, NoForm}
      BY <1>4, <2>2 DEF Concluded
    <3>2. QED BY <1>1, <3>1
  <2>3. QED BY <2>1, <2>2
<1>5. QED BY <1>3, <1>4

-----------------------------------------------------------------------------
(* Every step is a step of the service and of the sessions, or leaves them     *)
(* alone.                                                                       *)

LEMMA ServeIsRequest ==
  ASSUME TabTyped, NEW i \in DOMAIN calls, Serve(i)
  PROVE  AnyRequest /\ calls[i].op \in Change
<1> DEFINE c == calls[i]
<1>1. c.phase = "admitted" /\ CallOK(c, drawn)
  BY DEF TabTyped, CallsOK, Serve
<1>2. c.op \notin {"login", "logout"} => Sendable(c)
  BY <1>1 DEF CallOK
<1>3. \/ c.op = "create" /\ c.kind = "conn" /\ \E x \in Conn : CreateConn(x, c.body)
      \/ c.op = "create" /\ c.kind = "tunnel" /\ \E x \in Tunnel : CreateTunnel(x, c.body)
      \/ c.op = "update" /\ c.kind = "conn" /\ UpdateConn(c.id, c.body)
      \/ c.op = "update" /\ c.kind = "tunnel" /\ UpdateTunnel(c.id, c.body)
      \/ c.op = "delete" /\ c.kind = "conn" /\ DeleteConn(c.id)
      \/ c.op = "delete" /\ c.kind = "tunnel" /\ DeleteTunnel(c.id)
      \/ c.op = "patch" /\ PatchSettings(c.body)
  BY DEF Serve
<1> HIDE DEF c
<1>4. c.op \in Change
  BY <1>3 DEF Change
<1>5. Sendable(c)
  BY <1>2, <1>4 DEF Change
<1>6. CASE c.op = "create" /\ c.kind = "conn" /\ \E x \in Conn : CreateConn(x, c.body)
  <2>1. c.body \in ConnRecord
    BY <1>5, <1>6 DEF Sendable
  <2>2. QED BY <1>4, <1>6, <2>1 DEF AnyRequest, c
<1>7. CASE c.op = "create" /\ c.kind = "tunnel" /\ \E x \in Tunnel : CreateTunnel(x, c.body)
  <2>1. c.body \in TunnelRecord
    BY <1>5, <1>7 DEF Sendable
  <2>2. QED BY <1>4, <1>7, <2>1 DEF AnyRequest, c
<1>8. CASE c.op = "update" /\ c.kind = "conn" /\ UpdateConn(c.id, c.body)
  <2>1. c.id \in Conn /\ c.body \in ConnBody
    BY <1>5, <1>8 DEF Sendable
  <2>2. QED BY <1>4, <1>8, <2>1 DEF AnyRequest, c
<1>9. CASE c.op = "update" /\ c.kind = "tunnel" /\ UpdateTunnel(c.id, c.body)
  <2>1. /\ c.id \in Tunnel /\ DOMAIN c.body \subseteq DOMAIN NewTunnel
        /\ Merged(NewTunnel, c.body) \in TunnelRecord
    BY <1>5, <1>9 DEF Sendable
  <2> DEFINE names == {"chain", "userpass", "proxy", "restart", "min", "max", "sound"}
             S == DOMAIN c.body
             r == Merged(NewTunnel, c.body)
             body == [k \in S |-> r[k]]
  <2>2. DOMAIN NewTunnel = names
    BY DEF NewTunnel
  <2>3. S \in SUBSET names /\ r \in TunnelRecord
    BY <2>1, <2>2
  <2>4. \A k \in S : r[k] = c.body[k]
    BY <2>2, <2>3 DEF Merged
  <2> HIDE DEF names, r
  <2>5. body \in Some(TunnelRecord, names)
    BY <2>3 DEF Some
  <2>6. body \in TunnelBody
    BY <2>5 DEF TunnelBody, names
  <2>7. DOMAIN body = DOMAIN c.body /\ \A k \in DOMAIN c.body : body[k] = c.body[k]
    BY <2>4
  <2> HIDE DEF body, S
  <2>8. \A old : Merged(old, c.body) = Merged(old, body)
    BY <2>7 DEF Merged
  <2>9. UpdateTunnel(c.id, body)
    BY <1>9, <2>8 DEF UpdateTunnel
  <2>10. QED BY <1>4, <2>1, <2>6, <2>9 DEF AnyRequest, c
<1>10. CASE c.op = "delete" /\ c.kind = "conn" /\ DeleteConn(c.id)
  <2>1. c.id \in Conn
    BY <1>5, <1>10 DEF Sendable
  <2>2. QED BY <1>4, <1>10, <2>1 DEF AnyRequest, c
<1>11. CASE c.op = "delete" /\ c.kind = "tunnel" /\ DeleteTunnel(c.id)
  <2>1. c.id \in Tunnel
    BY <1>5, <1>11 DEF Sendable
  <2>2. QED BY <1>4, <1>11, <2>1 DEF AnyRequest, c
<1>12. CASE c.op = "patch" /\ PatchSettings(c.body)
  <2>1. c.body \in SettingsBody
    BY <1>5, <1>12 DEF Sendable
  <2>2. QED BY <1>4, <1>12, <2>1 DEF AnyRequest, c
<1>13. QED BY <1>3, <1>6, <1>7, <1>8, <1>9, <1>10, <1>11, <1>12

LEMMA RequestIsService == AnyRequest => ServiceNext
BY DEF AnyRequest, ServiceNext

LEMMA BoundTyped ==
  ASSUME TabTyped
  PROVE  bound.fails \in BOOLEAN /\ bound.login \in BOOLEAN /\ bound.restarts \in Nat
         /\ bound.pages \subseteq Page
BY AdminConstants DEF TabTyped, Page

\* The steps that touch the service or the sessions, and all the others.
LEMMA StepSimulates ==
  ASSUME AdminInv, [Next]_vars
  PROVE  [ServiceNext]_serviceVars /\ [SessionsNext]_sessionVars
<1>1. TabTyped /\ SessionsTypeOK
  BY DEF AdminInv, SessionsSound
<1>2. bound.fails \in BOOLEAN
  BY <1>1, BoundTyped
<1>3. ASSUME NEW i \in DOMAIN calls, Auth(i)
      PROVE  [ServiceNext]_serviceVars /\ [SessionsNext]_sessionVars
  <2>1. UNCHANGED serviceVars
    BY <1>3 DEF Auth
  <2>2. CASE cookie = NoToken
    BY <1>3, <2>1, <2>2 DEF Auth
  <2>3. CASE cookie # NoToken
    <3>1. LooksUp(cookie, bound.fails)
      BY <1>3, <2>3 DEF Auth
    <3>2. cookie \in Token
      BY <1>1, <2>3 DEF TabTyped, SessionsTypeOK
    <3>3. QED BY <1>2, <2>1, <3>1, <3>2 DEF SessionsNext
  <2>4. QED BY <2>2, <2>3
<1>4. ASSUME NEW i \in DOMAIN calls, Serve(i)
      PROVE  [ServiceNext]_serviceVars /\ [SessionsNext]_sessionVars
  <2>1. ServiceNext
    BY <1>1, <1>4, ServeIsRequest, RequestIsService
  <2>2. UNCHANGED sessionVars
    BY <1>4 DEF Serve
  <2>3. QED BY <2>1, <2>2
<1>5. ASSUME NEW i \in DOMAIN calls, HandleLogin(i)
      PROVE  [ServiceNext]_serviceVars /\ [SessionsNext]_sessionVars
  <2>1. UNCHANGED serviceVars /\ \E k \in Token : CreateSession(k, bound.fails)
    BY <1>5 DEF HandleLogin
  <2>2. QED BY <1>2, <2>1 DEF SessionsNext
<1>6. ASSUME NEW i \in DOMAIN calls, HandleLogout(i)
      PROVE  [ServiceNext]_serviceVars /\ [SessionsNext]_sessionVars
  <2>1. UNCHANGED serviceVars
    BY <1>6 DEF HandleLogout
  <2>2. calls[i].op = "logout" /\ calls[i].phase = "sent"
    BY <1>6 DEF HandleLogout
  <2>3. calls[i].id \in drawn \cup {NoToken}
    BY <1>1, <2>2 DEF TabTyped, CallsOK, CallOK
  <2>4. CASE calls[i].id = NoToken
    BY <1>6, <2>1, <2>4 DEF HandleLogout
  <2>5. CASE calls[i].id # NoToken
    <3>1. EndSession(calls[i].id, bound.fails)
      BY <1>6, <2>5 DEF HandleLogout
    <3>2. calls[i].id \in drawn /\ calls[i].id \in Token
      BY <1>1, <2>3, <2>5 DEF SessionsTypeOK
    <3>3. QED BY <1>2, <2>1, <3>1, <3>2 DEF SessionsNext
  <2>6. QED BY <2>4, <2>5
<1>7. CASE Saves
  BY <1>7 DEF Saves, ServiceNext
<1>8. CASE Answers
  BY <1>8 DEF Answers, ServiceNext
<1>9. CASE Dies
  BY <1>9 DEF Dies, ServiceNext, SessionsNext
<1>10. CASE SessionClock
  BY <1>2, <1>10 DEF SessionClock, SessionsNext
<1>11. CASE Tab \/ OtherClient \/ \E i \in DOMAIN calls : Reveals(i)
  <2>1. UNCHANGED <<serviceVars, sessionVars>>
    <3>1. CASE \E i \in DOMAIN calls : Reveals(i)
      BY <3>1 DEF Reveals
    <3>2. CASE OtherClient
      BY <3>2 DEF OtherClient
    <3>3. CASE \E i \in DOMAIN calls : Noticed(i) \/ Denied(i) \/ LoggedIn(i) \/ LoggedOut(i)
      BY <3>3 DEF Noticed, Denied, LoggedIn, LoggedOut, serverVars
    <3>4. CASE Tab
      BY <3>3, <3>4 DEF Tab, ReadList, ReadDenied, OpenApp, Navigate, ClickLogin,
         ClickLogout, OpenForm, OpenDelete, CloseForm, EditConn, ClickReveal, EditTunnel,
         Submit, ConfirmDelete, ClickSetting, serverVars
    <3>5. QED BY <1>11, <3>1, <3>2, <3>4
  <2>2. QED BY <2>1
<1>12. CASE UNCHANGED vars
  BY <1>12 DEF vars
<1>13. QED BY <1>3, <1>4, <1>5, <1>6, <1>7, <1>8, <1>9, <1>10, <1>11, <1>12
       DEF Next, Server

-----------------------------------------------------------------------------
(* What the tab holds stays typed. *)

LEMMA ServingKeeps ==
  ASSUME ServingOK, Grows(calls, calls'), serving' = serving, job' = Idle <=> job = Idle
  PROVE  ServingOK'
<1>1. Len(calls) \in Nat /\ Len(calls') \in Nat /\ Len(calls) <= Len(calls')
      /\ serving \in 0 .. Len(calls)
  BY DEF Grows, ServingOK
<1>2. serving # 0 => serving \in 1 .. Len(calls)
  BY <1>1
<1>3. serving # 0 => calls'[serving].op = calls[serving].op
  BY <1>2 DEF Grows
<1>4. serving \in 0 .. Len(calls')
  BY <1>1
<1>5. QED BY <1>3, <1>4 DEF ServingOK

\* What a step of the tab has to show.
LEMMA TabKeeps ==
  ASSUME AdminInv, UNCHANGED serverVars,
         page' \in Page, cookie' \in drawn \cup {NoToken}, seen' \in Lists, FormOK(form'),
         CallsOK(calls', drawn), Grows(calls, calls')
  PROVE  TabTyped'
<1>1. TabTyped
  BY DEF AdminInv
<1>2. bound' = bound /\ restarts' = restarts /\ serving' = serving /\ job' = job
      /\ drawn' = drawn
  BY DEF serverVars, serviceVars, sessionVars
<1>3. ServingOK'
  BY <1>1, <1>2, ServingKeeps DEF TabTyped
<1>4. QED BY <1>1, <1>2, <1>3 DEF TabTyped

LEMMA NoLists ==
  [conns |-> [c \in Conn |-> Absent], tunnels |-> [t \in Tunnel |-> Absent]] \in Lists
BY DEF Lists

\* A call of the tab.
LEMMA TabCall ==
  ASSUME AdminInv, UNCHANGED <<serverVars, tabVars>>,
         NEW op \in Op, NEW kind, NEW id, NEW body, NEW by,
         Send(Request(op, kind, id, body, by)),
         op \notin {"login", "logout"} =>
           Sendable([op |-> op, kind |-> kind, id |-> id, body |-> body]),
         op = "logout" => id \in drawn \cup {NoToken}
  PROVE  TabTyped'
<1> DEFINE r == Request(op, kind, id, body, by)
           q == [op |-> op, kind |-> kind, id |-> id, body |-> body]
<1>1. /\ DOMAIN r = {"op", "kind", "id", "body", "by", "phase"}
      /\ r.op = op /\ r.kind = kind /\ r.id = id /\ r.body = body
      /\ r.phase \in {"sent", "admitted"}
  BY DEF Request
<1>2. q.op = op /\ q.kind = kind /\ q.id = id /\ q.body = body
  OBVIOUS
<1>3. Send(r) /\ (op \notin {"login", "logout"} => Sendable(q))
  OBVIOUS
<1> HIDE DEF r, q
<1>4. Sendable(q) => Sendable(r)
  BY <1>1, <1>2 DEF Sendable
<1>5. TabTyped
  BY DEF AdminInv
<1>6. CallsOK(calls, drawn)
  BY <1>5 DEF TabTyped
<1>7. CallsOK(calls', drawn) /\ Grows(calls, calls')
  BY <1>1, <1>3, <1>4, <1>6, SendKeeps
<1>8. UNCHANGED serverVars /\ page' = page /\ cookie' = cookie /\ seen' = seen /\ form' = form
  BY DEF tabVars
<1>9. QED BY <1>5, <1>7, <1>8, TabKeeps DEF TabTyped

LEMMA TabCalls ==
  ASSUME AdminInv,
         \/ OtherClient \/ ClickLogin \/ ClickLogout \/ ClickReveal \/ Submit
         \/ ConfirmDelete \/ ClickSetting
  PROVE  TabTyped'
<1>1. TabTyped /\ FormOK(form)
  BY DEF AdminInv, TabTyped
<1>2. CASE OtherClient
  <2>1. PICK r \in bound.script : Send(Request(r.op, r.kind, r.id, r.body, "script"))
    BY <1>2 DEF OtherClient
  <2>2. UNCHANGED <<serverVars, tabVars>>
    BY <1>2 DEF OtherClient, serverVars
  <2>3. Sendable(r)
    BY <1>1, <2>1, AdminConstants DEF TabTyped
  <2> DEFINE op == r.op
             kind == r.kind
             id == r.id
             body == r.body
             q == [op |-> op, kind |-> kind, id |-> id, body |-> body]
  <2>4. q.op = r.op /\ q.kind = r.kind /\ q.id = r.id /\ q.body = r.body
    OBVIOUS
  <2>5. op \in Op /\ op # "logout"
    BY <2>3 DEF Sendable, Op
  <2> HIDE DEF q
  <2>6. Sendable(q)
    BY <2>3, <2>4 DEF Sendable
  <2>7. Sendable([op |-> op, kind |-> kind, id |-> id, body |-> body])
    BY <2>6 DEF q
  <2>8. Send(Request(op, kind, id, body, "script"))
    BY <2>1
  <2> HIDE DEF op, kind, id, body
  <2>9. QED BY <2>2, <2>5, <2>7, <2>8, TabCall
<1>3. CASE ClickLogin
  BY <1>3, TabCall DEF ClickLogin, Op
<1>4. CASE ClickLogout
  <2>1. cookie \in drawn \cup {NoToken}
    BY <1>1 DEF TabTyped
  <2>2. QED BY <1>4, <2>1, TabCall DEF ClickLogout, Op
<1>5. CASE ClickReveal
  <2>1. PICK f \in Editable(form.draft) : Send(Request("reveal", "conn", form.id, f, "tab"))
    BY <1>5 DEF ClickReveal
  <2>2. form # NoForm /\ form.kind = "conn" /\ form.id # New
        /\ UNCHANGED <<serverVars, tabVars>>
    BY <1>5 DEF ClickReveal
  <2>3. form.draft \in ConnDraft /\ form.id \in Conn
    BY <1>1, <2>2 DEF FormOK
  <2>4. f \in RevealField
    BY <2>1, <2>3 DEF Editable, RevealField, ConnDraft, AuthType
  <2>5. Sendable([op |-> "reveal", kind |-> "conn", id |-> form.id, body |-> f])
    BY <2>3, <2>4 DEF Sendable
  <2>6. QED BY <2>1, <2>2, <2>5, TabCall DEF Op
<1>6. CASE Submit
  <2> DEFINE op == IF form.id = New THEN "create" ELSE "update"
             body == IF form.kind = "conn" THEN BuildFormData(form.draft) ELSE form.draft
             kind == form.kind
             id == form.id
             q == [op |-> op, kind |-> kind, id |-> id, body |-> body]
  <2>1. /\ form # NoForm /\ kind \in {"conn", "tunnel"}
        /\ Send(Request(op, kind, id, body, "tab"))
        /\ UNCHANGED <<serverVars, tabVars>>
    BY <1>6 DEF Submit
  <2>2. op \in Op /\ op \notin {"login", "logout"}
    BY DEF Op
  <2>3. q.op = op /\ q.kind = kind /\ q.id = id /\ q.body = body
    OBVIOUS
  <2>4. CASE kind = "conn"
    <3>1. form.draft \in ConnDraft /\ id \in Conn \cup {New}
      BY <1>1, <2>1, <2>4 DEF FormOK
    <3>2. body = BuildFormData(form.draft)
      BY <2>4
    <3>3. body \in ConnRecord /\ body \in ConnBody
      BY <3>1, <3>2, DraftsFit, RecordsAreBodies
    <3>4. op = "create" \/ (op = "update" /\ id \in Conn)
      BY <3>1
    <3> HIDE DEF q, op, body, kind, id
    <3>5. Sendable(q)
      BY <2>3, <2>4, <3>3, <3>4 DEF Sendable
    <3>6. Sendable([op |-> op, kind |-> kind, id |-> id, body |-> body])
      BY <3>5 DEF q
    <3>7. QED BY <2>1, <2>2, <3>6, TabCall
  <2>5. CASE kind = "tunnel"
    <3>1. form.draft \in TunnelRecord /\ id \in Tunnel \cup {New}
      BY <1>1, <2>1, <2>5 DEF FormOK
    <3>2. body = form.draft
      BY <2>5
    <3>3. body \in TunnelRecord /\ DOMAIN body \subseteq DOMAIN NewTunnel
          /\ Merged(NewTunnel, body) \in TunnelRecord
      BY <3>1, <3>2, RecordsAreBodies
    <3>4. op = "create" \/ (op = "update" /\ id \in Tunnel)
      BY <3>1
    <3> HIDE DEF q, op, body, kind, id
    <3>5. Sendable(q)
      BY <2>3, <2>5, <3>3, <3>4 DEF Sendable
    <3>6. Sendable([op |-> op, kind |-> kind, id |-> id, body |-> body])
      BY <3>5 DEF q
    <3>7. QED BY <2>1, <2>2, <3>6, TabCall
  <2>6. QED BY <2>1, <2>4, <2>5
<1>7. CASE ConfirmDelete
  <2> DEFINE kind == IF form.kind = "deleteConn" THEN "conn" ELSE "tunnel"
             id == form.id
  <2>1. /\ form # NoForm /\ form.kind \in {"deleteConn", "deleteTunnel"}
        /\ Send(Request("delete", kind, id, <<>>, "tab"))
        /\ UNCHANGED <<serverVars, tabVars>>
    BY <1>7 DEF ConfirmDelete
  <2>2. (kind = "conn" /\ id \in Conn) \/ (kind = "tunnel" /\ id \in Tunnel)
    BY <1>1, <2>1 DEF FormOK
  <2> HIDE DEF kind, id
  <2>3. Sendable([op |-> "delete", kind |-> kind, id |-> id, body |-> <<>>])
    BY <2>2 DEF Sendable
  <2>4. QED BY <2>1, <2>3, TabCall DEF Op
<1>8. CASE ClickSetting
  <2>1. PICK body \in LevelChoices \cup ThemeChoices :
          Send(Request("patch", "settings", New, body, "tab"))
    BY <1>8 DEF ClickSetting
  <2>2. UNCHANGED <<serverVars, tabVars>>
    BY <1>8 DEF ClickSetting
  <2>3. body \in SettingsBody
    <3> DEFINE T == [level : {"info", "debug", "bad"}, theme : {"light", "dark", "bad"}]
               names == {"level", "theme"}
    <3>1. CASE body \in LevelChoices
      <4>1. PICK v \in {"info", "debug"} : body = [level |-> v]
        BY <3>1 DEF LevelChoices
      <4>2. [level |-> v, theme |-> "dark"] \in T /\ {"level"} \in SUBSET names
        OBVIOUS
      <4>3. body = [k \in {"level"} |-> [level |-> v, theme |-> "dark"][k]]
        BY <4>1
      <4> HIDE DEF T, names
      <4>4. body \in Some(T, names)
        BY <4>2, <4>3 DEF Some
      <4>5. QED BY <4>4 DEF SettingsBody, T, names
    <3>2. CASE body \in ThemeChoices
      <4>1. PICK v \in {"light", "dark"} : body = [theme |-> v]
        BY <3>2 DEF ThemeChoices
      <4>2. [level |-> "info", theme |-> v] \in T /\ {"theme"} \in SUBSET names
        OBVIOUS
      <4>3. body = [k \in {"theme"} |-> [level |-> "info", theme |-> v][k]]
        BY <4>1
      <4> HIDE DEF T, names
      <4>4. body \in Some(T, names)
        BY <4>2, <4>3 DEF Some
      <4>5. QED BY <4>4 DEF SettingsBody, T, names
    <3>3. QED BY <2>1, <3>1, <3>2
  <2>4. Sendable([op |-> "patch", kind |-> "settings", id |-> New, body |-> body])
    BY <2>3 DEF Sendable
  <2>5. QED BY <2>1, <2>2, <2>4, TabCall DEF Op
<1>9. QED BY <1>2, <1>3, <1>4, <1>5, <1>6, <1>7, <1>8

LEMMA TabReads ==
  ASSUME AdminInv, ReadList \/ OpenApp \/ Navigate \/ ReadDenied
  PROVE  TabTyped'
<1>1. /\ page \in Page /\ cookie \in drawn \cup {NoToken} /\ seen \in Lists /\ FormOK(form)
      /\ CallsOK(calls, drawn) /\ bound.pages \subseteq Page
  BY BoundTyped DEF AdminInv, TabTyped
<1>2. CallsOK(calls, drawn) /\ Grows(calls, calls)
  BY <1>1, CallsStay
<1>3. CallsOK(Forgotten, drawn) /\ Grows(calls, Forgotten)
  BY <1>1, ForgottenKeeps
<1>4. CASE ReadList
  <2>1. mem \in Config
    BY DEF AdminInv, Promises, ServiceTypeOK
  <2>2. [c \in Conn |-> RedactConn(mem.conns[c])] \in [Conn -> ConnRecord \cup {Absent}]
    <3>1. \A c \in Conn : mem.conns[c] \in ConnRecord \cup {Absent}
      BY <2>1 DEF Config
    <3>2. \A c \in Conn : RedactConn(mem.conns[c]) \in ConnRecord \cup {Absent}
      BY <3>1, RedactedConn
    <3>3. QED BY <3>2
  <2>3. [t \in Tunnel |-> RedactTunnel(mem.tunnels[t])] \in [Tunnel -> Stored \cup {Absent}]
    <3>1. \A t \in Tunnel : mem.tunnels[t] \in Stored \cup {Absent}
      BY <2>1 DEF Config
    <3>2. \A t \in Tunnel : RedactTunnel(mem.tunnels[t]) \in Stored \cup {Absent}
      BY <3>1, RedactedTunnel
    <3>3. QED BY <3>2
  <2>4. seen' \in Lists
    <3>1. CASE seen' = [seen EXCEPT !.conns = [c \in Conn |-> RedactConn(mem.conns[c])]]
      BY <1>1, <2>2, <3>1 DEF Lists
    <3>2. CASE seen' = [seen EXCEPT
                          !.tunnels = [t \in Tunnel |-> RedactTunnel(mem.tunnels[t])]]
      BY <1>1, <2>3, <3>2 DEF Lists
    <3>3. QED BY <1>4, <3>1, <3>2 DEF ReadList
  <2>5. UNCHANGED serverVars /\ page' = page /\ cookie' = cookie /\ form' = form
        /\ calls' = calls
    BY <1>4 DEF ReadList
  <2>6. QED BY <1>1, <1>2, <2>4, <2>5, TabKeeps
<1>5. CASE OpenApp
  <2>1. UNCHANGED serverVars /\ page' \in Page /\ cookie' = cookie /\ seen' = seen
        /\ form' = form /\ calls' = calls
    BY <1>1, <1>5 DEF OpenApp
  <2>2. QED BY <1>1, <1>2, <2>1, TabKeeps
<1>6. CASE Navigate
  <2>1. UNCHANGED serverVars /\ page' \in Page /\ cookie' = cookie /\ seen' = seen
        /\ form' = form /\ calls' = Forgotten
    BY <1>1, <1>6 DEF Navigate
  <2>2. QED BY <1>1, <1>3, <2>1, TabKeeps
<1>7. CASE ReadDenied
  <2>1. UNCHANGED serverVars /\ page' \in Page /\ cookie' = cookie /\ form' = NoForm
        /\ calls' = Forgotten /\ seen' \in Lists
    BY <1>7, NoLists DEF ReadDenied, Page
  <2>2. FormOK(form')
    BY <2>1 DEF FormOK
  <2>3. QED BY <1>1, <1>3, <2>1, <2>2, TabKeeps
<1>8. QED BY <1>4, <1>5, <1>6, <1>7

LEMMA TabForms ==
  ASSUME AdminInv, OpenForm \/ OpenDelete \/ CloseForm \/ EditConn \/ EditTunnel
  PROVE  TabTyped'
<1>1. /\ page \in Page /\ cookie \in drawn \cup {NoToken} /\ seen \in Lists /\ FormOK(form)
      /\ CallsOK(calls, drawn)
  BY DEF AdminInv, TabTyped
<1>2. CallsOK(calls, drawn) /\ Grows(calls, calls)
  BY <1>1, CallsStay
<1>3. CallsOK(Abandoned, drawn) /\ Grows(calls, Abandoned)
  BY <1>1, AbandonedKeeps
<1>4. CASE OpenForm
  <2>1. UNCHANGED serverVars /\ page' = page /\ cookie' = cookie /\ seen' = seen
        /\ calls' = calls
    BY <1>4 DEF OpenForm
  <2>2. CASE form' = Form("conn", New, NewConn)
    <3>1. FormOK(Form("conn", New, NewConn))
      BY DraftsFit, FormMade
    <3>2. QED BY <1>1, <1>2, <2>1, <2>2, <3>1, TabKeeps
  <2>3. ASSUME NEW c \in Ids(seen.conns), form' = Form("conn", c, ConnFormState(seen.conns[c]))
        PROVE  TabTyped'
    <3>1. c \in Conn /\ seen.conns[c] \in ConnRecord
      BY <1>1 DEF Lists, Ids
    <3>2. ConnFormState(seen.conns[c]) \in ConnDraft
      BY <3>1, DraftsFit
    <3>3. FormOK(Form("conn", c, ConnFormState(seen.conns[c])))
      BY <3>1, <3>2, FormMade
    <3>4. QED BY <1>1, <1>2, <2>1, <2>3, <3>3, TabKeeps
  <2>4. CASE form' = Form("tunnel", New, NewTunnel)
    <3>1. FormOK(Form("tunnel", New, NewTunnel))
      BY DraftsFit, FormMade
    <3>2. QED BY <1>1, <1>2, <2>1, <2>4, <3>1, TabKeeps
  <2>5. ASSUME NEW t \in Ids(seen.tunnels), form' = Form("tunnel", t, seen.tunnels[t])
        PROVE  TabTyped'
    <3>1. t \in Tunnel /\ seen.tunnels[t] \in TunnelRecord
      BY <1>1 DEF Lists, Ids, Stored
    <3>2. FormOK(Form("tunnel", t, seen.tunnels[t]))
      BY <3>1, FormMade
    <3>3. QED BY <1>1, <1>2, <2>1, <2>5, <3>2, TabKeeps
  <2>6. QED BY <1>4, <2>2, <2>3, <2>4, <2>5 DEF OpenForm
<1>5. CASE OpenDelete
  <2>1. UNCHANGED serverVars /\ page' = page /\ cookie' = cookie /\ seen' = seen
        /\ calls' = calls
    BY <1>5 DEF OpenDelete
  <2>2. ASSUME NEW c \in Ids(seen.conns), form' = Form("deleteConn", c, <<>>)
        PROVE  TabTyped'
    <3>1. c \in Conn
      BY <1>1 DEF Lists, Ids
    <3>2. FormOK(Form("deleteConn", c, <<>>))
      BY <3>1, FormMade
    <3>3. QED BY <1>1, <1>2, <2>1, <2>2, <3>2, TabKeeps
  <2>3. ASSUME NEW t \in Ids(seen.tunnels), form' = Form("deleteTunnel", t, <<>>)
        PROVE  TabTyped'
    <3>1. t \in Tunnel
      BY <1>1 DEF Lists, Ids
    <3>2. FormOK(Form("deleteTunnel", t, <<>>))
      BY <3>1, FormMade
    <3>3. QED BY <1>1, <1>2, <2>1, <2>3, <3>2, TabKeeps
  <2>4. QED BY <1>5, <2>2, <2>3 DEF OpenDelete
<1>6. CASE CloseForm
  <2>1. UNCHANGED serverVars /\ page' = page /\ cookie' = cookie /\ seen' = seen
        /\ form' = NoForm /\ calls' = Abandoned
    BY <1>6 DEF CloseForm
  <2>2. FormOK(form')
    BY <2>1 DEF FormOK
  <2>3. QED BY <1>1, <1>3, <2>1, <2>2, TabKeeps
<1>7. CASE EditConn \/ EditTunnel
  <2>1. UNCHANGED serverVars /\ page' = page /\ cookie' = cookie /\ seen' = seen
        /\ calls' = calls
    BY <1>7 DEF EditConn, EditTunnel
  <2>2. FormOK(form')
    BY <1>1, <1>7, EditConnKeeps, EditTunnelKeeps
  <2>3. QED BY <1>1, <1>2, <2>1, <2>2, TabKeeps
<1>8. QED BY <1>4, <1>5, <1>6, <1>7

LEMMA TabAnswers ==
  ASSUME AdminInv, NEW i \in DOMAIN calls,
         Noticed(i) \/ Denied(i) \/ LoggedIn(i) \/ LoggedOut(i)
  PROVE  TabTyped'
<1>1. /\ page \in Page /\ cookie \in drawn \cup {NoToken} /\ seen \in Lists /\ FormOK(form)
      /\ CallsOK(calls, drawn) /\ bound.pages \subseteq Page
  BY BoundTyped DEF AdminInv, TabTyped
<1>2. CallOK(calls[i], drawn)
  BY <1>1 DEF CallsOK
<1>3. CallsOK(Over(calls, i), drawn) /\ Grows(calls, Over(calls, i))
  BY <1>1, OverKeeps
<1>4. CallsOK(Over(Forgotten, i), drawn) /\ Grows(calls, Over(Forgotten, i))
  <2>1. CallsOK(Forgotten, drawn) /\ Grows(calls, Forgotten) /\ i \in DOMAIN Forgotten
    BY <1>1, ForgottenKeeps
  <2>2. CallsOK(Over(Forgotten, i), drawn) /\ Grows(Forgotten, Over(Forgotten, i))
    BY <2>1, OverKeeps
  <2>3. QED BY <2>1, <2>2, GrowsOn
<1>5. CallsOK(Over(Abandoned, i), drawn) /\ Grows(calls, Over(Abandoned, i))
  <2>1. CallsOK(Abandoned, drawn) /\ Grows(calls, Abandoned) /\ i \in DOMAIN Abandoned
    BY <1>1, AbandonedKeeps
  <2>2. CallsOK(Over(Abandoned, i), drawn) /\ Grows(Abandoned, Over(Abandoned, i))
    BY <2>1, OverKeeps
  <2>3. QED BY <2>1, <2>2, GrowsOn
<1>6. FormOK(NoForm)
  BY DEF FormOK
<1>7. CASE Noticed(i)
  <2>1. UNCHANGED serverVars /\ page' = page /\ cookie' = cookie /\ seen' = seen
        /\ form' = Concluded(calls[i])
        /\ calls' = Over(IF form' = NoForm THEN Abandoned ELSE calls, i)
    BY <1>7 DEF Noticed
  <2>2. FormOK(form')
    BY <1>1, <1>2, <2>1, ConcludedKeeps
  <2>3. CallsOK(calls', drawn) /\ Grows(calls, calls')
    BY <1>3, <1>5, <2>1
  <2>4. QED BY <1>1, <2>1, <2>2, <2>3, TabKeeps
<1>8. CASE Denied(i)
  <2>1. UNCHANGED serverVars /\ page' \in Page /\ cookie' = cookie /\ form' = NoForm
        /\ calls' = Over(Forgotten, i) /\ seen' \in Lists
    BY <1>8, NoLists DEF Denied, Page
  <2>2. QED BY <1>1, <1>4, <1>6, <2>1, TabKeeps
<1>9. CASE LoggedIn(i)
  <2>1. UNCHANGED serverVars /\ seen' = seen /\ form' = form /\ calls' = Over(calls, i)
    BY <1>9 DEF LoggedIn
  <2>2. cookie' \in drawn \cup {NoToken} /\ page' \in Page
    <3>1. CASE calls[i].phase = "ok"
      <4>1. calls[i].id \in drawn
        BY <1>2, <1>9, <3>1 DEF CallOK, LoggedIn
      <4>2. QED BY <1>1, <1>9, <3>1, <4>1 DEF LoggedIn
    <3>2. CASE calls[i].phase # "ok"
      BY <1>1, <1>9, <3>2 DEF LoggedIn
    <3>3. QED BY <3>1, <3>2
  <2>3. QED BY <1>1, <1>3, <2>1, <2>2, TabKeeps
<1>10. CASE LoggedOut(i)
  <2>1. UNCHANGED serverVars
    BY <1>10 DEF LoggedOut
  <2>2. CASE calls[i].phase = "ok"
    <3>1. cookie' = NoToken /\ page' \in Page /\ form' = NoForm /\ calls' = Over(Forgotten, i)
          /\ seen' \in Lists
      BY <1>10, <2>2, NoLists DEF LoggedOut, Page
    <3>2. QED BY <1>4, <1>6, <2>1, <3>1, TabKeeps
  <2>3. CASE calls[i].phase # "ok"
    <3>1. calls' = Over(calls, i) /\ page' = page /\ cookie' = cookie /\ seen' = seen
          /\ form' = form
      BY <1>10, <2>3 DEF LoggedOut, tabVars
    <3>2. QED BY <1>1, <1>3, <2>1, <3>1, TabKeeps
  <2>4. QED BY <2>2, <2>3
<1>11. QED BY <1>7, <1>8, <1>9, <1>10

LEMMA TabStep ==
  ASSUME AdminInv, Tab \/ OtherClient
  PROVE  TabTyped'
BY TabCalls, TabReads, TabForms, TabAnswers DEF Tab

LEMMA DrawnGrows ==
  ASSUME [SessionsNext]_sessionVars
  PROVE  drawn \subseteq drawn'
BY DEF SessionsNext, sessionVars, CreateSession, EndSession, LooksUp, Cleanup, Tick,
       LoadSessions, Unlist

\* What a step of the server has to show.
LEMMA ServerKeeps ==
  ASSUME AdminInv, drawn \subseteq drawn', bound' = bound, UNCHANGED tabVars,
         restarts' \in 0 .. bound.restarts, NEW d, d \subseteq drawn',
         CallsOK(calls', d), ServingOK'
  PROVE  TabTyped'
<1>1. TabTyped
  BY DEF AdminInv
<1>2. page' = page /\ cookie' = cookie /\ seen' = seen /\ form' = form
  BY DEF tabVars
<1>3. CallsOK(calls', drawn')
  BY CallsStay
<1>4. QED BY <1>1, <1>2, <1>3 DEF TabTyped

LEMMA SessionCalls ==
  ASSUME AdminInv, drawn \subseteq drawn', NEW i \in DOMAIN calls,
         Auth(i) \/ HandleLogin(i) \/ HandleLogout(i)
  PROVE  TabTyped'
<1>1. /\ CallsOK(calls, drawn) /\ ServingOK /\ restarts \in 0 .. bound.restarts
      /\ CallOK(calls[i], drawn)
  BY DEF AdminInv, TabTyped, CallsOK
<1>2. bound' = bound /\ restarts' = restarts /\ UNCHANGED tabVars /\ serving' = serving
      /\ job' = job
  BY DEF Auth, HandleLogin, HandleLogout, serviceVars
<1>3. ASSUME NEW d, d \subseteq drawn', CallsOK(calls', d), Grows(calls, calls')
      PROVE  TabTyped'
  <2>1. ServingOK'
    BY <1>1, <1>2, <1>3, ServingKeeps
  <2>2. QED BY <1>1, <1>2, <1>3, <2>1, ServerKeeps
<1>4. CASE Auth(i)
  <2>1. calls[i].op \notin {"login", "logout"} /\ calls[i].phase = "sent"
        /\ Tell(i, IF Admits THEN "admitted" ELSE "denied")
    BY <1>4 DEF Auth
  <2>2. CASE Admits
    <3>1. Tell(i, "admitted")
      BY <2>1, <2>2
    <3>2. CallsOK(calls', drawn) /\ Grows(calls, calls')
      BY <1>1, <2>1, <3>1, TellKeeps DEF Phase
    <3>3. QED BY <1>3, <3>2
  <2>3. CASE ~Admits
    <3>1. Tell(i, "denied")
      BY <2>1, <2>3
    <3>2. CallsOK(calls', drawn) /\ Grows(calls, calls')
      BY <1>1, <2>1, <3>1, TellKeeps DEF Phase
    <3>3. QED BY <1>3, <3>2
  <2>4. QED BY <2>2, <2>3
<1>5. CASE HandleLogin(i)
  <2>1. PICK k \in Token \ drawn :
          /\ CreateSession(k, bound.fails)
          /\ calls' = [calls EXCEPT ![i].phase = "ok", ![i].id = k]
    BY <1>5 DEF HandleLogin
  <2>2. calls[i].op = "login" /\ drawn' = drawn \cup {k}
    BY <1>5, <2>1 DEF HandleLogin, CreateSession
  <2> DEFINE c == [calls[i] EXCEPT !.phase = "ok", !.id = k]
             new == [calls EXCEPT ![i] = c]
  <2>3. calls' = new
    BY <2>1
  <2>4. DOMAIN calls[i] = {"op", "kind", "id", "body", "by", "phase"}
    BY <1>1 DEF CallOK
  <2>5. DOMAIN c = {"op", "kind", "id", "body", "by", "phase"}
        /\ c.op = "login" /\ c.phase = "ok" /\ c.id = k
    BY <2>2, <2>4
  <2>6. new = [j \in DOMAIN calls |-> new[j]]
        /\ \A j \in DOMAIN calls : new[j] = IF j = i THEN c ELSE calls[j]
    OBVIOUS
  <2> HIDE DEF c, new
  <2>7. CallOK(c, drawn')
    BY <2>2, <2>5 DEF CallOK, Op, Phase
  <2>8. CallsOK(calls, drawn')
    BY <1>1, CallsStay
  <2>9. \A j \in DOMAIN calls : CallOK(new[j], drawn') /\ new[j].op = calls[j].op
    BY <2>2, <2>5, <2>6, <2>7, <2>8 DEF CallsOK
  <2>10. CallsOK(new, drawn') /\ Grows(calls, new)
    BY <1>1, <2>6, <2>9, CallsChange
  <2>11. QED BY <1>3, <2>3, <2>10
<1>6. CASE HandleLogout(i)
  <2>1. calls[i].op = "logout" /\ Tell(i, "ok")
    BY <1>6 DEF HandleLogout
  <2>2. CallsOK(calls', drawn) /\ Grows(calls, calls')
    BY <1>1, <2>1, TellKeeps DEF Phase
  <2>3. QED BY <1>3, <2>2
<1>7. QED BY <1>4, <1>5, <1>6

LEMMA ServiceCalls ==
  ASSUME AdminInv, drawn \subseteq drawn', NEW i \in DOMAIN calls, Serve(i) \/ Reveals(i)
  PROVE  TabTyped'
<1>1. /\ CallsOK(calls, drawn) /\ ServingOK /\ restarts \in 0 .. bound.restarts
      /\ CallOK(calls[i], drawn) /\ TabTyped /\ mem \in Config
  BY DEF AdminInv, TabTyped, CallsOK, Promises, ServiceTypeOK
<1>2. bound' = bound /\ restarts' = restarts /\ UNCHANGED tabVars /\ drawn' = drawn
  BY DEF Serve, Reveals, sessionVars
<1>3. CASE Serve(i)
  <2>1. AnyRequest /\ calls[i].op \in Change
    BY <1>1, <1>3, ServeIsRequest
  <2>2. job' \in {"writing", "ok", "refused"}
    BY <1>1, <2>1, RequestEnds DEF Accepted, Refused, Discarded, Discard, HalfPatched
  <2>3. job' # Idle
    BY <2>2, ConfigConstants
  <2>4. serving' = i /\ Tell(i, "served")
    BY <1>3 DEF Serve
  <2>5. CallsOK(calls', drawn) /\ Grows(calls, calls')
    BY <1>1, <2>4, TellKeeps DEF Phase
  <2>6. calls \in Seq(Range(calls))
    BY <1>1 DEF CallsOK
  <2>7. Len(calls) \in Nat /\ i \in 1 .. Len(calls)
    BY <2>6
  <2>8. calls'[i].op = calls[i].op /\ i \in 1 .. Len(calls')
    BY <2>5, <2>7 DEF Grows
  <2>9. serving' \in 0 .. Len(calls') /\ serving' # 0 /\ calls'[serving'].op \in Change
    BY <2>1, <2>4, <2>7, <2>8
  <2>10. ServingOK'
    BY <2>3, <2>9 DEF ServingOK
  <2>11. QED BY <1>1, <1>2, <2>5, <2>10, ServerKeeps
<1>4. CASE Reveals(i)
  <2>1. serving' = serving /\ job' = job
        /\ calls[i].phase = "admitted" /\ calls[i].op = "reveal"
    BY <1>4 DEF Reveals, serviceVars
  <2>2. CallsOK(calls', drawn) /\ Grows(calls, calls')
    <3>1. CASE mem.conns[calls[i].id] = Absent
      <4>1. Tell(i, "refused")
        BY <1>4, <3>1 DEF Reveals
      <4>2. QED BY <1>1, <4>1, TellKeeps DEF Phase
    <3>2. CASE mem.conns[calls[i].id] # Absent
      <4> DEFINE r == mem.conns[calls[i].id]
                 b == [field |-> calls[i].body, value |-> Field(r, calls[i].body)]
                 c == [calls[i] EXCEPT !.phase = "ok", !.body = b]
                 new == [calls EXCEPT ![i] = c]
      <4>1. calls' = new
        BY <1>4, <3>2 DEF Reveals
      <4>2. Sendable(calls[i])
        BY <1>1, <2>1 DEF CallOK
      <4>3. calls[i].id \in Conn /\ calls[i].body \in RevealField
        BY <2>1, <4>2 DEF Sendable
      <4>4. r \in ConnRecord
        BY <1>1, <3>2, <4>3 DEF Config
      <4>5. Field(r, calls[i].body) \in Value
        BY <4>3, <4>4, SomeValues DEF Field, RevealField, ConnRecord
      <4>6. b.field \in RevealField /\ b.value \in Value
        BY <4>3, <4>5
      <4>7. DOMAIN calls[i] = {"op", "kind", "id", "body", "by", "phase"}
        BY <1>1 DEF CallOK
      <4>8. DOMAIN c = {"op", "kind", "id", "body", "by", "phase"}
            /\ c.op = "reveal" /\ c.phase = "ok" /\ c.body = b
        BY <2>1, <4>7
      <4>9. new = [j \in DOMAIN calls |-> new[j]]
            /\ \A j \in DOMAIN calls : new[j] = IF j = i THEN c ELSE calls[j]
        OBVIOUS
      <4> HIDE DEF b, c, new
      <4>10. CallOK(c, drawn)
        BY <4>6, <4>8 DEF CallOK, Op, Phase
      <4>11. \A j \in DOMAIN calls : CallOK(new[j], drawn) /\ new[j].op = calls[j].op
        BY <1>1, <2>1, <4>8, <4>9, <4>10 DEF CallsOK
      <4>12. CallsOK(new, drawn) /\ Grows(calls, new)
        BY <1>1, <4>9, <4>11, CallsChange
      <4>13. QED BY <4>1, <4>12
    <3>3. QED BY <3>1, <3>2
  <2>3. ServingOK'
    BY <1>1, <2>1, <2>2, ServingKeeps
  <2>4. QED BY <1>1, <1>2, <2>2, <2>3, ServerKeeps
<1>5. QED BY <1>3, <1>4

LEMMA ServerSteps ==
  ASSUME AdminInv, drawn \subseteq drawn', Saves \/ Answers \/ Dies \/ SessionClock
  PROVE  TabTyped'
<1>1. /\ CallsOK(calls, drawn) /\ ServingOK /\ restarts \in 0 .. bound.restarts
      /\ calls \in Seq(Range(calls))
  BY DEF AdminInv, TabTyped, CallsOK
<1>2. bound.restarts \in Nat
  BY BoundTyped DEF AdminInv
<1>3. Len(calls) \in Nat /\ DOMAIN calls = 1 .. Len(calls)
  BY <1>1
<1>4. CallsOK(calls, drawn) /\ Grows(calls, calls)
  BY <1>1, CallsStay
<1>5. CASE Saves
  <2>1. /\ bound' = bound /\ restarts' = restarts /\ UNCHANGED tabVars /\ calls' = calls
        /\ serving' = serving /\ job = "writing" /\ job' \in {"ok", "failed"}
    BY <1>5 DEF Saves, SaveRenames, SaveFails
  <2>2. ServingOK'
    BY <1>1, <1>4, <2>1, ServingKeeps, ConfigConstants
  <2>3. QED BY <1>1, <1>4, <2>1, <2>2, ServerKeeps
<1>6. CASE Answers
  <2>1. /\ bound' = bound /\ restarts' = restarts /\ UNCHANGED tabVars
        /\ serving # 0 /\ serving' = 0 /\ Tell(serving, job)
        /\ job \in {"ok", "refused", "failed"} /\ job' = Idle
    BY <1>6 DEF Answers, Reply
  <2>2. serving \in DOMAIN calls /\ calls[serving].op \in Change
    BY <1>1, <1>3, <2>1 DEF ServingOK
  <2>3. job \in Phase /\ job \notin {"sent", "admitted"}
    BY <2>1 DEF Phase
  <2>4. calls[serving].op \notin {"reveal", "login"}
    BY <2>2 DEF Change
  <2>5. CallsOK(calls', drawn) /\ Grows(calls, calls')
    BY <1>1, <2>1, <2>2, <2>3, <2>4, TellKeeps
  <2>6. Len(calls') \in Nat
    BY <2>5 DEF Grows
  <2>7. ServingOK'
    BY <2>1, <2>6 DEF ServingOK
  <2>8. QED BY <1>1, <2>1, <2>5, <2>7, ServerKeeps
<1>7. CASE Dies
  <2> DEFINE new == [i \in DOMAIN calls |->
                 IF calls[i].phase \in {"sent", "admitted", "served"}
                   THEN WithPhase(calls[i], "failed") ELSE calls[i]]
  <2>1. /\ bound' = bound /\ UNCHANGED tabVars /\ serving' = 0 /\ job' = Idle
        /\ restarts < bound.restarts /\ restarts' = restarts + 1 /\ calls' = new
    BY <1>7 DEF Dies, Restart, WithPhase
  <2>2. restarts' \in 0 .. bound.restarts
    BY <1>1, <1>2, <2>1
  <2>3. new = [j \in DOMAIN calls |-> new[j]]
        /\ \A j \in DOMAIN calls : new[j] \in {calls[j], WithPhase(calls[j], "failed")}
    OBVIOUS
  <2> HIDE DEF new
  <2>4. ASSUME NEW j \in DOMAIN calls
        PROVE  CallOK(new[j], drawn) /\ new[j].op = calls[j].op
    <3>1. CallOK(calls[j], drawn)
      BY <1>1 DEF CallsOK
    <3>2. CallOK(WithPhase(calls[j], "failed"), drawn)
          /\ WithPhase(calls[j], "failed").op = calls[j].op
      BY <3>1, PhaseKeeps DEF Phase
    <3>3. QED BY <2>3, <3>1, <3>2
  <2>5. CallsOK(new, drawn) /\ Grows(calls, new)
    BY <1>1, <2>3, <2>4, CallsChange
  <2>6. ServingOK'
    BY <2>1, <2>5 DEF ServingOK, Grows
  <2>7. QED BY <2>1, <2>2, <2>5, <2>6, ServerKeeps
<1>8. CASE SessionClock
  <2>1. /\ bound' = bound /\ restarts' = restarts /\ UNCHANGED tabVars /\ calls' = calls
        /\ serving' = serving /\ job' = job
    BY <1>8 DEF SessionClock, serviceVars
  <2>2. ServingOK'
    BY <1>1, <1>4, <2>1, ServingKeeps
  <2>3. QED BY <1>1, <1>4, <2>1, <2>2, ServerKeeps
<1>9. QED BY <1>5, <1>6, <1>7, <1>8

-----------------------------------------------------------------------------
(* The invariant. *)

LEMMA InitTyped == Init => AdminInv
<1> SUFFICES ASSUME Init PROVE AdminInv
  OBVIOUS
<1>1. bound \in Bounds /\ bound.config \in Config /\ NoDangling(bound.config)
      /\ bound.restarts \in Nat /\ bound.pages \in (SUBSET {"ssh", "tunnels", "settings"}) \ {{}}
  BY AdminConstants DEF Init
<1>2. Promises
  <2>1. ServiceInit
    BY <1>1 DEF Init, ServiceInit
  <2>2. QED BY <2>1, InitPromises
<1>3. SessionsSound
  BY InitSound DEF Init
<1>4. page \in Page
  <2>1. (CHOOSE p \in bound.pages : TRUE) \in bound.pages
    <3> DEFINE S == bound.pages
    <3>1. S # {}
      BY <1>1
    <3> HIDE DEF S
    <3>2. \E p \in S : TRUE
      BY <3>1
    <3>3. (CHOOSE p \in S : TRUE) \in S
      BY <3>2, Zenon
    <3>4. QED BY <3>3 DEF S
  <2>2. QED BY <1>1, <2>1 DEF Init, Page
<1>5. CallsOK(calls, drawn) /\ Len(calls) = 0
  BY DEF Init, CallsOK, Range
<1>6. ServingOK
  BY <1>5 DEF Init, StartsWith, ServingOK
<1>7. seen \in Lists /\ FormOK(form) /\ cookie = NoToken /\ restarts = 0
  BY NoLists DEF Init, FormOK
<1>8. TabTyped
  BY <1>1, <1>4, <1>5, <1>6, <1>7 DEF TabTyped
<1>9. QED BY <1>2, <1>3, <1>8 DEF AdminInv

LEMMA NextTyped == AdminInv /\ [Next]_vars => AdminInv'
<1> SUFFICES ASSUME AdminInv, [Next]_vars PROVE AdminInv'
  OBVIOUS
<1>1. [ServiceNext]_serviceVars /\ [SessionsNext]_sessionVars
  BY StepSimulates
<1>2. Promises' /\ SessionsSound'
  BY <1>1, NextPromises, NextSound DEF AdminInv
<1>3. drawn \subseteq drawn'
  BY <1>1, DrawnGrows
<1>4. TabTyped'
  <2>1. CASE Server
    BY <1>3, <2>1, SessionCalls, ServiceCalls, ServerSteps DEF Server
  <2>2. CASE Tab \/ OtherClient
    BY <2>2, TabStep
  <2>3. CASE UNCHANGED vars
    BY <2>3 DEF vars, serviceVars, sessionVars, tabVars, AdminInv, TabTyped, ServingOK
  <2>4. QED BY <2>1, <2>2, <2>3 DEF Next
<1>5. QED BY <1>2, <1>4 DEF AdminInv

-----------------------------------------------------------------------------
(* Masks.  What can reach the memory is what is stored already, what the forms *)
(* hold, what is on its way in a call and what a reveal has answered.          *)

PlainDraft(d) == d.password # Mask /\ d.pem # Mask /\ d.phrase # Mask

PlainForm(f) == f # NoForm /\ f.kind = "conn" => PlainDraft(f.draft)

PlainCall(c) ==
  /\ c.kind = "conn" /\ c.op \in {"create", "update"} /\ c.phase \in {"sent", "admitted"}
       => Plain(c.body)
  /\ c.op = "reveal" /\ c.phase = "ok" => c.body.value # Mask

PlainCalls(cs) == \A i \in DOMAIN cs : PlainCall(cs[i])

PlainConfig(cfg) == \A c \in Ids(cfg.conns) : Plain(cfg.conns[c])

Unmasked ==
  /\ PlainConfig(mem) /\ PlainConfig(file) /\ PlainConfig(undo)
  /\ PlainForm(form) /\ PlainCalls(calls)

LEMMA MaskIsNoSecret == Mask # Empty /\ Mask \notin Secret
BY ConfigConstants

\* Calls.
LEMMA PlainOlder ==
  ASSUME NEW c, PlainCall(c), NEW d, CallOK(c, d)
  PROVE  /\ \A by : PlainCall(WithBy(c, by))
         /\ \A p : /\ p \in {"sent", "admitted"} => c.phase \in {"sent", "admitted"}
                   /\ p = "ok" => c.op # "reveal"
                   => PlainCall(WithPhase(c, p))
         /\ PlainCall(Gone(c))
<1>1. DOMAIN c = {"op", "kind", "id", "body", "by", "phase"}
  BY DEF CallOK
<1>2. ASSUME NEW by PROVE PlainCall(WithBy(c, by))
  <2> DEFINE n == WithBy(c, by)
  <2>1. n.op = c.op /\ n.kind = c.kind /\ n.body = c.body /\ n.phase = c.phase
    BY <1>1 DEF WithBy
  <2> HIDE DEF n
  <2>2. PlainCall(n)
    BY <2>1 DEF PlainCall
  <2>3. QED BY <2>2 DEF n
<1>3. ASSUME NEW p, p \in {"sent", "admitted"} => c.phase \in {"sent", "admitted"},
             p = "ok" => c.op # "reveal"
      PROVE  PlainCall(WithPhase(c, p))
  <2> DEFINE n == WithPhase(c, p)
  <2>1. n.op = c.op /\ n.kind = c.kind /\ n.body = c.body /\ n.phase = p
    BY <1>1 DEF WithPhase
  <2> HIDE DEF n
  <2>2. PlainCall(n)
    BY <1>3, <2>1 DEF PlainCall
  <2>3. QED BY <2>2 DEF n
<1>4. PlainCall(Gone(c))
  <2> DEFINE n == Gone(c)
  <2>1. n.phase = "over"
    BY <1>1 DEF Gone
  <2> HIDE DEF n
  <2>2. PlainCall(n)
    BY <2>1 DEF PlainCall
  <2>3. QED BY <2>2 DEF n
<1>5. QED BY <1>2, <1>3, <1>4

LEMMA OverPlain ==
  ASSUME NEW cs, NEW d, CallsOK(cs, d), PlainCalls(cs), NEW i \in DOMAIN cs
  PROVE  PlainCalls(Over(cs, i))
<1> DEFINE new == [cs EXCEPT ![i] = Gone(cs[i])]
<1>1. Over(cs, i) = new
  BY DEF Over, Gone
<1>2. PlainCall(Gone(cs[i]))
  BY PlainOlder DEF CallsOK, PlainCalls
<1>3. DOMAIN new = DOMAIN cs
      /\ \A j \in DOMAIN cs : new[j] = IF j = i THEN Gone(cs[i]) ELSE cs[j]
  OBVIOUS
<1> HIDE DEF new
<1>4. PlainCalls(new)
  BY <1>2, <1>3 DEF PlainCalls
<1>5. QED BY <1>1, <1>4

LEMMA ForgottenPlain ==
  ASSUME NEW d, CallsOK(calls, d), PlainCalls(calls)
  PROVE  PlainCalls(Forgotten)
<1>1. DOMAIN Forgotten = DOMAIN calls
      /\ \A j \in DOMAIN calls : Forgotten[j] \in {calls[j], WithBy(calls[j], "gone")}
  BY DEF Forgotten, WithBy
<1>2. ASSUME NEW j \in DOMAIN calls PROVE PlainCall(Forgotten[j])
  <2>1. CallOK(calls[j], d) /\ PlainCall(calls[j])
    BY DEF CallsOK, PlainCalls
  <2>2. PlainCall(WithBy(calls[j], "gone"))
    BY <2>1, PlainOlder
  <2>3. QED BY <1>1, <2>1, <2>2
<1>3. QED BY <1>1, <1>2 DEF PlainCalls

LEMMA AbandonedPlain ==
  ASSUME NEW d, CallsOK(calls, d), PlainCalls(calls)
  PROVE  PlainCalls(Abandoned)
<1>1. DOMAIN Abandoned = DOMAIN calls
      /\ \A j \in DOMAIN calls : Abandoned[j] \in
           {calls[j], WithBy(calls[j], "gone"), WithBy(calls[j], "left")}
  BY DEF Abandoned, WithBy
<1>2. ASSUME NEW j \in DOMAIN calls PROVE PlainCall(Abandoned[j])
  <2>1. CallOK(calls[j], d) /\ PlainCall(calls[j])
    BY DEF CallsOK, PlainCalls
  <2>2. PlainCall(WithBy(calls[j], "gone")) /\ PlainCall(WithBy(calls[j], "left"))
    BY <2>1, PlainOlder
  <2>3. QED BY <1>1, <2>1, <2>2
<1>3. QED BY <1>1, <1>2 DEF PlainCalls

LEMMA TellPlain ==
  ASSUME NEW d, CallsOK(calls, d), PlainCalls(calls), NEW i \in DOMAIN calls, NEW p,
         p \in {"sent", "admitted"} => calls[i].phase \in {"sent", "admitted"},
         p = "ok" => calls[i].op # "reveal",
         Tell(i, p)
  PROVE  PlainCalls(calls')
<1> DEFINE new == [calls EXCEPT ![i] = WithPhase(calls[i], p)]
<1>1. calls' = new
  BY DEF Tell, WithPhase
<1>2. CallOK(calls[i], d) /\ PlainCall(calls[i])
  BY DEF CallsOK, PlainCalls
<1>3. PlainCall(WithPhase(calls[i], p))
  BY <1>2, PlainOlder
<1>4. DOMAIN new = DOMAIN calls
      /\ \A j \in DOMAIN calls : new[j] = IF j = i THEN WithPhase(calls[i], p) ELSE calls[j]
  OBVIOUS
<1> HIDE DEF new
<1>5. PlainCalls(new)
  BY <1>3, <1>4 DEF PlainCalls
<1>6. QED BY <1>1, <1>5

LEMMA SendPlain ==
  ASSUME NEW d, CallsOK(calls, d), PlainCalls(calls),
         NEW op, NEW kind, NEW id, NEW body, NEW by,
         Send(Request(op, kind, id, body, by)),
         kind = "conn" /\ op \in {"create", "update"} => Plain(body)
  PROVE  PlainCalls(calls')
<1> DEFINE r == Request(op, kind, id, body, by)
<1>1. r.op = op /\ r.kind = kind /\ r.body = body /\ r.phase \in {"sent", "admitted"}
  BY DEF Request
<1>2. calls' = Append(calls, r)
  BY DEF Send
<1> HIDE DEF r
<1>3. PlainCall(r)
  BY <1>1 DEF PlainCall
<1> DEFINE S == Range(calls)
<1>4. calls \in Seq(S)
  BY DEF CallsOK
<1> HIDE DEF S
<1>5. /\ Len(calls) \in Nat /\ DOMAIN calls = 1 .. Len(calls)
      /\ DOMAIN calls' = 1 .. Len(calls) + 1 /\ calls'[Len(calls) + 1] = r
      /\ \A i \in 1 .. Len(calls) : calls'[i] = calls[i]
  BY <1>2, <1>4
<1>6. \A i \in 1 .. Len(calls) + 1 : i = Len(calls) + 1 \/ i \in 1 .. Len(calls)
  BY <1>5
<1>7. \A i \in 1 .. Len(calls) + 1 : PlainCall(calls'[i])
  BY <1>3, <1>5, <1>6 DEF PlainCalls
<1>8. QED BY <1>5, <1>7 DEF PlainCalls

\* The tab.
LEMMA TabUnmasked ==
  ASSUME AdminInv, Unmasked, Tab \/ OtherClient
  PROVE  PlainForm(form') /\ PlainCalls(calls')
<1>1. /\ CallsOK(calls, drawn) /\ FormOK(form) /\ seen \in Lists /\ bound \in Bounds
      /\ PlainForm(form) /\ PlainCalls(calls)
  BY DEF AdminInv, TabTyped, Unmasked
<1>2. PlainForm(NoForm)
  BY DEF PlainForm
<1>3. PlainCalls(Forgotten) /\ PlainCalls(Abandoned)
  BY <1>1, ForgottenPlain, AbandonedPlain
<1>4. CASE OtherClient
  <2>1. PICK r \in bound.script : Send(Request(r.op, r.kind, r.id, r.body, "script"))
    BY <1>4 DEF OtherClient
  <2>2. form' = form
    BY <1>4 DEF OtherClient, tabVars
  <2>3. r.kind = "conn" /\ r.op \in {"create", "update"} => Plain(r.body)
    BY <1>1, <2>1, OthersSendSecrets
  <2> DEFINE op == r.op
             kind == r.kind
             id == r.id
             body == r.body
  <2>4. Send(Request(op, kind, id, body, "script"))
        /\ (kind = "conn" /\ op \in {"create", "update"} => Plain(body))
    BY <2>1, <2>3
  <2> HIDE DEF op, kind, id, body
  <2>5. QED BY <1>1, <2>2, <2>4, SendPlain
<1>5. CASE ReadList \/ OpenApp
  <2>1. form' = form /\ calls' = calls
    BY <1>5 DEF ReadList, OpenApp
  <2>2. QED BY <1>1, <2>1
<1>6. CASE ReadDenied
  BY <1>2, <1>3, <1>6 DEF ReadDenied
<1>7. CASE Navigate
  BY <1>1, <1>3, <1>7 DEF Navigate
<1>8. CASE CloseForm
  BY <1>2, <1>3, <1>8 DEF CloseForm
<1>9. CASE ClickLogin
  BY <1>1, <1>9, SendPlain DEF ClickLogin, tabVars
<1>10. CASE ClickLogout
  BY <1>1, <1>10, SendPlain DEF ClickLogout, tabVars
<1>11. CASE ClickReveal
  <2>1. PICK f \in Editable(form.draft) : Send(Request("reveal", "conn", form.id, f, "tab"))
    BY <1>11 DEF ClickReveal
  <2>2. form' = form
    BY <1>11 DEF ClickReveal, tabVars
  <2>3. QED BY <1>1, <2>1, <2>2, SendPlain
<1>12. CASE ConfirmDelete
  <2>1. PICK kind : Send(Request("delete", kind, form.id, <<>>, "tab"))
    BY <1>12 DEF ConfirmDelete
  <2>2. form' = form
    BY <1>12 DEF ConfirmDelete, tabVars
  <2>3. QED BY <1>1, <2>1, <2>2, SendPlain
<1>13. CASE ClickSetting
  <2>1. PICK body : Send(Request("patch", "settings", New, body, "tab"))
    BY <1>13 DEF ClickSetting
  <2>2. form' = form
    BY <1>13 DEF ClickSetting, tabVars
  <2>3. QED BY <1>1, <2>1, <2>2, SendPlain
<1>14. CASE Submit
  <2> DEFINE op == IF form.id = New THEN "create" ELSE "update"
             body == IF form.kind = "conn" THEN BuildFormData(form.draft) ELSE form.draft
             kind == form.kind
             id == form.id
  <2>1. form # NoForm /\ Send(Request(op, kind, id, body, "tab")) /\ form' = form
    BY <1>14 DEF Submit, tabVars
  <2>2. ASSUME kind = "conn" PROVE Plain(body)
    <3> DEFINE d == form.draft
    <3>1. d \in ConnDraft /\ PlainDraft(d)
      BY <1>1, <2>1, <2>2 DEF FormOK, PlainForm
    <3>2. body = BuildFormData(d)
      BY <2>2
    <3> HIDE DEF d, body
    <3>3. d.auth \in AuthType /\ d.password # Mask /\ d.pem # Mask /\ d.phrase # Mask
      BY <3>1 DEF ConnDraft, PlainDraft
    <3>4. body.secret # Mask /\ body.phrase # Mask
      BY <3>2, <3>3, MaskIsNoSecret DEF BuildFormData
    <3>5. QED BY <3>4 DEF Plain
  <2> HIDE DEF op, body, kind, id
  <2>3. QED BY <1>1, <2>1, <2>2, SendPlain
<1>15. CASE OpenForm
  <2>1. calls' = calls
    BY <1>15 DEF OpenForm
  <2>2. ASSUME NEW kind, NEW id, NEW draft, form' = Form(kind, id, draft),
               kind = "conn" => PlainDraft(draft)
        PROVE  PlainForm(form')
    BY <2>2 DEF Form, PlainForm
  <2>3. PlainDraft(NewConn) /\ \A c : PlainDraft(ConnFormState(c))
    BY MaskIsNoSecret DEF PlainDraft, NewConn, ConnFormState
  <2>4. PlainForm(form')
    BY <1>15, <2>2, <2>3 DEF OpenForm
  <2>5. QED BY <1>1, <2>1, <2>4
<1>16. CASE OpenDelete
  <2>1. calls' = calls
    BY <1>16 DEF OpenDelete
  <2>2. PlainForm(form')
    BY <1>16 DEF OpenDelete, PlainForm, Form
  <2>3. QED BY <1>1, <2>1, <2>2
<1>17. CASE EditConn
  <2> DEFINE d == form.draft
  <2>1. form # NoForm /\ form.kind = "conn" /\ calls' = calls
    BY <1>17 DEF EditConn
  <2>2. d \in ConnDraft /\ PlainDraft(d) /\ DOMAIN form = {"kind", "id", "draft", "edits"}
    BY <1>1, <2>1 DEF FormOK, PlainForm
  <2>3. ASSUME NEW e, PlainDraft(e), Edit(e) PROVE PlainForm(form')
    <3>1. form'.draft = e
      BY <2>2, <2>3 DEF Edit
    <3>2. QED BY <2>3, <3>1 DEF PlainForm
  <2>4. ASSUME NEW a \in AuthType PROVE PlainDraft([d EXCEPT !.auth = a])
    BY <2>2 DEF PlainDraft, ConnDraft
  <2>5. ASSUME NEW f \in Editable(d), NEW v \in Secret \cup {Empty}
        PROVE  PlainDraft([d EXCEPT ![f] = v])
    <3>1. f \in {"password", "pem", "phrase"} /\ v # Mask
      BY <2>2, MaskIsNoSecret DEF Editable, ConnDraft, AuthType
    <3>2. QED BY <2>2, <3>1 DEF PlainDraft, ConnDraft
  <2>6. PlainDraft([d EXCEPT !.sound = TRUE])
    BY <2>2 DEF PlainDraft, ConnDraft
  <2>7. PlainForm(form')
    BY <1>17, <2>3, <2>4, <2>5, <2>6 DEF EditConn
  <2>8. QED BY <1>1, <2>1, <2>7
<1>18. CASE EditTunnel
  <2>1. form.kind = "tunnel" /\ calls' = calls /\ form # NoForm
    BY <1>18 DEF EditTunnel
  <2>2. DOMAIN form = {"kind", "id", "draft", "edits"}
    BY <1>1, <2>1 DEF FormOK
  <2>3. \E draft : form' = [form EXCEPT !.draft = draft, !.edits = @ + 1]
    BY <1>18 DEF EditTunnel, EditChain, EditMapping, ChangeMode, EditPolicy, Edit
  <2>4. form'.kind = "tunnel"
    BY <2>1, <2>2, <2>3
  <2>5. QED BY <1>1, <2>1, <2>4 DEF PlainForm
<1>19. ASSUME NEW i \in DOMAIN calls, Noticed(i) \/ Denied(i) \/ LoggedIn(i) \/ LoggedOut(i)
       PROVE  PlainForm(form') /\ PlainCalls(calls')
  <2>1. PlainCalls(Over(calls, i))
    BY <1>1, OverPlain
  <2>2. /\ CallsOK(Forgotten, drawn) /\ i \in DOMAIN Forgotten
        /\ CallsOK(Abandoned, drawn) /\ i \in DOMAIN Abandoned
    BY <1>1, ForgottenKeeps, AbandonedKeeps
  <2>3. PlainCalls(Over(Forgotten, i)) /\ PlainCalls(Over(Abandoned, i))
    BY <1>3, <2>2, OverPlain
  <2>4. CASE Noticed(i)
    <3>1. form' = Concluded(calls[i])
          /\ calls' = Over(IF form' = NoForm THEN Abandoned ELSE calls, i)
      BY <2>4 DEF Noticed
    <3>2. PlainForm(Concluded(calls[i]))
      <4>1. CASE calls[i].op = "reveal" /\ calls[i].phase = "ok"
                 /\ form # NoForm /\ form.kind = "conn"
        <5> DEFINE b == calls[i].body
                   g == [form EXCEPT !.draft[b.field] = b.value]
        <5>1. b.field \in RevealField /\ b.value # Mask
          BY <1>1, <4>1 DEF CallsOK, CallOK, PlainCalls, PlainCall
        <5>2. form.draft \in ConnDraft /\ DOMAIN form = {"kind", "id", "draft", "edits"}
              /\ PlainDraft(form.draft)
          BY <1>1, <4>1 DEF FormOK, PlainForm
        <5>3. g.draft = [form.draft EXCEPT ![b.field] = b.value]
          BY <5>2
        <5>4. Concluded(calls[i]) \in {form, g, NoForm}
          BY DEF Concluded
        <5> HIDE DEF b, g
        <5>5. PlainDraft(g.draft)
          BY <5>1, <5>2, <5>3 DEF PlainDraft, ConnDraft, RevealField
        <5>6. PlainForm(g)
          BY <5>5 DEF PlainForm
        <5>7. QED BY <1>1, <1>2, <5>4, <5>6
      <4>2. CASE ~(calls[i].op = "reveal" /\ calls[i].phase = "ok"
                   /\ form # NoForm /\ form.kind = "conn")
        <5>1. Concluded(calls[i]) \in {form, NoForm}
          BY <4>2 DEF Concluded
        <5>2. QED BY <1>1, <1>2, <5>1
      <4>3. QED BY <4>1, <4>2
    <3>3. QED BY <2>1, <2>3, <3>1, <3>2
  <2>5. CASE Denied(i)
    BY <1>2, <2>3, <2>5 DEF Denied
  <2>6. CASE LoggedIn(i)
    BY <1>1, <2>1, <2>6 DEF LoggedIn
  <2>7. CASE LoggedOut(i)
    BY <1>1, <1>2, <2>1, <2>3, <2>7 DEF LoggedOut, tabVars
  <2>8. QED BY <1>19, <2>4, <2>5, <2>6, <2>7
<1>20. QED BY <1>4, <1>5, <1>6, <1>7, <1>8, <1>9, <1>10, <1>11, <1>12, <1>13, <1>14,
              <1>15, <1>16, <1>17, <1>18, <1>19 DEF Tab

\* The configuration.
LEMMA SameConns ==
  ASSUME NEW a, NEW b, a.conns = b.conns, PlainConfig(a)
  PROVE  PlainConfig(b)
BY DEF PlainConfig

LEMMA FewerConns ==
  ASSUME NEW cfg \in Config, PlainConfig(cfg), NEW c \in Conn
  PROVE  PlainConfig([cfg EXCEPT !.conns[c] = Absent])
<1> DEFINE new == [cfg EXCEPT !.conns[c] = Absent]
<1>1. DOMAIN cfg.conns = Conn
  BY DEF Config
<1>2. new.conns = [cfg.conns EXCEPT ![c] = Absent]
  BY DEF Config
<1> HIDE DEF new
<1>3. DOMAIN new.conns = Conn
      /\ \A x \in Conn : new.conns[x] \in {cfg.conns[x], Absent}
  BY <1>1, <1>2
<1>4. QED BY <1>1, <1>3 DEF PlainConfig, Ids, new

LEMMA PlainConn ==
  ASSUME NEW cfg \in Config, PlainConfig(cfg), NEW c \in Conn, NEW r, Plain(r)
  PROVE  PlainConfig([cfg EXCEPT !.conns[c] = r])
<1> DEFINE new == [cfg EXCEPT !.conns[c] = r]
<1>1. DOMAIN cfg.conns = Conn
  BY DEF Config
<1>2. new.conns = [cfg.conns EXCEPT ![c] = r]
  BY DEF Config
<1> HIDE DEF new
<1>3. DOMAIN new.conns = Conn
      /\ \A x \in Conn : new.conns[x] = IF x = c THEN r ELSE cfg.conns[x]
  BY <1>1, <1>2
<1>4. QED BY <1>1, <1>3 DEF PlainConfig, Ids, new

LEMMA MergedPlain ==
  ASSUME NEW old, Plain(old), NEW body, Plain(body)
  PROVE  Plain(Merged(old, body))
<1> DEFINE m == Merged(old, body)
<1>1. DOMAIN m = DOMAIN old
      /\ \A k \in DOMAIN old : m[k] = IF k \in DOMAIN body THEN body[k] ELSE old[k]
  BY DEF Merged
<1> HIDE DEF m
<1>2. Plain(m)
  BY <1>1 DEF Plain
<1>3. QED BY <1>2 DEF m

LEMMA AttemptPlain ==
  ASSUME NEW new, NEW old, PlainConfig(new), PlainConfig(old),
         Attempt(new, RolledBack(new, old))
  PROVE  PlainConfig(mem') /\ PlainConfig(undo')
BY DEF Attempt, RolledBack

LEMMA ServePlain ==
  ASSUME AdminInv, Unmasked, NEW i \in DOMAIN calls, Serve(i)
  PROVE  PlainConfig(mem') /\ PlainConfig(file') /\ PlainConfig(undo')
<1> DEFINE c == calls[i]
<1>1. /\ c.phase = "admitted" /\ CallOK(c, drawn) /\ PlainCall(c) /\ mem \in Config
      /\ PlainConfig(mem) /\ PlainConfig(file) /\ PlainConfig(undo)
  BY DEF AdminInv, TabTyped, CallsOK, Serve, Unmasked, PlainCalls, Promises, ServiceTypeOK
<1>2. \/ c.op = "create" /\ c.kind = "conn" /\ \E x \in Conn : CreateConn(x, c.body)
      \/ c.op = "create" /\ c.kind = "tunnel" /\ \E x \in Tunnel : CreateTunnel(x, c.body)
      \/ c.op = "update" /\ c.kind = "conn" /\ UpdateConn(c.id, c.body)
      \/ c.op = "update" /\ c.kind = "tunnel" /\ UpdateTunnel(c.id, c.body)
      \/ c.op = "delete" /\ c.kind = "conn" /\ DeleteConn(c.id)
      \/ c.op = "delete" /\ c.kind = "tunnel" /\ DeleteTunnel(c.id)
      \/ c.op = "patch" /\ PatchSettings(c.body)
  BY DEF Serve
<1>3. c.op \notin {"login", "logout"} => Sendable(c)
  BY <1>1 DEF CallOK
<1>4. c.kind = "conn" /\ c.op \in {"create", "update"} => Plain(c.body)
  BY <1>1 DEF PlainCall
<1> HIDE DEF c
<1>5. file' = file
  BY <1>2 DEF CreateConn, CreateTunnel, UpdateConn, UpdateTunnel, DeleteConn,
     DeleteTunnel, PatchSettings
<1>6. CASE NotFound
  BY <1>1, <1>5, <1>6 DEF NotFound
<1>7. ASSUME NEW x \in Conn, CreateConn(x, c.body), c.op = "create", c.kind = "conn"
      PROVE  PlainConfig(mem') /\ PlainConfig(undo')
  <2> DEFINE new == [mem EXCEPT !.conns[x] = c.body]
  <2>1. Attempt(new, RolledBack(new, mem))
    BY <1>7 DEF CreateConn
  <2>2. PlainConfig(new)
    BY <1>1, <1>4, <1>7, PlainConn
  <2> HIDE DEF new
  <2>3. QED BY <1>1, <2>1, <2>2, AttemptPlain
<1>8. CASE c.op = "update" /\ c.kind = "conn" /\ UpdateConn(c.id, c.body)
  <2>1. CASE mem.conns[c.id] = Absent
    BY <1>6, <1>8, <2>1 DEF UpdateConn
  <2>2. CASE mem.conns[c.id] # Absent
    <3> DEFINE r == Merged(mem.conns[c.id], c.body)
               new == [mem EXCEPT !.conns[c.id] = r]
    <3>1. Attempt(new, RolledBack(new, mem))
      BY <1>8, <2>2 DEF UpdateConn
    <3>2. c.id \in Conn
      BY <1>3, <1>8 DEF Sendable
    <3>3. Plain(mem.conns[c.id])
      BY <1>1, <2>2, <3>2 DEF PlainConfig, Ids, Config
    <3>4. Plain(r)
      BY <1>4, <1>8, <3>3, MergedPlain
    <3> HIDE DEF r
    <3>5. PlainConfig(new)
      BY <1>1, <3>2, <3>4, PlainConn
    <3> HIDE DEF new
    <3>6. QED BY <1>1, <1>5, <3>1, <3>5, AttemptPlain
  <2>3. QED BY <2>1, <2>2
<1>9. CASE c.op = "delete" /\ c.kind = "conn" /\ DeleteConn(c.id)
  <2>1. CASE mem.conns[c.id] = Absent \/ References(c.id) # {}
    BY <1>6, <1>9, <2>1 DEF DeleteConn
  <2>2. CASE ~(mem.conns[c.id] = Absent \/ References(c.id) # {})
    <3> DEFINE new == [mem EXCEPT !.conns[c.id] = Absent]
    <3>1. Discard(new)
      BY <1>9, <2>2 DEF DeleteConn
    <3>2. c.id \in Conn
      BY <1>3, <1>9 DEF Sendable
    <3>3. PlainConfig(new)
      BY <1>1, <3>2, FewerConns
    <3> HIDE DEF new
    <3>4. QED BY <1>1, <1>5, <3>1, <3>3 DEF Discard
  <2>3. QED BY <2>1, <2>2
\* The tunnels and the settings have no part in it.
<1>10. ASSUME NEW new, new.conns = mem.conns, Attempt(new, RolledBack(new, mem))
       PROVE  PlainConfig(mem') /\ PlainConfig(undo')
  BY <1>1, <1>10, SameConns, AttemptPlain
<1>11. DOMAIN mem = {"conns", "tunnels", "settings"}
  BY <1>1 DEF Config
<1>12. ASSUME NEW x, CreateTunnel(x, c.body)
       PROVE  PlainConfig(mem') /\ PlainConfig(undo')
  <2> DEFINE new == [mem EXCEPT !.tunnels[x] = WithDefaults(c.body)]
  <2>1. Attempt(new, RolledBack(new, mem))
    BY <1>12 DEF CreateTunnel
  <2>2. new.conns = mem.conns
    BY <1>11
  <2> HIDE DEF new
  <2>3. QED BY <1>10, <2>1, <2>2
<1>13. CASE UpdateTunnel(c.id, c.body)
  <2>1. CASE mem.tunnels[c.id] = Absent
    BY <1>6, <1>13, <2>1 DEF UpdateTunnel
  <2>2. CASE mem.tunnels[c.id] # Absent
    <3> DEFINE new == [mem EXCEPT !.tunnels[c.id] =
                         WithDefaults(Merged(mem.tunnels[c.id], c.body))]
    <3>1. Attempt(new, RolledBack(new, mem))
      BY <1>13, <2>2 DEF UpdateTunnel
    <3>2. new.conns = mem.conns
      BY <1>11
    <3> HIDE DEF new
    <3>3. QED BY <1>1, <1>5, <1>10, <3>1, <3>2
  <2>3. QED BY <2>1, <2>2
<1>14. CASE DeleteTunnel(c.id)
  <2>1. CASE mem.tunnels[c.id] = Absent
    BY <1>6, <1>14, <2>1 DEF DeleteTunnel
  <2>2. CASE mem.tunnels[c.id] # Absent
    <3>1. mem' = [mem EXCEPT !.tunnels[c.id] = Absent] /\ undo' = mem'
      BY <1>14, <2>2 DEF DeleteTunnel, Discard
    <3>2. mem'.conns = mem.conns
      BY <1>11, <3>1
    <3>3. QED BY <1>1, <1>5, <3>1, <3>2, SameConns
  <2>3. QED BY <2>1, <2>2
<1>15. CASE PatchSettings(c.body)
  <2> DEFINE new == [mem EXCEPT !.settings = Merged(mem.settings, c.body)]
  <2>1. new.conns = mem.conns
    BY <1>11
  <2>2. CASE new.settings \in Settings
    <3>1. Attempt(new, RolledBack(new, mem))
      BY <1>15, <2>2 DEF PatchSettings
    <3> HIDE DEF new
    <3>2. QED BY <1>1, <1>5, <1>10, <2>1, <3>1
  <2>3. CASE new.settings \notin Settings
    <3> DEFINE half == [mem EXCEPT !.settings.level = new.settings.level]
    <3>1. undo' = mem /\ mem' \in {half, mem}
      BY <1>15, <2>3 DEF PatchSettings
    <3>2. half.conns = mem.conns
      BY <1>11
    <3> HIDE DEF half, new
    <3>3. QED BY <1>1, <1>5, <3>1, <3>2, SameConns
  <2>4. QED BY <2>2, <2>3
<1>16. QED BY <1>1, <1>2, <1>5, <1>7, <1>8, <1>9, <1>12, <1>13, <1>14, <1>15

\* What a reveal answers is a secret of the connection or nothing.
LEMMA RevealPlain ==
  ASSUME AdminInv, Unmasked, NEW i \in DOMAIN calls, Reveals(i)
  PROVE  PlainCalls(calls')
<1>1. /\ CallsOK(calls, drawn) /\ CallOK(calls[i], drawn) /\ PlainCalls(calls)
      /\ PlainConfig(mem) /\ mem \in Config
      /\ calls[i].phase = "admitted" /\ calls[i].op = "reveal"
  BY DEF AdminInv, TabTyped, CallsOK, Reveals, Unmasked, Promises, ServiceTypeOK
<1>2. CASE mem.conns[calls[i].id] = Absent
  <2>1. Tell(i, "refused")
    BY <1>2 DEF Reveals
  <2>2. QED BY <1>1, <2>1, TellPlain
<1>3. CASE mem.conns[calls[i].id] # Absent
  <2> DEFINE r == mem.conns[calls[i].id]
             b == [field |-> calls[i].body, value |-> Field(r, calls[i].body)]
             c == [calls[i] EXCEPT !.phase = "ok", !.body = b]
             new == [calls EXCEPT ![i] = c]
  <2>1. calls' = new
    BY <1>3 DEF Reveals
  <2>2. Sendable(calls[i])
    BY <1>1 DEF CallOK
  <2>3. calls[i].id \in Conn /\ calls[i].body \in RevealField
    BY <1>1, <2>2 DEF Sendable
  <2>4. r \in ConnRecord /\ Plain(r)
    BY <1>1, <1>3, <2>3 DEF Config, PlainConfig, Ids
  <2>5. r.secret # Mask /\ r.phrase # Mask
    BY <2>4 DEF Plain, ConnRecord
  <2>6. b.value # Mask
    BY <2>3, <2>5, MaskIsNoSecret DEF Field, RevealField
  <2>7. DOMAIN calls[i] = {"op", "kind", "id", "body", "by", "phase"}
    BY <1>1 DEF CallOK
  <2>8. c.op = "reveal" /\ c.phase = "ok" /\ c.body = b
    BY <1>1, <2>7
  <2>9. DOMAIN new = DOMAIN calls
        /\ \A j \in DOMAIN calls : new[j] = IF j = i THEN c ELSE calls[j]
    OBVIOUS
  <2> HIDE DEF b, c, new
  <2>10. PlainCall(c)
    BY <2>6, <2>8 DEF PlainCall
  <2>11. PlainCalls(new)
    BY <1>1, <2>9, <2>10 DEF PlainCalls
  <2>12. QED BY <2>1, <2>11
<1>4. QED BY <1>2, <1>3

LEMMA LoadedPlain ==
  ASSUME NEW cfg \in Config, PlainConfig(cfg)
  PROVE  PlainConfig(Loaded(cfg))
<1>1. Loaded(cfg).conns = cfg.conns
  BY DEF Loaded, Config
<1>2. QED BY <1>1, SameConns

LEMMA ServerUnmasked ==
  ASSUME AdminInv, Unmasked, Server
  PROVE  Unmasked'
<1>1. /\ CallsOK(calls, drawn) /\ PlainCalls(calls) /\ ServingOK
      /\ PlainConfig(mem) /\ PlainConfig(file) /\ PlainConfig(undo)
      /\ file \in Config
  BY DEF AdminInv, TabTyped, Unmasked, Promises, ServiceTypeOK
<1>2. form' = form
  BY DEF Server, Auth, Serve, Reveals, HandleLogin, HandleLogout, Saves, Answers, Dies,
     SessionClock, tabVars
<1>3. SUFFICES ASSUME TRUE
               PROVE  /\ PlainConfig(mem') /\ PlainConfig(file') /\ PlainConfig(undo')
                      /\ PlainCalls(calls')
  BY <1>2 DEF Unmasked
<1>4. ASSUME UNCHANGED serviceVars
      PROVE  PlainConfig(mem') /\ PlainConfig(file') /\ PlainConfig(undo')
  BY <1>1, <1>4 DEF serviceVars
<1>5. ASSUME NEW i \in DOMAIN calls, Auth(i)
      PROVE  UNCHANGED serviceVars /\ PlainCalls(calls')
  <2> DEFINE p == IF Admits THEN "admitted" ELSE "denied"
  <2>1. calls[i].phase = "sent" /\ Tell(i, p) /\ p # "ok" /\ UNCHANGED serviceVars
    BY <1>5 DEF Auth
  <2> HIDE DEF p
  <2>2. QED BY <1>1, <2>1, TellPlain
<1>6. ASSUME NEW i \in DOMAIN calls, Serve(i)
      PROVE  /\ PlainConfig(mem') /\ PlainConfig(file') /\ PlainConfig(undo')
             /\ PlainCalls(calls')
  <2>1. Tell(i, "served")
    BY <1>6 DEF Serve
  <2>2. PlainCalls(calls')
    BY <1>1, <2>1, TellPlain
  <2>3. QED BY <1>6, <2>2, ServePlain
<1>7. ASSUME NEW i \in DOMAIN calls, Reveals(i)
      PROVE  UNCHANGED serviceVars /\ PlainCalls(calls')
  BY <1>7, RevealPlain DEF Reveals
<1>8. ASSUME NEW i \in DOMAIN calls, HandleLogin(i)
      PROVE  UNCHANGED serviceVars /\ PlainCalls(calls')
  <2>1. PICK k : calls' = [calls EXCEPT ![i].phase = "ok", ![i].id = k]
    BY <1>8 DEF HandleLogin
  <2>2. UNCHANGED serviceVars /\ calls[i].op = "login" /\ CallOK(calls[i], drawn)
    BY <1>1, <1>8 DEF HandleLogin, CallsOK
  <2> DEFINE c == [calls[i] EXCEPT !.phase = "ok", !.id = k]
  <2>3. c.op = "login"
    BY <2>2 DEF CallOK
  <2>4. DOMAIN calls' = DOMAIN calls
        /\ \A j \in DOMAIN calls : calls'[j] = IF j = i THEN c ELSE calls[j]
    BY <2>1
  <2> HIDE DEF c
  <2>5. PlainCall(c)
    BY <2>3 DEF PlainCall
  <2>6. QED BY <1>1, <2>2, <2>4, <2>5 DEF PlainCalls
<1>9. ASSUME NEW i \in DOMAIN calls, HandleLogout(i)
      PROVE  UNCHANGED serviceVars /\ PlainCalls(calls')
  <2>1. UNCHANGED serviceVars /\ calls[i].op = "logout" /\ Tell(i, "ok")
    BY <1>9 DEF HandleLogout
  <2>2. QED BY <1>1, <2>1, TellPlain
<1>10. CASE Saves
  <2>1. calls' = calls /\ {mem', file', undo'} \subseteq {mem, file, undo}
    BY <1>10 DEF Saves, SaveRenames, SaveFails
  <2>2. QED BY <1>1, <2>1
<1>11. CASE Answers
  <2>1. /\ serving # 0 /\ Tell(serving, job) /\ job \in {"ok", "refused", "failed"}
        /\ mem' = mem /\ file' = file /\ undo' = mem
    BY <1>11 DEF Answers, Reply
  <2>2. calls \in Seq(Range(calls))
    BY <1>1 DEF CallsOK
  <2>3. serving \in DOMAIN calls /\ calls[serving].op # "reveal"
    BY <1>1, <2>1, <2>2 DEF ServingOK, Change
  <2>4. PlainCalls(calls')
    BY <1>1, <2>1, <2>3, TellPlain
  <2>5. QED BY <1>1, <2>1, <2>4
<1>12. CASE Dies
  <2>1. mem' = Loaded(file) /\ file' = mem' /\ undo' = mem'
    BY <1>12 DEF Dies, Restart
  <2>2. DOMAIN calls' = DOMAIN calls
        /\ \A j \in DOMAIN calls : calls'[j] \in {calls[j], WithPhase(calls[j], "failed")}
    BY <1>12 DEF Dies, WithPhase
  <2>3. ASSUME NEW j \in DOMAIN calls PROVE PlainCall(calls'[j])
    <3>1. CallOK(calls[j], drawn) /\ PlainCall(calls[j])
      BY <1>1 DEF CallsOK, PlainCalls
    <3>2. PlainCall(WithPhase(calls[j], "failed"))
      BY <3>1, PlainOlder
    <3>3. QED BY <2>2, <3>1, <3>2
  <2>4. PlainCalls(calls')
    BY <2>2, <2>3 DEF PlainCalls
  <2>5. QED BY <1>1, <2>1, <2>4, LoadedPlain
<1>13. CASE SessionClock
  BY <1>1, <1>4, <1>13 DEF SessionClock
<1>14. QED BY <1>4, <1>5, <1>6, <1>7, <1>8, <1>9, <1>10, <1>11, <1>12, <1>13 DEF Server

LEMMA InitUnmasked == Init => Unmasked
<1> SUFFICES ASSUME Init PROVE Unmasked
  OBVIOUS
<1>1. bound \in Bounds /\ mem = bound.config /\ file = bound.config /\ undo = bound.config
      /\ form = NoForm /\ calls = <<>>
  BY DEF Init, StartsWith
<1>2. PlainConfig(bound.config)
  BY <1>1, OthersSendSecrets DEF PlainConfig
<1>3. PlainForm(form) /\ PlainCalls(calls)
  BY <1>1 DEF PlainForm, PlainCalls
<1>4. QED BY <1>1, <1>2, <1>3 DEF Unmasked

LEMMA NextUnmasked == AdminInv /\ Unmasked /\ [Next]_vars => Unmasked'
<1> SUFFICES ASSUME AdminInv, Unmasked, [Next]_vars PROVE Unmasked'
  OBVIOUS
<1>1. CASE Server
  BY <1>1, ServerUnmasked
<1>2. CASE Tab \/ OtherClient
  <2>1. PlainForm(form') /\ PlainCalls(calls')
    BY <1>2, TabUnmasked
  <2>2. UNCHANGED serviceVars
    <3>1. CASE OtherClient
      BY <3>1 DEF OtherClient
    <3>2. CASE \E i \in DOMAIN calls : Noticed(i) \/ Denied(i) \/ LoggedIn(i) \/ LoggedOut(i)
      BY <3>2 DEF Noticed, Denied, LoggedIn, LoggedOut, serverVars
    <3>3. CASE Tab
      BY <3>2, <3>3 DEF Tab, ReadList, ReadDenied, OpenApp, Navigate, ClickLogin,
         ClickLogout, OpenForm, OpenDelete, CloseForm, EditConn, ClickReveal, EditTunnel,
         Submit, ConfirmDelete, ClickSetting, serverVars
    <3>4. QED BY <1>2, <3>1, <3>3
  <2>3. QED BY <2>1, <2>2 DEF Unmasked, serviceVars
<1>3. CASE UNCHANGED vars
  BY <1>3 DEF vars, serviceVars, tabVars, Unmasked
<1>4. QED BY <1>1, <1>2, <1>3 DEF Next

-----------------------------------------------------------------------------
(* What is proved. *)

LEMMA AdminAlways == Spec => []AdminInv
BY InitTyped, NextTyped, PTL DEF Spec

\* A session that was logged out of admits nobody again, whatever expires, is
\* swept or is loaded from the file afterwards, but for a logout whose write
\* failed and that no later write had made good when the program was restarted:
\* that one the code does bring back (session.go:51-74, 76-105, 138-145).
THEOREM EndedStaysOut == SessionsSpec => []EndedIsOut
<1>1. SessionsSound => EndedIsOut
  BY DEF SessionsSound, EndedIsOut, Alive
<1>2. QED BY <1>1, InitSound, NextSound, PTL DEF SessionsSpec

\* Whatever the pages make of the records they were shown, what they send is
\* something the handlers can decode: every step of the tab and the server is a
\* step of the service that ConfigService specifies, or leaves it alone
\* (ssh-form.tsx:97-115, tunnel-form.tsx:50-79 against handler_ssh.go:24-168,
\* handler_tunnel.go:34-162).
THEOREM AdminImplementsService == Spec => ServiceSpec
<1>1. Init => ServiceInit
  <2>1. ASSUME Init PROVE ServiceInit
    <3>1. bound.config \in Config /\ NoDangling(bound.config) /\ StartsWith(bound.config)
      BY <2>1, AdminConstants DEF Init
    <3>2. QED BY <3>1 DEF ServiceInit
  <2>2. QED BY <2>1
<1>2. AdminInv /\ [Next]_vars => [ServiceNext]_serviceVars
  BY StepSimulates
<1>3. QED BY <1>1, <1>2, AdminAlways, PTL DEF Spec, ServiceSpec

\* The same for the sessions: the tab logs out only with a cookie that was given
\* out, and no answer, late or lost, changes a session (session.go:51-145).
THEOREM AdminImplementsSessions == Spec => SessionsSpec
<1>1. Init => SessionsInit
  BY DEF Init
<1>2. AdminInv /\ [Next]_vars => [SessionsNext]_sessionVars
  BY StepSimulates
<1>3. QED BY <1>1, <1>2, AdminAlways, PTL DEF Spec, SessionsSpec

\* The forms, lists and calls of the pages keep the types the code gives them,
\* although drafts are edited from redacted records and from revealed fields.
THEOREM AdminTypeCorrect == Spec => []TypeOK
<1>1. AdminInv => TypeOK
  <2> SUFFICES ASSUME AdminInv PROVE TypeOK
    OBVIOUS
  <2>1. ServiceTypeOK /\ SessionsTypeOK /\ TabTyped
    BY DEF AdminInv, Promises, SessionsSound
  <2>2. seen.conns \in [Conn -> ConnRecord \cup {Absent}]
        /\ seen.tunnels \in [Tunnel -> Stored \cup {Absent}]
    BY <2>1 DEF TabTyped, Lists
  <2>3. cookie \in Token \cup {NoToken}
    BY <2>1 DEF TabTyped, SessionsTypeOK
  <2>4. \A i \in DOMAIN calls : calls[i].op \in Op /\ calls[i].phase \in Phase
    BY <2>1 DEF TabTyped, CallsOK, CallOK
  <2>5. QED BY <2>1, <2>2, <2>3, <2>4 DEF TypeOK, TabTyped, FormOK, ServingOK
<1>2. QED BY <1>1, AdminAlways, PTL

\* With the pages and the other client at work and the program dying anywhere, no
\* tunnel names a connection that does not exist (handler_ssh.go:149 against
\* validate.go:160-167).
THEOREM PagesLeaveNoDanglingChain == Spec => []NoDanglingChain
BY AdminImplementsService, ChainsNeverDangle, PTL

\* Outside of a save memory is what the file holds, but for the two named
\* exceptions (handler_tunnel.go:153-159, handler_settings.go:70-98).
THEOREM PagesLeaveMemoryAsFile == Spec => []MemoryIsFile
BY AdminImplementsService, MemoryFollowsFile, PTL

\* With the pages at work, whatever the tab sends meanwhile with the old cookie, a
\* logout is final under the same exception: its write failed and the program was
\* restarted before the next one (session.go:76-105, 138-145 against 51-74).
THEOREM PagesStayLoggedOut == Spec => []EndedIsOut
BY AdminImplementsSessions, EndedStaysOut, PTL

\* What answers show instead of a secret is never stored as one: the form starts
\* without the secrets, what a reveal puts into it is read from the memory, and a
\* draft is sent without what its authentication does not use
\* (ssh-form.tsx:79-86 against redact.go:6-21).
THEOREM MaskStaysOut == Spec => []MaskIsNeverStored
<1>1. AdminInv /\ Unmasked => MaskIsNeverStored
  <2> SUFFICES ASSUME AdminInv, Unmasked, NEW c \in Ids(mem.conns)
               PROVE  mem.conns[c].secret # Mask /\ mem.conns[c].phrase # Mask
    BY DEF MaskIsNeverStored
  <2>1. mem \in Config /\ Plain(mem.conns[c])
    BY DEF AdminInv, Promises, ServiceTypeOK, Unmasked, PlainConfig
  <2>2. mem.conns[c] \in ConnRecord
    BY <2>1 DEF Config, Ids
  <2>3. QED BY <2>1, <2>2 DEF Plain, ConnRecord
<1>2. QED BY <1>1, AdminAlways, InitUnmasked, NextUnmasked, PTL DEF Spec
=============================================================================
