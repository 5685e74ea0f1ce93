--------------------------- MODULE TunnelConsole_proofs ---------------------------
(***************************************************************************)
(* What the web interface promises, for every number of events, calls and   *)
(* host keys and for every size of the buffers: it makes the server trust   *)
(* only what the user saw, it keeps events in order, it reads again what it *)
(* was told has changed, and its log shows all that the socket remembers.   *)
(***************************************************************************)
EXTENDS TunnelConsole, SequenceTheorems, FiniteSetTheorems, TLAPS

Answer == [state : State, hostKey : Key \cup {NoKey}, at : Nat]

Typed ==
  /\ bound \in Bounds
  /\ server \in Status
  /\ pending \in Key \cup {NoKey} /\ dialog \in Key \cup {NoKey}
  /\ shown # NoStatus => shown \in Answer
  /\ fetch = "answered" => reply \in Answer

-----------------------------------------------------------------------------
(* Sequences of events. *)

Increasing(s) == \A i, j \in 1 .. Len(s) : i < j => s[i] < s[j]
Before(s, t) == \A i \in 1 .. Len(s), j \in 1 .. Len(t) : s[i] < t[j]
Below(s, n) == \A i \in 1 .. Len(s) : 1 <= s[i] /\ s[i] <= n

LEMMA AppendFacts ==
  ASSUME NEW S, NEW s \in Seq(S), NEW x \in S
  PROVE  /\ Append(s, x) \in Seq(S) /\ Len(Append(s, x)) = Len(s) + 1
         /\ \A i \in 1 .. Len(s) : Append(s, x)[i] = s[i]
         /\ Append(s, x)[Len(s) + 1] = x
OBVIOUS

LEMMA TailFacts ==
  ASSUME NEW S, NEW s \in Seq(S), s # <<>>
  PROVE  /\ Tail(s) \in Seq(S) /\ Len(Tail(s)) = Len(s) - 1 /\ Len(s) \in Nat \ {0}
         /\ Head(s) = s[1] /\ s[1] \in S
         /\ \A i \in 1 .. Len(Tail(s)) : Tail(s)[i] = s[i + 1]
OBVIOUS

LEMMA TailOrdered ==
  ASSUME NEW s \in Seq(Nat), s # <<>>
  PROVE  /\ Increasing(s) => Increasing(Tail(s))
         /\ \A n \in Nat : Below(s, n) => Below(Tail(s), n)
         /\ \A t \in Seq(Nat) : /\ Before(s, t) => Before(Tail(s), t)
                                /\ Before(t, s) => Before(t, Tail(s))
<1> DEFINE u == Tail(s)
<1>1. /\ u \in Seq(Nat) /\ Len(u) = Len(s) - 1 /\ Len(s) \in Nat \ {0}
      /\ \A i \in 1 .. Len(u) : u[i] = s[i + 1]
  BY TailFacts
<1> HIDE DEF u
<1>2. \A i \in 1 .. Len(u) : i + 1 \in 1 .. Len(s)
  BY <1>1
<1>3. Increasing(s) => Increasing(u)
  <2> SUFFICES ASSUME Increasing(s), NEW i \in 1 .. Len(u), NEW j \in 1 .. Len(u), i < j
               PROVE  u[i] < u[j]
    BY DEF Increasing
  <2>1. i + 1 \in 1 .. Len(s) /\ j + 1 \in 1 .. Len(s) /\ i + 1 < j + 1
    BY <1>2
  <2>2. s[i + 1] < s[j + 1]
    BY <2>1 DEF Increasing
  <2>3. QED BY <1>1, <2>2
<1>4. \A n \in Nat : Below(s, n) => Below(u, n)
  BY <1>1, <1>2 DEF Below
<1>5. \A t \in Seq(Nat) : (Before(s, t) => Before(u, t)) /\ (Before(t, s) => Before(t, u))
  BY <1>1, <1>2 DEF Before
<1>6. QED BY <1>3, <1>4, <1>5 DEF u

LEMMA AppendOrdered ==
  ASSUME NEW s \in Seq(Nat), NEW x \in Nat
  PROVE  /\ Increasing(s) /\ (\A i \in 1 .. Len(s) : s[i] < x) => Increasing(Append(s, x))
         /\ \A n \in Nat : Below(s, n) /\ 1 <= x /\ x <= n => Below(Append(s, x), n)
         /\ \A t \in Seq(Nat) :
              /\ Before(s, t) /\ (\A j \in 1 .. Len(t) : x < t[j]) => Before(Append(s, x), t)
              /\ Before(t, s) /\ (\A j \in 1 .. Len(t) : t[j] < x) => Before(t, Append(s, x))
<1> DEFINE u == Append(s, x)
<1>1. /\ u \in Seq(Nat) /\ Len(u) = Len(s) + 1 /\ Len(s) \in Nat
      /\ \A i \in 1 .. Len(s) : u[i] = s[i]
      /\ u[Len(s) + 1] = x
  BY AppendFacts
<1> HIDE DEF u
<1>2. \A i \in 1 .. Len(u) : i \in 1 .. Len(s) \/ i = Len(s) + 1
  BY <1>1
<1>3. Increasing(s) /\ (\A i \in 1 .. Len(s) : s[i] < x) => Increasing(u)
  <2> SUFFICES ASSUME Increasing(s), \A i \in 1 .. Len(s) : s[i] < x,
                      NEW i \in 1 .. Len(u), NEW j \in 1 .. Len(u), i < j
               PROVE  u[i] < u[j]
    BY DEF Increasing
  <2>1. i \in 1 .. Len(s) /\ u[i] = s[i]
    <3>1. i \in 1 .. Len(s)
      BY <1>1
    <3>2. QED BY <1>1, <3>1
  <2>2. CASE j \in 1 .. Len(s)
    BY <1>1, <2>1, <2>2 DEF Increasing
  <2>3. CASE j = Len(s) + 1
    BY <1>1, <2>1, <2>3
  <2>4. QED BY <1>2, <2>2, <2>3
<1>4. \A n \in Nat : Below(s, n) /\ 1 <= x /\ x <= n => Below(u, n)
  BY <1>1, <1>2 DEF Below
<1>5. \A t \in Seq(Nat) :
        /\ Before(s, t) /\ (\A j \in 1 .. Len(t) : x < t[j]) => Before(u, t)
        /\ Before(t, s) /\ (\A j \in 1 .. Len(t) : t[j] < x) => Before(t, u)
  BY <1>1, <1>2 DEF Before
<1>6. QED BY <1>3, <1>4, <1>5 DEF u

LEMMA LastOnesFacts ==
  ASSUME NEW s \in Seq(Nat)
  PROVE  LastOnes(s) \in Seq(Nat) /\ (LastOnes(s) = s \/ (s # <<>> /\ LastOnes(s) = Tail(s)))
<1>1. CASE Len(s) > MaxBuffer
  <2>1. s # <<>>
    BY <1>1, ConsoleConstants
  <2>2. Tail(s) \in Seq(Nat)
    BY <2>1, TailFacts
  <2>3. QED BY <1>1, <2>1, <2>2 DEF LastOnes
<1>2. CASE ~(Len(s) > MaxBuffer)
  BY <1>2 DEF LastOnes
<1>3. QED BY <1>1, <1>2

-----------------------------------------------------------------------------
(* Induction, over the natural numbers and over finite sets. *)

LEMMA Least ==
  ASSUME NEW T \in SUBSET Nat, T # {}
  PROVE  \E x \in T : \A y \in T : x <= y
<1> DEFINE R == OpToRel(<, Nat)
<1>1. IsWellFoundedOn(R, Nat)
  BY NatLessThanWellFounded, Zenon
<1>2. \A x, y \in Nat : x < y => <<x, y>> \in R
  BY DEF OpToRel
<1> HIDE DEF R
<1>3. PICK x \in T : \A y \in T : <<y, x>> \notin R
  BY <1>1, WFMin
<1>4. ASSUME NEW y \in T PROVE x <= y
  <2>1. x \in Nat /\ y \in Nat /\ ~(y < x)
    BY <1>2, <1>3
  <2>2. QED BY <2>1
<1>5. QED BY <1>4

LEMMA Induction ==
  ASSUME NEW T \in SUBSET Nat, 0 \in T, \A n \in T : n + 1 \in T
  PROVE  T = Nat
<1>1. SUFFICES ASSUME Nat \ T # {} PROVE FALSE
  OBVIOUS
<1>2. PICK x \in Nat \ T : \A y \in Nat \ T : x <= y
  BY <1>1, Least
<1>3. x # 0 /\ x - 1 \in Nat
  BY <1>2
<1>4. x - 1 \in T
  BY <1>2, <1>3
<1>5. x - 1 + 1 = x
  BY <1>2
<1>6. QED BY <1>2, <1>4, <1>5

LEMMA FiniteInduction ==
  ASSUME NEW S, IsFiniteSet(S), NEW C, {} \in C,
         \A T \in SUBSET S : \A x \in S \ T : T \in C => T \cup {x} \in C
  PROVE  S \in C
<1> DEFINE R == StrictSubsetOrdering(S)
           U == (SUBSET S) \ C
<1>1. IsWellFoundedOn(R, SUBSET S)
  BY FS_StrictSubsetOrderingWellFounded, FS_FiniteSubsetsOfFinite
<1>2. \A T \in SUBSET S : \A x \in T : <<T \ {x}, T>> \in R
  BY DEF StrictSubsetOrdering
<1> HIDE DEF R
<1>3. SUFFICES ASSUME U # {} PROVE FALSE
  OBVIOUS
<1>4. PICK T \in U : \A V \in U : <<V, T>> \notin R
  <2>1. U \subseteq SUBSET S
    OBVIOUS
  <2> HIDE DEF U
  <2>2. QED BY <1>1, <1>3, <2>1, WFMin
<1>5. PICK x \in T : TRUE
  BY <1>4
<1>6. T \ {x} \in C
  BY <1>2, <1>4, <1>5
<1>7. (T \ {x}) \cup {x} = T
  BY <1>5
<1>8. QED BY <1>4, <1>5, <1>6, <1>7

LEMMA Greatest ==
  ASSUME NEW S, IsFiniteSet(S), NEW f \in [S -> Nat], S # {}
  PROVE  \E x \in S : \A y \in S : f[y] <= f[x]
<1> DEFINE C == {T \in SUBSET S : T # {} => \E x \in T : \A y \in T : f[y] <= f[x]}
<1>1. {} \in C
  OBVIOUS
<1>2. ASSUME NEW T \in SUBSET S, NEW x \in S \ T, T \in C PROVE T \cup {x} \in C
  <2>1. CASE T = {}
    BY <2>1
  <2>2. CASE T # {}
    <3>1. PICK z \in T : \A y \in T : f[y] <= f[z]
      BY <1>2, <2>2
    <3>2. f[x] <= f[z] \/ f[z] <= f[x]
      OBVIOUS
    <3>3. \E w \in T \cup {x} : \A y \in T \cup {x} : f[y] <= f[w]
      <4>1. CASE f[x] <= f[z]
        BY <3>1, <4>1
      <4>2. CASE f[z] <= f[x]
        <5>1. \A y \in T \cup {x} : f[y] <= f[x]
          BY <3>1, <4>2
        <5>2. QED BY <5>1
      <4>3. QED BY <3>2, <4>1, <4>2
    <3>4. QED BY <3>3
  <2>3. QED BY <2>1, <2>2
<1>3. S \in C
  <2> HIDE DEF C
  <2>1. QED BY <1>1, <1>2, FiniteInduction
<1>4. QED BY <1>3

LEMMA MaxIsAbove == \A b \in Bounds : b.events \in Nat /\ b.events + 2 <= MaxEvent /\ MaxEvent \in Nat
<1> SUFFICES ASSUME NEW b \in Bounds
             PROVE  b.events \in Nat /\ b.events + 2 <= MaxEvent /\ MaxEvent \in Nat
  OBVIOUS
<1> DEFINE f == [c \in Bounds |-> c.events]
           E == {c.events : c \in Bounds}
<1>1. f \in [Bounds -> Nat] /\ E \subseteq Nat /\ b.events \in E
  BY ConsoleConstants
<1>2. \E x \in Bounds : \A y \in Bounds : f[y] <= f[x]
  <2> HIDE DEF f
  <2>1. QED BY <1>1, ConsoleConstants, Greatest
<1>3. \E x \in E : \A y \in E : x >= y
  BY <1>1, <1>2
<1>4. Max(E) \in E /\ \A y \in E : Max(E) >= y
  <2> HIDE DEF E
  <2> DEFINE m == CHOOSE x \in E : \A y \in E : x >= y
  <2>1. m \in E /\ \A y \in E : m >= y
    BY <1>3, Zenon
  <2>2. QED BY <2>1 DEF Max
<1>5. MaxEvent = Max(E) + 2
  BY DEF MaxEvent
<1> HIDE DEF E
<1>6. Max(E) \in Nat /\ Max(E) >= b.events /\ b.events \in Nat
  BY <1>1, <1>4
<1> DEFINE m == Max(E)
           n == b.events
<1>7. m \in Nat /\ n \in Nat /\ m >= n /\ MaxEvent = m + 2
  BY <1>5, <1>6
<1> HIDE DEF m, n
<1>8. n + 2 <= MaxEvent /\ MaxEvent \in Nat
  BY <1>7
<1>9. QED BY <1>7, <1>8 DEF n

\* g is defined by recursion up to n: from b, by the steps st.
Solves(g, b, st, n) ==
  g[0] = b /\ \A i \in 0 .. n : i # 0 => g[i] = st[i][g[i - 1]]

\* Recursion defines a function.
LEMMA Recursion ==
  ASSUME NEW S, NEW b \in S, NEW st \in [Nat -> [S -> S]], NEW m \in Nat
  PROVE  \E g \in [0 .. m -> S] : Solves(g, b, st, m)
<1> DEFINE T == {n \in Nat : \E g \in [0 .. n -> S] : Solves(g, b, st, n)}
<1>1. 0 \in T
  <2> DEFINE g == [i \in 0 .. 0 |-> b]
  <2>1. g \in [0 .. 0 -> S] /\ Solves(g, b, st, 0)
    BY DEF Solves
  <2> HIDE DEF g
  <2>2. QED BY <2>1
<1>2. ASSUME NEW n \in T PROVE n + 1 \in T
  <2>1. n \in Nat /\ \E g \in [0 .. n -> S] : Solves(g, b, st, n)
    OBVIOUS
  <2>2. PICK g \in [0 .. n -> S] : Solves(g, b, st, n)
    BY <2>1
  <2> DEFINE v == st[n + 1][g[n]]
             h == [i \in 0 .. n + 1 |-> IF i = n + 1 THEN v ELSE g[i]]
  <2>3. g[n] \in S
    BY <2>1
  <2>4. v \in S
    BY <2>1, <2>3
  <2>5. h[n + 1] = v /\ (\A i \in 0 .. n : h[i] = g[i]) /\ n + 1 # 0
    BY <2>1
  <2>6. h \in [0 .. n + 1 -> S]
    <3>1. \A i \in 0 .. n + 1 : i # n + 1 => i \in 0 .. n
      BY <2>1
    <3> HIDE DEF v
    <3>2. QED BY <2>4, <3>1
  <2> HIDE DEF h
  <2>7. h[0] = b
    BY <2>1, <2>2, <2>5 DEF Solves
  <2>8. ASSUME NEW i \in 0 .. n + 1, i # 0 PROVE h[i] = st[i][h[i - 1]]
    <3>1. CASE i = n + 1
      <4>1. i - 1 = n /\ n \in 0 .. n
        BY <2>1, <3>1
      <4>2. h[i - 1] = g[n]
        BY <2>5, <4>1
      <4>3. QED BY <2>5, <3>1, <4>2
    <3>2. CASE i # n + 1
      <4>1. i \in 0 .. n /\ i - 1 \in 0 .. n
        BY <2>1, <2>8, <3>2
      <4>2. h[i] = g[i] /\ h[i - 1] = g[i - 1]
        BY <2>5, <4>1
      <4>3. QED BY <2>2, <2>8, <4>1, <4>2 DEF Solves
    <3>3. QED BY <3>1, <3>2
  <2>9. Solves(h, b, st, n + 1)
    BY <2>7, <2>8 DEF Solves
  <2>10. QED BY <2>1, <2>6, <2>9
<1>3. T = Nat
  <2>1. T \in SUBSET Nat
    OBVIOUS
  <2> HIDE DEF T
  <2>2. QED BY <1>1, <1>2, <2>1, Induction
<1>4. QED BY <1>3

-----------------------------------------------------------------------------
(* Filtered sequences. *)

\* F[i] is what is kept of the first i elements of s.
Filters(F, s, W) ==
  /\ F[0] = <<>>
  /\ \A i \in 1 .. Len(s) :
       F[i] = IF s[i] \in W THEN Append(F[i - 1], s[i]) ELSE F[i - 1]

LEMMA KeptFilters ==
  ASSUME NEW S, NEW s \in Seq(S), NEW W
  PROVE  \E F \in [0 .. Len(s) -> Seq(S)] : Filters(F, s, W) /\ Kept(s, W) = F[Len(s)]
<1> DEFINE st == [i \in Nat |-> [q \in Seq(S) |->
             IF i \in DOMAIN s /\ s[i] \in W THEN Append(q, s[i]) ELSE q]]
           F == CHOOSE f : f = [i \in 0 .. Len(s) |->
                  IF i = 0 THEN <<>>
                  ELSE IF s[i] \in W THEN Append(f[i - 1], s[i]) ELSE f[i - 1]]
<1>1. Len(s) \in Nat /\ DOMAIN s = 1 .. Len(s) /\ \A i \in 1 .. Len(s) : s[i] \in S
  OBVIOUS
<1>2. st \in [Nat -> [Seq(S) -> Seq(S)]]
  BY <1>1
<1>3. \A i \in 1 .. Len(s), q \in Seq(S) :
        st[i][q] = IF s[i] \in W THEN Append(q, s[i]) ELSE q
  BY <1>1
<1> HIDE DEF st
<1>4. PICK g \in [0 .. Len(s) -> Seq(S)] :
        g[0] = <<>> /\ \A i \in 0 .. Len(s) : i # 0 => g[i] = st[i][g[i - 1]]
  <2> HIDE DEF F
  <2> DEFINE Q == Seq(S)
             b == <<>>
             m == Len(s)
  <2>1. b \in Q /\ st \in [Nat -> [Q -> Q]] /\ m \in Nat
    BY <1>1, <1>2
  <2> HIDE DEF Q, b, m
  <2>2. \E g \in [0 .. m -> Q] : Solves(g, b, st, m)
    BY <2>1, Recursion
  <2>3. QED BY <2>2 DEF Q, b, m, Solves
<1>5. g = [i \in 0 .. Len(s) |->
             IF i = 0 THEN <<>>
             ELSE IF s[i] \in W THEN Append(g[i - 1], s[i]) ELSE g[i - 1]]
  <2>1. ASSUME NEW i \in 0 .. Len(s), i # 0
        PROVE  g[i] = IF s[i] \in W THEN Append(g[i - 1], s[i]) ELSE g[i - 1]
    <3>1. i \in 1 .. Len(s) /\ i - 1 \in 0 .. Len(s)
      BY <1>1, <2>1
    <3>2. QED BY <1>3, <1>4, <2>1, <3>1
  <2>2. QED BY <1>4, <2>1
<1>6. F = [i \in 0 .. Len(s) |->
             IF i = 0 THEN <<>>
             ELSE IF s[i] \in W THEN Append(F[i - 1], s[i]) ELSE F[i - 1]]
  BY <1>5
<1>7. Kept(s, W) = F[Len(s)]
  BY DEF Kept
<1> HIDE DEF F
<1>8. F[0] = <<>> /\ \A i \in 1 .. Len(s) :
        F[i] = IF s[i] \in W THEN Append(F[i - 1], s[i]) ELSE F[i - 1]
  <2>1. 0 \in 0 .. Len(s) /\ \A i \in 1 .. Len(s) : i \in 0 .. Len(s) /\ i # 0
    BY <1>1
  <2>2. QED BY <1>6, <2>1
<1> DEFINE U == {n \in Nat : n <= Len(s) => F[n] \in Seq(S)}
<1>9. 0 \in U
  <2>1. <<>> \in Seq(S)
    OBVIOUS
  <2>2. QED BY <1>8, <2>1
<1>10. ASSUME NEW n \in U PROVE n + 1 \in U
  <2>1. SUFFICES ASSUME n + 1 <= Len(s) PROVE F[n + 1] \in Seq(S)
    OBVIOUS
  <2>2. n + 1 \in 1 .. Len(s) /\ n + 1 - 1 = n /\ F[n] \in Seq(S)
    BY <2>1, <1>1
  <2>3. F[n + 1] = IF s[n + 1] \in W THEN Append(F[n], s[n + 1]) ELSE F[n]
    BY <2>2, <1>8
  <2>4. QED BY <2>2, <2>3, <1>1
<1>11. U = Nat
  <2>1. U \in SUBSET Nat
    OBVIOUS
  <2> HIDE DEF U
  <2>2. QED BY <1>9, <1>10, <2>1, Induction
<1>12. F \in [0 .. Len(s) -> Seq(S)]
  <2>1. F = [i \in 0 .. Len(s) |-> F[i]]
    BY <1>6
  <2>2. \A i \in 0 .. Len(s) : F[i] \in Seq(S)
    BY <1>1, <1>11
  <2>3. QED BY <2>1, <2>2
<1>13. QED BY <1>7, <1>8, <1>12 DEF Filters

\* What is kept of a sequence is no longer than it.
LEMMA KeptType ==
  ASSUME NEW S, NEW s \in Seq(S), NEW W
  PROVE  Kept(s, W) \in Seq(S) /\ Len(Kept(s, W)) <= Len(s)
<1>1. PICK F \in [0 .. Len(s) -> Seq(S)] : Filters(F, s, W) /\ Kept(s, W) = F[Len(s)]
  BY KeptFilters
<1>2. Len(s) \in Nat
  OBVIOUS
<1> DEFINE U == {n \in Nat : n <= Len(s) => Len(F[n]) <= n}
<1>3. 0 \in U
  BY <1>1 DEF Filters
<1>4. ASSUME NEW n \in U PROVE n + 1 \in U
  <2>1. SUFFICES ASSUME n + 1 <= Len(s) PROVE Len(F[n + 1]) <= n + 1
    OBVIOUS
  <2>2. n + 1 \in 1 .. Len(s) /\ n + 1 - 1 = n /\ n \in 0 .. Len(s)
    BY <1>2, <2>1
  <2>3. F[n + 1] = IF s[n + 1] \in W THEN Append(F[n], s[n + 1]) ELSE F[n]
    BY <1>1, <2>2 DEF Filters
  <2>4. F[n] \in Seq(S) /\ Len(F[n]) <= n /\ s[n + 1] \in S
    BY <2>1, <2>2
  <2>5. Len(F[n]) \in Nat /\ Len(Append(F[n], s[n + 1])) = Len(F[n]) + 1
    BY <2>4
  <2>6. QED BY <2>3, <2>4, <2>5
<1>5. U = Nat
  <2>1. U \in SUBSET Nat
    OBVIOUS
  <2> HIDE DEF U
  <2>2. QED BY <1>3, <1>4, <2>1, Induction
<1>6. Len(s) \in 0 .. Len(s) /\ Len(s) \in U
  BY <1>2, <1>5
<1>7. QED BY <1>1, <1>6

\* Two filters that agree on the first n elements.
LEMMA SameFilters ==
  ASSUME NEW F, NEW s, NEW W, Filters(F, s, W),
         NEW G, NEW t, NEW V, Filters(G, t, V),
         NEW m \in Nat, Len(s) \in Nat, Len(t) \in Nat, m <= Len(s), m <= Len(t),
         \A i \in 1 .. m : s[i] = t[i] /\ (s[i] \in W <=> t[i] \in V)
  PROVE  F[m] = G[m]
<1> DEFINE U == {n \in Nat : n <= m => F[n] = G[n]}
<1>1. 0 \in U
  BY DEF Filters
<1>2. ASSUME NEW n \in U PROVE n + 1 \in U
  <2>1. SUFFICES ASSUME n + 1 <= m PROVE F[n + 1] = G[n + 1]
    OBVIOUS
  <2>2. n + 1 \in 1 .. Len(s) /\ n + 1 \in 1 .. Len(t) /\ n + 1 \in 1 .. m
        /\ n + 1 - 1 = n /\ F[n] = G[n]
    BY <2>1
  <2>3. /\ F[n + 1] = IF s[n + 1] \in W THEN Append(F[n], s[n + 1]) ELSE F[n]
        /\ G[n + 1] = IF t[n + 1] \in V THEN Append(G[n], t[n + 1]) ELSE G[n]
    BY <2>2 DEF Filters
  <2>4. s[n + 1] = t[n + 1] /\ (s[n + 1] \in W <=> t[n + 1] \in V)
    BY <2>2
  <2>5. QED BY <2>2, <2>3, <2>4
<1>3. U = Nat
  <2>1. U \in SUBSET Nat
    OBVIOUS
  <2> HIDE DEF U
  <2>2. QED BY <1>1, <1>2, <2>1, Induction
<1>4. QED BY <1>3

LEMMA KeptSame ==
  ASSUME NEW S, NEW s \in Seq(S), NEW W, NEW V,
         \A i \in 1 .. Len(s) : s[i] \in W <=> s[i] \in V
  PROVE  Kept(s, W) = Kept(s, V)
<1>1. PICK F \in [0 .. Len(s) -> Seq(S)] : Filters(F, s, W) /\ Kept(s, W) = F[Len(s)]
  BY KeptFilters
<1>2. PICK G \in [0 .. Len(s) -> Seq(S)] : Filters(G, s, V) /\ Kept(s, V) = G[Len(s)]
  BY KeptFilters
<1>3. Len(s) \in Nat /\ Len(s) <= Len(s)
  OBVIOUS
<1>4. F[Len(s)] = G[Len(s)]
  BY <1>1, <1>2, <1>3, SameFilters
<1>5. QED BY <1>1, <1>2, <1>4

LEMMA KeptAppend ==
  ASSUME NEW S, NEW s \in Seq(S), NEW x \in S, NEW W
  PROVE  Kept(Append(s, x), W) = IF x \in W THEN Append(Kept(s, W), x) ELSE Kept(s, W)
<1> DEFINE t == Append(s, x)
<1>1. /\ t \in Seq(S) /\ Len(t) = Len(s) + 1 /\ Len(s) \in Nat
      /\ \A i \in 1 .. Len(s) : t[i] = s[i]
      /\ t[Len(s) + 1] = x
  OBVIOUS
<1> HIDE DEF t
<1>2. PICK F \in [0 .. Len(s) -> Seq(S)] : Filters(F, s, W) /\ Kept(s, W) = F[Len(s)]
  BY KeptFilters
<1>3. PICK G \in [0 .. Len(t) -> Seq(S)] : Filters(G, t, W) /\ Kept(t, W) = G[Len(t)]
  BY <1>1, KeptFilters
<1> DEFINE m == Len(s)
<1>4. m \in Nat /\ m <= Len(s) /\ m <= Len(t) /\ Len(t) \in Nat
      /\ \A i \in 1 .. m : s[i] = t[i] /\ (s[i] \in W <=> t[i] \in W)
  BY <1>1
<1> HIDE DEF m
<1>5. F[m] = G[m]
  BY <1>1, <1>2, <1>3, <1>4, SameFilters
<1>6. Len(t) = m + 1 /\ m + 1 \in 1 .. Len(t) /\ m + 1 - 1 = m /\ t[m + 1] = x /\ m = Len(s)
  BY <1>1 DEF m
<1>7. G[m + 1] = IF x \in W THEN Append(G[m], x) ELSE G[m]
  BY <1>3, <1>6 DEF Filters
<1>8. QED BY <1>2, <1>3, <1>5, <1>6, <1>7 DEF t

-----------------------------------------------------------------------------
(* Suffixes. *)

\* s is the end of t.
Ends(s, t) ==
  /\ Len(s) <= Len(t)
  /\ \A i \in 1 .. Len(s) : s[i] = t[Len(t) - Len(s) + i]

LEMMA EndsIsSuffix ==
  ASSUME NEW S, NEW s \in Seq(S), NEW t \in Seq(S), Ends(s, t)
  PROVE  IsSuffix(s, t)
<1> DEFINE m == Len(s)
           n == Len(t)
           r == Reverse(s)
           q == Reverse(t)
<1>1. m \in Nat /\ n \in Nat /\ m <= n /\ DOMAIN s = 1 .. m /\ DOMAIN t = 1 .. n
  BY DEF Ends
<1>2. r = [i \in 1 .. m |-> s[m - i + 1]] /\ q = [i \in 1 .. n |-> t[n - i + 1]]
  BY DEF Reverse
<1>3. \A i \in 1 .. m : m - i + 1 \in 1 .. m /\ n - m + (m - i + 1) = n - i + 1
  BY <1>1
<1>4. \A i \in 1 .. n : n - i + 1 \in 1 .. n
  BY <1>1
<1>5. r \in Seq(S) /\ q \in Seq(S) /\ Len(r) = m /\ Len(q) = n
  <2>1. (\A i \in 1 .. m : s[m - i + 1] \in S) /\ (\A i \in 1 .. n : t[n - i + 1] \in S)
    BY <1>1, <1>3, <1>4
  <2> HIDE DEF m, n, r, q
  <2>2. r \in [1 .. m -> S] /\ q \in [1 .. n -> S]
    BY <1>2, <2>1
  <2>3. QED BY <1>1, <2>2
<1>6. \A i \in 1 .. m : r[i] = q[i]
  <2>1. ASSUME NEW i \in 1 .. m PROVE s[m - i + 1] = t[n - i + 1]
    <3>1. m - i + 1 \in 1 .. m /\ n - m + (m - i + 1) = n - i + 1
      BY <1>3
    <3> DEFINE j == m - i + 1
    <3>2. s[j] = t[n - m + j]
      BY <3>1 DEF Ends
    <3>3. QED BY <3>1, <3>2
  <2>2. QED BY <1>1, <1>2, <2>1
<1> HIDE DEF m, n, r, q
<1>7. SubSeq(r, 1, m) = SubSeq(q, 1, m)
  <2>1. SubSeq(r, 1, m) = [i \in 1 .. m |-> r[i]]
    BY <1>1, <1>5
  <2>2. SubSeq(q, 1, m) = [i \in 1 .. m |-> q[i]]
    BY <1>1, <1>5
  <2>3. QED BY <1>6, <2>1, <2>2
<1>8. IsPrefix(r, q)
  BY <1>1, <1>5, <1>7 DEF IsPrefix
<1>9. QED BY <1>8 DEF IsSuffix, r, q

LEMMA EndsRefl ==
  ASSUME NEW S, NEW s \in Seq(S)
  PROVE  Ends(s, s)
BY DEF Ends

LEMMA EndsTrans ==
  ASSUME NEW S, NEW s \in Seq(S), NEW t \in Seq(S), NEW u \in Seq(S), Ends(s, t), Ends(t, u)
  PROVE  Ends(s, u)
<1> DEFINE a == Len(s)
           b == Len(t)
           c == Len(u)
<1>1. a \in Nat /\ b \in Nat /\ c \in Nat /\ a <= b /\ b <= c
  BY DEF Ends
<1>2. ASSUME NEW i \in 1 .. a PROVE s[i] = u[c - a + i]
  <2> DEFINE j == b - a + i
  <2>1. j \in 1 .. b /\ c - b + j = c - a + i
    BY <1>1
  <2>2. s[i] = t[j]
    BY DEF Ends
  <2> HIDE DEF j
  <2>3. t[j] = u[c - b + j]
    BY <2>1 DEF Ends
  <2>4. QED BY <2>1, <2>2, <2>3
<1>3. QED BY <1>1, <1>2 DEF Ends

\* The end that is shorter is the end of the tail.
LEMMA EndsOfTail ==
  ASSUME NEW S, NEW s \in Seq(S), NEW t \in Seq(S), Ends(s, t), Len(s) < Len(t)
  PROVE  Ends(s, Tail(t))
<1>1. Len(s) \in Nat /\ Len(t) \in Nat /\ t # <<>>
  OBVIOUS
<1> DEFINE u == Tail(t)
<1>2. Len(u) = Len(t) - 1 /\ \A i \in 1 .. Len(u) : u[i] = t[i + 1]
  BY <1>1
<1> HIDE DEF u
<1>3. ASSUME NEW i \in 1 .. Len(s) PROVE s[i] = u[Len(u) - Len(s) + i]
  <2>1. Len(u) - Len(s) + i \in 1 .. Len(u)
        /\ Len(u) - Len(s) + i + 1 = Len(t) - Len(s) + i
    BY <1>1, <1>2
  <2>2. s[i] = t[Len(t) - Len(s) + i]
    BY DEF Ends
  <2>3. QED BY <1>2, <2>1, <2>2
<1>4. QED BY <1>1, <1>2, <1>3 DEF Ends, u

LEMMA EndsAppend ==
  ASSUME NEW S, NEW s \in Seq(S), NEW t \in Seq(S), NEW x \in S, Ends(s, t)
  PROVE  Ends(Append(s, x), Append(t, x))
<1> DEFINE a == Append(s, x)
           b == Append(t, x)
           m == Len(s)
           n == Len(t)
<1>1. /\ m \in Nat /\ n \in Nat /\ Len(a) = m + 1 /\ Len(b) = n + 1
      /\ \A i \in 1 .. m : a[i] = s[i]
      /\ \A i \in 1 .. n : b[i] = t[i]
      /\ a[m + 1] = x /\ b[n + 1] = x
  OBVIOUS
<1>2. m <= n /\ \A i \in 1 .. m : s[i] = t[n - m + i]
  BY DEF Ends
<1> HIDE DEF a, b, m, n
<1>3. ASSUME NEW i \in 1 .. m + 1 PROVE a[i] = b[n + 1 - (m + 1) + i]
  <2>1. CASE i = m + 1
    <3>1. n + 1 - (m + 1) + i = n + 1
      BY <1>1, <2>1
    <3>2. QED BY <1>1, <2>1, <3>1
  <2>2. CASE i # m + 1
    <3>1. i \in 1 .. m /\ n + 1 - (m + 1) + i = n - m + i /\ n - m + i \in 1 .. n
      BY <1>1, <1>2, <2>2
    <3>2. QED BY <1>1, <1>2, <3>1
  <2>3. QED BY <2>1, <2>2
<1>4. Ends(a, b)
  BY <1>1, <1>2, <1>3 DEF Ends
<1>5. QED BY <1>4 DEF a, b

\* What is kept of the tail is the end of what is kept.
LEMMA KeptTail ==
  ASSUME NEW S, NEW s \in Seq(S), s # <<>>, NEW W
  PROVE  Ends(Kept(Tail(s), W), Kept(s, W))
<1> DEFINE t == Tail(s)
<1>1. /\ t \in Seq(S) /\ Len(t) = Len(s) - 1 /\ Len(s) \in Nat \ {0} /\ Len(t) \in Nat
      /\ \A i \in 1 .. Len(t) : t[i] = s[i + 1]
  OBVIOUS
<1> HIDE DEF t
<1>2. PICK F \in [0 .. Len(s) -> Seq(S)] : Filters(F, s, W) /\ Kept(s, W) = F[Len(s)]
  BY KeptFilters
<1>3. PICK G \in [0 .. Len(t) -> Seq(S)] : Filters(G, t, W) /\ Kept(t, W) = G[Len(t)]
  <2>1. t \in Seq(S)
    BY <1>1
  <2>2. QED BY <2>1, KeptFilters
<1> DEFINE U == {n \in Nat : n <= Len(t) => Ends(G[n], F[n + 1])}
<1>4. 0 \in U
  <2>1. 1 \in 1 .. Len(s) /\ 1 - 1 = 0 /\ 0 \in 0 .. Len(s)
    BY <1>1
  <2>2. F[1] \in Seq(S) /\ G[0] = <<>>
    <3>1. 1 \in 0 .. Len(s)
      BY <1>1
    <3>2. F[1] \in Seq(S)
      BY <1>2, <3>1
    <3>3. QED BY <1>3, <3>2 DEF Filters
  <2>3. Ends(<<>>, F[1])
    <3>1. Len(<<>>) = 0 /\ Len(F[1]) \in Nat
      BY <2>2
    <3>2. QED BY <3>1 DEF Ends
  <2>4. QED BY <2>2, <2>3
<1>5. ASSUME NEW n \in U PROVE n + 1 \in U
  <2>1. SUFFICES ASSUME n + 1 <= Len(t) PROVE Ends(G[n + 1], F[n + 1 + 1])
    OBVIOUS
  <2>2. /\ n + 1 \in 1 .. Len(t) /\ n + 1 - 1 = n /\ n \in 0 .. Len(t)
        /\ n + 1 + 1 \in 1 .. Len(s) /\ n + 1 + 1 - 1 = n + 1 /\ n + 1 \in 0 .. Len(s)
    BY <1>1, <2>1
  <2>3. Ends(G[n], F[n + 1]) /\ G[n] \in Seq(S) /\ F[n + 1] \in Seq(S)
    BY <2>1, <2>2
  <2>4. /\ G[n + 1] = IF t[n + 1] \in W THEN Append(G[n], t[n + 1]) ELSE G[n]
        /\ F[n + 1 + 1] = IF s[n + 1 + 1] \in W THEN Append(F[n + 1], s[n + 1 + 1]) ELSE F[n + 1]
    BY <1>2, <1>3, <2>2 DEF Filters
  <2>5. t[n + 1] = s[n + 1 + 1] /\ t[n + 1] \in S
    BY <1>1, <2>2
  <2>6. CASE t[n + 1] \in W
    BY <2>3, <2>4, <2>5, <2>6, EndsAppend
  <2>7. CASE t[n + 1] \notin W
    BY <2>3, <2>4, <2>5, <2>7
  <2>8. QED BY <2>6, <2>7
<1>6. U = Nat
  <2>1. U \in SUBSET Nat
    OBVIOUS
  <2> HIDE DEF U
  <2>2. QED BY <1>4, <1>5, <2>1, Induction
<1>7. Ends(G[Len(t)], F[Len(t) + 1]) /\ Len(t) + 1 = Len(s)
  BY <1>1, <1>6
<1>8. QED BY <1>2, <1>3, <1>7 DEF t

-----------------------------------------------------------------------------
(* What the steps do to the three channels. *)

\* A step of the server publishes at most one event and leaves the pages alone.
ServerStep ==
  /\ UNCHANGED <<bound, queryVars, page, entries, dialog, accepted>>
  /\ \/ \E k \in Kind : Publish(k)
     \/ UNCHANGED <<published, socketVars>>

LEMMA ServerSteps ==
  ASSUME Bounded(Server)
  PROVE  ServerStep
<1>1. bound' = bound
  BY DEF Bounded
<1>2. ASSUME NEW s, NEW k, SetState(s, k)
      PROVE  \E x \in Kind : Publish(x)
  BY <1>2 DEF SetState, Kind
<1>3. CASE SupervisorMoves
  <2>1. \E x \in Kind : Publish(x)
    BY <1>2, <1>3 DEF SupervisorMoves
  <2>2. QED BY <1>1, <1>3, <2>1 DEF SupervisorMoves, ServerStep, pageVars
<1>4. CASE OtherEvent
  BY <1>1, <1>4 DEF OtherEvent, ServerStep, pageVars, Kind
<1>5. CASE OtherHandshake
  BY <1>1, <1>5 DEF OtherHandshake, ServerStep, pageVars
<1>6. CASE EngineProceeds
  <2>1. \E x \in Kind : Publish(x)
    BY <1>2, <1>6 DEF EngineProceeds
  <2>2. QED BY <1>1, <1>6, <2>1 DEF EngineProceeds, ServerStep
<1>7. ASSUME NEW i \in DOMAIN calls, HandleStart(i)
      PROVE  ServerStep
  <2>1. (\E x \in Kind : Publish(x)) \/ UNCHANGED <<published, socketVars>>
    BY <1>2, <1>7 DEF HandleStart
  <2>2. QED BY <1>1, <1>7, <2>1 DEF HandleStart, ServerStep
<1>8. ASSUME NEW i \in DOMAIN calls, HandleStop(i)
      PROVE  ServerStep
  <2>1. (\E x \in Kind : Publish(x)) \/ UNCHANGED <<published, socketVars>>
    BY <1>2, <1>8 DEF HandleStop
  <2>2. QED BY <1>1, <1>8, <2>1 DEF HandleStop, ServerStep
<1>9. ASSUME NEW i \in DOMAIN calls, HandleTrust(i) \/ HandleRevoke(i) \/ HandleTest(i)
      PROVE  ServerStep
  BY <1>1, <1>9 DEF HandleTrust, HandleRevoke, HandleTest, ServerStep
<1>10. Server
  BY DEF Bounded
<1>11. QED BY <1>3, <1>4, <1>5, <1>6, <1>7, <1>8, <1>9, <1>10 DEF Server

-----------------------------------------------------------------------------
(* The calls. *)

\* A call to trust a key names one the user accepted.
Trusty(cs, seen) ==
  /\ cs \in Seq(Call)
  /\ \A i \in 1 .. Len(cs) : cs[i].op = "trust" => cs[i].key \in seen

LEMMA Resettled ==
  ASSUME NEW cs, NEW seen, Trusty(cs, seen), NEW f, f = [i \in DOMAIN cs |-> f[i]],
         \A i \in DOMAIN cs : /\ f[i] \in Call /\ f[i].op = cs[i].op
                              /\ cs[i].op = "trust" => f[i].key = cs[i].key
  PROVE  Trusty(f, seen)
<1>1. cs \in Seq(Call) /\ Len(cs) \in Nat /\ DOMAIN cs = 1 .. Len(cs)
  BY DEF Trusty
<1>2. f \in [1 .. Len(cs) -> Call]
  BY <1>1
<1>3. f \in Seq(Call) /\ Len(f) = Len(cs)
  BY <1>1, <1>2
<1>4. QED BY <1>1, <1>3 DEF Trusty

LEMMA PhaseChanged ==
  ASSUME NEW cs, NEW seen, Trusty(cs, seen), NEW n,
         NEW p \in {"sent", "ok", "refused", "over"}
  PROVE  Trusty([cs EXCEPT ![n].phase = p], seen)
<1> DEFINE f == [cs EXCEPT ![n].phase = p]
<1>1. \A i \in DOMAIN cs : cs[i] \in Call
  BY LenProperties, ElementOfSeq DEF Trusty
<1>2. f = [i \in DOMAIN cs |-> f[i]]
  OBVIOUS
<1>3. ASSUME NEW i \in DOMAIN cs
      PROVE  /\ f[i] \in Call /\ f[i].op = cs[i].op
             /\ cs[i].op = "trust" => f[i].key = cs[i].key
  BY <1>1 DEF Call
<1> HIDE DEF f
<1>4. Trusty(f, seen)
  BY <1>2, <1>3, Resettled
<1>5. QED BY <1>4 DEF f

LEMMA CallMade ==
  ASSUME NEW cs, NEW seen, Trusty(cs, seen), NEW c \in Call,
         c.op = "trust" => c.key \in seen
  PROVE  Trusty(Append(cs, c), seen)
<1>1. cs \in Seq(Call)
  BY DEF Trusty
<1>2. /\ Append(cs, c) \in Seq(Call) /\ Len(Append(cs, c)) = Len(cs) + 1
      /\ Len(cs) \in Nat
      /\ \A i \in 1 .. Len(cs) : Append(cs, c)[i] = cs[i]
      /\ Append(cs, c)[Len(cs) + 1] = c
  BY <1>1, AppendFacts
<1>3. ASSUME NEW i \in 1 .. Len(Append(cs, c)), Append(cs, c)[i].op = "trust"
      PROVE  Append(cs, c)[i].key \in seen
  <2>1. CASE i \in 1 .. Len(cs)
    BY <1>2, <1>3, <2>1 DEF Trusty
  <2>2. CASE i = Len(cs) + 1
    BY <1>2, <1>3, <2>2
  <2>3. QED BY <1>2, <2>1, <2>2
<1>4. QED BY <1>2, <1>3 DEF Trusty

LEMMA NewCall ==
  ASSUME NEW op \in Op, NEW k \in Key \cup {NoKey}, NEW m \in BOOLEAN
  PROVE  /\ [op |-> op, key |-> k, phase |-> "sent", mine |-> m] \in Call
         /\ [op |-> op, key |-> k, phase |-> "sent", mine |-> m].op = op
         /\ [op |-> op, key |-> k, phase |-> "sent", mine |-> m].key = k
BY DEF Call

Trust == Trusty(calls, accepted) /\ TrustedWasShown

LEMMA StillTrusty ==
  ASSUME NEW cs, NEW seen, Trusty(cs, seen), NEW more, seen \subseteq more
  PROVE  Trusty(cs, more)
BY DEF Trusty

LEMMA TrustStep ==
  ASSUME Typed, Trust, [Next]_vars
  PROVE  Trust'
<1>1. Trusty(calls, accepted) /\ (trusted # NoKey => trusted \in accepted)
  BY DEF Trust, TrustedWasShown
<1>2. calls \in Seq(Call) /\ Len(calls) \in Nat /\ DOMAIN calls = 1 .. Len(calls)
      /\ \A i \in DOMAIN calls : calls[i] \in Call
  BY <1>1, ElementOfSeq DEF Trusty
<1>3. bound.keys \in SUBSET Key
  BY ConsoleConstants DEF Typed
<1>4. ASSUME Trusty(calls', accepted), accepted' = accepted, trusted' \in {trusted, NoKey}
      PROVE  Trust'
  BY <1>1, <1>4 DEF Trust, TrustedWasShown
<1>5. ASSUME NEW n, NEW p \in {"sent", "ok", "refused", "over"}, Settle(n, p),
             accepted' = accepted, trusted' \in {trusted, NoKey}
      PROVE  Trust'
  <2>1. Trusty(calls', accepted)
    BY <1>1, <1>5, PhaseChanged DEF Settle
  <2>2. QED BY <1>4, <1>5, <2>1
<1>6. CASE UNCHANGED <<calls, accepted, trusted>>
  BY <1>1, <1>4, <1>6
<1>7. CASE SupervisorMoves \/ OtherEvent \/ OtherHandshake
  BY <1>6, <1>7 DEF SupervisorMoves, OtherEvent, OtherHandshake, pageVars
<1>8. CASE EngineProceeds
  BY <1>5, <1>6, <1>8 DEF EngineProceeds
<1>9. ASSUME NEW i \in DOMAIN calls, HandleStart(i) \/ HandleStop(i) \/ HandleRevoke(i)
      PROVE  Trust'
  BY <1>5, <1>6, <1>9 DEF HandleStart, HandleStop, HandleRevoke
<1>10. ASSUME NEW i \in DOMAIN calls, HandleTrust(i)
       PROVE  Trust'
  <2>1. CASE Matches(i)
    <3>1. pending # NoKey /\ pending = calls[i].key /\ calls[i].op = "trust"
      BY <1>10, <2>1 DEF HandleTrust, Matches
    <3>2. pending \in accepted
      BY <1>1, <1>2, <1>10, <3>1 DEF Trusty
    <3>3. Settle(i, "ok") /\ trusted' = pending /\ accepted' = accepted
      BY <1>10, <2>1 DEF HandleTrust
    <3>4. Trusty(calls', accepted)
      BY <1>1, <3>3, PhaseChanged DEF Settle
    <3>5. QED BY <3>2, <3>3, <3>4 DEF Trust, TrustedWasShown
  <2>2. CASE ~Matches(i)
    BY <1>5, <1>10, <2>2 DEF HandleTrust
  <2>3. QED BY <2>1, <2>2
<1>11. ASSUME NEW i \in DOMAIN calls, HandleTest(i)
       PROVE  Trust'
  <2>1. PICK k \in Key \cup {NoKey} :
          calls' = [calls EXCEPT ![i].phase = "ok", ![i].key = k]
    BY <1>3, <1>11 DEF HandleTest
  <2>2. calls[i].op = "test" /\ accepted' = accepted /\ trusted' = trusted
    BY <1>11 DEF HandleTest
  <2>3. calls' = [j \in DOMAIN calls |-> calls'[j]]
    BY <2>1
  <2>4. ASSUME NEW j \in DOMAIN calls
        PROVE  /\ calls'[j] \in Call /\ calls'[j].op = calls[j].op
               /\ calls[j].op = "trust" => calls'[j].key = calls[j].key
    BY <1>2, <2>1, <2>2 DEF Call
  <2>5. Trusty(calls', accepted)
    BY <1>1, <2>3, <2>4, Resettled
  <2>6. QED BY <1>4, <2>2, <2>5
<1>12. ASSUME NEW p, Navigate(p)
       PROVE  Trust'
  <2>1. calls' = [i \in DOMAIN calls |-> [calls[i] EXCEPT !.mine = FALSE]]
        /\ accepted' = accepted /\ trusted' = trusted
    BY <1>12 DEF Navigate, serverVars
  <2>2. calls' = [j \in DOMAIN calls |-> calls'[j]]
    BY <2>1
  <2>3. ASSUME NEW j \in DOMAIN calls
        PROVE  /\ calls'[j] \in Call /\ calls'[j].op = calls[j].op
               /\ calls[j].op = "trust" => calls'[j].key = calls[j].key
    BY <1>2, <2>1 DEF Call
  <2>4. Trusty(calls', accepted)
    BY <1>1, <2>2, <2>3, Resettled
  <2>5. QED BY <1>4, <2>1, <2>4
<1>13. ASSUME NEW op \in Op, NEW k \in Key \cup {NoKey}, calls' = Made(op, k),
              accepted \subseteq accepted', op = "trust" => k \in accepted',
              trusted' = trusted
       PROVE  Trust'
  <2>1. Trusty(calls, accepted')
    BY <1>1, <1>13, StillTrusty
  <2> DEFINE c == [op |-> op, key |-> k, phase |-> "sent", mine |-> TRUE]
  <2>2. c \in Call /\ c.op = op /\ c.key = k
    BY <1>13, NewCall
  <2>3. calls' = Append(calls, c)
    BY <1>13 DEF Made
  <2> HIDE DEF c
  <2>4. Trusty(calls', accepted')
    BY <1>13, <2>1, <2>2, <2>3, CallMade
  <2>5. QED BY <1>1, <1>13, <2>4 DEF Trust, TrustedWasShown
<1>14. CASE ClickControl
  <2>1. PICK op \in Op : calls' = Made(op, NoKey) /\ (CardOffers(op) \/ HeaderOffers(op))
    BY <1>14 DEF ClickControl
  <2>2. op # "trust"
    BY <2>1 DEF CardOffers, HeaderOffers
  <2>3. accepted' = accepted /\ trusted' = trusted
    BY <1>14 DEF ClickControl, serverVars
  <2>4. QED BY <1>13, <2>1, <2>2, <2>3
<1>15. CASE ClickTrust
  <2>1. dialog \in Key \cup {NoKey}
    BY DEF Typed
  <2>2. calls' = Made("trust", dialog) /\ accepted' = accepted \cup {dialog}
        /\ trusted' = trusted
    BY <1>15 DEF ClickTrust, Confirmed, serverVars
  <2>3. QED BY <1>13, <2>1, <2>2 DEF Op
<1>16. CASE ClickRevoke \/ ClickTest
  <2>1. PICK op \in {"revoke", "test"} : calls' = Made(op, NoKey)
    BY <1>16 DEF ClickRevoke, ClickTest
  <2>2. accepted' = accepted /\ trusted' = trusted
    BY <1>16 DEF ClickRevoke, ClickTest, serverVars
  <2>3. QED BY <1>13, <2>1, <2>2 DEF Op
<1>17. ASSUME NEW i \in DOMAIN calls, CallReturns(i)
       PROVE  Trust'
  <2> DEFINE done == [calls EXCEPT ![i].phase = "over"]
  <2>1. Trusty(done, accepted)
    BY <1>1, PhaseChanged
  <2>2. accepted' = accepted /\ trusted' = trusted
    BY <1>17 DEF CallReturns, serverVars
  <2>3. calls' = done \/ \E op \in {"test", "start"} :
          calls' = Append(done, [op |-> op, key |-> NoKey, phase |-> "sent", mine |-> TRUE])
    BY <1>17 DEF CallReturns
  <2> HIDE DEF done
  <2>4. ASSUME NEW op \in {"test", "start"}
        PROVE  Trusty(Append(done, [op |-> op, key |-> NoKey, phase |-> "sent",
                                    mine |-> TRUE]), accepted)
    <3> DEFINE c == [op |-> op, key |-> NoKey, phase |-> "sent", mine |-> TRUE]
    <3>1. c \in Call /\ c.op = op
      BY NewCall DEF Op
    <3> HIDE DEF c
    <3>2. Trusty(Append(done, c), accepted)
      BY <2>1, <3>1, CallMade
    <3>3. QED BY <3>2 DEF c
  <2>5. Trusty(calls', accepted)
    BY <2>1, <2>3, <2>4
  <2>6. QED BY <1>4, <2>2, <2>5
<1>18. CASE StatusAnswered \/ StatusArrives \/ StatusFails \/ Poll \/ Refocus
            \/ Connect \/ Accepted \/ Closed \/ OnMessage \/ OpenDialog \/ CloseDialog
  BY <1>6, <1>18 DEF StatusAnswered, StatusArrives, StatusFails, Poll, Refocus, Connect,
                     Accepted, Closed, OnMessage, OpenDialog, CloseDialog, pageVars,
                     serverVars
<1>19. CASE UNCHANGED vars
  BY <1>6, <1>19 DEF vars, pageVars, serverVars
<1>20. QED BY <1>7, <1>8, <1>9, <1>10, <1>11, <1>12, <1>14, <1>15, <1>16, <1>17, <1>18,
              <1>19
           DEF Next, Bounded, Server, Browser, User

-----------------------------------------------------------------------------
(* The types the other parts rest on. *)

LEMMA InvalidatedType ==
  ASSUME fetch = "answered" => reply \in Answer, Invalidated
  PROVE  fetch' = "answered" => reply' \in Answer
<1>1. fetch' = "answered" => fetch = "answered"
  BY DEF Invalidated, Refetch
<1>2. QED BY <1>1 DEF Invalidated

LEMMA TypedStep ==
  ASSUME Typed, Trust, published \in Seq(Kind), [Next]_vars
  PROVE  Typed'
<1>1. bound \in Bounds /\ bound.keys \in SUBSET Key
  BY ConsoleConstants DEF Typed
<1>2. /\ server \in Status
      /\ pending \in Key \cup {NoKey} /\ dialog \in Key \cup {NoKey}
      /\ shown # NoStatus => shown \in Answer
      /\ fetch = "answered" => reply \in Answer
  BY DEF Typed
<1>3. \A i \in DOMAIN calls : calls[i] \in Call
  BY LenProperties, ElementOfSeq DEF Trust, Trusty
<1>4. CASE UNCHANGED <<bound, server, pending, dialog, queryVars>>
  BY <1>4 DEF Typed, queryVars
<1>5. CASE Bounded(Server)
  <2>1. bound' = bound /\ dialog' = dialog /\ UNCHANGED queryVars
    BY <1>5, ServerSteps DEF ServerStep
  <2>2. ASSUME NEW s \in State, NEW k \in Key \cup {NoKey}, SetState(s, k)
        PROVE  server' \in Status
    BY <2>2 DEF SetState, Status
  <2>3. server.hostKey \in Key \cup {NoKey} /\ [server EXCEPT !.hostKey = NoKey] \in Status
    BY <1>2 DEF Status
  <2>4. server' \in Status /\ pending' \in Key \cup {NoKey}
    <3>1. CASE SupervisorMoves
      <4>1. \E s \in State, k \in Key \cup {NoKey} : SetState(s, k)
        BY <1>1, <3>1 DEF SupervisorMoves, State
      <4>2. pending' \in Key \cup {NoKey}
        BY <1>1, <1>2, <3>1 DEF SupervisorMoves
      <4>3. QED BY <2>2, <4>1, <4>2
    <3>2. CASE OtherEvent \/ OtherHandshake
      BY <1>1, <1>2, <3>2 DEF OtherEvent, OtherHandshake
    <3>3. CASE EngineProceeds
      <4>1. (\E s \in State : SetState(s, NoKey)) /\ pending' = pending
        BY <3>3 DEF EngineProceeds, State
      <4>2. QED BY <1>2, <2>2, <4>1
    <3>4. ASSUME NEW i \in DOMAIN calls, HandleStart(i)
          PROVE  server' \in Status /\ pending' \in Key \cup {NoKey}
      <4>1. server' = server \/ SetState("starting", server.hostKey)
        BY <3>4 DEF HandleStart
      <4>2. "starting" \in State /\ pending' = pending
        BY <3>4 DEF HandleStart, State
      <4>3. QED BY <1>2, <2>2, <2>3, <4>1, <4>2
    <3>5. ASSUME NEW i \in DOMAIN calls, HandleStop(i)
          PROVE  server' \in Status /\ pending' \in Key \cup {NoKey}
      <4>1. server' = [server EXCEPT !.hostKey = NoKey]
            \/ SetState("stopping", server.hostKey)
        BY <3>5 DEF HandleStop
      <4>2. "stopping" \in State /\ pending' = pending
        BY <3>5 DEF HandleStop, State
      <4>3. QED BY <1>2, <2>2, <2>3, <4>1, <4>2
    <3>6. ASSUME NEW i \in DOMAIN calls, HandleTrust(i) \/ HandleRevoke(i) \/ HandleTest(i)
          PROVE  server' \in Status /\ pending' \in Key \cup {NoKey}
      BY <1>1, <1>2, <3>6 DEF HandleTrust, HandleRevoke, HandleTest
    <3>7. QED BY <1>5, <3>1, <3>2, <3>3, <3>4, <3>5, <3>6 DEF Bounded, Server
  <2>5. QED BY <1>2, <2>1, <2>4 DEF Typed, queryVars
<1>6. ASSUME bound' = bound, UNCHANGED serverVars, dialog' \in Key \cup {NoKey},
             shown' # NoStatus => shown' \in Answer,
             fetch' = "answered" => reply' \in Answer
      PROVE  Typed'
  BY <1>1, <1>2, <1>6 DEF Typed, serverVars
<1>7. CASE Bounded(StatusAnswered)
  <2>1. Len(published) \in Nat
    OBVIOUS
  <2>2. reply' \in Answer
    BY <1>2, <1>7, <2>1 DEF Bounded, StatusAnswered, Answer, Status
  <2>3. QED BY <1>2, <1>6, <1>7, <2>2 DEF Bounded, StatusAnswered, pageVars
<1>8. CASE Bounded(StatusArrives)
  BY <1>2, <1>6, <1>8 DEF Bounded, StatusArrives, pageVars
<1>9. CASE Bounded(StatusFails \/ Poll \/ Refocus)
  BY <1>2, <1>6, <1>9 DEF Bounded, StatusFails, Poll, Refocus, pageVars
<1>10. CASE Bounded(Connect \/ Accepted \/ Closed)
  BY <1>4, <1>10 DEF Bounded, Connect, Accepted, Closed, pageVars, serverVars
<1>11. CASE Bounded(OnMessage)
  <2>1. fetch' = "answered" => reply' \in Answer
    BY <1>2, <1>11, InvalidatedType DEF Bounded, OnMessage
  <2>2. QED BY <1>2, <1>6, <1>11, <2>1 DEF Bounded, OnMessage
<1>12. ASSUME NEW p, Bounded(Navigate(p))
       PROVE  Typed'
  <2>1. fetch' = "answered" => reply' \in Answer
    BY <1>2, <1>12 DEF Bounded, Navigate
  <2>2. QED BY <1>2, <1>6, <1>12, <2>1 DEF Bounded, Navigate
<1>13. CASE Bounded(OpenDialog)
  <2>1. shown # NoStatus /\ dialog' = shown.hostKey
    BY <1>13 DEF Bounded, OpenDialog, ShownState
  <2>2. dialog' \in Key \cup {NoKey}
    BY <1>2, <2>1 DEF Answer
  <2>3. QED BY <1>2, <1>6, <1>13, <2>2 DEF Bounded, OpenDialog, queryVars
<1>14. CASE Bounded(CloseDialog)
  BY <1>2, <1>6, <1>14 DEF Bounded, CloseDialog, queryVars
<1>15. CASE Bounded(ClickControl \/ ClickTrust \/ ClickRevoke \/ ClickTest)
  BY <1>4, <1>15 DEF Bounded, ClickControl, ClickTrust, ClickRevoke, ClickTest, serverVars
<1>16. ASSUME NEW i \in DOMAIN calls, Bounded(CallReturns(i))
       PROVE  Typed'
  <2>1. calls[i].key \in Key \cup {NoKey}
    BY <1>3 DEF Call
  <2>2. dialog' \in {NoKey, calls[i].key, dialog}
    BY <1>16 DEF Bounded, CallReturns
  <2>3. fetch' = "answered" => reply' \in Answer
    BY <1>2, <1>16, InvalidatedType DEF Bounded, CallReturns
  <2>4. QED BY <1>2, <1>6, <1>16, <2>1, <2>2, <2>3 DEF Bounded, CallReturns
<1>17. CASE UNCHANGED vars
  BY <1>4, <1>17 DEF vars, serverVars, pageVars
<1>18. QED BY <1>5, <1>7, <1>8, <1>9, <1>10, <1>11, <1>12, <1>13, <1>14, <1>15, <1>16,
              <1>17
           DEF Next, Bounded, Browser, User

-----------------------------------------------------------------------------
(* The channels. *)

\* What the socket remembers and what is on its way are events that were
\* published, each later than the one before it.
Ordered ==
  /\ published \in Seq(Kind)
  /\ wire \in Seq(Nat) /\ buffer \in Seq(Nat)
  /\ Increasing(buffer) /\ Increasing(wire) /\ Before(buffer, wire)
  /\ Below(buffer, Len(published)) /\ Below(wire, Len(published))
  /\ link # "up" => wire = <<>>
  /\ link = "dialling" => buffer = <<>>

LEMMA NoEvents ==
  /\ <<>> \in Seq(Nat) /\ Len(<<>>) = 0 /\ Increasing(<<>>)
  /\ \A n \in Nat : Below(<<>>, n)
  /\ \A t \in Seq(Nat) : Before(<<>>, t) /\ Before(t, <<>>)
BY DEF Increasing, Below, Before

LEMMA PublishOrdered ==
  ASSUME Ordered, NEW k \in Kind, Publish(k)
  PROVE  Ordered'
<1> DEFINE n == Len(published)
<1>1. n \in Nat /\ published' \in Seq(Kind) /\ Len(published') = n + 1
  BY AppendFacts, LenProperties DEF Ordered, Publish
<1>2. wire' \in {wire, Append(wire, n + 1)}
      /\ buffer' = buffer /\ link' = link /\ (link # "up" => wire' = wire)
  BY DEF Publish
<1> HIDE DEF n
<1>3. Below(buffer, n) /\ Below(wire, n)
  BY DEF Ordered, n
<1>4. Below(buffer, n + 1) /\ Below(wire, n + 1)
  BY <1>1, <1>3 DEF Below, Ordered
<1>5. CASE wire' = wire
  BY <1>1, <1>2, <1>4, <1>5 DEF Ordered
<1>6. CASE wire' = Append(wire, n + 1)
  <2>1. (\A i \in 1 .. Len(wire) : wire[i] < n + 1)
        /\ (\A i \in 1 .. Len(buffer) : buffer[i] < n + 1)
    BY <1>1, <1>3 DEF Below, Ordered
  <2>2. n + 1 \in Nat /\ 1 <= n + 1 /\ n + 1 <= n + 1
    BY <1>1
  <2>3. wire \in Seq(Nat) /\ buffer \in Seq(Nat) /\ Increasing(wire) /\ Before(buffer, wire)
    BY DEF Ordered
  <2>4. /\ Append(wire, n + 1) \in Seq(Nat)
        /\ Increasing(Append(wire, n + 1))
        /\ Below(Append(wire, n + 1), n + 1)
        /\ Before(buffer, Append(wire, n + 1))
    BY <1>4, <2>1, <2>2, <2>3, AppendOrdered, AppendFacts
  <2>5. link' = "up" \/ wire' = <<>>
    BY <1>2 DEF Ordered
  <2>6. QED BY <1>1, <1>2, <1>4, <1>6, <2>4, <2>5 DEF Ordered
<1>7. QED BY <1>2, <1>5, <1>6

LEMMA AcceptedOrdered ==
  ASSUME Ordered, Accepted
  PROVE  Ordered'
<1> DEFINE n == Len(published)
           m == IF n < RecentCap THEN n ELSE RecentCap
           skip == IF n < RecentCap THEN 0 ELSE n - RecentCap
<1>1. n \in Nat /\ RecentCap \in Nat
  BY LenProperties, ConsoleConstants DEF Ordered
<1>2. m \in Nat /\ skip \in Nat /\ skip + m = n
  BY <1>1
<1>3. wire' = [j \in 1 .. m |-> skip + j] /\ link' = "up" /\ buffer' = buffer
      /\ published' = published
  BY DEF Accepted, serverVars
<1>4. buffer = <<>> /\ published \in Seq(Kind)
  BY DEF Accepted, Ordered
<1>5. Len(published') = n
  BY <1>3
<1> HIDE DEF m, skip, n
<1>6. wire' \in [1 .. m -> Nat]
  BY <1>2, <1>3
<1>7. wire' \in Seq(Nat) /\ Len(wire') = m
  BY <1>2, <1>6
<1>8. Increasing(wire') /\ Below(wire', n)
  BY <1>2, <1>3, <1>7 DEF Increasing, Below
<1>9. Increasing(buffer') /\ Before(buffer', wire') /\ Below(buffer', n)
      /\ buffer' \in Seq(Nat)
  BY <1>1, <1>3, <1>4, <1>7, NoEvents DEF n
<1>10. QED BY <1>3, <1>4, <1>5, <1>7, <1>8, <1>9 DEF Ordered

LEMMA OnMessageOrdered ==
  ASSUME Ordered, OnMessage
  PROVE  /\ Ordered'
         /\ \A i \in 1 .. Len(buffer') :
              buffer'[i] = Head(wire) \/ \E j \in 1 .. Len(buffer) : buffer'[i] = buffer[j]
<1> DEFINE e == Head(wire)
           b == Append(buffer, e)
<1>1. /\ link = "up" /\ wire # <<>> /\ wire' = Tail(wire) /\ buffer' = LastOnes(b)
      /\ published' = published /\ link' = link
  BY DEF OnMessage, serverVars
<1>2. /\ wire \in Seq(Nat) /\ buffer \in Seq(Nat) /\ published \in Seq(Kind)
      /\ Increasing(buffer) /\ Increasing(wire) /\ Before(buffer, wire)
      /\ Below(buffer, Len(published)) /\ Below(wire, Len(published))
      /\ Len(published) \in Nat
  BY LenProperties DEF Ordered
<1>3. /\ Tail(wire) \in Seq(Nat) /\ Len(Tail(wire)) = Len(wire) - 1
      /\ Len(wire) \in Nat \ {0} /\ e = wire[1] /\ e \in Nat
      /\ \A i \in 1 .. Len(Tail(wire)) : Tail(wire)[i] = wire[i + 1]
  BY <1>1, <1>2, TailFacts
<1> DEFINE w == Tail(wire)
<1>4. w \in Seq(Nat) /\ Increasing(w) /\ Below(w, Len(published)) /\ Before(buffer, w)
  BY <1>1, <1>2, TailOrdered
<1> HIDE DEF e, w, b
<1>5. 1 \in 1 .. Len(wire) /\ \A j \in 1 .. Len(w) : j + 1 \in 1 .. Len(wire) /\ 1 < j + 1
  BY <1>3 DEF w
<1>6. \A j \in 1 .. Len(w) : e < w[j]
  BY <1>2, <1>3, <1>5 DEF Increasing, w
<1>7. (\A i \in 1 .. Len(buffer) : buffer[i] < e) /\ 1 <= e /\ e <= Len(published)
  BY <1>2, <1>3, <1>5 DEF Before, Below
<1>8. b \in Seq(Nat) /\ Increasing(b) /\ Below(b, Len(published)) /\ Before(b, w)
  <2>1. Append(buffer, e) \in Seq(Nat) /\ Increasing(Append(buffer, e))
    BY <1>2, <1>3, <1>7, AppendOrdered, AppendFacts
  <2>2. Below(Append(buffer, e), Len(published))
    BY <1>2, <1>3, <1>7, AppendOrdered
  <2>3. Before(Append(buffer, e), w)
    BY <1>2, <1>3, <1>4, <1>6, AppendOrdered
  <2>4. QED BY <2>1, <2>2, <2>3 DEF b
<1>9. \A i \in 1 .. Len(b) : b[i] = e \/ \E j \in 1 .. Len(buffer) : b[i] = buffer[j]
  BY <1>2, <1>3, AppendFacts DEF b
<1> DEFINE l == LastOnes(b)
<1>10. l \in Seq(Nat) /\ (l = b \/ (b # <<>> /\ l = Tail(b)))
  BY <1>8, LastOnesFacts
<1> HIDE DEF l
<1>11. Increasing(l) /\ Below(l, Len(published)) /\ Before(l, w)
  <2>1. CASE l = b
    BY <1>8, <2>1
  <2>2. CASE b # <<>> /\ l = Tail(b)
    BY <1>2, <1>4, <1>8, <2>2, TailOrdered
  <2>3. QED BY <1>10, <2>1, <2>2
<1>12. \A i \in 1 .. Len(l) : l[i] = e \/ \E j \in 1 .. Len(buffer) : l[i] = buffer[j]
  <2>1. CASE l = b
    BY <1>9, <2>1
  <2>2. CASE b # <<>> /\ l = Tail(b)
    <3>1. /\ Len(l) = Len(b) - 1 /\ Len(b) \in Nat
          /\ \A i \in 1 .. Len(l) : l[i] = b[i + 1]
      BY <1>8, <2>2, TailFacts
    <3>2. \A i \in 1 .. Len(l) : i + 1 \in 1 .. Len(b)
      BY <3>1
    <3>3. QED BY <1>9, <3>1, <3>2
  <2>3. QED BY <1>10, <2>1, <2>2
<1>13. wire' = w /\ buffer' = l
  BY <1>1 DEF w, l
<1>14. Ordered'
  BY <1>1, <1>2, <1>4, <1>10, <1>11, <1>13 DEF Ordered
<1>15. QED BY <1>12, <1>13, <1>14 DEF e

LEMMA OrderedStep ==
  ASSUME Ordered, [Next]_vars
  PROVE  Ordered'
<1>1. CASE UNCHANGED <<published, socketVars>>
  BY <1>1 DEF Ordered, socketVars
<1>2. CASE Bounded(Server)
  <2>1. (\E k \in Kind : Publish(k)) \/ UNCHANGED <<published, socketVars>>
    BY <1>2, ServerSteps DEF ServerStep
  <2>2. QED BY <1>1, <2>1, PublishOrdered
<1>3. CASE Connect
  <2>1. /\ link = "down" /\ link' = "dialling" /\ buffer' = <<>>
        /\ published' = published /\ wire' = wire
    BY <1>3 DEF Connect, OnConnect, serverVars
  <2>2. wire = <<>> /\ Len(published) \in Nat
    BY <2>1, LenProperties DEF Ordered
  <2>3. QED BY <2>1, <2>2, NoEvents DEF Ordered
<1>4. CASE Accepted
  BY <1>4, AcceptedOrdered
<1>5. CASE Closed
  <2>1. /\ link' = "down" /\ wire' = <<>> /\ buffer' = buffer /\ published' = published
    BY <1>5 DEF Closed, serverVars
  <2>2. Len(published) \in Nat /\ buffer \in Seq(Nat)
    BY LenProperties DEF Ordered
  <2>3. QED BY <2>1, <2>2, NoEvents DEF Ordered
<1>6. CASE OnMessage
  BY <1>6, OnMessageOrdered
<1>7. CASE StatusAnswered \/ StatusArrives \/ StatusFails \/ Poll \/ Refocus
           \/ ClickControl \/ OpenDialog \/ CloseDialog \/ ClickTrust \/ ClickRevoke
           \/ ClickTest
  BY <1>1, <1>7 DEF StatusAnswered, StatusArrives, StatusFails, Poll, Refocus,
                    ClickControl, OpenDialog, CloseDialog, ClickTrust, ClickRevoke,
                    ClickTest, serverVars
<1>8. ASSUME NEW p, Navigate(p)
      PROVE  Ordered'
  BY <1>1, <1>8 DEF Navigate, serverVars
<1>9. ASSUME NEW i, CallReturns(i)
      PROVE  Ordered'
  BY <1>1, <1>9 DEF CallReturns, serverVars
<1>10. CASE UNCHANGED vars
  BY <1>1, <1>10 DEF vars, serverVars
<1>11. QED BY <1>2, <1>3, <1>4, <1>5, <1>6, <1>7, <1>8, <1>9, <1>10
           DEF Next, Bounded, Browser, User

LEMMA OrderedIsInOrder ==
  ASSUME Ordered
  PROVE  SocketInOrder
<1> DEFINE s == buffer \o wire
<1>1. buffer \in Seq(Nat) /\ wire \in Seq(Nat)
  BY DEF Ordered
<1>2. /\ Len(s) = Len(buffer) + Len(wire) /\ DOMAIN s = 1 .. Len(s)
      /\ Len(buffer) \in Nat /\ Len(wire) \in Nat
      /\ \A i \in 1 .. Len(s) :
           s[i] = IF i <= Len(buffer) THEN buffer[i] ELSE wire[i - Len(buffer)]
  BY <1>1
<1> HIDE DEF s
<1>3. ASSUME NEW i \in 1 .. Len(s), NEW j \in 1 .. Len(s), i < j
      PROVE  s[i] < s[j]
  <2>1. CASE j <= Len(buffer)
    <3>1. i \in 1 .. Len(buffer) /\ j \in 1 .. Len(buffer)
      BY <1>2, <1>3, <2>1
    <3>2. s[i] = buffer[i] /\ s[j] = buffer[j]
      BY <1>2, <1>3, <2>1, <3>1
    <3>3. buffer[i] < buffer[j]
      BY <1>3, <3>1 DEF Ordered, Increasing
    <3>4. QED BY <3>2, <3>3
  <2>2. CASE i <= Len(buffer) /\ ~(j <= Len(buffer))
    <3>1. i \in 1 .. Len(buffer) /\ j - Len(buffer) \in 1 .. Len(wire)
      BY <1>2, <1>3, <2>2
    <3>2. s[i] = buffer[i] /\ s[j] = wire[j - Len(buffer)]
      BY <1>2, <2>2
    <3>3. buffer[i] < wire[j - Len(buffer)]
      BY <3>1 DEF Ordered, Before
    <3>4. QED BY <3>2, <3>3
  <2>3. CASE ~(i <= Len(buffer))
    <3>1. /\ i - Len(buffer) \in 1 .. Len(wire) /\ j - Len(buffer) \in 1 .. Len(wire)
          /\ i - Len(buffer) < j - Len(buffer) /\ ~(j <= Len(buffer))
      BY <1>2, <1>3, <2>3
    <3>2. s[i] = wire[i - Len(buffer)] /\ s[j] = wire[j - Len(buffer)]
      BY <1>2, <2>3, <3>1
    <3>3. wire[i - Len(buffer)] < wire[j - Len(buffer)]
      BY <3>1 DEF Ordered, Increasing
    <3>4. QED BY <3>2, <3>3
  <2>4. QED BY <1>2, <1>3, <2>1, <2>2, <2>3
<1>4. QED BY <1>2, <1>3 DEF SocketInOrder, s

-----------------------------------------------------------------------------
(* What the page was told. *)

\* The reading shown, and the answer on its way to replace it, are later than
\* what the page was told.
Heard ==
  /\ ToldIsRead
  /\ Watched /\ shown # NoStatus /\ fetch = "answered" =>
       \A e \in Told(buffer) : e <= reply.at

LEMMA ToldFacts ==
  ASSUME Ordered, NEW e \in Told(buffer)
  PROVE  /\ e \in Nat /\ e <= Len(published) /\ e \in DOMAIN published
         /\ published[e] = "state"
<1>1. buffer \in Seq(Nat) /\ published \in Seq(Kind) /\ Below(buffer, Len(published))
  BY DEF Ordered
<1>2. PICK i \in 1 .. Len(buffer) : e = buffer[i]
  BY <1>1 DEF Told, ToSet
<1>3. published[e] = "state"
  BY DEF Told
<1>4. e \in Nat /\ 1 <= e /\ e <= Len(published)
  BY <1>1, <1>2 DEF Below
<1>5. QED BY <1>1, <1>3, <1>4

\* Nothing is owed while a reading is asked for, or without a page or a value.
LEMMA NothingOwed ==
  ASSUME fetch' \in {"asked", "again"} \/ page' = "other" \/ shown' = NoStatus
  PROVE  Heard'
BY DEF Heard, ToldIsRead, Watched

LEMMA NothingTold ==
  ASSUME Told(buffer)' = {}
  PROVE  Heard'
BY DEF Heard, ToldIsRead

LEMMA NothingNew ==
  ASSUME Heard, Told(buffer)' \subseteq Told(buffer), page' = page, shown' = shown,
         fetch' = fetch, reply' = reply, excused' = excused
  PROVE  Heard'
BY DEF Heard, ToldIsRead, Watched

LEMMA ReadAgain ==
  ASSUME Invalidated, page' = page, shown' = shown
  PROVE  Heard'
<1>1. page' = "other" \/ shown' = NoStatus \/ fetch' = "asked"
  BY DEF Invalidated, Watched, Refetch
<1>2. QED BY <1>1, NothingOwed

LEMMA SameTold ==
  ASSUME UNCHANGED <<buffer, published>>
  PROVE  Told(buffer)' = Told(buffer)
BY DEF Told, ToSet

LEMMA HeardStep ==
  ASSUME Typed, Ordered, Heard, [Next]_vars
  PROVE  Heard'
<1>1. published \in Seq(Kind) /\ Len(published) \in Nat /\ buffer \in Seq(Nat)
  BY LenProperties DEF Ordered
<1>2. CASE UNCHANGED <<buffer, published, page, shown, fetch, reply, excused>>
  BY <1>2, SameTold, NothingNew
<1>3. CASE Bounded(Server)
  <2>1. UNCHANGED <<page, shown, fetch, reply, excused>>
    BY <1>3, ServerSteps DEF ServerStep, queryVars
  <2>2. CASE UNCHANGED <<published, socketVars>>
    BY <1>2, <2>1, <2>2 DEF socketVars
  <2>3. ASSUME NEW k \in Kind, Publish(k)
        PROVE  Heard'
    <3>1. buffer' = buffer /\ published' = Append(published, k)
      BY <2>3 DEF Publish
    <3>2. /\ DOMAIN published = 1 .. Len(published)
          /\ \A i \in 1 .. Len(published) : published'[i] = published[i]
      BY <1>1, <3>1, AppendFacts
    <3>3. ASSUME NEW e \in Told(buffer)'
          PROVE  e \in Told(buffer)
      <4>1. PICK i \in 1 .. Len(buffer) : e = buffer[i]
        BY <1>1, <3>1, <3>3 DEF Told, ToSet
      <4>2. e \in 1 .. Len(published)
        BY <1>1, <4>1 DEF Ordered, Below
      <4>3. published'[e] = "state"
        BY <3>3 DEF Told
      <4>4. QED BY <1>1, <3>2, <4>1, <4>2, <4>3 DEF Told, ToSet
    <3>4. QED BY <2>1, <3>3, NothingNew
  <2>4. QED BY <1>3, <2>2, <2>3, ServerSteps DEF ServerStep
<1>4. CASE StatusAnswered
  <2>1. /\ fetch' = "answered" /\ reply'.at = Len(published)
        /\ UNCHANGED <<buffer, published>>
    BY <1>4 DEF StatusAnswered, serverVars, socketVars
  <2>2. \A e \in Told(buffer)' : e <= reply'.at
    BY <2>1, SameTold, ToldFacts
  <2>3. QED BY <2>1, <2>2 DEF Heard, ToldIsRead
<1>5. CASE StatusArrives
  <2>1. /\ fetch = "answered" /\ fetch' = "idle" /\ shown' = reply
        /\ excused' = (shown = NoStatus /\ \E e \in Told(buffer) : e > reply.at)
        /\ UNCHANGED <<buffer, published, page>>
    BY <1>5 DEF StatusArrives, serverVars, socketVars, pageVars
  <2>2. reply.at \in Nat
    BY <2>1 DEF Typed, Answer
  <2>3. ASSUME Watched', ~excused', NEW e \in Told(buffer)'
        PROVE  e <= shown'.at
    <3>1. e \in Told(buffer) /\ e \in Nat /\ Watched
      BY <2>1, <2>3, SameTold, ToldFacts DEF Watched
    <3>2. CASE shown # NoStatus
      BY <2>1, <3>1, <3>2 DEF Heard
    <3>3. CASE shown = NoStatus
      <4>1. ~(e > reply.at)
        BY <2>1, <2>3, <3>1, <3>3
      <4>2. QED BY <2>1, <2>2, <3>1, <4>1
    <3>4. QED BY <3>2, <3>3
  <2>4. QED BY <2>1, <2>3 DEF Heard, ToldIsRead
<1>6. CASE StatusFails
  <2>1. CASE fetch' = "again"
    BY <2>1, NothingOwed
  <2>2. CASE fetch' = "idle"
    <3>1. excused'
      BY <1>6, <2>2 DEF StatusFails
    <3>2. QED BY <2>2, <3>1 DEF Heard, ToldIsRead
  <2>3. QED BY <1>6, <2>1, <2>2 DEF StatusFails
<1>7. CASE Poll \/ Refocus
  BY <1>7, NothingOwed DEF Poll, Refocus
<1>8. CASE Connect
  <2>1. buffer' = <<>>
    BY <1>8 DEF Connect, OnConnect
  <2>2. Told(buffer)' = {}
    BY <2>1 DEF Told, ToSet
  <2>3. QED BY <2>2, NothingTold
<1>9. CASE Accepted \/ Closed
  BY <1>2, <1>9 DEF Accepted, Closed, serverVars, queryVars, pageVars
<1>10. CASE OnMessage
  <2>1. UNCHANGED <<published, page, shown, excused>>
    BY <1>10 DEF OnMessage, serverVars
  <2>2. CASE Watched /\ Wants(page, Head(wire))
    <3>1. Invalidated
      BY <1>10, <2>2 DEF OnMessage
    <3>2. QED BY <2>1, <3>1, ReadAgain
  <2>3. CASE ~Watched
    BY <2>1, <2>3, NothingOwed DEF Watched
  <2>4. CASE Watched /\ ~Wants(page, Head(wire))
    <3>1. UNCHANGED <<fetch, reply>>
      BY <1>10, <2>4 DEF OnMessage
    <3>2. published[Head(wire)] # "state"
      BY <2>4 DEF Wants
    <3>3. /\ buffer' \in Seq(Nat)
          /\ \A i \in 1 .. Len(buffer') :
               buffer'[i] = Head(wire) \/ \E j \in 1 .. Len(buffer) : buffer'[i] = buffer[j]
      BY <1>10, OnMessageOrdered DEF Ordered
    <3>4. ASSUME NEW e \in Told(buffer)'
          PROVE  e \in Told(buffer)
      <4>1. PICK i \in 1 .. Len(buffer') : e = buffer'[i]
        BY <3>3, <3>4 DEF Told, ToSet
      <4>2. published[e] = "state"
        BY <2>1, <3>4 DEF Told
      <4>3. PICK j \in 1 .. Len(buffer) : e = buffer[j]
        BY <3>2, <3>3, <4>1, <4>2
      <4>4. QED BY <1>1, <4>2, <4>3 DEF Told, ToSet
    <3>5. QED BY <2>1, <3>1, <3>4, NothingNew
  <2>5. QED BY <2>2, <2>3, <2>4
<1>11. ASSUME NEW i, CallReturns(i)
       PROVE  Heard'
  <2>1. UNCHANGED <<buffer, published, page, shown, excused>>
    BY <1>11 DEF CallReturns, serverVars, socketVars
  <2>2. Invalidated \/ UNCHANGED <<fetch, reply, stale>>
    BY <1>11 DEF CallReturns
  <2>3. QED BY <1>2, <2>1, <2>2, ReadAgain
<1>12. ASSUME NEW p, Navigate(p)
       PROVE  Heard'
  <2>1. UNCHANGED <<buffer, published, shown>> /\ page' = p
    BY <1>12 DEF Navigate, serverVars, socketVars
  <2>2. CASE \E e \in ToSet(buffer) : Wants(p, e)
    <3>1. p = "other" \/ shown' = NoStatus \/ fetch' = "asked"
      BY <1>12, <2>1, <2>2 DEF Navigate, Replayed
    <3>2. QED BY <2>1, <3>1, NothingOwed
  <2>3. CASE ~(\E e \in ToSet(buffer) : Wants(p, e))
    <3>1. Told(buffer) = {}
      BY <2>3 DEF Told, Wants
    <3>2. QED BY <2>1, <3>1, SameTold, NothingTold
  <2>4. QED BY <2>2, <2>3
<1>13. CASE ClickControl \/ OpenDialog \/ CloseDialog \/ ClickTrust \/ ClickRevoke
            \/ ClickTest
  BY <1>2, <1>13 DEF ClickControl, OpenDialog, CloseDialog, ClickTrust, ClickRevoke,
                     ClickTest, serverVars, socketVars, queryVars
<1>14. CASE UNCHANGED vars
  BY <1>2, <1>14 DEF vars, serverVars, socketVars, queryVars, pageVars
<1>15. QED BY <1>3, <1>4, <1>5, <1>6, <1>7, <1>8, <1>9, <1>10, <1>11, <1>12, <1>13, <1>14
           DEF Next, Bounded, Browser, User

-----------------------------------------------------------------------------
(* The theorems. *)

\* The inductive invariant.
Promises == Typed /\ Trust /\ Ordered /\ Heard

LEMMA PromisesInit ==
  ASSUME Init
  PROVE  Promises
<1>1. Typed
  BY DEF Init, Typed, Status, State
<1>2. Trust
  <2>1. calls = <<>> /\ trusted = NoKey
    BY DEF Init
  <2>2. QED BY <2>1 DEF Trust, Trusty, TrustedWasShown
<1>3. Ordered
  <2>1. wire = <<>> /\ buffer = <<>> /\ published = <<>> /\ link = "down"
    BY DEF Init
  <2>2. <<>> \in Seq(Kind) /\ Len(<<>>) \in Nat
    OBVIOUS
  <2>3. QED BY <2>1, <2>2, NoEvents DEF Ordered
<1>4. Heard
  BY DEF Init, Heard, ToldIsRead, Watched
<1>5. QED BY <1>1, <1>2, <1>3, <1>4 DEF Promises

LEMMA PromisesStep ==
  ASSUME Promises, [Next]_vars
  PROVE  Promises'
<1>1. Typed /\ Trust /\ Ordered /\ Heard /\ published \in Seq(Kind)
  BY DEF Promises, Ordered
<1>2. Typed' /\ Trust' /\ Ordered' /\ Heard'
  BY <1>1, TypedStep, TrustStep, OrderedStep, HeardStep
<1>3. QED BY <1>2 DEF Promises

LEMMA Promised == Spec => []Promises
<1>1. Init => Promises
  BY PromisesInit
<1>2. Promises /\ [Next]_vars => Promises'
  BY PromisesStep
<1>3. QED BY <1>1, <1>2, PTL DEF Spec

\* Whatever keys a host offers, in whatever order handshakes, readings of the
\* status and answers pass each other: a key the interface makes the server
\* trust was on the screen when the user accepted
\* (host-key-mismatch-dialog.tsx:53-57 against detail-header.tsx:126).
THEOREM OnlyShownKeysTrusted == Spec => []TrustedWasShown
<1>1. Promises => TrustedWasShown
  BY DEF Promises, Trust
<1>2. QED BY <1>1, Promised, PTL

\* For every size of the bus's history, of the server's channel and of the
\* client's buffer, and across any number of reconnects: what the socket
\* remembers and what is on its way is in the order of publication, nothing
\* twice (ws.ts:22-43 against events.go:78-83).
THEOREM EventsInOrder == Spec => []SocketInOrder
<1>1. Promises => SocketInOrder
  BY OrderedIsInOrder DEF Promises
<1>2. QED BY <1>1, Promised, PTL

\* A state change that a page was told of is on the screen, or being read, or
\* its reading was given up (tunnel-detail.tsx:19-24, use-tunnels.ts:27-40).
THEOREM WhatWasToldIsRead == Spec => []ToldIsRead
<1>1. Promises => ToldIsRead
  BY DEF Promises, Heard
<1>2. QED BY <1>1, Promised, PTL

-----------------------------------------------------------------------------
(* Sizes. *)

\* A stop that has begun has room for the two events it will publish.
Counted ==
  /\ engine \in 0 .. Len(calls)
  /\ Len(published) <= bound.events + 2
  /\ engine # 0 => \/ server.state = "stopping" /\ Len(published) <= bound.events
                   \/ server.state = "stopped" /\ Len(published) <= bound.events + 1

LEMMA SameDomain ==
  ASSUME NEW S, NEW a \in Seq(S), NEW b \in Seq(S), DOMAIN a = DOMAIN b
  PROVE  Len(a) = Len(b)
<1>1. Len(a) \in Nat /\ Len(b) \in Nat /\ 1 .. Len(a) = 1 .. Len(b)
  OBVIOUS
<1>2. QED BY <1>1

\* No call is forgotten.
LEMMA CallsStay ==
  ASSUME Typed, Trust, [Next]_vars
  PROVE  Len(calls) \in Nat /\ Len(calls') \in Nat /\ Len(calls) <= Len(calls')
<1>1. calls \in Seq(Call) /\ calls' \in Seq(Call)
  BY TrustStep DEF Trust, Trusty
<1>2. Len(calls) \in Nat /\ Len(calls') \in Nat
  BY <1>1
<1>3. CASE DOMAIN calls' = DOMAIN calls
  BY <1>1, <1>2, <1>3, SameDomain
<1>4. ASSUME NEW d \in Seq(Call), DOMAIN d = DOMAIN calls, NEW c, calls' = Append(d, c)
      PROVE  Len(calls) <= Len(calls')
  <2>1. d \in Seq(Call \cup {c})
    OBVIOUS
  <2>2. Len(Append(d, c)) = Len(d) + 1
    BY <2>1, AppendFacts
  <2>3. Len(d) = Len(calls)
    BY <1>1, <1>4, SameDomain
  <2>4. QED BY <1>2, <1>4, <2>2, <2>3
<1>5. CASE UNCHANGED calls
  BY <1>2, <1>5
<1>6. ASSUME NEW i, CallReturns(i) PROVE Len(calls) <= Len(calls')
  <2> DEFINE done == [calls EXCEPT ![i].phase = "over"]
  <2>1. calls' = done \/ \E c : calls' = Append(done, c)
    BY <1>6 DEF CallReturns
  <2>2. DOMAIN done = DOMAIN calls /\ done \in Seq(Call)
    BY PhaseChanged DEF Trust, Trusty
  <2> HIDE DEF done
  <2>3. QED BY <1>3, <1>4, <2>1, <2>2
<1>7. ASSUME NEW n, NEW p, Settle(n, p)
      PROVE  Len(calls) <= Len(calls')
  <2>1. DOMAIN calls' = DOMAIN calls
    BY <1>7 DEF Settle
  <2>2. QED BY <1>3, <2>1
<1>8. CASE SupervisorMoves \/ OtherEvent \/ OtherHandshake
  BY <1>5, <1>8 DEF SupervisorMoves, OtherEvent, OtherHandshake, pageVars
<1>9. CASE EngineProceeds
  BY <1>5, <1>7, <1>9 DEF EngineProceeds
<1>10. ASSUME NEW i, HandleStart(i) \/ HandleStop(i) \/ HandleRevoke(i) \/ HandleTrust(i)
       PROVE  Len(calls) <= Len(calls')
  BY <1>5, <1>7, <1>10 DEF HandleStart, HandleStop, HandleRevoke, HandleTrust
<1>11. ASSUME NEW i, HandleTest(i)
       PROVE  Len(calls) <= Len(calls')
  <2>1. PICK k : calls' = [calls EXCEPT ![i].phase = "ok", ![i].key = k]
    BY <1>11 DEF HandleTest
  <2>2. DOMAIN calls' = DOMAIN calls
    BY <2>1
  <2>3. QED BY <1>3, <2>2
<1>12. ASSUME NEW p, Navigate(p)
       PROVE  Len(calls) <= Len(calls')
  <2>1. calls' = [i \in DOMAIN calls |-> [calls[i] EXCEPT !.mine = FALSE]]
    BY <1>12 DEF Navigate
  <2>2. DOMAIN calls' = DOMAIN calls
    BY <2>1
  <2>3. QED BY <1>3, <2>2
<1>13. CASE ClickControl \/ ClickTrust \/ ClickRevoke \/ ClickTest
  <2>1. \E c : calls' = Append(calls, c)
    BY <1>13 DEF ClickControl, ClickTrust, ClickRevoke, ClickTest, Made
  <2>2. QED BY <1>1, <1>4, <2>1
<1>14. CASE StatusAnswered \/ StatusArrives \/ StatusFails \/ Poll \/ Refocus
            \/ Connect \/ Accepted \/ Closed \/ OnMessage \/ OpenDialog \/ CloseDialog
  BY <1>5, <1>14 DEF StatusAnswered, StatusArrives, StatusFails, Poll, Refocus, Connect,
                     Accepted, Closed, OnMessage, OpenDialog, CloseDialog, pageVars
<1>15. CASE UNCHANGED vars
  BY <1>5, <1>15 DEF vars, pageVars
<1>16. Len(calls) <= Len(calls')
  BY <1>6, <1>8, <1>9, <1>10, <1>11, <1>12, <1>13, <1>14, <1>15
     DEF Next, Bounded, Server, Browser, User
<1>17. QED BY <1>2, <1>16

LEMMA CountedStep ==
  ASSUME Typed, Trust, Ordered, Counted, [Next]_vars
  PROVE  Counted'
<1> DEFINE n == Len(published)
           m == bound.events
<1>1. /\ bound \in Bounds /\ m \in Nat /\ published \in Seq(Kind) /\ n \in Nat
      /\ bound' = bound
  <2>1. bound' = bound
    BY DEF Next, Bounded, vars
  <2>2. QED BY <2>1, ConsoleConstants DEF Typed, Ordered
<1>2. /\ n <= m + 2
      /\ engine # 0 => \/ server.state = "stopping" /\ n <= m
                       \/ server.state = "stopped" /\ n <= m + 1
      /\ bound'.events = m
  BY <1>1 DEF Counted
<1>3. /\ engine \in Nat /\ engine <= Len(calls) /\ Len(calls') \in Nat
      /\ Len(calls) <= Len(calls') /\ DOMAIN calls = 1 .. Len(calls) /\ Len(calls) \in Nat
  <2>1. DOMAIN calls = 1 .. Len(calls)
    BY DEF Trust, Trusty
  <2>2. QED BY <2>1, CallsStay DEF Counted
<1>4. ASSUME NEW k, Publish(k)
      PROVE  Len(published') = n + 1
  BY <1>1, <1>4 DEF Publish
<1>5. ASSUME NEW s, NEW k, SetState(s, k)
      PROVE  Len(published') = n + 1 /\ server'.state = s
  BY <1>4, <1>5 DEF SetState
<1> DEFINE n1 == Len(published')
<1>6. ASSUME engine' = 0, n1 = n \/ (n1 = n + 1 /\ (n < m \/ engine # 0))
      PROVE  Counted'
  <2>1. n1 <= m + 2 /\ 0 \in 0 .. Len(calls')
    BY <1>1, <1>2, <1>3, <1>6
  <2>2. QED BY <1>2, <1>6, <2>1 DEF Counted
<1>7. ASSUME engine' \in DOMAIN calls \cup {engine},
             \/ server'.state = "stopping" /\ n1 <= m
             \/ server'.state = "stopped" /\ n1 <= m + 1
      PROVE  Counted'
  <2>1. n1 <= m + 2 /\ engine' \in 0 .. Len(calls')
    BY <1>1, <1>2, <1>3, <1>7
  <2>2. QED BY <1>2, <1>7, <2>1 DEF Counted
<1>8. CASE UNCHANGED <<engine, server, published>>
  BY <1>1, <1>2, <1>6, <1>7, <1>8
<1>9. CASE SupervisorMoves
  <2>1. engine' = 0 /\ n < m /\ \E s, k : SetState(s, k)
    BY <1>9 DEF SupervisorMoves, Room
  <2>2. QED BY <1>5, <1>6, <2>1
<1>10. CASE OtherEvent
  <2>1. n < m /\ engine' = engine /\ server' = server /\ \E k : Publish(k)
    BY <1>10 DEF OtherEvent, Room
  <2>2. n1 = n + 1
    BY <1>4, <2>1
  <2>3. CASE engine = 0
    BY <1>6, <2>1, <2>2, <2>3
  <2>4. CASE engine # 0
    BY <1>1, <1>2, <1>7, <2>1, <2>2, <2>4
  <2>5. QED BY <2>3, <2>4
<1>11. CASE EngineProceeds
  <2>1. CASE server.state = "stopping" /\ SetState("stopped", NoKey)
    <3>1. engine # 0 /\ n <= m /\ n1 = n + 1 /\ server'.state = "stopped"
          /\ engine' \in {0, engine}
      BY <1>2, <1>5, <1>11, <2>1 DEF EngineProceeds
    <3>2. QED BY <1>1, <1>6, <1>7, <3>1
  <2>2. CASE server.state = "stopped" /\ SetState("starting", NoKey) /\ engine' = 0
    BY <1>5, <1>6, <1>11, <2>2 DEF EngineProceeds
  <2>3. QED BY <1>11, <2>1, <2>2 DEF EngineProceeds
<1>12. ASSUME NEW i, HandleStart(i)
       PROVE  Counted'
  <2>1. engine' = 0 /\ n < m
        /\ (SetState("starting", server.hostKey) \/ published' = published)
    BY <1>12 DEF HandleStart, Room
  <2>2. QED BY <1>5, <1>6, <2>1
<1>13. ASSUME NEW i \in DOMAIN calls, HandleStop(i)
       PROVE  Counted'
  <2>1. engine = 0 /\ n < m
    BY <1>13 DEF HandleStop, Room
  <2>2. CASE server.state = "stopped"
    <3>1. server' = [server EXCEPT !.hostKey = NoKey] /\ published' = published
          /\ engine' \in {engine, i}
      BY <1>13, <2>2 DEF HandleStop
    <3>2. server'.state = "stopped"
      BY <2>2, <3>1 DEF Typed, Status
    <3>3. QED BY <1>1, <1>7, <2>1, <3>1, <3>2
  <2>3. CASE server.state # "stopped"
    <3>1. SetState("stopping", server.hostKey) /\ engine' = i
      BY <1>13, <2>3 DEF HandleStop
    <3>2. QED BY <1>1, <1>5, <1>7, <2>1, <3>1
  <2>4. QED BY <2>2, <2>3
<1>14. ASSUME NEW i, HandleTrust(i) \/ HandleRevoke(i) \/ HandleTest(i)
       PROVE  Counted'
  BY <1>8, <1>14 DEF HandleTrust, HandleRevoke, HandleTest
<1>15. ASSUME NEW p, Navigate(p)
       PROVE  Counted'
  BY <1>8, <1>15 DEF Navigate, serverVars
<1>16. ASSUME NEW i, CallReturns(i)
       PROVE  Counted'
  BY <1>8, <1>16 DEF CallReturns, serverVars
<1>17. CASE OtherHandshake \/ StatusAnswered \/ StatusArrives \/ StatusFails \/ Poll
            \/ Refocus \/ Connect \/ Accepted \/ Closed \/ OnMessage \/ OpenDialog
            \/ CloseDialog \/ ClickControl \/ ClickTrust \/ ClickRevoke \/ ClickTest
  BY <1>8, <1>17 DEF OtherHandshake, StatusAnswered, StatusArrives, StatusFails, Poll,
                     Refocus, Connect, Accepted, Closed, OnMessage, OpenDialog, CloseDialog,
                     ClickControl, ClickTrust, ClickRevoke, ClickTest, serverVars
<1>18. CASE UNCHANGED vars
  BY <1>8, <1>18 DEF vars, serverVars
<1>19. QED BY <1>9, <1>10, <1>11, <1>12, <1>13, <1>14, <1>15, <1>16, <1>17, <1>18
           DEF Next, Bounded, Server, Browser, User

-----------------------------------------------------------------------------
(* The log. *)

\* Neither the channel nor the memory of the socket nor the log outgrows its
\* size, and the open log ends with what the socket remembers.
Sized ==
  /\ link \in {"down", "dialling", "up"}
  /\ page \in {"list", "detail", "dashboard", "other"}
  /\ Len(wire) <= Capacity
  /\ Len(buffer) <= MaxBuffer
  /\ entries \in Seq(1 .. Len(published)) /\ Len(entries) <= MaxBuffer
  /\ page = "detail" => Ends(LogOf(buffer), entries)

LEMMA BelowIsSeq ==
  ASSUME NEW s \in Seq(Nat), NEW n \in Nat, Below(s, n)
  PROVE  s \in Seq(1 .. n)
<1>1. \A i \in 1 .. Len(s) : s[i] \in 1 .. n
  BY DEF Below
<1>2. QED BY <1>1

LEMMA LargerSeq ==
  ASSUME NEW S, NEW T, S \subseteq T, NEW s \in Seq(S)
  PROVE  s \in Seq(T)
OBVIOUS

\* The events published so far that a log may show.
Loggable == {e \in 1 .. Len(published) : Logged(e)}

LEMMA LogIs ==
  ASSUME NEW n, n = Len(published), n \in Nat, NEW s \in Seq(1 .. n)
  PROVE  LogOf(s) = Kept(s, Loggable)
<1> DEFINE W == {e \in ToSet(s) : Logged(e)}
<1>1. \A i \in 1 .. Len(s) : s[i] \in 1 .. n /\ s[i] \in ToSet(s)
  BY DEF ToSet
<1>2. \A i \in 1 .. Len(s) : s[i] \in W <=> s[i] \in Loggable
  BY <1>1 DEF Loggable
<1> HIDE DEF W
<1>3. Kept(s, W) = Kept(s, Loggable)
  BY <1>2, KeptSame
<1>4. QED BY <1>3 DEF LogOf, W

LEMMA LogIsKept ==
  ASSUME NEW n, n = Len(published), n \in Nat, NEW s \in Seq(1 .. n)
  PROVE  LogOf(s) \in Seq(1 .. n) /\ Len(LogOf(s)) \in Nat /\ Len(LogOf(s)) <= Len(s)
<1>1. Kept(s, Loggable) \in Seq(1 .. n) /\ Len(Kept(s, Loggable)) <= Len(s)
  BY KeptType
<1>2. QED BY <1>1, LogIs, LenProperties

\* An event more changes nothing about the earlier ones.
LEMMA LogAfterPublish ==
  ASSUME published \in Seq(Kind), NEW k \in Kind, published' = Append(published, k),
         buffer \in Seq(1 .. Len(published)), buffer' = buffer
  PROVE  LogOf(buffer)' = LogOf(buffer)
<1> DEFINE s == buffer
           W == {e \in ToSet(s) : published[e] # "other"}
           V == {e \in ToSet(s) : published'[e] # "other"}
           n == Len(published)
<1>1. \A i \in 1 .. Len(published) : published'[i] = published[i]
  BY AppendFacts
<1>2. s \in Seq(1 .. n)
  OBVIOUS
<1>3. \A i \in 1 .. Len(s) : s[i] \in 1 .. n /\ s[i] \in ToSet(s)
  BY DEF ToSet
<1>4. \A i \in 1 .. Len(s) : s[i] \in W <=> s[i] \in V
  BY <1>1, <1>3
<1> HIDE DEF W, V, n
<1>5. Kept(s, W) = Kept(s, V)
  BY <1>2, <1>4, KeptSame
<1>6. LogOf(buffer) = Kept(s, W)
  BY DEF LogOf, Logged, W
<1>7. LogOf(buffer)' = Kept(s, V)
  <2>1. {e \in ToSet(buffer') : published'[e] # "other"} = V
    BY DEF V
  <2>2. LogOf(buffer)' = Kept(buffer', {e \in ToSet(buffer') : published'[e] # "other"})
    BY DEF LogOf, Logged
  <2>3. QED BY <2>1, <2>2
<1>8. QED BY <1>5, <1>6, <1>7

LEMMA LastOnesFit ==
  ASSUME NEW S, NEW s \in Seq(S), Len(s) <= MaxBuffer + 1
  PROVE  /\ LastOnes(s) \in Seq(S) /\ Len(LastOnes(s)) \in Nat
         /\ Len(LastOnes(s)) <= MaxBuffer
         /\ \/ LastOnes(s) = s
            \/ s # <<>> /\ LastOnes(s) = Tail(s) /\ Len(s) > MaxBuffer
<1>1. MaxBuffer \in Nat \ {0} /\ Len(s) \in Nat
  BY ConsoleConstants
<1>2. CASE Len(s) > MaxBuffer
  <2>1. s # <<>>
    BY <1>1, <1>2
  <2>2. Tail(s) \in Seq(S) /\ Len(Tail(s)) = Len(s) - 1
    BY <2>1
  <2>3. LastOnes(s) = Tail(s)
    BY <1>2 DEF LastOnes
  <2>4. Len(Tail(s)) \in Nat /\ Len(Tail(s)) <= MaxBuffer
    BY <1>1, <1>2, <2>2
  <2>5. QED BY <1>2, <2>1, <2>2, <2>3, <2>4
<1>3. CASE ~(Len(s) > MaxBuffer)
  BY <1>1, <1>3 DEF LastOnes
<1>4. QED BY <1>2, <1>3

\* The log keeps up with the memory of the socket, event by event: whatever it
\* drops is older than all that is remembered.
LEMMA LogKeepsUp ==
  ASSUME NEW S, NEW b \in Seq(S), NEW t \in Seq(S), NEW e \in S, NEW W,
         Len(b) <= MaxBuffer, Len(t) <= MaxBuffer, Ends(Kept(b, W), t)
  PROVE  Ends(Kept(LastOnes(Append(b, e)), W),
              IF e \in W THEN LastOnes(Append(t, e)) ELSE t)
<1> DEFINE c == Append(b, e)
           l == LastOnes(c)
           u == IF e \in W THEN Append(t, e) ELSE t
<1>1. MaxBuffer \in Nat \ {0} /\ Len(b) \in Nat /\ Len(t) \in Nat
  BY ConsoleConstants
<1>2. c \in Seq(S) /\ Len(c) = Len(b) + 1 /\ Append(t, e) \in Seq(S)
      /\ Len(Append(t, e)) = Len(t) + 1
  BY AppendFacts
<1>3. l \in Seq(S) /\ Len(l) <= MaxBuffer /\ Len(l) \in Nat
      /\ (l = c \/ (c # <<>> /\ l = Tail(c)))
  <2>1. Len(c) <= MaxBuffer + 1
    BY <1>1, <1>2
  <2> HIDE DEF c
  <2>2. QED BY <1>2, <2>1, LastOnesFit
<1>4. u \in Seq(S)
  BY <1>2
<1>5. Kept(b, W) \in Seq(S) /\ Kept(c, W) \in Seq(S) /\ Kept(l, W) \in Seq(S)
      /\ Len(Kept(l, W)) <= Len(l)
  <2> HIDE DEF c, l
  <2>1. QED BY <1>2, <1>3, KeptType
<1>6. Len(Kept(l, W)) \in Nat
  BY <1>5
<1>7. Ends(Kept(c, W), u)
  <2>1. Kept(c, W) = IF e \in W THEN Append(Kept(b, W), e) ELSE Kept(b, W)
    BY KeptAppend
  <2>2. CASE e \in W
    <3>1. Ends(Append(Kept(b, W), e), Append(t, e))
      BY <1>5, EndsAppend
    <3>2. Kept(c, W) = Append(Kept(b, W), e) /\ u = Append(t, e)
      BY <2>1, <2>2
    <3> HIDE DEF c, u
    <3>3. QED BY <3>1, <3>2
  <2>3. CASE e \notin W
    <3>1. Kept(c, W) = Kept(b, W) /\ u = t
      BY <2>1, <2>3
    <3> HIDE DEF c, u
    <3>2. QED BY <3>1
  <2>4. QED BY <2>2, <2>3
<1> HIDE DEF c, l
<1>8. Ends(Kept(l, W), Kept(c, W))
  <2>1. CASE l = c
    BY <1>5, <2>1, EndsRefl
  <2>2. CASE c # <<>> /\ l = Tail(c)
    BY <1>2, <2>2, KeptTail
  <2>3. QED BY <1>3, <2>1, <2>2
<1>9. Ends(Kept(l, W), u)
  <2> HIDE DEF u
  <2>1. QED BY <1>4, <1>5, <1>7, <1>8, EndsTrans
<1>10. CASE e \in W
  <2>1. u = Append(t, e)
    BY <1>10
  <2>2. LastOnes(u) = u \/ (LastOnes(u) = Tail(u) /\ Len(u) > MaxBuffer)
    BY DEF LastOnes
  <2> HIDE DEF u
  <2>3. CASE LastOnes(u) = Tail(u) /\ Len(u) > MaxBuffer
    <3>1. Len(Kept(l, W)) < Len(u)
      BY <1>1, <1>2, <1>3, <1>5, <1>6, <2>1, <2>3
    <3>2. Ends(Kept(l, W), Tail(u))
      BY <1>4, <1>5, <1>9, <3>1, EndsOfTail
    <3>3. QED BY <1>10, <2>1, <2>3, <3>2 DEF l, c
  <2>4. CASE LastOnes(u) = u
    BY <1>9, <1>10, <2>1, <2>4 DEF l, c
  <2>5. QED BY <2>2, <2>3, <2>4
<1>11. CASE e \notin W
  BY <1>9, <1>11 DEF l, c
<1>12. QED BY <1>10, <1>11

LEMMA SizedStep ==
  ASSUME Typed, Ordered, Ordered', Sized, [Next]_vars
  PROVE  Sized'
<1> DEFINE n == Len(published)
<1>1. /\ n \in Nat /\ published \in Seq(Kind) /\ wire \in Seq(1 .. n) /\ buffer \in Seq(1 .. n)
  BY BelowIsSeq, LenProperties DEF Ordered
<1>2. /\ MaxBuffer \in Nat \ {0} /\ Capacity \in Nat /\ RecentCap \in Nat
      /\ RecentCap <= Capacity
  BY ConsoleConstants DEF Capacity
<1>3. /\ link \in {"down", "dialling", "up"}
      /\ page \in {"list", "detail", "dashboard", "other"}
      /\ Len(wire) <= Capacity /\ Len(buffer) <= MaxBuffer
      /\ entries \in Seq(1 .. n) /\ Len(entries) <= MaxBuffer
      /\ page = "detail" => Ends(LogOf(buffer), entries)
  BY DEF Sized
<1>4. Len(wire) \in Nat /\ Len(buffer) \in Nat /\ Len(entries) \in Nat
  BY <1>1, <1>3
<1>5. ASSUME UNCHANGED <<published, buffer>>
      PROVE  LogOf(buffer)' = LogOf(buffer)
  BY <1>5 DEF LogOf, Logged
<1>6. CASE UNCHANGED <<published, socketVars, page, entries>>
  BY <1>3, <1>5, <1>6 DEF Sized, socketVars
<1>7. ASSUME NEW k \in Kind, Publish(k), UNCHANGED <<page, entries>>
      PROVE  Sized'
  <2>1. published' = Append(published, k) /\ link' = link /\ buffer' = buffer
        /\ wire' \in {wire, Append(wire, n + 1)} /\ (Len(wire) < Capacity \/ wire' = wire)
    BY <1>7 DEF Publish
  <2>2. Len(published') = n + 1
    BY <1>1, <2>1, AppendFacts
  <2>3. LogOf(buffer)' = LogOf(buffer)
    BY <1>1, <2>1, LogAfterPublish
  <2>4. 1 .. n \subseteq 1 .. n + 1
    BY <1>1
  <2> DEFINE S == 1 .. n
             T == 1 .. n + 1
  <2>5. entries \in Seq(1 .. n + 1)
    <3>1. entries \in Seq(S) /\ S \subseteq T
      BY <1>3, <2>4
    <3> HIDE DEF S, T
    <3>2. entries \in Seq(T)
      BY <3>1, LargerSeq
    <3>3. QED BY <3>2 DEF T
  <2>6. Len(wire') <= Capacity
    <3>1. CASE wire' = wire
      BY <1>3, <3>1
    <3>2. CASE wire' = Append(wire, n + 1) /\ Len(wire) < Capacity
      <4>1. wire \in Seq(Nat) /\ n + 1 \in Nat
        BY <1>1 DEF Ordered
      <4>2. Len(Append(wire, n + 1)) = Len(wire) + 1
        BY <4>1, AppendFacts
      <4>3. QED BY <1>2, <1>4, <3>2, <4>2
    <3>3. QED BY <2>1, <3>1, <3>2
  <2> HIDE DEF n
  <2>7. entries' \in Seq(1 .. Len(published'))
    BY <1>7, <2>2, <2>5
  <2>8. QED BY <1>3, <1>7, <2>1, <2>3, <2>6, <2>7 DEF Sized
<1>8. CASE Bounded(Server)
  <2>1. UNCHANGED <<page, entries>>
        /\ ((\E k \in Kind : Publish(k)) \/ UNCHANGED <<published, socketVars>>)
    BY <1>8, ServerSteps DEF ServerStep
  <2>2. QED BY <1>6, <1>7, <2>1
<1>9. CASE Connect
  <2>1. link' = "dialling" /\ buffer' = <<>> /\ UNCHANGED <<published, wire, page, entries>>
    BY <1>9 DEF Connect, OnConnect, serverVars, pageVars
  <2>2. Len(buffer') = 0
    BY <2>1
  <2>3. ASSUME page' = "detail" PROVE Ends(LogOf(buffer), entries)'
    <3>1. <<>> \in Seq(Nat)
      OBVIOUS
    <3>2. Len(Kept(<<>>, {e \in ToSet(<<>>) : Logged(e)'})) = 0
      <4> DEFINE W == {e \in ToSet(<<>>) : Logged(e)'}
                 q == <<>>
      <4>1. q \in Seq(Nat) /\ Len(q) = 0
        OBVIOUS
      <4> HIDE DEF W, q
      <4>2. Kept(q, W) \in Seq(Nat) /\ Len(Kept(q, W)) <= Len(q)
        BY <4>1, KeptType
      <4>3. Len(Kept(q, W)) = 0
        BY <4>1, <4>2
      <4>4. QED BY <4>3 DEF W, q
    <3>3. Len(LogOf(buffer)') = 0
      BY <2>1, <3>2 DEF LogOf
    <3>4. Len(entries') \in Nat
      BY <1>4, <2>1
    <3>5. QED BY <3>3, <3>4 DEF Ends
  <2>4. QED BY <1>2, <1>3, <2>1, <2>2, <2>3 DEF Sized
<1>10. CASE Accepted
  <2> DEFINE m == IF n < RecentCap THEN n ELSE RecentCap
  <2>1. m \in Nat /\ m <= RecentCap
    BY <1>1, <1>2
  <2>2. /\ DOMAIN wire' = 1 .. m /\ link' = "up"
        /\ UNCHANGED <<published, buffer, page, entries>>
    BY <1>10 DEF Accepted, serverVars, pageVars
  <2>3. wire' \in Seq(Nat)
    BY DEF Ordered
  <2> HIDE DEF m
  <2>4. Len(wire') = m
    BY <2>1, <2>2, <2>3
  <2>5. Len(wire') <= Capacity
    BY <1>2, <2>1, <2>4
  <2>6. QED BY <1>3, <1>5, <2>2, <2>5 DEF Sized
<1>11. CASE Closed
  <2>1. link' = "down" /\ wire' = <<>> /\ UNCHANGED <<published, buffer, page, entries>>
    BY <1>11 DEF Closed, serverVars, pageVars
  <2>2. Len(wire') <= Capacity
    BY <1>2, <2>1
  <2>3. QED BY <1>3, <1>5, <2>1, <2>2 DEF Sized
<1>12. CASE OnMessage
  <2> DEFINE e == Head(wire)
             S == 1 .. n
             W == Loggable
  <2>1. wire # <<>> /\ wire' = Tail(wire) /\ buffer' = LastOnes(Append(buffer, e))
        /\ entries' = (IF page = "detail" /\ Logged(e) THEN LastOnes(Append(entries, e))
                       ELSE entries)
        /\ UNCHANGED <<published, link, page>>
    BY <1>12 DEF OnMessage, serverVars
  <2>2. e \in S /\ Len(wire') <= Capacity
    BY <1>1, <1>2, <1>3, <1>4, <2>1
  <2>3. e \in W <=> Logged(e)
    BY <2>2 DEF Loggable
  <2>4. S \in {S} /\ buffer \in Seq(S) /\ entries \in Seq(S)
    BY <1>1, <1>3
  <2>5. page = "detail" => Ends(Kept(buffer, W), entries)
    BY <1>1, <1>3, LogIs
  <2> HIDE DEF e, S, W
  <2>6. Append(buffer, e) \in Seq(S) /\ Len(Append(buffer, e)) = Len(buffer) + 1
        /\ Append(entries, e) \in Seq(S) /\ Len(Append(entries, e)) = Len(entries) + 1
    BY <2>2, <2>4, AppendFacts
  <2>7. Len(Append(buffer, e)) <= MaxBuffer + 1 /\ Len(Append(entries, e)) <= MaxBuffer + 1
    BY <1>2, <1>3, <1>4, <2>6
  <2>8. buffer' \in Seq(S) /\ Len(buffer') <= MaxBuffer
    BY <2>1, <2>6, <2>7, LastOnesFit
  <2>9. LastOnes(Append(entries, e)) \in Seq(S) /\ Len(LastOnes(Append(entries, e))) <= MaxBuffer
    BY <2>6, <2>7, LastOnesFit
  <2>10. entries' \in Seq(S) /\ Len(entries') <= MaxBuffer
    BY <1>3, <2>1, <2>4, <2>9
  <2>11. ASSUME page' = "detail" PROVE Ends(LogOf(buffer), entries)'
    <3>1. Ends(Kept(LastOnes(Append(buffer, e)), W),
               IF e \in W THEN LastOnes(Append(entries, e)) ELSE entries)
      BY <1>3, <2>1, <2>2, <2>4, <2>5, <2>11, LogKeepsUp
    <3>2. entries' = IF e \in W THEN LastOnes(Append(entries, e)) ELSE entries
      BY <2>1, <2>3, <2>11
    <3>3. Ends(Kept(buffer', W), entries')
      BY <2>1, <3>1, <3>2
    <3>4. \A s \in Seq(S) : LogOf(s) = Kept(s, W)
      BY <1>1, LogIs DEF S, W
    <3>5. LogOf(buffer)' = LogOf(buffer')
      BY <2>1 DEF LogOf, Logged
    <3>6. LogOf(buffer)' = Kept(buffer', W)
      BY <2>8, <3>4, <3>5
    <3>7. QED BY <3>3, <3>6
  <2>12. QED BY <1>3, <2>1, <2>2, <2>8, <2>10, <2>11 DEF Sized, S
<1>13. ASSUME NEW p \in {"list", "detail", "dashboard", "other"}, Navigate(p)
       PROVE  Sized'
  <2>1. page' = p /\ UNCHANGED <<published, link, wire, buffer>>
        /\ entries' = (IF p = "detail" THEN LogOf(buffer) ELSE <<>>)
    BY <1>13 DEF Navigate, Replayed, serverVars, socketVars
  <2>2. LogOf(buffer) \in Seq(1 .. n) /\ Len(LogOf(buffer)) \in Nat
        /\ Len(LogOf(buffer)) <= Len(buffer)
    BY <1>1, LogIsKept
  <2>3. LogOf(buffer)' = LogOf(buffer)
    BY <1>5, <2>1
  <2>4. CASE p = "detail"
    <3>1. entries' \in Seq(1 .. n) /\ Len(entries') <= MaxBuffer
      BY <1>2, <1>3, <1>4, <2>1, <2>2, <2>4
    <3>2. Ends(LogOf(buffer), LogOf(buffer))
      BY <2>2, EndsRefl
    <3>3. Ends(LogOf(buffer), entries)'
      BY <2>1, <2>3, <2>4, <3>2
    <3>4. QED BY <1>3, <1>13, <2>1, <3>1, <3>3 DEF Sized
  <2>5. CASE p # "detail"
    <3>1. entries' \in Seq(1 .. n) /\ Len(entries') <= MaxBuffer
      BY <1>2, <2>1, <2>5
    <3>2. QED BY <1>3, <1>13, <2>1, <2>5, <3>1 DEF Sized
  <2>6. QED BY <2>4, <2>5
<1>14. CASE StatusAnswered \/ StatusArrives \/ StatusFails \/ Poll \/ Refocus
            \/ ClickControl \/ OpenDialog \/ CloseDialog \/ ClickTrust \/ ClickRevoke
            \/ ClickTest
  BY <1>6, <1>14 DEF StatusAnswered, StatusArrives, StatusFails, Poll, Refocus,
                     ClickControl, OpenDialog, CloseDialog, ClickTrust, ClickRevoke,
                     ClickTest, serverVars, pageVars
<1>15. ASSUME NEW i, CallReturns(i)
       PROVE  Sized'
  BY <1>6, <1>15 DEF CallReturns, serverVars
<1>16. CASE UNCHANGED vars
  BY <1>6, <1>16 DEF vars, serverVars, pageVars
<1>17. QED BY <1>8, <1>9, <1>10, <1>11, <1>12, <1>13, <1>14, <1>15, <1>16
           DEF Next, Bounded, Browser, User

-----------------------------------------------------------------------------
(* The readings. *)

\* No reading is from the future, and an answer waits only where one is expected.
Read ==
  /\ fetch \in {"idle", "asked", "again", "answered"}
  /\ stale \in BOOLEAN /\ excused \in BOOLEAN
  /\ shown # NoStatus => shown.at <= Len(published)
  /\ IF fetch = "answered" THEN reply.at <= Len(published) ELSE reply = NoStatus
  /\ trusted \in Key \cup {NoKey} /\ accepted \subseteq Key

LEMMA InvalidatedRead ==
  ASSUME fetch \in {"idle", "asked", "again", "answered"}, Invalidated,
         IF fetch = "answered" THEN reply.at <= Len(published) ELSE reply = NoStatus
  PROVE  /\ fetch' \in {"idle", "asked", "again", "answered"} /\ stale' \in BOOLEAN
         /\ IF fetch' = "answered" THEN reply'.at <= Len(published) ELSE reply' = NoStatus
<1>1. fetch' \in {"asked", fetch} /\ stale' \in BOOLEAN
      /\ reply' = IF fetch' = "answered" THEN reply ELSE NoStatus
  BY DEF Invalidated, Refetch
<1>2. QED BY <1>1

LEMMA ReadStep ==
  ASSUME Typed, Ordered, Read, [Next]_vars
  PROVE  Read'
<1> DEFINE n == Len(published)
<1>1. n \in Nat /\ published \in Seq(Kind)
  BY LenProperties DEF Ordered
<1>2. /\ bound.keys \in SUBSET Key
      /\ pending \in Key \cup {NoKey} /\ dialog \in Key \cup {NoKey}
      /\ shown # NoStatus => shown.at \in Nat
      /\ fetch = "answered" => reply.at \in Nat
  BY ConsoleConstants DEF Typed, Answer
<1>3. /\ fetch \in {"idle", "asked", "again", "answered"}
      /\ stale \in BOOLEAN /\ excused \in BOOLEAN
      /\ shown # NoStatus => shown.at <= n
      /\ IF fetch = "answered" THEN reply.at <= n ELSE reply = NoStatus
      /\ trusted \in Key \cup {NoKey} /\ accepted \subseteq Key
  BY DEF Read
<1>4. CASE UNCHANGED <<published, trusted, queryVars, accepted>>
  BY <1>3, <1>4 DEF Read, queryVars
<1>5. CASE Bounded(Server)
  <2>1. UNCHANGED <<queryVars, accepted>>
        /\ ((\E k \in Kind : Publish(k)) \/ UNCHANGED <<published, socketVars>>)
    BY <1>5, ServerSteps DEF ServerStep
  <2>2. Len(published') \in {n, n + 1}
    <3>1. ASSUME NEW k \in Kind, Publish(k) PROVE Len(published') = n + 1
      BY <1>1, <3>1, AppendFacts DEF Publish
    <3>2. QED BY <2>1, <3>1
  <2>3. trusted' \in Key \cup {NoKey}
    <3>1. CASE SupervisorMoves \/ OtherEvent \/ OtherHandshake \/ EngineProceeds
      BY <1>3, <3>1 DEF SupervisorMoves, OtherEvent, OtherHandshake, EngineProceeds
    <3>2. ASSUME NEW i, HandleStart(i) \/ HandleStop(i) \/ HandleRevoke(i) \/ HandleTest(i)
          PROVE  trusted' \in Key \cup {NoKey}
      BY <1>3, <3>2 DEF HandleStart, HandleStop, HandleRevoke, HandleTest
    <3>3. ASSUME NEW i, HandleTrust(i)
          PROVE  trusted' \in Key \cup {NoKey}
      BY <1>2, <1>3, <3>3 DEF HandleTrust
    <3>4. QED BY <1>5, <3>1, <3>2, <3>3 DEF Bounded, Server
  <2>4. UNCHANGED <<shown, fetch, reply, stale, excused, accepted>>
    BY <2>1 DEF queryVars
  <2>5. (shown # NoStatus => shown.at <= Len(published'))
        /\ (fetch = "answered" => reply.at <= Len(published'))
    BY <1>1, <1>2, <1>3, <2>2
  <2>6. QED BY <1>3, <2>3, <2>4, <2>5 DEF Read
<1>6. CASE StatusAnswered
  <2>1. /\ fetch' = "answered" /\ reply'.at = n
        /\ UNCHANGED <<published, trusted, accepted, shown, stale, excused>>
    BY <1>6 DEF StatusAnswered, serverVars, pageVars
  <2>2. QED BY <1>1, <1>3, <2>1 DEF Read
<1>7. CASE StatusArrives
  <2>1. /\ fetch = "answered" /\ fetch' = "idle" /\ shown' = reply /\ reply' = NoStatus
        /\ stale' = FALSE /\ UNCHANGED <<published, trusted, accepted>>
    BY <1>7 DEF StatusArrives, serverVars, pageVars
  <2>2. excused' \in BOOLEAN
    BY <1>7 DEF StatusArrives
  <2>3. QED BY <1>3, <2>1, <2>2 DEF Read
<1>8. CASE StatusFails
  <2>1. /\ fetch # "answered" /\ fetch' \in {"again", "idle"}
        /\ UNCHANGED <<published, trusted, accepted, shown, reply, stale>>
    BY <1>8 DEF StatusFails, serverVars, pageVars
  <2>2. excused' \in BOOLEAN
    BY <1>8 DEF StatusFails
  <2>3. QED BY <1>3, <2>1, <2>2 DEF Read
<1>9. CASE Poll \/ Refocus
  <2>1. /\ fetch = "idle" /\ fetch' = "asked"
        /\ UNCHANGED <<published, trusted, accepted, shown, reply, stale, excused>>
    BY <1>9 DEF Poll, Refocus, serverVars, pageVars
  <2>2. QED BY <1>3, <2>1 DEF Read
<1>10. CASE OnMessage
  <2>1. /\ Invalidated \/ UNCHANGED <<fetch, reply, stale>>
        /\ UNCHANGED <<published, trusted, accepted, shown, excused>>
    BY <1>10 DEF OnMessage, serverVars
  <2>2. QED BY <1>3, <2>1, InvalidatedRead DEF Read
<1>11. ASSUME NEW i, CallReturns(i)
       PROVE  Read'
  <2>1. /\ Invalidated \/ UNCHANGED <<fetch, reply, stale>>
        /\ UNCHANGED <<published, trusted, accepted, shown, excused>>
    BY <1>11 DEF CallReturns, serverVars
  <2>2. QED BY <1>3, <2>1, InvalidatedRead DEF Read
<1>12. ASSUME NEW p, Navigate(p)
       PROVE  Read'
  <2>1. /\ UNCHANGED <<published, trusted, accepted, shown, excused>>
        /\ \/ UNCHANGED <<fetch, reply, stale>>
           \/ fetch' = "asked" /\ reply' = NoStatus /\ stale' = TRUE
           \/ fetch = "idle" /\ fetch' = "asked" /\ UNCHANGED <<reply, stale>>
    BY <1>12 DEF Navigate, serverVars
  <2>2. QED BY <1>3, <2>1 DEF Read
<1>13. CASE ClickTrust
  <2>1. /\ dialog # NoKey /\ accepted' = accepted \cup {dialog}
        /\ UNCHANGED <<published, trusted, queryVars>>
    BY <1>13 DEF ClickTrust, serverVars
  <2>2. QED BY <1>2, <1>3, <2>1 DEF Read, queryVars
<1>14. CASE Connect \/ Accepted \/ Closed \/ ClickControl \/ OpenDialog \/ CloseDialog
            \/ ClickRevoke \/ ClickTest
  BY <1>4, <1>14 DEF Connect, Accepted, Closed, ClickControl, OpenDialog, CloseDialog,
                     ClickRevoke, ClickTest, serverVars, pageVars
<1>15. CASE UNCHANGED vars
  BY <1>4, <1>15 DEF vars, serverVars, pageVars
<1>16. QED BY <1>5, <1>6, <1>7, <1>8, <1>9, <1>10, <1>11, <1>12, <1>13, <1>14, <1>15
           DEF Next, Bounded, Browser, User

-----------------------------------------------------------------------------
(* The theorems about sizes and the log. *)

Complete == Promises /\ Counted /\ Sized /\ Read

LEMMA CompleteInit ==
  ASSUME Init
  PROVE  Complete
<1>1. Promises
  BY PromisesInit
<1>2. /\ bound \in Bounds /\ engine = 0 /\ calls = <<>> /\ published = <<>>
      /\ link = "down" /\ wire = <<>> /\ buffer = <<>> /\ page = "other"
      /\ entries = <<>> /\ shown = NoStatus /\ fetch = "idle" /\ reply = NoStatus
      /\ stale = FALSE /\ excused = FALSE /\ trusted = NoKey /\ accepted = {}
  BY DEF Init
<1>3. bound.events \in Nat /\ Capacity \in Nat /\ MaxBuffer \in Nat
  BY <1>2, ConsoleConstants DEF Capacity
<1>4. Len(calls) = 0 /\ Len(published) = 0 /\ Len(wire) = 0 /\ Len(buffer) = 0
      /\ Len(entries) = 0 /\ entries \in Seq(1 .. Len(published))
  BY <1>2
<1>5. Counted
  BY <1>2, <1>3, <1>4 DEF Counted
<1>6. Sized
  BY <1>2, <1>3, <1>4 DEF Sized
<1>7. Read
  BY <1>2 DEF Read
<1>8. QED BY <1>1, <1>5, <1>6, <1>7 DEF Complete

LEMMA CompleteStep ==
  ASSUME Complete, [Next]_vars
  PROVE  Complete'
<1>1. /\ Promises /\ Counted /\ Sized /\ Read
      /\ Typed /\ Trust /\ Ordered
  BY DEF Complete, Promises
<1>2. Promises' /\ Ordered'
  BY <1>1, PromisesStep, OrderedStep
<1>3. Counted' /\ Sized' /\ Read'
  BY <1>1, <1>2, CountedStep, SizedStep, ReadStep
<1>4. QED BY <1>2, <1>3 DEF Complete

LEMMA Completed == Spec => []Complete
<1>1. Init => Complete
  BY CompleteInit
<1>2. Complete /\ [Next]_vars => Complete'
  BY CompleteStep
<1>3. QED BY <1>1, <1>2, PTL DEF Spec

LEMMA CompleteIsTyped ==
  ASSUME Complete
  PROVE  TypeOK
<1>1. Typed /\ Trust /\ Ordered /\ Counted /\ Sized /\ Read
  BY DEF Complete, Promises
<1> DEFINE n == Len(published)
<1>2. n \in Nat /\ bound \in Bounds /\ n <= bound.events + 2
  BY <1>1, LenProperties DEF Ordered, Typed, Counted
<1>3. MaxEvent \in Nat /\ n <= MaxEvent
  BY <1>2, MaxIsAbove
<1>4. 1 .. n \subseteq Event
  BY <1>2, <1>3 DEF Event
<1>5. wire \in Seq(Event) /\ buffer \in Seq(Event) /\ entries \in Seq(Event)
  <2> DEFINE S == 1 .. n
  <2>1. wire \in Seq(S) /\ buffer \in Seq(S) /\ entries \in Seq(S)
    BY <1>1, <1>2, BelowIsSeq DEF Ordered, Sized
  <2>2. S \subseteq Event
    BY <1>4
  <2> HIDE DEF S
  <2>3. QED BY <2>1, <2>2, LargerSeq
<1>6. ASSUME NEW a \in Answer, a.at <= n
      PROVE  a \in Reading
  <2>1. a.at \in 0 .. MaxEvent
    BY <1>2, <1>3, <1>6 DEF Answer
  <2>2. QED BY <2>1 DEF Answer, Reading
<1>7. shown \in Reading \cup {NoStatus}
  BY <1>1, <1>6 DEF Typed, Read
<1>8. reply \in Reading \cup {NoStatus}
  BY <1>1, <1>6 DEF Typed, Read
<1>9. Len(wire) <= BufSize + RecentCap /\ Len(buffer) <= MaxBuffer /\ Len(entries) <= MaxBuffer
      /\ link \in {"down", "dialling", "up"}
      /\ page \in {"list", "detail", "dashboard", "other"}
  BY <1>1 DEF Sized, Capacity
<1>10. engine \in 0 .. Len(calls) /\ calls \in Seq(Call) /\ published \in Seq(Kind)
  BY <1>1 DEF Counted, Trust, Trusty, Ordered
<1>11. /\ fetch \in {"idle", "asked", "again", "answered"}
       /\ stale \in BOOLEAN /\ excused \in BOOLEAN
       /\ trusted \in Key \cup {NoKey} /\ accepted \subseteq Key
  BY <1>1 DEF Read
<1>12. server \in Status /\ pending \in Key \cup {NoKey} /\ dialog \in Key \cup {NoKey}
  BY <1>1 DEF Typed
<1>13. QED BY <1>2, <1>3, <1>5, <1>7, <1>8, <1>9, <1>10, <1>11, <1>12 DEF TypeOK

\* The state keeps its types, and nothing outgrows its size: neither the channel
\* of a client (200 + 256 events, events.go:77, ws.go:21) nor the memory of the socket
\* (ws.ts:33-38) nor the log (log-viewer.tsx:28-31).
THEOREM ConsoleTypeCorrect == Spec => []TypeOK
<1>1. Complete => TypeOK
  BY CompleteIsTyped
<1>2. QED BY <1>1, Completed, PTL

\* For every size of the buffer, however often the socket connects again and
\* whenever the log viewer is opened: it ends with all that the socket remembers
\* about its tunnel (log-viewer.tsx:26-32, ws.ts:58-62).
THEOREM LogIsComplete == Spec => []LogEndsWithBuffer
<1>1. ASSUME Complete PROVE LogEndsWithBuffer
  <2>1. Ordered /\ Sized
    BY <1>1 DEF Complete, Promises
  <2>2. Len(published) \in Nat /\ buffer \in Seq(1 .. Len(published))
    BY <2>1, BelowIsSeq, LenProperties DEF Ordered
  <2>3. LogOf(buffer) \in Seq(1 .. Len(published)) /\ entries \in Seq(1 .. Len(published))
    BY <2>1, <2>2, LogIsKept DEF Sized
  <2>4. page = "detail" => Ends(LogOf(buffer), entries)
    BY <2>1 DEF Sized
  <2>5. QED BY <2>3, <2>4, EndsIsSuffix DEF LogEndsWithBuffer
<1>2. Complete => LogEndsWithBuffer
  BY <1>1
<1>3. QED BY <1>2, Completed, PTL
=============================================================================
