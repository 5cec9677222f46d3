--------------------------- MODULE InductionLemmas ---------------------------
(***************************************************************************)
(* Induction over the natural numbers for a set instead of a predicate,    *)
(* so that the provers can apply it: the property to be shown is written   *)
(* as the set of numbers that have it.  The proofs about loops over a log  *)
(* (EventsForBranch, the replays of an agent) rest on these facts.  With   *)
(* them, what Picked and Concat return (Subsequences).                     *)
(***************************************************************************)
EXTENDS Integers, Sequences, Subsequences, WellFoundedInduction, TLAPS

(* A non-empty set of numbers has a least one. *)
LEMMA LeastNumber ==
    ASSUME NEW T, T \subseteq Nat, T # {}
    PROVE  \E n \in T : \A m \in T : n <= m
<1> DEFINE R == {ss \in Nat \X Nat : ss[1] < ss[2]}
<1>1. IsWellFoundedOn(R, Nat)
  BY NatLessThanWellFounded DEF OpToRel
<1>2. \E x \in T : \A y \in T : ~ (<<y, x>> \in R)
  <2> HIDE DEF R
  <2> QED
    BY <1>1, WFMin, Zenon
<1>3. PICK x \in T : \A y \in T : ~ (<<y, x>> \in R)
  BY <1>2
<1>4. ASSUME NEW y \in T
      PROVE  x <= y
  <2>1. x \in Nat /\ y \in Nat
    OBVIOUS
  <2>2. <<y, x>> \in Nat \X Nat /\ <<y, x>>[1] = y /\ <<y, x>>[2] = x
    BY <2>1
  <2>3. ~ (y < x)
    BY <1>3, <2>2
  <2> QED
    BY <2>1, <2>3
<1> QED
  BY <1>4

(* A set that holds 0 and with every number the next one is Nat. *)
LEMMA NumberInduction ==
    ASSUME NEW T, T \subseteq Nat, 0 \in T, \A n \in T : n + 1 \in T
    PROVE  T = Nat
<1> SUFFICES ASSUME Nat \ T # {}
             PROVE  FALSE
  BY Zenon
<1>1. PICK n \in Nat \ T : \A m \in Nat \ T : n <= m
  BY LeastNumber, Zenon
<1>2. n # 0 /\ n - 1 \in Nat /\ n - 1 \in T
  BY <1>1
<1> QED
  BY <1>2, (n - 1) + 1 = n

(* A non-empty set of numbers up to n has a greatest one. *)
LEMMA GreatestNumber ==
    ASSUME NEW n \in Nat, NEW T, T \subseteq 0..n, T # {}
    PROVE  \E i \in T : \A j \in T : j <= i
<1> DEFINE D == {n - i : i \in T}
<1>1. D \subseteq Nat /\ D # {}
  <2>1. \A i \in T : n - i \in Nat
    OBVIOUS
  <2>2. PICK i \in T : TRUE
    BY Zenon
  <2>3. n - i \in D
    BY <2>2
  <2> QED
    BY <2>1, <2>3
<1>2. PICK d \in D : \A m \in D : d <= m
  <2> HIDE DEF D
  <2> QED
    BY <1>1, LeastNumber, Zenon
<1>3. PICK i \in T : d = n - i
  BY <1>2
<1>4. ASSUME NEW j \in T
      PROVE  j <= i
  <2>1. d <= n - j
    BY <1>2
  <2>2. i \in Nat /\ j \in Nat
    OBVIOUS
  <2> QED
    BY <2>1, <2>2, <1>3
<1> QED
  BY <1>4

(* Induction up to a bound: T holds all numbers from 0 to N. *)
LEMMA BoundedInduction ==
    ASSUME NEW N \in Nat, NEW T, 0 \in T,
           \A n \in 1..N : n - 1 \in T => n \in T
    PROVE  \A n \in 0..N : n \in T
<1> DEFINE U == {n \in Nat : n <= N => n \in T}
<1>1. U \subseteq Nat /\ 0 \in U
  OBVIOUS
<1>2. ASSUME NEW n \in U
      PROVE  n + 1 \in U
  <2>1. n \in Nat /\ n + 1 \in Nat /\ (n + 1) - 1 = n
    OBVIOUS
  <2>2. n + 1 <= N => n <= N /\ n + 1 \in 1..N
    BY <2>1
  <2> QED
    BY <2>1, <2>2
<1>3. U = Nat
  <2> HIDE DEF U
  <2> QED
    BY <1>1, <1>2, NumberInduction, Zenon
<1>4. ASSUME NEW n \in 0..N
      PROVE  n \in T
  <2>1. n \in Nat /\ n <= N
    OBVIOUS
  <2> QED
    BY <1>3, <2>1
<1> QED
  BY <1>4

(* A loop of N rounds over values of V: it starts with init, and g gives     *)
(* what each round does.                                                     *)
IsLoop(V, N, init, g) == N \in Nat /\ init \in V /\ g \in [V \X (1..N) -> V]

(* f holds the value after every round. *)
Runs(f, V, N, init, g) ==
    f \in [0..N -> V] /\ f[0] = init /\ \A n \in 1..N : f[n] = g[<<f[n - 1], n>>]

(* A loop computes a value for every round. *)
LEMMA LoopExists ==
    ASSUME NEW V, NEW N, NEW init, NEW g, IsLoop(V, N, init, g)
    PROVE  \E f : Runs(f, V, N, init, g)
<1> DEFINE T == {m \in 0..N : \E f : Runs(f, V, m, init, g)}
<1> USE DEF IsLoop, Runs
<1>1. 0 \in T
  <2> DEFINE f == [n \in 0..0 |-> init]
  <2>1. f \in [0..0 -> V] /\ f[0] = init /\ 0 \in 0..N
    OBVIOUS
  <2>2. \A n \in 1..0 : f[n] = g[<<f[n - 1], n>>]
    OBVIOUS
  <2> QED
    BY <2>1, <2>2, Zenon
<1>2. ASSUME NEW m \in 1..N, m - 1 \in T
      PROVE  m \in T
  <2>1. PICK f : Runs(f, V, m - 1, init, g)
    BY <1>2
  <2> DEFINE h == [n \in 0..m |-> IF n = m THEN g[<<f[m - 1], m>>] ELSE f[n]]
  <2>2. /\ m - 1 \in 0..(m - 1) /\ m \in Nat /\ m - 1 \in Nat /\ 0 # m /\ 0 \in 0..m /\ m \in 0..m
        /\ 0 \in 0..(m - 1)
    OBVIOUS
  <2>3. f \in [0..(m - 1) -> V] /\ f[m - 1] \in V
    BY <2>1, <2>2
  <2>4. g[<<f[m - 1], m>>] \in V
    BY <2>3
  <2>5. \A n \in 0..m : n # m => n \in 0..(m - 1)
    BY <2>2
  <2>6. h \in [0..m -> V] /\ h[0] = init /\ h[m] = g[<<f[m - 1], m>>]
    BY <2>1, <2>2, <2>3, <2>4, <2>5
  <2>7. \A n \in 0..(m - 1) : h[n] = f[n]
    BY <2>2
  <2> HIDE DEF h
  <2>8. ASSUME NEW n \in 1..m
        PROVE  h[n] = g[<<h[n - 1], n>>]
    <3>1. n - 1 \in 0..(m - 1) /\ (n # m => n \in 1..(m - 1) /\ n \in 0..(m - 1))
      BY <2>2
    <3>2. h[n - 1] = f[n - 1]
      BY <2>7, <3>1
    <3>3. CASE n = m
      BY <2>6, <3>2, <3>3
    <3>4. CASE n # m
      BY <2>1, <2>7, <3>1, <3>2, <3>4
    <3> QED
      BY <3>3, <3>4
  <2>9. Runs(h, V, m, init, g)
    BY <2>6, <2>8
  <2>10. m \in 0..N
    OBVIOUS
  <2> QED
    BY <2>9, <2>10
<1>3. N \in T
  <2>1. N \in 0..N
    OBVIOUS
  <2> HIDE DEF T
  <2> QED
    BY <1>1, <1>2, <2>1, BoundedInduction
<1> QED
  BY <1>3

-----------------------------------------------------------------------------
(* What Picked returns *)

(* f computes Picked(s, is) step by step, up to n. *)
Picks(f, s, is, n) ==
    \A i \in 0..n : f[i] = IF i = 0 THEN << >>
                           ELSE IF i \in is THEN Append(f[i - 1], s[i]) ELSE f[i - 1]

(* Such a function exists for every n. *)
LEMMA PicksExist ==
    ASSUME NEW s, NEW is
    PROVE  \A n \in Nat : \E f : DOMAIN f = 0..n /\ f = [i \in DOMAIN f |-> f[i]] /\ Picks(f, s, is, n)
<1> DEFINE P(n) == \E f : DOMAIN f = 0..n /\ f = [i \in DOMAIN f |-> f[i]] /\ Picks(f, s, is, n)
           T == {n \in Nat : P(n)}
<1>1. 0 \in T
  <2> DEFINE f == [i \in 0..0 |-> << >>]
  <2>1. DOMAIN f = 0..0 /\ f = [i \in DOMAIN f |-> f[i]] /\ Picks(f, s, is, 0)
    BY DEF Picks
  <2> HIDE DEF f
  <2> QED
    BY <2>1
<1>2. ASSUME NEW n \in T
      PROVE  n + 1 \in T
  <2>1. n \in Nat /\ P(n)
    OBVIOUS
  <2>2. PICK f : DOMAIN f = 0..n /\ Picks(f, s, is, n)
    BY <2>1
  <2> DEFINE x == IF n + 1 \in is THEN Append(f[n], s[n + 1]) ELSE f[n]
             g == [i \in 0..(n + 1) |-> IF i = n + 1 THEN x ELSE f[i]]
  <2>3. ASSUME NEW i \in 0..(n + 1)
        PROVE  g[i] = IF i = 0 THEN << >> ELSE IF i \in is THEN Append(g[i - 1], s[i]) ELSE g[i - 1]
    <3>1. CASE i = n + 1
      BY <3>1, <2>1
    <3>2. CASE i \in 0..n
      <4>1. i = 0 \/ i - 1 \in 0..n
        BY <3>2, <2>1
      <4>2. f[i] = IF i = 0 THEN << >> ELSE IF i \in is THEN Append(f[i - 1], s[i]) ELSE f[i - 1]
        BY <2>2, <3>2 DEF Picks
      <4> QED
        BY <4>1, <4>2, <3>2, <2>1
    <3> QED
      BY <3>1, <3>2, <2>1
  <2>4. DOMAIN g = 0..(n + 1) /\ g = [i \in DOMAIN g |-> g[i]]
    OBVIOUS
  <2> HIDE DEF g
  <2>5. Picks(g, s, is, n + 1)
    BY <2>3 DEF Picks
  <2> QED
    BY <2>1, <2>4, <2>5
<1> HIDE DEF P
<1>3. T = Nat
  <2>1. T \subseteq Nat
    OBVIOUS
  <2> HIDE DEF T
  <2> QED
    BY <1>1, <1>2, <2>1, NumberInduction, Zenon
<1>4. \A n \in Nat : P(n)
  BY <1>3
<1> QED
  BY <1>4 DEF P

(* Picked is computed by such a function, whose values are sequences. *)
LEMMA PickedByLoop ==
    ASSUME NEW S, NEW s \in Seq(S), NEW is
    PROVE  \E f : /\ Picks(f, s, is, Len(s)) /\ Picked(s, is) = f[Len(s)]
                  /\ \A n \in 0..Len(s) : f[n] \in Seq(S)
<1> DEFINE Loop(f) == f = [n \in 0..Len(s) |->
                             IF n = 0 THEN << >>
                             ELSE IF n \in is THEN Append(f[n - 1], s[n]) ELSE f[n - 1]]
           f == CHOOSE f : Loop(f)
<1>1. Len(s) \in Nat
  OBVIOUS
<1>2. \E g : Loop(g)
  <2>1. PICK g : DOMAIN g = 0..Len(s) /\ g = [i \in DOMAIN g |-> g[i]] /\ Picks(g, s, is, Len(s))
    BY <1>1, PicksExist, Zenon
  <2>2. Loop(g)
    BY <2>1 DEF Picks
  <2> QED
    BY <2>2, SMTT(60), Zenon
<1>3. Loop(f)
  <2> HIDE DEF Loop
  <2> QED
    BY <1>2
<1>4. Picked(s, is) = f[Len(s)]
  BY DEF Picked
<1> HIDE DEF f
<1>5. Picks(f, s, is, Len(s))
  <2> SUFFICES ASSUME NEW i \in 0..Len(s)
               PROVE  f[i] = IF i = 0 THEN << >> ELSE IF i \in is THEN Append(f[i - 1], s[i]) ELSE f[i - 1]
    BY DEF Picks
  <2> QED
    BY <1>3, Zenon
<1> HIDE DEF Loop
<1>6. \A n \in 0..Len(s) : f[n] \in Seq(S)
  <2> DEFINE T == {n \in Nat : n <= Len(s) => f[n] \in Seq(S)}
  <2>1. 0 \in T
    <3>1. 0 \in 0..Len(s)
      BY <1>1
    <3>2. f[0] = << >>
      BY <1>5, <3>1 DEF Picks
    <3>3. f[0] \in Seq(S)
      BY <3>2
    <3> QED
      BY <3>3
  <2>2. ASSUME NEW n \in T
        PROVE  n + 1 \in T
    <3> SUFFICES ASSUME n + 1 <= Len(s)
                 PROVE  f[n + 1] \in Seq(S)
      OBVIOUS
    <3>1. n \in Nat /\ n + 1 \in 0..Len(s) /\ n + 1 # 0 /\ (n + 1) - 1 = n /\ f[n] \in Seq(S)
      BY <1>1
    <3>2. f[n + 1] = IF n + 1 \in is THEN Append(f[n], s[n + 1]) ELSE f[n]
      BY <1>5, <3>1 DEF Picks
    <3>3. s[n + 1] \in S
      BY <1>1, <3>1
    <3> QED
      BY <3>1, <3>2, <3>3
  <2>3. T = Nat
    <3>1. T \subseteq Nat
      OBVIOUS
    <3> HIDE DEF T
    <3> QED
      BY <2>1, <2>2, <3>1, NumberInduction, Zenon
  <2> QED
    BY <1>1, <2>3
<1> QED
  BY <1>4, <1>5, <1>6

(* Two such functions agree. *)
LEMMA PicksAgree ==
    ASSUME NEW N \in Nat, NEW s, NEW is, NEW f, NEW g, Picks(f, s, is, N), Picks(g, s, is, N)
    PROVE  \A n \in 0..N : f[n] = g[n]
<1> DEFINE T == {n \in 0..N : f[n] = g[n]}
<1>1. 0 \in T
  <2>1. 0 \in 0..N
    OBVIOUS
  <2> QED
    BY <2>1 DEF Picks
<1>2. ASSUME NEW n \in 1..N, n - 1 \in T
      PROVE  n \in T
  <2>1. n \in 0..N /\ n # 0 /\ f[n - 1] = g[n - 1]
    BY <1>2
  <2>2. f[n] = IF n \in is THEN Append(f[n - 1], s[n]) ELSE f[n - 1]
    BY <2>1 DEF Picks
  <2>3. g[n] = IF n \in is THEN Append(g[n - 1], s[n]) ELSE g[n - 1]
    BY <2>1 DEF Picks
  <2> QED
    BY <2>1, <2>2, <2>3
<1>3. \A n \in 0..N : n \in T
  <2> HIDE DEF T
  <2> QED
    BY <1>1, <1>2, BoundedInduction
<1> QED
  BY <1>3

(* When t continues s, what is picked of t continues what is picked of s. *)
LEMMA PickedContinues ==
    ASSUME NEW S, NEW s \in Seq(S), NEW t \in Seq(S), NEW is, NEW js,
           Len(s) <= Len(t),
           \A i \in 1..Len(s) : s[i] = t[i] /\ (i \in is <=> i \in js)
    PROVE  LET p == Picked(s, is)
               q == Picked(t, js)
               rest == (Len(s) + 1)..Len(t) IN
           /\ p \in Seq(S) /\ q \in Seq(S)
           /\ Len(p) <= Len(q) /\ \A i \in 1..Len(p) : p[i] = q[i]
           /\ (\A i \in rest : i \notin js) => q = p
           /\ (\E i \in rest : i \in js) => Len(p) < Len(q)
           /\ (Len(t) = Len(s) + 1 /\ Len(t) \in js) => q = Append(p, t[Len(t)])
<1> DEFINE m == Len(s)
           n == Len(t)
           p == Picked(s, is)
           q == Picked(t, js)
<1>1. m \in Nat /\ n \in Nat /\ m <= n
  OBVIOUS
<1>2. PICK f : /\ Picks(f, s, is, m) /\ p = f[m]
               /\ \A k \in 0..m : f[k] \in Seq(S)
  BY PickedByLoop
<1>3. PICK g : /\ Picks(g, t, js, n) /\ q = g[n]
               /\ \A k \in 0..n : g[k] \in Seq(S)
  BY PickedByLoop, Zenon
<1> HIDE DEF p, q
<1>4. \A k \in 0..m : f[k] = g[k]
  <2> DEFINE T == {k \in Nat : k <= m => f[k] = g[k]}
  <2>1. 0 \in T
    <3>1. 0 \in 0..m /\ 0 \in 0..n
      BY <1>1
    <3>2. f[0] = << >> /\ g[0] = << >>
      BY <1>2, <1>3, <3>1 DEF Picks
    <3> QED
      BY <3>2
  <2>2. ASSUME NEW k \in T
        PROVE  k + 1 \in T
    <3> SUFFICES ASSUME k + 1 <= m
                 PROVE  f[k + 1] = g[k + 1]
      OBVIOUS
    <3>1. /\ k \in Nat /\ k + 1 \in 0..m /\ k + 1 \in 0..n /\ k + 1 \in 1..m /\ k + 1 # 0
          /\ (k + 1) - 1 = k /\ f[k] = g[k]
      BY <1>1
    <3>2. /\ f[k + 1] = IF k + 1 \in is THEN Append(f[k], s[k + 1]) ELSE f[k]
          /\ g[k + 1] = IF k + 1 \in js THEN Append(g[k], t[k + 1]) ELSE g[k]
      BY <1>2, <1>3, <3>1 DEF Picks
    <3>3. s[k + 1] = t[k + 1] /\ (k + 1 \in is <=> k + 1 \in js)
      BY <3>1
    <3> QED
      BY <3>1, <3>2, <3>3
  <2>3. T = Nat
    <3>1. T \subseteq Nat
      OBVIOUS
    <3> HIDE DEF T
    <3> QED
      BY <2>1, <2>2, <3>1, NumberInduction, Zenon
  <2> QED
    BY <1>1, <2>3
<1>5. g[m] = p /\ p \in Seq(S) /\ q \in Seq(S)
  BY <1>1, <1>2, <1>3, <1>4
<1>6. ASSUME NEW k \in Nat, m <= k, k + 1 <= n
      PROVE  g[k + 1] = (IF k + 1 \in js THEN Append(g[k], t[k + 1]) ELSE g[k]) /\ t[k + 1] \in S
  <2>1. k + 1 \in 0..n /\ k + 1 # 0 /\ (k + 1) - 1 = k /\ k + 1 \in 1..n
    BY <1>1, <1>6
  <2> QED
    BY <1>3, <2>1 DEF Picks
<1> DEFINE Grown(k) == /\ g[k] \in Seq(S)
                       /\ Len(p) <= Len(g[k]) /\ \A i \in 1..Len(p) : p[i] = g[k][i]
                       /\ (\A i \in (m + 1)..k : i \notin js) => g[k] = p
                       /\ (\E i \in (m + 1)..k : i \in js) => Len(p) < Len(g[k])
           T == {d \in Nat : m + d <= n => Grown(m + d)}
<1>7. 0 \in T
  BY <1>1, <1>5
<1>8. ASSUME NEW d \in T
      PROVE  d + 1 \in T
  <2> SUFFICES ASSUME m + (d + 1) <= n
               PROVE  Grown(m + (d + 1))
    OBVIOUS
  <2> DEFINE k == m + d
  <2>1. d \in Nat /\ k \in Nat /\ m <= k /\ k + 1 <= n /\ m + (d + 1) = k + 1 /\ Grown(k)
    BY <1>1
  <2>2. g[k + 1] = (IF k + 1 \in js THEN Append(g[k], t[k + 1]) ELSE g[k]) /\ t[k + 1] \in S
    BY <1>6, <2>1
  <2>3. (m + 1)..(k + 1) = ((m + 1)..k) \cup {k + 1}
    BY <1>1, <2>1, SMTT(60), Zenon
  <2> HIDE DEF k, m
  <2>4. CASE k + 1 \in js
    <3>1. /\ g[k + 1] \in Seq(S) /\ Len(g[k + 1]) = Len(g[k]) + 1
          /\ \A i \in 1..Len(g[k]) : g[k + 1][i] = g[k][i]
      BY <2>1, <2>2, <2>4
    <3>2. Len(p) \in Nat /\ Len(g[k]) \in Nat
      BY <1>5, <2>1
    <3>3. Len(p) < Len(g[k + 1]) /\ \A i \in 1..Len(p) : p[i] = g[k + 1][i]
      BY <2>1, <3>1, <3>2, SMTT(60), Zenon
    <3>4. k + 1 \in (m + 1)..(k + 1)
      BY <2>3
    <3>5. Len(p) <= Len(g[k + 1])
      BY <3>1, <3>2, <3>3
    <3>6. Grown(k + 1)
      BY <2>4, <3>1, <3>3, <3>4, <3>5
    <3> QED
      BY <2>1, <3>6
  <2>5. CASE k + 1 \notin js
    <3>1. g[k + 1] = g[k]
      BY <2>2, <2>5
    <3>2. Grown(k + 1)
      BY <2>1, <2>3, <2>5, <3>1
    <3> QED
      BY <2>1, <3>2
  <2> QED
    BY <2>4, <2>5
<1>9. Grown(n)
  <2>1. T = Nat
    <3>1. T \subseteq Nat
      OBVIOUS
    <3> HIDE DEF T
    <3> QED
      BY <1>7, <1>8, <3>1, NumberInduction, Zenon
  <2>2. n - m \in Nat /\ m + (n - m) = n /\ m + (n - m) <= n
    BY <1>1
  <2>3. n - m \in T
    BY <2>1, <2>2, Zenon
  <2>4. Grown(m + (n - m))
    BY <2>2, <2>3
  <2> QED
    BY <2>2, <2>4
<1>10. ASSUME n = m + 1, n \in js
       PROVE  q = Append(p, t[n])
  <2>1. m \in Nat /\ m <= m /\ m + 1 <= n
    BY <1>1, <1>10
  <2>2. g[m + 1] = IF m + 1 \in js THEN Append(g[m], t[m + 1]) ELSE g[m]
    BY <1>6, <2>1
  <2> HIDE DEF m, n
  <2> QED
    BY <1>3, <1>5, <1>10, <2>2
<1> QED
  BY <1>3, <1>5, <1>9, <1>10 DEF p, q

(* Picked keeps the order: at tells where the elements kept went. *)
LEMMA PickedAt ==
    ASSUME NEW S, NEW s \in Seq(S), NEW is, \A i \in is : i \in 1..Len(s)
    PROVE  /\ Picked(s, is) \in Seq(S)
           /\ \E at \in [is -> 1..Len(Picked(s, is))] :
                 /\ \A i \in is : Picked(s, is)[at[i]] = s[i]
                 /\ \A i, j \in is : i < j => at[i] < at[j]
                 /\ \A k \in 1..Len(Picked(s, is)) : \E i \in is : at[i] = k
<1> DEFINE N == Len(s)
<1>1. N \in Nat
  OBVIOUS
<1>2. PICK f : /\ Picks(f, s, is, N) /\ Picked(s, is) = f[N]
               /\ \A n \in 0..N : f[n] \in Seq(S)
  BY PickedByLoop
<1> HIDE DEF N
<1> DEFINE Kept(n) == {i \in is : i <= n}
           Put(n) == \A i \in Kept(n) : Len(f[i]) \in 1..Len(f[n]) /\ f[n][Len(f[i])] = s[i]
           Up(n) == \A i, j \in Kept(n) : i < j => Len(f[i]) < Len(f[j])
           Onto(n) == \A k \in 1..Len(f[n]) : \E i \in Kept(n) : Len(f[i]) = k
           T == {n \in 0..N : Put(n) /\ Up(n) /\ Onto(n)}
<1>3. \A i \in is : i \in Nat /\ 1 <= i /\ i <= N
  BY <1>1 DEF N
<1>4. 0 \in T
  <2>1. 0 \in 0..N /\ Kept(0) = {}
    BY <1>1, <1>3
  <2>2. f[0] = << >>
    BY <1>2, <2>1 DEF Picks
  <2> QED
    BY <2>1, <2>2
<1>5. ASSUME NEW n \in 1..N, n - 1 \in T
      PROVE  n \in T
  <2>1. /\ n \in 0..N /\ n # 0 /\ n - 1 \in 0..N /\ n \in Nat
        /\ Put(n - 1) /\ Up(n - 1) /\ Onto(n - 1)
    BY <1>1, <1>5
  <2>2. f[n] = IF n \in is THEN Append(f[n - 1], s[n]) ELSE f[n - 1]
    BY <1>2, <2>1 DEF Picks
  <2>3. f[n - 1] \in Seq(S) /\ f[n] \in Seq(S) /\ Len(f[n - 1]) \in Nat
    BY <1>2, <2>1
  <2>4. CASE n \notin is
    <3>1. Kept(n) = Kept(n - 1)
      BY <1>3, <2>1, <2>4
    <3> QED
      BY <2>1, <2>2, <2>4, <3>1
  <2>5. CASE n \in is
    <3>0. \A i \in is : i <= n <=> (i <= n - 1 \/ i = n)
      BY <1>3, <2>1
    <3>1. Kept(n) = Kept(n - 1) \cup {n} /\ \A i \in Kept(n - 1) : i < n
      <4>1. Kept(n) = Kept(n - 1) \cup {n}
        BY <2>5, <3>0, Zenon
      <4>2. \A i \in Kept(n - 1) : i < n
        BY <1>3, <2>1
      <4> QED
        BY <4>1, <4>2
    <3>2. /\ Len(f[n]) = Len(f[n - 1]) + 1 /\ f[n][Len(f[n])] = s[n]
          /\ \A k \in 1..Len(f[n - 1]) : f[n][k] = f[n - 1][k]
      BY <2>2, <2>3, <2>5
    <3> HIDE DEF Kept
    <3>3. Put(n)
      <4> TAKE i \in Kept(n)
      <4>1. CASE i = n
        BY <2>3, <3>2, <4>1, SMTT(60), Zenon
      <4>2. CASE i \in Kept(n - 1)
        <5>1. Len(f[i]) \in 1..Len(f[n - 1]) /\ f[n - 1][Len(f[i])] = s[i]
          BY <2>1, <4>2
        <5> QED
          BY <2>3, <3>2, <5>1
      <4> QED
        BY <3>1, <4>1, <4>2
    <3>4. Up(n)
      <4> TAKE i, j \in Kept(n)
      <4> HAVE i < j
      <4>1. CASE i \in Kept(n - 1) /\ j \in Kept(n - 1)
        BY <2>1, <4>1
      <4>2. CASE i \in Kept(n - 1) /\ j = n
        <5>1. Len(f[i]) \in 1..Len(f[n - 1])
          BY <2>1, <4>2
        <5> QED
          BY <2>3, <3>2, <4>2, <5>1
      <4>3. i # n
        <5> SUFFICES ASSUME i = n
                     PROVE  FALSE
          OBVIOUS
        <5>1. j = n \/ j < n
          BY <3>1
        <5>2. j \in Nat
          BY <3>1, <2>1, <1>3 DEF Kept
        <5> QED
          BY <2>1, <5>1, <5>2
      <4> QED
        BY <3>1, <4>1, <4>2, <4>3
    <3>5. Onto(n)
      <4> TAKE k \in 1..Len(f[n])
      <4>1. CASE k = Len(f[n])
        BY <3>1, <4>1
      <4>2. CASE k \in 1..Len(f[n - 1])
        BY <2>1, <3>1, <4>2
      <4> QED
        BY <2>3, <3>2, <4>1, <4>2
    <3> QED
      BY <2>1, <3>3, <3>4, <3>5
  <2> QED
    BY <2>4, <2>5
<1>6. N \in T
  <2>1. N \in 0..N
    BY <1>1
  <2> HIDE DEF T
  <2> QED
    BY <1>1, <1>4, <1>5, <2>1, BoundedInduction, Zenon
<1>7. Put(N) /\ Up(N) /\ Onto(N)
  BY <1>6
<1>8. Kept(N) = is
  BY <1>1, <1>3
<1> DEFINE at == [i \in is |-> Len(f[i])]
<1>9. at \in [is -> 1..Len(f[N])] /\ \A i \in is : at[i] = Len(f[i])
  BY <1>7, <1>8
<1>10. f[N] \in Seq(S)
  BY <1>1, <1>2
<1> HIDE DEF Kept
<1>11. \A i \in is : f[N][at[i]] = s[i]
  BY <1>7, <1>8, <1>9
<1>12. \A i, j \in is : i < j => at[i] < at[j]
  BY <1>7, <1>8, <1>9
<1>13. \A k \in 1..Len(f[N]) : \E i \in is : at[i] = k
  BY <1>7, <1>8, <1>9
<1> HIDE DEF at
<1> QED
  BY <1>2, <1>9, <1>10, <1>11, <1>12, <1>13

(* An element appended to s is picked last or not at all. *)
LEMMA PickedAppend ==
    ASSUME NEW S, NEW s \in Seq(S), NEW e \in S, NEW is, NEW js,
           \A i \in 1..Len(s) : i \in is <=> i \in js
    PROVE  /\ Picked(s, is) \in Seq(S) /\ Picked(Append(s, e), js) \in Seq(S)
           /\ Picked(Append(s, e), js) =
                  IF Len(s) + 1 \in js THEN Append(Picked(s, is), e) ELSE Picked(s, is)
<1> DEFINE t == Append(s, e)
<1>1. t \in Seq(S) /\ Len(t) = Len(s) + 1 /\ Len(s) \in Nat /\ t[Len(t)] = e
  OBVIOUS
<1>2. Len(s) <= Len(t) /\ (Len(s) + 1)..Len(t) = {Len(s) + 1}
  BY <1>1
<1>3. \A i \in 1..Len(s) : s[i] = t[i]
  OBVIOUS
<1> HIDE DEF t
<1>4. /\ Picked(s, is) \in Seq(S) /\ Picked(t, js) \in Seq(S)
      /\ (\A i \in (Len(s) + 1)..Len(t) : i \notin js) => Picked(t, js) = Picked(s, is)
      /\ (Len(t) = Len(s) + 1 /\ Len(t) \in js) => Picked(t, js) = Append(Picked(s, is), t[Len(t)])
  BY <1>1, <1>2, <1>3, PickedContinues
<1> QED
  BY <1>1, <1>2, <1>4 DEF t

-----------------------------------------------------------------------------
(* What Concat returns *)

(* Concat is computed step by step. *)
LEMMA ConcatByLoop ==
    ASSUME NEW S, NEW ss \in Seq(Seq(S))
    PROVE  \E f \in [0..Len(ss) -> Seq(S)] :
               /\ Concat(ss) = f[Len(ss)] /\ f[0] = << >>
               /\ \A n \in 1..Len(ss) : f[n] = f[n - 1] \o ss[n]
<1> DEFINE V == Seq(S)
           N == Len(ss)
           g == [x \in V \X (1..N) |-> x[1] \o ss[x[2]]]
           Loop(f) == f = [n \in 0..N |-> IF n = 0 THEN << >> ELSE f[n - 1] \o ss[n]]
           c == CHOOSE f : Loop(f)
<1>1. N \in Nat /\ \A n \in 1..N : ss[n] \in V
  OBVIOUS
<1>2. << >> \in V /\ \A x, y \in V : x \o y \in V
  OBVIOUS
<1>3. Concat(ss) = c[N]
  BY DEF Concat
<1> HIDE DEF V, N
<1>4. IsLoop(V, N, << >>, g) /\ \A v \in V : \A n \in 1..N : g[<<v, n>>] = v \o ss[n]
  BY <1>1, <1>2, Zenon DEF IsLoop
<1> HIDE DEF g
<1>5. PICK f : Runs(f, V, N, << >>, g)
  BY <1>4, LoopExists
<1>6. /\ f \in [0..N -> V] /\ f[0] = << >>
      /\ \A n \in 1..N : f[n] = f[n - 1] \o ss[n]
  <2>1. f \in [0..N -> V] /\ f[0] = << >> /\ \A n \in 1..N : f[n] = g[<<f[n - 1], n>>]
    BY <1>5 DEF Runs
  <2>2. ASSUME NEW n \in 1..N
        PROVE  f[n] = f[n - 1] \o ss[n]
    <3>1. n - 1 \in 0..N
      BY <1>1
    <3>2. f[n - 1] \in V
      BY <2>1, <3>1, SMTT(60), Zenon
    <3> QED
      BY <1>4, <2>1, <3>2, Zenon
  <2> QED
    BY <2>1, <2>2, Zenon
<1>7. Loop(f)
  <2>1. \A n \in 0..N : n = 0 \/ n \in 1..N
    BY <1>1
  <2>2. \A n \in 0..N : f[n] = IF n = 0 THEN << >> ELSE f[n - 1] \o ss[n]
    BY <1>1, <1>6, <2>1, Zenon
  <2> QED
    BY <1>6, <2>2, Zenon
<1>8. Loop(c)
  <2> HIDE DEF Loop
  <2> QED
    BY <1>7
<1> HIDE DEF c
<1>9. DOMAIN c = 0..N /\ \A n \in 0..N : c[n] = IF n = 0 THEN << >> ELSE c[n - 1] \o ss[n]
  BY <1>8, Zenon
<1> DEFINE T == {n \in 0..N : c[n] = f[n]}
<1>10. 0 \in T
  <2>1. 0 \in 0..N
    BY <1>1
  <2> QED
    BY <1>6, <1>9, <2>1, Zenon
<1>11. ASSUME NEW n \in 1..N, n - 1 \in T
       PROVE  n \in T
  <2>1. n \in 0..N /\ n # 0 /\ c[n - 1] = f[n - 1]
    BY <1>1, <1>11
  <2>2. c[n] = c[n - 1] \o ss[n]
    BY <1>9, <2>1, Zenon
  <2> QED
    BY <1>6, <2>1, <2>2, Zenon
<1>12. N \in T
  <2>1. N \in 0..N
    BY <1>1
  <2> HIDE DEF T
  <2> QED
    BY <1>1, <1>10, <1>11, <2>1, BoundedInduction, Zenon
<1>13. c[N] = f[N]
  BY <1>12
<1> QED
  BY <1>3, <1>6, <1>13 DEF N, V

(* A set of sequences that \o does not leave is not left by Concat. *)
LEMMA ConcatIn ==
    ASSUME NEW S, NEW ss \in Seq(Seq(S)), NEW Q, << >> \in Q,
           \A x, y \in Seq(S) : x \in Q /\ y \in Q => x \o y \in Q,
           \A n \in 1..Len(ss) : ss[n] \in Q
    PROVE  Concat(ss) \in Q /\ Concat(ss) \in Seq(S)
<1>1. PICK f \in [0..Len(ss) -> Seq(S)] :
         /\ Concat(ss) = f[Len(ss)] /\ f[0] = << >>
         /\ \A n \in 1..Len(ss) : f[n] = f[n - 1] \o ss[n]
  BY ConcatByLoop, Zenon
<1> DEFINE T == {n \in 0..Len(ss) : f[n] \in Q}
<1>2. 0 \in T
  BY <1>1
<1>3. ASSUME NEW n \in 1..Len(ss), n - 1 \in T
      PROVE  n \in T
  <2>1. n \in 0..Len(ss) /\ n - 1 \in 0..Len(ss)
    <3> DEFINE N == Len(ss)
    <3>1. N \in Nat /\ n \in 1..N
      OBVIOUS
    <3> HIDE DEF N
    <3>2. n \in 0..N /\ n - 1 \in 0..N
      BY <3>1
    <3> QED
      BY <3>2, Zenon DEF N
  <2>2. f[n - 1] \in Q /\ f[n - 1] \in Seq(S)
    BY <1>3, <2>1, Zenon
  <2>3. ss[n] \in Q
    BY Zenon
  <2>4. ss[n] \in Seq(S)
    OBVIOUS
  <2>5. f[n - 1] \o ss[n] \in Q
    BY <2>2, <2>3, <2>4, Zenon
  <2>6. f[n] = f[n - 1] \o ss[n]
    BY <1>1, Zenon
  <2> QED
    BY <2>1, <2>5, <2>6, Zenon
<1>4. Len(ss) \in T
  <2>1. Len(ss) \in Nat /\ Len(ss) \in 0..Len(ss)
    OBVIOUS
  <2> HIDE DEF T
  <2> QED
    BY <1>2, <1>3, <2>1, BoundedInduction, Zenon
<1> QED
  BY <1>1, <1>4

(* What stands where in x \o y. *)
LEMMA JoinElements ==
    ASSUME NEW S, NEW x \in Seq(S), NEW y \in Seq(S)
    PROVE  /\ Len(x \o y) = Len(x) + Len(y) /\ Len(x) \in Nat /\ Len(y) \in Nat
           /\ \A k \in 1..Len(x) : (x \o y)[k] = x[k]
           /\ \A k \in 1..Len(y) : (x \o y)[Len(x) + k] = y[k]
OBVIOUS

(* e is an element of s. *)
Has(s, e) == \E k \in 1..Len(s) : s[k] = e

(* x \o y has the elements of both. *)
LEMMA JoinHas ==
    ASSUME NEW S, NEW x \in Seq(S), NEW y \in Seq(S), NEW e, Has(x, e) \/ Has(y, e)
    PROVE  Has(x \o y, e)
<1> DEFINE z == x \o y
<1>1. /\ Len(z) = Len(x) + Len(y) /\ Len(x) \in Nat /\ Len(y) \in Nat
      /\ \A k \in 1..Len(x) : z[k] = x[k]
      /\ \A k \in 1..Len(y) : z[Len(x) + k] = y[k]
  BY JoinElements
<1> HIDE DEF z
<1>2. ASSUME NEW k \in 1..Len(x), x[k] = e
      PROVE  Has(z, e)
  <2>1. k \in 1..Len(z) /\ z[k] = e
    BY <1>1, <1>2
  <2> QED
    BY <2>1 DEF Has
<1>3. ASSUME NEW k \in 1..Len(y), y[k] = e
      PROVE  Has(z, e)
  <2>1. Len(x) + k \in 1..Len(z) /\ z[Len(x) + k] = e
    BY <1>1, <1>3
  <2> QED
    BY <2>1 DEF Has
<1> QED
  BY <1>2, <1>3 DEF z, Has

(* Concat has every element of the sequences. *)
LEMMA ConcatHas ==
    ASSUME NEW S, NEW ss \in Seq(Seq(S)), NEW i \in 1..Len(ss), NEW e, Has(ss[i], e)
    PROVE  Has(Concat(ss), e)
<1>1. PICK f \in [0..Len(ss) -> Seq(S)] :
         /\ Concat(ss) = f[Len(ss)] /\ f[0] = << >>
         /\ \A n \in 1..Len(ss) : f[n] = f[n - 1] \o ss[n]
  BY ConcatByLoop, Zenon
<1> DEFINE N == Len(ss)
           T == {n \in 0..N : n >= i => Has(f[n], e)}
<1>2. N \in Nat /\ i \in Nat /\ 1 <= i /\ i <= N
  OBVIOUS
<1>3. 0 \in T
  BY <1>2
<1>4. ASSUME NEW n \in 1..N, n - 1 \in T
      PROVE  n \in T
  <2>1. /\ n \in Nat /\ n \in 0..N /\ n - 1 \in 0..N
        /\ n - 1 >= i => Has(f[n - 1], e)
    BY <1>4
  <2>2. f[n - 1] \in Seq(S) /\ f[n] = f[n - 1] \o ss[n]
    BY <1>1, <2>1, Zenon
  <2>3. ss[n] \in Seq(S)
    OBVIOUS
  <2>4. Has(f[n - 1], e) \/ Has(ss[n], e) => Has(f[n], e)
    BY <2>2, <2>3, JoinHas, ZenonT(60), SMTT(60)
  <2>5. n >= i => n = i \/ n - 1 >= i
    BY <1>2, <2>1
  <2> QED
    BY <2>1, <2>4, <2>5
<1>5. N \in T
  <2>1. N \in 0..N
    BY <1>2
  <2> HIDE DEF T
  <2> QED
    BY <1>2, <1>3, <1>4, <2>1, BoundedInduction, Zenon
<1> QED
  BY <1>1, <1>2, <1>5

=============================================================================
