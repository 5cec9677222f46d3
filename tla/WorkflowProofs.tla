---------------------------- MODULE WorkflowProofs ----------------------------
(***************************************************************************)
(* Workflow runs for any definition, any number of steps and callers, any  *)
(* limit of concurrency and any number of attempts.                        *)
(*                                                                         *)
(* First validateAndOrder: Ordered is a recursive function on the steps,   *)
(* and its value is found by induction over a numbering of the steps in    *)
(* which dependencies come first.  Then the inductive invariant IInv.  Its *)
(* heart is TaskAt, which ties the place of a step's goroutine to what the *)
(* step has emitted, event by event; MirrorInv, which says that the thread *)
(* lags behind the events emitted by what the outboxes hold and by nothing *)
(* else; and Tailed, which says what may still be written after a canceled *)
(* event.  One lemma for each step of the executor, the session and the    *)
(* callers shows that it keeps IInv, and the theorems follow.              *)
(***************************************************************************)
EXTENDS WorkflowRuns, InductionLemmas, FiniteSetTheorems, TLAPS

-----------------------------------------------------------------------------
(* validateAndOrder *)

(* A declaration is found by its id. *)
LEMMA DeclIs ==
    ASSUME NEW d \in Definitions, NEW s \in IDs(d)
    PROVE  /\ Decl(d, s) \in Decls /\ Decl(d, s).id = s
           /\ s \in StepIDs /\ Decl(d, s).deps \in Seq(StepIDs)
           /\ Decl(d, s).attempts \in 0..MaxAttempts
<1>1. d \in Seq(Decls)
  BY WorkflowAssumption
<1>2. \E i \in DOMAIN d : d[i].id = s
  BY DEF IDs
<1>3. PICK i \in DOMAIN d : Decl(d, s) = d[i] /\ d[i].id = s
  BY <1>2, Zenon DEF Decl
<1>4. d[i] \in Decls
  BY <1>1
<1>5. d[i].id \in StepIDs /\ d[i].deps \in Seq(StepIDs) /\ d[i].attempts \in 0..MaxAttempts
  BY <1>4 DEF Decls
<1> QED
  BY <1>3, <1>4, <1>5

(* Every element of seq comes after its dependencies. *)
Before(d, seq) ==
    \A i \in 1..Len(seq) : \A t \in DepsOf(d, seq[i]) : \E j \in 1..(i - 1) : seq[j] = t

(* Joining two orders keeps every step behind its dependencies. *)
LEMMA BeforeJoin ==
    ASSUME NEW S, NEW x \in Seq(S), NEW y \in Seq(S), NEW d, Before(d, x), Before(d, y)
    PROVE  Before(d, x \o y)
<1> DEFINE z == x \o y
<1>1. /\ Len(z) = Len(x) + Len(y) /\ Len(x) \in Nat /\ Len(y) \in Nat
      /\ \A k \in 1..Len(x) : z[k] = x[k]
      /\ \A k \in 1..Len(y) : z[Len(x) + k] = y[k]
  BY JoinElements
<1> HIDE DEF z
<1>2. ASSUME NEW i \in 1..Len(z), NEW t \in DepsOf(d, z[i])
      PROVE  \E j \in 1..(i - 1) : z[j] = t
  <2>1. CASE i <= Len(x)
    <3>1. i \in 1..Len(x) /\ z[i] = x[i]
      BY <1>1, <2>1
    <3>2. PICK j \in 1..(i - 1) : x[j] = t
      BY <3>1, Zenon DEF Before
    <3>3. j \in 1..Len(x)
      BY <1>1, <3>1
    <3> QED
      BY <1>1, <3>2, <3>3
  <2>2. CASE i > Len(x)
    <3> DEFINE k == i - Len(x)
    <3>1. k \in 1..Len(y) /\ i = Len(x) + k
      BY <1>1, <2>2
    <3> HIDE DEF k
    <3>2. z[i] = y[k]
      BY <1>1, <3>1
    <3>3. PICK j \in 1..(k - 1) : y[j] = t
      BY <3>1, <3>2, Zenon DEF Before
    <3>4. j \in 1..Len(y) /\ Len(x) + j \in 1..(i - 1)
      BY <1>1, <3>1
    <3>5. z[Len(x) + j] = t
      BY <1>1, <3>3, <3>4
    <3> QED
      BY <3>4, <3>5
  <2> QED
    BY <1>1, <2>1, <2>2
<1>3. Before(d, z)
  BY <1>2, Zenon DEF Before
<1> QED
  BY <1>3 DEF z

(* What the traversal appends for s: its dependencies, then s. *)
Visit(d, f, s) ==
    LET deps == Decl(d, s).deps IN Append(Concat([i \in DOMAIN deps |-> f[deps[i]]]), s)

(* A numbering that shows that there is no cycle. *)
Ranks(d, rank) ==
    /\ rank \in [IDs(d) -> 1..Len(d)]
    /\ \A s \in IDs(d) : \A t \in DepsOf(d, s) : t \in IDs(d) /\ rank[t] < rank[s]

(* A definition that validateAndOrder accepts has no cycle of dependencies:  *)
(* its steps can be numbered so that dependencies have lower numbers.        *)
LEMMA RankExists ==
    ASSUME NEW d, Valid(d)
    PROVE  \E rank : Ranks(d, rank)
BY DEF Valid, Ranks

(* Visit depends on the dependencies only. *)
LEMMA VisitSame ==
    ASSUME NEW d, NEW f, NEW g, NEW s, \A t \in DepsOf(d, s) : f[t] = g[t]
    PROVE  Visit(d, f, s) = Visit(d, g, s)
<1> DEFINE deps == Decl(d, s).deps
<1>1. \A i \in DOMAIN deps : f[deps[i]] = g[deps[i]]
  BY DEF DepsOf, Steps
<1>2. [i \in DOMAIN deps |-> f[deps[i]]] = [i \in DOMAIN deps |-> g[deps[i]]]
  BY <1>1
<1> QED
  BY <1>2 DEF Visit

(* The traversal of a valid definition ends: the recursion has a solution. *)
LEMMA VisitsExist ==
    ASSUME NEW d, d \in Seq(Decls), NEW rank, Ranks(d, rank)
    PROVE  \E f : f = [s \in IDs(d) |-> Visit(d, f, s)]
<1> DEFINE N == Len(d)
           Solves(f, n) == /\ f = [s \in IDs(d) |-> f[s]]
                           /\ \A s \in IDs(d) : rank[s] <= n => f[s] = Visit(d, f, s)
           T == {n \in 0..N : \E f : Solves(f, n)}
<1>1. N \in Nat /\ \A s \in IDs(d) : rank[s] \in Nat /\ 1 <= rank[s] /\ rank[s] <= N
  BY DEF Ranks
<1> HIDE DEF N
<1>2. 0 \in T
  <2> DEFINE f == [s \in IDs(d) |-> << >>]
  <2>1. f = [s \in IDs(d) |-> f[s]]
    OBVIOUS
  <2>2. \A s \in IDs(d) : ~ (rank[s] <= 0)
    BY <1>1
  <2> HIDE DEF f
  <2>3. Solves(f, 0)
    BY <2>1, <2>2
  <2> HIDE DEF Solves
  <2> QED
    BY <1>1, <2>3
<1>3. ASSUME NEW n \in 1..N, n - 1 \in T
      PROVE  n \in T
  <2>1. PICK f : Solves(f, n - 1)
    BY <1>3
  <2> DEFINE g == [s \in IDs(d) |-> IF rank[s] <= n - 1 THEN f[s] ELSE Visit(d, f, s)]
  <2>2. g = [s \in IDs(d) |-> g[s]] /\ \A s \in IDs(d) : g[s] = Visit(d, f, s)
    BY <2>1
  <2>3. \A s \in IDs(d) : rank[s] <= n - 1 => g[s] = f[s]
    OBVIOUS
  <2> HIDE DEF g
  <2>4. ASSUME NEW s \in IDs(d), rank[s] <= n
        PROVE  g[s] = Visit(d, g, s)
    <3>1. \A t \in DepsOf(d, s) : f[t] = g[t]
      <4> TAKE t \in DepsOf(d, s)
      <4>1. t \in IDs(d) /\ rank[t] < rank[s]
        BY DEF Ranks
      <4>2. rank[t] <= n - 1
        BY <1>1, <2>4, <4>1
      <4> QED
        BY <2>3, <4>1, <4>2
    <3>2. Visit(d, f, s) = Visit(d, g, s)
      BY <3>1, VisitSame
    <3> QED
      BY <2>2, <3>2
  <2>5. Solves(g, n)
    BY <2>2, <2>4
  <2>6. n \in 0..N
    BY <1>1
  <2> HIDE DEF Solves
  <2> QED
    BY <2>5, <2>6
<1>4. N \in T
  <2>1. N \in 0..N
    BY <1>1
  <2> HIDE DEF T
  <2> QED
    BY <1>1, <1>2, <1>3, <2>1, BoundedInduction, Zenon
<1>5. PICK f : Solves(f, N)
  BY <1>4
<1>6. \A s \in IDs(d) : f[s] = Visit(d, f, s)
  BY <1>1, <1>5
<1>7. f = [s \in IDs(d) |-> Visit(d, f, s)]
  BY <1>5, <1>6
<1> QED
  BY <1>7

(* s appended to a sequence that has its dependencies. *)
LEMMA BeforeAppend ==
    ASSUME NEW S, NEW c \in Seq(S), NEW s \in S, NEW d, Before(d, c),
           \A t \in DepsOf(d, s) : Has(c, t)
    PROVE  Append(c, s) \in Seq(S) /\ Before(d, Append(c, s)) /\ Has(Append(c, s), s)
<1> DEFINE z == Append(c, s)
<1>1. /\ z \in Seq(S) /\ Len(z) = Len(c) + 1 /\ Len(c) \in Nat /\ z[Len(c) + 1] = s
      /\ \A k \in 1..Len(c) : z[k] = c[k]
  OBVIOUS
<1> HIDE DEF z
<1>2. ASSUME NEW i \in 1..Len(z), NEW t \in DepsOf(d, z[i])
      PROVE  \E j \in 1..(i - 1) : z[j] = t
  <2>1. CASE i \in 1..Len(c)
    <3>1. PICK j \in 1..(i - 1) : c[j] = t
      BY <1>1, <2>1, Zenon DEF Before
    <3>2. j \in 1..Len(c)
      BY <1>1, <2>1
    <3> QED
      BY <1>1, <3>1, <3>2
  <2>2. CASE i = Len(c) + 1
    <3>1. PICK j \in 1..Len(c) : c[j] = t
      BY <1>1, <2>2 DEF Has
    <3> QED
      BY <1>1, <2>2, <3>1
  <2> QED
    BY <1>1, <2>1, <2>2
<1>3. Before(d, z)
  BY <1>2, Zenon DEF Before
<1>4. Has(z, s)
  BY <1>1 DEF Has
<1> QED
  BY <1>1, <1>3, <1>4 DEF z

(* What the traversal appends for a step has the step, and before every step *)
(* its dependencies.                                                         *)
LEMMA VisitsAre ==
    ASSUME NEW d \in Definitions, NEW rank, Ranks(d, rank),
           NEW f, f = [s \in IDs(d) |-> Visit(d, f, s)]
    PROVE  \A s \in IDs(d) : f[s] \in Seq(IDs(d)) /\ Before(d, f[s]) /\ Has(f[s], s)
<1> DEFINE N == Len(d)
           Sound(s) == f[s] \in Seq(IDs(d)) /\ Before(d, f[s]) /\ Has(f[s], s)
           T == {n \in 0..N : \A s \in IDs(d) : rank[s] <= n => Sound(s)}
<1>1. N \in Nat /\ \A s \in IDs(d) : rank[s] \in Nat /\ 1 <= rank[s] /\ rank[s] <= N
  <2>1. d \in Seq(Decls)
    BY WorkflowAssumption
  <2> QED
    BY <2>1 DEF Ranks
<1> HIDE DEF N
<1>2. 0 \in T
  BY <1>1
<1>3. ASSUME NEW n \in 1..N, n - 1 \in T
      PROVE  n \in T
  <2>1. n \in 0..N /\ \A s \in IDs(d) : rank[s] <= n - 1 => Sound(s)
    BY <1>1, <1>3
  <2>2. ASSUME NEW s \in IDs(d), rank[s] <= n
        PROVE  Sound(s)
    <3> DEFINE deps == Decl(d, s).deps
               ss == [i \in DOMAIN deps |-> f[deps[i]]]
               c == Concat(ss)
               Q == {x \in Seq(IDs(d)) : Before(d, x)}
    <3>1. deps \in Seq(StepIDs)
      BY DeclIs
    <3>2. f[s] = Append(c, s)
      BY Zenon DEF Visit
    <3> HIDE DEF Sound
    <3>3. ASSUME NEW i \in DOMAIN deps
          PROVE  deps[i] \in IDs(d) /\ Sound(deps[i])
      <4>1. deps[i] \in DepsOf(d, s)
        BY DEF DepsOf, Steps
      <4>2. deps[i] \in IDs(d) /\ rank[deps[i]] < rank[s]
        BY <4>1 DEF Ranks
      <4>3. rank[deps[i]] <= n - 1
        BY <1>1, <2>2, <4>2
      <4> QED
        BY <2>1, <4>2, <4>3
    <3>4. /\ Len(ss) = Len(deps) /\ DOMAIN deps = 1..Len(ss)
          /\ \A i \in 1..Len(ss) : ss[i] = f[deps[i]]
      BY <3>1
    <3>5. ss \in Seq(Seq(IDs(d)))
      <4>1. \A i \in DOMAIN deps : f[deps[i]] \in Seq(IDs(d))
        BY <3>3 DEF Sound
      <4>2. DOMAIN deps = 1..Len(deps) /\ Len(deps) \in Nat
        BY <3>1
      <4>3. ss \in [1..Len(deps) -> Seq(IDs(d))]
        BY <4>1, <4>2
      <4> HIDE DEF ss
      <4> QED
        BY <4>2, <4>3
    <3>6. \A t \in DepsOf(d, s) : \E i \in 1..Len(ss) : t = deps[i]
      BY <3>4 DEF DepsOf, Steps
    <3> HIDE DEF deps, ss
    <3>7. \A i \in 1..Len(ss) : ss[i] \in Q
      BY <3>3, <3>4, Zenon DEF Sound
    <3>8. << >> \in Q
      BY DEF Before
    <3>9. \A x, y \in Seq(IDs(d)) : x \in Q /\ y \in Q => x \o y \in Q
      <4> TAKE x, y \in Seq(IDs(d))
      <4> HAVE x \in Q /\ y \in Q
      <4>1. Before(d, x \o y)
        BY BeforeJoin
      <4>2. x \o y \in Seq(IDs(d))
        OBVIOUS
      <4> QED
        BY <4>1, <4>2
    <3>10. c \in Q /\ c \in Seq(IDs(d))
      <4> HIDE DEF Q
      <4> QED
        BY <3>5, <3>7, <3>8, <3>9, ConcatIn
    <3>11. \A t \in DepsOf(d, s) : Has(c, t)
      <4> TAKE t \in DepsOf(d, s)
      <4>1. PICK i \in 1..Len(ss) : t = deps[i]
        BY <3>6
      <4>2. Has(ss[i], t)
        BY <3>3, <3>4, <4>1, Zenon DEF Sound
      <4> QED
        BY <3>5, <4>2, ConcatHas
    <3>12. Before(d, c)
      BY <3>10
    <3> HIDE DEF c
    <3>13. Append(c, s) \in Seq(IDs(d)) /\ Before(d, Append(c, s)) /\ Has(Append(c, s), s)
      BY <3>10, <3>11, <3>12, BeforeAppend
    <3> QED
      BY <3>2, <3>13, Zenon DEF Sound
  <2> QED
    BY <2>1, <2>2
<1>4. N \in T
  <2>1. N \in 0..N
    BY <1>1
  <2> HIDE DEF T
  <2> QED
    BY <1>1, <1>2, <1>3, <2>1, BoundedInduction
<1> QED
  BY <1>1, <1>4

(* No step twice. *)
Once(seq) == \A i, j \in DOMAIN seq : seq[i] = seq[j] => i = j

(* Dropping what was visited before keeps the steps and their order. *)
LEMMA FirstOccurrencesAre ==
    ASSUME NEW S, NEW seq \in Seq(S), NEW d, Before(d, seq)
    PROVE  /\ FirstOccurrences(seq) \in Seq(S) /\ Before(d, FirstOccurrences(seq)) /\ Once(FirstOccurrences(seq))
           /\ \A e : Has(seq, e) => Has(FirstOccurrences(seq), e)
<1> DEFINE is == {i \in DOMAIN seq : \A j \in 1..(i - 1) : seq[j] # seq[i]}
           p == Picked(seq, is)
<1>1. FirstOccurrences(seq) = p
  BY DEF FirstOccurrences
<1>2. Len(seq) \in Nat /\ DOMAIN seq = 1..Len(seq)
  OBVIOUS
<1>3. \A i : i \in is <=> i \in 1..Len(seq) /\ \A j \in 1..(i - 1) : seq[j] # seq[i]
  BY <1>2
<1> HIDE DEF is
<1>4. \A i \in is : i \in 1..Len(seq)
  BY <1>3
<1>5. /\ p \in Seq(S)
      /\ \E at \in [is -> 1..Len(p)] :
            /\ \A i \in is : p[at[i]] = seq[i]
            /\ \A i, j \in is : i < j => at[i] < at[j]
            /\ \A k \in 1..Len(p) : \E i \in is : at[i] = k
  BY <1>4, PickedAt, SMTT(60), Zenon
<1> HIDE DEF p
<1>6. PICK at \in [is -> 1..Len(p)] :
         /\ \A i \in is : p[at[i]] = seq[i]
         /\ \A i, j \in is : i < j => at[i] < at[j]
         /\ \A k \in 1..Len(p) : \E i \in is : at[i] = k
  BY <1>5
<1>7. ASSUME NEW m \in 1..Len(seq)
      PROVE  \E i \in is : i <= m /\ seq[i] = seq[m]
  <2> DEFINE T == {i \in 1..Len(seq) : seq[i] = seq[m]}
  <2>1. m \in T /\ T \subseteq Nat
    BY <1>2
  <2>2. PICK i \in T : \A j \in T : i <= j
    <3> HIDE DEF T
    <3> QED
      BY <2>1, LeastNumber, Zenon
  <2>3. i \in 1..Len(seq) /\ seq[i] = seq[m] /\ i <= m
    BY <2>1, <2>2
  <2>4. ASSUME NEW j \in 1..(i - 1)
        PROVE  seq[j] # seq[i]
    <3>1. j \in 1..Len(seq) /\ ~ (i <= j)
      BY <1>2, <2>3
    <3> QED
      BY <2>2, <2>3, <3>1
  <2>5. i \in is
    BY <1>3, <2>3, <2>4
  <2> QED
    BY <2>3, <2>5
<1>8. ASSUME NEW e, Has(seq, e)
      PROVE  Has(p, e)
  <2>1. PICK m \in 1..Len(seq) : seq[m] = e
    BY <1>8 DEF Has
  <2>2. PICK i \in is : i <= m /\ seq[i] = seq[m]
    BY <1>7
  <2>3. p[at[i]] = e /\ at[i] \in 1..Len(p)
    BY <1>6, <2>1, <2>2
  <2> QED
    BY <2>3 DEF Has
<1>9. ASSUME NEW k \in 1..Len(p), NEW t \in DepsOf(d, p[k])
      PROVE  \E l \in 1..(k - 1) : p[l] = t
  <2>1. PICK i \in is : at[i] = k
    BY <1>6
  <2>2. p[k] = seq[i] /\ i \in 1..Len(seq)
    BY <1>4, <1>6, <2>1
  <2>3. PICK m \in 1..(i - 1) : seq[m] = t
    BY <2>2, Zenon DEF Before
  <2>4. m \in 1..Len(seq) /\ m < i
    BY <1>2, <2>2
  <2>5. PICK j \in is : j <= m /\ seq[j] = seq[m]
    BY <1>7, <2>4
  <2>6. j < i
    BY <1>2, <1>4, <2>2, <2>4, <2>5
  <2>7. at[j] < at[i] /\ at[j] \in 1..Len(p) /\ p[at[j]] = t
    BY <1>6, <2>3, <2>5, <2>6
  <2>8. at[j] \in 1..(k - 1)
    <3>1. Len(p) \in Nat
      BY <1>5
    <3> QED
      BY <2>1, <2>7, <3>1
  <2> QED
    BY <2>7, <2>8
<1>10. Before(d, p)
  BY <1>9, Zenon DEF Before
<1>11. ASSUME NEW k \in 1..Len(p), NEW l \in 1..Len(p), p[k] = p[l]
       PROVE  k = l
  <2>1. PICK i \in is : at[i] = k
    BY <1>6
  <2>2. PICK j \in is : at[j] = l
    BY <1>6
  <2>3. seq[i] = seq[j] /\ i \in 1..Len(seq) /\ j \in 1..Len(seq)
    BY <1>4, <1>6, <1>11, <2>1, <2>2
  <2>4. i = j
    BY <1>3, <2>3
  <2> QED
    BY <2>1, <2>2, <2>4
<1>12. Once(p)
  <2>1. DOMAIN p = 1..Len(p)
    BY <1>5
  <2> QED
    BY <1>11, <2>1 DEF Once
<1> QED
  BY <1>1, <1>5, <1>8, <1>10, <1>12

(* validateAndOrder returns every step once its dependencies are there, no   *)
(* step twice, and leaves none out.                                          *)
LEMMA OrderedIs ==
    ASSUME NEW d \in Definitions, Valid(d)
    PROVE  /\ Ordered(d) \in Seq(IDs(d)) /\ Before(d, Ordered(d)) /\ Once(Ordered(d))
           /\ \A s \in IDs(d) : Has(Ordered(d), s)
<1>1. PICK rank : Ranks(d, rank)
  BY RankExists
<1>2. d \in Seq(Decls)
  BY WorkflowAssumption
<1> DEFINE f == CHOOSE g : g = [s \in IDs(d) |-> Visit(d, g, s)]
           ss == [i \in DOMAIN d |-> f[d[i].id]]
           Q == {x \in Seq(IDs(d)) : Before(d, x)}
<1>3. Ordered(d) = FirstOccurrences(Concat(ss))
  BY DEF Ordered, Visit
<1>4. \E g : g = [s \in IDs(d) |-> Visit(d, g, s)]
  BY <1>1, <1>2, VisitsExist
<1>5. f = [s \in IDs(d) |-> Visit(d, f, s)]
  BY <1>4
<1> HIDE DEF f
<1>6. \A s \in IDs(d) : f[s] \in Seq(IDs(d)) /\ Before(d, f[s]) /\ Has(f[s], s)
  BY <1>1, <1>5, VisitsAre
<1>7. DOMAIN d = 1..Len(d) /\ Len(d) \in Nat /\ \A i \in DOMAIN d : d[i].id \in IDs(d)
  BY <1>2 DEF IDs
<1>8. ss \in [1..Len(d) -> Seq(IDs(d))]
  BY <1>6, <1>7
<1>9. /\ ss \in Seq(Seq(IDs(d))) /\ Len(ss) = Len(d)
      /\ \A i \in 1..Len(ss) : i \in DOMAIN d /\ ss[i] = f[d[i].id]
  <2>1. \A i \in 1..Len(d) : i \in DOMAIN d /\ ss[i] = f[d[i].id]
    BY <1>7
  <2>2. ss \in Seq(Seq(IDs(d))) /\ Len(ss) = Len(d)
    <3> HIDE DEF ss
    <3> QED
      BY <1>7, <1>8
  <2> QED
    BY <2>1, <2>2
<1> HIDE DEF ss
<1>10. \A i \in 1..Len(ss) : ss[i] \in Q
  BY <1>6, <1>7, <1>9, Zenon
<1>11. << >> \in Q
  BY DEF Before
<1>12. \A x, y \in Seq(IDs(d)) : x \in Q /\ y \in Q => x \o y \in Q
  <2> TAKE x, y \in Seq(IDs(d))
  <2> HAVE x \in Q /\ y \in Q
  <2>1. Before(d, x \o y)
    BY BeforeJoin
  <2>2. x \o y \in Seq(IDs(d))
    OBVIOUS
  <2> QED
    BY <2>1, <2>2
<1>13. Concat(ss) \in Q /\ Concat(ss) \in Seq(IDs(d))
  <2> HIDE DEF Q
  <2> QED
    BY <1>9, <1>10, <1>11, <1>12, ConcatIn
<1>14. ASSUME NEW s \in IDs(d)
       PROVE  Has(Concat(ss), s)
  <2>1. PICK i \in DOMAIN d : d[i].id = s
    BY DEF IDs
  <2>2. i \in 1..Len(ss) /\ Has(ss[i], s)
    BY <1>6, <1>7, <1>9, <2>1
  <2> QED
    BY <1>9, <2>2, ConcatHas
<1>15. Before(d, Concat(ss))
  BY <1>13
<1>16. /\ FirstOccurrences(Concat(ss)) \in Seq(IDs(d)) /\ Before(d, FirstOccurrences(Concat(ss)))
       /\ Once(FirstOccurrences(Concat(ss)))
       /\ \A e : Has(Concat(ss), e) => Has(FirstOccurrences(Concat(ss)), e)
  BY <1>13, <1>15, FirstOccurrencesAre
<1> QED
  BY <1>3, <1>14, <1>16

-----------------------------------------------------------------------------
(* The loop head: what the next batch is *)

(* The steps executed together at most: one, or Executor.MaxConcurrency. *)
AtMost == IF limit > 1 THEN limit ELSE 1

(* A step that may run now. *)
MayRun(s) == s \in IDs(def) /\ Undone(s) /\ \A t \in DepsOf(def, s) : ~Undone(t)

(* The steps that Execute takes next: some, not too many, and each may run.  *)
(* In a sequential run it is the first one that is not done, and its         *)
(* dependencies are done because they come before it.                        *)
LEMMA NextBatchIs ==
    ASSUME TypeOK, Valid(def), ordered = Ordered(def), ~Finished, Sequential \/ ReadySteps # << >>
    PROVE  /\ NextBatch \in Seq(StepIDs) /\ Len(NextBatch) <= AtMost /\ NextBatch # << >>
           /\ \A i \in DOMAIN NextBatch : MayRun(NextBatch[i])
<1>1. def \in Definitions /\ limit \in Int
  BY WorkflowAssumption DEF TypeOK
<1> DEFINE S == IDs(def)
<1>2. /\ ordered \in Seq(S) /\ Before(def, ordered)
      /\ \A s \in S : Has(ordered, s)
  BY <1>1, OrderedIs
<1>3. S \subseteq StepIDs
  BY <1>1, DeclIs
<1>4. DOMAIN ordered = 1..Len(ordered) /\ Len(ordered) \in Nat
  BY <1>2
<1>5. CASE Sequential
  <2> DEFINE is == {i \in DOMAIN ordered : Undone(ordered[i])}
             p == Picked(ordered, is)
  <2>1. NextBatch = << Head(p) >>
    BY <1>5 DEF NextBatch
  <2>2. \A i : i \in is <=> i \in 1..Len(ordered) /\ Undone(ordered[i])
    BY <1>4
  <2>3. is # {}
    <3>1. PICK s \in S : Undone(s)
      BY DEF Finished
    <3>2. PICK i \in 1..Len(ordered) : ordered[i] = s
      BY <1>2 DEF Has
    <3> QED
      BY <2>2, <3>1, <3>2
  <2> HIDE DEF is
  <2>4. \A i \in is : i \in 1..Len(ordered)
    BY <2>2
  <2>5. /\ p \in Seq(S)
        /\ \E at \in [is -> 1..Len(p)] :
              /\ \A i \in is : p[at[i]] = ordered[i]
              /\ \A i, j \in is : i < j => at[i] < at[j]
              /\ \A k \in 1..Len(p) : \E i \in is : at[i] = k
    BY <1>2, <2>4, PickedAt, SMTT(60), Zenon
  <2> HIDE DEF p
  <2>6. PICK at \in [is -> 1..Len(p)] :
           /\ \A i \in is : p[at[i]] = ordered[i]
           /\ \A i, j \in is : i < j => at[i] < at[j]
           /\ \A k \in 1..Len(p) : \E i \in is : at[i] = k
    BY <2>5
  <2>7. Len(p) \in Nat /\ 1 \in 1..Len(p)
    <3>1. PICK i \in is : TRUE
      BY <2>3
    <3>2. at[i] \in 1..Len(p) /\ Len(p) \in Nat
      BY <2>5, <2>6
    <3> QED
      BY <3>2
  <2>8. PICK i \in is : at[i] = 1
    BY <2>6, <2>7
  <2>9. Head(p) = ordered[i] /\ Head(p) \in S
    <3>1. p # << >> /\ Head(p) = p[1] /\ p[1] \in S
      BY <2>5, <2>7
    <3> QED
      BY <2>6, <2>8, <3>1
  <2>10. ASSUME NEW t \in DepsOf(def, ordered[i])
         PROVE  ~Undone(t)
    <3>1. PICK j \in 1..(i - 1) : ordered[j] = t
      BY <1>2, <2>4, Zenon DEF Before
    <3>2. j \in 1..Len(ordered) /\ j < i
      BY <1>4, <2>4
    <3>3. ASSUME Undone(t)
          PROVE  FALSE
      <4>1. j \in is
        BY <2>2, <3>1, <3>2, <3>3
      <4>2. at[j] < 1 /\ at[j] \in 1..Len(p)
        BY <2>6, <2>8, <3>2, <4>1
      <4> QED
        BY <2>7, <4>2
    <3> QED
      BY <3>3
  <2>11. MayRun(Head(p))
    BY <2>2, <2>9, <2>10 DEF MayRun
  <2>12. Head(p) \in StepIDs
    BY <1>3, <2>9
  <2> DEFINE h == Head(p)
  <2> HIDE DEF h
  <2>13. /\ <<h>> \in Seq(StepIDs) /\ Len(<<h>>) = 1 /\ <<h>> # << >> /\ DOMAIN <<h>> = {1}
         /\ <<h>>[1] = h
    BY <2>12 DEF h
  <2>14. 1 <= AtMost
    BY <1>1 DEF AtMost
  <2>15. NextBatch = <<h>> /\ MayRun(h)
    BY <2>1, <2>11 DEF h
  <2> QED
    BY <2>13, <2>14, <2>15
<1>6. CASE ~Sequential
  <2> DEFINE is == {i \in DOMAIN ordered : Undone(ordered[i]) /\ \A t \in DepsOf(def, ordered[i]) : ~Undone(t)}
             p == Picked(ordered, is)
  <2>1. ReadySteps = p
    BY DEF ReadySteps
  <2>2. \A i : i \in is <=> /\ i \in 1..Len(ordered) /\ Undone(ordered[i])
                            /\ \A t \in DepsOf(def, ordered[i]) : ~Undone(t)
    BY <1>4
  <2> HIDE DEF is
  <2>3. \A i \in is : i \in 1..Len(ordered)
    BY <2>2
  <2>4. /\ p \in Seq(S)
        /\ \E at \in [is -> 1..Len(p)] :
              /\ \A i \in is : p[at[i]] = ordered[i]
              /\ \A i, j \in is : i < j => at[i] < at[j]
              /\ \A k \in 1..Len(p) : \E i \in is : at[i] = k
    BY <1>2, <2>3, PickedAt
  <2> HIDE DEF p
  <2>5. ASSUME NEW k \in 1..Len(p)
        PROVE  p[k] \in StepIDs /\ MayRun(p[k])
    <3>1. PICK i \in is : p[k] = ordered[i]
      BY <2>4
    <3>2. ordered[i] \in S
      BY <1>2, <2>3
    <3> QED
      BY <1>3, <2>2, <3>1, <3>2 DEF MayRun
  <2>6. Len(p) \in Nat /\ p # << >> /\ DOMAIN p = 1..Len(p) /\ Len(p) > 0
    <3>1. Len(p) \in Nat /\ DOMAIN p = 1..Len(p) /\ p # << >>
      BY <1>6, <2>1, <2>4
    <3>2. Len(p) # 0
      BY <2>4, <3>1
    <3> QED
      BY <3>1, <3>2
  <2>7. limit > 1 /\ AtMost = limit
    BY <1>1, <1>6 DEF Sequential, AtMost
  <2>8. p \in Seq(StepIDs)
    BY <2>4, <2>5, <2>6
  <2>9. CASE limit < Len(p)
    <3> DEFINE q == SubSeq(p, 1, limit)
    <3>1. /\ q \in Seq(StepIDs) /\ Len(q) = limit /\ DOMAIN q = 1..limit
          /\ \A i \in 1..limit : q[i] = p[i]
      BY <1>1, <2>6, <2>7, <2>8, <2>9
    <3>2. NextBatch = q
      BY <1>6, <2>1, <2>9, Zenon DEF NextBatch
    <3>3. \A i \in 1..limit : i \in 1..Len(p)
      BY <1>1, <2>6, <2>9
    <3> HIDE DEF q
    <3>4. q # << >>
      BY <1>1, <2>7, <3>1
    <3>5. Len(q) <= AtMost
      BY <1>1, <2>7, <3>1
    <3>6. \A i \in DOMAIN q : MayRun(q[i])
      BY <2>5, <3>1, <3>3
    <3> QED
      BY <3>1, <3>2, <3>4, <3>5, <3>6
  <2>10. CASE ~ (limit < Len(p))
    <3>1. NextBatch = p
      BY <1>6, <2>1, <2>10 DEF NextBatch
    <3>2. Len(p) <= AtMost
      BY <1>1, <2>6, <2>7, <2>10
    <3> QED
      BY <2>5, <2>6, <2>8, <3>1, <3>2
  <2> QED
    BY <2>9, <2>10
<1> QED
  BY <1>5, <1>6

-----------------------------------------------------------------------------
(* Appending an event: what the projector makes of it *)

(* One more element. *)
LEMMA AppendIs ==
    ASSUME NEW S, NEW x \in Seq(S), NEW e \in S
    PROVE  /\ Append(x, e) \in Seq(S) /\ Len(Append(x, e)) = Len(x) + 1 /\ Len(x) \in Nat
           /\ DOMAIN x = 1..Len(x) /\ DOMAIN Append(x, e) = 1..(Len(x) + 1)
           /\ Append(x, e)[Len(x) + 1] = e
           /\ \A i \in 1..Len(x) : Append(x, e)[i] = x[i]
           /\ Append(x, e) # << >>
OBVIOUS

(* js has the indices of is, and may have the next one. *)
Continues(n, is, js) ==
    is \subseteq 1..n /\ js \subseteq 1..(n + 1) /\ \A i \in 1..n : i \in is <=> i \in js

(* The latest kind after one more event: the event's, if it counts. *)
LEMMA LatestAppend ==
    ASSUME NEW l \in Seq(Events), NEW e \in Events, NEW is, NEW js, Continues(Len(l), is, js)
    PROVE  LatestKind(Append(l, e), js, "none") =
               IF Len(l) + 1 \in js THEN e.kind ELSE LatestKind(l, is, "none")
<1> DEFINE z == Append(l, e)
           n == Len(l)
<1>1. n \in Nat /\ z[n + 1] = e /\ \A i \in 1..n : z[i] = l[i]
  OBVIOUS
<1>2. \A i \in js : i \in Nat /\ i <= n + 1 /\ (i # n + 1 => i \in is)
  BY <1>1 DEF Continues
<1>3. \A i \in is : i \in 1..n /\ i \in js
  BY DEF Continues
<1>4. CASE n + 1 \in js
  <2>1. \A i \in js : (\A j \in js : j <= i) => i = n + 1
    BY <1>1, <1>2, <1>4
  <2>2. \A j \in js : j <= n + 1
    BY <1>2
  <2>3. LastAt(js) = n + 1
    BY <1>4, <2>1, <2>2 DEF LastAt
  <2>4. js # {}
    BY <1>4
  <2> HIDE DEF z, n
  <2>5. LatestKind(z, js, "none") = e.kind
    BY <1>1, <2>3, <2>4 DEF LatestKind
  <2> QED
    BY <1>4, <2>5 DEF z, n
<1>5. CASE n + 1 \notin js
  <2>1. is = js
    <3>1. \A i : i \in is <=> i \in js
      BY <1>2, <1>3, <1>5
    <3> QED
      BY <3>1, Zenon
  <2>2. CASE is = {}
    BY <1>5, <2>1, <2>2 DEF LatestKind
  <2>3. CASE is # {}
    <3>1. \E i \in is : \A j \in is : j <= i
      <4>1. is \subseteq 0..n
        BY <1>1, <1>3
      <4> HIDE DEF n
      <4> QED
        BY <1>1, <2>3, <4>1, GreatestNumber, Zenon
    <3>2. LastAt(is) \in is
      BY <3>1 DEF LastAt
    <3>3. z[LastAt(is)] = l[LastAt(is)]
      BY <1>1, <1>3, <3>2
    <3> HIDE DEF z, n
    <3>4. LatestKind(z, js, "none") = LatestKind(l, is, "none")
      BY <2>1, <2>3, <3>3 DEF LatestKind
    <3> QED
      BY <1>5, <3>4 DEF z, n
  <2> QED
    BY <2>2, <2>3
<1> QED
  BY <1>4, <1>5

(* Statuses after an event, and the events of a step. *)
LEMMA StatusAppend ==
    ASSUME NEW l \in Seq(Events), NEW e \in Events
    PROVE  /\ RunStatus(Append(l, e)) = IF e.step = Main THEN e.kind ELSE RunStatus(l)
           /\ \A s : StepStatus(Append(l, e), s) = IF e.step = s THEN e.kind ELSE StepStatus(l, s)
           /\ \A s, n : AttemptStatus(Append(l, e), s, n) =
                            IF e.step = s /\ e.attempt = n THEN e.kind ELSE AttemptStatus(l, s, n)
<1> DEFINE z == Append(l, e)
           N == Len(l)
<1>1. /\ N \in Nat /\ DOMAIN l = 1..N /\ DOMAIN z = 1..(N + 1) /\ z[N + 1] = e
      /\ \A i \in 1..N : z[i] = l[i] /\ i \in 1..(N + 1)
  OBVIOUS
<1>2. N + 1 \in 1..(N + 1)
  BY <1>1
<1>3. ASSUME NEW is, NEW js, Continues(N, is, js)
      PROVE  LatestKind(z, js, "none") = IF N + 1 \in js THEN e.kind ELSE LatestKind(l, is, "none")
  BY <1>3, LatestAppend
<1> HIDE DEF z, N
<1>4. ASSUME NEW s
      PROVE  StepStatus(z, s) = IF e.step = s THEN e.kind ELSE StepStatus(l, s)
  <2> DEFINE is == {i \in DOMAIN l : l[i].step = s}
             js == {i \in DOMAIN z : z[i].step = s}
  <2>1. Continues(N, is, js)
    BY <1>1 DEF Continues
  <2>2. N + 1 \in js <=> e.step = s
    BY <1>1, <1>2
  <2>3. StepStatus(z, s) = LatestKind(z, js, "none") /\ StepStatus(l, s) = LatestKind(l, is, "none")
    BY DEF StepStatus
  <2> HIDE DEF is, js
  <2> QED
    BY <1>3, <2>1, <2>2, <2>3
<1>5. ASSUME NEW s, NEW n
      PROVE  AttemptStatus(z, s, n) = IF e.step = s /\ e.attempt = n THEN e.kind ELSE AttemptStatus(l, s, n)
  <2> DEFINE is == {i \in DOMAIN l : l[i].step = s /\ l[i].attempt = n}
             js == {i \in DOMAIN z : z[i].step = s /\ z[i].attempt = n}
  <2>1. Continues(N, is, js)
    BY <1>1 DEF Continues
  <2>2. N + 1 \in js <=> e.step = s /\ e.attempt = n
    BY <1>1, <1>2
  <2>3. /\ AttemptStatus(z, s, n) = LatestKind(z, js, "none")
        /\ AttemptStatus(l, s, n) = LatestKind(l, is, "none")
    BY DEF AttemptStatus
  <2> HIDE DEF is, js
  <2> QED
    BY <1>3, <2>1, <2>2, <2>3
<1>6. \A q : RunStatus(q) = StepStatus(q, Main)
  BY DEF RunStatus, StepStatus
<1>7. RunStatus(z) = IF e.step = Main THEN e.kind ELSE RunStatus(l)
  BY <1>4, <1>6
<1> QED
  BY <1>4, <1>5, <1>7 DEF z

-----------------------------------------------------------------------------
(* The inductive invariant *)

(* Where Execute is, and what it has emitted: a terminal event when it has   *)
(* ended, and as the last one.                                               *)
PhaseInv ==
    /\ phase \in {"init", "starting"} =>
           tasks = [s \in StepIDs |-> Idle] /\ results = [s \in StepIDs |-> NoResult]
    /\ phase = "init" => events = << >> /\ outbox = [p \in StepIDs \cup {Main} |-> NoEvent]
    /\ phase \in {"starting", "running"} => Valid(def) /\ ordered = Ordered(def)
    /\ phase # "running" => batch = << >>
    /\ phase \in {"init", "starting", "running"} <=> outcome = "none"
    /\ outcome = "canceled" => canceled
    /\ phase \in {"ended", "done"} => events # << >> /\ events[Len(events)] = RunEvent(outcome)
    /\ phase = "done" => outbox[Main] = NoEvent

(* Nothing is emitted after a terminal event. *)
EndInv ==
    \A i \in DOMAIN events :
        events[i].kind \in TerminalKinds => phase \in {"ended", "done"} /\ i = Len(events)

(* Processes: only the goroutines of the batch are under way. *)
BatchInv ==
    /\ Len(batch) <= AtMost
    /\ \A s \in StepIDs :
           IF s \in Steps(batch)
           THEN tasks[s].at # "idle" /\ MayRun(s)
           ELSE /\ tasks[s].at \in {"idle", "done"} /\ outbox[s] = NoEvent
                /\ phase = "running" => (tasks[s].at = "idle" <=> Undone(s))

(* As long as the run goes on, an error among the results is of a step that  *)
(* may fail; it ends as completed when there is no step left.                *)
ResultInv ==
    /\ outcome \in {"none", "completed"} =>
           \A s \in IDs(def) : ~Undone(s) /\ results[s].err => Decl(def, s).continue
    /\ outcome = "completed" => Finished

(* A process writes events of its own; canceled and queued are not among     *)
(* them, so only the session writes those.                                   *)
OutboxInv ==
    \A p \in StepIDs \cup {Main} :
        outbox[p] # NoEvent => outbox[p].step = p /\ outbox[p].kind \notin {"canceled", "queued"}

-----------------------------------------------------------------------------
(* l is what step s emits in attempts that all failed, or may have got there. *)
Failing(s, l) ==
    \A n \in 1..Len(l) :
        /\ 2 * n - 1 <= Len(l) => l[2 * n - 1] = StepEvent("step_started", s, n)
        /\ 2 * n <= Len(l) => l[2 * n] = StepEvent("step_failed", s, n)

(* ... in attempts of which the last one may have succeeded. *)
Ran(s, l) ==
    \A n \in 1..Len(l) :
        /\ 2 * n - 1 <= Len(l) => l[2 * n - 1] = StepEvent("step_started", s, n)
        /\ 2 * n <= Len(l) => \/ l[2 * n] = StepEvent("step_failed", s, n)
                              \/ l[2 * n] = StepEvent("step_completed", s, n) /\ Len(l) = 2 * n

(* A step skipped, or refused for its input, emits one event. *)
Alone(s, l) == /\ Len(l) = 1
               /\ l[1] \in {StepEvent("step_skipped", s, 0), StepEvent("step_failed", s, 1)}

(* The places of an attempt, and the events emitted when there. *)
Trying == {"start", "acting", "report", "failed", "wait"}
Emitted(t) == CASE t.at = "start" -> 2 * t.attempt - 2
                [] t.at \in {"acting", "report"} -> 2 * t.attempt - 1
                [] OTHER -> 2 * t.attempt

(* What step s has emitted fits the place its goroutine t is at. *)
TaskAt(d, s, t, l) ==
    /\ t.at = "idle" => t = Idle
    /\ t.at # "idle" => s \in IDs(d)
    /\ t.at \in {"idle", "begin", "skip", "reject"} => l = << >> /\ t.attempt = 0 /\ ~t.err
    /\ t.at \in Trying => /\ t.attempt \in 1..Allowed(d, s) /\ Failing(s, l)
                          /\ Len(l) = Emitted(t)
    /\ t.at = "wait" => t.attempt < Allowed(d, s)
    /\ t.at \in {"start", "acting"} => ~t.err
    /\ t.at \in {"failed", "wait"} => t.err
    /\ t.at = "done" => Len(l) <= 2 * Allowed(d, s) /\ (Alone(s, l) \/ Ran(s, l))

(* So does what the projector would make of it. *)
StatusAt(s, t, l) ==
    /\ \A n \in 1..(t.attempt - 1) : AttemptStatus(l, s, n) = "step_failed"
    /\ t.at \in {"failed", "wait"} =>
           StepStatus(l, s) = "step_failed" /\ AttemptStatus(l, s, t.attempt) = "step_failed"
    /\ t.at = "done" /\ t.attempt > 0 =>
           /\ StepStatus(l, s) = IF t.err THEN "step_failed" ELSE "step_completed"
           /\ AttemptStatus(l, s, t.attempt) = StepStatus(l, s)

(* The events emitted are those of the goroutines' places. *)
TaskInv ==
    \A s \in StepIDs : /\ TaskAt(def, s, tasks[s], EventsOf(events, s))
                       /\ StatusAt(s, tasks[s], events)

(* The event that p has to write, if any, stands for the latest status. *)
Pending(p, status) == IF outbox[p] = NoEvent THEN status ELSE outbox[p].kind

(* While the context is not done, the record projects to what was emitted up *)
(* to the events still to be written, and until someone else writes that the *)
(* run is canceled.                                                          *)
MirrorInv ==
    ~canceled =>
        /\ \A s \in StepIDs :
               /\ StepStatus(events, s) = Pending(s, StepStatus(log, s))
               /\ \A n \in 0..MaxAttempts :
                      AttemptStatus(events, s, n) =
                          IF outbox[s] # NoEvent /\ outbox[s].attempt = n THEN outbox[s].kind
                          ELSE AttemptStatus(log, s, n)
        /\ (\A i \in DOMAIN log : log[i].kind # "canceled") =>
               RunStatus(events) = Pending(Main, IF RunStatus(log) = "queued" THEN "none" ELSE RunStatus(log))

(* The executor's part ... *)
RunInv == /\ TypeOK /\ PhaseInv /\ EndInv /\ BatchInv /\ ResultInv /\ OutboxInv
          /\ TaskInv /\ MirrorInv
-----------------------------------------------------------------------------
(* ... and the session's: the executor begins when StartWorkflowWithRunID    *)
(* has returned, and callers know what they rely on.                         *)
SessionInv ==
    /\ RunsTypeOK
    /\ starter # "returned" => phase = "init"
    /\ starter = "new" => log = << >>
    /\ \A k \in Callers :
           /\ callers[k].hit /\ callers[k].at # "taken" => canceled
           /\ callers[k].at = "append" => log # << >>
           /\ callers[k].at = "nil" => \E i \in DOMAIN log : log[i].kind \in TerminalKinds

(* No caller came before the cancel function was registered, or between      *)
(* another one taking it and calling it.                                     *)
AllHit == \A k \in Callers : callers[k].at # "new" => callers[k].hit

(* Each process adds at most one event to a record l with a canceled event,  *)
(* the one it was writing: then it has no other to write.                    *)
Tailed(l, o) ==
    \A i \in DOMAIN l : l[i].kind = "canceled" =>
        \A p \in StepIDs \cup {Main} : \A j \in DOMAIN l :
            j > i /\ l[j].step = p /\ l[j].kind # "canceled" =>
                /\ o[p] = NoEvent
                /\ \A k \in DOMAIN l : k > i /\ l[k].step = p /\ l[k].kind # "canceled" => k = j

(* Then a canceled event means that the context is done. *)
CancelInv ==
    AllHit => /\ \A i \in DOMAIN log : log[i].kind = "canceled" => canceled
              /\ Tailed(log, outbox)

IInv == RunInv /\ SessionInv /\ CancelInv
-----------------------------------------------------------------------------
(* One step's events and its goroutine *)

(* A further attempt begins. *)
LEMMA FailingStart ==
    ASSUME NEW s, NEW l \in Seq(Events), NEW n \in Nat, n >= 1, Failing(s, l), Len(l) = 2 * n - 2,
           NEW e \in Events, e = StepEvent("step_started", s, n)
    PROVE  Failing(s, Append(l, e)) /\ Len(Append(l, e)) = 2 * n - 1
<1> DEFINE z == Append(l, e)
<1>1. /\ z \in Seq(Events) /\ Len(z) = Len(l) + 1 /\ Len(l) \in Nat /\ z[Len(l) + 1] = e
      /\ \A k \in 1..Len(l) : z[k] = l[k]
  OBVIOUS
<1> HIDE DEF z
<1>2. ASSUME NEW m \in 1..Len(z)
      PROVE  /\ 2 * m - 1 <= Len(z) => z[2 * m - 1] = StepEvent("step_started", s, m)
             /\ 2 * m <= Len(z) => z[2 * m] = StepEvent("step_failed", s, m)
  <2>1. CASE m = n
    <3>1. 2 * m - 1 = Len(l) + 1 /\ ~ (2 * m <= Len(z))
      BY <1>1, <2>1
    <3> QED
      BY <1>1, <2>1, <3>1
  <2>2. CASE m < n
    <3>1. m \in 1..Len(l) /\ 2 * m - 1 \in 1..Len(l) /\ 2 * m \in 1..Len(l) /\ 2 * m - 1 <= Len(l) /\ 2 * m <= Len(l)
      BY <1>1, <2>2
    <3>2. l[2 * m - 1] = StepEvent("step_started", s, m) /\ l[2 * m] = StepEvent("step_failed", s, m)
      BY <3>1 DEF Failing
    <3> QED
      BY <1>1, <3>1, <3>2, SMTT(60), Zenon
  <2>3. CASE m > n
    BY <1>1, <2>3
  <2> QED
    BY <1>1, <2>1, <2>2, <2>3, SMTT(60), Zenon
<1>3. Failing(s, z)
  BY <1>2 DEF Failing
<1> QED
  BY <1>1, <1>3 DEF z

(* The attempt ends. *)
LEMMA FailingEnd ==
    ASSUME NEW s, NEW l \in Seq(Events), NEW n \in Nat, n >= 1, Failing(s, l), Len(l) = 2 * n - 1,
           NEW e \in Events
    PROVE  /\ Len(Append(l, e)) = 2 * n
           /\ e = StepEvent("step_failed", s, n) => Failing(s, Append(l, e))
           /\ e = StepEvent("step_completed", s, n) => Ran(s, Append(l, e))
<1> DEFINE z == Append(l, e)
<1>1. /\ z \in Seq(Events) /\ Len(z) = Len(l) + 1 /\ Len(l) \in Nat /\ z[Len(l) + 1] = e
      /\ \A k \in 1..Len(l) : z[k] = l[k]
  OBVIOUS
<1> HIDE DEF z
<1>2. Len(z) = 2 * n
  BY <1>1, SMTT(60), Zenon
<1>3. ASSUME NEW m \in 1..Len(z)
      PROVE  /\ 2 * m - 1 <= Len(z) => z[2 * m - 1] = StepEvent("step_started", s, m)
             /\ 2 * m <= Len(z) => \/ m = n /\ z[2 * m] = e
                                   \/ m < n /\ z[2 * m] = StepEvent("step_failed", s, m)
  <2>1. CASE m = n
    <3>1. 2 * m = Len(l) + 1 /\ m \in 1..Len(l) /\ 2 * m - 1 \in 1..Len(l) /\ 2 * m - 1 <= Len(l)
      BY <1>1, <2>1
    <3>2. l[2 * m - 1] = StepEvent("step_started", s, m)
      BY <3>1 DEF Failing
    <3> QED
      BY <1>1, <2>1, <3>1, <3>2, SMTT(60), Zenon
  <2>2. CASE m < n
    <3>1. m \in 1..Len(l) /\ 2 * m - 1 \in 1..Len(l) /\ 2 * m \in 1..Len(l) /\ 2 * m - 1 <= Len(l) /\ 2 * m <= Len(l)
      BY <1>1, <2>2
    <3>2. l[2 * m - 1] = StepEvent("step_started", s, m) /\ l[2 * m] = StepEvent("step_failed", s, m)
      BY <3>1 DEF Failing
    <3> QED
      BY <1>1, <2>2, <3>1, <3>2, SMTT(60), Zenon
  <2>3. CASE m > n
    BY <1>1, <2>3
  <2> QED
    BY <1>1, <2>1, <2>2, <2>3, SMTT(60), Zenon
<1>4. ASSUME e = StepEvent("step_failed", s, n)
      PROVE  Failing(s, z)
  BY <1>3, <1>4 DEF Failing
<1>5. ASSUME e = StepEvent("step_completed", s, n)
      PROVE  Ran(s, z)
  BY <1>2, <1>3, <1>5 DEF Ran
<1> QED
  BY <1>2, <1>4, <1>5 DEF z

(* Attempts that failed, and none at all, are a record of attempts. *)
LEMMA FailingRan ==
    ASSUME NEW s, NEW l, Failing(s, l)
    PROVE  Ran(s, l)
BY DEF Failing, Ran

(* A step that has emitted nothing. *)
LEMMA NoneRan ==
    ASSUME NEW s
    PROVE  Failing(s, << >>) /\ Ran(s, << >>)
BY DEF Failing, Ran

(* A step makes one attempt at least. *)
LEMMA AllowedIs ==
    ASSUME NEW d \in Definitions, NEW s \in StepIDs
    PROVE  /\ Allowed(d, s) \in 1..MaxAttempts /\ MaxAttempts \in Nat
           /\ s \in IDs(d) => Decl(d, s).attempts \in Nat /\ Decl(d, s).attempts <= Allowed(d, s)
<1>1. MaxAttempts \in Nat /\ MaxAttempts >= 1
  BY WorkflowAssumption
<1>2. s \in IDs(d) => Decl(d, s).attempts \in 0..MaxAttempts
  BY DeclIs
<1> QED
  BY <1>1, <1>2 DEF Allowed

(* One more event is one more of its step and none of another. *)
LEMMA EventsOfAppend ==
    ASSUME NEW l \in Seq(Events), NEW e \in Events, NEW s
    PROVE  /\ EventsOf(l, s) \in Seq(Events) /\ EventsOf(Append(l, e), s) \in Seq(Events)
           /\ EventsOf(Append(l, e), s) =
                  IF e.step = s THEN Append(EventsOf(l, s), e) ELSE EventsOf(l, s)
<1> DEFINE z == Append(l, e)
           is == {i \in DOMAIN l : l[i].step = s}
           js == {i \in DOMAIN z : z[i].step = s}
<1>1. /\ Len(l) \in Nat /\ DOMAIN l = 1..Len(l) /\ DOMAIN z = 1..(Len(l) + 1) /\ z[Len(l) + 1] = e
      /\ \A i \in 1..Len(l) : z[i] = l[i] /\ i \in 1..(Len(l) + 1)
  OBVIOUS
<1>2. Len(l) + 1 \in 1..(Len(l) + 1)
  BY <1>1
<1>3. EventsOf(l, s) = Picked(l, is) /\ EventsOf(z, s) = Picked(z, js)
  BY DEF EventsOf
<1> HIDE DEF z
<1>4. \A i \in 1..Len(l) : i \in is <=> i \in js
  BY <1>1
<1>5. Len(l) + 1 \in js <=> e.step = s
  BY <1>1, <1>2
<1> HIDE DEF is, js
<1>6. /\ Picked(l, is) \in Seq(Events) /\ Picked(Append(l, e), js) \in Seq(Events)
      /\ Picked(Append(l, e), js) =
             IF Len(l) + 1 \in js THEN Append(Picked(l, is), e) ELSE Picked(l, is)
  BY <1>4, PickedAppend
<1> QED
  BY <1>3, <1>5, <1>6 DEF z

(* The events of a step are events. *)
LEMMA EventsOfIn ==
    ASSUME NEW l \in Seq(Events), NEW s
    PROVE  EventsOf(l, s) \in Seq(Events)
<1> DEFINE is == {i \in DOMAIN l : l[i].step = s}
<1>1. EventsOf(l, s) = Picked(l, is)
  BY DEF EventsOf
<1> HIDE DEF is
<1>2. PICK f : /\ Picks(f, l, is, Len(l)) /\ Picked(l, is) = f[Len(l)]
               /\ \A n \in 0..Len(l) : f[n] \in Seq(Events)
  BY PickedByLoop
<1> QED
  BY <1>1, <1>2

-----------------------------------------------------------------------------
(* executeStep: what a step's goroutine does *)

(* How much has been emitted at a place. *)
LEMMA EmittedAt ==
    ASSUME NEW t
    PROVE  /\ t.at = "start" => Emitted(t) = 2 * t.attempt - 2
           /\ t.at \in {"acting", "report"} => Emitted(t) = 2 * t.attempt - 1
           /\ t.at \in {"failed", "wait", "done"} => Emitted(t) = 2 * t.attempt
BY DEF Emitted

Starting == {"start", "acting"}

(* A goroutine that starts an attempt or is in it. *)
LEMMA TaskStarting ==
    ASSUME NEW d, NEW s \in IDs(d), NEW t, NEW l, t.at \in Starting, ~t.err,
           t.attempt \in 1..Allowed(d, s), Failing(s, l), Len(l) = Emitted(t)
    PROVE  TaskAt(d, s, t, l)
BY DEF Starting, TaskAt, Trying

(* A goroutine whose attempt has failed. *)
LEMMA TaskFailed ==
    ASSUME NEW d, NEW s \in IDs(d), NEW t, NEW l, t.at = "failed", t.err,
           t.attempt \in 1..Allowed(d, s), Failing(s, l), Len(l) = Emitted(t)
    PROVE  TaskAt(d, s, t, l)
BY DEF TaskAt, Trying

(* A goroutine whose attempt has succeeded. *)
LEMMA TaskRan ==
    ASSUME NEW d, NEW s \in IDs(d), NEW t, NEW l, t.at = "done",
           Len(l) <= 2 * Allowed(d, s), Ran(s, l)
    PROVE  TaskAt(d, s, t, l)
BY DEF TaskAt, Trying

(* The goroutine of s is under way, only its own state moves, it may emit    *)
(* an event of its own, and afterwards events and place fit again.           *)
Moved(s) ==
    /\ tasks[s].at \notin {"idle", "done"} /\ outbox[s] = NoEvent /\ StepUnchanged
    /\ tasks' \in [StepIDs -> Tasks]
    /\ \A q \in StepIDs \ {s} : tasks'[q] = tasks[q]

Spoken(s, e) == e \in Events /\ e.step = s /\ e.kind \in StepKinds /\ Emit(s, e)

Fits(s) == /\ tasks'[s].at # "idle"
           /\ TaskAt(def, s, tasks'[s], EventsOf(events', s))
           /\ StatusAt(s, tasks'[s], events')

(* A field of one task is changed. *)
LEMMA GoToIs ==
    ASSUME TypeOK, NEW s \in StepIDs, NEW at \in Places, GoTo(s, at)
    PROVE  /\ tasks' \in [StepIDs -> Tasks] /\ \A q \in StepIDs \ {s} : tasks'[q] = tasks[q]
           /\ tasks'[s].at = at /\ tasks'[s].attempt = tasks[s].attempt /\ tasks'[s].err = tasks[s].err
<1> DEFINE old == tasks[s]
           new == [old EXCEPT !.at = at, !.raw = FALSE, !.late = FALSE]
<1>1. tasks \in [StepIDs -> Tasks]
  BY Zenon DEF TypeOK
<1>2. old \in Tasks
  BY <1>1, Zenon
<1>3. tasks' = [tasks EXCEPT ![s] = new]
  BY <1>1, Zenon DEF GoTo
<1> HIDE DEF old
<1>4. new \in Tasks /\ new.at = at /\ new.attempt = old.attempt /\ new.err = old.err
  BY <1>2, Zenon DEF Tasks
<1> HIDE DEF new
<1>5. /\ tasks' \in [StepIDs -> Tasks] /\ tasks'[s] = new
      /\ \A q \in StepIDs \ {s} : tasks'[q] = tasks[q]
  BY <1>1, <1>3, <1>4, Zenon
<1> QED
  BY <1>4, <1>5, Zenon DEF old

(* What each step of executeStep does to its goroutine, its events and what  *)
(* the projector makes of them, beginning with the tests.                    *)
LEMMA BeginIs ==
    ASSUME TypeOK, TaskInv, NEW s \in StepIDs, BeginStep(s)
    PROVE  Moved(s) /\ Silent /\ Fits(s)
<1> DEFINE t == tasks[s]
           u == tasks'[s]
           l == EventsOf(events, s)
<1>1. t.at = "begin" /\ outbox[s] = NoEvent /\ StepUnchanged /\ Silent
  BY DEF BeginStep, Moves
<1>2. t \in Tasks /\ def \in Definitions
  BY DEF TypeOK
<1>3. TaskAt(def, s, t, l) /\ StatusAt(s, t, events)
  BY SMTT(60), Zenon DEF TaskInv
<1>4. s \in IDs(def) /\ l = << >> /\ t.attempt = 0 /\ ~t.err
  BY <1>1, <1>3, SMTT(60), Zenon DEF TaskAt
<1>5. /\ tasks' \in [StepIDs -> Tasks] /\ \A q \in StepIDs \ {s} : tasks'[q] = tasks[q]
      /\ \/ u.at = "done" /\ u.attempt = 0
         \/ u.at \in {"skip", "reject"} /\ u.attempt = 0 /\ ~u.err
         \/ u.at = "start" /\ u.attempt = 1 /\ ~u.err
  <2>1. CASE tasks' = [tasks EXCEPT ![s].at = "done", ![s].err = TRUE]
    BY <1>2, <1>4, <2>1, Zenon DEF TypeOK, Tasks, Places
  <2>2. CASE GoTo(s, "skip")
    BY <1>4, <2>2, GoToIs, ZenonT(60), SMTT(60) DEF Places
  <2>3. CASE GoTo(s, "reject")
    BY <1>4, <2>3, GoToIs, SMTT(60), Zenon DEF Places
  <2>4. CASE tasks' = [tasks EXCEPT ![s].at = "start", ![s].attempt = 1]
    <3>1. 1 \in 0..MaxAttempts
      BY WorkflowAssumption
    <3> QED
      BY <1>2, <1>4, <2>4, <3>1, Zenon DEF TypeOK, Tasks, Places
  <2> QED
    BY <2>1, <2>2, <2>3, <2>4, SMTT(60), Zenon DEF BeginStep
<1>6. Allowed(def, s) \in Nat /\ 1 <= Allowed(def, s)
  BY <1>2, AllowedIs, SMTT(60), Zenon
<1>7. Failing(s, << >>) /\ Ran(s, << >>) /\ Len(<< >>) = 0
  BY NoneRan, Zenon, SMTT(60)
<1>8. TaskAt(def, s, u, l)
  <2>1. u.at = "start" => Emitted(u) = 0 /\ u.attempt \in 1..Allowed(def, s)
    BY <1>5, <1>6, SMTT(60), Zenon DEF Emitted
  <2> QED
    BY <1>4, <1>5, <1>6, <1>7, <2>1, SMTT(60), Zenon DEF TaskAt, Trying
<1>9. StatusAt(s, u, events)
  BY <1>5 DEF StatusAt
<1>10. events' = events
  BY <1>1, ZenonT(60), SMTT(60) DEF Silent
<1> QED
  BY <1>1, <1>5, <1>8, <1>9, <1>10, ZenonT(60), SMTT(60) DEF Moved, Fits

(* A step skipped. *)
LEMMA SkipIs ==
    ASSUME TypeOK, TaskInv, NEW s \in StepIDs, SkipStep(s) \/ RejectInput(s)
    PROVE  Moved(s) /\ Fits(s) /\ \E e : Spoken(s, e)
<1> DEFINE t == tasks[s]
           u == tasks'[s]
           l == EventsOf(events, s)
<1>1. t.at \in {"skip", "reject"} /\ outbox[s] = NoEvent /\ StepUnchanged
  BY DEF SkipStep, RejectInput, Moves
<1>2. t \in Tasks /\ def \in Definitions /\ events \in Seq(Events)
  BY DEF TypeOK
<1>3. TaskAt(def, s, t, l) /\ StatusAt(s, t, events)
  BY ZenonT(60), SMTT(60) DEF TaskInv
<1>4. s \in IDs(def) /\ l = << >> /\ t.attempt = 0 /\ ~t.err
  BY <1>1, <1>3, SMTT(60), Zenon DEF TaskAt
<1>5. /\ tasks' \in [StepIDs -> Tasks] /\ \A q \in StepIDs \ {s} : tasks'[q] = tasks[q]
      /\ u.at = "done" /\ u.attempt = 0
  <2>1. CASE tasks' = [tasks EXCEPT ![s].at = "done", ![s].err = TRUE]
    BY <1>2, <1>4, <2>1, Zenon DEF TypeOK, Tasks, Places
  <2>2. CASE GoTo(s, "done")
    BY <1>4, <2>2, GoToIs, Zenon DEF Places
  <2> QED
    BY <2>1, <2>2 DEF SkipStep, RejectInput
<1>6. PICK e \in {StepEvent("step_skipped", s, 0), StepEvent("step_failed", s, 1)} : Emit(s, e)
  BY DEF SkipStep, RejectInput
<1>7. e \in Events /\ e.step = s /\ e.kind \in StepKinds
  <2>1. 0 \in 0..MaxAttempts /\ 1 \in 0..MaxAttempts
    BY WorkflowAssumption
  <2> QED
    BY <2>1, SMTT(60), Zenon DEF StepEvent, Events, StepKinds
<1>8. events' = Append(events, e)
  BY <1>6, SMTT(60), Zenon DEF Emit
<1>9. EventsOf(events', s) = << e >>
  <2>1. EventsOf(events', s) = Append(l, e)
    BY <1>2, <1>7, <1>8, EventsOfAppend, Zenon
  <2> QED
    BY <1>4, <2>1
<1>10. Allowed(def, s) \in Nat /\ 1 <= Allowed(def, s)
  BY <1>2, AllowedIs, SMTT(60), Zenon
<1>11. TaskAt(def, s, u, << e >>)
  <2>1. Alone(s, << e >>) /\ Len(<< e >>) = 1
    BY SMTT(60), Zenon DEF Alone
  <2> QED
    BY <1>4, <1>5, <1>10, <2>1, SMTT(60), Zenon DEF TaskAt, Trying
<1>12. StatusAt(s, u, events')
  BY <1>5, SMTT(60), Zenon DEF StatusAt
<1> QED
  BY <1>1, <1>5, <1>6, <1>7, <1>9, <1>11, <1>12, SMTT(60), Zenon DEF Moved, Fits, Spoken

(* What the place of an attempt says. *)
LEMMA TryingIs ==
    ASSUME TypeOK, TaskInv, NEW s \in StepIDs, tasks[s].at \in Trying
    PROVE  /\ s \in IDs(def) /\ def \in Definitions /\ events \in Seq(Events)
           /\ EventsOf(events, s) \in Seq(Events)
           /\ tasks[s].attempt \in Nat /\ 1 <= tasks[s].attempt
           /\ tasks[s].attempt <= Allowed(def, s) /\ Allowed(def, s) \in Nat
           /\ tasks[s].attempt \in 0..MaxAttempts
           /\ Failing(s, EventsOf(events, s)) /\ Len(EventsOf(events, s)) = Emitted(tasks[s])
           /\ \A n \in 1..(tasks[s].attempt - 1) : AttemptStatus(events, s, n) = "step_failed"
<1>1. /\ def \in Definitions /\ events \in Seq(Events) /\ tasks[s] \in Tasks
  BY Zenon DEF TypeOK
<1>2. tasks[s].attempt \in 0..MaxAttempts
  BY <1>1 DEF Tasks
<1>3. TaskAt(def, s, tasks[s], EventsOf(events, s)) /\ StatusAt(s, tasks[s], events)
  BY Zenon DEF TaskInv
<1>4. tasks[s].at # "idle"
  BY ZenonT(60), SMTT(60) DEF Trying
<1>5. /\ s \in IDs(def) /\ tasks[s].attempt \in 1..Allowed(def, s)
      /\ Failing(s, EventsOf(events, s)) /\ Len(EventsOf(events, s)) = Emitted(tasks[s])
  BY <1>3, <1>4 DEF TaskAt
<1>6. Allowed(def, s) \in Nat
  BY <1>1, AllowedIs, SMTT(60), Zenon
<1>7. \A n \in 1..(tasks[s].attempt - 1) : AttemptStatus(events, s, n) = "step_failed"
  BY <1>3 DEF StatusAt
<1>8. EventsOf(events, s) \in Seq(Events)
  BY <1>1, EventsOfIn, SMTT(60), Zenon
<1> QED
  BY <1>1, <1>2, <1>5, <1>6, <1>7, <1>8, SMTT(60), Zenon

(* The statuses after an event of s about attempt n. *)
LEMMA SaysIs ==
    ASSUME TypeOK, NEW s \in StepIDs, NEW kind \in StepKinds, NEW n \in 0..MaxAttempts,
           Emit(s, StepEvent(kind, s, n))
    PROVE  /\ Spoken(s, StepEvent(kind, s, n))
           /\ EventsOf(events', s) = Append(EventsOf(events, s), StepEvent(kind, s, n))
           /\ StepStatus(events', s) = kind /\ AttemptStatus(events', s, n) = kind
           /\ \A m : m # n => AttemptStatus(events', s, m) = AttemptStatus(events, s, m)
<1> DEFINE e == StepEvent(kind, s, n)
<1>1. e \in Events /\ e.step = s /\ e.kind = kind /\ e.attempt = n
  BY SMTT(60), Zenon DEF StepEvent, Events
<1>2. events' = Append(events, e) /\ events \in Seq(Events)
  BY DEF Emit, TypeOK
<1> HIDE DEF e
<1>3. EventsOf(events', s) = Append(EventsOf(events, s), e)
  BY <1>1, <1>2, EventsOfAppend, Zenon, SMTT(60)
<1>4. StepStatus(events', s) = kind
  BY <1>1, <1>2, StatusAppend
<1>5. \A m : AttemptStatus(events', s, m) = IF m = n THEN kind ELSE AttemptStatus(events, s, m)
  BY <1>1, <1>2, StatusAppend, ZenonT(60), SMTT(60)
<1> QED
  BY <1>1, <1>3, <1>4, <1>5, SMTT(60), Zenon DEF Spoken, e

(* An attempt starts. *)
LEMMA StartIs ==
    ASSUME TypeOK, TaskInv, NEW s \in StepIDs, StartAttempt(s)
    PROVE  Moved(s) /\ Fits(s) /\ \E e : Spoken(s, e)
<1> DEFINE u == tasks'[s]
           l == EventsOf(events, s)
           n == tasks[s].attempt
           e == StepEvent("step_started", s, n)
<1>1. tasks[s].at = "start" /\ outbox[s] = NoEvent /\ StepUnchanged
  BY Zenon DEF StartAttempt, Moves
<1>2. /\ s \in IDs(def) /\ l \in Seq(Events)
      /\ n \in Nat /\ 1 <= n /\ n <= Allowed(def, s) /\ Allowed(def, s) \in Nat /\ n \in 0..MaxAttempts
      /\ Failing(s, l) /\ Len(l) = Emitted(tasks[s])
      /\ \A m \in 1..(n - 1) : AttemptStatus(events, s, m) = "step_failed"
  BY <1>1, TryingIs, Zenon DEF Trying
<1>3. /\ tasks' \in [StepIDs -> Tasks] /\ \A q \in StepIDs \ {s} : tasks'[q] = tasks[q]
      /\ u.at = "acting" /\ u.attempt = n /\ u.err = tasks[s].err
  BY GoToIs, ZenonT(60), SMTT(60) DEF StartAttempt, Places
<1>4. ~tasks[s].err
  BY <1>1 DEF TaskInv, TaskAt
<1>5. Emit(s, e) /\ "step_started" \in StepKinds
  BY Zenon DEF StartAttempt, StepKinds
<1>6. /\ Spoken(s, e) /\ EventsOf(events', s) = Append(l, e)
      /\ \A m : m # n => AttemptStatus(events', s, m) = AttemptStatus(events, s, m)
  BY <1>2, <1>5, SaysIs, ZenonT(60), SMTT(60)
<1>7. e \in Events
  BY <1>6 DEF Spoken
<1>8. Len(l) = 2 * n - 2
  BY <1>1, <1>2, Zenon DEF Emitted
<1> HIDE DEF e, l
<1>9. Failing(s, Append(l, e)) /\ Len(Append(l, e)) = 2 * n - 1
  BY <1>2, <1>7, <1>8, FailingStart, Zenon DEF e
<1> HIDE DEF n
<1>10. Len(Append(l, e)) = Emitted(u)
  BY <1>3, <1>9, Zenon, SMTT(60) DEF Emitted
<1>11. TaskAt(def, s, u, Append(l, e))
  <2>1. u.attempt \in 1..Allowed(def, s)
    <3> HIDE DEF u
    <3> QED
      BY <1>2, <1>3
  <2>2. u.at \in Starting
    BY <1>3, Zenon DEF Starting
  <2>3. ~u.err
    BY <1>3, <1>4, Zenon
  <2> HIDE DEF u
  <2> QED
    BY <1>2, <1>9, <1>10, <2>1, <2>2, <2>3, TaskStarting, Zenon
<1>12. StatusAt(s, u, events')
  <2>1. \A m \in 1..(n - 1) : m # n
    BY <1>2, SMTT(60), Zenon
  <2> QED
    BY <1>2, <1>3, <1>6, <2>1, ZenonT(60), SMTT(60) DEF StatusAt
<1> QED
  BY <1>1, <1>3, <1>6, <1>11, <1>12, Zenon DEF Moved, Fits

(* The action returns. *)
LEMMA ReturnsIs ==
    ASSUME TypeOK, TaskInv, NEW s \in StepIDs, ActionReturns(s)
    PROVE  Moved(s) /\ Silent /\ Fits(s)
<1> DEFINE u == tasks'[s]
           l == EventsOf(events, s)
           n == tasks[s].attempt
<1>1. tasks[s].at = "acting" /\ outbox[s] = NoEvent /\ StepUnchanged /\ Silent
  BY ZenonT(60), SMTT(60) DEF ActionReturns, Moves
<1>2. /\ s \in IDs(def) /\ def \in Definitions /\ l \in Seq(Events)
      /\ n \in Nat /\ 1 <= n /\ n <= Allowed(def, s) /\ Allowed(def, s) \in Nat
      /\ Failing(s, l) /\ Len(l) = Emitted(tasks[s])
      /\ \A m \in 1..(n - 1) : AttemptStatus(events, s, m) = "step_failed"
  BY <1>1, TryingIs, SMTT(60), Zenon DEF Trying
<1>3. Decl(def, s).timeout \in BOOLEAN
  <2>1. Decl(def, s) \in Decls
    BY <1>2, DeclIs
  <2> QED
    BY <2>1, ZenonT(60), SMTT(60) DEF Decls
<1>4. PICK data \in Data, raw \in BOOLEAN, late \in BOOLEAN :
         tasks' = [tasks EXCEPT ![s].at = "report", ![s].data = data, ![s].raw = raw,
                                ![s].late = late, ![s].err = raw \/ Decl(def, s).timeout]
  BY ZenonT(60), SMTT(60) DEF ActionReturns
<1> DEFINE err == raw \/ Decl(def, s).timeout
<1>5. err \in BOOLEAN
  BY <1>3
<1> HIDE DEF err
<1>6. /\ tasks' \in [StepIDs -> Tasks] /\ \A q \in StepIDs \ {s} : tasks'[q] = tasks[q]
      /\ u.at = "report" /\ u.attempt = n
  <2>1. tasks' = [tasks EXCEPT ![s].at = "report", ![s].data = data, ![s].raw = raw,
                               ![s].late = late, ![s].err = err]
    BY <1>4, SMTT(60), Zenon DEF err
  <2>2. tasks \in [StepIDs -> Tasks]
    BY DEF TypeOK
  <2>3. u = [tasks[s] EXCEPT !.at = "report", !.data = data, !.raw = raw, !.late = late, !.err = err]
    BY <2>1, <2>2, SMTT(60), Zenon
  <2>4. u \in Tasks /\ u.at = "report" /\ u.attempt = n
    <3>1. u = [at |-> "report", attempt |-> n, data |-> data, raw |-> raw, late |-> late, err |-> err]
      BY <2>2, <2>3, ZenonT(60), SMTT(60) DEF Tasks
    <3>2. n \in 0..MaxAttempts /\ "report" \in Places
      BY <2>2 DEF Tasks, Places
    <3> HIDE DEF u, n
    <3>3. u \in Tasks
      BY <1>5, <3>1, <3>2, Zenon DEF Tasks
    <3> QED
      BY <3>1, <3>3
  <2>5. \A q \in StepIDs \ {s} : tasks'[q] = tasks[q]
    BY <2>1, <2>2
  <2>6. tasks' = [q \in StepIDs |-> tasks'[q]]
    BY <2>1, <2>2, Zenon
  <2>7. tasks' \in [StepIDs -> Tasks]
    BY <2>2, <2>4, <2>5, <2>6, SMTT(60), Zenon
  <2> QED
    BY <2>4, <2>5, <2>7, Zenon
<1>7. events' = events
  BY <1>1 DEF Silent
<1>8. Len(l) = Emitted(u)
  BY <1>1, <1>2, <1>6, ZenonT(60), SMTT(60) DEF Emitted
<1> HIDE DEF n, l
<1>9. TaskAt(def, s, u, l)
  BY <1>2, <1>6, <1>8, SMTT(60), Zenon DEF TaskAt, Trying
<1>10. StatusAt(s, u, events)
  BY <1>2, <1>6, ZenonT(60), SMTT(60) DEF StatusAt
<1> QED
  BY <1>1, <1>6, <1>7, <1>9, <1>10, SMTT(60), Zenon DEF Moved, Fits, l

(* The attempt's end is emitted. *)
LEMMA ReportIs ==
    ASSUME TypeOK, TaskInv, NEW s \in StepIDs, ReportAttempt(s)
    PROVE  Moved(s) /\ Fits(s) /\ \E e : Spoken(s, e)
<1> DEFINE u == tasks'[s]
           l == EventsOf(events, s)
           n == tasks[s].attempt
           kind == IF tasks[s].err THEN "step_failed" ELSE "step_completed"
           e == StepEvent(kind, s, n)
<1>1. tasks[s].at = "report" /\ outbox[s] = NoEvent /\ StepUnchanged
  BY ZenonT(60), SMTT(60) DEF ReportAttempt, Moves
<1>2. /\ s \in IDs(def) /\ l \in Seq(Events)
      /\ n \in Nat /\ 1 <= n /\ n <= Allowed(def, s) /\ Allowed(def, s) \in Nat /\ n \in 0..MaxAttempts
      /\ Failing(s, l) /\ Len(l) = Emitted(tasks[s])
      /\ \A m \in 1..(n - 1) : AttemptStatus(events, s, m) = "step_failed"
  BY <1>1, TryingIs, SMTT(60), Zenon DEF Trying
<1>3. Emit(s, e) /\ GoTo(s, IF tasks[s].err THEN "failed" ELSE "done") /\ kind \in StepKinds
  BY SMTT(60), Zenon DEF ReportAttempt, StepKinds
<1>4. /\ tasks' \in [StepIDs -> Tasks] /\ \A q \in StepIDs \ {s} : tasks'[q] = tasks[q]
      /\ u.at = (IF tasks[s].err THEN "failed" ELSE "done") /\ u.attempt = n /\ u.err = tasks[s].err
  <2> DEFINE at == IF tasks[s].err THEN "failed" ELSE "done"
  <2>1. at \in Places /\ GoTo(s, at)
    BY <1>3 DEF Places
  <2> HIDE DEF at
  <2>2. /\ tasks' \in [StepIDs -> Tasks] /\ \A q \in StepIDs \ {s} : tasks'[q] = tasks[q]
        /\ u.at = at /\ u.attempt = n /\ u.err = tasks[s].err
    BY <2>1, GoToIs, Zenon
  <2> QED
    BY <2>2, SMTT(60), Zenon DEF at
<1>5. /\ Spoken(s, e) /\ EventsOf(events', s) = Append(l, e)
      /\ StepStatus(events', s) = kind /\ AttemptStatus(events', s, n) = kind
      /\ \A m : m # n => AttemptStatus(events', s, m) = AttemptStatus(events, s, m)
  <2> HIDE DEF kind
  <2> QED
    BY <1>2, <1>3, SaysIs, ZenonT(60), SMTT(60)
<1>6. e \in Events
  BY <1>5 DEF Spoken
<1>7. Len(l) = 2 * n - 1
  BY <1>1, <1>2, SMTT(60), Zenon DEF Emitted
<1>8. /\ tasks[s].err => e = StepEvent("step_failed", s, n)
      /\ ~tasks[s].err => e = StepEvent("step_completed", s, n)
  BY Zenon
<1> HIDE DEF e, l
<1>9. /\ Len(Append(l, e)) = 2 * n
      /\ e = StepEvent("step_failed", s, n) => Failing(s, Append(l, e))
      /\ e = StepEvent("step_completed", s, n) => Ran(s, Append(l, e))
  BY <1>2, <1>6, <1>7, FailingEnd, ZenonT(60), SMTT(60)
<1> HIDE DEF n
<1>10. Len(Append(l, e)) = Emitted(u) /\ Len(Append(l, e)) <= 2 * Allowed(def, s)
  <2>1. u.at \in {"failed", "wait", "done"}
    BY <1>4, Zenon
  <2>2. Emitted(u) = 2 * n
    BY <1>4, <2>1, EmittedAt, Zenon
  <2> DEFINE max == Allowed(def, s)
  <2>3. n \in Nat /\ max \in Nat /\ n <= max
    BY <1>2, Zenon
  <2> HIDE DEF max, u
  <2>4. 2 * n <= 2 * max
    BY <2>3
  <2> QED
    BY <1>9, <2>2, <2>4, Zenon DEF max
<1>11. TaskAt(def, s, u, Append(l, e))
  <2>1. CASE tasks[s].err
    <3>1. u.at = "failed" /\ u.err /\ Failing(s, Append(l, e))
      BY <1>4, <1>8, <1>9, <2>1, Zenon
    <3>2. n \in 1..Allowed(def, s)
      <4> HIDE DEF u
      <4> QED
        BY <1>2
    <3>3. u.attempt \in 1..Allowed(def, s)
      BY <1>4, <3>2, Zenon
    <3> QED
      BY <1>2, <1>10, <3>1, <3>3, TaskFailed, Zenon
  <2>2. CASE ~tasks[s].err
    <3>1. u.at = "done" /\ Ran(s, Append(l, e))
      BY <1>4, <1>8, <1>9, <2>2, Zenon
    <3> QED
      BY <1>2, <1>10, <3>1, TaskRan, Zenon
  <2> QED
    BY <2>1, <2>2, Zenon, SMTT(60)
<1>12. StatusAt(s, u, events')
  <2>1. \A m \in 1..(n - 1) : m # n
    BY <1>2
  <2>2. CASE tasks[s].err
    BY <1>2, <1>4, <1>5, <2>1, <2>2, Zenon DEF StatusAt
  <2>3. CASE ~tasks[s].err
    BY <1>2, <1>4, <1>5, <2>1, <2>3, ZenonT(60), SMTT(60) DEF StatusAt
  <2> QED
    BY <2>2, <2>3, Zenon
<1> QED
  BY <1>1, <1>4, <1>5, <1>11, <1>12, Zenon DEF Moved, Fits

(* After a failed attempt the goroutine waits for the next one or is done. *)
LEMMA AfterFailureIs ==
    ASSUME TypeOK, TaskInv, NEW s \in StepIDs, AfterFailure(s) \/ AbandonRetry(s)
    PROVE  Moved(s) /\ Silent /\ Fits(s)
<1> DEFINE u == tasks'[s]
           l == EventsOf(events, s)
           n == tasks[s].attempt
<1>1. tasks[s].at \in {"failed", "wait"} /\ outbox[s] = NoEvent /\ StepUnchanged /\ Silent
  BY Zenon DEF AfterFailure, AbandonRetry, Moves
<1>2. /\ s \in IDs(def) /\ def \in Definitions /\ l \in Seq(Events)
      /\ n \in Nat /\ 1 <= n /\ n <= Allowed(def, s) /\ Allowed(def, s) \in Nat
      /\ Failing(s, l) /\ Len(l) = Emitted(tasks[s])
      /\ \A m \in 1..(n - 1) : AttemptStatus(events, s, m) = "step_failed"
  BY <1>1, TryingIs, ZenonT(60), SMTT(60) DEF Trying
<1>3. Decl(def, s).attempts \in Nat /\ Decl(def, s).attempts <= Allowed(def, s)
  BY <1>2, AllowedIs
<1>4. PICK at \in {"done", "wait"} :
         GoTo(s, at) /\ (at = "wait" => ~ (n >= Decl(def, s).attempts))
  BY Zenon DEF AfterFailure, AbandonRetry
<1>5. /\ tasks' \in [StepIDs -> Tasks] /\ \A q \in StepIDs \ {s} : tasks'[q] = tasks[q]
      /\ u.at = at /\ u.attempt = n /\ u.err = tasks[s].err
  BY <1>4, GoToIs, Zenon DEF Places
<1>6. tasks[s].err
  BY <1>1, Zenon DEF TaskInv, TaskAt
<1>7. StepStatus(events, s) = "step_failed" /\ AttemptStatus(events, s, n) = "step_failed"
  BY <1>1, Zenon DEF TaskInv, StatusAt
<1>8. events' = events
  BY <1>1, SMTT(60), Zenon DEF Silent
<1>9. Len(l) = Emitted(u) /\ Len(l) <= 2 * Allowed(def, s) /\ (at = "wait" => n < Allowed(def, s))
  BY <1>1, <1>2, <1>3, <1>4, <1>5, SMTT(60), Zenon DEF Emitted
<1>10. Ran(s, l)
  BY <1>2, FailingRan, ZenonT(60), SMTT(60)
<1> HIDE DEF n, l
<1>11. TaskAt(def, s, u, l)
  BY <1>2, <1>4, <1>5, <1>6, <1>9, <1>10, SMTT(60), Zenon DEF TaskAt, Trying
<1>12. StatusAt(s, u, events)
  BY <1>2, <1>4, <1>5, <1>6, <1>7, ZenonT(60), SMTT(60) DEF StatusAt
<1> QED
  BY <1>1, <1>4, <1>5, <1>8, <1>11, <1>12, ZenonT(60), SMTT(60) DEF Moved, Fits, l

(* The next attempt, or none because the context is done. *)
LEMMA RetryIs ==
    ASSUME TypeOK, TaskInv, NEW s \in StepIDs, Retry(s)
    PROVE  Moved(s) /\ Silent /\ Fits(s)
<1> DEFINE u == tasks'[s]
           l == EventsOf(events, s)
           n == tasks[s].attempt
<1>1. tasks[s].at = "wait" /\ outbox[s] = NoEvent /\ StepUnchanged /\ Silent
  BY Zenon DEF Retry, Moves
<1>2. /\ s \in IDs(def) /\ def \in Definitions /\ l \in Seq(Events)
      /\ n \in Nat /\ 1 <= n /\ Allowed(def, s) \in Nat
      /\ Failing(s, l) /\ Len(l) = Emitted(tasks[s])
      /\ \A m \in 1..(n - 1) : AttemptStatus(events, s, m) = "step_failed"
  BY <1>1, TryingIs, Zenon DEF Trying
<1>3. n < Allowed(def, s)
  BY <1>1, Zenon DEF TaskInv, TaskAt
<1>4. AttemptStatus(events, s, n) = "step_failed"
  BY <1>1, ZenonT(60), SMTT(60) DEF TaskInv, StatusAt
<1>5. n + 1 \in 0..MaxAttempts
  BY <1>2, <1>3, AllowedIs, SMTT(60), Zenon
<1>6. /\ tasks' \in [StepIDs -> Tasks] /\ \A q \in StepIDs \ {s} : tasks'[q] = tasks[q]
      /\ u.at = "start" /\ u.attempt = n + 1 /\ ~u.err
  <2>1. tasks' = [tasks EXCEPT ![s].at = "start", ![s].attempt = n + 1, ![s].err = FALSE]
    BY DEF Retry
  <2>2. tasks \in [StepIDs -> Tasks]
    BY Zenon DEF TypeOK
  <2> QED
    BY <1>5, <2>1, <2>2, SMTT(60), Zenon DEF Tasks, Places
<1>7. events' = events
  BY <1>1, SMTT(60), Zenon DEF Silent
<1>8. Len(l) = Emitted(u)
  <2>1. Len(l) = 2 * n
    BY <1>1, <1>2, EmittedAt, Zenon
  <2>2. Emitted(u) = 2 * (n + 1) - 2
    BY <1>6, EmittedAt, Zenon
  <2> HIDE DEF n, u, l
  <2> QED
    BY <1>2, <2>1, <2>2
<1> HIDE DEF n, l
<1>9. TaskAt(def, s, u, l)
  <2> DEFINE max == Allowed(def, s)
  <2>1. n \in Nat /\ max \in Nat /\ n < max
    BY <1>2, <1>3, Zenon
  <2> HIDE DEF max, u
  <2>2. n + 1 \in 1..max
    BY <2>1
  <2>3. u.attempt \in 1..Allowed(def, s)
    BY <1>6, <2>2, Zenon DEF max
  <2>4. u.at \in Starting /\ ~u.err
    BY <1>6, Zenon DEF Starting
  <2> QED
    BY <1>2, <1>8, <2>3, <2>4, TaskStarting, Zenon
<1>10. StatusAt(s, u, events)
  <2>1. \A m \in 1..((n + 1) - 1) : m \in 1..(n - 1) \/ m = n
    BY <1>2, SMTT(60), Zenon
  <2> QED
    BY <1>2, <1>4, <1>6, <2>1, Zenon, SMTT(60) DEF StatusAt
<1> QED
  BY <1>1, <1>6, <1>7, <1>9, <1>10, SMTT(60), Zenon DEF Moved, Fits, l

(* Every step of executeStep. *)
LEMMA StepIs ==
    ASSUME TypeOK, TaskInv, NEW s \in StepIDs, StepNext(s)
    PROVE  Moved(s) /\ Fits(s) /\ (Silent \/ \E e : Spoken(s, e))
<1>1. CASE BeginStep(s)
  BY <1>1, BeginIs, SMTT(60), Zenon
<1>2. CASE SkipStep(s) \/ RejectInput(s)
  BY <1>2, SkipIs, SMTT(60), Zenon
<1>3. CASE StartAttempt(s)
  BY <1>3, StartIs, SMTT(60), Zenon
<1>4. CASE ActionReturns(s)
  BY <1>4, ReturnsIs
<1>5. CASE ReportAttempt(s)
  BY <1>5, ReportIs
<1>6. CASE AfterFailure(s) \/ AbandonRetry(s)
  BY <1>6, AfterFailureIs, Zenon
<1>7. CASE Retry(s)
  BY <1>7, RetryIs
<1> QED
  BY <1>1, <1>2, <1>3, <1>4, <1>5, <1>6, <1>7, ZenonT(60), SMTT(60) DEF StepNext

-----------------------------------------------------------------------------
(* Emitting and recording keep what the thread shows in step *)

(* What emitting an event changes, and what it does not. *)
LEMMA EmitIs ==
    ASSUME TypeOK, NEW p \in StepIDs \cup {Main}, NEW e \in Events, e.step = p, Emit(p, e)
    PROVE  /\ events' = Append(events, e) /\ events' \in Seq(Events) /\ log' = log
           /\ outbox' \in [StepIDs \cup {Main} -> Events \cup {NoEvent}]
           /\ outbox'[p] = IF canceled THEN NoEvent ELSE e
           /\ \A q \in StepIDs \cup {Main} : q # p => outbox'[q] = outbox[q]
           /\ \A q : q # p => /\ EventsOf(events', q) = EventsOf(events, q)
                              /\ StepStatus(events', q) = StepStatus(events, q)
                              /\ \A n : AttemptStatus(events', q, n) = AttemptStatus(events, q, n)
<1>1. /\ events \in Seq(Events) /\ outbox \in [StepIDs \cup {Main} -> Events \cup {NoEvent}]
      /\ outbox[p] = NoEvent /\ events' = Append(events, e) /\ log' = log
      /\ outbox' = IF canceled THEN outbox ELSE [outbox EXCEPT ![p] = e]
  BY DEF TypeOK, Emit
<1>2. events' \in Seq(Events)
  BY <1>1, SMTT(60), Zenon
<1>3. /\ outbox' \in [StepIDs \cup {Main} -> Events \cup {NoEvent}]
      /\ outbox'[p] = IF canceled THEN NoEvent ELSE e
      /\ \A q \in StepIDs \cup {Main} : q # p => outbox'[q] = outbox[q]
  <2>1. CASE canceled
    BY <1>1, <2>1, SMTT(60), Zenon
  <2>2. CASE ~canceled
    BY <1>1, <2>2, SMTT(60), Zenon
  <2> QED
    BY <2>1, <2>2, SMTT(60), Zenon
<1>4. ASSUME NEW q, q # p
      PROVE  /\ EventsOf(events', q) = EventsOf(events, q)
             /\ StepStatus(events', q) = StepStatus(events, q)
             /\ \A n : AttemptStatus(events', q, n) = AttemptStatus(events, q, n)
  <2>1. EventsOf(events', q) = EventsOf(events, q)
    BY <1>1, <1>4, EventsOfAppend, Zenon
  <2>2. StepStatus(events', q) = StepStatus(events, q)
    BY <1>1, <1>4, StatusAppend, Zenon
  <2>3. \A n : AttemptStatus(events', q, n) = AttemptStatus(events, q, n)
    BY <1>1, <1>4, StatusAppend, SMTT(60), Zenon
  <2> QED
    BY <2>1, <2>2, <2>3
<1> QED
  BY <1>1, <1>2, <1>3, <1>4, SMTT(60), Zenon

(* A run's status is that of Main. *)
LEMMA RunStatusIs == \A l : RunStatus(l) = StepStatus(l, Main)
BY Zenon DEF RunStatus, StepStatus

(* An event emitted and still to be written. *)
LEMMA EmitMirror ==
    ASSUME TypeOK, MirrorInv, NEW p \in StepIDs \cup {Main}, NEW e \in Events, e.step = p, Emit(p, e),
           canceled' = canceled
    PROVE  MirrorInv'
<1> SUFFICES ASSUME ~canceled
             PROVE  MirrorInv'
  BY Zenon DEF MirrorInv
<1>1. /\ events' = Append(events, e) /\ log' = log
      /\ outbox'[p] = e
      /\ \A q \in StepIDs \cup {Main} : q # p => outbox'[q] = outbox[q]
      /\ \A q : q # p => /\ StepStatus(events', q) = StepStatus(events, q)
                         /\ \A n : AttemptStatus(events', q, n) = AttemptStatus(events, q, n)
  BY EmitIs, ZenonT(60), SMTT(60)
<1>2. events \in Seq(Events) /\ e # NoEvent /\ outbox[p] = NoEvent
  BY WorkflowAssumption, Zenon DEF TypeOK, Emit
<1>3. /\ StepStatus(events', p) = e.kind
      /\ \A n : AttemptStatus(events', p, n) = IF e.attempt = n THEN e.kind ELSE AttemptStatus(events, p, n)
  BY <1>1, <1>2, StatusAppend, SMTT(60), Zenon
<1>4. ASSUME NEW s \in StepIDs
      PROVE  StepStatus(events', s) = Pending(s, StepStatus(log, s))'
  <2>1. CASE s = p
    BY <1>1, <1>2, <1>3, <2>1, Zenon DEF Pending
  <2>2. CASE s # p
    BY <1>1, <2>2, Zenon DEF MirrorInv, Pending
  <2> QED
    BY <2>1, <2>2
<1>5. ASSUME NEW s \in StepIDs, NEW n \in 0..MaxAttempts
      PROVE  AttemptStatus(events', s, n) =
                 IF outbox'[s] # NoEvent /\ outbox'[s].attempt = n THEN outbox'[s].kind
                 ELSE AttemptStatus(log', s, n)
  <2>1. AttemptStatus(events, s, n) = IF outbox[s] # NoEvent /\ outbox[s].attempt = n THEN outbox[s].kind
                                      ELSE AttemptStatus(log, s, n)
    BY Zenon DEF MirrorInv
  <2>2. CASE s = p
    BY <1>1, <1>2, <1>3, <2>1, <2>2, ZenonT(60), SMTT(60)
  <2>3. CASE s # p
    BY <1>1, <2>1, <2>3, SMTT(60), Zenon
  <2> QED
    BY <2>2, <2>3, Zenon
<1>6. ASSUME \A i \in DOMAIN log : log[i].kind # "canceled"
      PROVE  RunStatus(events') = Pending(Main, IF RunStatus(log) = "queued" THEN "none" ELSE RunStatus(log))'
  <2>1. RunStatus(events') = StepStatus(events', Main) /\ RunStatus(events) = StepStatus(events, Main)
    BY RunStatusIs, Zenon
  <2>2. RunStatus(events) = Pending(Main, IF RunStatus(log) = "queued" THEN "none" ELSE RunStatus(log))
    BY <1>6, Zenon DEF MirrorInv
  <2>3. CASE p = Main
    BY <1>1, <1>2, <1>3, <2>1, <2>3, Zenon DEF Pending
  <2>4. CASE p # Main
    BY <1>1, <2>1, <2>2, <2>4, Zenon DEF Pending
  <2> QED
    BY <2>3, <2>4
<1> QED
  BY <1>1, <1>4, <1>5, <1>6, Zenon DEF MirrorInv

(* What stays when nothing is said. *)
LEMMA SilentMirror ==
    ASSUME MirrorInv, Silent, canceled => canceled'
    PROVE  MirrorInv'
<1>1. events' = events /\ outbox' = outbox /\ log' = log
  BY DEF Silent
<1> QED
  BY <1>1, Zenon DEF MirrorInv, Pending

(* A step's goroutine. *)
LEMMA StepKeeps ==
    ASSUME RunInv, NEW s \in StepIDs, StepNext(s)
    PROVE  RunInv'
<1>0. TypeOK /\ PhaseInv /\ EndInv /\ BatchInv /\ ResultInv /\ OutboxInv /\ TaskInv /\ MirrorInv
  BY DEF RunInv
<1>1. Moved(s) /\ Fits(s) /\ (Silent \/ \E e : Spoken(s, e))
  BY <1>0, StepIs, Zenon
<1>2. /\ def' = def /\ ordered' = ordered /\ limit' = limit /\ canceled' = canceled /\ phase' = phase
      /\ outcome' = outcome /\ batch' = batch /\ results' = results
      /\ tasks' \in [StepIDs -> Tasks] /\ \A q \in StepIDs : q # s => tasks'[q] = tasks[q]
      /\ tasks[s].at \notin {"idle", "done"}
  BY <1>1, Zenon DEF Moved, StepUnchanged
<1>3. s \in Steps(batch)
  BY <1>0, <1>2, SMTT(60), Zenon DEF BatchInv
<1>4. phase = "running"
  <2>1. batch # << >>
    BY <1>3 DEF Steps
  <2> QED
    BY <1>0, <2>1 DEF PhaseInv
<1>5. s # Main
  BY WorkflowAssumption
<1>6. /\ events' \in Seq(Events) /\ log' = log
      /\ outbox' \in [StepIDs \cup {Main} -> Events \cup {NoEvent}]
      /\ \A q \in StepIDs \cup {Main} : q # s => outbox'[q] = outbox[q]
      /\ outbox'[s] # NoEvent => outbox'[s].step = s /\ outbox'[s].kind \in StepKinds
      /\ \A q : q # s => /\ EventsOf(events', q) = EventsOf(events, q)
                         /\ StepStatus(events', q) = StepStatus(events, q)
                         /\ \A n : AttemptStatus(events', q, n) = AttemptStatus(events, q, n)
      /\ \A i \in DOMAIN events' : events'[i].kind \notin TerminalKinds
      /\ MirrorInv'
  <2>1. \A i \in DOMAIN events : events[i].kind \notin TerminalKinds
    BY <1>0, <1>4 DEF EndInv
  <2>2. outbox[s] = NoEvent /\ events \in Seq(Events)
        /\ outbox \in [StepIDs \cup {Main} -> Events \cup {NoEvent}]
    BY <1>0, <1>1, Zenon DEF Moved, TypeOK
  <2>3. CASE Silent
    <3>1. events' = events /\ outbox' = outbox /\ log' = log
      BY <2>3, Zenon DEF Silent
    <3>2. MirrorInv'
      BY <1>0, <1>2, <2>3, SilentMirror, ZenonT(60), SMTT(60)
    <3> QED
      BY <2>1, <2>2, <3>1, <3>2, SMTT(60), Zenon
  <2>4. ASSUME NEW e, Spoken(s, e)
        PROVE  /\ events' \in Seq(Events) /\ log' = log
               /\ outbox' \in [StepIDs \cup {Main} -> Events \cup {NoEvent}]
               /\ \A q \in StepIDs \cup {Main} : q # s => outbox'[q] = outbox[q]
               /\ outbox'[s] # NoEvent => outbox'[s].step = s /\ outbox'[s].kind \in StepKinds
               /\ \A q : q # s => /\ EventsOf(events', q) = EventsOf(events, q)
                                  /\ StepStatus(events', q) = StepStatus(events, q)
                                  /\ \A n : AttemptStatus(events', q, n) = AttemptStatus(events, q, n)
               /\ \A i \in DOMAIN events' : events'[i].kind \notin TerminalKinds
               /\ MirrorInv'
    <3>1. e \in Events /\ e.step = s /\ e.kind \in StepKinds /\ Emit(s, e)
      BY <2>4, Zenon DEF Spoken
    <3>2. /\ events' = Append(events, e) /\ events' \in Seq(Events) /\ log' = log
          /\ outbox' \in [StepIDs \cup {Main} -> Events \cup {NoEvent}]
          /\ outbox'[s] = IF canceled THEN NoEvent ELSE e
          /\ \A q \in StepIDs \cup {Main} : q # s => outbox'[q] = outbox[q]
          /\ \A q : q # s => /\ EventsOf(events', q) = EventsOf(events, q)
                             /\ StepStatus(events', q) = StepStatus(events, q)
                             /\ \A n : AttemptStatus(events', q, n) = AttemptStatus(events, q, n)
      BY <1>0, <3>1, EmitIs, ZenonT(60), SMTT(60)
    <3>3. e.kind \notin TerminalKinds
      BY <3>1 DEF StepKinds, TerminalKinds
    <3>4. \A i \in DOMAIN events' : events'[i].kind \notin TerminalKinds
      BY <2>1, <2>2, <3>1, <3>2, <3>3
    <3>5. MirrorInv'
      BY <1>0, <1>2, <3>1, EmitMirror, Zenon
    <3>6. outbox'[s] # NoEvent => outbox'[s].step = s /\ outbox'[s].kind \in StepKinds
      BY <3>1, <3>2, Zenon
    <3> QED
      BY <3>2, <3>4, <3>5, <3>6, SMTT(60), Zenon
  <2> QED
    BY <1>1, <2>3, <2>4, Zenon
<1>7. TypeOK'
  BY <1>0, <1>2, <1>6, Zenon DEF TypeOK
<1>8. PhaseInv'
  BY <1>0, <1>2, <1>4, Zenon DEF PhaseInv
<1>9. EndInv'
  BY <1>6, ZenonT(60), SMTT(60) DEF EndInv
<1>10. BatchInv'
  <2>1. \A q : MayRun(q)' <=> MayRun(q)
    BY <1>2, Zenon DEF MayRun, Undone
  <2>2. \A q : Undone(q)' <=> Undone(q)
    BY <1>2, Zenon DEF Undone
  <2>3. tasks'[s].at # "idle"
    BY <1>1, Zenon DEF Fits
  <2>4. Len(batch') <= AtMost'
    BY <1>0, <1>2, Zenon DEF BatchInv, AtMost
  <2>5. ASSUME NEW q \in StepIDs
        PROVE  IF q \in Steps(batch') THEN tasks'[q].at # "idle" /\ MayRun(q)'
               ELSE /\ tasks'[q].at \in {"idle", "done"} /\ outbox'[q] = NoEvent
                    /\ phase' = "running" => (tasks'[q].at = "idle" <=> Undone(q)')
    <3>1. CASE q = s
      BY <1>0, <1>2, <1>3, <2>1, <2>3, <3>1, SMTT(60), Zenon DEF BatchInv
    <3>2. CASE q # s
      BY <1>0, <1>2, <1>6, <2>1, <2>2, <3>2, Zenon DEF BatchInv
    <3> QED
      BY <3>1, <3>2, ZenonT(60), SMTT(60)
  <2> QED
    BY <2>4, <2>5 DEF BatchInv
<1>11. ResultInv'
  BY <1>0, <1>2, Zenon DEF ResultInv, Undone, Finished
<1>12. OutboxInv'
  <2> SUFFICES ASSUME NEW p \in StepIDs \cup {Main}, outbox'[p] # NoEvent
               PROVE  outbox'[p].step = p /\ outbox'[p].kind \notin {"canceled", "queued"}
    BY Zenon DEF OutboxInv
  <2>1. CASE p = s
    BY <1>6, <2>1 DEF StepKinds
  <2>2. CASE p # s
    BY <1>0, <1>6, <2>2, Zenon DEF OutboxInv
  <2> QED
    BY <2>1, <2>2
<1>13. TaskInv'
  <2> SUFFICES ASSUME NEW q \in StepIDs
               PROVE  TaskAt(def', q, tasks'[q], EventsOf(events', q)) /\ StatusAt(q, tasks'[q], events')
    BY Zenon DEF TaskInv
  <2>1. CASE q = s
    BY <1>1, <1>2, <2>1, SMTT(60), Zenon DEF Fits
  <2>2. CASE q # s
    <3>1. TaskAt(def, q, tasks[q], EventsOf(events, q)) /\ StatusAt(q, tasks[q], events)
      BY <1>0, ZenonT(60), SMTT(60) DEF TaskInv
    <3>2. TaskAt(def', q, tasks'[q], EventsOf(events', q))
      BY <1>2, <1>6, <2>2, <3>1, SMTT(60), Zenon
    <3>3. StatusAt(q, tasks'[q], events')
      BY <1>2, <1>6, <2>2, <3>1, Zenon DEF StatusAt
    <3> QED
      BY <3>2, <3>3
  <2> QED
    BY <2>1, <2>2
<1> QED
  BY <1>6, <1>7, <1>8, <1>9, <1>10, <1>11, <1>12, <1>13, ZenonT(60), SMTT(60) DEF RunInv

(* ThreadRecorder.Record writes the event. *)
LEMMA RecordKeeps ==
    ASSUME RunInv, NEW p \in StepIDs \cup {Main}, Record(p)
    PROVE  RunInv'
<1>0. TypeOK /\ PhaseInv /\ EndInv /\ BatchInv /\ ResultInv /\ OutboxInv /\ TaskInv /\ MirrorInv
  BY DEF RunInv
<1> DEFINE e == outbox[p]
<1>1. /\ def' = def /\ ordered' = ordered /\ limit' = limit /\ canceled' = canceled /\ phase' = phase
      /\ outcome' = outcome /\ batch' = batch /\ results' = results /\ tasks' = tasks /\ events' = events
      /\ e # NoEvent /\ log' = Append(log, e) /\ outbox' = [outbox EXCEPT ![p] = NoEvent]
  BY Zenon DEF Record
<1>2. /\ e \in Events /\ e.step = p /\ e.kind \notin {"canceled", "queued"}
      /\ outbox \in [StepIDs \cup {Main} -> Events \cup {NoEvent}] /\ log \in Seq(Events)
  BY <1>0, <1>1, SMTT(60), Zenon DEF TypeOK, OutboxInv
<1>3. /\ outbox' \in [StepIDs \cup {Main} -> Events \cup {NoEvent}] /\ outbox'[p] = NoEvent
      /\ \A q \in StepIDs \cup {Main} : q # p => outbox'[q] = outbox[q]
      /\ log' \in Seq(Events)
  BY <1>1, <1>2
<1>4. phase # "init"
  BY <1>0, <1>1, Zenon DEF PhaseInv
<1>5. TypeOK'
  BY <1>0, <1>1, <1>3, ZenonT(60), SMTT(60) DEF TypeOK
<1>6. PhaseInv'
  <2>1. Main \in StepIDs \cup {Main}
    BY Zenon
  <2>2. outbox[Main] = NoEvent => outbox'[Main] = NoEvent
    BY <1>3, <2>1, Zenon
  <2> QED
    BY <1>0, <1>1, <1>4, <2>2, SMTT(60), Zenon DEF PhaseInv
<1>7. EndInv'
  BY <1>0, <1>1, Zenon DEF EndInv
<1>8. BatchInv'
  <2>1. \A q : (MayRun(q)' <=> MayRun(q)) /\ (Undone(q)' <=> Undone(q))
    BY <1>1, Zenon DEF MayRun, Undone
  <2>2. AtMost' = AtMost /\ Steps(batch') = Steps(batch)
    BY <1>1, Zenon DEF AtMost
  <2>3. Len(batch') <= AtMost'
    <3>1. Len(batch) <= AtMost
      BY <1>0, Zenon DEF BatchInv
    <3> QED
      BY <1>1, <2>2, <3>1, Zenon
  <2>4. \A q \in StepIDs : outbox[q] = NoEvent => outbox'[q] = NoEvent
    BY <1>3, Zenon
  <2>5. ASSUME NEW q \in StepIDs
        PROVE  IF q \in Steps(batch')
               THEN tasks'[q].at # "idle" /\ MayRun(q)'
               ELSE /\ tasks'[q].at \in {"idle", "done"} /\ outbox'[q] = NoEvent
                    /\ phase' = "running" => (tasks'[q].at = "idle" <=> Undone(q)')
    <3>1. IF q \in Steps(batch)
          THEN tasks[q].at # "idle" /\ MayRun(q)
          ELSE /\ tasks[q].at \in {"idle", "done"} /\ outbox[q] = NoEvent
               /\ phase = "running" => (tasks[q].at = "idle" <=> Undone(q))
      BY <1>0, Zenon DEF BatchInv
    <3>2. tasks' = tasks /\ phase' = phase
      BY <1>1
    <3> QED
      BY <2>1, <2>2, <2>4, <3>1, <3>2, Zenon
  <2> QED
    BY <2>3, <2>5, Zenon DEF BatchInv
<1>9. ResultInv'
  BY <1>0, <1>1, Zenon DEF ResultInv, Undone, Finished
<1>10. OutboxInv'
  <2> SUFFICES ASSUME NEW q \in StepIDs \cup {Main}, outbox'[q] # NoEvent
               PROVE  outbox'[q].step = q /\ outbox'[q].kind \notin {"canceled", "queued"}
    BY DEF OutboxInv
  <2>1. q # p /\ outbox'[q] = outbox[q]
    BY <1>3
  <2> QED
    BY <1>0, <2>1, SMTT(60), Zenon DEF OutboxInv
<1>11. TaskInv'
  BY <1>0, <1>1, Zenon DEF TaskInv
<1>12. MirrorInv'
  <2> SUFFICES ASSUME ~canceled
               PROVE  MirrorInv'
    BY <1>1, Zenon DEF MirrorInv
  <2> HIDE DEF e
  <2>1. /\ \A s : StepStatus(log', s) = IF p = s THEN e.kind ELSE StepStatus(log, s)
        /\ \A s, n : AttemptStatus(log', s, n) = IF p = s /\ e.attempt = n THEN e.kind ELSE AttemptStatus(log, s, n)
    BY <1>1, <1>2, StatusAppend
  <2>2. ASSUME NEW s \in StepIDs
        PROVE  StepStatus(events', s) = Pending(s, StepStatus(log, s))'
    <3>1. StepStatus(events, s) = Pending(s, StepStatus(log, s))
      BY <1>0, Zenon DEF MirrorInv
    <3>2. CASE s = p
      BY <1>1, <1>3, <2>1, <3>1, <3>2, Zenon DEF Pending, e
    <3>3. CASE s # p
      BY <1>1, <1>3, <2>1, <3>1, <3>3, Zenon DEF Pending
    <3> QED
      BY <3>2, <3>3, Zenon
  <2>3. ASSUME NEW s \in StepIDs, NEW n \in 0..MaxAttempts
        PROVE  AttemptStatus(events', s, n) =
                   IF outbox'[s] # NoEvent /\ outbox'[s].attempt = n THEN outbox'[s].kind
                   ELSE AttemptStatus(log', s, n)
    <3>1. AttemptStatus(events, s, n) = IF outbox[s] # NoEvent /\ outbox[s].attempt = n THEN outbox[s].kind
                                        ELSE AttemptStatus(log, s, n)
      BY <1>0, Zenon DEF MirrorInv
    <3>2. CASE s = p
      BY <1>1, <1>3, <2>1, <3>1, <3>2, ZenonT(60), SMTT(60) DEF e
    <3>3. CASE s # p
      BY <1>1, <1>3, <2>1, <3>1, <3>3, SMTT(60), Zenon
    <3> QED
      BY <3>2, <3>3, Zenon
  <2>4. ASSUME \A i \in DOMAIN log' : log'[i].kind # "canceled"
        PROVE  RunStatus(events') = Pending(Main, IF RunStatus(log) = "queued" THEN "none" ELSE RunStatus(log))'
    <3>1. RunStatus(log') = StepStatus(log', Main) /\ RunStatus(log) = StepStatus(log, Main)
      BY RunStatusIs, Zenon
    <3>2. \A i \in DOMAIN log : log[i].kind # "canceled"
      <4>1. \A i \in DOMAIN log : i \in DOMAIN log' /\ log'[i] = log[i]
        BY <1>1, <1>2, SMTT(60), Zenon
      <4> QED
        BY <2>4, <4>1, ZenonT(60), SMTT(60)
    <3>3. RunStatus(events) = Pending(Main, IF RunStatus(log) = "queued" THEN "none" ELSE RunStatus(log))
      BY <1>0, <3>2, Zenon DEF MirrorInv
    <3>4. CASE p = Main
      BY <1>1, <1>2, <1>3, <2>1, <3>1, <3>3, <3>4, ZenonT(60), SMTT(60) DEF Pending, e
    <3>5. CASE p # Main
      BY <1>1, <1>3, <2>1, <3>1, <3>3, <3>5, SMTT(60), Zenon DEF Pending
    <3> QED
      BY <3>4, <3>5, SMTT(60), Zenon
  <2> QED
    BY <2>2, <2>3, <2>4, Zenon DEF MirrorInv
<1> QED
  BY <1>5, <1>6, <1>7, <1>8, <1>9, <1>10, <1>11, <1>12, SMTT(60), Zenon DEF RunInv

-----------------------------------------------------------------------------
(* Executor.Execute *)

(* Execute: its tests, ... *)
LEMMA ExecuteKeeps ==
    ASSUME RunInv, Execute
    PROVE  RunInv'
<1>0. TypeOK /\ PhaseInv /\ EndInv /\ BatchInv /\ ResultInv /\ OutboxInv /\ TaskInv /\ MirrorInv
  BY DEF RunInv
<1>1. /\ phase = "init" /\ def' = def /\ limit' = limit /\ canceled' = canceled
      /\ events' = events /\ outbox' = outbox /\ log' = log
      /\ batch' = batch /\ tasks' = tasks /\ results' = results /\ Silent
      /\ \/ /\ phase' = "ending" /\ outcome' = (IF canceled THEN "canceled" ELSE "failed") /\ ordered' = ordered
         \/ /\ phase' = "starting" /\ outcome' = outcome /\ ordered' = Ordered(def) /\ Valid(def)
  BY DEF Execute, MainMoves, Silent, EndWithError, End
<1>2. ordered' \in Seq(StepIDs)
  <2>1. def \in Definitions /\ ordered \in Seq(StepIDs)
    BY <1>0 DEF TypeOK
  <2>2. CASE Valid(def) /\ ordered' = Ordered(def)
    <3>1. Ordered(def) \in Seq(IDs(def))
      BY <2>1, <2>2, OrderedIs
    <3>2. \A s \in IDs(def) : s \in StepIDs
      BY <2>1, DeclIs, Zenon
    <3> QED
      BY <2>2, <3>1, <3>2, SMTT(60), Zenon
  <2> QED
    BY <1>1, <2>1, <2>2, SMTT(60), Zenon
<1>3. TypeOK'
  BY <1>0, <1>1, <1>2, Zenon DEF TypeOK, TerminalKinds
<1>4. PhaseInv'
  BY <1>0, <1>1 DEF PhaseInv
<1>5. EndInv'
  BY <1>0, <1>1, ZenonT(60), SMTT(60) DEF EndInv
<1>6. BatchInv'
  <2>1. \A q : MayRun(q)' <=> MayRun(q)
    BY <1>1, ZenonT(60), SMTT(60) DEF MayRun, Undone
  <2>2. Len(batch') <= AtMost'
    BY <1>0, <1>1, SMTT(60), Zenon DEF BatchInv, AtMost
  <2>3. phase' # "running"
    BY <1>1, Zenon
  <2> QED
    BY <1>0, <1>1, <2>1, <2>2, <2>3, SMTT(60), Zenon DEF BatchInv
<1>7. ResultInv'
  <2>1. outcome = "none" /\ outcome' \notin {"completed"}
    BY <1>0, <1>1, SMTT(60), Zenon DEF PhaseInv
  <2>2. \A s \in IDs(def) : ~Undone(s) /\ results[s].err => Decl(def, s).continue
    BY <1>0, <2>1 DEF ResultInv
  <2> QED
    BY <1>1, <2>1, <2>2, Zenon DEF ResultInv, Undone
<1>8. OutboxInv' /\ TaskInv'
  BY <1>0, <1>1, Zenon DEF OutboxInv, TaskInv
<1>9. MirrorInv'
  BY <1>0, <1>1, SilentMirror, SMTT(60), Zenon
<1> QED
  BY <1>3, <1>4, <1>5, <1>6, <1>7, <1>8, <1>9, SMTT(60), Zenon DEF RunInv

(* ... the started event, ... *)
LEMMA StartedKeeps ==
    ASSUME RunInv, EmitStarted
    PROVE  RunInv'
<1>0. TypeOK /\ PhaseInv /\ EndInv /\ BatchInv /\ ResultInv /\ OutboxInv /\ TaskInv /\ MirrorInv
  BY DEF RunInv
<1> DEFINE e == RunEvent("started")
<1>1. /\ phase = "starting" /\ phase' = "running" /\ def' = def /\ limit' = limit /\ canceled' = canceled
      /\ ordered' = ordered /\ outcome' = outcome
      /\ batch' = batch /\ tasks' = tasks /\ results' = results /\ Emit(Main, e)
  BY Zenon DEF EmitStarted, MainMoves
<1>2. e \in Events /\ e.step = Main /\ e.kind = "started"
  BY WorkflowAssumption DEF RunEvent, Events, RunKinds
<1> HIDE DEF e
<1>3. /\ events' = Append(events, e) /\ events' \in Seq(Events) /\ log' = log
      /\ outbox' \in [StepIDs \cup {Main} -> Events \cup {NoEvent}]
      /\ outbox'[Main] = IF canceled THEN NoEvent ELSE e
      /\ \A q \in StepIDs \cup {Main} : q # Main => outbox'[q] = outbox[q]
      /\ \A q : q # Main => /\ EventsOf(events', q) = EventsOf(events, q)
                            /\ StepStatus(events', q) = StepStatus(events, q)
                            /\ \A n : AttemptStatus(events', q, n) = AttemptStatus(events, q, n)
  <2>1. Main \in StepIDs \cup {Main}
    OBVIOUS
  <2> QED
    BY <1>0, <1>1, <1>2, <2>1, EmitIs, Zenon
<1>4. \A s \in StepIDs : s # Main
  BY WorkflowAssumption, Zenon
<1>5. TypeOK'
  BY <1>0, <1>1, <1>3, Zenon DEF TypeOK
<1>6. PhaseInv'
  BY <1>0, <1>1 DEF PhaseInv
<1>7. EndInv'
  <2>1. \A i \in DOMAIN events : events[i].kind \notin TerminalKinds
    BY <1>0, <1>1 DEF EndInv
  <2>2. events \in Seq(Events) /\ e.kind \notin TerminalKinds
    BY <1>0, <1>2, ZenonT(60), SMTT(60) DEF TypeOK, TerminalKinds
  <2>3. \A i \in DOMAIN events' : events'[i].kind \notin TerminalKinds
    BY <1>2, <1>3, <2>1, <2>2, SMTT(60), Zenon
  <2> QED
    BY <2>3 DEF EndInv
<1>8. BatchInv'
  <2>1. batch' = << >> /\ \A s \in StepIDs : s \notin Steps(batch) /\ s \notin Steps(batch')
    BY <1>0, <1>1 DEF PhaseInv, Steps
  <2>2. Len(batch') <= AtMost'
    BY <1>0, <1>1, Zenon DEF BatchInv, AtMost
  <2>3. \A s \in StepIDs : tasks[s].at = "idle" /\ Undone(s)'
    BY <1>0, <1>1 DEF PhaseInv, Idle, Undone
  <2>4. \A s \in StepIDs : outbox'[s] = NoEvent
    BY <1>0, <1>3, <1>4, <2>1, Zenon DEF BatchInv
  <2> QED
    BY <1>1, <2>1, <2>2, <2>3, <2>4, ZenonT(60), SMTT(60) DEF BatchInv
<1>9. ResultInv'
  BY <1>0, <1>1, Zenon DEF ResultInv, Undone, Finished
<1>10. OutboxInv'
  <2> SUFFICES ASSUME NEW q \in StepIDs \cup {Main}, outbox'[q] # NoEvent
               PROVE  outbox'[q].step = q /\ outbox'[q].kind \notin {"canceled", "queued"}
    BY Zenon DEF OutboxInv
  <2>1. CASE q = Main
    BY <1>2, <1>3, <2>1, ZenonT(60), SMTT(60)
  <2>2. CASE q # Main
    BY <1>0, <1>3, <2>2, SMTT(60), Zenon DEF OutboxInv
  <2> QED
    BY <2>1, <2>2
<1>11. TaskInv'
  <2> SUFFICES ASSUME NEW q \in StepIDs
               PROVE  TaskAt(def', q, tasks'[q], EventsOf(events', q)) /\ StatusAt(q, tasks'[q], events')
    BY DEF TaskInv
  <2>1. TaskAt(def, q, tasks[q], EventsOf(events, q)) /\ StatusAt(q, tasks[q], events)
    BY <1>0 DEF TaskInv
  <2>2. TaskAt(def', q, tasks'[q], EventsOf(events', q))
    BY <1>1, <1>3, <1>4, <2>1, Zenon
  <2>3. StatusAt(q, tasks'[q], events')
    BY <1>1, <1>3, <1>4, <2>1, ZenonT(60), SMTT(60) DEF StatusAt
  <2> QED
    BY <2>2, <2>3, SMTT(60), Zenon
<1>12. MirrorInv'
  BY <1>0, <1>1, <1>2, EmitMirror, SMTT(60), Zenon
<1> QED
  BY <1>5, <1>6, <1>7, <1>8, <1>9, <1>10, <1>11, <1>12, SMTT(60), Zenon DEF RunInv

(* ... the next batch or the end, ... *)
LEMMA NextStepsKeeps ==
    ASSUME RunInv, NextSteps
    PROVE  RunInv'
<1>0. TypeOK /\ PhaseInv /\ EndInv /\ BatchInv /\ ResultInv /\ OutboxInv /\ TaskInv /\ MirrorInv
  BY DEF RunInv
<1>1. /\ phase = "running" /\ batch = << >> /\ def' = def /\ limit' = limit /\ canceled' = canceled
      /\ events' = events /\ outbox' = outbox /\ log' = log
      /\ ordered' = ordered /\ results' = results /\ Silent
  BY DEF NextSteps, MainMoves, Silent
<1>2. \/ /\ phase' = "ending" /\ outcome' = (IF Finished THEN "completed" ELSE IF canceled THEN "canceled" ELSE "failed")
         /\ batch' = batch /\ tasks' = tasks
      \/ /\ ~Finished /\ (Sequential \/ ReadySteps # << >>)
         /\ batch' = NextBatch /\ phase' = phase /\ outcome' = outcome
         /\ tasks' = [s \in StepIDs |-> IF s \in Steps(NextBatch)
                                        THEN [tasks[s] EXCEPT !.at = "begin"] ELSE tasks[s]]
  <2>1. CASE Finished
    BY <2>1 DEF NextSteps, End
  <2>2. CASE ~Finished /\ ~Sequential /\ (canceled \/ ReadySteps = << >>)
    BY <2>2 DEF NextSteps, End, EndWithError
  <2>3. CASE ~Finished /\ ~ (~Sequential /\ (canceled \/ ReadySteps = << >>))
    <3>1. /\ batch' = NextBatch /\ phase' = phase /\ outcome' = outcome
          /\ tasks' = [s \in StepIDs |-> IF s \in Steps(NextBatch)
                                         THEN [tasks[s] EXCEPT !.at = "begin"] ELSE tasks[s]]
      BY <2>3 DEF NextSteps
    <3> QED
      BY <2>3, <3>1
  <2> QED
    BY <2>1, <2>2, <2>3
<1>3. MirrorInv'
  BY <1>0, <1>1, SilentMirror
<1>4. OutboxInv'
  BY <1>0, <1>1, Zenon DEF OutboxInv
<1>5. EndInv'
  <2>1. \A i \in DOMAIN events : events[i].kind \notin TerminalKinds
    BY <1>0, <1>1 DEF EndInv
  <2> QED
    BY <1>1, <2>1, SMTT(60), Zenon DEF EndInv
<1>6. \A s \in StepIDs : s \notin Steps(batch)
  BY <1>1, SMTT(60), Zenon DEF Steps
<1>7. outcome = "none"
  BY <1>0, <1>1, SMTT(60), Zenon DEF PhaseInv
<1>8. \A q : Undone(q)' <=> Undone(q)
  BY <1>1 DEF Undone
<1>9. CASE phase' = "ending"
  <2>1. /\ phase' = "ending" /\ batch' = batch /\ tasks' = tasks
        /\ outcome' = (IF Finished THEN "completed" ELSE IF canceled THEN "canceled" ELSE "failed")
    BY <1>1, <1>2, <1>9, Zenon
  <2>2. TypeOK'
    BY <1>0, <1>1, <2>1, Zenon DEF TypeOK, TerminalKinds
  <2>3. PhaseInv'
    BY <1>0, <1>1, <2>1, Zenon DEF PhaseInv
  <2>4. BatchInv'
    <3>1. Len(batch') <= AtMost'
      BY <1>0, <1>1, <2>1, SMTT(60), Zenon DEF BatchInv, AtMost
    <3> QED
      BY <1>0, <1>1, <1>6, <2>1, <3>1, ZenonT(60), SMTT(60) DEF BatchInv
  <2>5. ResultInv'
    <3>1. \A s \in IDs(def) : ~Undone(s) /\ results[s].err => Decl(def, s).continue
      BY <1>0, <1>7 DEF ResultInv
    <3>2. outcome' = "completed" => Finished
      BY <2>1
    <3>3. Finished' <=> Finished
      BY <1>1, <1>8 DEF Finished
    <3> QED
      BY <1>1, <1>8, <3>1, <3>2, <3>3, SMTT(60), Zenon DEF ResultInv
  <2>6. TaskInv'
    BY <1>0, <1>1, <2>1, ZenonT(60), SMTT(60) DEF TaskInv
  <2> QED
    BY <1>3, <1>4, <1>5, <2>2, <2>3, <2>4, <2>5, <2>6, SMTT(60), Zenon DEF RunInv
<1>10. CASE phase' # "ending"
  <2>1. /\ ~Finished /\ (Sequential \/ ReadySteps # << >>)
        /\ batch' = NextBatch /\ phase' = phase /\ outcome' = outcome
        /\ tasks' = [s \in StepIDs |-> IF s \in Steps(NextBatch)
                                       THEN [tasks[s] EXCEPT !.at = "begin"] ELSE tasks[s]]
    BY <1>2, <1>10, SMTT(60), Zenon
  <2>2. Valid(def) /\ ordered = Ordered(def)
    BY <1>0, <1>1 DEF PhaseInv
  <2>3. /\ NextBatch \in Seq(StepIDs) /\ Len(NextBatch) <= AtMost /\ NextBatch # << >>
        /\ \A i \in DOMAIN NextBatch : MayRun(NextBatch[i])
    BY <1>0, <2>1, <2>2, NextBatchIs, SMTT(60), Zenon
  <2>4. \A s \in Steps(NextBatch) : MayRun(s)
    BY <2>3, ZenonT(60), SMTT(60) DEF Steps
  <2> DEFINE B == Steps(NextBatch)
  <2>5. ASSUME NEW s \in StepIDs, s \in B
        PROVE  tasks[s] = Idle /\ EventsOf(events, s) = << >> /\ s \in IDs(def)
    <3>1. MayRun(s)
      BY <2>4, <2>5, ZenonT(60), SMTT(60)
    <3>2. tasks[s].at = "idle"
      BY <1>0, <1>1, <1>6, <3>1, SMTT(60), Zenon DEF BatchInv, MayRun
    <3>3. TaskAt(def, s, tasks[s], EventsOf(events, s))
      BY <1>0 DEF TaskInv
    <3> QED
      BY <3>1, <3>2, <3>3, SMTT(60), Zenon DEF TaskAt, MayRun
  <2>6. tasks \in [StepIDs -> Tasks]
    BY <1>0 DEF TypeOK
  <2> HIDE DEF B
  <2>7. /\ tasks' = [s \in StepIDs |-> IF s \in B THEN [tasks[s] EXCEPT !.at = "begin"] ELSE tasks[s]]
        /\ Steps(batch') = B
    BY <2>1, Zenon DEF B
  <2>8. ASSUME NEW s \in StepIDs
        PROVE  /\ tasks'[s] \in Tasks
               /\ s \notin B => tasks'[s] = tasks[s]
               /\ s \in B => /\ tasks'[s].at = "begin" /\ tasks'[s].attempt = 0
                             /\ ~tasks'[s].err
    <3>1. CASE s \in B
      <4>1. tasks[s] = Idle
        BY <2>5, <3>1
      <4>2. tasks'[s] = [Idle EXCEPT !.at = "begin"]
        BY <2>7, <3>1, <4>1, SMTT(60), Zenon
      <4>3. tasks[s] \in Tasks
        BY <2>6
      <4>4. Idle \in Tasks
        BY <4>1, <4>3
      <4> QED
        BY <3>1, <4>2, <4>4, Zenon DEF Idle, Tasks, Places
    <3>2. CASE s \notin B
      BY <2>6, <2>7, <3>2, SMTT(60), Zenon
    <3> QED
      BY <3>1, <3>2
  <2>9. TypeOK'
    <3>1. tasks' \in [StepIDs -> Tasks]
      BY <2>7, <2>8
    <3> QED
      BY <1>0, <1>1, <2>1, <2>3, <3>1, SMTT(60), Zenon DEF TypeOK
  <2>10. PhaseInv'
    BY <1>0, <1>1, <2>1, Zenon DEF PhaseInv
  <2>11. BatchInv'
    <3>1. Len(batch') <= AtMost'
      BY <1>1, <2>1, <2>3 DEF AtMost
    <3>2. \A s : MayRun(s)' <=> MayRun(s)
      BY <1>1, Zenon DEF MayRun, Undone
    <3>3. ASSUME NEW s \in StepIDs
          PROVE  IF s \in Steps(batch') THEN tasks'[s].at # "idle" /\ MayRun(s)'
                 ELSE /\ tasks'[s].at \in {"idle", "done"} /\ outbox'[s] = NoEvent
                      /\ phase' = "running" => (tasks'[s].at = "idle" <=> Undone(s)')
      <4>1. CASE s \in B
        BY <2>4, <2>7, <2>8, <3>2, <4>1, Zenon DEF B
      <4>2. CASE s \notin B
        <5>1. tasks'[s] = tasks[s]
          BY <2>8, <4>2, Zenon, SMTT(60)
        <5>2. /\ tasks[s].at \in {"idle", "done"} /\ outbox[s] = NoEvent
              /\ tasks[s].at = "idle" <=> Undone(s)
          BY <1>0, <1>1, <1>6, SMTT(60), Zenon DEF BatchInv
        <5> QED
          BY <1>1, <1>8, <2>7, <4>2, <5>1, <5>2, Zenon, SMTT(60)
      <4> QED
        BY <4>1, <4>2
    <3> QED
      BY <3>1, <3>3 DEF BatchInv
  <2>12. ResultInv'
    BY <1>0, <1>1, <2>1, Zenon DEF ResultInv, Undone, Finished
  <2>13. TaskInv'
    <3> SUFFICES ASSUME NEW s \in StepIDs
                 PROVE  TaskAt(def, s, tasks'[s], EventsOf(events, s)) /\ StatusAt(s, tasks'[s], events)
      BY <1>1 DEF TaskInv
    <3>1. CASE s \in B
      <4>1. EventsOf(events, s) = << >> /\ s \in IDs(def)
        BY <2>5, <3>1, Zenon
      <4>2. tasks'[s].at = "begin" /\ tasks'[s].attempt = 0 /\ ~tasks'[s].err
        BY <2>8, <3>1, Zenon
      <4>3. TaskAt(def, s, tasks'[s], EventsOf(events, s))
        BY <4>1, <4>2, Zenon DEF TaskAt, Trying
      <4>4. \A n \in 1..(tasks'[s].attempt - 1) : FALSE
        BY <4>2
      <4>5. StatusAt(s, tasks'[s], events)
        BY <4>2, <4>4, ZenonT(60), SMTT(60) DEF StatusAt
      <4> QED
        BY <4>3, <4>5
    <3>2. CASE s \notin B
      BY <1>0, <2>8, <3>2, SMTT(60), Zenon DEF TaskInv
    <3> QED
      BY <3>1, <3>2, SMTT(60), Zenon
  <2> QED
    BY <1>3, <1>4, <1>5, <2>9, <2>10, <2>11, <2>12, <2>13 DEF RunInv
<1> QED
  BY <1>9, <1>10

(* The outcomes looked at are those of the batch, and all of them unless one *)
(* of them is fatal.                                                         *)
LEMMA SeenIs ==
    ASSUME TypeOK
    PROVE  /\ Seen \subseteq Steps(batch)
           /\ (\A s \in Seen : ~Fatal(s)) => Seen = Steps(batch) /\ \A s \in Steps(batch) : ~Fatal(s)
<1>1. Len(batch) \in Nat /\ DOMAIN batch = 1..Len(batch)
  BY SMTT(60), Zenon DEF TypeOK
<1> DEFINE J == {j \in DOMAIN batch : \A k \in 1..(j - 1) : ~Fatal(batch[k])}
<1>2. Seen = {batch[i] : i \in J} /\ J \subseteq DOMAIN batch
  BY DEF Seen
<1>3. Seen \subseteq Steps(batch)
  <2> HIDE DEF J
  <2> QED
    BY <1>2 DEF Steps
<1>4. ASSUME \A s \in Seen : ~Fatal(s)
      PROVE  \A i \in DOMAIN batch : i \in J /\ ~Fatal(batch[i])
  <2> DEFINE T == {i \in DOMAIN batch : Fatal(batch[i])}
  <2>1. T = {}
    <3> SUFFICES ASSUME T # {}
                 PROVE  FALSE
      OBVIOUS
    <3>1. T \subseteq Nat
      BY <1>1
    <3>2. PICK i \in T : \A j \in T : i <= j
      <4> HIDE DEF T
      <4> QED
        BY <3>1, LeastNumber, Zenon
    <3>3. i \in 1..Len(batch) /\ Fatal(batch[i])
      BY <1>1, <3>2, SMTT(60), Zenon
    <3>4. ASSUME NEW k \in 1..(i - 1)
          PROVE  ~Fatal(batch[k])
      <4>1. k \in DOMAIN batch /\ ~ (i <= k)
        BY <1>1, <3>3, SMTT(60), Zenon
      <4> QED
        BY <3>2, <4>1, SMTT(60), Zenon
    <3>5. i \in J
      BY <1>1, <3>3, <3>4, SMTT(60), Zenon
    <3>6. batch[i] \in Seen
      <4> HIDE DEF J
      <4> QED
        BY <1>2, <3>5, SMTT(60), Zenon
    <3> QED
      BY <1>4, <3>3, <3>6, SMTT(60), Zenon
  <2>2. \A i \in DOMAIN batch : ~Fatal(batch[i])
    BY <2>1
  <2>3. \A i \in DOMAIN batch : \A k \in 1..(i - 1) : k \in DOMAIN batch
    BY <1>1
  <2> QED
    BY <2>2, <2>3, SMTT(60), Zenon
<1>5. ASSUME \A s \in Seen : ~Fatal(s)
      PROVE  Seen = Steps(batch) /\ \A s \in Steps(batch) : ~Fatal(s)
  <2>1. \A i \in DOMAIN batch : i \in J /\ ~Fatal(batch[i])
    BY <1>4, <1>5, Zenon
  <2> HIDE DEF J
  <2>2. Steps(batch) \subseteq Seen
    BY <1>2, <2>1, SMTT(60), Zenon DEF Steps
  <2>3. \A s \in Steps(batch) : ~Fatal(s)
    BY <2>1 DEF Steps
  <2> QED
    BY <1>3, <2>2, <2>3, SMTT(60), Zenon
<1> QED
  BY <1>3, <1>5, SMTT(60), Zenon

(* ... the results of a batch: the run goes on only if none is fatal, ... *)
LEMMA CollectKeeps ==
    ASSUME RunInv, Collect
    PROVE  RunInv'
<1>0. TypeOK /\ PhaseInv /\ EndInv /\ BatchInv /\ ResultInv /\ OutboxInv /\ TaskInv /\ MirrorInv
  BY DEF RunInv
<1>1. /\ phase = "running" /\ def' = def /\ limit' = limit /\ canceled' = canceled
      /\ events' = events /\ outbox' = outbox /\ log' = log
      /\ ordered' = ordered /\ tasks' = tasks /\ Silent
      /\ batch' = << >>
      /\ \A s \in Steps(batch) : tasks[s].at = "done" /\ outbox[s] = NoEvent
      /\ results' = [s \in StepIDs |-> IF s \in Seen
                                       THEN [data |-> tasks[s].data, err |-> tasks[s].err] ELSE results[s]]
  BY Zenon DEF Collect, MainMoves, Silent
<1>2. \/ /\ \E s \in Seen : Fatal(s)
         /\ phase' = "ending" /\ outcome' = IF canceled THEN "canceled" ELSE "failed"
      \/ /\ \A s \in Seen : ~Fatal(s)
         /\ phase' = phase /\ outcome' = outcome
  BY ZenonT(60), SMTT(60) DEF Collect, EndWithError, End
<1>3. MirrorInv'
  BY <1>0, <1>1, SilentMirror, SMTT(60), Zenon
<1>4. OutboxInv' /\ TaskInv'
  BY <1>0, <1>1, Zenon DEF OutboxInv, TaskInv
<1>5. EndInv'
  <2>1. \A i \in DOMAIN events : events[i].kind \notin TerminalKinds
    BY <1>0, <1>1, Zenon DEF EndInv
  <2> QED
    BY <1>1, <2>1, Zenon DEF EndInv
<1>6. /\ tasks \in [StepIDs -> Tasks] /\ results \in [StepIDs -> Results \cup {NoResult}]
      /\ NoResult \notin Results
  BY <1>0, WorkflowAssumption, Zenon DEF TypeOK
<1>7. ASSUME NEW s \in StepIDs
      PROVE  /\ results'[s] \in Results \cup {NoResult}
             /\ s \in Seen => results'[s] # NoResult /\ results'[s].err = tasks[s].err
             /\ s \notin Seen => results'[s] = results[s]
  <2>1. [data |-> tasks[s].data, err |-> tasks[s].err] \in Results
    BY <1>6, Zenon DEF Tasks, Results
  <2>2. CASE s \in Seen
    <3>1. results'[s] = [data |-> tasks[s].data, err |-> tasks[s].err]
      BY <1>1, <2>2, Zenon
    <3> QED
      BY <1>6, <2>1, <2>2, <3>1, SMTT(60), Zenon
  <2>3. CASE s \notin Seen
    BY <1>1, <1>6, <2>3, Zenon
  <2> QED
    BY <2>2, <2>3, Zenon
<1>8. results' \in [StepIDs -> Results \cup {NoResult}]
  BY <1>1, <1>7, Zenon
<1>9. outcome = "none"
  BY <1>0, <1>1, ZenonT(60), SMTT(60) DEF PhaseInv
<1>10. TypeOK'
  BY <1>0, <1>1, <1>2, <1>8, SMTT(60), Zenon DEF TypeOK, TerminalKinds
<1>11. PhaseInv'
  BY <1>0, <1>1, <1>2, <1>9, SMTT(60), Zenon DEF PhaseInv
<1>12. Seen \subseteq Steps(batch)
  BY <1>0, SeenIs, Zenon
<1>13. BatchInv'
  <2>1. Len(batch') <= AtMost'
    <3>1. limit \in Int
      BY <1>0, WorkflowAssumption, Zenon DEF TypeOK
    <3> QED
      BY <1>1, <3>1, SMTT(60), Zenon DEF AtMost
  <2>2. \A s \in StepIDs : s \notin Steps(batch')
    BY <1>1 DEF Steps
  <2>3. ASSUME NEW s \in StepIDs
        PROVE  /\ tasks'[s].at \in {"idle", "done"} /\ outbox'[s] = NoEvent
               /\ phase' = "running" => (tasks'[s].at = "idle" <=> Undone(s)')
    <3>1. CASE s \in Steps(batch)
      <4>1. tasks'[s].at = "done" /\ outbox'[s] = NoEvent
        BY <1>1, <3>1
      <4>2. phase' = "running" => s \in Seen
        BY <1>0, <1>2, <3>1, SeenIs, Zenon
      <4>3. phase' = "running" => ~Undone(s)'
        BY <1>7, <4>2, ZenonT(60), SMTT(60) DEF Undone
      <4> QED
        BY <4>1, <4>3, Zenon
    <3>2. CASE s \notin Steps(batch)
      <4>1. s \notin Seen
        BY <1>12, <3>2
      <4>2. Undone(s)' <=> Undone(s)
        BY <1>7, <4>1, ZenonT(60), SMTT(60) DEF Undone
      <4>3. /\ tasks[s].at \in {"idle", "done"} /\ outbox[s] = NoEvent
            /\ tasks[s].at = "idle" <=> Undone(s)
        BY <1>0, <1>1, <3>2, SMTT(60), Zenon DEF BatchInv
      <4> QED
        BY <1>1, <4>2, <4>3, SMTT(60), Zenon
    <3> QED
      BY <3>1, <3>2, Zenon
  <2> QED
    BY <2>1, <2>2, <2>3, ZenonT(60), SMTT(60) DEF BatchInv
<1>14. ResultInv'
  <2>1. CASE outcome' \notin {"none", "completed"}
    BY <2>1 DEF ResultInv
  <2>2. CASE outcome' = "none"
    <3>1. \A s \in Seen : ~Fatal(s)
      BY <1>2, <2>2, Zenon
    <3> SUFFICES ASSUME NEW s \in IDs(def), ~Undone(s)', results'[s].err
                 PROVE  Decl(def, s).continue
      BY <1>1, <2>2, Zenon DEF ResultInv
    <3>2. s \in StepIDs
      <4>1. def \in Definitions
        BY <1>0, Zenon DEF TypeOK
      <4> QED
        BY <4>1, DeclIs, Zenon
    <3>3. CASE s \in Seen
      BY <1>7, <3>1, <3>2, <3>3, ZenonT(60), SMTT(60) DEF Fatal
    <3>4. CASE s \notin Seen
      BY <1>0, <1>7, <1>9, <3>2, <3>4, SMTT(60), Zenon DEF ResultInv, Undone
    <3> QED
      BY <3>3, <3>4
  <2> QED
    BY <1>2, <1>9, <2>1, <2>2, SMTT(60), Zenon
<1> QED
  BY <1>3, <1>4, <1>5, <1>10, <1>11, <1>13, <1>14, ZenonT(60), SMTT(60) DEF RunInv

(* ... the terminal event, ... *)
LEMMA TerminalKeeps ==
    ASSUME RunInv, EmitTerminal
    PROVE  RunInv'
<1>0. TypeOK /\ PhaseInv /\ EndInv /\ BatchInv /\ ResultInv /\ OutboxInv /\ TaskInv /\ MirrorInv
  BY DEF RunInv
<1> DEFINE e == RunEvent(outcome)
<1>1. /\ phase = "ending" /\ phase' = "ended" /\ def' = def /\ limit' = limit /\ canceled' = canceled
      /\ ordered' = ordered /\ outcome' = outcome
      /\ batch' = batch /\ tasks' = tasks /\ results' = results /\ Emit(Main, e)
  BY Zenon DEF EmitTerminal, MainMoves
<1>2. outcome \in TerminalKinds
  BY <1>0, <1>1, Zenon DEF TypeOK, PhaseInv
<1>3. e \in Events /\ e.step = Main /\ e.kind = outcome
  BY <1>2, WorkflowAssumption, SMTT(60), Zenon DEF RunEvent, Events, RunKinds, TerminalKinds
<1>4. e = RunEvent(outcome)
  OBVIOUS
<1> HIDE DEF e
<1>5. /\ events' = Append(events, e) /\ events' \in Seq(Events) /\ log' = log
      /\ outbox' \in [StepIDs \cup {Main} -> Events \cup {NoEvent}]
      /\ outbox'[Main] = IF canceled THEN NoEvent ELSE e
      /\ \A q \in StepIDs \cup {Main} : q # Main => outbox'[q] = outbox[q]
      /\ \A q : q # Main => /\ EventsOf(events', q) = EventsOf(events, q)
                            /\ StepStatus(events', q) = StepStatus(events, q)
                            /\ \A n : AttemptStatus(events', q, n) = AttemptStatus(events, q, n)
  <2>1. Main \in StepIDs \cup {Main}
    OBVIOUS
  <2> QED
    BY <1>0, <1>1, <1>3, <2>1, EmitIs, Zenon
<1>6. \A s \in StepIDs : s # Main
  BY WorkflowAssumption, SMTT(60), Zenon
<1>7. TypeOK'
  BY <1>0, <1>1, <1>5, SMTT(60), Zenon DEF TypeOK
<1>8. /\ events \in Seq(Events) /\ Len(events') = Len(events) + 1 /\ Len(events) \in Nat
      /\ events'[Len(events')] = e /\ events' # << >>
      /\ DOMAIN events' = 1..(Len(events) + 1) /\ \A i \in 1..Len(events) : events'[i] = events[i]
  <2>1. events \in Seq(Events)
    BY <1>0, Zenon DEF TypeOK
  <2>2. /\ Append(events, e) \in Seq(Events) /\ Len(Append(events, e)) = Len(events) + 1 /\ Len(events) \in Nat
        /\ DOMAIN events = 1..Len(events) /\ DOMAIN Append(events, e) = 1..(Len(events) + 1)
        /\ Append(events, e)[Len(events) + 1] = e
        /\ \A i \in 1..Len(events) : Append(events, e)[i] = events[i]
        /\ Append(events, e) # << >>
    BY <1>3, <2>1, AppendIs, ZenonT(60), SMTT(60)
  <2> QED
    BY <1>5, <2>1, <2>2, Zenon
<1>9. PhaseInv'
  <2>1. phase' \notin {"init", "starting", "running", "done"} /\ outcome' # "none"
    BY <1>1, <1>2 DEF TerminalKinds
  <2> QED
    BY <1>0, <1>1, <1>4, <1>8, <2>1, SMTT(60), Zenon DEF PhaseInv
<1>10. EndInv'
  <2>1. \A i \in 1..Len(events) : events[i].kind \notin TerminalKinds
    <3>1. DOMAIN events = 1..Len(events)
      BY <1>8
    <3> QED
      BY <1>0, <1>1, <3>1, SMTT(60), Zenon DEF EndInv
  <2> SUFFICES ASSUME NEW i \in DOMAIN events', events'[i].kind \in TerminalKinds
               PROVE  phase' \in {"ended", "done"} /\ i = Len(events')
    BY DEF EndInv
  <2>2. i \notin 1..Len(events)
    BY <1>8, <2>1
  <2> QED
    BY <1>1, <1>8, <2>2
<1>11. BatchInv'
  <2>1. \A q : MayRun(q)' <=> MayRun(q)
    BY <1>1, Zenon DEF MayRun, Undone
  <2>2. Len(batch') <= AtMost'
    BY <1>0, <1>1, Zenon DEF BatchInv, AtMost
  <2>3. phase' # "running" /\ \A q \in StepIDs : outbox'[q] = outbox[q]
    BY <1>1, <1>5, <1>6, SMTT(60), Zenon
  <2> QED
    BY <1>0, <1>1, <2>1, <2>2, <2>3, Zenon DEF BatchInv
<1>12. ResultInv'
  BY <1>0, <1>1, Zenon DEF ResultInv, Undone, Finished
<1>13. OutboxInv'
  <2> SUFFICES ASSUME NEW q \in StepIDs \cup {Main}, outbox'[q] # NoEvent
               PROVE  outbox'[q].step = q /\ outbox'[q].kind \notin {"canceled", "queued"}
    BY DEF OutboxInv
  <2>1. CASE q = Main
    <3>1. ~canceled /\ outbox'[q] = e
      BY <1>5, <2>1, Zenon
    <3>2. outcome # "canceled" /\ outcome # "queued"
      BY <1>0, <1>2, <3>1, ZenonT(60), SMTT(60) DEF PhaseInv, TerminalKinds
    <3> QED
      BY <1>3, <2>1, <3>1, <3>2, Zenon
  <2>2. CASE q # Main
    BY <1>0, <1>5, <2>2, SMTT(60), Zenon DEF OutboxInv
  <2> QED
    BY <2>1, <2>2
<1>14. TaskInv'
  <2> SUFFICES ASSUME NEW q \in StepIDs
               PROVE  TaskAt(def', q, tasks'[q], EventsOf(events', q)) /\ StatusAt(q, tasks'[q], events')
    BY DEF TaskInv
  <2>1. TaskAt(def, q, tasks[q], EventsOf(events, q)) /\ StatusAt(q, tasks[q], events)
    BY <1>0 DEF TaskInv
  <2>2. TaskAt(def', q, tasks'[q], EventsOf(events', q))
    BY <1>1, <1>5, <1>6, <2>1, Zenon
  <2>3. StatusAt(q, tasks'[q], events')
    BY <1>1, <1>5, <1>6, <2>1, Zenon DEF StatusAt
  <2> QED
    BY <2>2, <2>3
<1>15. MirrorInv'
  BY <1>0, <1>1, <1>3, EmitMirror, SMTT(60), Zenon
<1> QED
  BY <1>7, <1>9, <1>10, <1>11, <1>12, <1>13, <1>14, <1>15 DEF RunInv

(* ... and its return. *)
LEMMA ReturnKeeps ==
    ASSUME RunInv, Return
    PROVE  RunInv'
<1>0. TypeOK /\ PhaseInv /\ EndInv /\ BatchInv /\ ResultInv /\ OutboxInv /\ TaskInv /\ MirrorInv
  BY DEF RunInv
<1>1. /\ phase = "ended" /\ phase' = "done" /\ def' = def /\ limit' = limit /\ canceled' = canceled
      /\ ordered' = ordered /\ outcome' = outcome /\ batch' = batch /\ tasks' = tasks /\ results' = results
      /\ events' = events /\ outbox' = outbox /\ log' = log /\ Silent /\ outbox[Main] = NoEvent
  BY Zenon DEF Return, MainMoves, Silent
<1>2. TypeOK'
  BY <1>0, <1>1, ZenonT(60), SMTT(60) DEF TypeOK
<1>3. PhaseInv'
  BY <1>0, <1>1 DEF PhaseInv
<1>4. EndInv'
  BY <1>0, <1>1, ZenonT(60), SMTT(60) DEF EndInv
<1>5. BatchInv'
  <2>1. \A q : MayRun(q)' <=> MayRun(q)
    BY <1>1, Zenon DEF MayRun, Undone
  <2>2. Len(batch') <= AtMost'
    BY <1>0, <1>1, Zenon DEF BatchInv, AtMost
  <2>3. phase' # "running"
    BY <1>1
  <2> QED
    BY <1>0, <1>1, <2>1, <2>2, <2>3, SMTT(60), Zenon DEF BatchInv
<1>6. ResultInv' /\ OutboxInv' /\ TaskInv'
  <2>1. ResultInv'
    BY <1>0, <1>1, Zenon DEF ResultInv, Undone, Finished
  <2>2. OutboxInv' /\ TaskInv'
    BY <1>0, <1>1, Zenon DEF OutboxInv, TaskInv
  <2> QED
    BY <2>1, <2>2
<1>7. MirrorInv'
  BY <1>0, <1>1, SilentMirror, SMTT(60), Zenon
<1> QED
  BY <1>2, <1>3, <1>4, <1>5, <1>6, <1>7, SMTT(60), Zenon DEF RunInv

(* Every step of the executor. *)
LEMMA ExecutorKeeps ==
    ASSUME RunInv, ExecutorNext
    PROVE  RunInv'
BY ExecuteKeeps, StartedKeeps, NextStepsKeeps, CollectKeeps, TerminalKeeps, ReturnKeeps, StepKeeps,
   RecordKeeps, ZenonT(60), SMTT(60) DEF ExecutorNext

-----------------------------------------------------------------------------
(* The session around the executor *)

(* A step that leaves the executor and the record alone, the cancellation of *)
(* the context among them.                                                   *)
LEMMA ContextKeeps ==
    ASSUME RunInv, ExecutorUnchanged, log' = log, canceled => canceled', canceled' \in BOOLEAN
    PROVE  RunInv'
<1>0. TypeOK /\ PhaseInv /\ EndInv /\ BatchInv /\ ResultInv /\ OutboxInv /\ TaskInv /\ MirrorInv
  BY DEF RunInv
<1>1. /\ def' = def /\ ordered' = ordered /\ limit' = limit /\ phase' = phase
      /\ outcome' = outcome /\ batch' = batch /\ results' = results /\ tasks' = tasks /\ events' = events
      /\ outbox' = outbox /\ Silent
  BY Zenon DEF ExecutorUnchanged, Silent
<1>2. TypeOK'
  BY <1>0, <1>1, ZenonT(60), SMTT(60) DEF TypeOK
<1>3. PhaseInv' /\ EndInv'
  BY <1>0, <1>1, SMTT(60), Zenon DEF PhaseInv, EndInv
<1>4. BatchInv'
  BY <1>0, <1>1, Zenon DEF BatchInv, AtMost, MayRun, Undone
<1>5. ResultInv' /\ OutboxInv' /\ TaskInv'
  BY <1>0, <1>1, Zenon DEF ResultInv, OutboxInv, TaskInv, Undone, Finished
<1>6. MirrorInv'
  BY <1>0, <1>1, SilentMirror, SMTT(60), Zenon
<1> QED
  BY <1>2, <1>3, <1>4, <1>5, <1>6, SMTT(60), Zenon DEF RunInv

(* An event of the run that the session writes itself: canceled at any time, *)
(* queued before anything else.                                              *)
LEMMA SessionEventKeeps ==
    ASSUME RunInv, ExecutorUnchanged, canceled' = canceled, NEW kind, log' = Append(log, RunEvent(kind)),
           kind = "canceled" \/ (kind = "queued" /\ phase = "init" /\ log = << >>)
    PROVE  RunInv'
<1>0. TypeOK /\ PhaseInv /\ EndInv /\ BatchInv /\ ResultInv /\ OutboxInv /\ TaskInv /\ MirrorInv
  BY DEF RunInv
<1>1. /\ def' = def /\ ordered' = ordered /\ limit' = limit /\ phase' = phase
      /\ outcome' = outcome /\ batch' = batch /\ results' = results /\ tasks' = tasks /\ events' = events
      /\ outbox' = outbox
  BY Zenon DEF ExecutorUnchanged
<1> DEFINE e == RunEvent(kind)
<1>2. e \in Events /\ e.step = Main /\ e.kind = kind /\ log \in Seq(Events)
  BY <1>0, WorkflowAssumption, SMTT(60), Zenon DEF RunEvent, Events, RunKinds, TypeOK
<1>3. log' = Append(log, e)
  BY Zenon
<1> HIDE DEF e
<1>4. TypeOK'
  <2>1. log' \in Seq(Events)
    BY <1>2, <1>3, SMTT(60), Zenon
  <2> QED
    BY <1>0, <1>1, <2>1, SMTT(60), Zenon DEF TypeOK
<1>5. PhaseInv' /\ EndInv'
  BY <1>0, <1>1 DEF PhaseInv, EndInv
<1>6. BatchInv'
  BY <1>0, <1>1, Zenon DEF BatchInv, AtMost, MayRun, Undone
<1>7. ResultInv' /\ OutboxInv' /\ TaskInv'
  BY <1>0, <1>1, Zenon DEF ResultInv, OutboxInv, TaskInv, Undone, Finished
<1>8. MirrorInv'
  <2>1. /\ \A s \in StepIDs : /\ StepStatus(log', s) = StepStatus(log, s)
                              /\ \A n : AttemptStatus(log', s, n) = AttemptStatus(log, s, n)
        /\ RunStatus(log') = kind
    <3>1. /\ RunStatus(Append(log, e)) = IF e.step = Main THEN e.kind ELSE RunStatus(log)
          /\ \A s : StepStatus(Append(log, e), s) = IF e.step = s THEN e.kind ELSE StepStatus(log, s)
          /\ \A s, n : AttemptStatus(Append(log, e), s, n) =
                           IF e.step = s /\ e.attempt = n THEN e.kind ELSE AttemptStatus(log, s, n)
      BY <1>2, StatusAppend
    <3>2. \A s \in StepIDs : s # Main
      BY WorkflowAssumption, ZenonT(60), SMTT(60)
    <3> QED
      BY <1>2, <1>3, <3>1, <3>2, ZenonT(60), SMTT(60)
  <2> SUFFICES ASSUME ~canceled
               PROVE  MirrorInv'
    BY DEF MirrorInv
  <2>2. ASSUME NEW s \in StepIDs
        PROVE  /\ StepStatus(events', s) = Pending(s, StepStatus(log, s))'
               /\ \A n \in 0..MaxAttempts :
                      AttemptStatus(events', s, n) =
                          IF outbox'[s] # NoEvent /\ outbox'[s].attempt = n THEN outbox'[s].kind
                          ELSE AttemptStatus(log', s, n)
    BY <1>0, <1>1, <2>1, Zenon DEF MirrorInv, Pending
  <2>3. (\A i \in DOMAIN log' : log'[i].kind # "canceled") =>
           RunStatus(events') = Pending(Main, IF RunStatus(log) = "queued" THEN "none" ELSE RunStatus(log))'
    <3>1. CASE kind = "canceled"
      <4>1. Len(log) + 1 \in DOMAIN log' /\ log'[Len(log) + 1] = e
        BY <1>2, <1>3
      <4> QED
        BY <1>2, <3>1, <4>1, Zenon
    <3>2. CASE kind = "queued" /\ phase = "init" /\ log = << >>
      <4>1. events' = << >> /\ outbox'[Main] = NoEvent
        BY <1>0, <1>1, <3>2, Zenon DEF PhaseInv
      <4>2. RunStatus(events') = "none"
        BY <4>1 DEF RunStatus, LatestKind
      <4> QED
        BY <2>1, <3>2, <4>1, <4>2, Zenon DEF Pending
    <3> QED
      BY <3>1, <3>2, Zenon
  <2> QED
    BY <2>2, <2>3, Zenon DEF MirrorInv
<1> QED
  BY <1>4, <1>5, <1>6, <1>7, <1>8, SMTT(60), Zenon DEF RunInv

(* What the executor does to the record: nothing, or it writes the event a   *)
(* process had to write. It gives no process an event once the context is    *)
(* done.                                                                     *)
LEMMA ExecutorIs ==
    ASSUME TypeOK, ExecutorNext
    PROVE  /\ canceled' = canceled
           /\ \/ log' = log /\ (canceled => outbox' = outbox)
              \/ \E p \in StepIDs \cup {Main} : Record(p)
<1>1. CASE \E p \in StepIDs \cup {Main} : Record(p)
  BY <1>1, Zenon DEF Record
<1>2. CASE \E s \in StepIDs : StepNext(s)
  <2>1. PICK s \in StepIDs : StepNext(s)
    BY <1>2
  <2> QED
    BY <2>1, Zenon DEF StepNext, BeginStep, SkipStep, RejectInput, StartAttempt, ActionReturns, ReportAttempt, AfterFailure, Retry, AbandonRetry,
                Moves, StepUnchanged, Emit, Silent
<1>3. CASE Execute \/ EmitStarted \/ NextSteps \/ Collect \/ EmitTerminal \/ Return
  BY <1>3, SMTT(60), Zenon DEF Execute, EmitStarted, NextSteps, Collect, EmitTerminal, Return, MainMoves, Emit, Silent
<1> QED
  BY <1>1, <1>2, <1>3, Zenon DEF ExecutorNext

(* What the callers of CancelWorkflow rely on stays true while the record    *)
(* grows.                                                                    *)
Grows == log' = log \/ \E e \in Events : log' = Append(log, e)

(* What is in the record stays in it. *)
LEMMA RecordGrows ==
    ASSUME TypeOK, Grows
    PROVE  /\ log # << >> => log' # << >>
           /\ (\E i \in DOMAIN log : log[i].kind \in TerminalKinds) =>
                  \E i \in DOMAIN log' : log'[i].kind \in TerminalKinds
<1>1. CASE log' = log
  BY <1>1, SMTT(60), Zenon
<1>2. CASE \E e \in Events : log' = Append(log, e)
  <2>1. PICK e \in Events : log' = Append(log, e)
    BY <1>2, SMTT(60), Zenon
  <2>2. log \in Seq(Events)
    BY DEF TypeOK
  <2>3. /\ log' # << >> /\ DOMAIN log = 1..Len(log) /\ DOMAIN log' = 1..(Len(log) + 1) /\ Len(log) \in Nat
        /\ \A i \in 1..Len(log) : log'[i] = log[i]
    BY <2>1, <2>2, SMTT(60), Zenon
  <2>4. \A i \in DOMAIN log : i \in DOMAIN log' /\ log'[i] = log[i]
    BY <2>3, SMTT(60), Zenon
  <2> QED
    BY <2>3, <2>4, SMTT(60), Zenon
<1> QED
  BY <1>1, <1>2, SMTT(60), Zenon DEF Grows

(* The session's part, in a step that is none of a caller. *)
LEMMA CallersKeep ==
    ASSUME SessionInv, TypeOK', Grows, canceled => canceled', callers' = callers,
           starter' \in {"new", "queued", "registered", "returned"}, registered' \in BOOLEAN,
           starter' # "returned" => phase' = "init",
           starter' = "new" => log' = << >>
    PROVE  SessionInv'
<1>1. TypeOK
  BY DEF SessionInv, RunsTypeOK
<1>2. /\ log # << >> => log' # << >>
      /\ (\E i \in DOMAIN log : log[i].kind \in TerminalKinds) =>
                  \E i \in DOMAIN log' : log'[i].kind \in TerminalKinds
  BY <1>1, RecordGrows, Zenon
<1>3. RunsTypeOK'
  BY Zenon DEF SessionInv, RunsTypeOK
<1>4. ASSUME NEW k \in Callers
      PROVE  /\ callers'[k].hit /\ callers'[k].at # "taken" => canceled'
             /\ callers'[k].at = "append" => log' # << >>
             /\ callers'[k].at = "nil" => \E i \in DOMAIN log' : log'[i].kind \in TerminalKinds
  BY <1>2, Zenon DEF SessionInv
<1> QED
  BY <1>3, <1>4, SMTT(60), Zenon DEF SessionInv

(* The status of a run that has one is that of one of its events. *)
LEMMA RunStatusFound ==
    ASSUME NEW l \in Seq(Events), RunStatus(l) # "none"
    PROVE  \E i \in DOMAIN l : l[i].kind = RunStatus(l)
<1> DEFINE is == {i \in DOMAIN l : l[i].step = Main}
<1>1. is # {} /\ RunStatus(l) = l[LastAt(is)].kind
  BY DEF RunStatus, LatestKind
<1>2. Len(l) \in Nat /\ is \subseteq 0..Len(l) /\ is \subseteq DOMAIN l
  OBVIOUS
<1> HIDE DEF is
<1>3. \E i \in is : \A j \in is : j <= i
  BY <1>1, <1>2, GreatestNumber, SMTT(60), Zenon
<1>4. LastAt(is) \in is
  BY <1>3, Zenon DEF LastAt
<1> QED
  BY <1>1, <1>2, <1>4, ZenonT(60), SMTT(60)

(* What a canceled event of the record says stays true when a process writes *)
(* its event, ...                                                            *)
LEMMA TailedRecord ==
    ASSUME TypeOK, OutboxInv, NEW p \in StepIDs \cup {Main}, Record(p), Tailed(log, outbox)
    PROVE  Tailed(log', outbox') /\ \A i \in DOMAIN log' : log'[i].kind = "canceled" => i \in DOMAIN log /\ log'[i] = log[i]
<1> DEFINE e == outbox[p]
           n == Len(log)
<1>1. /\ outbox \in [StepIDs \cup {Main} -> Events \cup {NoEvent}] /\ log \in Seq(Events)
      /\ e # NoEvent /\ e \in Events /\ e.step = p /\ e.kind # "canceled"
      /\ log' = Append(log, e) /\ outbox' = [outbox EXCEPT ![p] = NoEvent]
  BY Zenon DEF TypeOK, OutboxInv, Record
<1>2. outbox'[p] = NoEvent /\ outbox[p] # NoEvent /\ \A q \in StepIDs \cup {Main} : q # p => outbox'[q] = outbox[q]
  BY <1>1, Zenon
<1> HIDE DEF e
<1>3. /\ n \in Nat /\ DOMAIN log = 1..n /\ DOMAIN log' = 1..(n + 1) /\ log'[n + 1] = e
      /\ \A i \in 1..n : log'[i] = log[i]
  BY <1>1, SMTT(60), Zenon
<1> HIDE DEF n
<1>4. \A i \in DOMAIN log' : i \in DOMAIN log \/ i = n + 1
  BY <1>3
<1>5. \A i \in DOMAIN log' : log'[i].kind = "canceled" => i \in DOMAIN log /\ log'[i] = log[i]
  BY <1>1, <1>3, <1>4, Zenon
<1>6. ASSUME NEW i \in DOMAIN log', log'[i].kind = "canceled", NEW q \in StepIDs \cup {Main},
             NEW j \in DOMAIN log', j > i, log'[j].step = q, log'[j].kind # "canceled"
      PROVE  outbox'[q] = NoEvent /\ \A k \in DOMAIN log' : k > i /\ log'[k].step = q /\ log'[k].kind # "canceled" => k = j
  <2>1. i \in DOMAIN log /\ log[i].kind = "canceled"
    BY <1>5, <1>6, Zenon
  <2>2. ASSUME NEW k \in DOMAIN log, k > i, log'[k].step = q, log'[k].kind # "canceled"
        PROVE  q # p /\ outbox'[q] = NoEvent
    <3>1. log[k].step = q /\ log[k].kind # "canceled"
      BY <1>3, <2>2
    <3>2. outbox[q] = NoEvent
      BY <2>1, <2>2, <3>1, Zenon DEF Tailed
    <3> QED
      BY <1>2, <3>2, Zenon
  <2>3. CASE j \in DOMAIN log
    <3>1. q # p /\ outbox'[q] = NoEvent /\ log[j].step = q /\ log[j].kind # "canceled"
      BY <1>3, <1>6, <2>2, <2>3, SMTT(60), Zenon
    <3>2. ASSUME NEW k \in DOMAIN log', k > i, log'[k].step = q, log'[k].kind # "canceled"
          PROVE  k = j
      <4>1. k # n + 1
        BY <1>1, <1>3, <3>1, <3>2, Zenon
      <4>2. k \in DOMAIN log /\ log[k].step = q /\ log[k].kind # "canceled"
        BY <1>3, <1>4, <3>2, <4>1, Zenon
      <4> QED
        BY <1>6, <2>1, <2>3, <3>1, <3>2, <4>2, ZenonT(60), SMTT(60) DEF Tailed
    <3> QED
      BY <3>1, <3>2, ZenonT(60), SMTT(60)
  <2>4. CASE j = n + 1
    <3>1. q = p
      BY <1>1, <1>3, <1>6, <2>4, Zenon
    <3>2. \A k \in DOMAIN log : k > i /\ log'[k].step = q /\ log'[k].kind # "canceled" => FALSE
      BY <2>2, <3>1, ZenonT(60), SMTT(60)
    <3> QED
      BY <1>2, <1>4, <2>4, <3>1, <3>2, Zenon
  <2> QED
    BY <1>4, <1>6, <2>3, <2>4, Zenon
<1>7. Tailed(log', outbox')
  BY <1>6 DEF Tailed
<1> QED
  BY <1>5, <1>7, Zenon

(* ... and when a caller of CancelWorkflow adds one more. *)
LEMMA TailedCancel ==
    ASSUME NEW l \in Seq(Events), NEW o, NEW e \in Events, e.kind = "canceled", Tailed(l, o)
    PROVE  Tailed(Append(l, e), o)
<1> DEFINE z == Append(l, e)
           n == Len(l)
<1>1. /\ n \in Nat /\ DOMAIN l = 1..n /\ DOMAIN z = 1..(n + 1) /\ z[n + 1] = e
      /\ \A i \in 1..n : z[i] = l[i]
  BY SMTT(60), Zenon
<1> HIDE DEF z, n
<1>2. ASSUME NEW i \in DOMAIN z, NEW j \in DOMAIN z, j > i, z[j].kind # "canceled"
      PROVE  i \in DOMAIN l /\ j \in DOMAIN l /\ z[i] = l[i] /\ z[j] = l[j]
  <2>1. j # n + 1
    BY <1>1, <1>2, Zenon
  <2> QED
    BY <1>1, <1>2, <2>1, SMTT(60), Zenon
<1>3. ASSUME NEW i \in DOMAIN z, z[i].kind = "canceled", NEW q \in StepIDs \cup {Main},
             NEW j \in DOMAIN z, j > i, z[j].step = q, z[j].kind # "canceled"
      PROVE  o[q] = NoEvent /\ \A k \in DOMAIN z : k > i /\ z[k].step = q /\ z[k].kind # "canceled" => k = j
  <2>1. /\ i \in DOMAIN l /\ j \in DOMAIN l /\ l[i].kind = "canceled" /\ l[j].step = q
        /\ l[j].kind # "canceled"
    BY <1>2, <1>3, SMTT(60), Zenon
  <2>2. o[q] = NoEvent /\ \A k \in DOMAIN l : k > i /\ l[k].step = q /\ l[k].kind # "canceled" => k = j
    BY <1>3, <2>1, Zenon DEF Tailed
  <2>3. \A k \in DOMAIN z : k > i /\ z[k].kind # "canceled" => k \in DOMAIN l /\ z[k] = l[k]
    BY <1>2, <1>3, ZenonT(60), SMTT(60)
  <2> QED
    BY <2>2, <2>3, ZenonT(60), SMTT(60)
<1>4. Tailed(z, o)
  BY <1>3, SMTT(60), Zenon DEF Tailed
<1> QED
  BY <1>4, Zenon DEF z

-----------------------------------------------------------------------------
(* IInv is inductive *)

(* Nobody has emitted anything yet. *)
LEMMA NoEvents == \A s : EventsOf(<< >>, s) = << >>
<1> SUFFICES ASSUME NEW s
             PROVE  EventsOf(<< >>, s) = << >>
  OBVIOUS
<1> DEFINE l == << >>
           is == {i \in DOMAIN l : l[i].step = s}
<1>1. l \in Seq(Events) /\ Len(l) = 0
  OBVIOUS
<1>2. EventsOf(l, s) = Picked(l, is)
  BY DEF EventsOf
<1> HIDE DEF l, is
<1>3. \E f : Picks(f, l, is, Len(l)) /\ Picked(l, is) = f[Len(l)]
  BY <1>1, PickedByLoop, Zenon
<1> QED
  BY <1>1, <1>2, <1>3, SMTT(60), Zenon DEF Picks, l

(* It holds initially, ... *)
LEMMA InitIInv == RunsInit => IInv
<1> SUFFICES ASSUME RunsInit
             PROVE  IInv
  OBVIOUS
<1>1. /\ def \in Definitions /\ ordered = << >> /\ limit \in Limits /\ canceled = FALSE /\ phase = "init"
      /\ outcome = "none" /\ batch = << >> /\ tasks = [s \in StepIDs |-> Idle]
      /\ results = [s \in StepIDs |-> NoResult] /\ events = << >>
      /\ outbox = [p \in StepIDs \cup {Main} |-> NoEvent] /\ log = << >>
      /\ starter = "new" /\ registered = FALSE /\ callers = [k \in Callers |-> [at |-> "new", hit |-> FALSE]]
  BY Zenon DEF RunsInit, Init
<1>2. Idle \in Tasks
  BY WorkflowAssumption DEF Idle, Tasks, Places, Data
<1>3. TypeOK
  <2>1. ordered \in Seq(StepIDs) /\ batch \in Seq(StepIDs) /\ events \in Seq(Events) /\ log \in Seq(Events)
    BY <1>1
  <2>2. /\ tasks \in [StepIDs -> Tasks] /\ results \in [StepIDs -> Results \cup {NoResult}]
        /\ outbox \in [StepIDs \cup {Main} -> Events \cup {NoEvent}]
    BY <1>1, <1>2, Zenon
  <2>3. canceled \in BOOLEAN
    BY <1>1, Zenon
  <2> QED
    BY <1>1, <2>1, <2>2, <2>3, ZenonT(60), SMTT(60) DEF TypeOK
<1>4. PhaseInv /\ EndInv
  <2>1. PhaseInv
    BY <1>1, Zenon DEF PhaseInv
  <2>2. EndInv
    BY <1>1, SMTT(60), Zenon DEF EndInv
  <2> QED
    BY <2>1, <2>2
<1>5. \A s \in StepIDs : s \in StepIDs \cup {Main} /\ tasks[s] = Idle /\ tasks[s].at = "idle" /\ tasks[s].attempt = 0
                         /\ ~tasks[s].err /\ outbox[s] = NoEvent /\ results[s] = NoResult
  BY <1>1 DEF Idle
<1>6. BatchInv
  <2>1. Len(batch) <= AtMost
    <3>1. limit \in Int
      BY <1>1, WorkflowAssumption, Zenon
    <3> QED
      BY <1>1, <3>1 DEF AtMost
  <2>2. \A s \in StepIDs : s \notin Steps(batch)
    BY <1>1 DEF Steps
  <2> QED
    BY <1>5, <2>1, <2>2, Zenon DEF BatchInv, Undone
<1>7. ResultInv
  <2>1. \A s \in IDs(def) : s \in StepIDs
    BY <1>1, DeclIs, Zenon
  <2> QED
    BY <1>1, <1>5, <2>1, Zenon DEF ResultInv, Undone
<1>8. OutboxInv
  BY <1>1 DEF OutboxInv
<1>9. TaskInv
  <2> SUFFICES ASSUME NEW s \in StepIDs
               PROVE  TaskAt(def, s, tasks[s], EventsOf(events, s)) /\ StatusAt(s, tasks[s], events)
    BY Zenon DEF TaskInv
  <2>1. EventsOf(events, s) = << >>
    BY <1>1, NoEvents
  <2>2. TaskAt(def, s, tasks[s], EventsOf(events, s))
    BY <1>5, <2>1, ZenonT(60), SMTT(60) DEF TaskAt, Trying
  <2>3. StatusAt(s, tasks[s], events)
    BY <1>5 DEF StatusAt
  <2> QED
    BY <2>2, <2>3, Zenon
<1>10. MirrorInv
  <2>1. events = log /\ RunStatus(log) = "none" /\ Main \in StepIDs \cup {Main} /\ outbox[Main] = NoEvent
    BY <1>1 DEF RunStatus, LatestKind
  <2> QED
    BY <1>5, <2>1, ZenonT(60), SMTT(60) DEF MirrorInv, Pending
<1>11. SessionInv
  <2>1. RunsTypeOK
    BY <1>1, <1>3, ZenonT(60), SMTT(60) DEF RunsTypeOK
  <2> QED
    BY <1>1, <2>1, Zenon DEF SessionInv
<1>12. CancelInv
  BY <1>1 DEF CancelInv, Tailed
<1> QED
  BY <1>3, <1>4, <1>6, <1>7, <1>8, <1>9, <1>10, <1>11, <1>12, SMTT(60), Zenon DEF IInv, RunInv

(* StartWorkflowWithRunID, up to the go statement. *)
LEMMA StartKeeps ==
    ASSUME IInv, StartQueue \/ StartRegister \/ StartGo
    PROVE  IInv'
<1>0. RunInv /\ SessionInv /\ CancelInv /\ TypeOK /\ log \in Seq(Events)
  BY DEF IInv, RunInv, TypeOK
<1>1. ExecutorUnchanged /\ canceled' = canceled /\ callers' = callers /\ phase' = phase /\ outbox' = outbox
  BY Zenon DEF StartQueue, StartRegister, StartGo, ExecutorUnchanged, vars
<1>2. canceled' \in BOOLEAN
  BY <1>0, <1>1, SMTT(60), Zenon DEF TypeOK
<1>3. CASE log' = log
  <2>1. RunInv'
    BY <1>0, <1>1, <1>2, <1>3, ContextKeeps, SMTT(60), Zenon
  <2>2. TypeOK'
    BY <2>1, Zenon DEF RunInv
  <2>3. /\ starter # "returned" /\ phase = "init"
        /\ starter' \in {"queued", "registered", "returned"} /\ registered' \in BOOLEAN
    BY <1>0, Zenon DEF StartQueue, StartRegister, StartGo, SessionInv, RunsTypeOK
  <2>4. SessionInv'
    BY <1>0, <1>1, <1>3, <2>2, <2>3, CallersKeep, ZenonT(60), SMTT(60) DEF Grows
  <2>5. CancelInv'
    BY <1>0, <1>1, <1>3, Zenon, SMTT(60) DEF CancelInv, AllHit
  <2> QED
    BY <2>1, <2>4, <2>5, SMTT(60), Zenon DEF IInv
<1>4. CASE log' # log
  <2>1. /\ starter = "new" /\ starter' = "queued" /\ log' = Append(log, RunEvent("queued"))
        /\ registered' = registered /\ registered \in BOOLEAN /\ log = << >> /\ phase = "init"
    BY <1>0, <1>4 DEF StartQueue, StartRegister, StartGo, vars, SessionInv, RunsTypeOK
  <2>2. RunInv'
    BY <1>0, <1>1, <2>1, SessionEventKeeps, Zenon
  <2>3. TypeOK'
    BY <2>2, SMTT(60), Zenon DEF RunInv
  <2>4. RunEvent("queued") \in Events /\ RunEvent("queued").kind = "queued"
    BY WorkflowAssumption, SMTT(60), Zenon DEF RunEvent, Events, RunKinds
  <2>5. SessionInv'
    <3>1. Grows
      BY <2>1, <2>4, ZenonT(60), SMTT(60) DEF Grows
    <3> QED
      BY <1>0, <1>1, <2>1, <2>3, <3>1, CallersKeep, SMTT(60), Zenon
  <2>6. CancelInv'
    <3>1. \A i \in DOMAIN log' : log'[i].kind # "canceled"
      <4>1. log' = <<RunEvent("queued")>>
        BY <2>1, <2>4, SMTT(60), Zenon
      <4>2. \A i \in DOMAIN log' : i = 1
        BY <4>1
      <4> QED
        BY <2>4, <4>1, <4>2, SMTT(60), Zenon
    <3> QED
      BY <3>1, SMTT(60), Zenon DEF CancelInv, Tailed
  <2> QED
    BY <2>2, <2>5, <2>6 DEF IInv
<1> QED
  BY <1>3, <1>4, SMTT(60), Zenon

(* The run's goroutine. *)
LEMMA RunStepKeeps ==
    ASSUME IInv, RunStep
    PROVE  IInv'
<1>0. RunInv /\ SessionInv /\ CancelInv /\ TypeOK /\ OutboxInv
  BY DEF IInv, RunInv
<1>1. ExecutorNext /\ starter = "returned" /\ starter' = starter /\ registered' = registered /\ callers' = callers
  BY DEF RunStep, SessionUnchanged
<1>2. RunInv'
  BY <1>0, <1>1, ExecutorKeeps, SMTT(60), Zenon
<1>3. /\ canceled' = canceled
      /\ \/ log' = log /\ (canceled => outbox' = outbox)
         \/ \E p \in StepIDs \cup {Main} : Record(p)
  BY <1>0, <1>1, ExecutorIs, SMTT(60), Zenon
<1>4. Grows
  <2>1. ASSUME NEW p \in StepIDs \cup {Main}, Record(p)
        PROVE  \E e \in Events : log' = Append(log, e)
    <3>1. outbox[p] \in Events /\ log' = Append(log, outbox[p])
      BY <1>0, <2>1, SMTT(60), Zenon DEF TypeOK, Record
    <3> QED
      BY <3>1, Zenon
  <2> QED
    BY <1>3, <2>1 DEF Grows
<1>5. SessionInv'
  <2>1. TypeOK'
    BY <1>2, Zenon DEF RunInv
  <2>2. registered \in BOOLEAN
    BY <1>0 DEF SessionInv, RunsTypeOK
  <2> QED
    BY <1>0, <1>1, <1>3, <1>4, <2>1, <2>2, CallersKeep, SMTT(60), Zenon
<1>6. CancelInv'
  <2> SUFFICES ASSUME AllHit
               PROVE  /\ \A i \in DOMAIN log' : log'[i].kind = "canceled" => canceled'
                      /\ Tailed(log', outbox')
    BY <1>1, Zenon DEF CancelInv, AllHit
  <2>1. Tailed(log, outbox) /\ \A i \in DOMAIN log : log[i].kind = "canceled" => canceled
    BY <1>0, Zenon DEF CancelInv
  <2>2. CASE \E p \in StepIDs \cup {Main} : Record(p)
    <3>1. /\ Tailed(log', outbox')
          /\ \A i \in DOMAIN log' : log'[i].kind = "canceled" => i \in DOMAIN log /\ log'[i] = log[i]
      BY <1>0, <2>1, <2>2, TailedRecord, ZenonT(60), SMTT(60)
    <3> QED
      BY <1>3, <2>1, <3>1, Zenon
  <2>3. CASE log' = log /\ (canceled => outbox' = outbox)
    <3>1. CASE canceled
      BY <1>3, <2>1, <2>3, <3>1, Zenon
    <3>2. CASE ~canceled
      <4>1. \A i \in DOMAIN log : log[i].kind # "canceled"
        BY <2>1, <3>2
      <4> QED
        BY <2>3, <4>1, Zenon DEF Tailed
    <3> QED
      BY <3>1, <3>2, Zenon
  <2> QED
    BY <1>3, <2>2, <2>3, Zenon
<1> QED
  BY <1>2, <1>5, <1>6, SMTT(60), Zenon DEF IInv

(* CancelWorkflow takes the cancel function, or finds none. *)
LEMMA TakeCancelKeeps ==
    ASSUME IInv, NEW k \in Callers, TakeCancel(k)
    PROVE  IInv'
<1>0. RunInv /\ SessionInv /\ CancelInv /\ RunsTypeOK
  BY Zenon DEF IInv, SessionInv
<1> DEFINE to == IF registered THEN "taken" ELSE "read"
<1>1. /\ callers[k].at = "new" /\ registered' = FALSE /\ canceled' = canceled
      /\ callers' = [callers EXCEPT ![k] = [at |-> to, hit |-> canceled \/ registered]]
      /\ ExecutorUnchanged /\ log' = log /\ starter' = starter /\ phase' = phase /\ outbox' = outbox
  BY Zenon DEF TakeCancel, ExecutorUnchanged, vars
<1>2. canceled \in BOOLEAN /\ registered \in BOOLEAN
      /\ to \in {"new", "taken", "read", "append", "nil", "error"} /\ to # "append" /\ to # "nil"
      /\ (to = "taken" <=> registered)
  BY <1>0, Zenon, SMTT(60) DEF RunsTypeOK, TypeOK
<1> HIDE DEF to
<1>3. canceled' \in BOOLEAN /\ (canceled => canceled')
  BY <1>1, <1>2, Zenon
<1>4. RunInv'
  BY <1>0, <1>1, <1>3, ContextKeeps, Zenon
<1>5. /\ callers \in [Callers -> [at: {"new", "taken", "read", "append", "nil", "error"}, hit: BOOLEAN]]
      /\ callers'[k] = [at |-> to, hit |-> canceled \/ registered]
      /\ \A c \in Callers : c # k => callers'[c] = callers[c]
  BY <1>0, <1>1, Zenon DEF RunsTypeOK
<1>6. /\ callers' \in [Callers -> [at: {"new", "taken", "read", "append", "nil", "error"}, hit: BOOLEAN]]
      /\ callers'[k].at = to /\ (callers'[k].hit <=> canceled \/ registered)
  <2>1. [at |-> to, hit |-> canceled \/ registered] \in [at: {"new", "taken", "read", "append", "nil", "error"}, hit: BOOLEAN]
    BY <1>2, Zenon
  <2> QED
    BY <1>1, <1>5, <2>1, Zenon
<1>7. SessionInv'
  <2>1. RunsTypeOK'
    BY <1>0, <1>1, <1>4, <1>6, ZenonT(60), SMTT(60) DEF RunsTypeOK, RunInv
  <2>2. ASSUME NEW c \in Callers
        PROVE  /\ callers'[c].hit /\ callers'[c].at # "taken" => canceled'
               /\ callers'[c].at = "append" => log' # << >>
               /\ callers'[c].at = "nil" => \E i \in DOMAIN log' : log'[i].kind \in TerminalKinds
    <3>1. CASE c = k
      BY <1>1, <1>2, <1>6, <3>1, ZenonT(60), SMTT(60)
    <3>2. CASE c # k
      BY <1>0, <1>1, <1>3, <1>5, <3>2, SMTT(60), Zenon DEF SessionInv
    <3> QED
      BY <3>1, <3>2, SMTT(60), Zenon
  <2> QED
    BY <1>0, <1>1, <2>1, <2>2, Zenon DEF SessionInv
<1>8. CancelInv'
  <2>1. AllHit' => AllHit
    BY <1>1, <1>5, Zenon DEF AllHit
  <2> QED
    BY <1>0, <1>1, <1>3, <2>1, Zenon DEF CancelInv
<1> QED
  BY <1>4, <1>7, <1>8, Zenon DEF IInv

(* A caller that has looked for the cancel function goes on. *)
LEMMA CallerMoves ==
    ASSUME RunsTypeOK, NEW k \in Callers, NEW at \in {"read", "append", "nil", "error"},
           callers[k].at # "new", callers' = [callers EXCEPT ![k].at = at]
    PROVE  /\ callers' \in [Callers -> [at: {"new", "taken", "read", "append", "nil", "error"}, hit: BOOLEAN]]
           /\ callers'[k].at = at /\ (callers'[k].hit <=> callers[k].hit)
           /\ \A c \in Callers : c # k => callers'[c] = callers[c]
           /\ AllHit' <=> AllHit
<1>1. /\ callers \in [Callers -> [at: {"new", "taken", "read", "append", "nil", "error"}, hit: BOOLEAN]]
      /\ callers'[k] = [callers[k] EXCEPT !.at = at]
      /\ \A c \in Callers : c # k => callers'[c] = callers[c]
  BY DEF RunsTypeOK
<1> DEFINE R == [at: {"new", "taken", "read", "append", "nil", "error"}, hit: BOOLEAN]
<1>2. [callers[k] EXCEPT !.at = at] \in R
  <2>1. callers[k] \in R
    BY <1>1
  <2> QED
    BY <2>1
<1>3. callers' \in [Callers -> R]
  BY <1>1, <1>2
<1>4. callers'[k].at = at /\ (callers'[k].hit <=> callers[k].hit)
  BY <1>1
<1>5. AllHit' <=> AllHit
  <2>1. ASSUME NEW c \in Callers
        PROVE  (callers'[c].at # "new" => callers'[c].hit) <=> (callers[c].at # "new" => callers[c].hit)
    <3>1. CASE c = k
      BY <1>4, <3>1, SMTT(60), Zenon
    <3>2. CASE c # k
      BY <1>1, <3>2, SMTT(60), Zenon
    <3> QED
      BY <3>1, <3>2
  <2> QED
    BY <2>1 DEF AllHit
<1> QED
  BY <1>1, <1>3, <1>4, <1>5, SMTT(60), Zenon

(* CancelWorkflow calls the cancel function. *)
LEMMA CallCancelKeeps ==
    ASSUME IInv, NEW k \in Callers, CallCancel(k)
    PROVE  IInv'
<1>0. RunInv /\ SessionInv /\ CancelInv /\ RunsTypeOK
  BY Zenon DEF IInv, SessionInv
<1>1. /\ callers[k].at = "taken" /\ callers' = [callers EXCEPT ![k].at = "read"]
      /\ ExecutorUnchanged /\ log' = log /\ starter' = starter /\ phase' = phase /\ outbox' = outbox
      /\ canceled' = TRUE /\ registered' = registered
  BY Zenon DEF CallCancel, ExecutorUnchanged
<1>2. /\ callers' \in [Callers -> [at: {"new", "taken", "read", "append", "nil", "error"}, hit: BOOLEAN]]
      /\ callers'[k].at = "read"
      /\ \A c \in Callers : c # k => callers'[c] = callers[c]
      /\ AllHit' <=> AllHit
  BY <1>0, <1>1, CallerMoves, Zenon, SMTT(60)
<1>3. RunInv'
  <2>1. canceled' \in BOOLEAN /\ (canceled => canceled')
    BY <1>1, Zenon
  <2> QED
    BY <1>0, <1>1, <2>1, ContextKeeps, Zenon
<1>4. SessionInv'
  <2>1. RunsTypeOK'
    BY <1>0, <1>1, <1>2, <1>3, ZenonT(60), SMTT(60) DEF RunsTypeOK, RunInv
  <2>2. ASSUME NEW c \in Callers
        PROVE  /\ callers'[c].hit /\ callers'[c].at # "taken" => canceled'
               /\ callers'[c].at = "append" => log' # << >>
               /\ callers'[c].at = "nil" => \E i \in DOMAIN log' : log'[i].kind \in TerminalKinds
    <3>1. CASE c = k
      BY <1>1, <1>2, <3>1, ZenonT(60), SMTT(60)
    <3>2. CASE c # k
      BY <1>0, <1>1, <1>2, <3>2, SMTT(60), Zenon DEF SessionInv
    <3> QED
      BY <3>1, <3>2, Zenon
  <2> QED
    BY <1>0, <1>1, <2>1, <2>2, Zenon DEF SessionInv
<1>5. CancelInv'
  BY <1>0, <1>1, <1>2, Zenon DEF CancelInv
<1> QED
  BY <1>3, <1>4, <1>5, Zenon DEF IInv

(* CancelWorkflow reads the run's state. *)
LEMMA ReadStateKeeps ==
    ASSUME IInv, NEW k \in Callers, ReadState(k)
    PROVE  IInv'
<1>0. RunInv /\ SessionInv /\ CancelInv /\ RunsTypeOK
  BY DEF IInv, SessionInv
<1> DEFINE to == CASE ~Found -> "error"
                   [] RunStatus(log) \in TerminalKinds -> "nil"
                   [] OTHER -> "append"
<1>1. /\ callers[k].at = "read" /\ callers' = [callers EXCEPT ![k].at = to]
      /\ ExecutorUnchanged /\ log' = log /\ starter' = starter /\ phase' = phase /\ outbox' = outbox
      /\ canceled' = canceled /\ registered' = registered
  BY DEF ReadState, ExecutorUnchanged, vars
<1>2. /\ to \in {"append", "nil", "error"}
      /\ to = "append" => log # << >>
      /\ to = "nil" => RunStatus(log) \in TerminalKinds
  BY DEF Found
<1> HIDE DEF to
<1>3. /\ callers' \in [Callers -> [at: {"new", "taken", "read", "append", "nil", "error"}, hit: BOOLEAN]]
      /\ callers'[k].at = to /\ (callers'[k].hit <=> callers[k].hit)
      /\ \A c \in Callers : c # k => callers'[c] = callers[c]
      /\ AllHit' <=> AllHit
  BY <1>0, <1>1, <1>2, CallerMoves, Zenon
<1>4. RunInv'
  <2>1. canceled' \in BOOLEAN
    BY <1>0, <1>1, SMTT(60), Zenon DEF RunsTypeOK, TypeOK
  <2> QED
    BY <1>0, <1>1, <2>1, ContextKeeps, SMTT(60), Zenon
<1>5. SessionInv'
  <2>1. RunsTypeOK'
    BY <1>0, <1>1, <1>3, <1>4, SMTT(60), Zenon DEF RunsTypeOK, RunInv
  <2>2. ASSUME NEW c \in Callers
        PROVE  /\ callers'[c].hit /\ callers'[c].at # "taken" => canceled'
               /\ callers'[c].at = "append" => log' # << >>
               /\ callers'[c].at = "nil" => \E i \in DOMAIN log' : log'[i].kind \in TerminalKinds
    <3>1. CASE c = k
      <4>1. to = "nil" => \E i \in DOMAIN log : log[i].kind \in TerminalKinds
        <5>1. log \in Seq(Events) /\ "none" \notin TerminalKinds
          BY <1>0 DEF RunsTypeOK, TypeOK, TerminalKinds
        <5> QED
          BY <1>2, <5>1, RunStatusFound, ZenonT(60), SMTT(60)
      <4> QED
        BY <1>0, <1>1, <1>2, <1>3, <3>1, <4>1, Zenon DEF SessionInv
    <3>2. CASE c # k
      BY <1>0, <1>1, <1>3, <3>2, SMTT(60), Zenon DEF SessionInv
    <3> QED
      BY <3>1, <3>2
  <2> QED
    BY <1>0, <1>1, <2>1, <2>2, SMTT(60), Zenon DEF SessionInv
<1>6. CancelInv'
  BY <1>0, <1>1, <1>3, ZenonT(60), SMTT(60) DEF CancelInv
<1> QED
  BY <1>4, <1>5, <1>6, SMTT(60), Zenon DEF IInv

(* CancelWorkflow writes that the run is canceled. *)
LEMMA AppendCanceledKeeps ==
    ASSUME IInv, NEW k \in Callers, AppendCanceled(k)
    PROVE  IInv'
<1>0. RunInv /\ SessionInv /\ CancelInv /\ RunsTypeOK /\ TypeOK /\ log \in Seq(Events)
  BY DEF IInv, SessionInv, RunsTypeOK, TypeOK
<1> DEFINE e == RunEvent("canceled")
<1>1. /\ callers[k].at = "append" /\ callers' = [callers EXCEPT ![k].at = "nil"]
      /\ ExecutorUnchanged /\ log' = Append(log, RunEvent("canceled")) /\ starter' = starter /\ phase' = phase
      /\ outbox' = outbox /\ canceled' = canceled /\ registered' = registered
  BY Zenon DEF AppendCanceled, ExecutorUnchanged
<1>2. e \in Events /\ e.kind = "canceled"
  BY WorkflowAssumption DEF RunEvent, Events, RunKinds
<1>3. RunInv'
  BY <1>0, <1>1, SessionEventKeeps, SMTT(60), Zenon
<1>4. /\ callers' \in [Callers -> [at: {"new", "taken", "read", "append", "nil", "error"}, hit: BOOLEAN]]
      /\ callers'[k].at = "nil" /\ (callers'[k].hit <=> callers[k].hit)
      /\ \A c \in Callers : c # k => callers'[c] = callers[c]
      /\ AllHit' <=> AllHit
  BY <1>0, <1>1, CallerMoves, Zenon
<1>5. log' = Append(log, e)
  BY <1>1, SMTT(60), Zenon
<1> HIDE DEF e
<1>6. /\ Len(log) \in Nat /\ DOMAIN log = 1..Len(log) /\ DOMAIN log' = 1..(Len(log) + 1)
      /\ log'[Len(log) + 1] = e /\ \A i \in 1..Len(log) : log'[i] = log[i]
  BY <1>0, <1>2, <1>5, SMTT(60), Zenon
<1>7. /\ \E i \in DOMAIN log' : log'[i].kind \in TerminalKinds
      /\ log' # << >>
  <2>1. Len(log) + 1 \in DOMAIN log' /\ log'[Len(log) + 1].kind \in TerminalKinds
    BY <1>2, <1>6, SMTT(60), Zenon DEF TerminalKinds
  <2> QED
    BY <2>1, SMTT(60), Zenon
<1>8. SessionInv'
  <2>1. RunsTypeOK'
    BY <1>0, <1>1, <1>3, <1>4, SMTT(60), Zenon DEF RunsTypeOK, RunInv
  <2>2. starter' # "new"
    <3>1. log # << >>
      BY <1>0, <1>1 DEF SessionInv
    <3> QED
      BY <1>0, <1>1, <3>1, SMTT(60), Zenon DEF SessionInv
  <2>3. \A c \in Callers : callers'[c].hit /\ callers'[c].at # "taken" => canceled'
    BY <1>0, <1>1, <1>4, SMTT(60), Zenon DEF SessionInv
  <2> QED
    BY <1>0, <1>1, <1>7, <2>1, <2>2, <2>3, SMTT(60), Zenon DEF SessionInv
<1>9. CancelInv'
  <2> SUFFICES ASSUME AllHit
               PROVE  /\ \A i \in DOMAIN log' : log'[i].kind = "canceled" => canceled'
                      /\ Tailed(log', outbox')
    BY <1>4 DEF CancelInv
  <2>1. canceled
    BY <1>0, <1>1, Zenon DEF AllHit, SessionInv
  <2>2. Tailed(log, outbox)
    BY <1>0, SMTT(60), Zenon DEF CancelInv
  <2>3. Tailed(log', outbox)
    BY <1>0, <1>2, <1>5, <2>2, TailedCancel, SMTT(60), Zenon
  <2> QED
    BY <1>1, <2>1, <2>3, ZenonT(60), SMTT(60)
<1> QED
  BY <1>3, <1>8, <1>9 DEF IInv

(* ... and every step of a run, its session and its callers keeps it. *)
LEMMA NextIInv == IInv /\ [RunsNext]_runVars => IInv'
<1> SUFFICES ASSUME IInv, [RunsNext]_runVars
             PROVE  IInv'
  OBVIOUS
<1>1. CASE UNCHANGED vars /\ UNCHANGED <<starter, callers>> /\ registered' \in BOOLEAN
  <2>0. RunInv /\ SessionInv /\ CancelInv /\ TypeOK
    BY Zenon DEF IInv, RunInv
  <2>1. /\ ExecutorUnchanged /\ log' = log /\ canceled' = canceled /\ phase' = phase /\ outbox' = outbox
        /\ starter' = starter /\ callers' = callers
    BY <1>1, Zenon DEF vars, ExecutorUnchanged
  <2>2. canceled' \in BOOLEAN
    BY <2>0, <2>1, SMTT(60), Zenon DEF TypeOK
  <2>3. RunInv'
    BY <2>0, <2>1, <2>2, ContextKeeps, SMTT(60), Zenon
  <2>4. TypeOK'
    BY <2>3, Zenon DEF RunInv
  <2>5. SessionInv'
    <3>1. /\ starter \in {"new", "queued", "registered", "returned"}
          /\ starter # "returned" => phase = "init"
          /\ starter = "new" => log = << >>
      BY <2>0, ZenonT(60), SMTT(60) DEF SessionInv, RunsTypeOK
    <3> QED
      BY <1>1, <2>0, <2>1, <2>4, <3>1, CallersKeep, Zenon DEF Grows
  <2>6. CancelInv'
    BY <2>0, <2>1, SMTT(60), Zenon DEF CancelInv, AllHit
  <2> QED
    BY <2>3, <2>5, <2>6, SMTT(60), Zenon DEF IInv
<1>2. registered \in BOOLEAN
  BY DEF IInv, SessionInv, RunsTypeOK
<1>3. CASE UNCHANGED runVars
  BY <1>1, <1>2, <1>3, SMTT(60), Zenon DEF runVars
<1>4. CASE Unregister
  BY <1>1, <1>4, Zenon DEF Unregister
<1>5. CASE RunsStopped
  BY <1>3, <1>5, SMTT(60), Zenon DEF RunsStopped
<1> QED
  BY <1>3, <1>4, <1>5, StartKeeps, RunStepKeeps, TakeCancelKeeps, CallCancelKeeps, ReadStateKeeps, AppendCanceledKeeps, ZenonT(60), SMTT(60)
     DEF RunsNext

(* The inductive invariant holds in every reachable state. *)
LEMMA Invariance == RunsSpec => []IInv
BY InitIInv, NextIInv, PTL DEF RunsSpec

-----------------------------------------------------------------------------
(* What it implies *)

(* Executor.validateAndOrder: for a definition it accepts, the order holds   *)
(* every step once, only steps, and each one after the steps it depends on.  *)
THEOREM OrderRespectsDependencies ==
    \A d \in Definitions : Valid(d) =>
        /\ Ordered(d) \in Seq(IDs(d))
        /\ \A s \in IDs(d) : \E i \in DOMAIN Ordered(d) : Ordered(d)[i] = s
        /\ \A i, j \in DOMAIN Ordered(d) : Ordered(d)[i] = Ordered(d)[j] => i = j
        /\ \A i \in DOMAIN Ordered(d) : \A t \in DepsOf(d, Ordered(d)[i]) :
               \E j \in 1..(i - 1) : Ordered(d)[j] = t
<1> SUFFICES ASSUME NEW d \in Definitions, Valid(d)
             PROVE  /\ Ordered(d) \in Seq(IDs(d))
                    /\ \A s \in IDs(d) : \E i \in DOMAIN Ordered(d) : Ordered(d)[i] = s
                    /\ \A i, j \in DOMAIN Ordered(d) : Ordered(d)[i] = Ordered(d)[j] => i = j
                    /\ \A i \in DOMAIN Ordered(d) : \A t \in DepsOf(d, Ordered(d)[i]) :
                           \E j \in 1..(i - 1) : Ordered(d)[j] = t
  BY SMTT(60), Zenon
<1> DEFINE o == Ordered(d)
<1>1. o \in Seq(IDs(d)) /\ Before(d, o) /\ Once(o) /\ \A s \in IDs(d) : Has(o, s)
  BY OrderedIs, SMTT(60), Zenon
<1> HIDE DEF o
<1>2. DOMAIN o = 1..Len(o)
  BY <1>1, SMTT(60), Zenon
<1>3. /\ o \in Seq(IDs(d))
      /\ \A s \in IDs(d) : \E i \in DOMAIN o : o[i] = s
      /\ \A i, j \in DOMAIN o : o[i] = o[j] => i = j
      /\ \A i \in DOMAIN o : \A t \in DepsOf(d, o[i]) : \E j \in 1..(i - 1) : o[j] = t
  BY <1>1, <1>2, SMTT(60), Zenon DEF Before, Has, Once
<1> QED
  BY <1>3, SMTT(60), Zenon DEF o

(* The run ends once, as earned. *)
LEMMA EndsOnce ==
    ASSUME IInv
    PROVE  RunEndsOnceAsEarned
<1>0. TypeOK /\ PhaseInv /\ EndInv /\ ResultInv
  BY DEF IInv, RunInv
<1> DEFINE terminal == {i \in DOMAIN events : events[i].kind \in TerminalKinds}
<1>1. terminal \subseteq {Len(events)}
  BY <1>0 DEF EndInv
<1>2. ASSUME phase = "done"
      PROVE  terminal # {}
  <2>1. events # << >> /\ events[Len(events)] = RunEvent(outcome) /\ outcome \in TerminalKinds
    BY <1>0, <1>2, ZenonT(60), SMTT(60) DEF PhaseInv, TypeOK
  <2>2. events \in Seq(Events)
    BY <1>0 DEF TypeOK
  <2>3. Len(events) \in DOMAIN events
    BY <2>1, <2>2
  <2>4. RunEvent(outcome).kind = outcome
    BY Zenon DEF RunEvent
  <2> QED
    BY <2>1, <2>3, <2>4, Zenon
<1>3. ASSUME outcome = "completed", NEW s \in IDs(def)
      PROVE  results[s] # NoResult /\ (results[s].err => Decl(def, s).continue)
  BY <1>0, <1>3 DEF ResultInv, Finished, Undone
<1> QED
  BY <1>1, <1>2, <1>3, Zenon DEF RunEndsOnceAsEarned

(* Executor.Execute, executeParallel: one terminal event, the last one, and  *)
(* completed only if every step has a result that lets the run go on.        *)
THEOREM RunEndsOnce == RunsSpec => []RunEndsOnceAsEarned
BY Invariance, EndsOnce, PTL

(* The steps whose actions run are those of a batch. *)
LEMMA ActingBounded ==
    ASSUME IInv
    PROVE  Cardinality({s \in StepIDs : tasks[s].at = "acting"}) <= AtMost
<1>0. TypeOK /\ BatchInv
  BY SMTT(60), Zenon DEF IInv, RunInv
<1> DEFINE n == Len(batch)
           A == {s \in StepIDs : tasks[s].at = "acting"}
           B == Steps(batch)
<1>1. n \in Nat /\ DOMAIN batch = 1..n /\ batch = [i \in 1..n |-> batch[i]] /\ n <= AtMost /\ AtMost \in Int
  <2>1. batch \in Seq(StepIDs) /\ limit \in Int
    BY <1>0, WorkflowAssumption, ZenonT(60), SMTT(60) DEF TypeOK
  <2> QED
    BY <1>0, <2>1, SMTT(60), Zenon DEF BatchInv, AtMost
<1>2. A \in SUBSET B
  BY <1>0, SMTT(60), Zenon DEF BatchInv
<1>3. batch \in Surjection(1..n, B)
  <2>1. batch \in [1..n -> B] /\ \A t \in B : \E i \in 1..n : batch[i] = t
    BY <1>1 DEF Steps
  <2> QED
    BY <2>1 DEF Surjection
<1> HIDE DEF n, A, B
<1>4. IsFiniteSet(1..n) /\ Cardinality(1..n) = n
  BY <1>1, FS_Interval
<1>5. IsFiniteSet(B) /\ Cardinality(B) <= Cardinality(1..n)
  BY <1>3, <1>4, FS_Surjection, Zenon
<1>6. IsFiniteSet(A) /\ Cardinality(A) <= Cardinality(B)
  BY <1>2, <1>5, FS_Subset, SMTT(60), Zenon
<1>7. Cardinality(A) \in Nat /\ Cardinality(B) \in Nat
  BY <1>5, <1>6, FS_CardinalityType, Zenon
<1>8. Cardinality(A) <= AtMost
  BY <1>1, <1>4, <1>5, <1>6, <1>7, SMTT(60), Zenon
<1> QED
  BY <1>8 DEF A

(* What a goroutine's place says of its step's events. *)
LEMMA TaskEvents ==
    ASSUME NEW d \in Definitions, NEW s \in StepIDs, NEW t \in Tasks, NEW l \in Seq(Events), TaskAt(d, s, t, l)
    PROVE  /\ s \notin IDs(d) => l = << >>
           /\ Len(l) <= 2 * Allowed(d, s)
           /\ Alone(s, l) \/ Ran(s, l)
<1>1. Allowed(d, s) \in Nat /\ Allowed(d, s) >= 1
  BY AllowedIs, SMTT(60), Zenon
<1>2. CASE t.at \in {"idle", "begin", "skip", "reject"}
  <2>1. l = << >>
    BY <1>2, Zenon DEF TaskAt
  <2> QED
    BY <1>1, <2>1, NoneRan, SMTT(60), Zenon
<1>3. CASE t.at \in Trying
  <2>1. t.attempt \in 1..Allowed(d, s) /\ Failing(s, l) /\ Len(l) = Emitted(t) /\ s \in IDs(d)
    BY <1>3 DEF TaskAt, Trying
  <2>2. Emitted(t) <= 2 * t.attempt /\ t.attempt \in Nat
    BY <1>1, <2>1, SMTT(60), Zenon DEF Emitted
  <2>3. Len(l) <= 2 * Allowed(d, s)
    BY <1>1, <2>1, <2>2, SMTT(60), Zenon
  <2> QED
    BY <2>1, <2>3, FailingRan, ZenonT(60), SMTT(60)
<1>4. CASE t.at = "done"
  BY <1>4 DEF TaskAt
<1> QED
  BY <1>2, <1>3, <1>4, Zenon DEF Tasks, Places, Trying

(* The steps run as declared. *)
LEMMA RunsAsDeclared ==
    ASSUME IInv
    PROVE  StepsRunAsDeclared
<1>0. TypeOK /\ BatchInv /\ TaskInv
  BY Zenon DEF IInv, RunInv
<1>1. ASSUME NEW s \in Steps(batch), NEW t \in DepsOf(def, s)
      PROVE  ~Undone(t)
  <2>1. s \in StepIDs
    BY <1>0, SMTT(60), Zenon DEF TypeOK, Steps
  <2> QED
    BY <1>0, <1>1, <2>1, ZenonT(60), SMTT(60) DEF BatchInv, MayRun
<1>2. ASSUME NEW s \in StepIDs
      PROVE  LET l == EventsOf(events, s)
                 ran == \A n \in 1..Allowed(def, s) :
                            /\ 2 * n - 1 <= Len(l) => l[2 * n - 1] = StepEvent("step_started", s, n)
                            /\ 2 * n <= Len(l) => \/ l[2 * n] = StepEvent("step_failed", s, n)
                                                  \/ l[2 * n] = StepEvent("step_completed", s, n) /\ Len(l) = 2 * n
             IN  /\ s \notin IDs(def) => l = << >>
                 /\ Len(l) <= 2 * Allowed(def, s)
                 /\ Alone(s, l) \/ ran
  <2> DEFINE l == EventsOf(events, s)
  <2>1. def \in Definitions /\ tasks[s] \in Tasks /\ events \in Seq(Events)
    BY <1>0, SMTT(60), Zenon DEF TypeOK
  <2>2. l \in Seq(Events)
    BY <2>1, EventsOfIn, SMTT(60), Zenon
  <2>3. TaskAt(def, s, tasks[s], l)
    BY <1>0, Zenon DEF TaskInv
  <2> HIDE DEF l
  <2>4. /\ s \notin IDs(def) => l = << >>
        /\ Len(l) <= 2 * Allowed(def, s)
        /\ Alone(s, l) \/ Ran(s, l)
    BY <2>1, <2>2, <2>3, TaskEvents, ZenonT(60), SMTT(60)
  <2>5. Allowed(def, s) \in Nat /\ Len(l) \in Nat
    BY <2>1, <2>2, AllowedIs, SMTT(60), Zenon
  <2>6. ASSUME Ran(s, l), NEW n \in 1..Allowed(def, s)
        PROVE  /\ 2 * n - 1 <= Len(l) => l[2 * n - 1] = StepEvent("step_started", s, n)
               /\ 2 * n <= Len(l) => \/ l[2 * n] = StepEvent("step_failed", s, n)
                                     \/ l[2 * n] = StepEvent("step_completed", s, n) /\ Len(l) = 2 * n
    <3>1. 2 * n - 1 <= Len(l) \/ 2 * n <= Len(l) => n \in 1..Len(l)
      BY <2>5
    <3> QED
      BY <2>6, <3>1, SMTT(60), Zenon DEF Ran
  <2> QED
    BY <2>4, <2>6, Zenon DEF l
<1>3. Cardinality({s \in StepIDs : tasks[s].at = "acting"}) <= IF limit > 1 THEN limit ELSE 1
  BY ActingBounded, ZenonT(60), SMTT(60) DEF AtMost
<1> QED
  BY <1>1, <1>2, <1>3, Zenon DEF StepsRunAsDeclared, Alone

(* executeStep, readySteps, validateAndOrder: steps run when they may, as    *)
(* often as they may, and no more of them at a time than MaxConcurrency.     *)
THEOREM StepsRunRight == RunsSpec => []StepsRunAsDeclared
BY Invariance, RunsAsDeclared, PTL

(* A record that ends with an event of the run has its status. *)
LEMMA LastRunEvent ==
    ASSUME NEW l \in Seq(Events), l # << >>, l[Len(l)].step = Main
    PROVE  RunStatus(l) = l[Len(l)].kind
<1> DEFINE is == {i \in DOMAIN l : l[i].step = Main}
<1>1. Len(l) \in Nat /\ Len(l) \in is /\ \A j \in is : j \in Nat /\ j <= Len(l)
  OBVIOUS
<1>2. RunStatus(l) = LatestKind(l, is, "none")
  BY DEF RunStatus
<1> HIDE DEF is
<1>3. \A i \in is : (\A j \in is : j <= i) => i = Len(l)
  BY <1>1
<1>4. LastAt(is) = Len(l)
  BY <1>1, <1>3, ZenonT(60), SMTT(60) DEF LastAt
<1> QED
  BY <1>1, <1>2, <1>4, SMTT(60), Zenon DEF LatestKind

(* The record projects to the run. *)
LEMMA ProjectionMatches ==
    ASSUME IInv
    PROVE  ProjectionMatchesRun
<1>0. TypeOK /\ PhaseInv /\ BatchInv /\ TaskInv /\ MirrorInv
  BY Zenon DEF IInv, RunInv
<1> SUFFICES ASSUME phase = "done", ~canceled, \A i \in DOMAIN log : log[i].kind # "canceled"
             PROVE  /\ RunStatus(log) = RunStatus(events)
                    /\ \A s \in StepIDs :
                          /\ StepStatus(log, s) = StepStatus(events, s)
                          /\ tasks[s].attempt > 0 =>
                                 StepStatus(log, s) = IF tasks[s].err THEN "step_failed" ELSE "step_completed"
                          /\ \A n \in 1..tasks[s].attempt :
                                 AttemptStatus(log, s, n) = IF n < tasks[s].attempt THEN "step_failed"
                                                            ELSE StepStatus(log, s)
  BY Zenon DEF ProjectionMatchesRun
<1>1. RunStatus(log) = RunStatus(events)
  <2>1. outbox[Main] = NoEvent /\ outcome \in TerminalKinds /\ events # << >> /\ events[Len(events)] = RunEvent(outcome)
    BY <1>0, Zenon DEF PhaseInv, TypeOK
  <2>2. events \in Seq(Events) /\ RunEvent(outcome).step = Main /\ RunEvent(outcome).kind = outcome
    BY <1>0, Zenon DEF TypeOK, RunEvent
  <2>3. RunStatus(events) = outcome
    BY <2>1, <2>2, LastRunEvent, Zenon
  <2>4. RunStatus(events) = IF RunStatus(log) = "queued" THEN "none" ELSE RunStatus(log)
    BY <1>0, <2>1, Zenon DEF MirrorInv, Pending
  <2> QED
    BY <2>1, <2>3, <2>4, Zenon DEF TerminalKinds
<1>2. ASSUME NEW s \in StepIDs
      PROVE  /\ StepStatus(log, s) = StepStatus(events, s)
             /\ tasks[s].attempt > 0 =>
                    StepStatus(log, s) = IF tasks[s].err THEN "step_failed" ELSE "step_completed"
             /\ \A n \in 1..tasks[s].attempt :
                    AttemptStatus(log, s, n) = IF n < tasks[s].attempt THEN "step_failed"
                                               ELSE StepStatus(log, s)
  <2>1. outbox[s] = NoEvent /\ tasks[s].at \in {"idle", "done"}
    <3>1. s \notin Steps(batch)
      BY <1>0, SMTT(60), Zenon DEF PhaseInv, Steps
    <3> QED
      BY <1>0, <3>1, ZenonT(60), SMTT(60) DEF BatchInv
  <2>2. /\ StepStatus(log, s) = StepStatus(events, s)
        /\ \A n \in 0..MaxAttempts : AttemptStatus(log, s, n) = AttemptStatus(events, s, n)
    BY <1>0, <2>1, ZenonT(60), SMTT(60) DEF MirrorInv, Pending
  <2>3. tasks[s].attempt \in 0..MaxAttempts /\ MaxAttempts \in Nat
    BY <1>0, WorkflowAssumption, SMTT(60), Zenon DEF TypeOK, Tasks
  <2>4. tasks[s].attempt > 0 => tasks[s].at = "done"
    <3>1. tasks[s].at = "idle" => tasks[s].attempt = 0
      BY <1>0, Zenon DEF TaskInv, TaskAt
    <3> QED
      BY <2>1, <3>1, SMTT(60), Zenon
  <2>5. StatusAt(s, tasks[s], events)
    BY <1>0, Zenon DEF TaskInv
  <2>6. tasks[s].attempt > 0 =>
           /\ StepStatus(events, s) = IF tasks[s].err THEN "step_failed" ELSE "step_completed"
           /\ AttemptStatus(events, s, tasks[s].attempt) = StepStatus(events, s)
    BY <2>4, <2>5, ZenonT(60), SMTT(60) DEF StatusAt
  <2>7. ASSUME NEW n \in 1..tasks[s].attempt
        PROVE  AttemptStatus(log, s, n) = IF n < tasks[s].attempt THEN "step_failed" ELSE StepStatus(log, s)
    <3>1. n \in 0..MaxAttempts /\ tasks[s].attempt > 0
      BY <2>3
    <3>2. CASE n < tasks[s].attempt
      <4>1. n \in 1..(tasks[s].attempt - 1)
        BY <2>3, <3>2, SMTT(60), Zenon
      <4> QED
        BY <2>2, <2>5, <3>1, <3>2, <4>1, ZenonT(60), SMTT(60) DEF StatusAt
    <3>3. CASE n = tasks[s].attempt
      BY <2>2, <2>3, <2>6, <3>1, <3>3, SMTT(60), Zenon
    <3> QED
      BY <2>3, <3>2, <3>3, SMTT(60), Zenon
  <2> QED
    BY <2>2, <2>6, <2>7, Zenon
<1> QED
  BY <1>1, <1>2, SMTT(60), Zenon

(* ThreadRecorder, applyEvent: the record of a run that was not canceled     *)
(* projects to what the executor did.                                        *)
THEOREM ProjectionIsRight == RunsSpec => []ProjectionMatchesRun
BY Invariance, ProjectionMatches, PTL

(* A set whose members are all the same. *)
LEMMA AtMostOne ==
    ASSUME NEW T, \A x, y \in T : x = y
    PROVE  Cardinality(T) <= 1
<1>1. CASE T = {}
  BY <1>1, FS_EmptySet, SMTT(60), Zenon
<1>2. CASE T # {}
  <2>1. PICK x : T = {x}
    BY <1>2
  <2>2. Cardinality({x}) = 1
    BY FS_Singleton, Zenon
  <2>3. Cardinality(T) = 1
    BY <2>1, <2>2, Zenon
  <2> QED
    BY <2>3
<1> QED
  BY <1>1, <1>2, SMTT(60), Zenon

(* The cancellation is recorded. *)
LEMMA CancellationRecorded ==
    ASSUME IInv
    PROVE  CancellationIsRecorded
<1>0. SessionInv /\ CancelInv /\ RunsTypeOK
  BY Zenon DEF IInv, SessionInv
<1>1. \A k \in Callers : callers[k].at = "nil" => \E i \in DOMAIN log : log[i].kind \in TerminalKinds
  BY <1>0, Zenon DEF SessionInv
<1>2. ASSUME AllHit, NEW i \in DOMAIN log, log[i].kind = "canceled", NEW p \in StepIDs \cup {Main}
      PROVE  Cardinality({j \in (i + 1)..Len(log) : log[j].step = p /\ log[j].kind # "canceled"}) <= 1
  <2> DEFINE T == {j \in (i + 1)..Len(log) : log[j].step = p /\ log[j].kind # "canceled"}
  <2>1. Len(log) \in Nat /\ DOMAIN log = 1..Len(log)
    BY <1>0, SMTT(60), Zenon DEF RunsTypeOK, TypeOK
  <2>2. \A j \in T : j \in DOMAIN log /\ j > i /\ log[j].step = p /\ log[j].kind # "canceled"
    BY <1>2, <2>1, SMTT(60), Zenon
  <2> HIDE DEF T
  <2>3. Tailed(log, outbox)
    BY <1>0, <1>2, ZenonT(60), SMTT(60) DEF CancelInv
  <2>4. \A x, y \in T : x = y
    BY <1>2, <2>2, <2>3, SMTT(60), Zenon DEF Tailed
  <2>5. Cardinality(T) <= 1
    BY <2>4, AtMostOne, SMTT(60), Zenon
  <2> QED
    BY <2>5, ZenonT(60), SMTT(60) DEF T
<1> QED
  BY <1>0, <1>1, <1>2, Zenon DEF CancellationIsRecorded, AllHit

(* Session.CancelWorkflow: a call that returned nil leaves a terminal event  *)
(* in the thread, and a canceled event ends the run's record up to the event *)
(* each goroutine was writing, unless a caller found neither the cancel      *)
(* function nor a canceled context: before the run was registered, or        *)
(* between another caller taking the function and calling it.                *)
THEOREM CancellationIsKept == RunsSpec => []CancellationIsRecorded
BY Invariance, CancellationRecorded, PTL

=============================================================================
