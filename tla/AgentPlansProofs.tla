-------------------------- MODULE AgentPlansProofs --------------------------
(***************************************************************************)
(* What the planner's pure functions do to plans of any size; then the     *)
(* plans of an agent and the log they are rebuilt from: the part of the    *)
(* inductive invariant that concerns them, step by step.                   *)
(***************************************************************************)
EXTENDS AgentState, FiniteSetTheorems, InductionLemmas, TLAPS

-----------------------------------------------------------------------------
(* The planner's functions *)

(* f holds the order topoSortSteps has built after each round. *)
Rounds(f, steps) == f[0] = << >> /\ \A n \in 1..Len(steps) : f[n] = Place(steps, f[n - 1])

Distinct(steps) == \A i, j \in DOMAIN steps : steps[i].id = steps[j].id => i = j

(* The dependencies of every step come before it. *)
DepsFirst(steps) ==
    \A i \in DOMAIN steps : steps[i].deps \subseteq {steps[j].id : j \in 1..(i - 1)}

(* An order of some of the steps that topoSortSteps may build. *)
Order(steps, o) ==
    /\ o \in Seq(Step)
    /\ Distinct(o)
    /\ DepsFirst(o)
    /\ \A i \in DOMAIN o : o[i].id \in IDs(steps) /\ o[i] = StepOf(steps, o[i].id)

(* findStep finds a step with the id. *)
LEMMA Found ==
    ASSUME NEW steps, NEW id \in IDs(steps)
    PROVE  /\ IndexOf(steps, id) \in DOMAIN steps
           /\ steps[IndexOf(steps, id)].id = id
           /\ StepOf(steps, id).id = id
           /\ StepOf(steps, id) = steps[IndexOf(steps, id)]
<1>1. \E i \in DOMAIN steps : steps[i].id = id
  BY DEF IDs
<1> QED
  BY <1>1 DEF IndexOf, StepOf

(* The steps of a well typed sequence, and their ids. *)
LEMMA StepsTyped ==
    ASSUME NEW steps \in Seq(Step)
    PROVE  /\ Len(steps) \in Nat /\ DOMAIN steps = 1..Len(steps)
           /\ \A i \in DOMAIN steps : steps[i] \in Step /\ steps[i].id \in StepIDs
           /\ IDs(steps) \subseteq StepIDs /\ IDs(steps) \subseteq Nat /\ NoStep \notin IDs(steps)
<1>1. \A i \in DOMAIN steps : steps[i] \in Step
  OBVIOUS
<1>2. \A s \in Step : s.id \in StepIDs
  BY DEF Step
<1>3. \A i \in DOMAIN steps : steps[i].id \in StepIDs
  BY <1>1, <1>2
<1>4. IDs(steps) \subseteq StepIDs
  BY <1>3 DEF IDs
<1>5. Len(steps) \in Nat /\ DOMAIN steps = 1..Len(steps)
  OBVIOUS
<1> QED
  BY <1>1, <1>3, <1>4, <1>5, PlannerAssumption, Zenon

(* A set of ids has a smallest one. *)
LEMMA SmallestIs ==
    ASSUME NEW ids, ids \subseteq Nat, ids # {}
    PROVE  Smallest(ids) \in ids
<1>1. \E n \in ids : \A m \in ids : n <= m
  BY LeastNumber, Zenon
<1> QED
  BY <1>1, Zenon DEF Smallest

(* A round places a step whose dependencies are placed, or changes nothing. *)
LEMMA Placing ==
    ASSUME NEW steps \in Seq(Step), NEW o
    PROVE  LET ready == Placeable(steps, IDs(o)) IN
           /\ ready = {} => Place(steps, o) = o
           /\ ready # {} => \E id \in IDs(steps) \ IDs(o) :
                /\ StepOf(steps, id) \in Step /\ StepOf(steps, id).id = id
                /\ StepOf(steps, id).deps \subseteq IDs(o)
                /\ Place(steps, o) = Append(o, StepOf(steps, id))
<1> DEFINE ready == Placeable(steps, IDs(o))
           id == Smallest(ready)
<1>1. ASSUME ready # {}
      PROVE  id \in ready
  <2>1. \A x \in IDs(steps) : x \in Nat
    BY StepsTyped
  <2>2. ready \subseteq Nat
    BY <2>1 DEF Placeable
  <2> HIDE DEF ready
  <2> QED
    BY <1>1, <2>2, SmallestIs, Zenon
<1>2. ASSUME ready # {}
      PROVE  /\ id \in IDs(steps) \ IDs(o) /\ StepOf(steps, id).deps \subseteq IDs(o)
             /\ StepOf(steps, id) \in Step /\ StepOf(steps, id).id = id
  <2>1. id \in IDs(steps) \ IDs(o) /\ StepOf(steps, id).deps \subseteq IDs(o)
    BY <1>1, <1>2 DEF Placeable
  <2> HIDE DEF id
  <2>2. StepOf(steps, id).id = id /\ IndexOf(steps, id) \in DOMAIN steps /\ StepOf(steps, id) = steps[IndexOf(steps, id)]
    BY <2>1, Found
  <2>3. StepOf(steps, id) \in Step
    BY <2>2
  <2> QED
    BY <2>1, <2>2, <2>3
<1>3. /\ ready = {} => Place(steps, o) = o
      /\ ready # {} => Place(steps, o) = Append(o, StepOf(steps, id))
  BY DEF Place
<1> HIDE DEF id
<1> QED
  BY <1>2, <1>3

(* A round extends an order to an order. *)
LEMMA PlacingOrders ==
    ASSUME NEW steps \in Seq(Step), NEW o, Order(steps, o)
    PROVE  Order(steps, Place(steps, o)) /\ Len(Place(steps, o)) <= Len(o) + 1
<1>1. o \in Seq(Step) /\ Len(o) \in Nat /\ DOMAIN o = 1..Len(o)
  BY DEF Order
<1>2. CASE Placeable(steps, IDs(o)) = {}
  BY <1>1, <1>2, Placing
<1>3. CASE Placeable(steps, IDs(o)) # {}
  <2>1. PICK id \in IDs(steps) \ IDs(o) :
                /\ StepOf(steps, id) \in Step /\ StepOf(steps, id).id = id
                /\ StepOf(steps, id).deps \subseteq IDs(o)
                /\ Place(steps, o) = Append(o, StepOf(steps, id))
    BY <1>3, Placing
  <2> DEFINE s == StepOf(steps, id)
             p == Append(o, s)
             n == Len(o)
  <2>2. s \in Step /\ s.id = id /\ s.deps \subseteq IDs(o) /\ id \notin IDs(o)
    BY <2>1
  <2>3. /\ p \in Seq(Step) /\ Len(p) = n + 1 /\ DOMAIN p = 1..(n + 1)
        /\ p[n + 1] = s /\ \A i \in 1..n : p[i] = o[i]
    <3> HIDE DEF s
    <3> QED
      BY <1>1, <2>2
  <2> HIDE DEF s, p
  <2>4. \A i \in 1..(n + 1) : i \in 1..n \/ i = n + 1
    BY <1>1
  <2>5. \A i \in 1..n : o[i].id # id
    BY <1>1, <2>2 DEF IDs
  <2>6. Distinct(p)
    <3>1. \A i, j \in 1..n : o[i].id = o[j].id => i = j
      BY <1>1 DEF Order, Distinct
    <3> QED
      BY <2>2, <2>3, <2>4, <2>5, <3>1 DEF Distinct
  <2>7. DepsFirst(p)
    <3> SUFFICES ASSUME NEW i \in 1..(n + 1)
                 PROVE  p[i].deps \subseteq {p[j].id : j \in 1..(i - 1)}
      BY <2>3 DEF DepsFirst
    <3>1. \A j \in 1..(i - 1) : p[j] = o[j]
      BY <1>1, <2>3
    <3>2. {p[j].id : j \in 1..(i - 1)} = {o[j].id : j \in 1..(i - 1)}
      BY <3>1
    <3>3. CASE i \in 1..n
      <4>1. p[i] = o[i] /\ i \in DOMAIN o
        BY <1>1, <2>3, <3>3
      <4>2. o[i].deps \subseteq {o[j].id : j \in 1..(i - 1)}
        BY <4>1 DEF Order, DepsFirst
      <4> QED
        BY <3>2, <4>1, <4>2, Zenon
    <3>4. CASE i = n + 1
      <4>1. i - 1 = n /\ p[i] = s
        BY <1>1, <2>3, <3>4
      <4>2. IDs(o) = {o[j].id : j \in 1..n}
        BY <1>1 DEF IDs
      <4> QED
        BY <2>2, <3>2, <4>1, <4>2, SMTT(60), Zenon
    <3> QED
      BY <2>4, <3>3, <3>4
  <2>8. \A i \in DOMAIN p : p[i].id \in IDs(steps) /\ p[i] = StepOf(steps, p[i].id)
    <3>1. \A i \in 1..n : o[i].id \in IDs(steps) /\ o[i] = StepOf(steps, o[i].id)
      BY <1>1 DEF Order
    <3>2. s.id \in IDs(steps) /\ s = StepOf(steps, s.id)
      BY <2>1 DEF s
    <3> QED
      BY <2>3, <2>4, <3>1, <3>2
  <2>9. Place(steps, o) = p
    BY <2>1 DEF p, s
  <2> QED
    BY <1>1, <2>3, <2>6, <2>7, <2>8, <2>9 DEF Order
<1> QED
  BY <1>2, <1>3

(* The rounds of topoSortSteps exist and give its result. *)
LEMMA TopoSortIs ==
    ASSUME NEW steps \in Seq(Step)
    PROVE  \E f : /\ Rounds(f, steps)
                  /\ topoSortSteps(steps) =
                       IF References(steps) \subseteq IDs(steps) /\ Len(f[Len(steps)]) = Len(steps)
                       THEN [ok |-> TRUE, steps |-> f[Len(steps)]]
                       ELSE [ok |-> FALSE, steps |-> << >>]
<1> DEFINE N == Len(steps)
           Loop(f) == f = [n \in 0..N |-> IF n = 0 THEN << >> ELSE Place(steps, f[n - 1])]
           f == CHOOSE f : Loop(f)
<1>1. N \in Nat
  OBVIOUS
<1>2. \E g : Loop(g)
  <2> DEFINE V == Seq(Step)
             g == [p \in V \X (1..N) |-> Place(steps, p[1])]
  <2>1. << >> \in V
    OBVIOUS
  <2>2. g \in [V \X (1..N) -> V]
    <3>1. ASSUME NEW o \in V
          PROVE  Place(steps, o) \in V
      <4> HIDE DEF V
      <4>1. CASE Placeable(steps, IDs(o)) = {}
        BY <4>1, Placing
      <4>2. CASE Placeable(steps, IDs(o)) # {}
        <5>1. PICK id : StepOf(steps, id) \in Step /\ Place(steps, o) = Append(o, StepOf(steps, id))
          BY <4>2, Placing
        <5> QED
          BY <5>1 DEF V
      <4> QED
        BY <4>1, <4>2
    <3> HIDE DEF V
    <3> QED
      BY <3>1
  <2>3. \A o \in V, n \in 1..N : g[<< o, n >>] = Place(steps, o)
    OBVIOUS
  <2> HIDE DEF V, g
  <2>4. IsLoop(V, N, << >>, g)
    BY <1>1, <2>1, <2>2 DEF IsLoop
  <2>5a. PICK h : Runs(h, V, N, << >>, g)
    BY <2>4, LoopExists
  <2>5b. h \in [0..N -> V] /\ h[0] = << >> /\ \A n \in 1..N : h[n] = g[<<h[n - 1], n>>]
    BY <2>5a DEF Runs
  <2>5. ASSUME NEW n \in 0..N
        PROVE  h[n] = IF n = 0 THEN << >> ELSE Place(steps, h[n - 1])
    <3>1. CASE n = 0
      BY <2>5b, <3>1
    <3>2. CASE n # 0
      <4>1. n \in 1..N /\ n - 1 \in 0..N
        BY <1>1, <3>2
      <4>2. h[n - 1] \in V
        BY <2>5b, <4>1
      <4> QED
        BY <2>3, <2>5b, <3>2, <4>1, <4>2, Zenon
    <3> QED
      BY <3>1, <3>2
  <2> DEFINE k == [n \in 0..N |-> IF n = 0 THEN << >> ELSE Place(steps, h[n - 1])]
  <2>6. h = k
    <3>1. h = [n \in 0..N |-> h[n]]
      BY <2>5b
    <3> QED
      BY <2>5, <3>1
  <2> QED
    BY <2>6
<1>3. Loop(f)
  BY <1>2
<1>4. topoSortSteps(steps) = IF References(steps) \subseteq IDs(steps) /\ Len(f[N]) = N
                             THEN [ok |-> TRUE, steps |-> f[N]] ELSE [ok |-> FALSE, steps |-> << >>]
  BY DEF topoSortSteps
<1> HIDE DEF f
<1>5. \A n \in 0..N : f[n] = IF n = 0 THEN << >> ELSE Place(steps, f[n - 1])
  BY <1>3
<1>6. 0 \in 0..N /\ \A n \in 1..N : n \in 0..N /\ n # 0
  BY <1>1
<1>7. Rounds(f, steps)
  BY <1>5, <1>6 DEF Rounds
<1> QED
  BY <1>4, <1>7, Zenon

(* Every round leaves an order. *)
LEMMA RoundsOrder ==
    ASSUME NEW steps \in Seq(Step), NEW f, Rounds(f, steps)
    PROVE  \A n \in 0..Len(steps) : Order(steps, f[n]) /\ Len(f[n]) <= n
<1> DEFINE N == Len(steps)
           T == {n \in 0..N : Order(steps, f[n]) /\ Len(f[n]) <= n}
<1>1. N \in Nat
  OBVIOUS
<1>2. 0 \in T
  <2>1. f[0] = << >> /\ 0 \in 0..N
    BY <1>1 DEF Rounds
  <2>2. Order(steps, << >>)
    BY DEF Order, Distinct, DepsFirst
  <2> QED
    BY <2>1, <2>2
<1>3. ASSUME NEW n \in 1..N, n - 1 \in T
      PROVE  n \in T
  <2>1. Order(steps, f[n - 1]) /\ Len(f[n - 1]) <= n - 1 /\ n \in 0..N
    BY <1>3
  <2>2. f[n] = Place(steps, f[n - 1])
    BY DEF Rounds
  <2>3. Order(steps, f[n]) /\ Len(f[n]) <= Len(f[n - 1]) + 1
    BY <2>1, <2>2, PlacingOrders
  <2>4. f[n] \in Seq(Step) /\ f[n - 1] \in Seq(Step)
    BY <2>1, <2>3 DEF Order
  <2>5. Len(f[n]) <= n
    BY <2>1, <2>3, <2>4
  <2> QED
    BY <2>1, <2>3, <2>5
<1> HIDE DEF T
<1>4. \A n \in 0..N : n \in T
  BY <1>1, <1>2, <1>3, BoundedInduction, Zenon
<1> QED
  BY <1>4 DEF T

(* An order as long as the steps holds all of them. *)
LEMMA FullOrder ==
    ASSUME NEW steps \in Seq(Step), NEW o, Order(steps, o), Len(o) = Len(steps)
    PROVE  /\ IDs(o) = IDs(steps)
           /\ \A id \in IDs(steps) : StepOf(o, id) = StepOf(steps, id)
           /\ References(o) = References(steps)
<1> DEFINE N == Len(steps)
           at == [j \in 1..N |-> IndexOf(steps, o[j].id)]
<1>1. N \in Nat /\ DOMAIN steps = 1..N /\ DOMAIN o = 1..N /\ o \in Seq(Step)
  BY DEF Order
<1>2. ASSUME NEW j \in 1..N
      PROVE  at[j] \in 1..N /\ steps[at[j]] = o[j]
  <2>1. o[j].id \in IDs(steps) /\ o[j] = StepOf(steps, o[j].id)
    BY <1>1 DEF Order
  <2> QED
    BY <1>1, <2>1, Found
<1>3. at \in [1..N -> 1..N]
  BY <1>2
<1> HIDE DEF at
<1>4. \A j, k \in 1..N : at[j] = at[k] => j = k
  BY <1>1, <1>2 DEF Order, Distinct
<1>5. at \in Injection(1..N, 1..N)
  BY <1>3, <1>4 DEF Injection, IsInjective
<1>6. IsFiniteSet(1..N)
  BY <1>1, FS_Interval
<1>7. at \in Surjection(1..N, 1..N)
  BY <1>5, <1>6, FS_Injection
<1>8. \A k \in 1..N : \E j \in 1..N : at[j] = k
  BY <1>7 DEF Surjection
<1>9. \A k \in 1..N : \E j \in 1..N : steps[k] = o[j]
  BY <1>2, <1>8
<1>10. \A j \in 1..N : \E k \in 1..N : o[j] = steps[k]
  BY <1>2
<1>11. IDs(o) = IDs(steps)
  <2>1. ASSUME NEW id \in IDs(o)
        PROVE  id \in IDs(steps)
    <3>1. PICK j \in 1..N : o[j].id = id
      BY <1>1 DEF IDs
    <3> QED
      BY <1>1, <1>10, <3>1, Zenon DEF IDs
  <2>2. ASSUME NEW id \in IDs(steps)
        PROVE  id \in IDs(o)
    <3>1. PICK k \in 1..N : steps[k].id = id
      BY <1>1, Zenon DEF IDs
    <3>2. PICK j \in 1..N : steps[k] = o[j]
      BY <1>9, Zenon
    <3>3. o[j].id = id
      BY <3>1, <3>2, Zenon
    <3> QED
      BY <1>1, <3>3, Zenon DEF IDs
  <2> QED
    BY <2>1, <2>2, Zenon
<1>12. ASSUME NEW id \in IDs(steps)
       PROVE  StepOf(o, id) = StepOf(steps, id)
  <2>1. IndexOf(o, id) \in DOMAIN o /\ o[IndexOf(o, id)].id = id /\ StepOf(o, id) = o[IndexOf(o, id)]
    BY <1>11, Found
  <2> QED
    BY <2>1 DEF Order
<1>13. References(o) = References(steps)
  BY <1>1, <1>9, <1>10, Zenon DEF References
<1> QED
  BY <1>11, <1>12, <1>13

-----------------------------------------------------------------------------
(* Steps that the sort cannot tell apart *)

(* new has the steps of steps, with the same dependencies. *)
SameDeps(steps, new) ==
    /\ Len(new) = Len(steps)
    /\ IDs(new) = IDs(steps)
    /\ \A id \in IDs(steps) : StepOf(new, id).deps = StepOf(steps, id).deps
    /\ References(new) = References(steps)

(* The order o with the steps of new. *)
Carried(o, new) == [i \in DOMAIN o |-> StepOf(new, o[i].id)]

LEMMA CarriedTyped ==
    ASSUME NEW steps \in Seq(Step), NEW new \in Seq(Step), SameDeps(steps, new), NEW o, Order(steps, o)
    PROVE  /\ Carried(o, new) \in Seq(Step) /\ Len(Carried(o, new)) = Len(o)
           /\ IDs(Carried(o, new)) = IDs(o)
<1>1. o \in Seq(Step) /\ Len(o) \in Nat /\ DOMAIN o = 1..Len(o)
  BY DEF Order
<1>2. \A i \in 1..Len(o) : o[i].id \in IDs(new)
  BY <1>1 DEF Order, SameDeps
<1>3. ASSUME NEW i \in 1..Len(o)
      PROVE  StepOf(new, o[i].id) \in Step /\ StepOf(new, o[i].id).id = o[i].id
  <2> DEFINE id == o[i].id
  <2>1. id \in IDs(new)
    BY <1>2
  <2> HIDE DEF id
  <2>2. IndexOf(new, id) \in DOMAIN new /\ StepOf(new, id).id = id /\ StepOf(new, id) = new[IndexOf(new, id)]
    BY <2>1, Found
  <2>3. StepOf(new, id) \in Step
    BY <2>2
  <2> QED
    BY <2>2, <2>3 DEF id
<1> DEFINE c == [i \in 1..Len(o) |-> StepOf(new, o[i].id)]
<1>4. Carried(o, new) = c
  BY <1>1 DEF Carried
<1>5. \A i \in 1..Len(o) : c[i] = StepOf(new, o[i].id) /\ c[i] \in Step /\ c[i].id = o[i].id
  BY <1>3
<1>6. c \in [1..Len(o) -> Step] /\ DOMAIN c = 1..Len(o)
  BY <1>3
<1> HIDE DEF c
<1>7. c \in Seq(Step) /\ Len(c) = Len(o)
  BY <1>1, <1>6, SMTT(60), Zenon
<1>8. IDs(c) = IDs(o)
  BY <1>1, <1>5, <1>6, Zenon DEF IDs
<1> QED
  BY <1>4, <1>7, <1>8

(* A round does the same for both. *)
LEMMA PlacingCarried ==
    ASSUME NEW steps \in Seq(Step), NEW new \in Seq(Step), SameDeps(steps, new), NEW o, Order(steps, o)
    PROVE  Place(new, Carried(o, new)) = Carried(Place(steps, o), new)
<1> DEFINE c == Carried(o, new)
           ready == Placeable(steps, IDs(o))
           s == StepOf(steps, Smallest(ready))
<1>1. c \in Seq(Step) /\ Len(c) = Len(o) /\ IDs(c) = IDs(o)
  BY CarriedTyped
<1>2. Placeable(new, IDs(c)) = ready
  BY <1>1 DEF Placeable, SameDeps
<1>3. CASE ready = {}
  BY <1>2, <1>3 DEF Place
<1>4. CASE ready # {}
  <2>1. Smallest(ready) \in ready
    <3>1. \A x \in IDs(steps) : x \in Nat
      BY StepsTyped
    <3>2. ready \subseteq Nat
      BY <3>1 DEF Placeable
    <3> HIDE DEF ready
    <3> QED
      BY <1>4, <3>2, SmallestIs, Zenon
  <2> DEFINE id == Smallest(ready)
  <2>2. id \in IDs(steps)
    BY <2>1 DEF Placeable
  <2>3. Place(steps, o) = Append(o, StepOf(steps, id)) /\ Place(new, c) = Append(c, StepOf(new, id))
    BY <1>2, <1>4 DEF Place
  <2> HIDE DEF id
  <2>4. StepOf(steps, id).id = id
    BY <2>2, Found
  <2>5. StepOf(steps, id) \in Step
    <3>1. IndexOf(steps, id) \in DOMAIN steps /\ StepOf(steps, id) = steps[IndexOf(steps, id)]
      BY <2>2, Found
    <3> QED
      BY <3>1
  <2>6. StepOf(new, id) \in Step
    <3>1. id \in IDs(new)
      BY <2>2 DEF SameDeps
    <3>2. IndexOf(new, id) \in DOMAIN new /\ StepOf(new, id) = new[IndexOf(new, id)]
      BY <3>1, Found
    <3> QED
      BY <3>2
  <2> DEFINE x == StepOf(steps, id)
             y == StepOf(new, id)
             p == Append(o, x)
  <2>7. o \in Seq(Step) /\ Len(o) \in Nat /\ DOMAIN o = 1..Len(o)
    BY DEF Order
  <2>8. /\ DOMAIN p = 1..(Len(o) + 1) /\ p[Len(o) + 1] = x /\ \A i \in 1..Len(o) : p[i] = o[i]
    <3> HIDE DEF x
    <3> QED
      BY <2>5, <2>7 DEF x
  <2> HIDE DEF p, x
  <2>9. Carried(p, new) = [i \in 1..(Len(o) + 1) |-> IF i = Len(o) + 1 THEN y ELSE StepOf(new, o[i].id)]
    <3>1. ASSUME NEW i \in 1..(Len(o) + 1)
          PROVE  StepOf(new, p[i].id) = IF i = Len(o) + 1 THEN y ELSE StepOf(new, o[i].id)
      <4>1. CASE i = Len(o) + 1
        BY <2>4, <2>8, <4>1 DEF x
      <4>2. CASE i # Len(o) + 1
        <5>1. i \in 1..Len(o)
          BY <2>7, <4>2
        <5> QED
          BY <2>8, <4>2, <5>1
      <4> QED
        BY <4>1, <4>2
    <3> QED
      BY <2>8, <3>1 DEF Carried
  <2> DEFINE q == Append(c, y)
  <2>10. /\ q \in Seq(Step) /\ Len(q) = Len(o) + 1 /\ q[Len(o) + 1] = y /\ \A i \in 1..Len(o) : q[i] = c[i]
    <3>1. y \in Step /\ c \in Seq(Step) /\ Len(c) = Len(o)
      BY <1>1, <2>6
    <3> HIDE DEF y, c
    <3>2. Append(c, y) \in Seq(Step) /\ Len(Append(c, y)) = Len(c) + 1
      BY <3>1
    <3>3. Append(c, y)[Len(c) + 1] = y /\ \A i \in 1..Len(c) : Append(c, y)[i] = c[i]
      BY <3>1
    <3> QED
      BY <3>1, <3>2, <3>3
  <2>11. \A i \in 1..Len(o) : c[i] = StepOf(new, o[i].id)
    BY <2>7 DEF Carried
  <2> HIDE DEF q
  <2>12. q = [i \in 1..(Len(o) + 1) |-> IF i = Len(o) + 1 THEN y ELSE StepOf(new, o[i].id)]
    <3>1. q = [i \in 1..(Len(o) + 1) |-> q[i]]
      BY <2>7, <2>10
    <3>2. \A i \in 1..(Len(o) + 1) : i = Len(o) + 1 \/ i \in 1..Len(o)
      BY <2>7
    <3> HIDE DEF y, c
    <3> QED
      BY <3>1, <3>2, <2>10, <2>11, Zenon
  <2> QED
    BY <2>3, <2>9, <2>12 DEF p, q, x
<1> QED
  BY <1>3, <1>4

(* The sort carries over. *)
LEMMA SortCarried ==
    ASSUME NEW steps \in Seq(Step), NEW new \in Seq(Step), SameDeps(steps, new), topoSortSteps(steps).ok
    PROVE  topoSortSteps(new) = [ok |-> TRUE, steps |-> Carried(topoSortSteps(steps).steps, new)]
<1> DEFINE N == Len(steps)
<1>1. N \in Nat /\ Len(new) = N
  BY DEF SameDeps
<1>2. PICK f : /\ Rounds(f, steps)
               /\ topoSortSteps(steps) =
                    IF References(steps) \subseteq IDs(steps) /\ Len(f[Len(steps)]) = Len(steps)
                    THEN [ok |-> TRUE, steps |-> f[Len(steps)]]
                    ELSE [ok |-> FALSE, steps |-> << >>]
  BY TopoSortIs
<1>3. PICK g : /\ Rounds(g, new)
               /\ topoSortSteps(new) =
                    IF References(new) \subseteq IDs(new) /\ Len(g[Len(new)]) = Len(new)
                    THEN [ok |-> TRUE, steps |-> g[Len(new)]]
                    ELSE [ok |-> FALSE, steps |-> << >>]
  BY TopoSortIs
<1>4. \A n \in 0..N : Order(steps, f[n])
  BY <1>2, RoundsOrder
<1> DEFINE T == {n \in 0..N : g[n] = Carried(f[n], new)}
<1>5. 0 \in T
  <2>1. f[0] = << >> /\ g[0] = << >> /\ 0 \in 0..N
    BY <1>1, <1>2, <1>3 DEF Rounds
  <2>2. Carried(<< >>, new) = << >>
    BY DEF Carried
  <2> QED
    BY <2>1, <2>2
<1>6. ASSUME NEW n \in 1..N, n - 1 \in T
      PROVE  n \in T
  <2>1. n - 1 \in 0..N /\ n \in 0..N /\ n \in 1..Len(new) /\ g[n - 1] = Carried(f[n - 1], new)
    BY <1>1, <1>6
  <2>2. f[n] = Place(steps, f[n - 1]) /\ g[n] = Place(new, g[n - 1])
    BY <1>2, <1>3, <2>1 DEF Rounds
  <2>3. Order(steps, f[n - 1])
    BY <1>4, <2>1
  <2>4. g[n] = Carried(f[n], new)
    BY <2>1, <2>2, <2>3, PlacingCarried
  <2> QED
    BY <2>1, <2>4
<1>7. \A n \in 0..N : n \in T
  <2> HIDE DEF T, N
  <2> QED
    BY <1>1, <1>5, <1>6, BoundedInduction, Zenon
<1>8. g[N] = Carried(f[N], new) /\ N \in 0..N
  BY <1>1, <1>7
<1>9. Len(g[N]) = Len(f[N])
  BY <1>4, <1>8, CarriedTyped
<1>10. References(steps) \subseteq IDs(steps) /\ Len(f[N]) = N /\ topoSortSteps(steps).steps = f[N]
  BY <1>2
<1>11. References(new) \subseteq IDs(new)
  BY <1>10 DEF SameDeps
<1> QED
  BY <1>1, <1>3, <1>8, <1>9, <1>10, <1>11

(* What a successful sort returns. *)
LEMMA SortReturns ==
    ASSUME NEW steps \in Seq(Step), topoSortSteps(steps).ok
    PROVE  LET o == topoSortSteps(steps).steps IN
           /\ Order(steps, o) /\ Len(o) = Len(steps)
           /\ IDs(o) = IDs(steps)
           /\ \A id \in IDs(steps) : StepOf(o, id) = StepOf(steps, id)
           /\ References(o) = References(steps)
           /\ References(steps) \subseteq IDs(steps)
           /\ topoSortSteps(steps) = [ok |-> TRUE, steps |-> o]
<1> DEFINE N == Len(steps)
<1>1. N \in Nat /\ N \in 0..N
  OBVIOUS
<1>2. PICK f : /\ Rounds(f, steps)
               /\ topoSortSteps(steps) =
                    IF References(steps) \subseteq IDs(steps) /\ Len(f[Len(steps)]) = Len(steps)
                    THEN [ok |-> TRUE, steps |-> f[Len(steps)]]
                    ELSE [ok |-> FALSE, steps |-> << >>]
  BY TopoSortIs
<1>3. /\ References(steps) \subseteq IDs(steps) /\ Len(f[N]) = N /\ topoSortSteps(steps).steps = f[N]
      /\ topoSortSteps(steps) = [ok |-> TRUE, steps |-> f[N]]
  BY <1>2
<1>4. Order(steps, f[N])
  BY <1>1, <1>2, RoundsOrder
<1>5. /\ IDs(f[N]) = IDs(steps)
      /\ \A id \in IDs(steps) : StepOf(f[N], id) = StepOf(steps, id)
      /\ References(f[N]) = References(steps)
  BY <1>3, <1>4, FullOrder
<1> QED
  BY <1>3, <1>4, <1>5

(* The steps of a plan: in the order the sort gives them. *)
InOrder(steps) ==
    /\ steps \in Seq(Step)
    /\ topoSortSteps(steps) = [ok |-> TRUE, steps |-> steps]
    /\ DepsFirst(steps)
    /\ Distinct(steps)

(* Sorting again changes nothing. *)
LEMMA SortedInOrder ==
    ASSUME NEW steps \in Seq(Step), topoSortSteps(steps).ok
    PROVE  InOrder(topoSortSteps(steps).steps)
<1> DEFINE o == topoSortSteps(steps).steps
<1>1. /\ Order(steps, o) /\ Len(o) = Len(steps)
      /\ IDs(o) = IDs(steps)
      /\ \A id \in IDs(steps) : StepOf(o, id) = StepOf(steps, id)
      /\ References(o) = References(steps)
  BY SortReturns
<1> HIDE DEF o
<1>2. o \in Seq(Step) /\ DepsFirst(o) /\ Distinct(o) /\ DOMAIN o = 1..Len(o) /\ Len(o) \in Nat
  BY <1>1 DEF Order
<1>3. SameDeps(steps, o)
  BY <1>1 DEF SameDeps
<1>4. topoSortSteps(o) = [ok |-> TRUE, steps |-> Carried(o, o)]
  BY <1>2, <1>3, SortCarried, Zenon DEF o
<1>5. \A i \in DOMAIN o : o[i] = StepOf(o, o[i].id)
  BY <1>1 DEF Order
<1>6. Carried(o, o) = o
  <2>1. o = [i \in DOMAIN o |-> o[i]]
    BY <1>2
  <2> QED
    BY <1>5, <2>1 DEF Carried
<1> QED
  BY <1>2, <1>4, <1>6 DEF InOrder, o

-----------------------------------------------------------------------------
(* What the events do to the steps *)

(* A step with another status, other dependencies or another parent. *)
LEMMA StepReplaced ==
    ASSUME NEW steps \in Seq(Step), NEW id \in IDs(steps)
    PROVE  /\ \A status \in Statuses : WithStatus(steps, id, status) \in Seq(Step)
           /\ \A deps \in SUBSET StepIDs : WithDeps(steps, id, deps) \in Seq(Step)
           /\ \A parent \in StepIDs \cup {NoStep} : WithParent(steps, id, parent) \in Seq(Step)
           /\ \A status : IDs(WithStatus(steps, id, status)) = IDs(steps)
           /\ \A deps : IDs(WithDeps(steps, id, deps)) = IDs(steps)
           /\ \A parent : IDs(WithParent(steps, id, parent)) = IDs(steps)
<1> DEFINE k == IndexOf(steps, id)
<1>1. k \in DOMAIN steps
  BY Found
<1> HIDE DEF k
<1>2. /\ steps[k] \in Step /\ DOMAIN steps = 1..Len(steps) /\ Len(steps) \in Nat
      /\ \A i \in DOMAIN steps : steps[i] \in Step
  BY <1>1
<1>3. ASSUME NEW status
      PROVE  /\ status \in Statuses => WithStatus(steps, id, status) \in Seq(Step)
             /\ IDs(WithStatus(steps, id, status)) = IDs(steps)
  <2> DEFINE x == [steps[k] EXCEPT !.status = status]
             new == [steps EXCEPT ![k] = x]
  <2>1. WithStatus(steps, id, status) = new
    BY DEF WithStatus, k
  <2>2. x.id = steps[k].id /\ (status \in Statuses => x \in Step)
    BY <1>2 DEF Step
  <2> HIDE DEF x
  <2>3. DOMAIN new = DOMAIN steps /\ \A i \in DOMAIN steps : new[i] = IF i = k THEN x ELSE steps[i]
    BY <1>1
  <2>4. IDs(new) = IDs(steps)
    BY <1>1, <2>2, <2>3 DEF IDs
  <2>5. x \in Step => new \in Seq(Step)
    BY <1>1, <1>2
  <2> QED
    BY <2>1, <2>2, <2>4, <2>5
<1>4. ASSUME NEW deps
      PROVE  /\ deps \in SUBSET StepIDs => WithDeps(steps, id, deps) \in Seq(Step)
             /\ IDs(WithDeps(steps, id, deps)) = IDs(steps)
  <2> DEFINE x == [steps[k] EXCEPT !.deps = deps]
             new == [steps EXCEPT ![k] = x]
  <2>1. WithDeps(steps, id, deps) = new
    BY DEF WithDeps, k
  <2>2. x.id = steps[k].id /\ (deps \in SUBSET StepIDs => x \in Step)
    BY <1>2 DEF Step
  <2> HIDE DEF x
  <2>3. DOMAIN new = DOMAIN steps /\ \A i \in DOMAIN steps : new[i] = IF i = k THEN x ELSE steps[i]
    BY <1>1
  <2>4. IDs(new) = IDs(steps)
    BY <1>1, <2>2, <2>3 DEF IDs
  <2>5. x \in Step => new \in Seq(Step)
    BY <1>1, <1>2
  <2> QED
    BY <2>1, <2>2, <2>4, <2>5
<1>5. ASSUME NEW parent
      PROVE  /\ parent \in StepIDs \cup {NoStep} => WithParent(steps, id, parent) \in Seq(Step)
             /\ IDs(WithParent(steps, id, parent)) = IDs(steps)
  <2> DEFINE x == [steps[k] EXCEPT !.parent = parent]
             new == [steps EXCEPT ![k] = x]
  <2>1. WithParent(steps, id, parent) = new
    BY DEF WithParent, k
  <2>2. x.id = steps[k].id /\ (parent \in StepIDs \cup {NoStep} => x \in Step)
    BY <1>2 DEF Step
  <2> HIDE DEF x
  <2>3. DOMAIN new = DOMAIN steps /\ \A i \in DOMAIN steps : new[i] = IF i = k THEN x ELSE steps[i]
    BY <1>1
  <2>4. IDs(new) = IDs(steps)
    BY <1>1, <2>2, <2>3, SMTT(60), Zenon DEF IDs
  <2>5. x \in Step => new \in Seq(Step)
    BY <1>1, <1>2
  <2> QED
    BY <2>1, <2>2, <2>4, <2>5
<1> QED
  BY <1>3, <1>4, <1>5

(* A change of status keeps the order. *)
LEMMA StatusKeepsOrder ==
    ASSUME NEW steps, InOrder(steps), NEW id \in IDs(steps), NEW status \in Statuses
    PROVE  InOrder(WithStatus(steps, id, status))
<1> DEFINE k == IndexOf(steps, id)
           x == [steps[k] EXCEPT !.status = status]
           new == WithStatus(steps, id, status)
<1>1. steps \in Seq(Step) /\ DOMAIN steps = 1..Len(steps) /\ Len(steps) \in Nat
  BY DEF InOrder
<1>2. k \in DOMAIN steps
  BY Found
<1>3. new \in Seq(Step) /\ IDs(new) = IDs(steps)
  BY <1>1, StepReplaced
<1> HIDE DEF k
<1>4. steps[k] \in Step
  BY <1>1, <1>2
<1>5. x.id = steps[k].id /\ x.deps = steps[k].deps /\ x.parent = steps[k].parent
  BY <1>4 DEF Step
<1>6. new = [steps EXCEPT ![k] = x]
  BY DEF WithStatus, k
<1> HIDE DEF x, new
<1>7. DOMAIN new = DOMAIN steps /\ \A i \in DOMAIN steps : new[i] = IF i = k THEN x ELSE steps[i]
  BY <1>2, <1>6
<1>8. /\ Len(new) = Len(steps)
      /\ \A i \in DOMAIN steps : /\ new[i].id = steps[i].id /\ new[i].deps = steps[i].deps
                                 /\ new[i].parent = steps[i].parent
  <2>1. Len(new) = Len(steps)
    BY <1>1, <1>3, <1>7
  <2> QED
    BY <1>5, <1>7, <2>1
<1>9. Distinct(new) /\ DepsFirst(new)
  <2>1. Distinct(new)
    BY <1>7, <1>8 DEF Distinct, InOrder
  <2>2. ASSUME NEW i \in DOMAIN new
        PROVE  new[i].deps \subseteq {new[j].id : j \in 1..(i - 1)}
    <3>1. \A j \in 1..(i - 1) : new[j].id = steps[j].id
      BY <1>1, <1>7, <1>8, <2>2
    <3>2. {new[j].id : j \in 1..(i - 1)} = {steps[j].id : j \in 1..(i - 1)}
      BY <3>1
    <3>3. steps[i].deps \subseteq {steps[j].id : j \in 1..(i - 1)}
      BY <1>7, <2>2 DEF InOrder, DepsFirst
    <3> QED
      BY <1>7, <1>8, <3>2, <3>3
  <2> QED
    BY <2>1, <2>2 DEF DepsFirst
<1>10. \A i \in DOMAIN steps : StepOf(new, steps[i].id) = new[i] /\ StepOf(steps, steps[i].id) = steps[i]
  <2> SUFFICES ASSUME NEW i \in DOMAIN steps
               PROVE  StepOf(new, steps[i].id) = new[i] /\ StepOf(steps, steps[i].id) = steps[i]
    OBVIOUS
  <2> DEFINE c == steps[i].id
  <2>1. c \in IDs(steps) /\ c \in IDs(new)
    BY <1>3, Zenon DEF IDs
  <2>2. /\ IndexOf(new, c) \in DOMAIN new /\ new[IndexOf(new, c)].id = c /\ StepOf(new, c) = new[IndexOf(new, c)]
    BY <2>1, Found
  <2>3. /\ IndexOf(steps, c) \in DOMAIN steps /\ steps[IndexOf(steps, c)].id = c
        /\ StepOf(steps, c) = steps[IndexOf(steps, c)]
    BY <2>1, Found
  <2>4. new[i].id = c /\ i \in DOMAIN new
    BY <1>7, <1>8
  <2>5. IndexOf(new, c) = i
    <3> HIDE DEF c
    <3> QED
      BY <1>9, <2>2, <2>4 DEF Distinct
  <2>6. IndexOf(steps, c) = i
    BY <2>3 DEF InOrder, Distinct
  <2> QED
    BY <2>2, <2>3, <2>5, <2>6
<1>11. \A c \in IDs(steps) : StepOf(new, c).deps = StepOf(steps, c).deps
  BY <1>8, <1>10 DEF IDs
<1>12. References(new) = References(steps)
  BY <1>7, <1>8 DEF References
<1>13. SameDeps(steps, new)
  BY <1>3, <1>8, <1>11, <1>12 DEF SameDeps
<1>14. topoSortSteps(steps).ok /\ topoSortSteps(steps).steps = steps
  BY DEF InOrder
<1>15. topoSortSteps(new) = [ok |-> TRUE, steps |-> Carried(steps, new)]
  BY <1>1, <1>3, <1>13, <1>14, SortCarried
<1>16. Carried(steps, new) = new
  <2>1. new = [i \in DOMAIN new |-> new[i]]
    BY <1>3
  <2> QED
    BY <1>7, <1>10, <2>1 DEF Carried
<1> QED
  BY <1>3, <1>9, <1>15, <1>16 DEF InOrder, new

(* The numbers up to n. *)
LEMMA UpTo ==
    ASSUME NEW n \in Nat
    PROVE  IsFiniteSet(1..n) /\ Cardinality(1..n) = n
<1>1. 1 \in Int /\ n \in Int
  OBVIOUS
<1>2. IsFiniteSet(1..n) /\ Cardinality(1..n) = IF 1 > n THEN 0 ELSE n - 1 + 1
  BY <1>1, FS_Interval
<1>3. (IF 1 > n THEN 0 ELSE n - 1 + 1) = n
  OBVIOUS
<1> QED
  BY <1>2, <1>3

(* A step that is not placed yet and whose dependencies are all placed: the  *)
(* first one missing in an order that misses some.                           *)
LEMMA SomeReady ==
    ASSUME NEW w \in Seq(Step), Distinct(w), DepsFirst(w), NEW o, Order(w, o), Len(o) < Len(w)
    PROVE  Placeable(w, IDs(o)) # {}
<1> DEFINE N == Len(w)
           M == Len(o)
           U == {k \in 1..N : w[k].id \notin IDs(o)}
<1>1. N \in Nat /\ DOMAIN w = 1..N /\ M \in Nat /\ DOMAIN o = 1..M /\ o \in Seq(Step)
  BY DEF Order
<1>2. U # {}
  <2> SUFFICES ASSUME \A k \in 1..N : w[k].id \in IDs(o)
               PROVE  FALSE
    OBVIOUS
  <2> DEFINE at == [k \in 1..N |-> IndexOf(o, w[k].id)]
  <2>1. ASSUME NEW k \in 1..N
        PROVE  at[k] \in 1..M /\ o[at[k]].id = w[k].id
    BY <1>1, Found, SMTT(60), Zenon
  <2>2. at \in [1..N -> 1..M]
    BY <2>1
  <2> HIDE DEF at
  <2>3. /\ IsFiniteSet(1..N) /\ Cardinality(1..N) = N /\ IsFiniteSet(1..M) /\ Cardinality(1..M) = M
    BY <1>1, UpTo
  <2>4. PICK x, y \in 1..N : x # y /\ at[x] = at[y]
    <3>1. Cardinality(1..M) < Cardinality(1..N)
      BY <2>3
    <3> HIDE DEF N, M
    <3> QED
      BY <2>2, <2>3, <3>1, FS_PigeonHole, Zenon
  <2>5. w[x].id = w[y].id
    BY <2>1, <2>4, SMTT(60), Zenon
  <2> QED
    BY <1>1, <2>4, <2>5 DEF Distinct
<1>3. PICK k \in U : \A m \in U : k <= m
  <2>1. U \subseteq Nat
    OBVIOUS
  <2> HIDE DEF U
  <2> QED
    BY <1>2, <2>1, LeastNumber, Zenon
<1>4. k \in 1..N /\ w[k].id \notin IDs(o) /\ \A j \in 1..(k - 1) : w[j].id \in IDs(o)
  <2>1. ASSUME NEW j \in 1..(k - 1)
        PROVE  w[j].id \in IDs(o)
    <3>1. j \in 1..N /\ ~(k <= j)
      BY <1>1
    <3> QED
      BY <1>3, <3>1
  <2> QED
    BY <2>1
<1> DEFINE id == w[k].id
<1>5. id \in IDs(w) /\ StepOf(w, id) = w[k]
  <2>1. id \in IDs(w)
    BY <1>1, <1>4 DEF IDs
  <2>2. IndexOf(w, id) \in DOMAIN w /\ w[IndexOf(w, id)].id = id /\ StepOf(w, id) = w[IndexOf(w, id)]
    BY <2>1, Found
  <2>3. IndexOf(w, id) = k
    BY <1>1, <1>4, <2>2, SMTT(60), Zenon DEF Distinct
  <2> QED
    BY <2>1, <2>2, <2>3
<1>6. w[k].deps \subseteq IDs(o)
  <2>1. w[k].deps \subseteq {w[j].id : j \in 1..(k - 1)}
    BY <1>1, <1>4 DEF DepsFirst
  <2> QED
    BY <1>4, <2>1
<1>7. id \in Placeable(w, IDs(o))
  BY <1>4, <1>5, <1>6 DEF Placeable
<1> QED
  BY <1>7

(* Steps whose dependencies come first can be sorted. *)
LEMMA SortSucceeds ==
    ASSUME NEW w \in Seq(Step), Distinct(w), DepsFirst(w), References(w) \subseteq IDs(w)
    PROVE  topoSortSteps(w).ok
<1> DEFINE N == Len(w)
<1>1. N \in Nat
  OBVIOUS
<1>2. PICK f : /\ Rounds(f, w)
               /\ topoSortSteps(w) =
                    IF References(w) \subseteq IDs(w) /\ Len(f[Len(w)]) = Len(w)
                    THEN [ok |-> TRUE, steps |-> f[Len(w)]]
                    ELSE [ok |-> FALSE, steps |-> << >>]
  BY TopoSortIs
<1>3. \A n \in 0..N : Order(w, f[n])
  BY <1>2, RoundsOrder
<1> DEFINE T == {n \in 0..N : Len(f[n]) = n}
<1>4. 0 \in T
  BY <1>1, <1>2 DEF Rounds
<1>5. ASSUME NEW n \in 1..N, n - 1 \in T
      PROVE  n \in T
  <2>1. n - 1 \in 0..N /\ n \in 0..N /\ Len(f[n - 1]) = n - 1 /\ n - 1 < N
    BY <1>1, <1>5
  <2>2. Order(w, f[n - 1]) /\ f[n] = Place(w, f[n - 1])
    BY <1>2, <1>3, <2>1 DEF Rounds
  <2>3. Placeable(w, IDs(f[n - 1])) # {}
    BY <2>1, <2>2, SomeReady, SMTT(60), Zenon
  <2>4. PICK x : x \in Step /\ f[n] = Append(f[n - 1], x)
    BY <2>2, <2>3, Placing
  <2>5. Len(f[n]) = n
    <3>1. f[n - 1] \in Seq(Step)
      BY <2>2 DEF Order
    <3> QED
      BY <2>1, <2>4, <3>1
  <2> QED
    BY <2>1, <2>5
<1>6. \A n \in 0..N : n \in T
  <2> HIDE DEF T, N
  <2> QED
    BY <1>1, <1>4, <1>5, BoundedInduction
<1>7. Len(f[N]) = N
  <2>1. N \in 0..N
    BY <1>1
  <2> QED
    BY <1>6, <2>1
<1> QED
  BY <1>2, <1>7

(* What is left of the steps when one is removed. *)
Left(steps, id) == FilterDeps(Without(steps, id), id)

LEMMA LeftIs ==
    ASSUME NEW steps, InOrder(steps), NEW id \in IDs(steps)
    PROVE  /\ Left(steps, id) \in Seq(Step)
           /\ Distinct(Left(steps, id)) /\ DepsFirst(Left(steps, id))
           /\ IDs(Left(steps, id)) = IDs(steps) \ {id}
           /\ (\A i \in DOMAIN steps : steps[i].parent # id)
                => References(Left(steps, id)) \subseteq IDs(Left(steps, id))
<1> DEFINE k == IndexOf(steps, id)
           N == Len(steps)
           w == Left(steps, id)
           From(j) == IF j < k THEN j ELSE j + 1
<1>1. steps \in Seq(Step) /\ DOMAIN steps = 1..N /\ N \in Nat /\ Distinct(steps) /\ DepsFirst(steps)
  BY DEF InOrder
<1>2. k \in 1..N /\ steps[k].id = id
  BY <1>1, Found
<1> HIDE DEF k, N
<1>3. \A j \in 1..(N - 1) : From(j) \in 1..N /\ From(j) # k
  BY <1>1, <1>2
<1>4. w = [j \in 1..(N - 1) |-> [steps[From(j)] EXCEPT !.deps = @ \ {id}]]
  <2>1. Without(steps, id) = [j \in 1..(N - 1) |-> steps[From(j)]]
    BY DEF Without, k, N
  <2> QED
    BY <2>1 DEF Left, FilterDeps
<1>5. ASSUME NEW j \in 1..(N - 1)
      PROVE  /\ w[j] \in Step /\ w[j].id = steps[From(j)].id
             /\ w[j].deps = steps[From(j)].deps \ {id} /\ w[j].parent = steps[From(j)].parent
  <2> DEFINE x == steps[From(j)]
  <2>1. x \in Step
    BY <1>1, <1>3
  <2>2. w[j] = [x EXCEPT !.deps = @ \ {id}]
    BY <1>4
  <2> HIDE DEF x
  <2>3. /\ w[j] \in Step /\ w[j].id = x.id /\ w[j].deps = x.deps \ {id} /\ w[j].parent = x.parent
    BY <2>1, <2>2 DEF Step
  <2> QED
    BY <2>3 DEF x
<1>6. w \in Seq(Step) /\ DOMAIN w = 1..(N - 1)
  <2>1. N - 1 \in Nat
    BY <1>1, <1>2
  <2>2. w \in [1..(N - 1) -> Step]
    BY <1>4, <1>5
  <2> HIDE DEF w
  <2> QED
    BY <2>1, <2>2
<1> HIDE DEF w
<1>7. \A i \in 1..N : i # k => \E j \in 1..(N - 1) : From(j) = i
  <2> SUFFICES ASSUME NEW i \in 1..N, i # k
               PROVE  \E j \in 1..(N - 1) : From(j) = i
    OBVIOUS
  <2>1. CASE i < k
    <3>1. i \in 1..(N - 1) /\ From(i) = i
      BY <1>1, <1>2, <2>1
    <3> QED
      BY <3>1
  <2>2. CASE i > k
    <3>1. i - 1 \in 1..(N - 1) /\ From(i - 1) = i
      BY <1>1, <1>2, <2>2
    <3> QED
      BY <3>1
  <2> QED
    BY <1>1, <1>2, <2>1, <2>2
<1>8. \A i, j \in 1..(N - 1) : i < j <=> From(i) < From(j)
  BY <1>1, <1>2
<1>9. \A i \in 1..N : i # k <=> steps[i].id # id
  BY <1>1, <1>2 DEF Distinct
<1>10. IDs(w) = IDs(steps) \ {id}
  <2>1. ASSUME NEW x \in IDs(w)
        PROVE  x \in IDs(steps) \ {id}
    <3>1. PICK j \in 1..(N - 1) : x = steps[From(j)].id
      BY <1>5, <1>6 DEF IDs
    <3> QED
      BY <1>1, <1>3, <1>9, <3>1, Zenon, SMTT(60) DEF IDs
  <2>2. ASSUME NEW x \in IDs(steps) \ {id}
        PROVE  x \in IDs(w)
    <3>1. PICK i \in 1..N : steps[i].id = x
      BY <1>1 DEF IDs
    <3>2. PICK j \in 1..(N - 1) : From(j) = i
      BY <1>7, <1>9, <3>1
    <3>3. w[j].id = x
      BY <1>5, <3>1, <3>2
    <3> QED
      BY <1>6, <3>3 DEF IDs
  <2> QED
    BY <2>1, <2>2
<1>11. Distinct(w)
  <2> SUFFICES ASSUME NEW i \in 1..(N - 1), NEW j \in 1..(N - 1), w[i].id = w[j].id
               PROVE  i = j
    BY <1>6, SMTT(60), Zenon DEF Distinct
  <2>1. From(i) = From(j)
    BY <1>1, <1>3, <1>5, SMTT(60), Zenon DEF Distinct
  <2> QED
    BY <1>2, <2>1
<1>12. DepsFirst(w)
  <2> SUFFICES ASSUME NEW i \in 1..(N - 1), NEW d \in w[i].deps
               PROVE  \E j \in 1..(i - 1) : w[j].id = d
    BY <1>6 DEF DepsFirst
  <2>1. d \in steps[From(i)].deps /\ d # id /\ From(i) \in 1..N
    BY <1>3, <1>5
  <2>2. PICK m \in 1..(From(i) - 1) : steps[m].id = d
    BY <1>1, <2>1, SMTT(60), Zenon DEF DepsFirst
  <2>3. m \in 1..N /\ m # k /\ m < From(i)
    BY <1>1, <1>2, <2>1, <2>2, SMTT(60), Zenon
  <2>4. PICK j \in 1..(N - 1) : From(j) = m
    BY <1>7, <2>3
  <2>5. j < i
    BY <1>8, <2>3, <2>4, SMTT(60), Zenon
  <2>6. j \in 1..(i - 1) /\ w[j].id = d
    BY <1>5, <2>2, <2>4, <2>5, SMTT(60), Zenon
  <2> QED
    BY <2>6
<1>13. ASSUME \A i \in DOMAIN steps : steps[i].parent # id
       PROVE  References(w) \subseteq IDs(w)
  <2>1. References(steps) \subseteq IDs(steps)
    <3>1. topoSortSteps(steps).ok
      BY DEF InOrder
    <3> QED
      BY <1>1, <3>1, SortReturns, SMTT(60), Zenon
  <2> SUFFICES ASSUME NEW r \in References(w)
               PROVE  r \in IDs(steps) \ {id}
    BY <1>10
  <2>2. PICK j \in 1..(N - 1) : r \in w[j].deps \cup ({w[j].parent} \ {NoStep})
    BY <1>6, SMTT(60), Zenon DEF References
  <2> DEFINE i == From(j)
  <2>3. i \in 1..N /\ r \in (steps[i].deps \ {id}) \cup ({steps[i].parent} \ {NoStep})
    BY <1>3, <1>5, <2>2, SMTT(60), Zenon
  <2> HIDE DEF i
  <2>4. r \in References(steps)
    BY <1>1, <2>3, SMTT(60), Zenon DEF References
  <2>5. r # id
    BY <1>1, <1>13, <2>3, SMTT(60), Zenon
  <2> QED
    BY <2>1, <2>4, <2>5, SMTT(60), Zenon
<1> QED
  BY <1>6, <1>10, <1>11, <1>12, <1>13 DEF w

(* No steps are in order, and a failing sort returns none. *)
LEMMA NoStepsInOrder ==
    /\ InOrder(<< >>) /\ IDs(<< >>) = {}
    /\ \A steps \in Seq(Step) : topoSortSteps(steps).ok \/ topoSortSteps(steps).steps = << >>
<1>1. ASSUME NEW steps \in Seq(Step)
      PROVE  topoSortSteps(steps).ok \/ topoSortSteps(steps).steps = << >>
  <2>1. PICK f : topoSortSteps(steps) =
                    IF References(steps) \subseteq IDs(steps) /\ Len(f[Len(steps)]) = Len(steps)
                    THEN [ok |-> TRUE, steps |-> f[Len(steps)]]
                    ELSE [ok |-> FALSE, steps |-> << >>]
    BY TopoSortIs
  <2> QED
    BY <2>1, SMTT(60), Zenon
<1>2. << >> \in Seq(Step) /\ DepsFirst(<< >>) /\ Distinct(<< >>) /\ IDs(<< >>) = {}
  BY DEF DepsFirst, Distinct, IDs
<1>3. References(<< >>) \subseteq IDs(<< >>)
  BY DEF References
<1>4. topoSortSteps(<< >>).ok
  BY <1>2, <1>3, SortSucceeds, Zenon
<1> DEFINE o == topoSortSteps(<< >>).steps
<1>5. /\ o \in Seq(Step) /\ Len(o) = 0 /\ topoSortSteps(<< >>) = [ok |-> TRUE, steps |-> o]
  <2>1. Len(<< >>) = 0
    OBVIOUS
  <2>2. Order(<< >>, o) /\ Len(o) = Len(<< >>) /\ topoSortSteps(<< >>) = [ok |-> TRUE, steps |-> o]
    BY <1>2, <1>4, SortReturns, Zenon
  <2> QED
    BY <2>1, <2>2 DEF Order
<1> HIDE DEF o
<1>6. o = << >>
  BY <1>5, SMTT(60), Zenon
<1> QED
  BY <1>1, <1>2, <1>5, <1>6, SMTT(60), Zenon DEF InOrder

-----------------------------------------------------------------------------
(* What the events do to a plan *)

(* A plan the planner can have: its steps are in order, and it has none      *)
(* before it is created.                                                     *)
SoundPlan(p) == p \in Plan /\ InOrder(p.steps) /\ (~p.created => p.steps = << >>)

(* The fields an action has. *)
LEMMA ActionFields ==
    ASSUME NEW e \in Actions
    PROVE  /\ e.name \in {"plan_created", "step_added", "step_removed", "step_status_changed",
                          "step_depends_on_changed", "step_parent_changed", "current_step_changed"}
           /\ e.name = "step_added" =>
                e.step \in [id: StepIDs, parent: StepIDs \cup {NoStep}, deps: SUBSET StepIDs, status: STRING]
           /\ e.name = "step_depends_on_changed" => e.deps \in SUBSET StepIDs
           /\ e.name = "step_parent_changed" => e.parent \in StepIDs \cup {NoStep}
           /\ e.name = "current_step_changed" => e.id \in StepIDs \cup {NoStep}
<1>1. CASE e \in [name: {"plan_created"}]
  BY <1>1
<1>2. CASE e \in [name: {"step_added"},
                  step: [id: StepIDs, parent: StepIDs \cup {NoStep}, deps: SUBSET StepIDs, status: STRING]]
  BY <1>2
<1>3. CASE e \in [name: {"step_removed"}, id: StepIDs]
  BY <1>3
<1>4. CASE e \in [name: {"step_status_changed"}, id: StepIDs, status: STRING]
  BY <1>4
<1>5. CASE e \in [name: {"step_depends_on_changed"}, id: StepIDs, deps: SUBSET StepIDs]
  BY <1>5
<1>6. CASE e \in [name: {"step_parent_changed"}, id: StepIDs, parent: StepIDs \cup {NoStep}]
  BY <1>6
<1>7. CASE e \in [name: {"current_step_changed"}, id: StepIDs \cup {NoStep}]
  BY <1>7, SMTT(60), Zenon
<1> QED
  BY <1>1, <1>2, <1>3, <1>4, <1>5, <1>6, <1>7, SMTT(60), Zenon DEF Actions

(* The events buildActionEvent builds: their statuses are valid. *)
ValidEvent(e) ==
    /\ e \in Actions
    /\ e.name = "step_added" => e.step \in Step
    /\ e.name = "step_status_changed" => e.status \in Statuses

(* applyEventTo, event by event. *)
LEMMA ApplyIs ==
    ASSUME NEW p, NEW e
    PROVE  LET r == applyEventTo(p, e) IN
           /\ e.name = "plan_created" => r = Accepted([created |-> TRUE, current |-> NoStep, steps |-> << >>])
           /\ (e.name # "plan_created" /\ ~p.created) => r = Rejected(p)
           /\ (p.created /\ e.name = "step_added") =>
                r = IF e.step.status \in Statuses /\ e.step.id \notin IDs(p.steps)
                    THEN Sorted(p, Append(p.steps, e.step)) ELSE Rejected(p)
           /\ (p.created /\ e.name = "current_step_changed") =>
                r = IF e.id \in IDs(p.steps) \cup {NoStep} THEN Accepted([p EXCEPT !.current = e.id])
                    ELSE Rejected(p)
           /\ (p.created /\ e.name = "step_removed") =>
                r = IF e.id \in IDs(p.steps) THEN Accepted(RemoveStep(p, e.id)) ELSE Rejected(p)
           /\ (p.created /\ e.name = "step_status_changed") =>
                r = IF e.id \in IDs(p.steps) /\ e.status \in Statuses
                    THEN Accepted([p EXCEPT !.steps = WithStatus(@, e.id, e.status)]) ELSE Rejected(p)
           /\ (p.created /\ e.name = "step_depends_on_changed") =>
                r = IF e.id \in IDs(p.steps) THEN Sorted(p, WithDeps(p.steps, e.id, e.deps)) ELSE Rejected(p)
           /\ (p.created /\ e.name = "step_parent_changed") =>
                r = IF e.id \in IDs(p.steps) THEN Sorted(p, WithParent(p.steps, e.id, e.parent)) ELSE Rejected(p)
BY SMTT(60), Zenon DEF applyEventTo

(* A plan whose steps were sorted. *)
LEMMA SortedSound ==
    ASSUME NEW p, SoundPlan(p), p.created, NEW steps \in Seq(Step), Sorted(p, steps).ok
    PROVE  /\ topoSortSteps(steps).ok
           /\ SoundPlan(Sorted(p, steps).plan)
           /\ Sorted(p, steps) = Accepted(Sorted(p, steps).plan)
           /\ Sorted(p, steps).plan.created /\ Sorted(p, steps).plan.current = p.current
           /\ IDs(Sorted(p, steps).plan.steps) = IDs(steps)
<1> DEFINE o == topoSortSteps(steps).steps
           q == [p EXCEPT !.steps = o]
<1>1. topoSortSteps(steps).ok /\ Sorted(p, steps) = Accepted(q)
  BY DEF Sorted, Accepted, Rejected
<1>2. InOrder(o) /\ IDs(o) = IDs(steps)
  BY <1>1, SortedInOrder, SortReturns, SMTT(60), Zenon
<1> HIDE DEF o
<1>3. o \in Seq(Step) /\ p \in Plan
  BY <1>2 DEF InOrder, SoundPlan
<1>4. q \in Plan /\ q.steps = o /\ q.created = p.created /\ q.current = p.current
  BY <1>3, Zenon DEF Plan
<1>5. SoundPlan(q)
  BY <1>2, <1>4 DEF SoundPlan
<1> HIDE DEF q
<1>6. Sorted(p, steps).plan = q
  BY <1>1, SMTT(60), Zenon DEF Accepted
<1> QED
  BY <1>1, <1>2, <1>4, <1>5, <1>6, Zenon

(* Removing a step, whether or not the sort succeeds. *)
LEMMA RemovalSound ==
    ASSUME NEW p, SoundPlan(p), p.created, NEW id \in IDs(p.steps)
    PROVE  LET q == RemoveStep(p, id) IN
           /\ SoundPlan(q) /\ q.created
           /\ (\A i \in DOMAIN p.steps : p.steps[i].parent # id) =>
                /\ IDs(q.steps) = IDs(p.steps) \ {id}
                /\ CurrentExists(p) => CurrentExists(q)
<1> DEFINE w == Left(p.steps, id)
           o == topoSortSteps(w).steps
           c == IF p.current = id THEN NoStep ELSE p.current
           q == [p EXCEPT !.steps = o, !.current = c]
<1>1. p \in Plan /\ InOrder(p.steps)
  BY DEF SoundPlan
<1>2. /\ w \in Seq(Step) /\ Distinct(w) /\ DepsFirst(w) /\ IDs(w) = IDs(p.steps) \ {id}
      /\ (\A i \in DOMAIN p.steps : p.steps[i].parent # id) => References(w) \subseteq IDs(w)
  BY <1>1, LeftIs
<1>3. RemoveStep(p, id) = q
  BY SMTT(60), Zenon DEF RemoveStep, Left
<1> HIDE DEF w
<1>4. InOrder(o)
  BY <1>2, SortedInOrder, NoStepsInOrder, SMTT(60), Zenon
<1>5. topoSortSteps(w).ok => IDs(o) = IDs(w)
  BY <1>2, SortReturns, SMTT(60), Zenon
<1> HIDE DEF o
<1>6. o \in Seq(Step) /\ p.current \in StepIDs \cup {NoStep}
  BY <1>1, <1>4 DEF InOrder, Plan
<1>7. q \in Plan /\ q.steps = o /\ q.created = p.created /\ q.current = c
  BY <1>1, <1>6, Zenon DEF Plan
<1> HIDE DEF q
<1>8. SoundPlan(q)
  BY <1>4, <1>7, SMTT(60), Zenon DEF SoundPlan
<1>9. ASSUME \A i \in DOMAIN p.steps : p.steps[i].parent # id
      PROVE  IDs(q.steps) = IDs(p.steps) \ {id} /\ (CurrentExists(p) => CurrentExists(q))
  <2>1. topoSortSteps(w).ok
    BY <1>2, <1>9, SortSucceeds, SMTT(60), Zenon
  <2>2. IDs(q.steps) = IDs(p.steps) \ {id}
    BY <1>2, <1>5, <1>7, <2>1, Zenon, SMTT(60)
  <2> QED
    BY <1>7, <2>2 DEF CurrentExists
<1> QED
  BY <1>3, <1>7, <1>8, <1>9, SMTT(60), Zenon

(* An event that a plan accepts leaves it sound, also an event that was      *)
(* built for another plan.                                                   *)
LEMMA AppliedSound ==
    ASSUME NEW p, SoundPlan(p), NEW e, ValidEvent(e), applyEventTo(p, e).ok
    PROVE  LET q == applyEventTo(p, e).plan IN
           applyEventTo(p, e) = Accepted(q) /\ SoundPlan(q) /\ q.created
<1> DEFINE r == applyEventTo(p, e)
<1>1. p \in Plan /\ p.steps \in Seq(Step) /\ InOrder(p.steps) /\ p.created \in BOOLEAN
  BY DEF SoundPlan, InOrder, Plan
<1>2. r # Rejected(p) /\ \A x : Accepted(x).ok /\ Accepted(x).plan = x
  BY SMTT(60), Zenon DEF Rejected, Accepted
<1>3. CASE e.name = "plan_created"
  <2> DEFINE q == [created |-> TRUE, current |-> NoStep, steps |-> << >>]
  <2>1. r = Accepted(q)
    BY <1>3, ApplyIs, Zenon
  <2>2. q \in Plan /\ q.steps = << >> /\ q.created
    <3>1. << >> \in Seq(Step) /\ NoStep \in StepIDs \cup {NoStep}
      BY SMTT(60), Zenon
    <3> QED
      BY <3>1 DEF Plan
  <2>3. SoundPlan(q)
    BY <2>2, NoStepsInOrder DEF SoundPlan
  <2> HIDE DEF q
  <2> QED
    BY <1>2, <2>1, <2>2, <2>3, SMTT(60), Zenon
<1>4. CASE e.name # "plan_created" /\ ~p.created
  BY <1>2, <1>4, ApplyIs, Zenon
<1>5. CASE p.created /\ e.name = "step_added"
  <2>1. r = Sorted(p, Append(p.steps, e.step))
    BY <1>2, <1>5, ApplyIs, Zenon
  <2>2. Append(p.steps, e.step) \in Seq(Step)
    BY <1>1, <1>5, SMTT(60), Zenon DEF ValidEvent
  <2> QED
    BY <1>5, <2>1, <2>2, SortedSound, Zenon
<1>6. CASE p.created /\ e.name = "current_step_changed"
  <2> DEFINE q == [p EXCEPT !.current = e.id]
  <2>1. r = Accepted(q)
    BY <1>2, <1>6, ApplyIs, ZenonT(60), SMTT(60)
  <2>2. e.id \in StepIDs \cup {NoStep}
    BY <1>6, ActionFields, SMTT(60), Zenon DEF ValidEvent
  <2>3. q \in Plan /\ q.steps = p.steps /\ q.created
    BY <1>1, <1>6, <2>2, SMTT(60), Zenon DEF Plan
  <2>4. SoundPlan(q)
    BY <1>1, <2>3, SMTT(60), Zenon DEF SoundPlan
  <2> HIDE DEF q
  <2> QED
    BY <1>2, <2>1, <2>3, <2>4, SMTT(60), Zenon
<1>7. CASE p.created /\ e.name = "step_removed"
  <2>1. e.id \in IDs(p.steps) /\ r = Accepted(RemoveStep(p, e.id))
    BY <1>2, <1>7, ApplyIs, ZenonT(60), SMTT(60)
  <2>2. SoundPlan(RemoveStep(p, e.id)) /\ RemoveStep(p, e.id).created
    BY <1>7, <2>1, RemovalSound, SMTT(60), Zenon
  <2> QED
    BY <1>2, <2>1, <2>2
<1>8. CASE p.created /\ e.name = "step_status_changed"
  <2> DEFINE q == [p EXCEPT !.steps = WithStatus(@, e.id, e.status)]
  <2>1. e.id \in IDs(p.steps) /\ r = Accepted(q)
    BY <1>2, <1>8, ApplyIs, Zenon
  <2>2. e.status \in Statuses
    BY <1>8 DEF ValidEvent
  <2>3. InOrder(WithStatus(p.steps, e.id, e.status))
    BY <1>1, <2>1, <2>2, StatusKeepsOrder, SMTT(60), Zenon
  <2>4. WithStatus(p.steps, e.id, e.status) \in Seq(Step)
    BY <2>3 DEF InOrder
  <2>5. q \in Plan /\ q.steps = WithStatus(p.steps, e.id, e.status) /\ q.created
    BY <1>1, <1>8, <2>4, SMTT(60), Zenon DEF Plan
  <2>6. SoundPlan(q)
    BY <2>3, <2>5, Zenon, SMTT(60) DEF SoundPlan
  <2> HIDE DEF q
  <2> QED
    BY <1>2, <2>1, <2>5, <2>6, SMTT(60), Zenon
<1>9. CASE p.created /\ e.name = "step_depends_on_changed"
  <2>1. e.id \in IDs(p.steps) /\ r = Sorted(p, WithDeps(p.steps, e.id, e.deps))
    BY <1>2, <1>9, ApplyIs, ZenonT(60), SMTT(60)
  <2>2. e.deps \in SUBSET StepIDs
    BY <1>9, ActionFields, Zenon, SMTT(60) DEF ValidEvent
  <2>3. WithDeps(p.steps, e.id, e.deps) \in Seq(Step)
    BY <1>1, <2>1, <2>2, StepReplaced, Zenon, SMTT(60)
  <2> QED
    BY <1>9, <2>1, <2>3, SortedSound, SMTT(60), Zenon
<1>10. CASE p.created /\ e.name = "step_parent_changed"
  <2>1. e.id \in IDs(p.steps) /\ r = Sorted(p, WithParent(p.steps, e.id, e.parent))
    BY <1>2, <1>10, ApplyIs, ZenonT(60), SMTT(60)
  <2>2. e.parent \in StepIDs \cup {NoStep}
    BY <1>10, ActionFields, SMTT(60), Zenon DEF ValidEvent
  <2>3. WithParent(p.steps, e.id, e.parent) \in Seq(Step)
    BY <1>1, <2>1, <2>2, StepReplaced, Zenon, SMTT(60)
  <2> QED
    BY <1>10, <2>1, <2>3, SortedSound, SMTT(60), Zenon
<1>11. e.name \in {"plan_created", "step_added", "step_removed", "step_status_changed",
                   "step_depends_on_changed", "step_parent_changed", "current_step_changed"}
  BY ActionFields, SMTT(60), Zenon DEF ValidEvent
<1> QED
  BY <1>1, <1>3, <1>4, <1>5, <1>6, <1>7, <1>8, <1>9, <1>10, <1>11, Zenon, SMTT(60)

(* The event of an action that is granted is accepted. The current step      *)
(* still exists, and no step leaves but the one a removal names.             *)
LEMMA GrantedApplies ==
    ASSUME NEW p, SoundPlan(p), NEW e \in Actions, buildActionEvent(p, e)
    PROVE  /\ ValidEvent(e) /\ applyEventTo(p, e).ok
           /\ CurrentExists(p) => CurrentExists(applyEventTo(p, e).plan)
           /\ \A id \in IDs(p.steps) \ IDs(applyEventTo(p, e).plan.steps) :
                e.name = "step_removed" /\ e.id = id
<1> DEFINE r == applyEventTo(p, e)
<1>1. p \in Plan /\ p.steps \in Seq(Step) /\ InOrder(p.steps) /\ p.created \in BOOLEAN
  BY DEF SoundPlan, InOrder, Plan
<1>2. \A x : Accepted(x).ok /\ Accepted(x).plan = x
  BY DEF Accepted
<1>3. ASSUME NEW steps, topoSortSteps(steps).ok
      PROVE  Sorted(p, steps).ok
  BY <1>3, Zenon, SMTT(60) DEF Sorted, Accepted
<1>4. CASE e.name = "plan_created"
  <2> DEFINE q == [created |-> TRUE, current |-> NoStep, steps |-> << >>]
  <2>1. r = Accepted(q) /\ p.steps = << >>
    BY <1>4, ApplyIs, Zenon DEF buildActionEvent, SoundPlan
  <2>2. q.steps = << >> /\ q.current = NoStep
    OBVIOUS
  <2> HIDE DEF q
  <2>3. r.ok /\ r.plan = q /\ IDs(p.steps) = {}
    BY <1>2, <2>1, NoStepsInOrder, SMTT(60), Zenon
  <2> QED
    BY <1>4, <2>2, <2>3, SMTT(60), Zenon DEF CurrentExists, ValidEvent
<1>5. CASE e.name # "plan_created"
  <2>0. p.created
    BY <1>5, Zenon, SMTT(60) DEF buildActionEvent
  <2>1. CASE e.name = "step_added"
    <3>1. AddStepGranted(p, e.step)
      BY <2>1, SMTT(60), Zenon DEF buildActionEvent
    <3>2. e.step \in Step
      <4>1. e.step \in [id: StepIDs, parent: StepIDs \cup {NoStep}, deps: SUBSET StepIDs, status: STRING]
        BY <2>1, ActionFields, SMTT(60), Zenon
      <4>2. e.step.status \in Statuses
        BY <3>1 DEF AddStepGranted
      <4> QED
        BY <4>1, <4>2, SMTT(60), Zenon DEF Step
    <3> DEFINE w == Append(p.steps, e.step)
    <3>3. r = Sorted(p, w) /\ topoSortSteps(w).ok
      BY <2>0, <2>1, <3>1, ApplyIs, Zenon DEF AddStepGranted
    <3>4. w \in Seq(Step) /\ IDs(p.steps) \subseteq IDs(w)
      <4> DEFINE st == e.step
                 n == Len(p.steps)
      <4>1. st \in Step /\ w = Append(p.steps, st)
        BY <3>2, SMTT(60), Zenon
      <4> HIDE DEF w, st
      <4>2. w \in Seq(Step) /\ n \in Nat /\ Len(w) = n + 1 /\ \A i \in 1..n : w[i] = p.steps[i]
        BY <1>1, <4>1, SMTT(60), Zenon
      <4>3. DOMAIN w = 1..(n + 1) /\ DOMAIN p.steps = 1..n
        BY <1>1, <4>2, SMTT(60), Zenon
      <4>4. \A i \in 1..n : i \in DOMAIN w
        BY <4>2, <4>3
      <4> QED
        BY <4>2, <4>3, <4>4, SMTT(60), Zenon DEF IDs
    <3> HIDE DEF w
    <3>5. r.ok
      BY <1>3, <3>3, SMTT(60), Zenon
    <3>6. r.plan.current = p.current /\ IDs(r.plan.steps) = IDs(w)
      BY <2>0, <3>3, <3>4, <3>5, SortedSound, SMTT(60), Zenon
    <3> QED
      BY <2>1, <3>2, <3>4, <3>5, <3>6, SMTT(60), Zenon DEF CurrentExists, ValidEvent
  <2>2. CASE e.name = "step_removed"
    <3>1. e.id \in IDs(p.steps) /\ \A i \in DOMAIN p.steps : p.steps[i].parent # e.id
      BY <2>2 DEF buildActionEvent, RemoveStepGranted
    <3>2. r = Accepted(RemoveStep(p, e.id))
      BY <2>0, <2>2, <3>1, ApplyIs, ZenonT(60), SMTT(60)
    <3> DEFINE q == RemoveStep(p, e.id)
    <3>3. IDs(q.steps) = IDs(p.steps) \ {e.id} /\ (CurrentExists(p) => CurrentExists(q))
      BY <2>0, <3>1, RemovalSound, SMTT(60), Zenon
    <3> HIDE DEF q
    <3>4. r.ok /\ r.plan = q
      BY <1>2, <3>2, Zenon, SMTT(60) DEF q
    <3> QED
      BY <2>2, <3>3, <3>4, SMTT(60), Zenon DEF ValidEvent
  <2>3. CASE e.name = "step_status_changed"
    <3>1. e.id \in IDs(p.steps) /\ e.status \in Statuses
      BY <2>3 DEF buildActionEvent
    <3> DEFINE q == [p EXCEPT !.steps = WithStatus(@, e.id, e.status)]
    <3>2. r = Accepted(q)
      BY <2>0, <2>3, <3>1, ApplyIs, Zenon
    <3>3. q.current = p.current /\ q.steps = WithStatus(p.steps, e.id, e.status)
      BY <1>1, SMTT(60), Zenon DEF Plan
    <3>4. IDs(WithStatus(p.steps, e.id, e.status)) = IDs(p.steps)
      BY <1>1, <3>1, StepReplaced, SMTT(60), Zenon
    <3> HIDE DEF q
    <3>5. r.ok /\ r.plan = q
      BY <1>2, <3>2, Zenon, SMTT(60)
    <3> QED
      BY <2>3, <3>1, <3>3, <3>4, <3>5, SMTT(60), Zenon DEF CurrentExists, ValidEvent
  <2>4. CASE e.name = "step_depends_on_changed"
    <3> DEFINE w == WithDeps(p.steps, e.id, e.deps)
    <3>1. e.id \in IDs(p.steps) /\ topoSortSteps(w).ok
      BY <2>4 DEF buildActionEvent, DependsOnGranted
    <3>2. r = Sorted(p, w)
      BY <2>0, <2>4, <3>1, ApplyIs, ZenonT(60), SMTT(60)
    <3>3. e.deps \in SUBSET StepIDs
      BY <2>4, ActionFields, Zenon, SMTT(60)
    <3>4. w \in Seq(Step) /\ IDs(w) = IDs(p.steps)
      BY <1>1, <3>1, <3>3, StepReplaced, SMTT(60), Zenon
    <3> HIDE DEF w
    <3>5. r.ok
      BY <1>3, <3>1, <3>2, Zenon, SMTT(60)
    <3>6. r.plan.current = p.current /\ IDs(r.plan.steps) = IDs(w)
      BY <2>0, <3>2, <3>4, <3>5, SortedSound, SMTT(60), Zenon
    <3> QED
      BY <2>4, <3>4, <3>5, <3>6, SMTT(60), Zenon DEF CurrentExists, ValidEvent
  <2>5. CASE e.name = "step_parent_changed"
    <3> DEFINE w == WithParent(p.steps, e.id, e.parent)
    <3>1. e.id \in IDs(p.steps) /\ topoSortSteps(w).ok
      BY <2>5 DEF buildActionEvent, ParentGranted
    <3>2. r = Sorted(p, w)
      BY <2>0, <2>5, <3>1, ApplyIs, Zenon
    <3>3. e.parent \in StepIDs \cup {NoStep}
      BY <2>5, ActionFields, SMTT(60), Zenon
    <3>4. w \in Seq(Step) /\ IDs(w) = IDs(p.steps)
      BY <1>1, <3>1, <3>3, StepReplaced, Zenon, SMTT(60)
    <3> HIDE DEF w
    <3>5. r.ok
      BY <1>3, <3>1, <3>2
    <3>6. r.plan.current = p.current /\ IDs(r.plan.steps) = IDs(w)
      BY <2>0, <3>2, <3>4, <3>5, SortedSound
    <3> QED
      BY <2>5, <3>4, <3>5, <3>6, SMTT(60), Zenon DEF CurrentExists, ValidEvent
  <2>6. CASE e.name = "current_step_changed"
    <3> DEFINE q == [p EXCEPT !.current = e.id]
    <3>1. e.id \in IDs(p.steps) \cup {NoStep}
      BY <2>6 DEF buildActionEvent
    <3>2. r = Accepted(q)
      BY <2>0, <2>6, <3>1, ApplyIs, Zenon
    <3>3. q.current = e.id /\ q.steps = p.steps
      BY <1>1, SMTT(60), Zenon DEF Plan
    <3> HIDE DEF q
    <3>4. r.ok /\ r.plan = q
      BY <1>2, <3>2
    <3> QED
      BY <2>6, <3>1, <3>3, <3>4, SMTT(60), Zenon DEF CurrentExists, ValidEvent
  <2>7. e.name \in {"plan_created", "step_added", "step_removed", "step_status_changed",
                    "step_depends_on_changed", "step_parent_changed", "current_step_changed"}
    BY ActionFields, SMTT(60), Zenon
  <2> QED
    BY <1>5, <2>1, <2>2, <2>3, <2>4, <2>5, <2>6, <2>7, SMTT(60), Zenon
<1> QED
  BY <1>4, <1>5, Zenon, SMTT(60)

-----------------------------------------------------------------------------
(* Batches *)

SoundPlans == {p \in Plan : SoundPlan(p)}
ValidEvents == {e \in Actions : ValidEvent(e)}

(* The event e is granted on plan p and makes it q. *)
Grants(p, e, q) == buildActionEvent(p, e) /\ applyEventTo(p, e) = Accepted(q)

(* The events es, each granted on the plan the earlier ones left, make p q. *)
Trail(r, p, es, q) ==
    /\ r[0] = p /\ r[Len(es)] = q
    /\ \A n \in 1..Len(es) : Grants(r[n - 1], es[n], r[n])
Leads(p, es, q) == \E r : Trail(r, p, es, q)

(* An event is accepted or leaves the plan alone. *)
LEMMA ApplyDecides ==
    ASSUME NEW p, SoundPlan(p), NEW e \in Actions
    PROVE  applyEventTo(p, e) = Rejected(p) \/ applyEventTo(p, e) = Accepted(applyEventTo(p, e).plan)
<1>1. p.created \in BOOLEAN
  BY DEF SoundPlan, Plan
<1>2. e.name \in {"plan_created", "step_added", "step_removed", "step_status_changed",
                  "step_depends_on_changed", "step_parent_changed", "current_step_changed"}
  BY ActionFields
<1>3. \A x : Accepted(x).plan = x
  BY DEF Accepted
<1>4. \A steps : Sorted(p, steps) = Rejected(p) \/ \E x : Sorted(p, steps) = Accepted(x)
  BY SMTT(60), Zenon DEF Sorted
<1>5. applyEventTo(p, e) = Rejected(p) \/ \E x : applyEventTo(p, e) = Accepted(x)
  <2>1. CASE e.name = "plan_created"
    <3>1. applyEventTo(p, e) = Accepted([created |-> TRUE, current |-> NoStep, steps |-> << >>])
      BY <2>1, ApplyIs, Zenon
    <3> QED
      BY <3>1
  <2>2. CASE ~p.created /\ e.name # "plan_created"
    BY <2>2, ApplyIs, Zenon
  <2>3. CASE p.created /\ e.name = "step_added"
    <3>1. applyEventTo(p, e) = Rejected(p) \/ applyEventTo(p, e) = Sorted(p, Append(p.steps, e.step))
      BY <2>3, ApplyIs, Zenon
    <3> QED
      BY <1>4, <3>1, SMTT(60), Zenon
  <2>4. CASE p.created /\ e.name = "step_removed"
    <3>1. applyEventTo(p, e) = Rejected(p) \/ applyEventTo(p, e) = Accepted(RemoveStep(p, e.id))
      BY <2>4, ApplyIs, Zenon
    <3> QED
      BY <3>1
  <2>5. CASE p.created /\ e.name = "step_status_changed"
    <3>1. applyEventTo(p, e) = Rejected(p) \/ applyEventTo(p, e) = Accepted([p EXCEPT !.steps = WithStatus(@, e.id, e.status)])
      BY <2>5, ApplyIs, Zenon
    <3> QED
      BY <3>1
  <2>6. CASE p.created /\ e.name = "step_depends_on_changed"
    <3>1. applyEventTo(p, e) = Rejected(p) \/ applyEventTo(p, e) = Sorted(p, WithDeps(p.steps, e.id, e.deps))
      BY <2>6, ApplyIs, Zenon
    <3> QED
      BY <1>4, <3>1
  <2>7. CASE p.created /\ e.name = "step_parent_changed"
    <3>1. applyEventTo(p, e) = Rejected(p) \/ applyEventTo(p, e) = Sorted(p, WithParent(p.steps, e.id, e.parent))
      BY <2>7, ApplyIs, Zenon
    <3> QED
      BY <1>4, <3>1
  <2>8. CASE p.created /\ e.name = "current_step_changed"
    <3>1. applyEventTo(p, e) = Rejected(p) \/ applyEventTo(p, e) = Accepted([p EXCEPT !.current = e.id])
      BY <2>8, ApplyIs, Zenon
    <3> QED
      BY <3>1
  <2> QED
    BY <1>1, <1>2, <2>1, <2>2, <2>3, <2>4, <2>5, <2>6, <2>7, <2>8, Zenon, SMTT(60)
<1> QED
  BY <1>3, <1>5

(* What an event makes of a sound plan, accepted or not. *)
LEMMA ApplyTotal ==
    ASSUME NEW p, SoundPlan(p), NEW e, ValidEvent(e)
    PROVE  LET a == applyEventTo(p, e) IN a \in [ok: BOOLEAN, plan: SoundPlans]
<1>1. CASE applyEventTo(p, e) = Rejected(p)
  <2>1. p \in SoundPlans
    BY DEF SoundPlans, SoundPlan
  <2> QED
    BY <1>1, <2>1 DEF Rejected
<1>2. CASE applyEventTo(p, e) = Accepted(applyEventTo(p, e).plan)
  <2>1. applyEventTo(p, e).ok
    BY <1>2 DEF Accepted
  <2>2. SoundPlan(applyEventTo(p, e).plan)
    BY <2>1, AppliedSound, SMTT(60), Zenon
  <2> DEFINE q == applyEventTo(p, e).plan
  <2>3. q \in SoundPlans /\ applyEventTo(p, e) = [ok |-> TRUE, plan |-> q]
    BY <1>2, <2>2, SMTT(60), Zenon DEF SoundPlans, SoundPlan, Accepted
  <2> HIDE DEF q
  <2> QED
    BY <2>3
<1> QED
  BY <1>1, <1>2, ApplyDecides, SMTT(60), Zenon DEF ValidEvent

(* A step of a trail. *)
LEMMA GrantsKeep ==
    ASSUME NEW p, SoundPlan(p), NEW e \in Actions, NEW q, Grants(p, e, q)
    PROVE  /\ SoundPlan(q) /\ ValidEvent(e)
           /\ CurrentExists(p) => CurrentExists(q)
           /\ \A id \in IDs(p.steps) \ IDs(q.steps) : e.name = "step_removed" /\ e.id = id
<1>1. applyEventTo(p, e).plan = q
  BY DEF Grants, Accepted
<1>2. ValidEvent(e) /\ applyEventTo(p, e).ok
  BY GrantedApplies, SMTT(60), Zenon DEF Grants
<1>3. SoundPlan(q)
  BY <1>1, <1>2, AppliedSound, SMTT(60), Zenon
<1> QED
  BY <1>1, <1>2, <1>3, GrantedApplies, SMTT(60), Zenon DEF Grants

(* One action on a draft. *)
LEMMA DraftStepIs ==
    ASSUME NEW d \in [ok: BOOLEAN, plan: SoundPlans], NEW a \in Actions
    PROVE  /\ DraftStep(d, a) \in [ok: BOOLEAN, plan: SoundPlans]
           /\ DraftStep(d, a).ok => d.ok /\ Grants(d.plan, a, DraftStep(d, a).plan)
<1>1. SoundPlan(d.plan) /\ d.plan \in SoundPlans
  BY SMTT(60), Zenon DEF SoundPlans
<1>2. CASE d.ok /\ buildActionEvent(d.plan, a)
  <2>1. DraftStep(d, a) = applyEventTo(d.plan, a)
    BY <1>2 DEF DraftStep
  <2>2. ValidEvent(a) /\ applyEventTo(d.plan, a).ok
    BY <1>1, <1>2, GrantedApplies, SMTT(60), Zenon
  <2>3. applyEventTo(d.plan, a) = Accepted(applyEventTo(d.plan, a).plan)
    BY <1>1, <2>2, AppliedSound, SMTT(60), Zenon
  <2>4. applyEventTo(d.plan, a) \in [ok: BOOLEAN, plan: SoundPlans]
    BY <1>1, <2>2, ApplyTotal, SMTT(60), Zenon
  <2> QED
    BY <1>2, <2>1, <2>3, <2>4, SMTT(60), Zenon DEF Grants
<1>3. CASE ~(d.ok /\ buildActionEvent(d.plan, a))
  <2>1. DraftStep(d, a) = Rejected(d.plan)
    BY <1>3, SMTT(60), Zenon DEF DraftStep
  <2> QED
    BY <1>1, <2>1, SMTT(60), Zenon DEF Rejected
<1> QED
  BY <1>2, <1>3, SMTT(60), Zenon

(* A batch ApplyActions accepts leads somewhere. *)
LEMMA DraftLeads ==
    ASSUME NEW p, SoundPlan(p), NEW es \in Seq(Actions), Draft(p, es).ok
    PROVE  \E q : Leads(p, es, q)
<1> DEFINE N == Len(es)
           V == [ok: BOOLEAN, plan: SoundPlans]
           g == [x \in V \X (1..N) |-> DraftStep(x[1], es[x[2]])]
           Loop(f) == f = [n \in 0..N |-> IF n = 0 THEN Accepted(p) ELSE DraftStep(f[n - 1], es[n])]
           f == CHOOSE f : Loop(f)
<1>1. N \in Nat /\ \A n \in 1..N : es[n] \in Actions
  BY SMTT(60), Zenon
<1>2. Accepted(p) \in V
  BY SMTT(60), Zenon DEF Accepted, SoundPlans, SoundPlan
<1>3. \A d \in V, n \in 1..N : DraftStep(d, es[n]) \in V
  BY <1>1, DraftStepIs, SMTT(60), Zenon
<1> HIDE DEF V
<1>4. g \in [V \X (1..N) -> V] /\ \A d \in V, n \in 1..N : g[<< d, n >>] = DraftStep(d, es[n])
  BY <1>3
<1> HIDE DEF g
<1>5. IsLoop(V, N, Accepted(p), g)
  BY <1>1, <1>2, <1>4, SMTT(60), Zenon DEF IsLoop
<1>6. PICK h : Runs(h, V, N, Accepted(p), g)
  BY <1>5, LoopExists, SMTT(60), Zenon
<1>7. /\ h \in [0..N -> V] /\ h[0] = Accepted(p)
      /\ \A n \in 1..N : h[n] = g[<<h[n - 1], n>>]
  BY <1>6, SMTT(60), Zenon DEF Runs
<1>8. \A n \in 0..N : h[n] = IF n = 0 THEN Accepted(p) ELSE DraftStep(h[n - 1], es[n])
  <2> SUFFICES ASSUME NEW n \in 0..N, n # 0
               PROVE  h[n] = DraftStep(h[n - 1], es[n])
    BY <1>7, SMTT(60), Zenon
  <2>1. n \in 1..N /\ n - 1 \in 0..N
    BY <1>1
  <2> QED
    BY <1>4, <1>7, <2>1, ZenonT(60), SMTT(60)
<1>9. Loop(h)
  <2>1. h = [n \in 0..N |-> h[n]]
    BY <1>7, SMTT(60), Zenon
  <2> QED
    BY <1>8, <2>1, ZenonT(60), SMTT(60)
<1>10. Loop(f)
  <2> HIDE DEF Loop
  <2> QED
    BY <1>9, SMTT(60), Zenon
<1>11. Draft(p, es) = f[N]
  BY DEF Draft
<1> HIDE DEF f
<1>12. f[0] = Accepted(p) /\ \A n \in 1..N : f[n] = DraftStep(f[n - 1], es[n])
  <2>1. 0 \in 0..N /\ \A n \in 1..N : n \in 0..N /\ n # 0
    BY <1>1
  <2> QED
    BY <1>10, <2>1
<1>13. \A n \in 0..N : f[n] \in V
  <2> DEFINE T == {n \in 0..N : f[n] \in V}
  <2>1. 0 \in T
    BY <1>1, <1>2, <1>12, SMTT(60), Zenon
  <2>2. ASSUME NEW n \in 1..N, n - 1 \in T
        PROVE  n \in T
    BY <1>1, <1>3, <1>12, <2>2, SMTT(60), Zenon
  <2>3. \A n \in 0..N : n \in T
    <3> HIDE DEF T, N
    <3> QED
      BY <1>1, <2>1, <2>2, BoundedInduction, Zenon
  <2> QED
    BY <2>3
<1>14. \A n \in 0..N : f[N - n].ok
  <2> DEFINE T == {n \in 0..N : f[N - n].ok}
  <2>1. 0 \in T
    <3>1. N - 0 = N /\ 0 \in 0..N
      BY <1>1
    <3> QED
      BY <1>11, <3>1
  <2>2. ASSUME NEW n \in 1..N, n - 1 \in T
        PROVE  n \in T
    <3> DEFINE m == N - (n - 1)
    <3>1. m \in 1..N /\ m - 1 = N - n /\ m - 1 \in 0..N /\ n \in 0..N
      BY <1>1
    <3>2. f[m].ok
      BY <2>2
    <3> HIDE DEF m
    <3>3. f[m] = DraftStep(f[m - 1], es[m]) /\ f[m - 1] \in V /\ es[m] \in Actions
      BY <1>1, <1>12, <1>13, <3>1, SMTT(60), Zenon
    <3>4. f[m - 1].ok
      BY <3>2, <3>3, DraftStepIs, SMTT(60), Zenon DEF V
    <3> QED
      BY <3>1, <3>4
  <2>3. \A n \in 0..N : n \in T
    <3> HIDE DEF T, N
    <3> QED
      BY <1>1, <2>1, <2>2, BoundedInduction, Zenon
  <2> QED
    BY <2>3
<1> DEFINE r == [n \in 0..N |-> f[n].plan]
<1>15. r[0] = p
  BY <1>1, <1>12, SMTT(60), Zenon DEF Accepted
<1>16. ASSUME NEW n \in 1..N
       PROVE  Grants(r[n - 1], es[n], r[n])
  <2>1. n \in 0..N /\ n - 1 \in 0..N /\ N - n \in 0..N /\ N - (N - n) = n
    BY <1>1
  <2>2. f[n].ok
    BY <1>14, <2>1, SMTT(60), Zenon
  <2>3. f[n] = DraftStep(f[n - 1], es[n]) /\ f[n - 1] \in V /\ es[n] \in Actions
    BY <1>1, <1>12, <1>13, <2>1, SMTT(60), Zenon
  <2>4. Grants(f[n - 1].plan, es[n], f[n].plan)
    BY <2>2, <2>3, DraftStepIs, SMTT(60), Zenon DEF V
  <2> QED
    BY <2>1, <2>4
<1> HIDE DEF r
<1>17. Trail(r, p, es, r[N])
  BY <1>15, <1>16, SMTT(60), Zenon DEF Trail
<1> QED
  BY <1>17, SMTT(60), Zenon DEF Leads

(* The plans along a trail. *)
LEMMA TrailKeeps ==
    ASSUME NEW p, SoundPlan(p), NEW es \in Seq(Actions), NEW q, NEW r, Trail(r, p, es, q)
    PROVE  \A n \in 0..Len(es) :
             /\ SoundPlan(r[n])
             /\ CurrentExists(p) => CurrentExists(r[n])
             /\ \A id \in IDs(p.steps) \ IDs(r[n].steps) :
                  \E k \in 1..n : es[k].name = "step_removed" /\ es[k].id = id
             /\ \A k \in 1..n : ValidEvent(es[k])
<1> DEFINE N == Len(es)
           K(n) == /\ SoundPlan(r[n])
                   /\ CurrentExists(p) => CurrentExists(r[n])
                   /\ \A id \in IDs(p.steps) \ IDs(r[n].steps) :
                        \E k \in 1..n : es[k].name = "step_removed" /\ es[k].id = id
                   /\ \A k \in 1..n : ValidEvent(es[k])
           T == {n \in 0..N : K(n)}
<1>1. N \in Nat /\ \A n \in 1..N : es[n] \in Actions
  BY SMTT(60), Zenon
<1>2. 0 \in T
  BY <1>1, SMTT(60), Zenon DEF Trail
<1>3. ASSUME NEW n \in 1..N, n - 1 \in T
      PROVE  n \in T
  <2>1. K(n - 1) /\ n \in 0..N
    BY <1>3
  <2>2. Grants(r[n - 1], es[n], r[n]) /\ es[n] \in Actions
    BY <1>1 DEF Trail
  <2>3. /\ SoundPlan(r[n]) /\ ValidEvent(es[n])
        /\ CurrentExists(r[n - 1]) => CurrentExists(r[n])
        /\ \A id \in IDs(r[n - 1].steps) \ IDs(r[n].steps) : es[n].name = "step_removed" /\ es[n].id = id
    <3>1. SoundPlan(r[n - 1])
      BY <2>1
    <3> HIDE DEF K, T, N
    <3> QED
      BY <2>2, <3>1, GrantsKeep, ZenonT(60), SMTT(60)
  <2>4. n \in 1..n /\ \A k \in 1..(n - 1) : k \in 1..n
    BY SMTT(60), Zenon
  <2>5. ASSUME NEW id \in IDs(p.steps) \ IDs(r[n].steps)
        PROVE  \E k \in 1..n : es[k].name = "step_removed" /\ es[k].id = id
    <3>1. CASE id \in IDs(r[n - 1].steps)
      BY <2>3, <2>4, <3>1, SMTT(60), Zenon
    <3>2. CASE id \notin IDs(r[n - 1].steps)
      BY <2>1, <2>4, <3>2, SMTT(60), Zenon
    <3> QED
      BY <3>1, <3>2, SMTT(60), Zenon
  <2>6. \A k \in 1..n : k = n \/ k \in 1..(n - 1)
    OBVIOUS
  <2> QED
    BY <2>1, <2>3, <2>5, <2>6, SMTT(60), Zenon
<1>4. \A n \in 0..N : n \in T
  <2> HIDE DEF T, N
  <2> QED
    BY <1>1, <1>2, <1>3, BoundedInduction, ZenonT(60), SMTT(60)
<1> QED
  BY <1>4

(* Where a batch leads. *)
LEMMA LeadsKeeps ==
    ASSUME NEW p, SoundPlan(p), NEW es \in Seq(Actions), NEW q, Leads(p, es, q)
    PROVE  /\ SoundPlan(q)
           /\ CurrentExists(p) => CurrentExists(q)
           /\ \A id \in IDs(p.steps) \ IDs(q.steps) :
                \E k \in DOMAIN es : es[k].name = "step_removed" /\ es[k].id = id
           /\ \A k \in DOMAIN es : ValidEvent(es[k])
<1>1. PICK r : Trail(r, p, es, q)
  BY DEF Leads
<1>2. Len(es) \in Nat /\ Len(es) \in 0..Len(es) /\ DOMAIN es = 1..Len(es)
  OBVIOUS
<1>3. r[Len(es)] = q
  BY <1>1, SMTT(60), Zenon DEF Trail
<1> QED
  BY <1>1, <1>2, <1>3, TrailKeeps, SMTT(60), Zenon

(* The first event of a batch, and the rest. *)
LEMMA LeadsOn ==
    ASSUME NEW p, NEW es \in Seq(Actions), es # << >>, NEW q, Leads(p, es, q)
    PROVE  LET next == applyEventTo(p, Head(es)).plan IN
           /\ Head(es) \in Actions /\ Head(es) = es[1] /\ 1 \in DOMAIN es
           /\ Grants(p, Head(es), next)
           /\ Leads(next, Tail(es), q)
           /\ Len(es) = 1 => next = q
<1> DEFINE N == Len(es)
<1>1. PICK r : Trail(r, p, es, q)
  BY DEF Leads
<1>2. /\ N \in Nat /\ N >= 1 /\ DOMAIN es = 1..N /\ Head(es) = es[1] /\ es[1] \in Actions
      /\ Tail(es) \in Seq(Actions) /\ Len(Tail(es)) = N - 1
      /\ \A n \in 1..(N - 1) : Tail(es)[n] = es[n + 1]
  OBVIOUS
<1> HIDE DEF N
<1>3. r[0] = p /\ r[N] = q /\ \A n \in 1..N : Grants(r[n - 1], es[n], r[n])
  BY <1>1 DEF Trail, N
<1>4. Grants(p, es[1], r[1])
  <2>1. 1 \in 1..N /\ 1 - 1 = 0
    BY <1>2
  <2> QED
    BY <1>3, <2>1
<1>5. applyEventTo(p, Head(es)).plan = r[1]
  BY <1>2, <1>4, SMTT(60), Zenon DEF Grants, Accepted
<1> DEFINE t == [n \in 0..(N - 1) |-> r[n + 1]]
<1>6. Trail(t, r[1], Tail(es), q)
  <2>1. t[0] = r[1] /\ t[N - 1] = q
    BY <1>2, <1>3, SMTT(60), Zenon
  <2>2. ASSUME NEW n \in 1..(N - 1)
        PROVE  Grants(t[n - 1], Tail(es)[n], t[n])
    <3>1. n + 1 \in 1..N /\ (n + 1) - 1 = n /\ n \in 0..(N - 1) /\ n - 1 \in 0..(N - 1) /\ (n - 1) + 1 = n
      BY <1>2
    <3>2. Grants(r[n], es[n + 1], r[n + 1])
      BY <1>3, <3>1, SMTT(60), Zenon
    <3> QED
      BY <1>2, <3>1, <3>2, SMTT(60), Zenon
  <2> HIDE DEF t
  <2> QED
    BY <1>2, <2>1, <2>2, SMTT(60), Zenon DEF Trail
<1> HIDE DEF t
<1>7. Leads(r[1], Tail(es), q)
  BY <1>6, SMTT(60), Zenon DEF Leads
<1> QED
  BY <1>2, <1>3, <1>4, <1>5, <1>7, SMTT(60), Zenon DEF N

-----------------------------------------------------------------------------
(* The events of a thread *)

SkillPaths == UNION {Repo[n] : n \in SkillNames}

PlanEntries == [kind: {"attached"}, inst: Instances]
               \cup [kind: {"dispatched"}, inst: Instances, event: ValidEvents]
SkillEntries == [kind: {"skill"}, name: SkillNames]
                \cup [kind: {"reference"}, name: SkillNames, path: SkillPaths]
UsageEntries == [kind: {"usage"}]
Entries == PlanEntries \cup SkillEntries \cup UsageEntries

LEMMA EntryKinds ==
    ASSUME NEW e \in Entries
    PROVE  /\ e \in PlanEntries <=> e.kind \in {"attached", "dispatched"}
           /\ e \in SkillEntries <=> e.kind \in {"skill", "reference"}
           /\ e \in UsageEntries <=> e.kind = "usage"
           /\ e.kind \in {"attached", "dispatched", "skill", "reference", "usage"}
           /\ e.kind \in {"attached", "dispatched"} => e.inst \in Instances
           /\ e.kind = "dispatched" => e.event \in ValidEvents
           /\ e.kind \in {"skill", "reference"} => e.name \in SkillNames
           /\ e.kind = "reference" => e.path \in SkillPaths
<1>1. \A x \in PlanEntries : /\ x.kind \in {"attached", "dispatched"} /\ x.inst \in Instances
                             /\ x.kind = "dispatched" => x.event \in ValidEvents
  BY DEF PlanEntries
<1>2. \A x \in SkillEntries : /\ x.kind \in {"skill", "reference"} /\ x.name \in SkillNames
                              /\ x.kind = "reference" => x.path \in SkillPaths
  BY DEF SkillEntries
<1>3. \A x \in UsageEntries : x.kind = "usage"
  BY DEF UsageEntries
<1> QED
  BY <1>1, <1>2, <1>3, SMTT(60), Zenon DEF Entries

-----------------------------------------------------------------------------
(* The replay of the plans *)

Replays == [ok: BOOLEAN, plans: [Instances -> SoundPlans \cup {Detached}]]

LEMMA NewPlannerSound == NewPlanner \in SoundPlans /\ SoundPlan(NewPlanner) /\ CurrentExists(NewPlanner)
<1>1. /\ NewPlanner \in Plan /\ NewPlanner.steps = << >> /\ NewPlanner.current = NoStep
  <2>1. << >> \in Seq(Step)
    OBVIOUS
  <2> QED
    BY <2>1 DEF NewPlanner, Plan
<1>2. SoundPlan(NewPlanner)
  BY <1>1, NoStepsInOrder DEF SoundPlan
<1> QED
  BY <1>1, <1>2, SMTT(60), Zenon DEF SoundPlans, CurrentExists

LEMMA DetachedIsNoPlan == Detached \notin SoundPlans /\ Detached # NewPlanner
BY NewPlannerSound, AgentStateAssumption, SMTT(60), Zenon DEF SoundPlans

(* One event of the replay. *)
LEMMA ReplayStepIs ==
    ASSUME NEW r \in Replays, NEW e \in Entries
    PROVE  /\ ReplayStep(r, e) \in Replays
           /\ e.kind \notin {"attached", "dispatched"} => ReplayStep(r, e) = r
           /\ (r.ok /\ e.kind = "attached") =>
                ReplayStep(r, e) = [ok |-> TRUE, plans |-> [r.plans EXCEPT ![e.inst] = NewPlanner]]
           /\ \A q : (/\ r.ok /\ e.kind = "dispatched" /\ r.plans[e.inst] # Detached
                      /\ applyEventTo(r.plans[e.inst], e.event) = Accepted(q)) =>
                ReplayStep(r, e) = [ok |-> TRUE, plans |-> [r.plans EXCEPT ![e.inst] = q]]
<1>1. /\ r.ok \in BOOLEAN /\ r.plans \in [Instances -> SoundPlans \cup {Detached}]
      /\ r = [ok |-> r.ok, plans |-> r.plans]
  BY DEF Replays
<1>2. CASE e.kind \notin {"attached", "dispatched"}
  <2>1. ReplayStep(r, e) = r
    BY <1>2 DEF ReplayStep
  <2> QED
    BY <1>2, <2>1
<1>3. CASE ~r.ok
  <2>1. ReplayStep(r, e) = r
    BY <1>3, SMTT(60), Zenon DEF ReplayStep
  <2> QED
    BY <1>3, <2>1
<1>4. CASE r.ok /\ e.kind = "attached"
  <2> DEFINE x == [ok |-> TRUE, plans |-> [r.plans EXCEPT ![e.inst] = NewPlanner]]
  <2>1. ReplayStep(r, e) = [r EXCEPT !.plans[e.inst] = NewPlanner]
    BY <1>4 DEF ReplayStep
  <2>2. ReplayStep(r, e) = x
    BY <1>1, <1>4, <2>1, Zenon
  <2>3. e.inst \in Instances
    BY <1>4, EntryKinds, SMTT(60), Zenon
  <2>4. x \in Replays
    BY <1>1, <2>3, NewPlannerSound, SMTT(60), Zenon DEF Replays
  <2> QED
    BY <1>4, <2>2, <2>4
<1>5. CASE r.ok /\ e.kind = "dispatched"
  <2> DEFINE i == e.inst
             a == applyEventTo(r.plans[i], e.event)
  <2>1. i \in Instances /\ ValidEvent(e.event)
    BY <1>5, EntryKinds DEF ValidEvents
  <2>2. ReplayStep(r, e) = IF r.plans[i] = Detached THEN [r EXCEPT !.ok = FALSE]
                           ELSE [r EXCEPT !.ok = a.ok, !.plans[i] = a.plan]
    BY <1>5, Zenon, SMTT(60) DEF ReplayStep
  <2>3. CASE r.plans[i] = Detached
    <3>1. ReplayStep(r, e) = [ok |-> FALSE, plans |-> r.plans]
      BY <1>1, <2>2, <2>3, Zenon
    <3> QED
      BY <1>1, <1>5, <2>3, <3>1, SMTT(60), Zenon DEF Replays
  <2>4. CASE r.plans[i] # Detached
    <3>1. SoundPlan(r.plans[i])
      BY <1>1, <2>1, <2>4, SMTT(60), Zenon DEF SoundPlans
    <3>2. a \in [ok: BOOLEAN, plan: SoundPlans]
      BY <2>1, <3>1, ApplyTotal
    <3>3. ReplayStep(r, e) = [ok |-> a.ok, plans |-> [r.plans EXCEPT ![i] = a.plan]]
      BY <1>1, <2>2, <2>4, Zenon
    <3> HIDE DEF a, i
    <3>4. ReplayStep(r, e) \in Replays
      <4>1. [r.plans EXCEPT ![i] = a.plan] \in [Instances -> SoundPlans \cup {Detached}]
        BY <1>1, <2>1, <3>2, SMTT(60), Zenon
      <4> QED
        BY <3>2, <3>3, <4>1, SMTT(60), Zenon DEF Replays
    <3>5. ASSUME NEW q, a = Accepted(q)
          PROVE  ReplayStep(r, e) = [ok |-> TRUE, plans |-> [r.plans EXCEPT ![i] = q]]
      BY <3>3, <3>5, SMTT(60), Zenon DEF Accepted
    <3> QED
      BY <1>5, <3>4, <3>5, SMTT(60), Zenon DEF a, i
  <2> QED
    BY <2>3, <2>4, SMTT(60), Zenon
<1> QED
  BY <1>1, <1>2, <1>3, <1>4, <1>5, SMTT(60), Zenon

(* g holds what the replay has rebuilt after each event. *)
ReplayRounds(g, events) ==
    /\ g[0] = [ok |-> TRUE, plans |-> NoPlans]
    /\ \A n \in 1..Len(events) : g[n] = ReplayStep(g[n - 1], events[n])

LEMMA ReplayIs ==
    ASSUME NEW events \in Seq(Entries)
    PROVE  \E g : /\ ReplayRounds(g, events) /\ Replay(events) = g[Len(events)]
                  /\ \A n \in 0..Len(events) : g[n] \in Replays
<1> DEFINE N == Len(events)
           V == Replays
           init == [ok |-> TRUE, plans |-> NoPlans]
           step == [x \in V \X (1..N) |-> ReplayStep(x[1], events[x[2]])]
           Loop(f) == f = [n \in 0..N |-> IF n = 0 THEN init ELSE ReplayStep(f[n - 1], events[n])]
           f == CHOOSE f : Loop(f)
<1>1. N \in Nat /\ \A n \in 1..N : events[n] \in Entries
  OBVIOUS
<1>2. init \in V
  BY DEF Replays, NoPlans
<1>3. \A r \in V, n \in 1..N : ReplayStep(r, events[n]) \in V
  BY <1>1, ReplayStepIs, SMTT(60), Zenon
<1> HIDE DEF V, init
<1>4. step \in [V \X (1..N) -> V] /\ \A r \in V, n \in 1..N : step[<< r, n >>] = ReplayStep(r, events[n])
  BY <1>3
<1> HIDE DEF step
<1>5. IsLoop(V, N, init, step)
  BY <1>1, <1>2, <1>4, SMTT(60), Zenon DEF IsLoop
<1>6. PICK h : Runs(h, V, N, init, step)
  BY <1>5, LoopExists
<1>7. /\ h \in [0..N -> V] /\ h[0] = init
      /\ \A n \in 1..N : h[n] = step[<<h[n - 1], n>>]
  BY <1>6 DEF Runs
<1>8. \A n \in 0..N : h[n] = IF n = 0 THEN init ELSE ReplayStep(h[n - 1], events[n])
  <2> SUFFICES ASSUME NEW n \in 0..N, n # 0
               PROVE  h[n] = ReplayStep(h[n - 1], events[n])
    BY <1>7
  <2>1. n \in 1..N /\ n - 1 \in 0..N
    BY <1>1
  <2> QED
    BY <1>4, <1>7, <2>1, Zenon
<1>9. Loop(h)
  <2>1. h = [n \in 0..N |-> h[n]]
    BY <1>7
  <2> QED
    BY <1>8, <2>1, SMTT(60), Zenon
<1>10. Loop(f)
  <2> HIDE DEF Loop
  <2> QED
    BY <1>9
<1>11. Replay(events) = f[N]
  BY DEF Replay, init
<1> HIDE DEF f
<1>12. f[0] = init /\ \A n \in 1..N : f[n] = ReplayStep(f[n - 1], events[n])
  <2>1. 0 \in 0..N /\ \A n \in 1..N : n \in 0..N /\ n # 0
    BY <1>1
  <2> QED
    BY <1>10, <2>1
<1>13. \A n \in 0..N : f[n] \in V
  <2> DEFINE T == {n \in 0..N : f[n] \in V}
  <2>1. 0 \in T
    BY <1>1, <1>2, <1>12, SMTT(60), Zenon
  <2>2. ASSUME NEW n \in 1..N, n - 1 \in T
        PROVE  n \in T
    BY <1>1, <1>3, <1>12, <2>2, SMTT(60), Zenon
  <2>3. \A n \in 0..N : n \in T
    <3> HIDE DEF T, N
    <3> QED
      BY <1>1, <2>1, <2>2, BoundedInduction, Zenon
  <2> QED
    BY <2>3
<1> QED
  BY <1>11, <1>12, <1>13 DEF ReplayRounds, init, V

(* longer continues events. *)
Extends(longer, events) ==
    /\ Len(events) <= Len(longer)
    /\ \A n \in 1..Len(events) : longer[n] = events[n]

(* The replay of a log that continues another passes through its replay. *)
LEMMA ReplayPasses ==
    ASSUME NEW events \in Seq(Entries), NEW longer \in Seq(Entries), Extends(longer, events),
           NEW g, ReplayRounds(g, longer)
    PROVE  g[Len(events)] = Replay(events)
<1> DEFINE N == Len(events)
<1>1. N \in Nat /\ Len(longer) \in Nat /\ N <= Len(longer)
  BY DEF Extends
<1>2. PICK f : ReplayRounds(f, events) /\ Replay(events) = f[N]
  BY ReplayIs, SMTT(60), Zenon
<1> DEFINE T == {n \in 0..N : g[n] = f[n]}
<1>3. 0 \in T
  BY <1>1, <1>2, SMTT(60), Zenon DEF ReplayRounds
<1>4. ASSUME NEW n \in 1..N, n - 1 \in T
      PROVE  n \in T
  <2>1. n \in 0..N /\ n \in 1..Len(longer) /\ g[n - 1] = f[n - 1] /\ longer[n] = events[n]
    BY <1>1, <1>4, SMTT(60), Zenon DEF Extends
  <2>2. f[n] = ReplayStep(f[n - 1], events[n]) /\ g[n] = ReplayStep(g[n - 1], longer[n])
    BY <1>2, <2>1 DEF ReplayRounds
  <2> QED
    BY <2>1, <2>2, SMTT(60), Zenon
<1>5. \A n \in 0..N : n \in T
  <2> HIDE DEF T, N
  <2> QED
    BY <1>1, <1>3, <1>4, BoundedInduction, ZenonT(60), SMTT(60)
<1> QED
  BY <1>1, <1>2, <1>5, SMTT(60), Zenon

(* A log with more events at its end. *)
LEMMA MoreEvents ==
    ASSUME NEW events \in Seq(Entries), NEW es \in Seq(Entries)
    PROVE  LET N == Len(events)
               M == Len(es)
               all == events \o es IN
           /\ all \in Seq(Entries) /\ N \in Nat /\ M \in Nat /\ Len(all) = N + M
           /\ DOMAIN events = 1..N /\ DOMAIN es = 1..M /\ DOMAIN all = 1..(N + M)
           /\ \A n \in 1..N : all[n] = events[n]
           /\ \A n \in 1..M : all[N + n] = es[n]
           /\ Extends(all, events)
<1>1. /\ events \o es \in Seq(Entries) /\ Len(events) \in Nat /\ Len(es) \in Nat
      /\ Len(events \o es) = Len(events) + Len(es)
      /\ DOMAIN events = 1..Len(events) /\ DOMAIN es = 1..Len(es)
  OBVIOUS
<1>2. \A n \in 1..Len(events) : (events \o es)[n] = events[n]
  OBVIOUS
<1>3. \A n \in 1..Len(es) : (events \o es)[Len(events) + n] = es[n]
  OBVIOUS
<1>4. DOMAIN (events \o es) = 1..(Len(events) + Len(es))
  BY <1>1
<1>5. Extends(events \o es, events)
  BY <1>1, <1>2, SMTT(60), Zenon DEF Extends
<1> QED
  BY <1>1, <1>2, <1>3, <1>4, <1>5, SMTT(60), Zenon

(* Events of skills and usage do not concern the plans. *)
LEMMA ReplayUnconcerned ==
    ASSUME NEW events \in Seq(Entries), NEW es \in Seq(Entries),
           \A k \in DOMAIN es : es[k].kind \notin {"attached", "dispatched"}
    PROVE  Replay(events \o es) = Replay(events)
<1> DEFINE N == Len(events)
           M == Len(es)
           all == events \o es
<1>1. /\ all \in Seq(Entries) /\ N \in Nat /\ M \in Nat /\ Len(all) = N + M /\ DOMAIN es = 1..M
      /\ \A n \in 1..M : all[N + n] = es[n]
      /\ Extends(all, events)
  BY MoreEvents
<1>2. PICK g : /\ ReplayRounds(g, all) /\ Replay(all) = g[Len(all)]
               /\ \A n \in 0..Len(all) : g[n] \in Replays
  BY <1>1, ReplayIs, Zenon
<1>3. g[N] = Replay(events)
  BY <1>1, <1>2, ReplayPasses, Zenon
<1> HIDE DEF all, N, M
<1> DEFINE T == {n \in 0..M : g[N + n] = g[N]}
<1>4. 0 \in T
  BY <1>1, SMTT(60), Zenon
<1>5. ASSUME NEW n \in 1..M, n - 1 \in T
      PROVE  n \in T
  <2>1. /\ n \in 0..M /\ N + n \in 1..Len(all) /\ (N + n) - 1 = N + (n - 1) /\ N + (n - 1) \in 0..Len(all)
        /\ g[N + (n - 1)] = g[N] /\ all[N + n] = es[n] /\ es[n] \in Entries
    BY <1>1, <1>5, SMTT(60), Zenon DEF M
  <2>2. g[N + n] = ReplayStep(g[N + (n - 1)], es[n])
    BY <1>2, <2>1, SMTT(60), Zenon DEF ReplayRounds
  <2>3. g[N + (n - 1)] \in Replays /\ es[n].kind \notin {"attached", "dispatched"}
    BY <1>1, <1>2, <2>1, Zenon
  <2> QED
    BY <2>1, <2>2, <2>3, ReplayStepIs, Zenon, SMTT(60)
<1>6. \A n \in 0..M : n \in T
  <2> HIDE DEF T
  <2> QED
    BY <1>1, <1>4, <1>5, BoundedInduction, ZenonT(60), SMTT(60)
<1>7. g[N + M] = g[N]
  <2>1. M \in 0..M
    BY <1>1
  <2>2. M \in T
    BY <1>6, <2>1, SMTT(60), Zenon
  <2> QED
    BY <2>2
<1> QED
  BY <1>1, <1>2, <1>3, <1>7, SMTT(60), Zenon DEF all

(* The replay of an attach event. *)
LEMMA ReplayAttached ==
    ASSUME NEW events \in Seq(Entries), NEW i \in Instances, Replay(events).ok
    PROVE  /\ AttachEvent(i) \in Entries /\ AttachEvent(i).kind = "attached"
           /\ Replay(Append(events, AttachEvent(i))) =
                [ok |-> TRUE, plans |-> [Replay(events).plans EXCEPT ![i] = NewPlanner]]
<1> DEFINE N == Len(events)
           e == AttachEvent(i)
           all == Append(events, e)
<1>1. e \in Entries /\ e.kind = "attached" /\ e.inst = i
  BY DEF AttachEvent, Entries, PlanEntries
<1> HIDE DEF e
<1>2. /\ all \in Seq(Entries) /\ N \in Nat /\ Len(all) = N + 1 /\ all[N + 1] = e
      /\ \A n \in 1..N : all[n] = events[n]
  BY <1>1
<1> HIDE DEF all
<1>3. Extends(all, events)
  BY <1>2 DEF Extends
<1>4. PICK g : /\ ReplayRounds(g, all) /\ Replay(all) = g[Len(all)]
               /\ \A n \in 0..Len(all) : g[n] \in Replays
  BY <1>2, ReplayIs, SMTT(60), Zenon
<1>5. g[N] = Replay(events) /\ g[N] \in Replays
  BY <1>2, <1>3, <1>4, ReplayPasses, SMTT(60), Zenon
<1>6. g[N + 1] = ReplayStep(g[N], e)
  <2>1. N + 1 \in 1..Len(all) /\ (N + 1) - 1 = N
    BY <1>2, SMTT(60), Zenon
  <2> QED
    BY <1>2, <1>4, <2>1, SMTT(60), Zenon DEF ReplayRounds
<1>7. ReplayStep(g[N], e) = [ok |-> TRUE, plans |-> [g[N].plans EXCEPT ![i] = NewPlanner]]
  BY <1>1, <1>5, ReplayStepIs, SMTT(60), Zenon
<1> QED
  BY <1>1, <1>2, <1>4, <1>5, <1>6, <1>7, SMTT(60), Zenon DEF all, e

(* The events of a batch as the thread has them. *)
Dispatches(i, es) == [k \in DOMAIN es |-> DispatchEvent(i, es[k])]

LEMMA DispatchesTyped ==
    ASSUME NEW i \in Instances, NEW es \in Seq(ValidEvents)
    PROVE  LET d == Dispatches(i, es) IN
           /\ d \in Seq(Entries) /\ Len(d) = Len(es) /\ DOMAIN d = DOMAIN es
           /\ \A k \in DOMAIN es : /\ d[k] = DispatchEvent(i, es[k])
                                   /\ d[k].kind = "dispatched" /\ d[k].inst = i /\ d[k].event = es[k]
<1> DEFINE d == [k \in 1..Len(es) |-> DispatchEvent(i, es[k])]
<1>1. Len(es) \in Nat /\ DOMAIN es = 1..Len(es) /\ \A k \in 1..Len(es) : es[k] \in ValidEvents
  OBVIOUS
<1>2. Dispatches(i, es) = d
  BY <1>1, SMTT(60), Zenon DEF Dispatches
<1>3. ASSUME NEW e \in ValidEvents
      PROVE  /\ DispatchEvent(i, e) \in Entries
             /\ DispatchEvent(i, e).kind = "dispatched" /\ DispatchEvent(i, e).inst = i
             /\ DispatchEvent(i, e).event = e
  BY SMTT(60), Zenon DEF DispatchEvent, Entries, PlanEntries
<1>4. \A k \in 1..Len(es) : d[k] = DispatchEvent(i, es[k]) /\ d[k] \in Entries
  BY <1>1, <1>3, SMTT(60), Zenon
<1>5. d \in [1..Len(es) -> Entries] /\ DOMAIN d = 1..Len(es)
  BY <1>4
<1> HIDE DEF d
<1>6. d \in Seq(Entries) /\ Len(d) = Len(es)
  BY <1>1, <1>5, SMTT(60), Zenon
<1> QED
  BY <1>1, <1>2, <1>3, <1>4, <1>5, <1>6, SMTT(60), Zenon

(* The replay of a batch that was drafted on the plan the log had led to. *)
LEMMA ReplayBatch ==
    ASSUME NEW events \in Seq(Entries), NEW i \in Instances, NEW es \in Seq(ValidEvents), NEW q,
           Replay(events).ok, Replay(events).plans[i] # Detached, Leads(Replay(events).plans[i], es, q)
    PROVE  Replay(events \o Dispatches(i, es)) =
             [ok |-> TRUE, plans |-> [Replay(events).plans EXCEPT ![i] = q]]
<1> DEFINE N == Len(events)
           M == Len(es)
           d == Dispatches(i, es)
           all == events \o d
           rp == Replay(events)
           p == rp.plans[i]
<1>0. /\ d \in Seq(Entries) /\ Len(d) = M /\ DOMAIN es = 1..M
      /\ \A k \in DOMAIN es : /\ d[k].kind = "dispatched" /\ d[k].inst = i /\ d[k].event = es[k]
                              /\ es[k] \in ValidEvents
  BY DispatchesTyped, SMTT(60), Zenon
<1> HIDE DEF d
<1>1. /\ all \in Seq(Entries) /\ N \in Nat /\ M \in Nat /\ Len(all) = N + M
      /\ \A n \in 1..M : all[N + n] = d[n]
      /\ Extends(all, events)
  <2>1. d \in Seq(Entries) /\ Len(d) = Len(es)
    BY <1>0
  <2>2. /\ events \o d \in Seq(Entries) /\ Len(events) \in Nat /\ Len(d) \in Nat
        /\ Len(events \o d) = Len(events) + Len(d)
        /\ \A n \in 1..Len(d) : (events \o d)[Len(events) + n] = d[n]
        /\ Extends(events \o d, events)
    BY <2>1, MoreEvents, Zenon
  <2> QED
    BY <2>1, <2>2, SMTT(60), Zenon
<1>2. PICK g : /\ ReplayRounds(g, all) /\ Replay(all) = g[Len(all)]
               /\ \A n \in 0..Len(all) : g[n] \in Replays
  BY <1>1, ReplayIs, Zenon
<1>3. g[N] = rp
  BY <1>1, <1>2, ReplayPasses, ZenonT(60), SMTT(60)
<1>4. rp \in Replays
  BY <1>1, <1>2, <1>3, SMTT(60), Zenon
<1>5. PICK r : Trail(r, p, es, q)
  BY DEF Leads
<1>6. /\ rp.plans \in [Instances -> SoundPlans \cup {Detached}] /\ rp.ok = TRUE
      /\ rp = [ok |-> TRUE, plans |-> rp.plans]
  BY <1>4, SMTT(60), Zenon DEF Replays
<1>7. SoundPlan(p) /\ es \in Seq(Actions)
  BY <1>6, SMTT(60), Zenon DEF SoundPlans, ValidEvents
<1>8. \A n \in 0..M : SoundPlan(r[n])
  BY <1>5, <1>7, TrailKeeps, SMTT(60), Zenon
<1> HIDE DEF all, N, M, d, p
<1> DEFINE Now(n) == [ok |-> TRUE, plans |-> [rp.plans EXCEPT ![i] = r[n]]]
           T == {n \in 0..M : g[N + n] = Now(n)}
<1>9. 0 \in T
  <2>1. r[0] = p
    BY <1>5, SMTT(60), Zenon DEF Trail
  <2>2. [rp.plans EXCEPT ![i] = p] = rp.plans
    BY <1>6, SMTT(60), Zenon DEF p
  <2>3. Now(0) = rp
    BY <1>6, <2>1, <2>2, SMTT(60), Zenon
  <2>4. 0 \in 0..M /\ N + 0 = N
    BY <1>1, SMTT(60), Zenon
  <2> QED
    BY <1>3, <2>3, <2>4, Zenon
<1>10. ASSUME NEW n \in 1..M, n - 1 \in T
       PROVE  n \in T
  <2>0. /\ n \in 0..M /\ n - 1 \in 0..M /\ N + n \in 1..Len(all) /\ (N + n) - 1 = N + (n - 1)
        /\ N + (n - 1) \in 0..Len(all)
    BY <1>1, SMTT(60), Zenon
  <2>01. g[N + (n - 1)] = Now(n - 1)
    BY <1>10, SMTT(60), Zenon
  <2>1. /\ n \in 0..M /\ n - 1 \in 0..M /\ N + n \in 1..Len(all) /\ (N + n) - 1 = N + (n - 1)
        /\ N + (n - 1) \in 0..Len(all) /\ g[N + (n - 1)] = Now(n - 1) /\ all[N + n] = d[n]
        /\ d[n].kind = "dispatched" /\ d[n].inst = i /\ d[n].event = es[n] /\ d[n] \in Entries
    <3> HIDE DEF Now, T
    <3>1. n \in DOMAIN d
      BY <1>0, SMTT(60), Zenon DEF M
    <3>2. /\ d[n].kind = "dispatched" /\ d[n].inst = i /\ d[n].event = es[n]
          /\ d[n] \in Entries
      BY <1>0, <3>1, SMTT(60), Zenon
    <3>3. all[N + n] = d[n]
      BY <1>1, Zenon, SMTT(60)
    <3> QED
      BY <2>0, <2>01, <3>2, <3>3, SMTT(60), Zenon
  <2> DEFINE v == g[N + (n - 1)]
             e == d[n]
  <2>2. g[N + n] = ReplayStep(v, e) /\ v \in Replays /\ e \in Entries
    BY <1>2, <2>1, Zenon, SMTT(60) DEF ReplayRounds
  <2>3. v.ok /\ v.plans = [rp.plans EXCEPT ![i] = r[n - 1]]
    BY <2>1, SMTT(60), Zenon
  <2>4. v.plans[i] = r[n - 1]
    BY <1>6, <2>3, SMTT(60), Zenon
  <2>5. SoundPlan(r[n - 1]) /\ Grants(r[n - 1], es[n], r[n])
    BY <1>5, <1>8, <2>1, SMTT(60), Zenon DEF Trail, M
  <2>6. v.plans[i] # Detached
    BY <2>4, <2>5, DetachedIsNoPlan, Zenon, SMTT(60) DEF SoundPlans, SoundPlan
  <2>7. applyEventTo(v.plans[e.inst], e.event) = Accepted(r[n])
    BY <2>1, <2>4, <2>5, Zenon, SMTT(60) DEF Grants
  <2>8. e.kind = "dispatched" /\ e.inst = i
    BY <2>1
  <2> HIDE DEF v, e, T, Now
  <2>9. ReplayStep(v, e) = [ok |-> TRUE, plans |-> [v.plans EXCEPT ![i] = r[n]]]
    BY <2>2, <2>3, <2>6, <2>7, <2>8, ReplayStepIs, ZenonT(60), SMTT(60)
  <2>10. [v.plans EXCEPT ![i] = r[n]] = [rp.plans EXCEPT ![i] = r[n]]
    BY <1>6, <2>3
  <2>11. g[N + n] = Now(n)
    BY <2>2, <2>9, <2>10, Zenon DEF Now
  <2> QED
    BY <2>1, <2>11, SMTT(60), Zenon DEF T
<1>11. \A n \in 0..M : n \in T
  <2> HIDE DEF T
  <2> QED
    BY <1>1, <1>9, <1>10, BoundedInduction, ZenonT(60), SMTT(60)
<1>12. g[N + M] = Now(M)
  <2>1. M \in 0..M
    BY <1>1, SMTT(60), Zenon
  <2>2. M \in T
    BY <1>11, <2>1, SMTT(60), Zenon
  <2> QED
    BY <2>2, SMTT(60), Zenon
<1>13. r[M] = q
  BY <1>5, SMTT(60), Zenon DEF Trail, M
<1> QED
  BY <1>1, <1>2, <1>12, <1>13, Zenon, SMTT(60) DEF all, d

-----------------------------------------------------------------------------
(* The inductive invariant: the plans *)

Calls == [at: {"drafted", "appended"}, inst: Instances, base: SoundPlans, events: Seq(ValidEvents) \ {<< >>}]
         \cup [at: {"applied"}, inst: Instances, base: SoundPlans, events: Seq(ValidEvents)]

(* The event e of instance i is in the log. *)
Logged(events, i, e) == \E m \in DOMAIN events : events[m] = DispatchEvent(i, e)

(* A caller's batch is granted on the plan it was drafted on and, once       *)
(* appended, is in the log.                                                  *)
CallSound(k, events, ps) ==
    \/ k = Idle
    \/ /\ k \in Calls /\ ps[k.inst] # Detached
       /\ k.at = "drafted" => \E q : Leads(k.base, k.events, q)
       /\ k.at \in Applying => \A j \in DOMAIN k.events : Logged(events, k.inst, k.events[j])

(* The plan that the rest of a caller's batch is for: the one in memory, or  *)
(* the copy that is about to take its place.                                 *)
From(k, p) == IF k.at = "applied" THEN k.base ELSE p

(* The callers that apply a batch do so on plans of their own, what is left  *)
(* of a batch is granted on the plan it is for, and a copy differs from the  *)
(* plan by one granted event of the log.                                     *)
Apart(cl) ==
    \A c, d \in Callers :
        cl[c].at \in Applying /\ cl[d].at \in Applying /\ cl[c].inst = cl[d].inst => c = d
Granted(cl, ps) ==
    \A c \in Callers : cl[c].at \in Applying =>
        \E q : Leads(From(cl[c], ps[cl[c].inst]), cl[c].events, q)
Taken(cl, ps, events) ==
    \A c \in Callers : cl[c].at = "applied" =>
        \E e \in ValidEvents : Grants(ps[cl[c].inst], e, cl[c].base) /\ Logged(events, cl[c].inst, e)

(* A plan is the one the log gives, or will be when its caller is done.      *)
Busy(cl, i) == \E c \in Callers : cl[c].at \in Applying /\ cl[c].inst = i
InStep(cl, ps, rs) ==
    /\ \A i \in Instances : ~Busy(cl, i) => rs[i] = ps[i]
    /\ \A c \in Callers : cl[c].at \in Applying =>
         Leads(From(cl[c], ps[cl[c].inst]), cl[c].events, rs[cl[c].inst])

Currents(ps) == \A i \in Instances : ps[i] # Detached => CurrentExists(ps[i])

PlansTyped ==
    /\ log \in Seq(Entries) /\ unwritten \in Seq(Entries)
    /\ plans \in [Instances -> SoundPlans \cup {Detached}]
    /\ call \in [Callers -> Calls \cup {Idle}]
    /\ drift \subseteq {"plans", "overtaken", "skills", "usage"}

PlansInv ==
    /\ PlansTyped
    /\ \A c \in Callers : CallSound(call[c], log, plans)
    /\ ("overtaken" \notin drift \/ "plans" \notin drift) =>
         Apart(call) /\ Granted(call, plans) /\ Taken(call, plans, log)
    /\ "overtaken" \notin drift => Replay(log).ok /\ Currents(plans) /\ Currents(Replay(log).plans)
    /\ "plans" \notin drift => Replay(log).ok /\ InStep(call, plans, Replay(log).plans)

(* Where a caller can be. *)
LEMMA IdleIs == Idle.at = "idle" /\ Idle.at # "applied" /\ Idle.at \notin Applying /\ Idle \notin Calls
BY DEF Idle, Calls, Applying

LEMMA Places == "appended" \in Applying /\ "applied" \in Applying /\ "drafted" \notin Applying
BY DEF Applying

LEMMA CallFields ==
    ASSUME NEW k \in Calls
    PROVE  /\ k.inst \in Instances /\ k.base \in SoundPlans /\ k.events \in Seq(ValidEvents)
           /\ k.at # "applied" => k.events # << >>
           /\ k.at \in Applying => k.at = "appended" \/ k.at = "applied"
BY SMTT(60), Zenon DEF Calls, Applying

(* A caller that applies its batch. *)
LEMMA ApplyingCall ==
    ASSUME PlansTyped, NEW c \in Callers, call[c].at \in Applying
    PROVE  /\ call[c] \in Calls /\ call[c] # Idle
           /\ call[c].inst \in Instances /\ call[c].base \in SoundPlans /\ call[c].events \in Seq(ValidEvents)
<1>1. call[c] # Idle
  BY IdleIs, Zenon
<1>2. call[c] \in Calls \cup {Idle}
  BY Zenon, SMTT(60) DEF PlansTyped
<1> QED
  BY <1>1, <1>2, CallFields, Zenon, SMTT(60)

(* A batch with nothing left leads nowhere. *)
LEMMA LeadsNowhere ==
    ASSUME NEW p, NEW q, Leads(p, << >>, q)
    PROVE  p = q
<1>1. PICK r : Trail(r, p, << >>, q)
  BY DEF Leads
<1>2. Len(<< >>) = 0
  OBVIOUS
<1> QED
  BY <1>1, <1>2, SMTT(60), Zenon DEF Trail

(* The replay is well typed. *)
LEMMA ReplayTyped ==
    ASSUME NEW events \in Seq(Entries)
    PROVE  Replay(events) \in Replays
<1>1. PICK g : Replay(events) = g[Len(events)] /\ \A n \in 0..Len(events) : g[n] \in Replays
  BY ReplayIs
<1>2. Len(events) \in 0..Len(events)
  BY SMTT(60), Zenon
<1> QED
  BY <1>1, <1>2, SMTT(60), Zenon

LEMMA ReplayNothing == << >> \in Seq(Entries) /\ Replay(<< >>) = [ok |-> TRUE, plans |-> NoPlans]
<1>1. << >> \in Seq(Entries) /\ Len(<< >>) = 0
  OBVIOUS
<1>2. PICK g : ReplayRounds(g, << >>) /\ Replay(<< >>) = g[Len(<< >>)]
  BY <1>1, ReplayIs, ZenonT(60), SMTT(60)
<1> QED
  BY <1>1, <1>2 DEF ReplayRounds

(* What is in the log stays in it. *)
LEMMA LoggedStays ==
    ASSUME NEW events \in Seq(Entries), NEW longer \in Seq(Entries), Extends(longer, events)
    PROVE  \A i, e : Logged(events, i, e) => Logged(longer, i, e)
<1>1. DOMAIN events \subseteq DOMAIN longer /\ \A m \in DOMAIN events : longer[m] = events[m]
  <2>1. /\ DOMAIN events = 1..Len(events) /\ DOMAIN longer = 1..Len(longer)
        /\ Len(events) \in Nat /\ Len(longer) \in Nat
    OBVIOUS
  <2> QED
    BY <2>1, SMTT(60), Zenon DEF Extends
<1> QED
  BY <1>1, SMTT(60), Zenon DEF Logged

(* A call stays sound when the log grows and its instance stays attached. *)
LEMMA CallSoundKept ==
    ASSUME NEW k, NEW events \in Seq(Entries), NEW longer \in Seq(Entries), Extends(longer, events),
           NEW ps, NEW qs, CallSound(k, events, ps), k # Idle => qs[k.inst] # Detached
    PROVE  CallSound(k, longer, qs)
<1>1. \A i, e : Logged(events, i, e) => Logged(longer, i, e)
  BY LoggedStays, Zenon
<1> QED
  BY <1>1, Zenon, SMTT(60) DEF CallSound

LEMMA ExtendsItself == ASSUME NEW events \in Seq(Entries) PROVE Extends(events, events)
BY SMTT(60), Zenon DEF Extends

LEMMA ExtendsOn ==
    ASSUME NEW a \in Seq(Entries), NEW b \in Seq(Entries), NEW c \in Seq(Entries), Extends(c, b), Extends(b, a)
    PROVE  Extends(c, a)
BY SMTT(60), Zenon DEF Extends

(* The callers that apply a batch are the same, over a log that has grown. *)
LEMMA SameApplying ==
    ASSUME NEW cl, NEW dl,
           \A c \in Callers : dl[c].at \in Applying => dl[c] = cl[c],
           \A c \in Callers : cl[c].at \in Applying => dl[c] = cl[c],
           NEW events, NEW longer, \A i, e : Logged(events, i, e) => Logged(longer, i, e),
           NEW ps
    PROVE  /\ Apart(cl) => Apart(dl)
           /\ Granted(cl, ps) => Granted(dl, ps)
           /\ Taken(cl, ps, events) => Taken(dl, ps, longer)
           /\ \A rs : InStep(cl, ps, rs) => InStep(dl, ps, rs)
<1>1. Apart(cl) => Apart(dl)
  BY Zenon, SMTT(60) DEF Apart
<1>2. Granted(cl, ps) => Granted(dl, ps)
  BY Zenon, SMTT(60) DEF Granted
<1>3. Taken(cl, ps, events) => Taken(dl, ps, longer)
  <2> SUFFICES ASSUME Taken(cl, ps, events), NEW c \in Callers, dl[c].at = "applied"
               PROVE  \E e \in ValidEvents : Grants(ps[dl[c].inst], e, dl[c].base) /\ Logged(longer, dl[c].inst, e)
    BY Zenon DEF Taken
  <2>1. dl[c] = cl[c] /\ cl[c].at = "applied"
    BY Places, Zenon
  <2> QED
    BY <2>1, Zenon, SMTT(60) DEF Taken
<1>4. ASSUME NEW rs, InStep(cl, ps, rs)
      PROVE  InStep(dl, ps, rs)
  <2>1. \A i \in Instances : ~Busy(dl, i) => ~Busy(cl, i)
    BY Zenon, SMTT(60) DEF Busy
  <2> QED
    BY <1>4, <2>1, Zenon, SMTT(60) DEF InStep
<1> QED
  BY <1>1, <1>2, <1>3, <1>4, Zenon, SMTT(60)

LEMMA PlansInit == Init => PlansInv
<1> SUFFICES ASSUME Init PROVE PlansInv
  OBVIOUS
<1>1. /\ log = << >> /\ unwritten = << >> /\ plans = NoPlans /\ call = [c \in Callers |-> Idle] /\ drift = {}
  BY DEF Init
<1>2. PlansTyped
  BY <1>1, ReplayNothing, SMTT(60), Zenon DEF PlansTyped, NoPlans
<1>3. \A c \in Callers : CallSound(call[c], log, plans) /\ call[c].at \notin Applying /\ call[c].at # "applied"
  BY <1>1, IdleIs, SMTT(60), Zenon DEF CallSound
<1>4. Apart(call) /\ Granted(call, plans) /\ Taken(call, plans, log)
  BY <1>3, SMTT(60), Zenon DEF Apart, Granted, Taken
<1>5. Replay(log).ok /\ Replay(log).plans = plans
  BY <1>1, ReplayNothing
<1>6. Currents(plans)
  BY <1>1, SMTT(60), Zenon DEF Currents, NoPlans
<1>7. InStep(call, plans, plans)
  BY <1>3, SMTT(60), Zenon DEF InStep
<1> QED
  BY <1>2, <1>3, <1>4, <1>5, <1>6, <1>7, SMTT(60), Zenon DEF PlansInv

(* Calls stay where they are, or end before their append. *)
CallsStay ==
    /\ call' \in [Callers -> Calls \cup {Idle}]
    /\ \A c \in Callers : call'[c] = call[c] \/ (call'[c] = Idle /\ call[c].at \notin Applying)

LEMMA CallsStayed ==
    ASSUME PlansInv, call' = call
    PROVE  CallsStay
BY Zenon, SMTT(60) DEF PlansInv, PlansTyped, CallsStay

LEMMA CallsStaySound ==
    ASSUME PlansInv, log' \in Seq(Entries), Extends(log', log), plans' = plans, CallsStay
    PROVE  \A c \in Callers : CallSound(call[c], log, plans)'
<1> SUFFICES ASSUME NEW c \in Callers
             PROVE  CallSound(call'[c], log', plans')
  BY Zenon, SMTT(60)
<1>1. CASE call'[c] = Idle
  BY <1>1, Zenon DEF CallSound
<1>2. CASE call'[c] = call[c]
  <2>1. CallSound(call[c], log, plans) /\ log \in Seq(Entries)
    BY Zenon, SMTT(60) DEF PlansInv, PlansTyped
  <2>2. call[c] # Idle => plans'[call[c].inst] # Detached
    BY <2>1, Zenon DEF CallSound
  <2>3. CallSound(call[c], log', plans')
    BY <2>1, <2>2, CallSoundKept, Zenon
  <2> QED
    BY <1>2, <2>3, Zenon
<1> QED
  BY <1>1, <1>2, Zenon DEF CallsStay

(* Steps that do not concern the plans. *)
LEMMA PlansUnconcerned ==
    ASSUME PlansInv, log' \in Seq(Entries), Replay(log') = Replay(log), Extends(log', log),
           unwritten' \in Seq(Entries), plans' = plans, CallsStay,
           drift' \subseteq {"plans", "overtaken", "skills", "usage"},
           drift' \cap {"plans", "overtaken"} = drift \cap {"plans", "overtaken"}
    PROVE  PlansInv'
<1>1. PlansTyped'
  BY Zenon, SMTT(60) DEF PlansInv, PlansTyped, CallsStay
<1>2. /\ ("overtaken" \in drift' <=> "overtaken" \in drift)
      /\ ("plans" \in drift' <=> "plans" \in drift)
  OBVIOUS
<1>3. \A c \in Callers : CallSound(call[c], log, plans)'
  BY CallsStaySound, Zenon
<1>4. log \in Seq(Entries)
  BY Zenon, SMTT(60) DEF PlansInv, PlansTyped
<1>5. \A i, e : Logged(log, i, e) => Logged(log', i, e)
  BY <1>4, LoggedStays, Zenon
<1>6. /\ \A c \in Callers : call'[c].at \in Applying => call'[c] = call[c]
      /\ \A c \in Callers : call[c].at \in Applying => call'[c] = call[c]
  BY IdleIs, Zenon, SMTT(60) DEF CallsStay
<1>7. /\ Apart(call) => Apart(call')
      /\ Granted(call, plans) => Granted(call', plans)
      /\ Taken(call, plans, log) => Taken(call', plans, log')
      /\ \A rs : InStep(call, plans, rs) => InStep(call', plans, rs)
  BY <1>5, <1>6, SameApplying, ZenonT(60), SMTT(60)
<1> QED
  BY <1>1, <1>2, <1>3, <1>7, ZenonT(60), SMTT(60) DEF PlansInv

(* Once a batch that no plan in memory was given is in the log, nothing is   *)
(* claimed of it but that it is well formed.                                 *)
LEMMA PlansLost ==
    ASSUME PlansTyped', \A c \in Callers : CallSound(call[c], log, plans)',
           "plans" \in drift', "overtaken" \in drift'
    PROVE  PlansInv'
BY Zenon, SMTT(60) DEF PlansInv

LEMMA UnappliedIs ==
    ASSUME NEW es
    PROVE  /\ Unapplied(es) = {} \/ Unapplied(es) = {"plans", "overtaken"}
           /\ Unapplied(es) = {} => \A k \in DOMAIN es : es[k].kind \notin {"attached", "dispatched"}
BY SMTT(60), Zenon DEF Unapplied

(* Lines reach the file that no process applies. *)
LEMMA PlansLand ==
    ASSUME PlansInv, NEW more \in Seq(Entries), log' = log \o more, unwritten' \in Seq(Entries),
           plans' = plans, CallsStay, NEW changed \in SUBSET {"skills", "usage"},
           drift' = drift \cup Unapplied(more) \cup changed
    PROVE  PlansInv'
<1>1. /\ log \in Seq(Entries) /\ plans \in [Instances -> SoundPlans \cup {Detached}]
      /\ drift \subseteq {"plans", "overtaken", "skills", "usage"}
  BY Zenon, SMTT(60) DEF PlansInv, PlansTyped
<1>2. log' \in Seq(Entries) /\ Extends(log', log)
  BY <1>1, MoreEvents, Zenon
<1>3. CASE Unapplied(more) = {}
  <2>1. Replay(log') = Replay(log)
    BY <1>1, <1>3, UnappliedIs, ReplayUnconcerned, Zenon
  <2>2. /\ drift' \subseteq {"plans", "overtaken", "skills", "usage"}
        /\ drift' \cap {"plans", "overtaken"} = drift \cap {"plans", "overtaken"}
    BY <1>1, <1>3, SMTT(60), Zenon
  <2> QED
    BY <1>2, <2>1, <2>2, PlansUnconcerned, Zenon
<1>4. CASE Unapplied(more) = {"plans", "overtaken"}
  <2>1. /\ drift' \subseteq {"plans", "overtaken", "skills", "usage"}
        /\ "plans" \in drift' /\ "overtaken" \in drift'
    BY <1>1, <1>4, SMTT(60), Zenon
  <2>2. PlansTyped'
    BY <1>1, <1>2, <2>1, Zenon, SMTT(60) DEF PlansTyped, CallsStay
  <2>3. \A c \in Callers : CallSound(call[c], log, plans)'
    BY <1>2, CallsStaySound, Zenon
  <2> QED
    BY <2>1, <2>2, <2>3, PlansLost, Zenon
<1> QED
  BY <1>3, <1>4, UnappliedIs, Zenon

(* What a failed append leaves on the file and with the handle, made of the  *)
(* entries of S.                                                             *)
LEMMA FailedAppend ==
    ASSUME NEW S, unwritten \in Seq(S), NEW done \in Seq(S), NEW events \in Seq(S), NEW changed,
           AppendFails(done, events, changed)
    PROVE  \E more \in Seq(S) : /\ log' = log \o more /\ unwritten' \in Seq(S)
                                /\ drift' = drift \cup Unapplied(more) \cup changed
<1> DEFINE before == IF done = << >> THEN << >> ELSE unwritten \o done
           left == IF done = << >> THEN unwritten ELSE << >>
           kept == left \o events
<1>1. before \in Seq(S) /\ left \in Seq(S)
  BY SMTT(60), Zenon
<1>2. kept \in Seq(S)
  <2> HIDE DEF left
  <2> QED
    BY <1>1, SMTT(60), Zenon
<1>3. \/ log' = log \o before /\ unwritten' = left /\ drift' = drift \cup Unapplied(before) \cup changed
      \/ \E n \in 0..Len(kept) : /\ log' = log \o (before \o SubSeq(kept, 1, n)) /\ unwritten' = kept
                                 /\ drift' = drift \cup Unapplied(before \o SubSeq(kept, 1, n)) \cup changed
  BY Zenon, SMTT(60) DEF AppendFails
<1> HIDE DEF before, left, kept
<1>4. ASSUME NEW n \in 0..Len(kept)
      PROVE  before \o SubSeq(kept, 1, n) \in Seq(S)
  <2>1. SubSeq(kept, 1, n) \in Seq(S)
    BY <1>2, SMTT(60), Zenon
  <2> QED
    BY <1>1, <2>1, SMTT(60), Zenon
<1> QED
  BY <1>1, <1>2, <1>3, <1>4, Zenon, SMTT(60)

(* The log with what the handle had kept, before the new lines. *)
LEMMA KeptFirst ==
    ASSUME PlansTyped, NEW events \in Seq(Entries), NEW changed, AppendWrites(events, changed)
    PROVE  LET base == log \o unwritten IN
           /\ base \in Seq(Entries) /\ Extends(base, log)
           /\ log' = base \o events /\ unwritten' = << >> /\ unwritten' \in Seq(Entries)
           /\ log' \in Seq(Entries) /\ Extends(log', base) /\ Extends(log', log)
           /\ drift' = drift \cup Unapplied(unwritten) \cup changed
           /\ Unapplied(unwritten) = {} => Replay(base) = Replay(log)
<1> DEFINE base == log \o unwritten
<1>1. log \in Seq(Entries) /\ unwritten \in Seq(Entries)
  BY Zenon DEF PlansTyped
<1>2. base \in Seq(Entries) /\ Extends(base, log)
  BY <1>1, MoreEvents, Zenon
<1>3. Unapplied(unwritten) = {} => Replay(base) = Replay(log)
  BY <1>1, UnappliedIs, ReplayUnconcerned, Zenon
<1>4. log' = base \o events /\ unwritten' = << >> /\ drift' = drift \cup Unapplied(unwritten) \cup changed
  BY Zenon DEF AppendWrites
<1> HIDE DEF base
<1>5. log' \in Seq(Entries) /\ Extends(log', base)
  BY <1>2, <1>4, MoreEvents, Zenon
<1>6. Extends(log', log)
  BY <1>1, <1>2, <1>5, ExtendsOn, Zenon
<1>7. unwritten' \in Seq(Entries)
  BY <1>4, SMTT(60), Zenon
<1> QED
  BY <1>2, <1>3, <1>4, <1>5, <1>6, <1>7, Zenon DEF base

(* EnsureCapabilities *)
LEMMA PlansAttach ==
    ASSUME PlansInv, NEW i \in Instances, EnsureCapabilities(i)
    PROVE  PlansInv'
<1> DEFINE es == <<AttachEvent(i)>>
<1>1. /\ PlansTyped /\ log \in Seq(Entries) /\ unwritten \in Seq(Entries)
      /\ plans \in [Instances -> SoundPlans \cup {Detached}]
      /\ call \in [Callers -> Calls \cup {Idle}]
      /\ drift \subseteq {"plans", "overtaken", "skills", "usage"}
  BY Zenon DEF PlansInv, PlansTyped
<1>2. plans[i] = Detached /\ call' = call
  BY Zenon, SMTT(60) DEF EnsureCapabilities, Attach
<1>3. es \in Seq(Entries)
  <2>1. AttachEvent(i) \in Entries
    BY SMTT(60), Zenon DEF AttachEvent, Entries, PlanEntries
  <2> QED
    BY <2>1, SMTT(60), Zenon
<1>4. CASE AppendFails(<< >>, es, {}) /\ plans' = plans
  <2>1. << >> \in Seq(Entries)
    BY ReplayNothing, Zenon
  <2>2. PICK more \in Seq(Entries) : /\ log' = log \o more /\ unwritten' \in Seq(Entries)
                                     /\ drift' = drift \cup Unapplied(more) \cup {}
    <3> HIDE DEF es
    <3> QED
      BY <1>1, <1>3, <1>4, <2>1, FailedAppend, Zenon
  <2>3. {} \in SUBSET {"skills", "usage"}
    OBVIOUS
  <2>4. CallsStay
    BY <1>2, CallsStayed, Zenon
  <2> QED
    BY <1>4, <2>2, <2>3, <2>4, PlansLand, ZenonT(60), SMTT(60)
<1>5. CASE AppendWrites(es, {}) /\ plans' = [plans EXCEPT ![i] = NewPlanner]
  <2> DEFINE base == log \o unwritten
  <2> HIDE DEF es
  <2>1. /\ base \in Seq(Entries) /\ Extends(base, log)
        /\ log' = base \o es /\ unwritten' = << >> /\ unwritten' \in Seq(Entries)
        /\ log' \in Seq(Entries) /\ Extends(log', base) /\ Extends(log', log)
        /\ drift' = drift \cup Unapplied(unwritten) \cup {}
        /\ Unapplied(unwritten) = {} => Replay(base) = Replay(log)
    BY <1>1, <1>3, <1>5, KeptFirst, Zenon
  <2> HIDE DEF base
  <2>2. log' = Append(base, AttachEvent(i))
    BY <2>1, SMTT(60), Zenon DEF es
  <2>3. \A j \in Instances : j # i => plans'[j] = plans[j]
    BY <1>1, <1>5, SMTT(60), Zenon
  <2>4. plans'[i] = NewPlanner
    BY <1>1, <1>5, SMTT(60), Zenon
  <2>5. \A c \in Callers : CallSound(call[c], log, plans)
    BY Zenon DEF PlansInv
  <2>6. \A c \in Callers : call[c] # Idle => call[c].inst \in Instances /\ call[c].inst # i
    BY <1>2, <2>5, CallFields, Zenon DEF CallSound
  <2>7. ASSUME NEW c \in Callers
        PROVE  CallSound(call[c], log, plans)'
    <3>1. call[c] # Idle => plans[call[c].inst] # Detached
      BY <2>5, Zenon DEF CallSound
    <3>2. call[c] # Idle => plans'[call[c].inst] # Detached
      BY <2>3, <2>6, <3>1, Zenon
    <3>3. CallSound(call[c], log', plans')
      BY <1>1, <2>1, <2>5, <3>2, CallSoundKept, ZenonT(60), SMTT(60)
    <3> QED
      BY <1>2, <3>3, Zenon, SMTT(60)
  <2>8. drift' \subseteq {"plans", "overtaken", "skills", "usage"}
    BY <1>1, <2>1, UnappliedIs, Zenon, SMTT(60)
  <2>9. PlansTyped'
    <3>1. plans' \in [Instances -> SoundPlans \cup {Detached}]
      BY <1>1, <1>5, NewPlannerSound, SMTT(60), Zenon
    <3> QED
      BY <1>1, <1>2, <2>1, <2>8, <3>1, Zenon DEF PlansTyped
  <2>10. CASE Unapplied(unwritten) = {"plans", "overtaken"}
    <3>1. "plans" \in drift' /\ "overtaken" \in drift'
      BY <2>1, <2>10, SMTT(60), Zenon
    <3> QED
      BY <2>7, <2>9, <3>1, PlansLost, Zenon
  <2>11. CASE Unapplied(unwritten) = {}
    <3>1. drift' = drift /\ Replay(base) = Replay(log)
      BY <2>1, <2>11, SMTT(60), Zenon
    <3>2. \A c \in Callers : call[c].at \in Applying =>
            call[c].inst \in Instances /\ call[c].inst # i /\ plans'[call[c].inst] = plans[call[c].inst]
      BY <2>3, <2>6, IdleIs, Zenon, SMTT(60)
    <3>3. Granted(call, plans) => Granted(call', plans')
      BY <1>2, <3>2, ZenonT(60), SMTT(60) DEF Granted
    <3>4. Taken(call, plans, log) => Taken(call', plans', log')
      <4> SUFFICES ASSUME Taken(call, plans, log), NEW c \in Callers, call[c].at = "applied"
                   PROVE  \E e \in ValidEvents :
                            Grants(plans'[call[c].inst], e, call[c].base) /\ Logged(log', call[c].inst, e)
        BY <1>2, Zenon DEF Taken
      <4>1. plans'[call[c].inst] = plans[call[c].inst]
        BY <3>2, Places, Zenon
      <4>2. PICK e \in ValidEvents :
              Grants(plans[call[c].inst], e, call[c].base) /\ Logged(log, call[c].inst, e)
        BY Zenon DEF Taken
      <4>3. Logged(log', call[c].inst, e)
        BY <1>1, <2>1, <4>2, LoggedStays, Zenon
      <4> QED
        BY <4>1, <4>2, <4>3, Zenon, SMTT(60)
    <3>5. Currents(plans) => Currents(plans')
      BY <2>3, <2>4, NewPlannerSound, Zenon, SMTT(60) DEF Currents
    <3>6. ASSUME Replay(log).ok
          PROVE  /\ Replay(log)'.ok
                 /\ Currents(Replay(log).plans) => Currents(Replay(log)'.plans)
                 /\ InStep(call, plans, Replay(log).plans) => InStep(call, plans', Replay(log)'.plans)
      <4> DEFINE rs == Replay(log).plans
                 rt == Replay(log)'.plans
      <4>1. rs \in [Instances -> SoundPlans \cup {Detached}]
        BY <1>1, ReplayTyped, SMTT(60), Zenon DEF Replays
      <4>2. Replay(log') = [ok |-> TRUE, plans |-> [rs EXCEPT ![i] = NewPlanner]]
        BY <2>1, <2>2, <3>1, <3>6, ReplayAttached, SMTT(60), Zenon
      <4>3. Replay(log)'.ok /\ rt = [rs EXCEPT ![i] = NewPlanner]
        BY <4>2, SMTT(60), Zenon
      <4>4. rt[i] = NewPlanner /\ \A j \in Instances : j # i => rt[j] = rs[j]
        BY <4>1, <4>3, SMTT(60), Zenon
      <4> HIDE DEF rs, rt
      <4>5. Currents(rs) => Currents(rt)
        BY <4>4, NewPlannerSound, Zenon, SMTT(60) DEF Currents
      <4>6. InStep(call, plans, rs) => InStep(call, plans', rt)
        BY <2>3, <2>4, <3>2, <4>4, ZenonT(60), SMTT(60) DEF InStep
      <4> QED
        BY <4>3, <4>5, <4>6, Zenon DEF rs, rt
    <3> QED
      BY <1>2, <2>7, <2>9, <3>1, <3>3, <3>4, <3>5, <3>6, ZenonT(60), SMTT(60) DEF PlansInv
  <2> QED
    BY <2>10, <2>11, UnappliedIs, Zenon
<1> QED
  BY <1>4, <1>5, Zenon, SMTT(60) DEF EnsureCapabilities, Attach

(* ApplyActions up to the append. *)
LEMMA PlansDraft ==
    ASSUME PlansInv, NEW c \in Callers, NEW i \in Instances, NEW b \in Batches, ApplyActionsDraft(c, i, b)
    PROVE  PlansInv'
<1> DEFINE k == [at |-> "drafted", inst |-> i, base |-> plans[i], events |-> b]
<1>1. /\ log \in Seq(Entries) /\ unwritten \in Seq(Entries)
      /\ plans \in [Instances -> SoundPlans \cup {Detached}]
      /\ call \in [Callers -> Calls \cup {Idle}]
      /\ drift \subseteq {"plans", "overtaken", "skills", "usage"}
  BY SMTT(60), Zenon DEF PlansInv, PlansTyped
<1>2. /\ call[c] = Idle /\ plans[i] # Detached /\ Draft(plans[i], b).ok
      /\ call' = [call EXCEPT ![c] = k]
      /\ log' = log /\ unwritten' = unwritten /\ plans' = plans /\ drift' = drift
  BY SMTT(60), Zenon DEF ApplyActionsDraft
<1>3. plans[i] \in SoundPlans /\ SoundPlan(plans[i])
  BY <1>1, <1>2, SMTT(60), Zenon DEF SoundPlans
<1>4. b \in Seq(Actions) /\ b # << >>
  BY AgentStateAssumption, SMTT(60), Zenon
<1>5. PICK q : Leads(plans[i], b, q)
  BY <1>2, <1>3, <1>4, DraftLeads, Zenon, SMTT(60)
<1>6. \A j \in DOMAIN b : ValidEvent(b[j])
  BY <1>3, <1>4, <1>5, LeadsKeeps, SMTT(60), Zenon
<1>7. b \in Seq(ValidEvents)
  <2>1. Len(b) \in Nat /\ b \in [1..Len(b) -> Actions] /\ DOMAIN b = 1..Len(b)
    BY <1>4
  <2>2. b \in [1..Len(b) -> ValidEvents]
    BY <1>6, <2>1, SMTT(60), Zenon DEF ValidEvents
  <2> QED
    BY <2>1, <2>2, SMTT(60), Zenon
<1>8. k \in Calls /\ k.at = "drafted" /\ k.inst = i /\ k.base = plans[i] /\ k.events = b
  BY <1>3, <1>4, <1>7, SMTT(60), Zenon DEF Calls
<1> HIDE DEF k
<1>9. call'[c] = k /\ \A d \in Callers : d # c => call'[d] = call[d]
  BY <1>1, <1>2, SMTT(60), Zenon
<1>10. PlansTyped'
  BY <1>1, <1>2, <1>8, Zenon, SMTT(60) DEF PlansTyped
<1>11. CallSound(k, log, plans)
  BY <1>2, <1>5, <1>8, Places, Zenon, SMTT(60) DEF CallSound
<1>12. \A d \in Callers : CallSound(call[d], log, plans)'
  BY <1>2, <1>9, <1>11, Zenon, SMTT(60) DEF PlansInv
<1>13. /\ \A d \in Callers : call'[d].at \in Applying => call'[d] = call[d]
       /\ \A d \in Callers : call[d].at \in Applying => call'[d] = call[d]
  BY <1>2, <1>8, <1>9, IdleIs, Places, Zenon, SMTT(60)
<1>14. \A j, e : Logged(log, j, e) => Logged(log', j, e)
  BY <1>2, Zenon, SMTT(60)
<1>15. /\ Apart(call) => Apart(call')
       /\ Granted(call, plans) => Granted(call', plans)
       /\ Taken(call, plans, log) => Taken(call', plans, log')
       /\ \A rs : InStep(call, plans, rs) => InStep(call', plans, rs)
  BY <1>13, <1>14, SameApplying, ZenonT(60), SMTT(60)
<1> QED
  BY <1>2, <1>10, <1>12, <1>15, ZenonT(60), SMTT(60) DEF PlansInv

(* A call ends among its events, with an error. *)
LEMMA PlansCallEnds ==
    ASSUME PlansInv, NEW c \in Callers, call' = [call EXCEPT ![c] = Idle],
           log' = log, unwritten' = unwritten, plans' = plans, drift' = drift \cup {"plans"}
    PROVE  PlansInv'
<1>1. /\ log \in Seq(Entries) /\ unwritten \in Seq(Entries)
      /\ plans \in [Instances -> SoundPlans \cup {Detached}]
      /\ call \in [Callers -> Calls \cup {Idle}]
      /\ drift \subseteq {"plans", "overtaken", "skills", "usage"}
  BY Zenon DEF PlansInv, PlansTyped
<1>2. call'[c] = Idle /\ \A d \in Callers : d # c => call'[d] = call[d]
  BY <1>1, SMTT(60), Zenon
<1>3. PlansTyped'
  BY <1>1, SMTT(60), Zenon DEF PlansTyped
<1>4. \A d \in Callers : CallSound(call[d], log, plans)'
  <2>1. CallSound(Idle, log, plans)
    BY DEF CallSound
  <2> QED
    BY <1>2, <2>1, SMTT(60), Zenon DEF PlansInv
<1>5. \A d \in Callers : call'[d].at \in Applying \/ call'[d].at = "applied" => d # c /\ call'[d] = call[d]
  BY <1>2, IdleIs, SMTT(60), Zenon
<1>6. Apart(call) => Apart(call')
  BY <1>5, SMTT(60), Zenon DEF Apart
<1>7. Granted(call, plans) => Granted(call', plans)
  BY <1>5, SMTT(60), Zenon DEF Granted
<1>8. Taken(call, plans, log) => Taken(call', plans, log)
  BY <1>5, Zenon, SMTT(60) DEF Taken
<1>9. "plans" \in drift' /\ ("overtaken" \in drift' <=> "overtaken" \in drift)
  BY SMTT(60), Zenon
<1> QED
  BY <1>3, <1>4, <1>6, <1>7, <1>8, <1>9, ZenonT(60), SMTT(60) DEF PlansInv

(* A caller past its draft: what its call holds. *)
LEMMA CallPast ==
    ASSUME PlansInv, NEW c \in Callers, call[c] # Idle
    PROVE  LET k == call[c] IN
           /\ k \in Calls /\ CallSound(k, log, plans) /\ plans[k.inst] # Detached
           /\ k.inst \in Instances /\ k.base \in SoundPlans /\ k.events \in Seq(ValidEvents)
           /\ plans[k.inst] \in SoundPlans /\ SoundPlan(plans[k.inst]) /\ SoundPlan(k.base)
           /\ k.at = "drafted" => k.events # << >> /\ \E q : Leads(k.base, k.events, q)
           /\ k.at = "appended" => k.events # << >>
           /\ k.at \in Applying => \A j \in DOMAIN k.events : Logged(log, k.inst, k.events[j])
<1> DEFINE k == call[c]
<1>1. CallSound(k, log, plans) /\ plans \in [Instances -> SoundPlans \cup {Detached}]
  BY Zenon DEF PlansInv, PlansTyped
<1>2. /\ k \in Calls /\ plans[k.inst] # Detached
      /\ k.at = "drafted" => \E q : Leads(k.base, k.events, q)
      /\ k.at \in Applying => \A j \in DOMAIN k.events : Logged(log, k.inst, k.events[j])
  BY <1>1, Zenon DEF CallSound
<1> HIDE DEF k
<1>3. /\ k.inst \in Instances /\ k.base \in SoundPlans /\ k.events \in Seq(ValidEvents)
      /\ k.at # "applied" => k.events # << >>
  BY <1>2, CallFields, Zenon
<1>4. plans[k.inst] \in SoundPlans
  BY <1>1, <1>2, <1>3, SMTT(60), Zenon
<1>5. k.at = "drafted" \/ k.at = "appended" => k.at # "applied"
  BY SMTT(60), Zenon
<1> QED
  BY <1>1, <1>2, <1>3, <1>4, <1>5, Zenon, SMTT(60) DEF SoundPlans, k

(* The lines of a batch in the log. *)
LEMMA BatchLogged ==
    ASSUME NEW events \in Seq(Entries), NEW i \in Instances, NEW es \in Seq(ValidEvents)
    PROVE  /\ Dispatches(i, es) \in Seq(Entries)
           /\ \A j \in DOMAIN es : Logged(events \o Dispatches(i, es), i, es[j])
<1> DEFINE d == Dispatches(i, es)
           all == events \o d
           N == Len(events)
<1>1. /\ d \in Seq(Entries) /\ Len(d) = Len(es) /\ DOMAIN d = DOMAIN es
      /\ \A j \in DOMAIN es : d[j] = DispatchEvent(i, es[j])
  BY DispatchesTyped, SMTT(60), Zenon
<1> HIDE DEF d
<1>2. /\ DOMAIN all = 1..(N + Len(d)) /\ N \in Nat /\ Len(d) \in Nat /\ DOMAIN d = 1..Len(d)
      /\ \A n \in 1..Len(d) : all[N + n] = d[n]
  BY <1>1, MoreEvents, ZenonT(60), SMTT(60)
<1> HIDE DEF all, N
<1>3. ASSUME NEW j \in DOMAIN es
      PROVE  Logged(all, i, es[j])
  <2>1. j \in 1..Len(d) /\ all[N + j] = DispatchEvent(i, es[j])
    BY <1>1, <1>2, SMTT(60), Zenon
  <2>2. N + j \in DOMAIN all
    BY <1>2, <2>1, SMTT(60), Zenon
  <2> QED
    BY <2>1, <2>2, SMTT(60), Zenon DEF Logged
<1> QED
  BY <1>1, <1>3, Zenon DEF d, all

(* The append of a batch. *)
LEMMA PlansAppend ==
    ASSUME PlansInv, NEW c \in Callers, ApplyActionsAppend(c)
    PROVE  PlansInv'
<1> DEFINE k == call[c]
           i == k.inst
           es == k.events
           d == Dispatches(i, es)
           changed == IF Overtaken(c) THEN {"plans", "overtaken"} ELSE {}
           new == [k EXCEPT !.at = "appended"]
<1>1. /\ PlansTyped /\ log \in Seq(Entries) /\ unwritten \in Seq(Entries)
      /\ plans \in [Instances -> SoundPlans \cup {Detached}]
      /\ call \in [Callers -> Calls \cup {Idle}]
      /\ drift \subseteq {"plans", "overtaken", "skills", "usage"}
  BY Zenon DEF PlansInv, PlansTyped
<1>2. k.at = "drafted" /\ plans' = plans
  BY Zenon DEF ApplyActionsAppend
<1>3. k # Idle
  BY <1>2, IdleIs, SMTT(60), Zenon
<1>4. /\ k \in Calls /\ plans[i] # Detached /\ i \in Instances /\ k.base \in SoundPlans
      /\ es \in Seq(ValidEvents) /\ es # << >> /\ SoundPlan(plans[i])
      /\ \E q : Leads(k.base, es, q)
  BY <1>2, <1>3, CallPast, Zenon
<1>5. d \in Seq(Entries) /\ d = [j \in DOMAIN call[c].events |-> DispatchEvent(call[c].inst, call[c].events[j])]
  <2>1. d \in Seq(Entries)
    BY <1>4, DispatchesTyped, Zenon
  <2> QED
    BY <2>1, Zenon, SMTT(60) DEF Dispatches
<1>6. k.at \notin Applying
  BY <1>2, Places, Zenon
<1>7. CASE AppendFails(<< >>, d, {}) /\ call' = [call EXCEPT ![c] = Idle]
  <2> HIDE DEF d
  <2>1. << >> \in Seq(Entries) /\ {} \in SUBSET {"skills", "usage"}
    BY ReplayNothing, Zenon
  <2>2. PICK more \in Seq(Entries) : /\ log' = log \o more /\ unwritten' \in Seq(Entries)
                                     /\ drift' = drift \cup Unapplied(more) \cup {}
    BY <1>1, <1>5, <1>7, <2>1, FailedAppend, Zenon
  <2>3. CallsStay
    <3>1. call' \in [Callers -> Calls \cup {Idle}]
      BY <1>1, <1>7, SMTT(60), Zenon
    <3>2. call'[c] = Idle /\ \A o \in Callers : o # c => call'[o] = call[o]
      BY <1>1, <1>7, SMTT(60), Zenon
    <3> QED
      BY <1>6, <3>1, <3>2, Zenon DEF CallsStay
  <2> QED
    BY <1>2, <2>1, <2>2, <2>3, PlansLand, ZenonT(60), SMTT(60)
<1>8. CASE AppendWrites(d, changed) /\ call' = [call EXCEPT ![c].at = "appended"]
  <2> DEFINE base == log \o unwritten
  <2> HIDE DEF d
  <2>1. /\ base \in Seq(Entries) /\ Extends(base, log)
        /\ log' = base \o d /\ unwritten' = << >> /\ unwritten' \in Seq(Entries)
        /\ log' \in Seq(Entries) /\ Extends(log', base) /\ Extends(log', log)
        /\ drift' = drift \cup Unapplied(unwritten) \cup changed
        /\ Unapplied(unwritten) = {} => Replay(base) = Replay(log)
    <3> HIDE DEF changed
    <3> QED
      BY <1>1, <1>5, <1>8, KeptFirst, Zenon
  <2> HIDE DEF base
  <2>2. \A j \in DOMAIN es : Logged(log', i, es[j])
    BY <1>4, <2>1, BatchLogged, Zenon DEF d
  <2>3. new \in Calls /\ new.at = "appended" /\ new.inst = i /\ new.base = k.base /\ new.events = es
    <3>1. /\ k \in [at: {"drafted", "appended"}, inst: Instances, base: SoundPlans, events: Seq(ValidEvents) \ {<< >>}]
      BY <1>2, <1>4, SMTT(60), Zenon DEF Calls
    <3> QED
      BY <3>1, SMTT(60), Zenon DEF Calls
  <2>4. call' = [call EXCEPT ![c] = new]
    BY <1>1, <1>8, SMTT(60), Zenon
  <2> HIDE DEF new
  <2>5. call'[c] = new /\ \A o \in Callers : o # c => call'[o] = call[o]
    BY <1>1, <2>4, SMTT(60), Zenon
  <2>6. drift' \subseteq {"plans", "overtaken", "skills", "usage"}
    <3>1. changed \subseteq {"plans", "overtaken"}
      BY Zenon, SMTT(60)
    <3> HIDE DEF changed
    <3> QED
      BY <1>1, <2>1, <3>1, UnappliedIs, Zenon, SMTT(60)
  <2>7. PlansTyped'
    <3>1. call' \in [Callers -> Calls \cup {Idle}]
      BY <1>1, <2>3, <2>4, SMTT(60), Zenon
    <3> QED
      BY <1>1, <1>2, <2>1, <2>6, <3>1, Zenon, SMTT(60) DEF PlansTyped
  <2>8. CallSound(new, log', plans)
    <3> HIDE DEF k, i, es
    <3> QED
      BY <1>4, <2>2, <2>3, Zenon, SMTT(60) DEF CallSound
  <2>9. ASSUME NEW o \in Callers, o # c
        PROVE  CallSound(call[o], log', plans)
    <3>1. CallSound(call[o], log, plans)
      BY Zenon DEF PlansInv
    <3>2. call[o] # Idle => plans[call[o].inst] # Detached
      BY <3>1, Zenon DEF CallSound
    <3> QED
      BY <1>1, <2>1, <3>1, <3>2, CallSoundKept, ZenonT(60), SMTT(60)
  <2>10. \A o \in Callers : CallSound(call[o], log, plans)'
    BY <1>2, <2>5, <2>8, <2>9, Zenon, SMTT(60)
  <2>11. CASE Overtaken(c) \/ Unapplied(unwritten) # {}
    <3>1. Unapplied(unwritten) # {} => Unapplied(unwritten) = {"plans", "overtaken"}
      BY UnappliedIs, Zenon
    <3>2. "plans" \in drift' /\ "overtaken" \in drift'
      BY <2>1, <2>11, <3>1, ZenonT(60), SMTT(60)
    <3> QED
      BY <2>7, <2>10, <3>2, PlansLost, Zenon
  <2>12. CASE ~Overtaken(c) /\ Unapplied(unwritten) = {}
    <3>1. drift' = drift /\ Replay(base) = Replay(log)
      BY <2>1, <2>12, Zenon, SMTT(60)
    <3>2. /\ "plans" \notin drift /\ plans[i] = k.base
          /\ \A o \in Callers : o # c => ~(call[o].at \in Applying /\ call[o].inst = i)
      BY <2>12, Zenon, SMTT(60) DEF Overtaken
    <3> DEFINE rs == Replay(log).plans
               rt == Replay(log)'.plans
    <3>3. /\ Replay(log).ok /\ InStep(call, plans, rs)
          /\ Apart(call) /\ Granted(call, plans) /\ Taken(call, plans, log)
      BY <3>2, Zenon DEF PlansInv
    <3>4. ~Busy(call, i)
      BY <1>6, <3>2, Zenon DEF Busy
    <3>5. rs[i] = plans[i] /\ rs[i] # Detached
      BY <1>4, <3>3, <3>4, Zenon DEF InStep
    <3>6. PICK q : Leads(k.base, es, q)
      BY <1>4, Zenon
    <3>7. rs \in [Instances -> SoundPlans \cup {Detached}]
      BY <1>1, ReplayTyped, SMTT(60), Zenon DEF Replays
    <3>8. Leads(plans[i], es, q)
      BY <3>2, <3>6, Zenon
    <3>9. Replay(log') = [ok |-> TRUE, plans |-> [rs EXCEPT ![i] = q]]
      <4>1. Leads(Replay(base).plans[i], es, q) /\ Replay(base).ok /\ Replay(base).plans[i] # Detached
        BY <3>1, <3>3, <3>5, <3>8, Zenon, SMTT(60)
      <4>2. Replay(base \o Dispatches(i, es)) = [ok |-> TRUE, plans |-> [Replay(base).plans EXCEPT ![i] = q]]
        <5>1. base \in Seq(Entries) /\ i \in Instances /\ es \in Seq(ValidEvents)
          BY <1>4, <2>1, Zenon
        <5> HIDE DEF k, i, es
        <5> QED
          BY <4>1, <5>1, ReplayBatch, ZenonT(60), SMTT(60)
      <4> QED
        BY <2>1, <3>1, <4>2, Zenon, SMTT(60) DEF d
    <3>10. Replay(log)'.ok /\ rt[i] = q /\ \A j \in Instances : j # i => rt[j] = rs[j]
      BY <1>4, <3>7, <3>9, SMTT(60), Zenon
    <3> HIDE DEF rs, rt
    <3>11. \A o \in Callers : call'[o].at \in Applying =>
             o = c \/ (o # c /\ call'[o] = call[o] /\ call[o].inst # i /\ call[o].at \in Applying)
      BY <2>5, <3>2, Zenon, SMTT(60)
    <3>12. From(new, plans[i]) = plans[i]
      BY <2>3, SMTT(60), Zenon DEF From
    <3> HIDE DEF k, i, es
    <3>13. Apart(call')
      BY <2>3, <2>5, <3>3, <3>11, Zenon, SMTT(60) DEF Apart
    <3>14. Granted(call', plans)
      <4> SUFFICES ASSUME NEW o \in Callers, call'[o].at \in Applying
                   PROVE  \E p : Leads(From(call'[o], plans[call'[o].inst]), call'[o].events, p)
        BY Zenon DEF Granted
      <4>1. CASE o = c
        BY <2>3, <2>5, <3>8, <3>12, <4>1, Zenon, SMTT(60)
      <4>2. CASE o # c
        BY <3>3, <3>11, <4>2, Zenon, SMTT(60) DEF Granted
      <4> QED
        BY <4>1, <4>2, Zenon
    <3>15. Taken(call', plans, log')
      <4> SUFFICES ASSUME NEW o \in Callers, call'[o].at = "applied"
                   PROVE  \E e \in ValidEvents :
                            Grants(plans[call'[o].inst], e, call'[o].base) /\ Logged(log', call'[o].inst, e)
        BY Zenon DEF Taken
      <4>1. o # c
        BY <2>3, <2>5, SMTT(60), Zenon
      <4>2. call'[o] = call[o] /\ call[o].at = "applied"
        BY <2>5, <4>1, Zenon
      <4>3. PICK e \in ValidEvents :
              Grants(plans[call[o].inst], e, call[o].base) /\ Logged(log, call[o].inst, e)
        BY <3>3, <4>2, Zenon DEF Taken
      <4>4. Logged(log', call[o].inst, e)
        BY <1>1, <2>1, <4>3, LoggedStays, Zenon
      <4> QED
        BY <4>2, <4>3, <4>4, Zenon, SMTT(60)
    <3>16. Currents(plans) /\ Currents(rs) => Currents(rt)
      <4>1. es \in Seq(Actions)
        BY <1>4, SMTT(60), Zenon DEF ValidEvents
      <4>2. CurrentExists(plans[i]) => CurrentExists(q)
        BY <1>4, <3>8, <4>1, LeadsKeeps, Zenon, SMTT(60)
      <4> QED
        BY <1>4, <3>10, <4>2, SMTT(60), Zenon DEF Currents
    <3>17. InStep(call', plans, rt)
      <4>1. \A j \in Instances : ~Busy(call', j) => j # i /\ ~Busy(call, j)
        BY <1>6, <2>3, <2>5, Places, Zenon, SMTT(60) DEF Busy, k
      <4>2. \A j \in Instances : ~Busy(call', j) => rt[j] = plans[j]
        BY <3>3, <3>10, <4>1, Zenon, SMTT(60) DEF InStep
      <4>3. ASSUME NEW o \in Callers, call'[o].at \in Applying
            PROVE  Leads(From(call'[o], plans[call'[o].inst]), call'[o].events, rt[call'[o].inst])
        <5>1. CASE o = c
          BY <2>3, <2>5, <3>8, <3>10, <3>12, <5>1, Zenon, SMTT(60)
        <5>2. CASE o # c
          <6>1. call'[o] = call[o] /\ call[o].inst # i /\ call[o].at \in Applying
            BY <3>11, <4>3, <5>2, Zenon
          <6>2. call[o].inst \in Instances
            BY <1>1, <6>1, ApplyingCall, Zenon
          <6> QED
            BY <3>3, <3>10, <6>1, <6>2, Zenon, SMTT(60) DEF InStep
        <5> QED
          BY <5>1, <5>2, Zenon
      <4> QED
        BY <4>2, <4>3, Zenon, SMTT(60) DEF InStep
    <3> QED
      BY <1>2, <2>7, <2>10, <3>1, <3>10, <3>13, <3>14, <3>15, <3>16, <3>17, ZenonT(60), SMTT(60)
      DEF PlansInv, rs, rt
  <2> QED
    BY <2>11, <2>12, Zenon
<1> QED
  <2>1. \/ AppendWrites(d, changed) /\ call' = [call EXCEPT ![c].at = "appended"]
        \/ AppendFails(<< >>, d, {}) /\ call' = [call EXCEPT ![c] = Idle]
    BY <1>5, Zenon, SMTT(60) DEF ApplyActionsAppend
  <2> QED
    BY <1>7, <1>8, <2>1, Zenon

(* What ApplyEvent does to the plan when the event is accepted. *)
LEMMA AppliedNext ==
    ASSUME NEW p, SoundPlan(p), NEW es \in Seq(ValidEvents), es # << >>, applyEventTo(p, Head(es)).ok
    PROVE  LET next == applyEventTo(p, Head(es)).plan IN
           /\ next \in SoundPlans
           /\ es \in Seq(Actions) /\ Tail(es) \in Seq(ValidEvents)
           /\ Head(es) \in ValidEvents /\ 1 \in DOMAIN es /\ Head(es) = es[1]
           /\ \A j \in DOMAIN Tail(es) : j + 1 \in DOMAIN es /\ Tail(es)[j] = es[j + 1]
<1>1. /\ Len(es) \in Nat /\ Len(es) >= 1 /\ DOMAIN es = 1..Len(es) /\ Head(es) = es[1]
      /\ Tail(es) \in Seq(ValidEvents) /\ Len(Tail(es)) = Len(es) - 1
      /\ \A j \in 1..(Len(es) - 1) : Tail(es)[j] = es[j + 1]
  OBVIOUS
<1>2. DOMAIN Tail(es) = 1..(Len(es) - 1)
  BY <1>1, SMTT(60), Zenon
<1>3. \A j \in DOMAIN Tail(es) : j + 1 \in DOMAIN es /\ Tail(es)[j] = es[j + 1]
  BY <1>1, <1>2, SMTT(60), Zenon
<1>4. Head(es) \in ValidEvents /\ 1 \in DOMAIN es
  BY <1>1
<1>5. ValidEvent(Head(es))
  BY <1>4 DEF ValidEvents
<1>6. applyEventTo(p, Head(es)).plan \in SoundPlans
  BY <1>5, ApplyTotal, SMTT(60), Zenon
<1>7. es \in Seq(Actions)
  <2>1. ValidEvents \subseteq Actions
    BY SMTT(60), Zenon DEF ValidEvents
  <2> QED
    BY <2>1
<1> QED
  BY <1>1, <1>3, <1>4, <1>6, <1>7, SMTT(60), Zenon

(* Planner.ApplyEvent for the next event of a batch, up to the copy. *)
LEMMA PlansApply ==
    ASSUME PlansInv, NEW c \in Callers, ApplyActionsApply(c)
    PROVE  PlansInv'
<1> DEFINE k == call[c]
           i == k.inst
           es == k.events
           next == applyEventTo(plans[i], Head(es)).plan
           new == [at |-> "applied", inst |-> i, base |-> next, events |-> Tail(es)]
<1>1. /\ log \in Seq(Entries) /\ unwritten \in Seq(Entries)
      /\ plans \in [Instances -> SoundPlans \cup {Detached}]
      /\ call \in [Callers -> Calls \cup {Idle}]
      /\ drift \subseteq {"plans", "overtaken", "skills", "usage"}
  BY Zenon DEF PlansInv, PlansTyped
<1>2. k.at = "appended" /\ log' = log /\ unwritten' = unwritten /\ plans' = plans
  BY Zenon DEF ApplyActionsApply
<1>3. k.at \in Applying /\ k # Idle
  BY <1>2, IdleIs, Places, Zenon
<1>4. /\ k \in Calls /\ plans[i] # Detached /\ i \in Instances
      /\ es \in Seq(ValidEvents) /\ es # << >> /\ SoundPlan(plans[i])
      /\ \A j \in DOMAIN es : Logged(log, i, es[j])
  BY <1>2, <1>3, CallPast, Zenon
<1>5. CASE call' = [call EXCEPT ![c] = Idle] /\ drift' = drift \cup {"plans"}
  BY <1>2, <1>5, PlansCallEnds, Zenon
<1>6. CASE applyEventTo(plans[i], Head(es)).ok /\ call' = [call EXCEPT ![c] = new] /\ drift' = drift
  <2>1. /\ next \in SoundPlans /\ es \in Seq(Actions) /\ Tail(es) \in Seq(ValidEvents)
        /\ Head(es) \in ValidEvents /\ 1 \in DOMAIN es /\ Head(es) = es[1]
        /\ \A j \in DOMAIN Tail(es) : j + 1 \in DOMAIN es /\ Tail(es)[j] = es[j + 1]
    BY <1>4, <1>6, AppliedNext, Zenon
  <2>2. /\ new \in Calls /\ new.at = "applied" /\ new.inst = i /\ new.base = next /\ new.events = Tail(es)
    <3>1. i \in Instances /\ next \in SoundPlans /\ Tail(es) \in Seq(ValidEvents)
      BY <1>4, <2>1, Zenon
    <3> HIDE DEF i, next, es
    <3> QED
      BY <3>1, SMTT(60), Zenon DEF Calls
  <2>3. new.at \in Applying
    BY <2>2, Places, Zenon
  <2>4. ASSUME NEW q, Leads(plans[i], es, q)
        PROVE  Grants(plans[i], Head(es), next) /\ Leads(next, Tail(es), q)
    <3>1. es \in Seq(Actions) /\ es # << >>
      BY <1>4, <2>1, Zenon
    <3> QED
      BY <2>4, <3>1, LeadsOn, Zenon
  <2> HIDE DEF new, next
  <2>5. call'[c] = new /\ \A o \in Callers : o # c => call'[o] = call[o]
    BY <1>1, <1>6, SMTT(60), Zenon
  <2>6. PlansTyped'
    <3>1. call' \in [Callers -> Calls \cup {Idle}]
      BY <1>1, <1>6, <2>2, SMTT(60), Zenon
    <3> QED
      BY <1>1, <1>2, <1>6, <3>1, Zenon, SMTT(60) DEF PlansTyped
  <2>7. CallSound(new, log, plans)
    <3>1. \A j \in DOMAIN Tail(es) : Logged(log, i, Tail(es)[j])
      BY <1>4, <2>1, Zenon, SMTT(60)
    <3>2. new.at # "drafted"
      BY <2>2, SMTT(60), Zenon
    <3> HIDE DEF k, i, es
    <3> QED
      BY <1>4, <2>2, <3>1, <3>2, Zenon, SMTT(60) DEF CallSound
  <2>8. \A o \in Callers : CallSound(call[o], log, plans)'
    BY <1>2, <2>5, <2>7, Zenon, SMTT(60) DEF PlansInv
  <2>9. \A o \in Callers : /\ call'[o].at \in Applying <=> call[o].at \in Applying
                           /\ call'[o].at \in Applying => call'[o].inst = call[o].inst
    BY <1>3, <2>2, <2>3, <2>5, Zenon, SMTT(60)
  <2>10. Apart(call) => Apart(call')
    BY <2>9, Zenon, SMTT(60) DEF Apart
  <2>11. From(k, plans[i]) = plans[i] /\ From(new, plans[i]) = next
    BY <1>2, <2>2, SMTT(60), Zenon DEF From
  <2>12. Granted(call, plans) => Granted(call', plans)
    <3> SUFFICES ASSUME Granted(call, plans), NEW o \in Callers, call'[o].at \in Applying
                 PROVE  \E q : Leads(From(call'[o], plans[call'[o].inst]), call'[o].events, q)
      BY Zenon DEF Granted
    <3>1. CASE o = c
      <4>1. PICK q : Leads(plans[i], es, q)
        BY <1>3, <2>11, Zenon, SMTT(60) DEF Granted
      <4>2. Leads(next, Tail(es), q)
        BY <2>4, <4>1, Zenon
      <4> QED
        BY <2>2, <2>5, <2>11, <3>1, <4>2, Zenon, SMTT(60)
    <3>2. CASE o # c
      BY <2>5, <3>2, Zenon, SMTT(60) DEF Granted
    <3> QED
      BY <3>1, <3>2, Zenon
  <2>13. Granted(call, plans) /\ Taken(call, plans, log) => Taken(call', plans, log)
    <3> SUFFICES ASSUME Granted(call, plans), Taken(call, plans, log), NEW o \in Callers, call'[o].at = "applied"
                 PROVE  \E e \in ValidEvents :
                          Grants(plans[call'[o].inst], e, call'[o].base) /\ Logged(log, call'[o].inst, e)
      BY Zenon DEF Taken
    <3>1. CASE o = c
      <4>1. PICK q : Leads(plans[i], es, q)
        BY <1>3, <2>11, Zenon, SMTT(60) DEF Granted
      <4>2. Grants(plans[i], Head(es), next)
        BY <2>4, <4>1, Zenon
      <4>3. Head(es) \in ValidEvents /\ Logged(log, i, Head(es))
        BY <1>4, <2>1, Zenon, SMTT(60)
      <4> QED
        BY <2>2, <2>5, <3>1, <4>2, <4>3, Zenon, SMTT(60)
    <3>2. CASE o # c
      BY <2>5, <3>2, Zenon, SMTT(60) DEF Taken
    <3> QED
      BY <3>1, <3>2, Zenon
  <2>14. ASSUME NEW rs, InStep(call, plans, rs)
         PROVE  InStep(call', plans, rs)
    <3>1. \A j \in Instances : Busy(call', j) <=> Busy(call, j)
      BY <2>9, Zenon, SMTT(60) DEF Busy
    <3>2. ASSUME NEW o \in Callers, call'[o].at \in Applying
          PROVE  Leads(From(call'[o], plans[call'[o].inst]), call'[o].events, rs[call'[o].inst])
      <4>1. CASE o = c
        <5>1. Leads(plans[i], es, rs[i])
          BY <1>3, <2>11, <2>14, Zenon, SMTT(60) DEF InStep
        <5>2. Leads(next, Tail(es), rs[i])
          BY <2>4, <5>1, Zenon
        <5> QED
          BY <2>2, <2>5, <2>11, <4>1, <5>2, Zenon, SMTT(60)
      <4>2. CASE o # c
        BY <2>5, <2>14, <3>2, <4>2, Zenon, SMTT(60) DEF InStep
      <4> QED
        BY <4>1, <4>2, Zenon
    <3> QED
      BY <2>14, <3>1, <3>2, Zenon, SMTT(60) DEF InStep
  <2> QED
    BY <1>2, <1>6, <2>6, <2>8, <2>10, <2>12, <2>13, <2>14, ZenonT(60), SMTT(60) DEF PlansInv
<1> QED
  BY <1>5, <1>6, Zenon, SMTT(60) DEF ApplyActionsApply

(* The copy becomes the plan. *)
LEMMA PlansSet ==
    ASSUME PlansInv, NEW c \in Callers, ApplyActionsSet(c)
    PROVE  PlansInv'
<1> DEFINE k == call[c]
           i == k.inst
           es == k.events
           next == k.base
           new == IF es = << >> THEN Idle ELSE [k EXCEPT !.at = "appended"]
           rs == Replay(log).plans
<1>1. /\ log \in Seq(Entries) /\ unwritten \in Seq(Entries)
      /\ plans \in [Instances -> SoundPlans \cup {Detached}]
      /\ call \in [Callers -> Calls \cup {Idle}]
      /\ drift \subseteq {"plans", "overtaken", "skills", "usage"}
  BY Zenon DEF PlansInv, PlansTyped
<1>2. /\ k.at = "applied" /\ log' = log /\ unwritten' = unwritten /\ drift' = drift
      /\ plans' = [plans EXCEPT ![i] = next] /\ call' = [call EXCEPT ![c] = new]
  BY Zenon DEF ApplyActionsSet
<1>3. k.at \in Applying /\ k # Idle
  BY <1>2, IdleIs, Places, Zenon
<1>4. /\ k \in Calls /\ plans[i] # Detached /\ i \in Instances /\ next \in SoundPlans
      /\ es \in Seq(ValidEvents) /\ SoundPlan(plans[i])
      /\ \A j \in DOMAIN es : Logged(log, i, es[j])
  BY <1>3, CallPast, Zenon
<1>5. /\ es = << >> => new = Idle
      /\ es # << >> => /\ new \in Calls /\ new.at = "appended" /\ new.inst = i /\ new.events = es
  <2>1. k \in [at: {"applied"}, inst: Instances, base: SoundPlans, events: Seq(ValidEvents)]
    BY <1>2, <1>4, SMTT(60), Zenon DEF Calls
  <2>2. ASSUME es # << >>
        PROVE  new \in Calls /\ new.at = "appended" /\ new.inst = i /\ new.events = es
    BY <2>1, <2>2, SMTT(60), Zenon DEF Calls
  <2> QED
    BY <2>2, Zenon, SMTT(60)
<1> HIDE DEF new
<1>6. call'[c] = new /\ \A o \in Callers : o # c => call'[o] = call[o]
  BY <1>1, <1>2, SMTT(60), Zenon
<1>7. plans'[i] = next /\ \A j \in Instances : j # i => plans'[j] = plans[j]
  BY <1>1, <1>2, <1>4, SMTT(60), Zenon
<1>8. PlansTyped'
  <2>1. plans' \in [Instances -> SoundPlans \cup {Detached}]
    BY <1>1, <1>2, <1>4, SMTT(60), Zenon
  <2>2. new \in Calls \cup {Idle}
    BY <1>5, Zenon, SMTT(60)
  <2>3. call' \in [Callers -> Calls \cup {Idle}]
    BY <1>1, <1>2, <2>2, SMTT(60), Zenon
  <2> QED
    BY <1>1, <1>2, <2>1, <2>3, Zenon, SMTT(60) DEF PlansTyped
<1>9. \A j \in Instances : plans[j] # Detached => plans'[j] # Detached
  BY <1>4, <1>7, DetachedIsNoPlan, Zenon, SMTT(60)
<1>10. ASSUME NEW o \in Callers, o # c
       PROVE  CallSound(call[o], log, plans')
  <2>1. CallSound(call[o], log, plans)
    BY Zenon DEF PlansInv
  <2>2. call[o] # Idle => call[o].inst \in Instances /\ plans[call[o].inst] # Detached
    BY CallPast, Zenon
  <2> QED
    BY <1>1, <1>9, <2>1, <2>2, CallSoundKept, ExtendsItself, ZenonT(60), SMTT(60)
<1>11. CallSound(new, log, plans')
  <2>1. CASE es = << >>
    BY <1>5, <2>1, Zenon DEF CallSound
  <2>2. CASE es # << >>
    <3>1. new \in Calls /\ new.at = "appended" /\ new.inst = i /\ new.events = es /\ new.at # "drafted"
      BY <1>5, <2>2, SMTT(60), Zenon
    <3>2. plans'[i] # Detached
      BY <1>4, <1>9, Zenon
    <3> HIDE DEF k, i, es
    <3> QED
      BY <1>4, <3>1, <3>2, Zenon, SMTT(60) DEF CallSound
  <2> QED
    BY <2>1, <2>2, Zenon
<1>12. \A o \in Callers : CallSound(call[o], log, plans)'
  BY <1>2, <1>6, <1>10, <1>11, Zenon, SMTT(60)
<1>13. new.at \in Applying => es # << >> /\ new.inst = i /\ new.events = es /\ new.at = "appended"
  BY <1>5, IdleIs, Zenon
<1>14. new.at # "applied"
  BY <1>5, IdleIs, SMTT(60), Zenon
<1>15. From(k, plans[i]) = next /\ (new.at \in Applying => From(new, plans'[i]) = next)
  BY <1>2, <1>7, <1>14, Zenon, SMTT(60) DEF From
<1>16. ASSUME Apart(call), NEW o \in Callers, o # c, call[o].at \in Applying
       PROVE  call[o].inst \in Instances /\ call[o].inst # i /\ plans'[call[o].inst] = plans[call[o].inst]
  <2>1. call[o].inst # i
    BY <1>3, <1>16, Zenon DEF Apart
  <2>2. call[o].inst \in Instances
    BY <1>16, ApplyingCall, Zenon DEF PlansInv
  <2> QED
    BY <1>7, <2>1, <2>2, Zenon
<1>17. Apart(call) => Apart(call')
  <2>1. \A o \in Callers : call'[o].at \in Applying => call[o].at \in Applying /\ call'[o].inst = call[o].inst
    BY <1>3, <1>6, <1>13, Zenon, SMTT(60)
  <2> QED
    BY <2>1, Zenon, SMTT(60) DEF Apart
<1>18. Apart(call) /\ Granted(call, plans) => Granted(call', plans')
  <2> SUFFICES ASSUME Apart(call), Granted(call, plans), NEW o \in Callers, call'[o].at \in Applying
               PROVE  \E q : Leads(From(call'[o], plans'[call'[o].inst]), call'[o].events, q)
    BY Zenon DEF Granted
  <2>1. CASE o = c
    <3>1. \E q : Leads(next, es, q)
      BY <1>3, <1>15, Zenon, SMTT(60) DEF Granted
    <3> QED
      BY <1>6, <1>13, <1>15, <2>1, <3>1, Zenon, SMTT(60)
  <2>2. CASE o # c
    BY <1>6, <1>16, <2>2, Zenon, SMTT(60) DEF Granted
  <2> QED
    BY <2>1, <2>2, Zenon
<1>19. Apart(call) /\ Taken(call, plans, log) => Taken(call', plans', log')
  <2> SUFFICES ASSUME Apart(call), Taken(call, plans, log), NEW o \in Callers, call'[o].at = "applied"
               PROVE  \E e \in ValidEvents :
                        Grants(plans'[call'[o].inst], e, call'[o].base) /\ Logged(log, call'[o].inst, e)
    BY <1>2, Zenon DEF Taken
  <2>1. o # c
    BY <1>6, <1>14, Zenon
  <2>2. call'[o] = call[o] /\ call[o].at = "applied" /\ call[o].at \in Applying
    BY <1>6, <2>1, Places, Zenon
  <2>3. plans'[call[o].inst] = plans[call[o].inst]
    BY <1>16, <2>1, <2>2, Zenon
  <2> QED
    BY <2>2, <2>3, Zenon, SMTT(60) DEF Taken
<1>20. Taken(call, plans, log) /\ Currents(plans) => Currents(plans')
  <2> SUFFICES ASSUME Taken(call, plans, log), Currents(plans)
               PROVE  Currents(plans')
    BY Zenon
  <2>1. PICK e \in ValidEvents : Grants(plans[i], e, next)
    BY <1>2, Zenon DEF Taken
  <2>2. CurrentExists(plans[i]) /\ e \in Actions
    BY <1>4, SMTT(60), Zenon DEF Currents, ValidEvents
  <2>3. CurrentExists(next)
    <3> DEFINE p == plans[i]
    <3>1. SoundPlan(p) /\ CurrentExists(p) /\ e \in Actions /\ Grants(p, e, next)
      BY <1>4, <2>1, <2>2, Zenon
    <3> HIDE DEF p, next
    <3> QED
      BY <3>1, GrantsKeep
  <2> QED
    BY <1>7, <2>3, Zenon, SMTT(60) DEF Currents
<1> HIDE DEF rs
<1>21. Apart(call) /\ InStep(call, plans, rs) => InStep(call', plans', rs)
  <2> SUFFICES ASSUME Apart(call), InStep(call, plans, rs)
               PROVE  InStep(call', plans', rs)
    BY Zenon
  <2>1. Leads(next, es, rs[i])
    BY <1>3, <1>15, Zenon, SMTT(60) DEF InStep
  <2>2. ASSUME NEW j \in Instances, ~Busy(call', j)
        PROVE  rs[j] = plans'[j]
    <3>1. CASE j = i
      <4>1. es = << >>
        BY <1>5, <1>6, <2>2, <3>1, Places, Zenon, SMTT(60) DEF Busy
      <4>2. Leads(next, << >>, rs[i])
        BY <2>1, <4>1, Zenon
      <4>3. next = rs[i]
        BY <4>2, LeadsNowhere, Zenon
      <4> QED
        BY <1>7, <3>1, <4>3, Zenon
    <3>2. CASE j # i
      <4>1. ~Busy(call, j)
        BY <1>6, <2>2, <3>2, Zenon, SMTT(60) DEF Busy
      <4> QED
        BY <1>7, <3>2, <4>1, Zenon, SMTT(60) DEF InStep
    <3> QED
      BY <3>1, <3>2, Zenon
  <2>3. ASSUME NEW o \in Callers, call'[o].at \in Applying
        PROVE  Leads(From(call'[o], plans'[call'[o].inst]), call'[o].events, rs[call'[o].inst])
    <3>1. CASE o = c
      BY <1>6, <1>13, <1>15, <2>1, <2>3, <3>1, Zenon, SMTT(60)
    <3>2. CASE o # c
      BY <1>6, <1>16, <2>3, <3>2, Zenon, SMTT(60) DEF InStep
    <3> QED
      BY <3>1, <3>2, Zenon
  <2> QED
    BY <2>2, <2>3, Zenon, SMTT(60) DEF InStep
<1> QED
  BY <1>2, <1>8, <1>12, <1>17, <1>18, <1>19, <1>20, <1>21, ZenonT(60), SMTT(60) DEF PlansInv, rs

(* Reset and Resume *)
LEMMA PlansResume ==
    ASSUME PlansInv, Resume
    PROVE  PlansInv'
<1>1. /\ log \in Seq(Entries) /\ plans \in [Instances -> SoundPlans \cup {Detached}]
      /\ drift \subseteq {"plans", "overtaken", "skills", "usage"}
  BY Zenon DEF PlansInv, PlansTyped
<1>2. log' = log /\ unwritten' = << >> /\ call' = [c \in Callers |-> Idle]
  BY Zenon, SMTT(60) DEF Resume
<1>3. \A c \in Callers : call'[c].at \notin Applying /\ call'[c].at # "applied" /\ call'[c] = Idle
  BY <1>2, IdleIs, SMTT(60), Zenon
<1>4. /\ Apart(call') /\ Granted(call', plans') /\ Taken(call', plans', log')
      /\ \A ps : InStep(call', ps, ps)
  BY <1>3, SMTT(60), Zenon DEF Apart, Granted, Taken, InStep
<1>5. \A c \in Callers : CallSound(call[c], log, plans)'
  BY <1>3, Zenon, SMTT(60) DEF CallSound
<1>6. unwritten' \in Seq(Entries)
  BY <1>2, ReplayNothing, Zenon
<1>7. CASE Replay(log).ok /\ plans' = Replay(log).plans /\ drift' = drift \cap {"overtaken"}
  <2>1. Replay(log).plans \in [Instances -> SoundPlans \cup {Detached}]
    BY <1>1, ReplayTyped, Zenon, SMTT(60) DEF Replays
  <2>2. PlansTyped'
    BY <1>1, <1>2, <1>6, <1>7, <2>1, SMTT(60), Zenon DEF PlansTyped
  <2>3. "overtaken" \notin drift' => Currents(Replay(log).plans)
    BY <1>7, SMTT(60), Zenon DEF PlansInv
  <2> QED
    BY <1>2, <1>4, <1>5, <1>7, <2>2, <2>3, Zenon, SMTT(60) DEF PlansInv
<1>8. CASE ~Replay(log).ok /\ plans' = plans /\ drift' = drift
  <2>1. PlansTyped'
    BY <1>1, <1>2, <1>6, <1>8, SMTT(60), Zenon DEF PlansTyped
  <2>2. "plans" \in drift /\ "overtaken" \in drift
    BY <1>8, Zenon, SMTT(60) DEF PlansInv
  <2> QED
    BY <1>5, <1>8, <2>1, <2>2, PlansLost, Zenon
<1> QED
  BY <1>7, <1>8, ZenonT(60), SMTT(60) DEF Resume, ResumeThreadRuntime

LEMMA PlansReset ==
    ASSUME PlansInv, Reset
    PROVE  PlansInv'
<1>1. /\ log \in Seq(Entries) /\ unwritten \in Seq(Entries)
      /\ plans \in [Instances -> SoundPlans \cup {Detached}]
      /\ call \in [Callers -> Calls \cup {Idle}]
      /\ drift \subseteq {"plans", "overtaken", "skills", "usage"}
  BY Zenon DEF PlansInv, PlansTyped
<1>2. CASE /\ log' = << >> /\ unwritten' = << >> /\ plans' = NoPlans
           /\ drift' = IF skills = NewActivationState THEN {} ELSE {"skills"}
  <2>1. call' = call /\ \A c \in Callers : call[c] = Idle /\ call[c].at \notin Applying /\ call[c].at # "applied"
    BY IdleIs, Zenon DEF Reset, Quiet
  <2>2. drift' \subseteq {"skills"} /\ "overtaken" \notin drift' /\ "plans" \notin drift'
    BY <1>2, SMTT(60), Zenon
  <2>3. PlansTyped'
    BY <1>1, <1>2, <2>1, <2>2, ReplayNothing, Zenon, SMTT(60) DEF PlansTyped, NoPlans
  <2>4. \A c \in Callers : CallSound(call[c], log, plans)'
    BY <2>1, Zenon, SMTT(60) DEF CallSound
  <2>5. Apart(call') /\ Granted(call', plans') /\ Taken(call', plans', log') /\ InStep(call', NoPlans, NoPlans)
    BY <2>1, SMTT(60), Zenon DEF Apart, Granted, Taken, InStep
  <2>6. Replay(log)'.ok /\ Replay(log)'.plans = NoPlans
    BY <1>2, ReplayNothing, SMTT(60), Zenon
  <2>7. Currents(NoPlans)
    BY SMTT(60), Zenon DEF Currents, NoPlans
  <2> QED
    BY <1>2, <2>3, <2>4, <2>5, <2>6, <2>7, SMTT(60), Zenon DEF PlansInv
<1>3. CASE /\ drift' = IF tracker > 0 THEN drift \cup {"usage"} ELSE drift
           /\ UNCHANGED <<log, unwritten, plans>>
  <2>1. call' = call
    BY Zenon DEF Reset
  <2>2. /\ drift' \subseteq {"plans", "overtaken", "skills", "usage"}
        /\ drift' \cap {"plans", "overtaken"} = drift \cap {"plans", "overtaken"}
    BY <1>1, <1>3, SMTT(60), Zenon
  <2>3. log' = log /\ plans' = plans /\ unwritten' = unwritten /\ Extends(log', log)
    BY <1>1, <1>3, ExtendsItself, Zenon
  <2>4. CallsStay
    BY <2>1, CallsStayed, Zenon
  <2>5. log' \in Seq(Entries) /\ unwritten' \in Seq(Entries) /\ Replay(log') = Replay(log)
    BY <1>1, <2>3, Zenon
  <2> QED
    BY <2>2, <2>3, <2>4, <2>5, PlansUnconcerned, Zenon
<1> QED
  BY <1>2, <1>3, Zenon, SMTT(60) DEF Reset

=============================================================================
