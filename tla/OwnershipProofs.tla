--------------------------- MODULE OwnershipProofs ---------------------------
(***************************************************************************)
(* What the operators of Ownership compute: Closure is the least set that  *)
(* contains where it starts and is closed under the edges, a task that is  *)
(* done stays done, and what a new edge may do to circles.                 *)
(***************************************************************************)
EXTENDS Ownership, FiniteSetTheorems, TLAPS

(* Induction over the naturals, as a least counterexample. *)
LEMMA LeastNat ==
  ASSUME NEW T \in SUBSET Nat, T # {}
  PROVE  \E x \in T : \A y \in T : x <= y
<1> DEFINE R == OpToRel(<, Nat)
<1>1. PICK x \in T : \A y \in T : ~(<<y, x>> \in R)
  BY NatLessThanWellFounded, WFMin
<1>2. ASSUME NEW y \in T
      PROVE  x <= y
  <2>1. x \in Nat /\ y \in Nat
    OBVIOUS
  <2>2. <<y, x>> \in Nat \X Nat /\ <<y, x>>[1] = y /\ <<y, x>>[2] = x
    BY <2>1
  <2>3. y < x => <<y, x>> \in R
    BY <2>2, Zenon DEF OpToRel
  <2>4. ~(y < x)
    BY <1>1, <2>3, Zenon
  <2> QED BY ONLY <2>1, <2>4
<1> QED BY <1>2

LEMMA AllNat ==
  ASSUME NEW T \in SUBSET Nat, 0 \in T, \A n \in Nat : n \in T => n + 1 \in T
  PROVE  T = Nat
<1> SUFFICES ASSUME Nat \ T # {} PROVE FALSE
  OBVIOUS
<1>1. PICK x \in Nat \ T : \A y \in Nat \ T : x <= y
  BY LeastNat
<1>2. x - 1 \in Nat /\ (x - 1) + 1 = x /\ ~(x <= x - 1)
  BY <1>1
<1>3. x - 1 \in T
  BY <1>1, <1>2
<1> QED BY <1>1, <1>2, <1>3

-----------------------------------------------------------------------------
(* Closure. *)

Near(edges, X) == X \union UNION {edges[t] : t \in X}

(* g is how the closure of S begins, up to step n. *)
Begins(edges, S, n, g) ==
  \A i \in 0..n : g[i] = IF i = 0 THEN S ELSE Near(edges, g[i - 1])

LEMMA BeginningsExist ==
  ASSUME NEW edges, NEW S
  PROVE  \A n \in Nat : \E g : Begins(edges, S, n, g)
<1> DEFINE T == {n \in Nat : \E g : Begins(edges, S, n, g)}
<1>1. 0 \in T
  <2> DEFINE g == [i \in 0..0 |-> S]
  <2>1. \A i \in 0..0 : i = 0 /\ g[i] = S
    OBVIOUS
  <2> HIDE DEF g
  <2>2. Begins(edges, S, 0, g)
    BY <2>1 DEF Begins
  <2> QED BY <2>2
<1>2. ASSUME NEW n \in T PROVE n + 1 \in T
  <2>1. PICK g : Begins(edges, S, n, g)
    OBVIOUS
  <2> DEFINE h == [i \in 0..(n + 1) |-> IF i = n + 1 THEN Near(edges, g[n]) ELSE g[i]]
  <2>2. ASSUME NEW i \in 0..(n + 1)
        PROVE  h[i] = IF i = 0 THEN S ELSE Near(edges, h[i - 1])
    <3>1. CASE i = n + 1
      <4>1. h[i] = Near(edges, g[n])
        BY <3>1
      <4>2. n \in 0..(n + 1) /\ n # n + 1 /\ i - 1 = n /\ i # 0
        BY <3>1
      <4>3. h[n] = g[n]
        BY <4>2
      <4> QED BY <4>1, <4>2, <4>3
    <3>2. CASE i \in 0..n
      <4>1. h[i] = g[i] /\ i \in Nat
        BY <3>2
      <4>2. i # 0 => i - 1 \in 0..(n + 1) /\ i - 1 # n + 1
        BY <3>2
      <4>3. i # 0 => h[i - 1] = g[i - 1]
        BY <4>2
      <4>4. \A k \in 0..n : g[k] = IF k = 0 THEN S ELSE Near(edges, g[k - 1])
        BY <2>1 DEF Begins
      <4>5. g[i] = IF i = 0 THEN S ELSE Near(edges, g[i - 1])
        BY <3>2, <4>4
      <4> QED BY <4>1, <4>3, <4>5
    <3> QED BY <3>1, <3>2
  <2> HIDE DEF h
  <2>3. Begins(edges, S, n + 1, h)
    BY <2>2 DEF Begins
  <2> QED BY <2>3
<1> HIDE DEF T
<1>3. T = Nat
  BY <1>1, <1>2, AllNat DEF T
<1> QED BY <1>3 DEF T

LEMMA BeginningsAgree ==
  ASSUME NEW edges, NEW S, NEW n \in Nat, NEW m \in Nat, n <= m,
         NEW g, NEW h, Begins(edges, S, n, g), Begins(edges, S, m, h)
  PROVE  g[n] = h[n]
<1> DEFINE T == {i \in Nat : i <= n => g[i] = h[i]}
<1>0. \A i \in 0..n : /\ g[i] = IF i = 0 THEN S ELSE Near(edges, g[i - 1])
                     /\ h[i] = IF i = 0 THEN S ELSE Near(edges, h[i - 1])
  <2>1. \A i \in 0..n : g[i] = IF i = 0 THEN S ELSE Near(edges, g[i - 1])
    BY DEF Begins
  <2>2. \A i \in 0..m : h[i] = IF i = 0 THEN S ELSE Near(edges, h[i - 1])
    BY DEF Begins
  <2>3. 0..n \subseteq 0..m
    OBVIOUS
  <2> QED BY <2>1, <2>2, <2>3
<1>1. 0 \in T
  BY <1>0
<1>2. ASSUME NEW i \in Nat, i \in T PROVE i + 1 \in T
  <2> SUFFICES ASSUME i + 1 <= n PROVE g[i + 1] = h[i + 1]
    OBVIOUS
  <2>1. g[i] = h[i] /\ i + 1 \in 0..n /\ i + 1 # 0 /\ (i + 1) - 1 = i
    BY <1>2
  <2>2. g[i + 1] = Near(edges, g[i]) /\ h[i + 1] = Near(edges, h[i])
    BY <1>0, <2>1
  <2> QED BY <2>1, <2>2
<1> HIDE DEF T
<1>3. T = Nat
  BY <1>1, <1>2, AllNat DEF T
<1> QED BY <1>3 DEF T

(* The steps that Closure's definition chooses. *)
Steps(edges, S) ==
  CHOOSE f : f = [n \in Nat |-> IF n = 0 THEN S ELSE Near(edges, f[n - 1])]

LEMMA StepsExist ==
  ASSUME NEW edges, NEW S
  PROVE  Steps(edges, S) =
           [n \in Nat |-> IF n = 0 THEN S ELSE Near(edges, Steps(edges, S)[n - 1])]
<1> DEFINE G(n) == CHOOSE g : Begins(edges, S, n, g)
           F == [n \in Nat |-> G(n)[n]]
<1>1. \A n \in Nat : Begins(edges, S, n, G(n))
  BY BeginningsExist
<1>2. ASSUME NEW n \in Nat
      PROVE  F[n] = IF n = 0 THEN S ELSE Near(edges, F[n - 1])
  <2> HIDE DEF G
  <2>1. G(n)[n] = IF n = 0 THEN S ELSE Near(edges, G(n)[n - 1])
    BY <1>1 DEF Begins
  <2>2. ASSUME n # 0 PROVE G(n)[n - 1] = G(n - 1)[n - 1]
    <3>1. n - 1 \in Nat /\ n - 1 <= n
      BY <2>2
    <3> QED BY <1>1, <3>1, BeginningsAgree
  <2>3. F[n] = G(n)[n] /\ (n # 0 => n - 1 \in Nat /\ F[n - 1] = G(n - 1)[n - 1])
    OBVIOUS
  <2> QED BY <2>1, <2>2, <2>3
<1>3. F = [n \in Nat |-> IF n = 0 THEN S ELSE Near(edges, F[n - 1])]
  <2>1. F = [n \in Nat |-> F[n]]
    OBVIOUS
  <2> HIDE DEF F
  <2> QED BY <1>2, <2>1
<1> HIDE DEF F
<1> QED BY <1>3, Zenon DEF Steps

LEMMA ClosureSteps ==
  ASSUME NEW edges, NEW S
  PROVE  /\ Closure(edges, S) = Steps(edges, S)[Cardinality(DOMAIN edges)]
         /\ Steps(edges, S)[0] = S
         /\ \A n \in Nat : Steps(edges, S)[n + 1] = Near(edges, Steps(edges, S)[n])
<1>1. Closure(edges, S) = Steps(edges, S)[Cardinality(DOMAIN edges)]
  BY DEF Closure, Steps, Near
<1> DEFINE f == Steps(edges, S)
<1>2. f = [n \in Nat |-> IF n = 0 THEN S ELSE Near(edges, f[n - 1])]
  BY StepsExist
<1> HIDE DEF f
<1>3. f[0] = S
  BY <1>2
<1>4. ASSUME NEW n \in Nat PROVE f[n + 1] = Near(edges, f[n])
  <2>1. n + 1 \in Nat /\ n + 1 # 0 /\ (n + 1) - 1 = n
    OBVIOUS
  <2>2. f[n + 1] = IF n + 1 = 0 THEN S ELSE Near(edges, f[(n + 1) - 1])
    BY <1>2, <2>1
  <2> QED BY <2>1, <2>2
<1> QED BY <1>1, <1>3, <1>4 DEF f


(* The graph of an operator's edges: every task points to tasks. *)
IsGraph(edges) == edges \in [DOMAIN edges -> SUBSET DOMAIN edges]
ClosedUnder(edges, C) == \A x \in C \intersect DOMAIN edges : edges[x] \subseteq C

LEMMA StepsInside ==
  ASSUME NEW edges, IsGraph(edges), NEW S \in SUBSET DOMAIN edges,
         NEW C, S \subseteq C, ClosedUnder(edges, C)
  PROVE  \A n \in Nat : Steps(edges, S)[n] \subseteq C \intersect DOMAIN edges
<1> DEFINE f == Steps(edges, S)
           T == {n \in Nat : f[n] \subseteq C \intersect DOMAIN edges}
<1>1. f[0] = S /\ \A n \in Nat : f[n + 1] = Near(edges, f[n])
  BY ClosureSteps
<1> HIDE DEF f
<1>2. 0 \in T
  BY <1>1
<1>3. ASSUME NEW n \in Nat, n \in T PROVE n + 1 \in T
  <2>1. Near(edges, f[n]) \subseteq C \intersect DOMAIN edges
    BY <1>3 DEF Near, IsGraph, ClosedUnder
  <2> QED BY <1>1, <2>1
<1> HIDE DEF T
<1>4. T = Nat
  BY <1>2, <1>3, AllNat DEF T
<1> QED BY <1>4 DEF T, f

(* Closure is contained in every closed set that contains S. *)
LEMMA ClosureLeast ==
  ASSUME NEW edges, IsGraph(edges), IsFiniteSet(DOMAIN edges), NEW S \in SUBSET DOMAIN edges,
         NEW C, S \subseteq C, ClosedUnder(edges, C)
  PROVE  Closure(edges, S) \subseteq C
<1>1. Cardinality(DOMAIN edges) \in Nat
  BY FS_CardinalityType
<1> QED BY <1>1, StepsInside, ClosureSteps

(* A step that is not the last one adds a task. *)
LEMMA StepsGrow ==
  ASSUME NEW edges, IsGraph(edges), IsFiniteSet(DOMAIN edges), NEW S \in SUBSET DOMAIN edges
  PROVE  \A n \in Nat : \/ Near(edges, Steps(edges, S)[n]) = Steps(edges, S)[n]
                        \/ Cardinality(Steps(edges, S)[n]) > n
<1> DEFINE f == Steps(edges, S)
           T == {n \in Nat : Near(edges, f[n]) = f[n] \/ Cardinality(f[n]) > n}
<1>1. f[0] = S /\ \A n \in Nat : f[n + 1] = Near(edges, f[n])
  BY ClosureSteps
<1>2. \A n \in Nat : f[n] \subseteq DOMAIN edges
  <2>1. ClosedUnder(edges, DOMAIN edges)
    BY DEF ClosedUnder, IsGraph
  <2> QED BY <2>1, StepsInside
<1> HIDE DEF f
<1>3. ASSUME NEW n \in Nat
      PROVE  IsFiniteSet(f[n]) /\ Cardinality(f[n]) \in Nat
  BY <1>2, FS_Subset, FS_CardinalityType
<1>4. 0 \in T
  <2>1. CASE S = {}
    BY <1>1, <2>1 DEF Near
  <2>2. CASE S # {}
    <3>1. IsFiniteSet(S) /\ Cardinality(S) \in Nat /\ Cardinality(S) # 0
      BY <1>1, <1>3, <2>2, FS_EmptySet
    <3>2. Cardinality(S) > 0
      BY <3>1
    <3> QED BY <1>1, <3>2
  <2> QED BY <2>1, <2>2
<1>5. ASSUME NEW n \in Nat, n \in T PROVE n + 1 \in T
  <2>1. CASE Near(edges, f[n]) = f[n]
    BY <1>1, <2>1
  <2>2. CASE Near(edges, f[n]) # f[n]
    <3>1. f[n] \subseteq f[n + 1] /\ f[n] # f[n + 1]
      BY <1>1, <2>2 DEF Near
    <3>2. IsFiniteSet(f[n + 1]) /\ Cardinality(f[n + 1]) \in Nat /\ Cardinality(f[n]) \in Nat
      BY <1>3
    <3>3. Cardinality(f[n]) <= Cardinality(f[n + 1]) /\ Cardinality(f[n]) # Cardinality(f[n + 1])
      BY <3>1, <3>2, FS_Subset
    <3>4. Cardinality(f[n]) > n
      BY <1>5, <2>2
    <3>5. Cardinality(f[n + 1]) > n + 1
      BY <3>2, <3>3, <3>4
    <3> QED BY <3>5
  <2> QED BY <2>1, <2>2
<1> HIDE DEF T
<1>6. T = Nat
  BY <1>4, <1>5, AllNat DEF T
<1> QED BY <1>6 DEF T, f

(* Closure contains S and is closed itself. *)
LEMMA ClosureClosed ==
  ASSUME NEW edges, IsGraph(edges), IsFiniteSet(DOMAIN edges), NEW S \in SUBSET DOMAIN edges
  PROVE  /\ S \subseteq Closure(edges, S)
         /\ Closure(edges, S) \subseteq DOMAIN edges
         /\ ClosedUnder(edges, Closure(edges, S))
<1> DEFINE N == Cardinality(DOMAIN edges)
           f == Steps(edges, S)
           T == {n \in Nat : S \subseteq f[n]}
<1>1. N \in Nat
  BY FS_CardinalityType
<1>2. f[0] = S /\ (\A n \in Nat : f[n + 1] = Near(edges, f[n])) /\ Closure(edges, S) = f[N]
  BY ClosureSteps
<1>3. f[N] \subseteq DOMAIN edges
  <2>1. ClosedUnder(edges, DOMAIN edges)
    BY DEF ClosedUnder, IsGraph
  <2> QED BY <1>1, <2>1, StepsInside
<1>4. Near(edges, f[N]) = f[N] \/ Cardinality(f[N]) > N
  BY <1>1, StepsGrow
<1> HIDE DEF f
<1>5. Cardinality(f[N]) <= N
  BY <1>3, FS_Subset
<1>6. Cardinality(f[N]) \in Nat
  BY <1>3, FS_Subset, FS_CardinalityType
<1>7. Near(edges, f[N]) = f[N]
  BY <1>1, <1>4, <1>5, <1>6
<1>8. ClosedUnder(edges, f[N])
  BY <1>7 DEF Near, ClosedUnder
<1>9. T = Nat
  <2>1. 0 \in T
    BY <1>2
  <2>2. ASSUME NEW n \in Nat, n \in T PROVE n + 1 \in T
    BY <1>2, <2>2 DEF Near
  <2> HIDE DEF T
  <2> QED BY <2>1, <2>2, AllNat DEF T
<1>10. S \subseteq f[N]
  BY <1>1, <1>9
<1> QED BY <1>2, <1>3, <1>8, <1>10


(* More edges and more to start from reach more. *)
LEMMA ClosureMonotone ==
  ASSUME NEW E, IsGraph(E), IsFiniteSet(DOMAIN E), NEW S \in SUBSET DOMAIN E,
         NEW E2, IsGraph(E2), IsFiniteSet(DOMAIN E2), NEW S2 \in SUBSET DOMAIN E2,
         DOMAIN E \subseteq DOMAIN E2, \A x \in DOMAIN E : E[x] \subseteq E2[x], S \subseteq S2
  PROVE  Closure(E, S) \subseteq Closure(E2, S2)
<1> DEFINE C == Closure(E2, S2)
<1>1. S2 \subseteq C /\ ClosedUnder(E2, C)
  BY ClosureClosed
<1>2. S \subseteq C /\ ClosedUnder(E, C)
  BY <1>1 DEF ClosedUnder
<1> QED BY <1>2, ClosureLeast

(* What can be reached from something that is reached is reached. *)
LEMMA ClosureOnward ==
  ASSUME NEW E, IsGraph(E), IsFiniteSet(DOMAIN E), NEW S \in SUBSET DOMAIN E,
         NEW x \in Closure(E, S)
  PROVE  /\ x \in DOMAIN E /\ E[x] \in SUBSET DOMAIN E
         /\ Closure(E, E[x]) \subseteq Closure(E, S)
<1>1. ClosedUnder(E, Closure(E, S)) /\ Closure(E, S) \subseteq DOMAIN E
  BY ClosureClosed
<1>2. x \in DOMAIN E /\ E[x] \in SUBSET DOMAIN E /\ E[x] \subseteq Closure(E, S)
  BY <1>1 DEF ClosedUnder, IsGraph
<1> QED BY <1>1, <1>2, ClosureLeast

-----------------------------------------------------------------------------
(* The graphs of a snapshot. *)

LEMMA GraphsOf ==
  ASSUME NEW tasks, Linked(tasks)
  PROVE  /\ IsGraph(DepEdges(tasks)) /\ DOMAIN DepEdges(tasks) = DOMAIN tasks
         /\ IsGraph(Successors(tasks)) /\ DOMAIN Successors(tasks) = DOMAIN tasks
         /\ IsGraph(WaitEdges(tasks)) /\ DOMAIN WaitEdges(tasks) = DOMAIN tasks
         /\ IsGraph(ReplanEdges(tasks)) /\ DOMAIN ReplanEdges(tasks) = DOMAIN tasks
         /\ IsFiniteSet(DOMAIN tasks)
<1>1. IsGraph(DepEdges(tasks)) /\ DOMAIN DepEdges(tasks) = DOMAIN tasks
  BY DEF Linked, IsGraph, DepEdges
<1>2. IsGraph(Successors(tasks)) /\ DOMAIN Successors(tasks) = DOMAIN tasks
  BY DEF Linked, IsGraph, Successors
<1>3. IsGraph(WaitEdges(tasks)) /\ DOMAIN WaitEdges(tasks) = DOMAIN tasks
  BY DEF Linked, IsGraph, WaitEdges
<1>4. IsGraph(ReplanEdges(tasks)) /\ DOMAIN ReplanEdges(tasks) = DOMAIN tasks
  BY <1>2 DEF Linked, IsGraph, ReplanEdges
<1> QED BY <1>1, <1>2, <1>3, <1>4 DEF Linked

(* One snapshot later: nothing finished is taken back. *)
Later(s, s2) ==
  /\ DOMAIN s \subseteq DOMAIN s2
  /\ \A t \in DOMAIN s :
       /\ s[t].state = "DONE" => s2[t].state = "DONE"
       /\ s[t].state = "SUPERSEDED" => s2[t].state = "SUPERSEDED" /\ s2[t].by = s[t].by

LEMMA DoneStays ==
  ASSUME NEW s, Linked(s), NEW s2, Linked(s2), Later(s, s2), NEW d \in DOMAIN s,
         DependencyDone(s, d)
  PROVE  DependencyDone(s2, d)
<1>1. CASE s[d].state = "DONE"
  BY <1>1 DEF Later, DependencyDone
<1>2. CASE s[d].state = "SUPERSEDED" /\ \E t \in Closure(Successors(s), {d}) : s[t].state = "DONE"
  <2>1. PICK t \in Closure(Successors(s), {d}) : s[t].state = "DONE"
    BY <1>2
  <2>2. \A x \in DOMAIN s : Successors(s)[x] \subseteq Successors(s2)[x]
    BY DEF Later, Successors
  <2>3. {d} \in SUBSET DOMAIN s /\ {d} \in SUBSET DOMAIN s2 /\ DOMAIN s \subseteq DOMAIN s2
    BY DEF Later
  <2>4. Closure(Successors(s), {d}) \subseteq Closure(Successors(s2), {d})
    BY <2>2, <2>3, GraphsOf, ClosureMonotone
  <2>5. t \in DOMAIN s
    BY <2>1, <2>3, GraphsOf, ClosureClosed
  <2>6. s2[t].state = "DONE" /\ s2[d].state = "SUPERSEDED"
    BY <1>2, <2>1, <2>5 DEF Later
  <2> QED BY <2>1, <2>4, <2>6 DEF DependencyDone
<1> QED BY <1>1, <1>2 DEF DependencyDone

(* A replaced task is done when its replacement is. *)
LEMMA ReplacementDone ==
  ASSUME NEW s, Linked(s), NEW d \in DOMAIN s, s[d].state = "SUPERSEDED"
  PROVE  s[d].by \in DOMAIN s /\ (DependencyDone(s, d) <=> DependencyDone(s, s[d].by))
<1> DEFINE E == Successors(s)
           b == s[d].by
<1>1. b \in DOMAIN s /\ E[d] = {b}
  BY DEF Linked, Successors
<1>2. IsGraph(E) /\ DOMAIN E = DOMAIN s /\ IsFiniteSet(DOMAIN E)
  BY GraphsOf
<1> HIDE DEF E, b
<1>3. {d} \in SUBSET DOMAIN E /\ {b} \in SUBSET DOMAIN E
  BY <1>1, <1>2
<1>4. d \in Closure(E, {d}) /\ b \in Closure(E, {b}) /\ ClosedUnder(E, Closure(E, {b}))
      /\ Closure(E, {b}) \subseteq DOMAIN s
  BY <1>2, <1>3, ClosureClosed
<1>5. Closure(E, {d}) \subseteq {d} \union Closure(E, {b})
  <2>1. ClosedUnder(E, {d} \union Closure(E, {b}))
    BY <1>1, <1>4 DEF ClosedUnder
  <2> QED BY <1>2, <1>3, <2>1, ClosureLeast
<1>6. Closure(E, {b}) \subseteq Closure(E, {d})
  BY <1>1, <1>2, <1>3, <1>4, ClosureOnward
<1>7. ASSUME NEW t \in Closure(E, {b}), s[t].state = "DONE"
      PROVE  s[b].state = "DONE" \/ s[b].state = "SUPERSEDED"
  <2> SUFFICES ASSUME s[b].state # "SUPERSEDED" PROVE s[b].state = "DONE"
    OBVIOUS
  <2>1. E[b] = {}
    BY <1>1 DEF E, Successors
  <2>2. ClosedUnder(E, {b})
    BY <2>1 DEF ClosedUnder
  <2>3. Closure(E, {b}) \subseteq {b}
    BY <1>2, <1>3, <2>2, ClosureLeast
  <2> QED BY <1>7, <2>3
<1>8. DependencyDone(s, d) => DependencyDone(s, b)
  BY <1>5, <1>7 DEF DependencyDone, E
<1>9. DependencyDone(s, b) => DependencyDone(s, d)
  BY <1>4, <1>6 DEF DependencyDone, E
<1> QED BY <1>1, <1>8, <1>9 DEF b

(* The tasks of a snapshot that count as done. *)
DoneTasks(s) == {d \in DOMAIN s : DependencyDone(s, d)}

LEMMA DoneIsFinished ==
  ASSUME NEW s, NEW d \in DoneTasks(s)
  PROVE  s[d].state \in {"DONE", "SUPERSEDED"}
BY DEF DoneTasks, DependencyDone

(* All that a done task waits for is done. *)
LEMMA DoneWaits ==
  ASSUME NEW s, Linked(s), Grounded(s)
  PROVE  ClosedUnder(WaitEdges(s), DoneTasks(s))
<1> SUFFICES ASSUME NEW d \in DoneTasks(s) PROVE WaitEdges(s)[d] \subseteq DoneTasks(s)
  BY DEF ClosedUnder
<1>1. CASE s[d].state = "DONE"
  <2>1. WaitEdges(s)[d] = s[d].deps /\ d \in DOMAIN s
    BY <1>1 DEF WaitEdges, DoneTasks
  <2>2. s[d].deps \subseteq DOMAIN s /\ DependenciesComplete(s, d)
    BY <1>1, <2>1 DEF Linked, Grounded
  <2> QED BY <2>1, <2>2 DEF DependenciesComplete, DoneTasks
<1>2. CASE s[d].state = "SUPERSEDED"
  BY <1>2, ReplacementDone DEF WaitEdges, DoneTasks
<1> QED BY <1>1, <1>2, DoneIsFinished

(* So is what a replaced task waited for before. *)
LEMMA DoneReplan ==
  ASSUME NEW s, Linked(s), Grounded(s), Transferred(s)
  PROVE  ClosedUnder(ReplanEdges(s), DoneTasks(s))
<1> SUFFICES ASSUME NEW d \in DoneTasks(s) PROVE ReplanEdges(s)[d] \subseteq DoneTasks(s)
  BY DEF ClosedUnder
<1>0. d \in DOMAIN s
  BY DEF DoneTasks
<1>1. CASE s[d].state = "DONE"
  <2>1. ReplanEdges(s)[d] = s[d].deps
    BY <1>0, <1>1 DEF ReplanEdges, Successors
  <2>2. s[d].deps \subseteq DOMAIN s /\ DependenciesComplete(s, d)
    BY <1>0, <1>1 DEF Linked, Grounded
  <2> QED BY <2>1, <2>2 DEF DependenciesComplete, DoneTasks
<1>2. CASE s[d].state = "SUPERSEDED"
  <2> DEFINE b == s[d].by
             E == Successors(s)
  <2>1. b \in DOMAIN s /\ DependencyDone(s, b) /\ ReplanEdges(s)[d] = s[d].deps \union {b}
    BY <1>0, <1>2, ReplacementDone DEF ReplanEdges, Successors, DoneTasks
  <2>2. ASSUME NEW e \in s[d].deps PROVE DependencyDone(s, e) /\ e \in DOMAIN s
    <3>0. e \in DOMAIN s
      BY <1>0 DEF Linked
    <3> DEFINE K == {x \in DOMAIN s : \/ e \in s[x].deps
                                      \/ s[e].state = "SUPERSEDED" /\ x \in Closure(E, {e})
                                      \/ DependencyDone(s, e)}
    <3>1. IsGraph(E) /\ DOMAIN E = DOMAIN s /\ IsFiniteSet(DOMAIN s)
      BY GraphsOf
    <3>2. ClosedUnder(E, Closure(E, {e})) /\ Closure(E, {e}) \subseteq DOMAIN s /\ e \in Closure(E, {e})
      BY <3>0, <3>1, ClosureClosed
    <3>3. ClosedUnder(E, K)
      <4> SUFFICES ASSUME NEW x \in K, NEW y \in E[x] PROVE y \in K
        BY DEF ClosedUnder
      <4>1. y = s[x].by /\ s[x].state = "SUPERSEDED" /\ y \in DOMAIN s
        BY DEF E, Successors, Linked
      <4>2. CASE e \in s[x].deps
        <5>1. e \in s[y].deps \/ (s[e].state = "SUPERSEDED" /\ s[e].by = y)
          BY <4>1, <4>2 DEF Transferred
        <5>2. s[e].state = "SUPERSEDED" => s[e].by \in Closure(E, {e})
          BY <3>0, <3>2 DEF ClosedUnder, E, Successors
        <5> QED BY <4>1, <5>1, <5>2
      <4>3. CASE s[e].state = "SUPERSEDED" /\ x \in Closure(E, {e})
        <5> HIDE DEF E
        <5>1. y \in Closure(E, {e})
          BY <3>1, <3>2, <4>3 DEF ClosedUnder
        <5> QED BY <4>1, <4>3, <5>1
      <4>4. CASE DependencyDone(s, e)
        BY <4>1, <4>4
      <4> QED BY <4>2, <4>3, <4>4
    <3>4. Closure(E, {d}) \subseteq K
      <4> HIDE DEF E, K
      <4>1. {d} \subseteq K /\ {d} \in SUBSET DOMAIN E
        BY <1>0, <3>1 DEF K
      <4> QED BY <3>1, <3>3, <4>1, ClosureLeast
    <3>5. PICK t \in Closure(E, {d}) : s[t].state = "DONE"
      BY <1>2 DEF DoneTasks, DependencyDone
    <3>6. CASE e \in s[t].deps
      <4>1. DependenciesComplete(s, t)
        BY <3>4, <3>5 DEF Grounded
      <4> QED BY <3>0, <3>6, <4>1 DEF DependenciesComplete
    <3>7. CASE s[e].state = "SUPERSEDED" /\ t \in Closure(E, {e})
      BY <3>0, <3>5, <3>7 DEF DependencyDone
    <3>8. t \in K
      BY <3>4, <3>5
    <3> QED BY <3>0, <3>6, <3>7, <3>8
  <2> QED BY <2>1, <2>2 DEF DoneTasks
<1> QED BY <1>1, <1>2, DoneIsFinished


-----------------------------------------------------------------------------
(* Circles. *)

Finite(E) == IsGraph(E) /\ IsFiniteSet(DOMAIN E)

LEMMA NeighboursAre ==
  ASSUME NEW E, Finite(E), NEW t \in DOMAIN E
  PROVE  E[t] \in SUBSET DOMAIN E /\ {t} \in SUBSET DOMAIN E
BY DEF Finite, IsGraph

(* Who depends on whom survives new edges. *)
LEMMA DependsStays ==
  ASSUME NEW E, Finite(E), NEW E2, Finite(E2), DOMAIN E \subseteq DOMAIN E2,
         \A x \in DOMAIN E : E[x] \subseteq E2[x],
         NEW a \in DOMAIN E, NEW b, DependsOn(E, a, b)
  PROVE  DependsOn(E2, a, b)
<1>1. E[a] \in SUBSET DOMAIN E /\ E2[a] \in SUBSET DOMAIN E2 /\ E[a] \subseteq E2[a]
  BY NeighboursAre
<1>2. Closure(E, E[a]) \subseteq Closure(E2, E2[a])
  BY <1>1, ClosureMonotone DEF Finite
<1> QED BY <1>2 DEF DependsOn

(* Fewer edges make no circle. *)
LEMMA AcyclicFewer ==
  ASSUME NEW E, Finite(E), NEW E2, Finite(E2), DOMAIN E \subseteq DOMAIN E2,
         \A x \in DOMAIN E : E[x] \subseteq E2[x], ~Cyclic(E2)
  PROVE  ~Cyclic(E)
BY DependsStays DEF Cyclic

(* Two graphs apart make no circle together. *)
LEMMA AcyclicApart ==
  ASSUME NEW E, Finite(E), ~Cyclic(E), NEW P, Finite(P), ~Cyclic(P),
         NEW E2, Finite(E2), DOMAIN E2 = DOMAIN E \union DOMAIN P,
         DOMAIN E \intersect DOMAIN P = {},
         \A x \in DOMAIN E : E2[x] = E[x], \A x \in DOMAIN P : E2[x] = P[x]
  PROVE  ~Cyclic(E2)
<1>1. ASSUME NEW G, Finite(G), ~Cyclic(G), DOMAIN G \subseteq DOMAIN E2,
             \A x \in DOMAIN G : E2[x] = G[x], NEW t \in DOMAIN G
      PROVE  t \notin Closure(E2, E2[t])
  <2>1. G[t] \in SUBSET DOMAIN G /\ E2[t] = G[t] /\ G[t] \in SUBSET DOMAIN E2
    BY <1>1, NeighboursAre
  <2>2. /\ G[t] \subseteq Closure(G, G[t]) /\ ClosedUnder(G, Closure(G, G[t]))
        /\ Closure(G, G[t]) \subseteq DOMAIN G
    BY <1>1, <2>1, ClosureClosed DEF Finite
  <2>3. ClosedUnder(E2, Closure(G, G[t]))
    BY <1>1, <2>2 DEF ClosedUnder
  <2>4. Closure(E2, G[t]) \subseteq Closure(G, G[t])
    BY <2>1, <2>2, <2>3, ClosureLeast DEF Finite
  <2>5. t \notin Closure(G, G[t])
    BY <1>1 DEF Cyclic, DependsOn
  <2> QED BY <2>1, <2>4, <2>5
<1>2. \A t \in DOMAIN E : t \notin Closure(E2, E2[t])
  BY <1>1
<1>3. \A t \in DOMAIN P : t \notin Closure(E2, E2[t])
  BY <1>1
<1> QED BY <1>2, <1>3 DEF Cyclic, DependsOn

(* New edges from one task make no circle if no way leads back to it.      *)
LEMMA AcyclicAdded ==
  ASSUME NEW E, Finite(E), ~Cyclic(E), NEW origin \in DOMAIN E, NEW F \in SUBSET DOMAIN E,
         \A f \in F : origin \notin Closure(E, {f}),
         NEW E2, Finite(E2), DOMAIN E2 = DOMAIN E,
         \A x \in DOMAIN E \ {origin} : E2[x] = E[x], E2[origin] = E[origin] \union F
  PROVE  ~Cyclic(E2)
<1> DEFINE R == Closure(E, F)
<1>1. /\ F \subseteq R /\ R \subseteq DOMAIN E /\ ClosedUnder(E, R)
  BY ClosureClosed DEF Finite
<1>2. origin \notin R
  <2> DEFINE K == {x \in DOMAIN E : origin \notin Closure(E, {x})}
  <2>1. ASSUME NEW x \in K, NEW y \in E[x] PROVE y \in K
    <3>1. y \in DOMAIN E /\ {x} \in SUBSET DOMAIN E /\ {y} \in SUBSET DOMAIN E
      BY <2>1, NeighboursAre
    <3>2. x \in Closure(E, {x}) /\ ClosedUnder(E, Closure(E, {x})) /\ Closure(E, {x}) \subseteq DOMAIN E
      BY <3>1, ClosureClosed DEF Finite
    <3>3. {y} \subseteq Closure(E, {x})
      BY <2>1, <3>2 DEF ClosedUnder
    <3>4. Closure(E, {y}) \subseteq Closure(E, {x})
      BY <3>1, <3>2, <3>3, ClosureLeast DEF Finite
    <3> QED BY <3>1, <3>4
  <2>2. ClosedUnder(E, K)
    BY <2>1 DEF ClosedUnder
  <2>3. F \subseteq K
    OBVIOUS
  <2> HIDE DEF K
  <2>4. R \subseteq K
    BY <2>2, <2>3, ClosureLeast DEF Finite
  <2>5. origin \in Closure(E, {origin})
    BY NeighboursAre, ClosureClosed DEF Finite
  <2> QED BY <2>4, <2>5 DEF K
<1>3. \A t \in DOMAIN E : /\ E[t] \in SUBSET DOMAIN E /\ E[t] \subseteq Closure(E, E[t])
                          /\ ClosedUnder(E, Closure(E, E[t])) /\ Closure(E, E[t]) \subseteq DOMAIN E
                          /\ t \notin Closure(E, E[t])
  BY NeighboursAre, ClosureClosed DEF Finite, Cyclic, DependsOn
<1>4. ASSUME NEW t \in DOMAIN E PROVE t \notin Closure(E2, E2[t])
  <2> DEFINE Q == Closure(E, E[t])
  <2>1. E2[t] \in SUBSET DOMAIN E2 /\ t \notin Q
    BY <1>3, NeighboursAre
  <2>2. CASE t = origin
    <3>1. E2[t] \subseteq Q \union R /\ t \notin Q \union R
      BY <1>1, <1>2, <1>3, <2>2
    <3>2. ClosedUnder(E2, Q \union R)
      BY <1>1, <1>3, <2>2, <3>1 DEF ClosedUnder
    <3>3. Closure(E2, E2[t]) \subseteq Q \union R
      BY <2>1, <3>1, <3>2, ClosureLeast DEF Finite
    <3> QED BY <3>1, <3>3
  <2>3. CASE t # origin /\ origin \notin Q
    <3>1. E2[t] \subseteq Q /\ ClosedUnder(E2, Q)
      BY <1>3, <2>3 DEF ClosedUnder
    <3>2. Closure(E2, E2[t]) \subseteq Q
      BY <2>1, <3>1, ClosureLeast DEF Finite
    <3> QED BY <2>1, <3>2
  <2>4. CASE t # origin /\ origin \in Q
    <3>1. E2[t] \subseteq Q \union R /\ ClosedUnder(E2, Q \union R)
      BY <1>1, <1>3, <2>4 DEF ClosedUnder
    <3>2. Closure(E2, E2[t]) \subseteq Q \union R
      BY <2>1, <3>1, ClosureLeast DEF Finite
    <3>3. ASSUME t \in R PROVE FALSE
      <4>1. Q \subseteq R
        BY <3>3, ClosureOnward DEF Finite
      <4> QED BY <1>2, <2>4, <4>1
    <3> QED BY <2>1, <3>2, <3>3
  <2> QED BY <2>2, <2>3, <2>4
<1> QED BY <1>4 DEF Cyclic, DependsOn

-----------------------------------------------------------------------------
(* Routing, replanning and recovery. *)

LEMMA RouteFacts ==
  ASSUME NEW s, NEW origin, NEW path
  PROVE  /\ RouteTo(s, origin, path) \subseteq DOMAIN s
         /\ \A f \in RouteTo(s, origin, path) : origin \notin Closure(DepEdges(s), {f})
BY DEF RouteTo, Owners, IntroducesDependencyCycle

LEMMA NoneReplaced ==
  ASSUME NEW s, \A t \in DOMAIN s : s[t].state # "SUPERSEDED"
  PROVE  WaitEdges(s) = DepEdges(s)
BY DEF WaitEdges, DepEdges

(* Of two tasks that stay, one that waited for the other still does when   *)
(* what is between them is replaced.                                       *)
LEMMA DependsReplaced ==
  ASSUME NEW s, Linked(s), NEW originals \in SUBSET DOMAIN s, NEW id, id \notin DOMAIN s,
         \A o \in originals : s[o].state # "SUPERSEDED",
         NEW n, Linked(n), DOMAIN n = DOMAIN s \union {id}, n[id].state # "SUPERSEDED",
         (UNION {s[o].deps : o \in originals}) \ originals \subseteq n[id].deps,
         \A o \in originals : n[o].state = "SUPERSEDED" /\ n[o].by = id,
         \A t \in DOMAIN s \ originals : n[t] = s[t],
         NEW a \in DOMAIN s \ originals, NEW b \in DOMAIN s \ originals,
         DependsOn(WaitEdges(s), a, b)
  PROVE  DependsOn(WaitEdges(n), a, b)
<1> DEFINE E == WaitEdges(s)
           G == WaitEdges(n)
           C == Closure(G, G[a])
           K == {x \in DOMAIN s : IF x \in originals THEN id \in C ELSE x \in C}
<1>1. Finite(E) /\ Finite(G) /\ DOMAIN E = DOMAIN s /\ DOMAIN G = DOMAIN n
  BY GraphsOf DEF Finite
<1>2. /\ \A t \in DOMAIN s \ originals : G[t] = E[t]
      /\ \A o \in originals : G[o] = {id} /\ E[o] = s[o].deps
      /\ G[id] = n[id].deps
  BY DEF WaitEdges
<1> HIDE DEF E, G
<1>3. G[a] \in SUBSET DOMAIN G /\ E[a] \in SUBSET DOMAIN E /\ \A t \in DOMAIN E : E[t] \subseteq DOMAIN s
  BY <1>1, NeighboursAre
<1>4. G[a] \subseteq C /\ ClosedUnder(G, C) /\ C \subseteq DOMAIN G
  BY <1>1, <1>3, ClosureClosed DEF Finite
<1> HIDE DEF C
<1>5. ASSUME NEW y \in DOMAIN s, y \in C PROVE y \in K
  <2>1. y \in originals => id \in C
    BY <1>1, <1>2, <1>4, <1>5 DEF ClosedUnder
  <2> QED BY <1>5, <2>1
<1>6. ClosedUnder(E, K)
  <2> SUFFICES ASSUME NEW x \in K, NEW y \in E[x] PROVE y \in K
    BY DEF ClosedUnder
  <2>0. x \in DOMAIN s /\ y \in DOMAIN s
    BY <1>1, <1>3
  <2>1. CASE x \notin originals
    <3>1. x \in C /\ y \in G[x] /\ x \in DOMAIN G
      BY <1>1, <1>2, <2>0, <2>1
    <3>2. y \in C
      BY <1>4, <3>1 DEF ClosedUnder
    <3> QED BY <1>5, <2>0, <3>2
  <2>2. CASE x \in originals
    <3>1. id \in C /\ y \in s[x].deps
      BY <1>2, <2>2
    <3>2. CASE y \in originals
      BY <2>0, <3>1, <3>2
    <3>3. CASE y \notin originals
      <4>1. y \in G[id] /\ id \in DOMAIN G
        BY <1>1, <1>2, <2>2, <3>1, <3>3
      <4>2. y \in C
        BY <1>4, <3>1, <4>1 DEF ClosedUnder
      <4> QED BY <2>0, <3>3, <4>2
    <3> QED BY <3>2, <3>3
  <2> QED BY <2>1, <2>2
<1> HIDE DEF K
<1>7. E[a] \subseteq K
  <2>1. G[a] = E[a]
    BY <1>2
  <2>2. E[a] \subseteq DOMAIN s /\ E[a] \subseteq C
    BY <1>1, <1>3, <1>4, <2>1
  <2> QED BY <1>5, <2>2
<1>8. Closure(E, E[a]) \subseteq K
  BY <1>1, <1>3, <1>6, <1>7, ClosureLeast DEF Finite
<1>9. b \in K
  BY <1>8 DEF DependsOn, E
<1> QED BY <1>9 DEF K, C, G, DependsOn


(* New tasks that wait for nothing make no circle. *)
LEMMA AcyclicMore ==
  ASSUME NEW E, Finite(E), ~Cyclic(E), NEW E2, Finite(E2), DOMAIN E \subseteq DOMAIN E2,
         \A x \in DOMAIN E : E2[x] = E[x], \A x \in DOMAIN E2 \ DOMAIN E : E2[x] = {}
  PROVE  ~Cyclic(E2)
<1> SUFFICES ASSUME NEW t \in DOMAIN E2 PROVE t \notin Closure(E2, E2[t])
  BY DEF Cyclic, DependsOn
<1>0. E2[t] \in SUBSET DOMAIN E2
  BY NeighboursAre
<1>1. CASE t \in DOMAIN E
  <2>1. E[t] \in SUBSET DOMAIN E
    BY <1>1, NeighboursAre
  <2> DEFINE C == Closure(E, E[t])
  <2>2. E[t] \subseteq C /\ ClosedUnder(E, C) /\ C \subseteq DOMAIN E
    BY <2>1, ClosureClosed DEF Finite
  <2>3. t \notin C
    BY <1>1 DEF Cyclic, DependsOn
  <2> HIDE DEF C
  <2>4. ClosedUnder(E2, C)
    BY <2>2 DEF ClosedUnder
  <2>5. Closure(E2, E2[t]) \subseteq C
    BY <1>0, <1>1, <2>2, <2>4, ClosureLeast DEF Finite
  <2> QED BY <2>3, <2>5
<1>2. CASE t \notin DOMAIN E
  <2>1. E2[t] = {} /\ ClosedUnder(E2, {})
    BY <1>2 DEF ClosedUnder
  <2>2. Closure(E2, E2[t]) \subseteq {}
    BY <1>0, <2>1, ClosureLeast DEF Finite
  <2> QED BY <2>2
<1> QED BY <1>1, <1>2

(* A chain of replacements ends in a task that was not replaced. *)
LEMMA ChainsEnd ==
  ASSUME NEW s, Linked(s), ~Cyclic(Successors(s)), NEW x \in DOMAIN s
  PROVE  \E z \in Closure(Successors(s), {x}) : s[z].state # "SUPERSEDED"
<1> DEFINE E == Successors(s)
           X == Closure(E, {x})
           Size(z) == Cardinality(Closure(E, {z}))
<1>1. Finite(E) /\ DOMAIN E = DOMAIN s
  BY GraphsOf DEF Finite
<1>2. \A z \in DOMAIN s : s[z].state = "SUPERSEDED" => E[z] = {s[z].by} /\ s[z].by \in DOMAIN s
  BY DEF Successors, Linked
<1>3. ~Cyclic(E)
  OBVIOUS
<1> HIDE DEF E
<1>4. x \in X /\ X \subseteq DOMAIN E /\ ClosedUnder(E, X)
  BY <1>1, ClosureClosed DEF Finite
<1> HIDE DEF X
<1>5. ASSUME NEW z \in DOMAIN E
      PROVE  IsFiniteSet(Closure(E, {z})) /\ Size(z) \in Nat /\ z \in Closure(E, {z})
  <2>1. Closure(E, {z}) \subseteq DOMAIN E /\ z \in Closure(E, {z})
    BY <1>1, ClosureClosed DEF Finite
  <2> QED BY <1>1, <2>1, FS_Subset, FS_CardinalityType DEF Finite
<1> SUFFICES ASSUME \A z \in X : s[z].state = "SUPERSEDED" PROVE FALSE
  BY DEF X, E
<1> DEFINE T == {Size(z) : z \in X}
<1>6. T \in SUBSET Nat /\ T # {}
  BY <1>4, <1>5
<1>7. PICK m \in T : \A y \in T : m <= y
  BY <1>6, LeastNat
<1>8. PICK z \in X : m = Size(z)
  BY <1>7
<1> DEFINE b == s[z].by
<1>9. z \in DOMAIN E /\ E[z] = {b} /\ b \in X /\ b \in DOMAIN E
  BY <1>1, <1>2, <1>4, <1>8 DEF ClosedUnder
<1>10. m <= Size(b)
  BY <1>7, <1>9
<1>11. z \notin Closure(E, {b})
  BY <1>3, <1>9 DEF Cyclic, DependsOn
<1>12. Closure(E, {b}) \subseteq Closure(E, {z}) /\ z \in Closure(E, {z})
  BY <1>1, <1>5, <1>9, ClosureOnward DEF Finite
<1> HIDE DEF b
<1>13. PICK A, B : A = Closure(E, {z}) /\ B = Closure(E, {b})
  OBVIOUS
<1>14. IsFiniteSet(A) /\ B \subseteq A /\ B # A
  BY <1>5, <1>9, <1>11, <1>12, <1>13
<1>15. Cardinality(B) <= Cardinality(A) /\ Cardinality(B) # Cardinality(A)
  BY <1>14, FS_Subset
<1>16. Cardinality(A) <= Cardinality(B) /\ Cardinality(A) \in Nat /\ Cardinality(B) \in Nat
  BY <1>5, <1>8, <1>9, <1>10, <1>13
<1> QED BY ONLY <1>15, <1>16

(* Of two tasks that were not replaced, one that waits for the other by    *)
(* what is written down waits for it by way of the replacements too.       *)
LEMMA DependsWaits ==
  ASSUME NEW s, Linked(s), Transferred(s), ~Cyclic(Successors(s)),
         NEW a \in DOMAIN s, s[a].state # "SUPERSEDED",
         NEW b \in DOMAIN s, s[b].state # "SUPERSEDED", DependsOn(DepEdges(s), a, b)
  PROVE  DependsOn(WaitEdges(s), a, b)
<1> DEFINE W == WaitEdges(s)
           D == DepEdges(s)
           E == Successors(s)
           C == Closure(W, W[a])
           K == {x \in DOMAIN s : x \in C \/ (s[x].state = "SUPERSEDED" /\ s[x].by \in C)}
<1>1. Finite(W) /\ Finite(D) /\ Finite(E) /\ DOMAIN W = DOMAIN s /\ DOMAIN D = DOMAIN s /\ DOMAIN E = DOMAIN s
  BY GraphsOf DEF Finite
<1>2. \A x \in DOMAIN s : /\ D[x] = s[x].deps
                          /\ s[x].state = "SUPERSEDED" => W[x] = {s[x].by} /\ E[x] = {s[x].by}
                          /\ s[x].state # "SUPERSEDED" => W[x] = s[x].deps /\ E[x] = {}
                          /\ s[x].state = "SUPERSEDED" => s[x].by \in DOMAIN s
                          /\ s[x].deps \subseteq DOMAIN s
  BY DEF WaitEdges, DepEdges, Successors, Linked
<1>3. \A x \in DOMAIN s : \E z \in Closure(E, {x}) : s[z].state # "SUPERSEDED"
  BY ChainsEnd
<1> HIDE DEF W, D, E
<1>4. W[a] \in SUBSET DOMAIN W
  BY <1>1, NeighboursAre
<1>5. W[a] \subseteq C /\ ClosedUnder(W, C) /\ C \subseteq DOMAIN s
  BY <1>1, <1>4, ClosureClosed DEF Finite
<1> HIDE DEF C
<1>6. \A x \in C : /\ s[x].state = "SUPERSEDED" => s[x].by \in C
                   /\ s[x].state # "SUPERSEDED" => s[x].deps \subseteq C
  BY <1>1, <1>2, <1>5 DEF ClosedUnder
<1>7. ASSUME NEW x \in K, NEW d \in D[x] PROVE d \in K
  <2>0. x \in DOMAIN s /\ d \in DOMAIN s /\ d \in s[x].deps
    BY <1>2, <1>7
  <2>1. CASE s[x].state # "SUPERSEDED"
    BY <1>6, <2>0, <2>1
  <2>2. CASE s[x].state = "SUPERSEDED"
    <3> DEFINE y == s[x].by
               M == {v \in DOMAIN s : v \in C /\ (d \in s[v].deps \/ d \in K)}
    <3>1. y \in DOMAIN s /\ y \in C
      BY <1>2, <1>6, <2>0, <2>2
    <3>2. d \in s[y].deps \/ (s[d].state = "SUPERSEDED" /\ s[d].by = y)
      BY <2>0, <2>2 DEF Transferred
    <3>3. y \in M
      BY <2>0, <3>1, <3>2
    <3>4. ASSUME NEW v \in M, s[v].state = "SUPERSEDED" PROVE s[v].by \in M
      <4>1. s[v].by \in DOMAIN s /\ s[v].by \in C
        BY <1>2, <1>6, <3>4
      <4>2. CASE d \in s[v].deps
        <5>1. d \in s[s[v].by].deps \/ (s[d].state = "SUPERSEDED" /\ s[d].by = s[v].by)
          BY <3>4, <4>2 DEF Transferred
        <5> QED BY <2>0, <4>1, <5>1
      <4> QED BY <3>4, <4>1, <4>2
    <3> HIDE DEF M, y, K
    <3>5. ClosedUnder(E, M)
      BY <1>1, <1>2, <3>4 DEF ClosedUnder, M
    <3>6. Closure(E, {y}) \subseteq M
      BY <1>1, <3>1, <3>3, <3>5, ClosureLeast DEF Finite
    <3>7. PICK z \in Closure(E, {y}) : s[z].state # "SUPERSEDED"
      BY <1>3, <3>1
    <3>8. z \in C /\ (d \in s[z].deps \/ d \in K)
      BY <3>6, <3>7 DEF M
    <3>9. d \in C \/ d \in K
      BY <1>6, <3>7, <3>8
    <3> QED BY <2>0, <3>9 DEF K
  <2> QED BY <2>1, <2>2
<1>8. K \subseteq DOMAIN s /\ W[a] \subseteq K
  BY <1>1, <1>4, <1>5
<1>9. b \in K => b \in C
  OBVIOUS
<1> HIDE DEF K
<1>10. ClosedUnder(D, K)
  BY <1>1, <1>7 DEF ClosedUnder
<1>11. D[a] = W[a] /\ D[a] \in SUBSET DOMAIN D
  BY <1>1, <1>2, <1>4
<1>12. Closure(D, D[a]) \subseteq K
  BY <1>1, <1>8, <1>10, <1>11, ClosureLeast DEF Finite
<1>13. b \in K
  BY <1>12 DEF DependsOn, D
<1> QED BY <1>9, <1>13 DEF DependsOn, C, W
=============================================================================
