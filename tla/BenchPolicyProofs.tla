--------------------------- MODULE BenchPolicyProofs ---------------------------
(***************************************************************************)
(* That the bench's policy stays sound, for every number of servers, crash *)
(* classes and tools.                                                      *)
(***************************************************************************)
EXTENDS BenchPolicy, FiniteSetTheorems, WellFoundedInduction, TLAPS

(***************************************************************************)
(* Induction, over the subsets of a finite set and over numbers, in terms  *)
(* of the set of those for which a fact holds.                             *)
(***************************************************************************)
LEMMA SubsetInduction ==
  ASSUME NEW D, IsFiniteSet(D), NEW B,
         \A T \in SUBSET D : (\A U \in SUBSET T : U # T => U \in B) => T \in B
  PROVE  SUBSET D \subseteq B
<1> DEFINE family == {T \in SUBSET D : T \notin B}
<1>1. IsWellFoundedOn(StrictSubsetOrdering(D), FiniteSubsetsOf(D))
  BY FS_StrictSubsetOrderingWellFounded
<1>2. family \subseteq FiniteSubsetsOf(D)
  BY FS_Subset DEF FiniteSubsetsOf
<1>3. \A T : T \in family <=> T \in SUBSET D /\ T \notin B
  OBVIOUS
<1> HIDE DEF family
<1>4. ASSUME family # {} PROVE FALSE
  <2>0. \E x \in family : \A y \in family : ~ (<<y, x>> \in StrictSubsetOrdering(D))
    BY ONLY <1>1, <1>2, <1>4, WFMin
  <2>1. PICK least \in family : \A other \in family : <<other, least>> \notin StrictSubsetOrdering(D)
    BY <2>0
  <2>2. \A U \in SUBSET least : U # least => U \in B
    BY <1>3, <2>1 DEF StrictSubsetOrdering
  <2> QED
    BY <1>3, <2>1, <2>2
<1> QED
  BY <1>3, <1>4

LEMMA NumberInduction ==
  ASSUME NEW K \in Nat, NEW B, 0 \in B, \A n \in 0..(K - 1) : n \in B => n + 1 \in B
  PROVE  0..K \subseteq B
<1> DEFINE full == {T \in SUBSET (0..K) : \A n \in 0..K : (n \in T /\ \A m \in 0..n : m \in T) => n \in B}
<1>0. \A T : T \in full <=> T \in SUBSET (0..K) /\ \A n \in 0..K : (n \in T /\ \A m \in 0..n : m \in T) => n \in B
  OBVIOUS
<1> HIDE DEF full
<1>1. IsFiniteSet(0..K)
  BY FS_Interval
<1>2. ASSUME NEW T \in SUBSET (0..K), \A U \in SUBSET T : U # T => U \in full
      PROVE  T \in full
  <2>1. ASSUME NEW n \in 0..K, n \in T, \A m \in 0..n : m \in T
        PROVE  n \in B
    <3>1. CASE n = 0
      BY <3>1
    <3>2. CASE n # 0
      <4>1. n - 1 \in 0..(K - 1) /\ n - 1 \in 0..K /\ n \notin 0..(n - 1) /\ (n - 1) + 1 = n
        BY <3>2
      <4>2. T \ {n} \in full
        <5>1. T \ {n} \in SUBSET T /\ T \ {n} # T
          BY <2>1
        <5> QED
          BY <1>2, <5>1
      <4>3. \A m \in 0..(n - 1) : m \in T \ {n}
        BY <2>1, <4>1
      <4>4. n - 1 \in T \ {n}
        BY <4>1, <4>3
      <4>5. n - 1 \in B
        BY <1>0, <4>1, <4>2, <4>3, <4>4
      <4> QED
        BY <4>1, <4>5
    <3> QED
      BY <3>1, <3>2
  <2> QED
    BY <1>0, <2>1
<1>3. SUBSET (0..K) \subseteq full
  <2> DEFINE D == 0..K
  <2>1. IsFiniteSet(D) /\ \A T \in SUBSET D : (\A U \in SUBSET T : U # T => U \in full) => T \in full
    BY <1>1, <1>2
  <2> HIDE DEF D
  <2>2. SUBSET D \subseteq full
    BY ONLY <2>1, SubsetInduction, Zenon
  <2> QED
    BY <2>2 DEF D
<1>4. 0..K \in full
  BY <1>3
<1> QED
  BY <1>0, <1>4

(* What is repeated a number of times can be.                              *)
Iterated(f, U, start, step, K) ==
  f \in [0..K -> U] /\ f[0] = start /\ \A n \in 1..K : f[n] = step[f[n - 1]]
LEMMA Iterates ==
  ASSUME NEW U, NEW start \in U, NEW step \in [U -> U], NEW K \in Nat
  PROVE  \E f : Iterated(f, U, start, step, K)
<1> DEFINE B == {n \in 0..K : \E f \in [0..n -> U] : f[0] = start /\ \A m \in 1..n : f[m] = step[f[m - 1]]}
<1>1. 0 \in B
  <2>1. [m \in 0..0 |-> start] \in [0..0 -> U]
    OBVIOUS
  <2>2. [m \in 0..0 |-> start][0] = start /\ 1..0 = {} /\ 0 \in 0..K
    OBVIOUS
  <2> QED
    BY <2>1, <2>2
<1>2. ASSUME NEW n \in 0..(K - 1), n \in B PROVE n + 1 \in B
  <2>1. PICK f \in [0..n -> U] : f[0] = start /\ \A m \in 1..n : f[m] = step[f[m - 1]]
    BY <1>2
  <2> DEFINE g == [m \in 0..(n + 1) |-> IF m = n + 1 THEN step[f[n]] ELSE f[m]]
  <2>2. f[n] \in U /\ n \in Nat /\ n + 1 \in 0..K
    OBVIOUS
  <2>3. g \in [0..(n + 1) -> U]
    <3>1. ASSUME NEW m \in 0..(n + 1), m # n + 1 PROVE m \in 0..n
      BY <3>1
    <3> QED
      BY <2>2, <3>1
  <2>4. g[0] = start
    BY <2>1, <2>2
  <2>5. ASSUME NEW m \in 1..(n + 1) PROVE g[m] = step[g[m - 1]]
    <3>0. m \in 0..(n + 1) /\ m - 1 \in 0..(n + 1) /\ m - 1 # n + 1 /\ g[m - 1] = f[m - 1]
      OBVIOUS
    <3>1. CASE m = n + 1
      BY <3>0, <3>1
    <3>2. CASE m # n + 1
      <4>1. m \in 1..n
        BY <3>2
      <4> QED
        BY <2>1, <3>0, <3>2, <4>1
    <3> QED
      BY <3>1, <3>2
  <2> QED
    BY <2>2, <2>3, <2>4, <2>5
<1> HIDE DEF B
<1>3. 0..K \subseteq B
  BY <1>1, <1>2, NumberInduction
<1>4. K \in B
  BY <1>3
<1> QED
  BY <1>4 DEF B, Iterated

----------------------------------------------------------------------------
(***************************************************************************)
(* Counting what a graph holds.  `Totals' gives every part of D its sum,   *)
(* in whatever order it is summed; MapThenSumSet is one of the orders.     *)
(***************************************************************************)
Count(g, D) == MapThenSumSet(LAMBDA e : g[e].count, D)
Countable(g, D) == IsFiniteSet(D) /\ \A e \in D : g[e].count \in Nat
Totals(f, g, D) ==
  /\ f \in [SUBSET D -> Nat] /\ f[{}] = 0
  /\ \A T \in SUBSET D : \A x \in T : f[T] = g[x].count + f[T \ {x}]

LEMMA TotalsGrow ==
  ASSUME NEW g, NEW T, NEW x, x \notin T, Countable(g, T \cup {x}), NEW f, Totals(f, g, T)
  PROVE  \E h : Totals(h, g, T \cup {x})
<1> DEFINE h == [S \in SUBSET (T \cup {x}) |-> IF x \in S THEN g[x].count + f[S \ {x}] ELSE f[S]]
<1>1. f \in [SUBSET T -> Nat] /\ f[{}] = 0
  BY DEF Totals
<1>2. \A S \in SUBSET (T \cup {x}) : S \ {x} \in SUBSET T /\ (x \notin S => S \in SUBSET T)
  OBVIOUS
<1>3. h \in [SUBSET (T \cup {x}) -> Nat] /\ h[{}] = 0
  BY <1>1, <1>2 DEF Countable
<1>4. ASSUME NEW S \in SUBSET (T \cup {x}), NEW y \in S
      PROVE  h[S] = g[y].count + h[S \ {y}]
  <2>0. /\ S \ {y} \in SUBSET (T \cup {x}) /\ S \ {x} \in SUBSET T /\ f[S \ {x}] \in Nat
        /\ g[x].count \in Nat /\ g[y].count \in Nat
    BY <1>1 DEF Countable
  <2>1. CASE y = x
    <3>1. h[S] = g[x].count + f[S \ {x}] /\ h[S \ {y}] = f[S \ {x}]
      BY <2>0, <2>1
    <3> QED
      BY <2>1, <3>1
  <2>2. CASE y # x /\ x \in S
    <3>1. h[S] = g[x].count + f[S \ {x}]
      BY <2>2
    <3>2. h[S \ {y}] = g[x].count + f[(S \ {y}) \ {x}]
      BY <2>0, <2>2
    <3>3. (S \ {y}) \ {x} = (S \ {x}) \ {y} /\ y \in S \ {x}
      BY <2>2
    <3>4. f[S \ {x}] = g[y].count + f[(S \ {x}) \ {y}]
      BY <2>0, <3>3 DEF Totals
    <3>5. y \in T /\ (S \ {x}) \ {y} \in SUBSET T
      BY <2>0, <2>2
    <3> DEFINE rest == f[(S \ {x}) \ {y}]
    <3>6. rest \in Nat /\ h[S] = g[x].count + (g[y].count + rest) /\ h[S \ {y}] = g[x].count + rest
      BY <1>1, <3>1, <3>2, <3>3, <3>4, <3>5
    <3>7. f[S \ {x}] = g[y].count + rest
      BY <3>4
    <3> HIDE DEF rest, h
    <3> QED
      BY <2>0, <3>6, <3>7
  <2>3. CASE x \notin S
    <3>1. S \in SUBSET T /\ x \notin S \ {y} /\ h[S] = f[S] /\ h[S \ {y}] = f[S \ {y}]
      BY <2>0, <2>3
    <3> QED
      BY <3>1 DEF Totals
  <2> QED
    BY <2>1, <2>2, <2>3
<1>5. Totals(h, g, T \cup {x})
  BY <1>3, <1>4 DEF Totals
<1> QED
  BY <1>5

LEMMA TotalsExist ==
  ASSUME NEW g, NEW D, Countable(g, D)
  PROVE  \E f : Totals(f, g, D)
<1> DEFINE B == {T \in SUBSET D : \E f : Totals(f, g, T)}
<1>0. \A T : T \in B <=> T \in SUBSET D /\ \E f : Totals(f, g, T)
  OBVIOUS
<1> HIDE DEF B
<1>1. ASSUME NEW T \in SUBSET D, \A U \in SUBSET T : U # T => U \in B
      PROVE  T \in B
  <2>1. CASE T = {}
    <3> DEFINE f == [S \in SUBSET T |-> 0]
    <3>1. Totals(f, g, T)
      BY <2>1 DEF Totals
    <3> QED
      BY <1>0, <3>1
  <2>2. CASE T # {}
    <3>1. PICK x \in T : TRUE
      BY <2>2
    <3>2. T \ {x} \in B
      BY <1>1, <3>1
    <3>3. PICK f : Totals(f, g, T \ {x})
      BY <1>0, <3>2
    <3>4. (T \ {x}) \cup {x} = T /\ Countable(g, T) /\ x \notin T \ {x}
      BY <3>1, FS_Subset DEF Countable
    <3>5. \E h : Totals(h, g, (T \ {x}) \cup {x})
      BY <3>3, <3>4, TotalsGrow
    <3> QED
      BY <1>0, <3>4, <3>5
  <2> QED
    BY <2>1, <2>2
<1>2. SUBSET D \subseteq B
  BY <1>1, SubsetInduction DEF Countable
<1> QED
  BY <1>0, <1>2

Sums(g, D) == CHOOSE iter : iter = [T \in SUBSET D |->
  IF T = {} THEN 0
  ELSE LET x == CHOOSE x \in T : TRUE
       IN  g[x].count + iter[T \ {x}]]

LEMMA CountIs ==
  ASSUME NEW g, NEW D, Countable(g, D), NEW f, Totals(f, g, D)
  PROVE  Count(g, D) = f[D]
<1> DEFINE Recursive(iter) == iter = [T \in SUBSET D |->
             IF T = {} THEN 0
             ELSE LET x == CHOOSE x \in T : TRUE
                  IN  g[x].count + iter[T \ {x}]]
<1>1. Count(g, D) = Sums(g, D)[D]
  BY Zenon DEF Count, MapThenSumSet, MapThenFoldSet, Sums
<1>2. Recursive(f)
  <2>1. ASSUME NEW T \in SUBSET D, T # {}
        PROVE  f[T] = g[CHOOSE x \in T : TRUE].count + f[T \ {CHOOSE x \in T : TRUE}]
    BY <2>1 DEF Totals
  <2> QED
    BY <2>1 DEF Totals
<1>3. Recursive(Sums(g, D))
  BY <1>2 DEF Sums
<1> DEFINE iter == Sums(g, D)
<1>4. /\ iter[{}] = 0
      /\ \A T \in SUBSET D : T # {} =>
            iter[T] = g[CHOOSE x \in T : TRUE].count + iter[T \ {CHOOSE x \in T : TRUE}]
  BY <1>3
<1> HIDE DEF iter
<1> DEFINE B == {T \in SUBSET D : iter[T] = f[T]}
<1>5. ASSUME NEW T \in SUBSET D, \A U \in SUBSET T : U # T => U \in B
      PROVE  T \in B
  <2>1. CASE T = {}
    BY <1>4, <2>1 DEF Totals
  <2>2. CASE T # {}
    <3>1. PICK x \in T : x = CHOOSE y \in T : TRUE
      BY <2>2
    <3>2. iter[T] = g[x].count + iter[T \ {x}]
      BY <1>4, <2>2, <3>1
    <3>3. iter[T \ {x}] = f[T \ {x}]
      BY <1>5, <3>1
    <3>4. f[T] = g[x].count + f[T \ {x}]
      BY <3>1 DEF Totals
    <3> QED
      BY <3>2, <3>3, <3>4
  <2> QED
    BY <2>1, <2>2
<1>6. SUBSET D \subseteq B
  <2> HIDE DEF B
  <2> QED
    BY <1>5, SubsetInduction DEF Countable
<1>7. iter[D] = f[D]
  BY <1>6
<1> QED
  BY <1>1, <1>7 DEF iter

LEMMA TotalsOfPart ==
  ASSUME NEW g, NEW D, NEW f, Totals(f, g, D), NEW E \in SUBSET D
  PROVE  /\ Totals([T \in SUBSET E |-> f[T]], g, E)
         /\ [T \in SUBSET E |-> f[T]][E] = f[E]
<1>1. SUBSET E \subseteq SUBSET D /\ {} \in SUBSET E /\ E \in SUBSET E
  OBVIOUS
<1> QED
  BY <1>1 DEF Totals

LEMMA CountAdds ==
  ASSUME NEW g, NEW D, Countable(g, D)
  PROVE  /\ Count(g, D) \in Nat
         /\ Count(g, {}) = 0
         /\ \A x \in D : Count(g, D) = g[x].count + Count(g, D \ {x})
<1>1. PICK f : Totals(f, g, D)
  BY TotalsExist
<1>2. ASSUME NEW E \in SUBSET D
      PROVE  Count(g, E) = f[E]
  <2>1. Countable(g, E)
    BY FS_Subset DEF Countable
  <2> DEFINE part == [T \in SUBSET E |-> f[T]]
  <2>2. Totals(part, g, E) /\ part[E] = f[E]
    BY <1>1, TotalsOfPart
  <2> HIDE DEF part
  <2>3. Count(g, E) = part[E]
    BY <2>1, <2>2, CountIs
  <2> QED
    BY <2>2, <2>3
<1>3. f[D] \in Nat /\ f[{}] = 0 /\ {} \in SUBSET D /\ D \in SUBSET D
  BY <1>1 DEF Totals
<1>4. \A x \in D : f[D] = g[x].count + f[D \ {x}]
  BY <1>1, <1>3 DEF Totals
<1> QED
  BY <1>2, <1>3, <1>4

(* A graph that counts no less counts no less in all.                      *)
LEMMA CountGrows ==
  ASSUME NEW g, NEW h, NEW D, NEW E, D \subseteq E, Countable(g, D), Countable(h, E),
         \A e \in D : g[e].count <= h[e].count
  PROVE  Count(g, D) <= Count(h, E)
<1> DEFINE B == {T \in SUBSET E : Count(g, T \cap D) <= Count(h, T)}
<1>0. \A T : T \in B <=> T \in SUBSET E /\ Count(g, T \cap D) <= Count(h, T)
  OBVIOUS
<1> HIDE DEF B
<1>1. ASSUME NEW T \in SUBSET E, \A U \in SUBSET T : U # T => U \in B
      PROVE  T \in B
  <2>0. Countable(h, T) /\ Countable(g, T \cap D)
    BY FS_Subset DEF Countable
  <2>1. CASE T = {}
    <3>1. T \cap D = {}
      BY <2>1
    <3>2. Count(g, {}) = 0 /\ Count(h, {}) = 0
      BY <2>0, CountAdds
    <3> QED
      BY <1>0, <2>1, <3>1, <3>2
  <2>2. CASE T # {}
    <3>1. PICK x \in T : TRUE
      BY <2>2
    <3> DEFINE U == T \ {x}
    <3>2. U \in SUBSET T /\ U # T
      BY <3>1
    <3>3. Count(g, U \cap D) <= Count(h, U)
      BY <1>0, <1>1, <3>2
    <3>4. Count(h, T) = h[x].count + Count(h, U) /\ h[x].count \in Nat
      BY <2>0, CountAdds DEF Countable
    <3>5. Countable(h, U) /\ Countable(g, U \cap D)
      BY FS_Subset DEF Countable
    <3>6. Count(h, U) \in Nat /\ Count(g, U \cap D) \in Nat
      BY <3>5, CountAdds
    <3>7. CASE x \in D
      <4>1. (T \cap D) \ {x} = U \cap D /\ x \in T \cap D
        BY <3>1, <3>7
      <4>2. Count(g, T \cap D) = g[x].count + Count(g, U \cap D)
        BY <2>0, <4>1, CountAdds
      <4>3. g[x].count <= h[x].count /\ g[x].count \in Nat
        BY <3>7 DEF Countable
      <4> HIDE DEF U
      <4>4. Count(g, T \cap D) <= Count(h, T)
        BY <3>3, <3>4, <3>6, <4>2, <4>3
      <4> QED
        BY <1>0, <4>4
    <3>8. CASE x \notin D
      <4>1. T \cap D = U \cap D
        BY <3>8
      <4>3. Count(g, T \cap D) = Count(g, U \cap D)
        BY <4>1
      <4> HIDE DEF U
      <4>2. Count(g, T \cap D) <= Count(h, T)
        BY <3>3, <3>4, <3>6, <4>3
      <4> QED
        BY <1>0, <4>2
    <3> QED
      BY <3>7, <3>8
  <2> QED
    BY <2>1, <2>2
<1>2. SUBSET E \subseteq B
  BY <1>1, SubsetInduction DEF Countable
<1>3. E \in B /\ E \cap D = D
  BY <1>2
<1> QED
  BY <1>0, <1>3

----------------------------------------------------------------------------
(***************************************************************************)
(* Graphs.                                                                 *)
(***************************************************************************)
Within(g, h) ==
  \A e \in DOMAIN g : e \in DOMAIN h /\ g[e].count <= h[e].count /\ g[e].ok <= h[e].ok

LEMMA FaultsFinite ==
  IsFiniteSet(Faults) /\ Cardinality(Faults) \in Nat \ {0} /\ Healthy \in Faults
<1>1. IsFiniteSet({Healthy, "compile:fail", "flash:fail"})
  <2>1. {Healthy, "compile:fail", "flash:fail"} = ({Healthy} \cup {"compile:fail"}) \cup {"flash:fail"}
    OBVIOUS
  <2>2. \A x : IsFiniteSet({x})
    BY FS_Singleton
  <2>3. IsFiniteSet({Healthy} \cup {"compile:fail"})
    BY <2>2, FS_Union
  <2>4. IsFiniteSet(({Healthy} \cup {"compile:fail"}) \cup {"flash:fail"})
    BY <2>2, <2>3, FS_Union
  <2> QED
    BY <2>1, <2>4
<1>2. IsFiniteSet(Faults) /\ Healthy \in Faults
  BY <1>1, FS_Union, BenchAssumption DEF Faults
<1> QED
  BY <1>2, FS_CardinalityType, FS_EmptySet

LEMMA EdgesFinite ==
  IsFiniteSet(Edges)
<1> DEFINE triples == (Faults \X Tools) \X Faults
           edge == [x \in triples |-> [from |-> x[1][1], action |-> x[1][2], to |-> x[2]]]
<1>1. IsFiniteSet(triples)
  BY FaultsFinite, BenchAssumption, FS_Product
<1>2. \A x \in triples : edge[x] \in Edges
  BY DEF Edges
<1>3. ASSUME NEW e \in Edges PROVE \E x \in triples : edge[x] = e
  <2>1. e.from \in Faults /\ e.action \in Tools /\ e.to \in Faults
        /\ e = [from |-> e.from, action |-> e.action, to |-> e.to]
    BY DEF Edges
  <2>2. <<<<e.from, e.action>>, e.to>> \in triples
    BY <2>1
  <2> QED
    BY <2>1, <2>2
<1>4. edge \in [triples -> Edges]
  BY <1>2
<1> HIDE DEF triples, edge
<1>5. edge \in Surjection(triples, Edges)
  BY <1>3, <1>4 DEF Surjection
<1> QED
  BY <1>1, <1>5, FS_Surjection

LEMMA GraphFacts ==
  ASSUME NEW g, IsGraph(g)
  PROVE  /\ \A e \in DOMAIN g : /\ e \in Edges /\ e = Edge(e.from, e.action, e.to)
                                /\ g[e].count \in Nat /\ g[e].ok \in Nat /\ g[e].ok <= g[e].count
         /\ \A D \in SUBSET DOMAIN g : Countable(g, D)
<1>1. \A e \in DOMAIN g : e \in Edges /\ g[e] \in Counted
  BY DEF IsGraph
<1>2. \A D \in SUBSET DOMAIN g : IsFiniteSet(D)
  BY EdgesFinite, FS_Subset DEF IsGraph
<1> QED
  BY <1>1, <1>2 DEF Counted, Countable, Edges, Edge

LEMMA EmptyGraphIs ==
  DOMAIN EmptyGraph = {} /\ IsGraph(EmptyGraph) /\ Total(EmptyGraph) = 0
<1>1. DOMAIN EmptyGraph = {} /\ EmptyGraph \in [{} -> Counted]
  BY DEF EmptyGraph
<1>2. IsGraph(EmptyGraph)
  BY <1>1 DEF IsGraph
<1>3. Total(EmptyGraph) = Count(EmptyGraph, DOMAIN EmptyGraph)
  BY DEF Total, Count
<1> QED
  BY <1>1, <1>2, <1>3, GraphFacts, CountAdds

LEMMA TotalIs ==
  ASSUME NEW g, IsGraph(g)
  PROVE  Total(g) = Count(g, DOMAIN g) /\ Total(g) \in Nat
<1>1. Total(g) = Count(g, DOMAIN g)
  BY DEF Total, Count
<1> QED
  BY <1>1, GraphFacts, CountAdds

Known(g, e) == IF e \in DOMAIN g THEN g[e] ELSE [count |-> 0, ok |-> 0]
Added(g, e, ok, h) ==
  /\ IsGraph(h) /\ e \in Edges /\ DOMAIN h = DOMAIN g \cup {e}
  /\ h[e].count = Known(g, e).count + 1
  /\ h[e].ok = Known(g, e).ok + (IF ok THEN 1 ELSE 0)
  /\ \A d \in DOMAIN g : d # e => h[d] = g[d]
LEMMA AddEdgeIs ==
  ASSUME NEW g, IsGraph(g), NEW from \in Faults, NEW to \in Faults, NEW o, o.tool \in Tools, o.ok \in BOOLEAN
  PROVE  Added(g, Edge(from, o.tool, to), o.ok, AddEdge(g, from, o, to))
<1> DEFINE e == Edge(from, o.tool, to)
           h == AddEdge(g, from, o, to)
<1> DEFINE known == Known(g, e)
           times == [count |-> known.count + 1, ok |-> known.ok + (IF o.ok THEN 1 ELSE 0)]
<1>1. h = [d \in DOMAIN g \cup {e} |-> IF d = e THEN times ELSE g[d]]
  BY DEF AddEdge, Known
<1>2. e \in Edges
  BY DEF Edge, Edges
<1>3. known.count \in Nat /\ known.ok \in Nat /\ known.ok <= known.count
  BY GraphFacts DEF Known
<1>4. times \in Counted
  <2> HIDE DEF known
  <2> QED
    BY <1>3 DEF Counted
<1> HIDE DEF e, h, times
<1>5. IsGraph(h)
  <2>1. \A d \in DOMAIN g : d \in Edges /\ g[d] \in Counted
    BY DEF IsGraph
  <2> QED
    BY <1>1, <1>2, <1>4, <2>1 DEF IsGraph
<1>6. DOMAIN h = DOMAIN g \cup {e} /\ h[e] = times /\ \A d \in DOMAIN g : d # e => h[d] = g[d]
  BY <1>1
<1> QED
  BY <1>2, <1>5, <1>6 DEF e, h, times, Added

LEMMA AddEdgeCounts ==
  ASSUME NEW g, IsGraph(g), NEW from \in Faults, NEW to \in Faults, NEW o, o.tool \in Tools, o.ok \in BOOLEAN
  PROVE  Total(AddEdge(g, from, o, to)) = Total(g) + 1
<1> DEFINE e == Edge(from, o.tool, to)
           h == AddEdge(g, from, o, to)
           rest == DOMAIN g \ {e}
<1>0. Added(g, e, o.ok, h)
  BY AddEdgeIs
<1> HIDE DEF e, h
<1>1. /\ IsGraph(h) /\ DOMAIN h = DOMAIN g \cup {e} /\ \A d \in DOMAIN g : d # e => h[d] = g[d]
      /\ h[e].count = Known(g, e).count + 1
  BY <1>0 DEF Added
<1>2. rest \in SUBSET DOMAIN g /\ rest \in SUBSET DOMAIN h /\ rest = DOMAIN h \ {e} /\ e \in DOMAIN h
  BY <1>1
<1>3. Countable(g, rest) /\ Countable(h, rest) /\ Countable(g, DOMAIN g) /\ Countable(h, DOMAIN h)
  BY <1>1, <1>2, GraphFacts
<1>4. \A d \in rest : g[d].count = h[d].count /\ g[d].count \in Nat
  BY <1>1, GraphFacts
<1> DEFINE G == Count(g, rest)
           H == Count(h, rest)
<1>5. G \in Nat /\ H \in Nat
  BY <1>3, CountAdds
<1>6. G = H
  <2>1. (\A d \in rest : g[d].count <= h[d].count) /\ \A d \in rest : h[d].count <= g[d].count
    BY <1>4
  <2>2. G <= H /\ H <= G
    BY <1>3, <2>1, CountGrows
  <2> HIDE DEF G, H
  <2> QED
    BY <1>5, <2>2
<1>7. Total(h) = h[e].count + H
  BY <1>1, <1>2, <1>3, TotalIs, CountAdds
<1>8. CASE e \in DOMAIN g
  <2>1. Total(g) = g[e].count + G
    BY <1>3, <1>8, TotalIs, CountAdds
  <2>2. g[e].count \in Nat /\ h[e].count = g[e].count + 1
    BY <1>1, <1>8, GraphFacts DEF Known
  <2> HIDE DEF G, H
  <2> QED
    BY <1>5, <1>6, <1>7, <2>1, <2>2 DEF h
<1>9. CASE e \notin DOMAIN g
  <2>1. rest = DOMAIN g
    BY <1>9
  <2>2. Total(g) = G
    BY <2>1, TotalIs
  <2>3. h[e].count = 1
    BY <1>1, <1>9 DEF Known
  <2> HIDE DEF G, H
  <2> QED
    BY <1>5, <1>6, <1>7, <2>2, <2>3 DEF h
<1> QED
  BY <1>8, <1>9

LEMMA AddEdgeGrows ==
  ASSUME NEW g, IsGraph(g), NEW h, IsGraph(h), NEW from \in Faults, NEW to \in Faults,
         NEW o, o.tool \in Tools, o.ok \in BOOLEAN
  PROVE  /\ Within(g, h) => Within(g, AddEdge(h, from, o, to))
         /\ Within(g, h) => Within(AddEdge(g, from, o, to), AddEdge(h, from, o, to))
<1> DEFINE e == Edge(from, o.tool, to)
           k == AddEdge(g, from, o, to)
           l == AddEdge(h, from, o, to)
<1>0. Added(g, e, o.ok, k) /\ Added(h, e, o.ok, l)
  BY AddEdgeIs
<1> HIDE DEF e, k, l
<1>1. /\ DOMAIN k = DOMAIN g \cup {e} /\ \A d \in DOMAIN g : d # e => k[d] = g[d]
      /\ k[e].count = Known(g, e).count + 1
      /\ k[e].ok = Known(g, e).ok + (IF o.ok THEN 1 ELSE 0)
  BY <1>0 DEF Added
<1>2. /\ DOMAIN l = DOMAIN h \cup {e} /\ \A d \in DOMAIN h : d # e => l[d] = h[d]
      /\ l[e].count = Known(h, e).count + 1
      /\ l[e].ok = Known(h, e).ok + (IF o.ok THEN 1 ELSE 0)
  BY <1>0 DEF Added
<1>3. /\ \A d \in DOMAIN g : g[d].count \in Nat /\ g[d].ok \in Nat
      /\ \A d \in DOMAIN h : h[d].count \in Nat /\ h[d].ok \in Nat
  BY GraphFacts
<1>4. ASSUME Within(g, h), NEW d \in DOMAIN g
      PROVE  d \in DOMAIN l /\ g[d].count <= l[d].count /\ g[d].ok <= l[d].ok
  <2>1. d \in DOMAIN h /\ g[d].count <= h[d].count /\ g[d].ok <= h[d].ok
    BY <1>4 DEF Within
  <2>2. CASE d = e
    BY <1>2, <1>3, <2>1, <2>2 DEF Known
  <2>3. CASE d # e
    BY <1>2, <2>1, <2>3
  <2> QED
    BY <2>2, <2>3
<1>5. ASSUME Within(g, h), NEW d \in DOMAIN k
      PROVE  d \in DOMAIN l /\ k[d].count <= l[d].count /\ k[d].ok <= l[d].ok
  <2>1. \A c \in DOMAIN g : c \in DOMAIN h /\ g[c].count <= h[c].count /\ g[c].ok <= h[c].ok
    BY <1>5 DEF Within
  <2>2. CASE d = e
    BY <1>1, <1>2, <1>3, <2>1, <2>2 DEF Known
  <2>3. CASE d # e
    BY <1>1, <1>2, <2>1, <2>3
  <2> QED
    BY <2>2, <2>3
<1> QED
  BY <1>4, <1>5 DEF Within, k, l

LEMMA WithinFacts ==
  /\ \A g : IsGraph(g) => Within(g, g)
  /\ \A h : Within(EmptyGraph, h)
<1>1. \A g : IsGraph(g) => Within(g, g)
  BY GraphFacts DEF Within
<1> QED
  BY <1>1, EmptyGraphIs DEF Within

LEMMA TriesGrow ==
  ASSUME NEW g, IsGraph(g), NEW h, IsGraph(h), Within(g, h), NEW s, NEW a
  PROVE  /\ Tries(g, s, a) \in Nat /\ Tries(h, s, a) \in Nat
         /\ Tries(g, s, a) <= Tries(h, s, a)
         /\ Leads(g, s, a) \subseteq Leads(h, s, a)
<1> DEFINE D(k) == {e \in DOMAIN k : e.from = s /\ e.action = a}
<1>1. Tries(g, s, a) = Count(g, D(g)) /\ Tries(h, s, a) = Count(h, D(h))
  BY DEF Tries, Count
<1>2. Countable(g, D(g)) /\ Countable(h, D(h))
  BY GraphFacts
<1>3. D(g) \subseteq D(h) /\ \A e \in D(g) : g[e].count <= h[e].count
  BY DEF Within
<1>4. ASSUME NEW t \in Leads(g, s, a) PROVE t \in Leads(h, s, a)
  <2>1. t \in Faults \ {s} /\ Edge(s, a, t) \in DOMAIN g /\ g[Edge(s, a, t)].ok > 0
    BY DEF Leads
  <2>2. Edge(s, a, t) \in DOMAIN h /\ g[Edge(s, a, t)].ok <= h[Edge(s, a, t)].ok
    BY <2>1 DEF Within
  <2>3. g[Edge(s, a, t)].ok \in Nat /\ h[Edge(s, a, t)].ok \in Nat
    BY <2>1, <2>2, GraphFacts
  <2>4. h[Edge(s, a, t)].ok > 0
    BY <2>1, <2>2, <2>3
  <2> QED
    BY <2>1, <2>2, <2>4 DEF Leads
<1>5. Count(g, D(g)) <= Count(h, D(h)) /\ Count(g, D(g)) \in Nat /\ Count(h, D(h)) \in Nat
  <2> HIDE DEF D
  <2> QED
    BY <1>2, <1>3, CountGrows, CountAdds
<1> QED
  BY <1>1, <1>4, <1>5

----------------------------------------------------------------------------
(***************************************************************************)
(* The ways back.  No choice of actions that ends healthy keeps to a set   *)
(* of states for ever.                                                     *)
(***************************************************************************)
Reach(lead, c) == CHOOSE reach : reach = [n \in 0..Cardinality(Faults) |->
  IF n = 0 THEN {Healthy}
  ELSE LET before == reach[n - 1] IN
       before \cup {s \in DOMAIN c : lead[s][c[s]] \cap before # {}}]

LEMMA ReachIs ==
  ASSUME NEW lead, NEW c
  PROVE  /\ Reach(lead, c)[0] = {Healthy}
         /\ \A n \in 1..Cardinality(Faults) : Reach(lead, c)[n] =
              Reach(lead, c)[n - 1] \cup {s \in DOMAIN c : lead[s][c[s]] \cap Reach(lead, c)[n - 1] # {}}
<1> DEFINE U == SUBSET ({Healthy} \cup DOMAIN c)
           K == Cardinality(Faults)
           onto == [before \in U |-> before \cup {s \in DOMAIN c : lead[s][c[s]] \cap before # {}}]
<1>1. K \in Nat /\ {Healthy} \in U
  BY FaultsFinite
<1>2. onto \in [U -> U]
  OBVIOUS
<1>3. \A before \in U : onto[before] = before \cup {s \in DOMAIN c : lead[s][c[s]] \cap before # {}}
  OBVIOUS
<1> HIDE DEF K, U, onto
<1>4a. PICK f : Iterated(f, U, {Healthy}, onto, K)
  BY <1>1, <1>2, Iterates
<1>4. f \in [0..K -> U] /\ f[0] = {Healthy} /\ \A n \in 1..K : f[n] = onto[f[n - 1]]
  BY <1>4a DEF Iterated
<1>5. ASSUME NEW n \in 0..K
      PROVE  f[n] = IF n = 0 THEN {Healthy}
                    ELSE LET before == f[n - 1] IN
                         before \cup {s \in DOMAIN c : lead[s][c[s]] \cap before # {}}
  <2>1. CASE n = 0
    BY <1>4, <2>1
  <2>2. CASE n # 0
    <3>1. n \in 1..K /\ n - 1 \in 0..K
      BY <1>1, <2>2
    <3>2. f[n - 1] \in U
      BY <1>4, <3>1
    <3> QED
      BY <1>3, <1>4, <2>2, <3>1, <3>2
  <2> QED
    BY <2>1, <2>2
<1>6. f = [n \in 0..K |->
        IF n = 0 THEN {Healthy}
        ELSE LET before == f[n - 1] IN
             before \cup {s \in DOMAIN c : lead[s][c[s]] \cap before # {}}]
  BY <1>4, <1>5
<1>7. Reach(lead, c) = [n \in 0..K |->
        IF n = 0 THEN {Healthy}
        ELSE LET before == Reach(lead, c)[n - 1] IN
             before \cup {s \in DOMAIN c : lead[s][c[s]] \cap before # {}}]
  <2>1. \E reach : reach = [n \in 0..K |->
          IF n = 0 THEN {Healthy}
          ELSE LET before == reach[n - 1] IN
               before \cup {s \in DOMAIN c : lead[s][c[s]] \cap before # {}}]
    BY ONLY <1>6, Zenon
  <2> QED
    BY ONLY <2>1, Zenon DEF Reach, K
<1> DEFINE r == Reach(lead, c)
<1> HIDE DEF r
<1>8. r = [n \in 0..K |->
        IF n = 0 THEN {Healthy}
        ELSE LET before == r[n - 1] IN
             before \cup {s \in DOMAIN c : lead[s][c[s]] \cap before # {}}]
  BY <1>7 DEF r
<1>9. 0 \in 0..K /\ \A n \in 1..K : n \in 0..K /\ n # 0
  BY <1>1
<1>10. r[0] = {Healthy} /\ \A n \in 1..K : r[n] = r[n - 1] \cup {s \in DOMAIN c : lead[s][c[s]] \cap r[n - 1] # {}}
  BY <1>8, <1>9
<1> QED
  BY <1>10 DEF r, K

LEMMA EndsOutside ==
  ASSUME NEW lead, NEW c, EndsHealthy(lead, c), Healthy \notin DOMAIN c,
         NEW X \in SUBSET DOMAIN c, X # {}
  PROVE  \E s \in X : ~(lead[s][c[s]] \subseteq X)
<1> SUFFICES ASSUME \A s \in X : lead[s][c[s]] \subseteq X
             PROVE  FALSE
  OBVIOUS
<1> DEFINE K == Cardinality(Faults)
           r == Reach(lead, c)
           B == {n \in 0..K : r[n] \cap X = {}}
<1>1. K \in Nat
  BY FaultsFinite
<1>2. r[0] = {Healthy} /\ \A n \in 1..K : r[n] = r[n - 1] \cup {s \in DOMAIN c : lead[s][c[s]] \cap r[n - 1] # {}}
  BY ReachIs
<1>3. DOMAIN c \subseteq r[K]
  BY DEF EndsHealthy, Reach
<1> HIDE DEF K, r
<1>4. 0 \in B
  BY <1>1, <1>2
<1>5. ASSUME NEW n \in 0..(K - 1), n \in B PROVE n + 1 \in B
  <2>1. n + 1 \in 1..K /\ n + 1 \in 0..K /\ (n + 1) - 1 = n
    BY <1>1
  <2>2. r[n + 1] = r[n] \cup {s \in DOMAIN c : lead[s][c[s]] \cap r[n] # {}}
    BY <1>2, <2>1
  <2>3. r[n + 1] \cap X = {}
    BY <1>5, <2>2
  <2> QED
    BY <2>1, <2>3
<1> HIDE DEF B
<1>6. 0..K \subseteq B
  BY <1>1, <1>4, <1>5, NumberInduction
<1>7. K \in B
  BY <1>1, <1>6
<1> QED
  BY <1>3, <1>7 DEF B

LEMMA CheapestIs ==
  ASSUME NEW g, NEW c \in Cheapest(g)
  PROVE  /\ Healthy \notin DOMAIN c
         /\ \A s \in DOMAIN c : c[s] \in Tools /\ Leads(g, s, c[s]) \subseteq DOMAIN c \cup {Healthy}
         /\ \A X \in SUBSET DOMAIN c : X # {} => \E s \in X : ~(Leads(g, s, c[s]) \subseteq X)
<1> DEFINE back == WayBack(g)
           lead == [s \in back \ {Healthy} |-> [a \in Tools |-> Leads(g, s, a)]]
<1>1. /\ c \in [back \ {Healthy} -> Tools] /\ \A s \in DOMAIN c : lead[s][c[s]] \subseteq back
      /\ EndsHealthy(lead, c)
  BY DEF Cheapest
<1> HIDE DEF back
<1>2. DOMAIN c = back \ {Healthy} /\ \A s \in DOMAIN c : c[s] \in Tools /\ lead[s][c[s]] = Leads(g, s, c[s])
  BY <1>1
<1> HIDE DEF lead
<1>3. \A X \in SUBSET DOMAIN c : X # {} => \E s \in X : ~(lead[s][c[s]] \subseteq X)
  BY <1>1, <1>2, EndsOutside
<1> QED
  BY <1>1, <1>2, <1>3

(***************************************************************************)
(* A walk along such a choice passes each state once.                      *)
(***************************************************************************)
Froms(w) == {w[i].from : i \in 1..Len(w)}
Trodden(g, c, s, w) ==
  /\ w \in Seq(Edges) /\ Len(w) > 0 /\ w[1].from = s
  /\ \A i \in 1..Len(w) : /\ w[i].from \in DOMAIN c /\ w[i].action = c[w[i].from]
                          /\ w[i].to \in Leads(g, w[i].from, w[i].action)
  /\ \A i \in 1..(Len(w) - 1) : w[i + 1].from = w[i].to
  /\ IsFiniteSet(Froms(w)) /\ Cardinality(Froms(w)) = Len(w)

Onwards(g, c, from) == {Edge(from, c[from], t) : t \in Likeliest(g, from, c[from])}
Further(g, c, W) ==
  UNION {IF Over(w) THEN {w} ELSE {Append(w, e) : e \in Onwards(g, c, Last(w).to)} : w \in W}

LEMMA OnwardsIs ==
  ASSUME NEW g, NEW c \in Cheapest(g), NEW from \in Faults \cap DOMAIN c, NEW e \in Onwards(g, c, from)
  PROVE  e \in Edges /\ e.from = from /\ e.action = c[from] /\ e.to \in Leads(g, from, c[from])
<1>1. PICK t \in Leads(g, from, c[from]) : e = Edge(from, c[from], t)
  BY DEF Onwards, Likeliest
<1>2. t \in Faults /\ c[from] \in Tools
  BY CheapestIs DEF Leads
<1> QED
  BY <1>1, <1>2 DEF Edge, Edges

LEMMA SetsOut ==
  ASSUME NEW g, NEW c \in Cheapest(g), NEW s \in Faults \cap DOMAIN c, NEW e \in Onwards(g, c, s)
  PROVE  Trodden(g, c, s, <<e>>)
<1>1. e \in Edges /\ e.from = s /\ e.action = c[s] /\ e.to \in Leads(g, s, c[s])
  BY OnwardsIs
<1>2. <<e>> \in Seq(Edges) /\ Len(<<e>>) = 1 /\ <<e>>[1] = e
  BY <1>1
<1>3. Froms(<<e>>) = {s}
  BY <1>1, <1>2 DEF Froms
<1>4. IsFiniteSet(Froms(<<e>>)) /\ Cardinality(Froms(<<e>>)) = 1
  BY <1>3, FS_Singleton
<1> QED
  BY <1>1, <1>2, <1>4 DEF Trodden

LEMMA LastIs ==
  ASSUME NEW g, NEW c \in Cheapest(g), NEW s, NEW w, Trodden(g, c, s, w)
  PROVE  /\ DOMAIN w = 1..Len(w) /\ Len(w) \in Nat \ {0} /\ Len(w) \in DOMAIN w
         /\ Last(w) = w[Len(w)] /\ Last(w).to \in Faults /\ Froms(w) \subseteq Faults
         /\ ~Over(w) => Last(w).to \in DOMAIN c /\ Last(w).to \notin Froms(w)
<1>1. DOMAIN w = 1..Len(w) /\ Len(w) \in Nat \ {0} /\ Len(w) \in DOMAIN w
  BY DEF Trodden
<1>2. Last(w) = w[Len(w)]
  BY DEF Last
<1>3. \A i \in 1..Len(w) : w[i] \in Edges
  BY <1>1 DEF Trodden
<1>4. \A i \in 1..Len(w) : w[i].to \in Faults /\ w[i].from \in Faults
  BY <1>3 DEF Edges
<1>5. Last(w).to \in DOMAIN c \cup {Healthy}
  BY <1>1, <1>2, CheapestIs DEF Trodden
<1>6. ~Over(w) => Last(w).to # Healthy /\ Last(w).to \notin Froms(w)
  BY <1>1 DEF Over, Returns, Froms
<1> QED
  BY <1>1, <1>2, <1>4, <1>5, <1>6 DEF Froms

LEMMA TreadsOn ==
  ASSUME NEW g, NEW c \in Cheapest(g), NEW s, NEW w, Trodden(g, c, s, w), ~Over(w),
         NEW e \in Onwards(g, c, Last(w).to)
  PROVE  Trodden(g, c, s, Append(w, e)) /\ Len(Append(w, e)) = Len(w) + 1
<1> DEFINE from == Last(w).to
           v == Append(w, e)
           n == Len(w)
<1>1. /\ n \in Nat \ {0} /\ w[n].to = from /\ from \in Faults /\ Froms(w) \subseteq Faults
      /\ from \in DOMAIN c /\ from \notin Froms(w)
  BY LastIs
<1> HIDE DEF from
<1>2. e \in Edges /\ e.from = from /\ e.action = c[from] /\ e.to \in Leads(g, from, c[from])
  BY <1>1, OnwardsIs DEF from
<1>3. w \in Seq(Edges)
  BY DEF Trodden
<1>4. v \in Seq(Edges) /\ Len(v) = n + 1 /\ v[n + 1] = e /\ \A i \in 1..n : v[i] = w[i]
  BY <1>2, <1>3
<1> HIDE DEF v, n
<1>5. \A i \in 1..Len(v) : i = n + 1 \/ i \in 1..n
  BY <1>1, <1>4
<1>6. \A i \in 1..Len(v) : /\ v[i].from \in DOMAIN c /\ v[i].action = c[v[i].from]
                           /\ v[i].to \in Leads(g, v[i].from, v[i].action)
  BY <1>1, <1>2, <1>4, <1>5 DEF Trodden, n
<1>7. ASSUME NEW i \in 1..(Len(v) - 1) PROVE v[i + 1].from = v[i].to
  <2>1. i \in 1..n /\ (i = n \/ i \in 1..(n - 1))
    BY <1>1, <1>4
  <2>2. CASE i = n
    BY <1>1, <1>2, <1>4, <2>1, <2>2
  <2>3. CASE i \in 1..(n - 1)
    <3>1. i + 1 \in 1..n
      BY <1>1, <2>3
    <3> QED
      BY <1>4, <2>1, <2>3, <3>1 DEF Trodden, n
  <2> QED
    BY <2>1, <2>2, <2>3
<1>8. Froms(v) = Froms(w) \cup {from}
  <2>1. Froms(v) = {v[i].from : i \in 1..(n + 1)} /\ Froms(w) = {w[i].from : i \in 1..n}
    BY <1>4 DEF Froms, n
  <2>2. 1..(n + 1) = (1..n) \cup {n + 1}
    BY <1>1
  <2> QED
    BY <1>2, <1>4, <2>1, <2>2
<1>9. IsFiniteSet(Froms(v)) /\ Cardinality(Froms(v)) = Len(v)
  <2>1. IsFiniteSet(Froms(w)) /\ Cardinality(Froms(w)) = n
    BY DEF Trodden, n
  <2>2. IsFiniteSet(Froms(w) \cup {from}) /\ Cardinality(Froms(w) \cup {from}) = n + 1
    BY <1>1, <2>1, FS_AddElement
  <2> QED
    BY <1>4, <1>8, <2>2
<1>10. Len(v) > 0 /\ v[1].from = s
  BY <1>1, <1>4 DEF Trodden
<1>11. Trodden(g, c, s, v)
  BY <1>4, <1>6, <1>7, <1>9, <1>10 DEF Trodden
<1> QED
  BY <1>4, <1>11 DEF v, n

Walks(g, c, s) == CHOOSE walks : walks = [n \in 1..Cardinality(Faults) |->
  IF n = 1 THEN {<<e>> : e \in Onwards(g, c, s)}
  ELSE UNION {IF Over(w) THEN {w} ELSE {Append(w, e) : e \in Onwards(g, c, Last(w).to)} :
              w \in walks[n - 1]}]

LEMMA WalksAre ==
  ASSUME NEW g, NEW c \in Cheapest(g), NEW s \in Faults \cap DOMAIN c
  PROVE  /\ Walks(g, c, s)[1] = {<<e>> : e \in Onwards(g, c, s)}
         /\ \A n \in 2..Cardinality(Faults) : Walks(g, c, s)[n] = Further(g, c, Walks(g, c, s)[n - 1])
         /\ \A n \in 1..Cardinality(Faults) : \A w \in Walks(g, c, s)[n] : Trodden(g, c, s, w)
<1> DEFINE good == {w \in Seq(Edges) : Trodden(g, c, s, w)}
           U == SUBSET good
           N == Cardinality(Faults)
           start == {<<e>> : e \in Onwards(g, c, s)}
           step == [W \in U |-> Further(g, c, W)]
<1>0. \A w : w \in good <=> Trodden(g, c, s, w)
  BY DEF Trodden
<1> HIDE DEF good
<1>1. N \in Nat \ {0} /\ N - 1 \in Nat
  BY FaultsFinite
<1>2. start \in U
  BY <1>0, SetsOut
<1>3. ASSUME NEW W \in U PROVE Further(g, c, W) \in U
  <2>1. ASSUME NEW v \in Further(g, c, W) PROVE v \in good
    <3>1. PICK w \in W : v \in (IF Over(w) THEN {w} ELSE {Append(w, e) : e \in Onwards(g, c, Last(w).to)})
      BY <2>1 DEF Further
    <3>2. Trodden(g, c, s, w)
      BY <1>0
    <3>3. CASE Over(w)
      BY <3>1, <3>3
    <3>4. CASE ~Over(w)
      <4>1. PICK e \in Onwards(g, c, Last(w).to) : v = Append(w, e)
        BY <3>1, <3>4
      <4> QED
        BY <1>0, <3>2, <3>4, <4>1, TreadsOn
    <3> QED
      BY <3>3, <3>4
  <2> QED
    BY <2>1
<1>4. step \in [U -> U] /\ \A W \in U : step[W] = Further(g, c, W)
  BY <1>3
<1> HIDE DEF U, N, start, step
<1>5a. PICK f : Iterated(f, U, start, step, N - 1)
  BY <1>1, <1>2, <1>4, Iterates
<1>5. f \in [0..(N - 1) -> U] /\ f[0] = start /\ \A n \in 1..(N - 1) : f[n] = step[f[n - 1]]
  BY <1>5a DEF Iterated
<1> DEFINE walks == [n \in 1..N |-> f[n - 1]]
<1>6. \A n \in 1..N : walks[n] = f[n - 1] /\ n - 1 \in 0..(N - 1)
  BY <1>1
<1>7. ASSUME NEW n \in 1..N, n # 1
      PROVE  n - 1 \in 1..N /\ walks[n] = Further(g, c, walks[n - 1])
  <2>1. n - 1 \in 1..(N - 1) /\ n - 1 \in 1..N /\ (n - 1) - 1 \in 0..(N - 1)
    BY <1>1, <1>7
  <2>2. f[n - 1] = step[f[(n - 1) - 1]] /\ f[(n - 1) - 1] \in U
    BY <1>5, <2>1
  <2>3. walks[n] = f[n - 1] /\ walks[n - 1] = f[(n - 1) - 1]
    BY <1>6, <2>1
  <2> HIDE DEF walks
  <2> QED
    BY <1>4, <2>1, <2>2, <2>3
<1>8. 1 \in 1..N /\ walks[1] = start
  BY <1>1, <1>5, <1>6
<1>9. DOMAIN walks = 1..N /\ walks = [n \in 1..N |-> walks[n]]
  OBVIOUS
<1> HIDE DEF walks
<1>10. \A n \in 1..N : walks[n] = IF n = 1 THEN start ELSE Further(g, c, walks[n - 1])
  BY <1>7, <1>8
<1>11. walks = [n \in 1..N |-> IF n = 1 THEN start ELSE Further(g, c, walks[n - 1])]
  BY <1>9, <1>10
<1> DEFINE ws == Walks(g, c, s)
<1>12. ws = [n \in 1..N |-> IF n = 1 THEN start ELSE Further(g, c, ws[n - 1])]
  BY <1>11 DEF Walks, Further, N, start
<1> HIDE DEF ws
<1>13. /\ ws[1] = start
       /\ \A n \in 2..N : ws[n] = Further(g, c, ws[n - 1])
  <2>1. \A n \in 2..N : n \in 1..N /\ n # 1
    BY <1>1
  <2> QED
    BY <1>8, <1>12, <2>1
<1>14. \A n \in 1..N : ws[n] \in U
  <2> DEFINE B == {m \in 0..(N - 1) : ws[m + 1] \in U}
  <2>1. 0 \in B
    BY <1>1, <1>2, <1>13
  <2>2. ASSUME NEW m \in 0..((N - 1) - 1), m \in B PROVE m + 1 \in B
    <3>1. (m + 1) + 1 \in 2..N /\ m + 1 \in 0..(N - 1) /\ ((m + 1) + 1) - 1 = m + 1
      BY <1>1
    <3>2. ws[(m + 1) + 1] = Further(g, c, ws[m + 1])
      BY <1>13, <3>1
    <3> QED
      BY <1>3, <2>2, <3>1, <3>2
  <2> HIDE DEF B
  <2>3. 0..(N - 1) \subseteq B
    BY <1>1, <2>1, <2>2, NumberInduction
  <2>4. ASSUME NEW n \in 1..N PROVE ws[n] \in U
    <3>1. n - 1 \in 0..(N - 1) /\ (n - 1) + 1 = n
      BY <1>1
    <3>2. n - 1 \in B
      BY <2>3, <3>1
    <3> QED
      BY <3>1, <3>2 DEF B
  <2> QED
    BY <2>4
<1> QED
  BY <1>0, <1>13, <1>14 DEF ws, N, start, U

LEMMA PathsAre ==
  ASSUME NEW g, NEW c \in Cheapest(g), NEW s \in Faults \cap DOMAIN c, NEW p \in Paths(g, c, s)
  PROVE  Trodden(g, c, s, p) /\ Over(p)
<1> DEFINE N == Cardinality(Faults)
           ws == Walks(g, c, s)
<1>1. N \in Nat \ {0} /\ N - 1 \in Nat
  BY FaultsFinite
<1>2. p \in ws[N]
  BY DEF Paths, Walks, Onwards
<1>3. /\ ws[1] = {<<e>> : e \in Onwards(g, c, s)}
      /\ \A n \in 2..N : ws[n] = Further(g, c, ws[n - 1])
      /\ \A n \in 1..N : \A w \in ws[n] : Trodden(g, c, s, w)
  BY WalksAre
<1> HIDE DEF N, ws
<1>4. \A n \in 1..N : \A w \in ws[n] : Over(w) \/ Len(w) = n
  <2> DEFINE B == {m \in 0..(N - 1) : \A w \in ws[m + 1] : Over(w) \/ Len(w) = m + 1}
  <2>1. 0 \in B
    BY <1>1, <1>3
  <2>2. ASSUME NEW m \in 0..((N - 1) - 1), m \in B PROVE m + 1 \in B
    <3>1. /\ (m + 1) + 1 \in 2..N /\ m + 1 \in 0..(N - 1) /\ m + 1 \in 1..N
          /\ ((m + 1) + 1) - 1 = m + 1
      BY <1>1
    <3>2. ws[(m + 1) + 1] = Further(g, c, ws[m + 1])
      BY <1>3, <3>1
    <3>3. ASSUME NEW v \in ws[(m + 1) + 1], ~Over(v) PROVE Len(v) = (m + 1) + 1
      <4>1. PICK w \in ws[m + 1] :
              v \in (IF Over(w) THEN {w} ELSE {Append(w, e) : e \in Onwards(g, c, Last(w).to)})
        BY <3>2, <3>3 DEF Further
      <4>2. ~Over(w)
        BY <3>3, <4>1
      <4>3. PICK e \in Onwards(g, c, Last(w).to) : v = Append(w, e)
        BY <4>1, <4>2
      <4>4. Len(w) = m + 1 /\ Trodden(g, c, s, w)
        BY <1>3, <2>2, <3>1, <4>2
      <4> QED
        BY <4>2, <4>3, <4>4, TreadsOn
    <3> QED
      BY <3>1, <3>3
  <2> HIDE DEF B
  <2>3. 0..(N - 1) \subseteq B
    BY <1>1, <2>1, <2>2, NumberInduction
  <2>4. ASSUME NEW n \in 1..N PROVE \A w \in ws[n] : Over(w) \/ Len(w) = n
    <3>1. n - 1 \in 0..(N - 1) /\ (n - 1) + 1 = n
      BY <1>1
    <3>2. n - 1 \in B
      BY <2>3, <3>1
    <3> QED
      BY <3>1, <3>2 DEF B
  <2> QED
    BY <2>4
<1>5. N \in 1..N
  BY <1>1
<1>6. Trodden(g, c, s, p)
  BY <1>2, <1>3, <1>5
<1>7. ASSUME ~Over(p) PROVE FALSE
  <2>1. Len(p) = N
    BY <1>2, <1>4, <1>5, <1>7
  <2> DEFINE t == Last(p).to
  <2>2. t \in Faults /\ t \notin Froms(p) /\ Froms(p) \subseteq Faults
    BY <1>6, <1>7, LastIs
  <2>3. IsFiniteSet(Froms(p)) /\ Cardinality(Froms(p)) = N
    BY <1>6, <2>1 DEF Trodden
  <2> HIDE DEF t
  <2>4. Froms(p) \in SUBSET Faults /\ Cardinality(Froms(p)) = Cardinality(Faults)
    BY <2>2, <2>3 DEF N
  <2>5. Faults = Froms(p)
    BY <2>4, FaultsFinite, FS_Subset
  <2> QED
    BY <2>2, <2>5
<1> QED
  BY <1>6, <1>7

(* A walk that returns cannot have been led where it went in each step.    *)
LEMMA LedElsewhere ==
  ASSUME NEW g, NEW c \in Cheapest(g), NEW s, NEW p, Trodden(g, c, s, p), Returns(p)
  PROVE  \E i \in DOMAIN p : Cardinality(Leads(g, p[i].from, p[i].action)) > 1
<1>1. DOMAIN p = 1..Len(p) /\ Len(p) \in Nat \ {0} /\ Last(p) = p[Len(p)]
  BY LastIs
<1>2. PICK k \in 1..Len(p) : p[k].from = p[Len(p)].to
  BY <1>1 DEF Returns
<1> DEFINE X == {p[i].from : i \in k..Len(p)}
<1>3. \A i \in k..Len(p) : i \in 1..Len(p)
  BY <1>1
<1>4. X \in SUBSET DOMAIN c /\ X # {}
  BY <1>1, <1>2, <1>3 DEF Trodden
<1>5. PICK x \in X : ~(Leads(g, x, c[x]) \subseteq X)
  BY <1>4, CheapestIs
<1>6. PICK i \in k..Len(p) : x = p[i].from
  OBVIOUS
<1>7. i \in 1..Len(p) /\ p[i].action = c[x] /\ p[i].to \in Leads(g, x, c[x])
  BY <1>3, <1>6 DEF Trodden
<1>8. p[i].to \in X
  <2>1. CASE i = Len(p)
    <3>1. k \in k..Len(p)
      BY <1>1
    <3> QED
      BY <1>2, <2>1, <3>1
  <2>2. CASE i # Len(p)
    <3>1. i \in Nat /\ k \in Nat /\ Len(p) \in Nat /\ k <= i /\ i <= Len(p) /\ 1 <= k
      BY <1>1, <1>6, <1>7
    <3> HIDE DEF X
    <3>2. i \in 1..(Len(p) - 1) /\ i + 1 \in k..Len(p)
      BY <2>2, <3>1
    <3>3. p[i + 1].from = p[i].to
      BY <3>2 DEF Trodden
    <3> QED
      BY <3>2, <3>3 DEF X
  <2> QED
    BY <2>1, <2>2
<1>9. PICK t \in Leads(g, x, c[x]) : t \notin X
  BY <1>5
<1>10. IsFiniteSet(Leads(g, x, c[x])) /\ Cardinality(Leads(g, x, c[x])) \in Nat
  BY FaultsFinite, FS_Subset, FS_CardinalityType DEF Leads
<1> HIDE DEF X
<1>11. Cardinality(Leads(g, x, c[x])) # 0 /\ Cardinality(Leads(g, x, c[x])) # 1
  BY <1>7, <1>8, <1>9, <1>10, FS_EmptySet, FS_Singleton
<1> QED
  BY <1>1, <1>6, <1>7, <1>10, <1>11

LEMMA WaysAre ==
  ASSUME NEW g, IsGraph(g), NEW h, IsGraph(h), Within(g, h), NEW s \in Faults, NEW p \in Ways(g, s)
  PROVE  /\ p[1].from = s /\ Over(p) /\ (Supported(g, p) => Supported(h, p))
         /\ \A i \in DOMAIN p : p[i].to \in Leads(h, p[i].from, p[i].action)
         /\ Returns(p) => \E i \in DOMAIN p : Cardinality(Leads(h, p[i].from, p[i].action)) > 1
<1>1. PICK c \in Cheapest(g) : s \in DOMAIN c /\ p \in Paths(g, c, s)
  BY DEF Ways
<1>2. Trodden(g, c, s, p) /\ Over(p)
  BY <1>1, PathsAre
<1>3. DOMAIN p = 1..Len(p)
  BY <1>1, <1>2, LastIs
<1>4. p[1].from = s /\ \A i \in DOMAIN p : p[i].to \in Leads(g, p[i].from, p[i].action)
  BY <1>2, <1>3 DEF Trodden
<1>5. ASSUME NEW i \in DOMAIN p, Tries(g, p[i].from, p[i].action) >= MinSupport
      PROVE  Tries(h, p[i].from, p[i].action) >= MinSupport
  <2>1. /\ Tries(g, p[i].from, p[i].action) \in Nat /\ Tries(h, p[i].from, p[i].action) \in Nat
        /\ Tries(g, p[i].from, p[i].action) <= Tries(h, p[i].from, p[i].action)
    BY TriesGrow
  <2> QED
    BY <1>5, <2>1, BenchAssumption
<1>6. \A i \in DOMAIN p : Leads(g, p[i].from, p[i].action) \subseteq Leads(h, p[i].from, p[i].action)
  BY TriesGrow
<1>7. ASSUME Returns(p) PROVE \E i \in DOMAIN p : Cardinality(Leads(h, p[i].from, p[i].action)) > 1
  <2>1. PICK i \in DOMAIN p : Cardinality(Leads(g, p[i].from, p[i].action)) > 1
    BY <1>1, <1>2, <1>7, LedElsewhere
  <2> DEFINE G == Leads(g, p[i].from, p[i].action)
             H == Leads(h, p[i].from, p[i].action)
  <2>2. IsFiniteSet(G) /\ IsFiniteSet(H)
    BY FaultsFinite, FS_Subset DEF Leads
  <2>3. G \in SUBSET H
    BY <1>6
  <2> HIDE DEF G, H
  <2>4. Cardinality(G) <= Cardinality(H) /\ Cardinality(G) \in Nat /\ Cardinality(H) \in Nat
    BY <2>2, <2>3, FS_Subset, FS_CardinalityType
  <2>5. Cardinality(H) > 1
    BY <2>1, <2>4 DEF G
  <2> QED
    BY <2>5 DEF H
<1> QED
  BY <1>2, <1>4, <1>5, <1>6, <1>7 DEF Supported

----------------------------------------------------------------------------
(***************************************************************************)
(* The inductive invariant.  What was read and is being written is within  *)
(* what happened, too; and a server that is alone has what is in the file  *)
(* and what it is adding.                                                  *)
(***************************************************************************)
IsFile(f) == f \in {NoFile, Emptied, Garbled} \/ (f = Text(f.graph) /\ IsGraph(f.graph))
IsTap(t) ==
  /\ t \in [at : {"absent", "idle", "open", "write", "replace"}, from : Faults, to : Faults,
            graph : {t.graph}, handle : {"none", "tmp", "policy", "gone"}]
  /\ IsGraph(t.graph)
  /\ t.at \in {"absent", "idle"} => t \in {Restful, Absent}
  /\ t.handle # "none" => t.at = "write"
Shapes ==
  /\ belief \in [Servers -> Faults]
  /\ tap = [s \in Servers |-> tap[s]] /\ \A s \in Servers : IsTap(tap[s])
  /\ IsFile(policyFile) /\ IsFile(tmpFile) /\ IsGraph(happened)
  /\ breaks \in Nat /\ clears \in Nat /\ overlapped \in BOOLEAN

Happened ==
  /\ clears = 0 => Within(tmpFile.graph, happened)
  /\ ~Resurrected => Within(Load, happened) /\ \A s \in Servers : Within(tap[s].graph, happened)

Alone ==
  ~overlapped =>
    /\ \A s, r \in Servers : Busy(s) /\ Busy(r) => s = r
    /\ policyFile \notin {Emptied, Garbled}
    /\ \A s \in Servers : tap[s].at = "write" => tap[s].handle = "tmp" /\ tmpFile = Emptied
    /\ \A s \in Servers : tap[s].at = "replace" => tmpFile = Text(tap[s].graph)

LittleLost ==
  ~overlapped =>
    /\ (\A s \in Servers : ~Busy(s)) => Total(happened) <= Total(Load) + breaks
    /\ \A s \in Servers : Busy(s) => /\ Total(happened) <= Total(Load) + breaks + 1
                                     /\ Total(happened) <= Total(tap[s].graph) + breaks

BenchInv == Shapes /\ Happened /\ Alone /\ LittleLost /\ AdviceEarned

LEMMA FilesAre ==
  /\ NoFile.graph = EmptyGraph /\ Emptied.graph = EmptyGraph /\ Garbled.graph = EmptyGraph
  /\ NoFile # Emptied /\ NoFile # Garbled /\ Emptied # Garbled
  /\ \A g : Text(g).graph = g /\ Text(g) # NoFile /\ Text(g) # Emptied /\ Text(g) # Garbled
  /\ \A g : IsGraph(g) => IsFile(Text(g))
  /\ \A f : IsFile(f) => IsGraph(f.graph)
<1>1. /\ NoFile.graph = EmptyGraph /\ Emptied.graph = EmptyGraph /\ Garbled.graph = EmptyGraph
      /\ NoFile # Emptied /\ NoFile # Garbled /\ Emptied # Garbled
      /\ \A g : Text(g).graph = g /\ Text(g) # NoFile /\ Text(g) # Emptied /\ Text(g) # Garbled
  BY DEF NoFile, Emptied, Garbled, Text
<1> QED
  BY <1>1, EmptyGraphIs DEF IsFile

LEMMA TapsAre ==
  /\ Restful.at = "idle" /\ Restful.graph = EmptyGraph /\ Restful.handle = "none"
  /\ Absent.at = "absent" /\ Absent.graph = EmptyGraph /\ Absent.handle = "none"
  /\ IsTap(Restful) /\ IsTap(Absent)
<1>1. Healthy \in Faults
  BY FaultsFinite
<1> QED
  BY <1>1, EmptyGraphIs DEF Restful, Absent, IsTap

LEMMA BusyIs ==
  ASSUME Shapes, NEW s \in Servers
  PROVE  /\ Busy(s) <=> tap[s].at \in {"open", "write", "replace"}
         /\ ~Busy(s) => tap[s] \in {Restful, Absent} /\ tap[s].graph = EmptyGraph /\ tap[s].handle = "none"
         /\ IsGraph(tap[s].graph) /\ tap[s].from \in Faults /\ tap[s].to \in Faults
<1>1. IsTap(tap[s])
  BY DEF Shapes
<1>2. tap[s] \in {Restful, Absent} => tap[s].at \notin {"open", "write", "replace"}
  BY TapsAre
<1> QED
  BY <1>1, <1>2, TapsAre DEF IsTap, Busy

(* Whether a file was opened before it was renamed or removed changes no   *)
(* more than the handle.                                                   *)
LEMMA HandlesAre ==
  ASSUME Shapes, NEW moves \in {[tmp |-> "policy", policy |-> "gone"], [policy |-> "gone"]}, NEW s \in Servers
  PROVE  /\ IsTap(HandlesAfter(moves)[s])
         /\ HandlesAfter(moves)[s].at = tap[s].at /\ HandlesAfter(moves)[s].graph = tap[s].graph
         /\ tap[s].handle = "none" => HandlesAfter(moves)[s] = tap[s]
<1> DEFINE t == tap[s]
           handle == IF t.handle \in DOMAIN moves THEN moves[t.handle] ELSE t.handle
           u == [t EXCEPT !.handle = handle]
<1>1. IsTap(t)
  BY DEF Shapes
<1>2. HandlesAfter(moves)[s] = u
  BY DEF HandlesAfter
<1>3. /\ t = [at |-> t.at, from |-> t.from, to |-> t.to, graph |-> t.graph, handle |-> t.handle]
      /\ t.at \in {"absent", "idle", "open", "write", "replace"} /\ t.from \in Faults /\ t.to \in Faults
      /\ t.handle \in {"none", "tmp", "policy", "gone"} /\ IsGraph(t.graph)
      /\ (t.handle # "none" => t.at = "write") /\ (t.at \in {"absent", "idle"} => t \in {Restful, Absent})
  BY <1>1 DEF IsTap
<1>4. /\ t.handle = "none" => handle = "none"
      /\ handle \in {"none", "tmp", "policy", "gone"}
      /\ handle # "none" => t.handle # "none"
  BY <1>3
<1> HIDE DEF t, handle
<1>5. /\ u = [at |-> t.at, from |-> t.from, to |-> t.to, graph |-> t.graph, handle |-> handle]
      /\ (t.handle = "none" => u = t)
  BY <1>3, <1>4
<1> HIDE DEF u
<1>6. u.at = t.at /\ u.graph = t.graph /\ u.from = t.from /\ u.to = t.to /\ u.handle = handle
  BY <1>5
<1>7. IsTap(u)
  <2>1. u \in [at : {"absent", "idle", "open", "write", "replace"}, from : Faults, to : Faults,
               graph : {u.graph}, handle : {"none", "tmp", "policy", "gone"}]
    BY <1>3, <1>4, <1>5
  <2>2. u.at \in {"absent", "idle"} => u \in {Restful, Absent}
    BY <1>3, <1>5, <1>6
  <2>3. u.handle # "none" => u.at = "write"
    BY <1>3, <1>4, <1>6
  <2> QED
    BY <1>3, <1>6, <2>1, <2>2, <2>3 DEF IsTap
<1> QED
  BY <1>2, <1>5, <1>6, <1>7 DEF t

LEMMA OutcomesAre ==
  ASSUME NEW o \in Outcomes, NEW f \in Faults
  PROVE  o.tool \in Tools /\ o.ok \in BOOLEAN /\ ApplyOutcome(f, o) \in Faults
<1>1. o.tool \in Tools /\ o.ok \in BOOLEAN /\ o.crash \in Crashes \cup {NoCrash}
  BY DEF Outcomes
<1> QED
  BY <1>1, FaultsFinite DEF ApplyOutcome, Faults

LEMMA BenchStarts ==
  BenchInit => BenchInv
<1> SUFFICES ASSUME BenchInit PROVE BenchInv
  OBVIOUS
<1>1. \A s \in Servers : tap[s] \in {Restful, Absent}
  BY DEF BenchInit
<1>2. IsFile(policyFile) /\ IsGraph(policyFile.graph) /\ policyFile \notin {Emptied, Garbled}
  BY FilesAre, EmptyGraphIs, BenchAssumption DEF BenchInit, IsFile
<1>3. Shapes
  <2>1. tap = [s \in Servers |-> tap[s]] /\ \A s \in Servers : IsTap(tap[s])
    BY <1>1, TapsAre DEF BenchInit
  <2>2. IsFile(tmpFile) /\ IsGraph(happened) /\ breaks = 0 /\ clears = 0 /\ overlapped = FALSE
    BY <1>2 DEF BenchInit, IsFile
  <2>3. belief \in [Servers -> Faults]
    BY FaultsFinite DEF BenchInit
  <2> QED
    BY <1>2, <2>1, <2>2, <2>3 DEF Shapes
<1>4. Happened
  BY <1>1, <1>2, TapsAre, FilesAre, WithinFacts DEF BenchInit, Happened, Load
<1>5. \A s \in Servers : ~Busy(s) /\ tap[s].at \notin {"write", "replace"}
  BY <1>1, TapsAre DEF Busy
<1>6. Alone
  BY <1>2, <1>5 DEF Alone
<1>7. LittleLost
  BY <1>2, <1>5, TotalIs DEF BenchInit, LittleLost, Load
<1> QED
  BY <1>3, <1>4, <1>6, <1>7 DEF BenchInv, BenchInit, AdviceEarned

(* A server's step, with the others' recordings as they were.              *)
LEMMA TapBecomes ==
  ASSUME Shapes, NEW s \in Servers, NEW t, IsTap(t), tap' = [tap EXCEPT ![s] = t]
  PROVE  /\ tap' = [r \in Servers |-> tap'[r]] /\ \A r \in Servers : IsTap(tap'[r])
         /\ tap'[s] = t /\ \A r \in Servers : r # s => tap'[r] = tap[r]
BY DEF Shapes

LEMMA ObserveKeeps ==
  ASSUME BenchInv, NEW s \in Servers, Observe(s)
  PROVE  BenchInv'
<1> USE DEF BenchInv
<1>1. /\ tap[s] = Restful /\ advice' = NoAdvice
      /\ overlapped' = (overlapped \/ \E other \in Others(s) : Busy(other))
      /\ policyFile' = policyFile /\ tmpFile' = tmpFile /\ breaks' = breaks /\ clears' = clears
  BY DEF Observe
<1>2. PICK o \in Outcomes :
        LET from == belief[s]
            to   == ApplyOutcome(belief[s], o)
        IN  /\ belief' = [belief EXCEPT ![s] = to]
            /\ IF Recorded(from, o, to)
               THEN /\ tap' = [tap EXCEPT ![s] = [Restful EXCEPT
                         !.at = "open", !.from = from, !.to = to, !.graph = AddEdge(Load, from, o, to)]]
                    /\ happened' = AddEdge(happened, from, o, to)
               ELSE UNCHANGED <<tap, happened>>
  BY DEF Observe
<1> DEFINE from == belief[s]
           to   == ApplyOutcome(belief[s], o)
           g    == AddEdge(Load, from, o, to)
           h    == AddEdge(happened, from, o, to)
           t    == [Restful EXCEPT !.at = "open", !.from = from, !.to = to, !.graph = g]
<1>3. from \in Faults /\ to \in Faults /\ o.tool \in Tools /\ o.ok \in BOOLEAN
  BY OutcomesAre DEF Shapes
<1>4. belief' \in [Servers -> Faults] /\ overlapped' \in BOOLEAN /\ (overlapped => overlapped')
  BY <1>1, <1>2, <1>3 DEF Shapes
<1>5. AdviceEarned'
  BY <1>1 DEF AdviceEarned
<1>6. ~overlapped' => ~overlapped /\ \A r \in Servers : ~Busy(r)
  <2>1. ~Busy(s)
    BY <1>1 DEF Busy
  <2> QED
    BY <1>1, <2>1 DEF Others, Shapes
<1>7. CASE ~Recorded(from, o, to)
  <2>1. tap' = tap /\ happened' = happened
    BY <1>2, <1>7
  <2>2. Shapes'
    BY <1>1, <1>4, <2>1 DEF Shapes
  <2>3. Happened'
    BY <1>1, <1>4, <2>1 DEF Happened, Resurrected, Load
  <2>4. Alone' /\ LittleLost'
    BY <1>1, <1>4, <2>1 DEF Alone, LittleLost, Load, Busy
  <2> QED
    BY <1>5, <2>2, <2>3, <2>4
<1>8. CASE Recorded(from, o, to)
  <2>1. tap' = [tap EXCEPT ![s] = t] /\ happened' = h
    BY <1>2, <1>8
  <2>2. IsGraph(Load) /\ IsGraph(happened) /\ IsGraph(tmpFile.graph)
    BY FilesAre DEF Shapes, Load
  <2>3. Added(Load, Edge(from, o.tool, to), o.ok, g) /\ Added(happened, Edge(from, o.tool, to), o.ok, h)
    BY <1>3, <2>2, AddEdgeIs
  <2>4. IsGraph(g) /\ IsGraph(h)
    BY <2>3 DEF Added
  <2>5. Total(g) = Total(Load) + 1 /\ Total(h) = Total(happened) + 1
    BY <1>3, <2>2, AddEdgeCounts
  <2>6. /\ Within(Load, happened) => Within(Load, h) /\ Within(g, h)
        /\ Within(tmpFile.graph, happened) => Within(tmpFile.graph, h)
        /\ \A r \in Servers : Within(tap[r].graph, happened) => Within(tap[r].graph, h)
    BY <1>3, <2>2, AddEdgeGrows, BusyIs
  <2> HIDE DEF from, to, g, h
  <2>7. IsTap(t) /\ t.at = "open" /\ t.graph = g
    BY <1>3, <2>4 DEF Restful, Absent, IsTap
  <2> HIDE DEF t
  <2>8. /\ tap' = [r \in Servers |-> tap'[r]] /\ \A r \in Servers : IsTap(tap'[r])
        /\ tap'[s] = t /\ \A r \in Servers : r # s => tap'[r] = tap[r]
    BY <2>1, <2>7, TapBecomes
  <2>9. Shapes'
    BY <1>1, <1>4, <2>1, <2>4, <2>8 DEF Shapes
  <2>10. Happened'
    <3>1. clears' = 0 => Within(tmpFile'.graph, happened')
      BY <1>1, <2>1, <2>6 DEF Happened
    <3>2. ASSUME ~Resurrected'
          PROVE  Within(Load', happened') /\ \A r \in Servers : Within(tap'[r].graph, happened')
      <4>1. ~Resurrected /\ Load' = Load
        BY <1>1, <1>4, <3>2 DEF Resurrected, Load
      <4>2. Within(Load, h) /\ Within(g, h) /\ \A r \in Servers : Within(tap[r].graph, h)
        BY <2>6, <4>1 DEF Happened
      <4> QED
        BY <2>1, <2>7, <2>8, <4>1, <4>2
    <3> QED
      BY <3>1, <3>2 DEF Happened
  <2>11. ASSUME ~overlapped'
         PROVE  /\ ~overlapped /\ \A r \in Servers : r # s => ~Busy(r)' /\ tap'[r].at \notin {"write", "replace"}
                /\ \A r \in Servers : ~Busy(r)
    <3>1. ~overlapped /\ \A r \in Servers : ~Busy(r)
      BY <1>6, <2>11
    <3>2. \A r \in Servers : tap[r].at \notin {"write", "replace"}
      BY <3>1, BusyIs
    <3> QED
      BY <2>8, <3>1, <3>2 DEF Busy
  <2>12. Alone'
    <3>1. tap'[s].at = "open"
      BY <2>7, <2>8
    <3> QED
      BY <1>1, <2>11, <3>1 DEF Alone
  <2>13. LittleLost'
    <3>1. ASSUME ~overlapped'
          PROVE  Total(h) <= Total(Load) + breaks + 1 /\ Total(h) <= Total(g) + breaks
      <4>1. Total(happened) <= Total(Load) + breaks
        BY <2>11, <3>1 DEF LittleLost
      <4>2. Total(happened) \in Nat /\ Total(Load) \in Nat /\ breaks \in Nat
        BY <2>2, TotalIs DEF Shapes
      <4> QED
        BY <2>5, <4>1, <4>2
    <3>2. Busy(s)'
      <4>1. tap'[s].at = "open"
        BY <2>7, <2>8
      <4> QED
        BY <4>1, TapsAre DEF Busy
    <3>3. tap'[s].graph = g /\ Load' = Load
      BY <1>1, <2>7, <2>8 DEF Load
    <3> QED
      BY <1>1, <2>1, <2>11, <3>1, <3>2, <3>3 DEF LittleLost
  <2> QED
    BY <1>5, <2>9, <2>10, <2>12, <2>13
<1> QED
  BY <1>7, <1>8

LEMMA OpenTmpKeeps ==
  ASSUME BenchInv, NEW s \in Servers, OpenTmp(s)
  PROVE  BenchInv'
<1> USE DEF BenchInv
<1> DEFINE t == [tap[s] EXCEPT !.at = "write", !.handle = "tmp"]
<1>1. /\ tap[s].at = "open" /\ tmpFile' = Emptied /\ tap' = [tap EXCEPT ![s] = t]
      /\ UNCHANGED <<belief, policyFile, toolCalls, breaks, clears, happened, overlapped, advice>>
  BY DEF OpenTmp
<1>2. IsTap(t) /\ t.at = "write" /\ t.handle = "tmp" /\ t.graph = tap[s].graph
  <2>1. IsTap(tap[s])
    BY DEF Shapes
  <2> QED
    BY <1>1, <2>1 DEF IsTap
<1> HIDE DEF t
<1>3. /\ tap' = [r \in Servers |-> tap'[r]] /\ \A r \in Servers : IsTap(tap'[r])
      /\ tap'[s] = t /\ \A r \in Servers : r # s => tap'[r] = tap[r]
  BY <1>1, <1>2, TapBecomes
<1>4. Shapes'
  BY <1>1, <1>3 DEF Shapes, IsFile
<1>5. \A r \in Servers : tap'[r].graph = tap[r].graph
  BY <1>2, <1>3
<1>6. Happened'
  BY <1>1, <1>5, FilesAre, WithinFacts DEF Happened, Resurrected, Load
<1>7. Busy(s) /\ \A r \in Servers : Busy(r)' <=> Busy(r)
  <2>1. Busy(s)
    BY <1>1, BusyIs
  <2>2. Busy(s)'
    BY <1>2, <1>3, TapsAre DEF Busy
  <2> QED
    BY <1>3, <2>1, <2>2 DEF Busy
<1>8. Alone'
  <2>1. ASSUME ~overlapped, NEW r \in Servers, r # s PROVE tap'[r].at \notin {"write", "replace"}
    <3>1. ~Busy(r)
      BY <1>7, <2>1 DEF Alone
    <3> QED
      BY <1>3, <2>1, <3>1, BusyIs
  <2> QED
    BY <1>1, <1>2, <1>3, <1>7, <2>1 DEF Alone
<1>9. LittleLost'
  BY <1>1, <1>5, <1>7 DEF LittleLost, Load
<1>10. AdviceEarned'
  BY <1>1 DEF AdviceEarned, Resurrected
<1> QED
  BY <1>4, <1>6, <1>8, <1>9, <1>10

LEMMA WriteTmpKeeps ==
  ASSUME BenchInv, NEW s \in Servers, WriteTmp(s)
  PROVE  BenchInv'
<1> USE DEF BenchInv
<1> DEFINE t == [tap[s] EXCEPT !.at = "replace", !.handle = "none"]
           g == tap[s].graph
<1>1. /\ tap[s].at = "write" /\ tap' = [tap EXCEPT ![s] = t]
      /\ IF tap[s].handle = "tmp" THEN tmpFile' \in Overwritten(tmpFile, g) ELSE UNCHANGED tmpFile
      /\ IF tap[s].handle = "policy" THEN policyFile' \in Overwritten(policyFile, g) ELSE UNCHANGED policyFile
      /\ UNCHANGED <<belief, toolCalls, breaks, clears, happened, overlapped, advice>>
  BY DEF WriteTmp
<1>2. IsTap(t) /\ t.at = "replace" /\ t.handle = "none" /\ t.graph = g
  <2>1. IsTap(tap[s])
    BY DEF Shapes
  <2> QED
    BY <1>1, <2>1 DEF IsTap
<1>3. IsGraph(g)
  BY BusyIs
<1> HIDE DEF t, g
<1>4. /\ tap' = [r \in Servers |-> tap'[r]] /\ \A r \in Servers : IsTap(tap'[r])
      /\ tap'[s] = t /\ \A r \in Servers : r # s => tap'[r] = tap[r]
  BY <1>1, <1>2, TapBecomes
<1>5. /\ tmpFile' \in {tmpFile, Text(g), Garbled} /\ policyFile' \in {policyFile, Text(g), Garbled}
  BY <1>1 DEF Overwritten
<1>6. Shapes'
  BY <1>1, <1>3, <1>4, <1>5, FilesAre DEF Shapes, IsFile
<1>7. \A r \in Servers : tap'[r].graph = tap[r].graph
  BY <1>2, <1>4 DEF g
<1>8. Happened'
  <2>1. ASSUME clears = 0 PROVE Within(tmpFile'.graph, happened)
    <3>1. ~Resurrected
      BY <2>1 DEF Resurrected
    <3>2. Within(g, happened)
      BY <3>1 DEF Happened, g
    <3> QED
      BY <1>5, <2>1, <3>2, FilesAre, WithinFacts DEF Happened
  <2>2. ASSUME ~Resurrected PROVE Within(policyFile'.graph, happened)
    <3>1. Within(g, happened)
      BY <2>2 DEF Happened, g
    <3> QED
      BY <1>5, <2>2, <3>1, FilesAre, WithinFacts DEF Happened, Load
  <2> QED
    BY <1>1, <1>7, <2>1, <2>2 DEF Happened, Resurrected, Load
<1>9. Busy(s) /\ \A r \in Servers : Busy(r)' <=> Busy(r)
  <2>1. Busy(s)
    BY <1>1, BusyIs
  <2>2. Busy(s)'
    BY <1>2, <1>4, TapsAre DEF Busy
  <2> QED
    BY <1>4, <2>1, <2>2 DEF Busy
<1>10. ASSUME ~overlapped
       PROVE  policyFile' = policyFile /\ tmpFile' = Text(g)
  <2>1. tap[s].handle = "tmp" /\ tmpFile = Emptied
    BY <1>1, <1>10 DEF Alone
  <2> QED
    BY <1>1, <2>1 DEF Overwritten
<1>11. Alone'
  <2>1. ASSUME ~overlapped, NEW r \in Servers, r # s PROVE tap'[r].at \notin {"write", "replace"}
    <3>1. ~Busy(r)
      BY <1>9, <2>1 DEF Alone
    <3> QED
      BY <1>4, <2>1, <3>1, BusyIs
  <2> QED
    BY <1>1, <1>2, <1>4, <1>9, <1>10, <2>1 DEF Alone
<1>12. LittleLost'
  BY <1>1, <1>7, <1>9, <1>10 DEF LittleLost, Load
<1>13. AdviceEarned'
  BY <1>1 DEF AdviceEarned, Resurrected
<1> QED
  BY <1>6, <1>8, <1>11, <1>12, <1>13

LEMMA AdviseEarns ==
  ASSUME BenchInv, NEW s \in Servers, Advise(s),
         happened' = happened, overlapped' = overlapped, clears' = clears
  PROVE  AdviceEarned'
<1> DEFINE g == tap[s].graph
           ways == IF tap[s].to # Healthy /\ tap[s].from # tap[s].to THEN Ways(g, tap[s].to) ELSE {}
<1> SUFFICES ASSUME advice' # NoAdvice, ~Resurrected PROVE AdviceEarned'
  BY DEF AdviceEarned, Resurrected
<1>1. PICK p \in ways : Supported(g, p) /\ advice' = [at |-> tap[s].to, path |-> p]
  BY DEF Advise
<1>2. p \in Ways(g, tap[s].to)
  BY <1>1
<1>3. IsGraph(g) /\ IsGraph(happened) /\ tap[s].to \in Faults
  BY BusyIs DEF BenchInv, Shapes
<1>4. Within(g, happened)
  BY DEF BenchInv, Happened
<1> HIDE DEF g
<1>5. /\ p[1].from = tap[s].to /\ Over(p) /\ Supported(happened, p)
      /\ \A i \in DOMAIN p : p[i].to \in Leads(happened, p[i].from, p[i].action)
      /\ Returns(p) => \E i \in DOMAIN p : Cardinality(Leads(happened, p[i].from, p[i].action)) > 1
  BY <1>1, <1>2, <1>3, <1>4, WaysAre
<1>6. advice'.at = tap[s].to /\ advice'.path = p
  BY <1>1
<1> QED
  BY <1>5, <1>6 DEF AdviceEarned

LEMMA ReplacePolicyKeeps ==
  ASSUME BenchInv, NEW s \in Servers, ReplacePolicy(s)
  PROVE  BenchInv'
<1> USE DEF BenchInv
<1> DEFINE moves == [tmp |-> "policy", policy |-> "gone"]
<1>1. /\ tap[s].at = "replace" /\ tmpFile # NoFile /\ policyFile' = tmpFile /\ tmpFile' = NoFile
      /\ tap' = [HandlesAfter(moves) EXCEPT ![s] = Restful]
      /\ UNCHANGED <<belief, toolCalls, breaks, clears, happened, overlapped>>
  BY DEF ReplacePolicy, Renamed
<1>2. AdviceEarned'
  BY AdviseEarns DEF ReplacePolicy
<1>3. /\ tap' = [r \in Servers |-> tap'[r]] /\ tap'[s] = Restful
      /\ \A r \in Servers : r # s => tap'[r] = HandlesAfter(moves)[r]
  BY <1>1 DEF HandlesAfter
<1>4. \A r \in Servers : r # s =>
        /\ IsTap(tap'[r]) /\ tap'[r].at = tap[r].at /\ tap'[r].graph = tap[r].graph
        /\ tap[r].handle = "none" => tap'[r] = tap[r]
  BY <1>3, HandlesAre
<1>5. Shapes'
  BY <1>1, <1>3, <1>4, TapsAre DEF Shapes, IsFile
<1>6. Happened'
  <2>1. clears' = 0 => Within(tmpFile'.graph, happened')
    BY <1>1, FilesAre, WithinFacts
  <2>2. ASSUME ~Resurrected' PROVE Within(Load', happened')
    <3>1. ~Resurrected /\ Load' = tmpFile.graph /\ happened' = happened
      BY <1>1, <2>2 DEF Resurrected, Load
    <3>2. CASE overlapped
      BY <3>1, <3>2 DEF Happened, Resurrected, Shapes
    <3>3. CASE ~overlapped
      <4>1. tmpFile.graph = tap[s].graph
        BY <1>1, <3>3, FilesAre DEF Alone
      <4> QED
        BY <3>1, <4>1 DEF Happened
    <3> QED
      BY <3>2, <3>3
  <2>3. ASSUME ~Resurrected', NEW r \in Servers PROVE Within(tap'[r].graph, happened')
    <3>1. ~Resurrected /\ happened' = happened
      BY <1>1, <2>3 DEF Resurrected
    <3>2. tap'[r].graph = tap[r].graph \/ tap'[r].graph = EmptyGraph
      BY <1>3, <1>4, TapsAre
    <3> QED
      BY <3>1, <3>2, WithinFacts DEF Happened
  <2> QED
    BY <2>1, <2>2, <2>3 DEF Happened
<1>7. Busy(s) /\ ~Busy(s)'
  BY <1>1, <1>3, BusyIs DEF Busy
<1>8. ASSUME ~overlapped
      PROVE  /\ \A r \in Servers : ~Busy(r)' /\ tap'[r].at \notin {"write", "replace"}
             /\ policyFile' = Text(tap[s].graph)
  <2>1. \A r \in Servers : r # s => ~Busy(r)
    BY <1>7, <1>8 DEF Alone
  <2>2. \A r \in Servers : r # s => tap'[r] = tap[r] /\ tap[r].at \notin {"write", "replace"}
    BY <1>4, <2>1, BusyIs
  <2>3. policyFile' = Text(tap[s].graph)
    BY <1>1, <1>8 DEF Alone
  <2> QED
    BY <1>3, <1>7, <2>1, <2>2, <2>3, TapsAre DEF Busy
<1>9. Alone'
  BY <1>1, <1>8, FilesAre DEF Alone
<1>10. LittleLost'
  <2>1. ASSUME ~overlapped PROVE Total(happened) <= Total(Load') + breaks
    <3>1. Load' = tap[s].graph
      BY <1>8, <2>1, FilesAre DEF Load
    <3> QED
      BY <1>7, <2>1, <3>1 DEF LittleLost
  <2> QED
    BY <1>1, <1>8, <2>1 DEF LittleLost
<1> QED
  BY <1>2, <1>5, <1>6, <1>9, <1>10

(* A server gives up, and starts again.                                    *)
LEMMA GivesUp ==
  ASSUME BenchInv, NEW s \in Servers, Busy(s), tap' = [tap EXCEPT ![s] = Restful],
         UNCHANGED <<policyFile, tmpFile, clears, happened, overlapped>>,
         belief' \in {belief, [belief EXCEPT ![s] = Healthy]}, advice' = NoAdvice,
         breaks' \in Nat, ~overlapped => breaks' = breaks + 1
  PROVE  BenchInv'
<1> USE DEF BenchInv
<1>1. /\ tap' = [r \in Servers |-> tap'[r]] /\ \A r \in Servers : IsTap(tap'[r])
      /\ tap'[s] = Restful /\ \A r \in Servers : r # s => tap'[r] = tap[r]
  BY TapsAre, TapBecomes
<1>2. Shapes'
  BY <1>1, FaultsFinite DEF Shapes
<1>3. Happened'
  BY <1>1, TapsAre, WithinFacts DEF Happened, Resurrected, Load
<1>4. ASSUME ~overlapped, NEW r \in Servers
      PROVE  ~Busy(r)' /\ tap'[r].at \notin {"write", "replace"}
  <2>1. CASE r = s
    BY <1>1, <2>1, TapsAre DEF Busy
  <2>2. CASE r # s
    <3>1. ~Busy(r) /\ tap'[r] = tap[r]
      BY <1>1, <1>4, <2>2 DEF Alone
    <3> QED
      BY <3>1, BusyIs DEF Busy
  <2> QED
    BY <2>1, <2>2
<1>5. Alone'
  BY <1>4 DEF Alone
<1>6. LittleLost'
  <2>1. ASSUME ~overlapped PROVE Total(happened) <= Total(Load) + breaks'
    <3>1. Total(happened) <= Total(Load) + breaks + 1
      BY <2>1 DEF LittleLost
    <3>2. Total(happened) \in Nat /\ Total(Load) \in Nat /\ breaks \in Nat
      BY FilesAre, TotalIs DEF Shapes, Load
    <3> QED
      BY <2>1, <3>1, <3>2
  <2> QED
    BY <1>4, <2>1 DEF LittleLost, Load
<1>7. AdviceEarned'
  BY DEF AdviceEarned
<1> QED
  BY <1>2, <1>3, <1>5, <1>6, <1>7

LEMMA ReplaceFailsKeeps ==
  ASSUME BenchInv, NEW s \in Servers, ReplaceFails(s)
  PROVE  BenchInv'
<1>1. /\ tap[s].at = "replace" /\ (tmpFile = NoFile \/ \E other \in Others(s) : tap[other].handle # "none")
      /\ tap' = [tap EXCEPT ![s] = Restful] /\ advice' = NoAdvice
      /\ UNCHANGED <<belief, policyFile, tmpFile, toolCalls, breaks, clears, happened, overlapped>>
  BY DEF ReplaceFails
<1>2. Busy(s)
  BY <1>1, BusyIs DEF BenchInv
<1>3. overlapped
  <2>1. ASSUME ~overlapped PROVE FALSE
    <3>1. tmpFile # NoFile
      BY <1>1, <2>1, FilesAre DEF BenchInv, Alone
    <3>2. \A other \in Others(s) : ~Busy(other)
      BY <1>2, <2>1 DEF BenchInv, Alone, Others
    <3>3. \A other \in Others(s) : tap[other].handle = "none"
      BY <3>2, BusyIs DEF BenchInv, Others
    <3> QED
      BY <1>1, <3>1, <3>3
  <2> QED
    BY <2>1
<1>4. breaks' \in Nat
  BY <1>1 DEF BenchInv, Shapes
<1> QED
  BY <1>1, <1>2, <1>3, <1>4, GivesUp

LEMMA BreaksOffKeeps ==
  ASSUME BenchInv, NEW s \in Servers, BreaksOff(s)
  PROVE  BenchInv'
<1>1. breaks' = breaks + 1 /\ breaks' \in Nat
  BY DEF BreaksOff, BenchInv, Shapes
<1> QED
  BY <1>1, GivesUp DEF BreaksOff

LEMMA ClearGraphKeeps ==
  ASSUME BenchInv, ClearGraph
  PROVE  BenchInv'
<1> USE DEF BenchInv
<1> DEFINE moves == [policy |-> "gone"]
<1>1. /\ clears' = clears + 1 /\ policyFile' = NoFile /\ happened' = EmptyGraph /\ advice' = NoAdvice
      /\ tap' = HandlesAfter(moves)
      /\ overlapped' = (overlapped \/ \E s \in Servers : Busy(s))
      /\ UNCHANGED <<belief, tmpFile, toolCalls, breaks>>
  BY DEF ClearGraph, Unlinked
<1>2. tap' = [r \in Servers |-> tap'[r]]
  BY <1>1 DEF HandlesAfter
<1>3. \A r \in Servers : /\ IsTap(tap'[r]) /\ tap'[r].at = tap[r].at /\ tap'[r].graph = tap[r].graph
                         /\ tap[r].handle = "none" => tap'[r] = tap[r]
  BY <1>1, HandlesAre
<1>4. clears' \in Nat /\ clears' # 0 /\ overlapped' \in BOOLEAN
  BY <1>1 DEF Shapes
<1>5. Shapes'
  BY <1>1, <1>2, <1>3, <1>4, EmptyGraphIs DEF Shapes, IsFile
<1>6. ASSUME ~overlapped', NEW r \in Servers
      PROVE  /\ ~Busy(r)' /\ tap'[r].at \notin {"write", "replace"}
             /\ tap'[r].graph = EmptyGraph
  <2>1. ~Busy(r)
    BY <1>1, <1>6
  <2>2. tap'[r] = tap[r]
    BY <1>3, <2>1, BusyIs
  <2> QED
    BY <2>1, <2>2, BusyIs DEF Busy
<1>7. Happened'
  <2>1. Load' = EmptyGraph
    BY <1>1, FilesAre DEF Load
  <2>2. ~Resurrected' => ~overlapped'
    BY <1>4 DEF Resurrected, Shapes
  <2> QED
    BY <1>1, <1>4, <1>6, <2>1, <2>2, WithinFacts DEF Happened
<1>8. Alone'
  BY <1>1, <1>6, FilesAre DEF Alone
<1>9. LittleLost'
  <2>1. Load' = EmptyGraph /\ Total(EmptyGraph) = 0 /\ breaks \in Nat
    BY <1>1, FilesAre, EmptyGraphIs DEF Load, Shapes
  <2> QED
    BY <1>1, <1>6, <2>1 DEF LittleLost
<1>10. AdviceEarned'
  BY <1>1 DEF AdviceEarned
<1> QED
  BY <1>5, <1>7, <1>8, <1>9, <1>10

LEMMA BenchStutters ==
  ASSUME BenchInv, UNCHANGED benchVars
  PROVE  BenchInv'
BY DEF benchVars, BenchInv, Shapes, Happened, Alone, LittleLost, AdviceEarned, Resurrected, Load, Busy

(* The invariant, of every step of every server and of `nff policy clear'. *)
THEOREM BenchHolds == BenchSpec => []BenchInv
<1>1. BenchInit => BenchInv
  BY BenchStarts
<1>2. BenchInv /\ [BenchNext]_benchVars => BenchInv'
  <2> SUFFICES ASSUME BenchInv, [BenchNext]_benchVars PROVE BenchInv'
    OBVIOUS
  <2>1. ASSUME NEW s \in Servers, Observe(s) PROVE BenchInv'
    BY <2>1, ObserveKeeps
  <2>2. ASSUME NEW s \in Servers, OpenTmp(s) PROVE BenchInv'
    BY <2>2, OpenTmpKeeps
  <2>3. ASSUME NEW s \in Servers, WriteTmp(s) PROVE BenchInv'
    BY <2>3, WriteTmpKeeps
  <2>4. ASSUME NEW s \in Servers, ReplacePolicy(s) PROVE BenchInv'
    BY <2>4, ReplacePolicyKeeps
  <2>5. ASSUME NEW s \in Servers, ReplaceFails(s) PROVE BenchInv'
    BY <2>5, ReplaceFailsKeeps
  <2>6. ASSUME NEW s \in Servers, BreaksOff(s) PROVE BenchInv'
    BY <2>6, BreaksOffKeeps
  <2>7. CASE ClearGraph
    BY <2>7, ClearGraphKeeps
  <2>8. CASE UNCHANGED benchVars
    BY <2>8, BenchStutters
  <2> QED
    BY <2>1, <2>2, <2>3, <2>4, <2>5, <2>6, <2>7, <2>8 DEF BenchNext
<1> QED
  BY <1>1, <1>2, PTL DEF BenchSpec

LEMMA BenchFollows ==
  BenchInv => BenchSound
<1> SUFFICES ASSUME BenchInv PROVE BenchSound
  OBVIOUS
<1> USE DEF BenchInv
<1>1. BenchTypeOK
  BY FilesAre DEF Shapes, IsTap, BenchTypeOK
<1>2. InventsNothing
  BY DEF Happened, Within, InventsNothing
<1>3. ASSUME ~overlapped
      PROVE  Total(happened) <= Total(Load) + breaks + Cardinality({s \in Servers : Busy(s)})
  <2> DEFINE busy == {s \in Servers : Busy(s)}
  <2>1. Total(happened) \in Nat /\ Total(Load) \in Nat /\ breaks \in Nat
    BY FilesAre, TotalIs DEF Shapes, Load
  <2>2. CASE busy = {}
    <3>1. Cardinality(busy) = 0
      BY <2>2, FS_EmptySet
    <3>2. Total(happened) <= Total(Load) + breaks
      BY <1>3, <2>2 DEF LittleLost
    <3> HIDE DEF busy
    <3>3. Total(happened) <= Total(Load) + breaks + Cardinality(busy)
      BY <2>1, <3>1, <3>2
    <3> QED
      BY <3>3 DEF busy
  <2>3. CASE busy # {}
    <3>1. PICK s \in Servers : Busy(s)
      BY <2>3
    <3>2. busy = {s}
      BY <1>3, <3>1 DEF Alone
    <3>3. Cardinality(busy) = 1
      BY <3>2, FS_Singleton
    <3>4. Total(happened) <= Total(Load) + breaks + 1
      BY <1>3, <3>1 DEF LittleLost
    <3> HIDE DEF busy
    <3>5. Total(happened) <= Total(Load) + breaks + Cardinality(busy)
      BY <3>3, <3>4
    <3> QED
      BY <3>5 DEF busy
  <2> QED
    BY <2>2, <2>3
<1>4. LosesLittle
  BY <1>3 DEF Alone, LosesLittle
<1> QED
  BY <1>1, <1>2, <1>4 DEF BenchSound

(* The policy file never counts what did not happen, loses little while no *)
(* two servers overlap, and what a server advises was earned               *)
(* (policy.py:166-223, 339-384, 471-473).                                  *)
THEOREM BenchIsSound == BenchSpec => []BenchSound
BY BenchHolds, BenchFollows, PTL

=============================================================================
