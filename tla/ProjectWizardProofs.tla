---------------------------- MODULE ProjectWizardProofs ----------------------------
(* Proofs about the project wizard: a workspace the validator finds nothing wrong with works, and *)
(* a finished drawing has every node in the layer of its longest chain, for every catalogue and  *)
(* every workspace.                                                                              *)
EXTENDS ProjectWizard, FiniteSetTheorems, WellFoundedInduction, TLAPS

-----------------------------------------------------------------------------
(* Least numbers and iteration.                                                                  *)

LEMMA LeastNumber ==
    ASSUME NEW T, T \subseteq Nat, T # {}
    PROVE  \E m \in T : \A n \in T : m <= n
<1>1. IsWellFoundedOn(OpToRel(<, Nat), Nat)
  BY NatLessThanWellFounded
<1>2. PICK m \in T : \A n \in T : ~(<<n, m>> \in OpToRel(<, Nat))
  BY <1>1, WFMin
<1>3. ASSUME NEW n \in T PROVE m <= n
  <2>1. n \in Nat /\ m \in Nat
    OBVIOUS
  <2>2. ~(n < m)
    BY <1>2, <2>1 DEF OpToRel
  <2> QED
    BY <2>1, <2>2
<1> QED
  BY <1>3

(* The values of F applied to a up to N times.                                                   *)
IsIteration(f, T, F, a, N) ==
    f \in [0..N -> T] /\ f[0] = a /\ \A n \in 1..N : f[n] = F[f[n - 1]]

(* A function of a set to itself can be applied any number of times.                             *)
LEMMA Iterates ==
    ASSUME NEW T, NEW F \in [T -> T], NEW a \in T, NEW N \in Nat
    PROVE  \E f : IsIteration(f, T, F, a, N)
<1> DEFINE Up(k, f) == f[0] = a /\ \A n \in 1..k : f[n] = F[f[n - 1]]
           Bad == {k \in Nat : ~ \E f \in [0..k -> T] : Up(k, f)}
<1>1. Bad = {}
  <2> SUFFICES ASSUME Bad # {} PROVE FALSE
    OBVIOUS
  <2>1. PICK m \in Bad : \A n \in Bad : m <= n
    <3>1. Bad \subseteq Nat
      OBVIOUS
    <3> HIDE DEF Bad
    <3> QED
      BY <3>1, LeastNumber
  <2>2. m \in Nat /\ ~ \E f \in [0..m -> T] : Up(m, f)
    OBVIOUS
  <2>3. CASE m = 0
    <3> DEFINE g == [n \in 0..0 |-> a]
    <3>1. g \in [0..m -> T] /\ g[0] = a /\ 1..m = {}
      BY <2>3
    <3> QED
      BY <2>2, <3>1
  <2>4. CASE m # 0
    <3>1. m - 1 \in Nat /\ ~(m <= m - 1)
      BY <2>2, <2>4
    <3>2. m - 1 \notin Bad
      BY <2>1, <3>1
    <3>3. PICK f \in [0..(m - 1) -> T] : Up(m - 1, f)
      BY <3>1, <3>2
    <3> DEFINE g == [n \in 0..m |-> IF n = m THEN F[f[m - 1]] ELSE f[n]]
    <3>4. m - 1 \in 0..(m - 1) /\ 0 \in 0..(m - 1) /\ \A n \in 0..m : n # m => n \in 0..(m - 1)
      BY <3>1, <2>2
    <3>5. f[m - 1] \in T
      BY <3>3, <3>4
    <3>6. F[f[m - 1]] \in T
      BY <3>5
    <3>7. g \in [0..m -> T]
      BY <3>3, <3>4, <3>6
    <3>8. g[0] = a
      BY <2>2, <2>4, <3>3
    <3>9. ASSUME NEW n \in 1..m PROVE g[n] = F[g[n - 1]]
      <4>1. n \in 0..m /\ n - 1 \in 0..m /\ n - 1 # m /\ n - 1 \in 0..(m - 1)
        BY <2>2
      <4>2. g[n - 1] = f[n - 1]
        BY <4>1
      <4>3. CASE n = m
        BY <4>1, <4>2, <4>3
      <4>4. CASE n # m
        <5>1. n \in 1..(m - 1)
          BY <2>2, <4>4
        <5> QED
          BY <3>3, <4>1, <4>2, <4>4, <5>1
      <4> QED
        BY <4>3, <4>4
    <3> QED
      BY <2>2, <3>7, <3>8, <3>9
  <2> QED
    BY <2>3, <2>4
<1>2. N \notin Bad
  BY <1>1
<1> QED
  BY <1>2 DEF IsIteration

(* The chains of a graph: none has no edge, and one edge more leads onward.                      *)
LEMMA ChainsGrow ==
    ASSUME NEW g, g.edges \subseteq g.nodes \X g.nodes, IsFiniteSet(g.nodes)
    PROVE  LET N == Cardinality(g.nodes) + 1 IN
           /\ N \in Nat
           /\ ChainEnds(g)[0] = g.nodes
           /\ \A n \in 1..N : ChainEnds(g)[n] = Onward(g, ChainEnds(g)[n - 1])
<1> DEFINE N == Cardinality(g.nodes) + 1
           V == g.nodes
           F == [S \in SUBSET V |-> Onward(g, S)]
           Chains(f) == f = [n \in 0..N |-> IF n = 0 THEN V ELSE Onward(g, f[n - 1])]
<1>1. N \in Nat
  BY FS_CardinalityType
<1>2. F \in [SUBSET V -> SUBSET V]
  BY DEF Onward
<1>3. PICK f \in [0..N -> SUBSET V] : f[0] = V /\ \A n \in 1..N : f[n] = F[f[n - 1]]
  <2>1. PICK T : T = SUBSET V
    OBVIOUS
  <2>2. V \in T /\ F \in [T -> T]
    BY <1>2, <2>1
  <2> HIDE DEF F, V, N
  <2>3. \E f : IsIteration(f, T, F, V, N)
    BY <1>1, <2>2, Iterates
  <2> QED
    BY <2>1, <2>3 DEF IsIteration
<1>4. ASSUME NEW n \in 0..N PROVE f[n] = IF n = 0 THEN V ELSE Onward(g, f[n - 1])
  <2>1. CASE n = 0
    BY <1>3, <2>1
  <2>2. CASE n # 0
    <3>1. n \in 1..N /\ n - 1 \in 0..N
      BY <1>1, <2>2
    <3>2. f[n - 1] \in SUBSET V
      BY <1>3, <3>1
    <3> QED
      BY <1>3, <2>2, <3>1, <3>2
  <2> QED
    BY <2>1, <2>2
<1>5. Chains(f)
  BY <1>3, <1>4
<1>6. ChainEnds(g) = CHOOSE after : Chains(after)
  BY DEF ChainEnds
<1>7. Chains(ChainEnds(g))
  <2> HIDE DEF Chains
  <2> QED
    BY <1>5, <1>6
<1>8. /\ ChainEnds(g)[0] = V
      /\ \A n \in 1..N : ChainEnds(g)[n] = Onward(g, ChainEnds(g)[n - 1])
  <2>1. PICK h : h = ChainEnds(g)
    OBVIOUS
  <2>2. h = [n \in 0..N |-> IF n = 0 THEN V ELSE Onward(g, h[n - 1])]
    BY <1>7, <2>1
  <2>3. 0 \in 0..N /\ \A n \in 1..N : n \in 0..N /\ n # 0
    BY <1>1
  <2>4. h[0] = V
    BY <2>2, <2>3
  <2>5. ASSUME NEW n \in 1..N PROVE h[n] = Onward(g, h[n - 1])
    BY <2>2, <2>3
  <2> QED
    BY <2>1, <2>4, <2>5
<1> QED
  BY <1>1, <1>8

-----------------------------------------------------------------------------
(* The graphs that are drawn.                                                                    *)

(* Edges connect nodes, and there are finitely many of them.                                     *)
SoundGraph(g) == IsFiniteSet(g.nodes) /\ g.edges \subseteq g.nodes \X g.nodes

(* AUTO_LOAD adds only components of the registry.                                               *)
LEMMA ClosureBounded ==
    ASSUME NEW ids
    PROVE  Closure(ids) \subseteq ids \cup DOMAIN Registry
<1> DEFINE N == Cardinality(DOMAIN Registry)
           V == ids \cup DOMAIN Registry
           F == [S \in SUBSET V |-> AutoLoadOf(S)]
           Rounds(f) == f = [n \in 0..N |-> IF n = 0 THEN ids ELSE AutoLoadOf(f[n - 1])]
<1>1. N \in Nat
  BY CatalogueAssumption, FS_CardinalityType
<1>2. \A S \in SUBSET V : AutoLoadOf(S) \in SUBSET V
  BY CatalogueAssumption DEF AutoLoadOf
<1>3. PICK f \in [0..N -> SUBSET V] : f[0] = ids /\ \A n \in 1..N : f[n] = F[f[n - 1]]
  <2>1. PICK T : T = SUBSET V
    OBVIOUS
  <2>2. ids \in T /\ F \in [T -> T]
    BY <1>2, <2>1
  <2> HIDE DEF F, V, N
  <2>3. \E f : IsIteration(f, T, F, ids, N)
    BY <1>1, <2>2, Iterates
  <2> QED
    BY <2>1, <2>3 DEF IsIteration
<1>4. ASSUME NEW n \in 0..N PROVE f[n] = IF n = 0 THEN ids ELSE AutoLoadOf(f[n - 1])
  <2>1. CASE n = 0
    BY <1>3, <2>1
  <2>2. CASE n # 0
    <3>1. n \in 1..N /\ n - 1 \in 0..N
      BY <1>1, <2>2
    <3>2. f[n - 1] \in SUBSET V
      BY <1>3, <3>1
    <3> QED
      BY <1>3, <2>2, <3>1, <3>2
  <2> QED
    BY <2>1, <2>2
<1>5. Rounds(f)
  BY <1>3, <1>4
<1>6. AutoLoadRounds(ids) = CHOOSE rounds : Rounds(rounds)
  BY DEF AutoLoadRounds
<1>7. Rounds(AutoLoadRounds(ids))
  <2> HIDE DEF Rounds
  <2> QED
    BY <1>5, <1>6
<1>8. PICK h : h = AutoLoadRounds(ids)
  OBVIOUS
<1>9. \A n \in 0..N : h[n] = IF n = 0 THEN ids ELSE AutoLoadOf(h[n - 1])
  BY <1>7, <1>8
<1> DEFINE Bad == {n \in 0..N : ~(h[n] \subseteq V)}
<1>10. Bad = {}
  <2> SUFFICES ASSUME Bad # {} PROVE FALSE
    OBVIOUS
  <2>1. Bad \subseteq Nat
    BY <1>1
  <2>2. PICK m \in Bad : \A n \in Bad : m <= n
    <3> HIDE DEF Bad
    <3> QED
      BY <2>1, LeastNumber
  <2>3. m \in 0..N /\ ~(h[m] \subseteq V)
    OBVIOUS
  <2>4. m # 0
    BY <1>9, <2>3
  <2>5. m - 1 \in 0..N /\ ~(m <= m - 1)
    BY <1>1, <2>3, <2>4
  <2>6. h[m - 1] \subseteq V
    BY <2>2, <2>5
  <2>7. h[m] = AutoLoadOf(h[m - 1])
    BY <1>9, <2>3, <2>4
  <2> QED
    BY <1>2, <2>3, <2>6, <2>7
<1>11. N \in 0..N
  BY <1>1
<1>12. h[N] \subseteq V
  BY <1>10, <1>11
<1> QED
  BY <1>8, <1>12 DEF Closure

LEMMA StepsGraph ==
    ASSUME NEW id \in DOMAIN Solutions
    PROVE  SoundGraph(from_steps(Solutions[id].steps))
<1>1. PICK steps : steps = Solutions[id].steps
  OBVIOUS
<1> DEFINE g == from_steps(steps)
           ids == {s.id : s \in Range(steps)}
           f == [k \in DOMAIN steps |-> steps[k].id]
<1>2. steps \in Seq(Range(steps))
  BY <1>1, CatalogueAssumption
<1>3. Len(steps) \in Nat /\ DOMAIN steps = 1..Len(steps)
  BY <1>2
<1>4. IsFiniteSet(DOMAIN steps)
  BY <1>3, FS_Interval
<1>5. f \in Surjection(DOMAIN steps, ids)
  BY DEF Surjection, Range
<1>6. IsFiniteSet(ids)
  BY <1>4, <1>5, FS_Surjection
<1>7. LinearChain(steps) \subseteq ids \X ids
  <2>1. \A k \in 2..Len(steps) : k - 1 \in DOMAIN steps /\ k \in DOMAIN steps
    BY <1>3
  <2>2. \A k \in DOMAIN steps : steps[k].id \in ids
    BY DEF Range
  <2> QED
    BY <2>1, <2>2 DEF LinearChain
<1>8. UNION {{<<d, s.id>> : d \in s.deps \cap ids} : s \in Range(steps)} \subseteq ids \X ids
  OBVIOUS
<1>9. g.nodes = ids /\ g.edges \subseteq ids \X ids
  BY <1>7, <1>8 DEF from_steps
<1> QED
  BY <1>1, <1>6, <1>9 DEF SoundGraph

LEMMA BuildGraph ==
    ASSUME NEW ids \in Selections
    PROVE  SoundGraph(from_components(ids))
<1> DEFINE g == from_components(ids)
           fixed == {"validate", "set_target", "build", "flash", "size_report"}
<1>1. g.nodes = ids \cup fixed
  BY DEF from_components, BuildStages
<1>a. ASSUME NEW e \in g.edges PROVE e \in (ids \cup fixed) \X (ids \cup fixed)
  <2>1. \/ \E id \in ids : e = <<"validate", id>> \/ e = <<id, "set_target">>
        \/ e = <<"set_target", "build">> \/ e = <<"build", "flash">> \/ e = <<"build", "size_report">>
    <3> DEFINE U == UNION {{<<"validate", id>>, <<id, "set_target">>} : id \in ids}
               W == {<<"set_target", "build">>, <<"build", "flash">>, <<"build", "size_report">>}
    <3>1. g.edges = U \cup W
      BY DEF from_components
    <3>2. e \in U \/ e \in W
      <4> HIDE DEF U, W, g
      <4> QED
        BY <3>1
    <3>3. ASSUME e \in U
          PROVE  \E id \in ids : e = <<"validate", id>> \/ e = <<id, "set_target">>
      <4>1. PICK id \in ids : e \in {<<"validate", id>>, <<id, "set_target">>}
        BY <3>3, Zenon
      <4> QED
        BY <4>1, Zenon
    <3> QED
      BY <3>2, <3>3
  <2> QED
    BY <2>1
<1>2. \A S, x : IsFiniteSet(S) => IsFiniteSet(S \cup {x})
  BY FS_AddElement
<1>3. IsFiniteSet({"validate"} \cup {"set_target"} \cup {"build"} \cup {"flash"} \cup {"size_report"})
  BY <1>2, FS_Singleton
<1>4. IsFiniteSet(fixed)
  <2>1. fixed = {"validate"} \cup {"set_target"} \cup {"build"} \cup {"flash"} \cup {"size_report"}
    OBVIOUS
  <2> QED
    BY <1>3, <2>1
<1>5. IsFiniteSet(ids \cup fixed)
  BY <1>4, CatalogueAssumption, FS_Union
<1> QED
  BY <1>1, <1>a, <1>5 DEF SoundGraph

LEMMA ComponentGraph ==
    ASSUME NEW ids \in Selections
    PROVE  SoundGraph(from_registry(ids))
<1> DEFINE g == from_registry(ids)
<1>1. g.nodes = Closure(ids) /\ g.edges \subseteq g.nodes \X g.nodes
  BY DEF from_registry
<1>2. IsFiniteSet(ids \cup DOMAIN Registry)
  BY CatalogueAssumption, FS_Union
<1>3. IsFiniteSet(Closure(ids))
  BY <1>2, ClosureBounded, FS_Subset
<1> QED
  BY <1>1, <1>3 DEF SoundGraph

-----------------------------------------------------------------------------
(* The layout.                                                                                   *)

(* The nodes placed so far: each lies behind all its predecessors, directly behind one of them,  *)
(* and no deeper than there are nodes before it.                                                 *)
PlacedAt(n) ==
    /\ depth[n] \in Nat /\ depth[n] < Cardinality(Placed)
    /\ Incoming(n) \subseteq Placed
    /\ \A m \in Incoming(n) : depth[m] < depth[n]
    /\ IF depth[n] = 0 THEN pred[n] = n /\ Incoming(n) = {}
       ELSE pred[n] \in Incoming(n) /\ depth[pred[n]] = depth[n] - 1

(* A chain of d edges ends in the node, and no longer one.                                       *)
Longest(g, n, d) ==
    n \in ChainEnds(g)[d] /\ \A k \in (d + 1)..(Cardinality(g.nodes) + 1) : n \notin ChainEnds(g)[k]

LongestAt(n) == Longest(graph, n, depth[n])

LayoutInv ==
    /\ SoundGraph(graph)
    /\ Placed \subseteq graph.nodes /\ DOMAIN pred = Placed
    /\ \A n \in Placed : PlacedAt(n) /\ LongestAt(n)

(* What placing a node does.                                                                     *)
LEMMA NodePlaced ==
    ASSUME LayoutInv, PlaceNode
    PROVE  \E n \in graph.nodes \ Placed, d \in Nat, p \in graph.nodes :
              /\ graph' = graph /\ Incoming(n) \subseteq Placed
              /\ depth' = Extend(depth, n, d) /\ pred' = Extend(pred, n, p)
              /\ \A m \in Incoming(n) : depth[m] < d
              /\ \/ d = 0 /\ p = n /\ Incoming(n) = {}
                 \/ d # 0 /\ p \in Incoming(n) /\ depth[p] = d - 1
<1>1. PICK n \in graph.nodes \ Placed :
         /\ Incoming(n) \subseteq Placed /\ graph' = graph
         /\ \/ /\ Incoming(n) = {}
               /\ depth' = Extend(depth, n, 0) /\ pred' = Extend(pred, n, n)
            \/ \E m \in Behind(n) :
                 /\ depth' = Extend(depth, n, depth[m] + 1) /\ pred' = Extend(pred, n, m)
  BY DEF PlaceNode
<1>2. \A m \in Incoming(n) : depth[m] \in Nat
  BY <1>1 DEF LayoutInv, PlacedAt
<1>3. CASE /\ Incoming(n) = {}
           /\ depth' = Extend(depth, n, 0) /\ pred' = Extend(pred, n, n)
  BY <1>1, <1>3
<1>4. ASSUME NEW m \in Behind(n), depth' = Extend(depth, n, depth[m] + 1), pred' = Extend(pred, n, m)
      PROVE  \E d \in Nat, p \in Incoming(n) : /\ depth' = Extend(depth, n, d) /\ pred' = Extend(pred, n, p)
                                               /\ \A k \in Incoming(n) : depth[k] < d
                                               /\ d # 0 /\ p \in Incoming(n) /\ depth[p] = d - 1
  <2>1. m \in Incoming(n) /\ \A k \in Incoming(n) : depth[m] >= depth[k]
    BY <1>4 DEF Behind
  <2>2. depth[m] \in Nat
    BY <1>2, <2>1
  <2>3. \A k \in Incoming(n) : depth[k] < depth[m] + 1
    BY <1>2, <2>1, <2>2
  <2>4. depth[m] + 1 \in Nat /\ depth[m] + 1 # 0 /\ depth[m] = (depth[m] + 1) - 1
    BY <2>2
  <2> QED
    BY <1>4, <2>1, <2>3, <2>4
<1>5. n \in graph.nodes /\ Incoming(n) \subseteq graph.nodes
  BY <1>1 DEF LayoutInv
<1> QED
  BY <1>1, <1>3, <1>4, <1>5

(* A node that follows its predecessors is on the longest chain that its depth says.             *)
Before(g, n) == {e[1] : e \in {c \in g.edges : c[2] = n}}

LEMMA LongestBehind ==
    ASSUME NEW g, NEW n, NEW d \in Nat, NEW at,
           SoundGraph(g), n \in g.nodes, d <= Cardinality(g.nodes),
           \A m \in Before(g, n) : at[m] \in Nat /\ at[m] < d /\ Longest(g, m, at[m]),
           d = 0 \/ \E p \in Before(g, n) : at[p] = d - 1
    PROVE  Longest(g, n, d)
<1> DEFINE D == Before(g, n)
<1> DEFINE N == Cardinality(g.nodes) + 1
           C == ChainEnds(g)
<1>1. /\ N \in Nat /\ C[0] = g.nodes
      /\ \A k \in 1..N : C[k] = Onward(g, C[k - 1])
  BY ChainsGrow DEF SoundGraph
<1>2. N - 1 = Cardinality(g.nodes) /\ Cardinality(g.nodes) \in Nat
  BY FS_CardinalityType DEF SoundGraph
<1>3. \A k \in 1..N : n \in C[k] <=> \E m \in D : m \in C[k - 1]
  <2> SUFFICES ASSUME NEW k \in 1..N PROVE n \in C[k] <=> \E m \in D : m \in C[k - 1]
    OBVIOUS
  <2>1. PICK S : S = C[k - 1]
    OBVIOUS
  <2>2. C[k] = Onward(g, S)
    BY <1>1, <2>1
  <2>3. n \in Onward(g, S) <=> \E m \in D : m \in S
    BY DEF Onward, Before
  <2> QED
    BY <2>1, <2>2, <2>3
<1>a. \A m \in D : /\ at[m] \in Nat /\ at[m] < d /\ m \in C[at[m]]
                  /\ \A k \in (at[m] + 1)..N : m \notin C[k]
  BY DEF Longest
<1> HIDE DEF C, N, D
<1>4. n \in C[d]
  <2>1. CASE d = 0
    BY <1>1, <2>1
  <2>2. ASSUME NEW p \in D, at[p] = d - 1 PROVE n \in C[d]
    <3>1. p \in C[d - 1] /\ d - 1 \in Nat
      BY <1>a, <2>2
    <3>2. d \in 1..N
      BY <1>1, <1>2, <3>1
    <3> QED
      BY <1>3, <2>2, <3>1, <3>2
  <2> QED
    BY <2>1, <2>2 DEF D
<1>5. ASSUME NEW k \in (d + 1)..N PROVE n \notin C[k]
  <2>1. k \in 1..N
    BY <1>1
  <2>2. ASSUME NEW m \in D PROVE m \notin C[k - 1]
    <3>1. at[m] \in Nat /\ at[m] < d
      BY <1>a
    <3>2. k - 1 \in (at[m] + 1)..N
      BY <1>1, <3>1
    <3> QED
      BY <1>a, <3>2
  <2> QED
    BY <1>3, <2>1, <2>2
<1> QED
  BY <1>4, <1>5 DEF C, N, Longest

(* The step that places a node keeps the layout of the others.                                   *)
LEMMA PlaceNodeStep ==
    ASSUME LayoutInv, PlaceNode
    PROVE  LayoutInv'
<1>1. PICK n \in graph.nodes \ Placed, d \in Nat, p \in graph.nodes :
         /\ graph' = graph /\ Incoming(n) \subseteq Placed
         /\ depth' = Extend(depth, n, d) /\ pred' = Extend(pred, n, p)
         /\ \A m \in Incoming(n) : depth[m] < d
         /\ \/ d = 0 /\ p = n /\ Incoming(n) = {}
            \/ d # 0 /\ p \in Incoming(n) /\ depth[p] = d - 1
  BY NodePlaced
<1>2. /\ SoundGraph(graph) /\ Placed \subseteq graph.nodes
      /\ \A m \in Placed : PlacedAt(m) /\ LongestAt(m)
  BY DEF LayoutInv
<1>3. \A m : (Incoming(m))' = Incoming(m)
  BY <1>1 DEF Incoming
<1>4. /\ Placed' = Placed \cup {n} /\ n \notin Placed
      /\ depth'[n] = d /\ \A m \in Placed : depth'[m] = depth[m]
  BY <1>1 DEF Placed, Extend
<1>5. IsFiniteSet(graph.nodes) /\ IsFiniteSet(Placed)
  BY <1>2, FS_Subset DEF SoundGraph
<1>6. /\ Cardinality(Placed) \in Nat /\ Cardinality(graph.nodes) \in Nat
      /\ Cardinality(Placed') = Cardinality(Placed) + 1
      /\ Cardinality(Placed') <= Cardinality(graph.nodes)
  <2>1. Placed' \subseteq graph.nodes
    BY <1>1, <1>2, <1>4
  <2> QED
    BY <1>4, <1>5, <2>1, FS_AddElement, FS_CardinalityType, FS_Subset
<1>7. d < Cardinality(Placed) + 1
  <2>1. CASE d = 0
    BY <1>6, <2>1
  <2>2. CASE d # 0
    <3>1. p \in Placed /\ depth[p] = d - 1
      BY <1>1, <2>2
    <3>2. depth[p] < Cardinality(Placed)
      BY <1>2, <3>1 DEF PlacedAt
    <3> QED
      BY <1>6, <3>1, <3>2
  <2> QED
    BY <2>1, <2>2
<1>8. DOMAIN pred' = Placed' /\ pred'[n] = p /\ \A m \in Placed : pred'[m] = pred[m]
  <2>1. DOMAIN pred = Placed
    BY DEF LayoutInv
  <2> QED
    BY <1>1, <1>4, <2>1 DEF Extend
<1>9. ASSUME NEW m \in Placed PROVE (PlacedAt(m))' /\ (LongestAt(m))'
  <2>1. PlacedAt(m) /\ LongestAt(m) /\ depth'[m] = depth[m] /\ pred'[m] = pred[m]
    BY <1>2, <1>4, <1>8
  <2>2. Incoming(m) \subseteq Placed /\ \A k \in Incoming(m) : depth'[k] = depth[k]
    BY <1>4, <2>1 DEF PlacedAt
  <2>3. depth[m] # 0 => depth'[pred[m]] = depth[pred[m]]
    BY <2>1, <2>2 DEF PlacedAt
  <2>4. depth[m] \in Nat /\ depth[m] < Cardinality(Placed)
    BY <2>1 DEF PlacedAt
  <2>5. depth[m] < Cardinality(Placed')
    BY <1>6, <2>4
  <2>6. (PlacedAt(m))'
    BY <1>3, <1>4, <2>1, <2>2, <2>3, <2>4, <2>5 DEF PlacedAt
  <2>7. (LongestAt(m))'
    BY <1>1, <2>1 DEF LongestAt
  <2> QED
    BY <2>6, <2>7
<1>10. (PlacedAt(n))'
  <2>1. \A k \in Incoming(n) : depth'[k] = depth[k]
    BY <1>1, <1>4
  <2>2. \A k \in Incoming(n) : depth'[k] < d
    BY <1>1, <2>1
  <2>3. d < Cardinality(Placed')
    BY <1>6, <1>7
  <2>4. IF d = 0 THEN p = n /\ Incoming(n) = {} ELSE p \in Incoming(n) /\ depth'[p] = d - 1
    BY <1>1, <2>1
  <2>5. Incoming(n) \subseteq Placed'
    BY <1>1, <1>4
  <2> QED
    BY <1>3, <1>4, <1>8, <2>2, <2>3, <2>4, <2>5 DEF PlacedAt
<1>11. (LongestAt(n))'
  <2>1. PICK g, at : g = graph /\ at = depth
    OBVIOUS
  <2>2. Before(g, n) = Incoming(n)
    BY <2>1 DEF Before, Incoming
  <2>3. SoundGraph(g) /\ n \in g.nodes
    BY <1>1, <1>2, <2>1
  <2>4. d <= Cardinality(g.nodes)
    BY <1>6, <1>7, <2>1
  <2>5. \A m \in Before(g, n) : at[m] \in Nat /\ at[m] < d /\ Longest(g, m, at[m])
    BY <1>1, <1>2, <2>1, <2>2 DEF PlacedAt, LongestAt
  <2>6. d = 0 \/ \E q \in Before(g, n) : at[q] = d - 1
    BY <1>1, <2>1, <2>2
  <2>7. Longest(g, n, d)
    BY <2>3, <2>4, <2>5, <2>6, LongestBehind
  <2> QED
    BY <1>1, <1>4, <2>1, <2>7 DEF LongestAt
<1>12. (SoundGraph(graph))' /\ Placed' \subseteq graph'.nodes
  BY <1>1, <1>2, <1>4 DEF SoundGraph
<1>13. \A m \in Placed' : (PlacedAt(m))' /\ (LongestAt(m))'
  BY <1>4, <1>9, <1>10, <1>11
<1> QED
  BY <1>8, <1>12, <1>13 DEF LayoutInv

(* LayoutInv is inductive.                                                                       *)
LEMMA LayoutInit == Init => LayoutInv
<1> SUFFICES ASSUME Init PROVE LayoutInv
  OBVIOUS
<1>1. graph = NoGraph /\ Placed = {} /\ DOMAIN pred = {}
  BY DEF Init, Placed
<1> QED
  BY <1>1, FS_EmptySet DEF LayoutInv, SoundGraph, NoGraph

LEMMA LayoutStep ==
    ASSUME LayoutInv, [Next]_vars
    PROVE  LayoutInv'
<1>1. CASE UNCHANGED <<graph, depth, pred>>
  BY <1>1 DEF LayoutInv, Placed, PlacedAt, LongestAt, Incoming
<1>2. ASSUME NEW g, SoundGraph(g), Draw(g) PROVE LayoutInv'
  <2>1. graph = NoGraph /\ graph' = g /\ UNCHANGED <<depth, pred>>
    BY <1>2 DEF Draw
  <2>2. Placed = {}
    BY <2>1 DEF LayoutInv, NoGraph
  <2>3. Placed' = {} /\ DOMAIN pred' = {}
    BY <2>1, <2>2 DEF Placed, LayoutInv
  <2>4. (SoundGraph(graph))'
    BY <1>2, <2>1 DEF SoundGraph
  <2> QED
    BY <2>3, <2>4 DEF LayoutInv
<1>3. CASE SaveProfile \/ RemoveProfile
  BY <1>1, <1>3 DEF SaveProfile, RemoveProfile
<1>4. CASE get_orchestration_dag
  <2>1. PICK id \in DOMAIN Solutions : Draw(from_steps(Solutions[id].steps))
    BY <1>4 DEF get_orchestration_dag
  <2> QED
    BY <1>2, <2>1, StepsGraph
<1>5. CASE get_build_pipeline_dag
  <2>1. PICK ids \in Selections : Draw(from_components(ids))
    BY <1>5 DEF get_build_pipeline_dag
  <2> QED
    BY <1>2, <2>1, BuildGraph
<1>6. CASE get_dependency_dag
  <2>1. PICK ids \in Selections : Draw(from_registry(ids))
    BY <1>6 DEF get_dependency_dag
  <2> QED
    BY <1>2, <2>1, ComponentGraph
<1>7. CASE PlaceNode
  BY <1>7, PlaceNodeStep
<1>8. CASE CloseGraph
  <2>1. graph' = NoGraph /\ Placed' = {} /\ DOMAIN pred' = {}
    BY <1>8 DEF CloseGraph, Placed
  <2> QED
    BY <2>1, FS_EmptySet DEF LayoutInv, SoundGraph, NoGraph
<1> QED
  BY <1>1, <1>3, <1>4, <1>5, <1>6, <1>7, <1>8 DEF Next, vars

(* In the graph of a build of some component only the validation waits for nothing.              *)
LEMMA ValidationFirst ==
    ASSUME NEW ids, ids # {}, graph = from_components(ids), NEW n \in graph.nodes, Incoming(n) = {}
    PROVE  n = "validate"
<1> DEFINE U == UNION {{<<"validate", id>>, <<id, "set_target">>} : id \in ids}
           W == {<<"set_target", "build">>, <<"build", "flash">>, <<"build", "size_report">>}
<1>1. graph.edges = U \cup W
      /\ graph.nodes = ids \cup {"validate", "set_target", "build", "flash", "size_report"}
  BY DEF from_components, BuildStages
<1>2. ASSUME NEW m, <<m, n>> \in graph.edges PROVE FALSE
  BY <1>2 DEF Incoming
<1>3. n \notin ids
  <2> SUFFICES ASSUME n \in ids PROVE FALSE
    OBVIOUS
  <2>1. <<"validate", n>> \in U
    OBVIOUS
  <2> QED
    BY <1>1, <1>2, <2>1
<1>4. n # "set_target"
  <2> SUFFICES ASSUME n = "set_target" PROVE FALSE
    OBVIOUS
  <2>1. PICK id \in ids : TRUE
    OBVIOUS
  <2>2. <<id, "set_target">> \in U
    BY <2>1
  <2> QED
    BY <1>1, <1>2, <2>2
<1>5. n \notin {"build", "flash", "size_report"}
  BY <1>1, <1>2
<1> QED
  BY <1>1, <1>3, <1>4, <1>5

(* What a finished drawing is like.                                                              *)
LEMMA LayoutSoundFrom == LayoutInv => LayoutSound
<1> SUFFICES ASSUME LayoutInv, Finished PROVE LayoutSound
  BY DEF LayoutSound
<1>1. Placed = graph.nodes /\ \A n \in graph.nodes : PlacedAt(n) /\ LongestAt(n)
  BY DEF Finished, LayoutInv
<1>2. Cardinality(graph.nodes) \in Nat
  BY FS_CardinalityType DEF LayoutInv, SoundGraph
<1>3. ASSUME NEW n \in graph.nodes
      PROVE  /\ n \in AfterChain[depth[n]] /\ n \notin AfterChain[depth[n] + 1]
             /\ IF depth[n] = 0 THEN pred[n] = n
                ELSE <<pred[n], n>> \in graph.edges /\ depth[pred[n]] = depth[n] - 1
  <2>1. PlacedAt(n) /\ Longest(graph, n, depth[n])
    BY <1>1 DEF LongestAt
  <2>2. depth[n] \in Nat /\ depth[n] < Cardinality(graph.nodes)
    BY <1>1, <2>1 DEF PlacedAt
  <2>3. depth[n] + 1 \in (depth[n] + 1)..(Cardinality(graph.nodes) + 1)
    BY <1>2, <2>2
  <2>4. n \in AfterChain[depth[n]] /\ n \notin AfterChain[depth[n] + 1]
    BY <2>1, <2>3 DEF Longest, AfterChain
  <2>5. ASSUME NEW m \in Incoming(n) PROVE <<m, n>> \in graph.edges
    BY <2>5 DEF Incoming, LayoutInv, SoundGraph
  <2>6. IF depth[n] = 0 THEN pred[n] = n
        ELSE <<pred[n], n>> \in graph.edges /\ depth[pred[n]] = depth[n] - 1
    BY <2>1, <2>5 DEF PlacedAt
  <2> QED
    BY <2>4, <2>6
<1>4. ASSUME NEW ids \in Selections \ {{}}, graph = from_components(ids),
             NEW n \in graph.nodes, depth[n] = 0
      PROVE  n = "validate"
  <2>1. Incoming(n) = {}
    BY <1>1, <1>4 DEF PlacedAt
  <2> QED
    BY <1>4, <2>1, ValidationFirst
<1> QED
  BY <1>3, <1>4 DEF LayoutSound

(* Whatever catalogue the graphs are made of and in whatever order the topological sort places   *)
(* the nodes, parallel_stages puts a node in the layer of the longest chain that leads to it,    *)
(* the predecessors critical_path records are such a chain, and in a build everything but the    *)
(* validation waits for something.                                                               *)
THEOREM LayoutSoundInvariant == Spec => []LayoutSound
<1>1. LayoutInv /\ [Next]_vars => LayoutInv'
  BY LayoutStep
<1> QED
  BY <1>1, LayoutInit, LayoutSoundFrom, PTL DEF Spec

-----------------------------------------------------------------------------
(* A drawing goes on.                                                                            *)

(* The nodes of a graph can be numbered so that every edge leads to a higher number.             *)
Acyclic(g) == \E rank \in [g.nodes -> Nat] : \A e \in g.edges : rank[e[1]] < rank[e[2]]

(* Steps that come after what they depend on wait for each other in no circle.                   *)
LEMMA StepsAcyclic ==
    ASSUME NEW id \in DOMAIN Solutions, InOrder(Solutions[id].steps)
    PROVE  Acyclic(from_steps(Solutions[id].steps))
<1>1. PICK steps : steps = Solutions[id].steps
  OBVIOUS
<1> DEFINE g == from_steps(steps)
           ids == {s.id : s \in Range(steps)}
           at == [n \in ids |-> CHOOSE k \in DOMAIN steps : steps[k].id = n]
           declared == UNION {{<<d, s.id>> : d \in s.deps \cap ids} : s \in Range(steps)}
<1>2. steps \in Seq(Range(steps)) /\ InOrder(steps)
  BY <1>1, CatalogueAssumption
<1>3. Len(steps) \in Nat /\ DOMAIN steps = 1..Len(steps)
  BY <1>2
<1>4. ASSUME NEW k \in DOMAIN steps PROVE steps[k].id \in ids /\ at[steps[k].id] = k
  <2>1. steps[k].id \in ids
    BY DEF Range
  <2>2. (CHOOSE j \in DOMAIN steps : steps[j].id = steps[k].id) = k
    BY <1>2 DEF InOrder
  <2> QED
    BY <2>1, <2>2
<1>5. ASSUME NEW n \in ids PROVE \E k \in DOMAIN steps : steps[k].id = n /\ at[n] = k
  <2>1. PICK k \in DOMAIN steps : steps[k].id = n
    BY DEF Range
  <2> QED
    BY <1>4, <2>1
<1> HIDE DEF at
<1>6. at \in [ids -> Nat]
  <2>1. \A n \in ids : at[n] \in Nat
    BY <1>3, <1>5
  <2> QED
    BY <2>1 DEF at
<1>7. ASSUME NEW e \in LinearChain(steps) PROVE at[e[1]] < at[e[2]]
  <2>1. PICK k \in 2..Len(steps) : e = <<steps[k - 1].id, steps[k].id>>
    BY <1>7 DEF LinearChain
  <2>2. k - 1 \in DOMAIN steps /\ k \in DOMAIN steps
    BY <1>3
  <2>3. at[steps[k - 1].id] = k - 1 /\ at[steps[k].id] = k
    BY <1>4, <2>2
  <2>4. k - 1 < k
    BY <1>3
  <2> QED
    BY <2>1, <2>3, <2>4
<1>8. ASSUME NEW e \in declared PROVE at[e[1]] < at[e[2]]
  <2>0. PICK s \in Range(steps) : e \in {<<d, s.id>> : d \in s.deps \cap ids}
    BY <1>8
  <2>1. PICK d \in s.deps \cap ids : e = <<d, s.id>>
    BY <2>0
  <2>2. PICK k \in DOMAIN steps : s = steps[k]
    BY <2>0 DEF Range
  <2>3. PICK j \in DOMAIN steps : steps[j].id = d /\ at[d] = j
    BY <1>5, <2>1
  <2>4. at[s.id] = k /\ j < k
    BY <1>2, <1>4, <2>1, <2>2, <2>3 DEF InOrder
  <2> QED
    BY <2>1, <2>3, <2>4
<1>9. g.nodes = ids /\ (g.edges = LinearChain(steps) \/ g.edges = declared)
  BY DEF from_steps
<1>10. Acyclic(g)
  <2> HIDE DEF g, ids, declared
  <2> QED
    BY <1>6, <1>7, <1>8, <1>9 DEF Acyclic
<1> QED
  BY <1>1, <1>10

(* The stages of a build form no circle, unless a component is called like one of them.          *)
LEMMA BuildAcyclic ==
    ASSUME NEW ids, ids \cap BuildStages = {}
    PROVE  Acyclic(from_components(ids))
<1> DEFINE g == from_components(ids)
           rank == [n \in ids \cup BuildStages |->
                      CASE n = "validate" -> 0 [] n = "set_target" -> 2 [] n = "build" -> 3
                        [] n \in {"flash", "size_report"} -> 4 [] OTHER -> 1]
           U == UNION {{<<"validate", id>>, <<id, "set_target">>} : id \in ids}
           W == {<<"set_target", "build">>, <<"build", "flash">>, <<"build", "size_report">>}
<1>1. g.nodes = ids \cup BuildStages /\ g.edges = U \cup W
  BY DEF from_components
<1>2. rank \in [ids \cup BuildStages -> Nat]
  OBVIOUS
<1>3. /\ rank["validate"] = 0 /\ rank["set_target"] = 2 /\ rank["build"] = 3
      /\ rank["flash"] = 4 /\ rank["size_report"] = 4
  BY DEF BuildStages
<1>4. \A id \in ids : rank[id] = 1
  BY DEF BuildStages
<1> HIDE DEF rank
<1>5. ASSUME NEW e \in U PROVE rank[e[1]] < rank[e[2]]
  <2>1. PICK id \in ids : e \in {<<"validate", id>>, <<id, "set_target">>}
    BY <1>5, Zenon
  <2> QED
    BY <1>3, <1>4, <2>1
<1>6. ASSUME NEW e \in W PROVE rank[e[1]] < rank[e[2]]
  BY <1>3, <1>6
<1> HIDE DEF g, U, W
<1>7. Acyclic(g)
  BY <1>1, <1>2, <1>5, <1>6 DEF Acyclic
<1> QED
  BY <1>7 DEF g

(* Components of a layered registry wait for each other in no circle; what is not in the         *)
(* registry waits for nothing.                                                                   *)
LEMMA ComponentsAcyclic ==
    ASSUME NEW layer \in [DOMAIN Registry -> Nat], LayeredBy(layer), NEW ids
    PROVE  Acyclic(from_registry(ids))
<1> DEFINE g == from_registry(ids)
           rank == [n \in g.nodes |-> IF n \in DOMAIN Registry THEN layer[n] + 1 ELSE 0]
<1>1. rank \in [g.nodes -> Nat]
  OBVIOUS
<1>2. ASSUME NEW e \in g.edges PROVE rank[e[1]] < rank[e[2]]
  <2>1. /\ e[1] \in g.nodes /\ e[2] \in g.nodes /\ e[2] \in DOMAIN Registry
        /\ e[1] \in Registry[e[2]].auto_load \cup Registry[e[2]].dependencies
    BY <1>2 DEF from_registry
  <2>2. e[1] \in DOMAIN Registry => layer[e[1]] < layer[e[2]]
    BY <2>1 DEF LayeredBy
  <2> QED
    BY <2>1, <2>2
<1> HIDE DEF g, rank
<1>3. Acyclic(g)
  BY <1>1, <1>2 DEF Acyclic
<1> QED
  BY <1>3 DEF g

(* As long as a drawing is not finished, some node has all its predecessors placed.              *)
GoesOn ==
    graph # NoGraph /\ ~Finished => \E n \in graph.nodes \ Placed : Incoming(n) \subseteq Placed

LEMMA GoesOnFrom ==
    ASSUME LayoutInv, Acyclic(graph)
    PROVE  GoesOn
<1> SUFFICES ASSUME graph # NoGraph, ~Finished
             PROVE  \E n \in graph.nodes \ Placed : Incoming(n) \subseteq Placed
  BY DEF GoesOn
<1>1. PICK rank \in [graph.nodes -> Nat] : \A e \in graph.edges : rank[e[1]] < rank[e[2]]
  BY DEF Acyclic
<1> DEFINE left == graph.nodes \ Placed
           T == {rank[n] : n \in left}
<1>2. left # {}
  BY DEF Finished, LayoutInv
<1>3. T # {} /\ T \subseteq Nat
  BY <1>1, <1>2
<1>4. PICK t \in T : \A u \in T : t <= u
  BY <1>3, LeastNumber
<1>5. PICK n \in left : rank[n] = t
  BY <1>4
<1>6. ASSUME NEW m \in Incoming(n) PROVE m \in Placed
  <2>1. PICK e \in graph.edges : e[1] = m /\ e[2] = n
    BY <1>6 DEF Incoming
  <2>2. m \in graph.nodes /\ rank[m] < rank[n]
    BY <1>1, <2>1 DEF LayoutInv, SoundGraph
  <2>3. rank[m] \in Nat /\ rank[n] \in Nat
    BY <1>1, <2>2
  <2>4. m \notin left
    BY <1>4, <1>5, <2>2, <2>3
  <2> QED
    BY <2>2, <2>4
<1> QED
  BY <1>5, <1>6

LEMMA EmptyAcyclic == Acyclic(NoGraph)
<1> DEFINE rank == [n \in {} |-> 0]
<1>1. NoGraph.nodes = {} /\ NoGraph.edges = {}
  BY DEF NoGraph
<1>2. rank \in [NoGraph.nodes -> Nat]
  BY <1>1
<1>3. \A e \in NoGraph.edges : rank[e[1]] < rank[e[2]]
  BY <1>1
<1> QED
  BY <1>2, <1>3 DEF Acyclic

(* Nothing is drawn that goes round in a circle.                                                 *)
LEMMA AcyclicStep ==
    ASSUME \A id \in DOMAIN Solutions : InOrder(Solutions[id].steps),
           \A ids \in Selections : ids \cap BuildStages = {},
           NEW layer \in [DOMAIN Registry -> Nat], LayeredBy(layer),
           Acyclic(graph), [Next]_vars
    PROVE  Acyclic(graph')
<1>1. CASE graph' = graph
  BY <1>1
<1>2. ASSUME NEW g, Acyclic(g), Draw(g) PROVE Acyclic(graph')
  BY <1>2 DEF Draw
<1>3. CASE get_orchestration_dag
  BY <1>2, <1>3, StepsAcyclic DEF get_orchestration_dag
<1>4. CASE get_build_pipeline_dag
  BY <1>2, <1>4, BuildAcyclic DEF get_build_pipeline_dag
<1>5. CASE get_dependency_dag
  BY <1>2, <1>5, ComponentsAcyclic DEF get_dependency_dag
<1>6. CASE CloseGraph
  <2>1. graph' = NoGraph
    BY <1>6 DEF CloseGraph
  <2> QED
    BY <2>1, EmptyAcyclic
<1> QED
  BY <1>1, <1>3, <1>4, <1>5, <1>6 DEF Next, vars, SaveProfile, RemoveProfile, PlaceNode

(* If the registry is layered and the steps of every solution come after what they depend on,    *)
(* which TLC shows of the catalogue (MCProjectWizard.CatalogueInOrder), a drawing is never stuck: *)
(* some node that waits for nothing unplaced is left until the last is placed. None of the three *)
(* kinds of graph of graph.rs meets the circle for which parallel_stages returns no layers; with *)
(* a loop that goes on it is why every graph is drawn to the end.                                *)
THEOREM DrawingGoesOn ==
    ASSUME \A id \in DOMAIN Solutions : InOrder(Solutions[id].steps),
           \A ids \in Selections : ids \cap BuildStages = {},
           NEW layer \in [DOMAIN Registry -> Nat], LayeredBy(layer)
    PROVE  Spec => []GoesOn
<1>1. Init => Acyclic(graph)
  BY EmptyAcyclic DEF Init
<1>2. Acyclic(graph) /\ [Next]_vars => Acyclic(graph')
  BY AcyclicStep
<1>3. LayoutInv /\ [Next]_vars => LayoutInv'
  BY LayoutStep
<1>4. LayoutInv /\ Acyclic(graph) => GoesOn
  BY GoesOnFrom
<1>5. Acyclic(graph') => Acyclic(graph)'
  BY DEF Acyclic
<1> QED
  BY <1>1, <1>2, <1>3, <1>4, <1>5, LayoutInit, PTL DEF Spec

-----------------------------------------------------------------------------
(* The workspace.                                                                                *)

(* The profiles are a list.                                                                      *)
LEMMA ListStep ==
    ASSUME profiles \in Seq(Offered), [Next]_vars
    PROVE  profiles' \in Seq(Offered)
<1>1. CASE UNCHANGED profiles
  BY <1>1
<1>2. CASE SaveProfile
  BY <1>2 DEF SaveProfile
<1>3. CASE RemoveProfile
  <2>1. PICK k \in DOMAIN profiles : profiles' = RemoveAt(profiles, k)
    BY <1>3 DEF RemoveProfile
  <2>2. Len(profiles) \in Nat /\ k \in 1..Len(profiles)
    BY <2>1
  <2>3. SubSeq(profiles, 1, k - 1) \in Seq(Offered) /\ SubSeq(profiles, k + 1, Len(profiles)) \in Seq(Offered)
    BY <2>2
  <2> QED
    BY <2>1, <2>3 DEF RemoveAt
<1>4. CASE get_orchestration_dag \/ get_build_pipeline_dag \/ get_dependency_dag
  BY <1>1, <1>4 DEF get_orchestration_dag, get_build_pipeline_dag, get_dependency_dag, Draw
<1>5. CASE PlaceNode \/ CloseGraph
  BY <1>1, <1>5 DEF PlaceNode, CloseGraph
<1> QED
  BY <1>1, <1>2, <1>3, <1>4, <1>5 DEF Next, vars

(* What no error of validate_pairs says of a transmitter, and of a receiver.                     *)
LEMMA PairsClean ==
    ASSUME NEW ws, validate_pairs(ws) = {}
    PROVE  /\ \A t \in OfRole(ws, TxRoles) :
                 /\ effective_control_uplink(ws[t]) # Unset
                 /\ Partners(ws, t) # {}
                 /\ ~TelemetryDiffers(ws[t], ws[Min(Partners(ws, t))])
           /\ \A r \in OfRole(ws, RxRoles) :
                 uplink_to_str(Sol(ws[r]).uplink) # Unset =>
                    \E t \in OfRole(ws, TxRoles) :
                        effective_control_uplink(ws[t]) = uplink_to_str(Sol(ws[r]).uplink)
<1> DEFINE tx == OfRole(ws, TxRoles)
           rx == OfRole(ws, RxRoles)
           invalid == {t \in tx : effective_control_uplink(ws[t]) = Unset}
           alone == {t \in tx \ invalid : Partners(ws, t) = {}}
           differ == {t \in tx \ (invalid \cup alone) :
                        TelemetryDiffers(ws[t], ws[Min(Partners(ws, t))])}
           unserved == {r \in rx : uplink_to_str(Sol(ws[r]).uplink) # Unset /\
                          \A t \in tx : effective_control_uplink(ws[t])
                                            # uplink_to_str(Sol(ws[r]).uplink)}
<1>1. invalid = {} /\ alone = {} /\ differ = {} /\ unserved = {}
  <2>1. {[kind |-> "ParameterizedUplinkInvalid", profile |-> ws[t]] : t \in invalid}
          \cup {[kind |-> "UnmatchedTxUplink", profile |-> ws[t]] : t \in alone}
          \cup {[kind |-> "ChainTelemetryMismatch", profile |-> ws[t]] : t \in differ}
          \cup {[kind |-> "UnmatchedRxUplink", profile |-> ws[r]] : r \in unserved} = {}
    BY DEF validate_pairs
  <2> HIDE DEF invalid, alone, differ, unserved
  <2> QED
    BY <2>1
<1>2. \A t \in tx : effective_control_uplink(ws[t]) # Unset
  BY <1>1
<1>3. \A t \in tx : Partners(ws, t) # {}
  BY <1>1
<1>4. \A t \in tx : ~TelemetryDiffers(ws[t], ws[Min(Partners(ws, t))])
  BY <1>1
<1>5. \A r \in rx : uplink_to_str(Sol(ws[r]).uplink) # Unset =>
         \E t \in tx : effective_control_uplink(ws[t]) = uplink_to_str(Sol(ws[r]).uplink)
  BY <1>1
<1> QED
  BY <1>2, <1>3, <1>4, <1>5

(* A transmitter and a receiver of the same uplink understand each other.                        *)
LEMMA SameUplinkSpeaks ==
    ASSUME NEW t, NEW r, effective_control_uplink(t) = uplink_to_str(Sol(r).uplink),
           effective_control_uplink(t) # Unset
    PROVE  Sol(r).uplink \in DOMAIN Uplinks /\ SpeaksTo(t, r)
<1>1. Sol(r).uplink \in DOMAIN Uplinks /\ uplink_to_str(Sol(r).uplink) = Uplinks[Sol(r).uplink]
  BY DEF uplink_to_str
<1>2. CASE t.solution = "phone_bridge_solution"
  BY <1>1, <1>2 DEF SpeaksTo, effective_control_uplink
<1>3. CASE t.solution # "phone_bridge_solution"
  <2>1. effective_control_uplink(t) = Uplinks[Sol(t).uplink]
    BY <1>3 DEF effective_control_uplink, uplink_to_str
  <2> QED
    BY <1>1, <1>3, <2>1 DEF SpeaksTo
<1> QED
  BY <1>2, <1>3

(* What no error of validate_pin_conflicts says of two boards of a chip.                         *)
LEMMA PinsClean ==
    ASSUME NEW ws, IsFiniteSet(DOMAIN ws), validate_pin_conflicts(ws) = {},
           NEW j \in DOMAIN ws, NEW k \in DOMAIN ws, j # k, Known(ws[j]), Known(ws[k]),
           ws[j].chip = ws[k].chip,
           NEW a \in Range(Sol(ws[j]).pins), NEW b \in Range(Sol(ws[k]).pins),
           a.gpio = b.gpio, a.function # b.function
    PROVE  \E i \in {j, k} : Sol(ws[i]).coverage[ws[i].chip] = "Insufficient"
<1> SUFFICES ASSUME \A i \in {j, k} : Sol(ws[i]).coverage[ws[i].chip] # "Insufficient" PROVE FALSE
  OBVIOUS
<1> DEFINE resident == {i \in DOMAIN ws : Known(ws[i]) /\ ws[i].chip = ws[j].chip}
           Claims(i) == {[owner |-> i, gpio |-> pin.gpio, function |-> pin.function] :
                            pin \in Range(Sol(ws[i]).pins)}
           claims == UNION {Claims(i) : i \in {h \in resident : chip_is_compatible(Sol(ws[h]), ws[j].chip)}}
           x == [owner |-> j, gpio |-> a.gpio, function |-> a.function]
           y == [owner |-> k, gpio |-> b.gpio, function |-> b.function]
<1>1. {j, k} \subseteq resident
  OBVIOUS
<1>2. \A i \in {j, k} : chip_is_compatible(Sol(ws[i]), ws[j].chip)
  BY DEF chip_is_compatible
<1>3. x \in claims /\ y \in claims
  <2>1. x \in Claims(j)
    OBVIOUS
  <2>2. y \in Claims(k)
    OBVIOUS
  <2>3. {j, k} \subseteq {h \in resident : chip_is_compatible(Sol(ws[h]), ws[j].chip)}
    BY <1>1, <1>2
  <2> HIDE DEF x, y, Claims, resident
  <2> QED
    BY <2>1, <2>2, <2>3
<1>4. <<x, y>> \in detect_conflicts(ws, resident, ws[j].chip)
  <2>1. detect_conflicts(ws, resident, ws[j].chip) =
           {pair \in claims \X claims : /\ pair[1].gpio = pair[2].gpio
                                        /\ pair[1].function # pair[2].function}
    BY DEF detect_conflicts
  <2>2. x.gpio = y.gpio /\ x.function # y.function
    OBVIOUS
  <2> HIDE DEF claims, x, y
  <2> QED
    BY <1>3, <2>1, <2>2
<1>5. ~(Cardinality(resident) < 2)
  <2>1. IsFiniteSet(resident)
    BY FS_Subset
  <2>2. IsFiniteSet({j}) /\ Cardinality({j}) = 1
    BY FS_Singleton
  <2>a. Cardinality({j} \cup {k}) = IF k \in {j} THEN Cardinality({j}) ELSE Cardinality({j}) + 1
    BY <2>2, FS_AddElement
  <2>b. k \notin {j} /\ {j} \cup {k} = {j, k}
    OBVIOUS
  <2>c. Cardinality({j} \cup {k}) = 1 + 1
    BY <2>2, <2>a, <2>b, Zenon
  <2>d. Cardinality({j, k}) = 1 + 1
    BY <2>b, <2>c, Zenon
  <2>3. Cardinality({j, k}) = 2
    BY <2>d
  <2>4. Cardinality({j, k}) <= Cardinality(resident) /\ Cardinality(resident) \in Nat
    BY <1>1, <2>1, FS_Subset, FS_CardinalityType
  <2> QED
    BY <2>3, <2>4
<1>6. [kind |-> "PinConflict", profile |-> ws[x.owner]] \in validate_pin_conflicts(ws)
  <2> DEFINE Errors(chip) ==
        LET here == {i \in DOMAIN ws : Known(ws[i]) /\ ws[i].chip = chip} IN
        IF Cardinality(here) < 2 THEN {}
        ELSE {[kind |-> "PinConflict", profile |-> ws[pair[1].owner]] :
                pair \in detect_conflicts(ws, here, chip)}
  <2>1. validate_pin_conflicts(ws) = UNION {Errors(chip) : chip \in {ws[i].chip : i \in DOMAIN ws}}
    BY DEF validate_pin_conflicts
  <2>2. Errors(ws[j].chip) = {[kind |-> "PinConflict", profile |-> ws[pair[1].owner]] :
                                pair \in detect_conflicts(ws, resident, ws[j].chip)}
    BY <1>5
  <2>3. [kind |-> "PinConflict", profile |-> ws[x.owner]] \in Errors(ws[j].chip)
    <3> HIDE DEF x, y, Errors, resident
    <3> QED
      BY <1>4, <2>2
  <2>4. PICK E : E = Errors(ws[j].chip)
    OBVIOUS
  <2>5. E \in {Errors(chip) : chip \in {ws[i].chip : i \in DOMAIN ws}}
    BY <2>4
  <2>6. [kind |-> "PinConflict", profile |-> ws[x.owner]] \in E
    BY <2>3, <2>4
  <2> HIDE DEF Errors, x
  <2> QED
    BY <2>1, <2>5, <2>6
<1> QED
  BY <1>6

(* A validator that finds nothing has looked at every pair.                                      *)
LEMMA CleanWorkspaceWorksFrom == profiles \in Seq(Offered) => CleanWorkspaceWorks
<1> SUFFICES ASSUME profiles \in Seq(Offered), validate_workspace(profiles) = {}
             PROVE  CleanWorkspaceWorks
  BY DEF CleanWorkspaceWorks
<1>1. PICK ws : ws = profiles
  OBVIOUS
<1> DEFINE Is(k, roles) == Sol(ws[k]).role \in roles
<1>2. Len(ws) \in Nat /\ DOMAIN ws = 1..Len(ws)
  BY <1>1
<1>3. IsFiniteSet(DOMAIN ws)
  BY <1>2, FS_Interval
<1>4. /\ {k \in DOMAIN ws : ~Known(ws[k])} = {}
      /\ validate_pairs(ws) = {} /\ validate_pin_conflicts(ws) = {}
  BY <1>1 DEF validate_workspace
<1>5. \A k \in DOMAIN ws : Known(ws[k])
  BY <1>4
<1>6. \A k \in DOMAIN ws : \A roles : k \in OfRole(ws, roles) <=> Is(k, roles)
  BY <1>5 DEF OfRole
<1>7. ASSUME NEW k \in DOMAIN ws, Is(k, TxRoles)
      PROVE  \E j \in DOMAIN ws : /\ Is(j, RxRoles) /\ Sol(ws[j]).uplink \in DOMAIN Uplinks
                                  /\ SpeaksTo(ws[k], ws[j]) /\ ~TelemetryDiffers(ws[k], ws[j])
  <2>1. k \in OfRole(ws, TxRoles)
    BY <1>6, <1>7
  <2>2. /\ effective_control_uplink(ws[k]) # Unset /\ Partners(ws, k) # {}
        /\ ~TelemetryDiffers(ws[k], ws[Min(Partners(ws, k))])
    BY <1>4, <2>1, PairsClean
  <2>3. Partners(ws, k) \subseteq DOMAIN ws /\ Partners(ws, k) \subseteq Nat
    BY <1>2 DEF Partners, OfRole
  <2>4. Min(Partners(ws, k)) \in Partners(ws, k)
    <3>1. PICK P : P = Partners(ws, k)
      OBVIOUS
    <3>2. \E m \in P : \A n \in P : m <= n
      BY <2>2, <2>3, <3>1, LeastNumber
    <3> QED
      BY <3>1, <3>2 DEF Min
  <2>5. PICK j \in Partners(ws, k) : j = Min(Partners(ws, k))
    BY <2>4
  <2>6. /\ j \in OfRole(ws, RxRoles)
        /\ effective_control_uplink(ws[k]) = uplink_to_str(Sol(ws[j]).uplink)
    BY <2>5 DEF Partners
  <2>7. Sol(ws[j]).uplink \in DOMAIN Uplinks /\ SpeaksTo(ws[k], ws[j])
    BY <2>2, <2>6, SameUplinkSpeaks
  <2>8. j \in DOMAIN ws /\ Is(j, RxRoles)
    BY <1>6, <2>3, <2>5, <2>6
  <2> QED
    BY <2>2, <2>5, <2>7, <2>8
<1>8. ASSUME NEW k \in DOMAIN ws, Is(k, RxRoles), Sol(ws[k]).uplink \in DOMAIN Uplinks
      PROVE  \E j \in DOMAIN ws : Is(j, TxRoles) /\ SpeaksTo(ws[j], ws[k])
  <2>1. k \in OfRole(ws, RxRoles)
    BY <1>6, <1>8
  <2>2. uplink_to_str(Sol(ws[k]).uplink) # Unset
    BY <1>8, UplinksAssumption DEF uplink_to_str, Range
  <2>3. PICK j \in OfRole(ws, TxRoles) :
           effective_control_uplink(ws[j]) = uplink_to_str(Sol(ws[k]).uplink)
    BY <1>4, <2>1, <2>2, PairsClean
  <2>4. SpeaksTo(ws[j], ws[k])
    BY <2>2, <2>3, SameUplinkSpeaks
  <2>5. j \in DOMAIN ws
    BY <2>3 DEF OfRole
  <2> QED
    BY <1>6, <2>3, <2>4, <2>5
<1>9. ASSUME NEW k \in DOMAIN ws, NEW j \in DOMAIN ws \ {k}, ws[j].chip = ws[k].chip,
             NEW a \in Range(Sol(ws[j]).pins), NEW b \in Range(Sol(ws[k]).pins),
             a.gpio = b.gpio, a.function # b.function
      PROVE  \E i \in {j, k} : Sol(ws[i]).coverage[ws[i].chip] = "Insufficient"
  BY <1>3, <1>4, <1>5, <1>9, PinsClean
<1> QED
  BY <1>1, <1>7, <1>8, <1>9 DEF CleanWorkspaceWorks

(* For every catalogue and any number of saved profiles, a workspace for which                   *)
(* validate_workspace returns no error works: transmitters and receivers find each other with    *)
(* the same uplink and telemetry, though a transmitter is compared with its first partner only,  *)
(* and no two boards that run on a chip want different things of a GPIO.                         *)
THEOREM CleanWorkspaceInvariant == Spec => []CleanWorkspaceWorks
<1>1. Init => profiles \in Seq(Offered)
  BY DEF Init
<1>2. profiles \in Seq(Offered) /\ [Next]_vars => (profiles \in Seq(Offered))'
  BY ListStep
<1> QED
  BY <1>1, <1>2, CleanWorkspaceWorksFrom, PTL DEF Spec
=============================================================================
