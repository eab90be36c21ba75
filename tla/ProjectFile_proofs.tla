------------------------- MODULE ProjectFile_proofs -------------------------
(***************************************************************************)
(* Proofs about the history, the editing session and the project file, for *)
(* every limit, every set of roots, trees, pages and timelines and every   *)
(* bound on the ids.  First the undo graph and the history as a machine:   *)
(* the graph stays one that can be stored and loaded again, and limiting   *)
(* it never changes what undo restores.  Then the session: it is the       *)
(* project, and the two together implement DurableArtwork.  Then what      *)
(* holds of the file itself: which ids it has used up, which pixels it     *)
(* keeps, that every state a transaction leaves behind opens, and what     *)
(* undo brings back.                                                       *)
(***************************************************************************)
EXTENDS UndoWitness, HistoryCursor, TLAPS, FiniteSetTheorems, WellFoundedInduction

-----------------------------------------------------------------------------
(* The undo graph's operators, for every graph whose operations are younger *)
(* than the ones they follow: walking up ends at the bottom, and what       *)
(* retention keeps is again such a graph.                                   *)

USE DEF None

(* A finite graph in which every operation follows the bottom or an older  *)
(* operation.                                                              *)
Descending(nodes) ==
  /\ IsFiniteSet(DOMAIN nodes)
  /\ \A n \in DOMAIN nodes :
       /\ n \in Nat \ {0}
       /\ {"parent", "before", "after"} \subseteq DOMAIN nodes[n]
       /\ nodes[n].parent # None =>
            nodes[n].parent \in DOMAIN nodes /\ nodes[n].parent < n

Size(nodes) == Cardinality(DOMAIN nodes)

-----------------------------------------------------------------------------
(* Induction with a set for the induction hypothesis *)

(* A set of numbers that holds 0 and every successor holds them all.       *)
LEMMA SetInduction ==
  ASSUME NEW S, 0 \in S, \A k \in Nat : k \in S => k + 1 \in S
  PROVE  Nat \subseteq S
  <1> DEFINE T == Nat \ S
             Less == OpToRel(<, Nat)
  <1>1. \A u, v \in Nat : u < v => <<u, v>> \in Less
    BY DEF OpToRel
  <1>2. IsWellFoundedOn(Less, Nat)
    BY NatLessThanWellFounded
  <1>3. SUFFICES ASSUME T # {} PROVE FALSE
    OBVIOUS
  <1>4. T \subseteq Nat
    OBVIOUS
  <1> HIDE DEF T, Less
  <1>5. PICK t \in T : \A u \in T : ~ (<<u, t>> \in Less)
    BY <1>2, <1>3, <1>4, WFMin
  <1>6. t \in Nat /\ t \notin S /\ t # 0
    BY <1>5 DEF T
  <1>7. t - 1 \in Nat /\ t - 1 < t
    BY <1>6
  <1>8. t - 1 \in S
    <2>1. <<t - 1, t>> \in Less
      BY <1>1, <1>6, <1>7
    <2>2. QED
      BY <1>5, <1>7, <2>1 DEF T
  <1>9. (t - 1) + 1 \in S
    BY <1>7, <1>8
  <1>10. QED
    BY <1>6, <1>9

(* The same up to a bound.                                                 *)
LEMMA BoundedInduction ==
  ASSUME NEW N \in Nat, NEW S, 0 \in S, \A k \in 0..N - 1 : k \in S => k + 1 \in S
  PROVE  0..N \subseteq S
  <1> DEFINE T == S \cup {k \in Nat : k > N}
  <1>1. ASSUME NEW k \in Nat, k \in T PROVE k + 1 \in T
    <2>1. CASE k >= N
      BY <2>1
    <2>2. CASE k < N
      BY <1>1, <2>2
    <2>3. QED
      BY <2>1, <2>2
  <1>2. 0 \in T
    OBVIOUS
  <1> HIDE DEF T
  <1>3. Nat \subseteq T
    BY <1>1, <1>2, SetInduction
  <1>4. QED
    BY <1>3 DEF T

-----------------------------------------------------------------------------
(* Walking up *)

(* The recursion of Ancestor has a solution, so its definition is the      *)
(* walk: itself first, then the parent of the one before, until the        *)
(* bottom.                                                                 *)
LEMMA AncestorIs ==
  ASSUME NEW nodes, IsFiniteSet(DOMAIN nodes), NEW n
  PROVE  LET up == Ancestor(nodes, n)
         IN /\ Size(nodes) \in Nat
            /\ DOMAIN up = 0..Size(nodes)
            /\ up[0] = n
            /\ \A k \in 0..Size(nodes) - 1 :
                 up[k + 1] = IF up[k] = None THEN None ELSE nodes[up[k]].parent
  <1> DEFINE N == Size(nodes)
             Walk(f, m) ==
               f = [k \in 0..m |->
                      IF k = 0 THEN n
                      ELSE IF f[k - 1] = None THEN None ELSE nodes[f[k - 1]].parent]
             G == {m \in 0..N : \E f : Walk(f, m)}
  <1>1. N \in Nat
    BY FS_CardinalityType DEF Size
  <1>2. 0 \in G
    <2>1. Walk([k \in 0..0 |-> n], 0)
      OBVIOUS
    <2>2. \E f : Walk(f, 0)
      BY <2>1
    <2>3. 0 \in 0..N
      BY <1>1
    <2> HIDE DEF Walk
    <2>4. QED
      BY <2>2, <2>3
  <1>3. ASSUME NEW m \in 0..N - 1, m \in G PROVE m + 1 \in G
    <2>1. PICK f : Walk(f, m)
      BY <1>3
    <2> DEFINE g == [k \in 0..m + 1 |->
                       IF k = m + 1
                       THEN IF f[m] = None THEN None ELSE nodes[f[m]].parent
                       ELSE f[k]]
    <2>2. Walk(g, m + 1)
      <3>1. ASSUME NEW k \in 0..m + 1
            PROVE  g[k] = IF k = 0 THEN n
                          ELSE IF g[k - 1] = None THEN None ELSE nodes[g[k - 1]].parent
        <4>1. CASE k = m + 1
          <5>1. m \in 0..m + 1 /\ k - 1 = m /\ k # 0 /\ m # m + 1
            BY <1>1, <4>1
          <5>2. g[k - 1] = f[m]
            BY <5>1
          <5>3. QED
            BY <4>1, <5>1, <5>2
        <4>2. CASE k # m + 1 /\ k # 0
          <5>1. k \in 0..m /\ k - 1 \in 0..m + 1 /\ k - 1 # m + 1
            BY <1>1, <4>2
          <5>2. g[k] = f[k] /\ g[k - 1] = f[k - 1]
            BY <4>2, <5>1
          <5>3. f[k] = IF f[k - 1] = None THEN None ELSE nodes[f[k - 1]].parent
            BY <2>1, <4>2, <5>1
          <5>4. QED
            BY <4>2, <5>2, <5>3
        <4>3. CASE k = 0
          <5>1. 0 \in 0..m /\ 0 # m + 1
            BY <1>1
          <5>2. f[0] = n
            BY <2>1, <5>1
          <5>3. QED
            BY <4>3, <5>1, <5>2
        <4>4. QED
          BY <4>1, <4>2, <4>3
      <3>2. g = [k \in 0..m + 1 |-> g[k]]
        OBVIOUS
      <3> HIDE DEF g
      <3>3. QED
        BY <3>1, <3>2
    <2> HIDE DEF g
    <2>3. m + 1 \in 0..N
      BY <1>1
    <2>4. QED
      BY <2>2, <2>3
  <1>4. N \in G
    <2> HIDE DEF G
    <2>1. 0..N \subseteq G
      BY <1>1, <1>2, <1>3, BoundedInduction
    <2>2. QED
      BY <1>1, <2>1
  <1>5. \E f : Walk(f, N)
    BY <1>4
  <1>6. Ancestor(nodes, n) = CHOOSE f : Walk(f, N)
    BY DEF Ancestor, Size
  <1>7. Walk(Ancestor(nodes, n), N)
    BY <1>5, <1>6
  <1>8. ASSUME NEW k \in 0..N - 1
        PROVE  Ancestor(nodes, n)[k + 1] =
                 IF Ancestor(nodes, n)[k] = None THEN None
                 ELSE nodes[Ancestor(nodes, n)[k]].parent
    <2>1. k + 1 \in 0..N /\ k + 1 # 0 /\ (k + 1) - 1 = k
      BY <1>1
    <2>2. QED
      BY <1>7, <2>1
  <1>9. Ancestor(nodes, n)[0] = n
    <2>1. 0 \in 0..N
      BY <1>1
    <2>2. QED
      BY <1>7, <2>1
  <1>10. DOMAIN Ancestor(nodes, n) = 0..N
    BY <1>7
  <1>11. QED
    BY <1>1, <1>8, <1>9, <1>10

(* Walking up never leaves the graph.                                      *)
LEMMA AncestorTyped ==
  ASSUME NEW nodes, Descending(nodes), NEW n \in DOMAIN nodes \cup {None}
  PROVE  /\ DOMAIN Ancestor(nodes, n) = 0..Size(nodes) /\ Size(nodes) \in Nat
         /\ \A k \in 0..Size(nodes) : Ancestor(nodes, n)[k] \in DOMAIN nodes \cup {None}
  <1> DEFINE N == Size(nodes)
             up == Ancestor(nodes, n)
             S == {k \in 0..N : up[k] \in DOMAIN nodes \cup {None}}
  <1>1. /\ N \in Nat /\ DOMAIN up = 0..N /\ up[0] = n
        /\ \A k \in 0..N - 1 :
             up[k + 1] = IF up[k] = None THEN None ELSE nodes[up[k]].parent
    BY AncestorIs DEF Descending
  <1>2. \A m \in DOMAIN nodes : nodes[m].parent \in DOMAIN nodes \cup {None}
    BY DEF Descending
  <1> HIDE DEF N, up
  <1>3. 0 \in S
    BY <1>1
  <1>4. ASSUME NEW k \in 0..N - 1, k \in S PROVE k + 1 \in S
    BY <1>1, <1>2, <1>4
  <1>5. 0..N \subseteq S
    <2> HIDE DEF S
    <2>1. QED
      BY <1>1, <1>3, <1>4, BoundedInduction
  <1>6. QED
    BY <1>1, <1>5 DEF N, up

(* Each operation above is older than the ones below it, and above the     *)
(* bottom there is nothing.                                                *)
LEMMA AncestorDescends ==
  ASSUME NEW nodes, Descending(nodes), NEW n \in DOMAIN nodes \cup {None},
         NEW k \in 0..Size(nodes), Ancestor(nodes, n)[k] # None,
         NEW j \in 0..k - 1
  PROVE  /\ Ancestor(nodes, n)[j] # None
         /\ Ancestor(nodes, n)[k] < Ancestor(nodes, n)[j]
  <1> DEFINE N == Size(nodes)
             up == Ancestor(nodes, n)
             S == {l \in 0..N : up[l] # None =>
                     \A i \in 0..l - 1 : up[i] # None /\ up[l] < up[i]}
  <1>1. /\ N \in Nat
        /\ \A l \in 0..N - 1 :
             up[l + 1] = IF up[l] = None THEN None ELSE nodes[up[l]].parent
    BY AncestorIs DEF Descending
  <1>2. \A l \in 0..N : up[l] \in DOMAIN nodes \cup {None}
    BY AncestorTyped
  <1>3. \A m \in DOMAIN nodes : /\ m \in Nat \ {0}
                                /\ nodes[m].parent # None => nodes[m].parent < m
    BY DEF Descending
  <1> HIDE DEF N, up
  <1>4. 0 \in S
    BY <1>1
  <1>5. ASSUME NEW l \in 0..N - 1, l \in S PROVE l + 1 \in S
    <2>1. l \in 0..N /\ l + 1 \in 0..N
      BY <1>1
    <2>2. SUFFICES ASSUME up[l + 1] # None, NEW i \in 0..(l + 1) - 1
                   PROVE  up[i] # None /\ up[l + 1] < up[i]
      BY <2>1
    <2>3. up[l] # None /\ up[l + 1] = nodes[up[l]].parent
      BY <1>1, <2>2
    <2>4. up[l] \in DOMAIN nodes /\ up[l + 1] < up[l]
      BY <1>2, <1>3, <2>1, <2>2, <2>3
    <2>5. CASE i = l
      BY <2>3, <2>4, <2>5
    <2>6. CASE i # l
      <3>1. i \in 0..l - 1 /\ i \in 0..N
        BY <1>1, <2>1, <2>6
      <3>2. up[i] # None /\ up[l] < up[i]
        BY <1>5, <2>3, <3>1
      <3>3. up[i] \in Nat /\ up[l] \in Nat /\ up[l + 1] \in Nat
        BY <1>2, <1>3, <2>1, <3>1
      <3>4. QED
        BY <2>4, <3>2, <3>3
    <2>7. QED
      BY <2>5, <2>6
  <1>6. 0..N \subseteq S
    <2> HIDE DEF S
    <2>1. QED
      BY <1>1, <1>4, <1>5, BoundedInduction
  <1>7. k \in S
    BY <1>6 DEF N
  <1>8. QED
    BY <1>7 DEF up

(* Walking up ends: the graph has no cycle.                                *)
LEMMA AncestorEnds ==
  ASSUME NEW nodes, Descending(nodes), NEW n \in DOMAIN nodes \cup {None}
  PROVE  Ancestor(nodes, n)[Size(nodes)] = None
  <1> DEFINE N == Size(nodes)
             up == Ancestor(nodes, n)
  <1>1. SUFFICES ASSUME up[N] # None PROVE FALSE
    OBVIOUS
  <1>2. /\ N \in Nat /\ DOMAIN up = 0..N
        /\ \A k \in 0..N : up[k] \in DOMAIN nodes \cup {None}
    BY AncestorTyped
  <1>3. ASSUME NEW k \in 0..N PROVE up[k] # None
    <2>1. CASE k = N
      BY <1>1, <2>1
    <2>2. CASE k # N
      <3>1. k \in 0..N - 1 /\ N \in 0..N
        BY <1>2, <2>2
      <3>2. QED
        BY <1>1, <3>1, AncestorDescends
    <2>3. QED
      BY <2>1, <2>2
  <1> DEFINE f == [k \in 0..N |-> up[k]]
  <1>4. f \in [0..N -> DOMAIN nodes]
    BY <1>2, <1>3
  <1>5. IsFiniteSet(0..N) /\ Cardinality(0..N) = N + 1
    BY <1>2, FS_Interval
  <1>6. IsFiniteSet(DOMAIN nodes) /\ Cardinality(DOMAIN nodes) < Cardinality(0..N)
    BY <1>2, <1>5 DEF Descending, Size
  <1>7. \E x, y \in 0..N : x # y /\ f[x] = f[y]
    <2> HIDE DEF f
    <2>1. QED
      BY <1>4, <1>5, <1>6, FS_PigeonHole
  <1>8. PICK x \in 0..N, y \in 0..N : x # y /\ up[x] = up[y]
    BY <1>7
  <1>9. up[x] \in Nat /\ up[y] \in Nat
    BY <1>2 DEF Descending
  <1>10. CASE x < y
    <2>1. x \in 0..y - 1
      BY <1>2, <1>10
    <2>2. up[y] < up[x]
      BY <1>3, <2>1, AncestorDescends
    <2>3. QED
      BY <1>8, <1>9, <2>2
  <1>11. CASE y < x
    <2>1. y \in 0..x - 1
      BY <1>2, <1>11
    <2>2. up[x] < up[y]
      BY <1>3, <2>1, AncestorDescends
    <2>3. QED
      BY <1>8, <1>9, <2>2
  <1>12. QED
    BY <1>2, <1>8, <1>10, <1>11

(* One step up, and the rest of the walk is the parent's.                  *)
LEMMA AncestorStep ==
  ASSUME NEW nodes, Descending(nodes), NEW n \in DOMAIN nodes,
         NEW k \in 0..Size(nodes) - 1
  PROVE  Ancestor(nodes, n)[k + 1] = Ancestor(nodes, nodes[n].parent)[k]
  <1> DEFINE N == Size(nodes)
             up == Ancestor(nodes, n)
             above == Ancestor(nodes, nodes[n].parent)
             S == {l \in 0..N : l < N => up[l + 1] = above[l]}
  <1>1. /\ N \in Nat /\ up[0] = n
        /\ \A l \in 0..N - 1 :
             up[l + 1] = IF up[l] = None THEN None ELSE nodes[up[l]].parent
    BY AncestorIs DEF Descending
  <1>2. /\ above[0] = nodes[n].parent
        /\ \A l \in 0..N - 1 :
             above[l + 1] = IF above[l] = None THEN None ELSE nodes[above[l]].parent
    BY AncestorIs DEF Descending
  <1>3. n # None
    BY DEF Descending
  <1> HIDE DEF N, up, above
  <1>4. 0 \in S
    <2>1. CASE N = 0
      BY <2>1
    <2>2. CASE N # 0
      <3>1. 0 \in 0..N - 1 /\ 0 + 1 = 1
        BY <1>1, <2>2
      <3>2. up[0 + 1] = IF up[0] = None THEN None ELSE nodes[up[0]].parent
        BY <1>1, <3>1
      <3>3. QED
        BY <1>1, <1>2, <1>3, <3>1, <3>2
    <2>3. QED
      BY <2>1, <2>2
  <1>5. ASSUME NEW l \in 0..N - 1, l \in S PROVE l + 1 \in S
    <2>1. l + 1 \in 0..N
      BY <1>1
    <2>2. SUFFICES ASSUME l + 1 < N PROVE up[(l + 1) + 1] = above[l + 1]
      BY <2>1
    <2>3. l + 1 \in 0..N - 1 /\ l < N
      BY <1>1, <2>2
    <2>4. up[(l + 1) + 1] = IF up[l + 1] = None THEN None ELSE nodes[up[l + 1]].parent
      BY <1>1, <2>3
    <2>5. above[l + 1] = IF above[l] = None THEN None ELSE nodes[above[l]].parent
      BY <1>2
    <2>6. up[l + 1] = above[l]
      BY <1>5, <2>3
    <2>7. QED
      BY <2>4, <2>5, <2>6
  <1>6. 0..N \subseteq S
    <2> HIDE DEF S
    <2>1. QED
      BY <1>1, <1>4, <1>5, BoundedInduction
  <1>7. k \in S /\ k < N
    BY <1>1, <1>6 DEF N
  <1>8. QED
    BY <1>7 DEF up, above

(* The bottom has nothing above it.                                        *)
LEMMA AncestorOfBottom ==
  ASSUME NEW nodes, Descending(nodes), NEW k \in 0..Size(nodes)
  PROVE  Ancestor(nodes, None)[k] = None
  <1> DEFINE N == Size(nodes)
             up == Ancestor(nodes, None)
             S == {l \in 0..N : up[l] = None}
  <1>1. /\ N \in Nat /\ up[0] = None
        /\ \A l \in 0..N - 1 :
             up[l + 1] = IF up[l] = None THEN None ELSE nodes[up[l]].parent
    BY AncestorIs DEF Descending
  <1> HIDE DEF N, up
  <1>2. 0 \in S /\ \A l \in 0..N - 1 : l \in S => l + 1 \in S
    BY <1>1
  <1>3. 0..N \subseteq S
    <2> HIDE DEF S
    <2>1. QED
      BY <1>1, <1>2, BoundedInduction
  <1>4. QED
    BY <1>3 DEF N, up

(* How far up the bottom is: one further than from the parent.             *)
LEMMA DepthStep ==
  ASSUME NEW nodes, Descending(nodes), NEW n \in DOMAIN nodes
  PROVE  /\ Depth(nodes, n) \in Nat /\ Depth(nodes, nodes[n].parent) \in Nat
         /\ Depth(nodes, n) = Depth(nodes, nodes[n].parent) + 1
  <1> DEFINE N == Size(nodes)
             p == nodes[n].parent
             A == {k \in 0..N : Ancestor(nodes, p)[k] # None}
             B == {k \in 0..N : Ancestor(nodes, n)[k] # None}
             f == [k \in A |-> k + 1]
  <1>1. N \in Nat /\ n # None /\ p \in DOMAIN nodes \cup {None}
    BY AncestorTyped DEF Descending
  <1>2. Ancestor(nodes, n)[0] = n /\ Ancestor(nodes, p)[N] = None
    BY <1>1, AncestorIs, AncestorEnds DEF Descending
  <1>3. \A k \in 0..N - 1 : Ancestor(nodes, n)[k + 1] = Ancestor(nodes, p)[k]
    BY AncestorStep
  <1>4. Depth(nodes, n) = Cardinality(B) /\ Depth(nodes, p) = Cardinality(A)
    BY DEF Depth, Size
  <1>5. IsFiniteSet(A) /\ IsFiniteSet(B)
    <2>1. IsFiniteSet(0..N) /\ A \in SUBSET (0..N) /\ B \in SUBSET (0..N)
      BY <1>1, FS_Interval
    <2>2. QED
      BY <2>1, FS_Subset
  <1> HIDE DEF N, p
  <1>6. f \in Bijection(A, B \ {0})
    <2>1. \A k \in A : k \in 0..N - 1 /\ k + 1 \in B \ {0}
      <3> TAKE k \in A
      <3>1. k \in 0..N /\ k # N
        BY <1>2
      <3>2. k \in 0..N - 1 /\ k + 1 \in 0..N /\ k + 1 # 0
        BY <1>1, <3>1
      <3>3. QED
        BY <1>3, <3>2
    <2>2. ASSUME NEW l \in B \ {0} PROVE l - 1 \in A /\ f[l - 1] = l
      <3>1. l - 1 \in 0..N - 1 /\ l - 1 \in 0..N /\ (l - 1) + 1 = l
        BY <1>1
      <3>2. Ancestor(nodes, n)[l] = Ancestor(nodes, p)[l - 1]
        BY <1>3, <3>1
      <3>3. QED
        BY <3>1, <3>2
    <2>3. \A k, l \in A : f[k] = f[l] => k = l
      BY <1>1
    <2>4. f \in [A -> B \ {0}]
      BY <2>1
    <2> HIDE DEF f, A, B
    <2>5. \A l \in B \ {0} : \E k \in A : f[k] = l
      BY <2>2
    <2>6. QED
      BY <2>3, <2>4, <2>5 DEF Bijection, Injection, Surjection, IsInjective
  <1>7. 0 \in B
    BY <1>1, <1>2
  <1> HIDE DEF f, A, B
  <1>8. Cardinality(B \ {0}) = Cardinality(A)
    BY <1>5, <1>6, FS_Bijection DEF ExistsBijection
  <1>9. Cardinality(B \ {0}) = Cardinality(B) - 1
    BY <1>5, <1>7, FS_RemoveElement
  <1>10. Cardinality(A) \in Nat /\ Cardinality(B) \in Nat
    BY <1>5, FS_CardinalityType
  <1>11. QED
    BY <1>4, <1>8, <1>9, <1>10 DEF p

-----------------------------------------------------------------------------
(* What retention keeps *)

(* Each operation starts from the root the one it follows left, the        *)
(* oldest ones from the bottom's.                                          *)
Joins(nodes, initial) ==
  \A n \in DOMAIN nodes :
    IF nodes[n].parent = None THEN nodes[n].before = initial
    ELSE nodes[nodes[n].parent].after = nodes[n].before

(* The operations undo reaches within the limit.                           *)
Path(nodes, head) ==
  {n \in DOMAIN nodes : \E k \in 0..HistoryLimit - 1 : Ancestor(nodes, head)[k] = n}

(* A graph whose operations join is one that from_persisted accepts.       *)
LEMMA JoinedLoads ==
  ASSUME NEW nodes, Descending(nodes), NEW initial, Joins(nodes, initial),
         NEW head \in DOMAIN nodes \cup {None}
  PROVE  GraphLoads(initial, head, nodes)
  BY AncestorEnds DEF GraphLoads, Descending, Joins, Size

(* The limit and the places it speaks of.                                  *)
LEMMA PathShape ==
  ASSUME NEW nodes, Descending(nodes), NEW head \in DOMAIN nodes \cup {None},
         Overfull(nodes)
  PROVE  LET up   == Ancestor(nodes, head)
             base == Baseline(nodes, head)
         IN /\ HistoryLimit \in 1..Size(nodes) - 1 /\ Size(nodes) \in Nat
            /\ base = up[HistoryLimit]
            /\ base \in DOMAIN nodes \cup {None}
            /\ head \in Path(nodes, head) \cup {None}
            /\ \A k \in 0..HistoryLimit - 1 :
                 up[k] # None => /\ up[k] \in Path(nodes, head)
                                 /\ up[k] \in DOMAIN nodes
                                 /\ nodes[up[k]].parent = up[k + 1]
            /\ \A n \in Path(nodes, head) :
                 \E k \in 0..HistoryLimit - 1 : n = up[k] /\ up[k] # None
            /\ base # None =>
                 /\ \A k \in 0..HistoryLimit - 1 : up[k] # None /\ base < up[k]
                 /\ base \notin Path(nodes, head)
            /\ \A k \in 0..HistoryLimit - 1 :
                 base # None /\ up[k + 1] = base => k = HistoryLimit - 1
  <1> DEFINE up   == Ancestor(nodes, head)
             base == Baseline(nodes, head)
             L == HistoryLimit
             N == Size(nodes)
  <1>1. L \in 1..N - 1 /\ N \in Nat
    BY HistoryLimitAssumption, AncestorTyped DEF Overfull, Size
  <1>2. base = up[L]
    BY DEF Baseline
  <1>3. /\ \A k \in 0..N : up[k] \in DOMAIN nodes \cup {None}
        /\ up[0] = head
        /\ \A k \in 0..N - 1 :
             up[k + 1] = IF up[k] = None THEN None ELSE nodes[up[k]].parent
    BY AncestorTyped, AncestorIs DEF Descending
  <1>4. \A n \in DOMAIN nodes : n \in Nat \ {0}
    BY DEF Descending
  <1>5. \A k \in 0..N : up[k] # None => \A j \in 0..k - 1 : up[j] # None /\ up[k] < up[j]
    BY AncestorDescends
  <1> HIDE DEF up, base, N
  <1>6. \A k \in 0..L - 1 :
          up[k] # None => /\ up[k] \in Path(nodes, head)
                          /\ up[k] \in DOMAIN nodes
                          /\ nodes[up[k]].parent = up[k + 1]
    <2> SUFFICES ASSUME NEW k \in 0..L - 1, up[k] # None
                 PROVE  /\ up[k] \in Path(nodes, head) /\ up[k] \in DOMAIN nodes
                        /\ nodes[up[k]].parent = up[k + 1]
      OBVIOUS
    <2>1. k \in 0..N /\ k \in 0..N - 1
      BY <1>1
    <2>2. up[k] \in DOMAIN nodes /\ nodes[up[k]].parent = up[k + 1]
      BY <1>3, <2>1
    <2>3. QED
      BY <2>2 DEF Path, up
  <1>7. head \in Path(nodes, head) \cup {None}
    <2>1. 0 \in 0..L - 1
      BY <1>1
    <2>2. QED
      BY <1>3, <1>6, <2>1
  <1>8. \A n \in Path(nodes, head) : \E k \in 0..L - 1 : n = up[k] /\ up[k] # None
    BY <1>4 DEF Path, up
  <1>9. base \in DOMAIN nodes \cup {None}
    <2>1. L \in 0..N
      BY <1>1
    <2>2. QED
      BY <1>2, <1>3, <2>1
  <1>10. base # None => \A k \in 0..L - 1 : up[k] # None /\ base < up[k]
    <2>1. L \in 0..N
      BY <1>1
    <2>2. QED
      BY <1>2, <1>5, <2>1
  <1>11. base # None => base \notin Path(nodes, head)
    <2> SUFFICES ASSUME base # None, base \in Path(nodes, head) PROVE FALSE
      OBVIOUS
    <2>1. PICK k \in 0..L - 1 : base = up[k]
      BY <1>8
    <2>2. base < base /\ base \in Nat
      BY <1>4, <1>9, <1>10, <2>1
    <2>3. QED
      BY <2>2
  <1>12. ASSUME NEW k \in 0..L - 1, base # None, up[k + 1] = base PROVE k = L - 1
    <2>1. SUFFICES ASSUME k # L - 1 PROVE FALSE
      OBVIOUS
    <2>2. k + 1 \in 0..L - 1
      BY <1>1, <2>1
    <2>3. base < base /\ base \in Nat
      BY <1>4, <1>9, <1>10, <1>12, <2>2
    <2>4. QED
      BY <2>3
  <1>13. QED
    BY <1>1, <1>2, <1>6, <1>7, <1>8, <1>9, <1>10, <1>11, <1>12 DEF up, base, N

(* Which operations retention keeps, and what it makes of them.            *)
LEMMA RetainedShape ==
  ASSUME NEW nodes, Descending(nodes), NEW head \in DOMAIN nodes \cup {None}
  PROVE  LET kept == RetainedNodes(nodes, head)
             base == Baseline(nodes, head)
         IN /\ DOMAIN kept = Retained(nodes, head)
            /\ Retained(nodes, head) \subseteq DOMAIN nodes
            /\ ~Overfull(nodes) => Retained(nodes, head) = DOMAIN nodes /\ base = None
            /\ Overfull(nodes) => Path(nodes, head) \subseteq Retained(nodes, head)
            /\ base # None => Overfull(nodes) /\ Retained(nodes, head) = Path(nodes, head)
            /\ \A n \in Retained(nodes, head) :
                 /\ {"parent", "before", "after"} \subseteq DOMAIN kept[n]
                 /\ kept[n].parent = IF base # None /\ nodes[n].parent = base THEN None
                                     ELSE nodes[n].parent
                 /\ kept[n].before = nodes[n].before /\ kept[n].after = nodes[n].after
  <1> DEFINE kept == RetainedNodes(nodes, head)
             base == Baseline(nodes, head)
  <1>1. DOMAIN kept = Retained(nodes, head) /\ Retained(nodes, head) \subseteq DOMAIN nodes
    BY DEF RetainedNodes, Retained
  <1>2. ~Overfull(nodes) => Retained(nodes, head) = DOMAIN nodes /\ base = None
    BY DEF Retained, Baseline
  <1>3. /\ Overfull(nodes) => Path(nodes, head) \subseteq Retained(nodes, head)
        /\ base # None => Overfull(nodes) /\ Retained(nodes, head) = Path(nodes, head)
    BY DEF Retained, Path, Baseline
  <1>4. ASSUME NEW n \in Retained(nodes, head)
        PROVE  /\ {"parent", "before", "after"} \subseteq DOMAIN kept[n]
               /\ kept[n].parent = IF base # None /\ nodes[n].parent = base THEN None
                                   ELSE nodes[n].parent
               /\ kept[n].before = nodes[n].before /\ kept[n].after = nodes[n].after
    <2>1. kept[n] = IF base # None /\ nodes[n].parent = base
                    THEN [nodes[n] EXCEPT !.parent = None] ELSE nodes[n]
      BY DEF RetainedNodes
    <2>2. {"parent", "before", "after"} \subseteq DOMAIN nodes[n]
      BY <1>1 DEF Descending
    <2> HIDE DEF kept, base
    <2>3. QED
      BY <2>1, <2>2
  <1>5. QED
    BY <1>1, <1>2, <1>3, <1>4

(* Every operation that is kept beside the cursor's path follows one that  *)
(* is kept: the walk of enforce_limit meets a parent before its children.  *)
LEMMA RetainedClosed ==
  ASSUME NEW nodes, Descending(nodes), NEW head \in DOMAIN nodes \cup {None},
         Overfull(nodes), Baseline(nodes, head) = None,
         NEW n \in Retained(nodes, head), nodes[n].parent # None
  PROVE  nodes[n].parent \in Retained(nodes, head)
  <1> DEFINE path   == Path(nodes, head)
             others == DOMAIN nodes \ path
             room   == HistoryLimit - Cardinality(path)
             Met(x) == {m \in others : MetBefore(nodes, m, x)}
             p      == nodes[n].parent
  <1>1. Retained(nodes, head) =
          path \cup {x \in others : Cardinality(Met(x)) < room}
    BY DEF Retained, Path
  <1>2. n \in DOMAIN nodes /\ p \in DOMAIN nodes
    BY RetainedShape DEF Descending
  <1>3. CASE n \in path
    <2>1. PICK k \in 0..HistoryLimit - 1 :
            n = Ancestor(nodes, head)[k] /\ Ancestor(nodes, head)[k] # None
      BY <1>3, PathShape
    <2>2. p = Ancestor(nodes, head)[k + 1]
      BY <2>1, PathShape
    <2>3. CASE k + 1 = HistoryLimit
      BY <2>2, <2>3, PathShape
    <2>4. CASE k + 1 # HistoryLimit
      <3>1. k + 1 \in 0..HistoryLimit - 1
        BY <2>4, HistoryLimitAssumption
      <3>2. QED
        BY <1>1, <2>2, <3>1, PathShape
    <2>5. QED
      BY <2>3, <2>4
  <1>4. CASE n \notin path /\ p \notin path
    <2>1. n \in others /\ p \in others /\ Cardinality(Met(n)) < room
      BY <1>1, <1>2, <1>4
    <2>2. /\ Depth(nodes, p) < Depth(nodes, n)
          /\ Depth(nodes, n) \in Nat /\ Depth(nodes, p) \in Nat
      BY <1>2, DepthStep
    <2>3. Met(p) \subseteq Met(n)
      <3>1. ASSUME NEW m \in others, MetBefore(nodes, m, p) PROVE MetBefore(nodes, m, n)
        <4>1. Depth(nodes, m) \in Nat
          BY DepthStep
        <4>2. Depth(nodes, m) <= Depth(nodes, p)
          BY <2>2, <3>1, <4>1 DEF MetBefore
        <4>3. QED
          BY <2>2, <4>1, <4>2 DEF MetBefore
      <3>2. QED
        BY <3>1
    <2>4. IsFiniteSet(Met(n))
      <3>1. Met(n) \in SUBSET DOMAIN nodes
        OBVIOUS
      <3>2. QED
        BY <3>1, FS_Subset DEF Descending
    <2>5. /\ Cardinality(Met(p)) <= Cardinality(Met(n))
          /\ IsFiniteSet(Met(p))
      <3>1. Met(p) \in SUBSET Met(n)
        BY <2>3
      <3>2. QED
        BY <2>4, <3>1, FS_Subset
    <2>6. Cardinality(Met(p)) \in Nat /\ Cardinality(Met(n)) \in Nat
      BY <2>4, <2>5, FS_CardinalityType
    <2>7. room \in Int
      <3>1. path \in SUBSET DOMAIN nodes
        BY DEF Path
      <3>2. IsFiniteSet(path)
        BY <3>1, FS_Subset DEF Descending
      <3>3. QED
        BY <3>2, FS_CardinalityType, HistoryLimitAssumption
    <2> HIDE DEF Met, others, path, p
    <2>8. Cardinality(Met(p)) < room
      BY <2>1, <2>5, <2>6, <2>7
    <2>9. QED
      BY <1>1, <2>1, <2>8 DEF p
  <1>5. QED
    BY <1>1, <1>3, <1>4

(* Retention keeps a graph in which every operation follows the bottom or  *)
(* an older one.                                                           *)
LEMMA RetainedDescends ==
  ASSUME NEW nodes, Descending(nodes), NEW head \in DOMAIN nodes \cup {None}
  PROVE  /\ Descending(RetainedNodes(nodes, head))
         /\ head \in Retained(nodes, head) \cup {None}
  <1> DEFINE kept == RetainedNodes(nodes, head)
             base == Baseline(nodes, head)
             keep == Retained(nodes, head)
             up   == Ancestor(nodes, head)
  <1>1. /\ DOMAIN kept = keep /\ keep \subseteq DOMAIN nodes
        /\ ~Overfull(nodes) => keep = DOMAIN nodes /\ base = None
        /\ Overfull(nodes) => Path(nodes, head) \subseteq keep
        /\ base # None => Overfull(nodes) /\ keep = Path(nodes, head)
        /\ \A n \in keep :
             /\ {"parent", "before", "after"} \subseteq DOMAIN kept[n]
             /\ kept[n].parent = IF base # None /\ nodes[n].parent = base THEN None
                                 ELSE nodes[n].parent
    BY RetainedShape
  <1>2. head \in keep \cup {None}
    BY <1>1, PathShape
  <1>3. IsFiniteSet(keep)
    <2>1. keep \in SUBSET DOMAIN nodes
      BY <1>1
    <2>2. QED
      BY <2>1, FS_Subset DEF Descending
  <1>4. ASSUME NEW n \in keep, kept[n].parent # None
        PROVE  kept[n].parent \in keep /\ kept[n].parent < n
    <2>1. /\ n \in DOMAIN nodes /\ kept[n].parent = nodes[n].parent
          /\ base # None => nodes[n].parent # base
      BY <1>1, <1>4
    <2>2. nodes[n].parent \in DOMAIN nodes /\ nodes[n].parent < n
      BY <1>4, <2>1 DEF Descending
    <2>3. nodes[n].parent \in keep
      <3>1. CASE ~Overfull(nodes)
        BY <1>1, <2>2, <3>1
      <3>2. CASE Overfull(nodes) /\ base = None
        BY <1>4, <2>1, <3>2, RetainedClosed
      <3>3. CASE base # None
        <4>1. n \in Path(nodes, head) /\ Overfull(nodes)
          BY <1>1, <3>3
        <4>2. PICK k \in 0..HistoryLimit - 1 : n = up[k] /\ up[k] # None
          BY <4>1, PathShape
        <4>3. nodes[n].parent = up[k + 1] /\ up[HistoryLimit] = base
          BY <4>1, <4>2, PathShape
        <4>4. k + 1 # HistoryLimit
          BY <2>1, <3>3, <4>3
        <4>5. k + 1 \in 0..HistoryLimit - 1
          BY <4>4, HistoryLimitAssumption
        <4>6. up[k + 1] # None
          BY <3>3, <4>1, <4>5, PathShape
        <4>7. up[k + 1] \in Path(nodes, head)
          BY <4>1, <4>5, <4>6, PathShape
        <4>8. QED
          BY <1>1, <3>3, <4>3, <4>7
      <3>4. QED
        BY <3>1, <3>2, <3>3, <1>1
    <2>4. QED
      BY <2>1, <2>2, <2>3
  <1>5. \A n \in keep : n \in Nat \ {0}
    BY <1>1 DEF Descending
  <1> HIDE DEF kept, keep, base
  <1>6. Descending(kept)
    BY <1>1, <1>3, <1>4, <1>5 DEF Descending
  <1>7. QED
    BY <1>2, <1>6 DEF kept, keep

(* The roots still join, from the new bottom on.                           *)
LEMMA RetainedJoins ==
  ASSUME NEW nodes, Descending(nodes), NEW head \in DOMAIN nodes \cup {None},
         NEW initial, Joins(nodes, initial)
  PROVE  /\ Joins(RetainedNodes(nodes, head), RetainedInitial(nodes, head, initial))
         /\ LET base == Baseline(nodes, head)
            IN base # None =>
                 /\ base \in DOMAIN nodes \ Retained(nodes, head)
                 /\ RetainedInitial(nodes, head, initial) = nodes[base].after
  <1> DEFINE kept == RetainedNodes(nodes, head)
             base == Baseline(nodes, head)
             keep == Retained(nodes, head)
             up   == Ancestor(nodes, head)
             low  == RetainedInitial(nodes, head, initial)
             L    == HistoryLimit
  <1>1. /\ DOMAIN kept = keep /\ keep \subseteq DOMAIN nodes
        /\ base # None => Overfull(nodes) /\ keep = Path(nodes, head)
        /\ \A n \in keep :
             /\ kept[n].parent = IF base # None /\ nodes[n].parent = base THEN None
                                 ELSE nodes[n].parent
             /\ kept[n].before = nodes[n].before /\ kept[n].after = nodes[n].after
    BY RetainedShape
  <1>2. Descending(kept)
    BY RetainedDescends
  <1>3. base = None => low = initial
    BY DEF RetainedInitial
  <1>4. base # None =>
          /\ low = nodes[up[L - 1]].before
          /\ up[L - 1] \in DOMAIN nodes /\ nodes[up[L - 1]].parent = base
          /\ base \in DOMAIN nodes /\ base \notin keep
    <2> SUFFICES ASSUME base # None
                 PROVE  /\ low = nodes[up[L - 1]].before
                        /\ up[L - 1] \in DOMAIN nodes /\ nodes[up[L - 1]].parent = base
                        /\ base \in DOMAIN nodes /\ base \notin keep
      OBVIOUS
    <2>1. low = nodes[up[L - 1]].before
      BY DEF RetainedInitial
    <2>2. L - 1 \in 0..L - 1 /\ (L - 1) + 1 = L
      BY HistoryLimitAssumption
    <2>3. base = up[L] /\ base \in DOMAIN nodes \cup {None}
          /\ up[L - 1] # None /\ base \notin Path(nodes, head)
      BY <1>1, <2>2, PathShape
    <2>4. up[L - 1] \in DOMAIN nodes /\ nodes[up[L - 1]].parent = up[(L - 1) + 1]
      BY <1>1, <2>2, <2>3, PathShape
    <2>5. QED
      BY <1>1, <2>1, <2>2, <2>3, <2>4
  <1>5. base # None => low = nodes[base].after
    BY <1>4 DEF Joins
  <1>6. ASSUME NEW n \in keep
        PROVE  IF kept[n].parent = None THEN kept[n].before = low
               ELSE kept[kept[n].parent].after = kept[n].before
    <2>1. n \in DOMAIN nodes
      BY <1>1
    <2>2. CASE kept[n].parent # None
      <3>1. kept[n].parent \in keep /\ kept[n].parent = nodes[n].parent
        BY <1>1, <1>2, <2>2 DEF Descending
      <3>2. nodes[nodes[n].parent].after = nodes[n].before
        BY <2>1, <2>2, <3>1 DEF Joins
      <3>3. QED
        BY <1>1, <2>2, <3>1, <3>2
    <2>3. CASE kept[n].parent = None /\ base # None
      <3>1. PICK k \in 0..L - 1 : n = up[k] /\ up[k] # None
        BY <1>1, <2>3, PathShape
      <3>2. nodes[n].parent = up[k + 1]
        BY <1>1, <2>3, <3>1, PathShape
      <3>3. up[k + 1] = base
        <4>1. nodes[n].parent = base \/ nodes[n].parent = None
          BY <1>1, <2>3
        <4>2. CASE nodes[n].parent = base
          BY <3>2, <4>2
        <4>3. CASE nodes[n].parent = None
          <5>1. up[k + 1] = None
            BY <3>2, <4>3
          <5>2. CASE k + 1 = L
            BY <1>1, <2>3, <5>1, <5>2, PathShape
          <5>3. CASE k + 1 # L
            <6>1. k + 1 \in 0..L - 1
              BY <5>3, HistoryLimitAssumption
            <6>2. QED
              BY <1>1, <2>3, <5>1, <6>1, PathShape
          <5>4. QED
            BY <5>2, <5>3
        <4>4. QED
          BY <4>1, <4>2, <4>3
      <3>4. k = L - 1
        BY <1>1, <2>3, <3>3, PathShape
      <3>5. QED
        BY <1>1, <1>4, <2>3, <3>1, <3>4
    <2>4. CASE kept[n].parent = None /\ base = None
      <3>1. nodes[n].parent = None
        BY <1>1, <2>4
      <3>2. QED
        BY <1>1, <1>3, <2>1, <2>4, <3>1 DEF Joins
    <2>5. QED
      BY <2>2, <2>3, <2>4
  <1> HIDE DEF kept, keep, base, low
  <1>7. Joins(kept, low)
    BY <1>1, <1>6 DEF Joins
  <1>8. QED
    BY <1>4, <1>5, <1>7 DEF kept, keep, base, low

-----------------------------------------------------------------------------
(* What undo reaches after retention *)

(* A set of numbers that is not empty has a least one.                     *)
LEMMA LeastNumber ==
  ASSUME NEW S, S \subseteq Nat, S # {}
  PROVE  \E m \in S : \A k \in S : m <= k
  <1> DEFINE Less == OpToRel(<, Nat)
  <1>1. \A u, v \in Nat : u < v => <<u, v>> \in Less
    BY DEF OpToRel
  <1>2. IsWellFoundedOn(Less, Nat)
    BY NatLessThanWellFounded
  <1> HIDE DEF Less
  <1>3. PICK m \in S : \A u \in S : ~ (<<u, m>> \in Less)
    BY <1>2, WFMin
  <1>4. \A k \in S : ~ (k < m)
    BY <1>1, <1>3
  <1>5. QED
    BY <1>4

(* The walk is on operations exactly as long as the depth says.            *)
LEMMA DepthPlace ==
  ASSUME NEW nodes, Descending(nodes), NEW n \in DOMAIN nodes \cup {None}
  PROVE  /\ Depth(nodes, n) \in 0..Size(nodes)
         /\ \A k \in 0..Size(nodes) :
              Ancestor(nodes, n)[k] # None <=> k < Depth(nodes, n)
  <1> DEFINE N  == Size(nodes)
             up == Ancestor(nodes, n)
             ends == {k \in 0..N : up[k] = None}
  <1>1. N \in Nat /\ up[N] = None
    BY AncestorTyped, AncestorEnds
  <1>2. \A k \in 0..N : up[k] # None => \A j \in 0..k - 1 : up[j] # None
    BY AncestorDescends
  <1>3. Depth(nodes, n) = Cardinality({k \in 0..N : up[k] # None})
    BY DEF Depth, Size
  <1> HIDE DEF N, up
  <1>4. ends \subseteq Nat /\ ends # {}
    BY <1>1
  <1> HIDE DEF ends
  <1>5. PICK d \in ends : \A k \in ends : d <= k
    BY <1>4, LeastNumber
  <1>6. d \in 0..N /\ up[d] = None
    BY <1>5 DEF ends
  <1>7. \A k \in 0..N : up[k] # None <=> k < d
    <2> TAKE k \in 0..N
    <2>1. CASE k < d
      BY <1>5, <1>6, <2>1 DEF ends
    <2>2. CASE k = d
      BY <1>6, <2>2
    <2>3. CASE k > d
      <3>1. d \in 0..k - 1
        BY <1>6, <2>3
      <3>2. QED
        BY <1>2, <1>6, <2>3, <3>1
    <2>4. QED
      BY <1>6, <2>1, <2>2, <2>3
  <1>8. {k \in 0..N : up[k] # None} = 0..d - 1
    BY <1>1, <1>6, <1>7
  <1>9. Cardinality(0..d - 1) = d
    <2>1. d - 1 \in Int
      BY <1>6
    <2>2. QED
      BY <1>6, <2>1, FS_Interval
  <1>10. QED
    BY <1>3, <1>6, <1>7, <1>8, <1>9 DEF N, up

(* Limiting a history leaves the first operations undo reaches as they     *)
(* are, up to the limit, and the bottom lies where the next one had led.   *)
LEMMA RetainedUndo ==
  ASSUME NEW nodes, Descending(nodes), NEW head \in DOMAIN nodes \cup {None},
         NEW initial, Joins(nodes, initial), Overfull(nodes)
  PROVE  LET kept  == RetainedNodes(nodes, head)
             depth == Depth(nodes, head)
             reach == IF depth > HistoryLimit THEN HistoryLimit ELSE depth
         IN /\ Depth(kept, head) = reach
            /\ \A k \in 0..reach - 1 : Ancestor(kept, head)[k] = Ancestor(nodes, head)[k]
            /\ reach < depth =>
                 RetainedInitial(nodes, head, initial) =
                   nodes[Ancestor(nodes, head)[reach]].after
  <1> DEFINE kept  == RetainedNodes(nodes, head)
             depth == Depth(nodes, head)
             L     == HistoryLimit
             reach == IF depth > L THEN L ELSE depth
             up    == Ancestor(nodes, head)
             new   == Ancestor(kept, head)
             base  == Baseline(nodes, head)
             N     == Size(nodes)
             M     == Size(kept)
  <1>1. /\ L \in 1..N - 1 /\ N \in Nat /\ base = up[L]
        /\ \A k \in 0..L - 1 :
             up[k] # None => /\ up[k] \in Path(nodes, head)
                             /\ nodes[up[k]].parent = up[k + 1]
        /\ \A k \in 0..L - 1 : base # None /\ up[k + 1] = base => k = L - 1
    BY PathShape
  <1>2. depth \in 0..N /\ \A k \in 0..N : up[k] # None <=> k < depth
    BY DepthPlace
  <1>3. /\ reach \in 0..L /\ reach \in Nat /\ L \in Nat
        /\ reach <= depth /\ (base # None <=> depth > L)
        /\ (depth > L => reach = L) /\ (~ (depth > L) => reach = depth)
    <2>1. L \in 0..N
      BY <1>1
    <2>2. up[L] # None <=> L < depth
      BY <1>2, <2>1
    <2>3. QED
      BY <1>1, <1>2, <2>2
  <1>4. /\ Descending(kept) /\ head \in DOMAIN kept \cup {None}
        /\ Path(nodes, head) \subseteq DOMAIN kept
        /\ \A n \in Path(nodes, head) :
             kept[n].parent = IF base # None /\ nodes[n].parent = base THEN None
                              ELSE nodes[n].parent
    BY RetainedDescends, RetainedShape
  <1>5. M \in Nat /\ new[0] = head
        /\ \A k \in 0..M - 1 :
             new[k + 1] = IF new[k] = None THEN None ELSE kept[new[k]].parent
    BY <1>4, AncestorIs DEF Descending
  <1>6. up[0] = head
    BY AncestorIs DEF Descending
  <1>7. \A k \in 0..reach - 1 : k \in 0..L - 1 /\ k \in 0..N /\ up[k] # None
    BY <1>1, <1>2, <1>3
  <1>8. reach <= M
    <2> DEFINE f == [k \in 0..reach - 1 |-> up[k]]
    <2>1. f \in [0..reach - 1 -> DOMAIN kept]
      BY <1>1, <1>4, <1>7
    <2>2. ASSUME NEW j \in 0..reach - 1, NEW k \in 0..reach - 1, j < k PROVE up[j] # up[k]
      <3>1. k \in 0..N /\ up[k] # None /\ j \in 0..k - 1 /\ up[j] # None /\ j \in 0..N
        BY <1>7, <2>2
      <3>2. up[k] < up[j]
        BY <3>1, AncestorDescends
      <3>3. up[k] \in Nat /\ up[j] \in Nat
        BY <3>1, AncestorTyped DEF Descending
      <3>4. QED
        BY <3>2, <3>3
    <2>3. \A j, k \in 0..reach - 1 : up[j] = up[k] => j = k
      <3> TAKE j, k \in 0..reach - 1
      <3>1. CASE j < k
        BY <2>2, <3>1
      <3>2. CASE k < j
        BY <2>2, <3>2
      <3>3. CASE j = k
        BY <3>3
      <3>4. j \in Int /\ k \in Int
        BY <1>3
      <3>5. QED
        BY <3>1, <3>2, <3>3, <3>4
    <2>4. f \in Injection(0..reach - 1, DOMAIN kept)
      BY <2>1, <2>3 DEF Injection, IsInjective
    <2>5. IsFiniteSet(DOMAIN kept)
      BY <1>4 DEF Descending
    <2> HIDE DEF f
    <2>6. Cardinality(0..reach - 1) <= Cardinality(DOMAIN kept)
      BY <2>4, <2>5, FS_Injection
    <2>7. Cardinality(0..reach - 1) = reach
      <3>1. reach - 1 \in Int /\ reach \in Nat
        BY <1>3
      <3>2. QED
        BY <3>1, FS_Interval
    <2>8. QED
      BY <2>6, <2>7 DEF Size
  <1> HIDE DEF kept, depth, up, new, base, N, M, reach, L
  <1>9. \A k \in 0..reach - 1 : new[k] = up[k]
    <2> DEFINE S == {k \in 0..L : k < reach => new[k] = up[k]}
    <2>1. 0 \in S
      BY <1>1, <1>5, <1>6
    <2>2. ASSUME NEW k \in 0..L - 1, k \in S PROVE k + 1 \in S
      <3>1. k + 1 \in 0..L
        BY <1>1
      <3>2. SUFFICES ASSUME k + 1 < reach PROVE new[k + 1] = up[k + 1]
        BY <3>1
      <3>3. k \in 0..reach - 1 /\ k \in 0..M - 1 /\ k # L - 1 /\ k < reach
        BY <1>3, <1>5, <1>8, <3>2
      <3>4. new[k] = up[k] /\ up[k] # None
        BY <1>7, <2>2, <3>3
      <3>5. up[k] \in Path(nodes, head) /\ nodes[up[k]].parent = up[k + 1]
        BY <1>1, <3>4
      <3>6. kept[up[k]].parent = up[k + 1]
        BY <1>1, <1>4, <3>3, <3>5
      <3>7. QED
        BY <1>5, <3>3, <3>4, <3>6
    <2>3. 0..L \subseteq S
      <3> HIDE DEF S
      <3>1. L \in Nat
        BY <1>1
      <3>2. QED
        BY <2>1, <2>2, <3>1, BoundedInduction
    <2>4. QED
      BY <1>3, <1>7, <2>3
  <1>10. new[reach] = None
    <2>1. CASE reach = 0
      <3>1. depth = 0 /\ 0 \in 0..N
        BY <1>1, <1>3, <2>1
      <3>2. QED
        BY <1>2, <1>5, <1>6, <2>1, <3>1
    <2>2. CASE reach # 0
      <3>1. reach - 1 \in 0..reach - 1 /\ reach - 1 \in 0..L - 1 /\ reach - 1 \in 0..M - 1
            /\ (reach - 1) + 1 = reach
        BY <1>3, <1>5, <1>8, <2>2
      <3>2. new[reach - 1] = up[reach - 1] /\ up[reach - 1] # None
        BY <1>7, <1>9, <3>1
      <3>3. up[reach - 1] \in Path(nodes, head) /\ nodes[up[reach - 1]].parent = up[reach]
        BY <1>1, <3>1, <3>2
      <3>4. new[reach] = kept[up[reach - 1]].parent
        BY <1>5, <3>1, <3>2
      <3>5. CASE base # None
        <4>1. reach = L
          BY <1>3, <3>5
        <4>2. QED
          BY <1>1, <1>4, <3>3, <3>4, <3>5, <4>1
      <3>6. CASE base = None
        <4>1. reach = depth /\ reach \in 0..N
          BY <1>1, <1>2, <1>3, <3>6
        <4>2. up[reach] = None
          BY <1>2, <4>1
        <4>3. QED
          BY <1>4, <3>3, <3>4, <3>6, <4>2
      <3>7. QED
        BY <3>5, <3>6
    <2>3. QED
      BY <2>1, <2>2
  <1>11. Depth(kept, head) = reach
    <2>1. /\ Depth(kept, head) \in 0..M
          /\ \A k \in 0..M : new[k] # None <=> k < Depth(kept, head)
      BY <1>4, DepthPlace DEF new, M
    <2>2. reach \in 0..M
      BY <1>3, <1>5, <1>8
    <2>3. ~ (reach < Depth(kept, head))
      BY <1>10, <2>1, <2>2
    <2>4. ~ (Depth(kept, head) < reach)
      <3>1. SUFFICES ASSUME Depth(kept, head) < reach PROVE FALSE
        OBVIOUS
      <3>2. Depth(kept, head) \in 0..reach - 1
        BY <1>3, <2>1, <3>1
      <3>3. new[Depth(kept, head)] # None
        BY <1>7, <1>9, <3>2
      <3>4. QED
        BY <2>1, <3>3
    <2>5. QED
      BY <1>3, <2>1, <2>3, <2>4
  <1>12. reach < depth =>
           RetainedInitial(nodes, head, initial) = nodes[up[reach]].after
    <2>1. SUFFICES ASSUME reach < depth
                   PROVE  RetainedInitial(nodes, head, initial) = nodes[up[reach]].after
      OBVIOUS
    <2>2. reach = L /\ base # None
      BY <1>2, <1>3, <2>1
    <2>3. RetainedInitial(nodes, head, initial) = nodes[base].after
      BY <2>2, RetainedJoins DEF base
    <2>4. QED
      BY <1>1, <2>2, <2>3
  <1>13. QED
    BY <1>9, <1>11, <1>12 DEF kept, depth, up, new, reach, L

-----------------------------------------------------------------------------
(* How much retention keeps *)

(* Two walks that meet go on together.                                     *)
LEMMA AncestorsMeet ==
  ASSUME NEW nodes, Descending(nodes), NEW m, NEW n,
         NEW j \in 0..Size(nodes), Ancestor(nodes, m)[j] = Ancestor(nodes, n)[j],
         NEW i \in j..Size(nodes)
  PROVE  Ancestor(nodes, m)[i] = Ancestor(nodes, n)[i]
  <1> DEFINE N == Size(nodes)
             um == Ancestor(nodes, m)
             un == Ancestor(nodes, n)
             S == {l \in 0..N : j <= l => um[l] = un[l]}
  <1>1. /\ N \in Nat
        /\ \A l \in 0..N - 1 :
             um[l + 1] = IF um[l] = None THEN None ELSE nodes[um[l]].parent
    BY AncestorIs DEF Descending
  <1>2. \A l \in 0..N - 1 :
          un[l + 1] = IF un[l] = None THEN None ELSE nodes[un[l]].parent
    BY AncestorIs DEF Descending
  <1>3. j \in 0..N /\ i \in j..N /\ um[j] = un[j]
    OBVIOUS
  <1> HIDE DEF N, um, un
  <1>4. 0 \in S
    <2>1. j <= 0 => j = 0
      BY <1>1, <1>3
    <2>2. 0 \in 0..N
      BY <1>1
    <2>3. QED
      BY <1>3, <2>1, <2>2
  <1>5. ASSUME NEW l \in 0..N - 1, l \in S PROVE l + 1 \in S
    <2>1. l + 1 \in 0..N
      BY <1>1
    <2>2. CASE j <= l
      BY <1>1, <1>2, <1>5, <2>1, <2>2
    <2>3. CASE j = l + 1
      BY <1>3, <2>1, <2>3
    <2>4. CASE ~(j <= l + 1)
      BY <2>1, <2>4
    <2>5. QED
      BY <1>1, <1>3, <2>2, <2>3, <2>4
  <1>6. 0..N \subseteq S
    <2> HIDE DEF S
    <2>1. QED
      BY <1>1, <1>4, <1>5, BoundedInduction
  <1>7. i \in 0..N /\ j <= i
    BY <1>1, <1>3
  <1>8. QED
    BY <1>6, <1>7 DEF um, un

(* No operation is met before itself.                                      *)
LEMMA MetBeforeIrreflexive ==
  ASSUME NEW nodes, Descending(nodes), NEW n \in DOMAIN nodes
  PROVE  ~MetBefore(nodes, n, n)
  <1>1. Depth(nodes, n) \in 0..Size(nodes) /\ Size(nodes) \in Nat
    BY DepthPlace, AncestorTyped
  <1>2. ASSUME NEW k \in 0..Depth(nodes, n) - 1
        PROVE  ~(Ancestor(nodes, n)[k] > Ancestor(nodes, n)[k])
    <2>1. k \in 0..Size(nodes)
      BY <1>1
    <2>2. Ancestor(nodes, n)[k] \in DOMAIN nodes \cup {None}
      BY <2>1, AncestorTyped
    <2>3. Ancestor(nodes, n)[k] \in Nat
      BY <2>2 DEF Descending
    <2>4. QED
      BY <2>3
  <1>3. QED
    BY <1>1, <1>2 DEF MetBefore

(* Of two operations one is met before the other: at the same depth, the   *)
(* walks up from them differ until they meet, and the newer of the last    *)
(* two operations before that decides.                                     *)
LEMMA MetBeforeTotal ==
  ASSUME NEW nodes, Descending(nodes), NEW m \in DOMAIN nodes, NEW n \in DOMAIN nodes, m # n
  PROVE  MetBefore(nodes, m, n) \/ MetBefore(nodes, n, m)
  <1> DEFINE N == Size(nodes)
             um == Ancestor(nodes, m)
             un == Ancestor(nodes, n)
             D == Depth(nodes, m)
             meet == {j \in 0..N : um[j] = un[j]}
  <1>1. /\ N \in Nat /\ D \in 0..N /\ Depth(nodes, n) \in 0..N
        /\ \A k \in 0..N : um[k] # None <=> k < D
        /\ \A k \in 0..N : un[k] # None <=> k < Depth(nodes, n)
    BY DepthPlace, AncestorTyped
  <1>2. um[0] = m /\ un[0] = n
    BY AncestorIs DEF Descending
  <1>3. \A k \in 0..N : um[k] \in DOMAIN nodes \cup {None} /\ un[k] \in DOMAIN nodes \cup {None}
    BY AncestorTyped
  <1>4. \A x \in DOMAIN nodes : x \in Nat
    BY DEF Descending
  <1>5. CASE Depth(nodes, n) # D
    BY <1>1, <1>5 DEF MetBefore
  <1>6. CASE Depth(nodes, n) = D
    <2> HIDE DEF N, um, un, D
    <2>1. um[D] = un[D]
      BY <1>1, <1>6
    <2>2. meet \subseteq Nat /\ D \in meet
      BY <1>1, <2>1
    <2>3. PICK j \in meet : \A k \in meet : j <= k
      <3> HIDE DEF meet
      <3>1. QED
        BY <2>2, LeastNumber
    <2>4. j \in 0..N /\ j <= D /\ um[j] = un[j]
      BY <2>2, <2>3
    <2>5. j # 0
      BY <1>2, <2>4
    <2>6. j - 1 \in 0..N /\ j - 1 \in 0..D - 1 /\ (j - 1) + 1 = j /\ ~(j <= j - 1)
      BY <1>1, <2>4, <2>5
    <2>7. um[j - 1] # un[j - 1]
      BY <2>3, <2>6
    <2>8. um[j - 1] \in Nat /\ un[j - 1] \in Nat
      BY <1>3, <1>4, <2>6
    <2>9. um[j - 1] > un[j - 1] \/ un[j - 1] > um[j - 1]
      BY <2>7, <2>8
    <2>10. um[(j - 1) + 1] = un[(j - 1) + 1]
      BY <2>4, <2>6
    <2>11. QED
      BY <1>6, <2>6, <2>9, <2>10 DEF MetBefore, um, un, D
  <1>7. QED
    BY <1>5, <1>6

(* What is met before what is met before is met before.                    *)
LEMMA MetBeforeTransitive ==
  ASSUME NEW nodes, Descending(nodes),
         NEW a \in DOMAIN nodes, NEW b \in DOMAIN nodes, NEW c \in DOMAIN nodes,
         MetBefore(nodes, a, b), MetBefore(nodes, b, c)
  PROVE  MetBefore(nodes, a, c)
  <1> DEFINE N == Size(nodes)
             D == Depth(nodes, a)
             ua == Ancestor(nodes, a)
             ub == Ancestor(nodes, b)
             uc == Ancestor(nodes, c)
  <1>1. N \in Nat /\ D \in 0..N /\ Depth(nodes, b) \in 0..N /\ Depth(nodes, c) \in 0..N
    BY DepthPlace, AncestorTyped
  <1>2. CASE ~(D = Depth(nodes, b) /\ Depth(nodes, b) = Depth(nodes, c))
    <2>1. D <= Depth(nodes, b) /\ Depth(nodes, b) <= Depth(nodes, c)
      BY <1>1 DEF MetBefore
    <2>2. D < Depth(nodes, c)
      BY <1>1, <1>2, <2>1
    <2>3. QED
      BY <2>2 DEF MetBefore
  <1>3. CASE D = Depth(nodes, b) /\ Depth(nodes, b) = Depth(nodes, c)
    <2>1. PICK k \in 0..D - 1 : ua[k] > ub[k] /\ ua[k + 1] = ub[k + 1]
      BY <1>1, <1>3 DEF MetBefore
    <2>2. PICK l \in 0..D - 1 : ub[l] > uc[l] /\ ub[l + 1] = uc[l + 1]
      BY <1>1, <1>3 DEF MetBefore
    <2>3. k \in 0..N /\ l \in 0..N /\ k + 1 \in 0..N /\ l + 1 \in 0..N
      BY <1>1
    <2>4. \A x \in 0..N : ua[x] \in Nat /\ ub[x] \in Nat /\ uc[x] \in Nat
      BY AncestorTyped DEF Descending
    <2>5. \A x \in 0..N : x >= k + 1 => ua[x] = ub[x]
      <3> TAKE x \in 0..N
      <3> SUFFICES ASSUME x >= k + 1 PROVE ua[x] = ub[x]
        OBVIOUS
      <3>1. x \in k + 1..N
        BY <1>1
      <3>2. QED
        BY <2>1, <2>3, <3>1, AncestorsMeet
    <2>6. \A x \in 0..N : x >= l + 1 => ub[x] = uc[x]
      <3> TAKE x \in 0..N
      <3> SUFFICES ASSUME x >= l + 1 PROVE ub[x] = uc[x]
        OBVIOUS
      <3>1. x \in l + 1..N
        BY <1>1
      <3>2. QED
        BY <2>2, <2>3, <3>1, AncestorsMeet
    <2> HIDE DEF ua, ub, uc, N
    <2>7. \E x \in 0..D - 1 : ua[x] > uc[x] /\ ua[x + 1] = uc[x + 1]
      <3>1. CASE k = l
        <4>1. ua[k] > uc[k]
          BY <2>1, <2>2, <2>3, <2>4, <3>1
        <4>2. QED
          BY <2>1, <2>2, <3>1, <4>1
      <3>2. CASE k < l
        <4>1. l >= k + 1 /\ l + 1 >= k + 1
          BY <1>1, <3>2
        <4>2. ua[l] = ub[l] /\ ua[l + 1] = ub[l + 1]
          BY <2>3, <2>5, <4>1
        <4>3. QED
          BY <2>2, <4>2
      <3>3. CASE l < k
        <4>1. k >= l + 1 /\ k + 1 >= l + 1
          BY <1>1, <3>3
        <4>2. ub[k] = uc[k] /\ ub[k + 1] = uc[k + 1]
          BY <2>3, <2>6, <4>1
        <4>3. QED
          BY <2>1, <4>2
      <3>4. QED
        BY <1>1, <3>1, <3>2, <3>3
    <2>8. QED
      BY <1>3, <2>7 DEF MetBefore, ua, uc
  <1>4. QED
    BY <1>2, <1>3

(* How many members of S lie before n.                                     *)
Rank(S, Before, n) == Cardinality({m \in S : <<m, n>> \in Before})

(* In a strict total order the members with fewer than r before them are r *)
(* in number: counting what lies before maps the set one to one onto the   *)
(* numbers below its size.                                                 *)
LEMMA Foremost ==
  ASSUME NEW S, IsFiniteSet(S), NEW Before,
         \A n \in S : <<n, n>> \notin Before,
         \A m, n \in S : m # n => <<m, n>> \in Before \/ <<n, m>> \in Before,
         \A a, b, c \in S : <<a, b>> \in Before /\ <<b, c>> \in Before => <<a, c>> \in Before,
         NEW r \in 0..Cardinality(S)
  PROVE  Cardinality({n \in S : Rank(S, Before, n) < r}) = r
  <1> DEFINE C == Cardinality(S)
             Prior(n) == {m \in S : <<m, n>> \in Before}
             rank == [n \in S |-> Cardinality(Prior(n))]
             first == {n \in S : Cardinality(Prior(n)) < r}
  <1>1. C \in Nat
    BY FS_CardinalityType
  <1>2. \A n \in S : IsFiniteSet(Prior(n)) /\ Cardinality(Prior(n)) \in Nat
    <2> TAKE n \in S
    <2>1. Prior(n) \in SUBSET S
      OBVIOUS
    <2>2. QED
      BY <2>1, FS_Subset, FS_CardinalityType
  <1>3. ASSUME NEW n \in S PROVE Cardinality(Prior(n)) \in 0..C - 1
    <2>1. Prior(n) \in SUBSET S /\ n \notin Prior(n)
      OBVIOUS
    <2> HIDE DEF Prior
    <2>2. Cardinality(Prior(n)) <= C /\ (C = Cardinality(Prior(n)) => S = Prior(n))
      BY <2>1, FS_Subset
    <2>3. QED
      BY <1>1, <1>2, <2>1, <2>2
  <1>4. ASSUME NEW m \in S, NEW n \in S, <<m, n>> \in Before
        PROVE  Cardinality(Prior(m)) < Cardinality(Prior(n))
    <2>1. Prior(m) \in SUBSET Prior(n)
      BY <1>4
    <2>2. m \in Prior(n) /\ m \notin Prior(m)
      BY <1>4
    <2> HIDE DEF Prior
    <2>3. /\ Cardinality(Prior(m)) <= Cardinality(Prior(n))
          /\ Cardinality(Prior(n)) = Cardinality(Prior(m)) => Prior(n) = Prior(m)
      BY <1>2, <2>1, FS_Subset
    <2>4. QED
      BY <1>2, <2>2, <2>3
  <1> HIDE DEF Prior
  <1>5. rank \in Injection(S, 0..C - 1)
    <2>1. rank \in [S -> 0..C - 1]
      BY <1>3
    <2>2. ASSUME NEW m \in S, NEW n \in S, rank[m] = rank[n] PROVE m = n
      <3>1. SUFFICES ASSUME m # n PROVE FALSE
        OBVIOUS
      <3>2. <<m, n>> \in Before \/ <<n, m>> \in Before
        BY <3>1
      <3>3. Cardinality(Prior(m)) = Cardinality(Prior(n))
        BY <2>2
      <3>4. QED
        BY <1>2, <1>4, <3>2, <3>3
    <2> HIDE DEF rank
    <2>3. QED
      BY <2>1, <2>2 DEF Injection, IsInjective
  <1>6. IsFiniteSet(0..C - 1) /\ Cardinality(0..C - 1) = C
    <2>1. C - 1 \in Int
      BY <1>1
    <2>2. QED
      BY <1>1, <2>1, FS_Interval
  <1>7. \A k \in 0..C - 1 : \E n \in S : rank[n] = k
    <2> HIDE DEF rank
    <2>1. rank \in Surjection(S, 0..C - 1)
      BY <1>5, <1>6, FS_Injection
    <2>2. QED
      BY <2>1 DEF Surjection
  <1>8. \A n \in S : rank[n] = Cardinality(Prior(n))
    OBVIOUS
  <1>9. \A m, n \in S : rank[m] = rank[n] => m = n
    BY <1>5 DEF Injection, IsInjective
  <1> HIDE DEF rank
  <1> DEFINE place == [n \in first |-> rank[n]]
  <1>10. place \in Bijection(first, 0..r - 1)
    <2>1. \A n \in first : n \in S /\ rank[n] \in 0..r - 1
      BY <1>1, <1>3, <1>8
    <2>2. \A k \in 0..r - 1 : \E n \in first : rank[n] = k
      <3> TAKE k \in 0..r - 1
      <3>1. k \in 0..C - 1 /\ k < r
        BY <1>1
      <3>2. PICK n \in S : rank[n] = k
        BY <1>7, <3>1
      <3>3. n \in first
        BY <1>8, <3>1, <3>2
      <3>4. QED
        BY <3>2, <3>3
    <2> HIDE DEF first
    <2>3. place \in [first -> 0..r - 1]
      BY <2>1
    <2>4. \A m, n \in first : place[m] = place[n] => m = n
      BY <1>9, <2>1
    <2>5. \A k \in 0..r - 1 : \E n \in first : place[n] = k
      BY <2>2
    <2> HIDE DEF place
    <2>6. QED
      BY <2>3, <2>4, <2>5 DEF Bijection, Injection, Surjection, IsInjective
  <1>11. IsFiniteSet(first)
    <2>1. first \in SUBSET S
      OBVIOUS
    <2>2. QED
      BY <2>1, FS_Subset
  <1> HIDE DEF first, place
  <1>12. Cardinality(0..r - 1) = Cardinality(first)
    BY <1>10, <1>11, FS_Bijection DEF ExistsBijection
  <1>13. Cardinality(0..r - 1) = r
    <2>1. r \in Nat /\ r - 1 \in Int
      BY <1>1
    <2>2. QED
      BY <2>1, FS_Interval
  <1>14. QED
    BY <1>12, <1>13 DEF first, Prior, Rank

(* A full graph is cut to the limit exactly.  When the cursor's path is    *)
(* longer it is the last operations of that path; when it is not, they and *)
(* as many others as there is room for.                                    *)
LEMMA RetainedFull ==
  ASSUME NEW nodes, Descending(nodes), NEW head \in DOMAIN nodes \cup {None}, Overfull(nodes)
  PROVE  Cardinality(Retained(nodes, head)) = HistoryLimit
  <1> DEFINE L == HistoryLimit
             up == Ancestor(nodes, head)
             path == Path(nodes, head)
             others == DOMAIN nodes \ path
             room == L - Cardinality(path)
  <1>1. /\ L \in 1..Size(nodes) - 1 /\ Size(nodes) \in Nat
        /\ \A k \in 0..L - 1 : up[k] # None => up[k] \in path
        /\ \A n \in path : \E k \in 0..L - 1 : n = up[k] /\ up[k] # None
        /\ Baseline(nodes, head) # None => \A k \in 0..L - 1 : up[k] # None
    BY PathShape
  <1>2. IsFiniteSet(DOMAIN nodes) /\ IsFiniteSet(path) /\ IsFiniteSet(others)
    <2>1. path \in SUBSET DOMAIN nodes /\ others \in SUBSET DOMAIN nodes
      BY DEF Path
    <2>2. QED
      BY <2>1, FS_Subset DEF Descending
  <1>3. Cardinality(path) \in Nat /\ Cardinality(others) \in Nat
    BY <1>2, FS_CardinalityType
  <1>4. Cardinality(path) + Cardinality(others) = Size(nodes)
    <2>1. DOMAIN nodes \cap path = path
      BY DEF Path
    <2>2. Cardinality(others) = Size(nodes) - Cardinality(path)
      BY <1>2, <2>1, FS_Difference DEF Size
    <2>3. QED
      BY <1>1, <1>3, <2>2
  <1> DEFINE places == {k \in 0..L - 1 : up[k] # None}
             f == [k \in places |-> up[k]]
  <1>5. f \in Bijection(places, path)
    <2>1. f \in [places -> path]
      BY <1>1
    <2>2. ASSUME NEW j \in places, NEW k \in places, j < k PROVE up[j] # up[k]
      <3>1. k \in 0..Size(nodes) /\ up[k] # None /\ j \in 0..k - 1 /\ j \in 0..Size(nodes)
        BY <1>1, <2>2
      <3>2. up[k] < up[j]
        BY <3>1, AncestorDescends
      <3>3. up[k] \in Nat /\ up[j] \in Nat
        BY <3>1, AncestorTyped DEF Descending
      <3>4. QED
        BY <3>2, <3>3
    <2>3. \A j, k \in places : f[j] = f[k] => j = k
      <3> TAKE j, k \in places
      <3>1. j \in Int /\ k \in Int /\ f[j] = up[j] /\ f[k] = up[k]
        BY <1>1
      <3>2. QED
        BY <2>2, <3>1
    <2>4. \A n \in path : \E k \in places : f[k] = n
      BY <1>1
    <2> HIDE DEF f, places, path
    <2>5. QED
      BY <2>1, <2>3, <2>4 DEF Bijection, Injection, Surjection, IsInjective
  <1>6. /\ IsFiniteSet(0..L - 1) /\ Cardinality(0..L - 1) = L
        /\ IsFiniteSet(places) /\ Cardinality(places) <= L
    <2>1. L - 1 \in Int /\ L \in Nat /\ ~(0 > L - 1)
      BY <1>1
    <2>2. IsFiniteSet(0..L - 1) /\ Cardinality(0..L - 1) = L
      BY <2>1, FS_Interval
    <2>3. places \in SUBSET (0..L - 1)
      OBVIOUS
    <2>4. QED
      BY <2>2, <2>3, FS_Subset
  <1>7. Cardinality(path) = Cardinality(places)
    <2> HIDE DEF f, places, path
    <2>1. QED
      BY <1>5, <1>6, FS_Bijection DEF ExistsBijection
  <1>8. CASE Baseline(nodes, head) # None
    <2>1. Retained(nodes, head) = path
      BY <1>8, RetainedShape
    <2>2. places = 0..L - 1
      BY <1>1, <1>8
    <2>3. QED
      BY <1>6, <1>7, <2>1, <2>2
  <1>9. CASE Baseline(nodes, head) = None
    <2> DEFINE Prior(n) == {m \in others : MetBefore(nodes, m, n)}
               first == {n \in others : Cardinality(Prior(n)) < room}
               Before == {e \in others \X others : MetBefore(nodes, e[1], e[2])}
    <2>1. Retained(nodes, head) = path \cup first
      BY <1>9 DEF Retained, Path
    <2>2. room \in 0..Cardinality(others)
      BY <1>1, <1>3, <1>4, <1>6, <1>7
    <2>3. others \subseteq DOMAIN nodes
      OBVIOUS
    <2>4. \A m, n \in others : <<m, n>> \in Before <=> MetBefore(nodes, m, n)
      OBVIOUS
    <2>5. \A n \in others : <<n, n>> \notin Before
      BY <2>3, <2>4, MetBeforeIrreflexive
    <2>6. \A m, n \in others : m # n => <<m, n>> \in Before \/ <<n, m>> \in Before
      BY <2>3, <2>4, MetBeforeTotal
    <2>7. \A a, b, c \in others :
            <<a, b>> \in Before /\ <<b, c>> \in Before => <<a, c>> \in Before
      <3> TAKE a, b, c \in others
      <3>1. MetBefore(nodes, a, b) /\ MetBefore(nodes, b, c) => MetBefore(nodes, a, c)
        BY <2>3, MetBeforeTransitive
      <3>2. QED
        BY <2>4, <3>1
    <2>8. first = {n \in others : Rank(others, Before, n) < room}
      <3>1. \A n \in others : Prior(n) = {m \in others : <<m, n>> \in Before}
        BY <2>4
      <3>2. \A n \in others : Cardinality(Prior(n)) = Rank(others, Before, n)
        BY <3>1 DEF Rank
      <3> HIDE DEF Prior, Before, others
      <3>3. QED
        BY <3>2
    <2> HIDE DEF Before, others, room
    <2>9. Cardinality(first) = room
      <3>1. Cardinality({n \in others : Rank(others, Before, n) < room}) = room
        BY <1>2, <2>2, <2>5, <2>6, <2>7, Foremost
      <3> HIDE DEF first
      <3>2. QED
        BY <2>8, <3>1
    <2>10. IsFiniteSet(first) /\ path \cap first = {}
      <3>1. first \in SUBSET others
        OBVIOUS
      <3>2. IsFiniteSet(first)
        BY <1>2, <3>1, FS_Subset
      <3>3. QED
        BY <3>1, <3>2 DEF others
    <2>11. Cardinality(path \cup first) = Cardinality(path) + Cardinality(first)
      <3> HIDE DEF first, path
      <3>1. Cardinality(path \cup first)
              = Cardinality(path) + Cardinality(first) - Cardinality(path \cap first)
        BY <1>2, <2>10, FS_Union
      <3>2. Cardinality(path \cap first) = 0
        BY <2>10, FS_EmptySet
      <3>3. Cardinality(first) \in Nat
        BY <2>10, FS_CardinalityType
      <3>4. QED
        BY <1>3, <3>1, <3>2, <3>3
    <2>12. QED
      BY <1>1, <1>3, <2>1, <2>9, <2>11 DEF room
  <1>10. QED
    BY <1>8, <1>9

-----------------------------------------------------------------------------
(* The inductive invariant: ids grow, so an operation follows an older one *)

GraphShape ==
  /\ DOMAIN graph = {"initial", "current", "head", "nodes", "preferred"}
  /\ nextNode \in Nat \ {0}
  /\ \A n \in DOMAIN graph.nodes : n < nextNode

GraphJoins ==
  /\ Descending(graph.nodes) /\ Joins(graph.nodes, graph.initial)
  /\ graph.head \in DOMAIN graph.nodes \cup {None}
  /\ graph.current = IF graph.head = None THEN graph.initial ELSE graph.nodes[graph.head].after

GraphRemembers ==
  \A p \in DOMAIN graph.preferred : graph.preferred[p] \in Children(graph.nodes, p)

GraphIInv == GraphShape /\ GraphJoins /\ GraphRemembers

(* A new history is empty.                                                 *)
LEMMA GraphInitIInv == GraphInit => GraphIInv
  <1> SUFFICES ASSUME GraphInit PROVE GraphIInv
    OBVIOUS
  <1>1. /\ DOMAIN graph = {"initial", "current", "head", "nodes", "preferred"}
        /\ DOMAIN graph.nodes = {} /\ DOMAIN graph.preferred = {} /\ graph.head = None
        /\ graph.current = graph.initial /\ nextNode = 1
    BY DEF GraphInit, NewHistory, EmptyMap
  <1>2. Descending(graph.nodes)
    BY <1>1, FS_EmptySet DEF Descending
  <1>3. QED
    BY <1>1, <1>2 DEF GraphIInv, GraphShape, GraphJoins, GraphRemembers, Joins

(* An appended operation follows the cursor's, which is older.             *)
LEMMA GraphAppendIInv ==
  ASSUME GraphIInv, NEW r \in GraphRoots, AppendOperation(r)
  PROVE  GraphIInv'
  <1> DEFINE node == [parent |-> graph.head, before |-> graph.current, after |-> r]
  <1>1. /\ nextNode \in Nat \ {0} /\ nextNode' = nextNode + 1
        /\ graph' = AppendNode(graph, nextNode, node) /\ nextNode \notin DOMAIN graph.nodes
    BY DEF AppendOperation, CanAppendNode, GraphIInv, GraphShape
  <1>2. /\ DOMAIN graph' = {"initial", "current", "head", "nodes", "preferred"}
        /\ graph'.initial = graph.initial /\ graph'.current = r /\ graph'.head = nextNode
        /\ graph'.nodes = With(graph.nodes, nextNode, node)
        /\ graph'.preferred = With(graph.preferred, graph.head, nextNode)
    BY <1>1 DEF AppendNode, GraphIInv, GraphShape
  <1> HIDE DEF node
  <1>3. /\ DOMAIN graph'.nodes = DOMAIN graph.nodes \cup {nextNode} /\ graph'.nodes[nextNode] = node
        /\ \A n \in DOMAIN graph.nodes : graph'.nodes[n] = graph.nodes[n]
    BY <1>1, <1>2 DEF With
  <1>4. /\ node.parent = graph.head /\ node.before = graph.current /\ node.after = r
        /\ {"parent", "before", "after"} \subseteq DOMAIN node
    BY DEF node
  <1>5. GraphShape'
    <2>1. \A n \in DOMAIN graph.nodes : n \in Nat /\ n < nextNode
      BY DEF GraphIInv, GraphShape, GraphJoins, Descending
    <2>2. QED
      BY <1>1, <1>2, <1>3, <2>1 DEF GraphShape
  <1>6. Descending(graph'.nodes)
    <2>1. IsFiniteSet(DOMAIN graph'.nodes)
      BY <1>3, FS_AddElement DEF GraphIInv, GraphJoins, Descending
    <2>2. ASSUME NEW n \in DOMAIN graph'.nodes
          PROVE  /\ n \in Nat \ {0}
                 /\ {"parent", "before", "after"} \subseteq DOMAIN graph'.nodes[n]
                 /\ graph'.nodes[n].parent # None =>
                      graph'.nodes[n].parent \in DOMAIN graph'.nodes /\ graph'.nodes[n].parent < n
      <3>1. CASE n = nextNode
        BY <1>1, <1>3, <1>4, <3>1 DEF GraphIInv, GraphShape, GraphJoins
      <3>2. CASE n # nextNode
        BY <1>3, <3>2 DEF GraphIInv, GraphJoins, Descending
      <3>3. QED
        BY <3>1, <3>2
    <2>3. QED
      BY <2>1, <2>2 DEF Descending
  <1>7. Joins(graph'.nodes, graph'.initial)
    <2>1. ASSUME NEW n \in DOMAIN graph'.nodes
          PROVE  IF graph'.nodes[n].parent = None THEN graph'.nodes[n].before = graph'.initial
                 ELSE graph'.nodes[graph'.nodes[n].parent].after = graph'.nodes[n].before
      <3>1. CASE n = nextNode
        BY <1>2, <1>3, <1>4, <3>1 DEF GraphIInv, GraphJoins
      <3>2. CASE n # nextNode
        <4>1. n \in DOMAIN graph.nodes /\ graph'.nodes[n] = graph.nodes[n]
          BY <1>3, <3>2
        <4>2. graph.nodes[n].parent # None => graph.nodes[n].parent \in DOMAIN graph.nodes
          BY <4>1 DEF GraphIInv, GraphJoins, Descending
        <4>3. QED
          BY <1>2, <1>3, <4>1, <4>2 DEF GraphIInv, GraphJoins, Joins
      <3>3. QED
        BY <3>1, <3>2
    <2>2. QED
      BY <2>1 DEF Joins
  <1>8. GraphJoins'
    BY <1>1, <1>2, <1>3, <1>4, <1>6, <1>7 DEF GraphJoins
  <1>9. GraphRemembers'
    <2>1. \A p \in DOMAIN graph.preferred : graph.preferred[p] \in DOMAIN graph.nodes
                                        /\ graph.nodes[graph.preferred[p]].parent = p
      BY DEF GraphIInv, GraphRemembers, Children
    <2>2. ASSUME NEW p \in DOMAIN graph'.preferred
          PROVE  graph'.preferred[p] \in DOMAIN graph'.nodes /\ graph'.nodes[graph'.preferred[p]].parent = p
      <3>1. CASE p = graph.head
        <4>1. graph'.preferred[p] = nextNode
          BY <1>2, <3>1 DEF With
        <4>2. QED
          BY <1>3, <1>4, <3>1, <4>1
      <3>2. CASE p # graph.head
        <4>1. p \in DOMAIN graph.preferred /\ graph'.preferred[p] = graph.preferred[p]
          BY <1>2, <3>2 DEF With
        <4>2. QED
          BY <1>3, <2>1, <4>1
      <3>3. QED
        BY <3>1, <3>2
    <2>3. QED
      BY <2>2 DEF GraphRemembers, Children
  <1>10. QED
    BY <1>5, <1>8, <1>9 DEF GraphIInv

(* A move along an operation, remembered as the choice to redo.            *)
LEMMA GraphMoveIInv ==
  ASSUME GraphIInv, UNCHANGED nextNode, NEW n \in DOMAIN graph.nodes,
         DOMAIN graph' = DOMAIN graph, graph'.initial = graph.initial, graph'.nodes = graph.nodes,
         graph'.preferred = With(graph.preferred, graph.nodes[n].parent, n),
         \/ graph'.head = n /\ graph'.current = graph.nodes[n].after
         \/ graph'.head = graph.nodes[n].parent /\ graph'.current = graph.nodes[n].before
  PROVE  GraphIInv'
  <1>1. GraphShape'
    BY DEF GraphIInv, GraphShape
  <1>2. graph.nodes[n].parent \in DOMAIN graph.nodes \cup {None} /\ n # None
    BY DEF GraphIInv, GraphJoins, Descending
  <1>3. graph.nodes[n].before = IF graph.nodes[n].parent = None THEN graph.initial
                            ELSE graph.nodes[graph.nodes[n].parent].after
    BY DEF GraphIInv, GraphJoins, Joins
  <1>4. GraphJoins'
    BY <1>2, <1>3 DEF GraphIInv, GraphJoins
  <1>5. GraphRemembers'
    BY DEF GraphIInv, GraphRemembers, Children, With
  <1>6. QED
    BY <1>1, <1>4, <1>5 DEF GraphIInv

(* Undo and redo move along an operation.                                  *)
LEMMA GraphCursorIInv ==
  GraphIInv /\ (UndoOperation \/ (\E n \in NodeIds : RedoBranch(n)) \/ RedoPreferred) => GraphIInv'
  <1> SUFFICES ASSUME GraphIInv, UndoOperation \/ (\E n \in NodeIds : RedoBranch(n)) \/ RedoPreferred
               PROVE  GraphIInv'
    OBVIOUS
  <1>1. CASE UndoOperation
    <2>1. graph.head \in DOMAIN graph.nodes /\ graph' = Undo(graph) /\ UNCHANGED nextNode
      BY <1>1 DEF UndoOperation, CanUndo, GraphIInv, GraphJoins
    <2>2. /\ DOMAIN graph' = DOMAIN graph /\ graph'.initial = graph.initial /\ graph'.nodes = graph.nodes
          /\ graph'.preferred = With(graph.preferred, graph.nodes[graph.head].parent, graph.head)
          /\ graph'.head = graph.nodes[graph.head].parent /\ graph'.current = graph.nodes[graph.head].before
      BY <2>1 DEF Undo, GraphIInv, GraphShape
    <2>3. QED
      BY <2>1, <2>2, GraphMoveIInv
  <1>2. ASSUME NEW n, CanRedoTo(graph, n), graph' = RedoTo(graph, n), UNCHANGED nextNode PROVE GraphIInv'
    <2>1. n \in DOMAIN graph.nodes /\ graph.nodes[n].parent = graph.head
      BY <1>2 DEF CanRedoTo, Children
    <2>2. /\ DOMAIN graph' = DOMAIN graph /\ graph'.initial = graph.initial /\ graph'.nodes = graph.nodes
          /\ graph'.preferred = With(graph.preferred, graph.nodes[n].parent, n)
          /\ graph'.head = n /\ graph'.current = graph.nodes[n].after
      BY <1>2, <2>1 DEF RedoTo, GraphIInv, GraphShape
    <2>3. QED
      BY <1>2, <2>1, <2>2, GraphMoveIInv
  <1>3. QED
    BY <1>1, <1>2 DEF RedoBranch, RedoPreferred

(* Limiting the graph keeps it a graph, with the bottom where the dropped  *)
(* operation had led, and forgets the choices that are no children now.    *)
LEMMA GraphLimitIInv == GraphIInv /\ LimitOperations => GraphIInv'
  <1> SUFFICES ASSUME GraphIInv, LimitOperations PROVE GraphIInv'
    OBVIOUS
  <1> DEFINE kept == RetainedNodes(graph.nodes, graph.head)
             keep == Retained(graph.nodes, graph.head)
             base == Baseline(graph.nodes, graph.head)
  <1>1. graph' = EnforceLimit(graph) /\ UNCHANGED nextNode /\ Overfull(graph.nodes)
    BY DEF LimitOperations
  <1>2. /\ DOMAIN graph' = DOMAIN graph
        /\ graph'.initial = RetainedInitial(graph.nodes, graph.head, graph.initial)
        /\ graph'.nodes = kept /\ graph'.head = graph.head /\ graph'.current = graph.current
        /\ graph'.preferred = Keeping(graph.preferred,
                            {p \in DOMAIN graph.preferred :
                               graph.preferred[p] \in Children(kept, p)})
    BY <1>1 DEF EnforceLimit, GraphIInv, GraphShape
  <1>3. /\ DOMAIN kept = keep /\ keep \subseteq DOMAIN graph.nodes
        /\ base # None => keep = Path(graph.nodes, graph.head)
        /\ \A n \in keep : kept[n].after = graph.nodes[n].after
    BY RetainedShape DEF GraphIInv, GraphJoins
  <1>4. Descending(kept) /\ graph.head \in keep \cup {None}
    BY RetainedDescends DEF GraphIInv, GraphJoins
  <1>5. Joins(kept, graph'.initial)
    BY <1>2, RetainedJoins DEF GraphIInv, GraphJoins
  <1>6. graph.head = None => base = None
    <2> SUFFICES ASSUME graph.head = None PROVE base = None
      OBVIOUS
    <2>1. /\ base = Ancestor(graph.nodes, graph.head)[HistoryLimit]
          /\ HistoryLimit \in 1..Size(graph.nodes) - 1 /\ Size(graph.nodes) \in Nat
      BY <1>1, PathShape DEF GraphIInv, GraphJoins
    <2>2. HistoryLimit \in 0..Size(graph.nodes)
      BY <2>1
    <2>3. QED
      BY <2>1, <2>2, AncestorOfBottom DEF GraphIInv, GraphJoins
  <1> HIDE DEF kept, keep, base
  <1>7. graph.head = None => graph'.initial = graph.initial
    BY <1>2, <1>6 DEF RetainedInitial, base
  <1>8. GraphJoins'
    BY <1>2, <1>3, <1>4, <1>5, <1>7 DEF GraphIInv, GraphJoins
  <1>9. GraphShape'
    BY <1>1, <1>2, <1>3 DEF GraphIInv, GraphShape
  <1>10. GraphRemembers'
    BY <1>2 DEF GraphRemembers, Keeping
  <1>11. QED
    BY <1>8, <1>9, <1>10 DEF GraphIInv

(* Every step keeps the invariant.                                         *)
LEMMA GraphStepIInv == GraphIInv /\ [GraphNext]_graphVars => GraphIInv'
  <1> SUFFICES ASSUME GraphIInv, [GraphNext]_graphVars PROVE GraphIInv'
    OBVIOUS
  <1>1. CASE \E r \in GraphRoots : AppendOperation(r)
    BY <1>1, GraphAppendIInv
  <1>2. CASE UndoOperation \/ (\E n \in NodeIds : RedoBranch(n)) \/ RedoPreferred
    BY <1>2, GraphCursorIInv
  <1>3. CASE LimitOperations
    BY <1>3, GraphLimitIInv
  <1>4. CASE UNCHANGED graphVars
    BY <1>4 DEF graphVars, GraphIInv, GraphShape, GraphJoins, GraphRemembers
  <1>5. QED
    BY <1>1, <1>2, <1>3, <1>4 DEF GraphNext

(* Operations follow older ones, join and are remembered as children       *)
(* throughout.                                                             *)
THEOREM GraphInvariance == GraphSpec => []GraphIInv
  BY GraphInitIInv, GraphStepIInv, PTL DEF GraphSpec

-----------------------------------------------------------------------------
(* Results *)

(* Whatever was appended, walked and dropped, the graph is one that        *)
(* from_persisted accepts, the current root is the cursor's and every      *)
(* remembered redo choice is a child.                                      *)
THEOREM GraphAlwaysLoads == GraphSpec => []GraphStaysLoadable
  <1>1. GraphIInv => GraphStaysLoadable
    BY JoinedLoads DEF GraphIInv, GraphJoins, GraphRemembers, GraphStaysLoadable
  <1>2. QED
    BY <1>1, GraphInvariance, PTL

(* Limiting a history, wherever its cursor stands, changes neither the     *)
(* artwork on screen nor what undo reaches within the limit.               *)
THEOREM UndoIsKept == GraphSpec => []UndoSurvivesRetention
  <1>1. GraphIInv => UndoSurvivesRetention
    <2> SUFFICES ASSUME GraphIInv, Overfull(graph.nodes) PROVE UndoSurvivesRetention
      BY DEF UndoSurvivesRetention
    <2> DEFINE kept == EnforceLimit(graph)
    <2>1. /\ kept.current = graph.current /\ kept.head = graph.head
          /\ kept.nodes = RetainedNodes(graph.nodes, graph.head)
          /\ kept.initial = RetainedInitial(graph.nodes, graph.head, graph.initial)
      BY DEF EnforceLimit, GraphIInv, GraphShape
    <2>2. LET depth == Depth(graph.nodes, graph.head)
              reach == IF depth > HistoryLimit THEN HistoryLimit ELSE depth
          IN /\ Depth(kept.nodes, graph.head) = reach
             /\ \A k \in 0..reach - 1 :
                  Ancestor(kept.nodes, graph.head)[k] = Ancestor(graph.nodes, graph.head)[k]
             /\ reach < depth =>
                  kept.initial = graph.nodes[Ancestor(graph.nodes, graph.head)[reach]].after
      BY <2>1, RetainedUndo DEF GraphIInv, GraphJoins
    <2> HIDE DEF kept
    <2>3. QED
      BY <2>1, <2>2 DEF UndoSurvivesRetention, kept
  <1>2. QED
    BY <1>1, GraphInvariance, PTL

-----------------------------------------------------------------------------
(* The project file *)

USE DEF None, InitialSnapshot, NoCursor, NoJob

-----------------------------------------------------------------------------
(* What a transaction leaves alone *)

Fields == DOMAIN NewProject

(* e is d with nothing but the given fields changed. *)
Changes(d, e, fields) ==
  DOMAIN e = Fields /\ \A f \in Fields \ fields : e[f] = d[f]

(* capture_snapshot_layers touches only the layer records and the schema.  *)
LEMMA CaptureLayersChanges ==
  ASSUME NEW d, DOMAIN d = Fields, NEW b
  PROVE  /\ Changes(d, CaptureLayers(d, b), {"schema", "tree", "treeOf"})
         /\ CaptureLayers(d, b).tree = IF b.tree = Keep THEN d.tree ELSE b.tree
  BY DEF Changes, CaptureLayers, LayersCaptured, Fields, NewProject

(* capture_snapshot_canvas touches only the page records and the schema.   *)
LEMMA CaptureCanvasChanges ==
  ASSUME NEW d, DOMAIN d = Fields, NEW b
  PROVE  /\ Changes(d, CaptureCanvas(d, b), {"schema", "page", "pageOf"})
         /\ CaptureCanvas(d, b).page = IF b.page = Keep THEN d.page ELSE b.page
  BY DEF Changes, CaptureCanvas, Fields, NewProject

(* capture_snapshot_animation touches only the timeline records.           *)
LEMMA CaptureAnimationChanges ==
  ASSUME NEW d, DOMAIN d = Fields, NEW b, b.timeline \in AllTimelines \cup {Keep}
  PROVE  /\ Changes(d, CaptureAnimation(d, b), {"timeline", "timelineOf"})
         /\ ShownTimeline(CaptureAnimation(d, b).timeline) =
              IF b.timeline = Keep THEN ShownTimeline(d.timeline) ELSE b.timeline
  <1>1. Changes(d, CaptureAnimation(d, b), {"timeline", "timelineOf"})
    BY DEF Changes, CaptureAnimation, Fields, NewProject
  <1>2. CaptureAnimation(d, b).timeline =
          IF d.timeline = Absent /\ b.timeline \in {Keep, NoTimeline} THEN d.timeline
          ELSE IF b.timeline = Keep THEN d.timeline ELSE b.timeline
    BY DEF CaptureAnimation, Fields, NewProject, AnimationEnabled
  <1>3. QED
    BY <1>1, <1>2, ProjectAssumption DEF ShownTimeline, AllTimelines

(* The three captures of a commit leave history, cursors and content alone *)
(* and set the current metadata to what the batch asked for.               *)
LEMMA MetadataChanges ==
  ASSUME NEW d, DOMAIN d = Fields, NEW b, b.timeline \in AllTimelines \cup {Keep}
  PROVE  LET m == CaptureMetadata(d, b)
         IN /\ Changes(d, m, {"schema", "tree", "treeOf", "page", "pageOf",
                              "timeline", "timelineOf"})
            /\ m.tree = IF b.tree = Keep THEN d.tree ELSE b.tree
            /\ m.page = IF b.page = Keep THEN d.page ELSE b.page
            /\ ShownTimeline(m.timeline) =
                 IF b.timeline = Keep THEN ShownTimeline(d.timeline) ELSE b.timeline
  <1> DEFINE l == CaptureLayers(d, b)
             c == CaptureCanvas(l, b)
             a == CaptureAnimation(c, b)
  <1>1. Changes(d, l, {"schema", "tree", "treeOf"})
        /\ l.tree = IF b.tree = Keep THEN d.tree ELSE b.tree
    BY CaptureLayersChanges
  <1>2. Changes(l, c, {"schema", "page", "pageOf"})
        /\ c.page = IF b.page = Keep THEN l.page ELSE b.page
    <2>1. DOMAIN l = Fields
      BY <1>1 DEF Changes
    <2>2. QED
      BY <2>1, CaptureCanvasChanges
  <1>3. Changes(c, a, {"timeline", "timelineOf"})
        /\ ShownTimeline(a.timeline) =
             IF b.timeline = Keep THEN ShownTimeline(c.timeline) ELSE b.timeline
    <2>1. DOMAIN c = Fields
      BY <1>2 DEF Changes
    <2>2. QED
      BY <2>1, CaptureAnimationChanges
  <1> HIDE DEF l, c, a
  <1>4. a = CaptureMetadata(d, b)
    BY DEF a, c, l, CaptureMetadata
  <1>5. QED
    BY <1>1, <1>2, <1>3, <1>4 DEF Changes, Fields, NewProject

(* The rows of a batch go into five tables only.                           *)
LEMMA InsertBatchChanges ==
  ASSUME NEW d, DOMAIN d = Fields, NEW b
  PROVE  LET i == InsertBatch(d, b)
         IN /\ Changes(d, i, {"strokes", "history", "snapshots", "cursor", "initial"})
            /\ i.history = With(d.history, b.id, b.node)
            /\ i.snapshots = With(d.snapshots, b.id,
                 [head |-> b.id, before |-> b.node.before, after |-> b.node.after,
                  stroke |-> b.stroke])
            /\ i.cursor = Cursor(b.id, b.id, b.node.after)
            /\ i.initial = IF b.node.parent = None /\ d.initial = NoCursor
                           THEN Cursor(FirstSnapshot(b), None, b.node.before)
                           ELSE d.initial
            /\ i.strokes = IF b.stroke = Absent THEN d.strokes
                           ELSE d.strokes \cup {b.stroke}
  BY DEF Changes, InsertBatch, Fields, NewProject

(* Everything a commit writes before retention: its history rows, and its  *)
(* metadata as requested.                                                  *)
LEMMA WrittenChanges ==
  ASSUME NEW d, DOMAIN d = Fields, NEW b, b.timeline \in AllTimelines \cup {Keep}
  PROVE  LET w == Written(d, b)
         IN /\ DOMAIN w = Fields
            /\ w.history = With(d.history, b.id, b.node)
            /\ w.snapshots = With(d.snapshots, b.id,
                 [head |-> b.id, before |-> b.node.before, after |-> b.node.after,
                  stroke |-> b.stroke])
            /\ w.cursor = Cursor(b.id, b.id, b.node.after)
            /\ w.initial = IF b.node.parent = None /\ d.initial = NoCursor
                           THEN Cursor(FirstSnapshot(b), None, b.node.before)
                           ELSE d.initial
            /\ w.strokes = IF b.stroke = Absent THEN d.strokes
                           ELSE d.strokes \cup {b.stroke}
            /\ w.tree = IF b.tree = Keep THEN d.tree ELSE b.tree
            /\ w.page = IF b.page = Keep THEN d.page ELSE b.page
            /\ ShownTimeline(w.timeline) =
                 IF b.timeline = Keep THEN ShownTimeline(d.timeline) ELSE b.timeline
  <1> DEFINE m == CaptureMetadata(d, b)
             k == MarkSelection(m, b)
             stored == {b.node.before, b.node.after}
             o == StoreObjects(k, stored)
             r == StoreRoots(o, stored)
  <1>1. Changes(d, m, {"schema", "tree", "treeOf", "page", "pageOf",
                       "timeline", "timelineOf"})
        /\ m.tree = (IF b.tree = Keep THEN d.tree ELSE b.tree)
        /\ m.page = (IF b.page = Keep THEN d.page ELSE b.page)
        /\ ShownTimeline(m.timeline) =
             (IF b.timeline = Keep THEN ShownTimeline(d.timeline) ELSE b.timeline)
    BY MetadataChanges
  <1> HIDE DEF m
  <1>2. Changes(m, k, {"schema"})
    BY <1>1 DEF Changes, MarkSelection, Fields, NewProject
  <1> HIDE DEF k
  <1>3. Changes(k, o, {"objects"})
    BY <1>2 DEF Changes, StoreObjects, Fields, NewProject
  <1> HIDE DEF o
  <1>4. Changes(o, r, {"roots", "refs"})
    BY <1>3 DEF Changes, StoreRoots, Fields, NewProject
  <1> HIDE DEF r
  <1>5. Changes(d, r, {"schema", "tree", "treeOf", "page", "pageOf", "timeline",
                       "timelineOf", "objects", "roots", "refs"})
        /\ r.tree = m.tree /\ r.page = m.page /\ r.timeline = m.timeline
    BY <1>1, <1>2, <1>3, <1>4 DEF Changes, Fields, NewProject
  <1>6. Written(d, b) = InsertBatch(r, b)
    BY DEF Written, r, o, k, m, stored
  <1>7. DOMAIN r = Fields
    BY <1>5 DEF Changes
  <1>8. QED
    BY <1>1, <1>5, <1>6, <1>7, InsertBatchChanges DEF Changes, Fields, NewProject

(* What retain_history may touch, and what it makes of the history table.  *)
LEMMA RetainHistoryChanges ==
  ASSUME NEW w, DOMAIN w = Fields, Overfull(w.history)
  PROVE  LET c == RetainHistory(w)
         IN /\ Changes(w, c, {"initial", "history", "snapshots", "strokes", "treeOf",
                             "pageOf", "timelineOf", "roots", "refs", "objects"})
            /\ c.initial = KeptInitial(w)
            /\ c.history = RetainedNodes(w.history, CurrentCursor(w).head)
            /\ c.snapshots = Keeping(w.snapshots, KeptSnapshots(w))
            /\ c.strokes \subseteq w.strokes
            /\ c.treeOf = Keeping(w.treeOf, RetainedRecords(w))
            /\ c.pageOf = Keeping(w.pageOf, RetainedRecords(w))
            /\ c.timelineOf = Keeping(w.timelineOf, RetainedRecords(w))
            /\ c.roots \subseteq w.roots /\ c.objects \subseteq w.objects
            /\ DOMAIN c.refs \subseteq DOMAIN w.refs
  <1> DEFINE heads == Keeping(w.snapshots, KeptSnapshots(w))
             k == [w EXCEPT
                  !.initial    = KeptInitial(w),
                  !.history    = RetainedNodes(w.history, CurrentCursor(w).head),
                  !.snapshots  = heads,
                  !.strokes    = @ \cap {heads[s].stroke : s \in DOMAIN heads},
                  !.treeOf     = Keeping(@, RetainedRecords(w)),
                  !.pageOf     = Keeping(@, RetainedRecords(w)),
                  !.timelineOf = Keeping(@, RetainedRecords(w))]
             c == ReclaimRoots(k, EvictedRoots(w), LiveRoots(w))
  <1>1. /\ Changes(w, k, {"initial", "history", "snapshots", "strokes", "treeOf",
                          "pageOf", "timelineOf"})
        /\ k.initial = KeptInitial(w)
        /\ k.history = RetainedNodes(w.history, CurrentCursor(w).head)
        /\ k.snapshots = Keeping(w.snapshots, KeptSnapshots(w))
        /\ k.strokes \subseteq w.strokes
        /\ k.treeOf = Keeping(w.treeOf, RetainedRecords(w))
        /\ k.pageOf = Keeping(w.pageOf, RetainedRecords(w))
        /\ k.timelineOf = Keeping(w.timelineOf, RetainedRecords(w))
    BY DEF Changes, Fields, NewProject
  <1>2. RetainHistory(w) = c
    BY DEF RetainHistory
  <1> HIDE DEF k
  <1>3. Changes(k, c, {"roots", "refs", "objects"})
        /\ c.roots \subseteq k.roots /\ c.objects \subseteq k.objects
        /\ DOMAIN c.refs \subseteq DOMAIN k.refs
    BY <1>1 DEF Changes, ReclaimRoots, Fields, NewProject
  <1> HIDE DEF c
  <1>4. QED
    BY <1>1, <1>2, <1>3 DEF Changes, Fields, NewProject

-----------------------------------------------------------------------------
(* What the tables of one file have to do with each other *)

(* A snapshot is the operation of the same id, a stored cursor stands on   *)
(* an operation, and the bottom is recorded with the first one.            *)
TablesAgree(d) ==
  /\ DOMAIN d.snapshots = DOMAIN d.history
  /\ \A s \in DOMAIN d.snapshots :
       d.snapshots[s].head = s /\ d.snapshots[s].after = d.history[s].after
  /\ d.cursor # NoCursor => d.cursor.head # None /\ d.initial # NoCursor
  /\ d.initial # NoCursor => d.initial.head = None
  /\ d.initial = NoCursor => DOMAIN d.history = {}

(* When every node has one snapshot of its own, SnapshotOf finds it.       *)
LEMMA SnapshotOfNode ==
  ASSUME NEW d, TablesAgree(d), NEW n \in DOMAIN d.history
  PROVE  SnapshotOf(d, n) = n
  BY DEF TablesAgree, SnapshotOf

(* Retention keeps a subset of the nodes, and of each the two roots.       *)
LEMMA RetainedNodesTyped ==
  ASSUME NEW nodes, MapsInto(nodes, Ids, Nodes), NEW head
  PROVE  /\ Retained(nodes, head) \subseteq DOMAIN nodes
         /\ DOMAIN RetainedNodes(nodes, head) = Retained(nodes, head)
         /\ MapsInto(RetainedNodes(nodes, head), Ids, Nodes)
         /\ \A n \in Retained(nodes, head) :
              RetainedNodes(nodes, head)[n].after = nodes[n].after
         /\ ~Overfull(nodes) => RetainedNodes(nodes, head) = nodes
                                 /\ Baseline(nodes, head) = None
                                 /\ Retained(nodes, head) = DOMAIN nodes
  <1>1. Retained(nodes, head) \subseteq DOMAIN nodes
    BY DEF Retained
  <1>2. ~Overfull(nodes) => Baseline(nodes, head) = None /\ Retained(nodes, head) = DOMAIN nodes
    BY DEF Retained, Baseline
  <1>3. \A n \in DOMAIN nodes : nodes[n] \in Nodes /\ n \in Ids
    BY DEF MapsInto
  <1>4. ASSUME NEW n \in DOMAIN nodes
        PROVE  /\ [nodes[n] EXCEPT !.parent = None] \in Nodes
               /\ [nodes[n] EXCEPT !.parent = None].after = nodes[n].after
    BY <1>3 DEF Nodes, Heads
  <1>5. nodes = [n \in DOMAIN nodes |-> nodes[n]]
    BY DEF MapsInto
  <1>6. QED
    BY <1>1, <1>2, <1>3, <1>4, <1>5 DEF RetainedNodes, MapsInto

(* The file after a commit that it accepted. *)
LEMMA CommitKeepsTables ==
  ASSUME NEW d, DbTypeOK(d), TablesAgree(d), NEW b \in Batches, CommitAccepted(d, b)
  PROVE  LET w == Written(d, b)
             c == Commit(d, b)
             base == Baseline(w.history, b.id)
         IN /\ DOMAIN c = Fields
            /\ TablesAgree(c) /\ TablesAgree(w)
            /\ MapsInto(w.history, Ids, Nodes) /\ MapsInto(w.snapshots, Ids, Snapshots)
            /\ c.history = RetainedNodes(w.history, b.id)
            /\ c.snapshots = Keeping(w.snapshots, DOMAIN c.history)
            /\ c.cursor = Cursor(b.id, b.id, b.node.after)
            /\ w.initial \in Cursors
            /\ base = None => c.initial = w.initial
            /\ base # None => base \in DOMAIN w.history
                              /\ c.initial = Cursor(base, None, w.snapshots[base].after)
            /\ c.initial.root = RetainedInitial(w.history, b.id, w.initial.root)
  <1> DEFINE w == Written(d, b)
             c == Commit(d, b)
             base == Baseline(w.history, b.id)
             row == [head |-> b.id, before |-> b.node.before, after |-> b.node.after,
                     stroke |-> b.stroke]
  <1>1. /\ DOMAIN w = Fields
        /\ w.history = With(d.history, b.id, b.node)
        /\ w.snapshots = With(d.snapshots, b.id, row)
        /\ w.cursor = Cursor(b.id, b.id, b.node.after)
        /\ w.initial = IF b.node.parent = None /\ d.initial = NoCursor
                       THEN Cursor(FirstSnapshot(b), None, b.node.before)
                       ELSE d.initial
    BY WrittenChanges DEF DbTypeOK, Fields, Batches
  <1>2. b.id \in Ids /\ b.node \in Nodes /\ b.node.after \in Roots /\ b.node.before \in Roots
        /\ FirstSnapshot(b) \in Heads /\ row \in Snapshots
    BY SessionAssumption DEF Batches, Nodes, FirstSnapshot, Strokes, Heads, Snapshots
  <1>3. w.cursor # NoCursor /\ CurrentCursor(w) = w.cursor /\ CurrentCursor(w).head = b.id
    BY <1>1, <1>2, SessionAssumption DEF CurrentCursor, Cursor, Cursors, Heads
  <1>4. w.initial \in Cursors /\ w.initial # NoCursor
    <2>1. CASE CurrentCursor(d) = NoCursor
      <3>1. d.initial = NoCursor /\ b.node.parent = None
        BY <2>1 DEF CurrentCursor, CommitAccepted, LineageHolds
      <3>2. QED
        BY <1>1, <1>2, <3>1, SessionAssumption DEF Cursor, Cursors, Heads
    <2>2. CASE CurrentCursor(d) # NoCursor
      <3>1. d.initial # NoCursor
        BY <2>2 DEF CurrentCursor, TablesAgree
      <3>2. QED
        BY <1>1, <3>1, SessionAssumption DEF DbTypeOK
    <2>3. QED
      BY <2>1, <2>2
  <1>5. MapsInto(w.history, Ids, Nodes) /\ MapsInto(w.snapshots, Ids, Snapshots)
    BY <1>1, <1>2 DEF DbTypeOK, MapsInto, With
  <1>6. TablesAgree(w)
    <2>1. w.initial.head = None
      BY <1>1, <1>4 DEF TablesAgree, Cursor
    <2>2. w.cursor.head # None
      BY <1>1, <1>2 DEF Cursor, Ids
    <2>3. QED
      BY <1>1, <1>4, <2>1, <2>2 DEF TablesAgree, With
  <1>7. CanRetain(w)
    BY DEF CommitAccepted
  <1>8. KeptNodes(w) = Retained(w.history, b.id)
    BY <1>3 DEF KeptNodes
  <1>9. KeptSnapshots(w) = Retained(w.history, b.id)
    BY <1>5, <1>6, <1>8, RetainedNodesTyped DEF KeptSnapshots, TablesAgree
  <1> HIDE DEF w
  <1>10. CASE Overfull(w.history)
    <2>1. /\ DOMAIN c = Fields /\ c.cursor = w.cursor
          /\ c.initial = KeptInitial(w)
          /\ c.history = RetainedNodes(w.history, b.id)
          /\ c.snapshots = Keeping(w.snapshots, Retained(w.history, b.id))
      BY <1>1, <1>3, <1>9, <1>10, RetainHistoryChanges
      DEF Commit, w, Changes, Fields, NewProject
    <2>2. base # None => base \in DOMAIN w.history
      BY <1>3, <1>6, <1>7, <1>10 DEF CanRetain, TablesAgree
    <2>3. base # None => KeptInitial(w) = Cursor(base, None, w.snapshots[base].after)
      BY <1>3, <1>6, <2>2, SnapshotOfNode DEF KeptInitial
    <2>4. base = None => KeptInitial(w) = w.initial
      BY <1>3 DEF KeptInitial
    <2>5. KeptInitial(w).root = RetainedInitial(w.history, b.id, w.initial.root)
      <3>1. CASE base = None
        BY <2>4, <3>1 DEF RetainedInitial
      <3>2. CASE base # None
        BY <1>3, <1>7, <1>10, <3>2 DEF CanRetain
      <3>3. QED
        BY <3>1, <3>2
    <2>6. c.snapshots = Keeping(w.snapshots, DOMAIN c.history)
      BY <1>5, <2>1, RetainedNodesTyped
    <2>7. TablesAgree(c)
      <3>1. c.initial # NoCursor /\ c.initial.head = None
        <4>1. CASE base = None
          BY <1>4, <1>6, <2>1, <2>4, <4>1 DEF TablesAgree
        <4>2. CASE base # None
          <5>1. base \in Ids /\ w.snapshots[base].after \in Roots
            BY <1>5, <1>6, <2>2, <4>2 DEF MapsInto, TablesAgree, Snapshots
          <5>2. QED
            BY <2>1, <2>3, <4>2, <5>1, SessionAssumption DEF Cursor, Cursors, Heads
        <4>3. QED
          BY <4>1, <4>2
      <3>2. DOMAIN c.snapshots = DOMAIN c.history
        <4>1. DOMAIN c.history = Retained(w.history, b.id)
              /\ Retained(w.history, b.id) \subseteq DOMAIN w.history
          BY <1>5, <2>1, RetainedNodesTyped
        <4>2. DOMAIN w.snapshots = DOMAIN w.history
          BY <1>6 DEF TablesAgree
        <4>3. QED
          BY <2>1, <4>1, <4>2 DEF Keeping
      <3>3. \A s \in DOMAIN c.snapshots :
              c.snapshots[s].head = s /\ c.snapshots[s].after = c.history[s].after
        BY <1>5, <1>6, <2>1, RetainedNodesTyped DEF Keeping, TablesAgree
      <3>4. c.cursor.head # None
        BY <1>1, <1>2, <2>1 DEF Cursor, Ids
      <3>5. QED
        BY <3>1, <3>2, <3>3, <3>4 DEF TablesAgree
    <2>8. QED
      BY <1>1, <1>4, <1>5, <1>6, <2>1, <2>2, <2>3, <2>4, <2>5, <2>6, <2>7 DEF w
  <1>11. CASE ~Overfull(w.history)
    <2>1. c = w
      BY <1>11 DEF Commit, RetainHistory, w
    <2>2. base = None /\ RetainedNodes(w.history, b.id) = w.history
      BY <1>5, <1>11, RetainedNodesTyped
    <2>3. w.initial.root = RetainedInitial(w.history, b.id, w.initial.root)
      BY <2>2 DEF RetainedInitial
    <2>4. w.snapshots = Keeping(w.snapshots, DOMAIN w.history)
      BY <1>5, <1>6 DEF Keeping, TablesAgree, MapsInto
    <2>5. QED
      BY <1>1, <1>4, <1>5, <1>6, <2>1, <2>2, <2>3, <2>4 DEF w
  <1>12. QED
    BY <1>10, <1>11

-----------------------------------------------------------------------------
(* The session and the file, each by its own steps *)

(* The session as AcceptCommit leaves it, field by field. *)
LEMMA AcceptCommitFields ==
  ASSUME NEW s, SessionTypeOK(s), NEW b \in Batches
  PROVE  LET t     == AcceptCommit(s, b)
             nodes == With(s.history.nodes, b.id, b.node)
             base  == Baseline(nodes, b.id)
             at    == Cursor(b.id, b.id, b.node.after)
             all   == With(s.cursors, b.id, at)
         IN /\ DOMAIN t = DOMAIN NewSession
            /\ DOMAIN t.history = DOMAIN NewHistory(EmptyRoot)
            /\ t.snapshot = b.id /\ t.root = b.node.after /\ t.cursor = at
            /\ t.history.nodes = RetainedNodes(nodes, b.id)
            /\ t.history.initial = RetainedInitial(nodes, b.id, s.history.initial)
            /\ t.history.head = b.id /\ t.history.current = b.node.after
            /\ t.cursors = Keeping(IF base = None THEN all
                                   ELSE With(all, None, [all[base] EXCEPT !.head = None]),
                                   DOMAIN t.history.nodes \cup {None})
  <1> DEFINE h  == AppendNode(s.history, b.id, b.node)
             at == Cursor(b.id, b.id, b.node.after)
             m  == [s EXCEPT !.history  = h,
                             !.snapshot = b.id,
                             !.root     = b.node.after,
                             !.cursor   = at,
                             !.cursors  = With(@, b.id, at)]
             l  == EnforceLimit(h)
  <1>1. AcceptCommit(s, b) = LimitHistory(m)
    BY DEF AcceptCommit
  <1>2. /\ DOMAIN h = DOMAIN NewHistory(EmptyRoot)
        /\ h.nodes = With(s.history.nodes, b.id, b.node)
        /\ h.head = b.id /\ h.current = b.node.after /\ h.initial = s.history.initial
    BY DEF AppendNode, SessionTypeOK, NewHistory
  <1>3. /\ DOMAIN m = DOMAIN NewSession
        /\ m.history = h /\ m.snapshot = b.id /\ m.root = b.node.after /\ m.cursor = at
        /\ m.cursors = With(s.cursors, b.id, at)
    BY DEF SessionTypeOK, NewSession
  <1> HIDE DEF h, m
  <1>4. /\ DOMAIN l = DOMAIN NewHistory(EmptyRoot)
        /\ l.nodes = RetainedNodes(h.nodes, h.head)
        /\ l.initial = RetainedInitial(h.nodes, h.head, h.initial)
        /\ l.head = h.head /\ l.current = h.current
    BY <1>2 DEF EnforceLimit, NewHistory
  <1> HIDE DEF l, at
  <1>5. QED
    BY <1>1, <1>2, <1>3, <1>4 DEF LimitHistory, NewSession, at, l

(* What the file makes of a batch and what the session makes of it agree.  *)
LEMMA AcceptFollowsCommit ==
  ASSUME NEW d, DbTypeOK(d), TablesAgree(d),
         NEW s, SessionTypeOK(s), SameHistory(s, d), SameCursors(s, d),
         NEW b \in Batches, CommitAccepted(d, b),
         b.node.parent = s.history.head, b.node.before = s.root,
         b.stroke # Absent => b.stroke.parent = s.snapshot
  PROVE  /\ SameHistory(AcceptCommit(s, b), Commit(d, b))
         /\ SameCursors(AcceptCommit(s, b), Commit(d, b))
  <1> DEFINE w  == Written(d, b)
             c  == Commit(d, b)
             t  == AcceptCommit(s, b)
             at == Cursor(b.id, b.id, b.node.after)
             all == With(s.cursors, b.id, at)
             base == Baseline(w.history, b.id)
  <1>1. /\ DOMAIN c = Fields
        /\ TablesAgree(c) /\ TablesAgree(w)
        /\ MapsInto(w.history, Ids, Nodes) /\ MapsInto(w.snapshots, Ids, Snapshots)
        /\ c.history = RetainedNodes(w.history, b.id)
        /\ c.snapshots = Keeping(w.snapshots, DOMAIN c.history)
        /\ c.cursor = at
        /\ w.initial \in Cursors
        /\ base = None => c.initial = w.initial
        /\ base # None => base \in DOMAIN w.history
                          /\ c.initial = Cursor(base, None, w.snapshots[base].after)
        /\ c.initial.root = RetainedInitial(w.history, b.id, w.initial.root)
    BY CommitKeepsTables
  <1>2. /\ w.history = With(d.history, b.id, b.node)
        /\ w.snapshots = With(d.snapshots, b.id,
                 [head |-> b.id, before |-> b.node.before, after |-> b.node.after,
                  stroke |-> b.stroke])
        /\ w.initial = IF b.node.parent = None /\ d.initial = NoCursor
                       THEN Cursor(FirstSnapshot(b), None, b.node.before)
                       ELSE d.initial
    BY ZenonT(60), WrittenChanges DEF DbTypeOK, Fields, Batches
  <1>3. /\ t.snapshot = b.id /\ t.root = b.node.after /\ t.cursor = at
        /\ t.history.nodes = RetainedNodes(w.history, b.id)
        /\ t.history.initial = RetainedInitial(w.history, b.id, s.history.initial)
        /\ t.history.head = b.id /\ t.history.current = b.node.after
        /\ t.cursors = Keeping(IF base = None THEN all
                               ELSE With(all, None, [all[base] EXCEPT !.head = None]),
                               DOMAIN t.history.nodes \cup {None})
    <2>1. w.history = With(s.history.nodes, b.id, b.node)
      BY <1>2 DEF SameHistory
    <2> HIDE DEF w, all, t, at
    <2>2. LET nodes == With(s.history.nodes, b.id, b.node)
          IN /\ t.snapshot = b.id /\ t.root = b.node.after /\ t.cursor = at
             /\ t.history.nodes = RetainedNodes(nodes, b.id)
             /\ t.history.initial = RetainedInitial(nodes, b.id, s.history.initial)
             /\ t.history.head = b.id /\ t.history.current = b.node.after
             /\ t.cursors = Keeping(IF Baseline(nodes, b.id) = None THEN all
                                    ELSE With(all, None,
                                              [all[Baseline(nodes, b.id)] EXCEPT !.head = None]),
                                    DOMAIN t.history.nodes \cup {None})
      BY AcceptCommitFields DEF all, at, t
    <2>3. QED
      BY <2>1, <2>2
  <1>4. b.id \in Ids /\ b.node.after \in Roots
    BY DEF Batches, Nodes
  <1>5. HasArtwork(c) /\ CurrentCursor(c) = at /\ at.head = b.id /\ at.snapshot = b.id
        /\ at.root = b.node.after
    BY <1>1, <1>4, SessionAssumption DEF HasArtwork, CurrentCursor, Cursor, Cursors, Heads
  <1> HIDE DEF w, c, t, at
  (* The bottom before the commit, as either side sees it. *)
  <1>6. HasArtwork(d) => d.initial # NoCursor
    BY DEF HasArtwork, CurrentCursor, TablesAgree
  <1>7. ~HasArtwork(d) => d.initial = NoCursor /\ DOMAIN d.history = {} /\ b.node.parent = None
    BY DEF HasArtwork, CurrentCursor, TablesAgree, CommitAccepted, LineageHolds
  <1>8. s.cursors[None] = w.initial /\ s.history.initial = w.initial.root
    <2>1. CASE HasArtwork(d)
      BY <1>2, <1>6, <2>1 DEF SameHistory, SameCursors, PersistedCursors
    <2>2. CASE ~HasArtwork(d)
      <3>1. s.cursor = Bottom /\ s.cursors[None] = Bottom /\ s.history.initial = EmptyRoot
        BY <2>2 DEF SameHistory, SameCursors, With
      <3>2. s.snapshot = 0 /\ s.root = EmptyRoot
        BY <3>1 DEF SameCursors, Bottom, Cursor
      <3>3. w.initial = Cursor(FirstSnapshot(b), None, EmptyRoot)
        BY <1>2, <1>7, <2>2, <3>2
      <3>4. FirstSnapshot(b) = 0
        BY <3>2 DEF FirstSnapshot
      <3>5. QED
        BY <3>1, <3>3, <3>4 DEF Bottom, Cursor
    <2>3. QED
      BY <2>1, <2>2
  <1>9. SameHistory(t, c)
    BY <1>1, <1>3, <1>5, <1>8 DEF SameHistory
  (* The cursor of every operation the batch may keep. *)
  <1>10. DOMAIN s.cursors = DOMAIN d.history \cup {None}
    BY <1>7 DEF SameCursors, PersistedCursors, With, EmptyMap
  <1>11. ASSUME NEW n \in DOMAIN w.history
         PROVE  n \in DOMAIN all /\ n # None
                /\ all[n] = Cursor(n, n, w.snapshots[n].after)
    <2>1. n \in Ids
      BY <1>1 DEF MapsInto
    <2>2. CASE n = b.id
      BY <1>2, <1>4, <2>2 DEF With, at, Ids
    <2>3. CASE n # b.id
      <3>1. n \in DOMAIN d.history
        BY <1>2, <2>3 DEF With
      <3>2. HasArtwork(d)
        BY <1>7, <3>1
      <3>3. s.cursors[n] = Cursor(n, n, d.snapshots[n].after)
        BY <2>1, <3>1, <3>2, SnapshotOfNode DEF SameCursors, PersistedCursors, Ids
      <3>4. d.snapshots[n] = w.snapshots[n]
        BY <1>2, <2>3, <3>1 DEF With, TablesAgree
      <3>5. QED
        BY <1>10, <2>1, <2>3, <3>1, <3>3, <3>4 DEF With, Ids
    <2>4. QED
      BY <2>2, <2>3
  <1>12. DOMAIN c.history \subseteq DOMAIN w.history
    BY <1>1, RetainedNodesTyped
  <1>13. DOMAIN t.cursors = DOMAIN c.history \cup {None}
    <2>1. DOMAIN c.history \cup {None} \subseteq DOMAIN all
      BY <1>10, <1>11, <1>12 DEF With
    <2>2. t.history.nodes = c.history
      BY <1>1, <1>3
    <2>3. QED
      BY <1>3, <2>1, <2>2 DEF Keeping, With
  <1>14. ASSUME NEW n \in DOMAIN c.history
         PROVE  t.cursors[n] = PersistedCursors(c)[n]
    <2>1. n \in DOMAIN w.history /\ n # None /\ all[n] = Cursor(n, n, w.snapshots[n].after)
      BY <1>11, <1>12
    <2>2. t.cursors[n] = all[n]
      BY <1>1, <1>3, <1>13, <2>1 DEF Keeping, With
    <2>3. SnapshotOf(c, n) = n
      BY <1>1, SnapshotOfNode
    <2>4. c.snapshots[n] = w.snapshots[n]
      BY <1>1, <2>1 DEF Keeping, TablesAgree
    <2>5. QED
      BY <2>1, <2>2, <2>3, <2>4 DEF PersistedCursors
  <1>15. t.cursors[None] = c.initial
    <2>1. CASE base = None
      <3>1. t.cursors[None] = all[None]
        BY <1>3, <1>13, <2>1 DEF Keeping
      <3>2. all[None] = s.cursors[None]
        BY <1>4, <1>10 DEF With, Ids
      <3>3. QED
        BY <1>1, <1>8, <2>1, <3>1, <3>2
    <2>2. CASE base # None
      <3>1. t.cursors[None] = [all[base] EXCEPT !.head = None]
        BY <1>3, <1>13, <2>2 DEF Keeping, With
      <3>2. all[base] = Cursor(base, base, w.snapshots[base].after)
        BY <1>1, <1>11, <2>2
      <3>3. QED
        BY <1>1, <2>2, <3>1, <3>2 DEF Cursor
    <2>3. QED
      BY <2>1, <2>2
  <1>16. t.cursors = PersistedCursors(c)
    <2>1. DOMAIN PersistedCursors(c) = DOMAIN c.history \cup {None}
          /\ PersistedCursors(c)[None] = c.initial
      BY DEF PersistedCursors
    <2>2. t.cursors = [n \in DOMAIN t.cursors |-> t.cursors[n]]
          /\ PersistedCursors(c) = [n \in DOMAIN PersistedCursors(c) |-> PersistedCursors(c)[n]]
      BY <1>3 DEF Keeping, PersistedCursors
    <2>3. QED
      BY <1>13, <1>14, <1>15, <2>1, <2>2
  <1>17. SameCursors(t, c)
    BY <1>3, <1>5, <1>16 DEF SameCursors
  <1>18. QED
    BY <1>9, <1>17 DEF t, c

-----------------------------------------------------------------------------
(* Types, and the schema that never goes back *)

(* The schema markers are ordered numbers.                                 *)
LEMMA SchemaOrder ==
  /\ BaseSchema = 1 /\ LayerHistorySchema = 2
  /\ SelectionSchema = 3 /\ CanvasHistorySchema = 4
  BY DEF BaseSchema, LayerHistorySchema, SelectionSchema, CanvasHistorySchema

(* The snapshots frozen at the start of a record family are known ids.     *)
LEMMA KnownSnapshotsTyped ==
  ASSUME NEW d, DbTypeOK(d), NEW b \in Batches
  PROVE  KnownSnapshots(d, b) \subseteq Heads
  <1>1. FirstSnapshot(b) \in Heads
    BY DEF Batches, FirstSnapshot, Strokes, Heads
  <1>2. QED
    BY <1>1 DEF KnownSnapshots, DbTypeOK, MapsInto, Heads, Cursors

(* Adding one record to a typed family, or to a freshly frozen one, types  *)
(* it.                                                                     *)
LEMMA FamilyTyped ==
  ASSUME NEW map, NEW values, MapsInto(map, Heads, values), NEW value \in values,
         NEW known, known \subseteq Heads, NEW old \in values, NEW id \in Ids
  PROVE  /\ MapsInto(With(map, id, value), Heads, values)
         /\ MapsInto(With(Freeze(known, old), id, value), Heads, values)
  BY DEF MapsInto, With, Freeze, Heads

(* capture_snapshot_layers keeps the types and never lowers the schema.    *)
LEMMA CaptureLayersTyped ==
  ASSUME NEW d, DbTypeOK(d), NEW b \in Batches
  PROVE  /\ DbTypeOK(CaptureLayers(d, b))
         /\ CaptureLayers(d, b).schema >= d.schema
  <1> DEFINE l == CaptureLayers(d, b)
             next == IF b.tree = Keep THEN d.tree ELSE b.tree
             older == IF LayerHistoryEnabled(d) THEN d.treeOf
                      ELSE Freeze(KnownSnapshots(d, b), d.tree)
  <1>1. Changes(d, l, {"schema", "tree", "treeOf"}) /\ l.tree = next
    BY CaptureLayersChanges DEF DbTypeOK, Fields
  <1>2. l.treeOf = (IF LayersCaptured(d, b) THEN With(older, b.id, next) ELSE d.treeOf)
        /\ l.schema = IF LayersCaptured(d, b) /\ d.schema < LayerHistorySchema
                      THEN LayerHistorySchema ELSE d.schema
    BY DEF CaptureLayers, DbTypeOK, NewProject
  <1>3. next \in AllTrees
    BY DEF DbTypeOK, Batches, AllTrees
  <1>4. MapsInto(With(older, b.id, next), Heads, AllTrees)
    BY <1>3, KnownSnapshotsTyped, FamilyTyped DEF DbTypeOK, Batches
  <1> HIDE DEF l, next, older
  <1>5. l.schema \in BaseSchema..CanvasHistorySchema /\ l.schema >= d.schema
    BY <1>2, SchemaOrder DEF DbTypeOK
  <1>6. DbTypeOK(l)
    BY <1>1, <1>2, <1>3, <1>4, <1>5 DEF DbTypeOK, Changes, Fields, NewProject
  <1>7. QED
    BY <1>5, <1>6 DEF l

(* capture_snapshot_canvas keeps the types and never lowers the schema.    *)
LEMMA CaptureCanvasTyped ==
  ASSUME NEW d, DbTypeOK(d), NEW b \in Batches
  PROVE  /\ DbTypeOK(CaptureCanvas(d, b))
         /\ CaptureCanvas(d, b).schema >= d.schema
  <1> DEFINE c == CaptureCanvas(d, b)
             next == IF b.page = Keep THEN d.page ELSE b.page
             older == IF CanvasHistoryEnabled(d) THEN d.pageOf
                      ELSE Freeze(KnownSnapshots(d, b), d.page)
             skip == ~CanvasHistoryEnabled(d) /\ b.page = Keep
  <1>1. Changes(d, c, {"schema", "page", "pageOf"}) /\ c.page = next
    BY CaptureCanvasChanges DEF DbTypeOK, Fields
  <1>2. c.pageOf = (IF skip THEN d.pageOf ELSE With(older, b.id, next))
        /\ c.schema = IF skip THEN d.schema ELSE CanvasHistorySchema
    BY DEF CaptureCanvas, DbTypeOK, NewProject
  <1>3. next \in AllPages
    BY DEF DbTypeOK, Batches
  <1>4. MapsInto(With(older, b.id, next), Heads, AllPages)
    BY <1>3, KnownSnapshotsTyped, FamilyTyped DEF DbTypeOK, Batches
  <1> HIDE DEF c, next, older, skip
  <1>5. c.schema \in BaseSchema..CanvasHistorySchema /\ c.schema >= d.schema
    BY <1>2, SchemaOrder DEF DbTypeOK
  <1>6. DbTypeOK(c)
    BY <1>1, <1>2, <1>3, <1>4, <1>5 DEF DbTypeOK, Changes, Fields, NewProject
  <1>7. QED
    BY <1>5, <1>6 DEF c

(* capture_snapshot_animation keeps the types and the schema.              *)
LEMMA CaptureAnimationTyped ==
  ASSUME NEW d, DbTypeOK(d), NEW b \in Batches
  PROVE  /\ DbTypeOK(CaptureAnimation(d, b))
         /\ CaptureAnimation(d, b).schema = d.schema
  <1> DEFINE a == CaptureAnimation(d, b)
             next == IF b.timeline = Keep THEN d.timeline ELSE b.timeline
             older == IF AnimationEnabled(d) THEN d.timelineOf
                      ELSE Freeze(KnownSnapshots(d, b), NoTimeline)
             skip == ~AnimationEnabled(d) /\ b.timeline \in {Keep, NoTimeline}
  <1>1. Changes(d, a, {"timeline", "timelineOf"})
    BY CaptureAnimationChanges DEF DbTypeOK, Fields, Batches
  <1>2. a.timelineOf = (IF skip THEN d.timelineOf ELSE With(older, b.id, next))
        /\ a.timeline = IF skip THEN d.timeline ELSE next
    BY DEF CaptureAnimation, DbTypeOK, NewProject
  <1>3. next \in AllTimelines \cup {Absent} /\ (~skip => next \in AllTimelines)
    BY DEF DbTypeOK, Batches, AnimationEnabled
  <1>4. ~skip => MapsInto(With(older, b.id, next), Heads, AllTimelines)
    <2>1. NoTimeline \in AllTimelines
      BY DEF AllTimelines
    <2>2. QED
      BY <1>3, <2>1, KnownSnapshotsTyped, FamilyTyped DEF DbTypeOK, Batches
  <1> HIDE DEF a, next, older, skip
  <1>5. DbTypeOK(a)
    BY <1>1, <1>2, <1>3, <1>4 DEF DbTypeOK, Changes, Fields, NewProject
  <1>6. QED
    BY <1>1, <1>5 DEF Changes, Fields, NewProject, a

(* Marking a selection and storing objects and manifests keep the types    *)
(* and never lower the schema.                                             *)
LEMMA StoredTyped ==
  ASSUME NEW d, DbTypeOK(d), NEW stored, stored \subseteq Roots
  PROVE  LET e == StoreRoots(StoreObjects(d, stored), stored)
         IN DbTypeOK(e) /\ e.schema = d.schema
  <1> DEFINE o == StoreObjects(d, stored)
             e == StoreRoots(o, stored)
  <1>1. \A r \in stored : ObjectsOf[r] \subseteq Objects
    BY ProjectAssumption
  <1>2. Changes(d, o, {"objects"}) /\ o.objects \subseteq Objects
    BY <1>1 DEF StoreObjects, Changes, DbTypeOK, Fields, NewProject
  <1>3. DbTypeOK(o) /\ o.schema = d.schema
    BY <1>2 DEF DbTypeOK, Changes, Fields, NewProject
  <1> HIDE DEF o
  <1>4. Changes(o, e, {"roots", "refs"})
        /\ e.roots \subseteq Roots /\ DOMAIN e.refs \subseteq Objects
    <2>1. DOMAIN o = Fields
      BY <1>3 DEF DbTypeOK, Fields
    <2>2. Changes(o, e, {"roots", "refs"})
      BY <2>1 DEF StoreRoots, Changes, Fields, NewProject
    <2>3. e.roots = o.roots \cup stored
          /\ DOMAIN e.refs = DOMAIN o.refs \cup UNION {ObjectsOf[x] : x \in stored \ o.roots}
      BY <2>1 DEF StoreRoots, Fields, NewProject
    <2>4. QED
      BY <1>1, <1>3, <2>2, <2>3 DEF DbTypeOK
  <1> HIDE DEF e
  <1>5. DbTypeOK(e) /\ e.schema = o.schema
    BY <1>3, <1>4 DEF DbTypeOK, Changes, Fields, NewProject
  <1>6. QED
    BY <1>3, <1>5 DEF e, o

(* Any batch, once written and cut to the limit, leaves well-typed tables  *)
(* under a schema no older than before.                                    *)
LEMMA CommitTyped ==
  ASSUME NEW d, DbTypeOK(d), TablesAgree(d), NEW b \in Batches, CommitAccepted(d, b)
  PROVE  DbTypeOK(Commit(d, b)) /\ Commit(d, b).schema >= d.schema
  <1> DEFINE l == CaptureLayers(d, b)
             c == CaptureCanvas(l, b)
             a == CaptureAnimation(c, b)
             k == MarkSelection(a, b)
             stored == {b.node.before, b.node.after}
             r == StoreRoots(StoreObjects(k, stored), stored)
             w == Written(d, b)
             e == Commit(d, b)
  <1>1. DbTypeOK(l) /\ l.schema >= d.schema
    BY CaptureLayersTyped
  <1> HIDE DEF l
  <1>2. DbTypeOK(c) /\ c.schema >= l.schema
    BY <1>1, CaptureCanvasTyped
  <1> HIDE DEF c
  <1>3. DbTypeOK(a) /\ a.schema = c.schema
    BY <1>2, CaptureAnimationTyped
  <1> HIDE DEF a
  <1>4. DbTypeOK(k) /\ k.schema >= a.schema
    BY <1>3, SchemaOrder DEF MarkSelection, DbTypeOK, NewProject
  <1> HIDE DEF k
  <1>5. DbTypeOK(r) /\ r.schema = k.schema
    BY <1>4, StoredTyped DEF Batches, Nodes
  <1> HIDE DEF r
  <1>6. w = InsertBatch(r, b)
    BY DEF Written, CaptureMetadata, r, stored, k, a, c, l
  <1>7. DOMAIN w = Fields /\ Changes(r, w, {"strokes", "history", "snapshots", "cursor", "initial"})
        /\ w.strokes = (IF b.stroke = Absent THEN r.strokes ELSE r.strokes \cup {b.stroke})
        /\ w.cursor = Cursor(b.id, b.id, b.node.after)
    <2>1. DOMAIN r = Fields
      BY <1>5 DEF DbTypeOK, Fields
    <2> HIDE DEF w
    <2>2. /\ Changes(r, w, {"strokes", "history", "snapshots", "cursor", "initial"})
          /\ w.strokes = (IF b.stroke = Absent THEN r.strokes ELSE r.strokes \cup {b.stroke})
          /\ w.cursor = Cursor(b.id, b.id, b.node.after)
      BY <1>6, <2>1, InsertBatchChanges
    <2>3. QED
      BY <2>2 DEF Changes
  <1>8. /\ MapsInto(w.history, Ids, Nodes) /\ MapsInto(w.snapshots, Ids, Snapshots)
        /\ w.initial \in Cursors /\ TablesAgree(w)
    BY CommitKeepsTables
  <1> HIDE DEF w
  <1>9. w.strokes \subseteq Strokes /\ w.cursor \in Cursors
    BY <1>5, <1>7 DEF DbTypeOK, Batches, Nodes, Cursor, Cursors, Heads
  <1>10. DbTypeOK(w) /\ w.schema = r.schema
    BY <1>5, <1>7, <1>8, <1>9 DEF DbTypeOK, Changes, Fields, NewProject
  <1>11. DbTypeOK(e) /\ e.schema = w.schema
    <2>1. CASE ~Overfull(w.history)
      BY <1>10, <2>1 DEF Commit, RetainHistory, w
    <2>2. CASE Overfull(w.history)
      <3>1. /\ Changes(w, e, {"initial", "history", "snapshots", "strokes", "treeOf",
                              "pageOf", "timelineOf", "roots", "refs", "objects"})
            /\ e.strokes \subseteq w.strokes
            /\ e.treeOf = Keeping(w.treeOf, RetainedRecords(w))
            /\ e.pageOf = Keeping(w.pageOf, RetainedRecords(w))
            /\ e.timelineOf = Keeping(w.timelineOf, RetainedRecords(w))
            /\ e.roots \subseteq w.roots /\ e.objects \subseteq w.objects
            /\ DOMAIN e.refs \subseteq DOMAIN w.refs
        BY <1>7, <2>2, RetainHistoryChanges DEF Commit, w
      <3>2. /\ e.snapshots = Keeping(w.snapshots, DOMAIN e.history)
            /\ e.initial \in Cursors
            /\ MapsInto(e.history, Ids, Nodes)
        <4>1. /\ e.snapshots = Keeping(w.snapshots, DOMAIN e.history)
              /\ e.history = RetainedNodes(w.history, b.id)
              /\ LET base == Baseline(w.history, b.id)
                 IN /\ base = None => e.initial = w.initial
                    /\ base # None => base \in DOMAIN w.history
                          /\ e.initial = Cursor(base, None, w.snapshots[base].after)
          BY CommitKeepsTables DEF w
        <4>2. \A n \in DOMAIN w.history : n \in Ids /\ w.snapshots[n].after \in Roots
          BY <1>8 DEF TablesAgree, MapsInto, Snapshots
        <4>3. QED
          BY <1>8, <4>1, <4>2, RetainedNodesTyped DEF Cursor, Cursors, Heads
      <3>3. MapsInto(e.snapshots, Ids, Snapshots)
        BY <1>8, <3>2 DEF Keeping, MapsInto
      <3>4. /\ MapsInto(e.treeOf, Heads, AllTrees) /\ MapsInto(e.pageOf, Heads, AllPages)
            /\ MapsInto(e.timelineOf, Heads, AllTimelines)
        BY <1>10, <3>1 DEF Keeping, MapsInto, DbTypeOK
      <3>5. QED
        BY <1>10, <3>1, <3>2, <3>3, <3>4 DEF DbTypeOK, Changes, Fields, NewProject
    <2>3. QED
      BY <2>1, <2>2
  <1>12. QED
    BY <1>1, <1>2, <1>3, <1>4, <1>5, <1>10, <1>11, SchemaOrder DEF DbTypeOK

(* A batch is not a cursor move.                                           *)
LEMMA JobKinds ==
  ASSUME NEW j \in Batches \cup Moves
  PROVE  (IsMove(j) => j \in Moves) /\ (~IsMove(j) => j \in Batches)
  BY DEF IsMove, Batches, Moves

(* A session that agrees with well-typed tables is well typed itself.      *)
LEMMA SessionTypedByFile ==
  ASSUME NEW d, DbTypeOK(d), TablesAgree(d),
         NEW s, SameHistory(s, d), SameCursors(s, d),
         DOMAIN s = DOMAIN NewSession, DOMAIN s.history = DOMAIN NewHistory(EmptyRoot)
  PROVE  SessionTypeOK(s)
  <1>1. Bottom \in Cursors
    BY ProjectAssumption DEF Bottom, Cursor, Cursors, Heads
  <1>2. CurrentCursor(d) # NoCursor => CurrentCursor(d) \in Cursors
    BY DEF CurrentCursor, DbTypeOK
  <1>3. s.cursor \in Cursors
    BY <1>1, <1>2 DEF SameCursors, HasArtwork
  <1>4. MapsInto(s.cursors, Heads, Cursors)
    <2>1. CASE HasArtwork(d)
      <3>1. d.initial \in Cursors
        BY <2>1, SessionAssumption DEF HasArtwork, CurrentCursor, TablesAgree, DbTypeOK
      <3>2. ASSUME NEW n \in DOMAIN d.history
            PROVE  n \in Ids /\ Cursor(SnapshotOf(d, n), n, d.snapshots[SnapshotOf(d, n)].after) \in Cursors
        BY SnapshotOfNode DEF DbTypeOK, MapsInto, TablesAgree, Snapshots, Cursor, Cursors, Heads
      <3>3. QED
        BY <2>1, <3>1, <3>2 DEF SameCursors, PersistedCursors, MapsInto, Heads
    <2>2. CASE ~HasArtwork(d)
      BY <1>1, <2>2 DEF SameCursors, With, EmptyMap, MapsInto, Heads
    <2>3. QED
      BY <2>1, <2>2
  <1>5. QED
    BY <1>3, <1>4 DEF SessionTypeOK, SameHistory, SameCursors, Cursors, DbTypeOK

(* A nonempty set of ids up to MaxId has a largest element, by well-       *)
(* founded induction downwards from MaxId.                                 *)
LEMMA LargestOfIds ==
  ASSUME NEW S, S \subseteq Heads, S # {}
  PROVE  \E m \in S : \A k \in S : k <= m
  <1> DEFINE T == {MaxId - k : k \in S}
  <1>1. MaxId \in Nat /\ \A k \in S : k \in 0..MaxId
    BY SessionAssumption DEF Heads, Ids
  <1>2. T \subseteq Nat /\ T # {}
    BY <1>1
  <1> DEFINE Less == OpToRel(<, Nat)
  <1>3. \A u, v \in Nat : u < v => <<u, v>> \in Less
    BY DEF OpToRel
  <1>4. IsWellFoundedOn(Less, Nat)
    BY NatLessThanWellFounded
  <1> HIDE DEF T, Less
  <1>5. PICK t \in T : \A u \in T : ~ (<<u, t>> \in Less)
    BY <1>2, <1>4, WFMin
  <1>6. ASSUME NEW u \in T PROVE t <= u
    <2>1. t \in Nat /\ u \in Nat
      BY <1>2
    <2>2. ~ (u < t)
      BY <1>3, <1>5, <2>1
    <2>3. QED
      BY <2>1, <2>2
  <1>7. PICK m \in S : t = MaxId - m
    BY <1>5 DEF T
  <1>8. ASSUME NEW k \in S PROVE k <= m
    <2>1. MaxId - k \in T
      BY DEF T
    <2>2. QED
      BY <1>1, <1>6, <1>7, <2>1
  <1>9. QED
    BY <1>8

(* next_project_id is within the bound, or just above it.                  *)
LEMMA NextProjectIdTyped ==
  ASSUME NEW s, SessionTypeOK(s)
  PROVE  NextProjectId(s) \in 1..MaxId + 1
  <1> DEFINE known == {s.snapshot} \cup {s.cursors[n].snapshot : n \in DOMAIN s.cursors}
                        \cup DOMAIN s.cursors
  <1>1. known \subseteq Heads /\ known # {}
    BY DEF SessionTypeOK, MapsInto, Cursors
  <1> HIDE DEF known
  <1>2. \E m \in known : \A k \in known : k <= m
    BY <1>1, LargestOfIds
  <1>3. (CHOOSE m \in known : \A k \in known : k <= m) \in known
    BY <1>2
  <1>4. (CHOOSE m \in known : \A k \in known : k <= m) \in 0..MaxId
    <2>1. \A k \in known : k \in 0..MaxId
      BY <1>1, SessionAssumption DEF Heads, Ids
    <2>2. QED
      BY <1>3, <2>1
  <1>5. NextProjectId(s) = 1 + CHOOSE m \in known : \A k \in known : k <= m
    BY DEF NextProjectId, known
  <1>6. QED
    BY <1>4, <1>5, SessionAssumption

(* Storing the initial metadata touches nothing that the session holds.    *)
LEMMA MetadataIsApart ==
  ASSUME NEW d, NEW e, Changes(d, e, {"tree", "page", "timeline"})
  PROVE  /\ TablesAgree(d) => TablesAgree(e)
         /\ HasArtwork(e) <=> HasArtwork(d)
         /\ \A s : SameHistory(s, d) => SameHistory(s, e)
         /\ \A s : SameCursors(s, d) => SameCursors(s, e)
  <1>1. /\ e.history = d.history /\ e.snapshots = d.snapshots
        /\ e.cursor = d.cursor /\ e.initial = d.initial
    BY DEF Changes, Fields, NewProject
  <1>2. CurrentCursor(e) = CurrentCursor(d)
    BY <1>1 DEF CurrentCursor
  <1>3. HasArtwork(e) <=> HasArtwork(d)
    BY <1>2 DEF HasArtwork
  <1>4. PersistedCursors(e) = PersistedCursors(d)
    BY <1>1 DEF PersistedCursors, SnapshotOf
  <1>5. QED
    BY <1>1, <1>2, <1>3, <1>4 DEF TablesAgree, SameHistory, SameCursors

-----------------------------------------------------------------------------
(* The inductive invariant *)

Agrees(s, d, v) == SameHistory(s, d) /\ SameCursors(s, d) /\ v = StoredView(d)

(* The batch was prepared for the session as it is. *)
Fits(s, b) ==
  /\ b.node.parent = s.history.head /\ b.node.before = s.root
  /\ b.stroke # Absent => b.stroke.parent = s.snapshot

AcceptedView(v, b) ==
  [tree     |-> IF b.tree = Keep THEN v.tree ELSE b.tree,
   page     |-> IF b.page = Keep THEN v.page ELSE b.page,
   timeline |-> IF b.timeline = Keep THEN v.timeline ELSE b.timeline]

(* The file is one cursor move ahead of the session. *)
MovedTo(s, d, m) ==
  /\ s.history.nodes = d.history
  /\ HasArtwork(d) /\ CurrentCursor(d) = m.target
  /\ s.history.initial = d.initial.root
  /\ s.cursors = PersistedCursors(d)
  /\ ViewAt(d, m.target) = StoredView(d)

IInv ==
  /\ TypeOK
  /\ TablesAgree(db)
  /\ worker \in {"opening", "idle", "prepared"} => Agrees(session, db, view)
  /\ worker = "opening" => nextId = 1 /\ ~HasArtwork(db)
  /\ worker \in {"prepared", "durable"} /\ ~IsMove(job) => job.id = nextId
  /\ worker = "prepared" /\ ~IsMove(job) => Fits(session, job)
  /\ worker = "durable" /\ ~IsMove(job) =>
       Agrees(AcceptCommit(session, job), db, AcceptedView(view, job))
  /\ worker = "durable" /\ IsMove(job) => MovedTo(session, db, job)

(* A new session has its types.                                            *)
LEMMA NewSessionTyped == SessionTypeOK(NewSession)
  BY ProjectAssumption
  DEF SessionTypeOK, NewSession, NewHistory, Bottom, Cursor, Cursors, With, EmptyMap,
      MapsInto, Heads

(* A new project has its types.                                            *)
LEMMA NewProjectTyped == DbTypeOK(NewProject) /\ TablesAgree(NewProject)
  BY SchemaOrder, ProjectAssumption
  DEF DbTypeOK, TablesAgree, NewProject, EmptyMap, MapsInto, AllTrees, AllPages

(* What the file says is on screen has its type.                           *)
LEMMA StoredViewTyped ==
  ASSUME NEW d, DbTypeOK(d)
  PROVE  StoredView(d) \in [tree : AllTrees, page : AllPages, timeline : AllTimelines]
  BY DEF DbTypeOK, StoredView, View, ShownTimeline, AllTimelines

(* The invariant holds before any process has run.                         *)
LEMMA InitIInv == Init => IInv
  <1> SUFFICES ASSUME Init PROVE IInv
    OBVIOUS
  <1>1. TypeOK
    BY NewSessionTyped, NewProjectTyped, StoredViewTyped, SessionAssumption
    DEF Init, TypeOK
  <1>2. QED
    BY <1>1, NewProjectTyped DEF Init, IInv

(* A crash or an exit keeps the invariant.                                 *)
LEMMA StopIInv == IInv /\ Stop => IInv'
  <1> SUFFICES ASSUME IInv, Stop PROVE IInv'
    OBVIOUS
  <1>1. TypeOK'
    BY NewSessionTyped, NewProjectTyped, StoredViewTyped, SessionAssumption
    DEF Stop, IInv, TypeOK, DbTypeOK
  <1>2. QED
    BY <1>1 DEF Stop, IInv, TablesAgree

(* persist_layer_tree and persist_canvas_spec keep the types.              *)
LEMMA PersistTypes ==
  ASSUME NEW d, DbTypeOK(d)
  PROVE  /\ \A t \in AllTrees : DbTypeOK(PersistLayerTree(d, t))
                               /\ Changes(d, PersistLayerTree(d, t), {"tree", "page", "timeline"})
                               /\ PersistLayerTree(d, t).tree = t
         /\ \A p \in AllPages : DbTypeOK(PersistCanvasSpec(d, p))
                               /\ Changes(d, PersistCanvasSpec(d, p), {"tree", "page", "timeline"})
                               /\ PersistCanvasSpec(d, p).page = p
  BY DEF PersistLayerTree, PersistCanvasSpec, Changes, DbTypeOK, Fields, NewProject

(* A new session is what a project without artwork opens as.               *)
LEMMA NewSessionAgrees ==
  ASSUME NEW d, TablesAgree(d), DbTypeOK(d), ~HasArtwork(d)
  PROVE  SameHistory(NewSession, d) /\ SameCursors(NewSession, d)
  <1>1. d.initial = NoCursor /\ DOMAIN d.history = {}
    BY DEF HasArtwork, CurrentCursor, TablesAgree
  <1>2. d.history = EmptyMap
    BY <1>1 DEF DbTypeOK, MapsInto, EmptyMap
  <1>3. QED
    BY <1>2 DEF SameHistory, SameCursors, NewSession, NewHistory, Bottom, Cursor

(* Opening a project without artwork keeps the invariant.                  *)
LEMMA OpenEmptyIInv == IInv /\ OpenEmpty => IInv'
  <1> SUFFICES ASSUME IInv, OpenEmpty PROVE IInv'
    OBVIOUS
  <1>1. DbTypeOK(db) /\ TablesAgree(db) /\ ~HasArtwork(db) /\ db.tree \in AllTrees
    BY DEF IInv, TypeOK, DbTypeOK, OpenEmpty
  <1>2. DbTypeOK(db') /\ TablesAgree(db') /\ ~HasArtwork(db')
    <2>1. DefaultTree \in AllTrees
      BY DEF AllTrees
    <2>2. CASE db.tree = Absent
      BY <1>1, <2>1, <2>2, PersistTypes, MetadataIsApart DEF OpenEmpty
    <2>3. CASE db.tree # Absent
      BY <1>1, <2>3 DEF OpenEmpty
    <2>4. QED
      BY <2>2, <2>3
  <1>3. SameHistory(session', db') /\ SameCursors(session', db')
    BY <1>2, NewSessionAgrees DEF OpenEmpty
  <1>4. SessionTypeOK(session') /\ view' \in [tree : AllTrees, page : AllPages, timeline : AllTimelines]
    BY <1>2, NewSessionTyped, StoredViewTyped DEF OpenEmpty
  <1>5. TypeOK'
    BY <1>2, <1>4, SessionAssumption DEF TypeOK, IInv, OpenEmpty
  <1>6. QED
    BY <1>2, <1>3, <1>5 DEF IInv, OpenEmpty, Agrees

(* Reopening a project gives a session that agrees with it.                *)
LEMMA OpenExistingIInv == IInv /\ OpenExisting => IInv'
  <1> SUFFICES ASSUME IInv, OpenExisting PROVE IInv'
    OBVIOUS
  <1> DEFINE s  == ReopenedSession(db)
             at == CurrentCursor(db)
  <1>1. DbTypeOK(db) /\ TablesAgree(db) /\ HasArtwork(db) /\ Opens(db)
    BY DEF IInv, TypeOK, OpenExisting
  <1>2. s = [snapshot |-> at.snapshot, root |-> at.root,
             history  |-> FromPersisted(StoredInitialRoot(db), at.head, db.history),
             cursor   |-> at, cursors  |-> PersistedCursors(db)]
    BY <1>1 DEF ReopenedSession
  <1>3. DOMAIN s = DOMAIN NewSession /\ DOMAIN s.history = DOMAIN NewHistory(EmptyRoot)
    BY <1>2 DEF NewSession, NewHistory, FromPersisted
  <1>4. db.initial # NoCursor /\ StoredInitialRoot(db) = db.initial.root
    BY <1>1 DEF HasArtwork, CurrentCursor, TablesAgree, Opens, StoredInitialRoot
  <1>5. SameCursors(s, db)
    BY <1>1, <1>2 DEF SameCursors
  <1>6. s.history.current = at.root
    <2>1. CASE DOMAIN db.history = {}
      <3>1. at.head = None
        BY <1>1, <2>1 DEF Opens
      <3>2. at = db.initial
        BY <1>1, <3>1 DEF CurrentCursor, TablesAgree
      <3>3. QED
        BY <1>2, <1>4, <3>1, <3>2 DEF FromPersisted
    <2>2. CASE DOMAIN db.history # {}
      BY <1>1, <1>2, <2>2 DEF Opens
    <2>3. QED
      BY <2>1, <2>2
  <1>7. SameHistory(s, db)
    BY <1>1, <1>2, <1>4, <1>6 DEF SameHistory, FromPersisted
  <1>8. SessionTypeOK(s)
    BY <1>1, <1>3, <1>5, <1>7, SessionTypedByFile
  <1>9. TypeOK'
    BY <1>1, <1>8, NextProjectIdTyped, StoredViewTyped DEF TypeOK, IInv, OpenExisting
  <1>10. QED
    BY <1>1, <1>5, <1>7, <1>9 DEF IInv, OpenExisting, Agrees

(* Starting on a blank page keeps the invariant.                           *)
LEMMA StartBlankIInv == IInv /\ StartBlank => IInv'
  BY DEF IInv, TypeOK, StartBlank, Agrees

(* Preparing the import of a picture keeps the invariant.                  *)
LEMMA ImportPngIInv ==
  ASSUME IInv, NEW r \in Roots, NEW p \in AllPages, ImportPng(r, p)
  PROVE  IInv'
  <1> DEFINE e == PersistCanvasSpec(db, p)
  <1>1. /\ DbTypeOK(db) /\ TablesAgree(db) /\ ~HasArtwork(db) /\ nextId = 1
        /\ Agrees(session, db, view)
        /\ view \in [tree : AllTrees, page : AllPages, timeline : AllTimelines]
    BY DEF IInv, TypeOK, ImportPng
  <1>2. DbTypeOK(e) /\ Changes(db, e, {"tree", "page", "timeline"}) /\ e.page = p
    BY <1>1, PersistTypes
  <1>3. DbTypeOK(db') /\ Changes(e, db', {"tree", "page", "timeline"}) /\ db'.tree = view.tree
    BY <1>1, <1>2, PersistTypes DEF ImportPng
  <1> HIDE DEF e
  <1>4. Changes(db, db', {"tree", "page", "timeline"})
    BY <1>2, <1>3 DEF Changes
  <1>5. TablesAgree(db') /\ SameHistory(session', db') /\ SameCursors(session', db')
    BY <1>1, <1>4, MetadataIsApart DEF Agrees, ImportPng
  <1>6. db'.page = p /\ db'.timeline = db.timeline
    BY <1>2 DEF ImportPng, PersistLayerTree, PersistCanvasSpec, e, DbTypeOK, NewProject
  <1>7. view' = StoredView(db')
    BY <1>1, <1>3, <1>6 DEF ImportPng, Agrees, StoredView, View
  <1>8. job' \in Batches /\ ~IsMove(job') /\ job'.id = 1 /\ Fits(session, job')
    <2>1. job' = StructuralBatch(1, None, EmptyRoot, r, Keep, Keep, Keep)
      BY <1>1 DEF ImportPng
    <2>2. job' \in Batches /\ job'.stroke = Absent
      BY <2>1, ProjectAssumption, SessionAssumption
      DEF StructuralBatch, Batches, Nodes, Heads, Ids
    <2>3. session.history.head = None /\ session.root = EmptyRoot
      BY <1>1 DEF Agrees, SameHistory, SameCursors, Bottom, Cursor
    <2>4. QED
      BY <2>1, <2>2, <2>3 DEF Fits, StructuralBatch, IsMove, Batches
  <1>9. TypeOK'
    BY <1>1, <1>3, <1>8 DEF TypeOK, IInv, ImportPng
  <1>10. QED
    BY <1>1, <1>5, <1>7, <1>8, <1>9 DEF IInv, ImportPng, Agrees

(* Preparing any well-formed batch that fits the session keeps the         *)
(* invariant.                                                              *)
LEMMA PrepareIInv ==
  ASSUME IInv, NEW b \in Batches, b.id = nextId, Fits(session, b), Prepare(b)
  PROVE  IInv'
  <1>1. ~IsMove(b)
    BY DEF IsMove, Batches
  <1>2. TypeOK'
    BY DEF TypeOK, IInv, Prepare
  <1>3. QED
    BY <1>1, <1>2 DEF IInv, Prepare, Agrees, Fits

(* Preparing a stroke keeps the invariant.                                 *)
LEMMA PrepareStrokeIInv ==
  ASSUME IInv, NEW r \in Roots, NEW selected \in Selections, PrepareStroke(r, selected)
  PROVE  IInv'
  <1> DEFINE b == StrokeBatch(nextId, session.snapshot, session.history.head,
                              session.root, r, selected)
  <1>1. SessionTypeOK(session) /\ nextId \in Ids /\ selected \in BOOLEAN
    BY SessionAssumption DEF IInv, TypeOK, PrepareStroke, Prepare, Ids
  <1>2. b \in Batches
    BY <1>1 DEF SessionTypeOK, StrokeBatch, Batches, Nodes, Strokes
  <1>3. b.id = nextId /\ Fits(session, b)
    BY DEF StrokeBatch, Fits
  <1>4. Prepare(b)
    BY DEF PrepareStroke
  <1>5. QED
    BY <1>2, <1>3, <1>4, PrepareIInv

(* Preparing an edit, layer, page or timeline change keeps the invariant.  *)
LEMMA PrepareStructuralIInv ==
  ASSUME IInv, NEW r \in Roots, NEW t \in Trees \cup {Keep},
         NEW p \in AllPages \cup {Keep}, NEW l \in AllTimelines \cup {Keep},
         Prepare(Structural(r, t, p, l))
  PROVE  IInv'
  <1> DEFINE b == Structural(r, t, p, l)
  <1>1. SessionTypeOK(session) /\ nextId \in Ids
    BY SessionAssumption DEF IInv, TypeOK, Prepare, Ids
  <1>2. b \in Batches
    BY <1>1 DEF SessionTypeOK, Structural, StructuralBatch, Batches, Nodes
  <1>3. b.id = nextId /\ Fits(session, b)
    BY DEF Structural, StructuralBatch, Fits
  <1>4. QED
    BY <1>2, <1>3, PrepareIInv

(* Preparing an undo or a redo keeps the invariant.                        *)
LEMMA PrepareMoveIInv ==
  ASSUME IInv, NEW to \in Heads, NEW head, PrepareMove(to, head)
  PROVE  IInv'
  <1>1. job' \in Moves /\ IsMove(job')
    BY DEF IInv, TypeOK, SessionTypeOK, PrepareMove, Move, Moves, MapsInto, IsMove
  <1>2. TypeOK'
    BY <1>1 DEF TypeOK, IInv, PrepareMove
  <1>3. QED
    BY <1>1, <1>2 DEF IInv, PrepareMove, Agrees

(* Every request keeps the invariant.                                      *)
LEMMA RequestIInv == IInv /\ Request => IInv'
  <1> SUFFICES ASSUME IInv, Request PROVE IInv'
    OBVIOUS
  <1>1. ASSUME NEW r \in Roots, NEW selected \in Selections, PrepareStroke(r, selected)
        PROVE  IInv'
    BY <1>1, PrepareStrokeIInv
  <1>2. ASSUME NEW r \in Roots, PrepareEdit(r) PROVE IInv'
    BY <1>2, PrepareStructuralIInv DEF PrepareEdit
  <1>3. ASSUME NEW r \in Roots, NEW t \in Trees, PrepareLayers(r, t) PROVE IInv'
    BY <1>3, PrepareStructuralIInv DEF PrepareLayers
  <1>4. ASSUME NEW r \in Roots, NEW p \in Pages, PreparePage(r, p) PROVE IInv'
    BY <1>4, PrepareStructuralIInv DEF PreparePage, AllPages
  <1>5. ASSUME NEW r \in Roots, NEW t \in Trees, NEW l \in AllTimelines,
               PrepareAnimation(r, t, l)
        PROVE  IInv'
    <2>1. view.page \in AllPages
      BY DEF IInv, TypeOK
    <2>2. QED
      BY <1>5, <2>1, PrepareStructuralIInv DEF PrepareAnimation
  <1>6. CASE PrepareUndo
    BY <1>6, PrepareMoveIInv DEF PrepareUndo, Heads
  <1>7. ASSUME NEW n \in 1..MaxId, PrepareRedoTo(n) PROVE IInv'
    BY <1>7, PrepareMoveIInv DEF PrepareRedoTo, Heads, Ids
  <1>8. CASE PrepareRedo
    <2>1. PICK n : CanRedoTo(session.history, n) /\ PrepareMove(n, n)
      BY <1>8 DEF PrepareRedo
    <2>2. n \in Heads
      BY <2>1 DEF CanRedoTo, Children, IInv, TypeOK, SessionTypeOK, MapsInto, Heads
    <2>3. QED
      BY <2>1, <2>2, PrepareMoveIInv
  <1>9. QED
    BY <1>1, <1>2, <1>3, <1>4, <1>5, <1>6, <1>7, <1>8 DEF Request

(* After a commit the file is what the session becomes by accepting it:    *)
(* both sides have limited the same history.                               *)
LEMMA CommitBatchIInv == IInv /\ CommitBatch => IInv'
  <1> SUFFICES ASSUME IInv, CommitBatch PROVE IInv'
    OBVIOUS
  <1>1. job \in Batches
    BY JobKinds DEF IInv, TypeOK, CommitBatch
  <1>2. /\ DbTypeOK(db) /\ TablesAgree(db) /\ SessionTypeOK(session)
        /\ Agrees(session, db, view) /\ Fits(session, job)
        /\ CommitAccepted(db, job) /\ db' = Commit(db, job)
    BY DEF IInv, TypeOK, CommitBatch
  <1>3. DbTypeOK(db') /\ TablesAgree(db')
    BY <1>1, <1>2, CommitTyped, CommitKeepsTables
  <1>4. SameHistory(AcceptCommit(session, job), db') /\ SameCursors(AcceptCommit(session, job), db')
    BY <1>1, <1>2, AcceptFollowsCommit DEF Agrees, Fits
  <1>5. AcceptedView(view, job) = StoredView(db')
    <2> DEFINE w == Written(db, job)
    <2>1. /\ DOMAIN w = Fields
          /\ w.tree = IF job.tree = Keep THEN db.tree ELSE job.tree
          /\ w.page = IF job.page = Keep THEN db.page ELSE job.page
          /\ ShownTimeline(w.timeline) =
               IF job.timeline = Keep THEN ShownTimeline(db.timeline) ELSE job.timeline
      BY <1>1, <1>2, WrittenChanges DEF DbTypeOK, Fields, Batches
    <2> HIDE DEF w
    <2>2. /\ db'.tree = w.tree /\ db'.page = w.page /\ db'.timeline = w.timeline
      <3>1. CASE Overfull(w.history)
        <4>1. Changes(w, db', {"initial", "history", "snapshots", "strokes", "treeOf",
                               "pageOf", "timelineOf", "roots", "refs", "objects"})
          BY <1>2, <2>1, <3>1, RetainHistoryChanges DEF Commit, w
        <4>2. QED
          BY <4>1 DEF Changes, Fields, NewProject
      <3>2. CASE ~Overfull(w.history)
        BY <1>2, <3>2 DEF Commit, RetainHistory, w
      <3>3. QED
        BY <3>1, <3>2
    <2>3. view = [tree |-> db.tree, page |-> db.page, timeline |-> ShownTimeline(db.timeline)]
      BY <1>2 DEF Agrees, StoredView, View
    <2>4. QED
      BY <2>1, <2>2, <2>3 DEF AcceptedView, StoredView, View
  <1>6. TypeOK'
    BY <1>3 DEF TypeOK, IInv, CommitBatch
  <1>7. QED
    BY <1>3, <1>4, <1>5, <1>6 DEF IInv, CommitBatch, Agrees, AcceptedView

(* Accepting the commit closes the gap.                                    *)
LEMMA AcceptBatchIInv == IInv /\ AcceptBatch => IInv'
  <1> SUFFICES ASSUME IInv, AcceptBatch PROVE IInv'
    OBVIOUS
  <1>1. job \in Batches /\ nextId \in Ids
    BY JobKinds DEF IInv, TypeOK, AcceptBatch, Batches
  <1>2. /\ DbTypeOK(db) /\ TablesAgree(db) /\ db' = db
        /\ session' = AcceptCommit(session, job) /\ view' = AcceptedView(view, job)
        /\ Agrees(session', db', view')
    BY DEF IInv, TypeOK, AcceptBatch, Agrees, AcceptedView
  <1>3. SessionTypeOK(session')
    <2>1. DOMAIN session' = DOMAIN NewSession
          /\ DOMAIN session'.history = DOMAIN NewHistory(EmptyRoot)
      BY <1>1, <1>2, AcceptCommitFields DEF IInv, TypeOK
    <2>2. QED
      BY <1>2, <2>1, SessionTypedByFile DEF Agrees
  <1>4. TypeOK'
    BY <1>1, <1>2, <1>3, StoredViewTyped, SessionAssumption
    DEF TypeOK, IInv, AcceptBatch, Agrees, Ids
  <1>5. QED
    BY <1>2, <1>4 DEF IInv, AcceptBatch

(* After the file has moved its cursor it is one move ahead of the         *)
(* session.                                                                *)
LEMMA PersistMoveIInv == IInv /\ PersistMove => IInv'
  <1> SUFFICES ASSUME IInv, PersistMove PROVE IInv'
    OBVIOUS
  <1> DEFINE m == job
             at == job.target
  <1>1. job \in Moves /\ at \in Cursors
    BY JobKinds DEF IInv, TypeOK, PersistMove, Moves
  <1>2. /\ DbTypeOK(db) /\ TablesAgree(db) /\ Agrees(session, db, view)
        /\ CursorLoads(db, at) /\ db' = PersistHistoryCursor(db, at)
    BY DEF IInv, TypeOK, PersistMove
  <1>3. /\ Changes(db, db', {"cursor", "tree", "page", "timeline"})
        /\ db'.cursor = (IF at.head = None THEN NoCursor ELSE at)
        /\ db'.tree = TreeAt(db, at) /\ db'.page = PageAt(db, at)
        /\ db'.timeline = TimelineAt(db, at)
    BY <1>2 DEF PersistHistoryCursor, Changes, DbTypeOK, Fields, NewProject
  <1>4. TreeAt(db, at) \in AllTrees /\ PageAt(db, at) \in AllPages
        /\ TimelineAt(db, at) \in AllTimelines \cup {Absent}
    BY <1>2 DEF CursorLoads, TreeAt, PageAt, TimelineAt, DbTypeOK, MapsInto
  <1>5. DbTypeOK(db')
    BY <1>1, <1>2, <1>3, <1>4 DEF DbTypeOK, Changes, Fields, NewProject
  <1>6. db.initial # NoCursor /\ (at.head = None => db.initial = at)
    BY <1>1, <1>2, SessionAssumption
    DEF CursorLoads, CursorValid, CursorMatchesSnapshot, TablesAgree
  <1>7. /\ db'.history = db.history /\ db'.snapshots = db.snapshots
        /\ db'.initial = db.initial /\ db'.treeOf = db.treeOf /\ db'.pageOf = db.pageOf
        /\ db'.timelineOf = db.timelineOf /\ db'.schema = db.schema
    BY <1>3 DEF Changes, Fields, NewProject
  <1>8. HasArtwork(db') /\ CurrentCursor(db') = at /\ HasArtwork(db)
    BY <1>1, <1>3, <1>6, <1>7, SessionAssumption DEF HasArtwork, CurrentCursor
  <1>9. TablesAgree(db')
    BY <1>2, <1>3, <1>6, <1>7 DEF TablesAgree
  <1>10. ViewAt(db', at) = StoredView(db')
    BY <1>3, <1>7
    DEF ViewAt, StoredView, View, TreeAt, PageAt, TimelineAt, LayerHistoryEnabled,
        CanvasHistoryEnabled, AnimationEnabled
  <1>11. PersistedCursors(db') = PersistedCursors(db)
    BY <1>7 DEF PersistedCursors, SnapshotOf
  <1>12. MovedTo(session, db', job)
    BY <1>2, <1>7, <1>8, <1>10, <1>11 DEF MovedTo, Agrees, SameHistory, SameCursors
  <1>13. TypeOK'
    BY <1>5 DEF TypeOK, IInv, PersistMove
  <1>14. QED
    BY <1>9, <1>12, <1>13 DEF IInv, PersistMove, MovedTo

(* Accepting the move closes the gap.                                      *)
LEMMA AcceptCursorMoveIInv == IInv /\ AcceptCursorMove => IInv'
  <1> SUFFICES ASSUME IInv, AcceptCursorMove PROVE IInv'
    OBVIOUS
  <1> DEFINE at == job.target
             h  == MovedHistory(session, job)
  <1>1. job \in Moves
    BY JobKinds DEF IInv, TypeOK, AcceptCursorMove
  <1>2. /\ DbTypeOK(db) /\ TablesAgree(db) /\ SessionTypeOK(session)
        /\ MovedTo(session, db, job) /\ CanAcceptMove(session, job)
        /\ session' = AcceptMove(session, job) /\ db' = db /\ view' = ViewAt(db, at)
    BY DEF IInv, TypeOK, AcceptCursorMove
  <1>3. /\ DOMAIN h = DOMAIN NewHistory(EmptyRoot)
        /\ h.nodes = session.history.nodes /\ h.initial = session.history.initial
        /\ h.head = at.head /\ h.current = at.root
    <2>1. h.head = at.head /\ h.current = at.root
      BY <1>2 DEF CanAcceptMove
    <2>2. QED
      BY <1>2, <2>1 DEF MovedHistory, Undo, RedoTo, SessionTypeOK, NewHistory
  <1> HIDE DEF h
  <1>4. /\ DOMAIN session' = DOMAIN NewSession /\ session'.history = h
        /\ session'.snapshot = at.snapshot /\ session'.cursor = at /\ session'.root = at.root
        /\ session'.cursors = session.cursors
    BY <1>2 DEF AcceptMove, SessionTypeOK, NewSession, h
  <1>5. SameHistory(session', db') /\ SameCursors(session', db')
    BY <1>2, <1>3, <1>4 DEF SameHistory, SameCursors, MovedTo
  <1>6. SessionTypeOK(session')
    BY <1>2, <1>3, <1>4, <1>5, SessionTypedByFile
  <1>7. view' = StoredView(db')
    BY <1>2 DEF MovedTo
  <1>8. TypeOK'
    BY <1>2, <1>6, <1>7, StoredViewTyped DEF TypeOK, IInv, AcceptCursorMove
  <1>9. QED
    BY <1>2, <1>5, <1>7, <1>8 DEF IInv, AcceptCursorMove, Agrees

(* A failure keeps the invariant, the session being out of use.            *)
LEMMA FailIInv == IInv /\ Fail => IInv'
  BY DEF IInv, TypeOK, Fail, TransactionFails, FailsAfterCommit

(* Every step keeps the invariant.                                         *)
LEMMA NextIInv == IInv /\ [Next]_vars => IInv'
  <1> SUFFICES ASSUME IInv, [Next]_vars PROVE IInv'
    OBVIOUS
  <1>1. CASE Open
    BY <1>1, OpenEmptyIInv, OpenExistingIInv, StartBlankIInv, ImportPngIInv DEF Open
  <1>2. CASE Request
    BY <1>2, RequestIInv
  <1>3. CASE Work
    BY <1>3, CommitBatchIInv, PersistMoveIInv, AcceptBatchIInv, AcceptCursorMoveIInv DEF Work
  <1>4. CASE Fail
    BY <1>4, FailIInv
  <1>5. CASE Stop
    BY <1>5, StopIInv
  <1>6. CASE UNCHANGED vars
    BY <1>6 DEF vars, IInv, TypeOK, Agrees, Fits, AcceptedView, MovedTo
  <1>7. QED
    BY <1>1, <1>2, <1>3, <1>4, <1>5, <1>6 DEF Next

(* The inductive invariant holds throughout: the file and the session      *)
(* agree between requests and are exactly one request apart in between.    *)
THEOREM Invariance == Spec => []IInv
  BY InitIInv, NextIInv, PTL DEF Spec

-----------------------------------------------------------------------------
(* Results *)

(* The tables, the session and the worker's state keep their types.        *)
THEOREM Typed == Spec => []TypeOK
  <1>1. IInv => TypeOK
    BY DEF IInv
  <1>2. QED
    BY <1>1, Invariance, PTL

(* Between requests the session is what reopening the file would give.     *)
THEOREM SessionIsAlwaysTheProject == Spec => []SessionIsTheProject
  <1>1. IInv => SessionIsTheProject
    BY DEF IInv, SessionIsTheProject, Agrees
  <1>2. QED
    BY <1>1, Invariance, PTL

(* A reader capability is never withdrawn, whatever a commit captures,     *)
(* marks or cuts away.                                                     *)
THEOREM SchemaNeverDecreases == Spec => SchemaNeverGoesBack
  <1> DEFINE Step == db'.schema >= db.schema
  <1>1. ASSUME IInv, [Next]_vars PROVE [Step]_vars
    <2>1. DbTypeOK(db) /\ TablesAgree(db)
      BY <1>1 DEF IInv, TypeOK
    <2>2. db' = db => Step
      BY <2>1, SchemaOrder DEF DbTypeOK
    <2>3. CASE OpenEmpty
      BY <2>1, <2>2, <2>3, SchemaOrder DEF OpenEmpty, PersistLayerTree, DbTypeOK, NewProject
    <2>4. ASSUME NEW r \in Roots, NEW p \in AllPages, ImportPng(r, p) PROVE Step
      BY <2>1, <2>4, SchemaOrder
      DEF ImportPng, PersistLayerTree, PersistCanvasSpec, DbTypeOK, NewProject
    <2>5. CASE CommitBatch
      <3>1. job \in Batches
        BY <1>1, <2>5, JobKinds DEF IInv, TypeOK, CommitBatch
      <3>2. QED
        BY <2>1, <2>5, <3>1, CommitTyped DEF CommitBatch
    <2>6. CASE PersistMove
      BY <2>1, <2>6, SchemaOrder DEF PersistMove, PersistHistoryCursor, DbTypeOK, NewProject
    <2>7. CASE UNCHANGED vars
      BY <2>2, <2>7 DEF vars
    <2>8. CASE Request
      BY <2>2, <2>8
      DEF Request, PrepareStroke, PrepareEdit, PrepareLayers, PreparePage, PrepareAnimation,
          PrepareUndo, PrepareRedo, PrepareRedoTo, PrepareMove, Prepare
    <2>9. CASE OpenExisting \/ StartBlank \/ AcceptBatch \/ AcceptCursorMove \/ Fail \/ Stop
      BY <2>2, <2>9
      DEF OpenExisting, StartBlank, AcceptBatch, AcceptCursorMove, Fail, TransactionFails,
          FailsAfterCommit, Stop
    <2>10. QED
      BY <1>1, <2>3, <2>4, <2>5, <2>6, <2>7, <2>8, <2>9 DEF Next, Open, Work
  <1>2. QED
    BY <1>1, Invariance, PTL DEF Spec, SchemaNeverGoesBack

-----------------------------------------------------------------------------
(* The refinement: each step of the worker is a step of DurableArtwork, or *)
(* changes nothing the promise speaks of.                                  *)

(* What a file says is saved. *)
SavedIn(d) ==
  Shown(IF HasArtwork(d) THEN CurrentCursor(d).root ELSE EmptyRoot, StoredView(d))

(* A project nobody has drawn on has the layers it was created with and no *)
(* animation.                                                              *)
Blank(d) == d.tree \in {Absent, DefaultTree} /\ d.timeline = Absent

Untouched == ~HasArtwork(db) => Blank(db)

(* A session that agrees with the file shows what is saved.                *)
LEMMA AgreeingShows ==
  ASSUME NEW d, NEW s, NEW v, Agrees(s, d, v)
  PROVE  Shown(s.root, v) = SavedIn(d)
  BY DEF Agrees, SameCursors, SavedIn, Bottom, Cursor

(* What is saved is an artwork, and a blank one before the first operation. *)
LEMMA SavedTyped ==
  ASSUME NEW d, DbTypeOK(d)
  PROVE  /\ SavedIn(d) \in [root : Roots, view : AllViews]
         /\ ~HasArtwork(d) /\ Blank(d) =>
              SavedIn(d) \in [root : {EmptyRoot},
                              view : {v \in AllViews :
                                        v.tree = DefaultTree /\ v.timeline = NoTimeline}]
  <1>1. StoredView(d) = [tree |-> d.tree, page |-> d.page,
                         timeline |-> ShownTimeline(d.timeline)]
    BY DEF StoredView, View
  <1>2. /\ d.tree \in AllTrees /\ d.page \in AllPages
        /\ ShownTimeline(d.timeline) \in Timelines \cup {NoTimeline}
    BY DEF DbTypeOK, ShownTimeline, AllTimelines
  <1>3. HasArtwork(d) => CurrentCursor(d).root \in Roots
    BY DEF HasArtwork, CurrentCursor, DbTypeOK, Cursors
  <1> DEFINE shownView == [tree |-> IF d.tree = Absent THEN DefaultTree ELSE d.tree,
                           page |-> d.page, timeline |-> ShownTimeline(d.timeline)]
  <1>4. SavedIn(d) = [root |-> IF HasArtwork(d) THEN CurrentCursor(d).root ELSE EmptyRoot,
                      view |-> shownView]
    BY <1>1 DEF SavedIn, Shown
  <1>5. shownView \in AllViews
    BY <1>2 DEF AllViews, AllTrees
  <1>6. Blank(d) => shownView.tree = DefaultTree /\ shownView.timeline = NoTimeline
    BY DEF Blank, ShownTimeline
  <1> HIDE DEF shownView
  <1>7. QED
    BY <1>3, <1>4, <1>5, <1>6, ProjectAssumption

-----------------------------------------------------------------------------
(* Before the first operation a project stays blank *)

(* Storing a layer tree or a page touches nothing else.                    *)
LEMMA PersistFields ==
  ASSUME NEW d, DbTypeOK(d), NEW x
  PROVE  /\ PersistLayerTree(d, x).timeline = d.timeline
         /\ PersistCanvasSpec(d, x).timeline = d.timeline
         /\ PersistLayerTree(d, x).tree = x
         /\ PersistCanvasSpec(d, x).tree = d.tree
         /\ PersistLayerTree(d, x).page = d.page
         /\ PersistLayerTree(d, x).cursor = d.cursor
         /\ PersistCanvasSpec(d, x).cursor = d.cursor
         /\ PersistLayerTree(d, x).initial = d.initial
         /\ PersistCanvasSpec(d, x).initial = d.initial
  BY DEF PersistLayerTree, PersistCanvasSpec, DbTypeOK, NewProject

(* An accepted operation and a cursor move leave a project with artwork.   *)
LEMMA DurableHasArtwork ==
  ASSUME IInv, CommitBatch \/ PersistMove
  PROVE  HasArtwork(db')
  <1>1. CASE CommitBatch
    <2>1. job \in Batches /\ DbTypeOK(db) /\ TablesAgree(db) /\ CommitAccepted(db, job)
      BY <1>1, JobKinds DEF IInv, TypeOK, CommitBatch
    <2>2. db'.cursor = Cursor(job.id, job.id, job.node.after)
      BY <1>1, <2>1, CommitKeepsTables DEF CommitBatch
    <2>3. db'.cursor \in Cursors
      BY <2>1, <2>2 DEF Batches, Nodes, Cursor, Cursors, Heads
    <2>4. QED
      BY <2>3, SessionAssumption DEF HasArtwork, CurrentCursor, NoCursor
  <1>2. CASE PersistMove
    <2>1. IInv' /\ worker' = "durable" /\ job' = job /\ IsMove(job)
      BY <1>2, PersistMoveIInv DEF PersistMove
    <2>2. QED
      BY <2>1 DEF IInv, MovedTo
  <1>3. QED
    BY <1>1, <1>2

(* A new project is untouched.                                             *)
LEMMA InitUntouched == Init => Untouched
  BY DEF Init, Untouched, Blank, NewProject

(* No step draws on a project without leaving an operation in it.          *)
LEMMA NextUntouched == IInv /\ Untouched /\ [Next]_vars => Untouched'
  <1> SUFFICES ASSUME IInv, Untouched, [Next]_vars PROVE Untouched'
    OBVIOUS
  <1>1. db' = db => Untouched'
    BY DEF Untouched, Blank, HasArtwork, CurrentCursor
  <1>2. DbTypeOK(db)
    BY DEF IInv, TypeOK
  <1>3. CASE OpenEmpty
    BY <1>1, <1>2, <1>3, PersistFields
    DEF OpenEmpty, Untouched, Blank, HasArtwork, CurrentCursor
  <1>4. ASSUME NEW r \in Roots, NEW p \in AllPages, ImportPng(r, p) PROVE Untouched'
    <2> DEFINE e == PersistCanvasSpec(db, p)
    <2>1. e.tree = db.tree /\ e.timeline = db.timeline /\ DbTypeOK(e)
      BY <1>2, PersistFields, PersistTypes
    <2>2. db'.timeline = db.timeline /\ db'.tree = view.tree
      BY <1>4, <2>1, PersistFields DEF ImportPng
    <2>3. view.tree = db.tree /\ ~HasArtwork(db)
      BY <1>4 DEF ImportPng, IInv, Agrees, StoredView, View
    <2>4. QED
      BY <2>2, <2>3 DEF Untouched, Blank
  <1>5. CASE CommitBatch \/ PersistMove
    BY <1>5, DurableHasArtwork DEF Untouched
  <1>6. CASE Request \/ OpenExisting \/ StartBlank \/ AcceptBatch \/ AcceptCursorMove
             \/ Fail \/ Stop \/ UNCHANGED vars
    BY <1>1, <1>6
    DEF Request, PrepareStroke, PrepareEdit, PrepareLayers, PreparePage, PrepareAnimation,
        PrepareUndo, PrepareRedo, PrepareRedoTo, PrepareMove, Prepare, OpenExisting,
        StartBlank, AcceptBatch, AcceptCursorMove, Fail, TransactionFails,
        FailsAfterCommit, Stop, vars
  <1>7. QED
    BY <1>3, <1>4, <1>5, <1>6 DEF Next, Open, Work

-----------------------------------------------------------------------------
(* Each step of the worker, as a step of the promise *)

(* Neither the file nor what is on screen moves.                           *)
LEMMA Stutters ==
  ASSUME db' = db, session' = session, view' = view, worker # "closed", worker' # "closed"
  PROVE  UNCHANGED Artwork!vars
  BY DEF Artwork!vars, SavedArtwork, ShownArtwork, Shown, HasArtwork, CurrentCursor,
         StoredView, View, ShownTimeline

(* A process that starts shows what is saved.                              *)
LEMMA OpenIsOpen == IInv /\ (OpenEmpty \/ OpenExisting) => Artwork!Open
  <1> SUFFICES ASSUME IInv, OpenEmpty \/ OpenExisting PROVE Artwork!Open
    OBVIOUS
  <1>1. worker = "closed" /\ worker' \in {"opening", "idle"}
    BY DEF OpenEmpty, OpenExisting
  <1>2. Agrees(session', db', view')
    <2>1. IInv'
      BY OpenEmptyIInv, OpenExistingIInv
    <2>2. QED
      BY <1>1, <2>1 DEF IInv
  <1>3. ShownArtwork' = SavedIn(db')
    BY <1>1, <1>2, AgreeingShows DEF ShownArtwork
  <1>4. SavedIn(db') = SavedIn(db)
    <2>1. CASE db' = db
      BY <2>1
    <2>2. CASE OpenEmpty /\ db.tree = Absent
      <3>1. db' = PersistLayerTree(db, DefaultTree) /\ DbTypeOK(db) /\ DefaultTree # Absent
        BY <2>2, ProjectAssumption DEF OpenEmpty, IInv, TypeOK
      <3>2. /\ db'.tree = DefaultTree /\ db'.page = db.page /\ db'.timeline = db.timeline
            /\ db'.cursor = db.cursor /\ db'.initial = db.initial
        BY <3>1, PersistFields
      <3>3. QED
        BY <2>2, <3>1, <3>2
        DEF SavedIn, Shown, StoredView, View, HasArtwork, CurrentCursor
    <2>3. QED
      BY <2>1, <2>2 DEF OpenEmpty, OpenExisting
  <1>5. SavedArtwork = SavedIn(db) /\ SavedArtwork' = SavedIn(db')
    BY DEF SavedArtwork, SavedIn
  <1>6. ShownArtwork = SavedArtwork
    BY <1>1 DEF ShownArtwork
  <1>7. QED
    BY <1>1, <1>3, <1>4, <1>5, <1>6 DEF Artwork!Open

(* A picture gives a project nobody has drawn on its page.                 *)
LEMMA ImportAdopts ==
  ASSUME IInv, Untouched, NEW r \in Roots, NEW p \in AllPages, ImportPng(r, p)
  PROVE  \E b \in [root : {EmptyRoot},
                   view : {v \in AllViews :
                             v.tree = DefaultTree /\ v.timeline = NoTimeline}] :
           Artwork!Adopt(b)
  <1>1. /\ worker = "opening" /\ worker' = "prepared" /\ ~HasArtwork(db)
        /\ Agrees(session, db, view) /\ DbTypeOK(db) /\ Blank(db)
    BY DEF ImportPng, IInv, TypeOK, Untouched
  <1>2. IInv'
    BY ImportPngIInv
  <1>3. Agrees(session', db', view') /\ DbTypeOK(db')
    BY <1>1, <1>2 DEF IInv, TypeOK
  <1>4. ~HasArtwork(db') /\ Blank(db')
    <2>1. DbTypeOK(PersistCanvasSpec(db, p))
      BY <1>1, PersistTypes
    <2>2. db'.cursor = db.cursor /\ db'.initial = db.initial /\ db'.timeline = db.timeline
          /\ db'.tree = view.tree
      BY <1>1, <2>1, PersistFields DEF ImportPng
    <2>3. view.tree = db.tree
      BY <1>1 DEF Agrees, StoredView, View
    <2>4. QED
      BY <1>1, <2>2, <2>3 DEF HasArtwork, CurrentCursor, Blank
  <1>5. SavedArtwork = SavedIn(db) /\ SavedArtwork' = SavedIn(db')
    BY DEF SavedArtwork, SavedIn
  <1>6. ShownArtwork = SavedIn(db) /\ ShownArtwork' = SavedIn(db')
    BY <1>1, <1>3, AgreeingShows DEF ShownArtwork
  <1> DEFINE Blanks == [root : {EmptyRoot},
                        view : {v \in AllViews :
                                  v.tree = DefaultTree /\ v.timeline = NoTimeline}]
  <1>7. SavedIn(db) \in Blanks /\ SavedIn(db') \in Blanks
    BY <1>1, <1>3, <1>4, SavedTyped
  <1> HIDE DEF Blanks
  <1>8. Artwork!Adopt(SavedIn(db'))
    BY <1>1, <1>5, <1>6, <1>7 DEF Artwork!Adopt, Blanks
  <1>9. QED
    BY <1>7, <1>8 DEF Blanks

(* A transaction saves, whatever it changes, while the screen shows what   *)
(* was saved before.                                                       *)
LEMMA TransactionSaves ==
  ASSUME IInv, CommitBatch \/ PersistMove
  PROVE  \E a \in [root : Roots, view : AllViews] : Artwork!Save(a)
  <1>1. /\ worker = "prepared" /\ worker' = "durable" /\ session' = session /\ view' = view
        /\ Agrees(session, db, view)
    BY DEF CommitBatch, PersistMove, IInv
  <1>2. DbTypeOK(db')
    <2>1. IInv'
      BY CommitBatchIInv, PersistMoveIInv
    <2>2. QED
      BY <2>1 DEF IInv, TypeOK
  <1>3. SavedArtwork = SavedIn(db) /\ SavedArtwork' = SavedIn(db')
    BY DEF SavedArtwork, SavedIn
  <1>4. ShownArtwork = SavedIn(db) /\ ShownArtwork' = ShownArtwork
    BY <1>1, AgreeingShows DEF ShownArtwork
  <1>5. SavedIn(db') \in [root : Roots, view : AllViews]
    BY <1>2, SavedTyped
  <1>6. Artwork!Save(SavedIn(db'))
    BY <1>1, <1>3, <1>4 DEF Artwork!Save
  <1>7. QED
    BY <1>5, <1>6

(* The session shows what the transaction saved by accepting it.           *)
LEMMA AcceptShows == IInv /\ (AcceptBatch \/ AcceptCursorMove) => Artwork!Show
  <1> SUFFICES ASSUME IInv, AcceptBatch \/ AcceptCursorMove PROVE Artwork!Show
    OBVIOUS
  <1>1. worker = "durable" /\ worker' = "idle" /\ db' = db
    BY DEF AcceptBatch, AcceptCursorMove
  <1>2. Agrees(session', db', view')
    <2>1. IInv'
      BY AcceptBatchIInv, AcceptCursorMoveIInv
    <2>2. QED
      BY <1>1, <2>1 DEF IInv
  <1>3. SavedArtwork = SavedIn(db) /\ SavedArtwork' = SavedIn(db')
    BY DEF SavedArtwork, SavedIn
  <1>4. ShownArtwork' = SavedIn(db')
    BY <1>1, <1>2, AgreeingShows DEF ShownArtwork
  <1>5. QED
    BY <1>1, <1>3, <1>4 DEF Artwork!Show

(* A crash or an exit shows what is saved.                                 *)
LEMMA StopIsStop == Stop => Artwork!Stop
  <1> SUFFICES ASSUME Stop PROVE Artwork!Stop
    OBVIOUS
  <1>1. worker # "closed" /\ worker' = "closed" /\ db' = db
    BY DEF Stop
  <1>2. SavedArtwork' = SavedArtwork
    BY <1>1 DEF SavedArtwork, Shown, HasArtwork, CurrentCursor, StoredView, View,
                ShownTimeline
  <1>3. ShownArtwork' = SavedArtwork'
    BY <1>1 DEF ShownArtwork
  <1>4. QED
    BY <1>1, <1>2, <1>3 DEF Artwork!Stop

(* Every step of the worker is a step of the promise or a stutter.         *)
LEMMA NextImplements ==
  IInv /\ Untouched /\ [Next]_vars => [Artwork!Next]_(Artwork!vars)
  <1> SUFFICES ASSUME IInv, Untouched, [Next]_vars
               PROVE  Artwork!Next \/ UNCHANGED Artwork!vars
    OBVIOUS
  <1>1. CASE OpenEmpty \/ OpenExisting
    BY <1>1, OpenIsOpen DEF Artwork!Next
  <1>2. ASSUME NEW r \in Roots, NEW p \in AllPages, ImportPng(r, p) PROVE Artwork!Next
    BY <1>2, ImportAdopts DEF Artwork!Next
  <1>3. CASE CommitBatch \/ PersistMove
    BY <1>3, TransactionSaves DEF Artwork!Next
  <1>4. CASE AcceptBatch \/ AcceptCursorMove
    BY <1>4, AcceptShows DEF Artwork!Next
  <1>5. CASE Stop
    BY <1>5, StopIsStop DEF Artwork!Next
  <1>6. CASE StartBlank \/ Request \/ Fail
    <2>1. db' = db /\ session' = session /\ view' = view /\ worker # "closed"
          /\ worker' # "closed"
      BY <1>6
      DEF StartBlank, Request, PrepareStroke, PrepareEdit, PrepareLayers, PreparePage,
          PrepareAnimation, PrepareUndo, PrepareRedo, PrepareRedoTo, PrepareMove, Prepare,
          Fail, TransactionFails, FailsAfterCommit
    <2>2. QED
      BY <2>1, Stutters
  <1>7. CASE UNCHANGED vars
    BY <1>7 DEF vars, Artwork!vars, SavedArtwork, ShownArtwork, Shown, HasArtwork,
                CurrentCursor, StoredView, View, ShownTimeline
  <1>8. QED
    BY <1>1, <1>2, <1>3, <1>4, <1>5, <1>6, <1>7 DEF Next, Open, Work

(* A new project is a blank one that no process has open.                  *)
LEMMA InitImplements == Init => Artwork!Init
  <1> SUFFICES ASSUME Init PROVE Artwork!Init
    OBVIOUS
  <1>1. DbTypeOK(db) /\ ~HasArtwork(db) /\ Blank(db)
    BY NewProjectTyped DEF Init, NewProject, HasArtwork, CurrentCursor, Blank
  <1>2. SavedArtwork = SavedIn(db)
    BY DEF SavedArtwork, SavedIn
  <1>3. worker = "closed" /\ ShownArtwork = SavedArtwork
    BY DEF Init, ShownArtwork
  <1>4. QED
    BY <1>1, <1>2, <1>3, SavedTyped DEF Artwork!Init

(* The editor implements DurableArtwork: nothing is on screen that is not  *)
(* durable, at most one saved change is not yet on screen, and a restart   *)
(* shows what was saved, whatever fails or crashes and whenever.           *)
THEOREM EditorIsDurable == Spec => ImplementsDurableArtwork
  <1>1. IInv /\ Untouched /\ [Next]_vars => Untouched'
    BY NextUntouched
  <1>2. Spec => []Untouched
    BY <1>1, InitUntouched, Invariance, PTL DEF Spec
  <1>3. Artwork!Init /\ [][Artwork!Next]_(Artwork!vars) => ImplementsDurableArtwork
    BY DEF ImplementsDurableArtwork, Artwork!Spec
  <1>4. QED
    BY <1>2, <1>3, Invariance, InitImplements, NextImplements, PTL DEF Spec

-----------------------------------------------------------------------------
(* What a commit writes before retention                                   *)

(* The records and the content a commit writes before retention: a record  *)
(* family that is kept, or starts with this commit, has one for the batch, *)
(* and starts with one for every snapshot there is.                        *)
LEMMA WrittenParts ==
  ASSUME NEW d, DbTypeOK(d), NEW b \in Batches
  PROVE  LET w      == Written(d, b)
             known  == KnownSnapshots(d, b)
             stored == {b.node.before, b.node.after}
             new    == stored \ d.roots
         IN /\ LayerHistoryEnabled(w) <=> LayersCaptured(d, b)
            /\ w.treeOf = IF LayersCaptured(d, b)
                          THEN With(IF LayerHistoryEnabled(d) THEN d.treeOf
                                    ELSE Freeze(known, d.tree), b.id, w.tree)
                          ELSE d.treeOf
            /\ CanvasHistoryEnabled(w) <=> CanvasHistoryEnabled(d) \/ b.page # Keep
            /\ w.pageOf = IF CanvasHistoryEnabled(d) \/ b.page # Keep
                          THEN With(IF CanvasHistoryEnabled(d) THEN d.pageOf
                                    ELSE Freeze(known, d.page), b.id, w.page)
                          ELSE d.pageOf
            /\ AnimationEnabled(w) <=>
                 AnimationEnabled(d) \/ b.timeline \notin {Keep, NoTimeline}
            /\ w.timelineOf = IF AnimationEnabled(d) \/ b.timeline \notin {Keep, NoTimeline}
                              THEN With(IF AnimationEnabled(d) THEN d.timelineOf
                                        ELSE Freeze(known, NoTimeline), b.id, w.timeline)
                              ELSE d.timelineOf
            /\ w.roots = d.roots \cup stored
            /\ w.objects = d.objects \cup UNION {ObjectsOf[r] : r \in stored}
            /\ w.refs = [o \in DOMAIN d.refs \cup UNION {ObjectsOf[r] : r \in new} |->
                           (IF o \in DOMAIN d.refs THEN d.refs[o] ELSE 0)
                             + RefCount(new, o)]
  <1> DEFINE l == CaptureLayers(d, b)
             c == CaptureCanvas(l, b)
             a == CaptureAnimation(c, b)
             k == MarkSelection(a, b)
             stored == {b.node.before, b.node.after}
             o == StoreObjects(k, stored)
             r == StoreRoots(o, stored)
             i == InsertBatch(r, b)
             known == KnownSnapshots(d, b)
             paged == CanvasHistoryEnabled(d) \/ b.page # Keep
             moving == AnimationEnabled(d) \/ b.timeline \notin {Keep, NoTimeline}
  <1>1. /\ DOMAIN d = Fields /\ d.schema \in Nat /\ d.schema >= 1 /\ d.schema <= 4
        /\ b.timeline \in AllTimelines \cup {Keep} /\ Absent \notin AllTimelines
    <2>1. DOMAIN d = Fields /\ b.timeline \in AllTimelines \cup {Keep}
      BY DEF DbTypeOK, Fields, Batches
    <2>2. d.schema \in BaseSchema..CanvasHistorySchema
      BY DEF DbTypeOK
    <2>3. Absent \notin AllTimelines
      BY ProjectAssumption, SessionAssumption DEF AllTimelines
    <2>4. QED
      BY <2>1, <2>2, <2>3 DEF BaseSchema, CanvasHistorySchema
  <1>2. /\ Changes(d, l, {"schema", "tree", "treeOf"})
        /\ l.schema = IF LayersCaptured(d, b) /\ d.schema < 2 THEN 2 ELSE d.schema
        /\ l.treeOf = IF LayersCaptured(d, b)
                      THEN With(IF LayerHistoryEnabled(d) THEN d.treeOf
                                ELSE Freeze(known, d.tree), b.id, l.tree)
                      ELSE d.treeOf
    <2>1. Changes(d, l, {"schema", "tree", "treeOf"})
      BY <1>1, CaptureLayersChanges
    <2>2. l.schema = IF LayersCaptured(d, b) /\ d.schema < 2 THEN 2 ELSE d.schema
      BY <1>1 DEF CaptureLayers, Fields, NewProject, LayerHistorySchema
    <2>3. l.treeOf = IF LayersCaptured(d, b)
                     THEN With(IF LayerHistoryEnabled(d) THEN d.treeOf
                               ELSE Freeze(known, d.tree), b.id, l.tree)
                     ELSE d.treeOf
      BY <1>1 DEF CaptureLayers, Fields, NewProject
    <2>4. QED
      BY <2>1, <2>2, <2>3
  <1>3. LayersCaptured(d, b) <=> d.schema >= 2 \/ b.tree # Keep \/ b.selected \/ b.page # Keep
    BY SchemaOrder DEF LayersCaptured, LayerHistoryEnabled
  <1> HIDE DEF l
  <1>4. KnownSnapshots(l, b) = known /\ DOMAIN l = Fields
        /\ (CanvasHistoryEnabled(l) <=> CanvasHistoryEnabled(d))
        /\ (AnimationEnabled(l) <=> AnimationEnabled(d))
    <2>1. KnownSnapshots(l, b) = known /\ DOMAIN l = Fields
      BY <1>2 DEF Changes, KnownSnapshots, Fields, NewProject
    <2>2. l.schema = 4 <=> d.schema = 4
      BY <1>1, <1>2
    <2>3. l.timeline = d.timeline
      BY <1>2 DEF Changes, Fields, NewProject
    <2>4. QED
      BY <2>1, <2>2, <2>3, SchemaOrder DEF CanvasHistoryEnabled, AnimationEnabled
  <1>5. /\ Changes(l, c, {"schema", "page", "pageOf"})
        /\ c.schema = IF paged THEN 4 ELSE l.schema
        /\ c.pageOf = IF paged
                      THEN With(IF CanvasHistoryEnabled(d) THEN d.pageOf
                                ELSE Freeze(known, d.page), b.id, c.page)
                      ELSE d.pageOf
    <2>1. Changes(l, c, {"schema", "page", "pageOf"})
      BY <1>4, CaptureCanvasChanges
    <2>2. l.page = d.page /\ l.pageOf = d.pageOf
      BY <1>2 DEF Changes, Fields, NewProject
    <2>3. c.schema = IF paged THEN 4 ELSE l.schema
      BY <1>4 DEF CaptureCanvas, Fields, NewProject, CanvasHistorySchema
    <2>4. c.pageOf = IF paged
                     THEN With(IF CanvasHistoryEnabled(d) THEN d.pageOf
                               ELSE Freeze(known, d.page), b.id, c.page)
                     ELSE d.pageOf
      BY <1>4, <2>2 DEF CaptureCanvas, Fields, NewProject
    <2>5. QED
      BY <2>1, <2>3, <2>4
  <1> HIDE DEF c
  <1>6. KnownSnapshots(c, b) = known /\ DOMAIN c = Fields
        /\ c.timeline = d.timeline /\ c.timelineOf = d.timelineOf
        /\ (AnimationEnabled(c) <=> AnimationEnabled(d))
    <2>1. KnownSnapshots(c, b) = known /\ DOMAIN c = Fields
      BY <1>4, <1>5 DEF Changes, KnownSnapshots, Fields, NewProject
    <2>2. c.timeline = d.timeline /\ c.timelineOf = d.timelineOf
      BY <1>2, <1>5 DEF Changes, Fields, NewProject
    <2>3. QED
      BY <2>1, <2>2 DEF AnimationEnabled
  <1>7. /\ Changes(c, a, {"timeline", "timelineOf"})
        /\ AnimationEnabled(a) <=> moving
        /\ a.timelineOf = IF moving
                          THEN With(IF AnimationEnabled(d) THEN d.timelineOf
                                    ELSE Freeze(known, NoTimeline), b.id, a.timeline)
                          ELSE d.timelineOf
    <2>1. Changes(c, a, {"timeline", "timelineOf"})
      BY <1>6 DEF CaptureAnimation, Changes, Fields, NewProject
    <2>2. a.timelineOf = IF moving
                         THEN With(IF AnimationEnabled(d) THEN d.timelineOf
                                   ELSE Freeze(known, NoTimeline), b.id, a.timeline)
                         ELSE d.timelineOf
      BY <1>6 DEF CaptureAnimation, Fields, NewProject
    <2>3. a.timeline = IF moving THEN IF b.timeline = Keep THEN d.timeline ELSE b.timeline
                       ELSE d.timeline
      BY <1>6 DEF CaptureAnimation, Fields, NewProject
    <2>4. AnimationEnabled(a) <=> moving
      BY <1>1, <2>3 DEF AnimationEnabled
    <2>5. QED
      BY <2>1, <2>2, <2>4
  <1> HIDE DEF a
  <1>8. /\ Changes(a, k, {"schema"})
        /\ k.schema = IF b.selected /\ a.schema < 3 THEN 3 ELSE a.schema
    BY <1>6, <1>7 DEF Changes, MarkSelection, Fields, NewProject, SelectionSchema
  <1> HIDE DEF k
  <1>9. /\ Changes(k, o, {"objects"})
        /\ o.objects = k.objects \cup UNION {ObjectsOf[x] : x \in stored}
    BY <1>8 DEF Changes, StoreObjects, Fields, NewProject
  <1> HIDE DEF o
  <1>10. /\ Changes(o, r, {"roots", "refs"})
         /\ r.roots = o.roots \cup stored
         /\ r.refs = [x \in DOMAIN o.refs \cup UNION {ObjectsOf[y] : y \in stored \ o.roots} |->
                        (IF x \in DOMAIN o.refs THEN o.refs[x] ELSE 0)
                          + RefCount(stored \ o.roots, x)]
    BY <1>9 DEF Changes, StoreRoots, Fields, NewProject
  <1> HIDE DEF r
  <1>11. Changes(r, i, {"strokes", "history", "snapshots", "cursor", "initial"})
    <2>1. DOMAIN r = Fields
      BY <1>10 DEF Changes
    <2>2. QED
      BY <2>1, InsertBatchChanges
  <1> HIDE DEF i
  <1>12. Written(d, b) = i
    BY DEF Written, CaptureMetadata, i, r, o, stored, k, a, c, l
  <1>13. /\ i.schema = k.schema /\ a.schema = c.schema
         /\ i.treeOf = l.treeOf /\ i.tree = l.tree
         /\ i.pageOf = c.pageOf /\ i.page = c.page
         /\ i.timelineOf = a.timelineOf /\ i.timeline = a.timeline
         /\ i.roots = r.roots /\ i.refs = r.refs /\ i.objects = o.objects
         /\ k.objects = d.objects /\ o.roots = d.roots /\ o.refs = d.refs
    <2>1. /\ l.pageOf = d.pageOf /\ l.timelineOf = d.timelineOf /\ l.objects = d.objects
          /\ l.roots = d.roots /\ l.refs = d.refs
      BY <1>2 DEF Changes, Fields, NewProject
    <2>2. /\ c.treeOf = l.treeOf /\ c.tree = l.tree /\ c.timelineOf = l.timelineOf
          /\ c.objects = l.objects /\ c.roots = l.roots /\ c.refs = l.refs
      BY <1>5 DEF Changes, Fields, NewProject
    <2>3. /\ a.treeOf = c.treeOf /\ a.tree = c.tree /\ a.pageOf = c.pageOf /\ a.page = c.page
          /\ a.schema = c.schema /\ a.objects = c.objects /\ a.roots = c.roots /\ a.refs = c.refs
      BY <1>7 DEF Changes, Fields, NewProject
    <2>4. /\ k.treeOf = a.treeOf /\ k.tree = a.tree /\ k.pageOf = a.pageOf /\ k.page = a.page
          /\ k.timelineOf = a.timelineOf /\ k.timeline = a.timeline
          /\ k.objects = a.objects /\ k.roots = a.roots /\ k.refs = a.refs
      BY <1>8 DEF Changes, Fields, NewProject
    <2>5. /\ o.treeOf = k.treeOf /\ o.tree = k.tree /\ o.pageOf = k.pageOf /\ o.page = k.page
          /\ o.timelineOf = k.timelineOf /\ o.timeline = k.timeline /\ o.schema = k.schema
          /\ o.roots = k.roots /\ o.refs = k.refs
      BY <1>9 DEF Changes, Fields, NewProject
    <2>6. /\ r.treeOf = o.treeOf /\ r.tree = o.tree /\ r.pageOf = o.pageOf /\ r.page = o.page
          /\ r.timelineOf = o.timelineOf /\ r.timeline = o.timeline /\ r.schema = o.schema
          /\ r.objects = o.objects
      BY <1>10 DEF Changes, Fields, NewProject
    <2>7. /\ i.treeOf = r.treeOf /\ i.tree = r.tree /\ i.pageOf = r.pageOf /\ i.page = r.page
          /\ i.timelineOf = r.timelineOf /\ i.timeline = r.timeline /\ i.schema = r.schema
          /\ i.roots = r.roots /\ i.refs = r.refs /\ i.objects = r.objects
      BY <1>11 DEF Changes, Fields, NewProject
    <2>8. QED
      BY <2>1, <2>2, <2>3, <2>4, <2>5, <2>6, <2>7
  <1>14. /\ LayerHistoryEnabled(i) <=> LayersCaptured(d, b)
         /\ CanvasHistoryEnabled(i) <=> paged
    <2>1. CanvasHistoryEnabled(d) <=> d.schema = 4
      BY DEF CanvasHistoryEnabled, CanvasHistorySchema
    <2>2. i.schema >= 2 <=> LayersCaptured(d, b)
      BY <1>1, <1>2, <1>3, <1>5, <1>8, <1>13, <2>1
    <2>3. i.schema = 4 <=> paged
      BY <1>1, <1>2, <1>3, <1>5, <1>8, <1>13, <2>1
    <2>4. QED
      BY <2>2, <2>3, SchemaOrder DEF LayerHistoryEnabled, CanvasHistoryEnabled
  <1>15. AnimationEnabled(i) <=> moving
    BY <1>7, <1>13 DEF AnimationEnabled
  <1> HIDE DEF known
  <1>16. QED
    BY <1>2, <1>5, <1>7, <1>9, <1>10, <1>12, <1>13, <1>14, <1>15 DEF known

-----------------------------------------------------------------------------
(* Ids *)

(* The snapshots some metadata record is kept for.                         *)
RecordKeys(d) == DOMAIN d.treeOf \cup DOMAIN d.pageOf \cup DOMAIN d.timelineOf

(* Only an operation of the file and the bottom have records.              *)
Recorded(d) ==
  /\ d.initial = NoCursor => RecordKeys(d) = {}
  /\ d.initial # NoCursor => RecordKeys(d) \subseteq DOMAIN d.history \cup {d.initial.snapshot}

(* Every id the file has used is smaller than n.                           *)
Below(d, n) ==
  /\ \A id \in DOMAIN d.history : id < n
  /\ d.initial # NoCursor => d.initial.snapshot < n

(* A batch uses up nextId by becoming durable, before the session counts   *)
(* on.                                                                     *)
Numbered ==
  /\ Recorded(db)
  /\ worker \in {"opening", "idle", "prepared"} => Below(db, nextId)
  /\ worker = "durable" => Below(db, IF IsMove(job) THEN nextId ELSE nextId + 1)

(* What a commit may add to the records of a file.                         *)
LEMMA WrittenRecords ==
  ASSUME NEW d, DbTypeOK(d), NEW b \in Batches
  PROVE  RecordKeys(Written(d, b)) \subseteq
           RecordKeys(d) \cup KnownSnapshots(d, b) \cup {b.id}
  <1> DEFINE w == Written(d, b)
             known == KnownSnapshots(d, b)
             new == known \cup {b.id}
             layers == IF LayerHistoryEnabled(d) THEN d.treeOf ELSE Freeze(known, d.tree)
             pages == IF CanvasHistoryEnabled(d) THEN d.pageOf ELSE Freeze(known, d.page)
             cels == IF AnimationEnabled(d) THEN d.timelineOf ELSE Freeze(known, NoTimeline)
  <1>1. /\ w.treeOf \in {d.treeOf, With(layers, b.id, w.tree)}
        /\ w.pageOf \in {d.pageOf, With(pages, b.id, w.page)}
        /\ w.timelineOf \in {d.timelineOf, With(cels, b.id, w.timeline)}
    <2>1. /\ w.treeOf = IF LayersCaptured(d, b) THEN With(layers, b.id, w.tree) ELSE d.treeOf
          /\ w.pageOf = IF CanvasHistoryEnabled(d) \/ b.page # Keep
                        THEN With(pages, b.id, w.page) ELSE d.pageOf
          /\ w.timelineOf = IF AnimationEnabled(d) \/ b.timeline \notin {Keep, NoTimeline}
                            THEN With(cels, b.id, w.timeline) ELSE d.timelineOf
      BY WrittenParts
    <2> HIDE DEF w, layers, pages, cels
    <2>2. QED
      BY <2>1
  <1>2. /\ DOMAIN With(layers, b.id, w.tree) = DOMAIN layers \cup {b.id}
        /\ DOMAIN With(pages, b.id, w.page) = DOMAIN pages \cup {b.id}
        /\ DOMAIN With(cels, b.id, w.timeline) = DOMAIN cels \cup {b.id}
    BY DEF With
  <1>3. /\ DOMAIN layers \subseteq DOMAIN d.treeOf \cup known
        /\ DOMAIN pages \subseteq DOMAIN d.pageOf \cup known
        /\ DOMAIN cels \subseteq DOMAIN d.timelineOf \cup known
    BY DEF Freeze
  <1> HIDE DEF w, known, layers, pages, cels
  <1>4. /\ DOMAIN w.treeOf \subseteq DOMAIN d.treeOf \cup new
        /\ DOMAIN w.pageOf \subseteq DOMAIN d.pageOf \cup new
        /\ DOMAIN w.timelineOf \subseteq DOMAIN d.timelineOf \cup new
    <2>1. DOMAIN w.treeOf \subseteq DOMAIN d.treeOf \cup new
      BY <1>1, <1>2, <1>3
    <2>2. DOMAIN w.pageOf \subseteq DOMAIN d.pageOf \cup new
      BY <1>1, <1>2, <1>3
    <2>3. DOMAIN w.timelineOf \subseteq DOMAIN d.timelineOf \cup new
      BY <1>1, <1>2, <1>3
    <2>4. QED
      BY <2>1, <2>2, <2>3
  <1>5. QED
    BY <1>4 DEF RecordKeys, w, known

(* The ids of a file after a commit are those before it and the batch's.   *)
LEMMA CommitNumbers ==
  ASSUME NEW d, DbTypeOK(d), TablesAgree(d), NEW b \in Batches, CommitAccepted(d, b),
         NEW s, SessionTypeOK(s), SameCursors(s, d), Fits(s, b),
         Recorded(d), Below(d, b.id)
  PROVE  Recorded(Commit(d, b)) /\ Below(Commit(d, b), b.id + 1)
  <1> DEFINE w == Written(d, b)
             c == Commit(d, b)
             base == Baseline(w.history, b.id)
  <1>1. /\ DOMAIN w = Fields
        /\ w.history = With(d.history, b.id, b.node)
        /\ w.snapshots = With(d.snapshots, b.id,
                 [head |-> b.id, before |-> b.node.before, after |-> b.node.after,
                  stroke |-> b.stroke])
        /\ w.cursor = Cursor(b.id, b.id, b.node.after)
        /\ w.initial = IF b.node.parent = None /\ d.initial = NoCursor
                       THEN Cursor(FirstSnapshot(b), None, b.node.before)
                       ELSE d.initial
    BY WrittenChanges DEF DbTypeOK, Fields, Batches
  <1>2. /\ DOMAIN c = Fields /\ TablesAgree(c) /\ TablesAgree(w)
        /\ MapsInto(w.history, Ids, Nodes)
        /\ c.history = RetainedNodes(w.history, b.id)
        /\ w.initial \in Cursors
        /\ base = None => c.initial = w.initial
        /\ base # None => base \in DOMAIN w.history
                          /\ c.initial = Cursor(base, None, w.snapshots[base].after)
    BY CommitKeepsTables
  <1>3. RecordKeys(w) \subseteq RecordKeys(d) \cup KnownSnapshots(d, b) \cup {b.id}
    BY WrittenRecords
  <1>4. b.id \in Ids /\ b.id \in Nat /\ b.id > 0
    BY SessionAssumption DEF Batches, Ids
  <1>5. DOMAIN c.history \subseteq DOMAIN w.history
    BY <1>2, RetainedNodesTyped
  <1>6. Commit(d, b) = RetainHistory(w)
    BY DEF Commit
  <1>7. w.initial # NoCursor /\ c.initial # NoCursor
    <2>1. c.cursor = Cursor(b.id, b.id, b.node.after)
      BY CommitKeepsTables
    <2>2. c.cursor \in Cursors
      BY <2>1 DEF Batches, Nodes, Cursor, Cursors, Heads
    <2> HIDE DEF w, c
    <2>3. QED
      BY <1>2, <2>2, SessionAssumption DEF TablesAgree
  <1> HIDE DEF w, c
  (* The bottom before the commit. *)
  <1>8. ASSUME d.initial # NoCursor
        PROVE  /\ RecordKeys(w) \subseteq DOMAIN w.history \cup {w.initial.snapshot}
               /\ \A id \in DOMAIN w.history : id < b.id + 1
               /\ w.initial.snapshot < b.id + 1
    <2>1. w.initial = d.initial
      BY <1>1, <1>8
    <2>2. RecordKeys(w) \subseteq DOMAIN w.history \cup {w.initial.snapshot}
      BY <1>1, <1>3, <1>8, <2>1 DEF Recorded, KnownSnapshots, TablesAgree, With
    <2>3. \A id \in DOMAIN w.history : id < b.id + 1
      <3>1. \A id \in DOMAIN d.history : id \in Nat /\ id < b.id
        BY SessionAssumption DEF Below, DbTypeOK, MapsInto, Ids
      <3>2. QED
        BY <1>1, <1>4, <3>1 DEF With
    <2>4. w.initial.snapshot < b.id + 1
      <3>1. d.initial.snapshot \in Nat /\ d.initial.snapshot < b.id
        BY <1>8, SessionAssumption DEF Below, DbTypeOK, Cursors, Heads, Ids
      <3>2. QED
        BY <1>4, <2>1, <3>1
    <2>5. QED
      BY <2>2, <2>3, <2>4
  <1>9. ASSUME d.initial = NoCursor
        PROVE  /\ RecordKeys(w) \subseteq DOMAIN w.history \cup {w.initial.snapshot}
               /\ \A id \in DOMAIN w.history : id < b.id + 1
               /\ w.initial.snapshot < b.id + 1
    <2>1. CurrentCursor(d) = NoCursor /\ ~HasArtwork(d) /\ DOMAIN d.history = {}
      BY <1>9 DEF CurrentCursor, TablesAgree, HasArtwork
    <2>2. b.node.parent = None /\ w.initial = Cursor(FirstSnapshot(b), None, b.node.before)
      BY <1>1, <1>9, <2>1 DEF CommitAccepted, LineageHolds
    <2>3. FirstSnapshot(b) = 0
      BY <2>1 DEF FirstSnapshot, Fits, SameCursors, Bottom, Cursor
    <2>4. w.initial.snapshot = 0
      BY <2>2, <2>3 DEF Cursor
    <2>5. KnownSnapshots(d, b) = {0} /\ RecordKeys(d) = {}
      BY <1>9, <2>1, <2>3 DEF KnownSnapshots, TablesAgree, Recorded
    <2>6. DOMAIN w.history = {b.id}
      BY <1>1, <2>1 DEF With
    <2>7. QED
      BY <1>3, <1>4, <2>4, <2>5, <2>6
  <1>10. /\ RecordKeys(w) \subseteq DOMAIN w.history \cup {w.initial.snapshot}
         /\ \A id \in DOMAIN w.history : id < b.id + 1
         /\ w.initial.snapshot < b.id + 1
    BY <1>8, <1>9
  <1>11. Below(c, b.id + 1)
    <2>1. c.initial.snapshot < b.id + 1
      <3>1. CASE base = None
        BY <1>2, <1>10, <3>1
      <3>2. CASE base # None
        BY <1>2, <1>10, <3>2 DEF Cursor
      <3>3. QED
        BY <3>1, <3>2
    <2>2. QED
      BY <1>5, <1>10, <2>1 DEF Below
  <1>12. Recorded(c)
    <2>1. CASE ~Overfull(w.history)
      <3>1. c = w
        BY <1>6, <2>1 DEF RetainHistory, c
      <3>2. QED
        BY <1>7, <1>10, <3>1 DEF Recorded
    <2>2. CASE Overfull(w.history)
      <3>1. /\ c.initial = KeptInitial(w)
            /\ c.snapshots = Keeping(w.snapshots, KeptSnapshots(w))
            /\ c.treeOf = Keeping(w.treeOf, RetainedRecords(w))
            /\ c.pageOf = Keeping(w.pageOf, RetainedRecords(w))
            /\ c.timelineOf = Keeping(w.timelineOf, RetainedRecords(w))
        BY <1>1, <1>6, <2>2, RetainHistoryChanges DEF c
      <3>2. KeptSnapshots(w) \subseteq DOMAIN w.snapshots
        BY DEF KeptSnapshots
      <3>3. DOMAIN c.snapshots = KeptSnapshots(w)
        BY <3>1, <3>2 DEF Keeping
      <3>4. RetainedRecords(w) = DOMAIN c.history \cup {c.initial.snapshot}
        BY <1>2, <3>1, <3>3 DEF RetainedRecords, TablesAgree
      <3>5. RecordKeys(c) \subseteq RetainedRecords(w)
        BY <3>1 DEF RecordKeys, Keeping
      <3>6. QED
        BY <1>7, <3>4, <3>5 DEF Recorded
    <2>3. QED
      BY <2>1, <2>2
  <1>13. QED
    BY <1>11, <1>12 DEF c

(* next_project_id is larger than every id the session knows.              *)
LEMMA NextProjectIdAbove ==
  ASSUME NEW s, SessionTypeOK(s)
  PROVE  \A n \in DOMAIN s.cursors : n < NextProjectId(s) /\ s.cursors[n].snapshot < NextProjectId(s)
  <1> DEFINE known == {s.snapshot} \cup {s.cursors[n].snapshot : n \in DOMAIN s.cursors}
                        \cup DOMAIN s.cursors
             top == CHOOSE m \in known : \A k \in known : k <= m
  <1>1. known \subseteq Heads /\ known # {}
    BY DEF SessionTypeOK, MapsInto, Cursors
  <1>2. NextProjectId(s) = 1 + top
    BY DEF NextProjectId
  <1>3. ASSUME NEW n \in DOMAIN s.cursors
        PROVE  n \in known /\ s.cursors[n].snapshot \in known
    OBVIOUS
  <1> HIDE DEF known
  <1>4. \E m \in known : \A k \in known : k <= m
    BY <1>1, LargestOfIds
  <1>5. top \in known /\ \A k \in known : k <= top
    BY <1>4
  <1>6. \A k \in known : k \in Int
    BY <1>1, SessionAssumption DEF Heads, Ids
  <1> HIDE DEF top
  <1>7. \A k \in known : k < 1 + top
    BY <1>5, <1>6
  <1>8. QED
    BY <1>2, <1>3, <1>7

(* A new project has used no id.                                           *)
LEMMA InitNumbered == Init => Numbered
  BY DEF Init, Numbered, Recorded, RecordKeys, NewProject, EmptyMap

(* Nothing about the file's ids changes.                                   *)
LEMMA SameNumbers ==
  ASSUME NEW d, NEW e, Changes(d, e, {"cursor", "tree", "page", "timeline"})
  PROVE  /\ Recorded(d) => Recorded(e)
         /\ \A n : Below(d, n) => Below(e, n)
  BY DEF Changes, Recorded, RecordKeys, Below, Fields, NewProject

(* Every step counts on.                                                   *)
LEMMA NextNumbered == IInv /\ Numbered /\ [Next]_vars => Numbered'
  <1> SUFFICES ASSUME IInv, Numbered, [Next]_vars PROVE Numbered'
    OBVIOUS
  <1>1. DbTypeOK(db) /\ TablesAgree(db) /\ SessionTypeOK(session) /\ Recorded(db)
    BY DEF IInv, TypeOK, Numbered
  <1>2. CASE OpenEmpty
    <2>1. Changes(db, db', {"cursor", "tree", "page", "timeline"})
      BY <1>1, <1>2, PersistTypes, ProjectAssumption
      DEF OpenEmpty, Changes, DbTypeOK, Fields, AllTrees
    <2>2. db.initial = NoCursor /\ DOMAIN db.history = {}
      BY <1>1, <1>2 DEF OpenEmpty, HasArtwork, CurrentCursor, TablesAgree
    <2>3. Below(db, nextId')
      BY <2>2 DEF Below
    <2>4. QED
      BY <1>1, <1>2, <2>1, <2>3, SameNumbers DEF Numbered, OpenEmpty
  <1>3. CASE OpenExisting
    <2>1. /\ SessionTypeOK(session') /\ SameCursors(session', db') /\ db' = db
          /\ nextId' = NextProjectId(session') /\ worker' = "idle" /\ HasArtwork(db)
      <3>1. IInv'
        BY <1>3, OpenExistingIInv
      <3>2. QED
        BY <1>3, <3>1 DEF OpenExisting, IInv, TypeOK, Agrees
    <2>2. session'.cursors = PersistedCursors(db)
      BY <2>1 DEF SameCursors
    <2>3. DOMAIN session'.cursors = DOMAIN db.history \cup {None}
          /\ session'.cursors[None] = db.initial
      BY <2>2 DEF PersistedCursors
    <2>4. Below(db', nextId')
      BY <2>1, <2>3, NextProjectIdAbove DEF Below
    <2>5. QED
      BY <1>1, <2>1, <2>4 DEF Numbered
  <1>4. CASE StartBlank
    BY <1>4 DEF StartBlank, Numbered
  <1>5. ASSUME NEW r \in Roots, NEW p \in AllPages, ImportPng(r, p) PROVE Numbered'
    <2>1. /\ Changes(db, PersistCanvasSpec(db, p), {"tree", "page", "timeline"})
          /\ DbTypeOK(PersistCanvasSpec(db, p)) /\ view.tree \in AllTrees
      BY <1>1, PersistTypes DEF IInv, TypeOK
    <2>2. Changes(PersistCanvasSpec(db, p), db', {"tree", "page", "timeline"})
      BY <1>5, <2>1, PersistTypes DEF ImportPng
    <2>3. Changes(db, db', {"cursor", "tree", "page", "timeline"})
      BY <2>1, <2>2 DEF Changes
    <2>4. QED
      BY <1>5, <2>3, SameNumbers DEF Numbered, ImportPng
  <1>6. CASE Request
    <2>1. worker = "idle" /\ worker' = "prepared" /\ db' = db /\ nextId' = nextId
      BY <1>6
      DEF Request, PrepareStroke, PrepareEdit, PrepareLayers, PreparePage,
          PrepareAnimation, PrepareUndo, PrepareRedo, PrepareRedoTo, PrepareMove, Prepare
    <2>2. QED
      BY <2>1 DEF Numbered
  <1>7. CASE CommitBatch
    <2>1. /\ job \in Batches /\ job.id = nextId /\ Fits(session, job)
          /\ SameCursors(session, db) /\ CommitAccepted(db, job) /\ Below(db, nextId)
          /\ db' = Commit(db, job) /\ worker' = "durable" /\ job' = job /\ nextId' = nextId
          /\ ~IsMove(job)
      BY <1>7, JobKinds DEF CommitBatch, IInv, TypeOK, Agrees, Numbered
    <2>2. Recorded(db') /\ Below(db', nextId + 1)
      BY <1>1, <2>1, CommitNumbers
    <2>3. QED
      BY <2>1, <2>2 DEF Numbered
  <1>8. CASE PersistMove
    <2>1. Changes(db, db', {"cursor", "tree", "page", "timeline"})
      BY <1>1, <1>8 DEF PersistMove, PersistHistoryCursor, Changes, DbTypeOK, Fields, NewProject
    <2>2. QED
      BY <1>8, <2>1, SameNumbers DEF Numbered, PersistMove
  <1>9. CASE AcceptBatch \/ AcceptCursorMove
    BY <1>9 DEF AcceptBatch, AcceptCursorMove, Numbered
  <1>10. CASE Fail \/ Stop
    BY <1>10 DEF Fail, TransactionFails, FailsAfterCommit, Stop, Numbered
  <1>11. CASE UNCHANGED vars
    BY <1>11 DEF vars, Numbered, IsMove
  <1>12. QED
    BY <1>2, <1>3, <1>4, <1>5, <1>6, <1>7, <1>8, <1>9, <1>10, <1>11
    DEF Next, Open, Work

(* The next id names nothing in the file, also after a restart: counting   *)
(* resumes above every operation and above the bottom, and only these have *)
(* records.                                                                *)
THEOREM IdsAreFresh == Spec => []NextIdIsFresh
  <1>1. IInv /\ Numbered => NextIdIsFresh
    <2> SUFFICES ASSUME IInv, Numbered, worker \in {"opening", "idle", "prepared"},
                        NEW id \in DOMAIN db.history \cup DOMAIN db.snapshots \cup RecordKeys(db)
                 PROVE  id < nextId
      BY DEF NextIdIsFresh, RecordKeys
    <2>1. Recorded(db) /\ Below(db, nextId) /\ DOMAIN db.snapshots = DOMAIN db.history
      BY DEF Numbered, IInv, TablesAgree
    <2>2. QED
      BY <2>1 DEF Recorded, Below
  <1>2. Spec => []Numbered
    BY InitNumbered, NextNumbered, Invariance, PTL DEF Spec
  <1>3. QED
    BY <1>1, <1>2, Invariance, PTL

-----------------------------------------------------------------------------
(* Content: roots, objects and the counts between them                     *)

(* How many manifests name an object: none exactly when none does, and     *)
(* counts of different manifests add up.                                   *)
LEMMA Counts ==
  ASSUME NEW R, IsFiniteSet(R), NEW o
  PROVE  /\ RefCount(R, o) \in Nat
         /\ RefCount(R, o) = 0 <=> o \notin UNION {ObjectsOf[r] : r \in R}
         /\ \A S \in SUBSET R :
              /\ RefCount(S, o) \in Nat /\ RefCount(S, o) <= RefCount(R, o)
              /\ RefCount(R \ S, o) = RefCount(R, o) - RefCount(S, o)
  <1> DEFINE N(S) == {r \in S : o \in ObjectsOf[r]}
  <1>1. IsFiniteSet(N(R))
    BY FS_Subset
  <1>2. RefCount(R, o) \in Nat
    BY <1>1, FS_CardinalityType DEF RefCount
  <1>3. RefCount(R, o) = 0 <=> N(R) = {}
    BY <1>1, FS_EmptySet DEF RefCount
  <1>4. N(R) = {} <=> o \notin UNION {ObjectsOf[r] : r \in R}
    OBVIOUS
  <1>5. ASSUME NEW S \in SUBSET R
        PROVE  /\ RefCount(S, o) \in Nat /\ RefCount(S, o) <= RefCount(R, o)
               /\ RefCount(R \ S, o) = RefCount(R, o) - RefCount(S, o)
    <2>1. /\ IsFiniteSet(N(S)) /\ IsFiniteSet(N(R \ S))
          /\ N(S) \cup N(R \ S) = N(R) /\ N(S) \cap N(R \ S) = {}
      <3>1. N(S) \subseteq N(R) /\ N(R \ S) \subseteq N(R)
        OBVIOUS
      <3>2. N(S) \cup N(R \ S) = N(R) /\ N(S) \cap N(R \ S) = {}
        OBVIOUS
      <3>3. QED
        BY <1>1, <3>1, <3>2, FS_Subset
    <2>2. /\ Cardinality(N(S)) \in Nat /\ Cardinality(N(R \ S)) \in Nat
          /\ Cardinality(N(R)) = Cardinality(N(S)) + Cardinality(N(R \ S))
      <3> HIDE DEF N
      <3>1. Cardinality(N(S) \cup N(R \ S)) =
              Cardinality(N(S)) + Cardinality(N(R \ S)) - Cardinality(N(S) \cap N(R \ S))
        BY <2>1, FS_Union
      <3>2. Cardinality(N(S) \cap N(R \ S)) = 0
        BY <2>1, FS_EmptySet
      <3>3. Cardinality(N(S)) \in Nat /\ Cardinality(N(R \ S)) \in Nat
        BY <2>1, FS_CardinalityType
      <3>4. Cardinality(N(S) \cup N(R \ S)) = Cardinality(N(R))
        BY <2>1
      <3>5. QED
        BY <3>1, <3>2, <3>3, <3>4
    <2>3. QED
      BY <2>2 DEF RefCount
  <1>6. QED
    BY <1>2, <1>3, <1>4, <1>5

(* The objects and counts of a file are those of its manifests.            *)
Counted(d) ==
  /\ IsFiniteSet(d.roots)
  /\ d.objects = UNION {ObjectsOf[r] : r \in d.roots}
  /\ d.refs = [o \in d.objects |-> RefCount(d.roots, o)]

(* Storing two roots keeps count.                                          *)
LEMMA StoredCount ==
  ASSUME NEW d, Counted(d), NEW stored, IsFiniteSet(stored), NEW e,
         e.roots = d.roots \cup stored,
         e.objects = d.objects \cup UNION {ObjectsOf[r] : r \in stored},
         e.refs = [o \in DOMAIN d.refs \cup UNION {ObjectsOf[r] : r \in stored \ d.roots} |->
                     (IF o \in DOMAIN d.refs THEN d.refs[o] ELSE 0)
                       + RefCount(stored \ d.roots, o)]
  PROVE  Counted(e)
  <1> DEFINE new == stored \ d.roots
  <1>1. IsFiniteSet(e.roots) /\ e.roots = d.roots \cup new /\ d.roots \subseteq e.roots
        /\ e.roots \ d.roots = new
    <2>1. IsFiniteSet(d.roots \cup stored)
      BY FS_Union DEF Counted
    <2>2. QED
      BY <2>1
  <1>2. e.objects = UNION {ObjectsOf[r] : r \in e.roots}
        /\ DOMAIN d.refs = d.objects
        /\ DOMAIN e.refs = e.objects
    BY <1>1 DEF Counted
  <1>3. ASSUME NEW o \in e.objects
        PROVE  e.refs[o] = RefCount(e.roots, o)
    <2>1. /\ RefCount(e.roots, o) \in Nat /\ RefCount(d.roots, o) \in Nat
          /\ RefCount(new, o) = RefCount(e.roots, o) - RefCount(d.roots, o)
      <3> HIDE DEF new
      <3>1. IsFiniteSet(e.roots) /\ d.roots \in SUBSET e.roots /\ e.roots \ d.roots = new
        BY <1>1
      <3> DEFINE R == e.roots
                 S == d.roots
      <3>2. /\ RefCount(R, o) \in Nat /\ RefCount(S, o) \in Nat
            /\ RefCount(R \ S, o) = RefCount(R, o) - RefCount(S, o)
        <4>1. IsFiniteSet(R) /\ S \in SUBSET R
          BY <3>1
        <4> HIDE DEF R, S
        <4>2. QED
          BY <4>1, Counts
      <3>3. QED
        BY <3>1, <3>2
    <2>2. e.refs[o] = (IF o \in d.objects THEN d.refs[o] ELSE 0) + RefCount(new, o)
      BY <1>2, <1>3
    <2>3. CASE o \in d.objects
      <3>1. d.refs[o] = RefCount(d.roots, o)
        BY <2>3 DEF Counted
      <3> HIDE DEF new
      <3>2. QED
        BY <2>1, <2>2, <2>3, <3>1
    <2>4. CASE o \notin d.objects
      <3>1. RefCount(d.roots, o) = 0
        BY <2>4, Counts DEF Counted
      <3> HIDE DEF new
      <3>2. QED
        BY <2>1, <2>2, <2>4, <3>1
    <2>5. QED
      BY <2>3, <2>4
  <1>4. e.refs = [o \in e.objects |-> RefCount(e.roots, o)]
    BY <1>2, <1>3
  <1>5. QED
    BY <1>1, <1>2, <1>4 DEF Counted

(* Giving roots up keeps count, and is never refused.                      *)
LEMMA ReclaimedCount ==
  ASSUME NEW d, DOMAIN d = Fields, Counted(d), NEW candidates, candidates \subseteq d.roots,
         NEW live
  PROVE  LET e == ReclaimRoots(d, candidates, live)
         IN /\ CanReclaim(d, candidates, live)
            /\ Changes(d, e, {"roots", "refs", "objects"})
            /\ e.roots = d.roots \ (candidates \ live)
            /\ Counted(e)
  <1> DEFINE e == ReclaimRoots(d, candidates, live)
             evicted == candidates \ live
             rest == d.roots \ evicted
  <1>1. /\ Changes(d, e, {"roots", "refs", "objects"})
        /\ e.roots = rest
        /\ e.refs = [o \in {x \in DOMAIN d.refs : d.refs[x] - RefCount(evicted, x) > 0} |->
                       d.refs[o] - RefCount(evicted, o)]
        /\ e.objects = d.objects \ {o \in DOMAIN d.refs : d.refs[o] - RefCount(evicted, o) = 0}
    BY DEF ReclaimRoots, Changes, Fields, NewProject
  <1>2. evicted \subseteq d.roots /\ IsFiniteSet(d.roots) /\ DOMAIN d.refs = d.objects
        /\ rest \subseteq d.roots
    BY DEF Counted
  <1> HIDE DEF e
  <1>3. IsFiniteSet(rest)
    BY <1>2, FS_Subset
  <1>4. ASSUME NEW o \in d.objects
        PROVE  /\ d.refs[o] \in Nat /\ RefCount(evicted, o) \in Nat
               /\ RefCount(evicted, o) <= d.refs[o]
               /\ d.refs[o] - RefCount(evicted, o) = RefCount(rest, o)
               /\ RefCount(rest, o) \in Nat
               /\ RefCount(rest, o) = 0 <=> o \notin UNION {ObjectsOf[r] : r \in rest}
    <2>1. d.refs[o] = RefCount(d.roots, o)
      BY DEF Counted
    <2>2. evicted \in SUBSET d.roots
      BY <1>2
    <2> HIDE DEF evicted
    <2>3. /\ RefCount(d.roots, o) \in Nat /\ RefCount(evicted, o) \in Nat
          /\ RefCount(evicted, o) <= RefCount(d.roots, o)
          /\ RefCount(d.roots \ evicted, o) = RefCount(d.roots, o) - RefCount(evicted, o)
      BY <1>2, <2>2, Counts
    <2>4. RefCount(rest, o) \in Nat
          /\ (RefCount(rest, o) = 0 <=> o \notin UNION {ObjectsOf[r] : r \in rest})
      <3> HIDE DEF rest
      <3>1. QED
        BY <1>3, Counts
    <2>5. QED
      BY <2>1, <2>3, <2>4
  <1>5. CanReclaim(d, candidates, live)
    <2>1. \A o \in UNION {ObjectsOf[r] : r \in evicted} : o \in d.objects
      BY <1>2 DEF Counted
    <2>2. QED
      BY <1>2, <1>4, <2>1 DEF CanReclaim
  <1>6. e.objects = UNION {ObjectsOf[r] : r \in e.roots}
    <2>1. e.objects = {o \in d.objects : RefCount(rest, o) # 0}
      BY <1>1, <1>2, <1>4
    <2>2. UNION {ObjectsOf[r] : r \in rest} \subseteq d.objects
      BY <1>2 DEF Counted
    <2>3. QED
      BY <1>1, <1>4, <2>1, <2>2
  <1>7. e.refs = [o \in e.objects |-> RefCount(e.roots, o)]
    <2>1. {x \in DOMAIN d.refs : d.refs[x] - RefCount(evicted, x) > 0} = e.objects
      <3>1. ASSUME NEW x \in d.objects
            PROVE  d.refs[x] - RefCount(evicted, x) > 0 <=> ~(d.refs[x] - RefCount(evicted, x) = 0)
        <4>1. d.refs[x] - RefCount(evicted, x) = RefCount(rest, x) /\ RefCount(rest, x) \in Nat
          BY <1>4
        <4> HIDE DEF evicted, rest
        <4>2. QED
          BY <4>1
      <3>2. QED
        BY <1>1, <1>2, <3>1
    <2>2. \A o \in e.objects : d.refs[o] - RefCount(evicted, o) = RefCount(rest, o)
      BY <1>1, <1>4
    <2>3. QED
      BY <1>1, <2>1, <2>2
  <1>8. QED
    BY <1>1, <1>3, <1>5, <1>6, <1>7 DEF Counted, e

-----------------------------------------------------------------------------
(* What makes a file sound *)

(* The row of an operation holds its roots; a stroke's are also the ones   *)
(* its replay starts from and gives.                                       *)
Rows(d) ==
  \A s \in DOMAIN d.snapshots :
    LET row == d.snapshots[s]
    IN /\ row.before = d.history[s].before
       /\ row.stroke # Absent => row.stroke.before = row.before /\ row.stroke.after = row.after

(* A stored cursor is the one of its operation.                            *)
Placed(d) ==
  d.cursor # NoCursor =>
    /\ d.cursor.head \in DOMAIN d.history
    /\ d.cursor = Cursor(d.cursor.head, d.cursor.head, d.snapshots[d.cursor.head].after)

Drawn(d) ==
  /\ Descending(d.history) /\ Joins(d.history, d.initial.root)
  /\ Rows(d) /\ Placed(d) /\ MetadataLoads(d)

(* Before the first operation no feature has been used.                    *)
Undrawn(d) ==
  /\ d.schema = BaseSchema /\ d.timeline = Absent
  /\ DOMAIN d.treeOf = {} /\ DOMAIN d.pageOf = {} /\ DOMAIN d.timelineOf = {}

(* The content of a file is that of its operations and its bottom.         *)
Kept(d) ==
  /\ d.roots = RootsOf(d.snapshots)
                  \cup (IF d.initial = NoCursor THEN {} ELSE {d.initial.root})
  /\ Counted(d)
  /\ d.strokes = {d.snapshots[s].stroke : s \in DOMAIN d.snapshots} \ {Absent}

Sound(d) == (IF HasArtwork(d) THEN Drawn(d) ELSE Undrawn(d)) /\ Kept(d)

(* The batch's stroke replays from its operation's before root to its      *)
(* after root.                                                             *)
Replays(b) == b.stroke # Absent => b.stroke.before = b.node.before /\ b.stroke.after = b.node.after

(* A typed history is finite.                                              *)
LEMMA HistoryFinite ==
  ASSUME NEW map, NEW T, MapsInto(map, Ids, T)
  PROVE  /\ IsFiniteSet(DOMAIN map) /\ DOMAIN map \subseteq Nat \ {0}
  <1>1. IsFiniteSet(1..MaxId)
    BY SessionAssumption, FS_Interval
  <1>2. DOMAIN map \subseteq 1..MaxId
    BY DEF MapsInto, Ids
  <1>3. QED
    BY <1>1, <1>2, SessionAssumption, FS_Subset

(* Where a project with artwork stands: on an operation or at the bottom.  *)
LEMMA Standing ==
  ASSUME NEW d, DbTypeOK(d), TablesAgree(d), HasArtwork(d), Drawn(d)
  PROVE  LET at == CurrentCursor(d)
         IN /\ d.initial # NoCursor /\ d.initial \in Cursors /\ d.initial.head = None
            /\ at \in Cursors
            /\ at.head \in DOMAIN d.history \cup {None}
            /\ at.head = None => at = d.initial
            /\ at.head # None => /\ at.snapshot = at.head
                                 /\ at.root = d.snapshots[at.head].after
                                 /\ at.root = d.history[at.head].after
            /\ at.snapshot \in DOMAIN d.snapshots \cup {d.initial.snapshot}
  <1>1. d.initial # NoCursor /\ d.initial.head = None
    BY DEF HasArtwork, CurrentCursor, TablesAgree
  <1>2. d.initial \in Cursors
    BY <1>1 DEF DbTypeOK
  <1>3. CASE d.cursor = NoCursor
    <2>1. CurrentCursor(d) = d.initial
      BY <1>3 DEF CurrentCursor
    <2>2. QED
      BY <1>1, <1>2, <2>1
  <1>4. CASE d.cursor # NoCursor
    <2>1. CurrentCursor(d) = d.cursor /\ d.cursor \in Cursors /\ d.cursor.head # None
      BY <1>4 DEF CurrentCursor, DbTypeOK, TablesAgree
    <2>2. /\ d.cursor.head \in DOMAIN d.history
          /\ d.cursor.snapshot = d.cursor.head
          /\ d.cursor.root = d.snapshots[d.cursor.head].after
      BY <1>4 DEF Drawn, Placed, Cursor
    <2>3. d.snapshots[d.cursor.head].after = d.history[d.cursor.head].after
          /\ d.cursor.head \in DOMAIN d.snapshots
      BY <2>2 DEF TablesAgree
    <2>4. QED
      BY <1>1, <1>2, <2>1, <2>2, <2>3
  <1>5. QED
    BY <1>3, <1>4

(* What a commit's rows come to, when it continues the project.            *)
LEMMA WrittenRows ==
  ASSUME NEW d, DbTypeOK(d), TablesAgree(d), Sound(d),
         NEW b \in Batches, LineageHolds(d, b), \A n \in DOMAIN d.history : n < b.id, Replays(b)
  PROVE  LET w == Written(d, b)
         IN /\ DOMAIN w = Fields
            /\ w.history = With(d.history, b.id, b.node)
            /\ w.snapshots = With(d.snapshots, b.id,
                 [head |-> b.id, before |-> b.node.before, after |-> b.node.after,
                  stroke |-> b.stroke])
            /\ w.cursor = Cursor(b.id, b.id, b.node.after)
            /\ w.initial = IF d.initial = NoCursor THEN Cursor(FirstSnapshot(b), None, b.node.before)
                           ELSE d.initial
            /\ w.initial \in Cursors /\ w.initial # NoCursor
            /\ w.cursor # NoCursor /\ CurrentCursor(w) = w.cursor /\ HasArtwork(w)
            /\ MapsInto(w.history, Ids, Nodes) /\ MapsInto(w.snapshots, Ids, Snapshots)
            /\ TablesAgree(w) /\ Rows(w) /\ Placed(w)
            /\ Descending(w.history) /\ Joins(w.history, w.initial.root)
  <1> DEFINE w == Written(d, b)
             row == [head |-> b.id, before |-> b.node.before, after |-> b.node.after,
                     stroke |-> b.stroke]
  <1>1. /\ DOMAIN w = Fields
        /\ w.history = With(d.history, b.id, b.node)
        /\ w.snapshots = With(d.snapshots, b.id, row)
        /\ w.cursor = Cursor(b.id, b.id, b.node.after)
        /\ w.initial = IF b.node.parent = None /\ d.initial = NoCursor
                       THEN Cursor(FirstSnapshot(b), None, b.node.before)
                       ELSE d.initial
    BY WrittenChanges DEF DbTypeOK, Fields, Batches
  <1>2. /\ b.id \in Ids /\ b.id \in Nat \ {0} /\ b.node \in Nodes
        /\ b.node.after \in Roots /\ b.node.before \in Roots /\ b.node.parent \in Heads
        /\ FirstSnapshot(b) \in Heads /\ row \in Snapshots
    BY SessionAssumption DEF Batches, Nodes, FirstSnapshot, Strokes, Heads, Snapshots, Ids
  <1> HIDE DEF w
  <1>3. /\ IsFiniteSet(DOMAIN d.history) /\ DOMAIN d.history \subseteq Nat \ {0}
        /\ DOMAIN d.snapshots = DOMAIN d.history
        /\ b.id \notin DOMAIN d.history
    <2>1. IsFiniteSet(DOMAIN d.history) /\ DOMAIN d.history \subseteq Nat \ {0}
      BY HistoryFinite DEF DbTypeOK
    <2>2. b.id \notin DOMAIN d.history
      BY <1>2
    <2>3. QED
      BY <2>1, <2>2 DEF TablesAgree
  (* The operation it continues, if there is one. *)
  <1>4. /\ d.initial = NoCursor => b.node.parent = None
        /\ b.node.parent \in DOMAIN d.history \cup {None}
        /\ w.initial = IF d.initial = NoCursor THEN Cursor(FirstSnapshot(b), None, b.node.before)
                       ELSE d.initial
        /\ b.node.before = IF b.node.parent = None THEN w.initial.root
                           ELSE d.history[b.node.parent].after
        /\ Descending(d.history) /\ Joins(d.history, w.initial.root)
        /\ Rows(d)
    <2>1. CASE HasArtwork(d)
      <3>1. b.node.parent = CurrentCursor(d).head /\ b.node.before = CurrentCursor(d).root
            /\ Drawn(d)
        BY <2>1 DEF LineageHolds, HasArtwork, Sound
      <3>2. /\ d.initial # NoCursor
            /\ CurrentCursor(d).head \in DOMAIN d.history \cup {None}
            /\ CurrentCursor(d).head = None => CurrentCursor(d) = d.initial
            /\ CurrentCursor(d).head # None =>
                 CurrentCursor(d).root = d.history[CurrentCursor(d).head].after
        BY <2>1, <3>1, Standing
      <3>3. w.initial = d.initial
        BY <1>1, <3>2
      <3>4. QED
        BY <3>1, <3>2, <3>3 DEF Drawn
    <2>2. CASE ~HasArtwork(d)
      <3>1. DOMAIN d.history = {} /\ b.node.parent = None /\ d.initial = NoCursor
        BY <2>2 DEF HasArtwork, LineageHolds, CurrentCursor
      <3>2. w.initial.root = b.node.before
        BY <1>1, <3>1 DEF Cursor
      <3>3. QED
        BY <1>1, <1>3, <3>1, <3>2 DEF Descending, Joins, Rows
    <2>3. QED
      BY <2>1, <2>2
  <1>5. w.initial \in Cursors /\ w.initial # NoCursor /\ w.initial.head = None
    <2>1. CASE d.initial = NoCursor
      BY <1>2, <1>4, <2>1, SessionAssumption DEF Cursor, Cursors, Heads
    <2>2. CASE d.initial # NoCursor
      BY <1>4, <2>2 DEF DbTypeOK, TablesAgree
    <2>3. QED
      BY <2>1, <2>2
  <1>6. /\ w.cursor # NoCursor /\ CurrentCursor(w) = w.cursor /\ HasArtwork(w)
        /\ w.cursor.head = b.id
    BY <1>1, <1>2, SessionAssumption DEF CurrentCursor, HasArtwork, Cursor, Cursors, Heads
  <1>7. MapsInto(w.history, Ids, Nodes) /\ MapsInto(w.snapshots, Ids, Snapshots)
    BY <1>1, <1>2 DEF DbTypeOK, MapsInto, With
  <1>8. /\ DOMAIN w.history = DOMAIN d.history \cup {b.id} /\ w.history[b.id] = b.node
        /\ \A n \in DOMAIN d.history : w.history[n] = d.history[n]
        /\ DOMAIN w.snapshots = DOMAIN d.history \cup {b.id} /\ w.snapshots[b.id] = row
        /\ \A n \in DOMAIN d.history : w.snapshots[n] = d.snapshots[n]
    BY <1>1, <1>3 DEF With
  <1>9. TablesAgree(w)
    BY <1>2, <1>5, <1>6, <1>8 DEF TablesAgree
  <1>10. Rows(w)
    <2>1. ASSUME NEW s \in DOMAIN w.snapshots
          PROVE  /\ w.snapshots[s].before = w.history[s].before
                 /\ w.snapshots[s].stroke # Absent =>
                      /\ w.snapshots[s].stroke.before = w.snapshots[s].before
                      /\ w.snapshots[s].stroke.after = w.snapshots[s].after
      <3>1. CASE s = b.id
        BY <1>8, <3>1 DEF Replays
      <3>2. CASE s # b.id
        <4>1. s \in DOMAIN d.snapshots /\ w.snapshots[s] = d.snapshots[s]
              /\ w.history[s] = d.history[s]
          BY <1>3, <1>8, <3>2
        <4>2. QED
          BY <1>4, <4>1 DEF Rows
      <3>3. QED
        BY <3>1, <3>2
    <2>2. QED
      BY <2>1 DEF Rows
  <1>11. Placed(w)
    BY <1>1, <1>8 DEF Placed, Cursor
  <1>12. Descending(w.history)
    <2>1. IsFiniteSet(DOMAIN w.history)
      BY <1>3, <1>8, FS_AddElement
    <2>2. ASSUME NEW n \in DOMAIN w.history
          PROVE  /\ n \in Nat \ {0}
                 /\ {"parent", "before", "after"} \subseteq DOMAIN w.history[n]
                 /\ w.history[n].parent # None =>
                      w.history[n].parent \in DOMAIN w.history /\ w.history[n].parent < n
      <3>1. CASE n = b.id
        BY <1>2, <1>4, <1>8, <3>1 DEF Nodes
      <3>2. CASE n # b.id
        <4>1. n \in DOMAIN d.history /\ w.history[n] = d.history[n]
              /\ DOMAIN d.history \subseteq DOMAIN w.history
          BY <1>8, <3>2
        <4>2. /\ n \in Nat \ {0}
              /\ {"parent", "before", "after"} \subseteq DOMAIN d.history[n]
              /\ d.history[n].parent # None =>
                   d.history[n].parent \in DOMAIN d.history /\ d.history[n].parent < n
          BY <1>4, <4>1 DEF Descending
        <4>3. QED
          BY <4>1, <4>2
      <3>3. QED
        BY <3>1, <3>2
    <2>3. QED
      BY <2>1, <2>2 DEF Descending
  <1>13. Joins(w.history, w.initial.root)
    <2>1. \A n \in DOMAIN d.history : d.history[n].parent # None => d.history[n].parent \in DOMAIN d.history
      BY <1>4 DEF Descending
    <2>2. ASSUME NEW n \in DOMAIN w.history
          PROVE  IF w.history[n].parent = None THEN w.history[n].before = w.initial.root
                 ELSE w.history[w.history[n].parent].after = w.history[n].before
      <3>1. CASE n = b.id
        BY <1>4, <1>8, <3>1
      <3>2. CASE n # b.id
        <4>1. n \in DOMAIN d.history /\ w.history[n] = d.history[n]
          BY <1>8, <3>2
        <4>2. IF d.history[n].parent = None THEN d.history[n].before = w.initial.root
              ELSE d.history[d.history[n].parent].after = d.history[n].before
          BY <1>4, <4>1 DEF Joins
        <4>3. QED
          BY <1>8, <2>1, <4>1, <4>2
      <3>3. QED
        BY <3>1, <3>2
    <2>3. QED
      BY <2>2 DEF Joins
  <1>14. QED
    BY <1>1, <1>4, <1>5, <1>6, <1>7, <1>9, <1>10, <1>11, <1>12, <1>13 DEF w

(* A commit writes one metadata record more than there were, for every     *)
(* family there is or that it starts, and makes it the current one.        *)
LEMMA WrittenMetadata ==
  ASSUME NEW d, DbTypeOK(d), TablesAgree(d), Sound(d),
         NEW b \in Batches, LineageHolds(d, b), \A n \in DOMAIN d.history : n < b.id, Replays(b)
  PROVE  MetadataLoads(Written(d, b))
  <1> DEFINE w == Written(d, b)
             known == KnownSnapshots(d, b)
             covered == DOMAIN w.snapshots \cup {w.initial.snapshot}
  <1>1. /\ w.snapshots = With(d.snapshots, b.id,
             [head |-> b.id, before |-> b.node.before, after |-> b.node.after,
              stroke |-> b.stroke])
        /\ w.cursor = Cursor(b.id, b.id, b.node.after)
        /\ w.initial = IF d.initial = NoCursor THEN Cursor(FirstSnapshot(b), None, b.node.before)
                       ELSE d.initial
        /\ CurrentCursor(w) = w.cursor
    BY WrittenRows
  <1>2. /\ LayerHistoryEnabled(w) <=> LayersCaptured(d, b)
        /\ w.treeOf = IF LayersCaptured(d, b)
                      THEN With(IF LayerHistoryEnabled(d) THEN d.treeOf
                                ELSE Freeze(known, d.tree), b.id, w.tree)
                      ELSE d.treeOf
        /\ CanvasHistoryEnabled(w) <=> CanvasHistoryEnabled(d) \/ b.page # Keep
        /\ w.pageOf = IF CanvasHistoryEnabled(d) \/ b.page # Keep
                      THEN With(IF CanvasHistoryEnabled(d) THEN d.pageOf
                                ELSE Freeze(known, d.page), b.id, w.page)
                      ELSE d.pageOf
        /\ AnimationEnabled(w) <=>
             AnimationEnabled(d) \/ b.timeline \notin {Keep, NoTimeline}
        /\ w.timelineOf = IF AnimationEnabled(d) \/ b.timeline \notin {Keep, NoTimeline}
                          THEN With(IF AnimationEnabled(d) THEN d.timelineOf
                                    ELSE Freeze(known, NoTimeline), b.id, w.timeline)
                          ELSE d.timelineOf
    BY WrittenParts
  <1> HIDE DEF w
  <1>3. /\ DOMAIN w.snapshots = DOMAIN d.snapshots \cup {b.id}
        /\ CurrentCursor(w).snapshot = b.id
    BY <1>1 DEF With, Cursor
  <1>4. known \cup {b.id} = covered
    <2>1. CASE d.initial = NoCursor
      <3>1. w.initial.snapshot = FirstSnapshot(b)
        BY <1>1, <2>1 DEF Cursor
      <3>2. QED
        BY <1>3, <2>1, <3>1 DEF KnownSnapshots
    <2>2. CASE d.initial # NoCursor
      BY <1>1, <1>3, <2>2 DEF KnownSnapshots
    <2>3. QED
      BY <2>1, <2>2
  (* The families there were. *)
  <1>5. /\ DOMAIN d.treeOf = IF LayerHistoryEnabled(d) THEN known ELSE {}
        /\ DOMAIN d.pageOf = IF CanvasHistoryEnabled(d) THEN known ELSE {}
        /\ DOMAIN d.timelineOf = IF AnimationEnabled(d) THEN known ELSE {}
    <2>1. CASE HasArtwork(d)
      <3>1. MetadataLoads(d) /\ d.initial # NoCursor
        BY <2>1 DEF Sound, Drawn, HasArtwork, CurrentCursor, TablesAgree
      <3>2. known = DOMAIN d.snapshots \cup {d.initial.snapshot}
        BY <3>1 DEF KnownSnapshots
      <3> HIDE DEF known
      <3>3. QED
        BY <3>1, <3>2 DEF MetadataLoads
    <2>2. CASE ~HasArtwork(d)
      <3>1. Undrawn(d)
        BY <2>2 DEF Sound
      <3>2. ~LayerHistoryEnabled(d) /\ ~CanvasHistoryEnabled(d) /\ ~AnimationEnabled(d)
        BY <3>1, SchemaOrder
        DEF Undrawn, LayerHistoryEnabled, CanvasHistoryEnabled, AnimationEnabled
      <3>3. QED
        BY <3>1, <3>2 DEF Undrawn
    <2>3. QED
      BY <2>1, <2>2
  <1>6. LayerHistoryEnabled(d) => LayersCaptured(d, b)
    BY DEF LayersCaptured
  <1> HIDE DEF known
  <1>7. \A map, value :
          /\ DOMAIN With(map, b.id, value) = DOMAIN map \cup {b.id}
          /\ With(map, b.id, value)[b.id] = value
    BY DEF With
  <1>8. \A value : DOMAIN Freeze(known, value) = known
    BY DEF Freeze
  <1> HIDE DEF covered
  <1>9. IF LayerHistoryEnabled(w) THEN DOMAIN w.treeOf = covered /\ w.tree = w.treeOf[b.id]
        ELSE DOMAIN w.treeOf = {}
    <2>1. CASE LayersCaptured(d, b)
      <3> DEFINE older == IF LayerHistoryEnabled(d) THEN d.treeOf ELSE Freeze(known, d.tree)
      <3>1. w.treeOf = With(older, b.id, w.tree) /\ LayerHistoryEnabled(w)
        BY <1>2, <2>1
      <3>2. DOMAIN older = known
        BY <1>5, <1>8
      <3> HIDE DEF older
      <3>3. DOMAIN w.treeOf = known \cup {b.id} /\ w.treeOf[b.id] = w.tree
        <4>1. /\ DOMAIN With(older, b.id, w.tree) = DOMAIN older \cup {b.id}
              /\ With(older, b.id, w.tree)[b.id] = w.tree
          BY DEF With
        <4> QED
          BY <3>1, <3>2, <4>1
      <3>4. QED
        BY <1>4, <3>1, <3>3
    <2>2. CASE ~LayersCaptured(d, b)
      BY <1>2, <1>5, <1>6, <2>2
    <2>3. QED
      BY <2>1, <2>2
  <1>10. IF CanvasHistoryEnabled(w) THEN DOMAIN w.pageOf = covered /\ w.page = w.pageOf[b.id]
         ELSE DOMAIN w.pageOf = {}
    <2>1. CASE CanvasHistoryEnabled(d) \/ b.page # Keep
      <3> DEFINE older == IF CanvasHistoryEnabled(d) THEN d.pageOf ELSE Freeze(known, d.page)
      <3>1. w.pageOf = With(older, b.id, w.page) /\ CanvasHistoryEnabled(w)
        BY <1>2, <2>1
      <3>2. DOMAIN older = known
        BY <1>5, <1>8
      <3> HIDE DEF older
      <3>3. DOMAIN w.pageOf = known \cup {b.id} /\ w.pageOf[b.id] = w.page
        <4>1. /\ DOMAIN With(older, b.id, w.page) = DOMAIN older \cup {b.id}
              /\ With(older, b.id, w.page)[b.id] = w.page
          BY DEF With
        <4> QED
          BY <3>1, <3>2, <4>1
      <3>4. QED
        BY <1>4, <3>1, <3>3
    <2>2. CASE ~(CanvasHistoryEnabled(d) \/ b.page # Keep)
      BY <1>2, <1>5, <2>2
    <2>3. QED
      BY <2>1, <2>2
  <1>11. IF AnimationEnabled(w)
         THEN DOMAIN w.timelineOf = covered /\ w.timeline = w.timelineOf[b.id]
         ELSE DOMAIN w.timelineOf = {}
    <2>1. CASE AnimationEnabled(d) \/ b.timeline \notin {Keep, NoTimeline}
      <3> DEFINE older == IF AnimationEnabled(d) THEN d.timelineOf ELSE Freeze(known, NoTimeline)
      <3>1. w.timelineOf = With(older, b.id, w.timeline) /\ AnimationEnabled(w)
        BY <1>2, <2>1
      <3>2. DOMAIN older = known
        BY <1>5, <1>8
      <3> HIDE DEF older
      <3>3. DOMAIN w.timelineOf = known \cup {b.id} /\ w.timelineOf[b.id] = w.timeline
        <4>1. /\ DOMAIN With(older, b.id, w.timeline) = DOMAIN older \cup {b.id}
              /\ With(older, b.id, w.timeline)[b.id] = w.timeline
          BY DEF With
        <4> QED
          BY <3>1, <3>2, <4>1
      <3>4. QED
        BY <1>4, <3>1, <3>3
    <2>2. CASE ~(AnimationEnabled(d) \/ b.timeline \notin {Keep, NoTimeline})
      BY <1>2, <1>5, <2>2
    <2>3. QED
      BY <2>1, <2>2
  <1>12. QED
    BY <1>3, <1>9, <1>10, <1>11 DEF MetadataLoads, covered, w

(* A commit stores the content of its operation and counts it.             *)
LEMMA WrittenContent ==
  ASSUME NEW d, DbTypeOK(d), TablesAgree(d), Sound(d),
         NEW b \in Batches, LineageHolds(d, b), \A n \in DOMAIN d.history : n < b.id, Replays(b)
  PROVE  Kept(Written(d, b))
  <1> DEFINE w == Written(d, b)
             row == [head |-> b.id, before |-> b.node.before, after |-> b.node.after,
                     stroke |-> b.stroke]
             stored == {b.node.before, b.node.after}
  <1>1. /\ w.snapshots = With(d.snapshots, b.id, row)
        /\ w.initial = IF d.initial = NoCursor THEN Cursor(FirstSnapshot(b), None, b.node.before)
                       ELSE d.initial
        /\ w.initial # NoCursor
    BY WrittenRows
  <1>2. /\ w.roots = d.roots \cup stored
        /\ w.objects = d.objects \cup UNION {ObjectsOf[r] : r \in stored}
        /\ w.refs = [o \in DOMAIN d.refs \cup UNION {ObjectsOf[r] : r \in stored \ d.roots} |->
                       (IF o \in DOMAIN d.refs THEN d.refs[o] ELSE 0)
                         + RefCount(stored \ d.roots, o)]
    BY WrittenParts
  <1>3. w.strokes = IF b.stroke = Absent THEN d.strokes ELSE d.strokes \cup {b.stroke}
    BY WrittenChanges DEF DbTypeOK, Fields, Batches
  <1>4. Kept(d)
    BY DEF Sound
  <1> HIDE DEF w
  <1>5. b.id \notin DOMAIN d.snapshots
    <2>1. b.id \in Nat /\ DOMAIN d.snapshots = DOMAIN d.history
      BY SessionAssumption DEF Batches, Ids, TablesAgree
    <2>2. QED
      BY <2>1
  <1>6. /\ DOMAIN w.snapshots = DOMAIN d.snapshots \cup {b.id} /\ w.snapshots[b.id] = row
        /\ \A s \in DOMAIN d.snapshots : w.snapshots[s] = d.snapshots[s]
    BY <1>1, <1>5 DEF With
  <1>7. w.roots = RootsOf(w.snapshots) \cup {w.initial.root}
    <2>1. RootsOf(w.snapshots) = RootsOf(d.snapshots) \cup stored
      <3>1. {w.snapshots[s].before : s \in DOMAIN w.snapshots}
              = {d.snapshots[s].before : s \in DOMAIN d.snapshots} \cup {b.node.before}
        BY <1>6
      <3>2. {w.snapshots[s].after : s \in DOMAIN w.snapshots}
              = {d.snapshots[s].after : s \in DOMAIN d.snapshots} \cup {b.node.after}
        BY <1>6
      <3>3. QED
        BY <3>1, <3>2 DEF RootsOf
    <2>2. CASE d.initial = NoCursor
      <3>1. w.initial.root = b.node.before
        BY <1>1, <2>2 DEF Cursor
      <3>2. d.roots = RootsOf(d.snapshots)
        BY <1>4, <2>2 DEF Kept
      <3>3. QED
        BY <1>2, <2>1, <3>1, <3>2
    <2>3. CASE d.initial # NoCursor
      <3>1. d.roots = RootsOf(d.snapshots) \cup {w.initial.root}
        BY <1>1, <1>4, <2>3 DEF Kept
      <3>2. QED
        BY <1>2, <2>1, <3>1
    <2>4. QED
      BY <2>2, <2>3
  <1>8. Counted(w)
    <2>1. IsFiniteSet(stored)
      <3>1. stored = {b.node.before} \cup {b.node.after}
        OBVIOUS
      <3>2. IsFiniteSet({b.node.before})
        BY FS_Singleton
      <3> HIDE DEF stored
      <3>3. QED
        BY <3>1, <3>2, FS_AddElement
    <2>2. Counted(d)
      BY <1>4 DEF Kept
    <2> HIDE DEF stored
    <2>3. QED
      BY <1>2, <2>1, <2>2, StoredCount
  <1>9. w.strokes = {w.snapshots[s].stroke : s \in DOMAIN w.snapshots} \ {Absent}
    <2>1. {w.snapshots[s].stroke : s \in DOMAIN w.snapshots}
            = {d.snapshots[s].stroke : s \in DOMAIN d.snapshots} \cup {b.stroke}
      BY <1>6
    <2>2. d.strokes = {d.snapshots[s].stroke : s \in DOMAIN d.snapshots} \ {Absent}
      BY <1>4 DEF Kept
    <2>3. QED
      BY <1>3, <2>1, <2>2
  <1>10. QED
    BY <1>1, <1>7, <1>8, <1>9 DEF Kept, w

(* What retention takes and leaves, in a file that is sound but for being  *)
(* too long.                                                               *)
LEMMA Retention ==
  ASSUME NEW w, DOMAIN w = Fields, TablesAgree(w),
         w.initial # NoCursor, w.cursor # NoCursor,
         Drawn(w), Overfull(w.history)
  PROVE  LET head == CurrentCursor(w).head
             kept == Retained(w.history, head)
             base == Baseline(w.history, head)
         IN /\ CurrentCursor(w) = w.cursor
            /\ head \in kept /\ kept \subseteq DOMAIN w.snapshots
            /\ w.cursor.snapshot = head
            /\ w.cursor.root = w.history[head].after
            /\ KeptSnapshots(w) = kept
            /\ base = None => KeptInitial(w) = w.initial
            /\ base # None => /\ base \in DOMAIN w.snapshots \ kept
                              /\ KeptInitial(w) = Cursor(base, None, w.snapshots[base].after)
            /\ KeptInitial(w).root = RetainedInitial(w.history, head, w.initial.root)
            /\ Descending(RetainedNodes(w.history, head))
            /\ Joins(RetainedNodes(w.history, head), KeptInitial(w).root)
  <1> DEFINE head == CurrentCursor(w).head
             kept == Retained(w.history, head)
             base == Baseline(w.history, head)
  <1>1. /\ CurrentCursor(w) = w.cursor
        /\ head \in DOMAIN w.history /\ head # None
        /\ w.cursor.snapshot = head /\ w.cursor.root = w.snapshots[head].after
    BY DEF CurrentCursor, Drawn, Placed, Cursor, TablesAgree
  <1>2. /\ DOMAIN w.snapshots = DOMAIN w.history
        /\ \A s \in DOMAIN w.snapshots : w.snapshots[s].head = s
                                         /\ w.snapshots[s].after = w.history[s].after
    BY DEF TablesAgree
  <1>3. Descending(w.history) /\ Joins(w.history, w.initial.root)
    BY DEF Drawn
  <1> HIDE DEF head
  <1>4. kept \subseteq DOMAIN w.history
    BY <1>1, <1>3, RetainedShape
  <1>5. head \in kept /\ Descending(RetainedNodes(w.history, head))
    BY <1>1, <1>3, RetainedDescends
  <1>6. /\ Joins(RetainedNodes(w.history, head), RetainedInitial(w.history, head, w.initial.root))
        /\ base # None =>
             /\ base \in DOMAIN w.history \ kept
             /\ RetainedInitial(w.history, head, w.initial.root) = w.history[base].after
    BY <1>1, <1>3, RetainedJoins
  <1>7. KeptSnapshots(w) = kept
    <2>1. KeptNodes(w) = kept
      BY DEF KeptNodes, head
    <2>2. QED
      BY <1>2, <1>4, <2>1 DEF KeptSnapshots
  <1>8. base = None => KeptInitial(w) = w.initial
    BY DEF KeptInitial, head
  <1>9. base # None => KeptInitial(w) = Cursor(base, None, w.snapshots[base].after)
    <2>1. base # None => SnapshotOf(w, base) = base
      BY <1>6, SnapshotOfNode
    <2>2. QED
      BY <2>1 DEF KeptInitial, head
  <1>10. KeptInitial(w).root = RetainedInitial(w.history, head, w.initial.root)
    <2>1. CASE base = None
      BY <1>8, <2>1 DEF RetainedInitial
    <2>2. CASE base # None
      <3>1. KeptInitial(w).root = w.snapshots[base].after
        BY <1>9, <2>2 DEF Cursor
      <3>2. QED
        BY <1>2, <1>6, <2>2, <3>1
    <2>3. QED
      BY <2>1, <2>2
  <1>11. QED
    BY <1>1, <1>2, <1>4, <1>5, <1>6, <1>7, <1>8, <1>9, <1>10 DEF head

(* When the bottom moves up, the oldest operation is among the evicted.    *)
LEMMA OldestGoes ==
  ASSUME NEW nodes, Descending(nodes), NEW head \in DOMAIN nodes \cup {None},
         Baseline(nodes, head) # None
  PROVE  \E m \in DOMAIN nodes \ Retained(nodes, head) : nodes[m].parent = None
  <1> DEFINE base == Baseline(nodes, head)
             kept == Retained(nodes, head)
             up == Ancestor(nodes, head)
  <1>1. Overfull(nodes) /\ kept = Path(nodes, head)
    BY RetainedShape
  <1>2. /\ base \in DOMAIN nodes
        /\ \A k \in 0..HistoryLimit - 1 : base < up[k]
        /\ \A n \in Path(nodes, head) : \E k \in 0..HistoryLimit - 1 : n = up[k]
    BY <1>1, PathShape
  <1>3. DOMAIN nodes \subseteq Nat
    BY DEF Descending
  <1> HIDE DEF base, kept, up
  <1>4. PICK m \in DOMAIN nodes : \A k \in DOMAIN nodes : m <= k
    BY <1>2, <1>3, LeastNumber
  <1>5. nodes[m].parent = None
    <2>1. nodes[m].parent # None => nodes[m].parent \in DOMAIN nodes /\ nodes[m].parent < m
      BY DEF Descending
    <2>2. ASSUME nodes[m].parent # None PROVE FALSE
      <3>1. m <= nodes[m].parent /\ nodes[m].parent < m /\ m \in Nat /\ nodes[m].parent \in Nat
        BY <1>3, <1>4, <2>1, <2>2
      <3>2. QED
        BY <3>1
    <2>3. QED
      BY <2>2
  <1>6. m \notin kept
    <2>1. ASSUME m \in kept PROVE FALSE
      <3>1. PICK k \in 0..HistoryLimit - 1 : m = up[k]
        BY <1>1, <1>2, <2>1
      <3>2. base < m /\ m <= base /\ m \in Nat /\ base \in Nat
        BY <1>2, <1>3, <1>4, <3>1
      <3>3. QED
        BY <3>2
    <2>2. QED
      BY <2>1
  <1>7. QED
    BY <1>5, <1>6 DEF kept

(* Retention finds what it reclaims and leaves exactly what the operations *)
(* that stay and the new bottom need.                                      *)
LEMMA RetentionKeeps ==
  ASSUME NEW w, DOMAIN w = Fields, TablesAgree(w),
         w.initial # NoCursor, w.cursor # NoCursor,
         MapsInto(w.snapshots, Ids, Snapshots), w.initial \in Cursors,
         Drawn(w), Kept(w), Overfull(w.history)
  PROVE  /\ CanRetain(w)
         /\ Kept(RetainHistory(w))
  <1> DEFINE head == CurrentCursor(w).head
             kept == Retained(w.history, head)
             base == Baseline(w.history, head)
             c == RetainHistory(w)
             rows == Keeping(w.snapshots, kept)
             gone == Keeping(w.snapshots, DOMAIN w.snapshots \ kept)
             k == [w EXCEPT !.initial    = KeptInitial(w),
                            !.history    = RetainedNodes(w.history, head),
                            !.snapshots  = rows,
                            !.strokes    = @ \cap {rows[s].stroke : s \in DOMAIN rows},
                            !.treeOf     = Keeping(@, RetainedRecords(w)),
                            !.pageOf     = Keeping(@, RetainedRecords(w)),
                            !.timelineOf = Keeping(@, RetainedRecords(w))]
  <1>1. /\ CurrentCursor(w) = w.cursor
        /\ head \in kept /\ kept \subseteq DOMAIN w.snapshots
        /\ w.cursor.root = w.history[head].after
        /\ KeptSnapshots(w) = kept
        /\ base = None => KeptInitial(w) = w.initial
        /\ base # None => /\ base \in DOMAIN w.snapshots \ kept
                          /\ KeptInitial(w) = Cursor(base, None, w.snapshots[base].after)
        /\ KeptInitial(w).root = RetainedInitial(w.history, head, w.initial.root)
    BY Retention
  <1>2. /\ DOMAIN w.snapshots = DOMAIN w.history
        /\ \A s \in DOMAIN w.snapshots : w.snapshots[s].head = s
                                         /\ w.snapshots[s].after = w.history[s].after
    BY DEF TablesAgree
  <1>3. /\ Descending(w.history) /\ Joins(w.history, w.initial.root)
        /\ \A s \in DOMAIN w.snapshots : w.snapshots[s].before = w.history[s].before
    BY DEF Drawn, Rows
  <1>4. /\ LiveRoots(w) = {KeptInitial(w).root, w.cursor.root} \cup RootsOf(rows)
        /\ EvictedRoots(w) = RootsOf(gone)
    BY <1>1 DEF LiveRoots, EvictedRoots
  <1>5. c = ReclaimRoots(k, RootsOf(gone), LiveRoots(w))
    BY <1>1, <1>4 DEF RetainHistory
  <1>6. /\ DOMAIN k = Fields /\ k.roots = w.roots /\ k.objects = w.objects /\ k.refs = w.refs
        /\ k.initial = KeptInitial(w) /\ k.snapshots = rows
        /\ k.strokes = w.strokes \cap {rows[s].stroke : s \in DOMAIN rows}
    BY DEF Fields, NewProject
  <1> HIDE DEF k, c
  <1>7. /\ DOMAIN rows = kept /\ DOMAIN gone = DOMAIN w.snapshots \ kept
        /\ \A s \in kept : rows[s] = w.snapshots[s]
        /\ \A s \in DOMAIN w.snapshots \ kept : gone[s] = w.snapshots[s]
    BY <1>1 DEF Keeping
  <1> HIDE DEF rows, gone, kept, base, head
  <1>8. RootsOf(w.snapshots) = RootsOf(rows) \cup RootsOf(gone)
    <2>1. DOMAIN w.snapshots = kept \cup (DOMAIN w.snapshots \ kept)
      BY <1>1
    <2>2. {w.snapshots[s].before : s \in DOMAIN w.snapshots}
            = {rows[s].before : s \in kept} \cup {gone[s].before : s \in DOMAIN w.snapshots \ kept}
      BY <1>7, <2>1
    <2>3. {w.snapshots[s].after : s \in DOMAIN w.snapshots}
            = {rows[s].after : s \in kept} \cup {gone[s].after : s \in DOMAIN w.snapshots \ kept}
      BY <1>7, <2>1
    <2>4. QED
      BY <1>7, <2>2, <2>3 DEF RootsOf
  <1>9. w.roots = RootsOf(rows) \cup RootsOf(gone) \cup {w.initial.root}
    BY <1>8 DEF Kept
  <1>10. w.cursor.root \in RootsOf(rows)
    <2>1. rows[head].after = w.cursor.root
      BY <1>1, <1>2, <1>7
    <2>2. QED
      BY <1>1, <1>7, <2>1 DEF RootsOf
  (* The old bottom's root and the new one's. *)
  <1>11. /\ KeptInitial(w).root \in w.roots
         /\ w.initial.root \in RootsOf(gone) \cup {KeptInitial(w).root}
    <2>1. CASE base = None
      BY <1>1, <1>9, <2>1
    <2>2. CASE base # None
      <3>1. KeptInitial(w).root = gone[base].after /\ base \in DOMAIN gone
        BY <1>1, <1>7, <2>2 DEF Cursor
      <3>2. KeptInitial(w).root \in RootsOf(gone)
        BY <3>1 DEF RootsOf
      <3>3. PICK m \in DOMAIN w.history \ kept : w.history[m].parent = None
        <4>1. head \in DOMAIN w.history \cup {None}
          BY <1>1, <1>2
        <4>2. QED
          BY <1>3, <2>2, <4>1, OldestGoes DEF base, kept
      <3>4. w.initial.root = w.history[m].before
        BY <1>3, <3>3 DEF Joins
      <3>5. m \in DOMAIN gone /\ gone[m].before = w.initial.root
        BY <1>2, <1>3, <1>7, <3>3, <3>4
      <3>6. w.initial.root \in RootsOf(gone)
        BY <3>5 DEF RootsOf
      <3>7. QED
        BY <1>9, <3>2, <3>6
    <2>3. QED
      BY <2>1, <2>2
  <1>12. RootsOf(gone) \subseteq w.roots
    BY <1>9
  <1>13. Counted(w) /\ Counted(k)
    BY <1>6 DEF Kept, Counted
  <1>14. /\ Changes(k, c, {"roots", "refs", "objects"})
         /\ c.roots = w.roots \ (RootsOf(gone) \ LiveRoots(w))
         /\ Counted(c)
    BY <1>5, <1>6, <1>12, <1>13, ReclaimedCount
  <1>15. CanReclaim(w, EvictedRoots(w), LiveRoots(w))
    <2>1. CanReclaim(k, RootsOf(gone), LiveRoots(w))
      BY <1>6, <1>12, <1>13, ReclaimedCount
    <2>2. QED
      BY <1>4, <1>6, <2>1 DEF CanReclaim
  <1>16. CanRetain(w)
    <2>1. head \in DOMAIN w.history
      BY <1>1, <1>2
    <2>2. GraphLoads(w.initial.root, head, w.history)
      BY <1>3, <2>1, JoinedLoads
    <2>3. FromPersisted(w.initial.root, head, w.history).current = w.cursor.root
      <3>1. head # None
        BY <1>3, <2>1 DEF Descending
      <3>2. QED
        BY <1>1, <3>1 DEF FromPersisted
    <2>4. base # None => \E s \in DOMAIN w.snapshots : w.snapshots[s].head = base
      BY <1>1, <1>2
    <2>5. QED
      BY <1>1, <1>15, <2>2, <2>3, <2>4 DEF CanRetain, head, base
  <1>17. c.initial = KeptInitial(w) /\ c.snapshots = rows
         /\ c.strokes = w.strokes \cap {rows[s].stroke : s \in DOMAIN rows}
    BY <1>6, <1>14 DEF Changes, Fields, NewProject
  <1>18. c.roots = RootsOf(rows) \cup {KeptInitial(w).root}
    BY <1>4, <1>9, <1>10, <1>11, <1>14
  <1>19. KeptInitial(w) # NoCursor
    <2>1. KeptInitial(w) \in Cursors
      <3>1. CASE base = None
        BY <1>1, <3>1
      <3>2. CASE base # None
        BY <1>1, <3>2 DEF Cursor, Cursors, Heads, MapsInto, Snapshots
      <3>3. QED
        BY <3>1, <3>2
    <2>2. QED
      BY <2>1, SessionAssumption
  <1>20. c.strokes = {rows[s].stroke : s \in DOMAIN rows} \ {Absent}
    <2>1. w.strokes = {w.snapshots[s].stroke : s \in DOMAIN w.snapshots} \ {Absent}
      BY DEF Kept
    <2>2. {rows[s].stroke : s \in DOMAIN rows} \subseteq {w.snapshots[s].stroke : s \in DOMAIN w.snapshots}
      BY <1>1, <1>7
    <2>3. QED
      BY <1>17, <2>1, <2>2
  <1>21. Kept(c)
    BY <1>14, <1>17, <1>18, <1>19, <1>20 DEF Kept
  <1>22. QED
    BY <1>16, <1>21 DEF c

(* What retention leaves is a file as sound as the one before.             *)
LEMMA RetentionDraws ==
  ASSUME NEW w, DOMAIN w = Fields, TablesAgree(w),
         w.initial # NoCursor, w.cursor # NoCursor, Drawn(w), Overfull(w.history)
  PROVE  Drawn(RetainHistory(w))
  <1> DEFINE head == CurrentCursor(w).head
             kept == Retained(w.history, head)
             base == Baseline(w.history, head)
             c == RetainHistory(w)
             records == kept \cup {KeptInitial(w).snapshot}
  <1>1. /\ CurrentCursor(w) = w.cursor
        /\ head \in kept /\ kept \subseteq DOMAIN w.snapshots
        /\ w.cursor.snapshot = head
        /\ KeptSnapshots(w) = kept
        /\ base = None => KeptInitial(w) = w.initial
        /\ base # None => /\ base \in DOMAIN w.snapshots \ kept
                          /\ KeptInitial(w) = Cursor(base, None, w.snapshots[base].after)
        /\ Descending(RetainedNodes(w.history, head))
        /\ Joins(RetainedNodes(w.history, head), KeptInitial(w).root)
    BY Retention
  <1>2. /\ Changes(w, c, {"initial", "history", "snapshots", "strokes", "treeOf",
                          "pageOf", "timelineOf", "roots", "refs", "objects"})
        /\ c.initial = KeptInitial(w)
        /\ c.history = RetainedNodes(w.history, head)
        /\ c.snapshots = Keeping(w.snapshots, KeptSnapshots(w))
        /\ c.treeOf = Keeping(w.treeOf, RetainedRecords(w))
        /\ c.pageOf = Keeping(w.pageOf, RetainedRecords(w))
        /\ c.timelineOf = Keeping(w.timelineOf, RetainedRecords(w))
    BY RetainHistoryChanges
  <1> HIDE DEF c
  <1>3. /\ c.cursor = w.cursor /\ c.schema = w.schema
        /\ c.tree = w.tree /\ c.page = w.page /\ c.timeline = w.timeline
    BY <1>2 DEF Changes, Fields, NewProject
  <1>4. /\ DOMAIN w.snapshots = DOMAIN w.history
        /\ Descending(w.history) /\ Joins(w.history, w.initial.root)
        /\ Rows(w) /\ Placed(w) /\ MetadataLoads(w)
    BY DEF TablesAgree, Drawn
  <1>5. /\ DOMAIN c.snapshots = kept
        /\ \A s \in kept : c.snapshots[s] = w.snapshots[s]
    BY <1>1, <1>2 DEF Keeping
  <1>6. /\ DOMAIN c.history = kept
        /\ \A s \in kept : c.history[s].before = w.history[s].before
    <2>1. head \in DOMAIN w.history \cup {None}
      BY <1>1, <1>4
    <2> HIDE DEF head
    <2>2. QED
      BY <1>2, <1>4, <2>1, RetainedShape
  <1>7. Rows(c)
    BY <1>1, <1>4, <1>5, <1>6 DEF Rows
  <1>8. Placed(c)
    BY <1>1, <1>3, <1>4, <1>5, <1>6 DEF Placed
  <1>9. RetainedRecords(w) = records
    BY <1>1 DEF RetainedRecords
  <1>10. records \subseteq DOMAIN w.snapshots \cup {w.initial.snapshot}
    <2>1. CASE base = None
      BY <1>1, <2>1
    <2>2. CASE base # None
      BY <1>1, <2>2 DEF Cursor
    <2>3. QED
      BY <2>1, <2>2
  <1>11. /\ DOMAIN c.snapshots \cup {c.initial.snapshot} = records
         /\ CurrentCursor(c) = w.cursor
         /\ head \in records
    BY <1>1, <1>2, <1>3, <1>5 DEF CurrentCursor
  <1> HIDE DEF records, kept, base, head
  <1>12. \A map : DOMAIN map = DOMAIN w.snapshots \cup {w.initial.snapshot}
                    => /\ DOMAIN Keeping(map, records) = records
                       /\ Keeping(map, records)[head] = map[head]
    BY <1>10, <1>11 DEF Keeping
  <1>13. \A map : DOMAIN map = {} => DOMAIN Keeping(map, records) = {}
    BY DEF Keeping
  <1>14. /\ LayerHistoryEnabled(c) <=> LayerHistoryEnabled(w)
         /\ CanvasHistoryEnabled(c) <=> CanvasHistoryEnabled(w)
         /\ AnimationEnabled(c) <=> AnimationEnabled(w)
    BY <1>3 DEF LayerHistoryEnabled, CanvasHistoryEnabled, AnimationEnabled
  <1>15. IF LayerHistoryEnabled(c) THEN DOMAIN c.treeOf = records /\ c.tree = c.treeOf[head]
         ELSE DOMAIN c.treeOf = {}
    <2>1. CASE LayerHistoryEnabled(w)
      <3>1. /\ DOMAIN w.treeOf = DOMAIN w.snapshots \cup {w.initial.snapshot}
            /\ w.tree = w.treeOf[head]
        BY <1>1, <1>4, <2>1 DEF MetadataLoads
      <3>2. c.treeOf = Keeping(w.treeOf, records)
        BY <1>2, <1>9
      <3>3. DOMAIN c.treeOf = records /\ c.treeOf[head] = w.treeOf[head]
        BY <1>12, <3>1, <3>2
      <3>4. QED
        BY <1>3, <1>14, <2>1, <3>1, <3>3
    <2>2. CASE ~LayerHistoryEnabled(w)
      <3>1. DOMAIN w.treeOf = {}
        BY <1>4, <2>2 DEF MetadataLoads
      <3>2. c.treeOf = Keeping(w.treeOf, records)
        BY <1>2, <1>9
      <3>3. QED
        BY <1>13, <1>14, <2>2, <3>1, <3>2
    <2>3. QED
      BY <2>1, <2>2
  <1>16. IF CanvasHistoryEnabled(c) THEN DOMAIN c.pageOf = records /\ c.page = c.pageOf[head]
         ELSE DOMAIN c.pageOf = {}
    <2>1. CASE CanvasHistoryEnabled(w)
      <3>1. /\ DOMAIN w.pageOf = DOMAIN w.snapshots \cup {w.initial.snapshot}
            /\ w.page = w.pageOf[head]
        BY <1>1, <1>4, <2>1 DEF MetadataLoads
      <3>2. c.pageOf = Keeping(w.pageOf, records)
        BY <1>2, <1>9
      <3>3. DOMAIN c.pageOf = records /\ c.pageOf[head] = w.pageOf[head]
        BY <1>12, <3>1, <3>2
      <3>4. QED
        BY <1>3, <1>14, <2>1, <3>1, <3>3
    <2>2. CASE ~CanvasHistoryEnabled(w)
      <3>1. DOMAIN w.pageOf = {}
        BY <1>4, <2>2 DEF MetadataLoads
      <3>2. c.pageOf = Keeping(w.pageOf, records)
        BY <1>2, <1>9
      <3>3. QED
        BY <1>13, <1>14, <2>2, <3>1, <3>2
    <2>3. QED
      BY <2>1, <2>2
  <1>17. IF AnimationEnabled(c)
         THEN DOMAIN c.timelineOf = records /\ c.timeline = c.timelineOf[head]
         ELSE DOMAIN c.timelineOf = {}
    <2>1. CASE AnimationEnabled(w)
      <3>1. /\ DOMAIN w.timelineOf = DOMAIN w.snapshots \cup {w.initial.snapshot}
            /\ w.timeline = w.timelineOf[head]
        BY <1>1, <1>4, <2>1 DEF MetadataLoads
      <3>2. c.timelineOf = Keeping(w.timelineOf, records)
        BY <1>2, <1>9
      <3>3. DOMAIN c.timelineOf = records /\ c.timelineOf[head] = w.timelineOf[head]
        BY <1>12, <3>1, <3>2
      <3>4. QED
        BY <1>3, <1>14, <2>1, <3>1, <3>3
    <2>2. CASE ~AnimationEnabled(w)
      <3>1. DOMAIN w.timelineOf = {}
        BY <1>4, <2>2 DEF MetadataLoads
      <3>2. c.timelineOf = Keeping(w.timelineOf, records)
        BY <1>2, <1>9
      <3>3. QED
        BY <1>13, <1>14, <2>2, <3>1, <3>2
    <2>3. QED
      BY <2>1, <2>2
  <1>18. MetadataLoads(c)
    BY <1>1, <1>11, <1>15, <1>16, <1>17 DEF MetadataLoads
  <1>19. QED
    BY <1>1, <1>2, <1>7, <1>8, <1>18 DEF Drawn, c

(* Every position of a sound project loads.                                *)
LEMMA PositionsLoad ==
  ASSUME NEW d, DbTypeOK(d), TablesAgree(d), HasArtwork(d), Drawn(d), Kept(d),
         NEW n \in DOMAIN d.history \cup {None}
  PROVE  CursorLoads(d, PersistedCursors(d)[n])
  <1> DEFINE at == PersistedCursors(d)[n]
  <1>1. /\ d.initial # NoCursor /\ d.initial \in Cursors /\ d.initial.head = None
        /\ d.initial.root \in d.roots
        /\ DOMAIN d.snapshots = DOMAIN d.history /\ MetadataLoads(d)
    BY Standing DEF Kept, TablesAgree, Drawn
  <1>2. CASE n = None
    <2>1. at = d.initial
      BY <1>2 DEF PersistedCursors
    <2> HIDE DEF at
    <2>2. CursorValid(d, at) /\ at.root \in d.roots
          /\ at.snapshot \in DOMAIN d.snapshots \cup {d.initial.snapshot}
      BY <1>1, <2>1 DEF CursorValid
    <2>3. QED
      BY <1>1, <2>2 DEF CursorLoads, MetadataLoads, RootLoads, Kept, Counted, at
  <1>3. CASE n # None
    <2>1. n \in DOMAIN d.history /\ n \in DOMAIN d.snapshots
      BY <1>1, <1>3
    <2>2. at = Cursor(n, n, d.snapshots[n].after)
      BY <1>3, <2>1, SnapshotOfNode DEF PersistedCursors
    <2> HIDE DEF at
    <2>3. d.snapshots[n].head = n
      BY <2>1 DEF TablesAgree
    <2>4. CursorValid(d, at)
      BY <1>3, <2>1, <2>2, <2>3 DEF CursorValid, CursorMatchesSnapshot, Cursor
    <2>5. at.root \in d.roots
      BY <2>1, <2>2 DEF Kept, RootsOf, Cursor
    <2>6. at.snapshot \in DOMAIN d.snapshots \cup {d.initial.snapshot}
      BY <2>1, <2>2 DEF Cursor
    <2>7. QED
      BY <1>1, <2>4, <2>5, <2>6 DEF CursorLoads, MetadataLoads, RootLoads, Kept, Counted, at
  <1>4. QED
    BY <1>2, <1>3

(* Where a project stands is one of its positions.                         *)
LEMMA CurrentPosition ==
  ASSUME NEW d, DbTypeOK(d), TablesAgree(d), HasArtwork(d), Drawn(d)
  PROVE  PersistedCursors(d)[CurrentCursor(d).head] = CurrentCursor(d)
  <1> DEFINE at == CurrentCursor(d)
  <1>1. /\ at.head \in DOMAIN d.history \cup {None}
        /\ at.head = None => at = d.initial
    BY Standing
  <1>2. CASE at.head = None
    BY <1>1, <1>2 DEF PersistedCursors
  <1>3. CASE at.head # None
    <2>1. d.cursor # NoCursor /\ at = d.cursor
      BY <1>3 DEF HasArtwork, CurrentCursor, TablesAgree
    <2>2. at = Cursor(at.head, at.head, d.snapshots[at.head].after)
      BY <2>1 DEF Drawn, Placed
    <2>3. at.head \in DOMAIN d.history
      BY <1>1, <1>3
    <2> HIDE DEF at
    <2>4. PersistedCursors(d)[at.head] = Cursor(at.head, at.head, d.snapshots[at.head].after)
      BY <1>3, <2>3, SnapshotOfNode DEF PersistedCursors
    <2>5. QED
      BY <2>2, <2>4 DEF at
  <1>4. QED
    BY <1>2, <1>3

(* A sound file opens.                                                     *)
LEMMA SoundOpens ==
  ASSUME NEW d, DbTypeOK(d), TablesAgree(d), Sound(d)
  PROVE  Opens(d)
  <1> DEFINE at == CurrentCursor(d)
  <1>1. CASE ~HasArtwork(d)
    <2>1. d.cursor = NoCursor /\ d.initial = NoCursor
      BY <1>1 DEF HasArtwork, CurrentCursor
    <2>2. DOMAIN d.history = {}
      BY <2>1 DEF TablesAgree
    <2>3. ~LayerHistoryEnabled(d) /\ ~AnimationEnabled(d)
      BY <1>1, SchemaOrder DEF Sound, Undrawn, LayerHistoryEnabled, AnimationEnabled
    <2>4. QED
      BY <1>1, <2>2, <2>3 DEF Opens
  <1>2. CASE HasArtwork(d)
    <2>1. Drawn(d) /\ Kept(d)
      BY <1>2 DEF Sound
    <2>2. /\ Descending(d.history) /\ Joins(d.history, d.initial.root)
          /\ Rows(d) /\ Placed(d) /\ MetadataLoads(d)
      BY <2>1 DEF Drawn
    <2>3. /\ d.initial # NoCursor
          /\ at.head \in DOMAIN d.history \cup {None}
          /\ at.head = None => at = d.initial
          /\ at.head # None => at.root = d.history[at.head].after
      BY <1>2, <2>1, Standing
    <2>4. /\ DOMAIN d.snapshots = DOMAIN d.history
          /\ \A s \in DOMAIN d.snapshots : d.snapshots[s].head = s
                                           /\ d.snapshots[s].after = d.history[s].after
                                           /\ d.snapshots[s].before = d.history[s].before
      BY <2>2 DEF TablesAgree, Rows
    <2>5. CurrentLoads(d)
      <3>1. SUFFICES ASSUME d.cursor # NoCursor
                     PROVE  /\ CursorMatchesSnapshot(d, d.cursor)
                            /\ LET head == d.snapshots[d.cursor.snapshot]
                               IN /\ RootLoads(d, head.before) /\ RootLoads(d, head.after)
                                  /\ head.stroke # Absent =>
                                       /\ head.stroke \in d.strokes
                                       /\ head.stroke.before = head.before
                                       /\ head.stroke.after = head.after
                                       /\ head.head \in DOMAIN d.history
        BY DEF CurrentLoads
      <3> DEFINE n == d.cursor.snapshot
      <3>2. /\ n \in DOMAIN d.snapshots /\ d.cursor.head = n
            /\ d.cursor.root = d.snapshots[n].after
        BY <2>2, <2>4, <3>1 DEF Placed, Cursor
      <3> HIDE DEF n
      <3>3. CursorMatchesSnapshot(d, d.cursor)
        BY <2>4, <3>2 DEF CursorMatchesSnapshot, n
      <3>4. d.snapshots[n].before \in d.roots /\ d.snapshots[n].after \in d.roots
        BY <2>1, <3>2 DEF Kept, RootsOf
      <3>5. RootLoads(d, d.snapshots[n].before) /\ RootLoads(d, d.snapshots[n].after)
        BY <2>1, <3>4 DEF RootLoads, Kept, Counted
      <3>6. d.snapshots[n].stroke # Absent =>
              /\ d.snapshots[n].stroke \in d.strokes
              /\ d.snapshots[n].stroke.before = d.snapshots[n].before
              /\ d.snapshots[n].stroke.after = d.snapshots[n].after
              /\ d.snapshots[n].head \in DOMAIN d.history
        BY <2>1, <2>2, <2>4, <3>2 DEF Kept, Rows
      <3>7. QED
        BY <3>3, <3>5, <3>6 DEF n
    <2>6. PersistedCursors(d)[at.head] = at
      BY <1>2, <2>1, CurrentPosition
    <2>7. CursorLoads(d, at)
      BY <1>2, <2>1, <2>3, <2>6, PositionsLoad
    <2>8. ASSUME DOMAIN d.history # {}
          PROVE  Children(d.history, None) # {} /\ StoredInitialRoot(d) = d.initial.root
      <3>1. DOMAIN d.history \subseteq Nat
        BY <2>2 DEF Descending
      <3>2. PICK m \in DOMAIN d.history : \A k \in DOMAIN d.history : m <= k
        BY <2>8, <3>1, LeastNumber
      <3>3. d.history[m].parent = None
        <4>1. ASSUME d.history[m].parent # None PROVE FALSE
          <5>1. d.history[m].parent \in DOMAIN d.history /\ d.history[m].parent < m
            BY <2>2, <4>1 DEF Descending
          <5>2. m \in Nat /\ d.history[m].parent \in Nat /\ m <= d.history[m].parent
            BY <3>1, <3>2, <5>1
          <5>3. QED
            BY <5>1, <5>2
        <4>2. QED
          BY <4>1
      <3>4. m \in Children(d.history, None)
        BY <3>3 DEF Children
      <3>5. \A n \in Children(d.history, None) : d.history[n].before = d.initial.root
        BY <2>2 DEF Children, Joins
      <3>6. QED
        BY <2>8, <3>4, <3>5 DEF StoredInitialRoot
    <2>9. DOMAIN d.history = {} => at.head = None
      BY <2>3
    <2>10. GraphLoads(d.initial.root, at.head, d.history)
      BY <2>2, <2>3, JoinedLoads
    <2>11. FromPersisted(d.initial.root, at.head, d.history).current = at.root
      BY <2>3 DEF FromPersisted
    <2>12. CursorsLoad(d)
      BY <2>4 DEF CursorsLoad
    <2> HIDE DEF at
    <2>13. DOMAIN d.history # {} =>
             /\ Children(d.history, None) # {}
             /\ GraphLoads(StoredInitialRoot(d), at.head, d.history)
             /\ d.initial # NoCursor => d.initial.root = StoredInitialRoot(d)
             /\ FromPersisted(StoredInitialRoot(d), at.head, d.history).current = at.root
      BY <2>8, <2>10, <2>11
    <2>14. QED
      BY <1>2, <2>2, <2>5, <2>6, <2>7, <2>9, <2>12, <2>13 DEF Opens, at
  <1>3. QED
    BY <1>1, <1>2

(* Persisting a position of a sound project keeps it sound.                *)
LEMMA PersistSound ==
  ASSUME NEW d, DbTypeOK(d), TablesAgree(d), HasArtwork(d), Sound(d),
         NEW n \in DOMAIN d.history \cup {None}
  PROVE  Sound(PersistHistoryCursor(d, PersistedCursors(d)[n]))
  <1> DEFINE target == PersistedCursors(d)[n]
             e == PersistHistoryCursor(d, target)
             covered == DOMAIN d.snapshots \cup {d.initial.snapshot}
  <1>1. Drawn(d) /\ Kept(d) /\ MetadataLoads(d)
    BY DEF Sound, Drawn
  <1>2. d.initial # NoCursor /\ d.initial.head = None
    BY Standing, <1>1
  <1>3. IF n = None THEN target = d.initial
        ELSE /\ n \in DOMAIN d.history
             /\ target = Cursor(n, n, d.snapshots[n].after)
    BY SnapshotOfNode DEF PersistedCursors
  <1> HIDE DEF target
  <1>4. target.snapshot \in covered
    <2>1. CASE n = None
      BY <1>3, <2>1
    <2>2. CASE n # None
      BY <1>3, <2>2 DEF Cursor, TablesAgree
    <2>3. QED
      BY <2>1, <2>2
  <1>5. /\ DOMAIN d = Fields
        /\ e = [d EXCEPT !.cursor = IF target.head = None THEN NoCursor ELSE target,
                         !.tree = TreeAt(d, target), !.page = PageAt(d, target),
                         !.timeline = TimelineAt(d, target)]
    BY DEF DbTypeOK, Fields, PersistHistoryCursor
  <1>6. /\ e.schema = d.schema /\ e.history = d.history /\ e.snapshots = d.snapshots
        /\ e.strokes = d.strokes /\ e.initial = d.initial
        /\ e.roots = d.roots /\ e.objects = d.objects /\ e.refs = d.refs
        /\ e.treeOf = d.treeOf /\ e.pageOf = d.pageOf /\ e.timelineOf = d.timelineOf
    BY <1>5 DEF Fields, NewProject
  <1>7. /\ e.cursor = IF target.head = None THEN NoCursor ELSE target
        /\ e.tree = TreeAt(d, target) /\ e.page = PageAt(d, target)
        /\ e.timeline = TimelineAt(d, target)
    BY <1>5 DEF Fields, NewProject
  <1> HIDE DEF e
  <1>8. CurrentCursor(e) = target
    <2>1. CASE n = None
      BY <1>2, <1>3, <1>6, <1>7, <2>1 DEF CurrentCursor
    <2>2. CASE n # None
      <3>1. target.head # None
        BY <1>3, <2>2 DEF Cursor
      <3>2. target # NoCursor
        <4>1. target \in Cursors
          BY <1>3, <2>2 DEF Cursor, Cursors, DbTypeOK, MapsInto, TablesAgree, Nodes, Heads
        <4>2. QED
          BY <4>1, SessionAssumption
      <3>3. QED
        BY <1>7, <3>1, <3>2 DEF CurrentCursor
    <2>3. QED
      BY <2>1, <2>2
  <1>9. HasArtwork(e)
    BY <1>2, <1>6 DEF HasArtwork, CurrentCursor
  <1>10. Rows(e) /\ Descending(e.history) /\ Joins(e.history, e.initial.root)
    BY <1>1, <1>6 DEF Drawn, Rows
  <1>11. Placed(e)
    <2>1. CASE n = None
      BY <1>2, <1>3, <1>7, <2>1 DEF Placed
    <2>2. CASE n # None
      BY <1>3, <1>6, <1>7, <2>2 DEF Placed, Cursor
    <2>3. QED
      BY <2>1, <2>2
  <1> HIDE DEF covered
  <1>12. IF LayerHistoryEnabled(e) THEN DOMAIN e.treeOf = covered /\ e.tree = e.treeOf[target.snapshot]
         ELSE DOMAIN e.treeOf = {}
    BY <1>1, <1>6, <1>7 DEF MetadataLoads, LayerHistoryEnabled, TreeAt, covered
  <1>13. IF CanvasHistoryEnabled(e)
         THEN DOMAIN e.pageOf = covered /\ e.page = e.pageOf[target.snapshot]
         ELSE DOMAIN e.pageOf = {}
    BY <1>1, <1>6, <1>7 DEF MetadataLoads, CanvasHistoryEnabled, PageAt, covered
  <1>14. IF AnimationEnabled(e)
         THEN DOMAIN e.timelineOf = covered /\ e.timeline = e.timelineOf[target.snapshot]
         ELSE DOMAIN e.timelineOf = {}
    <2>1. CASE AnimationEnabled(d)
      <3>1. DOMAIN d.timelineOf = covered /\ e.timeline = d.timelineOf[target.snapshot]
        BY <1>1, <1>7, <2>1 DEF MetadataLoads, TimelineAt, covered
      <3>2. d.timelineOf[target.snapshot] \in AllTimelines
        BY <1>4, <3>1 DEF DbTypeOK, MapsInto
      <3>3. AnimationEnabled(e)
        BY <3>1, <3>2, ProjectAssumption, SessionAssumption DEF AnimationEnabled, AllTimelines
      <3>4. QED
        BY <1>6, <3>1, <3>3
    <2>2. CASE ~AnimationEnabled(d)
      <3>1. e.timeline = d.timeline /\ DOMAIN d.timelineOf = {}
        BY <1>1, <1>7, <2>2 DEF TimelineAt, MetadataLoads
      <3>2. ~AnimationEnabled(e)
        BY <2>2, <3>1 DEF AnimationEnabled
      <3>3. QED
        BY <1>6, <3>1, <3>2
    <2>3. QED
      BY <2>1, <2>2
  <1>15. MetadataLoads(e)
    BY <1>6, <1>8, <1>12, <1>13, <1>14 DEF MetadataLoads, covered
  <1>16. Kept(e)
    BY <1>1, <1>6 DEF Kept, Counted
  <1>17. QED
    BY <1>9, <1>10, <1>11, <1>15, <1>16 DEF Sound, Drawn, e, target

(* The file accepts what the session prepared, and stays sound.            *)
LEMMA CommitIsAccepted ==
  ASSUME NEW d, DbTypeOK(d), TablesAgree(d), Sound(d), Recorded(d),
         NEW b \in Batches, Replays(b), Below(d, b.id),
         NEW s, SessionTypeOK(s), SameHistory(s, d), SameCursors(s, d), CanAcceptCommit(s, b)
  PROVE  CommitAccepted(d, b) /\ Sound(Commit(d, b))
  <1> DEFINE w == Written(d, b)
  <1>1. /\ b.node.parent = s.cursor.head /\ b.node.before = s.cursor.root
        /\ IF b.stroke # Absent THEN b.stroke.parent = s.cursor.snapshot
           ELSE b.id > s.cursor.snapshot
    BY DEF CanAcceptCommit, CanAppendNode, SameHistory, SameCursors
  <1>2. b.id \in Nat /\ b.id > 0
    BY SessionAssumption DEF Batches, Ids
  <1>3. LineageHolds(d, b)
    <2>1. CASE HasArtwork(d)
      <3>1. s.cursor = CurrentCursor(d) /\ CurrentCursor(d) # NoCursor
        BY <2>1 DEF SameCursors, HasArtwork
      <3>2. d.cursor # NoCursor => CursorMatchesSnapshot(d, d.cursor)
        BY <2>1 DEF Sound, Drawn, Placed, Cursor, CursorMatchesSnapshot, TablesAgree
      <3>3. QED
        BY <1>1, <3>1, <3>2 DEF LineageHolds
    <2>2. CASE ~HasArtwork(d)
      <3>1. s.cursor = Bottom /\ CurrentCursor(d) = NoCursor
        BY <2>2 DEF SameCursors, HasArtwork
      <3>2. DOMAIN d.history = {}
        BY <3>1 DEF CurrentCursor, TablesAgree
      <3>3. QED
        BY <1>1, <3>1, <3>2 DEF LineageHolds, Bottom, Cursor
    <2>3. QED
      BY <2>1, <2>2
  <1>4. RecordIsFree(d, b)
    <2>1. /\ \A id \in DOMAIN d.history : id < b.id /\ id # b.id
          /\ d.initial # NoCursor => d.initial.snapshot # b.id
      BY <1>2 DEF Below
    <2>2. b.id \notin RecordKeys(d)
      BY <2>1 DEF Recorded
    <2>3. d.initial = NoCursor => FirstSnapshot(b) # b.id
      <3>1. SUFFICES ASSUME d.initial = NoCursor PROVE FirstSnapshot(b) # b.id
        OBVIOUS
      <3>2. ~HasArtwork(d)
        BY <3>1 DEF HasArtwork, CurrentCursor, TablesAgree
      <3>3. s.cursor.snapshot = 0
        BY <3>2 DEF SameCursors, Bottom, Cursor
      <3>4. FirstSnapshot(b) = 0
        BY <1>1, <3>3 DEF FirstSnapshot
      <3>5. QED
        BY <1>2, <3>4
    <2>4. b.id \notin KnownSnapshots(d, b)
      BY <2>1, <2>3 DEF KnownSnapshots, TablesAgree
    <2>5. QED
      BY <2>2, <2>4 DEF RecordIsFree, RecordKeys
  <1>5. \A n \in DOMAIN d.history : n < b.id
    BY DEF Below
  <1>6. /\ DOMAIN w = Fields
        /\ w.initial \in Cursors /\ w.initial # NoCursor
        /\ w.cursor # NoCursor /\ HasArtwork(w)
        /\ MapsInto(w.snapshots, Ids, Snapshots)
        /\ TablesAgree(w) /\ Rows(w) /\ Placed(w)
        /\ Descending(w.history) /\ Joins(w.history, w.initial.root)
    BY <1>3, <1>5, WrittenRows
  <1>7. MetadataLoads(w)
    BY <1>3, <1>5, WrittenMetadata
  <1>8. Kept(w)
    BY <1>3, <1>5, WrittenContent
  <1> HIDE DEF w
  <1>9. Drawn(w)
    BY <1>6, <1>7 DEF Drawn
  <1>10. CASE ~Overfull(w.history)
    <2>1. CanRetain(w)
      BY <1>10 DEF CanRetain
    <2>2. RetainHistory(w) = w
      BY <1>10 DEF RetainHistory
    <2>3. QED
      BY <1>3, <1>4, <1>6, <1>8, <1>9, <2>1, <2>2 DEF CommitAccepted, Commit, Sound, w
  <1>11. CASE Overfull(w.history)
    <2>1. CanRetain(w) /\ Kept(RetainHistory(w)) /\ Drawn(RetainHistory(w))
      BY <1>6, <1>8, <1>9, <1>11, RetentionKeeps, RetentionDraws
    <2>2. HasArtwork(RetainHistory(w))
      <3>1. RetainHistory(w).cursor = w.cursor
        BY <1>6, <1>11, RetainHistoryChanges DEF Changes, Fields, NewProject
      <3>2. QED
        BY <1>6, <3>1 DEF HasArtwork, CurrentCursor
    <2>3. QED
      BY <1>3, <1>4, <2>1, <2>2 DEF CommitAccepted, Commit, Sound, w
  <1>12. QED
    BY <1>10, <1>11

-----------------------------------------------------------------------------
(* The file the worker leaves behind *)

(* What is prepared fits the session, and stays so while it is made        *)
(* durable; a cursor move is to a position of the file.                    *)
Fitting ==
  worker \in {"prepared", "durable"} =>
    IF IsMove(job)
    THEN /\ CanAcceptMove(session, job)
         /\ HasArtwork(db)
         /\ \E n \in DOMAIN session.cursors : job.target = session.cursors[n]
    ELSE CanAcceptCommit(session, job) /\ Replays(job)

FileInv == Sound(db) /\ Fitting

(* A batch numbered nextId that continues the session is one it accepts.   *)
LEMMA NextBatchFits ==
  ASSUME IInv, Numbered, FileInv, worker \in {"opening", "idle"},
         NEW b \in Batches, b.id = nextId, Fits(session, b)
  PROVE  CanAcceptCommit(session, b)
  <1>1. /\ DbTypeOK(db) /\ TablesAgree(db) /\ Sound(db) /\ Below(db, nextId)
        /\ SameHistory(session, db) /\ SameCursors(session, db)
    BY DEF IInv, TypeOK, Agrees, Numbered, FileInv
  <1>2. nextId \in Nat /\ nextId > 0
    BY SessionAssumption DEF Batches, Ids
  <1>3. nextId \notin DOMAIN session.history.nodes
    BY <1>1, <1>2 DEF Below, SameHistory
  <1>4. nextId > session.snapshot
    <2>1. CASE HasArtwork(db)
      <3>1. session.snapshot = CurrentCursor(db).snapshot
        BY <1>1, <2>1 DEF SameCursors
      <3>2. /\ CurrentCursor(db).snapshot \in DOMAIN db.snapshots \cup {db.initial.snapshot}
            /\ db.initial # NoCursor /\ db.initial \in Cursors
        BY <1>1, <2>1, Standing DEF Sound
      <3>3. DOMAIN db.snapshots \subseteq Nat /\ db.initial.snapshot \in Nat
        BY <1>1, <3>2, SessionAssumption DEF DbTypeOK, MapsInto, Ids, Cursors, Heads
      <3>4. session.snapshot \in Nat /\ session.snapshot < nextId
        BY <1>1, <3>1, <3>2, <3>3 DEF Below, TablesAgree
      <3>5. QED
        BY <1>2, <3>4
    <2>2. CASE ~HasArtwork(db)
      <3>1. session.snapshot = 0
        BY <1>1, <2>2 DEF SameCursors, Bottom, Cursor
      <3>2. QED
        BY <1>2, <3>1
    <2>3. QED
      BY <2>1, <2>2
  <1>5. QED
    BY <1>1, <1>3, <1>4 DEF CanAcceptCommit, CanAppendNode, Fits, SameHistory

(* A request that becomes the job makes it fit.                            *)
LEMMA PreparedFits ==
  ASSUME IInv, Numbered, FileInv, NEW b \in Batches, b.id = nextId, Fits(session, b),
         Replays(b), Prepare(b)
  PROVE  FileInv'
  <1>1. CanAcceptCommit(session, b)
    BY NextBatchFits DEF Prepare
  <1>2. ~IsMove(b)
    BY DEF IsMove, Batches
  <1>3. db' = db /\ job' = b /\ session' = session
    BY DEF Prepare
  <1>4. QED
    BY <1>1, <1>2, <1>3 DEF FileInv, Fitting

(* So does a request for a structural change.                              *)
LEMMA StructuralFits ==
  ASSUME IInv, Numbered, FileInv, NEW r \in Roots, NEW t \in Trees \cup {Keep},
         NEW p \in AllPages \cup {Keep}, NEW l \in AllTimelines \cup {Keep},
         Prepare(Structural(r, t, p, l))
  PROVE  FileInv'
  <1> DEFINE b == Structural(r, t, p, l)
  <1>1. SessionTypeOK(session) /\ nextId \in Ids
    BY SessionAssumption DEF IInv, TypeOK, Prepare, Ids
  <1>2. b \in Batches
    BY <1>1 DEF SessionTypeOK, Structural, StructuralBatch, Batches, Nodes
  <1>3. b.id = nextId /\ Fits(session, b) /\ Replays(b)
    BY DEF Structural, StructuralBatch, Fits, Replays
  <1>4. QED
    BY <1>2, <1>3, PreparedFits

(* So does a stroke: it replays from the artwork shown.                    *)
LEMMA StrokeFits ==
  ASSUME IInv, Numbered, FileInv, NEW r \in Roots, NEW selected \in Selections,
         PrepareStroke(r, selected)
  PROVE  FileInv'
  <1> DEFINE b == StrokeBatch(nextId, session.snapshot, session.history.head,
                              session.root, r, selected)
  <1>1. SessionTypeOK(session) /\ nextId \in Ids /\ selected \in BOOLEAN
    BY SessionAssumption DEF IInv, TypeOK, PrepareStroke, Prepare, Ids
  <1>2. b \in Batches
    BY <1>1 DEF SessionTypeOK, StrokeBatch, Batches, Nodes, Strokes
  <1>3. b.id = nextId /\ Fits(session, b) /\ Replays(b)
    BY DEF StrokeBatch, Fits, Replays
  <1>4. Prepare(b)
    BY DEF PrepareStroke
  <1>5. QED
    BY <1>2, <1>3, <1>4, PreparedFits

(* What the session would move to is what the file has for that position.  *)
LEMMA MoveFits ==
  ASSUME IInv, FileInv, NEW to, NEW head, PrepareMove(to, head),
         IF to = None THEN CanUndo(session.history) /\ head = Undo(session.history).head
         ELSE CanRedoTo(session.history, to) /\ head = to
  PROVE  FileInv'
  <1> DEFINE nodes == session.history.nodes
             target == session.cursors[head]
             m == Move(session, to, target)
  <1>1. /\ DbTypeOK(db) /\ TablesAgree(db) /\ Sound(db)
        /\ SameHistory(session, db) /\ SameCursors(session, db)
    BY DEF IInv, TypeOK, Agrees, FileInv, PrepareMove
  <1>2. /\ nodes = db.history /\ session.history.head = session.cursor.head
        /\ session.cursor = IF HasArtwork(db) THEN CurrentCursor(db) ELSE Bottom
        /\ session.cursors = IF HasArtwork(db) THEN PersistedCursors(db)
                             ELSE With(EmptyMap, None, Bottom)
    BY <1>1 DEF SameHistory, SameCursors
  <1>3. HasArtwork(db)
    <2>1. CASE to = None
      BY <1>2, <2>1 DEF CanUndo, Bottom, Cursor
    <2>2. CASE to # None
      <3>1. DOMAIN db.history # {}
        BY <1>2, <2>2 DEF CanRedoTo, Children
      <3>2. QED
        BY <1>1, <3>1 DEF TablesAgree, HasArtwork, CurrentCursor
    <2>3. QED
      BY <2>1, <2>2
  <1>4. Drawn(db)
    BY <1>1, <1>3 DEF Sound
  <1>5. /\ CurrentCursor(db).head \in DOMAIN nodes \cup {None}
        /\ Descending(nodes) /\ Joins(nodes, db.initial.root)
        /\ db.initial.head = None
        /\ \A n \in DOMAIN nodes : db.snapshots[n].after = nodes[n].after
    BY <1>1, <1>2, <1>3, <1>4, Standing DEF Drawn, TablesAgree
  <1> HIDE DEF nodes
  <1>6. \A n \in DOMAIN nodes \cup {None} :
          /\ session.cursors[n].head = n
          /\ session.cursors[n].root = IF n = None THEN db.initial.root ELSE nodes[n].after
    BY <1>1, <1>2, <1>3, <1>5, SnapshotOfNode DEF PersistedCursors, Cursor
  <1>7. /\ m.to = to /\ m.source = session.cursor /\ m.target = target
        /\ IsMove(m)
    BY DEF Move, IsMove
  <1>8. CanAcceptMove(session, m)
    <2>1. CASE to = None
      <3> DEFINE at == session.history.head
      <3>1. at \in DOMAIN nodes
        BY <1>2, <1>3, <1>5, <2>1 DEF CanUndo
      <3>2. head = nodes[at].parent /\ head \in DOMAIN nodes \cup {None}
        BY <1>5, <2>1, <3>1 DEF Undo, Descending, nodes
      <3>3. nodes[at].before = IF head = None THEN db.initial.root ELSE nodes[head].after
        BY <1>5, <3>1, <3>2 DEF Joins
      <3>4. target.root = nodes[at].before /\ target.head = nodes[at].parent
        BY <1>6, <3>2, <3>3
      <3>5. /\ MovedHistory(session, m).current = nodes[at].before
            /\ MovedHistory(session, m).head = nodes[at].parent
        BY <1>7, <2>1 DEF MovedHistory, Undo, nodes, IInv, TypeOK, SessionTypeOK, NewHistory
      <3> HIDE DEF m, target
      <3>6. QED
        BY <1>7, <2>1, <3>4, <3>5 DEF CanAcceptMove
    <2>2. CASE to # None
      <3>1. to \in DOMAIN nodes /\ head = to
        BY <2>2 DEF CanRedoTo, Children, nodes
      <3>2. target.root = nodes[to].after /\ target.head = to
        BY <1>6, <2>2, <3>1
      <3>3. /\ MovedHistory(session, m).current = nodes[to].after
            /\ MovedHistory(session, m).head = to
        BY <1>7, <2>2 DEF MovedHistory, RedoTo, nodes, IInv, TypeOK, SessionTypeOK, NewHistory
      <3> HIDE DEF m, target
      <3>4. QED
        BY <1>7, <2>2, <3>2, <3>3 DEF CanAcceptMove
    <2>3. QED
      BY <2>1, <2>2
  <1>9. /\ db' = db /\ session' = session /\ job' = m /\ head \in DOMAIN session.cursors
    BY DEF PrepareMove
  <1> HIDE DEF m, target
  <1>10. \E n \in DOMAIN session.cursors : m.target = session.cursors[n]
    BY <1>7, <1>9 DEF target
  <1>11. QED
    BY <1>1, <1>3, <1>7, <1>8, <1>9, <1>10 DEF FileInv, Fitting

(* Every request keeps the file sound and makes a job that fits.           *)
LEMMA RequestFits == IInv /\ Numbered /\ FileInv /\ Request => FileInv'
  <1> SUFFICES ASSUME IInv, Numbered, FileInv, Request PROVE FileInv'
    OBVIOUS
  <1>1. ASSUME NEW r \in Roots, NEW selected \in Selections, PrepareStroke(r, selected)
        PROVE  FileInv'
    BY <1>1, StrokeFits
  <1>2. ASSUME NEW r \in Roots, PrepareEdit(r) PROVE FileInv'
    BY <1>2, StructuralFits DEF PrepareEdit
  <1>3. ASSUME NEW r \in Roots, NEW t \in Trees, PrepareLayers(r, t) PROVE FileInv'
    BY <1>3, StructuralFits DEF PrepareLayers
  <1>4. ASSUME NEW r \in Roots, NEW p \in Pages, PreparePage(r, p) PROVE FileInv'
    BY <1>4, StructuralFits DEF PreparePage, AllPages
  <1>5. ASSUME NEW r \in Roots, NEW t \in Trees, NEW l \in AllTimelines,
               PrepareAnimation(r, t, l)
        PROVE  FileInv'
    <2>1. view.page \in AllPages
      BY DEF IInv, TypeOK
    <2>2. QED
      BY <1>5, <2>1, StructuralFits DEF PrepareAnimation
  <1>6. CASE PrepareUndo
    BY <1>6, MoveFits DEF PrepareUndo
  <1>7. ASSUME NEW n, CanRedoTo(session.history, n), PrepareMove(n, n) PROVE FileInv'
    <2>1. n # None
      BY <1>7, SessionAssumption
      DEF CanRedoTo, Children, IInv, TypeOK, SessionTypeOK, MapsInto, Ids
    <2>2. QED
      BY <1>7, <2>1, MoveFits
  <1>8. ASSUME NEW n \in 1..MaxId, PrepareRedoTo(n) PROVE FileInv'
    BY <1>7, <1>8 DEF PrepareRedoTo
  <1>9. CASE PrepareRedo
    BY <1>7, <1>9 DEF PrepareRedo
  <1>10. QED
    BY <1>1, <1>2, <1>3, <1>4, <1>5, <1>6, <1>8, <1>9 DEF Request

(* The stored tree, page and timeline alone do not make a file unsound     *)
(* before there is artwork.                                                *)
LEMMA BlankStaysSound ==
  ASSUME NEW d, NEW e, Changes(d, e, {"tree", "page"}), ~HasArtwork(d), Sound(d)
  PROVE  ~HasArtwork(e) /\ Sound(e)
  <1>1. /\ e.schema = d.schema /\ e.history = d.history /\ e.snapshots = d.snapshots
        /\ e.cursor = d.cursor /\ e.initial = d.initial /\ e.timeline = d.timeline
        /\ e.treeOf = d.treeOf /\ e.pageOf = d.pageOf /\ e.timelineOf = d.timelineOf
        /\ e.strokes = d.strokes
        /\ e.roots = d.roots /\ e.objects = d.objects /\ e.refs = d.refs
    BY DEF Changes, Fields, NewProject
  <1>2. ~HasArtwork(e)
    BY <1>1 DEF HasArtwork, CurrentCursor
  <1>3. Kept(e) /\ Undrawn(e)
    BY <1>1 DEF Sound, Kept, Counted, Undrawn
  <1>4. QED
    BY <1>2, <1>3 DEF Sound

(* A new project is sound.                                                 *)
LEMMA InitFits == Init => FileInv
  <1>1. NewProject.roots = {} /\ NewProject.objects = {} /\ NewProject.snapshots = EmptyMap
        /\ NewProject.initial = NoCursor /\ NewProject.refs = EmptyMap /\ NewProject.strokes = {}
        /\ DOMAIN EmptyMap = {}
    BY DEF NewProject, EmptyMap
  <1>2. Counted(NewProject)
    <2>1. IsFiniteSet({})
      BY FS_EmptySet
    <2>2. EmptyMap = [o \in {} |-> RefCount({}, o)]
      BY DEF EmptyMap
    <2>3. QED
      BY <1>1, <2>1, <2>2 DEF Counted
  <1>3. Kept(NewProject)
    <2>1. RootsOf(NewProject.snapshots) = {}
      BY <1>1 DEF RootsOf
    <2>2. {NewProject.snapshots[s].stroke : s \in DOMAIN NewProject.snapshots} \ {Absent} = {}
      BY <1>1
    <2>3. QED
      BY <1>1, <1>2, <2>1, <2>2 DEF Kept
  <1>4. ~HasArtwork(NewProject) /\ Undrawn(NewProject)
    BY DEF HasArtwork, CurrentCursor, NewProject, Undrawn, EmptyMap
  <1>5. QED
    BY <1>3, <1>4 DEF Init, FileInv, Fitting, Sound

(* Every step leaves a sound file and a job that fits.                     *)
LEMMA NextFits == IInv /\ Numbered /\ FileInv /\ [Next]_vars => FileInv'
  <1> SUFFICES ASSUME IInv, Numbered, FileInv, [Next]_vars PROVE FileInv'
    OBVIOUS
  <1>1. DbTypeOK(db) /\ TablesAgree(db) /\ SessionTypeOK(session) /\ Sound(db) /\ DOMAIN db = Fields
    BY DEF IInv, TypeOK, FileInv, DbTypeOK, Fields
  <1>2. CASE OpenEmpty
    <2>1. Changes(db, db', {"tree", "page"}) /\ ~HasArtwork(db)
      BY <1>1, <1>2 DEF OpenEmpty, PersistLayerTree, Changes, Fields, NewProject
    <2>2. Sound(db')
      BY <1>1, <2>1, BlankStaysSound
    <2>3. QED
      BY <1>2, <2>2 DEF FileInv, Fitting, OpenEmpty
  <1>3. CASE OpenExisting \/ StartBlank
    BY <1>1, <1>3 DEF OpenExisting, StartBlank, FileInv, Fitting
  <1>4. ASSUME NEW r \in Roots, NEW p \in AllPages, ImportPng(r, p) PROVE FileInv'
    <2> DEFINE b == StructuralBatch(nextId, None, EmptyRoot, r, Keep, Keep, Keep)
    <2>1. ~HasArtwork(db) /\ nextId = 1 /\ SameHistory(session, db) /\ SameCursors(session, db)
          /\ worker = "opening"
      BY <1>4 DEF IInv, ImportPng, Agrees
    <2>2. Changes(db, db', {"tree", "page"})
      BY <1>1, <1>4 DEF ImportPng, PersistLayerTree, PersistCanvasSpec, Changes, Fields, NewProject
    <2>3. Sound(db')
      BY <1>1, <2>1, <2>2, BlankStaysSound
    <2>4. b \in Batches /\ b.id = nextId /\ Replays(b)
      BY <2>1, ProjectAssumption, SessionAssumption
      DEF StructuralBatch, Batches, Nodes, Heads, Ids, Replays
    <2>5. Fits(session, b)
      BY <2>1 DEF Fits, StructuralBatch, SameHistory, SameCursors, Bottom, Cursor
    <2> HIDE DEF b
    <2>6. CanAcceptCommit(session, b)
      BY <2>1, <2>4, <2>5, NextBatchFits
    <2>7. ~IsMove(b)
      BY <2>4 DEF IsMove, Batches
    <2>8. job' = b /\ session' = session
      BY <1>4 DEF ImportPng, b
    <2>9. QED
      BY <2>3, <2>4, <2>6, <2>7, <2>8 DEF FileInv, Fitting
  <1>5. CASE Request
    BY <1>5, RequestFits
  <1>6. CASE CommitBatch
    <2>1. /\ job \in Batches /\ job.id = nextId /\ Recorded(db) /\ Below(db, nextId)
          /\ SameHistory(session, db) /\ SameCursors(session, db)
          /\ CanAcceptCommit(session, job) /\ Replays(job) /\ ~IsMove(job)
          /\ db' = Commit(db, job) /\ job' = job /\ session' = session
      BY <1>6, JobKinds DEF CommitBatch, IInv, TypeOK, Agrees, Numbered, FileInv, Fitting
    <2>2. Sound(db')
      BY <1>1, <2>1, CommitIsAccepted
    <2>3. QED
      BY <2>1, <2>2 DEF FileInv, Fitting
  <1>7. CASE PersistMove
    <2>1. /\ IsMove(job) /\ CanAcceptMove(session, job) /\ HasArtwork(db)
          /\ SameCursors(session, db)
          /\ db' = PersistHistoryCursor(db, job.target) /\ job' = job /\ session' = session
      BY <1>7 DEF PersistMove, IInv, Agrees, FileInv, Fitting
    <2>2. PICK n \in DOMAIN session.cursors : job.target = session.cursors[n]
      BY <1>7, <2>1 DEF PersistMove, FileInv, Fitting
    <2>3. n \in DOMAIN db.history \cup {None} /\ job.target = PersistedCursors(db)[n]
      BY <2>1, <2>2 DEF SameCursors, PersistedCursors
    <2>4. Sound(db')
      BY <1>1, <2>1, <2>3, PersistSound
    <2>5. HasArtwork(db')
      <3>1. db'.initial = db.initial
        BY <1>1, <2>1 DEF PersistHistoryCursor, Fields, NewProject
      <3>2. db.initial # NoCursor
        BY <1>1, <2>1 DEF HasArtwork, CurrentCursor, TablesAgree
      <3>3. QED
        BY <3>1, <3>2 DEF HasArtwork, CurrentCursor
    <2>6. QED
      BY <2>1, <2>2, <2>4, <2>5 DEF FileInv, Fitting
  <1>8. CASE AcceptBatch \/ AcceptCursorMove
    BY <1>1, <1>8 DEF AcceptBatch, AcceptCursorMove, FileInv, Fitting
  <1>9. CASE Fail \/ Stop
    BY <1>1, <1>9 DEF Fail, TransactionFails, FailsAfterCommit, Stop, FileInv, Fitting
  <1>10. CASE UNCHANGED vars
    BY <1>10 DEF vars, FileInv, Fitting, IsMove
  <1>11. QED
    BY <1>2, <1>3, <1>4, <1>5, <1>6, <1>7, <1>8, <1>9, <1>10 DEF Next, Open, Work

(* The file is sound in every reachable state.                             *)
LEMMA FileInvariance == Spec => [](IInv /\ Numbered /\ FileInv)
  BY InitNumbered, InitFits, NextNumbered, NextFits, Invariance, PTL DEF Spec

(* Whatever a crash or a failure leaves behind opens; the file accepts     *)
(* what the session prepared, and the session what the file made durable.  *)
THEOREM FileAlwaysOpens == Spec => []EveryDurableStateOpens
  <1>1. IInv /\ Numbered /\ FileInv => EveryDurableStateOpens
    <2> SUFFICES ASSUME IInv, Numbered, FileInv PROVE EveryDurableStateOpens
      OBVIOUS
    <2>1. DbTypeOK(db) /\ TablesAgree(db) /\ SessionTypeOK(session) /\ Sound(db)
      BY DEF IInv, TypeOK, FileInv
    <2>2. Opens(db)
      BY <2>1, SoundOpens
    <2>3. ASSUME worker = "prepared", IsMove(job) PROVE CursorLoads(db, job.target)
      <3>1. HasArtwork(db) /\ SameCursors(session, db)
        BY <2>3 DEF FileInv, Fitting, IInv, Agrees
      <3>2. PICK n \in DOMAIN session.cursors : job.target = session.cursors[n]
        BY <2>3 DEF FileInv, Fitting
      <3>3. n \in DOMAIN db.history \cup {None} /\ job.target = PersistedCursors(db)[n]
        BY <3>1, <3>2 DEF SameCursors, PersistedCursors
      <3>4. QED
        BY <2>1, <3>1, <3>3, PositionsLoad DEF Sound
    <2>4. ASSUME worker = "prepared", ~IsMove(job) PROVE CommitAccepted(db, job)
      <3>1. /\ job \in Batches /\ job.id = nextId /\ Recorded(db) /\ Below(db, nextId)
            /\ SameHistory(session, db) /\ SameCursors(session, db)
            /\ CanAcceptCommit(session, job) /\ Replays(job)
        BY <2>4, JobKinds DEF IInv, TypeOK, Agrees, Numbered, FileInv, Fitting
      <3>2. QED
        BY <2>1, <3>1, CommitIsAccepted
    <2>5. worker = "durable" =>
            IF IsMove(job) THEN CanAcceptMove(session, job) ELSE CanAcceptCommit(session, job)
      BY DEF FileInv, Fitting
    <2>6. QED
      BY <2>2, <2>3, <2>4, <2>5 DEF EveryDurableStateOpens
  <1>2. QED
    BY <1>1, FileInvariance, PTL

(* The file holds what its operations and its bottom refer to and nothing  *)
(* else, and every position undo and redo can be asked for loads.          *)
THEOREM NothingLeaksOrIsLost == Spec => []ContentIsExactlyReferenced
  <1>1. IInv /\ Numbered /\ FileInv => ContentIsExactlyReferenced
    <2> SUFFICES ASSUME IInv, Numbered, FileInv PROVE ContentIsExactlyReferenced
      OBVIOUS
    <2>1. DbTypeOK(db) /\ TablesAgree(db) /\ Sound(db) /\ Kept(db)
      BY DEF IInv, TypeOK, FileInv, Sound
    <2>2. ASSUME worker \in {"idle", "prepared"}, HasArtwork(db),
                 NEW n \in DOMAIN session.history.nodes \cup {None}
          PROVE  n \in DOMAIN session.cursors /\ CursorLoads(db, session.cursors[n])
      <3>1. session.history.nodes = db.history /\ session.cursors = PersistedCursors(db)
        BY <2>2 DEF IInv, Agrees, SameHistory, SameCursors
      <3>2. QED
        BY <2>1, <2>2, <3>1, PositionsLoad DEF Sound, PersistedCursors
    <2>3. QED
      BY <2>1, <2>2 DEF ContentIsExactlyReferenced, Kept, Counted
  <1>2. QED
    BY <1>1, FileInvariance, PTL
-----------------------------------------------------------------------------
(* What undo restores *)

(* What the file gives back at one of its positions.                       *)
Restored(d, at) == Shows(at.root, ViewAt(d, at))

Restores(d, m) ==
  \A n \in DOMAIN d.history \cup {None} : Restored(d, PersistedCursors(d)[n]) = m[n]

(* What is remembered of each position is what the file restores there; an *)
(* empty project that is open shows what its bottom will be.               *)
Witnessed ==
  /\ DOMAIN db.history \cup {None} \subseteq DOMAIN made
  /\ HasArtwork(db) => Restores(db, made)
  /\ ~HasArtwork(db) /\ worker \in {"opening", "idle", "prepared"}
       => made[None] = Shows(EmptyRoot, view)
  /\ worker = "durable" => HasArtwork(db)

(* A position is the bottom or an operation's.                             *)
LEMMA Positions ==
  ASSUME NEW d, TablesAgree(d), NEW n \in DOMAIN d.history \cup {None}
  PROVE  PersistedCursors(d)[n] = IF n = None THEN d.initial
                                  ELSE Cursor(n, n, d.snapshots[n].after)
  BY SnapshotOfNode DEF PersistedCursors

(* What a position shows depends on its records alone.                     *)
LEMMA SameRecords ==
  ASSUME NEW d, NEW e, NEW at, NEW to, at.snapshot = to.snapshot, at.root = to.root,
         LayerHistoryEnabled(e) <=> LayerHistoryEnabled(d),
         CanvasHistoryEnabled(e) <=> CanvasHistoryEnabled(d),
         AnimationEnabled(e) <=> AnimationEnabled(d),
         IF LayerHistoryEnabled(d) THEN e.treeOf[at.snapshot] = d.treeOf[at.snapshot]
         ELSE e.tree = d.tree,
         IF CanvasHistoryEnabled(d) THEN e.pageOf[at.snapshot] = d.pageOf[at.snapshot]
         ELSE e.page = d.page,
         IF AnimationEnabled(d) THEN e.timelineOf[at.snapshot] = d.timelineOf[at.snapshot]
         ELSE e.timeline = d.timeline
  PROVE  Restored(e, to) = Restored(d, at)
  <1>1. TreeAt(e, to) = TreeAt(d, at)
    BY DEF TreeAt
  <1>2. PageAt(e, to) = PageAt(d, at)
    BY DEF PageAt
  <1>3. TimelineAt(e, to) = TimelineAt(d, at)
    BY DEF TimelineAt
  <1>4. QED
    BY <1>1, <1>2, <1>3 DEF Restored, ViewAt

(* An earlier position is restored as before by what a batch writes: a     *)
(* record made for it now repeats what was the file's own value.           *)
LEMMA WrittenRestores ==
  ASSUME NEW d, DbTypeOK(d), TablesAgree(d), NEW b \in Batches,
         HasArtwork(d) => MetadataLoads(d),
         ~HasArtwork(d) => Undrawn(d),
         NEW at, at.snapshot \in KnownSnapshots(d, b), at.snapshot # b.id,
         HasArtwork(d) => at.snapshot \in DOMAIN d.snapshots \cup {d.initial.snapshot}
  PROVE  Restored(Written(d, b), at) = Restored(d, at)
  <1> DEFINE w == Written(d, b)
             s == at.snapshot
             known == KnownSnapshots(d, b)
  <1>1. /\ LayerHistoryEnabled(w) <=> LayersCaptured(d, b)
        /\ CanvasHistoryEnabled(w) <=> CanvasHistoryEnabled(d) \/ b.page # Keep
        /\ AnimationEnabled(w) <=>
             AnimationEnabled(d) \/ b.timeline \notin {Keep, NoTimeline}
    BY ONLY WrittenParts, DbTypeOK(d), b \in Batches DEF w, known
  <1>2. w.treeOf = IF LayersCaptured(d, b)
                   THEN With(IF LayerHistoryEnabled(d) THEN d.treeOf
                             ELSE Freeze(known, d.tree), b.id, w.tree)
                   ELSE d.treeOf
    BY ONLY WrittenParts, DbTypeOK(d), b \in Batches DEF w, known
  <1>3. w.pageOf = IF CanvasHistoryEnabled(d) \/ b.page # Keep
                   THEN With(IF CanvasHistoryEnabled(d) THEN d.pageOf
                             ELSE Freeze(known, d.page), b.id, w.page)
                   ELSE d.pageOf
    BY ONLY WrittenParts, DbTypeOK(d), b \in Batches DEF w, known
  <1>4. w.timelineOf = IF AnimationEnabled(d) \/ b.timeline \notin {Keep, NoTimeline}
                       THEN With(IF AnimationEnabled(d) THEN d.timelineOf
                                 ELSE Freeze(known, NoTimeline), b.id, w.timeline)
                       ELSE d.timelineOf
    BY ONLY WrittenParts, DbTypeOK(d), b \in Batches DEF w, known
  <1>5. /\ w.tree = IF b.tree = Keep THEN d.tree ELSE b.tree
        /\ w.page = IF b.page = Keep THEN d.page ELSE b.page
    BY WrittenChanges DEF DbTypeOK, Fields, Batches
  <1> HIDE DEF w, known
  <1>6. /\ LayerHistoryEnabled(d) => s \in DOMAIN d.treeOf
        /\ CanvasHistoryEnabled(d) => s \in DOMAIN d.pageOf
        /\ AnimationEnabled(d) => s \in DOMAIN d.timelineOf
    <2>1. CASE HasArtwork(d)
      BY <2>1 DEF MetadataLoads
    <2>2. CASE ~HasArtwork(d)
      BY <2>2 DEF Undrawn, LayerHistoryEnabled, CanvasHistoryEnabled, AnimationEnabled,
                  BaseSchema, LayerHistorySchema, CanvasHistorySchema
    <2>3. QED
      BY <2>1, <2>2
  <1>7. s \in known /\ s # b.id
    BY DEF known
  <1>8. TreeAt(w, at) = TreeAt(d, at)
    <2>1. CASE ~LayersCaptured(d, b)
      BY <1>1, <1>5, <2>1 DEF TreeAt, LayersCaptured
    <2>2. CASE LayersCaptured(d, b)
      BY <1>1, <1>2, <1>6, <1>7, <2>2 DEF TreeAt, With, Freeze
    <2>3. QED
      BY <2>1, <2>2
  <1>9. PageAt(w, at) = PageAt(d, at)
    <2>1. CASE ~(CanvasHistoryEnabled(d) \/ b.page # Keep)
      BY <1>1, <1>5, <2>1 DEF PageAt
    <2>2. CASE CanvasHistoryEnabled(d) \/ b.page # Keep
      BY <1>1, <1>3, <1>6, <1>7, <2>2 DEF PageAt, With, Freeze
    <2>3. QED
      BY <2>1, <2>2
  <1>10. ShownTimeline(TimelineAt(w, at)) = ShownTimeline(TimelineAt(d, at))
    <2>1. CASE ~AnimationEnabled(w)
      <3>1. ~AnimationEnabled(d)
        BY <1>1, <2>1
      <3>2. QED
        BY <2>1, <3>1 DEF TimelineAt, AnimationEnabled
    <2>2. CASE AnimationEnabled(d)
      BY <1>1, <1>4, <1>6, <1>7, <2>2 DEF TimelineAt, With
    <2>3. CASE AnimationEnabled(w) /\ ~AnimationEnabled(d)
      <3>1. TimelineAt(w, at) = NoTimeline
        BY <1>1, <1>4, <1>7, <2>3 DEF TimelineAt, With, Freeze
      <3>2. TimelineAt(d, at) = Absent
        BY <2>3 DEF TimelineAt, AnimationEnabled
      <3>3. QED
        BY <3>1, <3>2 DEF ShownTimeline
    <2>4. QED
      BY <2>1, <2>2, <2>3
  <1>11. QED
    BY <1>8, <1>9, <1>10 DEF Restored, ViewAt, View, w

(* Where a project stands, its records are its current values.             *)
LEMMA CurrentView ==
  ASSUME NEW d, MetadataLoads(d)
  PROVE  Restored(d, CurrentCursor(d)) = Shows(CurrentCursor(d).root, StoredView(d))
  BY DEF Restored, ViewAt, StoredView, TreeAt, PageAt, TimelineAt, MetadataLoads

(* Retention restores at every position that is left what was restored     *)
(* there, and at the new bottom what the operation that became it had left. *)
LEMMA RetentionRestores ==
  ASSUME NEW w, DOMAIN w = Fields, TablesAgree(w),
         w.initial # NoCursor, w.cursor # NoCursor, Drawn(w), Overfull(w.history),
         TablesAgree(RetainHistory(w))
  PROVE  LET c == RetainHistory(w)
             base == Baseline(w.history, CurrentCursor(w).head)
         IN /\ \A n \in DOMAIN c.history \ {None} :
                 /\ n \in DOMAIN w.history
                 /\ Restored(c, PersistedCursors(c)[n]) = Restored(w, PersistedCursors(w)[n])
            /\ base # None => base \in DOMAIN w.history
            /\ Restored(c, PersistedCursors(c)[None])
                 = Restored(w, PersistedCursors(w)[base])
  <1> DEFINE head == CurrentCursor(w).head
             kept == Retained(w.history, head)
             base == Baseline(w.history, head)
             c == RetainHistory(w)
             records == kept \cup {KeptInitial(w).snapshot}
  <1>1. /\ head \in kept /\ kept \subseteq DOMAIN w.snapshots
        /\ KeptSnapshots(w) = kept
        /\ base = None => KeptInitial(w) = w.initial
        /\ base # None => /\ base \in DOMAIN w.snapshots \ kept
                          /\ KeptInitial(w) = Cursor(base, None, w.snapshots[base].after)
    BY Retention
  <1>2. /\ Changes(w, c, {"initial", "history", "snapshots", "strokes", "treeOf",
                          "pageOf", "timelineOf", "roots", "refs", "objects"})
        /\ c.initial = KeptInitial(w)
        /\ c.history = RetainedNodes(w.history, head)
        /\ c.snapshots = Keeping(w.snapshots, KeptSnapshots(w))
        /\ c.treeOf = Keeping(w.treeOf, RetainedRecords(w))
        /\ c.pageOf = Keeping(w.pageOf, RetainedRecords(w))
        /\ c.timelineOf = Keeping(w.timelineOf, RetainedRecords(w))
    BY RetainHistoryChanges
  <1>3. RetainedRecords(w) = records /\ DOMAIN c.history = kept
    BY <1>1, <1>2 DEF RetainedRecords, RetainedNodes
  <1> HIDE DEF c
  <1>4. /\ c.schema = w.schema
        /\ c.tree = w.tree /\ c.page = w.page /\ c.timeline = w.timeline
    BY <1>2 DEF Changes, Fields, NewProject
  <1>5. DOMAIN w.snapshots = DOMAIN w.history /\ MetadataLoads(w)
    BY DEF TablesAgree, Drawn
  <1>6. records \subseteq DOMAIN w.snapshots \cup {w.initial.snapshot}
    <2>1. CASE base = None
      BY <1>1, <2>1
    <2>2. CASE base # None
      BY <1>1, <2>2 DEF Cursor
    <2>3. QED
      BY <2>1, <2>2
  <1>7. ASSUME NEW at, NEW to, at.snapshot \in records, at.snapshot = to.snapshot, at.root = to.root
        PROVE  Restored(c, to) = Restored(w, at)
    <2> HIDE DEF records
    <2>1. /\ LayerHistoryEnabled(c) <=> LayerHistoryEnabled(w)
          /\ CanvasHistoryEnabled(c) <=> CanvasHistoryEnabled(w)
          /\ AnimationEnabled(c) <=> AnimationEnabled(w)
      BY <1>4 DEF LayerHistoryEnabled, CanvasHistoryEnabled, AnimationEnabled
    <2>2. /\ LayerHistoryEnabled(w) => at.snapshot \in DOMAIN w.treeOf
          /\ CanvasHistoryEnabled(w) => at.snapshot \in DOMAIN w.pageOf
          /\ AnimationEnabled(w) => at.snapshot \in DOMAIN w.timelineOf
      BY <1>5, <1>6, <1>7 DEF MetadataLoads
    <2>3. /\ LayerHistoryEnabled(w) => c.treeOf[at.snapshot] = w.treeOf[at.snapshot]
          /\ CanvasHistoryEnabled(w) => c.pageOf[at.snapshot] = w.pageOf[at.snapshot]
          /\ AnimationEnabled(w) => c.timelineOf[at.snapshot] = w.timelineOf[at.snapshot]
      BY <1>2, <1>3, <1>7, <2>2 DEF Keeping
    <2>4. QED
      BY <1>4, <1>7, <2>1, <2>3, SameRecords
  <1>8. ASSUME NEW n \in kept, n # None
        PROVE  /\ n \in DOMAIN w.history
               /\ Restored(c, PersistedCursors(c)[n]) = Restored(w, PersistedCursors(w)[n])
    <2>1. n \in DOMAIN w.history /\ n \in DOMAIN c.history
      BY <1>1, <1>3, <1>5
    <2>2. PersistedCursors(w)[n] = Cursor(n, n, w.snapshots[n].after)
          /\ PersistedCursors(c)[n] = Cursor(n, n, c.snapshots[n].after)
      BY <1>8, <2>1, Positions DEF c
    <2>3. c.snapshots[n] = w.snapshots[n]
      BY <1>1, <1>2 DEF Keeping
    <2>4. QED
      BY <1>7, <2>1, <2>2, <2>3 DEF Cursor
  <1>9. Restored(c, PersistedCursors(c)[None]) = Restored(w, PersistedCursors(w)[base])
    <2>1. PersistedCursors(c)[None] = KeptInitial(w)
      BY <1>2, Positions DEF c
    <2>2. PersistedCursors(w)[base] =
            IF base = None THEN w.initial ELSE Cursor(base, base, w.snapshots[base].after)
      BY <1>1, <1>5, Positions
    <2>3. /\ PersistedCursors(w)[base].snapshot = KeptInitial(w).snapshot
          /\ PersistedCursors(w)[base].root = KeptInitial(w).root
      BY <1>1, <2>2 DEF Cursor
    <2>4. QED
      BY <1>7, <2>1, <2>3
  <1>10. QED
    BY <1>1, <1>3, <1>5, <1>8, <1>9 DEF c

(* What a commit leaves restores what was remembered, and its own result.  *)
LEMMA CommitRestores ==
  ASSUME IInv, Numbered, FileInv, Witnessed, CommitBatch, WitnessCommit
  PROVE  HasArtwork(db') /\ DOMAIN db'.history \cup {None} \subseteq DOMAIN made'
         /\ Restores(db', made')
  <1> DEFINE b == job
             d == db
             w == Written(d, b)
             c == RetainHistory(w)
             all == With(made, b.id, BatchResult(b))
             base == Baseline(w.history, b.id)
             kept == IF base = None THEN all ELSE With(all, None, all[base])
  <1>1. /\ DbTypeOK(d) /\ TablesAgree(d) /\ SessionTypeOK(session) /\ Sound(d)
        /\ b \in Batches /\ b.id = nextId /\ Recorded(d) /\ Below(d, b.id)
        /\ SameHistory(session, d) /\ SameCursors(session, d) /\ view = StoredView(d)
        /\ CanAcceptCommit(session, b) /\ Replays(b)
        /\ db' = c
    BY JobKinds DEF CommitBatch, Commit, IInv, TypeOK, Agrees, Numbered, FileInv, Fitting
  <1>2. CommitAccepted(d, b) /\ Sound(c)
    BY <1>1, CommitIsAccepted DEF Commit
  <1>3. /\ made' = Keeping(kept, DOMAIN c.history \cup {None})
        /\ DOMAIN d.history \cup {None} \subseteq DOMAIN made
        /\ HasArtwork(d) => Restores(d, made)
        /\ ~HasArtwork(d) => made[None] = Shows(EmptyRoot, view)
    BY <1>1 DEF WitnessCommit, Witnessed, CommitBatch
  <1>4. LineageHolds(d, b) /\ \A n \in DOMAIN d.history : n < b.id
    BY <1>1, <1>2 DEF CommitAccepted, Below
  <1>5. /\ DOMAIN w = Fields
        /\ w.history = With(d.history, b.id, b.node)
        /\ w.snapshots = With(d.snapshots, b.id,
             [head |-> b.id, before |-> b.node.before, after |-> b.node.after,
              stroke |-> b.stroke])
        /\ w.cursor = Cursor(b.id, b.id, b.node.after)
        /\ w.initial = IF d.initial = NoCursor THEN Cursor(FirstSnapshot(b), None, b.node.before)
                       ELSE d.initial
        /\ w.initial # NoCursor
        /\ w.cursor # NoCursor /\ CurrentCursor(w) = w.cursor
        /\ TablesAgree(w) /\ Rows(w) /\ Placed(w)
        /\ Descending(w.history) /\ Joins(w.history, w.initial.root)
    BY <1>1, <1>4, WrittenRows
  <1>6. MetadataLoads(w)
    BY <1>1, <1>4, WrittenMetadata
  <1>7. Drawn(w)
    BY <1>5, <1>6 DEF Drawn
  <1>8. StoredView(w) = AcceptedView(view, b)
    <2>1. /\ w.tree = IF b.tree = Keep THEN d.tree ELSE b.tree
          /\ w.page = IF b.page = Keep THEN d.page ELSE b.page
          /\ ShownTimeline(w.timeline) =
               IF b.timeline = Keep THEN ShownTimeline(d.timeline) ELSE b.timeline
      BY <1>1, WrittenChanges DEF DbTypeOK, Fields, Batches
    <2>2. /\ view.tree = d.tree /\ view.page = d.page
          /\ view.timeline = ShownTimeline(d.timeline)
      BY <1>1 DEF StoredView, View
    <2> HIDE DEF w
    <2>3. QED
      BY <2>1, <2>2 DEF StoredView, View, AcceptedView
  <1>9. BatchResult(b) = Shows(b.node.after, AcceptedView(view, b))
    BY DEF BatchResult, AcceptedView
  <1> HIDE DEF w, d, b
  <1>10. /\ b.id \in Nat /\ b.id > 0
         /\ HasArtwork(d) <=> d.initial # NoCursor
         /\ ~HasArtwork(d) => DOMAIN d.history = {}
    <2>1. b.id \in Nat /\ b.id > 0
      BY <1>1, SessionAssumption DEF Batches, Ids
    <2>2. QED
      BY <1>1, <2>1 DEF HasArtwork, CurrentCursor, TablesAgree
  (* Before retention *)
  <1>11. ASSUME NEW n \in DOMAIN w.history \cup {None}
         PROVE  n \in DOMAIN all /\ Restored(w, PersistedCursors(w)[n]) = all[n]
    <2>1. DOMAIN all = DOMAIN made \cup {b.id} /\ DOMAIN w.history = DOMAIN d.history \cup {b.id}
      BY <1>5 DEF With
    <2>2. n \in DOMAIN all
      BY <1>3, <2>1
    <2>3. CASE n = b.id
      <3>1. PersistedCursors(w)[n] = CurrentCursor(w)
        BY <1>5, <1>10, <2>1, <2>3, Positions DEF With, Cursor
      <3>2. Restored(w, CurrentCursor(w)) = Shows(b.node.after, StoredView(w))
        BY <1>5, <1>6, CurrentView DEF Cursor
      <3>3. all[n] = BatchResult(b)
        BY <2>3 DEF With
      <3>4. QED
        BY <1>8, <1>9, <2>2, <3>1, <3>2, <3>3
    <2>4. CASE n # b.id
      <3>1. n \in DOMAIN d.history \cup {None} /\ all[n] = made[n]
        BY <1>3, <2>1, <2>4 DEF With
      <3>2. CASE HasArtwork(d)
        <4> DEFINE at == PersistedCursors(d)[n]
        <4>1. PersistedCursors(w)[n] = at
          <5>1. CASE n = None
            BY <1>1, <1>5, <1>10, <3>1, <3>2, <5>1, Positions
          <5>2. CASE n # None
            <6>1. w.snapshots[n] = d.snapshots[n]
              BY <1>1, <1>5, <2>4, <3>1, <5>2 DEF With, TablesAgree
            <6>2. QED
              BY <1>1, <1>5, <2>1, <3>1, <5>2, <6>1, Positions
          <5>3. QED
            BY <5>1, <5>2
        <4>2. at.snapshot \in DOMAIN d.snapshots \cup {d.initial.snapshot}
          <5>1. at = IF n = None THEN d.initial ELSE Cursor(n, n, d.snapshots[n].after)
            BY <1>1, <3>1, Positions
          <5>2. n # None => n \in DOMAIN d.snapshots
            BY <1>1, <3>1 DEF TablesAgree
          <5>3. QED
            BY <5>1, <5>2 DEF Cursor
        <4>3. at.snapshot \in KnownSnapshots(d, b) /\ at.snapshot # b.id
          BY <1>1, <1>4, <1>10, <3>2, <4>2 DEF KnownSnapshots, TablesAgree, Below
        <4>4. MetadataLoads(d)
          BY <1>1, <3>2 DEF Sound, Drawn
        <4> HIDE DEF at
        <4>5. Restored(w, at) = Restored(d, at)
          BY <1>1, <3>2, <4>2, <4>3, <4>4, WrittenRestores DEF w
        <4>6. Restored(d, at) = made[n]
          BY <1>3, <3>1, <3>2 DEF Restores, at
        <4>7. QED
          BY <2>2, <3>1, <4>1, <4>5, <4>6
      <3>3. CASE ~HasArtwork(d)
        <4> DEFINE at == Cursor(FirstSnapshot(b), None, b.node.before)
        <4>1. n = None /\ d.initial = NoCursor
          BY <1>10, <3>1, <3>3
        <4>2. PersistedCursors(w)[n] = at
          BY <1>5, <4>1, Positions
        <4>3. session.cursor = Bottom
          BY <1>1, <3>3 DEF SameCursors
        <4>4. FirstSnapshot(b) = 0 /\ b.node.before = EmptyRoot
          BY <1>1, <4>3
          DEF CanAcceptCommit, CanAppendNode, SameHistory, SameCursors, Bottom, Cursor,
              FirstSnapshot
        <4>5. at.snapshot = FirstSnapshot(b) /\ at.root = EmptyRoot
          BY <4>4 DEF Cursor
        <4>6. at.snapshot \in KnownSnapshots(d, b) /\ at.snapshot # b.id
          BY <1>10, <4>1, <4>4, <4>5 DEF KnownSnapshots
        <4>7. Undrawn(d)
          BY <1>1, <3>3 DEF Sound
        <4> HIDE DEF at
        <4>8. Restored(w, at) = Restored(d, at)
          BY <1>1, <3>3, <4>6, <4>7, WrittenRestores DEF w
        <4>9. ViewAt(d, at) = StoredView(d)
          BY <4>7
          DEF ViewAt, StoredView, TreeAt, PageAt, TimelineAt, Undrawn, LayerHistoryEnabled,
              CanvasHistoryEnabled, AnimationEnabled, BaseSchema, LayerHistorySchema,
              CanvasHistorySchema
        <4>10. Restored(d, at) = made[n]
          BY <1>1, <1>3, <3>3, <4>1, <4>5, <4>9 DEF Restored
        <4>11. QED
          BY <2>2, <3>1, <4>2, <4>8, <4>10
      <3>4. QED
        BY <3>2, <3>3
    <2>5. QED
      BY <2>3, <2>4
  <1> HIDE DEF all
  <1>12. CurrentCursor(w).head = b.id
    BY <1>5 DEF Cursor
  <1>13. HasArtwork(c)
    <2>1. c.cursor = w.cursor
      <3>1. CASE Overfull(w.history)
        BY <1>5, <3>1, RetainHistoryChanges DEF Changes, Fields, NewProject
      <3>2. CASE ~Overfull(w.history)
        BY <3>2 DEF RetainHistory
      <3>3. QED
        BY <3>1, <3>2
    <2>2. QED
      BY <1>5, <2>1 DEF HasArtwork, CurrentCursor
  <1>14. CASE ~Overfull(w.history)
    <2>1. c = w /\ base = None
      BY <1>14 DEF RetainHistory, Baseline
    <2>2. made' = Keeping(all, DOMAIN w.history \cup {None})
      BY <1>3, <2>1
    <2>3. /\ DOMAIN w.history \cup {None} \subseteq DOMAIN made'
          /\ \A n \in DOMAIN w.history \cup {None} : made'[n] = all[n]
      BY <1>11, <2>2 DEF Keeping
    <2>4. QED
      BY <1>1, <1>11, <1>13, <2>1, <2>3 DEF Restores
  <1>15. CASE Overfull(w.history)
    <2>1. TablesAgree(c)
      <3>1. IInv'
        BY CommitBatchIInv
      <3>2. QED
        BY <1>1, <3>1 DEF IInv
    <2>2. /\ \A n \in DOMAIN c.history \ {None} :
               /\ n \in DOMAIN w.history
               /\ Restored(c, PersistedCursors(c)[n]) = Restored(w, PersistedCursors(w)[n])
          /\ base # None => base \in DOMAIN w.history
          /\ Restored(c, PersistedCursors(c)[None]) = Restored(w, PersistedCursors(w)[base])
      BY <1>5, <1>7, <1>12, <1>15, <2>1, RetentionRestores
    <2> HIDE DEF c, base
    <2>3. ASSUME NEW n \in DOMAIN c.history \cup {None}
          PROVE  n \in DOMAIN made' /\ Restored(c, PersistedCursors(c)[n]) = made'[n]
      <3>1. n \in DOMAIN kept /\ made'[n] = kept[n] /\ n \in DOMAIN made'
        BY <1>3, <1>11, <2>2 DEF Keeping, With
      <3>2. CASE n # None
        <4>1. kept[n] = all[n]
          BY <1>11, <2>2, <3>2 DEF With
        <4>2. QED
          BY <1>11, <2>2, <3>1, <3>2, <4>1
      <3>3. CASE n = None
        <4>1. kept[n] = all[base]
          BY <3>3 DEF With
        <4>2. base \in DOMAIN w.history \cup {None}
          BY <2>2
        <4>3. QED
          BY <1>11, <2>2, <3>1, <3>3, <4>1, <4>2
      <3>4. QED
        BY <3>2, <3>3
    <2>4. QED
      BY <1>1, <1>13, <2>3 DEF Restores
  <1>16. QED
    BY <1>14, <1>15

(* A cursor move changes only which record is the current one.             *)
LEMMA MoveRestores ==
  ASSUME NEW d, DbTypeOK(d), TablesAgree(d), HasArtwork(d), Sound(d),
         NEW m \in DOMAIN d.history \cup {None}, NEW memory, Restores(d, memory)
  PROVE  LET e == PersistHistoryCursor(d, PersistedCursors(d)[m])
         IN /\ HasArtwork(e) /\ e.history = d.history
            /\ Restores(e, memory)
  <1> DEFINE target == PersistedCursors(d)[m]
             e == PersistHistoryCursor(d, target)
  <1>1. CursorLoads(d, target)
    BY PositionsLoad DEF Sound
  <1>2. DOMAIN d = Fields /\ MetadataLoads(d) /\ d.initial # NoCursor
    BY DEF DbTypeOK, Fields, Sound, Drawn, HasArtwork, CurrentCursor, TablesAgree
  <1> HIDE DEF target
  <1>3. /\ e.schema = d.schema /\ e.history = d.history /\ e.snapshots = d.snapshots
        /\ e.initial = d.initial
        /\ e.treeOf = d.treeOf /\ e.pageOf = d.pageOf /\ e.timelineOf = d.timelineOf
        /\ e.tree = TreeAt(d, target) /\ e.page = PageAt(d, target)
        /\ e.timeline = TimelineAt(d, target)
    BY <1>2 DEF PersistHistoryCursor, Fields, NewProject
  <1> HIDE DEF e
  <1>4. HasArtwork(e)
    BY <1>2, <1>3 DEF HasArtwork, CurrentCursor
  <1>5. PersistedCursors(e) = PersistedCursors(d)
    BY <1>3 DEF PersistedCursors, SnapshotOf
  <1>6. /\ LayerHistoryEnabled(e) <=> LayerHistoryEnabled(d)
        /\ CanvasHistoryEnabled(e) <=> CanvasHistoryEnabled(d)
    BY <1>3 DEF LayerHistoryEnabled, CanvasHistoryEnabled
  <1>7. AnimationEnabled(e) <=> AnimationEnabled(d)
    <2>1. CASE ~AnimationEnabled(d)
      BY <1>3, <2>1 DEF AnimationEnabled, TimelineAt
    <2>2. CASE AnimationEnabled(d)
      <3>1. target.snapshot \in DOMAIN d.timelineOf
        BY <1>1, <2>2 DEF CursorLoads
      <3>2. d.timelineOf[target.snapshot] # Absent
        BY <3>1, ProjectAssumption, SessionAssumption DEF DbTypeOK, MapsInto, AllTimelines
      <3>3. QED
        BY <1>3, <2>2, <3>2 DEF AnimationEnabled, TimelineAt
    <2>3. QED
      BY <2>1, <2>2
  <1>8. /\ ~LayerHistoryEnabled(d) => e.tree = d.tree
        /\ ~CanvasHistoryEnabled(d) => e.page = d.page
        /\ ~AnimationEnabled(d) => e.timeline = d.timeline
    BY <1>3 DEF TreeAt, PageAt, TimelineAt
  <1>9. ASSUME NEW at PROVE Restored(e, at) = Restored(d, at)
    BY <1>3, <1>6, <1>7, <1>8, SameRecords
  <1>10. QED
    BY <1>3, <1>4, <1>5, <1>9 DEF Restores, e, target

(* The witness watches the worker and never holds it up or moves it.       *)
LEMMA WitnessWatches ==
  /\ WitnessInit => Init
  /\ [WitnessNext]_witnessVars => [Next]_vars
  BY DEF WitnessInit, WitnessNext, witnessVars, Next, Open, Work

(* Nothing is drawn yet.                                                   *)
LEMMA InitWitnessed == WitnessInit => Witnessed
  <1> SUFFICES ASSUME WitnessInit PROVE Witnessed
    OBVIOUS
  <1>1. ~HasArtwork(db) /\ DOMAIN db.history = {} /\ worker = "closed"
    BY DEF WitnessInit, Init, HasArtwork, CurrentCursor, NewProject, EmptyMap
  <1>2. DOMAIN made = {None}
    BY DEF WitnessInit, With, EmptyMap
  <1>3. QED
    BY <1>1, <1>2 DEF Witnessed

(* Every step of the worker keeps what is remembered and what is stored    *)
(* the same.                                                               *)
LEMMA NextWitnessed ==
  IInv /\ Numbered /\ FileInv /\ Witnessed /\ [WitnessNext]_witnessVars => Witnessed'
  <1> SUFFICES ASSUME IInv, Numbered, FileInv, Witnessed, [WitnessNext]_witnessVars
               PROVE  Witnessed'
    OBVIOUS
  <1>1. DbTypeOK(db) /\ TablesAgree(db) /\ Sound(db) /\ DOMAIN db = Fields
    BY DEF IInv, TypeOK, FileInv, DbTypeOK, Fields
  <1>2. CASE CommitBatch /\ WitnessCommit
    BY <1>2, CommitRestores DEF CommitBatch, Witnessed
  <1>3. ASSUME OpenEmpty \/ \E r \in Roots, p \in AllPages : ImportPng(r, p),
               made' = With(EmptyMap, None, Shows(EmptyRoot, view'))
        PROVE  Witnessed'
    <2>1. ~HasArtwork(db) /\ worker' # "durable"
      BY <1>3 DEF OpenEmpty, ImportPng, IInv
    <2>2. Changes(db, db', {"tree", "page"})
      BY <1>1, <1>3
      DEF OpenEmpty, ImportPng, PersistLayerTree, PersistCanvasSpec, Changes, Fields, NewProject
    <2>3. db'.history = db.history /\ db'.initial = db.initial /\ db'.cursor = db.cursor
      BY <2>2 DEF Changes, Fields, NewProject
    <2>4. ~HasArtwork(db') /\ DOMAIN db'.history = {}
      BY <1>1, <2>1, <2>3 DEF HasArtwork, CurrentCursor, TablesAgree
    <2>5. DOMAIN made' = {None} /\ made'[None] = Shows(EmptyRoot, view')
      BY <1>3 DEF With, EmptyMap
    <2>6. QED
      BY <2>1, <2>4, <2>5 DEF Witnessed
  <1>4. CASE PersistMove /\ UNCHANGED made
    <2>1. /\ IsMove(job) /\ HasArtwork(db) /\ SameCursors(session, db)
          /\ db' = PersistHistoryCursor(db, job.target) /\ worker' = "durable"
      BY <1>4 DEF PersistMove, IInv, Agrees, FileInv, Fitting
    <2>2. PICK n \in DOMAIN session.cursors : job.target = session.cursors[n]
      BY <1>4, <2>1 DEF PersistMove, FileInv, Fitting
    <2>3. n \in DOMAIN db.history \cup {None} /\ job.target = PersistedCursors(db)[n]
      BY <2>1, <2>2 DEF SameCursors, PersistedCursors
    <2>4. Restores(db, made) /\ DOMAIN db.history \cup {None} \subseteq DOMAIN made
      BY <2>1 DEF Witnessed
    <2>5. HasArtwork(db') /\ db'.history = db.history /\ Restores(db', made)
      BY <1>1, <2>1, <2>3, <2>4, MoveRestores
    <2>6. QED
      BY <1>4, <2>1, <2>4, <2>5 DEF Witnessed
  <1>5. CASE OpenExisting /\ UNCHANGED made
    BY <1>5 DEF OpenExisting, Witnessed
  <1>6. CASE (StartBlank \/ Request) /\ UNCHANGED made
    <2>1. /\ UNCHANGED <<db, view, made>> /\ worker \in {"opening", "idle"}
          /\ worker' \in {"idle", "prepared"}
      BY <1>6
      DEF StartBlank, Request, PrepareStroke, PrepareEdit, PrepareLayers, PreparePage,
          PrepareAnimation, PrepareUndo, PrepareRedo, PrepareRedoTo, Prepare, PrepareMove
    <2>2. QED
      BY <2>1 DEF Witnessed
  <1>7. CASE (Fail \/ Stop) /\ UNCHANGED made
    <2>1. UNCHANGED <<db, made>> /\ worker' \in {"failed", "closed"}
      BY <1>7 DEF Fail, TransactionFails, FailsAfterCommit, Stop
    <2>2. QED
      BY <2>1 DEF Witnessed
  <1>8. CASE (AcceptBatch \/ AcceptCursorMove) /\ UNCHANGED made
    <2>1. UNCHANGED <<db, made>> /\ worker = "durable" /\ worker' = "idle"
      BY <1>8 DEF AcceptBatch, AcceptCursorMove
    <2>2. QED
      BY <2>1 DEF Witnessed
  <1>9. CASE UNCHANGED witnessVars
    BY <1>9 DEF witnessVars, vars, Witnessed
  <1>10. QED
    BY <1>2, <1>3, <1>4, <1>5, <1>6, <1>7, <1>8, <1>9 DEF WitnessNext

(* Undo and redo restore, at every position still reachable, exactly what  *)
(* was on screen when that operation was made.                             *)
THEOREM UndoBringsBackWhatWas == WitnessSpec => []UndoRestoresWhatWasMade
  <1>1. Witnessed => UndoRestoresWhatWasMade
    BY DEF Witnessed, Restores, Restored, UndoRestoresWhatWasMade
  <1>2. WitnessSpec => Spec
    BY WitnessWatches, PTL DEF WitnessSpec, Spec
  <1>3. WitnessSpec => [](IInv /\ Numbered /\ FileInv)
    BY <1>2, FileInvariance, PTL
  <1>4. WitnessSpec => []Witnessed
    BY <1>3, InitWitnessed, NextWitnessed, PTL DEF WitnessSpec
  <1>5. QED
    BY <1>1, <1>4, PTL

-----------------------------------------------------------------------------
(* No commit forgets more than it must *)

(* A commit from which an operation is missing was one too many, and       *)
(* leaves the file full.                                                   *)
LEMMA CommitForgets ==
  ASSUME IInv, Numbered, FileInv, CommitBatch,
         ~(DOMAIN db.history \subseteq DOMAIN db'.history)
  PROVE  Cardinality(DOMAIN db'.history) = HistoryLimit
  <1> DEFINE w == Written(db, job)
             head == CurrentCursor(w).head
  <1>1. /\ DbTypeOK(db) /\ TablesAgree(db) /\ SessionTypeOK(session) /\ Sound(db)
        /\ job \in Batches /\ job.id = nextId /\ Recorded(db) /\ Below(db, job.id)
        /\ Replays(job) /\ CommitAccepted(db, job)
        /\ db' = RetainHistory(w)
    BY JobKinds DEF CommitBatch, Commit, IInv, TypeOK, Agrees, Numbered, FileInv, Fitting
  <1>2. LineageHolds(db, job) /\ \A n \in DOMAIN db.history : n < job.id
    BY <1>1 DEF CommitAccepted, Below
  <1>3. /\ DOMAIN w = Fields
        /\ w.history = With(db.history, job.id, job.node)
        /\ CurrentCursor(w) = Cursor(job.id, job.id, job.node.after)
        /\ Descending(w.history)
    BY <1>1, <1>2, WrittenRows
  <1>4. DOMAIN w.history = DOMAIN db.history \cup {job.id} /\ head = job.id
    BY <1>3 DEF With, Cursor
  <1> HIDE DEF w
  <1>5. Overfull(w.history)
    <2>1. ~Overfull(w.history) => db' = w
      BY <1>1 DEF RetainHistory
    <2>2. QED
      BY <1>4, <2>1
  <1>6. db'.history = RetainedNodes(w.history, head)
    BY <1>1, <1>3, <1>5, RetainHistoryChanges
  <1>7. head \in DOMAIN w.history \cup {None}
    BY <1>4
  <1> HIDE DEF head
  <1>8. DOMAIN db'.history = Retained(w.history, head)
    BY <1>6 DEF RetainedNodes
  <1>9. Cardinality(Retained(w.history, head)) = HistoryLimit
    BY <1>3, <1>5, <1>7, RetainedFull
  <1>10. QED
    BY <1>8, <1>9

(* An operation disappears from the file only in a commit that finds it    *)
(* full, and retention then keeps as many as the limit allows: one fewer   *)
(* than the code could have kept is never what it leaves.                  *)
THEOREM ForgetsOnlyWhenFull == Spec => OnlyAFullHistoryForgets
  <1> DEFINE Step == ~(DOMAIN db.history \subseteq DOMAIN db'.history)
                        => Cardinality(DOMAIN db'.history) = HistoryLimit
  <1>1. ASSUME IInv /\ Numbered /\ FileInv, [Next]_vars PROVE [Step]_vars
    <2>1. DOMAIN db = Fields
      BY <1>1 DEF IInv, TypeOK, DbTypeOK, Fields
    <2>2. db'.history = db.history => Step
      OBVIOUS
    <2>3. CASE OpenEmpty
      BY <2>1, <2>2, <2>3 DEF OpenEmpty, PersistLayerTree, Fields, NewProject
    <2>4. ASSUME NEW r \in Roots, NEW p \in AllPages, ImportPng(r, p) PROVE Step
      BY <2>1, <2>2, <2>4 DEF ImportPng, PersistLayerTree, PersistCanvasSpec, Fields, NewProject
    <2>5. CASE CommitBatch
      BY <1>1, <2>5, CommitForgets
    <2>6. CASE PersistMove
      BY <2>1, <2>2, <2>6 DEF PersistMove, PersistHistoryCursor, Fields, NewProject
    <2>7. CASE UNCHANGED vars
      BY <2>2, <2>7 DEF vars
    <2>8. CASE Request
      BY <2>2, <2>8
      DEF Request, PrepareStroke, PrepareEdit, PrepareLayers, PreparePage, PrepareAnimation,
          PrepareUndo, PrepareRedo, PrepareRedoTo, PrepareMove, Prepare
    <2>9. CASE OpenExisting \/ StartBlank \/ AcceptBatch \/ AcceptCursorMove \/ Fail \/ Stop
      BY <2>2, <2>9
      DEF OpenExisting, StartBlank, AcceptBatch, AcceptCursorMove, Fail, TransactionFails,
          FailsAfterCommit, Stop
    <2>10. QED
      BY <1>1, <2>3, <2>4, <2>5, <2>6, <2>7, <2>8, <2>9 DEF Next, Open, Work
  <1>2. QED
    BY <1>1, FileInvariance, PTL DEF Spec, OnlyAFullHistoryForgets
=============================================================================
