--------------------------- MODULE NodeUtilsProofs ---------------------------
(***************************************************************************)
(* Theorems about the node helpers, for every list of nodes.               *)
(***************************************************************************)
EXTENDS MCNodeUtils, FiniteSetTheorems, TLAPS

\* The informer cache lists the nodes in no particular order and
\* NodesAreConsistent compares with the first healthy one it meets.  Its
\* verdict, on which chooseModuleAction decides between ./deploy and
\* ./upgrade, does not depend on that order.
THEOREM ConsistencyOrderFree ==
    ASSUME NEW list, NEW r \in NodesAreConsistent(list),
           NEW s \in NodesAreConsistent(list)
    PROVE  r[1] <=> s[1]
<1>1. \A h, k \in Healthy(list) :
        ConsistentWith(list, h) => ConsistentWith(list, k)
  <2> SUFFICES ASSUME NEW h \in Healthy(list), NEW k \in Healthy(list),
                      ConsistentWith(list, h),
                      NEW i \in Listed(list) \ {k}, NodeExists(list[i])
               PROVE  /\ EqNodeFlavor(list[k], list[i].status.flavor)
                      /\ EqNodeImage(list[k], list[i].status.image)
    BY DEF ConsistentWith
  <2>1. \A j \in Listed(list) : NodeExists(list[j]) =>
          /\ list[j].status.flavor = list[h].status.flavor
          /\ list[j].status.image = list[h].status.image
    BY DEF ConsistentWith, EqNodeFlavor, EqNodeImage
  <2>2. k \in Listed(list) /\ NodeExists(list[k])
    BY DEF Healthy, NodeIsHealthy
  <2> QED
    BY <2>1, <2>2 DEF EqNodeFlavor, EqNodeImage
<1>2. CASE Healthy(list) = {}
  BY <1>2 DEF NodesAreConsistent
<1>3. CASE Healthy(list) # {}
  <2>1. PICK h \in Healthy(list) : r = <<ConsistentWith(list, h), h>>
    BY <1>3 DEF NodesAreConsistent
  <2>2. PICK k \in Healthy(list) : s = <<ConsistentWith(list, k), k>>
    BY <1>3 DEF NodesAreConsistent
  <2>3. r[1] = ConsistentWith(list, h) /\ s[1] = ConsistentWith(list, k)
    BY <2>1, <2>2
  <2> QED
    BY <1>1, <2>1, <2>2, <2>3
<1> QED
  BY <1>2, <1>3

\* And that verdict is the one of the reference definition: without a healthy
\* node the list is consistent, with one it is iff all machines are alike.
THEOREM ConsistencyDeterminedAlways == Spec => []ConsistencyDetermined
<1> DEFINE existing == {i \in Listed(nodes) : NodeExists(nodes[i])}
           uniform == \A i, j \in existing :
                        /\ nodes[i].status.image = nodes[j].status.image
                        /\ nodes[i].status.flavor = nodes[j].status.flavor
<1>1. \A h \in Healthy(nodes) : h \in existing
  BY DEF Healthy, NodeIsHealthy
<1>2. ASSUME NEW h \in Healthy(nodes)
      PROVE  ConsistentWith(nodes, h) <=> uniform
  <2>1. h \in existing
    BY <1>1
  <2>2. ASSUME uniform PROVE ConsistentWith(nodes, h)
    BY <2>1, <2>2 DEF ConsistentWith, EqNodeFlavor, EqNodeImage
  <2>3. ASSUME ConsistentWith(nodes, h) PROVE uniform
    <3>1. \A i \in existing : /\ nodes[i].status.image = nodes[h].status.image
                              /\ nodes[i].status.flavor = nodes[h].status.flavor
      BY <2>3 DEF ConsistentWith, EqNodeFlavor, EqNodeImage
    <3> QED
      BY <3>1
  <2> QED
    BY <2>2, <2>3
<1> HIDE DEF uniform
<1>3. {r[1] : r \in NodesAreConsistent(nodes)} = {Healthy(nodes) = {} \/ uniform}
  <2>1. CASE Healthy(nodes) = {}
    <3>1. NodesAreConsistent(nodes) = {<<TRUE, -1>>}
      BY <2>1 DEF NodesAreConsistent
    <3>2. <<TRUE, -1>>[1] = TRUE /\ (Healthy(nodes) = {} \/ uniform) = TRUE
      <4>1. (Healthy(nodes) = {} \/ uniform) = TRUE
        BY <2>1, Zenon
      <4> QED
        BY <4>1
    <3>3. {r[1] : r \in {<<TRUE, -1>>}} = {<<TRUE, -1>>[1]}
      BY Zenon
    <3> QED
      BY <3>1, <3>2, <3>3, Zenon
  <2>2. CASE Healthy(nodes) # {}
    <3>1. NodesAreConsistent(nodes) =
            {<<ConsistentWith(nodes, h), h>> : h \in Healthy(nodes)}
      BY <2>2 DEF NodesAreConsistent
    <3>2. \A h \in Healthy(nodes) : ConsistentWith(nodes, h) = (Healthy(nodes) = {} \/ uniform)
      BY <1>2, <2>2 DEF ConsistentWith
    <3>3. \A r \in NodesAreConsistent(nodes) : \E h \in Healthy(nodes) : r[1] = ConsistentWith(nodes, h)
      BY <3>1
    <3>4. \A r \in NodesAreConsistent(nodes) : r[1] = (Healthy(nodes) = {} \/ uniform)
      BY <3>2, <3>3, Zenon
    <3>5. NodesAreConsistent(nodes) # {}
      BY <2>2, <3>1
    <3> QED
      BY <3>4, <3>5, Zenon
  <2> QED
    BY <2>1, <2>2
<1>4. ConsistencyDetermined
  BY <1>3 DEF ConsistencyDetermined, uniform
<1> QED
  BY <1>4, PTL

-----------------------------------------------------------------------------
(* Sorting and cutting *)

\* Among some subsets of a finite set there is one with none below it: what
\* stands in for induction on a finite set.
LEMMA SmallestSubset ==
    ASSUME NEW S, IsFiniteSet(S), NEW W \in SUBSET SUBSET S, W # {}
    PROVE  \E T \in W : \A U \in W : U \subseteq T => U = T
<1> DEFINE R == StrictSubsetOrdering(S)
<1>1. IsWellFoundedOn(R, SUBSET S)
  BY FS_StrictSubsetOrderingWellFounded, FS_FiniteSubsetsOfFinite
<1>2. PICK T \in W : \A U \in W : <<U, T>> \notin R
  <2> HIDE DEF R
  <2> QED
    BY <1>1, WFMin
<1>3. \A U \in W : U \subseteq T => U = T
  BY <1>2 DEF StrictSubsetOrdering
<1> QED
  BY <1>3

\* Some node of a list has the lowest key.
LEMMA LowestKey ==
    ASSUME NEW T, IsFiniteSet(T), T # {}, NEW num, \A i \in T : num[i] \in Int
    PROVE  \E k \in T : \A j \in T : num[k] <= num[j]
<1> DEFINE UpTo(k) == {j \in T : num[j] <= num[k]}
           W == {UpTo(k) : k \in T}
<1>1. W \in SUBSET SUBSET T /\ W # {}
  OBVIOUS
<1>2. PICK U \in W : \A V \in W : V \subseteq U => V = U
  <2> HIDE DEF W
  <2> QED
    BY <1>1, SmallestSubset
<1>3. PICK k \in T : U = UpTo(k)
  OBVIOUS
<1>4. ASSUME NEW j \in T, ~(num[k] <= num[j])
      PROVE  FALSE
  <2>1. num[j] < num[k] /\ num[j] \in Int /\ num[k] \in Int
    BY <1>4
  <2>2. UpTo(j) \subseteq UpTo(k)
    BY <2>1
  <2>3. k \in UpTo(k) /\ k \notin UpTo(j)
    BY <2>1
  <2> QED
    BY <1>2, <1>3, <2>2, <2>3
<1> QED
  BY <1>4

\* SortNodesByNumber and the slice of manageNodesForModule always have a
\* result, whatever numbers the hostnames hold and however many of them are
\* equal: a scale down never lacks nodes to mark.
THEOREM TailExists ==
    ASSUME NEW list, IsFiniteSet(Listed(list)),
           NEW num, \A i \in Listed(list) : num[i] \in Int,
           NEW n \in 0 .. Cardinality(Listed(list))
    PROVE  Tails(list, n, num) # {}
<1> DEFINE L == Listed(list)
           size == Cardinality(L) - n
           Closed(T) == \A i \in L \ T, j \in T : num[i] <= num[j]
           W == {T \in SUBSET L : Closed(T) /\ Cardinality(T) >= size}
<1>0. Cardinality(L) \in Nat /\ n \in Nat /\ size \in Nat /\ n <= Cardinality(L)
  BY FS_CardinalityType
<1>1. L \in W
  BY <1>0
<1>2. PICK T \in W : \A U \in W : U \subseteq T => U = T
  <2>1. W \in SUBSET SUBSET L /\ W # {}
    BY <1>1
  <2> HIDE DEF W, L
  <2> QED
    BY <2>1, SmallestSubset DEF L
<1>3. IsFiniteSet(T) /\ Cardinality(T) \in Nat
  BY FS_Subset, FS_CardinalityType
<1>4. ASSUME Cardinality(T) > size
      PROVE  FALSE
  <2>1. T # {}
    BY <1>0, <1>4, FS_EmptySet
  <2>2. PICK k \in T : \A j \in T : num[k] <= num[j]
    BY <1>3, <2>1, LowestKey
  <2>3. Cardinality(T \ {k}) = Cardinality(T) - 1
    BY <1>3, FS_RemoveElement
  <2>4. Cardinality(T \ {k}) >= size
    BY <1>0, <1>3, <1>4, <2>3
  <2>5. Closed(T \ {k})
    BY <2>2
  <2>6. T \ {k} \in W
    BY <2>4, <2>5
  <2> QED
    BY <1>2, <2>6
<1>5. Cardinality(T) = size
  <2>1. Cardinality(T) >= size
    OBVIOUS
  <2> HIDE DEF W, size
  <2> QED
    BY <1>0, <1>3, <1>4, <2>1
<1> QED
  BY <1>5 DEF Tails
=============================================================================
