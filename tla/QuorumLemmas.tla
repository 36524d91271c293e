----------------------------- MODULE QuorumLemmas -----------------------------
(***************************************************************************)
(* Facts about the sets of N - f nodes that the protocols wait for, from   *)
(* N >= 3f + 1 alone: what their intersections contain.                    *)
(***************************************************************************)
EXTENDS Quorums, FiniteSetTheorems, WellFoundedInduction, TLAPS

\* A set of nodes is finite, and a smaller one has fewer elements.
LEMMA NodeSets ==
    ASSUME NEW A \in SUBSET Nodes, NEW B \in SUBSET A
    PROVE  /\ IsFiniteSet(A)
           /\ Cardinality(A) \in Nat
           /\ Cardinality(B) \in Nat
           /\ Cardinality(B) <= Cardinality(A)
           /\ Cardinality(A) <= N
<1>1. IsFiniteSet(A) /\ Cardinality(A) <= N
    BY FaultAssumption, FS_Subset DEF N
<1>2. IsFiniteSet(B) /\ Cardinality(B) <= Cardinality(A)
    BY <1>1, FS_Subset
<1> QED
    BY <1>1, <1>2, FS_CardinalityType

\* N and f are natural numbers and there are N - f nodes at least.
LEMMA FaultNumbers ==
    /\ N \in Nat
    /\ F \in Nat
    /\ N >= 3 * F + 1
    /\ N - F \in Nat
    /\ Nodes \in Quorum
<1>1. N \in Nat
    BY FaultAssumption, FS_CardinalityType DEF N
<1> QED
    BY <1>1, FaultAssumption DEF Quorum, N

\* Adding nodes to a quorum leaves a quorum.
LEMMA QuorumSuperset ==
    ASSUME NEW Q \in Quorum, NEW S \in SUBSET Nodes, Q \subseteq S
    PROVE  S \in Quorum
<1>1. Cardinality(Q) <= Cardinality(S) /\ Cardinality(S) \in Nat /\ Cardinality(Q) \in Nat
    BY NodeSets
<1> QED
    BY <1>1, FaultNumbers DEF Quorum

\* The nodes that are left when f or fewer crashed are a quorum.
LEMMA LiveNodes ==
    ASSUME NEW C \in SUBSET Nodes, Cardinality(C) <= F
    PROVE  Nodes \ C \in Quorum
<1>1. Cardinality(Nodes \ C) = Cardinality(Nodes) - Cardinality(Nodes \cap C)
    BY FaultAssumption, FS_Difference
<1>2. Nodes \cap C = C
    OBVIOUS
<1>3. Cardinality(C) \in Nat
    BY NodeSets
<1>4. Cardinality(Nodes \ C) = N - Cardinality(C)
    BY <1>1, <1>2 DEF N
<1> QED
    BY <1>3, <1>4, FaultNumbers DEF Quorum

\* One more crash while there were fewer than a bound of at most f.
LEMMA OneMoreNode ==
    ASSUME NEW C \in SUBSET Nodes, NEW p \in Nodes, NEW most \in 0 .. F,
           Cardinality(C) < most
    PROVE  C \cup {p} \in SUBSET Nodes /\ Cardinality(C \cup {p}) <= F
<1>1. Cardinality(C \cup {p}) \in {Cardinality(C), Cardinality(C) + 1}
    BY NodeSets, FS_AddElement
<1> QED
    BY <1>1, NodeSets, FaultNumbers

\* A quorum leaves out at most f nodes of any set of nodes.
LEMMA MeetQuorum ==
    ASSUME NEW A \in SUBSET Nodes, NEW Q \in Quorum
    PROVE  Cardinality(A \cap Q) >= Cardinality(A) - F
<1>1. Q \in SUBSET Nodes /\ Cardinality(Q) >= N - F
    BY DEF Quorum
<1>2. IsFiniteSet(A) /\ IsFiniteSet(Q)
    BY <1>1, NodeSets
<1>3. Cardinality(A \cup Q) = Cardinality(A) + Cardinality(Q) - Cardinality(A \cap Q)
    BY <1>2, FS_Union
<1>4. Cardinality(A \cup Q) <= N /\ Cardinality(A \cup Q) \in Nat
    BY <1>1, NodeSets
<1>5. Cardinality(A) \in Nat /\ Cardinality(Q) \in Nat /\ Cardinality(A \cap Q) \in Nat
    BY <1>1, NodeSets
<1> QED
    BY <1>1, <1>3, <1>4, <1>5, FaultNumbers

\* A set with more than f nodes meets every quorum.
LEMMA MajorityMeets ==
    ASSUME NEW A \in SUBSET Nodes, Cardinality(A) >= F + 1, NEW Q \in Quorum
    PROVE  \E p \in Nodes : p \in A /\ p \in Q
<1>1. Cardinality(A \cap Q) >= 1
    <2>1. Cardinality(A \cap Q) \in Nat /\ Cardinality(A) \in Nat
        BY NodeSets DEF Quorum
    <2> QED
        BY <2>1, MeetQuorum, FaultNumbers
<1>2. A \cap Q # {}
    BY <1>1, FS_EmptySet
<1> QED
    BY <1>2

\* Two quorums have more than f nodes in common.
LEMMA QuorumsMeet ==
    ASSUME NEW A \in Quorum, NEW B \in Quorum
    PROVE  Cardinality(A \cap B) >= F + 1
<1>1. A \in SUBSET Nodes /\ Cardinality(A) >= N - F
    BY DEF Quorum
<1>2. Cardinality(A) \in Nat /\ Cardinality(A \cap B) \in Nat
    BY <1>1, NodeSets
<1> QED
    BY <1>1, <1>2, MeetQuorum, FaultNumbers

\* Three quorums have a node in common: this is where N >= 3f + 1 is needed.
LEMMA ThreeQuorumsMeet ==
    ASSUME NEW A \in Quorum, NEW B \in Quorum, NEW C \in Quorum
    PROVE  \E p \in Nodes : p \in A /\ p \in B /\ p \in C
<1>1. A \cap B \in SUBSET Nodes /\ Cardinality(A \cap B) >= F + 1
    BY QuorumsMeet DEF Quorum
<1>2. \E p \in Nodes : p \in A \cap B /\ p \in C
    BY <1>1, MajorityMeets
<1> QED
    BY <1>2
-----------------------------------------------------------------------------
\* A finite set has a subset of every smaller size.
LEMMA SubsetOfSize ==
    ASSUME NEW S, IsFiniteSet(S), NEW k \in 0 .. Cardinality(S)
    PROVE  \E T \in SUBSET S : Cardinality(T) = k
<1>1. Cardinality(S) \in Nat /\ ExistsBijection(1 .. Cardinality(S), S)
    BY FS_CardinalityType
<1>2. PICK f \in Bijection(1 .. Cardinality(S), S) : TRUE
    BY <1>1 DEF ExistsBijection
<1>3. /\ f \in [1 .. Cardinality(S) -> S]
      /\ \A i, j \in 1 .. Cardinality(S) : f[i] = f[j] => i = j
    BY <1>2 DEF Bijection, Injection, IsInjective
<1>4. PICK T : T = {f[i] : i \in 1 .. k}
    OBVIOUS
<1>5. 1 .. k \subseteq 1 .. Cardinality(S)
    BY <1>1
<1>6. PICK g : g = [i \in 1 .. k |-> f[i]]
    OBVIOUS
<1>7. g \in Bijection(1 .. k, T)
    <2>1. g \in [1 .. k -> T] /\ \A t \in T : \E i \in 1 .. k : g[i] = t
        BY <1>4, <1>6
    <2>2. \A i, j \in 1 .. k : g[i] = g[j] => i = j
        BY <1>3, <1>5, <1>6
    <2> QED
        BY <2>1, <2>2 DEF Bijection, Injection, IsInjective, Surjection
<1>8. Cardinality(T) = k
    BY <1>1, <1>7, FS_CountingElements DEF ExistsBijection
<1> QED
    BY <1>3, <1>4, <1>5, <1>8

\* The order of the natural numbers is well founded.
LessThan == {ss \in Nat \X Nat : ss[1] < ss[2]}

LEMMA LessThanWellFounded == IsWellFoundedOn(LessThan, Nat)
BY NatLessThanWellFounded DEF OpToRel, LessThan

\* A set of natural numbers has a least element.
LEMMA LeastNumber ==
    ASSUME NEW S \in SUBSET Nat, S # {}
    PROVE  \E n \in S : \A m \in S : n <= m
<1>1. PICK x \in S : \A y \in S : ~ (<<y, x>> \in LessThan)
    BY LessThanWellFounded, WFMin
<1>2. \A y \in S : y < x => <<y, x>> \in LessThan
    BY DEF LessThan
<1>3. \A y \in S : ~ (y < x)
    BY <1>1, <1>2
<1> QED
    BY <1>3

\* A bounded set of natural numbers has a greatest element.
LEMMA GreatestNumber ==
    ASSUME NEW n \in Nat, NEW S \in SUBSET (0 .. n), S # {}
    PROVE  \E x \in S : \A y \in S : y <= x
<1>1. PICK T : T = {n - y : y \in S}
    OBVIOUS
<1>2. T \in SUBSET Nat /\ T # {}
    <2>1. \A y \in S : n - y \in Nat
        OBVIOUS
    <2> QED
        BY <1>1, <2>1
<1>3. PICK t \in T : \A m \in T : t <= m
    BY <1>2, LeastNumber
<1>4. PICK x \in S : t = n - x
    BY <1>1
<1>5. \A y \in S : n - x <= n - y
    BY <1>1, <1>3, <1>4
<1> QED
    BY <1>5

\* A set written with up to four elements, or up to eight, is finite.
LEMMA FourAreFinite ==
    ASSUME NEW a, NEW b, NEW c, NEW d
    PROVE  IsFiniteSet({a, b, c, d})
<1>1. IsFiniteSet({a}) /\ IsFiniteSet({b}) /\ IsFiniteSet({c}) /\ IsFiniteSet({d})
    BY FS_Singleton
<1>2. IsFiniteSet({a} \cup {b}) /\ IsFiniteSet({c} \cup {d})
    BY <1>1, FS_Union
<1>3. IsFiniteSet(({a} \cup {b}) \cup ({c} \cup {d}))
    BY <1>2, FS_Union
<1>4. {a, b, c, d} = ({a} \cup {b}) \cup ({c} \cup {d})
    OBVIOUS
<1> QED
    BY <1>3, <1>4

LEMMA EightAreFinite ==
    ASSUME NEW a, NEW b, NEW c, NEW d, NEW e, NEW f, NEW g, NEW h
    PROVE  IsFiniteSet({a, b, c, d, e, f, g, h})
<1>1. IsFiniteSet({a, b, c, d} \cup {e, f, g, h})
    BY FourAreFinite, FS_Union
<1>2. {a, b, c, d, e, f, g, h} = {a, b, c, d} \cup {e, f, g, h}
    OBVIOUS
<1> QED
    BY <1>1, <1>2
=============================================================================
