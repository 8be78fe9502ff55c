------------------------ MODULE MerkleElectorateProofs ------------------------
(* Proofs about MerkleElectorate for every value of its constants: lists of *)
(* any length, proofs of any length, any digests in them.                   *)
EXTENDS MerkleElectorate, FiniteSetTheorems, FunctionTheorems, TLAPS

------------------------------------------------------------------------------
(* Digests and levels.                                                     *)

\* No leaf is the hash of a pair, and leaf and pair are what was hashed.
LEMMA DigestsDiffer ==
  /\ \A u, v : Leaf(u) = Leaf(v) => u = v
  /\ \A v, a, b : Leaf(v) # PairHash(a, b)
  /\ \A a, b, c, d : PairHash(a, b) = PairHash(c, d) => {a, b} = {c, d}
  <1>1. \A u, v : Leaf(u) = Leaf(v) => u = v
    <2> TAKE u, v
    <2>1. Leaf(u).leaf = u /\ Leaf(v).leaf = v
      BY DEF Leaf
    <2> QED
      BY <2>1
  <1>2. \A v, a, b : Leaf(v) # PairHash(a, b)
    <2> TAKE v, a, b
    <2>1. "leaf" \in DOMAIN Leaf(v) /\ "leaf" \notin DOMAIN PairHash(a, b)
      BY DEF Leaf, PairHash
    <2> QED
      BY <2>1
  <1>3. \A a, b, c, d : PairHash(a, b) = PairHash(c, d) => {a, b} = {c, d}
    <2> TAKE a, b, c, d
    <2>1. PairHash(a, b).pair = {a, b} /\ PairHash(c, d).pair = {c, d}
      BY DEF PairHash
    <2> QED
      BY <2>1
  <1> QED
    BY <1>1, <1>2, <1>3

\* A pair hash does not tell its two digests' order.
LEMMA PairHashSorts == \A a, b : PairHash(a, b) = PairHash(b, a)
  BY DEF PairHash

IsSeq(seq) == seq \in Seq(ToSet(seq))

\* A level is a sequence with a node at least.
IsLevel(level) == level # <<>> /\ IsSeq(level)

LEMMA LevelShape ==
  ASSUME NEW level, IsLevel(level)
  PROVE  /\ Len(level) \in Nat \ {0} /\ DOMAIN level = 1..Len(level)
         /\ level = [i \in 1..Len(level) |-> level[i]]
  BY DEF IsLevel, IsSeq

\* A function on 1..n is a level.
LEMMA IsLevelIntro ==
  ASSUME NEW level, NEW n \in Nat \ {0},
         DOMAIN level = 1..n, level = [i \in 1..n |-> level[i]]
  PROVE  IsLevel(level) /\ Len(level) = n
  <1>1. \A i \in 1..n : level[i] \in ToSet(level)
    BY DEF ToSet
  <1>2. level \in [1..n -> ToSet(level)]
    BY <1>1
  <1>3. level \in Seq(ToSet(level)) /\ Len(level) = n
    BY <1>2
  <1> QED
    BY <1>3 DEF IsLevel, IsSeq

LEMMA ParentLevelShape ==
  ASSUME NEW level, IsLevel(level)
  PROVE  /\ IsLevel(ParentLevel(level))
         /\ Len(ParentLevel(level)) = (Len(level) + 1) \div 2
         /\ Len(level) > 1 => Len(ParentLevel(level)) < Len(level)
  <1> DEFINE n == (Len(level) + 1) \div 2
  <1>1. n \in Nat \ {0} /\ (Len(level) > 1 => n < Len(level))
    BY LevelShape
  <1>2. DOMAIN ParentLevel(level) = 1..n
        /\ ParentLevel(level) = [i \in 1..n |-> ParentLevel(level)[i]]
    BY DEF ParentLevel
  <1> HIDE DEF n
  <1>3. IsLevel(ParentLevel(level)) /\ Len(ParentLevel(level)) = n
    BY <1>1, <1>2, IsLevelIntro
  <1> QED
    BY <1>1, <1>3 DEF n

\* One iteration of the check, from a node and its sibling, is at their parent.
LEMMA SiblingLeadsToParent ==
  ASSUME NEW level, IsLevel(level), NEW i \in Nat, i < Len(level)
  PROVE  /\ i \div 2 \in Nat /\ i \div 2 < Len(ParentLevel(level))
         /\ PairHash(level[i + 1], SiblingAt(level, i)) = ParentLevel(level)[i \div 2 + 1]
  <1> DEFINE k == i \div 2 + 1
  <1>1. Len(level) \in Nat \ {0}
    BY LevelShape
  <1>2. k \in 1..((Len(level) + 1) \div 2) /\ i \div 2 \in Nat
    BY <1>1
  <1>3. i \div 2 < Len(ParentLevel(level))
    BY <1>1, <1>2, ParentLevelShape
  <1>4. ParentLevel(level)[k] =
          PairHash(level[2 * k - 1], IF 2 * k <= Len(level) THEN level[2 * k]
                                                            ELSE level[2 * k - 1])
    BY <1>2 DEF ParentLevel
  <1>5. CASE i % 2 = 0
    <2>1. 2 * k - 1 = i + 1 /\ 2 * k = i + 2 /\ (2 * k <= Len(level) <=> i + 1 < Len(level))
      BY <1>5, <1>1
    <2> QED
      BY <1>2, <1>3, <1>4, <1>5, <2>1 DEF SiblingAt
  <1>6. CASE i % 2 # 0
    <2>1. 2 * k - 1 = i /\ 2 * k = i + 1 /\ 2 * k <= Len(level)
      BY <1>6, <1>1
    <2> QED
      BY <1>2, <1>3, <1>4, <1>6, <2>1, PairHashSorts DEF SiblingAt
  <1> QED
    BY <1>5, <1>6

------------------------------------------------------------------------------
(* Lists.                                                                  *)

LEMMA NamedFinite ==
  ASSUME NEW file \in Files, IsVoterList(file)
  PROVE  /\ Named(file) \subseteq Voters
         /\ IsFiniteSet(Named(file)) /\ Cardinality(Named(file)) \in Nat \ {0}
  <1>1. file \in Seq(Voters \cup {BLANK, INVALID})
    BY MerkleAssumption
  <1>2. Named(file) \subseteq Voters
    BY <1>1 DEF Named, IsVoterList, ToSet
  <1>3. file \in Surjection(1..Len(file), ToSet(file))
    BY <1>1 DEF Surjection, ToSet
  <1>4. IsFiniteSet(1..Len(file))
    BY <1>1, FS_Interval
  <1>5. IsFiniteSet(ToSet(file))
    BY <1>3, <1>4, FS_Surjection
  <1>6. Named(file) \in SUBSET ToSet(file)
    BY DEF Named
  <1>7. IsFiniteSet(Named(file))
    BY <1>5, <1>6, FS_Subset
  <1>8. Cardinality(Named(file)) \in Nat /\ Cardinality(Named(file)) # 0
    BY <1>7, FS_CardinalityType, FS_EmptySet DEF IsVoterList
  <1> QED
    BY <1>2, <1>7, <1>8

\* Sorting neither drops, repeats nor adds a voter.
LEMMA SortedNames ==
  ASSUME NEW file \in Files, IsVoterList(file), NEW order \in Collations
  PROVE  /\ IsLevel(Sorted(file, order))
         /\ ToSet(Sorted(file, order)) = Named(file)
  <1> DEFINE S == Named(file)
             n == Cardinality(S)
             Before(v) == {u \in S : order[u] < order[v]}
             place == [v \in S |-> Cardinality(Before(v)) + 1]
             list == Sorted(file, order)
  <1>1. S \subseteq Voters /\ IsFiniteSet(S) /\ n \in Nat \ {0}
    BY NamedFinite
  <1>2. /\ \A v \in S : order[v] \in Nat
        /\ \A u, v \in S : order[u] = order[v] => u = v
    BY <1>1, MerkleAssumption
  <1>3. \A v \in S : /\ IsFiniteSet(Before(v)) /\ Cardinality(Before(v)) \in 0..(n - 1)
    <2> SUFFICES ASSUME NEW v \in S
                 PROVE  /\ IsFiniteSet(Before(v)) /\ Cardinality(Before(v)) \in 0..(n - 1)
      OBVIOUS
    <2>1. Before(v) \in SUBSET (S \ {v})
      BY <1>2
    <2>2. IsFiniteSet(S \ {v}) /\ Cardinality(S \ {v}) = n - 1
      BY <1>1, FS_RemoveElement
    <2> HIDE DEF Before
    <2>3. IsFiniteSet(Before(v)) /\ Cardinality(Before(v)) <= n - 1
      BY <2>1, <2>2, FS_Subset
    <2> QED
      BY <2>3, FS_CardinalityType, <1>1
  <1>4. \A u, v \in S : order[u] < order[v] => Cardinality(Before(u)) # Cardinality(Before(v))
    <2> SUFFICES ASSUME NEW u \in S, NEW v \in S, order[u] < order[v]
                 PROVE  Cardinality(Before(u)) # Cardinality(Before(v))
      OBVIOUS
    <2>1. Before(u) \in SUBSET Before(v) /\ u \in Before(v) /\ u \notin Before(u)
      BY <1>2
    <2> HIDE DEF Before
    <2> QED
      BY <2>1, <1>3, FS_Subset
  <1>5. \A u, v \in S : Cardinality(Before(u)) = Cardinality(Before(v)) => u = v
    <2> HIDE DEF Before
    <2>1. \A u, v \in S : order[u] < order[v] \/ order[v] < order[u] \/ order[u] = order[v]
      BY <1>2
    <2> QED
      BY <2>1, <1>2, <1>4
  <1>6. place \in Injection(S, 1..n)
    <2> HIDE DEF Before
    <2>1. place \in [S -> 1..n]
      BY <1>3, <1>1
    <2>2. \A u, v \in S : place[u] = place[v] => u = v
      BY <1>3, <1>5
    <2> HIDE DEF place
    <2> QED
      BY <2>1, <2>2 DEF Injection, IsInjective
  <1>7. IsFiniteSet(1..n) /\ Cardinality(1..n) = n
    BY <1>1, FS_Interval
  <1>8. place \in Surjection(S, 1..n)
    <2> HIDE DEF place, n
    <2>1. n = Cardinality(1..n) /\ n = Cardinality(S)
      BY <1>7 DEF n
    <2> QED
      BY <1>6, <1>7, <2>1, FS_Injection
  <1>9. \A k \in 1..n : \E v \in S : Cardinality(Before(v)) = k - 1
    <2> HIDE DEF Before
    <2> SUFFICES ASSUME NEW k \in 1..n
                 PROVE  \E v \in S : Cardinality(Before(v)) = k - 1
      OBVIOUS
    <2>1. PICK v \in S : place[v] = k
      <3> HIDE DEF place
      <3> QED
        BY <1>8 DEF Surjection
    <2> QED
      BY <2>1, <1>3, <1>1
  <1>10. list = [k \in 1..n |-> CHOOSE v \in S : Cardinality(Before(v)) = k - 1]
    BY DEF Sorted
  <1> HIDE DEF Before, list, S, n
  <1>11. \A k \in 1..n : list[k] \in S /\ Cardinality(Before(list[k])) = k - 1
    BY <1>9, <1>10
  <1>12. DOMAIN list = 1..n /\ list = [k \in 1..n |-> list[k]]
    BY <1>10
  <1>13. IsLevel(list)
    BY <1>12, <1>1, IsLevelIntro
  <1>14. \A v \in S : \E k \in 1..n : list[k] = v
    <2> SUFFICES ASSUME NEW v \in S
                 PROVE  \E k \in 1..n : list[k] = v
      OBVIOUS
    <2>1. Cardinality(Before(v)) + 1 \in 1..n
      BY <1>1, <1>3
    <2>2. Cardinality(Before(list[Cardinality(Before(v)) + 1])) = Cardinality(Before(v))
      BY <2>1, <1>11, <1>3
    <2> QED
      BY <2>1, <2>2, <1>5, <1>11
  <1>15. ToSet(list) = S
    BY <1>11, <1>12, <1>14 DEF ToSet
  <1> QED
    BY <1>13, <1>15 DEF list, S

------------------------------------------------------------------------------
(* What the digests of a level say of the list below it.                   *)

\* With a pair hash, a closed set has the two digests of the pair.
Closed(N) == \A a, b : PairHash(a, b) \in N => a \in N /\ b \in N

\* The level is in a closed set that has the leaves of no others.
Sound(list, level) ==
  \E N : /\ Closed(N) /\ ToSet(level) \subseteq N
         /\ \A v : Leaf(v) \in N => v \in ToSet(list)

\* Every closed set that has the level has the leaves of all.
Complete(list, level) ==
  \A N : Closed(N) /\ ToSet(level) \subseteq N =>
           \A v \in ToSet(list) : Leaf(v) \in N

LEMMA LeavesNameList ==
  ASSUME NEW list, IsLevel(list)
  PROVE  /\ IsLevel(Leaves(list)) /\ Len(Leaves(list)) = Len(list)
         /\ Sound(list, Leaves(list)) /\ Complete(list, Leaves(list))
  <1>1. IsLevel(Leaves(list)) /\ Len(Leaves(list)) = Len(list)
    <2>1. DOMAIN Leaves(list) = 1..Len(list)
          /\ Leaves(list) = [i \in 1..Len(list) |-> Leaves(list)[i]]
      BY LevelShape DEF Leaves
    <2> QED
      BY <2>1, LevelShape, IsLevelIntro
  <1>2. ToSet(Leaves(list)) = {Leaf(v) : v \in ToSet(list)}
    <2>1. DOMAIN Leaves(list) = DOMAIN list /\ \A i \in DOMAIN list : Leaves(list)[i] = Leaf(list[i])
      BY DEF Leaves
    <2> QED
      BY <2>1 DEF ToSet
  <1>3. Sound(list, Leaves(list))
    <2> DEFINE N == ToSet(Leaves(list))
    <2>1. Closed(N)
      BY <1>2, DigestsDiffer DEF Closed
    <2>2. \A v : Leaf(v) \in N => v \in ToSet(list)
      BY <1>2, DigestsDiffer
    <2> HIDE DEF N
    <2>3. ToSet(Leaves(list)) \subseteq N
      BY DEF N
    <2> QED
      BY <2>1, <2>2, <2>3 DEF Sound
  <1>4. Complete(list, Leaves(list))
    BY <1>2 DEF Complete
  <1> QED
    BY <1>1, <1>3, <1>4

LEMMA ParentIsPair ==
  ASSUME NEW level, IsLevel(level), NEW digest \in ToSet(ParentLevel(level))
  PROVE  \E a, b \in ToSet(level) : digest = PairHash(a, b)
  <1>1. Len(level) \in Nat \ {0} /\ DOMAIN level = 1..Len(level)
    BY LevelShape
  <1>2. PICK i \in 1..((Len(level) + 1) \div 2) : digest = ParentLevel(level)[i]
    BY DEF ParentLevel, ToSet
  <1>3. 2 * i - 1 \in 1..Len(level) /\ (2 * i <= Len(level) => 2 * i \in 1..Len(level))
    BY <1>1
  <1>4. digest = PairHash(level[2 * i - 1], IF 2 * i <= Len(level) THEN level[2 * i]
                                                                  ELSE level[2 * i - 1])
    BY <1>2 DEF ParentLevel
  <1> QED
    BY <1>1, <1>3, <1>4 DEF ToSet

LEMMA ParentNamesList ==
  ASSUME NEW list, NEW level, IsLevel(level), Sound(list, level), Complete(list, level)
  PROVE  Sound(list, ParentLevel(level)) /\ Complete(list, ParentLevel(level))
  <1>1. Sound(list, ParentLevel(level))
    <2>1. PICK M : /\ Closed(M) /\ ToSet(level) \subseteq M
                   /\ \A v : Leaf(v) \in M => v \in ToSet(list)
      BY DEF Sound
    <2> DEFINE N == M \cup ToSet(ParentLevel(level))
    <2>2. Closed(N)
      <3> SUFFICES ASSUME NEW a, NEW b, PairHash(a, b) \in N
                   PROVE  a \in M /\ b \in M
        BY DEF Closed
      <3>1. CASE PairHash(a, b) \in M
        BY <3>1, <2>1 DEF Closed
      <3>2. CASE PairHash(a, b) \in ToSet(ParentLevel(level))
        <4>1. PICK c \in ToSet(level), d \in ToSet(level) : PairHash(a, b) = PairHash(c, d)
          BY <3>2, ParentIsPair
        <4>2. {a, b} = {c, d}
          BY <4>1, DigestsDiffer
        <4> QED
          BY <4>1, <4>2, <2>1
      <3> QED
        BY <3>1, <3>2
    <2>3. \A v : Leaf(v) \in N => v \in ToSet(list)
      BY <2>1, ParentIsPair, DigestsDiffer
    <2>4. ToSet(ParentLevel(level)) \subseteq N
      OBVIOUS
    <2> HIDE DEF N
    <2> QED
      BY <2>2, <2>3, <2>4 DEF Sound
  <1>2. Complete(list, ParentLevel(level))
    <2> SUFFICES ASSUME NEW N, Closed(N), ToSet(ParentLevel(level)) \subseteq N
                 PROVE  \A v \in ToSet(list) : Leaf(v) \in N
      BY DEF Complete
    <2>1. ToSet(level) \subseteq N
      <3> SUFFICES ASSUME NEW j \in 1..Len(level)
                   PROVE  level[j] \in N
        BY LevelShape DEF ToSet
      <3> DEFINE i == j - 1
      <3>1. i \in Nat /\ i < Len(level) /\ i + 1 = j
        BY LevelShape
      <3> HIDE DEF i
      <3>2. /\ i \div 2 + 1 \in 1..Len(ParentLevel(level))
            /\ PairHash(level[j], SiblingAt(level, i)) = ParentLevel(level)[i \div 2 + 1]
        <4>1. /\ i \div 2 \in Nat /\ i \div 2 < Len(ParentLevel(level))
              /\ PairHash(level[j], SiblingAt(level, i)) = ParentLevel(level)[i \div 2 + 1]
          BY <3>1, SiblingLeadsToParent
        <4>2. Len(ParentLevel(level)) \in Nat
          BY ParentLevelShape, LevelShape
        <4> QED
          BY <4>1, <4>2
      <3>3. DOMAIN ParentLevel(level) = 1..Len(ParentLevel(level))
        BY ParentLevelShape, LevelShape
      <3>4. PairHash(level[j], SiblingAt(level, i)) \in N
        BY <3>2, <3>3 DEF ToSet
      <3> QED
        BY <3>4 DEF Closed
    <2> QED
      BY <2>1 DEF Complete
  <1> QED
    BY <1>1, <1>2

------------------------------------------------------------------------------
(* The trees.                                                              *)

LEMMA AppendLevel ==
  ASSUME NEW seq, IsSeq(seq), NEW x
  PROVE  /\ IsLevel(Append(seq, x)) /\ Len(Append(seq, x)) = Len(seq) + 1
         /\ \A i \in 1..Len(seq) : Append(seq, x)[i] = seq[i]
         /\ Append(seq, x)[Len(seq) + 1] = x
         /\ Last(seq) = seq[Len(seq)] /\ Last(Append(seq, x)) = x
  <1>1. seq \in Seq(ToSet(seq) \cup {x})
    BY DEF IsSeq
  <1>2. /\ Append(seq, x) \in Seq(ToSet(seq) \cup {x})
        /\ Len(Append(seq, x)) = Len(seq) + 1
        /\ \A i \in 1..Len(seq) : Append(seq, x)[i] = seq[i]
        /\ Append(seq, x)[Len(seq) + 1] = x
    BY <1>1
  <1>3. Len(seq) + 1 \in Nat \ {0}
    BY <1>1
  <1>4. /\ DOMAIN Append(seq, x) = 1..(Len(seq) + 1)
        /\ Append(seq, x) = [i \in 1..(Len(seq) + 1) |-> Append(seq, x)[i]]
    <2> DEFINE more == Append(seq, x)
    <2>1. more \in Seq(ToSet(seq) \cup {x}) /\ Len(more) = Len(seq) + 1
      BY <1>2
    <2> HIDE DEF more
    <2>2. DOMAIN more = 1..Len(more) /\ more = [i \in 1..Len(more) |-> more[i]]
      BY <2>1
    <2>3. DOMAIN more = 1..(Len(seq) + 1) /\ more = [i \in 1..(Len(seq) + 1) |-> more[i]]
      BY <2>1, <2>2
    <2> QED
      BY <2>3 DEF more
  <1>5. IsLevel(Append(seq, x))
    BY <1>3, <1>4, IsLevelIntro
  <1> QED
    BY <1>2, <1>5 DEF Last

\* The levels that the loop of merkleRoot passes, from the leaves.
IsTree(list, levels) ==
  /\ IsLevel(list) /\ IsLevel(levels)
  /\ levels[1] = Leaves(list)
  /\ \A i \in 1..Len(levels) : IsLevel(levels[i])
  /\ \A i \in 1..(Len(levels) - 1) :
       Len(levels[i]) > 1 /\ levels[i + 1] = ParentLevel(levels[i])
  /\ Sound(list, Last(levels)) /\ Complete(list, Last(levels))

LEMMA LeavesAreTree ==
  ASSUME NEW list, IsLevel(list)
  PROVE  IsTree(list, <<Leaves(list)>>)
  <1> DEFINE levels == <<Leaves(list)>>
  <1>1. Len(levels) = 1 /\ levels[1] = Leaves(list) /\ DOMAIN levels = 1..1
        /\ levels = [i \in 1..1 |-> levels[i]]
    OBVIOUS
  <1> HIDE DEF levels
  <1>2. IsLevel(levels) /\ Last(levels) = Leaves(list)
    <2>1. 1 \in Nat \ {0}
      OBVIOUS
    <2>2. IsLevel(levels)
      BY <1>1, <2>1, IsLevelIntro
    <2> QED
      BY <1>1, <2>2 DEF Last
  <1>3. IsLevel(Leaves(list)) /\ Sound(list, Leaves(list)) /\ Complete(list, Leaves(list))
    BY LeavesNameList
  <1>4. \A i \in 1..Len(levels) : IsLevel(levels[i])
    BY <1>1, <1>3
  <1>5. IsTree(list, levels)
    BY <1>1, <1>2, <1>3, <1>4 DEF IsTree
  <1> QED
    BY <1>5 DEF levels

LEMMA NextLevelIsTree ==
  ASSUME NEW list, NEW levels, IsTree(list, levels), Len(Last(levels)) > 1
  PROVE  IsTree(list, Append(levels, ParentLevel(Last(levels))))
  <1> DEFINE parent == ParentLevel(Last(levels))
             more == Append(levels, parent)
  <1>1. IsLevel(levels) /\ Len(levels) \in Nat \ {0} /\ Last(levels) = levels[Len(levels)]
    BY LevelShape DEF IsTree, Last
  <1>2. IsLevel(Last(levels)) /\ IsLevel(parent)
    BY <1>1, ParentLevelShape DEF IsTree
  <1>3. Sound(list, parent) /\ Complete(list, parent)
    <2>1. Sound(list, Last(levels)) /\ Complete(list, Last(levels))
      BY DEF IsTree
    <2> QED
      BY <1>2, <2>1, ParentNamesList
  <1>4. /\ IsLevel(more) /\ Len(more) = Len(levels) + 1 /\ Last(more) = parent
        /\ \A i \in 1..Len(levels) : more[i] = levels[i]
        /\ more[Len(levels) + 1] = parent
    BY <1>1, AppendLevel DEF IsLevel
  <1>5. parent = ParentLevel(levels[Len(levels)]) /\ Len(levels[Len(levels)]) > 1
    BY <1>1
  <1> HIDE DEF parent, more
  <1>6. more[1] = Leaves(list)
    BY <1>1, <1>4 DEF IsTree
  <1>7. \A i \in 1..Len(more) : IsLevel(more[i])
    <2> TAKE i \in 1..Len(more)
    <2>1. CASE i = Len(levels) + 1
      BY <2>1, <1>2, <1>4
    <2>2. CASE i \in 1..Len(levels)
      BY <2>2, <1>4 DEF IsTree
    <2> QED
      BY <2>1, <2>2, <1>1, <1>4
  <1>8. \A i \in 1..(Len(more) - 1) :
          Len(more[i]) > 1 /\ more[i + 1] = ParentLevel(more[i])
    <2> TAKE i \in 1..(Len(more) - 1)
    <2>1. CASE i = Len(levels)
      BY <2>1, <1>1, <1>4, <1>5
    <2>2. CASE i \in 1..(Len(levels) - 1)
      BY <2>2, <1>1, <1>4 DEF IsTree
    <2> QED
      BY <2>1, <2>2, <1>1, <1>4
  <1>9. IsLevel(list)
    BY DEF IsTree
  <1>10. IsTree(list, more)
    BY <1>3, <1>4, <1>6, <1>7, <1>8, <1>9 DEF IsTree
  <1> QED
    BY <1>10 DEF more, parent

\* Two runs of the loop, as far as both went.
Agree(s, t) == \A i \in 1..Len(s) : i <= Len(t) => s[i] = t[i]

LEMMA AgreeSymmetric ==
  ASSUME NEW s, NEW t, IsLevel(s), IsLevel(t), Agree(s, t)
  PROVE  Agree(t, s)
  BY LevelShape DEF Agree

LEMMA LeavesAgree ==
  ASSUME NEW list, NEW levels, IsTree(list, levels)
  PROVE  Agree(<<Leaves(list)>>, levels) /\ Agree(levels, <<Leaves(list)>>)
  <1> DEFINE one == <<Leaves(list)>>
  <1>1. Len(one) = 1 /\ one[1] = levels[1] /\ Len(levels) \in Nat
    BY LevelShape DEF IsTree
  <1> HIDE DEF one
  <1>2. Agree(one, levels) /\ Agree(levels, one)
    BY <1>1 DEF Agree
  <1> QED
    BY <1>2 DEF one

LEMMA NextLevelAgrees ==
  ASSUME NEW list, NEW s, NEW t, IsTree(list, s), IsTree(list, t), Agree(s, t),
         Len(Last(s)) > 1
  PROVE  Agree(Append(s, ParentLevel(Last(s))), t)
  <1> DEFINE more == Append(s, ParentLevel(Last(s)))
  <1>1. IsLevel(s) /\ Len(s) \in Nat \ {0} /\ Len(t) \in Nat \ {0}
    BY LevelShape DEF IsTree
  <1>2. /\ Len(more) = Len(s) + 1 /\ Last(s) = s[Len(s)]
        /\ \A i \in 1..Len(s) : more[i] = s[i]
        /\ more[Len(s) + 1] = ParentLevel(s[Len(s)])
    BY <1>1, AppendLevel DEF IsLevel, Last
  <1> HIDE DEF more
  <1>3. Agree(more, t)
    <2> SUFFICES ASSUME NEW i \in 1..Len(more), i <= Len(t)
                 PROVE  more[i] = t[i]
      BY DEF Agree
    <2>1. CASE i \in 1..Len(s)
      BY <2>1, <1>2 DEF Agree
    <2>2. CASE i = Len(s) + 1
      <3>1. Len(s) \in 1..(Len(t) - 1) /\ Len(s) \in 1..Len(s) /\ Len(s) <= Len(t)
        BY <2>2, <1>1
      <3>2. t[i] = ParentLevel(t[Len(s)])
        BY <3>1, <2>2 DEF IsTree
      <3>3. s[Len(s)] = t[Len(s)]
        BY <3>1 DEF Agree
      <3> QED
        BY <3>2, <3>3, <2>2, <1>2
    <2> QED
      BY <2>1, <2>2, <1>1, <1>2
  <1> QED
    BY <1>3 DEF more

\* Two finished runs from one list end at the same height, in the same node.
LEMMA FinishedAgree ==
  ASSUME NEW list, NEW s, NEW t, IsTree(list, s), IsTree(list, t), Agree(s, t),
         Len(Last(s)) = 1, Len(Last(t)) = 1
  PROVE  Len(s) = Len(t) /\ Last(s) = Last(t)
  <1>1. Len(s) \in Nat \ {0} /\ Len(t) \in Nat \ {0}
    BY LevelShape DEF IsTree
  <1>2. ~(Len(s) < Len(t))
    <2> SUFFICES ASSUME Len(s) < Len(t)
                 PROVE  FALSE
      OBVIOUS
    <2>1. Len(s) \in 1..(Len(t) - 1) /\ Len(s) \in 1..Len(s) /\ Len(s) <= Len(t)
      BY <1>1
    <2>2. Len(t[Len(s)]) > 1
      <3>1. \A i \in 1..(Len(t) - 1) : Len(t[i]) > 1
        BY DEF IsTree
      <3> QED
        BY <2>1, <3>1
    <2>3. Last(s) = t[Len(s)]
      <3>1. \A i \in 1..Len(s) : i <= Len(t) => s[i] = t[i]
        BY DEF Agree
      <3>2. s[Len(s)] = t[Len(s)]
        BY <1>1, <2>1, <3>1
      <3> QED
        BY <3>2 DEF Last
    <2>4. Len(t[Len(s)]) = 1
      BY <2>3
    <2> QED
      BY <2>2, <2>4
  <1>3. ~(Len(t) < Len(s))
    <2> SUFFICES ASSUME Len(t) < Len(s)
                 PROVE  FALSE
      OBVIOUS
    <2>1. Len(t) \in 1..(Len(s) - 1) /\ Len(t) \in 1..Len(s) /\ Len(t) <= Len(t)
      BY <1>1
    <2>2. Len(s[Len(t)]) > 1
      <3>1. \A i \in 1..(Len(s) - 1) : Len(s[i]) > 1
        BY DEF IsTree
      <3> QED
        BY <2>1, <3>1
    <2>3. Last(t) = s[Len(t)]
      <3>1. \A i \in 1..Len(s) : i <= Len(t) => s[i] = t[i]
        BY DEF Agree
      <3>2. s[Len(t)] = t[Len(t)]
        BY <1>1, <2>1, <3>1
      <3> QED
        BY <3>2 DEF Last
    <2>4. Len(s[Len(t)]) = 1
      BY <2>3
    <2> QED
      BY <2>2, <2>4
  <1>4. Len(s) = Len(t)
    BY <1>1, <1>2, <1>3
  <1> QED
    BY <1>1, <1>4 DEF Agree, Last

------------------------------------------------------------------------------
(* What the commands build.                                                *)

IsElectorate(e) ==
  /\ DOMAIN e = {"list", "levels"}
  /\ \E file \in Files, order \in Collations : IsVoterList(file) /\ e.list = Sorted(file, order)
  /\ IsTree(e.list, e.levels)

TreesInv ==
  /\ DOMAIN electorate = Commands
  /\ \A cmd \in Commands : electorate[cmd] = NoElectorate \/ IsElectorate(electorate[cmd])
  /\ electorate["build"].list = electorate["proof"].list =>
       Agree(electorate["build"].levels, electorate["proof"].levels)

\* Only reading a file and adding a level change what is built.
LEMMA ElectorateSteps ==
  ASSUME [Next]_vars
  PROVE  \/ UNCHANGED electorate
         \/ \E cmd \in Commands : ParseVoterList(cmd) \/ NextLevel(cmd)
  BY DEF Next, vars, FindVoter, NextSibling, Improvise, CommitVote, VerifySibling, VerifyRoot

LEMMA BuiltIsElectorate ==
  ASSUME TreesInv, NEW cmd \in Commands, electorate[cmd].levels # <<>>
  PROVE  IsElectorate(electorate[cmd])
  BY DEF TreesInv, NoElectorate

LEMMA ParseGivesElectorate ==
  ASSUME TreesInv, NEW cmd \in Commands, ParseVoterList(cmd)
  PROVE  /\ DOMAIN electorate' = Commands
         /\ IsElectorate(electorate'[cmd])
         /\ electorate'[cmd].levels = <<Leaves(electorate'[cmd].list)>>
         /\ \A d \in Commands \ {cmd} : electorate'[d] = electorate[d]
  <1>1. PICK file \in Files, order \in Collations :
          /\ IsVoterList(file)
          /\ electorate' = [electorate EXCEPT ![cmd] =
                              [list |-> Sorted(file, order),
                               levels |-> <<Leaves(Sorted(file, order))>>]]
    BY DEF ParseVoterList
  <1> DEFINE list == Sorted(file, order)
             e == [list |-> list, levels |-> <<Leaves(list)>>]
  <1>2. IsLevel(list)
    BY <1>1, SortedNames
  <1>3. DOMAIN e = {"list", "levels"} /\ e.list = list /\ e.levels = <<Leaves(list)>>
    OBVIOUS
  <1>4. electorate' = [electorate EXCEPT ![cmd] = e]
    BY <1>1
  <1> HIDE DEF e
  <1>5. /\ DOMAIN electorate' = Commands /\ electorate'[cmd] = e
        /\ \A d \in Commands \ {cmd} : electorate'[d] = electorate[d]
    BY <1>4 DEF TreesInv
  <1>6. IsTree(list, <<Leaves(list)>>)
    BY <1>2, LeavesAreTree
  <1>7. IsElectorate(e)
    BY <1>1, <1>3, <1>6 DEF IsElectorate
  <1> QED
    BY <1>3, <1>5, <1>7

LEMMA NextLevelGivesElectorate ==
  ASSUME TreesInv, NEW cmd \in Commands, NextLevel(cmd)
  PROVE  /\ DOMAIN electorate' = Commands
         /\ IsElectorate(electorate[cmd]) /\ IsElectorate(electorate'[cmd])
         /\ Len(Level(cmd)) > 1
         /\ electorate'[cmd].list = electorate[cmd].list
         /\ electorate'[cmd].levels =
              Append(electorate[cmd].levels, ParentLevel(Last(electorate[cmd].levels)))
         /\ \A d \in Commands \ {cmd} : electorate'[d] = electorate[d]
  <1> DEFINE more == Append(electorate[cmd].levels, ParentLevel(Level(cmd)))
             e == [electorate[cmd] EXCEPT !.levels = more]
  <1>1. IsElectorate(electorate[cmd]) /\ Len(Level(cmd)) > 1
    BY BuiltIsElectorate DEF NextLevel
  <1>2. electorate' = [electorate EXCEPT ![cmd] = e]
    BY DEF NextLevel
  <1>3. DOMAIN e = {"list", "levels"} /\ e.list = electorate[cmd].list /\ e.levels = more
    BY <1>1 DEF IsElectorate
  <1> HIDE DEF e
  <1>4. /\ DOMAIN electorate' = Commands /\ electorate'[cmd] = e
        /\ \A d \in Commands \ {cmd} : electorate'[d] = electorate[d]
    BY <1>2 DEF TreesInv
  <1>5. IsTree(electorate[cmd].list, more)
    BY <1>1, NextLevelIsTree DEF IsElectorate, Level
  <1> HIDE DEF more
  <1>6. IsElectorate(e)
    BY <1>1, <1>3, <1>5 DEF IsElectorate
  <1> QED
    BY <1>1, <1>3, <1>4, <1>6 DEF more, Level

LEMMA TreesStep ==
  ASSUME TreesInv, [Next]_vars
  PROVE  TreesInv'
  <1>1. CASE UNCHANGED electorate
    BY <1>1 DEF TreesInv
  <1>2. ASSUME NEW cmd \in Commands, ParseVoterList(cmd)
        PROVE  TreesInv'
    <2>1. /\ DOMAIN electorate' = Commands
          /\ \A d \in Commands : electorate'[d] = NoElectorate \/ IsElectorate(electorate'[d])
      BY <1>2, ParseGivesElectorate DEF TreesInv
    <2>2. ASSUME NEW d \in Commands \ {cmd},
                 electorate'[cmd].list = electorate'[d].list
          PROVE  Agree(electorate'[cmd].levels, electorate'[d].levels)
                 /\ Agree(electorate'[d].levels, electorate'[cmd].levels)
      <3>1. IsElectorate(electorate'[cmd])
            /\ electorate'[cmd].levels = <<Leaves(electorate'[cmd].list)>>
        BY <1>2, ParseGivesElectorate
      <3>2. electorate'[d] # NoElectorate
        BY <3>1, <2>2 DEF NoElectorate, IsElectorate, IsTree, IsLevel
      <3>3. IsTree(electorate'[cmd].list, electorate'[d].levels)
        BY <2>1, <2>2, <3>2 DEF IsElectorate
      <3> QED
        BY <3>1, <3>3, LeavesAgree
    <2> QED
      BY <2>1, <2>2 DEF TreesInv, Commands
  <1>3. ASSUME NEW cmd \in Commands, NextLevel(cmd)
        PROVE  TreesInv'
    <2>1. /\ DOMAIN electorate' = Commands
          /\ \A d \in Commands : electorate'[d] = NoElectorate \/ IsElectorate(electorate'[d])
      BY <1>3, NextLevelGivesElectorate DEF TreesInv
    <2>2. ASSUME NEW d \in Commands \ {cmd},
                 electorate'[cmd].list = electorate'[d].list
          PROVE  Agree(electorate'[cmd].levels, electorate'[d].levels)
                 /\ Agree(electorate'[d].levels, electorate'[cmd].levels)
      <3> DEFINE s == electorate[cmd].levels
                 t == electorate[d].levels
                 list == electorate[cmd].list
      <3>1. /\ IsElectorate(electorate[cmd]) /\ IsElectorate(electorate'[cmd])
            /\ electorate'[d] = electorate[d] /\ electorate'[cmd].list = list
            /\ Len(Last(s)) > 1
            /\ electorate'[cmd].levels = Append(s, ParentLevel(Last(s)))
        BY <1>3, NextLevelGivesElectorate DEF Level
      <3>2. electorate[d] # NoElectorate
        BY <3>1, <2>2 DEF NoElectorate, IsElectorate, IsTree, IsLevel
      <3>3. IsTree(list, s) /\ IsTree(list, t) /\ IsLevel(electorate'[cmd].levels)
        BY <2>2, <3>1, <3>2 DEF IsElectorate, TreesInv, IsTree
      <3>4. Agree(s, t)
        <4>1. (cmd = "build" /\ d = "proof") \/ (cmd = "proof" /\ d = "build")
          BY DEF Commands
        <4> QED
          BY <4>1, <2>2, <3>1, <3>3, AgreeSymmetric DEF TreesInv, IsTree
      <3> HIDE DEF s, t, list
      <3>5. Agree(Append(s, ParentLevel(Last(s))), t)
        BY <3>1, <3>3, <3>4, NextLevelAgrees
      <3>6. Agree(electorate'[cmd].levels, t) /\ Agree(t, electorate'[cmd].levels)
        BY <3>1, <3>3, <3>5, AgreeSymmetric DEF IsTree
      <3> QED
        BY <3>1, <3>6 DEF t
    <2> QED
      BY <2>1, <2>2 DEF TreesInv, Commands
  <1> QED
    BY <1>1, <1>2, <1>3, ElectorateSteps

\* What a command has built is the sorted list of a file and the levels of its tree.
THEOREM ElectoratesAreTrees == Spec => []TreesInv
  <1>1. Init => TreesInv
    BY DEF Init, TreesInv, NoElectorate, Agree, Commands
  <1>2. TreesInv /\ [Next]_vars => TreesInv'
    BY TreesStep
  <1> QED
    BY <1>1, <1>2, PTL DEF Spec

------------------------------------------------------------------------------
(* A root and its voters.                                                  *)

\* Every machine the tools run on ranks the voters alike.
OneCollation == \A o1, o2 \in Collations : o1 = o2

LEMMA SameVotersSameList ==
  ASSUME OneCollation, NEW d, NEW e, IsElectorate(d), IsElectorate(e),
         ToSet(d.list) = ToSet(e.list)
  PROVE  d.list = e.list
  <1>1. PICK f \in Files, o \in Collations : IsVoterList(f) /\ d.list = Sorted(f, o)
    BY DEF IsElectorate
  <1>2. PICK g \in Files, p \in Collations : IsVoterList(g) /\ e.list = Sorted(g, p)
    BY DEF IsElectorate
  <1>3. o = p
    BY DEF OneCollation
  <1>4. Named(f) = Named(g)
    BY <1>1, <1>2, SortedNames
  <1> QED
    BY <1>1, <1>2, <1>3, <1>4 DEF Sorted

LEMMA SameRootSameVoters ==
  ASSUME NEW list, NEW level, NEW other, NEW top,
         Complete(list, level), Sound(other, top),
         IsLevel(level), IsLevel(top), Len(level) = 1, Len(top) = 1, level[1] = top[1]
  PROVE  ToSet(list) \subseteq ToSet(other)
  <1>1. PICK N : /\ Closed(N) /\ ToSet(top) \subseteq N
                 /\ \A v : Leaf(v) \in N => v \in ToSet(other)
    BY DEF Sound
  <1>2. DOMAIN level = 1..1 /\ DOMAIN top = 1..1
    BY LevelShape
  <1>3. ToSet(level) = ToSet(top)
    BY <1>2 DEF ToSet
  <1>4. \A v \in ToSet(list) : Leaf(v) \in N
    BY <1>1, <1>3 DEF Complete
  <1> QED
    BY <1>1, <1>4

\* What a finished command has.
LEMMA BuiltTree ==
  ASSUME TreesInv, NEW cmd \in Commands, IsBuilt(cmd)
  PROVE  /\ IsElectorate(electorate[cmd])
         /\ IsTree(electorate[cmd].list, electorate[cmd].levels)
         /\ IsLevel(Level(cmd)) /\ Len(Level(cmd)) = 1
         /\ MerkleRoot(cmd) \in ToSet(Level(cmd))
         /\ Sound(electorate[cmd].list, Level(cmd))
         /\ Complete(electorate[cmd].list, Level(cmd))
  <1>1. IsElectorate(electorate[cmd]) /\ Len(Level(cmd)) = 1
    BY BuiltIsElectorate DEF IsBuilt
  <1>2. IsTree(electorate[cmd].list, electorate[cmd].levels)
    BY <1>1 DEF IsElectorate
  <1>3. /\ Sound(electorate[cmd].list, Level(cmd))
        /\ Complete(electorate[cmd].list, Level(cmd))
    BY <1>2 DEF IsTree, Level
  <1>4. IsLevel(electorate[cmd].levels)
    BY <1>2 DEF IsTree
  <1>5. Len(electorate[cmd].levels) \in 1..Len(electorate[cmd].levels)
    BY <1>4, LevelShape
  <1>6. IsLevel(Level(cmd))
    BY <1>2, <1>5 DEF IsTree, Level, Last
  <1>7. MerkleRoot(cmd) \in ToSet(Level(cmd))
    BY <1>1, <1>6, LevelShape DEF MerkleRoot, ToSet
  <1> QED
    BY <1>1, <1>2, <1>3, <1>6, <1>7

\* Two finished trees of one list are one tree.
LEMMA SameListSameTree ==
  ASSUME TreesInv, IsBuilt("build"), IsBuilt("proof"),
         electorate["build"].list = electorate["proof"].list
  PROVE  /\ Len(electorate["build"].levels) = Len(electorate["proof"].levels)
         /\ MerkleRoot("build") = MerkleRoot("proof")
  <1> DEFINE s == electorate["build"].levels
             t == electorate["proof"].levels
             list == electorate["build"].list
  <1>1. /\ IsTree(list, s) /\ IsTree(list, t)
        /\ Len(Last(s)) = 1 /\ Len(Last(t)) = 1
    BY BuiltTree DEF Commands, Level
  <1>2. Agree(s, t)
    BY DEF TreesInv
  <1>3. Len(s) = Len(t) /\ Last(s) = Last(t)
    <2> HIDE DEF s, t, list
    <2> QED
      BY <1>1, <1>2, FinishedAgree
  <1> QED
    BY <1>3 DEF MerkleRoot, Level

\* Whatever the machines' collations, a root stands for one set of voters.
RootsTellVotersApart ==
  IsBuilt("build") /\ IsBuilt("proof") /\ MerkleRoot("build") = MerkleRoot("proof") =>
    SameVoters

LEMMA TreesTellVotersApart == TreesInv => RootsTellVotersApart
  <1> SUFFICES ASSUME TreesInv, IsBuilt("build"), IsBuilt("proof"),
                      MerkleRoot("build") = MerkleRoot("proof")
               PROVE  SameVoters
    BY DEF RootsTellVotersApart
  <1>1. "build" \in Commands /\ "proof" \in Commands
    BY DEF Commands
  <1>2. Level("build")[1] = Level("proof")[1]
    BY DEF MerkleRoot
  <1>3. VotersOf("build") \subseteq VotersOf("proof")
    BY <1>1, <1>2, BuiltTree, SameRootSameVoters DEF VotersOf
  <1>4. VotersOf("proof") \subseteq VotersOf("build")
    BY <1>1, <1>2, BuiltTree, SameRootSameVoters DEF VotersOf
  <1> QED
    BY <1>3, <1>4 DEF SameVoters

\* Equal roots mean equal voters, for any collations the tools run under.
THEOREM RootsDiffer == Spec => []RootsTellVotersApart
  BY ElectoratesAreTrees, TreesTellVotersApart, PTL

\* buildElectorate: with one collation root and list hash name the voters.
THEOREM RootsNameVoters ==
  ASSUME OneCollation
  PROVE  Spec => []RootNamesVoters
  <1>1. TreesInv => RootNamesVoters
    <2> SUFFICES ASSUME TreesInv, IsBuilt("build"), IsBuilt("proof")
                 PROVE  /\ SameVoters <=> MerkleRoot("build") = MerkleRoot("proof")
                        /\ SameVoters <=> electorate["build"].list = electorate["proof"].list
      BY DEF RootNamesVoters
    <2>1. SameVoters => electorate["build"].list = electorate["proof"].list
      BY BuiltTree, SameVotersSameList DEF SameVoters, VotersOf, Commands
    <2>2. electorate["build"].list = electorate["proof"].list => SameVoters
      BY DEF SameVoters, VotersOf
    <2>3. electorate["build"].list = electorate["proof"].list =>
            MerkleRoot("build") = MerkleRoot("proof")
      BY SameListSameTree
    <2>4. MerkleRoot("build") = MerkleRoot("proof") => SameVoters
      BY TreesTellVotersApart DEF RootsTellVotersApart
    <2> QED
      BY <2>1, <2>2, <2>3, <2>4
  <1> QED
    BY <1>1, ElectoratesAreTrees, PTL

------------------------------------------------------------------------------
(* A proof admits members only.                                            *)

\* What is built stays.
LEMMA BuiltStays ==
  ASSUME TreesInv, [Next]_vars, NEW cmd \in Commands, IsBuilt(cmd)
  PROVE  electorate'[cmd] = electorate[cmd]
  <1>1. CASE UNCHANGED electorate
    BY <1>1
  <1>2. ASSUME NEW c \in Commands, ParseVoterList(c)
        PROVE  electorate'[cmd] = electorate[cmd]
    <2>1. c # cmd
      BY <1>2 DEF ParseVoterList, IsBuilt, NoElectorate
    <2> QED
      BY <2>1, <1>2, ParseGivesElectorate
  <1>3. ASSUME NEW c \in Commands, NextLevel(c)
        PROVE  electorate'[cmd] = electorate[cmd]
    <2>1. c # cmd
      <3>1. Len(Level(c)) > 1
        BY <1>3 DEF NextLevel
      <3>2. ~(Len(Level(cmd)) > 1)
        <4>1. ~(1 > 1)
          OBVIOUS
        <4> QED
          BY <4>1, Zenon DEF IsBuilt
      <3> QED
        BY <3>1, <3>2
    <2> QED
      BY <2>1, <1>3, NextLevelGivesElectorate
  <1> QED
    BY <1>1, <1>2, <1>3, ElectorateSteps

\* The request, once made.
RequestInv ==
  /\ \/ request = NoRequest
     \/ DOMAIN request = {"by", "voter", "merkle_proof", "leaf_index"}
  /\ answer # "none" => IsBuilt("build") /\ request.by \in {"tool", "client"}

\* The closed sets that have the leaves of the published list only.
NamesMembersOnly(N) ==
  Closed(N) /\ \A v : Leaf(v) \in N => v \in VotersOf("build")

\* From the leaf of a voter who is not on the list, the check stays outside them.
CheckInv ==
  answer = "checking" /\ request.voter \notin VotersOf("build") =>
    \A N : NamesMembersOnly(N) => check.computed \notin N

MembersInv == TreesInv /\ RequestInv /\ CheckInv /\ ProofsNameMembers

LEMMA RequestStep ==
  ASSUME TreesInv, RequestInv, [Next]_vars
  PROVE  /\ RequestInv'
         /\ answer # "none" => request'.voter = request.voter /\ VotersOf("build")' = VotersOf("build")
                               /\ IsBuilt("build")' /\ MerkleRoot("build")' = MerkleRoot("build")
  <1>1. IsBuilt("build") =>
          /\ IsBuilt("build")' /\ MerkleRoot("build")' = MerkleRoot("build")
          /\ VotersOf("build")' = VotersOf("build")
    BY BuiltStays DEF IsBuilt, Level, MerkleRoot, VotersOf, Commands
  <1>2. CASE FindVoter
    BY <1>2, <1>1 DEF FindVoter, RequestInv, NoRequest
  <1>3. CASE Improvise
    BY <1>3, <1>1 DEF Improvise, RequestInv, NoRequest
  <1>4. CASE NextSibling
    <2>1. request # NoRequest
      BY <1>4 DEF NextSibling, NoRequest
    <2>2. request' = [request EXCEPT !.merkle_proof = request'.merkle_proof]
      BY <1>4, <2>1 DEF NextSibling, RequestInv
    <2>3. DOMAIN request' = DOMAIN request /\ request'.by = request.by /\ request'.voter = request.voter
      BY <2>1, <2>2 DEF RequestInv
    <2>4. answer' = answer
      BY <1>4 DEF NextSibling
    <2> QED
      BY <2>1, <2>3, <2>4, <1>1 DEF RequestInv
  <1>5. CASE CommitVote
    BY <1>5, <1>1 DEF CommitVote, RequestInv
  <1>6. CASE VerifySibling \/ VerifyRoot
    BY <1>6, <1>1 DEF VerifySibling, VerifyRoot, RequestInv
  <1>7. CASE UNCHANGED vars
    BY <1>7, <1>1 DEF vars, RequestInv
  <1>8. ASSUME NEW cmd \in Commands, ParseVoterList(cmd) \/ NextLevel(cmd)
        PROVE  UNCHANGED <<request, answer>>
    BY <1>8 DEF ParseVoterList, NextLevel
  <1> QED
    BY <1>1, <1>2, <1>3, <1>4, <1>5, <1>6, <1>7, <1>8 DEF Next, RequestInv

LEMMA RootNamesMembersOnly ==
  ASSUME TreesInv, IsBuilt("build")
  PROVE  \E N : NamesMembersOnly(N) /\ MerkleRoot("build") \in N
  BY BuiltTree DEF Sound, NamesMembersOnly, VotersOf, Commands

LEMMA MembersStep ==
  ASSUME MembersInv, [Next]_vars
  PROVE  MembersInv'
  <1>1. TreesInv' /\ RequestInv'
    BY TreesStep, RequestStep DEF MembersInv
  <1>2. CASE CommitVote
    <2>1. IsBuilt("build") /\ UNCHANGED <<electorate, request>>
      BY <1>2 DEF CommitVote
    <2>2. VotersOf("build")' = VotersOf("build")
      BY <2>1 DEF VotersOf
    <2>3. PICK N : NamesMembersOnly(N) /\ MerkleRoot("build") \in N
      BY <2>1, RootNamesMembersOnly DEF MembersInv
    <2>4. answer' = "too_long" => CheckInv' /\ ProofsNameMembers'
      BY DEF CheckInv, ProofsNameMembers
    <2>5. answer' = Verdict(EmptyProofAdmits(Leaf(request.voter), MerkleRoot("build"))) =>
            CheckInv' /\ ProofsNameMembers'
      BY <2>1, <2>2, <2>3
         DEF CheckInv, ProofsNameMembers, Verdict, EmptyProofAdmits, NamesMembersOnly
    <2>6. answer' = "checking" /\ check'.computed = Leaf(request.voter) =>
            CheckInv' /\ ProofsNameMembers'
      BY <2>1, <2>2 DEF CheckInv, ProofsNameMembers, NamesMembersOnly
    <2>7. CheckInv' /\ ProofsNameMembers'
      BY <1>2, <2>4, <2>5, <2>6 DEF CommitVote
    <2> QED
      BY <1>1, <2>7 DEF MembersInv
  <1>3. CASE VerifySibling
    <2>1. /\ answer = "checking" /\ UNCHANGED <<electorate, request, answer>>
          /\ \E sibling : \/ check'.computed = PairHash(check.computed, sibling)
                          \/ check'.computed = PairHash(sibling, check.computed)
      BY <1>3 DEF VerifySibling
    <2>2. VotersOf("build")' = VotersOf("build")
      BY <2>1 DEF VotersOf
    <2>3. CheckInv'
      BY <2>1, <2>2 DEF MembersInv, CheckInv, NamesMembersOnly, Closed
    <2>4. ProofsNameMembers'
      BY <2>1 DEF ProofsNameMembers
    <2> QED
      BY <1>1, <2>3, <2>4 DEF MembersInv
  <1>4. CASE VerifyRoot
    <2>1. /\ answer = "checking" /\ UNCHANGED <<electorate, request, check>>
          /\ answer' = Verdict(check.computed = MerkleRoot("build"))
      BY <1>4 DEF VerifyRoot
    <2>2. VotersOf("build")' = VotersOf("build") /\ IsBuilt("build")
      BY <2>1 DEF VotersOf, MembersInv, RequestInv
    <2>3. PICK N : NamesMembersOnly(N) /\ MerkleRoot("build") \in N
      BY <2>2, RootNamesMembersOnly DEF MembersInv
    <2>4. answer' # "checking" /\ (answer' = "eligible" => check.computed = MerkleRoot("build"))
      BY <2>1 DEF Verdict
    <2>5. CheckInv' /\ ProofsNameMembers'
      BY <2>1, <2>2, <2>3, <2>4 DEF MembersInv, CheckInv, ProofsNameMembers
    <2> QED
      BY <1>1, <2>5 DEF MembersInv
  <1>5. ASSUME UNCHANGED <<answer, check>>
        PROVE  MembersInv'
    <2>1. answer # "none" => request'.voter = request.voter /\ VotersOf("build")' = VotersOf("build")
      BY RequestStep DEF MembersInv
    <2>2. CheckInv' /\ ProofsNameMembers'
      BY <1>5, <2>1 DEF MembersInv, CheckInv, ProofsNameMembers, NamesMembersOnly
    <2> QED
      BY <1>1, <2>2 DEF MembersInv
  <1>6. ASSUME ~CommitVote, ~VerifySibling, ~VerifyRoot
        PROVE  UNCHANGED <<answer, check>>
    BY <1>6 DEF Next, vars, ParseVoterList, NextLevel, FindVoter, NextSibling, Improvise
  <1> QED
    BY <1>2, <1>3, <1>4, <1>5, <1>6

\* commit_vote: a proof of any length and any digests admits members only.
THEOREM ProofsAdmitMembersOnly == Spec => []ProofsNameMembers
  <1>1. Init => RequestInv /\ CheckInv /\ ProofsNameMembers
    BY DEF Init, RequestInv, CheckInv, ProofsNameMembers
  <1>2. Init => TreesInv
    BY DEF Init, TreesInv, NoElectorate, Agree, Commands
  <1>3. Init => MembersInv
    BY <1>1, <1>2 DEF MembersInv
  <1>4. MembersInv /\ [Next]_vars => MembersInv'
    BY MembersStep
  <1>5. MembersInv => ProofsNameMembers
    BY DEF MembersInv
  <1> QED
    BY <1>3, <1>4, <1>5, PTL DEF Spec

------------------------------------------------------------------------------
(* The tool's proofs.                                                      *)

\* The index at each height that the loop of buildMerkleProof went through, and
\* the siblings it took there.
IsPath(levels, proof, at) ==
  /\ IsSeq(proof) /\ at \in [0..Len(proof) -> Nat]
  /\ Len(proof) + 1 <= Len(levels)
  /\ \A d \in 0..Len(proof) : at[d] < Len(levels[d + 1])
  /\ \A d \in 1..Len(proof) :
       at[d] = at[d - 1] \div 2 /\ proof[d] = SiblingAt(levels[d], at[d - 1])

\* The request of a client that ran proof, the loop that made it, and the loop that
\* checks it.
ToolPath(at) ==
  LET levels == electorate["proof"].levels
      proof == request.merkle_proof
  IN /\ IsPath(levels, proof, at)
     /\ at[0] = request.leaf_index /\ Leaf(request.voter) = levels[1][at[0] + 1]
     /\ path.level = levels[Len(proof) + 1] /\ path.index = at[Len(proof)]
     /\ answer # "none" => Len(proof) + 1 = Len(levels)
     /\ answer = "checking" =>
          /\ check.used \in 0..Len(proof) /\ check.index = at[check.used]
          /\ check.computed = levels[check.used + 1][at[check.used] + 1]

PathInv == request.by = "tool" => IsBuilt("proof") /\ \E at : ToolPath(at)

ToolInv == TreesInv /\ RequestInv /\ PathInv /\ MembersCanProve

\* The loop starts at the voter's leaf.
LEMMA PathStarts ==
  ASSUME NEW list, NEW levels, IsTree(list, levels), NEW i \in DOMAIN list, NEW at,
         at = [d \in 0..0 |-> i - 1]
  PROVE  /\ IsPath(levels, <<>>, at)
         /\ at[0] = i - 1 /\ Leaf(list[i]) = levels[1][at[0] + 1]
         /\ Len(<<>>) = 0
  <1>1. /\ IsLevel(list) /\ IsLevel(levels) /\ levels[1] = Leaves(list)
        /\ Len(levels) \in Nat \ {0} /\ DOMAIN list = 1..Len(list) /\ Len(list) \in Nat
    BY LevelShape DEF IsTree
  <1>2. Len(levels[1]) = Len(list)
    BY <1>1, LeavesNameList
  <1>3. i \in 1..Len(list) /\ i - 1 \in Nat /\ i - 1 < Len(list) /\ (i - 1) + 1 = i
    BY <1>1
  <1>4. at \in [0..0 -> Nat] /\ at[0] = i - 1
    BY <1>3
  <1>5. IsSeq(<<>>) /\ Len(<<>>) = 0
    BY DEF IsSeq
  <1>6. at[0] < Len(levels[1])
    BY <1>2, <1>3, <1>4
  <1>7. IsPath(levels, <<>>, at)
    <2> DEFINE empty == <<>>
    <2>1. IsSeq(empty) /\ Len(empty) = 0
      BY <1>5
    <2> HIDE DEF empty
    <2>2. IsPath(levels, empty, at)
      BY <1>1, <1>4, <1>6, <2>1 DEF IsPath
    <2> QED
      BY <2>2 DEF empty
  <1>8. Leaf(list[i]) = levels[1][at[0] + 1]
    BY <1>1, <1>3, <1>4 DEF Leaves
  <1> QED
    BY <1>4, <1>5, <1>7, <1>8

\* An iteration of it goes one level up.
LEMMA PathClimbs ==
  ASSUME NEW list, NEW levels, IsTree(list, levels),
         NEW proof, NEW at, IsPath(levels, proof, at),
         Len(levels[Len(proof) + 1]) > 1, Len(Last(levels)) = 1
  PROVE  LET more == Append(proof, SiblingAt(levels[Len(proof) + 1], at[Len(proof)]))
         IN \E next :
              /\ IsPath(levels, more, next) /\ Len(more) = Len(proof) + 1
              /\ next[0] = at[0] /\ next[Len(more)] = at[Len(proof)] \div 2
              /\ levels[Len(more) + 1] = ParentLevel(levels[Len(proof) + 1])
  <1> DEFINE n == Len(proof)
             sibling == SiblingAt(levels[n + 1], at[n])
             more == Append(proof, sibling)
             next == [d \in 0..(n + 1) |-> IF d <= n THEN at[d] ELSE at[n] \div 2]
  <1>1. n \in Nat /\ IsLevel(levels) /\ Len(levels) \in Nat \ {0} /\ n + 1 <= Len(levels)
    BY LevelShape DEF IsPath, IsSeq, IsTree
  <1>2. n + 1 # Len(levels)
    <2> SUFFICES ASSUME n + 1 = Len(levels)
                 PROVE  FALSE
      OBVIOUS
    <2>1. Len(levels[n + 1]) = 1
      BY DEF Last
    <2>2. ~(1 > 1)
      OBVIOUS
    <2> QED
      BY <2>1, <2>2
  <1>3. n + 1 \in 1..(Len(levels) - 1) /\ n + 1 \in 1..Len(levels)
    BY <1>1, <1>2
  <1>4. /\ levels[n + 2] = ParentLevel(levels[n + 1]) /\ IsLevel(levels[n + 1])
    <2>1. \A i \in 1..(Len(levels) - 1) : levels[i + 1] = ParentLevel(levels[i])
      BY DEF IsTree
    <2>2. \A i \in 1..Len(levels) : IsLevel(levels[i])
      BY DEF IsTree
    <2>3. (n + 1) + 1 = n + 2
      BY <1>1
    <2> QED
      BY <1>3, <2>1, <2>2, <2>3
  <1>5. /\ Len(more) = n + 1 /\ IsSeq(more) /\ more[n + 1] = sibling
        /\ \A d \in 1..n : more[d] = proof[d]
    <2> HIDE DEF sibling
    <2> QED
      BY AppendLevel DEF IsPath, IsLevel
  <1>6. at[n] \in Nat /\ at[n] < Len(levels[n + 1])
    BY <1>1 DEF IsPath
  <1>7. at[n] \div 2 \in Nat /\ at[n] \div 2 < Len(levels[n + 2])
    BY <1>4, <1>6, SiblingLeadsToParent
  <1> HIDE DEF n
  <1>8. /\ next \in [0..(n + 1) -> Nat]
        /\ \A d \in 0..n : next[d] = at[d]
        /\ next[n + 1] = at[n] \div 2
    <2>1. at \in [0..n -> Nat]
      BY DEF IsPath, n
    <2>2. n \in Nat
      BY <1>1
    <2> QED
      BY <2>1, <2>2, <1>7
  <1> HIDE DEF more, next
  <1>9. \A d \in 0..(n + 1) : next[d] < Len(levels[d + 1])
    <2> TAKE d \in 0..(n + 1)
    <2>1. CASE d \in 0..n
      BY <2>1, <1>8 DEF IsPath, n
    <2>2. CASE d = n + 1
      BY <2>2, <1>1, <1>7, <1>8
    <2> QED
      BY <2>1, <2>2, <1>1
  <1>10. \A d \in 1..(n + 1) :
           next[d] = next[d - 1] \div 2 /\ more[d] = SiblingAt(levels[d], next[d - 1])
    <2> TAKE d \in 1..(n + 1)
    <2>1. CASE d \in 1..n
      <3>1. d - 1 \in 0..n /\ d \in 0..n
        BY <2>1, <1>1
      <3>2. at[d] = at[d - 1] \div 2 /\ proof[d] = SiblingAt(levels[d], at[d - 1])
        BY <2>1 DEF IsPath, n
      <3> QED
        BY <2>1, <3>1, <3>2, <1>5, <1>8
    <2>2. CASE d = n + 1
      <3>1. d - 1 = n /\ n \in 0..n
        BY <2>2, <1>1
      <3>2. next[d - 1] = at[n] /\ sibling = SiblingAt(levels[d], at[n])
        <4>1. next[n] = at[n]
          BY <3>1, <1>8
        <4>2. levels[d] = levels[n + 1]
          BY <2>2
        <4> QED
          BY <3>1, <4>1, <4>2
      <3>3. next[d] = at[n] \div 2 /\ more[d] = sibling
        BY <2>2, <1>5, <1>8
      <3> QED
        BY <3>2, <3>3, Zenon
    <2> QED
      BY <2>1, <2>2, <1>1
  <1>11. IsPath(levels, more, next)
    <2>1. Len(more) + 1 <= Len(levels)
      BY <1>1, <1>3, <1>5
    <2> QED
      BY <2>1, <1>5, <1>8, <1>9, <1>10 DEF IsPath
  <1>12. next[0] = at[0] /\ next[Len(more)] = at[n] \div 2
    BY <1>1, <1>5, <1>8
  <1>13. levels[Len(more) + 1] = ParentLevel(levels[n + 1])
    BY <1>1, <1>4, <1>5
  <1> QED
    <2>1. Len(more) = Len(proof) + 1 /\ next[Len(more)] = at[Len(proof)] \div 2
          /\ levels[Len(more) + 1] = ParentLevel(levels[Len(proof) + 1])
      BY <1>5, <1>12, <1>13 DEF n
    <2> QED
      BY <1>11, <1>12, <2>1 DEF more, sibling, n

\* An iteration of the check follows the path.
LEMMA PathLeadsUp ==
  ASSUME NEW list, NEW levels, IsTree(list, levels),
         NEW proof, NEW at, IsPath(levels, proof, at),
         NEW d \in 0..Len(proof), d < Len(proof), Len(proof) + 1 = Len(levels)
  PROVE  /\ d + 1 \in 0..Len(proof) /\ at[d + 1] = at[d] \div 2
         /\ PairHash(levels[d + 1][at[d] + 1], proof[d + 1]) = levels[d + 2][at[d + 1] + 1]
  <1>1. Len(proof) \in Nat /\ d \in Nat /\ d + 1 \in 1..Len(proof) /\ (d + 1) - 1 = d
        /\ d + 1 \in 1..(Len(levels) - 1) /\ d + 1 \in 1..Len(levels) /\ (d + 1) + 1 = d + 2
    BY DEF IsPath, IsSeq
  <1>2. at[d + 1] = at[d] \div 2 /\ proof[d + 1] = SiblingAt(levels[d + 1], at[d])
    <2>1. \A e \in 1..Len(proof) :
            at[e] = at[e - 1] \div 2 /\ proof[e] = SiblingAt(levels[e], at[e - 1])
      BY DEF IsPath
    <2> DEFINE e == d + 1
    <2>2. e \in 1..Len(proof) /\ e - 1 = d
      BY <1>1
    <2> HIDE DEF e
    <2>3. at[e] = at[e - 1] \div 2 /\ proof[e] = SiblingAt(levels[e], at[e - 1])
      BY <2>1, <2>2
    <2>4. at[e] = at[d] \div 2 /\ proof[e] = SiblingAt(levels[e], at[d])
      BY <2>2, <2>3
    <2> QED
      BY <2>4 DEF e
  <1>3. levels[d + 2] = ParentLevel(levels[d + 1]) /\ IsLevel(levels[d + 1])
    <2>1. \A i \in 1..(Len(levels) - 1) : levels[i + 1] = ParentLevel(levels[i])
      BY DEF IsTree
    <2>2. \A i \in 1..Len(levels) : IsLevel(levels[i])
      BY DEF IsTree
    <2> QED
      BY <1>1, <2>1, <2>2
  <1>4. at[d] \in Nat /\ at[d] < Len(levels[d + 1])
    BY <1>1 DEF IsPath
  <1>5. PairHash(levels[d + 1][at[d] + 1], SiblingAt(levels[d + 1], at[d])) =
          ParentLevel(levels[d + 1])[at[d] \div 2 + 1]
    BY <1>3, <1>4, SiblingLeadsToParent
  <1> QED
    BY <1>1, <1>2, <1>3, <1>5

\* It ends at the root.
LEMMA PathEnds ==
  ASSUME NEW levels, NEW proof, NEW at, IsPath(levels, proof, at),
         Len(proof) + 1 = Len(levels), Len(Last(levels)) = 1
  PROVE  levels[Len(proof) + 1][at[Len(proof)] + 1] = Last(levels)[1]
  <1>1. Len(proof) \in Nat /\ Len(proof) \in 0..Len(proof)
    BY DEF IsPath, IsSeq
  <1>2. at[Len(proof)] \in Nat /\ at[Len(proof)] < Len(levels[Len(proof) + 1])
    BY <1>1 DEF IsPath
  <1>3. levels[Len(proof) + 1] = Last(levels)
    BY DEF Last
  <1>4. at[Len(proof)] < 1
    BY <1>2, <1>3
  <1>5. at[Len(proof)] + 1 = 1
    BY <1>2, <1>4
  <1> QED
    BY <1>3, <1>5

LEMMA PathStep ==
  ASSUME ToolInv, [Next]_vars
  PROVE  PathInv'
  <1> SUFFICES ASSUME request'.by = "tool"
               PROVE  IsBuilt("proof")' /\ (\E at : ToolPath(at))'
    BY DEF PathInv
  <1> USE DEF ToolInv
  <1>1. CASE FindVoter
    <2>1. IsBuilt("proof") /\ request = NoRequest /\ UNCHANGED <<electorate, check, answer>>
      BY <1>1 DEF FindVoter
    <2>2. PICK i \in DOMAIN electorate["proof"].list :
            /\ request' = [by |-> "tool", voter |-> electorate["proof"].list[i],
                           merkle_proof |-> <<>>, leaf_index |-> i - 1]
            /\ path' = [level |-> Leaves(electorate["proof"].list), index |-> i - 1]
      BY <1>1 DEF FindVoter
    <2>3. PICK at : at = [d \in 0..0 |-> i - 1]
      OBVIOUS
    <2>4. IsTree(electorate["proof"].list, electorate["proof"].levels)
      BY <2>1, BuiltTree DEF Commands
    <2>5. /\ IsPath(electorate["proof"].levels, <<>>, at)
          /\ at[0] = i - 1
          /\ Leaf(electorate["proof"].list[i]) = electorate["proof"].levels[1][at[0] + 1]
          /\ Len(<<>>) = 0
      BY <2>3, <2>4, PathStarts
    <2>6. electorate["proof"].levels[1] = Leaves(electorate["proof"].list)
      BY <2>4 DEF IsTree
    <2>7. answer = "none"
      BY <2>1 DEF RequestInv, NoRequest
    <2>8. /\ request'.merkle_proof = <<>> /\ request'.leaf_index = at[0]
          /\ request'.voter = electorate["proof"].list[i]
          /\ path'.level = electorate["proof"].levels[0 + 1] /\ path'.index = at[0]
      BY <2>2, <2>5, <2>6
    <2>9. ToolPath(at)'
      BY <2>1, <2>5, <2>7, <2>8 DEF ToolPath
    <2> QED
      BY <2>1, <2>9 DEF IsBuilt, Level
  <1>2. CASE NextSibling
    <2>1. /\ request.by = "tool" /\ Len(path.level) > 1 /\ UNCHANGED <<electorate, check, answer>>
          /\ request' = [request EXCEPT !.merkle_proof =
                                          Append(@, SiblingAt(path.level, path.index))]
          /\ path' = [level |-> ParentLevel(path.level), index |-> path.index \div 2]
      BY <1>2 DEF NextSibling
    <2> DEFINE levels == electorate["proof"].levels
               proof == request.merkle_proof
    <2>2. IsBuilt("proof")
      BY <2>1 DEF PathInv
    <2>3. PICK at : ToolPath(at)
      BY <2>1 DEF PathInv
    <2>4. IsTree(electorate["proof"].list, levels) /\ Len(Last(levels)) = 1
      BY <2>2, BuiltTree DEF Commands, Level
    <2>5. IsPath(levels, proof, at) /\ path.level = levels[Len(proof) + 1] /\ path.index = at[Len(proof)]
      BY <2>3 DEF ToolPath
    <2> DEFINE more == Append(proof, SiblingAt(levels[Len(proof) + 1], at[Len(proof)]))
    <2>6. PICK next :
            /\ IsPath(levels, more, next) /\ Len(more) = Len(proof) + 1
            /\ next[0] = at[0] /\ next[Len(more)] = at[Len(proof)] \div 2
            /\ levels[Len(more) + 1] = ParentLevel(levels[Len(proof) + 1])
      <3>1. Len(levels[Len(proof) + 1]) > 1
        BY <2>1, <2>5
      <3> HIDE DEF levels, proof
      <3> QED
        BY <2>4, <2>5, <3>1, PathClimbs
    <2>7. DOMAIN request = {"by", "voter", "merkle_proof", "leaf_index"}
      BY <2>1 DEF RequestInv, NoRequest
    <2>8. /\ request'.merkle_proof = more /\ request'.leaf_index = request.leaf_index
           /\ request'.voter = request.voter
      BY <2>1, <2>5, <2>7
    <2>9. path'.level = ParentLevel(path.level) /\ path'.index = path.index \div 2
      BY <2>1
    <2>10. answer = "none"
      <3> SUFFICES ASSUME answer # "none"
                   PROVE  FALSE
        OBVIOUS
      <3>1. path.level = Last(levels)
        BY <2>3, <2>5 DEF ToolPath, Last
      <3>2. Len(path.level) = 1
        BY <2>4, <3>1
      <3>3. ~(1 > 1)
        OBVIOUS
      <3> QED
        BY <2>1, <3>2, <3>3
    <2>11. ToolPath(next)'
      <3> HIDE DEF levels, proof, more
      <3>1. levels = electorate'["proof"].levels
        BY <2>1 DEF levels
      <3>2. next[0] = request'.leaf_index /\ Leaf(request'.voter) = levels[1][next[0] + 1]
        BY <2>3, <2>6, <2>8 DEF ToolPath, levels
      <3>3. path'.level = levels[Len(more) + 1] /\ path'.index = next[Len(more)]
        BY <2>5, <2>6, <2>9
      <3>4. answer' = "none"
        BY <2>1, <2>10
      <3> QED
        BY <2>6, <2>8, <3>1, <3>2, <3>3, <3>4 DEF ToolPath
    <2> QED
      BY <2>1, <2>2, <2>11 DEF IsBuilt, Level
  <1>3. CASE CommitVote
    <2>1. UNCHANGED <<electorate, path, request>>
      BY <1>3 DEF CommitVote
    <2>2. request.by = "tool" /\ Len(path.level) = 1
      BY <1>3, <2>1 DEF CommitVote
    <2>3. IsBuilt("proof")
      BY <2>2 DEF PathInv
    <2>4. PICK at : ToolPath(at)
      BY <2>2 DEF PathInv
    <2> DEFINE levels == electorate["proof"].levels
               proof == request.merkle_proof
    <2>5. IsPath(levels, proof, at) /\ path.level = levels[Len(proof) + 1]
      BY <2>4 DEF ToolPath
    <2>6. Len(proof) + 1 = Len(levels)
      <3>1. IsTree(electorate["proof"].list, levels)
        BY <2>3, BuiltTree DEF Commands
      <3> SUFFICES ASSUME Len(proof) + 1 # Len(levels)
                   PROVE  FALSE
        OBVIOUS
      <3>2. Len(proof) + 1 \in 1..(Len(levels) - 1)
        <4>1. Len(proof) \in Nat /\ Len(proof) + 1 <= Len(levels)
          BY <2>5 DEF IsPath, IsSeq
        <4>2. Len(levels) \in Nat
          BY <3>1, LevelShape DEF IsTree
        <4> QED
          BY <4>1, <4>2
      <3>3. Len(levels[Len(proof) + 1]) > 1
        <4>1. \A i \in 1..(Len(levels) - 1) : Len(levels[i]) > 1
          BY <3>1 DEF IsTree
        <4> QED
          BY <3>2, <4>1
      <3>4. Len(levels[Len(proof) + 1]) = 1
        BY <2>2, <2>5
      <3>5. ~(1 > 1)
        OBVIOUS
      <3> QED
        BY <3>3, <3>4, <3>5
    <2>7. Len(proof) \in Nat /\ at[0] = request.leaf_index
          /\ Leaf(request.voter) = levels[1][at[0] + 1]
      BY <2>4, <2>5 DEF ToolPath, IsPath, IsSeq
    <2>8. answer' = "checking" =>
            /\ check'.used = 0 /\ check'.index = request.leaf_index
            /\ check'.computed = Leaf(request.voter)
      BY <1>3 DEF CommitVote, Verdict
    <2>9. answer' = "checking" =>
            /\ check'.used \in 0..Len(proof) /\ check'.index = at[check'.used]
            /\ check'.computed = levels[check'.used + 1][at[check'.used] + 1]
      BY <2>7, <2>8
    <2>10. ToolPath(at)'
      BY <2>1, <2>4, <2>6, <2>9 DEF ToolPath
    <2> QED
      BY <2>1, <2>3, <2>10 DEF IsBuilt, Level
  <1>4. CASE VerifySibling
    <2>1. /\ answer = "checking" /\ check.used < Len(request.merkle_proof)
          /\ UNCHANGED <<electorate, path, request, answer>>
          /\ check'.index = check.index \div 2 /\ check'.used = check.used + 1
          /\ check'.computed = PairHash(check.computed, request.merkle_proof[check.used + 1])
      BY <1>4, PairHashSorts DEF VerifySibling
    <2>2. IsBuilt("proof")
      BY <2>1 DEF PathInv
    <2>3. PICK at : ToolPath(at)
      BY <2>1 DEF PathInv
    <2> DEFINE levels == electorate["proof"].levels
               proof == request.merkle_proof
               d == check.used
    <2>4. /\ IsPath(levels, proof, at) /\ Len(proof) + 1 = Len(levels)
          /\ d \in 0..Len(proof) /\ check.index = at[d]
          /\ check.computed = levels[d + 1][at[d] + 1]
      BY <2>1, <2>3 DEF ToolPath
    <2>5. IsTree(electorate["proof"].list, levels)
      BY <2>2, BuiltTree DEF Commands
    <2>6. /\ d + 1 \in 0..Len(proof) /\ at[d + 1] = at[d] \div 2
          /\ PairHash(levels[d + 1][at[d] + 1], proof[d + 1]) = levels[d + 2][at[d + 1] + 1]
      <3>1. d < Len(proof)
        BY <2>1
      <3>2. \A e \in 0..Len(proof) : e < Len(proof) =>
              /\ e + 1 \in 0..Len(proof) /\ at[e + 1] = at[e] \div 2
              /\ PairHash(levels[e + 1][at[e] + 1], proof[e + 1]) = levels[e + 2][at[e + 1] + 1]
        <4> HIDE DEF levels, proof
        <4> QED
          BY <2>4, <2>5, PathLeadsUp
      <3> HIDE DEF levels, proof, d
      <3>3. d \in 0..Len(proof)
        BY <2>4
      <3> QED
        BY <3>1, <3>2, <3>3
    <2>7. check'.used + 1 = d + 2
      BY <2>1, <2>4
    <2>8. /\ check'.used \in 0..Len(proof) /\ check'.index = at[check'.used]
          /\ check'.computed = levels[check'.used + 1][at[check'.used] + 1]
      BY <2>1, <2>4, <2>6, <2>7
    <2>9. ToolPath(at)'
      BY <2>1, <2>3, <2>8 DEF ToolPath
    <2> QED
      BY <2>1, <2>2, <2>9 DEF IsBuilt, Level
  <1>5. CASE VerifyRoot
    <2>1. /\ answer = "checking" /\ UNCHANGED <<electorate, path, request, check>>
          /\ answer' # "checking"
      BY <1>5 DEF VerifyRoot, Verdict
    <2>2. PICK at : ToolPath(at)
      BY <2>1 DEF PathInv
    <2>3. ToolPath(at)'
      BY <2>1, <2>2 DEF ToolPath
    <2> QED
      BY <2>1, <2>3 DEF PathInv, IsBuilt, Level
  <1>6. ASSUME UNCHANGED <<path, request, check, answer>>
        PROVE  IsBuilt("proof")' /\ (\E at : ToolPath(at))'
    <2>1. IsBuilt("proof")
      BY <1>6 DEF PathInv
    <2>2. PICK at : ToolPath(at)
      BY <1>6 DEF PathInv
    <2>3. electorate'["proof"] = electorate["proof"]
      BY <2>1, BuiltStays DEF Commands
    <2>4. ToolPath(at)'
      BY <1>6, <2>2, <2>3 DEF ToolPath
    <2> QED
      BY <2>1, <2>3, <2>4 DEF IsBuilt, Level
  <1>7. ~Improvise
    BY DEF Improvise
  <1>8. ASSUME NEW cmd \in Commands, ParseVoterList(cmd) \/ NextLevel(cmd)
        PROVE  UNCHANGED <<path, request, check, answer>>
    BY <1>8 DEF ParseVoterList, NextLevel
  <1> QED
    BY <1>1, <1>2, <1>3, <1>4, <1>5, <1>6, <1>7, <1>8 DEF Next, vars

\* At the end of a path over the same voters is the published root, at the height
\* of the published tree.
LEMMA PathEndsAtRoot ==
  ASSUME OneCollation, TreesInv, SameVoters, IsBuilt("build"), IsBuilt("proof"),
         NEW at, ToolPath(at), Len(request.merkle_proof) + 1 = Len(electorate["proof"].levels)
  PROVE  LET proof == request.merkle_proof
         IN /\ Len(proof) = Len(electorate["build"].levels) - 1
            /\ electorate["proof"].levels[Len(proof) + 1][at[Len(proof)] + 1] =
                 MerkleRoot("build")
  <1> DEFINE levels == electorate["proof"].levels
             proof == request.merkle_proof
  <1>1. electorate["build"].list = electorate["proof"].list
    BY BuiltTree, SameVotersSameList DEF SameVoters, VotersOf, Commands
  <1>2. /\ Len(electorate["build"].levels) = Len(levels)
        /\ MerkleRoot("build") = MerkleRoot("proof")
    BY <1>1, SameListSameTree
  <1>3. IsPath(levels, proof, at) /\ Len(Last(levels)) = 1
    BY DEF ToolPath, IsBuilt, Level
  <1>4. levels[Len(proof) + 1][at[Len(proof)] + 1] = Last(levels)[1]
    <2> HIDE DEF levels, proof
    <2>1. Len(proof) + 1 = Len(levels)
      BY DEF levels, proof
    <2> QED
      BY <1>3, <2>1, PathEnds
  <1>5. Last(levels)[1] = MerkleRoot("build")
    BY <1>2 DEF MerkleRoot, Level
  <1>6. Len(proof) \in Nat
    BY <1>3 DEF IsPath, IsSeq
  <1> QED
    BY <1>2, <1>4, <1>5, <1>6

LEMMA CanProveStep ==
  ASSUME OneCollation, ToolInv, [Next]_vars, PathInv'
  PROVE  MembersCanProve'
  <1> USE DEF ToolInv
  <1> DEFINE Fits == Len(electorate["build"].levels) - 1 <= MAX_MERKLE_PROOF_LEN
             Fine == {"none", "checking", "eligible"}
  <1>1. CASE CommitVote
    <2>1. /\ IsBuilt("build") /\ UNCHANGED <<electorate, path, request>>
      BY <1>1 DEF CommitVote
    <2>2. SameVoters' = SameVoters /\ Fits' = Fits
      BY <2>1 DEF SameVoters, VotersOf
    <2> SUFFICES ASSUME request.by = "tool", SameVoters, Fits
                 PROVE  answer' \in Fine
      BY <2>1, <2>2 DEF MembersCanProve
    <2>3. IsBuilt("proof")
      BY DEF PathInv
    <2>4. PICK at : ToolPath(at)'
      BY <2>1 DEF PathInv
    <2>5. answer' # "none"
      BY <1>1 DEF CommitVote, Verdict
    <2>6. PICK old : ToolPath(old)
      BY DEF PathInv
    <2>7. /\ Len(request.merkle_proof) + 1 = Len(electorate["proof"].levels)
          /\ IsSeq(request.merkle_proof)
      BY <2>1, <2>4, <2>5 DEF ToolPath, IsPath
    <2>8. /\ Len(request.merkle_proof) = Len(electorate["build"].levels) - 1
          /\ electorate["proof"].levels[Len(request.merkle_proof) + 1]
               [old[Len(request.merkle_proof)] + 1] = MerkleRoot("build")
      BY <2>1, <2>3, <2>6, <2>7, PathEndsAtRoot
    <2>9. ~(Len(request.merkle_proof) > MAX_MERKLE_PROOF_LEN)
      BY <2>7, <2>8, MerkleAssumption DEF IsSeq
    <2>10. request.merkle_proof = <<>> => Leaf(request.voter) = MerkleRoot("build")
      <3> SUFFICES ASSUME request.merkle_proof = <<>>
                   PROVE  Leaf(request.voter) = MerkleRoot("build")
        OBVIOUS
      <3>1. Len(request.merkle_proof) = 0
        OBVIOUS
      <3>2. Leaf(request.voter) = electorate["proof"].levels[1][old[0] + 1]
        BY <2>6 DEF ToolPath
      <3>3. 0 + 1 = 1
        OBVIOUS
      <3> QED
        BY <2>8, <3>1, <3>2, <3>3
    <2>11. Verdict(TRUE) \in Fine
      BY DEF Verdict
    <2> QED
      BY <1>1, <2>9, <2>10, <2>11 DEF CommitVote, EmptyProofAdmits, Verdict
  <1>2. CASE VerifyRoot
    <2>1. /\ answer = "checking" /\ check.used = Len(request.merkle_proof)
          /\ answer' = Verdict(check.computed = MerkleRoot("build"))
          /\ UNCHANGED <<electorate, path, request, check>>
      BY <1>2 DEF VerifyRoot
    <2>2. SameVoters' = SameVoters /\ Fits' = Fits /\ IsBuilt("build")
      BY <2>1 DEF SameVoters, VotersOf, RequestInv
    <2> SUFFICES ASSUME request.by = "tool", SameVoters, Fits
                 PROVE  answer' \in Fine
      BY <2>1, <2>2 DEF MembersCanProve
    <2>3. IsBuilt("proof")
      BY DEF PathInv
    <2>4. PICK at : ToolPath(at)
      BY DEF PathInv
    <2>5. /\ Len(request.merkle_proof) + 1 = Len(electorate["proof"].levels)
          /\ check.computed = electorate["proof"].levels[check.used + 1][at[check.used] + 1]
      BY <2>1, <2>4 DEF ToolPath
    <2>6. check.computed = MerkleRoot("build")
      BY <2>1, <2>2, <2>3, <2>4, <2>5, PathEndsAtRoot
    <2> QED
      BY <2>1, <2>6 DEF Verdict
  <1>3. ASSUME UNCHANGED answer
        PROVE  MembersCanProve'
    <2> SUFFICES ASSUME request'.by = "tool", SameVoters', Fits', answer # "none"
                 PROVE  answer \in Fine
      BY <1>3 DEF MembersCanProve
    <2>1. IsBuilt("build") /\ request # NoRequest
      BY DEF RequestInv, NoRequest
    <2>2. request'.by = request.by
      <3>1. ~FindVoter /\ ~Improvise
        BY <2>1 DEF FindVoter, Improvise
      <3>2. CASE NextSibling
        <4>1. request' = [request EXCEPT !.merkle_proof = request'.merkle_proof]
          BY <3>2, <2>1 DEF NextSibling, RequestInv
        <4> QED
          BY <2>1, <4>1 DEF RequestInv
      <3>3. ASSUME ~NextSibling
            PROVE  UNCHANGED request
        BY <3>1, <3>3 DEF Next, vars, ParseVoterList, NextLevel, CommitVote, VerifySibling, VerifyRoot
      <3> QED
        BY <3>2, <3>3
    <2>3. IsBuilt("proof")
      BY <2>2 DEF PathInv
    <2>4. electorate'["build"] = electorate["build"] /\ electorate'["proof"] = electorate["proof"]
      BY <2>1, <2>3, BuiltStays DEF Commands
    <2>5. SameVoters /\ Fits
      BY <2>4 DEF SameVoters, VotersOf
    <2> QED
      BY <2>2, <2>5 DEF MembersCanProve
  <1>4. ASSUME ~CommitVote, ~VerifyRoot
        PROVE  UNCHANGED answer
    BY <1>4 DEF Next, vars, ParseVoterList, NextLevel, FindVoter, NextSibling, Improvise, VerifySibling
  <1> QED
    BY <1>1, <1>2, <1>3, <1>4

\* merkleProofForVoter, commit_vote: with one collation the tool's proof of a voter
\* of the list passes, for lists of every size and files in every order.
THEOREM MembersPass ==
  ASSUME OneCollation
  PROVE  Spec => []MembersCanProve
  <1>1. Init => ToolInv
    BY DEF Init, ToolInv, TreesInv, RequestInv, PathInv, MembersCanProve, NoElectorate, NoRequest,
           Agree, Commands
  <1>2. ToolInv /\ [Next]_vars => ToolInv'
    <2> SUFFICES ASSUME ToolInv, [Next]_vars
                 PROVE  ToolInv'
      OBVIOUS
    <2>1. TreesInv' /\ RequestInv'
      BY TreesStep, RequestStep DEF ToolInv
    <2>2. PathInv'
      BY PathStep
    <2>3. MembersCanProve'
      BY <2>2, CanProveStep
    <2> QED
      BY <2>1, <2>2, <2>3 DEF ToolInv
  <1>3. ToolInv => MembersCanProve
    BY DEF ToolInv
  <1> QED
    BY <1>1, <1>2, <1>3, PTL DEF Spec
==============================================================================
