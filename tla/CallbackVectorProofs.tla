------------------------ MODULE CallbackVectorProofs ------------------------
(* What erasing elements from a callback vector preserves.                    *)
EXTENDS CallbackVectors, SequenceTheorems, FiniteSetTheorems,
        WellFoundedInduction, TLAPS

UpTo(keep, i) == {k \in keep : k <= i}

(* A non-empty set of natural numbers has a least element.                    *)
LEMMA LeastExists ==
  ASSUME NEW M \in SUBSET Nat, M # {}
  PROVE  \E i \in M : \A j \in M : i <= j
<1>1. PICK i \in M : \A y \in M : ~(<<y, i>> \in OpToRel(<, Nat))
  BY NatLessThanWellFounded, WFMin
<1>2. ASSUME NEW y \in M
      PROVE  i <= y
  <2>1. i \in Nat /\ y \in Nat
    BY <1>2
  <2>2. ~(y < i)
    BY <1>1, <2>1, <1>2 DEF OpToRel
  <2> QED BY <2>1, <2>2
<1> QED BY <1>2

(* How the positions up to m follow from those up to m - 1.                   *)
LEMMA UpToSteps ==
  ASSUME NEW keep, \A k \in keep : k \in Nat /\ 1 <= k
  PROVE  /\ UpTo(keep, 0) = {}
         /\ \A m \in Nat \ {0} :
              /\ m \in keep => UpTo(keep, m) = UpTo(keep, m - 1) \cup {m}
              /\ m \notin keep => UpTo(keep, m) = UpTo(keep, m - 1)
              /\ m \notin UpTo(keep, m - 1)
  BY DEF UpTo

(* In a finite set of positions, every rank has its position: the loops that  *)
(* erase callbacks shift the ones they keep without losing any.               *)
LEMMA RankExists ==
  ASSUME NEW n \in Nat, NEW keep \in SUBSET (1..n),
         NEW j \in 1..Cardinality(keep)
  PROVE  \E i \in keep : Cardinality(UpTo(keep, i)) = j
<1> DEFINE T == {m \in Nat : Cardinality(UpTo(keep, m)) >= j}
<1>0. \A k \in keep : k \in Nat /\ 1 <= k /\ k <= n
  OBVIOUS
<1>1. IsFiniteSet(keep) /\ Cardinality(keep) \in Nat
  <2>1. IsFiniteSet(1..n)
    BY FS_Interval
  <2>2. IsFiniteSet(keep)
    BY <2>1, FS_Subset
  <2> QED BY <2>2, FS_CardinalityType
<1>2. \A m \in Nat : /\ IsFiniteSet(UpTo(keep, m))
                     /\ Cardinality(UpTo(keep, m)) \in Nat
  <2> TAKE m \in Nat
  <2>1. UpTo(keep, m) \in SUBSET keep
    BY DEF UpTo
  <2> QED BY <1>1, <2>1, FS_Subset, FS_CardinalityType
<1>3. j \in Nat \ {0} /\ j <= Cardinality(keep)
  BY <1>1
<1>4. n \in T
  <2>1. UpTo(keep, n) = keep
    BY <1>0 DEF UpTo
  <2> QED BY <1>1, <1>3, <2>1
<1>5. PICK m \in T : \A y \in T : m <= y
  <2>1. T \in SUBSET Nat /\ T # {}
    BY <1>4
  <2> HIDE DEF T
  <2> QED BY <2>1, LeastExists
<1>6. m \in Nat /\ Cardinality(UpTo(keep, m)) >= j
  OBVIOUS
<1>7. m # 0
  <2> HIDE DEF T
  <2>1. UpTo(keep, 0) = {}
    BY <1>0, UpToSteps
  <2>2. Cardinality(UpTo(keep, 0)) = 0
    BY <2>1, FS_EmptySet
  <2> QED BY <2>2, <1>3, <1>6
<1>8. m - 1 \in Nat /\ m - 1 < m
  BY <1>6, <1>7
<1>9. Cardinality(UpTo(keep, m - 1)) < j
  <2>1. m - 1 \notin T
    <3> HIDE DEF T
    <3> QED BY <1>5, <1>6, <1>8
  <2> QED BY <2>1, <1>2, <1>3, <1>8
<1> HIDE DEF T
<1>10. CASE m \in keep
  <2>1. /\ UpTo(keep, m) = UpTo(keep, m - 1) \cup {m}
        /\ m \notin UpTo(keep, m - 1)
    BY <1>0, <1>6, <1>7, <1>10, UpToSteps
  <2>2. Cardinality(UpTo(keep, m)) = Cardinality(UpTo(keep, m - 1)) + 1
    BY <2>1, <1>2, <1>8, FS_AddElement
  <2>3. Cardinality(UpTo(keep, m)) = j
    BY <2>2, <1>2, <1>3, <1>6, <1>8, <1>9
  <2> QED BY <2>3, <1>10
<1>11. CASE m \notin keep
  <2>1. UpTo(keep, m) = UpTo(keep, m - 1)
    BY <1>0, <1>6, <1>7, <1>11, UpToSteps
  <2> QED BY <2>1, <1>2, <1>3, <1>6, <1>8, <1>9
<1> QED BY <1>10, <1>11

(* Keeping some positions of a vector gives a vector of the same elements.    *)
LEMMA KeepAtType ==
  ASSUME NEW S, NEW vec \in Seq(S), NEW keep \in SUBSET (1..Len(vec))
  PROVE  /\ KeepAt(vec, keep) \in Seq(S)
         /\ Len(KeepAt(vec, keep)) = Cardinality(keep)
<1> DEFINE at(j) == CHOOSE i \in keep : Cardinality({k \in keep : k <= i}) = j
           N == Cardinality(keep)
<1>1. Len(vec) \in Nat
  BY LenProperties
<1>2. N \in Nat
  <2>1. IsFiniteSet(1..Len(vec))
    BY <1>1, FS_Interval
  <2>2. IsFiniteSet(keep)
    BY <2>1, FS_Subset
  <2> QED BY <2>2, FS_CardinalityType
<1>3. \A j \in 1..N : vec[at(j)] \in S
  <2> TAKE j \in 1..N
  <2>1. \E i \in keep : Cardinality({k \in keep : k <= i}) = j
    BY <1>1, RankExists DEF UpTo
  <2>2. at(j) \in keep
    BY <2>1
  <2>3. at(j) \in 1..Len(vec)
    BY <2>2
  <2> HIDE DEF at
  <2> QED BY <2>3, ElementOfSeq
<1>4. KeepAt(vec, keep) = [j \in 1..N |-> vec[at(j)]]
  BY DEF KeepAt
<1> HIDE DEF at, N
<1>5. [j \in 1..N |-> vec[at(j)]] \in Seq(S)
  BY <1>2, <1>3, IsASeq
<1>6. Len([j \in 1..N |-> vec[at(j)]]) = N
  BY <1>2, <1>5, LenProperties
<1> QED BY <1>4, <1>5, <1>6 DEF N

(* Erasing the callbacks of an originator leaves a vector of callbacks; there *)
(* is nothing to erase in an empty one.                                       *)
LEMMA EraseAllOfType ==
  ASSUME NEW S, NEW vec \in Seq(S), NEW orig
  PROVE  /\ EraseAllOf(vec, orig) \in Seq(S)
         /\ vec = <<>> => EraseAllOf(vec, orig) = <<>>
<1>1. (1..Len(vec)) \ Erased(vec, orig) \in SUBSET (1..Len(vec))
  OBVIOUS
<1>2. EraseAllOf(vec, orig) \in Seq(S)
  BY <1>1, KeepAtType DEF EraseAllOf
<1>3. ASSUME vec = <<>>
      PROVE  EraseAllOf(vec, orig) = <<>>
  <2>1. (1..Len(vec)) \ Erased(vec, orig) = {}
    BY <1>3, EmptySeq
  <2>2. Len(EraseAllOf(vec, orig)) = 0
    BY <2>1, <1>1, KeepAtType, FS_EmptySet DEF EraseAllOf
  <2> QED BY <1>2, <2>2, EmptySeq
<1> QED BY <1>2, <1>3

(* Erasing the first match leaves a vector of callbacks, no longer one.       *)
LEMMA EraseFirstType ==
  ASSUME NEW S, NEW vec \in Seq(S), NEW cb, NEW orig
  PROVE  /\ EraseFirst(vec, cb, orig) \in Seq(S)
         /\ vec = <<>> => EraseFirst(vec, cb, orig) = <<>>
<1> DEFINE M == Matches(vec, cb, orig)
           first == CHOOSE i \in M : \A j \in M : i <= j
<1>1. Len(vec) \in Nat /\ M \subseteq 1..Len(vec)
  BY LenProperties DEF Matches
<1>2. CASE M = {}
  BY <1>2 DEF EraseFirst
<1>3. CASE M # {}
  <2>1. \E i \in M : \A j \in M : i <= j
    <3>1. M \in SUBSET Nat
      BY <1>1
    <3> HIDE DEF M
    <3> QED BY <3>1, <1>3, LeastExists
  <2>2. first \in 1..Len(vec)
    BY <2>1, <1>1
  <2>3. EraseFirst(vec, cb, orig) = EraseAt(vec, first)
    BY <1>3 DEF EraseFirst
  <2> HIDE DEF first
  <2>4. EraseAt(vec, first) \in Seq(S)
    <3>1. SubSeq(vec, 1, first - 1) \in Seq(S)
      BY <1>1, <2>2, SubSeqProperties
    <3>2. SubSeq(vec, first + 1, Len(vec)) \in Seq(S)
      BY <1>1, <2>2, SubSeqProperties
    <3> QED BY <3>1, <3>2, ConcatProperties DEF EraseAt
  <2>5. vec # <<>>
    BY <2>2, EmptySeq
  <2> QED BY <2>3, <2>4, <2>5
<1> QED BY <1>2, <1>3

(* A stack of operations after one was put on it, and without its innermost.  *)
LEMMA ConsFacts ==
  ASSUME NEW S, NEW s \in Seq(S), NEW f \in S
  PROVE  /\ <<f>> \o s \in Seq(S)
         /\ Len(<<f>> \o s) = Len(s) + 1
         /\ (<<f>> \o s)[1] = f
         /\ \A i \in 2..Len(s) + 1 : (<<f>> \o s)[i] = s[i - 1]
<1>1. <<f>> \in Seq(S) /\ Len(<<f>>) = 1 /\ <<f>>[1] = f
  OBVIOUS
<1> QED BY <1>1, ConcatProperties

LEMMA TailFacts ==
  ASSUME NEW S, NEW s \in Seq(S), s # <<>>
  PROVE  /\ Len(s) \in Nat \ {0} /\ Head(s) = s[1] /\ s[1] \in S
         /\ Tail(s) \in Seq(S) /\ Len(Tail(s)) = Len(s) - 1
         /\ \A i \in 1..Len(s) - 1 : Tail(s)[i] = s[i + 1]
  BY HeadTailProperties, EmptySeq
=============================================================================
