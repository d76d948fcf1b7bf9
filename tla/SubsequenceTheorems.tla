------------------------ MODULE SubsequenceTheorems ------------------------
(***************************************************************************)
(* Facts about Subsequences that the proofs about streams of events need.  *)
(***************************************************************************)
EXTENDS Subsequences, SequencesExt, FiniteSetTheorems, SequenceTheorems, TLAPS

(* A set of numbers that is not empty has a least element.                 *)
LEMMA LeastNumber ==
    ASSUME NEW S \in SUBSET Nat, S # {}
    PROVE  \E m \in S : \A e \in S : m <= e
  <1> DEFINE R == OpToRel(<, Nat)
  <1>1. IsWellFoundedOn(R, Nat)
    BY NatLessThanWellFounded
  <1>2. PICK m \in S : \A e \in S : ~ (<<e, m>> \in R)
    <2> HIDE DEF R
    <2> QED
      BY <1>1, WFMin
  <1>3. \A e \in S : ~ (e < m)
    BY <1>2 DEF OpToRel
  <1> QED
    BY <1>3

(* Ranks count the elements of a finite set of numbers from below: no two  *)
(* elements have the same, and every number up to the cardinality is one.  *)
LEMMA RankProperties ==
    ASSUME NEW S \in SUBSET Nat, IsFiniteSet(S)
    PROVE  /\ Cardinality(S) \in Nat
           /\ \A e \in S : Rank(S, e) \in 1 .. Cardinality(S)
           /\ \A d, e \in S : d < e => Rank(S, d) < Rank(S, e)
           /\ \A i \in 1 .. Cardinality(S) : \E e \in S : Rank(S, e) = i
  <1>1. Cardinality(S) \in Nat
    BY FS_CardinalityType
  <1>2. \A e \in S : /\ UpTo(S, e) \in SUBSET S /\ IsFiniteSet(UpTo(S, e))
                     /\ Rank(S, e) \in Nat /\ Rank(S, e) <= Cardinality(S)
    BY FS_Subset, FS_CardinalityType DEF UpTo, Rank
  <1>3. \A e \in S : Rank(S, e) # 0
    <2> SUFFICES ASSUME NEW e \in S PROVE UpTo(S, e) # {} /\ IsFiniteSet(UpTo(S, e))
      BY FS_EmptySet DEF Rank
    <2> QED
      BY <1>2 DEF UpTo
  <1>4. \A e \in S : Rank(S, e) \in 1 .. Cardinality(S)
    BY <1>1, <1>2, <1>3
  <1>5. ASSUME NEW d \in S, NEW e \in S, d < e PROVE Rank(S, d) < Rank(S, e)
    <2> d \in Nat /\ e \in Nat
      OBVIOUS
    <2>1. e \in UpTo(S, e) /\ e \notin UpTo(S, d) /\ \A x \in S : x <= d => x <= e
      BY <1>5 DEF UpTo
    <2>2. UpTo(S, d) \in SUBSET UpTo(S, e) /\ UpTo(S, d) # UpTo(S, e)
      BY <2>1 DEF UpTo
    <2>3. Rank(S, d) <= Rank(S, e) /\ Rank(S, d) # Rank(S, e)
      BY <1>2, <2>2, FS_Subset DEF Rank
    <2> QED
      BY <1>2, <2>3
  <1>6. ASSUME NEW i \in 1 .. Cardinality(S) PROVE \E e \in S : Rank(S, e) = i
    <2> DEFINE f == [e \in S |-> Rank(S, e)]
    <2>1. f \in [S -> 1 .. Cardinality(S)]
      BY <1>4
    <2>2. \A d, e \in S : f[d] = f[e] => d = e
      BY <1>2, <1>5
    <2>3. f \in Injection(S, 1 .. Cardinality(S))
      <3> HIDE DEF f
      <3> QED
        BY <2>1, <2>2 DEF Injection, IsInjective
    <2>4. IsFiniteSet(1 .. Cardinality(S)) /\ Cardinality(1 .. Cardinality(S)) = Cardinality(S)
      BY <1>1, FS_Interval
    <2>5. f \in Surjection(S, 1 .. Cardinality(S))
      BY <2>3, <2>4, FS_Injection
    <2> QED
      BY <2>5 DEF Surjection
  <1> QED
    BY <1>1, <1>4, <1>5, <1>6

(* The increasing sequence of a finite set: its length, its elements, and  *)
(* the place of each.                                                      *)
LEMMA InOrderProperties ==
    ASSUME NEW S \in SUBSET Nat, IsFiniteSet(S)
    PROVE  /\ InOrder(S) \in Seq(S)
           /\ Len(InOrder(S)) = Cardinality(S) /\ Cardinality(S) \in Nat
           /\ \A i \in 1 .. Len(InOrder(S)) : InOrder(S)[i] \in S
           /\ \A i, j \in 1 .. Len(InOrder(S)) : i < j => InOrder(S)[i] < InOrder(S)[j]
           /\ \A e \in S : /\ Rank(S, e) \in 1 .. Len(InOrder(S))
                           /\ InOrder(S)[Rank(S, e)] = e
  <1> DEFINE n == Cardinality(S)
             s == InOrder(S)
             Below(d, e) == d < e => Rank(S, d) < Rank(S, e)
  <1>0. n \in Nat
    BY RankProperties
  <1>1. /\ \A i \in 1 .. n : \E e \in S : Rank(S, e) = i
        /\ \A e \in S : Rank(S, e) \in 1 .. n
        /\ \A d, e \in S : Below(d, e)
    BY RankProperties
  <1>2. s = [i \in 1 .. n |-> CHOOSE e \in S : Rank(S, e) = i]
    BY DEF InOrder
  <1> HIDE DEF n, s
  <1>3. \A i \in 1 .. n : s[i] \in S /\ Rank(S, s[i]) = i
    BY <1>1, <1>2
  <1>4. s \in [1 .. n -> S]
    BY <1>2, <1>3
  <1>5. s \in Seq(S) /\ Len(s) = n
    BY <1>0, <1>4
  <1>6. ASSUME NEW i \in 1 .. n, NEW j \in 1 .. n, i < j PROVE s[i] < s[j]
    <2>1. s[i] \in S /\ s[j] \in S /\ Rank(S, s[i]) = i /\ Rank(S, s[j]) = j
      BY <1>3
    <2>2. s[i] \in Nat /\ s[j] \in Nat
      BY <2>1
    <2>3. i # j /\ s[i] # s[j]
      BY <1>0, <1>6, <2>1
    <2>4. Below(s[j], s[i])
      BY <1>1, <2>1
    <2> QED
      BY <1>0, <1>6, <2>1, <2>2, <2>3, <2>4
  <1>7. ASSUME NEW e \in S PROVE Rank(S, e) \in 1 .. n /\ s[Rank(S, e)] = e
    <2> DEFINE d == s[Rank(S, e)]
    <2>1. Rank(S, e) \in 1 .. n
      BY <1>1
    <2>2. d \in S /\ Rank(S, d) = Rank(S, e)
      BY <1>3, <2>1
    <2>3. Below(d, e) /\ Below(e, d)
      BY <1>1, <2>2
    <2>4. d \in Nat /\ e \in Nat
      BY <2>2
    <2> QED
      BY <1>0, <2>1, <2>2, <2>3, <2>4
  <1> QED
    BY <1>0, <1>3, <1>5, <1>6, <1>7 DEF s, n

(* A finite set of numbers that is not empty has a greatest element.       *)
LEMMA GreatestNumber ==
    ASSUME NEW S \in SUBSET Nat, IsFiniteSet(S), S # {}
    PROVE  \E m \in S : \A e \in S : e <= m
  <1>1. Cardinality(S) \in Nat /\ Cardinality(S) # 0
    BY FS_EmptySet, FS_CardinalityType
  <1>2. PICK m \in S : Rank(S, m) = Cardinality(S)
    BY <1>1, RankProperties
  <1>3. ASSUME NEW e \in S PROVE e <= m
    <2>1. Rank(S, e) \in 1 .. Cardinality(S) /\ (m < e => Rank(S, m) < Rank(S, e))
      BY RankProperties
    <2>2. e \in Nat /\ m \in Nat
      OBVIOUS
    <2> QED
      BY <1>1, <1>2, <2>1, <2>2
  <1> QED
    BY <1>3

(* The newest n are n at most.                                             *)
LEMMA NewestProperties ==
    ASSUME NEW S \in SUBSET Nat, IsFiniteSet(S), NEW n \in Nat
    PROVE  /\ Newest(S, n) \in SUBSET S /\ IsFiniteSet(Newest(S, n))
           /\ Cardinality(Newest(S, n)) <= n
  <1> DEFINE T == Newest(S, n)
  <1>1. T \in SUBSET S /\ IsFiniteSet(T)
    BY FS_Subset DEF Newest
  <1>2. CASE T = {}
    BY <1>2, FS_EmptySet
  <1>3. CASE T # {}
    <2>1. PICK m \in T : \A e \in T : m <= e
      BY <1>1, <1>3, LeastNumber
    <2>2. /\ IsFiniteSet(After(S, m))
          /\ Cardinality(After(S, m)) \in Nat /\ Cardinality(After(S, m)) < n
      BY <1>1, FS_Subset, FS_CardinalityType DEF After, Newest
    <2>3. T \in SUBSET (After(S, m) \cup {m})
      <3> SUFFICES ASSUME NEW e \in T, e # m PROVE e \in After(S, m)
        OBVIOUS
      <3>1. e \in Nat /\ m \in Nat /\ m <= e
        BY <1>1, <2>1
      <3> QED
        BY <1>1, <3>1 DEF After
    <2> DEFINE U == After(S, m)
    <2> HIDE DEF T, U
    <2>4. IsFiniteSet(U \cup {m}) /\ Cardinality(U \cup {m}) <= Cardinality(U) + 1
      <3>1. IsFiniteSet(U) /\ Cardinality(U) \in Nat
        BY <2>2 DEF U
      <3>2. /\ IsFiniteSet(U \cup {m})
            /\ Cardinality(U \cup {m}) = IF m \in U THEN Cardinality(U) ELSE Cardinality(U) + 1
        BY <3>1, FS_AddElement
      <3> QED
        BY <3>1, <3>2
    <2>5. Cardinality(T) \in Nat /\ Cardinality(U \cup {m}) \in Nat
      BY <1>1, <2>4, FS_CardinalityType
    <2>6. Cardinality(T) <= Cardinality(U \cup {m})
      BY <2>3, <2>4, FS_Subset DEF U
    <2> QED
      BY <1>1, <2>2, <2>4, <2>5, <2>6 DEF T, U
  <1> QED
    BY <1>1, <1>2, <1>3

(* What is kept of a sequence are its elements that lie in the set, in the *)
(* order they had.                                                         *)
LEMMA KeepOnlyProperties ==
    ASSUME NEW A, NEW s \in Seq(A), NEW S
    PROVE  /\ KeepOnly(s, S) \in Seq(A)
           /\ \A k \in 1 .. Len(KeepOnly(s, S)) : KeepOnly(s, S)[k] \in S
           /\ \A k \in 1 .. Len(KeepOnly(s, S)) :
                 \E i \in 1 .. Len(s) : KeepOnly(s, S)[k] = s[i]
           /\ \A i \in 1 .. Len(s) :
                 s[i] \in S => \E k \in 1 .. Len(KeepOnly(s, S)) : KeepOnly(s, S)[k] = s[i]
           /\ \A k, l \in 1 .. Len(KeepOnly(s, S)) :
                 k < l => \E i, j \in 1 .. Len(s) :
                            i < j /\ KeepOnly(s, S)[k] = s[i] /\ KeepOnly(s, S)[l] = s[j]
  <1> DEFINE P  == Positions(s, S)
             at == InOrder(P)
             t  == KeepOnly(s, S)
  <1>1. P \in SUBSET (1 .. Len(s)) /\ \A i \in 1 .. Len(s) : i \in P <=> s[i] \in S
    BY DEF Positions
  <1> HIDE DEF P
  <1>2. P \in SUBSET Nat /\ IsFiniteSet(P)
    <2>1. Len(s) \in Nat /\ IsFiniteSet(1 .. Len(s))
      BY FS_Interval
    <2>2. IsFiniteSet(P)
      BY <1>1, <2>1, FS_Subset
    <2> QED
      BY <1>1, <2>1, <2>2
  <1>3. t = [k \in 1 .. Len(at) |-> s[at[k]]]
    BY DEF KeepOnly, P
  <1>4. /\ Len(at) \in Nat
        /\ \A k \in 1 .. Len(at) : at[k] \in P
        /\ \A k, l \in 1 .. Len(at) : k < l => at[k] < at[l]
        /\ \A i \in P : \E k \in 1 .. Len(at) : at[k] = i
    BY <1>2, InOrderProperties
  <1> HIDE DEF at, t
  <1>5. \A k \in 1 .. Len(at) : at[k] \in 1 .. Len(s) /\ s[at[k]] \in A /\ s[at[k]] \in S
    <2>1. \A i \in 1 .. Len(s) : s[i] \in A
      OBVIOUS
    <2> QED
      BY <1>1, <1>4, <2>1
  <1>6. t \in Seq(A) /\ Len(t) = Len(at)
    BY <1>3, <1>4, <1>5
  <1>7. \A i \in 1 .. Len(s) : s[i] \in S => \E k \in 1 .. Len(t) : t[k] = s[i]
    BY <1>1, <1>3, <1>4, <1>6
  <1>8. \A k, l \in 1 .. Len(t) :
          k < l => \E i, j \in 1 .. Len(s) : i < j /\ t[k] = s[i] /\ t[l] = s[j]
    BY <1>3, <1>4, <1>5, <1>6
  <1>9. \A k \in 1 .. Len(t) : t[k] \in S /\ \E i \in 1 .. Len(s) : t[k] = s[i]
    BY <1>3, <1>5, <1>6
  <1> QED
    BY <1>6, <1>7, <1>8, <1>9 DEF t

-----------------------------------------------------------------------------
(* The elements of a queue as it grows and shrinks.                        *)
LEMMA ElementsOfSeq ==
    ASSUME NEW A, NEW s \in Seq(A)
    PROVE  /\ ToSet(s) \in SUBSET A
           /\ \A x : x \in ToSet(s) <=> \E i \in 1 .. Len(s) : s[i] = x
           /\ s = <<>> <=> ToSet(s) = {}
           /\ ToSet(<<>>) = {}
  <1>1. DOMAIN s = 1 .. Len(s) /\ Len(s) \in Nat /\ \A i \in 1 .. Len(s) : s[i] \in A
    OBVIOUS
  <1>2. \A x : x \in ToSet(s) <=> \E i \in 1 .. Len(s) : s[i] = x
    BY <1>1 DEF ToSet
  <1>3. ToSet(<<>>) = {}
    BY DEF ToSet
  <1>4. s # <<>> => s[1] \in ToSet(s)
    <2>1. s # <<>> => 1 \in 1 .. Len(s)
      BY EmptySeq
    <2> QED
      BY <1>2, <2>1
  <1> QED
    BY <1>1, <1>2, <1>3, <1>4

LEMMA ElementsOfAppend ==
    ASSUME NEW A, NEW s \in Seq(A), NEW a \in A
    PROVE  Append(s, a) \in Seq(A) /\ ToSet(Append(s, a)) = ToSet(s) \cup {a}
  <1> DEFINE t == Append(s, a)
  <1>1. /\ t \in Seq(A) /\ Len(s) \in Nat /\ Len(t) = Len(s) + 1
        /\ \A i \in 1 .. Len(s) : t[i] = s[i]
        /\ t[Len(s) + 1] = a
    BY AppendProperties
  <1> HIDE DEF t
  <1>2. \A x : x \in ToSet(t) <=> x \in ToSet(s) \/ x = a
    <2>1. /\ \A x : x \in ToSet(s) <=> \E i \in 1 .. Len(s) : s[i] = x
          /\ \A x : x \in ToSet(t) <=> \E i \in 1 .. Len(t) : t[i] = x
      BY <1>1, ElementsOfSeq
    <2>2. \A i \in 1 .. Len(t) : i \in 1 .. Len(s) \/ i = Len(s) + 1
      BY <1>1
    <2>3. Len(s) + 1 \in 1 .. Len(t) /\ \A i \in 1 .. Len(s) : i \in 1 .. Len(t)
      BY <1>1
    <2> QED
      BY <1>1, <2>1, <2>2, <2>3
  <1> QED
    BY <1>1, <1>2 DEF t

LEMMA ElementsOfTail ==
    ASSUME NEW A, NEW s \in Seq(A), s # <<>>
    PROVE  /\ Head(s) \in A /\ Tail(s) \in Seq(A)
           /\ ToSet(s) = ToSet(Tail(s)) \cup {Head(s)}
  <1> DEFINE t == Tail(s)
  <1>1. /\ Head(s) \in A /\ Head(s) = s[1] /\ t \in Seq(A)
        /\ Len(s) \in Nat \ {0} /\ Len(t) = Len(s) - 1
        /\ \A i \in 1 .. Len(t) : t[i] = s[i + 1]
    BY HeadTailProperties, EmptySeq
  <1> HIDE DEF t
  <1>2. \A x : x \in ToSet(s) <=> x \in ToSet(t) \/ x = Head(s)
    <2>1. /\ \A x : x \in ToSet(s) <=> \E i \in 1 .. Len(s) : s[i] = x
          /\ \A x : x \in ToSet(t) <=> \E i \in 1 .. Len(t) : t[i] = x
      BY <1>1, ElementsOfSeq
    <2>2. \A i \in 1 .. Len(s) : i = 1 \/ (i - 1 \in 1 .. Len(t) /\ t[i - 1] = s[i])
      BY <1>1
    <2>3. 1 \in 1 .. Len(s) /\ \A i \in 1 .. Len(t) : i + 1 \in 1 .. Len(s)
      BY <1>1
    <2> QED
      BY <1>1, <2>1, <2>2, <2>3
  <1> QED
    BY <1>1, <1>2 DEF t

LEMMA TailOfOne ==
    ASSUME NEW A, NEW s \in Seq(A), s # <<>>
    PROVE  Len(s) = 1 <=> Tail(s) = <<>>
  <1>1. Len(s) \in Nat \ {0} /\ Tail(s) \in Seq(A) /\ Len(Tail(s)) = Len(s) - 1
    BY HeadTailProperties, EmptySeq
  <1>2. Len(Tail(s)) = 0 <=> Tail(s) = <<>>
    BY <1>1, EmptySeq
  <1> QED
    BY <1>1, <1>2

LEMMA ElementsOfReverse ==
    ASSUME NEW A, NEW s \in Seq(A)
    PROVE  /\ Reverse(s) \in Seq(A) /\ Len(Reverse(s)) = Len(s)
           /\ \A i \in 1 .. Len(s) : Reverse(s)[i] = s[Len(s) - i + 1]
           /\ Reverse(Reverse(s)) = s
  BY DEF Reverse

-----------------------------------------------------------------------------
(* Increasing sequences, as they are taken apart and put together.         *)
LEMMA ElementsOfKept ==
    ASSUME NEW A, NEW s \in Seq(A), NEW S
    PROVE  KeepOnly(s, S) \in Seq(A) /\ ToSet(KeepOnly(s, S)) = ToSet(s) \cap S
  <1> DEFINE t == KeepOnly(s, S)
  <1>1. /\ t \in Seq(A)
        /\ \A k \in 1 .. Len(t) : t[k] \in S /\ \E i \in 1 .. Len(s) : t[k] = s[i]
        /\ \A i \in 1 .. Len(s) : s[i] \in S => \E k \in 1 .. Len(t) : t[k] = s[i]
    BY KeepOnlyProperties
  <1> HIDE DEF t
  <1>2. \A x : x \in ToSet(s) <=> \E i \in 1 .. Len(s) : s[i] = x
    BY ElementsOfSeq
  <1>3. \A x : x \in ToSet(t) <=> \E k \in 1 .. Len(t) : t[k] = x
    BY <1>1, ElementsOfSeq
  <1>4. \A x : x \in ToSet(t) <=> x \in ToSet(s) /\ x \in S
    BY <1>1, <1>2, <1>3
  <1> QED
    BY <1>1, <1>4 DEF t

LEMMA IncreasingKept ==
    ASSUME NEW A, NEW s \in Seq(A), NEW S, Increasing(s)
    PROVE  Increasing(KeepOnly(s, S))
  <1>1. \A k, l \in 1 .. Len(KeepOnly(s, S)) :
           k < l => \E i, j \in 1 .. Len(s) :
                      i < j /\ KeepOnly(s, S)[k] = s[i] /\ KeepOnly(s, S)[l] = s[j]
    BY KeepOnlyProperties
  <1> QED
    BY <1>1 DEF Increasing

LEMMA DecreasingKept ==
    ASSUME NEW A, NEW s \in Seq(A), NEW S, \A i, j \in 1 .. Len(s) : i < j => s[j] < s[i]
    PROVE  \A k, l \in 1 .. Len(KeepOnly(s, S)) : k < l => KeepOnly(s, S)[l] < KeepOnly(s, S)[k]
  <1>1. \A k, l \in 1 .. Len(KeepOnly(s, S)) :
           k < l => \E i, j \in 1 .. Len(s) :
                      i < j /\ KeepOnly(s, S)[k] = s[i] /\ KeepOnly(s, S)[l] = s[j]
    BY KeepOnlyProperties
  <1> QED
    BY <1>1

LEMMA IncreasingTail ==
    ASSUME NEW s \in Seq(Nat), s # <<>>, Increasing(s)
    PROVE  /\ Increasing(Tail(s)) /\ Head(s) = s[1]
           /\ \A x \in ToSet(Tail(s)) : Head(s) < x
           /\ \A x \in ToSet(s) : Head(s) <= x
  <1> DEFINE t == Tail(s)
  <1>1. /\ Head(s) = s[1] /\ s[1] \in Nat /\ Len(s) \in Nat \ {0} /\ Len(t) = Len(s) - 1
        /\ \A i \in 1 .. Len(t) : t[i] = s[i + 1]
        /\ t \in Seq(Nat)
    BY HeadTailProperties, EmptySeq
  <1> HIDE DEF t
  <1>2. \A x : x \in ToSet(t) <=> \E i \in 1 .. Len(t) : t[i] = x
    BY <1>1, ElementsOfSeq
  <1>3. \A i \in 1 .. Len(t) : i + 1 \in 1 .. Len(s) /\ 1 < i + 1 /\ 1 \in 1 .. Len(s)
    BY <1>1
  <1>4. Increasing(t)
    <2>1. \A i, j \in 1 .. Len(t) : i < j => i + 1 < j + 1
      BY <1>1
    <2> QED
      BY <1>1, <1>3, <2>1 DEF Increasing
  <1>5. \A x \in ToSet(t) : s[1] < x
    <2>1. \A i \in 1 .. Len(t) : s[1] < s[i + 1]
      BY <1>3 DEF Increasing
    <2> QED
      BY <1>1, <1>2, <2>1
  <1>6. \A x \in ToSet(s) : s[1] <= x
    <2>1. ToSet(s) = ToSet(t) \cup {s[1]} /\ ToSet(t) \in SUBSET Nat
      BY <1>1, ElementsOfTail, ElementsOfSeq DEF t
    <2> QED
      BY <1>1, <1>5, <2>1
  <1> QED
    BY <1>1, <1>4, <1>5, <1>6 DEF t

LEMMA IncreasingAppend ==
    ASSUME NEW s \in Seq(Nat), NEW a \in Nat, Increasing(s), \A x \in ToSet(s) : x < a
    PROVE  Increasing(Append(s, a))
  <1> DEFINE t == Append(s, a)
  <1>1. /\ Len(s) \in Nat /\ Len(t) = Len(s) + 1 /\ t[Len(s) + 1] = a
        /\ \A i \in 1 .. Len(s) : t[i] = s[i]
    BY AppendProperties
  <1>2. \A i \in 1 .. Len(s) : s[i] \in ToSet(s)
    BY ElementsOfSeq
  <1> HIDE DEF t
  <1>3. ASSUME NEW i \in 1 .. Len(t), NEW j \in 1 .. Len(t), i < j PROVE t[i] < t[j]
    <2>1. i \in 1 .. Len(s)
      BY <1>1, <1>3
    <2>2. CASE j \in 1 .. Len(s)
      BY <1>1, <1>3, <2>1, <2>2 DEF Increasing
    <2>3. CASE j = Len(s) + 1
      BY <1>1, <1>2, <2>1, <2>3
    <2> QED
      BY <1>1, <2>2, <2>3
  <1> QED
    BY <1>3 DEF Increasing, t

LEMMA IncreasingConcat ==
    ASSUME NEW s \in Seq(Nat), NEW t \in Seq(Nat), Increasing(s), Increasing(t),
           \A x \in ToSet(s) : \A y \in ToSet(t) : x < y
    PROVE  Increasing(s \o t) /\ ToSet(s \o t) = ToSet(s) \cup ToSet(t)
  <1> DEFINE u == s \o t
  <1>1. /\ u \in Seq(Nat) /\ Len(s) \in Nat /\ Len(t) \in Nat /\ Len(u) = Len(s) + Len(t)
        /\ \A i \in 1 .. Len(u) : u[i] = IF i <= Len(s) THEN s[i] ELSE t[i - Len(s)]
    BY ConcatProperties
  <1>2. /\ \A x : x \in ToSet(s) <=> \E i \in 1 .. Len(s) : s[i] = x
        /\ \A x : x \in ToSet(t) <=> \E i \in 1 .. Len(t) : t[i] = x
    BY ElementsOfSeq
  <1>3. \A x : x \in ToSet(u) <=> \E i \in 1 .. Len(u) : u[i] = x
    BY <1>1, ElementsOfSeq
  <1> HIDE DEF u
  <1>4. /\ \A i \in 1 .. Len(u) : \/ i \in 1 .. Len(s) /\ u[i] = s[i]
                                  \/ i - Len(s) \in 1 .. Len(t) /\ u[i] = t[i - Len(s)] /\ i > Len(s)
        /\ \A i \in 1 .. Len(s) : i \in 1 .. Len(u) /\ u[i] = s[i]
    BY <1>1
  <1>5. \A i \in 1 .. Len(t) : i + Len(s) \in 1 .. Len(u) /\ u[i + Len(s)] = t[i]
    <2> TAKE i \in 1 .. Len(t)
    <2>1. i + Len(s) \in 1 .. Len(u) /\ ~(i + Len(s) <= Len(s)) /\ (i + Len(s)) - Len(s) = i
      BY <1>1
    <2> QED
      BY <1>1, <2>1
  <1>6. \A x : x \in ToSet(u) <=> x \in ToSet(s) \/ x \in ToSet(t)
    BY <1>2, <1>3, <1>4, <1>5
  <1>7. ASSUME NEW i \in 1 .. Len(u), NEW j \in 1 .. Len(u), i < j PROVE u[i] < u[j]
    <2>1. CASE j \in 1 .. Len(s)
      <3>1. i \in 1 .. Len(s)
        BY <1>1, <1>7, <2>1
      <3> QED
        BY <1>4, <1>7, <2>1, <3>1 DEF Increasing
    <2>2. CASE i \in 1 .. Len(s) /\ j \notin 1 .. Len(s)
      BY <1>2, <1>4, <2>2
    <2>3. CASE i \notin 1 .. Len(s) /\ j \notin 1 .. Len(s)
      <3>1. i - Len(s) < j - Len(s)
        BY <1>1, <1>7
      <3> QED
        BY <1>4, <2>3, <3>1 DEF Increasing
    <2> QED
      BY <2>1, <2>2, <2>3
  <1> QED
    BY <1>6, <1>7 DEF Increasing, u
=============================================================================
