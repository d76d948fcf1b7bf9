---------------------------- MODULE Subsequences ----------------------------
(***************************************************************************)
(* A finite set of numbers as an increasing sequence, and the part of a    *)
(* sequence whose elements lie in a set.  Both are written with            *)
(* cardinalities and not with SelectSeq or SetToSortSeq, whose operator    *)
(* arguments the provers cannot instantiate.                               *)
(***************************************************************************)
EXTENDS Naturals, Sequences, FiniteSets

UpTo(S, e)    == {d \in S : d <= e}
After(S, e)   == {d \in S : d > e}

Increasing(s) == \A i, j \in 1 .. Len(s) : i < j => s[i] < s[j]

(* The rank of an element is the number of elements up to it.              *)
Rank(S, e) == Cardinality(UpTo(S, e))

InOrder(S) == [i \in 1 .. Cardinality(S) |-> CHOOSE e \in S : Rank(S, e) = i]

(* The newest n: those with fewer than n elements after them.              *)
Newest(S, n) == {e \in S : Cardinality(After(S, e)) < n}

(* The elements of s that lie in S, in their order in s.                   *)
Positions(s, S) == {i \in 1 .. Len(s) : s[i] \in S}
KeepOnly(s, S) ==
    LET at == InOrder(Positions(s, S)) IN [k \in 1 .. Len(at) |-> s[at[k]]]
=============================================================================
