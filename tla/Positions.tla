----------------------------- MODULE Positions ------------------------------
(***************************************************************************)
(* Parts of a sequence: the elements at some of its positions, in order,   *)
(* as a pandas frame keeps them when rows or columns are selected.         *)
(***************************************************************************)
EXTENDS Integers, Sequences, FiniteSets

(* The numbers of a finite set, in increasing order. *)
InOrder(S) ==
    CHOOSE f \in [1..Cardinality(S) -> S] : \A i, j \in DOMAIN f : i < j => f[i] < f[j]

(* The elements of s at the positions in S. *)
Selected(s, S) == [i \in 1..Cardinality(S) |-> s[InOrder(S)[i]]]

=============================================================================
