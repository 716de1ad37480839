---------------------------- MODULE Subsequences ----------------------------
(***************************************************************************)
(* The members of a set of numbers in order, and the elements a filter     *)
(* leaves of a sequence.  Sequences.SelectSeq does the latter by a         *)
(* recursion that nothing can be proved about; these definitions count.    *)
(***************************************************************************)
EXTENDS Naturals, Sequences, FiniteSets

\* The members of a finite set of numbers, smallest first.
Ascending(S) ==
    [k \in 1 .. Cardinality(S) |-> CHOOSE p \in S : Cardinality({q \in S : q < p}) = k - 1]

\* The elements of a sequence at some of its positions, in their order.
At(seq, positions) ==
    LET order == Ascending(positions)
    IN  [k \in DOMAIN order |-> seq[order[k]]]
=============================================================================
