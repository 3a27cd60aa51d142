------------------------------- MODULE Sorting -------------------------------
(* The elements of a finite set in a sequence, in the order of a strict total *)
(* order that is given by its pairs.                                          *)
EXTENDS Integers, FiniteSets

InOrder(S, less) ==
    CHOOSE s \in [1 .. Cardinality(S) -> S] :
        \A i, j \in 1 .. Cardinality(S) : i < j => <<s[i], s[j]>> \in less
==============================================================================
