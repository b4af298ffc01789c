------------------------------ MODULE Ordering ------------------------------
(* Finite sets in order and selections from sequences, for where the code     *)
(* sorts or filters. Each is stated by counting what comes before an element, *)
(* not by recursion over a sequence, so that it can be reasoned about for     *)
(* every input: see IntakeProofs.                                             *)
EXTENDS Integers, FiniteSets

(* The elements of S, each where as many come before it as there are earlier  *)
(* places; "before" is a set of pairs.                                        *)
InOrder(S, before) ==
    [n \in 1 .. Cardinality(S) |->
        CHOOSE x \in S : Cardinality({y \in S : <<y, x>> \in before}) = n - 1]

(* Positions, ascending. *)
Ascending(I) == InOrder(I, {p \in I \X I : p[1] < p[2]})

(* What a sequence has at the positions in I, in its order. *)
Kept(s, I) == LET at == Ascending(I) IN [n \in DOMAIN at |-> s[at[n]]]
=============================================================================
