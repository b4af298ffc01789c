--------------------------- MODULE MCDurableStore ---------------------------
(* TLC instance of DurableStore: each action presents its own authorization. *)
EXTENDS DurableStore

CONSTANTS a1, a2, x1, x2

MCAuthOf == [a \in Action |-> IF a = a1 THEN x1 ELSE x2]
=============================================================================
