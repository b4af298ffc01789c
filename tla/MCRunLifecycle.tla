--------------------------- MODULE MCRunLifecycle ---------------------------
(* TLC instance of RunLifecycle: two runs whose payloads may be offered to *)
(* each other, one option per tier, one decision identifier.              *)
EXTENDS RunLifecycle

CONSTANTS tier1, tier2

MCTier == [o \in Option |-> IF o = tier1 THEN 1 ELSE 2]
=============================================================================
