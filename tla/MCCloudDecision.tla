--------------------------- MODULE MCCloudDecision ---------------------------
(* TLC instances of CloudDecision: one run that is created and resolved,   *)
(* and two runs that are resolved by different containers.                 *)
EXTENDS CloudDecision, TLC

(* Containers are interchangeable; none of the properties checked with it  *)
(* is a liveness property.                                                 *)
Interchangeable == Permutations(Container)
=============================================================================
