------------------------ MODULE MCDurableStoreShared ------------------------
(* TLC instance of DurableStore in which every action presents the same    *)
(* authorization and several processes open the store.                     *)
EXTENDS DurableStore

CONSTANT x1

MCAuthOf == [a \in Action |-> x1]
=============================================================================
