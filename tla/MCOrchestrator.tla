--------------------------- MODULE MCOrchestrator ---------------------------
(* TLC instances of Orchestrator: a package whose loudness, captions and   *)
(* manifest may be remedied.                                               *)
EXTENDS Orchestrator

ToolFor ==
    [filename |-> Rename, captions |-> Convert, loudness |-> Normalize,
     manifest |-> Manifest, checksums |-> "none", report |-> "none"]

MCTool == [q \in Req |-> ToolFor[q]]
=============================================================================
