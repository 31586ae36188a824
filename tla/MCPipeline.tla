----------------------------- MODULE MCPipeline -----------------------------
(***************************************************************************)
(* TLC instances of Pipeline.  Handlers and slots are interchangeable.     *)
(***************************************************************************)
EXTENDS PipelineDelivery, TLC

Symmetry == Permutations(Handlers) \cup Permutations(Slots)

=============================================================================
