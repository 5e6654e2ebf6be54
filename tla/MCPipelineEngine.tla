-------------------------- MODULE MCPipelineEngine --------------------------
(* Small instances of PipelineEngine for TLC.                               *)
EXTENDS PipelineEngine, TLC
CONSTANTS w1, w2, op
Symm == Permutations({w1, w2})
(* The points at which a kill loses something a claim or a won finish took, and *)
(* that is not one of two saves that belong together.                           *)
ClaimedPoints == ForwardPCs \cup UndoPCs \cup {"publish"}
=============================================================================
