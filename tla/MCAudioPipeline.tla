-------------------------- MODULE MCAudioPipeline ---------------------------
(***************************************************************************)
(* Three elements in a chain of all of them, and one that leaves out the   *)
(* middle: what one chain keeps the other may pass over.                   *)
(***************************************************************************)
EXTENDS AudioPipelineProps

CONSTANTS a, b, c

MCEls == {a, b, c}
MCChains == {<<a, b, c>>, <<a, c>>}
=============================================================================
