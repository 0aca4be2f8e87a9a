---------------------------- MODULE MCVideoPipeline ----------------------------
(***************************************************************************)
(* Small instances of VideoPipeline.                                       *)
(***************************************************************************)
EXTENDS VideoPipeline, TLC

\* Slots, messages and requests are interchangeable.
PipelineSymmetry == Permutations(Slots) \cup Permutations(Messages)
===============================================================================
