---------------------------- MODULE MCVideoWorkflow ----------------------------
(***************************************************************************)
(* Small instances of VideoWorkflow.                                       *)
(***************************************************************************)
EXTENDS VideoWorkflow, TLC

\* The slots are interchangeable.
SlotSymmetry == Permutations(Slots)
===============================================================================
