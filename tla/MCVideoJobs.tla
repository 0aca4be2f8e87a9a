------------------------------ MODULE MCVideoJobs ------------------------------
(***************************************************************************)
(* Small instances of VideoJobs.                                           *)
(***************************************************************************)
EXTENDS VideoJobs, TLC

\* The slots are interchangeable.
SlotSymmetry == Permutations(Slots)
===============================================================================
