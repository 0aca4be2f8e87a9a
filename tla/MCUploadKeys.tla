----------------------------- MODULE MCUploadKeys -----------------------------
(***************************************************************************)
(* A small instance of UploadKeys.                                         *)
(***************************************************************************)
EXTENDS UploadKeys, TLC

\* No tail, or a dot and up to two characters, and one with each end the pattern takes.
MCTails ==
    {<<>>, <<".">>} \cup {<<".", c>> : c \in Characters}
        \cup {<<".", c, d>> : c, d \in Characters}
        \cup {<<".", "x", "\\", "\n">>}

\* The videos are interchangeable.
VideoSymmetry == Permutations(Videos)
===============================================================================
