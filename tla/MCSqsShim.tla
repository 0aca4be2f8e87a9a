------------------------------- MODULE MCSqsShim -------------------------------
(***************************************************************************)
(* Small instances of SqsShim.                                             *)
(***************************************************************************)
EXTENDS SqsShim, TLC

CONSTANTS v1, v2

\* One video, two in one body, a stray before a video, nothing (s3:TestEvent), and
\* a body that does not parse.
MCBodies == {<<v1>>, <<v1, v2>>, <<Stray, v2>>, <<>>, <<Garbage>>}
===============================================================================
