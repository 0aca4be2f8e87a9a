------------------------------ MODULE MCApiServer ------------------------------
(***************************************************************************)
(* Small instances of ApiServer.                                           *)
(***************************************************************************)
EXTENDS ApiServer

MCJobTypes == {"metadata", "thumbnail", "transcode"}
===============================================================================
