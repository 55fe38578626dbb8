-------------------------- MODULE MCRollingArchive --------------------------
(***************************************************************************)
(* Instance of RollingArchive for TLC: two files the plan deletes and one  *)
(* it keeps, two host processes that may run the deletion at a time.       *)
(***************************************************************************)
EXTENDS RollingArchive
=============================================================================
