---------------------------- MODULE MCStatusCursor ----------------------------
(* StatusCursor with the requests of MCFoundryJobs that move jobs and their  *)
(* artifacts, one of each kind.                                             *)
EXTENDS StatusCursor, MCFoundryJobs
=============================================================================
