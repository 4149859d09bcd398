------------------------------ MODULE MCBuilds ------------------------------
(* One build row and three concurrent handlers for TLC. *)
EXTENDS Builds
=============================================================================
