------------------------------- MODULE MCRunner -------------------------------
(* Two slots, two requests, a package of two chunks.                          *)
EXTENDS Runner

const_Events == {"lose", "expire", "fail", "crash"}
=============================================================================
