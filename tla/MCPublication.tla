--------------------------- MODULE MCPublication ---------------------------
(* Three plans over two package files: the first two overlap, the third is empty. *)
EXTENDS Publication

CONSTANTS a, b

MCContent == <<{a}, {a, b}, {}>>
=============================================================================
