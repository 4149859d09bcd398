---------------------------- MODULE MCRevisions ----------------------------
(* Three versions: a first one, a push to AUR, and a push to the VCS source  *)
(* that leaves the tree as it is.                                           *)
EXTENDS Revisions

MCAur == <<1, 2, 2>>
MCVcs == <<1, 1, 2>>
MCTree == <<1, 2, 2>>
=============================================================================
