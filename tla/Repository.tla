----------------------------- MODULE Repository -----------------------------
(***************************************************************************)
(* What the signer promises of the repository, whatever is going on inside *)
(* it: clients are served one stored release, one more is held ready to    *)
(* fall back to, and nothing that is served or held ready is thrown away.  *)
(* Publication and Signer implement this specification, the first with a   *)
(* release as one item, the second with its files and links.               *)
(***************************************************************************)
EXTENDS Naturals

CONSTANT Releases  \* releases there may ever be, numbered from 1

VARIABLES
  kept,     \* stored releases
  served,   \* the one clients are served, or 0
  fallback  \* the one a rollback returns to, or 0

vars == <<kept, served, fallback>>

None == 0

Init == kept = {} /\ served = None /\ fallback = None

\* Releases may be thrown away, but neither the served one nor the fallback.
Discard ==
  /\ kept' \subseteq kept
  /\ kept \cap {served', fallback'} \subseteq kept'

\* A release is stored.
Store(r) == kept' = kept \cup {r} /\ UNCHANGED <<served, fallback>>

\* A stored release is served; the one served before becomes the fallback.
Serve(r) ==
  /\ r \in kept
  /\ served' = r
  /\ fallback' = IF served \in {None, r} THEN fallback ELSE served
  /\ Discard

\* The release that is served, or is about to be the first one, becomes the
\* fallback ahead of a change.
SetAside(r) ==
  /\ r \in kept
  /\ served \in {None, r}
  /\ fallback' = r
  /\ UNCHANGED <<kept, served>>

CleanUp == Discard /\ UNCHANGED <<served, fallback>>

Next ==
  \/ \E r \in Releases : Store(r) \/ Serve(r) \/ SetAside(r)
  \/ CleanUp

Spec == Init /\ [][Next]_vars

\* What is served and what is held ready are stored.
Linked == {served, fallback} \subseteq kept \cup {None}
=============================================================================
