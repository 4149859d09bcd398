--------------------------- MODULE RepositoryProofs ---------------------------
(***************************************************************************)
(* What the abstract repository guarantees its clients, for any number of  *)
(* releases: what is served is stored.                                     *)
(***************************************************************************)
EXTENDS Repository, TLAPS

\* The served release and the fallback are never thrown away, however stores,
\* switches, rollbacks and clean-ups follow one another.
THEOREM StaysLinked == Spec => []Linked
<1>1. Init => Linked
  BY DEF Init, Linked
<1>2. Linked /\ [Next]_vars => Linked'
  <2> SUFFICES ASSUME Linked, [Next]_vars PROVE Linked'
    OBVIOUS
  <2>1. ASSUME NEW r \in Releases, Store(r) PROVE Linked'
    BY <2>1 DEF Linked, Store
  <2>2. ASSUME NEW r \in Releases, Serve(r) PROVE Linked'
    <3>1. {served', fallback'} \subseteq kept \cup {None}
      BY <2>2 DEF Linked, Serve
    <3>2. QED
      BY <2>2, <3>1 DEF Linked, Serve, Discard
  <2>3. ASSUME NEW r \in Releases, SetAside(r) PROVE Linked'
    BY <2>3 DEF Linked, SetAside
  <2>4. CASE CleanUp
    BY <2>4 DEF Linked, CleanUp, Discard
  <2>5. CASE UNCHANGED vars
    BY <2>5 DEF Linked, vars
  <2>6. QED
    BY <2>1, <2>2, <2>3, <2>4, <2>5 DEF Next
<1>3. QED
  BY <1>1, <1>2, PTL DEF Spec
=============================================================================
