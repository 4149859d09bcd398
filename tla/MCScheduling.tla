----------------------------- MODULE MCScheduling -----------------------------
(* Three packages for TLC: what 1 depends on moves from 2 to 3, which depends *)
(* on a library that 1 and 2 provide.                                         *)
EXTENDS Scheduling

const_Bases == {1, 2, 3}
const_Names == {"two", "three", "lib", "glibc"}
const_Requires == <<<<{"two", "glibc"}, {"three"}>>, <<{"two"}>>, <<{"lib"}>>>>
const_Own == <<{"lib"}, {"two", "lib"}, {"three"}>>
const_AurBase == [two |-> 2, three |-> 3, lib |-> 0, glibc |-> 0]
const_Official == {"glibc"}
const_Providers == [two |-> {}, three |-> {}, lib |-> {1, 2}, glibc |-> {}]
const_Subscribed == {1}
const_Ingested == {1, 2}
const_SameName == {{2, 3}}
const_Requests == {"h1"}
const_Events == {"subscribe", "unsubscribe", "select", "ingest", "reject", "fail", "crash"}

(* A single package, subscribed to, left and subscribed to again.             *)
one_Bases == {1}
one_Requires == <<<<{}>>>>
one_Own == <<{}>>
none == << >>
again_Events == {"subscribe", "unsubscribe"}

(* The same package, asked for by several requests.                           *)
two_Requests == {"h1", "h2"}
many_Events == {"rebuild", "crash"}
=============================================================================
