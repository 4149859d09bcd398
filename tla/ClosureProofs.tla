---------------------------- MODULE ClosureProofs ----------------------------
(***************************************************************************)
(* Proofs about the dependency closure of Scheduling, for any graph of     *)
(* packages: the search of compute_closure ends, and what it finds.        *)
(***************************************************************************)
EXTENDS Scheduling, FiniteSetTheorems, WellFoundedInduction, TLAPS

-----------------------------------------------------------------------------
(* Numbers, and sets of pkgbases in order.                                 *)

\* A set of numbers that is not empty has a least one.
LEMMA Minimum ==
  ASSUME NEW S \in SUBSET Nat, S # {}
  PROVE  \E i \in S : \A j \in S : i <= j
<1>1. PICK t \in S : \A y \in S : ~ (<<y, t>> \in OpToRel(<, Nat))
  BY NatLessThanWellFounded, WFMin
<1>2. \A y \in S : ~ (y < t)
  BY <1>1 DEF OpToRel
<1>3. QED
  BY <1>2

\* A set of numbers that is not empty has a greatest one if it has a bound.
LEMMA Maximum ==
  ASSUME NEW n \in Nat, NEW S \in SUBSET (0 .. n), S # {}
  PROVE  \E i \in S : \A j \in S : j <= i
<1>1. {n - i : i \in S} \in SUBSET Nat /\ {n - i : i \in S} # {}
  <2>1. \A i \in S : n - i \in Nat
    OBVIOUS
  <2>2. QED
    BY <2>1
<1>2. PICK x \in {n - i : i \in S} : \A y \in {n - i : i \in S} : x <= y
  BY <1>1, Minimum
<1>3. PICK i \in S : x = n - i
  BY <1>2
<1>4. ASSUME NEW j \in S PROVE j <= i
  <2>1. x <= n - j
    BY <1>2
  <2>2. QED
    BY <1>3, <2>1
<1>5. QED
  BY <1>4

\* One member more weighs more than the packages it brings to the queue.
LEMMA Outweighs ==
  ASSUME NEW n \in Nat, NEW X \in Nat, NEW Y \in Nat, NEW i \in Nat, NEW j \in Nat,
         X = Y + (n + 1), j < i + n
  PROVE  X + i \in Nat /\ Y + j \in Nat /\ Y + j < X + i
OBVIOUS

\* The pkgbases are finitely many numbers, from 1 on.
LEMMA BasesFinite ==
  /\ IsFiniteSet(Bases)
  /\ Cardinality(Bases) \in Nat
  /\ Bases = 1 .. Cardinality(Bases)
<1>1. Cardinality(Bases) \in Nat /\ Bases = 1 .. Cardinality(Bases)
  BY SchedulingAssumption
<1>2. IsFiniteSet(1 .. Cardinality(Bases))
  BY <1>1, FS_Interval
<1>3. QED
  BY <1>1, <1>2

\* So is each set of them.
LEMMA PartFinite ==
  ASSUME NEW S \in SUBSET Bases
  PROVE  /\ IsFiniteSet(S)
         /\ Cardinality(S) \in Nat
         /\ Cardinality(S) <= Cardinality(Bases)
BY BasesFinite, FS_Subset, FS_CardinalityType

\* s goes through the members of S once, from the least to the greatest.
Ascends(s, S) ==
  /\ s \in [1 .. Cardinality(S) -> S]
  /\ \A j, k \in DOMAIN s : j < k => s[j] < s[k]

\* Every set of pkgbases can be put in order: take the greatest last.
LEMMA OrderExists ==
  ASSUME NEW S \in SUBSET Bases
  PROVE  \E s : Ascends(s, S)
<1>. DEFINE Bad == {T \in SUBSET Bases : ~ \E s : Ascends(s, T)}
            Sizes == {Cardinality(T) : T \in Bad}
<1>1. SUFFICES ASSUME Bad # {} PROVE FALSE
  OBVIOUS
<1>2. Sizes \in SUBSET Nat /\ Sizes # {}
  BY <1>1, PartFinite
<1>3. PICK n \in Sizes : \A m \in Sizes : n <= m
  BY <1>2, Minimum
<1>4. PICK T \in Bad : Cardinality(T) = n
  BY <1>3
<1>5. n \in Nat /\ IsFiniteSet(T)
  BY <1>2, <1>4, PartFinite
<1>6. T # {}
  <2>1. SUFFICES ASSUME T = {} PROVE FALSE
    OBVIOUS
  <2>2. n = 0
    BY <1>4, <2>1, FS_EmptySet
  <2>3. [k \in 1 .. n |-> k] \in [1 .. n -> T]
    BY <2>2
  <2>4. Ascends([k \in 1 .. n |-> k], T)
    BY <1>4, <2>2, <2>3 DEF Ascends
  <2>5. QED
    BY <1>4, <2>4
<1>7. PICK b \in T : \A c \in T : c <= b
  <2>1. T \in SUBSET (0 .. Cardinality(Bases))
    BY BasesFinite
  <2>2. QED
    BY <1>6, <2>1, BasesFinite, Maximum
<1>. DEFINE U == T \ {b}
<1>8. Cardinality(U) = n - 1 /\ n - 1 \in Nat
  <2>1. Cardinality(U) = n - 1
    BY <1>4, <1>5, FS_RemoveElement
  <2>2. Cardinality(U) \in Nat
    BY PartFinite
  <2>3. QED
    BY <2>1, <2>2
<1>9. U \notin Bad
  <2>1. SUFFICES ASSUME U \in Bad PROVE FALSE
    OBVIOUS
  <2>2. n <= n - 1
    BY <1>3, <1>8, <2>1
  <2>3. QED
    BY <1>5, <2>2
<1>10. PICK s : Ascends(s, U)
  BY <1>9
<1>. DEFINE t == [k \in 1 .. n |-> IF k = n THEN b ELSE s[k]]
<1>11. s \in [1 .. n - 1 -> U] /\ \A j, k \in 1 .. n - 1 : j < k => s[j] < s[k]
  BY <1>8, <1>10 DEF Ascends
<1>12. \A k \in 1 .. n : k # n => k \in 1 .. n - 1
  BY <1>5
<1>13. t \in [1 .. n -> T]
  BY <1>11, <1>12
<1>14. ASSUME NEW j \in 1 .. n, NEW k \in 1 .. n, j < k PROVE t[j] < t[k]
  <2>1. j # n /\ j \in 1 .. n - 1
    BY <1>5, <1>14
  <2>2. t[j] = s[j] /\ s[j] \in U
    BY <1>11, <2>1
  <2>3. CASE k = n
    <3>1. t[k] = b
      BY <2>3
    <3>2. s[j] <= b /\ s[j] # b /\ s[j] \in Nat /\ b \in Nat
      BY <1>7, <2>2, BasesFinite
    <3>3. QED
      BY <2>2, <3>1, <3>2
  <2>4. CASE k # n
    <3>1. k \in 1 .. n - 1 /\ t[k] = s[k]
      BY <1>12, <2>4
    <3>2. s[j] < s[k]
      BY <1>11, <1>14, <2>1, <3>1
    <3>3. QED
      BY <2>2, <3>1, <3>2
  <2>5. QED
    BY <2>3, <2>4
<1>15. Ascends(t, T)
  BY <1>4, <1>13, <1>14 DEF Ascends
<1>16. QED
  BY <1>4, <1>15

\* InOrder returns the members of S, each once.
LEMMA OrderFacts ==
  ASSUME NEW S \in SUBSET Bases
  PROVE  /\ InOrder(S) \in Seq(Bases)
         /\ Len(InOrder(S)) = Cardinality(S)
         /\ {InOrder(S)[k] : k \in 1 .. Len(InOrder(S))} = S
<1>. DEFINE s == InOrder(S)
            n == Cardinality(S)
<1>1. IsFiniteSet(S) /\ n \in Nat
  BY PartFinite
<1>2. Ascends(s, S)
  <2>1. \E f \in [1 .. n -> S] : \A j, k \in DOMAIN f : j < k => f[j] < f[k]
    BY OrderExists DEF Ascends
  <2>2. QED
    BY <2>1 DEF InOrder, Ascends
<1>3. s \in [1 .. n -> S] /\ \A j, k \in 1 .. n : j < k => s[j] < s[k]
  BY <1>2 DEF Ascends
<1>. HIDE DEF s, n
<1>4. ASSUME NEW j \in 1 .. n, NEW k \in 1 .. n, s[j] = s[k] PROVE j = k
  <2>1. s[j] \in Nat /\ s[k] \in Nat
    BY <1>3, BasesFinite
  <2>2. ~ (s[j] < s[k]) /\ ~ (s[k] < s[j])
    BY <1>4, <2>1
  <2>3. ~ (j < k) /\ ~ (k < j)
    BY <1>3, <2>2
  <2>4. QED
    BY <1>1, <2>3
<1>5. s \in Injection(1 .. n, S)
  BY <1>3, <1>4 DEF Injection, IsInjective
<1>6. Cardinality(1 .. n) = n
  BY <1>1, FS_Interval
<1>7. s \in Surjection(1 .. n, S)
  BY <1>1, <1>5, <1>6, FS_Injection DEF n
<1>8. {s[k] : k \in 1 .. n} = S
  BY <1>3, <1>7 DEF Surjection
<1>9. s \in Seq(Bases) /\ Len(s) = n
  <2>1. s \in Seq(S)
    BY <1>1, <1>3
  <2>2. s \in Seq(Bases)
    BY <1>3, <1>1
  <2>3. QED
    BY <1>1, <1>3, <2>2
<1>10. QED
  BY <1>8, <1>9 DEF s, n

-----------------------------------------------------------------------------
(* What a package depends on.                                              *)

\* The variables that say what packages there are and what they need.
PackageTypes ==
  /\ subs \subseteq Bases
  /\ \A b \in Bases : /\ \A n \in Names : choice[b][n] \in Candidates[n] \cup {None}
                      /\ known[b] \in Revisions(b) \cup {None}
                      /\ approved[b] \in 0 .. known[b]

\* The pkgbases that b depends on, at its newest revision.
Deps(b) == Needed(b, DependencyRevision(b))

\* Every candidate for a name is a pkgbase.
LEMMA CandidateBases ==
  ASSUME NEW n \in Names
  PROVE  Candidates[n] \subseteq Bases
BY SchedulingAssumption DEF Candidates, None

\* The revision the dependencies are taken from exists, if there is one.
LEMMA RevisionThere ==
  ASSUME PackageTypes, NEW b \in Bases
  PROVE  DependencyRevision(b) \in Revisions(b) \cup {None}
<1>1. Requires[b] \in Seq(SUBSET Names)
  BY SchedulingAssumption
<1>2. known[b] \in 0 .. Len(Requires[b]) /\ Len(Requires[b]) \in Nat
  BY <1>1 DEF PackageTypes, Revisions, None
<1>3. approved[b] \in 0 .. known[b]
  BY DEF PackageTypes
<1>4. QED
  BY <1>1, <1>2, <1>3 DEF DependencyRevision, Revisions, None

\* A package depends on other packages.
LEMMA NeededBases ==
  ASSUME PackageTypes, NEW b \in Bases, NEW r \in Revisions(b) \cup {None}
  PROVE  Needed(b, r) \subseteq Bases \ {b}
<1>1. Foreign(b, r) \subseteq Names
  <2>1. Requires[b] \in Seq(SUBSET Names)
    BY SchedulingAssumption
  <2>2. r # None => Requires[b][r] \in SUBSET Names
    BY <2>1 DEF Revisions
  <2>3. QED
    BY <2>2 DEF Foreign
<1>2. \A n \in Foreign(b, r) :
        Candidates[n] \subseteq Bases /\ choice[b][n] \in Bases \cup {None}
  BY <1>1, CandidateBases DEF PackageTypes
<1>. DEFINE single == UNION {Candidates[n] : n \in {m \in Foreign(b, r) : ~Selectable(m)}}
            chosen == {choice[b][n] : n \in {m \in Foreign(b, r) : Selectable(m)}}
<1>3. Needed(b, r) = (single \cup chosen) \ {b, None}
  BY DEF Needed
<1>4. single \subseteq Bases /\ chosen \subseteq Bases \cup {None}
  BY <1>2
<1>. HIDE DEF single, chosen
<1>5. QED
  BY <1>3, <1>4

\* So does its newest revision.
LEMMA DepsBases ==
  ASSUME PackageTypes, NEW b \in Bases
  PROVE  Deps(b) \subseteq Bases \ {b}
BY RevisionThere, NeededBases DEF Deps

-----------------------------------------------------------------------------
(* The search: each step leaves less to do.                                *)

\* The pkgbases in the queue of search s.
Waiting(s) == {s.queue[k] : k \in 1 .. Len(s.queue)}

\* What search s takes from the queue next.
First(s) == Head(s.queue)

\* First(s) is a member already; it is the member too many; it is a new member.
Repeats(s) == s.queue # <<>> /\ First(s) \in s.members
Overflows(s) == s.queue # <<>> /\ First(s) \notin s.members /\ Full(s.members)
Extends(s) == s.queue # <<>> /\ First(s) \notin s.members /\ ~ Full(s.members)

\* The head of a queue is a pkgbase; the rest is shorter, and waits as before.
LEMMA QueueHead ==
  ASSUME NEW s \in Searches, s.queue # <<>>
  PROVE  /\ First(s) \in Bases
         /\ Tail(s.queue) \in Seq(Bases)
         /\ Len(s.queue) \in Nat /\ Len(Tail(s.queue)) = Len(s.queue) - 1
         /\ Waiting(s) =
              {First(s)} \cup {Tail(s.queue)[k] : k \in 1 .. Len(Tail(s.queue))}
<1>. DEFINE q == s.queue
<1>1. q \in Seq(Bases) /\ q # <<>>
  BY DEF Searches
<1>2. /\ Len(q) \in Nat /\ Len(q) # 0
      /\ Head(q) = q[1] /\ q[1] \in Bases
      /\ Tail(q) \in Seq(Bases) /\ Len(Tail(q)) = Len(q) - 1
      /\ \A k \in 1 .. Len(q) - 1 : Tail(q)[k] = q[k + 1]
  BY <1>1
<1>3. \A k \in 1 .. Len(q) : k # 1 => k - 1 \in 1 .. Len(q) - 1 /\ q[k] = Tail(q)[k - 1]
  <2>1. ASSUME NEW k \in 1 .. Len(q), k # 1
        PROVE  k - 1 \in 1 .. Len(q) - 1 /\ q[k] = Tail(q)[k - 1]
    <3>1. k - 1 \in 1 .. Len(q) - 1 /\ (k - 1) + 1 = k
      BY <1>2, <2>1
    <3>2. QED
      BY <1>2, <3>1
  <2>2. QED
    BY <2>1
<1>4. \A k \in 1 .. Len(q) - 1 : k + 1 \in 1 .. Len(q)
  BY <1>2
<1>5. 1 \in 1 .. Len(q)
  BY <1>2
<1>6. {q[k] : k \in 1 .. Len(q)} = {q[1]} \cup {Tail(q)[k] : k \in 1 .. Len(q) - 1}
  BY <1>2, <1>3, <1>4, <1>5
<1>7. QED
  BY <1>2, <1>6 DEF First, Waiting

\* The three kinds of step.
LEMMA AdvanceCases ==
  ASSUME PackageTypes, NEW s \in Searches, s.queue # <<>>
  PROVE  /\ Repeats(s) => Advance(s) = [s EXCEPT !.queue = Tail(@)]
         /\ Overflows(s) =>
              Advance(s) =
                [queue |-> <<>>, members |-> s.members \cup {First(s)},
                 edges |-> s.edges, unresolved |-> s.unresolved]
         /\ Extends(s) =>
              Advance(s) =
                [queue |-> Tail(s.queue) \o InOrder(Deps(First(s)) \ s.members),
                 members |-> s.members \cup {First(s)},
                 edges |-> s.edges \cup ({First(s)} \X Deps(First(s))),
                 unresolved |-> IF Unresolved(First(s), DependencyRevision(First(s)))
                                  THEN s.unresolved \cup {First(s)} ELSE s.unresolved]
         /\ Repeats(s) \/ Overflows(s) \/ Extends(s)
<1>1. First(s) \in Bases
  BY QueueHead
<1>2. Deps(First(s)) \ (s.members \cup {First(s)}) = Deps(First(s)) \ s.members
  BY <1>1, DepsBases
<1>3. [s EXCEPT !.queue = <<>>, !.members = @ \cup {First(s)}] =
        [queue |-> <<>>, members |-> s.members \cup {First(s)},
         edges |-> s.edges, unresolved |-> s.unresolved]
  <2>. DEFINE m == s.members \cup {First(s)}
  <2>1. [s EXCEPT !.queue = <<>>, !.members = @ \cup {First(s)}]
          = [s EXCEPT !.queue = <<>>, !.members = m]
    OBVIOUS
  <2>. HIDE DEF m
  <2>. DEFINE u == [s EXCEPT !.queue = <<>>]
  <2>2. /\ u = [queue |-> <<>>, members |-> s.members, edges |-> s.edges,
                unresolved |-> s.unresolved]
        /\ [s EXCEPT !.queue = <<>>, !.members = m] = [u EXCEPT !.members = m]
    BY DEF Searches
  <2>. HIDE DEF u
  <2>3. [u EXCEPT !.members = m]
          = [queue |-> <<>>, members |-> m, edges |-> s.edges, unresolved |-> s.unresolved]
    BY <2>2
  <2>4. QED
    BY <2>1, <2>2, <2>3 DEF m
<1>4. QED
  BY <1>2, <1>3 DEF Repeats, Overflows, Extends, Advance, First, Deps

\* What each step leaves waiting.
LEMMA AdvanceWaiting ==
  ASSUME PackageTypes, NEW s \in Searches, s.queue # <<>>
  PROVE  /\ Advance(s) \in Searches
         /\ Repeats(s) => Waiting(s) = {First(s)} \cup Waiting(Advance(s))
         /\ Extends(s) => /\ Waiting(s) \subseteq {First(s)} \cup Waiting(Advance(s))
                          /\ Deps(First(s)) \ s.members \subseteq Waiting(Advance(s))
                          /\ Waiting(Advance(s)) \subseteq Waiting(s) \cup Deps(First(s))
         /\ Repeats(s) => Len(Advance(s).queue) = Len(s.queue) - 1
         /\ Extends(s) => Len(Advance(s).queue) < Len(s.queue) + Cardinality(Bases)
<1>. DEFINE b == First(s)
            new == InOrder(Deps(b) \ s.members)
            rest == Tail(s.queue)
<1>1. /\ b \in Bases /\ rest \in Seq(Bases)
      /\ Len(s.queue) \in Nat /\ Len(rest) = Len(s.queue) - 1
      /\ Waiting(s) = {b} \cup {rest[k] : k \in 1 .. Len(rest)}
  BY QueueHead
<1>2. Deps(b) \in SUBSET (Bases \ {b}) /\ Deps(b) \ s.members \in SUBSET Bases
  BY <1>1, DepsBases
<1>3. /\ new \in Seq(Bases)
      /\ Len(new) = Cardinality(Deps(b) \ s.members)
      /\ {new[k] : k \in 1 .. Len(new)} = Deps(b) \ s.members
  BY <1>2, OrderFacts
<1>4. Len(new) \in Nat /\ Len(new) <= Cardinality(Bases) /\ Cardinality(Bases) \in Nat
  BY <1>2, <1>3, PartFinite, BasesFinite
<1>. HIDE DEF b, new, rest
<1>5. /\ rest \o new \in Seq(Bases)
      /\ Len(rest \o new) = Len(rest) + Len(new)
      /\ {(rest \o new)[k] : k \in 1 .. Len(rest \o new)} =
           {rest[k] : k \in 1 .. Len(rest)} \cup {new[k] : k \in 1 .. Len(new)}
  <2>0. rest \in Seq(Bases) /\ new \in Seq(Bases)
    BY <1>1, <1>3
  <2>1. /\ rest \o new \in Seq(Bases)
        /\ Len(rest) \in Nat /\ Len(rest \o new) = Len(rest) + Len(new)
        /\ \A k \in 1 .. Len(rest) + Len(new) :
             (rest \o new)[k] = IF k <= Len(rest) THEN rest[k] ELSE new[k - Len(rest)]
    BY <2>0
  <2>2. \A k \in 1 .. Len(rest) : k \in 1 .. Len(rest) + Len(new) /\ k <= Len(rest)
    BY <1>4, <2>1
  <2>3. \A k \in 1 .. Len(new) : /\ k + Len(rest) \in 1 .. Len(rest) + Len(new)
                                 /\ ~ (k + Len(rest) <= Len(rest))
                                 /\ (k + Len(rest)) - Len(rest) = k
    BY <1>4, <2>1
  <2>4. \A k \in 1 .. Len(rest) + Len(new) :
          IF k <= Len(rest) THEN k \in 1 .. Len(rest) ELSE k - Len(rest) \in 1 .. Len(new)
    BY <1>4, <2>1
  <2>5. ASSUME NEW k \in 1 .. Len(rest)
        PROVE  rest[k] \in {(rest \o new)[j] : j \in 1 .. Len(rest \o new)}
    BY <2>1, <2>2
  <2>6. ASSUME NEW k \in 1 .. Len(new)
        PROVE  new[k] \in {(rest \o new)[j] : j \in 1 .. Len(rest \o new)}
    <3>1. new[k] = (rest \o new)[k + Len(rest)]
      BY <2>1, <2>3
    <3>2. QED
      BY <2>1, <2>3, <3>1
  <2>7. ASSUME NEW k \in 1 .. Len(rest \o new)
        PROVE  (rest \o new)[k] \in
                 {rest[j] : j \in 1 .. Len(rest)} \cup {new[j] : j \in 1 .. Len(new)}
    BY <2>1, <2>4
  <2>8. QED
    BY <2>1, <2>5, <2>6, <2>7
<1>6. CASE Repeats(s)
  <2>1. Advance(s) = [s EXCEPT !.queue = rest]
    BY <1>6, AdvanceCases DEF rest
  <2>2. Advance(s) \in Searches /\ Advance(s).queue = rest
    BY <1>1, <2>1 DEF Searches
  <2>3. QED
    BY <1>1, <1>6, <2>2 DEF Waiting, Repeats, Extends, b
<1>7. CASE Overflows(s)
  <2>1. Advance(s) = [queue |-> <<>>, members |-> s.members \cup {b},
                      edges |-> s.edges, unresolved |-> s.unresolved]
    BY <1>7, AdvanceCases DEF b
  <2>2. Advance(s) \in Searches
    BY <1>1, <2>1 DEF Searches
  <2>3. QED
    BY <1>7, <2>2 DEF Overflows, Repeats, Extends
<1>8. CASE Extends(s)
  <2>1. Advance(s) =
          [queue |-> rest \o new,
           members |-> s.members \cup {b},
           edges |-> s.edges \cup ({b} \X Deps(b)),
           unresolved |-> IF Unresolved(b, DependencyRevision(b))
                            THEN s.unresolved \cup {b} ELSE s.unresolved]
    BY <1>8, AdvanceCases DEF b, new, rest
  <2>2. /\ s.members \cup {b} \in SUBSET Bases
        /\ s.edges \cup ({b} \X Deps(b)) \in SUBSET (Bases \X Bases)
        /\ s.unresolved \cup {b} \in SUBSET Bases /\ s.unresolved \in SUBSET Bases
    BY <1>1, <1>2 DEF Searches
  <2>3. Advance(s) \in Searches
    BY <1>5, <2>1, <2>2 DEF Searches
  <2>4. Advance(s).queue = rest \o new
    BY <2>1
  <2>5. Waiting(Advance(s)) = {rest[k] : k \in 1 .. Len(rest)} \cup (Deps(b) \ s.members)
    BY <1>3, <1>5, <2>4 DEF Waiting
  <2>6. Len(Advance(s).queue) < Len(s.queue) + Cardinality(Bases)
    BY <1>1, <1>4, <1>5, <2>4
  <2>7. QED
    BY <1>1, <1>8, <2>3, <2>5, <2>6 DEF Repeats, Extends, b
<1>9. QED
  BY <1>6, <1>7, <1>8, AdvanceCases

\* What is left to do: first of all the packages that are not members.
Work(s) ==
  Cardinality(Bases \ s.members) * (Cardinality(Bases) + 1) + Len(s.queue)

\* A step does some of it.
LEMMA LessWork ==
  ASSUME PackageTypes, NEW s \in Searches, s.queue # <<>>
  PROVE  Work(s) \in Nat /\ Work(Advance(s)) \in Nat /\ Work(Advance(s)) < Work(s)
<1>. DEFINE t == Advance(s)
            n == Cardinality(Bases)
            x == Cardinality(Bases \ s.members)
            y == Cardinality(Bases \ t.members)
            b == First(s)
<1>1. n \in Nat /\ x \in Nat /\ y \in Nat /\ IsFiniteSet(Bases \ s.members)
  BY BasesFinite, PartFinite
<1>2. t \in Searches /\ b \in Bases
  BY AdvanceWaiting, QueueHead
<1>3. Len(s.queue) \in Nat /\ Len(t.queue) \in Nat /\ Len(s.queue) > 0
  BY <1>2 DEF Searches
<1>4. x * (n + 1) \in Nat /\ y * (n + 1) \in Nat
  BY <1>1
<1>5. Work(s) = x * (n + 1) + Len(s.queue) /\ Work(t) = y * (n + 1) + Len(t.queue)
  BY DEF Work
<1>. DEFINE X == x * (n + 1)
            Y == y * (n + 1)
<1>6. X \in Nat /\ Y \in Nat /\ Work(s) = X + Len(s.queue) /\ Work(t) = Y + Len(t.queue)
  BY <1>4, <1>5
<1>7. CASE Repeats(s)
  <2>1. t = [s EXCEPT !.queue = Tail(@)]
    BY <1>7, AdvanceCases
  <2>2. t.members = s.members
    BY <2>1 DEF Searches
  <2>3. Len(t.queue) = Len(s.queue) - 1 /\ X = Y
    BY <1>7, <2>2, AdvanceWaiting
  <2>. HIDE DEF t, X, Y
  <2>4. Work(s) \in Nat /\ Work(t) \in Nat /\ Work(t) < Work(s)
    BY <1>3, <1>6, <2>3
  <2>5. QED
    BY <2>4 DEF t
<1>8. CASE Overflows(s) \/ Extends(s)
  <2>1. t.members = s.members \cup {b} /\ Len(t.queue) < Len(s.queue) + n
    <3>1. CASE Overflows(s)
      <4>1. t = [queue |-> <<>>, members |-> s.members \cup {b},
                 edges |-> s.edges, unresolved |-> s.unresolved]
        BY <3>1, AdvanceCases
      <4>2. t.members = s.members \cup {b} /\ Len(t.queue) = 0
        BY <4>1
      <4>3. QED
        BY <1>1, <1>3, <4>2
    <3>2. CASE Extends(s)
      <4>1. t = [queue |-> Tail(s.queue) \o InOrder(Deps(b) \ s.members),
                 members |-> s.members \cup {b},
                 edges |-> s.edges \cup ({b} \X Deps(b)),
                 unresolved |-> IF Unresolved(b, DependencyRevision(b))
                                  THEN s.unresolved \cup {b} ELSE s.unresolved]
        BY <3>2, AdvanceCases
      <4>2. t.members = s.members \cup {b}
        BY <4>1
      <4>3. QED
        BY <3>2, <4>2, AdvanceWaiting
    <3>3. QED
      BY <1>8, <3>1, <3>2
  <2>2. b \notin s.members
    BY <1>8 DEF Overflows, Extends
  <2>3. Bases \ t.members = (Bases \ s.members) \ {b} /\ b \in Bases \ s.members
    BY <1>2, <2>1, <2>2
  <2>4. y = x - 1
    <3>1. Cardinality((Bases \ s.members) \ {b}) = x - 1
      BY <1>1, <2>3, FS_RemoveElement
    <3>2. QED
      BY <2>3, <3>1
  <2>. HIDE DEF t, n, x, y, b
  <2>5. X = Y + (n + 1)
    BY <1>1, <2>4
  <2>. HIDE DEF X, Y
  <2>6. Work(s) \in Nat /\ Work(t) \in Nat /\ Work(t) < Work(s)
    <3>1. /\ n \in Nat /\ X \in Nat /\ Y \in Nat /\ X = Y + (n + 1)
          /\ Len(s.queue) \in Nat /\ Len(t.queue) \in Nat
          /\ Len(t.queue) < Len(s.queue) + n
      BY <1>1, <1>3, <1>6, <2>1, <2>5
    <3>2. /\ X + Len(s.queue) \in Nat /\ Y + Len(t.queue) \in Nat
          /\ Y + Len(t.queue) < X + Len(s.queue)
      BY <3>1, Outweighs
    <3>3. QED
      BY <1>6, <3>2
  <2>7. QED
    BY <2>6 DEF t
<1>9. QED
  BY <1>7, <1>8, AdvanceCases

\* So the search ends: no set of unfinished searches contains the next step
\* of each of its members.
LEMMA SearchEnds ==
  ASSUME PackageTypes, NEW T \in SUBSET Searches, T # {}
  PROVE  \E s \in T : s.queue = <<>> \/ Advance(s) \notin T
<1>. DEFINE Works == {Work(s) : s \in T}
<1>1. SUFFICES ASSUME \A s \in T : s.queue # <<>> /\ Advance(s) \in T PROVE FALSE
  OBVIOUS
<1>2. \A s \in T : Work(s) \in Nat /\ Work(Advance(s)) < Work(s)
  BY <1>1, LessWork
<1>3. Works \in SUBSET Nat /\ Works # {}
  BY <1>2
<1>4. PICK n \in Works : \A m \in Works : n <= m
  BY <1>3, Minimum
<1>5. PICK s \in T : Work(s) = n
  BY <1>4
<1>6. Work(Advance(s)) \in Works
  BY <1>1
<1>7. n <= Work(Advance(s)) /\ Work(Advance(s)) < n
  BY <1>2, <1>4, <1>5, <1>6
<1>8. n \in Nat /\ Work(Advance(s)) \in Nat
  BY <1>3, <1>4, <1>6
<1>9. QED
  BY <1>7, <1>8

-----------------------------------------------------------------------------
(* The search is a function: the recursion that defines it has a solution. *)

\* G has the result of every search that is over, and with that of the next
\* step that of the step.
Respects(G) ==
  /\ \A s \in Searches : s.queue = <<>> => <<s, s>> \in G
  /\ \A s \in Searches : \A r \in Searches :
       s.queue # <<>> /\ <<Advance(s), r>> \in G => <<s, r>> \in G

\* The least such set.
Results ==
  {g \in Searches \X Searches :
     \A G \in SUBSET (Searches \X Searches) : Respects(G) => g \in G}

\* It respects the steps itself.
LEMMA ResultsRespect ==
  ASSUME PackageTypes
  PROVE  Respects(Results)
<1>1. \A s \in Searches : s.queue = <<>> => <<s, s>> \in Results
  BY DEF Results, Respects
<1>2. ASSUME NEW s \in Searches, NEW r \in Searches, s.queue # <<>>,
             <<Advance(s), r>> \in Results
      PROVE  <<s, r>> \in Results
  BY <1>2 DEF Results, Respects
<1>3. QED
  BY <1>1, <1>2 DEF Respects

\* A search has a single result.
LEMMA OneResult ==
  ASSUME PackageTypes, NEW s \in Searches
  PROVE  \E r \in Searches : \A x \in Searches : <<s, x>> \in Results <=> x = r
<1>. DEFINE Single(t) == \E r \in Searches : \A x \in Searches : <<t, x>> \in Results <=> x = r
            Bad == {t \in Searches : ~ Single(t)}
<1>1. SUFFICES ASSUME Bad # {} PROVE FALSE
  OBVIOUS
<1>2. PICK t \in Bad : t.queue = <<>> \/ Advance(t) \notin Bad
  BY <1>1, SearchEnds
<1>3. CASE t.queue = <<>>
  <2>1. <<t, t>> \in Results
    BY <1>3, ResultsRespect DEF Respects
  <2>2. ASSUME NEW x \in Searches, x # t, <<t, x>> \in Results PROVE FALSE
    <3>. DEFINE G == Results \ {<<t, x>>}
    <3>1. \A u \in Searches : u.queue = <<>> => <<u, u>> \in G
      BY <2>2, ResultsRespect DEF Respects
    <3>2. \A u \in Searches : \A r \in Searches :
            u.queue # <<>> /\ <<Advance(u), r>> \in G => <<u, r>> \in G
      BY <1>3, ResultsRespect DEF Respects
    <3>3. Respects(G) /\ G \in SUBSET (Searches \X Searches)
      BY <3>1, <3>2 DEF Respects, Results
    <3>4. QED
      BY <2>2, <3>3 DEF Results
  <2>3. QED
    BY <2>1, <2>2
<1>4. CASE t.queue # <<>>
  <2>1. Advance(t) \in Searches
    BY <1>4, AdvanceWaiting
  <2>2. PICK r \in Searches : \A x \in Searches : <<Advance(t), x>> \in Results <=> x = r
    BY <1>2, <1>4, <2>1
  <2>3. <<t, r>> \in Results
    BY <1>4, <2>2, ResultsRespect DEF Respects
  <2>4. ASSUME NEW x \in Searches, x # r, <<t, x>> \in Results PROVE FALSE
    <3>. DEFINE G == Results \ {<<t, x>>}
    <3>1. \A u \in Searches : u.queue = <<>> => <<u, u>> \in G
      BY <1>4, ResultsRespect DEF Respects
    <3>2. ASSUME NEW u \in Searches, NEW y \in Searches, u.queue # <<>>, <<Advance(u), y>> \in G
          PROVE  <<u, y>> \in G
      <4>1. <<u, y>> \in Results
        BY <3>2, ResultsRespect DEF Respects
      <4>2. ~ (u = t /\ y = x)
        BY <2>2, <2>4, <3>2
      <4>3. QED
        BY <4>1, <4>2
    <3>3. Respects(G) /\ G \in SUBSET (Searches \X Searches)
      BY <3>1, <3>2 DEF Respects, Results
    <3>4. QED
      BY <2>4, <3>3 DEF Results
  <2>5. QED
    BY <2>3, <2>4
<1>5. QED
  BY <1>3, <1>4

\* search is what its definition says.
LEMMA SearchUnfolds ==
  ASSUME PackageTypes
  PROVE  search = [s \in Searches |-> IF s.queue = <<>> THEN s ELSE search[Advance(s)]]
<1>. DEFINE Solves(f) ==
              f = [s \in Searches |-> IF s.queue = <<>> THEN s ELSE f[Advance(s)]]
            res(s) == CHOOSE r \in Searches : <<s, r>> \in Results
            f0 == [s \in Searches |-> res(s)]
<1>1. ASSUME NEW s \in Searches
      PROVE  /\ res(s) \in Searches /\ <<s, res(s)>> \in Results
             /\ \A x \in Searches : <<s, x>> \in Results => x = res(s)
  <2>1. PICK r \in Searches : \A x \in Searches : <<s, x>> \in Results <=> x = r
    BY OneResult
  <2>2. res(s) \in Searches /\ <<s, res(s)>> \in Results
    BY <2>1
  <2>3. QED
    BY <2>1, <2>2
<1>. HIDE DEF res
<1>2. ASSUME NEW s \in Searches, s.queue = <<>>
      PROVE  res(s) = s
  <2>1. <<s, s>> \in Results
    BY <1>2, ResultsRespect DEF Respects
  <2>2. QED
    BY <1>1, <2>1
<1>3. ASSUME NEW s \in Searches, s.queue # <<>>
      PROVE  Advance(s) \in Searches /\ res(s) = res(Advance(s))
  <2>1. Advance(s) \in Searches
    BY <1>3, AdvanceWaiting
  <2>2. res(Advance(s)) \in Searches /\ <<Advance(s), res(Advance(s))>> \in Results
    BY <1>1, <2>1
  <2>3. <<s, res(Advance(s))>> \in Results
    BY <1>3, <2>2, ResultsRespect DEF Respects
  <2>4. QED
    BY <1>1, <2>1, <2>2, <2>3
<1>4. Solves(f0)
  BY <1>2, <1>3
<1>5. search = CHOOSE f : Solves(f)
  BY DEF search
<1>. HIDE DEF Solves, f0
<1>6. Solves(search)
  BY <1>4, <1>5
<1>7. QED
  BY <1>6 DEF Solves

\* The result of a search that is over, and of one that is not.
LEMMA SearchStep ==
  ASSUME PackageTypes, NEW s \in Searches
  PROVE  /\ s.queue = <<>> => search[s] = s
         /\ s.queue # <<>> => search[s] = search[Advance(s)]
BY SearchUnfolds

-----------------------------------------------------------------------------
(* What the search finds.                                                  *)

\* What the subscriptions need, directly or not.
Reach == {b \in Bases : \A T \in SUBSET Bases : Closed(T) => b \in T}

\* It has what it needs.
LEMMA ReachClosed ==
  ASSUME PackageTypes
  PROVE  Closed(Reach)
<1>1. subs \subseteq Reach
  BY DEF PackageTypes, Reach, Closed
<1>2. ASSUME NEW b \in Reach, NEW d \in Deps(b) PROVE d \in Reach
  <2>1. b \in Bases /\ d \in Bases
    BY <1>2, DepsBases DEF Reach
  <2>2. ASSUME NEW T \in SUBSET Bases, Closed(T) PROVE d \in T
    <3>1. b \in T
      BY <2>2 DEF Reach
    <3>2. QED
      BY <1>2, <2>2, <3>1 DEF Closed, Deps
  <2>3. QED
    BY <2>1, <2>2 DEF Reach
<1>3. QED
  BY <1>1, <1>2 DEF Closed, Deps

\* The dependencies among the packages of M, and those of M without a provider.
EdgesOf(M) == {e \in Bases \X Bases : e[1] \in M /\ e[2] \in Deps(e[1])}
OpenOf(M) == {b \in M : Unresolved(b, DependencyRevision(b))}

\* A search on its way: what its members need is a member or waits, nothing
\* that is not needed does, and the graph is that of the members.
Sane(s) ==
  /\ subs \subseteq s.members \cup Waiting(s)
  /\ \A b \in s.members : Deps(b) \subseteq s.members \cup Waiting(s)
  /\ s.members \cup Waiting(s) \subseteq Reach
  /\ s.edges = EdgesOf(s.members)
  /\ s.unresolved = OpenOf(s.members)
  /\ Cardinality(s.members) <= MaxClosure

\* A search that was cut off: one member too many, none that is not needed.
Cut(s) ==
  /\ s.queue = <<>>
  /\ Cardinality(s.members) = MaxClosure + 1
  /\ s.members \subseteq Reach

\* One more member, one more node in the graph.
LEMMA EdgesGrow ==
  ASSUME PackageTypes, NEW M \in SUBSET Bases, NEW b \in Bases
  PROVE  /\ EdgesOf(M \cup {b}) = EdgesOf(M) \cup ({b} \X Deps(b))
         /\ OpenOf(M \cup {b}) = IF Unresolved(b, DependencyRevision(b))
                                   THEN OpenOf(M) \cup {b} ELSE OpenOf(M)
<1>1. Deps(b) \subseteq Bases
  BY DepsBases
<1>2. EdgesOf(M \cup {b}) = EdgesOf(M) \cup ({b} \X Deps(b))
  BY <1>1 DEF EdgesOf
<1>3. QED
  BY <1>2 DEF OpenOf

\* A step keeps a search sane or cuts it off.
LEMMA StaysSane ==
  ASSUME PackageTypes, NEW s \in Searches, s.queue # <<>>, Sane(s)
  PROVE  Sane(Advance(s)) \/ Cut(Advance(s))
<1>. DEFINE t == Advance(s)
            b == First(s)
            M == s.members
<1>1. /\ b \in Bases /\ b \in Waiting(s)
      /\ M \in SUBSET Bases /\ IsFiniteSet(M) /\ Cardinality(M) \in Nat
      /\ MaxClosure \in Nat
      /\ Deps(b) \subseteq Bases
  <2>1. b \in Bases /\ b \in Waiting(s)
    BY QueueHead
  <2>2. M \in SUBSET Bases
    BY DEF Searches
  <2>3. QED
    BY <2>1, <2>2, PartFinite, DepsBases, SchedulingAssumption
<1>2. CASE Repeats(s)
  <2>1. t = [s EXCEPT !.queue = Tail(@)]
    BY <1>2, AdvanceCases
  <2>2. t.members = M /\ t.edges = s.edges /\ t.unresolved = s.unresolved
    BY <2>1 DEF Searches
  <2>3. Waiting(s) = {b} \cup Waiting(t) /\ b \in M
    BY <1>2, AdvanceWaiting DEF Repeats
  <2>4. M \cup Waiting(t) = M \cup Waiting(s)
    BY <2>3
  <2>. HIDE DEF t, M
  <2>5. Sane(t)
    BY <2>2, <2>4 DEF Sane, M
  <2>6. QED
    BY <2>5 DEF t
<1>3. CASE Overflows(s)
  <2>1. t = [queue |-> <<>>, members |-> M \cup {b},
             edges |-> s.edges, unresolved |-> s.unresolved]
    BY <1>3, AdvanceCases
  <2>2. t.queue = <<>> /\ t.members = M \cup {b}
    BY <2>1
  <2>3. b \notin M /\ Cardinality(M) >= MaxClosure /\ Cardinality(M) <= MaxClosure
    BY <1>3 DEF Overflows, Full, Sane
  <2>4. Cardinality(M \cup {b}) = MaxClosure + 1
    <3>1. Cardinality(M) = MaxClosure
      BY <1>1, <2>3
    <3>2. QED
      BY <1>1, <2>3, <3>1, FS_AddElement
  <2>5. M \cup {b} \subseteq Reach
    BY <1>1 DEF Sane
  <2>6. QED
    BY <2>2, <2>4, <2>5 DEF Cut
<1>4. CASE Extends(s)
  <2>1. t = [queue |-> Tail(s.queue) \o InOrder(Deps(b) \ M),
             members |-> M \cup {b},
             edges |-> s.edges \cup ({b} \X Deps(b)),
             unresolved |-> IF Unresolved(b, DependencyRevision(b))
                              THEN s.unresolved \cup {b} ELSE s.unresolved]
    BY <1>4, AdvanceCases
  <2>2. /\ t.members = M \cup {b}
        /\ t.edges = s.edges \cup ({b} \X Deps(b))
        /\ t.unresolved = IF Unresolved(b, DependencyRevision(b))
                            THEN s.unresolved \cup {b} ELSE s.unresolved
    BY <2>1
  <2>3. /\ Waiting(s) \subseteq {b} \cup Waiting(t)
        /\ Deps(b) \ M \subseteq Waiting(t)
        /\ Waiting(t) \subseteq Waiting(s) \cup Deps(b)
    BY <1>4, AdvanceWaiting
  <2>. HIDE DEF t, M, b
  <2>4. subs \subseteq t.members \cup Waiting(t)
    BY <2>2, <2>3 DEF Sane, M
  <2>5. \A c \in t.members : Deps(c) \subseteq t.members \cup Waiting(t)
    BY <2>2, <2>3 DEF Sane, M
  <2>6. t.members \cup Waiting(t) \subseteq Reach
    <3>1. M \cup Waiting(s) \subseteq Reach /\ b \in Reach
      BY <1>1 DEF Sane, M
    <3>2. Deps(b) \subseteq Reach
      BY <3>1, ReachClosed DEF Closed, Deps
    <3>3. QED
      BY <2>2, <2>3, <3>1, <3>2
  <2>7. t.edges = EdgesOf(t.members) /\ t.unresolved = OpenOf(t.members)
    <3>1. s.edges = EdgesOf(M) /\ s.unresolved = OpenOf(M)
      BY DEF Sane, M
    <3>2. /\ EdgesOf(M \cup {b}) = EdgesOf(M) \cup ({b} \X Deps(b))
          /\ OpenOf(M \cup {b}) = IF Unresolved(b, DependencyRevision(b))
                                    THEN OpenOf(M) \cup {b} ELSE OpenOf(M)
      BY <1>1, EdgesGrow
    <3>3. QED
      BY <2>2, <3>1, <3>2
  <2>8. Cardinality(t.members) <= MaxClosure
    <3>1. b \notin M /\ ~ (Cardinality(M) >= MaxClosure)
      BY <1>4 DEF Extends, Full, M, b
    <3>2. Cardinality(M \cup {b}) = Cardinality(M) + 1
      BY <1>1, <3>1, FS_AddElement
    <3>3. QED
      BY <1>1, <2>2, <3>1, <3>2
  <2>9. Sane(t)
    BY <2>4, <2>5, <2>6, <2>7, <2>8 DEF Sane
  <2>10. QED
    BY <2>9 DEF t
<1>5. QED
  BY <1>2, <1>3, <1>4, AdvanceCases

\* A sane search has a result, over and done with, that is sane or cut off.
LEMMA SearchFinds ==
  ASSUME PackageTypes, NEW s \in Searches, Sane(s) \/ Cut(s)
  PROVE  /\ search[s] \in Searches /\ search[s].queue = <<>>
         /\ Sane(search[s]) \/ Cut(search[s])
<1>. DEFINE Right(r) == r \in Searches /\ r.queue = <<>> /\ (Sane(r) \/ Cut(r))
            Bad == {t \in Searches : (Sane(t) \/ Cut(t)) /\ ~ Right(search[t])}
<1>1. SUFFICES ASSUME Bad # {} PROVE FALSE
  OBVIOUS
<1>2. PICK t \in Bad : t.queue = <<>> \/ Advance(t) \notin Bad
  BY <1>1, SearchEnds
<1>3. CASE t.queue = <<>>
  BY <1>2, <1>3, SearchStep
<1>4. CASE t.queue # <<>>
  <2>1. Sane(t) /\ Advance(t) \in Searches
    BY <1>2, <1>4, AdvanceWaiting DEF Cut
  <2>2. Sane(Advance(t)) \/ Cut(Advance(t))
    BY <1>4, <2>1, StaysSane
  <2>3. search[t] = search[Advance(t)]
    BY <1>4, SearchStep
  <2>4. QED
    BY <1>2, <1>4, <2>1, <2>2, <2>3
<1>5. QED
  BY <1>3, <1>4

\* The closure is such a result.
LEMMA ClosureFinds ==
  ASSUME PackageTypes
  PROVE  /\ Closure \in Searches /\ Closure.queue = <<>>
         /\ Sane(Closure) \/ Cut(Closure)
<1>. DEFINE s == [queue |-> InOrder(subs), members |-> {}, edges |-> {}, unresolved |-> {}]
<1>1. subs \in SUBSET Bases /\ subs \subseteq Reach
  BY ReachClosed DEF PackageTypes, Closed
<1>2. /\ InOrder(subs) \in Seq(Bases)
      /\ {InOrder(subs)[k] : k \in 1 .. Len(InOrder(subs))} = subs
  BY <1>1, OrderFacts
<1>3. s \in Searches
  BY <1>2 DEF Searches
<1>4. Waiting(s) = subs
  BY <1>2 DEF Waiting
<1>5. EdgesOf({}) = {} /\ OpenOf({}) = {} /\ Cardinality({}) = 0 /\ 0 <= MaxClosure
  BY FS_EmptySet, SchedulingAssumption DEF EdgesOf, OpenOf
<1>6. Sane(s)
  BY <1>1, <1>4, <1>5 DEF Sane
<1>7. Closure = search[s]
  BY DEF Closure
<1>8. QED
  BY <1>3, <1>6, <1>7, SearchFinds

\* compute_closure finds what the subscriptions need, and all of it unless
\* there is more than it may.
LEMMA FindsReach ==
  ASSUME PackageTypes
  PROVE  ClosureIsReach
<1>. DEFINE M == Closure.members
<1>1. M \in SUBSET Bases /\ Cardinality(M) \in Nat /\ MaxClosure \in Nat
  BY ClosureFinds, PartFinite, SchedulingAssumption DEF Searches
<1>2. Waiting(Closure) = {}
  BY ClosureFinds DEF Waiting
<1>3. CASE Sane(Closure)
  <2>1. M \subseteq Reach /\ Closed(M) /\ Cardinality(M) <= MaxClosure
    BY <1>2, <1>3 DEF Sane, Closed, Deps
  <2>2. Reach \subseteq M
    BY <1>1, <2>1 DEF Reach
  <2>3. QED
    BY <2>1, <2>2 DEF ClosureIsReach, Reach
<1>4. CASE Cut(Closure)
  <2>1. Cardinality(M) = MaxClosure + 1 /\ M \subseteq Reach
    BY <1>4 DEF Cut
  <2>2. QED
    BY <1>1, <2>1 DEF ClosureIsReach, Reach
<1>5. QED
  BY <1>3, <1>4, ClosureFinds

-----------------------------------------------------------------------------
(* What a package depends on, directly or not.                             *)

\* What S leads to along edges: the least set that has S and the ends of the
\* edges that begin in it.
Follows(edges, U) == \A e \in edges : e[1] \in U => e[2] \in U
\* S and what it leads to along the edges: the least set that has both.
Following(edges, S) ==
  {b \in Bases : \A U \in SUBSET Bases : S \subseteq U /\ Follows(edges, U) => b \in U}

\* DependencyGraph::closure finds just that.
LEMMA ReachedIs ==
  ASSUME NEW edges \in SUBSET (Bases \X Bases), NEW S \in SUBSET Bases
  PROVE  Reached(edges, S) = Following(edges, S)
<1>. DEFINE More(T) == T \cup {e[2] : e \in {f \in edges : f[1] \in T}}
            Solves(f) == f = [T \in SUBSET Bases |-> IF More(T) = T THEN T ELSE f[More(T)]]
            f0 == [T \in SUBSET Bases |-> Following(edges, T)]
            reach == CHOOSE f : Solves(f)
<1>1. ASSUME NEW T \in SUBSET Bases
      PROVE  /\ More(T) \in SUBSET Bases /\ T \subseteq More(T)
             /\ More(T) = T => Following(edges, T) = T
             /\ Following(edges, More(T)) = Following(edges, T)
  <2>1. More(T) \in SUBSET Bases /\ T \subseteq More(T)
    OBVIOUS
  <2>2. ASSUME More(T) = T PROVE Following(edges, T) = T
    <3>1. Follows(edges, T)
      BY <2>2 DEF Follows
    <3>2. QED
      BY <3>1 DEF Following
  <2>3. ASSUME NEW U \in SUBSET Bases, Follows(edges, U)
        PROVE  T \subseteq U <=> More(T) \subseteq U
    BY <2>1, <2>3 DEF Follows
  <2>4. Following(edges, More(T)) = Following(edges, T)
    BY <2>3 DEF Following
  <2>5. QED
    BY <2>1, <2>2, <2>4
<1>. HIDE DEF More
<1>2. Solves(f0)
  BY <1>1
<1>3. reach = CHOOSE f : Solves(f)
  OBVIOUS
<1>4. Reached(edges, S) = reach[S]
  BY DEF Reached, More
<1>. HIDE DEF Solves, f0, reach
<1>5. Solves(reach)
  BY <1>2, <1>3
<1>6. ASSUME NEW T \in SUBSET Bases
      PROVE  reach[T] = IF More(T) = T THEN T ELSE reach[More(T)]
  BY <1>5 DEF Solves
<1>. DEFINE Bad == {T \in SUBSET Bases : reach[T] # Following(edges, T)}
            Sizes == {Cardinality(Bases \ T) : T \in Bad}
<1>7. ASSUME Bad # {} PROVE FALSE
  <2>1. Sizes \in SUBSET Nat /\ Sizes # {}
    BY <1>7, PartFinite
  <2>2. PICK n \in Sizes : \A m \in Sizes : n <= m
    BY <2>1, Minimum
  <2>3. PICK T \in Bad : Cardinality(Bases \ T) = n
    BY <2>2
  <2>4. More(T) # T
    BY <1>1, <1>6, <2>3
  <2>5. More(T) \in Bad
    BY <1>1, <1>6, <2>3, <2>4
  <2>6. Bases \ More(T) \in SUBSET (Bases \ T) /\ Bases \ More(T) # Bases \ T
    BY <1>1, <2>4
  <2>7. /\ IsFiniteSet(Bases \ T) /\ Cardinality(Bases \ T) \in Nat
        /\ Cardinality(Bases \ More(T)) \in Nat
    BY <1>1, PartFinite
  <2>8. /\ Cardinality(Bases \ More(T)) <= Cardinality(Bases \ T)
        /\ Cardinality(Bases \ More(T)) # Cardinality(Bases \ T)
    BY <2>6, <2>7, FS_Subset
  <2>9. n <= Cardinality(Bases \ More(T))
    BY <2>2, <2>5
  <2>10. QED
    BY <2>3, <2>7, <2>8, <2>9
<1>8. QED
  BY <1>4, <1>7

\* What a package depends on in closure v: the packages its edges lead to, and
\* what those depend on.
LEMMA AllDepsFacts ==
  ASSUME NEW v \in Searches, NEW b \in Bases
  PROVE  /\ AllDeps(v, b) \subseteq Bases
         /\ \A d \in Bases : d # b /\ <<b, d>> \in v.edges => d \in AllDeps(v, b)
         /\ \A d \in AllDeps(v, b) : AllDeps(v, d) \subseteq AllDeps(v, b) \cup {b}
<1>. DEFINE R(c) == Reached(v.edges, {c})
<1>1. v.edges \in SUBSET (Bases \X Bases)
  BY DEF Searches
<1>2. \A c \in Bases : R(c) = Following(v.edges, {c})
  BY <1>1, ReachedIs
<1>. HIDE DEF R
<1>3. ASSUME NEW c \in Bases PROVE c \in R(c) /\ R(c) \subseteq Bases
  BY <1>2 DEF Following
<1>4. ASSUME NEW c \in Bases PROVE Follows(v.edges, R(c))
  <2>1. ASSUME NEW e \in v.edges, e[1] \in R(c) PROVE e[2] \in R(c)
    <3>1. e[2] \in Bases
      BY <1>1
    <3>2. QED
      BY <1>2, <2>1, <3>1 DEF Following, Follows
  <2>2. QED
    BY <2>1 DEF Follows
<1>5. ASSUME NEW c \in Bases, NEW d \in R(c) PROVE R(d) \subseteq R(c)
  <2>1. R(c) \in SUBSET Bases /\ d \in Bases /\ {d} \subseteq R(c)
    BY <1>3
  <2>2. QED
    BY <1>2, <1>4, <2>1 DEF Following
<1>6. ASSUME NEW d \in Bases, <<b, d>> \in v.edges PROVE d \in R(b)
  <2>1. <<b, d>>[1] = b /\ <<b, d>>[2] = d
    OBVIOUS
  <2>2. QED
    BY <1>3, <1>4, <1>6, <2>1 DEF Follows
<1>7. \A c \in Bases : AllDeps(v, c) = R(c) \ {c}
  BY DEF AllDeps, R
<1>8. QED
  BY <1>3, <1>5, <1>6, <1>7
=============================================================================
