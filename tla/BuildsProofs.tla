---------------------------- MODULE BuildsProofs ----------------------------
(***************************************************************************)
(* Proofs about Builds for every set of rows and handlers: types, the      *)
(* bound on attempts, the freshness of the attempt of a queued row and the *)
(* files of a succeeded one.                                               *)
(***************************************************************************)
EXTENDS Builds, FiniteSetTheorems, TLAPS

LEMMA InitTypeOK == Init => TypeOK
  BY BuildsAssumption DEF Init, TypeOK, Nothing, NoDir, Procs

\* Every step of a handler keeps the types.
LEMMA GotoTypeOK ==
  ASSUME TypeOK, NEW p \in Procs, NEW l, NEW r, NEW c, Goto(p, l, r, c),
         l \in {"idle", "fail", "cleanup", "select", "claim", "accept", "mkdir",
                "complete", "collect"},
         r \in [BuildIds -> Nat], c \in BuildIds \cup {NoBuild}
  PROVE  /\ pc' \in [Procs -> {"idle", "fail", "cleanup", "select", "claim",
                               "accept", "mkdir", "complete", "collect"}]
         /\ seen' \in [Procs -> [BuildIds -> Nat]]
         /\ cur' \in [Procs -> BuildIds \cup {NoBuild}]
  BY DEF Goto, TypeOK

LEMMA NextTypeOK == TypeOK /\ [Next]_vars => TypeOK'
<1> SUFFICES ASSUME TypeOK, [Next]_vars PROVE TypeOK'
  OBVIOUS
<1>n. Nothing \in [BuildIds -> Nat]
  BY DEF Nothing
<1>1. ASSUME NEW p \in Procs, NEW next \in {"idle", "select"}, StartSweep(p, next)
      PROVE  TypeOK'
  <2>1. Expired \in [BuildIds -> Nat]
    BY DEF Expired, TypeOK
  <2>2. QED
    BY <1>1, <2>1, GotoTypeOK DEF StartSweep, TypeOK, rowVars
<1>2. ASSUME NEW p \in Procs, NEW b \in BuildIds, FailRow(p, b)
      PROVE  TypeOK'
  <2>1. [seen[p] EXCEPT ![b] = 0] \in [BuildIds -> Nat]
    BY DEF TypeOK
  <2>2. /\ pc' \in [Procs -> {"idle", "fail", "cleanup", "select", "claim",
                               "accept", "mkdir", "complete", "collect"}]
        /\ seen' \in [Procs -> [BuildIds -> Nat]]
        /\ cur' \in [Procs -> BuildIds \cup {NoBuild}]
    BY <1>2, <2>1, GotoTypeOK DEF FailRow
  <2>3. CASE class[p] = "transient" /\ seen[p][b] <= MaxRetries
    <3>1. /\ state' = [state EXCEPT ![b] = "queued"]
          /\ attempt' = [attempt EXCEPT ![b] = @ + 1]
          /\ artifacts' = [artifacts EXCEPT ![b] = 0]
          /\ lapsed' = [lapsed EXCEPT ![b] = FALSE]
          /\ UNCHANGED <<class, then, disk, told, faults, leftover, collected>>
      BY <1>2, <2>3 DEF FailRow, FailUpdate
    <3>2. attempt' \in [BuildIds -> Nat \ {0}]
      BY <3>1 DEF TypeOK
    <3>3. QED
      BY <2>2, <3>1, <3>2 DEF TypeOK
  <2>4. CASE ~(class[p] = "transient" /\ seen[p][b] <= MaxRetries)
    BY <1>2, <2>2, <2>4 DEF FailRow, FailUpdate, TypeOK
  <2>5. QED
    BY <2>3, <2>4
<1>3. ASSUME NEW p \in Procs, RemoveDir(p)
      PROVE  TypeOK'
  <2>1. then[p] \in {"idle", "select"} /\ seen[p] \in [BuildIds -> Nat]
    BY DEF TypeOK
  <2>2. QED
    BY <1>3, <2>1, GotoTypeOK DEF RemoveDir, TypeOK, rowVars, NoDir
<1>4. ASSUME NEW p \in Procs, SelectQueued(p)
      PROVE  TypeOK'
  <2>1. Queued \in [BuildIds -> Nat]
    BY DEF Queued, TypeOK
  <2>2. QED
    BY <1>4, <2>1, GotoTypeOK DEF SelectQueued, TypeOK, rowVars
<1>5. ASSUME NEW p \in Procs, NEW b \in BuildIds, Claim(p, b)
      PROVE  TypeOK'
  <2>1. seen[p][b] \in Nat \ {0}
    BY <1>5 DEF Claim, TypeOK
  <2>2. QED
    BY <1>5, <2>1, <1>n, GotoTypeOK DEF Claim, TypeOK
<1>6. ASSUME NEW p \in Procs, NEW b \in BuildIds, ClaimMissed(p, b)
      PROVE  TypeOK'
  <2>1. [seen[p] EXCEPT ![b] = 0] \in [BuildIds -> Nat]
    BY DEF TypeOK
  <2>2. QED
    BY <1>6, <2>1, GotoTypeOK, ZenonT(40) DEF ClaimMissed, TypeOK, rowVars
<1>7. ASSUME NEW p \in Procs, NEW b \in BuildIds, Report(p, b)
      PROVE  TypeOK'
  <2>1. PICK a \in told[b], v \in {"accept", "transient", "deterministic"} :
          BeginReport(p, b, a, v)
    BY <1>7 DEF Report
  <2>2. [Nothing EXCEPT ![b] = a] \in [BuildIds -> Nat]
    BY <1>n, <2>1 DEF TypeOK
  <2>3. QED
    BY <2>1, <2>2, GotoTypeOK DEF BeginReport, TypeOK, rowVars
<1>8. ASSUME NEW p \in Procs, NEW b \in BuildIds, AcceptReport(p, b)
      PROVE  TypeOK'
  <2>1. seen[p][b] \in Nat
    BY DEF TypeOK
  <2>2. QED
    BY <1>8, <2>1, <1>n, GotoTypeOK DEF AcceptReport, TypeOK
<1>9. ASSUME NEW p \in Procs, MakeDir(p)
      PROVE  TypeOK'
  BY <1>9, <1>n, GotoTypeOK DEF MakeDir, TypeOK, rowVars, NoDir
<1>10. ASSUME NEW b \in BuildIds, Upload(b) \/ Cancel(b) \/ Lapse(b)
       PROVE  TypeOK'
  BY <1>10, ZenonT(40) DEF Upload, Cancel, Lapse, TypeOK, rowVars, procVars
<1>11. ASSUME NEW p \in Procs, NEW b \in BuildIds, BeginComplete(p, b)
       PROVE  TypeOK'
  <2>1. [Nothing EXCEPT ![b] = attempt[b]] \in [BuildIds -> Nat]
    BY <1>n DEF TypeOK
  <2>2. QED
    BY <1>11, <2>1, GotoTypeOK DEF BeginComplete, TypeOK, rowVars
<1>12. ASSUME NEW p \in Procs, NEW b \in BuildIds, Complete(p, b)
       PROVE  TypeOK'
  BY <1>12, <1>n, GotoTypeOK DEF Complete, TypeOK
<1>13. ASSUME NEW S \in SUBSET Procs, Abort(S)
       PROVE  TypeOK'
  <2>1. {cur[p] : p \in {q \in S : pc[q] = "cleanup"}} \subseteq BuildIds \cup {NoBuild}
    BY DEF TypeOK
  <2>2. QED
    BY <1>13, <2>1, <1>n, BuildsAssumption DEF Abort, TypeOK, rowVars
<1>14. ASSUME NEW p \in Procs, RemoveFails(p)
       PROVE  TypeOK'
  <2>1. then[p] \in {"idle", "select"} /\ seen[p] \in [BuildIds -> Nat]
    BY DEF TypeOK
  <2>2. faults' \in 0 .. MaxFaults /\ leftover' \subseteq BuildIds \cup {NoBuild}
    BY <1>14, BuildsAssumption DEF RemoveFails, TypeOK
  <2>3. QED
    BY <1>14, <2>1, <2>2, GotoTypeOK DEF RemoveFails, TypeOK, rowVars
<1>15. ASSUME NEW b \in BuildIds, BeginCollect(b)
       PROVE  TypeOK'
  BY <1>15, <1>n, GotoTypeOK DEF BeginCollect, TypeOK, rowVars, Procs
<1>16. CASE Collect
  <2>1. /\ faults' \in 0 .. MaxFaults /\ collected' \subseteq BuildIds \cup {NoBuild}
        /\ disk' \in [BuildIds -> Nat \cup {NoDir}]
    BY <1>16, BuildsAssumption DEF Collect, TypeOK, Procs, NoDir
  <2>2. QED
    BY <1>16, <2>1, <1>n, GotoTypeOK DEF Collect, TypeOK, rowVars, Procs
<1>17. CASE UNCHANGED vars
  BY <1>17 DEF vars, TypeOK
<1> QED
  BY <1>1, <1>2, <1>3, <1>4, <1>5, <1>6, <1>7, <1>8, <1>9, <1>10, <1>11, <1>12,
     <1>13, <1>14, <1>15, <1>16, <1>17
  DEF Next, Sweep, Continue, DropRequest, Crash, Procs

\* Types of rows and handlers hold in every reachable state.
THEOREM TypeCorrect == Spec => []TypeOK
<1>1. QED
  BY InitTypeOK, NextTypeOK, PTL DEF Spec
-----------------------------------------------------------------------------
(* The attempts of a row. *)

LEMMA ProcsFinite ==
  /\ IsFiniteSet(Procs)
  /\ Cardinality(Procs) \in Nat
  /\ \A b \in BuildIds : /\ IsFiniteSet(Retrying(b))
                         /\ Cardinality(Retrying(b)) \in Nat
                         /\ Cardinality(Retrying(b)) <= Cardinality(Procs)
<1>1. IsFiniteSet(Procs)
  BY BuildsAssumption, FS_AddElement DEF Procs
<1>2. \A b \in BuildIds : Retrying(b) \in SUBSET Procs
  BY DEF Retrying
<1>3. QED
  BY <1>1, <1>2, FS_CardinalityType, FS_Subset

\* A row whose attempt stays and whose set of retrying handlers does not
\* grow keeps its budget; so does one with a retryable attempt, whoever reads it.
LEMMA BudgetKept ==
  ASSUME TypeOK, TypeOK', RetryBudget, NEW b \in BuildIds,
         attempt'[b] = attempt[b],
         \/ Retrying(b)' \subseteq Retrying(b)
         \/ attempt[b] <= MaxRetries
  PROVE  attempt'[b] + Cardinality(Retrying(b)') <= MaxRetries + Cardinality(Procs)
<1>1. /\ IsFiniteSet(Procs) /\ Cardinality(Procs) \in Nat
      /\ IsFiniteSet(Retrying(b)) /\ Cardinality(Retrying(b)) \in Nat
  BY ProcsFinite
<1>2. Retrying(b)' \in SUBSET Procs
  BY DEF Retrying
<1>3. Cardinality(Retrying(b)') <= Cardinality(Procs) /\ Cardinality(Retrying(b)') \in Nat
  BY <1>1, <1>2, FS_Subset, FS_CardinalityType
<1>4. attempt[b] + Cardinality(Retrying(b)) <= MaxRetries + Cardinality(Procs)
  BY DEF RetryBudget
<1>5. attempt[b] \in Nat /\ MaxRetries \in Nat
  BY BuildsAssumption DEF TypeOK
<1>6. CASE Retrying(b)' \subseteq Retrying(b)
  <2>1. Cardinality(Retrying(b)') <= Cardinality(Retrying(b))
    BY <1>1, <1>6, FS_Subset
  <2>2. QED
    BY <1>1, <1>3, <1>4, <1>5, <2>1
<1>7. CASE attempt[b] <= MaxRetries
  BY <1>1, <1>3, <1>5, <1>7
<1>8. QED
  BY <1>6, <1>7

\* Steps that start no failure and write no attempt.
LEMMA BudgetUnaffected ==
  ASSUME TypeOK, TypeOK', RetryBudget, UNCHANGED attempt,
         \A b \in BuildIds : Retrying(b)' \subseteq Retrying(b)
  PROVE  RetryBudget'
<1>1. \A b \in BuildIds : attempt'[b] = attempt[b]
  OBVIOUS
<1>2. QED
  BY <1>1, BudgetKept DEF RetryBudget

LEMMA InitRetryBudget == Init => RetryBudget
<1> SUFFICES ASSUME Init, NEW b \in BuildIds
             PROVE  attempt[b] + Cardinality(Retrying(b)) <= MaxRetries + Cardinality(Procs)
  BY DEF RetryBudget
<1>1. Retrying(b) = {}
  BY DEF Init, Retrying
<1>2. Cardinality(Retrying(b)) = 0
  BY <1>1, FS_EmptySet
<1>3. Cardinality(Procs) \in Nat /\ Cardinality(Procs) # 0
  <2>1. Loop \in Procs
    BY DEF Procs
  <2>2. QED
    BY <2>1, ProcsFinite, FS_EmptySet
<1>4. QED
  BY <1>2, <1>3, BuildsAssumption DEF Init

LEMMA NextRetryBudget == TypeOK /\ TypeOK' /\ RetryBudget /\ [Next]_vars => RetryBudget'
<1> SUFFICES ASSUME TypeOK, TypeOK', RetryBudget, [Next]_vars PROVE RetryBudget'
  OBVIOUS
<1>1. ASSUME NEW p \in Procs, NEW next \in {"idle", "select"}, StartSweep(p, next)
      PROVE  RetryBudget'
  <2> SUFFICES ASSUME NEW b \in BuildIds
               PROVE  attempt'[b] + Cardinality(Retrying(b)')
                        <= MaxRetries + Cardinality(Procs)
    BY DEF RetryBudget
  <2>1. attempt'[b] = attempt[b]
    BY <1>1 DEF StartSweep, rowVars
  <2>2. Retrying(b)' \subseteq Retrying(b) \/ attempt[b] <= MaxRetries
    <3>1. SUFFICES ASSUME ~(attempt[b] <= MaxRetries), NEW q \in Retrying(b)'
                   PROVE  q \in Retrying(b)
      OBVIOUS
    <3>2. seen'[p] = Expired
      BY <1>1 DEF StartSweep, Goto, TypeOK
    <3>3. seen'[p][b] \notin 1 .. MaxRetries
      BY <3>1, <3>2, BuildsAssumption DEF Expired, TypeOK
    <3>4. q # p
      BY <3>1, <3>3 DEF Retrying
    <3>5. QED
      BY <1>1, <3>1, <3>4 DEF StartSweep, Goto, Retrying, TypeOK
  <2>3. QED
    BY <2>1, <2>2, BudgetKept
<1>2. ASSUME NEW p \in Procs, NEW c \in BuildIds, FailRow(p, c)
      PROVE  RetryBudget'
  <2>1. CASE class[p] = "transient" /\ seen[p][c] <= MaxRetries
    <3> SUFFICES ASSUME NEW b \in BuildIds
                 PROVE  attempt'[b] + Cardinality(Retrying(b)')
                          <= MaxRetries + Cardinality(Procs)
      BY DEF RetryBudget
    <3>1. /\ attempt' = [attempt EXCEPT ![c] = attempt[c] + 1]
          /\ Goto(p, "cleanup", [seen[p] EXCEPT ![c] = 0], c)
          /\ UNCHANGED class
      BY <1>2, <2>1 DEF FailRow, FailUpdate
    <3>2. Retrying(b)' \subseteq Retrying(b)
      BY <1>2, <3>1 DEF FailRow, Goto, Retrying, TypeOK
    <3>3. CASE b # c
      <4>1. attempt'[b] = attempt[b]
        BY <3>1, <3>3 DEF TypeOK
      <4>2. QED
        BY <3>2, <4>1, BudgetKept
    <3>4. CASE b = c
      <4>1. p \in Retrying(b)
        BY <1>2, <2>1, <3>4, BuildsAssumption DEF FailRow, Retrying, TypeOK
      <4>2. p \notin Retrying(b)'
        BY <3>1, <3>4 DEF Goto, Retrying, TypeOK
      <4>3. Retrying(b)' \in SUBSET (Retrying(b) \ {p})
        BY <3>2, <4>2
      <4>4. /\ IsFiniteSet(Retrying(b) \ {p})
            /\ Cardinality(Retrying(b) \ {p}) = Cardinality(Retrying(b)) - 1
        BY <4>1, ProcsFinite, FS_RemoveElement
      <4>5. /\ Cardinality(Retrying(b)') <= Cardinality(Retrying(b)) - 1
            /\ Cardinality(Retrying(b)') \in Nat
        BY <4>3, <4>4, FS_Subset, FS_CardinalityType
      <4>6. attempt'[b] = attempt[b] + 1
        BY <3>1, <3>4 DEF TypeOK
      <4>7. attempt[b] + Cardinality(Retrying(b)) <= MaxRetries + Cardinality(Procs)
        BY DEF RetryBudget
      <4>8. QED
        BY <4>5, <4>6, <4>7, ProcsFinite, BuildsAssumption DEF TypeOK
    <3>5. QED
      BY <3>3, <3>4
  <2>2. CASE ~(class[p] = "transient" /\ seen[p][c] <= MaxRetries)
    <3>1. UNCHANGED attempt
      BY <1>2, <2>2 DEF FailRow, FailUpdate
    <3>2. \A b \in BuildIds : Retrying(b)' \subseteq Retrying(b)
      BY <1>2 DEF FailRow, Goto, Retrying, TypeOK
    <3>3. QED
      BY <3>1, <3>2, BudgetUnaffected
  <2>3. QED
    BY <2>1, <2>2
<1>3. ASSUME NEW p \in Procs, RemoveDir(p) \/ RemoveFails(p)
      PROVE  RetryBudget'
  <2>1. \A b \in BuildIds : Retrying(b)' \subseteq Retrying(b)
    <3>1. UNCHANGED class /\ seen'[p] = seen[p] /\ pc[p] = "cleanup"
      BY <1>3 DEF RemoveDir, RemoveFails, Goto, TypeOK
    <3>2. \A q \in Procs \ {p} : pc'[q] = pc[q] /\ seen'[q] = seen[q]
      BY <1>3 DEF RemoveDir, RemoveFails, Goto, TypeOK
    <3>3. QED
      BY <3>1, <3>2 DEF Retrying
  <2>2. QED
    BY <1>3, <2>1, BudgetUnaffected DEF RemoveDir, RemoveFails, rowVars
<1>4. ASSUME NEW p \in Procs,
             \/ SelectQueued(p)
             \/ MakeDir(p)
             \/ p = Loop /\ Collect
             \/ p = Loop /\ (\E b \in BuildIds : BeginCollect(b))
             \/ \E b \in BuildIds : \/ Claim(p, b)
                                    \/ ClaimMissed(p, b)
                                    \/ AcceptReport(p, b)
                                    \/ BeginComplete(p, b)
                                    \/ Complete(p, b)
      PROVE  RetryBudget'
  <2> DEFINE LeavesFailures ==
               /\ UNCHANGED <<attempt, class>>
               /\ pc'[p] \notin {"fail", "cleanup"}
               /\ \A q \in Procs \ {p} : pc'[q] = pc[q] /\ seen'[q] = seen[q]
  <2>1. LeavesFailures
    <3>1. CASE SelectQueued(p) \/ MakeDir(p)
      BY <3>1 DEF SelectQueued, MakeDir, Goto, TypeOK, rowVars
    <3>2. ASSUME NEW b \in BuildIds, Claim(p, b) \/ ClaimMissed(p, b)
          PROVE  LeavesFailures
      BY <3>2 DEF Claim, ClaimMissed, Goto, TypeOK, rowVars
    <3>3. ASSUME NEW b \in BuildIds,
                 AcceptReport(p, b) \/ BeginComplete(p, b) \/ Complete(p, b)
          PROVE  LeavesFailures
      BY <3>3 DEF AcceptReport, BeginComplete, Complete, Goto, TypeOK, rowVars
    <3>4. CASE p = Loop /\ Collect
      BY <3>4 DEF Collect, Goto, TypeOK, rowVars
    <3>5. ASSUME NEW b \in BuildIds, p = Loop, BeginCollect(b)
          PROVE  LeavesFailures
      BY <3>5 DEF BeginCollect, Goto, TypeOK, rowVars
    <3>6. QED
      BY <1>4, <3>1, <3>2, <3>3, <3>4, <3>5
  <2>2. \A b \in BuildIds : Retrying(b)' \subseteq Retrying(b)
    BY <2>1 DEF Retrying
  <2>3. QED
    BY <2>1, <2>2, BudgetUnaffected
<1>5. ASSUME NEW p \in Procs, NEW c \in BuildIds, Report(p, c)
      PROVE  RetryBudget'
  <2>1. PICK a \in told[c], v \in {"accept", "transient", "deterministic"} :
          BeginReport(p, c, a, v)
    BY <1>5 DEF Report
  <2> SUFFICES ASSUME NEW b \in BuildIds
               PROVE  attempt'[b] + Cardinality(Retrying(b)')
                        <= MaxRetries + Cardinality(Procs)
    BY DEF RetryBudget
  <2>2. attempt'[b] = attempt[b]
    BY <2>1 DEF BeginReport, rowVars
  <2>3. Retrying(b)' \subseteq Retrying(b) \/ attempt[b] <= MaxRetries
    <3>1. SUFFICES ASSUME ~(attempt[b] <= MaxRetries), NEW q \in Retrying(b)'
                   PROVE  q \in Retrying(b)
      OBVIOUS
    <3>2. seen'[p] = [Nothing EXCEPT ![c] = attempt[c]]
      BY <2>1 DEF BeginReport, Goto, TypeOK
    <3>3. seen'[p][b] \notin 1 .. MaxRetries
      BY <3>1, <3>2, BuildsAssumption DEF Nothing, TypeOK
    <3>4. q # p
      BY <3>1, <3>3 DEF Retrying
    <3>5. QED
      BY <2>1, <3>1, <3>4 DEF BeginReport, Goto, Retrying, TypeOK
  <2>4. QED
    BY <2>2, <2>3, BudgetKept
<1>6. ASSUME NEW c \in BuildIds, Upload(c) \/ Cancel(c) \/ Lapse(c)
      PROVE  RetryBudget'
  <2>1. \A b \in BuildIds : Retrying(b)' \subseteq Retrying(b)
    BY <1>6 DEF Upload, Cancel, Lapse, Retrying, procVars
  <2>2. QED
    BY <1>6, <2>1, BudgetUnaffected DEF Upload, Cancel, Lapse, rowVars
<1>7. ASSUME NEW S \in SUBSET Procs, Abort(S)
      PROVE  RetryBudget'
  <2>1. \A b \in BuildIds : Retrying(b)' \subseteq Retrying(b)
    BY <1>7 DEF Abort, Retrying, TypeOK
  <2>2. QED
    BY <1>7, <2>1, BudgetUnaffected DEF Abort, rowVars
<1>8. CASE UNCHANGED vars
  <2>1. \A b \in BuildIds : Retrying(b)' \subseteq Retrying(b)
    BY <1>8 DEF vars, Retrying
  <2>2. QED
    BY <1>8, <2>1, BudgetUnaffected DEF vars
<1>9. QED
  BY <1>1, <1>2, <1>3, <1>4, <1>5, <1>6, <1>7, <1>8
  DEF Next, Sweep, Continue, DropRequest, Crash, Procs

\* The retry budget of a row is never overdrawn.
THEOREM BudgetHolds == Spec => []RetryBudget
  BY InitTypeOK, NextTypeOK, InitRetryBudget, NextRetryBudget, PTL DEF Spec

\* fail_build never runs a row more often than the retry limit plus the
\* handlers in flight.
THEOREM AttemptsBounded == Spec => []AttemptBound
<1>1. TypeOK /\ RetryBudget => AttemptBound
  BY ProcsFinite, BuildsAssumption DEF TypeOK, RetryBudget, AttemptBound
<1>2. QED
  BY <1>1, TypeCorrect, BudgetHolds, PTL
-----------------------------------------------------------------------------
(* The attempt of a queued row is new to every builder. *)

LEMMA InitFresh == Init => NotAhead /\ FreshAttempt
  BY DEF Init, NotAhead, FreshAttempt, Nothing

\* A step whose attempts do not fall, that tells builders nothing new and
\* whose handlers read only attempts that rows have.
LEMMA FreshKept ==
  ASSUME TypeOK, TypeOK', NotAhead, FreshAttempt,
         UNCHANGED told, UNCHANGED attempt,
         \A b \in BuildIds : state'[b] = "queued" => state[b] = "queued",
         \A p \in Procs, b \in BuildIds :
           seen'[p][b] \in {0, seen[p][b], attempt[b]}
  PROVE  NotAhead' /\ FreshAttempt'
<1>1. NotAhead'
  <2>1. \A q \in Procs, b \in BuildIds :
          /\ attempt[b] \in Nat /\ seen[q][b] <= attempt[b]
          /\ seen'[q][b] \in {0, seen[q][b], attempt[b]}
    BY DEF NotAhead, TypeOK
  <2>2. \A q \in Procs, b \in BuildIds : seen'[q][b] <= attempt[b]
    BY <2>1
  <2>3. QED
    BY <2>2 DEF NotAhead
<1>2. FreshAttempt'
  BY DEF FreshAttempt
<1>3. QED
  BY <1>1, <1>2

LEMMA NextFresh ==
  TypeOK /\ TypeOK' /\ NotAhead /\ FreshAttempt /\ [Next]_vars
    => NotAhead' /\ FreshAttempt'
<1> SUFFICES ASSUME TypeOK, TypeOK', NotAhead, FreshAttempt, [Next]_vars
             PROVE  NotAhead' /\ FreshAttempt'
  OBVIOUS
<1>1. ASSUME NEW p \in Procs, NEW next \in {"idle", "select"}, StartSweep(p, next)
      PROVE  NotAhead' /\ FreshAttempt'
  <2>1. \A b \in BuildIds : Expired[b] \in {0, attempt[b]}
    BY DEF Expired
  <2>2. \A q \in Procs, b \in BuildIds : seen'[q][b] \in {0, seen[q][b], attempt[b]}
    BY <1>1, <2>1 DEF StartSweep, Goto, TypeOK
  <2>3. QED
    BY <1>1, <2>2, FreshKept DEF StartSweep, rowVars
<1>2. ASSUME NEW p \in Procs, NEW c \in BuildIds, FailRow(p, c)
      PROVE  NotAhead' /\ FreshAttempt'
  <2>1. /\ UNCHANGED told
        /\ \A q \in Procs, b \in BuildIds : seen'[q][b] \in {0, seen[q][b]}
    BY <1>2 DEF FailRow, Goto, TypeOK
  <2>2. CASE class[p] = "transient" /\ seen[p][c] <= MaxRetries
    <3>1. /\ attempt' = [attempt EXCEPT ![c] = attempt[c] + 1]
          /\ state' = [state EXCEPT ![c] = "queued"]
      BY <1>2, <2>2 DEF FailRow, FailUpdate
    <3>2. \A b \in BuildIds : attempt[b] <= attempt'[b]
      BY <3>1 DEF TypeOK
    <3>3. NotAhead'
      <4> SUFFICES ASSUME NEW b \in BuildIds
                   PROVE  /\ \A a \in told'[b] : a <= attempt'[b]
                          /\ \A q \in Procs : seen'[q][b] <= attempt'[b]
        BY DEF NotAhead
      <4>1. /\ attempt[b] \in Nat /\ attempt'[b] \in Nat
            /\ told[b] \subseteq Nat
            /\ \A q \in Procs : seen[q][b] \in Nat
        BY DEF TypeOK
      <4>2. \A a \in told'[b] : a <= attempt'[b]
        BY <2>1, <3>2, <4>1 DEF NotAhead
      <4>3. \A q \in Procs : seen[q][b] <= attempt[b]
        BY DEF NotAhead
      <4>4. \A q \in Procs : seen'[q][b] <= attempt'[b]
        BY <2>1, <3>2, <4>1, <4>3
      <4>5. QED
        BY <4>2, <4>4
    <3>4. FreshAttempt'
      <4> SUFFICES ASSUME NEW b \in BuildIds, state'[b] = "queued", NEW a \in told'[b]
                   PROVE  a < attempt'[b]
        BY DEF FreshAttempt
      <4>1. CASE b = c
        BY <2>1, <3>1, <4>1 DEF NotAhead, TypeOK
      <4>2. CASE b # c
        BY <2>1, <3>1, <4>2 DEF FreshAttempt, TypeOK
      <4>3. QED
        BY <4>1, <4>2
    <3>5. QED
      BY <3>3, <3>4
  <2>3. CASE ~(class[p] = "transient" /\ seen[p][c] <= MaxRetries)
    <3>1. state' = [state EXCEPT ![c] = "failed"] /\ UNCHANGED attempt
      BY <1>2, <2>3 DEF FailRow, FailUpdate
    <3>2. \A b \in BuildIds : state'[b] = "queued" => state[b] = "queued"
      BY <3>1 DEF TypeOK
    <3>3. QED
      BY <2>1, <3>1, <3>2, FreshKept
  <2>4. QED
    BY <2>2, <2>3
<1>3. ASSUME NEW p \in Procs,
             \/ RemoveDir(p) \/ RemoveFails(p) \/ SelectQueued(p) \/ MakeDir(p)
             \/ p = Loop /\ Collect
             \/ p = Loop /\ (\E b \in BuildIds : BeginCollect(b))
      PROVE  NotAhead' /\ FreshAttempt'
  <2>1. UNCHANGED <<told, attempt, state>>
    BY <1>3 DEF RemoveDir, RemoveFails, SelectQueued, MakeDir, Collect, BeginCollect, rowVars
  <2>2. seen'[p] \in {seen[p], Nothing, Queued} /\ \A q \in Procs \ {p} : seen'[q] = seen[q]
    BY <1>3 DEF RemoveDir, RemoveFails, SelectQueued, MakeDir, Collect, BeginCollect, Goto, TypeOK
  <2>3. \A q \in Procs, b \in BuildIds : seen'[q][b] \in {0, seen[q][b], attempt[b]}
    BY <2>2 DEF Queued, Nothing
  <2>4. QED
    BY <2>1, <2>3, FreshKept
<1>4. ASSUME NEW p \in Procs, NEW c \in BuildIds, Claim(p, c)
      PROVE  NotAhead' /\ FreshAttempt'
  <2>1. /\ told' = [told EXCEPT ![c] = @ \cup {seen[p][c]}]
        /\ state' = [state EXCEPT ![c] = "running"]
        /\ UNCHANGED attempt
        /\ \A q \in Procs, b \in BuildIds : seen'[q][b] \in {0, seen[q][b]}
    BY <1>4 DEF Claim, Goto, Nothing, TypeOK
  <2>2. NotAhead'
    <3> SUFFICES ASSUME NEW b \in BuildIds
                 PROVE  /\ \A a \in told'[b] : a <= attempt[b]
                        /\ \A q \in Procs : seen'[q][b] <= attempt[b]
      BY <2>1 DEF NotAhead
    <3>1. /\ attempt[b] \in Nat
          /\ \A q \in Procs : seen[q][b] <= attempt[b]
          /\ \A a \in told[b] : a <= attempt[b]
      BY DEF NotAhead, TypeOK
    <3>2. \A q \in Procs : seen'[q][b] <= attempt[b]
      BY <2>1, <3>1
    <3>3. told'[b] \subseteq told[b] \cup {seen[p][b]}
      BY <2>1 DEF TypeOK
    <3>4. QED
      BY <3>1, <3>2, <3>3
  <2>3. FreshAttempt'
    BY <2>1 DEF FreshAttempt, TypeOK
  <2>4. QED
    BY <2>2, <2>3
<1>5. ASSUME NEW p \in Procs, NEW c \in BuildIds, ClaimMissed(p, c)
      PROVE  NotAhead' /\ FreshAttempt'
  BY <1>5, FreshKept DEF ClaimMissed, Goto, rowVars, TypeOK
<1>6. ASSUME NEW p \in Procs, NEW c \in BuildIds, Report(p, c)
      PROVE  NotAhead' /\ FreshAttempt'
  <2>1. PICK a \in told[c], v \in {"accept", "transient", "deterministic"} :
          BeginReport(p, c, a, v)
    BY <1>6 DEF Report
  <2>2. seen' = [seen EXCEPT ![p] = [Nothing EXCEPT ![c] = attempt[c]]]
    BY <2>1 DEF BeginReport, Goto
  <2>3. \A q \in Procs, b \in BuildIds : seen'[q][b] \in {0, seen[q][b], attempt[b]}
    BY <2>2 DEF Nothing, TypeOK
  <2>4. UNCHANGED <<told, attempt, state>>
    BY <2>1 DEF BeginReport, rowVars
  <2>5. QED
    BY <2>3, <2>4, FreshKept
<1>7. ASSUME NEW p \in Procs, NEW c \in BuildIds,
             AcceptReport(p, c) \/ BeginComplete(p, c) \/ Complete(p, c)
      PROVE  NotAhead' /\ FreshAttempt'
  <2>1. /\ UNCHANGED <<told, attempt>>
        /\ \A b \in BuildIds : state'[b] = "queued" => state[b] = "queued"
    BY <1>7 DEF AcceptReport, BeginComplete, Complete, rowVars, TypeOK
  <2>2. \A q \in Procs, b \in BuildIds : seen'[q][b] \in {0, seen[q][b], attempt[b]}
    <3>1. seen'[p] \in {Nothing, [Nothing EXCEPT ![c] = attempt[c]]}
      BY <1>7 DEF AcceptReport, BeginComplete, Complete, Goto, TypeOK
    <3>2. \A q \in Procs \ {p} : seen'[q] = seen[q]
      BY <1>7 DEF AcceptReport, BeginComplete, Complete, Goto, TypeOK
    <3>3. \A b \in BuildIds : seen'[p][b] \in {0, attempt[b]}
      BY <3>1 DEF Nothing
    <3>4. QED
      BY <3>2, <3>3
  <2>3. QED
    BY <2>1, <2>2, FreshKept
<1>8. ASSUME NEW c \in BuildIds, Upload(c) \/ Cancel(c) \/ Lapse(c)
      PROVE  NotAhead' /\ FreshAttempt'
  <2>1. /\ UNCHANGED <<told, attempt, seen>>
        /\ \A b \in BuildIds : state'[b] = "queued" => state[b] = "queued"
    BY <1>8 DEF Upload, Cancel, Lapse, rowVars, procVars, TypeOK
  <2>2. QED
    BY <2>1, FreshKept
<1>9. ASSUME NEW S \in SUBSET Procs, Abort(S)
      PROVE  NotAhead' /\ FreshAttempt'
  BY <1>9, FreshKept DEF Abort, Nothing, rowVars, TypeOK
<1>10. CASE UNCHANGED vars
  BY <1>10, FreshKept DEF vars
<1>11. QED
  BY <1>1, <1>2, <1>3, <1>4, <1>5, <1>6, <1>7, <1>8, <1>9, <1>10
  DEF Next, Sweep, Continue, DropRequest, Crash, Procs

\* The attempt number of a queued row was never told to a builder before, so
\* report's attempt check tells the present lease from every earlier one.
THEOREM AttemptsFresh == Spec => []FreshAttempt
  BY InitTypeOK, NextTypeOK, InitFresh, NextFresh, PTL DEF Spec
-----------------------------------------------------------------------------
(* The files of a succeeded row. *)

\* Handlers that have accepted a report of row b, or its completion, and not
\* yet written it; and that nobody is about to remove the files of b.
Accepting(p, b) == pc[p] = "accept" /\ seen[p][b] # 0
Completing(p, b) == pc[p] = "complete" /\ seen[p][b] # 0
NoCleanup(b) == \A p \in Procs : ~(pc[p] = "cleanup" /\ cur[p] = b)

\* collect_garbage is not about to remove the files of b.
NoCollect(b) == ~(pc[Loop] = "collect" /\ cur[Loop] = b)

\* Finished files belong to the row as it is, or are about to be removed, and
\* no report is taken while they are there.
FilesOwned(b) ==
  disk[b] > 0 =>
    /\ \A p \in Procs : ~Accepting(p, b)
    /\ IF state[b] \in {"uploading", "succeeded"}
         THEN disk[b] = artifacts[b] /\ NoCleanup(b)
         ELSE ~NoCleanup(b)
    /\ state[b] = "uploading" => NoCollect(b)

\* Where the files of b are relied upon they are there, or were collected.
FilesThere(b) ==
  /\ state[b] = "succeeded" => disk[b] > 0 \/ b \in collected
  /\ state[b] = "uploading" => disk[b] > 0 \/ \A p \in Procs : ~Completing(p, b)

\* A completion of an upload that has ended since is of an earlier attempt,
\* and none is under way while a report is.
Outdated(b) ==
  /\ \A p \in Procs :
       Completing(p, b) /\ seen[p][b] = attempt[b] => state[b] \notin {"queued", "running"}
  /\ \A p, q \in Procs : ~(Accepting(p, b) /\ Completing(q, b))

TidyRow(b) == FilesOwned(b) /\ FilesThere(b) /\ Outdated(b)
Tidy == \A b \in BuildIds \ leftover : TidyRow(b)

\* A step that leaves the columns and files of row b alone, and begins nothing
\* about it, keeps the row tidy.
LEMMA Undisturbed ==
  ASSUME NEW b \in BuildIds, TidyRow(b),
         state'[b] = state[b], attempt'[b] = attempt[b],
         artifacts'[b] = artifacts[b], disk'[b] = disk[b],
         \A p \in Procs : Accepting(p, b)' => Accepting(p, b),
         \A p \in Procs : Completing(p, b)' => Completing(p, b) /\ seen'[p][b] = seen[p][b],
         NoCleanup(b)' <=> NoCleanup(b), NoCollect(b) => NoCollect(b)',
         b \in collected => b \in collected'
  PROVE  TidyRow(b)'
<1>1. FilesOwned(b)'
  BY DEF TidyRow, FilesOwned
<1>2. FilesThere(b)'
  BY DEF TidyRow, FilesThere
<1>3. Outdated(b)'
  BY DEF TidyRow, Outdated
<1>4. QED
  BY <1>1, <1>2, <1>3 DEF TidyRow

\* A handler that moves on moves alone.
LEMMA Moves ==
  ASSUME TypeOK, NEW p \in Procs, NEW l, NEW r, NEW c, Goto(p, l, r, c)
  PROVE  /\ pc'[p] = l /\ seen'[p] = r /\ cur'[p] = c
         /\ \A q \in Procs \ {p} :
              pc'[q] = pc[q] /\ seen'[q] = seen[q] /\ cur'[q] = cur[q]
  BY DEF Goto, TypeOK

\* A handler that neither begins nor ends anything about row b leaves it tidy
\* if it does not write to it either.
LEMMA MovesAway ==
  ASSUME TypeOK, NEW b \in BuildIds, TidyRow(b),
         NEW p \in Procs, NEW l, NEW r, NEW c, Goto(p, l, r, c),
         state'[b] = state[b], attempt'[b] = attempt[b],
         artifacts'[b] = artifacts[b], disk'[b] = disk[b],
         pc[p] = "cleanup" => cur[p] # b,
         l = "cleanup" => c # b,
         l = "collect" => c # b,
         l \in {"accept", "complete"} => r[b] = 0,
         b \in collected => b \in collected'
  PROVE  TidyRow(b)'
<1>1. /\ pc'[p] = l /\ seen'[p] = r /\ cur'[p] = c
      /\ \A q \in Procs \ {p} :
           pc'[q] = pc[q] /\ seen'[q] = seen[q] /\ cur'[q] = cur[q]
  BY Moves
<1>2. \A q \in Procs : Accepting(q, b)' => Accepting(q, b)
  BY <1>1 DEF Accepting
<1>3. \A q \in Procs : Completing(q, b)' => Completing(q, b) /\ seen'[q][b] = seen[q][b]
  BY <1>1 DEF Completing
<1>4. NoCleanup(b)' <=> NoCleanup(b)
  BY <1>1 DEF NoCleanup
<1>5. NoCollect(b) => NoCollect(b)'
  BY <1>1 DEF NoCollect, Procs
<1>6. QED
  BY <1>2, <1>3, <1>4, <1>5, Undisturbed

\* fail_build: the files of the row it writes are about to be removed, and
\* completions under way are of an attempt that is over.
LEMMA FailRowTidy ==
  ASSUME TypeOK, NotAhead, NEW p \in Procs, NEW c \in BuildIds, FailRow(p, c),
         NEW b \in BuildIds, TidyRow(b)
  PROVE  TidyRow(b)'
<1>1. /\ pc'[p] = "cleanup" /\ cur'[p] = c
      /\ \A q \in Procs \ {p} :
           pc'[q] = pc[q] /\ seen'[q] = seen[q] /\ cur'[q] = cur[q]
      /\ pc[p] = "fail" /\ UNCHANGED <<disk, collected>>
  BY Moves DEF FailRow
<1>2. CASE b # c
  <2>1. /\ state'[b] = state[b] /\ attempt'[b] = attempt[b]
        /\ artifacts'[b] = artifacts[b]
    BY <1>2 DEF FailRow, FailUpdate, TypeOK
  <2>2. Goto(p, "cleanup", [seen[p] EXCEPT ![c] = 0], c)
    BY DEF FailRow
  <2>3. QED
    BY <1>1, <1>2, <2>1, <2>2, MovesAway
<1>3. CASE b = c
  <2>1. ~NoCleanup(b)'
    BY <1>1, <1>3 DEF NoCleanup
  <2>2. \/ state'[b] = "queued" /\ attempt'[b] = attempt[b] + 1
        \/ state'[b] = "failed" /\ attempt'[b] = attempt[b]
    BY <1>3 DEF FailRow, FailUpdate, TypeOK
  <2>3. /\ \A q \in Procs : Accepting(q, b)' => Accepting(q, b)
        /\ \A q \in Procs : Completing(q, b)' => Completing(q, b) /\ seen'[q][b] = seen[q][b]
    BY <1>1 DEF Accepting, Completing
  <2>4. FilesOwned(b)' /\ FilesThere(b)'
    BY <1>1, <2>1, <2>2, <2>3 DEF TidyRow, FilesOwned, FilesThere
  <2>5. \A q \in Procs : seen[q][b] \in Nat /\ seen[q][b] <= attempt[b] /\ attempt[b] \in Nat
    BY DEF NotAhead, TypeOK
  <2>6. Outdated(b)'
    BY <2>2, <2>3, <2>5 DEF TidyRow, Outdated
  <2>7. QED
    BY <2>4, <2>6 DEF TidyRow
<1>4. QED
  BY <1>2, <1>3

\* The removal of a directory: its row neither succeeded nor is about to.
LEMMA RemoveDirTidy ==
  ASSUME TypeOK, NEW p \in Procs, RemoveDir(p), NEW b \in BuildIds, TidyRow(b)
  PROVE  TidyRow(b)'
<1>1. PICK l \in {"idle", "select", "fail"} : Goto(p, l, seen[p], NoBuild)
  BY DEF RemoveDir, TypeOK
<1>2. pc[p] = "cleanup" /\ UNCHANGED <<state, attempt, artifacts, collected>>
  BY DEF RemoveDir, rowVars
<1>3. CASE cur[p] # b
  <2>1. disk'[b] = disk[b]
    BY <1>3 DEF RemoveDir, TypeOK
  <2>2. QED
    BY <1>1, <1>2, <1>3, <2>1, MovesAway
<1>4. CASE cur[p] = b
  <2>1. disk'[b] = NoDir /\ ~(disk'[b] > 0)
    BY <1>4 DEF RemoveDir, TypeOK, NoDir
  <2>2. ~NoCleanup(b)
    BY <1>2, <1>4 DEF NoCleanup
  <2>3. state[b] = "succeeded" => b \in collected
    BY <2>2 DEF TidyRow, FilesOwned, FilesThere
  <2>4. state[b] = "uploading" => \A q \in Procs : ~Completing(q, b)
    BY <2>2 DEF TidyRow, FilesOwned, FilesThere
  <2>5. /\ pc'[p] = l
        /\ \A q \in Procs \ {p} : pc'[q] = pc[q] /\ seen'[q] = seen[q]
    BY <1>1, Moves
  <2>6. /\ \A q \in Procs : Accepting(q, b)' => Accepting(q, b)
        /\ \A q \in Procs : Completing(q, b)' => Completing(q, b) /\ seen'[q][b] = seen[q][b]
    BY <2>5 DEF Accepting, Completing
  <2>7. FilesOwned(b)'
    BY <2>1 DEF FilesOwned
  <2>8. FilesThere(b)'
    BY <1>2, <2>3, <2>4, <2>6 DEF FilesThere
  <2>9. Outdated(b)'
    BY <1>2, <2>6 DEF TidyRow, Outdated
  <2>10. QED
    BY <2>7, <2>8, <2>9 DEF TidyRow
<1>5. QED
  BY <1>3, <1>4

\* report: it takes a success only when nothing else is under way for the row,
\* whose files, if it has any, are gone by then.
LEMMA BeginReportTidy ==
  ASSUME TypeOK, NEW p \in Procs, NEW c \in BuildIds, Report(p, c),
         NEW b \in BuildIds, TidyRow(b)
  PROVE  TidyRow(b)'
<1>1. PICK a \in told[c], v \in {"accept", "transient", "deterministic"} :
        BeginReport(p, c, a, v)
  BY DEF Report
<1>2. /\ UNCHANGED <<state, attempt, artifacts, disk, collected>>
      /\ pc[p] = "idle" /\ state[c] = "running" /\ attempt[c] = a
  BY <1>1 DEF BeginReport, rowVars
<1>3. CASE v # "accept"
  <2>1. Goto(p, "fail", [Nothing EXCEPT ![c] = a], NoBuild)
    BY <1>1, <1>3 DEF BeginReport
  <2>2. QED
    BY <1>2, <2>1, MovesAway
<1>4. CASE v = "accept"
  <2>1. /\ Goto(p, "accept", [Nothing EXCEPT ![c] = a], NoBuild)
        /\ NoOlderRequest(c, a)
    BY <1>1, <1>4 DEF BeginReport
  <2>2. CASE b # c
    <3>1. [Nothing EXCEPT ![c] = a][b] = 0
      BY <2>2 DEF Nothing
    <3>2. QED
      BY <1>2, <2>1, <3>1, MovesAway
  <2>3. CASE b = c
    <3>1. NoCleanup(b)
      BY <2>1, <2>3 DEF NoOlderRequest, NoCleanup
    <3>2. ~(disk[b] > 0)
      BY <1>2, <2>3, <3>1 DEF TidyRow, FilesOwned
    <3>3. \A q \in Procs : ~Completing(q, b)
      BY <1>2, <2>1, <2>3 DEF NoOlderRequest, Completing, TidyRow, Outdated
    <3>4. /\ pc'[p] = "accept"
          /\ \A q \in Procs \ {p} : pc'[q] = pc[q] /\ seen'[q] = seen[q]
      BY <2>1, Moves
    <3>5. \A q \in Procs : ~Completing(q, b)'
      BY <3>3, <3>4 DEF Completing
    <3>6. state'[b] = "running" /\ disk'[b] = disk[b]
      BY <1>2, <2>3
    <3>7. QED
      BY <3>2, <3>5, <3>6 DEF TidyRow, FilesOwned, FilesThere, Outdated
  <2>4. QED
    BY <2>2, <2>3
<1>5. QED
  BY <1>3, <1>4

\* report's UPDATE: the row begins its upload without files.
LEMMA AcceptReportTidy ==
  ASSUME TypeOK, NEW p \in Procs, NEW c \in BuildIds, AcceptReport(p, c),
         NEW b \in BuildIds, TidyRow(b)
  PROVE  TidyRow(b)'
<1>1. /\ Goto(p, "mkdir", Nothing, c)
      /\ pc[p] = "accept" /\ seen[p][c] # 0 /\ UNCHANGED <<attempt, disk, collected>>
  BY DEF AcceptReport
<1>2. CASE b # c \/ state[c] # "running"
  <2>1. state'[b] = state[b] /\ artifacts'[b] = artifacts[b]
    BY <1>2 DEF AcceptReport, TypeOK
  <2>2. QED
    BY <1>1, <2>1, MovesAway
<1>3. CASE b = c /\ state[c] = "running"
  <2>1. Accepting(p, b)
    BY <1>1, <1>3 DEF Accepting
  <2>2. ~(disk'[b] > 0)
    BY <1>1, <2>1 DEF TidyRow, FilesOwned
  <2>3. \A q \in Procs : ~Completing(q, b)
    BY <2>1 DEF TidyRow, Outdated
  <2>4. /\ pc'[p] = "mkdir"
        /\ \A q \in Procs \ {p} : pc'[q] = pc[q] /\ seen'[q] = seen[q]
    BY <1>1, Moves
  <2>5. \A q \in Procs : ~Completing(q, b)'
    BY <2>3, <2>4 DEF Completing
  <2>6. state'[b] = "uploading"
    BY <1>3 DEF AcceptReport, TypeOK
  <2>7. QED
    BY <2>2, <2>5, <2>6 DEF TidyRow, FilesOwned, FilesThere, Outdated
<1>4. QED
  BY <1>2, <1>3

\* An empty directory is no finished file.
LEMMA MakeDirTidy ==
  ASSUME TypeOK, NEW p \in Procs, MakeDir(p), NEW b \in BuildIds, TidyRow(b)
  PROVE  TidyRow(b)'
<1>1. /\ Goto(p, "idle", Nothing, NoBuild)
      /\ pc[p] = "mkdir" /\ UNCHANGED <<state, attempt, artifacts, collected>>
  BY DEF MakeDir, rowVars
<1>2. CASE disk'[b] = disk[b]
  BY <1>1, <1>2, MovesAway
<1>3. CASE disk'[b] # disk[b]
  <2>1. disk[b] = NoDir /\ disk'[b] = 0
    BY <1>3 DEF MakeDir, TypeOK
  <2>2. ~(disk[b] > 0) /\ ~(disk'[b] > 0)
    BY <2>1 DEF NoDir
  <2>3. /\ pc'[p] = "idle"
        /\ \A q \in Procs \ {p} : pc'[q] = pc[q] /\ seen'[q] = seen[q]
    BY <1>1, Moves
  <2>4. /\ \A q \in Procs : Accepting(q, b)' => Accepting(q, b)
        /\ \A q \in Procs : Completing(q, b)' => Completing(q, b) /\ seen'[q][b] = seen[q][b]
    BY <2>3 DEF Accepting, Completing
  <2>5. FilesOwned(b)'
    BY <2>2 DEF FilesOwned
  <2>6. FilesThere(b)' /\ Outdated(b)'
    BY <1>1, <2>2, <2>4 DEF TidyRow, FilesThere, Outdated
  <2>7. QED
    BY <2>5, <2>6 DEF TidyRow
<1>4. QED
  BY <1>2, <1>3

\* complete begins with an upload that has its files, so no report is under way.
LEMMA BeginCompleteTidy ==
  ASSUME TypeOK, NEW p \in Procs, NEW c \in BuildIds, BeginComplete(p, c),
         NEW b \in BuildIds, TidyRow(b)
  PROVE  TidyRow(b)'
<1>1. /\ Goto(p, "complete", [Nothing EXCEPT ![c] = attempt[c]], NoBuild)
      /\ pc[p] = "idle" /\ UNCHANGED <<state, attempt, artifacts, disk, collected>>
      /\ state[c] = "uploading" /\ disk[c] > 0
  BY DEF BeginComplete, rowVars
<1>2. CASE b # c
  <2>1. [Nothing EXCEPT ![c] = attempt[c]][b] = 0
    BY <1>2 DEF Nothing
  <2>2. QED
    BY <1>1, <2>1, MovesAway
<1>3. CASE b = c
  <2>1. /\ pc'[p] = "complete" /\ cur'[p] = NoBuild
        /\ \A q \in Procs \ {p} :
             pc'[q] = pc[q] /\ seen'[q] = seen[q] /\ cur'[q] = cur[q]
    BY <1>1, Moves
  <2>2. \A q \in Procs : ~Accepting(q, b)
    BY <1>1, <1>3 DEF TidyRow, FilesOwned
  <2>3. \A q \in Procs : ~Accepting(q, b)'
    BY <2>1, <2>2 DEF Accepting
  <2>4. NoCleanup(b)'
    <3>1. NoCleanup(b)
      BY <1>1, <1>3 DEF TidyRow, FilesOwned
    <3>2. QED
      BY <2>1, <3>1 DEF NoCleanup
  <2>5. /\ state'[b] = "uploading" /\ disk'[b] > 0 /\ disk'[b] = artifacts'[b]
    BY <1>1, <1>3 DEF TidyRow, FilesOwned
  <2>6. NoCollect(b)'
    <3>1. NoCollect(b)
      BY <1>1, <1>3 DEF TidyRow, FilesOwned
    <3>2. QED
      BY <2>1, <3>1 DEF NoCollect, Procs
  <2>7. QED
    BY <2>3, <2>4, <2>5, <2>6 DEF TidyRow, FilesOwned, FilesThere, Outdated
<1>4. QED
  BY <1>2, <1>3

\* complete's UPDATE: an upload whose files are there becomes a success.
LEMMA CompleteTidy ==
  ASSUME TypeOK, NEW p \in Procs, NEW c \in BuildIds, Complete(p, c),
         NEW b \in BuildIds, TidyRow(b)
  PROVE  TidyRow(b)'
<1>1. /\ Goto(p, "idle", Nothing, NoBuild)
      /\ pc[p] = "complete" /\ seen[p][c] # 0 /\ UNCHANGED <<attempt, artifacts, disk>>
  BY DEF Complete
<1>2. CASE b # c \/ state[c] # "uploading"
  <2>1. state'[b] = state[b] /\ (b \in collected => b \in collected')
    BY <1>2 DEF Complete, TypeOK
  <2>2. QED
    BY <1>1, <2>1, MovesAway
<1>3. CASE b = c /\ state[c] = "uploading"
  <2>1. Completing(p, b)
    BY <1>1, <1>3 DEF Completing
  <2>2. disk[b] > 0
    BY <1>3, <2>1 DEF TidyRow, FilesThere
  <2>3. disk[b] = artifacts[b] /\ NoCleanup(b) /\ \A q \in Procs : ~Accepting(q, b)
    BY <1>3, <2>2 DEF TidyRow, FilesOwned
  <2>4. /\ pc'[p] = "idle"
        /\ \A q \in Procs \ {p} :
             pc'[q] = pc[q] /\ seen'[q] = seen[q] /\ cur'[q] = cur[q]
    BY <1>1, Moves
  <2>5. NoCleanup(b)' /\ \A q \in Procs : ~Accepting(q, b)'
    BY <2>3, <2>4 DEF NoCleanup, Accepting
  <2>6. state'[b] = "succeeded" /\ disk'[b] > 0 /\ disk'[b] = artifacts'[b]
    BY <1>1, <1>3, <2>2, <2>3 DEF Complete, TypeOK
  <2>7. QED
    BY <2>5, <2>6 DEF TidyRow, FilesOwned, FilesThere, Outdated
<1>4. QED
  BY <1>2, <1>3

\* Cancellation, the upload and the clock.
LEMMA RowTidy ==
  ASSUME TypeOK, NEW c \in BuildIds, Upload(c) \/ Cancel(c) \/ Lapse(c),
         NEW b \in BuildIds, TidyRow(b)
  PROVE  TidyRow(b)'
<1>1. UNCHANGED <<attempt, artifacts, pc, seen, cur, collected>>
  BY DEF Upload, Cancel, Lapse, rowVars, procVars
<1>2. /\ NoCleanup(b)' <=> NoCleanup(b)
      /\ NoCollect(b)' <=> NoCollect(b)
      /\ \A q \in Procs : /\ Accepting(q, b)' <=> Accepting(q, b)
                          /\ Completing(q, b)' <=> Completing(q, b)
  BY <1>1 DEF NoCleanup, NoCollect, Accepting, Completing
<1>3. CASE state'[b] = state[b] /\ disk'[b] = disk[b]
  BY <1>1, <1>2, <1>3, Undisturbed
<1>4. CASE Cancel(c) /\ b = c
  <2>1. state[b] = "queued" /\ state'[b] = "failed" /\ disk'[b] = disk[b]
    BY <1>4 DEF Cancel, TypeOK
  <2>2. QED
    BY <1>1, <1>2, <2>1 DEF TidyRow, FilesOwned, FilesThere, Outdated
<1>5. CASE Upload(c) /\ b = c
  <2>1. /\ state[b] = "uploading" /\ state'[b] = "uploading"
        /\ disk'[b] = artifacts'[b] /\ NoOtherRequest(b)
    BY <1>1, <1>5 DEF Upload, TypeOK, rowVars
  <2>2. /\ NoCleanup(b) /\ NoCollect(b)
        /\ \A q \in Procs : ~Accepting(q, b) /\ ~Completing(q, b)
    BY <2>1 DEF NoOtherRequest, NoCleanup, NoCollect, Accepting, Completing, Procs
  <2>3. QED
    BY <1>2, <2>1, <2>2 DEF TidyRow, FilesOwned, FilesThere, Outdated
<1>6. QED
  BY <1>3, <1>4, <1>5 DEF Upload, Cancel, Lapse, rowVars, TypeOK

\* lease's UPDATE: a queued row is not relied upon, nor is a running one.
LEMMA ClaimTidy ==
  ASSUME TypeOK, NEW p \in Procs, NEW c \in BuildIds, Claim(p, c),
         NEW b \in BuildIds, TidyRow(b)
  PROVE  TidyRow(b)'
<1>1. /\ Goto(p, "idle", Nothing, NoBuild)
      /\ pc[p] = "claim" /\ state[c] = "queued"
      /\ state' = [state EXCEPT ![c] = "running"]
      /\ UNCHANGED <<attempt, artifacts, disk, collected>>
  BY DEF Claim
<1>2. CASE b # c
  <2>1. state'[b] = state[b]
    BY <1>1, <1>2 DEF TypeOK
  <2>2. QED
    BY <1>1, <2>1, MovesAway
<1>3. CASE b = c
  <2>1. state[b] = "queued" /\ state'[b] = "running"
    BY <1>1, <1>3 DEF TypeOK
  <2>2. /\ pc'[p] = "idle"
        /\ \A q \in Procs \ {p} :
             pc'[q] = pc[q] /\ seen'[q] = seen[q] /\ cur'[q] = cur[q]
    BY <1>1, Moves
  <2>3. /\ NoCleanup(b)' <=> NoCleanup(b)
        /\ \A q \in Procs : Accepting(q, b)' => Accepting(q, b)
        /\ \A q \in Procs : Completing(q, b)' => Completing(q, b) /\ seen'[q][b] = seen[q][b]
    BY <1>1, <2>2 DEF NoCleanup, Accepting, Completing
  <2>4. FilesOwned(b)' /\ FilesThere(b)'
    BY <1>1, <2>1, <2>3 DEF TidyRow, FilesOwned, FilesThere
  <2>5. Outdated(b)'
    BY <1>1, <2>1, <2>3 DEF TidyRow, Outdated
  <2>6. QED
    BY <2>4, <2>5 DEF TidyRow
<1>4. QED
  BY <1>2, <1>3

\* An abort of handlers none of which was about to remove the files of b.
LEMMA AbortTidy ==
  ASSUME TypeOK, NEW S \in SUBSET Procs, Abort(S),
         NEW b \in BuildIds \ leftover', TidyRow(b)
  PROVE  TidyRow(b)'
<1>1. /\ UNCHANGED <<state, attempt, artifacts, disk, collected>>
      /\ \A q \in S : pc'[q] = "idle"
      /\ \A q \in Procs \ S : pc'[q] = pc[q] /\ seen'[q] = seen[q] /\ cur'[q] = cur[q]
  BY DEF Abort, rowVars
<1>2. \A q \in S : ~(pc[q] = "cleanup" /\ cur[q] = b)
  BY DEF Abort
<1>3. NoCleanup(b)' <=> NoCleanup(b)
  BY <1>1, <1>2 DEF NoCleanup
<1>4. /\ \A q \in Procs : Accepting(q, b)' => Accepting(q, b)
      /\ \A q \in Procs : Completing(q, b)' => Completing(q, b) /\ seen'[q][b] = seen[q][b]
  BY <1>1 DEF Accepting, Completing
<1>5. NoCollect(b) => NoCollect(b)'
  BY <1>1 DEF NoCollect, Procs
<1>6. QED
  BY <1>1, <1>3, <1>4, <1>5, Undisturbed

\* A removal that fails concerns a row that is not relied upon any more.
LEMMA RemoveFailsTidy ==
  ASSUME TypeOK, NEW p \in Procs, RemoveFails(p),
         NEW b \in BuildIds \ leftover', TidyRow(b)
  PROVE  TidyRow(b)'
<1>1. PICK l \in {"idle", "select", "fail"} : Goto(p, l, seen[p], NoBuild)
  BY DEF RemoveFails, TypeOK
<1>2. cur[p] # b /\ UNCHANGED <<state, attempt, artifacts, disk, collected>>
  BY DEF RemoveFails, rowVars
<1>3. QED
  BY <1>1, <1>2, MovesAway

\* collect_garbage takes a row whose files nobody is about to rely upon.
LEMMA BeginCollectTidy ==
  ASSUME TypeOK, NEW c \in BuildIds, BeginCollect(c), NEW b \in BuildIds, TidyRow(b)
  PROVE  TidyRow(b)'
<1>1. /\ Goto(Loop, "collect", Nothing, c) /\ Loop \in Procs
      /\ pc[Loop] = "idle" /\ state[c] \notin InProgress
      /\ UNCHANGED <<state, attempt, artifacts, disk, collected>>
  BY DEF BeginCollect, rowVars, Procs
<1>2. CASE b # c
  BY <1>1, <1>2, MovesAway
<1>3. CASE b = c
  <2>1. /\ pc'[Loop] = "collect"
        /\ \A q \in Procs \ {Loop} :
             pc'[q] = pc[q] /\ seen'[q] = seen[q] /\ cur'[q] = cur[q]
    BY <1>1, Moves
  <2>2. /\ \A q \in Procs : Accepting(q, b)' => Accepting(q, b)
        /\ \A q \in Procs : Completing(q, b)' => Completing(q, b) /\ seen'[q][b] = seen[q][b]
    BY <2>1 DEF Accepting, Completing
  <2>3. NoCleanup(b)' <=> NoCleanup(b)
    BY <1>1, <2>1 DEF NoCleanup
  <2>4. state[b] # "uploading"
    BY <1>1, <1>3 DEF InProgress
  <2>5. FilesOwned(b)'
    BY <1>1, <2>2, <2>3, <2>4 DEF TidyRow, FilesOwned
  <2>6. FilesThere(b)' /\ Outdated(b)'
    BY <1>1, <2>2, <2>4 DEF TidyRow, FilesThere, Outdated
  <2>7. QED
    BY <2>5, <2>6 DEF TidyRow
<1>4. QED
  BY <1>2, <1>3

\* collect_garbage removes the files: a succeeded row is then a collected one,
\* and an upload that goes on has none yet.
LEMMA CollectTidy ==
  ASSUME TypeOK, Collect, NEW b \in BuildIds, TidyRow(b)
  PROVE  TidyRow(b)'
<1>1. /\ Goto(Loop, "idle", Nothing, NoBuild) /\ Loop \in Procs
      /\ pc[Loop] = "collect" /\ UNCHANGED <<state, attempt, artifacts>>
      /\ b \in collected => b \in collected'
  BY DEF Collect, rowVars, Procs
<1>2. CASE disk'[b] = disk[b]
  BY <1>1, <1>2, MovesAway
<1>3. CASE disk'[b] # disk[b]
  <2>1. cur[Loop] = b /\ disk'[b] = NoDir /\ b \in collected'
    BY <1>3 DEF Collect, TypeOK
  <2>2. ~(disk'[b] > 0)
    BY <2>1 DEF NoDir
  <2>3. state[b] = "uploading" => \A q \in Procs : ~Completing(q, b)
    BY <1>1, <2>1 DEF TidyRow, FilesOwned, FilesThere, NoCollect
  <2>4. /\ pc'[Loop] = "idle"
        /\ \A q \in Procs \ {Loop} : pc'[q] = pc[q] /\ seen'[q] = seen[q]
    BY <1>1, Moves
  <2>5. /\ \A q \in Procs : Accepting(q, b)' => Accepting(q, b)
        /\ \A q \in Procs : Completing(q, b)' => Completing(q, b) /\ seen'[q][b] = seen[q][b]
    BY <2>4 DEF Accepting, Completing
  <2>6. FilesOwned(b)'
    BY <2>2 DEF FilesOwned
  <2>7. FilesThere(b)'
    BY <1>1, <2>1, <2>3, <2>5 DEF FilesThere
  <2>8. Outdated(b)'
    BY <1>1, <2>5 DEF TidyRow, Outdated
  <2>9. QED
    BY <2>6, <2>7, <2>8 DEF TidyRow
<1>4. QED
  BY <1>2, <1>3

\* Rows begin without files.
LEMMA InitTidy == Init => Tidy
<1> SUFFICES ASSUME Init, NEW b \in BuildIds PROVE TidyRow(b)
  BY DEF Tidy
<1>1. disk[b] = NoDir /\ ~(disk[b] > 0) /\ state[b] = "queued"
  BY DEF Init, NoDir
<1>2. \A p \in Procs : ~Accepting(p, b) /\ ~Completing(p, b)
  BY DEF Init, Accepting, Completing
<1>3. QED
  BY <1>1, <1>2 DEF TidyRow, FilesOwned, FilesThere, Outdated

\* Every step keeps the rows tidy whose clean-up was never cut off.
LEMMA NextTidy == TypeOK /\ NotAhead /\ Tidy /\ [Next]_vars => Tidy'
<1> SUFFICES ASSUME TypeOK, NotAhead, Tidy, [Next]_vars, NEW b \in BuildIds \ leftover'
             PROVE  TidyRow(b)'
  BY DEF Tidy
<1>1. leftover \subseteq leftover'
  <2>1. ASSUME NEW S \in SUBSET Procs, Abort(S) PROVE leftover \subseteq leftover'
    BY <2>1 DEF Abort
  <2>2. CASE UNCHANGED leftover
    BY <2>2
  <2>3. ASSUME NEW p \in Procs, Sweep(p) PROVE UNCHANGED leftover
    BY <2>3 DEF Sweep, StartSweep
  <2>4. ASSUME NEW p \in Procs, NEW c \in BuildIds,
               \/ FailRow(p, c) \/ Claim(p, c) \/ ClaimMissed(p, c)
               \/ AcceptReport(p, c) \/ Complete(p, c)
        PROVE  UNCHANGED leftover
    BY <2>4 DEF FailRow, Claim, ClaimMissed, AcceptReport, Complete
  <2>5. ASSUME NEW p \in Procs, RemoveDir(p) \/ SelectQueued(p) \/ MakeDir(p) \/ Collect
        PROVE  UNCHANGED leftover
    BY <2>5 DEF RemoveDir, SelectQueued, MakeDir, Collect
  <2>6. ASSUME NEW p \in Procs, NEW c \in BuildIds, Report(p, c) \/ BeginComplete(p, c)
        PROVE  UNCHANGED leftover
    BY <2>6 DEF Report, BeginReport, BeginComplete
  <2>7. ASSUME NEW c \in BuildIds, Upload(c) \/ Cancel(c) \/ Lapse(c) \/ BeginCollect(c)
        PROVE  UNCHANGED leftover
    BY <2>7 DEF Upload, Cancel, Lapse, BeginCollect
  <2>8. CASE UNCHANGED vars
    BY <2>8 DEF vars
  <2>9. ASSUME NEW p \in Procs, Continue(p) PROVE leftover \subseteq leftover'
    <3>1. CASE RemoveFails(p)
      BY <3>1 DEF RemoveFails
    <3>2. QED
      BY <2>4, <2>5, <2>9, <3>1 DEF Continue
  <2>10. QED
    BY <2>1, <2>2, <2>3, <2>6, <2>7, <2>8, <2>9 DEF Next, DropRequest, Crash, Procs
<1>2. TidyRow(b)
  BY <1>1 DEF Tidy
<1>3. ASSUME NEW p \in Procs, NEW next \in {"idle", "select"}, StartSweep(p, next)
      PROVE  TidyRow(b)'
  BY <1>2, <1>3, MovesAway DEF StartSweep, rowVars
<1>4. ASSUME NEW p \in Procs, SelectQueued(p) PROVE TidyRow(b)'
  BY <1>2, <1>4, MovesAway DEF SelectQueued, rowVars
<1>5. ASSUME NEW p \in Procs, NEW c \in BuildIds, ClaimMissed(p, c) PROVE TidyRow(b)'
  <2>1. PICK l \in {"idle", "claim"} :
          Goto(p, l, [seen[p] EXCEPT ![c] = 0], NoBuild)
    BY <1>5 DEF ClaimMissed
  <2>2. QED
    BY <1>2, <1>5, <2>1, MovesAway DEF ClaimMissed, rowVars
<1>6. ASSUME NEW p \in Procs, Continue(p) PROVE TidyRow(b)'
  BY <1>2, <1>4, <1>5, <1>6, FailRowTidy, RemoveDirTidy, RemoveFailsTidy, CollectTidy,
     ClaimTidy, AcceptReportTidy, MakeDirTidy, CompleteTidy DEF Continue
<1>7. ASSUME NEW p \in Procs, NEW c \in BuildIds, Report(p, c) \/ BeginComplete(p, c)
      PROVE  TidyRow(b)'
  BY <1>2, <1>7, BeginReportTidy, BeginCompleteTidy
<1>8. ASSUME NEW c \in BuildIds, Upload(c) \/ Cancel(c) \/ Lapse(c) \/ BeginCollect(c)
      PROVE  TidyRow(b)'
  BY <1>2, <1>8, RowTidy, BeginCollectTidy
<1>9. ASSUME NEW S \in SUBSET Procs, Abort(S) PROVE TidyRow(b)'
  BY <1>2, <1>9, AbortTidy
<1>10. CASE UNCHANGED vars
  <2>1. /\ NoCleanup(b)' <=> NoCleanup(b)
        /\ NoCollect(b)' <=> NoCollect(b)
        /\ \A q \in Procs : /\ Accepting(q, b)' <=> Accepting(q, b)
                            /\ Completing(q, b)' <=> Completing(q, b)
    BY <1>10 DEF vars, NoCleanup, NoCollect, Accepting, Completing
  <2>2. QED
    BY <1>2, <1>10, <2>1, Undisturbed DEF vars
<1>11. QED
  BY <1>3, <1>6, <1>7, <1>8, <1>9, <1>10 DEF Next, Sweep, DropRequest, Crash, Procs

\* A succeeded row has exactly the files it lists, or none once collect_garbage
\* took them, unless a fail_build of the row ever left its directory behind.
THEOREM FilesMatch == Spec => []SucceededFilesMatch
<1>1. TypeOK /\ Tidy => SucceededFilesMatch
  <2> SUFFICES ASSUME TypeOK, NEW b \in BuildIds, TidyRow(b), state[b] = "succeeded"
               PROVE  disk[b] = artifacts[b] \/ (b \in collected /\ disk[b] <= 0)
    BY DEF Tidy, SucceededFilesMatch
  <2>1. CASE disk[b] > 0
    BY <2>1 DEF TidyRow, FilesOwned
  <2>2. CASE ~(disk[b] > 0)
    <3>1. b \in collected
      BY <2>2 DEF TidyRow, FilesThere
    <3>2. disk[b] <= 0
      BY <2>2 DEF TypeOK, NoDir
    <3>3. QED
      BY <3>1, <3>2
  <2>3. QED
    BY <2>1, <2>2
<1>2. Spec => []Tidy
  BY InitTypeOK, NextTypeOK, InitFresh, NextFresh, InitTidy, NextTidy, PTL DEF Spec
<1>3. QED
  BY <1>1, <1>2, TypeCorrect, PTL
=============================================================================
