-------------------------- MODULE SchedulingProofs --------------------------
(***************************************************************************)
(* Proofs about Scheduling for any packages, requests and events: types,   *)
(* that the closure is what the subscriptions need, that rows in progress  *)
(* do not pile up, that what is published has its dependencies with it,    *)
(* and that clean-up spares what is used.                                  *)
(***************************************************************************)
EXTENDS ClosureProofs

-----------------------------------------------------------------------------
(* The inductive invariant.                                                *)

\* The records of the table, and what a process has in hand.
Row == [base : Bases, rev : Nat, st : States, deps : SUBSET Nat, files : BOOLEAN]
Task == [id : Nat, base : Nat, rev : Nat, deps : SUBSET Nat]
\* The steps of the two kinds of processes.
LoopSteps == {"read", "cancel", "schedule", "insert", "publish", "rest", "gc"}
HandlerSteps == {"idle", "pick", "claim", "insert"}

\* Packages, with the domains of the functions.
Packages ==
  /\ PackageTypes
  /\ choice \in [Bases -> [Names -> Nat]]
  /\ known \in [Bases -> Nat] /\ approved \in [Bases -> Nat]
  /\ reviewing \subseteq Bases
  /\ \A b \in reviewing : approved[b] < known[b]

\* Rows are of revisions there are, and take builds there are.
RowTypes ==
  /\ rows \in Seq(Row)
  /\ \A i \in Ids : rows[i].rev \in Revisions(rows[i].base) /\ rows[i].deps \subseteq Ids

\* What process p has in hand is there.
Hand(p) ==
  /\ pc[p] = "insert" => cur[p].base \in Bases /\ cur[p].rev \in Revisions(cur[p].base)
  /\ pc[p] = "claim" => cur[p].id \in Ids /\ cur[p].deps \subseteq Ids
  /\ pc[p] \in {"schedule", "insert"} => left[p] \subseteq Bases
  /\ pc[p] \notin {"schedule", "insert"} => left[p] \subseteq Ids

\* Every process is at a step of its kind, with something that is there.
Hands ==
  /\ pc \in [Procs -> LoopSteps \cup HandlerSteps]
  /\ view \in [Procs -> Searches]
  /\ left \in [Procs -> SUBSET Nat]
  /\ cur \in [Procs -> Task]
  /\ pc[Loop] \in LoopSteps
  /\ \A p \in Requests : pc[p] \in HandlerSteps
  /\ \A p \in Procs : Hand(p)

\* Rows with files are rows that succeeded, and those are recorded as finished.
Recorded ==
  /\ \A i \in Ids : rows[i].files => rows[i].st = "succeeded"
  /\ finished \in Seq(Nat)
  /\ \A k \in 1 .. Len(finished) : finished[k] \in Ids
  /\ \A i \in Ids : rows[i].st = "succeeded" => \E k \in 1 .. Len(finished) : finished[k] = i

\* The builds that have succeeded.
Done == {i \in Ids : rows[i].st = "succeeded"}

\* Publications list files of those, or of no row.
Listed ==
  /\ plans \in Seq(SUBSET Nat) /\ Len(plans) <= KeptPlans
  /\ \A k \in 1 .. Len(plans) : plans[k] \subseteq Done \cup {None}

\* The rest of the types.
Others ==
  /\ keep \subseteq Ids /\ failing \subseteq Ids /\ revived \subseteq Ids
  /\ happened \in 0 .. MaxEvents /\ moved \in BOOLEAN

\* The inductive invariant.
Sound == Packages /\ RowTypes /\ Hands /\ Recorded /\ Listed /\ Others

-----------------------------------------------------------------------------
(* Who changes what.                                                       *)

\* Packages change in six ways.
LEMMA WhoChangesPackages ==
  ASSUME [Next]_vars
  PROVE  \/ UNCHANGED packageVars
         \/ \E b \in Bases : \/ Ingest(b) \/ Approve(b) \/ Reject(b)
                             \/ Subscribe(b) \/ Unsubscribe(b) \/ SelectProvider(b)
<1>1. CASE LoopStep
  BY <1>1 DEF LoopStep, ReadClosure, Cancel, CheckMember, InsertRow, CheckActive, Publish,
     EndGarbage,
       packageVars
<1>2. CASE BeginGarbage \/ (\E i \in Ids : RemoveFiles(i)) \/ Crash
  BY <1>2 DEF BeginGarbage, RemoveFiles, Crash, packageVars
<1>3. CASE \E p \in Requests : HandlerStep(p) \/ \E b \in Bases : Rebuild(p, b)
  BY <1>3 DEF HandlerStep, BeginLease, Pick, Claim, InsertRow, Rebuild, packageVars
<1>4. CASE \E i \in Ids : Fetch(i) \/ Succeed(i) \/ Report(i) \/ FailBuild(i)
  BY <1>4 DEF Fetch, Succeed, Report, FailBuild, packageVars
<1>5. CASE UNCHANGED vars
  BY <1>5 DEF vars, packageVars
<1>6. QED
  BY <1>1, <1>2, <1>3, <1>4, <1>5 DEF Next

\* Rows change in seven.
LEMMA WhoChangesRows ==
  ASSUME [Next]_vars
  PROVE  \/ UNCHANGED rows
         \/ Cancel
         \/ \E p \in Procs : InsertRow(p)
         \/ \E p \in Procs : Claim(p)
         \/ \E i \in Ids : RemoveFiles(i) \/ Fetch(i) \/ Succeed(i) \/ FailBuild(i)
<1>1. CASE LoopStep
  BY <1>1 DEF LoopStep, ReadClosure, CheckMember, CheckActive,
     Publish, EndGarbage, Procs
<1>2. CASE BeginGarbage \/ (\E i \in Ids : RemoveFiles(i)) \/ Crash
  BY <1>2 DEF BeginGarbage, Crash
<1>3. CASE \E p \in Requests : HandlerStep(p) \/ \E b \in Bases : Rebuild(p, b)
  BY <1>3 DEF HandlerStep, BeginLease, Pick, Rebuild, Procs
<1>4. CASE \E b \in Bases : \/ Ingest(b) \/ Approve(b) \/ Reject(b)
                            \/ Subscribe(b) \/ Unsubscribe(b) \/ SelectProvider(b)
  BY <1>4 DEF Ingest, Approve, Reject, Subscribe, Unsubscribe, SelectProvider
<1>5. CASE \E i \in Ids : Fetch(i) \/ Succeed(i) \/ Report(i) \/ FailBuild(i)
  BY <1>5 DEF Report
<1>6. CASE UNCHANGED vars
  BY <1>6 DEF vars
<1>7. QED
  BY <1>1, <1>2, <1>3, <1>4, <1>5, <1>6 DEF Next

\* Builds finish by Succeed alone.
LEMMA WhoFinishes ==
  ASSUME [Next]_vars
  PROVE  UNCHANGED finished \/ \E i \in Ids : Succeed(i)
<1>1. CASE LoopStep
  BY <1>1 DEF LoopStep, ReadClosure, Cancel, CheckMember, InsertRow, CheckActive, Publish,
     EndGarbage
<1>2. CASE BeginGarbage \/ (\E i \in Ids : RemoveFiles(i)) \/ Crash
  BY <1>2 DEF BeginGarbage, RemoveFiles, Crash
<1>3. CASE \E p \in Requests : HandlerStep(p) \/ \E b \in Bases : Rebuild(p, b)
  BY <1>3 DEF HandlerStep, BeginLease, Pick, Claim, InsertRow, Rebuild
<1>4. CASE \E b \in Bases : \/ Ingest(b) \/ Approve(b) \/ Reject(b)
                            \/ Subscribe(b) \/ Unsubscribe(b) \/ SelectProvider(b)
  BY <1>4 DEF Ingest, Approve, Reject, Subscribe, Unsubscribe, SelectProvider
<1>5. CASE \E i \in Ids : Fetch(i) \/ Succeed(i) \/ Report(i) \/ FailBuild(i)
  BY <1>5 DEF Fetch, Report, FailBuild
<1>6. CASE UNCHANGED vars
  BY <1>6 DEF vars
<1>7. QED
  BY <1>1, <1>2, <1>3, <1>4, <1>5, <1>6 DEF Next

\* The loop publishes, and fail_build takes builds from publications.
LEMMA WhoPublishes ==
  ASSUME [Next]_vars
  PROVE  UNCHANGED plans \/ Publish \/ \E i \in Ids : FailBuild(i)
<1>1. CASE LoopStep
  BY <1>1 DEF LoopStep, ReadClosure, Cancel, CheckMember, InsertRow, CheckActive, EndGarbage
<1>2. CASE BeginGarbage \/ (\E i \in Ids : RemoveFiles(i)) \/ Crash
  BY <1>2 DEF BeginGarbage, RemoveFiles, Crash
<1>3. CASE \E p \in Requests : HandlerStep(p) \/ \E b \in Bases : Rebuild(p, b)
  BY <1>3 DEF HandlerStep, BeginLease, Pick, Claim, InsertRow, Rebuild
<1>4. CASE \E b \in Bases : \/ Ingest(b) \/ Approve(b) \/ Reject(b)
                            \/ Subscribe(b) \/ Unsubscribe(b) \/ SelectProvider(b)
  BY <1>4 DEF Ingest, Approve, Reject, Subscribe, Unsubscribe, SelectProvider
<1>5. CASE \E i \in Ids : Fetch(i) \/ Succeed(i) \/ Report(i) \/ FailBuild(i)
  BY <1>5 DEF Fetch, Succeed, Report
<1>6. CASE UNCHANGED vars
  BY <1>6 DEF vars
<1>7. QED
  BY <1>1, <1>2, <1>3, <1>4, <1>5, <1>6 DEF Next

\* Processes change by their own steps or by a crash.
LEMMA WhoChangesHands ==
  ASSUME [Next]_vars
  PROVE  \/ UNCHANGED procVars
         \/ LoopStep \/ BeginGarbage \/ Crash
         \/ \E p \in Requests : HandlerStep(p) \/ \E b \in Bases : Rebuild(p, b)
<1>1. CASE \E i \in Ids : RemoveFiles(i)
  BY <1>1 DEF RemoveFiles, procVars
<1>2. CASE \E b \in Bases : \/ Ingest(b) \/ Approve(b) \/ Reject(b)
                            \/ Subscribe(b) \/ Unsubscribe(b) \/ SelectProvider(b)
  BY <1>2 DEF Ingest, Approve, Reject, Subscribe, Unsubscribe, SelectProvider, procVars
<1>3. CASE \E i \in Ids : Fetch(i) \/ Succeed(i) \/ Report(i) \/ FailBuild(i)
  BY <1>3 DEF Fetch, Succeed, Report, FailBuild, procVars
<1>4. CASE UNCHANGED vars
  BY <1>4 DEF vars, procVars
<1>5. QED
  BY <1>1, <1>2, <1>3, <1>4 DEF Next

-----------------------------------------------------------------------------
(* How rows change.                                                        *)

\* Row i gets state s, dependencies D and files f.
Edited(i, s, D, f) ==
  rows' = [rows EXCEPT ![i] = [base |-> rows[i].base, rev |-> rows[i].rev, st |-> s,
                               deps |-> D, files |-> f]]

\* A row, with one field or two changed.
LEMMA RowFields ==
  ASSUME NEW r \in Row, NEW s, NEW D, NEW f
  PROVE  /\ [r EXCEPT !.st = s] =
              [base |-> r.base, rev |-> r.rev, st |-> s, deps |-> r.deps, files |-> r.files]
         /\ [r EXCEPT !.files = f] =
              [base |-> r.base, rev |-> r.rev, st |-> r.st, deps |-> r.deps, files |-> f]
         /\ [r EXCEPT !.st = s, !.deps = D] =
              [base |-> r.base, rev |-> r.rev, st |-> s, deps |-> D, files |-> r.files]
         /\ [r EXCEPT !.st = s, !.files = f] =
              [base |-> r.base, rev |-> r.rev, st |-> s, deps |-> r.deps, files |-> f]
<1>. DEFINE u == [r EXCEPT !.st = s]
<1>1. u = [base |-> r.base, rev |-> r.rev, st |-> s, deps |-> r.deps, files |-> r.files]
  BY DEF Row
<1>2. [r EXCEPT !.files = f] =
        [base |-> r.base, rev |-> r.rev, st |-> r.st, deps |-> r.deps, files |-> f]
  BY DEF Row
<1>3. /\ [r EXCEPT !.st = s, !.deps = D] = [u EXCEPT !.deps = D]
      /\ [r EXCEPT !.st = s, !.files = f] = [u EXCEPT !.files = f]
  BY DEF Row
<1>. HIDE DEF u
<1>4. [u EXCEPT !.deps = D] =
        [base |-> r.base, rev |-> r.rev, st |-> s, deps |-> D, files |-> r.files]
  BY <1>1
<1>5. [u EXCEPT !.files = f] =
        [base |-> r.base, rev |-> r.rev, st |-> s, deps |-> r.deps, files |-> f]
  BY <1>1
<1>6. QED
  BY <1>1, <1>2, <1>3, <1>4, <1>5 DEF u

\* What row i is.
LEMMA RowThere ==
  ASSUME RowTypes, NEW i \in Ids
  PROVE  /\ rows[i] \in Row /\ i \in Nat /\ i # None
         /\ DOMAIN rows = Ids
BY DEF RowTypes, Ids, None

\* The actions on a single row are edits of it.
LEMMA ClaimEdits ==
  ASSUME Sound, NEW p \in Procs, Claim(p), ~ UNCHANGED rows
  PROVE  /\ cur[p].id \in Ids /\ rows[cur[p].id].st = "queued" /\ cur[p].deps \subseteq Ids
         /\ Edited(cur[p].id, "running", cur[p].deps, rows[cur[p].id].files)
<1>. DEFINE i == cur[p].id
            D == cur[p].deps
<1>1. i \in Ids /\ D \subseteq Ids
  BY DEF Claim, Sound, Hands, Hand
<1>2. rows[i].st = "queued" /\ rows' = [rows EXCEPT ![i].st = "running", ![i].deps = D]
  BY DEF Claim
<1>3. rows[i] \in Row
  BY <1>1, RowThere DEF Sound
<1>. HIDE DEF i, D
<1>4. [rows[i] EXCEPT !.st = "running", !.deps = D] =
        [base |-> rows[i].base, rev |-> rows[i].rev, st |-> "running", deps |-> D,
         files |-> rows[i].files]
  BY <1>3, RowFields
<1>5. rows' = [rows EXCEPT ![i] = [rows[i] EXCEPT !.st = "running", !.deps = D]]
  BY <1>2
<1>6. Edited(i, "running", D, rows[i].files)
  BY <1>4, <1>5 DEF Edited
<1>7. QED
  BY <1>1, <1>2, <1>6 DEF i, D

\* Removing files is an edit.
LEMMA RemoveEdits ==
  ASSUME Sound, NEW i \in Ids, RemoveFiles(i)
  PROVE  Edited(i, rows[i].st, rows[i].deps, FALSE)
<1>1. rows[i] \in Row
  BY RowThere DEF Sound
<1>2. rows' = [rows EXCEPT ![i] = [rows[i] EXCEPT !.files = FALSE]]
  BY DEF RemoveFiles
<1>3. [rows[i] EXCEPT !.files = FALSE] =
        [base |-> rows[i].base, rev |-> rows[i].rev, st |-> rows[i].st,
         deps |-> rows[i].deps, files |-> FALSE]
  BY <1>1, RowFields
<1>4. QED
  BY <1>2, <1>3 DEF Edited

\* So is a new state,
LEMMA StateEdits ==
  ASSUME Sound, NEW i \in Ids, NEW s, rows' = [rows EXCEPT ![i].st = s]
  PROVE  Edited(i, s, rows[i].deps, rows[i].files)
<1>1. rows[i] \in Row
  BY RowThere DEF Sound
<1>2. rows' = [rows EXCEPT ![i] = [rows[i] EXCEPT !.st = s]]
  OBVIOUS
<1>3. [rows[i] EXCEPT !.st = s] =
        [base |-> rows[i].base, rev |-> rows[i].rev, st |-> s,
         deps |-> rows[i].deps, files |-> rows[i].files]
  BY <1>1, RowFields
<1>4. QED
  BY <1>2, <1>3 DEF Edited

\* and success.
LEMMA SucceedEdits ==
  ASSUME Sound, NEW i \in Ids, Succeed(i)
  PROVE  Edited(i, "succeeded", rows[i].deps, TRUE)
<1>1. rows[i] \in Row
  BY RowThere DEF Sound
<1>2. rows' = [rows EXCEPT ![i] = [rows[i] EXCEPT !.st = "succeeded", !.files = TRUE]]
  BY DEF Succeed
<1>3. [rows[i] EXCEPT !.st = "succeeded", !.files = TRUE] =
        [base |-> rows[i].base, rev |-> rows[i].rev, st |-> "succeeded",
         deps |-> rows[i].deps, files |-> TRUE]
  BY <1>1, RowFields
<1>4. QED
  BY <1>2, <1>3 DEF Edited

\* So is what fail_build does.
LEMMA FailEdits ==
  ASSUME Sound, NEW i \in Ids, FailBuild(i)
  PROVE  \E s \in {"queued", "failed"} : Edited(i, s, rows[i].deps, FALSE)
<1>1. rows[i] \in Row
  BY RowThere DEF Sound
<1>2. PICK s \in {"queued", "failed"} :
        rows' = [rows EXCEPT ![i].st = s, ![i].files = FALSE]
  BY DEF FailBuild
<1>3. rows' = [rows EXCEPT ![i] = [rows[i] EXCEPT !.st = s, !.files = FALSE]]
  BY <1>2
<1>4. [rows[i] EXCEPT !.st = s, !.files = FALSE] =
        [base |-> rows[i].base, rev |-> rows[i].rev, st |-> s,
         deps |-> rows[i].deps, files |-> FALSE]
  BY <1>1, RowFields
<1>5. QED
  BY <1>3, <1>4 DEF Edited

\* What an edit does to each row.
LEMMA EditFacts ==
  ASSUME Sound, NEW i \in Ids, NEW s \in States, NEW D \in SUBSET Ids, NEW f \in BOOLEAN,
         Edited(i, s, D, f)
  PROVE  /\ rows' \in Seq(Row) /\ Len(rows') = Len(rows) /\ Ids' = Ids
         /\ \A j \in Ids : j # i => rows'[j] = rows[j]
         /\ rows'[i].base = rows[i].base /\ rows'[i].rev = rows[i].rev
         /\ rows'[i].st = s /\ rows'[i].deps = D /\ rows'[i].files = f
<1>. DEFINE r == [base |-> rows[i].base, rev |-> rows[i].rev, st |-> s, deps |-> D,
                  files |-> f]
<1>1. rows \in Seq(Row) /\ rows[i] \in Row /\ i \in 1 .. Len(rows) /\ D \in SUBSET Nat
  BY RowThere DEF Sound, RowTypes, Ids
<1>2. r \in Row
  BY <1>1 DEF Row
<1>3. /\ r.base = rows[i].base /\ r.rev = rows[i].rev
      /\ r.st = s /\ r.deps = D /\ r.files = f
  OBVIOUS
<1>4. rows' = [rows EXCEPT ![i] = r]
  BY DEF Edited
<1>. HIDE DEF r
<1>5. /\ rows' \in Seq(Row) /\ Len(rows') = Len(rows)
      /\ \A j \in 1 .. Len(rows) : rows'[j] = IF j = i THEN r ELSE rows[j]
  BY <1>1, <1>2, <1>4
<1>6. Ids' = Ids
  BY <1>5 DEF Ids
<1>7. QED
  BY <1>1, <1>3, <1>5, <1>6 DEF Ids

\* A build that succeeds, and a build that loses its files.
LEMMA SucceedFacts ==
  ASSUME Sound, NEW i \in Ids, Succeed(i)
  PROVE  /\ Ids' = Ids /\ \A j \in Ids : j # i => rows'[j] = rows[j]
         /\ rows'[i].base = rows[i].base /\ rows'[i].rev = rows[i].rev
         /\ rows'[i].st = "succeeded" /\ rows'[i].files = TRUE
<1>1. Edited(i, "succeeded", rows[i].deps, TRUE)
  BY SucceedEdits
<1>2. "succeeded" \in States /\ rows[i].deps \in SUBSET Ids
  BY DEF States, Sound, RowTypes
<1>3. QED
  BY <1>1, <1>2, EditFacts DEF Edited

\* A build that loses its files.
LEMMA RemoveFacts ==
  ASSUME Sound, NEW i \in Ids, RemoveFiles(i)
  PROVE  /\ Ids' = Ids /\ \A j \in Ids : j # i => rows'[j] = rows[j]
         /\ rows'[i].base = rows[i].base /\ rows'[i].rev = rows[i].rev
         /\ rows'[i].st = rows[i].st /\ rows'[i].files = FALSE
<1>1. Edited(i, rows[i].st, rows[i].deps, FALSE)
  BY RemoveEdits
<1>2. rows[i].st \in States /\ rows[i].deps \in SUBSET Ids
  BY RowThere DEF Row, Sound, RowTypes
<1>3. QED
  BY <1>1, <1>2, EditFacts DEF Edited

\* What may happen to row j that there is: its package and revision stay, and
\* so does its state once it is at rest, unless fail_build gets to it.
Usual(j) ==
  /\ rows'[j].base = rows[j].base /\ rows'[j].rev = rows[j].rev
  /\ rows[j].st \notin Live => rows'[j].st = rows[j].st \/ FailBuild(j)
  /\ rows'[j].st = "succeeded" /\ rows[j].st # "succeeded" => Succeed(j)
  /\ rows'[j].files /\ ~ rows[j].files => Succeed(j)
  /\ rows[j].files /\ ~ rows'[j].files => RemoveFiles(j) \/ FailBuild(j)
  /\ rows'[j].files => rows'[j].st = "succeeded"
  /\ rows'[j].deps \subseteq Ids

\* Row j is what process p inserts.
Inserts(p, j) ==
  /\ InsertRow(p)
  /\ j = Len(rows) + 1
  /\ rows'[j].base = cur[p].base /\ rows'[j].rev = cur[p].rev
  /\ rows'[j].st = "queued" /\ rows'[j].deps = {} /\ ~ rows'[j].files
  /\ cur[p].base \in Bases /\ cur[p].rev \in Revisions(cur[p].base)

\* How the table changes: rows as they may, and insertions.
RowsMove ==
  /\ rows' \in Seq(Row) /\ Ids \subseteq Ids'
  /\ \A j \in Ids : Usual(j)
  /\ \A j \in Ids' \ Ids : \E p \in Procs : Inserts(p, j)

\* A row nobody touches.
LEMMA Untouched ==
  ASSUME Sound, NEW j \in Ids, rows'[j] = rows[j]
  PROVE  Usual(j)
BY DEF Usual, Sound, Recorded, RowTypes

\* An edit that is one of those there are.
LEMMA EditMoves ==
  ASSUME Sound, NEW i \in Ids, NEW s \in States, NEW D \in SUBSET Ids, NEW f \in BOOLEAN,
         Edited(i, s, D, f),
         rows[i].st \notin Live => s = rows[i].st \/ FailBuild(i),
         s = "succeeded" /\ rows[i].st # "succeeded" => Succeed(i),
         f = TRUE /\ ~ rows[i].files => Succeed(i),
         rows[i].files /\ f = FALSE => RemoveFiles(i) \/ FailBuild(i),
         f = TRUE => s = "succeeded"
  PROVE  RowsMove
<1>1. /\ rows' \in Seq(Row) /\ Ids' = Ids
      /\ \A j \in Ids : j # i => rows'[j] = rows[j]
      /\ rows'[i].base = rows[i].base /\ rows'[i].rev = rows[i].rev
      /\ rows'[i].st = s /\ rows'[i].deps = D /\ rows'[i].files = f
  BY EditFacts, ZenonT(40) DEF Edited
<1>2. Usual(i)
  BY <1>1 DEF Usual
<1>3. \A j \in Ids : Usual(j)
  BY <1>1, <1>2, Untouched
<1>4. QED
  BY <1>1, <1>3 DEF RowsMove

\* An insertion leaves the other rows alone.
LEMMA InsertMoves ==
  ASSUME Sound, NEW p \in Procs, InsertRow(p)
  PROVE  /\ RowsMove /\ Len(rows') = Len(rows) + 1
         /\ \A j \in Ids : rows'[j] = rows[j]
         /\ Inserts(p, Len(rows) + 1)
<1>. DEFINE r == [base |-> cur[p].base, rev |-> cur[p].rev, st |-> "queued",
                  deps |-> {}, files |-> FALSE]
            n == Len(rows)
<1>1. cur[p].base \in Bases /\ cur[p].rev \in Revisions(cur[p].base)
  BY DEF InsertRow, Sound, Hands, Hand
<1>2. cur[p].rev \in Nat
  BY DEF Sound, Hands, Task
<1>3. r \in Row
  BY <1>1, <1>2 DEF Row, States, Live
<1>4. rows \in Seq(Row) /\ rows' = Append(rows, r)
  BY DEF Sound, RowTypes, InsertRow
<1>. HIDE DEF r
<1>5. /\ rows' \in Seq(Row) /\ n \in Nat /\ Len(rows') = n + 1
      /\ \A j \in 1 .. n : rows'[j] = rows[j]
      /\ rows'[n + 1] = r
  BY <1>3, <1>4
<1>6. Ids \subseteq Ids' /\ Ids' \ Ids = {n + 1}
  BY <1>5 DEF Ids
<1>7. \A j \in Ids : rows'[j] = rows[j]
  BY <1>5 DEF Ids
<1>8. \A j \in Ids : Usual(j)
  BY <1>7, Untouched
<1>9. Inserts(p, n + 1)
  BY <1>1, <1>5 DEF Inserts, r
<1>10. QED
  BY <1>5, <1>6, <1>7, <1>8, <1>9 DEF RowsMove

\* schedule's cancellations are changes rows may undergo.
LEMMA CancelMoves ==
  ASSUME Sound, Cancel
  PROVE  RowsMove
<1>1. rows \in Seq(Row) /\ Ids = 1 .. Len(rows) /\ Len(rows) \in Nat
  BY DEF Sound, RowTypes, Ids
<1>2. rows' = [i \in Ids |-> IF Obsolete(i, view[Loop])
                              THEN [rows[i] EXCEPT !.st = "failed"] ELSE rows[i]]
  BY DEF Cancel
<1>3. ASSUME NEW i \in Ids
      PROVE  /\ rows'[i] \in Row
             /\ \/ rows'[i] = rows[i]
                \/ /\ rows[i].st = "queued"
                   /\ rows'[i] = [base |-> rows[i].base, rev |-> rows[i].rev, st |-> "failed",
                                  deps |-> rows[i].deps, files |-> rows[i].files]
  <2>1. rows[i] \in Row
    BY RowThere DEF Sound
  <2>2. [rows[i] EXCEPT !.st = "failed"] =
          [base |-> rows[i].base, rev |-> rows[i].rev, st |-> "failed",
           deps |-> rows[i].deps, files |-> rows[i].files]
    BY <2>1, RowFields
  <2>3. [rows[i] EXCEPT !.st = "failed"] \in Row
    BY <2>1 DEF Row, States
  <2>4. QED
    BY <1>2, <2>1, <2>2, <2>3 DEF Obsolete
<1>4. rows' \in Seq(Row) /\ Ids' = Ids
  <2>1. rows' \in [1 .. Len(rows) -> Row]
    BY <1>1, <1>2, <1>3
  <2>2. rows' \in Seq(Row) /\ Len(rows') = Len(rows)
    BY <1>1, <2>1
  <2>3. QED
    BY <2>2 DEF Ids
<1>5. ASSUME NEW i \in Ids PROVE Usual(i)
  <2>1. CASE rows'[i] = rows[i]
    BY <2>1, Untouched
  <2>2. CASE rows'[i] # rows[i]
    <3>1. /\ rows[i].st = "queued"
          /\ rows'[i].base = rows[i].base /\ rows'[i].rev = rows[i].rev
          /\ rows'[i].st = "failed" /\ rows'[i].deps = rows[i].deps
          /\ rows'[i].files = rows[i].files
      <4>1. /\ rows[i].st = "queued"
            /\ rows'[i] = [base |-> rows[i].base, rev |-> rows[i].rev, st |-> "failed",
                           deps |-> rows[i].deps, files |-> rows[i].files]
        BY <1>3, <2>2
      <4>2. QED
        BY <4>1
    <3>2. ~ rows[i].files /\ rows[i].deps \subseteq Ids
      BY <3>1 DEF Sound, Recorded, RowTypes
    <3>3. QED
      BY <3>1, <3>2 DEF Usual, Live
  <2>3. QED
    BY <2>1, <2>2
<1>6. QED
  BY <1>4, <1>5 DEF RowsMove

\* Whatever happens, rows change as they may.
LEMMA Moves ==
  ASSUME Sound, [Next]_vars
  PROVE  RowsMove
<1>1. ASSUME NEW i \in Ids
      PROVE  /\ rows[i].st \in States /\ rows[i].deps \in SUBSET Ids
             /\ rows[i].files \in BOOLEAN /\ (rows[i].files => rows[i].st = "succeeded")
  BY RowThere DEF Sound, RowTypes, Recorded, Row
<1>2. CASE UNCHANGED rows
  <2>1. Ids' = Ids /\ rows' \in Seq(Row)
    BY <1>2 DEF Ids, Sound, RowTypes
  <2>2. \A j \in Ids : Usual(j)
    BY <1>2, Untouched
  <2>3. QED
    BY <2>1, <2>2 DEF RowsMove
<1>3. ASSUME NEW p \in Procs, Claim(p), ~ UNCHANGED rows PROVE RowsMove
  <2>. DEFINE i == cur[p].id
              D == cur[p].deps
  <2>1. /\ i \in Ids /\ rows[i].st = "queued" /\ D \in SUBSET Ids
        /\ Edited(i, "running", D, rows[i].files)
    BY <1>3, ClaimEdits
  <2>2. ~ rows[i].files /\ "running" \in States
    BY <1>1, <2>1 DEF States, Live
  <2>. HIDE DEF i, D
  <2>3. QED
    BY <1>1, <2>1, <2>2, EditMoves DEF Live
<1>4. ASSUME NEW i \in Ids, RemoveFiles(i) PROVE RowsMove
  <2>1. Edited(i, rows[i].st, rows[i].deps, FALSE)
    BY <1>4, RemoveEdits
  <2>2. QED
    BY <1>1, <1>4, <2>1, EditMoves
<1>5. ASSUME NEW i \in Ids, Fetch(i), ~ UNCHANGED rows PROVE RowsMove
  <2>1. rows' = [rows EXCEPT ![i].st = "building"] /\ rows[i].st = "running"
    BY <1>5 DEF Fetch
  <2>2. Edited(i, "building", rows[i].deps, rows[i].files)
    BY <2>1, StateEdits
  <2>3. "building" \in States /\ ~ rows[i].files /\ rows[i].st \in Live
    BY <1>1, <2>1 DEF States, Live
  <2>4. QED
    BY <1>1, <2>2, <2>3, EditMoves
<1>6. ASSUME NEW i \in Ids, Succeed(i) PROVE RowsMove
  <2>1. Edited(i, "succeeded", rows[i].deps, TRUE)
    BY <1>6, SucceedEdits
  <2>2. "succeeded" \in States /\ rows[i].st \in Live
    BY <1>6 DEF States, Live, Succeed
  <2>3. QED
    BY <1>1, <1>6, <2>1, <2>2, EditMoves
<1>7. ASSUME NEW i \in Ids, FailBuild(i) PROVE RowsMove
  <2>1. PICK s \in {"queued", "failed"} : Edited(i, s, rows[i].deps, FALSE)
    BY <1>7, FailEdits
  <2>2. s \in States /\ s # "succeeded"
    BY <2>1 DEF States, Live
  <2>3. QED
    BY <1>1, <1>7, <2>1, <2>2, EditMoves
<1>8. QED
  BY <1>2, <1>3, <1>4, <1>5, <1>6, <1>7, WhoChangesRows, CancelMoves, InsertMoves

-----------------------------------------------------------------------------
(* Types.                                                                  *)

\* The builds of b that have their files.
Having(b) == {i \in Ids : rows[i].base = b /\ rows[i].st = "succeeded" /\ rows[i].files}

\* usable_build returns one of them, if there is any.
LEMMA UsableIs ==
  ASSUME Sound, NEW b
  PROVE  /\ Having(b) = {} => Usable(b) = None
         /\ Having(b) # {} => Usable(b) \in Having(b)
         /\ Usable(b) # None =>
              /\ Usable(b) \in Ids /\ rows[Usable(b)].base = b
              /\ rows[Usable(b)].st = "succeeded"
<1>. DEFINE newest == {i \in Having(b) : rows[i].rev = approved[b]}
            pool == IF newest # {} THEN newest ELSE Having(b)
            when == {k \in 1 .. Len(finished) : finished[k] \in pool}
            last == CHOOSE k \in when : \A j \in when : j <= k
<1>1. Usable(b) = IF pool = {} THEN None ELSE finished[last]
  BY DEF Usable, Having
<1>2. pool \subseteq Having(b) /\ (pool = {} <=> Having(b) = {})
  OBVIOUS
<1>3. ASSUME pool # {} PROVE finished[last] \in pool
  <2>1. PICK i \in pool : TRUE
    BY <1>3
  <2>2. i \in Ids /\ rows[i].st = "succeeded"
    BY <1>2, <2>1 DEF Having
  <2>3. \E k \in 1 .. Len(finished) : finished[k] = i
    BY <2>2 DEF Sound, Recorded
  <2>4. Len(finished) \in Nat /\ when \in SUBSET (0 .. Len(finished)) /\ when # {}
    BY <2>1, <2>3 DEF Sound, Recorded
  <2>5. \E k \in when : \A j \in when : j <= k
    BY <2>4, Maximum
  <2>6. last \in when
    BY <2>5
  <2>7. QED
    BY <2>6
<1>. HIDE DEF pool, last
<1>4. Having(b) # {} => Usable(b) \in Having(b)
  BY <1>1, <1>2, <1>3
<1>5. Having(b) = {} => Usable(b) = None
  BY <1>1, <1>2
<1>6. QED
  BY <1>4, <1>5 DEF Having

\* Packages keep their types: newest revisions exist, approved ones are no newer.
LEMMA PackagesStep ==
  ASSUME Sound, [Next]_vars
  PROVE  Packages'
<1>1. /\ subs \subseteq Bases
      /\ choice \in [Bases -> [Names -> Nat]]
      /\ known \in [Bases -> Nat] /\ approved \in [Bases -> Nat]
      /\ \A b \in Bases : \A n \in Names : choice[b][n] \in Candidates[n] \cup {None}
      /\ \A b \in Bases : known[b] \in Revisions(b) \cup {None} /\ approved[b] \in 0 .. known[b]
      /\ reviewing \subseteq Bases /\ \A b \in reviewing : approved[b] < known[b]
  BY DEF Sound, Packages, PackageTypes
<1>2. CASE UNCHANGED packageVars
  BY <1>1, <1>2 DEF packageVars, Packages, PackageTypes
<1>3. ASSUME NEW b \in Bases, Ingest(b) PROVE Packages'
  <2>1. /\ known[b] < Len(Requires[b]) /\ known' = [known EXCEPT ![b] = @ + 1]
        /\ reviewing' = reviewing \cup {b} /\ UNCHANGED <<subs, choice, approved>>
    BY <1>3 DEF Ingest
  <2>2. Requires[b] \in Seq(SUBSET Names)
    BY SchedulingAssumption
  <2>3. /\ known[b] \in Nat /\ known'[b] = known[b] + 1 /\ known[b] + 1 \in Revisions(b)
        /\ known' \in [Bases -> Nat]
        /\ \A c \in Bases : c # b => known'[c] = known[c]
    BY <1>1, <2>1, <2>2 DEF Revisions
  <2>4. \A c \in Bases : /\ known'[c] \in Revisions(c) \cup {None}
                         /\ approved[c] \in 0 .. known'[c]
                         /\ c \in reviewing' => approved[c] < known'[c]
    <3>1. ASSUME NEW c \in Bases
          PROVE  /\ known'[c] \in Revisions(c) \cup {None}
                 /\ approved[c] \in 0 .. known'[c]
                 /\ c \in reviewing' => approved[c] < known'[c]
      <4>1. CASE c = b
        BY <1>1, <2>3, <4>1
      <4>2. CASE c # b
        BY <1>1, <2>1, <2>3, <4>2
      <4>3. QED
        BY <4>1, <4>2
    <3>2. QED
      BY <3>1
  <2>5. QED
    BY <1>1, <2>1, <2>3, <2>4 DEF Packages, PackageTypes
<1>4. ASSUME NEW b \in Bases, Approve(b) PROVE Packages'
  <2>1. /\ approved' = [approved EXCEPT ![b] = known[b]]
        /\ reviewing' = reviewing \ {b} /\ UNCHANGED <<subs, choice, known>>
    BY <1>4 DEF Approve
  <2>2. /\ known[b] \in Nat /\ approved' \in [Bases -> Nat]
        /\ \A c \in Bases : approved'[c] \in 0 .. known[c]
        /\ \A c \in Bases : c # b => approved'[c] = approved[c]
    BY <1>1, <2>1
  <2>3. \A c \in reviewing' : approved'[c] < known[c]
    BY <1>1, <2>1, <2>2
  <2>4. QED
    BY <1>1, <2>1, <2>2, <2>3 DEF Packages, PackageTypes
<1>8. ASSUME NEW b \in Bases, Reject(b) PROVE Packages'
  <2>1. reviewing' = reviewing \ {b} /\ UNCHANGED <<subs, choice, known, approved>>
    BY <1>8 DEF Reject
  <2>2. QED
    BY <1>1, <2>1 DEF Packages, PackageTypes
<1>5. ASSUME NEW b \in Bases, Subscribe(b) \/ Unsubscribe(b) PROVE Packages'
  <2>1. subs' \subseteq Bases /\ UNCHANGED <<choice, known, approved, reviewing>>
    BY <1>1, <1>5 DEF Subscribe, Unsubscribe
  <2>2. QED
    BY <1>1, <2>1 DEF Packages, PackageTypes
<1>6. ASSUME NEW b \in Bases, SelectProvider(b) PROVE Packages'
  <2>0. PICK n \in Foreign(b, DependencyRevision(b)) :
          \E c \in Candidates[n] : choice' = [choice EXCEPT ![b][n] = c]
    BY <1>6 DEF SelectProvider
  <2>1. PICK c \in Candidates[n] : choice' = [choice EXCEPT ![b][n] = c]
    BY <2>0
  <2>2. UNCHANGED <<subs, known, approved, reviewing>>
    BY <1>6 DEF SelectProvider
  <2>3. n \in Names
    <3>1. DependencyRevision(b) \in Revisions(b) \cup {None}
      BY RevisionThere DEF Sound, Packages
    <3>2. Requires[b] \in Seq(SUBSET Names)
      BY SchedulingAssumption
    <3>3. DependencyRevision(b) # None => Requires[b][DependencyRevision(b)] \in SUBSET Names
      BY <3>1, <3>2 DEF Revisions
    <3>4. QED
      BY <3>3 DEF Foreign
  <2>4. c \in Nat
    BY <2>3, CandidateBases, BasesFinite
  <2>5. /\ choice' \in [Bases -> [Names -> Nat]]
        /\ choice'[b][n] = c
        /\ \A e \in Bases : \A m \in Names : e # b \/ m # n => choice'[e][m] = choice[e][m]
    BY <1>1, <2>1, <2>3, <2>4
  <2>6. \A e \in Bases : \A m \in Names : choice'[e][m] \in Candidates[m] \cup {None}
    BY <1>1, <2>1, <2>5
  <2>7. QED
    BY <1>1, <2>2, <2>5, <2>6 DEF Packages, PackageTypes
<1>7. QED
  BY <1>2, <1>3, <1>4, <1>5, <1>6, <1>8, WhoChangesPackages

\* Rows keep their types.
LEMMA RowTypesStep ==
  ASSUME Sound, [Next]_vars
  PROVE  RowTypes'
<1>1. RowsMove
  BY Moves
<1>2. ASSUME NEW j \in Ids
      PROVE  rows'[j].rev \in Revisions(rows'[j].base) /\ rows'[j].deps \subseteq Ids'
  BY <1>1 DEF RowsMove, Usual, Sound, RowTypes
<1>3. ASSUME NEW j \in Ids', j \notin Ids
      PROVE  rows'[j].rev \in Revisions(rows'[j].base) /\ rows'[j].deps \subseteq Ids'
  BY <1>1, <1>3 DEF RowsMove, Inserts
<1>4. QED
  BY <1>1, <1>2, <1>3 DEF RowTypes, RowsMove

\* Files, success and the record of finished builds stay in step.
LEMMA RecordedStep ==
  ASSUME Sound, [Next]_vars
  PROVE  Recorded'
<1>1. RowsMove
  BY Moves
<1>2. /\ finished \in Seq(Nat)
      /\ \A k \in 1 .. Len(finished) : finished[k] \in Ids
      /\ \A i \in Ids : rows[i].st = "succeeded" => \E k \in 1 .. Len(finished) : finished[k] = i
  BY DEF Sound, Recorded
<1>4. \A i \in Ids' \ Ids : rows'[i].st = "queued" /\ ~ rows'[i].files
  BY <1>1 DEF RowsMove, Inserts
<1>5. \A i \in Ids' : rows'[i].files => rows'[i].st = "succeeded"
  BY <1>1, <1>4 DEF RowsMove, Usual
<1>6. \A i \in Ids' : rows'[i].st = "succeeded" =>
                       i \in Ids /\ (rows[i].st = "succeeded" \/ Succeed(i))
  BY <1>1, <1>4 DEF RowsMove, Usual
<1>7. CASE UNCHANGED finished /\ ~ \E i \in Ids : Succeed(i)
  BY <1>1, <1>2, <1>5, <1>6, <1>7 DEF Recorded, RowsMove
<1>8. ASSUME NEW i \in Ids, Succeed(i) PROVE Recorded'
  <2>1. finished' = Append(finished, i) /\ i \in Nat
    BY <1>8, RowThere DEF Succeed, Sound
  <2>2. /\ finished' \in Seq(Nat) /\ Len(finished) \in Nat
        /\ Len(finished') = Len(finished) + 1
        /\ \A k \in 1 .. Len(finished) : finished'[k] = finished[k]
        /\ finished'[Len(finished) + 1] = i
    BY <1>2, <2>1
  <2>4. ASSUME NEW k \in 1 .. Len(finished')
        PROVE  finished'[k] \in Ids'
    <3>1. CASE k = Len(finished) + 1
      BY <1>1, <2>2, <3>1 DEF RowsMove
    <3>2. CASE k # Len(finished) + 1
      <4>1. k \in 1 .. Len(finished)
        BY <2>2, <3>2
      <4>2. QED
        BY <1>1, <1>2, <2>2, <4>1 DEF RowsMove
    <3>3. QED
      BY <3>1, <3>2
  <2>5. ASSUME NEW j \in Ids', rows'[j].st = "succeeded"
        PROVE  \E k \in 1 .. Len(finished') : finished'[k] = j
    <3>1. CASE j = i
      BY <2>2, <3>1
    <3>2. CASE j # i
      <4>1. j \in Ids
        BY <1>6, <2>5
      <4>2. rows'[j] = rows[j]
        BY <1>8, <3>2, <4>1, SucceedFacts
      <4>3. PICK k \in 1 .. Len(finished) : finished[k] = j
        BY <1>2, <2>5, <4>1, <4>2
      <4>4. k \in 1 .. Len(finished')
        BY <2>2
      <4>5. QED
        BY <2>2, <4>3, <4>4
    <3>3. QED
      BY <3>1, <3>2
  <2>6. QED
    BY <1>5, <2>2, <2>4, <2>5 DEF Recorded
<1>9. QED
  BY <1>7, <1>8, WhoFinishes

\* What is chosen for publication has succeeded.
LEMMA ChosenSucceeded ==
  ASSUME Sound, NEW v
  PROVE  Chosen(v) \subseteq Done
<1>1. ASSUME NEW i \in Chosen(v) PROVE i \in Ids /\ rows[i].st = "succeeded"
  <2>1. PICK b \in v.members : i = Usable(b) /\ Usable(b) # None
    BY DEF Chosen
  <2>2. QED
    BY <2>1, UsableIs
<1>2. QED
  BY <1>1 DEF Done

\* What Publish leaves on the list.
LEMMA PublishFacts ==
  ASSUME Sound, Publish, plans' # plans
  PROVE  /\ plans' \in Seq(SUBSET Nat) /\ Len(plans') <= KeptPlans
         /\ plans' # <<>> /\ Head(plans') = Chosen(view[Loop])
         /\ \A k \in 1 .. Len(plans') :
              \/ plans'[k] = Chosen(view[Loop])
              \/ \E j \in 1 .. Len(plans) : plans'[k] = plans[j]
<1>. DEFINE C == Chosen(view[Loop])
            q == <<C>> \o plans
            n == IF Len(plans) < KeptPlans THEN Len(plans) + 1 ELSE KeptPlans
<1>1. plans' = SubSeq(q, 1, n)
  BY DEF Publish
<1>2. C \in SUBSET Nat
  <2>1. C \subseteq Ids
    BY ChosenSucceeded DEF Done
  <2>2. QED
    BY <2>1 DEF Ids
<1>3. plans \in Seq(SUBSET Nat) /\ Len(plans) \in Nat /\ Len(plans) <= KeptPlans
  BY DEF Sound, Listed
<1>4. KeptPlans \in Nat
  BY SchedulingAssumption
<1>. HIDE DEF C
<1>5. /\ q \in Seq(SUBSET Nat) /\ Len(q) = Len(plans) + 1 /\ q[1] = C
      /\ \A k \in 2 .. Len(plans) + 1 : k - 1 \in 1 .. Len(plans) /\ q[k] = plans[k - 1]
  BY <1>2, <1>3
<1>6. n \in Nat /\ n <= Len(q) /\ n <= KeptPlans
  BY <1>3, <1>4, <1>5
<1>. HIDE DEF q
<1>7. n # 0
  <2>1. SUFFICES ASSUME n = 0 PROVE FALSE
    OBVIOUS
  <2>2. Len(plans) = 0
    BY <1>3, <1>4, <2>1
  <2>3. plans = <<>>
    BY <1>3, <2>2
  <2>. HIDE DEF n
  <2>4. SubSeq(q, 1, 0) = <<>>
    BY <1>5
  <2>5. QED
    BY <1>1, <2>1, <2>3, <2>4
<1>. HIDE DEF n
<1>8. /\ plans' \in Seq(SUBSET Nat) /\ Len(plans') = n
      /\ \A k \in 1 .. n : plans'[k] = q[k]
  BY <1>1, <1>3, <1>5, <1>6
<1>9. plans' # <<>> /\ Head(plans') = C
  BY <1>5, <1>6, <1>7, <1>8
<1>10. ASSUME NEW k \in 1 .. n
       PROVE  plans'[k] = C \/ \E j \in 1 .. Len(plans) : plans'[k] = plans[j]
  <2>1. k \in 1 .. Len(plans) + 1
    BY <1>3, <1>5, <1>6
  <2>2. CASE k = 1
    BY <1>5, <1>8, <2>2
  <2>3. CASE k # 1
    <3>1. k \in 2 .. Len(plans) + 1
      BY <1>3, <2>1, <2>3
    <3>2. QED
      BY <1>5, <1>8, <3>1
  <2>4. QED
    BY <2>2, <2>3
<1>11. QED
  BY <1>6, <1>8, <1>9, <1>10 DEF C

\* Without fail_build, what has succeeded stays so.
LEMMA DoneStays ==
  ASSUME Sound, [Next]_vars, NEW i \in Done, ~ FailBuild(i)
  PROVE  i \in Done'
<1>1. i \in Ids /\ i \in Ids' /\ Usual(i)
  BY Moves DEF RowsMove, Done
<1>2. QED
  BY <1>1 DEF Usual, Live, Done

\* What fail_build leaves of the publications.
LEMMA FailLists ==
  ASSUME Sound, NEW i \in Ids, FailBuild(i)
  PROVE  /\ plans' \in Seq(SUBSET Nat) /\ Len(plans') = Len(plans)
         /\ \A k \in 1 .. Len(plans) : plans'[k] \subseteq (plans[k] \ {i}) \cup {None}
         /\ i \notin Done => UNCHANGED plans
<1>1. plans \in Seq(SUBSET Nat) /\ Len(plans) \in Nat /\ DOMAIN plans = 1 .. Len(plans)
  BY DEF Sound, Listed
<1>2. CASE rows[i].st # "succeeded"
  <2>1. UNCHANGED plans
    BY <1>2 DEF FailBuild
  <2>2. \A k \in 1 .. Len(plans) : i \notin plans[k]
    BY <1>2, RowThere DEF Sound, Listed, Done
  <2>3. QED
    BY <1>1, <2>1, <2>2
<1>3. CASE rows[i].st = "succeeded"
  <2>. DEFINE Rest0(S) == {IF j = i THEN None ELSE j : j \in S}
  <2>1. plans' = [k \in DOMAIN plans |-> Rest0(plans[k])]
    BY <1>3 DEF FailBuild
  <2>2. \A k \in 1 .. Len(plans) :
          Rest0(plans[k]) \subseteq (plans[k] \ {i}) \cup {None} /\ Rest0(plans[k]) \in SUBSET Nat
    BY <1>1 DEF None
  <2>. HIDE DEF Rest0
  <2>3. plans' \in [1 .. Len(plans) -> SUBSET Nat]
    BY <1>1, <2>1, <2>2
  <2>4. plans' \in Seq(SUBSET Nat) /\ Len(plans') = Len(plans)
    BY <1>1, <2>3
  <2>5. QED
    BY <1>1, <1>3, <2>1, <2>2, <2>4 DEF Done
<1>4. QED
  BY <1>2, <1>3

\* Publications keep to builds that succeeded.
LEMMA ListedStep ==
  ASSUME Sound, [Next]_vars
  PROVE  Listed'
<1>1. /\ plans \in Seq(SUBSET Nat) /\ Len(plans) <= KeptPlans
      /\ \A k \in 1 .. Len(plans) : plans[k] \subseteq Done \cup {None}
  BY DEF Sound, Listed
<1>2. ASSUME NEW i \in Ids, FailBuild(i) PROVE Listed'
  <2>1. /\ plans' \in Seq(SUBSET Nat) /\ Len(plans') = Len(plans)
        /\ \A k \in 1 .. Len(plans) : plans'[k] \subseteq (plans[k] \ {i}) \cup {None}
    BY <1>2, FailLists
  <2>2. ASSUME NEW j \in Done, j # i PROVE j \in Done'
    <3>1. PICK s \in {"queued", "failed"} : Edited(i, s, rows[i].deps, FALSE)
      BY <1>2, FailEdits
    <3>2. s \in States /\ rows[i].deps \in SUBSET Ids
      BY <3>1, RowThere DEF States, Live, Sound, RowTypes
    <3>3. Ids' = Ids /\ \A k \in Ids : k # i => rows'[k] = rows[k]
      BY <3>1, <3>2, EditFacts
    <3>4. QED
      BY <2>2, <3>3 DEF Done
  <2>3. \A k \in 1 .. Len(plans') : plans'[k] \subseteq Done' \cup {None}
    BY <1>1, <2>1, <2>2
  <2>4. QED
    BY <1>1, <2>1, <2>3 DEF Listed
<1>3. CASE ~ \E i \in Ids : FailBuild(i)
  <2>1. Done \subseteq Done'
    BY <1>3, DoneStays DEF Done
  <2>2. CASE UNCHANGED plans
    BY <1>1, <2>1, <2>2 DEF Listed
  <2>3. CASE Publish /\ ~ UNCHANGED plans
    <3>1. Chosen(view[Loop]) \subseteq Done
      BY ChosenSucceeded
    <3>2. /\ plans' \in Seq(SUBSET Nat) /\ Len(plans') <= KeptPlans
          /\ \A k \in 1 .. Len(plans') : plans'[k] \subseteq Done \cup {None}
      BY <1>1, <2>3, <3>1, PublishFacts
    <3>3. QED
      BY <2>1, <3>2 DEF Listed
  <2>4. QED
    BY <1>3, <2>2, <2>3, WhoPublishes
<1>4. QED
  BY <1>2, <1>3

\* The rest of the variables keep their types.
LEMMA OthersStep ==
  ASSUME Sound, [Next]_vars
  PROVE  Others'
<1>1. Ids \subseteq Ids'
  BY Moves DEF RowsMove
<1>2. /\ keep \subseteq Ids /\ failing \subseteq Ids /\ revived \subseteq Ids
      /\ happened \in 0 .. MaxEvents /\ moved \in BOOLEAN /\ MaxEvents \in Nat
  BY SchedulingAssumption DEF Sound, Others
<1>3. \A e : Happens(e) => happened' \in 0 .. MaxEvents
  BY <1>2 DEF Happens
<1>4. Disturb => moved' \in BOOLEAN
  BY <1>2 DEF Disturb
<1>5. CASE LoopStep
  <2>1. UNCHANGED keep \/ keep' = {}
    BY <1>5 DEF LoopStep, ReadClosure, Cancel, CheckMember, InsertRow, CheckActive, Publish,
         EndGarbage
  <2>2. UNCHANGED happened /\ (UNCHANGED moved \/ moved' = FALSE)
    BY <1>5 DEF LoopStep, ReadClosure, Cancel, CheckMember, InsertRow, CheckActive, Publish,
         EndGarbage
  <2>3. UNCHANGED failVars
    BY <1>5 DEF LoopStep, ReadClosure, Cancel, CheckMember, InsertRow, CheckActive, Publish,
         EndGarbage
  <2>4. QED
    BY <1>1, <1>2, <2>1, <2>2, <2>3 DEF Others, failVars
<1>6. CASE BeginGarbage
  <2>1. keep' = Spared /\ UNCHANGED <<happened, moved, failVars>>
    BY <1>6 DEF BeginGarbage
  <2>2. \A k \in 1 .. Len(plans) : plans[k] \subseteq Ids \cup {None}
    BY DEF Sound, Listed, Done
  <2>3. {Usable(b) : b \in Closure.members} \subseteq Ids \cup {None}
    BY UsableIs
  <2>4. Spared \subseteq Ids
    BY <2>2, <2>3 DEF Spared
  <2>5. QED
    BY <1>1, <1>2, <2>1, <2>4 DEF Others, failVars
<1>7. CASE \E i \in Ids : RemoveFiles(i) \/ Fetch(i) \/ Succeed(i) \/ Report(i) \/ FailBuild(i)
  <2>1. PICK i \in Ids : RemoveFiles(i) \/ Fetch(i) \/ Succeed(i) \/ Report(i) \/ FailBuild(i)
    BY <1>7
  <2>2. /\ failing' \subseteq failing \cup {i} /\ revived' \subseteq revived \cup {i}
        /\ UNCHANGED keep
    BY <2>1 DEF RemoveFiles, Fetch, Succeed, Report, FailBuild, failVars
  <2>3. /\ UNCHANGED happened \/ Happens("fail")
        /\ UNCHANGED moved \/ Disturb
    BY <2>1 DEF RemoveFiles, Fetch, Succeed, Report, FailBuild
  <2>4. QED
    BY <1>1, <1>2, <1>3, <1>4, <2>2, <2>3 DEF Others
<1>8. CASE \E p \in Requests : HandlerStep(p) \/ \E b \in Bases : Rebuild(p, b)
  <2>1. /\ UNCHANGED <<keep, moved, failVars>>
        /\ UNCHANGED happened \/ Happens("rebuild")
    BY <1>8 DEF HandlerStep, BeginLease, Pick, Claim, InsertRow, Rebuild
  <2>2. QED
    BY <1>1, <1>2, <1>3, <2>1 DEF Others, failVars
<1>9. CASE \E b \in Bases : \/ Ingest(b) \/ Approve(b) \/ Reject(b)
                            \/ Subscribe(b) \/ Unsubscribe(b) \/ SelectProvider(b)
  <2>1. /\ UNCHANGED <<keep, failVars>> /\ Disturb
        /\ UNCHANGED happened \/ \E e : Happens(e)
    BY <1>9 DEF Ingest, Approve, Reject, Subscribe, Unsubscribe, SelectProvider
  <2>2. QED
    BY <1>1, <1>2, <1>3, <1>4, <2>1 DEF Others, failVars
<1>10. CASE Crash
  BY <1>1, <1>2, <1>3, <1>10 DEF Crash, Others
<1>11. CASE UNCHANGED vars
  BY <1>2, <1>11 DEF vars, failVars, Others, Ids
<1>12. QED
  BY <1>5, <1>6, <1>7, <1>8, <1>9, <1>10, <1>11 DEF Next

\* What process p takes in hand is there, with step l, list L and task t.
Takes(p, l, L, t) ==
  /\ IF p = Loop THEN l \in LoopSteps ELSE l \in HandlerSteps
  /\ l = "insert" => t.base \in Bases /\ t.rev \in Revisions(t.base)
  /\ l = "claim" => t.id \in Ids /\ t.deps \subseteq Ids
  /\ l \in {"schedule", "insert"} => L \subseteq Bases
  /\ l \notin {"schedule", "insert"} => L \subseteq Ids

\* A process that takes what is there leaves the others what they have.
LEMMA GotoHands ==
  ASSUME Sound, Ids \subseteq Ids', NEW p \in Procs, NEW l, NEW v \in Searches,
         NEW L \in SUBSET Nat, NEW t \in Task, Takes(p, l, L, t), Goto(p, l, v, L, t)
  PROVE  Hands'
<1>1. /\ pc \in [Procs -> LoopSteps \cup HandlerSteps]
      /\ view \in [Procs -> Searches]
      /\ left \in [Procs -> SUBSET Nat]
      /\ cur \in [Procs -> Task]
      /\ pc[Loop] \in LoopSteps
      /\ \A q \in Requests : pc[q] \in HandlerSteps
      /\ \A q \in Procs : Hand(q)
  BY DEF Sound, Hands
<1>2. l \in LoopSteps \cup HandlerSteps
  BY DEF Takes
<1>3. /\ pc' \in [Procs -> LoopSteps \cup HandlerSteps] /\ view' \in [Procs -> Searches]
      /\ left' \in [Procs -> SUBSET Nat] /\ cur' \in [Procs -> Task]
      /\ pc'[p] = l /\ left'[p] = L /\ cur'[p] = t
      /\ \A q \in Procs : q # p => pc'[q] = pc[q] /\ left'[q] = left[q] /\ cur'[q] = cur[q]
  BY <1>1, <1>2 DEF Goto
<1>4. Loop \in Procs /\ Loop \notin Requests /\ \A q \in Requests : q \in Procs
  BY SchedulingAssumption DEF Procs
<1>5. pc'[Loop] \in LoopSteps /\ \A q \in Requests : pc'[q] \in HandlerSteps
  BY <1>1, <1>3, <1>4 DEF Takes
<1>6. ASSUME NEW q \in Procs PROVE Hand(q)'
  <2>1. CASE q = p
    BY <1>3, <2>1 DEF Hand, Takes
  <2>2. CASE q # p
    <3>1. Hand(q) /\ pc'[q] = pc[q] /\ left'[q] = left[q] /\ cur'[q] = cur[q]
      BY <1>1, <1>3, <2>2
    <3>2. QED
      BY <3>1 DEF Hand
  <2>3. QED
    BY <2>1, <2>2
<1>7. QED
  BY <1>3, <1>5, <1>6 DEF Hands

\* Empty hands are always fine.
LEMMA Empty == NoClosure \in Searches /\ NoTask \in Task /\ {} \in SUBSET Nat
<1>1. <<>> \in Seq(Bases)
  OBVIOUS
<1>2. QED
  BY <1>1 DEF NoClosure, Searches, NoTask, Task, None

\* A process that rests has nothing in hand.
LEMMA RestHands ==
  ASSUME Sound, Ids \subseteq Ids', NEW p \in Procs, NEW l, Rest(p, l),
         IF p = Loop THEN l \in {"read", "cancel", "schedule", "rest", "gc"}
                     ELSE l \in {"idle", "pick"}
  PROVE  Hands'
<1>1. Takes(p, l, {}, NoTask)
  BY DEF Takes, LoopSteps, HandlerSteps
<1>2. Goto(p, l, NoClosure, {}, NoTask)
  BY DEF Rest
<1>3. QED
  BY <1>1, <1>2, Empty, GotoHands DEF Goto, Takes

\* A task is made from a pkgbase and a revision, or from a row and builds.
LEMMA Tasks ==
  ASSUME NEW b, NEW r
  PROVE  /\ [NoTask EXCEPT !.base = b, !.rev = r] =
              [id |-> None, base |-> b, rev |-> r, deps |-> {}]
         /\ [NoTask EXCEPT !.id = b, !.deps = r] =
              [id |-> b, base |-> None, rev |-> None, deps |-> r]
<1>. DEFINE u == [NoTask EXCEPT !.base = b]
            w == [NoTask EXCEPT !.id = b]
<1>1. /\ u = [id |-> None, base |-> b, rev |-> None, deps |-> {}]
      /\ w = [id |-> b, base |-> None, rev |-> None, deps |-> {}]
  BY DEF NoTask
<1>2. /\ [NoTask EXCEPT !.base = b, !.rev = r] = [u EXCEPT !.rev = r]
      /\ [NoTask EXCEPT !.id = b, !.deps = r] = [w EXCEPT !.deps = r]
  BY DEF NoTask
<1>. HIDE DEF u, w
<1>3. [u EXCEPT !.rev = r] = [id |-> None, base |-> b, rev |-> r, deps |-> {}]
  BY <1>1
<1>4. [w EXCEPT !.deps = r] = [id |-> b, base |-> None, rev |-> None, deps |-> r]
  BY <1>1
<1>5. QED
  BY <1>2, <1>3, <1>4

\* Every step leaves each process with something that is there.
LEMMA HandsStep ==
  ASSUME Sound, [Next]_vars
  PROVE  Hands'
<1>1. Ids \subseteq Ids'
  BY Moves DEF RowsMove
<1>2. /\ pc \in [Procs -> LoopSteps \cup HandlerSteps]
      /\ view \in [Procs -> Searches]
      /\ left \in [Procs -> SUBSET Nat]
      /\ cur \in [Procs -> Task]
      /\ \A q \in Procs : Hand(q)
  BY DEF Sound, Hands
<1>3. Loop \in Procs /\ Loop \notin Requests /\ \A p \in Requests : p \in Procs /\ p # Loop
  BY SchedulingAssumption DEF Procs
<1>4. Closure \in Searches
  BY ClosureFinds DEF Sound, Packages
<1>5. CASE UNCHANGED procVars
  <2>1. UNCHANGED <<pc, view, left, cur>>
    BY <1>5 DEF procVars
  <2>2. \A q \in Procs : Hand(q)'
    BY <1>1, <1>2, <2>1 DEF Hand
  <2>3. QED
    BY <2>1, <2>2 DEF Sound, Hands
<1>6. CASE ReadClosure
  <2>1. Goto(Loop, "cancel", Closure, {}, NoTask)
    BY <1>6 DEF ReadClosure
  <2>2. Takes(Loop, "cancel", {}, NoTask)
    BY DEF Takes, LoopSteps
  <2>3. QED
    BY <1>1, <1>3, <1>4, <2>1, <2>2, Empty, GotoHands DEF Goto, Takes
<1>7. CASE Cancel
  <2>1. Goto(Loop, "schedule", view[Loop], view[Loop].members, NoTask)
    BY <1>7 DEF Cancel
  <2>2. view[Loop] \in Searches /\ view[Loop].members \subseteq Bases
    BY <1>2, <1>3 DEF Searches
  <2>3. view[Loop].members \in SUBSET Nat
    BY <2>2, BasesFinite
  <2>4. Takes(Loop, "schedule", view[Loop].members, NoTask)
    BY <2>2 DEF Takes, LoopSteps
  <2>5. QED
    BY <1>1, <1>3, <2>1, <2>2, <2>3, <2>4, Empty, GotoHands DEF Goto, Takes
<1>8. CASE CheckMember
  <2>. DEFINE b == Least(left[Loop])
              L == left[Loop] \ {b}
              t == [id |-> None, base |-> b, rev |-> approved[b], deps |-> {}]
  <2>1. /\ pc[Loop] = "schedule" /\ left[Loop] \subseteq Bases /\ left[Loop] # {}
        /\ left[Loop] \in SUBSET Nat /\ view[Loop] \in Searches
    BY <1>2, <1>3, <1>8 DEF CheckMember, Hand
  <2>2. \E x \in left[Loop] : \A y \in left[Loop] : x <= y
    BY <2>1, Minimum
  <2>3. b \in left[Loop]
    BY <2>2 DEF Least
  <2>4. L \in SUBSET Nat /\ L \subseteq Bases /\ b \in Bases
    BY <2>1, <2>3
  <2>5. /\ NeverQueued(b) => Goto(Loop, "insert", view[Loop], L,
                                  [NoTask EXCEPT !.base = b, !.rev = approved[b]])
        /\ ~ NeverQueued(b) => Goto(Loop, "schedule", view[Loop], L, NoTask)
    BY <1>8 DEF CheckMember
  <2>. HIDE DEF b, L
  <2>6. CASE NeverQueued(b)
    <3>1. b \in Nat /\ approved[b] \in Nat /\ approved[b] \in Revisions(b)
      <4>1. approved[b] # None
        BY <2>6 DEF NeverQueued
      <4>2. Requires[b] \in Seq(SUBSET Names)
        BY <2>4, SchedulingAssumption
      <4>3. known[b] \in Revisions(b) \cup {None} /\ approved[b] \in 0 .. known[b]
        BY <2>4 DEF Sound, Packages, PackageTypes
      <4>4. QED
        BY <2>4, <4>1, <4>2, <4>3, BasesFinite DEF Revisions, None
    <3>2. t \in Task /\ t.base = b /\ t.rev = approved[b]
      BY <3>1 DEF Task, None
    <3>3. Goto(Loop, "insert", view[Loop], L, t)
      BY <2>5, <2>6, Tasks
    <3>. HIDE DEF t
    <3>4. Takes(Loop, "insert", L, t)
      BY <2>4, <3>1, <3>2 DEF Takes, LoopSteps
    <3>5. QED
      BY <1>1, <1>3, <2>1, <2>4, <3>2, <3>3, <3>4, GotoHands DEF Goto, Takes
  <2>7. CASE ~ NeverQueued(b)
    <3>1. Takes(Loop, "schedule", L, NoTask)
      BY <2>4 DEF Takes, LoopSteps
    <3>2. Goto(Loop, "schedule", view[Loop], L, NoTask)
      BY <2>5, <2>7
    <3>3. QED
      BY <1>1, <1>3, <2>1, <2>4, <3>1, <3>2, Empty, GotoHands DEF Goto, Takes
  <2>8. QED
    BY <2>6, <2>7
<1>9. CASE InsertRow(Loop)
  <2>1. Goto(Loop, "schedule", view[Loop], left[Loop], NoTask)
    BY <1>9 DEF InsertRow
  <2>2. left[Loop] \subseteq Bases /\ left[Loop] \in SUBSET Nat /\ view[Loop] \in Searches
    BY <1>2, <1>3, <1>9 DEF InsertRow, Hand
  <2>3. Takes(Loop, "schedule", left[Loop], NoTask)
    BY <2>2 DEF Takes, LoopSteps
  <2>4. QED
    BY <1>1, <1>3, <2>1, <2>2, <2>3, Empty, GotoHands DEF Goto, Takes
<1>10. CASE Publish \/ BeginGarbage \/ EndGarbage
  <2>1. PICK l \in {"rest", "gc", "read"} : Rest(Loop, l)
    BY <1>10 DEF Publish, BeginGarbage, EndGarbage
  <2>2. QED
    BY <1>1, <1>3, <2>1, RestHands DEF Rest
<1>18. CASE CheckActive
  <2>1. CASE Rest(Loop, "rest")
    BY <1>1, <1>3, <2>1, RestHands
  <2>2. CASE Goto(Loop, "publish", view[Loop], {}, NoTask)
    <3>1. Takes(Loop, "publish", {}, NoTask) /\ view[Loop] \in Searches
      BY <1>2, <1>3 DEF Takes, LoopSteps
    <3>2. QED
      BY <1>1, <1>3, <2>2, <3>1, Empty, GotoHands DEF Goto, Takes
  <2>3. QED
    BY <1>18, <2>1, <2>2 DEF CheckActive
<1>11. ASSUME NEW p \in Requests, BeginLease(p) PROVE Hands'
  <2>. DEFINE L == {i \in Ids : rows[i].st = "queued"}
  <2>1. Goto(p, "pick", Closure, L, NoTask)
    BY <1>11 DEF BeginLease
  <2>2. L \in SUBSET Nat /\ L \subseteq Ids
    BY DEF Ids
  <2>. HIDE DEF L
  <2>3. Takes(p, "pick", L, NoTask)
    BY <1>3, <2>2 DEF Takes, HandlerSteps
  <2>4. QED
    BY <1>1, <1>3, <1>4, <2>1, <2>2, <2>3, Empty, GotoHands DEF Goto, Takes
<1>12. ASSUME NEW p \in Requests, Pick(p) PROVE Hands'
  <2>. DEFINE v == view[p]
              able == {i \in left[p] : Ready(v, rows[i].base)}
              i == Least(able)
              D == {Usable(d) : d \in AllDeps(v, rows[i].base)}
              t == [id |-> i, base |-> None, rev |-> None, deps |-> D]
              L == {j \in left[p] : j > i}
  <2>1. pc[p] = "pick" /\ left[p] \subseteq Ids /\ left[p] \in SUBSET Nat /\ v \in Searches
    BY <1>2, <1>3, <1>12 DEF Pick, Hand
  <2>2. CASE able = {}
    <3>1. Rest(p, "idle")
      BY <1>12, <2>2 DEF Pick
    <3>2. QED
      BY <1>1, <1>3, <3>1, RestHands
  <2>3. CASE able # {}
    <3>1. \E x \in able : \A y \in able : x <= y
      BY <2>1, <2>3, Minimum
    <3>2. i \in able
      BY <3>1 DEF Least
    <3>3. i \in Ids /\ i \in Nat /\ Ready(v, rows[i].base)
      BY <2>1, <3>2
    <3>4. D \subseteq Ids
      BY <3>3, UsableIs DEF Ready
    <3>5. Goto(p, "claim", v, L, [NoTask EXCEPT !.id = i, !.deps = D])
      BY <1>12, <2>3 DEF Pick
    <3>6. L \in SUBSET Nat /\ L \subseteq Ids /\ D \in SUBSET Nat
      BY <2>1, <3>4 DEF Ids
    <3>. HIDE DEF i, D, L, v
    <3>7. Goto(p, "claim", v, L, t)
      BY <3>5, Tasks
    <3>8. t \in Task /\ t.id = i /\ t.deps = D
      BY <3>3, <3>6 DEF Task, None
    <3>. HIDE DEF t
    <3>9. Takes(p, "claim", L, t)
      BY <1>3, <3>3, <3>4, <3>6, <3>8 DEF Takes, HandlerSteps
    <3>10. QED
      BY <1>1, <1>3, <2>1, <3>6, <3>7, <3>8, <3>9, GotoHands DEF Goto, Takes
  <2>4. QED
    BY <2>2, <2>3
<1>13. ASSUME NEW p \in Requests, Claim(p) PROVE Hands'
  <2>1. CASE rows[cur[p].id].st = "queued"
    <3>1. Rest(p, "idle")
      BY <1>13, <2>1 DEF Claim
    <3>2. QED
      BY <1>1, <1>3, <3>1, RestHands
  <2>2. CASE rows[cur[p].id].st # "queued"
    <3>1. Goto(p, "pick", view[p], left[p], NoTask)
      BY <1>13, <2>2 DEF Claim
    <3>2. view[p] \in Searches /\ left[p] \in SUBSET Nat /\ left[p] \subseteq Ids
      BY <1>2, <1>3, <1>13 DEF Claim, Hand
    <3>3. Takes(p, "pick", left[p], NoTask)
      BY <1>3, <3>2 DEF Takes, HandlerSteps
    <3>4. QED
      BY <1>1, <1>3, <3>1, <3>2, <3>3, Empty, GotoHands DEF Goto, Takes
  <2>3. QED
    BY <2>1, <2>2
<1>14. ASSUME NEW p \in Requests, InsertRow(p) PROVE Hands'
  <2>1. Rest(p, "idle")
    BY <1>3, <1>14 DEF InsertRow
  <2>2. QED
    BY <1>1, <1>3, <2>1, RestHands
<1>15. ASSUME NEW p \in Requests, NEW b \in Bases, Rebuild(p, b) PROVE Hands'
  <2>. DEFINE t == [id |-> None, base |-> b, rev |-> approved[b], deps |-> {}]
  <2>1. b \in Nat /\ approved[b] \in Nat /\ approved[b] \in Revisions(b)
    <3>1. approved[b] # None
      BY <1>15 DEF Rebuild
    <3>2. Requires[b] \in Seq(SUBSET Names)
      BY SchedulingAssumption
    <3>3. known[b] \in Revisions(b) \cup {None} /\ approved[b] \in 0 .. known[b]
      BY DEF Sound, Packages, PackageTypes
    <3>4. QED
      BY <3>1, <3>2, <3>3, BasesFinite DEF Revisions, None
  <2>2. t \in Task /\ t.base = b /\ t.rev = approved[b]
    BY <2>1 DEF Task, None
  <2>3. Goto(p, "insert", NoClosure, {}, t)
    <3>1. Goto(p, "insert", NoClosure, {}, [NoTask EXCEPT !.base = b, !.rev = approved[b]])
      BY <1>15 DEF Rebuild
    <3>2. QED
      BY <3>1, Tasks
  <2>. HIDE DEF t
  <2>4. Takes(p, "insert", {}, t)
    BY <1>3, <2>1, <2>2 DEF Takes, HandlerSteps
  <2>5. QED
    BY <1>1, <1>3, <2>2, <2>3, <2>4, Empty, GotoHands DEF Goto, Takes
<1>16. CASE Crash
  <2>1. /\ pc' = [p \in Procs |-> IF p = Loop THEN "read" ELSE "idle"]
        /\ view' = [p \in Procs |-> NoClosure]
        /\ left' = [p \in Procs |-> {}]
        /\ cur' = [p \in Procs |-> NoTask]
    BY <1>16 DEF Crash
  <2>2. \A q \in Procs : Hand(q)'
    BY <2>1 DEF Hand
  <2>3. QED
    BY <1>3, <2>1, <2>2, Empty DEF Hands, LoopSteps, HandlerSteps
<1>17. QED
  BY <1>5, <1>6, <1>7, <1>8, <1>9, <1>10, <1>11, <1>12, <1>13, <1>14, <1>15, <1>16, <1>18,
     WhoChangesHands DEF LoopStep, HandlerStep

\* The invariant holds to begin with,
LEMMA InitSound ==
  ASSUME Init
  PROVE  Sound
<1>1. Packages
  <2>1. \A b \in Bases : 1 \in Revisions(b)
    <3>1. ASSUME NEW b \in Bases PROVE 1 \in Revisions(b)
      <4>1. Requires[b] \in Seq(SUBSET Names) /\ Requires[b] # <<>>
        BY SchedulingAssumption
      <4>2. QED
        BY <4>1 DEF Revisions
    <3>2. QED
      BY <3>1
  <2>2. subs \subseteq Bases
    BY SchedulingAssumption DEF Init
  <2>3. QED
    BY <2>1, <2>2 DEF Init, Packages, PackageTypes, None
<1>2. rows = <<>> /\ Ids = {}
  BY DEF Init, Ids
<1>3. RowTypes /\ Recorded /\ Listed
  BY <1>2, SchedulingAssumption DEF Init, RowTypes, Recorded, Listed
<1>4. Hands
  <2>1. Loop \in Procs /\ \A p \in Requests : p \in Procs /\ p # Loop
    BY SchedulingAssumption DEF Procs
  <2>2. \A p \in Procs : Hand(p)
    BY <1>2 DEF Init, Hand
  <2>3. QED
    BY <2>1, <2>2, Empty DEF Init, Hands, LoopSteps, HandlerSteps
<1>5. Others
  <2>1. MaxEvents \in Nat
    BY SchedulingAssumption
  <2>2. happened \in 0 .. MaxEvents
    BY <2>1 DEF Init
  <2>3. keep = {} /\ failing = {} /\ revived = {} /\ moved = FALSE
    BY DEF Init
  <2>4. QED
    BY <2>2, <2>3 DEF Others
<1>6. QED
  BY <1>1, <1>3, <1>4, <1>5 DEF Sound

\* every step keeps it,
LEMMA SoundStep ==
  ASSUME Sound, [Next]_vars
  PROVE  Sound'
<1>1. Packages' /\ RowTypes' /\ Hands' /\ Recorded' /\ Listed' /\ Others'
  BY PackagesStep, RowTypesStep, HandsStep, RecordedStep, ListedStep, OthersStep
<1>2. QED
  BY <1>1 DEF Sound

\* so it always holds.
LEMMA AlwaysSound == Spec => []Sound
<1>1. Init => Sound
  BY InitSound
<1>2. Sound /\ [Next]_vars => Sound'
  BY SoundStep
<1>3. QED
  BY <1>1, <1>2, PTL DEF Spec

\* It gives the types.
LEMMA SoundTypes ==
  ASSUME Sound
  PROVE  TypeOK
<1>1. Loop \in Procs /\ \A p \in Requests : p \in Procs
  BY DEF Procs
<1>2. /\ subs \subseteq Bases
      /\ \A b \in Bases : /\ \A n \in Names : choice[b][n] \in Candidates[n] \cup {None}
                          /\ known[b] \in Revisions(b) \cup {None}
                          /\ approved[b] \in 0 .. known[b]
                          /\ b \in reviewing => approved[b] < known[b]
      /\ reviewing \subseteq Bases
  BY DEF Sound, Packages, PackageTypes
<1>3. ASSUME NEW i \in Ids
      PROVE  /\ rows[i].base \in Bases /\ rows[i].rev \in Revisions(rows[i].base)
             /\ rows[i].st \in States /\ rows[i].deps \subseteq Ids
             /\ rows[i].files => rows[i].st = "succeeded"
  BY RowThere DEF Sound, RowTypes, Recorded, Row
<1>4. /\ \A k \in 1 .. Len(finished) : finished[k] \in Ids
      /\ Len(plans) <= KeptPlans
      /\ \A k \in 1 .. Len(plans) :
           plans[k] \subseteq {i \in Ids : rows[i].st = "succeeded"} \cup {None}
  BY DEF Sound, Recorded, Listed, Done
<1>5. /\ pc[Loop] \in {"read", "cancel", "schedule", "insert", "publish", "rest", "gc"}
      /\ \A p \in Requests : pc[p] \in {"idle", "pick", "claim", "insert"}
  BY DEF Sound, Hands, LoopSteps, HandlerSteps
<1>6. \A p \in Procs : left[p] \subseteq Bases \cup Ids
  BY DEF Sound, Hands, Hand
<1>7. QED
  BY <1>2, <1>3, <1>4, <1>5, <1>6 DEF TypeOK, Sound, Others

\* Types: rows refer to packages, revisions and builds that exist, and what
\* has files or is published has succeeded, whoever wrote it and when.
THEOREM TypeCorrect == Spec => []TypeOK
<1>1. Sound => TypeOK
  BY SoundTypes
<1>2. QED
  BY <1>1, AlwaysSound, PTL

-----------------------------------------------------------------------------
(* The closure.                                                            *)

\* compute_closure finds what the subscriptions need, directly or through
\* other packages, whatever the graph, its circles and the choices; it stops
\* one member after the limit and then has nothing that is not needed.
THEOREM ClosureRight == Spec => []ClosureIsReach
<1>1. Sound => ClosureIsReach
  BY FindsReach DEF Sound, Packages
<1>2. QED
  BY <1>1, AlwaysSound, PTL

-----------------------------------------------------------------------------
(* Publications are self-contained.                                        *)

\* What Publish chooses has its dependencies with it.
LEMMA SelfContainedStep ==
  ASSUME Sound, [Next]_vars, plans' # plans, pc[Loop] = "publish", pc'[Loop] = "rest",
         view[Loop] = Closure,
         Cardinality(view[Loop].members) <= MaxClosure,
         NEW i \in Head(plans'), rows[i].rev = DependencyRevision(rows[i].base),
         NEW d \in Needed(rows[i].base, rows[i].rev)
  PROVE  \E j \in Head(plans') : rows[j].base = d
<1>. DEFINE v == view[Loop]
            Whole(m) == \A e \in AllDeps(v, m) \cup {m} : e \in v.members /\ Usable(e) # None
<1>1. PackageTypes
  BY DEF Sound, Packages
<1>2. /\ v \in Searches /\ v.members \subseteq Bases
      /\ Cardinality(v.members) \in Nat /\ MaxClosure \in Nat
  BY <1>1, ClosureFinds, PartFinite, SchedulingAssumption DEF Searches
<1>3. Sane(v)
  <2>1. ~ Cut(v)
    BY <1>2 DEF Cut
  <2>2. QED
    BY <1>1, <2>1, ClosureFinds
<1>4. Head(plans') = Chosen(v)
  <2>1. \A j \in Ids : ~ FailBuild(j)
    BY DEF FailBuild, procVars
  <2>2. Publish
    BY <2>1, WhoPublishes
  <2>3. QED
    BY <2>2, PublishFacts
<1>5. Chosen(v) = {Usable(m) : m \in {c \in v.members : Whole(c)}}
  BY DEF Chosen
<1>6. PICK b \in v.members : Whole(b) /\ i = Usable(b)
  BY <1>4, <1>5
<1>7. b \in Bases /\ rows[i].base = b /\ d \in Deps(b)
  <2>1. Usable(b) # None
    BY <1>6
  <2>2. rows[i].base = b
    BY <1>6, <2>1, UsableIs
  <2>3. QED
    BY <1>2, <2>2 DEF Deps
<1>8. d \in Bases /\ d # b
  BY <1>1, <1>7, DepsBases
<1>9. <<b, d>> \in v.edges
  <2>1. v.edges = EdgesOf(v.members)
    BY <1>3 DEF Sane
  <2>2. <<b, d>>[1] = b /\ <<b, d>>[2] = d /\ <<b, d>> \in Bases \X Bases
    BY <1>7, <1>8
  <2>3. QED
    BY <1>6, <1>7, <2>1, <2>2 DEF EdgesOf
<1>10. d \in AllDeps(v, b) /\ AllDeps(v, d) \subseteq AllDeps(v, b) \cup {b}
  BY <1>2, <1>7, <1>8, <1>9, AllDepsFacts
<1>11. d \in v.members /\ Whole(d)
  BY <1>6, <1>10
<1>12. Usable(d) \in Chosen(v) /\ Usable(d) # None
  BY <1>5, <1>11
<1>13. rows[Usable(d)].base = d
  BY <1>12, UsableIs
<1>14. QED
  BY <1>4, <1>12, <1>13

\* A build is published only together with builds of everything that its
\* revision needs, unless that is no longer the revision the closure was made
\* from, the closure has changed since, or it was cut off.
THEOREM PublishesWhole == Spec => SelfContained
<1>. DEFINE P == plans' # plans /\ pc[Loop] = "publish" /\ pc'[Loop] = "rest"
                    /\ view[Loop] = Closure
                    /\ Cardinality(view[Loop].members) <= MaxClosure =>
                  \A i \in Head(plans') :
                    LET b == rows[i].base
                    IN  rows[i].rev = DependencyRevision(b) =>
                          \A d \in Needed(b, rows[i].rev) :
                            \E j \in Head(plans') : rows[j].base = d
<1>1. Sound /\ [Next]_vars => P
  BY SelfContainedStep
<1>2. Sound /\ [Next]_vars => [P]_vars
  BY <1>1
<1>3. [][P]_vars => SelfContained
  BY DEF SelfContained
<1>. HIDE DEF P
<1>4. QED
  BY <1>2, <1>3, AlwaysSound, PTL DEF Spec

-----------------------------------------------------------------------------
(* Rows in progress do not pile up.                                        *)

\* The rows in progress of revision r of b that fail_build has not brought back.
LiveOf(b, r) == {i \in LiveRows(b) \ revived : rows[i].rev = r}
\* The processes about to add one.
Inserting(b, r) == {p \in Procs : pc[p] = "insert" /\ cur[p].base = b /\ cur[p].rev = r}

\* A process that has seen no live row may add one: with those who are about
\* to, the rows in progress are no more than the processes.
Bounded ==
  \A b \in Bases : \A r \in Revisions(b) :
    Cardinality(LiveOf(b, r)) + Cardinality(Inserting(b, r)) <= Cardinality(Procs)

\* Both are finite.
LEMMA Counts ==
  ASSUME Sound, NEW b, NEW r
  PROVE  /\ IsFiniteSet(Procs) /\ Cardinality(Procs) \in Nat
         /\ IsFiniteSet(LiveOf(b, r)) /\ Cardinality(LiveOf(b, r)) \in Nat
         /\ Inserting(b, r) \in SUBSET Procs
         /\ IsFiniteSet(Inserting(b, r)) /\ Cardinality(Inserting(b, r)) \in Nat
<1>1. IsFiniteSet(Procs)
  BY SchedulingAssumption, FS_AddElement DEF Procs
<1>2. IsFiniteSet(Ids)
  <2>1. Len(rows) \in Nat
    BY DEF Sound, RowTypes
  <2>2. QED
    BY <2>1, FS_Interval DEF Ids
<1>3. LiveOf(b, r) \in SUBSET Ids
  BY DEF LiveOf, LiveRows
<1>4. Inserting(b, r) \in SUBSET Procs
  BY DEF Inserting
<1>5. IsFiniteSet(LiveOf(b, r)) /\ IsFiniteSet(Inserting(b, r))
  BY <1>1, <1>2, <1>3, <1>4, FS_Subset
<1>6. QED
  BY <1>1, <1>4, <1>5, FS_CardinalityType

\* A row that was brought back stays one.
LEMMA WhoRevives ==
  ASSUME [Next]_vars
  PROVE  revived \subseteq revived'
<1>1. CASE LoopStep
  BY <1>1 DEF LoopStep, ReadClosure, Cancel, CheckMember, InsertRow, CheckActive, Publish,
       EndGarbage, failVars
<1>2. CASE BeginGarbage \/ (\E i \in Ids : RemoveFiles(i)) \/ Crash
  BY <1>2 DEF BeginGarbage, RemoveFiles, Crash, failVars
<1>3. CASE \E p \in Requests : HandlerStep(p) \/ \E b \in Bases : Rebuild(p, b)
  BY <1>3 DEF HandlerStep, BeginLease, Pick, Claim, InsertRow, Rebuild, failVars
<1>4. CASE \E b \in Bases : \/ Ingest(b) \/ Approve(b) \/ Reject(b)
                            \/ Subscribe(b) \/ Unsubscribe(b) \/ SelectProvider(b)
  BY <1>4 DEF Ingest, Approve, Reject, Subscribe, Unsubscribe, SelectProvider, failVars
<1>5. CASE \E i \in Ids : Fetch(i) \/ Succeed(i) \/ Report(i) \/ FailBuild(i)
  BY <1>5 DEF Fetch, Succeed, Report, FailBuild, failVars
<1>6. CASE UNCHANGED vars
  BY <1>6 DEF vars, failVars
<1>7. QED
  BY <1>1, <1>2, <1>3, <1>4, <1>5, <1>6 DEF Next

\* Rows come into progress by insertion, or are brought back by fail_build.
LEMMA LiveStays ==
  ASSUME Sound, [Next]_vars, NEW b, NEW r, NEW i \in Ids, i \in LiveOf(b, r)'
  PROVE  i \in LiveOf(b, r)
<1>1. Usual(i)
  BY Moves DEF RowsMove
<1>2. /\ rows'[i].base = b /\ rows'[i].st \in Live /\ rows'[i].rev = r
      /\ i \notin revived'
  BY DEF LiveOf, LiveRows
<1>3. i \notin revived
  BY <1>2, WhoRevives
<1>4. rows[i].st \notin Live => ~ FailBuild(i)
  BY <1>2 DEF FailBuild
<1>5. rows[i].st \in Live
  BY <1>1, <1>2, <1>4 DEF Usual
<1>6. QED
  BY <1>1, <1>2, <1>3, <1>5 DEF Usual, LiveOf, LiveRows

\* The processes about to insert, when one of them goes on.
LEMMA GotoInserting ==
  ASSUME Sound, NEW p \in Procs, NEW l, NEW v, NEW L, NEW t, Goto(p, l, v, L, t),
         NEW b, NEW r
  PROVE  /\ \A q \in Procs \ {p} : q \in Inserting(b, r)' <=> q \in Inserting(b, r)
         /\ p \in Inserting(b, r)' <=> l = "insert" /\ t.base = b /\ t.rev = r
<1>1. pc \in [Procs -> LoopSteps \cup HandlerSteps] /\ cur \in [Procs -> Task]
  BY DEF Sound, Hands
<1>2. /\ pc'[p] = l /\ cur'[p] = t
      /\ \A q \in Procs : q # p => pc'[q] = pc[q] /\ cur'[q] = cur[q]
  BY <1>1 DEF Goto
<1>3. QED
  BY <1>2 DEF Inserting

\* A process gets there from a look at the rows that shows none in progress.
LEMMA InsertingStays ==
  ASSUME Sound, [Next]_vars, NEW b \in Bases, NEW r \in Revisions(b)
  PROVE  \/ Inserting(b, r)' \subseteq Inserting(b, r)
         \/ UNCHANGED rows /\ LiveOf(b, r) = {}
<1>. DEFINE Fine == Inserting(b, r)' \subseteq Inserting(b, r)
<1>1. Loop \in Procs /\ \A p \in Requests : p \in Procs
  BY DEF Procs
<1>2. Inserting(b, r)' \subseteq Procs
  BY DEF Inserting
<1>3. ASSUME NEW p \in Procs, NEW l, NEW v, NEW L, NEW t, l # "insert", Goto(p, l, v, L, t)
      PROVE  Fine
  BY <1>2, <1>3, GotoInserting DEF Goto
<1>4. ASSUME NEW p \in Procs, NEW l, l # "insert", Rest(p, l)
      PROVE  Fine
  BY <1>3, <1>4 DEF Rest, Goto
<1>5. CASE UNCHANGED procVars
  BY <1>5 DEF procVars, Inserting
<1>6. CASE ReadClosure \/ Cancel \/ InsertRow(Loop)
  <2>1. PICK l \in {"cancel", "schedule"}, v \in {Closure, view[Loop]},
             L \in {{}, view[Loop].members, left[Loop]} : Goto(Loop, l, v, L, NoTask)
    BY <1>6 DEF ReadClosure, Cancel, InsertRow, Goto
  <2>2. QED
    BY <1>1, <1>3, <2>1 DEF Goto
<1>7. CASE Publish \/ BeginGarbage \/ EndGarbage
  <2>1. PICK l \in {"rest", "gc", "read"} : Rest(Loop, l)
    BY <1>7 DEF Publish, BeginGarbage, EndGarbage, Rest, Goto
  <2>2. QED
    BY <1>1, <1>4, <2>1 DEF Rest, Goto
<1>8. CASE CheckMember
  <2>. DEFINE c == Least(left[Loop])
              t == [id |-> None, base |-> c, rev |-> approved[c], deps |-> {}]
              L == left[Loop] \ {c}
  <2>1. /\ NeverQueued(c) => Goto(Loop, "insert", view[Loop], L,
                                  [NoTask EXCEPT !.base = c, !.rev = approved[c]])
        /\ ~ NeverQueued(c) => Goto(Loop, "schedule", view[Loop], L, NoTask)
    BY <1>8 DEF CheckMember
  <2>. HIDE DEF c, L
  <2>2. CASE ~ NeverQueued(c)
    <3>1. Goto(Loop, "schedule", view[Loop], L, NoTask)
      BY <2>1, <2>2
    <3>2. QED
      BY <1>1, <1>3, <3>1 DEF Goto
  <2>3. CASE NeverQueued(c)
    <3>1. Goto(Loop, "insert", view[Loop], L, t)
      BY <2>1, <2>3, Tasks
    <3>2. t.base = c /\ t.rev = approved[c]
      OBVIOUS
    <3>. HIDE DEF t
    <3>3. CASE c = b /\ approved[c] = r
      <4>1. \A i \in Ids : ~ (rows[i].base = b /\ rows[i].rev = r)
        BY <2>3, <3>3 DEF NeverQueued
      <4>2. LiveOf(b, r) = {}
        BY <4>1 DEF LiveOf, LiveRows
      <4>3. QED
        BY <1>8, <4>2 DEF CheckMember
    <3>4. CASE ~ (c = b /\ approved[c] = r)
      <4>1. Loop \in Inserting(b, r)' <=> "insert" = "insert" /\ t.base = b /\ t.rev = r
        BY <1>1, <3>1, GotoInserting DEF Goto
      <4>2. Loop \notin Inserting(b, r)'
        BY <3>2, <3>4, <4>1
      <4>3. \A q \in Procs \ {Loop} : q \in Inserting(b, r)' => q \in Inserting(b, r)
        BY <1>1, <3>1, GotoInserting DEF Goto
      <4>4. QED
        BY <1>2, <4>2, <4>3
    <3>5. QED
      BY <3>3, <3>4
  <2>4. QED
    BY <2>2, <2>3
<1>13. CASE CheckActive
  <2>1. PICK l \in {"rest", "publish"}, v \in {view[Loop], NoClosure} :
          Goto(Loop, l, v, {}, NoTask)
    BY <1>13 DEF CheckActive, Rest, Goto
  <2>2. QED
    BY <1>1, <1>3, <2>1 DEF Goto
<1>9. ASSUME NEW p \in Requests, BeginLease(p) \/ Pick(p) \/ Claim(p) \/ (p # Loop /\ InsertRow(p))
      PROVE  Fine
  <2>1. \E l \in {"pick", "idle", "claim"} : \E v, L, t : Goto(p, l, v, L, t)
    <3>1. CASE BeginLease(p)
      BY <3>1 DEF BeginLease
    <3>2. CASE Pick(p)
      BY <3>2 DEF Pick, Rest
    <3>3. CASE Claim(p)
      BY <3>3 DEF Claim, Rest
    <3>4. CASE p # Loop /\ InsertRow(p)
      BY <3>4 DEF InsertRow, Rest
    <3>5. QED
      BY <1>9, <3>1, <3>2, <3>3, <3>4
  <2>2. PICK l \in {"pick", "idle", "claim"} : \E v, L, t : Goto(p, l, v, L, t)
    BY <2>1
  <2>3. PICK v, L, t : Goto(p, l, v, L, t)
    BY <2>2
  <2>4. p \in Procs /\ l # "insert"
    BY <1>1
  <2>5. QED
    BY <1>3, <2>3, <2>4 DEF Goto
<1>10. ASSUME NEW p \in Requests, NEW c \in Bases, Rebuild(p, c)
       PROVE  Fine \/ (UNCHANGED rows /\ LiveOf(b, r) = {})
  <2>. DEFINE t == [id |-> None, base |-> c, rev |-> approved[c], deps |-> {}]
  <2>1. Goto(p, "insert", NoClosure, {}, t)
    <3>1. Goto(p, "insert", NoClosure, {}, [NoTask EXCEPT !.base = c, !.rev = approved[c]])
      BY <1>10 DEF Rebuild
    <3>2. QED
      BY <3>1, Tasks
  <2>2. t.base = c /\ t.rev = approved[c]
    OBVIOUS
  <2>. HIDE DEF t
  <2>3. CASE c = b /\ approved[c] = r
    <3>1. LiveOf(b, r) = {}
      BY <1>10, <2>3 DEF Rebuild, Idle, LiveOf
    <3>2. QED
      BY <1>10, <3>1 DEF Rebuild
  <2>4. CASE ~ (c = b /\ approved[c] = r)
    <3>0. p \in Inserting(b, r)' <=> "insert" = "insert" /\ t.base = b /\ t.rev = r
      BY <1>1, <2>1, GotoInserting, ZenonT(40) DEF Goto
    <3>1. p \notin Inserting(b, r)'
      BY <2>2, <2>4, <3>0
    <3>2. \A q \in Procs \ {p} : q \in Inserting(b, r)' => q \in Inserting(b, r)
      BY <1>1, <2>1, GotoInserting DEF Goto
    <3>3. Fine
      BY <1>2, <3>1, <3>2
    <3>4. QED
      BY <3>3
  <2>5. QED
    BY <2>3, <2>4
<1>11. CASE Crash
  BY <1>11 DEF Crash, Inserting
<1>12. QED
  BY <1>5, <1>6, <1>7, <1>8, <1>9, <1>10, <1>11, <1>13, WhoChangesHands
     DEF LoopStep, HandlerStep

\* A part of a finite set is finite and no larger.
LEMMA Fewer ==
  ASSUME NEW S, NEW T, IsFiniteSet(T), S \subseteq T
  PROVE  /\ IsFiniteSet(S) /\ Cardinality(S) \in Nat /\ Cardinality(T) \in Nat
         /\ Cardinality(S) <= Cardinality(T)
BY FS_Subset, FS_CardinalityType

\* What an insertion adds: a row of one revision, and one process less that is
\* about to insert it.
LEMMA InsertCounts ==
  ASSUME Sound, NEW p \in Procs, InsertRow(p), [Next]_vars, NEW b, NEW r
  PROVE  /\ Inserting(b, r)' \subseteq Inserting(b, r) \ {p}
         /\ \/ LiveOf(b, r)' \subseteq LiveOf(b, r)
            \/ /\ p \in Inserting(b, r)
               /\ LiveOf(b, r)' \subseteq LiveOf(b, r) \cup {Len(rows) + 1}
<1>1. PICK l \in {"schedule", "idle"} : \E v, L, t : Goto(p, l, v, L, t)
  BY DEF InsertRow, Rest
<1>2. PICK v, L, t : Goto(p, l, v, L, t)
  BY <1>1
<1>3. Inserting(b, r)' \subseteq Procs
  BY DEF Inserting
<1>4. /\ \A q \in Procs \ {p} : q \in Inserting(b, r)' <=> q \in Inserting(b, r)
      /\ p \in Inserting(b, r)' <=> l = "insert" /\ t.base = b /\ t.rev = r
  BY <1>2, GotoInserting DEF Goto
<1>5. Inserting(b, r)' \subseteq Inserting(b, r) \ {p}
  BY <1>3, <1>4
<1>6. /\ rows' \in Seq(Row) /\ Len(rows) \in Nat /\ Len(rows') = Len(rows) + 1
      /\ Inserts(p, Len(rows) + 1)
  BY InsertMoves DEF RowsMove, Sound, RowTypes
<1>7. Ids' = Ids \cup {Len(rows) + 1}
  BY <1>6 DEF Ids
<1>8. LiveOf(b, r)' \subseteq LiveOf(b, r) \cup {Len(rows) + 1}
  <2>1. ASSUME NEW i \in LiveOf(b, r)', i \in Ids PROVE i \in LiveOf(b, r)
    BY <2>1, LiveStays
  <2>2. LiveOf(b, r)' \subseteq Ids'
    BY DEF LiveOf, LiveRows
  <2>3. QED
    BY <1>7, <2>1, <2>2
<1>9. CASE cur[p].base = b /\ cur[p].rev = r
  <2>1. p \in Inserting(b, r)
    BY <1>9 DEF Inserting, InsertRow
  <2>2. QED
    BY <1>5, <1>8, <2>1
<1>10. CASE ~ (cur[p].base = b /\ cur[p].rev = r)
  <2>1. Len(rows) + 1 \notin LiveOf(b, r)'
    BY <1>6, <1>10 DEF Inserts, LiveOf, LiveRows
  <2>2. LiveOf(b, r)' \subseteq LiveOf(b, r)
    BY <1>8, <2>1
  <2>3. QED
    BY <1>5, <2>2
<1>11. QED
  BY <1>9, <1>10

\* One less here makes up for one more there.
LEMMA Balance ==
  ASSUME NEW k \in Nat, NEW m \in Nat, NEW n \in Nat, NEW k1 \in Nat, NEW m1 \in Nat,
         k + m <= n, k1 <= k + 1, m1 + 1 <= m
  PROVE  k1 + m1 <= n
OBVIOUS

\* Every step keeps the bound.
LEMMA BoundedStep == Sound /\ Bounded /\ [Next]_vars => Bounded'
<1>1. SUFFICES ASSUME Sound, Bounded, [Next]_vars, NEW b \in Bases, NEW r \in Revisions(b)
               PROVE  Cardinality(LiveOf(b, r)') + Cardinality(Inserting(b, r)')
                        <= Cardinality(Procs)
  BY DEF Bounded, Revisions, Procs
<1>. DEFINE n == Cardinality(Procs)
            k == Cardinality(LiveOf(b, r))
            m == Cardinality(Inserting(b, r))
            k1 == Cardinality(LiveOf(b, r)')
            m1 == Cardinality(Inserting(b, r)')
<1>2. /\ IsFiniteSet(Procs) /\ n \in Nat
      /\ IsFiniteSet(LiveOf(b, r)) /\ k \in Nat
      /\ IsFiniteSet(Inserting(b, r)) /\ m \in Nat
  BY <1>1, Counts
<1>3. k + m <= n
  BY <1>1 DEF Bounded
<1>4. Inserting(b, r)' \subseteq Procs
  BY DEF Inserting
<1>5. m1 \in Nat /\ m1 <= n
  BY <1>2, <1>4, Fewer
<1>6. CASE LiveOf(b, r)' \subseteq LiveOf(b, r) /\ Inserting(b, r)' \subseteq Inserting(b, r)
  <2>1. k1 \in Nat /\ k1 <= k /\ m1 <= m
    BY <1>2, <1>6, Fewer
  <2>. HIDE DEF k, m, n, k1, m1
  <2>2. k1 + m1 <= n
    BY <1>2, <1>3, <1>5, <2>1
  <2>3. QED
    BY <2>2 DEF k1, m1, n
<1>7. CASE UNCHANGED rows /\ LiveOf(b, r) = {}
  <2>1. LiveOf(b, r)' = {}
    BY <1>1, <1>7, WhoRevives DEF LiveOf, LiveRows, Ids
  <2>2. k1 = 0
    BY <2>1, FS_EmptySet
  <2>. HIDE DEF k1, m1, n
  <2>3. k1 + m1 <= n
    BY <1>2, <1>5, <2>2
  <2>4. QED
    BY <2>3 DEF k1, m1, n
<1>8. ASSUME NEW p \in Procs, InsertRow(p)
      PROVE  k1 + m1 <= n
  <2>1. Inserting(b, r)' \subseteq Inserting(b, r) \ {p}
    BY <1>1, <1>8, InsertCounts
  <2>2. CASE LiveOf(b, r)' \subseteq LiveOf(b, r)
    BY <1>6, <2>1, <2>2
  <2>3. CASE /\ p \in Inserting(b, r)
             /\ LiveOf(b, r)' \subseteq LiveOf(b, r) \cup {Len(rows) + 1}
    <3>. DEFINE T == LiveOf(b, r) \cup {Len(rows) + 1}
                U == Inserting(b, r) \ {p}
    <3>1. IsFiniteSet(T) /\ Cardinality(T) <= k + 1
      <4>1. IsFiniteSet(T) /\ (Cardinality(T) = k \/ Cardinality(T) = k + 1)
        BY <1>2, FS_AddElement
      <4>. HIDE DEF T, k
      <4>2. QED
        BY <1>2, <4>1
    <3>2. IsFiniteSet(U) /\ Cardinality(U) = m - 1
      BY <1>2, <2>3, FS_RemoveElement
    <3>3. /\ k1 \in Nat /\ Cardinality(T) \in Nat /\ k1 <= Cardinality(T)
          /\ Cardinality(U) \in Nat /\ m1 <= Cardinality(U)
      BY <2>1, <2>3, <3>1, <3>2, Fewer
    <3>4. k1 <= k + 1 /\ m1 + 1 <= m
      <4>. HIDE DEF k, m, k1, m1, T, U
      <4>1. QED
        BY <1>2, <1>5, <3>1, <3>2, <3>3
    <3>. HIDE DEF k, m, n, k1, m1
    <3>5. QED
      BY <1>2, <1>3, <1>5, <3>3, <3>4, Balance
  <2>4. QED
    BY <1>1, <1>8, <2>2, <2>3, InsertCounts
<1>9. CASE ~ \E p \in Procs : InsertRow(p)
  <2>1. Ids' = Ids
    <3>1. \A j \in Ids' \ Ids : \E p \in Procs : Inserts(p, j)
      BY <1>1, Moves DEF RowsMove
    <3>2. Ids \subseteq Ids'
      BY <1>1, Moves DEF RowsMove
    <3>3. QED
      BY <1>9, <3>1, <3>2 DEF Inserts
  <2>2. LiveOf(b, r)' \subseteq LiveOf(b, r)
    <3>1. LiveOf(b, r)' \subseteq Ids
      BY <2>1 DEF LiveOf, LiveRows
    <3>2. QED
      BY <1>1, <3>1, LiveStays
  <2>3. \/ Inserting(b, r)' \subseteq Inserting(b, r)
        \/ UNCHANGED rows /\ LiveOf(b, r) = {}
    BY <1>1, InsertingStays
  <2>4. QED
    BY <1>6, <1>7, <2>2, <2>3
<1>10. QED
  BY <1>8, <1>9

\* Nothing is queued, and nobody about to queue, to begin with.
LEMMA InitBounded == Init => Bounded
<1>1. SUFFICES ASSUME Init, NEW b \in Bases, NEW r \in Revisions(b)
               PROVE  Cardinality(LiveOf(b, r)) + Cardinality(Inserting(b, r))
                        <= Cardinality(Procs)
  BY DEF Bounded
<1>2. LiveOf(b, r) = {}
  BY <1>1 DEF Init, LiveOf, LiveRows, Ids
<1>3. Inserting(b, r) = {}
  BY <1>1 DEF Init, Inserting
<1>4. Cardinality(Procs) \in Nat
  BY SchedulingAssumption, FS_AddElement, FS_CardinalityType DEF Procs
<1>5. QED
  BY <1>2, <1>3, <1>4, FS_EmptySet

\* However requests and the loop interleave, and however often a rebuild is asked
\* for, the rows in progress of one revision are never more than the processes
\* that insert rows, but for those that a late fail_build brings back
\* (builds.rs schedule, rebuild, fail_build).
THEOREM RowsBounded == Spec => []ActiveBound
<1>1. Sound /\ Bounded => ActiveBound
  <2>1. SUFFICES ASSUME Sound, Bounded, NEW b \in Bases, NEW r \in Revisions(b)
                 PROVE  Cardinality(LiveOf(b, r)) <= Cardinality(Procs)
    BY DEF ActiveBound, LiveOf
  <2>. DEFINE n == Cardinality(Procs)
              k == Cardinality(LiveOf(b, r))
              m == Cardinality(Inserting(b, r))
  <2>2. k + m <= n
    BY <2>1 DEF Bounded
  <2>3. k \in Nat /\ m \in Nat /\ n \in Nat
    BY <2>1, Counts
  <2>. HIDE DEF k, m, n
  <2>4. k <= n
    BY <2>2, <2>3
  <2>5. QED
    BY <2>4 DEF k, n
<1>2. QED
  BY <1>1, AlwaysSound, InitBounded, BoundedStep, PTL DEF Spec

-----------------------------------------------------------------------------
(* Clean-up spares what is used.                                           *)

\* While the pass goes on undisturbed, what it spares is what it should.
Sparing == pc[Loop] = "gc" /\ ~ moved => keep = Spared

\* The closure depends on the packages alone.
LEMMA SameClosure ==
  ASSUME UNCHANGED packageVars
  PROVE  Closure' = Closure
<1>1. \A s : Advance(s)' = Advance(s)
  BY DEF packageVars, Advance, Needed, DependencyRevision, Unresolved
<1>2. search' = search
  BY <1>1 DEF search
<1>3. QED
  BY <1>2 DEF Closure, packageVars

\* usable_build: the builds to choose from, and the newest one of those in P.
Pool(b) ==
  LET newest == {i \in Having(b) : rows[i].rev = approved[b]}
  IN  IF newest # {} THEN newest ELSE Having(b)
\* Where builds of P are in f,
When(f, P) == {k \in 1 .. Len(f) : f[k] \in P}
\* and the last of them.
Latest(f, P) == f[CHOOSE k \in When(f, P) : \A j \in When(f, P) : j <= k]

\* The build in use is the last of the pool, in this state and the next.
LEMMA UsableLatest ==
  ASSUME NEW b
  PROVE  /\ Usable(b) = IF Pool(b) = {} THEN None ELSE Latest(finished, Pool(b))
         /\ Usable(b)' = IF Pool(b)' = {} THEN None ELSE Latest(finished', Pool(b)')
BY DEF Usable, Pool, Having, Latest, When

\* The newest one is one of them.
LEMMA LatestIn ==
  ASSUME NEW f \in Seq(Nat), NEW P, NEW k0 \in When(f, P)
  PROVE  \E k \in When(f, P) : /\ \A j \in When(f, P) : j <= k
                               /\ f[k] = Latest(f, P) /\ Latest(f, P) \in P
<1>1. Len(f) \in Nat /\ When(f, P) \in SUBSET (0 .. Len(f)) /\ When(f, P) # {}
  BY DEF When
<1>2. \E k \in When(f, P) : \A j \in When(f, P) : j <= k
  BY <1>1, Maximum
<1>. DEFINE last == CHOOSE k \in When(f, P) : \A j \in When(f, P) : j <= k
<1>3. last \in When(f, P) /\ \A j \in When(f, P) : j <= last
  BY <1>2
<1>4. Latest(f, P) = f[last]
  BY DEF Latest
<1>. HIDE DEF last
<1>5. f[last] \in P
  BY <1>3 DEF When
<1>6. QED
  BY <1>3, <1>4, <1>5

\* It stays the newest one when another is left out.
LEMMA LatestStays ==
  ASSUME NEW f \in Seq(Nat), NEW P, NEW k0 \in When(f, P), NEW i, Latest(f, P) # i
  PROVE  Latest(f, P \ {i}) = Latest(f, P)
<1>1. PICK k \in When(f, P) : /\ \A j \in When(f, P) : j <= k
                             /\ f[k] = Latest(f, P) /\ Latest(f, P) \in P
  BY LatestIn
<1>2. k \in When(f, P \ {i})
  BY <1>1 DEF When
<1>3. PICK m \in When(f, P \ {i}) : /\ \A j \in When(f, P \ {i}) : j <= m
                                    /\ f[m] = Latest(f, P \ {i})
  BY <1>2, LatestIn
<1>4. m \in When(f, P) /\ k \in Nat /\ m \in Nat
  BY <1>1, <1>3 DEF When
<1>5. m <= k /\ k <= m
  BY <1>1, <1>2, <1>3, <1>4
<1>6. m = k
  BY <1>4, <1>5
<1>7. QED
  BY <1>1, <1>3, <1>6

\* A choice there is has been made from builds recorded as finished.
LEMMA PoolFinished ==
  ASSUME Sound, NEW b, Pool(b) # {}
  PROVE  /\ finished \in Seq(Nat) /\ \E k : k \in When(finished, Pool(b))
         /\ Pool(b) \subseteq Having(b)
<1>1. Pool(b) \subseteq Having(b)
  BY DEF Pool
<1>2. PICK i \in Pool(b) : TRUE
  OBVIOUS
<1>3. i \in Ids /\ rows[i].st = "succeeded"
  BY <1>1, <1>2 DEF Having
<1>4. PICK k \in 1 .. Len(finished) : finished[k] = i
  BY <1>3 DEF Sound, Recorded
<1>5. k \in When(finished, Pool(b))
  BY <1>2, <1>4 DEF When
<1>6. QED
  BY <1>1, <1>5 DEF Sound, Recorded

\* Undisturbed, neither packages nor finished builds nor publications change
\* during the pass.
LEMMA Undisturbed ==
  ASSUME Sound, [Next]_vars, pc[Loop] = "gc", ~ moved'
  PROVE  UNCHANGED packageVars /\ UNCHANGED finished /\ UNCHANGED plans
         /\ \A i \in Ids : ~ Succeed(i) /\ (FailBuild(i) => i \notin Done)
<1>1. ~ Disturb
  BY DEF Disturb
<1>2. UNCHANGED packageVars
  BY <1>1, WhoChangesPackages DEF Ingest, Approve, Reject, Subscribe, Unsubscribe, SelectProvider
<1>3. \A i \in Ids : ~ Succeed(i) /\ (FailBuild(i) => i \notin Done)
  BY <1>1 DEF Succeed, FailBuild, Done
<1>4. UNCHANGED finished
  BY <1>3, WhoFinishes
<1>5. UNCHANGED plans
  BY <1>3, WhoPublishes, FailLists DEF Publish
<1>6. QED
  BY <1>2, <1>3, <1>4, <1>5

\* Unless its files are removed, a build of b stays one with files, and one
\* without stays so while nothing succeeds.
LEMMA HavingStays ==
  ASSUME Sound, [Next]_vars, NEW b,
         \A i \in Ids : ~ Succeed(i) /\ (FailBuild(i) => i \notin Done)
  PROVE  /\ Having(b)' \subseteq Having(b)
         /\ \A i \in Having(b) : i \in Having(b)' \/ RemoveFiles(i)
         /\ \A i \in Having(b)' : rows'[i].rev = rows[i].rev
<1>1. RowsMove
  BY Moves
<1>2. \A i \in Ids : rows[i].files => rows[i].st = "succeeded"
  BY DEF Sound, Recorded
<1>3. ASSUME NEW i \in Having(b)'
      PROVE  i \in Having(b) /\ rows'[i].rev = rows[i].rev
  <2>1. i \in Ids' /\ rows'[i].base = b /\ rows'[i].files
    BY DEF Having
  <2>2. i \in Ids
    BY <1>1, <2>1 DEF RowsMove, Inserts
  <2>3. Usual(i)
    BY <1>1, <2>2 DEF RowsMove
  <2>4. rows[i].files /\ rows[i].base = b /\ rows'[i].rev = rows[i].rev
    BY <2>1, <2>2, <2>3 DEF Usual
  <2>5. QED
    BY <1>2, <2>2, <2>4 DEF Having
<1>4. ASSUME NEW i \in Having(b), ~ RemoveFiles(i)
      PROVE  i \in Having(b)'
  <2>1. /\ i \in Ids /\ i \in Ids' /\ rows[i].base = b /\ rows[i].files
        /\ ~ FailBuild(i)
    BY <1>1 DEF Having, RowsMove, Done
  <2>2. Usual(i)
    BY <1>1, <2>1 DEF RowsMove
  <2>3. rows'[i].base = b /\ rows'[i].files /\ rows'[i].st = "succeeded"
    BY <1>4, <2>1, <2>2 DEF Usual
  <2>4. QED
    BY <2>1, <2>3 DEF Having
<1>5. QED
  BY <1>3, <1>4

\* What is not the build a package uses may lose its files.
LEMMA UsableStays ==
  ASSUME Sound, [Next]_vars,
         \A i \in Ids : ~ Succeed(i) /\ (FailBuild(i) => i \notin Done),
         UNCHANGED approved, UNCHANGED finished, NEW b,
         Usable(b) # None => ~ RemoveFiles(Usable(b))
  PROVE  Usable(b)' = Usable(b)
<1>1. /\ Having(b)' \subseteq Having(b)
      /\ \A i \in Having(b) : i \in Having(b)' \/ RemoveFiles(i)
      /\ \A i \in Having(b)' : rows'[i].rev = rows[i].rev
  BY HavingStays
<1>2. CASE Having(b)' = Having(b)
  <2>1. Pool(b)' = Pool(b)
    BY <1>1, <1>2 DEF Pool
  <2>2. QED
    BY <2>1, UsableLatest
<1>3. CASE Having(b)' # Having(b)
  <2>1. PICK i \in Having(b) : RemoveFiles(i)
    BY <1>1, <1>3
  <2>2. i \in Ids
    BY <2>1 DEF Having
  <2>3. /\ Ids' = Ids /\ \A j \in Ids : j # i => rows'[j] = rows[j]
        /\ rows'[i].files = FALSE
    BY <2>1, <2>2, RemoveFacts
  <2>4. Having(b)' = Having(b) \ {i}
    BY <1>1, <2>3 DEF Having
  <2>5. Pool(b) # {}
    BY <2>1 DEF Pool
  <2>6. finished \in Seq(Nat) /\ \E k : k \in When(finished, Pool(b))
    BY <2>5, PoolFinished
  <2>7. PICK k : k \in When(finished, Pool(b))
    BY <2>6
  <2>8. Latest(finished, Pool(b)) \in Pool(b)
    BY <2>6, <2>7, LatestIn
  <2>9. Usable(b) = Latest(finished, Pool(b)) /\ Usable(b) # None
    <3>1. Usable(b) = Latest(finished, Pool(b))
      BY <2>5, UsableLatest
    <3>2. Usable(b) \in Having(b)
      BY <2>1, UsableIs
    <3>3. Usable(b) # None
      BY <3>2 DEF Having, Ids, None
    <3>4. QED
      BY <3>1, <3>3
  <2>10. Usable(b) # i
    BY <2>1, <2>9
  <2>11. Pool(b)' = Pool(b) \ {i}
    <3>. DEFINE newest == {j \in Having(b) : rows[j].rev = approved[b]}
                later == {j \in Having(b)' : rows'[j].rev = approved'[b]}
    <3>1. later = newest \ {i}
      BY <1>1, <2>4
    <3>2. Pool(b)' = IF later # {} THEN later ELSE Having(b)'
      BY DEF Pool
    <3>3. Pool(b) = IF newest # {} THEN newest ELSE Having(b)
      BY DEF Pool
    <3>4. newest # {} => later # {}
      BY <2>8, <2>9, <2>10, <3>1, <3>3
    <3>. HIDE DEF newest, later
    <3>5. QED
      BY <2>4, <3>1, <3>2, <3>3, <3>4
  <2>12. Latest(finished, Pool(b)') = Latest(finished, Pool(b)) /\ Pool(b)' # {}
    <3>1. Latest(finished, Pool(b)) # i
      BY <2>9, <2>10
    <3>2. Latest(finished, Pool(b) \ {i}) = Latest(finished, Pool(b))
      BY <2>6, <2>7, <3>1, LatestStays
    <3>3. Pool(b) \ {i} # {}
      BY <2>8, <3>1
    <3>4. QED
      BY <2>11, <3>2, <3>3
  <2>13. QED
    BY <2>9, <2>12, UsableLatest
<1>4. QED
  BY <1>2, <1>3

\* Undisturbed, the members keep the builds they use, and publications theirs.
LEMMA SpareStep ==
  ASSUME Sound, Sparing, [Next]_vars, pc[Loop] = "gc", ~ moved'
  PROVE  /\ \A b \in Closure.members : Usable(b)' = Usable(b)
         /\ \A k \in 1 .. Len(plans) :
              \A i \in plans[k] \ {None} : rows[i].files => rows'[i].files
<1>1. /\ UNCHANGED packageVars /\ UNCHANGED finished /\ UNCHANGED plans
      /\ \A i \in Ids : ~ Succeed(i) /\ (FailBuild(i) => i \notin Done)
  BY Undisturbed
<1>2. ASSUME NEW i \in Spared, RemoveFiles(i) PROVE FALSE
  BY <1>2 DEF RemoveFiles, Sparing
<1>3. ASSUME NEW b \in Closure.members PROVE Usable(b)' = Usable(b)
  <2>1. Usable(b) # None => Usable(b) \in Spared
    BY <1>3 DEF Spared
  <2>2. QED
    BY <1>1, <1>2, <2>1, UsableStays DEF packageVars
<1>4. ASSUME NEW k \in 1 .. Len(plans), NEW i \in plans[k], i # None, rows[i].files
      PROVE  rows'[i].files
  <2>1. i \in Ids /\ i \in Done
    BY <1>4 DEF Sound, Listed, Done
  <2>2. i \in Spared
    BY <1>4 DEF Spared
  <2>3. Usual(i)
    BY <2>1, Moves DEF RowsMove
  <2>4. QED
    BY <1>1, <1>2, <1>4, <2>1, <2>2, <2>3 DEF Usual
<1>5. QED
  BY <1>3, <1>4

\* With packages, publications and the builds of members the same, the pass
\* should spare the same.
LEMMA SameSpared ==
  ASSUME UNCHANGED packageVars, UNCHANGED plans,
         \A b \in Closure.members : Usable(b)' = Usable(b)
  PROVE  Spared' = Spared
<1>1. Closure' = Closure
  BY SameClosure
<1>2. {Usable(b) : b \in Closure.members}' = {Usable(b) : b \in Closure.members}
  BY <1>1
<1>3. QED
  BY <1>2 DEF Spared

\* The pass begins with BeginGarbage.
LEMMA WhoBeginsGarbage ==
  ASSUME Sound, [Next]_vars, pc'[Loop] = "gc", pc[Loop] # "gc"
  PROVE  BeginGarbage
<1>1. pc \in [Procs -> LoopSteps \cup HandlerSteps] /\ Loop \in Procs
  BY DEF Sound, Hands, Procs
<1>2. ASSUME NEW p \in Procs, NEW l, NEW v, NEW L, NEW t, Goto(p, l, v, L, t),
             p # Loop \/ l # "gc"
      PROVE  FALSE
  BY <1>1, <1>2 DEF Goto
<1>3. ASSUME NEW p \in Procs, NEW l, Rest(p, l), p # Loop \/ l # "gc"
      PROVE  FALSE
  BY <1>2, <1>3 DEF Rest, Goto
<1>4. ~ Crash /\ ~ UNCHANGED procVars
  BY <1>1 DEF Crash, procVars
<1>5. ~ LoopStep
  <2>1. ~ ReadClosure /\ ~ Cancel /\ ~ CheckMember
    BY <1>1, <1>2 DEF ReadClosure, Cancel, CheckMember, Goto
  <2>2. ~ InsertRow(Loop)
    BY <1>1, <1>2 DEF InsertRow, Goto
  <2>3. ~ Publish /\ ~ EndGarbage /\ ~ CheckActive
    BY <1>1, <1>2, <1>3 DEF Publish, EndGarbage, CheckActive, Rest, Goto
  <2>4. QED
    BY <2>1, <2>2, <2>3 DEF LoopStep
<1>6. ASSUME NEW p \in Requests
      PROVE  ~ HandlerStep(p) /\ \A b \in Bases : ~ Rebuild(p, b)
  <2>1. p \in Procs /\ p # Loop
    BY SchedulingAssumption DEF Procs
  <2>2. /\ ~ \E l, v, L, t : Goto(p, l, v, L, t)
        /\ ~ \E l : Rest(p, l)
    BY <1>2, <1>3, <2>1 DEF Goto, Rest
  <2>3. ~ BeginLease(p) /\ ~ Pick(p) /\ ~ Claim(p) /\ ~ InsertRow(p)
    BY <2>1, <2>2 DEF BeginLease, Pick, Claim, InsertRow
  <2>4. \A b \in Bases : ~ Rebuild(p, b)
    BY <2>2 DEF Rebuild
  <2>5. QED
    BY <2>3, <2>4 DEF HandlerStep
<1>7. QED
  BY <1>4, <1>5, <1>6, WhoChangesHands

\* What it spares is decided then, and stands to its end.
LEMMA WhoChangesKeep ==
  ASSUME [Next]_vars
  PROVE  \/ UNCHANGED keep /\ (moved => moved')
         \/ BeginGarbage \/ EndGarbage \/ Crash
<1>1. CASE LoopStep
  BY <1>1 DEF LoopStep, ReadClosure, Cancel, CheckMember, InsertRow, CheckActive, Publish
<1>2. CASE \E i \in Ids : RemoveFiles(i)
  BY <1>2 DEF RemoveFiles
<1>3. CASE \E p \in Requests : HandlerStep(p) \/ \E b \in Bases : Rebuild(p, b)
  BY <1>3 DEF HandlerStep, BeginLease, Pick, Claim, InsertRow, Rebuild
<1>4. CASE \E b \in Bases : \/ Ingest(b) \/ Approve(b) \/ Reject(b)
                            \/ Subscribe(b) \/ Unsubscribe(b) \/ SelectProvider(b)
  BY <1>4 DEF Ingest, Approve, Reject, Subscribe, Unsubscribe, SelectProvider, Disturb
<1>5. CASE \E i \in Ids : Fetch(i) \/ Succeed(i) \/ Report(i) \/ FailBuild(i)
  BY <1>5 DEF Fetch, Succeed, Report, FailBuild, Disturb
<1>6. CASE UNCHANGED vars
  BY <1>6 DEF vars
<1>7. QED
  BY <1>1, <1>2, <1>3, <1>4, <1>5, <1>6 DEF Next

\* Every step keeps what the pass spares right.
LEMMA SparingStep == Sound /\ Sparing /\ [Next]_vars => Sparing'
<1>1. SUFFICES ASSUME Sound, Sparing, [Next]_vars, pc'[Loop] = "gc", ~ moved'
               PROVE  keep' = Spared'
  BY DEF Sparing
<1>2. CASE pc[Loop] = "gc"
  <2>1. ~ EndGarbage /\ ~ Crash /\ ~ BeginGarbage
    <3>1. pc \in [Procs -> LoopSteps \cup HandlerSteps] /\ Loop \in Procs
      BY <1>1 DEF Sound, Hands, Procs
    <3>2. QED
      BY <1>1, <1>2, <3>1 DEF EndGarbage, Crash, BeginGarbage, Rest, Goto
  <2>2. keep' = keep /\ ~ moved
    BY <1>1, <2>1, WhoChangesKeep
  <2>3. keep = Spared
    BY <1>1, <1>2, <2>2 DEF Sparing
  <2>4. UNCHANGED packageVars /\ UNCHANGED plans
    BY <1>1, <1>2, Undisturbed
  <2>5. \A b \in Closure.members : Usable(b)' = Usable(b)
    BY <1>1, <1>2, SpareStep
  <2>6. Spared' = Spared
    BY <2>4, <2>5, SameSpared
  <2>7. QED
    BY <2>2, <2>3, <2>6
<1>3. CASE pc[Loop] # "gc"
  <2>1. BeginGarbage
    BY <1>1, <1>3, WhoBeginsGarbage
  <2>2. keep' = Spared /\ UNCHANGED <<packageVars, rows, finished, plans>>
    BY <2>1 DEF BeginGarbage
  <2>3. \A b : Usable(b)' = Usable(b)
    BY <2>2 DEF Usable, Ids, packageVars
  <2>4. Spared' = Spared
    BY <2>2, <2>3, SameSpared
  <2>5. QED
    BY <2>2, <2>4
<1>4. QED
  BY <1>2, <1>3

\* collect_garbage (publish.rs) removes nothing that a member uses or a spared
\* publication takes, unless packages or builds change during its pass.
THEOREM GarbageSpared == Spec => GarbageOnly
<1>. DEFINE P == pc[Loop] = "gc" /\ ~ moved' =>
                    /\ \A b \in Closure.members : Usable(b)' = Usable(b)
                    /\ \A k \in 1 .. Len(plans) :
                         \A i \in plans[k] \ {None} : rows[i].files => rows'[i].files
<1>1. Init => Sparing
  BY DEF Init, Sparing, Procs
<1>2. Sound /\ Sparing /\ [Next]_vars => [P]_vars
  BY SpareStep
<1>3. [][P]_vars => GarbageOnly
  BY DEF GarbageOnly
<1>. HIDE DEF P
<1>4. QED
  BY <1>1, <1>2, <1>3, AlwaysSound, SparingStep, PTL DEF Spec
=============================================================================
