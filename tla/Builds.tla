------------------------------- MODULE Builds -------------------------------
(***************************************************************************)
(* The life of build rows in aursmithd: leases, attempts, reports, uploads *)
(* and lease expiry (crates/aursmithd/src/builds.rs).  Every HTTP request  *)
(* and the reconcile loop run concurrently against one SQLite database:    *)
(* each SELECT and each UPDATE is a step of its own, and between them      *)
(* other handlers run.  Which rows exist and whether their dependencies    *)
(* are built belong to the scheduler and are not part of this module: its  *)
(* rows have been inserted and their dependencies are ready.               *)
(***************************************************************************)
EXTENDS Integers, FiniteSets

CONSTANTS
  BuildIds,    \* rows of the table builds
  NoBuild,     \* not a row
  Requests,    \* HTTP request handlers that may be in flight at once
  Loop,        \* the reconcile loop, publish.rs run_loop
  MaxRetries,  \* MAXIMUM_TRANSIENT_RETRIES
  MaxFaults    \* bound: dropped requests, daemon crashes and removals that fail

Procs == Requests \cup {Loop}

ASSUME BuildsAssumption ==
  /\ NoBuild \notin BuildIds
  /\ IsFiniteSet(Requests)
  /\ Loop \notin Requests
  /\ MaxRetries \in Nat
  /\ MaxFaults \in Nat

VARIABLES
  state,      \* builds.state
  attempt,    \* builds.attempt
  lapsed,     \* lease_expires_at < now
  artifacts,  \* artifacts_json: the attempt that produced the listed files, or 0
  disk,       \* artifacts/<build_id>/: NoDir, 0 (no finished file), or whose bytes
  told,       \* attempt numbers handed to builders in a LeaseResponse
  pc,         \* where each handler stands
  seen,       \* the attempt each handler read for each row it will write, or 0
  cur,        \* the row a handler is in the middle of, or NoBuild
  class,      \* error class of the failure a handler is recording
  then,       \* what a sweep continues with: a lease goes on to the queue
  faults,     \* dropped requests, crashes and failed removals so far
  leftover,   \* rows whose directory a fail_build ever left behind
  collected   \* rows whose files collect_garbage took since they were completed

rowVars  == <<state, attempt, lapsed, artifacts>>
procVars == <<pc, seen, cur, class, then>>
vars == <<state, attempt, lapsed, artifacts, disk, told, pc, seen, cur, class,
          then, faults, leftover, collected>>

NoDir == -1
Nothing == [b \in BuildIds |-> 0]
InProgress == {"running", "uploading"}

Init ==
  /\ state = [b \in BuildIds |-> "queued"]
  /\ attempt = [b \in BuildIds |-> 1]
  /\ lapsed = [b \in BuildIds |-> FALSE]
  /\ artifacts = Nothing
  /\ disk = [b \in BuildIds |-> NoDir]
  /\ told = [b \in BuildIds |-> {}]
  /\ pc = [p \in Procs |-> "idle"]
  /\ seen = [p \in Procs |-> Nothing]
  /\ cur = [p \in Procs |-> NoBuild]
  /\ class = [p \in Procs |-> "transient"]
  /\ then = [p \in Procs |-> "idle"]
  /\ faults = 0
  /\ leftover = {}
  /\ collected = {}

\* active_build: the row is leased and the lease has not run out.
Active(b) == state[b] \in InProgress /\ ~lapsed[b]

\* Handler p leaves its current step for step l, having read attempts r.
Goto(p, l, r, b) ==
  /\ pc' = [pc EXCEPT ![p] = l]
  /\ seen' = [seen EXCEPT ![p] = r]
  /\ cur' = [cur EXCEPT ![p] = b]

\* Mutant: the sweep forgets leases that run out during the upload.
ExpiredRunningOnly ==
  [b \in BuildIds |-> IF state[b] = "running" /\ lapsed[b] THEN attempt[b] ELSE 0]

\* The rows expire_leases selects, and those lease selects.
Expired == [b \in BuildIds |->
              IF state[b] \in InProgress /\ lapsed[b] THEN attempt[b] ELSE 0]
Queued == [b \in BuildIds |-> IF state[b] = "queued" THEN attempt[b] ELSE 0]

-----------------------------------------------------------------------------
(* Expiry: a sweep reads the expired rows once, then fails them one by one. *)

\* expire_leases' SELECT, in the reconcile loop (next = "idle") or at the
\* start of a lease request (next = "select").
StartSweep(p, next) ==
  /\ pc[p] = "idle"
  /\ IF p = Loop THEN next = "idle" /\ Expired # Nothing ELSE next = "select"
  /\ Goto(p, IF Expired = Nothing THEN next ELSE "fail", Expired, NoBuild)
  /\ class' = [class EXCEPT ![p] = "transient"]
  /\ then' = [then EXCEPT ![p] = next]
  /\ UNCHANGED <<rowVars, disk, told, faults, leftover, collected>>

\* Mutant: a retry counts the attempts down.
FailUpdateCountsDown(p, b) ==
  /\ state' = [state EXCEPT ![b] = "queued"]
  /\ attempt' = [attempt EXCEPT ![b] = @ - 1]
  /\ artifacts' = [artifacts EXCEPT ![b] = 0]
  /\ lapsed' = [lapsed EXCEPT ![b] = FALSE]

\* Mutant: the retry limit is not checked.
FailUpdateUnlimited(p, b) ==
  /\ attempt[b] < MaxRetries + 5
  /\ state' = [state EXCEPT ![b] = "queued"]
  /\ attempt' = [attempt EXCEPT ![b] = @ + 1]
  /\ artifacts' = [artifacts EXCEPT ![b] = 0]
  /\ lapsed' = [lapsed EXCEPT ![b] = FALSE]

\* Mutant: a retry keeps the attempt number.
FailUpdateSameAttempt(p, b) ==
  /\ state' = [state EXCEPT ![b] = "queued"]
  /\ artifacts' = [artifacts EXCEPT ![b] = 0]
  /\ lapsed' = [lapsed EXCEPT ![b] = FALSE]
  /\ UNCHANGED attempt

\* fail_build's UPDATE, which names the row by its id alone: whatever state
\* and attempt the row has by now are overwritten.
FailUpdate(p, b) ==
  /\ IF class[p] = "transient" /\ seen[p][b] <= MaxRetries
       THEN /\ state' = [state EXCEPT ![b] = "queued"]
            /\ attempt' = [attempt EXCEPT ![b] = @ + 1]
            /\ artifacts' = [artifacts EXCEPT ![b] = 0]
       ELSE /\ state' = [state EXCEPT ![b] = "failed"]
            /\ UNCHANGED <<attempt, artifacts>>
  /\ lapsed' = [lapsed EXCEPT ![b] = FALSE]

\* fail_build up to the UPDATE.
FailRow(p, b) ==
  /\ pc[p] = "fail"
  /\ seen[p][b] # 0
  /\ FailUpdate(p, b)
  /\ Goto(p, "cleanup", [seen[p] EXCEPT ![b] = 0], b)
  /\ UNCHANGED <<class, then, disk, told, faults, leftover, collected>>

\* Mutant: the files of the failed attempt stay.
KeepDir(p) ==
  /\ pc[p] = "cleanup"
  /\ Goto(p, IF seen[p] = Nothing THEN then[p] ELSE "fail", seen[p], NoBuild)
  /\ UNCHANGED <<rowVars, class, then, told, disk, faults, leftover, collected>>

\* fail_build's remove_dir_all, then the next row of the sweep.
RemoveDir(p) ==
  /\ pc[p] = "cleanup"
  /\ disk' = [disk EXCEPT ![cur[p]] = NoDir]
  /\ Goto(p, IF seen[p] = Nothing THEN then[p] ELSE "fail", seen[p], NoBuild)
  /\ UNCHANGED <<rowVars, class, then, told, faults, leftover, collected>>

\* fail_build's remove_dir_all fails, and the handler goes on without a word.
RemoveFails(p) ==
  /\ pc[p] = "cleanup"
  /\ disk[cur[p]] # NoDir
  /\ faults < MaxFaults
  /\ faults' = faults + 1
  /\ leftover' = leftover \cup {cur[p]}
  /\ Goto(p, IF seen[p] = Nothing THEN then[p] ELSE "fail", seen[p], NoBuild)
  /\ UNCHANGED <<rowVars, class, then, disk, told, collected>>

-----------------------------------------------------------------------------
(* A builder asks for work. *)

\* lease: SELECT the queued rows with their attempts.
SelectQueued(p) ==
  /\ pc[p] = "select"
  /\ Goto(p, IF Queued = Nothing THEN "idle" ELSE "claim", Queued, NoBuild)
  /\ UNCHANGED <<rowVars, class, then, disk, told, faults, leftover, collected>>

\* lease: the claiming UPDATE succeeds; the builder is told the attempt that
\* was read before, not the one the row has now.
Claim(p, b) ==
  /\ pc[p] = "claim"
  /\ seen[p][b] # 0
  /\ state[b] = "queued"
  /\ state' = [state EXCEPT ![b] = "running"]
  /\ lapsed' = [lapsed EXCEPT ![b] = FALSE]
  /\ told' = [told EXCEPT ![b] = @ \cup {seen[p][b]}]
  /\ Goto(p, "idle", Nothing, NoBuild)
  /\ UNCHANGED <<attempt, artifacts, class, then, disk, faults, leftover, collected>>

\* lease: rows_affected is 0, the row was claimed or cancelled meanwhile.
ClaimMissed(p, b) ==
  /\ pc[p] = "claim"
  /\ seen[p][b] # 0
  /\ state[b] # "queued"
  /\ LET rest == [seen[p] EXCEPT ![b] = 0]
     IN  Goto(p, IF rest = Nothing THEN "idle" ELSE "claim", rest, NoBuild)
  /\ UNCHANGED <<rowVars, class, then, disk, told, faults, leftover, collected>>

-----------------------------------------------------------------------------
(* A builder reports, uploads and completes. *)

\* Timing assumptions.  A request takes milliseconds; a build takes at least
\* a container start and a makepkg run, and an upload a chain of requests.
\* So no handler that read an earlier attempt of b is still in flight when
\* attempt a reports success, and none that began before the upload of b is
\* when the upload is over.
NoOlderRequest(b, a) ==
  \A p \in Procs : seen[p][b] \in {0, a} /\ cur[p] # b
NoOtherRequest(b) ==
  \A p \in Procs : seen[p][b] = 0 /\ cur[p] # b

\* report: active_build and the attempt check pass; verdict is what the
\* body leads to: a failure of some class, or an artifact list that is valid.
BeginReport(p, b, a, verdict) ==
  /\ p # Loop
  /\ pc[p] = "idle"
  /\ a \in told[b]
  /\ Active(b)
  /\ state[b] = "running"
  /\ attempt[b] = a
  /\ IF verdict = "accept"
       THEN /\ NoOlderRequest(b, a)
            /\ Goto(p, "accept", [Nothing EXCEPT ![b] = a], NoBuild)
            /\ UNCHANGED class
       ELSE /\ Goto(p, "fail", [Nothing EXCEPT ![b] = a], NoBuild)
            /\ class' = [class EXCEPT ![p] = verdict]
  /\ then' = [then EXCEPT ![p] = "idle"]
  /\ UNCHANGED <<rowVars, disk, told, faults, leftover, collected>>

\* report: the UPDATE to uploading, guarded by state = 'running' only.
AcceptReport(p, b) ==
  /\ pc[p] = "accept"
  /\ seen[p][b] # 0
  /\ IF state[b] = "running"
       THEN /\ state' = [state EXCEPT ![b] = "uploading"]
            /\ artifacts' = [artifacts EXCEPT ![b] = seen[p][b]]
       ELSE UNCHANGED <<state, artifacts>>
  /\ Goto(p, "mkdir", Nothing, b)
  /\ UNCHANGED <<attempt, lapsed, class, then, disk, told, faults, leftover, collected>>

\* report: create_dir_all.
MakeDir(p) ==
  /\ pc[p] = "mkdir"
  /\ disk' = [disk EXCEPT ![cur[p]] = IF @ = NoDir THEN 0 ELSE @]
  /\ Goto(p, "idle", Nothing, NoBuild)
  /\ UNCHANGED <<rowVars, class, then, told, faults, leftover, collected>>

\* The series of upload_put requests that finishes the files of a row.  The
\* digest is checked before the final rename; a file that already has its
\* final name is taken as received and not sent again.
Upload(b) ==
  /\ Active(b)
  /\ state[b] = "uploading"
  /\ disk[b] = 0
  /\ NoOtherRequest(b)
  /\ disk' = [disk EXCEPT ![b] = artifacts[b]]
  /\ UNCHANGED <<rowVars, procVars, told, faults, leftover, collected>>

\* complete: active_build and the check that every file exists.
BeginComplete(p, b) ==
  /\ p # Loop
  /\ pc[p] = "idle"
  /\ Active(b)
  /\ state[b] = "uploading"
  /\ disk[b] > 0
  /\ Goto(p, "complete", [Nothing EXCEPT ![b] = attempt[b]], NoBuild)
  /\ then' = [then EXCEPT ![p] = "idle"]
  /\ UNCHANGED <<rowVars, class, disk, told, faults, leftover, collected>>

\* complete: the UPDATE to succeeded, guarded by state = 'uploading'.
Complete(p, b) ==
  /\ pc[p] = "complete"
  /\ seen[p][b] # 0
  /\ IF state[b] = "uploading"
       THEN /\ state' = [state EXCEPT ![b] = "succeeded"]
            /\ lapsed' = [lapsed EXCEPT ![b] = FALSE]
            /\ collected' = collected \ {b}
       ELSE UNCHANGED <<state, lapsed, collected>>
  /\ Goto(p, "idle", Nothing, NoBuild)
  /\ UNCHANGED <<attempt, artifacts, class, then, disk, told, faults, leftover>>

-----------------------------------------------------------------------------
(* The reconcile loop's hourly clean-up.  What it keeps depends on the     *)
(* closure and on the publications, read long before (module Scheduling):  *)
(* here it may pass any row over.                                          *)

\* collect_garbage looks at the state of the row a directory belongs to.
BeginCollect(b) ==
  /\ pc[Loop] = "idle"
  /\ disk[b] # NoDir
  /\ state[b] \notin InProgress
  /\ Goto(Loop, "collect", Nothing, b)
  /\ UNCHANGED <<rowVars, class, then, disk, told, faults, leftover, collected>>

\* collect_garbage removes the directory, or fails to and goes on.
Collect ==
  /\ pc[Loop] = "collect"
  /\ \/ /\ disk' = [disk EXCEPT ![cur[Loop]] = NoDir]
        /\ collected' = collected \cup {cur[Loop]}
        /\ UNCHANGED faults
     \/ /\ faults < MaxFaults
        /\ faults' = faults + 1
        /\ UNCHANGED <<disk, collected>>
  /\ Goto(Loop, "idle", Nothing, NoBuild)
  /\ UNCHANGED <<rowVars, class, then, told, leftover>>

-----------------------------------------------------------------------------
(* The surroundings. *)

\* schedule cancels a queued row whose revision is no longer wanted.
Cancel(b) ==
  /\ state[b] = "queued"
  /\ state' = [state EXCEPT ![b] = "failed"]
  /\ UNCHANGED <<attempt, lapsed, artifacts, disk, told, procVars, faults, leftover, collected>>

\* Time passes the lease of a row.
Lapse(b) ==
  /\ Active(b)
  /\ lapsed' = [lapsed EXCEPT ![b] = TRUE]
  /\ UNCHANGED <<state, attempt, artifacts, disk, told, procVars, faults, leftover, collected>>

\* The handlers in S stop where they are: a client went away (S is one
\* request) or the daemon died (S is everything).  Rows and files stay.
Abort(S) ==
  /\ faults < MaxFaults
  /\ \E p \in S : pc[p] # "idle"
  /\ faults' = faults + 1
  /\ leftover' = leftover \cup {cur[p] : p \in {q \in S : pc[q] = "cleanup"}}
  /\ pc' = [p \in Procs |-> IF p \in S THEN "idle" ELSE pc[p]]
  /\ seen' = [p \in Procs |-> IF p \in S THEN Nothing ELSE seen[p]]
  /\ cur' = [p \in Procs |-> IF p \in S THEN NoBuild ELSE cur[p]]
  /\ UNCHANGED <<rowVars, disk, told, class, then, collected>>

DropRequest(p) == Abort({p})
Crash == Abort(Procs)

Sweep(p) == \E next \in {"idle", "select"} : StartSweep(p, next)
Report(p, b) ==
  \E a \in told[b], v \in {"accept", "transient", "deterministic"} :
    BeginReport(p, b, a, v)

\* The steps of handler p that the code takes by itself once it has begun.
Continue(p) ==
  \/ RemoveDir(p)
  \/ RemoveFails(p)
  \/ p = Loop /\ Collect
  \/ SelectQueued(p)
  \/ MakeDir(p)
  \/ \E b \in BuildIds :
       \/ FailRow(p, b)
       \/ Claim(p, b)
       \/ ClaimMissed(p, b)
       \/ AcceptReport(p, b)
       \/ Complete(p, b)

Next ==
  \/ \E p \in Procs : Sweep(p) \/ Continue(p)
  \/ \E p \in Requests, b \in BuildIds : Report(p, b) \/ BeginComplete(p, b)
  \/ \E p \in Requests : DropRequest(p)
  \/ \E b \in BuildIds : Upload(b) \/ Cancel(b) \/ Lapse(b) \/ BeginCollect(b)
  \/ Crash

Spec == Init /\ [][Next]_vars

\* The executor runs every handler that has begun, the reconcile loop ticks
\* every 15 s, builders keep polling, and clocks advance.  Nothing is assumed
\* of a builder that holds a lease: it may never report.
Fairness ==
  /\ \A p \in Procs : WF_vars(Continue(p))
  /\ \A p \in Procs : WF_vars(Sweep(p))
  /\ \A b \in BuildIds : WF_vars(Lapse(b))

FairSpec == Spec /\ Fairness

-----------------------------------------------------------------------------
(* Properties. *)

\* The handlers that will still write a retry of row b.
Retrying(b) ==
  {p \in Procs : /\ pc[p] \in {"fail", "cleanup"}
                 /\ class[p] = "transient"
                 /\ seen[p][b] \in 1 .. MaxRetries}

\* Types of the columns and of the handlers' local state.
TypeOK ==
  /\ state \in [BuildIds -> {"queued", "running", "uploading", "succeeded", "failed"}]
  /\ attempt \in [BuildIds -> Nat \ {0}]
  /\ lapsed \in [BuildIds -> BOOLEAN]
  /\ artifacts \in [BuildIds -> Nat]
  /\ disk \in [BuildIds -> Nat \cup {NoDir}]
  /\ told \in [BuildIds -> SUBSET (Nat \ {0})]
  /\ pc \in [Procs -> {"idle", "fail", "cleanup", "select", "claim", "accept",
                      "mkdir", "complete", "collect"}]
  /\ seen \in [Procs -> [BuildIds -> Nat]]
  /\ cur \in [Procs -> BuildIds \cup {NoBuild}]
  /\ class \in [Procs -> {"transient", "deterministic"}]
  /\ then \in [Procs -> {"idle", "select"}]
  /\ faults \in 0 .. MaxFaults
  /\ leftover \subseteq BuildIds \cup {NoBuild}
  /\ collected \subseteq BuildIds \cup {NoBuild}

\* However sweeps, reports and crashes interleave, the attempts of a row stay
\* within MAXIMUM_TRANSIENT_RETRIES plus the number of handlers in flight:
\* fail_build adds one for each stale read of a retryable attempt and no more.
AttemptBound ==
  \A b \in BuildIds : attempt[b] <= MaxRetries + Cardinality(Procs)

\* The inductive form of AttemptBound: every handler that will still write a
\* retry has its attempt set aside.
RetryBudget ==
  \A b \in BuildIds :
    attempt[b] + Cardinality(Retrying(b)) <= MaxRetries + Cardinality(Procs)

\* A queued row has an attempt number no builder was ever told, so that the
\* attempt check of report refuses every builder of an earlier lease.
FreshAttempt ==
  \A b \in BuildIds :
    state[b] = "queued" => \A a \in told[b] : a < attempt[b]

\* The inductive form of FreshAttempt: no handler read, and no builder was
\* told, an attempt the row has not reached.
NotAhead ==
  \A b \in BuildIds :
    /\ \A a \in told[b] : a <= attempt[b]
    /\ \A p \in Procs : seen[p][b] <= attempt[b]

\* A succeeded row has on disk exactly the files it lists, or none once
\* collect_garbage took them after its completion; unless a fail_build of the
\* row ever left its directory behind, aborted before remove_dir_all or by an
\* error of remove_dir_all itself.
SucceededFilesMatch ==
  \A b \in BuildIds \ leftover :
    state[b] = "succeeded" =>
      disk[b] = artifacts[b] \/ (b \in collected /\ disk[b] <= 0)

\* Whatever builders do with their leases, every row comes to rest.
EventuallySettles ==
  \A b \in BuildIds : <>[](state[b] \in {"succeeded", "failed"})

\* The SHA-256 check of every upload: what files a succeeded row has are the
\* ones its report listed.
VerifiedUpload ==
  \A b \in BuildIds :
    state[b] = "succeeded" /\ disk[b] > 0 => disk[b] = artifacts[b]
=============================================================================
