# A TLA+ verification project for AURsmith

AURsmith keeps a signed pacman repository of AUR packages.  `aursmithd` follows
AUR, reviews every new commit, schedules builds and derives the repository that
should exist; home builders lease builds over HTTPS; an offline `signer` turns
plans into signed releases.  There is no message bus and almost no locking: one
SQLite database, directories, and loops that repeat until things agree.  The
specifications here say what those loops and handlers do step by step, what
must hold however the steps interleave, and where it does not.

Paths below are relative to `src/`; `d/` stands for `crates/aursmithd/src/`,
`b/` for `crates/aursmith-builder/src/`, `c/` for `crates/aursmith-core/src/`.

## Inventory

| Part | State it keeps | Operations | Talks to |
|---|---|---|---|
| Synchronisation, `d/packages.rs` | `packages` (cached `last_modified`, check times), `subscriptions`, `provider_choices`, `revisions` | `run_sync_loop` every 60 s, handlers `subscribe`, `refresh`, `unsubscribe`, `select_provider`; `sync_package`, `ingest`, `insert_revision` | AUR client, review loop (through rows), reconcile loop (wake-up) |
| Review, `d/review.rs`, `c/review.rs` | `revisions.state`, `reviews` | `run_loop` every 10 s: two cheap agents, perhaps a third; handlers `decide_manually`, `retry` | model APIs, scheduler (approved rows) |
| Scheduling and closure, `d/builds.rs`, `d/packages.rs`, `c/graph.rs` | `builds` rows | `compute_closure`, `schedule`, `usable_build`, `dependency_builds`, `rebuild` | build rows, publication |
| Build rows and builder protocol, `d/builds.rs`, `c/protocol.rs` | `builds`, `data_dir/artifacts/<build>/` | `lease`, `report`, `upload_get`, `upload_put`, `complete`, `expire_leases` | builders (HTTPS), reconcile loop |
| Builder, `b/runner.rs`, `b/client.rs` | job directories, `report.json`, marker `reported` | lease loop, `build`, `deliver`, `recover` | server, Docker |
| Build container, `b/guest.rs` | its output directory | dependencies, `makepkg`, result file | builder (files) |
| Publication, `d/publish.rs` | `publications`, `exchange/inbox`, `exchange/outbox` | reconcile loop every 15 s or on wake-up; `collect_signer_results`, `write_plan`, hourly `collect_garbage` | signer (files) |
| Signer, `d/signer.rs` | `releases/`, package files, links `current`, `previous`, `*.db` | `process_inbox` every 5 s, `publish`, `activate`, `prune`; `--rollback` in a process of its own | daemon (files), clients (files) |
| Access, `d/auth.rs`, `d/admin.rs` | `admin`, `sessions` | login, logout, guards, password reset, revocation | web console |
| State transfer, `d/state.rs` | none of its own | `export`, `import`, `verify`, `legacy_export` | database |
| Pure parts, `c/names.rs`, `c/scan.rs`, `c/srcinfo.rs`, `c/credentials.rs` | none | parsing, validation, scanning | all |
| AUR client `d/aur.rs`, wiring, web console, deployment | caches only | I/O | all |

What is hard about it:

* **Handlers interleave at every `await`.**  A handler reads a row, awaits, and
  writes it by its id.  Two sweeps of expired leases, a sweep and a report, a
  claim and a retry, two syncs of one package all do.
* **Handlers are cut off.**  When a client hangs up, the handler's future is
  dropped between two statements; a restart drops all of them.  Whatever
  follows an UPDATE (removing a directory, inserting a row) may never happen.
* **Two processes share files.**  Daemon and signer communicate through two
  directories; every rename, removal and database write is a step of its own,
  both may crash, and the daemon stops waiting after an hour.
* **Reviews take minutes** while commits arrive, rows are superseded and
  administrators decide.

What makes each part correct: a build row never loses an expired lease, never
serves one attempt's files as another's, and retries a bounded number of times;
a published row is what clients are served, and the served release becomes the
desired one; verdicts are given on the newest revision, are justified by a
recorded review, start from a human approval and are never revised; every
upstream change gets its revision.

## Modules

| Module | Models | Builds on |
|---|---|---|
| `Builds` | rows of `builds`, their directories, all handlers in flight | |
| `Scheduling` | dependencies, closure, the rows scheduling inserts and cancels, the builds a publication takes, clean-up | |
| `Runner` | one builder, its job directory and deliveries, against the server's handlers | |
| `Repository` | abstract: what the signer promises of releases | |
| `Publication` | reconcile loop and signer over `inbox/` and `outbox/` | implements `Repository` |
| `Signer` | the files, signatures and links of releases; rollback as a second process | implements `Repository` |
| `Revisions` | one pkgbase from AUR to a verdict | |
| `BuildsProofs`, `PublicationProofs`, `RepositoryProofs`, `RevisionsProofs`, `RunnerProofs`, `SchedulingProofs`, `SignerProofs` | theorems | the module of that name |
| `ClosureProofs` | lemmas: what `compute_closure` and `DependencyGraph::closure` find | `Scheduling` |
| `MCBuilds`, `MCScheduling`, `MCRunner`, `MCPublication`, `MCSigner`, `MCRevisions` | instances for TLC | the module of that name |

The modules cut the path from AUR to a client where a few facts are all that
crosses.  `Revisions` ends with an approved row: `Approve` of `Scheduling`.
`Scheduling` inserts rows and leases them out; what happens to a leased row is
`Builds` (many requests against the rows) and `Runner` (one builder against one
row, chunk by chunk).  `Scheduling` chooses a set of builds: `desired` of
`Publication` and `Signer`, which take it to the links clients read.

### Builds

One handler is one process: `pc` is its next statement, `seen` the attempt it
read for each row it is going to write, `cur` the row whose clean-up is next.
`StartSweep` is the SELECT of `expire_leases` in the reconcile loop or at the
start of `lease`; `FailRow` the UPDATE of `fail_build`, `RemoveDir` and
`RemoveFails` the removal after it, whose error the code ignores; `SelectQueued`,
`Claim`, `ClaimMissed` the rest of `lease`; `BeginReport`, `AcceptReport`,
`MakeDir` are `report`; `Upload` stands for the upload requests of a row;
`BeginComplete`, `Complete` are `complete`; `BeginCollect` and `Collect` are
`collect_garbage` for one directory, whose row it looks at first and whose files
it takes later; `Cancel` is what `schedule` does to queued rows no longer wanted.
`Abort` drops one handler or all.  `disk` says which attempt's bytes have their
final names, `artifacts` which attempt reported the list in the row.  Two history
variables: `leftover`, the rows whose directory a `fail_build` ever left behind,
and `collected`, those whose files `collect_garbage` took since their success.

Two timing assumptions are named operators: `NoOlderRequest` (a request that
read an attempt before it was retried is over by the time the next attempt,
which takes a container start and a build, reports success) and
`NoOtherRequest` (the same for the time an upload takes).  Which builds exist
and whether their dependencies are ready is not in this module; which of them
`collect_garbage` spares is not either, so here it may take any that is not in
progress.

### Publication

`desired` is what `desired_state` returns; it changes when builds or
subscriptions do.  The loop goes `Collect` (UPDATE of the row), `RemoveOutbox`,
`RemoveInbox`, `Decide`, `ClearPlan` (what lies in `inbox/` under that name is
removed), `WritePlan` (up to the rename), `InsertRow`.  `Due` is the condition of
`reconcile`; an empty set of packages is not the first thing published.  A round
that `has_active_build` cuts short is a round that is not taken: builds settle
(`EventuallySettles` of `Builds`).  The signer goes `ListInbox`, `NextPlan`,
then `Recommit` for a release that exists or `Stage`, `Commit`, `Activate` for
a new one, then `Answer`.  `Prune`, part of `Activate`, may fail anywhere, after
which the plan is published all the same; `PublishFails` is any other error.
`DaemonCrash` is also a step of the loop that fails and ends the round.  Plans are
numbered by the order of their digests, which is the order of processing.
Release contents, links within a release and signatures are one item; rollback is
one step.

Two history variables: `rolled`, and `strayed`, which records that a plan lay in
`inbox/`, was worked on, or had an answer in `outbox/` while the daemon neither
waited for it nor was removing it.  Safety and convergence are stated for
behaviours that never strayed, under every crash, late answer and failure;
`publication_stray` shows that straying needs no fault at all.

### Revisions

Each syncer is the sync loop or the handler of `subscribe` or `refresh`, and
takes a step between any two awaits: `ReadCache` or `Refresh` (SELECT of the
cached `last_modified`), `LookUp` (AUR info), `UpdateCache`, `SelectLatest` (SELECT
of the newest row and the comparison), `CompareVcs` (the answer of the VCS
source), `Fetch` (the snapshot), `Insert` (the transaction of `insert_revision`,
where superseding, baseline, reuse and the scan's verdict are decided).
`Subscribe` asks AUR and updates the cache before it goes on like the others;
`SyncFails` ends any of them anywhere.  `rows` is the table in the
order of `created_at`; `favour` holds the approving entries of `reviews`.  The
review loop goes `TakeRow`, `RunLows`, `RunHigh`, `Conclude`, or `PassToHuman`
when no agents are configured; `ReviewFails` is an error of `review_next` at any
of them.  `DecideManually` and `Retry` are the administrator's.  `skipped` records
that a change reached `last_modified` but its sync was lost, or that `subscribe`
cached it ahead of `sync_package`.
The package stays in the closure; dependencies are not in this module.

### Scheduling

`Candidates`, `Foreign` and `Needed` are `resolve_dependencies` with the choices
of `select_provider`; `Closure` is `compute_closure`, breadth first with the
cut-off at `MaxClosure` (`Advance` is one round of its loop, `search` the loop);
`Usable` is `usable_build`, `Chosen` is `desired_state`.
The reconcile loop goes `ReadClosure`, `Cancel`, then for each member `CheckMember`
(SELECT and COUNT) and perhaps `InsertRow`, then `CheckActive`
(`has_active_build`), `Publish`, and now and then `BeginGarbage`, one
`RemoveFiles` for each directory, `EndGarbage`.  Handlers are `BeginLease`,
`Pick`, `Claim` (one lease) and `Rebuild`, `InsertRow`, any number of times.  A
process works with the closure it read (`view`) and the rows it listed (`left`),
however old they are.  Subscriptions, provider choices, new revisions (`Ingest`,
also the first of a pkgbase), their approval and rejection are events.  `Fetch`
and `Succeed` are what becomes of a leased row; `Report` (a failure or a lapsed
lease) reads it, and `FailBuild` updates it later by its id alone, whatever it has
become: a row that succeeded in between goes back to the queue, its files go, and
publications list files that are no row's any more.  Such rows are `revived`, a
history variable.

Simplified: the closure is read in one step; `has_active_build` and
`desired_state` look at all members at once; a pkgbase queues its dependencies
once each and in the order of pkgbases, not in the order of its list (which of
them are cut off at the limit depends on it, and nothing else).  `usable_build`
looks at every build rather than the newest five, and `resolve_dependencies` at
every dependency rather than the first 256: the instances stay below either limit,
and what happens beyond them is not covered.  Names resolve the same way
throughout (the code resolves them once for each revision); `KeptPlans` stands for
the three publications clean-up spares; whether an earlier publication is still
pending, which is the subject of `Publication`, is left open, and then nothing is
published; `topological_order`, which only tests call, is left out.

### Runner

`row`, `part` and `file` are the server's side: the row, `<file>.part` and the
finished file, as sequences of chunks tagged with the attempt that built them.
`job` is the builder's directory, named by the build id alone; `task` its slots.
`Lease`, `BuildOk` or `BuildFails`, then `deliver`: `Report`, `Mark`,
`upload_file` (`Status`, `Send`), `Complete`, `Remove`.  `upload_put` has the
steps between its awaits: `Check`, `AppendChunk`, `Digest`, `Rename`.  For each
request there is an action that loses it or its answer (`LoseReport` and so on);
`LoseChunk` also drops the handler where it stands.  `Fails` is the back-off and,
after `MaxTries`, giving up; `Crash`, `RecoverNothing` and `Recover` are the
restart.  Of the codes a build can fail with, `KeyErrors`, `MakeErrors`,
`DockerErrors` and `BuildErrors` name for each stage one that retries a build and
one that does not, where there are both; `Class` is that distinction.  `IsGone` and
`GoesOn` say what a status code does.

### Repository, Publication and Signer

`Repository` says what the daemon and clients rely on: one release served, one
to fall back to, neither ever thrown away.  `Publication` implements it with a
release as one item.  `Signer` implements it below that level, as long as no
rollback overlaps with the signer; both are proved.

In `Signer` the daemon issues one plan at a time (`Issue`).  When it is answered
(`Collect`) or an hour is over, whatever the signer is doing (`GiveUp`), the row is
resolved, and the answer (`RemoveOutbox`) and the plan (`RemoveInbox`) go one after
the other.  The signer may look at any moment: it lists (`List`), passes a plan
that has its answer over (`Skip`), or takes it up; if the plan is gone by then it
fails (`PlanGone`).  `publish` of a release that is there only activates
(`Recommit`); otherwise it stages (`Stage`), moves each package (`Move`) and its
signature (`MoveSig`), commits the directory; `activate` checks a release (`Verify`) and moves six links one by one
(`MoveLink`); `prune` reads the links, then removes directories (in two steps:
`remove_dir_all` may be cut off) and files.  The operator's `--rollback` runs
`activate` in a process of its own.  Package files have names that rebuilds of
the same version share, which is what makes moving them into place dangerous.
Contents of databases and manifests are not compared: they can only make a step
fail, and `StepFails` fails any.

History variables of `Signer`: `damaged`, releases one of whose files another
plan overwrote; `raced`, that a rollback overlapped with the signer.  `Stray` says
that the signer works on, or has answered, a plan the daemon is not waiting for.

## Runs

| Run | Instance | Shows |
|---|---|---|
| `builds` | 1 row, 2 requests and the loop, limit 2, 1 fault | see below |
| `builds_upload` | 1 request and the loop, 1 fault | `VerifiedUpload` fails |
| `scheduling` | 3 packages, 4 names, 1 handler and the loop, closure limit 2, 2 events of 7 kinds | see below |
| `scheduling_requests` | 1 package, 2 handlers and the loop, 3 rebuilds or crashes | see below |
| `scheduling_orphaned` | 1 package, unsubscribed and subscribed again | `ClosureBuilt` fails |
| `runner` | 1 row, 2 slots, 2 upload handlers, 2 chunks, 2 faults of 4 kinds | see below |
| `publication` | 3 plans over 2 files, one of them empty, 4 events of 6 kinds | see below |
| `publication_stray` | 3 plans, 2 changes, no faults | `EventuallyServed` fails |
| `signer` | 3 plans over 2 package names and the keyring, 3 events of 5 kinds | see below |
| `revisions` | 3 versions, the loop and a request, 1 event of 7 kinds | see below |
| `revisions_missed`, `revisions_order` | same | `ChangeIngested`, `SupersededByNewer` fail |

`builds` checks that attempts stay bounded (`AttemptBound`), that a queued row's
attempt is unknown to every builder (`FreshAttempt`), that a succeeded row has
its own files, or none once `collect_garbage` took them, unless a removal by
`fail_build` was cut off or failed (`SucceededFilesMatch`), and that rows come to
rest (`EventuallySettles`).  The fault is a dropped request, a crash or a removal
that fails.  One row is enough: no statement but the SELECTs of a sweep and of a
lease touches more than one row, and rows do not refer to each other here.  Three handlers allow the double retry and a third
party's interference.

`scheduling` checks that the closure is exactly what subscriptions need
(`ClosureIsReach`), that what is published has its dependencies with it
(`SelfContained`), that clean-up spares what is used (`GarbageOnly`), and that
members get built (`EventuallyBuilt`).  Package 1 depends on 2 and, in its second
revision, on 3; 3 depends on a name that 1 and 2 provide, so that the choice makes
a circle or exceeds the limit; 3 has no revision to begin with, and builds of 2 and
3 put out a package of the same name.  Any two events happen, in any order, also
two of one kind: a change and what follows from it, or a change and a crash.
First revisions and approvals are not counted.

`scheduling_requests` checks that rebuilds, any number of them, and scheduling
pile up no more rows of a revision than there are processes (`ActiveBound`): with
three rebuilds and the row of `schedule` there could be four, and without the
check of `rebuild` TLC finds them.  Two handlers also compete for rows, so that one
loses its claim, and still every member gets built (`EventuallyBuilt`).

`runner` checks that an upload arrives whole (`UploadedWhole`) and resumes where
it was (`ResumesWhere`), that a result is kept while it is wanted
(`KeptWhileWanted`) and that the row settles (`Settled`).  Two slots and two
upload handlers are what it takes for attempts to share a directory and for a
chunk to overlap its retransmission; two chunks give a first and a last.
`MaxTries` is 2 instead of 6: the loop keeps nothing but the count.

`publication` checks `PublishedIsCurrent`, `NeverStarved`, `PendingResolves`,
`Converges` and the refinement `ImplementsRepository`.  Three plans are the least
with a plan that is neither current nor previous, so that pruning takes
something away; one is a part of another, so that files are left out of a plan, and
one is empty.  Four events allow two changes and two faults.

`signer` checks that what is served, and what a rollback would return to, is
whole at every moment (`ServedWhole`), `NeverStarved` and `Converges` at the
level of files, and the refinement.  Plan 2 rebuilds the package of plan 1 under
the same name, with the same size; plan 3 has a package of its own.  Three events
of a change, crash, failure, time-out and rollback take all orders; two changes and
a crash are what it takes to find a half-done release again.

`revisions` checks `OnlyNewestOpen`, `BaselineIsNewest`, `HumanFirst`,
`ApprovalJustified`, `VerdictStays`, `PendingReviewed` and `NewestIngested`.
The versions are a first one, a push to AUR with another tree, and a VCS commit
with the same tree: the three ways a row can be made.  The one event is a failed
sync or review, a restart, a retry, a blocked snapshot, a subscription or a refresh.
Two events are out of TLC's reach here: what a request and a failure do together is
left to the theorems, and `NewestIngested` and `PendingReviewed` are not checked for
it.

### What the violations mean

* **Files of an earlier attempt** (`d/builds.rs:496`, against
  `docs/refactor-requirements.md:84`).  A handler cut off between the UPDATE and
  the removal, or a removal that fails, leaves finished files; the next attempt's
  `upload_status` calls them complete and nothing computes their digest.
* **A stray answer** (`d/publish.rs:235`, against
  `docs/refactor-requirements.md:9`).  The answer is removed before the plan.
  A signer that looks in between publishes the plan again and leaves an answer
  nobody waits for; when the plan is due once more, that answer is taken for a
  publication, the plan is removed unseen, and the repository stays different
  from the desired one for good.  Removing the plan first would avoid it.
* **A missed commit** (`d/packages.rs:461`, against `d/packages.rs:438`).
  `last_modified` is cached before the fetch.
* **An older commit supersedes a newer** (`d/packages.rs:212`, against
  `docs/architecture.md:74`).  Two syncs of one package overlap.
* **A package that comes back is not built** (`d/builds.rs:164`, against
  `d/builds.rs:122`).  `schedule` counts all rows of a revision, also one it
  cancelled as `NOT_REQUIRED` and one whose files were collected.

### What the exceptions mean

A property that holds only under a condition says what the code does not do
otherwise.  The conditions are all needed: without them TLC finds these.

* `NeverStarved`, `Converges` (`InTouch`): `write_plan` omits the files of the
  last row that says published.  After two switches whose answers were lost, or
  a rollback and one, the signer has pruned that release; later plans lack files.
* `ServedWhole` (`damaged`, `raced`): a rebuild with the same file name replaces
  the served file before the links move, and for good in `previous`; a rollback
  has no lock against the signer's prune.
* `SucceededFilesMatch` (`leftover`): the case of `VerifiedUpload`.
* `PublishedIsCurrent`, `Converges` (`strayed`, `Stray`): besides the stray answer
  above, a crash between the rename of a plan and the INSERT of its row leaves a
  plan that is published and that no row knows (`d/publish.rs:167`), and an answer
  that comes after the hour meets the next issue of the plan.
* `Converges` of `Signer` (`CutOff`) names two ways of stopping that nothing
  repairs.  `Torn`: a signer that dies between renaming a package over an older one
  and its signature finds the package reusable and the signature wrong ever after,
  so the plan can never be published (`d/signer.rs:203`).  `HalfRemoved`: a release
  directory of which `prune` removed a part, the manifest included, is not taken for
  a release, and the rename onto it fails each time the plan is desired again
  (`d/signer.rs:293`).  `d/signer.rs:179` says that publishing a plan again is
  idempotent; after these two it is not.
* `SelfContained`: a build of an older revision stands in for a newer one without
  its own dependencies (`d/publish.rs:47`); the member that exceeds the closure
  limit is published without its dependencies (`d/packages.rs:106`).
* `GarbageOnly` (`moved`): `collect_garbage` decides first and looks at rows
  later; a build that succeeds in between loses its files.
* `ActiveBound`: `rebuild` and `schedule` check and insert without a transaction,
  so several rows of one revision may be live (`d/builds.rs:795`).  Rows that
  succeeded and that a late `fail_build` brings back (`revived`, `d/builds.rs:214`)
  come on top.
* `EventuallyBuilt` (`Stuck`): rows in a circle of dependencies wait in the queue
  for ever, and a revision that was built in vain, or whose row was cancelled, is
  not built again.
* `UploadedWhole` (`clashed`): a chunk appended while another request is between
  digest and rename is renamed with the file.
* `KeptWhileWanted` (`shared`, `unheard`): attempts share a directory named by
  the build id, and the older one's clean-up removes the newer one's result
  (`b/runner.rs:102`, `b/runner.rs:469`); if the answer to an accepted report is
  lost, the repeated report is refused and the result thrown away
  (`b/runner.rs:496`).
* A handler dropped after the last append leaves a whole `.part` that is never
  renamed (`d/builds.rs:586`): the row is saved by its lease alone (`Settled`).

Also seen: `fail_build` increments `attempt` `WHERE id = ?`, so each of several
handlers that selected the same expired row adds one.  `d/builds.rs:4` and
`docs/architecture.md:78` promise two retries at most; what holds is `AttemptBound`,
the limit plus the number of handlers.  And the comment of `deliver_with_retries`
(`b/runner.rs:454`) says that 400 discards the job, but `is_gone`
(`b/client.rs:41`) is true of 404 and 409 only; and a mention of a network error anywhere in `build.log` makes any failure
transient (`b/guest.rs:275`).

## Fairness

* `Builds`: weak fairness of every started handler (the executor runs it), of
  sweeps (the loop ticks, builders poll) and of the clock.  None for builders.
* `Publication`: weak fairness of the two loops, which tick for ever, and of the
  end of the back-off.  None for faults, changes or the hour's time-out.
* `Revisions`: weak fairness of the sync loop, of started handlers and of the
  review loop.  None for upstream, the administrator or subscribers.
* `Scheduling`: weak fairness of the loop, of handlers that have begun (builders
  keep polling) and of the end of a leased build, which its lease enforces.  None
  for clean-up, reviews or the administrator.
* `Runner`: weak fairness of each slot (loops with sleeps that end), of each
  upload handler, and of the lease of a row nobody works on running out.  None
  for faults.
* `Signer`: weak fairness of the daemon's and the signer's loop and of a rollback
  that has begun.  None for faults, changes or the start of a rollback.

Bounds are guards on surrounding events only (`MaxFaults`, `MaxEvents`, `Last`) and
on handlers at once; no step of the code is bounded, except the retries its own
limit bounds.

## Proofs

`BuildsProofs` proves, for every number of rows and handlers and every retry
limit (assumption `BuildsAssumption`: finitely many handlers, the loop is not a
request, natural bounds):

* `TypeCorrect`: `Spec => []TypeOK`.
* `AttemptsBounded`: `Spec => []AttemptBound`.  A bound on attempts alone is not
  inductive: a handler that still holds a stale read will add one.  `RetryBudget`
  counts those handlers in: attempts plus the handlers about to retry the row
  never exceed the limit plus the number of handlers.  A handler joins the count
  only when it reads an attempt within the limit, and leaves it as it increments.
* `AttemptsFresh`: `Spec => []FreshAttempt`, from `NotAhead`: no handler read and
  no builder was told an attempt the row has not reached; a row gets back to the
  queue only with a larger number.
* `FilesMatch`: `Spec => []SucceededFilesMatch`.  The property speaks of succeeded
  rows only; `Tidy` says who owns a row's files in every state.  Files on disk
  belong to the row's upload or success, or a clean-up of them is under way
  (`FilesOwned`); a success, and an upload being completed, has them
  (`FilesThere`); a completion that outlived its upload is of an attempt the row
  has left behind, and none overlaps a report (`Outdated`, for which
  `fail_build`'s step needs `NotAhead`); `collect_garbage` is never about to
  take the files of an upload (`NoCollect`).  The timing assumptions `NoOlderRequest`
  and `NoOtherRequest` in the guards of the model are assumptions of the theorem.

`RepositoryProofs`: `StaysLinked`, that the served release and the fallback are
always kept; its invariant is inductive as it stands.

`PublicationProofs`, for any set of plans, any contents and any number of events
(`PublicationAssumption`):

* `TypeCorrect`: `Spec => []TypeOK`.
* `Refinement`: `Spec => ImplementsRepository`.  Every step of daemon and signer is
  a step of `Repository` or a stutter.  `TypeOK` does not suffice: that
  `Activate` serves a stored release needs to know that the signer holds a plan
  and committed it before, which `SignerHand` says of each of its positions
  (`DaemonHand` of the daemon's).
* `LinksLead`: the links always lead to a stored release: `StaysLinked` under the
  refinement.  That a `prune` cut off by an error keeps them too is `Pruned`.

`RevisionsProofs`, for any number of versions, any syncers and any number of
events (`RevisionsAssumption`):

* `TypeCorrect`, `NewestOpen`, `Baseline`, `HumanGate`, `Justified`, `VerdictsStay`,
  for the five invariants and the action property of the run.  They hold
  together or not at all: only the newest row is open, so only it can be
  approved, so no open row's baseline goes stale; and an approval by agents is
  justified only against a baseline, which is why the first approval is a
  human's.  `Table` joins the four invariants about the rows; `InHand` says what
  the processes hold: the version of an answer or a snapshot, the row under review,
  and that an approving opinion about to be concluded is on record.

* `ServesPublished`: `Spec => []PublishedIsCurrent`, and `SendsEnough`:
  `Spec => []NeverStarved`.  Both are about the two sides keeping step, which
  types do not say.  `Books` does: the loop's step fits the newest row
  (`RowHand`), a plan the daemon waits for lies in `inbox/` with the files it needs
  unless it is answered (`Brought`), the signer works on unanswered plans only
  (`Unanswered`), releases have their files (`Stocked`).  It holds always;
  `Served`, that an answer "published" is about the release that is served
  wherever it has got to, holds until a plan or answer strays or somebody rolls
  back, and `Noticed` says that the history variables have seen it.

`SignerProofs`, for any plans, packages and number of events, under
`SignerAssumption` and `NameAssumption`: bytes of a package have one file name.
A file name has to begin with the artifact's name, version and architecture
(`validate_artifacts`, `d/builds.rs:384`), with which `.PKGINFO` inside the package
has to agree (`validate_package_metadata`, `d/signer.rs:697`); what follows is
makepkg's name of the compression.

* `TypeCorrect`: `Spec => []TypeOK`.
* `ReleasesStored`: a release with its manifest has its files, each with its
  signature, unless a file of it was overwritten (`Stored`); no rollback can
  change that.  It needs `Hand`: what the inbox has is what the last published plan
  lacks, unless that is the plan itself and about to be removed (`DaemonHand`);
  every file of the plan at work is in place or still to be renamed, and between
  the two renames the package is in place and its signature is not (`SignerHand`).
* `AlwaysWhole`: `Spec => []ServedWhole`, at every single rename, link and
  removal, and after a crash at any of them.  `Linking` adds what the links lead
  to: all of them to whole releases, and during a switch those before `at` to the
  new release and the others to the old one.  `prune` begins only when all links
  are moved.
* `AlwaysSupplied`: `Spec => []NeverStarved`, from the two.
* `FilesRefine`: `Spec => ImplementsRepository`: the rename that commits a
  directory publishes, the last link activates, the first removal of a release
  prunes; every other step, crashes and repetitions included, is a stutter.

`RunnerProofs`, for any size, number of slots, handlers, retries and faults
(`RunnerAssumption`):

* `TypeCorrect`: `Spec => []TypeOK`.  Types alone are not inductive: `Numbers` says
  that nobody knows an attempt the row has not reached, `Waiting` that a request
  belongs to one task at most, `Offsets` that chunks say which one they are.
* `ArrivesWhole`: `Spec => []UploadedWhole`.  `Lonely`, while no `upload_put`
  overlapped: one handler writes, it appends where `.part` ends, and what it is
  about to rename has been compared.
* `ResumesRight`: `Spec => []ResumesWhere`.  `Sole`, while no two tasks were at work:
  the directory holds what its own attempt built; `Proper`: `.part` is a beginning
  of the declared package and every request carries the chunk of its offset.
* `KeepsWanted`: `Spec => KeptWhileWanted`.  Whether a builder may remove a result
  depends on what it was told long before: `Knows` says what each position implies
  about the row, `Marked` what the marker does, and `Owing` that an accepted report
  is marked or about to be.

`ClosureProofs` and `SchedulingProofs`, for any packages, dependencies, providers,
limit, events and any finite set of handlers (`SchedulingAssumption`; a server
has finitely many requests in flight, and a pkgbase has a first revision before
it is in the database):

* Recursive functions.  That `search` is a function with the equation of its
  definition has to be proved, as has what it returns.  The library's induction
  theorems are of no use for it, but least counterexamples are: a search that
  failed would have a failing search with least `Work` (queue length and pkgbases
  not yet members, weighted), and one round makes less work (`LessWork`,
  `SearchEnds`, `SearchUnfolds`).  A search is `Sane` as it goes (members are
  needed by the subscriptions, what members need is a member or queued, edges are
  the members' dependencies), or was `Cut` off.
* `ClosureRight`: `Spec => []ClosureIsReach`: exactly what the subscriptions need,
  below the limit; at it, one more than the limit and nothing that is not needed.
* `TypeCorrect`: `Spec => []TypeOK`, from `Sound`: rows, builds recorded as finished
  and publications stay in step however steps of the loop and of handlers
  interleave, and what a process read long ago is still there (`Hands`).
* `PublishesWhole`: `Spec => SelfContained`, from `Sane`: edges are complete, so
  what desired_state requires of dependencies is required of all that are needed.
* `RowsBounded`: `Spec => []ActiveBound`.  The number of rows alone is not
  inductive; together with the processes that saw none and are about to insert one
  (`Bounded`) it is: a process joins only when there is no row in progress, and the
  one other way back into the queue is a late `fail_build`, which makes a row
  `revived` (`WhoRevives`).  Nothing bounds the number of rebuilds.
* `GarbageSpared`: `Spec => GarbageOnly`, from `Sparing`: while the pass goes on
  undisturbed, what it spares is what it would spare if it looked again, because
  leaving out a build that is not the newest does not change the newest.

Out of the prover's reach and model-checked only: liveness (`EventuallySettles`,
`EventuallyBuilt`, `Settled`, `PendingResolves`, `Converges`, `PendingReviewed`,
`NewestIngested`).  Every invariant, action property and refinement that a passing
run checks is also a theorem.

## Plan

Done: builds, publication, revisions, signer, scheduling, runner; both
refinements of `Repository`; proofs of every safety property of the runs.  What
is left:

1. `Scheduling` abstractly: what `lease` and `schedule` promise to the builder
   protocol, with `Scheduling` and `Builds` as two implementations.
2. That a lease of `Scheduling` only takes dependencies that are built (what
   `Ready` and the claim's guard amount to when rows change in between).
3. Runs for the two ends of `CutOff`, and one of `Revisions` with requests and
   failures together on fewer versions.

## Not modelled

* The AUR and package database client (`d/aur.rs`): I/O and a cache; its answers
  and failures are inputs of `Revisions` and constants of `Scheduling`.
* Inside the container, `pacman`, `gpg` and `makepkg`: `Runner` has the outcomes
  of each stage of the guest, which is a sequential program.
* Parsers and validators: pure functions of text without a state.
* Sessions and the administrator (`d/auth.rs`, `d/admin.rs`): each operation is a
  single guarded statement on one row; there is no order of steps to get wrong.
* `next_scheduled_check`: a pure function of clock and name.
* State export and import: offline, in one transaction.
* Start-up, configuration, routes, web console and deployment files.
* In modelled components: lists and views for the console, which change nothing.

Formatting, logs, wording and HTTP status codes are left out throughout, except
where a status decides what the other side does next.
