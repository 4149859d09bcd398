----------------------------- MODULE Revisions -----------------------------
(***************************************************************************)
(* The revisions of one pkgbase, from AUR to a verdict.  The sync loop and *)
(* the handlers of refresh and subscribe (packages.rs) may check the same  *)
(* pkgbase at the same time, with network calls between their database     *)
(* statements; the review loop (review.rs) takes one pending revision at a *)
(* time through two cheap agents and perhaps a third, while new commits    *)
(* supersede it; an administrator decides or sends back what was left to a *)
(* human.  insert_revision is one SQLite transaction and one step.         *)
(***************************************************************************)
EXTENDS Integers, Sequences

CONSTANTS
  Last,       \* bound: upstream has the versions 1 .. Last, one after another
  Aur,        \* last_modified and aur_commit of each version
  Vcs,        \* vcs_commit of each version; all the same without a VCS source
  Tree,       \* file tree of each version
  Syncers,    \* handlers that may run sync_package at once
  Loop,       \* the one among them that is run_sync_loop
  MaxEvents   \* bound: requests, failed syncs and reviews, restarts, retries,
              \* and snapshots the scan blocks

Versions == 1 .. Last

ASSUME RevisionsAssumption ==
  /\ Last \in Nat \ {0}
  /\ Aur \in [Versions -> Nat \ {0}] /\ Vcs \in [Versions -> Nat]
  /\ Tree \in [Versions -> Nat]
  /\ Loop \in Syncers
  /\ MaxEvents \in Nat

VARIABLES
  upstream,   \* the version one would fetch now
  modified,   \* packages.last_modified, 0 for NULL
  rows,       \* table revisions in the order of created_at, with the reviews
              \* in favour of each row
  spc, was, got,      \* each syncer: step, last_modified it read, the version AUR,
                      \* the newest row or the snapshot told it of
  rpc, row, opinion,  \* the review loop: step, row in hand, whether agents approve
  configured,         \* AURSMITH_REVIEW_CONFIG is set; a restart may change it
  events,     \* used up of the bound
  skipped     \* history: a change went into last_modified but not into a row

syncVars   == <<modified, spc, was, got>>
reviewVars == <<rpc, row, opinion>>
vars == <<upstream, syncVars, rows, reviewVars, configured, events, skipped>>

Verdicts == {"approve", "reject", "error"}
Open == {"pending_review", "manual_review"}
Final == {"approved", "rejected", "superseded"}

Init ==
  /\ upstream = 1
  /\ modified = 0
  /\ rows = <<>>
  /\ spc = [s \in Syncers |-> "idle"]
  /\ was = [s \in Syncers |-> 0]
  /\ got = [s \in Syncers |-> 0]
  /\ rpc = "idle" /\ row = 0 /\ opinion = FALSE
  /\ configured = TRUE
  /\ events = 0
  /\ skipped = FALSE

Indices == 1 .. Len(rows)
In(S) == {i \in Indices : rows[i].st \in S}

\* The newest row of a set of rows, or 0.
Newest(S) == IF S = {} THEN 0 ELSE CHOOSE i \in S : \A j \in S : j <= i

\* One more event of the bounded kinds.
Event == events < MaxEvents /\ events' = events + 1

\* A row is in the table with this identity.
Known(v) == \E i \in Indices : Aur[rows[i].v] = Aur[v] /\ Vcs[rows[i].v] = Vcs[v]

-----------------------------------------------------------------------------
(* Synchronisation. *)

\* Upstream moves on: a push to AUR, or to the VCS source only.
Push ==
  /\ upstream < Last
  /\ upstream' = upstream + 1
  /\ UNCHANGED <<syncVars, rows, reviewVars, configured, events, skipped>>

Sync(s, l) == spc' = [spc EXCEPT ![s] = l]

\* sync_package: SELECT the cached last_modified.
Begin(s) ==
  /\ Sync(s, "lookup")
  /\ was' = [was EXCEPT ![s] = modified]
  /\ UNCHANGED <<upstream, modified, got, rows, reviewVars, configured, skipped>>

\* run_sync_loop comes to the pkgbase, or subscribe has entered it.
ReadCache(s) ==
  /\ spc[s] = "subscribed" \/ (s = Loop /\ spc[s] = "idle")
  /\ Begin(s)
  /\ UNCHANGED events

\* The administrator asks for a check.
Refresh(s) ==
  /\ s # Loop
  /\ spc[s] = "idle"
  /\ Event
  /\ Begin(s)

\* subscribe asks AUR, enters the subscription, and goes on like a sync.
Subscribe(s) ==
  /\ s # Loop
  /\ spc[s] = "idle"
  /\ Event
  /\ got' = [got EXCEPT ![s] = upstream]
  /\ Sync(s, "subscribe")
  /\ UNCHANGED <<upstream, modified, was, rows, reviewVars, configured, skipped>>

\* sync_package: ask AUR.
LookUp(s) ==
  /\ spc[s] = "lookup"
  /\ got' = [got EXCEPT ![s] = upstream]
  /\ Sync(s, "cache")
  /\ UNCHANGED <<upstream, modified, was, rows, reviewVars, configured, events, skipped>>

\* update_cache, in sync_package or in subscribe.  The latter, for a pkgbase that
\* has revisions, may hide a change from the sync_package that follows.
UpdateCache(s) ==
  /\ spc[s] \in {"cache", "subscribe"}
  /\ modified' = Aur[got[s]]
  /\ IF spc[s] = "cache"
       THEN Sync(s, "select") /\ UNCHANGED <<got, skipped>>
       ELSE /\ Sync(s, "subscribed")
            /\ got' = [got EXCEPT ![s] = 0]
            /\ skipped' = (skipped \/ modified' # modified)
  /\ UNCHANGED <<upstream, was, rows, reviewVars, configured, events>>

\* sync_package: what AUR told differs from what was cached before.
Changed(s) == rows = <<>> \/ was[s] # Aur[got[s]]

\* sync_package: SELECT the newest row, if AUR has nothing new for its VCS source.
SelectLatest(s) ==
  /\ spc[s] = "select"
  /\ IF Changed(s)
       THEN Sync(s, "fetch") /\ got' = [got EXCEPT ![s] = 0]
       ELSE Sync(s, "vcs") /\ got' = [got EXCEPT ![s] = rows[Len(rows)].v]
  /\ was' = [was EXCEPT ![s] = 0]
  /\ UNCHANGED <<upstream, modified, rows, reviewVars, configured, events, skipped>>

\* Mutant: commits of the VCS source are not looked at.
AdvancedNever(s) == FALSE

\* sync_package: the VCS source has moved on from the row that was newest.
Advanced(s) == Vcs[got[s]] # Vcs[upstream]

\* sync_package: ask the VCS source.
CompareVcs(s) ==
  /\ spc[s] = "vcs"
  /\ Sync(s, IF Advanced(s) THEN "fetch" ELSE "idle")
  /\ got' = [got EXCEPT ![s] = 0]
  /\ UNCHANGED <<upstream, modified, was, rows, reviewVars, configured, events, skipped>>

\* ingest: fetch the snapshot; the dependency look-ups follow.
Fetch(s) ==
  /\ spc[s] = "fetch"
  /\ got' = [got EXCEPT ![s] = upstream]
  /\ Sync(s, "insert")
  /\ UNCHANGED <<upstream, modified, was, rows, reviewVars, configured,
                 events, skipped>>

Reusable(v) == {i \in In({"approved"}) : Tree[rows[i].v] = Tree[v]}

\* Mutant: the baseline is the newest row that was ever reviewed.
NewRowOverReviewed(v, blocked) ==
  [v |-> v,
   st |-> IF blocked THEN "rejected"
          ELSE IF Reusable(v) # {} THEN "approved" ELSE "pending_review",
   baseline |-> Newest(In(Final)),
   favour |-> IF ~blocked /\ Reusable(v) # {} THEN {"reuse"} ELSE {}]

\* insert_revision: the row made of version v.
NewRow(v, blocked) ==
  [v |-> v,
   st |-> IF blocked THEN "rejected"
          ELSE IF Reusable(v) # {} THEN "approved" ELSE "pending_review",
   baseline |-> Newest(In({"approved"})),
   favour |-> IF ~blocked /\ Reusable(v) # {} THEN {"reuse"} ELSE {}]

\* Mutant: a row that waits for a human is not superseded.
SupersededPending ==
  [i \in Indices |-> IF rows[i].st = "pending_review"
                       THEN [rows[i] EXCEPT !.st = "superseded"] ELSE rows[i]]

\* insert_revision: whatever was open is superseded.
Superseded ==
  [i \in Indices |-> IF rows[i].st \in Open
                       THEN [rows[i] EXCEPT !.st = "superseded"] ELSE rows[i]]

\* insert_revision, one transaction; blocked is the finding of the scan.
Insert(s, blocked) ==
  /\ spc[s] = "insert"
  /\ IF Known(got[s])
       THEN ~blocked /\ UNCHANGED rows
       ELSE rows' = Append(Superseded, NewRow(got[s], blocked))
  /\ IF blocked THEN Event ELSE UNCHANGED events
  /\ got' = [got EXCEPT ![s] = 0]
  /\ Sync(s, "idle")
  /\ UNCHANGED <<upstream, modified, was, reviewVars, configured, skipped>>

\* Were s to end now, it would have cached a change that it did not ingest.
Loses(s) == spc[s] \in {"fetch", "insert"} \/ (spc[s] = "select" /\ Changed(s))

\* A sync ends early: AUR, git or the official repository does not answer, or
\* the client of refresh or subscribe goes away.
SyncFails(s) ==
  /\ spc[s] # "idle"
  /\ Event
  /\ skipped' = (skipped \/ Loses(s))
  /\ Sync(s, "idle")
  /\ was' = [was EXCEPT ![s] = 0]
  /\ got' = [got EXCEPT ![s] = 0]
  /\ UNCHANGED <<upstream, modified, rows, reviewVars, configured>>

SyncStep(s) ==
  \/ ReadCache(s) \/ LookUp(s) \/ UpdateCache(s) \/ SelectLatest(s)
  \/ CompareVcs(s) \/ Fetch(s)
  \/ \E blocked \in BOOLEAN : Insert(s, blocked)

-----------------------------------------------------------------------------
(* The review loop. *)

Review(l, i, o) == rpc' = l /\ row' = i /\ opinion' = o
SetState(i, st) == rows' = [rows EXCEPT ![i].st = st]
Favour(i, kind) == rows' = [rows EXCEPT ![i].favour = @ \cup {kind}]

\* Mutant: set_outcome names the row by its id alone.
SetOutcomeAlways(i, st) == SetState(i, st)

\* set_outcome, guarded by state = 'pending_review'.
SetOutcome(i, st) ==
  IF rows[i].st = "pending_review" THEN SetState(i, st) ELSE UNCHANGED rows

\* review_next without a reviewer: straight to the human.
PassToHuman ==
  /\ rpc = "idle" /\ ~configured
  /\ In({"pending_review"}) # {}
  /\ LET i == CHOOSE i \in In({"pending_review"}) : \A j \in In({"pending_review"}) : i <= j
     IN  SetOutcome(i, "manual_review")
  /\ UNCHANGED <<upstream, syncVars, reviewVars, configured, events, skipped>>

\* review_next: take the oldest pending row and DELETE its agent reviews.
TakeRow ==
  /\ rpc = "idle" /\ configured
  /\ In({"pending_review"}) # {}
  /\ LET i == CHOOSE i \in In({"pending_review"}) : \A j \in In({"pending_review"}) : i <= j
     IN  /\ Review("lows", i, FALSE)
         /\ rows' = [rows EXCEPT ![i].favour = @ \ {"lows", "high"}]
  /\ UNCHANGED <<upstream, syncVars, configured, events, skipped>>

\* Mutant: one of the two is enough.
AgreeEither(first, second) == first = "approve" \/ second = "approve"

\* after_lows: both cheap agents must approve.
Agree(first, second) == first = "approve" /\ second = "approve"

\* review_next: the two cheap agents answer and are recorded.
RunLows(first, second) ==
  /\ rpc = "lows"
  /\ IF {first, second} = {"approve"} THEN Favour(row, "lows") ELSE UNCHANGED rows
  /\ IF Agree(first, second) THEN Review("outcome", row, TRUE)
                             ELSE Review("high", row, FALSE)
  /\ UNCHANGED <<upstream, syncVars, configured, events, skipped>>

\* review_next: the third agent answers and is recorded.
RunHigh(verdict) ==
  /\ rpc = "high"
  /\ IF verdict = "approve" THEN Favour(row, "high") ELSE UNCHANGED rows
  /\ Review("outcome", row, verdict = "approve")
  /\ UNCHANGED <<upstream, syncVars, configured, events, skipped>>

\* Mutant: the first addition is left to the agents too.
DecideFirstTime(i, approve) == IF approve THEN "approved" ELSE "manual_review"

\* Mutant: the verdict is stored instead of the state.
DecideVerdict(i, approve) ==
  IF approve /\ rows[i].baseline # 0 THEN "approve" ELSE "manual_review"

\* decide: agents approve only what has an approved baseline.
Decide(i, approve) ==
  IF approve /\ rows[i].baseline # 0 THEN "approved" ELSE "manual_review"

\* Mutant: without an approval the row is left for the next round.
ConcludeApproval ==
  /\ rpc = "outcome"
  /\ IF opinion THEN SetOutcome(row, Decide(row, opinion)) ELSE UNCHANGED rows
  /\ Review("idle", 0, FALSE)
  /\ UNCHANGED <<upstream, syncVars, configured, events, skipped>>

\* review_next: decide and set_outcome.
Conclude ==
  /\ rpc = "outcome"
  /\ SetOutcome(row, Decide(row, opinion))
  /\ Review("idle", 0, FALSE)
  /\ UNCHANGED <<upstream, syncVars, configured, events, skipped>>

\* review_next ends with an error anywhere: the row stays the next one.
ReviewFails ==
  /\ rpc # "idle"
  /\ Event
  /\ Review("idle", 0, FALSE)
  /\ UNCHANGED <<upstream, syncVars, rows, configured, skipped>>

ReviewStep ==
  \/ PassToHuman \/ TakeRow \/ Conclude
  \/ \E v, w \in Verdicts : RunLows(v, w)
  \/ \E v \in Verdicts : RunHigh(v)

-----------------------------------------------------------------------------
(* The administrator, and restarts. *)

\* decide_manually: one transaction, guarded by state = 'manual_review'.
DecideManually(i, approve) ==
  /\ rows[i].st = "manual_review"
  /\ rows' = [rows EXCEPT ![i].st = IF approve THEN "approved" ELSE "rejected",
                          ![i].favour = IF approve THEN @ \cup {"human"} ELSE @]
  /\ UNCHANGED <<upstream, syncVars, reviewVars, configured, events, skipped>>

\* retry: back to the review loop, guarded by state = 'manual_review'.
Retry(i) ==
  /\ Event
  /\ rows[i].st = "manual_review"
  /\ SetState(i, "pending_review")
  /\ UNCHANGED <<upstream, syncVars, reviewVars, configured, skipped>>

\* aursmithd is restarted, with or without the agents.
Restart ==
  /\ Event
  /\ skipped' = (skipped \/ \E s \in Syncers : Loses(s))
  /\ spc' = [s \in Syncers |-> "idle"]
  /\ was' = [s \in Syncers |-> 0]
  /\ got' = [s \in Syncers |-> 0]
  /\ Review("idle", 0, FALSE)
  /\ configured' \in BOOLEAN
  /\ UNCHANGED <<upstream, modified, rows>>

Next ==
  \/ Push
  \/ \E s \in Syncers : SyncStep(s) \/ Refresh(s) \/ Subscribe(s) \/ SyncFails(s)
  \/ ReviewStep \/ ReviewFails
  \/ \E i \in Indices, approve \in BOOLEAN : DecideManually(i, approve)
  \/ \E i \in Indices : Retry(i)
  \/ Restart

\* run_sync_loop comes round to the pkgbase again and again and started
\* handlers are run; the review loop never stops.  Nothing is assumed of
\* upstream, of the administrator or of subscribers.
Fairness ==
  /\ WF_vars(SyncStep(Loop))
  /\ \A s \in Syncers : WF_vars(spc[s] # "idle" /\ SyncStep(s))
  /\ WF_vars(ReviewStep)

Spec == Init /\ [][Next]_vars /\ Fairness

-----------------------------------------------------------------------------
(* Properties. *)

TypeOK ==
  /\ upstream \in Versions /\ modified \in Nat
  /\ rows \in Seq([v : Versions, st : Open \cup Final, baseline : Nat,
                   favour : SUBSET {"reuse", "lows", "high", "human"}])
  /\ spc \in [Syncers -> {"idle", "subscribe", "subscribed", "lookup", "cache",
                       "select", "vcs", "fetch", "insert"}]
  /\ was \in [Syncers -> Nat] /\ got \in [Syncers -> Versions \cup {0}]
  /\ rpc \in {"idle", "lows", "high", "outcome"}
  /\ row \in 0 .. Len(rows) /\ opinion \in BOOLEAN
  /\ configured \in BOOLEAN /\ skipped \in BOOLEAN
  /\ events \in 0 .. MaxEvents

\* However syncs, reviews and decisions interleave, only the newest row can
\* still be decided, so no verdict is ever given on an outdated revision.
OnlyNewestOpen == \A i \in In(Open) : i = Len(rows)

\* An open row is compared with the newest approved one: its baseline, fixed
\* when it was inserted, never goes stale while a verdict can still be given.
BaselineIsNewest == \A i \in In(Open) : rows[i].baseline = Newest(In({"approved"}))

\* No revision is approved on the word of agents or of an identical tree alone
\* unless a human approved an earlier one: the gate for the first addition.
HumanFirst ==
  \A i \in In({"approved"}) :
    \E j \in In({"approved"}) : j <= i /\ "human" \in rows[j].favour

\* Every approved row has the review that justifies it among its own: a human,
\* an identical approved tree, or agents who approved it against a baseline.
ApprovalJustified ==
  \A i \in In({"approved"}) :
    \/ "human" \in rows[i].favour
    \/ "reuse" \in rows[i].favour
    \/ rows[i].baseline # 0 /\ rows[i].favour \cap {"lows", "high"} # {}

\* A verdict is never changed: a review that ends late, a repeated decision or
\* a late snapshot leaves rows alone that were approved, rejected, superseded.
VerdictStays ==
  [][\A i \in In(Final) : rows'[i].st = rows[i].st]_vars

\* A revision that waits for the agents gets a verdict, goes to a human or is
\* superseded, whatever restarts and agent errors there are.
PendingReviewed ==
  In({"pending_review"}) # {} ~> In({"pending_review"}) = {}

\* As long as no change was written to last_modified and then lost, the newest
\* version of upstream gets its row.
NewestIngested == []~skipped => <>[]Known(upstream)

\* packages.rs:438: a changed AUR package is fetched and becomes a revision.
ChangeIngested == <>[]Known(upstream)

\* architecture.md: a revision is superseded by a newer commit only.
SupersededByNewer ==
  \A i \in In({"superseded"}) : \E j \in Indices : rows[j].v > rows[i].v
=============================================================================
