---------------------------- MODULE Publication ----------------------------
(***************************************************************************)
(* How the desired repository state reaches the repository.  aursmithd's   *)
(* reconcile loop (publish.rs) writes content-addressed plans into inbox/  *)
(* and keeps one row per issue in the table publications; the offline      *)
(* signer (signer.rs) turns plans into releases, switches current and      *)
(* answers in outbox/.  The two processes share only that directory; each  *)
(* may die between any two steps.  A release is taken as a whole here: the *)
(* files and links inside one are the subject of module Signer.            *)
(***************************************************************************)
EXTENDS Integers, FiniteSets

CONSTANTS
  Plans,      \* plans by the order of their SHA-256, numbered from 1
  Artifacts,  \* package files by digest
  Content,    \* the artifacts of each plan
  Events,     \* what may happen around the two loops
  MaxEvents   \* bound: how many of these happen

ASSUME PublicationAssumption ==
  /\ Plans \subseteq Nat \ {0}
  /\ Content \in [Plans -> SUBSET Artifacts]
  /\ Events \subseteq {"change", "daemon_crash", "signer_crash", "timeout",
                       "rollback", "failure"}
  /\ MaxEvents \in Nat

VARIABLES
  desired,    \* plan of desired_state: depends on builds and subscriptions
  latest,     \* newest row of publications: its plan and state
  lastPub,    \* plan of the newest published row, or 0
  overdue,    \* the pending row is older than SIGNER_TIMEOUT_MINUTES
  backoff,    \* the failed row is younger than FAILED_PLAN_BACKOFF_MINUTES
  dpc, dplan, \* the reconcile loop: next step, plan in hand
  issued,     \* directories in inbox/
  sent,       \* files in each of them
  outbox,     \* results in outbox/
  spc, todo, splan, verdict,  \* the signer: step, listing, plan in hand, result
  releases, hot,              \* releases/<plan>/ and package files in x86_64/
  current, previous,          \* the two links, or 0
  count,      \* events so far
  rolled,     \* history: somebody rolled back
  strayed     \* history: the signer or an answer was ever out of step

pubVars    == <<latest, lastPub, overdue, backoff>>
daemonVars == <<dpc, dplan>>
inboxVars  == <<issued, sent>>
signerVars == <<spc, todo, splan, verdict>>
repoVars   == <<releases, hot, current, previous>>
eventVars  == <<count, rolled>>
vars == <<desired, pubVars, daemonVars, inboxVars, outbox, signerVars, repoVars,
          eventVars, strayed>>

NoPlan == 0

Init ==
  /\ desired \in Plans
  /\ latest = [plan |-> NoPlan, st |-> "none"]
  /\ lastPub = NoPlan
  /\ overdue = FALSE /\ backoff = FALSE
  /\ dpc = "collect" /\ dplan = NoPlan
  /\ issued = {} /\ sent = [p \in Plans |-> {}]
  /\ outbox = [p \in Plans |-> "none"]
  /\ spc = "list" /\ todo = {} /\ splan = NoPlan /\ verdict = "none"
  /\ releases = {} /\ hot = {}
  /\ current = NoPlan /\ previous = NoPlan
  /\ count = 0 /\ rolled = FALSE
  /\ strayed = FALSE

Files(p) == IF p = NoPlan THEN {} ELSE Content[p]

\* One more event, of kind e.
Happens(e) ==
  /\ e \in Events
  /\ count < MaxEvents
  /\ count' = count + 1
  /\ rolled' = (rolled \/ e = "rollback")

\* The daemon waits for an answer about plan p, or is about to.
Awaited(p) ==
  \/ latest = [plan |-> p, st |-> "pending"]
  \/ dpc \in {"insert", "unanswer"} /\ dplan = p

\* A plan lies in inbox/, is worked on, or has an answer in outbox/ that the
\* daemon neither waits for nor is taking away.
Stray ==
  \E p \in Plans :
    /\ ~Awaited(p)
    /\ \/ p \in issued /\ ~(dpc = "unissue" /\ dplan = p)
       \/ spc \in {"publish", "commit", "activate", "answer"} /\ splan = p
       \/ outbox[p] # "none"

\* Every step keeps the history variable.
Watch == strayed' = (strayed \/ Stray')

-----------------------------------------------------------------------------
(* The reconcile loop: collect, remove outbox, remove inbox, decide, clear, *)
(* write, insert, and around again.                                         *)

\* The loop goes to step l with plan p in hand.
Daemon(l, p) == dpc' = l /\ dplan' = p

\* Mutant: only a published result resolves the row.
PublishedResult ==
  IF latest.st = "pending" /\ outbox[latest.plan] = "published"
    THEN "published" ELSE "none"

\* The result of the pending row, or "none": the answer in outbox/ whenever it
\* was written; without one an overdue row has failed.
Result ==
  IF latest.st # "pending" THEN "none"
  ELSE IF outbox[latest.plan] # "none" THEN outbox[latest.plan]
  ELSE IF overdue THEN "failed" ELSE "none"

\* Mutant: the row keeps the signer's word for an overdue plan.
ResolveTimeout(st) ==
  /\ latest' = [latest EXCEPT !.st = IF overdue THEN "timeout" ELSE st]
  /\ lastPub' = IF st = "published" THEN latest.plan ELSE lastPub
  /\ overdue' = FALSE
  /\ backoff' = (st = "failed")

\* collect_signer_results: UPDATE the row.
Resolve(st) ==
  /\ latest' = [latest EXCEPT !.st = st]
  /\ lastPub' = IF st = "published" THEN latest.plan ELSE lastPub
  /\ overdue' = FALSE
  /\ backoff' = (st = "failed")

\* collect_signer_results up to its UPDATE.
Collect ==
  /\ dpc = "collect"
  /\ IF Result = "none"
       THEN Daemon("decide", NoPlan) /\ UNCHANGED pubVars
       ELSE Resolve(Result) /\ Daemon("unanswer", latest.plan)
  /\ UNCHANGED <<desired, inboxVars, outbox, signerVars, repoVars, eventVars>>
  /\ Watch

\* collect_signer_results: remove the result file.
RemoveOutbox ==
  /\ dpc = "unanswer"
  /\ outbox' = [outbox EXCEPT ![dplan] = "none"]
  /\ Daemon("unissue", dplan)
  /\ UNCHANGED <<desired, pubVars, inboxVars, signerVars, repoVars, eventVars>>
  /\ Watch

\* collect_signer_results: remove the plan's directory.
RemoveInbox ==
  /\ dpc = "unissue"
  /\ issued' = issued \ {dplan}
  /\ sent' = [sent EXCEPT ![dplan] = {}]
  /\ Daemon("decide", NoPlan)
  /\ UNCHANGED <<desired, pubVars, outbox, signerVars, repoVars, eventVars>>
  /\ Watch

\* Mutant: a failed plan is not issued again.
DueOnce == latest.st # "pending" /\ latest.plan # desired

\* reconcile: is a new plan due?  An empty repository is not the first one.
Due ==
  /\ latest.st # "pending"
  /\ latest.st = "none" => Files(desired) # {}
  /\ latest.plan = desired =>
       /\ latest.st # "published"
       /\ ~(latest.st = "failed" /\ backoff)

Decide ==
  /\ dpc = "decide"
  /\ IF Due THEN Daemon("write", desired) ELSE Daemon("collect", NoPlan)
  /\ UNCHANGED <<desired, pubVars, inboxVars, outbox, signerVars, repoVars, eventVars>>
  /\ Watch

\* write_plan: what lies in inbox/ under the plan's name is removed.
ClearPlan ==
  /\ dpc = "write"
  /\ issued' = issued \ {dplan}
  /\ sent' = [sent EXCEPT ![dplan] = {}]
  /\ Daemon("copy", dplan)
  /\ UNCHANGED <<desired, pubVars, outbox, signerVars, repoVars, eventVars>>
  /\ Watch

\* Mutant: the files the newest row lacks, whatever became of it.
WritePlanOverLatest ==
  /\ dpc = "copy"
  /\ issued' = issued \cup {dplan}
  /\ sent' = [sent EXCEPT ![dplan] = Files(dplan) \ Files(latest.plan)]
  /\ Daemon("insert", dplan)
  /\ UNCHANGED <<desired, pubVars, outbox, signerVars, repoVars, eventVars>>
  /\ Watch

\* write_plan up to the rename: the files the last published plan lacks.
WritePlan ==
  /\ dpc = "copy"
  /\ issued' = issued \cup {dplan}
  /\ sent' = [sent EXCEPT ![dplan] = Files(dplan) \ Files(lastPub)]
  /\ Daemon("insert", dplan)
  /\ UNCHANGED <<desired, pubVars, outbox, signerVars, repoVars, eventVars>>
  /\ Watch

\* write_plan: INSERT the pending row.
InsertRow ==
  /\ dpc = "insert"
  /\ latest' = [plan |-> dplan, st |-> "pending"]
  /\ overdue' = FALSE
  /\ backoff' = FALSE
  /\ Daemon("collect", NoPlan)
  /\ UNCHANGED <<desired, lastPub, inboxVars, outbox, signerVars, repoVars, eventVars>>
  /\ Watch

DaemonStep ==
  \/ Collect \/ RemoveOutbox \/ RemoveInbox \/ Decide \/ ClearPlan \/ WritePlan
  \/ InsertRow

-----------------------------------------------------------------------------
(* The signer: list, then for each plan in order publish and answer. *)

Signer(l, p, v) == spc' = l /\ splan' = p /\ verdict' = v

\* process_inbox: one listing for the whole round.
ListInbox ==
  /\ spc = "list"
  /\ issued # {}
  /\ todo' = issued
  /\ Signer("next", NoPlan, "none")
  /\ UNCHANGED <<desired, pubVars, daemonVars, inboxVars, outbox, repoVars, eventVars>>
  /\ Watch

\* process_inbox: the next plan in the order of names; one that has a result
\* is passed over.
NextPlan ==
  /\ spc = "next"
  /\ IF todo = {}
       THEN Signer("list", NoPlan, "none") /\ UNCHANGED todo
       ELSE LET p == CHOOSE q \in todo : \A r \in todo : q <= r
            IN  /\ todo' = todo \ {p}
                /\ IF outbox[p] = "none" THEN Signer("publish", p, "none")
                   ELSE Signer("next", NoPlan, "none")
  /\ UNCHANGED <<desired, pubVars, daemonVars, inboxVars, outbox, repoVars, eventVars>>
  /\ Watch

\* publish can go ahead: the plan is readable, and every file of it is in
\* the repository or in the inbox.
Publishable(p) == p \in issued /\ Files(p) \subseteq hot \cup sent[p]

\* activate: the old current becomes previous unless it is the same release.
Switch(p) ==
  /\ current' = p
  /\ previous' = IF current \in {NoPlan, p} THEN previous ELSE current

\* publish of a new release: read the plan, check and copy its files.
Stage ==
  /\ spc = "publish"
  /\ ~(splan \in issued \cap releases)
  /\ IF Publishable(splan) THEN Signer("commit", splan, "none")
                           ELSE Signer("answer", splan, "failed")
  /\ UNCHANGED <<desired, pubVars, daemonVars, inboxVars, outbox, todo,
                 repoVars, eventVars>>
  /\ Watch

\* publish of a new release: move its files and its directory into place.
Commit ==
  /\ spc = "commit"
  /\ releases' = releases \cup {splan}
  /\ hot' = hot \cup Files(splan)
  /\ Signer("activate", splan, "none")
  /\ UNCHANGED <<desired, pubVars, daemonVars, inboxVars, outbox, todo,
                 current, previous, eventVars>>
  /\ Watch

\* Any other error of publish before the links move: gpg, repo-add, a full
\* disk, a signature that does not verify.
PublishFails ==
  /\ spc \in {"publish", "commit", "activate"}
  /\ Happens("failure")
  /\ Signer("answer", splan, "failed")
  /\ UNCHANGED <<desired, pubVars, daemonVars, inboxVars, outbox, todo, repoVars>>
  /\ Watch

\* Mutant: a release that was committed before needs no activate.
RecommitReturns ==
  /\ spc = "publish"
  /\ splan \in issued \cap releases
  /\ Signer("answer", splan, "published")
  /\ UNCHANGED <<desired, pubVars, daemonVars, inboxVars, outbox, todo,
                 repoVars, eventVars>>
  /\ Watch

\* publish of a release that was committed before: activate is all it does.
Recommit ==
  /\ spc = "publish"
  /\ splan \in issued \cap releases
  /\ Switch(splan)
  /\ Signer("answer", splan, "published")
  /\ UNCHANGED <<desired, pubVars, daemonVars, inboxVars, outbox, todo,
                 releases, hot, eventVars>>
  /\ Watch

\* Mutant: prune goes by the link current alone.
ActivatePruneAll ==
  /\ spc = "activate"
  /\ Switch(splan)
  /\ releases' = {current'}
  /\ hot' = hot \cap (Files(current') \cup Files(previous'))
  /\ Signer("answer", splan, "published")
  /\ UNCHANGED <<desired, pubVars, daemonVars, inboxVars, outbox, todo, eventVars>>
  /\ Watch

\* prune takes away every release but current and previous, and then the files
\* only those others name.  An error ends it anywhere.
Prune ==
  LET linked == releases \cap {current', previous'}
      named == hot \cap (Files(current') \cup Files(previous'))
  IN  \/ releases' = linked /\ hot' = named /\ UNCHANGED eventVars
      \/ /\ Happens("failure")
         /\ releases' \in {R \in SUBSET releases : linked \subseteq R}
         /\ hot' \in {H \in SUBSET hot : named \subseteq H}
         /\ releases' # linked => UNCHANGED hot

\* publish of a new release: activate, then prune.  If prune fails the plan is
\* published all the same.
Activate ==
  /\ spc = "activate"
  /\ Switch(splan)
  /\ Prune
  /\ Signer("answer", splan, "published")
  /\ UNCHANGED <<desired, pubVars, daemonVars, inboxVars, outbox, todo>>
  /\ Watch

\* process_inbox: write the result.
Answer ==
  /\ spc = "answer"
  /\ outbox' = [outbox EXCEPT ![splan] = verdict]
  /\ Signer("next", NoPlan, "none")
  /\ UNCHANGED <<desired, pubVars, daemonVars, inboxVars, todo, repoVars, eventVars>>
  /\ Watch

SignerStep ==
  \/ ListInbox \/ NextPlan \/ Stage \/ Commit \/ Recommit \/ Activate \/ Answer

-----------------------------------------------------------------------------
(* The surroundings. *)

\* Builds finish, subscriptions change: another plan is desired.
Change ==
  /\ Happens("change")
  /\ desired' \in Plans \ {desired}
  /\ UNCHANGED <<pubVars, daemonVars, inboxVars, outbox, signerVars, repoVars>>
  /\ Watch

\* The signer is slow: the pending row reaches SIGNER_TIMEOUT_MINUTES.
Overdue ==
  /\ latest.st = "pending"
  /\ ~overdue
  /\ Happens("timeout")
  /\ overdue' = TRUE
  /\ UNCHANGED <<desired, latest, lastPub, backoff, daemonVars, inboxVars,
                 outbox, signerVars, repoVars>>
  /\ Watch

\* FAILED_PLAN_BACKOFF_MINUTES go by.
BackoffEnds ==
  /\ backoff
  /\ backoff' = FALSE
  /\ UNCHANGED <<desired, latest, lastPub, overdue, daemonVars, inboxVars,
                 outbox, signerVars, repoVars, eventVars>>
  /\ Watch

\* aursmithd dies and starts again, or a step fails and ends the round.
DaemonCrash ==
  /\ dpc # "collect"
  /\ Happens("daemon_crash")
  /\ Daemon("collect", NoPlan)
  /\ UNCHANGED <<desired, pubVars, inboxVars, outbox, signerVars, repoVars>>
  /\ Watch

\* The signer dies and starts again.
SignerCrash ==
  /\ spc # "list"
  /\ Happens("signer_crash")
  /\ Signer("list", NoPlan, "none")
  /\ todo' = {}
  /\ UNCHANGED <<desired, pubVars, daemonVars, inboxVars, outbox, repoVars>>
  /\ Watch

\* aursmithd signer --rollback: current and previous change places.
Rollback ==
  /\ previous # NoPlan
  /\ Happens("rollback")
  /\ Switch(previous)
  /\ UNCHANGED <<desired, pubVars, daemonVars, inboxVars, outbox, signerVars,
                 releases, hot>>
  /\ Watch

Next ==
  \/ DaemonStep
  \/ SignerStep
  \/ PublishFails
  \/ Change
  \/ Overdue
  \/ BackoffEnds
  \/ DaemonCrash
  \/ SignerCrash
  \/ Rollback

\* Both loops run for ever (15 s and 5 s ticks) and the back-off ends.
Fairness == WF_vars(DaemonStep) /\ WF_vars(SignerStep) /\ WF_vars(BackoffEnds)

Spec == Init /\ [][Next]_vars /\ Fairness

-----------------------------------------------------------------------------
(* Properties. *)

TypeOK ==
  /\ desired \in Plans
  /\ latest \in [plan : Plans \cup {NoPlan},
                 st : {"none", "pending", "published", "failed"}]
  /\ lastPub \in Plans \cup {NoPlan}
  /\ overdue \in BOOLEAN /\ backoff \in BOOLEAN
  /\ dpc \in {"collect", "unanswer", "unissue", "decide", "write", "copy", "insert"}
  /\ dplan \in Plans \cup {NoPlan}
  /\ issued \subseteq Plans /\ sent \in [Plans -> SUBSET Artifacts]
  /\ outbox \in [Plans -> {"none", "published", "failed"}]
  /\ spc \in {"list", "next", "publish", "commit", "activate", "answer"}
  /\ todo \subseteq Plans /\ splan \in Plans \cup {NoPlan}
  /\ verdict \in {"none", "published", "failed"}
  /\ releases \subseteq Plans /\ hot \subseteq Artifacts
  /\ current \in Plans \cup {NoPlan} /\ previous \in Plans \cup {NoPlan}
  /\ count \in 0 .. MaxEvents
  /\ rolled \in BOOLEAN /\ strayed \in BOOLEAN

\* The daemon and the signer have always kept step, and nobody rolled back.
InStep == ~strayed /\ ~rolled

\* While the newest row says published and no newer plan is on its way, the
\* release of that row is the one clients are served.  Holds through crashes,
\* late answers and failures as long as no plan or answer strayed; a rollback
\* is meant to break it.
PublishedIsCurrent ==
  InStep /\ latest.st = "published" /\ dpc # "insert" => current = latest.plan

\* The last published row is one the signer still keeps.  A switch whose
\* answer is lost is a row that failed: after two of them, or after a rollback
\* and one, the signer has pruned the release the daemon goes by.
InTouch == lastPub \in {NoPlan, current, previous}

\* write_plan leaves out the files of the last published row, trusting that
\* the signer still has them.  While the two keep step and in touch it does,
\* also after rollbacks, crashes and failed plans, so no plan fails for want
\* of a file.
NeverStarved ==
  ~strayed /\ InTouch /\ spc = "publish" =>
    splan \in releases \/ Publishable(splan)

\* Whatever crashes, late answers and failures happen, a pending row is
\* resolved and the loop is free to issue the next plan.
PendingResolves == latest.st = "pending" ~> latest.st # "pending"

\* What is desired is served; nothing is published before there is a package.
AsDesired == current = desired \/ (latest.st = "none" /\ Files(desired) = {})

\* While the two keep step and in touch the served release becomes the desired
\* one and stays it, whatever crashed, failed or came late before.
Converges == [](InStep /\ InTouch) => <>[]AsDesired

\* The signer's steps, and a rollback's, implement the repository: a served
\* release and its fallback are stored ones, and neither is ever pruned.
R == INSTANCE Repository WITH
       Releases <- Plans, kept <- releases, served <- current, fallback <- previous

ImplementsRepository == R!Spec

\* refactor-requirements.md:9: publishing only hands the desired state to the
\* signer to converge to; publish.rs:5: a retry is the next round.  So once
\* the desired state stops changing it is what clients are served.
EventuallyServed == <>[]AsDesired
=============================================================================
