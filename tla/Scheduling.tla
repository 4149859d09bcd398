------------------------------ MODULE Scheduling ------------------------------
(***************************************************************************)
(* From subscriptions to builds to the published set: the dependency       *)
(* closure (packages.rs, graph.rs), the rows schedule and rebuild insert   *)
(* and cancel, the dependency check of lease (builds.rs), the choice of    *)
(* usable builds for a publication, and the removal of old build files     *)
(* (publish.rs).  The reconcile loop and the request handlers interleave;  *)
(* the closure each works with was read some steps ago.  Attempts, leases  *)
(* and uploads of a row are the subject of module Builds, the way of a     *)
(* plan into the repository that of Publication.                           *)
(***************************************************************************)
EXTENDS Integers, Sequences, FiniteSets

CONSTANTS
  Bases,       \* pkgbases, numbered
  Names,       \* names that packages depend on
  Requires,    \* Requires[b][r]: the names revision r of b depends on
  Own,         \* Own[b]: names of the outputs of b and of what they provide
  AurBase,     \* AurBase[n]: pkgbase of the AUR package called n, or 0
  Official,    \* names the official repositories have or provide
  Providers,   \* Providers[n]: AUR pkgbases that provide n
  SameName,    \* sets of pkgbases that put out a package of the same name
  Subscribed,  \* direct subscriptions to begin with
  Ingested,    \* pkgbases whose first revision is there, and approved, to begin with
  MaxClosure,  \* MAXIMUM_CLOSURE
  KeptPlans,   \* how many newest publications collect_garbage spares: 3
  Requests,    \* HTTP request handlers that may be in flight at once
  Loop,        \* the reconcile loop
  Events,      \* what may happen from outside
  MaxEvents    \* bound: how many of these happen

Procs == Requests \cup {Loop}
Revisions(b) == DOMAIN Requires[b]

ASSUME SchedulingAssumption ==
  /\ Cardinality(Bases) \in Nat /\ Bases = 1 .. Cardinality(Bases)
  /\ \A b \in Bases : /\ Requires[b] \in Seq(SUBSET Names) /\ Requires[b] # <<>>
                      /\ Own[b] \subseteq Names
  /\ \A n \in Names : AurBase[n] \in Bases \cup {0} /\ Providers[n] \subseteq Bases
  /\ Official \subseteq Names
  /\ SameName \subseteq SUBSET Bases
  /\ Subscribed \subseteq Bases /\ Ingested \subseteq Bases
  /\ IsFiniteSet(Requests) /\ Loop \notin Requests
  /\ Events \subseteq {"subscribe", "unsubscribe", "select", "ingest", "reject",
                       "rebuild", "fail", "crash"}
  /\ {MaxClosure, KeptPlans, MaxEvents} \subseteq Nat

VARIABLES
  subs,      \* subscriptions
  choice,    \* provider_choices: for each pkgbase and name a provider, or 0
  known,     \* newest revision of each pkgbase, or 0
  approved,  \* newest approved one, or 0
  reviewing, \* pkgbases whose newest revision is in review
  rows,      \* builds, in the order of created_at
  finished,  \* ids of rows that succeeded, in the order of finished_at
  plans,     \* the newest KeptPlans publications: the rows whose files they list,
             \* None for files that are no row's any more
  failing,   \* rows fail_build is about to update: what was read of them is old
  pc,        \* next step of each process
  view,      \* the closure each process has read
  left,      \* what it has still to go through: pkgbases or ids
  cur,       \* what it is about to write
  keep,      \* the loop: builds collect_garbage will spare
  happened,  \* how many events there have been
  moved,     \* history: what `keep` was derived from changed since
  revived    \* history: rows that were at rest when fail_build got to them

packageVars == <<subs, choice, known, approved, reviewing>>
procVars == <<pc, view, left, cur>>
failVars == <<failing, revived>>
vars == <<packageVars, rows, finished, plans, procVars, keep, happened, moved, failVars>>

None == 0
NoClosure == [queue |-> <<>>, members |-> {}, edges |-> {}, unresolved |-> {}]
NoTask == [id |-> None, base |-> None, rev |-> None, deps |-> {}]
Ids == 1 .. Len(rows)

Init ==
  /\ subs = Subscribed
  /\ choice = [b \in Bases |-> [n \in Names |-> None]]
  /\ known = [b \in Bases |-> IF b \in Ingested THEN 1 ELSE None]
  /\ approved = known /\ reviewing = {}
  /\ rows = <<>> /\ finished = <<>> /\ plans = <<>>
  /\ pc = [p \in Procs |-> IF p = Loop THEN "read" ELSE "idle"]
  /\ view = [p \in Procs |-> NoClosure]
  /\ left = [p \in Procs |-> {}]
  /\ cur = [p \in Procs |-> NoTask]
  /\ keep = {} /\ failing = {} /\ revived = {}
  /\ happened = 0 /\ moved = FALSE

\* One more event, of kind e.
Happens(e) ==
  /\ e \in Events /\ happened < MaxEvents
  /\ happened' = happened + 1

\* Something collect_garbage goes by changes, perhaps during its pass.
Disturb == moved' = (moved \/ pc[Loop] = "gc")

Least(S) == CHOOSE x \in S : \A y \in S : x <= y

-----------------------------------------------------------------------------
(* Pure parts: the dependency graph, and which build of a pkgbase is used. *)

\* dependency_revision: the newest approved one, or else the one in review, or None.
DependencyRevision(b) ==
  IF approved[b] # None THEN approved[b] ELSE IF b \in reviewing THEN known[b] ELSE None

\* resolve_dependencies: the pkgbases that may serve name n.  A single one is
\* the target, of several one has to be selected; without any the name is
\* official or unknown and nobody's concern.
Candidates ==
  [n \in Names |-> IF AurBase[n] # None THEN {AurBase[n]}
                   ELSE IF n \in Official THEN {} ELSE Providers[n]]

\* The names revision r of b depends on that are not its own: none that are
\* known of before the first revision.
Foreign(b, r) == IF r = None THEN {} ELSE Requires[b][r] \ Own[b]

Selectable(n) == Cardinality(Candidates[n]) > 1

\* compute_closure: the pkgbases revision r of b depends on.
Needed(b, r) ==
  LET names == Foreign(b, r)
  IN  ((UNION {Candidates[n] : n \in {m \in names : ~Selectable(m)}})
         \cup {choice[b][n] : n \in {m \in names : Selectable(m)}}) \ {b, None}

\* compute_closure: no provider is chosen for a dependency of revision r of b.
Unresolved(b, r) == \E n \in Foreign(b, r) : Selectable(n) /\ choice[b][n] = None

\* Mutant: one member too early.
FullEarly(members) == Cardinality(members) + 1 >= MaxClosure

\* The next member is one too many.
Full(members) == Cardinality(members) >= MaxClosure

\* Sets of pkgbases are ordered (BTreeSet).
InOrder(S) ==
  CHOOSE s \in [1 .. Cardinality(S) -> S] : \A j, k \in DOMAIN s : j < k => s[j] < s[k]

\* How far a search has got.
Searches == [queue : Seq(Bases), members : SUBSET Bases, edges : SUBSET (Bases \X Bases),
             unresolved : SUBSET Bases]

\* compute_closure: the pkgbase at the head of the queue.  The member that
\* exceeds the limit is the last, and its dependencies are not looked at.  Others
\* queue theirs, here once each and in the order of pkgbases.
Advance(s) ==
  LET b == Head(s.queue)
      targets == Needed(b, DependencyRevision(b))
      fresh == targets \ (s.members \cup {b})
  IN  IF b \in s.members THEN [s EXCEPT !.queue = Tail(@)]
      ELSE IF Full(s.members) THEN [s EXCEPT !.queue = <<>>, !.members = @ \cup {b}]
      ELSE [queue |-> Tail(s.queue) \o InOrder(fresh),
            members |-> s.members \cup {b},
            edges |-> s.edges \cup ({b} \X targets),
            unresolved |-> IF Unresolved(b, DependencyRevision(b))
                             THEN s.unresolved \cup {b} ELSE s.unresolved]

\* compute_closure: until the queue is empty.
search[s \in Searches] == IF s.queue = <<>> THEN s ELSE search[Advance(s)]

\* compute_closure: breadth first from the subscriptions.
Closure ==
  search[[queue |-> InOrder(subs), members |-> {}, edges |-> {}, unresolved |-> {}]]

\* DependencyGraph::closure: S and what it depends on, directly or not.
Reached(edges, S) ==
  LET reach[T \in SUBSET Bases] ==
        LET more == T \cup {e[2] : e \in {f \in edges : f[1] \in T}}
        IN  IF more = T THEN T ELSE reach[more]
  IN  reach[S]

\* The AUR dependencies of b, direct and indirect, in closure v.
AllDeps(v, b) == Reached(v.edges, {b}) \ {b}

\* usable_build: the newest build of the newest approved revision that has its
\* files, or else the newest of any revision; None if there is none.
Usable(b) ==
  LET have == {i \in Ids : /\ rows[i].base = b /\ rows[i].st = "succeeded"
                           /\ rows[i].files}
      newest == {i \in have : rows[i].rev = approved[b]}
      pool == IF newest # {} THEN newest ELSE have
      when == {k \in 1 .. Len(finished) : finished[k] \in pool}
  IN  IF pool = {} THEN None
      ELSE finished[CHOOSE k \in when : \A j \in when : j <= k]

\* Mutant: a package waits for a build of its own.
ReadyItself(v, b) == b \notin v.unresolved /\ \A d \in AllDeps(v, b) \cup {b} : Usable(d) # None

\* dependency_builds: all providers are chosen and all dependencies built.
Ready(v, b) ==
  b \notin v.unresolved /\ \A d \in AllDeps(v, b) : Usable(d) # None

Live == {"queued", "running", "building"}
LiveRows(b) == {i \in Ids : rows[i].base = b /\ rows[i].st \in Live}

-----------------------------------------------------------------------------
(* The reconcile loop: closure, cancel, insert, publish; sometimes garbage. *)

\* Process p goes to step l with closure v, list s and task t.
Goto(p, l, v, s, t) ==
  /\ pc' = [pc EXCEPT ![p] = l]
  /\ view' = [view EXCEPT ![p] = v]
  /\ left' = [left EXCEPT ![p] = s]
  /\ cur' = [cur EXCEPT ![p] = t]

\* Process p has nothing in hand any more.
Rest(p, l) == Goto(p, l, NoClosure, {}, NoTask)

ReadClosure ==
  /\ pc[Loop] \in {"read", "rest"}
  /\ Goto(Loop, "cancel", Closure, {}, NoTask)
  /\ UNCHANGED <<packageVars, rows, finished, plans, keep, happened, moved, failVars>>

\* Mutant: rows that are not queued are cancelled too.
ObsoleteAny(i, v) == rows[i].base \notin v.members \/ rows[i].rev # approved[rows[i].base]

\* A queued row outside closure v, or of an older revision.
Obsolete(i, v) ==
  /\ rows[i].st = "queued"
  /\ rows[i].base \notin v.members \/ rows[i].rev # approved[rows[i].base]

\* schedule: queued rows fail as NOT_REQUIRED or SUPERSEDED.
Cancel ==
  /\ pc[Loop] = "cancel"
  /\ rows' = [i \in Ids |-> IF Obsolete(i, view[Loop])
                              THEN [rows[i] EXCEPT !.st = "failed"] ELSE rows[i]]
  /\ Goto(Loop, "schedule", view[Loop], view[Loop].members, NoTask)
  /\ UNCHANGED <<packageVars, finished, plans, keep, happened, moved, failVars>>

\* Mutant: a row of an older revision counts too.
NeverQueuedAtAll(b) == approved[b] # None /\ \A i \in Ids : rows[i].base # b

\* The newest approved revision of b has no row at all.
NeverQueued(b) ==
  /\ approved[b] # None
  /\ \A i \in Ids : ~(rows[i].base = b /\ rows[i].rev = approved[b])

\* schedule: the next member, and whether its newest approved revision has a row
\* (SELECT and COUNT).
CheckMember ==
  /\ pc[Loop] = "schedule"
  /\ left[Loop] # {}
  /\ LET b == Least(left[Loop])
     IN  IF NeverQueued(b)
           THEN Goto(Loop, "insert", view[Loop], left[Loop] \ {b},
                     [NoTask EXCEPT !.base = b, !.rev = approved[b]])
           ELSE Goto(Loop, "schedule", view[Loop], left[Loop] \ {b}, NoTask)
  /\ UNCHANGED <<packageVars, rows, finished, plans, keep, happened, moved, failVars>>

\* insert_build, in schedule or in rebuild.
InsertRow(p) ==
  /\ pc[p] = "insert"
  /\ rows' = Append(rows, [base |-> cur[p].base, rev |-> cur[p].rev, st |-> "queued",
                           deps |-> {}, files |-> FALSE])
  /\ IF p = Loop THEN Goto(p, "schedule", view[p], left[p], NoTask)
                 ELSE Rest(p, "idle")
  /\ UNCHANGED <<packageVars, finished, plans, keep, happened, moved, failVars>>

\* has_active_build: a row is leased, or could be.
Active(v, b) ==
  \E i \in LiveRows(b) : rows[i].st # "queued" \/ Ready(v, b)

\* Mutant: a pkgbase is published even if a dependency is missing.
ChosenAnyway(v) == {Usable(b) : b \in v.members} \ {None}

\* desired_state: the usable builds of the members all of whose dependencies
\* are members with a usable build.
Chosen(v) ==
  {Usable(b) : b \in {m \in v.members : \A d \in AllDeps(v, m) \cup {m} :
                        d \in v.members /\ Usable(d) # None}}

\* reconcile: nothing is published while a build of a member is active.
CheckActive ==
  /\ pc[Loop] = "schedule"
  /\ left[Loop] = {}
  /\ IF \E b \in view[Loop].members : Active(view[Loop], b)
       THEN Rest(Loop, "rest")
       ELSE Goto(Loop, "publish", view[Loop], {}, NoTask)
  /\ UNCHANGED <<packageVars, rows, finished, plans, keep, happened, moved, failVars>>

\* desired_state gives up: two builds of B put out a package of the same name.
Clashing(B) == \E T \in SameName : T \subseteq {rows[i].base : i \in B}

\* reconcile: a new set of builds is published, unless an earlier publication,
\* which module Publication follows, is still pending.
Publish ==
  /\ pc[Loop] = "publish"
  /\ LET B == Chosen(view[Loop])
         last == IF plans = <<>> THEN {} ELSE Head(plans)
     IN  \/ /\ B = last \/ Clashing(B) \/ plans # <<>>
            /\ UNCHANGED plans
         \/ /\ B # last /\ ~Clashing(B)
            /\ plans' = SubSeq(<<B>> \o plans, 1,
                               IF Len(plans) < KeptPlans THEN Len(plans) + 1 ELSE KeptPlans)
  /\ Rest(Loop, "rest")
  /\ UNCHANGED <<packageVars, rows, finished, keep, happened, moved, failVars>>

\* Mutant: the newest publication alone is spared.
SparedPublished == (IF plans = <<>> THEN {} ELSE Head(plans)) \ {None}

\* What collect_garbage spares: usable builds, and published ones.
Spared ==
  ({Usable(b) : b \in Closure.members} \cup UNION {plans[k] : k \in 1 .. Len(plans)})
    \ {None}

\* collect_garbage up to the listing of artifacts/.
BeginGarbage ==
  /\ pc[Loop] = "rest"
  /\ keep' = Spared
  /\ Rest(Loop, "gc")
  /\ UNCHANGED <<packageVars, rows, finished, plans, happened, moved, failVars>>

\* collect_garbage: one directory, whose row is looked at only now.
RemoveFiles(i) ==
  /\ pc[Loop] = "gc"
  /\ rows[i].files
  /\ i \notin keep
  /\ rows[i].st \notin {"running", "building"}
  /\ rows' = [rows EXCEPT ![i].files = FALSE]
  /\ UNCHANGED <<packageVars, finished, plans, procVars, keep, happened, moved, failVars>>

EndGarbage ==
  /\ pc[Loop] = "gc"
  /\ Rest(Loop, "read")
  /\ keep' = {}
  /\ moved' = FALSE
  /\ UNCHANGED <<packageVars, rows, finished, plans, happened, failVars>>

LoopStep ==
  \/ ReadClosure \/ Cancel \/ CheckMember \/ InsertRow(Loop)
  \/ CheckActive \/ Publish \/ EndGarbage

-----------------------------------------------------------------------------
(* Request handlers: builders ask for work, the administrator for a rebuild. *)

\* lease: the closure and the queued rows.
BeginLease(p) ==
  /\ p # Loop /\ pc[p] = "idle"
  /\ \E i \in Ids : rows[i].st = "queued"
  /\ Goto(p, "pick", Closure, {i \in Ids : rows[i].st = "queued"}, NoTask)
  /\ UNCHANGED <<packageVars, rows, finished, plans, keep, happened, moved, failVars>>

\* lease: on to the next row whose dependency_builds are there, if any.
Pick(p) ==
  /\ pc[p] = "pick"
  /\ LET v == view[p]
         able == {i \in left[p] : Ready(v, rows[i].base)}
         i == Least(able)
     IN  IF able = {} THEN Rest(p, "idle")
         ELSE Goto(p, "claim", v, {j \in left[p] : j > i},
                   [NoTask EXCEPT !.id = i,
                                  !.deps = {Usable(d) : d \in AllDeps(v, rows[i].base)}])
  /\ UNCHANGED <<packageVars, rows, finished, plans, keep, happened, moved, failVars>>

\* lease: the guarded UPDATE.
Claim(p) ==
  /\ pc[p] = "claim"
  /\ LET i == cur[p].id
     IN  IF rows[i].st = "queued"
           THEN /\ rows' = [rows EXCEPT ![i].st = "running", ![i].deps = cur[p].deps]
                /\ Rest(p, "idle")
           ELSE /\ Goto(p, "pick", view[p], left[p], NoTask)
                /\ UNCHANGED rows
  /\ UNCHANGED <<packageVars, finished, plans, keep, happened, moved, failVars>>

\* Mutant: rebuild does not look for live rows.
Anytime(b) == TRUE

\* rebuild: the pkgbase has no live row.
Idle(b) == LiveRows(b) = {}

\* rebuild up to its INSERT.
Rebuild(p, b) ==
  /\ p # Loop /\ pc[p] = "idle"
  /\ approved[b] # None
  /\ Idle(b)
  /\ Happens("rebuild")
  /\ Goto(p, "insert", NoClosure, {}, [NoTask EXCEPT !.base = b, !.rev = approved[b]])
  /\ UNCHANGED <<packageVars, rows, finished, plans, keep, moved, failVars>>

HandlerStep(p) == BeginLease(p) \/ Pick(p) \/ Claim(p) \/ (p # Loop /\ InsertRow(p))

-----------------------------------------------------------------------------
(* Builders, reviewers, the administrator. *)

\* The builder of a leased row downloads its dependencies; when files of one are
\* gone it reports the failure.
Fetch(i) ==
  /\ rows[i].st = "running"
  /\ \/ /\ \A d \in rows[i].deps : rows[d].files
        /\ rows' = [rows EXCEPT ![i].st = "building"]
        /\ UNCHANGED failing
     \/ /\ i \notin failing
        /\ \E d \in rows[i].deps : ~rows[d].files
        /\ failing' = failing \cup {i}
        /\ UNCHANGED rows
  /\ UNCHANGED <<packageVars, finished, plans, procVars, keep, happened, moved, revived>>

Succeed(i) ==
  /\ rows[i].st = "building"
  /\ rows' = [rows EXCEPT ![i].st = "succeeded", ![i].files = TRUE]
  /\ finished' = Append(finished, i)
  /\ Disturb
  /\ UNCHANGED <<packageVars, plans, procVars, keep, happened, failVars>>

\* The builder reports a failure or the lease expires: the row is read.
Report(i) ==
  /\ rows[i].st \in {"running", "building"}
  /\ i \notin failing
  /\ Happens("fail")
  /\ failing' = failing \cup {i}
  /\ UNCHANGED <<packageVars, rows, finished, plans, procVars, keep, moved, revived>>

\* fail_build, for good or to be retried.  Its UPDATE names the row by its id
\* alone: whatever became of it in the meantime, it loses its state and files,
\* and publications list files that are no row's any more.
FailBuild(i) ==
  /\ i \in failing
  /\ \E st \in {"queued", "failed"} :
       rows' = [rows EXCEPT ![i].st = st, ![i].files = FALSE]
  /\ failing' = failing \ {i}
  /\ IF rows[i].st = "succeeded"
       THEN /\ plans' = [k \in DOMAIN plans |->
                           {IF j = i THEN None ELSE j : j \in plans[k]}]
            /\ Disturb
       ELSE UNCHANGED <<plans, moved>>
  /\ revived' = IF rows[i].st \in Live THEN revived ELSE revived \cup {i}
  /\ UNCHANGED <<packageVars, finished, procVars, keep, happened>>

\* sync_package finds a revision, the first or a new one; it is in review.
Ingest(b) ==
  /\ known[b] < Len(Requires[b])
  /\ IF known[b] = None THEN UNCHANGED happened ELSE Happens("ingest")
  /\ known' = [known EXCEPT ![b] = @ + 1]
  /\ reviewing' = reviewing \cup {b}
  /\ Disturb
  /\ UNCHANGED <<subs, choice, approved, rows, finished, plans, procVars, keep, failVars>>

\* Its review ends well.
Approve(b) ==
  /\ b \in reviewing
  /\ reviewing' = reviewing \ {b}
  /\ approved' = [approved EXCEPT ![b] = known[b]]
  /\ Disturb
  /\ UNCHANGED <<subs, choice, known, rows, finished, plans, procVars, keep>>
  /\ UNCHANGED <<happened, failVars>>

\* Its review does not end well.
Reject(b) ==
  /\ b \in reviewing
  /\ Happens("reject")
  /\ reviewing' = reviewing \ {b}
  /\ Disturb
  /\ UNCHANGED <<subs, choice, known, approved, rows, finished, plans, procVars, keep>>
  /\ UNCHANGED failVars

Subscribe(b) ==
  /\ b \notin subs
  /\ Happens("subscribe")
  /\ subs' = subs \cup {b}
  /\ Disturb
  /\ UNCHANGED <<choice, known, approved, reviewing, rows, finished, plans, procVars, keep>>
  /\ UNCHANGED failVars

Unsubscribe(b) ==
  /\ b \in subs
  /\ Happens("unsubscribe")
  /\ subs' = subs \ {b}
  /\ Disturb
  /\ UNCHANGED <<choice, known, approved, reviewing, rows, finished, plans, procVars, keep>>
  /\ UNCHANGED failVars

\* select_provider: one of the candidates for a dependency that has several.
SelectProvider(b) ==
  /\ Happens("select")
  /\ \E n \in Foreign(b, DependencyRevision(b)) :
       /\ Selectable(n)
       /\ \E c \in Candidates[n] \ {choice[b][n]} : choice' = [choice EXCEPT ![b][n] = c]
  /\ Disturb
  /\ UNCHANGED <<subs, known, approved, reviewing, rows, finished, plans, procVars, keep>>
  /\ UNCHANGED failVars

\* aursmithd dies and starts again.
Crash ==
  /\ Happens("crash")
  /\ pc' = [p \in Procs |-> IF p = Loop THEN "read" ELSE "idle"]
  /\ view' = [p \in Procs |-> NoClosure]
  /\ left' = [p \in Procs |-> {}]
  /\ cur' = [p \in Procs |-> NoTask]
  /\ keep' = {} /\ failing' = {} /\ moved' = FALSE
  /\ UNCHANGED <<packageVars, rows, finished, plans, revived>>

Next ==
  \/ LoopStep \/ BeginGarbage \/ \E i \in Ids : RemoveFiles(i)
  \/ \E p \in Requests : HandlerStep(p) \/ \E b \in Bases : Rebuild(p, b)
  \/ \E i \in Ids : Fetch(i) \/ Succeed(i) \/ Report(i) \/ FailBuild(i)
  \/ \E b \in Bases : \/ Ingest(b) \/ Approve(b) \/ Reject(b)
                      \/ Subscribe(b) \/ Unsubscribe(b) \/ SelectProvider(b)
  \/ Crash

\* The loop ticks, handlers that have begun run on and builders keep polling,
\* a leased build ends, and its failure gets recorded.  Nothing is assumed of reviews.
Fairness ==
  /\ WF_vars(LoopStep)
  /\ \A p \in Requests : WF_vars(HandlerStep(p))
  /\ WF_vars(\E i \in Ids : Fetch(i) \/ Succeed(i))
  /\ WF_vars(\E i \in Ids : FailBuild(i))

Spec == Init /\ [][Next]_vars /\ Fairness

-----------------------------------------------------------------------------
(* Properties. *)

States == Live \cup {"succeeded", "failed"}

\* The shape of every variable; a row that has files has succeeded.
TypeOK ==
  /\ subs \subseteq Bases /\ reviewing \subseteq Bases
  /\ \A b \in Bases : /\ \A n \in Names : choice[b][n] \in Candidates[n] \cup {None}
                      /\ known[b] \in Revisions(b) \cup {None}
                      /\ approved[b] \in 0 .. known[b]
                      /\ b \in reviewing => approved[b] < known[b]
  /\ \A i \in Ids : /\ rows[i].base \in Bases /\ rows[i].rev \in Revisions(rows[i].base)
                    /\ rows[i].st \in States /\ rows[i].deps \subseteq Ids
                    /\ rows[i].files => rows[i].st = "succeeded"
  /\ \A k \in 1 .. Len(finished) : finished[k] \in Ids
  /\ Len(plans) <= KeptPlans
  /\ \A k \in 1 .. Len(plans) :
       plans[k] \subseteq {i \in Ids : rows[i].st = "succeeded"} \cup {None}
  /\ pc[Loop] \in {"read", "cancel", "schedule", "insert", "publish", "rest", "gc"}
  /\ \A p \in Requests : pc[p] \in {"idle", "pick", "claim", "insert"}
  /\ \A p \in Procs : left[p] \subseteq Bases \cup Ids
  /\ {keep, failing, revived} \subseteq SUBSET Ids
  /\ happened \in 0 .. MaxEvents /\ moved \in BOOLEAN

\* Reference: what the subscriptions need is in every set that has them and,
\* with a pkgbase, what that needs.
Closed(T) == subs \subseteq T /\ \A b \in T : Needed(b, DependencyRevision(b)) \subseteq T

\* Below the limit compute_closure finds exactly what the subscriptions need,
\* cycles and shared dependencies included; at the limit it stops.
ClosureIsReach ==
  LET found == Closure.members
      reach == {b \in Bases : \A T \in SUBSET Bases : Closed(T) => b \in T}
  IN  IF Cardinality(found) <= MaxClosure
        THEN found = reach
        ELSE Cardinality(found) = MaxClosure + 1 /\ found \subseteq reach

\* rebuild looks for a live row and then inserts, as does schedule: requests
\* and the loop may all find none.  But what they pile up of one revision is
\* bounded by their number, however often a rebuild is asked for: nobody adds to
\* rows that are there.  (A row that was at rest and that a late fail_build puts
\* back into the queue is not counted: nobody looked for it.)
ActiveBound ==
  \A b \in Bases : \A r \in Revisions(b) :
    Cardinality({i \in LiveRows(b) \ revived : rows[i].rev = r}) <= Cardinality(Procs)

\* A build is published together with builds of all that its revision needs,
\* provided that revision is the one the closure was made from, that the
\* closure is still the one the loop read, and that it was not cut off.  (The
\* builds of an older revision may need what the closure has no more.)
SelfContained ==
  [][plans' # plans /\ pc[Loop] = "publish" /\ pc'[Loop] = "rest" /\ view[Loop] = Closure
       /\ Cardinality(view[Loop].members) <= MaxClosure =>
     \A i \in Head(plans') :
       LET b == rows[i].base
       IN  rows[i].rev = DependencyRevision(b) =>
             \A d \in Needed(b, rows[i].rev) : \E j \in Head(plans') : rows[j].base = d]_vars

\* collect_garbage decides what to keep before it looks at each directory:
\* unless packages or builds change in between, every member keeps the build
\* it uses, and every spared publication its files.
GarbageOnly ==
  [][pc[Loop] = "gc" /\ ~moved' =>
       /\ \A b \in Closure.members : Usable(b)' = Usable(b)
       /\ \A k \in 1 .. Len(plans) : \A i \in plans[k] \ {None} :
            rows[i].files => rows'[i].files]_vars

\* The newest approved revision of b has a build with its files.
Built(b) == Usable(b) # None /\ rows[Usable(b)].rev = approved[b]

\* The newest approved revision of b has had its row, and is not built again:
\* the build failed, or was not required for a while, or lost its files.
Spent(b) ==
  \E i \in Ids : /\ rows[i].base = b /\ rows[i].rev = approved[b]
               /\ rows[i].st \notin Live /\ ~rows[i].files

\* What keeps d from being built, in closure v: it is not approved, was built
\* in vain, has no provider for a dependency, was cut off, or is in a circle.
Stuck(v, d) ==
  \/ approved[d] = None \/ Spent(d) \/ d \in v.unresolved \/ d \notin v.members
  \/ \E e \in AllDeps(v, d) : d \in AllDeps(v, e)

\* Once the outside is quiet, every member of the closure has a build of its
\* newest approved revision, unless that one or a dependency is stuck.
EventuallyBuilt ==
  <>[](LET v == Closure
       IN  \A b \in v.members :
             Built(b) \/ \E d \in AllDeps(v, b) \cup {b} : Stuck(v, d))

\* builds.rs:122: a build of the newest approved revision is queued for every
\* pkgbase of the closure.  Here without failures, circles or open choices:
\* what was required, and is again, gets built.
ClosureBuilt ==
  <>[](\A b \in Closure.members : approved[b] # None => Built(b))
=============================================================================
