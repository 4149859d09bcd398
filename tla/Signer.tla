-------------------------------- MODULE Signer --------------------------------
(***************************************************************************)
(* The files and links of the repository, below the releases of module     *)
(* Publication (crates/aursmithd/src/signer.rs).  The signer turns a plan  *)
(* into a release rename by rename, switches clients to it link by link    *)
(* and prunes what is no longer needed entry by entry; `signer --rollback` *)
(* is a second process that switches back, without a lock.  Either may die *)
(* between any two of these.  A package file has a name that all builds of *)
(* the same version share, and its signature is a file of its own.  The    *)
(* daemon supplies plans one after another and clears inbox and outbox     *)
(* while the signer may be looking (crates/aursmithd/src/publish.rs).      *)
(***************************************************************************)
EXTENDS Integers, Sequences, FiniteSets

CONSTANTS
  Plans,      \* plans, numbered from 1
  Packages,   \* names of built package files, in the order of a plan
  Key,        \* name of the keyring package, which comes last
  Content,    \* the bytes of each package file a plan lists
  KeyBytes,   \* the keyring package, which depends on the signing key alone
  Size,       \* the size of each kind of bytes
  NoBytes,    \* no file
  Events,     \* what may happen around the signer
  MaxEvents   \* bound: how many of these happen

Files == Packages \cup {Key}
Bytes == DOMAIN Size

ASSUME SignerAssumption ==
  /\ Plans \subseteq Nat \ {0}
  /\ Files \subseteq Nat /\ IsFiniteSet(Files)
  /\ \A f \in Packages : f < Key
  /\ NoBytes \notin Bytes /\ KeyBytes \in Bytes
  /\ \A p \in Plans : /\ DOMAIN Content[p] \subseteq Packages
                      /\ \A f \in DOMAIN Content[p] : Content[p][f] \in Bytes
  /\ Events \subseteq {"change", "crash", "failure", "timeout", "rollback"}
  /\ MaxEvents \in Nat

\* A package file is called after the name, version and architecture in its
\* .PKGINFO and after its compression: bytes have one name.
ASSUME NameAssumption ==
  \A p, r \in Plans : \A f \in DOMAIN Content[p], g \in DOMAIN Content[r] :
    Content[p][f] = Content[r][g] => f = g

VARIABLES
  desired, plan, sent,  \* the daemon: desired plan, plan in inbox/ and its files
  lastPub, settled,     \* its newest published plan; the same if no row is newer
  dpc,                  \* and what it has left to remove for a resolved row
  outbox,               \* the result of each plan in outbox/, or "none"
  hot, sig,             \* x86_64/<file>, and the bytes x86_64/<file>.sig signs
  dirs,                 \* state of releases/<plan>/
  links,                \* what each link leads to, or 0
  pc,                   \* both processes: next step
  act,                  \* and the activation they are in: the release, the one
                        \* current before, the position in LinkOrder
  work, todo,           \* the signer: its plan, the files still to rename,
  fresh, keep,          \* whether the release is new, what prune found linked
  verdict,              \* and its result
  count,                \* events so far
  damaged,              \* history: releases with a file another plan overwrote
  raced                 \* history: a rollback ever overlapped with the signer

daemonVars == <<desired, plan, sent, lastPub, settled, dpc>>
fileVars   == <<hot, sig, dirs, damaged>>
signerVars == <<work, todo, fresh, keep, verdict>>
vars == <<daemonVars, outbox, fileVars, links, pc, act, signerVars, count, raced>>

NoPlan == 0
Procs == {"signer", "operator"}
LinkOrder == <<"dbsig", "filessig", "files", "db", "previous", "current">>
LinkNames == {"dbsig", "filessig", "files", "db", "previous", "current"}
Idle == [release |-> NoPlan, old |-> NoPlan, at |-> 1]

Init ==
  /\ desired \in Plans
  /\ plan = NoPlan /\ sent = {} /\ lastPub = NoPlan /\ settled = NoPlan
  /\ dpc = "idle"
  /\ outbox = [p \in Plans |-> "none"]
  /\ hot = [f \in Files |-> NoBytes] /\ sig = [f \in Files |-> NoBytes]
  /\ dirs = [p \in Plans |-> "none"]
  /\ links = [l \in LinkNames |-> NoPlan]
  /\ pc = [q \in Procs |-> "idle"]
  /\ act = [q \in Procs |-> Idle]
  /\ work = NoPlan /\ todo = {} /\ fresh = FALSE /\ keep = {} /\ verdict = "none"
  /\ count = 0 /\ damaged = {} /\ raced = FALSE

\* The package files of a release of plan p, and the bytes of each: the listed
\* ones, or what build_keyring makes, which depends on the signing key alone.
Listed(p) == DOMAIN Content[p] \cup {Key}
Wanted(p, f) == IF f = Key THEN KeyBytes ELSE Content[p][f]

\* releases/<p>/manifest.json is there.
HasManifest(p) == dirs[p] \in {"whole", "broken"}

\* One more event, of kind e.
Happens(e) == e \in Events /\ count < MaxEvents /\ count' = count + 1

\* Process q goes to step l; overlaps are remembered.
Goto(q, l) ==
  /\ pc' = [pc EXCEPT ![q] = l]
  /\ raced' = (raced \/ \A r \in Procs : pc'[r] # "idle")

\* Process q goes on to step l of activation a.
Activate(q, l, a) == Goto(q, l) /\ act' = [act EXCEPT ![q] = a]

\* Process q is through, the signer with result v.
Finish(q, v) ==
  /\ Activate(q, IF q = "signer" THEN "answer" ELSE "idle", Idle)
  /\ IF q = "signer"
       THEN todo' = {} /\ fresh' = FALSE /\ keep' = {} /\ verdict' = v /\ UNCHANGED work
       ELSE UNCHANGED signerVars

-----------------------------------------------------------------------------
(* The daemon supplies one plan at a time (publish.rs). *)

\* Mutant: by file name.
SuppliedByName(p) ==
  {f \in DOMAIN Content[p] : lastPub # NoPlan => f \notin DOMAIN Content[lastPub]}

\* write_plan: the files whose digests the last published plan lacks.
Supplied(p) ==
  {f \in DOMAIN Content[p] :
     lastPub # NoPlan =>
       \A g \in DOMAIN Content[lastPub] : Content[lastPub][g] # Content[p][f]}

Issue ==
  /\ dpc = "idle" /\ plan = NoPlan
  /\ desired # settled
  /\ plan' = desired
  /\ sent' = Supplied(desired)
  /\ UNCHANGED <<desired, lastPub, settled, dpc, outbox, fileVars, links, pc, act,
                 signerVars, count, raced>>

\* UPDATE: the row of the plan is resolved.
Resolve(published) ==
  /\ dpc = "idle" /\ plan # NoPlan
  /\ lastPub' = IF published THEN plan ELSE lastPub
  /\ settled' = IF published THEN plan ELSE NoPlan
  /\ dpc' = "outbox"
  /\ UNCHANGED <<desired, plan, sent, outbox, fileVars, links, pc, act, signerVars,
                 raced>>

Collect ==
  /\ plan # NoPlan /\ outbox[plan] # "none"
  /\ Resolve(outbox[plan] = "published")
  /\ UNCHANGED count

\* SIGNER_TIMEOUT_MINUTES pass without an outbox, whatever the signer is doing.
GiveUp ==
  /\ plan # NoPlan /\ outbox[plan] = "none"
  /\ Happens("timeout")
  /\ Resolve(FALSE)

\* The answer is removed ...
RemoveOutbox ==
  /\ dpc = "outbox"
  /\ outbox' = [outbox EXCEPT ![plan] = "none"]
  /\ dpc' = "inbox"
  /\ UNCHANGED <<desired, plan, sent, lastPub, settled, fileVars, links, pc, act,
                 signerVars, count, raced>>

\* ... and after it the plan.
RemoveInbox ==
  /\ dpc = "inbox"
  /\ plan' = NoPlan /\ sent' = {}
  /\ dpc' = "idle"
  /\ UNCHANGED <<desired, lastPub, settled, outbox, fileVars, links, pc, act,
                 signerVars, count, raced>>

\* Another repository state is desired.
Change ==
  /\ Happens("change")
  /\ desired' \in Plans \ {desired}
  /\ UNCHANGED <<plan, sent, lastPub, settled, dpc, outbox, fileVars, links, pc,
                 act, signerVars, raced>>

-----------------------------------------------------------------------------
(* publish: from a plan to a release. *)

\* Mutant: a file of the right size will do.
ReusableBySize(p, f) ==
  hot[f] # NoBytes /\ sig[f] # NoBytes /\ Size[hot[f]] = Size[Wanted(p, f)]

\* find_keyring: a keyring of the signing key is there, with a signature.
KeyringThere == hot[Key] = KeyBytes /\ sig[Key] # NoBytes

\* The repository already has file f of plan p.
Reusable(p, f) ==
  IF f = Key THEN KeyringThere ELSE hot[f] = Wanted(p, f) /\ sig[f] # NoBytes

\* verify: f.sig is a signature of the bytes in f.
SignatureFits(f) == sig[f] = hot[f]

\* The files of plan p that are neither there, nor in the inbox, nor made by
\* build_keyring.
Missing(p) == {f \in Listed(p) \ (sent \cup {Key}) : ~Reusable(p, f)}

\* A reusable file whose signature does not verify stops publish.
Unverified(p) == {f \in Listed(p) : Reusable(p, f) /\ ~SignatureFits(f)}

\* process_inbox: list the inbox ...
List ==
  /\ pc["signer"] = "idle"
  /\ plan # NoPlan
  /\ work' = plan
  /\ Goto("signer", "listed")
  /\ UNCHANGED <<daemonVars, outbox, fileVars, links, act, todo, fresh, keep,
                 verdict, count>>

\* ... pass over a plan that has its answer ...
Skip ==
  /\ pc["signer"] = "listed" /\ outbox[work] # "none"
  /\ work' = NoPlan
  /\ Goto("signer", "idle")
  /\ UNCHANGED <<daemonVars, outbox, fileVars, links, act, todo, fresh, keep,
                 verdict, count>>

\* ... and publish one that has none.
TakesUp == pc["signer"] = "listed" /\ outbox[work] = "none"

\* read_plan: the plan was removed from the inbox in the meantime.
PlanGone ==
  /\ TakesUp
  /\ plan # work
  /\ Finish("signer", "failed")
  /\ UNCHANGED <<daemonVars, outbox, fileVars, links, count>>

\* publish of a release that was committed before.
Recommit ==
  /\ TakesUp
  /\ plan = work /\ HasManifest(work)
  /\ Activate("signer", "verify", [Idle EXCEPT !.release = work])
  /\ UNCHANGED <<daemonVars, outbox, fileVars, links, signerVars, count>>

\* publish of a new release up to the signed manifest: everything is made in
\* a staging directory, which the next attempt of the plan removes.
Stage ==
  /\ TakesUp
  /\ plan = work /\ ~HasManifest(work)
  /\ IF Missing(work) = {} /\ Unverified(work) = {}
       THEN /\ Activate("signer", "move", [Idle EXCEPT !.release = work])
            /\ todo' = {f \in Listed(work) : ~Reusable(work, f)}
            /\ fresh' = TRUE
            /\ UNCHANGED <<work, keep, verdict>>
       ELSE Finish("signer", "failed")
  /\ UNCHANGED <<daemonVars, outbox, fileVars, links, count>>

\* The releases that list file f with other bytes than plan p.
Overwritten(p, f) ==
  {r \in Plans : HasManifest(r) /\ f \in Listed(r) /\ Wanted(r, f) # Wanted(p, f)}

First == CHOOSE f \in todo : \A g \in todo : f <= g

\* publish: rename a package file into the repository, over any older one ...
Move ==
  /\ pc["signer"] = "move"
  /\ todo # {}
  /\ hot' = [hot EXCEPT ![First] = Wanted(work, First)]
  /\ damaged' = damaged \cup Overwritten(work, First)
  /\ Goto("signer", "movesig")
  /\ UNCHANGED <<daemonVars, outbox, sig, dirs, links, act, signerVars, count>>

\* ... and its signature after it.
MoveSig ==
  /\ pc["signer"] = "movesig"
  /\ sig' = [sig EXCEPT ![First] = hot[First]]
  /\ todo' = todo \ {First}
  /\ Goto("signer", "move")
  /\ UNCHANGED <<daemonVars, outbox, hot, dirs, damaged, links, act, work, fresh,
                 keep, verdict, count>>

\* publish: rename the staging directory.  What prune left of a directory is
\* in the way unless it is empty.
Commit ==
  /\ pc["signer"] = "move"
  /\ todo = {}
  /\ \/ /\ dirs[work] \in {"none", "husk"}
        /\ dirs' = [dirs EXCEPT ![work] = "whole"]
        /\ damaged' = damaged \ {work}
        /\ Goto("signer", "verify")
        /\ UNCHANGED <<act, signerVars>>
     \/ /\ dirs[work] # "none"
        /\ Finish("signer", "failed")
        /\ UNCHANGED <<dirs, damaged>>
  /\ UNCHANGED <<daemonVars, outbox, hot, sig, links, count>>

-----------------------------------------------------------------------------
(* activate, in both processes: check a release, then move the links. *)

\* The manifest and the databases are intact, and the package files have the
\* listed sizes and good signatures.  Their digests are not compared.
Verifies(p) ==
  /\ dirs[p] = "whole"
  /\ \A f \in Listed(p) :
       /\ hot[f] # NoBytes
       /\ Size[hot[f]] = Size[Wanted(p, f)]
       /\ SignatureFits(f)

\* The link current, or else the release the database link leads to.
CurrentRelease ==
  IF links["current"] # NoPlan THEN links["current"] ELSE links["db"]

Verify(q) ==
  /\ pc[q] = "verify"
  /\ IF Verifies(act[q].release)
       THEN /\ Activate(q, "link", [act[q] EXCEPT !.old = CurrentRelease])
            /\ UNCHANGED signerVars
       ELSE Finish(q, "failed")
  /\ UNCHANGED <<daemonVars, outbox, fileVars, links, count>>

\* Mutant: previous stays where it is.
NewLinkForgets(a) ==
  IF LinkOrder[a.at] # "previous" THEN a.release ELSE links["previous"]

\* What the link at position a.at will lead to: the new release, but previous
\* to the former one unless the two are the same.
NewLink(a) ==
  IF LinkOrder[a.at] # "previous" THEN a.release
  ELSE IF a.old \in {NoPlan, a.release} THEN links["previous"]
  ELSE a.old

\* Mutant: one link too many.
MoveLinkBeyond(q) ==
  /\ pc[q] = "link"
  /\ links' = [links EXCEPT ![LinkOrder[act[q].at]] = NewLink(act[q])]
  /\ IF act[q].at <= Len(LinkOrder)
       THEN Activate(q, "link", [act[q] EXCEPT !.at = @ + 1]) /\ UNCHANGED signerVars
       ELSE Finish(q, "published")
  /\ UNCHANGED <<daemonVars, outbox, fileVars, count>>

\* activate: atomic_link, one link after the other.
MoveLink(q) ==
  /\ pc[q] = "link"
  /\ links' = [links EXCEPT ![LinkOrder[act[q].at]] = NewLink(act[q])]
  /\ IF act[q].at < Len(LinkOrder)
       THEN Activate(q, "link", [act[q] EXCEPT !.at = @ + 1]) /\ UNCHANGED signerVars
     ELSE IF q = "signer" /\ fresh
       THEN Activate(q, "prune", Idle) /\ UNCHANGED signerVars
     ELSE Finish(q, "published")
  /\ UNCHANGED <<daemonVars, outbox, fileVars, count>>

-----------------------------------------------------------------------------
(* prune: what is not current or previous goes, entry by entry.  Its errors *)
(* are logged and nothing else.                                             *)

\* Mutant: only current is kept.
LinkedCurrent == {links["current"]} \ {NoPlan}

\* The releases that current and previous lead to.
Linked == {links["current"], links["previous"]} \ {NoPlan}

\* prune: read the links and the manifests they lead to.
BeginPrune ==
  /\ pc["signer"] = "prune"
  /\ IF \A r \in Linked : HasManifest(r)
       THEN /\ keep' = Linked
            /\ Goto("signer", "sweep")
            /\ UNCHANGED <<act, work, todo, fresh, verdict>>
       ELSE Finish("signer", "published")
  /\ UNCHANGED <<daemonVars, outbox, fileVars, links, count>>

Unneeded == {r \in Plans \ keep : dirs[r] # "none"}
Garbage == {f \in Files \ UNION {Listed(r) : r \in keep} :
              hot[f] # NoBytes \/ sig[f] # NoBytes}

\* remove_dir_all takes a directory's files away in any order.
RemoveDir ==
  /\ pc["signer"] = "sweep"
  /\ \E r \in Unneeded :
       \/ /\ dirs[r] = "whole"
          /\ \E part \in {"broken", "husk"} : dirs' = [dirs EXCEPT ![r] = part]
          /\ UNCHANGED damaged
       \/ /\ dirs[r] # "whole"
          /\ dirs' = [dirs EXCEPT ![r] = "none"]
          /\ damaged' = damaged \ {r}
  /\ UNCHANGED <<daemonVars, outbox, hot, sig, links, pc, act, signerVars, count,
                 raced>>

\* A package and its signature are two entries.
RemoveFile ==
  /\ pc["signer"] = "sweep"
  /\ Unneeded = {}
  /\ \E f \in Garbage :
       \/ hot[f] # NoBytes /\ hot' = [hot EXCEPT ![f] = NoBytes] /\ UNCHANGED sig
       \/ sig[f] # NoBytes /\ sig' = [sig EXCEPT ![f] = NoBytes] /\ UNCHANGED hot
  /\ UNCHANGED <<daemonVars, outbox, dirs, damaged, links, pc, act, signerVars,
                 count, raced>>

EndPrune ==
  /\ pc["signer"] = "sweep"
  /\ Unneeded = {} /\ Garbage = {}
  /\ Finish("signer", "published")
  /\ UNCHANGED <<daemonVars, outbox, fileVars, links, count>>

\* process_inbox: write the result.
Answer ==
  /\ pc["signer"] = "answer"
  /\ outbox' = [outbox EXCEPT ![work] = verdict]
  /\ work' = NoPlan /\ verdict' = "none"
  /\ Goto("signer", "idle")
  /\ UNCHANGED <<daemonVars, fileVars, links, act, todo, fresh, keep, count>>

-----------------------------------------------------------------------------
(* The surroundings. *)

\* aursmithd signer --rollback begins, whatever the signer is doing.
Rollback ==
  /\ pc["operator"] = "idle"
  /\ links["previous"] # NoPlan
  /\ Happens("rollback")
  /\ Activate("operator", "verify", [Idle EXCEPT !.release = links["previous"]])
  /\ UNCHANGED <<daemonVars, outbox, fileVars, links, signerVars>>

\* gpg, repo-add or the file system fail a step of process q.
StepFails(q) ==
  /\ pc[q] \in {"listed", "move", "movesig", "verify", "link", "prune", "sweep"}
  /\ pc[q] = "listed" => TakesUp
  /\ Happens("failure")
  /\ Finish(q, IF pc[q] \in {"prune", "sweep"} THEN "published" ELSE "failed")
  /\ UNCHANGED <<daemonVars, outbox, fileVars, links>>

\* Process q dies; the signer is started again.
Crash(q) ==
  /\ pc[q] # "idle"
  /\ Happens("crash")
  /\ Activate(q, "idle", Idle)
  /\ IF q = "signer"
       THEN /\ work' = NoPlan /\ todo' = {} /\ fresh' = FALSE /\ keep' = {}
            /\ verdict' = "none"
       ELSE UNCHANGED signerVars
  /\ UNCHANGED <<daemonVars, outbox, fileVars, links>>

DaemonStep == Issue \/ Collect \/ RemoveOutbox \/ RemoveInbox
SignerStep ==
  \/ List \/ Skip \/ PlanGone
  \/ Recommit \/ Stage \/ Move \/ MoveSig \/ Commit
  \/ Verify("signer") \/ MoveLink("signer")
  \/ BeginPrune \/ RemoveDir \/ RemoveFile \/ EndPrune
  \/ Answer
OperatorStep == Verify("operator") \/ MoveLink("operator")

Next ==
  \/ DaemonStep \/ GiveUp \/ Change
  \/ SignerStep
  \/ OperatorStep \/ Rollback
  \/ \E q \in Procs : StepFails(q) \/ Crash(q)

\* Both loops run for ever, and nobody stops a rollback.
Fairness == WF_vars(DaemonStep) /\ WF_vars(SignerStep) /\ WF_vars(OperatorStep)

Spec == Init /\ [][Next]_vars /\ Fairness

-----------------------------------------------------------------------------
(* Properties. *)

TypeOK ==
  /\ desired \in Plans
  /\ {plan, work, lastPub, settled} \subseteq Plans \cup {NoPlan}
  /\ sent \subseteq Packages /\ dpc \in {"idle", "outbox", "inbox"}
  /\ outbox \in [Plans -> {"none", "published", "failed"}]
  /\ verdict \in {"none", "published", "failed"}
  /\ hot \in [Files -> Bytes \cup {NoBytes}]
  /\ sig \in [Files -> Bytes \cup {NoBytes}]
  /\ dirs \in [Plans -> {"none", "whole", "broken", "husk"}]
  /\ links \in [LinkNames -> Plans \cup {NoPlan}]
  /\ pc \in [Procs -> {"idle", "listed", "move", "movesig", "verify", "link", "prune",
                       "sweep", "answer"}]
  /\ act \in [Procs -> [release : Plans \cup {NoPlan}, old : Plans \cup {NoPlan},
                        at : 1 .. Len(LinkOrder)]]
  /\ todo \subseteq Files /\ fresh \in BOOLEAN /\ keep \subseteq Plans
  /\ damaged \subseteq Plans /\ raced \in BOOLEAN
  /\ count \in 0 .. MaxEvents

\* Every file of the release of plan p is there, as listed and with its
\* signature, and so are its databases.
Whole(p) ==
  /\ dirs[p] = "whole"
  /\ \A f \in Listed(p) : hot[f] = Wanted(p, f) /\ sig[f] = Wanted(p, f)

\* What clients are served and what a rollback would return to is whole at
\* every moment: through half-done publications, switches and prunes, crashes
\* and failures at any of their steps, and rollbacks.  Except that a rebuild
\* with the same file name overwrites the file in place, and that a rollback
\* may overlap with the signer.
ServedWhole ==
  ~raced => \A l \in LinkNames : links[l] \notin damaged \cup {NoPlan} => Whole(links[l])

\* write_plan leaves out what the last published plan has.  As long as that
\* is linked and nothing overwrote it, the signer never misses a file.
NeverStarved ==
  /\ ~raced
  /\ lastPub \in {NoPlan, links["current"], links["previous"]}
  /\ lastPub \notin damaged
  /\ TakesUp /\ plan = work
  => HasManifest(work) \/ Missing(work) = {}

\* The signer's files and links implement the releases of module Repository
\* step by step, as long as no rollback overlapped with the signer.
R == INSTANCE Repository WITH
       Releases <- Plans,
       kept <- {p \in Plans : dirs[p] = "whole"},
       served <- links["current"],
       fallback <- links["previous"]

ImplementsRepository == R!Init /\ [][~raced' => R!Next]_<<dirs, links>>

\* Two ways of stopping that nothing repairs.  A package was renamed over an
\* older one and its signature was not: every later attempt of the plan finds
\* the package "reusable" and gives up.  Or prune removed a release in part:
\* what is left of its directory is in the way of publishing it again.
Torn == \E f \in Files : sig[f] \notin {NoBytes, hot[f]} /\ hot[f] # NoBytes
HalfRemoved == \E p \in Plans : dirs[p] \in {"broken", "husk"}
CutOff == pc["signer"] \in {"idle", "listed", "answer"} /\ (Torn \/ HalfRemoved)

\* The signer answered a plan that is no longer in the inbox, or is about to: the
\* answer will be taken for that to the next issue of the plan.
Stray == \E p \in Plans \ {plan} : p = work \/ outbox[p] # "none"

\* Once crashes, failures and changes are over the desired release is served,
\* every link leads to it and it is whole, wherever the last attempt stopped;
\* unless somebody rolled back, a file was overwritten, an answer strayed, or
\* one of these two.
Converges ==
  [](/\ pc["operator"] = "idle" /\ damaged = {}
     /\ ~CutOff /\ ~Stray
     /\ lastPub \in {NoPlan} \cup Linked)
    => <>[](/\ \A l \in LinkNames \ {"previous"} : links[l] = desired
            /\ Whole(desired))
=============================================================================
