-------------------------- MODULE PublicationProofs --------------------------
(***************************************************************************)
(* Proofs about Publication for any plans and any number of events: types, *)
(* that the signer's steps and a rollback's implement Repository, that no  *)
(* plan fails for want of a file, and that what was published is served.   *)
(***************************************************************************)
EXTENDS Publication, WellFoundedInduction, TLAPS

\* A set of numbers that is not empty has a least one.
LEMMA Minimum ==
  ASSUME NEW S \in SUBSET Nat, S # {}
  PROVE  \E i \in S : \A j \in S : i <= j
<1>1. PICK t \in S : \A y \in S : ~ (<<y, t>> \in OpToRel(<, Nat))
  BY NatLessThanWellFounded, WFMin
<1>2. \A y \in S : ~ (y < t)
  BY <1>1 DEF OpToRel
<1>3. QED
  BY <1>2

-----------------------------------------------------------------------------
(* The inductive invariant: types, what each loop has in hand, and that the *)
(* two links lead to releases that are there.                               *)

DaemonHand ==
  /\ latest.st = "pending" => latest.plan \in Plans
  /\ dpc \in {"unanswer", "unissue", "write", "copy", "insert"} => dplan \in Plans

SignerHand ==
  /\ spc \in {"publish", "commit", "activate", "answer"} => splan \in Plans
  /\ spc = "activate" => splan \in releases
  /\ {current, previous} \subseteq releases \cup {NoPlan}

Inv == TypeOK /\ DaemonHand /\ SignerHand

\* The daemon's variables, and what it and the signer share.
DaemonTypes ==
  /\ desired \in Plans
  /\ latest \in [plan : Plans \cup {NoPlan},
                 st : {"none", "pending", "published", "failed"}]
  /\ lastPub \in Plans \cup {NoPlan}
  /\ overdue \in BOOLEAN /\ backoff \in BOOLEAN
  /\ dpc \in {"collect", "unanswer", "unissue", "decide", "write", "copy", "insert"}
  /\ dplan \in Plans \cup {NoPlan}
  /\ issued \subseteq Plans /\ sent \in [Plans -> SUBSET Artifacts]

SignerTypes ==
  /\ spc \in {"list", "next", "publish", "commit", "activate", "answer"}
  /\ todo \subseteq Plans /\ splan \in Plans \cup {NoPlan}
  /\ verdict \in {"none", "published", "failed"}
  /\ releases \subseteq Plans /\ hot \subseteq Artifacts
  /\ current \in Plans \cup {NoPlan} /\ previous \in Plans \cup {NoPlan}

EventTypes == count \in 0 .. MaxEvents /\ rolled \in BOOLEAN /\ strayed \in BOOLEAN

OutboxType == outbox \in [Plans -> {"none", "published", "failed"}]

\* The invariant in its parts.
LEMMA Parts ==
  Inv <=> /\ DaemonTypes /\ SignerTypes /\ EventTypes /\ OutboxType
          /\ DaemonHand /\ SignerHand
BY DEF Inv, TypeOK, DaemonTypes, SignerTypes, EventTypes, OutboxType

\* What a plan brings is a set of artifacts.
LEMMA FilesType ==
  ASSUME NEW p \in Plans \cup {NoPlan}
  PROVE  Files(p) \subseteq Artifacts
BY PublicationAssumption DEF Files

\* An event keeps the counter below its bound.
LEMMA Counted ==
  ASSUME EventTypes, NEW e, Happens(e)
  PROVE  count' \in 0 .. MaxEvents /\ rolled' \in BOOLEAN
<1>1. count' \in 0 .. MaxEvents
  BY PublicationAssumption DEF EventTypes, Happens
<1>2. rolled' \in BOOLEAN
  BY DEF Happens
<1>3. QED
  BY <1>1, <1>2

\* The history variables keep their types.
LEMMA Watched ==
  ASSUME EventTypes, Watch, UNCHANGED eventVars \/ \E e \in Events : Happens(e)
  PROVE  EventTypes'
<1>1. strayed' \in BOOLEAN
  BY DEF Watch
<1>2. count' \in 0 .. MaxEvents /\ rolled' \in BOOLEAN
  BY Counted DEF eventVars, EventTypes
<1>3. QED
  BY <1>1, <1>2 DEF EventTypes

\* A step of the daemon, of outside or of time that keeps the daemon's types.
LEMMA OnDaemonSide ==
  ASSUME Inv, DaemonTypes', DaemonHand', OutboxType', Watch,
         UNCHANGED <<signerVars, repoVars>>,
         UNCHANGED eventVars \/ \E e \in Events : Happens(e)
  PROVE  Inv'
<1>1. EventTypes'
  BY Parts, Watched
<1>2. SignerTypes' /\ SignerHand'
  BY Parts DEF SignerTypes, SignerHand, signerVars, repoVars
<1>3. QED
  BY <1>1, <1>2, Parts, PTL

\* A step of the signer or of the rollback that keeps the signer's types.
LEMMA OnSignerSide ==
  ASSUME Inv, SignerTypes', SignerHand', OutboxType', Watch,
         UNCHANGED <<desired, pubVars, daemonVars, inboxVars>>,
         UNCHANGED eventVars \/ \E e \in Events : Happens(e)
  PROVE  Inv'
<1>1. EventTypes'
  BY Parts, Watched
<1>2. DaemonTypes' /\ DaemonHand'
  BY Parts DEF DaemonTypes, DaemonHand, pubVars, daemonVars, inboxVars
<1>3. QED
  BY <1>1, <1>2, Parts, PTL

-----------------------------------------------------------------------------
(* Steps of the daemon. *)

\* They keep the invariant and leave the repository alone.
LEMMA DaemonKeeps ==
  ASSUME Inv, DaemonStep
  PROVE  Inv' /\ UNCHANGED <<releases, current, previous>>
<1>1. DaemonTypes /\ DaemonHand /\ OutboxType
  BY Parts
<1>2. CASE Collect
  <2>1. CASE Result = "none"
    <3>1. DaemonTypes' /\ DaemonHand' /\ OutboxType'
      BY <1>1, <1>2, <2>1 DEF Collect, Daemon, DaemonTypes, DaemonHand, OutboxType,
                               pubVars, inboxVars
    <3>2. QED
      BY <1>2, <3>1, OnDaemonSide DEF Collect, repoVars
  <2>2. CASE Result # "none"
    <3>1. latest.st = "pending" /\ latest.plan \in Plans
      BY <1>1, <2>2 DEF Result, DaemonHand
    <3>2. Result \in {"published", "failed"}
      BY <1>1, <2>2, <3>1 DEF Result, OutboxType
    <3>3. /\ latest' = [latest EXCEPT !.st = Result]
          /\ lastPub' = IF Result = "published" THEN latest.plan ELSE lastPub
          /\ overdue' = FALSE /\ backoff' = (Result = "failed")
          /\ dpc' = "unanswer" /\ dplan' = latest.plan
          /\ UNCHANGED <<desired, inboxVars, outbox>>
      BY <1>2, <2>2 DEF Collect, Resolve, Daemon
    <3>4. /\ latest'.st = Result /\ latest' \in [plan : Plans \cup {NoPlan},
                                    st : {"none", "pending", "published", "failed"}]
      BY <1>1, <3>2, <3>3 DEF DaemonTypes
    <3>5. lastPub' \in Plans \cup {NoPlan} /\ overdue' \in BOOLEAN /\ backoff' \in BOOLEAN
      BY <1>1, <3>1, <3>3 DEF DaemonTypes
    <3>6. DaemonTypes' /\ DaemonHand' /\ OutboxType'
      BY <1>1, <3>1, <3>2, <3>3, <3>4, <3>5 DEF DaemonTypes, DaemonHand, OutboxType, inboxVars
    <3>7. QED
      BY <1>2, <3>6, OnDaemonSide DEF Collect, repoVars
  <2>3. QED
    BY <2>1, <2>2
<1>3. CASE RemoveOutbox
  <2>1. DaemonTypes' /\ DaemonHand' /\ OutboxType'
    BY <1>1, <1>3 DEF RemoveOutbox, Daemon, DaemonTypes, DaemonHand, OutboxType,
                       pubVars, inboxVars
  <2>2. QED
    BY <1>3, <2>1, OnDaemonSide DEF RemoveOutbox, repoVars
<1>4. CASE RemoveInbox
  <2>1. DaemonTypes' /\ DaemonHand' /\ OutboxType'
    BY <1>1, <1>4 DEF RemoveInbox, Daemon, DaemonTypes, DaemonHand, OutboxType, pubVars
  <2>2. QED
    BY <1>4, <2>1, OnDaemonSide DEF RemoveInbox, repoVars
<1>5. CASE Decide
  <2>1. dpc' \in {"write", "collect"} /\ dplan' \in Plans \cup {NoPlan}
        /\ (dpc' = "write" => dplan' \in Plans)
    BY <1>1, <1>5 DEF Decide, Daemon, DaemonTypes
  <2>2. DaemonTypes' /\ DaemonHand' /\ OutboxType'
    BY <1>1, <1>5, <2>1 DEF Decide, DaemonTypes, DaemonHand, OutboxType, pubVars, inboxVars
  <2>3. QED
    BY <1>5, <2>2, OnDaemonSide DEF Decide, repoVars
<1>5a. CASE ClearPlan
  <2>1. dplan \in Plans
    BY <1>1, <1>5a DEF ClearPlan, DaemonHand
  <2>2. DaemonTypes' /\ DaemonHand' /\ OutboxType'
    BY <1>1, <1>5a, <2>1 DEF ClearPlan, Daemon, DaemonTypes, DaemonHand, OutboxType, pubVars
  <2>3. QED
    BY <1>5a, <2>2, OnDaemonSide DEF ClearPlan, repoVars
<1>6. CASE WritePlan
  <2>1. dplan \in Plans /\ Files(dplan) \ Files(lastPub) \subseteq Artifacts
    BY <1>1, <1>6, FilesType DEF WritePlan, DaemonHand
  <2>2. DaemonTypes' /\ DaemonHand' /\ OutboxType'
    BY <1>1, <1>6, <2>1 DEF WritePlan, Daemon, DaemonTypes, DaemonHand, OutboxType, pubVars
  <2>3. QED
    BY <1>6, <2>2, OnDaemonSide DEF WritePlan, repoVars
<1>7. CASE InsertRow
  <2>1. dplan \in Plans
    BY <1>1, <1>7 DEF InsertRow, DaemonHand
  <2>2. DaemonTypes' /\ DaemonHand' /\ OutboxType'
    BY <1>1, <1>7, <2>1 DEF InsertRow, Daemon, DaemonTypes, DaemonHand, OutboxType, inboxVars
  <2>3. QED
    BY <1>7, <2>2, OnDaemonSide DEF InsertRow, repoVars
<1>8. QED
  BY <1>2, <1>3, <1>4, <1>5, <1>6, <1>7, <1>5a DEF DaemonStep

\* What happens around the daemon and the signer.
LEMMA OutsideKeeps ==
  ASSUME Inv, Change \/ Overdue \/ BackoffEnds \/ DaemonCrash
  PROVE  Inv' /\ UNCHANGED <<releases, current, previous>>
<1>1. DaemonTypes /\ DaemonHand /\ OutboxType
  BY Parts
<1>2. CASE Change
  <2>1. DaemonTypes' /\ DaemonHand' /\ OutboxType'
    BY <1>1, <1>2 DEF Change, DaemonTypes, DaemonHand, OutboxType, pubVars, daemonVars, inboxVars
  <2>2. \E e \in Events : Happens(e)
    BY <1>2 DEF Change, Happens
  <2>3. QED
    BY <1>2, <2>1, <2>2, OnDaemonSide DEF Change, repoVars
<1>3. CASE Overdue
  <2>1. DaemonTypes' /\ DaemonHand' /\ OutboxType'
    BY <1>1, <1>3 DEF Overdue, DaemonTypes, DaemonHand, OutboxType, daemonVars, inboxVars
  <2>2. \E e \in Events : Happens(e)
    BY <1>3 DEF Overdue, Happens
  <2>3. QED
    BY <1>3, <2>1, <2>2, OnDaemonSide DEF Overdue, repoVars
<1>4. CASE BackoffEnds
  <2>1. DaemonTypes' /\ DaemonHand' /\ OutboxType'
    BY <1>1, <1>4 DEF BackoffEnds, DaemonTypes, DaemonHand, OutboxType, daemonVars, inboxVars
  <2>2. QED
    BY <1>4, <2>1, OnDaemonSide DEF BackoffEnds, repoVars
<1>5. CASE DaemonCrash
  <2>1. DaemonTypes' /\ DaemonHand' /\ OutboxType'
    BY <1>1, <1>5 DEF DaemonCrash, Daemon, DaemonTypes, DaemonHand, OutboxType, pubVars, inboxVars
  <2>2. \E e \in Events : Happens(e)
    BY <1>5 DEF DaemonCrash, Happens
  <2>3. QED
    BY <1>5, <2>1, <2>2, OnDaemonSide DEF DaemonCrash, repoVars
<1>6. QED
  BY <1>2, <1>3, <1>4, <1>5

-----------------------------------------------------------------------------
(* Steps of the signer. *)

\* The least plan of the listing is one of the listing.
LEMMA Leading ==
  ASSUME SignerTypes, todo # {}
  PROVE  (CHOOSE q \in todo : \A r \in todo : q <= r) \in todo
<1>1. todo \in SUBSET Nat
  BY PublicationAssumption DEF SignerTypes
<1>2. QED
  BY <1>1, Minimum

\* Switching to a stored release leaves both links on stored releases.
LEMMA Switched ==
  ASSUME SignerTypes, SignerHand, NEW p \in Plans, p \in releases, Switch(p)
  PROVE  /\ current' = p
         /\ current' \in Plans \cup {NoPlan} /\ previous' \in Plans \cup {NoPlan}
         /\ {current', previous'} \subseteq releases \cup {NoPlan}
BY DEF SignerTypes, SignerHand, Switch

\* The signer's steps that leave the repository alone.
LEMMA SignerWaits ==
  ASSUME Inv, ListInbox \/ NextPlan \/ Stage \/ PublishFails \/ Answer \/ SignerCrash
  PROVE  Inv' /\ UNCHANGED <<releases, current, previous>>
<1>1. SignerTypes /\ SignerHand /\ OutboxType /\ issued \subseteq Plans
  BY Parts DEF DaemonTypes
<1>2. CASE ListInbox
  <2>1. SignerTypes' /\ SignerHand' /\ OutboxType'
    BY <1>1, <1>2 DEF ListInbox, Signer, SignerTypes, SignerHand, OutboxType, repoVars
  <2>2. QED
    BY <1>2, <2>1, OnSignerSide DEF ListInbox, repoVars
<1>3. CASE NextPlan
  <2>1. CASE todo = {}
    <3>1. SignerTypes' /\ SignerHand' /\ OutboxType'
      BY <1>1, <1>3, <2>1 DEF NextPlan, Signer, SignerTypes, SignerHand, OutboxType, repoVars
    <3>2. QED
      BY <1>3, <3>1, OnSignerSide DEF NextPlan, repoVars
  <2>2. CASE todo # {}
    <3> DEFINE p == CHOOSE q \in todo : \A r \in todo : q <= r
    <3>1. p \in todo /\ p \in Plans
      BY <1>1, <2>2, Leading DEF SignerTypes
    <3>2. /\ todo' = todo \ {p}
          /\ IF outbox[p] = "none" THEN Signer("publish", p, "none")
             ELSE Signer("next", NoPlan, "none")
          /\ UNCHANGED <<outbox, repoVars>>
      BY <1>3, <2>2 DEF NextPlan
    <3> HIDE DEF p
    <3>3. SignerTypes' /\ SignerHand' /\ OutboxType'
      BY <1>1, <3>1, <3>2 DEF Signer, SignerTypes, SignerHand, OutboxType, repoVars
    <3>4. QED
      BY <1>3, <3>3, OnSignerSide DEF NextPlan, repoVars
  <2>3. QED
    BY <2>1, <2>2
<1>4. CASE Stage
  <2>1. SignerTypes' /\ SignerHand' /\ OutboxType'
    BY <1>1, <1>4 DEF Stage, Signer, SignerTypes, SignerHand, OutboxType, repoVars
  <2>2. QED
    BY <1>4, <2>1, OnSignerSide DEF Stage, repoVars
<1>5. CASE PublishFails
  <2>1. SignerTypes' /\ SignerHand' /\ OutboxType'
    BY <1>1, <1>5 DEF PublishFails, Signer, SignerTypes, SignerHand, OutboxType, repoVars
  <2>2. \E e \in Events : Happens(e)
    BY <1>5 DEF PublishFails, Happens
  <2>3. QED
    BY <1>5, <2>1, <2>2, OnSignerSide DEF PublishFails, repoVars
<1>6. CASE Answer
  <2>1. SignerTypes' /\ SignerHand' /\ OutboxType'
    BY <1>1, <1>6 DEF Answer, Signer, SignerTypes, SignerHand, OutboxType, repoVars
  <2>2. QED
    BY <1>6, <2>1, OnSignerSide DEF Answer, repoVars
<1>7. CASE SignerCrash
  <2>1. SignerTypes' /\ SignerHand' /\ OutboxType'
    BY <1>1, <1>7 DEF SignerCrash, Signer, SignerTypes, SignerHand, OutboxType, repoVars
  <2>2. \E e \in Events : Happens(e)
    BY <1>7 DEF SignerCrash, Happens
  <2>3. QED
    BY <1>7, <2>1, <2>2, OnSignerSide DEF SignerCrash, repoVars
<1>8. QED
  BY <1>2, <1>3, <1>4, <1>5, <1>6, <1>7

\* Commit stores a release.
LEMMA CommitStores ==
  ASSUME Inv, Commit
  PROVE  Inv' /\ splan \in Plans /\ R!Store(splan)
<1>1. SignerTypes /\ SignerHand /\ OutboxType
  BY Parts
<1>2. splan \in Plans /\ Files(splan) \subseteq Artifacts
  BY <1>1, FilesType DEF Commit, SignerHand
<1>3. /\ releases' = releases \cup {splan} /\ hot' = hot \cup Files(splan)
      /\ spc' = "activate" /\ splan' = splan /\ verdict' = "none"
      /\ UNCHANGED <<desired, pubVars, daemonVars, inboxVars, outbox, todo,
                     current, previous, eventVars>>
      /\ Watch
  BY DEF Commit, Signer
<1>4. SignerTypes' /\ SignerHand' /\ OutboxType'
  BY <1>1, <1>2, <1>3 DEF SignerTypes, SignerHand, OutboxType
<1>5. QED
  BY <1>2, <1>3, <1>4, OnSignerSide DEF R!Store

\* Prune spares what the links lead to, and what of the files it names; also if
\* it is cut short.
LEMMA Pruned ==
  ASSUME Prune \/ UNCHANGED <<releases, hot, eventVars>>
  PROVE  /\ releases \cap {current', previous'} \subseteq releases' /\ releases' \subseteq releases
         /\ hot' \subseteq hot /\ hot \cap (Files(current') \cup Files(previous')) \subseteq hot'
         /\ releases' = releases \cap {current', previous'} \/ UNCHANGED hot
         /\ UNCHANGED eventVars \/ \E e \in Events : Happens(e)
BY DEF Prune, Happens

\* Activate, also of a release that was there before, serves that release; what
\* prune takes away is neither served nor held ready.
LEMMA ActivateServes ==
  ASSUME Inv, Activate \/ Recommit
  PROVE  Inv' /\ splan \in Plans /\ R!Serve(splan)
<1>1. SignerTypes /\ SignerHand /\ OutboxType
  BY Parts
<1>2. splan \in Plans /\ splan \in releases /\ Switch(splan)
  BY <1>1 DEF Activate, Recommit, SignerHand
<1>3. /\ spc' = "answer" /\ splan' = splan /\ verdict' = "published"
      /\ UNCHANGED <<desired, pubVars, daemonVars, inboxVars, outbox, todo>>
      /\ Watch
  BY DEF Activate, Recommit, Signer
<1>3a. Prune \/ UNCHANGED <<releases, hot, eventVars>>
  BY DEF Activate, Recommit
<1>3b. /\ releases \cap {current', previous'} \subseteq releases' /\ releases' \subseteq releases
       /\ hot' \subseteq hot
       /\ UNCHANGED eventVars \/ \E e \in Events : Happens(e)
  BY <1>3a, Pruned
<1>4. /\ current' = splan
      /\ current' \in Plans \cup {NoPlan} /\ previous' \in Plans \cup {NoPlan}
      /\ {current', previous'} \subseteq releases \cup {NoPlan}
  BY <1>1, <1>2, Switched
<1>5. {current', previous'} \subseteq releases' \cup {NoPlan} /\ releases' \subseteq releases
  BY <1>4, <1>3b
<1>6. SignerTypes' /\ SignerHand' /\ OutboxType'
  BY <1>1, <1>2, <1>3, <1>4, <1>5, <1>3b DEF SignerTypes, SignerHand, OutboxType
<1>7. Inv'
  BY <1>3, <1>6, <1>3b, OnSignerSide
<1>8. R!Serve(splan)
  <2>1. previous' = IF current \in {NoPlan, splan} THEN previous ELSE current
    BY <1>2 DEF Switch
  <2>2. R!Discard
    BY <1>3b DEF R!Discard
  <2>3. QED
    BY <1>2, <1>4, <2>1, <2>2 DEF R!Serve, R!None, NoPlan
<1>9. QED
  BY <1>2, <1>7, <1>8

\* A rollback serves the release that was held ready.
LEMMA RollbackServes ==
  ASSUME Inv, Rollback
  PROVE  Inv' /\ previous \in Plans /\ R!Serve(previous)
<1>1. SignerTypes /\ SignerHand /\ OutboxType
  BY Parts
<1>2. /\ previous # NoPlan /\ Switch(previous) /\ Watch
      /\ UNCHANGED <<desired, pubVars, daemonVars, inboxVars, outbox, signerVars,
                     releases, hot>>
      /\ \E e \in Events : Happens(e)
  BY DEF Rollback, Happens
<1>3. previous \in Plans /\ previous \in releases
  BY <1>1, <1>2 DEF SignerTypes, SignerHand
<1>4. /\ current' = previous
      /\ current' \in Plans \cup {NoPlan} /\ previous' \in Plans \cup {NoPlan}
      /\ {current', previous'} \subseteq releases \cup {NoPlan}
  BY <1>1, <1>2, <1>3, Switched
<1>5. SignerTypes' /\ SignerHand' /\ OutboxType'
  BY <1>1, <1>2, <1>4 DEF SignerTypes, SignerHand, OutboxType, signerVars
<1>6. Inv'
  BY <1>2, <1>5, OnSignerSide
<1>7. R!Serve(previous)
  <2>1. previous' = IF current \in {NoPlan, previous} THEN previous ELSE current
    BY <1>2 DEF Switch
  <2>2. QED
    BY <1>2, <1>3, <1>4, <2>1 DEF R!Serve, R!Discard, R!None, NoPlan
<1>8. QED
  BY <1>3, <1>6, <1>7

-----------------------------------------------------------------------------
(* All steps together, and the theorems. *)

\* In the first state nothing is stored, served or in hand.
LEMMA InitInv == Init => Inv /\ R!Init
<1> SUFFICES ASSUME Init PROVE Inv /\ R!Init
  OBVIOUS
<1>1. DaemonTypes /\ DaemonHand /\ OutboxType
  BY DEF Init, DaemonTypes, DaemonHand, OutboxType
<1>2. SignerTypes /\ SignerHand
  BY DEF Init, SignerTypes, SignerHand
<1>3. EventTypes
  <2>1. count = 0 /\ rolled = FALSE /\ strayed = FALSE
    BY DEF Init
  <2>2. 0 \in 0 .. MaxEvents
    BY PublicationAssumption
  <2>3. QED
    BY <2>1, <2>2 DEF EventTypes
<1>4. R!Init
  BY DEF Init, R!Init, R!None, NoPlan
<1>5. QED
  BY <1>1, <1>2, <1>3, <1>4, Parts

\* Every step keeps the invariant and is one of the repository, or none of its
\* business.
LEMMA NextInv == Inv /\ [Next]_vars => Inv' /\ [R!Next]_(R!vars)
<1> SUFFICES ASSUME Inv, [Next]_vars PROVE Inv' /\ [R!Next]_(R!vars)
  OBVIOUS
<1>1. ASSUME UNCHANGED <<releases, current, previous>> PROVE [R!Next]_(R!vars)
  BY <1>1 DEF R!vars
<1>2. CASE DaemonStep
  BY <1>1, <1>2, DaemonKeeps
<1>3. CASE Change \/ Overdue \/ BackoffEnds \/ DaemonCrash
  BY <1>1, <1>3, OutsideKeeps
<1>4. CASE ListInbox \/ NextPlan \/ Stage \/ PublishFails \/ Answer \/ SignerCrash
  BY <1>1, <1>4, SignerWaits
<1>5. CASE Commit
  BY <1>5, CommitStores DEF R!Next
<1>6. CASE Activate \/ Recommit
  BY <1>6, ActivateServes DEF R!Next
<1>7. CASE Rollback
  BY <1>7, RollbackServes DEF R!Next
<1>8. CASE UNCHANGED vars
  <2>1. UNCHANGED <<desired, pubVars, daemonVars, inboxVars, outbox, signerVars,
                    repoVars, eventVars, strayed>>
    BY <1>8 DEF vars
  <2>2. Inv'
    BY <2>1 DEF Inv, TypeOK, DaemonHand, SignerHand, pubVars, daemonVars, inboxVars,
                signerVars, repoVars, eventVars
  <2>3. QED
    BY <1>1, <2>1, <2>2 DEF repoVars
<1>9. QED
  BY <1>2, <1>3, <1>4, <1>5, <1>6, <1>7, <1>8 DEF Next, SignerStep

\* Every variable keeps its type, for any plans and any bound on events.
THEOREM TypeCorrect == Spec => []TypeOK
<1>1. Inv => TypeOK
  BY DEF Inv
<1>2. QED
  BY <1>1, InitInv, NextInv, PTL DEF Spec

\* The signer, with the rollback beside it and whatever dies, fails or is late,
\* implements the repository: every step that touches releases or links is a
\* step of Repository.
THEOREM Refinement == Spec => ImplementsRepository
BY InitInv, NextInv, PTL DEF Spec, ImplementsRepository, R!Spec

\* So the links never lead to a release that is not there (activate, prune).
THEOREM LinksLead == Spec => [](R!Linked)
<1>1. Inv => R!Linked
  BY DEF Inv, SignerHand, R!Linked, R!None, NoPlan
<1>2. QED
  BY <1>1, InitInv, NextInv, PTL DEF Spec

-----------------------------------------------------------------------------
(* What the daemon has brought to the inbox.                                *)

\* The daemon waits for an answer about plan p, or is about to, in other words.
WaitsFor(p) ==
  \/ latest.st = "pending" /\ latest.plan = p
  \/ dpc \in {"insert", "unanswer"} /\ dplan = p

\* The signer has a plan in hand.
Works == spc \in {"publish", "commit", "activate", "answer"}

\* The loop's step fits the newest row: no plan is written while one is
\* pending, and one that is resolved as published has its answer still.
RowHand ==
  /\ dpc \in {"unanswer", "unissue"} =>
       dplan = latest.plan /\ latest.st \in {"published", "failed"}
  /\ dpc \in {"write", "copy", "insert"} => latest.st # "pending"
  /\ dpc = "unanswer" /\ latest.st = "published" => outbox[dplan] # "none"

\* A plan the daemon waits for is in the inbox, with the files the last
\* published one lacks, unless it is answered.
Brought == \A p \in Plans : WaitsFor(p) =>
  p \in issued /\ (Files(p) \ Files(lastPub) \subseteq sent[p] \/ outbox[p] # "none")

\* The signer works only on plans without an answer.
Unanswered == Works => outbox[splan] = "none"

\* Releases have all their files.
Stocked == \A r \in releases : Files(r) \subseteq hot

Books == RowHand /\ Brought /\ Unanswered /\ Stocked

\* The signer's side of the books does not depend on the daemon's variables.
LEMMA SignerBooks ==
  ASSUME Unanswered, Stocked, UNCHANGED <<signerVars, repoVars>>, UNCHANGED outbox
  PROVE  Unanswered' /\ Stocked'
BY DEF Unanswered, Stocked, Works, signerVars, repoVars

\* Each step of the daemon.
LEMMA DaemonBooks ==
  ASSUME Inv, Books, DaemonStep
  PROVE  Books'
<1>1. DaemonTypes /\ DaemonHand /\ OutboxType
  BY Parts
<1>2. RowHand /\ Brought /\ Unanswered /\ Stocked
  BY DEF Books
<1>3. CASE Collect
  <2>1. UNCHANGED <<inboxVars, outbox, signerVars, repoVars>>
    BY <1>3 DEF Collect
  <2>2. Unanswered' /\ Stocked'
    BY <1>2, <2>1, SignerBooks
  <2>3. CASE Result = "none"
    <3>1. dpc' = "decide" /\ UNCHANGED pubVars
      BY <1>3, <2>3 DEF Collect, Daemon
    <3>2. QED
      BY <1>2, <2>1, <2>2, <3>1 DEF Books, RowHand, Brought, WaitsFor, pubVars, inboxVars
  <2>4. CASE Result # "none"
    <3>1. /\ latest' = [latest EXCEPT !.st = Result]
          /\ lastPub' = IF Result = "published" THEN latest.plan ELSE lastPub
          /\ dpc' = "unanswer" /\ dplan' = latest.plan
      BY <1>3, <2>4 DEF Collect, Resolve, Daemon
    <3>2. /\ latest.st = "pending" /\ latest.plan \in Plans
          /\ Result \in {"published", "failed"}
          /\ Result = "published" => outbox[latest.plan] # "none"
      BY <1>1, <2>4 DEF Result, DaemonHand, OutboxType
    <3>3. latest'.plan = latest.plan /\ latest'.st = Result
      BY <1>1, <3>1 DEF DaemonTypes
    <3>4. RowHand'
      BY <2>1, <3>1, <3>2, <3>3 DEF RowHand
    <3>5. Brought'
      BY <1>2, <2>1, <3>1, <3>2, <3>3 DEF Brought, WaitsFor, inboxVars
    <3>6. QED
      BY <2>2, <3>4, <3>5 DEF Books
  <2>5. QED
    BY <2>3, <2>4
<1>4. CASE RemoveOutbox
  <2>1. /\ dpc = "unanswer" /\ outbox' = [outbox EXCEPT ![dplan] = "none"]
        /\ dpc' = "unissue" /\ dplan' = dplan
        /\ UNCHANGED <<pubVars, inboxVars, signerVars, repoVars>>
    BY <1>4 DEF RemoveOutbox, Daemon
  <2>2. RowHand' /\ Brought'
    BY <1>1, <1>2, <2>1 DEF RowHand, Brought, WaitsFor, pubVars, inboxVars, OutboxType
  <2>3. \A p \in Plans : outbox[p] = "none" => outbox'[p] = "none"
    BY <1>1, <2>1 DEF OutboxType
  <2>4. Works => splan \in Plans
    BY Parts DEF Works, SignerHand
  <2>5. Unanswered' /\ Stocked'
    BY <1>2, <2>1, <2>3, <2>4 DEF Unanswered, Stocked, Works, signerVars, repoVars
  <2>6. QED
    BY <2>2, <2>5 DEF Books
<1>5. CASE RemoveInbox
  <2>1. /\ dpc = "unissue" /\ dpc' = "decide" /\ UNCHANGED <<pubVars, outbox, signerVars, repoVars>>
    BY <1>5 DEF RemoveInbox, Daemon
  <2>2. RowHand' /\ Brought'
    BY <1>2, <2>1 DEF RowHand, Brought, WaitsFor, pubVars
  <2>3. QED
    BY <1>2, <2>1, <2>2, SignerBooks DEF Books
<1>6. CASE Decide
  <2>1. /\ UNCHANGED <<pubVars, inboxVars, outbox, signerVars, repoVars>>
        /\ dpc' \in {"write", "collect"}
        /\ dpc' = "write" => latest.st # "pending"
    BY <1>6 DEF Decide, Daemon, Due
  <2>2. RowHand' /\ Brought'
    BY <1>2, <2>1 DEF RowHand, Brought, WaitsFor, pubVars, inboxVars
  <2>3. QED
    BY <1>2, <2>1, <2>2, SignerBooks DEF Books
<1>6a. CASE ClearPlan
  <2>1. /\ dpc = "write" /\ dpc' = "copy" /\ dplan' = dplan
        /\ UNCHANGED <<pubVars, outbox, signerVars, repoVars>>
    BY <1>6a DEF ClearPlan, Daemon
  <2>2. latest.st # "pending"
    BY <1>2, <2>1 DEF RowHand
  <2>3. RowHand' /\ Brought'
    BY <2>1, <2>2 DEF RowHand, Brought, WaitsFor, pubVars
  <2>4. QED
    BY <1>2, <2>1, <2>3, SignerBooks DEF Books
<1>7. CASE WritePlan
  <2>1. /\ dpc = "copy" /\ dpc' = "insert" /\ dplan' = dplan
        /\ issued' = issued \cup {dplan}
        /\ sent' = [sent EXCEPT ![dplan] = Files(dplan) \ Files(lastPub)]
        /\ UNCHANGED <<pubVars, outbox, signerVars, repoVars>>
    BY <1>7 DEF WritePlan, Daemon
  <2>2. latest.st # "pending" /\ dplan \in Plans
    BY <1>1, <1>2, <2>1 DEF RowHand, DaemonHand
  <2>3. RowHand'
    BY <2>1, <2>2 DEF RowHand, pubVars
  <2>4. Brought'
    <3>1. sent'[dplan] = Files(dplan) \ Files(lastPub)
      BY <1>1, <2>1, <2>2 DEF DaemonTypes
    <3>2. \A p : WaitsFor(p)' => p = dplan
      BY <2>1, <2>2 DEF WaitsFor, pubVars
    <3>3. UNCHANGED lastPub
      BY <2>1 DEF pubVars
    <3>4. QED
      BY <2>1, <3>1, <3>2, <3>3 DEF Brought, Files
  <2>5. QED
    BY <1>2, <2>1, <2>3, <2>4, SignerBooks DEF Books
<1>8. CASE InsertRow
  <2>1. /\ dpc = "insert" /\ dpc' = "collect" /\ latest' = [plan |-> dplan, st |-> "pending"]
        /\ UNCHANGED <<lastPub, inboxVars, outbox, signerVars, repoVars>>
    BY <1>8 DEF InsertRow, Daemon
  <2>2. RowHand' /\ Brought'
    BY <1>2, <2>1 DEF RowHand, Brought, WaitsFor, inboxVars
  <2>3. QED
    BY <1>2, <2>1, <2>2, SignerBooks DEF Books
<1>9. QED
  BY <1>3, <1>4, <1>5, <1>6, <1>7, <1>8, <1>6a DEF DaemonStep

\* What happens around the two, and a switch of the links.
LEMMA OutsideBooks ==
  ASSUME Inv, Books,
         Change \/ Overdue \/ BackoffEnds \/ DaemonCrash \/ Rollback \/ UNCHANGED vars
  PROVE  Books'
<1>1. /\ UNCHANGED <<latest, lastPub, inboxVars, outbox, signerVars, releases, hot>>
      /\ UNCHANGED daemonVars \/ dpc' = "collect"
  BY DEF Change, Overdue, BackoffEnds, DaemonCrash, Rollback, vars, pubVars, Daemon, repoVars
<1>2. RowHand' /\ Brought'
  BY <1>1 DEF Books, RowHand, Brought, WaitsFor, inboxVars, daemonVars
<1>3. Unanswered' /\ Stocked'
  BY <1>1 DEF Books, Unanswered, Stocked, Works, signerVars
<1>4. QED
  BY <1>2, <1>3 DEF Books

\* Each step of the signer.
LEMMA WorkBooks ==
  ASSUME Inv, Books, SignerStep \/ PublishFails \/ SignerCrash
  PROVE  Books'
<1>1. UNCHANGED <<pubVars, daemonVars, inboxVars>>
  BY DEF SignerStep, ListInbox, NextPlan, Stage, Commit, Recommit, Activate, Answer,
         PublishFails, SignerCrash
<1>2. RowHand /\ Brought /\ Unanswered /\ Stocked
  BY DEF Books
<1>3. SignerTypes /\ SignerHand /\ OutboxType /\ DaemonHand
  BY Parts
<1>4. ASSUME UNCHANGED outbox PROVE RowHand' /\ Brought'
  BY <1>1, <1>2, <1>4 DEF RowHand, Brought, WaitsFor, pubVars, daemonVars, inboxVars
<1>5. CASE ListInbox \/ Stage \/ PublishFails \/ SignerCrash
  <2>1. /\ UNCHANGED <<outbox, repoVars>>
        /\ Works' => Works /\ splan' = splan
    BY <1>5 DEF ListInbox, Stage, PublishFails, SignerCrash, Signer, Works
  <2>2. QED
    BY <1>2, <1>4, <2>1 DEF Books, Unanswered, Stocked, repoVars
<1>6. CASE NextPlan
  <2>1. /\ UNCHANGED <<outbox, repoVars>>
        /\ Works' => outbox[splan'] = "none"
    BY <1>6 DEF NextPlan, Signer, Works
  <2>2. QED
    BY <1>2, <1>4, <2>1 DEF Books, Unanswered, Stocked, repoVars
<1>7. CASE Commit
  <2>1. /\ UNCHANGED outbox /\ releases' = releases \cup {splan} /\ hot' = hot \cup Files(splan)
        /\ Works /\ splan' = splan
    BY <1>7 DEF Commit, Signer, Works
  <2>2. QED
    BY <1>2, <1>4, <2>1 DEF Books, Unanswered, Stocked
<1>8. CASE Recommit \/ Activate
  <2>1. /\ UNCHANGED outbox /\ Works /\ splan' = splan
        /\ Prune \/ UNCHANGED <<releases, hot, eventVars>>
    BY <1>8 DEF Recommit, Activate, Signer, Works
  <2>2. Stocked'
    <3>1. /\ releases' \subseteq releases
          /\ hot \cap (Files(current') \cup Files(previous')) \subseteq hot'
          /\ releases' = releases \cap {current', previous'} \/ UNCHANGED hot
      BY <2>1, Pruned
    <3>2. ASSUME NEW r \in releases' PROVE Files(r) \subseteq hot'
      BY <1>2, <3>1 DEF Stocked
    <3>3. QED
      BY <3>2 DEF Stocked, Files
  <2>3. QED
    BY <1>2, <1>4, <2>1, <2>2 DEF Books, Unanswered
<1>9. CASE Answer
  <2>1. /\ spc = "answer" /\ outbox' = [outbox EXCEPT ![splan] = verdict]
        /\ spc' = "next" /\ UNCHANGED repoVars
    BY <1>9 DEF Answer, Signer
  <2>2. splan \in Plans /\ outbox[splan] = "none"
    BY <1>2, <1>3, <2>1 DEF SignerHand, Unanswered, Works
  <2>3. \A p \in Plans : outbox[p] # "none" => outbox'[p] = outbox[p]
    BY <1>3, <2>1, <2>2 DEF OutboxType
  <2>4. dpc = "unanswer" => dplan \in Plans
    BY <1>3 DEF DaemonHand
  <2>5. RowHand' /\ Brought'
    BY <1>1, <1>2, <2>3, <2>4 DEF RowHand, Brought, WaitsFor, pubVars, daemonVars, inboxVars
  <2>6. Unanswered' /\ Stocked'
    BY <1>2, <2>1 DEF Unanswered, Stocked, Works, repoVars
  <2>7. QED
    BY <2>5, <2>6 DEF Books
<1>10. QED
  BY <1>5, <1>6, <1>7, <1>8, <1>9 DEF SignerStep

\* The books are kept by every step.
LEMMA NextBooks == Inv /\ Books /\ [Next]_vars => Books'
BY DaemonBooks, OutsideBooks, WorkBooks DEF Next

\* The books are empty at first.
LEMMA InitBooks == Init => Books
BY DEF Init, Books, RowHand, Brought, WaitsFor, Unanswered, Stocked, Works

-----------------------------------------------------------------------------
(* Keeping step: what is published is served, and nothing is missing.       *)

\* Nothing lies about that the daemon does not wait for.
Orderly == \A p \in Plans : ~WaitsFor(p) =>
  /\ outbox[p] = "none"
  /\ p \in issued => dpc = "unissue" /\ dplan = p
  /\ ~(Works /\ splan = p)

\* The history variable has seen every stray plan.
Noticed == Stray => strayed

\* While the two kept step and nobody rolled back, the answer "published",
\* wherever it has got to, is about the release that is served.
Serving ==
  /\ \A p \in Plans : outbox[p] = "published" => current = p
  /\ spc = "answer" /\ verdict = "published" => current = splan
  /\ latest.st = "published" /\ dpc # "insert" => current = latest.plan

Served == InStep => Serving

\* The two ways of saying that the daemon waits are one.
LEMMA OrderlyNow ==
  ASSUME Inv, Noticed, ~strayed
  PROVE  Orderly
<1>1. \A p : Awaited(p) => WaitsFor(p)
  BY DEF Awaited, WaitsFor
<1>2. ~Stray
  BY DEF Noticed
<1>3. QED
  BY <1>1, <1>2 DEF Stray, Orderly, Works

\* The daemon waits for one plan at a time.
LEMMA OneAwaited ==
  ASSUME RowHand, NEW p, NEW q, WaitsFor(p), WaitsFor(q)
  PROVE  p = q
BY DEF RowHand, WaitsFor

\* Every step watches.
LEMMA NextNoticed == Noticed /\ [Next]_vars => Noticed' /\ (strayed => strayed')
<1> SUFFICES ASSUME Noticed, [Next]_vars PROVE Noticed' /\ (strayed => strayed')
  OBVIOUS
<1>1. CASE Next
  <2>1. Watch
    BY <1>1
    DEF Next, DaemonStep, Collect, RemoveOutbox, RemoveInbox, Decide, ClearPlan, WritePlan,
        InsertRow,
        SignerStep, ListInbox, NextPlan, Stage, Commit, Recommit, Activate, Answer,
        PublishFails, Change, Overdue, BackoffEnds, DaemonCrash, SignerCrash, Rollback
  <2>2. QED
    BY <2>1 DEF Watch, Noticed
<1>2. CASE UNCHANGED vars
  BY <1>2 DEF vars, pubVars, daemonVars, inboxVars, signerVars, Noticed, Stray, Awaited
<1>3. QED
  BY <1>1, <1>2

\* A rollback is remembered, and no step but a rollback is one.
LEMMA RolledKept ==
  ASSUME [Next]_vars, ~rolled'
  PROVE  ~rolled /\ ~Rollback
<1>1. UNCHANGED rolled \/ \E e : Happens(e)
  BY DEF Next, DaemonStep, Collect, RemoveOutbox, RemoveInbox, Decide, ClearPlan, WritePlan,
        InsertRow,
         SignerStep, ListInbox, NextPlan, Stage, Commit, Recommit, Activate, Answer,
         PublishFails, Change, Overdue, BackoffEnds, DaemonCrash, SignerCrash, Rollback,
         Prune, eventVars, vars
<1>2. ASSUME NEW e, Happens(e) PROVE ~rolled /\ e # "rollback"
  BY <1>2 DEF Happens
<1>3. ~Rollback
  BY <1>2 DEF Rollback
<1>4. QED
  BY <1>1, <1>2, <1>3

\* The daemon takes over what the signer answered.
LEMMA DaemonServes ==
  ASSUME Inv, Serving, DaemonStep
  PROVE  Serving'
<1>1. UNCHANGED <<signerVars, repoVars>>
  BY DEF DaemonStep, Collect, RemoveOutbox, RemoveInbox, Decide, ClearPlan, WritePlan,
        InsertRow
<1>2. DaemonTypes /\ DaemonHand /\ OutboxType
  BY Parts
<1>3. \A p \in Plans : outbox'[p] = "published" => outbox[p] = "published"
  BY <1>2 DEF DaemonStep, Collect, RemoveOutbox, RemoveInbox, Decide, ClearPlan, WritePlan,
        InsertRow,
              OutboxType
<1>4. latest'.st = "published" /\ dpc' # "insert" => current = latest'.plan
  <2>1. CASE Collect /\ Result # "none"
    <3>1. latest' = [latest EXCEPT !.st = Result]
      BY <2>1 DEF Collect, Resolve
    <3>2. /\ latest.st = "pending" /\ latest.plan \in Plans
          /\ Result = "published" => outbox[latest.plan] = "published"
      BY <1>2, <2>1 DEF Result, DaemonHand
    <3>3. latest'.plan = latest.plan /\ latest'.st = Result
      BY <1>2, <3>1 DEF DaemonTypes
    <3>4. QED
      BY <3>2, <3>3 DEF Serving
  <2>2. CASE InsertRow
    BY <2>2 DEF InsertRow
  <2>3. CASE UNCHANGED latest /\ dpc # "insert"
    BY <2>3 DEF Serving
  <2>4. QED
    BY <2>1, <2>2, <2>3
    DEF DaemonStep, Collect, RemoveOutbox, RemoveInbox, Decide, ClearPlan, WritePlan, pubVars
<1>5. QED
  BY <1>1, <1>3, <1>4 DEF Serving, signerVars, repoVars

\* What the signer switches to is what the daemon waits for.
LEMMA SignerServes ==
  ASSUME Inv, RowHand, Orderly, Serving, SignerStep \/ PublishFails \/ SignerCrash
  PROVE  Serving'
<1>1. UNCHANGED <<pubVars, daemonVars>>
  BY DEF SignerStep, ListInbox, NextPlan, Stage, Commit, Recommit, Activate, Answer,
         PublishFails, SignerCrash
<1>2. SignerHand /\ OutboxType
  BY Parts
<1>3. CASE ListInbox \/ NextPlan \/ Stage \/ Commit \/ PublishFails \/ SignerCrash
  <2>1. UNCHANGED <<outbox, current>> /\ verdict' # "published"
    BY <1>3 DEF ListInbox, NextPlan, Stage, Commit, PublishFails, SignerCrash, Signer, repoVars
  <2>2. QED
    BY <1>1, <2>1 DEF Serving, pubVars, daemonVars
<1>4. CASE Recommit \/ Activate
  <2>1. /\ UNCHANGED outbox /\ current' = splan /\ splan' = splan /\ Works
    BY <1>4 DEF Recommit, Activate, Signer, Switch, Works
  <2>2. splan \in Plans /\ WaitsFor(splan)
    BY <1>2, <2>1 DEF Orderly, Works, SignerHand
  <2>3. \A p \in Plans : outbox[p] = "published" => p = splan
    BY <2>2, OneAwaited DEF Orderly
  <2>4. latest.st = "published" /\ dpc # "insert" => splan = latest.plan
    BY <2>2 DEF WaitsFor, RowHand
  <2>5. QED
    BY <1>1, <2>1, <2>3, <2>4 DEF Serving, pubVars, daemonVars
<1>5. CASE Answer
  <2>1. /\ spc = "answer" /\ outbox' = [outbox EXCEPT ![splan] = verdict]
        /\ spc' = "next" /\ UNCHANGED current
    BY <1>5 DEF Answer, Signer, repoVars
  <2>2. QED
    BY <1>1, <1>2, <2>1 DEF Serving, OutboxType, pubVars, daemonVars
<1>6. QED
  BY <1>3, <1>4, <1>5 DEF SignerStep

\* A daemon that dies before it inserts the row leaves a plan astray.
LEMMA CrashServes ==
  ASSUME Inv, Books, Serving, DaemonCrash, Orderly'
  PROVE  Serving'
<1>1. UNCHANGED <<pubVars, issued, outbox, signerVars, repoVars>> /\ dpc' = "collect"
  BY DEF DaemonCrash, Daemon, inboxVars
<1>2. dpc # "insert"
  <2>1. SUFFICES ASSUME dpc = "insert" PROVE FALSE
    OBVIOUS
  <2>2. dplan \in Plans /\ dplan \in issued /\ latest.st # "pending"
    BY <2>1, Parts DEF DaemonHand, Books, Brought, RowHand, WaitsFor
  <2>3. ~ \E p \in Plans : p \in issued /\ latest'.st # "pending"
    BY <1>1 DEF Orderly, WaitsFor, pubVars
  <2>4. QED
    BY <1>1, <2>2, <2>3 DEF pubVars
<1>3. QED
  BY <1>1, <1>2 DEF Serving, pubVars, signerVars, repoVars

\* Every step that leaves no stray plan and rolls nothing back keeps it so.
LEMMA NextServed ==
  ASSUME Inv, Inv', Books, Noticed, Noticed', Served, [Next]_vars
  PROVE  Served'
<1>1. SUFFICES ASSUME ~strayed', ~rolled' PROVE Serving'
  BY DEF Served, InStep
<1>2. ~strayed /\ ~rolled /\ ~Rollback
  BY <1>1, NextNoticed, RolledKept
<1>3. Serving /\ Orderly
  BY <1>2, OrderlyNow DEF Served, InStep
<1>4. Orderly'
  BY <1>1, OrderlyNow, PTL
<1>5. CASE Change \/ Overdue \/ BackoffEnds \/ UNCHANGED vars
  BY <1>3, <1>5 DEF Change, Overdue, BackoffEnds, vars, Serving, pubVars, daemonVars, signerVars,
                    repoVars
<1>6. QED
  BY <1>2, <1>3, <1>4, <1>5, DaemonServes, SignerServes, CrashServes DEF Next, Books

\* What the daemon leaves out of a plan is in the repository.
LEMMA Provided ==
  ASSUME Inv, Books, Noticed
  PROVE  NeverStarved
<1>1. SUFFICES ASSUME ~strayed, InTouch, spc = "publish" PROVE Publishable(splan)
  BY DEF NeverStarved
<1>2. SignerTypes /\ SignerHand /\ DaemonTypes
  BY Parts
<1>3. splan \in Plans /\ Works
  BY <1>1, <1>2 DEF SignerHand, Works
<1>4. WaitsFor(splan)
  BY <1>1, <1>3, OrderlyNow DEF Orderly
<1>5. splan \in issued /\ Files(splan) \ Files(lastPub) \subseteq sent[splan]
  BY <1>3, <1>4 DEF Books, Brought, Unanswered
<1>6. Files(lastPub) \subseteq hot
  <2>1. CASE lastPub = NoPlan
    BY <2>1 DEF Files
  <2>2. CASE lastPub # NoPlan
    <3>1. lastPub \in releases
      BY <1>1, <1>2, <2>2 DEF InTouch, SignerHand
    <3>2. QED
      BY <3>1 DEF Books, Stocked
  <2>3. QED
    BY <2>1, <2>2
<1>7. QED
  BY <1>5, <1>6 DEF Publishable

\* While the newest row says published and no newer plan is on its way, its
\* release is the one clients are served, as long as no plan or answer strayed
\* and nobody rolled back.
THEOREM ServesPublished == Spec => []PublishedIsCurrent
<1>1. Init => Noticed /\ Served
  BY DEF Init, Noticed, Stray, Served, Serving
<1>2. Served => PublishedIsCurrent
  BY DEF Served, Serving, PublishedIsCurrent
<1>3. QED
  BY <1>1, <1>2, InitInv, InitBooks, NextInv, NextBooks, NextNoticed, NextServed, PTL DEF Spec

\* No plan fails for want of a file while the two keep step and the last
\* published release is one the signer keeps.
THEOREM SendsEnough == Spec => []NeverStarved
<1>1. Init => Noticed
  BY DEF Init, Noticed, Stray
<1>2. QED
  BY <1>1, InitInv, InitBooks, NextInv, NextBooks, NextNoticed, Provided, PTL DEF Spec
=============================================================================
