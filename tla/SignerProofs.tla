---------------------------- MODULE SignerProofs ----------------------------
(***************************************************************************)
(* Proofs about Signer for any plans and any number of events: types, that *)
(* what is served stays whole, that the signer never misses a file, and    *)
(* that files and links implement Repository.                              *)
(***************************************************************************)
EXTENDS Signer, WellFoundedInduction, TLAPS

\* A set of numbers that is not empty has a least one.
LEMMA Minimum ==
  ASSUME NEW S \in SUBSET Nat, S # {}
  PROVE  \E i \in S : \A j \in S : i <= j
<1>1. PICK t \in S : \A y \in S : ~ (<<y, t>> \in OpToRel(<, Nat))
  BY NatLessThanWellFounded, WFMin
<1>2. \A y \in S : ~ (y < t)
  BY <1>1 DEF OpToRel
<1>3. QED
  BY <1>2

\* The file to be renamed next is one of those left.
LEMMA FirstLeft ==
  ASSUME todo \subseteq Files, todo # {}
  PROVE  First \in todo
<1>1. \E f \in todo : \A g \in todo : f <= g
  BY SignerAssumption, Minimum
<1>2. QED
  BY <1>1 DEF First

\* A release lists files, and bytes for each.
LEMMA Contents ==
  ASSUME NEW p \in Plans
  PROVE  /\ Listed(p) \subseteq Files
         /\ DOMAIN Content[p] \subseteq Packages
         /\ \A f \in Listed(p) : Wanted(p, f) \in Bytes
BY SignerAssumption DEF Listed, Wanted, Files

\* No plan has the number that stands for none.
LEMMA Zero == NoPlan \notin Plans
BY SignerAssumption DEF NoPlan

-----------------------------------------------------------------------------
(* The inductive invariant.                                                *)

\* Unless a rollback overlapped with the signer one of the two is at rest.
Lonely == ~raced => \E q \in Procs : pc[q] = "idle"

\* The signer has a plan in hand.  The one in the inbox has the files that
\* write_plan supplied, until it is the published one itself.
DaemonHand ==
  /\ pc["signer"] # "idle" => work \in Plans
  /\ plan # NoPlan => sent = Supplied(plan) \/ (dpc # "idle" /\ lastPub = plan)

\* File f has the bytes plan p lists, and a signature of them.
Fits(p, f) == hot[f] = Wanted(p, f) /\ sig[f] = Wanted(p, f)

\* Steps at which a process has a release in hand.
Switches == {"move", "movesig", "verify", "link"}

\* The files of its plan that are not left to rename are in place; between
\* the two renames the package is.
SignerHand ==
  /\ pc["signer"] \in {"move", "movesig"} =>
       /\ todo \subseteq Listed(work)
       /\ \A f \in Listed(work) \ todo : Fits(work, f)
  /\ pc["signer"] = "movesig" => todo # {} /\ hot[First] = Wanted(work, First)
  /\ \A q \in Procs : pc[q] \in Switches =>
       act[q].release \in Plans /\ (pc[q] # "link" => act[q].at = 1)
  /\ pc["operator"] \in {"idle", "verify", "link"}

Hand == TypeOK /\ Lonely /\ DaemonHand /\ SignerHand

-----------------------------------------------------------------------------
(* Types, and what each process has in hand.                               *)

Steps == {"idle", "listed", "move", "movesig", "verify", "link", "prune", "sweep",
          "answer"}
Acts == [release : Plans \cup {NoPlan}, old : Plans \cup {NoPlan}, at : 1 .. 6]

\* The conjuncts of TypeOK, by who changes them.
DaemonTypes ==
  /\ desired \in Plans
  /\ {plan, lastPub, settled} \subseteq Plans \cup {NoPlan}
  /\ sent \subseteq Packages /\ dpc \in {"idle", "outbox", "inbox"}

FileTypes ==
  /\ hot \in [Files -> Bytes \cup {NoBytes}]
  /\ sig \in [Files -> Bytes \cup {NoBytes}]
  /\ dirs \in [Plans -> {"none", "whole", "broken", "husk"}]
  /\ damaged \subseteq Plans

SignerTypes ==
  /\ work \in Plans \cup {NoPlan}
  /\ todo \subseteq Files /\ fresh \in BOOLEAN /\ keep \subseteq Plans
  /\ verdict \in {"none", "published", "failed"}

ProcTypes ==
  /\ pc \in [Procs -> Steps] /\ act \in [Procs -> Acts] /\ raced \in BOOLEAN

LinkTypes == links \in [LinkNames -> Plans \cup {NoPlan}]
AnswerType == outbox \in [Plans -> {"none", "published", "failed"}]
CountType == count \in 0 .. MaxEvents

\* The type invariant in the parts that actions leave alone or change.
LEMMA Types ==
  TypeOK <=> /\ DaemonTypes /\ FileTypes /\ SignerTypes /\ ProcTypes
             /\ LinkTypes /\ AnswerType /\ CountType
<1>1. Len(LinkOrder) = 6
  BY DEF LinkOrder
<1>2. QED
  BY <1>1 DEF TypeOK, DaemonTypes, FileTypes, SignerTypes, ProcTypes, LinkTypes,
              AnswerType, CountType, Steps, Acts

\* An activation as it begins, and as it goes on.
LEMMA Begins ==
  ASSUME NEW p \in Plans \cup {NoPlan}
  PROVE  \E a \in Acts : /\ a = [Idle EXCEPT !.release = p]
                         /\ a.release = p /\ a.old = NoPlan /\ a.at = 1
<1>1. [Idle EXCEPT !.release = p] = [release |-> p, old |-> NoPlan, at |-> 1]
  BY DEF Idle
<1>2. [release |-> p, old |-> NoPlan, at |-> 1] \in Acts
  BY DEF Acts, NoPlan
<1>3. QED
  BY <1>1, <1>2

\* An activation that now knows what was current before.
LEMMA Verified ==
  ASSUME NEW b \in Acts, NEW p \in Plans \cup {NoPlan}
  PROVE  \E a \in Acts : /\ a = [b EXCEPT !.old = p]
                         /\ a.release = b.release /\ a.old = p /\ a.at = b.at
<1>1. [b EXCEPT !.old = p] = [release |-> b.release, old |-> p, at |-> b.at]
  BY DEF Acts
<1>2. [release |-> b.release, old |-> p, at |-> b.at] \in Acts
  BY DEF Acts
<1>3. QED
  BY <1>1, <1>2

\* An activation at its next link.
LEMMA Advances ==
  ASSUME NEW b \in Acts, b.at < 6
  PROVE  \E a \in Acts : /\ a = [b EXCEPT !.at = @ + 1]
                         /\ a.release = b.release /\ a.old = b.old /\ a.at = b.at + 1
<1>1. [b EXCEPT !.at = @ + 1] = [release |-> b.release, old |-> b.old, at |-> b.at + 1]
  BY DEF Acts
<1>2. b.at + 1 \in 1 .. 6
  BY DEF Acts
<1>3. [release |-> b.release, old |-> b.old, at |-> b.at + 1] \in Acts
  BY <1>2 DEF Acts
<1>4. QED
  BY <1>1, <1>3

\* At the start nothing is in hand.
LEMMA InitHand == Init => Hand
<1> SUFFICES ASSUME Init PROVE Hand
  OBVIOUS
<1>1. Idle \in Acts
  BY DEF Idle, Acts, NoPlan
<1>2. DaemonTypes /\ FileTypes /\ SignerTypes /\ LinkTypes /\ AnswerType
  BY DEF Init, DaemonTypes, FileTypes, SignerTypes, LinkTypes, AnswerType, NoPlan
<1>c. CountType
  BY SignerAssumption DEF Init, CountType
<1>3. ProcTypes
  BY <1>1 DEF Init, ProcTypes, Steps
<1>4. Lonely /\ DaemonHand /\ SignerHand
  BY DEF Init, Lonely, DaemonHand, SignerHand, Switches, Procs
<1>5. QED
  BY <1>2, <1>c, <1>3, <1>4, Types DEF Hand

\* A process that moves on, moves alone.
LEMMA Moves ==
  ASSUME ProcTypes, NEW q \in Procs, NEW l \in Steps, NEW a \in Acts, Activate(q, l, a)
  PROVE  /\ ProcTypes' /\ Lonely'
         /\ pc'[q] = l /\ act'[q] = a
         /\ \A r \in Procs \ {q} : pc'[r] = pc[r] /\ act'[r] = act[r]
BY DEF ProcTypes, Activate, Goto, Lonely

\* The same for a process that stays in its activation.
LEMMA Goes ==
  ASSUME ProcTypes, NEW q \in Procs, NEW l \in Steps, Goto(q, l), UNCHANGED act
  PROVE  /\ ProcTypes' /\ Lonely'
         /\ pc'[q] = l
         /\ \A r \in Procs \ {q} : pc'[r] = pc[r]
BY DEF ProcTypes, Goto, Lonely

\* An event keeps the counter below its bound.
LEMMA Counted ==
  ASSUME CountType, UNCHANGED count \/ \E e : Happens(e)
  PROVE  CountType'
<1>1. MaxEvents \in Nat
  BY SignerAssumption
<1>2. QED
  BY <1>1 DEF CountType, Happens

\* A process that is through leaves the other one alone.
LEMMA Finishes ==
  ASSUME ProcTypes, SignerTypes, NEW q \in Procs,
         NEW v \in {"published", "failed"}, Finish(q, v)
  PROVE  /\ ProcTypes' /\ SignerTypes' /\ Lonely'
         /\ pc'[q] = IF q = "signer" THEN "answer" ELSE "idle"
         /\ \A r \in Procs \ {q} : pc'[r] = pc[r] /\ act'[r] = act[r]
         /\ q # "signer" => UNCHANGED signerVars
<1>1. Idle \in Acts
  BY DEF Idle, Acts, NoPlan
<1>2. (IF q = "signer" THEN "answer" ELSE "idle") \in Steps
  BY DEF Steps
<1>3. Activate(q, IF q = "signer" THEN "answer" ELSE "idle", Idle)
  BY DEF Finish
<1>4. SignerTypes'
  BY DEF Finish, SignerTypes, signerVars
<1>5. QED
  BY <1>1, <1>2, <1>3, <1>4, Moves DEF Finish

\* SignerHand speaks of the staged files only while they are moved.
LEMMA SignerHandKept ==
  ASSUME SignerHand,
         pc'["signer"] \in {"move", "movesig"} =>
           pc'["signer"] = pc["signer"] /\ UNCHANGED <<hot, sig, todo, work>>,
         \A q \in Procs : pc'[q] \in Switches =>
           act'[q].release \in Plans /\ (pc'[q] # "link" => act'[q].at = 1),
         pc'["operator"] \in {"idle", "verify", "link"}
  PROVE  SignerHand'
<1>1. CASE pc'["signer"] \in {"move", "movesig"}
  <2>1. First' = First
    BY <1>1 DEF First
  <2>2. \A f : Fits(work, f)' <=> Fits(work, f)
    BY <1>1 DEF Fits, Wanted
  <2>3. Listed(work)' = Listed(work) /\ Wanted(work, First)' = Wanted(work, First)
    BY <1>1, <2>1 DEF Listed, Wanted
  <2>4. QED
    BY <1>1, <2>1, <2>2, <2>3 DEF SignerHand, Switches
<1>2. CASE pc'["signer"] \notin {"move", "movesig"}
  BY <1>2 DEF SignerHand, Switches
<1>3. QED
  BY <1>1, <1>2

\* DaemonHand where the daemon does nothing: the signer keeps its plan while it
\* is at work.
LEMMA DaemonHandKept ==
  ASSUME DaemonHand, UNCHANGED <<plan, sent, lastPub, dpc>>,
         pc'["signer"] # "idle" =>
           work' \in Plans \/ (UNCHANGED work /\ pc["signer"] # "idle")
  PROVE  DaemonHand'
<1>1. Supplied(plan)' = Supplied(plan)
  BY DEF Supplied
<1>2. QED
  BY <1>1 DEF DaemonHand

-----------------------------------------------------------------------------
(* The daemon.                                                             *)

\* What write_plan supplies are packages.
LEMMA SuppliedPackages ==
  ASSUME NEW p \in Plans
  PROVE  Supplied(p) \subseteq Packages
BY Contents DEF Supplied

\* The daemon's own types and its part of DaemonHand.
LEMMA DaemonSide ==
  ASSUME Hand, Issue \/ Collect \/ GiveUp \/ RemoveOutbox \/ RemoveInbox \/ Change
  PROVE  /\ DaemonTypes' /\ AnswerType' /\ CountType'
         /\ plan' # NoPlan => sent' = Supplied(plan)' \/ (dpc' # "idle" /\ lastPub' = plan')
<1>t. DaemonTypes /\ AnswerType /\ CountType /\ DaemonHand
  BY Types DEF Hand
<1>1. CASE Issue
  <2>1. DaemonTypes'
    BY <1>t, <1>1, SuppliedPackages DEF Issue, DaemonTypes
  <2>2. QED
    BY <1>t, <1>1, <2>1 DEF Issue, AnswerType, CountType, Supplied
<1>2. CASE Collect \/ GiveUp
  <2>1. PICK published \in BOOLEAN : Resolve(published)
    BY <1>2 DEF Collect, GiveUp
  <2>2. DaemonTypes' /\ AnswerType'
    BY <1>t, <2>1 DEF Resolve, DaemonTypes, AnswerType
  <2>3. CountType'
    BY <1>t, <1>2, Counted DEF Collect, GiveUp
  <2>4. sent = Supplied(plan) /\ dpc' # "idle" /\ UNCHANGED <<plan, sent>>
        /\ (lastPub' = plan \/ UNCHANGED lastPub)
    BY <1>t, <2>1 DEF Resolve, DaemonHand
  <2>5. QED
    BY <2>2, <2>3, <2>4 DEF Supplied
<1>3. CASE RemoveOutbox
  <2>1. plan' # NoPlan => sent' = Supplied(plan)' \/ (dpc' # "idle" /\ lastPub' = plan')
    BY <1>t, <1>3 DEF RemoveOutbox, DaemonHand, Supplied
  <2>2. QED
    BY <1>t, <1>3, <2>1 DEF RemoveOutbox, DaemonTypes, AnswerType, CountType
<1>4. CASE RemoveInbox
  BY <1>t, <1>4 DEF RemoveInbox, DaemonTypes, AnswerType, CountType
<1>5. CASE Change
  <2>1. plan' # NoPlan => sent' = Supplied(plan)' \/ (dpc' # "idle" /\ lastPub' = plan')
    BY <1>t, <1>5 DEF Change, DaemonHand, Supplied
  <2>2. QED
    BY <1>t, <1>5, <2>1, Counted DEF Change, DaemonTypes, AnswerType
<1>6. QED
  BY <1>1, <1>2, <1>3, <1>4, <1>5

\* The daemon issues a plan, resolves it and removes answer and plan, and another
\* plan may be desired, whatever the signer is doing.
LEMMA DaemonHandStep ==
  ASSUME Hand, Issue \/ Collect \/ GiveUp \/ RemoveOutbox \/ RemoveInbox \/ Change
  PROVE  Hand'
<1>t. /\ FileTypes /\ SignerTypes /\ ProcTypes /\ LinkTypes
      /\ Lonely /\ DaemonHand /\ SignerHand
  BY Types DEF Hand
<1>1. UNCHANGED <<fileVars, links, pc, act, signerVars, raced>>
  BY DEF Issue, Collect, GiveUp, RemoveOutbox, RemoveInbox, Change, Resolve
<1>2. FileTypes' /\ SignerTypes' /\ ProcTypes' /\ LinkTypes' /\ Lonely'
  BY <1>t, <1>1 DEF FileTypes, SignerTypes, ProcTypes, LinkTypes, Lonely, fileVars,
                    signerVars
<1>3. SignerHand'
  BY <1>t, <1>1, SignerHandKept DEF SignerHand, fileVars, signerVars
<1>4. DaemonHand'
  BY <1>t, <1>1, DaemonSide DEF DaemonHand, signerVars
<1>5. QED
  BY <1>2, <1>3, <1>4, DaemonSide, Types, PTL DEF Hand

-----------------------------------------------------------------------------
(* Steps of the signer and of the rollback.                                *)

\* The hypotheses as they are used below.
LEMMA Unfold ==
  Hand => /\ DaemonTypes /\ FileTypes /\ SignerTypes /\ ProcTypes /\ LinkTypes
          /\ AnswerType /\ CountType /\ Lonely /\ DaemonHand /\ SignerHand
BY Types DEF Hand

\* A step on the signer's side.
LEMMA WorkerSide ==
  ASSUME Hand, UNCHANGED daemonVars,
         FileTypes', SignerTypes', ProcTypes', LinkTypes', AnswerType',
         UNCHANGED count \/ \E e : Happens(e), Lonely', SignerHand',
         pc'["signer"] # "idle" =>
           work' \in Plans \/ (UNCHANGED work /\ pc["signer"] # "idle")
  PROVE  Hand'
<1>1. DaemonTypes' /\ CountType'
  BY Unfold, Counted DEF daemonVars, DaemonTypes
<1>2. DaemonHand'
  BY Unfold, DaemonHandKept DEF daemonVars, DaemonTypes
<1>3. QED
  BY <1>1, <1>2, Types, PTL DEF Hand

\* The signer lists the inbox, or passes over a plan that has its answer.
LEMMA ListHand ==
  ASSUME Hand, List \/ Skip
  PROVE  Hand'
<1>t. /\ DaemonTypes /\ FileTypes /\ SignerTypes /\ ProcTypes /\ LinkTypes
      /\ AnswerType /\ CountType /\ Lonely /\ DaemonHand /\ SignerHand
  BY Unfold
<1>1. PICK l \in {"idle", "listed"} :
        /\ Goto("signer", l)
        /\ l = "listed" => work' = plan /\ plan # NoPlan
        /\ work' \in {plan, NoPlan}
        /\ UNCHANGED <<daemonVars, outbox, fileVars, links, act, todo, fresh, keep,
                       verdict, count>>
  BY DEF List, Skip
<1>2. "signer" \in Procs /\ "operator" \in Procs /\ l \in Steps
  BY DEF Procs, Steps
<1>3. /\ ProcTypes' /\ Lonely' /\ pc'["signer"] = l
      /\ \A r \in Procs \ {"signer"} : pc'[r] = pc[r]
  BY <1>t, <1>1, <1>2, Goes
<1>4. FileTypes' /\ SignerTypes' /\ LinkTypes' /\ AnswerType'
  BY <1>t, <1>1 DEF FileTypes, SignerTypes, LinkTypes, AnswerType, fileVars, DaemonTypes
<1>5. SignerHand'
  BY <1>t, <1>1, <1>2, <1>3, SignerHandKept DEF SignerHand, Switches
<1>6. QED
  BY <1>t, <1>1, <1>3, <1>4, <1>5, WorkerSide DEF DaemonTypes

\* A package file and its signature are in place and agree.
LEMMA ReadyFits ==
  ASSUME FileTypes, NEW p \in Plans, NEW f \in Listed(p), Reusable(p, f),
         f \notin Unverified(p)
  PROVE  Fits(p, f)
BY DEF Reusable, Unverified, KeyringThere, SignatureFits, Fits, Wanted

\* A process that is through leaves everything but its own state alone.
LEMMA FinishHand ==
  ASSUME Hand, NEW q \in Procs, pc[q] # "idle", NEW v \in {"published", "failed"},
         Finish(q, v), UNCHANGED <<daemonVars, outbox, fileVars, links>>,
         UNCHANGED count \/ \E e : Happens(e)
  PROVE  Hand'
<1>t. /\ DaemonTypes /\ FileTypes /\ SignerTypes /\ ProcTypes /\ LinkTypes
      /\ AnswerType /\ CountType /\ Lonely /\ DaemonHand /\ SignerHand
  BY Unfold
<1>1. /\ ProcTypes' /\ SignerTypes' /\ Lonely'
      /\ pc'[q] = IF q = "signer" THEN "answer" ELSE "idle"
      /\ \A r \in Procs \ {q} : pc'[r] = pc[r] /\ act'[r] = act[r]
      /\ q # "signer" => UNCHANGED signerVars
  BY <1>t, Finishes
<1>2. FileTypes' /\ LinkTypes' /\ AnswerType'
  BY <1>t DEF FileTypes, LinkTypes, AnswerType, fileVars
<1>3. "signer" \in Procs /\ "operator" \in Procs /\ Procs = {"signer", "operator"}
  BY DEF Procs
<1>4. SignerHand'
  BY <1>t, <1>1, <1>3, SignerHandKept DEF SignerHand, Switches, signerVars, fileVars, daemonVars
<1>5. UNCHANGED work /\ (pc'["signer"] # "idle" => pc["signer"] # "idle")
  BY <1>1, <1>3 DEF Finish, signerVars
<1>6. QED
  BY <1>1, <1>2, <1>4, <1>5, WorkerSide

\* The signer takes up a plan: what it will not rename is in place already.
LEMMA StageHand ==
  ASSUME Hand, PlanGone \/ Recommit \/ Stage
  PROVE  Hand'
<1>t. /\ DaemonTypes /\ FileTypes /\ SignerTypes /\ ProcTypes /\ LinkTypes
      /\ AnswerType /\ CountType /\ Lonely /\ DaemonHand /\ SignerHand
  BY Unfold
<1>1. /\ UNCHANGED <<daemonVars, outbox, fileVars, links, count>>
      /\ work \in Plans /\ pc["signer"] = "listed"
  BY <1>t DEF PlanGone, Recommit, Stage, TakesUp, DaemonHand
<1>2. FileTypes' /\ LinkTypes' /\ AnswerType'
  BY <1>t, <1>1 DEF FileTypes, LinkTypes, AnswerType, fileVars
<1>4. "signer" \in Procs /\ "operator" \in Procs /\ "verify" \in Steps /\ "move" \in Steps
  BY DEF Procs, Steps
<1>a. PICK a \in Acts : a = [Idle EXCEPT !.release = work] /\ a.release = work /\ a.at = 1
  BY <1>1, Begins
<1>5. CASE Recommit
  <2>1. /\ Activate("signer", "verify", a)
        /\ UNCHANGED signerVars
    BY <1>5, <1>a DEF Recommit
  <2>2. /\ ProcTypes' /\ Lonely'
        /\ pc'["signer"] = "verify" /\ act'["signer"] = a
        /\ \A r \in Procs \ {"signer"} : pc'[r] = pc[r] /\ act'[r] = act[r]
    BY <1>t, <1>4, <2>1, Moves
  <2>3. SignerHand'
    BY <1>t, <1>1, <1>4, <1>a, <2>2, SignerHandKept DEF SignerHand, Switches
  <2>4. SignerTypes'
    BY <1>t, <2>1 DEF SignerTypes, signerVars
  <2>5. QED
    BY <1>1, <1>2, <2>1, <2>2, <2>3, <2>4, WorkerSide DEF signerVars
<1>6. CASE Stage /\ Missing(work) = {} /\ Unverified(work) = {}
  <2>1. /\ Activate("signer", "move", a)
        /\ todo' = {f \in Listed(work) : ~Reusable(work, f)}
        /\ fresh' = TRUE /\ UNCHANGED <<work, keep, verdict>>
    BY <1>6, <1>a DEF Stage
  <2>2. /\ ProcTypes' /\ Lonely'
        /\ pc'["signer"] = "move" /\ act'["signer"] = a
        /\ \A r \in Procs \ {"signer"} : pc'[r] = pc[r] /\ act'[r] = act[r]
    BY <1>t, <1>4, <2>1, Moves
  <2>3. \A f \in Listed(work) : Reusable(work, f) => Fits(work, f)
    BY <1>t, <1>1, <1>6, ReadyFits
  <2>4. SignerHand'
    <3>1. Listed(work)' = Listed(work) /\ \A f : Fits(work, f)' <=> Fits(work, f)
      BY <1>1, <2>1 DEF Listed, Fits, Wanted, daemonVars, fileVars
    <3>2. \A f \in Listed(work) \ todo' : Fits(work, f)
      BY <2>1, <2>3
    <3>3. \A q \in Procs : pc'[q] \in Switches =>
          act'[q].release \in Plans /\ (pc'[q] # "link" => act'[q].at = 1)
      BY <1>t, <1>1, <1>4, <1>a, <2>2 DEF SignerHand, Switches
    <3>4. pc'["operator"] \in {"idle", "verify", "link"}
      BY <1>t, <1>4, <2>2 DEF SignerHand, Switches
    <3>5. QED
      BY <2>1, <2>2, <3>1, <3>2, <3>3, <3>4 DEF SignerHand, Switches
  <2>5. SignerTypes'
    BY <1>t, <1>1, <2>1, Contents DEF SignerTypes
  <2>6. QED
    BY <1>1, <1>2, <2>1, <2>2, <2>4, <2>5, WorkerSide
<1>7. CASE Stage /\ ~(Missing(work) = {} /\ Unverified(work) = {})
  BY <1>1, <1>4, <1>7, FinishHand DEF Stage
<1>8. CASE PlanGone
  BY <1>1, <1>4, <1>8, FinishHand DEF PlanGone
<1>9. QED
  BY <1>5, <1>6, <1>7, <1>8

\* A package is renamed, and its signature is still the old one.
LEMMA MoveHand ==
  ASSUME Hand, Move
  PROVE  Hand'
<1>t. /\ DaemonTypes /\ FileTypes /\ SignerTypes /\ ProcTypes /\ LinkTypes
      /\ AnswerType /\ CountType /\ Lonely /\ DaemonHand /\ SignerHand
  BY Unfold
<1>1. /\ pc["signer"] = "move" /\ todo # {} /\ Goto("signer", "movesig")
      /\ hot' = [hot EXCEPT ![First] = Wanted(work, First)]
      /\ damaged' = damaged \cup Overwritten(work, First)
      /\ UNCHANGED <<daemonVars, outbox, sig, dirs, links, act, signerVars, count>>
  BY DEF Move
<1>2. /\ work \in Plans /\ First \in todo /\ todo \subseteq Listed(work)
      /\ First \in Files
  BY <1>t, <1>1, FirstLeft DEF DaemonHand, SignerHand, SignerTypes
<1>3. "signer" \in Procs /\ "operator" \in Procs /\ "movesig" \in Steps
  BY DEF Procs, Steps
<1>4. /\ ProcTypes' /\ Lonely' /\ pc'["signer"] = "movesig"
      /\ \A r \in Procs \ {"signer"} : pc'[r] = pc[r]
  BY <1>t, <1>1, <1>3, Goes
<1>5. Wanted(work, First) \in Bytes
  BY <1>2, Contents
<1>6. FileTypes'
  BY <1>t, <1>1, <1>5 DEF FileTypes, Overwritten
<1>7. SignerTypes' /\ LinkTypes' /\ AnswerType'
  BY <1>t, <1>1 DEF SignerTypes, LinkTypes, AnswerType, signerVars
<1>8. SignerHand'
  <2>1. /\ First' = First /\ Listed(work)' = Listed(work)
        /\ \A f : Wanted(work, f)' = Wanted(work, f)
    BY <1>1 DEF First, Listed, Wanted, daemonVars, signerVars
  <2>2. hot'[First] = Wanted(work, First) /\ \A f \in Files \ {First} : hot'[f] = hot[f]
    BY <1>t, <1>1, <1>2 DEF FileTypes
  <2>3. \A f \in Listed(work) \ todo : Fits(work, f)'
    BY <1>t, <1>1, <1>2, <2>1, <2>2, Contents DEF SignerHand, Switches, Fits
  <2>4. \A q \in Procs : pc'[q] \in Switches =>
          act'[q].release \in Plans /\ (pc'[q] # "link" => act'[q].at = 1)
    BY <1>t, <1>1, <1>4 DEF SignerHand, Switches
  <2>5. QED
    BY <1>t, <1>1, <1>2, <1>3, <1>4, <2>1, <2>2, <2>3, <2>4
    DEF SignerHand, Switches, signerVars, daemonVars
<1>9. QED
  BY <1>1, <1>2, <1>4, <1>6, <1>7, <1>8, WorkerSide DEF signerVars

\* With its signature in place a file is off the list.
LEMMA MoveSigHand ==
  ASSUME Hand, MoveSig
  PROVE  Hand'
<1>t. /\ DaemonTypes /\ FileTypes /\ SignerTypes /\ ProcTypes /\ LinkTypes
      /\ AnswerType /\ CountType /\ Lonely /\ DaemonHand /\ SignerHand
  BY Unfold
<1>1. /\ pc["signer"] = "movesig" /\ Goto("signer", "move")
      /\ sig' = [sig EXCEPT ![First] = hot[First]]
      /\ todo' = todo \ {First}
      /\ UNCHANGED <<daemonVars, outbox, hot, dirs, damaged, links, act, work, fresh,
                     keep, verdict, count>>
  BY DEF MoveSig
<1>2. /\ work \in Plans /\ todo # {} /\ todo \subseteq Listed(work)
      /\ hot[First] = Wanted(work, First)
      /\ \A f \in Listed(work) \ todo : Fits(work, f)
  BY <1>t, <1>1 DEF DaemonHand, SignerHand
<1>3. First \in todo /\ First \in Files
  BY <1>t, <1>2, FirstLeft DEF SignerTypes
<1>4. "signer" \in Procs /\ "operator" \in Procs /\ "move" \in Steps
  BY DEF Procs, Steps
<1>5. /\ ProcTypes' /\ Lonely' /\ pc'["signer"] = "move"
      /\ \A r \in Procs \ {"signer"} : pc'[r] = pc[r]
  BY <1>t, <1>1, <1>4, Goes
<1>6. FileTypes' /\ SignerTypes' /\ LinkTypes' /\ AnswerType'
  BY <1>t, <1>1, <1>3 DEF FileTypes, SignerTypes, LinkTypes, AnswerType
<1>7. SignerHand'
  <2>1. /\ Listed(work)' = Listed(work)
        /\ \A f : Wanted(work, f)' = Wanted(work, f)
    BY <1>1 DEF Listed, Wanted, daemonVars
  <2>2. sig'[First] = hot[First] /\ \A f \in Files \ {First} : sig'[f] = sig[f]
    BY <1>t, <1>1, <1>3 DEF FileTypes
  <2>3. \A f \in Listed(work) \ todo' : Fits(work, f)'
    BY <1>1, <1>2, <2>1, <2>2, Contents DEF Fits
  <2>4. \A q \in Procs : pc'[q] \in Switches =>
          act'[q].release \in Plans /\ (pc'[q] # "link" => act'[q].at = 1)
    BY <1>t, <1>1, <1>5 DEF SignerHand, Switches
  <2>5. pc'["operator"] \in {"idle", "verify", "link"}
    BY <1>t, <1>4, <1>5 DEF SignerHand, Switches
  <2>6. todo' \subseteq Listed(work)'
    BY <1>1, <1>2, <2>1
  <2>7. QED
    BY <1>1, <1>5, <2>1, <2>3, <2>4, <2>5, <2>6 DEF SignerHand, Switches, daemonVars
<1>8. QED
  BY <1>1, <1>2, <1>5, <1>6, <1>7, WorkerSide

\* The staging directory is renamed, or something is in its way.
LEMMA CommitHand ==
  ASSUME Hand, Commit
  PROVE  Hand'
<1>t. /\ DaemonTypes /\ FileTypes /\ SignerTypes /\ ProcTypes /\ LinkTypes
      /\ AnswerType /\ CountType /\ Lonely /\ DaemonHand /\ SignerHand
  BY Unfold
<1>1. /\ pc["signer"] = "move" /\ work \in Plans
      /\ UNCHANGED <<daemonVars, outbox, hot, sig, links, count>>
  BY <1>t DEF Commit, DaemonHand
<1>2. "signer" \in Procs /\ "operator" \in Procs /\ "verify" \in Steps
  BY DEF Procs, Steps
<1>3. CASE Goto("signer", "verify") /\ UNCHANGED <<act, signerVars>>
           /\ dirs' = [dirs EXCEPT ![work] = "whole"] /\ damaged' = damaged \ {work}
  <2>2. /\ ProcTypes' /\ Lonely' /\ pc'["signer"] = "verify"
        /\ \A r \in Procs \ {"signer"} : pc'[r] = pc[r]
    BY <1>t, <1>2, <1>3, Goes
  <2>3. FileTypes'
    BY <1>t, <1>1, <1>3 DEF FileTypes
  <2>4. SignerTypes' /\ LinkTypes' /\ AnswerType'
    BY <1>t, <1>1, <1>3 DEF SignerTypes, LinkTypes, AnswerType, signerVars
  <2>5. SignerHand'
    BY <1>t, <1>1, <1>2, <1>3, <2>2, SignerHandKept DEF SignerHand, Switches
  <2>6. QED
    BY <1>1, <1>3, <2>2, <2>3, <2>4, <2>5, WorkerSide DEF signerVars
<1>4. CASE Finish("signer", "failed") /\ UNCHANGED <<dirs, damaged>>
  BY <1>1, <1>2, <1>4, FinishHand DEF fileVars
<1>5. QED
  BY <1>3, <1>4 DEF Commit

\* The order in which activate moves the links.
LEMMA LinkRelease ==
  /\ "previous" \in LinkNames /\ "current" \in LinkNames /\ "db" \in LinkNames
  /\ \A i \in 1 .. 6 : LinkOrder[i] \in LinkNames
  /\ LinkOrder[5] = "previous" /\ LinkOrder[6] = "current"
  /\ \A i \in {1, 2, 3, 4, 6} : LinkOrder[i] # "previous"
  /\ \A i \in 1 .. 5 : LinkOrder[i] # "current"
  /\ \A l \in LinkNames : \E i \in 1 .. 6 : l = LinkOrder[i]
  /\ Len(LinkOrder) = 6
BY DEF LinkOrder, LinkNames

\* The place a link is moved to is a release, or it stays where it is.
LEMMA NewLinkType ==
  ASSUME LinkTypes, NEW a \in Acts, a.release \in Plans
  PROVE  NewLink(a) \in Plans \cup {NoPlan}
BY LinkRelease DEF LinkTypes, NewLink, Acts

\* A release verifies, or the activation ends.
LEMMA VerifyHand ==
  ASSUME Hand, NEW q \in Procs, Verify(q)
  PROVE  Hand'
<1>t. /\ DaemonTypes /\ FileTypes /\ SignerTypes /\ ProcTypes /\ LinkTypes
      /\ AnswerType /\ CountType /\ Lonely /\ DaemonHand /\ SignerHand
  BY Unfold
<1>1. /\ pc[q] = "verify" /\ act[q] \in Acts /\ act[q].release \in Plans
      /\ UNCHANGED <<daemonVars, outbox, fileVars, links, count>>
  BY <1>t DEF Verify, ProcTypes, SignerHand, Switches
<1>2. "signer" \in Procs /\ "operator" \in Procs /\ "link" \in Steps /\ Procs = {"signer", "operator"}
  BY DEF Procs, Steps
<1>3. CASE Verifies(act[q].release)
  <2>1. CurrentRelease \in Plans \cup {NoPlan}
    BY <1>t, LinkRelease DEF CurrentRelease, LinkTypes
  <2>2. PICK a \in Acts : a = [act[q] EXCEPT !.old = CurrentRelease] /\ a.release = act[q].release
    <3>1. PICK b \in Acts, c \in Plans \cup {NoPlan} : b = act[q] /\ c = CurrentRelease
      BY <1>1, <2>1
    <3>2. PICK a \in Acts : a = [b EXCEPT !.old = c] /\ a.release = b.release
      BY Verified
    <3>3. QED
      BY <3>1, <3>2
  <2>3. Activate(q, "link", a) /\ UNCHANGED signerVars
    BY <1>3, <2>2 DEF Verify
  <2>4. /\ ProcTypes' /\ Lonely' /\ pc'[q] = "link" /\ act'[q] = a
        /\ \A r \in Procs \ {q} : pc'[r] = pc[r] /\ act'[r] = act[r]
    BY <1>t, <1>2, <2>3, Moves
  <2>5. FileTypes' /\ SignerTypes' /\ LinkTypes' /\ AnswerType'
    BY <1>t, <1>1, <2>3 DEF FileTypes, SignerTypes, LinkTypes, AnswerType, signerVars, fileVars
  <2>6. SignerHand'
    BY <1>t, <1>1, <1>2, <2>2, <2>3, <2>4, SignerHandKept, ZenonT(40)
    DEF SignerHand, Switches, signerVars, fileVars, daemonVars
  <2>7. QED
    BY <1>t, <1>1, <1>2, <2>3, <2>4, <2>5, <2>6, WorkerSide DEF DaemonHand, signerVars
<1>4. CASE ~Verifies(act[q].release)
  BY <1>1, <1>4, FinishHand DEF Verify
<1>5. QED
  BY <1>3, <1>4

\* One link moves, and then the process goes on or is through.
LEMMA MoveLinkHand ==
  ASSUME Hand, NEW q \in Procs, MoveLink(q)
  PROVE  Hand'
<1>t. /\ DaemonTypes /\ FileTypes /\ SignerTypes /\ ProcTypes /\ LinkTypes
      /\ AnswerType /\ CountType /\ Lonely /\ DaemonHand /\ SignerHand
  BY Unfold
<1>1. /\ pc[q] = "link" /\ act[q] \in Acts /\ act[q].release \in Plans
      /\ links' = [links EXCEPT ![LinkOrder[act[q].at]] = NewLink(act[q])]
      /\ UNCHANGED <<daemonVars, outbox, fileVars, count>>
  BY <1>t DEF MoveLink, ProcTypes, SignerHand, Switches
<1>2. /\ "signer" \in Procs /\ "operator" \in Procs /\ Procs = {"signer", "operator"}
      /\ "link" \in Steps /\ "prune" \in Steps
  BY DEF Procs, Steps
<1>3. FileTypes' /\ LinkTypes' /\ AnswerType'
  <2>1. LinkTypes'
    BY <1>t, <1>1, NewLinkType DEF LinkTypes
  <2>2. QED
    BY <1>t, <1>1, <2>1 DEF FileTypes, AnswerType, fileVars
<1>4. SUFFICES /\ SignerTypes' /\ ProcTypes' /\ Lonely'
               /\ pc'[q] \in {"link", "prune", "answer", "idle"}
               /\ q = "operator" => pc'[q] \in {"link", "idle"}
               /\ pc'[q] = "link" => act'[q].release = act[q].release
               /\ \A r \in Procs \ {q} : pc'[r] = pc[r] /\ act'[r] = act[r]
               /\ q # "signer" => UNCHANGED todo
               /\ UNCHANGED work
  <2>1. SignerHand'
    BY <1>t, <1>1, <1>2, <1>4, SignerHandKept
    DEF SignerHand, Switches, signerVars, fileVars, daemonVars
  <2>2. QED
    BY <1>t, <1>1, <1>2, <1>3, <1>4, <2>1, WorkerSide DEF DaemonHand
<1>5. CASE act[q].at < Len(LinkOrder)
  <2>1. PICK a \in Acts : a = [act[q] EXCEPT !.at = @ + 1] /\ a.release = act[q].release
    BY <1>1, <1>5, LinkRelease, Advances
  <2>2. Activate(q, "link", a) /\ UNCHANGED signerVars
    BY <1>5, <2>1 DEF MoveLink
  <2>3. /\ ProcTypes' /\ Lonely' /\ pc'[q] = "link" /\ act'[q] = a
        /\ \A r \in Procs \ {q} : pc'[r] = pc[r] /\ act'[r] = act[r]
    BY <1>t, <1>2, <2>2, Moves
  <2>4. SignerTypes' /\ UNCHANGED todo
    BY <1>t, <2>2 DEF SignerTypes, signerVars
  <2>5. QED
    BY <2>1, <2>2, <2>3, <2>4 DEF signerVars
<1>6. CASE ~(act[q].at < Len(LinkOrder)) /\ q = "signer" /\ fresh
  <2>1. Activate(q, "prune", Idle) /\ UNCHANGED signerVars
    BY <1>6 DEF MoveLink
  <2>2. Idle \in Acts
    BY DEF Idle, Acts, NoPlan
  <2>3. /\ ProcTypes' /\ Lonely' /\ pc'[q] = "prune"
        /\ \A r \in Procs \ {q} : pc'[r] = pc[r] /\ act'[r] = act[r]
    BY <1>t, <1>2, <2>1, <2>2, Moves
  <2>4. SignerTypes'
    BY <1>t, <2>1 DEF SignerTypes, signerVars
  <2>5. QED
    BY <1>6, <2>1, <2>3, <2>4 DEF signerVars
<1>7. CASE ~(act[q].at < Len(LinkOrder)) /\ ~(q = "signer" /\ fresh)
  <2>1. Finish(q, "published")
    BY <1>7 DEF MoveLink
  <2>2. /\ ProcTypes' /\ SignerTypes' /\ Lonely'
        /\ pc'[q] = IF q = "signer" THEN "answer" ELSE "idle"
        /\ \A r \in Procs \ {q} : pc'[r] = pc[r] /\ act'[r] = act[r]
        /\ q # "signer" => UNCHANGED signerVars
    BY <1>t, <2>1, Finishes
  <2>3. UNCHANGED work
    BY <2>1 DEF Finish, signerVars
  <2>4. QED
    BY <2>2, <2>3 DEF signerVars
<1>8. QED
  BY <1>5, <1>6, <1>7

\* prune begins, removes an entry, or ends.
LEMMA PruneHand ==
  ASSUME Hand, BeginPrune \/ RemoveDir \/ RemoveFile \/ EndPrune
  PROVE  Hand'
<1>t. /\ DaemonTypes /\ FileTypes /\ SignerTypes /\ ProcTypes /\ LinkTypes
      /\ AnswerType /\ CountType /\ Lonely /\ DaemonHand /\ SignerHand
  BY Unfold
<1>1. /\ pc["signer"] \in {"prune", "sweep"} /\ work \in Plans
      /\ UNCHANGED <<daemonVars, outbox, links, count>>
  BY <1>t DEF BeginPrune, RemoveDir, RemoveFile, EndPrune, DaemonHand
<1>2. "signer" \in Procs /\ "operator" \in Procs /\ "sweep" \in Steps
  BY DEF Procs, Steps
<1>3. CASE BeginPrune /\ \A r \in Linked : HasManifest(r)
  <2>1. /\ keep' = Linked /\ Goto("signer", "sweep")
        /\ UNCHANGED <<act, work, todo, fresh, verdict, fileVars>>
    BY <1>3 DEF BeginPrune
  <2>2. Linked \subseteq Plans
    BY <1>t, LinkRelease DEF LinkTypes, Linked
  <2>3. /\ ProcTypes' /\ Lonely' /\ pc'["signer"] = "sweep"
        /\ \A r \in Procs \ {"signer"} : pc'[r] = pc[r]
    BY <1>t, <1>2, <2>1, Goes
  <2>4. FileTypes' /\ SignerTypes' /\ LinkTypes' /\ AnswerType'
    BY <1>t, <1>1, <2>1, <2>2 DEF FileTypes, SignerTypes, LinkTypes, AnswerType, fileVars
  <2>5. SignerHand'
    BY <1>t, <1>1, <1>2, <2>1, <2>3, SignerHandKept DEF SignerHand, Switches
  <2>6. QED
    BY <1>1, <2>1, <2>3, <2>4, <2>5, WorkerSide
<1>4. CASE (BeginPrune /\ ~(\A r \in Linked : HasManifest(r))) \/ EndPrune
  <2>1. Finish("signer", "published") /\ UNCHANGED fileVars
    BY <1>4 DEF BeginPrune, EndPrune
  <2>2. QED
    BY <1>1, <1>2, <2>1, FinishHand
<1>5. CASE RemoveDir \/ RemoveFile
  <2>1. UNCHANGED <<pc, act, signerVars, raced>>
    BY <1>5 DEF RemoveDir, RemoveFile
  <2>2. FileTypes'
    <3>1. CASE RemoveDir
      BY <1>t, <3>1 DEF RemoveDir, Unneeded, FileTypes
    <3>2. CASE RemoveFile
      BY <1>t, <3>2 DEF RemoveFile, Garbage, FileTypes
    <3>3. QED
      BY <1>5, <3>1, <3>2
  <2>3. SignerTypes' /\ ProcTypes' /\ LinkTypes' /\ AnswerType' /\ Lonely'
    BY <1>t, <1>1, <2>1 DEF SignerTypes, ProcTypes, LinkTypes, AnswerType, Lonely, signerVars
  <2>4. SignerHand'
    BY <1>t, <1>1, <2>1, SignerHandKept DEF SignerHand, Switches
  <2>5. QED
    BY <1>1, <2>1, <2>2, <2>3, <2>4, WorkerSide DEF signerVars
<1>6. QED
  BY <1>3, <1>4, <1>5

\* The result is written, and the signer is free.
LEMMA AnswerHand ==
  ASSUME Hand, Answer
  PROVE  Hand'
<1>t. /\ DaemonTypes /\ FileTypes /\ SignerTypes /\ ProcTypes /\ LinkTypes
      /\ AnswerType /\ CountType /\ Lonely /\ DaemonHand /\ SignerHand
  BY Unfold
<1>1. /\ pc["signer"] = "answer" /\ Goto("signer", "idle")
      /\ outbox' = [outbox EXCEPT ![work] = verdict] /\ verdict' = "none"
      /\ work' = NoPlan
      /\ UNCHANGED <<daemonVars, fileVars, links, act, todo, fresh, keep, count>>
  BY DEF Answer
<1>2. "signer" \in Procs /\ "operator" \in Procs /\ "idle" \in Steps
  BY DEF Procs, Steps
<1>3. /\ ProcTypes' /\ Lonely' /\ pc'["signer"] = "idle"
      /\ \A r \in Procs \ {"signer"} : pc'[r] = pc[r]
  BY <1>t, <1>1, <1>2, Goes
<1>4. FileTypes' /\ SignerTypes' /\ LinkTypes' /\ AnswerType'
  BY <1>t, <1>1 DEF FileTypes, SignerTypes, LinkTypes, AnswerType, fileVars
<1>5. SignerHand'
  BY <1>t, <1>1, <1>2, <1>3, SignerHandKept DEF SignerHand, Switches
<1>6. QED
  BY <1>1, <1>3, <1>4, <1>5, WorkerSide

\* A rollback begins, a step fails, a process dies.
LEMMA SurroundingsHand ==
  ASSUME Hand, Rollback \/ \E q \in Procs : StepFails(q) \/ Crash(q)
  PROVE  Hand'
<1>t. /\ DaemonTypes /\ FileTypes /\ SignerTypes /\ ProcTypes /\ LinkTypes
      /\ AnswerType /\ CountType /\ Lonely /\ DaemonHand /\ SignerHand
  BY Unfold
<1>2. /\ "signer" \in Procs /\ "operator" \in Procs /\ Procs = {"signer", "operator"}
      /\ "verify" \in Steps /\ "idle" \in Steps
  BY DEF Procs, Steps
<1>3. CASE Rollback
  <2>1. links["previous"] \in Plans
    BY <1>t, <1>3, LinkRelease DEF Rollback, LinkTypes
  <2>2. PICK a \in Acts : a = [Idle EXCEPT !.release = links["previous"]]
                          /\ a.release = links["previous"] /\ a.at = 1
    BY <2>1, Begins
  <2>3. /\ Activate("operator", "verify", a) /\ Happens("rollback")
        /\ UNCHANGED <<daemonVars, outbox, fileVars, links, signerVars>>
    BY <1>3, <2>2 DEF Rollback
  <2>4. /\ ProcTypes' /\ Lonely' /\ pc'["operator"] = "verify" /\ act'["operator"] = a
        /\ \A r \in Procs \ {"operator"} : pc'[r] = pc[r] /\ act'[r] = act[r]
    BY <1>t, <1>2, <2>3, Moves
  <2>5. FileTypes' /\ SignerTypes' /\ LinkTypes' /\ AnswerType'
    BY <1>t, <2>3 DEF FileTypes, SignerTypes, LinkTypes, AnswerType, fileVars, signerVars
  <2>6. SignerHand'
    BY <1>t, <1>2, <2>1, <2>2, <2>3, <2>4, SignerHandKept, ZenonT(40)
    DEF SignerHand, Switches, signerVars, fileVars, daemonVars
  <2>7. QED
    BY <1>t, <1>2, <2>3, <2>4, <2>5, <2>6, WorkerSide DEF DaemonHand, signerVars
<1>4. ASSUME NEW q \in Procs, StepFails(q) PROVE Hand'
  <2>1. PICK v \in {"published", "failed"} : Finish(q, v)
    BY <1>4 DEF StepFails
  <2>2. /\ pc[q] # "idle" /\ UNCHANGED <<daemonVars, outbox, fileVars, links>>
        /\ Happens("failure")
    BY <1>4 DEF StepFails
  <2>3. QED
    BY <2>1, <2>2, FinishHand
<1>5. ASSUME NEW q \in Procs, Crash(q) PROVE Hand'
  <2>1. /\ Activate(q, "idle", Idle) /\ Happens("crash") /\ pc[q] # "idle"
        /\ UNCHANGED <<daemonVars, outbox, fileVars, links>>
        /\ q # "signer" => UNCHANGED signerVars
    BY <1>5 DEF Crash
  <2>2. Idle \in Acts
    BY DEF Idle, Acts, NoPlan
  <2>3. /\ ProcTypes' /\ Lonely' /\ pc'[q] = "idle"
        /\ \A r \in Procs \ {q} : pc'[r] = pc[r] /\ act'[r] = act[r]
    BY <1>t, <1>2, <2>1, <2>2, Moves
  <2>4. SignerTypes'
    BY <1>t, <1>5 DEF Crash, SignerTypes, signerVars
  <2>5. FileTypes' /\ LinkTypes' /\ AnswerType'
    BY <1>t, <2>1 DEF FileTypes, LinkTypes, AnswerType, fileVars
  <2>6. SignerHand'
    BY <1>t, <1>2, <2>1, <2>3, SignerHandKept
    DEF SignerHand, Switches, signerVars, fileVars, daemonVars
  <2>7. QED
    BY <1>t, <1>2, <2>1, <2>3, <2>4, <2>5, <2>6, WorkerSide DEF DaemonHand, signerVars
<1>6. QED
  BY <1>3, <1>4, <1>5

\* Every step keeps the types and what is in hand.
LEMMA NextHand == Hand /\ [Next]_vars => Hand'
<1> SUFFICES ASSUME Hand, [Next]_vars PROVE Hand'
  OBVIOUS
<1>1. CASE UNCHANGED vars
  BY <1>1 DEF vars, Hand, TypeOK, Lonely, DaemonHand, SignerHand, daemonVars, fileVars,
              signerVars, Supplied, Listed, Fits, Wanted, First
<1>2. QED
  BY <1>1, DaemonHandStep, ListHand, StageHand, MoveHand, MoveSigHand, CommitHand, VerifyHand,
     MoveLinkHand, PruneHand, AnswerHand, SurroundingsHand
  DEF Next, DaemonStep, SignerStep, OperatorStep, Procs

\* Every variable keeps its type.
THEOREM TypeCorrect == Spec => []TypeOK
<1>1. Hand => TypeOK
  BY DEF Hand
<1>2. QED
  BY <1>1, InitHand, NextHand, PTL DEF Spec

-----------------------------------------------------------------------------
(* The files of the releases that are stored.                              *)

\* A release that has its manifest, and no file of which another plan
\* overwrote, has all its files, linked or not.
Stored ==
  \A p \in Plans : HasManifest(p) /\ p \notin damaged => \A f \in Listed(p) : Fits(p, f)

\* The steps that touch files.
LEMMA FileSteps ==
  ASSUME [Next]_vars
  PROVE  Move \/ MoveSig \/ Commit \/ RemoveDir \/ RemoveFile \/ UNCHANGED fileVars
BY DEF Next, DaemonStep, SignerStep, OperatorStep, Issue, Collect, GiveUp,
       RemoveOutbox, RemoveInbox, Change, Resolve, List, Skip, PlanGone, Recommit,
       Stage, Verify, MoveLink, BeginPrune, EndPrune, Answer,
       Rollback, StepFails, Crash, vars

\* At the start nothing is stored.
LEMMA InitStored == Init => Stored
BY DEF Init, Stored, HasManifest

\* A renamed package leaves only those releases undamaged that list the same
\* bytes.
LEMMA MoveStored ==
  ASSUME Hand, Stored, Move
  PROVE  Stored'
<1>1. /\ pc["signer"] = "move" /\ todo # {}
      /\ hot' = [hot EXCEPT ![First] = Wanted(work, First)]
      /\ damaged' = damaged \cup Overwritten(work, First)
      /\ UNCHANGED <<sig, dirs>>
  BY DEF Move
<1>2. First \in Files /\ FileTypes
  BY <1>1, Unfold, FirstLeft DEF SignerTypes
<1>3. SUFFICES ASSUME NEW p \in Plans, HasManifest(p)', p \notin damaged', NEW f \in Listed(p)
               PROVE  Fits(p, f)'
  BY DEF Stored, Listed
<1>4. Fits(p, f) /\ f \in Files /\ p \notin Overwritten(work, First)
  BY <1>1, <1>3, Contents DEF Stored, HasManifest
<1>5. CASE f = First
  <2>1. Wanted(p, f) = Wanted(work, First)
    BY <1>1, <1>3, <1>4, <1>5 DEF Overwritten, HasManifest
  <2>2. QED
    BY <1>1, <1>2, <1>4, <1>5, <2>1 DEF Fits, FileTypes, Wanted
<1>6. CASE f # First
  BY <1>1, <1>2, <1>4, <1>6 DEF Fits, FileTypes, Wanted
<1>7. QED
  BY <1>5, <1>6

\* A new signature is that of the bytes that were renamed before it.
LEMMA MoveSigStored ==
  ASSUME Hand, Stored, MoveSig
  PROVE  Stored'
<1>1. /\ pc["signer"] = "movesig"
      /\ sig' = [sig EXCEPT ![First] = hot[First]]
      /\ UNCHANGED <<hot, dirs, damaged>>
  BY DEF MoveSig
<1>2. First \in Files /\ FileTypes
  BY <1>1, Unfold, FirstLeft DEF SignerTypes, SignerHand
<1>3. SUFFICES ASSUME NEW p \in Plans, HasManifest(p)', p \notin damaged', NEW f \in Listed(p)
               PROVE  Fits(p, f)'
  BY DEF Stored, Listed
<1>4. Fits(p, f) /\ f \in Files
  BY <1>1, <1>3, Contents DEF Stored, HasManifest
<1>5. QED
  BY <1>1, <1>2, <1>4 DEF Fits, FileTypes, Wanted

\* The release that is committed has just got its files.
LEMMA CommitStored ==
  ASSUME Hand, Stored, Commit
  PROVE  Stored'
<1>1. /\ pc["signer"] = "move" /\ todo = {}
      /\ \/ dirs' = [dirs EXCEPT ![work] = "whole"] /\ damaged' = damaged \ {work}
         \/ UNCHANGED <<dirs, damaged>>
      /\ UNCHANGED <<hot, sig>>
  BY DEF Commit
<1>2. /\ work \in Plans /\ FileTypes
      /\ \A f \in Listed(work) : Fits(work, f)
  BY <1>1, Unfold DEF DaemonHand, SignerHand
<1>3. SUFFICES ASSUME NEW p \in Plans, HasManifest(p)', p \notin damaged', NEW f \in Listed(p)
               PROVE  Fits(p, f)'
  BY DEF Stored, Listed
<1>4. p = work \/ (HasManifest(p) /\ p \notin damaged)
  BY <1>1, <1>2, <1>3 DEF HasManifest, FileTypes
<1>5. Fits(p, f)
  BY <1>1, <1>2, <1>3, <1>4 DEF Stored
<1>6. QED
  BY <1>1, <1>5 DEF Fits, Wanted

\* A file goes only when every directory that is left is one to keep.
LEMMA RemoveFileStored ==
  ASSUME Hand, Stored, RemoveFile
  PROVE  Stored'
<1>1. /\ Unneeded = {} /\ UNCHANGED <<dirs, damaged>>
      /\ \E g \in Garbage : \/ hot' = [hot EXCEPT ![g] = NoBytes] /\ UNCHANGED sig
                            \/ sig' = [sig EXCEPT ![g] = NoBytes] /\ UNCHANGED hot
  BY DEF RemoveFile
<1>2. SUFFICES ASSUME NEW p \in Plans, HasManifest(p)', p \notin damaged', NEW f \in Listed(p)
               PROVE  Fits(p, f)'
  BY DEF Stored, Listed
<1>3. p \in keep /\ Fits(p, f) /\ f \in Files
  BY <1>1, <1>2, Contents DEF Unneeded, HasManifest, Stored
<1>4. f \notin Garbage
  BY <1>2, <1>3 DEF Garbage
<1>5. hot'[f] = hot[f] /\ sig'[f] = sig[f]
  BY <1>1, <1>3, <1>4, Unfold DEF FileTypes
<1>6. QED
  BY <1>3, <1>5 DEF Fits, Wanted

\* Every step keeps the stored releases complete.
LEMMA NextStored == Hand /\ Stored /\ [Next]_vars => Stored'
<1> SUFFICES ASSUME Hand, Stored, [Next]_vars PROVE Stored'
  OBVIOUS
<1>1. CASE RemoveDir
  <2>1. /\ UNCHANGED <<hot, sig>>
        /\ \E r \in Plans : \/ dirs' = [dirs EXCEPT ![r] = "none"] /\ damaged' = damaged \ {r}
                            \/ \E part \in {"broken", "husk"} :
                                 /\ dirs' = [dirs EXCEPT ![r] = part]
                                 /\ dirs[r] = "whole" /\ UNCHANGED damaged
    BY <1>1 DEF RemoveDir, Unneeded
  <2>2. \A p \in Plans : HasManifest(p)' /\ p \notin damaged' => HasManifest(p) /\ p \notin damaged
    BY <2>1, Unfold DEF HasManifest, FileTypes
  <2>3. QED
    BY <2>1, <2>2 DEF Stored, Fits, Wanted, Listed
<1>2. CASE UNCHANGED fileVars
  BY <1>2 DEF fileVars, Stored, HasManifest, Fits, Wanted, Listed
<1>3. QED
  BY <1>1, <1>2, FileSteps, MoveStored, MoveSigStored, CommitStored, RemoveFileStored

\* A release that has its manifest has its files as listed, each with its
\* signature, unless a file of it was overwritten; also when rollbacks overlap.
THEOREM ReleasesStored == Spec => []Stored
  BY InitHand, NextHand, InitStored, NextStored, PTL DEF Spec

-----------------------------------------------------------------------------
(* The links.                                                              *)

\* While process q moves the links: it moves them to a whole release, what was
\* current before is whole too, and the links are as far as it got.
Switching(q) ==
  /\ dirs[act[q].release] = "whole"
  /\ act[q].old # NoPlan => dirs[act[q].old] = "whole"
  /\ links["current"] \in {NoPlan, act[q].old}
  /\ \A i \in 1 .. act[q].at - 1 :
       LinkOrder[i] # "previous" => links[LinkOrder[i]] = act[q].release
  /\ act[q].at = 6 /\ act[q].old \notin {NoPlan, act[q].release} =>
       links["previous"] = act[q].old

\* Before prune all links have been moved, and it keeps what they lead to.
Pruning ==
  /\ \A l \in LinkNames : links[l] \in {links["current"], links["previous"]}
  /\ pc["signer"] = "sweep" => keep = Linked

Placed == \A l \in LinkNames : links[l] # NoPlan => dirs[links[l]] = "whole"

Linking ==
  ~raced => /\ Placed
            /\ \A q \in Procs : pc[q] = "link" => Switching(q)
            /\ pc["signer"] \in {"prune", "sweep"} => Pruning

\* At the start nothing is linked.
LEMMA InitLinking == Init => Linking
BY DEF Init, Linking, Placed, Procs

\* Steps that neither move a link nor touch a whole directory.
LEMMA Elsewhere ==
  ASSUME Hand, Linking, UNCHANGED links, ~raced' => ~raced,
         \A p \in Plans : dirs[p] = "whole" => dirs'[p] = "whole",
         \A q \in Procs : pc'[q] = "link" => pc[q] = "link" /\ act'[q] = act[q],
         pc'["signer"] = "prune" => pc["signer"] = "prune",
         pc'["signer"] = "sweep" => pc["signer"] = "sweep" /\ keep' = keep
  PROVE  Linking'
<1>1. /\ LinkTypes /\ ProcTypes
  BY Unfold
<1>2. SUFFICES ASSUME ~raced' PROVE /\ Placed' /\ \A q \in Procs : pc'[q] = "link" => Switching(q)'
                                    /\ pc'["signer"] \in {"prune", "sweep"} => Pruning'
  BY DEF Linking
<1>3. Placed'
  BY <1>1, <1>2 DEF Linking, Placed, LinkTypes
<1>4. ASSUME NEW q \in Procs, pc'[q] = "link" PROVE Switching(q)'
  <2>1. Switching(q) /\ act'[q] = act[q]
    BY <1>2, <1>4 DEF Linking
  <2>2. act[q].release \in Plans \cup {NoPlan} /\ act[q].old \in Plans \cup {NoPlan}
    BY <1>1 DEF ProcTypes, Acts
  <2>3. act[q].release \in Plans
    BY <1>4, Unfold DEF SignerHand, Switches
  <2>4. QED
    BY <2>1, <2>2, <2>3 DEF Switching
<1>5. ASSUME pc'["signer"] \in {"prune", "sweep"} PROVE Pruning'
  <2>1. Pruning /\ pc'["signer"] = "sweep" => keep' = keep /\ pc["signer"] = "sweep"
    BY <1>2, <1>5 DEF Linking
  <2>2. QED
    BY <1>2, <1>5, <2>1 DEF Linking, Pruning, Linked
<1>6. QED
  BY <1>3, <1>4, <1>5

\* The same for a process that goes to a step of no concern here.
LEMMA Leaves ==
  ASSUME Hand, Linking, NEW q \in Procs, NEW l \in Steps \ {"link", "prune", "sweep"},
         Goto(q, l), \A r \in Procs \ {q} : act'[r] = act[r],
         q = "operator" => UNCHANGED keep, UNCHANGED links,
         \A p \in Plans : dirs[p] = "whole" => dirs'[p] = "whole"
  PROVE  Linking'
<1>1. /\ pc'[q] = l /\ \A r \in Procs \ {q} : pc'[r] = pc[r]
      /\ ~raced' => ~raced
  BY Unfold DEF ProcTypes, Goto
<1>2. "signer" \in Procs /\ "operator" \in Procs /\ Procs = {"signer", "operator"}
  BY DEF Procs
<1>3. QED
  BY <1>1, <1>2, Elsewhere

\* A process that is through moves no link any more.
LEMMA FinishLinking ==
  ASSUME Hand, Linking, NEW q \in Procs, NEW v, Finish(q, v), UNCHANGED <<links, fileVars>>
  PROVE  Linking'
<1>1. PICK l \in {"answer", "idle"} : Activate(q, l, Idle)
  BY DEF Finish
<1>2. l \in Steps \ {"link", "prune", "sweep"}
  BY DEF Steps
<1>3. /\ Goto(q, l) /\ \A r \in Procs \ {q} : act'[r] = act[r]
  BY <1>1, Unfold DEF Activate, ProcTypes
<1>4. q = "operator" => UNCHANGED keep
  BY DEF Finish, signerVars
<1>5. QED
  BY <1>2, <1>3, <1>4, Leaves DEF fileVars

\* The steps of the signer outside activate and prune.
LEMMA StageLinking ==
  ASSUME Hand, Linking,
         \/ List \/ Skip \/ PlanGone
         \/ Recommit \/ Stage \/ Move \/ MoveSig \/ Commit \/ Answer
  PROVE  Linking'
<1>1. "signer" \in Procs /\ "signer" # "operator"
  BY DEF Procs
<1>2. CASE Recommit \/ (Stage /\ Missing(work) = {} /\ Unverified(work) = {})
  <2>1. PICK l \in {"verify", "move"} :
          Activate("signer", l, [Idle EXCEPT !.release = work]) /\ UNCHANGED <<fileVars, links>>
    BY <1>2 DEF Recommit, Stage
  <2>2. /\ Goto("signer", l) /\ \A r \in Procs \ {"signer"} : act'[r] = act[r]
    BY <2>1, Unfold DEF Activate, ProcTypes
  <2>3. l \in Steps \ {"link", "prune", "sweep"}
    BY DEF Steps
  <2>4. QED
    BY <1>1, <2>1, <2>2, <2>3, Leaves DEF fileVars
<1>3. CASE PlanGone \/ (Stage /\ ~(Missing(work) = {} /\ Unverified(work) = {}))
  BY <1>1, <1>3, FinishLinking DEF PlanGone, Stage
<1>4. CASE List \/ Skip \/ Move \/ MoveSig \/ Answer
  <2>1. PICK l \in {"listed", "movesig", "move", "idle"} :
          Goto("signer", l) /\ UNCHANGED <<dirs, links, act>>
    BY <1>4 DEF List, Skip, Move, MoveSig, Answer, fileVars
  <2>2. l \in Steps \ {"link", "prune", "sweep"}
    BY DEF Steps
  <2>3. QED
    BY <1>1, <2>1, <2>2, Leaves
<1>5. CASE Commit
  <2>1. UNCHANGED links
    BY <1>5 DEF Commit
  <2>2. CASE Goto("signer", "verify") /\ UNCHANGED act
             /\ dirs' = [dirs EXCEPT ![work] = "whole"]
    <3>1. \A p \in Plans : dirs[p] = "whole" => dirs'[p] = "whole"
      BY <2>2, Unfold DEF FileTypes
    <3>2. "verify" \in Steps \ {"link", "prune", "sweep"}
      BY DEF Steps
    <3>3. QED
      BY <1>1, <2>1, <2>2, <3>1, <3>2, Leaves
  <2>3. CASE Finish("signer", "failed") /\ UNCHANGED fileVars
    BY <1>1, <2>1, <2>3, FinishLinking
  <2>4. QED
    BY <1>5, <2>2, <2>3 DEF Commit, fileVars
<1>6. QED
  BY <1>2, <1>3, <1>4, <1>5

\* While q is at work the other process is not.
LEMMA Alone ==
  ASSUME Hand, ~raced, NEW q \in Procs, pc[q] # "idle"
  PROVE  \A r \in Procs \ {q} : pc[r] = "idle"
BY Unfold DEF Lonely, Procs

\* A release that verifies is whole, and so is what current leads to.
LEMMA VerifyLinking ==
  ASSUME Hand, Linking, NEW q \in Procs, Verify(q)
  PROVE  Linking'
<1>1. CASE ~Verifies(act[q].release)
  BY <1>1, FinishLinking DEF Verify
<1>2. CASE Verifies(act[q].release)
  <2>1. /\ pc[q] = "verify" /\ UNCHANGED <<fileVars, links, signerVars>>
        /\ Activate(q, "link", [act[q] EXCEPT !.old = CurrentRelease])
        /\ dirs[act[q].release] = "whole"
    BY <1>2 DEF Verify, Verifies
  <2>2. SUFFICES ASSUME ~raced' PROVE Linking'
    BY DEF Linking
  <2>3. ~raced /\ pc'[q] = "link" /\ \A r \in Procs \ {q} : pc'[r] = pc[r]
    BY <2>1, <2>2, Unfold DEF Activate, Goto, ProcTypes
  <2>4. \A r \in Procs \ {q} : pc'[r] = "idle"
    BY <2>1, <2>3, Alone
  <2>5. CurrentRelease \in Plans \cup {NoPlan}
    BY LinkRelease, Unfold DEF CurrentRelease, LinkTypes
  <2>6. /\ act'[q].old = CurrentRelease /\ act'[q].release = act[q].release
        /\ act'[q].at = act[q].at
    <3>1. act'[q] = [act[q] EXCEPT !.old = CurrentRelease] /\ act[q] \in Acts
      BY <2>1, Unfold DEF Activate, ProcTypes
    <3>2. QED
      BY <3>1 DEF Acts
  <2>7. act[q].at = 1
    BY <2>1, Unfold DEF SignerHand, Switches
  <2>8. Placed /\ links["current"] \in {NoPlan, CurrentRelease}
        /\ (CurrentRelease # NoPlan => dirs[CurrentRelease] = "whole")
    BY <2>3, LinkRelease DEF Linking, Placed, CurrentRelease
  <2>9. Switching(q)'
    BY <2>1, <2>6, <2>7, <2>8, Zero DEF Switching, fileVars
  <2>10. Placed'
    BY <2>1, <2>8 DEF Placed, fileVars
  <2>11. pc'["signer"] \notin {"prune", "sweep"}
    BY <2>3, <2>4 DEF Procs
  <2>12. \A r \in Procs : pc'[r] = "link" => r = q
    BY <2>4
  <2>13. QED
    BY <2>9, <2>10, <2>11, <2>12 DEF Linking
<1>3. QED
  BY <1>1, <1>2

\* What a link is moved to is whole, whichever link it is.
LEMMA NewLinkWhole ==
  ASSUME Hand, Linking, NEW q \in Procs, ~raced, pc[q] = "link"
  PROVE  /\ NewLink(act[q]) \in Plans \cup {NoPlan}
         /\ NewLink(act[q]) # NoPlan => dirs[NewLink(act[q])] = "whole"
<1>1. /\ LinkTypes /\ act[q] \in Acts /\ act[q].release \in Plans
  BY Unfold DEF ProcTypes, SignerHand, Switches
<1>2. Switching(q) /\ Placed
  BY DEF Linking
<1>3. NewLink(act[q]) \in {act[q].release, act[q].old, links["previous"]}
  BY DEF NewLink
<1>4. QED
  BY <1>1, <1>2, <1>3, NewLinkType, LinkRelease DEF Switching, Placed

\* Links are moved in their order, previous before current and current last.
LEMMA MoveLinkLinking ==
  ASSUME Hand, Linking, NEW q \in Procs, MoveLink(q)
  PROVE  Linking'
<1>1. SUFFICES ASSUME ~raced' PROVE Linking'
  BY DEF Linking
<1>2. /\ pc[q] = "link" /\ UNCHANGED fileVars
      /\ links' = [links EXCEPT ![LinkOrder[act[q].at]] = NewLink(act[q])]
  BY DEF MoveLink
<1>3. PICK l \in {"link", "prune", "answer", "idle"} :
        /\ Goto(q, l)
        /\ l = "prune" => q = "signer"
        /\ l = "link" <=> act[q].at < 6
        /\ l = "link" => act' = [act EXCEPT ![q] = [act[q] EXCEPT !.at = @ + 1]]
  BY LinkRelease DEF MoveLink, Activate, Finish
<1>4. ~raced /\ pc'[q] = l /\ \A r \in Procs \ {q} : pc'[r] = pc[r]
  BY <1>1, <1>3, Unfold DEF Goto, ProcTypes
<1>5. \A r \in Procs \ {q} : pc'[r] = "idle"
  BY <1>2, <1>4, Alone
<1>6. /\ LinkTypes /\ act[q] \in Acts /\ act[q].release \in Plans
      /\ Switching(q) /\ Placed
  BY <1>2, <1>4, Unfold DEF ProcTypes, SignerHand, Switches, Linking
<1>7. /\ NewLink(act[q]) \in Plans \cup {NoPlan}
      /\ NewLink(act[q]) # NoPlan => dirs[NewLink(act[q])] = "whole"
  BY <1>2, <1>4, NewLinkWhole
<1>8. act[q].at \in 1 .. 6
  BY <1>6 DEF Acts
<1>9. /\ links'[LinkOrder[act[q].at]] = NewLink(act[q])
      /\ \A k \in LinkNames : k # LinkOrder[act[q].at] => links'[k] = links[k]
  BY <1>2, <1>6, <1>8, LinkRelease DEF LinkTypes
<1>10. Placed'
  BY <1>2, <1>6, <1>7, <1>9 DEF Placed, fileVars
<1>11. LinkOrder[act[q].at] # "previous" => NewLink(act[q]) = act[q].release
  BY DEF NewLink
<1>12. \A i \in 1 .. act[q].at :
         LinkOrder[i] # "previous" => links'[LinkOrder[i]] = act[q].release
  <2>1. SUFFICES ASSUME NEW i \in 1 .. act[q].at, LinkOrder[i] # "previous"
                 PROVE  links'[LinkOrder[i]] = act[q].release
    OBVIOUS
  <2>2. CASE LinkOrder[i] = LinkOrder[act[q].at]
    BY <1>9, <1>11, <2>1, <2>2
  <2>3. CASE LinkOrder[i] # LinkOrder[act[q].at]
    <3>1. i \in 1 .. act[q].at - 1 /\ i \in 1 .. 6
      BY <1>8, <2>1, <2>3
    <3>2. links[LinkOrder[i]] = act[q].release
      BY <1>6, <2>1, <3>1 DEF Switching
    <3>3. QED
      BY <1>9, <2>3, <3>1, <3>2, LinkRelease
  <2>4. QED
    BY <2>2, <2>3
<1>13. CASE act[q].at < 6
  <2>1. PICK b \in Acts : b = act[q]
    BY <1>6
  <2>2. PICK a \in Acts : /\ a = [b EXCEPT !.at = @ + 1]
                          /\ a.release = b.release /\ a.old = b.old /\ a.at = b.at + 1
    BY <1>13, <2>1, Advances
  <2>3. act'[q] = a
    BY <1>3, <1>13, <2>1, <2>2, Unfold DEF ProcTypes
  <2>4. /\ act'[q].release = act[q].release /\ act'[q].old = act[q].old
        /\ act'[q].at = act[q].at + 1
    BY <2>1, <2>2, <2>3
  <2>5. links'["current"] \in {NoPlan, act'[q].old}
    <3>1. LinkOrder[act[q].at] # "current"
      BY <1>8, <1>13, LinkRelease
    <3>2. QED
      BY <1>6, <1>9, <2>4, <3>1, LinkRelease DEF Switching
  <2>6. act'[q].at = 6 /\ act'[q].old \notin {NoPlan, act'[q].release} =>
          links'["previous"] = act'[q].old
    <3>1. SUFFICES ASSUME act[q].at = 5, act[q].old \notin {NoPlan, act[q].release}
                   PROVE  links'["previous"] = act[q].old
      BY <1>8, <2>4
    <3>2. NewLink(act[q]) = act[q].old
      BY <3>1, LinkRelease DEF NewLink
    <3>3. QED
      BY <1>9, <3>1, <3>2, LinkRelease
  <2>7. \A i \in 1 .. act'[q].at - 1 :
          LinkOrder[i] # "previous" => links'[LinkOrder[i]] = act'[q].release
    BY <1>8, <1>12, <2>4
  <2>8. dirs'[act'[q].release] = "whole"
        /\ (act'[q].old # NoPlan => dirs'[act'[q].old] = "whole")
    BY <1>2, <1>6, <2>4 DEF Switching, fileVars
  <2>9. Switching(q)'
    BY <2>5, <2>6, <2>7, <2>8 DEF Switching
  <2>10. pc'["signer"] \notin {"prune", "sweep"} /\ \A r \in Procs : pc'[r] = "link" => r = q
    BY <1>3, <1>4, <1>5, <1>13 DEF Procs
  <2>11. QED
    BY <1>10, <2>9, <2>10 DEF Linking
<1>14. CASE act[q].at = 6
  <2>1. \A r \in Procs : pc'[r] # "link"
    BY <1>3, <1>4, <1>5, <1>14
  <2>2. ASSUME NEW k \in LinkNames PROVE links'[k] \in {links'["current"], links'["previous"]}
    <3>1. PICK i \in 1 .. 6 : k = LinkOrder[i]
      BY LinkRelease
    <3>2. links'["current"] = act[q].release
      BY <1>8, <1>12, <1>14, LinkRelease
    <3>3. QED
      BY <1>12, <1>14, <3>1, <3>2
  <2>3. pc'["signer"] # "sweep"
    BY <1>3, <1>4, <1>5 DEF Procs
  <2>4. Pruning'
    BY <2>2, <2>3 DEF Pruning
  <2>5. QED
    BY <1>10, <2>1, <2>4 DEF Linking
<1>15. QED
  BY <1>8, <1>13, <1>14

\* prune keeps what is linked, and all that is linked is kept.
LEMMA PruneLinking ==
  ASSUME Hand, Linking, BeginPrune \/ RemoveDir \/ RemoveFile \/ EndPrune
  PROVE  Linking'
<1>0. "signer" \in Procs /\ "operator" \in Procs /\ "signer" # "operator"
  BY DEF Procs
<1>1. CASE BeginPrune /\ \A r \in Linked : HasManifest(r)
  <2>1. /\ pc["signer"] = "prune" /\ keep' = Linked /\ Goto("signer", "sweep")
        /\ UNCHANGED <<act, fileVars, links>>
    BY <1>1 DEF BeginPrune
  <2>2. SUFFICES ASSUME ~raced' PROVE Linking'
    BY DEF Linking
  <2>3. /\ ~raced /\ pc'["signer"] = "sweep" /\ \A r \in Procs \ {"signer"} : pc'[r] = pc[r]
    BY <1>0, <2>1, <2>2, Unfold DEF Goto, ProcTypes
  <2>4. \A r \in Procs : pc'[r] # "link"
    BY <1>0, <2>1, <2>3, Alone
  <2>5. Pruning' /\ Placed'
    BY <2>1, <2>3 DEF Linking, Pruning, Placed, Linked, fileVars
  <2>6. QED
    BY <2>4, <2>5 DEF Linking
<1>2. CASE (BeginPrune /\ ~(\A r \in Linked : HasManifest(r))) \/ EndPrune
  BY <1>0, <1>2, FinishLinking DEF BeginPrune, EndPrune
<1>3. CASE RemoveFile
  BY <1>3, Elsewhere DEF RemoveFile, signerVars
<1>4. CASE RemoveDir
  <2>1. /\ pc["signer"] = "sweep" /\ UNCHANGED <<links, pc, act, signerVars, raced>>
        /\ \E r \in Plans \ keep : dirs' = [dirs EXCEPT ![r] = dirs'[r]]
    <3>1. /\ pc["signer"] = "sweep" /\ UNCHANGED <<links, pc, act, signerVars, raced>>
          /\ \E r \in Unneeded : \E s : dirs' = [dirs EXCEPT ![r] = s]
      BY <1>4 DEF RemoveDir
    <3>2. QED
      BY <3>1, Unfold DEF Unneeded, FileTypes
  <2>2. PICK r \in Plans \ keep : dirs' = [dirs EXCEPT ![r] = dirs'[r]]
    BY <2>1
  <2>3. SUFFICES ASSUME ~raced PROVE Linking'
    BY <2>1 DEF Linking
  <2>4. Pruning /\ Placed /\ keep = Linked
    BY <2>1, <2>3 DEF Linking, Pruning
  <2>5. \A k \in LinkNames : links[k] # NoPlan => links[k] # r /\ links[k] \in Plans
    BY <2>2, <2>4, Unfold DEF Pruning, Linked, LinkTypes
  <2>6. Placed'
    BY <2>1, <2>2, <2>4, <2>5, Unfold DEF Placed, FileTypes
  <2>7. \A p \in Procs : pc[p] # "link"
    BY <1>0, <2>1, <2>3, Alone
  <2>8. Pruning'
    BY <2>1, <2>4 DEF Pruning, Linked, signerVars
  <2>9. QED
    BY <2>1, <2>6, <2>7, <2>8 DEF Linking
<1>5. QED
  BY <1>1, <1>2, <1>3, <1>4

\* Rollbacks begin, steps fail and processes die between two links.
LEMMA SurroundingsLinking ==
  ASSUME Hand, Linking, Rollback \/ \E q \in Procs : StepFails(q) \/ Crash(q)
  PROVE  Linking'
<1>1. "signer" \in Procs /\ "operator" \in Procs /\ "signer" # "operator"
  BY DEF Procs
<1>2. CASE Rollback
  <2>1. /\ Goto("operator", "verify") /\ \A r \in Procs \ {"operator"} : act'[r] = act[r]
        /\ UNCHANGED <<fileVars, links, signerVars>>
    BY <1>2, Unfold DEF Rollback, Activate, ProcTypes
  <2>2. "verify" \in Steps \ {"link", "prune", "sweep"}
    BY DEF Steps
  <2>3. QED
    BY <1>1, <2>1, <2>2, Leaves DEF fileVars, signerVars
<1>3. ASSUME NEW q \in Procs, StepFails(q) PROVE Linking'
  BY <1>3, FinishLinking DEF StepFails
<1>4. ASSUME NEW q \in Procs, Crash(q) PROVE Linking'
  <2>1. /\ Goto(q, "idle") /\ \A r \in Procs \ {q} : act'[r] = act[r]
        /\ UNCHANGED <<fileVars, links>>
        /\ q # "signer" => UNCHANGED signerVars
    BY <1>4, Unfold DEF Crash, Activate, ProcTypes
  <2>2. "idle" \in Steps \ {"link", "prune", "sweep"}
    BY DEF Steps
  <2>3. QED
    BY <1>1, <2>1, <2>2, Leaves DEF fileVars, signerVars
<1>5. QED
  BY <1>2, <1>3, <1>4

\* Every step keeps the links where they may be.
LEMMA NextLinking == Hand /\ Linking /\ [Next]_vars => Linking'
<1> SUFFICES ASSUME Hand, Linking, [Next]_vars PROVE Linking'
  OBVIOUS
<1>1. CASE Issue \/ Collect \/ GiveUp \/ RemoveOutbox \/ RemoveInbox \/ Change
           \/ UNCHANGED vars
  <2>1. UNCHANGED <<fileVars, links, pc, act, signerVars, raced>>
    BY <1>1 DEF Issue, Collect, GiveUp, RemoveOutbox, RemoveInbox, Change, Resolve, vars
  <2>2. QED
    BY <2>1, Elsewhere DEF fileVars, signerVars
<1>2. QED
  BY <1>1, StageLinking, VerifyLinking, MoveLinkLinking, PruneLinking, SurroundingsLinking
  DEF Next, DaemonStep, SignerStep, OperatorStep, Procs

-----------------------------------------------------------------------------
(* What follows.                                                           *)

IInv == Hand /\ Stored /\ Linking

\* The inductive invariant.
LEMMA Invariance == Spec => []IInv
<1>1. Init => IInv
  BY InitHand, InitStored, InitLinking DEF IInv
<1>2. IInv /\ [Next]_vars => IInv'
  BY NextHand, NextStored, NextLinking DEF IInv
<1>3. QED
  BY <1>1, <1>2, PTL DEF Spec

\* Clients and rollbacks find every file of what they are led to, as listed and
\* signed, at every moment of publish, activate, prune and of their crashes.
THEOREM AlwaysWhole == Spec => []ServedWhole
<1>1. IInv => ServedWhole
  <2>1. SUFFICES ASSUME IInv, ~raced, NEW l \in LinkNames, links[l] \notin damaged \cup {NoPlan}
                 PROVE  Whole(links[l])
    BY DEF ServedWhole
  <2>2. links[l] \in Plans /\ dirs[links[l]] = "whole"
    BY <2>1, Unfold DEF IInv, LinkTypes, Linking, Placed
  <2>3. \A f \in Listed(links[l]) : Fits(links[l], f)
    BY <2>1, <2>2 DEF IInv, Stored, HasManifest
  <2>4. QED
    BY <2>2, <2>3 DEF Whole, Fits
<1>2. QED
  BY <1>1, Invariance, PTL

\* Bytes that the last published plan lists are found under the same name.
LEMMA SuppliedOrListed ==
  ASSUME plan \in Plans, lastPub \in Plans \cup {NoPlan},
         NEW f \in DOMAIN Content[plan], f \notin Supplied(plan)
  PROVE  /\ lastPub \in Plans /\ f \in DOMAIN Content[lastPub]
         /\ Content[lastPub][f] = Content[plan][f]
<1>1. /\ lastPub # NoPlan
      /\ \E g \in DOMAIN Content[lastPub] : Content[lastPub][g] = Content[plan][f]
  BY DEF Supplied
<1>2. QED
  BY <1>1, NameAssumption

\* The keyring is no package of a plan.
LEMMA KeyApart ==
  ASSUME NEW p \in Plans
  PROVE  Key \notin DOMAIN Content[p] /\ \A f \in DOMAIN Content[p] : Content[p][f] # NoBytes
<1>1. Key \notin Packages
  BY SignerAssumption DEF Files
<1>2. QED
  BY <1>1, SignerAssumption

\* write_plan leaves out only what publish then finds in the repository, as
\* long as the last published plan is linked and nothing overwrote it.
THEOREM AlwaysSupplied == Spec => []NeverStarved
<1>1. IInv => NeverStarved
  <2>1. SUFFICES ASSUME IInv, ~raced, lastPub \in {NoPlan, links["current"], links["previous"]},
                        lastPub \notin damaged, TakesUp, plan = work,
                        ~HasManifest(plan)
                 PROVE  Missing(plan) = {}
    BY DEF NeverStarved
  <2>w. plan \in Plans /\ lastPub \in Plans \cup {NoPlan} /\ plan # NoPlan
    BY <2>1, Unfold, Zero DEF IInv, DaemonTypes, DaemonHand, TakesUp
  <2>l. lastPub # NoPlan => dirs[lastPub] = "whole"
    BY <2>1, LinkRelease DEF IInv, Linking, Placed
  <2>2. /\ plan \in Plans /\ lastPub \in Plans \cup {NoPlan} /\ sent = Supplied(plan)
    BY <2>1, <2>w, <2>l, Unfold DEF IInv, DaemonHand, HasManifest
  <2>3. SUFFICES ASSUME NEW f \in Listed(plan), f \notin sent, f # Key
                 PROVE  Reusable(plan, f)
    BY DEF Missing
  <2>4. f \in DOMAIN Content[plan] /\ Wanted(plan, f) = Content[plan][f]
    BY <2>3 DEF Listed, Wanted
  <2>5. /\ lastPub \in Plans /\ f \in DOMAIN Content[lastPub]
        /\ Content[lastPub][f] = Content[plan][f]
    BY <2>2, <2>3, <2>4, SuppliedOrListed
  <2>6. dirs[lastPub] = "whole"
    BY <2>5, <2>l, Zero
  <2>7. Fits(lastPub, f)
    BY <2>1, <2>5, <2>6 DEF IInv, Stored, HasManifest, Listed
  <2>8. Wanted(lastPub, f) = Content[plan][f]
    BY <2>3, <2>5 DEF Wanted
  <2>9. QED
    BY <2>2, <2>3, <2>4, <2>7, <2>8, KeyApart DEF Reusable, Fits
<1>2. QED
  BY <1>1, Invariance, PTL

-----------------------------------------------------------------------------
(* The refinement of Repository.                                           *)

\* The repository is empty at the start.
LEMMA InitRefines == Init => R!Init
BY LinkRelease DEF Init, R!Init, R!None, NoPlan

\* The rename of the staging directory stores a release.
LEMMA CommitStores ==
  ASSUME Hand, Commit, ~UNCHANGED dirs
  PROVE  R!Next
<1>1. /\ work \in Plans /\ FileTypes /\ UNCHANGED links
      /\ dirs' = [dirs EXCEPT ![work] = "whole"]
  BY Unfold DEF Commit, DaemonHand
<1>2. PICK p \in Plans : p = work
  BY <1>1
<1>3. {r \in Plans : dirs'[r] = "whole"} = {r \in Plans : dirs[r] = "whole"} \cup {p}
  BY <1>1, <1>2 DEF FileTypes
<1>4. R!Store(p)
  BY <1>1, <1>3 DEF R!Store
<1>5. QED
  BY <1>4 DEF R!Next

\* prune throws away what is neither served nor the fallback.
LEMMA RemoveDirCleans ==
  ASSUME Hand, Linking, ~raced, RemoveDir
  PROVE  R!Next
<1>1. /\ UNCHANGED links /\ FileTypes
      /\ \E r \in Unneeded : \E s \in {"broken", "husk", "none"} : dirs' = [dirs EXCEPT ![r] = s]
      /\ keep = Linked
  BY Unfold DEF RemoveDir, Linking, Pruning
<1>2. PICK r \in Plans \ Linked : /\ \A p \in Plans \ {r} : dirs'[p] = dirs[p]
                                  /\ dirs'[r] # "whole"
  BY <1>1 DEF Unneeded, FileTypes
<1>3. r \notin {links["current"], links["previous"]}
  BY <1>2, Zero DEF Linked
<1>4. R!CleanUp
  BY <1>1, <1>2, <1>3 DEF R!CleanUp, R!Discard
<1>5. QED
  BY <1>4 DEF R!Next

\* activate sets the former release aside, and then serves the new one.
LEMMA MoveLinkServes ==
  ASSUME Hand, Linking, ~raced, NEW q \in Procs, MoveLink(q)
  PROVE  R!Next
<1>1. /\ pc[q] = "link" /\ UNCHANGED dirs
      /\ links' = [links EXCEPT ![LinkOrder[act[q].at]] = NewLink(act[q])]
  BY DEF MoveLink, fileVars
<1>2. /\ LinkTypes /\ act[q] \in Acts /\ act[q].release \in Plans /\ Switching(q)
  BY <1>1, Unfold DEF ProcTypes, SignerHand, Switches, Linking
<1>3. act[q].at \in 1 .. 6 /\ act[q].old \in Plans \cup {NoPlan}
  BY <1>2 DEF Acts
<1>4. /\ links'[LinkOrder[act[q].at]] = NewLink(act[q])
      /\ \A k \in LinkNames : k # LinkOrder[act[q].at] => links'[k] = links[k]
  BY <1>1, <1>2, <1>3, LinkRelease DEF LinkTypes
<1>5. CASE UNCHANGED <<links["current"], links["previous"]>>
  <2>1. R!CleanUp
    BY <1>1, <1>5 DEF R!CleanUp, R!Discard
  <2>2. QED
    BY <2>1 DEF R!Next
<1>6. CASE act[q].at = 5 /\ links["previous"]' # links["previous"]
  <2>1. /\ links'["current"] = links["current"] /\ links'["previous"] = NewLink(act[q])
    BY <1>4, <1>6, LinkRelease
  <2>2. act[q].old \in Plans /\ NewLink(act[q]) = act[q].old
    BY <1>3, <1>6, <2>1, LinkRelease DEF NewLink
  <2>3. R!SetAside(act[q].old)
    BY <1>1, <1>2, <2>1, <2>2, Zero DEF R!SetAside, R!None, NoPlan, Switching
  <2>4. QED
    BY <2>2, <2>3 DEF R!Next
<1>7. CASE act[q].at = 6
  <2>1. /\ links'["current"] = act[q].release /\ links'["previous"] = links["previous"]
    BY <1>4, <1>7, LinkRelease DEF NewLink
  <2>2. links["current"] \notin {NoPlan, act[q].release} => links["previous"] = links["current"]
    BY <1>2, <1>7 DEF Switching
  <2>3. R!Serve(act[q].release)
    BY <1>1, <1>2, <2>1, <2>2 DEF R!Serve, R!Discard, R!None, NoPlan, Switching
  <2>4. QED
    BY <1>2, <2>3 DEF R!Next
<1>8. CASE act[q].at \in 1 .. 4
  <2>1. LinkOrder[act[q].at] \notin {"current", "previous"}
    BY <1>8, LinkRelease
  <2>2. QED
    BY <1>4, <1>5, <2>1, LinkRelease
<1>9. CASE act[q].at = 5 /\ links["previous"]' = links["previous"]
  BY <1>4, <1>5, <1>9, LinkRelease
<1>10. QED
  BY <1>3, <1>6, <1>7, <1>8, <1>9

\* Every step is one of Repository or changes neither directories nor links.
LEMMA NextRefines ==
  IInv /\ [Next]_vars => [~raced' => R!Next]_<<dirs, links>>
<1>1. SUFFICES ASSUME IInv, [Next]_vars, ~raced', ~ UNCHANGED <<dirs, links>>
               PROVE  R!Next
  OBVIOUS
<1>2. Hand /\ Linking
  BY <1>1 DEF IInv
<1>3. (Commit /\ ~UNCHANGED dirs) \/ RemoveDir \/ \E q \in Procs : MoveLink(q)
  BY <1>1 DEF Next, DaemonStep, SignerStep, OperatorStep, Issue, Collect, GiveUp,
              RemoveOutbox, RemoveInbox, Change, Resolve, List, Skip, PlanGone, Recommit,
              Stage, Move, MoveSig, Commit, Verify, BeginPrune,
              RemoveFile, EndPrune, Answer, Rollback, StepFails, Crash, vars, fileVars, Procs
<1>4. ~raced
  <2>1. CASE Commit \/ RemoveDir
    BY <1>1, <2>1 DEF Commit, RemoveDir, Goto, Finish, Activate
  <2>2. ASSUME NEW q \in Procs, MoveLink(q) PROVE ~raced
    BY <1>1, <2>2 DEF MoveLink, Goto, Finish, Activate
  <2>3. QED
    BY <1>3, <2>1, <2>2
<1>5. QED
  BY <1>2, <1>3, <1>4, CommitStores, RemoveDirCleans, MoveLinkServes

\* Renames, link switches and prunes, and crashes between any two of them, are
\* steps of the abstract repository, unless a rollback overlapped.
THEOREM FilesRefine == Spec => ImplementsRepository
BY InitRefines, NextRefines, Invariance, InitHand, PTL DEF Spec, ImplementsRepository
=============================================================================
