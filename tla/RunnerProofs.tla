---------------------------- MODULE RunnerProofs ----------------------------
(***************************************************************************)
(* Proofs about Runner for any number of slots, upload handlers, chunks,   *)
(* retries and faults: types, that a package arrives whole, that an upload *)
(* resumes where it was, and that a wanted result is kept.                 *)
(***************************************************************************)
EXTENDS Runner, SequenceTheorems, TLAPS

-----------------------------------------------------------------------------
(* Types.                                                                  *)

States == {"queued", "running", "uploading", "succeeded", "failed"}
Results == {"none", "ok", "odd", "transient", "permanent"}
PutSteps == {"free", "check", "append", "digest", "rename"}
Positions == {"idle", "build", "deliver", "mark", "remove", "status", "put",
              "wait", "complete"}

Row == [st : States, attempt : 1 .. MaxRetries + 1, declared : Nat]
Put == [step : PutSteps, task : Tasks \cup {Nobody}, offset : Nat, chunk : Nat \X Nat]
Job == [exists : BOOLEAN, attempt : Nat, report : Results, output : Nat,
        marker : BOOLEAN]
Slot == [pc : Positions, attempt : Nat, result : Results, tries : 0 .. MaxTries - 1,
         received : Nat, restarted : BOOLEAN]
Chunks == Seq(Nat \X Nat)

ServerTypes == row \in Row /\ part \in Chunks /\ file \in Chunks
PutTypes == put \in [Handlers -> Put]
BuilderTypes == job \in Job /\ task \in [Tasks -> Slot] /\ recovering \in BOOLEAN
CountType == count \in 0 .. MaxEvents
HistoryTypes == {clashed, shared, unheard} \subseteq BOOLEAN

Typed == ServerTypes /\ PutTypes /\ BuilderTypes /\ CountType /\ HistoryTypes

\* The parameters as they are used below.
LEMMA Params ==
  /\ Size \in Nat /\ Size > 0 /\ MaxTries \in Nat /\ MaxTries > 0
  /\ MaxRetries \in Nat /\ MaxEvents \in Nat /\ Nobody \notin Tasks
BY RunnerAssumption

\* What is at rest has its type too.
LEMMA Rests == Resting \in Slot /\ NoPut \in Put /\ NoJob \in Job /\ <<>> \in Chunks
BY Params DEF Resting, Slot, Positions, Results, NoPut, Put, PutSteps, NoJob, Job, Chunks

\* A step counts its fault, within the bound.
LEMMA Counted ==
  ASSUME CountType, UNCHANGED count \/ \E e : Happens(e)
  PROVE  CountType'
BY Params DEF CountType, Happens

-----------------------------------------------------------------------------
(* The server's side of a step.                                            *)

\* fail_build: the next attempt is queued, or the row has failed.
Failing ==
  /\ row.st \in {"running", "uploading"}
  /\ part' = <<>> /\ file' = <<>>
  /\ \/ /\ row'.st = "queued" /\ row'.attempt = row.attempt + 1 /\ row'.declared = 0
     \/ /\ row'.st = "failed" /\ row'.attempt = row.attempt
        /\ row'.declared = row.declared

Leasing ==
  /\ row.st = "queued" /\ row'.st = "running"
  /\ row'.attempt = row.attempt /\ row'.declared = row.declared
  /\ UNCHANGED <<part, file>>

\* A report of packages is accepted.
Accepting ==
  /\ row.st = "running" /\ row'.st = "uploading"
  /\ row'.attempt = row.attempt /\ row'.declared = row.attempt
  /\ UNCHANGED <<part, file>>
  /\ clashed' = (clashed \/ \E h \in Handlers : put[h].step # "free")

Succeeding ==
  /\ row.st = "uploading" /\ file # <<>> /\ row'.st = "succeeded"
  /\ row'.attempt = row.attempt /\ row'.declared = row.declared
  /\ UNCHANGED <<part, file>>

\* What can become of the row.
RowStep == UNCHANGED serverVars \/ Failing \/ Leasing \/ Accepting \/ Succeeding

\* fail_build in these words.
LEMMA FailsRow ==
  ASSUME ServerTypes, row.st \in {"running", "uploading"}, NEW class, FailRow(class)
  PROVE  Failing /\ ServerTypes' /\ UNCHANGED clashed
<1>1. /\ row' = IF class = "transient" /\ row.attempt <= MaxRetries
                  THEN [st |-> "queued", attempt |-> row.attempt + 1, declared |-> 0]
                  ELSE [row EXCEPT !.st = "failed"]
      /\ part' = <<>> /\ file' = <<>> /\ UNCHANGED clashed
  BY DEF FailRow
<1>2. QED
  BY <1>1, Params, Rests DEF Failing, ServerTypes, Row, States

\* A lease in these words.
LEMMA Leases ==
  ASSUME ServerTypes, row.st = "queued", row' = [row EXCEPT !.st = "running"],
         UNCHANGED <<part, file>>
  PROVE  Leasing /\ ServerTypes'
BY DEF Leasing, ServerTypes, Row, States

\* complete in these words, whether it is answered or not.
LEMMA Succeeds ==
  ASSUME ServerTypes, UNCHANGED <<part, file>>,
         row' \in {row, IF row.st = "uploading" /\ file # <<>>
                          THEN [row EXCEPT !.st = "succeeded"] ELSE row}
  PROVE  (UNCHANGED serverVars \/ Succeeding) /\ ServerTypes'
BY DEF Succeeding, ServerTypes, Row, States, serverVars

\* An expected report: accepted, or the end of the attempt.
LEMMA Takes ==
  ASSUME ServerTypes, BuilderTypes, NEW t \in Tasks, Expected(t), TakeReport(t)
  PROVE  /\ ServerTypes'
         /\ clashed \in BOOLEAN => clashed' \in BOOLEAN
         /\ row.st = "running" /\ row.attempt = task[t].attempt
         /\ IF task[t].result = "ok" THEN Accepting ELSE Failing /\ UNCHANGED clashed
<1>1. row.st = "running" /\ row.attempt = task[t].attempt
  BY DEF Expected
<1>2. CASE task[t].result = "ok"
  <2>1. /\ row' = [row EXCEPT !.st = "uploading", !.declared = task[t].attempt]
        /\ clashed' = (clashed \/ \E h \in Handlers : put[h].step # "free")
        /\ UNCHANGED <<part, file>>
    BY <1>2 DEF TakeReport
  <2>2. task[t].attempt \in Nat
    BY DEF BuilderTypes, Slot
  <2>3. ServerTypes' /\ Accepting
    BY <1>1, <2>1, <2>2 DEF ServerTypes, Row, States, Accepting
  <2>4. QED
    BY <1>1, <1>2, <2>1, <2>3
<1>3. CASE task[t].result # "ok"
  <2>1. PICK class : FailRow(class)
    BY <1>3 DEF TakeReport
  <2>2. QED
    BY <1>1, <1>3, <2>1, FailsRow
<1>4. QED
  BY <1>2, <1>3

-----------------------------------------------------------------------------
(* The builder's side of a step.                                           *)

\* Slot t goes to one of the steps of S, or is done; what it delivers stays.
SlotStep(t, S) ==
  /\ task' \in [Tasks -> Slot]
  /\ \A u \in Tasks \ {t} : task'[u] = task[u]
  /\ \/ task'[t] = Resting /\ "idle" \in S
     \/ /\ task'[t].pc \in S \ {"idle"}
        /\ task'[t].attempt = task[t].attempt /\ task'[t].result = task[t].result
        /\ task'[t].received = task[t].received

\* Going to a step, whatever the slot does there.
LEMMA Goes ==
  ASSUME BuilderTypes, NEW t \in Tasks, NEW l \in Positions \ {"idle"}, Goto(t, l)
  PROVE  SlotStep(t, {l})
BY DEF BuilderTypes, Slot, Goto, SlotStep

\* An error leads back to the delivery or ends it.
LEMMA Retries ==
  ASSUME BuilderTypes, NEW t \in Tasks, Fails(t)
  PROVE  SlotStep(t, {"deliver", "idle"}) /\ recovering' \in BOOLEAN
<1>1. CASE task[t].tries + 1 < MaxTries
  <2>1. /\ task' = [task EXCEPT ![t].pc = "deliver", ![t].tries = @ + 1,
                                ![t].restarted = FALSE]
        /\ UNCHANGED recovering
    BY <1>1 DEF Fails
  <2>2. QED
    BY <1>1, <2>1, Params DEF BuilderTypes, Slot, Positions, SlotStep
<1>2. CASE ~(task[t].tries + 1 < MaxTries)
  <2>1. task' = [task EXCEPT ![t] = Resting] /\ recovering' = FALSE
    BY <1>2 DEF Fails
  <2>2. QED
    BY <2>1, Rests DEF BuilderTypes, SlotStep
<1>3. QED
  BY <1>1, <1>2

\* A request of handler h is answered: h is free, and who waited goes on.
LEMMA Answers ==
  ASSUME BuilderTypes, PutTypes, NEW h \in Handlers, NEW answer, Answered(h, answer)
  PROVE  /\ put' = [put EXCEPT ![h] = NoPut] /\ PutTypes' /\ recovering' \in BOOLEAN
         /\ put[h].task = Nobody => UNCHANGED task
         /\ put[h].task # Nobody =>
              /\ put[h].task \in Tasks
              /\ SlotStep(put[h].task, {"status", "remove", "deliver", "idle"})
              /\ task'[put[h].task].pc = "remove" => IsGone(answer) /\ ~GoesOn(put[h].task, answer)
<1>1. put' = [put EXCEPT ![h] = NoPut] /\ PutTypes'
  BY Rests DEF Answered, PutTypes
<1>2. CASE put[h].task = Nobody
  BY <1>1, <1>2 DEF Answered, BuilderTypes
<1>3. CASE put[h].task # Nobody
  <2>1. PICK t \in Tasks : t = put[h].task
    BY <1>3 DEF PutTypes, Put
  <2>2. CASE GoesOn(t, answer)
    <3>1. /\ task' = [task EXCEPT ![t].pc = "status", ![t].restarted = @ \/ answer = DigestMismatch]
          /\ UNCHANGED recovering
      BY <1>3, <2>1, <2>2 DEF Answered
    <3>2. PICK b \in BOOLEAN : b = (task[t].restarted \/ answer = DigestMismatch)
      BY DEF BuilderTypes, Slot
    <3>3. PICK y \in Slot : y = [task[t] EXCEPT !.pc = "status", !.restarted = b]
      BY DEF BuilderTypes, Slot, Positions
    <3>3a. /\ task' = [task EXCEPT ![t] = y] /\ y.pc = "status"
           /\ y.attempt = task[t].attempt /\ y.result = task[t].result
           /\ y.received = task[t].received
      BY <3>1, <3>2, <3>3 DEF BuilderTypes, Slot
    <3>4. SlotStep(t, {"status"}) /\ recovering' \in BOOLEAN
      BY <3>1, <3>3a DEF BuilderTypes, SlotStep
    <3>5. QED
      BY <1>1, <2>1, <3>4, <1>3 DEF SlotStep, Resting
  <2>3. CASE ~GoesOn(t, answer) /\ IsGone(answer)
    <3>1. Goto(t, "remove") /\ UNCHANGED recovering
      BY <1>3, <2>1, <2>3 DEF Answered
    <3>2. SlotStep(t, {"remove"})
      BY <3>1, Goes DEF Positions
    <3>3. QED
      BY <1>1, <1>3, <2>1, <2>3, <3>1, <3>2 DEF SlotStep, BuilderTypes
  <2>4. CASE ~GoesOn(t, answer) /\ ~IsGone(answer)
    <3>1. Fails(t)
      BY <1>3, <2>1, <2>4 DEF Answered
    <3>2. SlotStep(t, {"deliver", "idle"}) /\ recovering' \in BOOLEAN
      BY <3>1, Retries
    <3>3. QED
      BY <1>1, <1>3, <2>1, <3>2 DEF SlotStep, Resting
  <2>5. QED
    BY <2>2, <2>3, <2>4
<1>4. QED
  BY <1>2, <1>3

-----------------------------------------------------------------------------
(* What each action does, field by field.                                  *)

\* Slot t is at step l of attempt a with result r; the others stay.
Turns(t, l, a, r) ==
  /\ task' \in [Tasks -> Slot]
  /\ \A u \in Tasks \ {t} : task'[u] = task[u]
  /\ task'[t].pc = l /\ task'[t].attempt = a /\ task'[t].result = r

\* The directory as written by a task: its report and what it built.
Reports(r, o) ==
  /\ job'.exists /\ job'.attempt = job.attempt /\ job'.marker = job.marker
  /\ job'.report = r /\ job'.output = o

\* A lease sets the directory up anew for one more slot.
LEMMA LeaseDoes ==
  ASSUME Typed, NEW t \in Tasks, Lease(t)
  PROVE  /\ Typed' /\ Leasing /\ UNCHANGED <<put, clashed, unheard>>
         /\ task[t].pc = "idle" /\ Turns(t, "build", row.attempt, "none")
         /\ job'.exists /\ job'.attempt = row.attempt /\ job'.output = 0
         /\ job'.report = "none" /\ job'.marker = FALSE
         /\ shared' = (shared \/ \E u \in Tasks \ {t} : task[u].pc # "idle")
<1>1. /\ task[t].pc = "idle" /\ row.st = "queued"
      /\ row' = [row EXCEPT !.st = "running"]
      /\ job' = [NoJob EXCEPT !.exists = TRUE, !.attempt = row.attempt]
      /\ task' = [task EXCEPT ![t] = [Resting EXCEPT !.pc = "build", !.attempt = row.attempt]]
      /\ shared' = (shared \/ \E u \in Tasks \ {t} : task[u].pc # "idle")
      /\ UNCHANGED <<part, file, put, recovering, count, clashed, unheard>>
  BY DEF Lease
<1>2. ServerTypes' /\ Leasing
  BY <1>1, Leases DEF Typed
<1>3. row.attempt \in Nat
  BY Params DEF Typed, ServerTypes, Row
<1>4. /\ job' = [exists |-> TRUE, attempt |-> row.attempt, report |-> "none", output |-> 0,
                 marker |-> FALSE]
      /\ job' \in Job
  BY <1>1, <1>3 DEF NoJob, Job, Results
<1>5. PICK x \in Slot : /\ x = [Resting EXCEPT !.pc = "build", !.attempt = row.attempt]
                        /\ x.pc = "build" /\ x.attempt = row.attempt /\ x.result = "none"
  <2>1. PICK y \in Slot : y = Resting
    BY Rests
  <2>2. y.result = "none"
    BY <2>1 DEF Resting
  <2>3. PICK x \in Slot : x = [y EXCEPT !.pc = "build", !.attempt = row.attempt]
    BY <1>3 DEF Slot, Positions
  <2>4. QED
    BY <2>1, <2>2, <2>3 DEF Slot
<1>6. Turns(t, "build", row.attempt, "none")
  BY <1>1, <1>5 DEF Turns, Typed, BuilderTypes
<1>7. Typed'
  BY <1>1, <1>2, <1>4, <1>6 DEF Typed, Turns, BuilderTypes, PutTypes, CountType, HistoryTypes
<1>8. /\ job'.exists /\ job'.attempt = row.attempt /\ job'.output = 0
      /\ job'.report = "none" /\ job'.marker = FALSE
  BY <1>4
<1>9. QED
  BY <1>1, <1>2, <1>6, <1>7, <1>8

\* A lease nobody hears of.
LEMMA LoseLeaseDoes ==
  ASSUME Typed, LoseLease
  PROVE  Typed' /\ Leasing /\ UNCHANGED <<put, job, task, recovering, history>>
<1>1. ServerTypes' /\ Leasing
  BY Leases DEF LoseLease, Typed
<1>2. CountType'
  BY Counted DEF LoseLease, Typed
<1>3. QED
  BY <1>1, <1>2 DEF LoseLease, Typed, PutTypes, BuilderTypes, HistoryTypes, history

\* Writing the report: another result, and perhaps packages.
LEMMA WriteReportDoes ==
  ASSUME Typed, NEW t \in Tasks, NEW r \in Results, NEW o \in Nat, WriteReport(t, r, o)
  PROVE  /\ job' \in Job /\ Reports(r, o)
         /\ Turns(t, "deliver", task[t].attempt, r)
<1>1. /\ job' = [job EXCEPT !.exists = TRUE, !.report = r, !.output = o]
      /\ task' = [task EXCEPT ![t].pc = "deliver", ![t].result = r]
  BY DEF WriteReport
<1>2. job' \in Job /\ Reports(r, o)
  BY <1>1 DEF Typed, BuilderTypes, Job, Reports
<1>3. Turns(t, "deliver", task[t].attempt, r)
  BY <1>1 DEF Typed, BuilderTypes, Slot, Positions, Turns
<1>4. QED
  BY <1>2, <1>3

\* A build ends in a report of what the directory has, or of what fails.
LEMMA BuildDoes ==
  ASSUME Typed, NEW t \in Tasks, BuildOk(t) \/ BuildFails(t)
  PROVE  /\ Typed' /\ UNCHANGED <<serverVars, put, history>>
         /\ task[t].pc = "build"
         /\ \E r \in Results, o \in {0, job.output, task[t].attempt} :
              Reports(r, o) /\ Turns(t, "deliver", task[t].attempt, r)
<1>1. /\ task[t].pc = "build" /\ UNCHANGED <<serverVars, put, recovering, history>>
      /\ UNCHANGED count \/ \E e : Happens(e)
  BY DEF BuildOk, BuildFails
<1>2. {0, job.output, task[t].attempt} \subseteq Nat
  BY DEF Typed, BuilderTypes, Job, Slot
<1>3. PICK r \in Results, o \in {0, job.output, task[t].attempt} : WriteReport(t, r, o)
  <2>1. CASE BuildOk(t)
    BY <2>1 DEF BuildOk, Results, Class
  <2>2. CASE BuildFails(t)
    <3>1. PICK r \in {Class(code) : code \in BuildErrors} \cup {"odd"} :
            WriteReport(t, r, IF r = "odd" THEN task[t].attempt ELSE job.output)
      BY <2>2 DEF BuildFails
    <3>2. r \in Results
      BY DEF Results, Class
    <3>3. CASE r = "odd"
      BY <3>1, <3>2, <3>3
    <3>4. CASE r # "odd"
      BY <3>1, <3>2, <3>4
    <3>5. QED
      BY <3>3, <3>4
  <2>3. QED
    BY <2>1, <2>2
<1>4. Reports(r, o) /\ Turns(t, "deliver", task[t].attempt, r) /\ job' \in Job
  BY <1>2, <1>3, WriteReportDoes
<1>5. Typed'
  BY <1>1, <1>4, Counted
  DEF Typed, Turns, BuilderTypes, PutTypes, HistoryTypes, ServerTypes, serverVars, history
<1>6. QED
  BY <1>1, <1>4, <1>5

\* The parts a delivery does not touch keep their types.
LEMMA Kept ==
  ASSUME Typed
  PROVE  /\ UNCHANGED serverVars => ServerTypes'
         /\ UNCHANGED put => PutTypes'
         /\ UNCHANGED history => HistoryTypes'
         /\ job' = job => job' \in Job
         /\ recovering' = recovering => recovering' \in BOOLEAN
         /\ UNCHANGED count \/ (\E e : Happens(e)) => CountType'
         /\ \A t, S : SlotStep(t, S) => task' \in [Tasks -> Slot]
BY Counted DEF Typed, ServerTypes, PutTypes, HistoryTypes, BuilderTypes, serverVars, history,
               SlotStep

\* A report whose marker is there is not sent again.
LEMMA ReportedDoes ==
  ASSUME Typed, NEW t \in Tasks, Reported(t)
  PROVE  /\ Typed' /\ UNCHANGED <<serverVars, put, job, history>>
         /\ task[t].pc = "deliver" /\ job.exists /\ job.marker
         /\ SlotStep(t, {IF task[t].result \in {"ok", "odd"} THEN "status" ELSE "remove"})
<1>1. /\ task[t].pc = "deliver" /\ job.exists /\ job.marker
      /\ Goto(t, IF task[t].result \in {"ok", "odd"} THEN "status" ELSE "remove")
      /\ UNCHANGED <<serverVars, put, job, recovering, count, history>>
  BY DEF Reported
<1>2. (IF task[t].result \in {"ok", "odd"} THEN "status" ELSE "remove") \in Positions \ {"idle"}
  BY DEF Positions
<1>3. SlotStep(t, {IF task[t].result \in {"ok", "odd"} THEN "status" ELSE "remove"})
  BY <1>1, <1>2, Goes DEF Typed
<1>4. Typed'
  BY <1>1, <1>3, Kept DEF Typed, BuilderTypes
<1>5. QED
  BY <1>1, <1>3, <1>4

\* A report is refused, or decides what becomes of the row.
LEMMA ReportDoes ==
  ASSUME Typed, NEW t \in Tasks, Report(t)
  PROVE  /\ Typed' /\ UNCHANGED <<put, job, shared, unheard>>
         /\ task[t].pc = "deliver" /\ ~(job.exists /\ job.marker)
         /\ \/ /\ ~Expected(t) /\ UNCHANGED <<serverVars, clashed>>
               /\ SlotStep(t, {"remove"})
            \/ /\ row.st = "running" /\ row.attempt = task[t].attempt
               /\ IF task[t].result = "ok" THEN Accepting ELSE Failing /\ UNCHANGED clashed
               /\ IF task[t].result = "odd" THEN SlotStep(t, {"deliver", "idle"})
                                            ELSE SlotStep(t, {"mark"})
<1>1. /\ task[t].pc = "deliver" /\ ~(job.exists /\ job.marker)
      /\ UNCHANGED <<put, job, count, shared, unheard>>
  BY DEF Report
<1>2. CASE ~Expected(t)
  <2>1. Goto(t, "remove") /\ UNCHANGED <<serverVars, recovering, clashed>>
    BY <1>2 DEF Report
  <2>2. SlotStep(t, {"remove"})
    BY <2>1, Goes DEF Typed, Positions
  <2>3. Typed'
    BY <1>1, <2>1, <2>2, Kept DEF Typed, BuilderTypes, history
  <2>4. QED
    BY <1>1, <1>2, <2>1, <2>2, <2>3
<1>3. CASE Expected(t)
  <2>1. /\ TakeReport(t)
        /\ IF task[t].result = "odd" THEN Fails(t) ELSE Goto(t, "mark") /\ UNCHANGED recovering
    BY <1>3 DEF Report
  <2>2. /\ ServerTypes' /\ clashed' \in BOOLEAN
        /\ row.st = "running" /\ row.attempt = task[t].attempt
        /\ IF task[t].result = "ok" THEN Accepting ELSE Failing /\ UNCHANGED clashed
    BY <1>3, <2>1, Takes DEF Typed, HistoryTypes
  <2>3. /\ recovering' \in BOOLEAN
        /\ IF task[t].result = "odd" THEN SlotStep(t, {"deliver", "idle"})
                                     ELSE SlotStep(t, {"mark"})
    BY <2>1, Goes, Retries DEF Typed, BuilderTypes, Positions
  <2>4. Typed'
    <3>1. task' \in [Tasks -> Slot]
      BY <2>3 DEF SlotStep
    <3>2. QED
      BY <1>1, <2>2, <2>3, <3>1, Kept DEF Typed, BuilderTypes, HistoryTypes
  <2>5. QED
    BY <1>1, <2>2, <2>3, <2>4
<1>4. QED
  BY <1>2, <1>3

\* A lost report may have decided it too.
LEMMA LoseReportDoes ==
  ASSUME Typed, NEW t \in Tasks, LoseReport(t)
  PROVE  /\ Typed' /\ UNCHANGED <<put, job, shared>>
         /\ task[t].pc = "deliver" /\ SlotStep(t, {"deliver", "idle"})
         /\ \/ UNCHANGED <<serverVars, clashed, unheard>>
            \/ /\ row.st = "running" /\ row.attempt = task[t].attempt /\ unheard' = TRUE
               /\ IF task[t].result = "ok" THEN Accepting ELSE Failing /\ UNCHANGED clashed
<1>1. /\ task[t].pc = "deliver" /\ Happens("lose") /\ Fails(t)
      /\ UNCHANGED <<put, job, shared>>
  BY DEF LoseReport
<1>2. SlotStep(t, {"deliver", "idle"}) /\ recovering' \in BOOLEAN /\ task' \in [Tasks -> Slot]
  BY <1>1, Retries DEF Typed, SlotStep
<1>3. CASE UNCHANGED <<serverVars, clashed, unheard>>
  <2>1. Typed'
    BY <1>1, <1>2, <1>3, Kept DEF Typed, BuilderTypes, history
  <2>2. QED
    BY <1>1, <1>2, <1>3, <2>1
<1>4. CASE Expected(t) /\ TakeReport(t) /\ unheard' = TRUE
  <2>1. /\ ServerTypes' /\ clashed' \in BOOLEAN
        /\ row.st = "running" /\ row.attempt = task[t].attempt
        /\ IF task[t].result = "ok" THEN Accepting ELSE Failing /\ UNCHANGED clashed
    BY <1>4, Takes DEF Typed, HistoryTypes
  <2>2. Typed'
    BY <1>1, <1>2, <1>4, <2>1, Kept DEF Typed, BuilderTypes, HistoryTypes
  <2>3. QED
    BY <1>1, <1>2, <1>4, <2>1, <2>2
<1>5. QED
  BY <1>3, <1>4 DEF LoseReport

\* The marker is written where the directory is still there.
LEMMA MarkDoes ==
  ASSUME Typed, NEW t \in Tasks, Mark(t)
  PROVE  /\ Typed' /\ UNCHANGED <<serverVars, put, history>>
         /\ task[t].pc = "mark"
         /\ \/ /\ job.exists /\ job'.marker
               /\ job'.exists /\ job'.attempt = job.attempt
               /\ job'.report = job.report /\ job'.output = job.output
               /\ SlotStep(t, {IF task[t].result = "ok" THEN "status" ELSE "remove"})
            \/ ~job.exists /\ UNCHANGED job /\ SlotStep(t, {"deliver", "idle"})
<1>1. task[t].pc = "mark" /\ UNCHANGED <<serverVars, put, count, history>>
  BY DEF Mark
<1>2. CASE job.exists
  <2>1. /\ job' = [job EXCEPT !.marker = TRUE] /\ UNCHANGED recovering
        /\ Goto(t, IF task[t].result = "ok" THEN "status" ELSE "remove")
    BY <1>2 DEF Mark
  <2>2. (IF task[t].result = "ok" THEN "status" ELSE "remove") \in Positions \ {"idle"}
    BY DEF Positions
  <2>3. SlotStep(t, {IF task[t].result = "ok" THEN "status" ELSE "remove"})
    BY <2>1, <2>2, Goes DEF Typed
  <2>4. /\ job' \in Job /\ job'.exists /\ job'.marker /\ job'.attempt = job.attempt
        /\ job'.report = job.report /\ job'.output = job.output
    BY <1>2, <2>1 DEF Typed, BuilderTypes, Job
  <2>5. Typed'
    BY <1>1, <2>1, <2>3, <2>4, Kept DEF Typed, BuilderTypes
  <2>6. QED
    BY <1>1, <1>2, <2>3, <2>4, <2>5
<1>3. CASE ~job.exists
  <2>1. Fails(t) /\ UNCHANGED job
    BY <1>3 DEF Mark
  <2>2. SlotStep(t, {"deliver", "idle"}) /\ recovering' \in BOOLEAN
    BY <2>1, Retries DEF Typed
  <2>3. Typed'
    BY <1>1, <2>1, <2>2, Kept DEF Typed, BuilderTypes
  <2>4. QED
    BY <1>1, <1>3, <2>1, <2>2, <2>3
<1>4. QED
  BY <1>2, <1>3

\* The end of a delivery leaves no directory.
LEMMA RemoveDoes ==
  ASSUME Typed, NEW t \in Tasks, Remove(t)
  PROVE  /\ Typed' /\ UNCHANGED <<serverVars, put, history>>
         /\ task[t].pc = "remove" /\ job' = NoJob /\ SlotStep(t, {"idle"})
<1>1. /\ task[t].pc = "remove" /\ job' = NoJob /\ recovering' = FALSE
      /\ task' = [task EXCEPT ![t] = Resting]
      /\ UNCHANGED <<serverVars, put, count, history>>
  BY DEF Remove
<1>2. SlotStep(t, {"idle"})
  BY <1>1, Rests DEF SlotStep, Typed, BuilderTypes
<1>3. Typed'
  BY <1>1, <1>2, Kept, Rests DEF Typed, BuilderTypes
<1>4. QED
  BY <1>1, <1>2, <1>3

\* upload_status says which step is next.
LEMMA StatusDoes ==
  ASSUME Typed, NEW t \in Tasks, Status(t)
  PROVE  /\ Typed' /\ UNCHANGED <<serverVars, put, job, history>>
         /\ task[t].pc = "status"
         /\ \/ row.st # "uploading" /\ SlotStep(t, {"remove"})
            \/ row.st = "uploading" /\ file # <<>> /\ SlotStep(t, {"complete"})
            \/ row.st = "uploading" /\ SlotStep(t, {"deliver", "idle"})
            \/ /\ row.st = "uploading" /\ Turns(t, "put", task[t].attempt, task[t].result)
               /\ task'[t].received < Size
<1>1. task[t].pc = "status" /\ UNCHANGED <<serverVars, put, job, count, history>>
  BY DEF Status
<1>2. SUFFICES /\ task' \in [Tasks -> Slot] /\ recovering' \in BOOLEAN
               /\ \/ row.st # "uploading" /\ SlotStep(t, {"remove"})
                  \/ row.st = "uploading" /\ file # <<>> /\ SlotStep(t, {"complete"})
                  \/ row.st = "uploading" /\ SlotStep(t, {"deliver", "idle"})
                  \/ /\ row.st = "uploading" /\ Turns(t, "put", task[t].attempt, task[t].result)
                     /\ task'[t].received < Size
  <2>1. Typed'
    BY <1>1, <1>2, Kept DEF Typed, BuilderTypes
  <2>2. QED
    BY <1>1, <1>2, <2>1
<1>3. CASE row.st # "uploading" \/ file # <<>>
  <2>1. PICK l \in {"remove", "complete"} :
          /\ Goto(t, l) /\ UNCHANGED recovering
          /\ IF row.st # "uploading" THEN l = "remove" ELSE l = "complete"
    BY <1>3 DEF Status
  <2>2. SlotStep(t, {l})
    BY <2>1, Goes DEF Typed, Positions
  <2>3. task' \in [Tasks -> Slot] /\ recovering' \in BOOLEAN
    BY <2>1, <2>2 DEF SlotStep, Typed, BuilderTypes
  <2>4. QED
    BY <1>3, <2>1, <2>2, <2>3
<1>4. CASE row.st = "uploading" /\ file = <<>> /\ Len(part) >= Size
  <2>1. Fails(t)
    BY <1>4 DEF Status
  <2>2. SlotStep(t, {"deliver", "idle"}) /\ recovering' \in BOOLEAN
    BY <2>1, Retries DEF Typed
  <2>3. QED
    BY <1>4, <2>2 DEF SlotStep
<1>5. CASE row.st = "uploading" /\ file = <<>> /\ ~(Len(part) >= Size)
  <2>1. /\ task' = [task EXCEPT ![t].pc = "put", ![t].received = Len(part)]
        /\ UNCHANGED recovering
    BY <1>5 DEF Status
  <2>2. Len(part) \in Nat /\ Len(part) < Size
    BY <1>5, Params DEF Typed, ServerTypes, Chunks
  <2>3. /\ Turns(t, "put", task[t].attempt, task[t].result)
        /\ task'[t].received < Size
    BY <2>1, <2>2 DEF Turns, Typed, BuilderTypes, Slot, Positions
  <2>4. QED
    BY <1>5, <2>1, <2>3 DEF Turns, Typed, BuilderTypes
<1>6. QED
  BY <1>3, <1>4, <1>5

\* A lost upload_status changes the slot only.
LEMMA LoseStatusDoes ==
  ASSUME Typed, NEW t \in Tasks, LoseStatus(t)
  PROVE  /\ Typed' /\ UNCHANGED <<serverVars, put, job, history>>
         /\ task[t].pc = "status" /\ SlotStep(t, {"deliver", "idle"})
<1>1. /\ task[t].pc = "status" /\ Happens("lose") /\ Fails(t)
      /\ UNCHANGED <<serverVars, put, job, history>>
  BY DEF LoseStatus
<1>2. SlotStep(t, {"deliver", "idle"}) /\ recovering' \in BOOLEAN
  BY <1>1, Retries DEF Typed
<1>3. Typed'
  BY <1>1, <1>2, Kept DEF Typed, BuilderTypes
<1>4. QED
  BY <1>1, <1>2, <1>3

\* complete may end the row, and is followed by the removal or an error.
LEMMA CompleteDoes ==
  ASSUME Typed, NEW t \in Tasks, Complete(t) \/ LoseComplete(t)
  PROVE  /\ Typed' /\ UNCHANGED <<put, job, history>>
         /\ task[t].pc = "complete" /\ (UNCHANGED serverVars \/ Succeeding)
         /\ \/ SlotStep(t, {"deliver", "idle"})
            \/ /\ SlotStep(t, {"remove"})
               /\ row.st = "uploading" /\ file # <<>> => Succeeding
<1>1. /\ task[t].pc = "complete" /\ UNCHANGED <<part, file, put, job, history>>
      /\ row' \in {row, IF row.st = "uploading" /\ file # <<>>
                          THEN [row EXCEPT !.st = "succeeded"] ELSE row}
      /\ UNCHANGED count \/ \E e : Happens(e)
  BY DEF Complete, LoseComplete
<1>2. (UNCHANGED serverVars \/ Succeeding) /\ ServerTypes'
  BY <1>1, Succeeds DEF Typed
<1>3. CASE Complete(t)
  <2>1. /\ row' = IF row.st = "uploading" /\ file # <<>> THEN [row EXCEPT !.st = "succeeded"]
                                                         ELSE row
        /\ Goto(t, "remove") /\ UNCHANGED recovering
    BY <1>3 DEF Complete
  <2>2. SlotStep(t, {"remove"})
    BY <2>1, Goes DEF Typed, Positions
  <2>3. row.st = "uploading" /\ file # <<>> => Succeeding
    BY <1>1, <2>1 DEF Typed, ServerTypes, Row, Succeeding
  <2>4. Typed'
    BY <1>1, <1>2, <2>1, <2>2, Kept DEF Typed, BuilderTypes
  <2>5. QED
    BY <1>1, <1>2, <2>2, <2>3, <2>4
<1>4. CASE LoseComplete(t)
  <2>1. SlotStep(t, {"deliver", "idle"}) /\ recovering' \in BOOLEAN
    BY <1>4, Retries DEF LoseComplete, Typed
  <2>2. Typed'
    BY <1>1, <1>2, <2>1, Kept DEF Typed, BuilderTypes
  <2>3. QED
    BY <1>1, <1>2, <2>1, <2>2
<1>5. QED
  BY <1>3, <1>4

\* A chunk is the next one of what the directory has built.
LEMMA SendDoes ==
  ASSUME Typed, NEW t \in Tasks, Send(t)
  PROVE  /\ Typed' /\ UNCHANGED <<serverVars, job, history>>
         /\ task[t].pc = "put"
         /\ \/ UNCHANGED put /\ SlotStep(t, {"deliver", "idle"})
            \/ /\ job.output # 0 /\ SlotStep(t, {"wait"})
               /\ \E h \in Handlers :
                    /\ put[h].step = "free"
                    /\ \A g \in Handlers \ {h} : put'[g] = put[g]
                    /\ put'[h].step = "check" /\ put'[h].task = t
                    /\ put'[h].offset = task[t].received
                    /\ put'[h].chunk = <<job.output, task[t].received>>
<1>1. task[t].pc = "put" /\ UNCHANGED <<serverVars, job, count, history>>
  BY DEF Send
<1>2. CASE job.output = 0
  <2>1. Fails(t) /\ UNCHANGED put
    BY <1>2 DEF Send
  <2>2. SlotStep(t, {"deliver", "idle"}) /\ recovering' \in BOOLEAN
    BY <2>1, Retries DEF Typed
  <2>3. Typed'
    BY <1>1, <2>1, <2>2, Kept DEF Typed, BuilderTypes
  <2>4. QED
    BY <1>1, <2>1, <2>2, <2>3
<1>3. CASE job.output # 0
  <2>1. PICK h \in Handlers :
          /\ put[h].step = "free"
          /\ put' = [put EXCEPT ![h] = [step |-> "check", task |-> t, offset |-> task[t].received,
                                        chunk |-> <<job.output, task[t].received>>]]
          /\ Goto(t, "wait") /\ UNCHANGED recovering
    BY <1>3 DEF Send
  <2>2. SlotStep(t, {"wait"})
    BY <2>1, Goes DEF Typed, Positions
  <2>3. job.output \in Nat /\ task[t].received \in Nat
    BY DEF Typed, BuilderTypes, Job, Slot
  <2>4. [step |-> "check", task |-> t, offset |-> task[t].received,
         chunk |-> <<job.output, task[t].received>>] \in Put
    BY <2>3 DEF Put, PutSteps
  <2>5. /\ PutTypes' /\ \A g \in Handlers \ {h} : put'[g] = put[g]
        /\ put'[h] = [step |-> "check", task |-> t, offset |-> task[t].received,
                      chunk |-> <<job.output, task[t].received>>]
    BY <2>1, <2>4 DEF Typed, PutTypes
  <2>6. Typed'
    BY <1>1, <2>1, <2>2, <2>5, Kept DEF Typed, BuilderTypes
  <2>7. QED
    BY <1>1, <1>3, <2>1, <2>2, <2>5, <2>6
<1>4. QED
  BY <1>2, <1>3

\* Requests nobody waits for any more.
Forgets(h) ==
  \/ put'[h] = put[h] \/ put'[h] = NoPut
  \/ /\ put'[h].step = put[h].step /\ put'[h].offset = put[h].offset
     /\ put'[h].chunk = put[h].chunk /\ put'[h].task = Nobody

\* A chunk that is given up leaves requests nobody waits for.
LEMMA LoseChunkDoes ==
  ASSUME Typed, NEW t \in Tasks, LoseChunk(t)
  PROVE  /\ Typed' /\ UNCHANGED <<serverVars, job, history>>
         /\ task[t].pc = "wait" /\ SlotStep(t, {"deliver", "idle"})
         /\ \A h \in Handlers : Forgets(h) /\ put'[h].task # t
<1>1. /\ task[t].pc = "wait" /\ Happens("lose") /\ Fails(t)
      /\ UNCHANGED <<serverVars, job, history>>
  BY DEF LoseChunk
<1>2. PICK dropped \in BOOLEAN :
        put' = [h \in Handlers |-> IF put[h].task # t THEN put[h]
                                   ELSE IF dropped THEN NoPut
                                   ELSE [put[h] EXCEPT !.task = Nobody]]
  BY DEF LoseChunk
<1>3. \A h \in Handlers : [put[h] EXCEPT !.task = Nobody] \in Put
  BY DEF Typed, PutTypes, Put
<1>4. PutTypes'
  BY <1>2, <1>3, Rests DEF Typed, PutTypes
<1>5. ASSUME NEW h \in Handlers PROVE Forgets(h) /\ put'[h].task # t
  BY <1>2, Params DEF Forgets, Typed, PutTypes, Put, NoPut
<1>6. SlotStep(t, {"deliver", "idle"}) /\ recovering' \in BOOLEAN
  BY <1>1, Retries DEF Typed
<1>7. Typed'
  BY <1>1, <1>4, <1>6, Kept DEF Typed, BuilderTypes
<1>8. QED
  BY <1>1, <1>5, <1>6, <1>7

\* Handler h is free again and the task that waits goes on at a step of S.
Frees(h, S) ==
  /\ put' = [put EXCEPT ![h] = NoPut]
  /\ put[h].task = Nobody => UNCHANGED task
  /\ put[h].task # Nobody => put[h].task \in Tasks /\ SlotStep(put[h].task, S)

\* The same with the types, for an answer that takes the job away or not.
LEMMA AnsweredDoes ==
  ASSUME Typed, NEW h \in Handlers, NEW answer, Answered(h, answer), UNCHANGED <<job, count>>
  PROVE  /\ PutTypes' /\ BuilderTypes' /\ CountType'
         /\ Frees(h, {"status", "remove", "deliver", "idle"})
         /\ answer \in {Received, OffsetMismatch, DigestMismatch, Internal} =>
              Frees(h, {"status", "deliver", "idle"})
<1>1. /\ put' = [put EXCEPT ![h] = NoPut] /\ PutTypes' /\ recovering' \in BOOLEAN
      /\ put[h].task = Nobody => UNCHANGED task
      /\ put[h].task # Nobody =>
           /\ put[h].task \in Tasks
           /\ SlotStep(put[h].task, {"status", "remove", "deliver", "idle"})
           /\ task'[put[h].task].pc = "remove" => IsGone(answer) /\ ~GoesOn(put[h].task, answer)
  BY Answers DEF Typed
<1>2. task' \in [Tasks -> Slot]
  BY <1>1 DEF Typed, BuilderTypes, SlotStep
<1>3. Frees(h, {"status", "remove", "deliver", "idle"})
  BY <1>1 DEF Frees
<1>4. ASSUME answer \in {Received, OffsetMismatch, DigestMismatch, Internal}
      PROVE  Frees(h, {"status", "deliver", "idle"})
  <2>1. \A t : ~ (IsGone(answer) /\ ~GoesOn(t, answer))
    <3>1. CASE answer \in {Received, OffsetMismatch}
      BY <3>1 DEF GoesOn
    <3>2. CASE answer \in {DigestMismatch, Internal}
      BY <3>2 DEF IsGone, DigestMismatch, Internal
    <3>3. QED
      BY <1>4, <3>1, <3>2
  <2>2. put[h].task # Nobody => SlotStep(put[h].task, {"status", "deliver", "idle"})
    BY <1>1, <2>1 DEF SlotStep
  <2>3. QED
    BY <1>1, <2>2 DEF Frees
<1>5. PutTypes' /\ BuilderTypes' /\ CountType'
  BY <1>1, <1>2, Kept DEF Typed, BuilderTypes
<1>6. QED
  BY <1>3, <1>4, <1>5

\* Handler h is at step l of the same request.
Advances(h, l) ==
  /\ \A g \in Handlers \ {h} : put'[g] = put[g]
  /\ put'[h].step = l /\ put'[h].task = put[h].task
  /\ put'[h].offset = put[h].offset /\ put'[h].chunk = put[h].chunk

\* A handler that moves on keeps its request.
LEMMA AdvancesTyped ==
  ASSUME PutTypes, NEW h \in Handlers, NEW l \in PutSteps, put' = [put EXCEPT ![h].step = l]
  PROVE  PutTypes' /\ Advances(h, l)
BY DEF PutTypes, Put, Advances

\* A chunk is refused, or goes where .part ends.
LEMMA CheckDoes ==
  ASSUME Typed, NEW h \in Handlers, Check(h)
  PROVE  /\ Typed' /\ UNCHANGED <<serverVars, job, shared, unheard>>
         /\ put[h].step = "check"
         /\ \/ /\ row.st # "uploading" /\ UNCHANGED clashed
               /\ Frees(h, {"status", "remove", "deliver", "idle"})
            \/ Frees(h, {"status", "deliver", "idle"}) /\ UNCHANGED clashed
            \/ /\ put[h].offset = Len(part)
               /\ Advances(h, "append") /\ UNCHANGED task
               /\ clashed' = (clashed \/ Writing # {})
<1>1. put[h].step = "check" /\ UNCHANGED <<serverVars, job, count, shared, unheard>>
  BY DEF Check
<1>2. CASE row.st # "uploading" \/ file # <<>> \/ ~OffsetFits(h)
  <2>1. PICK answer \in {NotActive, Received, OffsetMismatch} :
          /\ Answered(h, answer) /\ UNCHANGED clashed
          /\ row.st = "uploading" => answer \in {Received, OffsetMismatch}
    BY <1>2 DEF Check
  <2>3. /\ PutTypes' /\ BuilderTypes' /\ CountType'
        /\ Frees(h, {"status", "remove", "deliver", "idle"})
        /\ row.st = "uploading" => Frees(h, {"status", "deliver", "idle"})
    BY <1>1, <2>1, AnsweredDoes
  <2>4. Typed'
    BY <1>1, <2>1, <2>3, Kept DEF Typed, history
  <2>5. QED
    BY <1>1, <2>1, <2>3, <2>4
<1>3. CASE row.st = "uploading" /\ file = <<>> /\ OffsetFits(h)
  <2>1. /\ put' = [put EXCEPT ![h].step = "append"]
        /\ clashed' = (clashed \/ Writing # {}) /\ UNCHANGED <<task, recovering>>
    BY <1>3 DEF Check
  <2>2. PutTypes' /\ Advances(h, "append")
    BY <2>1, AdvancesTyped DEF Typed, PutSteps
  <2>3. Typed'
    BY <1>1, <2>1, <2>2, Kept DEF Typed, BuilderTypes, HistoryTypes
  <2>4. QED
    BY <1>1, <1>3, <2>1, <2>2, <2>3 DEF OffsetFits
<1>4. QED
  BY <1>2, <1>3

\* A chunk is appended while the row has a directory.
LEMMA AppendDoes ==
  ASSUME Typed, NEW h \in Handlers, AppendChunk(h)
  PROVE  /\ Typed' /\ UNCHANGED <<row, file, job, history>>
         /\ put[h].step = "append"
         /\ \/ Frees(h, {"status", "deliver", "idle"}) /\ UNCHANGED part
            \/ /\ row.st \in {"uploading", "succeeded"}
               /\ part' = Append(part, put[h].chunk)
               /\ \/ Frees(h, {"status", "deliver", "idle"})
                  \/ Advances(h, "digest") /\ UNCHANGED task
<1>1. put[h].step = "append" /\ UNCHANGED <<row, file, job, count, history>>
  BY DEF AppendChunk
<1>2. CASE row.st \notin {"uploading", "succeeded"}
  <2>1. Answered(h, Internal) /\ UNCHANGED part
    BY <1>2 DEF AppendChunk
  <2>2. /\ PutTypes' /\ BuilderTypes' /\ CountType' /\ Frees(h, {"status", "deliver", "idle"})
    BY <1>1, <2>1, AnsweredDoes
  <2>3. Typed'
    BY <1>1, <2>1, <2>2, Kept DEF Typed, serverVars
  <2>4. QED
    BY <1>1, <2>1, <2>2, <2>3
<1>3. CASE row.st \in {"uploading", "succeeded"}
  <2>1. part' = Append(part, put[h].chunk)
    BY <1>3 DEF AppendChunk
  <2>2. put[h].chunk \in Nat \X Nat
    BY DEF Typed, PutTypes, Put
  <2>3. ServerTypes'
    BY <1>1, <2>1, <2>2, AppendProperties DEF Typed, ServerTypes, Chunks
  <2>4. CASE put[h].offset + 1 = Size
    <3>1. put' = [put EXCEPT ![h].step = "digest"] /\ UNCHANGED <<task, recovering>>
      BY <1>3, <2>4 DEF AppendChunk
    <3>2. PutTypes' /\ Advances(h, "digest")
      BY <3>1, AdvancesTyped DEF Typed, PutSteps
    <3>3. Typed'
      BY <1>1, <2>3, <3>1, <3>2, Kept DEF Typed, BuilderTypes
    <3>4. QED
      BY <1>1, <1>3, <2>1, <3>1, <3>2, <3>3
  <2>5. CASE put[h].offset + 1 # Size
    <3>1. Answered(h, Received)
      BY <1>3, <2>5 DEF AppendChunk
    <3>2. /\ PutTypes' /\ BuilderTypes' /\ CountType' /\ Frees(h, {"status", "deliver", "idle"})
      BY <1>1, <3>1, AnsweredDoes
    <3>3. Typed'
      BY <1>1, <2>3, <3>2, Kept DEF Typed
    <3>4. QED
      BY <1>1, <1>3, <2>1, <3>2, <3>3
  <2>6. QED
    BY <2>4, <2>5
<1>4. QED
  BY <1>2, <1>3

\* A file that is whole by its size is the declared one, or is removed.
LEMMA DigestDoes ==
  ASSUME Typed, NEW h \in Handlers, Digest(h)
  PROVE  /\ Typed' /\ UNCHANGED <<row, file, job, history>>
         /\ put[h].step = "digest"
         /\ \/ Frees(h, {"status", "deliver", "idle"}) /\ part' = <<>>
            \/ part = Whole(row.declared) /\ Advances(h, "rename") /\ UNCHANGED <<part, task>>
<1>1. put[h].step = "digest" /\ UNCHANGED <<row, file, job, count, history>>
  BY DEF Digest
<1>2. CASE part = <<>> \/ ~DigestFits
  <2>1. PICK answer \in {Internal, DigestMismatch} : Answered(h, answer) /\ part' = <<>>
    BY <1>2 DEF Digest
  <2>2. /\ PutTypes' /\ BuilderTypes' /\ CountType' /\ Frees(h, {"status", "deliver", "idle"})
    BY <1>1, <2>1, AnsweredDoes
  <2>3. Typed'
    BY <1>1, <2>1, <2>2, Kept, Rests DEF Typed, ServerTypes
  <2>4. QED
    BY <1>1, <2>1, <2>2, <2>3
<1>3. CASE part # <<>> /\ DigestFits
  <2>1. put' = [put EXCEPT ![h].step = "rename"] /\ UNCHANGED <<part, task, recovering>>
    BY <1>3 DEF Digest
  <2>2. PutTypes' /\ Advances(h, "rename")
    BY <2>1, AdvancesTyped DEF Typed, PutSteps
  <2>3. Typed'
    BY <1>1, <2>1, <2>2, Kept DEF Typed, BuilderTypes, serverVars
  <2>4. QED
    BY <1>1, <1>3, <2>1, <2>2, <2>3 DEF DigestFits
<1>4. QED
  BY <1>2, <1>3

\* What is renamed is whatever .part is by now.
LEMMA RenameDoes ==
  ASSUME Typed, NEW h \in Handlers, Rename(h)
  PROVE  /\ Typed' /\ UNCHANGED <<row, job, history>>
         /\ put[h].step = "rename" /\ Frees(h, {"status", "deliver", "idle"})
         /\ IF part = <<>> THEN UNCHANGED <<part, file>> ELSE file' = part /\ part' = <<>>
<1>1. put[h].step = "rename" /\ UNCHANGED <<row, job, count, history>>
  BY DEF Rename
<1>2. PICK answer \in {Internal, Received} : Answered(h, answer)
  BY DEF Rename
<1>3. IF part = <<>> THEN UNCHANGED <<part, file>> ELSE file' = part /\ part' = <<>>
  BY DEF Rename
<1>4. /\ PutTypes' /\ BuilderTypes' /\ CountType' /\ Frees(h, {"status", "deliver", "idle"})
  BY <1>1, <1>2, AnsweredDoes
<1>5. Typed'
  BY <1>1, <1>3, <1>4, Kept, Rests DEF Typed, ServerTypes
<1>6. QED
  BY <1>1, <1>3, <1>4, <1>5

\* A lease that runs out fails the attempt.
LEMMA ExpireDoes ==
  ASSUME Typed, Expire \/ ExpireAbandoned
  PROVE  Typed' /\ Failing /\ UNCHANGED <<put, job, task, history>>
<1>1. /\ row.st \in {"running", "uploading"} /\ \E class : FailRow(class)
      /\ UNCHANGED <<put, job, task, recovering, shared, unheard>>
      /\ UNCHANGED count \/ \E e : Happens(e)
  BY DEF Expire, ExpireAbandoned, Overdue
<1>2. Failing /\ ServerTypes' /\ UNCHANGED clashed
  BY <1>1, FailsRow DEF Typed
<1>3. Typed'
  BY <1>1, <1>2, Kept DEF Typed, BuilderTypes, history
<1>4. QED
  BY <1>1, <1>2, <1>3 DEF history

\* A crash ends every slot, and no request is waited for.
LEMMA CrashDoes ==
  ASSUME Typed, Crash
  PROVE  /\ Typed' /\ UNCHANGED <<serverVars, job, clashed, shared>>
         /\ \A t \in Tasks : task'[t] = Resting
         /\ \A h \in Handlers : Forgets(h) /\ put'[h].task = Nobody
         /\ unheard' = (unheard \/ \E t \in Tasks : task[t].pc = "mark")
<1>1. /\ Happens("crash") /\ task' = [t \in Tasks |-> Resting] /\ recovering' = TRUE
      /\ put' = [h \in Handlers |-> [put[h] EXCEPT !.task = Nobody]]
      /\ unheard' = (unheard \/ \E t \in Tasks : task[t].pc = "mark")
      /\ UNCHANGED <<serverVars, job, clashed, shared>>
  BY DEF Crash
<1>2. PutTypes' /\ \A h \in Handlers : Forgets(h) /\ put'[h].task = Nobody
  BY <1>1 DEF Typed, PutTypes, Put, Forgets
<1>3. Typed'
  BY <1>1, <1>2, Kept, Rests DEF Typed, BuilderTypes, HistoryTypes
<1>4. QED
  BY <1>1, <1>2, <1>3

\* A restart without a state.json to deliver for.
LEMMA RecoverNothingDoes ==
  ASSUME Typed, RecoverNothing
  PROVE  /\ Typed' /\ UNCHANGED <<serverVars, put, task, history>>
         /\ \A t \in Tasks : task[t].pc = "idle"
         /\ job.attempt = 0 /\ job' = NoJob
BY Kept, Rests DEF RecoverNothing, Typed, BuilderTypes

\* A restart delivers the report it finds, or that the builder died.
LEMMA RecoverDoes ==
  ASSUME Typed, NEW t \in Tasks, Recover(t)
  PROVE  /\ Typed' /\ UNCHANGED <<serverVars, put, job, history>>
         /\ \A u \in Tasks : task[u].pc = "idle"
         /\ job.attempt # 0
         /\ \E r \in Results : /\ Turns(t, "deliver", job.attempt, r)
                               /\ r = job.report \/ (job.report = "none" /\ r = "transient")
<1>1. /\ \A u \in Tasks : task[u].pc = "idle"
      /\ job.attempt # 0 /\ UNCHANGED <<serverVars, put, job, recovering, count, history>>
  BY DEF Recover
<1>2. PICK r \in Results : /\ r = (IF job.report = "none" THEN Class("BUILDER_RESTARTED")
                                                          ELSE job.report)
                           /\ r = job.report \/ (job.report = "none" /\ r = "transient")
  BY DEF Class, Results, Typed, BuilderTypes, Job
<1>3. task' = [task EXCEPT ![t] = [Resting EXCEPT
                 !.pc = "deliver", !.attempt = job.attempt, !.result = r]]
  BY <1>2 DEF Recover
<1>4. PICK y \in Slot : y = Resting
  BY Rests
<1>5. PICK x \in Slot : /\ x = [y EXCEPT !.pc = "deliver", !.attempt = job.attempt, !.result = r]
                        /\ x.pc = "deliver" /\ x.attempt = job.attempt /\ x.result = r
  <2>1. job.attempt \in Nat
    BY DEF Typed, BuilderTypes, Job
  <2>2. PICK z \in Slot : z = [y EXCEPT !.pc = "deliver", !.attempt = job.attempt]
    BY <2>1 DEF Slot, Positions
  <2>3. z.pc = "deliver" /\ z.attempt = job.attempt
    BY <2>2 DEF Slot
  <2>4. PICK x \in Slot : x = [z EXCEPT !.result = r]
    BY DEF Slot
  <2>5. x.pc = "deliver" /\ x.attempt = job.attempt /\ x.result = r
    BY <2>3, <2>4 DEF Slot
  <2>6. x = [y EXCEPT !.pc = "deliver", !.attempt = job.attempt, !.result = r]
    BY <2>2, <2>4
  <2>7. QED
    BY <2>5, <2>6
<1>6. task' = [task EXCEPT ![t] = x]
  BY <1>3, <1>4, <1>5
<1>7. Turns(t, "deliver", job.attempt, r)
  BY <1>5, <1>6 DEF Turns, Typed, BuilderTypes
<1>8. Typed'
  BY <1>1, <1>7, Kept DEF Typed, BuilderTypes, Turns
<1>9. QED
  BY <1>1, <1>2, <1>7, <1>8

-----------------------------------------------------------------------------
(* Attempts, waiting tasks and offsets.                                    *)

Uploads == {"uploading", "succeeded"}

\* Nobody knows an attempt the row has not reached, nor a queued row's; an
\* accepted report is the attempt's, and only then are there files.
Numbers ==
  /\ row.declared <= row.attempt /\ job.attempt <= row.attempt
  /\ \A t \in Tasks : task[t].attempt <= row.attempt
  /\ row.st = "queued" =>
       job.attempt < row.attempt /\ \A t \in Tasks : task[t].attempt < row.attempt
  /\ row.st \in Uploads => row.declared = row.attempt
  /\ part # <<>> \/ file # <<>> => row.st \in Uploads

\* A task waits for one request, and a request has one task that waits.
Waiting ==
  /\ \A h \in Handlers :
       put[h].task # Nobody => put[h].step # "free" /\ task[put[h].task].pc = "wait"
  /\ \A g, h \in Handlers : put[g].task = put[h].task /\ put[g].task # Nobody => g = h

\* Only chunks of the package are sent, and each says which one it is.
Offsets ==
  /\ \A h \in Handlers :
       put[h].step # "free" => put[h].offset < Size /\ put[h].chunk[2] = put[h].offset
  /\ \A t \in Tasks : task[t].pc = "put" => task[t].received < Size

Basics == Numbers /\ Waiting /\ Offsets

\* The request of handler h stays what it is, or is over.
Holds(h) ==
  \/ put'[h] = NoPut
  \/ /\ put'[h].offset = put[h].offset /\ put'[h].chunk = put[h].chunk
     /\ put'[h].task \in {put[h].task, Nobody}
     /\ put'[h].step = "free" <=> put[h].step = "free"

\* Tasks that are waited for do not move, and no task learns a new attempt.
Modest ==
  /\ \A h \in Handlers : put'[h].task # Nobody => task'[put'[h].task] = task[put'[h].task]
  /\ \A t \in Tasks : /\ task'[t].attempt \in {task[t].attempt, 0, job.attempt}
                      /\ task'[t].pc = "put" => task'[t].received < Size

\* Files come and go, but there are some only during an upload.
FilesStep == row' = row /\ (part' # <<>> \/ file' # <<>> => row.st \in Uploads)

\* What every action comes down to, as far as numbers and waiting go.
LEMMA BasicsKept ==
  ASSUME Typed, Basics, \A h \in Handlers : Holds(h), Modest,
         job'.attempt \in {job.attempt, 0}, RowStep \/ FilesStep
  PROVE  Basics'
<1>1. /\ row.attempt \in Nat /\ row.attempt > 0 /\ job.attempt \in Nat
      /\ \A t \in Tasks : task[t].attempt \in Nat
  BY Params DEF Typed, ServerTypes, BuilderTypes, Row, Job, Slot
<1>2. Numbers'
  <2>1. \A t \in Tasks : task'[t].attempt \in Nat /\ task'[t].attempt <= row.attempt
    BY <1>1 DEF Modest, Basics, Numbers
  <2>2. CASE UNCHANGED serverVars \/ FilesStep
    BY <1>1, <2>2 DEF Modest, Basics, Numbers, FilesStep, serverVars
  <2>3. CASE Failing
    BY <1>1, <2>1, <2>3, Params DEF Basics, Numbers, Failing, Typed, ServerTypes, Row, Uploads
  <2>4. CASE Leasing \/ Accepting \/ Succeeding
    BY <1>1, <2>1, <2>4 DEF Basics, Numbers, Leasing, Accepting, Succeeding, Uploads
  <2>5. QED
    BY <2>2, <2>3, <2>4 DEF RowStep
<1>3. Waiting'
  <2>1. \A h \in Handlers : put'[h].task # Nobody =>
          /\ put'[h].task = put[h].task
          /\ put'[h].step = "free" <=> put[h].step = "free"
    BY DEF Holds, NoPut
  <2>2. QED
    BY <2>1 DEF Basics, Waiting, Modest
<1>4. Offsets'
  BY DEF Basics, Offsets, Modest, Holds, NoPut
<1>5. QED
  BY <1>2, <1>3, <1>4 DEF Basics

\* A slot that goes on, other than into an upload, is modest.
LEMMA SlotModest ==
  ASSUME Typed, Basics, NEW t \in Tasks, NEW S, SlotStep(t, S), "put" \notin S
  PROVE  \A u \in Tasks : /\ task'[u].attempt \in {task[u].attempt, 0, job.attempt}
                          /\ task'[u].pc = "put" => task'[u].received < Size
BY DEF SlotStep, Basics, Offsets, Resting

\* A step of a task that waits for nothing.
LEMMA TaskBasics ==
  ASSUME Typed, Basics, NEW t \in Tasks, NEW S, SlotStep(t, S), "put" \notin S,
         task[t].pc # "wait", UNCHANGED put, job'.attempt \in {job.attempt, 0},
         RowStep \/ FilesStep
  PROVE  Basics'
<1>1. \A h \in Handlers : Holds(h)
  BY DEF Holds
<1>2. \A h \in Handlers : put'[h].task # Nobody => task'[put'[h].task] = task[put'[h].task]
  BY DEF Basics, Waiting, SlotStep, Typed, PutTypes, Put
<1>3. Modest
  BY <1>2, SlotModest DEF Modest
<1>4. QED
  BY <1>1, <1>3, BasicsKept

\* The same where the task takes up something else.
LEMMA TurnBasics ==
  ASSUME Typed, Basics, NEW t \in Tasks, NEW l, NEW a, NEW r, Turns(t, l, a, r),
         a \in {task[t].attempt, 0, job.attempt},
         l = "put" => task'[t].received < Size, task[t].pc # "wait", UNCHANGED put,
         job'.attempt \in {job.attempt, 0}, RowStep \/ FilesStep
  PROVE  Basics'
<1>1. \A h \in Handlers : Holds(h)
  BY DEF Holds
<1>2. \A h \in Handlers : put'[h].task # Nobody => task'[put'[h].task] = task[put'[h].task]
  BY DEF Basics, Waiting, Turns, Typed, PutTypes, Put
<1>3. Modest
  BY <1>2 DEF Modest, Turns, Basics, Offsets
<1>4. QED
  BY <1>1, <1>3, BasicsKept

\* A step of a handler.
LEMMA HandlerBasics ==
  ASSUME Typed, Basics, NEW h \in Handlers, UNCHANGED job, RowStep \/ FilesStep,
         put[h].step # "free",
         \/ Frees(h, {"status", "remove", "deliver", "idle"})
         \/ Frees(h, {"status", "deliver", "idle"})
         \/ \E l \in {"append", "digest", "rename"} : Advances(h, l) /\ UNCHANGED task
  PROVE  Basics'
<1>1. ASSUME NEW S, Frees(h, S), "put" \notin S PROVE Basics'
  <2>1. put' = [put EXCEPT ![h] = NoPut]
    BY <1>1 DEF Frees
  <2>2. \A g \in Handlers : Holds(g) /\ (g # h => put'[g] = put[g]) /\ put'[h] = NoPut
    BY <2>1 DEF Holds, Typed, PutTypes
  <2>3. CASE put[h].task = Nobody
    <3>1. Modest
      BY <1>1, <2>2, <2>3 DEF Frees, Modest, Basics, Offsets
    <3>2. QED
      BY <2>2, <3>1, BasicsKept
  <2>4. CASE put[h].task # Nobody
    <3>1. put[h].task \in Tasks /\ SlotStep(put[h].task, S)
      BY <1>1, <2>4 DEF Frees
    <3>2. \A g \in Handlers : put'[g].task # Nobody => task'[put'[g].task] = task[put'[g].task]
      BY <2>2, <2>4, <3>1 DEF Basics, Waiting, SlotStep, NoPut, Typed, PutTypes, Put
    <3>3. Modest
      BY <1>1, <3>1, <3>2, SlotModest DEF Modest
    <3>4. QED
      BY <2>2, <3>3, BasicsKept
  <2>5. QED
    BY <2>3, <2>4
<1>2. ASSUME NEW l \in {"append", "digest", "rename"}, Advances(h, l), UNCHANGED task
      PROVE  Basics'
  <2>1. \A g \in Handlers : Holds(g)
    BY <1>2 DEF Holds, Advances
  <2>2. Modest
    BY <1>2 DEF Modest, Advances, Basics, Offsets
  <2>3. QED
    BY <2>1, <2>2, BasicsKept
<1>3. QED
  BY <1>1, <1>2

\* The first chunk of a new request.
LEMMA SendBasics ==
  ASSUME Typed, Basics, NEW t \in Tasks, Send(t)
  PROVE  Basics'
<1>1. RowStep /\ UNCHANGED job
  BY SendDoes DEF RowStep
<1>2. CASE UNCHANGED put /\ SlotStep(t, {"deliver", "idle"})
  BY <1>1, <1>2, SendDoes, TaskBasics
<1>3. CASE \E h \in Handlers :
             /\ put[h].step = "free"
             /\ \A g \in Handlers \ {h} : put'[g] = put[g]
             /\ put'[h].step = "check" /\ put'[h].task = t
             /\ put'[h].offset = task[t].received
             /\ put'[h].chunk = <<job.output, task[t].received>>
  <2>1. PICK h \in Handlers :
             /\ put[h].step = "free"
             /\ \A g \in Handlers \ {h} : put'[g] = put[g]
             /\ put'[h].step = "check" /\ put'[h].task = t
             /\ put'[h].offset = task[t].received
             /\ put'[h].chunk = <<job.output, task[t].received>>
    BY <1>3
  <2>2. task[t].pc = "put" /\ SlotStep(t, {"wait"}) /\ UNCHANGED serverVars
    <3>1. task[t].pc = "put" /\ UNCHANGED serverVars
      BY SendDoes
    <3>2. ~ UNCHANGED put
      BY <2>1
    <3>3. QED
      BY <3>1, <3>2, SendDoes
  <2>3. \A g \in Handlers : put[g].task # t
    BY <2>2, Params DEF Basics, Waiting
  <2>4. Numbers'
    BY <1>1, <2>2 DEF Basics, Numbers, SlotStep, serverVars, Resting
  <2>5. Waiting'
    <3>1. \A g \in Handlers : put'[g].task # Nobody =>
            put'[g].step # "free" /\ task'[put'[g].task].pc = "wait"
      BY <2>1, <2>2, <2>3, Params DEF Basics, Waiting, SlotStep, Typed, PutTypes, Put, Resting
    <3>2. QED
      BY <2>1, <2>3, <3>1 DEF Basics, Waiting
  <2>6. Offsets'
    BY <2>1, <2>2 DEF Basics, Offsets, SlotStep, Resting
  <2>7. QED
    BY <2>4, <2>5, <2>6 DEF Basics
<1>4. QED
  BY <1>2, <1>3, SendDoes

\* Leases teach a task the attempt of a queued row, which is running then.
LEMMA LeaseBasics ==
  ASSUME Typed, Basics, NEW t \in Tasks, Lease(t)
  PROVE  Basics'
<1>1. /\ Leasing /\ UNCHANGED put /\ task[t].pc = "idle"
      /\ Turns(t, "build", row.attempt, "none") /\ job'.attempt = row.attempt
  BY LeaseDoes
<1>2. row.attempt \in Nat
  BY Params DEF Typed, ServerTypes, Row
<1>3. Numbers'
  BY <1>1, <1>2 DEF Basics, Numbers, Leasing, Turns, Uploads
<1>4. Waiting' /\ Offsets'
  BY <1>1 DEF Basics, Waiting, Offsets, Turns, Typed, PutTypes, Put
<1>5. QED
  BY <1>3, <1>4 DEF Basics

\* A new row, and a builder that has nothing to do.
LEMMA InitBasics == Init => Typed /\ Basics
<1> SUFFICES ASSUME Init PROVE Typed /\ Basics
  OBVIOUS
<1>1. ServerTypes
  BY Params, Rests DEF Init, ServerTypes, Row, States
<1>2. PutTypes /\ BuilderTypes
  BY Rests DEF Init, PutTypes, BuilderTypes
<1>3. CountType
  BY Params DEF Init, CountType
<1>4. HistoryTypes
  BY DEF Init, HistoryTypes
<1>5. Basics
  BY Params DEF Init, Basics, Numbers, Waiting, Offsets, NoPut, NoJob, Resting, Uploads
<1>6. QED
  BY <1>1, <1>2, <1>3, <1>4, <1>5 DEF Typed

\* A slot's own steps.
LEMMA TaskStepBasics ==
  ASSUME Typed, Basics, NEW t \in Tasks, TaskStep(t) \/ TaskFault(t)
  PROVE  Typed' /\ Basics'
<1>1. CASE Lease(t)
  BY <1>1, LeaseDoes, LeaseBasics
<1>2. CASE BuildOk(t) \/ BuildFails(t)
  <2>1. /\ Typed' /\ RowStep /\ UNCHANGED put /\ task[t].pc # "wait" /\ job'.attempt = job.attempt
        /\ \E r : Turns(t, "deliver", task[t].attempt, r)
    BY <1>2, BuildDoes DEF RowStep, Reports
  <2>2. QED
    BY <2>1, TurnBasics
<1>3. CASE Reported(t)
  BY <1>3, ReportedDoes, TaskBasics DEF RowStep
<1>4. CASE Report(t)
  <2>1. /\ Typed' /\ RowStep /\ UNCHANGED <<put, job>> /\ task[t].pc # "wait"
        /\ SlotStep(t, {"remove"}) \/ SlotStep(t, {"mark"}) \/ SlotStep(t, {"deliver", "idle"})
    BY <1>4, ReportDoes DEF RowStep
  <2>2. QED
    BY <2>1, TaskBasics
<1>5. CASE LoseReport(t)
  <2>1. /\ Typed' /\ RowStep /\ UNCHANGED <<put, job>> /\ task[t].pc # "wait"
        /\ SlotStep(t, {"deliver", "idle"})
    BY <1>5, LoseReportDoes DEF RowStep
  <2>2. QED
    BY <2>1, TaskBasics
<1>6. CASE Mark(t)
  <2>1. /\ Typed' /\ RowStep /\ UNCHANGED put /\ task[t].pc # "wait" /\ job'.attempt = job.attempt
        /\ SlotStep(t, {IF task[t].result = "ok" THEN "status" ELSE "remove"})
           \/ SlotStep(t, {"deliver", "idle"})
    BY <1>6, MarkDoes DEF RowStep
  <2>2. QED
    BY <2>1, TaskBasics
<1>7. CASE Remove(t)
  BY <1>7, RemoveDoes, TaskBasics DEF RowStep, NoJob
<1>8. CASE Status(t)
  <2>1. /\ Typed' /\ RowStep /\ UNCHANGED <<put, job>> /\ task[t].pc # "wait"
    BY <1>8, StatusDoes DEF RowStep
  <2>2. CASE \E S : SlotStep(t, S) /\ "put" \notin S
    BY <2>1, <2>2, TaskBasics
  <2>3. CASE Turns(t, "put", task[t].attempt, task[t].result) /\ task'[t].received < Size
    BY <2>1, <2>3, TurnBasics
  <2>4. QED
    BY <1>8, <2>2, <2>3, StatusDoes
<1>9. CASE LoseStatus(t)
  BY <1>9, LoseStatusDoes, TaskBasics DEF RowStep
<1>10. CASE Complete(t) \/ LoseComplete(t)
  <2>1. /\ Typed' /\ RowStep /\ UNCHANGED <<put, job>> /\ task[t].pc # "wait"
        /\ SlotStep(t, {"remove"}) \/ SlotStep(t, {"deliver", "idle"})
    BY <1>10, CompleteDoes DEF RowStep
  <2>2. QED
    BY <2>1, TaskBasics
<1>11. CASE Send(t)
  BY <1>11, SendDoes, SendBasics
<1>12. CASE LoseChunk(t)
  <2>1. /\ Typed' /\ RowStep /\ UNCHANGED job /\ SlotStep(t, {"deliver", "idle"})
        /\ \A h \in Handlers : Forgets(h) /\ put'[h].task # t
    BY <1>12, LoseChunkDoes DEF RowStep
  <2>2. \A h \in Handlers : Holds(h)
    BY <2>1 DEF Forgets, Holds
  <2>3. \A h \in Handlers : put'[h].task # Nobody => task'[put'[h].task] = task[put'[h].task]
    BY <2>1 DEF SlotStep, Typed, PutTypes, Put
  <2>4. Modest
    BY <2>1, <2>3, SlotModest DEF Modest
  <2>5. QED
    BY <2>1, <2>2, <2>4, BasicsKept
<1>13. CASE Recover(t)
  <2>1. /\ Typed' /\ RowStep /\ UNCHANGED <<put, job>> /\ task[t].pc # "wait"
        /\ \E r : Turns(t, "deliver", job.attempt, r)
    BY <1>13, RecoverDoes DEF RowStep
  <2>2. QED
    BY <2>1, TurnBasics
<1>14. QED
  BY <1>1, <1>2, <1>3, <1>4, <1>5, <1>6, <1>7, <1>8, <1>9, <1>10, <1>11, <1>12, <1>13
  DEF TaskStep, TaskFault

\* A handler's steps: an answer, or the next step of the same request.
LEMMA HandlerStepBasics ==
  ASSUME Typed, Basics, NEW h \in Handlers, HandlerStep(h)
  PROVE  Typed' /\ Basics'
<1>1. CASE Check(h)
  <2>1. /\ Typed' /\ RowStep /\ UNCHANGED job /\ put[h].step # "free"
        /\ \/ Frees(h, {"status", "remove", "deliver", "idle"})
           \/ Frees(h, {"status", "deliver", "idle"})
           \/ Advances(h, "append") /\ UNCHANGED task
    BY <1>1, CheckDoes DEF RowStep
  <2>2. QED
    BY <2>1, HandlerBasics
<1>2. CASE AppendChunk(h)
  <2>1. /\ Typed' /\ UNCHANGED <<row, file, job>> /\ put[h].step # "free"
        /\ part' = part \/ row.st \in Uploads
        /\ \/ Frees(h, {"status", "deliver", "idle"})
           \/ Advances(h, "digest") /\ UNCHANGED task
    BY <1>2, AppendDoes DEF Uploads
  <2>2. FilesStep
    BY <2>1 DEF Basics, Numbers, FilesStep
  <2>3. QED
    BY <2>1, <2>2, HandlerBasics
<1>3. CASE Digest(h)
  <2>1. /\ Typed' /\ UNCHANGED <<row, file, job>> /\ put[h].step # "free"
        /\ part' = part \/ part' = <<>>
        /\ \/ Frees(h, {"status", "deliver", "idle"})
           \/ Advances(h, "rename") /\ UNCHANGED task
    BY <1>3, DigestDoes
  <2>2. FilesStep
    BY <2>1 DEF Basics, Numbers, FilesStep
  <2>3. QED
    BY <2>1, <2>2, HandlerBasics
<1>4. CASE Rename(h)
  <2>1. /\ Typed' /\ UNCHANGED <<row, job>> /\ put[h].step # "free"
        /\ Frees(h, {"status", "deliver", "idle"})
        /\ IF part = <<>> THEN UNCHANGED <<part, file>> ELSE file' = part /\ part' = <<>>
    BY <1>4, RenameDoes
  <2>2. FilesStep
    BY <2>1 DEF Basics, Numbers, FilesStep
  <2>3. QED
    BY <2>1, <2>2, HandlerBasics
<1>5. QED
  BY <1>1, <1>2, <1>3, <1>4 DEF HandlerStep

\* Where no task takes a step, or every one does.
LEMMA OtherBasics ==
  ASSUME Typed, Basics,
         LoseLease \/ Expire \/ ExpireAbandoned \/ Crash \/ RecoverNothing \/ UNCHANGED vars
  PROVE  Typed' /\ Basics'
<1>1. CASE LoseLease \/ Expire \/ ExpireAbandoned
  <2>1. Typed' /\ RowStep /\ UNCHANGED <<put, job, task>>
    BY <1>1, LoseLeaseDoes, ExpireDoes DEF RowStep
  <2>2. \A h \in Handlers : Holds(h)
    BY <2>1 DEF Holds
  <2>3. Modest
    BY <2>1 DEF Modest, Basics, Offsets
  <2>4. QED
    BY <2>1, <2>2, <2>3, BasicsKept
<1>2. CASE Crash
  <2>1. /\ Typed' /\ RowStep /\ UNCHANGED job
        /\ \A t \in Tasks : task'[t] = Resting
        /\ \A h \in Handlers : Forgets(h) /\ put'[h].task = Nobody
    BY <1>2, CrashDoes DEF RowStep
  <2>2. \A h \in Handlers : Holds(h)
    BY <2>1 DEF Forgets, Holds
  <2>3. Modest
    BY <2>1 DEF Modest, Resting
  <2>4. QED
    BY <2>1, <2>2, <2>3, BasicsKept
<1>3. CASE RecoverNothing
  <2>1. Typed' /\ RowStep /\ UNCHANGED <<put, task>> /\ job'.attempt = 0
    BY <1>3, RecoverNothingDoes DEF RowStep, NoJob
  <2>2. \A h \in Handlers : Holds(h)
    BY <2>1 DEF Holds
  <2>3. Modest
    BY <2>1 DEF Modest, Basics, Offsets
  <2>4. QED
    BY <2>1, <2>2, <2>3, BasicsKept
<1>4. CASE UNCHANGED vars
  BY <1>4 DEF vars, serverVars, history, Typed, ServerTypes, PutTypes, BuilderTypes, CountType,
              HistoryTypes, Basics, Numbers, Waiting, Offsets
<1>5. QED
  BY <1>1, <1>2, <1>3, <1>4

\* Types, numbers, waiting tasks and offsets are kept by every step.
LEMMA NextBasics == Typed /\ Basics /\ [Next]_vars => Typed' /\ Basics'
BY TaskStepBasics, HandlerStepBasics, OtherBasics DEF Next

\* Every variable keeps its type, and only an upload has files on the server.
THEOREM TypeCorrect == Spec => []TypeOK
<1>1. Typed /\ Basics => TypeOK
  <2>1. SUFFICES ASSUME Typed, Basics PROVE TypeOK
    OBVIOUS
  <2>2. /\ row.st \in States /\ row.attempt \in 1 .. MaxRetries + 1
        /\ row.declared \in 0 .. row.attempt /\ job.attempt <= row.attempt
    BY <2>1, Params DEF Typed, ServerTypes, Row, Basics, Numbers
  <2>3. \A h \in Handlers : put[h].step \in PutSteps
    BY <2>1 DEF Typed, PutTypes, Put
  <2>4. \A t \in Tasks : /\ task[t].pc \in Positions /\ task[t].tries < MaxTries
                         /\ task[t].attempt <= row.attempt
    BY <2>1, Params DEF Typed, BuilderTypes, Slot, Basics, Numbers
  <2>5. QED
    BY <2>1, <2>2, <2>3, <2>4
    DEF TypeOK, States, PutSteps, Positions, Typed, CountType, Basics, Numbers, Uploads
<1>2. QED
  BY <1>1, InitBasics, NextBasics, PTL DEF Spec
-----------------------------------------------------------------------------
(* A package arrives whole.                                                *)

Writes == {"append", "digest", "rename"}

\* While no upload_put has overlapped another: one handler writes, it appends
\* where .part ends, and what it is about to rename has been compared.
Lonely ==
  /\ \A g, h \in Handlers : put[g].step \in Writes /\ put[h].step \in Writes => g = h
  /\ \A h \in Handlers : put[h].step = "rename" => part \in {<<>>, Whole(row.declared)}
  /\ \A h \in Handlers : put[h].step = "append" /\ row.st \in Uploads => put[h].offset = Len(part)
  /\ file \in {<<>>, Whole(row.declared)}
  /\ row.st = "succeeded" => file # <<>>

Unclashed == ~clashed => Lonely

\* No handler begins to write.
Quiet == \A h \in Handlers : put'[h].step \in Writes =>
           put'[h].step = put[h].step /\ put'[h].offset = put[h].offset

\* What happens to the row spoils nothing: an attempt that ends takes its
\* files along, and one that is accepted meets no request of another.
LEMMA QuietUnclashed ==
  ASSUME Typed, Basics, Unclashed, Quiet, RowStep, clashed => clashed'
  PROVE  Unclashed'
<1>1. SUFFICES ASSUME ~clashed' PROVE Lonely'
  BY DEF Unclashed
<1>2. Lonely
  BY <1>1 DEF Unclashed
<1>3. CASE UNCHANGED serverVars \/ Leasing \/ Succeeding
  <2>1. /\ UNCHANGED <<part, file>> /\ row'.declared = row.declared
        /\ row'.st \in Uploads => row.st \in Uploads
        /\ row'.st = "succeeded" => file # <<>>
    BY <1>2, <1>3 DEF serverVars, Leasing, Succeeding, Uploads, Lonely
  <2>2. Whole(row.declared)' = Whole(row.declared)
    BY <2>1 DEF Whole
  <2>3. QED
    BY <1>2, <2>1, <2>2 DEF Lonely, Quiet, Writes
<1>4. CASE Failing
  BY <1>2, <1>4 DEF Lonely, Quiet, Failing, Uploads
<1>5. CASE Accepting
  <2>1. \A h \in Handlers : put'[h].step \notin Writes
    BY <1>1, <1>5 DEF Accepting, Quiet, Writes
  <2>2. file' = <<>> /\ row'.st = "uploading"
    BY <1>5 DEF Accepting, Basics, Numbers, Uploads
  <2>3. QED
    BY <2>1, <2>2 DEF Lonely, Writes
<1>6. QED
  BY <1>3, <1>4, <1>5 DEF RowStep

\* Requests that are over, or nobody waits for, write nothing new.
LEMMA QuietPuts ==
  ASSUME Typed
  PROVE  /\ UNCHANGED put => Quiet
         /\ (\A h \in Handlers : Forgets(h)) => Quiet
         /\ \A h \in Handlers : \A S : Frees(h, S) => Quiet
<1>1. NoPut.step \notin Writes
  BY DEF NoPut, Writes
<1>2. ASSUME NEW h \in Handlers, NEW S, Frees(h, S) PROVE Quiet
  <2>1. put' = [put EXCEPT ![h] = NoPut]
    BY <1>2 DEF Frees
  <2>2. QED
    BY <1>1, <2>1 DEF Quiet, Typed, PutTypes
<1>3. QED
  BY <1>1, <1>2 DEF Quiet, Forgets

\* No slot writes, and what it does to the row is one of the row's steps.
LEMMA TaskQuiet ==
  ASSUME Typed, NEW t \in Tasks, TaskStep(t) \/ TaskFault(t)
  PROVE  Quiet /\ RowStep /\ (clashed => clashed')
<1>1. CASE Lease(t)
  BY <1>1, LeaseDoes, QuietPuts DEF RowStep
<1>2. CASE BuildOk(t) \/ BuildFails(t)
  BY <1>2, BuildDoes, QuietPuts DEF RowStep, history
<1>3. CASE Reported(t)
  BY <1>3, ReportedDoes, QuietPuts DEF RowStep, history
<1>4. CASE Report(t)
  BY <1>4, ReportDoes, QuietPuts DEF RowStep, Accepting
<1>5. CASE LoseReport(t)
  BY <1>5, LoseReportDoes, QuietPuts DEF RowStep, Accepting
<1>6. CASE Mark(t)
  BY <1>6, MarkDoes, QuietPuts DEF RowStep, history
<1>7. CASE Remove(t)
  BY <1>7, RemoveDoes, QuietPuts DEF RowStep, history
<1>8. CASE Status(t)
  BY <1>8, StatusDoes, QuietPuts DEF RowStep, history
<1>9. CASE LoseStatus(t)
  BY <1>9, LoseStatusDoes, QuietPuts DEF RowStep, history
<1>10. CASE Complete(t) \/ LoseComplete(t)
  BY <1>10, CompleteDoes, QuietPuts DEF RowStep, history
<1>11. CASE Send(t)
  <2>1. RowStep /\ UNCHANGED history
    BY <1>11, SendDoes DEF RowStep
  <2>2. \A h \in Handlers : put'[h] = put[h] \/ put'[h].step = "check"
    BY <1>11, SendDoes
  <2>3. QED
    BY <2>1, <2>2 DEF Quiet, Writes, history
<1>12. CASE LoseChunk(t)
  BY <1>12, LoseChunkDoes, QuietPuts DEF RowStep, history
<1>13. CASE Recover(t)
  BY <1>13, RecoverDoes, QuietPuts DEF RowStep, history
<1>14. QED
  BY <1>1, <1>2, <1>3, <1>4, <1>5, <1>6, <1>7, <1>8, <1>9, <1>10, <1>11, <1>12, <1>13
  DEF TaskStep, TaskFault

\* A handler that begins to write is alone or clashes; one that goes on is
\* the only one, so .part is what it has compared.
LEMMA HandlerUnclashed ==
  ASSUME Typed, Basics, Unclashed, NEW h \in Handlers, HandlerStep(h)
  PROVE  Unclashed'
<1>1. SUFFICES ASSUME ~clashed' PROVE Lonely'
  BY DEF Unclashed
<1>2. ASSUME NEW S, Frees(h, S)
      PROVE  Quiet /\ \A g \in Handlers : put'[g].step \in Writes => g # h
  <2>1. put' = [put EXCEPT ![h] = NoPut]
    BY <1>2 DEF Frees
  <2>2. QED
    BY <1>2, <2>1, QuietPuts DEF Typed, PutTypes, NoPut, Writes
<1>3. CASE Check(h)
  <2>1. UNCHANGED serverVars
    BY <1>3, CheckDoes
  <2>2. CASE Quiet /\ UNCHANGED clashed
    BY <1>1, <2>1, <2>2, QuietUnclashed DEF RowStep, Unclashed
  <2>3. CASE put[h].offset = Len(part) /\ Advances(h, "append") /\ Writing = {} /\ ~clashed
    <3>1. \A g \in Handlers : put'[g].step \in Writes => g = h
      BY <2>3 DEF Advances, Writing, Writes
    <3>2. QED
      BY <2>1, <2>3, <3>1 DEF Lonely, Advances, Writes, serverVars, Unclashed
  <2>4. QED
    BY <1>1, <1>2, <1>3, <2>2, <2>3, CheckDoes
<1>4. CASE AppendChunk(h) \/ Digest(h) \/ Rename(h)
  <2>1. UNCHANGED <<row, clashed>> /\ put[h].step \in Writes
    BY <1>4, AppendDoes, DigestDoes, RenameDoes DEF history, Writes
  <2>2. Lonely
    BY <1>1, <2>1 DEF Unclashed
  <2>3. \A g \in Handlers : put[g].step \in Writes => g = h
    BY <2>1, <2>2 DEF Lonely
  <2>4. ASSUME NEW S, Frees(h, S) PROVE \A g \in Handlers : put'[g].step \notin Writes
    BY <1>2, <2>3, <2>4 DEF Quiet
  <2>5. ASSUME NEW l, Advances(h, l)
        PROVE  /\ put'[h].step = l /\ \A g \in Handlers : put'[g].step \in Writes => g = h
    BY <2>3, <2>5 DEF Advances
  <2>6. CASE AppendChunk(h)
    <3>1. /\ UNCHANGED file
          /\ \A g \in Handlers : put'[g].step \in {"append", "rename"} =>
               put'[g] = put[g] /\ UNCHANGED part
      BY <2>4, <2>5, <2>6, AppendDoes DEF Writes
    <3>2. QED
      BY <2>1, <2>2, <2>4, <2>5, <2>6, <3>1, AppendDoes DEF Lonely, Writes
  <2>7. CASE Digest(h)
    BY <2>1, <2>2, <2>4, <2>5, <2>7, DigestDoes DEF Lonely, Writes
  <2>8. CASE Rename(h)
    BY <2>1, <2>2, <2>4, <2>8, RenameDoes DEF Lonely, Writes
  <2>9. QED
    BY <1>4, <2>6, <2>7, <2>8
<1>5. QED
  BY <1>3, <1>4 DEF HandlerStep

\* Where no slot takes a step of its own, no handler writes either.
LEMMA OtherQuiet ==
  ASSUME Typed,
         LoseLease \/ Expire \/ ExpireAbandoned \/ Crash \/ RecoverNothing \/ UNCHANGED vars
  PROVE  Quiet /\ RowStep /\ (clashed => clashed')
<1>1. CASE LoseLease
  BY <1>1, LoseLeaseDoes, QuietPuts DEF RowStep, history
<1>2. CASE Expire \/ ExpireAbandoned
  BY <1>2, ExpireDoes, QuietPuts DEF RowStep, history
<1>3. CASE Crash
  BY <1>3, CrashDoes, QuietPuts DEF RowStep
<1>4. CASE RecoverNothing
  BY <1>4, RecoverNothingDoes, QuietPuts DEF RowStep, history
<1>5. CASE UNCHANGED vars
  BY <1>5, QuietPuts DEF RowStep, vars, history
<1>6. QED
  BY <1>1, <1>2, <1>3, <1>4, <1>5

\* So every step keeps the one writer.
LEMMA NextUnclashed == Typed /\ Basics /\ Unclashed /\ [Next]_vars => Unclashed'
BY TaskQuiet, HandlerUnclashed, OtherQuiet, QuietUnclashed DEF Next

\* A file under its final name is the one the accepted report declared, and a
\* succeeded row has it, unless an upload_put overlapped another one or
\* outlived its attempt.
THEOREM ArrivesWhole == Spec => []UploadedWhole
<1>1. Init => Unclashed
  BY DEF Init, Unclashed, Lonely, NoPut, Writes
<1>2. Unclashed => UploadedWhole
  BY DEF Unclashed, Lonely, UploadedWhole
<1>3. QED
  BY <1>1, <1>2, InitBasics, NextBasics, NextUnclashed, PTL DEF Spec
-----------------------------------------------------------------------------
(* An upload resumes where it was.                                         *)

\* While no two tasks were at work on the build: one is, the directory is its
\* own, and it holds what this attempt has built, if anything.
Sole ==
  /\ \A t, u \in Tasks : task[t].pc # "idle" /\ task[u].pc # "idle" => t = u
  /\ \A t \in Tasks : task[t].pc # "idle" => job.attempt # 0 /\ job.attempt = task[t].attempt
  /\ job.attempt # 0 => job.exists
  /\ job.output \in {0, job.attempt}
  /\ row.st \in Uploads => job.attempt \in {0, row.attempt}

Own == ~shared => Sole

\* No task begins to work.
Stays == \A t \in Tasks :
  task'[t].pc # "idle" => task[t].pc # "idle" /\ task'[t].attempt = task[t].attempt

\* The directory stays the attempt's.
Belongs ==
  /\ job'.attempt = job.attempt
  /\ job.exists => job'.exists
  /\ job'.output \in {job.output, 0, job.attempt}

\* An upload goes on, or the directory's attempt begins one.
Uploading ==
  row'.st \in Uploads => /\ row'.attempt = row.attempt
                         /\ row.st \in Uploads \/ row.attempt = job.attempt

\* Where no task begins to work, the directory stays its own.
LEMMA OwnKept ==
  ASSUME Own, Stays, Sole => Belongs, UNCHANGED shared, Sole => Uploading
  PROVE  Own'
BY DEF Own, Sole, Stays, Belongs, Uploading

\* A slot at work goes on or stops.
LEMMA SlotStays ==
  ASSUME NEW t \in Tasks, NEW S, SlotStep(t, S), task[t].pc # "idle"
  PROVE  Stays
BY DEF SlotStep, Stays, Resting

\* Every step of the row but an accepted report.
LEMMA RowUploading ==
  ASSUME UNCHANGED serverVars \/ UNCHANGED row \/ Failing \/ Leasing \/ Succeeding
  PROVE  Uploading
BY DEF Uploading, serverVars, Failing, Leasing, Succeeding, Uploads

\* A lease gives the directory to one more task, and tells if another had it.
LEMMA LeaseOwn ==
  ASSUME Typed, Own, NEW t \in Tasks, Lease(t)
  PROVE  Own'
<1>1. /\ Leasing /\ Turns(t, "build", row.attempt, "none")
      /\ job'.exists /\ job'.attempt = row.attempt /\ job'.output = 0
      /\ shared' = (shared \/ \E u \in Tasks \ {t} : task[u].pc # "idle")
  BY LeaseDoes
<1>2. row.attempt # 0
  BY Params DEF Typed, ServerTypes, Row
<1>3. ASSUME ~shared' PROVE Sole'
  <2>1. \A u \in Tasks : task'[u].pc # "idle" => u = t
    BY <1>1, <1>3 DEF Turns
  <2>2. QED
    BY <1>1, <1>2, <2>1 DEF Sole, Turns, Leasing, Uploads
<1>4. QED
  BY <1>3 DEF Own

\* A restart delivers for the attempt whose directory it finds.
LEMMA RecoverOwn ==
  ASSUME Typed, Own, NEW t \in Tasks, Recover(t)
  PROVE  Own'
<1>1. /\ UNCHANGED <<row, job, shared>> /\ \A u \in Tasks : task[u].pc = "idle"
      /\ job.attempt # 0 /\ \E r \in Results : Turns(t, "deliver", job.attempt, r)
  BY RecoverDoes DEF serverVars, history
<1>2. ASSUME Sole PROVE Sole'
  <2>1. \A u \in Tasks : task'[u].pc # "idle" => u = t
    BY <1>1 DEF Turns
  <2>2. QED
    BY <1>1, <1>2, <2>1 DEF Sole, Turns
<1>3. QED
  BY <1>1, <1>2 DEF Own

\* The other steps of a slot begin no work.
LEMMA TaskOwn ==
  ASSUME Typed, Own, NEW t \in Tasks, TaskStep(t) \/ TaskFault(t)
  PROVE  Own'
<1>1. CASE Lease(t)
  BY <1>1, LeaseOwn
<1>2. CASE Recover(t)
  BY <1>2, RecoverOwn
<1>3. CASE BuildOk(t) \/ BuildFails(t)
  <2>1. UNCHANGED <<row, shared>> /\ task[t].pc = "build"
    BY <1>3, BuildDoes DEF serverVars, history
  <2>2. PICK r \in Results, o \in {0, job.output, task[t].attempt} :
          Reports(r, o) /\ Turns(t, "deliver", task[t].attempt, r)
    BY <1>3, BuildDoes
  <2>3. Stays /\ (Sole => Belongs)
    BY <2>1, <2>2 DEF Stays, Turns, Belongs, Reports, Sole
  <2>4. QED
    BY <2>1, <2>3, OwnKept, RowUploading
<1>4. CASE Reported(t)
  BY <1>4, ReportedDoes, SlotStays, OwnKept, RowUploading DEF Belongs, history
<1>5. CASE Report(t) \/ LoseReport(t)
  <2>1. /\ UNCHANGED <<job, shared>> /\ task[t].pc = "deliver"
        /\ SlotStep(t, {"remove"}) \/ SlotStep(t, {"deliver", "idle"}) \/ SlotStep(t, {"mark"})
    BY <1>5, ReportDoes, LoseReportDoes
  <2>2. \/ UNCHANGED serverVars \/ Failing
        \/ Accepting /\ row.attempt = task[t].attempt
    BY <1>5, ReportDoes, LoseReportDoes
  <2>3. Sole => Uploading
    BY <2>1, <2>2, RowUploading DEF Sole, Uploading, Accepting
  <2>4. Stays /\ Belongs
    BY <2>1, SlotStays DEF Belongs
  <2>5. QED
    BY <2>1, <2>3, <2>4, OwnKept
<1>6. CASE Mark(t)
  <2>1. /\ UNCHANGED <<serverVars, shared>> /\ task[t].pc = "mark" /\ \E S : SlotStep(t, S)
        /\ job' = job \/ (job'.exists /\ job'.attempt = job.attempt /\ job'.output = job.output)
    BY <1>6, MarkDoes DEF history
  <2>2. QED
    BY <2>1, SlotStays, OwnKept, RowUploading DEF Belongs
<1>7. CASE Remove(t)
  <2>1. /\ UNCHANGED <<serverVars, shared>> /\ task[t].pc = "remove" /\ job' = NoJob
        /\ SlotStep(t, {"idle"})
    BY <1>7, RemoveDoes DEF history
  <2>2. ASSUME Sole PROVE Sole'
    <3>1. \A u \in Tasks : task'[u].pc = "idle"
      BY <2>1, <2>2 DEF Sole, SlotStep, Resting
    <3>2. QED
      BY <2>1, <3>1 DEF Sole, NoJob
  <2>3. QED
    BY <2>1, <2>2 DEF Own
<1>8. CASE Status(t)
  <2>1. UNCHANGED <<serverVars, job, shared>> /\ task[t].pc = "status"
    BY <1>8, StatusDoes DEF history
  <2>2. \/ \E S : SlotStep(t, S)
        \/ Turns(t, "put", task[t].attempt, task[t].result)
    BY <1>8, StatusDoes
  <2>3. Stays
    BY <2>1, <2>2, SlotStays DEF Stays, Turns
  <2>4. QED
    BY <2>1, <2>3, OwnKept, RowUploading DEF Belongs
<1>9. CASE LoseStatus(t)
  BY <1>9, LoseStatusDoes, SlotStays, OwnKept, RowUploading DEF Belongs, history
<1>10. CASE Complete(t) \/ LoseComplete(t)
  BY <1>10, CompleteDoes, SlotStays, OwnKept, RowUploading DEF Belongs, history
<1>11. CASE Send(t)
  BY <1>11, SendDoes, SlotStays, OwnKept, RowUploading DEF Belongs, history
<1>12. CASE LoseChunk(t)
  BY <1>12, LoseChunkDoes, SlotStays, OwnKept, RowUploading DEF Belongs, history
<1>13. QED
  BY <1>1, <1>2, <1>3, <1>4, <1>5, <1>6, <1>7, <1>8, <1>9, <1>10, <1>11, <1>12
  DEF TaskStep, TaskFault

\* An answer reaches the task that waits, which is at work.
LEMMA HandlerOwn ==
  ASSUME Typed, Basics, Own, NEW h \in Handlers, HandlerStep(h)
  PROVE  Own'
<1>1. UNCHANGED <<row, job, shared>>
  BY CheckDoes, AppendDoes, DigestDoes, RenameDoes DEF HandlerStep, serverVars, history
<1>2. UNCHANGED task \/ \E S : Frees(h, S)
  BY CheckDoes, AppendDoes, DigestDoes, RenameDoes DEF HandlerStep
<1>3. ASSUME NEW S, Frees(h, S) PROVE Stays
  <2>1. CASE put[h].task = Nobody
    BY <1>3, <2>1 DEF Frees, Stays
  <2>2. CASE put[h].task # Nobody
    <3>1. PICK t \in Tasks : t = put[h].task /\ SlotStep(t, S)
      BY <1>3, <2>2 DEF Frees
    <3>2. task[t].pc # "idle"
      BY <2>2, <3>1 DEF Basics, Waiting
    <3>3. QED
      BY <3>1, <3>2, SlotStays
  <2>3. QED
    BY <2>1, <2>2
<1>4. Stays
  BY <1>2, <1>3 DEF Stays
<1>5. QED
  BY <1>1, <1>4, OwnKept, RowUploading DEF Belongs

\* Nobody begins to work, and a directory that goes leaves no task behind.
LEMMA OtherOwn ==
  ASSUME Typed, Own,
         LoseLease \/ Expire \/ ExpireAbandoned \/ Crash \/ RecoverNothing \/ UNCHANGED vars
  PROVE  Own'
<1>1. CASE LoseLease \/ Expire \/ ExpireAbandoned
  BY <1>1, LoseLeaseDoes, ExpireDoes, OwnKept, RowUploading DEF Belongs, Stays, history
<1>2. CASE Crash
  BY <1>2, CrashDoes, OwnKept, RowUploading DEF Belongs, Stays, Resting
<1>3. CASE RecoverNothing
  <2>1. /\ UNCHANGED <<serverVars, task, shared>> /\ job' = NoJob
        /\ \A t \in Tasks : task[t].pc = "idle"
    BY <1>3, RecoverNothingDoes DEF history
  <2>2. QED
    BY <2>1 DEF Own, Sole, NoJob
<1>4. CASE UNCHANGED vars
  BY <1>4, OwnKept, RowUploading DEF Belongs, Stays, vars, history
<1>5. QED
  BY <1>1, <1>2, <1>3, <1>4

\* So every step keeps the directory of its attempt.
LEMMA NextOwn == Typed /\ Basics /\ Own /\ [Next]_vars => Own'
BY TaskOwn, HandlerOwn, OtherOwn DEF Next

\* The first chunks of the package of attempt a.
Beginning(chunks, a) ==
  /\ Len(chunks) <= Size
  /\ \A i \in 1 .. Len(chunks) : chunks[i] = <<a, i - 1>>

\* A beginning in the words of the property.
LEMMA Begins ==
  ASSUME NEW chunks \in Chunks, NEW a \in Nat, Beginning(chunks, a)
  PROVE  chunks = SubSeq(Whole(a), 1, Len(chunks))
<1> DEFINE n == Len(chunks)
           s == SubSeq(Whole(a), 1, n)
<1>1. n \in Nat /\ n <= Size
  BY DEF Chunks, Beginning
<1>2. Whole(a) \in Chunks /\ Len(Whole(a)) = Size
  BY Params DEF Whole, Chunks
<1>3. s \in Chunks /\ Len(s) = n /\ \A i \in 1 .. n : s[i] = Whole(a)[i]
  BY <1>1, <1>2, Params, SubSeqProperties, SMTT(30) DEF Chunks
<1>4. \A i \in 1 .. n : s[i] = chunks[i]
  <2>1. ASSUME NEW i \in 1 .. n PROVE Whole(a)[i] = <<a, i - 1>>
    <3>1. i \in 1 .. Size
      BY <1>1, Params
    <3>2. QED
      BY <3>1 DEF Whole
  <2>2. \A i \in 1 .. n : chunks[i] = <<a, i - 1>>
    BY DEF Beginning
  <2>3. QED
    BY <1>3, <2>1, <2>2
<1>5. QED
  BY <1>3, <1>4, SeqEqual DEF Chunks

\* The next chunk makes a longer beginning.
LEMMA Extends ==
  ASSUME NEW chunks \in Chunks, NEW a \in Nat, Beginning(chunks, a), Len(chunks) < Size
  PROVE  Beginning(Append(chunks, <<a, Len(chunks)>>), a)
<1> DEFINE c == <<a, Len(chunks)>>
<1>1. Len(chunks) \in Nat /\ c \in Nat \X Nat
  BY DEF Chunks
<1>2. /\ Len(Append(chunks, c)) = Len(chunks) + 1
      /\ \A i \in 1 .. Len(chunks) : Append(chunks, c)[i] = chunks[i]
      /\ Append(chunks, c)[Len(chunks) + 1] = c
  BY <1>1, AppendProperties DEF Chunks
<1>3. QED
  BY <1>1, <1>2, Params DEF Beginning

\* While no upload_put has overlapped another and no two tasks were at work:
\* .part is a beginning of the declared package, and every request carries
\* the chunk of it that its offset says.
Proper ==
  /\ Beginning(part, row.declared)
  /\ row.st \in Uploads =>
       \A h \in Handlers : put[h].step # "free" => put[h].chunk = <<row.declared, put[h].offset>>

Begun == ~clashed /\ ~shared => Proper

\* Files disappear as a whole.
Emptied == UNCHANGED part \/ part' = <<>>

\* Where no chunk is sent or appended, what there is stays a beginning.
LEMMA BegunKept ==
  ASSUME Typed, Basics, Begun, clashed => clashed', shared => shared',
         \A h \in Handlers : Holds(h), RowStep \/ (UNCHANGED row /\ Emptied)
  PROVE  Begun'
<1>1. SUFFICES ASSUME ~clashed', ~shared' PROVE Proper'
  BY DEF Begun
<1>2. Proper
  BY <1>1 DEF Begun
<1>3. part' = <<>> \/ (UNCHANGED part /\ row'.declared = row.declared)
  BY DEF RowStep, serverVars, Failing, Leasing, Accepting, Succeeding, Emptied, Basics, Numbers,
         Uploads
<1>4. Beginning(part, row.declared)'
  BY <1>2, <1>3, Params DEF Beginning, Proper
<1>5. CASE row'.st \in Uploads /\ row.st \in Uploads
  <2>1. row'.declared = row.declared
    BY <1>5 DEF RowStep, serverVars, Failing, Leasing, Accepting, Succeeding, Uploads
  <2>2. QED
    BY <1>2, <1>4, <1>5, <2>1 DEF Proper, Holds, NoPut
<1>6. CASE row'.st \in Uploads /\ row.st \notin Uploads
  <2>1. Accepting
    BY <1>6 DEF RowStep, serverVars, Failing, Leasing, Succeeding, Uploads
  <2>2. \A h \in Handlers : put'[h].step = "free"
    <3>1. \A h \in Handlers : put[h].step = "free"
      BY <1>1, <2>1 DEF Accepting
    <3>2. QED
      BY <3>1 DEF Holds, NoPut
  <2>3. QED
    BY <1>4, <2>2 DEF Proper
<1>7. QED
  BY <1>4, <1>5, <1>6 DEF Proper

\* Two tasks were at work, or two handlers: what was so stays so.
LEMMA TaskBegun ==
  ASSUME Typed, Basics, Own, Begun, NEW t \in Tasks, TaskStep(t) \/ TaskFault(t)
  PROVE  Begun'
<1>1. RowStep /\ (clashed => clashed') /\ (shared => shared')
  BY TaskQuiet, LeaseDoes, BuildDoes, ReportedDoes, ReportDoes, LoseReportDoes, MarkDoes,
     RemoveDoes, StatusDoes, LoseStatusDoes, CompleteDoes, SendDoes, LoseChunkDoes, RecoverDoes
  DEF TaskStep, TaskFault, history
<1>2. CASE UNCHANGED put
  BY <1>1, <1>2, BegunKept DEF Holds
<1>3. CASE LoseChunk(t)
  <2>1. \A h \in Handlers : Holds(h)
    BY <1>3, LoseChunkDoes DEF Forgets, Holds
  <2>2. QED
    BY <1>1, <2>1, BegunKept
<1>4. CASE Send(t) /\ ~ UNCHANGED put
  <2>1. PICK h \in Handlers :
          /\ \A g \in Handlers \ {h} : put'[g] = put[g]
          /\ put'[h].offset = task[t].received
          /\ put'[h].chunk = <<job.output, task[t].received>>
    <3>1. \E h \in Handlers :
            /\ put[h].step = "free"
            /\ \A g \in Handlers \ {h} : put'[g] = put[g]
            /\ put'[h].step = "check" /\ put'[h].task = t
            /\ put'[h].offset = task[t].received
            /\ put'[h].chunk = <<job.output, task[t].received>>
      <4>1. Send(t) /\ put' # put
        BY <1>4
      <4>2. QED
        BY <4>1, SendDoes
    <3>2. PICK h \in Handlers :
            /\ put[h].step = "free"
            /\ \A g \in Handlers \ {h} : put'[g] = put[g]
            /\ put'[h].step = "check" /\ put'[h].task = t
            /\ put'[h].offset = task[t].received
            /\ put'[h].chunk = <<job.output, task[t].received>>
      BY <3>1
    <3>3. QED
      BY <3>2
  <2>2. /\ UNCHANGED <<serverVars, clashed, shared>> /\ task[t].pc = "put" /\ job.output # 0
    BY <1>4, SendDoes DEF history
  <2>3. ASSUME Proper, Sole PROVE Proper'
    <3>1. row.st \in Uploads => job.output = row.declared
      BY <2>2, <2>3 DEF Sole, Basics, Numbers
    <3>2. QED
      BY <2>1, <2>2, <2>3, <3>1 DEF Proper, serverVars
  <2>4. QED
    BY <2>2, <2>3 DEF Begun, Own
<1>5. UNCHANGED put \/ LoseChunk(t) \/ Send(t)
  BY LeaseDoes, BuildDoes, ReportedDoes, ReportDoes, LoseReportDoes, MarkDoes,
     RemoveDoes, StatusDoes, LoseStatusDoes, CompleteDoes, RecoverDoes
  DEF TaskStep, TaskFault
<1>6. QED
  BY <1>2, <1>3, <1>4, <1>5

\* A chunk that is appended is the next one.
LEMMA HandlerBegun ==
  ASSUME Typed, Basics, Unclashed, Begun, NEW h \in Handlers, HandlerStep(h)
  PROVE  Begun'
<1>1. UNCHANGED <<row, shared>> /\ (clashed => clashed')
  BY CheckDoes, AppendDoes, DigestDoes, RenameDoes DEF HandlerStep, serverVars, history
<1>2. \/ \E S : Frees(h, S)
      \/ \E l \in {"append", "digest", "rename"} : Advances(h, l)
  BY CheckDoes, AppendDoes, DigestDoes, RenameDoes DEF HandlerStep
<1>3. put[h].step # "free"
  BY CheckDoes, AppendDoes, DigestDoes, RenameDoes DEF HandlerStep
<1>4. \A g \in Handlers : Holds(g)
  <2>1. ASSUME NEW S, Frees(h, S), NEW g \in Handlers PROVE Holds(g)
    BY <2>1 DEF Frees, Holds, Typed, PutTypes
  <2>2. ASSUME NEW l \in {"append", "digest", "rename"}, Advances(h, l), NEW g \in Handlers
        PROVE  Holds(g)
    BY <1>3, <2>2 DEF Advances, Holds
  <2>3. QED
    BY <1>2, <2>1, <2>2
<1>5. CASE Emptied
  BY <1>1, <1>4, <1>5, BegunKept
<1>6. CASE AppendChunk(h) /\ ~Emptied
  <2>1. /\ put[h].step = "append" /\ row.st \in Uploads /\ part' = Append(part, put[h].chunk)
        /\ UNCHANGED <<clashed, shared>>
    BY <1>6, AppendDoes DEF Emptied, Uploads, history
  <2>2. part \in Chunks /\ row.declared \in Nat /\ Len(part) \in Nat
    BY DEF Typed, ServerTypes, Row, Chunks
  <2>3. ASSUME Proper, Lonely PROVE Proper'
    <3>1. put[h].offset = Len(part) /\ put[h].chunk = <<row.declared, Len(part)>>
      BY <2>1, <2>3 DEF Proper, Lonely
    <3>2. Len(part) < Size
      BY <2>1, <3>1 DEF Basics, Offsets
    <3>3. Beginning(part', row.declared)
      BY <2>1, <2>2, <2>3, <3>1, <3>2, Extends DEF Proper
    <3>4. QED
      BY <1>1, <1>4, <2>3, <3>3 DEF Proper, Holds, NoPut
  <2>4. QED
    BY <2>1, <2>3 DEF Begun, Unclashed
<1>7. QED
  BY <1>5, <1>6, CheckDoes, DigestDoes, RenameDoes DEF HandlerStep, Emptied, serverVars

\* The rest sends and appends nothing.
LEMMA OtherBegun ==
  ASSUME Typed, Basics, Begun,
         LoseLease \/ Expire \/ ExpireAbandoned \/ Crash \/ RecoverNothing \/ UNCHANGED vars
  PROVE  Begun'
<1>1. RowStep /\ (clashed => clashed') /\ UNCHANGED shared
  BY OtherQuiet, LoseLeaseDoes, ExpireDoes, CrashDoes, RecoverNothingDoes DEF vars, history
<1>2. UNCHANGED put \/ \A h \in Handlers : Forgets(h)
  BY LoseLeaseDoes, ExpireDoes, CrashDoes, RecoverNothingDoes DEF vars
<1>3. \A h \in Handlers : Holds(h)
  BY <1>2 DEF Forgets, Holds
<1>4. QED
  BY <1>1, <1>3, BegunKept

\* So every step keeps the beginning.
LEMMA NextBegun ==
  Typed /\ Basics /\ Unclashed /\ Own /\ Begun /\ [Next]_vars => Begun'
BY TaskBegun, HandlerBegun, OtherBegun DEF Next

\* What the server has of an unfinished file is a beginning of it, unless an
\* upload_put overlapped another one or two tasks were at work on the build.
THEOREM ResumesRight == Spec => []ResumesWhere
<1>1. Init => Unclashed /\ Own /\ Begun
  <2>1. SUFFICES ASSUME Init PROVE Unclashed /\ Own /\ Begun
    OBVIOUS
  <2>2. Unclashed
    BY <2>1 DEF Init, Unclashed, Lonely, NoPut, Writes
  <2>3. Own
    BY <2>1 DEF Init, Own, Sole, Resting, NoJob, Uploads
  <2>4. Begun
    BY <2>1, Params DEF Init, Begun, Proper, Beginning, Uploads
  <2>5. QED
    BY <2>2, <2>3, <2>4
<1>2. Typed /\ Begun => ResumesWhere
  BY Begins DEF Begun, Proper, ResumesWhere, Typed, ServerTypes, Row
<1>3. QED
  BY <1>1, <1>2, InitBasics, NextBasics, NextUnclashed, NextOwn, NextBegun, PTL DEF Spec
-----------------------------------------------------------------------------
(* A result that is waited for is kept.                                    *)

\* Row r does not wait for attempt a any more, or has accepted its report.
Past(r, a) == r.attempt > a \/ r.st \in {"failed", "succeeded"}
Taken(r, a) == Past(r, a) \/ (r.attempt = a /\ r.st = "uploading")

\* What a slot's step says of the row; what is delivered is what was written,
\* or that the builder died before it was.
Knows(t) ==
  /\ task[t].pc \in {"status", "put", "wait", "complete"} => Taken(row, task[t].attempt)
  /\ task[t].pc = "complete" => Past(row, task[t].attempt) \/ file # <<>>
  /\ task[t].pc = "remove" => Past(row, task[t].attempt)
  /\ task[t].pc = "mark" => IF task[t].result = "ok" THEN Taken(row, task[t].attempt)
                                                      ELSE Past(row, task[t].attempt)
  /\ task[t].pc = "build" => ~job.marker
  /\ task[t].pc \notin {"idle", "build"} =>
       task[t].result = job.report \/ (job.report = "none" /\ task[t].result = "transient")

\* The marker says that the report was accepted.
Marked == job.marker =>
  /\ Taken(row, job.attempt)
  /\ job.report # "ok" => Past(row, job.attempt)

\* An accepted report is marked, or about to be.
Owing == row.st = "uploading" /\ job.attempt = row.attempt =>
  job.marker \/ \E t \in Tasks : task[t].pc = "mark"

Told == (\A t \in Tasks : Knows(t)) /\ Marked /\ Owing

Heard == ~shared /\ ~unheard => Told

\* The row never goes back to an attempt, and its end settles every attempt.
LEMMA Passes ==
  ASSUME Typed, RowStep \/ UNCHANGED row, NEW a \in Nat, a <= row.attempt
  PROVE  /\ Past(row, a) => Past(row', a)
         /\ Taken(row, a) => Taken(row', a)
         /\ Failing \/ Succeeding => Past(row', a)
         /\ Accepting => Taken(row', a)
         /\ row'.attempt >= a
<1>1. row.attempt \in Nat /\ row'.attempt \in Nat
  BY Params DEF Typed, ServerTypes, Row, RowStep, serverVars, Failing, Leasing, Accepting,
                Succeeding
<1>2. QED
  BY <1>1 DEF Past, Taken, RowStep, serverVars, Failing, Leasing, Accepting, Succeeding

\* The marker stays true to the row.
LEMMA MarkedKept ==
  ASSUME Typed, Basics, Marked, RowStep \/ UNCHANGED row, UNCHANGED job
  PROVE  Marked'
<1>1. job.attempt \in Nat /\ job.attempt <= row.attempt
  BY DEF Typed, BuilderTypes, Job, Basics, Numbers
<1>2. QED
  BY <1>1, Passes DEF Marked

\* A slot that stays knows what it knew; a file is lost with the attempt.
LEMMA KnowsKept ==
  ASSUME Typed, Basics, NEW t \in Tasks, Knows(t), task'[t] = task[t], UNCHANGED job,
         RowStep \/ UNCHANGED row, file # <<>> => file' # <<>> \/ Failing
  PROVE  Knows(t)'
<1>1. task[t].attempt \in Nat /\ task[t].attempt <= row.attempt
  BY DEF Typed, BuilderTypes, Slot, Basics, Numbers
<1>2. QED
  BY <1>1, Passes DEF Knows

\* A step of the only slot at work: what it knows is all there is to know.
LEMMA SlotTold ==
  ASSUME Sole, NEW t \in Tasks, task[t].pc # "idle",
         \A u \in Tasks \ {t} : task'[u] = task[u], Knows(t)', Marked', Owing'
  PROVE  Told'
<1>1. \A u \in Tasks \ {t} : task'[u].pc = "idle"
  BY DEF Sole
<1>2. \A u \in Tasks \ {t} : Knows(u)'
  BY <1>1 DEF Knows
<1>3. QED
  BY <1>2 DEF Told

\* Where no slot is about to mark, the marker is there already.
LEMMA OwingKept ==
  ASSUME Owing, \A t \in Tasks : task[t].pc # "mark", UNCHANGED job,
         row'.st = "uploading" => UNCHANGED row
  PROVE  Owing'
BY DEF Owing

\* The slot at work goes on: to an error, or where the row lets it.
LEMMA GoesTold ==
  ASSUME Typed, Basics, Sole, Told, NEW t \in Tasks, NEW S, SlotStep(t, S),
         task[t].pc \notin {"idle", "build", "mark"}, UNCHANGED job,
         UNCHANGED serverVars \/ Succeeding,
         task'[t].pc \in {"idle", "deliver", "status", "put", "wait", "complete", "remove"},
         task'[t].pc \in {"status", "put", "wait", "complete"} => Taken(row, task[t].attempt),
         task'[t].pc = "complete" => file # <<>>,
         task'[t].pc = "remove" => Past(row', task[t].attempt)
  PROVE  Told'
<1>1. RowStep
  BY DEF RowStep
<1>2. task[t].attempt \in Nat /\ task[t].attempt <= row.attempt
  BY DEF Typed, BuilderTypes, Slot, Basics, Numbers
<1>3. /\ \A u \in Tasks \ {t} : task'[u] = task[u]
      /\ task'[t].pc # "idle" =>
           task'[t].attempt = task[t].attempt /\ task'[t].result = task[t].result
  BY DEF SlotStep, Resting
<1>4. Knows(t)'
  <2>1. CASE task'[t].pc = "idle"
    BY <2>1 DEF Knows
  <2>2. CASE task'[t].pc # "idle"
    <3>1. task'[t].result = job.report \/ (job.report = "none" /\ task'[t].result = "transient")
      BY <1>3, <2>2 DEF Told, Knows
    <3>2. Taken(row, task[t].attempt) => Taken(row', task[t].attempt)
      BY <1>1, <1>2, Passes
    <3>3. UNCHANGED file
      BY DEF serverVars, Succeeding
    <3>4. QED
      BY <1>3, <2>2, <3>1, <3>2, <3>3 DEF Knows
  <2>3. QED
    BY <2>1, <2>2
<1>5. Marked'
  BY <1>1, MarkedKept DEF Told
<1>6. Owing'
  <2>1. \A u \in Tasks : task[u].pc # "mark"
    BY DEF Sole
  <2>2. QED
    BY <2>1, OwingKept DEF Told, serverVars, Succeeding
<1>7. QED
  BY <1>3, <1>4, <1>5, <1>6, SlotTold

\* The delivery: it is told of an attempt that is over only if it is.
LEMMA ReportTold ==
  ASSUME Typed, Basics, Sole, Told, NEW t \in Tasks, Report(t)
  PROVE  Told'
<1>1. /\ task[t].pc = "deliver" /\ UNCHANGED job /\ ~(job.exists /\ job.marker)
  BY ReportDoes
<1>2. /\ task[t].attempt \in Nat /\ task[t].attempt <= row.attempt /\ row.attempt \in Nat
      /\ task[t].attempt = job.attempt
  BY <1>1, Params DEF Typed, BuilderTypes, ServerTypes, Row, Slot, Basics, Numbers, Sole
<1>3. ~job.marker
  BY <1>1 DEF Sole
<1>4. \A u \in Tasks : task[u].pc # "mark"
  BY <1>1 DEF Sole
<1>5. CASE ~Expected(t) /\ UNCHANGED serverVars /\ SlotStep(t, {"remove"})
  <2>1. Past(row, task[t].attempt)
    <3>1. CASE row.attempt = task[t].attempt
      <4>1. row.st \notin {"running", "queued"}
        BY <1>2, <1>5, <3>1 DEF Expected, Basics, Numbers
      <4>2. row.st # "uploading"
        BY <1>2, <1>3, <1>4, <3>1 DEF Told, Owing
      <4>3. row.st \in States
        BY DEF Typed, ServerTypes, Row
      <4>4. QED
        BY <4>1, <4>2, <4>3 DEF Past, States
    <3>2. QED
      BY <1>2, <3>1 DEF Past
  <2>2. task'[t].pc = "remove" /\ UNCHANGED row
    BY <1>5 DEF SlotStep, Resting, serverVars
  <2>3. QED
    BY <1>1, <1>5, <2>1, <2>2, GoesTold
<1>6. CASE /\ row.st = "running" /\ row.attempt = task[t].attempt
           /\ IF task[t].result = "ok" THEN Accepting ELSE Failing
           /\ IF task[t].result = "odd" THEN SlotStep(t, {"deliver", "idle"})
                                        ELSE SlotStep(t, {"mark"})
  <2>1. RowStep /\ Marked'
    BY <1>1, <1>6, MarkedKept DEF RowStep, Told
  <2>2. /\ \A u \in Tasks \ {t} : task'[u] = task[u]
        /\ \/ task'[t].pc = "idle"
           \/ task'[t].attempt = task[t].attempt /\ task'[t].result = task[t].result
        /\ task'[t].pc \in {"idle", "deliver", "mark"}
        /\ task[t].result = "ok" => task'[t].pc = "mark"
    BY <1>6 DEF SlotStep, Resting
  <2>3. IF task[t].result = "ok" THEN Taken(row', task[t].attempt) ELSE Past(row', task[t].attempt)
    BY <1>2, <1>6, <2>1, Passes
  <2>4. Knows(t)'
    BY <1>1, <2>2, <2>3 DEF Knows, Told
  <2>5. Owing'
    BY <1>6, <2>2 DEF Owing, Failing
  <2>6. QED
    BY <1>1, <2>1, <2>2, <2>4, <2>5, SlotTold
<1>7. QED
  BY <1>5, <1>6, ReportDoes

\* The marker is written when the answer is there.
LEMMA MarkTold ==
  ASSUME Typed, Basics, Sole, Told, NEW t \in Tasks, Mark(t)
  PROVE  Told'
<1>1. task[t].pc = "mark" /\ UNCHANGED serverVars /\ job.exists /\ job.attempt = task[t].attempt
  BY MarkDoes DEF Sole
<1>2. /\ job'.marker /\ job'.attempt = job.attempt /\ job'.report = job.report
      /\ SlotStep(t, {IF task[t].result = "ok" THEN "status" ELSE "remove"})
  BY <1>1, MarkDoes
<1>3. /\ \A u \in Tasks \ {t} : task'[u] = task[u]
      /\ task'[t].attempt = task[t].attempt /\ task'[t].result = task[t].result
      /\ task'[t].pc = (IF task[t].result = "ok" THEN "status" ELSE "remove")
  BY <1>2 DEF SlotStep
<1>4. /\ IF task[t].result = "ok" THEN Taken(row, task[t].attempt) ELSE Past(row, task[t].attempt)
      /\ task[t].result = job.report \/ (job.report = "none" /\ task[t].result = "transient")
  BY <1>1 DEF Told, Knows
<1>5. Knows(t)'
  BY <1>1, <1>2, <1>3, <1>4 DEF Knows, serverVars
<1>6. Marked' /\ Owing'
  BY <1>1, <1>2, <1>4 DEF Marked, Owing, Taken, serverVars
<1>7. QED
  BY <1>1, <1>3, <1>5, <1>6, SlotTold

\* A lease and a recovery begin work: on a new directory, or on one whose
\* report is what is delivered.
LEMMA BeginTold ==
  ASSUME Typed, Basics, Own, Heard, NEW t \in Tasks, Lease(t) \/ Recover(t)
  PROVE  Heard'
<1>1. SUFFICES ASSUME ~shared', ~unheard' PROVE Told'
  BY DEF Heard
<1>2. CASE Lease(t)
  <2>1. /\ Leasing /\ Turns(t, "build", row.attempt, "none") /\ ~job'.marker
        /\ \A u \in Tasks \ {t} : task[u].pc = "idle"
    BY <1>1, <1>2, LeaseDoes
  <2>2. \A u \in Tasks : Knows(u)'
    BY <2>1 DEF Knows, Turns
  <2>3. QED
    BY <2>1, <2>2 DEF Told, Marked, Owing, Leasing
<1>3. CASE Recover(t)
  <2>1. /\ UNCHANGED <<serverVars, job, shared, unheard>>
        /\ \A u \in Tasks : task[u].pc = "idle"
    BY <1>3, RecoverDoes DEF history
  <2>2. PICK r : /\ Turns(t, "deliver", job.attempt, r)
                 /\ r = job.report \/ (job.report = "none" /\ r = "transient")
    BY <1>3, RecoverDoes
  <2>3. Told
    BY <1>1, <2>1 DEF Heard
  <2>4. \A u \in Tasks : Knows(u)'
    BY <2>1, <2>2 DEF Knows, Turns
  <2>5. Marked' /\ Owing'
    BY <2>1, <2>3, MarkedKept, OwingKept DEF Told, serverVars
  <2>6. QED
    BY <2>4, <2>5 DEF Told
<1>4. QED
  BY <1>2, <1>3

\* The report of a build: there is no marker of an earlier one.
LEMMA BuildTold ==
  ASSUME Typed, Sole, Told, NEW t \in Tasks, BuildOk(t) \/ BuildFails(t)
  PROVE  Told'
<1>1. UNCHANGED serverVars /\ task[t].pc = "build" /\ ~job.marker
  BY BuildDoes DEF Told, Knows
<1>2. PICK r, o : Reports(r, o) /\ Turns(t, "deliver", task[t].attempt, r)
  BY BuildDoes
<1>3. Knows(t)'
  BY <1>2 DEF Turns, Reports, Knows
<1>4. Marked' /\ Owing'
  BY <1>1, <1>2 DEF Marked, Owing, Reports, Told, Sole, serverVars
<1>5. QED
  BY <1>1, <1>2, <1>3, <1>4, SlotTold DEF Turns

\* The directory is removed: there is nothing left to be told.
LEMMA RemoveTold ==
  ASSUME Typed, Basics, Sole, Told, NEW t \in Tasks, Remove(t)
  PROVE  Told'
<1>1. UNCHANGED serverVars /\ task[t].pc = "remove" /\ job' = NoJob /\ SlotStep(t, {"idle"})
  BY RemoveDoes
<1>2. row.attempt # 0
  BY Params DEF Typed, ServerTypes, Row
<1>3. /\ \A u \in Tasks \ {t} : task'[u] = task[u]
      /\ task'[t].pc = "idle"
  BY <1>1 DEF SlotStep, Resting
<1>4. Knows(t)' /\ Marked' /\ Owing'
  BY <1>1, <1>2, <1>3 DEF Knows, Marked, Owing, NoJob, serverVars
<1>5. QED
  BY <1>1, <1>3, <1>4, SlotTold

\* The steps of the upload: each goes on only while the row waits for it.
LEMMA UploadTold ==
  ASSUME Typed, Basics, Sole, Told, NEW t \in Tasks,
         \/ Reported(t) \/ Status(t) \/ LoseStatus(t) \/ Send(t) \/ LoseChunk(t)
         \/ Complete(t) \/ LoseComplete(t)
  PROVE  Told'
<1>1. Knows(t) /\ task[t].pc # "idle" => task[t].attempt = job.attempt
  BY DEF Told, Sole
<1>2. CASE Reported(t)
  <2>1. /\ UNCHANGED <<serverVars, job>> /\ task[t].pc = "deliver" /\ job.marker
        /\ SlotStep(t, {IF task[t].result \in {"ok", "odd"} THEN "status" ELSE "remove"})
    BY <1>2, ReportedDoes
  <2>2. task'[t].pc = (IF task[t].result \in {"ok", "odd"} THEN "status" ELSE "remove")
    BY <2>1 DEF SlotStep, Resting
  <2>3. /\ Taken(row, task[t].attempt)
        /\ task[t].result \notin {"ok", "odd"} => Past(row, task[t].attempt)
    BY <2>1 DEF Told, Marked, Sole, Knows
  <2>4. QED
    BY <2>1, <2>2, <2>3, GoesTold DEF serverVars
<1>3. CASE Status(t) /\ \E S : SlotStep(t, S)
  <2>1. UNCHANGED <<serverVars, job>> /\ task[t].pc = "status" /\ Taken(row, task[t].attempt)
    BY <1>3, StatusDoes DEF Told, Knows
  <2>2. \/ row.st # "uploading" /\ SlotStep(t, {"remove"})
        \/ file # <<>> /\ SlotStep(t, {"complete"})
        \/ SlotStep(t, {"deliver", "idle"})
        \/ task'[t].pc = "put"
    BY <1>3, StatusDoes DEF Turns
  <2>3. /\ task'[t].pc \in {"remove", "complete", "deliver", "idle", "put"}
        /\ task'[t].pc = "remove" => row.st # "uploading"
        /\ task'[t].pc = "complete" => file # <<>>
    BY <2>2 DEF SlotStep, Resting
  <2>4. task'[t].pc = "remove" => Past(row', task[t].attempt)
    BY <2>1, <2>3 DEF Taken, Past, serverVars
  <2>5. QED
    BY <1>3, <2>1, <2>3, <2>4, GoesTold
<1>4. CASE Status(t) /\ Turns(t, "put", task[t].attempt, task[t].result)
  <2>1. /\ UNCHANGED <<serverVars, job>> /\ task[t].pc = "status"
        /\ Taken(row, task[t].attempt)
    BY <1>4, StatusDoes DEF Told, Knows
  <2>2. Knows(t)'
    BY <1>4, <2>1 DEF Turns, Told, Knows, serverVars
  <2>3. Marked' /\ Owing'
    BY <2>1, MarkedKept, OwingKept DEF Told, serverVars, Sole
  <2>4. QED
    BY <1>4, <2>1, <2>2, <2>3, SlotTold DEF Turns
<1>5. CASE LoseStatus(t) \/ LoseChunk(t)
  <2>1. /\ UNCHANGED <<serverVars, job>> /\ task[t].pc \in {"status", "wait"}
        /\ SlotStep(t, {"deliver", "idle"})
    BY <1>5, LoseStatusDoes, LoseChunkDoes
  <2>2. task'[t].pc \in {"deliver", "idle"}
    BY <2>1 DEF SlotStep, Resting
  <2>3. QED
    BY <2>1, <2>2, GoesTold
<1>6. CASE Send(t)
  <2>1. /\ UNCHANGED <<serverVars, job>> /\ task[t].pc = "put" /\ Taken(row, task[t].attempt)
        /\ SlotStep(t, {"deliver", "idle"}) \/ SlotStep(t, {"wait"})
    BY <1>6, SendDoes DEF Told, Knows
  <2>2. task'[t].pc \in {"deliver", "idle", "wait"}
    BY <2>1 DEF SlotStep, Resting
  <2>3. QED
    BY <2>1, <2>2, GoesTold
<1>7. CASE Complete(t) \/ LoseComplete(t)
  <2>1. /\ UNCHANGED job /\ task[t].pc = "complete" /\ (UNCHANGED serverVars \/ Succeeding)
        /\ \/ SlotStep(t, {"deliver", "idle"})
           \/ SlotStep(t, {"remove"}) /\ (row.st = "uploading" /\ file # <<>> => Succeeding)
    BY <1>7, CompleteDoes
  <2>2. /\ task'[t].pc \in {"deliver", "idle", "remove"}
        /\ task'[t].pc = "remove" => (row.st = "uploading" /\ file # <<>> => Succeeding)
    BY <2>1 DEF SlotStep, Resting
  <2>3. Past(row, task[t].attempt) \/ (row.st = "uploading" /\ file # <<>>)
    BY <2>1 DEF Told, Knows, Taken
  <2>4. task[t].attempt \in Nat /\ task[t].attempt <= row.attempt
    BY DEF Typed, BuilderTypes, Slot, Basics, Numbers
  <2>5. task'[t].pc = "remove" => Past(row', task[t].attempt)
    BY <2>1, <2>2, <2>3, <2>4, Passes DEF RowStep
  <2>6. QED
    BY <2>1, <2>2, <2>5, GoesTold
<1>8. QED
  BY <1>2, <1>3, <1>4, <1>5, <1>6, <1>7, StatusDoes

\* A slot's steps; a lost answer to a report may leave it untold.
LEMMA TaskTold ==
  ASSUME Typed, Basics, Own, Heard, NEW t \in Tasks, TaskStep(t) \/ TaskFault(t)
  PROVE  Heard'
<1>1. CASE Lease(t) \/ Recover(t)
  BY <1>1, BeginTold
<1>2. CASE UNCHANGED <<shared, unheard>> /\ (Sole /\ Told => Told')
  BY <1>2 DEF Own, Heard
<1>3. CASE BuildOk(t) \/ BuildFails(t)
  BY <1>2, <1>3, BuildDoes, BuildTold DEF history
<1>4. CASE Report(t)
  BY <1>2, <1>4, ReportDoes, ReportTold
<1>5. CASE LoseReport(t)
  <2>1. UNCHANGED <<shared, job>> /\ task[t].pc = "deliver" /\ SlotStep(t, {"deliver", "idle"})
    BY <1>5, LoseReportDoes
  <2>2. CASE unheard'
    BY <2>2 DEF Heard
  <2>3. CASE UNCHANGED <<serverVars, unheard>>
    <3>1. task'[t].pc \in {"deliver", "idle"}
      BY <2>1 DEF SlotStep, Resting
    <3>2. Sole /\ Told => Told'
      BY <2>1, <2>3, <3>1, GoesTold
    <3>3. QED
      BY <1>2, <2>1, <2>3, <3>2
  <2>4. QED
    BY <1>5, <2>2, <2>3, LoseReportDoes
<1>6. CASE Mark(t)
  BY <1>2, <1>6, MarkDoes, MarkTold DEF history
<1>7. CASE Remove(t)
  BY <1>2, <1>7, RemoveDoes, RemoveTold DEF history
<1>8. CASE \/ Reported(t) \/ Status(t) \/ LoseStatus(t) \/ Send(t) \/ LoseChunk(t)
           \/ Complete(t) \/ LoseComplete(t)
  <2>1. UNCHANGED <<shared, unheard>>
    BY <1>8, ReportedDoes, StatusDoes, LoseStatusDoes, SendDoes, LoseChunkDoes, CompleteDoes
    DEF history
  <2>2. QED
    BY <1>2, <1>8, <2>1, UploadTold
<1>9. QED
  BY <1>1, <1>3, <1>4, <1>5, <1>6, <1>7, <1>8 DEF TaskStep, TaskFault

\* An answer to a chunk: 409 takes the job away only when the row is past it.
LEMMA HandlerTold ==
  ASSUME Typed, Basics, Own, Heard, NEW h \in Handlers, HandlerStep(h)
  PROVE  Heard'
<1>1. UNCHANGED <<row, job, shared, unheard>>
  BY CheckDoes, AppendDoes, DigestDoes, RenameDoes DEF HandlerStep, serverVars, history
<1>2. file # <<>> => file' # <<>>
  BY CheckDoes, AppendDoes, DigestDoes, RenameDoes DEF HandlerStep, serverVars
<1>3. SUFFICES ASSUME Sole, Told PROVE Told'
  BY <1>1 DEF Own, Heard
<1>4. Marked'
  BY <1>1, <1>3, MarkedKept DEF Told
<1>5. CASE UNCHANGED task
  <2>1. \A u \in Tasks : Knows(u)'
    BY <1>1, <1>2, <1>3, <1>5, KnowsKept DEF Told
  <2>2. Owing'
    BY <1>1, <1>3, <1>5 DEF Told, Owing
  <2>3. QED
    BY <1>4, <2>1, <2>2 DEF Told
<1>6. CASE ~ UNCHANGED task
  <2>1. PICK t \in Tasks : t = put[h].task /\ t # Nobody
    BY <1>6, Params, CheckDoes, AppendDoes, DigestDoes, RenameDoes
    DEF HandlerStep, Frees, Typed, PutTypes, Put
  <2>2. task[t].pc = "wait"
    BY <2>1 DEF Basics, Waiting
  <2>3. \/ SlotStep(t, {"status", "deliver", "idle"})
        \/ row.st # "uploading" /\ SlotStep(t, {"status", "remove", "deliver", "idle"})
    BY <1>6, <2>1, CheckDoes, AppendDoes, DigestDoes, RenameDoes DEF HandlerStep, Frees
  <2>4. /\ \A u \in Tasks \ {t} : task'[u] = task[u]
        /\ \/ task'[t].pc = "idle"
           \/ task'[t].attempt = task[t].attempt /\ task'[t].result = task[t].result
        /\ task'[t].pc \in {"idle", "deliver", "status", "remove"}
        /\ task'[t].pc = "remove" => row.st # "uploading"
    BY <2>3 DEF SlotStep, Resting
  <2>5. Knows(t)'
    BY <1>1, <1>3, <2>2, <2>4 DEF Told, Knows, Taken, Past
  <2>6. Owing'
    BY <1>1, <1>3, <2>2, OwingKept DEF Told, Sole
  <2>7. QED
    BY <1>3, <1>4, <2>2, <2>4, <2>5, <2>6, SlotTold
<1>7. QED
  BY <1>5, <1>6

\* A builder that dies before it marks is untold; else no slot was to mark.
LEMMA OtherTold ==
  ASSUME Typed, Basics, Heard,
         LoseLease \/ Expire \/ ExpireAbandoned \/ Crash \/ RecoverNothing \/ UNCHANGED vars
  PROVE  Heard'
<1>1. CASE LoseLease \/ Expire \/ ExpireAbandoned
  <2>1. UNCHANGED <<job, task, shared, unheard>> /\ (Leasing \/ Failing)
    BY <1>1, LoseLeaseDoes, ExpireDoes DEF history
  <2>2. ASSUME Told PROVE Told'
    <3>1. \A u \in Tasks : Knows(u)'
      BY <2>1, <2>2, KnowsKept DEF Told, RowStep, Leasing
    <3>2. Marked'
      BY <2>1, <2>2, MarkedKept DEF Told, RowStep
    <3>3. Owing'
      BY <2>1 DEF Owing, Leasing, Failing
    <3>4. QED
      BY <3>1, <3>2, <3>3 DEF Told
  <2>3. QED
    BY <2>1, <2>2 DEF Heard
<1>2. CASE Crash
  <2>1. /\ UNCHANGED <<serverVars, job, shared>> /\ \A t \in Tasks : task'[t] = Resting
        /\ unheard' = (unheard \/ \E t \in Tasks : task[t].pc = "mark")
    BY <1>2, CrashDoes
  <2>2. SUFFICES ASSUME Told, \A t \in Tasks : task[t].pc # "mark" PROVE Told'
    BY <2>1 DEF Heard
  <2>3. \A u \in Tasks : Knows(u)'
    BY <2>1 DEF Knows, Resting
  <2>4. Marked' /\ Owing'
    BY <2>1, <2>2, MarkedKept, OwingKept DEF Told, serverVars
  <2>5. QED
    BY <2>3, <2>4 DEF Told
<1>3. CASE RecoverNothing
  <2>1. /\ UNCHANGED <<serverVars, task, shared, unheard>> /\ job' = NoJob
        /\ \A t \in Tasks : task[t].pc = "idle"
    BY <1>3, RecoverNothingDoes DEF history
  <2>2. row.attempt # 0
    BY Params DEF Typed, ServerTypes, Row
  <2>3. Told'
    BY <2>1, <2>2 DEF Told, Knows, Marked, Owing, NoJob, serverVars
  <2>4. QED
    BY <2>3 DEF Heard
<1>4. CASE UNCHANGED vars
  BY <1>4 DEF vars, serverVars, history, Heard, Told, Knows, Marked, Owing
<1>5. QED
  BY <1>1, <1>2, <1>3, <1>4

\* So every step keeps what the builder was told.
LEMMA NextTold == Typed /\ Basics /\ Own /\ Heard /\ [Next]_vars => Heard'
BY TaskTold, HandlerTold, OtherTold DEF Next

\* Only Remove and RecoverNothing take the directory away.
LEMMA Vanishes ==
  ASSUME Typed, Own, [Next]_vars, ~shared, job.exists, ~job'.exists
  PROVE  (\E t \in Tasks : task[t].pc = "remove") \/ job.attempt = 0
<1>1. CASE \E h \in Handlers : HandlerStep(h)
  BY <1>1, CheckDoes, AppendDoes, DigestDoes, RenameDoes DEF HandlerStep
<1>2. CASE LoseLease \/ Expire \/ ExpireAbandoned \/ Crash \/ RecoverNothing \/ UNCHANGED vars
  BY <1>2, LoseLeaseDoes, ExpireDoes, CrashDoes, RecoverNothingDoes DEF vars
<1>3. ASSUME NEW t \in Tasks, TaskStep(t) \/ TaskFault(t) PROVE Remove(t)
  BY <1>3, LeaseDoes, BuildDoes, ReportedDoes, ReportDoes, LoseReportDoes, MarkDoes,
     StatusDoes, LoseStatusDoes, CompleteDoes, SendDoes, LoseChunkDoes, RecoverDoes
  DEF TaskStep, TaskFault, Reports
<1>4. QED
  BY <1>1, <1>2, <1>3, RemoveDoes DEF Next

\* A builder does not throw away a result that the server still waits for,
\* unless it missed that the report was accepted, or two attempts shared the
\* directory.
THEOREM KeepsWanted == Spec => KeptWhileWanted
<1>1. Init => Own /\ Heard
  <2>1. SUFFICES ASSUME Init PROVE Own /\ Heard
    OBVIOUS
  <2>2. Own
    BY <2>1 DEF Init, Own, Sole, Resting, NoJob, Uploads
  <2>3. Heard
    BY <2>1 DEF Init, Heard, Told, Knows, Marked, Owing, Resting, NoJob
  <2>4. QED
    BY <2>2, <2>3
<1>2. ASSUME Typed, Own, Heard, [Next]_vars, job.exists, ~job'.exists, ~shared, ~unheard
      PROVE  ~(row.attempt = job.attempt /\ row.st \in {"running", "uploading"})
  <2>1. row.attempt \in Nat /\ row.attempt # 0
    BY <1>2, Params DEF Typed, ServerTypes, Row
  <2>2. CASE job.attempt = 0
    BY <2>1, <2>2
  <2>3. CASE \E t \in Tasks : task[t].pc = "remove"
    <3>1. PICK t \in Tasks : task[t].pc = "remove"
      BY <2>3
    <3>2. Past(row, job.attempt)
      BY <1>2, <3>1 DEF Heard, Told, Knows, Own, Sole
    <3>3. QED
      BY <2>1, <3>2 DEF Past
  <2>4. QED
    BY <1>2, <2>2, <2>3, Vanishes
<1>3. Typed /\ Own /\ Heard /\ [Next]_vars =>
        [job.exists /\ ~job'.exists /\ ~shared /\ ~unheard =>
           ~(row.attempt = job.attempt /\ row.st \in {"running", "uploading"})]_vars
  BY <1>2
<1>4. QED
  BY <1>1, <1>3, InitBasics, NextBasics, NextOwn, NextTold, PTL DEF Spec, KeptWhileWanted
=============================================================================
