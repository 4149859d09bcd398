-------------------------------- MODULE Runner --------------------------------
(***************************************************************************)
(* A builder (crates/aursmith-builder/src: runner.rs, client.rs, guest.rs) *)
(* and the server's side of its protocol, for one build row: the job       *)
(* directory with state.json, report.json, `reported` and the output, the  *)
(* delivery of a result with its retries, the upload in chunks, and what a *)
(* restart finds.  A builder runs several jobs at once, and may lease the  *)
(* same row again while an earlier attempt is still being delivered.       *)
(* Requests or answers are lost, leases run out early, the builder dies.   *)
(* upload_put is a handler with steps of its own; the other handlers are   *)
(* single steps here, module Builds has their interleavings.               *)
(***************************************************************************)
EXTENDS Integers, Sequences, FiniteSets

CONSTANTS
  Tasks,       \* slots: jobs a builder runs at once (concurrency)
  Handlers,    \* bound: upload_put requests in progress at once
  Nobody,      \* no task
  Size,        \* chunks of the package that is built
  MaxRetries,  \* MAXIMUM_TRANSIENT_RETRIES
  MaxTries,    \* deliveries before a task gives up: 6
  Events,      \* what may go wrong
  MaxEvents    \* bound: how often

ASSUME RunnerAssumption ==
  /\ IsFiniteSet(Tasks) /\ Tasks # {} /\ Nobody \notin Tasks
  /\ {Size, MaxTries} \subseteq Nat \ {0} /\ {MaxRetries, MaxEvents} \subseteq Nat
  /\ Events \subseteq {"lose", "expire", "fail", "crash"}

VARIABLES
  row,        \* the row: st, attempt, declared (attempt whose artifacts it lists)
  part,       \* <file>.part on the server: the chunks in it
  file,       \* the file under its final name, or <<>>
  put,        \* upload_put requests: step, task that waits, offset, chunk
  job,        \* the builder's directory for this build
  task,       \* each slot: pc, attempt, result, tries, received, restarted
  recovering, \* recover runs: nothing is leased yet
  count,      \* faults so far
  clashed,    \* history: an upload_put overlapped another, or outlived its attempt
  shared,     \* history: two tasks were at work on this build
  unheard     \* history: the builder missed that its report was accepted

serverVars == <<row, part, file>>
history == <<clashed, shared, unheard>>
vars == <<serverVars, put, job, task, recovering, count, history>>

-----------------------------------------------------------------------------
(* Failure codes. *)

\* Of the many codes of each stage, one for either class that it can end in.

\* The guest, before makepkg: the declared keys cannot be fetched, or are wrong.
KeyErrors == {"BUILD_NETWORK_TRANSIENT", "GUEST_PGP_FAILED"}

\* The guest: makepkg, what it downloads, and the packages that came out.
MakeErrors == {"BUILD_NETWORK_TRANSIENT", "GUEST_BUILD_FAILED"}

\* run_container, if the guest has left no code.
DockerErrors == {"DOCKER_NETWORK_TIMEOUT", "BUILD_TIMEOUT"}

\* build: the stages before the container, the container, read_guest_result.
BuildErrors ==
  {"DEPENDENCY_DOWNLOAD_FAILED", "GUEST_OUTPUT_MISMATCH"}
    \cup DockerErrors \cup KeyErrors \cup MakeErrors

\* classify_error_code, as far as fail_build tells classes apart.
Class(code) ==
  IF code \in {"BUILD_NETWORK_TRANSIENT", "DOCKER_NETWORK_TIMEOUT",
               "DEPENDENCY_DOWNLOAD_FAILED", "BUILDER_RESTARTED", "LEASE_EXPIRED"}
    THEN "transient" ELSE "permanent"

-----------------------------------------------------------------------------
NoJob == [exists |-> FALSE, attempt |-> 0, report |-> "none", output |-> 0,
          marker |-> FALSE]
NoPut == [step |-> "free", task |-> Nobody, offset |-> 0, chunk |-> <<0, 0>>]
Resting == [pc |-> "idle", attempt |-> 0, result |-> "none", tries |-> 0,
            received |-> 0, restarted |-> FALSE]

Init ==
  /\ row = [st |-> "queued", attempt |-> 1, declared |-> 0]
  /\ part = <<>> /\ file = <<>>
  /\ put = [h \in Handlers |-> NoPut]
  /\ job = NoJob
  /\ task = [t \in Tasks |-> Resting]
  /\ recovering = FALSE /\ count = 0
  /\ clashed = FALSE /\ shared = FALSE /\ unheard = FALSE

\* One more fault, of kind e.
Happens(e) == e \in Events /\ count < MaxEvents /\ count' = count + 1

\* The package that attempt a built, chunk by chunk.
Whole(a) == [i \in 1 .. Size |-> <<a, i - 1>>]

\* Task t goes on at step l.
Goto(t, l) == task' = [task EXCEPT ![t].pc = l]

\* Task t has an error: it sleeps and delivers anew, where upload_file starts
\* without having restarted, or gives up and keeps its directory.
Fails(t) ==
  IF task[t].tries + 1 < MaxTries
    THEN /\ task' = [task EXCEPT ![t].pc = "deliver", ![t].tries = @ + 1,
                                 ![t].restarted = FALSE]
         /\ UNCHANGED recovering
    ELSE /\ task' = [task EXCEPT ![t] = Resting]
         /\ recovering' = FALSE

\* Appends that are under way.
Writing == {h \in Handlers : put[h].step \in {"append", "digest", "rename"}}

\* Mutant: the files of the failed attempt stay.
FailRowKeepsFiles(class) ==
  /\ row' = IF class = "transient" /\ row.attempt <= MaxRetries
              THEN [st |-> "queued", attempt |-> row.attempt + 1, declared |-> 0]
              ELSE [row EXCEPT !.st = "failed"]
  /\ UNCHANGED <<part, file, clashed>>

\* fail_build: the row is queued again or failed, and its files are removed.
FailRow(class) ==
  /\ row' = IF class = "transient" /\ row.attempt <= MaxRetries
              THEN [st |-> "queued", attempt |-> row.attempt + 1, declared |-> 0]
              ELSE [row EXCEPT !.st = "failed"]
  /\ part' = <<>> /\ file' = <<>>
  /\ UNCHANGED clashed

-----------------------------------------------------------------------------
(* A job: lease, directory, container, report.json. *)

\* run and execute: the row is leased and its directory set up anew, also if
\* another task still uses it.
Lease(t) ==
  /\ ~recovering
  /\ task[t].pc = "idle"
  /\ row.st = "queued"
  /\ row' = [row EXCEPT !.st = "running"]
  /\ job' = [NoJob EXCEPT !.exists = TRUE, !.attempt = row.attempt]
  /\ task' = [task EXCEPT ![t] = [Resting EXCEPT !.pc = "build", !.attempt = row.attempt]]
  /\ shared' = (shared \/ \E u \in Tasks \ {t} : task[u].pc # "idle")
  /\ UNCHANGED <<part, file, put, recovering, count, clashed, unheard>>

\* The answer to a lease request is lost: the row is leased to nobody.
LoseLease ==
  /\ ~recovering /\ \E t \in Tasks : task[t].pc = "idle"
  /\ row.st = "queued"
  /\ Happens("lose")
  /\ row' = [row EXCEPT !.st = "running"]
  /\ UNCHANGED <<part, file, put, job, task, recovering, history>>

\* write_json(report.json) makes the directory if it is gone, but no state.json.
WriteReport(t, result, output) ==
  /\ job' = [job EXCEPT !.exists = TRUE, !.report = result, !.output = output]
  /\ task' = [task EXCEPT ![t].pc = "deliver", ![t].result = result]

\* build and the report: packages, if the directory is still the task's own;
\* else read_guest_result finds nothing, or what the other task has built.
BuildOk(t) ==
  /\ task[t].pc = "build"
  /\ IF job.exists /\ job.attempt = task[t].attempt
       THEN WriteReport(t, "ok", task[t].attempt)
       ELSE IF job.output # 0 THEN WriteReport(t, "ok", job.output)
       ELSE WriteReport(t, Class("GUEST_OUTPUT_MISMATCH"), 0)
  /\ UNCHANGED <<serverVars, put, recovering, count, history>>

\* build: a stage fails, or the packages are not the declared ones.
BuildFails(t) ==
  /\ task[t].pc = "build"
  /\ Happens("fail")
  /\ \E r \in {Class(code) : code \in BuildErrors} \cup {"odd"} :
       WriteReport(t, r, IF r = "odd" THEN task[t].attempt ELSE job.output)
  /\ UNCHANGED <<serverVars, put, recovering, history>>

-----------------------------------------------------------------------------
(* Delivery: report, marker, upload, complete. *)

\* report on the server: the row waits for this attempt.
Expected(t) == row.st = "running" /\ row.attempt = task[t].attempt

\* What an expected report does to the row: uploading, or failed.
TakeReport(t) ==
  IF task[t].result = "ok"
    THEN /\ row' = [row EXCEPT !.st = "uploading", !.declared = task[t].attempt]
         /\ clashed' = (clashed \/ \E h \in Handlers : put[h].step # "free")
         /\ UNCHANGED <<part, file>>
    ELSE FailRow(IF task[t].result = "odd" THEN Class("OUTPUT_MISMATCH")
                                           ELSE task[t].result)

\* deliver: the marker is there, so the report was accepted.
Reported(t) ==
  /\ task[t].pc = "deliver"
  /\ job.exists /\ job.marker
  /\ Goto(t, IF task[t].result \in {"ok", "odd"} THEN "status" ELSE "remove")
  /\ UNCHANGED <<serverVars, put, job, recovering, count, history>>

\* deliver: the report is answered; 409 discards the job, 400 is an error.
Report(t) ==
  /\ task[t].pc = "deliver"
  /\ ~(job.exists /\ job.marker)
  /\ IF ~Expected(t) THEN Goto(t, "remove") /\ UNCHANGED <<serverVars, recovering, clashed>>
     ELSE /\ TakeReport(t)
          /\ IF task[t].result = "odd" THEN Fails(t)
                                       ELSE Goto(t, "mark") /\ UNCHANGED recovering
  /\ UNCHANGED <<put, job, count, shared, unheard>>

\* deliver: the request or its answer is lost.
LoseReport(t) ==
  /\ task[t].pc = "deliver"
  /\ ~(job.exists /\ job.marker)
  /\ Happens("lose")
  /\ \/ UNCHANGED <<serverVars, clashed, unheard>>
     \/ Expected(t) /\ TakeReport(t) /\ unheard' = TRUE
  /\ Fails(t)
  /\ UNCHANGED <<put, job, shared>>

\* Mutant: no marker is written.
MarkNothing(t) ==
  /\ task[t].pc = "mark"
  /\ Goto(t, IF task[t].result = "ok" THEN "status" ELSE "remove")
  /\ UNCHANGED <<serverVars, put, job, recovering, count, history>>

\* deliver: fs::write(marker), which fails if the directory is gone.
Mark(t) ==
  /\ task[t].pc = "mark"
  /\ IF job.exists
       THEN /\ job' = [job EXCEPT !.marker = TRUE]
            /\ Goto(t, IF task[t].result = "ok" THEN "status" ELSE "remove")
            /\ UNCHANGED recovering
       ELSE Fails(t) /\ UNCHANGED job
  /\ UNCHANGED <<serverVars, put, count, history>>

\* deliver_with_retries: Done and Discarded remove the directory by its name.
Remove(t) ==
  /\ task[t].pc = "remove"
  /\ job' = NoJob
  /\ task' = [task EXCEPT ![t] = Resting]
  /\ recovering' = FALSE
  /\ UNCHANGED <<serverVars, put, count, history>>

\* The answer to upload_status: on to the next chunk, to complete, or away.
Status(t) ==
  /\ task[t].pc = "status"
  /\ IF row.st # "uploading" THEN Goto(t, "remove") /\ UNCHANGED recovering
     ELSE IF file # <<>> THEN Goto(t, "complete") /\ UNCHANGED recovering
     ELSE IF Len(part) >= Size THEN Fails(t)
     ELSE /\ task' = [task EXCEPT ![t].pc = "put", ![t].received = Len(part)]
          /\ UNCHANGED recovering
  /\ UNCHANGED <<serverVars, put, job, count, history>>

LoseStatus(t) ==
  /\ task[t].pc = "status"
  /\ Happens("lose")
  /\ Fails(t)
  /\ UNCHANGED <<serverVars, put, job, history>>

\* complete: Done, or 409 for a lost lease or a missing file.
Complete(t) ==
  /\ task[t].pc = "complete"
  /\ row' = IF row.st = "uploading" /\ file # <<>> THEN [row EXCEPT !.st = "succeeded"]
                                                   ELSE row
  /\ Goto(t, "remove")
  /\ UNCHANGED <<part, file, put, job, recovering, count, history>>

LoseComplete(t) ==
  /\ task[t].pc = "complete"
  /\ Happens("lose")
  /\ row' \in {row, IF row.st = "uploading" /\ file # <<>>
                      THEN [row EXCEPT !.st = "succeeded"] ELSE row}
  /\ Fails(t)
  /\ UNCHANGED <<part, file, put, job, history>>

-----------------------------------------------------------------------------
(* upload_file's chunks and upload_put's steps. *)

\* upload_file: read a chunk of whatever is at the path, and send it.
Send(t) ==
  /\ task[t].pc = "put"
  /\ IF job.output = 0 THEN Fails(t) /\ UNCHANGED put
     ELSE \E h \in Handlers :
            /\ put[h].step = "free"
            /\ put' = [put EXCEPT ![h] =
                 [step |-> "check", task |-> t, offset |-> task[t].received,
                  chunk |-> <<job.output, task[t].received>>]]
            /\ Goto(t, "wait")
            /\ UNCHANGED recovering
  /\ UNCHANGED <<serverVars, job, count, history>>

\* The client gives up on a chunk.  The server does not notice, or the handler
\* is dropped where it stands, perhaps before it renames a file that is whole.
LoseChunk(t) ==
  /\ task[t].pc = "wait"
  /\ Happens("lose")
  /\ \E dropped \in BOOLEAN :
       put' = [h \in Handlers |-> IF put[h].task # t THEN put[h]
                                 ELSE IF dropped THEN NoPut
                                 ELSE [put[h] EXCEPT !.task = Nobody]]
  /\ Fails(t)
  /\ UNCHANGED <<serverVars, job, history>>

\* What upload_put answers: HTTP status and error code.
Received == [status |-> 200, code |-> ""]
NotActive == [status |-> 409, code |-> "LEASE_NOT_ACTIVE"]
OffsetMismatch == [status |-> 409, code |-> "OFFSET_MISMATCH"]
DigestMismatch == [status |-> 400, code |-> "DIGEST_MISMATCH"]
Internal == [status |-> 500, code |-> "INTERNAL"]

\* is_gone: the build is not this builder's any more.
IsGone(answer) == answer.status \in {404, 409}

\* upload_file: the status of the upload is asked for and the loop goes on.
GoesOn(t, answer) ==
  \/ answer \in {Received, OffsetMismatch}
  \/ answer = DigestMismatch /\ ~task[t].restarted

\* How the task that waits for h takes its answer.
Answered(h, answer) ==
  LET t == put[h].task
  IN  /\ put' = [put EXCEPT ![h] = NoPut]
      /\ IF t = Nobody THEN UNCHANGED <<task, recovering>>
         ELSE IF GoesOn(t, answer)
           THEN /\ task' = [task EXCEPT ![t].pc = "status",
                                       ![t].restarted = @ \/ answer = DigestMismatch]
                /\ UNCHANGED recovering
         ELSE IF IsGone(answer) THEN Goto(t, "remove") /\ UNCHANGED recovering
         ELSE Fails(t)

\* Mutant: the offset is not compared.
OffsetFitsAlways(h) == TRUE

\* The chunk goes where the server's copy ends.
OffsetFits(h) == put[h].offset = Len(part)

\* upload_put: active_build, upload_status and the offset.
Check(h) ==
  /\ put[h].step = "check"
  /\ IF row.st # "uploading" THEN Answered(h, NotActive) /\ UNCHANGED clashed
     ELSE IF file # <<>> THEN Answered(h, Received) /\ UNCHANGED clashed
     ELSE IF ~OffsetFits(h) THEN Answered(h, OffsetMismatch) /\ UNCHANGED clashed
     ELSE /\ put' = [put EXCEPT ![h].step = "append"]
          /\ clashed' = (clashed \/ Writing # {})
          /\ UNCHANGED <<task, recovering>>
  /\ UNCHANGED <<serverVars, job, count, shared, unheard>>

\* upload_put: append, wherever .part ends by now; an error if fail_build has
\* removed the directory.
AppendChunk(h) ==
  /\ put[h].step = "append"
  /\ IF row.st \notin {"uploading", "succeeded"}
       THEN Answered(h, Internal) /\ UNCHANGED part
     ELSE /\ part' = Append(part, put[h].chunk)
          /\ IF put[h].offset + 1 = Size
               THEN /\ put' = [put EXCEPT ![h].step = "digest"]
                    /\ UNCHANGED <<task, recovering>>
               ELSE Answered(h, Received)
  /\ UNCHANGED <<row, file, job, count, history>>

\* Mutant: the digest is not compared.
DigestFitsAlways == TRUE

\* .part is what the report declared.
DigestFits == part = Whole(row.declared)

\* upload_put: the file is whole by its size; DIGEST_MISMATCH removes it.
Digest(h) ==
  /\ put[h].step = "digest"
  /\ IF part = <<>> THEN Answered(h, Internal) /\ UNCHANGED part
     ELSE IF DigestFits
       THEN /\ put' = [put EXCEPT ![h].step = "rename"]
            /\ UNCHANGED <<part, task, recovering>>
     ELSE part' = <<>> /\ Answered(h, DigestMismatch)
  /\ UNCHANGED <<row, file, job, count, history>>

\* upload_put: the rename, of whatever .part is by now.
Rename(h) ==
  /\ put[h].step = "rename"
  /\ IF part = <<>> THEN Answered(h, Internal) /\ UNCHANGED <<part, file>>
     ELSE file' = part /\ part' = <<>> /\ Answered(h, Received)
  /\ UNCHANGED <<row, job, count, history>>

-----------------------------------------------------------------------------
(* Faults and recovery. *)

\* The lease runs out while the builder is at work (expire_leases).
Expire ==
  /\ row.st \in {"running", "uploading"}
  /\ Happens("expire")
  /\ FailRow(Class("LEASE_EXPIRED"))
  /\ UNCHANGED <<put, job, task, recovering, shared, unheard>>

\* Mutant: a lease that runs out during the upload is not noticed.
OverdueRunning == row.st = "running" /\ \A t \in Tasks : task[t].pc = "idle"

\* Nobody is at work on the leased row any more.
Overdue == row.st \in {"running", "uploading"} /\ \A t \in Tasks : task[t].pc = "idle"

\* The lease of a row that was given up, or never heard of, runs out.
ExpireAbandoned ==
  /\ Overdue /\ ~recovering
  /\ FailRow(Class("LEASE_EXPIRED"))
  /\ UNCHANGED <<put, job, task, recovering, count, shared, unheard>>

\* The builder dies and starts again; its requests may still be served.
Crash ==
  /\ Happens("crash")
  /\ task' = [t \in Tasks |-> Resting]
  /\ put' = [h \in Handlers |-> [put[h] EXCEPT !.task = Nobody]]
  /\ recovering' = TRUE
  /\ unheard' = (unheard \/ \E t \in Tasks : task[t].pc = "mark")
  /\ UNCHANGED <<serverVars, job, clashed, shared>>

\* recover: nothing to do, or a directory without state.json.
RecoverNothing ==
  /\ recovering /\ \A t \in Tasks : task[t].pc = "idle"
  /\ job.attempt = 0
  /\ job' = NoJob /\ recovering' = FALSE
  /\ UNCHANGED <<serverVars, put, task, count, history>>

\* recover: deliver the report that was written, or that the builder died.
Recover(t) ==
  /\ recovering /\ \A u \in Tasks : task[u].pc = "idle"
  /\ job.attempt # 0
  /\ task' = [task EXCEPT ![t] = [Resting EXCEPT
       !.pc = "deliver", !.attempt = job.attempt,
       !.result = IF job.report = "none" THEN Class("BUILDER_RESTARTED") ELSE job.report]]
  /\ UNCHANGED <<serverVars, put, job, recovering, count, history>>

TaskStep(t) ==
  \/ Lease(t) \/ BuildOk(t) \/ Reported(t) \/ Report(t) \/ Mark(t) \/ Remove(t)
  \/ Status(t) \/ Complete(t) \/ Send(t) \/ Recover(t)

TaskFault(t) ==
  \/ BuildFails(t) \/ LoseReport(t) \/ LoseStatus(t) \/ LoseComplete(t) \/ LoseChunk(t)

HandlerStep(h) == Check(h) \/ AppendChunk(h) \/ Digest(h) \/ Rename(h)

Next ==
  \/ \E t \in Tasks : TaskStep(t) \/ TaskFault(t)
  \/ \E h \in Handlers : HandlerStep(h)
  \/ LoseLease \/ Expire \/ ExpireAbandoned \/ Crash \/ RecoverNothing

\* A builder that runs keeps polling and delivering (sleeps end), handlers
\* run on, and a lease that nobody serves runs out.
Fairness ==
  /\ \A t \in Tasks : WF_vars(TaskStep(t))
  /\ \A h \in Handlers : WF_vars(HandlerStep(h))
  /\ WF_vars(ExpireAbandoned \/ RecoverNothing)

Spec == Init /\ [][Next]_vars /\ Fairness

-----------------------------------------------------------------------------
(* Properties. *)

\* The shape of every variable; only an upload has files on the server.
TypeOK ==
  /\ row.st \in {"queued", "running", "uploading", "succeeded", "failed"}
  /\ row.attempt \in 1 .. MaxRetries + 1 /\ row.declared \in 0 .. row.attempt
  /\ part # <<>> \/ file # <<>> => row.st \in {"uploading", "succeeded"}
  /\ \A h \in Handlers : put[h].step \in {"free", "check", "append", "digest", "rename"}
  /\ \A t \in Tasks :
       /\ task[t].pc \in {"idle", "build", "deliver", "mark", "remove", "status", "put",
                          "wait", "complete"}
       /\ task[t].tries < MaxTries /\ task[t].attempt <= row.attempt
  /\ job.attempt <= row.attempt
  /\ count \in 0 .. MaxEvents

\* A file under its final name is the one the accepted report declared, and a
\* succeeded row has it, whatever requests and answers were lost or late,
\* unless an upload_put overlapped another one or outlived its attempt.
UploadedWhole ==
  ~clashed => /\ file \in {<<>>, Whole(row.declared)}
              /\ row.st = "succeeded" => file # <<>>

\* What the server has of an unfinished file is a beginning of it: a lost or
\* late chunk neither tears nor doubles it, and an upload resumes where it
\* was, after a restart of the builder too.
ResumesWhere ==
  ~clashed /\ ~shared => part = SubSeq(Whole(row.declared), 1, Len(part))

\* A builder does not throw away a result that the server still waits for,
\* unless it missed that the report was accepted, or two attempts shared the
\* directory.
KeptWhileWanted ==
  [][job.exists /\ ~job'.exists /\ ~shared /\ ~unheard =>
     ~(row.attempt = job.attempt /\ row.st \in {"running", "uploading"})]_vars

\* The build ends: no loss, restart or overlap makes a task go round for ever
\* or leaves a row leased.
Settled == <>(row.st \in {"succeeded", "failed"})
=============================================================================
