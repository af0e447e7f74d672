-------------------------- MODULE SourceIngestion --------------------------
(***************************************************************************)
(* The health of one source: the five-minute scheduler and administrators  *)
(* that enqueue its ingestion, the feed-fetch and browser-fetch processors *)
(* that run it, the source_ingestion_attempts rows they open and close and *)
(* the health columns that they and administrators write.  Sources share   *)
(* nothing but the workers, so one source is enough.                       *)
(***************************************************************************)
EXTENDS Naturals, Sequences, FiniteSets, JobQueue

CONSTANTS
  Fetchers,     \* FeedFetchProcessor workers, one job at a time each
  Browsers,     \* PlaywrightFetchProcessor.runJob promises alive at once (bound)
  Admins,       \* administrator requests that save the source, one save each (bound)
  Crashes,      \* may the process die?
  LiveStalls,   \* executions that may lose their job's lock while they go on
                \* (Redis outage, blocked loop)
  MaxBucket,    \* five-minute buckets considered (bound)
  Interval,     \* shortest stream interval, in buckets
  MaxAttempts,  \* defaultJobOptions.attempts of the feed-fetch queue
  MaxStalled,   \* BullMQ's maxStalledCount
  DegradeAt,    \* failures that degrade a source, 3 in the code
  DisableAt,    \* failures that disable it, 6 in the code
  Web,          \* is the source of type web?
  None          \* no job, no attempt row

ASSUME LimitsAssumption ==
  /\ MaxBucket \in Nat \ {0} /\ Interval \in Nat
  /\ MaxAttempts \in Nat \ {0} /\ MaxStalled \in Nat
  /\ DegradeAt \in Nat \ {0} /\ DisableAt \in Nat /\ DegradeAt <= DisableAt
  /\ Web \in BOOLEAN /\ Crashes \in BOOLEAN
ASSUME SlotsAssumption ==
  /\ Fetchers \cap Browsers = {}
  /\ None \notin Nat \cup ({"fetch", "browse"} \X Nat)

VARIABLES
  bucket,   \* Math.floor(Date.now() / 300_000)
  source,   \* the health columns of the sources row
  due,      \* buckets whose orchestrator run found the source due
  job,      \* jobs source-<id>-<bucket> and browser-source-<id>-<bucket>
  rows,     \* the outcomes of the source_ingestion_attempts rows
  run,      \* executions of the two processors
  admin,    \* administrator requests between their read and their save
  doubled,  \* history: rows that a browser job has and somebody else writes too
  strikes   \* history: failures recorded since the last success

vars == <<bucket, source, due, job, rows, run, admin, doubled, strikes>>

Buckets    == 1 .. MaxBucket
Executions == Fetchers \cup Browsers
Queues     == {"fetch", "browse"}
Jobs       == Queues \X Buckets
Never      == 0  \* a null timestamp

Job   == [state : JobState, made : Nat, stalled : 0 .. MaxStalled, row : Nat \cup {None}]
NoJob == [state |-> "none", made |-> 0, stalled |-> 0, row |-> None]

RunPc == {"idle", "begin", "fetch", "handed", "success", "bump", "read", "write"}

(* late: the promise goes on without its job, which the hard timeout has     *)
(* failed or whose lock has expired.                                         *)
Run  == [pc : RunPc, job : Jobs \cup {None}, row : Nat \cup {None}, seen : Nat,
         late : BOOLEAN]
Idle == [pc |-> "idle", job |-> None, row |-> None, seen |-> 0, late |-> FALSE]

(* torn, history: a save wrote one of status and failures next to a value of *)
(* the other that its entity did not have.                                   *)
Health == [status : {"active", "degraded", "disabled"}, enabled : BOOLEAN, failures : Nat,
           succeededAt : 0 .. MaxBucket, attemptedAt : 0 .. MaxBucket, torn : BOOLEAN]

NewSource == [status |-> "active", enabled |-> TRUE, failures |-> 0,
              succeededAt |-> Never, attemptedAt |-> Never, torn |-> FALSE]

Columns == {"status", "enabled", "failures", "succeededAt", "attemptedAt"}

(* The entity that a request has loaded and changed, and the columns in      *)
(* which the row that save() selected differed from it.                      *)
Request   == [pc : {"idle", "select", "update", "done"},
              operation : {"none", "activate", "disable", "update"},
              entity : Health, dirty : SUBSET Columns]
NoRequest == [pc |-> "idle", operation |-> "none", entity |-> NewSource, dirty |-> {}]
Answered  == [NoRequest EXCEPT !.pc = "done"]

TypeOK ==
  /\ bucket \in Buckets
  /\ source \in Health
  /\ due \in SUBSET Buckets
  /\ job \in [Jobs -> Job]
  /\ rows \in Seq({"open", "succeeded", "failed"})
  /\ run \in [Executions -> Run]
  /\ admin \in [Admins -> Request]
  /\ doubled \in SUBSET (Nat \cup {None})
  /\ strikes \in Nat

Init ==
  /\ bucket = 1
  /\ source = NewSource
  /\ due = {}
  /\ job = [j \in Jobs |-> NoJob]
  /\ rows = <<>>
  /\ run = [e \in Executions |-> Idle]
  /\ admin = [a \in Admins |-> NoRequest]
  /\ doubled = {}
  /\ strikes = 0

(* add, a no-op when the id has a job. *)
Enqueued(jobs, q, row) ==
  IF jobs[<<q, bucket>>].state # "none" THEN jobs
  ELSE [jobs EXCEPT ![<<q, bucket>>] = [NoJob EXCEPT !.state = "waiting", !.row = row]]

-----------------------------------------------------------------------------
(* The scheduler and the administrator's retry. *)

Tick ==
  /\ bucket < MaxBucket
  /\ bucket' = bucket + 1
  /\ UNCHANGED due

(* findDue: the interval counts from the last success and, only if there was *)
(* none, from the last attempt.                                              *)
IsDue ==
  LET last == IF source.succeededAt # Never THEN source.succeededAt ELSE source.attemptedAt IN
  /\ source.enabled /\ source.status # "disabled"
  /\ last = Never \/ bucket - last >= Interval

(* A run of the orchestrator: its query, and later its queue.add for the     *)
(* bucket it started in.                                                     *)
FindDue ==
  /\ bucket \notin due
  /\ IsDue
  /\ due' = due \cup {bucket}
  /\ UNCHANGED bucket

Schedule ==
  /\ Tick \/ FindDue
  /\ UNCHANGED <<source, job, rows, run, admin, doubled, strikes>>

Dispatch(b) ==
  /\ b \in due
  /\ due' = due \ {b}
  /\ job' = [job EXCEPT ![<<"fetch", b>>].state = Added(@)]
  /\ UNCHANGED <<bucket, source, rows, run, admin, doubled, strikes>>

(* POST /admin/sources/:id/retry-ingestion, whatever the source's status. *)
RetryIngestion ==
  /\ job["fetch", bucket].state = "none"
  /\ job' = Enqueued(job, "fetch", None)
  /\ UNCHANGED <<bucket, source, due, rows, run, admin, doubled, strikes>>

-----------------------------------------------------------------------------
(* FeedFetcherService.fetchSource and PlaywrightFetchProcessor.runJob.       *)

Goto(e, pc)        == run' = [run EXCEPT ![e].pc = pc]
Stop(e)            == run' = [run EXCEPT ![e] = Idle]
SetState(j, state) == job' = [job EXCEPT ![j].state = state]

(* A job without an attempt row opens one: beginIngestionAttempt. *)
TakeFetch(f, b) ==
  /\ f \in Fetchers
  /\ run[f].pc = "idle"
  /\ job["fetch", b].state = "waiting"
  /\ SetState(<<"fetch", b>>, "active")
  /\ run' = [run EXCEPT ![f] = [Idle EXCEPT !.pc = "begin", !.job = <<"fetch", b>>]]
  /\ UNCHANGED <<bucket, source, due, rows, admin, doubled, strikes>>

Begin(f) ==
  /\ run[f].pc = "begin"
  /\ source' = [source EXCEPT !.attemptedAt = bucket]
  /\ rows' = Append(rows, "open")
  /\ run' = [run EXCEPT ![f].pc = "fetch", ![f].row = Len(rows) + 1]
  /\ UNCHANGED <<bucket, due, job, admin, doubled, strikes>>

(* PLAYWRIGHT_QUEUE_CONCURRENCY is 1; a promise that outlived the hard       *)
(* timeout no longer occupies the worker, and one that lost its lock does    *)
(* not occupy the worker of another process.                                 *)
TakeBrowse(e, b) ==
  /\ e \in Browsers
  /\ run[e].pc = "idle"
  /\ \A o \in Browsers : run[o].pc = "idle" \/ run[o].late
  /\ job["browse", b].state = "waiting"
  /\ SetState(<<"browse", b>>, "active")
  /\ run' = [run EXCEPT ![e] = [Idle EXCEPT !.pc = "fetch", !.job = <<"browse", b>>,
                                            !.row = job["browse", b].row]]
  /\ UNCHANGED <<bucket, source, due, rows, admin, doubled, strikes>>

(* The fetch ingested what it found, or failed. *)
Fetch(e) ==
  /\ run[e].pc = "fetch"
  /\ Goto(e, "success") \/ Goto(e, "read")
  /\ UNCHANGED <<bucket, source, due, job, rows, admin, doubled, strikes>>

(* Mutant: the null of a handed-over fetch is recorded as a success. *)
HandToBrowserAndRecord(f) ==
  /\ Web /\ f \in Fetchers
  /\ run[f].pc = "fetch"
  /\ job' = Enqueued(job, "browse", run[f].row)
  /\ Goto(f, "success")
  /\ UNCHANGED <<bucket, source, due, rows, admin, doubled, strikes>>

(* Deterministic discovery failed: the attempt is handed to the browser      *)
(* queue, unless this bucket's browser job exists; null ends the fetch.      *)
HandToBrowser(f) ==
  /\ Web /\ f \in Fetchers
  /\ run[f].pc = "fetch"
  /\ job' = Enqueued(job, "browse", run[f].row)
  /\ run' = [run EXCEPT ![f].pc = "handed", ![f].row = None]
  /\ UNCHANGED <<bucket, source, due, rows, admin, doubled, strikes>>

(* The add landed and threw: the catch records a failure in the row that the *)
(* browser job has now.                                                      *)
HandoverThrows(f) ==
  /\ Web /\ f \in Fetchers
  /\ run[f].pc = "fetch"
  /\ job["browse", bucket].state = "none"
  /\ job' = Enqueued(job, "browse", run[f].row)
  /\ Goto(f, "read")
  /\ doubled' = doubled \cup {run[f].row}
  /\ UNCHANGED <<bucket, source, due, rows, admin, strikes>>

(* Mutant: the failure counter survives a success. *)
RecordSuccessKeepingFailures(e) ==
  /\ run[e].pc = "success"
  /\ source' = [source EXCEPT !.status = "active", !.enabled = TRUE, !.torn = FALSE,
                              !.succeededAt = bucket, !.attemptedAt = bucket]
  /\ rows' = [rows EXCEPT ![run[e].row] = "succeeded"]
  /\ strikes' = 0
  /\ Goto(e, "bump")
  /\ UNCHANGED <<bucket, due, job, admin, doubled>>

(* recordIngestionSuccess: one transaction, whatever the status was. *)
RecordSuccess(e) ==
  /\ run[e].pc = "success"
  /\ source' = [NewSource EXCEPT !.succeededAt = bucket, !.attemptedAt = bucket]
  /\ rows' = [rows EXCEPT ![run[e].row] = "succeeded"]
  /\ strikes' = 0
  /\ Goto(e, "bump")
  /\ UNCHANGED <<bucket, due, job, admin, doubled>>

(* Mutant: the fetch is tried again in place. *)
AfterFetchRetried(e) ==
  /\ run[e].pc \in {"success", "bump"}
  /\ Goto(e, "fetch")
  /\ UNCHANGED <<bucket, source, due, job, rows, admin, doubled, strikes>>

(* A database error there, or a Redis error in incrementStreams behind it,   *)
(* reaches the same catch as a failed fetch.                                 *)
AfterFetchFails(e) ==
  /\ run[e].pc \in {"success", "bump"}
  /\ Goto(e, "read")
  /\ UNCHANGED <<bucket, source, due, job, rows, admin, doubled, strikes>>

Settle(e, state) ==
  LET j == run[e].job IN
  job' = IF run[e].late THEN job
         ELSE [job EXCEPT ![j].state = state,
                          ![j].made = IF state = "completed" THEN @ ELSE @ + 1]

(* incrementStreams, after a handover nothing more, and the job completes. *)
Complete(e) ==
  /\ run[e].pc \in {"bump", "handed"}
  /\ Settle(e, "completed")
  /\ Stop(e)
  /\ UNCHANGED <<bucket, source, due, rows, admin, doubled, strikes>>

(* The browser queue sets no attempts: one. *)
Attempts(j) == IF j[1] = "fetch" THEN MaxAttempts ELSE 1

Thrown(e) == Settle(e, AfterThrow(job[run[e].job].made + 1, Attempts(run[e].job)))

(* recordIngestionFailure reads the row, *)
ReadHealth(e) ==
  /\ run[e].pc = "read"
  /\ run' = [run EXCEPT ![e].pc = "write", ![e].seen = source.failures]
  /\ UNCHANGED <<bucket, source, due, job, rows, admin, doubled, strikes>>

StatusAfter(failures) ==
  IF failures >= DisableAt THEN "disabled"
  ELSE IF failures >= DegradeAt THEN "degraded"
  ELSE "active"

(* Mutant: the counter incremented in SQL, the status from the row read. *)
RecordFailureIncrementing(e) ==
  LET status == StatusAfter(run[e].seen + 1) IN
  /\ run[e].pc = "write"
  /\ source' = [source EXCEPT !.status = status, !.enabled = (status # "disabled"),
                              !.failures = @ + 1, !.attemptedAt = bucket, !.torn = FALSE]
  /\ rows' = [rows EXCEPT ![run[e].row] = "failed"]
  /\ strikes' = strikes + 1
  /\ Thrown(e)
  /\ Stop(e)
  /\ UNCHANGED <<bucket, due, admin, doubled>>

(* and then writes what it computed from it; fetchSource rethrows. *)
RecordFailure(e) ==
  LET failures == run[e].seen + 1
      status   == StatusAfter(failures) IN
  /\ run[e].pc = "write"
  /\ source' = [source EXCEPT !.status = status, !.enabled = (status # "disabled"),
                              !.failures = failures, !.attemptedAt = bucket, !.torn = FALSE]
  /\ rows' = [rows EXCEPT ![run[e].row] = "failed"]
  /\ strikes' = strikes + 1
  /\ Thrown(e)
  /\ Stop(e)
  /\ UNCHANGED <<bucket, due, admin, doubled>>

(* A database error in beginIngestionAttempt or recordIngestionFailure. *)
DatabaseFails(e) ==
  /\ run[e].pc \in {"begin", "read", "write"}
  /\ Thrown(e)
  /\ Stop(e)
  /\ UNCHANGED <<bucket, source, due, rows, admin, doubled, strikes>>

(* withHardTimeout rejects; nothing stops the promise it raced. *)
HardTimeout(e) ==
  /\ e \in Browsers
  /\ run[e].pc # "idle" /\ ~ run[e].late
  /\ SetState(run[e].job, "failed")
  /\ run' = [run EXCEPT ![e].late = TRUE]
  /\ UNCHANGED <<bucket, source, due, rows, admin, doubled, strikes>>

(* The lock of a live execution expires; its outcome will find no lock. *)
LosesLock(e) ==
  /\ e \in LiveStalls
  /\ run[e].pc # "idle" /\ ~ run[e].late
  /\ run' = [run EXCEPT ![e].late = TRUE]
  /\ doubled' = doubled \cup (IF e \in Browsers THEN {run[e].row} ELSE {})
  /\ UNCHANGED <<bucket, source, due, job, rows, admin, strikes>>

(* The process dies with everything it was doing. *)
Crash ==
  /\ Crashes
  /\ \E e \in Executions : run[e].pc # "idle"
  /\ run' = [e \in Executions |-> Idle]
  /\ due' = {}
  /\ admin' = [a \in Admins |-> IF admin[a].pc = "idle" THEN admin[a] ELSE Answered]
  /\ UNCHANGED <<bucket, source, job, rows, doubled, strikes>>

Orphaned(j) == job[j].state = "active" /\ \A e \in Executions : run[e].job # j \/ run[e].late

(* Mutant: a stalled job is given out again however often it stalled. *)
RecoverStalledUnlimited(j) ==
  /\ Orphaned(j)
  /\ job' = [job EXCEPT ![j].state = "waiting", ![j].stalled = @ + 1]
  /\ UNCHANGED <<bucket, source, due, rows, run, admin, doubled, strikes>>

(* BullMQ gives a stalled job out again, at most MaxStalled times. *)
RecoverStalled(j) ==
  /\ Orphaned(j)
  /\ job' = IF job[j].stalled < MaxStalled
            THEN [job EXCEPT ![j].state = "waiting", ![j].stalled = @ + 1]
            ELSE [job EXCEPT ![j].state = "failed"]
  /\ UNCHANGED <<bucket, source, due, rows, run, admin, doubled, strikes>>

-----------------------------------------------------------------------------
(* SourcesService.activate, disable and update: findOne and assignments to   *)
(* the entity, the SELECT of save(), its UPDATE of the columns that differ.  *)

Loads(a, operation, entity) ==
  /\ admin[a].pc = "idle"
  /\ admin' = [admin EXCEPT ![a] = [pc |-> "select", operation |-> operation,
                                    entity |-> entity, dirty |-> {}]]
  /\ UNCHANGED <<bucket, source, due, job, rows, run, doubled, strikes>>

Activate(a) ==
  Loads(a, "activate", [source EXCEPT !.status = "active", !.enabled = TRUE, !.failures = 0,
                                      !.torn = FALSE])

Disable(a) ==
  Loads(a, "disable", [source EXCEPT !.status = "disabled", !.enabled = FALSE, !.torn = FALSE])

(* PATCH, and the manifest sync with and without --force. *)
Update(a) ==
  \E enabled \in BOOLEAN : Loads(a, "update", [source EXCEPT !.enabled = enabled])

SaveReads(a) ==
  /\ admin[a].pc = "select"
  /\ admin' = [admin EXCEPT ![a].pc = "update",
                            ![a].dirty = {c \in Columns : admin[a].entity[c] # source[c]}]
  /\ UNCHANGED <<bucket, source, due, job, rows, run, doubled, strikes>>

Column(a, c) == IF c \in admin[a].dirty THEN admin[a].entity[c] ELSE source[c]

Torn(a) ==
  LET entity == admin[a].entity IN
  IF admin[a].dirty \cap {"status", "failures"} = {} THEN source.torn
  ELSE \/ Column(a, "status") # entity.status \/ Column(a, "failures") # entity.failures
       \/ entity.torn

SaveWrites(a) ==
  /\ admin[a].pc = "update"
  /\ source' = [status |-> Column(a, "status"), enabled |-> Column(a, "enabled"),
                failures |-> Column(a, "failures"), succeededAt |-> Column(a, "succeededAt"),
                attemptedAt |-> Column(a, "attemptedAt"),
                torn |-> Torn(a)]
  /\ admin' = [admin EXCEPT ![a] = Answered]
  /\ UNCHANGED <<bucket, due, job, rows, run, doubled, strikes>>

-----------------------------------------------------------------------------
RunStep(e) ==
  \/ Begin(e) \/ Fetch(e) \/ HandToBrowser(e) \/ RecordSuccess(e) \/ Complete(e)
  \/ ReadHealth(e) \/ RecordFailure(e)

Next ==
  \/ Schedule \/ RetryIngestion \/ Crash
  \/ \E b \in Buckets : Dispatch(b) \/ \E e \in Executions : TakeFetch(e, b) \/ TakeBrowse(e, b)
  \/ \E e \in Executions : \/ RunStep(e) \/ HandoverThrows(e) \/ AfterFetchFails(e)
                           \/ DatabaseFails(e) \/ HardTimeout(e) \/ LosesLock(e)
  \/ \E j \in Jobs : RecoverStalled(j)
  \/ \E a \in Admins : Activate(a) \/ Disable(a) \/ Update(a) \/ SaveReads(a) \/ SaveWrites(a)

Spec == Init /\ [][Next]_vars

(* A running process goes on, takes jobs, and BullMQ's stalled check runs. *)
Fairness ==
  /\ \A e \in Executions : WF_vars(RunStep(e))
  /\ \A b \in Buckets : WF_vars(\E e \in Executions : TakeFetch(e, b))
                     /\ WF_vars(\E e \in Executions : TakeBrowse(e, b))
  /\ \A j \in Jobs : WF_vars(RecoverStalled(j))

FairSpec == Spec /\ Fairness

-----------------------------------------------------------------------------
(***************************************************************************)
(* Properties.                                                             *)
(***************************************************************************)

(* The status column agrees with the failure counter, whoever wrote last     *)
(* from however old a read: a source with few failures is never degraded and *)
(* one with too many is never scheduled.  Only a save that writes one of the *)
(* two and not the other breaks that, until the next recording or activation *)
(* writes both.                                                              *)
Agree == /\ source.status = "active" => source.failures < DegradeAt
         /\ source.status = "degraded" => source.failures \in DegradeAt .. (DisableAt - 1)

StatusMatchesFailures == ~ source.torn => Agree

(* Without overlapping executions and administrators the counter is exactly  *)
(* the number of failures recorded since the last success, crashes and       *)
(* errors after a recorded success included.                                 *)
CountIsExact == source.failures = strikes

(* Two executions work on one attempt row only if the browser job that has   *)
(* it lost its lock, or if the handover landed and threw: the fetch worker   *)
(* gives a row up when it hands it over, and a promise that outlived the     *)
(* hard timeout is never joined by a second execution of its job.            *)
OneWriterPerRow ==
  \A d, e \in Executions :
    run[d].row # None /\ run[d].row = run[e].row => d = e \/ run[d].row \in doubled

(* A job that will run settles, whatever crashes: its attempts and its       *)
(* stalls are both bounded.                                                  *)
JobsSettle == \A j \in Jobs : job[j].state \in Executable ~> job[j].state \in Retained

(* README: "Disabled sources require admin recovery.": a failure that is      *)
(* recorded does not put a disabled source back to work.                     *)
DisabledStays ==
  [][\A e \in Executions : RecordFailure(e) /\ source.status = "disabled" =>
       source'.status = "disabled"]_vars

(* README: "Three consecutive failed logical ingestion jobs degrade an       *)
(* active source".                                                           *)
DegradedAfterJobs ==
  source.status = "degraded" =>
    Cardinality({j \in Jobs : job[j].state # "none"}) >= DegradeAt

(* PATCH "Updates editable source metadata and web extraction configuration": *)
(* it leaves the health of the source alone.                                 *)
UpdateKeepsHealth ==
  [][\A a \in Admins : SaveWrites(a) /\ admin[a].operation = "update" =>
       source'.status = source.status /\ source'.failures = source.failures]_vars

(* README of sources: "failure 3 becomes degraded, and failure 6 becomes     *)
(* disabled. Success restores active with zero failures."                    *)
HealthAgrees == Agree

(* README of ingestion: "a successful attempt resets source health": a       *)
(* recorded success is not turned into a failure.                            *)
SuccessStands ==
  [][\A e \in Executions : RecordFailure(e) => rows[run[e].row] # "succeeded"]_vars

(* README of ingestion: "Only one ingestion job runs per source". *)
OneIngestion ==
  \A d, e \in Executions : run[d].pc # "idle" /\ run[e].pc # "idle" => d = e
=============================================================================
