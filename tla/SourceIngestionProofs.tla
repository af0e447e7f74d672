----------------------- MODULE SourceIngestionProofs -----------------------
(***************************************************************************)
(* Theorems about SourceIngestion, for every number of workers, browser    *)
(* promises and administrators and every limit.                            *)
(***************************************************************************)
EXTENDS SourceIngestion, SequenceTheorems, TLAPS

(***************************************************************************)
(* The inductive invariant.  The health columns: the row, and what a       *)
(* request has made of its entity, are consistent or known to be torn.     *)
(***************************************************************************)

Consistent(h) ==
  ~ h.torn => /\ h.status = "active" => h.failures < DegradeAt
              /\ h.status = "degraded" => h.failures \in DegradeAt .. (DisableAt - 1)

HealthInv == Consistent(source) /\ \A a \in Admins : Consistent(admin[a].entity)

(* An execution works for a job of its own queue; a browser execution on the *)
(* attempt row of that job.                                                  *)
RowOf(e) ==
  /\ run[e].row # None => run[e].row \in 1 .. Len(rows)
  /\ e \in Browsers => run[e].pc # "begin" /\ run[e].row = job[run[e].job].row

Employed ==
  \A e \in Executions :
    IF run[e].pc = "idle" THEN run[e] = Idle
    ELSE /\ run[e].job \in Jobs
         /\ run[e].job[1] = IF e \in Fetchers THEN "fetch" ELSE "browse"
         /\ RowOf(e)

(* A job has no execution before it is taken, and one execution at most that  *)
(* holds its lock and keeps it active.                                       *)
JobsHeld ==
  /\ \A d, e \in Executions :
       run[d].job # None /\ run[d].job = run[e].job /\ ~ run[d].late /\ ~ run[e].late => d = e
  /\ \A e \in Executions :
       run[e].job # None => /\ job[run[e].job].state # "none"
                            /\ ~ run[e].late => job[run[e].job].state = "active"

(* A browser job that is executed twice, or may be, has lost its lock once.  *)
SharesHeld ==
  /\ \A d, e \in Browsers :
       d # e /\ run[d].job # None /\ run[d].job = run[e].job => run[d].row \in doubled
  /\ \A e \in Browsers :
       run[e].job # None /\ run[e].late /\ job[run[e].job].state \notin Retained
         => run[e].row \in doubled

(* An attempt row is handed to one browser job and leaves its fetcher then,  *)
(* unless the handover threw.                                                *)
RowsHeld ==
  /\ \A j \in Jobs : job[j].row # None => j[1] = "browse" /\ job[j].row \in 1 .. Len(rows)
  /\ \A i, j \in Jobs : job[i].row # None /\ job[i].row = job[j].row => i = j
  /\ \A f \in Fetchers, j \in Jobs :
       run[f].row # None /\ run[f].row = job[j].row
         => run[f].row \in doubled /\ run[f].pc \in {"read", "write"}
  /\ \A f, g \in Fetchers : run[f].row # None /\ run[f].row = run[g].row => f = g

OwnerInv == Employed /\ JobsHeld /\ SharesHeld /\ RowsHeld

IInv == TypeOK /\ HealthInv /\ OwnerInv

(***************************************************************************)
(* Type correctness.                                                       *)
(***************************************************************************)

LEMMA RecordTypes ==
  /\ Idle \in Run
  /\ NoJob \in Job
  /\ NewSource \in Health
  /\ NoRequest \in Request /\ Answered \in Request
<1>1. Idle \in Run /\ NoJob \in Job /\ NewSource \in Health
  BY LimitsAssumption DEF Idle, Run, RunPc, NoJob, Job, JobState, NewSource, Health, Never
<1>2. NoRequest \in Request /\ Answered \in Request
  BY <1>1 DEF NoRequest, Answered, Request
<1> QED BY <1>1, <1>2

LEMMA InitType == Init => TypeOK
<1> SUFFICES ASSUME Init PROVE TypeOK
  OBVIOUS
<1>1. bucket \in Buckets /\ source \in Health /\ strikes \in Nat
  BY RecordTypes, LimitsAssumption DEF Init, Buckets
<1>2. job \in [Jobs -> Job] /\ run \in [Executions -> Run]
  BY RecordTypes DEF Init
<1>3. admin \in [Admins -> Request] /\ doubled \in SUBSET (Nat \cup {None})
  BY RecordTypes DEF Init
<1>4. rows \in Seq({"open", "succeeded", "failed"})
  BY DEF Init
<1>5. due \in SUBSET Buckets
  BY DEF Init
<1> QED BY <1>1, <1>2, <1>3, <1>4, <1>5 DEF TypeOK

(* What the steps of an execution assign to run and job is well-typed. *)
LEMMA StopType == ASSUME TypeOK, NEW e \in Executions, Stop(e) PROVE run' \in [Executions -> Run]
BY RecordTypes DEF Stop, TypeOK

LEMMA GotoType ==
  ASSUME TypeOK, NEW e \in Executions, NEW pc \in RunPc, Goto(e, pc)
  PROVE  run' \in [Executions -> Run]
<1>1. [run[e] EXCEPT !.pc = pc] \in Run
  BY DEF TypeOK, Run
<1> QED BY <1>1 DEF Goto, TypeOK

LEMMA EnqueuedType ==
  ASSUME NEW jobs \in [Jobs -> Job], NEW q \in Queues, NEW row \in Nat \cup {None}, bucket \in Buckets
  PROVE  Enqueued(jobs, q, row) \in [Jobs -> Job]
<1>1. [NoJob EXCEPT !.state = "waiting", !.row = row] \in Job
  BY RecordTypes DEF Job, NoJob, JobState
<1>2. <<q, bucket>> \in Jobs
  BY DEF Jobs
<1> QED BY <1>1, <1>2 DEF Enqueued

LEMMA SetStateType ==
  ASSUME TypeOK, NEW j \in Jobs, NEW state \in JobState, SetState(j, state)
  PROVE  job' \in [Jobs -> Job]
<1>1. [job[j] EXCEPT !.state = state] \in Job
  BY DEF TypeOK, Job
<1> QED BY <1>1 DEF SetState, TypeOK

LEMMA SettleType ==
  ASSUME TypeOK, NEW e \in Executions, run[e].job \in Jobs, NEW state \in JobState,
         Settle(e, state)
  PROVE  job' \in [Jobs -> Job]
<1> DEFINE j == run[e].job
           made == IF state = "completed" THEN job[j].made ELSE job[j].made + 1
<1>1. job[j] \in Job
  BY DEF TypeOK
<1>2. made \in Nat
  BY <1>1 DEF Job
<1> HIDE DEF made
<1>4. [job[j] EXCEPT !.state = state, !.made = made] \in Job
  BY <1>1, <1>2 DEF Job
<1>3. job' = job \/ job' = [job EXCEPT ![j] = [job[j] EXCEPT !.state = state, !.made = made]]
  BY <1>1 DEF Settle, TypeOK, made
<1> QED BY <1>3, <1>4 DEF TypeOK

LEMMA AfterThrowState ==
  ASSUME NEW made, NEW max PROVE AfterThrow(made, max) \in JobState \ {"none", "active"}
BY DEF AfterThrow, JobState

LEMMA ScheduleType ==
  ASSUME TypeOK, Schedule \/ RetryIngestion \/ \E b \in Buckets : Dispatch(b)
  PROVE  TypeOK'
<1>1. CASE Schedule
  <2>1. CASE Tick
    BY <1>1, <2>1, LimitsAssumption DEF Schedule, Tick, TypeOK, Buckets
  <2>2. CASE FindDue
    BY <1>1, <2>2 DEF Schedule, FindDue, TypeOK
  <2> QED BY <1>1, <2>1, <2>2 DEF Schedule
<1>2. CASE RetryIngestion
  <2>1. job' \in [Jobs -> Job]
    BY <1>2, EnqueuedType DEF RetryIngestion, TypeOK, Queues
  <2> QED BY <1>2, <2>1 DEF RetryIngestion, TypeOK
<1>3. ASSUME NEW b \in Buckets, Dispatch(b) PROVE TypeOK'
  <2>1. <<"fetch", b>> \in Jobs
    BY DEF Jobs, Queues
  <2>2. [job[<<"fetch", b>>] EXCEPT !.state = Added(@)] \in Job
    BY <2>1 DEF TypeOK, Job, Added, JobState
  <2>3. job' \in [Jobs -> Job]
    BY <1>3, <2>1, <2>2 DEF Dispatch, TypeOK
  <2> QED BY <1>3, <2>3 DEF Dispatch, TypeOK
<1> QED BY <1>1, <1>2, <1>3

LEMMA TakeType ==
  ASSUME TypeOK, NEW e \in Executions, NEW b \in Buckets, TakeFetch(e, b) \/ TakeBrowse(e, b)
  PROVE  TypeOK'
<1>1. <<"fetch", b>> \in Jobs /\ <<"browse", b>> \in Jobs
  BY DEF Jobs, Queues
<1>2. CASE TakeFetch(e, b)
  <2>1. [Idle EXCEPT !.pc = "begin", !.job = <<"fetch", b>>] \in Run
    BY <1>1, RecordTypes DEF Run, RunPc, Idle
  <2>2. job' \in [Jobs -> Job]
    BY <1>1, <1>2, SetStateType DEF TakeFetch, JobState
  <2> QED BY <1>2, <2>1, <2>2 DEF TakeFetch, TypeOK
<1>3. CASE TakeBrowse(e, b)
  <2>1. job[<<"browse", b>>].row \in Nat \cup {None}
    BY <1>1 DEF TypeOK, Job
  <2>2. [Idle EXCEPT !.pc = "fetch", !.job = <<"browse", b>>, !.row = job[<<"browse", b>>].row] \in Run
    BY <1>1, <2>1, RecordTypes DEF Run, RunPc, Idle
  <2>3. job' \in [Jobs -> Job]
    BY <1>1, <1>3, SetStateType DEF TakeBrowse, JobState
  <2> QED BY <1>3, <2>2, <2>3 DEF TakeBrowse, TypeOK
<1> QED BY <1>2, <1>3

(* The outcome that an execution writes to its row, if it has one. *)
LEMMA OutcomeType ==
  ASSUME TypeOK, NEW e \in Executions, NEW outcome \in {"open", "succeeded", "failed"},
         rows' = [rows EXCEPT ![run[e].row] = outcome]
  PROVE  rows' \in Seq({"open", "succeeded", "failed"}) /\ Len(rows') = Len(rows)
<1> DEFINE S == {"open", "succeeded", "failed"}
<1>1. rows \in Seq(S)
  BY DEF TypeOK
<1>2. CASE run[e].row \in 1 .. Len(rows)
  BY <1>1, <1>2, ExceptSeq
<1>3. CASE run[e].row \notin 1 .. Len(rows)
  <2>1. DOMAIN rows = 1 .. Len(rows)
    BY <1>1
  <2>2. rows' = rows
    BY <1>1, <1>3, <2>1
  <2> QED BY <1>1, <2>2
<1> QED BY <1>2, <1>3

LEMMA HandOverType ==
  ASSUME TypeOK, NEW f \in Executions, HandToBrowser(f) \/ HandoverThrows(f)
  PROVE  TypeOK'
<1>1. run[f] \in Run /\ run[f].row \in Nat \cup {None} /\ "browse" \in Queues
  BY DEF TypeOK, Run, Queues
<1>5. job' = Enqueued(job, "browse", run[f].row)
  BY DEF HandToBrowser, HandoverThrows
<1>6. job \in [Jobs -> Job] /\ bucket \in Buckets
  BY DEF TypeOK
<1>2. job' \in [Jobs -> Job]
  BY <1>1, <1>5, <1>6, EnqueuedType
<1>3. CASE HandToBrowser(f)
  <2>1. [run[f] EXCEPT !.pc = "handed", !.row = None] \in Run
    BY <1>1 DEF Run, RunPc
  <2> QED BY <1>2, <1>3, <2>1 DEF HandToBrowser, TypeOK
<1>4. CASE HandoverThrows(f)
  BY <1>1, <1>2, <1>4, GotoType DEF HandoverThrows, TypeOK, RunPc
<1> QED BY <1>3, <1>4

LEMMA StatusAfterType ==
  ASSUME NEW n \in Nat
  PROVE  /\ StatusAfter(n) \in {"active", "degraded", "disabled"}
         /\ StatusAfter(n) = "active" => n < DegradeAt
         /\ StatusAfter(n) = "degraded" => n \in DegradeAt .. (DisableAt - 1)
BY LimitsAssumption DEF StatusAfter

LEMMA ExecutionType ==
  ASSUME TypeOK, NEW e \in Executions, run[e].pc # "idle" => run[e].job \in Jobs,
         \/ RunStep(e) \/ HandoverThrows(e) \/ AfterFetchFails(e)
         \/ DatabaseFails(e) \/ HardTimeout(e) \/ LosesLock(e)
  PROVE  TypeOK'
<1>1. run[e] \in Run /\ bucket \in Nat /\ bucket \in 0 .. MaxBucket
  BY LimitsAssumption DEF TypeOK, Buckets
<1>2. CASE Begin(e)
  <2>0. Len(rows) + 1 \in Nat
    BY DEF TypeOK
  <2>1. [run[e] EXCEPT !.pc = "fetch", !.row = Len(rows) + 1] \in Run
    BY <1>1, <2>0 DEF Run, RunPc
  <2>2. run' \in [Executions -> Run]
    BY <1>2, <2>1 DEF Begin, TypeOK
  <2>3. source' \in Health
    BY <1>1, <1>2 DEF Begin, TypeOK, Health
  <2> QED BY <1>2, <2>2, <2>3 DEF Begin, TypeOK
<1>3. CASE Fetch(e)
  BY <1>3, GotoType DEF Fetch, TypeOK, RunPc
<1>4. CASE HandToBrowser(e) \/ HandoverThrows(e)
  BY <1>4, HandOverType
<1>5. CASE RecordSuccess(e)
  <2>1. source' \in Health
    BY <1>1, <1>5, RecordTypes DEF RecordSuccess, Health
  <2> QED BY <1>5, <2>1, GotoType, OutcomeType DEF RecordSuccess, TypeOK, RunPc
<1>6. CASE Complete(e)
  BY <1>6, SettleType, StopType DEF Complete, TypeOK, JobState
<1>7. CASE ReadHealth(e)
  <2>1. [run[e] EXCEPT !.pc = "write", !.seen = source.failures] \in Run
    BY <1>1 DEF Run, RunPc, TypeOK, Health
  <2> QED BY <1>7, <2>1 DEF ReadHealth, TypeOK
<1>8. CASE RecordFailure(e)
  <2>1. run[e].seen + 1 \in Nat
    BY <1>1 DEF Run
  <2>2. source' \in Health
    BY <1>1, <1>8, <2>1, StatusAfterType DEF RecordFailure, TypeOK, Health
  <2>3. job' \in [Jobs -> Job]
    BY <1>8, AfterThrowState, SettleType DEF RecordFailure, Thrown
  <2>4. strikes' \in Nat
    BY <1>8 DEF RecordFailure, TypeOK
  <2> QED BY <1>8, <2>2, <2>3, <2>4, OutcomeType, StopType DEF RecordFailure, TypeOK
<1>9. CASE AfterFetchFails(e)
  BY <1>9, GotoType DEF AfterFetchFails, TypeOK, RunPc
<1>10. CASE DatabaseFails(e)
  <2>1. job' \in [Jobs -> Job]
    BY <1>10, AfterThrowState, SettleType DEF DatabaseFails, Thrown
  <2> QED BY <1>10, <2>1, StopType DEF DatabaseFails, TypeOK
<1>11. CASE HardTimeout(e)
  <2>1. [run[e] EXCEPT !.late = TRUE] \in Run
    BY <1>1 DEF Run
  <2> QED BY <1>11, <2>1, SetStateType DEF HardTimeout, TypeOK, JobState
<1>12. CASE LosesLock(e)
  <2>1. [run[e] EXCEPT !.late = TRUE] \in Run /\ run[e].row \in Nat \cup {None}
    BY <1>1 DEF Run
  <2> QED BY <1>12, <2>1 DEF LosesLock, TypeOK
<1> QED BY <1>2, <1>3, <1>4, <1>5, <1>6, <1>7, <1>8, <1>9, <1>10, <1>11, <1>12 DEF RunStep

LEMMA RecoverStalledType == ASSUME TypeOK, NEW j \in Jobs, RecoverStalled(j) PROVE TypeOK'
<1>1. job[j] \in Job
  BY DEF TypeOK
<1>2. CASE job[j].stalled < MaxStalled
  <2>0. job[j].stalled + 1 \in 0 .. MaxStalled
    BY <1>1, <1>2, LimitsAssumption DEF Job
  <2>1. [job[j] EXCEPT !.state = "waiting", !.stalled = job[j].stalled + 1] \in Job
    BY <1>1, <2>0 DEF Job, JobState
  <2> QED BY <1>2, <2>1 DEF RecoverStalled, TypeOK
<1>3. CASE ~ (job[j].stalled < MaxStalled)
  <2>1. [job[j] EXCEPT !.state = "failed"] \in Job
    BY <1>1 DEF Job, JobState
  <2> QED BY <1>3, <2>1 DEF RecoverStalled, TypeOK
<1> QED BY <1>2, <1>3

LEMMA AdminType ==
  ASSUME TypeOK, NEW a \in Admins,
         Activate(a) \/ Disable(a) \/ Update(a) \/ SaveReads(a) \/ SaveWrites(a)
  PROVE  TypeOK'
<1>1. admin[a] \in Request /\ admin[a].entity \in Health /\ source \in Health
  BY DEF TypeOK, Request
<1>2. ASSUME NEW operation \in {"activate", "disable", "update"}, NEW entity \in Health,
             Loads(a, operation, entity)
      PROVE  TypeOK'
  BY <1>2 DEF Loads, TypeOK, Request
<1>3. CASE Activate(a)
  <2>1. [source EXCEPT !.status = "active", !.enabled = TRUE, !.failures = 0, !.torn = FALSE] \in Health
    BY <1>1 DEF Health
  <2> QED BY <1>2, <1>3, <2>1 DEF Activate
<1>4. CASE Disable(a)
  <2>1. [source EXCEPT !.status = "disabled", !.enabled = FALSE, !.torn = FALSE] \in Health
    BY <1>1 DEF Health
  <2> QED BY <1>2, <1>4, <2>1 DEF Disable
<1>5. CASE Update(a)
  <2>1. \A enabled \in BOOLEAN : [source EXCEPT !.enabled = enabled] \in Health
    BY <1>1 DEF Health
  <2> QED BY <1>2, <1>5, <2>1 DEF Update
<1>6. CASE SaveReads(a)
  <2> DEFINE dirty == {c \in Columns : admin[a].entity[c] # source[c]}
  <2>1. [admin[a] EXCEPT !.pc = "update", !.dirty = dirty] \in Request
    BY <1>1 DEF Request
  <2> QED BY <1>6, <2>1 DEF SaveReads, TypeOK
<1>7. CASE SaveWrites(a)
  <2>1. /\ Column(a, "status") \in {"active", "degraded", "disabled"}
        /\ Column(a, "enabled") \in BOOLEAN /\ Column(a, "failures") \in Nat
        /\ Column(a, "succeededAt") \in 0 .. MaxBucket
        /\ Column(a, "attemptedAt") \in 0 .. MaxBucket
    BY <1>1 DEF Column, Health
  <2>2. Torn(a) \in BOOLEAN
    BY <1>1 DEF Torn, Health
  <2>3. source' \in Health
    BY <1>7, <2>1, <2>2 DEF SaveWrites, Health
  <2> QED BY <1>7, <2>3, RecordTypes DEF SaveWrites, TypeOK
<1> QED BY <1>3, <1>4, <1>5, <1>6, <1>7

LEMMA NextType ==
  ASSUME TypeOK, \A e \in Executions : run[e].pc # "idle" => run[e].job \in Jobs, [Next]_vars
  PROVE  TypeOK'
<1>1. CASE Crash
  BY <1>1, RecordTypes DEF Crash, TypeOK
<1>2. CASE UNCHANGED vars
  BY <1>2 DEF vars, TypeOK
<1> QED BY <1>1, <1>2, ScheduleType, TakeType, ExecutionType, RecoverStalledType, AdminType DEF Next

(***************************************************************************)
(* Health.                                                                 *)
(***************************************************************************)

LEMMA NoRequestAgrees == Consistent(NoRequest.entity) /\ Consistent(Answered.entity)
BY LimitsAssumption DEF NoRequest, Answered, NewSource, Consistent

(* The columns that HealthInv looks at are written from what was consistent. *)
LEMMA HealthStep ==
  ASSUME TypeOK, HealthInv, [Next]_vars
  PROVE  HealthInv'
<1> USE DEF HealthInv
<1>1. CASE UNCHANGED <<source, admin>>
  BY <1>1 DEF Consistent
<1>2. CASE Crash
  BY <1>2, NoRequestAgrees DEF Crash, Consistent, TypeOK
<1>3. ASSUME NEW e \in Executions, Begin(e) PROVE HealthInv'
  BY <1>3 DEF Begin, Consistent, TypeOK, Health
<1>4. ASSUME NEW e \in Executions, RecordSuccess(e) PROVE HealthInv'
  BY <1>4, LimitsAssumption DEF RecordSuccess, NewSource, Consistent
<1>5. ASSUME NEW e \in Executions, RecordFailure(e) PROVE HealthInv'
  <2>1. run[e].seen + 1 \in Nat
    BY DEF TypeOK, Run
  <2>2. source'.status = StatusAfter(run[e].seen + 1) /\ source'.failures = run[e].seen + 1
    BY <1>5 DEF RecordFailure, TypeOK, Health
  <2>3. Consistent(source')
    BY <2>1, <2>2, StatusAfterType DEF Consistent
  <2> QED BY <1>5, <2>3 DEF RecordFailure
<1>6. ASSUME NEW a \in Admins, Activate(a) \/ Disable(a) \/ Update(a) PROVE HealthInv'
  <2>1. ASSUME NEW operation, NEW entity, Consistent(entity), Loads(a, operation, entity)
        PROVE  HealthInv'
    BY <2>1 DEF Loads, Consistent, TypeOK
  <2>2. CASE Activate(a)
    <3>1. Consistent([source EXCEPT !.status = "active", !.enabled = TRUE, !.failures = 0,
                                    !.torn = FALSE])
      BY LimitsAssumption DEF Consistent, TypeOK, Health
    <3> QED BY <2>1, <2>2, <3>1 DEF Activate
  <2>3. CASE Disable(a)
    <3>1. Consistent([source EXCEPT !.status = "disabled", !.enabled = FALSE, !.torn = FALSE])
      BY DEF Consistent, TypeOK, Health
    <3> QED BY <2>1, <2>3, <3>1 DEF Disable
  <2>4. CASE Update(a)
    <3>1. \A enabled \in BOOLEAN : Consistent([source EXCEPT !.enabled = enabled])
      BY DEF Consistent, TypeOK, Health
    <3> QED BY <2>1, <2>4, <3>1 DEF Update
  <2> QED BY <1>6, <2>2, <2>3, <2>4
<1>7. ASSUME NEW a \in Admins, SaveReads(a) PROVE HealthInv'
  <2>1. UNCHANGED source /\ \A b \in Admins : admin'[b].entity = admin[b].entity
    BY <1>7 DEF SaveReads, TypeOK, Request
  <2> QED BY <2>1 DEF Consistent
<1>12. ASSUME NEW a \in Admins, SaveWrites(a) PROVE HealthInv'
  <2>1. source'.status = Column(a, "status") /\ source'.failures = Column(a, "failures")
        /\ source'.torn = Torn(a)
    BY <1>12 DEF SaveWrites
  <2>2. CASE admin[a].dirty \cap {"status", "failures"} = {}
    <3>1. source'.status = source.status /\ source'.failures = source.failures
          /\ source'.torn = source.torn
      BY <2>1, <2>2 DEF Column, Torn
    <3> QED BY <3>1, NoRequestAgrees, <1>12 DEF SaveWrites, Consistent, TypeOK
  <2>3. CASE admin[a].dirty \cap {"status", "failures"} # {}
    <3>1. ~ source'.torn => /\ source'.status = admin[a].entity.status
                            /\ source'.failures = admin[a].entity.failures
                            /\ ~ admin[a].entity.torn
      BY <2>1, <2>3 DEF Torn
    <3> QED BY <3>1, NoRequestAgrees, <1>12 DEF SaveWrites, Consistent, TypeOK
  <2> QED BY <2>2, <2>3
<1>8. ASSUME NEW e \in Executions,
             \/ Fetch(e) \/ HandToBrowser(e) \/ HandoverThrows(e) \/ Complete(e) \/ ReadHealth(e)
             \/ AfterFetchFails(e) \/ DatabaseFails(e) \/ HardTimeout(e) \/ LosesLock(e)
             \/ \E b \in Buckets : TakeFetch(e, b) \/ TakeBrowse(e, b)
      PROVE  UNCHANGED <<source, admin>>
  BY <1>8 DEF Fetch, HandToBrowser, HandoverThrows, Complete, ReadHealth, AfterFetchFails,
              DatabaseFails, HardTimeout, LosesLock, TakeFetch, TakeBrowse
<1>9. ASSUME \/ Schedule \/ RetryIngestion \/ UNCHANGED vars
             \/ (\E b \in Buckets : Dispatch(b)) \/ \E j \in Jobs : RecoverStalled(j)
      PROVE  UNCHANGED <<source, admin>>
  BY <1>9 DEF Schedule, RetryIngestion, vars, Dispatch, RecoverStalled
<1> HIDE DEF HealthInv
<1> QED BY <1>1, <1>2, <1>3, <1>4, <1>5, <1>6, <1>7, <1>8, <1>9, <1>12 DEF Next, RunStep

(***************************************************************************)
(* Who works for a job and on an attempt row.                              *)
(***************************************************************************)

LEMMA InitOwner == Init => OwnerInv
<1>1. ASSUME Init PROVE \A e \in Executions : run[e] = Idle
  BY <1>1 DEF Init
<1>2. ASSUME Init PROVE \A j \in Jobs : job[j].row = None
  BY <1>2 DEF Init, NoJob
<1>3. Idle.pc = "idle" /\ Idle.job = None /\ Idle.row = None
  BY DEF Idle
<1>4. ASSUME Init PROVE Employed /\ JobsHeld /\ SharesHeld
  BY <1>1, <1>3, <1>4 DEF Employed, JobsHeld, SharesHeld, Executions
<1>5. ASSUME Init PROVE RowsHeld
  BY <1>1, <1>2, <1>3, <1>5 DEF RowsHeld, Executions
<1> QED BY <1>4, <1>5 DEF OwnerInv

LEMMA SameOwner == ASSUME OwnerInv, UNCHANGED <<run, job, rows, doubled>> PROVE OwnerInv'
BY DEF OwnerInv, Employed, RowOf, JobsHeld, SharesHeld, RowsHeld

LEMMA BusyHasJob ==
  ASSUME OwnerInv
  PROVE  \A e \in Executions : run[e].pc # "idle" => run[e].job \in Jobs
BY DEF OwnerInv, Employed

(* Steps that only move an execution along, never out of its catch. *)
LEMMA MovesOwner ==
  ASSUME TypeOK, OwnerInv, NEW e \in Executions, run[e].pc # "idle",
         NEW pc \in RunPc \ {"idle", "begin"}, NEW seen,
         pc \in {"read", "write"} \/ run[e].pc \notin {"read", "write"},
         run' = [run EXCEPT ![e] = [@ EXCEPT !.pc = pc, !.seen = seen]],
         UNCHANGED <<job, doubled>>, Len(rows') = Len(rows)
  PROVE  OwnerInv'
<1>1. \A d \in Executions :
        /\ run'[d].job = run[d].job /\ run'[d].row = run[d].row /\ run'[d].late = run[d].late
        /\ d # e => run'[d] = run[d]
  BY DEF TypeOK, Run
<1>2. run'[e].pc = pc
  BY DEF TypeOK, Run
<1>3. Employed'
  BY <1>1, <1>2 DEF OwnerInv, Employed, RowOf
<1>4. JobsHeld' /\ SharesHeld'
  BY <1>1 DEF OwnerInv, JobsHeld, SharesHeld, Executions
<1>5. RowsHeld'
  BY <1>1, <1>2 DEF OwnerInv, RowsHeld, Executions
<1> QED BY <1>3, <1>4, <1>5 DEF OwnerInv

(* An execution that ends settles its job, if it still has it. *)
LEMMA EndsOwner ==
  ASSUME TypeOK, OwnerInv, NEW e \in Executions, run[e].pc # "idle", Stop(e),
         Len(rows') = Len(rows), UNCHANGED doubled,
         \A j \in Jobs : /\ job'[j].row = job[j].row
                         /\ j # run[e].job \/ run[e].late => job'[j].state = job[j].state
                         /\ job[j].state # "none" => job'[j].state # "none"
  PROVE  OwnerInv'
<1>1. run'[e] = Idle /\ \A d \in Executions \ {e} : run'[d] = run[d]
  BY DEF Stop, TypeOK
<1>2. Idle.pc = "idle" /\ Idle.job = None /\ Idle.row = None
  BY DEF Idle
<1>3. \A d \in Executions : run[d].job # None => run[d].job \in Jobs
  BY DEF OwnerInv, Employed, Idle
<1>4. Employed'
  <2>1. ASSUME NEW d \in Executions \ {e}, run[d].pc # "idle"
        PROVE  /\ run'[d].job \in Jobs
               /\ run'[d].job[1] = IF d \in Fetchers THEN "fetch" ELSE "browse"
               /\ RowOf(d)'
    BY <1>1, <2>1 DEF OwnerInv, Employed, RowOf
  <2>2. ASSUME NEW d \in Executions \ {e}, run[d].pc = "idle" PROVE run'[d] = Idle
    BY <1>1, <2>2 DEF OwnerInv, Employed
  <2> QED BY <1>1, <1>2, <2>1, <2>2 DEF Employed
<1>5. JobsHeld'
  <2>1. ASSUME NEW d \in Executions \ {e}, run[d].job # None
        PROVE  job'[run[d].job].state # "none"
    BY <1>3, <2>1 DEF OwnerInv, JobsHeld
  <2>2. ASSUME NEW d \in Executions \ {e}, run[d].job # None, ~ run[d].late
        PROVE  job'[run[d].job].state = "active"
    <3>1. run[d].job # run[e].job \/ run[e].late
      BY <2>2 DEF OwnerInv, JobsHeld
    <3> QED BY <1>3, <2>2, <3>1 DEF OwnerInv, JobsHeld
  <2>3. \A c, d \in Executions :
          run'[c].job # None /\ run'[c].job = run'[d].job /\ ~ run'[c].late /\ ~ run'[d].late => c = d
    BY <1>1, <1>2 DEF OwnerInv, JobsHeld
  <2> QED BY <1>1, <1>2, <2>1, <2>2, <2>3 DEF JobsHeld
<1>6. SharesHeld'
  <2>1. ASSUME NEW d \in Browsers \ {e}, run[d].job # None, run[d].late,
               job'[run[d].job].state \notin Retained
        PROVE  run[d].row \in doubled
    <3>0. d \in Executions
      BY DEF Executions
    <3>1. CASE run[d].job # run[e].job \/ run[e].late
      BY <1>3, <2>1, <3>0, <3>1 DEF OwnerInv, SharesHeld
    <3>2. CASE run[d].job = run[e].job
      <4>1. e \in Browsers
        BY <2>1, <3>0, <3>2, SlotsAssumption DEF OwnerInv, Employed, Executions, Idle
      <4> QED BY <2>1, <3>2, <4>1 DEF OwnerInv, SharesHeld
    <3> QED BY <3>1, <3>2
  <2>2. \A c, d \in Browsers :
          c # d /\ run'[c].job # None /\ run'[c].job = run'[d].job => run'[c].row \in doubled
    BY <1>1, <1>2 DEF OwnerInv, SharesHeld, Executions
  <2> QED BY <1>1, <1>2, <2>1, <2>2 DEF SharesHeld, Executions
<1>7. RowsHeld'
  BY <1>1, <1>2 DEF OwnerInv, RowsHeld, Executions
<1> QED BY <1>4, <1>5, <1>6, <1>7 DEF OwnerInv

LEMMA SettleKeepsRows ==
  ASSUME TypeOK, NEW e \in Executions, run[e].job \in Jobs, NEW state \in JobState \ {"none"},
         Settle(e, state)
  PROVE  \A j \in Jobs : /\ job'[j].row = job[j].row
                         /\ j # run[e].job \/ run[e].late => job'[j].state = job[j].state
                         /\ job[j].state # "none" => job'[j].state # "none"
BY DEF Settle, TypeOK, Job

(* A job is added: its row was in no other job. *)
LEMMA EnqueuedJob ==
  ASSUME NEW jobs \in [Jobs -> Job], NEW q \in Queues, NEW row, bucket \in Buckets, NEW j \in Jobs
  PROVE  IF j = <<q, bucket>> /\ jobs[j].state = "none"
         THEN /\ Enqueued(jobs, q, row)[j].state = "waiting"
              /\ Enqueued(jobs, q, row)[j].row = row
         ELSE Enqueued(jobs, q, row)[j] = jobs[j]
<1>1. <<q, bucket>> \in Jobs
  BY DEF Jobs
<1> QED BY <1>1 DEF Enqueued, NoJob

(* The scheduler and the queue touch jobs whose lock nobody holds. *)
LEMMA JobsOwner ==
  ASSUME TypeOK, OwnerInv, UNCHANGED <<run, rows, doubled>>, NEW k \in Jobs,
         \A e \in Executions : run[e].job = k => run[e].late,
         \A j \in Jobs : j # k => job'[j] = job[j],
         job'[k].state # "none", job[k].state \in Retained => job'[k].state \in Retained,
         \/ job'[k].row = job[k].row
         \/ job'[k].row = None /\ \A e \in Executions : run[e].job # k
  PROVE  OwnerInv'
<1>1. \A j \in Jobs : job'[j].row = job[j].row \/ job'[j].row = None
  OBVIOUS
<1>2. \A e \in Executions :
        run[e].job # None => run[e].job \in Jobs /\ job'[run[e].job].row = job[run[e].job].row
  <2>1. \A e \in Executions : run[e].job # None => run[e].job \in Jobs
    BY DEF OwnerInv, Employed, Idle
  <2> QED BY <2>1
<1>3. Employed'
  BY <1>2 DEF OwnerInv, Employed, RowOf
<1>4. JobsHeld'
  BY <1>2 DEF OwnerInv, JobsHeld
<1>5. SharesHeld'
  BY <1>2 DEF OwnerInv, SharesHeld, Executions
<1>6. RowsHeld'
  BY <1>1 DEF OwnerInv, RowsHeld
<1> QED BY <1>3, <1>4, <1>5, <1>6 DEF OwnerInv

LEMMA ScheduleOwner ==
  ASSUME TypeOK, OwnerInv,
         Schedule \/ RetryIngestion \/ \E b \in Buckets : Dispatch(b)
  PROVE  OwnerInv'
<1>1. CASE Schedule
  BY <1>1, SameOwner DEF Schedule
<1>2. CASE RetryIngestion
  <2> DEFINE k == <<"fetch", bucket>>
  <2>1. k \in Jobs /\ "fetch" \in Queues /\ job \in [Jobs -> Job] /\ bucket \in Buckets
    BY DEF Jobs, Queues, TypeOK
  <2>2. job[k].state = "none"
    BY <1>2 DEF RetryIngestion
  <2>3. \A e \in Executions : run[e].job # k
    BY <2>1, <2>2, SlotsAssumption DEF OwnerInv, JobsHeld, Jobs, Queues, Buckets
  <2>4. job' = Enqueued(job, "fetch", None)
    BY <1>2 DEF RetryIngestion
  <2>5. job'[k].row = None
    BY <2>1, <2>2, <2>4, EnqueuedJob
  <2>6. \A j \in Jobs : j # k => job'[j] = job[j]
    BY <2>1, <2>4, EnqueuedJob
  <2>7. job'[k].state = "waiting"
    BY <2>1, <2>2, <2>4, EnqueuedJob
  <2>8. /\ UNCHANGED <<run, rows, doubled>> /\ job'[k].state # "none"
        /\ ~ (job[k].state \in Retained)
    BY <1>2, <2>2, <2>7 DEF RetryIngestion, Retained
  <2> QED BY <2>1, <2>3, <2>5, <2>6, <2>8, JobsOwner
<1>3. ASSUME NEW b \in Buckets, Dispatch(b) PROVE OwnerInv'
  <2> DEFINE k == <<"fetch", b>>
  <2>1. k \in Jobs
    BY DEF Jobs, Queues
  <2>2. CASE job[k].state = "none"
    <3>1. \A e \in Executions : run[e].job # k
      BY <2>1, <2>2, SlotsAssumption DEF OwnerInv, JobsHeld, Jobs, Queues, Buckets
    <3>2. job'[k].row = job[k].row /\ \A j \in Jobs : j # k => job'[j] = job[j]
      BY <1>3, <2>1 DEF Dispatch, TypeOK, Job
    <3>3. /\ UNCHANGED <<run, rows, doubled>> /\ job'[k].state # "none"
          /\ ~ (job[k].state \in Retained)
      BY <1>3, <2>1, <2>2 DEF Dispatch, TypeOK, Job, Added, Retained
    <3> QED BY <2>1, <3>1, <3>2, <3>3, JobsOwner
  <2>3. CASE job[k].state # "none"
    <3>1. job' = job
      BY <1>3, <2>1, <2>3 DEF Dispatch, Added, TypeOK, Job
    <3> QED BY <1>3, <3>1, SameOwner DEF Dispatch
  <2> QED BY <2>2, <2>3
<1> QED BY <1>1, <1>2, <1>3

LEMMA RecoverStalledOwner ==
  ASSUME TypeOK, OwnerInv, NEW j \in Jobs, RecoverStalled(j) PROVE OwnerInv'
<1>1. \A e \in Executions : run[e].job = j => run[e].late
  BY DEF RecoverStalled, Orphaned
<1>2. job'[j].row = job[j].row /\ \A i \in Jobs : i # j => job'[i] = job[i]
  BY DEF RecoverStalled, TypeOK, Job
<1>3. job[j].state = "active" /\ job'[j].state # "none"
  BY DEF RecoverStalled, Orphaned, TypeOK, Job
<1> QED BY <1>1, <1>2, <1>3, JobsOwner DEF RecoverStalled, Retained

LEMMA CrashOwner == ASSUME TypeOK, OwnerInv, Crash PROVE OwnerInv'
<1>1. \A e \in Executions : run'[e] = Idle
  BY DEF Crash
<1>2. UNCHANGED <<job, rows>>
  BY DEF Crash
<1>3. Idle.pc = "idle" /\ Idle.job = None /\ Idle.row = None
  BY DEF Idle
<1>5. Employed' /\ JobsHeld' /\ SharesHeld'
  BY <1>1, <1>3 DEF Employed, JobsHeld, SharesHeld, Executions
<1>4. RowsHeld'
  BY <1>1, <1>2, <1>3 DEF OwnerInv, RowsHeld, Executions
<1> QED BY <1>4, <1>5 DEF OwnerInv

(* An execution that takes a waiting job is the only one that holds its lock. *)
LEMMA TakeOwner ==
  ASSUME TypeOK, OwnerInv, NEW e \in Executions, NEW b \in Buckets,
         TakeFetch(e, b) \/ TakeBrowse(e, b)
  PROVE  OwnerInv'
<1> DEFINE j == IF e \in Fetchers THEN <<"fetch", b>> ELSE <<"browse", b>>
<1>1. j \in Jobs /\ j # None /\ j[1] = IF e \in Fetchers THEN "fetch" ELSE "browse"
  BY SlotsAssumption DEF Jobs, Queues, Buckets
<1>2. /\ run[e].pc = "idle" /\ job[j].state = "waiting" /\ UNCHANGED <<rows, doubled>>
      /\ job' = [job EXCEPT ![j].state = "active"]
      /\ run'[e].pc # "idle" /\ run'[e].job = j /\ run'[e].late = FALSE
      /\ run'[e].row = IF e \in Fetchers THEN None ELSE job[j].row
      /\ e \in Browsers => run'[e].pc = "fetch"
      /\ e \in Fetchers \/ e \in Browsers
      /\ \A d \in Executions \ {e} : run'[d] = run[d]
  <2>1. CASE TakeFetch(e, b)
    BY <1>1, <2>1, SlotsAssumption DEF TakeFetch, SetState, TypeOK, Idle
  <2>2. CASE TakeBrowse(e, b)
    BY <1>1, <2>2, SlotsAssumption DEF TakeBrowse, SetState, TypeOK, Idle
  <2> QED BY <2>1, <2>2
<1> HIDE DEF j
<1>3. /\ job'[j].state = "active"
      /\ \A i \in Jobs : job'[i].row = job[i].row /\ (i # j => job'[i].state = job[i].state)
  BY <1>1, <1>2 DEF TypeOK, Job
<1>4. \A d \in Executions : run[d].job = j => run[d].late
  BY <1>1, <1>2 DEF OwnerInv, JobsHeld
<1>5. \A d \in Executions : run[d].job = None \/ run[d].job \in Jobs
  BY DEF OwnerInv, Employed, Idle
<1>6. Employed'
  <2>1. RowOf(e)'
    BY <1>1, <1>2, <1>3, SlotsAssumption DEF OwnerInv, RowsHeld, RowOf
  <2>2. ASSUME NEW d \in Executions \ {e}, run[d].pc # "idle" PROVE RowOf(d)'
    BY <1>2, <1>3, <2>2 DEF OwnerInv, Employed, RowOf
  <2> QED BY <1>1, <1>2, <2>1, <2>2 DEF OwnerInv, Employed
<1>7. JobsHeld'
  BY <1>1, <1>2, <1>3, <1>4, <1>5 DEF OwnerInv, JobsHeld
<1>9. SharesHeld'
  <2>1. \A d \in Browsers : run[d].job = j => run[d].row \in doubled /\ run[d].row = job[j].row
    BY <1>1, <1>2, <1>4 DEF OwnerInv, SharesHeld, Employed, RowOf, Idle, Executions, Retained
  <2>2. \A d \in Browsers \ {e} : run'[d] = run[d]
    BY <1>2 DEF Executions
  <2>3. e \in Browsers => e \notin Fetchers
    BY SlotsAssumption
  <2>4. \A d \in Browsers :
          run'[d].job # None /\ run'[d].late /\ job'[run'[d].job].state \notin Retained
            => run'[d].row \in doubled
    BY <1>1, <1>2, <1>3, <1>5, <2>1, <2>2 DEF OwnerInv, SharesHeld, Executions
  <2>5. \A c, d \in Browsers :
          c # d /\ run'[c].job # None /\ run'[c].job = run'[d].job => run'[c].row \in doubled
    BY <1>2, <2>1, <2>2, <2>3 DEF OwnerInv, SharesHeld
  <2> QED BY <1>2, <2>4, <2>5 DEF SharesHeld
<1>8. RowsHeld'
  BY <1>1, <1>2, <1>3 DEF OwnerInv, RowsHeld, Executions
<1> QED BY <1>6, <1>7, <1>8, <1>9 DEF OwnerInv

(* An attempt row opens: its number is in no job and in no other execution. *)
LEMMA BeginOwner == ASSUME TypeOK, OwnerInv, NEW e \in Fetchers, Begin(e) PROVE OwnerInv'
<1>1. /\ Len(rows) \in Nat /\ Len(rows') = Len(rows) + 1 /\ UNCHANGED <<job, doubled>>
      /\ run'[e].pc = "fetch" /\ run'[e].row = Len(rows) + 1
      /\ run'[e].job = run[e].job /\ run'[e].late = run[e].late
      /\ \A d \in Executions \ {e} : run'[d] = run[d]
  BY DEF Begin, TypeOK, Executions, Run
<1>2. \A d \in Executions : run'[d].job = run[d].job /\ run'[d].late = run[d].late
  BY <1>1
<1>3. \A d \in Executions : run[d].row # None => run[d].row \in 1 .. Len(rows)
  BY DEF OwnerInv, Employed, RowOf, Idle
<1>4. Employed'
  <2>1. RowOf(e)' /\ e \notin Browsers
    BY <1>1, SlotsAssumption DEF RowOf
  <2>2. ASSUME NEW d \in Executions \ {e}, run[d].pc # "idle" PROVE RowOf(d)'
    BY <1>1, <2>2 DEF OwnerInv, Employed, RowOf
  <2>3. run[e].pc # "idle"
    BY DEF Begin
  <2> QED BY <1>1, <2>1, <2>2, <2>3 DEF OwnerInv, Employed, Executions
<1>5. JobsHeld'
  BY <1>1, <1>2 DEF OwnerInv, JobsHeld
<1>7. SharesHeld'
  <2>1. \A d \in Browsers : d \in Executions \ {e}
    BY SlotsAssumption DEF Executions
  <2> QED BY <1>1, <2>1 DEF OwnerInv, SharesHeld
<1>6. RowsHeld'
  BY <1>1, <1>3 DEF OwnerInv, RowsHeld, Executions
<1> QED BY <1>4, <1>5, <1>6, <1>7 DEF OwnerInv

(* A fetcher gives its row to a browser job that is new, or to nobody; it    *)
(* keeps it only to record the failure of the handover.                      *)
LEMMA HandOverOwner ==
  ASSUME TypeOK, OwnerInv, NEW f \in Fetchers, HandToBrowser(f) \/ HandoverThrows(f)
  PROVE  OwnerInv'
<1> DEFINE k == <<"browse", bucket>>
<1>1. /\ run[f].pc = "fetch" /\ f \in Executions /\ UNCHANGED rows
      /\ run[f].job \in Jobs /\ job' = Enqueued(job, "browse", run[f].row)
      /\ \A x \in doubled : x \in doubled'
  BY DEF HandToBrowser, HandoverThrows, Executions, OwnerInv, Employed
<1>2. /\ k \in Jobs /\ bucket \in Buckets /\ "browse" \in Queues /\ k # None
      /\ job \in [Jobs -> Job]
  BY SlotsAssumption DEF TypeOK, Jobs, Queues, Buckets
<1>3. /\ run'[f].job = run[f].job /\ run'[f].late = run[f].late
      /\ run'[f].pc \in {"handed", "read"}
      /\ \/ run'[f].row = None
         \/ run'[f].row = run[f].row /\ run'[f].pc = "read" /\ run[f].row \in doubled'
      /\ \A d \in Executions \ {f} : run'[d] = run[d]
  <2>1. CASE HandToBrowser(f)
    BY <1>1, <2>1 DEF HandToBrowser, TypeOK, Run
  <2>2. CASE HandoverThrows(f)
    BY <1>1, <2>2 DEF HandoverThrows, Goto, TypeOK, Run
  <2> QED BY <2>1, <2>2
<1>4. /\ \A j \in Jobs \ {k} : job'[j] = job[j]
      /\ job[k].state # "none" => job'[k] = job[k]
      /\ job[k].state = "none" => job'[k].state = "waiting" /\ job'[k].row = run[f].row
  BY <1>1, <1>2, EnqueuedJob
<1> HIDE DEF k
<1>5. \A d \in Executions :
        run[d].job # None => run[d].job \in Jobs /\ job'[run[d].job] = job[run[d].job]
  BY <1>2, <1>4 DEF OwnerInv, Employed, JobsHeld, Idle
<1>6. Employed'
  <2>1. ASSUME NEW d \in Executions \ {f}, run[d].pc # "idle" PROVE RowOf(d)'
    <3>1. run[d].job # None
      BY <2>1, SlotsAssumption DEF OwnerInv, Employed, Jobs, Queues, Buckets
    <3> QED BY <1>1, <1>3, <1>5, <2>1, <3>1 DEF OwnerInv, Employed, RowOf
  <2>2. ASSUME NEW d \in Executions \ {f}, run[d].pc = "idle" PROVE run'[d] = Idle
    BY <1>3, <2>2 DEF OwnerInv, Employed
  <2>3. RowOf(f)' /\ run'[f].job[1] = IF f \in Fetchers THEN "fetch" ELSE "browse"
    BY <1>1, <1>3, SlotsAssumption DEF OwnerInv, Employed, RowOf
  <2> QED BY <1>1, <1>3, <2>1, <2>2, <2>3 DEF OwnerInv, Employed
<1>7. JobsHeld'
  <2>1. \A d \in Executions : run'[d].job = run[d].job /\ run'[d].late = run[d].late
    BY <1>3
  <2> QED BY <1>5, <2>1 DEF OwnerInv, JobsHeld
<1>8. SharesHeld'
  <2>1. \A d \in Browsers : d \in Executions \ {f}
    BY SlotsAssumption DEF Executions
  <2> QED BY <1>1, <1>3, <1>5, <2>1 DEF OwnerInv, SharesHeld
<1>9. RowsHeld'
  <2>1. run[f].row # None => run[f].row \in 1 .. Len(rows)
    BY <1>1 DEF OwnerInv, Employed, RowOf
  <2>2. k[1] = "browse"
    BY DEF k
  <2>3. \A g \in Fetchers \ {f} : run'[g] = run[g] /\ (run[g].row # None => run[g].row # run[f].row)
    BY <1>3 DEF OwnerInv, RowsHeld, Executions
  <2>4. \A j \in Jobs : run[f].row # None => job[j].row # run[f].row
    BY <1>1 DEF OwnerInv, RowsHeld
  <2>5. \A j \in Jobs : job'[j].row # None => j[1] = "browse" /\ job'[j].row \in 1 .. Len(rows)
    BY <1>2, <1>4, <2>1, <2>2 DEF OwnerInv, RowsHeld
  <2>6. \A i, j \in Jobs : job'[i].row # None /\ job'[i].row = job'[j].row => i = j
    BY <1>2, <1>4, <2>4 DEF OwnerInv, RowsHeld
  <2>7. \A g \in Fetchers \ {f}, j \in Jobs :
          run'[g].row # None /\ run'[g].row = job'[j].row
            => run'[g].row \in doubled' /\ run'[g].pc \in {"read", "write"}
    BY <1>1, <1>2, <1>4, <2>3 DEF OwnerInv, RowsHeld
  <2>8. \A g, h \in Fetchers : run'[g].row # None /\ run'[g].row = run'[h].row => g = h
    BY <1>3, <2>3 DEF OwnerInv, RowsHeld
  <2> QED BY <1>1, <1>3, <2>5, <2>6, <2>7, <2>8 DEF RowsHeld
<1> QED BY <1>6, <1>7, <1>8, <1>9 DEF OwnerInv

(* The promise keeps its row, its job is finished and never taken again. *)
LEMMA TimeoutOwner == ASSUME TypeOK, OwnerInv, NEW e \in Executions, HardTimeout(e) PROVE OwnerInv'
<1>1. run[e].pc # "idle" /\ ~ run[e].late /\ run[e].job \in Jobs /\ UNCHANGED <<rows, doubled>>
  BY BusyHasJob DEF HardTimeout
<1>2. /\ \A d \in Executions : /\ run'[d].pc = run[d].pc /\ run'[d].job = run[d].job
                               /\ run'[d].row = run[d].row
                               /\ d # e => run'[d] = run[d]
      /\ run'[e].late = TRUE
  BY DEF HardTimeout, TypeOK, Run
<1>3. /\ \A j \in Jobs : job'[j].row = job[j].row /\ (j # run[e].job => job'[j] = job[j])
      /\ job'[run[e].job].state = "failed"
  BY <1>1 DEF HardTimeout, SetState, TypeOK, Job
<1>4. Employed'
  BY <1>1, <1>2, <1>3 DEF OwnerInv, Employed, RowOf
<1>5. JobsHeld'
  BY <1>1, <1>2, <1>3 DEF OwnerInv, JobsHeld, Employed, Idle
<1>7. SharesHeld'
  <2>1. \A d \in Executions : run[d].job # None => run[d].job \in Jobs
    BY DEF OwnerInv, Employed, Idle
  <2> QED BY <1>1, <1>2, <1>3, <2>1 DEF OwnerInv, SharesHeld, Executions, Retained
<1>6. RowsHeld'
  BY <1>1, <1>2, <1>3 DEF OwnerInv, RowsHeld, Executions
<1> QED BY <1>4, <1>5, <1>6, <1>7 DEF OwnerInv

(* So does one that loses its lock; its job may be taken again. *)
LEMMA LosesLockOwner == ASSUME TypeOK, OwnerInv, NEW e \in Executions, LosesLock(e) PROVE OwnerInv'
<1>1. /\ run[e].pc # "idle" /\ run[e].job \in Jobs /\ UNCHANGED <<rows, job>>
      /\ doubled' = doubled \cup (IF e \in Browsers THEN {run[e].row} ELSE {})
  BY BusyHasJob DEF LosesLock
<1>2. /\ \A d \in Executions : /\ run'[d].pc = run[d].pc /\ run'[d].job = run[d].job
                               /\ run'[d].row = run[d].row
                               /\ d # e => run'[d] = run[d]
      /\ run'[e].late = TRUE
  BY DEF LosesLock, TypeOK, Run
<1>3. Employed'
  BY <1>1, <1>2 DEF OwnerInv, Employed, RowOf
<1>4. JobsHeld'
  BY <1>1, <1>2 DEF OwnerInv, JobsHeld
<1>5. SharesHeld'
  BY <1>1, <1>2 DEF OwnerInv, SharesHeld, Executions
<1>6. RowsHeld'
  BY <1>1, <1>2 DEF OwnerInv, RowsHeld, Executions
<1> QED BY <1>3, <1>4, <1>5, <1>6 DEF OwnerInv

LEMMA ExecutionOwner ==
  ASSUME TypeOK, OwnerInv, NEW e \in Executions,
         \/ RunStep(e) \/ HandoverThrows(e) \/ AfterFetchFails(e)
         \/ DatabaseFails(e) \/ HardTimeout(e) \/ LosesLock(e)
  PROVE  OwnerInv'
<1>1. run[e].pc # "idle" => run[e].job \in Jobs
  BY BusyHasJob
<1>2. CASE Begin(e)
  <2>1. e \in Fetchers
    BY <1>2 DEF Begin, OwnerInv, Employed, RowOf, Executions
  <2> QED BY <1>2, <2>1, BeginOwner
<1>3. CASE Fetch(e) \/ AfterFetchFails(e) \/ RecordSuccess(e) \/ ReadHealth(e)
  <2>1. run[e].pc # "idle" /\ UNCHANGED <<job, doubled>>
    BY <1>3 DEF Fetch, AfterFetchFails, RecordSuccess, ReadHealth
  <2>2. Len(rows') = Len(rows)
    BY <1>3, OutcomeType DEF Fetch, AfterFetchFails, RecordSuccess, ReadHealth
  <2>3. \E pc \in RunPc \ {"idle", "begin"}, seen \in Nat :
          /\ pc \in {"read", "write"} \/ run[e].pc \notin {"read", "write"}
          /\ run' = [run EXCEPT ![e] = [@ EXCEPT !.pc = pc, !.seen = seen]]
    <3>1. run[e] \in Run /\ source.failures \in Nat
      BY DEF TypeOK, Health
    <3>2. ASSUME NEW pc \in RunPc \ {"idle", "begin"}, Goto(e, pc)
          PROVE  run' = [run EXCEPT ![e] = [@ EXCEPT !.pc = pc, !.seen = run[e].seen]]
      BY <3>1, <3>2 DEF Goto, TypeOK, Run
    <3>3. run[e].seen \in Nat
      BY <3>1 DEF Run
    <3>4. CASE ReadHealth(e)
      BY <3>1, <3>4 DEF ReadHealth, TypeOK, RunPc
    <3>5. CASE Fetch(e) \/ AfterFetchFails(e) \/ RecordSuccess(e)
      <4>1. /\ run[e].pc \notin {"read", "write"}
            /\ \E pc \in {"success", "bump", "read"} : Goto(e, pc)
        BY <3>5 DEF Fetch, AfterFetchFails, RecordSuccess
      <4>2. PICK pc \in {"success", "bump", "read"} : Goto(e, pc)
        BY <4>1
      <4>3. pc \in RunPc \ {"idle", "begin"}
        BY DEF RunPc
      <4> QED BY <3>2, <3>3, <4>1, <4>2, <4>3
    <3> QED BY <1>3, <3>4, <3>5
  <2> QED BY <2>1, <2>2, <2>3, MovesOwner
<1>4. CASE HandToBrowser(e) \/ HandoverThrows(e)
  BY <1>4, HandOverOwner DEF HandToBrowser, HandoverThrows
<1>5. CASE Complete(e) \/ RecordFailure(e) \/ DatabaseFails(e)
  <2>1. /\ run[e].pc # "idle" /\ Stop(e) /\ UNCHANGED doubled
        /\ \E state \in JobState \ {"none"} : Settle(e, state)
    <3>1. "completed" \in JobState \ {"none"}
      BY DEF JobState
    <3>2. \A made, max : AfterThrow(made, max) \in JobState \ {"none"}
      BY AfterThrowState
    <3> QED BY <1>5, <3>1, <3>2 DEF Complete, RecordFailure, DatabaseFails, Thrown
  <2>2. Len(rows') = Len(rows)
    BY <1>5, OutcomeType DEF Complete, RecordFailure, DatabaseFails
  <2> QED BY <1>1, <2>1, <2>2, SettleKeepsRows, EndsOwner
<1>6. CASE HardTimeout(e)
  BY <1>6, TimeoutOwner
<1>7. CASE LosesLock(e)
  BY <1>7, LosesLockOwner
<1> QED BY <1>2, <1>3, <1>4, <1>5, <1>6, <1>7 DEF RunStep

LEMMA NextOwner == ASSUME TypeOK, OwnerInv, [Next]_vars PROVE OwnerInv'
<1>1. ASSUME NEW a \in Admins,
             Activate(a) \/ Disable(a) \/ Update(a) \/ SaveReads(a) \/ SaveWrites(a)
      PROVE  OwnerInv'
  BY <1>1, SameOwner DEF Activate, Disable, Update, Loads, SaveReads, SaveWrites
<1>2. CASE UNCHANGED vars
  BY <1>2, SameOwner DEF vars
<1> QED BY <1>1, <1>2, ScheduleOwner, CrashOwner, TakeOwner, ExecutionOwner, RecoverStalledOwner DEF Next

(***************************************************************************)
(* The theorems.                                                           *)
(***************************************************************************)

(* Whatever crashes, times out and interleaves keeps to the types and to     *)
(* the discipline of IInv.                                                   *)
LEMMA Invariance == Spec => []IInv
<1>1. Init => IInv
  BY InitType, InitOwner, NoRequestAgrees DEF Init, IInv, HealthInv, NoRequest
<1>2. IInv /\ [Next]_vars => IInv'
  BY NextType, HealthStep, NextOwner, BusyHasJob DEF IInv
<1> QED BY <1>1, <1>2, PTL DEF Spec

(* The state keeps to its types: a job stalls at most MaxStalled times, time *)
(* stamps lie in the past, and so on.                                        *)
THEOREM IngestionTypes == Spec => []TypeOK
<1>1. IInv => TypeOK
  BY DEF IInv
<1> QED BY <1>1, Invariance, PTL

(* recordIngestionFailure writes a status that agrees with the failure       *)
(* counter it writes with it, however old the row was that it had read, and  *)
(* so do the administrators' saves, whatever columns they turn out to write: *)
(* a row disagrees only after a save that wrote one of the two.              *)
THEOREM StatusAgreesWithCounter == Spec => []StatusMatchesFailures
<1>1. IInv => StatusMatchesFailures
  BY DEF IInv, HealthInv, Consistent, StatusMatchesFailures, Agree
<1> QED BY <1>1, Invariance, PTL

(* The attempt row that a fetcher opens is handed to one browser job and is  *)
(* worked on by one execution, hard timeouts, crashes and stalled jobs       *)
(* included, unless that job lost its lock or its handover threw.            *)
THEOREM RowsHaveOneWriter == Spec => []OneWriterPerRow
<1>1. ASSUME IInv, NEW d \in Executions, NEW e \in Executions,
             run[d].row # None, run[d].row = run[e].row
      PROVE  d = e \/ run[d].row \in doubled
  <2>1. \A c \in {d, e} : /\ run[c].job \in Jobs
                          /\ c \in Browsers => run[c].row = job[run[c].job].row
    BY <1>1 DEF IInv, OwnerInv, Employed, RowOf, Idle
  <2>2. \A c \in {d, e} : run[c].job # None
    BY <2>1, SlotsAssumption DEF Jobs, Queues, Buckets
  <2>3. CASE d \in Fetchers /\ e \in Fetchers
    BY <1>1, <2>3 DEF IInv, OwnerInv, RowsHeld
  <2>4. CASE d \in Browsers /\ e \in Browsers
    <3>1. run[d].job = run[e].job
      BY <1>1, <2>1, <2>4 DEF IInv, OwnerInv, RowsHeld
    <3> QED BY <1>1, <2>2, <2>4, <3>1 DEF IInv, OwnerInv, SharesHeld
  <2>5. CASE (d \in Fetchers /\ e \in Browsers) \/ (d \in Browsers /\ e \in Fetchers)
    BY <1>1, <2>1, <2>5 DEF IInv, OwnerInv, RowsHeld
  <2> QED BY <2>3, <2>4, <2>5 DEF Executions
<1>2. IInv => OneWriterPerRow
  BY <1>1 DEF OneWriterPerRow
<1> QED BY <1>2, Invariance, PTL

(* One execution at a time and no administrator: what it read of the counter *)
(* is still there when it writes.                                            *)
SoloInv ==
  /\ CountIsExact
  /\ \A e \in Executions : run[e].pc = "write" => run[e].seen = source.failures

LEMMA SoloStep ==
  ASSUME Admins = {}, \A d, e \in Executions : d = e,
         IInv, SoloInv, [Next]_vars
  PROVE  SoloInv'
<1> USE DEF SoloInv, CountIsExact
<1>1. run \in [Executions -> Run] /\ source \in Health
  BY DEF IInv, TypeOK
<1>2. CASE UNCHANGED <<run, source, strikes>>
  BY <1>2
<1>3. CASE Crash
  BY <1>3 DEF Crash, Idle
<1>4. ASSUME NEW e \in Executions, NEW b \in Buckets, TakeFetch(e, b) \/ TakeBrowse(e, b) PROVE SoloInv'
  BY <1>1, <1>4 DEF TakeFetch, TakeBrowse, Idle
<1>5. ASSUME NEW e \in Executions, Begin(e) PROVE SoloInv'
  <2>1. source'.failures = source.failures /\ strikes' = strikes /\ run'[e].pc = "fetch"
    BY <1>1, <1>5 DEF Begin, Health, Run
  <2> QED BY <2>1
<1>6. ASSUME NEW e \in Executions, Fetch(e) \/ AfterFetchFails(e) \/ HardTimeout(e) PROVE SoloInv'
  BY <1>1, <1>6 DEF Fetch, AfterFetchFails, HardTimeout, Goto, Run
<1>7. ASSUME NEW e \in Executions, Complete(e) \/ DatabaseFails(e) PROVE SoloInv'
  BY <1>1, <1>7 DEF Complete, DatabaseFails, Stop, Idle
<1>12. ASSUME NEW e \in Executions, HandToBrowser(e) \/ HandoverThrows(e) \/ LosesLock(e) PROVE SoloInv'
  BY <1>1, <1>12 DEF HandToBrowser, HandoverThrows, LosesLock, Goto, Run
<1>8. ASSUME NEW e \in Executions, RecordSuccess(e) PROVE SoloInv'
  BY <1>1, <1>8 DEF RecordSuccess, NewSource, Goto, Run
<1>9. ASSUME NEW e \in Executions, ReadHealth(e) PROVE SoloInv'
  BY <1>1, <1>9 DEF ReadHealth, Run
<1>10. ASSUME NEW e \in Executions, RecordFailure(e) PROVE SoloInv'
  <2>1. source'.failures = run[e].seen + 1 /\ strikes' = strikes + 1 /\ run'[e] = Idle
    BY <1>1, <1>10 DEF RecordFailure, Stop, Health
  <2>2. run[e].seen = source.failures
    BY <1>10 DEF RecordFailure
  <2> QED BY <2>1, <2>2 DEF Idle
<1>11. ASSUME \/ Schedule \/ RetryIngestion \/ UNCHANGED vars
              \/ (\E b \in Buckets : Dispatch(b)) \/ \E j \in Jobs : RecoverStalled(j)
       PROVE  UNCHANGED <<run, source, strikes>>
  BY <1>11 DEF Schedule, RetryIngestion, vars, Dispatch, RecoverStalled
<1> HIDE DEF SoloInv, CountIsExact
<1> QED BY <1>2, <1>3, <1>4, <1>5, <1>6, <1>7, <1>8, <1>9, <1>10, <1>11, <1>12 DEF Next, RunStep

(* With a single worker and no administrator the counter is exact: a crash, *)
(* a database error or an error after a recorded success never miscounts.   *)
THEOREM SoloCountIsExact ==
  ASSUME Admins = {}, \A d, e \in Executions : d = e
  PROVE  Spec => []CountIsExact
<1>1. Init => SoloInv
  BY DEF Init, SoloInv, CountIsExact, NewSource, Idle
<1>2. IInv /\ SoloInv /\ [Next]_vars => SoloInv'
  BY SoloStep
<1>3. SoloInv => CountIsExact
  BY DEF SoloInv
<1> QED BY <1>1, <1>2, <1>3, Invariance, PTL DEF Spec
=============================================================================
