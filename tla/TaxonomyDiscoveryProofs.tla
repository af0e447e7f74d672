---------------------- MODULE TaxonomyDiscoveryProofs ----------------------
(***************************************************************************)
(* Theorems about TaxonomyDiscovery, for every set of workers and          *)
(* administrators and all bounds.                                          *)
(***************************************************************************)
EXTENDS TaxonomyDiscovery, TLAPS

(***************************************************************************)
(* The inductive invariant.                                                *)
(***************************************************************************)

(* The row lock of the taxonomy admits one retry at a time, which finds the  *)
(* finished job that it removes where it saw it.                             *)
OneTransaction ==
  \A q, r \in Admins : retry[q].pc \in InTransaction /\ retry[r].pc \in InTransaction => q = r
RemovesRetained == \A r \in Admins : retry[r].pc = "remove" => job.state \in Retained

AttemptsLeft ==
  /\ job.state = "none" => job = NoJob
  /\ job.state \in Executable => job.made < MaxAttempts

(* Who holds the lock of the job executes it alone. *)
Ownership ==
  /\ \A w \in Workers : Holds(w) => job.state = "active" /\ run[w].final = FinalAttempt
  /\ \A v, w \in Workers : Holds(v) /\ Holds(w) => v = w

(* What an execution has done before it is where it is. *)
HasMarked == {"discover", "read", "write", "finish"}
HasOutcome == {"read", "write", "finish"}
Progress ==
  \A w \in Workers :
    /\ run[w].pc \in HasMarked => run[w].copy \in Request /\ request \in Request
    /\ run[w].pc \in HasOutcome => run[w].copy.status \in {"completed", FailureStatus(w)}

QueueInv == OneTransaction /\ RemovesRetained /\ AttemptsLeft /\ Ownership /\ Progress

(* Without live stalls no execution outlives its lock. *)
NeverLate == \A w \in Workers : ~ run[w].late

(* An execution that is about to end the job has left an outcome. *)
OutcomeShown ==
  \A w \in Workers :
    run[w].pc = "finish" /\ run[w].copy.status # "queued" => request.status \notin Unfinished \/ excused

WorkInv == UnfinishedHasWork /\ OutcomeShown

(***************************************************************************)
(* Type correctness and the queue.                                         *)
(***************************************************************************)

LEMMA RecordTypes == NoJob \in Job /\ Idle \in Run /\ NoRetry \in Retry
BY DiscoveryAssumption DEF NoJob, Job, JobState, Idle, Run, NoRetry, Retry, RetryPc

LEMMA RequestRange ==
  ASSUME NEW q \in Request \cup {NoRequest}
  PROVE  /\ q.status \in Status => q \in Request
         /\ q # NoRequest => q \in Request
         /\ q \in Request => q.status \in Status
BY DEF Request, NoRequest, Status

LEMMA InitQueue == Init => TypeOK /\ QueueInv /\ NeverLate
<1> SUFFICES ASSUME Init PROVE TypeOK /\ QueueInv /\ NeverLate
  OBVIOUS
<1>1. TypeOK
  <2>1. job \in Job /\ run \in [Workers -> Run] /\ retry \in [Admins -> Retry]
    BY RecordTypes DEF Init
  <2>2. asked \in 0 .. MaxRetries /\ begun \in Nat
    BY DiscoveryAssumption DEF Init
  <2> QED BY <2>1, <2>2 DEF Init, TypeOK
<1>2. QueueInv
  BY DEF Init, QueueInv, OneTransaction, InTransaction, RemovesRetained, AttemptsLeft, Executable,
         NoJob, NoRetry, Ownership, Holds, Idle, Progress, HasMarked, HasOutcome
<1> QED BY <1>1, <1>2 DEF Init, NeverLate, Idle

(* What the steps assign to the job. *)
LEMMA SetStateType == ASSUME TypeOK, NEW s \in JobState, SetState(s) PROVE job' \in Job
BY DEF TypeOK, SetState, Job

LEMMA SettleType ==
  ASSUME TypeOK, NEW w, NEW s \in JobState, NEW n \in 0 .. MaxAttempts, Settle(w, s, n)
  PROVE  job' \in Job
BY DEF TypeOK, Settle, Job

LEMMA ThrowsType ==
  ASSUME TypeOK, QueueInv, NEW w \in Workers, run[w].pc # "idle", Throws(w)
  PROVE  /\ job' \in Job /\ run' \in [Workers -> Run]
         /\ run[w].late => job' = job
         /\ ~ run[w].late => job'.state \in {"waiting", "failed"} /\ (job'.state = "waiting" => job'.made < MaxAttempts)
         /\ ~ run[w].late /\ ~ run[w].final => job'.state = "waiting"
<1>1. run' \in [Workers -> Run]
  BY RecordTypes DEF Throws, Stop, TypeOK
<1>2. CASE run[w].late
  BY <1>1, <1>2 DEF Throws, Settle, TypeOK
<1>3. CASE ~ run[w].late
  <2>1. job \in Job /\ job.made \in Nat /\ job.made < MaxAttempts /\ run[w].final = (job.made + 1 >= MaxAttempts)
    BY <1>3 DEF TypeOK, QueueInv, Ownership, AttemptsLeft, Holds, Executable, FinalAttempt, Job
  <2>2. job.made + 1 \in 0 .. MaxAttempts
    BY <2>1, DiscoveryAssumption
  <2>3. AfterThrow(job.made + 1, MaxAttempts) = IF job.made + 1 < MaxAttempts THEN "waiting" ELSE "failed"
    BY DEF AfterThrow
  <2>4. job' = [job EXCEPT !.state = AfterThrow(job.made + 1, MaxAttempts), !.made = job.made + 1]
    BY <1>3 DEF Throws, Settle
  <2>5. job' \in Job /\ job'.state = AfterThrow(job.made + 1, MaxAttempts) /\ job'.made = job.made + 1
    BY <2>1, <2>2, <2>3, <2>4 DEF Job, JobState
  <2>6. job.made + 1 < MaxAttempts \/ job.made + 1 >= MaxAttempts
    BY <2>1, DiscoveryAssumption
  <2>7. job'.state \in {"waiting", "failed"} /\ (job'.state = "waiting" => job'.made < MaxAttempts)
    BY <2>3, <2>5
  <2>8. ~ run[w].final => job.made + 1 < MaxAttempts
    BY <2>1, <2>6
  <2> QED BY <1>1, <1>3, <2>3, <2>5, <2>7, <2>8
<1> QED BY <1>2, <1>3

(* What they assign to an execution. *)
LEMMA SetRun ==
  ASSUME TypeOK, NEW w \in Workers, NEW r \in Run, run' = [run EXCEPT ![w] = r]
  PROVE  run' \in [Workers -> Run]
BY DEF TypeOK

LEMMA GotoType ==
  ASSUME TypeOK, NEW w \in Workers,
         NEW pc \in {"idle", "load", "mark", "discover", "read", "write", "finish"}, Goto(w, pc)
  PROVE  run' \in [Workers -> Run]
BY DEF TypeOK, Goto, Run

LEMMA SaveAsType ==
  ASSUME TypeOK, NEW w \in Workers, run[w].copy \in Request, NEW status \in Status, SaveAs(w, status)
  PROVE  run' \in [Workers -> Run] /\ run'[w].copy \in Request /\ run'[w].copy.status = status
<1>1. [run[w].copy EXCEPT !.status = status] \in Request
  BY DEF Request
<1>2. [run[w] EXCEPT !.pc = "read", !.copy = [run[w].copy EXCEPT !.status = status]] \in Run
  BY <1>1 DEF TypeOK, Run
<1>3. run' = [run EXCEPT ![w] = [run[w] EXCEPT !.pc = "read", !.copy = [run[w].copy EXCEPT !.status = status]]]
  BY DEF SaveAs, TypeOK
<1> QED BY <1>1, <1>2, <1>3 DEF TypeOK, Request, Run

LEMMA SetRetry ==
  ASSUME TypeOK, NEW r \in Admins, NEW pc \in RetryPc, GotoRetry(r, pc) \/ EndRetry(r)
  PROVE  retry' \in [Admins -> Retry]
BY RecordTypes DEF TypeOK, GotoRetry, EndRetry, Retry

LEMMA SavedType ==
  ASSUME NEW row \in Request, NEW base \in Request \cup {NoRequest}, NEW entity \in Request
  PROVE  /\ Saved(row, base, entity) \in Request
         /\ Saved(row, base, entity).status \in {row.status, entity.status}
BY DEF Saved, Request, Status, NoRequest

(* What survives of the facts about the queue when the job and the           *)
(* executions stay, and when only a job changes that nobody executes.        *)
RequestStays == request \in Request => request' \in Request

LEMMA QueueStays ==
  ASSUME QueueInv, UNCHANGED <<job, run>>, RequestStays
  PROVE  AttemptsLeft' /\ Ownership' /\ Progress'
BY DEF QueueInv, AttemptsLeft, Ownership, Holds, FinalAttempt, Progress, FailureStatus, RequestStays

LEMMA JobChanges ==
  ASSUME QueueInv, job.state = "active" => job' = job, UNCHANGED <<run, request>>
  PROVE  Ownership' /\ Progress'
BY DEF QueueInv, Ownership, Holds, FinalAttempt, Progress, FailureStatus

LEMMA TransactionStays ==
  ASSUME OneTransaction, NEW r \in Admins, \A q \in Admins \ {r} : retry'[q] = retry[q],
         retry'[r].pc \in InTransaction => retry[r].pc \in InTransaction \/ ~ TaxonomyLocked
  PROVE  OneTransaction'
BY DEF OneTransaction, TaxonomyLocked, InTransaction

LEMMA RemovalStays ==
  ASSUME RemovesRetained, NEW r \in Admins, \A q \in Admins \ {r} : retry'[q] = retry[q],
         retry'[r].pc = "remove" => job'.state \in Retained,
         job.state \in Retained => job'.state \in Retained
  PROVE  RemovesRetained'
BY DEF RemovesRetained

LEMMA GotoRetryMoves ==
  ASSUME TypeOK, NEW r \in Admins, NEW pc, GotoRetry(r, pc)
  PROVE  retry'[r].pc = pc /\ \A q \in Admins \ {r} : retry'[q] = retry[q]
BY DEF TypeOK, GotoRetry, Retry

LEMMA EndRetryMoves ==
  ASSUME TypeOK, NEW r \in Admins, EndRetry(r)
  PROVE  retry'[r].pc = "idle" /\ \A q \in Admins \ {r} : retry'[q] = retry[q]
BY DEF TypeOK, EndRetry, NoRetry

(* Steps of a retry that leave the job alone. *)
LEMMA QuietRetryQueue ==
  ASSUME TypeOK, QueueInv, NEW r \in Admins,
         \/ BeginRetry(r) \/ LookAtJob(r) \/ RetryCommits(r) \/ RetryAborts(r) \/ ActivateFails(r)
         \/ CheckJob(r) \/ RestoreStatus(r) \/ RetryDies(r)
  PROVE  TypeOK' /\ QueueInv'
<1>1. UNCHANGED <<job, run, taxonomy, creator, begun>>
  BY DEF BeginRetry, LookAtJob, RetryCommits, RetryAborts, ActivateFails, CheckJob, RestoreStatus, RetryDies
<1>2. request' \in Request \cup {NoRequest} /\ RequestStays
  <2>1. CASE RetryCommits(r)
    <3>1. retry[r].read \in Request \cup {NoRequest}
      BY DEF TypeOK, Retry
    <3>2. request' \in Request
      <4> DEFINE read == retry[r].read
      <4>1. request' = [read EXCEPT !.status = "queued", !.retries = read.retries + 1]
        BY <2>1 DEF RetryCommits
      <4>2. read \in [status : Status \cup {"none"}, attempts : Nat, retries : Nat]
        BY <3>1 DEF Request, NoRequest
      <4>3. read.retries + 1 \in Nat
        BY <4>2
      <4> HIDE DEF read
      <4> QED BY <4>1, <4>2, <4>3 DEF Request, Status
    <3> QED BY <3>2 DEF RequestStays
  <2>2. CASE RestoreStatus(r)
    <3>1. retry[r].read \in Request \cup {NoRequest} /\ request \in Request \cup {NoRequest}
      BY DEF TypeOK, Retry
    <3>2. CASE request.status = "queued" /\ retry[r].read # NoRequest
      <4>1. retry[r].read.status \in Status /\ request \in Request
        BY <3>1, <3>2, RequestRange DEF Status
      <4>2. request' = [request EXCEPT !.status = retry[r].read.status]
        BY <2>2, <3>2 DEF RestoreStatus
      <4> QED BY <4>1, <4>2 DEF Request, RequestStays
    <3>3. CASE ~ (request.status = "queued" /\ retry[r].read # NoRequest)
      BY <2>2, <3>1, <3>3 DEF RestoreStatus, RequestStays
    <3> QED BY <3>2, <3>3
  <2>3. CASE UNCHANGED request
    BY <2>3 DEF TypeOK, RequestStays
  <2> QED BY <2>1, <2>2, <2>3 DEF BeginRetry, LookAtJob, RetryAborts, ActivateFails, CheckJob, RetryDies
<1>3. excused' \in BOOLEAN /\ asked' \in 0 .. MaxRetries
  <2>1. CASE BeginRetry(r)
    BY <2>1, DiscoveryAssumption DEF BeginRetry, TypeOK
  <2>2. CASE RetryCommits(r)
    BY <2>2 DEF RetryCommits, TypeOK, Overtaken
  <2>3. CASE RestoreStatus(r)
    BY <2>3 DEF RestoreStatus, TypeOK
  <2>4. CASE RetryDies(r)
    BY <2>4 DEF RetryDies, Excuse, TypeOK
  <2>5. CASE LookAtJob(r) \/ RetryAborts(r) \/ ActivateFails(r) \/ CheckJob(r)
    BY <2>5 DEF LookAtJob, RetryAborts, ActivateFails, CheckJob, TypeOK
  <2> QED BY <2>1, <2>2, <2>3, <2>4, <2>5
<1>4. /\ retry' \in [Admins -> Retry]
      /\ \A q \in Admins \ {r} : retry'[q] = retry[q]
      /\ retry'[r].pc \in InTransaction => retry[r].pc \in InTransaction \/ ~ TaxonomyLocked
      /\ retry'[r].pc = "remove" => job.state \in Retained
  <2>1. CASE BeginRetry(r)
    <3>1. [NoRetry EXCEPT !.pc = "look", !.read = request] \in Retry
      BY RecordTypes DEF TypeOK, Retry, RetryPc
    <3> QED BY <2>1, <3>1 DEF BeginRetry, TypeOK, NoRetry
  <2>2. CASE LookAtJob(r)
    <3>1. PICK pc \in {"remove", "add", "commit"} :
            GotoRetry(r, pc) /\ (pc = "remove" => job.state \in Retained)
      BY <2>2 DEF LookAtJob
    <3> QED BY <2>2, <3>1, SetRetry, GotoRetryMoves DEF LookAtJob, InTransaction, RetryPc
  <2>3. CASE RetryCommits(r) \/ RetryAborts(r) \/ ActivateFails(r) \/ CheckJob(r) \/ RestoreStatus(r)
             \/ RetryDies(r)
    <3>1. EndRetry(r) \/ \E pc \in {"activate", "compensate", "check", "restore"} : GotoRetry(r, pc)
      BY <2>3 DEF RetryCommits, RetryAborts, ActivateFails, CheckJob, RestoreStatus, RetryDies
    <3> QED BY <3>1, SetRetry, GotoRetryMoves, EndRetryMoves DEF RetryPc, InTransaction
  <2> QED BY <2>1, <2>2, <2>3
<1>5. TypeOK'
  BY <1>1, <1>2, <1>3, <1>4 DEF TypeOK
<1>6. OneTransaction' /\ RemovesRetained'
  BY <1>1, <1>4, TransactionStays, RemovalStays DEF QueueInv
<1> QED BY <1>1, <1>2, <1>5, <1>6, QueueStays DEF QueueInv

(* Steps that change a job which no execution holds. *)
LEMMA JobStepQueue ==
  ASSUME TypeOK, QueueInv,
         \/ EnqueueDiscovery \/ DelayElapses \/ CancelJob
         \/ \E r \in Admins : RemoveRetained(r) \/ AddRetryJob(r) \/ CompensateRetry(r) \/ ActivateRetry(r)
  PROVE  TypeOK' /\ QueueInv'
<1>1. job' \in Job /\ (job.state = "active" => job' = job) /\ AttemptsLeft'
  <2>1. CASE job' = job
    BY <2>1 DEF TypeOK, QueueInv, AttemptsLeft
  <2>2. CASE job' = NoJob /\ job.state # "active"
    BY <2>2, RecordTypes, DiscoveryAssumption DEF AttemptsLeft, NoJob, Executable
  <2>3. ASSUME NEW s \in {"waiting", "delayed"}, SetState(s), job.state \in {"none", "delayed"}
        PROVE  job' \in Job /\ (job.state = "active" => job' = job) /\ AttemptsLeft'
    <3>1. job' \in Job
      BY <2>3, SetStateType DEF JobState
    <3>2. job.made < MaxAttempts
      BY <2>3, DiscoveryAssumption DEF QueueInv, AttemptsLeft, Executable, NoJob
    <3> QED BY <2>3, <3>1, <3>2 DEF SetState, TypeOK, Job, AttemptsLeft
  <2>4. job \in Job
    BY DEF TypeOK
  <2>5. SetState(job.state) => job' = job
    BY <2>4 DEF SetState, Job
  <2>6. CASE EnqueueDiscovery
    BY <2>1, <2>3, <2>5, <2>6 DEF EnqueueDiscovery, Added
  <2>7. CASE DelayElapses
    BY <2>3, <2>7 DEF DelayElapses
  <2>8. CASE CancelJob
    BY <2>2, <2>8 DEF CancelJob, Removable
  <2>9. ASSUME NEW r \in Admins, RemoveRetained(r)
        PROVE  job' \in Job /\ (job.state = "active" => job' = job) /\ AttemptsLeft'
    BY <2>2, <2>9 DEF RemoveRetained, QueueInv, RemovesRetained, Retained
  <2>10. ASSUME NEW r \in Admins, AddRetryJob(r)
         PROVE  job' \in Job /\ (job.state = "active" => job' = job) /\ AttemptsLeft'
    BY <2>1, <2>3, <2>5, <2>10 DEF AddRetryJob, AddedDelayed
  <2>11. ASSUME NEW r \in Admins, CompensateRetry(r)
         PROVE  job' \in Job /\ (job.state = "active" => job' = job) /\ AttemptsLeft'
    BY <2>1, <2>2, <2>11 DEF CompensateRetry, Removable
  <2>12. ASSUME NEW r \in Admins, ActivateRetry(r)
         PROVE  job' \in Job /\ (job.state = "active" => job' = job) /\ AttemptsLeft'
    BY <2>1, <2>3, <2>5, <2>12 DEF ActivateRetry, Promoted
  <2> QED BY <2>6, <2>7, <2>8, <2>9, <2>10, <2>11, <2>12
<1>2. UNCHANGED <<run, request, taxonomy, asked, begun>>
  BY DEF EnqueueDiscovery, DelayElapses, CancelJob, RemoveRetained, AddRetryJob, CompensateRetry, ActivateRetry
<1>3. Ownership' /\ Progress'
  BY <1>1, <1>2, JobChanges
<1>4. creator' \in {"unseen", "enqueue", "done"} /\ excused' \in BOOLEAN
  BY DEF TypeOK, EnqueueDiscovery, DelayElapses, CancelJob, RemoveRetained, AddRetryJob, CompensateRetry,
         ActivateRetry, Excuse
<1>5. retry' \in [Admins -> Retry] /\ OneTransaction' /\ RemovesRetained'
  <2>1. CASE EnqueueDiscovery \/ DelayElapses \/ CancelJob
    <3>1. UNCHANGED retry /\ (job.state \in Retained => job'.state \in Retained)
      BY <2>1 DEF EnqueueDiscovery, DelayElapses, CancelJob, SetState, Added, Retained, Removable, TypeOK, Job
    <3> QED BY <3>1 DEF TypeOK, QueueInv, OneTransaction, RemovesRetained
  <2>2. ASSUME NEW r \in Admins, RemoveRetained(r)
        PROVE  retry' \in [Admins -> Retry] /\ OneTransaction' /\ RemovesRetained'
    <3>1. /\ retry' \in [Admins -> Retry]
          /\ retry'[r].pc = "add" /\ \A q \in Admins \ {r} : retry'[q] = retry[q]
      BY <2>2, SetRetry, GotoRetryMoves DEF RemoveRetained, RetryPc
    <3>2. retry[r].pc \in InTransaction
      BY <2>2 DEF RemoveRetained, InTransaction
    <3>3. \A q \in Admins \ {r} : retry[q].pc # "remove"
      BY <3>2 DEF QueueInv, OneTransaction, InTransaction
    <3> QED BY <3>1, <3>2, <3>3, TransactionStays DEF QueueInv, RemovesRetained
  <2>3. ASSUME NEW r \in Admins, AddRetryJob(r) \/ CompensateRetry(r) \/ ActivateRetry(r)
        PROVE  retry' \in [Admins -> Retry] /\ OneTransaction' /\ RemovesRetained'
    <3>1. /\ retry' \in [Admins -> Retry]
          /\ \A q \in Admins \ {r} : retry'[q] = retry[q]
          /\ retry'[r].pc \in InTransaction => retry[r].pc \in InTransaction
          /\ retry'[r].pc # "remove"
      <4>1. CASE AddRetryJob(r)
        <5>1. [retry[r] EXCEPT !.pc = "commit", !.created = TRUE] \in Retry
          BY DEF TypeOK, Retry, RetryPc
        <5> QED BY <4>1, <5>1 DEF AddRetryJob, TypeOK, InTransaction, Retry
      <4>2. CASE CompensateRetry(r) \/ ActivateRetry(r)
        BY <4>2, SetRetry, GotoRetryMoves, EndRetryMoves
           DEF CompensateRetry, ActivateRetry, RetryPc, InTransaction
      <4> QED BY <2>3, <4>1, <4>2
    <3>2. job.state \in Retained => job'.state \in Retained
      BY <2>3 DEF AddRetryJob, CompensateRetry, ActivateRetry, SetState, AddedDelayed, Promoted, Removable,
                  Retained, TypeOK, Job
    <3> QED BY <3>1, <3>2, TransactionStays, RemovalStays DEF QueueInv
  <2> QED BY <2>1, <2>2, <2>3
<1> QED BY <1>1, <1>2, <1>3, <1>4, <1>5 DEF TypeOK, QueueInv

(* Steps of an execution. *)
LEMMA RetriesStay ==
  ASSUME QueueInv, UNCHANGED retry, job.state \in Retained => job'.state \in Retained
  PROVE  OneTransaction' /\ RemovesRetained'
BY DEF QueueInv, OneTransaction, RemovesRetained

(* One that goes on keeps its lock, or what is left of it. *)
LEMMA RunGoesOn ==
  ASSUME QueueInv, UNCHANGED job, NEW w \in Workers, run[w].pc # "idle", run'[w].pc # "idle",
         run'[w].late = run[w].late, run'[w].final = run[w].final,
         \A v \in Workers \ {w} : run'[v] = run[v]
  PROVE  AttemptsLeft' /\ Ownership'
BY DEF QueueInv, AttemptsLeft, Ownership, Holds, FinalAttempt

(* One that ends was the only one to hold the job, unless it lost it. *)
LEMMA RunEnds ==
  ASSUME QueueInv, NEW w \in Workers, run[w].pc # "idle", run'[w] = Idle,
         run[w].late => job' = job, RequestStays, \A v \in Workers \ {w} : run'[v] = run[v]
  PROVE  Ownership' /\ Progress'
<1>1. \A v \in Workers : Holds(v)' => Holds(v) /\ v # w /\ job' = job
  BY DEF Holds, Idle, QueueInv, Ownership
<1>2. Ownership'
  BY <1>1 DEF QueueInv, Ownership, Holds, FinalAttempt, Idle
<1>3. Progress'
  BY DEF QueueInv, Progress, FailureStatus, RequestStays, Idle, HasMarked, HasOutcome
<1> QED BY <1>2, <1>3

LEMMA TakeJobQueue ==
  ASSUME TypeOK, QueueInv, NEW w \in Workers, TakeJob(w) PROVE TypeOK' /\ QueueInv'
<1>1. job.state = "waiting" /\ job' = [job EXCEPT !.state = "active"] /\ job \in Job
  BY DEF TakeJob, SetState, TypeOK
<1>2. [Idle EXCEPT !.pc = "load", !.final = FinalAttempt] \in Run
  <2>1. FinalAttempt \in BOOLEAN
    BY DEF FinalAttempt
  <2> QED BY <2>1, RecordTypes DEF Run
<1>3. /\ run'[w] = [Idle EXCEPT !.pc = "load", !.final = FinalAttempt]
      /\ \A v \in Workers \ {w} : run'[v] = run[v]
      /\ run' \in [Workers -> Run]
  BY <1>2 DEF TakeJob, TypeOK
<1>4. \A v \in Workers : ~ Holds(v)
  BY <1>1 DEF QueueInv, Ownership
<1>5. \A v \in Workers : Holds(v)' => v = w
  BY <1>3, <1>4 DEF Holds
<1>6. job'.state = "active" /\ job'.made = job.made /\ job' \in Job
  BY <1>1 DEF Job, JobState
<1>7. Ownership'
  BY <1>3, <1>5, <1>6 DEF Ownership, FinalAttempt, Idle
<1>8. AttemptsLeft'
  BY <1>1, <1>6 DEF QueueInv, AttemptsLeft, Executable
<1>9. Progress'
  BY <1>3 DEF TakeJob, QueueInv, Progress, FailureStatus, Idle, HasMarked, HasOutcome
<1>10. OneTransaction' /\ RemovesRetained'
  BY <1>1, RetriesStay DEF TakeJob, Retained
<1> QED BY <1>3, <1>6, <1>7, <1>8, <1>9, <1>10 DEF TakeJob, TypeOK, QueueInv

LEMMA MarkRunningQueue ==
  ASSUME TypeOK, QueueInv, NEW w \in Workers, MarkRunning(w) PROVE TypeOK' /\ QueueInv'
<1> DEFINE row == [request EXCEPT !.status = "running", !.attempts = request.attempts + 1]
<1>1. request \in [status : Status \cup {"none"}, attempts : Nat, retries : Nat]
  BY DEF TypeOK, Request, NoRequest
<1>2. request.attempts + 1 \in Nat /\ begun + 1 \in Nat
  BY <1>1 DEF TypeOK
<1>3. row \in Request
  BY <1>1, <1>2 DEF Request, Status
<1>4. request' = row /\ run' = [run EXCEPT ![w] = [run[w] EXCEPT !.pc = "discover", !.copy = row]]
  BY DEF MarkRunning, TypeOK
<1> HIDE DEF row
<1>5. [run[w] EXCEPT !.pc = "discover", !.copy = row] \in Run
  BY <1>3 DEF TypeOK, Run
<1>6. /\ run' \in [Workers -> Run] /\ run'[w].pc = "discover" /\ run'[w].copy \in Request
      /\ run'[w].late = run[w].late /\ run'[w].final = run[w].final
      /\ \A v \in Workers \ {w} : run'[v] = run[v]
  BY <1>3, <1>4, <1>5 DEF TypeOK, Run
<1>7. AttemptsLeft' /\ Ownership'
  BY <1>6, RunGoesOn DEF MarkRunning
<1>8. Progress'
  BY <1>3, <1>4, <1>6 DEF QueueInv, Progress, FailureStatus, HasMarked, HasOutcome
<1>9. OneTransaction' /\ RemovesRetained'
  BY RetriesStay DEF MarkRunning
<1> QED BY <1>2, <1>3, <1>4, <1>6, <1>7, <1>8, <1>9 DEF MarkRunning, TypeOK, QueueInv

LEMMA SaveWritesQueue ==
  ASSUME TypeOK, QueueInv, NEW w \in Workers, SaveWrites(w) PROVE TypeOK' /\ QueueInv'
<1>1. run[w].pc = "write" /\ run[w] \in Run
  BY DEF SaveWrites, TypeOK
<1>2. run[w].copy \in Request /\ request \in Request /\ run[w].copy.status \in {"completed", FailureStatus(w)}
  BY <1>1 DEF QueueInv, Progress, HasMarked, HasOutcome
<1>3. request' \in Request
  BY <1>1, <1>2, SavedType DEF SaveWrites, Run
<1>4. run' \in [Workers -> Run]
  BY GotoType DEF SaveWrites
<1>5. /\ run'[w] = [run[w] EXCEPT !.pc = "finish"] /\ \A v \in Workers \ {w} : run'[v] = run[v]
  BY DEF SaveWrites, Goto, TypeOK
<1>6. /\ run'[w].pc = "finish" /\ run'[w].late = run[w].late /\ run'[w].final = run[w].final
      /\ run'[w].copy = run[w].copy
  BY <1>1, <1>5 DEF Run
<1>7. AttemptsLeft' /\ Ownership'
  BY <1>1, <1>5, <1>6, RunGoesOn DEF SaveWrites
<1>8. Progress'
  BY <1>2, <1>3, <1>5, <1>6 DEF QueueInv, Progress, FailureStatus, HasMarked, HasOutcome
<1>9. OneTransaction' /\ RemovesRetained'
  BY RetriesStay DEF SaveWrites
<1>10. excused' \in BOOLEAN
  BY DEF SaveWrites, TypeOK
<1> QED BY <1>3, <1>4, <1>7, <1>8, <1>9, <1>10 DEF SaveWrites, TypeOK, QueueInv

(* The steps that only move an execution on. *)
LEMMA GoesOnQueue ==
  ASSUME TypeOK, QueueInv, NEW w \in Workers, run[w].pc # "idle", UNCHANGED <<job, request, retry>>,
         \/ Goto(w, "mark")
         \/ run[w].pc = "discover" /\ (SaveAs(w, "completed") \/ SaveAs(w, FailureStatus(w)))
         \/ run[w].pc \in {"read", "write"} /\ SaveAs(w, FailureStatus(w))
         \/ run[w].pc = "read" /\ run' = [run EXCEPT ![w].pc = "write", ![w].base = request]
  PROVE  run' \in [Workers -> Run] /\ QueueInv'
<1>0. run[w] \in Run
  BY DEF TypeOK
<1>1. /\ run' \in [Workers -> Run] /\ \A v \in Workers \ {w} : run'[v] = run[v]
      /\ run'[w].late = run[w].late /\ run'[w].final = run[w].final
      /\ run'[w].pc \in HasMarked => run'[w].copy \in Request /\ request \in Request
      /\ run'[w].pc \in HasOutcome => run'[w].copy.status \in {"completed", FailureStatus(w)}
      /\ run'[w].pc # "idle"
  <2>1. CASE Goto(w, "mark")
    BY <1>0, <2>1, GotoType DEF Goto, TypeOK, Run, HasMarked, HasOutcome
  <2>2. ASSUME NEW status \in {"completed", FailureStatus(w)}, SaveAs(w, status), run[w].pc \in HasMarked
        PROVE  <1>1
    <3>1. run[w].copy \in Request /\ request \in Request /\ status \in Status
      BY <2>2 DEF QueueInv, Progress, FailureStatus, Status
    <3>2. run' \in [Workers -> Run] /\ run'[w].copy \in Request /\ run'[w].copy.status = status
      BY <2>2, <3>1, SaveAsType
    <3>3. /\ \A v \in Workers \ {w} : run'[v] = run[v]
          /\ run'[w].late = run[w].late /\ run'[w].final = run[w].final /\ run'[w].pc = "read"
      BY <1>0, <2>2 DEF SaveAs, TypeOK, Run
    <3> QED BY <3>1, <3>2, <3>3
  <2>3. CASE run[w].pc = "read" /\ run' = [run EXCEPT ![w].pc = "write", ![w].base = request]
    <3>1. [run[w] EXCEPT !.pc = "write", !.base = request] \in Run
      BY DEF TypeOK, Run
    <3>2. run' = [run EXCEPT ![w] = [run[w] EXCEPT !.pc = "write", !.base = request]]
      BY <2>3 DEF TypeOK
    <3>3. /\ run'[w].pc = "write" /\ run'[w].copy = run[w].copy
          /\ run'[w].late = run[w].late /\ run'[w].final = run[w].final
      BY <1>0, <3>2 DEF TypeOK, Run
    <3> QED BY <2>3, <3>1, <3>2, <3>3 DEF TypeOK, QueueInv, Progress, HasMarked, HasOutcome
  <2> QED BY <2>1, <2>2, <2>3 DEF HasMarked
<1>2. AttemptsLeft' /\ Ownership'
  BY <1>1, RunGoesOn
<1>3. Progress'
  BY <1>1 DEF QueueInv, Progress, FailureStatus
<1> QED BY <1>1, <1>2, <1>3, RetriesStay DEF QueueInv

(* The steps that end an execution. *)
LEMMA EndsQueue ==
  ASSUME TypeOK, QueueInv, NEW w \in Workers, run[w].pc # "idle", UNCHANGED <<request, retry>>,
         \/ Throws(w)
         \/ Settle(w, "completed", job.made) /\ Stop(w)
         \/ Stop(w) /\ UNCHANGED job
  PROVE  job' \in Job /\ run' \in [Workers -> Run] /\ QueueInv'
<1>1. /\ run' \in [Workers -> Run] /\ run'[w] = Idle /\ \A v \in Workers \ {w} : run'[v] = run[v]
  BY RecordTypes DEF Throws, Stop, TypeOK
<1>2. job \in Job /\ job.made \in 0 .. MaxAttempts
  BY DEF TypeOK, Job
<1>3. /\ job' \in Job
      /\ run[w].late => job' = job
      /\ job' # job => job'.state \in {"waiting", "failed", "completed"}
                       /\ (job'.state = "waiting" => job'.made < MaxAttempts)
  <2>1. CASE Throws(w)
    BY <2>1, ThrowsType
  <2>2. CASE Settle(w, "completed", job.made)
    <3>1. job' \in Job
      BY <1>2, <2>2, SettleType DEF JobState
    <3>2. job' = IF run[w].late THEN job ELSE [job EXCEPT !.state = "completed", !.made = job.made]
      BY <2>2 DEF Settle
    <3> QED BY <1>2, <3>1, <3>2 DEF Job
  <2>3. CASE UNCHANGED job
    BY <1>2, <2>3
  <2> QED BY <2>1, <2>2, <2>3
<1>4. AttemptsLeft'
  BY <1>3 DEF QueueInv, AttemptsLeft, Executable
<1>5. Ownership' /\ Progress'
  BY <1>1, <1>3, RunEnds DEF RequestStays
<1>6. job.state \in Retained => job' = job
  BY <1>3 DEF QueueInv, Ownership, Holds, Retained, Throws, Settle
<1> QED BY <1>1, <1>3, <1>4, <1>5, <1>6, RetriesStay DEF QueueInv

LEMMA StallQueue == ASSUME TypeOK, QueueInv, StallDetected PROVE TypeOK' /\ QueueInv'
<1>1. job.state = "active" /\ job \in Job /\ job.made < MaxAttempts /\ job.stalled \in 0 .. MaxStalled
  BY DEF StallDetected, TypeOK, QueueInv, AttemptsLeft, Executable, Job
<1>2. /\ job' \in Job /\ job'.state \in {"waiting", "failed"} /\ job'.made = job.made
  <2>1. CASE job.stalled < MaxStalled
    <3>1. job.stalled + 1 \in 0 .. MaxStalled
      BY <1>1, <2>1, DiscoveryAssumption
    <3>2. job' = [job EXCEPT !.state = "waiting", !.stalled = job.stalled + 1]
      BY <2>1 DEF StallDetected
    <3> QED BY <1>1, <3>1, <3>2 DEF Job, JobState
  <2>2. CASE ~ (job.stalled < MaxStalled)
    BY <1>1, <2>2 DEF StallDetected, Job, JobState
  <2> QED BY <2>1, <2>2
<1>3. \A w \in Workers : run'[w] = [run[w] EXCEPT !.late = (run[w].pc # "idle")] /\ run'[w] \in Run
  BY DEF StallDetected, TypeOK, Run
<1>4. run' \in [Workers -> Run]
  <2>1. run' = [w \in Workers |-> [run[w] EXCEPT !.late = (run[w].pc # "idle")]]
    BY DEF StallDetected
  <2> QED BY <1>3, <2>1
<1>5. \A w \in Workers : /\ run'[w].pc = run[w].pc /\ run'[w].copy = run[w].copy
                         /\ run'[w].final = run[w].final /\ run'[w].late = (run[w].pc # "idle")
  BY <1>3 DEF TypeOK, Run
<1>6. Ownership'
  BY <1>5 DEF Ownership, Holds
<1>7. AttemptsLeft'
  BY <1>1, <1>2 DEF AttemptsLeft
<1>8. Progress'
  BY <1>5 DEF StallDetected, QueueInv, Progress, FailureStatus
<1>9. OneTransaction' /\ RemovesRetained'
  BY <1>1, RetriesStay DEF StallDetected, Retained
<1>10. excused' \in BOOLEAN
  BY DEF StallDetected, Excuse, TypeOK
<1> QED BY <1>2, <1>4, <1>6, <1>7, <1>8, <1>9, <1>10 DEF StallDetected, TypeOK, QueueInv

LEMMA WorkerQueue ==
  ASSUME TypeOK, QueueInv, NEW w \in Workers,
         TakeJob(w) \/ WorkerStep(w) \/ BeginFails(w) \/ SaveFails(w) \/ WorkerCrash(w)
  PROVE  TypeOK' /\ QueueInv'
<1>1. CASE TakeJob(w) \/ MarkRunning(w) \/ SaveWrites(w)
  BY <1>1, TakeJobQueue, MarkRunningQueue, SaveWritesQueue
<1>2. CASE Load(w) \/ Discover(w) \/ SaveReads(w) \/ Finish(w) \/ BeginFails(w) \/ SaveFails(w)
           \/ WorkerCrash(w)
  <2>1. /\ run[w].pc # "idle"
        /\ UNCHANGED <<taxonomy, creator, request, retry, asked, begun>> /\ excused' \in BOOLEAN
    BY <1>2 DEF Load, Discover, SaveReads, Finish, BeginFails, SaveFails, WorkerCrash, Excuse, TypeOK
  <2>2. \/ /\ UNCHANGED job
           /\ \/ Goto(w, "mark")
              \/ run[w].pc = "discover" /\ (SaveAs(w, "completed") \/ SaveAs(w, FailureStatus(w)))
              \/ run[w].pc \in {"read", "write"} /\ SaveAs(w, FailureStatus(w))
              \/ run[w].pc = "read" /\ run' = [run EXCEPT ![w].pc = "write", ![w].base = request]
        \/ Throws(w)
        \/ Settle(w, "completed", job.made) /\ Stop(w)
        \/ Stop(w) /\ UNCHANGED job
    BY <1>2 DEF Load, Discover, SaveReads, Finish, BeginFails, SaveFails, WorkerCrash
  <2>3. job' \in Job /\ run' \in [Workers -> Run] /\ QueueInv'
    BY <2>1, <2>2, GoesOnQueue, EndsQueue DEF TypeOK
  <2> QED BY <2>1, <2>3 DEF TypeOK
<1> QED BY <1>1, <1>2 DEF WorkerStep

LEMMA NextQueue == ASSUME TypeOK, QueueInv, [Next]_vars PROVE TypeOK' /\ QueueInv'
<1>1. CASE UNCHANGED <<job, run, request, retry, asked, begun, excused>>
           /\ taxonomy' \in {"absent", "live", "merged"} /\ creator' \in {"unseen", "enqueue", "done"}
  <2>1. TypeOK'
    BY <1>1 DEF TypeOK
  <2>2. OneTransaction' /\ RemovesRetained'
    BY <1>1, RetriesStay
  <2> QED BY <1>1, <2>1, <2>2, QueueStays DEF QueueInv, RequestStays
<1>2. CASE CreateTaxonomy \/ CreatorDies \/ Merge \/ UNCHANGED vars
  BY <1>1, <1>2 DEF CreateTaxonomy, CreatorDies, Merge, vars, TypeOK
<1> QED BY <1>2, JobStepQueue, StallQueue, WorkerQueue, QuietRetryQueue DEF Next, RetryStep

(* The state keeps to its types: among them, no job makes more attempts than *)
(* it has, and every row that a worker or a retry saves is a whole one.      *)
THEOREM DiscoveryTypes == Spec => []TypeOK
<1>1. Init => TypeOK /\ QueueInv
  BY InitQueue
<1>2. TypeOK /\ QueueInv /\ [Next]_vars => (TypeOK /\ QueueInv)'
  BY NextQueue
<1> QED BY <1>1, <1>2, PTL DEF Spec

(***************************************************************************)
(* One execution at a time, unless BullMQ takes the job from a live worker. *)
(***************************************************************************)

LEMMA NextLate ==
  ASSUME ~ LiveStalls, TypeOK, NeverLate, [Next]_vars PROVE NeverLate'
<1>1. CASE UNCHANGED run
  BY <1>1 DEF NeverLate
<1>2. CASE StallDetected
  BY <1>2 DEF StallDetected, Holds, NeverLate, TypeOK, Run
<1>3. ASSUME NEW w \in Workers,
             TakeJob(w) \/ WorkerStep(w) \/ BeginFails(w) \/ SaveFails(w) \/ WorkerCrash(w)
      PROVE  NeverLate'
  <2>1. \A v \in Workers : run'[v].late \in {run[v].late, FALSE}
    <3>1. CASE TakeJob(w)
      BY <3>1 DEF TakeJob, TypeOK, Idle
    <3>2. CASE Stop(w)
      BY <3>2 DEF Stop, TypeOK, Idle
    <3>3. CASE MarkRunning(w)
      BY <3>3 DEF MarkRunning, TypeOK, Run
    <3>4. CASE SaveReads(w)
      BY <3>4 DEF SaveReads, TypeOK, Run
    <3>5. ASSUME NEW pc, Goto(w, pc) PROVE \A v \in Workers : run'[v].late = run[v].late
      BY <3>5 DEF Goto, TypeOK, Run
    <3>6. ASSUME NEW status, SaveAs(w, status) PROVE \A v \in Workers : run'[v].late = run[v].late
      BY <3>6 DEF SaveAs, TypeOK, Run
    <3>7. TakeJob(w) \/ Stop(w) \/ MarkRunning(w) \/ SaveReads(w) \/ (\E pc \in {"mark", "finish"} : Goto(w, pc))
          \/ \E status \in {"completed", FailureStatus(w)} : SaveAs(w, status)
      BY <1>3 DEF WorkerStep, Load, Discover, SaveWrites, Finish, BeginFails, SaveFails, WorkerCrash, Throws
    <3> QED BY <3>1, <3>2, <3>3, <3>4, <3>5, <3>6, <3>7
  <2> QED BY <2>1 DEF NeverLate
<1>4. \A r \in Admins :
        BeginRetry(r) \/ RetryStep(r) \/ RetryAborts(r) \/ ActivateFails(r) \/ RetryDies(r) => UNCHANGED run
  BY DEF BeginRetry, RetryStep, LookAtJob, RemoveRetained, AddRetryJob, RetryCommits, CompensateRetry,
         ActivateRetry, CheckJob, RestoreStatus, RetryAborts, ActivateFails, RetryDies
<1>5. CreateTaxonomy \/ EnqueueDiscovery \/ CreatorDies \/ Merge \/ DelayElapses \/ CancelJob
      \/ UNCHANGED vars => UNCHANGED run
  BY DEF CreateTaxonomy, EnqueueDiscovery, CreatorDies, Merge, DelayElapses, CancelJob, vars
<1> QED BY <1>1, <1>2, <1>3, <1>4, <1>5 DEF Next

(* Retries, stalled jobs and crashed workers never put a second execution    *)
(* beside one that runs.                                                     *)
THEOREM DiscoveriesAreExclusive == ~ LiveStalls => (Spec => []OneDiscovery)
<1> SUFFICES ASSUME ~ LiveStalls PROVE Spec => []OneDiscovery
  OBVIOUS
<1>1. Init => TypeOK /\ QueueInv /\ NeverLate
  BY InitQueue
<1>2. TypeOK /\ QueueInv /\ NeverLate /\ [Next]_vars => (TypeOK /\ QueueInv /\ NeverLate)'
  BY NextQueue, NextLate
<1>3. QueueInv /\ NeverLate => OneDiscovery
  BY DEF QueueInv, Ownership, NeverLate, Holds, OneDiscovery
<1> QED BY <1>1, <1>2, <1>3, PTL DEF Spec

(***************************************************************************)
(* An unfinished request has work.                                         *)
(***************************************************************************)

(* A step that excuses what it leaves without a job. *)
LEMMA ExcusedWork ==
  ASSUME WorkInv, NEW event \in BOOLEAN, Excuse(event), UNCHANGED request,
         job.state \in Executable => job'.state \in Executable \/ event,
         WillRestore => WillRestore' \/ job'.state \in Executable \/ event,
         \A w \in Workers : run'[w].pc = "finish" => run'[w] = run[w]
  PROVE  WorkInv'
BY DEF WorkInv, UnfinishedHasWork, OutcomeShown, Excuse

(* One that excuses nothing. *)
LEMMA WorkStays ==
  ASSUME WorkInv, UNCHANGED <<request, excused>>,
         job.state \in Executable => job'.state \in Executable,
         WillRestore => WillRestore' \/ job'.state \in Executable,
         \A w \in Workers : run'[w].pc = "finish" => run'[w] = run[w]
  PROVE  WorkInv'
BY DEF WorkInv, UnfinishedHasWork, OutcomeShown

LEMMA QueueStepWork ==
  ASSUME ~ LiveStalls, TypeOK, QueueInv, NeverLate, WorkInv,
         \/ CreateTaxonomy \/ CreatorDies \/ Merge \/ UNCHANGED vars
         \/ EnqueueDiscovery \/ DelayElapses \/ CancelJob \/ StallDetected
  PROVE  WorkInv'
<1>0. job \in Job
  BY DEF TypeOK
<1>1. CASE CreateTaxonomy \/ CreatorDies \/ Merge \/ UNCHANGED vars
  BY <1>1, WorkStays DEF CreateTaxonomy, CreatorDies, Merge, vars, WillRestore
<1>2. CASE EnqueueDiscovery \/ DelayElapses
  <2>1. /\ job.state \in Executable => job'.state \in Executable
        /\ job.state = "none" => job'.state \in Executable
    BY <1>0, <1>2 DEF EnqueueDiscovery, DelayElapses, SetState, Added, Executable, Job
  <2> QED BY <1>2, <2>1, WorkStays DEF EnqueueDiscovery, DelayElapses, WillRestore
<1>3. CASE CancelJob
  BY <1>3, ExcusedWork DEF CancelJob
<1>4. CASE StallDetected
  <2>1. job'.state \in {"waiting", "failed"}
    BY <1>0, <1>4 DEF StallDetected, Job
  <2>2. ~ WillRestore
    BY <1>4 DEF StallDetected, WillRestore
  <2>3. \A w \in Workers : run'[w].pc # "finish"
    BY <1>4 DEF StallDetected, Holds, NeverLate, TypeOK, Run
  <2> QED BY <1>4, <2>1, <2>2, <2>3, ExcusedWork DEF StallDetected, Executable
<1> QED BY <1>1, <1>2, <1>3, <1>4

(* What an execution that still holds the job knows. *)
LEMMA HolderKnows ==
  ASSUME TypeOK, QueueInv, NeverLate, NEW w \in Workers, run[w].pc # "idle"
  PROVE  /\ job.state = "active" /\ ~ run[w].late /\ ~ WillRestore
         /\ \A v \in Workers \ {w} : run[v].pc = "idle"
BY DEF QueueInv, Ownership, NeverLate, Holds, WillRestore

LEMMA EndsWork ==
  ASSUME TypeOK, QueueInv, NeverLate, WorkInv, NEW w \in Workers, run[w].pc # "idle",
         Stop(w), UNCHANGED request, ~ WillRestore,
         \/ UNCHANGED <<job, excused>>
         \/ Settle(w, "completed", job.made) /\ Excuse(~ run[w].late)
         \/ Throws(w) /\ Excuse(job'.state = "failed")
  PROVE  WorkInv'
<1>1. \A v \in Workers : run'[v].pc = "finish" => run'[v] = run[v]
  BY DEF Stop, TypeOK, Idle
<1>2. CASE UNCHANGED <<job, excused>>
  BY <1>1, <1>2, WorkStays
<1>3. CASE Excuse(~ run[w].late)
  BY <1>1, <1>3, HolderKnows, ExcusedWork
<1>4. CASE Throws(w) /\ Excuse(job'.state = "failed")
  <2>1. job'.state \in {"waiting", "failed"}
    BY <1>4, HolderKnows, ThrowsType
  <2> QED BY <1>1, <1>4, <2>1, ExcusedWork DEF Executable
<1> QED BY <1>2, <1>3, <1>4

LEMMA FinishWork ==
  ASSUME TypeOK, QueueInv, NeverLate, WorkInv, NEW w \in Workers, Finish(w) PROVE WorkInv'
<1>1. run[w].pc = "finish" /\ run[w].copy.status \in {"completed", FailureStatus(w)}
  BY DEF Finish, QueueInv, Progress, HasOutcome
<1>2. CASE request.status \notin Unfinished \/ excused
  <2>1. \A v \in Workers : run'[v].pc = "finish" => run'[v] = run[v]
    BY DEF Finish, Throws, Stop, TypeOK, Idle
  <2> QED BY <1>2, <2>1 DEF Finish, WorkInv, UnfinishedHasWork, OutcomeShown
<1>3. CASE run[w].copy.status = "queued"
  <2>1. Throws(w) /\ ~ run[w].final
    BY <1>1, <1>3 DEF Finish, FailureStatus
  <2>2. job'.state = "waiting"
    BY <1>1, <2>1, HolderKnows, ThrowsType
  <2>3. \A v \in Workers : run'[v].pc = "finish" => run'[v] = run[v]
    BY <2>1 DEF Throws, Stop, TypeOK, Idle
  <2> QED BY <2>2, <2>3, WorkStays DEF Finish, Executable
<1> QED BY <1>1, <1>2, <1>3 DEF WorkInv, OutcomeShown

LEMMA WorkerWork ==
  ASSUME TypeOK, QueueInv, NeverLate, WorkInv, NEW w \in Workers,
         TakeJob(w) \/ WorkerStep(w) \/ BeginFails(w) \/ SaveFails(w) \/ WorkerCrash(w)
  PROVE  WorkInv'
<1>0. run[w] \in Run /\ job \in Job
  BY DEF TypeOK
<1>1. CASE TakeJob(w)
  <2>1. job'.state \in Executable /\ job.state = "waiting"
    BY <1>0, <1>1 DEF TakeJob, SetState, Job, Executable
  <2>2. \A v \in Workers : run'[v].pc = "finish" => run'[v] = run[v]
    BY <1>1 DEF TakeJob, TypeOK, Idle
  <2> QED BY <1>1, <2>1, <2>2, WorkStays DEF TakeJob, WillRestore
<1>2. CASE Finish(w)
  BY <1>2, FinishWork
<1>3. CASE MarkRunning(w)
  <2>1. \A v \in Workers : run'[v].pc # "finish"
    BY <1>0, <1>3, HolderKnows DEF MarkRunning, TypeOK, Run
  <2> QED BY <1>3, <2>1 DEF MarkRunning, WorkInv, UnfinishedHasWork, OutcomeShown
<1>4. CASE SaveWrites(w)
  <2>1. run'[w].copy = run[w].copy /\ \A v \in Workers \ {w} : run'[v].pc = "idle"
    BY <1>0, <1>4, HolderKnows DEF SaveWrites, Goto, TypeOK, Run
  <2>2. request'.status \in Unfinished /\ ~ excused' =>
          job.state \in Executable /\ request'.status = run[w].copy.status
    BY <1>4 DEF SaveWrites
  <2>3. run[w].copy.status \in {"completed", "failed", "queued"}
    BY <1>4 DEF SaveWrites, QueueInv, Progress, HasOutcome, FailureStatus
  <2> QED BY <1>4, <2>1, <2>2, <2>3 DEF SaveWrites, WorkInv, UnfinishedHasWork, OutcomeShown, Unfinished
<1>5. ASSUME run[w].pc # "idle", UNCHANGED <<job, request, excused, retry>>,
             \/ \E pc \in {"mark", "read"} : Goto(w, pc)
             \/ \E status \in {"completed", FailureStatus(w)} : SaveAs(w, status)
             \/ SaveReads(w)
      PROVE  WorkInv'
  <2>1. run'[w].pc # "finish" /\ \A v \in Workers \ {w} : run'[v] = run[v]
    BY <1>0, <1>5 DEF Goto, SaveAs, SaveReads, TypeOK, Run
  <2> QED BY <1>5, <2>1, WorkStays DEF WillRestore
<1>6. CASE Load(w) \/ BeginFails(w) \/ SaveFails(w) \/ WorkerCrash(w) \/ Discover(w) \/ SaveReads(w)
  BY <1>5, <1>6, EndsWork, HolderKnows
     DEF Load, BeginFails, SaveFails, WorkerCrash, Discover, SaveReads, Throws
<1> QED BY <1>1, <1>2, <1>3, <1>4, <1>6 DEF WorkerStep

LEMMA RetryWork ==
  ASSUME TypeOK, QueueInv, NeverLate, WorkInv, NEW r \in Admins,
         BeginRetry(r) \/ RetryStep(r) \/ RetryAborts(r) \/ ActivateFails(r) \/ RetryDies(r)
  PROVE  WorkInv'
<1> DEFINE Restores(q) == retry[q].pc \in {"activate", "check", "restore"}
<1>0. UNCHANGED run /\ job \in Job
  BY DEF BeginRetry, RetryStep, LookAtJob, RemoveRetained, AddRetryJob, RetryCommits, CompensateRetry,
         ActivateRetry, CheckJob, RestoreStatus, RetryAborts, ActivateFails, RetryDies, TypeOK
<1>1. CASE BeginRetry(r) \/ LookAtJob(r) \/ RetryAborts(r)
  <2>1. UNCHANGED <<job, request, excused>> /\ ~ Restores(r) /\ \A q \in Admins \ {r} : retry'[q] = retry[q]
    BY <1>1 DEF BeginRetry, LookAtJob, RetryAborts, GotoRetry, EndRetry, InTransaction, TypeOK
  <2> QED BY <1>0, <2>1, WorkStays DEF WillRestore
<1>2. CASE RemoveRetained(r)
  <2>1. job.state \in Retained
    BY <1>2 DEF RemoveRetained, QueueInv, RemovesRetained
  <2> QED BY <1>0, <1>2, <2>1, WorkStays DEF RemoveRetained, WillRestore, Retained, Executable
<1>3. CASE AddRetryJob(r)
  <2>1. /\ job.state \in Executable => job'.state \in Executable
        /\ job.state = "none" => job'.state \in Executable
    BY <1>0, <1>3 DEF AddRetryJob, SetState, AddedDelayed, Executable, Job
  <2> QED BY <1>0, <1>3, <2>1, WorkStays DEF AddRetryJob, WillRestore
<1>4. CASE RetryCommits(r)
  <2>1. retry'[r].pc = "activate"
    BY <1>4, GotoRetryMoves DEF RetryCommits
  <2>2. excused' \/ (job.state \notin Retained /\ \A w \in Workers :
                       run[w].pc = "finish" => run[w].copy.status = "queued")
    BY <1>4 DEF RetryCommits, Overtaken, Finishing, NeverLate
  <2> QED BY <1>0, <1>4, <2>1, <2>2
          DEF RetryCommits, WorkInv, UnfinishedHasWork, OutcomeShown, WillRestore, Job, JobState,
              Executable, Retained
<1>5. CASE CompensateRetry(r)
  <2>1. ~ Restores(r) /\ \A q \in Admins \ {r} : retry'[q] = retry[q]
    BY <1>5 DEF CompensateRetry, EndRetry, TypeOK
  <2>2. CASE job.state \in Removable
    BY <1>0, <1>5, <2>2, ExcusedWork DEF CompensateRetry, Excuse
  <2>3. CASE job.state \notin Removable
    <3>1. UNCHANGED <<job, request, excused>>
      BY <1>5, <2>3 DEF CompensateRetry, Excuse, TypeOK
    <3> QED BY <1>0, <2>1, <3>1, WorkStays DEF WillRestore
  <2> QED BY <2>2, <2>3
<1>6. CASE ActivateRetry(r) \/ ActivateFails(r) \/ CheckJob(r)
  <2>1. job.state = "none" => retry'[r].pc \in {"check", "restore"}
    BY <1>6, GotoRetryMoves DEF ActivateRetry, ActivateFails, CheckJob
  <2>2. /\ job.state \in Executable => job'.state \in Executable
        /\ job.state = "none" => job'.state = "none"
    BY <1>0, <1>6 DEF ActivateRetry, ActivateFails, CheckJob, SetState, Promoted, Executable, Job
  <2>3. UNCHANGED <<request, excused>>
    BY <1>6 DEF ActivateRetry, ActivateFails, CheckJob
  <2> QED BY <1>0, <2>1, <2>2, <2>3, WorkStays DEF WillRestore
<1>7. CASE RestoreStatus(r)
  <2>1. request'.status \in Unfinished => excused'
    BY <1>7 DEF RestoreStatus
  <2> QED BY <1>0, <2>1 DEF WorkInv, UnfinishedHasWork, OutcomeShown
<1>8. CASE RetryDies(r)
  <2>1. \A q \in Admins \ {r} : retry'[q] = retry[q]
    BY <1>8, EndRetryMoves DEF RetryDies
  <2> QED BY <1>0, <1>8, <2>1, ExcusedWork DEF RetryDies, WillRestore
<1> QED BY <1>1, <1>2, <1>3, <1>4, <1>5, <1>6, <1>7, <1>8 DEF RetryStep

(* A request shown as queued or running is always somebody's to finish: its  *)
(* job, a retry that lost the job, or an event recorded as an excuse.        *)
THEOREM UnfinishedKeepsWork == ~ LiveStalls => (Spec => []UnfinishedHasWork)
<1> SUFFICES ASSUME ~ LiveStalls PROVE Spec => []UnfinishedHasWork
  OBVIOUS
<1> DEFINE IInv == TypeOK /\ QueueInv /\ NeverLate /\ WorkInv
<1>1. Init => IInv
  <2>1. Init => WorkInv
    BY DEF Init, WorkInv, UnfinishedHasWork, OutcomeShown, NoRequest, Unfinished, Idle
  <2> QED BY <2>1, InitQueue
<1>2. IInv /\ [Next]_vars => IInv'
  <2>1. IInv /\ [Next]_vars => WorkInv'
    BY QueueStepWork, WorkerWork, RetryWork DEF Next
  <2> QED BY <2>1, NextQueue, NextLate
<1>3. IInv => UnfinishedHasWork
  BY DEF WorkInv
<1> QED BY <1>1, <1>2, <1>3, PTL DEF Spec
===========================================================================
