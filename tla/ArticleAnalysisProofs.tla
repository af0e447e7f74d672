----------------------- MODULE ArticleAnalysisProofs -----------------------
(***************************************************************************)
(* Theorems about ArticleAnalysis, for every set of articles, workers,     *)
(* administrators and streams and every attempt and stall limit.           *)
(***************************************************************************)
EXTENDS ArticleAnalysis, TLAPS

(***************************************************************************)
(* The inductive invariant behind every theorem: who owns a job, and what  *)
(* the row lock of a retry's transaction protects.                         *)
(***************************************************************************)

(* Executions and requests under way are about an article. *)
Subjects ==
  /\ \A w \in Workers : worker[w].pc # "idle" => worker[w].article \in Articles
  /\ \A r \in Admins : retry[r].pc # "idle" => retry[r].article \in Articles

(* At most one try block of analyzeArticle encloses runFullAnalysis. *)
Shallow(e) ==
  /\ e.pc \in {"load", "lookup", "raced"} => e.catches = 0
  /\ e.pc \in {"prescreen", "full"} => e.catches <= 1

CatchDepth == \A w \in Workers : Shallow(worker[w])

(* The owner of a job is executing it, and only an active job has an owner. *)
Ownership ==
  \A a \in Articles : owner[a] # None =>
    /\ job[a] = "active"
    /\ worker[owner[a]].pc # "idle"
    /\ worker[owner[a]].article = a

(* A job that can still be executed has attempts left. *)
AttemptsLeft == \A a \in Articles : job[a] \in Executable => attempts[a] < MaxAttempts

(* The row lock admits one retry transaction per article. *)
OneTransaction ==
  \A r, q \in Admins :
    /\ retry[r].pc \in InTransaction /\ retry[q].pc \in InTransaction
    /\ retry[r].article = retry[q].article
    => r = q

(* Nobody revives the finished job a retry is about to remove. *)
RemovesRetained ==
  \A r \in Admins : retry[r].pc = "remove" => job[retry[r].article] \in Retained

QueueInv ==
  /\ TypeOK /\ Subjects /\ CatchDepth /\ Ownership /\ AttemptsLeft
  /\ OneTransaction /\ RemovesRetained

LEMMA InitType == Init => TypeOK
<1> SUFFICES ASSUME Init PROVE TypeOK
  OBVIOUS
<1>1. IdleWorker \in Execution /\ IdleRetry \in Request
  BY DEF IdleWorker, IdleRetry, Execution, Request, WorkerPc, RetryPc, FinalStatus, ArticleStatus
<1> QED BY <1>1, BoundsAssumption DEF Init, TypeOK, Analysis, Membership, JobState

LEMMA IngestType ==
  ASSUME TypeOK, NEW a \in Articles, IngestStep(a) \/ IngestInterrupted(a) \/ Age(a)
  PROVE  TypeOK'
<1>1. CASE CreateArticle(a)
  BY <1>1 DEF TypeOK, CreateArticle, ArticleStatus, queueVars
<1>2. CASE MarkPending(a)
  BY <1>2 DEF TypeOK, MarkPending, ArticleStatus, queueVars
<1>3. CASE EnqueueAnalysis(a)
  BY <1>3, BoundsAssumption
  DEF TypeOK, EnqueueAnalysis, Add, Added, Excuse, Overtaken, Retained, JobState, dbVars
<1>4. CASE IngestInterrupted(a)
  BY <1>4 DEF TypeOK, IngestInterrupted, Excuse, dbVars, queueVars
<1>5. CASE Age(a)
  BY <1>5 DEF TypeOK, Age, queueVars
<1> QED BY <1>1, <1>2, <1>3, <1>4, <1>5 DEF IngestStep

LEMMA StallType == ASSUME TypeOK, NEW a \in Articles, StallDetected(a) PROVE TypeOK'
<1>1. job \in [Articles -> JobState] /\ stalled \in [Articles -> 0 .. MaxStalled]
  BY DEF TypeOK
<1>2. CASE stalled[a] < MaxStalled
  <2>1. stalled' = [stalled EXCEPT ![a] = @ + 1] /\ job' = [job EXCEPT ![a] = "waiting"]
    BY <1>2 DEF StallDetected
  <2>2. stalled[a] + 1 \in 0 .. MaxStalled
    BY <1>1, <1>2, BoundsAssumption
  <2>3. stalled' \in [Articles -> 0 .. MaxStalled] /\ job' \in [Articles -> JobState]
    BY <1>1, <2>1, <2>2 DEF JobState
  <2>4. excused' \in [Articles -> BOOLEAN]
    BY <1>2 DEF TypeOK, StallDetected
  <2>5. owner' \in [Articles -> Workers \cup {None}]
    BY DEF TypeOK, StallDetected
  <2> QED BY <2>3, <2>4, <2>5 DEF TypeOK, StallDetected, dbVars
<1>3. CASE ~ (stalled[a] < MaxStalled)
  <2>1. stalled' = stalled /\ job' = [job EXCEPT ![a] = "failed"]
    BY <1>3 DEF StallDetected
  <2>2. stalled' \in [Articles -> 0 .. MaxStalled] /\ job' \in [Articles -> JobState]
    BY <1>1, <2>1 DEF JobState
  <2>3. excused' \in [Articles -> BOOLEAN]
    BY <1>3 DEF TypeOK, StallDetected, Excuse
  <2>4. owner' \in [Articles -> Workers \cup {None}]
    BY DEF TypeOK, StallDetected
  <2> QED BY <2>2, <2>3, <2>4 DEF TypeOK, StallDetected, dbVars
<1> QED BY <1>2, <1>3

LEMMA QueueType ==
  ASSUME TypeOK, NEW a \in Articles, DelayElapses(a) \/ StallDetected(a) \/ CancelJob(a)
  PROVE  TypeOK'
<1>1. CASE DelayElapses(a)
  BY <1>1 DEF TypeOK, DelayElapses, JobState, dbVars
<1>2. CASE CancelJob(a)
  BY <1>2 DEF TypeOK, CancelJob, Excuse, Withdrawn, JobState, dbVars
<1> QED BY <1>1, <1>2, StallType

(* What the steps of an execution assign keeps worker well-typed. *)
LEMMA GotoType ==
  ASSUME TypeOK, NEW w \in Workers, NEW pc \in WorkerPc, Goto(w, pc)
  PROVE  worker' \in [Workers -> Execution]
<1>1. worker \in [Workers -> Execution]
  BY DEF TypeOK
<1>2. [worker[w] EXCEPT !.pc = pc] \in Execution
  BY <1>1 DEF Execution
<1>3. worker' = [worker EXCEPT ![w] = [worker[w] EXCEPT !.pc = pc]]
  BY <1>1 DEF Goto
<1> QED BY <1>1, <1>2, <1>3

LEMMA EnterType ==
  ASSUME TypeOK, NEW w \in Workers, NEW pc \in WorkerPc, NEW n \in 0 .. 2, Enter(w, pc, n)
  PROVE  worker' \in [Workers -> Execution]
<1>1. worker \in [Workers -> Execution]
  BY DEF TypeOK
<1>2. [worker[w] EXCEPT !.pc = pc, !.catches = n] \in Execution
  BY <1>1 DEF Execution
<1>3. worker' = [worker EXCEPT ![w] = [worker[w] EXCEPT !.pc = pc, !.catches = n]]
  BY <1>1 DEF Enter
<1> QED BY <1>1, <1>2, <1>3

LEMMA GotoWriteType ==
  ASSUME TypeOK, NEW w \in Workers, NEW t \in FinalStatus, NEW n \in 0 .. 2, GotoWrite(w, t, n)
  PROVE  worker' \in [Workers -> Execution]
BY DEF TypeOK, GotoWrite, Execution, WorkerPc

LEMMA LeaveType ==
  ASSUME TypeOK, NEW w \in Workers, Leave(w)
  PROVE  worker' \in [Workers -> Execution]
BY DEF TypeOK, Leave, IdleWorker, Execution, WorkerPc, FinalStatus

LEMMA WorkerType ==
  ASSUME QueueInv, NEW w \in Workers,
         WorkerStep(w) \/ WorkerFault(w) \/ \E a \in Articles : TakeJob(w, a)
  PROVE  TypeOK'
<1> USE DEF dbVars, queueVars
<1>0. TypeOK /\ worker[w].pc \in WorkerPc /\ worker[w].catches \in 0 .. 2
  BY DEF QueueInv, TypeOK, Execution
<1>1. ASSUME NEW a \in Articles, TakeJob(w, a) PROVE TypeOK'
  <2>1. worker' \in [Workers -> Execution]
    BY <1>0, <1>1 DEF TakeJob, TypeOK, Execution, WorkerPc, FinalStatus
  <2> QED BY <1>0, <1>1, <2>1 DEF TypeOK, TakeJob, JobState
<1>2. CASE LoadArticle(w) \/ LookupAnalysis(w) \/ ResumeAfterRace(w) \/ PrescreenFails(w)
  <2>1. worker' \in [Workers -> Execution]
    BY <1>0, <1>2, GotoType, EnterType, GotoWriteType
    DEF LoadArticle, LookupAnalysis, ResumeAfterRace, PrescreenFails, WorkerPc, FinalStatus
  <2> QED BY <1>0, <1>2, <2>1
          DEF TypeOK, LoadArticle, LookupAnalysis, ResumeAfterRace, PrescreenFails
<1>3. CASE Prescreen(w)
  <2>1. worker' \in [Workers -> Execution]
    BY <1>0, <1>3, GotoType, EnterType, GotoWriteType
    DEF Prescreen, WorkerPc, FinalStatus
  <2> DEFINE a == worker[w].article
  <2>a. PICK verdict \in {"rejected", "relevant"} :
          analysis' = [analysis EXCEPT ![a] = PrescreenVerdict(@, verdict)]
    BY <1>3, Zenon DEF Prescreen
  <2>b. analysis \in [Articles -> Analysis]
    BY <1>0 DEF TypeOK
  <2>c. \A row \in Analysis : PrescreenVerdict(row, verdict) \in Analysis
    BY DEF PrescreenVerdict, Analysis
  <2>2. analysis' \in [Articles -> Analysis]
    BY <2>a, <2>b, <2>c
  <2> QED BY <1>0, <1>3, <2>1, <2>2 DEF TypeOK, Prescreen
<1>4. CASE RunFullAnalysis(w)
  <2>1. worker[w].catches + 1 \in 0 .. 2
    BY <1>0, <1>4 DEF QueueInv, CatchDepth, Shallow, RunFullAnalysis
  <2>2. worker' \in [Workers -> Execution]
    BY <1>0, <1>4, <2>1, GotoWriteType DEF RunFullAnalysis, FinalStatus
  <2> DEFINE a == worker[w].article
  <2>3. analysis' \in [Articles -> Analysis]
    BY <1>0, <1>4 DEF TypeOK, RunFullAnalysis, Analysis
  <2>4. PICK main \in Streams \cup {None}, secondary \in SUBSET Streams :
          /\ streams' = [streams EXCEPT ![a] = Upserted(@, main, secondary)]
          /\ mainStream' = [mainStream EXCEPT ![a] = main]
    BY <1>4 DEF RunFullAnalysis
  <2>5. mainStream' \in [Articles -> Streams \cup {None}]
    BY <1>0, <2>4 DEF TypeOK
  <2>6. a \in Articles
    BY <1>4 DEF QueueInv, Subjects, RunFullAnalysis
  <2>7. Upserted(streams[a], main, secondary) \in [Streams -> Membership]
    BY <1>0, <2>6 DEF TypeOK, Upserted, Membership
  <2>8. streams' \in [Articles -> [Streams -> Membership]]
    BY <1>0, <2>4, <2>6, <2>7 DEF TypeOK
  <2> QED BY <1>0, <1>4, <2>2, <2>3, <2>5, <2>8 DEF TypeOK, RunFullAnalysis
<1>5. CASE FullAnalysisFails(w) \/ WriteFails(w)
  <2>1. worker' \in [Workers -> Execution]
    BY <1>0, <1>5, GotoWriteType DEF FullAnalysisFails, WriteFails, FinalStatus
  <2> QED BY <1>0, <1>5, <2>1 DEF TypeOK, FullAnalysisFails, WriteFails
<1>6. CASE WriteStatus(w)
  <2>1. worker' \in [Workers -> Execution]
    BY <1>0, <1>6, GotoType DEF WriteStatus, WorkerPc
  <2>2. status' \in [Articles -> ArticleStatus \cup {"absent"}]
    BY <1>0, <1>6 DEF TypeOK, WriteStatus, Execution, ArticleStatus, FinalStatus
  <2>3. excused' \in [Articles -> BOOLEAN]
    BY <1>0, <1>6 DEF TypeOK, WriteStatus
  <2> QED BY <1>0, <1>6, <2>1, <2>2, <2>3 DEF TypeOK, WriteStatus
<1>7. CASE JobCompletes(w) \/ WorkerCrash(w)
  <2>1. worker' \in [Workers -> Execution]
    BY <1>0, <1>7, LeaveType DEF JobCompletes, WorkerCrash
  <2>2. job' \in [Articles -> JobState] /\ owner' \in [Articles -> Workers \cup {None}]
    BY <1>0, <1>7 DEF TypeOK, JobCompletes, WorkerCrash, JobState
  <2> QED BY <1>0, <1>7, <2>1, <2>2 DEF TypeOK, JobCompletes, WorkerCrash
<1>8. CASE JobThrows(w)
  <2>1. worker' \in [Workers -> Execution]
    BY <1>0, <1>8, LeaveType DEF JobThrows
  <2> DEFINE a == worker[w].article
  <2>2. a \in Articles
    BY <1>8 DEF QueueInv, Subjects, JobThrows
  <2>3. CASE owner[a] = w
    <3>a. attempts[a] < MaxAttempts
      BY <2>2, <2>3, NoneAssumption DEF QueueInv, Ownership, AttemptsLeft, Executable
    <3>1. attempts[a] + 1 \in 0 .. MaxAttempts
      BY <1>0, <2>2, <3>a, BoundsAssumption DEF TypeOK
    <3>2. attempts' = [attempts EXCEPT ![a] = @ + 1]
      BY <1>8, <2>3 DEF JobThrows
    <3>3. attempts' \in [Articles -> 0 .. MaxAttempts]
      BY <1>0, <3>1, <3>2 DEF TypeOK
    <3>4. job' \in [Articles -> JobState]
      BY <1>0, <1>8, <2>3 DEF TypeOK, JobThrows, AfterThrow, JobState
    <3>5. owner' \in [Articles -> Workers \cup {None}]
      BY <1>0, <1>8, <2>3 DEF TypeOK, JobThrows
    <3>6. excused' \in [Articles -> BOOLEAN]
      BY <1>0, <1>8, <2>3 DEF TypeOK, JobThrows, Excuse
    <3> QED BY <1>0, <1>8, <2>1, <3>3, <3>4, <3>5, <3>6 DEF TypeOK, JobThrows
  <2>4. CASE owner[a] # w
    BY <1>0, <1>8, <2>1, <2>4 DEF TypeOK, JobThrows
  <2> QED BY <2>3, <2>4
<1> QED BY <1>1, <1>2, <1>3, <1>4, <1>5, <1>6, <1>7, <1>8 DEF WorkerStep, WorkerFault

LEMMA RetryType ==
  ASSUME QueueInv, NEW r \in Admins,
         RetryStep(r) \/ RetryFault(r) \/ \E a \in Articles : BeginRetry(r, a)
  PROVE  TypeOK'
<1> USE DEF dbVars, queueVars
<1>0. TypeOK
  BY DEF QueueInv
<1>1. ASSUME NEW pc \in RetryPc, GotoRetry(r, pc) PROVE retry' \in [Admins -> Request]
  BY <1>0, <1>1 DEF TypeOK, GotoRetry, Request
<1>2. ASSUME EndRetry(r) PROVE retry' \in [Admins -> Request]
  BY <1>0, <1>2 DEF TypeOK, EndRetry, Request, IdleRetry, RetryPc, ArticleStatus
<1>3. ASSUME NEW a \in Articles, BeginRetry(r, a) PROVE TypeOK'
  <2>1. status[a] \in ArticleStatus
    BY <1>0, <1>3 DEF TypeOK, BeginRetry
  <2>2. retry' \in [Admins -> Request]
    BY <1>0, <1>3, <2>1 DEF TypeOK, BeginRetry, Request, RetryPc
  <2> QED BY <1>0, <1>3, <2>2 DEF TypeOK, BeginRetry
<1>4. CASE LookAtJob(r) \/ CheckJob(r) \/ RetryAborts(r) \/ ActivateFails(r)
  <2>1. retry' \in [Admins -> Request]
    BY <1>0, <1>1, <1>2, <1>4 DEF LookAtJob, CheckJob, RetryAborts, ActivateFails, RetryPc
  <2> QED BY <1>0, <1>4, <2>1 DEF TypeOK, LookAtJob, CheckJob, RetryAborts, ActivateFails
<1>5. CASE RemoveRetained(r)
  <2>1. retry' \in [Admins -> Request]
    BY <1>0, <1>1, <1>5 DEF RemoveRetained, RetryPc
  <2> QED BY <1>0, <1>5, <2>1 DEF TypeOK, RemoveRetained, JobState
<1>6. CASE AddRetryJob(r)
  <2>0. retry \in [Admins -> Request]
    BY <1>0 DEF TypeOK
  <2>a. [retry[r] EXCEPT !.pc = "commit", !.created = TRUE] \in Request
    BY <2>0 DEF Request, RetryPc
  <2>b. retry' = [retry EXCEPT ![r] = [retry[r] EXCEPT !.pc = "commit", !.created = TRUE]]
    BY <1>6, <2>0 DEF AddRetryJob
  <2>1. retry' \in [Admins -> Request]
    BY <2>0, <2>a, <2>b
  <2>2. retry[r].article \in Articles
    BY <1>6 DEF QueueInv, Subjects, AddRetryJob
  <2>3. job' \in [Articles -> JobState]
    BY <1>0, <1>6, <2>2 DEF TypeOK, AddRetryJob, Add, AddedDelayed, JobState
  <2>4. attempts' \in [Articles -> 0 .. MaxAttempts] /\ stalled' \in [Articles -> 0 .. MaxStalled]
    BY <1>0, <1>6, <2>2, BoundsAssumption DEF TypeOK, AddRetryJob, Add
  <2> QED BY <1>0, <1>6, <2>1, <2>3, <2>4 DEF TypeOK, AddRetryJob
<1>7. CASE RetryCommits(r)
  <2>1. retry' \in [Admins -> Request]
    BY <1>0, <1>1, <1>7 DEF RetryCommits, RetryPc
  <2>2. excused' \in [Articles -> BOOLEAN]
    BY <1>0, <1>7 DEF TypeOK, RetryCommits, Overtaken
  <2> QED BY <1>0, <1>7, <2>1, <2>2 DEF TypeOK, RetryCommits, ArticleStatus
<1>8. CASE CompensateRetry(r) \/ ActivateRetry(r)
  <2>1. retry' \in [Admins -> Request]
    BY <1>0, <1>1, <1>2, <1>8 DEF CompensateRetry, ActivateRetry, RetryPc
  <2>2. job' \in [Articles -> JobState]
    <3>1. job \in [Articles -> JobState]
      BY <1>0 DEF TypeOK
    <3>2. \A s \in JobState : Withdrawn(s) \in JobState /\ Promoted(s) \in JobState
      BY DEF Withdrawn, Promoted, JobState
    <3> QED BY <1>8, <3>1, <3>2 DEF CompensateRetry, ActivateRetry
  <2>3. excused' \in [Articles -> BOOLEAN]
    BY <1>0, <1>8 DEF TypeOK, CompensateRetry, ActivateRetry, Excuse
  <2> QED BY <1>0, <1>8, <2>1, <2>2, <2>3 DEF TypeOK, CompensateRetry, ActivateRetry
<1>9. CASE RestoreStatus(r)
  <2>1. retry' \in [Admins -> Request]
    BY <1>0, <1>2, <1>9 DEF RestoreStatus
  <2>2. retry[r].previous \in ArticleStatus
    BY <1>0 DEF TypeOK, Request
  <2>3. status' \in [Articles -> ArticleStatus \cup {"absent"}]
    BY <1>0, <1>9, <2>2 DEF TypeOK, RestoreStatus, Restored
  <2>4. excused' \in [Articles -> BOOLEAN]
    BY <1>0, <1>9 DEF TypeOK, RestoreStatus
  <2> QED BY <1>0, <1>9, <2>1, <2>3, <2>4 DEF TypeOK, RestoreStatus
<1>10. CASE RetryDies(r)
  <2>1. retry' \in [Admins -> Request]
    BY <1>0, <1>2, <1>10 DEF RetryDies
  <2>2. excused' \in [Articles -> BOOLEAN]
    BY <1>0, <1>10 DEF TypeOK, RetryDies, Excuse
  <2> QED BY <1>0, <1>10, <2>1, <2>2 DEF TypeOK, RetryDies
<1> QED BY <1>3, <1>4, <1>5, <1>6, <1>7, <1>8, <1>9, <1>10 DEF RetryStep, RetryFault

LEMMA NextType == QueueInv /\ [Next]_vars => TypeOK'
<1>1. ASSUME QueueInv, UNCHANGED vars PROVE TypeOK'
  BY <1>1 DEF QueueInv, TypeOK, vars, dbVars, queueVars
<1>2. ASSUME QueueInv, Next PROVE TypeOK'
  BY <1>2, IngestType, QueueType, WorkerType, RetryType DEF Next, QueueInv
<1> QED BY <1>1, <1>2

-----------------------------------------------------------------------------
(* The other conjuncts of the invariant, actor by actor. *)

ArticleStep(a) ==
  \/ IngestStep(a) \/ IngestInterrupted(a) \/ Age(a)
  \/ DelayElapses(a) \/ StallDetected(a) \/ CancelJob(a)

LEMMA ByActor ==
  Next => \/ \E a \in Articles : ArticleStep(a)
          \/ \E w \in Workers : WorkerStep(w) \/ WorkerFault(w) \/ \E a \in Articles : TakeJob(w, a)
          \/ \E r \in Admins : RetryStep(r) \/ RetryFault(r) \/ \E a \in Articles : BeginRetry(r, a)
BY DEF Next, ArticleStep

(* What each actor leaves alone. *)
LEMMA ArticleFrame == ASSUME NEW a \in Articles, ArticleStep(a) PROVE UNCHANGED <<worker, retry>>
BY DEF ArticleStep, IngestStep, CreateArticle, MarkPending, EnqueueAnalysis, IngestInterrupted,
       Age, DelayElapses, StallDetected, CancelJob

LEMMA WorkerFrame ==
  ASSUME NEW w \in Workers,
         WorkerStep(w) \/ WorkerFault(w) \/ \E a \in Articles : TakeJob(w, a)
  PROVE  UNCHANGED <<retry, ingest>>
BY DEF WorkerStep, WorkerFault, TakeJob, LoadArticle, LookupAnalysis, Prescreen, ResumeAfterRace,
       RunFullAnalysis, WriteStatus, JobCompletes, PrescreenFails, FullAnalysisFails, WriteFails,
       JobThrows, WorkerCrash

LEMMA RetryFrame ==
  ASSUME NEW r \in Admins,
         RetryStep(r) \/ RetryFault(r) \/ \E a \in Articles : BeginRetry(r, a)
  PROVE  UNCHANGED <<worker, ingest, owner, analysis, mainStream, streams>>
BY DEF RetryStep, RetryFault, BeginRetry, LookAtJob, RemoveRetained, AddRetryJob, RetryCommits,
       CompensateRetry, ActivateRetry, CheckJob, RestoreStatus, RetryAborts, ActivateFails,
       RetryDies, queueVars, dbVars

(* Every step of an execution keeps its article or ends it. *)
LEMMA WorkerMoves ==
  ASSUME TypeOK, NEW w \in Workers, WorkerStep(w) \/ WorkerFault(w)
  PROVE  /\ worker[w].pc # "idle"
         /\ \A v \in Workers \ {w} : worker'[v] = worker[v]
         /\ worker'[w].pc = "idle" \/ worker'[w].article = worker[w].article
<1> USE DEF TypeOK, Execution, Goto, Enter, GotoWrite, Leave, IdleWorker
<1>1. CASE LoadArticle(w) \/ LookupAnalysis(w) \/ ResumeAfterRace(w) \/ PrescreenFails(w)
  BY <1>1 DEF LoadArticle, LookupAnalysis, ResumeAfterRace, PrescreenFails
<1>2. CASE Prescreen(w)
  BY <1>2 DEF Prescreen
<1>3. CASE RunFullAnalysis(w) \/ FullAnalysisFails(w) \/ WriteStatus(w) \/ WriteFails(w)
  BY <1>3 DEF RunFullAnalysis, FullAnalysisFails, WriteStatus, WriteFails
<1>4. CASE JobCompletes(w) \/ JobThrows(w) \/ WorkerCrash(w)
  BY <1>4 DEF JobCompletes, JobThrows, WorkerCrash
<1> QED BY <1>1, <1>2, <1>3, <1>4 DEF WorkerStep, WorkerFault

LEMMA RetryMoves ==
  ASSUME TypeOK, NEW r \in Admins, RetryStep(r) \/ RetryFault(r)
  PROVE  /\ retry[r].pc # "idle"
         /\ \A q \in Admins \ {r} : retry'[q] = retry[q]
         /\ retry'[r].pc = "idle" \/ retry'[r].article = retry[r].article
         /\ retry'[r].pc \in InTransaction => retry[r].pc \in InTransaction
         /\ retry'[r].pc = "remove" => LookAtJob(r)
<1> USE DEF TypeOK, Request, GotoRetry, EndRetry, IdleRetry, InTransaction
<1>1. CASE LookAtJob(r) \/ CheckJob(r) \/ RetryAborts(r) \/ ActivateFails(r)
  BY <1>1 DEF LookAtJob, CheckJob, RetryAborts, ActivateFails
<1>2. CASE RemoveRetained(r) \/ AddRetryJob(r) \/ RetryCommits(r)
  BY <1>2 DEF RemoveRetained, AddRetryJob, RetryCommits
<1>3. CASE CompensateRetry(r) \/ ActivateRetry(r) \/ RestoreStatus(r) \/ RetryDies(r)
  BY <1>3 DEF CompensateRetry, ActivateRetry, RestoreStatus, RetryDies
<1> QED BY <1>1, <1>2, <1>3 DEF RetryStep, RetryFault

LEMMA NextSubjects == ASSUME QueueInv, Next PROVE Subjects'
<1>0. TypeOK /\ Subjects
  BY DEF QueueInv
<1>1. CASE \E a \in Articles : ArticleStep(a)
  BY <1>0, <1>1, ArticleFrame DEF Subjects
<1>2. ASSUME NEW w \in Workers, WorkerStep(w) \/ WorkerFault(w) PROVE Subjects'
  BY <1>0, <1>2, WorkerMoves, WorkerFrame DEF Subjects
<1>3. ASSUME NEW w \in Workers, NEW a \in Articles, TakeJob(w, a) PROVE Subjects'
  BY <1>0, <1>3 DEF Subjects, TakeJob, TypeOK
<1>4. ASSUME NEW r \in Admins, RetryStep(r) \/ RetryFault(r) PROVE Subjects'
  BY <1>0, <1>4, RetryMoves, RetryFrame DEF Subjects
<1>5. ASSUME NEW r \in Admins, NEW a \in Articles, BeginRetry(r, a) PROVE Subjects'
  BY <1>0, <1>5 DEF Subjects, BeginRetry, TypeOK
<1> QED BY <1>1, <1>2, <1>3, <1>4, <1>5, ByActor

LEMMA NextCatchDepth == ASSUME QueueInv, Next PROVE CatchDepth'
<1>0. TypeOK /\ CatchDepth
  BY DEF QueueInv
<1>1. CASE \E a \in Articles : ArticleStep(a)
  BY <1>0, <1>1, ArticleFrame DEF CatchDepth
<1>2. ASSUME NEW w \in Workers, NEW a \in Articles, TakeJob(w, a) PROVE CatchDepth'
  BY <1>0, <1>2 DEF CatchDepth, Shallow, TakeJob, TypeOK
<1>3. CASE \E r \in Admins : RetryStep(r) \/ RetryFault(r) \/ \E a \in Articles : BeginRetry(r, a)
  BY <1>0, <1>3, RetryFrame DEF CatchDepth
<1>4. ASSUME NEW w \in Workers, WorkerStep(w) \/ WorkerFault(w) PROVE CatchDepth'
  <2> SUFFICES Shallow(worker'[w])
    BY <1>0, <1>4, WorkerMoves DEF CatchDepth
  <2>0. worker \in [Workers -> Execution] /\ Shallow(worker[w])
    BY <1>0 DEF TypeOK, CatchDepth
  <2>a. ASSUME NEW pc \in {"lookup", "full", "finish"}, Goto(w, pc),
               pc = "lookup" => worker[w].catches = 0,
               pc = "full" => worker[w].catches <= 1
        PROVE  Shallow(worker'[w])
    BY <2>0, <2>a DEF Goto, Execution, Shallow
  <2>b. ASSUME NEW t, NEW n, GotoWrite(w, t, n) PROVE Shallow(worker'[w])
    BY <2>0, <2>b DEF GotoWrite, Shallow
  <2>c. ASSUME Enter(w, "prescreen", 1) \/ Enter(w, "raced", 0) PROVE Shallow(worker'[w])
    BY <2>0, <2>c DEF Enter, Execution, Shallow
  <2>d. ASSUME Leave(w) PROVE Shallow(worker'[w])
    BY <2>0, <2>d DEF Leave, IdleWorker, Shallow
  <2>e. worker[w].pc \in {"load", "lookup", "raced"} => worker[w].catches = 0 /\ 0 <= 1
    BY <2>0 DEF Shallow
  <2>1. CASE LoadArticle(w) \/ LookupAnalysis(w)
    BY <2>1, <2>a, <2>b, <2>c, <2>e DEF LoadArticle, LookupAnalysis
  <2>3. CASE ResumeAfterRace(w) \/ PrescreenFails(w)
    BY <2>3, <2>a, <2>b, <2>e DEF ResumeAfterRace, PrescreenFails
  <2>4. CASE Prescreen(w)
    BY <2>4, <2>0, <2>a, <2>b, <2>c DEF Prescreen, Shallow
  <2>5. CASE RunFullAnalysis(w) \/ FullAnalysisFails(w) \/ WriteStatus(w) \/ WriteFails(w)
    BY <2>5, <2>a, <2>b DEF RunFullAnalysis, FullAnalysisFails, WriteStatus, WriteFails
  <2>6. CASE JobCompletes(w) \/ JobThrows(w) \/ WorkerCrash(w)
    BY <2>6, <2>d DEF JobCompletes, JobThrows, WorkerCrash
  <2> QED BY <1>4, <2>1, <2>3, <2>4, <2>5, <2>6 DEF WorkerStep, WorkerFault
<1> QED BY <1>1, <1>2, <1>3, <1>4, ByActor

LEMMA NextOneTransaction == ASSUME QueueInv, Next PROVE OneTransaction'
<1>0. TypeOK /\ OneTransaction /\ Subjects
  BY DEF QueueInv
<1>1. CASE \E a \in Articles : ArticleStep(a)
  BY <1>0, <1>1, ArticleFrame DEF OneTransaction
<1>2. CASE \E w \in Workers : WorkerStep(w) \/ WorkerFault(w) \/ \E a \in Articles : TakeJob(w, a)
  BY <1>0, <1>2, WorkerFrame DEF OneTransaction
<1>3. ASSUME NEW r \in Admins, RetryStep(r) \/ RetryFault(r) PROVE OneTransaction'
  BY <1>0, <1>3, RetryMoves DEF OneTransaction, InTransaction
<1>4. ASSUME NEW r \in Admins, NEW a \in Articles, BeginRetry(r, a) PROVE OneTransaction'
  BY <1>0, <1>4 DEF OneTransaction, BeginRetry, Locked, TypeOK, InTransaction
<1> QED BY <1>1, <1>2, <1>3, <1>4, ByActor

LEMMA NextRemovesRetained == ASSUME QueueInv, Next PROVE RemovesRetained'
<1>0. TypeOK /\ Subjects /\ RemovesRetained /\ OneTransaction /\ Ownership
  BY DEF QueueInv
<1> USE DEF RemovesRetained, Retained
<1>1. ASSUME NEW a \in Articles, ArticleStep(a) PROVE RemovesRetained'
  <2>1. job[a] \in Retained => job'[a] = job[a]
    BY <1>0, <1>1
    DEF ArticleStep, IngestStep, CreateArticle, MarkPending, EnqueueAnalysis, IngestInterrupted,
        Age, DelayElapses, StallDetected, CancelJob, Add, Added, Removable, queueVars, TypeOK
  <2>2. \A b \in Articles \ {a} : job'[b] = job[b]
    BY <1>0, <1>1
    DEF ArticleStep, IngestStep, CreateArticle, MarkPending, EnqueueAnalysis, IngestInterrupted,
        Age, DelayElapses, StallDetected, CancelJob, Add, queueVars, TypeOK
  <2> QED BY <1>0, <1>1, <2>1, <2>2, ArticleFrame DEF Subjects
<1>2. ASSUME NEW w \in Workers, WorkerStep(w) \/ WorkerFault(w) \/ \E a \in Articles : TakeJob(w, a)
      PROVE  RemovesRetained'
  <2>1. \A b \in Articles : job[b] \in Retained => job'[b] = job[b]
    BY <1>0, <1>2, NoneAssumption
    DEF WorkerStep, WorkerFault, TakeJob, LoadArticle, LookupAnalysis, Prescreen, ResumeAfterRace,
        RunFullAnalysis, WriteStatus, JobCompletes, PrescreenFails, FullAnalysisFails, WriteFails,
        JobThrows, WorkerCrash, queueVars, TypeOK, Ownership
  <2> QED BY <1>0, <1>2, <2>1, WorkerFrame DEF Subjects
<1>3. ASSUME NEW r \in Admins, RetryStep(r) \/ RetryFault(r) PROVE RemovesRetained'
  <2> DEFINE b == retry[r].article
  <2>1. \A c \in Articles \ {b} : job'[c] = job[c]
    BY <1>0, <1>3
    DEF RetryStep, RetryFault, LookAtJob, RemoveRetained, AddRetryJob, RetryCommits, Add,
        CompensateRetry, ActivateRetry, CheckJob, RestoreStatus, RetryAborts, ActivateFails,
        RetryDies, queueVars, TypeOK
  <2>2. job[b] \in Retained => job'[b] = job[b] \/ RemoveRetained(r)
    BY <1>0, <1>3
    DEF RetryStep, RetryFault, LookAtJob, AddRetryJob, RetryCommits, Add, AddedDelayed,
        CompensateRetry, ActivateRetry, CheckJob, RestoreStatus, RetryAborts, ActivateFails,
        RetryDies, queueVars, TypeOK, Withdrawn, Promoted, Removable
  <2>3. LookAtJob(r) => job' = job /\ (retry'[r].pc = "remove" => job[b] \in Retained)
    BY <1>0 DEF LookAtJob, queueVars, GotoRetry, TypeOK, Request
  <2>4. ASSUME NEW q \in Admins, retry'[q].pc = "remove"
        PROVE  job'[retry'[q].article] \in Retained
    <3>1. CASE q = r
      BY <1>0, <1>3, <2>3, <2>4, <3>1, RetryMoves
    <3>2. CASE q # r
      <4>1. retry'[q] = retry[q] /\ retry[q].article \in Articles /\ job[retry[q].article] \in Retained
        BY <1>0, <1>3, <2>4, <3>2, RetryMoves DEF Subjects
      <4>2. RemoveRetained(r) => retry[q].article # b
        BY <1>0, <2>4, <3>2, <4>1 DEF OneTransaction, InTransaction, RemoveRetained
      <4> QED BY <2>1, <2>2, <4>1, <4>2
    <3> QED BY <3>1, <3>2
  <2> QED BY <2>4
<1>4. ASSUME NEW r \in Admins, NEW a \in Articles, BeginRetry(r, a) PROVE RemovesRetained'
  BY <1>0, <1>4 DEF BeginRetry, queueVars, TypeOK
<1> QED BY <1>1, <1>2, <1>3, <1>4, ByActor

LEMMA NextOwnership == ASSUME QueueInv, Next PROVE Ownership'
<1>0. TypeOK /\ Subjects /\ RemovesRetained /\ Ownership
  BY DEF QueueInv
<1> USE NoneAssumption DEF Ownership, TypeOK
<1>1. ASSUME NEW a \in Articles, ArticleStep(a) PROVE Ownership'
  <2>1. CASE IngestStep(a) \/ IngestInterrupted(a) \/ Age(a)
    BY <1>0, <2>1 DEF IngestStep, CreateArticle, MarkPending, EnqueueAnalysis, Add, Added,
                      IngestInterrupted, Age, dbVars, queueVars
  <2>2. CASE DelayElapses(a) \/ CancelJob(a)
    <3>1. owner' = owner /\ worker' = worker /\ owner[a] = None
      BY <1>0, <2>2 DEF DelayElapses, CancelJob, Removable
    <3>2. \A b \in Articles \ {a} : job'[b] = job[b]
      BY <1>0, <2>2 DEF DelayElapses, CancelJob
    <3>3. ASSUME NEW b \in Articles, owner[b] # None PROVE job'[b] = "active"
      BY <1>0, <3>1, <3>2, <3>3
    <3> QED BY <1>0, <3>1, <3>3
  <2>3. CASE StallDetected(a)
    <3>1. owner' = [owner EXCEPT ![a] = None] /\ worker' = worker
      BY <1>0, <2>3 DEF StallDetected
    <3>2. \A b \in Articles \ {a} : job'[b] = job[b]
      BY <1>0, <2>3 DEF StallDetected
    <3>3. owner'[a] = None /\ \A b \in Articles \ {a} : owner'[b] = owner[b]
      BY <1>0, <3>1
    <3>4. ASSUME NEW b \in Articles, owner'[b] # None
          PROVE  owner'[b] = owner[b] /\ job'[b] = "active"
      BY <1>0, <3>2, <3>3, <3>4
    <3> QED BY <1>0, <3>1, <3>4
  <2> QED BY <1>1, <2>1, <2>2, <2>3 DEF ArticleStep
<1>2. ASSUME NEW w \in Workers, NEW a \in Articles, TakeJob(w, a) PROVE Ownership'
  <2>1. \A b \in Articles : owner[b] # w
    BY <1>0, <1>2 DEF TakeJob
  <2>2. job'[a] = "active" /\ owner'[a] = w
    BY <1>0, <1>2 DEF TakeJob
  <2>3. worker'[w].pc = "load" /\ worker'[w].article = a
    BY <1>0, <1>2 DEF TakeJob
  <2>4. \A b \in Articles \ {a} : job'[b] = job[b] /\ owner'[b] = owner[b]
    BY <1>0, <1>2 DEF TakeJob
  <2>5. \A v \in Workers \ {w} : worker'[v] = worker[v]
    BY <1>0, <1>2 DEF TakeJob
  <2>6. ASSUME NEW b \in Articles \ {a}, owner'[b] # None
        PROVE  /\ job'[b] = "active"
               /\ worker'[owner'[b]].pc # "idle" /\ worker'[owner'[b]].article = b
    <3>1. owner[b] \in Workers \ {w}
      BY <1>0, <2>1, <2>4, <2>6
    <3> QED BY <1>0, <2>4, <2>5, <2>6, <3>1
  <2> QED BY <2>2, <2>3, <2>6
<1>3. ASSUME NEW w \in Workers, WorkerStep(w) \/ WorkerFault(w) PROVE Ownership'
  <2> DEFINE a == worker[w].article
  <2>1. CASE JobCompletes(w) \/ JobThrows(w) \/ WorkerCrash(w)
    <3>0. worker[w].pc # "idle"
      BY <2>1 DEF JobCompletes, JobThrows, WorkerCrash
    <3>1. a \in Articles /\ \A b \in Articles : owner[b] = w => b = a
      BY <1>0, <3>0 DEF Subjects
    <3>2. /\ owner'[a] # w
          /\ owner'[a] # None => owner'[a] = owner[a] /\ job'[a] = job[a]
      BY <1>0, <2>1, <3>1 DEF JobCompletes, JobThrows, WorkerCrash
    <3>3. \A b \in Articles \ {a} : owner'[b] = owner[b] /\ job'[b] = job[b]
      BY <1>0, <2>1, <3>1 DEF JobCompletes, JobThrows, WorkerCrash
    <3> QED BY <1>0, <1>3, <3>1, <3>2, <3>3, WorkerMoves
  <2>2. CASE ~ (JobCompletes(w) \/ JobThrows(w) \/ WorkerCrash(w))
    <3>1. job' = job /\ owner' = owner
      BY <1>3, <2>2
      DEF WorkerStep, WorkerFault, LoadArticle, LookupAnalysis, Prescreen, ResumeAfterRace,
          RunFullAnalysis, WriteStatus, PrescreenFails, FullAnalysisFails, WriteFails, queueVars
    <3>2. worker'[w].pc # "idle"
      BY <1>0, <1>3, <2>2
      DEF WorkerStep, WorkerFault, LoadArticle, LookupAnalysis, Prescreen, ResumeAfterRace,
          RunFullAnalysis, WriteStatus, PrescreenFails, FullAnalysisFails, WriteFails,
          Goto, Enter, GotoWrite, Execution
    <3> QED BY <1>0, <1>3, <3>1, <3>2, WorkerMoves
  <2> QED BY <2>1, <2>2
<1>4. ASSUME NEW r \in Admins, RetryStep(r) \/ RetryFault(r) PROVE Ownership'
  <2>1. \A b \in Articles : job[b] = "active" => job'[b] = "active"
    BY <1>0, <1>4
    DEF RetryStep, RetryFault, LookAtJob, RemoveRetained, AddRetryJob, RetryCommits, Add,
        AddedDelayed, CompensateRetry, ActivateRetry, CheckJob, RestoreStatus, RetryAborts,
        ActivateFails, RetryDies, queueVars, Withdrawn, Promoted, Removable, RemovesRetained, Retained
  <2> QED BY <1>0, <1>4, <2>1, RetryFrame
<1>5. ASSUME NEW r \in Admins, NEW a \in Articles, BeginRetry(r, a) PROVE Ownership'
  BY <1>0, <1>5 DEF BeginRetry, queueVars
<1> QED BY <1>1, <1>2, <1>3, <1>4, <1>5, ByActor

LEMMA NextAttemptsLeft == ASSUME QueueInv, Next PROVE AttemptsLeft'
<1>0. TypeOK /\ Subjects /\ Ownership /\ AttemptsLeft
  BY DEF QueueInv
<1> USE NoneAssumption, BoundsAssumption DEF AttemptsLeft, TypeOK, Executable
<1>1. ASSUME NEW a \in Articles, ArticleStep(a) PROVE AttemptsLeft'
  <2>1. CASE EnqueueAnalysis(a)
    BY <1>0, <2>1 DEF EnqueueAnalysis, Add, Added, JobState
  <2>2. CASE StallDetected(a)
    <3>1. /\ attempts' = attempts /\ job[a] = "active"
          /\ \A b \in Articles \ {a} : job'[b] = job[b]
      BY <1>0, <2>2 DEF StallDetected
    <3> QED BY <1>0, <3>1
  <2>3. CASE ~ (EnqueueAnalysis(a) \/ StallDetected(a))
    BY <1>0, <1>1, <2>3
    DEF ArticleStep, IngestStep, CreateArticle, MarkPending, IngestInterrupted, Age,
        DelayElapses, CancelJob, Withdrawn, Removable, queueVars
  <2> QED BY <2>1, <2>2, <2>3
<1>2. ASSUME NEW w \in Workers, NEW a \in Articles, TakeJob(w, a) PROVE AttemptsLeft'
  BY <1>0, <1>2 DEF TakeJob
<1>3. ASSUME NEW w \in Workers, WorkerStep(w) \/ WorkerFault(w) PROVE AttemptsLeft'
  <2>1. CASE JobThrows(w)
    <3> DEFINE a == worker[w].article
    <3>1. CASE owner[a] # w
      BY <1>0, <2>1, <3>1 DEF JobThrows
    <3>2. CASE owner[a] = w
      <4>1. a \in Articles /\ attempts[a] \in Nat
        BY <1>0, <2>1 DEF JobThrows, Subjects
      <4>2. /\ attempts' = [attempts EXCEPT ![a] = @ + 1]
            /\ job' = [job EXCEPT ![a] = AfterThrow(attempts[a] + 1, MaxAttempts)]
        BY <2>1, <3>2 DEF JobThrows
      <4>3. AfterThrow(attempts[a] + 1, MaxAttempts) \in Executable => attempts[a] + 1 < MaxAttempts
        BY <4>1 DEF AfterThrow
      <4>4. attempts'[a] = attempts[a] + 1 /\ job'[a] = AfterThrow(attempts[a] + 1, MaxAttempts)
        BY <1>0, <4>1, <4>2
      <4>5. \A b \in Articles \ {a} : attempts'[b] = attempts[b] /\ job'[b] = job[b]
        BY <1>0, <4>2
      <4> QED BY <1>0, <4>3, <4>4, <4>5
    <3> QED BY <3>1, <3>2
  <2>2. CASE ~ JobThrows(w)
    BY <1>0, <1>3, <2>2
    DEF WorkerStep, WorkerFault, LoadArticle, LookupAnalysis, Prescreen, ResumeAfterRace,
        RunFullAnalysis, WriteStatus, JobCompletes, PrescreenFails, FullAnalysisFails, WriteFails,
        WorkerCrash, queueVars
  <2> QED BY <2>1, <2>2
<1>4. ASSUME NEW r \in Admins, RetryStep(r) \/ RetryFault(r) PROVE AttemptsLeft'
  <2>1. CASE AddRetryJob(r)
    BY <1>0, <2>1 DEF AddRetryJob, Add, AddedDelayed, Subjects
  <2>2. CASE ~ AddRetryJob(r)
    BY <1>0, <1>4, <2>2
    DEF RetryStep, RetryFault, LookAtJob, RemoveRetained, RetryCommits, CompensateRetry,
        ActivateRetry, CheckJob, RestoreStatus, RetryAborts, ActivateFails, RetryDies, queueVars,
        Withdrawn, Promoted, Removable
  <2> QED BY <2>1, <2>2
<1>5. ASSUME NEW r \in Admins, NEW a \in Articles, BeginRetry(r, a) PROVE AttemptsLeft'
  BY <1>0, <1>5 DEF BeginRetry, queueVars
<1> QED BY <1>1, <1>2, <1>3, <1>4, <1>5, ByActor

LEMMA InitQueueInv == Init => QueueInv
BY InitType, BoundsAssumption
DEF Init, QueueInv, Subjects, CatchDepth, Shallow, Ownership, AttemptsLeft, OneTransaction,
    RemovesRetained, IdleWorker, IdleRetry, Executable, InTransaction

LEMMA NextQueueInv == QueueInv /\ [Next]_vars => QueueInv'
<1>1. ASSUME QueueInv, UNCHANGED vars PROVE QueueInv'
  BY <1>1, NextType
  DEF QueueInv, Subjects, CatchDepth, Ownership, AttemptsLeft, OneTransaction, RemovesRetained,
      vars, dbVars, queueVars
<1>2. ASSUME QueueInv, Next PROVE QueueInv'
  BY <1>2, NextType, NextSubjects, NextCatchDepth, NextOwnership, NextAttemptsLeft,
     NextOneTransaction, NextRemovesRetained DEF QueueInv
<1> QED BY <1>1, <1>2

LEMMA SpecQueueInv == Spec => []QueueInv
BY InitQueueInv, NextQueueInv, PTL DEF Spec

(* Every reachable state is well-typed; in particular the attempt and stall  *)
(* counters of a job stay within BullMQ's limits through every replacement.  *)
THEOREM TypeCorrect == Spec => []TypeOK
<1>1. QueueInv => TypeOK
  BY DEF QueueInv
<1> QED BY <1>1, SpecQueueInv, PTL

-----------------------------------------------------------------------------
(* Why no pending article is lost: the strengthening of PendingHasWork says  *)
(* that the job a pending article relies on has not already done its work.   *)

HasWork(a) ==
  \/ job[a] \in Executable /\ ~ Overtaken(a)
  \/ ingest[a] = "marked"
  \/ WillRestore(a)
  \/ excused[a]

PendingInv == \A a \in Articles : status[a] = "pending" => HasWork(a)

LEMMA PendingArticleStep ==
  ASSUME QueueInv, PendingInv, NEW a \in Articles, ArticleStep(a)
  PROVE  PendingInv'
<1> USE NoneAssumption DEF HasWork, TypeOK, Overtaken, WillRestore, Retained, Executable
<1>0. TypeOK /\ Ownership
  BY DEF QueueInv
<1>1. UNCHANGED <<worker, retry>>
  BY ArticleFrame
<1>2. \A b \in Articles \ {a} :
        /\ status'[b] = status[b] /\ job'[b] = job[b] /\ owner'[b] = owner[b]
        /\ ingest'[b] = ingest[b] /\ excused'[b] = excused[b]
  <2>1. CASE IngestStep(a) \/ IngestInterrupted(a) \/ Age(a)
    BY <1>0, <2>1 DEF IngestStep, CreateArticle, MarkPending, EnqueueAnalysis, Add, Excuse,
                      IngestInterrupted, Age, dbVars, queueVars
  <2>2. CASE DelayElapses(a) \/ CancelJob(a)
    BY <1>0, <2>2 DEF DelayElapses, CancelJob, Excuse, dbVars
  <2>3. CASE StallDetected(a)
    BY <1>0, <2>3 DEF StallDetected, Excuse, dbVars
  <2> QED BY <2>1, <2>2, <2>3 DEF ArticleStep
<1>3. \A b \in Articles \ {a} : HasWork(b) => HasWork(b)'
  BY <1>1, <1>2
<1>4. ASSUME status'[a] = "pending" PROVE HasWork(a)'
  <2>1. CASE CreateArticle(a)
    BY <1>0, <1>4, <2>1 DEF CreateArticle
  <2>2. CASE MarkPending(a)
    BY <1>0, <2>2 DEF MarkPending
  <2>3. CASE EnqueueAnalysis(a)
    <3>1. status[a] = "pending" /\ owner' = owner /\ job'[a] = Added(job[a])
          /\ (excused'[a] <=> excused[a] \/ Overtaken(a))
      BY <1>0, <1>4, <2>3 DEF EnqueueAnalysis, Excuse, dbVars, Add
    <3> QED BY <1>0, <1>1, <3>1 DEF Added, JobState
  <2>4. CASE IngestInterrupted(a) \/ Age(a)
    BY <1>0, <1>1, <1>4, <2>4 DEF PendingInv, IngestInterrupted, Age, Excuse, dbVars, queueVars
  <2>5. CASE DelayElapses(a)
    BY <1>0, <1>1, <1>4, <2>5 DEF PendingInv, DelayElapses, dbVars
  <2>6. CASE CancelJob(a)
    BY <1>0, <1>4, <2>6 DEF CancelJob, Excuse, dbVars
  <2>7. CASE StallDetected(a)
    <3>1. CASE stalled[a] < MaxStalled
      BY <1>0, <1>4, <2>7, <3>1 DEF StallDetected
    <3>2. CASE ~ (stalled[a] < MaxStalled)
      BY <1>0, <1>4, <2>7, <3>2 DEF StallDetected, Excuse, dbVars
    <3> QED BY <3>1, <3>2
  <2> QED BY <2>1, <2>2, <2>3, <2>4, <2>5, <2>6, <2>7 DEF ArticleStep, IngestStep
<1> QED BY <1>2, <1>3, <1>4 DEF PendingInv

LEMMA PendingWorkerStep ==
  ASSUME QueueInv, PendingInv, NEW w \in Workers,
         WorkerStep(w) \/ WorkerFault(w) \/ \E a \in Articles : TakeJob(w, a)
  PROVE  PendingInv'
<1> USE NoneAssumption DEF HasWork, TypeOK, Overtaken, WillRestore, Retained, Executable
<1>0. TypeOK /\ Ownership /\ Subjects
  BY DEF QueueInv
<1>1. UNCHANGED <<retry, ingest>>
  BY WorkerFrame
<1>2. ASSUME NEW a \in Articles, TakeJob(w, a) PROVE PendingInv'
  BY <1>0, <1>1, <1>2 DEF PendingInv, TakeJob, dbVars, Ownership
<1>3. ASSUME WorkerStep(w) \/ WorkerFault(w) PROVE PendingInv'
  <2> DEFINE a == worker[w].article
  <2>0. a \in Articles /\ \A b \in Articles : owner[b] = w => b = a
    BY <1>0, <1>3, WorkerMoves DEF Subjects, Ownership
  <2>1. CASE WriteStatus(w)
    <3>1. status'[a] # "pending" /\ UNCHANGED <<job, owner>>
      BY <1>0, <2>0, <2>1 DEF WriteStatus, Execution, FinalStatus, queueVars
    <3>2. \A b \in Articles \ {a} : /\ status'[b] = status[b] /\ excused'[b] = excused[b]
                                    /\ owner[b] # None => worker'[owner[b]] = worker[owner[b]]
      BY <1>0, <1>3, <2>0, <2>1, WorkerMoves DEF WriteStatus
    <3> QED BY <1>0, <1>1, <3>1, <3>2 DEF PendingInv
  <2>2. CASE JobThrows(w)
    <3>1. CASE owner[a] # w
      <4>1. UNCHANGED <<status, job, owner, excused>>
        BY <2>2, <3>1 DEF JobThrows, dbVars
      <4>2. \A b \in Articles : owner[b] # None => worker'[owner[b]] = worker[owner[b]]
        BY <1>0, <1>3, <2>0, <3>1, WorkerMoves
      <4> QED BY <1>1, <4>1, <4>2 DEF PendingInv
    <3>2. CASE owner[a] = w
      <4>1. /\ status' = status
            /\ job'[a] \in {"waiting", "failed"}
            /\ status[a] = "pending" /\ job'[a] = "failed" => excused'[a]
        <5> DEFINE next == AfterThrow(attempts[a] + 1, MaxAttempts)
        <5>1. status' = status /\ job' = [job EXCEPT ![a] = next] /\ Excuse(a, next = "failed")
          BY <2>2, <3>2 DEF JobThrows, dbVars
        <5>2. next \in {"waiting", "failed"}
          BY DEF AfterThrow
        <5>3. job'[a] = next
          BY <1>0, <2>0, <5>1
        <5>4. status[a] = "pending" /\ next = "failed" => excused'[a]
          BY <1>0, <2>0, <5>1 DEF Excuse
        <5> QED BY <5>1, <5>2, <5>3, <5>4
      <4>2. \A b \in Articles \ {a} :
              /\ job'[b] = job[b] /\ owner'[b] = owner[b] /\ excused'[b] = excused[b]
              /\ owner[b] # None => worker'[owner[b]] = worker[owner[b]]
        BY <1>0, <1>3, <2>0, <2>2, <3>2, WorkerMoves DEF JobThrows, Excuse
      <4> QED BY <1>0, <1>1, <4>1, <4>2 DEF PendingInv
    <3> QED BY <3>1, <3>2
  <2>3. CASE JobCompletes(w) \/ WorkerCrash(w)
    <3>1. /\ status' = status /\ excused' = excused
          /\ \A b \in Articles \ {a} :
               /\ job'[b] = job[b] /\ owner'[b] = owner[b]
               /\ owner[b] # None => worker'[owner[b]] = worker[owner[b]]
      BY <1>0, <1>3, <2>0, <2>3, WorkerMoves DEF JobCompletes, WorkerCrash, dbVars
    <3>0. \A v \in Workers \ {w} : worker'[v] = worker[v]
      BY <1>0, <1>3, WorkerMoves
    <3>a. ASSUME NEW b \in Articles \ {a}, HasWork(b) PROVE HasWork(b)'
      BY <1>1, <3>1, <3>a
    <3>b. CASE owner[a] # w
      <4>1. job' = job /\ owner' = owner
        BY <2>3, <3>b DEF JobCompletes, WorkerCrash
      <4>2. owner[a] # None => worker'[owner[a]] = worker[owner[a]]
        BY <1>0, <2>0, <3>0, <3>b
      <4>3. ASSUME NEW b \in Articles, b = a, HasWork(b) PROVE HasWork(b)'
        BY <1>1, <3>1, <4>1, <4>2, <4>3
      <4> QED BY <3>1, <3>a, <4>3 DEF PendingInv
    <3>c. CASE owner[a] = w
      <4>1. owner'[a] = None
        BY <1>0, <2>0, <2>3, <3>c DEF JobCompletes, WorkerCrash
      <4>2. JobCompletes(w) => job[a] = "active" /\ worker[owner[a]].pc = "finish"
        BY <1>0, <2>0, <3>c DEF JobCompletes, Ownership
      <4>3. WorkerCrash(w) => job' = job
        BY DEF WorkerCrash
      <4>4. ASSUME NEW b \in Articles, b = a, HasWork(b) PROVE HasWork(b)'
        BY <1>1, <2>0, <2>3, <3>1, <3>c, <4>1, <4>2, <4>3, <4>4
      <4> QED BY <3>1, <3>a, <4>4 DEF PendingInv
    <3> QED BY <3>b, <3>c
  <2>4. CASE ~ (WriteStatus(w) \/ JobThrows(w) \/ JobCompletes(w) \/ WorkerCrash(w))
    <3>1. UNCHANGED <<status, job, owner, excused>>
      BY <1>3, <2>4
      DEF WorkerStep, WorkerFault, LoadArticle, LookupAnalysis, Prescreen, ResumeAfterRace,
          RunFullAnalysis, PrescreenFails, FullAnalysisFails, WriteFails, dbVars, queueVars
    <3>2. worker'[w].pc # "finish"
      BY <1>0, <1>3, <2>4
      DEF WorkerStep, WorkerFault, LoadArticle, LookupAnalysis, Prescreen, ResumeAfterRace,
          RunFullAnalysis, PrescreenFails, FullAnalysisFails, WriteFails, Goto, Enter, GotoWrite,
          Execution
    <3> QED BY <1>0, <1>1, <1>3, <3>1, <3>2, WorkerMoves DEF PendingInv
  <2> QED BY <2>1, <2>2, <2>3, <2>4
<1> QED BY <1>2, <1>3

LEMMA PendingRetryStep ==
  ASSUME QueueInv, PendingInv, NEW r \in Admins,
         RetryStep(r) \/ RetryFault(r) \/ \E a \in Articles : BeginRetry(r, a)
  PROVE  PendingInv'
<1> USE DEF TypeOK
<1>0. TypeOK /\ Ownership /\ Subjects /\ RemovesRetained
  BY DEF QueueInv
<1>1. UNCHANGED <<worker, ingest, owner>>
  BY RetryFrame
<1>2. ASSUME NEW a \in Articles, BeginRetry(r, a) PROVE PendingInv'
  <2>1. UNCHANGED <<status, job, excused>> /\ \A q \in Admins \ {r} : retry'[q] = retry[q]
    BY <1>2 DEF BeginRetry, dbVars, queueVars
  <2>2. retry[r].pc = "idle"
    BY <1>2 DEF BeginRetry
  <2> QED BY <1>1, <2>1, <2>2 DEF PendingInv, HasWork, Overtaken, WillRestore
<1>3. ASSUME RetryStep(r) \/ RetryFault(r) PROVE PendingInv'
  <2>a. PICK a \in Articles : a = retry[r].article
    BY <1>0, <1>3, RetryMoves DEF Subjects
  <2>0. a = retry[r].article /\ \A q \in Admins \ {r} : retry'[q] = retry[q]
    BY <1>0, <1>3, <2>a, RetryMoves
  <2>1. \A b \in Articles \ {a} :
          status'[b] = status[b] /\ job'[b] = job[b] /\ excused'[b] = excused[b]
    BY <1>0, <1>3, <2>0
    DEF RetryStep, RetryFault, LookAtJob, RemoveRetained, AddRetryJob, RetryCommits, Add, Excuse,
        CompensateRetry, ActivateRetry, CheckJob, RestoreStatus, RetryAborts, ActivateFails,
        RetryDies, queueVars, dbVars
  <2>2. ASSUME NEW b \in Articles \ {a}, HasWork(b) PROVE HasWork(b)'
    BY <1>1, <2>0, <2>1, <2>2 DEF HasWork, Overtaken, WillRestore
  <2>3. SUFFICES ASSUME status'[a] = "pending" PROVE HasWork(a)'
    BY <2>1, <2>2 DEF PendingInv
  <2>4. status[a] = "pending" => HasWork(a)
    BY <2>0 DEF PendingInv
  <2> USE DEF Request, GotoRetry, EndRetry, IdleRetry, InTransaction
  <2>5. ASSUME retry[r].pc \in InTransaction \cup {"compensate"}
        PROVE  WillRestore(a) => WillRestore(a)' \/ job'[a] # "none"
    BY <2>0, <2>5 DEF WillRestore
  <2>6. CASE LookAtJob(r) \/ RetryAborts(r)
    <3>1. UNCHANGED <<status, job, excused>> /\ retry[r].pc \in InTransaction
      BY <2>0, <2>6 DEF LookAtJob, RetryAborts, dbVars, queueVars
    <3> QED BY <1>1, <2>3, <2>4, <2>5, <3>1 DEF HasWork, Overtaken, WillRestore
  <2>7. CASE RemoveRetained(r)
    <3>1. UNCHANGED <<status, excused>> /\ job[a] \in Retained
      BY <1>0, <2>0, <2>7 DEF RemoveRetained, RemovesRetained, dbVars
    <3> QED BY <1>1, <2>3, <2>4, <3>1 DEF HasWork, WillRestore, Executable, Retained
  <2>8. CASE AddRetryJob(r)
    <3>1. UNCHANGED <<status, excused>>
      BY <2>8 DEF AddRetryJob, dbVars
    <3>2. job'[a] = "delayed" \/ (job'[a] = job[a] /\ job[a] # "none")
      BY <1>0, <2>0, <2>8 DEF AddRetryJob, Add, AddedDelayed
    <3> QED BY <1>1, <2>3, <2>4, <3>1, <3>2
            DEF HasWork, Overtaken, WillRestore, Executable, Retained
  <2>9. CASE RetryCommits(r)
    <3>1. /\ retry'[r].pc = "activate" /\ retry'[r].article = a /\ UNCHANGED job
          /\ excused'[a] <=> Overtaken(a)
      BY <1>0, <2>0, <2>9 DEF RetryCommits, queueVars
    <3>2. job[a] = "none" => WillRestore(a)'
      BY <3>1 DEF WillRestore
    <3> QED BY <1>0, <1>1, <2>0, <3>1, <3>2
            DEF HasWork, Overtaken, Executable, Retained, JobState
  <2>10. CASE CompensateRetry(r)
    <3>1. /\ status' = status
          /\ excused[a] => excused'[a]
          /\ job[a] \in Removable => excused'[a]
          /\ job[a] \notin Removable => job'[a] = job[a]
      BY <1>0, <2>0, <2>3, <2>10 DEF CompensateRetry, Excuse, Withdrawn, dbVars
    <3>2. WillRestore(a) => WillRestore(a)' \/ job'[a] # "none"
      BY <2>5, <2>10 DEF CompensateRetry
    <3> QED BY <1>1, <2>3, <2>4, <3>1, <3>2
            DEF HasWork, Overtaken, WillRestore, Executable, Retained, Removable
  <2>11. CASE ActivateRetry(r) \/ CheckJob(r) \/ ActivateFails(r)
    <3>1. UNCHANGED <<status, excused>> /\ (job'[a] = Promoted(job[a]) \/ job'[a] = job[a])
      BY <1>0, <2>0, <2>11 DEF ActivateRetry, CheckJob, ActivateFails, dbVars, queueVars
    <3>2. job[a] = "none" => retry'[r].pc \in {"check", "restore"} /\ retry'[r].article = a
      BY <1>0, <2>0, <2>11 DEF ActivateRetry, CheckJob, ActivateFails
    <3>3. job[a] = "none" => WillRestore(a)'
      BY <3>1, <3>2 DEF WillRestore, Promoted
    <3> QED BY <1>1, <2>3, <2>4, <3>1, <3>3
            DEF HasWork, Overtaken, WillRestore, Executable, Retained, Promoted
  <2>12. CASE RestoreStatus(r)
    <3>1. excused'[a] <=> status'[a] = "pending"
      BY <1>0, <2>0, <2>12 DEF RestoreStatus
    <3> QED BY <2>3, <3>1 DEF HasWork
  <2>13. CASE RetryDies(r)
    <3>1. /\ UNCHANGED <<status, job>>
          /\ excused[a] => excused'[a]
          /\ job[a] = "none" /\ retry[r].pc \in {"activate", "check", "restore"} => excused'[a]
      BY <1>0, <2>0, <2>3, <2>13 DEF RetryDies, Excuse, dbVars, queueVars
    <3>2. WillRestore(a) => WillRestore(a)' \/ excused'[a]
      BY <2>0, <3>1 DEF WillRestore
    <3> QED BY <1>1, <2>3, <2>4, <3>1, <3>2 DEF HasWork, Overtaken
  <2> QED BY <1>3, <2>6, <2>7, <2>8, <2>9, <2>10, <2>11, <2>12, <2>13 DEF RetryStep, RetryFault
<1> QED BY <1>2, <1>3

(* No interleaving of ingestion, workers, stalls, cancellations and retries  *)
(* leaves a pending article without work, except the events Excuse records:  *)
(* true with live stalls as well.                                            *)
THEOREM PendingKeepsWork == Spec => []PendingHasWork
<1>1. Init => PendingInv
  BY DEF Init, PendingInv
<1>2. QueueInv /\ PendingInv /\ [Next]_vars => PendingInv'
  <2>1. ASSUME PendingInv, UNCHANGED vars PROVE PendingInv'
    BY <2>1 DEF PendingInv, HasWork, Overtaken, WillRestore, vars, dbVars, queueVars
  <2>2. ASSUME QueueInv, PendingInv, Next PROVE PendingInv'
    BY <2>2, ByActor, PendingArticleStep, PendingWorkerStep, PendingRetryStep
  <2> QED BY <2>1, <2>2
<1>3. PendingInv => PendingHasWork
  BY DEF PendingInv, HasWork, PendingHasWork
<1> QED BY <1>1, <1>2, <1>3, SpecQueueInv, PTL DEF Spec

-----------------------------------------------------------------------------
(* With at most one live execution per job: whoever executes an article owns *)
(* its job, and what an execution is about to do agrees with the rows.       *)

Exclusive == \A w \in Workers : worker[w].pc # "idle" => owner[worker[w].article] = w

(* What the position e of an execution says of its article's analysis row. *)
Agrees(e, row) ==
  /\ e.pc # "raced"
  /\ e.pc = "prescreen" => row = "none"
  /\ e.pc = "full" => row = "relevant"
  /\ e.pc = "write" /\ e.target = "analyzed" => row = "full"

RowInv ==
  /\ \A w \in Workers : worker[w].pc # "idle" => Agrees(worker[w], analysis[worker[w].article])
  /\ \A r \in Admins : retry[r].pc # "idle" /\ retry[r].previous = "analyzed"
       => analysis[retry[r].article] = "full"
  /\ \A a \in Articles : analysis[a] # "full" =>
       mainStream[a] = None /\ \A s \in Streams : streams[a][s] = "none"

LEMMA InitExclusive == Init => Exclusive /\ RowInv /\ AnalyzedIsComplete /\ PrimaryAgreesWithMain
BY NoneAssumption
DEF Init, Exclusive, RowInv, AnalyzedIsComplete, PrimaryAgreesWithMain, IdleWorker, IdleRetry

LEMMA NextExclusive ==
  ASSUME ~ LiveStalls, QueueInv, Exclusive, Next
  PROVE  Exclusive'
<1> USE NoneAssumption DEF Exclusive, TypeOK
<1>0. TypeOK /\ Subjects /\ Ownership
  BY DEF QueueInv
<1>1. ASSUME NEW a \in Articles, ArticleStep(a) PROVE Exclusive'
  <2>1. owner' = owner \/ (owner[a] = None /\ owner' = [owner EXCEPT ![a] = None])
    BY <1>1 DEF ArticleStep, IngestStep, CreateArticle, MarkPending, EnqueueAnalysis,
                IngestInterrupted, Age, DelayElapses, StallDetected, CancelJob, queueVars
  <2> QED BY <1>0, <1>1, <2>1, ArticleFrame DEF Subjects
<1>2. ASSUME NEW w \in Workers, NEW a \in Articles, TakeJob(w, a) PROVE Exclusive'
  <2>1. owner[a] = None
    BY <1>2 DEF QueueInv, Ownership, TakeJob
  <2> QED BY <1>0, <1>2, <2>1 DEF TakeJob, Subjects
<1>3. ASSUME NEW w \in Workers, WorkerStep(w) \/ WorkerFault(w) PROVE Exclusive'
  <2>1. \/ owner' = owner
        \/ /\ worker'[w].pc = "idle" /\ owner' = [owner EXCEPT ![worker[w].article] = None]
           /\ owner[worker[w].article] = w
    BY <1>0, <1>3
    DEF WorkerStep, WorkerFault, LoadArticle, LookupAnalysis, Prescreen, ResumeAfterRace,
        RunFullAnalysis, WriteStatus, JobCompletes, PrescreenFails, FullAnalysisFails, WriteFails,
        JobThrows, WorkerCrash, Leave, IdleWorker, queueVars
  <2>2. /\ worker[w].pc # "idle" /\ worker[w].article \in Articles
        /\ \A v \in Workers \ {w} : worker'[v] = worker[v]
        /\ worker'[w].pc = "idle" \/ worker'[w].article = worker[w].article
    BY <1>0, <1>3, WorkerMoves DEF Subjects
  <2>3. ASSUME NEW v \in Workers, worker'[v].pc # "idle" PROVE owner'[worker'[v].article] = v
    <3>1. worker[v].pc # "idle" /\ worker'[v].article = worker[v].article
      BY <2>2, <2>3
    <3>2. owner[worker[v].article] = v /\ owner[worker[w].article] = w
      BY <2>2, <3>1
    <3>3. CASE owner' = owner
      BY <3>1, <3>2, <3>3
    <3>4. CASE worker'[w].pc = "idle" /\ owner' = [owner EXCEPT ![worker[w].article] = None]
      <4>1. v # w /\ worker[v].article \in Articles
        BY <1>0, <2>3, <3>1, <3>4 DEF Subjects
      <4>2. worker[v].article # worker[w].article
        BY <3>2, <4>1
      <4> QED BY <1>0, <3>1, <3>2, <3>4, <4>1, <4>2
    <3> QED BY <2>1, <3>3, <3>4
  <2> QED BY <2>3
<1>4. CASE \E r \in Admins : RetryStep(r) \/ RetryFault(r) \/ \E a \in Articles : BeginRetry(r, a)
  BY <1>4, RetryFrame
<1> QED BY <1>1, <1>2, <1>3, <1>4, ByActor

ExclusiveInv == Exclusive /\ RowInv /\ AnalyzedIsComplete /\ PrimaryAgreesWithMain

(* What a step of the only execution of article a does to the rows of a. *)
LEMMA WorkerRows ==
  ASSUME QueueInv, ExclusiveInv, NEW w \in Workers, WorkerStep(w) \/ WorkerFault(w),
         NEW a \in Articles, a = worker[w].article
  PROVE  /\ worker'[w].pc # "idle" => Agrees(worker'[w], analysis'[a])
         /\ analysis'[a] # analysis[a] => worker[w].pc \in {"prescreen", "full"}
         /\ analysis[a] = "full" => UNCHANGED <<analysis, mainStream, streams>>
         /\ analysis'[a] # "full" => UNCHANGED <<mainStream, streams>>
         /\ \A s \in Streams : streams'[a][s] = "primary" <=> mainStream'[a] = s
         /\ \A b \in Articles \ {a} :
              /\ status'[b] = status[b] /\ analysis'[b] = analysis[b]
              /\ mainStream'[b] = mainStream[b] /\ streams'[b] = streams[b]
         /\ status'[a] = "analyzed" => analysis'[a] = "full"
<1> USE DEF TypeOK
<1>0. TypeOK /\ worker \in [Workers -> Execution] /\ worker[w].pc # "idle"
  BY WorkerMoves DEF QueueInv
<1>1. Agrees(worker[w], analysis[a])
  BY <1>0 DEF ExclusiveInv, RowInv
<1>2. status[a] = "analyzed" => analysis[a] = "full"
  BY DEF ExclusiveInv, AnalyzedIsComplete
<1>3. \A s \in Streams : streams[a][s] = "primary" <=> mainStream[a] = s
  BY DEF ExclusiveInv, PrimaryAgreesWithMain
<1> USE DEF Execution, Goto, Enter, GotoWrite, Leave, IdleWorker, Agrees
<1>4. CASE LoadArticle(w) \/ LookupAnalysis(w) \/ PrescreenFails(w) \/ FullAnalysisFails(w)
  BY <1>0, <1>1, <1>2, <1>3, <1>4
  DEF LoadArticle, LookupAnalysis, PrescreenFails, FullAnalysisFails, dbVars
<1>5. CASE WriteFails(w) \/ JobThrows(w) \/ JobCompletes(w) \/ WorkerCrash(w)
  BY <1>0, <1>1, <1>2, <1>3, <1>5 DEF WriteFails, JobThrows, JobCompletes, WorkerCrash, dbVars
<1>6. CASE ResumeAfterRace(w)
  BY <1>1, <1>6 DEF ResumeAfterRace
<1>7. CASE Prescreen(w)
  BY <1>0, <1>1, <1>2, <1>3, <1>7 DEF Prescreen, PrescreenVerdict
<1>8. CASE WriteStatus(w)
  BY <1>0, <1>1, <1>2, <1>3, <1>8 DEF WriteStatus
<1>9. CASE RunFullAnalysis(w)
  <2>1. PICK main \in Streams \cup {None}, secondary \in SUBSET Streams :
          /\ streams' = [streams EXCEPT ![a] = Upserted(@, main, secondary)]
          /\ mainStream' = [mainStream EXCEPT ![a] = main]
    BY <1>9 DEF RunFullAnalysis
  <2>2. /\ status' = status /\ analysis' = [analysis EXCEPT ![a] = "full"]
        /\ worker[w].pc = "full" /\ analysis[a] = "relevant"
        /\ GotoWrite(w, "analyzed", worker[w].catches + 1)
    BY <1>1, <1>9 DEF RunFullAnalysis
  <2>3. \A s \in Streams : streams[a][s] = "none"
    BY <2>2 DEF ExclusiveInv, RowInv
  <2>4. streams'[a] = Upserted(streams[a], main, secondary) /\ mainStream'[a] = main
    BY <1>0, <2>1
  <2>5. \A s \in Streams : streams'[a][s] = "primary" <=> mainStream'[a] = s
    BY <2>3, <2>4 DEF Upserted
  <2>6. analysis'[a] = "full"
    BY <1>0, <2>2
  <2>7. worker'[w].pc = "write"
    BY <1>0, <2>2
  <2>8. \A b \in Articles \ {a} :
              /\ status'[b] = status[b] /\ analysis'[b] = analysis[b]
              /\ mainStream'[b] = mainStream[b] /\ streams'[b] = streams[b]
    BY <1>0, <2>1, <2>2
  <2> QED BY <2>2, <2>5, <2>6, <2>7, <2>8
<1> QED BY <1>4, <1>5, <1>6, <1>7, <1>8, <1>9 DEF WorkerStep, WorkerFault

LEMMA NextRows ==
  ASSUME ~ LiveStalls, QueueInv, ExclusiveInv, Next
  PROVE  RowInv' /\ AnalyzedIsComplete' /\ PrimaryAgreesWithMain'
<1>0. TypeOK /\ Subjects /\ Exclusive /\ RowInv /\ AnalyzedIsComplete /\ PrimaryAgreesWithMain
  BY DEF QueueInv, ExclusiveInv
<1>1. ASSUME NEW a \in Articles, ArticleStep(a)
      PROVE  RowInv' /\ AnalyzedIsComplete' /\ PrimaryAgreesWithMain'
  <2>1. UNCHANGED <<analysis, mainStream, streams>>
    BY <1>1 DEF ArticleStep, IngestStep, CreateArticle, MarkPending, EnqueueAnalysis,
                IngestInterrupted, Age, DelayElapses, StallDetected, CancelJob, dbVars
  <2>2. \A b \in Articles : status'[b] = "analyzed" => status[b] = "analyzed"
    BY <1>0, <1>1
    DEF ArticleStep, IngestStep, CreateArticle, MarkPending, EnqueueAnalysis, IngestInterrupted,
        Age, DelayElapses, StallDetected, CancelJob, dbVars, TypeOK
  <2> QED BY <1>0, <1>1, <2>1, <2>2, ArticleFrame
          DEF RowInv, AnalyzedIsComplete, PrimaryAgreesWithMain
<1>2. ASSUME NEW w \in Workers, NEW a \in Articles, TakeJob(w, a)
      PROVE  RowInv' /\ AnalyzedIsComplete' /\ PrimaryAgreesWithMain'
  <2>1. UNCHANGED <<dbVars, retry>> /\ worker'[w].pc = "load"
        /\ \A v \in Workers \ {w} : worker'[v] = worker[v]
    BY <1>0, <1>2 DEF TakeJob, TypeOK
  <2>2. Agrees(worker'[w], analysis'[worker'[w].article])
    BY <2>1 DEF Agrees
  <2> QED BY <1>0, <2>1, <2>2 DEF RowInv, AnalyzedIsComplete, PrimaryAgreesWithMain, dbVars
<1>3. ASSUME NEW w \in Workers, WorkerStep(w) \/ WorkerFault(w)
      PROVE  RowInv' /\ AnalyzedIsComplete' /\ PrimaryAgreesWithMain'
  <2>1. PICK a \in Articles : a = worker[w].article
    BY <1>0, <1>3, WorkerMoves DEF Subjects
  <2>2. /\ retry' = retry
        /\ \A v \in Workers \ {w} : worker'[v] = worker[v]
        /\ worker'[w].pc = "idle" \/ worker'[w].article = a
    BY <1>0, <1>3, <2>1, WorkerMoves, WorkerFrame
  <2>3. \A v \in Workers \ {w} : worker[v].pc # "idle" => worker[v].article \in Articles \ {a}
    BY <1>0, <1>3, <2>1, WorkerMoves DEF Subjects, Exclusive
  <2>4. /\ worker'[w].pc # "idle" => Agrees(worker'[w], analysis'[a])
        /\ analysis[a] = "full" => UNCHANGED <<analysis, mainStream, streams>>
        /\ analysis'[a] # "full" => UNCHANGED <<mainStream, streams>>
        /\ \A s \in Streams : streams'[a][s] = "primary" <=> mainStream'[a] = s
        /\ \A b \in Articles \ {a} :
             /\ status'[b] = status[b] /\ analysis'[b] = analysis[b]
             /\ mainStream'[b] = mainStream[b] /\ streams'[b] = streams[b]
        /\ status'[a] = "analyzed" => analysis'[a] = "full"
    BY <1>3, <2>1, WorkerRows
  <2>5. AnalyzedIsComplete' /\ PrimaryAgreesWithMain'
    BY <1>0, <2>4 DEF AnalyzedIsComplete, PrimaryAgreesWithMain
  <2>6. \A v \in Workers : worker'[v].pc # "idle" => Agrees(worker'[v], analysis'[worker'[v].article])
    BY <1>0, <2>2, <2>3, <2>4 DEF RowInv
  <2>7. \A r \in Admins : retry'[r].pc # "idle" /\ retry'[r].previous = "analyzed"
          => analysis'[retry'[r].article] = "full"
    BY <1>0, <2>2, <2>4 DEF RowInv, Subjects
  <2>8. \A b \in Articles : analysis'[b] # "full" =>
          mainStream'[b] = None /\ \A s \in Streams : streams'[b][s] = "none"
    BY <1>0, <2>4 DEF RowInv
  <2> QED BY <2>5, <2>6, <2>7, <2>8 DEF RowInv
<1>4. ASSUME NEW r \in Admins, NEW a \in Articles, BeginRetry(r, a)
      PROVE  RowInv' /\ AnalyzedIsComplete' /\ PrimaryAgreesWithMain'
  <2>1. /\ UNCHANGED <<dbVars, worker>>
        /\ retry'[r].article = a /\ retry'[r].previous = status[a]
        /\ \A q \in Admins \ {r} : retry'[q] = retry[q]
    BY <1>0, <1>4 DEF BeginRetry, TypeOK
  <2> QED BY <1>0, <2>1 DEF RowInv, AnalyzedIsComplete, PrimaryAgreesWithMain, dbVars
<1>5. ASSUME NEW r \in Admins, RetryStep(r) \/ RetryFault(r)
      PROVE  RowInv' /\ AnalyzedIsComplete' /\ PrimaryAgreesWithMain'
  <2>1. UNCHANGED <<analysis, mainStream, streams, worker>>
    BY <1>5, RetryFrame
  <2>2. /\ retry[r].pc # "idle"
        /\ \A q \in Admins \ {r} : retry'[q] = retry[q]
        /\ retry'[r].pc = "idle" \/ retry'[r].article = retry[r].article
    BY <1>0, <1>5, RetryMoves
  <2>3. retry'[r].pc = "idle" \/ retry'[r].previous = retry[r].previous
    BY <1>0, <1>5
    DEF RetryStep, RetryFault, LookAtJob, RemoveRetained, AddRetryJob, RetryCommits,
        CompensateRetry, ActivateRetry, CheckJob, RestoreStatus, RetryAborts, ActivateFails,
        RetryDies, GotoRetry, EndRetry, IdleRetry, TypeOK, Request
  <2>4. \A b \in Articles : status'[b] = "analyzed" =>
          \/ status[b] = "analyzed"
          \/ b = retry[r].article /\ retry[r].previous = "analyzed"
    BY <1>0, <1>5
    DEF RetryStep, RetryFault, LookAtJob, RemoveRetained, AddRetryJob, RetryCommits,
        CompensateRetry, ActivateRetry, CheckJob, RestoreStatus, Restored, RetryAborts,
        ActivateFails, RetryDies, TypeOK, dbVars
  <2>5. AnalyzedIsComplete' /\ PrimaryAgreesWithMain'
    BY <1>0, <2>1, <2>2, <2>4 DEF RowInv, AnalyzedIsComplete, PrimaryAgreesWithMain
  <2>6. RowInv'
    BY <1>0, <2>1, <2>2, <2>3 DEF RowInv
  <2> QED BY <2>5, <2>6
<1> QED BY <1>1, <1>2, <1>3, <1>4, <1>5, ByActor

LEMMA SpecExclusiveInv == ASSUME ~ LiveStalls PROVE Spec => []ExclusiveInv
<1>1. QueueInv /\ ExclusiveInv /\ [Next]_vars => ExclusiveInv'
  <2>1. ASSUME ExclusiveInv, UNCHANGED vars PROVE ExclusiveInv'
    BY <2>1 DEF ExclusiveInv, Exclusive, RowInv, AnalyzedIsComplete, PrimaryAgreesWithMain,
                vars, dbVars, queueVars
  <2>2. ASSUME QueueInv, ExclusiveInv, Next PROVE ExclusiveInv'
    BY <2>2, NextExclusive, NextRows DEF ExclusiveInv
  <2> QED BY <2>1, <2>2
<1>2. Init => ExclusiveInv
  BY InitExclusive DEF ExclusiveInv
<1> QED BY <1>1, <1>2, SpecQueueInv, PTL DEF Spec

(* As long as BullMQ gives a job to one live worker at a time, no article is *)
(* executed twice at once.                                                   *)
THEOREM ExecutionsAreExclusive == ASSUME ~ LiveStalls PROVE Spec => []OneExecution
<1>1. ExclusiveInv => OneExecution
  BY DEF ExclusiveInv, Exclusive, OneExecution
<1> QED BY <1>1, SpecExclusiveInv, PTL

(* An ANALYZED article has been analyzed in full: retries restore the status *)
(* only of articles that had it.                                             *)
THEOREM AnalyzedArticlesAreComplete == ASSUME ~ LiveStalls PROVE Spec => []AnalyzedIsComplete
<1>1. ExclusiveInv => AnalyzedIsComplete
  BY DEF ExclusiveInv
<1> QED BY <1>1, SpecExclusiveInv, PTL

(* The primary stream row is the analysis row's main stream. *)
THEOREM PrimaryIsMain == ASSUME ~ LiveStalls PROVE Spec => []PrimaryAgreesWithMain
<1>1. ExclusiveInv => PrimaryAgreesWithMain
  BY DEF ExclusiveInv
<1> QED BY <1>1, SpecExclusiveInv, PTL

(* No step of any actor redoes or changes a finished full analysis. *)
THEOREM FullAnalysisIsFinal == ASSUME ~ LiveStalls PROVE Spec => FullAnalysisIsKept
<1> DEFINE Kept(a) == analysis[a] = "full" =>
             /\ analysis'[a] = "full"
             /\ mainStream'[a] = mainStream[a]
             /\ streams'[a] = streams[a]
<1>1. QueueInv /\ ExclusiveInv /\ [Next]_vars => \A a \in Articles : Kept(a)
  <2> SUFFICES ASSUME QueueInv, ExclusiveInv, [Next]_vars, NEW a \in Articles PROVE Kept(a)
    OBVIOUS
  <2>1. CASE UNCHANGED vars
    BY <2>1 DEF vars, dbVars
  <2>2. CASE \E b \in Articles : ArticleStep(b)
    BY <2>2 DEF ArticleStep, IngestStep, CreateArticle, MarkPending, EnqueueAnalysis,
                IngestInterrupted, Age, DelayElapses, StallDetected, CancelJob, dbVars
  <2>3. CASE \E w \in Workers, b \in Articles : TakeJob(w, b)
    BY <2>3 DEF TakeJob, dbVars
  <2>4. ASSUME NEW w \in Workers, WorkerStep(w) \/ WorkerFault(w) PROVE Kept(a)
    <3>1. PICK b \in Articles : b = worker[w].article
      BY <2>4, WorkerMoves DEF QueueInv, Subjects
    <3>2. /\ analysis[b] = "full" => UNCHANGED <<analysis, mainStream, streams>>
          /\ \A c \in Articles \ {b} : /\ analysis'[c] = analysis[c]
                                       /\ mainStream'[c] = mainStream[c]
                                       /\ streams'[c] = streams[c]
      BY <2>4, <3>1, WorkerRows
    <3> QED BY <3>2
  <2>5. CASE \E r \in Admins : RetryStep(r) \/ RetryFault(r) \/ \E b \in Articles : BeginRetry(r, b)
    BY <2>5, RetryFrame
  <2> QED BY <2>1, <2>2, <2>3, <2>4, <2>5, ByActor
<1> QED BY <1>1, SpecQueueInv, SpecExclusiveInv, PTL DEF FullAnalysisIsKept, Spec

-----------------------------------------------------------------------------
(* What the unique index on article_analyses guarantees, whoever executes a  *)
(* job twice.                                                                *)

(* Stage 2 is only reached over a relevant row. *)
RowBehindFull ==
  \A w \in Workers : worker[w].pc = "full" => analysis[worker[w].article] \in {"relevant", "full"}

LEMMA DatabaseStep ==
  ASSUME QueueInv, RowBehindFull, NEW w \in Workers, WorkerStep(w) \/ WorkerFault(w),
         NEW a \in Articles, a = worker[w].article
  PROVE  /\ worker'[w].pc = "full" => analysis'[a] \in {"relevant", "full"}
         /\ \A b \in Articles \ {a} : analysis'[b] = analysis[b]
         /\ \/ analysis'[a] = analysis[a]
            \/ analysis[a] = "none" /\ analysis'[a] \in {"rejected", "relevant"}
            \/ analysis[a] \in {"relevant", "full"} /\ analysis'[a] = "full"
<1> USE DEF TypeOK
<1>0. TypeOK /\ (worker[w].pc = "full" => analysis[a] \in {"relevant", "full"})
  BY DEF QueueInv, RowBehindFull
<1> USE DEF Execution, Goto, Enter, GotoWrite, Leave, IdleWorker
<1>1. CASE LoadArticle(w) \/ LookupAnalysis(w) \/ ResumeAfterRace(w) \/ PrescreenFails(w)
  BY <1>0, <1>1 DEF LoadArticle, LookupAnalysis, ResumeAfterRace, PrescreenFails, dbVars
<1>2. CASE FullAnalysisFails(w) \/ WriteFails(w) \/ JobThrows(w) \/ JobCompletes(w) \/ WorkerCrash(w)
  BY <1>0, <1>2 DEF FullAnalysisFails, WriteFails, JobThrows, JobCompletes, WorkerCrash, dbVars
<1>3. CASE WriteStatus(w)
  BY <1>0, <1>3 DEF WriteStatus
<1>4. CASE Prescreen(w)
  BY <1>0, <1>4 DEF Prescreen, PrescreenVerdict
<1>5. CASE RunFullAnalysis(w)
  <2>1. /\ analysis' = [analysis EXCEPT ![a] = "full"] /\ worker[w].pc = "full"
        /\ GotoWrite(w, "analyzed", worker[w].catches + 1)
    BY <1>5 DEF RunFullAnalysis
  <2>2. worker'[w].pc = "write" /\ analysis'[a] = "full"
    BY <1>0, <2>1
  <2> QED BY <1>0, <2>1, <2>2
<1> QED BY <1>1, <1>2, <1>3, <1>4, <1>5 DEF WorkerStep, WorkerFault

(* Every step but an execution's leaves the table alone. *)
LEMMA DatabaseFrame ==
  ASSUME Next, ~ \E w \in Workers : WorkerStep(w) \/ WorkerFault(w)
  PROVE  UNCHANGED analysis
<1>1. ASSUME NEW a \in Articles, ArticleStep(a) PROVE UNCHANGED analysis
  BY <1>1 DEF ArticleStep, IngestStep, CreateArticle, MarkPending, EnqueueAnalysis,
              IngestInterrupted, Age, DelayElapses, StallDetected, CancelJob, dbVars
<1>2. ASSUME NEW w \in Workers, NEW a \in Articles, TakeJob(w, a)
      PROVE  UNCHANGED analysis
  BY <1>2 DEF TakeJob, dbVars
<1> QED BY <1>1, <1>2, ByActor, RetryFrame

LEMMA SpecDatabaseInv == Spec => []RowBehindFull
<1>1. Init => RowBehindFull
  BY DEF Init, RowBehindFull, IdleWorker
<1>2. QueueInv /\ RowBehindFull /\ [Next]_vars => RowBehindFull'
  <2> SUFFICES ASSUME QueueInv, RowBehindFull, [Next]_vars PROVE RowBehindFull'
    OBVIOUS
  <2>0. TypeOK /\ Subjects
    BY DEF QueueInv
  <2>1. CASE UNCHANGED vars
    BY <2>1 DEF RowBehindFull, vars, dbVars
  <2>2. ASSUME NEW w \in Workers, WorkerStep(w) \/ WorkerFault(w) PROVE RowBehindFull'
    <3>1. PICK a \in Articles : a = worker[w].article
      BY <2>0, <2>2, WorkerMoves DEF Subjects
    <3>2. /\ worker'[w].pc = "full" => analysis'[a] \in {"relevant", "full"}
          /\ \A b \in Articles \ {a} : analysis'[b] = analysis[b]
          /\ analysis[a] \in {"relevant", "full"} => analysis'[a] \in {"relevant", "full"}
      BY <2>2, <3>1, DatabaseStep
    <3> QED BY <2>0, <2>2, <3>1, <3>2, WorkerMoves DEF RowBehindFull, Subjects
  <2>3. CASE Next /\ ~ \E w \in Workers : WorkerStep(w) \/ WorkerFault(w)
    <3>1. UNCHANGED analysis
      BY <2>3, DatabaseFrame
    <3>2. \A w \in Workers : worker'[w].pc = "full" => worker'[w] = worker[w]
      <4>1. ASSUME NEW w \in Workers, NEW a \in Articles, TakeJob(w, a)
            PROVE  \A v \in Workers : worker'[v].pc = "full" => worker'[v] = worker[v]
        BY <2>0, <4>1 DEF TakeJob, TypeOK
      <4> QED BY <2>3, <4>1, ByActor, ArticleFrame, RetryFrame
    <3> QED BY <3>1, <3>2 DEF RowBehindFull
  <2> QED BY <2>1, <2>2, <2>3
<1> QED BY <1>1, <1>2, SpecQueueInv, PTL DEF Spec

(* A pre-screen verdict is never reversed, double executions included.       *)
THEOREM VerdictsAreFinal == Spec => VerdictIsFinal
<1> DEFINE Kept(a) == /\ analysis[a] = "rejected" => analysis'[a] = "rejected"
                      /\ analysis[a] # "none" => analysis'[a] # "none"
<1>1. QueueInv /\ RowBehindFull /\ [Next]_vars => \A a \in Articles : Kept(a)
  <2> SUFFICES ASSUME QueueInv, RowBehindFull, [Next]_vars, NEW a \in Articles PROVE Kept(a)
    OBVIOUS
  <2>1. CASE UNCHANGED vars
    BY <2>1 DEF vars, dbVars
  <2>2. ASSUME NEW w \in Workers, WorkerStep(w) \/ WorkerFault(w) PROVE Kept(a)
    <3>1. PICK b \in Articles : b = worker[w].article
      BY <2>2, WorkerMoves DEF QueueInv, Subjects
    <3>2. /\ \A c \in Articles \ {b} : analysis'[c] = analysis[c]
          /\ \/ analysis'[b] = analysis[b]
             \/ analysis[b] = "none" /\ analysis'[b] \in {"rejected", "relevant"}
             \/ analysis[b] \in {"relevant", "full"} /\ analysis'[b] = "full"
      BY <2>2, <3>1, DatabaseStep
    <3> QED BY <3>2
  <2>3. CASE Next /\ ~ \E w \in Workers : WorkerStep(w) \/ WorkerFault(w)
    BY <2>3, DatabaseFrame
  <2> QED BY <2>1, <2>2, <2>3
<1> QED BY <1>1, SpecQueueInv, SpecDatabaseInv, PTL DEF VerdictIsFinal, Spec
=============================================================================
