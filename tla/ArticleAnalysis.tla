-------------------------- MODULE ArticleAnalysis --------------------------
(***************************************************************************)
(* The life of an article from ingestion to the end of its two-stage       *)
(* analysis, and the administrator's retry of it: PostgreSQL rows          *)
(* (articles, article_analyses, article_streams), the BullMQ job           *)
(* article-<id>, the workers that execute it and the HTTP requests that    *)
(* retry or cancel it.  One action per database or queue round trip, so    *)
(* that everything that can happen between two awaits is a behaviour.      *)
(***************************************************************************)
EXTENDS Naturals, FiniteSets, JobQueue

CONSTANTS
  Articles,     \* article ids, one per url hash
  Workers,      \* executions of ArticleAnalysisProcessor (one per replica)
  Admins,       \* concurrent POST /admin/articles/:id/retry-analysis requests
  Streams,      \* content streams
  None,         \* no article, worker or stream
  MaxAttempts,  \* defaultJobOptions.attempts of the queue
  MaxStalled,   \* BullMQ's maxStalledCount
  LiveStalls,   \* may a live worker lose its job lock (Redis outage, blocked loop)?
  MaxSecondary  \* MAX_SECONDARY_STREAMS

ASSUME NoneAssumption ==
  None \notin Articles /\ None \notin Workers /\ None \notin Streams
ASSUME BoundsAssumption ==
  /\ MaxAttempts \in Nat \ {0}
  /\ MaxStalled \in Nat
  /\ MaxSecondary \in Nat
  /\ LiveStalls \in BOOLEAN

VARIABLES
  status,     \* articles.status, "absent" before the row exists
  fresh,      \* publishedAt lies inside ANALYSIS_WINDOW_HOURS
  analysis,   \* the article_analyses row: "none", or how far it got
  mainStream, \* article_analyses.mainStreamId
  streams,    \* article_streams rows: "none", "primary" or "secondary"
  ingest,     \* how far the fetcher that created the article has got
  job,        \* state of BullMQ job article-<id>
  attempts,   \* its attemptsMade
  stalled,    \* its stalled counter
  owner,      \* the worker that holds the job's lock
  worker,     \* the executions of analyzeArticle
  retry,      \* the executions of ArticleAnalysisRetryService.retry
  excused     \* history: a known event left the pending article without a job

dbVars    == <<status, fresh, analysis, mainStream, streams>>
queueVars == <<job, attempts, stalled, owner>>
vars == <<dbVars, ingest, queueVars, worker, retry, excused>>

ArticleStatus == {"new", "duplicate", "pending", "analyzed", "skipped", "failed"}
FinalStatus   == {"analyzed", "skipped", "failed"}
Analysis      == {"none", "rejected", "relevant", "full"}
Membership    == {"none", "primary", "secondary"}

WorkerPc == {"idle", "load", "lookup", "prescreen", "raced", "full", "write", "finish"}
RetryPc  == {"idle", "look", "remove", "add", "commit", "compensate", "activate",
             "check", "restore"}

Execution == [pc : WorkerPc, article : Articles \cup {None}, target : FinalStatus,
              catches : 0 .. 2]
Request   == [pc : RetryPc, article : Articles \cup {None}, created : BOOLEAN,
              previous : ArticleStatus]

IdleWorker == [pc |-> "idle", article |-> None, target |-> "failed", catches |-> 0]
IdleRetry  == [pc |-> "idle", article |-> None, created |-> FALSE, previous |-> "failed"]

TypeOK ==
  /\ status \in [Articles -> ArticleStatus \cup {"absent"}]
  /\ fresh \in [Articles -> BOOLEAN]
  /\ analysis \in [Articles -> Analysis]
  /\ mainStream \in [Articles -> Streams \cup {None}]
  /\ streams \in [Articles -> [Streams -> Membership]]
  /\ ingest \in [Articles -> {"unseen", "created", "marked", "done"}]
  /\ job \in [Articles -> JobState]
  /\ attempts \in [Articles -> 0 .. MaxAttempts]
  /\ stalled \in [Articles -> 0 .. MaxStalled]
  /\ owner \in [Articles -> Workers \cup {None}]
  /\ worker \in [Workers -> Execution]
  /\ retry \in [Admins -> Request]
  /\ excused \in [Articles -> BOOLEAN]

Init ==
  /\ status = [a \in Articles |-> "absent"]
  /\ fresh \in [Articles -> BOOLEAN]
  /\ analysis = [a \in Articles |-> "none"]
  /\ mainStream = [a \in Articles |-> None]
  /\ streams = [a \in Articles |-> [s \in Streams |-> "none"]]
  /\ ingest = [a \in Articles |-> "unseen"]
  /\ job = [a \in Articles |-> "none"]
  /\ attempts = [a \in Articles |-> 0]
  /\ stalled = [a \in Articles |-> 0]
  /\ owner = [a \in Articles |-> None]
  /\ worker = [w \in Workers |-> IdleWorker]
  /\ retry = [r \in Admins |-> IdleRetry]
  /\ excused = [a \in Articles |-> FALSE]

(* The retry transaction holds the article row from its first read on. *)
InTransaction == {"look", "remove", "add", "commit"}

Locked(a) == \E r \in Admins : retry[r].article = a /\ retry[r].pc \in InTransaction

(* The execution of the article's job has already written its last status. *)
Overtaken(a) ==
  \/ job[a] \in Retained
  \/ job[a] = "active" /\ owner[a] # None /\ worker[owner[a]].pc = "finish"

(* An event that leaves a pending article without work is remembered until   *)
(* its status changes again.                                                 *)
Excuse(a, event) == excused' = [excused EXCEPT ![a] = @ \/ (event /\ status[a] = "pending")]

(* Mutant: a replaced job goes on counting where the removed one stopped. *)
AddKeepingCounters(a, state) ==
  job' = [job EXCEPT ![a] = state] /\ UNCHANGED <<attempts, stalled>>

(* A job that did not exist starts with its counters at zero. *)
Add(a, state) ==
  /\ job' = [job EXCEPT ![a] = state]
  /\ attempts' = [attempts EXCEPT ![a] = IF job[a] = "none" THEN 0 ELSE @]
  /\ stalled' = [stalled EXCEPT ![a] = IF job[a] = "none" THEN 0 ELSE @]

-----------------------------------------------------------------------------
(* FeedFetcherService.processItem: create the row, mark it pending, enqueue. *)

(* The row is created once per urlHash, as NEW or, when the title was seen   *)
(* in the last seven days, as DUPLICATE.  Only a new and recent article goes *)
(* on to analysis.                                                           *)
CreateArticle(a) ==
  /\ ingest[a] = "unseen"
  /\ \E s \in {"new", "duplicate"} :
       /\ status' = [status EXCEPT ![a] = s]
       /\ ingest' = [ingest EXCEPT ![a] =
                       IF s = "new" /\ fresh[a] THEN "created" ELSE "done"]
  /\ UNCHANGED <<fresh, analysis, mainStream, streams, queueVars, worker, retry,
                 excused>>

MarkPending(a) ==
  /\ ingest[a] = "created"
  /\ ~ Locked(a)
  /\ status' = [status EXCEPT ![a] = "pending"]
  /\ ingest' = [ingest EXCEPT ![a] = "marked"]
  /\ UNCHANGED <<fresh, analysis, mainStream, streams, queueVars, worker, retry,
                 excused>>

(* A no-op for an article that a retry has meanwhile had analyzed. *)
EnqueueAnalysis(a) ==
  /\ ingest[a] = "marked"
  /\ Add(a, Added(job[a]))
  /\ ingest' = [ingest EXCEPT ![a] = "done"]
  /\ Excuse(a, Overtaken(a))
  /\ UNCHANGED <<dbVars, owner, worker, retry>>

(* A crash, or a database or Redis error that fetchSource logs and skips:   *)
(* the urlHash is taken, so no later fetch resumes the item.                *)
IngestInterrupted(a) ==
  /\ ingest[a] \in {"created", "marked"}
  /\ ingest' = [ingest EXCEPT ![a] = "done"]
  /\ Excuse(a, ingest[a] = "marked")
  /\ UNCHANGED <<dbVars, queueVars, worker, retry>>

(* The clock moves an article out of the analysis window. *)
Age(a) ==
  /\ fresh[a]
  /\ fresh' = [fresh EXCEPT ![a] = FALSE]
  /\ UNCHANGED <<status, analysis, mainStream, streams, ingest, queueVars, worker,
                 retry, excused>>

-----------------------------------------------------------------------------
(* BullMQ: delayed jobs fall due, stalled jobs are given out again. *)

DelayElapses(a) ==
  /\ job[a] = "delayed"
  /\ job' = [job EXCEPT ![a] = "waiting"]
  /\ UNCHANGED <<dbVars, ingest, attempts, stalled, owner, worker, retry, excused>>

(* The owner is gone, or (LiveStalls) has only failed to renew its lock. *)
StallDetected(a) ==
  /\ job[a] = "active"
  /\ owner[a] = None \/ LiveStalls
  /\ owner' = [owner EXCEPT ![a] = None]
  /\ IF stalled[a] < MaxStalled
       THEN /\ job' = [job EXCEPT ![a] = "waiting"]
            /\ stalled' = [stalled EXCEPT ![a] = @ + 1]
            /\ UNCHANGED excused
       ELSE /\ job' = [job EXCEPT ![a] = "failed"]
            /\ UNCHANGED stalled
            /\ Excuse(a, TRUE)
  /\ UNCHANGED <<dbVars, ingest, attempts, worker, retry>>

(* DELETE /admin/jobs/:queue/:jobId *)
CancelJob(a) ==
  /\ job[a] \in Removable
  /\ job' = [job EXCEPT ![a] = Withdrawn(@)]
  /\ Excuse(a, TRUE)
  /\ UNCHANGED <<dbVars, ingest, attempts, stalled, owner, worker, retry>>

-----------------------------------------------------------------------------
(* AiAnalysisService.analyzeArticle, one execution per worker. *)

Goto(w, pc)           == worker' = [worker EXCEPT ![w].pc = pc]
Enter(w, pc, catches) == worker' = [worker EXCEPT ![w].pc = pc, ![w].catches = catches]
Leave(w)              == worker' = [worker EXCEPT ![w] = IdleWorker]

(* updateStatus(target), inside `catches` enclosing try blocks whose catch   *)
(* writes FAILED instead.                                                    *)
GotoWrite(w, target, catches) ==
  worker' = [worker EXCEPT ![w] = [pc |-> "write", article |-> @.article, target |-> target,
                                   catches |-> catches]]

TakeJob(w, a) ==
  /\ worker[w].pc = "idle"
  /\ job[a] = "waiting"
  /\ job' = [job EXCEPT ![a] = "active"]
  /\ owner' = [owner EXCEPT ![a] = w]
  /\ worker' = [worker EXCEPT ![w] = [pc |-> "load", article |-> a, target |-> "failed",
                                      catches |-> 0]]
  /\ UNCHANGED <<dbVars, ingest, attempts, stalled, retry, excused>>

(* Mutant: returns without the SKIPPED status. *)
LoadArticleReturningEarly(w) ==
  /\ worker[w].pc = "load"
  /\ Goto(w, IF fresh[worker[w].article] THEN "lookup" ELSE "finish")
  /\ UNCHANGED <<dbVars, ingest, queueVars, retry, excused>>

(* Articles outside the window, or without a date, are skipped. *)
LoadArticle(w) ==
  /\ worker[w].pc = "load"
  /\ IF fresh[worker[w].article] THEN Goto(w, "lookup") ELSE GotoWrite(w, "skipped", 0)
  /\ UNCHANGED <<dbVars, ingest, queueVars, retry, excused>>

(* Mutants: the fullAnalysisAt check dropped; its outcome taken for any      *)
(* relevant row.                                                             *)
LookupRerunningFull(w) ==
  LET row == analysis[worker[w].article] IN
  /\ worker[w].pc = "lookup"
  /\ \/ row = "none" /\ Enter(w, "prescreen", 1)
     \/ row = "rejected" /\ GotoWrite(w, "skipped", 0)
     \/ row \in {"relevant", "full"} /\ Goto(w, "full")
  /\ UNCHANGED <<dbVars, ingest, queueVars, retry, excused>>

LookupSkippingStage2(w) ==
  LET row == analysis[worker[w].article] IN
  /\ worker[w].pc = "lookup"
  /\ \/ row = "none" /\ Enter(w, "prescreen", 1)
     \/ row = "rejected" /\ GotoWrite(w, "skipped", 0)
     \/ row \in {"relevant", "full"} /\ GotoWrite(w, "analyzed", 0)
  /\ UNCHANGED <<dbVars, ingest, queueVars, retry, excused>>

(* Where an existing analysis row is resumed. *)
LookupAnalysis(w) ==
  LET row == analysis[worker[w].article] IN
  /\ worker[w].pc = "lookup"
  /\ \/ row = "none" /\ Enter(w, "prescreen", 1)
     \/ row = "rejected" /\ GotoWrite(w, "skipped", 0)
     \/ row = "full" /\ GotoWrite(w, "analyzed", 0)
     \/ row = "relevant" /\ Goto(w, "full")
  /\ UNCHANGED <<dbVars, ingest, queueVars, retry, excused>>

(* Mutant: no unique constraint on article_analyses.articleId. *)
LastVerdict(row, verdict) == verdict

(* Stage 1: the provider's verdict and the insert of the row.  articleId is  *)
(* unique, so of two executions that found no row the second is told 23505.  *)
PrescreenVerdict(row, verdict) == IF row = "none" THEN verdict ELSE row

Prescreen(w) ==
  LET a == worker[w].article IN
  /\ worker[w].pc = "prescreen"
  /\ \E verdict \in {"rejected", "relevant"} :
       /\ analysis' = [analysis EXCEPT ![a] = PrescreenVerdict(@, verdict)]
       /\ \/ analysis[a] # "none" /\ Enter(w, "raced", 0)
          \/ analysis[a] = "none" /\ verdict = "rejected" /\ GotoWrite(w, "skipped", 1)
          \/ analysis[a] = "none" /\ verdict = "relevant" /\ Goto(w, "full")
  /\ UNCHANGED <<status, fresh, mainStream, streams, ingest, queueVars, retry, excused>>

PrescreenFails(w) ==
  /\ worker[w].pc = "prescreen"
  /\ GotoWrite(w, "failed", 0)
  /\ UNCHANGED <<dbVars, ingest, queueVars, retry, excused>>

(* The catch of 23505 re-reads the row: a relevant one is resumed, every     *)
(* other one, rejected included, is reported as analyzed.                    *)
ResumeAfterRace(w) ==
  /\ worker[w].pc = "raced"
  /\ IF analysis[worker[w].article] = "relevant"
       THEN Goto(w, "full")
       ELSE GotoWrite(w, "analyzed", 0)
  /\ UNCHANGED <<dbVars, ingest, queueVars, retry, excused>>

(* upsertArticleStream for the main stream and then the secondary ones. *)
Upserted(rows, main, secondary) ==
  [s \in Streams |-> IF s = main THEN "primary"
                     ELSE IF s \in secondary THEN "secondary"
                     ELSE rows[s]]

(* IDX_article_streams_primary_per_article, checked statement by statement:  *)
(* the main stream is written before an older primary could be demoted.      *)
PrimaryConflict(rows, main) ==
  main # None /\ \E s \in Streams \ {main} : rows[s] = "primary"

(* Stage 2: one transaction.  A main stream key that resolves to no stream   *)
(* leaves mainStreamId null and writes no primary row.                       *)
RunFullAnalysis(w) ==
  LET a == worker[w].article IN
  /\ worker[w].pc = "full"
  /\ \E main \in Streams \cup {None} : \E secondary \in SUBSET (Streams \ {main}) :
       /\ Cardinality(secondary) <= MaxSecondary
       /\ ~ PrimaryConflict(streams[a], main)
       /\ streams' = [streams EXCEPT ![a] = Upserted(@, main, secondary)]
       /\ mainStream' = [mainStream EXCEPT ![a] = main]
  /\ analysis' = [analysis EXCEPT ![a] = "full"]
  /\ GotoWrite(w, "analyzed", worker[w].catches + 1)
  /\ UNCHANGED <<status, fresh, ingest, queueVars, retry, excused>>

(* A provider or database error, the unique index included, rolls back. *)
FullAnalysisFails(w) ==
  /\ worker[w].pc = "full"
  /\ GotoWrite(w, "failed", worker[w].catches)
  /\ UNCHANGED <<dbVars, ingest, queueVars, retry, excused>>

WriteStatus(w) ==
  LET a == worker[w].article IN
  /\ worker[w].pc = "write"
  /\ ~ Locked(a)
  /\ status' = [status EXCEPT ![a] = worker[w].target]
  /\ Goto(w, "finish")
  /\ excused' = [excused EXCEPT ![a] = FALSE]
  /\ UNCHANGED <<fresh, analysis, mainStream, streams, ingest, queueVars, retry>>

WriteFails(w) ==
  /\ worker[w].pc = "write"
  /\ worker[w].catches > 0
  /\ GotoWrite(w, "failed", worker[w].catches - 1)
  /\ UNCHANGED <<dbVars, ingest, queueVars, retry, excused>>

(* A database error no catch of analyzeArticle handles fails the job. *)
JobThrows(w) ==
  LET a    == worker[w].article
      next == AfterThrow(attempts[a] + 1, MaxAttempts) IN
  /\ \/ worker[w].pc \in {"load", "lookup", "raced"}
     \/ worker[w].pc = "write" /\ worker[w].catches = 0
  /\ Leave(w)
  /\ IF owner[a] = w
       THEN /\ attempts' = [attempts EXCEPT ![a] = @ + 1]
            /\ job' = [job EXCEPT ![a] = next]
            /\ owner' = [owner EXCEPT ![a] = None]
            /\ Excuse(a, next = "failed")
       ELSE UNCHANGED <<attempts, job, owner, excused>>
  /\ UNCHANGED <<dbVars, ingest, stalled, retry>>

(* Mutant: whoever returns completes the job, the loser of its lock as well. *)
JobCompletesWithoutLock(w) ==
  LET a == worker[w].article IN
  /\ worker[w].pc = "finish"
  /\ Leave(w)
  /\ job' = [job EXCEPT ![a] = IF @ \in Executable THEN "completed" ELSE @]
  /\ owner' = [owner EXCEPT ![a] = None]
  /\ UNCHANGED <<dbVars, ingest, attempts, stalled, retry, excused>>

(* The processor returns.  A worker that lost the lock cannot complete it. *)
JobCompletes(w) ==
  LET a == worker[w].article IN
  /\ worker[w].pc = "finish"
  /\ Leave(w)
  /\ IF owner[a] = w
       THEN /\ job' = [job EXCEPT ![a] = "completed"]
            /\ owner' = [owner EXCEPT ![a] = None]
       ELSE UNCHANGED <<job, owner>>
  /\ UNCHANGED <<dbVars, ingest, attempts, stalled, retry, excused>>

WorkerCrash(w) ==
  LET a == worker[w].article IN
  /\ worker[w].pc # "idle"
  /\ Leave(w)
  /\ owner' = IF owner[a] = w THEN [owner EXCEPT ![a] = None] ELSE owner
  /\ UNCHANGED <<dbVars, ingest, job, attempts, stalled, retry, excused>>

-----------------------------------------------------------------------------
(* ArticleAnalysisRetryService.retry, one execution per request. *)

GotoRetry(r, pc) == retry' = [retry EXCEPT ![r].pc = pc]
EndRetry(r)      == retry' = [retry EXCEPT ![r] = IdleRetry]

(* The transaction locks the article row and remembers its status. *)
BeginRetry(r, a) ==
  /\ retry[r].pc = "idle"
  /\ status[a] # "absent"
  /\ ~ Locked(a)
  /\ retry' = [retry EXCEPT ![r] = [pc |-> "look", article |-> a, created |-> FALSE,
                                    previous |-> status[a]]]
  /\ UNCHANGED <<dbVars, ingest, queueVars, worker, excused>>

(* Mutant: an active job is replaced as well. *)
LookAtJobReplacingActive(r) ==
  LET state == job[retry[r].article] IN
  /\ retry[r].pc = "look"
  /\ GotoRetry(r, IF state \in Retained \cup {"active"} THEN "remove"
                  ELSE IF state = "none" THEN "add"
                  ELSE "commit")
  /\ UNCHANGED <<dbVars, ingest, queueVars, worker, excused>>

(* prepareAnalyzeArticleRetry: getJob and getState; a finished job is        *)
(* removed, any other is left to run.                                        *)
LookAtJob(r) ==
  LET state == job[retry[r].article] IN
  /\ retry[r].pc = "look"
  /\ GotoRetry(r, IF state \in Retained THEN "remove"
                  ELSE IF state = "none" THEN "add"
                  ELSE "commit")
  /\ UNCHANGED <<dbVars, ingest, queueVars, worker, excused>>

RemoveRetained(r) ==
  LET a == retry[r].article IN
  /\ retry[r].pc = "remove"
  /\ job' = [job EXCEPT ![a] = "none"]
  /\ GotoRetry(r, "add")
  /\ UNCHANGED <<dbVars, ingest, attempts, stalled, owner, worker, excused>>

(* A new job, delayed by 30 s so that it does not start before the commit. *)
AddRetryJob(r) ==
  LET a == retry[r].article IN
  /\ retry[r].pc = "add"
  /\ Add(a, AddedDelayed(job[a]))
  /\ retry' = [retry EXCEPT ![r].pc = "commit", ![r].created = TRUE]
  /\ UNCHANGED <<dbVars, ingest, owner, worker, excused>>

(* The comment of retry(): committed only after BullMQ confirmed a job.  The *)
(* job LookAtJob saw may have done its work since, or be about to complete.  *)
RetryCommits(r) ==
  LET a == retry[r].article IN
  /\ retry[r].pc = "commit"
  /\ status' = [status EXCEPT ![a] = "pending"]
  /\ GotoRetry(r, "activate")
  /\ excused' = [excused EXCEPT ![a] = Overtaken(a)]
  /\ UNCHANGED <<fresh, analysis, mainStream, streams, ingest, queueVars, worker>>

(* A database or Redis error rolls back; only a job this request created is  *)
(* withdrawn.                                                                *)
RetryAborts(r) ==
  /\ retry[r].pc \in InTransaction
  /\ IF retry[r].created THEN GotoRetry(r, "compensate") ELSE EndRetry(r)
  /\ UNCHANGED <<dbVars, ingest, queueVars, worker, excused>>

CompensateRetry(r) ==
  LET a == retry[r].article IN
  /\ retry[r].pc = "compensate"
  /\ job' = [job EXCEPT ![a] = Withdrawn(@)]
  /\ EndRetry(r)
  /\ Excuse(a, job[a] \in Removable)
  /\ UNCHANGED <<dbVars, ingest, attempts, stalled, owner, worker>>

(* Mutant: a missing job is not an error. *)
ActivateIgnoringMissing(r) ==
  LET a == retry[r].article IN
  /\ retry[r].pc = "activate"
  /\ job' = [job EXCEPT ![a] = Promoted(@)]
  /\ EndRetry(r)
  /\ UNCHANGED <<dbVars, ingest, attempts, stalled, owner, worker, excused>>

(* A missing job throws; a delayed one is promoted, any other left alone. *)
ActivateRetry(r) ==
  LET a == retry[r].article IN
  /\ retry[r].pc = "activate"
  /\ job' = [job EXCEPT ![a] = Promoted(@)]
  /\ IF job[a] = "none" THEN GotoRetry(r, "check") ELSE EndRetry(r)
  /\ UNCHANGED <<dbVars, ingest, attempts, stalled, owner, worker, excused>>

ActivateFails(r) ==
  /\ retry[r].pc = "activate"
  /\ GotoRetry(r, "check")
  /\ UNCHANGED <<dbVars, ingest, queueVars, worker, excused>>

(* hasArticleAnalysisRetryJob: a job that is still there will run anyway. *)
CheckJob(r) ==
  /\ retry[r].pc = "check"
  /\ IF job[retry[r].article] = "none" THEN GotoRetry(r, "restore") ELSE EndRetry(r)
  /\ UNCHANGED <<dbVars, ingest, queueVars, worker, excused>>

Restored(now, previous) == IF now = "pending" THEN previous ELSE now

RestoreStatus(r) ==
  LET a == retry[r].article IN
  /\ retry[r].pc = "restore"
  /\ ~ Locked(a)
  /\ status' = [status EXCEPT ![a] = Restored(@, retry[r].previous)]
  /\ EndRetry(r)
  /\ excused' = [excused EXCEPT ![a] = status'[a] = "pending"]
  /\ UNCHANGED <<fresh, analysis, mainStream, streams, ingest, queueVars, worker>>

(* The API process dies, or an error escapes outside the transaction. *)
RetryDies(r) ==
  LET a == retry[r].article IN
  /\ retry[r].pc # "idle"
  /\ EndRetry(r)
  /\ Excuse(a, job[a] = "none" /\ retry[r].pc \in {"activate", "check", "restore"})
  /\ UNCHANGED <<dbVars, ingest, queueVars, worker>>

-----------------------------------------------------------------------------
IngestStep(a) == CreateArticle(a) \/ MarkPending(a) \/ EnqueueAnalysis(a)

WorkerStep(w) ==
  \/ LoadArticle(w) \/ LookupAnalysis(w) \/ Prescreen(w) \/ ResumeAfterRace(w)
  \/ RunFullAnalysis(w) \/ WriteStatus(w) \/ JobCompletes(w)

WorkerFault(w) ==
  PrescreenFails(w) \/ FullAnalysisFails(w) \/ WriteFails(w) \/ JobThrows(w) \/ WorkerCrash(w)

RetryStep(r) ==
  \/ LookAtJob(r) \/ RemoveRetained(r) \/ AddRetryJob(r) \/ RetryCommits(r)
  \/ CompensateRetry(r) \/ ActivateRetry(r) \/ CheckJob(r) \/ RestoreStatus(r)

RetryFault(r) == RetryAborts(r) \/ ActivateFails(r) \/ RetryDies(r)

Next ==
  \/ \E a \in Articles : \/ IngestStep(a) \/ IngestInterrupted(a) \/ Age(a)
                         \/ DelayElapses(a) \/ StallDetected(a) \/ CancelJob(a)
                         \/ \E w \in Workers : TakeJob(w, a)
                         \/ \E r \in Admins : BeginRetry(r, a)
  \/ \E w \in Workers : WorkerStep(w) \/ WorkerFault(w)
  \/ \E r \in Admins : RetryStep(r) \/ RetryFault(r)

Spec == Init /\ [][Next]_vars

(***************************************************************************)
(* Running replicas keep taking jobs and finishing what they took, BullMQ  *)
(* runs its delayed and stalled checks, and a started request goes on.     *)
(* PostgreSQL grants row locks in order, so a status write that meets open *)
(* retries again and again is still let through: strong fairness.          *)
(***************************************************************************)
Fairness ==
  /\ \A a \in Articles :
       /\ WF_vars(IngestStep(a)) /\ WF_vars(DelayElapses(a)) /\ WF_vars(StallDetected(a))
       /\ WF_vars(\E w \in Workers : TakeJob(w, a))
  /\ \A w \in Workers : WF_vars(WorkerStep(w)) /\ SF_vars(WriteStatus(w))
  /\ \A r \in Admins : WF_vars(RetryStep(r))

FairSpec == Spec /\ Fairness

-----------------------------------------------------------------------------
(***************************************************************************)
(* Properties.                                                             *)
(***************************************************************************)

(* The requests that have committed PENDING and have yet to notice that the  *)
(* job they rely on was cancelled under them.                                *)
WillRestore(a) ==
  /\ job[a] = "none"
  /\ \E r \in Admins : /\ retry[r].article = a
                       /\ retry[r].pc \in {"activate", "check", "restore"}

(* A pending article has a job that will be executed, or its fetcher is      *)
(* about to add one, or a retry is about to put the old status back; the     *)
(* only exceptions are the events Excuse records: the hand-over between      *)
(* PostgreSQL and BullMQ loses nothing else.                                 *)
PendingHasWork ==
  \A a \in Articles :
    status[a] = "pending" =>
      \/ job[a] \in Executable
      \/ ingest[a] = "marked"
      \/ WillRestore(a)
      \/ excused[a]

(* As long as BullMQ gives a job to one live worker at a time, no article is *)
(* analysed by two executions at once, whatever crashes, retries and         *)
(* cancellations do.                                                         *)
OneExecution ==
  \A v, w \in Workers :
    worker[v].pc # "idle" /\ worker[w].pc # "idle"
      /\ worker[v].article = worker[w].article => v = w

(* An ANALYZED article has its full analysis: fullAnalysisAt is set before   *)
(* the status, and no path reports an article that was only pre-screened.    *)
AnalyzedIsComplete == \A a \in Articles : status[a] = "analyzed" => analysis[a] = "full"

(* The comment on ArticleStream: isPrimary always agrees with                *)
(* ArticleAnalysis.mainStreamId.                                             *)
PrimaryAgreesWithMain ==
  \A a \in Articles, s \in Streams : streams[a][s] = "primary" <=> mainStream[a] = s

(* A finished full analysis is never paid for or changed again: a retry of a *)
(* failed, cancelled or crashed job resumes from the row instead.            *)
FullAnalysisIsKept ==
  [][\A a \in Articles : analysis[a] = "full" =>
       /\ analysis'[a] = "full"
       /\ mainStream'[a] = mainStream[a]
       /\ streams'[a] = streams[a]]_vars

(* The pre-screen verdict of an article is never reversed: a rejected article *)
(* never reaches full analysis, even when two executions race for the row.    *)
VerdictIsFinal ==
  [][\A a \in Articles : /\ analysis[a] = "rejected" => analysis'[a] = "rejected"
                         /\ analysis[a] # "none" => analysis'[a] # "none"]_vars

(* Every pending article that no fault deprived of its job gets an outcome,  *)
(* or is put back by the retry that failed to activate it.                   *)
PendingSettles ==
  \A a \in Articles :
    status[a] = "pending" /\ ~ excused[a]
      ~> status[a] # "pending" \/ excused[a]

(* "the article is not committed as pending unless recoverable queue work    *)
(* exists" (description of POST :id/retry-analysis): a retry never commits   *)
(* PENDING over a job that has already ended.                                *)
RetryCommitsRecoverable ==
  [][\A r \in Admins : RetryCommits(r) => ~ Overtaken(retry[r].article)]_vars

(* README of ai-analysis: a rejected pre-screen leaves the article skipped,  *)
(* never among the analyzed articles feeds and digests read.                 *)
RejectedIsNeverAnalyzed ==
  \A a \in Articles : analysis[a] = "rejected" => status[a] # "analyzed"
=============================================================================
