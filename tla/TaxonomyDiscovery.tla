------------------------- MODULE TaxonomyDiscovery -------------------------
(***************************************************************************)
(* Source discovery for one technology or interest: the request row that   *)
(* records it, the BullMQ job taxonomy-<id>, the processor that runs it,   *)
(* the administrator who asks for it again (POST :id/discover-sources) and *)
(* the merge that retires the taxonomy.  What discovery proposes is the    *)
(* input of SourceCandidates.  Taxonomies share nothing but the workers.   *)
(***************************************************************************)
EXTENDS Naturals, FiniteSets, JobQueue

CONSTANTS
  Workers,     \* executions of TaxonomySourceDiscoveryProcessor
  Admins,      \* concurrent POST /admin/technology-interests/:id/discover-sources
  MaxRetries,  \* such requests considered (bound)
  MaxAttempts, \* defaultJobOptions.attempts of the queue
  MaxStalled,  \* BullMQ's maxStalledCount
  LiveStalls   \* may a live worker lose its job lock?

ASSUME DiscoveryAssumption ==
  /\ MaxRetries \in Nat /\ MaxAttempts \in Nat \ {0} /\ MaxStalled \in Nat
  /\ LiveStalls \in BOOLEAN

VARIABLES
  taxonomy, \* the technology_interests row
  creator,  \* how far the request that created the row has got
  request,  \* the taxonomy_source_discovery_requests row
  job,      \* the job taxonomy-<id>
  run,      \* executions of the processor
  retry,    \* executions of TaxonomySourceDiscoveryRetryService.retry
  asked,    \* requests for another discovery so far, for the bound
  begun,    \* history: executions that marked the request running
  excused   \* history: a known event left the unfinished request without a job

vars == <<taxonomy, creator, request, job, run, retry, asked, begun, excused>>

Status     == {"queued", "running", "completed", "failed"}
Unfinished == {"queued", "running"}

Request   == [status : Status, attempts : Nat, retries : Nat]
NoRequest == [status |-> "none", attempts |-> 0, retries |-> 0]

Job   == [state : JobState, made : 0 .. MaxAttempts, stalled : 0 .. MaxStalled]
NoJob == [state |-> "none", made |-> 0, stalled |-> 0]

(* copy: the entity in memory; base: the row that save compares it with;     *)
(* final: the last attempt; late: the lock of the job is lost.               *)
Run  == [pc : {"idle", "load", "mark", "discover", "read", "write", "finish"},
         copy : Request \cup {NoRequest}, base : Request \cup {NoRequest},
         final : BOOLEAN, late : BOOLEAN]
Idle == [pc |-> "idle", copy |-> NoRequest, base |-> NoRequest, final |-> FALSE, late |-> FALSE]

RetryPc == {"idle", "look", "remove", "add", "commit", "compensate", "activate", "check",
            "restore"}
Retry   == [pc : RetryPc, read : Request \cup {NoRequest}, created : BOOLEAN]
NoRetry == [pc |-> "idle", read |-> NoRequest, created |-> FALSE]

TypeOK ==
  /\ taxonomy \in {"absent", "live", "merged"}
  /\ creator \in {"unseen", "enqueue", "done"}
  /\ request \in Request \cup {NoRequest}
  /\ job \in Job
  /\ run \in [Workers -> Run]
  /\ retry \in [Admins -> Retry]
  /\ asked \in 0 .. MaxRetries
  /\ begun \in Nat
  /\ excused \in BOOLEAN

Init ==
  /\ taxonomy = "absent"
  /\ creator = "unseen"
  /\ request = NoRequest
  /\ job = NoJob
  /\ run = [w \in Workers |-> Idle]
  /\ retry = [r \in Admins |-> NoRetry]
  /\ asked = 0
  /\ begun = 0
  /\ excused = FALSE

-----------------------------------------------------------------------------
(* Row locks and what is known about the job. *)

(* The retry's transaction holds the taxonomy row and, if it found one, the  *)
(* request row.                                                              *)
InTransaction  == {"look", "remove", "add", "commit"}
TaxonomyLocked == \E r \in Admins : retry[r].pc \in InTransaction

(* Mutant: the request row is read without a lock. *)
NeverLocked == FALSE

RequestLocked ==
  \E r \in Admins : retry[r].pc \in InTransaction /\ retry[r].read # NoRequest

Finishing(w) == run[w].pc = "finish" /\ ~ run[w].late

(* The execution of the job has written its last status and will not leave   *)
(* the job for another attempt.                                              *)
Overtaken ==
  \/ job.state \in Retained
  \/ \E w \in Workers : Finishing(w) /\ run[w].copy.status # "queued"

Excuse(event) == excused' = (excused \/ (event /\ request.status \in Unfinished))

SetState(state) == job' = [job EXCEPT !.state = state]

(* TypeORM's save: the columns in which the entity differs from the row it   *)
(* has just read.                                                            *)
Saved(row, base, entity) ==
  [c \in DOMAIN row |-> IF entity[c] # base[c] THEN entity[c] ELSE row[c]]

-----------------------------------------------------------------------------
(* TechnologyInterestCommandService: createOrReuse, createForAdmin, merge. *)

CreateTaxonomy ==
  /\ taxonomy = "absent"
  /\ taxonomy' = "live"
  /\ creator' = "enqueue"
  /\ UNCHANGED <<request, job, run, retry, asked, begun, excused>>

EnqueueDiscovery ==
  /\ creator = "enqueue"
  /\ creator' = "done"
  /\ SetState(Added(job.state))
  /\ UNCHANGED <<taxonomy, request, run, retry, asked, begun, excused>>

(* The user's link or queue.add fails, or the process dies. *)
CreatorDies ==
  /\ creator = "enqueue"
  /\ creator' = "done"
  /\ UNCHANGED <<taxonomy, request, job, run, retry, asked, begun, excused>>

(* The loser of a merge is soft-deleted; its job and request are left alone. *)
Merge ==
  /\ taxonomy = "live"
  /\ ~ TaxonomyLocked
  /\ taxonomy' = "merged"
  /\ UNCHANGED <<creator, request, job, run, retry, asked, begun, excused>>

-----------------------------------------------------------------------------
(* The queue. *)

DelayElapses ==
  /\ job.state = "delayed"
  /\ SetState("waiting")
  /\ UNCHANGED <<taxonomy, creator, request, run, retry, asked, begun, excused>>

CancelJob ==
  /\ job.state \in Removable
  /\ job' = NoJob
  /\ Excuse(TRUE)
  /\ UNCHANGED <<taxonomy, creator, request, run, retry, asked, begun>>

Holds(w) == run[w].pc # "idle" /\ ~ run[w].late

StallDetected ==
  /\ job.state = "active"
  /\ LiveStalls \/ \A w \in Workers : ~ Holds(w)
  /\ job' = IF job.stalled < MaxStalled
            THEN [job EXCEPT !.state = "waiting", !.stalled = @ + 1]
            ELSE [job EXCEPT !.state = "failed"]
  /\ run' = [w \in Workers |-> [run[w] EXCEPT !.late = (run[w].pc # "idle")]]
  /\ Excuse(job'.state = "failed")
  /\ UNCHANGED <<taxonomy, creator, request, retry, asked, begun>>

-----------------------------------------------------------------------------
(* TaxonomySourceDiscoveryProcessor.process *)

Goto(w, pc) == run' = [run EXCEPT ![w].pc = pc]
Stop(w)     == run' = [run EXCEPT ![w] = Idle]

(* A worker that lost the lock settles nothing. *)
Settle(w, state, made) ==
  job' = IF run[w].late THEN job ELSE [job EXCEPT !.state = state, !.made = made]

Throws(w) == Settle(w, AfterThrow(job.made + 1, MaxAttempts), job.made + 1) /\ Stop(w)

(* Mutant: attemptsMade compared without the attempt that is running. *)
FinalOffByOne == job.made >= MaxAttempts

(* isFinalAttempt *)
FinalAttempt == job.made + 1 >= MaxAttempts

TakeJob(w) ==
  /\ run[w].pc = "idle"
  /\ job.state = "waiting"
  /\ SetState("active")
  /\ run' = [run EXCEPT ![w] = [Idle EXCEPT !.pc = "load", !.final = FinalAttempt]]
  /\ UNCHANGED <<taxonomy, creator, request, retry, asked, begun, excused>>

(* A merged taxonomy is not found and the job completes without a trace. *)
Load(w) ==
  /\ run[w].pc = "load"
  /\ IF taxonomy = "live"
     THEN Goto(w, "mark") /\ UNCHANGED <<job, excused>>
     ELSE /\ Settle(w, "completed", job.made)
          /\ Stop(w)
          /\ Excuse(~ run[w].late)
  /\ UNCHANGED <<taxonomy, creator, request, retry, asked, begun>>

(* markRunning: one transaction that locks the row or inserts it. *)
MarkRunning(w) ==
  LET row == [request EXCEPT !.status = "running", !.attempts = @ + 1] IN
  /\ run[w].pc = "mark"
  /\ ~ RequestLocked
  /\ request' = row
  /\ run' = [run EXCEPT ![w].pc = "discover", ![w].copy = row]
  /\ begun' = begun + 1
  /\ excused' = (job.state \notin Executable)
  /\ UNCHANGED <<taxonomy, creator, job, retry, asked>>

(* A database error before the try block: the job's attempt fails and the    *)
(* request keeps its status.                                                 *)
BeginFails(w) ==
  /\ run[w].pc \in {"load", "mark"}
  /\ Throws(w)
  /\ Excuse(job'.state = "failed")
  /\ UNCHANGED <<taxonomy, creator, request, retry, asked, begun>>

FailureStatus(w) == IF run[w].final THEN "failed" ELSE "queued"

SaveAs(w, status) == run' = [run EXCEPT ![w].pc = "read", ![w].copy.status = status]

(* All streams done, or a proposal or promotion has thrown. *)
Discover(w) ==
  /\ run[w].pc = "discover"
  /\ SaveAs(w, "completed") \/ SaveAs(w, FailureStatus(w))
  /\ UNCHANGED <<taxonomy, creator, request, job, retry, asked, begun, excused>>

(* save(request): a read of the row, and the update of what differs. *)
SaveReads(w) ==
  /\ run[w].pc = "read"
  /\ run' = [run EXCEPT ![w].pc = "write", ![w].base = request]
  /\ UNCHANGED <<taxonomy, creator, request, job, retry, asked, begun, excused>>

(* An outcome that the row showed when it was read is not written, although  *)
(* a retry may have queued the request since.                                *)
SaveWrites(w) ==
  /\ run[w].pc = "write"
  /\ ~ RequestLocked
  /\ request' = Saved(request, run[w].base, run[w].copy)
  /\ Goto(w, "finish")
  /\ excused' = (request'.status \in Unfinished /\
                  (excused \/ job.state \notin Executable \/ request'.status # run[w].copy.status))
  /\ UNCHANGED <<taxonomy, creator, job, retry, asked, begun>>

(* Mutant: a save that fails is simply tried again. *)
SaveFailsRetrying(w) ==
  /\ run[w].pc \in {"read", "write"}
  /\ Goto(w, "read")
  /\ UNCHANGED <<taxonomy, creator, request, job, retry, asked, begun, excused>>

(* The save of a completed request fails into the catch, whose own save may  *)
(* fail as well and leave the row as it is.                                  *)
SaveFails(w) ==
  /\ run[w].pc \in {"read", "write"}
  /\ IF run[w].copy.status = "completed"
     THEN SaveAs(w, FailureStatus(w)) /\ UNCHANGED <<job, excused>>
     ELSE Throws(w) /\ Excuse(job'.state = "failed")
  /\ UNCHANGED <<taxonomy, creator, request, retry, asked, begun>>

Finish(w) ==
  /\ run[w].pc = "finish"
  /\ IF run[w].copy.status = "completed"
     THEN Settle(w, "completed", job.made) /\ Stop(w)
     ELSE Throws(w)
  /\ UNCHANGED <<taxonomy, creator, request, retry, asked, begun, excused>>

WorkerCrash(w) ==
  /\ run[w].pc # "idle"
  /\ Stop(w)
  /\ UNCHANGED <<taxonomy, creator, request, job, retry, asked, begun, excused>>

-----------------------------------------------------------------------------
(* TaxonomySourceDiscoveryRetryService.retry *)

GotoRetry(r, pc) == retry' = [retry EXCEPT ![r].pc = pc]
EndRetry(r)      == retry' = [retry EXCEPT ![r] = NoRetry]

(* The transaction locks the taxonomy and then the request row. *)
BeginRetry(r) ==
  /\ retry[r].pc = "idle"
  /\ taxonomy = "live"
  /\ ~ TaxonomyLocked
  /\ asked < MaxRetries
  /\ asked' = asked + 1
  /\ retry' = [retry EXCEPT ![r] = [NoRetry EXCEPT !.pc = "look", !.read = request]]
  /\ UNCHANGED <<taxonomy, creator, request, job, run, begun, excused>>

(* Mutant: an active job is replaced as well. *)
LookReplacingActive(r) ==
  /\ retry[r].pc = "look"
  /\ GotoRetry(r, IF job.state \in Retained \cup {"active"} THEN "remove"
                  ELSE IF job.state = "none" THEN "add"
                  ELSE "commit")
  /\ UNCHANGED <<taxonomy, creator, request, job, run, asked, begun, excused>>

(* prepareTaxonomySourceDiscoveryRetry: a job that will run is left alone, *)
LookAtJob(r) ==
  /\ retry[r].pc = "look"
  /\ GotoRetry(r, IF job.state \in Retained THEN "remove"
                  ELSE IF job.state = "none" THEN "add"
                  ELSE "commit")
  /\ UNCHANGED <<taxonomy, creator, request, job, run, asked, begun, excused>>

(* a finished one is removed, and a delayed one added in its place. *)
RemoveRetained(r) ==
  /\ retry[r].pc = "remove"
  /\ job' = NoJob
  /\ GotoRetry(r, "add")
  /\ UNCHANGED <<taxonomy, creator, request, run, asked, begun, excused>>

AddRetryJob(r) ==
  /\ retry[r].pc = "add"
  /\ SetState(AddedDelayed(job.state))
  /\ retry' = [retry EXCEPT ![r].pc = "commit", ![r].created = TRUE]
  /\ UNCHANGED <<taxonomy, creator, request, run, asked, begun, excused>>

(* A request row inserted since the read makes the insert fail. *)
RetryCommits(r) ==
  LET read == retry[r].read IN
  /\ retry[r].pc = "commit"
  /\ read = NoRequest => request = NoRequest
  /\ request' = [read EXCEPT !.status = "queued", !.retries = @ + 1]
  /\ GotoRetry(r, "activate")
  /\ excused' = Overtaken
  /\ UNCHANGED <<taxonomy, creator, job, run, asked, begun>>

RetryAborts(r) ==
  /\ retry[r].pc \in InTransaction
  /\ IF retry[r].created THEN GotoRetry(r, "compensate") ELSE EndRetry(r)
  /\ UNCHANGED <<taxonomy, creator, request, job, run, asked, begun, excused>>

CompensateRetry(r) ==
  /\ retry[r].pc = "compensate"
  /\ job' = IF job.state \in Removable THEN NoJob ELSE job
  /\ EndRetry(r)
  /\ Excuse(job.state \in Removable)
  /\ UNCHANGED <<taxonomy, creator, request, run, asked, begun>>

ActivateRetry(r) ==
  /\ retry[r].pc = "activate"
  /\ SetState(Promoted(job.state))
  /\ IF job.state = "none" THEN GotoRetry(r, "check") ELSE EndRetry(r)
  /\ UNCHANGED <<taxonomy, creator, request, run, asked, begun, excused>>

ActivateFails(r) ==
  /\ retry[r].pc = "activate"
  /\ GotoRetry(r, "check")
  /\ UNCHANGED <<taxonomy, creator, request, job, run, asked, begun, excused>>

CheckJob(r) ==
  /\ retry[r].pc = "check"
  /\ IF job.state = "none" THEN GotoRetry(r, "restore") ELSE EndRetry(r)
  /\ UNCHANGED <<taxonomy, creator, request, job, run, asked, begun, excused>>

(* Mutant: the status of a request that did not exist is restored too. *)
RestoreAnyStatus(r) ==
  /\ retry[r].pc = "restore"
  /\ ~ RequestLocked
  /\ request' = IF request.status = "queued"
                THEN [request EXCEPT !.status = retry[r].read.status] ELSE request
  /\ EndRetry(r)
  /\ excused' = (request'.status \in Unfinished)
  /\ UNCHANGED <<taxonomy, creator, job, run, asked, begun>>

(* A request that the retry itself created stays queued. *)
RestoreStatus(r) ==
  /\ retry[r].pc = "restore"
  /\ ~ RequestLocked
  /\ request' = IF request.status = "queued" /\ retry[r].read # NoRequest
                THEN [request EXCEPT !.status = retry[r].read.status] ELSE request
  /\ EndRetry(r)
  /\ excused' = (request'.status \in Unfinished)
  /\ UNCHANGED <<taxonomy, creator, job, run, asked, begun>>

(* The API process dies, or an error escapes outside the transaction. *)
RetryDies(r) ==
  /\ retry[r].pc # "idle"
  /\ EndRetry(r)
  /\ Excuse(job.state = "none" /\ retry[r].pc \in {"activate", "check", "restore"})
  /\ UNCHANGED <<taxonomy, creator, request, job, run, asked, begun>>

-----------------------------------------------------------------------------
WorkerStep(w) ==
  \/ Load(w) \/ MarkRunning(w) \/ Discover(w) \/ SaveReads(w) \/ SaveWrites(w) \/ Finish(w)

RetryStep(r) ==
  \/ LookAtJob(r) \/ RemoveRetained(r) \/ AddRetryJob(r) \/ RetryCommits(r)
  \/ CompensateRetry(r) \/ ActivateRetry(r) \/ CheckJob(r) \/ RestoreStatus(r)

Next ==
  \/ CreateTaxonomy \/ EnqueueDiscovery \/ CreatorDies \/ Merge
  \/ DelayElapses \/ CancelJob \/ StallDetected
  \/ \E w \in Workers : TakeJob(w) \/ WorkerStep(w) \/ BeginFails(w) \/ SaveFails(w) \/ WorkerCrash(w)
  \/ \E r \in Admins : BeginRetry(r) \/ RetryStep(r) \/ RetryAborts(r) \/ ActivateFails(r) \/ RetryDies(r)

Spec == Init /\ [][Next]_vars

(* Executions and requests that run go on, jobs are taken, BullMQ's delayed  *)
(* and stalled checks run, and PostgreSQL grants row locks in turn.          *)
Fairness ==
  /\ WF_vars(DelayElapses) /\ WF_vars(StallDetected)
  /\ WF_vars(\E w \in Workers : TakeJob(w))
  /\ \A w \in Workers : SF_vars(WorkerStep(w))
  /\ \A r \in Admins : WF_vars(RetryStep(r) \/ RetryAborts(r))

FairSpec == Spec /\ Fairness

-----------------------------------------------------------------------------
(***************************************************************************)
(* Properties.                                                             *)
(***************************************************************************)

(* Retries that have committed QUEUED and will find their job gone. *)
WillRestore ==
  /\ job.state = "none"
  /\ \E r \in Admins : retry[r].pc \in {"activate", "check", "restore"}

(* A request shown as queued or running has a job that will be executed, or  *)
(* a retry is about to take its status back; the only exceptions are the     *)
(* events that Excuse records.                                               *)
UnfinishedHasWork ==
  request.status \in Unfinished => job.state \in Executable \/ WillRestore \/ excused

(* README of the queue: retry preparation "refuses active duplicates": two   *)
(* executions of one discovery never run side by side, unless BullMQ takes   *)
(* the job from a live worker.                                               *)
OneDiscovery ==
  \A v, w \in Workers : run[v].pc # "idle" /\ run[w].pc # "idle" => v = w

(* README: the row records the attempt count: every execution that began is  *)
(* counted, although the processor and retries save entities they read       *)
(* before each other's writes.                                               *)
AttemptsAreCounted == request.attempts = begun

(* "completed or failed": every request that no fault deprived of its job    *)
(* gets an outcome, or is put back by the retry that lost its job.           *)
RequestSettles ==
  request.status \in Unfinished /\ ~ excused ~> request.status \notin Unfinished \/ excused

(* README of taxonomy: "retry count and last error remain on the same row":  *)
(* a retry once counted stays counted.                                       *)
RetriesAreCounted == [][request'.retries >= request.retries]_vars
=============================================================================
