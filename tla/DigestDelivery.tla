--------------------------- MODULE DigestDelivery ---------------------------
(***************************************************************************)
(* The digests of one user and one type: overlapping sweeps that enqueue   *)
(* the digest of the local day, the workers that build, mail and mark it,  *)
(* administrators who build previews and have stored digests mailed again. *)
(* One action per database, queue or mail round trip.  Users and types     *)
(* share nothing but the workers, so one of each is enough.                *)
(***************************************************************************)
EXTENDS Integers, FiniteSets, FiniteSetsExt, JobQueue

CONSTANTS
  Workers,     \* executions of DigestProcessor, DIGEST_QUEUE_CONCURRENCY in the code
  Sweepers,    \* executions of digest-sweep jobs
  Previews,    \* POST /admin/digests/trigger requests, each with its own periodKey
  Resends,     \* resend-digest jobs, each with its own job id
  DayTicks,    \* clock ticks of a local day; the sweep window is the first
  Cap,         \* periodHours, in ticks
  MaxDay,      \* local days considered (bound)
  MaxAttempts, \* defaultJobOptions.attempts of the digest queue
  MaxStalled,  \* BullMQ's maxStalledCount
  LiveStalls,  \* may a live worker lose its job lock?
  Crashes,     \* may the process die?
  None         \* no job, no digest

ASSUME ClockAssumption ==
  /\ DayTicks \in Nat \ {0} /\ Cap \in Nat /\ Cap <= DayTicks /\ MaxDay \in Nat \ {0}
ASSUME BullAssumption ==
  /\ MaxAttempts \in Nat \ {0} /\ MaxStalled \in Nat
  /\ LiveStalls \in BOOLEAN /\ Crashes \in BOOLEAN
ASSUME NamesAssumption ==
  /\ Previews \cap Nat = {} /\ Resends \cap Nat = {} /\ Workers \cap Previews = {}
  /\ None \notin Previews \cup Resends \cup Nat
  /\ None \notin Int \X Nat  \* nor a span of time

Periods   == 1 .. MaxDay            \* "<type>:<local date>"
Keys      == Periods \cup Previews
Jobs      == Periods \cup Resends   \* digest-<user>-<type>-<period> and resend-<id>-<time>
Executors == Workers \cup Previews
Times     == DayTicks .. (DayTicks * (MaxDay + 1) - 1)
Never     == 0                      \* a null timestamp

VARIABLES
  now,       \* the clock, in ticks
  digest,    \* the digests rows of this user and type, by periodKey
  job,       \* the jobs of the digest queue, sweeps excepted
  sweep,     \* executions of runSweep, at their pending enqueue
  run,       \* executions of DigestProcessor and of trigger requests
  delivered, \* history: when a digest was mailed for the first time
  bodiless   \* history: a mail went out without its bodies

vars == <<now, digest, job, sweep, run, delivered, bodiless>>

(* full: htmlBody and textBody are stored. *)
Digest   == [status : {"none", "draft", "sent", "failed", "skipped_empty"}, start : Int,
             end : Nat, full : BOOLEAN, sentAt : Times \cup {Never}]
NoDigest == [status |-> "none", start |-> 0, end |-> 0, full |-> FALSE, sentAt |-> Never]

Job   == [state : JobState, made : Nat, stalled : 0 .. MaxStalled, key : Keys \cup {None}]
NoJob == [state |-> "none", made |-> 0, stalled |-> 0, key |-> None]

(* full: the digest in memory has its bodies; late: the job's lock is lost. *)
Run  == [pc : {"idle", "plan", "insert", "store", "queue", "load", "mail", "sent", "failed"},
         job : Jobs \cup {None}, key : Keys \cup {None}, start : Int, end : Nat,
         full : BOOLEAN, late : BOOLEAN]
Idle == [pc |-> "idle", job |-> None, key |-> None, start |-> 0, end |-> 0,
         full |-> FALSE, late |-> FALSE]

Sweep   == [pc : {"idle", "remove", "add"}, period : Periods \cup {None}]
NoSweep == [pc |-> "idle", period |-> None]

TypeOK ==
  /\ now \in Times
  /\ digest \in [Keys -> Digest]
  /\ job \in [Jobs -> Job]
  /\ sweep \in [Sweepers -> Sweep]
  /\ run \in [Executors -> Run]
  /\ delivered \in [Keys -> Times \cup {Never}]
  /\ bodiless \in BOOLEAN

Init ==
  /\ now = DayTicks
  /\ digest = [k \in Keys |-> NoDigest]
  /\ job = [j \in Jobs |-> NoJob]
  /\ sweep = [s \in Sweepers |-> NoSweep]
  /\ run = [e \in Executors |-> Idle]
  /\ delivered = [k \in Keys |-> Never]
  /\ bodiless = FALSE

Tick ==
  /\ now + 1 \in Times
  /\ now' = now + 1
  /\ UNCHANGED <<digest, job, sweep, run, delivered, bodiless>>

-----------------------------------------------------------------------------
(* DigestSweepService.runSweep and QueueService.addSendPersonalDigestJob. *)

Today    == now \div DayTicks
InWindow == now % DayTicks = 0

(* maybeEnqueue: only a day without a digest, whatever became of it. *)
SweepLooks(s) ==
  /\ sweep[s].pc = "idle"
  /\ InWindow /\ digest[Today].status = "none"
  /\ sweep' = [sweep EXCEPT ![s] = [pc |-> "remove", period |-> Today]]
  /\ UNCHANGED <<now, digest, job, run, delivered, bodiless>>

SweepRemoves(s) ==
  /\ sweep[s].pc = "remove"
  /\ job' = [job EXCEPT ![sweep[s].period] = IF @.state \in Retained THEN NoJob ELSE @]
  /\ sweep' = [sweep EXCEPT ![s].pc = "add"]
  /\ UNCHANGED <<now, digest, run, delivered, bodiless>>

SweepAdds(s) ==
  LET p == sweep[s].period IN
  /\ sweep[s].pc = "add"
  /\ job' = [job EXCEPT ![p].state = Added(@), ![p].key = p]
  /\ sweep' = [sweep EXCEPT ![s] = NoSweep]
  /\ UNCHANGED <<now, digest, run, delivered, bodiless>>

-----------------------------------------------------------------------------
(* The queue. *)

Goto(e, pc) == run' = [run EXCEPT ![e].pc = pc]
Stop(e)     == run' = [run EXCEPT ![e] = Idle]

Settle(e, state, made) ==
  LET j == run[e].job IN
  job' = IF j = None \/ run[e].late THEN job
         ELSE [job EXCEPT ![j].state = state, ![j].made = made]

MadeOf(e) == IF run[e].job = None THEN 0 ELSE job[run[e].job].made

Completes(e) == Settle(e, "completed", MadeOf(e)) /\ Stop(e)
Throws(e)    == Settle(e, AfterThrow(MadeOf(e) + 1, MaxAttempts), MadeOf(e) + 1) /\ Stop(e)

Take(w, j) ==
  /\ run[w].pc = "idle"
  /\ job[j].state = "waiting"
  /\ job' = [job EXCEPT ![j].state = "active"]
  /\ run' = [run EXCEPT ![w] = [Idle EXCEPT !.pc = IF j \in Resends THEN "load" ELSE "plan",
                                            !.job = j, !.key = job[j].key]]
  /\ UNCHANGED <<now, digest, sweep, delivered, bodiless>>

Crash ==
  /\ Crashes
  /\ \E e \in Executors : run[e].pc # "idle"
  /\ run' = [e \in Executors |-> Idle]
  /\ sweep' = [s \in Sweepers |-> NoSweep]
  /\ UNCHANGED <<now, digest, job, delivered, bodiless>>

Orphaned(j) == \A e \in Executors : run[e].job # j \/ run[e].late

Released(j) == run' = [e \in Executors |->
                         IF run[e].job = j THEN [run[e] EXCEPT !.late = TRUE] ELSE run[e]]

(* Mutant: a stalled job is given out again however often it stalled. *)
StallDetectedUnlimited(j) ==
  /\ job[j].state = "active"
  /\ Orphaned(j) \/ LiveStalls
  /\ job' = [job EXCEPT ![j].state = "waiting", ![j].stalled = @ + 1]
  /\ Released(j)
  /\ UNCHANGED <<now, digest, sweep, delivered, bodiless>>

(* The executor is gone, or (LiveStalls) has only failed to renew its lock. *)
StallDetected(j) ==
  /\ job[j].state = "active"
  /\ Orphaned(j) \/ LiveStalls
  /\ IF job[j].stalled < MaxStalled
       THEN job' = [job EXCEPT ![j].state = "waiting", ![j].stalled = @ + 1]
       ELSE job' = [job EXCEPT ![j].state = "failed"]
  /\ Released(j)
  /\ UNCHANGED <<now, digest, sweep, delivered, bodiless>>

-----------------------------------------------------------------------------
(* PersonalDigestBuilderService.buildForUser, by a worker or by a trigger.   *)

TriggerPreview(p) ==
  /\ p \in Previews
  /\ run[p].pc = "idle" /\ digest[p].status = "none"
  /\ run' = [run EXCEPT ![p] = [Idle EXCEPT !.pc = "plan", !.key = p]]
  /\ UNCHANGED <<now, digest, job, sweep, delivered, bodiless>>

(* Mutant: the query of the previous digest forgets the delivery mode. *)
PreviousOfAnyMode == {digest[k].sentAt : k \in {k \in Keys : digest[k].status = "sent"}}

(* The query of the previous digest: sent, and scheduled. *)
Previous == {digest[p].sentAt : p \in {p \in Periods : digest[p].status = "sent"}}

PeriodStart == Max(Previous \cup {now - Cap})

(* The stored digest is mailed whatever its status, unless it is empty. *)
PlanStored(e) ==
  /\ run[e].pc = "plan"
  /\ digest[run[e].key].status # "none"
  /\ IF digest[run[e].key].status = "skipped_empty" THEN Completes(e)
     ELSE /\ run' = [run EXCEPT ![e].pc = "mail", ![e].full = digest[run[e].key].full]
          /\ UNCHANGED job
  /\ UNCHANGED <<now, digest, sweep, delivered, bodiless>>

PlanNew(e) ==
  /\ run[e].pc = "plan"
  /\ digest[run[e].key].status = "none"
  /\ run' = [run EXCEPT ![e].pc = "insert", ![e].start = PeriodStart, ![e].end = now]
  /\ UNCHANGED <<now, digest, job, sweep, delivered, bodiless>>

Row(e, status) == [NoDigest EXCEPT !.status = status, !.start = run[e].start, !.end = run[e].end]

(* Mutant: no unique index on (userId, type, periodKey): the second insert   *)
(* stands for the key.                                                       *)
InsertAnyway(e) ==
  /\ run[e].pc = "insert"
  /\ digest' = [digest EXCEPT ![run[e].key] = Row(e, "draft")]
  /\ Goto(e, "store")
  /\ UNCHANGED <<now, job, sweep, delivered, bodiless>>

(* An empty selection ends the build; a preview is queued all the same.      *)
Insert(e) ==
  LET k == run[e].key IN
  /\ run[e].pc = "insert"
  /\ \/ /\ digest[k].status # "none"
        /\ Throws(e)
        /\ UNCHANGED digest
     \/ /\ digest[k].status = "none"
        /\ digest' = [digest EXCEPT ![k] = Row(e, "draft")]
        /\ Goto(e, "store")
        /\ UNCHANGED job
     \/ /\ digest[k].status = "none"
        /\ digest' = [digest EXCEPT ![k] = Row(e, "skipped_empty")]
        /\ IF e \in Previews THEN Goto(e, "queue") /\ UNCHANGED job
           ELSE Completes(e)
  /\ UNCHANGED <<now, sweep, delivered, bodiless>>

(* Items, stream pages, then the bodies: save(digest) also writes back the   *)
(* status and sentAt that the entity was created with.                       *)
Store(e) ==
  LET k == run[e].key IN
  /\ run[e].pc = "store"
  /\ digest' = [digest EXCEPT ![k].full = TRUE, ![k].status = "draft", ![k].sentAt = Never]
  /\ run' = [run EXCEPT ![e].pc = IF e \in Previews THEN "queue" ELSE "mail", ![e].full = TRUE]
  /\ UNCHANGED <<now, job, sweep, delivered, bodiless>>

QueuePreview(p) ==
  /\ run[p].pc = "queue"
  /\ \E r \in Resends :
       /\ job[r].state = "none"
       /\ job' = [job EXCEPT ![r] = [NoJob EXCEPT !.state = "waiting", !.key = run[p].key]]
  /\ Stop(p)
  /\ UNCHANGED <<now, digest, sweep, delivered, bodiless>>

(* The database, OpenAI or Redis fails before the digest is mailed. *)
BuildFails(e) ==
  /\ run[e].pc \in {"plan", "insert", "store", "queue", "load"}
  /\ Throws(e)
  /\ UNCHANGED <<now, digest, sweep, delivered, bodiless>>

-----------------------------------------------------------------------------
(* DigestProcessor.trySend and the resend of a stored digest. *)

(* POST /admin/digests/:id/resend, for any stored digest. *)
Resend(k) ==
  /\ digest[k].status # "none"
  /\ \E r \in Resends :
       /\ job[r].state = "none"
       /\ job' = [job EXCEPT ![r] = [NoJob EXCEPT !.state = "waiting", !.key = k]]
  /\ UNCHANGED <<now, digest, sweep, run, delivered, bodiless>>

(* Mutant: handleResend mails an empty digest as well. *)
LoadAny(e) ==
  /\ run[e].pc = "load"
  /\ run' = [run EXCEPT ![e].pc = "mail", ![e].full = digest[run[e].key].full]
  /\ UNCHANGED <<now, digest, job, sweep, delivered, bodiless>>

(* handleResend: an empty digest is left alone. *)
Load(e) ==
  /\ run[e].pc = "load"
  /\ IF digest[run[e].key].status = "skipped_empty" THEN Completes(e)
     ELSE /\ run' = [run EXCEPT ![e].pc = "mail", ![e].full = digest[run[e].key].full]
          /\ UNCHANGED job
  /\ UNCHANGED <<now, digest, sweep, delivered, bodiless>>

Posted(e) ==
  /\ delivered' = [delivered EXCEPT ![run[e].key] = IF @ = Never THEN now ELSE @]
  /\ bodiless' = (bodiless \/ ~ run[e].full)

Mail(e) ==
  /\ run[e].pc = "mail"
  /\ Posted(e)
  /\ Goto(e, "sent")
  /\ UNCHANGED <<now, digest, job, sweep>>

(* Mutant: the error that Resend returns is not thrown. *)
MailErrorIgnored(e) ==
  /\ run[e].pc = "mail"
  /\ Goto(e, "sent")
  /\ UNCHANGED <<now, digest, job, sweep, delivered, bodiless>>

(* Refused, or accepted while the answer was lost. *)
MailFails(e) ==
  /\ run[e].pc = "mail"
  /\ Posted(e) \/ UNCHANGED <<delivered, bodiless>>
  /\ Goto(e, "failed")
  /\ UNCHANGED <<now, digest, job, sweep>>

MarkSent(e) ==
  /\ run[e].pc = "sent"
  /\ digest' = [digest EXCEPT ![run[e].key].status = "sent", ![run[e].key].sentAt = now]
  /\ Completes(e)
  /\ UNCHANGED <<now, sweep, delivered, bodiless>>

(* Mutant: the failed update is tried again in place, mail included. *)
MarkSentRetried(e) ==
  /\ run[e].pc = "sent"
  /\ Goto(e, "mail")
  /\ UNCHANGED <<now, digest, job, sweep, delivered, bodiless>>

MarkSentFails(e) ==
  /\ run[e].pc = "sent"
  /\ Goto(e, "failed")
  /\ UNCHANGED <<now, digest, job, sweep, delivered, bodiless>>

(* markFailed, which may itself fail; the job's attempt fails either way. *)
MarkFailed(e) ==
  /\ run[e].pc = "failed"
  /\ \/ digest' = [digest EXCEPT ![run[e].key].status = "failed"]
     \/ UNCHANGED digest
  /\ Throws(e)
  /\ UNCHANGED <<now, sweep, delivered, bodiless>>

-----------------------------------------------------------------------------
RunStep(e) ==
  \/ PlanStored(e) \/ PlanNew(e) \/ Insert(e) \/ Store(e) \/ QueuePreview(e)
  \/ Load(e) \/ Mail(e) \/ MarkSent(e) \/ MarkFailed(e)

Next ==
  \/ Tick \/ Crash
  \/ \E s \in Sweepers : SweepLooks(s) \/ SweepRemoves(s) \/ SweepAdds(s)
  \/ \E w \in Workers, j \in Jobs : Take(w, j)
  \/ \E j \in Jobs : StallDetected(j)
  \/ \E p \in Previews : TriggerPreview(p)
  \/ \E k \in Keys : Resend(k)
  \/ \E e \in Executors : RunStep(e) \/ BuildFails(e) \/ MailFails(e) \/ MarkSentFails(e)

Spec == Init /\ [][Next]_vars

(* Executions go on, jobs are taken, and BullMQ's stalled check runs. *)
Fairness ==
  /\ \A e \in Executors : WF_vars(RunStep(e))
  /\ \A j \in Jobs : WF_vars(\E w \in Workers : Take(w, j)) /\ WF_vars(Orphaned(j) /\ StallDetected(j))

FairSpec == Spec /\ Fairness

-----------------------------------------------------------------------------
(***************************************************************************)
(* Properties.                                                             *)
(***************************************************************************)

(* README: "A unique (user, type, localPeriod) identity makes generation     *)
(* idempotent": however often a sweep, a retry or a lost lock starts the     *)
(* build, the period of a stored digest stays what it was and its bodies     *)
(* are not lost.                                                             *)
KeepsBuilt ==
  \A k \in Keys : digest[k].status # "none" =>
    /\ digest'[k].start = digest[k].start /\ digest'[k].end = digest[k].end
    /\ digest[k].full => digest'[k].full
GeneratedOnce == [][KeepsBuilt]_vars

(* The promise of DigestPromise: one generation per period, no mail of an    *)
(* empty digest ("Empty results are stored as skipped_empty and not sent"),  *)
(* neither by the job nor as a preview or a resend, no digest that counts as *)
(* sent, and so moves the next period, without a mail.                       *)
Promise == INSTANCE DigestPromise WITH
  period <- [k \in Keys |-> IF digest[k].status = "none" THEN None
                            ELSE <<digest[k].start, digest[k].end>>],
  empty  <- {k \in Keys : digest[k].status = "skipped_empty"},
  mailed <- {k \in Keys : delivered[k] # Never},
  sent   <- {k \in Keys : digest[k].status = "sent"}
KeepsPromise == Promise!Spec

(* A preview "does not advance scheduled daily or weekly delivery periods":  *)
(* a period shorter than the cap begins no earlier than the first mail of    *)
(* another scheduled digest.                                                 *)
PeriodsFollowScheduledMail ==
  \A p \in Periods : digest[p].status # "none" /\ digest[p].start > digest[p].end - Cap =>
    \E q \in Periods \ {p} : delivered[q] \in 1 .. digest[p].start

(* A digest job that was enqueued settles: attempts and stalls are bounded. *)
DigestJobsSettle == \A j \in Jobs : job[j].state \in Executable ~> job[j].state \notin Executable

(* Scheduler README: "Delivery retries reuse the stored body": no mail goes  *)
(* out without its bodies.                                                   *)
MailsHaveBodies == ~ bodiless

(* Resend: "Content is not regenerated and period state is not shifted": to  *)
(* mail a sent digest again leaves the moments that the next period may      *)
(* begin at as they were.                                                    *)
ResendsKeepPeriods ==
  \A e \in Executors :
    MarkSent(e) /\ run[e].job \in Resends /\ digest[run[e].key].status = "sent" => Previous' = Previous
ResendKeepsPeriod == [][ResendsKeepPeriods]_vars
=============================================================================
