-------------------------- MODULE SourceCandidates --------------------------
(***************************************************************************)
(* The onboarding of sources: URL submissions, taxonomy discovery and      *)
(* administrators drive SourceCandidatesService.promote, which creates a   *)
(* provisional source, samples it, and then enables it or deletes it       *)
(* again.  One action per database or queue round trip.  An entity that is *)
(* saved writes every column it was loaded with: run[e].copy is the loaded *)
(* candidate.                                                              *)
(***************************************************************************)
EXTENDS Naturals, FiniteSets, JobQueue

CONSTANTS
  Candidates,  \* candidates, by normalizedUrl
  Feed,        \* the url of a feed that the candidates' pages lead to
  Workers,     \* executions of TaxonomySourceDiscoveryProcessor
  Requests,    \* concurrent submissions and POST /admin/source-candidates/:id/retry
  Feeds,       \* may discovery find the feed?
  Discovers,   \* does taxonomy discovery propose the candidates?
  Crashes,     \* may the process die?
  Sources,     \* ids of sources; one that nothing refers to any more is used again (bound)
  MaxAttempts, \* defaultJobOptions.attempts of the taxonomy discovery queue
  MaxStalled,  \* BullMQ's maxStalledCount
  None         \* no source, candidate, url

ASSUME OnboardingAssumption ==
  /\ Feeds \in BOOLEAN /\ Discovers \in BOOLEAN /\ Crashes \in BOOLEAN
  /\ MaxAttempts \in Nat \ {0} /\ MaxStalled \in Nat
ASSUME NamesAssumption ==
  /\ Workers \cap Requests = {} /\ Feed \notin Candidates
  /\ None \notin Candidates \cup {Feed} \cup Sources

VARIABLES
  candidate, \* the source_candidates rows
  source,    \* the sources rows, by id
  job,       \* the jobs candidate-<id>
  run,       \* executions of the processor and of HTTP requests
  validated, \* history: the sources, of those that exist, whose samples were relevant
  lost       \* history: candidates whose job failed outside its handlers

vars == <<candidate, source, job, run, validated, lost>>

Urls       == Candidates \cup {Feed}
Executions == Workers \cup Requests

(* marker: proposedConfig.provisionalSourceId. *)
Candidate   == [status : {"none", "pending", "active", "rejected"}, marker : Sources \cup {None},
                activated : Sources \cup {None}]
NoCandidate == [status |-> "none", marker |-> None, activated |-> None]
NewCandidate == [NoCandidate EXCEPT !.status = "pending"]

(* A row that does not exist, or no longer, has no url. *)
Source   == [url : Urls \cup {None}, enabled : BOOLEAN]
NoSource == [url |-> None, enabled |-> FALSE]

Job   == [state : JobState, made : 0 .. MaxAttempts, stalled : 0 .. MaxStalled]
NoJob == [state |-> "none", made |-> 0, stalled |-> 0]

RunPc == {"idle", "look", "save", "enqueue", "load", "discard", "unmark", "discover",
          "provision", "insert", "mark", "sample", "enable", "activate", "attach", "rollback",
          "reject", "failing", "giveUp"}

(* final: a discovery job in its last attempt. *)
Run  == [kind : {"none", "job", "discovery", "admin", "submit"}, pc : RunPc,
         of : Candidates \cup {None}, copy : Candidate, source : Sources \cup {None},
         url : Urls \cup {None}, final : BOOLEAN]
Idle == [kind |-> "none", pc |-> "idle", of |-> None, copy |-> NoCandidate, source |-> None,
         url |-> None, final |-> FALSE]

TypeOK ==
  /\ candidate \in [Candidates -> Candidate]
  /\ source \in [Sources -> Source]
  /\ job \in [Candidates -> Job]
  /\ run \in [Executions -> Run]
  /\ validated \subseteq Sources
  /\ lost \subseteq Candidates

Init ==
  /\ candidate = [c \in Candidates |-> NoCandidate]
  /\ source = [i \in Sources |-> NoSource]
  /\ job = [c \in Candidates |-> NoJob]
  /\ run = [e \in Executions |-> Idle]
  /\ validated = {}
  /\ lost = {}

-----------------------------------------------------------------------------
(* Identity, control flow and outcomes. *)

(* findEquivalent, by the unique url of the row. *)
Equivalent(url) == {i \in Sources : source[i].url = url}

(* Ids of no row that no row and no execution still refers to. *)
Fresh ==
  {i \in Equivalent(None) :
     /\ \A c \in Candidates : i \notin {candidate[c].marker, candidate[c].activated}
     /\ \A e \in Executions :
          i \notin {run[e].source, run[e].copy.marker, run[e].copy.activated}}

Goto(e, pc)   == run' = [run EXCEPT ![e].pc = pc]
Stop(e)       == run' = [run EXCEPT ![e] = Idle]
Row(e)        == candidate[run[e].of]
SaveRow(e, row) == candidate' = [candidate EXCEPT ![run[e].of] = row]
DeleteSource(i) ==
  /\ source' = [source EXCEPT ![i] = NoSource]
  /\ validated' = validated \ {i}

(* ON DELETE SET NULL of source_candidates.activatedSourceId. *)
Unlinked(i) == candidate' = [c \in Candidates |->
                 [candidate[c] EXCEPT !.activated = IF @ = i THEN None ELSE @]]

Finish(e) ==
  /\ job' = IF run[e].kind = "job" THEN [job EXCEPT ![run[e].of].state = "completed"] ELSE job
  /\ Stop(e)

(* Mutant: a job that stalls is taken again without limit. *)
StallDetectedUnlimited(c) ==
  /\ job[c].state = "active"
  /\ \A e \in Executions : ~ (run[e].kind = "job" /\ run[e].of = c)
  /\ job' = [job EXCEPT ![c].state = "waiting", ![c].stalled = @ + 1]
  /\ UNCHANGED <<candidate, source, run, validated, lost>>

(* Mutant: attemptsMade compared without the attempt that is running. *)
LastAttemptOffByOne(e) ==
  IF run[e].kind = "job" THEN job[run[e].of].made >= MaxAttempts ELSE run[e].final

(* isFinalAttempt *)
LastAttempt(e) ==
  IF run[e].kind = "job" THEN job[run[e].of].made + 1 >= MaxAttempts ELSE run[e].final

(* An error out of promote: the processors retry it or, in their last        *)
(* attempt, reject the candidate; a request reports it.                      *)
PromoteThrows(e) ==
  LET j == job[run[e].of] IN
  \/ /\ LastAttempt(e) /\ run[e].kind \in {"job", "discovery"}
     /\ run' = [run EXCEPT ![e] = [Idle EXCEPT !.kind = run[e].kind, !.pc = "failing",
                                              !.of = run[e].of]]
     /\ UNCHANGED job
  \/ /\ ~ LastAttempt(e) \/ run[e].kind \in {"admin", "submit"}
     /\ job' = IF run[e].kind = "job"
               THEN [job EXCEPT ![run[e].of] =
                       [j EXCEPT !.state = AfterThrow(j.made + 1, MaxAttempts), !.made = j.made + 1]]
               ELSE job
     /\ Stop(e)

-----------------------------------------------------------------------------
(* Entry points. *)

(* SourceSubmissionService.submit: an unknown url goes on to create. *)
Submit(e, c) ==
  /\ e \in Requests
  /\ candidate[c].status = "none" /\ Equivalent(c) = {}
  /\ run' = [run EXCEPT ![e] = [Idle EXCEPT !.kind = "submit", !.pc = "look", !.of = c]]

(* A proposal of a discovery job, created and then promoted in that job. *)
Propose(e, c) ==
  /\ Discovers /\ e \in Workers
  /\ \E final \in BOOLEAN :
       run' = [run EXCEPT ![e] = [Idle EXCEPT !.kind = "discovery", !.pc = "look", !.of = c,
                                              !.final = final]]

(* SourceCandidatesService.create begins. *)
BeginCreate(e, c) ==
  /\ run[e].pc = "idle"
  /\ Submit(e, c) \/ Propose(e, c)
  /\ UNCHANGED <<candidate, source, job, validated, lost>>

AdminPromotes(e, c) ==
  /\ e \in Requests
  /\ run[e].pc = "idle"
  /\ candidate[c].status # "none"
  /\ run' = [run EXCEPT ![e] = [Idle EXCEPT !.kind = "admin", !.pc = "load", !.of = c]]
  /\ UNCHANGED <<candidate, source, job, validated, lost>>

TakeJob(e, c) ==
  /\ e \in Workers
  /\ run[e].pc = "idle"
  /\ job[c].state = "waiting"
  /\ job' = [job EXCEPT ![c].state = "active"]
  /\ run' = [run EXCEPT ![e] = [Idle EXCEPT !.kind = "job", !.pc = "load", !.of = c]]
  /\ UNCHANGED <<candidate, source, validated, lost>>

(* create: the row that exists, if any, *)
Look(e) ==
  /\ run[e].pc = "look"
  /\ run' = [run EXCEPT ![e].pc = "save", ![e].copy = Row(e)]
  /\ UNCHANGED <<candidate, source, job, validated, lost>>

(* is saved again as it was read; otherwise a pending one is inserted.       *)
Save(e) ==
  LET read == run[e].copy IN
  /\ run[e].pc = "save"
  /\ \/ /\ read.status = "none" /\ Row(e).status # "none"
        /\ Stop(e)
        /\ UNCHANGED candidate
     \/ /\ read.status # "none" \/ Row(e).status = "none"
        /\ SaveRow(e, IF read.status = "none" THEN NewCandidate ELSE read)
        /\ run' = [run EXCEPT ![e].pc = IF run[e].kind = "submit" THEN "enqueue" ELSE "load",
                              ![e].copy = NoCandidate]
  /\ UNCHANGED <<source, job, validated, lost>>

Enqueue(e) ==
  /\ run[e].pc = "enqueue"
  /\ job' = [job EXCEPT ![run[e].of].state = Added(@)]
  /\ Stop(e)
  /\ UNCHANGED <<candidate, source, validated, lost>>

-----------------------------------------------------------------------------
(* promote *)

(* The candidate, and the source that is equivalent to its url: its own      *)
(* provisional one is discarded, any other is attached.                      *)
Load(e) ==
  LET found == Equivalent(run[e].of) IN
  /\ run[e].pc = "load"
  /\ \/ /\ found = {}
        /\ run' = [run EXCEPT ![e].pc = "discover", ![e].copy = Row(e)]
     \/ \E i \in found :
          run' = [run EXCEPT ![e].pc = IF Row(e).marker = i THEN "discard" ELSE "attach",
                             ![e].copy = Row(e), ![e].source = i]
  /\ UNCHANGED <<candidate, source, job, validated, lost>>

Discard(e) ==
  /\ run[e].pc = "discard"
  /\ DeleteSource(run[e].source)
  /\ Unlinked(run[e].source)
  /\ run' = [run EXCEPT ![e].pc = "unmark", ![e].copy.marker = None]
  /\ UNCHANGED <<job, lost>>

Unmark(e) ==
  /\ run[e].pc = "unmark"
  /\ SaveRow(e, run[e].copy)
  /\ Goto(e, "discover")
  /\ UNCHANGED <<source, job, validated, lost>>

(* discoverEntryPoints fails, or finds the page's articles or its feed. *)
Discover(e) ==
  /\ run[e].pc = "discover"
  /\ \/ Goto(e, "reject")
     \/ \E url \in {run[e].of} \cup (IF Feeds THEN {Feed} ELSE {}) :
          run' = [run EXCEPT ![e].pc = "provision", ![e].url = url]
  /\ UNCHANGED <<candidate, source, job, validated, lost>>

(* Mutant: creators of one identity are not serialized. *)
NeverLocked(url) == FALSE

(* The advisory lock of an identity, held to the end of the transaction. *)
Locked(url) == \E e \in Executions : run[e].pc = "insert" /\ run[e].url = url

(* resolveOrCreate takes the lock and looks again. *)
Provision(e) ==
  LET found == Equivalent(run[e].url) IN
  /\ run[e].pc = "provision"
  /\ ~ Locked(run[e].url)
  /\ \/ found = {} /\ Goto(e, "insert")
     \/ \E i \in found : run' = [run EXCEPT ![e].pc = "attach", ![e].source = i, ![e].url = None]
  /\ UNCHANGED <<candidate, source, job, validated, lost>>

(* The insert, which the unique url of a source refuses when it is taken.    *)
Insert(e) ==
  /\ run[e].pc = "insert"
  /\ \/ /\ Equivalent(run[e].url) = {}
        /\ \E i \in Fresh :
             /\ source' = [source EXCEPT ![i] = [url |-> run[e].url, enabled |-> FALSE]]
             /\ run' = [run EXCEPT ![e].pc = "mark", ![e].source = i, ![e].url = None]
        /\ UNCHANGED job
     \/ /\ Equivalent(run[e].url) # {}
        /\ PromoteThrows(e)
        /\ UNCHANGED source
  /\ UNCHANGED <<candidate, validated, lost>>

Mark(e) ==
  /\ run[e].pc = "mark"
  /\ SaveRow(e, [run[e].copy EXCEPT !.marker = run[e].source])
  /\ run' = [run EXCEPT ![e].pc = "sample", ![e].copy.marker = run[e].source]
  /\ UNCHANGED <<source, job, validated, lost>>

(* Mutant: the threshold is not looked at. *)
SampleAccepted(e) ==
  /\ run[e].pc = "sample"
  /\ Goto(e, "enable")
  /\ UNCHANGED <<candidate, source, job, validated, lost>>

(* Enough of the sampled articles are relevant, or not. *)
Sample(e) ==
  /\ run[e].pc = "sample"
  /\ \/ /\ validated' = validated \cup ({run[e].source} \ Equivalent(None))
        /\ Goto(e, "enable")
     \/ /\ Goto(e, "rollback")
        /\ UNCHANGED validated
  /\ UNCHANGED <<candidate, source, job, lost>>

(* An update, which finds no row when the source was deleted meanwhile. *)
Enable(e) ==
  /\ run[e].pc = "enable"
  /\ source' = [source EXCEPT ![run[e].source].enabled = (source[run[e].source].url # None)]
  /\ Goto(e, "activate")
  /\ UNCHANGED <<candidate, job, validated, lost>>

(* attachCoverage and the save of an active candidate: the foreign key       *)
(* refuses a source that is gone.  Only promotion clears the marker.         *)
Activate(e) ==
  /\ run[e].pc \in {"activate", "attach"}
  /\ \/ /\ source[run[e].source].url # None
        /\ SaveRow(e, [status |-> "active", activated |-> run[e].source,
                       marker |-> IF run[e].pc = "activate" THEN None ELSE run[e].copy.marker])
        /\ Finish(e)
     \/ /\ source[run[e].source].url = None
        /\ PromoteThrows(e)
        /\ UNCHANGED candidate
  /\ UNCHANGED <<source, validated, lost>>

Rollback(e) ==
  /\ run[e].pc = "rollback"
  /\ DeleteSource(run[e].source)
  /\ Unlinked(run[e].source)
  /\ run' = [run EXCEPT ![e].pc = "reject", ![e].copy.marker = None]
  /\ UNCHANGED <<job, lost>>

(* rejectProcessingFailure fails itself: the job fails and the candidate is *)
(* left as it is.                                                           *)
Abandon(e) ==
  LET c == run[e].of IN
  /\ IF run[e].kind = "job"
     THEN /\ job' = [job EXCEPT ![c].state = "failed", ![c].made = MaxAttempts]
          /\ lost' = lost \cup {c}
     ELSE UNCHANGED <<job, lost>>
  /\ Stop(e)

(* markRejected; the entity keeps the activatedSourceId it was loaded with, *)
(* which the foreign key refuses when that source is gone.                  *)
Reject(e) ==
  LET links == {None, Row(e).activated} \cup {i \in Sources : source[i].url # None} IN
  /\ run[e].pc \in {"reject", "giveUp"}
  /\ \/ /\ run[e].copy.activated \in links
        /\ SaveRow(e, [run[e].copy EXCEPT !.status = "rejected"])
        /\ Finish(e)
        /\ UNCHANGED lost
     \/ /\ run[e].copy.activated \notin links /\ run[e].pc = "reject"
        /\ PromoteThrows(e)
        /\ UNCHANGED <<candidate, lost>>
     \/ /\ run[e].copy.activated \notin links /\ run[e].pc = "giveUp"
        /\ Abandon(e)
        /\ UNCHANGED candidate
  /\ UNCHANGED <<source, validated>>

(* The network, the provider or the database fails. *)
PromoteFails(e) ==
  /\ run[e].pc \in {"look", "save", "enqueue", "load", "discard", "unmark", "discover", "provision",
                    "insert", "mark", "sample", "enable", "activate", "attach", "rollback", "reject"}
  /\ IF run[e].pc \in {"look", "save", "enqueue"} THEN Stop(e) /\ UNCHANGED job
     ELSE PromoteThrows(e)
  /\ UNCHANGED <<candidate, source, validated, lost>>

(* rejectProcessingFailure: the source that the row still marks is deleted.  *)
Failing(e) ==
  LET i == Row(e).marker IN
  /\ run[e].pc = "failing"
  /\ run' = [run EXCEPT ![e].pc = "giveUp", ![e].copy = [Row(e) EXCEPT !.marker = None]]
  /\ IF i = None THEN UNCHANGED <<source, candidate, validated>>
     ELSE DeleteSource(i) /\ Unlinked(i)
  /\ UNCHANGED <<job, lost>>

FailingFails(e) ==
  /\ run[e].pc \in {"failing", "giveUp"}
  /\ Abandon(e)
  /\ UNCHANGED <<candidate, source, validated>>

Crash ==
  /\ Crashes
  /\ \E e \in Executions : run[e].pc # "idle"
  /\ run' = [e \in Executions |-> Idle]
  /\ UNCHANGED <<candidate, source, job, validated, lost>>

StallDetected(c) ==
  /\ job[c].state = "active"
  /\ \A e \in Executions : ~ (run[e].kind = "job" /\ run[e].of = c)
  /\ \/ /\ job[c].stalled < MaxStalled
        /\ job' = [job EXCEPT ![c].state = "waiting", ![c].stalled = @ + 1]
        /\ UNCHANGED lost
     \/ /\ job[c].stalled = MaxStalled
        /\ job' = [job EXCEPT ![c].state = "failed"]
        /\ lost' = lost \cup {c}
  /\ UNCHANGED <<candidate, source, run, validated>>

-----------------------------------------------------------------------------
RunStep(e) ==
  \/ Look(e) \/ Save(e) \/ Enqueue(e) \/ Load(e) \/ Discard(e) \/ Unmark(e) \/ Discover(e)
  \/ Provision(e) \/ Insert(e) \/ Mark(e) \/ Sample(e) \/ Enable(e) \/ Activate(e) \/ Rollback(e)
  \/ Reject(e) \/ Failing(e)

Next ==
  \/ Crash
  \/ \E e \in Executions : RunStep(e) \/ PromoteFails(e) \/ FailingFails(e)
  \/ \E e \in Executions, c \in Candidates :
       BeginCreate(e, c) \/ AdminPromotes(e, c) \/ TakeJob(e, c)
  \/ \E c \in Candidates : StallDetected(c)

Spec == Init /\ [][Next]_vars

(* Executions go on, an advisory lock is granted in turn, jobs are taken, and *)
(* BullMQ's stalled check runs.                                              *)
Fairness ==
  /\ \A e \in Executions : WF_vars(RunStep(e)) /\ SF_vars(Provision(e))
  /\ \A c \in Candidates : SF_vars(\E e \in Workers : TakeJob(e, c)) /\ WF_vars(StallDetected(c))

FairSpec == Spec /\ Fairness

-----------------------------------------------------------------------------
(***************************************************************************)
(* Properties.                                                             *)
(***************************************************************************)

(* "the advisory lock makes the expected race a normal reuse outcome": no    *)
(* creator of a source runs into the unique constraint, however promotions,  *)
(* deletions and crashes interleave.                                         *)
CreatorsNeverCollide == \A e \in Executions : run[e].pc = "insert" => Equivalent(run[e].url) = {}

(* A source that ingestion may fetch was found relevant, in whatever order   *)
(* concurrent promotions, failures and deletions of it ran.                  *)
EnabledWasValidated == \A i \in Sources : source[i].enabled => i \in validated

(* A queued candidate reaches a terminal status, "never silently discarded", *)
(* unless its job failed outside every handler.                              *)
CandidateSettles ==
  \A c \in Candidates :
    candidate[c].status = "pending" /\ job[c].state \in Executable
      ~> candidate[c].status \in {"active", "rejected"} \/ c \in lost

(* README of sources: "Validation requires ... at least one sample that      *)
(* matches": an active candidate stands on a source whose samples matched.   *)
ActiveWasValidated ==
  \A c \in Candidates :
    candidate[c].status = "active" /\ candidate[c].activated # None
      => candidate[c].activated \in validated

(* The source a candidate marks "is not a validated concurrent winner": what *)
(* onboarding deletes is never a source that ingestion already fetches.      *)
EnabledIsKept == [][\A i \in Sources : source[i].enabled => source'[i].url # None]_vars

(* README of sources: "provisional sampling sources ... are deleted after     *)
(* promotion or terminal failure": a candidate that becomes rejected does    *)
(* not leave a disabled source behind that it marks as its own.              *)
ProvisionalIsDeleted ==
  [][\A c \in Candidates, i \in Sources :
       candidate[c].status = "pending" /\ candidate'[c].status = "rejected" =>
         ~ (candidate'[c].marker = i /\ source'[i].url # None /\ ~ source'[i].enabled)]_vars

(* README of sources: "A candidate is pending while queued". *)
PendingIsQueued ==
  \A c \in Candidates :
    candidate[c].status = "pending" =>
      \/ job[c].state \in Executable
      \/ \E e \in Executions : run[e].of = c

(* create "refreshes the existing row (proposedConfig, lastValidatedAt)": it *)
(* leaves the status of a candidate alone.                                   *)
RefreshKeepsStatus ==
  [][\A e \in Executions :
       Save(e) /\ Row(e).status # "none" => candidate'[run[e].of].status = Row(e).status]_vars
=============================================================================
