----------------------- MODULE SourceCandidatesProofs -----------------------
(***************************************************************************)
(* Theorems about SourceCandidates, for every set of candidates, workers,  *)
(* requests and source ids and every limit.                                *)
(***************************************************************************)
EXTENDS SourceCandidates, TLAPS

(***************************************************************************)
(* The inductive invariant.                                                *)
(***************************************************************************)

(* What an execution has found so far. *)
Filled(r) ==
  /\ r.pc # "idle" => r.of \in Candidates
  /\ r.pc \in {"discard", "attach", "mark", "sample", "enable", "activate", "rollback"}
       => r.source \in Sources
  /\ r.pc \in {"provision", "insert"} => r.url \in Urls

FilledInv == \A e \in Executions : Filled(run[e])

(* The advisory lock of an identity: who holds it is alone and was told that *)
(* the identity has no source.                                               *)
LockInv ==
  /\ CreatorsNeverCollide
  /\ \A d, e \in Executions :
       run[d].pc = "insert" /\ run[e].pc = "insert" /\ run[d].url = run[e].url => d = e

(* Who is about to enable a source has validated it, unless it was deleted   *)
(* meanwhile; its id is not given to another source while it is referred to. *)
EnabledInv ==
  /\ EnabledWasValidated
  /\ \A e \in Executions :
       run[e].pc = "enable" => run[e].source \in validated \/ source[run[e].source].url = None

IInv == TypeOK /\ FilledInv /\ LockInv /\ EnabledInv

(***************************************************************************)
(* Type correctness.                                                       *)
(***************************************************************************)

LEMMA NamesDiffer == None \notin Candidates /\ None \notin Urls /\ None \notin Sources
BY NamesAssumption DEF Urls

LEMMA RecordTypes ==
  /\ NoCandidate \in Candidate /\ NewCandidate \in Candidate
  /\ NoSource \in Source /\ NoJob \in Job /\ Idle \in Run
<1>1. NoCandidate \in Candidate
  BY DEF NoCandidate, Candidate
<1>2. NewCandidate \in Candidate
  BY <1>1 DEF NewCandidate, Candidate
<1>3. Idle \in Run
  BY <1>1 DEF Idle, Run, RunPc
<1>4. NoSource \in Source /\ NoJob \in Job
  BY OnboardingAssumption DEF NoSource, Source, NoJob, Job, JobState
<1> QED BY <1>1, <1>2, <1>3, <1>4

LEMMA InitType == Init => TypeOK /\ FilledInv
<1> SUFFICES ASSUME Init PROVE TypeOK /\ FilledInv
  OBVIOUS
<1>1. /\ candidate \in [Candidates -> Candidate] /\ source \in [Sources -> Source]
      /\ job \in [Candidates -> Job] /\ run \in [Executions -> Run]
  BY RecordTypes DEF Init
<1>2. validated \subseteq Sources /\ lost \subseteq Candidates
  BY DEF Init
<1>3. FilledInv
  BY DEF Init, FilledInv, Filled, Idle
<1> QED BY <1>1, <1>2, <1>3 DEF TypeOK

(* Steps of one execution assign well-typed records. *)
LEMMA SetRun ==
  ASSUME TypeOK, FilledInv, NEW e \in Executions, NEW r \in Run, Filled(r), run' = [run EXCEPT ![e] = r]
  PROVE  run' \in [Executions -> Run] /\ FilledInv'
BY DEF TypeOK, FilledInv

LEMMA IdleFilled == Filled(Idle)
BY DEF Filled, Idle

LEMMA StopRun ==
  ASSUME TypeOK, FilledInv, NEW e \in Executions, Stop(e)
  PROVE  run' \in [Executions -> Run] /\ FilledInv'
BY SetRun, IdleFilled, RecordTypes DEF Stop

LEMMA GotoRun ==
  ASSUME TypeOK, FilledInv, NEW e \in Executions, NEW pc \in RunPc,
         Filled([run[e] EXCEPT !.pc = pc]), Goto(e, pc)
  PROVE  run' \in [Executions -> Run] /\ FilledInv'
<1>1. [run[e] EXCEPT !.pc = pc] \in Run
  BY DEF TypeOK, Run
<1>2. run' = [run EXCEPT ![e] = [run[e] EXCEPT !.pc = pc]]
  BY DEF Goto, TypeOK
<1> QED BY <1>1, <1>2, SetRun

LEMMA SaveRowType ==
  ASSUME TypeOK, FilledInv, NEW e \in Executions, run[e].pc # "idle", NEW row \in Candidate, SaveRow(e, row)
  PROVE  candidate' \in [Candidates -> Candidate]
BY DEF SaveRow, TypeOK, FilledInv, Filled

LEMMA UnlinkedType ==
  ASSUME TypeOK, NEW i, Unlinked(i) PROVE candidate' \in [Candidates -> Candidate]
<1>1. \A c \in Candidates :
        [candidate[c] EXCEPT !.activated = IF @ = i THEN None ELSE @] \in Candidate
  BY DEF TypeOK, Candidate
<1> QED BY <1>1 DEF Unlinked

LEMMA DeleteType ==
  ASSUME TypeOK, NEW i, DeleteSource(i)
  PROVE  source' \in [Sources -> Source] /\ validated' \subseteq Sources
BY RecordTypes DEF DeleteSource, TypeOK

LEMMA RowType ==
  ASSUME TypeOK, FilledInv, NEW e \in Executions, run[e].pc # "idle"
  PROVE  run[e].of \in Candidates /\ Row(e) \in Candidate /\ run[e] \in Run /\ run[e].copy \in Candidate
BY DEF TypeOK, FilledInv, Filled, Row, Run

LEMMA ThrowsType ==
  ASSUME TypeOK, FilledInv, NEW e \in Executions, run[e].pc # "idle", PromoteThrows(e)
  PROVE  job' \in [Candidates -> Job] /\ run' \in [Executions -> Run] /\ FilledInv'
<1> DEFINE c == run[e].of
           r == [Idle EXCEPT !.kind = run[e].kind, !.pc = "failing", !.of = c]
<1>1. c \in Candidates /\ run[e] \in Run /\ job[c] \in Job /\ job \in [Candidates -> Job]
  BY RowType DEF TypeOK
<1>2. CASE run' = [run EXCEPT ![e] = r] /\ UNCHANGED job
  <2>1. r \in Run /\ Filled(r)
    BY <1>1, RecordTypes DEF Run, RunPc, Idle, Filled
  <2> QED BY <1>1, <1>2, <2>1, SetRun
<1>3. CASE run[e].kind = "job" /\ ~ LastAttempt(e) /\ Stop(e)
           /\ job' = [job EXCEPT ![c] = [job[c] EXCEPT !.state = AfterThrow(job[c].made + 1, MaxAttempts),
                                                      !.made = job[c].made + 1]]
  <2>1. job[c].made + 1 \in 0 .. MaxAttempts
    BY <1>1, <1>3, OnboardingAssumption DEF LastAttempt, Job
  <2>2. [job[c] EXCEPT !.state = AfterThrow(job[c].made + 1, MaxAttempts), !.made = job[c].made + 1] \in Job
    BY <1>1, <2>1 DEF Job, AfterThrow, JobState
  <2> QED BY <1>1, <1>3, <2>2, StopRun
<1>4. CASE Stop(e) /\ UNCHANGED job
  BY <1>1, <1>4, StopRun
<1> QED BY <1>2, <1>3, <1>4 DEF PromoteThrows

LEMMA FinishType ==
  ASSUME TypeOK, FilledInv, NEW e \in Executions, run[e].pc # "idle", Finish(e)
  PROVE  job' \in [Candidates -> Job] /\ run' \in [Executions -> Run] /\ FilledInv'
<1>1. run[e].of \in Candidates /\ job[run[e].of] \in Job
  BY RowType DEF TypeOK
<1>2. [job[run[e].of] EXCEPT !.state = "completed"] \in Job
  BY <1>1 DEF Job, JobState
<1> QED BY <1>1, <1>2, StopRun DEF Finish, TypeOK

LEMMA AbandonType ==
  ASSUME TypeOK, FilledInv, NEW e \in Executions, run[e].pc # "idle", Abandon(e)
  PROVE  /\ job' \in [Candidates -> Job] /\ run' \in [Executions -> Run]
         /\ lost' \subseteq Candidates /\ FilledInv'
<1> DEFINE c == run[e].of
<1>1. c \in Candidates /\ job[c] \in Job
  BY RowType DEF TypeOK
<1>0. MaxAttempts \in 0 .. MaxAttempts
  BY OnboardingAssumption
<1>2. [job[c] EXCEPT !.state = "failed", !.made = MaxAttempts] \in Job
  BY <1>0, <1>1 DEF Job, JobState
<1>3. job' = job \/ job' = [job EXCEPT ![c] = [job[c] EXCEPT !.state = "failed", !.made = MaxAttempts]]
  BY <1>1 DEF Abandon, TypeOK
<1>4. job' \in [Candidates -> Job]
  BY <1>2, <1>3 DEF TypeOK
<1> QED BY <1>1, <1>4, StopRun DEF Abandon, TypeOK

(* An execution that begins. *)
Begins(e, c, kind, pc) == run' = [run EXCEPT ![e] = [Idle EXCEPT !.kind = kind, !.pc = pc, !.of = c]]

LEMMA BeginsType ==
  ASSUME TypeOK, FilledInv, NEW e \in Executions, NEW c \in Candidates,
         NEW kind \in {"job", "discovery", "admin", "submit"}, NEW pc \in {"look", "load"},
         Begins(e, c, kind, pc)
  PROVE  run' \in [Executions -> Run] /\ FilledInv'
<1> DEFINE r == [Idle EXCEPT !.kind = kind, !.pc = pc, !.of = c]
<1>1. r \in Run
  BY RecordTypes DEF Run, RunPc, Idle
<1>2. Filled(r)
  BY DEF Filled, Idle
<1> QED BY <1>1, <1>2, SetRun DEF Begins

LEMMA EntryType ==
  ASSUME TypeOK, FilledInv, NEW e \in Executions, NEW c \in Candidates,
         BeginCreate(e, c) \/ AdminPromotes(e, c) \/ TakeJob(e, c)
  PROVE  TypeOK' /\ FilledInv'
<1>4. CASE BeginCreate(e, c)
  <2>1. CASE Submit(e, c)
    BY <1>4, <2>1, BeginsType DEF BeginCreate, Submit, Begins, TypeOK
  <2>2. CASE Propose(e, c)
    <3>1. PICK final \in BOOLEAN :
            run' = [run EXCEPT ![e] = [Idle EXCEPT !.kind = "discovery", !.pc = "look", !.of = c,
                                                   !.final = final]]
      BY <2>2 DEF Propose
    <3> DEFINE r == [Idle EXCEPT !.kind = "discovery", !.pc = "look", !.of = c, !.final = final]
    <3>2. r \in Run
      BY RecordTypes DEF Run, RunPc, Idle
    <3>3. Filled(r)
      BY DEF Filled, Idle
    <3>4. run' \in [Executions -> Run] /\ FilledInv'
      BY <3>1, <3>2, <3>3, SetRun
    <3> QED BY <1>4, <3>4 DEF BeginCreate, TypeOK
  <2> QED BY <1>4, <2>1, <2>2 DEF BeginCreate
<1>5. CASE AdminPromotes(e, c)
  BY <1>5, BeginsType DEF AdminPromotes, Begins, TypeOK
<1>6. CASE TakeJob(e, c)
  <2>1. [job[c] EXCEPT !.state = "active"] \in Job
    BY DEF TypeOK, Job, JobState
  <2>2. job' \in [Candidates -> Job]
    BY <1>6, <2>1 DEF TakeJob, TypeOK
  <2> QED BY <1>6, <2>2, BeginsType DEF TakeJob, Begins, TypeOK
<1> QED BY <1>4, <1>5, <1>6

LEMMA CreateType ==
  ASSUME TypeOK, FilledInv, NEW e \in Executions, Look(e) \/ Save(e) \/ Enqueue(e)
  PROVE  TypeOK' /\ FilledInv'
<1>1. run[e].pc # "idle"
  BY DEF Look, Save, Enqueue
<1>2. /\ run[e].of \in Candidates /\ Row(e) \in Candidate /\ run[e] \in Run
      /\ run[e].copy \in Candidate /\ run[e].copy.status \in {"none", "pending", "active", "rejected"}
  BY <1>1, RowType DEF Candidate
<1>3. CASE Look(e)
  <2>1. [run[e] EXCEPT !.pc = "save", !.copy = Row(e)] \in Run
    BY <1>2 DEF Run, RunPc
  <2>2. Filled([run[e] EXCEPT !.pc = "save", !.copy = Row(e)])
    BY <1>2 DEF Filled, Run
  <2> QED BY <1>3, <2>1, <2>2, SetRun DEF Look, TypeOK
<1>4. CASE Save(e)
  <2>1. CASE Stop(e) /\ UNCHANGED candidate
    BY <1>4, <2>1, StopRun DEF Save, TypeOK
  <2>2. ASSUME NEW row \in Candidate, SaveRow(e, row), NEW pc \in {"enqueue", "load"},
               run' = [run EXCEPT ![e].pc = pc, ![e].copy = NoCandidate]
        PROVE  TypeOK' /\ FilledInv'
    <3>1. [run[e] EXCEPT !.pc = pc, !.copy = NoCandidate] \in Run
      BY <1>2, RecordTypes DEF Run, RunPc
    <3>2. Filled([run[e] EXCEPT !.pc = pc, !.copy = NoCandidate])
      BY <1>2 DEF Filled, Run
    <3>3. run' \in [Executions -> Run] /\ FilledInv'
      BY <2>2, <3>1, <3>2, SetRun DEF TypeOK
    <3> QED BY <1>1, <1>4, <2>2, <3>3, SaveRowType DEF Save, TypeOK
  <2> QED BY <1>2, <1>4, <2>1, <2>2, RecordTypes DEF Save
<1>5. CASE Enqueue(e)
  <2>1. [job[run[e].of] EXCEPT !.state = Added(@)] \in Job
    BY <1>2 DEF TypeOK, Job, Added, JobState
  <2> QED BY <1>2, <1>5, <2>1, StopRun DEF Enqueue, TypeOK
<1> QED BY <1>3, <1>4, <1>5

LEMMA LoadType ==
  ASSUME TypeOK, FilledInv, NEW e \in Executions, Load(e) PROVE TypeOK' /\ FilledInv'
<1>1. run[e].of \in Candidates /\ Row(e) \in Candidate /\ run[e] \in Run /\ run[e].copy \in Candidate
  BY RowType DEF Load
<1>2. CASE run' = [run EXCEPT ![e].pc = "discover", ![e].copy = Row(e)]
  <2>1. [run[e] EXCEPT !.pc = "discover", !.copy = Row(e)] \in Run
    BY <1>1 DEF Run, RunPc
  <2>2. Filled([run[e] EXCEPT !.pc = "discover", !.copy = Row(e)])
    BY <1>1 DEF Filled, Run
  <2>3. run' \in [Executions -> Run] /\ FilledInv'
    BY <1>2, <2>1, <2>2, SetRun DEF TypeOK
  <2> QED BY <2>3 DEF Load, TypeOK
<1>3. ASSUME NEW i \in Sources, NEW pc \in {"discard", "attach"},
             run' = [run EXCEPT ![e].pc = pc, ![e].copy = Row(e), ![e].source = i]
      PROVE  TypeOK' /\ FilledInv'
  <2>1. [run[e] EXCEPT !.pc = pc, !.copy = Row(e), !.source = i] \in Run
    BY <1>1 DEF Run, RunPc
  <2>2. Filled([run[e] EXCEPT !.pc = pc, !.copy = Row(e), !.source = i])
    BY <1>1 DEF Filled, Run
  <2>3. run' \in [Executions -> Run] /\ FilledInv'
    BY <1>3, <2>1, <2>2, SetRun DEF TypeOK
  <2> QED BY <2>3 DEF Load, TypeOK
<1>4. Equivalent(run[e].of) \subseteq Sources
  BY DEF Equivalent
<1> QED BY <1>2, <1>3, <1>4 DEF Load

(* Steps that delete a source, and go on without the mark in the copy. *)
LEMMA UnmarkedRun ==
  ASSUME TypeOK, FilledInv, NEW e \in Executions, run[e].pc # "idle",
         NEW pc \in {"unmark", "reject"},
         run' = [run EXCEPT ![e].pc = pc, ![e].copy.marker = None]
  PROVE  run' \in [Executions -> Run] /\ FilledInv'
<1> DEFINE copy == [run[e].copy EXCEPT !.marker = None]
           r    == [run[e] EXCEPT !.pc = pc, !.copy = copy]
<1>1. run[e].of \in Candidates /\ run[e] \in Run /\ run[e].copy \in Candidate
  BY RowType
<1>2. copy \in Candidate
  BY <1>1 DEF Candidate
<1>3. run' = [run EXCEPT ![e] = r]
  BY <1>1 DEF TypeOK, Run
<1> HIDE DEF copy
<1>4. r \in Run
  BY <1>1, <1>2 DEF Run, RunPc
<1>5. Filled(r)
  BY <1>1 DEF Filled, Run
<1> QED BY <1>3, <1>4, <1>5, SetRun

LEMMA DeletesType ==
  ASSUME TypeOK, FilledInv, NEW e \in Executions, Discard(e) \/ Rollback(e) \/ Failing(e)
  PROVE  TypeOK' /\ FilledInv'
<1>1. CASE Discard(e) \/ Rollback(e)
  BY <1>1, UnmarkedRun, DeleteType, UnlinkedType DEF Discard, Rollback, TypeOK
<1>2. CASE Failing(e)
  <2> DEFINE copy == [Row(e) EXCEPT !.marker = None]
             r    == [run[e] EXCEPT !.pc = "giveUp", !.copy = copy]
  <2>1. run[e].of \in Candidates /\ Row(e) \in Candidate /\ run[e] \in Run
    BY <1>2, RowType DEF Failing
  <2>2. copy \in Candidate
    BY <2>1 DEF Candidate
  <2>3. run' = [run EXCEPT ![e] = r]
    BY <1>2 DEF Failing, TypeOK
  <2> HIDE DEF copy
  <2>4. r \in Run /\ Filled(r)
    BY <2>1, <2>2 DEF Run, RunPc, Filled
  <2>5. run' \in [Executions -> Run] /\ FilledInv'
    BY <2>3, <2>4, SetRun
  <2>6. /\ source' \in [Sources -> Source] /\ validated' \subseteq Sources
        /\ candidate' \in [Candidates -> Candidate]
    BY <1>2, DeleteType, UnlinkedType DEF Failing, TypeOK
  <2> QED BY <1>2, <2>5, <2>6 DEF Failing, TypeOK
<1> QED BY <1>1, <1>2

LEMMA ProvisionType ==
  ASSUME TypeOK, FilledInv, NEW e \in Executions,
         Unmark(e) \/ Discover(e) \/ Provision(e) \/ Insert(e) \/ Mark(e)
  PROVE  TypeOK' /\ FilledInv'
<1>1. run[e].pc # "idle"
  BY DEF Unmark, Discover, Provision, Insert, Mark
<1>2. /\ run[e].of \in Candidates /\ run[e] \in Run /\ run[e].copy \in Candidate
      /\ Filled(run[e])
  BY <1>1, RowType DEF FilledInv
<1>3. CASE Unmark(e)
  <2>1. Filled([run[e] EXCEPT !.pc = "discover"]) /\ "discover" \in RunPc
    BY <1>2 DEF Filled, Run, RunPc
  <2> QED BY <1>1, <1>2, <1>3, <2>1, GotoRun, SaveRowType DEF Unmark, TypeOK
<1>4. CASE Discover(e)
  <2>1. CASE Goto(e, "reject")
    <3>1. Filled([run[e] EXCEPT !.pc = "reject"]) /\ "reject" \in RunPc
      BY <1>2 DEF Filled, Run, RunPc
    <3> QED BY <1>4, <2>1, <3>1, GotoRun DEF Discover, TypeOK
  <2>2. ASSUME NEW url \in Urls, run' = [run EXCEPT ![e].pc = "provision", ![e].url = url]
        PROVE  TypeOK' /\ FilledInv'
    <3>1. [run[e] EXCEPT !.pc = "provision", !.url = url] \in Run
      BY <1>2 DEF Run, RunPc
    <3>2. Filled([run[e] EXCEPT !.pc = "provision", !.url = url])
      BY <1>2 DEF Filled, Run
    <3>3. run' \in [Executions -> Run] /\ FilledInv'
      BY <2>2, <3>1, <3>2, SetRun DEF TypeOK
    <3> QED BY <1>4, <3>3 DEF Discover, TypeOK
  <2>3. {run[e].of} \cup (IF Feeds THEN {Feed} ELSE {}) \subseteq Urls
    BY <1>2 DEF Urls
  <2> QED BY <1>4, <2>1, <2>2, <2>3 DEF Discover
<1>5. CASE Provision(e)
  <2>1. CASE Goto(e, "insert")
    <3>1. Filled([run[e] EXCEPT !.pc = "insert"]) /\ "insert" \in RunPc
      BY <1>2, <1>5 DEF Filled, Run, RunPc, Provision
    <3> QED BY <1>5, <2>1, <3>1, GotoRun DEF Provision, TypeOK
  <2>2. ASSUME NEW i \in Sources, run' = [run EXCEPT ![e].pc = "attach", ![e].source = i, ![e].url = None]
        PROVE  TypeOK' /\ FilledInv'
    <3>1. [run[e] EXCEPT !.pc = "attach", !.source = i, !.url = None] \in Run
      BY <1>2 DEF Run, RunPc
    <3>2. Filled([run[e] EXCEPT !.pc = "attach", !.source = i, !.url = None])
      BY <1>2 DEF Filled, Run
    <3>3. run' \in [Executions -> Run] /\ FilledInv'
      BY <2>2, <3>1, <3>2, SetRun DEF TypeOK
    <3> QED BY <1>5, <3>3 DEF Provision, TypeOK
  <2>3. Equivalent(run[e].url) \subseteq Sources
    BY DEF Equivalent
  <2> QED BY <1>5, <2>1, <2>2, <2>3 DEF Provision
<1>6. CASE Insert(e)
  <2>1. CASE PromoteThrows(e) /\ UNCHANGED source
    BY <1>1, <1>6, <2>1, ThrowsType DEF Insert, TypeOK
  <2>2. ASSUME NEW i \in Sources, UNCHANGED job,
               source' = [source EXCEPT ![i] = [url |-> run[e].url, enabled |-> FALSE]],
               run' = [run EXCEPT ![e].pc = "mark", ![e].source = i, ![e].url = None]
        PROVE  TypeOK' /\ FilledInv'
    <3>1. [run[e] EXCEPT !.pc = "mark", !.source = i, !.url = None] \in Run
      BY <1>2 DEF Run, RunPc
    <3>2. Filled([run[e] EXCEPT !.pc = "mark", !.source = i, !.url = None])
      BY <1>2 DEF Filled, Run
    <3>3. run' \in [Executions -> Run] /\ FilledInv'
      BY <2>2, <3>1, <3>2, SetRun DEF TypeOK
    <3>4. [url |-> run[e].url, enabled |-> FALSE] \in Source
      BY <1>2 DEF Source, Run
    <3>5. source' \in [Sources -> Source]
      BY <2>2, <3>4 DEF TypeOK
    <3> QED BY <1>6, <2>2, <3>3, <3>5 DEF Insert, TypeOK
  <2>3. Fresh \subseteq Sources
    BY DEF Fresh, Equivalent
  <2> QED BY <1>6, <2>1, <2>2, <2>3 DEF Insert
<1>7. CASE Mark(e)
  <2> DEFINE copy == [run[e].copy EXCEPT !.marker = run[e].source]
             r    == [run[e] EXCEPT !.pc = "sample", !.copy = copy]
  <2>1. run[e].source \in Sources
    BY <1>2, <1>7 DEF Filled, Mark
  <2>2. copy \in Candidate
    BY <1>2, <2>1 DEF Candidate
  <2>3. run' = [run EXCEPT ![e] = r]
    BY <1>2, <1>7 DEF TypeOK, Run, Mark
  <2>4. candidate' \in [Candidates -> Candidate]
    BY <1>1, <1>7, <2>2, SaveRowType DEF Mark
  <2> HIDE DEF copy
  <2>5. r \in Run
    BY <1>2, <2>2 DEF Run, RunPc
  <2>6. Filled(r)
    BY <1>2, <2>1 DEF Filled, Run
  <2>7. run' \in [Executions -> Run] /\ FilledInv'
    BY <2>3, <2>5, <2>6, SetRun
  <2> QED BY <1>7, <2>4, <2>7 DEF Mark, TypeOK
<1> QED BY <1>3, <1>4, <1>5, <1>6, <1>7

LEMMA DecisionType ==
  ASSUME TypeOK, FilledInv, NEW e \in Executions,
         Sample(e) \/ Enable(e) \/ Activate(e) \/ Reject(e)
  PROVE  TypeOK' /\ FilledInv'
<1>1. run[e].pc # "idle"
  BY DEF Sample, Enable, Activate, Reject
<1>2. /\ run[e].of \in Candidates /\ run[e] \in Run /\ run[e].copy \in Candidate
      /\ Filled(run[e])
  BY <1>1, RowType DEF FilledInv
<1>3. ASSUME NEW pc \in {"enable", "rollback", "activate"}, Goto(e, pc),
             run[e].pc \in {"sample", "enable"}
      PROVE  run' \in [Executions -> Run] /\ FilledInv'
  <2>1. Filled([run[e] EXCEPT !.pc = pc]) /\ pc \in RunPc
    BY <1>2, <1>3 DEF Filled, Run, RunPc
  <2> QED BY <1>3, <2>1, GotoRun
<1>4. CASE Sample(e)
  <2>1. run[e].source \in Sources
    BY <1>2, <1>4 DEF Sample, Filled
  <2>2. validated' \subseteq Sources
    BY <1>4, <2>1 DEF Sample, TypeOK
  <2> QED BY <1>3, <1>4, <2>2 DEF Sample, TypeOK
<1>5. CASE Enable(e)
  <2>1. run[e].source \in Sources
    BY <1>2, <1>5 DEF Enable, Filled
  <2>2. [source[run[e].source] EXCEPT !.enabled = (source[run[e].source].url # None)] \in Source
    BY <2>1 DEF TypeOK, Source
  <2>3. source' \in [Sources -> Source]
    BY <1>5, <2>1, <2>2 DEF Enable, TypeOK
  <2> QED BY <1>3, <1>5, <2>3 DEF Enable, TypeOK
<1>6. CASE Activate(e)
  <2> DEFINE row == [status |-> "active", activated |-> run[e].source,
                     marker |-> IF run[e].pc = "activate" THEN None ELSE run[e].copy.marker]
  <2>1. row \in Candidate
    BY <1>2, <1>6 DEF Activate, Filled, Candidate
  <2>2. CASE SaveRow(e, row) /\ Finish(e)
    BY <1>1, <1>6, <2>1, <2>2, SaveRowType, FinishType DEF Activate, TypeOK
  <2>3. CASE PromoteThrows(e) /\ UNCHANGED candidate
    BY <1>1, <1>6, <2>3, ThrowsType DEF Activate, TypeOK
  <2> QED BY <1>6, <2>2, <2>3 DEF Activate
<1>7. CASE Reject(e)
  <2> DEFINE row == [run[e].copy EXCEPT !.status = "rejected"]
  <2>1. row \in Candidate
    BY <1>2 DEF Candidate
  <2>2. CASE SaveRow(e, row) /\ Finish(e) /\ UNCHANGED lost
    BY <1>1, <1>7, <2>1, <2>2, SaveRowType, FinishType DEF Reject, TypeOK
  <2>3. CASE PromoteThrows(e) /\ UNCHANGED <<candidate, lost>>
    BY <1>1, <1>7, <2>3, ThrowsType DEF Reject, TypeOK
  <2>4. CASE Abandon(e) /\ UNCHANGED candidate
    BY <1>1, <1>7, <2>4, AbandonType DEF Reject, TypeOK
  <2> QED BY <1>7, <2>2, <2>3, <2>4 DEF Reject
<1> QED BY <1>4, <1>5, <1>6, <1>7

LEMMA FaultType ==
  ASSUME TypeOK, FilledInv,
         \/ Crash \/ \E c \in Candidates : StallDetected(c)
         \/ \E e \in Executions : PromoteFails(e) \/ FailingFails(e)
  PROVE  TypeOK' /\ FilledInv'
<1>1. CASE Crash
  BY <1>1, RecordTypes, IdleFilled DEF Crash, TypeOK, FilledInv
<1>2. ASSUME NEW c \in Candidates, StallDetected(c) PROVE TypeOK' /\ FilledInv'
  <2>1. job[c] \in Job
    BY DEF TypeOK
  <2>2. [job[c] EXCEPT !.state = "failed"] \in Job
    BY <2>1 DEF Job, JobState
  <2>3. ASSUME job[c].stalled < MaxStalled
        PROVE  [job[c] EXCEPT !.state = "waiting", !.stalled = job[c].stalled + 1] \in Job
    <3>1. job[c].stalled + 1 \in 0 .. MaxStalled
      BY <2>1, <2>3, OnboardingAssumption DEF Job
    <3> QED BY <2>1, <3>1 DEF Job, JobState
  <2>4. job' \in [Candidates -> Job]
    BY <1>2, <2>1, <2>2, <2>3 DEF StallDetected, TypeOK
  <2>5. lost' \subseteq Candidates
    BY <1>2 DEF StallDetected, TypeOK
  <2> QED BY <1>2, <2>4, <2>5 DEF StallDetected, TypeOK, FilledInv
<1>3. ASSUME NEW e \in Executions, PromoteFails(e) PROVE TypeOK' /\ FilledInv'
  BY <1>3, ThrowsType, StopRun DEF PromoteFails, TypeOK
<1>4. ASSUME NEW e \in Executions, FailingFails(e) PROVE TypeOK' /\ FilledInv'
  BY <1>4, AbandonType DEF FailingFails, TypeOK
<1> QED BY <1>1, <1>2, <1>3, <1>4

LEMMA NextType == ASSUME TypeOK, FilledInv, [Next]_vars PROVE TypeOK' /\ FilledInv'
<1>1. CASE UNCHANGED vars
  BY <1>1 DEF vars, TypeOK, FilledInv
<1> QED BY <1>1, EntryType, CreateType, LoadType, DeletesType, ProvisionType, DecisionType, FaultType
        DEF Next, RunStep

(***************************************************************************)
(* The lock of an identity.                                                *)
(***************************************************************************)

(* Steps that bring no execution to its insert or its update of a source,   *)
(* and steps that create no source.                                          *)
NoneArrives ==
  \A e \in Executions :
    run'[e].pc \in {"insert", "enable"} =>
      run'[e].pc = run[e].pc /\ run'[e].url = run[e].url /\ run'[e].source = run[e].source
NoneCreated == \A i \in Sources : source'[i].url \in {source[i].url, None}

LEMMA LockKept == ASSUME FilledInv, LockInv, NoneArrives, NoneCreated PROVE LockInv'
<1>1. \A e \in Executions : run[e].pc = "insert" => run[e].url # None
  BY NamesDiffer DEF FilledInv, Filled
<1> QED BY <1>1 DEF LockInv, NoneArrives, NoneCreated, CreatorsNeverCollide, Equivalent

LEMMA StopArrives == ASSUME TypeOK, NEW e \in Executions, Stop(e) PROVE NoneArrives
BY DEF NoneArrives, TypeOK, Stop, Idle

LEMMA GotoArrives ==
  ASSUME TypeOK, NEW e \in Executions, NEW pc, pc \notin {"insert", "enable"}, Goto(e, pc) PROVE NoneArrives
BY DEF NoneArrives, TypeOK, Goto, Run

LEMMA ThrowsArrives == ASSUME TypeOK, NEW e \in Executions, PromoteThrows(e) PROVE NoneArrives
<1>1. CASE Stop(e)
  BY <1>1, StopArrives
<1>2. CASE run' = [run EXCEPT ![e] = [Idle EXCEPT !.kind = run[e].kind, !.pc = "failing", !.of = run[e].of]]
  BY <1>2 DEF NoneArrives, TypeOK, Idle
<1> QED BY <1>1, <1>2 DEF PromoteThrows

LEMMA DeleteCreates == ASSUME TypeOK, NEW i, DeleteSource(i) PROVE NoneCreated
BY DEF DeleteSource, NoneCreated, TypeOK, NoSource

LEMMA EntryArrives ==
  ASSUME TypeOK, NEW e \in Executions, NEW c \in Candidates,
         BeginCreate(e, c) \/ AdminPromotes(e, c) \/ TakeJob(e, c)
  PROVE  NoneArrives /\ UNCHANGED <<source, validated>>
<1>1. CASE BeginCreate(e, c)
  BY <1>1 DEF BeginCreate, Submit, Propose, NoneArrives, TypeOK, Idle
<1>2. CASE AdminPromotes(e, c) \/ TakeJob(e, c)
  BY <1>2 DEF AdminPromotes, TakeJob, NoneArrives, TypeOK, Idle
<1> QED BY <1>1, <1>2

LEMMA StepArrives ==
  ASSUME TypeOK, NEW e \in Executions,
         \/ Look(e) \/ Save(e) \/ Enqueue(e) \/ Load(e) \/ Discard(e) \/ Unmark(e) \/ Discover(e)
         \/ Mark(e) \/ Enable(e) \/ Activate(e) \/ Rollback(e)
         \/ Reject(e) \/ Failing(e) \/ PromoteFails(e) \/ FailingFails(e)
  PROVE  NoneArrives /\ NoneCreated
<1>0. run[e] \in Run
  BY DEF TypeOK
<1>1. UNCHANGED source => NoneCreated
  BY DEF NoneCreated
<1>2. CASE Look(e) \/ Load(e) \/ Mark(e)
  <2>1. run'[e].pc \notin {"insert", "enable"} /\ UNCHANGED source
    <3>1. CASE Look(e)
      BY <1>0, <3>1 DEF TypeOK, Look, Run
    <3>2. CASE Load(e)
      <4>1. ASSUME run' = [run EXCEPT ![e].pc = "discover", ![e].copy = Row(e)]
            PROVE  run'[e].pc = "discover"
        BY <1>0, <4>1 DEF TypeOK, Run
      <4>2. ASSUME NEW i,
                   run' = [run EXCEPT ![e].pc = IF Row(e).marker = i THEN "discard" ELSE "attach",
                                      ![e].copy = Row(e), ![e].source = i]
            PROVE  run'[e].pc \in {"discard", "attach"}
        BY <1>0, <4>2 DEF TypeOK, Run
      <4> QED BY <3>2, <4>1, <4>2 DEF Load
    <3>3. CASE Mark(e)
      BY <1>0, <3>3 DEF TypeOK, Mark, Run
    <3> QED BY <1>2, <3>1, <3>2, <3>3
  <2>2. \A d \in Executions \ {e} : run'[d] = run[d]
    BY <1>2 DEF TypeOK, Look, Load, Mark
  <2> QED BY <1>1, <2>1, <2>2 DEF NoneArrives
<1>3. CASE Save(e) \/ Enqueue(e)
  <2>1. CASE Stop(e)
    BY <1>1, <1>3, <2>1, StopArrives DEF Save, Enqueue
  <2>2. CASE Save(e) /\ run' = [run EXCEPT ![e].pc = IF run[e].kind = "submit" THEN "enqueue" ELSE "load",
                                          ![e].copy = NoCandidate]
    <3>1. run'[e].pc \notin {"insert", "enable"} /\ UNCHANGED source
      BY <1>0, <2>2 DEF TypeOK, Save, Run
    <3>2. \A d \in Executions \ {e} : run'[d] = run[d]
      BY <2>2 DEF TypeOK
    <3> QED BY <1>1, <3>1, <3>2 DEF NoneArrives
  <2> QED BY <1>3, <2>1, <2>2 DEF Save, Enqueue
<1>4. CASE Discard(e) \/ Rollback(e)
  <2>1. run'[e].pc \notin {"insert", "enable"}
    BY <1>0, <1>4 DEF TypeOK, Discard, Rollback, Run
  <2>2. \A d \in Executions \ {e} : run'[d] = run[d]
    BY <1>4 DEF TypeOK, Discard, Rollback
  <2>3. NoneCreated
    BY <1>4, DeleteCreates DEF Discard, Rollback
  <2> QED BY <2>1, <2>2, <2>3 DEF NoneArrives
<1>5. CASE Failing(e)
  <2>1. run'[e].pc \notin {"insert", "enable"}
    BY <1>0, <1>5 DEF TypeOK, Failing, Run
  <2>2. \A d \in Executions \ {e} : run'[d] = run[d]
    BY <1>5 DEF TypeOK, Failing
  <2>3. NoneCreated
    BY <1>1, <1>5, DeleteCreates DEF Failing
  <2> QED BY <2>1, <2>2, <2>3 DEF NoneArrives
<1>6. CASE Discover(e)
  <2>1. ASSUME NEW url, run' = [run EXCEPT ![e].pc = "provision", ![e].url = url] PROVE NoneArrives
    BY <1>0, <2>1 DEF NoneArrives, TypeOK, Run
  <2> QED BY <1>1, <1>6, <2>1, GotoArrives DEF Discover
<1>7. CASE Unmark(e)
  BY <1>1, <1>7, GotoArrives DEF Unmark
<1>8. CASE Enable(e)
  <2>1. NoneCreated
    BY <1>8 DEF Enable, NoneCreated, TypeOK, Source
  <2> QED BY <1>8, <2>1, GotoArrives DEF Enable
<1>9. CASE Activate(e) \/ Reject(e) \/ PromoteFails(e) \/ FailingFails(e)
  <2>1. Stop(e) \/ PromoteThrows(e)
    BY <1>9 DEF Activate, Reject, PromoteFails, FailingFails, Finish, Abandon
  <2> QED BY <1>1, <1>9, <2>1, StopArrives, ThrowsArrives DEF Activate, Reject, PromoteFails, FailingFails
<1> QED BY <1>2, <1>3, <1>4, <1>5, <1>6, <1>7, <1>8, <1>9

LEMMA ProvisionLock ==
  ASSUME TypeOK, FilledInv, LockInv, NEW e \in Executions, Provision(e) PROVE LockInv'
<1>0. run[e] \in Run
  BY DEF TypeOK
<1>1. CASE Goto(e, "insert") /\ Equivalent(run[e].url) = {}
  <2>1. /\ run'[e].pc = "insert" /\ run'[e].url = run[e].url
        /\ \A d \in Executions \ {e} : run'[d] = run[d]
    BY <1>0, <1>1 DEF Goto, TypeOK, Run
  <2>2. \A d \in Executions : run[d].pc = "insert" => run[d].url # run[e].url
    BY DEF Provision, Locked
  <2>3. UNCHANGED source
    BY DEF Provision
  <2> QED BY <1>1, <2>1, <2>2, <2>3 DEF LockInv, CreatorsNeverCollide, Equivalent
<1>2. ASSUME NEW i, run' = [run EXCEPT ![e].pc = "attach", ![e].source = i, ![e].url = None]
      PROVE  LockInv'
  <2>1. NoneArrives
    BY <1>0, <1>2 DEF NoneArrives, TypeOK, Run
  <2> QED BY <2>1, LockKept DEF Provision, NoneCreated
<1> QED BY <1>1, <1>2 DEF Provision

LEMMA InsertLock ==
  ASSUME TypeOK, FilledInv, LockInv, NEW e \in Executions, Insert(e) PROVE LockInv'
<1>0. run[e] \in Run /\ run[e].pc = "insert" /\ run[e].url # None
  BY NamesDiffer DEF TypeOK, FilledInv, Filled, Insert
<1>1. Equivalent(run[e].url) = {}
  BY <1>0 DEF LockInv, CreatorsNeverCollide
<1>2. PICK i \in Fresh :
        /\ source' = [source EXCEPT ![i] = [url |-> run[e].url, enabled |-> FALSE]]
        /\ run' = [run EXCEPT ![e].pc = "mark", ![e].source = i, ![e].url = None]
  BY <1>1 DEF Insert
<1>3. /\ run'[e].pc = "mark" /\ \A d \in Executions \ {e} : run'[d] = run[d]
      /\ \A k \in Sources : source'[k].url \in {source[k].url, run[e].url}
  BY <1>0, <1>2 DEF TypeOK, Run, Fresh, Equivalent
<1>4. \A d \in Executions \ {e} : run[d].pc = "insert" => run[d].url # run[e].url
  BY <1>0 DEF LockInv
<1> QED BY <1>3, <1>4 DEF LockInv, CreatorsNeverCollide, Equivalent

LEMMA LockSample == ASSUME TypeOK, LockInv, NEW e \in Executions, Sample(e) PROVE LockInv'
<1>1. run'[e].pc # "insert" /\ \A d \in Executions \ {e} : run'[d] = run[d]
  BY DEF Sample, Goto, TypeOK, Run
<1>2. UNCHANGED source
  BY DEF Sample
<1> QED BY <1>1, <1>2 DEF LockInv, CreatorsNeverCollide, Equivalent

LEMMA NextLock == ASSUME TypeOK, FilledInv, LockInv, [Next]_vars PROVE LockInv'
<1>1. CASE UNCHANGED <<run, source>>
  BY <1>1, LockKept DEF NoneArrives, NoneCreated
<1>2. CASE Crash
  BY <1>2, LockKept DEF Crash, NoneArrives, NoneCreated, Idle
<1>3. ASSUME NEW e \in Executions, NEW c \in Candidates,
             BeginCreate(e, c) \/ AdminPromotes(e, c) \/ TakeJob(e, c)
      PROVE  LockInv'
  BY <1>3, EntryArrives, LockKept DEF NoneCreated
<1>4. ASSUME NEW e \in Executions, RunStep(e) \/ PromoteFails(e) \/ FailingFails(e) PROVE LockInv'
  <2>1. CASE Sample(e)
    BY <2>1, LockSample
  <2> QED BY <1>4, <2>1, StepArrives, LockKept, ProvisionLock, InsertLock DEF RunStep
<1>5. UNCHANGED vars \/ (\E c \in Candidates : StallDetected(c)) => UNCHANGED <<run, source>>
  BY DEF vars, StallDetected
<1> QED BY <1>1, <1>2, <1>3, <1>4, <1>5 DEF Next

(***************************************************************************)
(* Only validated sources are enabled.                                     *)
(***************************************************************************)

LEMMA EnabledKept ==
  ASSUME EnabledInv, NoneArrives, UNCHANGED <<source, validated>> PROVE EnabledInv'
BY DEF EnabledInv, NoneArrives, EnabledWasValidated

LEMMA EnabledDeleted ==
  ASSUME TypeOK, FilledInv, EnabledInv, NoneArrives, NEW i \in Sources \cup {None}, DeleteSource(i)
  PROVE  EnabledInv'
<1>1. \A k \in Sources : source'[k] = IF k = i THEN NoSource ELSE source[k]
  BY NamesDiffer DEF DeleteSource, TypeOK
<1>2. \A e \in Executions : run[e].pc = "enable" => run[e].source \in Sources
  BY DEF FilledInv, Filled
<1> QED BY <1>1, <1>2 DEF EnabledInv, NoneArrives, EnabledWasValidated, DeleteSource, NoSource

LEMMA InsertEnabled ==
  ASSUME TypeOK, FilledInv, LockInv, EnabledInv, NEW e \in Executions, Insert(e) PROVE EnabledInv'
<1>0. run[e] \in Run /\ run[e].pc = "insert"
  BY DEF TypeOK, Insert
<1>1. Equivalent(run[e].url) = {}
  BY <1>0 DEF LockInv, CreatorsNeverCollide
<1>2. PICK i \in Fresh :
        /\ source' = [source EXCEPT ![i] = [url |-> run[e].url, enabled |-> FALSE]]
        /\ run' = [run EXCEPT ![e].pc = "mark", ![e].source = i, ![e].url = None]
  BY <1>1 DEF Insert
<1>3. run'[e].pc = "mark" /\ \A d \in Executions \ {e} : run'[d] = run[d]
  BY <1>0, <1>2 DEF TypeOK, Run
<1>4. \A d \in Executions : run[d].source # i
  BY <1>2 DEF Fresh
<1>5. /\ source'[i].enabled = FALSE /\ \A k \in Sources \ {i} : source'[k] = source[k]
  BY <1>2 DEF TypeOK, Fresh, Equivalent
<1>6. \A d \in Executions : run[d].pc = "enable" => run[d].source \in Sources \ {i}
  BY <1>4 DEF FilledInv, Filled
<1>7. UNCHANGED validated
  BY DEF Insert
<1> QED BY <1>3, <1>5, <1>6, <1>7 DEF EnabledInv, EnabledWasValidated

LEMMA SampleEnabled ==
  ASSUME TypeOK, FilledInv, EnabledInv, NEW e \in Executions, Sample(e) PROVE EnabledInv'
<1>1. run[e].source \in Sources /\ run[e] \in Run
  BY DEF TypeOK, FilledInv, Filled, Sample
<1>2. run'[e].source = run[e].source /\ \A d \in Executions \ {e} : run'[d] = run[d]
  BY <1>1 DEF Sample, Goto, TypeOK, Run
<1>3. run'[e].pc = "enable" => validated' = validated \cup ({run[e].source} \ Equivalent(None))
  BY <1>1 DEF Sample, Goto, TypeOK, Run
<1>4. validated \subseteq validated' /\ UNCHANGED source
  BY DEF Sample
<1> QED BY <1>1, <1>2, <1>3, <1>4 DEF EnabledInv, EnabledWasValidated, Equivalent

LEMMA EnableEnabled ==
  ASSUME TypeOK, FilledInv, EnabledInv, NEW e \in Executions, Enable(e) PROVE EnabledInv'
<1>1. run[e].source \in Sources /\ (run[e].source \in validated \/ source[run[e].source].url = None)
  BY DEF FilledInv, Filled, Enable, EnabledInv
<1>2. /\ \A k \in Sources : source'[k].url = source[k].url
      /\ \A k \in Sources \ {run[e].source} : source'[k] = source[k]
      /\ source'[run[e].source].enabled = (source[run[e].source].url # None)
  BY <1>1 DEF Enable, TypeOK, Source
<1>3. NoneArrives
  BY GotoArrives DEF Enable
<1>4. UNCHANGED validated
  BY DEF Enable
<1>5. \A d \in Executions : run[d].pc = "enable" => run[d].source \in Sources
  BY DEF FilledInv, Filled
<1>6. ASSUME NEW k \in Sources, source'[k].enabled PROVE k \in validated
  <2>1. CASE k = run[e].source
    BY <1>1, <1>2, <1>6, <2>1
  <2>2. CASE k # run[e].source
    BY <1>2, <1>6, <2>2 DEF EnabledInv, EnabledWasValidated
  <2> QED BY <2>1, <2>2
<1>7. ASSUME NEW d \in Executions, run'[d].pc = "enable"
      PROVE  run'[d].source \in validated \/ source'[run'[d].source].url = None
  <2>1. run[d].pc = "enable" /\ run'[d].source = run[d].source
    BY <1>3, <1>7 DEF NoneArrives
  <2>2. run[d].source \in validated \/ source[run[d].source].url = None
    BY <2>1 DEF EnabledInv
  <2> QED BY <1>2, <1>5, <2>1, <2>2
<1> QED BY <1>4, <1>6, <1>7 DEF EnabledInv, EnabledWasValidated

LEMMA NextEnabled ==
  ASSUME TypeOK, FilledInv, LockInv, EnabledInv, [Next]_vars PROVE EnabledInv'
<1>1. CASE UNCHANGED <<run, source, validated>>
  BY <1>1, EnabledKept DEF NoneArrives
<1>2. CASE Crash
  BY <1>2, EnabledKept DEF Crash, NoneArrives, Idle
<1>3. ASSUME NEW e \in Executions, NEW c \in Candidates,
             BeginCreate(e, c) \/ AdminPromotes(e, c) \/ TakeJob(e, c)
      PROVE  EnabledInv'
  BY <1>3, EntryArrives, EnabledKept
<1>4. ASSUME NEW e \in Executions,
             \/ Look(e) \/ Save(e) \/ Enqueue(e) \/ Load(e) \/ Unmark(e) \/ Discover(e)
             \/ Mark(e) \/ Activate(e) \/ Reject(e) \/ PromoteFails(e) \/ FailingFails(e)
      PROVE  EnabledInv'
  <2>1. UNCHANGED <<source, validated>>
    BY <1>4 DEF Look, Save, Enqueue, Load, Unmark, Discover, Mark, Activate, Reject, PromoteFails, FailingFails
  <2> QED BY <1>4, <2>1, StepArrives, EnabledKept
<1>5. ASSUME NEW e \in Executions, Discard(e) \/ Rollback(e) PROVE EnabledInv'
  <2>1. run[e].source \in Sources /\ DeleteSource(run[e].source)
    BY <1>5 DEF Discard, Rollback, FilledInv, Filled
  <2> QED BY <1>5, <2>1, StepArrives, EnabledDeleted
<1>6. ASSUME NEW e \in Executions, Failing(e) PROVE EnabledInv'
  <2>1. Row(e).marker \in Sources \cup {None}
    BY <1>6, RowType DEF Failing, Candidate
  <2>2. DeleteSource(Row(e).marker) \/ UNCHANGED <<source, validated>>
    BY <1>6 DEF Failing
  <2> QED BY <1>6, <2>1, <2>2, StepArrives, EnabledDeleted, EnabledKept
<1>7. ASSUME NEW e \in Executions, Provision(e) PROVE EnabledInv'
  <2>1. run[e] \in Run
    BY DEF TypeOK
  <2>2. run'[e].pc # "enable" /\ \A d \in Executions \ {e} : run'[d] = run[d]
    BY <1>7, <2>1 DEF Provision, Goto, TypeOK, Run
  <2> QED BY <1>7, <2>2 DEF Provision, EnabledInv, EnabledWasValidated
<1>8. UNCHANGED vars \/ (\E c \in Candidates : StallDetected(c)) => UNCHANGED <<run, source, validated>>
  BY DEF vars, StallDetected
<1> QED BY <1>1, <1>2, <1>3, <1>4, <1>5, <1>6, <1>7, <1>8, InsertEnabled, SampleEnabled, EnableEnabled
        DEF Next, RunStep

(***************************************************************************)
(* The theorems.                                                           *)
(***************************************************************************)

LEMMA Invariance == Spec => []IInv
<1>1. Init => LockInv /\ EnabledInv
  BY DEF Init, LockInv, EnabledInv, CreatorsNeverCollide, EnabledWasValidated, Idle, NoSource
<1>2. Init => IInv
  BY <1>1, InitType DEF IInv
<1>3. IInv /\ [Next]_vars => IInv'
  BY NextType, NextLock, NextEnabled DEF IInv
<1> QED BY <1>2, <1>3, PTL DEF Spec

(* The state keeps to its types: attempts and stalls stay within their       *)
(* limits, an execution refers to rows and sources that it has looked up.    *)
THEOREM OnboardingTypes == Spec => []TypeOK
<1>1. IInv => TypeOK
  BY DEF IInv
<1> QED BY <1>1, Invariance, PTL

(* resolveOrCreate looks again under the advisory lock of the identity: no   *)
(* creator that inserts finds the identity taken, however many promotions,   *)
(* deletions, crashes and retries interleave.                                *)
THEOREM LockSerializesCreators == Spec => []CreatorsNeverCollide
<1>1. IInv => CreatorsNeverCollide
  BY DEF IInv, LockInv
<1> QED BY <1>1, Invariance, PTL

(* promote enables a source only after its samples were relevant; a deletion *)
(* between the two leaves no row for the update to enable, and an id that an *)
(* execution still refers to is given to no other source.                    *)
THEOREM EnabledSourcesWereValidated == Spec => []EnabledWasValidated
<1>1. IInv => EnabledWasValidated
  BY DEF IInv, EnabledInv
<1> QED BY <1>1, Invariance, PTL
=============================================================================
