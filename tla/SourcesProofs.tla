---------------------------- MODULE SourcesProofs ----------------------------
(***************************************************************************)
(* What is known of sources and comes in from them, as MCSources runs its  *)
(* components: G counts failures, M syncs the manifest, I takes articles   *)
(* in, and a web source's recipe keeps to robots.txt and goes on working.  *)
(* For any rows, manifests, links, pages, fetches and websites.            *)
(***************************************************************************)
EXTENDS MCSources, WellFoundedInduction, TLAPS

-----------------------------------------------------------------------------
(***************************************************************************)
(* Failures: component G, one worker and no administrator.                 *)
(***************************************************************************)

(* What the worker read of the counter is still there when it writes.       *)
CountInv ==
  /\ DOMAIN attempt = {f1} /\ DOMAIN attempt[f1] = DOMAIN G!Idle
  /\ DOMAIN source = DOMAIN G!NewSource
  /\ G!CountIsExact
  /\ attempt[f1].pc = "write" => attempt[f1].seen = source.failures

LEMMA Executing == G!Executions = {f1}
  BY DEF G!Executions

LEMMA InitCount == G!Init => CountInv
  BY Executing DEF G!Init, CountInv, G!CountIsExact, G!NewSource, G!Idle

LEMMA StepCount == CountInv /\ [G!Next]_(G!vars) => CountInv'
<1> SUFFICES ASSUME CountInv, [G!Next]_(G!vars)  PROVE CountInv'
  OBVIOUS
<1> USE DEF CountInv, G!CountIsExact
<1>1. /\ DOMAIN G!Idle = {"pc", "job", "row", "seen", "late"} /\ G!Idle.pc = "idle"
      /\ DOMAIN G!NewSource = {"status", "enabled", "failures", "succeededAt", "attemptedAt", "torn"}
  BY DEF G!Idle, G!NewSource
<1>2. CASE UNCHANGED <<attempt, source, strikes>>
  BY <1>2
<1>3. CASE G!Crash
  BY <1>1, <1>3, Executing DEF G!Crash
<1>4. ASSUME NEW b, G!TakeFetch(f1, b) \/ G!TakeBrowse(f1, b)  PROVE CountInv'
  BY <1>1, <1>4 DEF G!TakeFetch, G!TakeBrowse, G!Idle
<1>5. CASE G!Begin(f1)
  BY <1>1, <1>5 DEF G!Begin
<1>6. CASE G!Fetch(f1) \/ G!AfterFetchFails(f1) \/ G!HardTimeout(f1) \/ G!LosesLock(f1)
  BY <1>1, <1>6 DEF G!Fetch, G!AfterFetchFails, G!HardTimeout, G!LosesLock, G!Goto
<1>7. CASE G!HandToBrowser(f1) \/ G!HandoverThrows(f1) \/ G!Complete(f1) \/ G!DatabaseFails(f1)
  BY <1>1, <1>7 DEF G!HandToBrowser, G!HandoverThrows, G!Complete, G!DatabaseFails, G!Stop, G!Goto
<1>8. CASE G!RecordSuccess(f1)
  BY <1>1, <1>8 DEF G!RecordSuccess, G!Goto, G!NewSource
<1>9. CASE G!ReadHealth(f1)
  BY <1>1, <1>9 DEF G!ReadHealth
<1>10. CASE G!RecordFailure(f1)
  BY <1>1, <1>10 DEF G!RecordFailure, G!Stop
<1>11. CASE \/ G!Schedule \/ G!RetryIngestion \/ UNCHANGED G!vars
            \/ (\E b \in G!Buckets : G!Dispatch(b)) \/ \E j \in G!Jobs : G!RecoverStalled(j)
  BY <1>11 DEF G!Schedule, G!RetryIngestion, G!vars, G!Dispatch, G!RecoverStalled
<1> HIDE DEF CountInv, G!CountIsExact
<1> QED  BY <1>2, <1>3, <1>4, <1>5, <1>6, <1>7, <1>8, <1>9, <1>10, <1>11, Executing DEF G!Next,
            G!RunStep

-----------------------------------------------------------------------------
(***************************************************************************)
(* The manifest: component M.                                              *)
(***************************************************************************)

Entry == [url : Addresses, tuning : Tunings, mode : {"rss", "web", "auto"}, valid : BOOLEAN]

(* Normalising is idempotent, and the manifest has an entry at least. *)
ManifestBound ==
  /\ \A u \in Addresses : Norm[u] \in Addresses /\ Norm[Norm[u]] = Norm[u]
  /\ Manifest \in Seq(Entry)
  /\ Len(Manifest) > 0
  /\ None \notin M!Row

RowsInv ==
  /\ known \in [Rows -> M!Row \cup {None}]
  /\ M!TuningWasChosen

Of(r)  == Norm[known[r].url]
Target == sync.known[Norm[M!Entry.url]]

SyncTypes ==
  sync \in [pc : {"idle", "entry", "load", "save", "probe", "equivalent", "insert", "upsert", "reject"},
            at : 1 .. Len(Manifest) + 1, force : BOOLEAN, known : [M!Normals -> Rows \cup {None}],
            read : M!Row \cup {None}, answers : Seq(M!Answers)]

(* The rows that the sync found at its start keep their identity, those that *)
(* its answers speak of are there, and what it read of a row may be written. *)
SyncInv ==
  /\ SyncTypes
  /\ sync.pc # "idle" => sync.at <= Len(Manifest)
  /\ \A n \in M!Normals : sync.known[n] # None => sync.known[n] \in M!Taken /\ Of(sync.known[n]) = n
  /\ sync.pc \in {"load", "save"} => Target # None
  /\ sync.pc = "save" => sync.read \in M!Row /\ sync.read.tuned \in known[Target].chosen
  /\ M!AnswersAreTrue

OperatorInv ==
  /\ operator \in [pc : {"idle", "save"}, row : Rows \cup {None}, read : M!Row \cup {None}]
  /\ operator.pc = "save" => /\ operator.row \in M!Taken /\ operator.read \in M!Row
                             /\ Norm[operator.read.url] = Of(operator.row)

ManifestInv == RowsInv /\ SyncInv /\ OperatorInv

(* What a step does to the rows that others have found. *)
Keeps ==
  /\ M!Taken \subseteq M!Taken'
  /\ \A r \in M!Taken : Of(r)' = Of(r) /\ known[r].chosen \subseteq known'[r].chosen

LEMMA EntryFacts ==
  ASSUME ManifestBound, SyncInv, sync.pc # "idle"
  PROVE  /\ M!Entry \in Entry
         /\ M!Entry = Manifest[sync.at] /\ Norm[M!Entry.url] \in M!Normals
<1>1. sync.at \in 1 .. Len(Manifest)
  BY DEF SyncInv, SyncTypes
<1>2. M!Entry = Manifest[sync.at]
  BY DEF M!Entry
<1>3. M!Entry \in Entry
  BY <1>1, <1>2 DEF ManifestBound
<1> QED  BY <1>2, <1>3 DEF M!Normals, Entry

(* A row is written with a url of its identity, or a free one taken. *)
LEMMA WriteRow ==
  ASSUME RowsInv, None \notin M!Row, NEW r \in Rows, NEW new \in M!Row,
         known' = [known EXCEPT ![r] = new], new.tuned \in new.chosen,
         r \in M!Taken => Norm[new.url] = Of(r) /\ known[r].chosen \subseteq new.chosen
  PROVE  RowsInv' /\ Keeps /\ r \in M!Taken' /\ known'[r] = new
<1>1. known \in [Rows -> M!Row \cup {None}]
  BY DEF RowsInv
<1>2. known' \in [Rows -> M!Row \cup {None}] /\ known'[r] = new /\ \A q \in Rows \ {r} : known'[q] = known[q]
  BY <1>1
<1>3. M!Taken' = M!Taken \cup {r}
  BY <1>2 DEF M!Taken
<1>4. \A q \in M!Taken' : known'[q].tuned \in known'[q].chosen
  BY <1>2, <1>3 DEF RowsInv, M!TuningWasChosen, M!Taken
<1>5. Keeps
  BY <1>2, <1>3 DEF Keeps, Of, M!Taken
<1> QED  BY <1>2, <1>3, <1>4, <1>5 DEF RowsInv, M!TuningWasChosen

LEMMA RowsStay ==
  ASSUME RowsInv, known' = known  PROVE RowsInv' /\ Keeps
  BY DEF RowsInv, Keeps, Of, M!Taken, M!TuningWasChosen

LEMMA Resolves ==
  ASSUME ManifestBound, RowsInv, NEW u \in Addresses, NEW tuning \in Tunings, M!ResolveOrCreate(u, tuning)
  PROVE  RowsInv' /\ Keeps /\ \E r \in M!Taken' : Of(r)' = Norm[u]
<1>1. CASE M!Equivalent(u) # {}
  <2>1. known' = known
    BY <1>1 DEF M!ResolveOrCreate
  <2>2. PICK r \in M!Taken : known[r].url = Norm[u]
    BY <1>1 DEF M!Equivalent
  <2>3. Of(r) = Norm[u]
    BY <2>2 DEF Of, ManifestBound
  <2> QED  BY <2>1, <2>3, RowsStay DEF Keeps
<1>2. CASE M!Equivalent(u) = {}
  <2> DEFINE new == [url |-> Norm[u], tuned |-> tuning, deleted |-> FALSE, chosen |-> {tuning}]
  <2>1. PICK r \in Rows \ M!Taken : known' = [known EXCEPT ![r] = new]
    BY <1>2 DEF M!ResolveOrCreate
  <2>2. new \in M!Row /\ new.tuned \in new.chosen /\ Norm[new.url] = Norm[u]
    BY DEF M!Row, ManifestBound
  <2> HIDE DEF new
  <2>3. RowsInv' /\ Keeps /\ r \in M!Taken' /\ known'[r] = new
    BY <2>1, <2>2, WriteRow DEF ManifestBound
  <2> QED  BY <2>2, <2>3 DEF Of
<1> QED  BY <1>1, <1>2

(* Another step leaves the sync and the operator with what they know. *)
LEMMA SyncStays ==
  ASSUME ManifestBound, SyncInv, Keeps, sync' = sync  PROVE SyncInv'
<1>1. \A n \in M!Normals : sync.known[n] # None => sync.known[n] \in M!Taken' /\ Of(sync.known[n])' = n
  BY DEF SyncInv, Keeps
<1>2. M!Normals' = M!Normals
  BY DEF M!Normals
<1>3. Target' = Target /\ M!Entry' = M!Entry
  BY DEF Target, M!Entry
<1>4. ASSUME sync.pc = "save"  PROVE sync.read.tuned \in known'[Target].chosen
  <2>1. Target \in M!Taken
    BY <1>4, EntryFacts DEF SyncInv, Target
  <2> QED  BY <1>4, <2>1 DEF SyncInv, Keeps
<1>5. M!AnswersAreTrue'
  <2> SUFFICES ASSUME NEW i \in DOMAIN sync.answers, sync.answers[i] \in {"created", "updated"}
               PROVE  \E r \in M!Taken' : Of(r)' = Norm[Manifest[i].url]
    BY DEF SyncInv, M!AnswersAreTrue, Of
  <2>1. PICK r \in M!Taken : Of(r) = Norm[Manifest[i].url]
    BY DEF SyncInv, M!AnswersAreTrue, Of
  <2> QED  BY <2>1 DEF Keeps
<1> QED  BY <1>1, <1>2, <1>3, <1>4, <1>5 DEF SyncInv, SyncTypes

LEMMA OperatorStays ==
  ASSUME OperatorInv, Keeps, operator' = operator  PROVE OperatorInv'
  BY DEF OperatorInv, Keeps

(* An entry is answered; "created" and "updated" name its source. *)
LEMMA AnswerStep ==
  ASSUME ManifestBound, SyncInv, Keeps, sync.pc # "idle", NEW answer \in M!Answers, M!Answer(answer),
         answer \in {"created", "updated"} => \E r \in M!Taken' : Of(r)' = Norm[M!Entry.url]
  PROVE  SyncInv'
<1> DEFINE pc == IF sync.at = Len(Manifest) THEN "idle" ELSE "entry"
           answers == Append(sync.answers, answer)
<1>1. /\ sync' = [sync EXCEPT !.answers = answers, !.at = sync.at + 1, !.read = None, !.pc = pc]
      /\ pc \in {"idle", "entry"}
  BY DEF M!Answer
<1>2. sync.answers \in Seq(M!Answers)
  BY DEF SyncInv, SyncTypes
<1>3. /\ sync.at \in 1 .. Len(Manifest) /\ Len(sync.answers) = sync.at - 1 /\ Len(Manifest) \in Nat
      /\ Len(sync.answers) \in Nat
  BY DEF SyncInv, SyncTypes, M!AnswersAreTrue, ManifestBound
<1>4. /\ answers \in Seq(M!Answers) /\ Len(answers) = Len(sync.answers) + 1
      /\ \A i \in 1 .. Len(answers) : \/ i \in 1 .. Len(sync.answers) /\ answers[i] = sync.answers[i]
                                      \/ i = sync.at /\ answers[i] = answer
  BY <1>2, <1>3
<1>5. pc # "idle" => sync.at + 1 <= Len(Manifest)
  BY <1>3
<1> HIDE DEF pc, answers
<1>6. /\ sync'.answers = answers /\ sync'.at = sync.at + 1 /\ sync'.read = None /\ sync'.pc = pc
      /\ sync'.known = sync.known
  BY <1>1 DEF SyncInv, SyncTypes
<1>11. SyncTypes'
  <2>1. /\ sync' = [pc |-> pc, at |-> sync.at + 1, force |-> sync.force, known |-> sync.known, read |-> None,
                    answers |-> answers]
        /\ sync.force \in BOOLEAN /\ sync.known \in [M!Normals -> Rows \cup {None}]
    BY <1>1 DEF SyncInv, SyncTypes
  <2>2. sync.at + 1 \in 1 .. Len(Manifest) + 1
    BY <1>3
  <2> QED  BY <1>1, <1>4, <2>1, <2>2 DEF SyncTypes, M!Normals, M!Row, M!Answers
<1>7. \A n \in M!Normals, r \in Rows : sync.known[n] = r /\ r # None => r \in M!Taken' /\ Of(r)' = n
  BY DEF SyncInv, Keeps
<1>8. M!Normals' = M!Normals
  BY DEF M!Normals
<1>9. M!AnswersAreTrue'
  <2>1. Len(answers) = sync'.at - 1 /\ DOMAIN answers = 1 .. Len(answers) /\ DOMAIN sync.answers = 1 .. Len(sync.answers)
    BY <1>2, <1>3, <1>4, <1>6
  <2>2. ASSUME NEW i \in DOMAIN answers, answers[i] \in {"created", "updated"}
        PROVE  \E r \in M!Taken' : Of(r)' = Norm[Manifest[i].url]
    <3>1. CASE i \in DOMAIN sync.answers /\ answers[i] = sync.answers[i]
      <4>1. PICK r \in M!Taken : Of(r) = Norm[Manifest[i].url]
        BY <2>2, <3>1 DEF SyncInv, M!AnswersAreTrue, Of
      <4> QED  BY <4>1 DEF Keeps
    <3>2. CASE i = sync.at /\ answers[i] = answer
      BY <2>2, <3>2, EntryFacts
    <3> QED  BY <1>4, <2>1, <3>1, <3>2
  <2> QED  BY <1>6, <2>1, <2>2 DEF M!AnswersAreTrue, Of
<1>10. \A n \in M!Normals' : sync'.known[n] # None => sync'.known[n] \in M!Taken' /\ Norm[known'[sync'.known[n]].url] = n
  BY <1>6, <1>7, <1>8 DEF Of, SyncInv, SyncTypes
<1> QED  BY <1>1, <1>5, <1>6, <1>8, <1>9, <1>10, <1>11 DEF SyncInv, Of

LEMMA GotoStep ==
  ASSUME ManifestBound, SyncInv, Keeps, sync.pc # "idle",
         NEW pc \in {"load", "probe", "equivalent", "insert", "upsert", "reject"}, M!Goto(pc),
         pc = "load" => Target # None
  PROVE  SyncInv'
<1>1. sync' = [sync EXCEPT !.pc = pc]
  BY DEF M!Goto
<1>2. /\ sync'.answers = sync.answers /\ sync'.at = sync.at /\ sync'.pc = pc
      /\ sync'.known = sync.known /\ SyncTypes'
  BY <1>1 DEF SyncInv, SyncTypes, M!Normals, M!Row, M!Answers
<1>3. \A n \in M!Normals, r \in Rows : sync.known[n] = r /\ r # None => r \in M!Taken' /\ Of(r)' = n
  BY DEF SyncInv, Keeps
<1>4. M!Normals' = M!Normals /\ Target' = Target
  BY <1>2 DEF M!Normals, Target, M!Entry
<1>5. M!AnswersAreTrue'
  <2> SUFFICES ASSUME NEW i \in DOMAIN sync.answers, sync.answers[i] \in {"created", "updated"}
               PROVE  \E r \in M!Taken' : Of(r)' = Norm[Manifest[i].url]
    BY <1>2 DEF SyncInv, M!AnswersAreTrue, Of
  <2>1. PICK r \in M!Taken : Of(r) = Norm[Manifest[i].url]
    BY DEF SyncInv, M!AnswersAreTrue, Of
  <2> QED  BY <2>1 DEF Keeps
<1>6. \A n \in M!Normals' : sync'.known[n] # None => sync'.known[n] \in M!Taken' /\ Norm[known'[sync'.known[n]].url] = n
  BY <1>2, <1>3, <1>4 DEF Of, SyncInv, SyncTypes
<1> QED  BY <1>2, <1>4, <1>5, <1>6 DEF SyncInv, Of

(* The steps of the sync that write no row. *)
LEMMA SyncSteps ==
  ASSUME ManifestBound, ManifestInv,
         \/ M!Begin \/ M!Load \/ M!Probe \/ M!FindEquivalent \/ M!Upsert \/ M!Reject
         \/ \E force \in BOOLEAN : M!Start(force)
  PROVE  ManifestInv'
<1>1. known' = known /\ operator' = operator
  BY DEF M!Begin, M!Load, M!Probe, M!FindEquivalent, M!Upsert, M!Reject, M!Start
<1>2. RowsInv' /\ Keeps /\ OperatorInv'
  BY <1>1, RowsStay, OperatorStays DEF ManifestInv
<1>3. CASE M!Begin
  <2>1. sync.pc # "idle"
    BY <1>3 DEF M!Begin
  <2>2. CASE M!Answer("failed")
    BY <1>2, <2>1, <2>2, AnswerStep DEF ManifestInv, M!Answers
  <2>3. CASE Target # None /\ M!Goto("load")
    BY <1>2, <2>1, <2>3, GotoStep DEF ManifestInv
  <2>4. CASE M!Goto("equivalent") \/ M!Goto("probe")
    BY <1>2, <2>1, <2>4, GotoStep DEF ManifestInv
  <2> QED  BY <1>2, <1>3, <2>2, <2>3, <2>4 DEF M!Begin, ManifestInv, Target
<1>4. CASE M!Load
  <2>1. sync.pc = "load" /\ sync.pc # "idle"
    BY <1>4 DEF M!Load
  <2>2. CASE M!Answer("failed")
    BY <1>2, <2>1, <2>2, AnswerStep DEF ManifestInv, M!Answers
  <2>3. CASE Target \in M!Live /\ sync' = [sync EXCEPT !.pc = "save", !.read = known[Target]]
    <3>1. known[Target] \in M!Row /\ known[Target].tuned \in known[Target].chosen
      BY <2>3 DEF ManifestInv, RowsInv, M!TuningWasChosen, M!Live, M!Taken
    <3> DEFINE read == known[Target]
    <3>2. sync' = [sync EXCEPT !.pc = "save", !.read = read] /\ read \in M!Row /\ read.tuned \in known[Target].chosen
      BY <2>3, <3>1
    <3> HIDE DEF read
    <3>3. /\ sync'.answers = sync.answers /\ sync'.at = sync.at /\ sync'.pc = "save"
          /\ sync'.known = sync.known /\ sync'.read = read /\ SyncTypes'
      BY <3>2 DEF ManifestInv, SyncInv, SyncTypes, M!Normals, M!Row, M!Answers
    <3>4. M!Normals' = M!Normals /\ Target' = Target /\ M!Taken' = M!Taken /\ \A r : Of(r)' = Of(r)
      BY <1>1, <3>3 DEF M!Normals, Target, M!Entry, M!Taken, Of
    <3>5. M!AnswersAreTrue'
      BY <1>1, <3>3, <3>4 DEF ManifestInv, SyncInv, M!AnswersAreTrue
    <3>6. SyncInv'
      BY <1>1, <2>1, <3>2, <3>3, <3>4, <3>5 DEF ManifestInv, SyncInv
    <3> QED  BY <1>2, <3>6 DEF ManifestInv
  <2> QED  BY <1>2, <1>4, <2>2, <2>3 DEF M!Load, ManifestInv, Target
<1>5. CASE M!Probe
  <2>1. sync.pc # "idle" /\ (M!Goto("equivalent") \/ M!Goto("upsert"))
    BY <1>5 DEF M!Probe
  <2> QED  BY <1>2, <2>1, GotoStep DEF ManifestInv
<1>6. CASE M!FindEquivalent
  <2>1. sync.pc # "idle"
    BY <1>6 DEF M!FindEquivalent
  <2>2. CASE M!Equivalent(M!Entry.url) # {} /\ M!Answer("created")
    <3>1. PICK r \in M!Taken : known[r].url = Norm[M!Entry.url]
      BY <2>2 DEF M!Equivalent
    <3>2. Of(r) = Norm[M!Entry.url]
      BY <2>1, <3>1, EntryFacts DEF Of, ManifestBound, ManifestInv, Entry
    <3>3. r \in M!Taken' /\ Of(r)' = Norm[M!Entry.url]
      BY <1>2, <3>2 DEF Keeps
    <3> QED  BY <1>2, <2>1, <2>2, <3>3, AnswerStep DEF ManifestInv, M!Answers
  <2>3. CASE M!Goto("insert")
    BY <1>2, <2>1, <2>3, GotoStep DEF ManifestInv
  <2> QED  BY <1>6, <2>2, <2>3 DEF M!FindEquivalent
<1>7. CASE M!Upsert
  <2>1. sync.pc # "idle" /\ M!Goto("reject")
    BY <1>7 DEF M!Upsert
  <2> QED  BY <1>2, <2>1, GotoStep DEF ManifestInv
<1>8. CASE M!Reject
  <2>1. sync.pc # "idle" /\ M!Answer("candidate")
    BY <1>8 DEF M!Reject
  <2> QED  BY <1>2, <2>1, AnswerStep DEF ManifestInv, M!Answers
<1>9. ASSUME NEW force \in BOOLEAN, M!Start(force)  PROVE ManifestInv'
  <2>1. PICK map \in M!Maps : sync' = [M!NoSync EXCEPT !.pc = "entry", !.force = force, !.known = map]
    BY <1>9 DEF M!Start
  <2>2. /\ map \in [M!Normals -> M!Live \cup {None}]
        /\ \A n \in M!Normals : map[n] # None => map[n] \in M!Live /\ Of(map[n]) = n
    BY <2>1 DEF M!Maps, Of
  <2>3. M!Live \subseteq M!Taken /\ M!Taken \subseteq Rows
    BY DEF M!Live, M!Taken
  <2>4. /\ sync'.answers = <<>> /\ sync'.at = 1 /\ sync'.pc = "entry" /\ sync'.known = map /\ sync'.read = None
        /\ sync' \in [pc : {"idle", "entry", "load", "save", "probe", "equivalent", "insert", "upsert", "reject"},
            at : 1 .. Len(Manifest) + 1, force : BOOLEAN, known : [M!Normals -> Rows \cup {None}],
            read : M!Row \cup {None}, answers : Seq(M!Answers)]
    <3>1. map \in [M!Normals -> Rows \cup {None}]
      BY <2>2, <2>3
    <3>2. <<>> \in Seq(M!Answers) /\ 1 \in 1 .. Len(Manifest) + 1
      BY DEF ManifestBound
    <3> QED  BY <2>1, <3>1, <3>2 DEF M!NoSync
  <2>5. M!Normals' = M!Normals /\ M!Taken' = M!Taken /\ \A r : Of(r)' = Of(r)
    BY <1>1 DEF M!Normals, M!Taken, Of
  <2>6. M!AnswersAreTrue'
    BY <2>4 DEF M!AnswersAreTrue
  <2>7. 1 <= Len(Manifest)
    BY DEF ManifestBound
  <2>8. SyncTypes'
    BY <2>4, <2>5 DEF SyncTypes, M!Row, M!Answers
  <2>9. SyncInv'
    BY <2>2, <2>3, <2>4, <2>5, <2>6, <2>7, <2>8 DEF SyncInv
  <2> QED  BY <1>2, <2>9 DEF ManifestInv
<1> QED  BY <1>3, <1>4, <1>5, <1>6, <1>7, <1>8, <1>9

(* The steps of the sync that write a row. *)
LEMMA SaveStep == ManifestBound /\ ManifestInv /\ M!Save => ManifestInv'
<1> SUFFICES ASSUME ManifestBound, ManifestInv, M!Save  PROVE ManifestInv'
  OBVIOUS
<1>1. sync.pc = "save" /\ sync.pc # "idle" /\ operator' = operator
  BY DEF M!Save
<1>2. M!Entry \in Entry /\ Norm[M!Entry.url] \in M!Normals
  BY <1>1, EntryFacts DEF ManifestInv
<1>3. Target \in M!Taken /\ Of(Target) = Norm[M!Entry.url] /\ sync.read \in M!Row
      /\ sync.read.tuned \in known[Target].chosen
  BY <1>1, <1>2 DEF ManifestInv, SyncInv, Target
<1>4. CASE M!Answer("failed") /\ UNCHANGED known
  <2>1. RowsInv' /\ Keeps
    BY <1>4, RowsStay DEF ManifestInv
  <2>2. OperatorInv' /\ SyncInv'
    BY <1>1, <1>4, <2>1, OperatorStays, AnswerStep DEF ManifestInv, M!Answers
  <2> QED  BY <2>1, <2>2 DEF ManifestInv
<1>5. CASE ~ (M!Answer("failed") /\ UNCHANGED known)
  <2> DEFINE tuned == IF M!Retuned THEN M!Entry.tuning ELSE sync.read.tuned
             chosen == IF sync.force THEN known[Target].chosen \cup {M!Entry.tuning} ELSE known[Target].chosen
             new == [known[Target] EXCEPT !.url = M!Entry.url, !.tuned = tuned, !.chosen = chosen]
  <2>1. known[Target] \in M!Row /\ Target \in Rows /\ known \in [Rows -> M!Row \cup {None}]
    BY <1>3 DEF M!Taken, ManifestInv, RowsInv
  <2>2. /\ M!Answer("updated")
        /\ known' = [known EXCEPT ![Target].url = M!Entry.url, ![Target].tuned = tuned, ![Target].chosen = chosen]
    BY <1>5 DEF M!Save, Target
  <2>3. /\ tuned \in Tunings /\ chosen \in SUBSET Tunings /\ tuned \in chosen
        /\ known[Target].chosen \subseteq chosen
    BY <1>2, <1>3, <2>1 DEF M!Retuned, M!Row, Entry
  <2> HIDE DEF tuned, chosen
  <2>4. known' = [known EXCEPT ![Target] = new]
    BY <2>1, <2>2
  <2>5. new \in M!Row /\ new.tuned = tuned /\ new.chosen = chosen /\ new.url = M!Entry.url
    BY <1>2, <2>1, <2>3 DEF M!Row, Entry
  <2> HIDE DEF new
  <2>6. RowsInv' /\ Keeps /\ Target \in M!Taken' /\ known'[Target] = new
    BY <1>3, <2>1, <2>3, <2>4, <2>5, WriteRow DEF ManifestInv, ManifestBound
  <2>7. \E r \in M!Taken' : Of(r)' = Norm[M!Entry.url]
    BY <1>3, <2>6 DEF Keeps
  <2>8. OperatorInv' /\ SyncInv'
    BY <1>1, <2>2, <2>6, <2>7, OperatorStays, AnswerStep DEF ManifestInv, M!Answers
  <2> QED  BY <2>6, <2>8 DEF ManifestInv
<1> QED  BY <1>4, <1>5

LEMMA CreateStep == ManifestBound /\ ManifestInv /\ M!Create => ManifestInv'
<1> SUFFICES ASSUME ManifestBound, ManifestInv, M!Create  PROVE ManifestInv'
  OBVIOUS
<1>1. sync.pc # "idle" /\ operator' = operator
  BY DEF M!Create
<1>2. M!Entry \in Entry
  BY <1>1, EntryFacts DEF ManifestInv
<1>3. CASE M!ResolveOrCreate(M!Entry.url, M!Entry.tuning) /\ M!Answer("created")
  <2> DEFINE u == M!Entry.url
             tuning == M!Entry.tuning
  <2>1. u \in Addresses /\ tuning \in Tunings /\ M!ResolveOrCreate(u, tuning)
    BY <1>2, <1>3 DEF Entry
  <2> HIDE DEF u, tuning
  <2>2. RowsInv' /\ Keeps /\ \E r \in M!Taken' : Of(r)' = Norm[u]
    BY <2>1, Resolves DEF ManifestInv
  <2>3. OperatorInv' /\ SyncInv'
    BY <1>1, <1>3, <2>2, OperatorStays, AnswerStep DEF ManifestInv, M!Answers, u
  <2> QED  BY <2>2, <2>3 DEF ManifestInv
<1>4. CASE UNCHANGED known /\ (M!Goto("upsert") \/ M!Answer("failed"))
  <2>1. RowsInv' /\ Keeps
    BY <1>4, RowsStay DEF ManifestInv
  <2>2. OperatorInv' /\ SyncInv'
    BY <1>1, <1>4, <2>1, OperatorStays, AnswerStep, GotoStep DEF ManifestInv, M!Answers
  <2> QED  BY <2>1, <2>2 DEF ManifestInv
<1> QED  BY <1>3, <1>4 DEF M!Create

(* The steps of the operator and of the promotion. *)
LEMMA OperatorSteps ==
  ASSUME ManifestBound, ManifestInv,
         \/ \E u \in Addresses, tuning \in Tunings : M!AdminCreate(u, tuning)
         \/ \E r \in Rows : M!AdminLoad(r) \/ M!AdminRemove(r)
         \/ \E tuning \in Tunings : M!AdminSave(tuning)
         \/ \E n \in M!Normals : M!Promote(n)
  PROVE  ManifestInv'
<1>1. sync' = sync
  BY DEF M!AdminCreate, M!AdminLoad, M!AdminRemove, M!AdminSave, M!Promote
<1>2. ASSUME Keeps  PROVE SyncInv'
  BY <1>1, <1>2, SyncStays DEF ManifestInv
<1>3. ASSUME NEW u \in Addresses, NEW tuning \in Tunings, M!AdminCreate(u, tuning)  PROVE ManifestInv'
  <2> DEFINE new == [url |-> u, tuned |-> tuning, deleted |-> FALSE, chosen |-> {tuning}]
  <2>1. operator' = operator
    BY <1>3 DEF M!AdminCreate
  <2>2. PICK r \in Rows \ M!Taken : known' = [known EXCEPT ![r] = new]
    BY <1>3 DEF M!AdminCreate
  <2>3. new \in M!Row /\ new.tuned \in new.chosen
    BY DEF M!Row
  <2> HIDE DEF new
  <2>4. RowsInv' /\ Keeps
    BY <2>2, <2>3, WriteRow DEF ManifestBound, ManifestInv
  <2> QED  BY <1>2, <2>1, <2>4, OperatorStays DEF ManifestInv
<1>4. ASSUME NEW r \in Rows, M!AdminLoad(r)  PROVE ManifestInv'
  <2>1. known' = known /\ r \in M!Taken /\ operator' = [pc |-> "save", row |-> r, read |-> known[r]]
    BY <1>4 DEF M!AdminLoad, M!Live
  <2>2. RowsInv' /\ Keeps
    BY <2>1, RowsStay DEF ManifestInv
  <2>3. known[r] \in M!Row /\ M!Row' = M!Row
    BY <2>1 DEF ManifestInv, RowsInv, M!Taken, M!Row
  <2>4. OperatorInv'
    BY <2>1, <2>2, <2>3 DEF OperatorInv, Keeps, Of
  <2> QED  BY <1>2, <2>2, <2>4 DEF ManifestInv
<1>5. ASSUME NEW r \in Rows, M!AdminRemove(r)  PROVE ManifestInv'
  <2> DEFINE new == [known[r] EXCEPT !.deleted = TRUE]
  <2>1. operator' = operator /\ r \in M!Taken /\ known' = [known EXCEPT ![r].deleted = TRUE]
    BY <1>5 DEF M!AdminRemove, M!Live
  <2>2. known[r] \in M!Row /\ known[r].tuned \in known[r].chosen /\ known' = [known EXCEPT ![r] = new]
    BY <2>1 DEF ManifestInv, RowsInv, M!TuningWasChosen, M!Taken
  <2>3. new \in M!Row /\ new.tuned = known[r].tuned /\ new.chosen = known[r].chosen /\ new.url = known[r].url
    BY <2>2 DEF M!Row
  <2> HIDE DEF new
  <2>4. RowsInv' /\ Keeps
    BY <2>2, <2>3, WriteRow DEF ManifestBound, ManifestInv, Of
  <2> QED  BY <1>2, <2>1, <2>4, OperatorStays DEF ManifestInv
<1>6. ASSUME NEW tuning \in Tunings, M!AdminSave(tuning)  PROVE ManifestInv'
  <2>1. /\ operator.pc = "save" /\ operator' = M!NoAdmin
        /\ operator.row \in M!Taken /\ operator.read \in M!Row /\ Norm[operator.read.url] = Of(operator.row)
    BY <1>6 DEF M!AdminSave, ManifestInv, OperatorInv
  <2>2. OperatorInv'
    BY <2>1 DEF OperatorInv, M!NoAdmin
  <2>3. CASE known' = known
    BY <1>2, <2>2, <2>3, RowsStay DEF ManifestInv
  <2>4. CASE known' # known
    <3> DEFINE r == operator.row
               chosen == known[r].chosen \cup {tuning}
               new == [known[r] EXCEPT !.url = operator.read.url, !.tuned = tuning, !.chosen = chosen]
    <3>1. r \in Rows /\ known[r] \in M!Row /\ known \in [Rows -> M!Row \cup {None}]
      BY <2>1 DEF M!Taken, ManifestInv, RowsInv
    <3>2. known' = [known EXCEPT ![r].url = operator.read.url, ![r].tuned = tuning, ![r].chosen = chosen]
      BY <1>6, <2>4 DEF M!AdminSave
    <3>3. chosen \in SUBSET Tunings /\ known[r].chosen \subseteq chosen /\ tuning \in chosen
      BY <3>1 DEF M!Row
    <3> HIDE DEF chosen
    <3>4. known' = [known EXCEPT ![r] = new]
      BY <3>1, <3>2
    <3>5. new \in M!Row /\ new.tuned = tuning /\ new.chosen = chosen /\ new.url = operator.read.url
      BY <2>1, <3>1, <3>3 DEF M!Row
    <3> HIDE DEF new, r
    <3>6. RowsInv' /\ Keeps
      BY <2>1, <3>1, <3>3, <3>4, <3>5, WriteRow DEF ManifestInv, ManifestBound, r
    <3> QED  BY <1>2, <2>2, <3>6 DEF ManifestInv
  <2> QED  BY <2>3, <2>4
<1>7. ASSUME NEW n \in M!Normals, M!Promote(n)  PROVE ManifestInv'
  <2>1. operator' = operator /\ n \in Addresses
    BY <1>7 DEF M!Promote, M!Normals, ManifestBound
  <2>2. PICK tuning \in Tunings : M!ResolveOrCreate(n, tuning)
    BY <1>7 DEF M!Promote
  <2>3. RowsInv' /\ Keeps
    BY <2>1, <2>2, Resolves DEF ManifestInv
  <2> QED  BY <1>2, <2>1, <2>3, OperatorStays DEF ManifestInv
<1> QED  BY <1>3, <1>4, <1>5, <1>6, <1>7

LEMMA InitManifest == ManifestBound /\ M!Init => ManifestInv
<1> SUFFICES ASSUME ManifestBound, M!Init  PROVE ManifestInv
  OBVIOUS
<1>1. M!Taken = {} /\ RowsInv
  BY DEF M!Init, M!Taken, RowsInv, M!TuningWasChosen
<1>2. <<>> \in Seq(M!Answers) /\ 1 \in 1 .. Len(Manifest) + 1
  BY DEF ManifestBound
<1>3. /\ sync \in [pc : {"idle", "entry", "load", "save", "probe", "equivalent", "insert", "upsert", "reject"},
            at : 1 .. Len(Manifest) + 1, force : BOOLEAN, known : [M!Normals -> Rows \cup {None}],
            read : M!Row \cup {None}, answers : Seq(M!Answers)]
      /\ sync.pc = "idle" /\ sync.answers = <<>> /\ sync.at = 1 /\ \A n \in M!Normals : sync.known[n] = None
  BY <1>2 DEF M!Init, M!NoSync
<1>4. SyncInv
  BY <1>3 DEF SyncInv, SyncTypes, M!AnswersAreTrue
<1>5. OperatorInv
  BY DEF OperatorInv, M!Init, M!NoAdmin
<1> QED  BY <1>1, <1>4, <1>5 DEF ManifestInv

LEMMA StepManifest == ManifestBound /\ ManifestInv /\ [M!Next]_(M!vars) => ManifestInv'
<1> SUFFICES ASSUME ManifestBound, ManifestInv, [M!Next]_(M!vars)  PROVE ManifestInv'
  OBVIOUS
<1>1. CASE UNCHANGED M!vars
  <2>1. known' = known /\ sync' = sync /\ operator' = operator
    BY <1>1 DEF M!vars
  <2>2. RowsInv' /\ Keeps
    BY <2>1, RowsStay DEF ManifestInv
  <2> QED  BY <2>1, <2>2, SyncStays, OperatorStays DEF ManifestInv
<1> QED  BY <1>1, SyncSteps, SaveStep, CreateStep, OperatorSteps DEF M!Next


-----------------------------------------------------------------------------
(***************************************************************************)
(* The intake of articles: component I.                                    *)
(***************************************************************************)

(* Fetches list links, and normalising a link does not change its article.  *)
IntakeBound ==
  /\ \A list \in Lists : list \in Seq(I!Links) /\ list # <<>>
  /\ \A l \in I!Links : Title[LinkNorm[l]] = Title[l]
  /\ None \notin I!Row

Insertions == {"persist", "pend", "queue"}
Fetching == [pc : {"idle", "look", "request", "title", "create"} \cup Insertions, list : Seq(I!Links),
             due : BOOLEAN, unsigned : {FALSE}, status : {"new", "duplicate"}, looked : SUBSET I!Urls]

Titled(urls, title) == \E u \in urls : Title[u] = title

(* A fetch past the title's look did not see the title, if it calls its     *)
(* article new, and one past the insert knows what the row says.            *)
FetchInv(e) ==
  LET r == intake[e] IN
  /\ r.pc # "idle" => r.list # <<>>
  /\ r.pc \in {"create"} \cup Insertions /\ r.status = "new" => ~ Titled(r.looked, Title[Head(r.list)])
  /\ r.pc \in Insertions =>
       /\ row[I!UrlOf(e)] # None /\ row[I!UrlOf(e)].due = r.due
       /\ row[I!UrlOf(e)].status = "duplicate" <=> r.status = "duplicate"
  /\ r.pc \in {"pend", "queue"} => I!ForAnalysis(e)

(* A row called an original did not see its title. *)
OriginalsAreNew ==
  \A u \in I!Urls : row[u] # None /\ row[u].status # "duplicate" => ~ Titled(row[u].looked, Title[u])

IntakeInv ==
  /\ row \in [I!Urls -> I!Row \cup {None}]
  /\ intake \in [I!Fetches -> Fetching]
  /\ \A e \in I!Fetches : FetchInv(e)
  /\ OriginalsAreNew
  /\ I!ForgottenOnlyByFaults
  /\ I!PublicationsHaveSignals

LEMMA IntakeAddsUp == IntakeInv => I!IntakeIsAccountedFor
  BY DEF IntakeInv, I!IntakeIsAccountedFor, I!DuplicatesOnlyInRaces, OriginalsAreNew, Titled,
     I!Fresh

(* Whatever method finds an article without a configured selector goes by   *)
(* a sign of one.                                                           *)
LEMMA MethodsHaveSignals ==
  ASSUME NEW page, I!Extraction(page) # None, I!Extraction(page) # "cheerio_selector"
  PROVE  I!HasSignal(page)
  BY DEF I!Extraction, I!HasSignal, I!FirstArticleIsTitled

LEMMA UrlFacts ==
  ASSUME IntakeBound, NEW e \in I!Fetches, intake[e].list \in Seq(I!Links), intake[e].list # <<>>
  PROVE  I!UrlOf(e) \in I!Urls /\ Title[I!UrlOf(e)] = Title[Head(intake[e].list)]
<1>1. Head(intake[e].list) \in I!Links
  OBVIOUS
<1> QED  BY <1>1 DEF I!UrlOf, I!Urls, IntakeBound

LEMMA NextOfList ==
  ASSUME NEW list \in Seq(I!Links)
  PROVE  /\ I!After(list) \in Fetching
         /\ I!After(list).pc \in {"idle", "look"}
         /\ I!After(list).pc # "idle" => I!After(list).list # <<>>
         /\ I!Idle \in Fetching /\ I!Idle.pc = "idle"
<1>1. <<>> \in Seq(I!Links) /\ I!Idle \in Fetching /\ I!Idle.pc = "idle"
  BY DEF I!Idle, Fetching
<1>2. CASE Len(list) > 1
  <2>1. Tail(list) \in Seq(I!Links) /\ Tail(list) # <<>>
    BY <1>2
  <2> DEFINE tail == Tail(list)
  <2>2. I!After(list) = [I!Idle EXCEPT !.pc = "look", !.list = tail]
    BY <1>2 DEF I!After
  <2> HIDE DEF tail
  <2> QED  BY <1>1, <2>1, <2>2 DEF I!Idle, Fetching, tail
<1>3. CASE ~ (Len(list) > 1)
  BY <1>1, <1>3 DEF I!After
<1> QED  BY <1>2, <1>3

(* What others know of rows stays when rows are neither removed nor called  *)
(* duplicates or originals anew.                                            *)
RowsKeep ==
  \A u \in I!Urls : row[u] # None =>
    /\ row'[u] # None /\ row'[u].due = row[u].due
    /\ row'[u].status = "duplicate" <=> row[u].status = "duplicate"

LEMMA OthersKeep ==
  ASSUME IntakeBound, IntakeInv, RowsKeep, NEW e \in I!Fetches, intake'[e] = intake[e]
  PROVE  FetchInv(e)'
<1>1. I!UrlOf(e)' = I!UrlOf(e)
  BY DEF I!UrlOf
<1>2. intake[e].list \in Seq(I!Links) /\ intake[e].pc \in Insertions => I!UrlOf(e) \in I!Urls
  <2>1. intake[e].list \in Seq(I!Links) /\ (intake[e].pc \in Insertions => intake[e].list # <<>>)
    BY DEF IntakeInv, FetchInv, Fetching, Insertions
  <2> QED  BY <2>1, UrlFacts
<1>3. intake[e].list \in Seq(I!Links)
  BY DEF IntakeInv, Fetching
<1>4. FetchInv(e)
  BY DEF IntakeInv
<1> QED  BY <1>1, <1>2, <1>3, <1>4 DEF FetchInv, RowsKeep, I!ForAnalysis

(* A fetch moves: it leaves an insert only with nothing left to queue, and   *)
(* a row it adds is its own.                                                *)
LEMMA FetchMoves ==
  ASSUME IntakeBound, IntakeInv, NEW e \in I!Fetches, NEW r \in Fetching,
         intake' = [intake EXCEPT ![e] = r], FetchInv(e)',
         row' \in [I!Urls -> I!Row \cup {None}], RowsKeep, OriginalsAreNew', I!PublicationsHaveSignals',
         analysis \subseteq analysis', struck \subseteq struck',
         \A u \in I!Urls : row[u] = None /\ row'[u] # None =>
           \/ u = I!UrlOf(e) /\ r.pc \in Insertions /\ r.list = intake[e].list
           \/ row'[u].status = "duplicate" \/ ~ row'[u].due,
         \/ intake[e].pc \notin Insertions
         \/ r.pc \in Insertions /\ r.list = intake[e].list
         \/ I!UrlOf(e) \in analysis' \cup struck'
         \/ ~ I!ForAnalysis(e)
  PROVE  IntakeInv'
<1>1. /\ intake' \in [I!Fetches -> Fetching] /\ intake'[e] = r
      /\ \A f \in I!Fetches : f # e => intake'[f] = intake[f]
  BY DEF IntakeInv
<1>2. \A f \in I!Fetches : FetchInv(f)'
  BY <1>1, OthersKeep
<1>3. I!ForgottenOnlyByFaults'
  <2> SUFFICES ASSUME NEW u \in I!Urls, row'[u] # None, row'[u].status # "duplicate", row'[u].due
               PROVE  u \in analysis' \cup struck' \/ \E f \in I!Fetches :
                        intake'[f].pc \in Insertions /\ I!UrlOf(f)' = u
    BY DEF I!ForgottenOnlyByFaults, I!HeldBy, Insertions, I!Urls
  <2>1. \A f \in I!Fetches : intake'[f].list = intake[f].list => I!UrlOf(f)' = I!UrlOf(f)
    BY DEF I!UrlOf
  <2>2. CASE row[u] = None
    BY <1>1, <2>1, <2>2
  <2>3. CASE row[u] # None
    <3>1. row[u].status # "duplicate" /\ row[u].due
      BY <2>3 DEF RowsKeep
    <3>2. CASE u \in analysis \cup struck
      BY <3>2
    <3>3. ASSUME NEW f \in I!Fetches, intake[f].pc \in Insertions, I!UrlOf(f) = u
          PROVE  u \in analysis' \cup struck' \/ \E g \in I!Fetches :
                        intake'[g].pc \in Insertions /\ I!UrlOf(g)' = u
      <4>1. CASE f # e
        BY <1>1, <2>1, <3>3, <4>1
      <4>2. CASE f = e
        <5>1. I!ForAnalysis(e)
          BY <3>1, <3>3, <4>2 DEF IntakeInv, FetchInv, I!ForAnalysis, Fetching
        <5> QED  BY <1>1, <2>1, <3>3, <4>2, <5>1
      <4> QED  BY <4>1, <4>2
    <3> QED  BY <2>3, <3>1, <3>2, <3>3 DEF IntakeInv, I!ForgottenOnlyByFaults, I!HeldBy, Insertions
  <2> QED  BY <2>2, <2>3
<1> QED  BY <1>1, <1>2, <1>3 DEF IntakeInv, I!Urls

LEMMA RowsRemain ==
  ASSUME IntakeInv, row' = row
  PROVE  /\ row' \in [I!Urls -> I!Row \cup {None}] /\ RowsKeep /\ OriginalsAreNew'
         /\ I!PublicationsHaveSignals' /\ \A u \in I!Urls : ~ (row[u] = None /\ row'[u] # None)
  BY DEF IntakeInv, RowsKeep, OriginalsAreNew, I!PublicationsHaveSignals, Titled, I!Urls

(* A link is done with: nothing is left to queue, or it is struck or queued. *)
LEMMA NextLinkStep ==
  ASSUME IntakeBound, IntakeInv, NEW e \in I!Fetches, I!NextLink(e), row' = row,
         analysis \subseteq analysis', struck \subseteq struck',
         \/ intake[e].pc \notin Insertions
         \/ I!UrlOf(e) \in analysis' \cup struck'
         \/ ~ I!ForAnalysis(e)
  PROVE  IntakeInv'
<1> DEFINE r == I!After(intake[e].list)
<1>1. intake' = [intake EXCEPT ![e] = r] /\ intake[e].list \in Seq(I!Links)
  BY DEF I!NextLink, IntakeInv, Fetching
<1>2. r \in Fetching /\ r.pc \in {"idle", "look"} /\ (r.pc # "idle" => r.list # <<>>)
  BY <1>1, NextOfList
<1> HIDE DEF r
<1>3. intake'[e] = r
  BY <1>1 DEF IntakeInv
<1>4. FetchInv(e)'
  BY <1>2, <1>3 DEF FetchInv, Insertions
<1> QED  BY <1>1, <1>2, <1>4, FetchMoves, RowsRemain

(* A fetch goes on with its link without the rows being touched. *)
LEMMA GoesOn ==
  ASSUME IntakeBound, IntakeInv, NEW e \in I!Fetches, NEW r \in Fetching,
         UNCHANGED <<row, analysis, struck>>, intake' = [intake EXCEPT ![e] = r], FetchInv(e)',
         (r.pc \in Insertions /\ r.list = intake[e].list) \/ intake[e].pc \notin Insertions
  PROVE  IntakeInv'
  BY FetchMoves, RowsRemain

LEMMA StartStep ==
  ASSUME IntakeBound, IntakeInv, NEW e \in I!Fetches, NEW list \in Lists, I!Start(e, list)
  PROVE  IntakeInv'
<1> DEFINE r == [I!Idle EXCEPT !.pc = "look", !.list = list]
<1>1. r \in Fetching /\ r.pc = "look" /\ r.list # <<>>
  BY DEF I!Idle, Fetching, IntakeBound
<1>2. /\ intake' = [intake EXCEPT ![e] = r] /\ intake[e].pc \notin Insertions
      /\ UNCHANGED <<row, analysis, struck>>
  BY DEF I!Start, Insertions
<1> HIDE DEF r
<1>3. intake'[e] = r
  BY <1>2 DEF IntakeInv
<1>4. FetchInv(e)'
  BY <1>1, <1>3 DEF FetchInv, Insertions
<1> QED  BY <1>1, <1>2, <1>4, GoesOn

LEMMA LookStep ==
  ASSUME IntakeBound, IntakeInv, NEW e \in I!Fetches, I!Look(e) \/ I!Request(e)
  PROVE  IntakeInv'
<1>1. /\ UNCHANGED <<row, analysis, struck>> /\ intake[e].pc \notin Insertions
      /\ intake[e] \in Fetching /\ intake[e].list # <<>>
  BY DEF I!Look, I!Request, Insertions, IntakeInv, FetchInv
<1>2. CASE I!NextLink(e)
  BY <1>1, <1>2, NextLinkStep
<1>3. ASSUME NEW r \in Fetching, intake' = [intake EXCEPT ![e] = r], r.list = intake[e].list,
             r.pc \in {"request", "title"}
      PROVE  IntakeInv'
  <2>1. intake'[e] = r
    BY <1>3 DEF IntakeInv
  <2>2. FetchInv(e)'
    BY <1>1, <1>3, <2>1 DEF FetchInv, Insertions
  <2> QED  BY <1>1, <1>3, <2>2, GoesOn
<1>4. CASE I!Goto(e, "request")
  <2> DEFINE r == [intake[e] EXCEPT !.pc = "request"]
  <2>1. intake' = [intake EXCEPT ![e] = r]
    BY <1>4 DEF I!Goto, IntakeInv
  <2>2. r \in Fetching /\ r.list = intake[e].list /\ r.pc \in {"request", "title"}
    BY <1>1 DEF Fetching
  <2> QED  BY <1>3, <2>1, <2>2
<1>5. ASSUME NEW recent \in BOOLEAN,
             intake' = [intake EXCEPT ![e].pc = "title", ![e].due = recent]
      PROVE  IntakeInv'
  <2> DEFINE r == [intake[e] EXCEPT !.pc = "title", !.due = recent]
  <2>1. intake' = [intake EXCEPT ![e] = r]
    BY <1>5 DEF IntakeInv
  <2>2. r \in Fetching /\ r.list = intake[e].list /\ r.pc \in {"request", "title"}
    BY <1>1 DEF Fetching
  <2> QED  BY <1>3, <2>1, <2>2
<1>6. ASSUME NEW page \in Pages, NEW lastmod \in I!Dates, I!Extraction(page) # None,
             intake' = [intake EXCEPT
               ![e].pc = "title", ![e].due = I!PublishedAt(lastmod, page, I!Extraction(page)) = "recent",
               ![e].unsigned = I!Extraction(page) # "cheerio_selector" /\ ~ I!HasSignal(page)]
      PROVE  IntakeInv'
  <2> DEFINE recent   == I!PublishedAt(lastmod, page, I!Extraction(page)) = "recent"
             unsigned == I!Extraction(page) # "cheerio_selector" /\ ~ I!HasSignal(page)
             r == [intake[e] EXCEPT !.pc = "title", !.due = recent, !.unsigned = unsigned]
  <2>1. intake' = [intake EXCEPT ![e] = r]
    BY <1>6 DEF IntakeInv
  <2>2. recent \in BOOLEAN /\ unsigned = FALSE
    BY <1>6, MethodsHaveSignals
  <2> HIDE DEF recent, unsigned
  <2>3. r \in Fetching /\ r.list = intake[e].list /\ r.pc \in {"request", "title"}
    BY <1>1, <2>2 DEF Fetching
  <2> QED  BY <1>3, <2>1, <2>3
<1>7. CASE I!Look(e)
  BY <1>2, <1>4, <1>5, <1>7 DEF I!Look
<1>8. CASE I!Request(e)
  BY <1>2, <1>6, <1>8 DEF I!Request
<1> QED  BY <1>7, <1>8

LEMMA TitleStep ==
  ASSUME IntakeBound, IntakeInv, NEW e \in I!Fetches, I!LookForTitle(e)
  PROVE  IntakeInv'
<1> DEFINE status == IF I!SameTitle(e) # {} THEN "duplicate" ELSE "new"
           r == [intake[e] EXCEPT !.pc = "create", !.looked = I!Fresh, !.status = status]
<1>1. /\ UNCHANGED <<row, analysis, struck>> /\ intake[e].pc \notin Insertions
      /\ intake[e] \in Fetching /\ intake[e].list # <<>>
  BY DEF I!LookForTitle, Insertions, IntakeInv, FetchInv
<1>2. intake' = [intake EXCEPT ![e] = r]
  BY DEF I!LookForTitle, IntakeInv
<1>3. /\ status \in {"new", "duplicate"} /\ I!Fresh \subseteq I!Urls
      /\ status = "new" => ~ Titled(I!Fresh, Title[Head(intake[e].list)])
  BY DEF I!SameTitle, Titled, I!Fresh
<1> HIDE DEF status
<1>4. /\ r \in Fetching /\ r.pc = "create" /\ r.list = intake[e].list /\ r.status = status
      /\ r.looked = I!Fresh
  BY <1>1, <1>3 DEF Fetching
<1> HIDE DEF r
<1>5. intake'[e] = r
  BY <1>2 DEF IntakeInv
<1>6. FetchInv(e)'
  BY <1>1, <1>3, <1>4, <1>5 DEF FetchInv, Insertions
<1> QED  BY <1>1, <1>2, <1>4, <1>6, GoesOn

LEMMA PersistStep ==
  ASSUME IntakeBound, IntakeInv, NEW e \in I!Fetches, intake[e].pc = "persist",
         I!ThenAnalyse(e), UNCHANGED <<row, analysis, struck>>
  PROVE  IntakeInv'
<1>1. CASE ~ I!ForAnalysis(e)
  BY <1>1, NextLinkStep DEF I!ThenAnalyse
<1>2. CASE I!ForAnalysis(e)
  <2> DEFINE r == [intake[e] EXCEPT !.pc = "pend"]
  <2>1. intake[e] \in Fetching /\ FetchInv(e)
    BY DEF IntakeInv
  <2>2. intake' = [intake EXCEPT ![e] = r]
    BY <1>2 DEF I!ThenAnalyse, I!Goto, IntakeInv
  <2>3. /\ r \in Fetching /\ r.pc = "pend" /\ r.list = intake[e].list /\ r.due = intake[e].due
        /\ r.status = intake[e].status /\ r.looked = intake[e].looked
    BY <2>1 DEF Fetching, Insertions
  <2> HIDE DEF r
  <2>4. intake'[e] = r /\ I!UrlOf(e)' = I!UrlOf(e)
    BY <2>2, <2>3 DEF IntakeInv, I!UrlOf
  <2>5. FetchInv(e)'
    BY <1>2, <2>1, <2>3, <2>4 DEF FetchInv, Insertions, I!ForAnalysis
  <2> QED  BY <2>2, <2>3, <2>5, GoesOn DEF Insertions
<1> QED  BY <1>1, <1>2

LEMMA CreateArticle ==
  ASSUME IntakeBound, IntakeInv, NEW e \in I!Fetches, I!Create(e)
  PROVE  IntakeInv'
<1>1. /\ UNCHANGED <<analysis, struck>> /\ intake[e].pc = "create" /\ intake[e].pc \notin Insertions
      /\ intake[e] \in Fetching /\ intake[e].list # <<>> /\ FetchInv(e)
  BY DEF I!Create, Insertions, IntakeInv, FetchInv
<1>2. CASE row' = row /\ I!NextLink(e)
  BY <1>1, <1>2, NextLinkStep
<1>3. CASE ~ (row' = row /\ I!NextLink(e))
  <2> DEFINE new == [status |-> intake[e].status, fresh |-> TRUE, due |-> intake[e].due,
                     unsigned |-> intake[e].unsigned, looked |-> intake[e].looked]
  <2>1. /\ row[I!UrlOf(e)] = None /\ row' = [row EXCEPT ![I!UrlOf(e)] = new]
        /\ IF e \in Websites THEN I!Goto(e, "persist") ELSE I!ThenAnalyse(e)
    BY <1>3 DEF I!Create
  <2>2. I!UrlOf(e) \in I!Urls /\ Title[I!UrlOf(e)] = Title[Head(intake[e].list)]
    BY <1>1, UrlFacts DEF Fetching
  <2>3. new \in I!Row /\ new # None
    <3>1. /\ intake[e].status \in {"new", "duplicate"} /\ intake[e].due \in BOOLEAN
          /\ intake[e].unsigned \in BOOLEAN /\ intake[e].looked \in SUBSET I!Urls
      BY <1>1 DEF Fetching
    <3>2. new \in I!Row
      BY <3>1 DEF I!Row
    <3> QED  BY <3>2 DEF IntakeBound
  <2>4. /\ new.status = intake[e].status /\ new.due = intake[e].due /\ new.unsigned = FALSE
        /\ new.looked = intake[e].looked
    BY <1>1 DEF Fetching
  <2> HIDE DEF new
  <2>5. PICK u \in I!Urls : u = I!UrlOf(e)
    BY <2>2
  <2>6. /\ row' \in [I!Urls -> I!Row \cup {None}] /\ row'[u] = new
        /\ \A v \in I!Urls : v # u => row'[v] = row[v]
    BY <2>1, <2>3, <2>5 DEF IntakeInv
  <2>7. RowsKeep
    BY <2>1, <2>5, <2>6 DEF RowsKeep
  <2>8. OriginalsAreNew'
    <3>1. new.status # "duplicate" => ~ Titled(new.looked, Title[u])
      BY <1>1, <2>2, <2>4, <2>5 DEF FetchInv, Fetching
    <3> QED  BY <2>6, <3>1 DEF OriginalsAreNew, IntakeInv, Titled, I!Urls
  <2>9. I!PublicationsHaveSignals'
    BY <2>4, <2>6 DEF I!PublicationsHaveSignals, IntakeInv, I!Urls
  <2>10. \A v \in I!Urls : row[v] = None /\ row'[v] # None => v = u
    BY <2>6
  <2>11. ASSUME NEW pc \in {"persist", "pend"}, I!Goto(e, pc), pc = "pend" => I!ForAnalysis(e)
         PROVE  IntakeInv'
    <3> DEFINE r == [intake[e] EXCEPT !.pc = pc]
    <3>1. intake' = [intake EXCEPT ![e] = r]
      BY <2>11 DEF I!Goto, IntakeInv
    <3>2. /\ r \in Fetching /\ r.pc = pc /\ r.list = intake[e].list /\ r.due = intake[e].due
          /\ r.status = intake[e].status /\ r.looked = intake[e].looked
      BY <1>1 DEF Fetching, Insertions
    <3> HIDE DEF r
    <3>3. intake'[e] = r /\ I!UrlOf(e)' = u
      BY <2>5, <3>1, <3>2 DEF IntakeInv, I!UrlOf
    <3>4. FetchInv(e)'
      BY <1>1, <2>3, <2>4, <2>6, <2>11, <3>2, <3>3 DEF FetchInv, Insertions, I!ForAnalysis
    <3> QED  BY <1>1, <2>5, <2>6, <2>7, <2>8, <2>9, <2>10, <3>1, <3>2, <3>4, FetchMoves DEF
                Insertions
  <2>12. CASE I!NextLink(e) /\ ~ I!ForAnalysis(e)
    <3> DEFINE r == I!After(intake[e].list)
    <3>1. intake' = [intake EXCEPT ![e] = r]
      BY <2>12 DEF I!NextLink, IntakeInv
    <3>2. r \in Fetching /\ r.pc \in {"idle", "look"} /\ (r.pc # "idle" => r.list # <<>>)
      BY <1>1, NextOfList DEF Fetching
    <3> HIDE DEF r
    <3>3. intake'[e] = r
      BY <3>1 DEF IntakeInv
    <3>4. FetchInv(e)'
      BY <3>2, <3>3 DEF FetchInv, Insertions
    <3>5. row'[u].status = "duplicate" \/ ~ row'[u].due
      BY <1>1, <2>4, <2>6, <2>12 DEF I!ForAnalysis, Fetching
    <3> QED  BY <1>1, <2>6, <2>7, <2>8, <2>9, <2>10, <3>1, <3>2, <3>4, <3>5, FetchMoves
  <2> QED  BY <2>1, <2>11, <2>12 DEF I!ThenAnalyse
<1> QED  BY <1>2, <1>3

LEMMA PendStep ==
  ASSUME IntakeBound, IntakeInv, NEW e \in I!Fetches, I!Pend(e)
  PROVE  IntakeInv'
<1>1. /\ UNCHANGED <<analysis, struck>> /\ intake[e].pc = "pend" /\ intake[e] \in Fetching
      /\ intake[e].list # <<>> /\ FetchInv(e) /\ I!ForAnalysis(e)
  BY DEF I!Pend, IntakeInv, FetchInv
<1>2. PICK u \in I!Urls : u = I!UrlOf(e)
  BY <1>1, UrlFacts DEF Fetching
<1>3. row[u] \in I!Row /\ row[u].status # "duplicate"
  BY <1>1, <1>2 DEF IntakeInv, FetchInv, Insertions, I!ForAnalysis
<1> DEFINE new == [row[u] EXCEPT !.status = "pending"]
<1>4. row' = [row EXCEPT ![u] = new]
  BY <1>2 DEF I!Pend, IntakeInv
<1>5. /\ new \in I!Row /\ new # None /\ new.status = "pending" /\ new.due = row[u].due
      /\ new.unsigned = row[u].unsigned /\ new.looked = row[u].looked
  BY <1>3 DEF I!Row, IntakeBound
<1> HIDE DEF new
<1>6. /\ row' \in [I!Urls -> I!Row \cup {None}] /\ row'[u] = new
      /\ \A v \in I!Urls : v # u => row'[v] = row[v]
  BY <1>4, <1>5 DEF IntakeInv
<1>7. RowsKeep /\ \A v \in I!Urls : ~ (row[v] = None /\ row'[v] # None)
  BY <1>3, <1>5, <1>6 DEF RowsKeep, IntakeBound
<1>8. OriginalsAreNew' /\ I!PublicationsHaveSignals'
  BY <1>3, <1>5, <1>6 DEF OriginalsAreNew, I!PublicationsHaveSignals, IntakeInv, IntakeBound,
     Titled, I!Urls
<1> DEFINE r == [intake[e] EXCEPT !.pc = "queue"]
<1>9. intake' = [intake EXCEPT ![e] = r]
  BY DEF I!Pend, I!Goto, IntakeInv
<1>10. /\ r \in Fetching /\ r.pc = "queue" /\ r.list = intake[e].list /\ r.due = intake[e].due
       /\ r.status = intake[e].status /\ r.looked = intake[e].looked
  BY <1>1 DEF Fetching, Insertions
<1> HIDE DEF r
<1>11. intake'[e] = r /\ I!UrlOf(e)' = u
  BY <1>2, <1>9, <1>10 DEF IntakeInv, I!UrlOf
<1>12. FetchInv(e)'
  BY <1>1, <1>2, <1>5, <1>6, <1>10, <1>11 DEF FetchInv, Insertions, I!ForAnalysis
<1> QED  BY <1>1, <1>6, <1>7, <1>8, <1>9, <1>10, <1>12, FetchMoves DEF Insertions

LEMMA EndOfLink ==
  ASSUME IntakeBound, IntakeInv, NEW e \in I!Fetches, I!Queue(e) \/ I!Fail(e) \/ I!Crash(e)
  PROVE  IntakeInv'
<1>1. CASE I!Queue(e)
  BY <1>1, NextLinkStep DEF I!Queue
<1>2. ASSUME I!Interrupted(e)
      PROVE  struck \subseteq struck' /\ (intake[e].pc \notin Insertions \/ I!UrlOf(e) \in struck')
  BY <1>2 DEF I!Interrupted, Insertions
<1>3. CASE I!Fail(e)
  BY <1>2, <1>3, NextLinkStep DEF I!Fail
<1>4. CASE I!Crash(e)
  <2>1. /\ row' = row /\ analysis' = analysis /\ I!Interrupted(e)
        /\ intake' = [intake EXCEPT ![e] = I!Idle]
    BY <1>4 DEF I!Crash
  <2>2. I!Idle \in Fetching /\ I!Idle.pc = "idle"
    BY DEF Fetching, I!Idle
  <2>3. intake'[e] = I!Idle
    BY <2>1 DEF IntakeInv
  <2>4. FetchInv(e)'
    BY <2>2, <2>3 DEF FetchInv, Insertions
  <2> QED  BY <1>2, <2>1, <2>2, <2>4, FetchMoves, RowsRemain
<1> QED  BY <1>1, <1>3, <1>4

LEMMA AgeStep == IntakeBound /\ IntakeInv /\ I!Age => IntakeInv'
<1> SUFFICES ASSUME IntakeBound, IntakeInv, I!Age  PROVE IntakeInv'
  OBVIOUS
<1>1. UNCHANGED <<analysis, intake, struck>>
  BY DEF I!Age
<1>2. ASSUME NEW u \in I!Urls
      PROVE  IF row[u] = None THEN row'[u] = None
             ELSE /\ row'[u] \in I!Row /\ row'[u] # None /\ row'[u].looked = {}
                  /\ row'[u].status = row[u].status /\ row'[u].due = row[u].due
                  /\ row'[u].unsigned = row[u].unsigned
  <2>1. CASE row[u] = None
    BY <2>1 DEF I!Age
  <2>2. CASE row[u] # None
    <3>1. row'[u] = [row[u] EXCEPT !.fresh = FALSE, !.looked = {}] /\ row[u] \in I!Row
      BY <2>2 DEF I!Age, IntakeInv
    <3> QED  BY <2>2, <3>1 DEF I!Row, IntakeBound
  <2> QED  BY <2>1, <2>2
<1>3. row' \in [I!Urls -> I!Row \cup {None}]
  <2>1. row' = [u \in I!Urls |-> row'[u]]
    BY DEF I!Age
  <2> QED  BY <1>2, <2>1
<1>4. RowsKeep /\ \A u \in I!Urls : ~ (row[u] = None /\ row'[u] # None)
  BY <1>2 DEF RowsKeep
<1>5. OriginalsAreNew' /\ I!PublicationsHaveSignals'
  BY <1>2 DEF OriginalsAreNew, I!PublicationsHaveSignals, IntakeInv, Titled, I!Urls
<1>6. \A e \in I!Fetches : FetchInv(e)'
  BY <1>1, <1>4, OthersKeep
<1>7. I!ForgottenOnlyByFaults'
  <2> SUFFICES ASSUME NEW u \in I!Urls, row'[u] # None, row'[u].status # "duplicate", row'[u].due
               PROVE  u \in analysis \cup struck \/ I!HeldBy(u) # {}
    BY <1>1 DEF I!ForgottenOnlyByFaults, I!HeldBy, I!Urls, I!UrlOf
  <2> QED  BY <1>2 DEF IntakeInv, I!ForgottenOnlyByFaults
<1> QED  BY <1>1, <1>3, <1>5, <1>6, <1>7 DEF IntakeInv, I!Urls

LEMMA InitIntake == IntakeBound /\ I!Init => IntakeInv
<1> SUFFICES ASSUME IntakeBound, I!Init  PROVE IntakeInv
  OBVIOUS
<1>1. I!Idle \in Fetching /\ I!Idle.pc = "idle"
  BY DEF Fetching, I!Idle
<1>2. \A e \in I!Fetches : FetchInv(e)
  BY <1>1 DEF I!Init, FetchInv, Insertions
<1> QED  BY <1>1, <1>2 DEF IntakeInv, I!Init, OriginalsAreNew, I!ForgottenOnlyByFaults,
            I!PublicationsHaveSignals

LEMMA StepIntake == IntakeBound /\ IntakeInv /\ [I!Next]_(I!vars) => IntakeInv'
<1> SUFFICES ASSUME IntakeBound, IntakeInv, [I!Next]_(I!vars)  PROVE IntakeInv'
  OBVIOUS
<1>1. CASE UNCHANGED I!vars
  <2>1. UNCHANGED <<row, analysis, intake, struck>>
    BY <1>1 DEF I!vars
  <2>2. /\ row' \in [I!Urls -> I!Row \cup {None}] /\ RowsKeep /\ OriginalsAreNew'
        /\ I!PublicationsHaveSignals'
    BY <2>1, RowsRemain
  <2>3. \A e \in I!Fetches : FetchInv(e)'
    BY <2>1, <2>2, OthersKeep
  <2>4. I!ForgottenOnlyByFaults'
    BY <2>1 DEF IntakeInv, I!ForgottenOnlyByFaults, I!HeldBy, I!UrlOf, I!Urls
  <2> QED  BY <2>1, <2>2, <2>3, <2>4 DEF IntakeInv, I!Urls
<1>2. ASSUME NEW e \in I!Fetches, I!PersistMethod(e)  PROVE IntakeInv'
  BY <1>2, PersistStep DEF I!PersistMethod
<1> QED  BY <1>1, <1>2, StartStep, LookStep, TitleStep, CreateArticle, PendStep, EndOfLink, AgeStep
            DEF I!Next

-----------------------------------------------------------------------------
(***************************************************************************)
(* The discovery of a web source.                                          *)
(***************************************************************************)

(* Robots.txt files of rules over paths; pages whose paths are known;       *)
(* recipes that are not None.                                               *)
RobotsLine == [field : {"agent", "sitemap", "disallow", "allow"}, value : Seq(STRING) \cup STRING]
SiteBound ==
  /\ Home \in DOMAIN Path /\ Entries \subseteq Seq(DOMAIN Path)
  /\ \A p \in DOMAIN Path : Path[p] \in Seq(STRING)
  /\ \A s \in Sites : s.robots \in Seq(RobotsLine)
  /\ \A s \in Sites : \A i \in DOMAIN s.robots :
       s.robots[i].field \in {"disallow", "allow"} => s.robots[i].value \in Seq(STRING)
  /\ \A suggestion \in Suggestions : suggestion.method \in Methods /\ suggestion.entries \in Seq(DOMAIN Path)
  /\ None \notin Nat
  /\ \A entries \in Entries, method \in Methods : \A selector :
       None # [entries |-> entries, method |-> method, selector |-> selector]

PagesOf(entries) == IF entries # <<>> THEN entries ELSE <<Home>>

(* What may be requested: open pages to list, the source's own as a feed,   *)
(* the first page that is configured for the model's snapshot.              *)
OpenVisits(s) ==
  {v \in [by : {"feed", "snapshot", "cheerio", "playwright"}, page : DOMAIN Path] :
     /\ v.by = "feed" => v.page = Home
     /\ v.by = "snapshot" => v.page \in FirstPages
     /\ v.by \in {"cheerio", "playwright"} => Open(s, v.page)}

(* Does an open page among those asked for have links? *)
Finds(s, listing, entries) ==
  \E i \in OpenOf(s, PagesOf(entries)) : Selection(listing[PagesOf(entries)[i]], None).found

(* Without a browser, and with one. *)
Static(s, entries) ==
  \/ Direct(s).success \/ ViaSitemap(s).success \/ ViaFeed(s).success \/ Finds(s, s.static, entries)
Works(s, entries) == Static(s, entries) \/ (Playwright /\ Finds(s, s.rendered, entries))

(* A result of a method or the chain: what may be requested, a method found. *)
Result(r, s) ==
  /\ r.success \in BOOLEAN /\ r.handover \in BOOLEAN
  /\ r.visits \subseteq OpenVisits(s)
  /\ r.success => r.method \in Methods

LEMMA NatSetHasMinimum ==
  ASSUME NEW S \in SUBSET Nat, S # {}
  PROVE  \E x \in S : \A y \in S : x <= y
<1> DEFINE R == {ss \in Nat \X Nat : ss[1] < ss[2]}
<1>1. IsWellFoundedOn(R, Nat)
  BY NatLessThanWellFounded DEF OpToRel
<1>2. PICK x \in S : \A y \in S : ~ (<<y, x>> \in R)
  BY <1>1, WFMin, Zenon
<1>3. ASSUME NEW y \in S  PROVE x <= y
  <2>1. x \in Nat /\ y \in Nat /\ <<y, x>> \notin R
    BY <1>2
  <2> QED  BY <2>1
<1> QED  BY <1>3

(* The links that a page shows do not depend on the selector preferred. *)
LEMMA AnySelectorFinds ==
  ASSUME NEW groups, NEW a, NEW b
  PROVE  Selection(groups, a).found <=> Selection(groups, b).found
  BY DEF Selection

LEMMA SelectionFinds ==
  ASSUME NEW groups, NEW a  PROVE Selection(groups, a).found \in BOOLEAN
  BY DEF Selection

LEMMA FailureIsResult == \A s : Result(Failure, s) /\ ~ Failure.success /\ ~ Failure.handover /\ Failure.visits = {}
  BY DEF Failure, Result

LEMMA FoundIsResult ==
  ASSUME NEW method \in Methods, NEW s
  PROVE  Result(Found(method), s) /\ Found(method).success /\ Found(method).visits = {}
  BY DEF Failure, Found, Result

(* A feed is looked for at the source's own page. *)
LEMMA FeedResult ==
  ASSUME SiteBound, NEW found \in BOOLEAN, NEW s
  PROVE  /\ Result(FeedIf(found), s)
         /\ FeedIf(found).success = found /\ ~ FeedIf(found).handover
<1>1. VisitsBy("feed", {Home}) \subseteq OpenVisits(s)
  BY DEF VisitsBy, OpenVisits, SiteBound
<1> DEFINE home == VisitsBy("feed", {Home})
<1>2. FeedIf(found) = [(IF found THEN Found("rss") ELSE Failure) EXCEPT !.visits = home]
  BY DEF FeedIf
<1> HIDE DEF home
<1> QED  BY <1>1, <1>2 DEF Found, Failure, Result, Methods, home

LEMMA ListingResult ==
  ASSUME NEW method \in {"cheerio", "playwright"}, NEW s, NEW listing, NEW c, PagesOf(c.entries) \in Seq(DOMAIN Path)
  PROVE  LET r == ViaListing(method, s, listing, c) IN
         /\ Result(r, s) /\ ~ r.handover
         /\ r.success <=> Finds(s, listing, c.entries)
<1> DEFINE pages == Requested(c)
           open  == OpenOf(s, pages)
           selections == [i \in open |-> Selection(listing[pages[i]], c.selector)]
           hits  == {i \in open : selections[i].found}
           end   == FirstOf(hits, Len(pages))
           shown == {pages[i] : i \in {j \in open : j <= end}}
           visited == VisitsBy(method, shown)
           base  == IF hits = {} THEN Failure ELSE [Found(method) EXCEPT !.selector = selections[end].selector]
           r     == ViaListing(method, s, listing, c)
<1>1. pages = PagesOf(c.entries) /\ pages \in Seq(DOMAIN Path)
  BY DEF Requested, PagesOf
<1>2. r = [base EXCEPT !.visits = visited]
  BY DEF ViaListing, SelectFrom, PageAfterPage
<1>3. visited \subseteq OpenVisits(s)
  <2> HIDE DEF end, pages
  <2>1. \A i \in open : pages[i] \in DOMAIN Path /\ Open(s, pages[i])
    BY <1>1 DEF OpenOf
  <2>2. \A p \in shown : p \in DOMAIN Path /\ Open(s, p)
    BY <2>1
  <2> HIDE DEF shown
  <2> QED  BY <2>2 DEF VisitsBy, OpenVisits
<1>4. hits # {} <=> Finds(s, listing, c.entries)
  <2>1. \A i \in open : selections[i].found <=> Selection(listing[pages[i]], None).found
    BY AnySelectorFinds
  <2> HIDE DEF selections
  <2> QED  BY <1>1, <2>1 DEF Finds
<1> HIDE DEF pages, open, selections, end, shown, visited, hits
<1> DEFINE chosen == selections[end].selector
<1> HIDE DEF chosen
<1>5. CASE hits = {}
  <2>1. r = [Failure EXCEPT !.visits = visited]
    BY <1>2, <1>5
  <2> QED  BY <1>3, <1>4, <1>5, <2>1 DEF Failure, Result
<1>6. CASE hits # {}
  <2>1. r = [[Found(method) EXCEPT !.selector = chosen] EXCEPT !.visits = visited]
    BY <1>2, <1>6 DEF chosen
  <2> QED  BY <1>3, <1>4, <1>6, <2>1 DEF Found, Failure, Result, Methods
<1> QED  BY <1>5, <1>6

LEMMA DiscoverResult ==
  ASSUME SiteBound, NEW method \in Methods, NEW s, NEW c, NEW inline \in BOOLEAN, PagesOf(c.entries) \in Seq(DOMAIN Path)
  PROVE  LET r == Discover(method, s, c, inline) IN
         /\ Result(r, s)
         /\ method = "sitemap" => r.success = ViaSitemap(s).success
         /\ method = "rss" => r.success = ViaFeed(s).success
         /\ method = "cheerio" => r.success = Finds(s, s.static, c.entries)
         /\ method = "playwright" =>
              /\ r.success <=> inline /\ Playwright /\ Finds(s, s.rendered, c.entries)
              /\ r.handover = ~ inline
<1> DEFINE r == Discover(method, s, c, inline)
<1>1. "sitemap" \in Methods /\ "rss" \in Methods /\ "cheerio" \in Methods /\ "playwright" \in Methods
  BY DEF Methods
<1>2. CASE method = "sitemap"
  <2>1. r = ViaSitemap(s)
    BY <1>2 DEF Discover
  <2>2. ViaSitemap(s) \in {Found("sitemap"), Failure}
    BY DEF ViaSitemap
  <2>3. Result(r, s)
    BY <1>1, <2>1, <2>2, FoundIsResult, FailureIsResult
  <2> QED  BY <1>2, <2>1, <2>3
<1>3. CASE method = "rss"
  <2>1. r = ViaFeed(s)
    BY <1>3 DEF Discover
  <2>3. Result(r, s)
    BY <2>1, FeedResult DEF ViaFeed
  <2> QED  BY <1>3, <2>1, <2>3
<1>4. CASE method = "cheerio"
  <2>1. r = ViaListing(method, s, s.static, c)
    BY <1>4 DEF Discover
  <2>2. Result(r, s) /\ (r.success <=> Finds(s, s.static, c.entries))
    BY <1>4, <2>1, ListingResult
  <2> QED  BY <1>4, <2>2 DEF Result, Finds
<1>5. CASE method = "playwright"
  <2>1. CASE ~ inline
    <3>1. r = [Failure EXCEPT !.handover = TRUE]
      BY <1>5, <2>1 DEF Discover
    <3> QED  BY <1>5, <2>1, <3>1 DEF Failure, Result
  <2>2. CASE inline /\ ~ Playwright
    <3>1. r = Failure
      BY <1>5, <2>2 DEF Discover
    <3>2. Result(r, s) /\ r.success = FALSE /\ r.handover = FALSE
      <4>1. Result(Failure, s)
        BY FailureIsResult
      <4> QED  BY <3>1, <4>1 DEF Failure
    <3> QED  BY <1>5, <2>2, <3>2
  <2>3. CASE inline /\ Playwright
    <3>1. r = ViaListing(method, s, s.rendered, c)
      BY <1>5, <2>3 DEF Discover
    <3>2. Result(r, s) /\ (r.success <=> Finds(s, s.rendered, c.entries)) /\ ~ r.handover
      BY <1>5, <3>1, ListingResult
    <3> QED  BY <1>5, <2>3, <3>2 DEF Result
  <2> QED  BY <2>1, <2>2, <2>3
<1> QED  BY <1>2, <1>3, <1>4, <1>5 DEF Methods

(* The first of four results that succeeds, or the last one. *)
LEMMA StepsResult ==
  ASSUME NEW s, NEW R, NEW results \in Seq(R), Len(results) = 4, \A i \in 1 .. 4 : Result(results[i], s)
  PROVE  LET r == StepByStep(results) IN
         /\ Result(r, s)
         /\ r.success <=> \E i \in 1 .. 4 : results[i].success
         /\ ~ r.success => r.handover = results[4].handover
<1> DEFINE hits == {i \in DOMAIN results : results[i].success}
           end  == FirstOf(hits, Len(results))
           visited == UNION {results[i].visits : i \in 1 .. end}
           r    == StepByStep(results)
<1>1. hits \in SUBSET (1 .. 4) /\ DOMAIN results = 1 .. 4
  OBVIOUS
<1>2. \E x \in hits \cup {4} : \A j \in hits : x <= j
  <2>1. CASE hits = {}
    BY <2>1
  <2>2. CASE hits # {}
    <3>1. hits \in SUBSET Nat
      BY <1>1
    <3> QED  BY <2>2, <3>1, NatSetHasMinimum
  <2> QED  BY <2>1, <2>2
<1>3. end \in hits \cup {4} /\ \A j \in hits : end <= j
  <2> HIDE DEF hits
  <2> QED  BY <1>2 DEF FirstOf
<1>4. end \in 1 .. 4
  BY <1>1, <1>3
<1>5. r = [results[end] EXCEPT !.visits = visited]
  BY DEF StepByStep
<1>6. results[end].success <=> \E i \in 1 .. 4 : results[i].success
  <2> HIDE DEF end
  <2> QED  BY <1>1, <1>3, <1>4
<1>7. ~ results[end].success => end = 4
  <2> HIDE DEF end
  <2> QED  BY <1>1, <1>3, <1>4
<1> HIDE DEF end
<1>8. visited \subseteq OpenVisits(s)
  BY <1>4 DEF Result
<1> HIDE DEF visited, hits
<1>9. r.success = results[end].success /\ r.method = results[end].method /\ r.handover = results[end].handover
      /\ r.visits = visited
  BY <1>4, <1>5 DEF Result
<1> QED  BY <1>4, <1>6, <1>7, <1>8, <1>9 DEF Result

LEMMA ChainResult ==
  ASSUME SiteBound, NEW s, NEW c, NEW inline \in BOOLEAN, PagesOf(c.entries) \in Seq(DOMAIN Path)
  PROVE  LET r == Chain(s, c, inline) IN
         /\ Result(r, s)
         /\ r.success <=> Static(s, c.entries) \/ (inline /\ Playwright /\ Finds(s, s.rendered, c.entries))
         /\ ~ r.success => r.handover = ~ inline
<1> DEFINE D(method) == Discover(method, s, c, inline)
           results == [i \in DOMAIN Steps |-> D(Steps[i])]
           r == Chain(s, c, inline)
           steps == StepByStep(results)
<1>1. /\ "sitemap" \in Methods /\ "rss" \in Methods /\ "cheerio" \in Methods /\ "playwright" \in Methods
      /\ DOMAIN Steps = 1 .. 4 /\ Len(Steps) = 4 /\ Steps[1] = "sitemap" /\ Steps[2] = "rss"
      /\ Steps[3] = "cheerio" /\ Steps[4] = "playwright"
  BY DEF Methods, Steps
<1>2. CASE Direct(s).success
  <2>1. r = Direct(s)
    BY <1>2 DEF Chain
  <2>2. Result(r, s)
    <3>1. ("own" \in s.feeds) \in BOOLEAN
      OBVIOUS
    <3> QED  BY <2>1, <3>1, FeedResult DEF Direct
  <2> QED  BY <1>2, <2>1, <2>2 DEF Static
<1>3. CASE ~ Direct(s).success
  <2> DEFINE all == steps.visits \cup Direct(s).visits
  <2>1. r = [steps EXCEPT !.visits = all]
    BY <1>3 DEF Chain
  <2> HIDE DEF D
  <2>2. results \in Seq({D(Steps[i]) : i \in 1 .. 4}) /\ Len(results) = 4
    BY <1>1
  <2>3. \A i \in 1 .. 4 : results[i] = D(Steps[i])
    BY <1>1
  <2> HIDE DEF results
  <2>4. /\ results[1] = D("sitemap") /\ results[2] = D("rss") /\ results[3] = D("cheerio")
        /\ results[4] = D("playwright")
    BY <1>1, <2>3
  <2>5. /\ Result(D("sitemap"), s) /\ D("sitemap").success = ViaSitemap(s).success
        /\ Result(D("rss"), s) /\ D("rss").success = ViaFeed(s).success
        /\ Result(D("cheerio"), s) /\ D("cheerio").success = Finds(s, s.static, c.entries)
        /\ Result(D("playwright"), s) /\ D("playwright").handover = ~ inline
        /\ D("playwright").success <=> inline /\ Playwright /\ Finds(s, s.rendered, c.entries)
    BY <1>1, DiscoverResult DEF D
  <2>6. \A i \in 1 .. 4 : Result(results[i], s)
    BY <2>4, <2>5
  <2>7. /\ Result(steps, s)
        /\ steps.success <=> \E i \in 1 .. 4 : results[i].success
        /\ ~ steps.success => steps.handover = results[4].handover
    BY <2>2, <2>6, StepsResult
  <2>8. (\E i \in 1 .. 4 : results[i].success) <=>
          results[1].success \/ results[2].success \/ results[3].success \/ results[4].success
    OBVIOUS
  <2>9. all \subseteq OpenVisits(s)
    <3>1. ("own" \in s.feeds) \in BOOLEAN
      OBVIOUS
    <3>2. Result(Direct(s), s)
      BY <3>1, FeedResult DEF Direct
    <3> QED  BY <2>7, <3>2 DEF Result
  <2> HIDE DEF all, steps, results
  <2>10. r.success = steps.success /\ r.method = steps.method /\ r.handover = steps.handover /\ r.visits = all
    BY <2>1, <2>7 DEF Result
  <2>11. Result(r, s)
    BY <2>7, <2>9, <2>10 DEF Result
  <2> QED  BY <1>3, <2>4, <2>5, <2>7, <2>8, <2>10, <2>11 DEF Static
<1> QED  BY <1>2, <1>3

(* The stored recipe's method, then the chain without a browser. *)
LEMMA FetchedResult ==
  ASSUME SiteBound, NEW c, c.method \in Methods, PagesOf(c.entries) \in Seq(DOMAIN Path)
  PROVE  LET r == Fetched(c) IN
         /\ Result(r, site)
         /\ r.success <=> Static(site, c.entries)
         /\ ~ r.success => r.handover
<1> DEFINE stored == Discover(c.method, site, c, FALSE)
           chain  == Chain(site, c, FALSE)
           seen   == chain.visits \cup stored.visits
           r      == Fetched(c)
<1>1. Result(stored, site) /\ (stored.success => Static(site, c.entries))
  <2>1. PICK method \in Methods : method = c.method
    OBVIOUS
  <2> DEFINE found == Discover(method, site, c, FALSE)
  <2>2. /\ Result(found, site)
        /\ method = "sitemap" => found.success = ViaSitemap(site).success
        /\ method = "rss" => found.success = ViaFeed(site).success
        /\ method = "cheerio" => found.success = Finds(site, site.static, c.entries)
        /\ method = "playwright" => ~ found.success
    <3> DEFINE P(inline) == LET x == Discover(method, site, c, inline) IN
          /\ Result(x, site)
          /\ method = "sitemap" => x.success = ViaSitemap(site).success
          /\ method = "rss" => x.success = ViaFeed(site).success
          /\ method = "cheerio" => x.success = Finds(site, site.static, c.entries)
          /\ method = "playwright" => (x.success <=> inline /\ Playwright /\ Finds(site, site.rendered, c.entries))
    <3>1. \A inline \in BOOLEAN : P(inline)
      BY DiscoverResult
    <3>2. P(FALSE)
      BY <3>1
    <3> QED  BY <3>2
  <2>3. found = stored
    BY <2>1
  <2> HIDE DEF found, stored
  <2> QED  BY <2>2, <2>3 DEF Static, Methods
<1>2. /\ Result(chain, site)
      /\ chain.success <=> Static(site, c.entries)
      /\ ~ chain.success => chain.handover
  BY ChainResult
<1>3. r = IF stored.success THEN stored ELSE [chain EXCEPT !.visits = seen]
  BY DEF Fetched
<1> HIDE DEF stored, chain
<1>4. seen \subseteq OpenVisits(site)
  BY <1>1, <1>2 DEF Result
<1> HIDE DEF seen
<1>5. CASE stored.success
  BY <1>1, <1>3, <1>5
<1>6. CASE ~ stored.success
  <2>1. r.success = chain.success /\ r.method = chain.method /\ r.handover = chain.handover /\ r.visits = seen
    BY <1>3, <1>6
  <2> QED  BY <1>2, <1>4, <2>1 DEF Result
<1> QED  BY <1>5, <1>6

(* A row and what its readers hold of it: entry pages never change, methods *)
(* are those of the chain.                                                  *)
IsRecipe(c) ==
  /\ c = [entries |-> c.entries, method |-> c.method, selector |-> c.selector]
  /\ c.entries \in Entries /\ c.method \in Methods

RecipeInv ==
  /\ site \in Sites /\ redesigns \in Nat /\ DOMAIN run = Visitors
  /\ config # None => IsRecipe(config)
  /\ \A e \in Visitors : run[e].pc # "idle" =>
       config # None /\ IsRecipe(run[e].read) /\ run[e].read.entries = config.entries
  /\ browse # None => Playwright /\ config # None /\ browse \in 0 .. redesigns
  /\ \A e \in Visitors : run[e].pc = "browse" => Playwright /\ run[e].since \in 0 .. redesigns
  /\ visits \subseteq OpenVisits(site)

(* A browser is asked for when nothing else finds links. *)
Unfound == Playwright /\ ~ Static(site, config.entries)
WorkInv ==
  /\ worked \in {"no", "suggested", "yes"} /\ (config = None => worked = "no")
  /\ worked = "yes" => config # None /\ Works(site, config.entries)
  /\ browse = redesigns => Unfound
  /\ \A e \in Visitors : run[e].pc = "browse" /\ run[e].since = redesigns => Unfound
  /\ WorksAgain

LEMMA EntriesArePages ==
  ASSUME SiteBound, NEW entries, entries \in Entries \/ entries \in Seq(DOMAIN Path)
  PROVE  PagesOf(entries) \in Seq(DOMAIN Path)
<1>1. entries \in Seq(DOMAIN Path) /\ Home \in DOMAIN Path
  BY DEF SiteBound
<1>2. <<Home>> \in Seq(DOMAIN Path)
  BY <1>1
<1> QED  BY <1>1, <1>2 DEF PagesOf

LEMMA InitDiscovery == SiteBound /\ Init => RecipeInv /\ WorkInv
<1> SUFFICES ASSUME SiteBound, Init  PROVE RecipeInv /\ WorkInv
  OBVIOUS
<1>1. RecipeInv
  BY DEF Init, RecipeInv, Idle
<1>2. None \notin Nat
  BY DEF SiteBound
<1>3. browse # redesigns
  BY <1>2 DEF Init
<1>4. \A e \in Visitors : run[e].pc # "browse"
  BY DEF Init, Idle
<1>5. WorkInv
  BY <1>3, <1>4 DEF Init, WorkInv, WorksAgain
<1> QED  BY <1>1, <1>5

LEMMA RecipeOf ==
  ASSUME SiteBound, NEW entries \in Entries, NEW method \in Methods, NEW selector
  PROVE  LET c == [entries |-> entries, method |-> method, selector |-> selector] IN IsRecipe(c) /\ c # None
  BY DEF IsRecipe, SiteBound

LEMMA RecipesAreThere ==
  ASSUME SiteBound, NEW c, IsRecipe(c)  PROVE c # None
  BY DEF SiteBound, IsRecipe

(* Creation: by the chain, or by what the model suggested, run as a recipe. *)
LEMMA RevalidatedResult ==
  ASSUME SiteBound, NEW c, c.entries \in Entries, NEW suggestion \in Suggestions,
         c = [entries |-> c.entries, method |-> c.method, selector |-> c.selector]
  PROVE  LET r == Revalidated(c, suggestion) IN
         /\ Result(r, site)
         /\ suggestion.entries = <<>> /\ r.success => Works(site, c.entries)
<1> DEFINE entries == IF suggestion.entries # <<>> THEN suggestion.entries ELSE c.entries
           selector == Or(suggestion.selector, c.selector)
           asked   == [c EXCEPT !.entries = entries, !.selector = selector]
           r       == Revalidated(c, suggestion)
<1>1. c.entries \in Entries
  OBVIOUS
<1>2. suggestion.method \in Methods /\ suggestion.entries \in Seq(DOMAIN Path)
  BY DEF SiteBound
<1>3. PagesOf(entries) \in Seq(DOMAIN Path)
  BY <1>1, <1>2, EntriesArePages
<1>4. r = Discover(suggestion.method, site, asked, TRUE)
  BY DEF Revalidated
<1>5. asked.entries = entries
  OBVIOUS
<1>6. suggestion.entries = <<>> => entries = c.entries
  OBVIOUS
<1> HIDE DEF entries, asked, r
<1>7. PICK method \in Methods : method = suggestion.method
  BY <1>2
<1> DEFINE P(inline) == LET x == Discover(method, site, asked, inline) IN
      /\ Result(x, site)
      /\ method = "sitemap" => x.success = ViaSitemap(site).success
      /\ method = "rss" => x.success = ViaFeed(site).success
      /\ method = "cheerio" => x.success = Finds(site, site.static, asked.entries)
      /\ method = "playwright" => (x.success <=> inline /\ Playwright /\ Finds(site, site.rendered, asked.entries))
<1>8. \A inline \in BOOLEAN : P(inline)
  BY <1>3, <1>5, DiscoverResult
<1>9. P(TRUE)
  BY <1>8
<1>10. Result(r, site)
  BY <1>4, <1>7, <1>9
<1>11. ASSUME r.success, suggestion.entries = <<>>  PROVE Works(site, c.entries)
  BY <1>4, <1>5, <1>6, <1>7, <1>9, <1>11 DEF Works, Static, Methods
<1> QED  BY <1>10, <1>11 DEF r

LEMMA CreateStepOf ==
  ASSUME SiteBound, RecipeInv, NEW entries \in Entries, CreateSource(entries)
  PROVE  RecipeInv' /\ (WorkInv => WorkInv')
<1> DEFINE asked == [entries |-> entries, method |-> None, selector |-> None]
           chain == Chain(site, asked, TRUE)
<1>1. /\ config = None /\ CreateFrom(asked, chain)
      /\ UNCHANGED <<site, run, browse, redesigns>>
  BY DEF CreateSource
<1>2. /\ asked = [entries |-> asked.entries, method |-> asked.method, selector |-> asked.selector]
      /\ asked.entries = entries /\ PagesOf(entries) \in Seq(DOMAIN Path)
  BY EntriesArePages
<1> HIDE DEF asked
<1>3. Result(chain, site) /\ (chain.success => Works(site, entries))
  <2> DEFINE P(inline) == LET r == Chain(site, asked, inline) IN
        /\ Result(r, site)
        /\ r.success <=> Static(site, asked.entries) \/ (inline /\ Playwright /\ Finds(site, site.rendered, asked.entries))
  <2>1. \A inline \in BOOLEAN : P(inline)
    BY <1>2, ChainResult
  <2>2. P(TRUE)
    BY <2>1
  <2> QED  BY <1>2, <2>2 DEF Works
<1> HIDE DEF chain
<1>4. \A e \in Visitors : run[e].pc = "idle"
  BY <1>1 DEF RecipeInv
<1>5. ASSUME NEW r, NEW visited, NEW way \in {"no", "suggested", "yes"}, Result(r, site),
             visited \subseteq OpenVisits(site), Creates(asked, r, visited, way),
             way = "yes" /\ r.success => Works(site, entries)
      PROVE  RecipeInv' /\ (WorkInv => WorkInv')
  <2>1. config' = IF r.success THEN Kept(asked, r) ELSE None
    BY <1>5 DEF Creates
  <2> DEFINE all == r.visits \cup visited
             full == [r EXCEPT !.visits = all]
  <2>2. Outcome(full, way) /\ full.visits = all /\ full.success = r.success /\ all \subseteq OpenVisits(site)
    BY <1>5 DEF Creates, Result
  <2> HIDE DEF full, all
  <2>3. visits' \subseteq OpenVisits(site) /\ last' = (IF r.success THEN "found" ELSE "failed")
        /\ worked' = (IF r.success THEN way ELSE worked)
    BY <2>2 DEF Outcome
  <2>4. OpenVisits(site)' = OpenVisits(site)
    BY <1>1 DEF OpenVisits, Open
  <2>5. r.success => IsRecipe(config') /\ config'.entries = entries /\ config' # None
    <3> SUFFICES ASSUME r.success  PROVE IsRecipe(config') /\ config'.entries = entries /\ config' # None
      OBVIOUS
    <3> DEFINE method == r.method
               selector == Or(r.selector, asked.selector)
    <3>1. method \in Methods /\ config' = [asked EXCEPT !.method = method, !.selector = selector]
      BY <1>5, <2>1 DEF Result, Kept
    <3> HIDE DEF method, selector
    <3>2. config' = [entries |-> entries, method |-> method, selector |-> selector]
      BY <1>2, <3>1
    <3> DEFINE new == [entries |-> entries, method |-> method, selector |-> selector]
    <3>3. IsRecipe(new) /\ new # None /\ new.entries = entries
      BY <3>1, RecipeOf
    <3>4. config' = new
      BY <3>2
    <3> HIDE DEF new
    <3> QED  BY <3>3, <3>4
  <2>6. RecipeInv'
    BY <1>1, <1>4, <2>1, <2>3, <2>4, <2>5 DEF RecipeInv
  <2>7. ASSUME WorkInv  PROVE WorkInv'
    <3>1. worked = "no"
      BY <1>1, <2>7 DEF WorkInv
    <3>2. worked' = (IF r.success THEN way ELSE "no")
      BY <2>3, <3>1
    <3>3. worked' = "yes" => r.success /\ Works(site', config'.entries)
      BY <1>1, <1>5, <2>5, <3>2
    <3>4. browse' # redesigns'
      BY <1>1 DEF RecipeInv, SiteBound
    <3> QED  BY <1>1, <1>4, <2>3, <2>5, <3>1, <3>2, <3>3, <3>4 DEF WorkInv, WorksAgain
  <2> QED  BY <2>6, <2>7
<1>6. CASE chain.success /\ Creates(asked, chain, {}, "yes")
  BY <1>3, <1>5, <1>6
<1>7. CASE Creates(asked, Failure, chain.visits, "no")
  BY <1>3, <1>5, <1>7, FailureIsResult DEF Result
<1>8. CASE Suggests(asked, chain.visits)
  <2> DEFINE seen == chain.visits \cup VisitsBy("snapshot", {Requested(asked)[1]})
  <2>1. seen \subseteq OpenVisits(site)
    <3>1. Requested(asked)[1] \in FirstPages /\ Requested(asked)[1] \in DOMAIN Path
      <4>1. Requested(asked) = PagesOf(entries)
        BY <1>2 DEF Requested, PagesOf
      <4>2. CASE entries = <<>>
        BY <4>1, <4>2 DEF PagesOf, FirstPages, SiteBound
      <4>3. CASE entries # <<>>
        <5>1. entries \in Seq(DOMAIN Path)
          BY DEF SiteBound
        <5>2. entries[1] \in DOMAIN Path
          BY <4>3, <5>1
        <5> QED  BY <4>1, <4>3, <5>2 DEF PagesOf, FirstPages
      <4> QED  BY <4>2, <4>3
    <3>2. VisitsBy("snapshot", {Requested(asked)[1]}) \subseteq OpenVisits(site)
      BY <3>1 DEF VisitsBy, OpenVisits
    <3> QED  BY <1>3, <3>2 DEF Result
  <2>2. \/ Creates(asked, Failure, seen, "no")
        \/ \E suggestion \in Suggestions :
             Creates(asked, Revalidated(asked, suggestion), seen,
                     IF suggestion.entries = <<>> THEN "yes" ELSE "suggested")
    BY <1>8 DEF Suggests
  <2> HIDE DEF seen
  <2>3. CASE Creates(asked, Failure, seen, "no")
    BY <1>5, <2>1, <2>3, FailureIsResult
  <2>4. ASSUME NEW suggestion \in Suggestions,
               Creates(asked, Revalidated(asked, suggestion), seen,
                       IF suggestion.entries = <<>> THEN "yes" ELSE "suggested")
        PROVE  RecipeInv' /\ (WorkInv => WorkInv')
    <3> DEFINE r   == Revalidated(asked, suggestion)
               way == IF suggestion.entries = <<>> THEN "yes" ELSE "suggested"
    <3>1. Result(r, site) /\ (suggestion.entries = <<>> /\ r.success => Works(site, entries))
      BY <1>2, RevalidatedResult
    <3>2. Creates(asked, r, seen, way)
      BY <2>4
    <3>3. way \in {"no", "suggested", "yes"} /\ (way = "yes" => suggestion.entries = <<>>)
      OBVIOUS
    <3> HIDE DEF r, way
    <3> QED  BY <1>5, <2>1, <3>1, <3>2, <3>3
  <2> QED  BY <2>2, <2>3, <2>4
<1> QED  BY <1>1, <1>6, <1>7, <1>8 DEF CreateFrom

(* A fetch and a browser job read the row. *)
LEMMA LoadSteps ==
  ASSUME SiteBound, RecipeInv, NEW e \in Visitors, LoadFetch(e) \/ TakeBrowserJob(e)
  PROVE  RecipeInv' /\ (WorkInv => WorkInv')
<1>1. /\ config # None /\ UNCHANGED <<site, config, redesigns, visits, last, worked>>
      /\ OpenVisits(site)' = OpenVisits(site) /\ None \notin Nat
  BY DEF LoadFetch, TakeBrowserJob, Load, OpenVisits, Open, SiteBound
<1>2. PICK pc \in {"fetch", "browse"}, since \in {redesigns, browse} :
        /\ run' = [run EXCEPT ![e] = [pc |-> pc, read |-> config, since |-> since]]
        /\ IF pc = "fetch" THEN browse' = browse ELSE browse # None /\ browse' = None /\ since = browse
  BY DEF LoadFetch, TakeBrowserJob, Load
<1>3. /\ DOMAIN run' = Visitors /\ run'[e] = [pc |-> pc, read |-> config, since |-> since]
      /\ \A f \in Visitors : f # e => run'[f] = run[f]
  BY <1>2 DEF RecipeInv
<1>4. RecipeInv'
  BY <1>1, <1>2, <1>3 DEF RecipeInv
<1>5. ASSUME WorkInv  PROVE WorkInv'
  <2>1. Unfound' = Unfound
    BY <1>1 DEF Unfound
  <2>2. browse' = redesigns' => Unfound'
    BY <1>1, <1>2, <1>5, <2>1 DEF WorkInv, RecipeInv
  <2>3. \A f \in Visitors : run'[f].pc = "browse" /\ run'[f].since = redesigns' => Unfound'
    BY <1>1, <1>2, <1>3, <1>5, <2>1 DEF WorkInv
  <2> QED  BY <1>1, <1>5, <2>2, <2>3 DEF WorkInv, WorksAgain
<1> QED  BY <1>4, <1>5

(* A fetch that ends writes what healed the row and nothing of its entries. *)
LEMMA Heals ==
  ASSUME SiteBound, IsRecipe(config), NEW e, NEW r, r.method \in Methods, NEW stored, Heal(e, r, stored)
  PROVE  IsRecipe(config') /\ config'.entries = config.entries /\ config' # None
<1>1. CASE config' = config
  BY <1>1, RecipesAreThere
<1>2. CASE config' # config
  <2> DEFINE method == r.method
             selector == Or(r.selector, run[e].read.selector)
             entries == config.entries
             before  == config.method
             chosen  == config.selector
             new == [entries |-> entries, method |-> method, selector |-> selector]
  <2>1. config' = [config EXCEPT !.method = method, !.selector = selector]
    BY <1>2 DEF Heal
  <2>2. config = [entries |-> entries, method |-> before, selector |-> chosen]
        /\ entries \in Entries /\ method \in Methods
    BY DEF IsRecipe
  <2> HIDE DEF method, selector, entries, before, chosen
  <2>3. IsRecipe(new) /\ new # None /\ new.entries = entries
    BY <2>2, RecipeOf
  <2>4. config' = new
    BY <2>1, <2>2
  <2> HIDE DEF new
  <2> QED  BY <2>3, <2>4 DEF entries
<1> QED  BY <1>1, <1>2

(* What every operation leaves that ends on the website as it is: the row   *)
(* may be healed, the work found, the fetches go on.                        *)
LEMMA FetchStep ==
  ASSUME SiteBound, RecipeInv, NEW e \in Visitors, Fetch(e)
  PROVE  RecipeInv' /\ (WorkInv => WorkInv')
<1> DEFINE c == run[e].read
           r == Fetched(c)
           stored == Discover(c.method, site, c, FALSE).success
<1>1. /\ run[e].pc = "fetch" /\ run' = [run EXCEPT ![e] = Idle] /\ FetchEnds(e, r, stored)
      /\ UNCHANGED <<site, redesigns>> /\ OpenVisits(site)' = OpenVisits(site) /\ None \notin Nat
  BY DEF Fetch, OpenVisits, Open, SiteBound
<1> HIDE DEF stored
<1>2. config # None /\ IsRecipe(config) /\ c.method \in Methods /\ c.entries \in Entries /\ c.entries = config.entries
  BY <1>1 DEF RecipeInv, IsRecipe
<1>3. /\ Result(r, site)
      /\ r.success <=> Static(site, config.entries)
      /\ ~ r.success => r.handover
  BY <1>2, EntriesArePages, FetchedResult
<1> HIDE DEF c, r
<1>4. /\ DOMAIN run' = Visitors /\ run'[e].pc = "idle"
      /\ \A f \in Visitors : f # e => run'[f] = run[f]
  BY <1>1 DEF RecipeInv, Idle
<1>5. /\ config' # None /\ IsRecipe(config') /\ config'.entries = config.entries
      /\ visits' \subseteq OpenVisits(site)
  <2>1. CASE config' = config /\ visits' = r.visits
    BY <1>2, <1>3, <2>1 DEF Result
  <2>2. CASE r.success /\ Heal(e, r, stored) /\ visits' = r.visits
    BY <1>2, <1>3, <2>2, Heals DEF Result
  <2> QED  BY <1>1, <2>1, <2>2 DEF FetchEnds, Ends, Outcome
<1>6. browse' \in {browse, redesigns} /\ (browse' # browse => Playwright /\ ~ r.success)
  BY <1>1 DEF FetchEnds
<1>7. RecipeInv'
  BY <1>1, <1>4, <1>5, <1>6 DEF RecipeInv
<1>8. ASSUME WorkInv  PROVE WorkInv'
  <2>1. Unfound' = Unfound /\ Works(site, config.entries)' = Works(site, config.entries)
    BY <1>1, <1>5 DEF Unfound
  <2>2. browse' = redesigns' => Unfound'
    BY <1>1, <1>3, <1>6, <1>8, <2>1 DEF WorkInv, Unfound
  <2>3. \A f \in Visitors : run'[f].pc = "browse" /\ run'[f].since = redesigns' => Unfound'
    BY <1>1, <1>4, <1>8, <2>1 DEF WorkInv
  <2>4. /\ worked' \in {"no", "suggested", "yes"}
        /\ worked' = "yes" => Works(site, config.entries) /\ last' # "failed"
    <3>1. CASE r.success /\ Ends(r)
      BY <1>3, <1>8, <3>1 DEF Ends, Outcome, Works, WorkInv
    <3>2. CASE last' = "queued" /\ worked' = worked
      BY <1>8, <3>2 DEF WorkInv
    <3>3. CASE ~ r.success /\ ~ (r.handover /\ Playwright) /\ Ends(r)
      BY <1>3, <1>8, <3>3 DEF Ends, Outcome, Works, WorkInv
    <3> QED  BY <1>1, <3>1, <3>2, <3>3 DEF FetchEnds
  <2> QED  BY <1>5, <2>1, <2>2, <2>3, <2>4 DEF WorkInv, WorksAgain
<1> QED  BY <1>7, <1>8

LEMMA BrowseStep ==
  ASSUME SiteBound, RecipeInv, NEW e \in Visitors, FetchViaBrowser(e)
  PROVE  RecipeInv' /\ (WorkInv => WorkInv')
<1> DEFINE c == run[e].read
           r == ViaListing("playwright", site, site.rendered, c)
<1>1. /\ run[e].pc = "browse" /\ run' = [run EXCEPT ![e] = Idle] /\ BrowsingEnds(e, r)
      /\ UNCHANGED <<site, browse, redesigns>> /\ OpenVisits(site)' = OpenVisits(site)
  BY DEF FetchViaBrowser, OpenVisits, Open
<1>2. config # None /\ IsRecipe(config) /\ c.entries \in Entries /\ c.entries = config.entries
  BY <1>1 DEF RecipeInv, IsRecipe
<1>3. Result(r, site) /\ r.success = Finds(site, site.rendered, config.entries)
  <2>1. "playwright" \in Methods /\ PagesOf(c.entries) \in Seq(DOMAIN Path)
    BY <1>2, EntriesArePages DEF Methods
  <2>2. Result(r, site) /\ (r.success <=> Finds(site, site.rendered, c.entries))
    BY <2>1, ListingResult
  <2> QED  BY <1>2, <2>2 DEF Result, Finds
<1> HIDE DEF c, r
<1>4. /\ DOMAIN run' = Visitors /\ run'[e].pc = "idle"
      /\ \A f \in Visitors : f # e => run'[f] = run[f]
  BY <1>1 DEF RecipeInv, Idle
<1>5. /\ config' # None /\ IsRecipe(config') /\ config'.entries = config.entries
      /\ visits' \subseteq OpenVisits(site)
  <2>1. CASE r.success
    BY <1>1, <1>2, <1>3, <2>1, Heals DEF Result, BrowsingEnds
  <2>2. CASE ~ r.success
    BY <1>1, <1>2, <1>3, <2>2 DEF Result, BrowsingEnds
  <2> QED  BY <2>1, <2>2
<1>6. RecipeInv'
  BY <1>1, <1>4, <1>5 DEF RecipeInv
<1>7. ASSUME WorkInv  PROVE WorkInv'
  <2>1. Unfound' = Unfound /\ Works(site, config.entries)' = Works(site, config.entries)
    BY <1>1, <1>5 DEF Unfound
  <2>2. browse' = redesigns' => Unfound'
    BY <1>1, <1>7, <2>1 DEF WorkInv
  <2>3. \A f \in Visitors : run'[f].pc = "browse" /\ run'[f].since = redesigns' => Unfound'
    BY <1>1, <1>4, <1>7, <2>1 DEF WorkInv
  <2>4. /\ worked' = IF r.success THEN "yes" ELSE worked
        /\ last' = IF r.success THEN "found" ELSE IF run[e].since = redesigns THEN "failed" ELSE "outdated"
    BY <1>1 DEF BrowsingEnds
  <2>5. ASSUME worked' = "yes"  PROVE Works(site, config.entries) /\ last' # "failed"
    <3>1. Playwright
      BY <1>1 DEF RecipeInv
    <3>2. CASE r.success
      BY <1>3, <2>4, <3>1, <3>2 DEF Works
    <3>3. CASE ~ r.success
      <4>1. Works(site, config.entries) /\ ~ Finds(site, site.rendered, config.entries)
        BY <1>3, <1>7, <2>4, <2>5, <3>3 DEF WorkInv
      <4>2. run[e].since # redesigns
        BY <1>1, <1>7, <4>1 DEF WorkInv, Unfound, Works
      <4> QED  BY <2>4, <3>3, <4>1, <4>2
    <3> QED  BY <1>3, <3>2, <3>3 DEF Result
  <2> QED  BY <1>3, <1>5, <1>7, <2>1, <2>2, <2>3, <2>4, <2>5 DEF WorkInv, WorksAgain, Result
<1> QED  BY <1>6, <1>7

(* Validation again, the next day, another website. *)
LEMMA RetryStep ==
  ASSUME SiteBound, RecipeInv, RetryValidation
  PROVE  RecipeInv' /\ (WorkInv => WorkInv')
<1> DEFINE r == Chain(site, config, TRUE)
           P(inline) == LET x == Chain(site, config, inline) IN
             /\ Result(x, site)
             /\ x.success <=> Static(site, config.entries)
                              \/ (inline /\ Playwright /\ Finds(site, site.rendered, config.entries))
<1>1. /\ config # None /\ Ends(r) /\ UNCHANGED <<site, config, run, browse, redesigns>>
      /\ OpenVisits(site)' = OpenVisits(site)
  BY DEF RetryValidation, OpenVisits, Open
<1>2. PagesOf(config.entries) \in Seq(DOMAIN Path)
  BY <1>1, EntriesArePages DEF RecipeInv, IsRecipe
<1>3. \A inline \in BOOLEAN : P(inline)
  BY <1>2, ChainResult
<1>4. P(TRUE)
  BY <1>3
<1>5. Result(r, site) /\ (r.success <=> Works(site, config.entries))
  BY <1>4 DEF Works
<1> HIDE DEF r
<1>6. visits' = r.visits /\ last' = (IF r.success THEN "found" ELSE "failed") 
      /\ worked' = (IF r.success THEN "yes" ELSE worked)
  BY <1>1 DEF Ends, Outcome
<1>7. RecipeInv'
  BY <1>1, <1>5, <1>6 DEF RecipeInv, Result
<1>8. ASSUME WorkInv  PROVE WorkInv'
  <2>1. Unfound' = Unfound /\ Works(site, config.entries)' = Works(site, config.entries)
    BY <1>1 DEF Unfound
  <2> QED  BY <1>1, <1>5, <1>6, <1>8, <2>1 DEF WorkInv, WorksAgain, Result
<1> QED  BY <1>7, <1>8

LEMMA RedesignStep ==
  ASSUME SiteBound, RecipeInv, Redesign
  PROVE  RecipeInv' /\ WorkInv'
<1>1. /\ redesigns' = redesigns + 1 /\ site' \in Sites /\ visits' = {} /\ last' = "none" /\ worked' = "no"
      /\ UNCHANGED <<config, run, browse>>
  BY DEF Redesign
<1>2. RecipeInv'
  BY <1>1 DEF RecipeInv
<1>3. browse' # redesigns' /\ \A e \in Visitors : run'[e].pc = "browse" => run'[e].since # redesigns'
  BY <1>1 DEF RecipeInv, SiteBound
<1> QED  BY <1>1, <1>2, <1>3 DEF WorkInv, WorksAgain

LEMMA StepDiscovery ==
  ASSUME SiteBound, RecipeInv, [Next]_vars
  PROVE  RecipeInv' /\ (WorkInv => WorkInv')
<1>1. CASE UNCHANGED <<site, config, run, browse, redesigns, visits, last, worked>>
  <2>1. /\ OpenVisits(site)' = OpenVisits(site) /\ Unfound' = Unfound
        /\ Works(site, config.entries)' = Works(site, config.entries)
    BY <1>1 DEF Unfound
  <2> QED  BY <1>1, <2>1 DEF RecipeInv, WorkInv, WorksAgain
<1>2. CASE NewDay \/ UNCHANGED vars
  BY <1>1, <1>2 DEF NewDay, vars
<1>3. ASSUME NEW entries \in Entries, CreateSource(entries)
      PROVE  RecipeInv' /\ (WorkInv => WorkInv')
  BY <1>3, CreateStepOf
<1>4. ASSUME NEW e \in Visitors, LoadFetch(e) \/ TakeBrowserJob(e) \/ Fetch(e) \/ FetchViaBrowser(e)
      PROVE  RecipeInv' /\ (WorkInv => WorkInv')
  BY <1>4, LoadSteps, FetchStep, BrowseStep
<1> QED  BY <1>2, <1>3, <1>4, RetryStep, RedesignStep DEF Next

(* The longest pattern that a path starts with: a bounded set of lengths    *)
(* has its greatest.                                                        *)
LEMMA LongestIsLongest ==
  ASSUME NEW path \in Seq(STRING), NEW patterns \in SUBSET Seq(STRING)
  PROVE  LET n == LongestMatch(path, patterns) IN
         /\ n \in Nat
         /\ n = 0 \/ \E p \in patterns : IsPrefix(p, path) /\ Len(p) = n
         /\ \A p \in patterns : IsPrefix(p, path) => Len(p) <= n
<1> DEFINE lengths == {Len(p) : p \in {q \in patterns : IsPrefix(q, path)}}
           bounds  == {n \in Nat : \A m \in lengths : m <= n}
           most    == LongestMatch(path, patterns)
<1>1. \A p \in patterns : IsPrefix(p, path) => Len(p) \in Nat /\ Len(p) <= Len(path)
  BY DEF IsPrefix
<1>2. lengths \in SUBSET Nat /\ Len(path) \in bounds
  BY <1>1
<1> HIDE DEF lengths
<1>3. PICK n \in bounds : \A b \in bounds : n <= b
  BY <1>2, NatSetHasMinimum
<1>4. n \in lengths \cup {0}
  <2> SUFFICES ASSUME n \notin lengths, n # 0  PROVE FALSE
    OBVIOUS
  <2>1. n - 1 \in bounds
    BY <1>2, <1>3
  <2> QED  BY <1>3, <2>1
<1>5. most = CHOOSE x \in lengths \cup {0} : \A m \in lengths : m <= x
  BY DEF LongestMatch, lengths
<1> HIDE DEF most
<1>6. most \in lengths \cup {0} /\ \A m \in lengths : m <= most
  BY <1>3, <1>4, <1>5
<1> QED  BY <1>2, <1>6 DEF lengths, most

(* Where no agent follows the wildcard in a group, the last agent line      *)
(* above a rule is the wildcard's if the group names it: what the code      *)
(* allows, the protocol permits.                                            *)
LEMMA OwnGroupGoverns ==
  ASSUME NEW lines \in Seq(RobotsLine), NEW i \in DOMAIN lines,
         lines[i].field # "agent",
         NEW a \in 1 .. i - 1, lines[a] = [field |-> "agent", value |-> "*"]
  PROVE  /\ (\A j \in a + 1 .. i - 1 : lines[j].field # "agent") => Governs(lines, a, i)
         /\ WildcardEndsGroups(lines) /\ Governs(lines, a, i) => \A j \in a + 1 .. i - 1 : lines[j].field # "agent"
<1>1. DOMAIN lines = 1 .. Len(lines) /\ Len(lines) \in Nat /\ i \in 1 .. Len(lines)
  OBVIOUS
<1>2. ASSUME \A j \in a + 1 .. i - 1 : lines[j].field # "agent"  PROVE Governs(lines, a, i)
  <2>1. a \in a .. i - 1 /\ \A j \in a .. a : lines[j].field = "agent"
    BY <1>1
  <2> QED  BY <1>2, <2>1 DEF Governs
<1>3. ASSUME WildcardEndsGroups(lines), Governs(lines, a, i)
      PROVE  \A j \in a + 1 .. i - 1 : lines[j].field # "agent"
  <2>1. PICK first \in a .. i - 1 : /\ \A j \in a .. first : lines[j].field = "agent"
                                    /\ \A j \in first + 1 .. i - 1 : lines[j].field # "agent"
    BY <1>3 DEF Governs
  <2>2. first = a
    <3> SUFFICES ASSUME first # a  PROVE FALSE
      OBVIOUS
    <3>1. a \in a .. first /\ a + 1 \in a .. first /\ a + 1 \in 2 .. Len(lines) /\ a + 1 - 1 = a
      BY <1>1, <2>1
    <3>2. lines[a].field = "agent" /\ lines[a + 1].field = "agent"
      BY <2>1, <3>1
    <3> QED  BY <1>3, <3>1, <3>2 DEF WildcardEndsGroups
  <2> QED  BY <2>1, <2>2
<1> QED  BY <1>2, <1>3

LEMMA AllowedIsPermitted ==
  ASSUME SiteBound, NEW s \in Sites, WildcardEndsGroups(s.robots),
         NEW p \in DOMAIN Path, Allowed(Path[p], Rules(s.robots))
  PROVE  Permitted(Path[p], s.robots)
<1> DEFINE path  == Path[p]
           lines == s.robots
           rules == Rules(lines)
<1>1. /\ path \in Seq(STRING) /\ WildcardEndsGroups(lines)
      /\ lines \in Seq(RobotsLine)
      /\ \A i \in DOMAIN lines : lines[i].field \in {"disallow", "allow"} => lines[i].value \in Seq(STRING)
  BY DEF SiteBound
<1>2. rules.disallow = RulesOf(lines, "disallow") /\ rules.allow = RulesOf(lines, "allow")
  BY DEF Rules
<1>3. \A field \in {"disallow", "allow"} : RulesOf(lines, field) \in SUBSET Seq(STRING)
  BY <1>1 DEF RulesOf
<1> HIDE DEF path, lines, rules
<1>4. \A i \in DOMAIN lines : lines[i] \in RobotsLine
  BY <1>1
<1>5. \A i \in DOMAIN lines : lines[i].field = "agent" /\ lines[i].value = "*"
                              <=> lines[i] = [field |-> "agent", value |-> "*"]
  BY <1>4 DEF RobotsLine
<1>6. ASSUME NEW field \in {"disallow", "allow"}, NEW i \in Matches(lines, field, path)
      PROVE  lines[i].value \in RulesOf(lines, field) /\ IsPrefix(lines[i].value, path)
  <2>1. /\ i \in DOMAIN lines /\ lines[i].field = field /\ lines[i].value # <<>> /\ IsPrefix(lines[i].value, path)
        /\ lines[i].field # "agent"
    BY <1>6 DEF Matches
  <2>2. PICK a \in 1 .. i - 1 : lines[a] = [field |-> "agent", value |-> "*"] /\ Governs(lines, a, i)
    BY <1>6 DEF Matches
  <2>3. \A j \in a + 1 .. i - 1 : lines[j].field # "agent"
    BY <1>1, <2>1, <2>2, OwnGroupGoverns
  <2>4. InWildcardGroup(lines, i)
    BY <2>2, <2>3 DEF InWildcardGroup
  <2> QED  BY <2>1, <2>4 DEF RulesOf
<1>7. ASSUME NEW pattern \in RulesOf(lines, "allow"), IsPrefix(pattern, path)
      PROVE  \E i \in Matches(lines, "allow", path) : lines[i].value = pattern
  <2>1. PICK i \in DOMAIN lines : /\ lines[i].field = "allow" /\ lines[i].value # <<>>
                                  /\ InWildcardGroup(lines, i) /\ lines[i].value = pattern
    BY DEF RulesOf
  <2>2. PICK a \in 1 .. i - 1 : /\ lines[a].field = "agent" /\ lines[a].value = "*"
                                /\ \A j \in a + 1 .. i - 1 : lines[j].field # "agent"
    BY <2>1 DEF InWildcardGroup
  <2>3. a \in DOMAIN lines
    BY <1>1, <2>1
  <2>4. lines[a] = [field |-> "agent", value |-> "*"] /\ lines[i].field # "agent"
    BY <1>5, <2>1, <2>2, <2>3
  <2>5. Governs(lines, a, i)
    BY <1>1, <2>2, <2>4, OwnGroupGoverns
  <2> QED  BY <1>7, <2>1, <2>4, <2>5 DEF Matches
<1>8. SUFFICES ASSUME NEW d \in Matches(lines, "disallow", path)
               PROVE  \E i \in Matches(lines, "allow", path) : Len(lines[i].value) >= Len(lines[d].value)
  BY DEF Permitted, lines, path
<1> DEFINE disallowed == LongestMatch(path, rules.disallow)
           allowed    == LongestMatch(path, rules.allow)
<1>9. disallowed = 0 \/ allowed >= disallowed
  BY DEF Allowed, lines, path, rules
<1> HIDE DEF disallowed, allowed
<1>10. /\ lines[d].value \in rules.disallow /\ IsPrefix(lines[d].value, path)
       /\ lines[d].value \in Seq(STRING) /\ lines[d].value # <<>>
  BY <1>1, <1>2, <1>6 DEF Matches
<1>11. disallowed \in Nat /\ Len(lines[d].value) <= disallowed /\ Len(lines[d].value) \in Nat \ {0}
  BY <1>1, <1>2, <1>3, <1>10, LongestIsLongest DEF disallowed
<1>12. /\ allowed \in Nat
       /\ allowed = 0 \/ \E q \in rules.allow : IsPrefix(q, path) /\ Len(q) = allowed
  BY <1>1, <1>2, <1>3, LongestIsLongest DEF allowed
<1>13. PICK q \in rules.allow : IsPrefix(q, path) /\ Len(q) = allowed
  BY <1>9, <1>11, <1>12
<1>14. PICK i \in Matches(lines, "allow", path) : lines[i].value = q
  BY <1>2, <1>7, <1>13
<1> QED  BY <1>9, <1>11, <1>12, <1>13, <1>14

-----------------------------------------------------------------------------
(***************************************************************************)
(* The components side by side: the one that runs keeps its invariant.     *)
(***************************************************************************)

CountRuns    == Runs("ingestion") => CountInv
ManifestRuns == Runs("manifest") => ManifestInv
IntakeRuns   == Runs("intake") => IntakeInv

LEMMA CountRunsStep == CountRuns /\ [SumNext]_SumVars => CountRuns'
<1> SUFFICES ASSUME CountRuns, [SumNext]_SumVars, Runs("ingestion")'  PROVE CountInv'
  BY DEF CountRuns
<1>1. Runs("ingestion")
  BY DEF SumNext, SumVars, Runs
<1>2. [G!Next]_(G!vars)
  BY <1>1 DEF SumNext, SumVars, ingestionVars, G!vars, Runs
<1> QED  BY <1>1, <1>2, StepCount DEF CountRuns

LEMMA ManifestRunsStep == ManifestBound /\ ManifestRuns /\ [SumNext]_SumVars => ManifestRuns'
<1> SUFFICES ASSUME ManifestBound, ManifestRuns, [SumNext]_SumVars, Runs("manifest")'  PROVE ManifestInv'
  BY DEF ManifestRuns
<1>1. Runs("manifest")
  BY DEF SumNext, SumVars, Runs
<1>2. [M!Next]_(M!vars)
  BY <1>1 DEF SumNext, SumVars, manifestVars, M!vars, Runs
<1> QED  BY <1>1, <1>2, StepManifest DEF ManifestRuns

LEMMA IntakeRunsStep == IntakeBound /\ IntakeRuns /\ [SumNext]_SumVars => IntakeRuns'
<1> SUFFICES ASSUME IntakeBound, IntakeRuns, [SumNext]_SumVars, Runs("intake")'  PROVE IntakeInv'
  BY DEF IntakeRuns
<1>1. Runs("intake")
  BY DEF SumNext, SumVars, Runs
<1>2. [I!Next]_(I!vars)
  BY <1>1 DEF SumNext, SumVars, intakeVars, I!vars, Runs
<1> QED  BY <1>1, <1>2, StepIntake DEF IntakeRuns

RecipeRuns == Runs("discovery") => RecipeInv
WorkRuns   == Runs("discovery") => WorkInv

LEMMA DiscoveryRunsStep ==
  ASSUME SiteBound, RecipeRuns, [SumNext]_SumVars
  PROVE  RecipeRuns' /\ (WorkRuns => WorkRuns')
<1>1. ASSUME Runs("discovery")'  PROVE Runs("discovery") /\ [Next]_vars
  <2>1. Runs("discovery")
    BY <1>1 DEF SumNext, SumVars, Runs
  <2> QED  BY <2>1 DEF SumNext, SumVars, discoveryVars, vars, Runs
<1> QED  BY <1>1, StepDiscovery DEF RecipeRuns, WorkRuns

(* While one worker records the failures of a source and no administrator   *)
(* re-enables it, its counter is the number of failures in a row, whatever  *)
(* crashes and database errors come between.                                *)
THEOREM FailuresAreAlwaysExact == SumSpec => []FailuresAreExact
<1>1. SumInit => CountRuns
  BY InitCount DEF SumInit, CountRuns, Runs
<1>2. CountRuns => FailuresAreExact
  BY DEF CountRuns, CountInv, FailuresAreExact
<1> QED  BY <1>1, <1>2, CountRunsStep, PTL DEF SumSpec

(* Whatever operators and promotions do beside the sync, a source's tuning  *)
(* is one that was chosen for it and every answered entry has its source.   *)
THEOREM ManifestAlwaysHolds == ManifestBound => (SumSpec => []ManifestHolds)
<1> SUFFICES ASSUME ManifestBound  PROVE SumSpec => []ManifestHolds
  OBVIOUS
<1>1. SumInit => ManifestRuns
  BY InitManifest DEF SumInit, ManifestRuns, Runs
<1>2. ManifestRuns => ManifestHolds
  BY DEF ManifestRuns, ManifestInv, RowsInv, SyncInv, ManifestHolds, M!ManifestHolds
<1>3. ManifestRuns /\ [SumNext]_SumVars => ManifestRuns'
  BY ManifestRunsStep
<1> QED  BY <1>1, <1>2, <1>3, PTL DEF SumSpec

(* However many feeds and websites are fetched at once and whatever they    *)
(* list: two originals of one title come from a race, an article that no    *)
(* fetch works on any more has its job unless an error struck, and an       *)
(* article of a website carries a sign of a publication.                    *)
THEOREM IntakeAlwaysAddsUp == IntakeBound => (SumSpec => []IntakeIsAccountedFor)
<1> SUFFICES ASSUME IntakeBound  PROVE SumSpec => []IntakeIsAccountedFor
  OBVIOUS
<1>1. SumInit => IntakeRuns
  BY InitIntake DEF SumInit, IntakeRuns, Runs
<1>2. IntakeRuns => IntakeIsAccountedFor
  BY IntakeAddsUp DEF IntakeRuns, IntakeIsAccountedFor
<1>3. IntakeRuns /\ [SumNext]_SumVars => IntakeRuns'
  BY IntakeRunsStep
<1> QED  BY <1>1, <1>2, <1>3, PTL DEF SumSpec

(* Whatever website, recipe or suggestion: every page that is listed or     *)
(* rendered is on the source's host and, unless an agent follows the        *)
(* wildcard in a group of robots.txt, permitted by it; what is requested    *)
(* unchecked is the source's own page and the first page configured, never  *)
(* one that the model names.                                                *)
THEOREM VisitsAlwaysPermitted == SiteBound => (SumSpec => []VisitsAllPermitted)
<1> SUFFICES ASSUME SiteBound  PROVE SumSpec => []VisitsAllPermitted
  OBVIOUS
<1>1. SumInit => RecipeRuns
  BY InitDiscovery DEF SumInit, RecipeRuns, Runs
<1>2. RecipeRuns => VisitsAllPermitted
  <2> SUFFICES ASSUME RecipeInv  PROVE VisitsArePermitted
    BY DEF RecipeRuns, VisitsAllPermitted
  <2>1. site \in Sites /\ visits \subseteq OpenVisits(site)
    BY DEF RecipeInv
  <2>2. ASSUME NEW v \in visits, v.by \in {"cheerio", "playwright"}
        PROVE  v.page \notin Elsewhere /\ (WildcardEndsGroups(site.robots) => Permitted(Path[v.page], site.robots))
    <3>1. v.page \in DOMAIN Path /\ v.page \notin Elsewhere /\ Allowed(Path[v.page], Rules(site.robots))
      BY <2>1, <2>2 DEF OpenVisits, Open
    <3> QED  BY <2>1, <3>1, AllowedIsPermitted
  <2>3. \A v \in visits : (v.by = "feed" => v.page = Home) /\ (v.by = "snapshot" => v.page \in FirstPages)
    BY <2>1 DEF OpenVisits
  <2> QED  BY <2>2, <2>3 DEF VisitsArePermitted
<1>3. RecipeRuns /\ [SumNext]_SumVars => RecipeRuns'
  BY DiscoveryRunsStep
<1> QED  BY <1>1, <1>2, <1>3, PTL DEF SumSpec

(* A website on which a source was created or fetched can be fetched again  *)
(* until it changes, whichever visitors heal the recipe meanwhile and       *)
(* whatever the model suggests; a creation by entry pages that the model    *)
(* named counts only from the first fetch or validation that succeeds.      *)
THEOREM FoundAlwaysWorksAgain == SiteBound => (SumSpec => []FoundWorksAgain)
<1> SUFFICES ASSUME SiteBound  PROVE SumSpec => []FoundWorksAgain
  OBVIOUS
<1>1. SumInit => RecipeRuns /\ WorkRuns
  BY InitDiscovery DEF SumInit, RecipeRuns, WorkRuns, Runs
<1>2. WorkRuns => FoundWorksAgain
  BY DEF WorkRuns, WorkInv, FoundWorksAgain
<1>3. RecipeRuns /\ WorkRuns /\ [SumNext]_SumVars => RecipeRuns' /\ WorkRuns'
  BY DiscoveryRunsStep
<1> QED  BY <1>1, <1>2, <1>3, PTL DEF SumSpec
=============================================================================
