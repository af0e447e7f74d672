------------------------ MODULE DigestDeliveryProofs ------------------------
(***************************************************************************)
(* DigestDelivery implements DigestPromise, what the period of a digest    *)
(* starts at, and what the caches of selections keep, as MCDigestDelivery  *)
(* runs them: for every number of workers, sweeps, previews, resends, days *)
(* and ticks, readers, changes and articles.                               *)
(***************************************************************************)
EXTENDS MCDigestDelivery, WellFoundedInduction, TLAPS

(* Max is an element of every bounded set of integers, by a least distance. *)
LEMMA NatSetHasMinimum ==
  ASSUME NEW S \in SUBSET Nat, S # {}
  PROVE  \E x \in S : \A y \in S : x <= y
<1> DEFINE R == {ss \in Nat \X Nat : ss[1] < ss[2]}
<1>1. IsWellFoundedOn(R, Nat)
  BY NatLessThanWellFounded DEF OpToRel
<1>2. PICK x \in S : \A y \in S : ~ (<<y, x>> \in R)
  BY <1>1, WFMin, Zenon
<1>3. ASSUME NEW y \in S PROVE x <= y
  <2>1. x \in Nat /\ y \in Nat
    OBVIOUS
  <2>2. <<y, x>> \notin R
    BY <1>2
  <2> QED BY <2>1, <2>2
<1> QED BY <1>3

LEMMA MaxOfBounded ==
  ASSUME NEW S \in SUBSET Int, S # {}, NEW b \in Int, \A x \in S : x <= b
  PROVE  Max(S) \in S /\ \A x \in S : x <= Max(S)
<1> DEFINE T == {b - x : x \in S}
<1>1. T \in SUBSET Nat /\ T # {}
  <2>1. ASSUME NEW x \in S PROVE b - x \in Nat
    <3>1. x \in Int /\ x <= b
      OBVIOUS
    <3> QED BY <3>1
  <2> QED BY <2>1
<1>2. PICK t \in T : \A u \in T : t <= u
  BY <1>1, NatSetHasMinimum
<1>3. PICK m \in S : t = b - m
  BY <1>2
<1>4. \A y \in S : m >= y
  <2> TAKE y \in S
  <2>1. b - y \in T
    OBVIOUS
  <2> QED BY <1>2, <1>3, <2>1
<1>5. \E x \in S : \A y \in S : x >= y
  BY <1>4
<1> QED BY <1>5 DEF Max

(* The clock's day is one of the days considered. *)
LEMMA DayOfTime ==
  ASSUME NEW d \in Nat \ {0}, NEW m \in Nat, NEW n \in d .. d * (m + 1) - 1
  PROVE  n \div d \in 1 .. m
<1>1. n \in Int /\ d * (m + 1) \in Int /\ d <= n /\ n < d * (m + 1)
  OBVIOUS
<1>2. n \div d \in Int /\ d * (n \div d) <= n /\ n < d * (n \div d) + d
  BY <1>1
<1> QED BY <1>1, <1>2, SMTT(30)

-----------------------------------------------------------------------------
(***************************************************************************)
(* The inductive invariant, from what a row, a job and an execution must   *)
(* satisfy given the digests rows d and the first mails m.                 *)
(***************************************************************************)

Built(row) == row.status \in {"draft", "sent", "failed"}

(* A period shorter than the cap starts after a mail of another digest. *)
Follows(m, k, start, end) ==
  start > end - Cap => \E q \in Periods \ {k} : m[q] \in 1 .. start

RowIsSound(k, d, m, time) ==
  /\ m[k] <= time
  /\ d[k].status = "sent" => m[k] # Never /\ m[k] <= d[k].sentAt
  /\ d[k].status # "none" => Follows(m, k, d[k].start, d[k].end)

(* A resend is of a stored digest. *)
JobIsSound(j, b, d) ==
  b.state # "none" => b.key \in Keys /\ (j \in Resends => d[b.key].status # "none")

(* What an execution knows of the digest it is about. *)
RunIsSound(r, d, m) ==
  /\ r.pc # "idle" => r.key \in Keys
  /\ r.pc \in {"store", "mail", "sent", "failed"} => Built(d[r.key])
  /\ r.pc \in {"queue", "load"} => d[r.key].status # "none"
  /\ r.pc = "sent" => m[r.key] # Never
  /\ r.pc = "insert" => Follows(m, r.key, r.start, r.end)

Owns(r) == r.job # None /\ ~ r.late

(* Who holds a job's lock executes it alone. *)
Exclusive(runs, jobs) ==
  \A e \in Executors : Owns(runs[e]) =>
    /\ jobs[runs[e].job].state = "active"
    /\ \A f \in Executors : Owns(runs[f]) /\ runs[f].job = runs[e].job => f = e

RowsAreSound   == \A k \in Keys : RowIsSound(k, digest, delivered, now)
JobsAreSound   == \A j \in Jobs : JobIsSound(j, job[j], digest)
RunsAreSound   == \A e \in Executors : RunIsSound(run[e], digest, delivered)
SweepsAreSound == \A s \in Sweepers : sweep[s].pc # "idle" => sweep[s].period \in Periods

DeliveryInv ==
  /\ TypeOK /\ RowsAreSound /\ JobsAreSound /\ RunsAreSound /\ SweepsAreSound
  /\ Exclusive(run, job)

-----------------------------------------------------------------------------
(***************************************************************************)
(* Facts about single steps.                                               *)
(***************************************************************************)

(* A row stays, and stays empty or full of articles; the first mail of a     *)
(* digest stays the first.                                                   *)
RowsStay ==
  \A k \in Keys :
    /\ digest[k].status # "none" => digest'[k].status # "none"
    /\ Built(digest[k]) => Built(digest'[k])
    /\ delivered[k] # Never => delivered'[k] = delivered[k]

(* The clock starts after the null timestamp. *)
LEMMA TimesArePositive == Times \subseteq Nat \ {0} /\ Never \notin Times
BY ClockAssumption DEF Times, Never

LEMMA FollowsStays ==
  ASSUME RowsStay
  PROVE  \A k \in Keys, start \in Int, end \in Nat :
           Follows(delivered, k, start, end) => Follows(delivered', k, start, end)
<1> SUFFICES ASSUME NEW k \in Keys, NEW start \in Int, NEW end \in Nat,
                    Follows(delivered, k, start, end), start > end - Cap
             PROVE  \E q \in Periods \ {k} : delivered'[q] \in 1 .. start
  BY DEF Follows
<1>1. PICK q \in Periods \ {k} : delivered[q] \in 1 .. start
  BY DEF Follows
<1>2. delivered'[q] = delivered[q]
  BY <1>1 DEF RowsStay, Keys, Never
<1> QED BY <1>1, <1>2

LEMMA RunSoundStays ==
  ASSUME RowsStay
  PROVE  \A r \in Run : RunIsSound(r, digest, delivered) => RunIsSound(r, digest', delivered')
<1> SUFFICES ASSUME NEW r \in Run, RunIsSound(r, digest, delivered)
             PROVE  RunIsSound(r, digest', delivered')
  OBVIOUS
<1>1. r.start \in Int /\ r.end \in Nat
  BY DEF Run
<1>2. r.pc = "insert" => Follows(delivered', r.key, r.start, r.end)
  BY <1>1, FollowsStays DEF RunIsSound
<1>3. /\ r.pc = "sent" => delivered'[r.key] # Never
      /\ r.pc \in {"store", "mail", "sent", "failed"} => Built(digest'[r.key])
      /\ r.pc \in {"queue", "load"} => digest'[r.key].status # "none"
  BY DEF RunIsSound, RowsStay
<1> QED BY <1>2, <1>3 DEF RunIsSound

LEMMA JobSoundStays ==
  ASSUME RowsStay
  PROVE  \A j \in Jobs, b \in Job : JobIsSound(j, b, digest) => JobIsSound(j, b, digest')
BY DEF JobIsSound, RowsStay

(* Nothing to do for an idle execution. *)
LEMMA IdleIsSound ==
  /\ Idle \in Run /\ NoJob \in Job /\ NoDigest \in Digest /\ NoSweep \in Sweep
  /\ ~ Owns(Idle) /\ RunIsSound(Idle, digest', delivered')
BY BullAssumption
DEF Idle, NoJob, NoDigest, NoSweep, Run, Job, Digest, Sweep, JobState, Owns, RunIsSound

(* A job that its execution settles keeps its key and loses its owner. *)
LEMMA EndsJob ==
  ASSUME TypeOK, Exclusive(run, job), NEW e \in Executors, Completes(e) \/ Throws(e)
  PROVE  /\ job' \in [Jobs -> Job] /\ run' = [run EXCEPT ![e] = Idle]
         /\ \A j \in Jobs : job'[j].key = job[j].key
                            /\ (job'[j].state # "none" => job[j].state # "none")
         /\ Exclusive(run', job')
<1> DEFINE j == run[e].job
<1>0. run \in [Executors -> Run] /\ job \in [Jobs -> Job] /\ run[e] \in Run
  BY DEF TypeOK
<1>1. j \in Jobs \cup {None} /\ (j # None => job[j] \in Job)
  BY <1>0 DEF Run
<1>2. MadeOf(e) \in Nat
  BY <1>1 DEF MadeOf, Job
<1>3. PICK state \in JobState \ {"none"}, made \in Nat : Settle(e, state, made)
  <2>1. "completed" \in JobState \ {"none"}
    BY DEF JobState
  <2>2. AfterThrow(MadeOf(e) + 1, MaxAttempts) \in JobState \ {"none"}
    BY DEF AfterThrow, JobState
  <2> QED BY <1>2, <2>1, <2>2 DEF Completes, Throws
<1>4. run' = [run EXCEPT ![e] = Idle]
  BY DEF Completes, Throws, Stop
<1>5. CASE ~ Owns(run[e])
  <2>1. job' = job
    BY <1>3, <1>5 DEF Settle, Owns
  <2>2. \A f \in Executors : Owns(run'[f]) => f # e /\ run'[f] = run[f]
    BY <1>0, <1>4, IdleIsSound
  <2>3. Exclusive(run', job')
    BY <2>1, <2>2 DEF Exclusive
  <2> QED BY <1>0, <1>4, <2>1, <2>3
<1>6. CASE Owns(run[e])
  <2>1. j \in Jobs /\ job[j] \in Job /\ job[j].state = "active"
    BY <1>1, <1>6 DEF Owns, Exclusive
  <2>2. [job[j] EXCEPT !.state = state, !.made = made] \in Job
    BY <1>3, <2>1 DEF Job
  <2>3. job' = [job EXCEPT ![j] = [job[j] EXCEPT !.state = state, !.made = made]]
    BY <1>0, <1>3, <1>6, <2>1 DEF Settle, Owns
  <2>4. job' \in [Jobs -> Job]
    BY <1>0, <2>2, <2>3
  <2>5. job'[j].key = job[j].key
    BY <1>0, <2>1, <2>3 DEF Job
  <2>6. \A i \in Jobs \ {j} : job'[i] = job[i]
    BY <1>0, <2>3
  <2>7. \A f \in Executors : Owns(run'[f]) => f # e /\ run'[f] = run[f] /\ run[f].job # j
    BY <1>0, <1>4, <1>6, IdleIsSound DEF Exclusive
  <2>8. \A f \in Executors : Owns(run[f]) => run[f].job \in Jobs
    BY <1>0 DEF Owns, Run
  <2>9. Exclusive(run', job')
    BY <2>6, <2>7, <2>8 DEF Exclusive
  <2> QED BY <1>4, <2>1, <2>4, <2>5, <2>6, <2>9
<1> QED BY <1>5, <1>6

(* Every step of an execution that leaves the clock and the sweeps alone. *)
LEMMA ExecutionStep ==
  ASSUME DeliveryInv, NEW e \in Executors, now' = now, sweep' = sweep,
         digest' \in [Keys -> Digest], delivered' \in [Keys -> Times \cup {Never}],
         bodiless' \in BOOLEAN, RowsStay, RowsAreSound',
         \/ Completes(e) \/ Throws(e)
         \/ /\ job' = job /\ run' \in [Executors -> Run]
            /\ \A f \in Executors \ {e} : run'[f] = run[f]
            /\ Owns(run'[e]) => Owns(run[e]) /\ run'[e].job = run[e].job
            /\ RunIsSound(run'[e], digest', delivered')
  PROVE  DeliveryInv'
<1>0. TypeOK /\ JobsAreSound /\ RunsAreSound /\ Exclusive(run, job)
  BY DEF DeliveryInv
<1>1. run \in [Executors -> Run] /\ job \in [Jobs -> Job]
  BY <1>0 DEF TypeOK
<1>2. /\ job' \in [Jobs -> Job] /\ run' \in [Executors -> Run]
      /\ \A j \in Jobs : job'[j].key = job[j].key
                         /\ (job'[j].state # "none" => job[j].state # "none")
      /\ \A f \in Executors \ {e} : run'[f] = run[f]
      /\ RunIsSound(run'[e], digest', delivered')
      /\ Exclusive(run', job')
  <2>1. CASE Completes(e) \/ Throws(e)
    BY <1>0, <1>1, <2>1, EndsJob, IdleIsSound
  <2>2. CASE ~ (Completes(e) \/ Throws(e))
    <3>1. Exclusive(run', job')
      BY <1>0, <2>2 DEF Exclusive
    <3> QED BY <1>1, <2>2, <3>1
  <2> QED BY <2>1, <2>2
<1>3. TypeOK'
  BY <1>0, <1>2 DEF TypeOK
<1>4. JobsAreSound'
  <2>1. \A j \in Jobs : JobIsSound(j, job[j], digest')
    BY <1>0, <1>1, JobSoundStays DEF JobsAreSound
  <2>2. \A j \in Jobs : JobIsSound(j, job'[j], digest')
    BY <1>2, <2>1 DEF JobIsSound
  <2> QED BY <2>2 DEF JobsAreSound
<1>5. RunsAreSound'
  <2>1. \A f \in Executors \ {e} : RunIsSound(run'[f], digest', delivered')
    BY <1>0, <1>1, <1>2, RunSoundStays DEF RunsAreSound
  <2> QED BY <1>2, <2>1 DEF RunsAreSound
<1>6. SweepsAreSound'
  BY DEF DeliveryInv, SweepsAreSound
<1> QED BY <1>2, <1>3, <1>4, <1>5, <1>6 DEF DeliveryInv

(* What an execution may write over the row of its digest. *)
LEMMA RowWritten ==
  ASSUME DeliveryInv, NEW k \in Keys, NEW row \in Digest,
         digest' = [digest EXCEPT ![k] = row], delivered' = delivered, now' = now,
         row.status # "none", Built(digest[k]) => Built(row),
         row.status = "sent" => delivered[k] # Never /\ delivered[k] <= row.sentAt,
         Follows(delivered, k, row.start, row.end)
  PROVE  /\ digest' \in [Keys -> Digest] /\ digest'[k] = row
         /\ delivered' \in [Keys -> Times \cup {Never}]
         /\ RowsStay /\ RowsAreSound'
<1>0. TypeOK /\ RowsAreSound /\ digest \in [Keys -> Digest]
  BY DEF DeliveryInv, TypeOK
<1>1. digest'[k] = row /\ \A q \in Keys \ {k} : digest'[q] = digest[q]
  BY <1>0
<1>2. digest' \in [Keys -> Digest] /\ delivered' \in [Keys -> Times \cup {Never}]
  BY <1>0 DEF TypeOK
<1>3. RowsStay
  BY <1>1 DEF RowsStay
<1>4. RowIsSound(k, digest', delivered', now')
  BY <1>0, <1>1 DEF RowsAreSound, RowIsSound
<1>5. \A q \in Keys \ {k} : RowIsSound(q, digest', delivered', now')
  BY <1>0, <1>1 DEF RowsAreSound, RowIsSound
<1> QED BY <1>1, <1>2, <1>3, <1>4, <1>5 DEF RowsAreSound

(* A step that writes no row and mails nothing. *)
LEMMA NothingWritten ==
  ASSUME DeliveryInv, digest' = digest, delivered' = delivered, now' = now
  PROVE  /\ digest' \in [Keys -> Digest] /\ delivered' \in [Keys -> Times \cup {Never}]
         /\ RowsStay /\ RowsAreSound'
BY DEF DeliveryInv, TypeOK, RowsStay, RowsAreSound

-----------------------------------------------------------------------------
(***************************************************************************)
(* The invariant holds initially and after every step.                     *)
(***************************************************************************)

LEMMA InitInv == Init => DeliveryInv
<1> SUFFICES ASSUME Init PROVE DeliveryInv
  OBVIOUS
<1>1. now \in Times
  <2>1. DayTicks * (MaxDay + 1) - 1 >= DayTicks /\ DayTicks * (MaxDay + 1) - 1 \in Int
    BY ClockAssumption, SMTT(30)
  <2> QED BY <2>1, ClockAssumption DEF Init, Times
<1>2. TypeOK
  BY <1>1, IdleIsSound DEF Init, TypeOK
<1>3. RowsAreSound
  BY <1>1, TimesArePositive DEF Init, RowsAreSound, RowIsSound, NoDigest, Never
<1>4. JobsAreSound
  BY DEF Init, JobsAreSound, JobIsSound, NoJob
<1>5. RunsAreSound
  BY DEF Init, RunsAreSound, RunIsSound, Idle
<1>6. SweepsAreSound
  BY DEF Init, SweepsAreSound, NoSweep
<1>7. Exclusive(run, job)
  BY IdleIsSound DEF Init, Exclusive
<1> QED BY <1>2, <1>3, <1>4, <1>5, <1>6, <1>7 DEF DeliveryInv

LEMMA TickInv == ASSUME DeliveryInv, Tick PROVE DeliveryInv'
<1>1. now \in Nat /\ now' = now + 1 /\ now' \in Times
  BY TimesArePositive DEF DeliveryInv, TypeOK, Tick
<1>2. RowsAreSound'
  <2>0. delivered \in [Keys -> Times \cup {0}]
    BY DEF DeliveryInv, TypeOK, Never
  <2>a. \A t \in Times \cup {0} : t \in Nat
    BY TimesArePositive
  <2>1. \A k \in Keys : delivered[k] \in Nat
    BY <2>0, <2>a
  <2>2. \A k \in Keys : RowIsSound(k, digest', delivered', now')
    BY <1>1, <2>1 DEF DeliveryInv, RowsAreSound, RowIsSound, Tick
  <2> QED BY <2>2 DEF RowsAreSound
<1> QED BY <1>1, <1>2 DEF DeliveryInv, TypeOK, JobsAreSound, RunsAreSound, SweepsAreSound, Tick

LEMMA CrashInv == ASSUME DeliveryInv, Crash PROVE DeliveryInv'
<1>1. TypeOK'
  BY IdleIsSound DEF DeliveryInv, TypeOK, Crash
<1>2. \A e \in Executors : run'[e] = Idle
  BY DEF Crash
<1>3. RunsAreSound' /\ Exclusive(run', job')
  BY <1>2, IdleIsSound DEF RunsAreSound, Exclusive
<1>4. SweepsAreSound'
  BY DEF SweepsAreSound, Crash, NoSweep
<1>5. RowsAreSound' /\ JobsAreSound'
  BY DEF DeliveryInv, RowsAreSound, JobsAreSound, Crash
<1> QED BY <1>1, <1>3, <1>4, <1>5 DEF DeliveryInv

(* What a sweep does to the job of its day leaves a running one alone. *)
LEMMA SweepInv ==
  ASSUME DeliveryInv, NEW s \in Sweepers, SweepLooks(s) \/ SweepRemoves(s) \/ SweepAdds(s)
  PROVE  DeliveryInv'
<1>0. /\ TypeOK /\ RowsAreSound /\ JobsAreSound /\ RunsAreSound /\ SweepsAreSound
      /\ Exclusive(run, job)
  BY DEF DeliveryInv
<1>1. /\ job \in [Jobs -> Job] /\ run \in [Executors -> Run] /\ sweep \in [Sweepers -> Sweep]
      /\ sweep[s] \in Sweep
  BY <1>0 DEF TypeOK
<1>2. UNCHANGED <<now, digest, run, delivered, bodiless>>
  BY DEF SweepLooks, SweepRemoves, SweepAdds
<1>3. RowsAreSound' /\ RunsAreSound'
  BY <1>0, <1>2 DEF RowsAreSound, RunsAreSound
<1>4. CASE SweepLooks(s)
  <2>1. Today \in Periods
    BY <1>0, DayOfTime, ClockAssumption DEF TypeOK, Times, Today, Periods
  <2>2. /\ sweep' = [sweep EXCEPT ![s] = [pc |-> "remove", period |-> Today]]
        /\ job' = job
    BY <1>4 DEF SweepLooks
  <2>3. [pc |-> "remove", period |-> Today] \in Sweep
    BY <2>1 DEF Sweep
  <2>4. sweep' \in [Sweepers -> Sweep] /\ SweepsAreSound'
    BY <1>0, <1>1, <2>1, <2>2, <2>3 DEF SweepsAreSound
  <2>5. TypeOK' /\ JobsAreSound' /\ Exclusive(run', job')
    BY <1>0, <1>2, <2>2, <2>4 DEF TypeOK, JobsAreSound, Exclusive
  <2> QED BY <1>3, <2>4, <2>5 DEF DeliveryInv
<1>5. CASE SweepRemoves(s) \/ SweepAdds(s)
  <2> DEFINE p == sweep[s].period
  <2>1. p \in Periods /\ p \in Jobs /\ p \in Keys /\ p \notin Resends /\ job[p] \in Job
    BY <1>0, <1>1, <1>5, NamesAssumption
    DEF SweepsAreSound, SweepRemoves, SweepAdds, Jobs, Keys, Periods
  <2>2. PICK b \in Job :
          /\ job' = [job EXCEPT ![p] = b]
          /\ b.state # "none" => b.key \in Keys
          /\ job[p].state = "active" => b.state = "active"
    <3>1. CASE SweepRemoves(s)
      <4>1. job' = [job EXCEPT ![p] = IF job[p].state \in Retained THEN NoJob ELSE job[p]]
        BY <1>1, <2>1, <3>1 DEF SweepRemoves
      <4>2. CASE job[p].state \in Retained
        BY <4>1, <4>2, IdleIsSound DEF Retained, NoJob
      <4>3. CASE job[p].state \notin Retained
        BY <1>0, <2>1, <4>1, <4>3 DEF JobsAreSound, JobIsSound
      <4> QED BY <4>2, <4>3
    <3>2. CASE SweepAdds(s)
      <4> DEFINE b == [job[p] EXCEPT !.state = Added(job[p].state), !.key = p]
      <4>1. b \in Job /\ b.key = p /\ b.state = Added(job[p].state)
        BY <2>1 DEF Job, Added, JobState
      <4>2. job' = [job EXCEPT ![p] = b]
        BY <1>1, <2>1, <3>2 DEF SweepAdds
      <4> QED BY <2>1, <4>1, <4>2 DEF Added
    <3> QED BY <1>5, <3>1, <3>2
  <2>3. job' \in [Jobs -> Job] /\ job'[p] = b /\ \A j \in Jobs \ {p} : job'[j] = job[j]
    BY <1>1, <2>1, <2>2
  <2>4. JobsAreSound'
    <3>1. JobIsSound(p, job'[p], digest')
      BY <2>1, <2>2, <2>3 DEF JobIsSound
    <3>2. \A j \in Jobs \ {p} : JobIsSound(j, job'[j], digest')
      BY <1>0, <1>2, <2>3 DEF JobsAreSound
    <3> QED BY <3>1, <3>2 DEF JobsAreSound
  <2>5. Exclusive(run', job')
    <3>1. \A j \in Jobs : job[j].state = "active" => job'[j].state = "active"
      BY <2>2, <2>3
    <3>2. \A e \in Executors : Owns(run[e]) => run[e].job \in Jobs
      BY <1>1 DEF Owns, Run
    <3> QED BY <1>0, <1>2, <3>1, <3>2 DEF Exclusive
  <2>6. sweep' \in [Sweepers -> Sweep] /\ SweepsAreSound'
    <3>1. CASE SweepRemoves(s)
      <4>1. sweep' = [sweep EXCEPT ![s] = [sweep[s] EXCEPT !.pc = "add"]]
        BY <1>1, <3>1 DEF SweepRemoves
      <4>2. [sweep[s] EXCEPT !.pc = "add"] \in Sweep /\ [sweep[s] EXCEPT !.pc = "add"].period = p
        BY <1>1 DEF Sweep
      <4> QED BY <1>0, <1>1, <2>1, <4>1, <4>2 DEF SweepsAreSound
    <3>2. CASE SweepAdds(s)
      BY <1>0, <1>1, <3>2, IdleIsSound DEF SweepAdds, SweepsAreSound, NoSweep
    <3> QED BY <1>5, <3>1, <3>2
  <2>7. TypeOK'
    BY <1>0, <1>2, <2>3, <2>6 DEF TypeOK
  <2> QED BY <1>3, <2>4, <2>5, <2>6, <2>7 DEF DeliveryInv
<1> QED BY <1>4, <1>5

(* A worker takes a job nobody owns, about a digest that fits the job. *)
LEMMA TakeInv == ASSUME DeliveryInv, NEW w \in Workers, NEW j \in Jobs, Take(w, j) PROVE DeliveryInv'
<1>0. /\ TypeOK /\ RowsAreSound /\ JobsAreSound /\ RunsAreSound /\ SweepsAreSound
      /\ Exclusive(run, job)
  BY DEF DeliveryInv
<1>1. /\ job \in [Jobs -> Job] /\ run \in [Executors -> Run] /\ w \in Executors
      /\ job[j] \in Job /\ job[j].state = "waiting"
  BY <1>0 DEF TypeOK, Executors, Take
<1>2. UNCHANGED <<now, digest, sweep, delivered, bodiless>>
  BY DEF Take
<1>3. job[j].key \in Keys /\ (j \in Resends => digest[job[j].key].status # "none")
  BY <1>0, <1>1 DEF JobsAreSound, JobIsSound
<1> DEFINE b == [job[j] EXCEPT !.state = "active"]
           r == [Idle EXCEPT !.pc = IF j \in Resends THEN "load" ELSE "plan",
                             !.job = j, !.key = job[j].key]
<1>4. /\ b \in Job /\ b.key = job[j].key /\ b.state = "active"
      /\ job' = [job EXCEPT ![j] = b]
  BY <1>1 DEF Take, Job, JobState
<1>5. run' = [run EXCEPT ![w] = r]
  BY <1>1 DEF Take
<1>6. r \in Run /\ r.job = j /\ RunIsSound(r, digest', delivered')
  <2>1. Idle \in Run
    BY IdleIsSound
  <2>2. /\ r \in Run /\ r.job = j /\ r.key = job[j].key
        /\ r.pc = IF j \in Resends THEN "load" ELSE "plan"
    BY <1>3, <2>1 DEF Run
  <2> QED BY <1>2, <1>3, <2>2 DEF RunIsSound
<1>7. /\ job' \in [Jobs -> Job] /\ job'[j] = b /\ \A i \in Jobs \ {j} : job'[i] = job[i]
      /\ run' \in [Executors -> Run] /\ run'[w] = r
      /\ \A e \in Executors \ {w} : run'[e] = run[e]
  BY <1>1, <1>4, <1>5, <1>6
<1>8. TypeOK' /\ RowsAreSound' /\ SweepsAreSound'
  BY <1>0, <1>2, <1>7 DEF TypeOK, RowsAreSound, SweepsAreSound
<1>9. JobsAreSound'
  <2>1. JobIsSound(j, job'[j], digest')
    BY <1>2, <1>3, <1>4, <1>7 DEF JobIsSound
  <2>2. \A i \in Jobs \ {j} : JobIsSound(i, job'[i], digest')
    BY <1>0, <1>2, <1>7 DEF JobsAreSound
  <2> QED BY <2>1, <2>2 DEF JobsAreSound
<1>10. RunsAreSound'
  BY <1>0, <1>2, <1>6, <1>7 DEF RunsAreSound
<1>11. Exclusive(run', job')
  <2>1. \A e \in Executors : Owns(run[e]) => run[e].job \in Jobs \ {j}
    BY <1>0, <1>1 DEF Exclusive, Owns, Run
  <2>2. ASSUME NEW e \in Executors \ {w}, Owns(run'[e])
        PROVE  /\ job'[run'[e].job].state = "active"
               /\ \A f \in Executors : Owns(run'[f]) /\ run'[f].job = run'[e].job => f = e
    <3>1. run'[e] = run[e] /\ Owns(run[e]) /\ run[e].job \in Jobs \ {j}
      BY <1>7, <2>1, <2>2
    <3>2. job'[run[e].job] = job[run[e].job]
      BY <1>7, <3>1
    <3>3. run'[w].job # run[e].job
      BY <1>6, <1>7, <3>1
    <3>4. \A f \in Executors \ {w} : run'[f] = run[f]
      BY <1>7
    <3> QED BY <1>0, <3>1, <3>2, <3>3, <3>4 DEF Exclusive
  <2>3. /\ job'[run'[w].job].state = "active"
        /\ \A f \in Executors : Owns(run'[f]) /\ run'[f].job = run'[w].job => f = w
    <3>1. run'[w].job = j /\ job'[j].state = "active"
      BY <1>4, <1>6, <1>7
    <3>2. \A f \in Executors \ {w} : run'[f] = run[f] /\ (Owns(run[f]) => run[f].job # j)
      BY <1>7, <2>1
    <3> QED BY <3>1, <3>2
  <2> QED BY <2>2, <2>3 DEF Exclusive
<1> QED BY <1>8, <1>9, <1>10, <1>11 DEF DeliveryInv

(* The stalled check takes the lock from whoever executes the job. *)
LEMMA StallInv == ASSUME DeliveryInv, NEW j \in Jobs, StallDetected(j) PROVE DeliveryInv'
<1>0. /\ TypeOK /\ RowsAreSound /\ JobsAreSound /\ RunsAreSound /\ SweepsAreSound
      /\ Exclusive(run, job)
  BY DEF DeliveryInv
<1>1. /\ job \in [Jobs -> Job] /\ run \in [Executors -> Run]
      /\ job[j] \in Job /\ job[j].state = "active"
  BY <1>0 DEF TypeOK, StallDetected
<1>2. UNCHANGED <<now, digest, sweep, delivered, bodiless>>
  BY DEF StallDetected
<1>3. PICK b \in Job : b.key = job[j].key /\ b.state # "none" /\ job' = [job EXCEPT ![j] = b]
  <2>1. CASE job[j].stalled < MaxStalled
    <3> DEFINE b == [job[j] EXCEPT !.state = "waiting", !.stalled = job[j].stalled + 1]
    <3>1. job[j].stalled + 1 \in 0 .. MaxStalled
      BY <1>1, <2>1, BullAssumption DEF Job
    <3>2. b \in Job /\ b.state = "waiting" /\ b.key = job[j].key
      BY <1>1, <3>1 DEF Job, JobState
    <3>3. job' = [job EXCEPT ![j] = b]
      BY <1>1, <2>1 DEF StallDetected
    <3> QED BY <3>2, <3>3
  <2>2. CASE ~ (job[j].stalled < MaxStalled)
    <3> DEFINE b == [job[j] EXCEPT !.state = "failed"]
    <3>1. b \in Job /\ b.state = "failed" /\ b.key = job[j].key
      BY <1>1 DEF Job, JobState
    <3>2. job' = [job EXCEPT ![j] = b]
      BY <1>1, <2>2 DEF StallDetected
    <3> QED BY <3>1, <3>2
  <2> QED BY <2>1, <2>2
<1>4. job' \in [Jobs -> Job] /\ job'[j] = b /\ \A i \in Jobs \ {j} : job'[i] = job[i]
  BY <1>1, <1>3
<1>5. \A e \in Executors :
        run'[e] = IF run[e].job = j THEN [run[e] EXCEPT !.late = TRUE] ELSE run[e]
  BY DEF StallDetected, Released
<1>6. \A r \in Run : /\ [r EXCEPT !.late = TRUE] \in Run
                     /\ ~ Owns([r EXCEPT !.late = TRUE])
                     /\ RunIsSound(r, digest, delivered)
                          => RunIsSound([r EXCEPT !.late = TRUE], digest, delivered)
  BY DEF Run, Owns, RunIsSound
<1>7. run' \in [Executors -> Run]
  BY <1>1, <1>6 DEF StallDetected, Released
<1>8. TypeOK' /\ RowsAreSound' /\ SweepsAreSound'
  BY <1>0, <1>2, <1>4, <1>7 DEF TypeOK, RowsAreSound, SweepsAreSound
<1>9. JobsAreSound'
  BY <1>0, <1>1, <1>2, <1>3, <1>4 DEF JobsAreSound, JobIsSound
<1>10. RunsAreSound'
  BY <1>0, <1>1, <1>2, <1>5, <1>6 DEF RunsAreSound
<1>11. Exclusive(run', job')
  <2>1. ASSUME NEW e \in Executors, Owns(run'[e])
        PROVE  run'[e] = run[e] /\ run[e].job \in Jobs \ {j}
    <3>1. run[e] \in Run
      BY <1>1
    <3>2. run[e].job # j /\ run'[e] = run[e]
      BY <1>5, <1>6, <2>1, <3>1
    <3> QED BY <2>1, <3>1, <3>2 DEF Owns, Run
  <2> QED BY <1>0, <1>4, <2>1 DEF Exclusive
<1> QED BY <1>8, <1>9, <1>10, <1>11 DEF DeliveryInv

LEMMA TriggerInv == ASSUME DeliveryInv, NEW p \in Previews, TriggerPreview(p) PROVE DeliveryInv'
<1>0. TypeOK /\ run \in [Executors -> Run] /\ p \in Executors /\ p \in Keys
  BY DEF DeliveryInv, TypeOK, Executors, Keys
<1> DEFINE r == [Idle EXCEPT !.pc = "plan", !.key = p]
<1>1. run' = [run EXCEPT ![p] = r] /\ UNCHANGED <<now, digest, job, sweep, delivered, bodiless>>
  BY DEF TriggerPreview
<1>2. r \in Run /\ ~ Owns(r) /\ RunIsSound(r, digest', delivered')
  <2>1. Idle \in Run /\ Idle.job = None /\ Idle.late = FALSE
    BY IdleIsSound DEF Idle
  <2>2. r \in Run /\ r.pc = "plan" /\ r.key = p /\ r.job = None
    BY <1>0, <2>1 DEF Run
  <2> QED BY <1>0, <2>2 DEF Owns, RunIsSound
<1>3. run' \in [Executors -> Run] /\ run'[p] = r /\ \A e \in Executors \ {p} : run'[e] = run[e]
  BY <1>0, <1>1, <1>2
<1>4. bodiless' \in BOOLEAN
  BY <1>0, <1>1 DEF TypeOK
<1> QED BY <1>0, <1>1, <1>2, <1>3, <1>4, NothingWritten, ExecutionStep

(* A new resend job is of a stored digest and has no owner. *)
LEMMA ResendAdded ==
  ASSUME DeliveryInv, NEW k \in Keys, digest[k].status # "none", NEW r \in Resends,
         job[r].state = "none",
         job' = [job EXCEPT ![r] = [NoJob EXCEPT !.state = "waiting", !.key = k]],
         UNCHANGED <<now, digest, sweep, delivered, bodiless>>,
         run' \in [Executors -> Run],
         \A e \in Executors : run'[e] = run[e] \/ run'[e] = Idle
  PROVE  DeliveryInv'
<1>0. /\ TypeOK /\ RowsAreSound /\ JobsAreSound /\ RunsAreSound /\ SweepsAreSound
      /\ Exclusive(run, job)
  BY DEF DeliveryInv
<1>1. job \in [Jobs -> Job] /\ run \in [Executors -> Run] /\ r \in Jobs
  BY <1>0 DEF TypeOK, Jobs
<1> DEFINE b == [NoJob EXCEPT !.state = "waiting", !.key = k]
<1>2. b \in Job /\ JobIsSound(r, b, digest)
  <2>1. NoJob \in Job
    BY IdleIsSound
  <2>2. b \in Job /\ b.key = k
    BY <2>1 DEF Job, JobState
  <2> QED BY <2>2 DEF JobIsSound
<1>3. job' \in [Jobs -> Job] /\ job'[r] = b /\ \A j \in Jobs \ {r} : job'[j] = job[j]
  BY <1>1, <1>2
<1>4. TypeOK' /\ RowsAreSound' /\ SweepsAreSound'
  BY <1>0, <1>3 DEF TypeOK, RowsAreSound, SweepsAreSound
<1>5. JobsAreSound'
  BY <1>0, <1>2, <1>3 DEF JobsAreSound
<1>6. RunsAreSound'
  BY <1>0, IdleIsSound DEF RunsAreSound
<1>7. Exclusive(run', job')
  <2>1. \A e \in Executors : Owns(run[e]) => run[e].job \in Jobs \ {r}
    BY <1>0, <1>1 DEF Exclusive, Owns, Run
  <2>2. \A e \in Executors : Owns(run'[e]) => run'[e] = run[e]
    BY IdleIsSound
  <2> QED BY <1>0, <1>3, <2>1, <2>2 DEF Exclusive
<1> QED BY <1>4, <1>5, <1>6, <1>7 DEF DeliveryInv

LEMMA QueueInv ==
  ASSUME DeliveryInv,
         \/ \E e \in Executors : QueuePreview(e)
         \/ \E k \in Keys : Resend(k)
  PROVE  DeliveryInv'
<1>0. TypeOK /\ RunsAreSound /\ run \in [Executors -> Run]
  BY DEF DeliveryInv, TypeOK
<1>1. ASSUME NEW p \in Executors, QueuePreview(p) PROVE DeliveryInv'
  <2>1. run[p].key \in Keys /\ digest[run[p].key].status # "none"
    BY <1>0, <1>1 DEF QueuePreview, RunsAreSound, RunIsSound
  <2>2. /\ run' \in [Executors -> Run]
        /\ \A e \in Executors : run'[e] = run[e] \/ run'[e] = Idle
    BY <1>0, <1>1, <2>1, IdleIsSound DEF QueuePreview, Stop
  <2>3. PICK r \in Resends :
          /\ job[r].state = "none"
          /\ job' = [job EXCEPT ![r] = [NoJob EXCEPT !.state = "waiting", !.key = run[p].key]]
    BY <1>1 DEF QueuePreview
  <2>4. UNCHANGED <<now, digest, sweep, delivered, bodiless>>
    BY <1>1 DEF QueuePreview
  <2> QED BY <2>1, <2>2, <2>3, <2>4, ResendAdded
<1>2. ASSUME NEW k \in Keys, Resend(k) PROVE DeliveryInv'
  <2>1. PICK r \in Resends :
          /\ job[r].state = "none"
          /\ job' = [job EXCEPT ![r] = [NoJob EXCEPT !.state = "waiting", !.key = k]]
    BY <1>2 DEF Resend
  <2>2. digest[k].status # "none" /\ UNCHANGED <<now, digest, sweep, run, delivered, bodiless>>
    BY <1>2 DEF Resend
  <2> QED BY <1>0, <2>1, <2>2, ResendAdded
<1> QED BY <1>1, <1>2

(* An execution goes on: its job, lock and digest stay what they are. *)
Goes(e, pc) ==
  /\ run' \in [Executors -> Run]
  /\ \A f \in Executors \ {e} : run'[f] = run[f]
  /\ run'[e].pc = pc /\ run'[e].key = run[e].key
  /\ run'[e].job = run[e].job /\ run'[e].late = run[e].late

PcSet == \* every pc of a Run
  {"idle", "plan", "insert", "store", "queue", "load", "mail", "sent", "failed"}

LEMMA GotoGoes ==
  ASSUME TypeOK, NEW e \in Executors, NEW pc \in PcSet, Goto(e, pc)
  PROVE  Goes(e, pc)
<1> DEFINE r == [run[e] EXCEPT !.pc = pc]
<1>1. run \in [Executors -> Run] /\ run[e] \in Run
  BY DEF TypeOK
<1>2. r \in Run /\ r.pc = pc /\ r.key = run[e].key /\ r.job = run[e].job /\ r.late = run[e].late
  BY <1>1 DEF Run, PcSet
<1>3. run' = [run EXCEPT ![e] = r]
  BY <1>1 DEF Goto
<1> QED BY <1>1, <1>2, <1>3 DEF Goes

LEMMA LoadGoes ==
  ASSUME TypeOK, NEW e \in Executors, NEW pc \in PcSet, NEW full \in BOOLEAN,
         run' = [run EXCEPT ![e].pc = pc, ![e].full = full]
  PROVE  Goes(e, pc)
<1> DEFINE r == [run[e] EXCEPT !.pc = pc, !.full = full]
<1>1. run \in [Executors -> Run] /\ run[e] \in Run
  BY DEF TypeOK
<1>2. r \in Run /\ r.pc = pc /\ r.key = run[e].key /\ r.job = run[e].job /\ r.late = run[e].late
  BY <1>1 DEF Run, PcSet
<1>3. run' = [run EXCEPT ![e] = r]
  BY <1>1
<1> QED BY <1>1, <1>2, <1>3 DEF Goes

(* The step of an execution that ends, or goes on soundly. *)
LEMMA GoesOn ==
  ASSUME DeliveryInv, NEW e \in Executors, NEW pc \in PcSet, now' = now, sweep' = sweep,
         digest' \in [Keys -> Digest], delivered' \in [Keys -> Times \cup {Never}],
         bodiless' \in BOOLEAN, RowsStay, RowsAreSound',
         run[e].key \in Keys,
         \/ Completes(e) \/ Throws(e)
         \/ /\ job' = job /\ Goes(e, pc)
            /\ pc # "insert"
            /\ pc \in {"store", "mail", "sent", "failed"} => Built(digest'[run[e].key])
            /\ pc \in {"queue", "load"} => digest'[run[e].key].status # "none"
            /\ pc = "sent" => delivered'[run[e].key] # Never
  PROVE  DeliveryInv'
<1>1. CASE Completes(e) \/ Throws(e)
  BY <1>1, ExecutionStep
<1>2. CASE ~ (Completes(e) \/ Throws(e))
  <2>1. job' = job /\ Goes(e, pc) /\ RunIsSound(run'[e], digest', delivered')
    BY <1>2 DEF Goes, RunIsSound
  <2>2. Owns(run'[e]) => Owns(run[e]) /\ run'[e].job = run[e].job
    BY <2>1 DEF Goes, Owns
  <2> QED BY <2>1, <2>2, ExecutionStep DEF Goes
<1> QED BY <1>1, <1>2

(* What is known of the digest of an execution that is not idle. *)
LEMMA AboutRun ==
  ASSUME DeliveryInv, NEW e \in Executors, run[e].pc # "idle"
  PROVE  /\ TypeOK /\ run[e] \in Run /\ run[e].key \in Keys
         /\ digest[run[e].key] \in Digest /\ delivered[run[e].key] \in Times \cup {Never}
         /\ RunIsSound(run[e], digest, delivered)
         /\ RowIsSound(run[e].key, digest, delivered, now)
BY DEF DeliveryInv, TypeOK, RunsAreSound, RowsAreSound, RunIsSound

-----------------------------------------------------------------------------
(* buildForUser. *)

(* The period starts at a scheduled digest's sentAt, or at the cap. *)
LEMMA PeriodStartIsAMoment ==
  ASSUME TypeOK
  PROVE  PeriodStart \in Int /\ (PeriodStart = now - Cap \/ PeriodStart \in Previous)
<1> DEFINE S == Previous \cup {now - Cap}
           bound == DayTicks * (MaxDay + 1)
<1>0. now \in Times /\ digest \in [Keys -> Digest] /\ Periods \subseteq Keys
  BY DEF TypeOK, Keys
<1>1. bound \in Nat /\ Times \subseteq Int /\ \A t \in Times : t <= bound
  BY ClockAssumption, SMTT(30) DEF Times
<1> HIDE DEF bound
<1>2. Previous \subseteq Times \cup {0}
  BY <1>0 DEF Previous, Digest, Never
<1>3. now - Cap \in Int /\ now - Cap <= bound
  BY <1>0, <1>1, ClockAssumption
<1>4. S \in SUBSET Int /\ S # {} /\ \A x \in S : x <= bound
  <2>1. now - Cap \in S
    OBVIOUS
  <2>2. \A x \in Times \cup {0} : x \in Int /\ x <= bound
    BY <1>1
  <2>3. \A x \in S : x \in Int /\ x <= bound
    BY <1>2, <1>3, <2>2
  <2> QED BY <2>1, <2>3
<1>5. Max(S) \in S
  BY <1>1, <1>4, MaxOfBounded
<1> QED BY <1>4, <1>5 DEF PeriodStart

LEMMA PlanInv ==
  ASSUME DeliveryInv, NEW e \in Executors, PlanStored(e) \/ PlanNew(e)
  PROVE  DeliveryInv'
<1> DEFINE k == run[e].key
<1>0. /\ TypeOK /\ RowsAreSound /\ run[e] \in Run /\ k \in Keys /\ digest[k] \in Digest
      /\ run \in [Executors -> Run] /\ now \in Times /\ bodiless \in BOOLEAN
  BY AboutRun DEF PlanStored, PlanNew, DeliveryInv, TypeOK
<1>1. UNCHANGED <<now, digest, sweep, delivered, bodiless>>
  BY DEF PlanStored, PlanNew
<1>2. /\ digest' \in [Keys -> Digest] /\ delivered' \in [Keys -> Times \cup {Never}]
      /\ bodiless' \in BOOLEAN /\ RowsStay /\ RowsAreSound'
  BY <1>0, <1>1, NothingWritten
<1>3. CASE PlanStored(e)
  <2>1. CASE Completes(e)
    BY <1>0, <1>1, <1>2, <2>1, ExecutionStep
  <2>2. CASE ~ Completes(e)
    <3>1. /\ job' = job /\ Built(digest[k])
          /\ run' = [run EXCEPT ![e].pc = "mail", ![e].full = digest[k].full]
      BY <1>0, <1>3, <2>2 DEF PlanStored, Built, Digest
    <3>2. Goes(e, "mail")
      BY <1>0, <3>1, LoadGoes DEF PcSet, Digest
    <3>3. "mail" \in PcSet
      BY DEF PcSet
    <3> QED BY <1>0, <1>1, <1>2, <3>1, <3>2, <3>3, GoesOn
  <2> QED BY <2>1, <2>2
<1>4. CASE PlanNew(e)
  <2> DEFINE r == [run[e] EXCEPT !.pc = "insert", !.start = PeriodStart, !.end = now]
  <2>1. PeriodStart \in Int /\ (PeriodStart = now - Cap \/ PeriodStart \in Previous)
    BY <1>0, PeriodStartIsAMoment
  <2>2. now \in Nat
    BY <1>0, TimesArePositive
  <2>3. /\ r \in Run /\ r.pc = "insert" /\ r.start = PeriodStart /\ r.end = now
        /\ r.key = k /\ r.job = run[e].job /\ r.late = run[e].late
    BY <1>0, <2>1, <2>2 DEF Run
  <2>4. run' = [run EXCEPT ![e] = r] /\ job' = job
    BY <1>0, <1>4 DEF PlanNew
  <2>5. Follows(delivered, k, PeriodStart, now)
    <3>1. SUFFICES ASSUME PeriodStart > now - Cap
                   PROVE  \E q \in Periods \ {k} : delivered[q] \in 1 .. PeriodStart
      BY DEF Follows
    <3>2. PeriodStart \in Previous
      BY <2>1, <2>2, <3>1, ClockAssumption
    <3>3. PICK q \in Periods : digest[q].status = "sent" /\ digest[q].sentAt = PeriodStart
      BY <3>2 DEF Previous
    <3>4. q # k /\ q \in Keys
      BY <1>4, <3>3 DEF PlanNew, Keys
    <3>5. delivered[q] # Never /\ delivered[q] <= PeriodStart
      BY <1>0, <3>3, <3>4 DEF RowsAreSound, RowIsSound
    <3>6. delivered[q] \in Times \cup {Never}
      BY <1>0, <3>4 DEF TypeOK
    <3>7. delivered[q] \in Nat \ {0}
      BY <3>5, <3>6, TimesArePositive
    <3> QED BY <2>1, <3>4, <3>5, <3>7
  <2>6. RunIsSound(r, digest', delivered')
    BY <1>0, <1>1, <2>3, <2>5 DEF RunIsSound
  <2>7. /\ run' \in [Executors -> Run] /\ run'[e] = r
        /\ \A f \in Executors \ {e} : run'[f] = run[f]
    BY <1>0, <2>3, <2>4
  <2>8. Owns(run'[e]) => Owns(run[e]) /\ run'[e].job = run[e].job
    BY <2>3, <2>7 DEF Owns
  <2> QED BY <1>0, <1>1, <1>2, <2>4, <2>6, <2>7, <2>8, ExecutionStep
<1> QED BY <1>3, <1>4

(* A new row has the period that its execution planned. *)
LEMMA InsertedRow ==
  ASSUME DeliveryInv, NEW e \in Executors, run[e].pc = "insert",
         NEW status \in {"draft", "skipped_empty"}, digest[run[e].key].status = "none",
         digest' = [digest EXCEPT ![run[e].key] = Row(e, status)],
         now' = now, delivered' = delivered
  PROVE  /\ digest' \in [Keys -> Digest] /\ delivered' \in [Keys -> Times \cup {Never}]
         /\ RowsStay /\ RowsAreSound' /\ digest'[run[e].key].status = status
<1> DEFINE k == run[e].key
           row == Row(e, status)
<1>1. run[e] \in Run /\ k \in Keys /\ RunIsSound(run[e], digest, delivered)
  BY AboutRun
<1>2. NoDigest \in Digest
  BY IdleIsSound
<1>3. /\ row \in Digest /\ row.status = status
      /\ row.start = run[e].start /\ row.end = run[e].end
  BY <1>1, <1>2 DEF Row, Digest, Run
<1>4. Follows(delivered, k, row.start, row.end)
  BY <1>1, <1>3 DEF RunIsSound
<1>5. ~ Built(digest[k])
  BY DEF Built
<1> HIDE DEF row
<1> QED BY <1>1, <1>3, <1>4, <1>5, RowWritten DEF row

LEMMA InsertInv == ASSUME DeliveryInv, NEW e \in Executors, Insert(e) PROVE DeliveryInv'
<1> DEFINE k == run[e].key
<1>0. /\ TypeOK /\ run[e] \in Run /\ k \in Keys /\ run[e].pc = "insert"
      /\ UNCHANGED <<now, sweep, delivered, bodiless>> /\ bodiless' \in BOOLEAN
      /\ "store" \in PcSet /\ "queue" \in PcSet
  BY AboutRun DEF Insert, TypeOK, PcSet
<1>1. CASE digest[k].status # "none"
  <2>1. Throws(e) /\ digest' = digest
    BY <1>1 DEF Insert
  <2>2. /\ digest' \in [Keys -> Digest] /\ delivered' \in [Keys -> Times \cup {Never}]
        /\ RowsStay /\ RowsAreSound'
    BY <1>0, <2>1, NothingWritten
  <2> QED BY <1>0, <2>1, <2>2, ExecutionStep
<1>2. CASE /\ digest[k].status = "none"
           /\ digest' = [digest EXCEPT ![k] = Row(e, "draft")]
           /\ Goto(e, "store") /\ UNCHANGED job
  <2>1. /\ digest' \in [Keys -> Digest] /\ delivered' \in [Keys -> Times \cup {Never}]
        /\ RowsStay /\ RowsAreSound' /\ digest'[k].status = "draft"
    BY <1>0, <1>2, InsertedRow
  <2>2. Goes(e, "store") /\ Built(digest'[k])
    BY <1>0, <1>2, <2>1, GotoGoes DEF Built
  <2> QED BY <1>0, <1>2, <2>1, <2>2, GoesOn
<1>3. CASE /\ digest[k].status = "none"
           /\ digest' = [digest EXCEPT ![k] = Row(e, "skipped_empty")]
           /\ IF e \in Previews THEN Goto(e, "queue") /\ UNCHANGED job ELSE Completes(e)
  <2>1. /\ digest' \in [Keys -> Digest] /\ delivered' \in [Keys -> Times \cup {Never}]
        /\ RowsStay /\ RowsAreSound' /\ digest'[k].status = "skipped_empty"
    BY <1>0, <1>3, InsertedRow
  <2>2. CASE e \in Previews
    <3>1. Goes(e, "queue") /\ job' = job
      BY <1>0, <1>3, <2>2, GotoGoes
    <3> QED BY <1>0, <2>1, <3>1, GoesOn
  <2>3. CASE e \notin Previews
    BY <1>0, <1>3, <2>1, <2>3, ExecutionStep
  <2> QED BY <2>2, <2>3
<1> QED BY <1>1, <1>2, <1>3 DEF Insert

LEMMA StoreInv == ASSUME DeliveryInv, NEW e \in Executors, Store(e) PROVE DeliveryInv'
<1> DEFINE k == run[e].key
           row == [digest[k] EXCEPT !.full = TRUE, !.status = "draft", !.sentAt = Never]
           pc == IF e \in Previews THEN "queue" ELSE "mail"
<1>0. /\ TypeOK /\ run[e] \in Run /\ k \in Keys /\ digest[k] \in Digest
      /\ digest \in [Keys -> Digest] /\ Built(digest[k])
      /\ RowIsSound(k, digest, delivered, now)
      /\ UNCHANGED <<now, job, sweep, delivered, bodiless>> /\ bodiless' \in BOOLEAN
  BY AboutRun DEF Store, TypeOK, RunIsSound
<1>1. /\ row \in Digest /\ row.status = "draft"
      /\ row.start = digest[k].start /\ row.end = digest[k].end
  BY <1>0 DEF Digest
<1>2. digest' = [digest EXCEPT ![k] = row]
  BY <1>0 DEF Store
<1>3. Follows(delivered, k, row.start, row.end)
  BY <1>0, <1>1 DEF RowIsSound, Built
<1>4. Built(row)
  BY <1>1 DEF Built
<1> HIDE DEF row
<1>5. /\ digest' \in [Keys -> Digest] /\ delivered' \in [Keys -> Times \cup {Never}]
      /\ RowsStay /\ RowsAreSound' /\ digest'[k] = row
  BY <1>0, <1>1, <1>2, <1>3, <1>4, RowWritten
<1>6. run' = [run EXCEPT ![e].pc = pc, ![e].full = TRUE] /\ pc \in PcSet
  BY DEF Store, PcSet
<1>7. Goes(e, pc)
  BY <1>0, <1>6, LoadGoes
<1>8. pc \in {"mail", "queue"} /\ row.status # "none"
  BY <1>1
<1> HIDE DEF pc
<1> QED BY <1>0, <1>4, <1>5, <1>6, <1>7, <1>8, GoesOn

LEMMA LoadInv == ASSUME DeliveryInv, NEW e \in Executors, Load(e) PROVE DeliveryInv'
<1> DEFINE k == run[e].key
<1>0. /\ TypeOK /\ run[e] \in Run /\ k \in Keys /\ digest[k] \in Digest
      /\ digest[k].status # "none" /\ "mail" \in PcSet
      /\ UNCHANGED <<now, digest, sweep, delivered, bodiless>> /\ bodiless' \in BOOLEAN
  BY AboutRun DEF Load, TypeOK, RunIsSound, PcSet
<1>1. /\ digest' \in [Keys -> Digest] /\ delivered' \in [Keys -> Times \cup {Never}]
      /\ RowsStay /\ RowsAreSound'
  BY <1>0, NothingWritten
<1>2. CASE Completes(e)
  BY <1>0, <1>1, <1>2, ExecutionStep
<1>3. CASE ~ Completes(e)
  <2>1. /\ job' = job /\ Built(digest[k])
        /\ run' = [run EXCEPT ![e].pc = "mail", ![e].full = digest[k].full]
    BY <1>0, <1>3 DEF Load, Built, Digest
  <2>2. Goes(e, "mail")
    BY <1>0, <2>1, LoadGoes DEF Digest
  <2> QED BY <1>0, <1>1, <2>1, <2>2, GoesOn
<1> QED BY <1>2, <1>3

(* The first mail of a digest is remembered; a later one changes nothing. *)
LEMMA PostedRows ==
  ASSUME DeliveryInv, NEW e \in Executors, run[e].pc = "mail", Posted(e), digest' = digest, now' = now
  PROVE  /\ digest' \in [Keys -> Digest] /\ delivered' \in [Keys -> Times \cup {Never}]
         /\ bodiless' \in BOOLEAN /\ RowsStay /\ RowsAreSound' /\ delivered'[run[e].key] # Never
<1> DEFINE k == run[e].key
<1>0. /\ run[e] \in Run /\ k \in Keys /\ now \in Times /\ Never \notin Times /\ now \in Nat
      /\ digest \in [Keys -> Digest] /\ delivered \in [Keys -> Times \cup {Never}]
      /\ bodiless \in BOOLEAN /\ RowsAreSound
  BY AboutRun, TimesArePositive DEF DeliveryInv, TypeOK
<1>1. delivered' = [delivered EXCEPT ![k] = IF delivered[k] = Never THEN now ELSE delivered[k]]
  BY <1>0 DEF Posted
<1>2. delivered' \in [Keys -> Times \cup {Never}] /\ delivered'[k] # Never
  BY <1>0, <1>1
<1>3. \A q \in Keys : /\ delivered[q] # Never => delivered'[q] = delivered[q]
                      /\ delivered'[q] = delivered[q] \/ delivered'[q] = now
  BY <1>0, <1>1
<1>4. RowsStay
  BY <1>3 DEF RowsStay
<1>5. \A q \in Keys : digest[q].start \in Int /\ digest[q].end \in Nat
  BY <1>0 DEF Digest
<1>6. \A q \in Keys : RowIsSound(q, digest', delivered', now')
  <2> TAKE q \in Keys
  <2>1. RowIsSound(q, digest, delivered, now)
    BY <1>0 DEF RowsAreSound
  <2>2. delivered'[q] <= now
    BY <1>0, <1>3, <2>1 DEF RowIsSound
  <2>3. digest[q].status = "sent" => delivered'[q] # Never /\ delivered'[q] <= digest[q].sentAt
    BY <1>3, <2>1 DEF RowIsSound
  <2>4. digest[q].status # "none" => Follows(delivered', q, digest[q].start, digest[q].end)
    BY <1>4, <1>5, <2>1, FollowsStays DEF RowIsSound
  <2> QED BY <2>2, <2>3, <2>4 DEF RowIsSound
<1>7. bodiless' \in BOOLEAN
  BY <1>0 DEF Posted
<1> QED BY <1>0, <1>2, <1>4, <1>6, <1>7 DEF RowsAreSound

LEMMA MailInv ==
  ASSUME DeliveryInv, NEW e \in Executors, Mail(e) \/ MailFails(e) \/ MarkSentFails(e)
  PROVE  DeliveryInv'
<1> DEFINE k == run[e].key
<1>0. /\ TypeOK /\ run[e] \in Run /\ k \in Keys /\ Built(digest[k]) /\ bodiless \in BOOLEAN
      /\ UNCHANGED <<now, digest, job, sweep>> /\ "sent" \in PcSet /\ "failed" \in PcSet
  BY AboutRun DEF Mail, MailFails, MarkSentFails, TypeOK, RunIsSound, PcSet
<1>1. CASE Mail(e)
  <2>1. /\ digest' \in [Keys -> Digest] /\ delivered' \in [Keys -> Times \cup {Never}]
        /\ bodiless' \in BOOLEAN /\ RowsStay /\ RowsAreSound' /\ delivered'[k] # Never
    BY <1>0, <1>1, PostedRows DEF Mail
  <2>2. Goes(e, "sent")
    BY <1>0, <1>1, GotoGoes DEF Mail
  <2> QED BY <1>0, <2>1, <2>2, GoesOn
<1>2. CASE MailFails(e) \/ MarkSentFails(e)
  <2>1. /\ digest' \in [Keys -> Digest] /\ delivered' \in [Keys -> Times \cup {Never}]
        /\ bodiless' \in BOOLEAN /\ RowsStay /\ RowsAreSound'
    <3>1. CASE delivered' = delivered /\ bodiless' = bodiless
      BY <1>0, <3>1, NothingWritten
    <3>2. CASE ~ (delivered' = delivered /\ bodiless' = bodiless)
      BY <1>0, <1>2, <3>2, PostedRows DEF MailFails, MarkSentFails
    <3> QED BY <3>1, <3>2
  <2>2. Goes(e, "failed")
    BY <1>0, <1>2, GotoGoes DEF MailFails, MarkSentFails
  <2> QED BY <1>0, <2>1, <2>2, GoesOn
<1> QED BY <1>1, <1>2

LEMMA MarkSentInv == ASSUME DeliveryInv, NEW e \in Executors, MarkSent(e) PROVE DeliveryInv'
<1> DEFINE k == run[e].key
           row == [digest[k] EXCEPT !.status = "sent", !.sentAt = now]
<1>0. /\ TypeOK /\ run[e] \in Run /\ k \in Keys /\ digest[k] \in Digest
      /\ digest \in [Keys -> Digest] /\ Built(digest[k]) /\ delivered[k] # Never
      /\ now \in Times /\ RowIsSound(k, digest, delivered, now) /\ Completes(e)
      /\ UNCHANGED <<now, sweep, delivered, bodiless>> /\ bodiless' \in BOOLEAN
  BY AboutRun DEF MarkSent, TypeOK, RunIsSound
<1>1. /\ row \in Digest /\ row.status = "sent" /\ row.sentAt = now
      /\ row.start = digest[k].start /\ row.end = digest[k].end
  BY <1>0 DEF Digest
<1>2. digest' = [digest EXCEPT ![k] = row]
  BY <1>0 DEF MarkSent
<1>3. Follows(delivered, k, row.start, row.end) /\ delivered[k] <= row.sentAt /\ Built(row)
  BY <1>0, <1>1 DEF RowIsSound, Built
<1> HIDE DEF row
<1>4. /\ digest' \in [Keys -> Digest] /\ delivered' \in [Keys -> Times \cup {Never}]
      /\ RowsStay /\ RowsAreSound'
  BY <1>0, <1>1, <1>2, <1>3, RowWritten
<1> QED BY <1>0, <1>4, ExecutionStep

LEMMA MarkFailedInv == ASSUME DeliveryInv, NEW e \in Executors, MarkFailed(e) PROVE DeliveryInv'
<1> DEFINE k == run[e].key
           row == [digest[k] EXCEPT !.status = "failed"]
<1>0. /\ TypeOK /\ run[e] \in Run /\ k \in Keys /\ digest[k] \in Digest
      /\ digest \in [Keys -> Digest] /\ Built(digest[k])
      /\ RowIsSound(k, digest, delivered, now) /\ Throws(e)
      /\ UNCHANGED <<now, sweep, delivered, bodiless>> /\ bodiless' \in BOOLEAN
  BY AboutRun DEF MarkFailed, TypeOK, RunIsSound
<1>1. /\ row \in Digest /\ row.status = "failed"
      /\ row.start = digest[k].start /\ row.end = digest[k].end
  BY <1>0 DEF Digest
<1>2. digest' = [digest EXCEPT ![k] = row] \/ digest' = digest
  BY <1>0 DEF MarkFailed
<1>3. Follows(delivered, k, row.start, row.end) /\ Built(row)
  BY <1>0, <1>1 DEF RowIsSound, Built
<1> HIDE DEF row
<1>4. /\ digest' \in [Keys -> Digest] /\ delivered' \in [Keys -> Times \cup {Never}]
      /\ RowsStay /\ RowsAreSound'
  BY <1>0, <1>1, <1>2, <1>3, RowWritten, NothingWritten
<1> QED BY <1>0, <1>4, ExecutionStep

LEMMA BuildFailsInv == ASSUME DeliveryInv, NEW e \in Executors, BuildFails(e) PROVE DeliveryInv'
<1>1. Throws(e) /\ UNCHANGED <<now, digest, sweep, delivered, bodiless>>
  BY DEF BuildFails
<1>2. bodiless' \in BOOLEAN
  BY <1>1 DEF DeliveryInv, TypeOK
<1> QED BY <1>1, <1>2, NothingWritten, ExecutionStep

LEMMA NextInv == ASSUME DeliveryInv, [Next]_vars PROVE DeliveryInv'
<1>1. CASE Tick
  BY <1>1, TickInv
<1>2. CASE Crash
  BY <1>2, CrashInv
<1>3. CASE \E s \in Sweepers : SweepLooks(s) \/ SweepRemoves(s) \/ SweepAdds(s)
  BY <1>3, SweepInv
<1>4. CASE \E w \in Workers, j \in Jobs : Take(w, j)
  BY <1>4, TakeInv
<1>5. CASE \E j \in Jobs : StallDetected(j)
  BY <1>5, StallInv
<1>6. CASE \E p \in Previews : TriggerPreview(p)
  BY <1>6, TriggerInv
<1>7. CASE \E k \in Keys : Resend(k)
  BY <1>7, QueueInv
<1>8. ASSUME NEW e \in Executors, RunStep(e) \/ BuildFails(e) \/ MailFails(e) \/ MarkSentFails(e)
      PROVE  DeliveryInv'
  <2>1. CASE QueuePreview(e)
    BY <2>1, QueueInv
  <2> QED BY <1>8, <2>1, PlanInv, InsertInv, StoreInv, LoadInv, MailInv, MarkSentInv, MarkFailedInv,
             BuildFailsInv DEF RunStep
<1>9. CASE UNCHANGED vars
  BY <1>9 DEF vars, DeliveryInv, TypeOK, RowsAreSound, JobsAreSound, RunsAreSound, SweepsAreSound
<1> QED BY <1>1, <1>2, <1>3, <1>4, <1>5, <1>6, <1>7, <1>8, <1>9 DEF Next

-----------------------------------------------------------------------------
(***************************************************************************)
(* Theorems of the specification.                                          *)
(***************************************************************************)

LEMMA Invariance == Spec => []DeliveryInv
<1>1. Init => DeliveryInv
  BY InitInv
<1>2. DeliveryInv /\ [Next]_vars => DeliveryInv'
  BY NextInv
<1> QED BY <1>1, <1>2, PTL DEF Spec

(* Every variable keeps its type. *)
THEOREM DigestTypes == Spec => []TypeOK
<1>1. DeliveryInv => TypeOK
  BY DEF DeliveryInv
<1> QED BY <1>1, Invariance, PTL

(* PersonalDigestBuilderService's period: one shorter than the cap begins no *)
(* earlier than the first mail of another scheduled digest, so previews and  *)
(* unsent digests never shorten it.                                          *)
THEOREM PeriodsFollow == Spec => []PeriodsFollowScheduledMail
<1>1. DeliveryInv => PeriodsFollowScheduledMail
  BY DEF DeliveryInv, RowsAreSound, RowIsSound, Follows, PeriodsFollowScheduledMail, Keys
<1> QED BY <1>1, Invariance, PTL

(* The steps that write a row, and what they leave of it. *)
Rewritten(k, row) ==
  /\ k \in Keys /\ digest' = [digest EXCEPT ![k] = row]
  /\ Built(digest[k]) /\ Built(row)
  /\ row.start = digest[k].start /\ row.end = digest[k].end
  /\ digest[k].full => row.full

LEMMA DigestWrites ==
  ASSUME DeliveryInv, [Next]_vars
  PROVE  \/ digest' = digest
         \/ \E e \in Executors : Insert(e)
         \/ /\ delivered' = delivered
            /\ \E k \in Keys : \E row \in Digest :
                 Rewritten(k, row) /\ (row.status = "sent" => delivered[k] # Never)
<1> SUFFICES ASSUME NEW e \in Executors, Store(e) \/ MarkSent(e) \/ MarkFailed(e), digest' # digest
             PROVE  /\ delivered' = delivered
                    /\ \E k \in Keys : \E row \in Digest :
                         Rewritten(k, row) /\ (row.status = "sent" => delivered[k] # Never)
  BY Zenon DEF Next, vars, RunStep, Tick, Crash, SweepLooks, SweepRemoves, SweepAdds, Take,
     StallDetected, TriggerPreview, Resend, PlanStored, PlanNew, QueuePreview, Load, Mail,
     BuildFails, MailFails, MarkSentFails
<1> DEFINE k == run[e].key
<1>1. /\ k \in Keys /\ digest[k] \in Digest /\ digest \in [Keys -> Digest] /\ now \in Times
      /\ Built(digest[k]) /\ (run[e].pc = "sent" => delivered[k] # Never) /\ delivered' = delivered
  BY AboutRun DEF Store, MarkSent, MarkFailed, DeliveryInv, TypeOK, RunIsSound
<1>2. CASE Store(e)
  <2> DEFINE row == [digest[k] EXCEPT !.full = TRUE, !.status = "draft", !.sentAt = Never]
  <2>1. row \in Digest /\ Built(row) /\ row.status = "draft" /\ row.full
        /\ row.start = digest[k].start /\ row.end = digest[k].end
    BY <1>1 DEF Digest, Built
  <2>2. digest' = [digest EXCEPT ![k] = row]
    BY <1>1, <1>2 DEF Store
  <2> HIDE DEF row
  <2> QED BY <1>1, <2>1, <2>2 DEF Rewritten
<1>3. CASE MarkSent(e)
  <2> DEFINE row == [digest[k] EXCEPT !.status = "sent", !.sentAt = now]
  <2>1. row \in Digest /\ Built(row) /\ row.full = digest[k].full
        /\ row.start = digest[k].start /\ row.end = digest[k].end
    BY <1>1 DEF Digest, Built
  <2>2. digest' = [digest EXCEPT ![k] = row] /\ run[e].pc = "sent"
    BY <1>1, <1>3 DEF MarkSent
  <2> HIDE DEF row
  <2> QED BY <1>1, <2>1, <2>2 DEF Rewritten
<1>4. CASE MarkFailed(e)
  <2> DEFINE row == [digest[k] EXCEPT !.status = "failed"]
  <2>1. row \in Digest /\ Built(row) /\ row.full = digest[k].full /\ row.status = "failed"
        /\ row.start = digest[k].start /\ row.end = digest[k].end
    BY <1>1 DEF Digest, Built
  <2>2. digest' = [digest EXCEPT ![k] = row]
    BY <1>1, <1>4 DEF MarkFailed
  <2> HIDE DEF row
  <2> QED BY <1>1, <2>1, <2>2 DEF Rewritten
<1> QED BY <1>2, <1>3, <1>4

LEMMA KeptStep == DeliveryInv /\ [Next]_vars => KeepsBuilt
<1> SUFFICES ASSUME DeliveryInv, [Next]_vars PROVE KeepsBuilt
  OBVIOUS
<1>0. digest \in [Keys -> Digest]
  BY DEF DeliveryInv, TypeOK
<1>1. CASE digest' = digest
  BY <1>1 DEF KeepsBuilt
<1>2. ASSUME NEW e \in Executors, Insert(e) PROVE KeepsBuilt
  BY <1>0, <1>2 DEF Insert, KeepsBuilt
<1>3. ASSUME NEW k \in Keys, NEW row \in Digest, Rewritten(k, row) PROVE KeepsBuilt
  BY <1>0, <1>3 DEF Rewritten, KeepsBuilt
<1> QED BY <1>1, <1>2, <1>3, DigestWrites, Zenon

(* README, "A unique (user, type, localPeriod) identity makes generation     *)
(* idempotent": the period and the bodies of a stored digest never change.   *)
THEOREM BuiltDigestsStay == Spec => GeneratedOnce
BY KeptStep, Invariance, PTL DEF Spec, GeneratedOnce

-----------------------------------------------------------------------------
(***************************************************************************)
(* The refinement of DigestPromise.                                        *)
(***************************************************************************)

PeriodOf(row) == IF row.status = "none" THEN None ELSE <<row.start, row.end>>

LEMMA PeriodIsASpan ==
  \A row \in Digest : row.status # "none" => PeriodOf(row) \in Int \X Nat /\ PeriodOf(row) # None
<1> SUFFICES ASSUME NEW row \in Digest, row.status # "none"
             PROVE  PeriodOf(row) \in Int \X Nat /\ PeriodOf(row) # None
  OBVIOUS
<1>1. row.start \in Int /\ row.end \in Nat
  BY DEF Digest
<1>2. PeriodOf(row) = <<row.start, row.end>>
  BY DEF PeriodOf
<1>3. <<row.start, row.end>> \in Int \X Nat
  BY <1>1
<1> QED BY <1>2, <1>3, NamesAssumption

LEMMA PromisedInit == Init => Promise!Init
BY DEF Init, Promise!Init, NoDigest

(* A generated digest. *)
LEMMA InsertGenerates ==
  ASSUME DeliveryInv, NEW e \in Executors, Insert(e), digest' # digest,
         NEW k \in Keys, k = run[e].key
  PROVE  Promise!Generate(k)
<1>1. /\ run[e] \in Run /\ digest \in [Keys -> Digest] /\ NoDigest \in Digest
      /\ delivered' = delivered /\ digest[k].status = "none"
  BY AboutRun, IdleIsSound DEF Insert, DeliveryInv, TypeOK
<1>2. PICK status \in {"draft", "skipped_empty"} : digest' = [digest EXCEPT ![k] = Row(e, status)]
  BY DEF Insert
<1> DEFINE row == Row(e, status)
<1>3. row \in Digest /\ row.status = status
  BY <1>1 DEF Row, Digest, Run
<1> HIDE DEF row
<1>4. digest'[k] = row /\ \A q \in Keys \ {k} : digest'[q] = digest[q]
  BY <1>1, <1>2 DEF row
<1>5. PeriodOf(row) \in Int \X Nat
  BY <1>3, PeriodIsASpan
<1>6. [q \in Keys |-> PeriodOf(digest'[q])]
        = [[q \in Keys |-> PeriodOf(digest[q])] EXCEPT ![k] = PeriodOf(row)]
  BY <1>1, <1>4
<1>7. {q \in Keys : digest'[q].status = "skipped_empty"}
        \in {{q \in Keys : digest[q].status = "skipped_empty"},
             {q \in Keys : digest[q].status = "skipped_empty"} \cup {k}}
  <2>1. CASE status = "draft"
    BY <1>1, <1>3, <1>4, <2>1
  <2>2. CASE status = "skipped_empty"
    BY <1>1, <1>3, <1>4, <2>2
  <2> QED BY <2>1, <2>2
<1>8. {q \in Keys : digest'[q].status = "sent"} = {q \in Keys : digest[q].status = "sent"}
  BY <1>1, <1>3, <1>4
<1> QED BY <1>1, <1>4, <1>5, <1>6, <1>7, <1>8 DEF Promise!Generate, Promise!Span, PeriodOf

(* A digest that counts as sent, or no longer does. *)
LEMMA RewrittenCounts ==
  ASSUME DeliveryInv, NEW k \in Keys, NEW row \in Digest, Rewritten(k, row),
         row.status = "sent" => delivered[k] # Never, delivered' = delivered
  PROVE  Promise!CountAsSent(k) \/ Promise!CountAsUnsent(k)
<1>1. digest \in [Keys -> Digest]
  BY DEF DeliveryInv, TypeOK
<1>2. digest'[k] = row /\ \A q \in Keys \ {k} : digest'[q] = digest[q]
  BY <1>1 DEF Rewritten
<1>3. [q \in Keys |-> PeriodOf(digest'[q])] = [q \in Keys |-> PeriodOf(digest[q])]
  <2>1. PeriodOf(row) = PeriodOf(digest[k])
    BY DEF Rewritten, Built, PeriodOf
  <2> QED BY <1>2, <2>1
<1>4. {q \in Keys : digest'[q].status = "skipped_empty"}
        = {q \in Keys : digest[q].status = "skipped_empty"}
  BY <1>2 DEF Rewritten, Built
<1>5. CASE row.status = "sent"
  <2>1. {q \in Keys : digest'[q].status = "sent"} = {q \in Keys : digest[q].status = "sent"} \cup {k}
    BY <1>2, <1>5
  <2> QED BY <1>3, <1>4, <1>5, <2>1 DEF Promise!CountAsSent, PeriodOf
<1>6. CASE row.status # "sent"
  <2>1. {q \in Keys : digest'[q].status = "sent"} = {q \in Keys : digest[q].status = "sent"} \ {k}
    BY <1>2, <1>6
  <2> QED BY <1>3, <1>4, <2>1 DEF Promise!CountAsUnsent, PeriodOf
<1> QED BY <1>5, <1>6

(* A mail, and every step that neither writes a row nor mails. *)
LEMMA PostedMails ==
  ASSUME DeliveryInv, NEW e \in Executors, run[e].pc = "mail", Posted(e), digest' = digest,
         NEW k \in Keys, k = run[e].key
  PROVE  Promise!Mail(k)
<1>1. /\ digest[k] \in Digest /\ Built(digest[k])
      /\ delivered \in [Keys -> Times \cup {Never}] /\ now \in Times /\ Never \notin Times
  BY AboutRun, TimesArePositive DEF DeliveryInv, TypeOK, RunIsSound
<1>2. delivered' = [delivered EXCEPT ![k] = IF delivered[k] = Never THEN now ELSE delivered[k]]
  BY <1>1 DEF Posted
<1>3. \A q \in Keys : delivered'[q] # Never <=> delivered[q] # Never \/ q = k
  BY <1>1, <1>2
<1>4. {q \in Keys : delivered'[q] # Never} = {q \in Keys : delivered[q] # Never} \cup {k}
  BY <1>1, <1>3
<1>5. PeriodOf(digest[k]) # None /\ digest[k].status # "skipped_empty"
  BY <1>1, PeriodIsASpan DEF Built
<1> QED BY <1>1, <1>4, <1>5 DEF Promise!Mail, PeriodOf

LEMMA PromisedStep == DeliveryInv /\ [Next]_vars => [Promise!Next]_(Promise!vars)
<1> SUFFICES ASSUME DeliveryInv, [Next]_vars PROVE [Promise!Next]_(Promise!vars)
  OBVIOUS
<1>1. CASE digest' = digest /\ delivered' = delivered
  BY <1>1 DEF Promise!vars
<1>2. CASE digest' # digest
  <2>1. ASSUME NEW e \in Executors, Insert(e) PROVE Promise!Next
    <3>1. PICK k \in Keys : k = run[e].key
      BY <2>1, AboutRun DEF Insert
    <3> QED BY <1>2, <2>1, <3>1, InsertGenerates DEF Promise!Next
  <2>2. ASSUME NEW k \in Keys, NEW row \in Digest, Rewritten(k, row),
               row.status = "sent" => delivered[k] # Never, delivered' = delivered
        PROVE  Promise!Next
    BY <2>2, RewrittenCounts DEF Promise!Next
  <2> QED BY <1>2, <2>1, <2>2, DigestWrites
<1>3. CASE digest' = digest /\ delivered' # delivered
  <2>1. PICK e \in Executors : Mail(e) \/ MailFails(e)
    BY <1>3, Zenon
    DEF Next, vars, RunStep, Tick, Crash, SweepLooks, SweepRemoves, SweepAdds, Take, StallDetected,
        TriggerPreview, Resend, PlanStored, PlanNew, Insert, Store, QueuePreview, Load, MarkSent,
        MarkFailed, BuildFails, MarkSentFails
  <2>2. run[e].pc = "mail" /\ Posted(e)
    BY <1>3, <2>1 DEF Mail, MailFails
  <2>3. PICK k \in Keys : k = run[e].key
    BY <2>2, AboutRun
  <2>4. Promise!Mail(k)
    BY <1>3, <2>2, <2>3, PostedMails, Zenon
  <2>5. Promise!Next
    BY <2>4, Zenon DEF Promise!Next
  <2> QED BY <2>5
<1> QED BY <1>1, <1>2, <1>3

(* DigestDelivery implements DigestPromise: through sweeps, retries, crashes *)
(* and lost locks, a period is generated once, an empty digest is never      *)
(* mailed and only a mailed one counts as sent.                              *)
THEOREM ImplementsPromise == Spec => KeepsPromise
<1>1. Init => Promise!Init
  BY PromisedInit
<1>2. DeliveryInv /\ [Next]_vars => [Promise!Next]_(Promise!vars)
  BY PromisedStep
<1> QED BY <1>1, <1>2, Invariance, PTL DEF Spec, KeepsPromise, Promise!Spec

-----------------------------------------------------------------------------
(***************************************************************************)
(* The feed's cache: the inductive invariant of FeedCache.                 *)
(***************************************************************************)

(* FeedCache's bounds on what TLC explores; the theorems hold for all.       *)
CacheBounds == MaxChanges \in Nat /\ MaxArticles \in Nat /\ MaxReads \in Nat


ReaderRecord == [pc : {"idle", "versions", "lookup", "articles", "profile", "store", "answered"},
                 scope : C!Scopes, user : Nat, stream : Nat, page : C!Page, since : Nat]
WriterRecord == [pc : {"idle", "announce"}, change : 0 .. MaxChanges]

RecordsOK ==
  /\ reader \in [Readers -> ReaderRecord]
  /\ writer \in [Writers -> WriterRecord]
  /\ \A w \in Writers : writer[w].change <= profile

(* The reader has read a user's version. *)
Versioned(r) == reader[r].scope = "personal" /\ reader[r].user # C!Unread

(* A page that shows the changes up to p may be kept under the user's        *)
(* version u: whoever still looks for it there was promised no more.         *)
Serves(u, p) ==
  /\ u <= version["user"]
  /\ u = version["user"] => p >= announced
  /\ \A r \in Readers : Versioned(r) /\ reader[r].user <= u => p >= reader[r].since

PagesServe ==
  \A k \in DOMAIN page : k[1] = "personal" => k[2] \in Nat /\ Serves(k[2], page[k].page.profile)

ReadersKnow ==
  \A r \in Readers :
    /\ reader[r].since <= announced
    /\ Versioned(r) => reader[r].user <= version["user"]
    /\ reader[r].pc \in {"lookup", "articles", "profile", "store"} => reader[r].user # C!Unread
    /\ reader[r].pc = "store" /\ reader[r].scope = "personal"
         => Serves(reader[r].user, reader[r].page.profile)

CacheInv == PagesServe /\ ReadersKnow /\ C!ChangesShow

CacheHolds == C!TypeOK /\ RecordsOK /\ CacheInv

(***************************************************************************)
(* Types.                                                                  *)
(***************************************************************************)

LEMMA FreeType == CacheBounds => C!Free \in ReaderRecord
BY DEF CacheBounds, C!Free, ReaderRecord, C!Unread, C!Scopes, C!Page, C!Empty

LEMMA RecordsImply ==
  ASSUME RecordsOK
  PROVE  /\ \A r \in Readers :
              /\ reader[r].pc \in {"idle", "versions", "lookup", "articles", "profile", "store", "answered"}
              /\ reader[r].scope \in C!Scopes
              /\ reader[r].page \in C!Page
         /\ \A w \in Writers : writer[w].pc \in {"idle", "announce"} /\ writer[w].change \in 0 .. MaxChanges
BY DEF RecordsOK, ReaderRecord, WriterRecord

LEMMA InitTypes == CacheBounds /\ C!Init => C!TypeOK /\ RecordsOK
<1> SUFFICES ASSUME CacheBounds, C!Init PROVE C!TypeOK /\ RecordsOK
  OBVIOUS
<1>1. RecordsOK
  <2>1. [pc |-> "idle", change |-> 0] \in WriterRecord
    BY DEF CacheBounds, WriterRecord
  <2>2. \A w \in Writers : writer[w] = [pc |-> "idle", change |-> 0]
    BY DEF C!Init
  <2>3. \A w \in Writers : writer[w].change <= profile
    BY <2>2 DEF C!Init
  <2> QED BY <2>1, <2>3, FreeType DEF C!Init, RecordsOK
<1>2. /\ profile \in 0 .. MaxChanges /\ analyzed \in 0 .. ingested /\ ingested \in 0 .. MaxArticles
      /\ reads \in 0 .. MaxReads /\ announced \in 0 .. profile
  BY DEF C!Init, CacheBounds
<1>3. version \in [{"user", "stream"} -> Nat] /\ DOMAIN page = {}
  BY DEF C!Init
<1> QED BY <1>1, <1>2, <1>3, RecordsImply DEF C!TypeOK

(* Steps of readers. *)
LEMMA BecomeType ==
  ASSUME RecordsOK, NEW r \in Readers, NEW new \in ReaderRecord, C!Become(r, new), UNCHANGED <<writer, profile>>
  PROVE  /\ RecordsOK'
         /\ reader'[r] = new /\ \A q \in Readers \ {r} : reader'[q] = reader[q]
BY DEF RecordsOK, C!Become

LEMMA AnswerType ==
  ASSUME CacheBounds, RecordsOK, NEW r \in Readers, NEW content \in C!Page, C!Answer(r, content),
         UNCHANGED <<writer, profile>>
  PROVE  /\ RecordsOK'
         /\ reader'[r].pc = "answered" /\ reader'[r].scope = reader[r].scope
         /\ reader'[r].page = content /\ reader'[r].since = reader[r].since /\ reader'[r].user = C!Unread
         /\ \A q \in Readers \ {r} : reader'[q] = reader[q]
<1> DEFINE new == [C!Free EXCEPT !.pc = "answered", !.scope = reader[r].scope, !.page = content,
                               !.since = reader[r].since]
<1>1. new \in ReaderRecord
  BY FreeType DEF RecordsOK, ReaderRecord
<1>2. /\ new.pc = "answered" /\ new.scope = reader[r].scope
      /\ new.page = content /\ new.since = reader[r].since /\ new.user = C!Unread
  BY DEF C!Free
<1>3. C!Become(r, new)
  BY DEF C!Answer
<1> HIDE DEF new
<1> QED BY <1>1, <1>2, <1>3, BecomeType

(***************************************************************************)
(* What is served stays served.                                            *)
(***************************************************************************)

(* Readers may give up a version, read the current one, or be promised no    *)
(* more than has been announced.                                             *)
ReadersStay ==
  \A r \in Readers :
    Versioned(r)' =>
      \/ Versioned(r) /\ reader'[r].user = reader[r].user /\ reader'[r].since = reader[r].since
      \/ reader'[r].user = version["user"] /\ reader'[r].since <= announced

LEMMA ServesStays ==
  ASSUME C!TypeOK, RecordsOK, RecordsOK', UNCHANGED <<version, announced>>, ReadersStay,
         NEW u \in Nat, NEW p \in Nat, Serves(u, p)
  PROVE  Serves(u, p)'
<1>1. version["user"] \in Nat /\ announced \in Nat
  BY DEF C!TypeOK
<1>2. ASSUME NEW r \in Readers, Versioned(r)', reader'[r].user <= u PROVE p >= reader'[r].since
  <2>1. CASE Versioned(r) /\ reader'[r].user = reader[r].user /\ reader'[r].since = reader[r].since
    BY <1>2, <2>1 DEF Serves
  <2>2. CASE reader'[r].user = version["user"] /\ reader'[r].since <= announced
    <3>1. reader'[r].since \in Nat
      BY DEF RecordsOK, ReaderRecord
    <3>2. u = version["user"]
      BY <1>1, <1>2, <2>2 DEF Serves
    <3> QED BY <1>1, <2>2, <3>1, <3>2 DEF Serves
  <2> QED BY <1>2, <2>1, <2>2 DEF ReadersStay
<1> QED BY <1>2 DEF Serves

(* A step of one reader, given what it comes to know and what it stores. *)
LEMMA ReaderMoves ==
  ASSUME C!TypeOK, C!TypeOK', RecordsOK, RecordsOK', CacheInv, UNCHANGED <<version, announced>>,
         NEW r \in Readers, \A q \in Readers \ {r} : reader'[q] = reader[q],
         reader'[r].since <= announced,
         Versioned(r)' =>
           \/ Versioned(r) /\ reader'[r].user = reader[r].user /\ reader'[r].since = reader[r].since
           \/ reader'[r].user = version["user"],
         reader'[r].pc \in {"lookup", "articles", "profile", "store"} => reader'[r].user # C!Unread,
         reader'[r].pc = "store" /\ reader'[r].scope = "personal"
           => Serves(reader'[r].user, reader'[r].page.profile),
         reader'[r].pc = "answered" /\ reader'[r].scope = "personal"
           => reader'[r].page.profile >= reader'[r].since,
         \A k \in DOMAIN page' : k[1] = "personal" => k[2] \in Nat /\ Serves(k[2], page'[k].page.profile)
  PROVE  CacheInv'
<1>1. version["user"] \in Nat
  BY DEF C!TypeOK
<1>2. ReadersStay
  BY DEF ReadersStay, Versioned
<1>3. PagesServe'
  <2>1. \A k \in DOMAIN page' : page'[k].page.profile \in Nat
    BY DEF C!TypeOK, C!Page
  <2> QED BY <1>2, <2>1, ServesStays DEF PagesServe
<1>4. ReadersKnow'
  <2>1. ASSUME NEW q \in Readers
        PROVE  /\ reader'[q].since <= announced
               /\ Versioned(q)' => reader'[q].user <= version["user"]
               /\ reader'[q].pc \in {"lookup", "articles", "profile", "store"} => reader'[q].user # C!Unread
               /\ reader'[q].pc = "store" /\ reader'[q].scope = "personal"
                    => Serves(reader'[q].user, reader'[q].page.profile)
    BY <1>1 DEF CacheInv, ReadersKnow, Versioned
  <2>2. \A q \in Readers : reader'[q].user \in Nat /\ reader'[q].page.profile \in Nat
    BY DEF RecordsOK, ReaderRecord, C!Page
  <2>3. UNCHANGED C!Unread
    BY DEF C!Unread
  <2> QED BY <1>2, <2>1, <2>2, <2>3, ServesStays DEF ReadersKnow
<1>5. C!ChangesShow'
  BY DEF CacheInv, C!ChangesShow
<1> QED BY <1>3, <1>4, <1>5 DEF CacheInv

LEMMA PagesAsBefore ==
  ASSUME CacheInv, UNCHANGED page
  PROVE  \A k \in DOMAIN page' : k[1] = "personal" => k[2] \in Nat /\ Serves(k[2], page'[k].page.profile)
BY DEF CacheInv, PagesServe

(* What a step of a reader leaves alone. *)
LEMMA ReaderTypes ==
  ASSUME C!TypeOK, RecordsOK', UNCHANGED <<profile, ingested, analyzed, version, announced>>,
         reads' \in 0 .. MaxReads,
         \A k \in DOMAIN page' : page'[k].page \in C!Page /\ page'[k].expires \in BOOLEAN
  PROVE  C!TypeOK'
<1>1. /\ \A r \in Readers :
           /\ reader'[r].pc \in {"idle", "versions", "lookup", "articles", "profile", "store", "answered"}
           /\ reader'[r].scope \in C!Scopes
           /\ reader'[r].page \in C!Page
      /\ \A w \in Writers : writer'[w].pc \in {"idle", "announce"} /\ writer'[w].change \in 0 .. MaxChanges
  BY DEF RecordsOK, ReaderRecord, WriterRecord
<1> QED BY <1>1 DEF C!TypeOK

LEMMA AskStep ==
  ASSUME CacheBounds, C!TypeOK, RecordsOK, CacheInv, NEW r \in Readers, C!Ask(r)
  PROVE  C!TypeOK' /\ RecordsOK' /\ CacheInv'
<1>1. PICK scope \in C!Scopes :
        C!Become(r, [C!Free EXCEPT !.pc = "versions", !.scope = scope, !.since = announced,
                               !.user = IF scope = "public" THEN 0 ELSE C!Unread])
  BY DEF C!Ask
<1> DEFINE new == [C!Free EXCEPT !.pc = "versions", !.scope = scope, !.since = announced,
                               !.user = IF scope = "public" THEN 0 ELSE C!Unread]
<1>2. new \in ReaderRecord
  <2>1. C!Unread \in Nat /\ announced \in Nat
    BY DEF C!TypeOK, CacheBounds, C!Unread
  <2> QED BY <2>1, FreeType DEF ReaderRecord
<1>3. new.pc = "versions" /\ new.since = announced /\ (new.scope = "personal" => new.user = C!Unread)
  BY DEF C!Free, C!Scopes
<1> HIDE DEF new
<1>4. RecordsOK' /\ reader'[r] = new /\ \A q \in Readers \ {r} : reader'[q] = reader[q]
  BY <1>1, <1>2, BecomeType DEF C!Ask, C!data, new
<1>5. C!TypeOK'
  <2>1. reads' \in 0 .. MaxReads
    BY DEF C!Ask, C!TypeOK, CacheBounds
  <2> QED BY <1>4, <2>1, ReaderTypes DEF C!Ask, C!data, C!TypeOK
<1>6. announced \in Nat
  BY DEF C!TypeOK
<1> QED BY <1>3, <1>4, <1>5, <1>6, ReaderMoves, PagesAsBefore DEF C!Ask, C!data, Versioned

LEMMA ReadVersionStep ==
  ASSUME C!TypeOK, RecordsOK, CacheInv, NEW r \in Readers, C!ReadVersion(r)
  PROVE  C!TypeOK' /\ RecordsOK' /\ CacheInv'
<1>1. PICK new \in ReaderRecord :
        /\ C!Become(r, new) /\ new.scope = reader[r].scope /\ new.since = reader[r].since
        /\ new.user = reader[r].user \/ new.user = version["user"]
        /\ \/ new.pc = "versions"
           \/ new.pc = "lookup" /\ new.user # C!Unread
  <2>1. reader[r] \in ReaderRecord /\ version["user"] \in Nat /\ version["stream"] \in Nat
    BY DEF RecordsOK, C!TypeOK
  <2>2. reader[r].pc = "versions"
    BY DEF C!ReadVersion
  <2>3. CASE C!Become(r, [reader[r] EXCEPT !.user = version["user"]])
    <3>1. [reader[r] EXCEPT !.user = version["user"]] \in ReaderRecord
      BY <2>1 DEF ReaderRecord
    <3> QED BY <2>1, <2>2, <2>3, <3>1 DEF ReaderRecord
  <2>4. CASE C!Become(r, [reader[r] EXCEPT !.stream = version["stream"]])
    <3>1. [reader[r] EXCEPT !.stream = version["stream"]] \in ReaderRecord
      BY <2>1 DEF ReaderRecord
    <3> QED BY <2>1, <2>2, <2>4, <3>1 DEF ReaderRecord
  <2>5. CASE reader[r].user # C!Unread /\ C!Become(r, [reader[r] EXCEPT !.pc = "lookup"])
    <3>1. [reader[r] EXCEPT !.pc = "lookup"] \in ReaderRecord
      BY <2>1 DEF ReaderRecord
    <3> QED BY <2>1, <2>5, <3>1 DEF ReaderRecord
  <2> QED BY <2>3, <2>4, <2>5 DEF C!ReadVersion
<1>2. RecordsOK' /\ reader'[r] = new /\ \A q \in Readers \ {r} : reader'[q] = reader[q]
  BY <1>1, BecomeType DEF C!ReadVersion, C!data
<1>3. C!TypeOK'
  BY <1>2, ReaderTypes DEF C!ReadVersion, C!data, C!TypeOK
<1>4. reader'[r].since <= announced
  BY <1>1, <1>2 DEF CacheInv, ReadersKnow
<1>5. Versioned(r)' =>
           \/ Versioned(r) /\ reader'[r].user = reader[r].user /\ reader'[r].since = reader[r].since
           \/ reader'[r].user = version["user"]
  BY <1>1, <1>2 DEF Versioned, C!Unread
<1> QED BY <1>1, <1>2, <1>3, <1>4, <1>5, ReaderMoves, PagesAsBefore DEF C!ReadVersion

LEMMA LookupStep ==
  ASSUME CacheBounds, C!TypeOK, RecordsOK, CacheInv, NEW r \in Readers, C!Lookup(r)
  PROVE  C!TypeOK' /\ RecordsOK' /\ CacheInv'
<1>0. reader[r] \in ReaderRecord /\ reader[r].user # C!Unread /\ reader[r].since <= announced
  BY DEF C!Lookup, RecordsOK, CacheInv, ReadersKnow
<1>1. CASE C!Key(r) \in DOMAIN page
  <2>1. C!Answer(r, page[C!Key(r)].page) /\ page[C!Key(r)].page \in C!Page
    BY <1>1 DEF C!Lookup, C!TypeOK
  <2>2. /\ RecordsOK'
        /\ reader'[r].pc = "answered" /\ reader'[r].scope = reader[r].scope
        /\ reader'[r].page = page[C!Key(r)].page /\ reader'[r].since = reader[r].since
        /\ reader'[r].user = C!Unread
        /\ \A q \in Readers \ {r} : reader'[q] = reader[q]
    BY <2>1, AnswerType DEF C!Lookup, C!data
  <2>3. ASSUME reader[r].scope = "personal" PROVE page[C!Key(r)].page.profile >= reader[r].since
    <3>1. C!Key(r)[1] = "personal" /\ C!Key(r)[2] = reader[r].user
      BY <2>3 DEF C!Key
    <3>2. Serves(reader[r].user, page[C!Key(r)].page.profile)
      BY <1>1, <3>1 DEF CacheInv, PagesServe
    <3>3. reader[r].user \in Nat
      BY <1>0 DEF ReaderRecord
    <3> QED BY <1>0, <2>3, <3>2, <3>3 DEF Serves, Versioned
  <2>4. C!TypeOK'
    BY <2>2, ReaderTypes DEF C!Lookup, C!data, C!TypeOK
  <2> QED BY <1>0, <2>2, <2>3, <2>4, ReaderMoves, PagesAsBefore DEF C!Lookup, Versioned, C!Unread
<1>2. CASE C!Key(r) \notin DOMAIN page
  <2>1. C!Become(r, [reader[r] EXCEPT !.pc = "articles"]) /\ [reader[r] EXCEPT !.pc = "articles"] \in ReaderRecord
    BY <1>0, <1>2 DEF C!Lookup, ReaderRecord
  <2>2. RecordsOK' /\ reader'[r] = [reader[r] EXCEPT !.pc = "articles"]
        /\ \A q \in Readers \ {r} : reader'[q] = reader[q]
    BY <2>1, BecomeType DEF C!Lookup, C!data
  <2>3. /\ reader'[r].pc = "articles" /\ reader'[r].user = reader[r].user
        /\ reader'[r].scope = reader[r].scope /\ reader'[r].since = reader[r].since
    BY <1>0, <2>2 DEF ReaderRecord
  <2>4. C!TypeOK'
    BY <2>2, ReaderTypes DEF C!Lookup, C!data, C!TypeOK
  <2> QED BY <1>0, <2>2, <2>3, <2>4, ReaderMoves, PagesAsBefore DEF C!Lookup, Versioned, C!Unread
<1> QED BY <1>1, <1>2

LEMMA ReadPageStep ==
  ASSUME C!TypeOK, RecordsOK, CacheInv, NEW r \in Readers, C!ReadArticles(r) \/ C!ReadProfile(r)
  PROVE  C!TypeOK' /\ RecordsOK' /\ CacheInv'
<1>0. /\ reader[r] \in ReaderRecord /\ reader[r].user # C!Unread /\ reader[r].since <= announced
      /\ reader[r].user \in Nat /\ analyzed \in Nat /\ profile \in Nat /\ announced \in Nat
      /\ version["user"] \in Nat /\ profile >= announced
  BY DEF C!ReadArticles, C!ReadProfile, RecordsOK, CacheInv, ReadersKnow, C!TypeOK, ReaderRecord
<1>1. UNCHANGED <<version, announced, page, profile, ingested, analyzed, writer, reads>>
  BY DEF C!ReadArticles, C!ReadProfile, C!data
<1>2. \A q \in Readers : Versioned(q) /\ reader[q].user <= version["user"] => profile >= reader[q].since
  BY <1>0 DEF CacheInv, ReadersKnow, RecordsOK, ReaderRecord
<1>3. PICK new \in ReaderRecord :
        /\ C!Become(r, new) /\ new.scope = reader[r].scope /\ new.since = reader[r].since
        /\ new.user = reader[r].user
        /\ new.pc \in {"profile", "store"}
        /\ new.pc = "store" /\ new.scope = "personal" => new.page.profile = profile
  <2>1. CASE C!ReadArticles(r)
    <3> DEFINE pc == IF reader[r].scope = "personal" THEN "profile" ELSE "store"
               p  == [reader[r].page EXCEPT !.articles = analyzed]
    <3>1. p \in C!Page
      BY <1>0 DEF ReaderRecord, C!Page
    <3>2. C!Become(r, [reader[r] EXCEPT !.page = p, !.pc = pc])
      BY <2>1 DEF C!ReadArticles
    <3>3. pc \in {"profile", "store"} /\ (pc = "store" => reader[r].scope # "personal")
      OBVIOUS
    <3> HIDE DEF p, pc
    <3>4. [reader[r] EXCEPT !.page = p, !.pc = pc] \in ReaderRecord
      BY <1>0, <3>1, <3>3 DEF ReaderRecord
    <3> QED BY <1>0, <3>2, <3>3, <3>4 DEF ReaderRecord
  <2>2. CASE C!ReadProfile(r)
    <3> DEFINE p == [reader[r].page EXCEPT !.profile = profile]
    <3>1. p \in C!Page /\ p.profile = profile
      BY <1>0 DEF ReaderRecord, C!Page
    <3>2. C!Become(r, [reader[r] EXCEPT !.page = p, !.pc = "store"])
      BY <2>2 DEF C!ReadProfile
    <3> HIDE DEF p
    <3>3. [reader[r] EXCEPT !.page = p, !.pc = "store"] \in ReaderRecord
      BY <1>0, <3>1 DEF ReaderRecord
    <3> QED BY <1>0, <3>1, <3>2, <3>3 DEF ReaderRecord
  <2> QED BY <2>1, <2>2
<1>4. RecordsOK' /\ reader'[r] = new /\ \A q \in Readers \ {r} : reader'[q] = reader[q]
  BY <1>1, <1>3, BecomeType
<1>5. C!TypeOK'
  BY <1>1, <1>4, ReaderTypes DEF C!TypeOK
<1>6. new.scope = "personal" => Serves(new.user, profile)
  <2>1. new.scope = "personal" => new.user <= version["user"]
    BY <1>0, <1>3 DEF CacheInv, ReadersKnow, Versioned
  <2>2. ASSUME new.scope = "personal", NEW q \in Readers, Versioned(q), reader[q].user <= new.user
        PROVE  profile >= reader[q].since
    <3>1. reader[q].user <= version["user"]
      BY <2>2 DEF CacheInv, ReadersKnow
    <3> QED BY <1>2, <2>2, <3>1
  <2> QED BY <1>0, <2>1, <2>2 DEF Serves
<1>7. Versioned(r)' => Versioned(r) /\ reader'[r].user = reader[r].user /\ reader'[r].since = reader[r].since
  BY <1>3, <1>4 DEF Versioned, C!Unread
<1>8. reader'[r].pc = "store" /\ reader'[r].scope = "personal"
           => Serves(reader'[r].user, reader'[r].page.profile)
  BY <1>3, <1>4, <1>6
<1>9. UNCHANGED C!Unread
  BY DEF C!Unread
<1> QED BY <1>0, <1>1, <1>3, <1>4, <1>5, <1>7, <1>8, <1>9, ReaderMoves, PagesAsBefore

LEMMA StoreStep ==
  ASSUME CacheBounds, C!TypeOK, RecordsOK, CacheInv, NEW r \in Readers, C!Store(r)
  PROVE  C!TypeOK' /\ RecordsOK' /\ CacheInv'
<1>0. /\ reader[r].user # C!Unread /\ reader[r].since <= announced /\ reader[r].user \in Nat
      /\ reader[r].page \in C!Page
      /\ reader[r].scope = "personal" => Serves(reader[r].user, reader[r].page.profile)
  BY DEF C!Store, C!StoreAs, RecordsOK, CacheInv, ReadersKnow, ReaderRecord
<1>1. /\ RecordsOK'
      /\ reader'[r].pc = "answered" /\ reader'[r].scope = reader[r].scope
      /\ reader'[r].page = reader[r].page /\ reader'[r].since = reader[r].since
      /\ reader'[r].user = C!Unread
      /\ \A q \in Readers \ {r} : reader'[q] = reader[q]
  BY <1>0, AnswerType DEF C!Store, C!StoreAs, C!data
<1>2. \A k \in DOMAIN page' : IF k = C!Key(r) THEN page'[k] = [page |-> reader[r].page, expires |-> TRUE]
                              ELSE k \in DOMAIN page /\ page'[k] = page[k]
  BY DEF C!Store, C!StoreAs
<1>3. C!TypeOK'
  <2>1. \A k \in DOMAIN page' : page'[k].page \in C!Page /\ page'[k].expires \in BOOLEAN
    <3>1. ASSUME NEW k \in DOMAIN page', k = C!Key(r) PROVE page'[k].page \in C!Page /\ page'[k].expires \in BOOLEAN
      <4>1. page'[k] = [page |-> reader[r].page, expires |-> TRUE]
        BY <1>2, <3>1
      <4> QED BY <1>0, <4>1
    <3>2. ASSUME NEW k \in DOMAIN page', k # C!Key(r) PROVE page'[k].page \in C!Page /\ page'[k].expires \in BOOLEAN
      <4>1. k \in DOMAIN page /\ page'[k] = page[k]
        BY <1>2, <3>2
      <4> QED BY <4>1 DEF C!TypeOK
    <3> QED BY <3>1, <3>2
  <2> QED BY <1>1, <2>1, ReaderTypes DEF C!Store, C!StoreAs, C!data, C!TypeOK
<1>4. \A k \in DOMAIN page' : k[1] = "personal" => k[2] \in Nat /\ Serves(k[2], page'[k].page.profile)
  <2>1. C!Key(r)[1] = reader[r].scope /\ C!Key(r)[2] = reader[r].user
    BY DEF C!Key
  <2> QED BY <1>0, <1>2, <2>1 DEF CacheInv, PagesServe
<1>5. reader[r].scope = "personal" => reader[r].page.profile >= reader[r].since
  BY <1>0 DEF Serves, Versioned
<1> QED BY <1>0, <1>1, <1>3, <1>4, <1>5, ReaderMoves DEF C!Store, C!StoreAs, Versioned, C!Unread

LEMMA ReadFailsStep ==
  ASSUME CacheBounds, C!TypeOK, RecordsOK, CacheInv, NEW r \in Readers, C!ReadFails(r)
  PROVE  C!TypeOK' /\ RecordsOK' /\ CacheInv'
<1>1. RecordsOK' /\ reader'[r] = C!Free /\ \A q \in Readers \ {r} : reader'[q] = reader[q]
  BY FreeType, BecomeType DEF C!ReadFails, C!data
<1>2. C!TypeOK'
  BY <1>1, ReaderTypes DEF C!ReadFails, C!data, C!TypeOK
<1>3. reader'[r].pc = "idle" /\ reader'[r].since <= announced /\ reader'[r].user = C!Unread
  BY <1>1 DEF C!Free, C!TypeOK
<1> QED BY <1>1, <1>2, <1>3, ReaderMoves, PagesAsBefore DEF C!ReadFails, Versioned, C!Unread

(***************************************************************************)
(* Steps of the others, and the theorem.                                   *)
(***************************************************************************)

LEMMA ExpireStep ==
  ASSUME C!TypeOK, RecordsOK, CacheInv, NEW k \in DOMAIN page, C!Expire(k)
  PROVE  C!TypeOK' /\ RecordsOK' /\ CacheInv'
<1>1. \A j \in DOMAIN page' : j \in DOMAIN page /\ page'[j] = page[j]
  BY DEF C!Expire
<1>2. UNCHANGED <<profile, ingested, analyzed, version, reader, writer, reads, announced>>
  BY DEF C!Expire, C!data
<1>3. C!TypeOK' /\ RecordsOK'
  BY <1>1, <1>2 DEF C!TypeOK, RecordsOK
<1>4. \A u, p : Serves(u, p)' <=> Serves(u, p)
  BY <1>2 DEF Serves, Versioned, C!Unread
<1>5. PagesServe'
  BY <1>1, <1>4 DEF CacheInv, PagesServe
<1>6. ReadersKnow' /\ C!ChangesShow'
  BY <1>2, <1>4 DEF CacheInv, ReadersKnow, C!ChangesShow, Versioned, C!Unread
<1> QED BY <1>3, <1>5, <1>6 DEF CacheInv

(* Neither readers nor pages nor versions of users. *)
LEMMA QuietStep ==
  ASSUME CacheInv, UNCHANGED <<page, reader, announced>>, version'["user"] = version["user"]
  PROVE  CacheInv'
<1>1. \A u, p : Serves(u, p)' <=> Serves(u, p)
  BY DEF Serves, Versioned, C!Unread
<1> QED BY <1>1 DEF CacheInv, PagesServe, ReadersKnow, C!ChangesShow, Versioned, C!Unread

LEMMA WriterStep ==
  ASSUME CacheBounds, C!TypeOK, RecordsOK, CacheInv, NEW w \in Writers,
         C!Change(w) \/ C!Invalidate(w) \/ C!ChangeFails(w)
  PROVE  C!TypeOK' /\ RecordsOK' /\ CacheInv'
<1>0. /\ profile \in Nat /\ profile <= MaxChanges /\ announced \in Nat /\ announced <= profile
      /\ writer \in [Writers -> WriterRecord] /\ version["user"] \in Nat
      /\ \A v \in Writers : writer[v].change \in Nat /\ writer[v].change <= profile
  BY DEF C!TypeOK, RecordsOK, WriterRecord, CacheBounds
<1>1. CASE C!Change(w)
  <2>1. profile' \in 0 .. MaxChanges /\ profile' = profile + 1 /\ announced \in 0 .. profile'
    BY <1>0, <1>1 DEF C!Change, CacheBounds
  <2>2. [pc |-> "announce", change |-> profile'] \in WriterRecord
    BY <2>1 DEF WriterRecord
  <2>3. /\ writer' \in [Writers -> WriterRecord]
        /\ \A v \in Writers : writer'[v].change \in {writer[v].change, profile'}
    BY <1>0, <1>1, <2>1, <2>2 DEF C!Change
  <2>4. \A v \in Writers : writer'[v].change <= profile'
    BY <1>0, <2>1, <2>3
  <2>5. RecordsOK'
    BY <1>1, <2>3, <2>4 DEF C!Change, RecordsOK
  <2>6. C!TypeOK'
    BY <1>1, <2>1, <2>3 DEF C!Change, C!TypeOK, WriterRecord
  <2> QED BY <1>1, <2>5, <2>6, QuietStep DEF C!Change
<1>2. CASE C!ChangeFails(w) \/ C!Invalidate(w)
  <2>1. /\ writer' \in [Writers -> WriterRecord]
        /\ \A v \in Writers : writer'[v].change = writer[v].change
    BY <1>0, <1>2 DEF C!ChangeFails, C!Invalidate, WriterRecord
  <2>2. RecordsOK'
    BY <1>2, <2>1 DEF C!ChangeFails, C!Invalidate, C!data, RecordsOK
  <2>3. /\ version' \in [{"user", "stream"} -> Nat]
        /\ announced' \in 0 .. profile /\ announced' >= announced
    BY <1>0, <1>2 DEF C!ChangeFails, C!Invalidate, C!Bump, C!TypeOK
  <2>4. UNCHANGED <<profile, ingested, analyzed, page, reader, reads>>
    BY <1>2 DEF C!ChangeFails, C!Invalidate, C!data
  <2>5. C!TypeOK'
    BY <2>1, <2>3, <2>4 DEF C!TypeOK, WriterRecord
  <2>6. CASE C!ChangeFails(w)
    BY <2>2, <2>5, <2>6, QuietStep DEF C!ChangeFails
  <2>7. CASE C!Invalidate(w)
    <3>1. version'["user"] = version["user"] + 1
      BY <2>7 DEF C!Invalidate, C!Bump, C!TypeOK
    <3>2. \A u \in Nat : \A p : Serves(u, p) => Serves(u, p)'
      BY <1>0, <2>4, <3>1 DEF Serves, Versioned, C!Unread
    <3>3. \A r \in Readers : reader[r].user \in Nat /\ reader[r].since \in Nat
      BY DEF RecordsOK, ReaderRecord
    <3>4. PagesServe'
      BY <2>4, <3>2 DEF CacheInv, PagesServe
    <3>5. \A r \in Readers : reader'[r].since <= announced'
      BY <1>0, <2>3, <2>4, <3>3 DEF CacheInv, ReadersKnow
    <3>6. \A r \in Readers : Versioned(r)' => reader'[r].user <= version'["user"]
      BY <1>0, <2>4, <3>1, <3>3 DEF CacheInv, ReadersKnow, Versioned, C!Unread
    <3>7. ReadersKnow'
      BY <2>4, <3>2, <3>3, <3>5, <3>6 DEF CacheInv, ReadersKnow, C!Unread
    <3>8. C!ChangesShow'
      BY <2>4 DEF CacheInv, C!ChangesShow
    <3> QED BY <2>2, <2>5, <3>4, <3>7, <3>8 DEF CacheInv
  <2> QED BY <1>2, <2>6, <2>7
<1> QED BY <1>1, <1>2

LEMMA ArticleStep ==
  ASSUME CacheBounds, C!TypeOK, RecordsOK, CacheInv, C!Ingest \/ C!Analyze PROVE C!TypeOK' /\ RecordsOK' /\ CacheInv'
<1>1. /\ analyzed' \in 0 .. ingested' /\ ingested' \in 0 .. MaxArticles
      /\ version' \in [{"user", "stream"} -> Nat] /\ version'["user"] = version["user"]
  BY DEF C!Ingest, C!Analyze, C!Bump, C!TypeOK, CacheBounds
<1>2. UNCHANGED <<profile, page, reader, writer, reads, announced>>
  BY DEF C!Ingest, C!Analyze
<1>3. C!TypeOK' /\ RecordsOK'
  BY <1>1, <1>2 DEF C!TypeOK, RecordsOK
<1> QED BY <1>1, <1>2, <1>3, QuietStep

LEMMA CacheInit == CacheBounds /\ C!Init => CacheHolds
<1>1. C!Init => CacheInv
  BY DEF C!Init, CacheInv, PagesServe, ReadersKnow, C!ChangesShow, Versioned, C!Free
<1> QED BY <1>1, InitTypes DEF CacheHolds

LEMMA CacheStep == CacheBounds /\ CacheHolds /\ [C!Next]_(C!vars) => CacheHolds'
<1> SUFFICES ASSUME CacheBounds, C!TypeOK, RecordsOK, CacheInv, [C!Next]_(C!vars)
             PROVE  C!TypeOK' /\ RecordsOK' /\ CacheInv'
  BY DEF CacheHolds
<1>1. CASE UNCHANGED C!vars
  <2>1. C!TypeOK' /\ RecordsOK'
    BY <1>1 DEF C!vars, C!TypeOK, RecordsOK
  <2> QED BY <1>1, <2>1, QuietStep DEF C!vars
<1> QED BY <1>1, AskStep, ReadVersionStep, LookupStep, ReadPageStep, StoreStep, ReadFailsStep,
           ExpireStep, WriterStep, ArticleStep DEF C!Next, C!ReaderStep

(* A page that a reader asked for after a change was answered shows it,      *)
(* whoever computed and stored the page, and whatever else ran meanwhile.    *)
THEOREM AnsweredChangesShow == CacheBounds => (C!Spec => []C!ChangesShow)
<1> SUFFICES ASSUME CacheBounds PROVE C!Spec => []C!ChangesShow
  OBVIOUS
<1>1. C!Init => CacheHolds
  BY CacheInit
<1>2. CacheHolds /\ [C!Next]_(C!vars) => CacheHolds'
  BY CacheStep
<1>3. CacheHolds => C!ChangesShow
  BY DEF CacheHolds, CacheInv
<1> QED BY <1>1, <1>2, <1>3, PTL DEF C!Spec

-----------------------------------------------------------------------------
(***************************************************************************)
(* MCDigestDelivery's composition: each behaviour runs one component and   *)
(* keeps that component's inductive invariant.                             *)
(***************************************************************************)

SumInv == /\ Runs("digest") => DeliveryInv
          /\ Runs("cache") => CacheHolds

LEMMA SumInvInit == CacheBounds /\ SumInit => SumInv
<1> SUFFICES ASSUME CacheBounds, SumInit PROVE SumInv
  OBVIOUS
<1>1. CASE component = "digest" /\ Init
  BY <1>1, InitInv DEF SumInv, Runs
<1>2. CASE component = "cache" /\ C!Init
  BY <1>2, CacheInit DEF SumInv, Runs
<1> QED BY <1>1, <1>2 DEF SumInit

LEMMA SumInvStep == CacheBounds /\ SumInv /\ [SumNext]_SumVars => SumInv'
<1> SUFFICES ASSUME CacheBounds, SumInv, [SumNext]_SumVars PROVE SumInv'
  OBVIOUS
<1>1. component' = component
  BY DEF SumNext, SumVars
<1>2. CASE Runs("digest")
  <2>1. [Next]_vars
    BY <1>2 DEF SumNext, SumVars, digestVars, vars, Runs
  <2>2. DeliveryInv'
    BY <1>2, <2>1, NextInv DEF SumInv
  <2> QED BY <1>1, <1>2, <2>2 DEF SumInv, Runs
<1>3. CASE Runs("cache")
  <2>1. [C!Next]_(C!vars)
    BY <1>3 DEF SumNext, SumVars, cacheVars, C!vars, Runs
  <2>2. CacheHolds'
    BY <1>3, <2>1, CacheStep DEF SumInv
  <2> QED BY <1>1, <1>3, <2>2 DEF SumInv, Runs
<1>4. CASE ~ Runs("digest") /\ ~ Runs("cache")
  BY <1>1, <1>4 DEF SumInv, Runs
<1> QED BY <1>2, <1>3, <1>4

LEMMA SumInvariance == CacheBounds => (SumSpec => []SumInv)
<1> SUFFICES ASSUME CacheBounds PROVE SumSpec => []SumInv
  OBVIOUS
<1>1. SumInit => SumInv
  BY SumInvInit
<1>2. SumInv /\ [SumNext]_SumVars => SumInv'
  BY SumInvStep
<1> QED BY <1>1, <1>2, PTL DEF SumSpec

(* The rows, jobs, executions, cached pages and readers have their types in  *)
(* every state of the composition.                                           *)
THEOREM SumTypes == CacheBounds => (SumSpec => []TypesOK)
<1> SUFFICES ASSUME CacheBounds PROVE SumSpec => []TypesOK
  OBVIOUS
<1>1. SumInv => TypesOK
  BY DEF SumInv, TypesOK, DeliveryInv, CacheHolds
<1> QED BY <1>1, SumInvariance, PTL

(* FeedService with its cache: a page asked for after a change of the        *)
(* profile was answered shows the change, as the digest_retries run checks.  *)
THEOREM SumChangesShow == CacheBounds => (SumSpec => []ChangesShow)
<1> SUFFICES ASSUME CacheBounds PROVE SumSpec => []ChangesShow
  OBVIOUS
<1>1. SumInv => ChangesShow
  BY DEF SumInv, ChangesShow, CacheHolds, CacheInv
<1> QED BY <1>1, SumInvariance, PTL

(* A stored digest keeps its period and its bodies in every step of the      *)
(* composition, whatever retries, resends or crashes come between.           *)
THEOREM SumBuiltOnce == CacheBounds => (SumSpec => BuiltOnce)
<1> SUFFICES ASSUME CacheBounds PROVE SumSpec => BuiltOnce
  OBVIOUS
<1>1. SumInv /\ [SumNext]_SumVars => [Runs("digest") => KeepsBuilt]_digestVars
  <2> SUFFICES ASSUME SumInv, [SumNext]_SumVars, Runs("digest") PROVE KeepsBuilt
    OBVIOUS
  <2>1. [Next]_vars
    BY DEF SumNext, SumVars, digestVars, vars, Runs
  <2> QED BY <2>1, KeptStep DEF SumInv
<1> QED BY <1>1, SumInvariance, PTL DEF SumSpec, BuiltOnce

=============================================================================
