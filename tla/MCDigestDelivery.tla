-------------------------- MODULE MCDigestDelivery --------------------------
(***************************************************************************)
(* TLC instances of DigestDelivery and FeedCache: what is sent to a user   *)
(* and what is kept for one.  They share no state: each behaviour runs one *)
(* of Components, the other's variables are None.  A configuration with    *)
(* one component checks that component's own properties by their names.    *)
(***************************************************************************)
EXTENDS DigestDelivery, TLC

CONSTANTS Components, Readers, Writers, MaxChanges, MaxArticles, MaxReads

VARIABLES component, profile, ingested, analyzed, version, page, reader, writer, reads, announced

cacheVars == <<profile, ingested, analyzed, version, page, reader, writer, reads, announced>>
digestVars == <<now, digest, job, sweep, run, delivered, bodiless>>

C == INSTANCE FeedCache

digestOff ==
  /\ now = None /\ digest = None /\ job = None /\ sweep = None /\ run = None
  /\ delivered = None /\ bodiless = None
cacheOff ==
  /\ profile = None /\ ingested = None /\ analyzed = None /\ version = None /\ page = None
  /\ reader = None /\ writer = None /\ reads = None /\ announced = None

SumInit ==
  /\ component \in Components
  /\ \/ component = "digest" /\ Init /\ cacheOff
     \/ component = "cache" /\ C!Init /\ digestOff

SumNext ==
  \/ component = "digest" /\ Next /\ UNCHANGED <<component, cacheVars>>
  \/ component = "cache" /\ C!Next /\ UNCHANGED <<component, digestVars>>

SumVars == <<component, digestVars, cacheVars>>
SumSpec == SumInit /\ [][SumNext]_SumVars

Runs(c) == component = c

(* The fairness of both components. *)
FairSumSpec ==
  /\ SumSpec
  /\ \A e \in Executors : WF_digestVars(Runs("digest") /\ RunStep(e))
  /\ \A j \in Jobs : /\ WF_digestVars(Runs("digest") /\ \E w \in Workers : Take(w, j))
                     /\ WF_digestVars(Runs("digest") /\ Orphaned(j) /\ StallDetected(j))
  /\ \A r \in Readers : WF_cacheVars(Runs("cache") /\ C!ReaderStep(r))
  /\ WF_cacheVars(Runs("cache") /\ \E k \in DOMAIN page : C!Expire(k))

(* Names of executors, requests and jobs are interchangeable in safety runs. *)
Symmetry == Permutations(Workers) \cup Permutations(Sweepers) \cup Permutations(Resends)

(* Each state has the types of the component that runs. *)
TypesOK ==
  /\ Runs("digest") => TypeOK
  /\ Runs("cache") => C!TypeOK

(* The components' properties, each in the states of its component. *)
BuiltOnce    == [][Runs("digest") => KeepsBuilt]_digestVars
ChangesShow  == Runs("cache") => C!ChangesShow
AnalysesShow == [][Runs("cache") => C!ShowsAnalyses]_cacheVars

(* DigestJobsSettle and FeedCache's PagesCatchUp. *)
JobsSettle ==
  \A j \in Jobs : Runs("digest") /\ job[j].state \in Executable
                    ~> Runs("digest") /\ job[j].state \notin Executable
PagesCatchUp == <>[](Runs("cache") => \A k \in DOMAIN page : page[k].page.articles = analyzed)
=============================================================================
