------------------------------ MODULE MCSources ------------------------------
(***************************************************************************)
(* What is known of sources and comes in from them: the ingestion of one   *)
(* source, the discovery of a web source's recipe, the candidates for new  *)
(* sources, the manifest sync and the intake of articles.  They meet in    *)
(* the database only and each is checked in states of its own; the         *)
(* variables of those that do not run are None.                            *)
(***************************************************************************)
EXTENDS SourceDiscovery, TLC

CONSTANTS
  Rows, Addresses, Norm, Domain, Manifest, Tunings, MaxSyncs, MaxTunes, \* of the manifest
  Feeds, Websites, Lists, LinkNorm, Title, Pages, Selector, Faults, \* of the intake
  c1, q1, feed, f1

VARIABLES
  component, \* the one that runs
  bucket, source, due, job, rows, attempt, admin, doubled, strikes,
  candidate, origin, queued, process, validated, lost,
  known, proposal, sync, operator, syncs, tunes,
  row, analysis, intake, struck

ingestionVars == <<bucket, source, due, job, rows, attempt, admin, doubled, strikes>>
discoveryVars == <<site, config, run, browse, calls, redesigns, visits, last, worked>>
candidatesVars == <<candidate, origin, queued, process, validated, lost>>
manifestVars == <<known, proposal, sync, operator, syncs, tunes>>
intakeVars == <<row, analysis, intake, struck>>

-----------------------------------------------------------------------------
(* The websites of the discovery. *)

MCPath == [home |-> <<"/">>, news |-> <<"/", "news">>, away |-> <<"/">>]
MCEntries == {<<>>, <<"away", "news">>}

Agent(name)      == [field |-> "agent", value |-> name]
Rule(field, path) == [field |-> field, value |-> path]
Lines == {Agent("*"), Agent("bot"), [field |-> "sitemap", value |-> "named"],
          Rule("disallow", <<"/">>), Rule("disallow", <<"/", "news">>), Rule("allow", <<"/", "news">>)}
Robots == BoundedSeq(Lines, 3)

Sitemap(kind, locs) == [kind |-> kind, locs |-> locs]
Article == [article |-> TRUE]
Junk    == [article |-> FALSE]
NoMap   == Sitemap("none", <<>>)

Group(selector, links) == [selector |-> selector, links |-> links]
Empty == <<>>
Small == <<Group("a", {"l1"})>>
Large == <<Group("a", {"l1"}), Group("b", {"l2", "l3"})>>

Website(feeds, robots, named, common, home, news, rendered) ==
  [feeds |-> feeds, robots |-> robots,
   sitemaps |-> [named |-> named, common |-> common, inner |-> Sitemap("urls", <<Junk, Article>>)],
   static |-> [home |-> home, news |-> news, away |-> Large],
   rendered |-> [home |-> home \o rendered, news |-> news, away |-> Large]]

Ruled == {Website({}, robots, NoMap, NoMap, Small, Large, Large) : robots \in Robots}
Shaped == {Website(feeds, robots, named, Sitemap("urls", <<Junk>>), home, news, rendered) :
             feeds \in {{}, {"own"}, {"declared"}},
             robots \in {<<>>, <<[field |-> "sitemap", value |-> "named"]>>},
             named \in {NoMap, Sitemap("index", <<"common", "inner">>)},
             home \in {Empty, Small}, news \in {Empty, Large}, rendered \in {Empty, Large}}

MCSites == Ruled \cup Shaped

Suggest(method, entries, selector) == [method |-> method, entries |-> entries, selector |-> selector]
MCSuggestions == {Suggest("cheerio", <<>>, "b"), Suggest("playwright", <<>>, None),
                  Suggest("cheerio", <<"away", "news">>, None)}

-----------------------------------------------------------------------------
G == INSTANCE SourceIngestion WITH
       Fetchers <- {f1}, Browsers <- {}, Admins <- {}, Crashes <- TRUE, LiveStalls <- {f1}, MaxBucket <- 2,
       Interval <- 1, MaxAttempts <- 2, MaxStalled <- 1, DegradeAt <- 2, DisableAt <- 3,
       Web <- FALSE, run <- attempt

K == INSTANCE SourceCandidates WITH
       Candidates <- {c1}, Feed <- feed, Workers <- {f1}, Requests <- {q1}, Feeds <- FALSE,
       Discovers <- TRUE, Crashes <- TRUE, Sources <- Rows, MaxAttempts <- 2, MaxStalled <- 1,
       source <- origin, job <- queued, run <- process

(* "a/" and "a" are one source, "b" another on the same domain. *)
MCManifest == <<[url |-> "a/", tuning |-> "low", mode |-> "rss", valid |-> TRUE],
                [url |-> "b", tuning |-> "low", mode |-> "web", valid |-> TRUE],
                [url |-> "b", tuning |-> "low", mode |-> "auto", valid |-> FALSE]>>
MCUrls   == {"a", "a/", "b"}
MCNorm   == "a" :> "a" @@ "a/" :> "a" @@ "b" :> "b"
MCDomain == [u \in MCUrls |-> "d"]
M == INSTANCE SourceManifest WITH
       Entries <- Manifest, Urls <- Addresses, source <- known, candidate <- proposal, admin <- operator

(* Two links of one article: the website's are normalised, the feed's not.   *)
ArticlePages == [scripts : {<<>>, <<<<"untitled">>>>, <<<<"other", "titled">>>>},
                 openGraph : {"none", "plain", "article"}, signals : BOOLEAN,
                 readable : BOOLEAN, selected : BOOLEAN, date : {"none", "recent"}]
MCLists    == {<<"l1">>, <<"l2", "l1">>}
MCLinkNorm == [l \in {"l1", "l2"} |-> "l1"]
MCTitle    == [l \in {"l1", "l2"} |-> "t"]
I == INSTANCE ArticleIntake WITH Norm <- LinkNorm, job <- analysis, run <- intake

ingestionOff ==
  /\ bucket = None /\ source = None /\ due = None /\ job = None /\ rows = None /\ attempt = None
  /\ admin = None /\ doubled = None /\ strikes = None
discoveryOff ==
  /\ site = None /\ config = None /\ run = None /\ browse = None /\ calls = None
  /\ redesigns = None /\ visits = None /\ last = None /\ worked = None
candidatesOff ==
  /\ candidate = None /\ origin = None /\ queued = None /\ process = None
  /\ validated = None /\ lost = None
manifestOff ==
  /\ known = None /\ proposal = None /\ sync = None /\ operator = None
  /\ syncs = None /\ tunes = None
intakeOff ==
  row = None /\ analysis = None /\ intake = None /\ struck = None

SumInit ==
  \/ component = "ingestion" /\ G!Init /\ discoveryOff /\ candidatesOff /\ manifestOff /\ intakeOff
  \/ component = "discovery" /\ Init /\ ingestionOff /\ candidatesOff /\ manifestOff /\ intakeOff
  \/ component = "candidates" /\ K!Init
     /\ ingestionOff /\ discoveryOff /\ manifestOff /\ intakeOff
  \/ component = "manifest" /\ M!Init /\ ingestionOff /\ discoveryOff /\ candidatesOff /\ intakeOff
  \/ component = "intake" /\ I!Init /\ ingestionOff /\ discoveryOff /\ candidatesOff /\ manifestOff

SumNext ==
  \/ component = "ingestion" /\ G!Next
     /\ UNCHANGED <<component, discoveryVars, candidatesVars, manifestVars, intakeVars>>
  \/ component = "discovery" /\ Next
     /\ UNCHANGED <<component, ingestionVars, candidatesVars, manifestVars, intakeVars>>
  \/ component = "candidates" /\ K!Next
     /\ UNCHANGED <<component, ingestionVars, discoveryVars, manifestVars, intakeVars>>
  \/ component = "manifest" /\ M!Next
     /\ UNCHANGED <<component, ingestionVars, discoveryVars, candidatesVars, intakeVars>>
  \/ component = "intake" /\ I!Next
     /\ UNCHANGED <<component, ingestionVars, discoveryVars, candidatesVars, manifestVars>>

SumVars == <<component, ingestionVars, discoveryVars, candidatesVars, manifestVars, intakeVars>>
SumSpec == SumInit /\ [][SumNext]_SumVars

(* Source ids and executions of one kind are interchangeable. *)
Symmetry == Permutations(Rows) \cup Permutations(Visitors)

Runs(c) == component = c

(* Each state has the types of the component that runs. *)
TypesOK ==
  /\ Runs("ingestion") => G!TypeOK
  /\ Runs("discovery") => TypeOK
  /\ Runs("candidates") => K!TypeOK
  /\ Runs("manifest") => M!TypeOK
  /\ Runs("intake") => I!TypeOK

(* The components' properties, each in the states of its component. *)
FailuresAreExact     == Runs("ingestion") => G!CountIsExact
VisitsAllPermitted   == Runs("discovery") => VisitsArePermitted
FoundWorksAgain      == Runs("discovery") => WorksAgain
ManifestHolds        == Runs("manifest") => M!ManifestHolds
OneSourcePerIdentity == Runs("manifest") => M!OneSourcePerIdentity
HandTuningIsKept     == [][Runs("manifest") => M!TuningIsLeftAlone]_manifestVars
IntakeIsAccountedFor == Runs("intake") => I!IntakeIsAccountedFor

(* What the comments of SourceDiscoveryService say without exception (lines  *)
(* 111-114: enough "to keep a real headless browser and the deterministic    *)
(* HTTP fetch off paths robots.txt excludes"; 644-647: the gate is for entry *)
(* pages "BEFORE they are ever fetched").  It is not so of the home page, of *)
(* the snapshot's page and of groups in which an agent follows the wildcard. *)
EveryRequestPermitted ==
  Runs("discovery") => \A v \in visits : v.page \notin Elsewhere /\ Permitted(Path[v.page], site.robots)

(* A source created by a suggestion can be fetched again as well.  It is not *)
(* so if the suggestion names entry pages: the row keeps others.             *)
SuggestedWorksAgain == Runs("discovery") => (worked = "suggested" => last # "failed")
==============================================================================
