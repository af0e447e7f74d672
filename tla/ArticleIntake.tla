---------------------------- MODULE ArticleIntake ----------------------------
(***************************************************************************)
(* How articles come in: concurrent fetches of feeds and of websites that  *)
(* take link after link, look for its article by url and by title, extract *)
(* the page (websites), insert the row and queue its analysis.  One action *)
(* per call to the database, the website or the queue; an error in one     *)
(* link is caught and the fetch goes on with the next.                     *)
(***************************************************************************)
EXTENDS Naturals, Sequences, FiniteSets

CONSTANTS
  Feeds,     \* concurrent fetches of rss, atom and release sources
  Websites,  \* concurrent fetches of web sources
  Lists,     \* what a fetch may list, sequences of links
  Norm,      \* normalizeUrl of each link
  Title,     \* the title of each link's and each url's article
  Pages,     \* what a page may hold
  Selector,  \* is an articleContentSelector configured?
  Faults,    \* may calls fail and the process die?
  None       \* no row, url, method

VARIABLES
  row,     \* the articles rows, by url
  job,     \* urls whose article has an analysis job
  run,     \* the fetches
  struck   \* history: urls whose fetch was interrupted after the insert

vars == <<row, job, run, struck>>

Fetches == Feeds \cup Websites
Links   == DOMAIN Norm
Urls    == Links \cup {Norm[l] : l \in Links}
Dates   == {"none", "old", "recent"}   \* null, before the analysis cutoff, after it

(* due: published after the cutoff; unsigned, looked: history, accepted      *)
(* without a sign of a publication, the fresh rows when it was looked for.   *)
Row == [status : {"new", "duplicate", "pending"}, fresh : BOOLEAN, due : BOOLEAN,
        unsigned : BOOLEAN, looked : SUBSET Urls]

Idle == [pc |-> "idle", list |-> <<>>, due |-> FALSE, unsigned |-> FALSE, status |-> "new", looked |-> {}]

TypeOK ==
  /\ row \in [Urls -> Row \cup {None}]
  /\ job \subseteq Urls
  /\ \A e \in Fetches :
       /\ run[e].pc \in {"idle", "look", "request", "title", "create", "persist", "pend", "queue"}
       /\ run[e].due \in BOOLEAN /\ run[e].status \in {"new", "duplicate"} /\ run[e].looked \subseteq Urls
       /\ run[e].list \in {SubSeq(l, i, Len(l)) : l \in Lists, i \in 1 .. 3}
  /\ struck \subseteq Urls

Init ==
  /\ row = [u \in Urls |-> None]
  /\ job = {}
  /\ run = [e \in Fetches |-> Idle]
  /\ struck = {}

-----------------------------------------------------------------------------
(* ContentExtractionService.extract over a page: its JSON-LD scripts, each a *)
(* sequence of nodes, its OpenGraph tags, its other signs of a publication.  *)

(* findArticleNode: the first article of a script is the one that counts. *)
FirstArticleIsTitled(script) ==
  \E i \in DOMAIN script : /\ script[i] = "titled"
                           /\ \A j \in 1 .. i - 1 : script[j] = "other"

HasSignal(page) ==
  \/ \E i \in DOMAIN page.scripts : \E j \in DOMAIN page.scripts[i] : page.scripts[i][j] # "other"
  \/ page.openGraph = "article"
  \/ page.signals

(* Mutant: any OpenGraph title makes an article. *)
ExtractionByTitle(page) ==
  IF \E i \in DOMAIN page.scripts : FirstArticleIsTitled(page.scripts[i]) THEN "json_ld"
  ELSE IF page.openGraph # "none" THEN "opengraph"
  ELSE IF page.signals /\ page.readable THEN "readability"
  ELSE IF Selector /\ page.selected THEN "cheerio_selector"
  ELSE None

(* The first method that succeeds, None if there is none. *)
Extraction(page) ==
  IF \E i \in DOMAIN page.scripts : FirstArticleIsTitled(page.scripts[i]) THEN "json_ld"
  ELSE IF page.openGraph = "article" THEN "opengraph"
  ELSE IF page.signals /\ page.readable THEN "readability"
  ELSE IF Selector /\ page.selected THEN "cheerio_selector"
  ELSE None

(* resolvePublishedAt: the sitemap's date, then the date of structured data. *)
PublishedAt(lastmod, page, method) ==
  IF lastmod # "none" THEN lastmod
  ELSE IF method \in {"json_ld", "opengraph"} THEN page.date ELSE "none"

-----------------------------------------------------------------------------
(* fetchSource, ingest and processItem, tryIngestArticle. *)

(* Only websites' links are normalised. *)
UrlOf(e) == LET link == Head(run[e].list) IN IF e \in Websites THEN Norm[link] ELSE link
Goto(e, pc) == run' = [run EXCEPT ![e].pc = pc]

(* Done with the first of a list: on to the next, or finished. *)
After(list) == IF Len(list) > 1 THEN [Idle EXCEPT !.pc = "look", !.list = Tail(list)] ELSE Idle
NextLink(e) == run' = [run EXCEPT ![e] = After(@.list)]

Start(e, list) ==
  /\ run[e].pc = "idle"
  /\ run' = [run EXCEPT ![e] = [Idle EXCEPT !.pc = "look", !.list = list]]
  /\ UNCHANGED <<row, job, struck>>

(* findByUrlHash *)
Look(e) ==
  /\ run[e].pc = "look"
  /\ \/ row[UrlOf(e)] # None /\ NextLink(e)
     \/ row[UrlOf(e)] = None /\ e \in Websites /\ Goto(e, "request")
     \/ /\ row[UrlOf(e)] = None /\ e \in Feeds
        /\ \E date \in Dates :
             run' = [run EXCEPT ![e].pc = "title", ![e].due = date = "recent"]
  /\ UNCHANGED <<row, job, struck>>

Request(e) ==
  /\ run[e].pc = "request"
  /\ \E page \in Pages, lastmod \in Dates :
       LET method == Extraction(page) IN
       IF method = None THEN NextLink(e)
       ELSE run' = [run EXCEPT ![e].pc = "title",
                               ![e].due = PublishedAt(lastmod, page, method) = "recent",
                               ![e].unsigned = method # "cheerio_selector" /\ ~ HasSignal(page)]
  /\ UNCHANGED <<row, job, struck>>

Fresh == {u \in Urls : row[u] # None /\ row[u].fresh}

(* Mutant: a title is only looked for among the articles to analyse. *)
SameTitleAnalysed(e) ==
  {u \in Fresh : Title[u] = Title[Head(run[e].list)] /\ row[u].status = "pending"}

(* findByTitleHashInLastDays *)
SameTitle(e) == {u \in Fresh : Title[u] = Title[Head(run[e].list)]}

LookForTitle(e) ==
  /\ run[e].pc = "title"
  /\ run' = [run EXCEPT ![e].pc = "create", ![e].looked = Fresh,
                        ![e].status = IF SameTitle(e) # {} THEN "duplicate" ELSE "new"]
  /\ UNCHANGED <<row, job, struck>>

ForAnalysis(e) == run[e].status = "new" /\ run[e].due
ThenAnalyse(e) == IF ForAnalysis(e) THEN Goto(e, "pend") ELSE NextLink(e)

(* The insert fails if the url came in meanwhile. *)
Create(e) ==
  LET r == run[e] IN
  /\ r.pc = "create"
  /\ \/ row[UrlOf(e)] # None /\ NextLink(e) /\ UNCHANGED row
     \/ /\ row[UrlOf(e)] = None
        /\ row' = [row EXCEPT ![UrlOf(e)] =
             [status |-> r.status, fresh |-> TRUE, due |-> r.due,
              unsigned |-> r.unsigned, looked |-> r.looked]]
        /\ IF e \in Websites THEN Goto(e, "persist") ELSE ThenAnalyse(e)
  /\ UNCHANGED <<job, struck>>

(* Mutant: a method worth keeping ends the link. *)
PersistAndLeave(e) ==
  /\ run[e].pc = "persist"
  /\ NextLink(e)
  /\ UNCHANGED <<row, job, struck>>

(* persistExtractionMethodIfChanged; nothing reads the method again. *)
PersistMethod(e) ==
  /\ run[e].pc = "persist"
  /\ ThenAnalyse(e)
  /\ UNCHANGED <<row, job, struck>>

Pend(e) ==
  /\ run[e].pc = "pend"
  /\ row' = [row EXCEPT ![UrlOf(e)].status = "pending"]
  /\ Goto(e, "queue")
  /\ UNCHANGED <<job, struck>>

Queue(e) ==
  /\ run[e].pc = "queue"
  /\ job' = job \cup {UrlOf(e)}
  /\ NextLink(e)
  /\ UNCHANGED <<row, struck>>

Interrupted(e) == struck' = IF run[e].pc \in {"persist", "pend", "queue"} THEN struck \cup {UrlOf(e)} ELSE struck

(* A call throws, or the process dies. *)
Fail(e) ==
  /\ Faults /\ run[e].pc # "idle"
  /\ Interrupted(e)
  /\ NextLink(e)
  /\ UNCHANGED <<row, job>>

Crash(e) ==
  /\ Faults /\ run[e].pc # "idle"
  /\ Interrupted(e)
  /\ run' = [run EXCEPT ![e] = Idle]
  /\ UNCHANGED <<row, job>>

(* Seven days pass. *)
Age ==
  /\ Fresh # {}
  /\ row' = [u \in Urls |-> IF row[u] = None THEN None ELSE [row[u] EXCEPT !.fresh = FALSE, !.looked = {}]]
  /\ UNCHANGED <<job, run, struck>>

Next ==
  \/ \E e \in Fetches :
       \/ \E list \in Lists : Start(e, list)
       \/ Look(e) \/ Request(e) \/ LookForTitle(e) \/ Create(e) \/ PersistMethod(e)
       \/ Pend(e) \/ Queue(e) \/ Fail(e) \/ Crash(e)
  \/ Age

Spec == Init /\ [][Next]_vars

-----------------------------------------------------------------------------
(* Properties. *)

(* Two recent articles of one title are both taken for originals only if     *)
(* neither existed when the other's title was looked for, whatever their     *)
(* sources: the look and the insert of tryIngestArticle and processItem are  *)
(* separate statements and titleHash has no constraint.                      *)
DuplicatesOnlyInRaces ==
  \A u \in Fresh : \A v \in Fresh \ {u} :
    Title[u] = Title[v] /\ "duplicate" \notin {row[u].status, row[v].status} =>
      u \notin row[v].looked /\ v \notin row[u].looked

(* An article that should be analysed and that no fetch is working on any    *)
(* more has its job, unless an error or a crash struck between its insert    *)
(* and the queue: its urlHash then keeps later fetches from it.              *)
HeldBy(u) == {e \in Fetches : run[e].pc \in {"persist", "pend", "queue"} /\ UrlOf(e) = u}
ForgottenOnlyByFaults ==
  \A u \in Urls : row[u] # None /\ row[u].status # "duplicate" /\ row[u].due =>
    u \in job \cup struck \/ HeldBy(u) # {}

(* An article of a website carries a sign of a publication (README of        *)
(* sources, lines 33-37); a configured content selector is the exception.    *)
PublicationsHaveSignals ==
  \A u \in Urls : row[u] # None => ~ row[u].unsigned

IntakeIsAccountedFor == DuplicatesOnlyInRaces /\ ForgottenOnlyByFaults /\ PublicationsHaveSignals
==============================================================================
