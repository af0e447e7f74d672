--------------------------- MODULE SourceDiscovery ---------------------------
(***************************************************************************)
(* How one source of type web is found and found again: the discovery      *)
(* chain of SourceDiscoveryService over a website, the model's suggestion  *)
(* when the chain fails at creation, the recipe kept in web_source_configs *)
(* and the scheduled fetches that use it and repair it.  A website is what *)
(* its robots.txt, sitemaps, feeds and listing pages answer; links that    *)
(* are no likely articles of the host are left out of its listings.        *)
(***************************************************************************)
EXTENDS Naturals, Sequences, FiniteSets, SequencesExt

CONSTANTS
  Sites,        \* the websites considered
  Path,         \* the path of each listing page, a sequence of segments
  Home,         \* the page at the source's own url
  Elsewhere,    \* listing pages on other hosts
  Entries,      \* entryUrls an administrator may configure, sequences of pages
  Suggestions,  \* what the model may suggest: method, entries and selector
  Visitors,     \* concurrent fetches of the source
  Playwright,   \* PLAYWRIGHT_ENABLED
  DailyCap,     \* SOURCE_DISCOVERY_AI_FALLBACK_MAX_PER_DAY
  MaxRedesigns, \* times the website changes (bound)
  MinGroup,     \* MIN_LINK_GROUP_SIZE
  SampleSize,   \* SITEMAP_SAMPLE_SIZE
  MaxNested,    \* MAX_NESTED_SITEMAPS
  None          \* no configuration, selector, method

VARIABLES
  site,      \* what the website answers
  config,    \* the web_source_configs row
  run,       \* fetches between their read of the row and their requests
  browse,    \* the redesigns at which a waiting browser job was queued
  calls,     \* source-discovery:ai-fallback:count of the day
  redesigns, \* times the website changed
  visits,    \* history: the pages that the last operation requested, and for what
  last,      \* history: how the last operation ended
  worked     \* history: has it worked on the website as it is, and how?

vars == <<site, config, run, browse, calls, redesigns, visits, last, worked>>

Methods == {"sitemap", "rss", "cheerio", "playwright"}
Config  == [entries : Entries, method : Methods, selector : UNION {{r.selector : r \in Suggestions},
              UNION {{g.selector : g \in ToSet(s.static[p]) \cup ToSet(s.rendered[p])}
                       : s \in Sites, p \in DOMAIN Path}} \cup {None}]

TypeOK ==
  /\ site \in Sites
  /\ config \in Config \cup {None}
  /\ run \in [Visitors -> [pc : {"idle", "fetch", "browse"}, read : Config \cup {None},
                           since : 0 .. MaxRedesigns]]
  /\ browse \in {None} \cup (0 .. MaxRedesigns)
  /\ calls \in 0 .. DailyCap + 1
  /\ redesigns \in 0 .. MaxRedesigns
  /\ visits \subseteq [by : {"feed", "snapshot", "cheerio", "playwright"}, page : DOMAIN Path]
  /\ last \in {"none", "found", "queued", "failed", "outdated"}
  /\ worked \in {"no", "suggested", "yes"}

Idle == [pc |-> "idle", read |-> None, since |-> 0]

Init ==
  /\ site \in Sites
  /\ config = None
  /\ run = [e \in Visitors |-> Idle]
  /\ browse = None
  /\ calls = 0
  /\ redesigns = 0
  /\ visits = {}
  /\ last = "none"
  /\ worked = "no"

-----------------------------------------------------------------------------
(* robots.txt: a sequence of lines, empty when there is none. *)

(* Mutant: the group of the wildcard ends at its first rule. *)
InGroupAtFirst(lines, i) == i > 1 /\ lines[i - 1].field = "agent" /\ lines[i - 1].value = "*"

(* inWildcardGroup: the last agent line above line i names the wildcard. *)
InWildcardGroup(lines, i) ==
  \E a \in 1 .. i - 1 : /\ lines[a].field = "agent" /\ lines[a].value = "*"
                        /\ \A j \in a + 1 .. i - 1 : lines[j].field # "agent"

RulesOf(lines, field) ==
  {lines[i].value : i \in {j \in DOMAIN lines : /\ lines[j].field = field /\ lines[j].value # <<>>
                                                /\ InWildcardGroup(lines, j)}}

(* parseRobotsRules *)
Rules(lines) == [disallow |-> RulesOf(lines, "disallow"), allow |-> RulesOf(lines, "allow")]

LongestMatch(path, patterns) ==
  LET lengths == {Len(p) : p \in {q \in patterns : IsPrefix(q, path)}} IN
  CHOOSE n \in lengths \cup {0} : \A m \in lengths : m <= n

(* isPathAllowedByRules *)
Allowed(path, rules) ==
  LET disallowed == LongestMatch(path, rules.disallow) IN
  disallowed = 0 \/ LongestMatch(path, rules.allow) >= disallowed

(* What the Robots Exclusion Protocol says of a page.  A group's agents are  *)
(* the agent lines that follow one another; its rules come after them.       *)
Governs(lines, agentAt, ruleAt) ==
  \E first \in agentAt .. ruleAt - 1 :
    /\ \A i \in agentAt .. first : lines[i].field = "agent"
    /\ \A i \in first + 1 .. ruleAt - 1 : lines[i].field # "agent"

Matches(lines, field, path) ==
  {i \in DOMAIN lines :
     /\ lines[i].field = field /\ lines[i].value # <<>> /\ IsPrefix(lines[i].value, path)
     /\ \E a \in 1 .. i - 1 : /\ lines[a] = [field |-> "agent", value |-> "*"]
                              /\ Governs(lines, a, i)}

(* Groups of several agents in which the wildcard comes last, as the code    *)
(* reads them: an agent line after the wildcard's would end its group.       *)
WildcardEndsGroups(lines) ==
  \A i \in 2 .. Len(lines) :
    lines[i - 1] = [field |-> "agent", value |-> "*"] => lines[i].field # "agent"

Permitted(path, lines) ==
  \A d \in Matches(lines, "disallow", path) :
    \E a \in Matches(lines, "allow", path) : Len(lines[a].value) >= Len(lines[d].value)

-----------------------------------------------------------------------------
(* The methods of the chain.  A result names the pages requested: feeds and  *)
(* sitemaps, which are no pages, are left out.                               *)

Failure == [success |-> FALSE, method |-> None, selector |-> None, visits |-> {}, handover |-> FALSE]
Found(method) == [Failure EXCEPT !.success = TRUE, !.method = method]
VisitsBy(by, pages) == {[by |-> by, page |-> page] : page \in pages}

Articles(locs) == {l \in ToSet(locs) : l.article}

(* parseSitemap: the likely articles of a sitemap, or of the first sitemaps  *)
(* of an index until there are enough; an index within an index counts for   *)
(* nothing.                                                                  *)
Listed(s, name) == IF s.sitemaps[name].kind = "urls" THEN Articles(s.sitemaps[name].locs) ELSE {}
SitemapArticles(s, name) ==
  LET map    == s.sitemaps[name]
      nested == SubSeq(map.locs, 1, IF Len(map.locs) < MaxNested THEN Len(map.locs) ELSE MaxNested)
      Before(k) == UNION {Listed(s, nested[i]) : i \in 1 .. k - 1}
  IN IF map.kind = "index"
     THEN UNION {Listed(s, nested[k]) : k \in {i \in DOMAIN nested : Cardinality(Before(i)) < SampleSize}}
     ELSE Listed(s, name)

(* discoverViaSitemap: those that robots.txt names, or the usual ones. *)
ViaSitemap(s) ==
  LET named == {s.robots[i].value : i \in {j \in DOMAIN s.robots : s.robots[j].field = "sitemap"}}
      tried == IF named # {} THEN named ELSE {"common"}
  IN IF \E name \in tried : SitemapArticles(s, name) # {} THEN Found("sitemap") ELSE Failure

(* discoverViaFeed tries the declared and the usual urls, never the source's *)
(* own, which discoverEntryPoints probes first.  Both request the page at    *)
(* that url, the one for the links it declares and the other as a feed.      *)
FeedIf(found) == [(IF found THEN Found("rss") ELSE Failure) EXCEPT !.visits = VisitsBy("feed", {Home})]
ViaFeed(s) == FeedIf(s.feeds \cap {"declared", "common"} # {})
Direct(s)  == FeedIf("own" \in s.feeds)

(* extractLinksFromHtml: the preferred selector if it finds links, the first *)
(* largest group if it is large enough, all links otherwise.                 *)
Selection(groups, preferred) ==
  LET size(i)  == Cardinality(groups[i].links)
      largest  == {i \in DOMAIN groups : \A j \in DOMAIN groups : size(j) <= size(i)}
      best     == CHOOSE i \in largest : \A j \in largest : i <= j
      chosen   == {i \in DOMAIN groups : groups[i].selector = preferred /\ groups[i].links # {}}
  IN IF chosen # {} THEN [found |-> TRUE, selector |-> preferred]
     ELSE IF groups # <<>> /\ size(best) >= MinGroup THEN [found |-> TRUE, selector |-> groups[best].selector]
     ELSE [found |-> \E i \in DOMAIN groups : groups[i].links # {}, selector |-> None]

(* Mutant: the entry pages of a recipe are taken to be the source's own. *)
OpenOnAnyHost(s, page) == Allowed(Path[page], Rules(s.robots))

(* filterToAllowedHost and filterAllowedByRobots *)
Open(s, page) == page \notin Elsewhere /\ Allowed(Path[page], Rules(s.robots))

Requested(c) == IF c.entries # <<>> THEN c.entries ELSE <<Home>>

(* The position of the first success, or the last position. *)
FirstOf(hits, otherwise) == CHOOSE i \in hits \cup {otherwise} : \A j \in hits : i <= j

(* Open page after open page until one has links. *)
PageAfterPage(method, pages, open, selections) ==
  LET hits == {i \in open : selections[i].found}
      end  == FirstOf(hits, Len(pages))
  IN [(IF hits = {} THEN Failure ELSE [Found(method) EXCEPT !.selector = selections[end].selector])
        EXCEPT !.visits = VisitsBy(method, {pages[i] : i \in {j \in open : j <= end}})]

(* discoverViaCheerio and discoverViaPlaywright *)
SelectFrom(method, pages, open, listing, c) ==
  PageAfterPage(method, pages, open, [i \in open |-> Selection(listing[pages[i]], c.selector)])
OpenOf(s, pages) == {i \in DOMAIN pages : Open(s, pages[i])}
ViaListing(method, s, listing, c) ==
  SelectFrom(method, Requested(c), OpenOf(s, Requested(c)), listing, c)

(* runDiscoveryMethod; inline: may a browser be started here? *)
Discover(method, s, c, inline) ==
  CASE method = "sitemap"    -> ViaSitemap(s)
    [] method = "rss"        -> ViaFeed(s)
    [] method = "cheerio"    -> ViaListing(method, s, s.static, c)
    [] method = "playwright" ->
         IF ~ inline THEN [Failure EXCEPT !.handover = TRUE]
         ELSE IF ~ Playwright THEN Failure
         ELSE ViaListing(method, s, s.rendered, c)

(* discoverEntryPoints: the first step that succeeds, or the last one. *)
StepByStep(results) ==
  LET end == FirstOf({i \in DOMAIN results : results[i].success}, Len(results)) IN
  [results[end] EXCEPT !.visits = UNION {results[i].visits : i \in 1 .. end}]

Steps == <<"sitemap", "rss", "cheerio", "playwright">>
Chain(s, c, inline) ==
  LET steps == StepByStep([i \in DOMAIN Steps |-> Discover(Steps[i], s, c, inline)]) IN
  IF Direct(s).success THEN Direct(s) ELSE [steps EXCEPT !.visits = @ \cup Direct(s).visits]

-----------------------------------------------------------------------------
(* Creation, fetches, validation. *)

Or(x, y) == IF x # None THEN x ELSE y
Outcome(result, way) ==
  /\ visits' = result.visits
  /\ last' = IF result.success THEN "found" ELSE "failed"
  /\ worked' = IF result.success THEN way ELSE worked
Ends(result) == Outcome(result, "yes")

(* Mutant: the model is taken at its word. *)
RevalidatedUnchecked(c, suggestion) ==
  [Found(suggestion.method) EXCEPT !.selector = suggestion.selector]

(* suggestAndValidate: the suggestion is run as a recipe, with the entry     *)
(* pages it names, and is only used if that finds links.                     *)
Revalidated(c, suggestion) ==
  Discover(suggestion.method, site,
           [c EXCEPT !.entries = IF suggestion.entries # <<>> THEN suggestion.entries ELSE @,
                     !.selector = Or(suggestion.selector, @)], TRUE)

(* createWebSource: a row is written if the chain or the suggestion found    *)
(* links, with the entry pages that were asked for, whichever the suggestion *)
(* names.                                                                    *)
Kept(c, result) == [c EXCEPT !.method = result.method, !.selector = Or(result.selector, @)]

Creates(asked, result, visited, way) ==
  /\ config' = IF result.success THEN Kept(asked, result) ELSE None
  /\ Outcome([result EXCEPT !.visits = @ \cup visited], way)

(* The model is asked about a snapshot of the first entry page; the call may *)
(* fail.                                                                     *)
Suggests(asked, visited) ==
  LET seen == visited \cup VisitsBy("snapshot", {Requested(asked)[1]}) IN
  \/ Creates(asked, Failure, seen, "no")
  \/ \E suggestion \in Suggestions :
       Creates(asked, Revalidated(asked, suggestion), seen,
               IF suggestion.entries = <<>> THEN "yes" ELSE "suggested")

CreateFrom(asked, result) ==
  \/ result.success /\ Creates(asked, result, {}, "yes") /\ UNCHANGED calls
  \/ /\ ~ result.success
     /\ calls <= DailyCap
     /\ calls' = calls + 1
     /\ IF calls < DailyCap THEN Suggests(asked, result.visits)
        ELSE Creates(asked, Failure, result.visits, "no")

CreateSource(entries) ==
  LET asked == [entries |-> entries, method |-> None, selector |-> None] IN
  /\ config = None
  /\ CreateFrom(asked, Chain(site, asked, TRUE))
  /\ UNCHANGED <<site, run, browse, redesigns>>

(* A fetch and a browser job read the row first. *)
Load(e, pc, since) ==
  /\ run[e].pc = "idle"
  /\ config # None
  /\ run' = [run EXCEPT ![e] = [pc |-> pc, read |-> config, since |-> since]]
  /\ UNCHANGED <<site, config, calls, redesigns, visits, last, worked>>

LoadFetch(e) == Load(e, "fetch", redesigns) /\ UNCHANGED browse
TakeBrowserJob(e) == browse # None /\ browse' = None /\ Load(e, "browse", browse)

(* updateWebSourceConfigRecipe: the method that worked instead. *)
Heal(e, result, stored) ==
  config' = IF stored \/ result.method = run[e].read.method THEN config
            ELSE [config EXCEPT !.method = result.method,
                                !.selector = Or(result.selector, run[e].read.selector)]

(* Mutant: a stored recipe that fails is not followed by the chain. *)
FetchedByRecipe(c) == Discover(c.method, site, c, FALSE)

(* discover: the stored recipe, then the chain without a browser. *)
Fetched(c) ==
  LET stored == Discover(c.method, site, c, FALSE)
      chain  == Chain(site, c, FALSE)
  IN IF stored.success THEN stored
     ELSE [chain EXCEPT !.visits = @ \cup stored.visits]

FetchEnds(e, result, stored) ==
  \/ result.success /\ Heal(e, result, stored) /\ Ends(result) /\ UNCHANGED browse
  \/ /\ ~ result.success /\ result.handover /\ Playwright
     /\ browse' = IF browse = None THEN redesigns ELSE browse
     /\ last' = "queued"
     /\ visits' = result.visits
     /\ UNCHANGED <<config, worked>>
  \/ /\ ~ result.success /\ ~ (result.handover /\ Playwright)
     /\ Ends(result)
     /\ UNCHANGED <<config, browse>>

Fetch(e) ==
  LET c == run[e].read IN
  /\ run[e].pc = "fetch"
  /\ run' = [run EXCEPT ![e] = Idle]
  /\ FetchEnds(e, Fetched(c), Discover(c.method, site, c, FALSE).success)
  /\ UNCHANGED <<site, calls, redesigns>>

(* fetchSourceViaBrowser; the website may have changed since it was queued. *)
BrowsingEnds(e, result) ==
  /\ IF result.success THEN Heal(e, result, FALSE) ELSE UNCHANGED config
  /\ visits' = result.visits
  /\ last' = IF result.success THEN "found"
             ELSE IF run[e].since = redesigns THEN "failed" ELSE "outdated"
  /\ worked' = IF result.success THEN "yes" ELSE worked

FetchViaBrowser(e) ==
  /\ run[e].pc = "browse"
  /\ run' = [run EXCEPT ![e] = Idle]
  /\ BrowsingEnds(e, ViaListing("playwright", site, site.rendered, run[e].read))
  /\ UNCHANGED <<site, browse, calls, redesigns>>

(* retryValidation: the chain with the stored configuration, nothing saved. *)
RetryValidation ==
  /\ config # None
  /\ Ends(Chain(site, config, TRUE))
  /\ UNCHANGED <<site, config, run, browse, calls, redesigns>>

(* The counter is kept under the date. *)
NewDay ==
  /\ calls > 0
  /\ calls' = 0
  /\ UNCHANGED <<site, config, run, browse, redesigns, visits, last, worked>>

Redesign ==
  /\ redesigns < MaxRedesigns
  /\ redesigns' = redesigns + 1
  /\ site' \in Sites \ {site}
  /\ visits' = {}
  /\ last' = "none"
  /\ worked' = "no"
  /\ UNCHANGED <<config, run, browse, calls>>

Next ==
  \/ \E entries \in Entries : CreateSource(entries)
  \/ \E e \in Visitors : LoadFetch(e) \/ TakeBrowserJob(e) \/ Fetch(e) \/ FetchViaBrowser(e)
  \/ RetryValidation
  \/ NewDay
  \/ Redesign

Spec == Init /\ [][Next]_vars

-----------------------------------------------------------------------------
(* Properties. *)

(* The first entry pages that an administrator may have configured. *)
FirstPages == {Home} \cup {entries[1] : entries \in Entries \ {<<>>}}

(* Every page that is listed or rendered, those that the model suggests too, *)
(* is on the source's own host and is one that robots.txt, read as the       *)
(* protocol defines it, permits (the comments of SourceDiscoveryService,     *)
(* lines 111-114 and 526-528), if no agent follows the wildcard in a group.  *)
(* What is requested without that check is the source's own page, as a feed, *)
(* and the first page configured, for the model's snapshot.                  *)
VisitsArePermitted ==
  \A v \in visits :
    /\ v.by = "feed" => v.page = Home
    /\ v.by = "snapshot" => v.page \in FirstPages
    /\ v.by \in {"cheerio", "playwright"} =>
         /\ v.page \notin Elsewhere
         /\ WildcardEndsGroups(site.robots) => Permitted(Path[v.page], site.robots)

(* A website on which the source was created or fetched, and which did not   *)
(* change since, can be fetched again: whichever recipe the row holds, a     *)
(* fetch finds links or hands over to a browser that does.  A creation by a  *)
(* suggestion that names entry pages of its own does not count, for the row  *)
(* keeps those that were asked for (createWebSource, lines 174-189); a later *)
(* success does.                                                             *)
WorksAgain == worked = "yes" => last # "failed"
==============================================================================
