# Formal models of the Personal Tech Radar backend

A TLA+ account of the parts of this backend whose correctness depends on the order of things:
rows in PostgreSQL, jobs in BullMQ, the processors that execute them, HTTP requests that touch the
same rows, and what is left when a step fails or the process dies. TLC checks small instances of
every module; TLAPS proves, for every value of the constants, nearly all safety properties that the
runs check: those of the analysis hand-over, the digests (which implement their abstract specification),
ingestion, candidates, discovery requests, the discovery of web sources, intake, manifest, the feed
caches, readers' transactions and links, days, scores, accounts and the catalog (section 6).

1. [The system](#1-the-system): components, state, operations, interactions
2. [What is hard](#2-what-is-hard): behaviours a test would hardly reach
3. [Modules](#3-modules): which module models what, and how
4. [Runs](#4-runs): what is checked, on which bounds, and what it shows
5. [Fairness](#5-fairness)
6. [Proofs](#6-proofs)
7. [Findings and further observations](#7-findings-and-further-observations)
8. [What is not modelled](#8-what-is-not-modelled)
9. [Plan](#9-plan)

Paths below are relative to the repository's `src/` unless they start with another directory.

## 1. The system

One NestJS process (or several replicas of it) serves HTTP *and* executes every queue: the
processors are providers of the application module. PostgreSQL is reached through TypeORM at the
default isolation (READ COMMITTED), Redis holds BullMQ's queues, the feed caches and counters.

| Component | State it keeps | Operations that change it | Talks to |
| --- | --- | --- | --- |
| **articles / article analysis** (`articles`, `ai-analysis`) | `articles.status`, `article_analyses` (one row per article), `article_streams` (at most one primary) | create, mark pending, two-stage analysis (pre-screen, full), status writes, administrator's retry | queue (`article-<id>`), OpenAI, feed cache |
| **queue** (`queue`) | BullMQ jobs, attempts, retained failures | enqueue of each kind, prepare / activate / compensate a retry, cancel | every producer |
| **sources: health and ingestion** (`sources`, `feed-fetcher`) | `sources.status`, `consecutiveFailures`, `enabled`; `source_ingestion_attempts` rows | fetch, hand over to the browser queue, record success or failure, administrator's update and disable | scheduler, queue, articles |
| **source candidates** (`sources`) | `source_candidates.status`, `activatedSourceId`, provisional-source marker, `sources` rows created disabled | submit, create or refresh, validate, promote, reject, retry | discovery, queue, identity lock |
| **taxonomy source discovery** (`taxonomy`) | `taxonomy_source_discovery_requests` rows and links | create or reuse, run, retry, finish | queue, quota, candidates, OpenAI |
| **taxonomy and its quota** (`taxonomy`, `sources`) | `technology_interests`, user relations, `discovery_quota_records` | resolve, create, select, merge, update, disable | discovery, feed cache |
| **source discovery and extraction** (`sources`, `feed-fetcher`) | `web_source_configs` (the recipe), a daily counter in Redis | chain of sitemap, feed, cheerio, browser; the model's suggestion; healing of the recipe; extraction of pages | websites, OpenAI, browser queue |
| **article intake** (`articles`, `feed-fetcher`) | `articles` rows by `urlHash`, `titleHash` | look, extract, insert, mark pending, queue | analysis |
| **source manifest** (`sources`) | none of its own | sync, forced sync | sources, candidates |
| **scheduler** (`scheduler`) | none of its own | every five minutes: due sources, digest sweep | queue |
| **digest** (`digest`, `mail`) | `digests` rows, bodies, delivery status, `sentAt` | sweep, build, send, resend, preview | queue, mail |
| **feed** (`feed`, `public-feed`, `scoring`) | versioned Redis caches | read through cache, version bumps by every writer | users, articles |
| **user actions** (`user-actions`, `redirects`) | saved articles, feedback, personal links, permanent actions | save, react, open, email actions | articles, sources' preference counters |
| **auth, users, administrators** | users, refresh tokens, one-time tokens | register, verify, login, rotate, reset, onboarding | taxonomy, mail |
| **info pages, health, migrations, seeds, common** | CRUD, probes, clients | none with concurrency of interest | |

How they meet:

```
 scheduler --five minutes--> source-<id>-<bucket> jobs --> feed-fetcher ----> articles + article-<id> jobs
     |                                                      |   \--> browser-source-<id>-<bucket> jobs
     |                                                      v                                  |
     |                                                sources (health)  <---------------------/
     \--> digest-sweep --> digest-<user>-<type>-<period> jobs --> digests --> mail
 article-<id> jobs --> ai-analysis --> article_analyses, article_streams, articles.status
 user adds technology / administrator retries --> discovery request --> candidates --> candidate-<id> jobs
 candidate-<id> jobs --> validation --> sources (provisional, then enabled)
```

Everything is a message with at-least-once execution: BullMQ retries a failed job, and its stalled
check gives the job of a dead (or merely stuck) worker to another one. Rows are the only memory
between two executions. What each component has to guarantee:

- **analysis**: an article in `pending_analysis` has something that will take it out of there; an
  article marked analyzed *is* analyzed and its primary stream is the one it names; a pre-screen verdict
  and a full analysis are written once.
- **queue**: a deterministic job id never holds two executions; a retry prepared and not committed
  leaves nothing behind; a cancelled job is really gone.
- **ingestion**: status and failure counter agree, and the counter is the number of failures since the
  last success, but for what an administrator's save mixes; an attempt row has one writer until a lock is
  lost or a handover throws after it landed; every job comes to an end.
- **candidates**: a source is enabled only after its samples were accepted; creators of the same
  source do not collide; a queued candidate is decided.
- **digest**: sent means mailed; an empty digest is never mailed; a digest is generated once and a
  retry sends the same one; periods join without overlap; every job comes to an end.
- **discovery**: a request shown as queued or running has work behind it and gets an outcome; one
  execution at a time; the row's counters are exact.
- **source discovery**: no page outside the host or robots.txt is listed or rendered (some requests are
  made without asking: section 7); a website that a source was found on can be fetched again until it
  changes.
- **article intake**: two recent articles of one title are both originals only in a race; an article
  without an analysis job was forgotten by a fault and by nothing else.
- **manifest**: what the sync reports is true; a tuning is one that somebody chose.
- **taxonomy**: what recent quota records carry stays within the limit, names and selections hold under
  concurrent creations and merges.
- **user actions**: counters of a reader and of a source add up to the rows and the followed links; links
  are complete.
- **feed**: a page shows every change answered before it was asked for; a day is whole in every time
  zone; a selection leaves nothing better out; scores move the way interactions point.
- **accounts**: one usable refresh token per login; verification and onboarding are not undone.

## 2. What is hard

`PROJECT.json` lists every hazard with its line. The families:

- **Awaits.** A handler reads a row, awaits, and writes what it computed. Few places take a
  lock: the article row in `markFailed`/retry, the discovery request row in its retry, the identity
  and the quota advisory locks, the counters' rows of user actions. Everything else is
  last-writer-wins.
- **Several round trips that should be one.** Look at a retained job, remove it, add a delayed one,
  commit the row, promote the job (`queue.service.ts:71`, `article-analysis-retry.service.ts:29`);
  insert a digest and fill it in (`personal-digest-builder.service.ts:86`); create a source and note
  on the candidate that it is provisional (`source-candidates.service.ts:185`).
- **Stalled jobs.** BullMQ re-executes the job of a worker that lost its lock; if the worker is alive
  both go on. Whether a property survives that is a question of its own, and `LiveStalls` asks it.
- **Timeouts that do not cancel.** The browser processor races its work against a hard timeout and
  the loser goes on (`playwright-fetch.processor.ts:61`).
- **Stale entities.** TypeORM's `save` of an entity loaded earlier selects the row again, compares, and
  updates the columns that differ, without a lock: it writes back what somebody else has changed between
  load and comparison, and leaves alone what somebody changes between comparison and update. Both
  together mix two states of one row.
- **Crashes** between any two of these steps.

## 3. Modules

| Module | What it is |
| --- | --- |
| `JobQueue` | What a BullMQ job is, shared by all components: states, which of them execute, which are retained, the attempts arithmetic. External: modelled from how the code uses the library. |
| `ArticleAnalysis` | Ingestion's last steps, the job, its executions, the administrator's retry. |
| `ArticleAnalysisProofs` | The theorems about it. |
| `SourceIngestion` | One source: scheduling, fetch and browser jobs, attempt rows, health, administrator. |
| `SourceIngestionProofs` | The theorems about it. |
| `DigestDelivery` | One user and digest type: sweep, build, send, resend, preview over several days. |
| `DigestPromise` | The abstract specification that `DigestDelivery` implements. |
| `DigestDeliveryProofs` | The proof that it does, the other theorems about digests and those about the feed caches. |
| `SourceCandidates` | Candidates and the sources they become: submission, validation, promotion, retry. |
| `SourceCandidatesProofs` | The theorems about them. |
| `TaxonomyDiscovery` | One taxonomy row's source discovery: request row, job, processor, administrator's retry, merge. |
| `TaxonomyDiscoveryProofs` | The theorems about it. |
| `TaxonomyCatalog` | Technologies and interests, selections, onboarding, quota, merges. |
| `TaxonomyCatalogProofs` | The theorems about it. |
| `SourceDiscovery` | A web source and its website: chain, suggestion, recipe, scheduled fetches, robots.txt. |
| `ArticleIntake` | Fetches that take link after link: duplicates, extraction, insert, queue. |
| `SourceManifest` | The manifest sync beside operators and promotions. |
| `SourcesProofs` | The theorems about these three, and about a single worker's failure counter. |
| `UserActions` | Feedback, saving, opening and the counters, with the row locks they take. |
| `PersonalLinks` | Permanent links and e-mail actions created by several generators at once. |
| `FeedCache` | Versioned pages between requests, changes and expiry. |
| `FeedSelection`, `LocalDays`, `Scoring` | Pure functions behind the feed: which articles, which instants, which scores. |
| `Accounts` | A users row, its tokens and every request that writes them. |
| `ReaderProofs` | The theorems about `UserActions`, `PersonalLinks`, `LocalDays`, `Scoring` and `Accounts`. |
| `MC*` | The TLC instances: values, symmetry sets, and sums of components (below). |

Conventions. A variable is a table (a function from ids to records) or the set of executions of a
handler (`worker`, `run`, `request`, `op`, ...), each with a `pc` naming the next `await`. **An action is the code
between two awaits that other actors can observe**, with everything it assigns; a database
transaction is one action when the code runs it as one. A failing call is an action of its own that
enters the handler's `catch`. Where consecutive awaits only read, or (the attempt row of
`beginIngestionAttempt`) write what nobody reads in between, they are one action. History variables
(`excused`, `strikes`, `torn`, `delivered`, `bodiless`, `validated`, `lost`, `stale`, `disturbed`,
`overwrote`, `uncounted`, `doubled`, ...) record what happened for the properties and are never read by a
guard.

Sums. Components that meet only through the database, and whose tables do not meet at all in what is
modelled, are checked side by side in one run rather than multiplied: `MCSources`, `MCReader` and
`MCDigestDelivery` add a variable `component` that never changes, give every other component's
variables the value `None`, and prefix each property with `Runs("<component>") =>`. What varies about
a component are CONSTANTS of the sum, so that the theorems of section 6 hold for the sum as well. The state space
of a sum is the sum of the state spaces. `None` in a component's own variables keeps its meaning.

How the modules compose. `JobQueue` is extended by the five modules that own jobs. `SourceCandidates`
takes the candidates that `TaxonomyDiscovery` proposes as its action `Propose`; the manifest's
`Promote` is the end of a candidate's promotion; `SourceDiscovery` stands for the `Discover` step of a
candidate and for the fetch of `SourceIngestion`; `ArticleIntake` hands over to `ArticleAnalysis` at
`Queue`, and `FeedCache` sees an analysis as its action `Analyze`. `DigestDelivery` instantiates
`DigestPromise` with a refinement mapping.

### 3.1 `ArticleAnalysis`

| TLA+ | Code |
| --- | --- |
| `status`, `fresh` | `articles.status`, whether `publishedAt` is inside `ANALYSIS_WINDOW_HOURS` |
| `analysis`, `mainStream`, `streams` | the `article_analyses` row, its `mainStreamId`, the `article_streams` rows |
| `CreateArticle`, `MarkPending`, `EnqueueAnalysis`, `IngestInterrupted` | `FeedFetcherService.processItem` up to the enqueue of the analysis |
| `DelayElapses`, `StallDetected`, `TakeJob`, `CancelJob` | BullMQ and `AdminJobsController` |
| `LoadArticle`, `LookupAnalysis`, `Prescreen`, `ResumeAfterRace`, `RunFullAnalysis`, `WriteStatus` | `AiAnalysisService.analyzeArticle`, await by await, with the unique-violation path |
| `PrescreenFails`, `FullAnalysisFails`, `WriteFails`, `JobThrows`, `JobCompletes`, `WorkerCrash` | its two nested `catch` blocks and the processor |
| `BeginRetry` ... `RestoreStatus`, `RetryDies` | `ArticleAnalysisRetryService.retry` and `QueueService.prepare/activate/compensateArticleAnalysisRetry` |

The retry's transaction holds the article's row lock from `BeginRetry` to `RetryCommits`
(`Locked`); the job queue is *not* part of that transaction, which is what makes the component hard.
`excused` is set by exactly the events after which the code knowingly leaves a pending article
without a job: the ingesting process died or failed between its two writes, an administrator
cancelled the job, a stalled job used up `maxStalledCount`, a retry's process died, a retry
committed over a job that ended in the meantime. Abstracted: prompts, scores and tokens, which
content streams the model chooses (any subset of at most one primary and `MaxSecondary` others).

### 3.2 `SourceIngestion`

| TLA+ | Code |
| --- | --- |
| `bucket`, `due` | `Math.floor(Date.now() / 300_000)`; the orchestrator's due sources of each bucket |
| `source` | `sources.enabled`, `status`, `consecutiveFailures` |
| `job` | `source-<id>-<bucket>` and `browser-source-<id>-<bucket>` |
| `rows` | outcomes of `source_ingestion_attempts` |
| `run` | executions of `FeedFetchProcessor` and of `PlaywrightFetchProcessor.runJob`; `late` marks one that goes on without its job: its hard timeout has fired or its lock was lost |
| `admin` | `SourcesService.activate`, `disable` and `update` with their stale entity and the columns their save will write |
| `Activate`, `Disable`, `Update`; `SaveReads`, `SaveWrites` | `findOne` and the assignments; `save`: the SELECT and comparison, then the UPDATE of the differing columns |
| `strikes`, `torn`, `doubled` | history: failures recorded since the last success; status and counter come from two states of the row, by such a save; attempt rows that a browser job has and somebody else writes too |
| `Schedule` (`Tick`, `FindDue`), `Dispatch`, `RetryIngestion` | the orchestrator and the administrator's manual retry |
| `TakeFetch` ... `RecordSuccess`, `Complete` | `FeedFetchProcessor`, `FeedFetcherService` and the browser processor |
| `HandToBrowser`, `HandoverThrows` | the add to the browser queue, after which the fetch job is still active; the same add when it landed and threw |
| `AfterFetchFails`, `DatabaseFails`, `ReadHealth`, `RecordFailure` | the `catch` blocks and `recordIngestionFailure` |
| `HardTimeout`, `LosesLock`, `Crash`, `RecoverStalled` | the timeout race, a live worker without its lock (those of `LiveStalls`), process death, BullMQ's stalled check, which gives a job to a second execution in both cases |

A run goes through load, start of the attempt row, fetch, success path (`recordIngestionSuccess`,
cache bump, finish row) or failure path (`recordIngestionFailure` as a read and a write, finish row,
rethrow). A browser execution that lost its lock shares its attempt row with the one BullMQ starts anew,
since the row's id travels in the job; a fetch execution opens a row of its own each time. One source is
enough: nothing in the code relates two sources' health.

### 3.3 `DigestDelivery`

Time is a tick counter; a day has `DayTicks` of them and the sweep's window is the first. `digest` holds one
row per `periodKey`, with the start of the period it stored, its status, whether bodies are present and
`sentAt`. `SweepLooks`, `SweepRemoves`, `SweepAdds` are `DigestSweepService` and the queue calls it makes;
`PlanStored`, `PlanNew`, `Insert`, `Store`, `QueuePreview` and `BuildFails` are
`PersonalDigestBuilderService.buildForUser` (look up, choose the period, insert the draft, save the bodies);
`Load`, `Mail`, `MarkSent`, `MarkFailed` and their failures are `DigestProcessor`. Previews use keys of
their own and run outside the queue; resends run as jobs of their own over an existing row. `delivered` and
`bodiless` record what mail was sent. Remarks on the code the model makes visible, none contradicted by a
document: a failed resend marks a digest FAILED that was delivered before; the final save of a build writes
`status` and `sentAt` of the entity it inserted; a retry after a mail that was sent but not recorded sends
it again; articles published between a digest's `periodEnd` and its `sentAt` belong to no period.

`DigestPromise` says the same without sweeps, jobs, attempts or crashes: a digest is generated once
(`Generate`), mailed any number of times unless it is empty (`Mail`), and counts as sent only after it
was mailed (`CountAsSent`, `CountAsUnsent`). The mapping takes the start and end of every stored row,
the keys whose row is `skipped_empty`, those delivered, and those whose row says `sent`
(`KeepsPromise`, checked in `digest_periods` and proved in `DigestDeliveryProofs`). `Insert` is the
`Generate`; `Store` and `MarkFailed` take a digest from the sent ones; sweeps, takes, stalls, crashes,
failed attempts and the other steps of an execution stutter.

### 3.4 `SourceCandidates`

| TLA+ | Code |
| --- | --- |
| `candidate`, `source` | the two tables; ids of sources that nothing refers to are reused (bound) |
| `BeginCreate` (`Submit`, `Propose`), `Look`, `Save`, `Enqueue`; `AdminPromotes` | `SourceSubmissionService`, `SourceCandidatesService.create`; the administrator's retry |
| `TakeJob`, `Load`, `Discard`, `Unmark`, `Discover`, `Mark`, `Sample`, `Enable`, `Activate`, `Rollback`, `Reject`, `Failing` | `TaxonomySourceDiscoveryProcessor` for `candidate-<id>` jobs, `promote`, `rejectProcessingFailure` |
| `Provision`, `Insert` | `SourceIdentityService.resolveOrCreate`: the advisory lock with the second look, then the insert that the unique index guards |
| `SaveRow` | TypeORM `save` of the entity loaded at the start |
| `validated`, `lost` | history: sources whose samples were accepted; jobs that failed outside the handlers |

The lock and the insert are separate actions, so that `CreatorsNeverCollide` is about the lock and
not about the index. The candidate and the equivalent source are read together: no write of this
component distinguishes the two orders. Discovery's use of the candidates (`Discovers`) is an input.
Abstracted: URL normalisation and repository identity (two candidates are distinct identities, and
may lead to one `Feed`), coverage rows, quota.

### 3.5 `TaxonomyDiscovery`

| TLA+ | Code |
| --- | --- |
| `taxonomy`, `creator` | the `technology_interests` row; the request that created it, until its job is added |
| `request` | the `taxonomy_source_discovery_requests` row: status, `attemptCount`, `retryCount` |
| `job` | `taxonomy-<id>` |
| `TakeJob`, `Load`, `MarkRunning`, `Discover`, `SaveReads`, `SaveWrites`, `Finish` | `TaxonomySourceDiscoveryProcessor.process` |
| `BeginFails`, `SaveFails`, `WorkerCrash` | errors before the `try`, in either save, and process death |
| `BeginRetry` ... `RetryCommits`, `RetryAborts`, `CompensateRetry`, `ActivateRetry`, `CheckJob`, `RestoreStatus` | `TaxonomySourceDiscoveryRetryService.retry` and the queue's prepare / activate / compensate |
| `Merge` | `TechnologyInterestCommandService.merge`, for the row that loses |

The processor keeps its entity from `MarkRunning` to its last save. `Saved` is TypeORM's `save`: it
reads the row again and writes the columns in which the entity differs, without a lock in between;
hence `SaveReads` and `SaveWrites`. The retry holds the row locks of taxonomy and request while it
talks to the queue (`RequestLocked`), and `previousStatus` is empty when it creates the row, so that
such a row stays queued (`RestoreStatus`). `excused` is set by the events that leave an unfinished
request without a job: a stalled job that failed, a cancelled or compensated one, a merge that makes
the job return early, a database error before the `try` in the last attempt, a retry that commits
over a finished job or dies after it, an execution's save that leaves the row a status other than
its entity's (section 7). Abstracted: streams and proposals (the candidates they create
are the `Propose` action of `SourceCandidates`), timestamps and `lastError`.

### 3.6 `SourceDiscovery`

| TLA+ | Code |
| --- | --- |
| `site` | what the website answers: robots.txt line by line, sitemaps, feeds, groups of links on each listing page, static and rendered |
| `config`, `run`, `browse` | the `web_source_configs` row, fetches that have read it, a waiting browser job |
| `calls` | `source-discovery:ai-fallback:count`, reset by `NewDay` |
| `visits` | the pages that the last operation requested, each with the step `by` which: `cheerio` and `playwright` listings, `feed`, `snapshot` |
| `Rules`, `Allowed`; `ViaSitemap`, `ViaFeed`, `Direct`, `Selection`, `ViaListing`; `Discover`, `Chain` | `SourceDiscoveryService`, method by method, as functions of the website and the configuration |
| `CreateSource`, `Suggests`, `Revalidated`, `RetryValidation` | `SourcesService.createWebSource`, `SourceStructureAiService.suggestAndValidate` with the snapshot it sends to the model, `retryValidation` |
| `LoadFetch`, `Fetch`, `TakeBrowserJob`, `FetchViaBrowser`, `Heal` | `WebSourceFetcherService` with the update of the recipe |

`Rules` is `parseRobotsRules` without its loop: a rule counts if the last agent line above it names the
wildcard (`InWildcardGroup`, the code's `inWildcardGroup` at that line). `Open` are the two filters of
`discoverViaCheerio`, and `OpenOf` which of the requested entry pages pass them, in their order.

`Permitted` reads the same robots.txt by the Robots Exclusion Protocol, groups of several agents included;
it is the reference against which `VisitsArePermitted` compares the pages that the code lists or renders.
The code differs from it where an agent line follows the wildcard's in a group (`WildcardEndsGroups` says
that none does). It asks nobody for three requests: `Direct` and `ViaFeed` fetch the home page itself, and
`Suggests` the first entry page. `VisitsArePermitted` bounds these to exactly those pages. `MCSources`
varies two families of websites: all robots.txt files of up to three lines (`Ruled`), groups of several
agents among them, and all combinations of sitemaps, feeds and listings (`Shaped`). A suggestion may name
entry pages; a creation by one is `worked = "suggested"`, because the row keeps the pages asked for.
Abstracted: pagination, link patterns, HTTP retries; links that are no likely articles are left out of the
listings.

### 3.7 `ArticleIntake`, `SourceManifest`

`ArticleIntake` is `tryIngestArticle` and `processItem` call by call: `Look` (by `urlHash`), `Request`
(extraction: JSON-LD, OpenGraph, readability, selector, publication signals), `LookForTitle`, `Create`
(refused by the unique `urlHash`), `PersistMethod`, `Pend`, `Queue`; an error in one link is caught
and the fetch goes on. `struck` records the urls at which an error or a crash hit after the insert.

`SourceManifest` is `syncAll` statement by statement: `Start` (the sources known by identity, read
once), `Begin` of an entry, `Load` and `Save` (`update` saves the whole row it read), `Probe`,
`FindEquivalent`, `Create`, `Upsert` and `Reject`; operators create, tune and remove sources and a
worker promotes candidates in between. A row's `chosen` is a history of the tunings somebody gave it.

### 3.8 `TaxonomyCatalog`

`rows` are `technology_interests` with kind, name, aliases, merge target and soft deletion; `links` and
`streams` a user's selections; `quota` the `discovery_quota_records` under their advisory lock. A
request is `OnboardingService` with the resolver, statement by statement: resolve by name, alias or
similarity, reserve the quota, insert or find the row another inserted, queue its discovery, replace
the selection in one transaction, bump the feed's version. Administrators create, merge and update at
the same time. A row's `creator` is a history: the user and the key it was inserted for and the age that the
record of that key had then (`none`, `recent`, `older`). `reserve` returns early when there is a record, of
whatever age, so that a creation under an old record counts for nothing: what a record `Charged` may be is in
`QuotaIsKept`, and that each creation has a fresh record of its own is refuted in section 7. `disturbed`
records that a save wrote back what had changed since it was read or that
an alias was taken away; `stale` the users whose selection changed after their feed's version did.

### 3.9 `UserActions`, `PersonalLinks`

`UserActions` models each transaction with the row locks PostgreSQL takes (`Lock`, `Waits`, KEY SHARE of
foreign keys included) because the counters rest on them: the interaction's row, the reader's
`user_source_preferences`, the source. Writes appear at `Commit`; `RollBack` undoes everything, also when
PostgreSQL breaks a deadlock. The insert of an opening that exists is ignored, and the transaction goes on
and counts the open: TypeORM returns one identifier per value set, ignored or not, so the test of
`identifiers.length` never ends it. A source that was removed is not found by `ReadSource`, nor by
`ReadSourceAgain`, the second call that replaced feedback makes: the preference counts and the source does
not. `LoadSource`, `CompareSource`, `WriteSource` and `RemoveSource` are an administrator's load, the two
halves of TypeORM's `save`, and the soft delete; `uncounted` records the counters that such a save, or an
interaction without its source, left wrong. `PersonalLinks` models the create-or-find of links and of e-mail
actions as a batch insert, a refetch when it is refused, and single inserts for what is still missing.

### 3.10 `FeedCache`, `FeedSelection`, `LocalDays`, `Scoring`

`FeedCache` is one user, one stream, one filter: a reader reads the version counters, looks the page
up, computes it from the database and stores it with a time to live; writers save and then raise the
user's version, ingestion raises the stream's. The three others are pure: `Init` ranges over every
input within the bounds and one action computes the answer as the code does (`DistributeAcrossStreams`' rounds
and backfill, the UTC/offset arithmetic of `timezone.util`, weights and the smoothed adjustment in
hundredths), the properties are the reference definitions.

### 3.11 `Accounts`

`user` is the row, `token` verification, reset and refresh tokens, `op` the requests. One step is one
statement. Every write of the row is a TypeORM save of the entity loaded before (the copy in `op`),
so `overwrote` records a save that wrote back a column changed since the load and `doubled` that two
requests presented one refresh token at a time. Passwords and profiles are version numbers.

## 4. Runs

Every run's properties each come with a mutant of the modelled code that violates them
(`PROJECT.json`, "mutants"), so none of them holds by the shape of the model.

| Run | Instance | Shows |
| --- | --- | --- |
| `analysis_exclusive` | 1 article, 2 workers, 2 retries, 2 attempts, 1 stall, no live stalls | `PendingHasWork`: a pending article has an executable job, a step in flight that will provide one or take the status back, or a recorded excuse. `OneExecution`, `AnalyzedIsComplete`, `PrimaryAgreesWithMain`, `FullAnalysisIsKept`. 3.1 million states. |
| `analysis_double` | 1 article, 2 workers, 1 retry, 1 stream, live stalls | What survives two executions side by side: `PendingHasWork`, also where the loser of a lock returns while the winner's job is retried, and `VerdictIsFinal`. |
| `analysis_liveness` | 2 workers, 1 retry | `PendingSettles`: pending leads to a final status or an excuse. |
| `source_shared` | a fetcher, two browser promises of which one may lose its lock, an administrator, crashes, 1 attempt, thresholds 2 and 3 | `StatusMatchesFailures`: status and counter agree whoever writes last, unless a save wrote one of them next to a newer value of the other (`torn`). `OneWriterPerRow`: two executions write an attempt row only after a lost lock or a handover that landed and threw (`doubled`). Under fairness, `JobsSettle`. 862,518 states. |
| `sources_components` | sum: ingestion of one source (1 fetcher that may lose its lock, 2 attempts, 2 buckets, thresholds 2 and 3), discovery (2 concurrent fetches, a daily cap of 1, 1 redesign), candidates (1 candidate, 1 worker, 1 request, 2 source ids), manifest (3 entries, 2 syncs, 2 tunings), intake (a feed and a website, 2 links of one article) | `FailuresAreExact`: without overlapping executions the counter is the number of failures recorded since the last success. `VisitsAllPermitted`: what is listed or rendered is permitted, what is requested unasked is the home page or the first entry page; `FoundWorksAgain`; `ManifestHolds`; `IntakeIsAccountedFor`. 3.28 million states. |
| `digest_periods` | 2 days, a preview and a resend, faults | `PeriodsFollowScheduledMail`, and `KeepsPromise`: `DigestDelivery` implements `DigestPromise`, which includes that sent means mailed and that an empty digest is never mailed. |
| `digest_retries` | sum: digest (1 day, 2 workers, a sweep, live stalls, crashes) and cache (2 readers, a writer, 2 changes, 1 article) | `BuiltOnce`: once its bodies are stored, nothing changes a digest's period or content; `JobsSettle`; `ChangesShow`: a page asked for after a change was answered shows it; `PagesCatchUp`. |
| `reader_components` | sum of seven, below | `ActionsAddUp`, `OnlyFirstActionsDeadlock`, `SelectionShowsTheBest`, `DaysAreWhole`, `CatalogHolds`, `OneTokenPerSession`, `NothingGoesBackwards`. 2.06 million states. |
| `candidates_liveness` | a candidate, a worker, a request, 3 source ids, no discovery | `CreatorsNeverCollide`, `EnabledWasValidated` and, under fairness, `CandidateSettles`. |
| `discovery_requests` | 2 workers, an administrator who asks twice, 2 attempts, faults everywhere | `UnfinishedHasWork`, `OneDiscovery`, `RequestSettles`. |
| `digest_bodiless`, `candidates_unvalidated` | the smallest instances | counterexamples, section 7. |

`SourceIngestion_retries.cfg` checks the properties of `source_shared` with two attempts and with lost
locks of the fetcher as well, without the administrator (879,507 states, three minutes). With the
administrator its 10.9 million states are too many for the liveness property; the safety properties hold.

`TaxonomyDiscovery_two_requests.cfg` checks the safety properties of `discovery_requests` with two
administrators who ask at the same time; it is kept out of the runs for its 6.2 million states, too
many for the liveness property, and finds no error.

The components of `reader_components` and their bounds: *actions*, 2 readers of 1 article with 2 contexts, 2
requests at a time and an administrator's save, 4 in all with the removal of the source (two readers' first
actions, a reader's double click, an undo during either, a save that spans one); *links*, 3 generators over
2 articles (one that looks, one that inserts part, one that inserts the rest); *selection*, all inputs of 4
candidates in 2 streams with 2 scores under caps of 3, so that both the cap and the backfill bite; *days*, 3
days, offsets -5, 1 and 10, a transition at every hour of a day and a half; *scoring*, 3 interactions over
every profile and article of 2 technologies, an interest and a stream; *accounts*, 3 requests (two at a
time) and 3 tokens; *catalog*, 2 requests over 3 names of which 2 are similar, 3 rows, one selection, a
quota of 1, from a catalog of one row or three. The websites of discovery are those of section 3.6.

Properties that join several components or conjuncts (`ActionsAddUp`, `CatalogHolds`, ...) have one
mutant in `PROJECT.json`; each of the other conjuncts has one in its module too, a definition
commented "Mutant" before the one it replaces (`DirectFieldsAnew`, `ExtractionByTitle`,
`PersistAndLeave`, `MailErrorIgnored`, `DistributeStreamByStream`, `SelectUpToLimit`, `StartOfDayUTC`,
`ThrowsAtOnce`, `OverlapOfSelection`, `RecencyOfUnknown`, `OpenOnAnyHost`,
`RevalidatedUnchecked`, `EquivalentByDomain`, `LookUpUnreserved`, `RemoveNothing`, `AliasesOfBoth`,
`DeltaKeepingReplaced`).

Why the bounds are enough. *One* article, source, user or candidate: rows and job ids of different
ones never meet in the code (the exception, two candidates that lead to one feed, is what
`Feeds` and `Sources` are for). *Two* workers or requests: every race in the code is between two
holders of the same row or job id; a third can only repeat one of them, and the proofs of
section 6 remove the bound altogether for the properties they cover. *Attempts*: 2 is the smallest number with
a retry that is not the last. *Stalls*: BullMQ's default of 1.
*Days*: a period depends on the digest before it, so two. *Buckets*: a job and its
successor. *Thresholds*: `source_shared` keeps the order DegradeAt < DisableAt with the smallest
values at which a source is active after a failure. Clock and bucket stop at their last value
(`MaxDay`, `MaxBucket`), and jobs really may all be done: `CHECK_DEADLOCK FALSE` where that happens.
Symmetry is used in safety runs only.

## 5. Fairness

- **Weak fairness of every step of an execution that has begun** (`RunStep`, `WorkerStep`,
  `RetryStep`, ...): a promise that can continue does, or its process dies, which is an action
  without fairness. External calls have timeouts, so they return or throw.
- **Weak fairness of `TakeJob`, `DelayElapses`, `StallDetected`**: BullMQ workers poll, delayed jobs
  become due, and the stalled check runs periodically. In `SourceCandidates` a job competes with
  other jobs for one worker: BullMQ's lists are first-in first-out, hence strong fairness there.
- **Strong fairness of steps that wait for a lock** (`WriteStatus`: the article's row lock, `Provision`: the
  advisory lock, `MarkRunning` and `SaveWrites` of a discovery: the request row's lock). PostgreSQL queues
  waiters, so a lock that is free again and again is granted.
- **`FeedCache`: weak fairness of a reader's steps and of the expiry of a page**: requests go on and
  Redis drops what is past its time to live. `PagesCatchUp` needs nothing else: once changes stop,
  every page that lacks an article expires and is computed anew.
- **None** for crashes, failures, cancellations, timeouts, requests, clock and scheduler.

## 6. Proofs

### 6.1 `ArticleAnalysisProofs`

For any finite or infinite sets of articles, workers, retries and
streams and any bounds satisfying `NoneAssumption` and `BoundsAssumption`, the theorems are:

| Theorem | States | Needs |
| --- | --- | --- |
| `TypeCorrect` | `[]TypeOK` | nothing more |
| `PendingKeepsWork` | `[]PendingHasWork` | nothing more: also with live stalls |
| `VerdictsAreFinal` | `[][VerdictIsFinal]` | nothing more |
| `ExecutionsAreExclusive`, `AnalyzedArticlesAreComplete`, `PrimaryIsMain`, `FullAnalysisIsFinal` | the other properties of `analysis_exclusive` | `~LiveStalls` |

The argument. `PendingHasWork` is not inductive: whether a retry's next step leaves a job behind
depends on what it saw and on who else could have touched the job since. `QueueInv` collects those
facts: a request or execution that is busy has an article (`Subjects`); how deep in its `catch`
blocks an execution may be (`CatchDepth`); one retry per article holds the row lock
(`OneTransaction`); only retained jobs are removed (`RemovesRetained`); a job is active exactly when
somebody owns it or lost it (`Ownership`); an executable job has attempts left (`AttemptsLeft`).
With those, `PendingInv` says for each pending article which actor still owes it a job. Under
`~LiveStalls`, `Exclusive` (an execution that has begun owns the active job of its article) is
inductive, and `RowInv` relates the execution's `pc` to what it has already written; the remaining
theorems follow. `RowBehindFull` does the same for one row without exclusiveness. The proofs have one
lemma per actor and conjunct; `ByActor` splits `Next`, the `*Frame` lemmas say what each actor leaves
alone, the `*Moves` lemmas what becomes of its article.

### 6.2 `DigestDeliveryProofs`

For any sets of workers, sweeps, previews and resends, any number of days, ticks, attempts and stalls,
with or without crashes and lost locks, from `ClockAssumption`, `BullAssumption` and `NamesAssumption`
(job ids and preview keys are not days, and no name is `None`):

| Theorem | States |
| --- | --- |
| `DigestTypes` | `[]TypeOK` |
| `PeriodsFollow` | `[]PeriodsFollowScheduledMail` |
| `BuiltDigestsStay` | `GeneratedOnce`, that is `[][KeepsBuilt]_vars` |
| `ImplementsPromise` | `KeepsPromise`: `DigestDelivery` implements `DigestPromise` |
| `AnsweredChangesShow` | `[]ChangesShow` of `FeedCache`, for any sets of readers and writers |
| `SumTypes`, `SumChangesShow`, `SumBuiltOnce` | `TypesOK`, `ChangesShow` and `BuiltOnce` of `MCDigestDelivery`, the sum that `digest_retries` checks |

The argument. `DeliveryInv` gives each row, job and execution the facts its next step relies on, as
operators of the digests and the first mails (`RowIsSound`, `JobIsSound`, `RunIsSound`): a row that
counts as sent was mailed before its `sentAt`; an execution about to store or mail has a digest with
articles, whoever else has touched it since; an execution about to insert carries a period that
follows a mail; a resend's digest exists. `PeriodsFollowScheduledMail` is not inductive without the
first and the third, because the period is read in `PlanNew` and written in `Insert`, and without
`sentAt >= delivered` the next period could begin before the mail. `RowsStay` says what every step
leaves of the rows, and `FollowsStays`, `RunSoundStays` and `JobSoundStays` that the facts survive it,
so each action only argues about the execution it moves. `Exclusive` (whoever holds a job's lock
executes it alone) makes settling a job harmless to the others. That the period starts at a stored
`sentAt` or at the cap needs that `Max` of a bounded set of integers is one of them (`MaxOfBounded`,
by well-founded minimum) and that the clock's day is one of `Periods` (`DayOfTime`). For the
refinement, `DigestWrites` reduces the steps that write rows to an insert or a rewrite that keeps the
period (`Rewritten`); each is one action of `DigestPromise`, and so is a mail.

The caches. A page is keyed by the version that its reader had read, not by the one its content was
computed at. `Serves(u, p)` says when a page that shows the changes up to `p` may stay under version
`u`: if `u` is the present version it shows everything announced, and it shows what was promised to
every reader that still looks under `u` or an earlier version. `PagesServe` asks it of each cached page,
`ReadersKnow` of the page a reader is about to store. A writer that saves makes pages newer; one that
announces raises the version, so no page stands under the new one. In the sum nothing is left to show
but that `component` never changes and that each component's steps are its own.

### 6.3 `SourceIngestionProofs`

For any sets of fetchers, browser promises and administrators, whichever of them may lose their locks,
and any limits:

| Theorem | States |
| --- | --- |
| `IngestionTypes` | `[]TypeOK` |
| `StatusAgreesWithCounter` | `[]StatusMatchesFailures`: unless `torn`, status and counter agree |
| `RowsHaveOneWriter` | `[]OneWriterPerRow`: an attempt row with two writers is `doubled` |
| `SoloCountIsExact` | `[]CountIsExact`, for a single worker and no administrator |

The argument. A save may write either column, both or neither, so `HealthInv` asks of what every
administrator holds what it asks of the row, that the two agree unless it is torn: where the two columns
after an UPDATE are those of the entity they are consistent with it, where neither was written they are the
row's, and anything else is what `torn` records, until a recording or an activation that writes both. `torn`
says no more than that: it compares the written columns with the entity, never with the thresholds.
`OneWriterPerRow` needs to know where a row number is kept: by the fetcher that opened it or by one browser
job, whose execution copied it (`RowsHeld`, `Employed`); that the executions of one job are late but for one
(`JobsHeld`); and that a browser job with two executions, or with a late one and still to settle, has its
row in `doubled` (`SharesHeld`). Each event that breaks the separation (a browser execution's lost lock, a
handover that landed and threw) puts that very row there; a hard timeout does not, because it settles the
job. A fetch execution that loses its lock shares no row with its successor. The last theorem supposes away
what makes the counter inexact, a second actor; with two of them only `strikes`' excuses hold, which
`sources_components` checks.

### 6.4 `SourceCandidatesProofs`

For any sets of candidates, workers, requests, source ids and feeds and any limits:

| Theorem | States |
| --- | --- |
| `OnboardingTypes` | `[]TypeOK` |
| `LockSerializesCreators` | `[]CreatorsNeverCollide` |
| `EnabledSourcesWereValidated` | `[]EnabledWasValidated` |

The argument. `LockInv` adds to `CreatorsNeverCollide` that the holder of an identity's lock is alone:
together they are inductive, since every action that could make the identity's source appear has to
be that holder's. For `EnabledWasValidated` the critical gap is between a source's validation and its
enabling, where another execution may delete it: an execution about to enable refers to a validated
source or to an id without a row (`EnabledInv`), and such an id goes to no new source while it is
referred to.

### 6.5 `TaxonomyDiscoveryProofs`

For any sets of workers and administrators and any bounds; the last two suppose that live workers keep
their locks (`~LiveStalls`):

| Theorem | States |
| --- | --- |
| `DiscoveryTypes` | `[]TypeOK` |
| `DiscoveriesAreExclusive` | `[]OneDiscovery` |
| `UnfinishedKeepsWork` | `[]UnfinishedHasWork` |

The argument is that of the analysis (`QueueInv`: one retry in its transaction, only retained jobs
removed, attempts left, the lock's holder alone, each execution's progress). `OutcomeShown` is what the
row adds: an execution that is about to end the job has left an outcome in the row. It was not
inductive: a save writes only the columns in which the entity differs from what it just read, so an
execution may end on a row that a retry has set to "queued" in between. TLC found the behaviour once the
bound on retries was raised; the excuse is recorded in `SaveWrites` (section 7).

### 6.6 `SourcesProofs`

The properties of `sources_components`, for every value of the constants of `MCSources`:

| Theorem | States | Needs |
| --- | --- | --- |
| `FailuresAreAlwaysExact` | `[]FailuresAreExact` | nothing: one worker, no administrator, as in the sum |
| `ManifestAlwaysHolds` | `[]ManifestHolds` | `ManifestBound`: normalising an identity twice changes nothing, the manifest has an entry, no row is `None` |
| `IntakeAlwaysAddsUp` | `[]IntakeIsAccountedFor` | `IntakeBound`: a fetch has a link, a link and its normal form lead to one title |
| `VisitsAlwaysPermitted` | `[]VisitsAllPermitted` | `SiteBound`: paths and rules are sequences of segments, every page named has a path |
| `FoundAlwaysWorksAgain` | `[]FoundWorksAgain` | `SiteBound` |

The instance of the run satisfies each of these hypotheses: TLC evaluates them to TRUE on it, but for the
last conjunct of `SiteBound`, that a model value is no record, which ranges over all selectors.

*Manifest.* What the sync knows of a row it learned once at its start, and others remove, add and
save rows since. `SyncInv` says what stays true of that knowledge: the row is still there (removing is
soft) with its identity (`Keeps`), and the tuning in a copy about to be saved was chosen for the row,
because `chosen` only grows. `OperatorInv` says the same of an operator's copy: a save that changed a
row's identity would make an answer "updated" untrue.

*Intake.* `FetchInv` says what a fetch past each statement knows: past the look for the title, that what
it saw then held no such title; past the insert, what the row says. Two originals of one title each did not see
the other, so both looks came before both inserts: `OriginalsAreNew` is all that `DuplicatesOnlyInRaces`
needs. `ForgottenOnlyByFaults` is inductive with them, since a fetch leaves an article that it inserted
in three ways only: after `Queue`, through the error path or by a crash.

*Discovery: robots.txt.* The code keeps a flag while it reads the lines; the protocol speaks of groups. Where
no agent line follows the wildcard's in a group, the last agent line above a rule is the wildcard's whenever
the wildcard governs the rule (`OwnGroupGoverns`); that condition is in the property, about the robots.txt
at hand, and any other file is allowed. The code compares the
longest disallowing with the longest allowing prefix; the protocol takes the longest of all and prefers allow:
`Allowed` implies `Permitted`. `RecipeInv` then says that every page listed or rendered passed `Open`, that what
was requested as a feed is the home page and what the model was shown the first page asked for (`OpenVisits`),
through creation, chain, suggestion, scheduled fetches, browser and healing.

*Discovery: found once, found again.* `Works(site, entries)` says that the website offers something that
the chain finds, with a browser if there is one. `WorkInv` keeps it from the moment the source was found until a
redesign, and says of each fetch handed over to the browser that nothing but the browser finds
anything (`Unfound`). The recipe's method and selector do not occur in it: a fetch whose recipe fails falls
back to the chain, and a selector that selects nothing is replaced by the best group of links. Hence a remark
on the code: a suggestion that names no entry pages cannot succeed where the chain failed. One that names
some can, on pages that the row then does not keep, so `WorkInv` starts at the first success after it.

### 6.7 `ReaderProofs`

For any sets of users, articles, contexts, generators, requests and tokens, and any bounds. The first part is about
`UserActions` by itself (`A!Spec`), the others are about `MCReader`'s sum as well.

| Theorem | States | Needs |
| --- | --- | --- |
| `CountersMatchRows`, `OpensCountLinks`, `SourceAddsUp` | `PreferenceCountsRows`, `OpensAreTracked`, `SourceSumsReaders` | nothing |
| `TransactionTypes`, `AccountTypes` | types of `UserActions` and `Accounts` | bounds are numbers |
| `ActionsAlwaysAddUp` | `[]ActionsAddUp`: these three and what `PersonalLinks` promises | nothing |
| `OnlyFirstActionsDeadlockHolds` | `[]OnlyFirstActionsDeadlock` | nothing |
| `SessionsHaveOneToken`, `OneTokenAlways` | `OneTokenPerSession`, in `Accounts` and in the sum | the bound is a number |
| `ProgressKept` | `ProgressIsKept` | the bound is a number |
| `DaysAlwaysWhole` | `[]DaysAreWhole` | `DaysBound`: offsets in whole hours, shifts of one hour at most |
| `NothingEverGoesBackwards` | `NothingGoesBackwards`, an action property | finitely many technologies and interests |

*Transactions.* `Rank` orders the locks: link, interaction, article, preference, source. `LocksInOrder`
bounds the ranks a request holds by where it is (`Below`), and `WantsNext` says that each statement locks
above that bound; the one exception is the source, of which a first interaction holds a KEY SHARE lock
already. So a circle of two waits contains two such requests. Nothing about the order of transactions is
needed for the counters, only that held locks exclude each other (`LocksExclude`): whoever holds its
interaction's row knows whether the row exists and what it says (`KnowsRow`), whoever holds a
preference's row knows its counters (`KnowsCounters`), and no commit touches what another knows
(`CommitOthers`). A commit then moves rows and counters by the same amount (`CommitRows`), and since the
result is a number of rows the code's cut at zero never bites. The source's sum is a fold over the
readers: `TotalAdds` reads its definition as a function on the subsets of the readers, whose existence and
value at a set with one reader more (`TotalStep`) follow from well-founded induction on finite subsets, applied
to sets instead of predicates; `SourceInv` then says that a request about to commit a first or changed
action on a source that it found holds the source's row and knows it (`KnowsSource`); an administrator's
UPDATE waits for that lock, and every counter that it changes is in `uncounted`. The opens follow the links:
`tracked` and the openings change in the step that marks a link as followed (`OpenedByCommit`), so
`OpensCountLinks` counts links, not readers.

*Links.* `Fits` says of each call what it may return: only keys it wants, each found in the table as it
is there (rows are never removed), everything it wants once it is done, unless a fault or, for actions, a
race took something (`unlucky`, `raced`).

*Days.* `MidnightIsRight` is the heart: where no transition falls between the local midnight and the
midnight of UTC, the instant that the code computes for the start of a day separates the instants of
earlier days from the others. `\div` is reduced to comparisons with multiples of 24 first.

*Scores.* `Scoring` counts in hundredths, with a quotient and a cut at both ends. `Quotients` and
`AdjustmentGrows` say that the smoothed adjustment grows with a like and falls with a dislike though its
denominator grows with both; `MoreOverlap` that the overlap with a larger selection is no smaller.

*Accounts.* A session is continued by a usable refresh token, or by a request between spending one and
issuing the next (`Continues`); `OneContinuation` says that there is one of these for each session, and
`Numbered` that the sessions of new requests are new. `doubled` becomes true exactly in the step that
would break it, the spending of a token that is spent. `ProgressKept` follows step by step: the only
statement that can take a flag back is a save whose entity differs from the row.

### 6.8 `TaxonomyCatalogProofs`

For any sets of users, requests, rows and streams, finite sets of kinds and names and any limit (`Bound`):
`CatalogInvariant`, `CatalogTypes` and `CatalogAlwaysHolds` (`[]CatalogHolds`, four properties at
once). The argument.

- `Holds` says what a request has in hand at each of its statements: a key, a row that exists, an
  entity whose kind and creator are still the row's.
- `Metered`: whoever is about to record a creation holds its user's advisory lock, so the count it saw is
  still the user's, and only one request per user is there; hence recent records never exceed the limit.
- `QuotaIsKept` counts rows: those whose creator's key has a recent record and is still the row's name. Names
  are unique, so these rows map one to one into the user's recent records (`ChargedAtMostRecent`).
- `Paid`: whoever is about to insert for a user has a record of that key, of whatever age. Records are never
  removed, they only grow older, and a row's creator never changes, so `CreationsArePaid` survives
  everything else.
- `Succeeded`: a row merged away has left its name to a live row of its kind, unless `disturbed` says which
  of the three excuses happened. With `UniqueKeys` it gives `NamesKeepResolving`.
- `Solo`: what a request that nobody runs beside has linked and removed so far, phase by phase
  (`Resolving`, `Replacing`, `Leaving`), with `Alone`, that while it runs all others are idle.

### 6.9 Only model-checked

- Liveness: fairness and ENABLED are outside the prover.
- `SelectionShowsTheBest`: `FeedSelection` is written with the community modules' sorts and filters of sequences
  (`SortSeq`, `SelectSeq`, `FlattenSeq`), whose recursive definitions the installed provers cannot expand.
  TLC checks it on every input within its bounds.
- `TypesOK` of `MCSources` and `MCReader`, the conjunctions of five and seven type invariants. The types
  that the other theorems need are part of their invariants, and those of `SourceIngestion`,
  `SourceCandidates`, `UserActions`, `Accounts` and `TaxonomyCatalog` are theorems of their modules;
  those of `FeedSelection`, `PersonalLinks`, `SourceDiscovery` and its neighbours are checked only.

What recursive data computes for every input stays out of reach: the library's induction theorems take an
operator. Induction over numbers and finite sets does not need them, though: where a
proof has to count it takes the least counterexample of a set (`NatSetHasMinimum`, from `WFMin`). That
needs definitions which speak of positions and sets rather than of a loop's state; the robots rules and open
pages of `SourceDiscovery`, folds before, were restated so, and TLC confirmed on all robots.txt of up to four
lines and on all websites of section 3.6 that the two agree.

Each inductive invariant was checked by TLC on the bounds of its module's run, or larger ones, before it
was proved. Modules that TLC only reaches through INSTANCE (`FeedCache`, `UserActions`, `Accounts`, ...)
state no assumption: their theorems carry the bounds' types as hypotheses (`CacheBounds`, `AccountBound`, ...),
which hold on the runs' instances.

## 7. Findings and further observations

Two counterexamples are part of the runs and listed under "findings":

- **`digest_bodiless`**: `buildForUser` inserts the draft with empty bodies and fills it in later; an attempt
  that fails in between leaves a draft which the retry takes for the finished digest and mails.
- **`candidates_unvalidated`**: an attempt that fails after creating the provisional source and
  before noting it on the candidate makes the retry take that source for someone else's and set the
  candidate ACTIVE on it, unsampled and disabled.

The other configurations kept here are counterexamples to readings of the documents. TLC finds each
of them violated; they are observations to discuss rather than defects. A configuration with several
properties is checked with one of them at a time, since TLC stops at the first.

| Configuration | Property | What the code does, and what it disagrees with |
| --- | --- | --- |
| `ArticleAnalysis_retry_overtaken` | `RetryCommitsRecoverable` | A retry that finds the job active commits PENDING after that job's last write (`article-analysis-retry.service.ts:28-35`; `admin-articles.controller.ts:84`). |
| `ArticleAnalysis_rejected_analyzed` | `RejectedIsNeverAnalyzed` | With live stalls the loser of the pre-screen race reports a rejected article as analyzed (`ai-analysis.service.ts:172-176`; `ai-analysis/README.md:31-32`). |
| `ArticleAnalysis_primary_diverges` | `PrimaryAgreesWithMain` | With live stalls, a second analysis without a main stream nulls `mainStreamId` and keeps the primary row (`ai-analysis.service.ts:296-306`; `article-stream.entity.ts:14`). |
| `SourceIngestion_disagreements` | `HealthAgrees` | `save` updates the columns that differ from the row as it is at its SELECT. An activation that compares before a failure is recorded and updates after it leaves `{degraded, 0}`, a row of two states (`sources.service.ts:446-453`, `347-352` against `412-425`; `sources/README.md:60-61`). In the same way an activation can be answered and leave `enabled` false. |
| | `DisabledStays` | A failure recorded by a fetch in flight takes a disabled source back to active or degraded (`sources.service.ts:414-425`; `README.md:233`). |
| | `DegradedAfterJobs` | Three attempts of one job are three failures (`feed-fetcher.service.ts:85`; `README.md:231`). |
| | `UpdateKeepsHealth` | An update saves the health it loaded (`sources.service.ts:351`). |
| | `SuccessStands` | A cache bump that fails after a recorded success records a failure (`feed-fetcher.service.ts:81`; `feed-fetcher/README.md:19-20`). |
| | `OneIngestion` | After a handover the next fetch overlaps the browser job (`web-source-fetcher.service.ts:69`; `feed-fetcher/README.md:19`). |
| `DigestDelivery_resend_shifts` | `ResendKeepsPeriod` | A resend rewrites `sentAt`, which is the next period's start (`digest-query.service.ts:73`; `admin-digest.controller.ts:90`). |
| `SourceCandidates_disagreements` | `EnabledIsKept` | A later failure deletes the source a promotion enabled (`source-candidates.service.ts:289-290`; the comment at 145-146). |
| | `ProvisionalIsDeleted` | A rejected candidate leaves its provisional source (`source-candidates.service.ts:175`; `sources/README.md:42`). |
| | `PendingIsQueued` | A candidate committed before its job was added is queued by nobody (`source-submission.service.ts:63`; `sources/README.md:22`). |
| | `RefreshKeepsStatus` | The refresh of a candidate saves the status it read (`source-candidates.service.ts:103`; the comment at 80-81). |
| `TaxonomyDiscovery_retries_lost` | `RetriesAreCounted` | The processor's save writes back the `retryCount` it loaded and drops a retry counted in between (`taxonomy-source-discovery.processor.ts:117-135`; `taxonomy/README.md:26-27`). |
| `Reader_disagreements` | `ActionsAreComplete` | A batch of e-mail actions refused because another call had created *some* of its rows yields the rows found and none of the rest (`permanent-article-action.service.ts:66`; its comment). |
| | `OpensCountReaders` | The identifiers of an ignored insert are not empty in TypeORM 0.3.28, so the second link of an article counts its reader again, as the article's open and in the preference and the source (`personal-article-link.service.ts:137`; `user-actions/README.md:12-13`). |
| | `CreationsAreCounted` | `reserve` returns early for a key that has a record, however old: a name whose first creation failed after its reservation, or whose row an update renamed, is created later without being counted (`discovery-quota.service.ts:25`; the message of line 36, "at most ten operations are allowed in a rolling 24-hour period"). |
| | `OnlyMidnightTransitionsMisjudged` | The offset is looked up at midnight of UTC, so a transition at one to three in the night, between that and the local midnight, is misjudged as well (`timezone.util.ts:41-45`, its comment). |
| | `VerifiedStays` | A save of an entity loaded before a verification writes the old flag back (`auth.service.ts`, `onboarding.service.ts`, `user-command.service.ts`). |
| | `NewRowsAreDiscovered` | A row whose discovery could not be queued after its insert is found, not created, by every later request (`technology-interest-command.service.ts`). |
| | `SelectionsAreLimited` | A request adds its selections one by one before it removes the old ones; one that fails in between leaves both (`onboarding.service.ts:45-52`). |
| | `LinksAreLive` | A link inserted while its row is merged away stays on the merged row (`technology-interest-command.service.ts:106`). |
| `Sources_disagreements` | `EveryRequestPermitted` | The home page is requested as a feed and for its declared feeds, and the first entry page for the model's snapshot, without asking for host or robots.txt (`source-discovery.service.ts:145`, `407`, `source-structure-ai.service.ts:182-186`); of several user-agent lines that share a group only the last one counts (262-266). The comments at 111-114 and 644-647 speak of every request. |
| | `SuggestedWorksAgain` | A source created from a suggestion with entry pages keeps the pages it was asked for, on which nothing was found (`sources.service.ts:174-189`). |
| | `OneSourcePerIdentity` | `create` and `update` store the url as written, so that two sources of one identity arise (`sources/README.md:38-43`). |
| | `HandTuningIsKept` | The sync saves the whole row it read and reverts a tuning made in between (`source-sync.service.ts:303-307`). |
| (`AnalysesShow` of `MCDigestDelivery`) | `AnalysesShow` | A finished analysis raises no version: pages catch up by their time to live only (`scheduler/README.md`). |

Remarks on the code that the models make visible and no property states:

- Urls of feed items are not normalised, those of websites are, so one article may come in twice; the
  title catches it unless both are looked for at once. Pages extracted by a configured selector need no
  publication signal (`sources/README.md:33-37`).
- A source whose own url is a feed keeps the recipe `rss`, which `discoverViaFeed` never finds again;
  every fetch falls back to the chain, whose first probe does.
- The sync reports "created" when the source it found is equivalent and soft-deleted, and sets REJECTED
  where its comment says NEEDS_REVIEW (`source-sync.service.ts:416-435`).
- Updating a source ignores the web extraction settings that its API documentation lists, and
  `retryValidation` saves nothing of what it finds.
- A retry that restores "completed" while an execution runs makes that execution's entity and row agree;
  if another retry then commits "queued", the execution's last save finds the status of its entity
  unchanged, writes only the other columns and ends the job: the request stays queued with no job
  (`taxonomy-source-discovery.processor.ts:117-135`). It takes more retries than
  `discovery_requests` admits; the proof of `UnfinishedKeepsWork` came upon it, and `excused` records it.
- Two readers' first actions on one source wait for each other, and one of them is rolled back; two
  simultaneous first actions of one reader end in a unique violation.
- A refresh token presented by two requests at a time is spent by both and continued twice, where the comment
  says that it "can be used at most once" (`auth.service.ts:137`, `147-148`). `OneTokenPerSession` records it
  in `doubled` and is about everything else that rotates tokens.
- The add of a browser job that lands and throws makes the fetch record a failure on the attempt row that
  the browser job then writes as well, and makes the attempt that follows open another
  (`web-source-fetcher.service.ts:69`, `feed-fetcher.service.ts:85`).
- The first full analysis writes its rows and `mainStreamId` in one transaction; only a second analysis,
  side by side with it, leaves them apart (`ArticleAnalysis_primary_diverges`).
- A save of a source that was loaded before it was removed writes the empty `deletedAt` back: the source is
  there again (`sources.service.ts:351`).
- A feed without a selected stream is empty, also where `feed-query.service.ts:407-409` promises a top N:
  an article is eligible only through a selected stream.

## 8. What is not modelled

- In the modelled components: `softDelete` of articles, the cleanup of old articles and the hourly
  `cleanupTechnicalHistory` (`sources.service.ts:483-497`), which deletes attempt rows, quota records and
  discovery requests of more than 30 days, whatever their status; the use of the quota by submissions of
  sources (`TaxonomyCatalog` has the creations of taxonomy rows only); half-hour time zones; prompts and the
  normalisation of the model's answers, token accounting and metrics, the text of emails, recipients, HTTP
  retries and S3, listings and read models, administrators' pages, the one-off retagging of legacy users.
- Redis failures beyond "the call throws"; PostgreSQL failover.
- Administrators: a login saves the account it loaded, so it can race a change of password. That is
  the shape `Accounts` models for users, and no module of its own repeats it here.
- Components with state but without concurrency of interest: info pages, seeds,
  migrations, health probes.
- The status of each component, and what of it is left out, is in `PROJECT.json`.

## 9. Plan

Every component of section 1 that moves state concurrently, administrators aside, has its module. What
is left, in order:

1. A refinement of an abstract `Onboarding` (a candidate is decided once, a source is enabled after its
   samples) by `SourceCandidates`, checked and then proved from `EnabledInv`.
2. `CountIsExact` with administrators, under what their saves may have lost.
3. `FeedSelection` with its sorts restated by what they order, as was done with the robots rules, so
   that `SelectionShowsTheBest` can be proved and not only checked on every input within its bounds.
4. The types of the components that the sums instantiate with values of their own (`TypesOK`).

Where an abstraction is shared (`JobQueue`'s attempts arithmetic, the retry protocol), it becomes a
module that both users extend, with its lemmas proved once.
