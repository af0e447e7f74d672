----------------------------- MODULE FeedCache -----------------------------
(***************************************************************************)
(* The Redis cache of feed pages.  A request builds its key from version   *)
(* counters (its user's and its streams'), looks the page up, and          *)
(* otherwise computes it from PostgreSQL and stores it under that key with *)
(* a time to live.  Changes of the profile raise the user's version after  *)
(* they are saved; ingestion raises the stream's.  Public pages depend on  *)
(* the stream versions only.  One user, one stream, one filter.            *)
(***************************************************************************)
EXTENDS Naturals, FiniteSets

CONSTANTS
  Readers,     \* requests for a page
  Writers,     \* requests that change what the user's feed depends on
  MaxChanges,  \* such changes (bound)
  MaxArticles, \* articles ingested and analysed (bound)
  MaxReads     \* pages asked for (bound)

VARIABLES
  profile,   \* saved changes of the user's selections, level and timezone
  ingested,  \* articles ingested
  analyzed,  \* articles whose analysis is complete: those that a page may show
  version,   \* the counters in Redis: of the user and of the stream
  page,      \* the cached pages, by key
  reader,
  writer,
  reads,     \* pages asked for so far, for the bound
  announced  \* history: the latest change whose request has returned

vars == <<profile, ingested, analyzed, version, page, reader, writer, reads, announced>>

Scopes == {"personal", "public"}
Page   == [profile : Nat, articles : Nat]
Empty  == [profile |-> 0, articles |-> 0]
Unread == MaxChanges + MaxArticles + 1

(* user, stream: the versions read; since: announced when the request began. *)
Free == [pc |-> "idle", scope |-> "personal", user |-> Unread, stream |-> Unread,
         page |-> Empty, since |-> 0]

TypeOK ==
  /\ profile \in 0 .. MaxChanges
  /\ analyzed \in 0 .. ingested /\ ingested \in 0 .. MaxArticles
  /\ version \in [{"user", "stream"} -> Nat]
  /\ \A k \in DOMAIN page : page[k].page \in Page /\ page[k].expires \in BOOLEAN
  /\ \A r \in Readers :
       /\ reader[r].pc \in {"idle", "versions", "lookup", "articles", "profile", "store", "answered"}
       /\ reader[r].scope \in Scopes
       /\ reader[r].page \in Page
  /\ \A w \in Writers : writer[w].pc \in {"idle", "announce"} /\ writer[w].change \in 0 .. MaxChanges
  /\ reads \in 0 .. MaxReads
  /\ announced \in 0 .. profile

Init ==
  /\ profile = 0
  /\ ingested = 0
  /\ analyzed = 0
  /\ version = [c \in {"user", "stream"} |-> 0]
  /\ page = << >>
  /\ reader = [r \in Readers |-> Free]
  /\ writer = [w \in Writers |-> [pc |-> "idle", change |-> 0]]
  /\ reads = 0
  /\ announced = 0

data    == <<profile, ingested, analyzed>>
Become(r, new) == reader' = [reader EXCEPT ![r] = new]
Answer(r, content) == Become(r, [Free EXCEPT !.pc = "answered", !.scope = reader[r].scope,
                                            !.page = content, !.since = reader[r].since])

-----------------------------------------------------------------------------
(* The page: FeedController.getFeed, PublicFeedController.getFeed, preview. *)

Ask(r) ==
  /\ reader[r].pc \in {"idle", "answered"}
  /\ reads < MaxReads
  /\ reads' = reads + 1
  /\ \E scope \in Scopes :
       Become(r, [Free EXCEPT !.pc = "versions", !.scope = scope, !.since = announced,
                              !.user = IF scope = "public" THEN 0 ELSE Unread])
  /\ UNCHANGED <<data, version, page, writer, announced>>

(* buildVersionedKey reads both counters at the same time. *)
ReadVersion(r) ==
  /\ reader[r].pc = "versions"
  /\ \/ reader[r].user = Unread /\ Become(r, [reader[r] EXCEPT !.user = version["user"]])
     \/ reader[r].stream = Unread /\ Become(r, [reader[r] EXCEPT !.stream = version["stream"]])
     \/ Unread \notin {reader[r].user, reader[r].stream} /\ Become(r, [reader[r] EXCEPT !.pc = "lookup"])
  /\ UNCHANGED <<data, version, page, writer, reads, announced>>

(* Mutant: the key of a personal page leaves out the user's version. *)
KeyOfStreams(r) == <<reader[r].scope, 0, reader[r].stream>>

Key(r) == <<reader[r].scope, reader[r].user, reader[r].stream>>

Lookup(r) ==
  /\ reader[r].pc = "lookup"
  /\ IF Key(r) \in DOMAIN page
     THEN Answer(r, page[Key(r)].page)
     ELSE Become(r, [reader[r] EXCEPT !.pc = "articles"])
  /\ UNCHANGED <<data, version, page, writer, reads, announced>>

(* The candidates are read first, what the user has selected after them. *)
ReadArticles(r) ==
  /\ reader[r].pc = "articles"
  /\ Become(r, [reader[r] EXCEPT !.page.articles = analyzed,
                  !.pc = IF reader[r].scope = "personal" THEN "profile" ELSE "store"])
  /\ UNCHANGED <<data, version, page, writer, reads, announced>>

ReadProfile(r) ==
  /\ reader[r].pc = "profile"
  /\ Become(r, [reader[r] EXCEPT !.page.profile = profile, !.pc = "store"])
  /\ UNCHANGED <<data, version, page, writer, reads, announced>>

StoreAs(r, expires) ==
  /\ reader[r].pc = "store"
  /\ page' = [k \in DOMAIN page \cup {Key(r)} |->
               IF k = Key(r) THEN [page |-> reader[r].page, expires |-> expires] ELSE page[k]]
  /\ Answer(r, reader[r].page)
  /\ UNCHANGED <<data, version, writer, reads, announced>>

(* Mutant: set is called without its optional time to live. *)
StoreForever(r) == StoreAs(r, FALSE)

Store(r) == StoreAs(r, TRUE)

(* Redis or PostgreSQL fails, and the request with it. *)
ReadFails(r) ==
  /\ reader[r].pc \notin {"idle", "answered"}
  /\ Become(r, Free)
  /\ UNCHANGED <<data, version, page, writer, reads, announced>>

(* Redis drops a page whose time is up. *)
Expire(k) ==
  /\ k \in DOMAIN page
  /\ page[k].expires
  /\ page' = [j \in DOMAIN page \ {k} |-> page[j]]
  /\ UNCHANGED <<data, version, reader, writer, reads, announced>>

-----------------------------------------------------------------------------
(* What pages are made of. *)

Bump(counter) == version' = [version EXCEPT ![counter] = @ + 1]

(* updateProfile and completeOnboarding save the change and then invalidate. *)
Change(w) ==
  /\ writer[w].pc = "idle"
  /\ profile < MaxChanges
  /\ profile' = profile + 1
  /\ writer' = [writer EXCEPT ![w] = [pc |-> "announce", change |-> profile + 1]]
  /\ UNCHANGED <<ingested, analyzed, version, page, reader, reads, announced>>

Invalidate(w) ==
  /\ writer[w].pc = "announce"
  /\ Bump("user")
  /\ announced' = IF writer[w].change > announced THEN writer[w].change ELSE announced
  /\ writer' = [writer EXCEPT ![w].pc = "idle"]
  /\ UNCHANGED <<data, page, reader, reads>>

(* The request fails between the two, as when onboarding meets the quota.    *)
ChangeFails(w) ==
  /\ writer[w].pc = "announce"
  /\ writer' = [writer EXCEPT ![w].pc = "idle"]
  /\ UNCHANGED <<data, version, page, reader, reads, announced>>

(* A fetch has stored new articles and raises its streams' versions. *)
Ingest ==
  /\ ingested < MaxArticles
  /\ ingested' = ingested + 1
  /\ Bump("stream")
  /\ UNCHANGED <<profile, analyzed, page, reader, writer, reads, announced>>

(* ArticleAnalysis!FullAnalysis: no version is raised. *)
Analyze ==
  /\ analyzed < ingested
  /\ analyzed' = analyzed + 1
  /\ UNCHANGED <<profile, ingested, version, page, reader, writer, reads, announced>>

ReaderStep(r) ==
  ReadVersion(r) \/ Lookup(r) \/ ReadArticles(r) \/ ReadProfile(r) \/ Store(r)

Next ==
  \/ \E r \in Readers : Ask(r) \/ ReaderStep(r) \/ ReadFails(r)
  \/ \E k \in DOMAIN page : Expire(k)
  \/ \E w \in Writers : Change(w) \/ Invalidate(w) \/ ChangeFails(w)
  \/ Ingest \/ Analyze

Spec == Init /\ [][Next]_vars

(* Requests that run go on, and Redis drops the pages whose time is up. *)
Fairness ==
  /\ \A r \in Readers : WF_vars(ReaderStep(r))
  /\ WF_vars(\E k \in DOMAIN page : Expire(k))

FairSpec == Spec /\ Fairness

-----------------------------------------------------------------------------
(***************************************************************************)
(* Properties.                                                             *)
(***************************************************************************)

(* README of users: a change "invalidates the user's feed version": a page   *)
(* asked for after a change was answered is made from that change or a later *)
(* one, although pages are computed and stored without a lock.               *)
ChangesShow ==
  \A r \in Readers :
    reader[r].pc = "answered" /\ reader[r].scope = "personal" => reader[r].page.profile >= reader[r].since

(* README of the scheduler: "old entries expire by TTL": no version follows  *)
(* an analysis, so a page that lacks an analysed article stays reachable,    *)
(* but not for good.                                                         *)
PagesCatchUp == <>[](\A k \in DOMAIN page : page[k].page.articles = analyzed)

(* A page asked for once an article is analysed shows it (it need not).      *)
ShowsAnalyses ==
  \A r \in Readers :
    reader[r].pc = "lookup" /\ reader'[r].pc = "answered" => reader'[r].page.articles = analyzed
AnalysesShow == [][ShowsAnalyses]_vars
=============================================================================
