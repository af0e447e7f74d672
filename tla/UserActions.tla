---------------------------- MODULE UserActions ----------------------------
(***************************************************************************)
(* What a reader does with the articles of one source: feedback, saving,   *)
(* unsaving and following a personal link; and what SourcesService does to *)
(* the source meanwhile.  An interaction is one PostgreSQL transaction     *)
(* (READ COMMITTED) that takes row locks as it goes: the row of the        *)
(* interaction, the reader's source preference, the source.  The writes of *)
(* a transaction appear when it commits.  Foreign keys to users and        *)
(* articles take locks that nothing here conflicts with.  SourcesService   *)
(* loads the source, changes the entity and saves it without a lock:       *)
(* TypeORM's save reads the row again and updates the columns that differ. *)
(***************************************************************************)
EXTENDS Integers, FiniteSets, FiniteSetsExt

CONSTANTS
  Users,
  Articles,   \* articles of the source
  Contexts,   \* contexts a personal link is made for: digest, feed, ...
  Operators,  \* saves of the source by SourcesService at the same time
  Requests,   \* requests served at the same time
  MaxRequests \* requests and operations considered (bound)

VARIABLES
  feedback,   \* article_feedback: the type kept for a user and an article
  saved,      \* saved_articles: pairs of a user and an article
  opening,    \* user_article_openings: pairs of a user and an article
  link,       \* personal_article_links: opened for the first time?
  tracked,    \* articles.personalTrackedOpenCount
  preference, \* user_source_preferences: the counters of each user that has a row
  source,     \* the counters of the source
  removed,    \* is the source soft-deleted?
  save,       \* the saves of the source in progress
  uncounted,  \* history: counters of the source that a stale save wrote, or
              \* that an interaction left alone because the source was removed
  request,    \* the requests in progress
  asked       \* requests and operations so far, for the bound

vars == <<feedback, saved, opening, link, tracked, preference, source, removed, save,
          uncounted, request, asked>>

Types   == {"useful", "notUseful"}
Signals == Types \cup {"saved", "opened"}
Counts  == [Signals -> Nat]
Zero    == [s \in Signals |-> 0]

Kinds == Types \cup {"save", "unsave", "open"}

(* A lock on a row; KEY SHARE locks ("key") do not conflict with each other. *)
Lock(object, mode) == [object |-> object, mode |-> mode]

(* before: the feedback that is replaced; mine, global: the counters read    *)
(* under the locks; applies: the counters of the source that the interaction *)
(* reaches; holds: the locks of the transaction.                             *)
Pc   == {"idle", "find", "insert", "article", "preference", "create", "source", "again",
         "commit"}
Free == [pc |-> "idle", kind |-> "none", user |-> "none", article |-> "none",
         context |-> "none", before |-> "none", mine |-> Zero, global |-> Zero,
         applies |-> {}, holds |-> {}]

(* entity: the counters that were loaded; columns: what the save will write. *)
Columns == Signals \cup {"deletedAt"}
Save    == [pc : {"idle", "loaded", "selected"}, entity : Counts, columns : SUBSET Columns]
NoSave  == [pc |-> "idle", entity |-> Zero, columns |-> {}]

TypeOK ==
  /\ \A p \in DOMAIN feedback : p \in Users \X Articles /\ feedback[p] \in Types
  /\ saved \subseteq Users \X Articles
  /\ opening \subseteq Users \X Articles
  /\ link \in [Users \X Articles \X Contexts -> BOOLEAN]
  /\ tracked \in [Articles -> Nat]
  /\ DOMAIN preference \subseteq Users
  /\ \A u \in DOMAIN preference : preference[u] \in Counts
  /\ source \in Counts
  /\ removed \in BOOLEAN
  /\ save \in [Operators -> Save]
  /\ uncounted \subseteq Signals
  /\ \A r \in Requests : request[r].pc \in Pc /\ request[r].kind \in Kinds \cup {"none"}
  /\ asked \in 0 .. MaxRequests

Init ==
  /\ feedback = << >>
  /\ saved = {}
  /\ opening = {}
  /\ link = [l \in Users \X Articles \X Contexts |-> FALSE]
  /\ tracked = [a \in Articles |-> 0]
  /\ preference = << >>
  /\ source = Zero
  /\ removed = FALSE
  /\ save = [o \in Operators |-> NoSave]
  /\ uncounted = {}
  /\ request = [r \in Requests |-> Free]
  /\ asked = 0

-----------------------------------------------------------------------------
(* Row locks. *)

Pair(r) == <<request[r].user, request[r].article>>

Kept(row, key, value) == [k \in DOMAIN row \cup {key} |-> IF k = key THEN value ELSE row[k]]

(* The row of the interaction, by the table's unique key. *)
Table(kind) == IF kind \in Types THEN "feedback" ELSE IF kind = "open" THEN "opening" ELSE "saved"
Exists(r) ==
  CASE request[r].kind \in Types -> Pair(r) \in DOMAIN feedback
    [] request[r].kind = "open" -> Pair(r) \in opening
    [] OTHER -> Pair(r) \in saved

OwnRow(r)      == Lock(<<Table(request[r].kind), Pair(r)>>, "update")
LinkRow(r)     == Lock(<<"link", Pair(r), request[r].context>>, "update")
ArticleRow(r)  == Lock(<<"article", request[r].article>>, "update")
MyPreference(r) == Lock(<<"preference", request[r].user>>, "update")
SourceRow(mode) == Lock(<<"source">>, mode)

(* Mutant: removeSignal updates the source before the preference. *)
WantsGlobalFirst(r) ==
  CASE request[r].pc = "find" /\ request[r].kind \in Types \cup {"unsave"} /\ Exists(r) -> {OwnRow(r)}
    [] request[r].pc = "insert" -> {OwnRow(r)}
    [] request[r].pc = "preference" /\ request[r].kind = "unsave" -> {SourceRow("update")}
    [] request[r].pc = "preference" /\ request[r].user \in DOMAIN preference -> {MyPreference(r)}
    [] request[r].pc = "source" /\ request[r].kind = "unsave" -> {MyPreference(r)}
    [] request[r].pc = "source" -> {SourceRow("update")}
    [] OTHER -> {}

(* What the next statement must lock: FOR UPDATE takes the row if there is   *)
(* one, an insert that is not ignored its unique key, and the source that    *)
(* its foreign key names.                                                    *)
Wants(r) ==
  CASE request[r].pc = "find" /\ request[r].kind = "open" -> {LinkRow(r)}
    [] request[r].pc = "find" /\ request[r].kind \notin {"save", "open"} /\ Exists(r) -> {OwnRow(r)}
    [] request[r].pc = "insert" /\ ~ (request[r].kind = "open" /\ Exists(r)) -> {OwnRow(r)}
    [] request[r].pc = "article" -> {ArticleRow(r)}
    [] request[r].pc = "preference" /\ request[r].user \in DOMAIN preference -> {MyPreference(r)}
    [] request[r].pc = "create" -> {MyPreference(r), SourceRow("key")}
    [] request[r].pc \in {"source", "again"} /\ ~ removed -> {SourceRow("update")}
    [] OTHER -> {}

Conflict(l, m) == l.object = m.object /\ (l.mode = "update" \/ m.mode = "update")

(* r's next statement waits for q. *)
Waits(r, q) == q # r /\ \E l \in Wants(r), m \in request[q].holds : Conflict(l, m)

Granted(r) == \A q \in Requests : ~ Waits(r, q)

(* The request once its statement has returned, and goes on at pc. *)
Took(r, pc) == [request[r] EXCEPT !.pc = pc, !.holds = @ \cup Wants(r)]

Advance(r, req) == request' = [request EXCEPT ![r] = req]
End(r)          == request' = [request EXCEPT ![r] = Free]

sourceRow == <<source, removed, save, uncounted>>
rows == <<feedback, saved, opening, link, tracked, preference, sourceRow>>

-----------------------------------------------------------------------------
(* A request arrives: a controller, or the link of an e-mail action, calls   *)
(* the service.  save looks for the row before its transaction.              *)
Ask(r) ==
  /\ request[r].pc = "idle"
  /\ asked < MaxRequests
  /\ asked' = asked + 1
  /\ \E k \in Kinds, u \in Users, a \in Articles, c \in Contexts :
       /\ k = "save" => <<u, a>> \notin saved
       /\ k = "open" => ~ link[<<u, a, c>>]
       /\ Advance(r, [Free EXCEPT !.pc = "find", !.kind = k, !.user = u, !.article = a,
                                  !.context = IF k = "open" THEN c ELSE "none"])
  /\ UNCHANGED rows

(* upsertFeedback: the current feedback, locked, or none. *)
FindFeedback(r) ==
  /\ request[r].pc = "find" /\ request[r].kind \in Types
  /\ Granted(r)
  /\ IF Exists(r)
     THEN Advance(r, [Took(r, "preference") EXCEPT !.before = feedback[Pair(r)]])
     ELSE Advance(r, Took(r, "insert"))
  /\ UNCHANGED <<rows, asked>>

(* SavedArticleService.create looks again, without a lock. *)
FindSaved(r) ==
  /\ request[r].pc = "find" /\ request[r].kind = "save"
  /\ IF Exists(r) THEN End(r) ELSE Advance(r, Took(r, "insert"))
  /\ UNCHANGED <<rows, asked>>

(* SavedArticleService.remove: nothing to remove, or the locked row. *)
FindRemoved(r) ==
  /\ request[r].pc = "find" /\ request[r].kind = "unsave"
  /\ Granted(r)
  /\ IF Exists(r) THEN Advance(r, Took(r, "preference")) ELSE End(r)
  /\ UNCHANGED <<rows, asked>>

(* resolveAndRecordOpen: under the lock, the link may be opened by now. *)
FindLink(r) ==
  /\ request[r].pc = "find" /\ request[r].kind = "open"
  /\ Granted(r)
  /\ IF link[<<request[r].user, request[r].article, request[r].context>>]
     THEN End(r)
     ELSE Advance(r, Took(r, "insert"))
  /\ UNCHANGED <<rows, asked>>

(* The insert waits for an uncommitted row with the same key.  If there is   *)
(* one in the end, the unique key refuses the new row: save answers with the *)
(* winner's.  An opening is ignored instead, and the transaction goes on:    *)
(* TypeORM's InsertResult has an identifier for every value, inserted or     *)
(* not, so that the test of identifiers.length never ends it.                *)
Insert(r) ==
  /\ request[r].pc = "insert"
  /\ Granted(r)
  /\ IF Exists(r) /\ request[r].kind # "open"
     THEN End(r)
     ELSE Advance(r, Took(r, IF request[r].kind = "open" THEN "article" ELSE "preference"))
  /\ UNCHANGED <<rows, asked>>

(* increment of personalTrackedOpenCount *)
CountOpen(r) ==
  /\ request[r].pc = "article"
  /\ Granted(r)
  /\ Advance(r, Took(r, "preference"))
  /\ UNCHANGED <<rows, asked>>

-----------------------------------------------------------------------------
(* UserSourcePreferenceService: applyFeedback, applySignal, removeSignal. *)

(* Mutant: findOrCreate reads the preference without a lock. *)
FindPreferenceUnlocked(r) ==
  /\ request[r].pc = "preference"
  /\ IF request[r].user \in DOMAIN preference
     THEN Advance(r, [request[r] EXCEPT !.pc = "source", !.mine = preference[request[r].user]])
     ELSE Advance(r, [request[r] EXCEPT !.pc = "create"])
  /\ UNCHANGED <<rows, asked>>

(* findOrCreate *)
FindPreference(r) ==
  /\ request[r].pc = "preference"
  /\ Granted(r)
  /\ IF request[r].user \in DOMAIN preference
     THEN Advance(r, [Took(r, "source") EXCEPT !.mine = preference[request[r].user]])
     ELSE Advance(r, Took(r, "create"))
  /\ UNCHANGED <<rows, asked>>

(* The unique key refuses the second row of two first interactions. *)
CreatePreference(r) ==
  /\ request[r].pc = "create"
  /\ Granted(r)
  /\ IF request[r].user \in DOMAIN preference THEN End(r) ELSE Advance(r, Took(r, "source"))
  /\ UNCHANGED <<rows, asked>>

(* updateGlobalSignal finds the source, and locks it, unless it is removed.  *)
(* Feedback that repeats the current one stops before it; feedback that      *)
(* replaces another calls it for the old type and then for the new one.      *)
FindSource(r, counters) ==
  /\ ~ removed
  /\ Granted(r)
  /\ Advance(r, [Took(r, "commit") EXCEPT !.global = source, !.applies = counters])

SkipSource(r, pc) == Advance(r, [request[r] EXCEPT !.pc = pc])

ReadSource(r) ==
  LET q == request[r] IN
  /\ q.pc = "source"
  /\ CASE q.before = q.kind -> SkipSource(r, "commit")
       [] q.before # q.kind /\ removed -> SkipSource(r, IF q.before = "none" THEN "commit" ELSE "again")
       [] q.before # q.kind /\ ~ removed -> FindSource(r, Signals)
  /\ UNCHANGED <<rows, asked>>

(* The second call, when the first did not find the source. *)
ReadSourceAgain(r) ==
  /\ request[r].pc = "again"
  /\ IF removed THEN SkipSource(r, "commit") ELSE FindSource(r, {request[r].kind})
  /\ UNCHANGED <<rows, asked>>

(* Mutant: replaced feedback stays counted. *)
DeltaKeepingReplaced(r, s) ==
  LET q == request[r] IN
  IF q.kind = q.before THEN 0 ELSE
  CASE q.kind = s \/ <<q.kind, s>> \in {<<"save", "saved">>, <<"open", "opened">>} -> 1
    [] q.kind = "unsave" /\ s = "saved" -> -1
    [] OTHER -> 0

(* What the interaction adds to a counter. *)
Delta(r, s) ==
  LET q == request[r] IN
  IF q.kind = q.before THEN 0 ELSE
  CASE q.kind = s \/ <<q.kind, s>> \in {<<"save", "saved">>, <<"open", "opened">>} -> 1
    [] q.before = s \/ (q.kind = "unsave" /\ s = "saved") -> -1
    [] OTHER -> 0

Counted(counts, r) == [s \in Signals |-> Max({0, counts[s] + Delta(r, s)})]

(* Every write of the transaction appears at once. *)
Commit(r) ==
  LET q == request[r] IN
  /\ q.pc = "commit"
  /\ feedback' = IF q.kind \in Types THEN Kept(feedback, Pair(r), q.kind) ELSE feedback
  /\ saved' = CASE q.kind = "save" -> saved \cup {Pair(r)}
                [] q.kind = "unsave" -> saved \ {Pair(r)}
                [] OTHER -> saved
  /\ IF q.kind = "open"
     THEN /\ opening' = opening \cup {Pair(r)}
          /\ link' = [link EXCEPT ![<<q.user, q.article, q.context>>] = TRUE]
          /\ tracked' = [tracked EXCEPT ![q.article] = @ + 1]
     ELSE UNCHANGED <<opening, link, tracked>>
  /\ preference' = Kept(preference, q.user, Counted(q.mine, r))
  /\ source' = [s \in Signals |-> IF s \in q.applies THEN Counted(q.global, r)[s] ELSE source[s]]
  /\ uncounted' = uncounted \cup {s \in Signals \ q.applies : Delta(r, s) # 0}
  /\ End(r)
  /\ UNCHANGED <<removed, save, asked>>

(* Any statement may fail, and PostgreSQL ends one of two transactions that  *)
(* wait for each other: the rows stay as they were.                          *)
RollBack(r) ==
  /\ request[r].pc # "idle"
  /\ End(r)
  /\ UNCHANGED <<rows, asked>>

-----------------------------------------------------------------------------
(* SourcesService: update, activate and disable save the source, remove      *)
(* soft-deletes it.                                                          *)

readers == <<feedback, saved, opening, link, tracked, preference, request>>

(* getSourceOrFail *)
LoadSource(o) ==
  /\ save[o].pc = "idle"
  /\ ~ removed
  /\ asked < MaxRequests
  /\ asked' = asked + 1
  /\ save' = [save EXCEPT ![o] = [NoSave EXCEPT !.pc = "loaded", !.entity = source]]
  /\ UNCHANGED <<source, removed, uncounted, readers>>

(* save reads the row, soft-deleted or not, and compares: the columns in     *)
(* which the row has moved on since the entity was loaded count as changed.  *)
CompareSource(o) ==
  /\ save[o].pc = "loaded"
  /\ save' = [save EXCEPT ![o].pc = "selected",
                          ![o].columns = {s \in Signals : source[s] # save[o].entity[s]}
                                           \cup (IF removed THEN {"deletedAt"} ELSE {})]
  /\ UNCHANGED <<source, removed, uncounted, readers, asked>>

(* An UPDATE waits for a transaction that has locked the source. *)
Unlocked == \A r \in Requests : SourceRow("update") \notin request[r].holds

WriteSource(o) ==
  /\ save[o].pc = "selected"
  /\ Unlocked
  /\ source' = [s \in Signals |-> IF s \in save[o].columns THEN save[o].entity[s] ELSE source[s]]
  /\ removed' = (removed /\ "deletedAt" \notin save[o].columns)
  /\ uncounted' = uncounted \cup {s \in Signals : source'[s] # source[s]}
  /\ save' = [save EXCEPT ![o] = NoSave]
  /\ UNCHANGED <<readers, asked>>

RemoveSource ==
  /\ ~ removed
  /\ asked < MaxRequests
  /\ Unlocked
  /\ removed' = TRUE
  /\ asked' = asked + 1
  /\ UNCHANGED <<source, save, uncounted, readers>>

-----------------------------------------------------------------------------
Step(r) ==
  \/ FindFeedback(r) \/ FindSaved(r) \/ FindRemoved(r) \/ FindLink(r) \/ Insert(r)
  \/ CountOpen(r) \/ FindPreference(r) \/ CreatePreference(r) \/ ReadSource(r)
  \/ ReadSourceAgain(r) \/ Commit(r)

SaveStep(o) == LoadSource(o) \/ CompareSource(o) \/ WriteSource(o)

Next ==
  \/ \E r \in Requests : Ask(r) \/ Step(r) \/ RollBack(r)
  \/ \E o \in Operators : SaveStep(o)
  \/ RemoveSource

Spec == Init /\ [][Next]_vars

-----------------------------------------------------------------------------
(***************************************************************************)
(* Properties.                                                             *)
(***************************************************************************)

OfUser(pairs, u) == Cardinality({p \in pairs : p[1] = u})

FeedbackOf(u, t) == OfUser({p \in DOMAIN feedback : feedback[p] = t}, u)

(* The links that were followed. *)
Opened == {l \in DOMAIN link : link[l]}

(* README: "aggregate counters and the primary interaction always commit or  *)
(* roll back together": the counters of a reader's preference are the rows   *)
(* that the reader has and the links the reader followed, whatever ran at    *)
(* the same time.                                                            *)
PreferenceCountsRows ==
  \A u \in Users :
    LET counts == IF u \in DOMAIN preference THEN preference[u] ELSE Zero IN
    /\ \A t \in Types : counts[t] = FeedbackOf(u, t)
    /\ counts["saved"] = OfUser(saved, u)
    /\ counts["opened"] = OfUser(Opened, u)

(* The global counters of the source add up what its readers' rows count,    *)
(* but for those that a stale save of the source wrote, or that moved on     *)
(* while the source was removed.                                             *)
SourceSumsReaders ==
  \A s \in Signals \ uncounted :
    source[s] = MapThenSumSet(LAMBDA u : preference[u][s], DOMAIN preference)

(* An article counts every link to it that was followed, once; and a reader  *)
(* has an opening of the article exactly when one of these was the reader's. *)
OpensAreTracked ==
  \A a \in Articles :
    /\ tracked[a] = Cardinality({l \in Opened : l[2] = a})
    /\ \A u \in Users : <<u, a>> \in opening <=> \E c \in Contexts : link[<<u, a, c>>]

(* user-actions/README: "unique user/article constraints make saves and      *)
(* openings idempotent": the second link to an article that a reader follows *)
(* counts nothing.  The code counts it.                                      *)
OpensCountReaders ==
  \A a \in Articles : tracked[a] = Cardinality({u \in Users : <<u, a>> \in opening})

(* Transactions take their locks in one order.  Only the first interactions  *)
(* of two readers with a source wait for each other: each has inserted a     *)
(* preference that refers to the source and then locks the source.           *)
OnlyFirstActionsDeadlock ==
  \A r, q \in Requests :
    Waits(r, q) /\ Waits(q, r) =>
      \A p \in {r, q} :
        request[p].pc \in {"source", "again"} /\ SourceRow("key") \in request[p].holds
=============================================================================
