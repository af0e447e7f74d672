--------------------------- MODULE TaxonomyCatalog ---------------------------
(***************************************************************************)
(* The catalog of technologies and interests, the selections of the users  *)
(* and the quota that creations count against: OnboardingService with the  *)
(* resolver, the taxonomy and stream commands and DiscoveryQuotaService it *)
(* calls, and the administrators' creation, merge and update.  One step is *)
(* one statement, or one transaction where the code opens one; the reads   *)
(* that a service makes one after the other before it decides, such as the *)
(* three look-ups of resolve, are one step.                                *)
(***************************************************************************)
EXTENDS Naturals, FiniteSets

CONSTANTS
  Users,
  Requests,    \* concurrent requests
  Kinds,       \* technology, interest
  Names,       \* normalised names
  Similar,     \* sets {n, m} of names whose similarity exceeds the threshold
  Rows,        \* ids of technology_interests
  Streams,     \* enabled content streams
  MaxSelected, \* of one kind by a user: five
  Limit,       \* DISCOVERY_LIMIT
  MaxRequests, \* requests considered (bound)
  Catalogs,    \* what administrators may have created before: rows and their keys
  None

VARIABLES
  rows,      \* technology_interests
  links,     \* user_technology_interests
  streams,   \* user_content_streams
  completed, \* users with onboardingCompletedAt
  quota,     \* discovery_quota_records: none, recent (24 hours) or older
  jobs,      \* rows with a job taxonomy-<id>
  op,        \* the requests
  started,   \* requests so far, for the bound
  stale,     \* history: users whose selection changed since their feed's version did
  disturbed  \* history: a save wrote what it had not read, or an alias was taken away

vars == <<rows, links, streams, completed, quota, jobs, op, started, stale, disturbed>>

Keys == Kinds \X Names

(* creator: history, the user whose request inserted the row, the key it was *)
(* inserted under and what the user's quota had for that key then.           *)
Record  == {"none", "recent", "older"}
NoRow   == [kind |-> None, name |-> None, aliases |-> {}, into |-> None, deleted |-> FALSE,
            creator |-> None]
Row     == [kind : Kinds, name : Names, aliases : SUBSET Names, into : Rows \cup {None},
            deleted : BOOLEAN,
            creator : [user : Users, key : Keys, record : Record] \cup {None}]

(* todo: the selections not resolved yet; chosen: the rows of the others;    *)
(* before, beforeStreams: what was selected at the start; key, row, copy: the *)
(* selection in hand, its row and the entity in memory; other, otherCopy: the *)
(* loser of a merge; fresh: the row was created; alone: no other request has *)
(* run since the start; clean: the feed was up to date then.                 *)
NoOp == [pc |-> "idle", user |-> None, todo |-> {}, wanted |-> {}, chosen |-> {},
         before |-> {}, beforeStreams |-> {}, key |-> None, row |-> None, copy |-> NoRow,
         other |-> None, otherCopy |-> NoRow, fresh |-> FALSE, alone |-> TRUE, changed |-> FALSE,
         clean |-> FALSE]

Pc == {"idle", "next", "alias", "reserve", "record", "insert", "find", "link", "enqueue",
       "remove", "streams", "replace", "save", "invalidate", "merge", "update"}

LinksOf(u)  == {r \in Rows : <<u, r>> \in links}
Recent(u)   == {k \in Keys : quota[u][k] = "recent"}
Exists(r)   == rows[r] # NoRow
Live(r)     == Exists(r) /\ ~ rows[r].deleted
Selected(u) == {r \in LinksOf(u) : Live(r)}

TypeOK ==
  /\ rows \in [Rows -> Row \cup {NoRow}]
  /\ links \subseteq Users \X Rows
  /\ streams \in [Users -> SUBSET Streams]
  /\ completed \subseteq Users
  /\ quota \in [Users -> [Keys -> Record]]
  /\ jobs \subseteq Rows
  /\ \A q \in Requests : op[q].pc \in Pc
  /\ stale \subseteq Users
  /\ \A r, s \in Rows : Exists(r) /\ rows[r].kind = rows[s].kind /\ rows[r].name = rows[s].name
                        => r = s

Init ==
  /\ \E known \in Catalogs :
       /\ rows = [r \in Rows |-> IF r \notin DOMAIN known THEN NoRow
                                ELSE [NoRow EXCEPT !.kind = known[r][1], !.name = known[r][2]]]
       /\ jobs = DOMAIN known
  /\ links = {}
  /\ streams = [u \in Users |-> {}]
  /\ completed = {}
  /\ quota = [u \in Users |-> [k \in Keys |-> "none"]]
  /\ op = [q \in Requests |-> NoOp]
  /\ started = 0
  /\ stale = {}
  /\ disturbed = FALSE

-----------------------------------------------------------------------------
(* Helpers *)

(* The request takes its next step; the others are no longer alone. *)
Goes(q, o) == op' = [op EXCEPT ![q] = o]

Starts(q, o) ==
  /\ op[q].pc = "idle" /\ started < MaxRequests
  /\ started' = started + 1
  /\ LET others == {p \in Requests \ {q} : op[p].pc # "idle"}
     IN  op' = [p \in Requests |->
                  IF p = q THEN [o EXCEPT !.alone = others = {}]
                  ELSE IF p \in others THEN [op[p] EXCEPT !.alone = FALSE] ELSE op[p]]

Ends(q) == Goes(q, NoOp)

(* An error, or a crash of the process: a request that has not begun to      *)
(* remove or is in a transaction leaves what it has done.                    *)
Fails(q) ==
  /\ op[q].pc # "idle"
  /\ Ends(q)
  /\ UNCHANGED <<rows, links, streams, completed, quota, jobs, started, stale, disturbed>>

HasName(r, kind, name) == Exists(r) /\ rows[r].kind = kind /\ rows[r].name = name

(* resolve: an exact match, an alias, the most similar name. *)
Matches(kind, name) ==
  LET live    == {r \in Rows : Live(r) /\ rows[r].kind = kind}
      exact   == {r \in live : rows[r].name = name}
      alias   == {r \in live : name \in rows[r].aliases}
      similar == {r \in live : {rows[r].name, name} \in Similar}
  IN  IF exact # {} THEN exact ELSE IF alias # {} THEN alias ELSE similar

Knows(row, name) == row.name = name \/ name \in row.aliases

(* Mutant: the name of a deleted row is free again. *)
TakenByLive(r, kind, name) == \E s \in Rows \ {r} : Live(s) /\ HasName(s, kind, name)

(* save writes every column in which the entity differs from the row, which  *)
(* may have changed since the entity was read, and fails where another row   *)
(* has the name, soft-deleted rows included.                                 *)
Taken(r, kind, name) == \E s \in Rows \ {r} : HasName(s, kind, name)

-----------------------------------------------------------------------------
(* completeOnboarding: what it reads, and the checks before any write. *)
StartOnboarding(q) ==
  /\ \E u \in Users, todo \in SUBSET Keys \ {{}}, wanted \in SUBSET Streams \ {{}} :
       /\ \A kind \in Kinds : Cardinality({k \in todo : k[1] = kind}) <= MaxSelected
       /\ Starts(q, [NoOp EXCEPT !.pc = "next", !.user = u, !.todo = todo, !.wanted = wanted,
                                 !.before = Selected(u), !.beforeStreams = streams[u],
                                 !.clean = u \notin stale])
  /\ UNCHANGED <<rows, links, streams, completed, quota, jobs, stale, disturbed>>

(* createForAdmin *)
StartCreation(q) ==
  /\ \E k \in Keys : Starts(q, [NoOp EXCEPT !.pc = "next", !.todo = {k}])
  /\ UNCHANGED <<rows, links, streams, completed, quota, jobs, stale, disturbed>>

(* Mutant: rows are created before the quota is asked. *)
LookUpUnreserved(q) ==
  /\ op[q].pc = "next"
  /\ \E k \in op[q].todo :
       LET found == Matches(k[1], k[2])
       IN  IF found = {}
           THEN Goes(q, [op[q] EXCEPT !.key = k, !.pc = "insert", !.fresh = FALSE])
           ELSE \E r \in found : Goes(q, [op[q] EXCEPT !.key = k, !.row = r, !.copy = rows[r],
                                                       !.fresh = FALSE, !.pc = "find"])
  /\ UNCHANGED <<rows, links, streams, completed, quota, jobs, started, stale, disturbed>>

LookUp(q) ==
  /\ op[q].pc = "next"
  /\ \E k \in op[q].todo :
       LET found == Matches(k[1], k[2])
           o     == [op[q] EXCEPT !.key = k, !.fresh = FALSE]
       IN  \/ /\ found = {}
              /\ Goes(q, [o EXCEPT !.pc = IF o.user = None THEN "insert" ELSE "reserve"])
           \/ \E r \in found :
                Goes(q, [o EXCEPT !.row = r, !.copy = rows[r],
                                  !.pc = IF Knows(rows[r], k[2]) THEN "find" ELSE "alias"])
  /\ UNCHANGED <<rows, links, streams, completed, quota, jobs, started, stale, disturbed>>

(* A similar row learns the name. *)
AppendAlias(q) ==
  /\ op[q].pc = "alias"
  /\ \/ Taken(op[q].row, op[q].copy.kind, op[q].copy.name)
        /\ Ends(q) /\ UNCHANGED <<rows, disturbed>>
     \/ /\ ~ Taken(op[q].row, op[q].copy.kind, op[q].copy.name)
        /\ rows' = [rows EXCEPT ![op[q].row] =
                      [op[q].copy EXCEPT !.aliases = @ \cup {op[q].key[2]}]]
        /\ disturbed' = (disturbed \/ rows[op[q].row] # op[q].copy)
        /\ Goes(q, [op[q] EXCEPT !.pc = "find"])
  /\ UNCHANGED <<links, streams, completed, quota, jobs, started, stale>>

(* Mutant: the lock is left out. *)
NeverLocked(u) == FALSE

(* DiscoveryQuotaService.reserve: pg_advisory_xact_lock of the user, then    *)
(* the record and the count.                                                 *)
QuotaLocked(u) == \E p \in Requests : op[p].pc = "record" /\ op[p].user = u

CountQuota(q) ==
  LET u == op[q].user IN
  /\ op[q].pc = "reserve" /\ ~ QuotaLocked(u)
  /\ \/ quota[u][op[q].key] # "none" /\ Goes(q, [op[q] EXCEPT !.pc = "insert"])
     \/ /\ quota[u][op[q].key] = "none"
        /\ IF Cardinality(Recent(u)) >= Limit THEN Ends(q)
           ELSE Goes(q, [op[q] EXCEPT !.pc = "record"])
  /\ UNCHANGED <<rows, links, streams, completed, quota, jobs, started, stale, disturbed>>

RecordQuota(q) ==
  /\ op[q].pc = "record"
  /\ quota' = [quota EXCEPT ![op[q].user][op[q].key] = "recent"]
  /\ Goes(q, [op[q] EXCEPT !.pc = "insert"])
  /\ UNCHANGED <<rows, links, streams, completed, jobs, started, stale, disturbed>>

(* 24 hours pass. The deletion of records older than 30 days, by the hourly  *)
(* clean-up of SourcesService, is left out.                                  *)
Expire ==
  /\ \E u \in Users, k \in Keys :
       quota[u][k] = "recent" /\ quota' = [quota EXCEPT ![u][k] = "older"]
  /\ UNCHANGED <<rows, links, streams, completed, jobs, op, started, stale, disturbed>>

CreatorOf(o) ==
  IF o.user = None THEN None ELSE [user |-> o.user, key |-> o.key, record |-> quota[o.user][o.key]]

(* The unique constraint on kind and normalizedName ends a second creation. *)
Insert(q) ==
  LET k == op[q].key IN
  /\ op[q].pc = "insert"
  /\ \/ /\ Taken(None, k[1], k[2])
        /\ Ends(q)
        /\ UNCHANGED rows
     \/ /\ ~ Taken(None, k[1], k[2])
        /\ \E r \in Rows :
             /\ ~ Exists(r)
             /\ rows' = [rows EXCEPT ![r] = [kind |-> k[1], name |-> k[2], aliases |-> {},
                                             into |-> None, deleted |-> FALSE,
                                             creator |-> CreatorOf(op[q])]]
             /\ Goes(q, [op[q] EXCEPT !.row = r, !.fresh = TRUE, !.pc = "find"])
  /\ UNCHANGED <<links, streams, completed, quota, jobs, started, stale, disturbed>>

(* The selection in hand is done. *)
Resolved(o) ==
  [o EXCEPT !.pc = "next", !.todo = @ \ {o.key}, !.chosen = @ \cup {o.row}, !.key = None,
            !.row = None, !.copy = NoRow, !.fresh = FALSE]

AfterLink(o) == IF o.fresh THEN [o EXCEPT !.pc = "enqueue"] ELSE Resolved(o)

FindLink(q) ==
  LET o == op[q] IN
  /\ o.pc = "find"
  /\ Goes(q, IF o.user = None \/ <<o.user, o.row>> \in links THEN AfterLink(o)
             ELSE [o EXCEPT !.pc = "link"])
  /\ UNCHANGED <<rows, links, streams, completed, quota, jobs, started, stale, disturbed>>

InsertLink(q) ==
  LET o == op[q] IN
  /\ o.pc = "link"
  /\ \/ <<o.user, o.row>> \in links /\ Ends(q) /\ UNCHANGED <<links, stale>>
     \/ /\ <<o.user, o.row>> \notin links
        /\ links' = links \cup {<<o.user, o.row>>}
        /\ stale' = stale \cup {o.user}
        /\ Goes(q, AfterLink(o))
  /\ UNCHANGED <<rows, streams, completed, quota, jobs, started, disturbed>>

Enqueue(q) ==
  /\ op[q].pc = "enqueue"
  /\ jobs' = jobs \cup {op[q].row}
  /\ Goes(q, Resolved(op[q]))
  /\ UNCHANGED <<rows, links, streams, completed, quota, started, stale, disturbed>>

(* The selections are compared with those read at the start. *)
Compare(q) ==
  LET o == op[q] IN
  /\ o.pc = "next" /\ o.todo = {}
  /\ IF o.user = None THEN Ends(q)
     ELSE Goes(q, [o EXCEPT !.changed = o.before # o.chosen \/ o.beforeStreams # o.wanted,
                            !.pc = IF o.before # o.chosen THEN "remove"
                                   ELSE IF o.beforeStreams # o.wanted THEN "streams"
                                   ELSE "save"])
  /\ UNCHANGED <<rows, links, streams, completed, quota, jobs, started, stale, disturbed>>

(* Mutant: what was selected before stays selected. *)
RemoveNothing(q) ==
  LET o == op[q] IN
  /\ o.pc = "remove"
  /\ links' = links
  /\ stale' = stale \cup {o.user}
  /\ Goes(q, [o EXCEPT !.pc = IF o.beforeStreams # o.wanted THEN "streams" ELSE "save"])
  /\ UNCHANGED <<rows, streams, completed, quota, jobs, started, disturbed>>

RemoveUnselected(q) ==
  LET o == op[q] IN
  /\ o.pc = "remove"
  /\ links' = {l \in links : l[1] = o.user => l[2] \in o.chosen}
  /\ stale' = stale \cup {o.user}
  /\ Goes(q, [o EXCEPT !.pc = IF o.beforeStreams # o.wanted THEN "streams" ELSE "save"])
  /\ UNCHANGED <<rows, streams, completed, quota, jobs, started, disturbed>>

(* linkUserSelections: what the transaction sees, and what it commits; a link *)
(* that another request has committed meanwhile violates the unique key.     *)
ReadStreams(q) ==
  LET o == op[q] IN
  /\ o.pc = "streams"
  /\ Goes(q, [o EXCEPT !.pc = "replace", !.beforeStreams = streams[o.user]])
  /\ UNCHANGED <<rows, links, streams, completed, quota, jobs, started, stale, disturbed>>

ReplaceStreams(q) ==
  LET o       == op[q]
      missing == o.wanted \ o.beforeStreams
  IN
  /\ o.pc = "replace"
  /\ \/ missing \cap streams[o.user] # {} /\ Ends(q) /\ UNCHANGED <<streams, stale>>
     \/ /\ missing \cap streams[o.user] = {}
        /\ streams' = [streams EXCEPT ![o.user] =
                         (@ \ (o.beforeStreams \ o.wanted)) \cup missing]
        /\ stale' = stale \cup {o.user}
        /\ Goes(q, [o EXCEPT !.pc = "save"])
  /\ UNCHANGED <<rows, links, completed, quota, jobs, started, disturbed>>

(* The user row is saved; the level and the timezone are left out. *)
SaveUser(q) ==
  LET o == op[q] IN
  /\ o.pc = "save"
  /\ completed' = completed \cup {o.user}
  /\ IF o.changed \/ o.user \notin completed
     THEN Goes(q, [o EXCEPT !.pc = "invalidate"])
     ELSE Ends(q)
  /\ UNCHANGED <<rows, links, streams, quota, jobs, started, stale, disturbed>>

Invalidate(q) ==
  /\ op[q].pc = "invalidate"
  /\ stale' = stale \ {op[q].user}
  /\ Ends(q)
  /\ UNCHANGED <<rows, links, streams, completed, quota, jobs, started, disturbed>>

-----------------------------------------------------------------------------
(* merge: both rows and the links of the loser are read, then everything is  *)
(* written and committed.                                                    *)
StartMerge(q) ==
  /\ \E winner, loser \in Rows :
       /\ winner # loser /\ Live(winner) /\ Live(loser)
       /\ Starts(q, [NoOp EXCEPT !.pc = "merge", !.row = winner, !.copy = rows[winner],
                                 !.other = loser, !.otherCopy = rows[loser],
                                 !.chosen = {u \in Users : <<u, loser>> \in links}])
  /\ UNCHANGED <<rows, links, streams, completed, quota, jobs, stale, disturbed>>

(* Mutant: the loser's own name is not kept. *)
AliasesOfBoth(copy, other) == copy.aliases \cup other.aliases

AliasesOf(copy, other) == copy.aliases \cup {other.name} \cup other.aliases

CommitMerge(q) ==
  LET o     == op[q]
      moved == {u \in o.chosen : <<u, o.other>> \in links}
  IN
  /\ o.pc = "merge"
  /\ \/ /\ \/ Taken(o.row, o.copy.kind, o.copy.name)
           \/ \E r \in Rows \ {o.row, o.other} : HasName(r, o.otherCopy.kind, o.otherCopy.name)
        /\ UNCHANGED <<rows, links, disturbed>>
     \/ /\ ~ Taken(o.row, o.copy.kind, o.copy.name)
        /\ ~ \E r \in Rows \ {o.row, o.other} : HasName(r, o.otherCopy.kind, o.otherCopy.name)
        /\ links' = (links \ {<<u, o.other>> : u \in moved}) \cup {<<u, o.row>> : u \in moved}
        /\ rows' = [rows EXCEPT
             ![o.row] = [o.copy EXCEPT !.aliases = AliasesOf(o.copy, o.otherCopy)],
             ![o.other] = [o.otherCopy EXCEPT !.deleted = TRUE, !.into = o.row]]
        /\ disturbed' = (disturbed \/ rows[o.row] # o.copy \/ rows[o.other] # o.otherCopy
                                   \/ o.copy.kind # o.otherCopy.kind)
  /\ Ends(q)
  /\ UNCHANGED <<streams, completed, quota, jobs, started, stale>>

(* update: a rename into a name that no row of the kind has, and new aliases. *)
StartUpdate(q) ==
  /\ \E r \in Rows, name \in Names, aliases \in SUBSET Names :
       /\ Live(r) /\ ~ Taken(r, rows[r].kind, name)
       /\ Starts(q, [NoOp EXCEPT !.pc = "update", !.row = r, !.copy = rows[r],
                                 !.otherCopy = [rows[r] EXCEPT !.name = name,
                                                               !.aliases = aliases]])
  /\ UNCHANGED <<rows, links, streams, completed, quota, jobs, stale, disturbed>>

CommitUpdate(q) ==
  LET o == op[q]
      merged == {s \in Rows : Exists(s) /\ rows[s].deleted /\ rows[s].kind = o.copy.kind}
  IN
  /\ o.pc = "update"
  /\ \/ Taken(o.row, o.copy.kind, o.otherCopy.name) /\ UNCHANGED <<rows, disturbed>>
     \/ /\ ~ Taken(o.row, o.copy.kind, o.otherCopy.name)
        /\ rows' = [rows EXCEPT ![o.row] = o.otherCopy]
        /\ disturbed' = (disturbed \/ rows[o.row] # o.copy
                         \/ \E s \in merged : rows[s].name \in o.copy.aliases
                                              /\ rows[s].name \notin o.otherCopy.aliases)
  /\ Ends(q)
  /\ UNCHANGED <<links, streams, completed, quota, jobs, started, stale>>

-----------------------------------------------------------------------------
Onboard(q) ==
  \/ StartOnboarding(q) \/ LookUp(q) \/ AppendAlias(q) \/ CountQuota(q) \/ RecordQuota(q)
  \/ Insert(q) \/ FindLink(q) \/ InsertLink(q) \/ Enqueue(q) \/ Compare(q)
  \/ RemoveUnselected(q) \/ ReadStreams(q) \/ ReplaceStreams(q) \/ SaveUser(q) \/ Invalidate(q)

Administer(q) ==
  \/ StartCreation(q) \/ StartMerge(q) \/ CommitMerge(q) \/ StartUpdate(q) \/ CommitUpdate(q)

Next ==
  \/ \E q \in Requests : Onboard(q) \/ Administer(q) \/ Fails(q)
  \/ Expire

Spec == Init /\ [][Next]_vars

-----------------------------------------------------------------------------
(* The rows that a user created under a quota record of the last 24 hours   *)
(* and that still have the name they were created with.                     *)
Charged(u) ==
  {r \in Rows : LET c == rows[r].creator IN
     /\ c # None /\ c.user = u /\ c.key \in Recent(u)
     /\ c.key = <<rows[r].kind, rows[r].name>>}

(* With any number of requests at once, the records of the last 24 hours    *)
(* never carry more of a user's creations than the limit. A row that an     *)
(* update renamed frees its key for one more, and a creation under an older *)
(* record is not counted at all: CreationsAreCounted fails.                 *)
QuotaIsKept == \A u \in Users : Cardinality(Charged(u)) <= Limit

(* When a user's request inserts a row, the user's quota has a record, of   *)
(* whatever age, for that very kind and name: a reservation that did not    *)
(* commit, or one of another name, pays nothing.                            *)
CreationsArePaid ==
  \A r \in Rows : rows[r].creator # None => rows[r].creator.record # "none"

(* The name of a row that was merged away still finds the row that took it  *)
(* over, through any chain of merges, until an update takes the alias away, *)
(* rows of two kinds are merged or a save writes back what it read too long *)
(* ago: only then does resolving the name run into the unique key for ever. *)
NamesKeepResolving ==
  ~ disturbed => \A r \in Rows : Exists(r) => Matches(rows[r].kind, rows[r].name) # {}

(* A request that nobody else ran beside leaves exactly its selections and  *)
(* its streams, and renews the version of the feed if it changed either: in  *)
(* createOrReuse, removeUnselected, linkUserSelections or only in the first. *)
SoloOnboardingIsExact ==
  \A q \in Requests :
    LET o == op[q] IN
    o.alone /\ o.pc \in {"save", "invalidate"} =>
      /\ Selected(o.user) = o.chosen
      /\ streams[o.user] = o.wanted
      /\ o.clean /\ o.user \in stale => o.changed

(* What the code does not guarantee: each creation of a user has a record of *)
(* its own made in the last 24 hours, which is what the count of reserve     *)
(* goes by, ...                                                              *)
CreationsAreCounted ==
  \A r \in Rows : rows[r].creator # None =>
    /\ rows[r].creator.record = "recent"
    /\ \A s \in Rows \ {r} : rows[s].creator # None =>
         \/ rows[s].creator.user # rows[r].creator.user
         \/ rows[s].creator.key # rows[r].creator.key

(* ... a row whose creator is gone may have no job, ...                      *)
NewRowsAreDiscovered ==
  \A r \in Rows : Exists(r) /\ (\A q \in Requests : op[q].row # r) => r \in jobs

(* ... a user keeps what a failed request added, beside what it was to       *)
(* replace, ...                                                              *)
SelectionsAreLimited ==
  \A u \in Users, kind \in Kinds :
    (\A q \in Requests : op[q].user # u) =>
      Cardinality({r \in Selected(u) : rows[r].kind = kind}) <= MaxSelected

(* ... and a request links the row that a merge has just retired. *)
LinksAreLive == \A l \in links : Live(l[2])
=============================================================================
