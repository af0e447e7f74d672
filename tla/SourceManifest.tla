---------------------------- MODULE SourceManifest ----------------------------
(***************************************************************************)
(* The source manifest: syncAll walks its entries beside operators who     *)
(* create, tune and remove sources and the worker that promotes            *)
(* candidates.  An entry updates the row its url is found under, creates a *)
(* source, or leaves a rejected candidate; a row read by update() is saved *)
(* whole, later.  One action per statement, the locked identity check and  *)
(* its insert being one.                                                   *)
(***************************************************************************)
EXTENDS Naturals, Sequences, FiniteSets

CONSTANTS
  Rows,      \* identities of sources rows
  Urls,      \* urls as written, the normalised ones included
  Norm,      \* normalizeUrl
  Domain,    \* the domain of a url
  Entries,   \* the manifest: a sequence of [url, tuning, mode, valid]
  Tunings,   \* settings of enabled and trustScore
  MaxSyncs,  \* bound: runs of the sync
  MaxTunes,  \* bound: updates by operators
  None

VARIABLES
  source,    \* the sources rows, soft-deleted ones included
  candidate, \* status of source_candidates rows, by normalised url
  sync,      \* the run of syncAll
  admin,     \* the operator's request
  syncs, tunes

vars == <<source, candidate, sync, admin, syncs, tunes>>

Normals == {Norm[u] : u \in Urls}
Entry   == Entries[sync.at]
Answers == {"created", "updated", "candidate", "failed"}

(* chosen: history, the tunings an operator, the creation or a forced sync   *)
(* gave the row.                                                             *)
Row == [url : Urls, tuned : Tunings, deleted : BOOLEAN, chosen : SUBSET Tunings]

NoSync  == [pc |-> "idle", at |-> 1, force |-> FALSE, known |-> [n \in Normals |-> None],
            read |-> None, answers |-> <<>>]
NoAdmin == [pc |-> "idle", row |-> None, read |-> None]

TypeOK ==
  /\ source \in [Rows -> Row \cup {None}]
  /\ candidate \in [Normals -> {None, "pending", "rejected", "active"}]
  /\ sync.pc \in {"idle", "entry", "load", "save", "probe", "equivalent", "insert", "upsert", "reject"}
  /\ sync.at \in 1 .. Len(Entries) + 1 /\ sync.force \in BOOLEAN
  /\ sync.known \in [Normals -> Rows \cup {None}] /\ sync.read \in Row \cup {None}
  /\ sync.answers \in UNION {[1 .. k -> Answers] : k \in 0 .. Len(Entries)}
  /\ admin.pc \in {"idle", "save"} /\ admin.row \in Rows \cup {None} /\ admin.read \in Row \cup {None}
  /\ syncs \in 0 .. MaxSyncs /\ tunes \in 0 .. MaxTunes

Init ==
  /\ source = [r \in Rows |-> None]
  /\ candidate = [n \in Normals |-> None]
  /\ sync = NoSync /\ admin = NoAdmin
  /\ syncs = 0 /\ tunes = 0

Taken    == {r \in Rows : source[r] # None}
Live     == {r \in Taken : ~ source[r].deleted}
Holds(u) == \E r \in Taken : source[r].url = u   \* the unique constraint on sources.url
-----------------------------------------------------------------------------
(* SourceIdentityService. *)

(* Mutant: sharing a domain is enough. *)
EquivalentByDomain(u) == {r \in Taken : Domain[source[r].url] = Domain[u]}

(* findEquivalentWith: rows stored under the normalised url, deleted or not. *)
Equivalent(u) == {r \in Taken : source[r].url = Norm[u]}

(* resolveOrCreate: the advisory lock makes the check and the insert one. *)
ResolveOrCreate(u, tuning) ==
  IF Equivalent(u) # {} THEN UNCHANGED source
  ELSE \E r \in Rows \ Taken :
         source' = [source EXCEPT ![r] =
           [url |-> Norm[u], tuned |-> tuning, deleted |-> FALSE, chosen |-> {tuning}]]
-----------------------------------------------------------------------------
(* syncAll. *)

Goto(pc) == sync' = [sync EXCEPT !.pc = pc]

Answer(answer) ==
  sync' = [sync EXCEPT !.answers = Append(@, answer), !.at = @ + 1, !.read = None,
                       !.pc = IF sync.at = Len(Entries) THEN "idle" ELSE "entry"]

(* loadExistingSourcesByNormalizedUrl: of two rows of one identity, either. *)
Maps == {m \in [Normals -> Live \cup {None}] :
           \A n \in Normals : LET rows == {r \in Live : Norm[source[r].url] = n} IN
             IF rows = {} THEN m[n] = None ELSE m[n] \in rows}

Start(force) ==
  /\ sync.pc = "idle" /\ syncs < MaxSyncs
  /\ \E known \in Maps : sync' = [NoSync EXCEPT !.pc = "entry", !.force = force, !.known = known]
  /\ syncs' = syncs + 1
  /\ UNCHANGED <<source, candidate, admin, tunes>>

(* syncEntry: the map is the one of the start. *)
Begin ==
  /\ sync.pc = "entry"
  /\ IF ~ Entry.valid THEN Answer("failed")
     ELSE IF sync.known[Norm[Entry.url]] # None THEN Goto("load")
     ELSE Goto(IF Entry.mode = "web" THEN "equivalent" ELSE "probe")
  /\ UNCHANGED <<source, candidate, admin, syncs, tunes>>

(* update(): NotFound if the row was deleted since. *)
Load ==
  LET r == sync.known[Norm[Entry.url]] IN
  /\ sync.pc = "load"
  /\ IF r \in Live THEN sync' = [sync EXCEPT !.pc = "save", !.read = source[r]] ELSE Answer("failed")
  /\ UNCHANGED <<source, candidate, admin, syncs, tunes>>

(* Mutant: the manifest's tuning always goes into the update. *)
RetunedAlways == TRUE

Retuned == sync.force

(* The row as read, under the manifest's url and, if forced, its tuning. *)
Save ==
  LET r     == sync.known[Norm[Entry.url]]
      tuned == IF Retuned THEN Entry.tuning ELSE sync.read.tuned IN
  /\ sync.pc = "save"
  /\ IF \E q \in Taken \ {r} : source[q].url = Entry.url
     THEN Answer("failed") /\ UNCHANGED source
     ELSE /\ source' = [source EXCEPT ![r].url = Entry.url, ![r].tuned = tuned,
                          ![r].chosen = IF sync.force THEN @ \cup {Entry.tuning} ELSE @]
          /\ Answer("updated")
  /\ UNCHANGED <<candidate, admin, syncs, tunes>>

(* fetchAndValidateFeed by the sync; "auto" falls back to the web chain.     *)
Probe ==
  /\ sync.pc = "probe"
  /\ \/ Goto("equivalent")
     \/ Entry.mode = "rss" /\ Goto("upsert")
  /\ UNCHANGED <<source, candidate, admin, syncs, tunes>>

(* createOrReuse before it looks at the site. *)
FindEquivalent ==
  /\ sync.pc = "equivalent"
  /\ IF Equivalent(Entry.url) # {} THEN Answer("created") ELSE Goto("insert")
  /\ UNCHANGED <<source, candidate, admin, syncs, tunes>>

(* The site is fetched and, if it has what a source needs, inserted.  A web  *)
(* source without entry pages becomes a candidate; other errors fail.        *)
Create ==
  /\ sync.pc = "insert"
  /\ \/ ResolveOrCreate(Entry.url, Entry.tuning) /\ Answer("created")
     \/ Entry.mode # "rss" /\ Goto("upsert") /\ UNCHANGED source
     \/ Answer("failed") /\ UNCHANGED source
  /\ UNCHANGED <<candidate, admin, syncs, tunes>>

(* createOrRefreshCandidate: the upsert keeps a status, then overwrites it. *)
Upsert ==
  /\ sync.pc = "upsert"
  /\ candidate' = [candidate EXCEPT ![Norm[Entry.url]] = IF @ = None THEN "pending" ELSE @]
  /\ Goto("reject")
  /\ UNCHANGED <<source, admin, syncs, tunes>>

Reject ==
  /\ sync.pc = "reject"
  /\ candidate' = [candidate EXCEPT ![Norm[Entry.url]] = "rejected"]
  /\ Answer("candidate")
  /\ UNCHANGED <<source, admin, syncs, tunes>>
-----------------------------------------------------------------------------
(* Operators and the promotion of candidates. *)

(* SourcesService.create stores the url as written and compares it so; the   *)
(* insert fails on a soft-deleted row's url.                                 *)
AdminCreate(u, tuning) ==
  /\ admin.pc = "idle" /\ tunes < MaxTunes /\ ~ Holds(u)
  /\ \E r \in Rows \ Taken :
       source' = [source EXCEPT ![r] =
         [url |-> u, tuned |-> tuning, deleted |-> FALSE, chosen |-> {tuning}]]
  /\ tunes' = tunes + 1
  /\ UNCHANGED <<candidate, sync, admin, syncs>>

(* update(), activate(), disable(): read, then save. *)
AdminLoad(r) ==
  /\ admin.pc = "idle" /\ tunes < MaxTunes /\ r \in Live
  /\ admin' = [pc |-> "save", row |-> r, read |-> source[r]]
  /\ tunes' = tunes + 1
  /\ UNCHANGED <<source, candidate, sync, syncs>>

AdminSave(tuning) ==
  /\ admin.pc = "save"
  /\ \/ /\ ~ \E q \in Taken \ {admin.row} : source[q].url = admin.read.url
        /\ source' = [source EXCEPT ![admin.row].url = admin.read.url, ![admin.row].tuned = tuning,
                                    ![admin.row].chosen = @ \cup {tuning}]
     \/ /\ \E q \in Taken \ {admin.row} : source[q].url = admin.read.url
        /\ UNCHANGED source
  /\ admin' = NoAdmin
  /\ UNCHANGED <<candidate, sync, syncs, tunes>>

AdminRemove(r) ==
  /\ admin.pc = "idle" /\ tunes < MaxTunes /\ r \in Live
  /\ source' = [source EXCEPT ![r].deleted = TRUE]
  /\ tunes' = tunes + 1
  /\ UNCHANGED <<candidate, sync, admin, syncs>>

(* SourceCandidatesService.promoteToSource, through the same resolver. *)
Promote(n) ==
  /\ candidate[n] = "pending"
  /\ \E tuning \in Tunings : ResolveOrCreate(n, tuning)
  /\ candidate' = [candidate EXCEPT ![n] = "active"]
  /\ UNCHANGED <<sync, admin, syncs, tunes>>

Next ==
  \/ \E force \in BOOLEAN : Start(force)
  \/ Begin \/ Load \/ Save \/ Probe \/ FindEquivalent \/ Create \/ Upsert \/ Reject
  \/ \E u \in Urls, tuning \in Tunings : AdminCreate(u, tuning)
  \/ \E r \in Rows : (AdminLoad(r) \/ AdminRemove(r))
  \/ \E tuning \in Tunings : AdminSave(tuning)
  \/ \E n \in Normals : Promote(n)

Spec == Init /\ [][Next]_vars
-----------------------------------------------------------------------------
(* Properties. *)

(* A source's tuning is one an operator, its creation or a forced sync chose *)
(* for it (comment of syncExistingSource, source-sync.service.ts lines       *)
(* 303-307), whatever saves of stale reads put back.                         *)
TuningWasChosen == \A r \in Taken : source[r].tuned \in source[r].chosen

(* Every entry walked has one answer, and one answered "created" or          *)
(* "updated" has a source of its identity, also when rows were renamed,      *)
(* removed or added by others meanwhile.                                     *)
AnswersAreTrue ==
  /\ Len(sync.answers) = sync.at - 1
  /\ \A i \in DOMAIN sync.answers : sync.answers[i] \in {"created", "updated"} =>
       \E r \in Taken : Norm[source[r].url] = Norm[Entries[i].url]

ManifestHolds == TuningWasChosen /\ AnswersAreTrue

(* README of sources, lines 38-43: a source is created only when no          *)
(* equivalent one exists.                                                    *)
OneSourcePerIdentity ==
  \A r, q \in Live : Norm[source[r].url] = Norm[source[q].url] => r = q

(* The same comment's last sentence, step by step: without force the sync    *)
(* leaves an operator's tuning alone.                                        *)
TuningIsLeftAlone ==
  \A r \in Taken : Save /\ ~ sync.force => source'[r].tuned = source[r].tuned
HandTuningIsKept == [][TuningIsLeftAlone]_vars
==============================================================================
