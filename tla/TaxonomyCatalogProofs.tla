----------------------- MODULE TaxonomyCatalogProofs -----------------------
(***************************************************************************)
(* What onboardings, administrators' creations, merges and updates keep of *)
(* the catalog, for any users, requests at a time, names, rows, streams    *)
(* and limits, in TaxonomyCatalog (T) and in MCReader, which runs it.      *)
(***************************************************************************)
EXTENDS MCReader, FiniteSetTheorems, TLAPS

-----------------------------------------------------------------------------
(***************************************************************************)
(* The inductive invariant, part by part.                                  *)
(***************************************************************************)

(* The quota is a number, the catalog's kinds and names are finite, and what *)
(* administrators created before has no name of a kind twice.                *)
Bound ==
  /\ Limit \in Nat /\ IsFiniteSet(RowKinds) /\ IsFiniteSet(Names)
  /\ None \notin RowKinds /\ None \notin Newcomers /\ None \notin Rows
  /\ \A known \in Catalogs :
       /\ DOMAIN known \subseteq Rows /\ known \in [DOMAIN known -> T!Keys]
       /\ \A r, s \in DOMAIN known : known[r] = known[s] => r = s

(* The requests, in full. *)
Op == [pc : T!Pc, user : Newcomers \cup {None}, todo : SUBSET T!Keys, wanted : SUBSET Streams,
       chosen : SUBSET (Newcomers \cup Rows), before : SUBSET Rows, beforeStreams : SUBSET Streams,
       key : T!Keys \cup {None}, row : Rows \cup {None}, copy : T!Row \cup {T!NoRow},
       other : Rows \cup {None}, otherCopy : T!Row \cup {T!NoRow}, fresh : BOOLEAN,
       alone : BOOLEAN, changed : BOOLEAN, clean : BOOLEAN]

(* The tables and the requests have their types. *)
Types ==
  /\ rows \in [Rows -> T!Row \cup {T!NoRow}]
  /\ links \subseteq Newcomers \X Rows
  /\ streams \in [Newcomers -> SUBSET Streams]
  /\ completed \subseteq Newcomers
  /\ quota \in [Newcomers -> [T!Keys -> {"none", "recent", "older"}]]
  /\ jobs \subseteq Rows
  /\ command \in [Requests -> Op]
  /\ stale \subseteq Newcomers
  /\ disturbed \in BOOLEAN

(* An entity in memory agrees with its row in what no step changes. *)
Entity(r, copy) ==
  /\ r \in Rows /\ T!Exists(r)
  /\ copy \in T!Row /\ ~ copy.deleted
  /\ copy.kind = rows[r].kind /\ copy.creator = rows[r].creator

Key(copy) == <<copy.kind, copy.name>>

(* What a request has in hand at each step. *)
Holds(o) ==
  /\ o.pc \in {"reserve", "record", "link", "remove", "streams", "replace", "save", "invalidate"}
       => o.user \in Newcomers
  /\ o.pc \in {"alias", "reserve", "record", "insert", "find", "link", "enqueue"} => o.key \in T!Keys
  /\ o.pc \in {"find", "link", "enqueue"} => o.row \in Rows /\ T!Exists(o.row)
  /\ o.pc \in {"alias", "merge", "update"} => Entity(o.row, o.copy)
  /\ o.pc = "merge" => /\ Entity(o.other, o.otherCopy) /\ o.other # o.row
                       /\ Key(o.copy) # Key(o.otherCopy)
  /\ o.pc = "update" => Entity(o.row, o.otherCopy)
  /\ o.pc # "merge" => o.chosen \subseteq Rows
Holding == \A q \in Requests : Holds(command[q])

(* The unique constraint on kind and normalizedName. *)
UniqueKeys ==
  \A r, s \in Rows : T!Exists(r) /\ T!Exists(s) /\ Key(rows[r]) = Key(rows[s]) => r = s

(* Who is about to record a creation holds the lock of its user, and the      *)
(* count that it has seen still is the user's.                               *)
Metered ==
  /\ \A u \in Newcomers : Cardinality(T!Recent(u)) <= Limit
  /\ \A q \in Requests : command[q].pc = "record" =>
       /\ quota[command[q].user][command[q].key] = "none"
       /\ Cardinality(T!Recent(command[q].user)) < Limit
  /\ \A p, q \in Requests :
       command[p].pc = "record" /\ command[q].pc = "record" /\ command[p].user = command[q].user => p = q

(* Who is about to insert for a user has that user's record. *)
Paid ==
  /\ T!CreationsArePaid
  /\ \A q \in Requests : command[q].pc = "insert" /\ command[q].user # None => quota[command[q].user][command[q].key] # "none"

(* A retired row has left its name to a live one. *)
Succeeded ==
  ~ disturbed => \A r \in Rows : T!Exists(r) /\ rows[r].deleted =>
     \E s \in Rows : T!Live(s) /\ rows[s].kind = rows[r].kind /\ rows[r].name \in rows[s].aliases

(* The selections of a request that are linked already. *)
Got(o) == IF o.pc = "enqueue" THEN o.chosen \cup {o.row} ELSE o.chosen

(* A request that nobody runs beside, while it links its selections, while it *)
(* replaces what was there, and when it is done.                             *)
Resolving(o) ==
  /\ \A r \in o.chosen : T!Live(r)
  /\ T!Selected(o.user) = o.before \cup Got(o)
  /\ streams[o.user] = o.beforeStreams
  /\ o.pc \in {"alias", "find", "link", "enqueue"} => T!Live(o.row)
  /\ o.pc = "alias" => o.copy = rows[o.row]
  /\ o.clean /\ o.user \in stale => ~ (Got(o) \subseteq o.before)

Replacing(o) ==
  /\ \A r \in o.chosen : T!Live(r)
  /\ T!Selected(o.user) = IF o.pc = "remove" THEN o.before \cup o.chosen ELSE o.chosen
  /\ streams[o.user] = o.beforeStreams
  /\ o.changed

Leaving(o) ==
  /\ T!Selected(o.user) = o.chosen
  /\ streams[o.user] = o.wanted
  /\ o.clean /\ o.user \in stale => o.changed

Solo(o) ==
  o.alone /\ o.user # None =>
   /\ o.pc \in {"next", "alias", "reserve", "record", "insert", "find", "link", "enqueue"} => Resolving(o)
   /\ o.pc \in {"remove", "streams", "replace"} => Replacing(o)
   /\ o.pc \in {"save", "invalidate"} => Leaving(o)

(* A link leads to a row of the table, deleted or not. *)
FoundLink == \A l \in links : T!Exists(l[2])

(* Nobody runs beside a request that is alone. *)
Alone ==
  /\ \A q \in Requests : Solo(command[q])
  /\ \A p, q \in Requests : command[q].pc # "idle" /\ command[q].alone /\ p # q => command[p].pc = "idle"
  /\ FoundLink

Base == Types /\ Holding /\ UniqueKeys

(* What no step takes from a row. *)
Keeps ==
  \A r \in Rows : T!Exists(r) => /\ rows'[r] # T!NoRow
                               /\ rows'[r].kind = rows[r].kind
                               /\ rows'[r].creator = rows[r].creator

-----------------------------------------------------------------------------
(***************************************************************************)
(* Types, what requests hold, and unique keys.                             *)
(***************************************************************************)

(* The catalog's module counts with the same operator. *)
LEMMA SameCardinality == \A X : T!Cardinality(X) = Cardinality(X)
  BY DEF T!Cardinality, Cardinality

(* Records that are no request's, and rows that do not exist. *)
LEMMA Records ==
  ASSUME Bound
  PROVE  /\ T!NoOp \in Op /\ T!NoOp.pc = "idle" /\ T!NoOp.chosen = {} /\ T!NoOp.user = None /\ T!NoOp.row = None
         /\ T!NoRow \notin T!Row /\ T!NoRow.kind = None /\ T!NoRow.creator = None
         /\ \A o : o.pc = "idle" /\ o.chosen = {} => Holds(o)
<1>1. T!NoRow \notin T!Row /\ T!NoRow.kind = None /\ T!NoRow.creator = None
  BY DEF T!NoRow, T!Row, Bound
<1>2. T!NoOp \in Op /\ T!NoOp.pc = "idle" /\ T!NoOp.chosen = {} /\ T!NoOp.user = None /\ T!NoOp.row = None
  BY DEF T!NoOp, Op, T!Pc
<1>3. ASSUME NEW o, o.pc = "idle", o.chosen = {}  PROVE Holds(o)
  BY <1>3 DEF Holds
<1> QED  BY <1>1, <1>2, <1>3

(* A row that exists is a record of Row. *)
LEMMA RowTyped ==
  ASSUME Types, NEW r \in Rows, T!Exists(r)
  PROVE  rows[r] \in T!Row
  BY DEF Types, T!Exists

LEMMA Moved ==
  ASSUME Types, NEW q \in Requests, NEW o \in Op, command' = [command EXCEPT ![q] = o]
  PROVE  /\ command' \in [Requests -> Op] /\ command'[q] = o
         /\ \A p \in Requests \ {q} : command'[p] = command[p]
  BY DEF Types

LEMMA HoldsOn ==
  ASSUME Keeps, NEW o, Holds(o)
  PROVE  Holds(o)'
<1>1. ASSUME NEW r, NEW copy, Entity(r, copy)  PROVE  Entity(r, copy)'
  BY <1>1 DEF Keeps, Entity, T!Exists
<1>2. ASSUME NEW r \in Rows, T!Exists(r)  PROVE  T!Exists(r)'
  BY <1>2 DEF Keeps, T!Exists
<1> QED  BY <1>1, <1>2 DEF Holds, Key

LEMMA GoHolds ==
  ASSUME Types, Holding, Keeps, NEW q \in Requests, NEW o \in Op, command' = [command EXCEPT ![q] = o], Holds(o)'
  PROVE  Holding'
<1>1. /\ command' \in [Requests -> Op] /\ command'[q] = o
      /\ \A p \in Requests \ {q} : command'[p] = command[p]
  BY Moved
<1>2. ASSUME NEW p \in Requests  PROVE Holds(command[p])'
  <2>1. CASE p = q
    BY <1>1, <2>1 DEF Holds, Entity, T!Exists, Key
  <2>2. CASE p # q
    <3>1. Holds(command[p])
      BY DEF Holding
    <3>2. command'[p] = command[p]
      BY <1>1, <2>2
    <3> DEFINE x == command[p]
    <3>3. Holds(x)
      BY <3>1
    <3> QED  BY <3>2, <3>1, HoldsOn
  <2> QED  BY <2>1, <2>2
<1> QED  BY <1>2 DEF Holding

(* Steps that write no row. *)

LEMMA QuietGo ==
  ASSUME Bound, Base, NEW q \in Requests, NEW o \in Op, command' = [command EXCEPT ![q] = o], Holds(o),
         rows' = rows, links' \subseteq Newcomers \X Rows, streams' \in [Newcomers -> SUBSET Streams],
         completed' \subseteq Newcomers, quota' \in [Newcomers -> [T!Keys -> {"none", "recent", "older"}]],
         jobs' \subseteq Rows, stale' \subseteq Newcomers, disturbed' \in BOOLEAN
  PROVE  Base'
<1>1. Keeps
  BY DEF Keeps, T!Exists
<1>2. Holds(o)'
  BY <1>1, HoldsOn
<1>3. Holding'
  BY <1>1, <1>2, GoHolds DEF Base
<1>4. Types'
  BY Moved DEF Base, Types
<1>5. UniqueKeys'
  BY DEF Base, UniqueKeys, T!Exists, Key
<1> QED  BY <1>3, <1>4, <1>5 DEF Base

LEMMA QuietEnd ==
  ASSUME Bound, Base, NEW q \in Requests, T!Ends(q),
         rows' = rows, links' \subseteq Newcomers \X Rows, streams' \in [Newcomers -> SUBSET Streams],
         completed' \subseteq Newcomers, quota' \in [Newcomers -> [T!Keys -> {"none", "recent", "older"}]],
         jobs' \subseteq Rows, stale' \subseteq Newcomers, disturbed' \in BOOLEAN
  PROVE  Base'
  BY Records, QuietGo DEF T!Ends, T!Goes

(* An arrival changes of the other requests only what they know of being alone. *)
Same(a, b) ==
  /\ a.pc = b.pc /\ a.user = b.user /\ a.key = b.key /\ a.row = b.row /\ a.copy = b.copy
  /\ a.other = b.other /\ a.otherCopy = b.otherCopy /\ a.chosen = b.chosen
  /\ a.todo = b.todo /\ a.wanted = b.wanted /\ a.before = b.before /\ a.fresh = b.fresh
  /\ a.beforeStreams = b.beforeStreams /\ a.changed = b.changed /\ a.clean = b.clean

LEMMA SameHolds ==
  ASSUME NEW a, NEW b, Same(a, b), Holds(b)
  PROVE  Holds(a)
  BY DEF Same, Holds

LEMMA Arrival ==
  ASSUME Types, NEW q \in Requests, NEW o \in Op, T!Starts(q, o)
  PROVE  /\ command' \in [Requests -> Op] /\ command[q].pc = "idle"
         /\ Same(command'[q], o)
         /\ command'[q].alone => \A p \in Requests \ {q} : command[p].pc = "idle"
         /\ \A p \in Requests \ {q} : command'[p] = command[p] \/ ~ command'[p].alone
         /\ \A p \in Requests \ {q} : command[p].pc # "idle" => ~ command'[p].alone
         /\ \A p \in Requests \ {q} : Same(command'[p], command[p])
<1> DEFINE others == {p \in Requests \ {q} : command[p].pc # "idle"}
<1>1. command' = [p \in Requests |->
               IF p = q THEN [o EXCEPT !.alone = others = {}]
               ELSE IF p \in others THEN [command[p] EXCEPT !.alone = FALSE] ELSE command[p]]
  BY DEF T!Starts
<1>2. command[q].pc = "idle"
  BY DEF T!Starts
<1>3. command'[q] = [o EXCEPT !.alone = others = {}]
  BY <1>1
<1>4. (others = {}) \in BOOLEAN
  OBVIOUS
<1> HIDE DEF others
<1>5. command'[q] \in Op /\ Same(command'[q], o) /\ (command'[q].alone <=> others = {})
  BY <1>3, <1>4 DEF Op, Same
<1>6. ASSUME NEW p \in Requests \ {q}
      PROVE  /\ command'[p] \in Op /\ Same(command'[p], command[p])
             /\ command'[p] = command[p] \/ ~ command'[p].alone
             /\ p \in others => ~ command'[p].alone
  <2>1. command[p] \in Op
    BY DEF Types
  <2>2. CASE p \in others
    <3>1. command'[p] = [command[p] EXCEPT !.alone = FALSE]
      BY <1>1, <2>2
    <3> QED  BY <2>1, <3>1 DEF Op, Same
  <2>3. CASE p \notin others
    <3>1. command'[p] = command[p]
      BY <1>1, <2>3
    <3> QED  BY <2>1, <2>3, <3>1 DEF Same
  <2> QED  BY <2>2, <2>3
<1>7. command' \in [Requests -> Op]
  <2>1. \A p \in Requests : command'[p] \in Op
    BY <1>5, <1>6
  <2> QED  BY <1>1, <2>1
<1>8. command'[q].alone => \A p \in Requests \ {q} : command[p].pc = "idle"
  BY <1>5 DEF others
<1>9. \A p \in Requests \ {q} : command[p].pc # "idle" => p \in others
  BY DEF others
<1>10. \A p \in Requests \ {q} : command'[p] = command[p] \/ ~ command'[p].alone
  BY <1>6
<1>11. \A p \in Requests \ {q} : command[p].pc # "idle" => ~ command'[p].alone
  BY <1>6, <1>9
<1>12. \A p \in Requests \ {q} : Same(command'[p], command[p])
  BY <1>6
<1>13. Same(command'[q], o)
  BY <1>5
<1> QED  BY <1>2, <1>7, <1>8, <1>10, <1>11, <1>12, <1>13

LEMMA ArrivalBase ==
  ASSUME Bound, Base, NEW q \in Requests, NEW o \in Op, T!Starts(q, o), Holds(o),
         UNCHANGED <<rows, links, streams, completed, quota, jobs, stale, disturbed>>
  PROVE  Base'
<1>1. Types'
  BY Arrival DEF Base, Types
<1>2. UniqueKeys'
  BY DEF Base, UniqueKeys, T!Exists, Key
<1>3. Keeps
  BY DEF Keeps, T!Exists
<1>4. ASSUME NEW p \in Requests  PROVE Holds(command[p])'
  <2>1. Holds(command'[p])
    <3>1. CASE p = q
      BY <3>1, Arrival, SameHolds DEF Base
    <3>2. CASE p # q
      BY <3>2, Arrival, SameHolds DEF Base, Holding
    <3> QED  BY <3>1, <3>2
  <2> DEFINE x == command'[p]
  <2>2. /\ \A r, copy : Entity(r, copy) => r \in Rows /\ rows'[r] # T!NoRow /\ copy \in T!Row /\ ~ copy.deleted
                          /\ copy.kind = rows'[r].kind /\ copy.creator = rows'[r].creator
    BY DEF Entity, T!Exists
  <2> QED  BY <2>1, <2>2 DEF Holds, Entity, T!Exists, Key
<1>5. Holding'
  BY <1>4 DEF Holding
<1> QED  BY <1>1, <1>2, <1>5 DEF Base

(* What a request for the selections begins with. *)
LEMMA StartsBase ==
  ASSUME Bound, Base, NEW q \in Requests,
         T!StartOnboarding(q) \/ T!StartCreation(q) \/ T!StartMerge(q) \/ T!StartUpdate(q)
  PROVE  Base'
<1>1. CASE T!StartOnboarding(q)
  <2>1. PICK u \in Newcomers, todo \in SUBSET T!Keys \ {{}}, wanted \in SUBSET Streams \ {{}} :
          T!Starts(q, [T!NoOp EXCEPT !.pc = "next", !.user = u, !.todo = todo, !.wanted = wanted,
                                 !.before = T!Selected(u), !.beforeStreams = streams[u],
                                 !.clean = u \notin stale])
    BY <1>1 DEF T!StartOnboarding
  <2> DEFINE o == [T!NoOp EXCEPT !.pc = "next", !.user = u, !.todo = todo, !.wanted = wanted,
                               !.before = T!Selected(u), !.beforeStreams = streams[u],
                               !.clean = u \notin stale]
  <2>2. T!Selected(u) \in SUBSET Rows /\ streams[u] \in SUBSET Streams /\ (u \notin stale) \in BOOLEAN
    BY DEF Base, Types, T!Selected, T!LinksOf
  <2>3. o \in Op /\ o.pc = "next" /\ o.chosen = {}
    BY <2>2, Records DEF Op, T!Pc
  <2>4. Holds(o)
    BY <2>3 DEF Holds
  <2>5. T!Starts(q, o) /\ UNCHANGED <<rows, links, streams, completed, quota, jobs, stale, disturbed>>
    BY <1>1, <2>1 DEF T!StartOnboarding
  <2> HIDE DEF o
  <2> QED  BY <2>3, <2>4, <2>5, ArrivalBase
<1>2. CASE T!StartCreation(q)
  <2>1. PICK k \in T!Keys : T!Starts(q, [T!NoOp EXCEPT !.pc = "next", !.todo = {k}])
    BY <1>2 DEF T!StartCreation
  <2> DEFINE o == [T!NoOp EXCEPT !.pc = "next", !.todo = {k}]
  <2>3. o \in Op /\ o.pc = "next" /\ o.chosen = {}
    BY Records DEF Op, T!Pc
  <2>4. Holds(o)
    BY <2>3 DEF Holds
  <2>5. T!Starts(q, o) /\ UNCHANGED <<rows, links, streams, completed, quota, jobs, stale, disturbed>>
    BY <1>2, <2>1 DEF T!StartCreation
  <2> HIDE DEF o
  <2> QED  BY <2>3, <2>4, <2>5, ArrivalBase
<1>3. CASE T!StartMerge(q)
  <2>1. PICK winner \in Rows, loser \in Rows :
          /\ winner # loser /\ T!Live(winner) /\ T!Live(loser)
          /\ T!Starts(q, [T!NoOp EXCEPT !.pc = "merge", !.row = winner, !.copy = rows[winner],
                                    !.other = loser, !.otherCopy = rows[loser],
                                    !.chosen = {u \in Newcomers : <<u, loser>> \in links}])
    BY <1>3 DEF T!StartMerge
  <2> DEFINE o == [T!NoOp EXCEPT !.pc = "merge", !.row = winner, !.copy = rows[winner],
                               !.other = loser, !.otherCopy = rows[loser],
                               !.chosen = {u \in Newcomers : <<u, loser>> \in links}]
  <2>2. rows[winner] \in T!Row /\ rows[loser] \in T!Row /\ ~ rows[winner].deleted /\ ~ rows[loser].deleted
        /\ T!Exists(winner) /\ T!Exists(loser)
    BY <2>1, RowTyped DEF Base, T!Live
  <2>3. {u \in Newcomers : <<u, loser>> \in links} \in SUBSET (Newcomers \cup Rows)
    OBVIOUS
  <2>4. /\ o \in Op /\ o.pc = "merge" /\ o.row = winner /\ o.copy = rows[winner]
        /\ o.other = loser /\ o.otherCopy = rows[loser]
    BY <2>2, <2>3, Records DEF Op, T!Pc
  <2>5. T!Starts(q, o) /\ UNCHANGED <<rows, links, streams, completed, quota, jobs, stale, disturbed>>
    BY <1>3, <2>1 DEF T!StartMerge
  <2> HIDE DEF o
  <2>6. Key(o.copy) # Key(o.otherCopy)
    BY <2>1, <2>2, <2>4 DEF Base, UniqueKeys
  <2>7. Holds(o)
    BY <2>1, <2>2, <2>4, <2>6 DEF Holds, Entity
  <2> QED  BY <2>4, <2>5, <2>7, ArrivalBase
<1>4. CASE T!StartUpdate(q)
  <2>1. PICK r \in Rows, name \in Names, aliases \in SUBSET Names :
          /\ T!Live(r)
          /\ T!Starts(q, [T!NoOp EXCEPT !.pc = "update", !.row = r, !.copy = rows[r],
                                    !.otherCopy = [rows[r] EXCEPT !.name = name, !.aliases = aliases]])
    BY <1>4 DEF T!StartUpdate
  <2> DEFINE copy == [rows[r] EXCEPT !.name = name, !.aliases = aliases]
             o == [T!NoOp EXCEPT !.pc = "update", !.row = r, !.copy = rows[r], !.otherCopy = copy]
  <2>2. rows[r] \in T!Row /\ ~ rows[r].deleted /\ T!Exists(r)
    BY <2>1, RowTyped DEF Base, T!Live
  <2>3. /\ copy \in T!Row /\ ~ copy.deleted
        /\ copy.kind = rows[r].kind /\ copy.creator = rows[r].creator
    BY <2>2 DEF T!Row
  <2>5. T!Starts(q, o) /\ UNCHANGED <<rows, links, streams, completed, quota, jobs, stale, disturbed>>
    BY <1>4, <2>1 DEF T!StartUpdate
  <2> HIDE DEF copy
  <2>4. /\ o \in Op /\ o.pc = "update" /\ o.row = r /\ o.copy = rows[r] /\ o.otherCopy = copy
        /\ o.chosen = {}
    BY <2>2, <2>3, Records DEF Op, T!Pc
  <2> HIDE DEF o
  <2>7. Holds(o)
    BY <2>1, <2>2, <2>3, <2>4 DEF Holds, Entity
  <2> QED  BY <2>4, <2>5, <2>7, ArrivalBase
<1> QED  BY <1>1, <1>2, <1>3, <1>4

(* The steps of a request for the selections that write no row. *)
LEMMA QuietBase ==
  ASSUME Bound, Base, NEW q \in Requests,
         \/ T!LookUp(q) \/ T!CountQuota(q) \/ T!RecordQuota(q) \/ T!FindLink(q) \/ T!InsertLink(q)
         \/ T!Enqueue(q) \/ T!Compare(q) \/ T!RemoveUnselected(q) \/ T!ReadStreams(q)
         \/ T!ReplaceStreams(q) \/ T!SaveUser(q) \/ T!Invalidate(q) \/ T!Fails(q)
  PROVE  Base'
<1> DEFINE o == command[q]
<1>1. /\ o \in Op /\ Holds(o)
      /\ rows \in [Rows -> T!Row \cup {T!NoRow}] /\ links \subseteq Newcomers \X Rows
      /\ streams \in [Newcomers -> SUBSET Streams] /\ completed \subseteq Newcomers
      /\ quota \in [Newcomers -> [T!Keys -> {"none", "recent", "older"}]]
      /\ jobs \subseteq Rows /\ stale \subseteq Newcomers /\ disturbed \in BOOLEAN
  BY DEF Base, Types, Holding
<1>2. CASE T!LookUp(q)
  <2>1. PICK k \in o.todo :
          LET found == T!Matches(k[1], k[2])
              x     == [o EXCEPT !.key = k, !.fresh = FALSE]
          IN  \/ /\ found = {}
                 /\ T!Goes(q, [x EXCEPT !.pc = IF x.user = None THEN "insert" ELSE "reserve"])
              \/ \E r \in found :
                   T!Goes(q, [x EXCEPT !.row = r, !.copy = rows[r],
                                     !.pc = IF T!Knows(rows[r], k[2]) THEN "find" ELSE "alias"])
    BY <1>2 DEF T!LookUp
  <2>2. UNCHANGED <<rows, links, streams, completed, quota, jobs, stale, disturbed>> /\ o.pc = "next"
    BY <1>2 DEF T!LookUp
  <2> DEFINE found == T!Matches(k[1], k[2])
             x == [o EXCEPT !.key = k, !.fresh = FALSE]
  <2>3. k \in T!Keys
    BY <1>1 DEF Op
  <2>4. /\ x \in Op /\ x.pc = "next" /\ x.key = k /\ x.chosen = o.chosen /\ x.user = o.user
    BY <1>1, <2>2, <2>3 DEF Op
  <2>5. o.chosen \subseteq Rows /\ o.user \in Newcomers \cup {None}
    BY <1>1, <2>2 DEF Holds, Op
  <2>6. CASE T!Goes(q, [x EXCEPT !.pc = IF x.user = None THEN "insert" ELSE "reserve"])
    <3> DEFINE y == [x EXCEPT !.pc = IF x.user = None THEN "insert" ELSE "reserve"]
    <3> HIDE DEF x
    <3>1. /\ y \in Op /\ y.key = k /\ y.chosen = o.chosen /\ y.user = o.user
          /\ y.pc = IF y.user = None THEN "insert" ELSE "reserve"
      BY <2>4 DEF Op, T!Pc
    <3>2. command' = [command EXCEPT ![q] = y]
      BY <2>6 DEF T!Goes
    <3> HIDE DEF y
    <3>3. Holds(y)
      BY <2>3, <2>5, <3>1 DEF Holds
    <3> QED  BY <1>1, <2>2, <3>1, <3>2, <3>3, QuietGo
  <2>7. CASE \E r \in found :
               T!Goes(q, [x EXCEPT !.row = r, !.copy = rows[r],
                                 !.pc = IF T!Knows(rows[r], k[2]) THEN "find" ELSE "alias"])
    <3> HIDE DEF x
    <3>1. PICK r \in found :
               T!Goes(q, [x EXCEPT !.row = r, !.copy = rows[r],
                                 !.pc = IF T!Knows(rows[r], k[2]) THEN "find" ELSE "alias"])
      BY <2>7
    <3> DEFINE y == [x EXCEPT !.row = r, !.copy = rows[r],
                              !.pc = IF T!Knows(rows[r], k[2]) THEN "find" ELSE "alias"]
    <3>2. r \in Rows /\ T!Live(r)
      BY DEF T!Matches
    <3>3. rows[r] \in T!Row /\ ~ rows[r].deleted /\ T!Exists(r)
      BY <3>2, RowTyped DEF Base, T!Live
    <3>4. /\ y \in Op /\ y.key = k /\ y.chosen = o.chosen /\ y.row = r /\ y.copy = rows[r]
          /\ y.pc \in {"find", "alias"}
      BY <2>4, <3>2, <3>3 DEF Op, T!Pc
    <3>5. command' = [command EXCEPT ![q] = y]
      BY <3>1 DEF T!Goes
    <3> HIDE DEF y
    <3>6. Holds(y)
      BY <2>3, <2>5, <3>2, <3>3, <3>4 DEF Holds, Entity
    <3> QED  BY <1>1, <2>2, <3>4, <3>5, <3>6, QuietGo
  <2> QED  BY <2>1, <2>6, <2>7
<1>3. CASE T!CountQuota(q)
  <2>1. UNCHANGED <<rows, links, streams, completed, quota, jobs, stale, disturbed>> /\ o.pc = "reserve"
    BY <1>3 DEF T!CountQuota
  <2>2. ASSUME NEW pc \in {"insert", "record"}, T!Goes(q, [o EXCEPT !.pc = pc])
        PROVE  Base'
    <3> DEFINE y == [o EXCEPT !.pc = pc]
    <3>1. y \in Op /\ y.pc = pc /\ y.user = o.user /\ y.key = o.key /\ y.chosen = o.chosen
      BY <1>1 DEF Op, T!Pc
    <3>2. command' = [command EXCEPT ![q] = y]
      BY <2>2 DEF T!Goes
    <3> HIDE DEF y
    <3>3. Holds(y)
      BY <1>1, <2>1, <3>1 DEF Holds
    <3> QED  BY <1>1, <2>1, <3>1, <3>2, <3>3, QuietGo
  <2>3. T!Goes(q, [o EXCEPT !.pc = "insert"]) \/ T!Goes(q, [o EXCEPT !.pc = "record"]) \/ T!Ends(q)
    BY <1>3 DEF T!CountQuota
  <2> QED  BY <1>1, <2>1, <2>2, <2>3, QuietEnd
<1>4. CASE T!RecordQuota(q)
  <2>1. /\ UNCHANGED <<rows, links, streams, completed, jobs, stale, disturbed>> /\ o.pc = "record"
        /\ quota' = [quota EXCEPT ![o.user][o.key] = "recent"]
    BY <1>4 DEF T!RecordQuota
  <2>2. quota' \in [Newcomers -> [T!Keys -> {"none", "recent", "older"}]]
    BY <1>1, <2>1 DEF Holds
  <2> DEFINE y == [o EXCEPT !.pc = "insert"]
  <2>3. y \in Op /\ y.pc = "insert" /\ y.key = o.key /\ y.chosen = o.chosen
    BY <1>1 DEF Op, T!Pc
  <2>4. command' = [command EXCEPT ![q] = y]
    BY <1>4 DEF T!RecordQuota, T!Goes
  <2> HIDE DEF y
  <2>5. Holds(y)
    BY <1>1, <2>1, <2>3 DEF Holds
  <2> QED  BY <1>1, <2>1, <2>2, <2>3, <2>4, <2>5, QuietGo
<1>5. ASSUME NEW x \in Op, x.pc \in {"find", "link", "enqueue"}, x.chosen \subseteq Rows, x.row \in Rows, T!Exists(x.row)
      PROVE  T!Resolved(x) \in Op /\ Holds(T!Resolved(x))
  <2> DEFINE y == T!Resolved(x)
  <2>1. y \in Op /\ y.pc = "next" /\ y.chosen \subseteq Rows
    BY <1>5 DEF T!Resolved, Op, T!Pc
  <2> HIDE DEF y
  <2>2. Holds(y)
    BY <2>1 DEF Holds
  <2> QED  BY <2>1, <2>2 DEF y
<1>6. ASSUME o.pc \in {"find", "link"}
      PROVE  T!AfterLink(o) \in Op /\ Holds(T!AfterLink(o))
  <2>1. o.chosen \subseteq Rows /\ o.row \in Rows /\ T!Exists(o.row) /\ o.key \in T!Keys
    BY <1>1, <1>6 DEF Holds
  <2>2. CASE o.fresh
    <3> DEFINE y == [o EXCEPT !.pc = "enqueue"]
    <3>1. y \in Op /\ y.pc = "enqueue" /\ y.key = o.key /\ y.chosen = o.chosen /\ y.row = o.row
      BY <1>1 DEF Op, T!Pc
    <3> HIDE DEF y
    <3>2. Holds(y)
      BY <2>1, <3>1 DEF Holds
    <3> QED  BY <2>2, <3>1, <3>2 DEF T!AfterLink, y
  <2>3. CASE ~ o.fresh
    BY <1>1, <1>5, <1>6, <2>1, <2>3 DEF T!AfterLink
  <2> QED  BY <2>2, <2>3
<1>7. CASE T!FindLink(q)
  <2>1. UNCHANGED <<rows, links, streams, completed, quota, jobs, stale, disturbed>> /\ o.pc = "find"
    BY <1>7 DEF T!FindLink
  <2>2. CASE T!Goes(q, T!AfterLink(o))
    BY <1>1, <1>6, <2>1, <2>2, QuietGo DEF T!Goes
  <2>3. CASE T!Goes(q, [o EXCEPT !.pc = "link"]) /\ o.user # None
    <3> DEFINE y == [o EXCEPT !.pc = "link"]
    <3>1. y \in Op /\ y.pc = "link" /\ y.key = o.key /\ y.chosen = o.chosen /\ y.row = o.row
          /\ y.user = o.user
      BY <1>1 DEF Op, T!Pc
    <3>2. command' = [command EXCEPT ![q] = y]
      BY <2>3 DEF T!Goes
    <3>3. o.user \in Newcomers
      BY <1>1, <2>3 DEF Op
    <3> HIDE DEF y
    <3>4. Holds(y)
      BY <1>1, <2>1, <3>1, <3>3 DEF Holds
    <3> QED  BY <1>1, <2>1, <3>1, <3>2, <3>4, QuietGo
  <2> QED  BY <1>7, <2>2, <2>3 DEF T!FindLink
<1>8. CASE T!InsertLink(q)
  <2>1. UNCHANGED <<rows, streams, completed, quota, jobs, disturbed>> /\ o.pc = "link"
    BY <1>8 DEF T!InsertLink
  <2>2. o.user \in Newcomers /\ o.row \in Rows
    BY <1>1, <2>1 DEF Holds
  <2>3. CASE T!Ends(q) /\ UNCHANGED <<links, stale>>
    BY <1>1, <2>1, <2>3, QuietEnd
  <2>4. CASE /\ links' = links \cup {<<o.user, o.row>>} /\ stale' = stale \cup {o.user}
             /\ T!Goes(q, T!AfterLink(o))
    <3>1. links' \subseteq Newcomers \X Rows /\ stale' \subseteq Newcomers
      BY <1>1, <2>2, <2>4
    <3> QED  BY <1>1, <1>6, <2>1, <2>4, <3>1, QuietGo DEF T!Goes
  <2> QED  BY <1>8, <2>3, <2>4 DEF T!InsertLink
<1>9. CASE T!Enqueue(q)
  <2>1. /\ UNCHANGED <<rows, links, streams, completed, quota, stale, disturbed>> /\ o.pc = "enqueue"
        /\ jobs' = jobs \cup {o.row} /\ command' = [command EXCEPT ![q] = T!Resolved(o)]
    BY <1>9 DEF T!Enqueue, T!Goes
  <2>2. o.row \in Rows /\ o.chosen \subseteq Rows /\ T!Exists(o.row)
    BY <1>1, <2>1 DEF Holds
  <2>3. jobs' \subseteq Rows
    BY <1>1, <2>1, <2>2
  <2> QED  BY <1>1, <1>5, <2>1, <2>2, <2>3, QuietGo
<1>10. CASE T!Compare(q)
  <2>1. UNCHANGED <<rows, links, streams, completed, quota, jobs, stale, disturbed>> /\ o.pc = "next"
    BY <1>10 DEF T!Compare
  <2>2. CASE o.user = None
    BY <1>1, <1>10, <2>1, <2>2, QuietEnd DEF T!Compare
  <2>3. CASE o.user # None
    <3> DEFINE b == o.before # o.chosen \/ o.beforeStreams # o.wanted
               pc == IF o.before # o.chosen THEN "remove"
                     ELSE IF o.beforeStreams # o.wanted THEN "streams" ELSE "save"
               y == [o EXCEPT !.changed = b, !.pc = pc]
    <3>1. b \in BOOLEAN /\ pc \in {"remove", "streams", "save"}
      OBVIOUS
    <3>2. command' = [command EXCEPT ![q] = y]
      BY <1>10, <2>3 DEF T!Compare, T!Goes
    <3> HIDE DEF b, pc
    <3>6. pc \in T!Pc
      BY <3>1 DEF T!Pc
    <3>7. o \in Op
      BY <1>1
    <3> HIDE DEF o
    <3>3. y \in Op /\ y.pc = pc /\ y.chosen = o.chosen /\ y.user = o.user
      BY <3>1, <3>6, <3>7 DEF Op
    <3>4. o.user \in Newcomers
      BY <1>1, <2>3 DEF Op
    <3> HIDE DEF y
    <3>5. Holds(y)
      BY <1>1, <2>1, <3>1, <3>3, <3>4 DEF Holds
    <3> QED  BY <1>1, <2>1, <3>2, <3>3, <3>5, QuietGo
  <2> QED  BY <2>2, <2>3
<1>11. ASSUME NEW y \in Op, y.pc \in {"streams", "replace", "save", "invalidate"}, y.user \in Newcomers,
              y.chosen \subseteq Rows
       PROVE  Holds(y)
  BY <1>11 DEF Holds
<1>12. ASSUME o.pc \in {"remove", "streams", "replace", "save"}
       PROVE  o.user \in Newcomers /\ o.chosen \subseteq Rows
  BY <1>1, <1>12 DEF Holds
<1>13. CASE T!RemoveUnselected(q)
  <2>1. /\ UNCHANGED <<rows, streams, completed, quota, jobs, disturbed>> /\ o.pc = "remove"
        /\ links' = {l \in links : l[1] = o.user => l[2] \in o.chosen}
        /\ stale' = stale \cup {o.user}
        /\ T!Goes(q, [o EXCEPT !.pc = IF o.beforeStreams # o.wanted THEN "streams" ELSE "save"])
    BY <1>13 DEF T!RemoveUnselected
  <2> DEFINE y == [o EXCEPT !.pc = IF o.beforeStreams # o.wanted THEN "streams" ELSE "save"]
  <2>2. y \in Op /\ y.pc \in {"streams", "save"} /\ y.user = o.user /\ y.chosen = o.chosen
    BY <1>1 DEF Op, T!Pc
  <2>3. command' = [command EXCEPT ![q] = y]
    BY <2>1 DEF T!Goes
  <2> HIDE DEF y
  <2>4. links' \subseteq Newcomers \X Rows /\ stale' \subseteq Newcomers
    BY <1>1, <1>12, <2>1
  <2> QED  BY <1>1, <1>11, <1>12, <2>1, <2>2, <2>3, <2>4, QuietGo
<1>14. CASE T!ReadStreams(q)
  <2>1. /\ UNCHANGED <<rows, links, streams, completed, quota, jobs, stale, disturbed>> /\ o.pc = "streams"
        /\ T!Goes(q, [o EXCEPT !.pc = "replace", !.beforeStreams = streams[o.user]])
    BY <1>14 DEF T!ReadStreams
  <2> DEFINE y == [o EXCEPT !.pc = "replace", !.beforeStreams = streams[o.user]]
  <2>2. streams[o.user] \in SUBSET Streams
    BY <1>1, <1>12, <2>1
  <2>3. y \in Op /\ y.pc = "replace" /\ y.user = o.user /\ y.chosen = o.chosen
    BY <1>1, <2>2 DEF Op, T!Pc
  <2>4. command' = [command EXCEPT ![q] = y]
    BY <2>1 DEF T!Goes
  <2> HIDE DEF y
  <2> QED  BY <1>1, <1>11, <1>12, <2>1, <2>3, <2>4, QuietGo
<1>15. CASE T!ReplaceStreams(q)
  <2> DEFINE missing == o.wanted \ o.beforeStreams
  <2>1. UNCHANGED <<rows, links, completed, quota, jobs, disturbed>> /\ o.pc = "replace"
    BY <1>15 DEF T!ReplaceStreams
  <2>2. CASE T!Ends(q) /\ UNCHANGED <<streams, stale>>
    BY <1>1, <2>1, <2>2, QuietEnd
  <2>3. CASE /\ streams' = [streams EXCEPT ![o.user] = (@ \ (o.beforeStreams \ o.wanted)) \cup missing]
             /\ stale' = stale \cup {o.user}
             /\ T!Goes(q, [o EXCEPT !.pc = "save"])
    <3> DEFINE y == [o EXCEPT !.pc = "save"]
    <3>1. y \in Op /\ y.pc = "save" /\ y.user = o.user /\ y.chosen = o.chosen
      BY <1>1 DEF Op, T!Pc
    <3>2. command' = [command EXCEPT ![q] = y]
      BY <2>3 DEF T!Goes
    <3>3. missing \subseteq Streams
      BY <1>1 DEF Op
    <3>4. streams' \in [Newcomers -> SUBSET Streams] /\ stale' \subseteq Newcomers
      BY <1>1, <1>12, <2>1, <2>3, <3>3
    <3> HIDE DEF y, missing
    <3> QED  BY <1>1, <1>11, <1>12, <2>1, <3>1, <3>2, <3>4, QuietGo
  <2> QED  BY <1>15, <2>2, <2>3 DEF T!ReplaceStreams
<1>16. CASE T!SaveUser(q)
  <2>1. /\ UNCHANGED <<rows, links, streams, quota, jobs, stale, disturbed>> /\ o.pc = "save"
        /\ completed' = completed \cup {o.user}
    BY <1>16 DEF T!SaveUser
  <2>2. completed' \subseteq Newcomers
    BY <1>1, <1>12, <2>1
  <2>3. CASE T!Ends(q)
    BY <1>1, <2>1, <2>2, <2>3, QuietEnd
  <2>4. CASE T!Goes(q, [o EXCEPT !.pc = "invalidate"])
    <3> DEFINE y == [o EXCEPT !.pc = "invalidate"]
    <3>1. y \in Op /\ y.pc = "invalidate" /\ y.user = o.user /\ y.chosen = o.chosen
      BY <1>1 DEF Op, T!Pc
    <3>2. command' = [command EXCEPT ![q] = y]
      BY <2>4 DEF T!Goes
    <3> HIDE DEF y
    <3> QED  BY <1>1, <1>11, <1>12, <2>1, <2>2, <3>1, <3>2, QuietGo
  <2> QED  BY <1>16, <2>3, <2>4 DEF T!SaveUser
<1>17. CASE T!Invalidate(q)
  <2>1. UNCHANGED <<rows, links, streams, completed, quota, jobs, disturbed>> /\ stale' \subseteq Newcomers /\ T!Ends(q)
    BY <1>1, <1>17 DEF T!Invalidate
  <2> QED  BY <1>1, <2>1, QuietEnd
<1>18. CASE T!Fails(q)
  <2>1. UNCHANGED <<rows, links, streams, completed, quota, jobs, stale, disturbed>> /\ T!Ends(q)
    BY <1>18 DEF T!Fails
  <2> QED  BY <1>1, <2>1, QuietEnd
<1> QED
  BY <1>2, <1>3, <1>4, <1>7, <1>8, <1>9, <1>10, <1>13, <1>14, <1>15, <1>16, <1>17, <1>18

(* Steps that write rows.  A write keeps the keys unique where no other row  *)
(* has the name, and takes nothing away that an entity in memory relies on.  *)
LEMMA OneWrite ==
  ASSUME Base, NEW r \in Rows, NEW y \in T!Row, rows' = [rows EXCEPT ![r] = y],
         ~ T!Taken(r, y.kind, y.name),
         T!Exists(r) => y.kind = rows[r].kind /\ y.creator = rows[r].creator,
         T!NoRow \notin T!Row
  PROVE  /\ Keeps /\ UniqueKeys' /\ rows' \in [Rows -> T!Row \cup {T!NoRow}]
         /\ rows'[r] = y /\ \A s \in Rows \ {r} : rows'[s] = rows[s]
<1>1. /\ rows' \in [Rows -> T!Row \cup {T!NoRow}] /\ rows'[r] = y
      /\ \A s \in Rows \ {r} : rows'[s] = rows[s]
  BY DEF Base, Types
<1>2. y # T!NoRow
  OBVIOUS
<1>3. Keeps
  BY <1>1, <1>2 DEF Keeps, T!Exists
<1>4. ASSUME NEW s \in Rows, NEW t \in Rows, rows'[s] # T!NoRow, rows'[t] # T!NoRow,
             Key(rows'[s]) = Key(rows'[t]), s # t
      PROVE  FALSE
  <2>1. rows'[s].kind = rows'[t].kind /\ rows'[s].name = rows'[t].name
    BY <1>4 DEF Key
  <2>2. CASE s # r /\ t # r
    BY <1>1, <1>4, <2>2 DEF Base, UniqueKeys, T!Exists
  <2>3. CASE s = r
    BY <1>1, <1>4, <2>1, <2>3 DEF T!Taken, T!HasName, T!Exists
  <2>4. CASE t = r
    BY <1>1, <1>4, <2>1, <2>4 DEF T!Taken, T!HasName, T!Exists
  <2> QED  BY <2>2, <2>3, <2>4
<1>5. UniqueKeys'
  BY <1>4 DEF UniqueKeys, T!Exists, Key
<1> QED  BY <1>1, <1>3, <1>5

LEMMA WriteBase ==
  ASSUME Bound, Base, NEW q \in Requests, NEW o \in Op, command' = [command EXCEPT ![q] = o], Holds(o)',
         Keeps, UniqueKeys', rows' \in [Rows -> T!Row \cup {T!NoRow}],
         links' \subseteq Newcomers \X Rows, disturbed' \in BOOLEAN,
         UNCHANGED <<streams, completed, quota, jobs, stale>>
  PROVE  Base'
<1>1. Holding'
  BY GoHolds DEF Base
<1>2. Types'
  BY Moved DEF Base, Types
<1> QED  BY <1>1, <1>2 DEF Base

LEMMA EndHolds ==
  ASSUME Bound
  PROVE  Holds(T!NoOp)' /\ T!NoOp \in Op
  BY Records DEF Holds

LEMMA AliasBase ==
  ASSUME Bound, Base, NEW q \in Requests, T!AppendAlias(q)
  PROVE  Base'
<1> DEFINE o == command[q]
<1>1. /\ o \in Op /\ Holds(o) /\ o.pc = "alias"
      /\ UNCHANGED <<links, streams, completed, quota, jobs, stale>>
      /\ links \subseteq Newcomers \X Rows /\ disturbed \in BOOLEAN
  BY DEF Base, Types, Holding, T!AppendAlias
<1>2. CASE T!Ends(q) /\ UNCHANGED <<rows, disturbed>>
  BY <1>1, <1>2, QuietEnd DEF Base, Types
<1>3. CASE /\ ~ T!Taken(o.row, o.copy.kind, o.copy.name)
           /\ rows' = [rows EXCEPT ![o.row] = [o.copy EXCEPT !.aliases = @ \cup {o.key[2]}]]
           /\ disturbed' = (disturbed \/ rows[o.row] # o.copy)
           /\ T!Goes(q, [o EXCEPT !.pc = "find"])
  <2> DEFINE y == [o.copy EXCEPT !.aliases = @ \cup {o.key[2]}]
             x == [o EXCEPT !.pc = "find"]
  <2>1. /\ o.row \in Rows /\ T!Exists(o.row) /\ o.copy \in T!Row /\ o.key \in T!Keys /\ o.chosen \subseteq Rows
        /\ o.copy.kind = rows[o.row].kind /\ o.copy.creator = rows[o.row].creator
    BY <1>1 DEF Holds, Entity
  <2>2. o.key[2] \in Names
    BY <2>1 DEF T!Keys
  <2>3. /\ y \in T!Row /\ y.kind = o.copy.kind /\ y.name = o.copy.name /\ y.creator = o.copy.creator
    BY <2>1, <2>2 DEF T!Row
  <2>4. /\ x \in Op /\ x.pc = "find" /\ x.key = o.key /\ x.row = o.row /\ x.chosen = o.chosen
    BY <1>1 DEF Op, T!Pc
  <2>5. command' = [command EXCEPT ![q] = x] /\ rows' = [rows EXCEPT ![o.row] = y]
    BY <1>3 DEF T!Goes
  <2> HIDE DEF x, y
  <2>6. /\ Keeps /\ UniqueKeys' /\ rows' \in [Rows -> T!Row \cup {T!NoRow}] /\ rows'[o.row] = y
    BY <1>3, <2>1, <2>3, <2>5, OneWrite, Records
  <2>7. PICK c \in Op : c = x
    BY <2>4
  <2>8. PICK r \in Rows : r = o.row
    BY <2>1
  <2>9. rows'[r] # T!NoRow
    BY <2>1, <2>6, <2>8 DEF Keeps
  <2>10. Holds(c)'
    BY <2>1, <2>4, <2>7, <2>8, <2>9 DEF Holds, T!Exists
  <2>11. disturbed' \in BOOLEAN
    BY <1>3
  <2> QED  BY <1>1, <2>5, <2>6, <2>7, <2>10, <2>11, WriteBase
<1> QED  BY <1>2, <1>3 DEF T!AppendAlias

(* A row's creator is recorded with the key and its record, if any. *)
LEMMA Creator ==
  ASSUME Bound, Base, NEW o \in Op, o.key \in T!Keys
  PROVE  /\ T!CreatorOf(o) \in [user : Newcomers, key : T!Keys, record : T!Record] \cup {None}
         /\ o.user = None => T!CreatorOf(o) = None
         /\ o.user # None => T!CreatorOf(o).record = quota[o.user][o.key]
<1>1. o.user \in Newcomers \cup {None}
  BY DEF Op
<1>2. CASE o.user = None
  BY <1>2 DEF T!CreatorOf
<1>3. CASE o.user # None
  <2>1. quota[o.user][o.key] \in T!Record
    BY <1>1, <1>3 DEF Base, Types, T!Record
  <2> QED  BY <1>1, <1>3, <2>1 DEF T!CreatorOf
<1> QED  BY <1>2, <1>3

LEMMA InsertBase ==
  ASSUME Bound, Base, NEW q \in Requests, T!Insert(q)
  PROVE  Base'
<1> DEFINE o == command[q]
           k == o.key
<1>1. /\ o \in Op /\ Holds(o) /\ o.pc = "insert"
      /\ UNCHANGED <<links, streams, completed, quota, jobs, stale, disturbed>>
      /\ links \subseteq Newcomers \X Rows /\ disturbed \in BOOLEAN
  BY DEF Base, Types, Holding, T!Insert
<1>2. CASE T!Ends(q) /\ UNCHANGED rows
  BY <1>1, <1>2, QuietEnd DEF Base, Types
<1>3. ASSUME ~ T!Taken(None, k[1], k[2]), NEW r \in Rows, ~ T!Exists(r),
             rows' = [rows EXCEPT ![r] = [kind |-> k[1], name |-> k[2], aliases |-> {},
                                          into |-> None, deleted |-> FALSE, creator |-> T!CreatorOf(o)]],
             T!Goes(q, [o EXCEPT !.row = r, !.fresh = TRUE, !.pc = "find"])
      PROVE  Base'
  <2> DEFINE y == [kind |-> k[1], name |-> k[2], aliases |-> {}, into |-> None, deleted |-> FALSE,
                   creator |-> T!CreatorOf(o)]
             x == [o EXCEPT !.row = r, !.fresh = TRUE, !.pc = "find"]
  <2>1. k \in T!Keys /\ o.chosen \subseteq Rows /\ o.user \in Newcomers \cup {None}
    BY <1>1 DEF Holds, Op
  <2>2. k[1] \in RowKinds /\ k[2] \in Names
    BY <2>1 DEF T!Keys
  <2>a. T!CreatorOf(o) \in [user : Newcomers, key : T!Keys, record : T!Record] \cup {None}
    BY <1>1, <2>1, Creator
  <2>3. y \in T!Row /\ y.kind = k[1] /\ y.name = k[2]
    BY <2>2, <2>a DEF T!Row
  <2>4. /\ x \in Op /\ x.pc = "find" /\ x.key = k /\ x.row = r /\ x.chosen = o.chosen
    BY <1>1 DEF Op, T!Pc
  <2>5. command' = [command EXCEPT ![q] = x] /\ rows' = [rows EXCEPT ![r] = y]
    BY <1>3 DEF T!Goes
  <2> HIDE DEF x, y
  <2>6. ~ T!Taken(r, y.kind, y.name)
    BY <1>3, <2>3 DEF T!Taken, Bound
  <2>7. /\ Keeps /\ UniqueKeys' /\ rows' \in [Rows -> T!Row \cup {T!NoRow}] /\ rows'[r] = y
    BY <1>3, <2>3, <2>5, <2>6, OneWrite, Records
  <2>8. PICK c \in Op : c = x
    BY <2>4
  <2>9. rows'[r] # T!NoRow
    BY <2>3, <2>7, Records
  <2>10. Holds(c)'
    BY <2>1, <2>4, <2>8, <2>9 DEF Holds, T!Exists
  <2> QED  BY <1>1, <2>5, <2>7, <2>8, <2>10, WriteBase
<1> QED  BY <1>2, <1>3 DEF T!Insert

LEMMA UpdateBase ==
  ASSUME Bound, Base, NEW q \in Requests, T!CommitUpdate(q)
  PROVE  Base'
<1> DEFINE o == command[q]
<1>1. /\ o \in Op /\ Holds(o) /\ o.pc = "update" /\ T!Ends(q)
      /\ UNCHANGED <<links, streams, completed, quota, jobs, stale>>
      /\ links \subseteq Newcomers \X Rows /\ disturbed \in BOOLEAN
  BY DEF Base, Types, Holding, T!CommitUpdate
<1>2. CASE UNCHANGED <<rows, disturbed>>
  BY <1>1, <1>2, QuietEnd DEF Base, Types
<1>3. CASE /\ ~ T!Taken(o.row, o.copy.kind, o.otherCopy.name)
           /\ rows' = [rows EXCEPT ![o.row] = o.otherCopy]
           /\ disturbed' \in BOOLEAN
  <2>1. /\ o.row \in Rows /\ T!Exists(o.row) /\ o.otherCopy \in T!Row
        /\ o.otherCopy.kind = rows[o.row].kind /\ o.otherCopy.creator = rows[o.row].creator
        /\ o.otherCopy.kind = o.copy.kind
    BY <1>1 DEF Holds, Entity
  <2> DEFINE y == o.otherCopy
  <2> HIDE DEF y
  <2>2. y \in T!Row /\ rows' = [rows EXCEPT ![o.row] = y] /\ ~ T!Taken(o.row, y.kind, y.name)
        /\ y.kind = rows[o.row].kind /\ y.creator = rows[o.row].creator
    BY <1>3, <2>1 DEF y
  <2>3. /\ Keeps /\ UniqueKeys' /\ rows' \in [Rows -> T!Row \cup {T!NoRow}]
    BY <2>1, <2>2, OneWrite, Records
  <2>4. command' = [command EXCEPT ![q] = T!NoOp] /\ T!NoOp \in Op /\ Holds(T!NoOp)'
    BY <1>1, EndHolds DEF T!Ends, T!Goes
  <2> QED  BY <1>1, <1>3, <2>3, <2>4, WriteBase
<1>4. disturbed' \in BOOLEAN \/ UNCHANGED disturbed
  BY DEF T!CommitUpdate
<1> QED  BY <1>2, <1>3, <1>4 DEF T!CommitUpdate

(* The winner keeps its key, the loser its own: neither is taken by a third. *)
LEMMA MergeFacts ==
  ASSUME Bound, Base, NEW q \in Requests, command[q].pc = "merge", T!CommitMerge(q), rows' # rows \/ links' # links
  PROVE  LET o == command[q]
             w == [o.copy EXCEPT !.aliases = T!AliasesOf(o.copy, o.otherCopy)]
             l == [o.otherCopy EXCEPT !.deleted = TRUE, !.into = o.row]
         IN  /\ o.row \in Rows /\ o.other \in Rows /\ o.row # o.other
             /\ w \in T!Row /\ l \in T!Row
             /\ w.kind = o.copy.kind /\ w.name = o.copy.name /\ w.creator = o.copy.creator
             /\ w.aliases = o.copy.aliases \cup {o.otherCopy.name} \cup o.otherCopy.aliases
             /\ ~ w.deleted /\ l.deleted
             /\ l.kind = o.otherCopy.kind /\ l.name = o.otherCopy.name /\ l.creator = o.otherCopy.creator
             /\ rows' \in [Rows -> T!Row \cup {T!NoRow}] /\ rows'[o.row] = w /\ rows'[o.other] = l
             /\ \A s \in Rows \ {o.row, o.other} : rows'[s] = rows[s]
             /\ Keeps /\ UniqueKeys'
<1> DEFINE o == command[q]
           w == [o.copy EXCEPT !.aliases = T!AliasesOf(o.copy, o.otherCopy)]
           l == [o.otherCopy EXCEPT !.deleted = TRUE, !.into = o.row]
<1>1. o \in Op /\ Holds(o)
  BY DEF Base, Types, Holding
<1>2. /\ Entity(o.row, o.copy) /\ Entity(o.other, o.otherCopy) /\ o.row # o.other
      /\ Key(o.copy) # Key(o.otherCopy)
  BY <1>1 DEF Holds
<1>3. /\ ~ T!Taken(o.row, o.copy.kind, o.copy.name)
      /\ ~ \E r \in Rows \ {o.row, o.other} : T!HasName(r, o.otherCopy.kind, o.otherCopy.name)
      /\ rows' = [rows EXCEPT ![o.row] = w, ![o.other] = l]
  BY DEF T!CommitMerge
<1>4. T!AliasesOf(o.copy, o.otherCopy) = o.copy.aliases \cup {o.otherCopy.name} \cup o.otherCopy.aliases
  BY DEF T!AliasesOf
<1>5. T!AliasesOf(o.copy, o.otherCopy) \in SUBSET Names
  BY <1>2, <1>4 DEF Entity, T!Row
<1>6. /\ w \in T!Row /\ w.kind = o.copy.kind /\ w.name = o.copy.name /\ w.creator = o.copy.creator
      /\ w.aliases = T!AliasesOf(o.copy, o.otherCopy) /\ ~ w.deleted
  BY <1>2, <1>5 DEF Entity, T!Row
<1>7. /\ l \in T!Row /\ l.deleted
      /\ l.kind = o.otherCopy.kind /\ l.name = o.otherCopy.name /\ l.creator = o.otherCopy.creator
  BY <1>2 DEF Entity, T!Row
<1> HIDE DEF w, l
<1>8. o.row \in Rows /\ o.other \in Rows
  BY <1>2 DEF Entity
<1>9. /\ rows' \in [Rows -> T!Row \cup {T!NoRow}] /\ rows'[o.row] = w /\ rows'[o.other] = l
      /\ \A s \in Rows \ {o.row, o.other} : rows'[s] = rows[s]
  BY <1>2, <1>3, <1>6, <1>7, <1>8 DEF Base, Types
<1>10. w # T!NoRow /\ l # T!NoRow
  BY <1>6, <1>7, Records
<1>11. Keeps
  BY <1>2, <1>6, <1>7, <1>9, <1>10 DEF Keeps, Entity, T!Exists
<1>12. ASSUME NEW s \in Rows, NEW t \in Rows, rows'[s] # T!NoRow, rows'[t] # T!NoRow, s # t,
              rows'[s].kind = rows'[t].kind, rows'[s].name = rows'[t].name, t # o.row, t # o.other
       PROVE  FALSE
  <2>1. rows'[t] = rows[t] /\ T!Exists(t)
    BY <1>9, <1>12 DEF T!Exists
  <2>2. CASE s = o.row
    BY <1>3, <1>6, <1>9, <1>12, <2>1, <2>2 DEF T!Taken, T!HasName
  <2>3. CASE s = o.other
    BY <1>3, <1>7, <1>9, <1>12, <2>1, <2>3 DEF T!HasName
  <2>4. CASE s \notin {o.row, o.other}
    BY <1>9, <1>12, <2>1, <2>4 DEF Base, UniqueKeys, T!Exists, Key
  <2> QED  BY <2>2, <2>3, <2>4
<1>13. ~ (w.kind = l.kind /\ w.name = l.name)
  BY <1>2, <1>6, <1>7 DEF Key
<1>14. UniqueKeys'
  <2> SUFFICES ASSUME NEW s \in Rows, NEW t \in Rows, rows'[s] # T!NoRow, rows'[t] # T!NoRow,
                      Key(rows'[s]) = Key(rows'[t]), s # t
               PROVE  FALSE
    BY DEF UniqueKeys, T!Exists, Key
  <2>1. rows'[s].kind = rows'[t].kind /\ rows'[s].name = rows'[t].name
    BY DEF Key
  <2> QED  BY <1>9, <1>12, <1>13, <2>1
<1> QED  BY <1>2, <1>4, <1>6, <1>7, <1>8, <1>9, <1>11, <1>14 DEF w, l

LEMMA MergeBase ==
  ASSUME Bound, Base, NEW q \in Requests, T!CommitMerge(q)
  PROVE  Base'
<1> DEFINE o == command[q]
<1>1. /\ o \in Op /\ o.pc = "merge" /\ T!Ends(q)
      /\ UNCHANGED <<streams, completed, quota, jobs, stale>>
      /\ links \subseteq Newcomers \X Rows /\ disturbed \in BOOLEAN
  BY DEF Base, Types, Holding, T!CommitMerge
<1>2. CASE UNCHANGED <<rows, links, disturbed>>
  BY <1>1, <1>2, QuietEnd DEF Base, Types
<1>3. CASE ~ UNCHANGED <<rows, links, disturbed>>
  <2> DEFINE moved == {u \in o.chosen : <<u, o.other>> \in links}
  <2>1. /\ links' = (links \ {<<u, o.other>> : u \in moved}) \cup {<<u, o.row>> : u \in moved}
        /\ disturbed' = (disturbed \/ rows[o.row] # o.copy \/ rows[o.other] # o.otherCopy
                                   \/ o.copy.kind # o.otherCopy.kind)
    BY <1>3 DEF T!CommitMerge
  <2>2. disturbed' \in BOOLEAN
    BY <2>1
  <2>3. o.row \in Rows /\ o.other \in Rows
    BY <1>1 DEF Base, Holding, Holds, Entity
  <2>8. moved \subseteq Newcomers
    BY <1>1
  <2> HIDE DEF moved
  <2>9. {<<u, o.row>> : u \in moved} \subseteq Newcomers \X Rows
    BY <2>3, <2>8
  <2>4. links' \subseteq Newcomers \X Rows
    BY <1>1, <2>1, <2>9
  <2>5. command' = [command EXCEPT ![q] = T!NoOp] /\ T!NoOp \in Op /\ Holds(T!NoOp)'
    BY <1>1, EndHolds DEF T!Ends, T!Goes
  <2>6. CASE rows' = rows
    <3>1. Keeps /\ UniqueKeys' /\ rows' \in [Rows -> T!Row \cup {T!NoRow}]
      BY <2>6 DEF Keeps, Base, UniqueKeys, T!Exists, Key, Types
    <3> QED  BY <1>1, <2>2, <2>4, <2>5, <3>1, WriteBase
  <2>7. CASE rows' # rows
    <3>1. Keeps /\ UniqueKeys' /\ rows' \in [Rows -> T!Row \cup {T!NoRow}]
      BY <1>1, <2>7, MergeFacts
    <3> QED  BY <1>1, <2>2, <2>4, <2>5, <3>1, WriteBase
  <2> QED  BY <2>6, <2>7
<1> QED  BY <1>2, <1>3

LEMMA BaseInit == Bound /\ T!Init => Base
<1> SUFFICES ASSUME Bound, T!Init  PROVE Base
  OBVIOUS
<1>1. PICK known \in Catalogs :
        /\ rows = [r \in Rows |-> IF r \notin DOMAIN known THEN T!NoRow
                                 ELSE [T!NoRow EXCEPT !.kind = known[r][1], !.name = known[r][2]]]
        /\ jobs = DOMAIN known
  BY DEF T!Init
<1>2. /\ DOMAIN known \subseteq Rows
      /\ \A r \in DOMAIN known : known[r] \in T!Keys
      /\ \A r, s \in DOMAIN known : known[r] = known[s] => r = s
  BY DEF Bound
<1>3. ASSUME NEW r \in DOMAIN known
      PROVE  /\ rows[r] \in T!Row /\ rows[r].kind = known[r][1] /\ rows[r].name = known[r][2]
             /\ ~ rows[r].deleted /\ rows[r].creator = None
  <2>1. known[r][1] \in RowKinds /\ known[r][2] \in Names
    BY <1>2 DEF T!Keys
  <2>2. rows[r] = [T!NoRow EXCEPT !.kind = known[r][1], !.name = known[r][2]]
    BY <1>1, <1>2
  <2> QED  BY <2>1, <2>2 DEF T!NoRow, T!Row
<1>4. \A r \in Rows \ DOMAIN known : rows[r] = T!NoRow
  BY <1>1
<1>5. rows \in [Rows -> T!Row \cup {T!NoRow}]
  <2>1. \A r \in Rows : rows[r] \in T!Row \cup {T!NoRow}
    BY <1>3, <1>4
  <2> QED  BY <1>1, <2>1
<1>6. Types
  BY <1>1, <1>2, <1>5, Records DEF T!Init, Types
<1>7. Holding
  BY Records DEF T!Init, Holding
<1>8. UniqueKeys
  <2> SUFFICES ASSUME NEW r \in Rows, NEW s \in Rows, T!Exists(r), T!Exists(s), Key(rows[r]) = Key(rows[s])
               PROVE  r = s
    BY DEF UniqueKeys
  <2>1. r \in DOMAIN known /\ s \in DOMAIN known
    BY <1>4 DEF T!Exists
  <2>2. known[r][1] = known[s][1] /\ known[r][2] = known[s][2]
    BY <1>3, <2>1 DEF Key
  <2>3. known[r] = known[s]
    BY <1>2, <2>1, <2>2 DEF T!Keys
  <2> QED  BY <1>2, <2>1, <2>3
<1> QED  BY <1>6, <1>7, <1>8 DEF Base

LEMMA ExpireBase ==
  ASSUME Bound, Base, T!Expire
  PROVE  Base'
<1>1. UNCHANGED <<rows, links, streams, completed, jobs, command, stale, disturbed>>
  BY DEF T!Expire
<1>2. quota' \in [Newcomers -> [T!Keys -> {"none", "recent", "older"}]]
  <2>1. PICK u \in Newcomers, k \in T!Keys : quota' = [quota EXCEPT ![u][k] = "older"]
    BY DEF T!Expire
  <2> QED  BY <2>1 DEF Base, Types
<1>3. Types'
  BY <1>1, <1>2 DEF Base, Types
<1> QED  BY <1>1, <1>3 DEF Base, Holding, Holds, Entity, Key, T!Exists, UniqueKeys

LEMMA StutterBase ==
  ASSUME Base, UNCHANGED T!vars
  PROVE  Base'
  BY DEF T!vars, Base, Types, Holding, Holds, Entity, Key, T!Exists, UniqueKeys

LEMMA BaseStep == Bound /\ Base /\ [T!Next]_(T!vars) => Base'
<1> SUFFICES ASSUME Bound, Base, [T!Next]_(T!vars)  PROVE Base'
  OBVIOUS
<1>1. ASSUME NEW q \in Requests, T!Onboard(q) \/ T!Administer(q) \/ T!Fails(q)
      PROVE  Base'
  BY <1>1, StartsBase, QuietBase, AliasBase, InsertBase, UpdateBase, MergeBase DEF T!Onboard,
     T!Administer
<1>2. CASE T!Expire
  BY <1>2, ExpireBase
<1>3. CASE UNCHANGED T!vars
  BY <1>3, StutterBase
<1> QED  BY <1>1, <1>2, <1>3 DEF T!Next

-----------------------------------------------------------------------------
(***************************************************************************)
(* The quota.                                                              *)
(***************************************************************************)
LEMMA RecentFinite ==
  ASSUME Bound, NEW u
  PROVE  IsFiniteSet(T!Recent(u))
<1>1. IsFiniteSet(T!Keys)
  BY FS_Product DEF Bound, T!Keys
<1>2. T!Recent(u) \subseteq T!Keys
  BY DEF T!Recent
<1> QED  BY <1>1, <1>2, FS_Subset

(* No step but RecordQuota makes a record recent. *)
Wanes ==
  \A u \in Newcomers : {k \in T!Keys : quota'[u][k] = "recent"} \subseteq T!Recent(u)
    /\ \A k \in T!Keys : quota[u][k] = "none" <=> quota'[u][k] = "none"

LEMMA WaningCount ==
  ASSUME Bound, Wanes, NEW u \in Newcomers
  PROVE  Cardinality(T!Recent(u)') \in Nat /\ Cardinality(T!Recent(u)) \in Nat
         /\ Cardinality(T!Recent(u)') <= Cardinality(T!Recent(u))
<1>1. T!Recent(u)' \subseteq T!Recent(u)
  BY DEF Wanes, T!Recent
<1> QED  BY <1>1, RecentFinite, FS_Subset, FS_CardinalityType

LEMMA WaningMetered ==
  ASSUME Bound, Base, Metered, Wanes,
         \A q \in Requests : command'[q].pc = "record" =>
           command[q].pc = "record" /\ command'[q].user = command[q].user /\ command'[q].key = command[q].key
  PROVE  Metered'
<1>1. \A u \in Newcomers : Cardinality(T!Recent(u)') <= Limit
  BY WaningCount DEF Metered, Bound
<1>2. ASSUME NEW q \in Requests, command'[q].pc = "record"
      PROVE  /\ quota'[command'[q].user][command'[q].key] = "none"
             /\ Cardinality(T!Recent(command[q].user)') < Limit
             /\ command'[q].user = command[q].user
  <2>1. command[q].pc = "record" /\ command'[q].user = command[q].user /\ command'[q].key = command[q].key
    BY <1>2
  <2>2. command[q].user \in Newcomers /\ command[q].key \in T!Keys
    BY <2>1 DEF Base, Holding, Holds
  <2>3. Cardinality(T!Recent(command[q].user)) < Limit /\ quota[command[q].user][command[q].key] = "none"
    BY <2>1 DEF Metered
  <2>4. PICK u \in Newcomers : u = command[q].user
    BY <2>2
  <2>5. Cardinality(T!Recent(u)') < Limit
    BY <2>3, <2>4, WaningCount DEF Bound
  <2>6. T!Recent(command[q].user)' = {k \in T!Keys : quota'[command'[q].user][k] = "recent"}
    BY DEF T!Recent
  <2>7. T!Recent(u)' = {k \in T!Keys : quota'[u][k] = "recent"}
    BY DEF T!Recent
  <2> QED  BY <2>1, <2>2, <2>3, <2>4, <2>5, <2>6, <2>7 DEF Wanes
<1>3. \A p, q \in Requests : command'[p].pc = "record" /\ command'[q].pc = "record" /\ command'[p].user = command'[q].user => p = q
  BY DEF Metered
<1> QED  BY <1>1, <1>2, <1>3 DEF Metered

(* Where a step leaves the requests. *)
LEMMA OthersStay ==
  ASSUME Bound, Base, NEW q \in Requests, NEW o \in Op, command' = [command EXCEPT ![q] = o]
  PROVE  command'[q] = o /\ \A p \in Requests \ {q} : command'[p] = command[p] /\ Same(command'[p], command[p])
  BY Moved DEF Base, Same

LEMMA PcAfter ==
  ASSUME Bound, Base, NEW q \in Requests, T!Onboard(q) \/ T!Administer(q) \/ T!Fails(q)
  PROVE  /\ \A p \in Requests \ {q} : Same(command'[p], command[p])
         /\ command'[q].pc = "record" => T!CountQuota(q)
         /\ command'[q].pc = "insert" => (T!LookUp(q) /\ command'[q].user = None) \/ T!CountQuota(q) \/ T!RecordQuota(q)
<1> DEFINE o == command[q]
           Far(pc) == pc \notin {"record", "insert"}
           Stay == \A p \in Requests \ {q} : Same(command'[p], command[p])
<1>1. o \in Op
  BY DEF Base, Types
<1>2. ASSUME NEW x \in Op, T!Starts(q, x), Far(x.pc)
      PROVE  Stay /\ Far(command'[q].pc)
  BY <1>2, Arrival DEF Base, Same
<1>3. ASSUME NEW x \in Op, command' = [command EXCEPT ![q] = x]
      PROVE  Stay /\ command'[q] = x
  BY <1>3, OthersStay
<1>4. ASSUME T!Ends(q)
      PROVE  Stay /\ Far(command'[q].pc)
  BY <1>3, <1>4, Records DEF T!Ends, T!Goes
<1>5. ASSUME NEW pc \in T!Pc, T!Goes(q, [o EXCEPT !.pc = pc]), Far(pc)
      PROVE  Stay /\ Far(command'[q].pc)
  <2>1. [o EXCEPT !.pc = pc] \in Op /\ [o EXCEPT !.pc = pc].pc = pc
    BY <1>1, <1>5 DEF Op
  <2> QED  BY <1>3, <1>5, <2>1 DEF T!Goes
<1>6. CASE T!StartOnboarding(q)
  <2>1. PICK u \in Newcomers, todo \in SUBSET T!Keys \ {{}}, wanted \in SUBSET Streams \ {{}} :
          T!Starts(q, [T!NoOp EXCEPT !.pc = "next", !.user = u, !.todo = todo, !.wanted = wanted,
                                 !.before = T!Selected(u), !.beforeStreams = streams[u],
                                 !.clean = u \notin stale])
    BY <1>6 DEF T!StartOnboarding
  <2> DEFINE x == [T!NoOp EXCEPT !.pc = "next", !.user = u, !.todo = todo, !.wanted = wanted,
                               !.before = T!Selected(u), !.beforeStreams = streams[u],
                               !.clean = u \notin stale]
  <2>2. T!Selected(u) \in SUBSET Rows /\ streams[u] \in SUBSET Streams /\ (u \notin stale) \in BOOLEAN
    BY DEF Base, Types, T!Selected, T!LinksOf
  <2>3. x \in Op /\ x.pc = "next"
    BY <2>2, Records DEF Op, T!Pc
  <2>4. T!Starts(q, x)
    BY <2>1
  <2> HIDE DEF x
  <2> QED  BY <1>2, <2>3, <2>4
<1>7. CASE T!StartCreation(q)
  <2>1. PICK k \in T!Keys : T!Starts(q, [T!NoOp EXCEPT !.pc = "next", !.todo = {k}])
    BY <1>7 DEF T!StartCreation
  <2>2. [T!NoOp EXCEPT !.pc = "next", !.todo = {k}] \in Op /\ [T!NoOp EXCEPT !.pc = "next", !.todo = {k}].pc = "next"
    BY Records DEF Op, T!Pc
  <2> QED  BY <1>2, <2>1, <2>2
<1>8. CASE T!StartMerge(q)
  <2>1. PICK winner \in Rows, loser \in Rows :
          /\ T!Live(winner) /\ T!Live(loser)
          /\ T!Starts(q, [T!NoOp EXCEPT !.pc = "merge", !.row = winner, !.copy = rows[winner],
                                    !.other = loser, !.otherCopy = rows[loser],
                                    !.chosen = {u \in Newcomers : <<u, loser>> \in links}])
    BY <1>8 DEF T!StartMerge
  <2> DEFINE x == [T!NoOp EXCEPT !.pc = "merge", !.row = winner, !.copy = rows[winner],
                               !.other = loser, !.otherCopy = rows[loser],
                               !.chosen = {u \in Newcomers : <<u, loser>> \in links}]
  <2>2. rows[winner] \in T!Row /\ rows[loser] \in T!Row
    BY <2>1, RowTyped DEF Base, T!Live
  <2>3. {u \in Newcomers : <<u, loser>> \in links} \in SUBSET (Newcomers \cup Rows)
    OBVIOUS
  <2>4. x \in Op /\ x.pc = "merge"
    BY <2>2, <2>3, Records DEF Op, T!Pc
  <2>5. T!Starts(q, x)
    BY <2>1
  <2> HIDE DEF x
  <2> QED  BY <1>2, <2>4, <2>5
<1>9. CASE T!StartUpdate(q)
  <2>1. PICK r \in Rows, name \in Names, aliases \in SUBSET Names :
          /\ T!Live(r)
          /\ T!Starts(q, [T!NoOp EXCEPT !.pc = "update", !.row = r, !.copy = rows[r],
                                    !.otherCopy = [rows[r] EXCEPT !.name = name, !.aliases = aliases]])
    BY <1>9 DEF T!StartUpdate
  <2> DEFINE copy == [rows[r] EXCEPT !.name = name, !.aliases = aliases]
             x == [T!NoOp EXCEPT !.pc = "update", !.row = r, !.copy = rows[r], !.otherCopy = copy]
  <2>2. rows[r] \in T!Row /\ copy \in T!Row
    BY <2>1, RowTyped DEF Base, T!Live, T!Row
  <2>3. T!Starts(q, x)
    BY <2>1
  <2> HIDE DEF copy
  <2>4. x \in Op /\ x.pc = "update"
    BY <2>2, Records DEF Op, T!Pc
  <2> HIDE DEF x
  <2> QED  BY <1>2, <2>3, <2>4
<1>10. CASE T!LookUp(q)
  <2>1. PICK k \in o.todo :
          LET found == T!Matches(k[1], k[2])
              x     == [o EXCEPT !.key = k, !.fresh = FALSE]
          IN  \/ /\ found = {}
                 /\ T!Goes(q, [x EXCEPT !.pc = IF x.user = None THEN "insert" ELSE "reserve"])
              \/ \E r \in found :
                   T!Goes(q, [x EXCEPT !.row = r, !.copy = rows[r],
                                     !.pc = IF T!Knows(rows[r], k[2]) THEN "find" ELSE "alias"])
    BY <1>10 DEF T!LookUp
  <2> DEFINE found == T!Matches(k[1], k[2])
             x == [o EXCEPT !.key = k, !.fresh = FALSE]
  <2>2. x \in Op /\ x.user = o.user
    BY <1>1 DEF Op
  <2>3. CASE T!Goes(q, [x EXCEPT !.pc = IF x.user = None THEN "insert" ELSE "reserve"])
    <3> DEFINE y == [x EXCEPT !.pc = IF x.user = None THEN "insert" ELSE "reserve"]
    <3> HIDE DEF x
    <3>1. y \in Op /\ y.user = x.user /\ y.pc = IF y.user = None THEN "insert" ELSE "reserve"
      BY <2>2 DEF Op, T!Pc
    <3>2. command' = [command EXCEPT ![q] = y]
      BY <2>3 DEF T!Goes
    <3> HIDE DEF y
    <3> QED  BY <1>3, <1>10, <3>1, <3>2
  <2>4. CASE \E r \in found :
               T!Goes(q, [x EXCEPT !.row = r, !.copy = rows[r],
                                 !.pc = IF T!Knows(rows[r], k[2]) THEN "find" ELSE "alias"])
    <3> HIDE DEF x
    <3>1. PICK r \in found :
               T!Goes(q, [x EXCEPT !.row = r, !.copy = rows[r],
                                 !.pc = IF T!Knows(rows[r], k[2]) THEN "find" ELSE "alias"])
      BY <2>4
    <3> DEFINE y == [x EXCEPT !.row = r, !.copy = rows[r],
                              !.pc = IF T!Knows(rows[r], k[2]) THEN "find" ELSE "alias"]
    <3>2. r \in Rows /\ T!Live(r)
      BY DEF T!Matches
    <3>3. rows[r] \in T!Row
      BY <3>2, RowTyped DEF Base, T!Live
    <3>4. y \in Op /\ y.pc \in {"find", "alias"}
      BY <2>2, <3>2, <3>3 DEF Op, T!Pc
    <3>5. command' = [command EXCEPT ![q] = y]
      BY <3>1 DEF T!Goes
    <3> HIDE DEF y
    <3> QED  BY <1>3, <3>4, <3>5
  <2> QED  BY <2>1, <2>3, <2>4
<1>11. CASE T!AppendAlias(q)
  BY <1>4, <1>5, <1>11 DEF T!AppendAlias, T!Pc
<1>12. CASE T!CountQuota(q)
  <2>1. CASE T!Ends(q)
    BY <1>4, <1>12, <2>1
  <2>2. ASSUME NEW pc \in {"insert", "record"}, T!Goes(q, [o EXCEPT !.pc = pc])
        PROVE  Stay
    <3>1. [o EXCEPT !.pc = pc] \in Op
      BY <1>1 DEF Op, T!Pc
    <3> QED  BY <1>3, <2>2, <3>1 DEF T!Goes
  <2> QED  BY <1>12, <2>1, <2>2 DEF T!CountQuota
<1>13. CASE T!RecordQuota(q)
  <2>1. [o EXCEPT !.pc = "insert"] \in Op /\ [o EXCEPT !.pc = "insert"].pc = "insert"
    BY <1>1 DEF Op, T!Pc
  <2> QED  BY <1>3, <1>13, <2>1 DEF T!RecordQuota, T!Goes
<1>14. CASE T!Insert(q)
  <2>1. CASE T!Ends(q)
    BY <1>4, <2>1
  <2>2. ASSUME NEW r \in Rows, T!Goes(q, [o EXCEPT !.row = r, !.fresh = TRUE, !.pc = "find"])
        PROVE  Stay /\ Far(command'[q].pc)
    <3> DEFINE x == [o EXCEPT !.row = r, !.fresh = TRUE, !.pc = "find"]
    <3>1. x \in Op /\ x.pc = "find"
      BY <1>1 DEF Op, T!Pc
    <3>2. command' = [command EXCEPT ![q] = x]
      BY <2>2 DEF T!Goes
    <3> HIDE DEF x
    <3> QED  BY <1>3, <3>1, <3>2
  <2> QED  BY <1>14, <2>1, <2>2 DEF T!Insert
<1>15. ASSUME o.pc \in {"find", "link", "enqueue"}
       PROVE  /\ T!Resolved(o) \in Op /\ T!Resolved(o).pc = "next"
              /\ T!AfterLink(o) \in Op /\ T!AfterLink(o).pc \in {"next", "enqueue"}
  <2>1. o.row \in Rows
    BY <1>15 DEF Base, Holding, Holds
  <2>2. T!Resolved(o) \in Op /\ T!Resolved(o).pc = "next"
    BY <1>1, <2>1 DEF T!Resolved, Op, T!Pc
  <2>3. [o EXCEPT !.pc = "enqueue"] \in Op /\ [o EXCEPT !.pc = "enqueue"].pc = "enqueue"
    BY <1>1 DEF Op, T!Pc
  <2> QED  BY <2>2, <2>3 DEF T!AfterLink
<1>16. CASE T!FindLink(q)
  BY <1>3, <1>5, <1>15, <1>16 DEF T!FindLink, T!Goes, T!Pc
<1>17. CASE T!InsertLink(q)
  BY <1>3, <1>4, <1>15, <1>17 DEF T!InsertLink, T!Goes
<1>18. CASE T!Enqueue(q)
  BY <1>3, <1>15, <1>18 DEF T!Enqueue, T!Goes
<1>19. CASE T!Compare(q)
  <2>1. CASE T!Ends(q)
    BY <1>4, <2>1
  <2>2. CASE ~ T!Ends(q)
    <3> DEFINE b == o.before # o.chosen \/ o.beforeStreams # o.wanted
               pc == IF o.before # o.chosen THEN "remove"
                     ELSE IF o.beforeStreams # o.wanted THEN "streams" ELSE "save"
               y == [o EXCEPT !.changed = b, !.pc = pc]
    <3>1. b \in BOOLEAN /\ pc \in {"remove", "streams", "save"} /\ pc \in T!Pc
      BY DEF T!Pc
    <3>2. command' = [command EXCEPT ![q] = y]
      BY <1>19, <2>2 DEF T!Compare, T!Goes
    <3> HIDE DEF b, pc
    <3>3. o \in Op
      BY <1>1
    <3> HIDE DEF o
    <3>4. y \in Op /\ y.pc = pc
      BY <3>1, <3>3 DEF Op
    <3> HIDE DEF y
    <3> QED  BY <1>3, <3>1, <3>2, <3>4
  <2> QED  BY <2>1, <2>2
<1>20. CASE T!RemoveUnselected(q)
  <2> DEFINE pc == IF o.beforeStreams # o.wanted THEN "streams" ELSE "save"
  <2>1. T!Goes(q, [o EXCEPT !.pc = pc])
    BY <1>20 DEF T!RemoveUnselected
  <2>2. pc \in T!Pc /\ Far(pc)
    BY DEF T!Pc
  <2> HIDE DEF pc
  <2> QED  BY <1>5, <2>1, <2>2
<1>21. CASE T!ReadStreams(q)
  <2> DEFINE y == [o EXCEPT !.pc = "replace", !.beforeStreams = streams[o.user]]
  <2>1. streams[o.user] \in SUBSET Streams
    BY <1>21 DEF T!ReadStreams, Base, Types, Holding, Holds
  <2>2. y \in Op /\ y.pc = "replace"
    BY <1>1, <2>1 DEF Op, T!Pc
  <2>3. command' = [command EXCEPT ![q] = y]
    BY <1>21 DEF T!ReadStreams, T!Goes
  <2> HIDE DEF y
  <2> QED  BY <1>3, <2>2, <2>3
<1>22. CASE T!ReplaceStreams(q)
  BY <1>4, <1>5, <1>22 DEF T!ReplaceStreams, T!Pc
<1>23. CASE T!SaveUser(q)
  BY <1>4, <1>5, <1>23 DEF T!SaveUser, T!Pc
<1>24. CASE T!Invalidate(q) \/ T!CommitMerge(q) \/ T!CommitUpdate(q) \/ T!Fails(q)
  BY <1>4, <1>24 DEF T!Invalidate, T!CommitMerge, T!CommitUpdate, T!Fails
<1> QED
  BY <1>6, <1>7, <1>8, <1>9, <1>10, <1>11, <1>12, <1>13, <1>14, <1>16, <1>17, <1>18, <1>19, <1>20,
     <1>21, <1>22, <1>23, <1>24 DEF T!Onboard, T!Administer

LEMMA KeepsStep ==
  ASSUME Bound, Base, [T!Next]_(T!vars)
  PROVE  Keeps
<1>1. CASE rows' = rows
  BY <1>1 DEF Keeps, T!Exists
<1>2. CASE rows' # rows
  <2>1. PICK q \in Requests : T!AppendAlias(q) \/ T!Insert(q) \/ T!CommitMerge(q) \/ T!CommitUpdate(q)
    BY <1>2 DEF T!Next, T!vars, T!Expire, T!Onboard, T!Administer, T!StartOnboarding,
       T!StartCreation, T!StartMerge, T!StartUpdate, T!LookUp, T!CountQuota, T!RecordQuota,
       T!FindLink, T!InsertLink, T!Enqueue, T!Compare, T!RemoveUnselected, T!ReadStreams,
       T!ReplaceStreams, T!SaveUser, T!Invalidate, T!Fails
  <2> DEFINE o == command[q]
  <2>2. o \in Op /\ Holds(o) /\ rows \in [Rows -> T!Row \cup {T!NoRow}]
    BY DEF Base, Types, Holding
  <2>3. CASE T!CommitMerge(q)
    BY <1>2, <2>3, MergeFacts DEF T!CommitMerge
  <2>4. CASE T!Insert(q)
    <3>1. PICK r \in Rows : ~ T!Exists(r) /\ \E y : rows' = [rows EXCEPT ![r] = y]
      BY <1>2, <2>4 DEF T!Insert
    <3> QED  BY <2>2, <3>1 DEF Keeps, T!Exists
  <2>5. ASSUME NEW r \in Rows, NEW y \in T!Row, rows' = [rows EXCEPT ![r] = y],
               y.kind = rows[r].kind, y.creator = rows[r].creator
        PROVE  Keeps
    BY <2>2, <2>5, Records DEF Keeps, T!Exists
  <2>6. CASE T!AppendAlias(q)
    <3> DEFINE y == [o.copy EXCEPT !.aliases = @ \cup {o.key[2]}]
    <3>1. /\ Entity(o.row, o.copy) /\ o.key \in T!Keys
          /\ rows' = [rows EXCEPT ![o.row] = y]
      BY <1>2, <2>2, <2>6 DEF T!AppendAlias, Holds
    <3>2. o.key[2] \in Names
      BY <3>1 DEF T!Keys
    <3>3. y \in T!Row /\ y.kind = rows[o.row].kind /\ y.creator = rows[o.row].creator /\ o.row \in Rows
      BY <3>1, <3>2 DEF Entity, T!Row
    <3> HIDE DEF y
    <3> QED  BY <2>5, <3>1, <3>3
  <2>7. CASE T!CommitUpdate(q)
    <3>1. Entity(o.row, o.otherCopy) /\ rows' = [rows EXCEPT ![o.row] = o.otherCopy]
      BY <1>2, <2>2, <2>7 DEF T!CommitUpdate, Holds
    <3> QED  BY <2>5, <3>1 DEF Entity
  <2> QED  BY <2>1, <2>3, <2>4, <2>6, <2>7
<1> QED  BY <1>1, <1>2

LEMMA QuotaUnchanged ==
  ASSUME NEW q \in Requests, T!Onboard(q) \/ T!Administer(q) \/ T!Fails(q)
  PROVE  quota' = quota \/ T!RecordQuota(q)
  BY DEF T!Onboard, T!Administer, T!StartOnboarding, T!StartCreation, T!StartMerge, T!StartUpdate,
     T!LookUp, T!AppendAlias, T!CountQuota, T!Insert, T!FindLink, T!InsertLink, T!Enqueue,
     T!Compare, T!RemoveUnselected, T!ReadStreams, T!ReplaceStreams, T!SaveUser, T!Invalidate,
     T!CommitMerge, T!CommitUpdate, T!Fails

LEMMA CountMetered ==
  ASSUME Bound, Base, Metered, NEW q \in Requests, T!CountQuota(q)
  PROVE  Metered'
<1> DEFINE o == command[q]
<1>1. /\ o \in Op /\ o.pc = "reserve" /\ quota' = quota /\ ~ T!QuotaLocked(o.user)
      /\ o.user \in Newcomers /\ o.key \in T!Keys
  BY DEF Base, Types, Holding, Holds, T!CountQuota
<1>2. /\ \A p \in Requests \ {q} : Same(command'[p], command[p])
  BY PcAfter DEF T!Onboard
<1>3. \A u \in Newcomers : T!Recent(u)' = T!Recent(u)
  BY <1>1 DEF T!Recent
<1>4. CASE command'[q].pc # "record"
  <2>1. Wanes
    BY <1>1 DEF Wanes, T!Recent
  <2>2. \A p \in Requests : command'[p].pc = "record" =>
          command[p].pc = "record" /\ command'[p].user = command[p].user /\ command'[p].key = command[p].key
    BY <1>2, <1>4 DEF Same
  <2> QED  BY <2>1, <2>2, WaningMetered
<1>5. CASE command'[q].pc = "record"
  <2>1. CASE T!Ends(q)
    <3>1. command'[q] = T!NoOp
      BY <2>1, Records, OthersStay DEF T!Ends, T!Goes
    <3> QED  BY <1>5, <3>1, Records
  <2>2. CASE T!Goes(q, [o EXCEPT !.pc = "insert"])
    <3>1. [o EXCEPT !.pc = "insert"] \in Op /\ [o EXCEPT !.pc = "insert"].pc = "insert"
      BY <1>1 DEF Op, T!Pc
    <3> QED  BY <1>5, <2>2, <3>1, OthersStay DEF T!Goes
  <2>3. CASE /\ T!Goes(q, [o EXCEPT !.pc = "record"])
             /\ quota[o.user][o.key] = "none" /\ ~ (Cardinality(T!Recent(o.user)) >= Limit)
    <3> DEFINE x == [o EXCEPT !.pc = "record"]
    <3>1. x \in Op /\ x.pc = "record" /\ x.user = o.user /\ x.key = o.key
      BY <1>1 DEF Op, T!Pc
    <3>2. command' = [command EXCEPT ![q] = x]
      BY <2>3 DEF T!Goes
    <3> HIDE DEF x
    <3>3. command'[q] = x /\ \A p \in Requests \ {q} : command'[p] = command[p]
      BY <3>1, <3>2, OthersStay
    <3>4. Cardinality(T!Recent(o.user)) < Limit
      BY <2>3, RecentFinite, FS_CardinalityType DEF Bound
    <3>5. \A p \in Requests \ {q} : command[p].pc = "record" => command[p].user # o.user
      BY <1>1 DEF T!QuotaLocked
    <3>6. \A u \in Newcomers : Cardinality(T!Recent(u)') <= Limit
      BY <1>3 DEF Metered
    <3>7. ASSUME NEW p \in Requests, command'[p].pc = "record"
          PROVE  quota'[command'[p].user][command'[p].key] = "none" /\ Cardinality(T!Recent(command[p].user)') < Limit
                 /\ command'[p].user = command[p].user
      <4>1. CASE p = q
        BY <1>1, <1>3, <2>3, <3>1, <3>3, <3>4, <4>1 DEF T!Recent
      <4>2. CASE p # q
        <5>1. command'[p] = command[p] /\ command[p].pc = "record" /\ command[p].user \in Newcomers
          BY <3>3, <3>7, <4>2 DEF Base, Holding, Holds
        <5> QED  BY <1>1, <5>1 DEF Metered, T!Recent
      <4> QED  BY <4>1, <4>2
    <3>8. \A p, r \in Requests :
            command'[p].pc = "record" /\ command'[r].pc = "record" /\ command'[p].user = command'[r].user => p = r
      BY <3>1, <3>3, <3>5 DEF Metered
    <3> QED  BY <3>6, <3>7, <3>8 DEF Metered, T!Recent
  <2>4. CASE quota[o.user][o.key] # "none"
    BY <2>1, <2>2, <2>4 DEF T!CountQuota
  <2>5. CASE quota[o.user][o.key] = "none" /\ Cardinality(T!Recent(o.user)) >= Limit
    BY <2>1, <2>5, SameCardinality DEF T!CountQuota
  <2>6. CASE quota[o.user][o.key] = "none" /\ ~ (Cardinality(T!Recent(o.user)) >= Limit)
    BY <2>3, <2>6, SameCardinality DEF T!CountQuota
  <2> QED  BY <2>4, <2>5, <2>6
<1> QED  BY <1>4, <1>5

LEMMA RecordMetered ==
  ASSUME Bound, Base, Metered, NEW q \in Requests, T!RecordQuota(q)
  PROVE  Metered'
<1> DEFINE o == command[q]
<1>1. /\ o \in Op /\ o.pc = "record" /\ quota' = [quota EXCEPT ![o.user][o.key] = "recent"]
      /\ o.user \in Newcomers /\ o.key \in T!Keys
      /\ quota \in [Newcomers -> [T!Keys -> {"none", "recent", "older"}]]
  BY DEF Base, Types, Holding, Holds, T!RecordQuota
<1>2. \A p \in Requests \ {q} : Same(command'[p], command[p])
  BY PcAfter DEF T!Onboard
<1>3. command'[q].pc = "insert"
  <2>1. [o EXCEPT !.pc = "insert"] \in Op /\ [o EXCEPT !.pc = "insert"].pc = "insert"
    BY <1>1 DEF Op, T!Pc
  <2> QED  BY <2>1, OthersStay DEF T!RecordQuota, T!Goes
<1>4. \A u \in Newcomers \ {o.user} : T!Recent(u)' = T!Recent(u)
  BY <1>1 DEF T!Recent
<1>5. T!Recent(o.user)' = {k \in T!Keys : quota'[o'.user][k] = "recent"}
  BY DEF T!Recent
<1>6. PICK u \in Newcomers : u = o.user
  BY <1>1
<1>7. T!Recent(u)' = T!Recent(u) \cup {o.key}
  BY <1>1, <1>6 DEF T!Recent
<1>8. Cardinality(T!Recent(u)') <= Limit
  <2>1. Cardinality(T!Recent(u)) < Limit
    BY <1>1, <1>6 DEF Metered
  <2>2. IsFiniteSet(T!Recent(u)) /\ Cardinality(T!Recent(u)) \in Nat
    BY RecentFinite, FS_CardinalityType
  <2>3. ASSUME NEW k  PROVE Cardinality(T!Recent(u) \cup {k}) <= Cardinality(T!Recent(u)) + 1
    <3>1. Cardinality(T!Recent(u) \cup {k}) =
            IF k \in T!Recent(u) THEN Cardinality(T!Recent(u)) ELSE Cardinality(T!Recent(u)) + 1
      BY <2>2, FS_AddElement
    <3> QED  BY <2>2, <3>1
  <2>4. PICK k \in T!Keys : k = o.key
    BY <1>1
  <2>5. Cardinality(T!Recent(u) \cup {k}) <= Cardinality(T!Recent(u)) + 1
    BY <2>3
  <2>6. Cardinality(T!Recent(u) \cup {k}) \in Nat
    BY <2>2, FS_AddElement, FS_CardinalityType
  <2>7. Cardinality(T!Recent(u) \cup {k}) <= Limit
    BY <2>1, <2>2, <2>5, <2>6 DEF Bound
  <2> QED  BY <1>7, <2>4, <2>7
<1>9. \A v \in Newcomers : Cardinality(T!Recent(v)') <= Limit
  BY <1>4, <1>6, <1>8 DEF Metered
<1>10. ASSUME NEW p \in Requests, command'[p].pc = "record"
       PROVE  quota'[command'[p].user][command'[p].key] = "none" /\ Cardinality(T!Recent(command[p].user)') < Limit
              /\ command'[p].user = command[p].user
  <2>1. p # q /\ command[p].pc = "record" /\ command'[p].user = command[p].user /\ command'[p].key = command[p].key
    BY <1>2, <1>3, <1>10 DEF Same
  <2>2. command[p].user # o.user
    BY <1>1, <2>1 DEF Metered
  <2>3. command[p].user \in Newcomers /\ command[p].key \in T!Keys
    BY <2>1 DEF Base, Holding, Holds
  <2>4. quota[command[p].user][command[p].key] = "none" /\ Cardinality(T!Recent(command[p].user)) < Limit
    BY <2>1 DEF Metered
  <2>5. PICK v \in Newcomers : v = command[p].user
    BY <2>3
  <2>6. T!Recent(v)' = T!Recent(v)
    BY <1>4, <2>2, <2>5
  <2>7. T!Recent(v)' = {k \in T!Keys : quota'[v][k] = "recent"}
    BY DEF T!Recent
  <2>8. T!Recent(command[p].user)' = {k \in T!Keys : quota'[command'[p].user][k] = "recent"}
    BY DEF T!Recent
  <2> QED  BY <1>1, <2>1, <2>2, <2>3, <2>4, <2>5, <2>6, <2>7, <2>8
<1>11. \A p, r \in Requests :
         command'[p].pc = "record" /\ command'[r].pc = "record" /\ command'[p].user = command'[r].user => p = r
  BY <1>2, <1>3 DEF Metered, Same
<1> QED  BY <1>9, <1>10, <1>11 DEF Metered, T!Recent

LEMMA MeteredStep == Bound /\ Base /\ Metered /\ [T!Next]_(T!vars) => Metered'
<1> SUFFICES ASSUME Bound, Base, Metered, [T!Next]_(T!vars)  PROVE Metered'
  OBVIOUS
<1>1. ASSUME NEW q \in Requests, T!Onboard(q) \/ T!Administer(q) \/ T!Fails(q)
      PROVE  Metered'
  <2>1. CASE T!CountQuota(q)
    BY <2>1, CountMetered
  <2>2. CASE T!RecordQuota(q)
    BY <2>2, RecordMetered
  <2>3. CASE ~ T!CountQuota(q) /\ ~ T!RecordQuota(q)
    <3>1. quota' = quota
      BY <1>1, <2>3, QuotaUnchanged
    <3>2. Wanes
      BY <3>1 DEF Wanes, T!Recent
    <3>3. \A p \in Requests : command'[p].pc = "record" =>
            command[p].pc = "record" /\ command'[p].user = command[p].user /\ command'[p].key = command[p].key
      BY <1>1, <2>3, PcAfter DEF Same
    <3> QED  BY <3>2, <3>3, WaningMetered
  <2> QED  BY <2>1, <2>2, <2>3
<1>2. CASE T!Expire \/ UNCHANGED T!vars
  <2>1. command' = command
    BY <1>2 DEF T!Expire, T!vars
  <2>2. Wanes
    <3>1. CASE UNCHANGED T!vars
      BY <3>1 DEF T!vars, Wanes, T!Recent
    <3>2. CASE T!Expire
      <4>1. PICK u \in Newcomers, k \in T!Keys : quota[u][k] = "recent" /\ quota' = [quota EXCEPT ![u][k] = "older"]
        BY <3>2 DEF T!Expire
      <4> QED  BY <4>1 DEF Base, Types, Wanes, T!Recent
    <3> QED  BY <1>2, <3>1, <3>2
  <2> QED  BY <2>1, <2>2, WaningMetered
<1> QED  BY <1>1, <1>2 DEF T!Next

(* What no step undoes: a quota record stays, a row keeps its creator.       *)
LEMMA PaidStep == Bound /\ Base /\ Paid /\ [T!Next]_(T!vars) => Paid'
<1> SUFFICES ASSUME Bound, Base, Paid, [T!Next]_(T!vars)  PROVE Paid'
  OBVIOUS
<1> USE DEF Paid, T!CreationsArePaid
<1>1. \A u \in Newcomers, k \in T!Keys : quota[u][k] # "none" => quota'[u][k] # "none"
  <2>1. CASE quota' = quota
    BY <2>1
  <2>2. ASSUME NEW q \in Requests, T!RecordQuota(q)
        PROVE  \A u \in Newcomers, k \in T!Keys : quota[u][k] # "none" => quota'[u][k] # "none"
    BY <2>2 DEF T!RecordQuota, Base, Types, Holding, Holds
  <2>3. CASE T!Expire
    BY <2>3 DEF T!Expire, Base, Types
  <2> QED  BY <2>1, <2>2, <2>3, QuotaUnchanged DEF T!Next, T!vars
<1>2. ASSUME NEW q \in Requests, command'[q].pc = "insert", command'[q].user # None
      PROVE  quota'[command'[q].user][command'[q].key] # "none"
  <2>1. ASSUME command[q].pc = "insert", command'[q].user = command[q].user, command'[q].key = command[q].key
        PROVE  quota'[command'[q].user][command'[q].key] # "none"
    <3>1. command[q].user \in Newcomers /\ command[q].key \in T!Keys
      BY <1>2, <2>1 DEF Base, Types, Holding, Holds, Op
    <3> QED  BY <1>1, <1>2, <2>1, <3>1
  <2>2. ASSUME NEW p \in Requests, T!Onboard(p) \/ T!Administer(p) \/ T!Fails(p)
        PROVE  quota'[command'[q].user][command'[q].key] # "none"
    <3>1. CASE p # q
      BY <1>2, <2>1, <2>2, <3>1, PcAfter DEF Same
    <3>2. CASE p = q
      <4> DEFINE o == command[q]
                 x == [o EXCEPT !.pc = "insert"]
      <4>1. o \in Op
        BY DEF Base, Types
      <4>2. x \in Op /\ x.user = o.user /\ x.key = o.key
        BY <4>1 DEF Op, T!Pc
      <4>3. T!CountQuota(q) \/ T!RecordQuota(q)
        BY <1>2, <2>2, <3>2, PcAfter
      <4>4. CASE T!RecordQuota(q)
        <5>1. command'[q] = x
          BY <4>2, <4>4, OthersStay DEF T!RecordQuota, T!Goes
        <5>2. o.user \in Newcomers /\ o.key \in T!Keys
          BY <4>4 DEF T!RecordQuota, Base, Holding, Holds
        <5> QED  BY <4>2, <4>4, <5>1, <5>2 DEF T!RecordQuota, Base, Types
      <4>5. CASE T!CountQuota(q)
        <5>1. CASE T!Ends(q)
          <6>1. command'[q] = T!NoOp
            BY <5>1, Records, OthersStay DEF T!Ends, T!Goes
          <6> QED  BY <1>2, <6>1, Records
        <5>2. CASE T!Goes(q, [o EXCEPT !.pc = "record"])
          <6>1. [o EXCEPT !.pc = "record"] \in Op /\ [o EXCEPT !.pc = "record"].pc = "record"
            BY <4>1 DEF Op, T!Pc
          <6> QED  BY <1>2, <5>2, <6>1, OthersStay DEF T!Goes
        <5>3. CASE quota[o.user][o.key] # "none" /\ T!Goes(q, x) /\ quota' = quota
          <6>1. command'[q] = x
            BY <4>2, <5>3, OthersStay DEF T!Goes
          <6> QED  BY <4>2, <5>3, <6>1
        <5> QED  BY <4>5, <5>1, <5>2, <5>3 DEF T!CountQuota
      <4> QED  BY <4>3, <4>4, <4>5
    <3> QED  BY <3>1, <3>2
  <2>3. CASE T!Expire \/ UNCHANGED T!vars
    BY <1>2, <2>1, <2>3 DEF T!Expire, T!vars
  <2> QED  BY <2>2, <2>3 DEF T!Next
<1>3. ASSUME NEW r \in Rows, rows'[r].creator # None
      PROVE  rows'[r].creator.record # "none"
  <2>1. CASE T!Exists(r)
    <3>1. rows'[r].creator = rows[r].creator
      BY <2>1, KeepsStep DEF Keeps
    <3> QED  BY <1>3, <3>1
  <2>2. CASE ~ T!Exists(r)
    <3>1. rows' # rows
      BY <1>3, <2>2, Records DEF T!Exists
    <3>2. PICK q \in Requests : T!AppendAlias(q) \/ T!Insert(q) \/ T!CommitMerge(q) \/ T!CommitUpdate(q)
      BY <3>1 DEF T!Next, T!vars, T!Expire, T!Onboard, T!Administer, T!StartOnboarding,
         T!StartCreation, T!StartMerge, T!StartUpdate, T!LookUp, T!CountQuota, T!RecordQuota,
         T!FindLink, T!InsertLink, T!Enqueue, T!Compare, T!RemoveUnselected, T!ReadStreams,
         T!ReplaceStreams, T!SaveUser, T!Invalidate, T!Fails
    <3> DEFINE o == command[q]
    <3>3. o \in Op /\ Holds(o) /\ rows \in [Rows -> T!Row \cup {T!NoRow}]
      BY DEF Base, Types, Holding
    <3>4. CASE T!Insert(q)
      <4>1. o.pc = "insert" /\ o.key \in T!Keys /\ o.user \in Newcomers \cup {None} /\ quota' = quota
        BY <3>3, <3>4 DEF T!Insert, Holds, Op
      <4>5. PICK s \in Rows :
              rows' = [rows EXCEPT ![s] = [kind |-> o.key[1], name |-> o.key[2], aliases |-> {},
                                           into |-> None, deleted |-> FALSE, creator |-> T!CreatorOf(o)]]
        BY <3>1, <3>4 DEF T!Insert
      <4>6. r = s
        BY <1>3, <2>2, <3>3, <4>5, Records DEF T!Exists
      <4>2. rows'[r].creator = T!CreatorOf(o)
        BY <3>3, <4>5, <4>6
      <4>3. o.user # None
        BY <1>3, <3>3, <4>1, <4>2, Creator
      <4>4. quota[o.user][o.key] # "none"
        BY <4>1, <4>3
      <4> QED  BY <3>3, <4>1, <4>2, <4>3, <4>4, Creator
    <3>5. CASE T!AppendAlias(q) \/ T!CommitUpdate(q)
      <4>1. o.row \in Rows /\ o.row # r /\ (rows' = rows \/ \E y : rows' = [rows EXCEPT ![o.row] = y])
        BY <2>2, <3>3, <3>5 DEF T!AppendAlias, T!CommitUpdate, Holds, Entity
      <4> QED  BY <1>3, <2>2, <3>1, <3>3, <4>1, Records DEF T!Exists
    <3>6. CASE T!CommitMerge(q)
      <4>1. o.row # r /\ o.other # r /\ o.pc = "merge"
        BY <2>2, <3>3, <3>6 DEF T!CommitMerge, Holds, Entity
      <4>2. rows'[r] = rows[r]
        BY <3>1, <3>6, <4>1, MergeFacts
      <4> QED  BY <1>3, <2>2, <4>2, Records DEF T!Exists
    <3> QED  BY <3>2, <3>4, <3>5, <3>6
  <2> QED  BY <2>1, <2>2
<1> QED  BY <1>2, <1>3

-----------------------------------------------------------------------------
(***************************************************************************)
(* Names that keep resolving: a row merged away left its name to a live    *)
(* one.                                                                    *)
(***************************************************************************)
Heir(r, s) == T!Live(s) /\ rows[s].kind = rows[r].kind /\ rows[r].name \in rows[s].aliases

(* A write to a live row that keeps it live, and every alias that a retired  *)
(* row has left.                                                             *)
LEMMA HeirsAfterWrite ==
  ASSUME Bound, Base, NEW w \in Rows, NEW y \in T!Row, rows' = [rows EXCEPT ![w] = y], ~ y.deleted,
         T!Exists(w) => ~ rows[w].deleted /\ y.kind = rows[w].kind,
         \A r \in Rows : T!Exists(r) /\ rows[r].deleted => \E s \in Rows : Heir(r, s),
         T!Exists(w) => \A r \in Rows : T!Exists(r) /\ rows[r].deleted /\ rows[r].kind = y.kind
                        /\ rows[r].name \in rows[w].aliases => rows[r].name \in y.aliases
  PROVE  \A r \in Rows : T!Exists(r)' /\ rows'[r].deleted => \E s \in Rows : Heir(r, s)'
<1>1. rows'[w] = y /\ (\A s \in Rows \ {w} : rows'[s] = rows[s]) /\ y # T!NoRow
  BY Records DEF Base, Types
<1> SUFFICES ASSUME NEW r \in Rows, rows'[r] # T!NoRow, rows'[r].deleted
             PROVE  \E s \in Rows : Heir(r, s)'
  BY DEF T!Exists
<1>2. r # w /\ rows'[r] = rows[r] /\ T!Exists(r) /\ rows[r].deleted
  BY <1>1 DEF T!Exists
<1>3. PICK s \in Rows : Heir(r, s)
  BY <1>2
<1>4. CASE s # w
  BY <1>1, <1>2, <1>3, <1>4 DEF Heir, T!Live, T!Exists
<1>5. CASE s = w
  <2>1. T!Exists(w) /\ rows[r].kind = y.kind /\ rows[r].name \in rows[w].aliases
    BY <1>3, <1>5 DEF Heir, T!Live
  <2>2. rows[r].name \in y.aliases
    BY <1>2, <2>1
  <2>3. T!Live(w)' /\ rows'[w].kind = rows'[r].kind /\ rows'[r].name \in rows'[w].aliases
    BY <1>1, <1>2, <2>1, <2>2 DEF T!Live, T!Exists
  <2> QED  BY <2>3 DEF Heir
<1> QED  BY <1>4, <1>5

LEMMA HeirsStep == Bound /\ Base /\ Succeeded /\ [T!Next]_(T!vars) => Succeeded'
<1> SUFFICES ASSUME Bound, Base, Succeeded, [T!Next]_(T!vars), ~ disturbed'
             PROVE  \A r \in Rows : T!Exists(r)' /\ rows'[r].deleted => \E s \in Rows : Heir(r, s)'
  BY DEF Succeeded, Heir
<1>1. CASE rows' = rows /\ ~ disturbed
  BY <1>1 DEF Succeeded, Heir, T!Live, T!Exists
<1>2. ~ disturbed
  <2>1. disturbed' = disturbed \/ \E q \in Requests : T!AppendAlias(q) \/ T!CommitMerge(q) \/ T!CommitUpdate(q)
    BY DEF T!Next, T!vars, T!Expire, T!Onboard, T!Administer, T!StartOnboarding, T!StartCreation,
       T!StartMerge, T!StartUpdate, T!LookUp, T!CountQuota, T!RecordQuota, T!Insert, T!FindLink,
       T!InsertLink, T!Enqueue, T!Compare, T!RemoveUnselected, T!ReadStreams, T!ReplaceStreams,
       T!SaveUser, T!Invalidate, T!Fails
  <2>2. ASSUME NEW q \in Requests, T!AppendAlias(q) \/ T!CommitMerge(q) \/ T!CommitUpdate(q)
        PROVE  disturbed => disturbed'
    BY <2>2 DEF T!AppendAlias, T!CommitMerge, T!CommitUpdate
  <2> QED  BY <2>1, <2>2
<1>3. \A r \in Rows : T!Exists(r) /\ rows[r].deleted => \E s \in Rows : Heir(r, s)
  BY <1>2 DEF Succeeded, Heir
<1>4. CASE rows' # rows
  <2>1. PICK q \in Requests : T!AppendAlias(q) \/ T!Insert(q) \/ T!CommitMerge(q) \/ T!CommitUpdate(q)
    BY <1>4 DEF T!Next, T!vars, T!Expire, T!Onboard, T!Administer, T!StartOnboarding,
       T!StartCreation, T!StartMerge, T!StartUpdate, T!LookUp, T!CountQuota, T!RecordQuota,
       T!FindLink, T!InsertLink, T!Enqueue, T!Compare, T!RemoveUnselected, T!ReadStreams,
       T!ReplaceStreams, T!SaveUser, T!Invalidate, T!Fails
  <2> DEFINE o == command[q]
  <2>2. o \in Op /\ Holds(o) /\ rows \in [Rows -> T!Row \cup {T!NoRow}]
    BY DEF Base, Types, Holding
  <2>3. CASE T!AppendAlias(q)
    <3> DEFINE y == [o.copy EXCEPT !.aliases = @ \cup {o.key[2]}]
    <3>1. /\ Entity(o.row, o.copy) /\ o.key \in T!Keys /\ rows[o.row] = o.copy
          /\ rows' = [rows EXCEPT ![o.row] = y]
      BY <1>4, <2>2, <2>3 DEF T!AppendAlias, Holds
    <3>2. o.key[2] \in Names
      BY <3>1 DEF T!Keys
    <3>3. /\ y \in T!Row /\ ~ y.deleted /\ y.kind = rows[o.row].kind /\ o.row \in Rows
          /\ y.aliases = rows[o.row].aliases \cup {o.key[2]} /\ ~ rows[o.row].deleted
      BY <3>1, <3>2 DEF Entity, T!Row
    <3> HIDE DEF y
    <3> QED  BY <1>3, <3>1, <3>3, HeirsAfterWrite
  <2>4. CASE T!Insert(q)
    <3> DEFINE y == [kind |-> o.key[1], name |-> o.key[2], aliases |-> {}, into |-> None, deleted |-> FALSE,
                     creator |-> T!CreatorOf(o)]
    <3>1. o.key \in T!Keys /\ o.user \in Newcomers \cup {None}
      BY <2>2, <2>4 DEF T!Insert, Holds, Op
    <3>2. PICK r \in Rows : ~ T!Exists(r) /\ rows' = [rows EXCEPT ![r] = y]
      BY <1>4, <2>4 DEF T!Insert
    <3>4. T!CreatorOf(o) \in [user : Newcomers, key : T!Keys, record : T!Record] \cup {None}
      BY <2>2, <3>1, Creator
    <3>3. y \in T!Row /\ ~ y.deleted
      BY <3>1, <3>4 DEF T!Keys, T!Row
    <3> HIDE DEF y
    <3> QED  BY <1>3, <3>2, <3>3, HeirsAfterWrite
  <2>5. CASE T!CommitUpdate(q)
    <3> DEFINE y == o.otherCopy
    <3>1. /\ Entity(o.row, o.copy) /\ Entity(o.row, y)
          /\ rows' = [rows EXCEPT ![o.row] = y] /\ rows[o.row] = o.copy
          /\ \A s \in Rows : T!Exists(s) /\ rows[s].deleted /\ rows[s].kind = o.copy.kind
                               /\ rows[s].name \in o.copy.aliases => rows[s].name \in y.aliases
      BY <1>4, <2>2, <2>5 DEF T!CommitUpdate, Holds
    <3>2. /\ y \in T!Row /\ ~ y.deleted /\ y.kind = rows[o.row].kind /\ o.row \in Rows
          /\ ~ rows[o.row].deleted /\ y.kind = o.copy.kind
      BY <3>1 DEF Entity
    <3> HIDE DEF y
    <3> QED  BY <1>3, <3>1, <3>2, HeirsAfterWrite
  <2>6. CASE T!CommitMerge(q)
    <3> DEFINE w == [o.copy EXCEPT !.aliases = T!AliasesOf(o.copy, o.otherCopy)]
               l == [o.otherCopy EXCEPT !.deleted = TRUE, !.into = o.row]
    <3>1. o.pc = "merge" /\ rows[o.row] = o.copy /\ rows[o.other] = o.otherCopy
          /\ o.copy.kind = o.otherCopy.kind
      BY <1>4, <2>6 DEF T!CommitMerge
    <3>2. /\ o.row \in Rows /\ o.other \in Rows /\ o.row # o.other
          /\ w \in T!Row /\ w.kind = o.copy.kind
          /\ w.aliases = o.copy.aliases \cup {o.otherCopy.name} \cup o.otherCopy.aliases
          /\ ~ w.deleted /\ l.kind = o.otherCopy.kind /\ l.name = o.otherCopy.name
          /\ rows'[o.row] = w /\ rows'[o.other] = l
          /\ \A s \in Rows \ {o.row, o.other} : rows'[s] = rows[s]
      BY <1>4, <2>6, <3>1, MergeFacts
    <3> HIDE DEF w, l
    <3> SUFFICES ASSUME NEW r \in Rows, rows'[r] # T!NoRow, rows'[r].deleted
                 PROVE  \E s \in Rows : Heir(r, s)'
      BY DEF T!Exists
    <3>4. CASE r = o.other
      <4>1. PICK s \in Rows : s = o.row
        BY <3>2
      <4>2. T!Live(s)' /\ rows'[s].kind = rows'[r].kind /\ rows'[r].name \in rows'[s].aliases
        BY <3>1, <3>2, <3>4, <4>1, Records DEF T!Live, T!Exists
      <4> QED  BY <4>2 DEF Heir
    <3>5. CASE r # o.other
      <4>1. r # o.row /\ rows'[r] = rows[r] /\ T!Exists(r) /\ rows[r].deleted
        BY <3>2, <3>5 DEF T!Exists
      <4>2. PICK s \in Rows : Heir(r, s)
        BY <1>3, <4>1
      <4>3. CASE s \notin {o.row, o.other}
        BY <3>2, <4>1, <4>2, <4>3 DEF Heir, T!Live, T!Exists
      <4>4. CASE s \in {o.row, o.other}
        <5>1. rows[r].kind = o.copy.kind /\ rows[r].name \in w.aliases
          BY <3>1, <3>2, <4>2, <4>4 DEF Heir
        <5>2. PICK t \in Rows : t = o.row
          BY <3>2
        <5>3. T!Live(t)' /\ rows'[t].kind = rows'[r].kind /\ rows'[r].name \in rows'[t].aliases
          BY <3>2, <4>1, <5>1, <5>2, Records DEF T!Live, T!Exists
        <5> QED  BY <5>3 DEF Heir
      <4> QED  BY <4>3, <4>4
    <3> QED  BY <3>4, <3>5
  <2> QED  BY <2>1, <2>3, <2>4, <2>5, <2>6
<1> QED  BY <1>1, <1>2, <1>4

LEMMA HeirsResolve ==
  ASSUME Base, Succeeded
  PROVE  T!NamesKeepResolving
<1> SUFFICES ASSUME ~ disturbed, NEW r \in Rows, T!Exists(r)
             PROVE  T!Matches(rows[r].kind, rows[r].name) # {}
  BY DEF T!NamesKeepResolving
<1> DEFINE kind == rows[r].kind
           name == rows[r].name
           live == {s \in Rows : T!Live(s) /\ rows[s].kind = kind}
<1>1. CASE ~ rows[r].deleted
  <2>1. r \in {s \in live : rows[s].name = name}
    BY <1>1 DEF T!Live
  <2> QED  BY <2>1 DEF T!Matches
<1>2. CASE rows[r].deleted
  <2>1. PICK s \in Rows : T!Live(s) /\ rows[s].kind = kind /\ name \in rows[s].aliases
    BY <1>2 DEF Succeeded
  <2>2. s \in {t \in live : name \in rows[t].aliases}
    BY <2>1
  <2> QED  BY <2>2 DEF T!Matches
<1> QED  BY <1>1, <1>2

-----------------------------------------------------------------------------
(***************************************************************************)
(* A request that nobody else runs beside.                                 *)
(***************************************************************************)
LEMMA LinkedStep == Bound /\ Base /\ FoundLink /\ [T!Next]_(T!vars) => FoundLink'
<1> SUFFICES ASSUME Bound, Base, FoundLink, [T!Next]_(T!vars), NEW l \in links'  PROVE T!Exists(l[2])'
  BY DEF FoundLink
<1>1. Keeps
  BY KeepsStep
<1>2. ASSUME NEW r \in Rows, T!Exists(r)  PROVE T!Exists(r)'
  BY <1>1, <1>2 DEF Keeps, T!Exists
<1>3. CASE l \in links
  BY <1>2, <1>3 DEF FoundLink, Base, Types
<1>4. CASE l \notin links
  <2>1. PICK q \in Requests : T!InsertLink(q) \/ T!RemoveUnselected(q) \/ T!CommitMerge(q)
    BY <1>4 DEF T!Next, T!vars, T!Expire, T!Onboard, T!Administer, T!StartOnboarding,
       T!StartCreation, T!StartMerge, T!StartUpdate, T!LookUp, T!AppendAlias, T!CountQuota,
       T!RecordQuota, T!Insert, T!FindLink, T!Enqueue, T!Compare, T!ReadStreams, T!ReplaceStreams,
       T!SaveUser, T!Invalidate, T!CommitUpdate, T!Fails
  <2>2. l[2] = command[q].row /\ command[q].pc \in {"link", "merge"}
    <3>1. CASE T!InsertLink(q)
      BY <1>4, <3>1 DEF T!InsertLink
    <3>2. CASE T!RemoveUnselected(q)
      BY <1>4, <3>2 DEF T!RemoveUnselected
    <3>3. CASE T!CommitMerge(q)
      <4> DEFINE moved == {u \in command[q].chosen : <<u, command[q].other>> \in links}
      <4>1. command[q].pc = "merge" /\ l \in {<<u, command[q].row>> : u \in moved}
        BY <1>4, <3>3 DEF T!CommitMerge
      <4> HIDE DEF moved
      <4>2. PICK u \in moved : l = <<u, command[q].row>>
        BY <4>1
      <4> QED  BY <4>1, <4>2
    <3> QED  BY <2>1, <3>1, <3>2, <3>3
  <2>4. command[q].row \in Rows /\ T!Exists(command[q].row)
    BY <2>2 DEF Base, Holding, Holds, Entity
  <2>5. PICK r \in Rows : r = command[q].row
    BY <2>4
  <2>6. T!Exists(r)'
    BY <1>2, <2>4, <2>5
  <2> QED  BY <2>2, <2>5, <2>6
<1> QED  BY <1>3, <1>4

LEMMA SoloArrives ==
  ASSUME Bound, Base, Alone, FoundLink', NEW q \in Requests, NEW o \in Op, T!Starts(q, o),
         UNCHANGED <<rows, links, streams, stale>>,
         o.user # None => o.pc = "next" /\ Resolving(o)
  PROVE  Alone'
<1>1. /\ command' \in [Requests -> Op] /\ command[q].pc = "idle"
      /\ Same(command'[q], o)
      /\ command'[q].alone => \A p \in Requests \ {q} : command[p].pc = "idle"
      /\ \A p \in Requests \ {q} : command'[p] = command[p] \/ ~ command'[p].alone
      /\ \A p \in Requests \ {q} : command[p].pc # "idle" => ~ command'[p].alone
      /\ \A p \in Requests \ {q} : Same(command'[p], command[p])
  BY Arrival DEF Base
<1>2. ASSUME NEW a, Resolving(a)  PROVE Resolving(a)'
  BY <1>2 DEF Resolving, T!Live, T!Exists, T!Selected, T!LinksOf, Got
<1>3. ASSUME NEW a, Solo(a)  PROVE Solo(a)'
  BY <1>2, <1>3 DEF Solo, Replacing, Leaving, T!Live, T!Exists, T!Selected, T!LinksOf
<1>4. ASSUME NEW p \in Requests  PROVE Solo(command[p])'
  <2>1. PICK a \in Op : a = command'[p]
    BY <1>1
  <2>2. Solo(a)'
    <3>1. CASE p = q
      <4>1. Same(a, o)
        BY <1>1, <2>1, <3>1
      <4>2. a.user # None => a.pc = "next" /\ Resolving(a)
        BY <4>1 DEF Same, Resolving, Got
      <4> QED  BY <1>2, <4>2 DEF Solo
    <3>2. CASE p # q /\ command'[p] = command[p]
      BY <1>3, <2>1, <3>2 DEF Alone
    <3>3. CASE ~ a.alone
      BY <3>3 DEF Solo
    <3> QED  BY <1>1, <2>1, <3>1, <3>2, <3>3
  <2> QED  BY <2>1, <2>2 DEF Solo, Resolving, Replacing, Leaving, Got
<1>5. ASSUME NEW p \in Requests, NEW r \in Requests, command'[r].pc # "idle", command'[r].alone, p # r
      PROVE  command'[p].pc = "idle"
  <2>1. r = q
    BY <1>1, <1>5 DEF Same
  <2> QED  BY <1>1, <1>5, <2>1 DEF Same
<1> QED  BY <1>4, <1>5 DEF Alone, FoundLink

LEMMA SoloGoes ==
  ASSUME Bound, Base, Alone, FoundLink', NEW q \in Requests, NEW n \in Op, T!Goes(q, n),
         command[q].pc # "idle", n.pc # "idle" => n.alone = command[q].alone, Solo(n)'
  PROVE  Alone'
<1>1. /\ command' \in [Requests -> Op] /\ command'[q] = n
      /\ \A p \in Requests \ {q} : command'[p] = command[p]
  BY Moved DEF Base, T!Goes
<1>2. \A p \in Requests \ {q} : command[p].pc # "idle" => ~ command[p].alone
  BY DEF Alone
<1>3. ASSUME NEW p \in Requests  PROVE Solo(command[p])'
  <2>1. PICK a \in Op : a = command'[p]
    BY <1>1
  <2>2. Solo(a)'
    <3>1. CASE p = q
      BY <1>1, <2>1, <3>1
    <3>2. CASE p # q
      <4>1. a.pc = "idle" \/ ~ a.alone
        BY <1>1, <1>2, <2>1, <3>2
      <4> QED  BY <4>1 DEF Solo
    <3> QED  BY <3>1, <3>2
  <2> QED  BY <2>1, <2>2 DEF Solo, Resolving, Replacing, Leaving, Got
<1>4. ASSUME NEW p \in Requests, NEW r \in Requests, command'[r].pc # "idle", command'[r].alone, p # r
      PROVE  command'[p].pc = "idle"
  <2>1. r = q
    BY <1>1, <1>2, <1>4
  <2>2. command[q].alone
    BY <1>1, <1>4, <2>1
  <2> QED  BY <1>1, <1>4, <2>1, <2>2 DEF Alone
<1> QED  BY <1>3, <1>4 DEF Alone, FoundLink

LEMMA SoloEnds ==
  ASSUME Bound, Base, Alone, FoundLink', NEW q \in Requests, T!Ends(q), command[q].pc # "idle"
  PROVE  Alone'
<1>1. PICK n \in Op : n = T!NoOp
  BY Records
<1>2. T!Goes(q, n) /\ n.pc = "idle"
  BY <1>1, Records DEF T!Ends
<1>3. Solo(n)'
  BY <1>2 DEF Solo
<1> QED  BY <1>2, <1>3, SoloGoes

(* Steps of a request that resolves its selections. *)
LEMMA SoloResolves ==
  ASSUME Bound, Base, Alone, FoundLink', NEW q \in Requests,
         T!LookUp(q) \/ T!CountQuota(q) \/ T!RecordQuota(q) \/ T!Enqueue(q)
  PROVE  Alone'
<1>1. PICK x \in Op : x = command[q]
  BY DEF Base, Types
<1>2. Solo(x) /\ Holds(x) /\ UNCHANGED <<rows, links, streams, stale>>
  BY <1>1 DEF Alone, Base, Holding, T!LookUp, T!CountQuota, T!RecordQuota, T!Enqueue
<1>3. x.pc \in {"next", "reserve", "record", "enqueue"}
  BY <1>1 DEF T!LookUp, T!CountQuota, T!RecordQuota, T!Enqueue
<1>4. ASSUME NEW n \in Op, T!Goes(q, n), n.alone = x.alone, n.user = x.user, n.before = x.before,
             n.beforeStreams = x.beforeStreams, n.clean = x.clean, n.chosen = Got(x), Got(n) = n.chosen,
             n.pc \in {"next", "alias", "reserve", "record", "insert", "find", "link"},
             n.pc \in {"alias", "find", "link"} => T!Live(n.row),
             n.pc = "alias" => n.copy = rows[n.row]
      PROVE  Alone'
  <2>1. ASSUME n.alone, n.user # None  PROVE Resolving(n)
    <3>1. Resolving(x)
      BY <1>2, <1>3, <1>4, <2>1 DEF Solo
    <3> QED  BY <1>4, <3>1 DEF Resolving, Got
  <2>2. ASSUME Resolving(n)  PROVE Resolving(n)'
    BY <1>2, <2>2 DEF Resolving, T!Live, T!Exists, T!Selected, T!LinksOf, Got
  <2>3. Solo(n)'
    BY <1>4, <2>1, <2>2 DEF Solo
  <2>4. command[q].pc # "idle" /\ n.alone = command[q].alone
    BY <1>1, <1>3, <1>4
  <2> QED  BY <1>4, <2>3, <2>4, SoloGoes
<1>5. CASE T!LookUp(q)
  <2>1. PICK k \in x.todo :
          LET found == T!Matches(k[1], k[2])
              y     == [x EXCEPT !.key = k, !.fresh = FALSE]
          IN  \/ T!Goes(q, [y EXCEPT !.pc = IF y.user = None THEN "insert" ELSE "reserve"])
              \/ \E r \in found :
                   T!Goes(q, [y EXCEPT !.row = r, !.copy = rows[r],
                                     !.pc = IF T!Knows(rows[r], k[2]) THEN "find" ELSE "alias"])
    BY <1>1, <1>5 DEF T!LookUp
  <2> DEFINE y == [x EXCEPT !.key = k, !.fresh = FALSE]
  <2>2. k \in T!Keys /\ x.pc = "next"
    BY <1>1, <1>5, <2>1 DEF Op, T!LookUp
  <2>3. /\ y \in Op /\ y.alone = x.alone /\ y.user = x.user /\ y.before = x.before
        /\ y.beforeStreams = x.beforeStreams /\ y.clean = x.clean /\ y.chosen = x.chosen
    BY <2>2 DEF Op
  <2>4. CASE T!Goes(q, [y EXCEPT !.pc = IF y.user = None THEN "insert" ELSE "reserve"])
    <3> DEFINE n == [y EXCEPT !.pc = IF y.user = None THEN "insert" ELSE "reserve"]
    <3> HIDE DEF y
    <3>1. /\ n \in Op /\ n.alone = x.alone /\ n.user = x.user /\ n.before = x.before
          /\ n.beforeStreams = x.beforeStreams /\ n.clean = x.clean /\ n.chosen = x.chosen
          /\ n.pc \in {"insert", "reserve"} /\ T!Goes(q, n)
      BY <2>3, <2>4 DEF Op, T!Pc
    <3> HIDE DEF n
    <3> QED  BY <1>4, <2>2, <3>1 DEF Got
  <2>5. ASSUME NEW r \in T!Matches(k[1], k[2]),
               T!Goes(q, [y EXCEPT !.row = r, !.copy = rows[r],
                                 !.pc = IF T!Knows(rows[r], k[2]) THEN "find" ELSE "alias"])
        PROVE  Alone'
    <3> DEFINE pc == IF T!Knows(rows[r], k[2]) THEN "find" ELSE "alias"
               n == [y EXCEPT !.row = r, !.copy = rows[r], !.pc = pc]
    <3> HIDE DEF y
    <3>1. r \in Rows /\ T!Live(r)
      BY <2>5 DEF T!Matches
    <3>2. rows[r] \in T!Row
      BY <3>1, RowTyped DEF Base, T!Live
    <3>4. T!Goes(q, n) /\ pc \in {"find", "alias"}
      BY <2>5
    <3> HIDE DEF pc
    <3>6. n \in Op
      BY <2>3, <3>1, <3>2, <3>4 DEF Op, T!Pc
    <3>3. /\ n.alone = x.alone /\ n.user = x.user /\ n.before = x.before
          /\ n.beforeStreams = x.beforeStreams /\ n.clean = x.clean /\ n.chosen = x.chosen
      BY <2>3 DEF Op
    <3>5. n.pc \in {"find", "alias"} /\ n.row = r /\ n.copy = rows[r]
      BY <2>3, <3>4 DEF Op
    <3> HIDE DEF n
    <3> QED  BY <1>4, <2>2, <3>1, <3>3, <3>4, <3>5, <3>6 DEF Got
  <2> QED  BY <2>1, <2>4, <2>5
<1>6. CASE T!CountQuota(q)
  <2>1. CASE T!Ends(q)
    BY <1>1, <1>3, <2>1, SoloEnds
  <2>2. ASSUME NEW pc \in {"insert", "record"}, T!Goes(q, [x EXCEPT !.pc = pc])
        PROVE  Alone'
    <3> DEFINE n == [x EXCEPT !.pc = pc]
    <3>1. /\ n \in Op /\ n.alone = x.alone /\ n.user = x.user /\ n.before = x.before
          /\ n.beforeStreams = x.beforeStreams /\ n.clean = x.clean /\ n.chosen = x.chosen
          /\ n.pc = pc /\ T!Goes(q, n)
      BY <2>2 DEF Op, T!Pc
    <3>2. x.pc = "reserve"
      BY <1>1, <1>6 DEF T!CountQuota
    <3> HIDE DEF n
    <3> QED  BY <1>4, <2>2, <3>1, <3>2 DEF Got
  <2>3. T!Ends(q) \/ \E pc \in {"insert", "record"} : T!Goes(q, [x EXCEPT !.pc = pc])
    BY <1>1, <1>6 DEF T!CountQuota
  <2> QED  BY <2>1, <2>2, <2>3
<1>7. CASE T!RecordQuota(q)
  <2> DEFINE n == [x EXCEPT !.pc = "insert"]
  <2>1. /\ n \in Op /\ n.alone = x.alone /\ n.user = x.user /\ n.before = x.before
        /\ n.beforeStreams = x.beforeStreams /\ n.clean = x.clean /\ n.chosen = x.chosen
        /\ n.pc = "insert" /\ T!Goes(q, n) /\ x.pc = "record"
    BY <1>1, <1>7 DEF Op, T!Pc, T!RecordQuota
  <2> HIDE DEF n
  <2> QED  BY <1>4, <2>1 DEF Got
<1>8. CASE T!Enqueue(q)
  <2> DEFINE n == T!Resolved(x)
  <2>1. x.key \in T!Keys /\ x.row \in Rows /\ x.pc = "enqueue"
    BY <1>1, <1>2, <1>8 DEF Holds, T!Enqueue
  <2>3. T!Goes(q, n)
    BY <1>1, <1>8 DEF T!Enqueue
  <2>2. /\ n \in Op /\ n.alone = x.alone /\ n.user = x.user /\ n.before = x.before
        /\ n.beforeStreams = x.beforeStreams /\ n.clean = x.clean /\ n.chosen = x.chosen \cup {x.row}
        /\ n.pc = "next"
    BY <2>1 DEF Op, T!Pc, T!Resolved
  <2> HIDE DEF n
  <2> QED  BY <1>4, <2>1, <2>2, <2>3 DEF Got
<1> QED  BY <1>5, <1>6, <1>7, <1>8

(* The steps that write the row or the link of a selection. *)
LEMMA LiveOn ==
  ASSUME Base, NEW w \in Rows, NEW y \in T!Row, rows' = [rows EXCEPT ![w] = y], ~ y.deleted, T!NoRow \notin T!Row
  PROVE  /\ \A r \in Rows : T!Live(r) => T!Live(r)'
         /\ \A r \in Rows \ {w} : T!Live(r)' => T!Live(r)
         /\ T!Live(w)'
  BY DEF Base, Types, T!Live, T!Exists

LEMMA SoloLearns ==
  ASSUME Bound, Base, Alone, FoundLink', NEW q \in Requests, T!AppendAlias(q)
  PROVE  Alone'
<1>1. PICK x \in Op : x = command[q]
  BY DEF Base, Types
<1>2. Solo(x) /\ Holds(x) /\ UNCHANGED <<links, streams, stale>> /\ x.pc = "alias"
  BY <1>1 DEF Alone, Base, Holding, T!AppendAlias
<1>3. CASE T!Ends(q)
  BY <1>1, <1>2, <1>3, SoloEnds
<1>4. CASE T!Goes(q, [x EXCEPT !.pc = "find"]) /\
           rows' = [rows EXCEPT ![x.row] = [x.copy EXCEPT !.aliases = @ \cup {x.key[2]}]]
  <2> DEFINE n == [x EXCEPT !.pc = "find"]
             y == [x.copy EXCEPT !.aliases = @ \cup {x.key[2]}]
  <2>1. /\ n \in Op /\ n.alone = x.alone /\ n.user = x.user /\ n.before = x.before
        /\ n.beforeStreams = x.beforeStreams /\ n.clean = x.clean /\ n.chosen = x.chosen
        /\ n.pc = "find" /\ n.row = x.row /\ T!Goes(q, n)
    BY <1>4 DEF Op, T!Pc
  <2>2. /\ x.row \in Rows /\ T!Exists(x.row) /\ x.copy \in T!Row /\ ~ x.copy.deleted /\ x.key[2] \in Names
    BY <1>2 DEF Holds, Entity, T!Keys
  <2>3. y \in T!Row /\ ~ y.deleted
    BY <2>2 DEF T!Row
  <2> HIDE DEF n, y
  <2>4. /\ \A r \in Rows : T!Live(r) => T!Live(r)'
        /\ \A r \in Rows \ {x.row} : T!Live(r)' => T!Live(r)
    BY <1>4, <2>2, <2>3, LiveOn, Records DEF y
  <2>5. ASSUME n.alone, n.user # None  PROVE Resolving(n)'
    <3>1. Resolving(x) /\ T!Live(x.row)
      BY <1>2, <2>1, <2>5 DEF Solo, Resolving
    <3>2. \A r \in Rows : T!Live(r) <=> T!Live(r)'
      BY <2>4, <3>1
    <3>3. T!Selected(n.user)' = T!Selected(x.user)
      BY <1>2, <2>1, <3>2 DEF T!Selected, T!LinksOf
    <3>4. \A r \in n.chosen : T!Live(r)'
      BY <1>2, <2>1, <3>1, <3>2 DEF Resolving, Holds
    <3> QED  BY <1>2, <2>1, <2>2, <3>1, <3>2, <3>3, <3>4 DEF Resolving, Got
  <2>6. Solo(n)'
    BY <2>1, <2>5 DEF Solo
  <2>7. command[q].pc # "idle" /\ n.alone = command[q].alone
    BY <1>1, <1>2, <2>1
  <2> QED  BY <2>1, <2>6, <2>7, SoloGoes
<1> QED  BY <1>1, <1>3, <1>4 DEF T!AppendAlias

LEMMA SoloInserts ==
  ASSUME Bound, Base, Alone, FoundLink, FoundLink', NEW q \in Requests, T!Insert(q)
  PROVE  Alone'
<1>1. PICK x \in Op : x = command[q]
  BY DEF Base, Types
<1>2. Solo(x) /\ Holds(x) /\ UNCHANGED <<links, streams, stale>> /\ x.pc = "insert"
  BY <1>1 DEF Alone, Base, Holding, T!Insert
<1>3. CASE T!Ends(q)
  BY <1>1, <1>2, <1>3, SoloEnds
<1>4. ASSUME NEW r \in Rows, ~ T!Exists(r), T!Goes(q, [x EXCEPT !.row = r, !.fresh = TRUE, !.pc = "find"]),
             rows' = [rows EXCEPT ![r] = [kind |-> x.key[1], name |-> x.key[2], aliases |-> {},
                                          into |-> None, deleted |-> FALSE, creator |-> T!CreatorOf(x)]]
      PROVE  Alone'
  <2> DEFINE n == [x EXCEPT !.row = r, !.fresh = TRUE, !.pc = "find"]
             y == [kind |-> x.key[1], name |-> x.key[2], aliases |-> {},
                   into |-> None, deleted |-> FALSE, creator |-> T!CreatorOf(x)]
  <2>1. /\ n \in Op /\ n.alone = x.alone /\ n.user = x.user /\ n.before = x.before
        /\ n.beforeStreams = x.beforeStreams /\ n.clean = x.clean /\ n.chosen = x.chosen
        /\ n.pc = "find" /\ n.row = r /\ T!Goes(q, n)
    BY <1>4 DEF Op, T!Pc
  <2>2. x.key[1] \in RowKinds /\ x.key[2] \in Names /\ x.user \in Newcomers \cup {None}
    BY <1>2 DEF Holds, T!Keys, Op
  <2>8. T!CreatorOf(x) \in [user : Newcomers, key : T!Keys, record : T!Record] \cup {None}
    BY <1>2, Creator DEF Holds
  <2>3. y \in T!Row /\ ~ y.deleted
    BY <2>2, <2>8 DEF T!Row
  <2> HIDE DEF n, y
  <2>4. /\ \A s \in Rows : T!Live(s) => T!Live(s)'
        /\ \A s \in Rows \ {r} : T!Live(s)' => T!Live(s)
        /\ T!Live(r)'
    BY <1>4, <2>3, LiveOn, Records DEF y
  <2>5. ASSUME n.alone, n.user # None  PROVE Resolving(n)'
    <3>1. Resolving(x)
      BY <1>2, <2>1, <2>5 DEF Solo
    <3>2. <<x.user, r>> \notin links
      BY <1>4 DEF FoundLink
    <3>3. T!Selected(n.user)' = T!Selected(x.user)
      BY <1>2, <2>1, <2>4, <3>2 DEF T!Selected, T!LinksOf
    <3>4. \A s \in n.chosen : T!Live(s)'
      BY <1>2, <2>1, <2>4, <3>1 DEF Resolving, Holds
    <3> QED  BY <1>2, <2>1, <2>4, <3>1, <3>3, <3>4 DEF Resolving, Got
  <2>6. Solo(n)'
    BY <2>1, <2>5 DEF Solo
  <2>7. command[q].pc # "idle" /\ n.alone = command[q].alone
    BY <1>1, <1>2, <2>1
  <2> QED  BY <2>1, <2>6, <2>7, SoloGoes
<1> QED  BY <1>1, <1>3, <1>4 DEF T!Insert

LEMMA SoloLinks ==
  ASSUME Bound, Base, Alone, FoundLink', NEW q \in Requests, T!FindLink(q) \/ T!InsertLink(q)
  PROVE  Alone'
<1>1. PICK x \in Op : x = command[q]
  BY DEF Base, Types
<1>2. Solo(x) /\ Holds(x) /\ UNCHANGED <<rows, streams>> /\ x.pc \in {"find", "link"}
  BY <1>1 DEF Alone, Base, Holding, T!FindLink, T!InsertLink
<1>3. x.row \in Rows /\ x.key \in T!Keys /\ x.chosen \subseteq Rows
  BY <1>2 DEF Holds
<1>4. CASE T!Ends(q)
  BY <1>1, <1>2, <1>4, SoloEnds
<1>5. CASE T!FindLink(q) /\ T!Goes(q, [x EXCEPT !.pc = "link"])
  <2> DEFINE n == [x EXCEPT !.pc = "link"]
  <2>1. /\ n \in Op /\ n.alone = x.alone /\ n.user = x.user /\ n.before = x.before
        /\ n.beforeStreams = x.beforeStreams /\ n.clean = x.clean /\ n.chosen = x.chosen
        /\ n.pc = "link" /\ n.row = x.row /\ T!Goes(q, n)
    BY <1>5 DEF Op, T!Pc
  <2> HIDE DEF n
  <2>2. UNCHANGED <<links, stale>> /\ x.pc = "find"
    BY <1>1, <1>5 DEF T!FindLink
  <2>3. ASSUME n.alone, n.user # None  PROVE Resolving(n)'
    BY <1>2, <2>1, <2>2, <2>3 DEF Solo, Resolving, Got, T!Live, T!Exists, T!Selected, T!LinksOf
  <2>4. Solo(n)'
    BY <2>1, <2>3 DEF Solo
  <2>5. command[q].pc # "idle" /\ n.alone = command[q].alone
    BY <1>1, <1>2, <2>1
  <2> QED  BY <2>1, <2>4, <2>5, SoloGoes
<1>6. CASE T!Goes(q, T!AfterLink(x)) /\
           (x.user = None \/ (<<x.user, x.row>> \in links' /\ links' = links \cup {<<x.user, x.row>>}
                              /\ stale' = IF <<x.user, x.row>> \in links THEN stale
                                          ELSE stale \cup {x.user}))
  <2> DEFINE n == T!AfterLink(x)
  <2>1. /\ n \in Op /\ n.alone = x.alone /\ n.user = x.user /\ n.before = x.before
        /\ n.beforeStreams = x.beforeStreams /\ n.clean = x.clean
        /\ \/ n.pc = "next" /\ n.chosen = x.chosen \cup {x.row}
           \/ n.pc = "enqueue" /\ n.row = x.row /\ n.chosen = x.chosen
    <3>1. CASE x.fresh
      BY <1>3, <3>1 DEF Op, T!Pc, T!AfterLink
    <3>2. CASE ~ x.fresh
      BY <1>3, <3>2 DEF Op, T!Pc, T!AfterLink, T!Resolved
    <3> QED  BY <3>1, <3>2
  <2>2. T!Goes(q, n)
    BY <1>6
  <2> HIDE DEF n
  <2>3. ASSUME n.alone, n.user # None  PROVE Resolving(n)'
    <3>1. /\ Resolving(x) /\ T!Live(x.row) /\ Got(x) = x.chosen
          /\ links' = links \cup {<<x.user, x.row>>}
          /\ stale' = IF <<x.user, x.row>> \in links THEN stale ELSE stale \cup {x.user}
      BY <1>2, <1>6, <2>1, <2>3 DEF Solo, Resolving, Got
    <3>2. \A r \in Rows : T!Live(r) <=> T!Live(r)'
      BY <1>2 DEF T!Live, T!Exists
    <3>3. T!Selected(n.user)' = T!Selected(x.user) \cup {x.row}
      BY <1>3, <2>1, <3>1, <3>2 DEF T!Selected, T!LinksOf
    <3>4. Got(n) = x.chosen \cup {x.row}
      BY <2>1 DEF Got
    <3>5. T!Selected(n.user)' = n.before \cup Got(n)
      BY <2>1, <3>1, <3>3, <3>4 DEF Resolving
    <3>6. \A r \in n.chosen : T!Live(r)'
      BY <1>3, <2>1, <3>1, <3>2 DEF Resolving
    <3>7. n.clean /\ n.user \in stale' => ~ (Got(n) \subseteq n.before)
      <4>1. CASE <<x.user, x.row>> \in links
        BY <2>1, <3>1, <3>4, <4>1 DEF Resolving
      <4>2. CASE <<x.user, x.row>> \notin links
        <5>1. x.row \notin T!Selected(x.user)
          BY <4>2 DEF T!Selected, T!LinksOf
        <5>2. x.row \notin x.before
          BY <3>1, <5>1 DEF Resolving
        <5> QED  BY <2>1, <3>4, <5>2
      <4> QED  BY <4>1, <4>2
    <3>8. streams'[n.user] = n.beforeStreams
      BY <1>2, <2>1, <3>1 DEF Resolving
    <3>9. n.pc = "enqueue" => T!Live(n.row)'
      BY <1>3, <2>1, <3>1, <3>2
    <3>10. n.pc \in {"next", "enqueue"}
      BY <2>1
    <3>11. Got(n)' = Got(n)
      BY DEF Got
    <3> QED  BY <3>5, <3>6, <3>7, <3>8, <3>9, <3>10, <3>11 DEF Resolving
  <2>4. Solo(n)'
    BY <2>1, <2>3 DEF Solo
  <2>5. command[q].pc # "idle" /\ n.alone = command[q].alone
    BY <1>1, <1>2, <2>1
  <2> QED  BY <2>1, <2>2, <2>4, <2>5, SoloGoes
<1>7. CASE T!FindLink(q)
  BY <1>1, <1>5, <1>6, <1>7 DEF T!FindLink
<1>8. CASE T!InsertLink(q)
  BY <1>1, <1>4, <1>6, <1>8 DEF T!InsertLink
<1> QED  BY <1>7, <1>8

(* The steps that put the selections and the streams in place. *)
LEMMA SoloReplaces ==
  ASSUME Bound, Base, Alone, FoundLink', NEW q \in Requests,
         T!Compare(q) \/ T!RemoveUnselected(q) \/ T!ReadStreams(q) \/ T!ReplaceStreams(q) \/ T!SaveUser(q)
  PROVE  Alone'
<1>1. PICK x \in Op : x = command[q]
  BY DEF Base, Types
<1>2. /\ Solo(x) /\ Holds(x) /\ rows' = rows
      /\ x.pc \in {"next", "remove", "streams", "replace", "save"}
  BY <1>1 DEF Alone, Base, Holding, T!Compare, T!RemoveUnselected, T!ReadStreams, T!ReplaceStreams,
     T!SaveUser
<1>3. \A r \in Rows : T!Live(r) <=> T!Live(r)'
  BY <1>2 DEF T!Live, T!Exists
<1>4. x.chosen \subseteq Rows
  BY <1>2 DEF Holds
<1>5. CASE T!Ends(q)
  BY <1>1, <1>2, <1>5, SoloEnds
<1>6. ASSUME NEW n \in Op, T!Goes(q, n), n.alone = x.alone, n.user = x.user, n.chosen = x.chosen,
             n.pc \in {"remove", "streams", "replace", "save", "invalidate"},
             x.alone /\ x.user # None =>
               /\ n.pc \in {"remove", "streams", "replace"} => Replacing(n)'
               /\ n.pc \in {"save", "invalidate"} => Leaving(n)'
      PROVE  Alone'
  <2>1. Solo(n)'
    BY <1>6 DEF Solo
  <2>2. command[q].pc # "idle" /\ n.alone = command[q].alone
    BY <1>1, <1>2, <1>6
  <2> QED  BY <1>6, <2>1, <2>2, SoloGoes
<1>7. CASE T!Compare(q) /\ x.user # None
  <2>1. /\ x.pc = "next" /\ UNCHANGED <<links, streams, stale>>
        /\ T!Goes(q, [x EXCEPT !.changed = x.before # x.chosen \/ x.beforeStreams # x.wanted,
                             !.pc = IF x.before # x.chosen THEN "remove"
                                    ELSE IF x.beforeStreams # x.wanted THEN "streams" ELSE "save"])
    BY <1>1, <1>7 DEF T!Compare
  <2> DEFINE changed == x.before # x.chosen \/ x.beforeStreams # x.wanted
             pc == IF x.before # x.chosen THEN "remove"
                   ELSE IF x.beforeStreams # x.wanted THEN "streams" ELSE "save"
             n == [x EXCEPT !.changed = changed, !.pc = pc]
  <2>2. T!Goes(q, n) /\ changed \in BOOLEAN /\ pc \in {"remove", "streams", "save"}
    BY <2>1
  <2> HIDE DEF changed, pc
  <2>3. n \in Op
    BY <2>2 DEF Op, T!Pc
  <2>5. /\ n.alone = x.alone /\ n.user = x.user /\ n.before = x.before /\ n.wanted = x.wanted
        /\ n.beforeStreams = x.beforeStreams /\ n.clean = x.clean /\ n.chosen = x.chosen
        /\ n.changed = changed /\ n.pc = pc
    BY DEF Op
  <2> HIDE DEF n
  <2>4. ASSUME x.alone
        PROVE  /\ n.pc \in {"remove", "streams", "replace"} => Replacing(n)'
               /\ n.pc \in {"save", "invalidate"} => Leaving(n)'
    <3>1. Resolving(x) /\ Got(x) = x.chosen
      BY <1>2, <1>7, <2>1, <2>4 DEF Solo, Got
    <3>2. T!Selected(n.user)' = x.before \cup x.chosen
      BY <2>1, <2>5, <1>3, <3>1 DEF Resolving, T!Selected, T!LinksOf
    <3>3. streams'[n.user] = x.beforeStreams
      BY <2>1, <2>5, <3>1 DEF Resolving
    <3>4. \A r \in n.chosen : T!Live(r)'
      BY <1>3, <1>4, <2>5, <3>1 DEF Resolving
    <3>5. CASE n.pc \in {"remove", "streams"}
      <4>1. Replacing(n)'
        BY <2>5, <3>2, <3>3, <3>4, <3>5 DEF Replacing, changed, pc
      <4> QED  BY <3>5, <4>1
    <3>6. CASE n.pc = "save"
      <4>1. x.before = x.chosen /\ x.beforeStreams = x.wanted
        BY <2>5, <3>6 DEF pc
      <4>2. n.clean => n.user \notin stale'
        BY <2>1, <2>5, <3>1, <4>1 DEF Resolving
      <4>3. Leaving(n)'
        BY <2>5, <3>2, <3>3, <4>1, <4>2 DEF Leaving
      <4> QED  BY <3>6, <4>3
    <3> QED  BY <2>2, <2>5, <3>5, <3>6
  <2> QED  BY <1>6, <2>2, <2>3, <2>4, <2>5
<1>8. CASE T!RemoveUnselected(q)
  <2>1. /\ x.pc = "remove" /\ UNCHANGED streams
        /\ links' = {l \in links : l[1] = x.user => l[2] \in x.chosen}
        /\ T!Goes(q, [x EXCEPT !.pc = IF x.beforeStreams # x.wanted THEN "streams" ELSE "save"])
    BY <1>1, <1>8 DEF T!RemoveUnselected
  <2> DEFINE n == [x EXCEPT !.pc = IF x.beforeStreams # x.wanted THEN "streams" ELSE "save"]
  <2>2. T!Goes(q, n)
    BY <2>1
  <2>3. /\ n \in Op /\ n.alone = x.alone /\ n.user = x.user /\ n.wanted = x.wanted
        /\ n.beforeStreams = x.beforeStreams /\ n.chosen = x.chosen /\ n.changed = x.changed
        /\ n.pc = IF x.beforeStreams # x.wanted THEN "streams" ELSE "save"
    BY DEF Op, T!Pc
  <2> HIDE DEF n
  <2>4. ASSUME x.alone, x.user # None
        PROVE  /\ n.pc \in {"remove", "streams", "replace"} => Replacing(n)'
               /\ n.pc \in {"save", "invalidate"} => Leaving(n)'
    <3>1. Replacing(x)
      BY <1>2, <2>1, <2>4 DEF Solo
    <3>2. \A r : <<x.user, r>> \in links' <=> <<x.user, r>> \in links /\ r \in x.chosen
      BY <2>1
    <3>3. T!Selected(n.user)' = x.chosen
      <4>1. T!Selected(n.user)' = T!Selected(x.user) \cap x.chosen
        BY <1>3, <2>3, <3>2 DEF T!Selected, T!LinksOf
      <4> QED  BY <2>1, <3>1, <4>1 DEF Replacing
    <3>4. streams'[n.user] = x.beforeStreams
      BY <2>1, <2>3, <3>1 DEF Replacing
    <3>5. \A r \in n.chosen : T!Live(r)'
      BY <1>3, <1>4, <2>3, <3>1 DEF Replacing
    <3>6. n.pc = "streams" => Replacing(n)'
      BY <2>3, <3>1, <3>3, <3>4, <3>5 DEF Replacing
    <3>7. n.pc = "save" => Leaving(n)'
      BY <2>3, <3>1, <3>3, <3>4 DEF Replacing, Leaving
    <3> QED  BY <2>3, <3>6, <3>7
  <2> QED  BY <1>6, <2>2, <2>3, <2>4
<1>9. CASE T!ReadStreams(q)
  <2>1. /\ x.pc = "streams" /\ UNCHANGED <<links, streams>>
        /\ T!Goes(q, [x EXCEPT !.pc = "replace", !.beforeStreams = streams[x.user]])
    BY <1>1, <1>9 DEF T!ReadStreams
  <2>2. PICK seen \in SUBSET Streams : seen = streams[x.user]
    BY <1>2, <2>1 DEF Holds, Base, Types
  <2> DEFINE n == [x EXCEPT !.pc = "replace", !.beforeStreams = seen]
  <2>3. T!Goes(q, n)
    BY <2>1, <2>2
  <2>4. /\ n \in Op /\ n.alone = x.alone /\ n.user = x.user /\ n.wanted = x.wanted
        /\ n.beforeStreams = seen /\ n.chosen = x.chosen /\ n.changed = x.changed
        /\ n.pc = "replace"
    BY <2>2 DEF Op, T!Pc
  <2> HIDE DEF n
  <2>5. ASSUME x.alone, x.user # None  PROVE Replacing(n)'
    <3>1. Replacing(x)
      BY <1>2, <2>1, <2>5 DEF Solo
    <3>2. T!Selected(n.user)' = T!Selected(x.user)
      BY <1>3, <2>1, <2>4 DEF T!Selected, T!LinksOf
    <3> QED  BY <1>3, <1>4, <2>1, <2>2, <2>4, <3>1, <3>2 DEF Replacing
  <2> QED  BY <1>6, <2>3, <2>4, <2>5
<1>10. CASE T!ReplaceStreams(q) /\ ~ T!Ends(q)
  <2> DEFINE missing == x.wanted \ x.beforeStreams
  <2>1. /\ x.pc = "replace" /\ links' = links /\ missing \cap streams[x.user] = {}
        /\ streams' = [streams EXCEPT ![x.user] = (@ \ (x.beforeStreams \ x.wanted)) \cup missing]
        /\ T!Goes(q, [x EXCEPT !.pc = "save"])
    BY <1>1, <1>10 DEF T!ReplaceStreams
  <2> DEFINE n == [x EXCEPT !.pc = "save"]
  <2>2. T!Goes(q, n)
    BY <2>1
  <2>3. /\ n \in Op /\ n.alone = x.alone /\ n.user = x.user /\ n.wanted = x.wanted
        /\ n.chosen = x.chosen /\ n.changed = x.changed /\ n.pc = "save"
    BY DEF Op, T!Pc
  <2> HIDE DEF n
  <2>4. ASSUME x.alone, x.user # None  PROVE Leaving(n)'
    <3>1. Replacing(x)
      BY <1>2, <2>1, <2>4 DEF Solo
    <3>2. T!Selected(n.user)' = T!Selected(x.user)
      BY <1>3, <2>1, <2>3 DEF T!Selected, T!LinksOf
    <3>3. streams[x.user] = x.beforeStreams
      BY <3>1 DEF Replacing
    <3>4. streams'[x.user] = (streams[x.user] \ (x.beforeStreams \ x.wanted)) \cup missing
      BY <1>2, <2>1 DEF Holds, Base, Types
    <3>5. streams'[x.user] = x.wanted
      BY <3>3, <3>4
    <3> QED  BY <2>1, <2>3, <3>1, <3>2, <3>5 DEF Replacing, Leaving
  <2> QED  BY <1>6, <2>2, <2>3, <2>4
<1>11. CASE T!SaveUser(q) /\ ~ T!Ends(q)
  <2>1. /\ x.pc = "save" /\ UNCHANGED <<links, streams, stale>>
        /\ T!Goes(q, [x EXCEPT !.pc = "invalidate"])
    BY <1>1, <1>11 DEF T!SaveUser
  <2> DEFINE n == [x EXCEPT !.pc = "invalidate"]
  <2>2. T!Goes(q, n)
    BY <2>1
  <2>3. /\ n \in Op /\ n.alone = x.alone /\ n.user = x.user /\ n.wanted = x.wanted
        /\ n.chosen = x.chosen /\ n.changed = x.changed /\ n.clean = x.clean /\ n.pc = "invalidate"
    BY DEF Op, T!Pc
  <2> HIDE DEF n
  <2>4. ASSUME x.alone, x.user # None  PROVE Leaving(n)'
    <3>1. Leaving(x)
      BY <1>2, <2>1, <2>4 DEF Solo
    <3>2. T!Selected(n.user)' = T!Selected(x.user)
      BY <1>3, <2>1, <2>3 DEF T!Selected, T!LinksOf
    <3> QED  BY <2>1, <2>3, <3>1, <3>2 DEF Leaving
  <2> QED  BY <1>6, <2>2, <2>3, <2>4
<1>12. T!Compare(q) /\ x.user = None => T!Ends(q)
  BY <1>1 DEF T!Compare
<1> QED  BY <1>5, <1>7, <1>8, <1>9, <1>10, <1>11, <1>12

LEMMA SoloStarts ==
  ASSUME Bound, Base, Alone, FoundLink', NEW q \in Requests,
         T!StartOnboarding(q) \/ T!StartCreation(q) \/ T!StartMerge(q) \/ T!StartUpdate(q)
  PROVE  Alone'
<1>1. CASE T!StartOnboarding(q)
  <2>1. PICK u \in Newcomers, todo \in SUBSET T!Keys \ {{}}, wanted \in SUBSET Streams \ {{}} :
          T!Starts(q, [T!NoOp EXCEPT !.pc = "next", !.user = u, !.todo = todo, !.wanted = wanted,
                                 !.before = T!Selected(u), !.beforeStreams = streams[u],
                                 !.clean = u \notin stale])
    BY <1>1 DEF T!StartOnboarding
  <2> DEFINE o == [T!NoOp EXCEPT !.pc = "next", !.user = u, !.todo = todo, !.wanted = wanted,
                               !.before = T!Selected(u), !.beforeStreams = streams[u],
                               !.clean = u \notin stale]
  <2>2. T!Selected(u) \in SUBSET Rows /\ streams[u] \in SUBSET Streams /\ (u \notin stale) \in BOOLEAN
    BY DEF Base, Types, T!Selected, T!LinksOf
  <2>3. /\ o \in Op /\ o.pc = "next" /\ o.chosen = {} /\ o.user = u /\ o.before = T!Selected(u)
        /\ o.beforeStreams = streams[u] /\ (o.clean <=> u \notin stale)
    BY <2>2, Records DEF Op, T!Pc
  <2>4. T!Starts(q, o) /\ UNCHANGED <<rows, links, streams, stale>>
    BY <1>1, <2>1 DEF T!StartOnboarding
  <2> HIDE DEF o
  <2>5. Resolving(o)
    BY <2>3 DEF Resolving, Got
  <2> QED  BY <2>3, <2>4, <2>5, SoloArrives
<1>2. ASSUME NEW o \in Op, o.user = None, T!Starts(q, o), UNCHANGED <<rows, links, streams, stale>>
      PROVE  Alone'
  BY <1>2, SoloArrives
<1>3. CASE T!StartCreation(q)
  <2>1. PICK k \in T!Keys : T!Starts(q, [T!NoOp EXCEPT !.pc = "next", !.todo = {k}])
    BY <1>3 DEF T!StartCreation
  <2> DEFINE o == [T!NoOp EXCEPT !.pc = "next", !.todo = {k}]
  <2>2. o \in Op /\ o.user = None
    BY Records DEF Op, T!Pc
  <2>3. T!Starts(q, o) /\ UNCHANGED <<rows, links, streams, stale>>
    BY <1>3, <2>1 DEF T!StartCreation
  <2> HIDE DEF o
  <2> QED  BY <1>2, <2>2, <2>3
<1>4. CASE T!StartMerge(q)
  <2>1. PICK winner \in Rows, loser \in Rows :
          /\ winner # loser /\ T!Live(winner) /\ T!Live(loser)
          /\ T!Starts(q, [T!NoOp EXCEPT !.pc = "merge", !.row = winner, !.copy = rows[winner],
                                    !.other = loser, !.otherCopy = rows[loser],
                                    !.chosen = {u \in Newcomers : <<u, loser>> \in links}])
    BY <1>4 DEF T!StartMerge
  <2> DEFINE o == [T!NoOp EXCEPT !.pc = "merge", !.row = winner, !.copy = rows[winner],
                               !.other = loser, !.otherCopy = rows[loser],
                               !.chosen = {u \in Newcomers : <<u, loser>> \in links}]
  <2>2. rows[winner] \in T!Row /\ rows[loser] \in T!Row
    BY <2>1, RowTyped DEF Base, T!Live
  <2>3. {u \in Newcomers : <<u, loser>> \in links} \in SUBSET (Newcomers \cup Rows)
    OBVIOUS
  <2>4. o \in Op /\ o.user = None
    BY <2>2, <2>3, Records DEF Op, T!Pc
  <2>5. T!Starts(q, o) /\ UNCHANGED <<rows, links, streams, stale>>
    BY <1>4, <2>1 DEF T!StartMerge
  <2> HIDE DEF o
  <2> QED  BY <1>2, <2>4, <2>5
<1>5. CASE T!StartUpdate(q)
  <2>1. PICK r \in Rows, name \in Names, aliases \in SUBSET Names :
          /\ T!Live(r)
          /\ T!Starts(q, [T!NoOp EXCEPT !.pc = "update", !.row = r, !.copy = rows[r],
                                    !.otherCopy = [rows[r] EXCEPT !.name = name, !.aliases = aliases]])
    BY <1>5 DEF T!StartUpdate
  <2> DEFINE copy == [rows[r] EXCEPT !.name = name, !.aliases = aliases]
             o == [T!NoOp EXCEPT !.pc = "update", !.row = r, !.copy = rows[r], !.otherCopy = copy]
  <2>2. rows[r] \in T!Row
    BY <2>1, RowTyped DEF Base, T!Live
  <2>3. copy \in T!Row
    BY <2>2 DEF T!Row
  <2>4. T!Starts(q, o) /\ UNCHANGED <<rows, links, streams, stale>>
    BY <1>5, <2>1 DEF T!StartUpdate
  <2> HIDE DEF copy
  <2>5. o \in Op /\ o.user = None
    BY <2>2, <2>3, Records DEF Op, T!Pc
  <2> HIDE DEF o
  <2> QED  BY <1>2, <2>4, <2>5
<1> QED  BY <1>1, <1>3, <1>4, <1>5

LEMMA AloneStep == Bound /\ Base /\ Alone /\ [T!Next]_(T!vars) => Alone'
<1> SUFFICES ASSUME Bound, Base, Alone, [T!Next]_(T!vars)  PROVE Alone'
  OBVIOUS
<1>0. FoundLink
  BY DEF Alone
<1>1. FoundLink /\ FoundLink'
  BY <1>0, LinkedStep
<1>2. CASE UNCHANGED <<rows, links, streams, command, stale>>
  BY <1>2 DEF Alone, FoundLink, Solo, Resolving, Replacing, Leaving, Got, T!Selected, T!LinksOf,
     T!Live, T!Exists
<1>3. ASSUME NEW q \in Requests, T!Onboard(q) \/ T!Administer(q) \/ T!Fails(q)
      PROVE  Alone'
  <2>1. CASE T!Fails(q) \/ T!CommitMerge(q) \/ T!CommitUpdate(q) \/ T!Invalidate(q)
    <3>1. T!Ends(q) /\ command[q].pc # "idle"
      BY <2>1 DEF T!Fails, T!CommitMerge, T!CommitUpdate, T!Invalidate
    <3> QED  BY <1>1, <3>1, SoloEnds
  <2> QED  BY <1>1, <1>3, <2>1, SoloStarts, SoloResolves, SoloLearns, SoloInserts, SoloLinks,
              SoloReplaces
           DEF T!Onboard, T!Administer
<1> QED  BY <1>2, <1>3 DEF T!Next, T!vars, T!Expire

LEMMA AloneIsExact == Bound /\ Base /\ Alone => T!SoloOnboardingIsExact
<1> SUFFICES ASSUME Bound, Base, Alone, NEW q \in Requests, command[q].alone, command[q].pc \in {"save", "invalidate"}
             PROVE  Leaving(command[q])
  BY DEF T!SoloOnboardingIsExact, Leaving
<1>1. command[q].user # None
  BY DEF Bound, Base, Holding, Holds
<1> QED  BY <1>1 DEF Alone, Solo

-----------------------------------------------------------------------------
(***************************************************************************)
(* The inductive invariant, and the theorems.                              *)
(***************************************************************************)
IInv == Base /\ Metered /\ Paid /\ Succeeded /\ Alone

LEMMA IInvInit == Bound /\ T!Init => IInv
<1> SUFFICES ASSUME Bound, T!Init  PROVE IInv
  OBVIOUS
<1>1. Base
  BY BaseInit
<1>2. command = [q \in Requests |-> T!NoOp] /\ T!NoOp.pc = "idle" /\ T!NoOp.user = None
  BY Records DEF T!Init
<1>3. PICK known \in Catalogs :
        rows = [r \in Rows |-> IF r \notin DOMAIN known THEN T!NoRow
                               ELSE [T!NoRow EXCEPT !.kind = known[r][1], !.name = known[r][2]]]
  BY DEF T!Init
<1>4. \A r \in Rows : rows[r].creator = None /\ ~ rows[r].deleted
  BY <1>3 DEF T!NoRow
<1>5. Metered
  <2>1. ASSUME NEW u \in Newcomers  PROVE Cardinality(T!Recent(u)) <= Limit
    <3>1. T!Recent(u) = {}
      BY DEF T!Init, T!Recent
    <3> QED  BY <3>1, FS_EmptySet DEF Bound
  <2> QED  BY <1>2, <2>1 DEF Metered
<1>6. Paid
  BY <1>2, <1>4 DEF Paid, T!CreationsArePaid
<1>7. Succeeded
  BY <1>4 DEF Succeeded
<1>8. Alone
  BY <1>2 DEF Alone, FoundLink, Solo, T!Init
<1> QED  BY <1>1, <1>5, <1>6, <1>7, <1>8 DEF IInv

LEMMA IInvStep == Bound /\ IInv /\ [T!Next]_(T!vars) => IInv'
  BY BaseStep, MeteredStep, PaidStep, HeirsStep, AloneStep DEF IInv

(* Rows that were created under a record and still have its name are no more *)
(* than the records: their names are unique.                                 *)
LEMMA ChargedAtMostRecent ==
  ASSUME Bound, Base, Metered, NEW u \in Newcomers
  PROVE  T!Cardinality(T!Charged(u)) <= Limit
<1> DEFINE f == [r \in T!Charged(u) |-> rows[r].creator.key]
<1>1. ASSUME NEW r \in T!Charged(u)
      PROVE  /\ r \in Rows /\ T!Exists(r) /\ rows[r].creator.key \in T!Recent(u)
             /\ rows[r].creator.key = Key(rows[r])
  BY Records DEF T!Charged, T!Exists, Key
<1>2. f \in Injection(T!Charged(u), T!Recent(u))
  <2>1. f \in [T!Charged(u) -> T!Recent(u)]
    BY <1>1
  <2>2. ASSUME NEW r \in T!Charged(u), NEW s \in T!Charged(u), f[r] = f[s]  PROVE r = s
    <3>1. Key(rows[r]) = Key(rows[s])
      BY <1>1, <2>2
    <3> QED  BY <1>1, <3>1 DEF Base, UniqueKeys
  <2> QED  BY <2>1, <2>2 DEF Injection, IsInjective
<1>3. IsFiniteSet(T!Recent(u)) /\ Cardinality(T!Recent(u)) <= Limit
  BY RecentFinite DEF Metered
<1>4. IsFiniteSet(T!Charged(u)) /\ Cardinality(T!Charged(u)) <= Cardinality(T!Recent(u))
  BY <1>2, <1>3, FS_Injection
<1>5. Cardinality(T!Charged(u)) \in Nat /\ Cardinality(T!Recent(u)) \in Nat /\ Limit \in Nat
  BY <1>3, <1>4, FS_CardinalityType DEF Bound
<1> QED  BY <1>3, <1>4, <1>5, SameCardinality

LEMMA IInvImplies ==
  Bound /\ IInv => /\ T!TypeOK /\ T!QuotaIsKept /\ T!CreationsArePaid /\ T!NamesKeepResolving
                   /\ T!SoloOnboardingIsExact
<1> SUFFICES ASSUME Bound, IInv
             PROVE  /\ T!TypeOK /\ T!QuotaIsKept /\ T!CreationsArePaid /\ T!NamesKeepResolving
                    /\ T!SoloOnboardingIsExact
  OBVIOUS
<1>1. T!TypeOK
  <2>1. \A q \in Requests : command[q].pc \in T!Pc
    BY DEF IInv, Base, Types, Op
  <2>2. ASSUME NEW r \in Rows, NEW s \in Rows, T!Exists(r), rows[r].kind = rows[s].kind,
               rows[r].name = rows[s].name
        PROVE  r = s
    <3>1. rows[r].kind \in RowKinds
      BY <2>2, RowTyped DEF IInv, Base, T!Row
    <3>2. T!Exists(s)
      BY <2>2, <3>1, Records DEF T!Exists, Bound
    <3> QED  BY <2>2, <3>2 DEF IInv, Base, UniqueKeys, Key
  <2> QED  BY <2>1, <2>2 DEF IInv, Base, Types, T!TypeOK, T!Record
<1>2. T!QuotaIsKept
  BY ChargedAtMostRecent DEF IInv, T!QuotaIsKept
<1>3. T!CreationsArePaid
  BY DEF IInv, Paid
<1>4. T!NamesKeepResolving
  BY HeirsResolve DEF IInv
<1>5. T!SoloOnboardingIsExact
  BY AloneIsExact DEF IInv
<1> QED  BY <1>1, <1>2, <1>3, <1>4, <1>5

(* Each step keeps the invariant, so every state of the catalog has it. *)
THEOREM CatalogInvariant == Bound => (T!Spec => []IInv)
<1> SUFFICES ASSUME Bound  PROVE T!Spec => []IInv
  OBVIOUS
<1>1. T!Init => IInv
  BY IInvInit
<1>2. IInv /\ [T!Next]_(T!vars) => IInv'
  BY IInvStep
<1> QED  BY <1>1, <1>2, PTL DEF T!Spec

(* Rows, links, quotas and requests have their types, and a name is one row's. *)
THEOREM CatalogTypes == Bound => (T!Spec => []T!TypeOK)
<1> SUFFICES ASSUME Bound  PROVE T!Spec => []T!TypeOK
  OBVIOUS
<1>1. IInv => T!TypeOK
  BY IInvImplies
<1> QED  BY <1>1, CatalogInvariant, PTL

-----------------------------------------------------------------------------
(***************************************************************************)
(* MCReader's composition: what the reader_components run checks.          *)
(***************************************************************************)
CatalogInv == Runs("catalog") => IInv

LEMMA CatalogInvStep == Bound /\ CatalogInv /\ [SumNext]_SumVars => CatalogInv'
<1> SUFFICES ASSUME Bound, CatalogInv, [SumNext]_SumVars, Runs("catalog")'  PROVE IInv'
  BY DEF CatalogInv
<1>1. Runs("catalog")
  BY DEF SumNext, SumVars, Runs
<1>2. [T!Next]_(T!vars)
  BY <1>1 DEF SumNext, SumVars, catalogVars, T!vars, Runs
<1> QED  BY <1>1, <1>2, IInvStep DEF CatalogInv

(* Under concurrent onboardings, creations, merges and updates: the quota    *)
(* records of the last 24 hours carry at most DISCOVERY_LIMIT of a user's    *)
(* creations that still have their names; a user's request inserts a row     *)
(* only where the user has a record of that very kind and name, of whatever  *)
(* age; names of merged rows keep resolving; and an onboarding that nobody   *)
(* runs beside leaves exactly its selections and streams.                    *)
THEOREM CatalogAlwaysHolds == Bound => (SumSpec => []CatalogHolds)
<1> SUFFICES ASSUME Bound  PROVE SumSpec => []CatalogHolds
  OBVIOUS
<1>1. SumInit => CatalogInv
  BY IInvInit DEF SumInit, CatalogInv, Runs
<1>2. CatalogInv /\ [SumNext]_SumVars => CatalogInv'
  BY CatalogInvStep
<1>3. CatalogInv => CatalogHolds
  BY IInvImplies DEF CatalogInv, CatalogHolds
<1> QED  BY <1>1, <1>2, <1>3, PTL DEF SumSpec

=============================================================================
