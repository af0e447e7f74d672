--------------------------- MODULE PersonalLinks ---------------------------
(***************************************************************************)
(* The permanent links and e-mail actions of one user in one context.      *)
(* The digest builder, the stream pages of a digest and the feed look up   *)
(* what exists and create the rest, at the same time and for article lists *)
(* that overlap; a unique key per article (and action) refuses duplicates. *)
(* Links and actions are two tables that are filled side by side.          *)
(***************************************************************************)
EXTENDS Naturals, FiniteSets

CONSTANTS
  Articles,
  Types,     \* PermanentArticleActionType
  Generators \* calls of findOrCreateLinksBatch and findOrCreateBatch

VARIABLES
  row,  \* for each table, the identifier of each key that has a row
  call  \* the calls

vars == <<row, call>>

Tables  == {"links", "actions"}
Keys(t, articles) == IF t = "links" THEN articles \X {"link"} ELSE articles \X Types

(* found: the result so far; missing: the keys to create one by one;         *)
(* unlucky: a statement of the call has failed; raced: the keys of the call  *)
(* that another call has created since its first look.                       *)
Idle == [pc |-> "idle", table |-> "links", articles |-> {}, found |-> << >>, missing |-> {},
         unlucky |-> FALSE, raced |-> {}]
Pc   == {"idle", "find", "save", "refetch", "one", "saveOne", "lookAgain", "done", "thrown"}

TypeOK ==
  /\ \A t \in Tables : DOMAIN row[t] \subseteq Keys(t, Articles)
  /\ \A g \in Generators :
       /\ call[g].pc \in Pc
       /\ call[g].table \in Tables
       /\ call[g].articles \subseteq Articles
       /\ DOMAIN call[g].found \subseteq Keys(call[g].table, call[g].articles)

Init ==
  /\ row = [t \in Tables |-> << >>]
  /\ call = [g \in Generators |-> Idle]

-----------------------------------------------------------------------------
Wanted(g) == Keys(call[g].table, call[g].articles)
Row(g)    == row[call[g].table]
Lacks(g)  == Wanted(g) \ DOMAIN call[g].found

(* The rows with the given keys, added to what the call knows. *)
Look(g, keys) ==
  [k \in DOMAIN call[g].found \cup (keys \cap DOMAIN Row(g)) |->
     IF k \in DOMAIN call[g].found THEN call[g].found[k] ELSE Row(g)[k]]

Become(g, new) == call' = [call EXCEPT ![g] = new]

(* One transaction inserts all the rows or, if a key exists, none. *)
InsertRows(g, keys) ==
  row' = [row EXCEPT ![call[g].table] =
           [k \in DOMAIN @ \cup keys |-> IF k \in DOMAIN @ THEN @[k] ELSE <<g, k>>]]

Refused(g, keys) == keys \cap DOMAIN Row(g) # {}

(* Others have lost their race for the rows that g has just created. *)
Created(g, keys, new) ==
  call' = [h \in Generators |->
            IF h = g THEN new
            ELSE IF call[h].table = call[g].table /\ call[h].pc # "idle"
                 THEN [call[h] EXCEPT !.raced = @ \cup (keys \cap Wanted(h))]
            ELSE call[h]]

-----------------------------------------------------------------------------
Ask(g) ==
  /\ call[g].pc = "idle"
  /\ \E t \in Tables, articles \in SUBSET Articles \ {{}} :
       Become(g, [Idle EXCEPT !.pc = "find", !.table = t, !.articles = articles])
  /\ UNCHANGED row

Find(g) ==
  LET found == Look(g, Wanted(g)) IN
  /\ call[g].pc = "find"
  /\ Become(g, [call[g] EXCEPT !.found = found,
                               !.pc = IF Wanted(g) = DOMAIN found THEN "done" ELSE "save"])
  /\ UNCHANGED row

SavedPc(g) == IF call[g].table = "links" THEN "done" ELSE "refetch"

SaveBatch(g) ==
  /\ call[g].pc = "save"
  /\ ~ Refused(g, Lacks(g))
  /\ InsertRows(g, Lacks(g))
  /\ Created(g, Lacks(g), [call[g] EXCEPT !.pc = SavedPc(g),
       !.found = IF call[g].table = "actions" THEN @
                 ELSE [k \in Wanted(g) |-> IF k \in DOMAIN @ THEN @[k] ELSE <<g, k>>]])

(* The unique key, or a fault, makes the batch fail; both callers catch it. *)
BatchFails(g) ==
  /\ call[g].pc = "save"
  /\ \E fault \in BOOLEAN :
       /\ fault \/ Refused(g, Lacks(g))
       /\ Become(g, [call[g] EXCEPT !.pc = "refetch", !.unlucky = @ \/ fault])
  /\ UNCHANGED row

(* Links that are still missing are created one by one; findOrCreateBatch    *)
(* returns what there is.                                                    *)
Refetch(g) ==
  LET found == Look(g, Lacks(g))
      missing == Wanted(g) \ DOMAIN found IN
  /\ call[g].pc = "refetch"
  /\ Become(g, [call[g] EXCEPT !.found = found, !.missing = missing,
       !.pc = IF call[g].table = "links" /\ missing # {} THEN "one" ELSE "done"])
  /\ UNCHANGED row

(* findOrCreateLink for the next missing article. *)
Next1(g) == CHOOSE k \in call[g].missing : TRUE

Settled(g, found) ==
  LET missing == call[g].missing \ DOMAIN found IN
  [call[g] EXCEPT !.found = found, !.missing = missing,
                  !.pc = IF missing = {} THEN "done" ELSE "one"]

FindOne(g) ==
  LET found == Look(g, {Next1(g)}) IN
  /\ call[g].pc = "one"
  /\ Become(g, IF Next1(g) \in DOMAIN found THEN Settled(g, found)
               ELSE [call[g] EXCEPT !.pc = "saveOne"])
  /\ UNCHANGED row

SaveOne(g) ==
  LET k == Next1(g) IN
  /\ call[g].pc = "saveOne"
  /\ ~ Refused(g, {k})
  /\ InsertRows(g, {k})
  /\ Created(g, {k}, Settled(g, [j \in DOMAIN call[g].found \cup {k} |->
                                   IF j = k THEN <<g, k>> ELSE call[g].found[j]]))

OneFails(g) ==
  /\ call[g].pc = "saveOne"
  /\ \E fault \in BOOLEAN :
       /\ fault \/ Refused(g, {Next1(g)})
       /\ Become(g, [call[g] EXCEPT !.pc = "lookAgain", !.unlucky = @ \/ fault])
  /\ UNCHANGED row

(* Mutant: the error of the unique key is not recovered from. *)
ThrowsAtOnce(g) ==
  /\ call[g].pc = "lookAgain"
  /\ Become(g, [call[g] EXCEPT !.pc = "thrown"])
  /\ UNCHANGED row

(* The row that a concurrent call created, or the error is thrown on. *)
LookAgain(g) ==
  LET found == Look(g, {Next1(g)}) IN
  /\ call[g].pc = "lookAgain"
  /\ Become(g, IF Next1(g) \in DOMAIN found THEN Settled(g, found)
               ELSE [call[g] EXCEPT !.pc = "thrown"])
  /\ UNCHANGED row

Next ==
  \E g \in Generators :
    \/ Ask(g) \/ Find(g) \/ SaveBatch(g) \/ BatchFails(g) \/ Refetch(g)
    \/ FindOne(g) \/ SaveOne(g) \/ OneFails(g) \/ LookAgain(g)

Spec == Init /\ [][Next]_vars

-----------------------------------------------------------------------------
(***************************************************************************)
(* Properties.                                                             *)
(***************************************************************************)

(* "return a complete article map": whatever other calls create meanwhile,   *)
(* a call that returns has the one link of every article it asked for.       *)
LinksAreComplete ==
  \A g \in Generators :
    call[g].pc = "done" /\ call[g].table = "links" =>
      call[g].found = [k \in Wanted(g) |-> row["links"][k]]

(* A concurrent call never makes a call fail, only a fault does. *)
ThrownOnlyOnFault ==
  \A g \in Generators : call[g].pc = "thrown" => call[g].unlucky

(* "a concurrent generator may have created the same permanent rows": an     *)
(* e-mail lacks an action only if a statement failed or another call created *)
(* some, but not all, of the rows that the call was about to create.         *)
ActionsLackedAfterRace ==
  \A g \in Generators :
    call[g].pc = "done" /\ call[g].table = "actions" /\ Lacks(g) # {} =>
      call[g].unlucky \/ call[g].raced # {}

(* The catch of findOrCreateBatch takes every error for that case: what a    *)
(* concurrent call created is then complete.                                 *)
ActionsAreComplete ==
  \A g \in Generators :
    call[g].pc = "done" /\ call[g].table = "actions" /\ ~ call[g].unlucky => Lacks(g) = {}
=============================================================================
