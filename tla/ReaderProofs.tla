---------------------------- MODULE ReaderProofs ----------------------------
(***************************************************************************)
(* What MCReader's components keep, for any users, articles, contexts,     *)
(* requests and tokens, zones of whole hours and selections.  Actions (A)  *)
(* and links (P): locks are taken in one order and under them each         *)
(* transaction knows the rows and counters it changes.  Accounts (U): a    *)
(* login goes on by one refresh token and progress is kept.  Days (D): a   *)
(* page of local days reads these days.  Scores (S): no interaction,       *)
(* selection or hour moves one the wrong way.                              *)
(***************************************************************************)
EXTENDS MCReader, FiniteSetTheorems, WellFoundedInduction, TLAPS

-----------------------------------------------------------------------------
(***************************************************************************)
(* The inductive invariant.                                                *)
(***************************************************************************)

(* The rows that transactions lock, and requests in full. *)
OwnRows == {<<t, p>> : t \in {"feedback", "opening", "saved"}, p \in Users \X Stories}
LinkRows == {<<"link", p, c>> : p \in Users \X Stories, c \in Contexts}
ArticleRows == {<<"article", a>> : a \in Stories}
PreferenceRows == {<<"preference", u>> : u \in Users}
Locks == [object : OwnRows \cup LinkRows \cup ArticleRows \cup PreferenceRows \cup {<<"source">>},
          mode : {"update", "key"}]

InProgress ==
  [pc : A!Pc, kind : A!Kinds \cup {"none"}, user : Users \cup {"none"},
   article : Stories \cup {"none"}, context : Contexts \cup {"none"},
   before : A!Types \cup {"none"}, mine : A!Counts, global : A!Counts,
   applies : SUBSET (A!Signals \cup A!Kinds), holds : SUBSET Locks]

TableTypes ==
  /\ \A p \in DOMAIN feedback : p \in Users \X Stories /\ feedback[p] \in A!Types
  /\ saved \subseteq Users \X Stories
  /\ opening \subseteq Users \X Stories
  /\ link \in [Users \X Stories \X Contexts -> BOOLEAN]
  /\ tracked \in [Stories -> Nat]
  /\ DOMAIN preference \subseteq Users
  /\ \A u \in DOMAIN preference : preference[u] \in A!Counts
  /\ source \in A!Counts
  /\ removed \in BOOLEAN
  /\ save \in [Operators -> A!Save]
  /\ uncounted \subseteq A!Signals

RequestTypes == request \in [Requests -> InProgress]

(* A request that has begun is about something. *)
Asks(r) ==
  request[r].pc # "idle" =>
    /\ request[r].kind \in A!Kinds
    /\ request[r].user \in Users
    /\ request[r].article \in Stories
    /\ request[r].kind = "open" => request[r].context \in Contexts
    /\ request[r].pc = "insert" => request[r].kind # "unsave"

(* It has looked for its row; it has that row under lock; it knows counters. *)
Locked(r)  == request[r].pc \in {"article", "preference", "create", "source", "again", "commit"}
Counting(r) == request[r].pc \in {"source", "again", "commit"}

(* Locks are taken in the order of their ranks. *)
Rank(l) ==
  CASE l.object[1] = "link"       -> 1
    [] l.object[1] = "article"    -> 3
    [] l.object[1] = "preference" -> 4
    [] l.object[1] = "source"     -> 5
    [] OTHER                      -> 2
Below(pc) ==
  CASE pc \in {"idle", "find"}          -> 0
    [] pc = "insert"                    -> 1
    [] pc = "article"                   -> 2
    [] pc \in {"preference", "create"}  -> 3
    [] OTHER                            -> 5

LocksInOrder(r) ==
  /\ \A l \in request[r].holds : Rank(l) <= Below(request[r].pc)
  /\ request[r].pc \in {"source", "again"} =>
       \A l \in request[r].holds : Rank(l) = 5 => l = A!SourceRow("key")

LocksExclude ==
  \A r, q \in Requests : r # q =>
    \A l \in request[r].holds, m \in request[q].holds : ~ A!Conflict(l, m)

(* Before its row is locked, no feedback is to be replaced; from then on the *)
(* row is there, as it was read, or not there.  An opening may be there or   *)
(* not, but the link that is followed is locked and was not yet opened.      *)
Unopened(u, a, c) == ~ link[<<u, a, c>>]

KnowsRow(r) ==
  /\ ~ Locked(r) => request[r].before = "none"
  /\ request[r].before # "none" =>
       request[r].kind \in A!Types /\ feedback[A!Pair(r)] = request[r].before
  /\ Locked(r) /\ request[r].kind # "open" =>
       /\ A!OwnRow(r) \in request[r].holds
       /\ A!Exists(r) <=> request[r].kind = "unsave" \/ request[r].before # "none"
  /\ request[r].kind = "open" /\ request[r].pc \notin {"idle", "find"} =>
       /\ A!LinkRow(r) \in request[r].holds
       /\ Unopened(request[r].user, request[r].article, request[r].context)

CountsOf(u) == IF u \in DOMAIN preference THEN preference[u] ELSE A!Zero

KnowsCounters(r) ==
  /\ ~ Counting(r) => request[r].mine = A!Zero
  /\ Counting(r) =>
       /\ A!MyPreference(r) \in request[r].holds
       /\ request[r].mine = CountsOf(request[r].user)

(* Rows are finitely many. *)
Finite ==
  /\ IsFiniteSet(DOMAIN feedback)
  /\ IsFiniteSet(saved)
  /\ IsFiniteSet(A!Opened)

LockInv ==
  /\ LocksExclude
  /\ \A r \in Requests : Asks(r) /\ LocksInOrder(r)

RowInv == \A r \in Requests : KnowsRow(r) /\ KnowsCounters(r)
SumInv == Finite /\ A!PreferenceCountsRows /\ A!OpensAreTracked

IInv == TableTypes /\ RequestTypes /\ LockInv /\ RowInv /\ SumInv
-----------------------------------------------------------------------------
(***************************************************************************)
(* Locks.                                                                  *)
(***************************************************************************)

(* What the next statement locks comes after everything that is locked, but  *)
(* for the source, which may be locked already for a foreign key.            *)
LEMMA WantsNext ==
  ASSUME NEW r \in Requests, RequestTypes, Asks(r)
  PROVE  /\ A!Wants(r) \subseteq Locks
         /\ \A l \in A!Wants(r) :
              \/ Below(request[r].pc) < Rank(l)
              \/ (request[r].pc \in {"source", "again"} /\ l = A!SourceRow("update"))
         /\ A!Wants(r) # {} => request[r].pc \notin {"idle", "commit"}
<1> DEFINE p == request[r]
<1>1. /\ p.pc \in A!Pc /\ p.kind \in A!Kinds \cup {"none"}
      /\ p.pc # "idle" => p.kind \in A!Kinds /\ p.user \in Users /\ p.article \in Stories
                         /\ (p.kind = "open" => p.context \in Contexts)
  BY DEF RequestTypes, InProgress, Asks
<1>2. \A l \in A!Wants(r) :
        \/ p.pc = "find" /\ p.kind = "open" /\ l = A!LinkRow(r)
        \/ p.pc = "find" /\ p.kind # "open" /\ l = A!OwnRow(r)
        \/ p.pc = "insert" /\ l = A!OwnRow(r)
        \/ p.pc = "article" /\ l = A!ArticleRow(r)
        \/ p.pc = "preference" /\ l = A!MyPreference(r)
        \/ p.pc = "create" /\ l \in {A!MyPreference(r), A!SourceRow("key")}
        \/ p.pc \in {"source", "again"} /\ l = A!SourceRow("update")
  <2>1. CASE p.pc = "find"
    <3>1. CASE p.kind = "open"
      BY <2>1, <3>1 DEF A!Wants
    <3>2. CASE p.kind # "open" /\ p.kind # "save" /\ A!Exists(r)
      BY <2>1, <3>2 DEF A!Wants
    <3>3. CASE p.kind = "save" \/ (p.kind # "open" /\ ~ A!Exists(r))
      BY <2>1, <3>3 DEF A!Wants
    <3> QED  BY <2>1, <3>1, <3>2, <3>3
  <2>2. CASE p.pc = "insert"
    BY <2>2 DEF A!Wants
  <2>3. CASE p.pc = "article"
    BY <2>3 DEF A!Wants
  <2>4. CASE p.pc = "preference"
    BY <2>4 DEF A!Wants
  <2>5. CASE p.pc = "create"
    BY <2>5 DEF A!Wants
  <2>6. CASE p.pc \in {"source", "again"}
    BY <2>6 DEF A!Wants
  <2>7. CASE p.pc \in {"idle", "commit"}
    BY <2>7 DEF A!Wants
  <2> QED  BY <1>1, <2>1, <2>2, <2>3, <2>4, <2>5, <2>6, <2>7 DEF A!Pc
<1>3. p.pc # "idle" => /\ A!OwnRow(r) \in Locks /\ Rank(A!OwnRow(r)) = 2
                       /\ A!ArticleRow(r) \in Locks /\ Rank(A!ArticleRow(r)) = 3
                       /\ A!MyPreference(r) \in Locks /\ Rank(A!MyPreference(r)) = 4
  BY <1>1 DEF Locks, OwnRows, ArticleRows, PreferenceRows, A!OwnRow, A!ArticleRow, A!MyPreference,
     A!Lock, Rank, A!Table, A!Pair, A!Kinds, A!Types
<1>4. p.pc # "idle" /\ p.kind = "open" => A!LinkRow(r) \in Locks /\ Rank(A!LinkRow(r)) = 1
  BY <1>1 DEF Locks, LinkRows, A!LinkRow, A!Lock, Rank, A!Pair
<1>5. \A way \in {"update", "key"} : A!SourceRow(way) \in Locks /\ Rank(A!SourceRow(way)) = 5
  BY DEF Locks, A!SourceRow, A!Lock, Rank
<1> QED  BY <1>1, <1>2, <1>3, <1>4, <1>5 DEF Below, A!Pc

(* OnlyFirstActionsDeadlock follows from the order.                          *)
LEMMA OrderedLocks ==
  ASSUME RequestTypes, LockInv
  PROVE  A!OnlyFirstActionsDeadlock
<1> SUFFICES ASSUME NEW r \in Requests, NEW q \in Requests, A!Waits(r, q), A!Waits(q, r)
             PROVE  \A p \in {r, q} : /\ request[p].pc \in {"source", "again"}
                                     /\ A!SourceRow("key") \in request[p].holds
  BY DEF A!OnlyFirstActionsDeadlock
<1>1. PICK l \in A!Wants(r), m \in request[q].holds : l.object = m.object
  BY DEF A!Waits, A!Conflict
<1>2. PICK k \in A!Wants(q), n \in request[r].holds : k.object = n.object
  BY DEF A!Waits, A!Conflict
<1>3. Rank(l) = Rank(m) /\ Rank(k) = Rank(n)
  BY <1>1, <1>2 DEF Rank
<1>4. Rank(m) <= Below(request[q].pc) /\ Rank(n) <= Below(request[r].pc)
  BY DEF LockInv, LocksInOrder
<1>5. \A x \in {r, q} :
        /\ Below(request[x].pc) \in Nat
        /\ (Below(request[x].pc) = 5 <=> request[x].pc \in {"source", "again", "commit"})
        /\ Below(request[x].pc) <= 5
  BY DEF RequestTypes, InProgress, A!Pc, Below
<1>6. Rank(l) \in Nat /\ Rank(k) \in Nat /\ Rank(A!SourceRow("update")) = 5
  BY DEF Rank, A!SourceRow, A!Lock
<1> DEFINE Sources(x) == request[x].pc \in {"source", "again"}
<1>7. /\ Below(request[r].pc) < Rank(l) \/ (Sources(r) /\ l = A!SourceRow("update"))
      /\ Below(request[q].pc) < Rank(k) \/ (Sources(q) /\ k = A!SourceRow("update"))
      /\ request[r].pc # "commit" /\ request[q].pc # "commit"
  <2>1. Asks(r) /\ Asks(q)
    BY DEF LockInv
  <2>2. A!Wants(r) # {} /\ A!Wants(q) # {}
    OBVIOUS
  <2>3. \A j \in A!Wants(r) : Below(request[r].pc) < Rank(j) \/ (Sources(r) /\ j = A!SourceRow("update"))
    BY <2>1, WantsNext
  <2>4. \A j \in A!Wants(q) : Below(request[q].pc) < Rank(j) \/ (Sources(q) /\ j = A!SourceRow("update"))
    BY <2>1, WantsNext
  <2>5. request[r].pc # "commit" /\ request[q].pc # "commit"
    BY <2>1, <2>2, WantsNext
  <2> QED  BY <2>3, <2>4, <2>5
<1>8. Sources(r) /\ Sources(q)
  BY <1>3, <1>4, <1>5, <1>6, <1>7
<1>9. Rank(m) = 5 /\ Rank(n) = 5
  BY <1>3, <1>4, <1>5, <1>6, <1>7, <1>8
<1> QED  BY <1>8, <1>9 DEF LockInv, LocksInOrder

-----------------------------------------------------------------------------
(***************************************************************************)
(* Steps that move one request and write no row.                           *)
(***************************************************************************)
LEMMA SumsStay ==
  ASSUME SumInv, UNCHANGED <<feedback, saved, opening, link, tracked, preference>>
  PROVE  SumInv'
<1>1. Finite' /\ A!Opened' = A!Opened
  BY DEF SumInv, Finite, A!Opened
<1>2. A!PreferenceCountsRows'
  <2>1. \A u, t : A!FeedbackOf(u, t)' = A!FeedbackOf(u, t)
    BY DEF A!FeedbackOf, A!OfUser
  <2>2. \A u : A!OfUser(saved, u)' = A!OfUser(saved, u) /\ A!OfUser(A!Opened, u)' = A!OfUser(A!Opened, u)
    BY <1>1 DEF A!OfUser
  <2> QED  BY <2>1, <2>2 DEF SumInv, A!PreferenceCountsRows
<1>3. A!OpensAreTracked'
  BY <1>1 DEF SumInv, A!OpensAreTracked
<1> QED  BY <1>1, <1>2, <1>3 DEF SumInv

LEMMA QuietStep ==
  ASSUME RequestTypes, LockInv, RowInv, SumInv,
         NEW r \in Requests, NEW new \in InProgress,
         request' = [request EXCEPT ![r] = new], UNCHANGED A!rows,
         \A q \in Requests \ {r} : \A l \in new.holds, m \in request[q].holds : ~ A!Conflict(l, m),
         Asks(r)', LocksInOrder(r)', KnowsRow(r)', KnowsCounters(r)'
  PROVE  RequestTypes' /\ LockInv' /\ RowInv' /\ SumInv'
<1>1. request'[r] = new /\ \A q \in Requests \ {r} : request'[q] = request[q]
  BY DEF RequestTypes
<1>2. RequestTypes'
  BY DEF RequestTypes
<1>3. LocksExclude'
  <2> SUFFICES ASSUME NEW p \in Requests, NEW q \in Requests, p # q,
                      NEW l \in request'[p].holds, NEW m \in request'[q].holds
               PROVE  ~ A!Conflict(l, m)
    BY DEF LocksExclude, A!Conflict
  <2>1. CASE p # r /\ q # r
    BY <2>1, <1>1 DEF LockInv, LocksExclude
  <2>2. CASE p = r
    BY <2>2, <1>1
  <2>3. CASE q = r
    <3>1. ~ A!Conflict(m, l)
      BY <2>3, <1>1
    <3> QED  BY <3>1 DEF A!Conflict
  <2> QED  BY <2>1, <2>2, <2>3
<1>4. \A q \in Requests \ {r} : Asks(q)' /\ LocksInOrder(q)'
  BY <1>1 DEF LockInv, Asks, LocksInOrder
<1>5. \A q \in Requests \ {r} : KnowsRow(q)' /\ KnowsCounters(q)'
  BY <1>1 DEF RowInv, KnowsRow, KnowsCounters, Locked, Counting, A!OwnRow, A!LinkRow,
     A!MyPreference, CountsOf, A!Exists, A!Pair, Unopened, A!rows
<1>6. SumInv'
  BY SumsStay DEF A!rows
<1> QED  BY <1>2, <1>3, <1>4, <1>5, <1>6 DEF LockInv, RowInv

(* A request that ends lets go of everything.                                *)
LEMMA EndStep ==
  ASSUME RequestTypes, LockInv, RowInv, SumInv, NEW r \in Requests, A!End(r), UNCHANGED A!rows
  PROVE  RequestTypes' /\ LockInv' /\ RowInv' /\ SumInv'
<1>1. A!Free \in InProgress
  BY DEF A!Free, InProgress, A!Pc, A!Kinds, A!Types, A!Counts, A!Zero
<1>2. request' = [request EXCEPT ![r] = A!Free] /\ request'[r] = A!Free
  BY DEF A!End, RequestTypes
<1>3. Asks(r)' /\ LocksInOrder(r)' /\ KnowsRow(r)' /\ KnowsCounters(r)'
  BY <1>2 DEF A!Free, Asks, LocksInOrder, KnowsRow, KnowsCounters, Locked, Counting
<1>4. A!Free.holds = {}
  BY DEF A!Free
<1> QED  BY <1>1, <1>2, <1>3, <1>4, QuietStep

(* A request whose statement has returned holds what the statement locked.   *)
LEMMA TakingStep ==
  ASSUME RequestTypes, LockInv, RowInv, SumInv,
         NEW r \in Requests, NEW new \in InProgress, A!Advance(r, new), UNCHANGED A!rows,
         request[r].pc # "idle",
         Below(request[r].pc) <= Below(new.pc),
         new.pc \notin {"idle", "find"},
         new.kind = request[r].kind, new.user = request[r].user,
         new.article = request[r].article, new.context = request[r].context,
         \/ new.holds = request[r].holds
         \/ A!Granted(r) /\ new.holds = request[r].holds \cup A!Wants(r)
                       /\ \A l \in A!Wants(r) : Rank(l) <= Below(new.pc),
         new.pc \in {"source", "again"} => \A l \in new.holds : Rank(l) = 5 => l = A!SourceRow("key"),
         new.pc = "insert" => new.before = "none" /\ new.kind # "unsave",
         new.before # "none" => new.kind \in A!Types /\ feedback[A!Pair(r)] = new.before,
         new.pc # "insert" /\ new.kind # "open" => A!OwnRow(r) \in new.holds,
         new.pc # "insert" /\ new.kind # "open" /\ (new.kind = "unsave" \/ new.before # "none") => A!Exists(r),
         new.pc # "insert" /\ new.kind # "open" /\ ~ (new.kind = "unsave" \/ new.before # "none") => ~ A!Exists(r),
         new.kind = "open" =>
           A!LinkRow(r) \in new.holds /\ Unopened(new.user, new.article, new.context),
         new.pc \in {"source", "again", "commit"} =>
           A!MyPreference(r) \in new.holds /\ new.mine = CountsOf(new.user),
         new.pc \notin {"source", "again", "commit"} => new.mine = A!Zero
  PROVE  RequestTypes' /\ LockInv' /\ RowInv' /\ SumInv'
<1>1. request' = [request EXCEPT ![r] = new] /\ request'[r] = new
  BY DEF A!Advance, RequestTypes
<1>2. \A q \in Requests \ {r} : \A l \in new.holds, m \in request[q].holds : ~ A!Conflict(l, m)
  <2> SUFFICES ASSUME NEW q \in Requests \ {r}, NEW l \in new.holds, NEW m \in request[q].holds
               PROVE  ~ A!Conflict(l, m)
    OBVIOUS
  <2>1. CASE l \in request[r].holds
    BY <2>1 DEF LockInv, LocksExclude
  <2>2. CASE l \in A!Wants(r) /\ A!Granted(r)
    BY <2>2 DEF A!Granted, A!Waits
  <2> QED  BY <2>1, <2>2
<1>3. Asks(r)'
  BY <1>1 DEF Asks, LockInv
<1>4. LocksInOrder(r)'
  <2>1. \A l \in new.holds : Rank(l) <= Below(new.pc)
    <3> SUFFICES ASSUME NEW l \in new.holds  PROVE  Rank(l) <= Below(new.pc)
      OBVIOUS
    <3>1. CASE l \in request[r].holds
      <4>1. Rank(l) <= Below(request[r].pc)
        BY <3>1 DEF LockInv, LocksInOrder
      <4>2. Rank(l) \in Nat /\ Below(request[r].pc) \in Nat /\ Below(new.pc) \in Nat
        BY DEF Rank, Below
      <4> QED  BY <4>1, <4>2
    <3> QED  BY <3>1
  <2> QED  BY <1>1, <2>1 DEF LocksInOrder
<1>5. /\ A!OwnRow(r)' = A!OwnRow(r) /\ A!MyPreference(r)' = A!MyPreference(r)
      /\ A!LinkRow(r)' = A!LinkRow(r) /\ A!Pair(r)' = A!Pair(r)
  BY <1>1 DEF A!OwnRow, A!LinkRow, A!MyPreference, A!Pair
<1>6. /\ A!Exists(r)' <=> A!Exists(r)
      /\ CountsOf(new.user)' = CountsOf(new.user) /\ feedback' = feedback /\ link' = link
      /\ Unopened(new.user, new.article, new.context)' <=> Unopened(new.user, new.article, new.context)
  BY <1>1, <1>5 DEF A!Exists, CountsOf, Unopened, A!rows
<1>7. new.pc \in A!Pc
  BY DEF InProgress
<1>8. KnowsRow(r)'
  BY <1>1, <1>5, <1>6, <1>7 DEF KnowsRow, Locked, Unopened, A!Pc
<1>9. KnowsCounters(r)'
  BY <1>1, <1>5, <1>6 DEF KnowsCounters, Counting
<1> QED  BY <1>1, <1>2, <1>3, <1>4, <1>8, <1>9, QuietStep
-----------------------------------------------------------------------------
(* What a request holds after a statement, and that it is a request.         *)
LEMMA TookFacts ==
  ASSUME NEW r \in Requests, RequestTypes, Asks(r), NEW pc \in A!Pc
  PROVE  /\ A!Took(r, pc) \in InProgress
         /\ A!Took(r, pc).pc = pc /\ A!Took(r, pc).holds = request[r].holds \cup A!Wants(r)
         /\ A!Took(r, pc).kind = request[r].kind /\ A!Took(r, pc).user = request[r].user
         /\ A!Took(r, pc).article = request[r].article /\ A!Took(r, pc).context = request[r].context
         /\ A!Took(r, pc).before = request[r].before
         /\ A!Took(r, pc).mine = request[r].mine /\ A!Took(r, pc).global = request[r].global
         /\ A!Took(r, pc).applies = request[r].applies
<1>1. A!Wants(r) \subseteq Locks
  BY WantsNext
<1>2. request[r] \in InProgress
  BY DEF RequestTypes
<1> QED  BY <1>1, <1>2 DEF A!Took, InProgress

(* The locks' ranks, for the statements that take one of the request's own.  *)
LEMMA OwnRanks ==
  ASSUME NEW r \in Requests, RequestTypes
  PROVE  /\ request[r].kind \in A!Kinds => Rank(A!OwnRow(r)) = 2
         /\ Rank(A!LinkRow(r)) = 1 /\ Rank(A!ArticleRow(r)) = 3 /\ Rank(A!MyPreference(r)) = 4
         /\ Rank(A!SourceRow("key")) = 5 /\ Rank(A!SourceRow("update")) = 5
  BY DEF Rank, A!OwnRow, A!LinkRow, A!ArticleRow, A!MyPreference, A!SourceRow, A!Lock, A!Table,
     A!Kinds, A!Types

LEMMA FindSteps ==
  ASSUME TableTypes, RequestTypes, LockInv, RowInv, SumInv, NEW r \in Requests,
         A!FindFeedback(r) \/ A!FindSaved(r) \/ A!FindRemoved(r) \/ A!FindLink(r)
  PROVE  RequestTypes' /\ LockInv' /\ RowInv' /\ SumInv'
<1> DEFINE p == request[r]
<1>1. /\ p \in InProgress /\ p.pc = "find" /\ Asks(r) /\ UNCHANGED A!rows
      /\ p.before = "none" /\ p.kind \in A!Kinds /\ p.mine = A!Zero
  BY DEF RequestTypes, LockInv, RowInv, KnowsRow, Locked, KnowsCounters, Counting, Asks,
     A!FindFeedback, A!FindSaved, A!FindRemoved, A!FindLink
<1>2. \A l \in p.holds : Rank(l) \in Nat /\ Rank(l) <= 0
  BY <1>1 DEF LockInv, LocksInOrder, Below, Rank
<1>3. Below("find") = 0 /\ Below("insert") = 1 /\ Below("preference") = 3
  BY DEF Below
<1>4. A!Took(r, "insert") \in InProgress /\ A!Took(r, "preference") \in InProgress
  BY <1>1, TookFacts DEF A!Pc
<1>5. /\ A!Took(r, "insert").pc = "insert" /\ A!Took(r, "insert").holds = p.holds \cup A!Wants(r)
      /\ A!Took(r, "insert").kind = p.kind /\ A!Took(r, "insert").user = p.user
      /\ A!Took(r, "insert").article = p.article /\ A!Took(r, "insert").context = p.context
      /\ A!Took(r, "insert").before = p.before /\ A!Took(r, "insert").mine = p.mine
  BY <1>1, TookFacts DEF A!Pc
<1>6. /\ A!Took(r, "preference").pc = "preference"
      /\ A!Took(r, "preference").holds = p.holds \cup A!Wants(r)
      /\ A!Took(r, "preference").kind = p.kind /\ A!Took(r, "preference").user = p.user
      /\ A!Took(r, "preference").article = p.article /\ A!Took(r, "preference").context = p.context
      /\ A!Took(r, "preference").before = p.before /\ A!Took(r, "preference").mine = p.mine
  BY <1>1, TookFacts DEF A!Pc
<1>7. ASSUME A!Advance(r, A!Took(r, "insert")), A!Granted(r), \A l \in A!Wants(r) : Rank(l) <= 1,
             p.kind # "unsave",
             p.kind = "open" => A!LinkRow(r) \in A!Wants(r) /\ Unopened(p.user, p.article, p.context)
      PROVE  RequestTypes' /\ LockInv' /\ RowInv' /\ SumInv'
  BY <1>1, <1>3, <1>4, <1>5, <1>7, TakingStep
<1>8. A!Wants(r) = {} => A!Granted(r)
  BY DEF A!Granted, A!Waits
<1>9. CASE A!FindFeedback(r)
  <2>1. CASE A!Exists(r)
    <3> DEFINE new == [A!Took(r, "preference") EXCEPT !.before = feedback[A!Pair(r)]]
    <3>1. A!Wants(r) = {A!OwnRow(r)} /\ p.kind \in A!Types /\ p.kind # "open"
      BY <1>1, <1>9, <2>1 DEF A!Wants, A!FindFeedback, A!Types
    <3>2. feedback[A!Pair(r)] \in A!Types
      BY <2>1, <3>1 DEF A!Exists, TableTypes, A!Types
    <3>3. /\ new \in InProgress /\ new.pc = "preference" /\ new.before = feedback[A!Pair(r)]
          /\ new.holds = p.holds \cup A!Wants(r) /\ new.kind = p.kind /\ new.user = p.user
          /\ new.article = p.article /\ new.context = p.context /\ new.mine = p.mine
      BY <1>4, <1>6, <3>2 DEF InProgress
    <3>4. A!Advance(r, new) /\ A!Granted(r)
      BY <1>9, <2>1 DEF A!FindFeedback
    <3>5. Rank(A!OwnRow(r)) = 2
      BY <1>1, OwnRanks
    <3>6. feedback[A!Pair(r)] # "none"
      BY <3>2 DEF A!Types
    <3> HIDE DEF new
    <3> QED  BY <1>1, <1>3, <2>1, <3>1, <3>2, <3>3, <3>4, <3>5, <3>6, TakingStep
  <2>2. CASE ~ A!Exists(r)
    <3>1. A!Wants(r) = {}
      BY <1>1, <1>9, <2>2 DEF A!Wants, A!FindFeedback, A!Types
    <3> QED  BY <1>7, <1>8, <1>9, <2>2, <3>1 DEF A!FindFeedback, A!Types
  <2> QED  BY <2>1, <2>2
<1>10. CASE A!FindSaved(r)
  <2>1. A!Wants(r) = {}
    BY <1>1, <1>10 DEF A!Wants, A!FindSaved
  <2> QED  BY <1>1, <1>7, <1>8, <1>10, <2>1, EndStep DEF A!FindSaved
<1>11. CASE A!FindRemoved(r)
  <2>1. CASE A!Exists(r)
    <3>1. A!Wants(r) = {A!OwnRow(r)} /\ p.kind = "unsave"
      BY <1>1, <1>11, <2>1 DEF A!Wants, A!FindRemoved
    <3>2. A!Advance(r, A!Took(r, "preference")) /\ A!Granted(r)
      BY <1>11, <2>1 DEF A!FindRemoved
    <3>3. Rank(A!OwnRow(r)) = 2
      BY <1>1, OwnRanks
    <3> QED  BY <1>1, <1>3, <1>4, <1>6, <2>1, <3>1, <3>2, <3>3, TakingStep
  <2>2. CASE ~ A!Exists(r)
    BY <1>1, <1>11, <2>2, EndStep DEF A!FindRemoved
  <2> QED  BY <2>1, <2>2
<1>12. CASE A!FindLink(r)
  <2>1. A!Wants(r) = {A!LinkRow(r)} /\ Rank(A!LinkRow(r)) = 1
    BY <1>1, <1>12, OwnRanks DEF A!Wants, A!FindLink
  <2>2. \/ A!End(r)
        \/ /\ A!Advance(r, A!Took(r, "insert")) /\ A!Granted(r) /\ p.kind # "unsave"
           /\ Unopened(p.user, p.article, p.context)
    BY <1>12 DEF A!FindLink, Unopened
  <2>3. CASE A!End(r)
    BY <1>1, <2>3, EndStep
  <2> QED  BY <1>7, <2>1, <2>2, <2>3
<1> QED  BY <1>9, <1>10, <1>11, <1>12

LEMMA InsertSteps ==
  ASSUME TableTypes, RequestTypes, LockInv, RowInv, SumInv, NEW r \in Requests,
         A!Insert(r) \/ A!CountOpen(r)
  PROVE  RequestTypes' /\ LockInv' /\ RowInv' /\ SumInv'
<1> DEFINE p == request[r]
<1>1. /\ p \in InProgress /\ p.pc \in {"insert", "article"} /\ Asks(r) /\ UNCHANGED A!rows
      /\ p.kind \in A!Kinds /\ A!Granted(r) /\ KnowsRow(r) /\ p.mine = A!Zero
  BY DEF RequestTypes, LockInv, RowInv, KnowsCounters, Counting, Asks, A!Insert, A!CountOpen
<1>2. Below("insert") = 1 /\ Below("article") = 2 /\ Below("preference") = 3
  BY DEF Below
<1>3. A!Took(r, "article") \in InProgress /\ A!Took(r, "preference") \in InProgress
  BY <1>1, TookFacts DEF A!Pc
<1>4. \A pc \in {"article", "preference"} :
        /\ A!Took(r, pc).pc = pc /\ A!Took(r, pc).holds = p.holds \cup A!Wants(r)
        /\ A!Took(r, pc).kind = p.kind /\ A!Took(r, pc).user = p.user
        /\ A!Took(r, pc).article = p.article /\ A!Took(r, pc).context = p.context
        /\ A!Took(r, pc).before = p.before /\ A!Took(r, pc).mine = p.mine
  BY <1>1, TookFacts DEF A!Pc
<1>5. CASE A!Insert(r) /\ A!Exists(r) /\ p.kind # "open"
  BY <1>1, <1>5, EndStep DEF A!Insert
<1>6. CASE A!Insert(r) /\ ~ A!Exists(r) /\ p.kind # "open"
  <2>1. A!Wants(r) = {A!OwnRow(r)} /\ Rank(A!OwnRow(r)) = 2 /\ p.pc = "insert" /\ p.before = "none"
    BY <1>1, <1>6, OwnRanks DEF A!Wants, A!Insert, KnowsRow, Locked
  <2>2. p.kind # "unsave"
    BY <1>1, <2>1 DEF Asks
  <2>3. A!Advance(r, A!Took(r, "preference"))
    BY <1>6 DEF A!Insert
  <2> QED  BY <1>1, <1>2, <1>3, <1>4, <1>6, <2>1, <2>2, <2>3, TakingStep
<1>8. CASE A!Insert(r) /\ p.kind = "open"
  <2>1. A!Wants(r) \subseteq {A!OwnRow(r)} /\ Rank(A!OwnRow(r)) = 2 /\ p.pc = "insert" /\ p.before = "none"
    BY <1>1, <1>8, OwnRanks DEF A!Wants, A!Insert, KnowsRow, Locked
  <2>2. A!LinkRow(r) \in p.holds /\ Unopened(p.user, p.article, p.context)
    BY <1>1, <1>8, <2>1 DEF KnowsRow
  <2>3. A!Advance(r, A!Took(r, "article"))
    BY <1>8 DEF A!Insert
  <2> QED  BY <1>1, <1>2, <1>3, <1>4, <1>8, <2>1, <2>2, <2>3, TakingStep
<1>7. CASE A!CountOpen(r)
  <2>1. A!Wants(r) = {A!ArticleRow(r)} /\ Rank(A!ArticleRow(r)) = 3 /\ p.pc = "article"
    BY <1>1, <1>7, OwnRanks DEF A!Wants, A!CountOpen
  <2>2. A!Advance(r, A!Took(r, "preference"))
    BY <1>7 DEF A!CountOpen
  <2>3. /\ p.kind # "open" => A!OwnRow(r) \in p.holds
        /\ p.kind # "open" /\ (p.kind = "unsave" \/ p.before # "none") => A!Exists(r)
        /\ p.kind # "open" /\ ~ (p.kind = "unsave" \/ p.before # "none") => ~ A!Exists(r)
        /\ p.kind = "open" => A!LinkRow(r) \in p.holds /\ Unopened(p.user, p.article, p.context)
        /\ p.before # "none" => p.kind \in A!Types /\ feedback[A!Pair(r)] = p.before
    BY <1>1, <2>1 DEF KnowsRow, Locked
  <2> QED  BY <1>1, <1>2, <1>3, <1>4, <2>1, <2>2, <2>3, TakingStep
<1> QED  BY <1>5, <1>6, <1>7, <1>8

(* Statements that find or create the preference, or read the source: its    *)
(* row is locked, and what they read stays.                                  *)
LEMMA PreferenceSteps ==
  ASSUME TableTypes, RequestTypes, LockInv, RowInv, SumInv, NEW r \in Requests,
         A!FindPreference(r) \/ A!CreatePreference(r)
  PROVE  RequestTypes' /\ LockInv' /\ RowInv' /\ SumInv'
<1> DEFINE p == request[r]
<1>1. /\ p \in InProgress /\ p.pc \in {"preference", "create"} /\ Asks(r) /\ UNCHANGED A!rows
      /\ p.kind \in A!Kinds /\ p.user \in Users /\ A!Granted(r) /\ LocksInOrder(r)
      /\ KnowsRow(r) /\ p.mine = A!Zero
  BY DEF RequestTypes, LockInv, RowInv, KnowsCounters, Counting, Asks, A!FindPreference,
     A!CreatePreference
<1>2. Below("preference") = 3 /\ Below("create") = 3 /\ Below("source") = 5
  BY DEF Below
<1>3. \A l \in p.holds : Rank(l) \in Nat /\ Rank(l) <= 3
  BY <1>1, <1>2 DEF LocksInOrder, Rank
<1>4. /\ p.kind # "open" => A!OwnRow(r) \in p.holds
      /\ p.kind # "open" /\ (p.kind = "unsave" \/ p.before # "none") => A!Exists(r)
      /\ p.kind # "open" /\ ~ (p.kind = "unsave" \/ p.before # "none") => ~ A!Exists(r)
      /\ p.kind = "open" => A!LinkRow(r) \in p.holds /\ Unopened(p.user, p.article, p.context)
      /\ p.before # "none" => p.kind \in A!Types /\ feedback[A!Pair(r)] = p.before
  BY <1>1 DEF KnowsRow, Locked
<1>5. A!Took(r, "create") \in InProgress /\ A!Took(r, "source") \in InProgress
  BY <1>1, TookFacts DEF A!Pc
<1>6. \A pc \in {"create", "source"} :
        /\ A!Took(r, pc).pc = pc /\ A!Took(r, pc).holds = p.holds \cup A!Wants(r)
        /\ A!Took(r, pc).kind = p.kind /\ A!Took(r, pc).user = p.user
        /\ A!Took(r, pc).article = p.article /\ A!Took(r, pc).context = p.context
        /\ A!Took(r, pc).before = p.before /\ A!Took(r, pc).mine = p.mine
  BY <1>1, TookFacts DEF A!Pc
<1>7. /\ Rank(A!MyPreference(r)) = 4 /\ Rank(A!SourceRow("key")) = 5
  BY OwnRanks
<1>8. CASE A!FindPreference(r) /\ p.user \in DOMAIN preference
  <2> DEFINE new == [A!Took(r, "source") EXCEPT !.mine = preference[p.user]]
  <2>1. preference[p.user] \in A!Counts
    BY <1>8 DEF TableTypes
  <2>2. /\ new \in InProgress /\ new.pc = "source" /\ new.mine = preference[p.user]
        /\ new.holds = p.holds \cup A!Wants(r) /\ new.kind = p.kind /\ new.user = p.user
        /\ new.article = p.article /\ new.context = p.context /\ new.before = p.before
    BY <1>5, <1>6, <2>1 DEF InProgress
  <2>3. A!Wants(r) = {A!MyPreference(r)} /\ p.pc = "preference"
    BY <1>8 DEF A!Wants, A!FindPreference
  <2>4. A!Advance(r, new)
    BY <1>8 DEF A!FindPreference
  <2>5. new.mine = CountsOf(new.user)
    BY <1>8, <2>2 DEF CountsOf
  <2> HIDE DEF new
  <2> QED  BY <1>1, <1>2, <1>3, <1>4, <1>7, <2>2, <2>3, <2>4, <2>5, TakingStep
<1>9. CASE A!FindPreference(r) /\ p.user \notin DOMAIN preference
  <2>1. A!Wants(r) = {} /\ p.pc = "preference"
    BY <1>9 DEF A!Wants, A!FindPreference
  <2>2. A!Advance(r, A!Took(r, "create"))
    BY <1>9 DEF A!FindPreference
  <2> QED  BY <1>1, <1>2, <1>4, <1>5, <1>6, <2>1, <2>2, TakingStep
<1>10. CASE A!CreatePreference(r) /\ p.user \in DOMAIN preference
  BY <1>1, <1>10, EndStep DEF A!CreatePreference
<1>11. CASE A!CreatePreference(r) /\ p.user \notin DOMAIN preference
  <2>1. A!Wants(r) = {A!MyPreference(r), A!SourceRow("key")} /\ p.pc = "create"
    BY <1>11 DEF A!Wants, A!CreatePreference
  <2>2. A!Advance(r, A!Took(r, "source"))
    BY <1>11 DEF A!CreatePreference
  <2>3. p.mine = CountsOf(p.user)
    BY <1>1, <1>11, <2>1 DEF CountsOf
  <2> QED  BY <1>1, <1>2, <1>3, <1>4, <1>5, <1>6, <1>7, <2>1, <2>2, <2>3, TakingStep
<1> QED  BY <1>8, <1>9, <1>10, <1>11

LEMMA SourceStep ==
  ASSUME TableTypes, RequestTypes, LockInv, RowInv, SumInv, NEW r \in Requests,
         A!ReadSource(r) \/ A!ReadSourceAgain(r)
  PROVE  RequestTypes' /\ LockInv' /\ RowInv' /\ SumInv'
<1> DEFINE p == request[r]
<1>1. /\ p \in InProgress /\ p.pc \in {"source", "again"} /\ Asks(r) /\ UNCHANGED A!rows
      /\ KnowsRow(r) /\ KnowsCounters(r) /\ LocksInOrder(r)
  BY DEF RequestTypes, LockInv, RowInv, A!ReadSource, A!ReadSourceAgain
<1>2. Below("source") = 5 /\ Below("again") = 5 /\ Below("commit") = 5
  BY DEF Below
<1>3. /\ p.kind # "open" => A!OwnRow(r) \in p.holds
      /\ p.kind # "open" /\ (p.kind = "unsave" \/ p.before # "none") => A!Exists(r)
      /\ p.kind # "open" /\ ~ (p.kind = "unsave" \/ p.before # "none") => ~ A!Exists(r)
      /\ p.kind = "open" => A!LinkRow(r) \in p.holds /\ Unopened(p.user, p.article, p.context)
      /\ p.before # "none" => p.kind \in A!Types /\ feedback[A!Pair(r)] = p.before
      /\ A!MyPreference(r) \in p.holds /\ p.mine = CountsOf(p.user)
      /\ \A l \in p.holds : Rank(l) = 5 => l = A!SourceRow("key")
  BY <1>1 DEF KnowsRow, Locked, KnowsCounters, Counting, LocksInOrder
<1>4. ASSUME NEW pc \in {"again", "commit"}, A!SkipSource(r, pc)
      PROVE  RequestTypes' /\ LockInv' /\ RowInv' /\ SumInv'
  <2> DEFINE new == [request[r] EXCEPT !.pc = pc]
  <2>1. /\ new \in InProgress /\ new.pc = pc /\ new.holds = p.holds
        /\ new.kind = p.kind /\ new.user = p.user /\ new.article = p.article
        /\ new.context = p.context /\ new.before = p.before /\ new.mine = p.mine
    BY <1>1 DEF InProgress, A!Pc
  <2>2. A!Advance(r, new)
    BY <1>4 DEF A!SkipSource
  <2> HIDE DEF new
  <2> QED  BY <1>1, <1>2, <1>3, <1>4, <2>1, <2>2, TakingStep
<1>5. ASSUME NEW counters \in SUBSET (A!Signals \cup A!Kinds), A!FindSource(r, counters)
      PROVE  RequestTypes' /\ LockInv' /\ RowInv' /\ SumInv'
  <2> DEFINE new == [A!Took(r, "commit") EXCEPT !.global = source, !.applies = counters]
  <2>1. A!Took(r, "commit") \in InProgress
    BY <1>1, TookFacts DEF A!Pc
  <2>2. /\ A!Took(r, "commit").pc = "commit" /\ A!Took(r, "commit").holds = p.holds \cup A!Wants(r)
        /\ A!Took(r, "commit").kind = p.kind /\ A!Took(r, "commit").user = p.user
        /\ A!Took(r, "commit").article = p.article /\ A!Took(r, "commit").context = p.context
        /\ A!Took(r, "commit").before = p.before /\ A!Took(r, "commit").mine = p.mine
    BY <1>1, TookFacts DEF A!Pc
  <2>3. /\ new \in InProgress /\ new.pc = "commit" /\ new.holds = p.holds \cup A!Wants(r)
        /\ new.kind = p.kind /\ new.user = p.user /\ new.article = p.article
        /\ new.context = p.context /\ new.before = p.before /\ new.mine = p.mine
    BY <1>5, <2>1, <2>2 DEF InProgress, TableTypes
  <2>4. A!Advance(r, new) /\ A!Granted(r) /\ ~ removed
    BY <1>5 DEF A!FindSource
  <2>5. A!Wants(r) = {A!SourceRow("update")} /\ Rank(A!SourceRow("update")) = 5
    BY <1>1, <2>4, OwnRanks DEF A!Wants
  <2> HIDE DEF new
  <2> QED  BY <1>1, <1>2, <1>3, <2>3, <2>4, <2>5, TakingStep
<1>6. CASE A!ReadSource(r)
  BY <1>4, <1>5, <1>6 DEF A!ReadSource
<1>7. CASE A!ReadSourceAgain(r)
  <2>1. p.pc = "again" /\ p.kind \in A!Kinds
    BY <1>1, <1>7 DEF A!ReadSourceAgain, Asks
  <2>2. CASE removed
    BY <1>4, <1>7, <2>2 DEF A!ReadSourceAgain
  <2>3. CASE ~ removed
    BY <1>5, <1>7, <2>1, <2>3 DEF A!ReadSourceAgain
  <2> QED  BY <2>2, <2>3
<1> QED  BY <1>6, <1>7

LEMMA AskStep ==
  ASSUME TableTypes, RequestTypes, LockInv, RowInv, SumInv, NEW r \in Requests, A!Ask(r)
  PROVE  RequestTypes' /\ LockInv' /\ RowInv' /\ SumInv'
<1>1. PICK k \in A!Kinds, u \in Users, a \in Stories, c \in Contexts :
        A!Advance(r, [A!Free EXCEPT !.pc = "find", !.kind = k, !.user = u, !.article = a,
                                !.context = IF k = "open" THEN c ELSE "none"])
  BY DEF A!Ask
<1> DEFINE new == [A!Free EXCEPT !.pc = "find", !.kind = k, !.user = u, !.article = a,
                               !.context = IF k = "open" THEN c ELSE "none"]
<1>2. A!Free \in InProgress
  BY DEF A!Free, InProgress, A!Pc, A!Kinds, A!Types, A!Counts, A!Zero
<1>3. /\ new.pc = "find" /\ new.kind = k /\ new.user = u /\ new.article = a
      /\ new.context = IF k = "open" THEN c ELSE "none"
      /\ new.before = "none" /\ new.mine = A!Zero /\ new.holds = {} /\ new.applies = {}
  BY DEF A!Free
<1>4. new \in InProgress
  BY <1>2 DEF InProgress, A!Pc
<1>5. request' = [request EXCEPT ![r] = new]
  BY <1>1 DEF A!Advance
<1> HIDE DEF new
<1>6. request'[r] = new
  BY <1>5 DEF RequestTypes
<1>7. Asks(r)' /\ LocksInOrder(r)' /\ KnowsRow(r)' /\ KnowsCounters(r)'
  BY <1>3, <1>6 DEF Asks, LocksInOrder, KnowsRow, KnowsCounters, Locked, Counting
<1>8. UNCHANGED A!rows
  BY DEF A!Ask
<1> QED  BY <1>3, <1>4, <1>5, <1>7, <1>8, QuietStep

-----------------------------------------------------------------------------
(***************************************************************************)
(* Commits: rows and counters.                                             *)
(***************************************************************************)
LEMMA AtLeastZero ==
  ASSUME NEW x \in Int
  PROVE  A!Max({0, x}) \in Nat /\ (x >= 0 => A!Max({0, x}) = x)
<1>1. CASE x >= 0
  <2>1. \A m \in {0, x} : (\A y \in {0, x} : m >= y) => m = x
    BY <1>1
  <2>2. \E m \in {0, x} : \A y \in {0, x} : m >= y
    BY <1>1
  <2>3. A!Max({0, x}) = x
    BY <2>1, <2>2 DEF A!Max
  <2> QED  BY <1>1, <2>3
<1>2. CASE ~ (x >= 0)
  <2>1. \A m \in {0, x} : (\A y \in {0, x} : m >= y) => m = 0
    BY <1>2
  <2>2. \E m \in {0, x} : \A y \in {0, x} : m >= y
    BY <1>2
  <2>3. A!Max({0, x}) = 0
    BY <2>1, <2>2 DEF A!Max
  <2> QED  BY <1>2, <2>3
<1> QED  BY <1>1, <1>2

(* The component counts with the same operator. *)
LEMMA SameCardinality == \A X : A!Cardinality(X) = Cardinality(X)
  BY DEF A!Cardinality, Cardinality

(* A pair more, a pair less. *)
LEMMA OnePairMore ==
  ASSUME NEW W, IsFiniteSet(W), NEW p, p \notin W, NEW u
  PROVE  /\ A!OfUser(W, u) \in Nat
         /\ A!OfUser(W \cup {p}, u) = IF p[1] = u THEN A!OfUser(W, u) + 1 ELSE A!OfUser(W, u)
<1> DEFINE X == {x \in W : x[1] = u}
<1>1. IsFiniteSet(X)
  BY FS_Subset
<1>2. Cardinality(X) \in Nat
  BY <1>1, FS_CardinalityType
<1>3. CASE p[1] = u
  <2>1. {x \in W \cup {p} : x[1] = u} = X \cup {p}
    BY <1>3
  <2>2. Cardinality(X \cup {p}) = Cardinality(X) + 1
    BY <1>1, FS_AddElement
  <2> QED  BY SameCardinality, <1>2, <1>3, <2>1, <2>2 DEF A!OfUser
<1>4. CASE p[1] # u
  <2>1. {x \in W \cup {p} : x[1] = u} = X
    BY <1>4
  <2> QED  BY SameCardinality, <1>2, <1>4, <2>1 DEF A!OfUser
<1> QED  BY <1>3, <1>4

LEMMA OnePairLess ==
  ASSUME NEW W, IsFiniteSet(W), NEW p \in W, NEW u
  PROVE  /\ A!OfUser(W, u) \in Nat
         /\ A!OfUser(W \ {p}, u) = IF p[1] = u THEN A!OfUser(W, u) - 1 ELSE A!OfUser(W, u)
<1>1. IsFiniteSet(W \ {p}) /\ p \notin W \ {p} /\ (W \ {p}) \cup {p} = W
  BY FS_Subset
<1>2. /\ A!OfUser(W \ {p}, u) \in Nat
      /\ A!OfUser((W \ {p}) \cup {p}, u) = IF p[1] = u THEN A!OfUser(W \ {p}, u) + 1 ELSE A!OfUser(W \ {p}, u)
  BY <1>1, OnePairMore
<1>3. A!OfUser((W \ {p}) \cup {p}, u) = A!OfUser(W, u)
  BY <1>1
<1> QED  BY <1>2, <1>3

(* The rows that a counter cs. *)
RowsOf(u, s) ==
  IF s \in A!Types THEN A!FeedbackOf(u, s)
  ELSE IF s = "saved" THEN A!OfUser(saved, u) ELSE A!OfUser(A!Opened, u)

LEMMA CountersAreRows ==
  A!PreferenceCountsRows <=> \A u \in Users : \A s \in A!Signals : CountsOf(u)[s] = RowsOf(u, s)
  BY DEF A!PreferenceCountsRows, CountsOf, RowsOf, A!Signals, A!Types

(* What a transaction about to commit knows. *)
LEMMA CommitKnows ==
  ASSUME RequestTypes, LockInv, RowInv, NEW r \in Requests, request[r].pc = "commit"
  PROVE  /\ request[r] \in InProgress
         /\ request[r].kind \in A!Kinds
         /\ A!Pair(r) \in Users \X Stories /\ A!Pair(r)[1] = request[r].user
         /\ request[r].user \in Users /\ request[r].article \in Stories
         /\ request[r].kind = "open" => request[r].context \in Contexts
         /\ request[r].kind # "open" => A!OwnRow(r) \in request[r].holds
         /\ A!MyPreference(r) \in request[r].holds
         /\ request[r].mine = CountsOf(request[r].user)
         /\ request[r].kind \in A!Types =>
              /\ request[r].before = "none" => A!Pair(r) \notin DOMAIN feedback
              /\ request[r].before # "none" =>
                   A!Pair(r) \in DOMAIN feedback /\ feedback[A!Pair(r)] = request[r].before
         /\ request[r].kind \notin A!Types => request[r].before = "none"
         /\ request[r].kind = "save" => A!Pair(r) \notin saved
         /\ request[r].kind = "unsave" => A!Pair(r) \in saved
         /\ request[r].kind = "open" =>
              /\ A!LinkRow(r) \in request[r].holds
              /\ Unopened(request[r].user, request[r].article, request[r].context)
<1>1. Asks(r) /\ KnowsRow(r) /\ KnowsCounters(r) /\ request[r] \in InProgress
  BY DEF RequestTypes, LockInv, RowInv
<1>2. /\ request[r].kind \in A!Kinds /\ request[r].user \in Users /\ request[r].article \in Stories
      /\ request[r].kind = "open" => request[r].context \in Contexts
  BY <1>1 DEF Asks
<1>3. A!Pair(r) \in Users \X Stories /\ A!Pair(r)[1] = request[r].user
  BY <1>2 DEF A!Pair
<1>4. /\ request[r].kind # "open" => A!OwnRow(r) \in request[r].holds
      /\ A!MyPreference(r) \in request[r].holds
      /\ request[r].mine = CountsOf(request[r].user)
      /\ request[r].kind = "open" =>
           /\ A!LinkRow(r) \in request[r].holds
           /\ Unopened(request[r].user, request[r].article, request[r].context)
  BY <1>1 DEF KnowsRow, KnowsCounters, Locked, Counting
<1>5. /\ request[r].kind # "open" =>
           /\ request[r].kind = "unsave" \/ request[r].before # "none" => A!Exists(r)
           /\ ~ (request[r].kind = "unsave" \/ request[r].before # "none") => ~ A!Exists(r)
      /\ request[r].before # "none" => request[r].kind \in A!Types /\ feedback[A!Pair(r)] = request[r].before
  BY <1>1 DEF KnowsRow, Locked
<1>6. /\ request[r].kind \in A!Types => (A!Exists(r) <=> A!Pair(r) \in DOMAIN feedback)
      /\ request[r].kind \in {"save", "unsave"} => (A!Exists(r) <=> A!Pair(r) \in saved)
  BY DEF A!Exists, A!Types
<1>7. "unsave" \notin A!Types /\ "save" \notin A!Types /\ "open" \notin A!Types
  BY DEF A!Types
<1> QED  BY <1>1, <1>2, <1>3, <1>4, <1>5, <1>6, <1>7

LEMMA CommitTypes ==
  ASSUME TableTypes, RequestTypes, LockInv, RowInv, NEW r \in Requests, A!Commit(r)
  PROVE  TableTypes'
<1> DEFINE p == request[r]
<1>1. p.pc = "commit"
  BY DEF A!Commit
<1>2. /\ p \in InProgress /\ p.kind \in A!Kinds /\ A!Pair(r) \in Users \X Stories
      /\ p.user \in Users /\ p.article \in Stories
      /\ p.kind = "open" => p.context \in Contexts
  BY <1>1, CommitKnows
<1>3. \A c \in A!Counts : A!Counted(c, r) \in A!Counts
  <2> SUFFICES ASSUME NEW c \in A!Counts, NEW s \in A!Signals
               PROVE  A!Max({0, c[s] + A!Delta(r, s)}) \in Nat
    BY DEF A!Counted, A!Counts
  <2>1. A!Delta(r, s) \in Int
    BY DEF A!Delta
  <2>2. c[s] + A!Delta(r, s) \in Int
    BY <2>1 DEF A!Counts
  <2> QED  BY <2>2, AtLeastZero
<1>4. \A x \in DOMAIN feedback' : x \in Users \X Stories /\ feedback'[x] \in A!Types
  BY <1>2 DEF A!Commit, TableTypes, A!Kept
<1>5. saved' \subseteq Users \X Stories /\ opening' \subseteq Users \X Stories
  BY <1>2 DEF A!Commit, TableTypes
<1>6. link' \in [Users \X Stories \X Contexts -> BOOLEAN]
  BY <1>2 DEF A!Commit, TableTypes
<1>7. tracked' \in [Stories -> Nat]
  BY <1>2 DEF A!Commit, TableTypes
<1>8. DOMAIN preference' \subseteq Users /\ \A u \in DOMAIN preference' : preference'[u] \in A!Counts
  <2>1. A!Counted(p.mine, r) \in A!Counts
    BY <1>2, <1>3 DEF InProgress
  <2>2. preference' = A!Kept(preference, p.user, A!Counted(p.mine, r))
    BY DEF A!Commit
  <2> QED  BY <1>2, <2>1, <2>2 DEF TableTypes, A!Kept
<1>9. source' \in A!Counts
  <2>1. A!Counted(p.global, r) \in A!Counts
    BY <1>2, <1>3 DEF InProgress
  <2>2. \A s \in A!Signals : A!Counted(p.global, r)[s] \in Nat /\ source[s] \in Nat
    BY <2>1 DEF TableTypes, A!Counts
  <2>3. source' = [s \in A!Signals |-> IF s \in p.applies THEN A!Counted(p.global, r)[s] ELSE source[s]]
    BY DEF A!Commit
  <2> QED  BY <2>2, <2>3 DEF A!Counts
<1>10. uncounted' \subseteq A!Signals /\ removed' = removed /\ save' = save
  BY DEF A!Commit, TableTypes
<1> QED  BY <1>4, <1>5, <1>6, <1>7, <1>8, <1>9, <1>10 DEF TableTypes

(* A commit opens the link that its reader follows, and no other. *)
LEMMA OpenedByCommit ==
  ASSUME TableTypes, RequestTypes, LockInv, RowInv, NEW r \in Requests, A!Commit(r)
  PROVE  LET l == <<request[r].user, request[r].article, request[r].context>> IN
         /\ request[r].kind # "open" => A!Opened' = A!Opened
         /\ request[r].kind = "open" =>
              /\ l \in Users \X Stories \X Contexts
              /\ A!Opened' = A!Opened \cup {l} /\ l \notin A!Opened
<1> DEFINE p == request[r]
           l == <<p.user, p.article, p.context>>
<1>1. p.pc = "commit"
  BY DEF A!Commit
<1>2. /\ p.user \in Users /\ p.article \in Stories
      /\ p.kind = "open" => p.context \in Contexts /\ ~ link[l]
  BY <1>1, CommitKnows DEF Unopened
<1>3. CASE p.kind # "open"
  BY <1>3 DEF A!Commit, A!Opened
<1>4. CASE p.kind = "open"
  <2>1. l \in Users \X Stories \X Contexts /\ ~ link[l]
    BY <1>2, <1>4
  <2>2. link' = [link EXCEPT ![l] = TRUE]
    BY <1>4 DEF A!Commit
  <2>3. link \in [Users \X Stories \X Contexts -> BOOLEAN]
    BY DEF TableTypes
  <2> HIDE DEF l
  <2>4. A!Opened' = A!Opened \cup {l} /\ l \notin A!Opened
    BY <2>1, <2>2, <2>3 DEF A!Opened
  <2> QED  BY <1>4, <2>1, <2>4 DEF l
<1> QED  BY <1>3, <1>4

(* A commit moves the rows of its reader by what it adds to the counters.    *)
LEMMA CommitRows ==
  ASSUME TableTypes, RequestTypes, LockInv, RowInv, Finite, NEW r \in Requests, A!Commit(r),
         NEW u \in Users, NEW s \in A!Signals
  PROVE  /\ RowsOf(u, s) \in Nat /\ RowsOf(u, s)' \in Nat
         /\ RowsOf(u, s)' = RowsOf(u, s) + (IF u = request[r].user THEN A!Delta(r, s) ELSE 0)
<1> DEFINE p == request[r]
           V == A!Pair(r)
           Of(t) == {x \in DOMAIN feedback : feedback[x] = t}
<1>1. p.pc = "commit"
  BY DEF A!Commit
<1>2. /\ p \in InProgress /\ p.kind \in A!Kinds /\ V[1] = p.user
      /\ p.kind \in A!Types =>
           /\ p.before = "none" => V \notin DOMAIN feedback
           /\ p.before # "none" => V \in DOMAIN feedback /\ feedback[V] = p.before
      /\ p.kind \notin A!Types => p.before = "none"
      /\ p.kind = "save" => V \notin saved
      /\ p.kind = "unsave" => V \in saved
  BY <1>1, CommitKnows
<1>3. \A t \in A!Types : IsFiniteSet(Of(t)) /\ A!FeedbackOf(u, t) = A!OfUser(Of(t), u)
  <2> SUFFICES ASSUME NEW t \in A!Types
               PROVE  IsFiniteSet(Of(t)) /\ A!FeedbackOf(u, t) = A!OfUser(Of(t), u)
    OBVIOUS
  <2>1. IsFiniteSet(Of(t))
    BY FS_Subset DEF Finite
  <2> QED  BY <2>1 DEF A!FeedbackOf
<1>4. ASSUME NEW W, IsFiniteSet(W)  PROVE  A!OfUser(W, u) \in Nat
  <2>1. IsFiniteSet({x \in W : x[1] = u})
    BY <1>4, FS_Subset
  <2> QED  BY SameCardinality, <2>1, FS_CardinalityType DEF A!OfUser
<1>5. RowsOf(u, s) \in Nat
  BY <1>3, <1>4 DEF RowsOf, Finite
<1>6. CASE s \in A!Types
  <2>1. RowsOf(u, s) = A!OfUser(Of(s), u) /\ RowsOf(u, s)' = A!FeedbackOf(u, s)'
    BY <1>3, <1>6 DEF RowsOf
  <2>2. A!FeedbackOf(u, s)' = A!OfUser({x \in DOMAIN feedback' : feedback'[x] = s}, u)
    BY DEF A!FeedbackOf, A!OfUser
  <2>3. CASE p.kind \notin A!Types
    <3>1. feedback' = feedback
      BY <2>3 DEF A!Commit
    <3>2. A!Delta(r, s) = 0
      BY <1>2, <1>6, <2>3 DEF A!Delta, A!Types
    <3> QED  BY <1>5, <2>1, <2>2, <3>1, <3>2
  <2>4. CASE p.kind \in A!Types
    <3>1. feedback' = A!Kept(feedback, V, p.kind)
      BY <2>4 DEF A!Commit
    <3>2. /\ DOMAIN feedback' = DOMAIN feedback \cup {V} /\ feedback'[V] = p.kind
          /\ \A x \in DOMAIN feedback : x # V => feedback'[x] = feedback[x]
      BY <3>1 DEF A!Kept
    <3> DEFINE New == {x \in DOMAIN feedback' : feedback'[x] = s}
    <3>3. CASE p.kind = s /\ p.before = s
      <4>1. New = Of(s)
        BY <1>2, <2>4, <3>2, <3>3 DEF A!Types
      <4>2. A!Delta(r, s) = 0
        BY <3>3 DEF A!Delta
      <4> QED  BY <1>5, <2>1, <2>2, <4>1, <4>2
    <3>4. CASE p.kind = s /\ p.before # s
      <4>1. V \notin Of(s)
        BY <1>2, <2>4, <3>4
      <4>2. New = Of(s) \cup {V}
        BY <3>2, <3>4
      <4>3. A!Delta(r, s) = 1
        BY <3>4 DEF A!Delta
      <4>4. A!OfUser(New, u) = IF V[1] = u THEN A!OfUser(Of(s), u) + 1 ELSE A!OfUser(Of(s), u)
        <5>1. IsFiniteSet(Of(s))
          BY <1>3, <1>6
        <5> HIDE DEF New, Of, V
        <5> QED  BY <4>1, <4>2, <5>1, OnePairMore
      <4> QED  BY <1>2, <1>5, <2>1, <2>2, <4>3, <4>4
    <3>5. CASE p.kind # s /\ p.before = s
      <4>1. V \in Of(s)
        BY <1>2, <1>6, <2>4, <3>5 DEF A!Types
      <4>2. New = Of(s) \ {V}
        BY <3>2, <3>5
      <4>3. A!Delta(r, s) = -1
        BY <1>6, <2>4, <3>5 DEF A!Delta, A!Types
      <4>4. A!OfUser(New, u) = IF V[1] = u THEN A!OfUser(Of(s), u) - 1 ELSE A!OfUser(Of(s), u)
        BY <1>3, <1>6, <4>1, <4>2, OnePairLess
      <4>5. A!OfUser(New, u) \in Nat
        <5>1. IsFiniteSet(New)
          BY <1>3, <1>6, <4>2, FS_Subset
        <5> QED  BY <1>4, <5>1
      <4> QED  BY <1>2, <1>5, <2>1, <2>2, <4>3, <4>4, <4>5
    <3>6. CASE p.kind # s /\ p.before # s
      <4>1. New = Of(s)
        BY <1>2, <2>4, <3>2, <3>6
      <4>2. A!Delta(r, s) = 0
        BY <1>6, <2>4, <3>6 DEF A!Delta, A!Types
      <4> QED  BY <1>5, <2>1, <2>2, <4>1, <4>2
    <3> QED  BY <3>3, <3>4, <3>5, <3>6
  <2> QED  BY <2>3, <2>4
<1>7. CASE s = "saved"
  <2>1. RowsOf(u, s) = A!OfUser(saved, u) /\ RowsOf(u, s)' = A!OfUser(saved', u)
    BY <1>7 DEF RowsOf, A!Types, A!OfUser
  <2>2. CASE p.kind = "save"
    <3>1. saved' = saved \cup {V} /\ A!Delta(r, s) = 1
      BY <1>2, <1>7, <2>2 DEF A!Commit, A!Delta, A!Types
    <3>2. A!OfUser(saved', u) = IF V[1] = u THEN A!OfUser(saved, u) + 1 ELSE A!OfUser(saved, u)
      BY <1>2, <2>2, <3>1, OnePairMore DEF Finite
    <3> QED  BY <1>2, <1>5, <2>1, <3>1, <3>2
  <2>3. CASE p.kind = "unsave"
    <3>1. saved' = saved \ {V} /\ A!Delta(r, s) = -1
      BY <1>2, <1>7, <2>3 DEF A!Commit, A!Delta, A!Types
    <3>2. A!OfUser(saved', u) = IF V[1] = u THEN A!OfUser(saved, u) - 1 ELSE A!OfUser(saved, u)
      BY <1>2, <2>3, <3>1, OnePairLess DEF Finite
    <3>3. A!OfUser(saved', u) \in Nat
      <4>1. IsFiniteSet(saved')
        BY <3>1, FS_Subset DEF Finite
      <4> QED  BY <1>4, <4>1
    <3> QED  BY <1>2, <1>5, <2>1, <3>1, <3>2, <3>3
  <2>4. CASE p.kind \notin {"save", "unsave"}
    <3>1. saved' = saved
      BY <2>4 DEF A!Commit
    <3>2. A!Delta(r, s) = 0
      BY <1>2, <1>7, <2>4 DEF A!Delta, A!Kinds, A!Types, InProgress
    <3> QED  BY <1>5, <2>1, <3>1, <3>2
  <2> QED  BY <2>2, <2>3, <2>4
<1>8. CASE s = "opened"
  <2>1. RowsOf(u, s) = A!OfUser(A!Opened, u) /\ RowsOf(u, s)' = A!OfUser(A!Opened', u)
    BY <1>8 DEF RowsOf, A!Types, A!OfUser
  <2>2. CASE p.kind = "open"
    <3> DEFINE L == <<p.user, p.article, p.context>>
    <3>1. A!Opened' = A!Opened \cup {L} /\ L \notin A!Opened
      BY <1>1, <2>2, OpenedByCommit
    <3>2. A!Delta(r, s) = 1
      BY <1>2, <1>8, <2>2 DEF A!Delta, A!Types
    <3>3. A!OfUser(A!Opened', u) = IF L[1] = u THEN A!OfUser(A!Opened, u) + 1 ELSE A!OfUser(A!Opened, u)
      <4>1. IsFiniteSet(A!Opened)
        BY DEF Finite
      <4> HIDE DEF L
      <4> QED  BY <3>1, <4>1, OnePairMore
    <3> QED  BY <1>5, <2>1, <3>2, <3>3
  <2>3. CASE p.kind # "open"
    <3>1. A!Opened' = A!Opened
      BY <1>1, <2>3, OpenedByCommit
    <3>2. A!Delta(r, s) = 0
      BY <1>2, <1>8, <2>3 DEF A!Delta, A!Kinds, A!Types, InProgress
    <3> QED  BY <1>5, <2>1, <3>1, <3>2
  <2> QED  BY <2>2, <2>3
<1> QED  BY <1>5, <1>6, <1>7, <1>8 DEF A!Signals

LEMMA CommitCounts ==
  ASSUME TableTypes, RequestTypes, LockInv, RowInv, Finite, A!PreferenceCountsRows,
         NEW r \in Requests, A!Commit(r)
  PROVE  A!PreferenceCountsRows'
<1> DEFINE p == request[r]
<1>1. /\ p.pc = "commit" /\ preference' = A!Kept(preference, p.user, A!Counted(p.mine, r))
  BY DEF A!Commit
<1>2. p.user \in Users /\ p.mine = CountsOf(p.user)
  BY <1>1, CommitKnows
<1>3. \A u \in Users, s \in A!Signals : CountsOf(u)[s] = RowsOf(u, s)
  BY CountersAreRows
<1>4. \A u \in Users : CountsOf(u)' = IF u = p.user THEN A!Counted(p.mine, r) ELSE CountsOf(u)
  BY <1>1 DEF CountsOf, A!Kept
<1>5. ASSUME NEW u \in Users, NEW s \in A!Signals
      PROVE  CountsOf(u)'[s] = RowsOf(u, s)'
  <2>1. /\ RowsOf(u, s) \in Nat /\ RowsOf(u, s)' \in Nat
        /\ RowsOf(u, s)' = RowsOf(u, s) + (IF u = p.user THEN A!Delta(r, s) ELSE 0)
    BY CommitRows
  <2>2. CASE u = p.user
    <3>1. CountsOf(u)'[s] = A!Max({0, p.mine[s] + A!Delta(r, s)})
      BY <1>4, <2>2 DEF A!Counted
    <3>2. p.mine[s] = RowsOf(u, s)
      BY <1>2, <1>3, <2>2
    <3>3. RowsOf(u, s)' = p.mine[s] + A!Delta(r, s)
      BY <2>1, <2>2, <3>2
    <3>4. A!Max({0, RowsOf(u, s)'}) = RowsOf(u, s)'
      BY <2>1, AtLeastZero
    <3> QED  BY <3>1, <3>3, <3>4
  <2>3. CASE u # p.user
    BY <1>3, <1>4, <2>1, <2>3
  <2> QED  BY <2>2, <2>3
<1> QED  BY <1>5 DEF A!PreferenceCountsRows, CountsOf, RowsOf, A!Signals, A!Types

LEMMA CommitFinite ==
  ASSUME TableTypes, RequestTypes, LockInv, RowInv, Finite, A!OpensAreTracked,
         NEW r \in Requests, A!Commit(r)
  PROVE  Finite' /\ A!OpensAreTracked'
<1> DEFINE p == request[r]
           l == <<p.user, p.article, p.context>>
           To(set, a) == {k \in set : k[2] = a}
<1>1. p.pc = "commit"
  BY DEF A!Commit
<1>2. /\ p.user \in Users /\ p.article \in Stories
      /\ p.kind = "open" => p.context \in Contexts
  BY <1>1, CommitKnows
<1>3. IsFiniteSet(DOMAIN feedback')
  <2>1. DOMAIN feedback' = DOMAIN feedback \/ DOMAIN feedback' = DOMAIN feedback \cup {A!Pair(r)}
    BY DEF A!Commit, A!Kept
  <2> QED  BY <2>1, FS_AddElement DEF Finite
<1>4. IsFiniteSet(saved')
  <2>1. saved' = saved \/ saved' = saved \cup {A!Pair(r)} \/ saved' = saved \ {A!Pair(r)}
    BY DEF A!Commit
  <2> QED  BY <2>1, FS_AddElement, FS_RemoveElement DEF Finite
<1>5. CASE p.kind # "open"
  <2>1. opening' = opening /\ tracked' = tracked /\ link' = link /\ A!Opened' = A!Opened
    BY <1>5, OpenedByCommit DEF A!Commit
  <2> QED  BY <1>3, <1>4, <2>1 DEF Finite, A!OpensAreTracked
<1>6. CASE p.kind = "open"
  <2>1. /\ opening' = opening \cup {A!Pair(r)} /\ tracked' = [tracked EXCEPT ![p.article] = @ + 1]
        /\ link' = [link EXCEPT ![l] = TRUE]
    BY <1>6 DEF A!Commit
  <2>2. A!Opened' = A!Opened \cup {l} /\ l \notin A!Opened
    BY <1>6, OpenedByCommit
  <2>3. IsFiniteSet(A!Opened) /\ IsFiniteSet(A!Opened')
    BY <2>2, FS_AddElement DEF Finite
  <2>4. ASSUME NEW a \in Stories
        PROVE  tracked'[a] = Cardinality(To(A!Opened', a))
    <3>1. tracked[a] = Cardinality(To(A!Opened, a)) /\ tracked[a] \in Nat
      BY SameCardinality DEF A!OpensAreTracked, TableTypes
    <3>2. IsFiniteSet(To(A!Opened, a))
      BY <2>3, FS_Subset
    <3>3. CASE a = p.article
      <4>1. To(A!Opened', a) = To(A!Opened, a) \cup {l} /\ l \notin To(A!Opened, a)
        BY <2>2, <3>3
      <4>2. Cardinality(To(A!Opened, a) \cup {l}) = Cardinality(To(A!Opened, a)) + 1
        BY <3>2, <4>1, FS_AddElement
      <4>3. tracked'[a] = tracked[a] + 1
        BY <2>1, <3>3 DEF TableTypes
      <4> HIDE DEF To
      <4> QED  BY <3>1, <4>1, <4>2, <4>3
    <3>4. CASE a # p.article
      <4>1. To(A!Opened', a) = To(A!Opened, a)
        BY <2>2, <3>4
      <4>2. tracked'[a] = tracked[a]
        BY <2>1, <3>4 DEF TableTypes
      <4> QED  BY <3>1, <4>1, <4>2
    <3> QED  BY <3>3, <3>4
  <2>5. ASSUME NEW a \in Stories, NEW u \in Users
        PROVE  <<u, a>> \in opening' <=> \E c \in Contexts : link'[<<u, a, c>>]
    <3>1. <<u, a>> \in opening <=> \E c \in Contexts : link[<<u, a, c>>]
      BY DEF A!OpensAreTracked
    <3>2. A!Pair(r) = <<p.user, p.article>>
      BY DEF A!Pair
    <3>3. \A c \in Contexts :
            link'[<<u, a, c>>] <=> <<u, a, c>> = l \/ link[<<u, a, c>>]
      BY <2>1 DEF TableTypes
    <3>4. CASE u = p.user /\ a = p.article
      <4>1. p.context \in Contexts /\ link'[<<u, a, p.context>>]
        BY <1>2, <1>6, <3>3, <3>4
      <4>2. <<u, a>> \in opening'
        BY <2>1, <3>2, <3>4
      <4> QED  BY <4>1, <4>2
    <3>5. CASE ~ (u = p.user /\ a = p.article)
      <4>1. \A c \in Contexts : link'[<<u, a, c>>] <=> link[<<u, a, c>>]
        BY <3>3, <3>5
      <4>2. <<u, a>> \in opening' <=> <<u, a>> \in opening
        BY <2>1, <3>2, <3>5
      <4> QED  BY <3>1, <4>1, <4>2
    <3> QED  BY <3>4, <3>5
  <2> HIDE DEF l
  <2> QED  BY SameCardinality, <1>3, <1>4, <2>3, <2>4, <2>5 DEF Finite, A!OpensAreTracked
<1> QED  BY <1>5, <1>6

(* What the others know stays true: their rows and preferences are not those *)
(* that the committing transaction has locked.                               *)
LEMMA CommitOthers ==
  ASSUME TableTypes, RequestTypes, LockInv, RowInv, NEW r \in Requests, A!Commit(r),
         NEW q \in Requests \ {r}
  PROVE  KnowsRow(q)' /\ KnowsCounters(q)'
<1> DEFINE p == request[r]
           k == request[q]
<1>1. p.pc = "commit" /\ request'[q] = k
  BY DEF A!Commit, A!End, RequestTypes
<1>2. /\ p.kind \in A!Kinds /\ A!MyPreference(r) \in p.holds
      /\ p.kind # "open" => A!OwnRow(r) \in p.holds
      /\ p.kind = "open" => A!LinkRow(r) \in p.holds
  BY <1>1, CommitKnows
<1>3. KnowsRow(q) /\ KnowsCounters(q) /\ Asks(q)
  BY DEF RowInv, LockInv
<1>4. /\ A!Pair(q)' = A!Pair(q) /\ A!OwnRow(q)' = A!OwnRow(q) /\ A!LinkRow(q)' = A!LinkRow(q)
      /\ A!MyPreference(q)' = A!MyPreference(q)
      /\ Locked(q)' = Locked(q) /\ Counting(q)' = Counting(q)
  BY <1>1 DEF A!Pair, A!OwnRow, A!LinkRow, A!MyPreference, Locked, Counting
<1>5. \A l \in p.holds, m \in k.holds : ~ A!Conflict(l, m)
  BY DEF LockInv, LocksExclude
<1>6. Counting(q) => CountsOf(k.user)' = CountsOf(k.user)
  <2> SUFFICES ASSUME Counting(q)
               PROVE  CountsOf(k.user)' = CountsOf(k.user)
    OBVIOUS
  <2>1. A!MyPreference(q) \in k.holds
    BY <1>3 DEF KnowsCounters
  <2>2. k.user # p.user
    BY <1>2, <1>5, <2>1 DEF A!Conflict, A!MyPreference, A!Lock
  <2>3. preference' = A!Kept(preference, p.user, A!Counted(p.mine, r))
    BY DEF A!Commit
  <2> QED  BY <1>1, <2>2, <2>3 DEF CountsOf, A!Kept
<1>7. KnowsCounters(q)'
  BY <1>1, <1>3, <1>4, <1>6 DEF KnowsCounters
<1>8. CASE k.pc \in {"idle", "find"}
  BY <1>1, <1>3, <1>4, <1>7, <1>8 DEF KnowsRow, Locked
<1>9. CASE k.pc \notin {"idle", "find"} /\ k.kind = "open"
  <2>1. A!LinkRow(q) \in k.holds /\ Unopened(k.user, k.article, k.context) /\ k.before = "none"
    BY <1>3, <1>9 DEF KnowsRow, A!Types
  <2>2. ~ link'[<<k.user, k.article, k.context>>]
    <3>1. CASE p.kind # "open"
      <4>1. link' = link
        BY <3>1 DEF A!Commit
      <4> QED  BY <2>1, <4>1 DEF Unopened
    <3>2. CASE p.kind = "open"
      <4>1. <<p.user, p.article, p.context>> # <<k.user, k.article, k.context>>
        BY <1>2, <1>5, <2>1, <3>2 DEF A!Conflict, A!LinkRow, A!Pair, A!Lock
      <4>2. link' = [link EXCEPT ![<<p.user, p.article, p.context>>] = TRUE]
        BY <3>2 DEF A!Commit
      <4>3. <<k.user, k.article, k.context>> \in Users \X Stories \X Contexts
        BY <1>3, <1>9 DEF Asks
      <4>4. link'[<<k.user, k.article, k.context>>] = link[<<k.user, k.article, k.context>>]
        BY <4>1, <4>2, <4>3 DEF TableTypes
      <4> QED  BY <2>1, <4>4 DEF Unopened
    <3> QED  BY <3>1, <3>2
  <2> QED  BY <1>1, <1>4, <1>7, <1>9, <2>1, <2>2 DEF KnowsRow, Unopened
<1>10. CASE k.pc = "insert" /\ k.kind # "open"
  BY <1>1, <1>3, <1>4, <1>7, <1>10 DEF KnowsRow, Locked
<1>11. CASE Locked(q) /\ k.kind # "open"
  <2>1. A!OwnRow(q) \in k.holds /\ k.kind \in A!Kinds
    BY <1>3, <1>11 DEF KnowsRow, Asks, Locked
  <2>2. p.kind # "open" => A!Table(p.kind) # A!Table(k.kind) \/ A!Pair(r) # A!Pair(q)
    BY <1>2, <1>5, <2>1 DEF A!Conflict, A!OwnRow, A!Lock
  <2>3. /\ A!Exists(q)' <=> A!Exists(q)
        /\ k.kind \in A!Types /\ A!Exists(q) => feedback'[A!Pair(q)] = feedback[A!Pair(q)]
    <3>1. CASE k.kind \in A!Types
      <4>1. p.kind \in A!Types => A!Pair(r) # A!Pair(q)
        BY <2>2, <3>1 DEF A!Table, A!Types
      <4>2. (A!Pair(q) \in DOMAIN feedback' <=> A!Pair(q) \in DOMAIN feedback)
            /\ (A!Pair(q) \in DOMAIN feedback => feedback'[A!Pair(q)] = feedback[A!Pair(q)])
        BY <4>1 DEF A!Commit, A!Kept
      <4> QED  BY <1>1, <1>4, <3>1, <4>2 DEF A!Exists, A!Types
    <3>2. CASE k.kind \in {"save", "unsave"}
      <4>1. p.kind \in {"save", "unsave"} => A!Pair(r) # A!Pair(q)
        BY <2>2, <3>2 DEF A!Table, A!Types
      <4>2. A!Pair(q) \in saved' <=> A!Pair(q) \in saved
        BY <4>1 DEF A!Commit
      <4> QED  BY <1>1, <1>4, <3>2, <4>2 DEF A!Exists, A!Types
    <3> QED  BY <1>11, <2>1, <3>1, <3>2 DEF A!Kinds
  <2>4. KnowsRow(q)'
    <3>1. /\ k.before # "none" => k.kind \in A!Types /\ feedback[A!Pair(q)] = k.before
          /\ A!Exists(q) <=> k.kind = "unsave" \/ k.before # "none"
      BY <1>3, <1>11 DEF KnowsRow
    <3>2. k.before # "none" => feedback'[A!Pair(q)] = k.before
      BY <2>3, <3>1
    <3> QED  BY <1>1, <1>4, <1>11, <2>1, <2>3, <3>1, <3>2 DEF KnowsRow
  <2> QED  BY <1>7, <2>4
<1>12. k.pc \in A!Pc
  BY DEF RequestTypes, InProgress
<1> QED  BY <1>8, <1>9, <1>10, <1>11, <1>12 DEF Locked, A!Pc

LEMMA CommitStep ==
  ASSUME TableTypes, RequestTypes, LockInv, RowInv, SumInv, NEW r \in Requests, A!Commit(r)
  PROVE  TableTypes' /\ RequestTypes' /\ LockInv' /\ RowInv' /\ SumInv'
<1>1. TableTypes'
  BY CommitTypes
<1>2. A!Free \in InProgress
  BY DEF A!Free, InProgress, A!Pc, A!Kinds, A!Types, A!Counts, A!Zero
<1>3. request' = [request EXCEPT ![r] = A!Free]
  BY DEF A!Commit, A!End
<1>4. /\ request'[r] = A!Free /\ RequestTypes'
      /\ \A q \in Requests \ {r} : request'[q] = request[q]
  BY <1>2, <1>3 DEF RequestTypes
<1>5. Asks(r)' /\ LocksInOrder(r)' /\ KnowsRow(r)' /\ KnowsCounters(r)'
  BY <1>4 DEF A!Free, Asks, LocksInOrder, KnowsRow, KnowsCounters, Locked, Counting
<1>6. \A q \in Requests \ {r} : Asks(q)' /\ LocksInOrder(q)'
  BY <1>4 DEF LockInv, Asks, LocksInOrder
<1>7. LocksExclude'
  BY <1>4 DEF LockInv, LocksExclude, A!Free, A!Conflict
<1>8. \A q \in Requests \ {r} : KnowsRow(q)' /\ KnowsCounters(q)'
  BY CommitOthers
<1>9. SumInv'
  BY CommitFinite, CommitCounts DEF SumInv
<1> QED  BY <1>1, <1>4, <1>5, <1>6, <1>7, <1>8, <1>9 DEF LockInv, RowInv

-----------------------------------------------------------------------------
(***************************************************************************)
(* Sums.  What MapThenSumSet adds up is the counter of any one user and    *)
(* the sum of the others': by least counterexamples, for its recursive     *)
(* function exists on the parts of a finite set and is the only one.       *)
(***************************************************************************)
(* A set of numbers with a member has a least one. *)
LEMMA Least ==
  ASSUME NEW N \in SUBSET Nat, N # {}
  PROVE  \E n \in N : \A m \in N : n <= m
<1>1. PICK n \in N : \A m \in N : ~ (<<m, n>> \in OpToRel(<, Nat))
  BY NatLessThanWellFounded, WFMin
<1>2. \A m \in N : ~ (m < n)
  BY <1>1 DEF OpToRel
<1> QED  BY <1>2

(* g adds up the counters of a signal s that w keeps for the users of every  *)
(* part of Z, as MapThenSumSet does.                                         *)
First(t) == CHOOSE x \in t : TRUE
Adds(g, w, s, Z) ==
  g = [t \in SUBSET Z |-> IF t = {} THEN 0 ELSE w[First(t)][s] + g[t \ {First(t)}]]
Total(w, s, Z) == A!MapThenSumSet(LAMBDA u : w[u][s], Z)

LEMMA TotalAdds == \A w, s, Z : Total(w, s, Z) = (CHOOSE g : Adds(g, w, s, Z))[Z]
  BY DEF Total, A!MapThenSumSet, A!MapThenFoldSet, Adds, First

LEMMA Firsts == \A t : t # {} => First(t) \in t
  BY DEF First

LEMMA SmallerSets ==
  ASSUME NEW Z, IsFiniteSet(Z), NEW t \in SUBSET Z, t # {}, NEW x \in t
  PROVE  /\ t \ {x} \in SUBSET Z /\ Cardinality(t) \in Nat /\ Cardinality(t \ {x}) \in Nat
         /\ Cardinality(t \ {x}) < Cardinality(t)
<1>1. IsFiniteSet(t)
  BY FS_Subset
<1>2. IsFiniteSet(t \ {x}) /\ Cardinality(t \ {x}) = Cardinality(t) - 1
  BY <1>1, FS_RemoveElement
<1>3. Cardinality(t) \in Nat /\ Cardinality(t \ {x}) \in Nat
  BY <1>1, <1>2, FS_CardinalityType
<1> QED  BY <1>2, <1>3

LEMMA AddsExists ==
  ASSUME NEW w, NEW s, NEW Z, IsFiniteSet(Z)
  PROVE  \E g : Adds(g, w, s, Z)
<1> DEFINE Small(n) == {t \in SUBSET Z : Cardinality(t) <= n}
           Upto(g, n) == g = [t \in Small(n) |->
                                IF t = {} THEN 0 ELSE w[First(t)][s] + g[t \ {First(t)}]]
           Bad == {n \in Nat : ~ \E g : Upto(g, n)}
<1>1. Bad = {}
  <2> SUFFICES ASSUME Bad # {}  PROVE FALSE
    OBVIOUS
  <2>1. PICK n \in Bad : \A m \in Bad : n <= m
    BY Least
  <2>2. CASE n = 0
    <3> DEFINE g == [t \in Small(0) |-> 0]
    <3>1. \A t \in Small(0) : t = {}
      <4> SUFFICES ASSUME NEW t \in Small(0), t # {}  PROVE FALSE
        OBVIOUS
      <4>1. PICK x : x \in t
        OBVIOUS
      <4>2. /\ Cardinality(t) \in Nat /\ Cardinality(t \ {x}) \in Nat
            /\ Cardinality(t \ {x}) < Cardinality(t)
        BY <4>1, SmallerSets
      <4> QED  BY <4>2
    <3>2. Upto(g, 0)
      BY <3>1
    <3> QED  BY <2>1, <2>2, <3>2
  <2>3. CASE n # 0
    <3>1. n - 1 \in Nat /\ n - 1 \notin Bad
      <4>1. n \in Nat /\ \A m \in Bad : m \in Nat /\ n <= m
        BY <2>1
      <4>2. n - 1 \in Nat
        BY <2>3, <4>1
      <4> HIDE DEF Bad
      <4> QED  BY <4>1, <4>2
    <3>2. PICK g : Upto(g, n - 1)
      BY <3>1
    <3> DEFINE h == [t \in Small(n) |->
                       IF t = {} THEN 0 ELSE w[First(t)][s] + g[t \ {First(t)}]]
    <3>3. \A t \in Small(n) : t # {} => t \ {First(t)} \in Small(n - 1)
      <4> SUFFICES ASSUME NEW t \in Small(n), t # {}  PROVE t \ {First(t)} \in Small(n - 1)
        OBVIOUS
      <4>1. First(t) \in t
        BY Firsts
      <4> QED  BY <4>1, <2>1, SmallerSets
    <3>4. \A t \in Small(n - 1) : t \in Small(n)
      <4> SUFFICES ASSUME NEW t \in Small(n - 1)  PROVE Cardinality(t) <= n
        OBVIOUS
      <4>1. Cardinality(t) \in Nat
        BY FS_Subset, FS_CardinalityType
      <4> QED  BY <4>1, <2>1
    <3>5. \A t \in Small(n - 1) : h[t] = g[t]
      BY <3>2, <3>4
    <3>6. \A t \in Small(n) : t # {} => h[t \ {First(t)}] = g[t \ {First(t)}]
      BY <3>3, <3>5
    <3>7. Upto(h, n)
      BY <3>6
    <3> QED  BY <3>7, <2>1
  <2> QED  BY <2>2, <2>3
<1>2. Cardinality(Z) \in Nat
  BY FS_CardinalityType
<1>3. PICK g : Upto(g, Cardinality(Z))
  BY <1>1, <1>2
<1>4. \A t \in SUBSET Z : t \in Small(Cardinality(Z))
  BY FS_Subset
<1>5. Small(Cardinality(Z)) = SUBSET Z
  BY <1>4
<1>6. Adds(g, w, s, Z)
  BY <1>3, <1>5 DEF Adds
<1> QED  BY <1>6

SameIn(w, v, s, X) == \A u \in X : w[u][s] = v[u][s]

(* Two counts that agree on the users of a set add up to the same. *)
LEMMA AddsAgree ==
  ASSUME NEW w, NEW v, NEW s, NEW Y, IsFiniteSet(Y), NEW Z, IsFiniteSet(Z),
         NEW g, Adds(g, w, s, Y), NEW h, Adds(h, v, s, Z),
         NEW X \in SUBSET Y, X \in SUBSET Z, SameIn(w, v, s, X)
  PROVE  g[X] = h[X]
<1> DEFINE Bad == {n \in Nat : \E t \in SUBSET X : Cardinality(t) = n /\ g[t] # h[t]}
<1>1. Bad = {}
  <2> SUFFICES ASSUME Bad # {}  PROVE FALSE
    OBVIOUS
  <2>1. PICK n \in Bad : \A m \in Bad : n <= m
    BY Least
  <2>2. PICK t \in SUBSET X : Cardinality(t) = n /\ g[t] # h[t]
    BY <2>1
  <2>3. \A r \in SUBSET X : r \in SUBSET Y /\ r \in SUBSET Z
    OBVIOUS
  <2>4. t # {}
    BY <2>2, <2>3 DEF Adds
  <2> DEFINE x == First(t)
  <2>5. x \in t
    BY <2>4, Firsts
  <2>6. IsFiniteSet(X)
    BY FS_Subset
  <2>7. /\ t \ {x} \in SUBSET X /\ Cardinality(t) \in Nat /\ Cardinality(t \ {x}) \in Nat
        /\ Cardinality(t \ {x}) < Cardinality(t)
    BY <2>4, <2>5, <2>6, SmallerSets
  <2>8. Cardinality(t \ {x}) \notin Bad
    <3>1. n \in Nat /\ \A m \in Bad : m \in Nat /\ n <= m
      BY <2>1
    <3> HIDE DEF Bad
    <3> QED  BY <2>2, <2>7, <3>1
  <2>9. g[t \ {x}] = h[t \ {x}]
    BY <2>7, <2>8
  <2>10. g[t] = w[x][s] + g[t \ {x}] /\ h[t] = v[x][s] + h[t \ {x}]
    BY <2>3, <2>4 DEF Adds
  <2>11. w[x][s] = v[x][s]
    BY <2>5 DEF SameIn
  <2> QED  BY <2>2, <2>9, <2>10, <2>11
<1>2. IsFiniteSet(X)
  BY FS_Subset
<1>3. Cardinality(X) \in Nat
  BY <1>2, FS_CardinalityType
<1> QED  BY <1>1, <1>3

LEMMA TotalsAgree ==
  ASSUME NEW w, NEW v, NEW s, NEW Z, IsFiniteSet(Z), SameIn(w, v, s, Z)
  PROVE  Total(w, s, Z) = Total(v, s, Z)
<1>1. PICK g : Adds(g, w, s, Z) /\ g = CHOOSE x : Adds(x, w, s, Z)
  BY AddsExists
<1>2. PICK h : Adds(h, v, s, Z) /\ h = CHOOSE x : Adds(x, v, s, Z)
  BY AddsExists
<1>3. g[Z] = h[Z]
  <2>1. Z \in SUBSET Z
    OBVIOUS
  <2>2. Adds(g, w, s, Z) /\ Adds(h, v, s, Z)
    BY <1>1, <1>2
  <2> QED  BY <2>1, <2>2, AddsAgree
<1> QED  BY <1>1, <1>2, <1>3, TotalAdds

(* The sum by its first member. *)
LEMMA TotalFirst ==
  ASSUME NEW w, NEW s, NEW Z, IsFiniteSet(Z)
  PROVE  Total(w, s, Z) = IF Z = {} THEN 0 ELSE w[First(Z)][s] + Total(w, s, Z \ {First(Z)})
<1>1. PICK g : Adds(g, w, s, Z) /\ g = CHOOSE x : Adds(x, w, s, Z)
  BY AddsExists
<1>2. Total(w, s, Z) = g[Z]
  BY <1>1, TotalAdds
<1>3. CASE Z = {}
  BY <1>1, <1>2, <1>3 DEF Adds
<1>4. CASE Z # {}
  <2> DEFINE Y == Z \ {First(Z)}
  <2>1. IsFiniteSet(Y)
    BY FS_RemoveElement
  <2>2. PICK h : Adds(h, w, s, Y) /\ h = CHOOSE x : Adds(x, w, s, Y)
    BY <2>1, AddsExists
  <2>3. Total(w, s, Y) = h[Y]
    BY <2>2, TotalAdds
  <2>4. g[Y] = h[Y]
    <3>1. SameIn(w, w, s, Y) /\ Y \in SUBSET Z /\ Y \in SUBSET Y
      BY DEF SameIn
    <3> HIDE DEF Y
    <3> QED  BY <1>1, <2>1, <2>2, <3>1, AddsAgree
  <2>5. g[Z] = w[First(Z)][s] + g[Y]
    BY <1>1, <1>4 DEF Adds
  <2> QED  BY <1>2, <1>4, <2>3, <2>4, <2>5
<1> QED  BY <1>3, <1>4

(* The sum by any member. *)
LEMMA TotalStep ==
  ASSUME NEW w, NEW s, NEW Z, IsFiniteSet(Z), \A u \in Z : w[u][s] \in Nat
  PROVE  /\ Total(w, s, Z) \in Nat
         /\ \A u \in Z : Total(w, s, Z) = w[u][s] + Total(w, s, Z \ {u})
<1> DEFINE Fine(t) == /\ Total(w, s, t) \in Nat
                      /\ \A u \in t : Total(w, s, t) = w[u][s] + Total(w, s, t \ {u})
           Bad == {n \in Nat : \E t \in SUBSET Z : Cardinality(t) = n /\ ~ Fine(t)}
<1>1. Bad = {}
  <2> SUFFICES ASSUME Bad # {}  PROVE FALSE
    OBVIOUS
  <2>1. PICK n \in Bad : \A m \in Bad : n <= m
    BY Least
  <2>2. PICK t \in SUBSET Z : Cardinality(t) = n /\ ~ Fine(t)
    BY <2>1
  <2>3. ASSUME NEW r \in SUBSET Z, Cardinality(r) \in Nat, Cardinality(r) < Cardinality(t)
        PROVE  Fine(r)
    <3>1. n \in Nat /\ \A m \in Bad : m \in Nat /\ n <= m
      BY <2>1
    <3>2. Cardinality(r) \notin Bad
      <4> HIDE DEF Bad
      <4> QED  BY <2>2, <2>3, <3>1
    <3> QED  BY <2>3, <3>2
  <2>4. ASSUME NEW r \in SUBSET t, NEW u \in r
        PROVE  Fine(r \ {u})
    <3>1. IsFiniteSet(r) /\ IsFiniteSet(t)
      BY FS_Subset
    <3>2. Cardinality(r) \in Nat /\ Cardinality(r \ {u}) \in Nat /\ Cardinality(r \ {u}) < Cardinality(r)
      BY <3>1, SmallerSets
    <3>3. Cardinality(r) <= Cardinality(t) /\ Cardinality(t) \in Nat
      BY <3>1, FS_Subset, FS_CardinalityType
    <3>4. Cardinality(r \ {u}) < Cardinality(t)
      BY <3>2, <3>3
    <3> HIDE DEF Fine
    <3> QED  BY <3>2, <3>4, <2>3
  <2> DEFINE x == First(t)
  <2>5. IsFiniteSet(t)
    BY FS_Subset
  <2>6. t = {} => Fine(t)
    <3>1. t = {} => Total(w, s, t) = 0
      BY <2>5, TotalFirst
    <3> QED  BY <3>1
  <2>7. CASE t # {}
    <3>1. x \in t /\ x \in Z
      BY <2>7, Firsts
    <3>2. Total(w, s, t) = w[x][s] + Total(w, s, t \ {x})
      BY <2>5, <2>7, TotalFirst
    <3> HIDE DEF x
    <3>3. Fine(t \ {x})
      <4> HIDE DEF Fine
      <4>1. t \in SUBSET t
        OBVIOUS
      <4> QED  BY <2>4, <3>1, <4>1
    <3>4. Total(w, s, t) \in Nat
      BY <3>1, <3>2, <3>3
    <3>5. ASSUME NEW u \in t, u # x
          PROVE  Total(w, s, t) = w[u][s] + Total(w, s, t \ {u})
      <4>1. u \in t \ {x} /\ x \in t \ {u} /\ (t \ {x}) \ {u} = (t \ {u}) \ {x}
        BY <3>1, <3>5
      <4>2. Fine(t \ {u})
        <5> HIDE DEF Fine
        <5>1. t \in SUBSET t
          OBVIOUS
        <5> QED  BY <2>4, <5>1
      <4>3. Total(w, s, t \ {x}) = w[u][s] + Total(w, s, (t \ {x}) \ {u})
        BY <3>3, <4>1
      <4>4. Total(w, s, t \ {u}) = w[x][s] + Total(w, s, (t \ {u}) \ {x})
        BY <4>2, <4>1
      <4>5. Fine((t \ {x}) \ {u})
        <5> HIDE DEF Fine
        <5>1. t \ {x} \in SUBSET t
          OBVIOUS
        <5> QED  BY <2>4, <4>1, <5>1
      <4>6. w[u][s] \in Nat /\ w[x][s] \in Nat /\ Total(w, s, (t \ {x}) \ {u}) \in Nat
        BY <3>1, <4>5
      <4>7. Total(w, s, (t \ {u}) \ {x}) = Total(w, s, (t \ {x}) \ {u})
        BY <4>1
      <4> HIDE DEF Fine, Bad
      <4> QED  BY <3>2, <4>3, <4>4, <4>6, <4>7
    <3> QED  BY <2>2, <3>2, <3>4, <3>5
  <2> QED  BY <2>2, <2>6, <2>7
<1>2. Cardinality(Z) \in Nat
  BY FS_CardinalityType
<1> QED  BY <1>1, <1>2

-----------------------------------------------------------------------------
(***************************************************************************)
(* The theorems.                                                           *)
(***************************************************************************)
LEMMA InitIInv ==
  A!Init => IInv
<1> SUFFICES ASSUME A!Init  PROVE  IInv
  OBVIOUS
<1>1. A!Free \in InProgress
  BY DEF A!Free, InProgress, A!Pc, A!Kinds, A!Types, A!Counts, A!Zero
<1>2. DOMAIN feedback = {} /\ DOMAIN preference = {}
  BY DEF A!Init
<1>3. TableTypes /\ RequestTypes
  <2>1. A!NoSave \in A!Save /\ A!Zero \in A!Counts
    BY DEF A!NoSave, A!Save, A!Counts, A!Zero, A!Columns
  <2> QED  BY <1>1, <1>2, <2>1 DEF A!Init, TableTypes, RequestTypes
<1>4. LockInv
  BY DEF A!Init, LockInv, LocksExclude, Asks, LocksInOrder, A!Free
<1>5. RowInv
  BY DEF A!Init, RowInv, KnowsRow, KnowsCounters, Locked, Counting, A!Free
<1>6. IsFiniteSet({}) /\ Cardinality({}) = 0
  BY FS_EmptySet
<1>7. A!Opened = {}
  BY DEF A!Init, A!Opened
<1>8. Finite
  BY <1>2, <1>6, <1>7 DEF A!Init, Finite
<1>9. A!OpensAreTracked
  <2>1. \A a : {l \in A!Opened : l[2] = a} = {}
    BY <1>7
  <2> QED  BY SameCardinality, <1>6, <2>1 DEF A!Init, A!OpensAreTracked
<1>10. A!PreferenceCountsRows
  <2>1. \A u, t : A!FeedbackOf(u, t) = 0
    <3> SUFFICES ASSUME NEW u, NEW t  PROVE  A!FeedbackOf(u, t) = 0
      OBVIOUS
    <3>1. {x \in {y \in DOMAIN feedback : feedback[y] = t} : x[1] = u} = {}
      BY <1>2
    <3> QED  BY SameCardinality, <1>6, <3>1 DEF A!FeedbackOf, A!OfUser
  <2>2. \A u : A!OfUser({}, u) = 0
    <3> SUFFICES ASSUME NEW u  PROVE  A!OfUser({}, u) = 0
      OBVIOUS
    <3>1. {x \in {} : x[1] = u} = {}
      OBVIOUS
    <3> QED  BY SameCardinality, <1>6, <3>1 DEF A!OfUser
  <2> QED  BY <1>2, <1>7, <2>1, <2>2 DEF A!Init, A!PreferenceCountsRows, A!Zero, A!Signals, A!Types
<1> QED  BY <1>3, <1>4, <1>5, <1>8, <1>9, <1>10 DEF IInv, SumInv

(* SourcesService writes nothing but the source, and its own save. *)
LEMMA OperatorSteps ==
  ASSUME TableTypes, (\E o \in Operators : A!SaveStep(o)) \/ A!RemoveSource
  PROVE  UNCHANGED A!readers /\ TableTypes'
<1>1. UNCHANGED A!readers
  BY DEF A!SaveStep, A!LoadSource, A!CompareSource, A!WriteSource, A!RemoveSource, A!readers
<1>2. source' \in A!Counts
  <2>1. CASE source' = source
    BY <2>1 DEF TableTypes
  <2>2. ASSUME NEW o \in Operators, A!WriteSource(o)  PROVE  source' \in A!Counts
    <3>1. source \in A!Counts /\ save[o].entity \in A!Counts
      BY DEF TableTypes, A!Save
    <3>2. source' = [s \in A!Signals |-> IF s \in save[o].columns THEN save[o].entity[s] ELSE source[s]]
      BY <2>2 DEF A!WriteSource
    <3> QED  BY <3>1, <3>2 DEF A!Counts
  <2> QED  BY <2>1, <2>2 DEF A!SaveStep, A!LoadSource, A!CompareSource, A!RemoveSource
<1>3. removed' \in BOOLEAN
  BY DEF A!SaveStep, A!LoadSource, A!CompareSource, A!WriteSource, A!RemoveSource, TableTypes
<1>4. uncounted' \subseteq A!Signals
  BY DEF A!SaveStep, A!LoadSource, A!CompareSource, A!WriteSource, A!RemoveSource, TableTypes
<1>5. save' \in [Operators -> A!Save]
  <2>1. CASE A!RemoveSource
    BY <2>1 DEF A!RemoveSource, TableTypes
  <2>2. CASE \E o \in Operators : A!LoadSource(o)
    BY <2>2 DEF A!LoadSource, TableTypes, A!Save, A!NoSave, A!Columns
  <2>3. CASE \E o \in Operators : A!CompareSource(o)
    <3> PICK o \in Operators : A!CompareSource(o)
      BY <2>3
    <3> DEFINE columns == {s \in A!Signals : source[s] # save[o].entity[s]}
                            \cup (IF removed THEN {"deletedAt"} ELSE {})
    <3>1. columns \in SUBSET A!Columns /\ save[o] \in A!Save
      BY DEF A!Columns, TableTypes
    <3>2. save' = [save EXCEPT ![o] = [save[o] EXCEPT !.pc = "selected", !.columns = columns]]
      BY DEF A!CompareSource
    <3> HIDE DEF columns
    <3>3. [save[o] EXCEPT !.pc = "selected", !.columns = columns] \in A!Save
      BY <3>1 DEF A!Save
    <3> QED  BY <3>2, <3>3 DEF TableTypes
  <2>4. CASE \E o \in Operators : A!WriteSource(o)
    BY <2>4 DEF A!WriteSource, TableTypes, A!Save, A!NoSave, A!Columns, A!Zero, A!Counts
  <2> QED  BY <2>1, <2>2, <2>3, <2>4 DEF A!SaveStep
<1> QED  BY <1>1, <1>2, <1>3, <1>4, <1>5 DEF TableTypes, A!readers

LEMMA StepIInv ==
  IInv /\ [A!Next]_(A!vars) => IInv'
<1> SUFFICES ASSUME IInv, [A!Next]_(A!vars)  PROVE  IInv'
  OBVIOUS
<1>1. TableTypes /\ RequestTypes /\ LockInv /\ RowInv /\ SumInv
  BY DEF IInv
<1>2. ASSUME UNCHANGED A!rows  PROVE  TableTypes'
  BY <1>1, <1>2 DEF TableTypes, A!rows, A!sourceRow
<1>3. ASSUME NEW r \in Requests, A!Ask(r)  PROVE  IInv'
  BY <1>1, <1>2, <1>3, AskStep DEF IInv, A!Ask
<1>4. ASSUME NEW r \in Requests, A!RollBack(r)  PROVE  IInv'
  BY <1>1, <1>2, <1>4, EndStep DEF IInv, A!RollBack
<1>5. ASSUME NEW r \in Requests, A!FindFeedback(r) \/ A!FindSaved(r) \/ A!FindRemoved(r) \/ A!FindLink(r)
      PROVE  IInv'
  <2>1. UNCHANGED A!rows
    BY <1>5 DEF A!FindFeedback, A!FindSaved, A!FindRemoved, A!FindLink
  <2> QED  BY <1>1, <1>2, <1>5, <2>1, FindSteps DEF IInv
<1>6. ASSUME NEW r \in Requests, A!Insert(r) \/ A!CountOpen(r)  PROVE  IInv'
  <2>1. UNCHANGED A!rows
    BY <1>6 DEF A!Insert, A!CountOpen
  <2> QED  BY <1>1, <1>2, <1>6, <2>1, InsertSteps DEF IInv
<1>7. ASSUME NEW r \in Requests, A!FindPreference(r) \/ A!CreatePreference(r)  PROVE  IInv'
  <2>1. UNCHANGED A!rows
    BY <1>7 DEF A!FindPreference, A!CreatePreference
  <2> QED  BY <1>1, <1>2, <1>7, <2>1, PreferenceSteps DEF IInv
<1>8. ASSUME NEW r \in Requests, A!ReadSource(r) \/ A!ReadSourceAgain(r)  PROVE  IInv'
  <2>1. UNCHANGED A!rows
    BY <1>8 DEF A!ReadSource, A!ReadSourceAgain
  <2> QED  BY <1>1, <1>2, <1>8, <2>1, SourceStep DEF IInv
<1>9. ASSUME NEW r \in Requests, A!Commit(r)  PROVE  IInv'
  BY <1>1, <1>9, CommitStep DEF IInv
<1>10. ASSUME UNCHANGED A!readers, TableTypes'  PROVE  IInv'
  <2>1. /\ feedback' = feedback /\ saved' = saved /\ opening' = opening /\ link' = link
        /\ tracked' = tracked /\ preference' = preference /\ request' = request
    BY <1>10 DEF A!readers
  <2>2. RequestTypes'
    BY <1>1, <2>1 DEF RequestTypes
  <2>3. LockInv'
    BY <1>1, <2>1 DEF LockInv, LocksExclude, A!Conflict, Asks, LocksInOrder
  <2>4. RowInv'
    BY <1>1, <2>1 DEF RowInv, KnowsRow, KnowsCounters, Locked, Counting, A!OwnRow, A!LinkRow,
       A!MyPreference, A!Pair, A!Exists, CountsOf, Unopened
  <2>5. SumInv'
    BY <1>1, <2>1, SumsStay
  <2> QED  BY <1>10, <2>2, <2>3, <2>4, <2>5 DEF IInv
<1>11. CASE (\E o \in Operators : A!SaveStep(o)) \/ A!RemoveSource
  BY <1>1, <1>10, <1>11, OperatorSteps
<1>12. CASE UNCHANGED A!vars
  <2>1. UNCHANGED A!readers /\ UNCHANGED A!rows
    BY <1>12 DEF A!vars, A!readers, A!rows, A!sourceRow
  <2> QED  BY <1>2, <1>10, <2>1
<1> QED  BY <1>3, <1>4, <1>5, <1>6, <1>7, <1>8, <1>9, <1>11, <1>12 DEF A!Next, A!Step

LEMMA Inductive == A!Spec => []IInv
  BY InitIInv, StepIInv, PTL DEF A!Spec

(* The counters of every reader's preference are the reader's rows and the   *)
(* links the reader followed, whatever else ran at the same time and failed. *)
THEOREM CountersMatchRows == A!Spec => []A!PreferenceCountsRows
<1>1. IInv => A!PreferenceCountsRows
  BY DEF IInv, SumInv
<1> QED  BY <1>1, Inductive, PTL

(* An article's tracked opens are the links to it that were followed, and a  *)
(* reader has an opening of it exactly when one of them was the reader's.    *)
THEOREM OpensCountLinks == A!Spec => []A!OpensAreTracked
<1>1. IInv => A!OpensAreTracked
  BY DEF IInv, SumInv
<1> QED  BY <1>1, Inductive, PTL

(* The bound of the run, on the requests of one behaviour.                    *)
ActionsBound == MaxActions \in Nat

(* Tables, requests and the number of requests have their types.             *)
THEOREM TransactionTypes == ActionsBound => (A!Spec => []A!TypeOK)
<1> SUFFICES ASSUME ActionsBound  PROVE  A!Spec => []A!TypeOK
  OBVIOUS
<1> DEFINE Asked == asked \in 0 .. MaxActions
<1>1. A!Init => Asked
  BY DEF A!Init, ActionsBound
<1>2. Asked /\ [A!Next]_(A!vars) => Asked'
  <2> SUFFICES ASSUME Asked, [A!Next]_(A!vars)  PROVE  Asked'
    OBVIOUS
  <2>1. ASSUME NEW r \in Requests, A!Ask(r)  PROVE  Asked'
    <3>1. asked < MaxActions /\ asked' = asked + 1
      BY <2>1 DEF A!Ask
    <3> QED  BY <3>1 DEF ActionsBound
  <2>2. ASSUME NEW r \in Requests, A!Step(r) \/ A!RollBack(r)  PROVE  asked' = asked
    BY <2>2 DEF A!Step, A!FindFeedback, A!FindSaved, A!FindRemoved, A!FindLink, A!Insert,
       A!CountOpen, A!FindPreference, A!CreatePreference, A!ReadSource, A!ReadSourceAgain,
       A!Commit, A!RollBack
  <2>3. CASE UNCHANGED A!vars
    BY <2>3 DEF A!vars
  <2>4. CASE (\E o \in Operators : A!LoadSource(o)) \/ A!RemoveSource
    <3>1. asked < MaxActions /\ asked' = asked + 1
      BY <2>4 DEF A!LoadSource, A!RemoveSource
    <3> QED  BY <3>1 DEF ActionsBound
  <2>5. CASE \E o \in Operators : A!CompareSource(o) \/ A!WriteSource(o)
    BY <2>5 DEF A!CompareSource, A!WriteSource
  <2> QED  BY <2>1, <2>2, <2>3, <2>4, <2>5 DEF A!Next, A!SaveStep
<1>3. IInv /\ Asked => A!TypeOK
  BY DEF IInv, TableTypes, RequestTypes, InProgress, A!TypeOK
<1> QED  BY <1>1, <1>2, <1>3, Inductive, PTL DEF A!Spec

-----------------------------------------------------------------------------
(***************************************************************************)
(* The counters of the source.                                             *)
(***************************************************************************)

(* Who is about to change the source has it under lock, as it was read. *)
KnowsSource(r) ==
  request[r].applies # {} =>
    /\ request[r].pc = "commit"
    /\ A!SourceRow("update") \in request[r].holds /\ request[r].global = source

SourceInv ==
  /\ \A r \in Requests : KnowsSource(r)
  /\ IsFiniteSet(DOMAIN preference)
  /\ \A s \in A!Signals \ uncounted : source[s] = Total(preference, s, DOMAIN preference)

LEMMA SourceSums == SourceInv => A!SourceSumsReaders
  BY DEF SourceInv, A!SourceSumsReaders, Total

LEMMA SourceStays ==
  ASSUME RequestTypes, SourceInv, UNCHANGED <<source, preference, uncounted>>,
         NEW r \in Requests, NEW new, A!Advance(r, new), new.applies = {}
  PROVE  SourceInv'
<1>1. request'[r] = new /\ \A q \in Requests \ {r} : request'[q] = request[q]
  BY DEF A!Advance, RequestTypes
<1>2. \A q \in Requests : KnowsSource(q)'
  BY <1>1 DEF SourceInv, KnowsSource
<1> QED  BY <1>2 DEF SourceInv

(* Requests that do not get to their commit leave the source alone. *)
LEMMA QuietSource ==
  ASSUME IInv, SourceInv, NEW r \in Requests,
         \/ A!Ask(r) \/ A!FindFeedback(r) \/ A!FindSaved(r) \/ A!FindRemoved(r) \/ A!FindLink(r)
         \/ A!Insert(r) \/ A!CountOpen(r) \/ A!FindPreference(r) \/ A!CreatePreference(r)
         \/ A!RollBack(r)
  PROVE  SourceInv'
<1>1. UNCHANGED <<source, preference, uncounted>>
  BY DEF A!Ask, A!FindFeedback, A!FindSaved, A!FindRemoved, A!FindLink, A!Insert, A!CountOpen,
     A!FindPreference, A!CreatePreference, A!RollBack, A!rows, A!sourceRow
<1>2. RequestTypes /\ Asks(r) /\ request[r] \in InProgress
  BY DEF IInv, LockInv, RequestTypes
<1>3. A!Free.applies = {}
  BY DEF A!Free
<1>3a. request[r].pc # "commit" => request[r].applies = {}
  BY DEF SourceInv, KnowsSource
<1>4. \A pc \in A!Pc : A!Took(r, pc).applies = request[r].applies /\ A!Took(r, pc) \in InProgress
  BY <1>2, TookFacts
<1>5. CASE A!End(r)
  BY <1>1, <1>2, <1>3, <1>5, SourceStays DEF IInv, A!End, A!Advance
<1>6. CASE request[r].applies = {} /\ \E pc \in A!Pc : A!Advance(r, A!Took(r, pc))
  BY <1>1, <1>2, <1>4, <1>6, SourceStays
<1>7. CASE A!Ask(r)
  <2>1. PICK k \in A!Kinds, u \in Users, a \in Stories, c \in Contexts :
          A!Advance(r, [A!Free EXCEPT !.pc = "find", !.kind = k, !.user = u, !.article = a,
                                      !.context = IF k = "open" THEN c ELSE "none"])
    BY <1>7 DEF A!Ask
  <2> DEFINE new == [A!Free EXCEPT !.pc = "find", !.kind = k, !.user = u, !.article = a,
                                   !.context = IF k = "open" THEN c ELSE "none"]
  <2>2. new.applies = {}
    BY DEF A!Free
  <2> HIDE DEF new
  <2> QED  BY <1>1, <1>2, <2>1, <2>2, SourceStays DEF new
<1>8. CASE A!FindFeedback(r)
  <2>1. CASE A!Exists(r)
    <3> DEFINE new == [A!Took(r, "preference") EXCEPT !.before = feedback[A!Pair(r)]]
    <3>1. new.applies = {}
      BY <1>4, <1>8, <1>3a DEF InProgress, A!Pc, A!FindFeedback
    <3>2. A!Advance(r, new)
      BY <1>8, <2>1 DEF A!FindFeedback
    <3> HIDE DEF new
    <3> QED  BY <1>1, <1>2, <3>1, <3>2, SourceStays
  <2>2. CASE ~ A!Exists(r)
    BY <1>6, <1>8, <1>3a, <2>2 DEF A!FindFeedback, A!Pc
  <2> QED  BY <2>1, <2>2
<1>9. CASE A!FindPreference(r)
  <2>1. CASE request[r].user \in DOMAIN preference
    <3> DEFINE new == [A!Took(r, "source") EXCEPT !.mine = preference[request[r].user]]
    <3>1. new.applies = {}
      BY <1>4, <1>9, <1>3a DEF InProgress, A!Pc, A!FindPreference
    <3>2. A!Advance(r, new)
      BY <1>9, <2>1 DEF A!FindPreference
    <3> HIDE DEF new
    <3> QED  BY <1>1, <1>2, <3>1, <3>2, SourceStays
  <2>2. CASE request[r].user \notin DOMAIN preference
    BY <1>6, <1>9, <1>3a, <2>2 DEF A!FindPreference, A!Pc
  <2> QED  BY <2>1, <2>2
<1>10. CASE \/ A!FindSaved(r) \/ A!FindRemoved(r) \/ A!FindLink(r) \/ A!Insert(r) \/ A!CountOpen(r)
            \/ A!CreatePreference(r) \/ A!RollBack(r)
  BY <1>5, <1>6, <1>10, <1>3a DEF A!FindSaved, A!FindRemoved, A!FindLink, A!Insert, A!CountOpen,
     A!CreatePreference, A!RollBack, A!Pc
<1> QED  BY <1>7, <1>8, <1>9, <1>10

LEMMA ReadSourceSums ==
  ASSUME IInv, SourceInv, NEW r \in Requests, A!ReadSource(r) \/ A!ReadSourceAgain(r)
  PROVE  SourceInv'
<1>1. UNCHANGED <<source, preference, uncounted>> /\ request[r].pc \in {"source", "again"}
  BY DEF A!ReadSource, A!ReadSourceAgain, A!rows, A!sourceRow
<1>2. RequestTypes /\ Asks(r) /\ request[r] \in InProgress
  BY DEF IInv, LockInv, RequestTypes
<1>3. request[r].applies = {}
  BY <1>1 DEF SourceInv, KnowsSource
<1>4. ASSUME NEW new, A!Advance(r, new),
             new.applies # {} => A!SourceRow("update") \in new.holds /\ new.global = source,
             new.pc # "commit" => new.applies = {}
      PROVE  SourceInv'
  <2>1. request'[r] = new /\ \A q \in Requests \ {r} : request'[q] = request[q]
    BY <1>2, <1>4 DEF A!Advance, RequestTypes
  <2>2. \A q \in Requests : KnowsSource(q)'
    BY <1>1, <1>4, <2>1 DEF SourceInv, KnowsSource, A!SourceRow, A!Lock
  <2> QED  BY <1>1, <2>2 DEF SourceInv
<1>5. ASSUME NEW pc \in A!Pc, A!SkipSource(r, pc)
      PROVE  SourceInv'
  <2> DEFINE new == [request[r] EXCEPT !.pc = pc]
  <2>1. new.applies = {} /\ A!Advance(r, new)
    BY <1>2, <1>3, <1>5 DEF A!SkipSource, InProgress
  <2> HIDE DEF new
  <2> QED  BY <1>4, <2>1
<1>6. ASSUME NEW counters, A!FindSource(r, counters)
      PROVE  SourceInv'
  <2> DEFINE new == [A!Took(r, "commit") EXCEPT !.global = source, !.applies = counters]
  <2>1. /\ A!Took(r, "commit") \in InProgress /\ A!Took(r, "commit").pc = "commit"
        /\ A!Took(r, "commit").holds = request[r].holds \cup A!Wants(r)
    BY <1>2, TookFacts DEF A!Pc
  <2>2. ~ removed /\ A!Advance(r, new)
    BY <1>6 DEF A!FindSource
  <2>3. A!SourceRow("update") \in A!Wants(r)
    BY <1>1, <2>2 DEF A!Wants
  <2>4. A!SourceRow("update") \in new.holds /\ new.global = source /\ new.pc = "commit"
    BY <2>1, <2>3 DEF InProgress
  <2> HIDE DEF new
  <2> QED  BY <1>4, <2>2, <2>4
<1> QED  BY <1>5, <1>6 DEF A!ReadSource, A!ReadSourceAgain, A!Pc

(* A commit moves the source by what it moves the preference of its reader. *)
LEMMA CommitSource ==
  ASSUME IInv, SourceInv, NEW r \in Requests, A!Commit(r)
  PROVE  SourceInv'
<1> DEFINE p == request[r]
           c == A!Counted(p.mine, r)
           Others == DOMAIN preference \ {p.user}
<1>1. TableTypes /\ RequestTypes /\ LockInv /\ RowInv /\ Finite /\ A!PreferenceCountsRows
  BY DEF IInv, SumInv
<1>2. p.pc = "commit" /\ p.user \in Users /\ p.mine = CountsOf(p.user) /\ p \in InProgress
  BY <1>1, CommitKnows DEF A!Commit
<1>3. /\ preference' = A!Kept(preference, p.user, c)
      /\ source' = [s \in A!Signals |-> IF s \in p.applies THEN A!Counted(p.global, r)[s] ELSE source[s]]
      /\ uncounted' = uncounted \cup {s \in A!Signals \ p.applies : A!Delta(r, s) # 0}
      /\ request' = [request EXCEPT ![r] = A!Free]
  BY DEF A!Commit, A!End
<1>4. request'[r] = A!Free /\ \A q \in Requests \ {r} : request'[q] = request[q]
  BY <1>1, <1>3 DEF RequestTypes
<1>5. \A q \in Requests : KnowsSource(q)'
  <2> SUFFICES ASSUME NEW q \in Requests, request'[q].applies # {}
               PROVE  /\ request'[q].pc = "commit"
                      /\ A!SourceRow("update") \in request'[q].holds /\ request'[q].global = source'
    BY DEF KnowsSource, A!SourceRow, A!Lock
  <2>1. q # r /\ request'[q] = request[q]
    BY <1>4 DEF A!Free
  <2>2. /\ request[q].pc = "commit"
        /\ A!SourceRow("update") \in request[q].holds /\ request[q].global = source
    BY <2>1 DEF SourceInv, KnowsSource
  <2>3. p.applies = {}
    <3> SUFFICES ASSUME p.applies # {}  PROVE FALSE
      OBVIOUS
    <3>1. A!SourceRow("update") \in p.holds
      BY DEF SourceInv, KnowsSource
    <3>2. ~ A!Conflict(A!SourceRow("update"), A!SourceRow("update"))
      BY <1>1, <2>1, <2>2, <3>1 DEF LockInv, LocksExclude
    <3> QED  BY <3>2 DEF A!Conflict, A!SourceRow, A!Lock
  <2>4. source' = source
    BY <1>1, <1>3, <2>3 DEF TableTypes, A!Counts
  <2> QED  BY <2>1, <2>2, <2>4
<1>6. DOMAIN preference' = Others \cup {p.user} /\ preference'[p.user] = c
      /\ \A u \in Others : preference'[u] = preference[u]
  BY <1>3 DEF A!Kept
<1>7. IsFiniteSet(Others) /\ p.user \notin Others
  BY FS_RemoveElement DEF SourceInv
<1>8. IsFiniteSet(DOMAIN preference')
  BY <1>6, <1>7, FS_AddElement
<1>9. ASSUME NEW s \in A!Signals \ uncounted'
      PROVE  source'[s] = Total(preference', s, DOMAIN preference')
  <2>0. s \in A!Signals \ uncounted /\ (s \notin p.applies => A!Delta(r, s) = 0)
    BY <1>3, <1>9
  <2> DEFINE rest == Total(preference, s, Others)
             mine == CountsOf(p.user)[s]
             delta == A!Delta(r, s)
  <2>1. \A u \in DOMAIN preference : preference[u][s] \in Nat
    BY <1>1, <1>9 DEF TableTypes, A!Counts
  <2>2. rest \in Nat
    BY <1>7, <2>1, TotalStep
  <2>3. mine \in Nat /\ mine + delta \in Nat /\ delta \in Int
    <3> PICK u \in Users : u = p.user
      BY <1>2
    <3>1. RowsOf(u, s) \in Nat /\ RowsOf(u, s)' \in Nat /\ RowsOf(u, s)' = RowsOf(u, s) + delta
      BY <1>1, <1>9, CommitRows
    <3>2. mine = RowsOf(u, s)
      BY <1>1, <1>2, <1>9, CountersAreRows
    <3>3. delta \in Int
      BY DEF A!Delta
    <3> QED  BY <3>1, <3>2, <3>3
  <2>4. c[s] = mine + delta
    <3>1. A!Max({0, mine + delta}) = mine + delta
      BY <2>3, AtLeastZero
    <3> QED  BY <1>2, <1>9, <3>1 DEF A!Counted
  <2>5. source[s] = mine + rest
    <3>1. source[s] = Total(preference, s, DOMAIN preference)
      BY <2>0 DEF SourceInv
    <3>2. CASE p.user \in DOMAIN preference
      <4>1. Total(preference, s, DOMAIN preference) = preference[p.user][s] + rest
        BY <2>1, <3>2, TotalStep DEF SourceInv
      <4> QED  BY <3>1, <3>2, <4>1 DEF CountsOf
    <3>3. CASE p.user \notin DOMAIN preference
      <4>1. Others = DOMAIN preference /\ mine = 0
        BY <1>9, <3>3 DEF CountsOf, A!Zero
      <4> QED  BY <2>2, <3>1, <4>1
    <3> QED  BY <3>2, <3>3
  <2>6. source'[s] = source[s] + delta
    <3>1. CASE s \notin p.applies
      <4>1. delta = 0
        BY <2>0, <3>1
      <4>2. source'[s] = source[s]
        BY <1>3, <2>0, <3>1
      <4> QED  BY <2>2, <2>3, <2>5, <4>1, <4>2
    <3>2. CASE s \in p.applies
      <4>1. p.global = source
        BY <3>2 DEF SourceInv, KnowsSource
      <4>2. A!Max({0, source[s] + delta}) = source[s] + delta
        <5>1. source[s] + delta \in Int /\ source[s] + delta >= 0
          BY <2>2, <2>3, <2>5
        <5> QED  BY <5>1, AtLeastZero
      <4> QED  BY <1>3, <2>0, <3>2, <4>1, <4>2 DEF A!Counted
    <3> QED  BY <3>1, <3>2
  <2>7. Total(preference', s, DOMAIN preference') = c[s] + rest
    <3> DEFINE w == preference'
               Z == DOMAIN preference'
    <3>1. \A u \in Z : w[u][s] \in Nat
      BY <1>6, <2>1, <2>3, <2>4
    <3>2. IsFiniteSet(Z) /\ p.user \in Z /\ Z \ {p.user} = Others
      BY <1>6, <1>7, <1>8
    <3>3. Total(w, s, Z) = w[p.user][s] + Total(w, s, Others)
      <4> HIDE DEF w, Z, Others
      <4> QED  BY <3>1, <3>2, TotalStep
    <3>4. Total(w, s, Others) = rest
      BY <1>6, <1>7, TotalsAgree DEF SameIn
    <3> QED  BY <1>6, <3>3, <3>4
  <2> HIDE DEF rest, mine, delta, c
  <2> QED  BY <2>2, <2>3, <2>4, <2>5, <2>6, <2>7
<1> QED  BY <1>5, <1>8, <1>9 DEF SourceInv

LEMMA InitSourceInv ==
  A!Init => SourceInv
<1> SUFFICES ASSUME A!Init  PROVE SourceInv
  OBVIOUS
<1>1. DOMAIN preference = {} /\ source = A!Zero /\ \A r \in Requests : request[r].applies = {}
  BY DEF A!Init, A!Free
<1>2. IsFiniteSet({})
  BY FS_EmptySet
<1>3. \A s : Total(preference, s, {}) = 0
  BY <1>2, TotalFirst
<1> QED  BY <1>1, <1>2, <1>3 DEF A!Zero, SourceInv, KnowsSource

LEMMA StepSourceInv ==
  IInv /\ SourceInv /\ [A!Next]_(A!vars) => SourceInv'
<1> SUFFICES ASSUME IInv, SourceInv, [A!Next]_(A!vars)  PROVE SourceInv'
  OBVIOUS
<1>1. CASE UNCHANGED A!vars
  BY <1>1 DEF A!vars, SourceInv, KnowsSource, A!SourceRow, A!Lock
<1>2. ASSUME UNCHANGED <<source, uncounted, A!readers>>  PROVE SourceInv'
  BY <1>2 DEF A!readers, SourceInv, KnowsSource, A!SourceRow, A!Lock
<1>3. CASE (\E o \in Operators : A!LoadSource(o) \/ A!CompareSource(o)) \/ A!RemoveSource
  BY <1>2, <1>3 DEF A!LoadSource, A!CompareSource, A!RemoveSource
<1>4. ASSUME NEW o \in Operators, A!WriteSource(o)  PROVE SourceInv'
  <2>1. /\ request' = request /\ preference' = preference
        /\ uncounted' = uncounted \cup {s \in A!Signals : source'[s] # source[s]}
    BY <1>4 DEF A!WriteSource, A!readers
  <2>2. \A r \in Requests : request[r].applies = {}
    BY <1>4 DEF A!WriteSource, A!Unlocked, SourceInv, KnowsSource
  <2> QED  BY <2>1, <2>2 DEF SourceInv, KnowsSource
<1> QED  BY <1>1, <1>3, <1>4, QuietSource, ReadSourceSums, CommitSource DEF A!Next, A!Step, A!SaveStep

(* The counters of the source add up what its readers' preferences count,    *)
(* but for those that a stale save wrote or that moved while it was removed. *)
THEOREM SourceAddsUp == A!Spec => []A!SourceSumsReaders
<1>1. SourceInv => A!SourceSumsReaders
  BY SourceSums
<1> QED  BY <1>1, Inductive, InitSourceInv, StepSourceInv, PTL DEF A!Spec

-----------------------------------------------------------------------------
(***************************************************************************)
(* Personal links: component P.                                            *)
(***************************************************************************)
LinkKeys == P!Keys("links", Linked) \cup P!Keys("actions", Linked)
Ids      == Generators \X LinkKeys
Maps     == UNION {[keys -> Ids] : keys \in SUBSET LinkKeys}
Calls    == [pc : P!Pc, table : P!Tables, articles : SUBSET Linked, found : Maps,
             missing : SUBSET LinkKeys, unlucky : BOOLEAN, raced : SUBSET LinkKeys]

LinkTypes ==
  /\ row \in [P!Tables -> Maps]
  /\ \A t \in P!Tables : DOMAIN row[t] \subseteq P!Keys(t, Linked)
  /\ call \in [Generators -> Calls]

WantedOf(c) == P!Keys(c.table, c.articles)

(* What a call knows is in its table; what has appeared there since it looked *)
(* was raced for; the keys it creates one by one are those that it lacks.     *)
Fits(c, table) ==
  /\ DOMAIN c.found \subseteq WantedOf(c)
  /\ \A k \in DOMAIN c.found : k \in DOMAIN table /\ c.found[k] = table[k]
  /\ c.pc = "save" => (WantedOf(c) \ DOMAIN c.found) \cap DOMAIN table \subseteq c.raced
  /\ c.pc = "refetch" /\ c.table = "actions" =>
       WantedOf(c) \subseteq DOMAIN table \/ c.unlucky \/ c.raced # {}
  /\ c.pc \in {"one", "saveOne", "lookAgain"} =>
       c.table = "links" /\ c.missing # {} /\ c.missing = WantedOf(c) \ DOMAIN c.found
  /\ c.pc = "lookAgain" => c.unlucky \/ (CHOOSE k \in c.missing : TRUE) \in DOMAIN table
  /\ c.pc = "thrown" => c.unlucky
  /\ c.pc = "done" =>
       WantedOf(c) \subseteq DOMAIN c.found \/ (c.table = "actions" /\ (c.unlucky \/ c.raced # {}))

LinkInv == LinkTypes /\ \A g \in Generators : Fits(call[g], row[call[g].table])

LEMMA MapFacts ==
  /\ \A f \in Maps : /\ f = [k \in DOMAIN f |-> f[k]] /\ DOMAIN f \subseteq LinkKeys
                     /\ \A k \in DOMAIN f : f[k] \in Ids
  /\ \A f : f = [k \in DOMAIN f |-> f[k]] /\ DOMAIN f \subseteq LinkKeys /\ (\A k \in DOMAIN f : f[k] \in Ids)
              => f \in Maps
<1>1. ASSUME NEW f \in Maps
      PROVE  /\ f = [k \in DOMAIN f |-> f[k]] /\ DOMAIN f \subseteq LinkKeys
             /\ \A k \in DOMAIN f : f[k] \in Ids
  <2>1. PICK keys \in SUBSET LinkKeys : f \in [keys -> Ids]
    BY DEF Maps
  <2> QED  BY <2>1
<1>2. ASSUME NEW f, f = [k \in DOMAIN f |-> f[k]], DOMAIN f \subseteq LinkKeys, \A k \in DOMAIN f : f[k] \in Ids
      PROVE  f \in Maps
  <2>1. f \in [DOMAIN f -> Ids]
    BY <1>2
  <2> QED  BY <1>2, <2>1 DEF Maps
<1> QED  BY <1>1, <1>2

LEMMA KeyFacts ==
  \A t \in P!Tables : \A s \in SUBSET Linked : P!Keys(t, s) \subseteq P!Keys(t, Linked) /\ P!Keys(t, s) \subseteq LinkKeys
  BY DEF P!Keys, P!Tables, LinkKeys

(* What a call that looks for some of its keys knows then. *)
LEMMA Looking ==
  ASSUME LinkInv, NEW g \in Generators, NEW keys, keys \subseteq P!Wanted(g)
  PROVE  /\ P!Look(g, keys) \in Maps
         /\ DOMAIN P!Look(g, keys) = DOMAIN call[g].found \cup (keys \cap DOMAIN row[call[g].table])
         /\ DOMAIN P!Look(g, keys) \subseteq WantedOf(call[g])
         /\ \A k \in DOMAIN P!Look(g, keys) :
              k \in DOMAIN row[call[g].table] /\ P!Look(g, keys)[k] = row[call[g].table][k]
<1> DEFINE c == call[g]
           m == row[call[g].table]
           f == P!Look(g, keys)
<1>1. c \in Calls /\ Fits(c, m) /\ m \in Maps /\ P!Wanted(g) = WantedOf(c) /\ WantedOf(c) \subseteq LinkKeys
  BY KeyFacts DEF LinkInv, LinkTypes, Calls, WantedOf, P!Wanted
<1>2. f = [k \in DOMAIN c.found \cup (keys \cap DOMAIN m) |-> IF k \in DOMAIN c.found THEN c.found[k] ELSE m[k]]
  BY DEF P!Look, P!Row
<1>3. DOMAIN c.found \subseteq WantedOf(c) /\ \A k \in DOMAIN c.found : k \in DOMAIN m /\ c.found[k] = m[k]
  BY <1>1 DEF Fits
<1>4. \A k \in DOMAIN m : m[k] \in Ids
  BY <1>1, MapFacts
<1> HIDE DEF c, m, f
<1>5. DOMAIN f = DOMAIN c.found \cup (keys \cap DOMAIN m) /\ \A k \in DOMAIN f : k \in DOMAIN m /\ f[k] = m[k]
  BY <1>2, <1>3
<1>6. DOMAIN f \subseteq WantedOf(c)
  BY <1>1, <1>3, <1>5
<1>7. f \in Maps
  <2>1. f = [k \in DOMAIN f |-> f[k]]
    BY <1>2
  <2>2. DOMAIN f \subseteq LinkKeys /\ \A k \in DOMAIN f : f[k] \in Ids
    BY <1>1, <1>4, <1>5, <1>6
  <2> QED  BY <2>1, <2>2, MapFacts
<1> QED  BY <1>5, <1>6, <1>7 DEF c, m, f

LEMMA Becoming ==
  ASSUME LinkInv, NEW g \in Generators, NEW new \in Calls, P!Become(g, new), row' = row,
         Fits(new, row[new.table])
  PROVE  LinkInv'
<1>1. call' = [call EXCEPT ![g] = new]
  BY DEF P!Become
<1>2. call' \in [Generators -> Calls] /\ call'[g] = new /\ \A h \in Generators \ {g} : call'[h] = call[h]
  BY <1>1 DEF LinkInv, LinkTypes
<1> QED  BY <1>2 DEF LinkInv, LinkTypes

(* New rows take nothing away from anyone, and who wanted them knows it. *)
LEMMA Creating ==
  ASSUME LinkInv, NEW g \in Generators, NEW keys, keys \subseteq P!Wanted(g),
         keys \cap DOMAIN row[call[g].table] = {},
         P!InsertRows(g, keys), NEW new \in Calls, P!Created(g, keys, new),
         new.table = call[g].table, Fits(new, row'[call[g].table])
  PROVE  LinkInv'
<1> DEFINE t == call[g].table
           m == row[t]
           n == [k \in DOMAIN m \cup keys |-> IF k \in DOMAIN m THEN m[k] ELSE <<g, k>>]
<1>1. t \in P!Tables /\ m \in Maps /\ keys \subseteq P!Keys(t, Linked) /\ keys \subseteq LinkKeys
  BY KeyFacts DEF LinkInv, LinkTypes, Calls, P!Wanted
<1>2. n \in Maps
  <2>1. n = [k \in DOMAIN n |-> n[k]]
    OBVIOUS
  <2>2. DOMAIN n \subseteq LinkKeys /\ \A k \in DOMAIN n : n[k] \in Ids
    BY <1>1, MapFacts DEF Ids
  <2> HIDE DEF n
  <2> QED  BY <2>1, <2>2, MapFacts
<1>3. row' = [row EXCEPT ![t] = n]
  BY DEF P!InsertRows
<1>4. DOMAIN n = DOMAIN m \cup keys /\ \A k \in DOMAIN m : n[k] = m[k]
  OBVIOUS
<1> HIDE DEF n
<1>5. /\ row' \in [P!Tables -> Maps] /\ row'[t] = n
      /\ \A x \in P!Tables \ {t} : row'[x] = row[x]
  BY <1>1, <1>2, <1>3 DEF LinkInv, LinkTypes
<1>6. \A x \in P!Tables : DOMAIN row'[x] \subseteq P!Keys(x, Linked)
  BY <1>1, <1>4, <1>5 DEF LinkInv, LinkTypes
<1>7. call' = [h \in Generators |->
                IF h = g THEN new
                ELSE IF call[h].table = t /\ call[h].pc # "idle"
                     THEN [call[h] EXCEPT !.raced = @ \cup (keys \cap P!Wanted(h))]
                ELSE call[h]]
  BY DEF P!Created
<1>8. call'[g] = new
  BY <1>7
<1>9. ASSUME NEW h \in Generators, h # g
      PROVE  call'[h] \in Calls /\ Fits(call'[h], row'[call'[h].table])
  <2> DEFINE c == call[h]
             e == [call[h] EXCEPT !.raced = @ \cup (keys \cap P!Wanted(h))]
  <2>1. c \in Calls /\ Fits(c, row[c.table]) /\ c.table \in P!Tables
    BY DEF LinkInv, LinkTypes, Calls
  <2>2. CASE c.table = t /\ c.pc # "idle"
    <3>1. call'[h] = e
      BY <1>7, <1>9, <2>2
    <3>2. /\ e \in Calls /\ e.raced = c.raced \cup (keys \cap WantedOf(c))
          /\ e.pc = c.pc /\ e.table = c.table /\ e.articles = c.articles /\ e.found = c.found
          /\ e.missing = c.missing /\ e.unlucky = c.unlucky
      BY <1>1, <2>1 DEF Calls, P!Wanted, WantedOf
    <3> HIDE DEF e
    <3>3. WantedOf(e) = WantedOf(c)
      BY <3>2 DEF WantedOf
    <3>4. Fits(e, n)
      BY <1>4, <2>1, <2>2, <3>2, <3>3 DEF Fits
    <3> QED  BY <1>5, <2>2, <3>1, <3>2, <3>4
  <2>3. CASE c.table # t
    <3>1. call'[h] = c
      BY <1>7, <1>9, <2>3
    <3> QED  BY <1>5, <2>1, <2>3, <3>1
  <2>4. CASE c.table = t /\ c.pc = "idle"
    <3>1. call'[h] = c
      BY <1>7, <1>9, <2>4
    <3>2. Fits(c, n)
      BY <1>4, <2>1, <2>4 DEF Fits
    <3> QED  BY <1>5, <2>1, <2>4, <3>1, <3>2
  <2> QED  BY <2>2, <2>3, <2>4
<1>10. call' \in [Generators -> Calls]
  BY <1>7, <1>8, <1>9
<1> QED  BY <1>5, <1>6, <1>8, <1>9, <1>10 DEF LinkInv, LinkTypes

LEMMA AskLinks ==
  ASSUME LinkInv, NEW g \in Generators, P!Ask(g)
  PROVE  LinkInv'
<1>1. PICK t \in P!Tables, articles \in SUBSET Linked \ {{}} :
        P!Become(g, [P!Idle EXCEPT !.pc = "find", !.table = t, !.articles = articles])
  BY DEF P!Ask
<1> DEFINE new == [P!Idle EXCEPT !.pc = "find", !.table = t, !.articles = articles]
<1>2. << >> \in Maps /\ DOMAIN << >> = {}
  <2>1. DOMAIN << >> = {} /\ << >> = [k \in {} |-> << >>[k]]
    OBVIOUS
  <2> QED  BY <2>1, MapFacts
<1>3. P!Idle \in Calls /\ P!Idle.found = << >>
  BY <1>2 DEF P!Idle, Calls, P!Pc, P!Tables
<1>4. new \in Calls /\ new.pc = "find" /\ new.found = << >>
  BY <1>3 DEF Calls, P!Pc
<1> HIDE DEF new
<1>5. Fits(new, row[new.table])
  BY <1>2, <1>4 DEF Fits
<1>6. row' = row
  BY DEF P!Ask
<1> QED  BY <1>1, <1>4, <1>5, <1>6, Becoming DEF new

LEMMA FindLinks ==
  ASSUME LinkInv, NEW g \in Generators, P!Find(g)
  PROVE  LinkInv'
<1> DEFINE c == call[g]
           m == row[call[g].table]
           f == P!Look(g, P!Wanted(g))
           pc == IF P!Wanted(g) = DOMAIN f THEN "done" ELSE "save"
           new == [call[g] EXCEPT !.found = f, !.pc = pc]
<1>1. c \in Calls /\ P!Wanted(g) = WantedOf(c)
  BY DEF LinkInv, LinkTypes, P!Wanted, WantedOf
<1>2. /\ f \in Maps /\ DOMAIN f = DOMAIN c.found \cup (WantedOf(c) \cap DOMAIN m)
      /\ DOMAIN f \subseteq WantedOf(c) /\ \A k \in DOMAIN f : k \in DOMAIN m /\ f[k] = m[k]
  BY <1>1, Looking
<1>3. P!Become(g, new) /\ row' = row
  BY DEF P!Find
<1>4. pc \in {"done", "save"} /\ (pc = "done" => WantedOf(c) = DOMAIN f)
  BY <1>1
<1> HIDE DEF f, pc
<1>5. /\ new \in Calls /\ new.pc = pc /\ new.found = f /\ new.table = c.table
      /\ WantedOf(new) = WantedOf(c)
  BY <1>1, <1>2, <1>4 DEF Calls, P!Pc, WantedOf
<1> HIDE DEF new
<1>6. Fits(new, row[new.table])
  BY <1>2, <1>4, <1>5 DEF Fits
<1> QED  BY <1>3, <1>5, <1>6, Becoming

LEMMA SaveLinks ==
  ASSUME LinkInv, NEW g \in Generators, P!SaveBatch(g)
  PROVE  LinkInv'
<1> DEFINE c == call[g]
           m == row[call[g].table]
           keys == P!Lacks(g)
           pc == P!SavedPc(g)
           f == IF call[g].table = "actions" THEN call[g].found
                ELSE [k \in P!Wanted(g) |-> IF k \in DOMAIN call[g].found THEN call[g].found[k] ELSE <<g, k>>]
           new == [call[g] EXCEPT !.pc = pc, !.found = f]
<1>1. /\ c \in Calls /\ c.pc = "save" /\ Fits(c, m) /\ m \in Maps /\ c.table \in P!Tables
      /\ P!Wanted(g) = WantedOf(c) /\ WantedOf(c) \subseteq LinkKeys
      /\ keys = WantedOf(c) \ DOMAIN c.found
  BY KeyFacts DEF LinkInv, LinkTypes, Calls, P!SaveBatch, P!Wanted, P!Lacks, WantedOf
<1>2. keys \cap DOMAIN m = {} /\ keys \subseteq P!Wanted(g)
  BY <1>1 DEF P!SaveBatch, P!Refused, P!Row
<1>3. P!InsertRows(g, keys) /\ P!Created(g, keys, new)
  BY DEF P!SaveBatch
<1>4. /\ row'[c.table] = [k \in DOMAIN m \cup keys |-> IF k \in DOMAIN m THEN m[k] ELSE <<g, k>>]
  BY <1>1, <1>3 DEF P!InsertRows, LinkInv, LinkTypes
<1> DEFINE n == row'[c.table]
<1>5. pc = IF c.table = "links" THEN "done" ELSE "refetch"
  BY DEF P!SavedPc
<1>6. c.found \in Maps /\ DOMAIN c.found \subseteq WantedOf(c) /\ \A k \in DOMAIN c.found : k \in DOMAIN m /\ c.found[k] = m[k]
  BY <1>1 DEF Fits, Calls
<1>7. /\ f \in Maps /\ DOMAIN f \subseteq WantedOf(c) /\ \A k \in DOMAIN f : k \in DOMAIN n /\ f[k] = n[k]
      /\ c.table # "actions" => DOMAIN f = WantedOf(c)
  <2>1. CASE c.table = "actions"
    <3>1. f = c.found
      BY <2>1
    <3> HIDE DEF f
    <3> QED  BY <1>4, <1>6, <2>1, <3>1
  <2>2. CASE c.table # "actions"
    <3>1. f = [k \in WantedOf(c) |-> IF k \in DOMAIN c.found THEN c.found[k] ELSE <<g, k>>]
      BY <1>1, <2>2
    <3> HIDE DEF f
    <3>2. DOMAIN f = WantedOf(c) /\ \A k \in DOMAIN f : k \in DOMAIN n /\ f[k] = n[k]
      BY <1>1, <1>2, <1>4, <1>6, <3>1
    <3>3. \A k \in DOMAIN f : f[k] \in Ids
      BY <1>1, <1>6, <3>1, MapFacts DEF Ids
    <3>4. f = [k \in DOMAIN f |-> f[k]]
      BY <3>1
    <3>5. f \in Maps
      BY <1>1, <3>2, <3>3, <3>4, MapFacts
    <3> QED  BY <3>2, <3>5
  <2> QED  BY <2>1, <2>2
<1> HIDE DEF f, pc, keys
<1>8. /\ new \in Calls /\ new.pc = pc /\ new.found = f /\ new.table = c.table
      /\ WantedOf(new) = WantedOf(c)
  BY <1>1, <1>5, <1>7 DEF Calls, P!Pc, WantedOf
<1> HIDE DEF new
<1>9. WantedOf(c) \subseteq DOMAIN n
  BY <1>1, <1>4, <1>6
<1>10. Fits(new, n)
  BY <1>1, <1>5, <1>7, <1>8, <1>9 DEF Fits, P!Tables
<1> QED  BY <1>2, <1>3, <1>8, <1>10, Creating

LEMMA FailLinks ==
  ASSUME LinkInv, NEW g \in Generators, P!BatchFails(g)
  PROVE  LinkInv'
<1> DEFINE c == call[g]
           m == row[call[g].table]
<1>1. PICK fault \in BOOLEAN :
        /\ fault \/ P!Refused(g, P!Lacks(g))
        /\ P!Become(g, [call[g] EXCEPT !.pc = "refetch", !.unlucky = @ \/ fault])
  BY DEF P!BatchFails
<1> DEFINE new == [call[g] EXCEPT !.pc = "refetch", !.unlucky = @ \/ fault]
<1>2. c \in Calls /\ Fits(c, m) /\ c.pc = "save" /\ row' = row
  BY DEF LinkInv, LinkTypes, P!BatchFails
<1>3. /\ new \in Calls /\ new.pc = "refetch" /\ new.found = c.found /\ new.table = c.table
      /\ new.raced = c.raced /\ new.unlucky = (c.unlucky \/ fault)
      /\ WantedOf(new) = WantedOf(c)
  BY <1>2 DEF Calls, P!Pc, WantedOf
<1>4. P!Become(g, new)
  BY <1>1
<1> HIDE DEF new
<1>5. fault \/ c.raced # {}
  BY <1>1, <1>2 DEF P!Refused, P!Lacks, P!Wanted, P!Row, WantedOf, Fits
<1>6. new.unlucky \/ new.raced # {}
  BY <1>3, <1>5
<1>7. Fits(new, m)
  BY <1>2, <1>3, <1>6 DEF Fits
<1> QED  BY <1>2, <1>3, <1>4, <1>7, Becoming

LEMMA RefetchLinks ==
  ASSUME LinkInv, NEW g \in Generators, P!Refetch(g)
  PROVE  LinkInv'
<1> DEFINE c == call[g]
           m == row[call[g].table]
           f == P!Look(g, P!Lacks(g))
           missing == P!Wanted(g) \ DOMAIN f
           pc == IF call[g].table = "links" /\ missing # {} THEN "one" ELSE "done"
           new == [call[g] EXCEPT !.found = f, !.missing = missing, !.pc = pc]
<1>1. /\ c \in Calls /\ P!Wanted(g) = WantedOf(c) /\ Fits(c, m) /\ c.pc = "refetch"
      /\ P!Lacks(g) = WantedOf(c) \ DOMAIN c.found /\ WantedOf(c) \subseteq LinkKeys
      /\ c.table \in P!Tables
  BY KeyFacts DEF LinkInv, LinkTypes, Calls, P!Wanted, WantedOf, P!Lacks, P!Refetch
<1>2. /\ f \in Maps /\ DOMAIN f = DOMAIN c.found \cup ((WantedOf(c) \ DOMAIN c.found) \cap DOMAIN m)
      /\ DOMAIN f \subseteq WantedOf(c) /\ \A k \in DOMAIN f : k \in DOMAIN m /\ f[k] = m[k]
  <2>1. P!Lacks(g) \subseteq P!Wanted(g)
    BY <1>1
  <2> DEFINE keys == P!Lacks(g)
  <2> HIDE DEF keys
  <2>2. /\ P!Look(g, keys) \in Maps
        /\ DOMAIN P!Look(g, keys) = DOMAIN call[g].found \cup (keys \cap DOMAIN row[call[g].table])
        /\ DOMAIN P!Look(g, keys) \subseteq WantedOf(call[g])
        /\ \A k \in DOMAIN P!Look(g, keys) :
             k \in DOMAIN row[call[g].table] /\ P!Look(g, keys)[k] = row[call[g].table][k]
    BY <2>1, Looking DEF keys
  <2> QED  BY <1>1, <2>2 DEF keys
<1>3. P!Become(g, new) /\ row' = row
  BY DEF P!Refetch
<1> HIDE DEF f
<1>4. missing \subseteq LinkKeys /\ missing = WantedOf(c) \ DOMAIN f
  BY <1>1
<1> HIDE DEF missing
<1>5. /\ pc \in {"done", "one"}
      /\ pc = "one" => c.table = "links" /\ missing # {}
      /\ pc = "done" => c.table = "actions" \/ missing = {}
  BY <1>1 DEF P!Tables
<1> HIDE DEF pc
<1>6. /\ new \in Calls /\ new.pc = pc /\ new.found = f /\ new.missing = missing /\ new.table = c.table
      /\ new.raced = c.raced /\ new.unlucky = c.unlucky /\ WantedOf(new) = WantedOf(c)
  BY <1>1, <1>2, <1>4, <1>5 DEF Calls, P!Pc, WantedOf
<1> HIDE DEF new
<1>7. WantedOf(c) \subseteq DOMAIN f \/ (c.table = "links" /\ pc = "one") \/ (c.table = "actions" /\ (c.unlucky \/ c.raced # {}))
  BY <1>1, <1>2, <1>4, <1>5 DEF Fits, P!Tables
<1>8. Fits(new, m)
  BY <1>2, <1>4, <1>5, <1>6, <1>7 DEF Fits
<1> QED  BY <1>3, <1>6, <1>8, Becoming

(* A call that creates keys one by one, and has found one. *)
LEMMA Settling ==
  ASSUME LinkInv, NEW g \in Generators, call[g].pc \in {"one", "saveOne", "lookAgain"}, NEW f \in Maps,
         DOMAIN call[g].found \subseteq DOMAIN f, DOMAIN f \subseteq WantedOf(call[g])
  PROVE  /\ P!Settled(g, f) \in Calls
         /\ P!Settled(g, f).table = call[g].table
         /\ \A m : (\A k \in DOMAIN f : k \in DOMAIN m /\ f[k] = m[k]) => Fits(P!Settled(g, f), m)
<1> DEFINE c == call[g]
           missing == call[g].missing \ DOMAIN f
           pc == IF missing = {} THEN "done" ELSE "one"
           new == [call[g] EXCEPT !.found = f, !.missing = missing, !.pc = pc]
<1>1. c \in Calls /\ Fits(c, row[c.table]) /\ WantedOf(c) \subseteq LinkKeys
  BY KeyFacts DEF LinkInv, LinkTypes, Calls, WantedOf
<1>2. P!Settled(g, f) = new
  BY DEF P!Settled
<1>3. missing = WantedOf(c) \ DOMAIN f /\ c.table = "links" /\ missing \subseteq LinkKeys
  BY <1>1 DEF Fits
<1> HIDE DEF missing
<1>4. pc \in {"done", "one"} /\ (pc = "done" => missing = {}) /\ (pc = "one" => missing # {})
  OBVIOUS
<1> HIDE DEF pc
<1>5. /\ new \in Calls /\ new.pc = pc /\ new.found = f /\ new.missing = missing /\ new.table = c.table
      /\ WantedOf(new) = WantedOf(c)
  BY <1>1, <1>3, <1>4 DEF Calls, P!Pc, WantedOf
<1> HIDE DEF new
<1>6. \A m : (\A k \in DOMAIN f : k \in DOMAIN m /\ f[k] = m[k]) => Fits(new, m)
  BY <1>3, <1>4, <1>5 DEF Fits
<1> QED  BY <1>2, <1>5, <1>6

LEMMA OneLink ==
  ASSUME LinkInv, NEW g \in Generators, P!FindOne(g) \/ P!SaveOne(g) \/ P!OneFails(g) \/ P!LookAgain(g)
  PROVE  LinkInv'
<1> DEFINE c == call[g]
           m == row[call[g].table]
           k0 == P!Next1(g)
           f == P!Look(g, {k0})
<1>1. /\ c \in Calls /\ Fits(c, m) /\ P!Wanted(g) = WantedOf(c) /\ WantedOf(c) \subseteq LinkKeys
      /\ c.pc \in {"one", "saveOne", "lookAgain"} /\ c.table \in P!Tables /\ m \in Maps
      /\ DOMAIN m \subseteq LinkKeys
  BY KeyFacts, MapFacts DEF LinkInv, LinkTypes, Calls, P!Wanted, WantedOf, P!FindOne, P!SaveOne,
     P!OneFails, P!LookAgain
<1>2. k0 = CHOOSE k \in c.missing : TRUE
  BY DEF P!Next1
<1>3. k0 \in c.missing /\ c.missing = WantedOf(c) \ DOMAIN c.found /\ c.table = "links"
  BY <1>1, <1>2 DEF Fits
<1> HIDE DEF k0
<1>4. {k0} \subseteq P!Wanted(g) /\ k0 \in WantedOf(c) /\ k0 \notin DOMAIN c.found /\ k0 \in LinkKeys
  BY <1>1, <1>3
<1>5. /\ f \in Maps /\ DOMAIN f = DOMAIN c.found \cup ({k0} \cap DOMAIN m)
      /\ DOMAIN f \subseteq WantedOf(c) /\ \A k \in DOMAIN f : k \in DOMAIN m /\ f[k] = m[k]
  <2> DEFINE keys == {k0}
  <2>1. keys \subseteq P!Wanted(g)
    BY <1>4
  <2> HIDE DEF keys
  <2>2. /\ P!Look(g, keys) \in Maps
        /\ DOMAIN P!Look(g, keys) = DOMAIN call[g].found \cup (keys \cap DOMAIN row[call[g].table])
        /\ DOMAIN P!Look(g, keys) \subseteq WantedOf(call[g])
        /\ \A k \in DOMAIN P!Look(g, keys) :
             k \in DOMAIN row[call[g].table] /\ P!Look(g, keys)[k] = row[call[g].table][k]
    BY <2>1, Looking
  <2> QED  BY <2>2 DEF keys
<1> HIDE DEF f
<1>6. /\ P!Settled(g, f) \in Calls /\ P!Settled(g, f).table = c.table /\ Fits(P!Settled(g, f), m)
  BY <1>1, <1>5, Settling
<1>7. \A pc \in {"saveOne", "lookAgain", "thrown"}, bad \in BOOLEAN :
        LET new == [call[g] EXCEPT !.pc = pc, !.unlucky = @ \/ bad] IN
        /\ new \in Calls /\ new.pc = pc /\ new.found = c.found /\ new.missing = c.missing
        /\ new.table = c.table /\ WantedOf(new) = WantedOf(c) /\ new.unlucky = (c.unlucky \/ bad)
  BY <1>1 DEF Calls, P!Pc, WantedOf
<1>8. CASE P!FindOne(g)
  <2>1. row' = row
    BY <1>8 DEF P!FindOne
  <2>2. CASE k0 \in DOMAIN f
    <3>1. P!Become(g, P!Settled(g, f))
      BY <1>8, <2>2 DEF P!FindOne, k0, f
    <3> QED  BY <1>6, <2>1, <3>1, Becoming
  <2>3. CASE k0 \notin DOMAIN f
    <3> DEFINE new == [call[g] EXCEPT !.pc = "saveOne"]
    <3>1. P!Become(g, new)
      BY <1>8, <2>3 DEF P!FindOne, k0, f
    <3>2. /\ new \in Calls /\ new.pc = "saveOne" /\ new.found = c.found /\ new.missing = c.missing
          /\ new.table = c.table /\ WantedOf(new) = WantedOf(c)
      BY <1>1 DEF Calls, P!Pc, WantedOf
    <3> HIDE DEF new
    <3>3. Fits(new, m)
      BY <1>1, <1>3, <3>2 DEF Fits
    <3> QED  BY <2>1, <3>1, <3>2, <3>3, Becoming
  <2> QED  BY <2>2, <2>3
<1>9. CASE P!SaveOne(g)
  <2> DEFINE h == [j \in DOMAIN call[g].found \cup {k0} |-> IF j = k0 THEN <<g, k0>> ELSE call[g].found[j]]
             n == row'[call[g].table]
  <2>1. P!InsertRows(g, {k0}) /\ P!Created(g, {k0}, P!Settled(g, h)) /\ ~ P!Refused(g, {k0})
    BY <1>9 DEF P!SaveOne, k0
  <2>2. {k0} \cap DOMAIN m = {}
    BY <2>1 DEF P!Refused, P!Row
  <2>3. n = [k \in DOMAIN m \cup {k0} |-> IF k \in DOMAIN m THEN m[k] ELSE <<g, k>>]
    BY <1>1, <2>1 DEF P!InsertRows, LinkInv, LinkTypes
  <2>4. c.found \in Maps /\ DOMAIN c.found \subseteq WantedOf(c) /\ \A k \in DOMAIN c.found : k \in DOMAIN m /\ c.found[k] = m[k]
    BY <1>1 DEF Fits, Calls
  <2>5. DOMAIN h = DOMAIN c.found \cup {k0} /\ \A k \in DOMAIN h : k \in DOMAIN n /\ h[k] = n[k]
    BY <1>4, <2>2, <2>3, <2>4
  <2>6. h \in Maps
    <3>1. h = [k \in DOMAIN h |-> h[k]]
      OBVIOUS
    <3>2. \A k \in DOMAIN h : k \in LinkKeys /\ h[k] \in Ids
      BY <1>4, <2>4, MapFacts DEF Ids
    <3> HIDE DEF h
    <3> QED  BY <3>1, <3>2, MapFacts
  <2> HIDE DEF h
  <2>7. DOMAIN h \subseteq WantedOf(c)
    BY <1>4, <2>4, <2>5
  <2>8. P!Settled(g, h) \in Calls /\ P!Settled(g, h).table = c.table /\ Fits(P!Settled(g, h), n)
    BY <1>1, <2>5, <2>6, <2>7, Settling
  <2> QED  BY <1>4, <2>1, <2>2, <2>8, Creating
<1>10. CASE P!OneFails(g)
  <2>1. PICK fault \in BOOLEAN :
          /\ fault \/ P!Refused(g, {k0})
          /\ P!Become(g, [call[g] EXCEPT !.pc = "lookAgain", !.unlucky = @ \/ fault])
    BY <1>10 DEF P!OneFails, k0
  <2> DEFINE new == [call[g] EXCEPT !.pc = "lookAgain", !.unlucky = @ \/ fault]
  <2>2. /\ new \in Calls /\ new.pc = "lookAgain" /\ new.found = c.found /\ new.missing = c.missing
        /\ new.table = c.table /\ WantedOf(new) = WantedOf(c) /\ new.unlucky = (c.unlucky \/ fault)
    BY <1>7
  <2>3. P!Become(g, new) /\ row' = row
    BY <1>10, <2>1 DEF P!OneFails
  <2> HIDE DEF new
  <2>4. new.unlucky \/ k0 \in DOMAIN m
    BY <2>1, <2>2 DEF P!Refused, P!Row
  <2>5. Fits(new, m)
    BY <1>1, <1>2, <1>3, <2>2, <2>4 DEF Fits
  <2> QED  BY <2>2, <2>3, <2>5, Becoming
<1>11. CASE P!LookAgain(g)
  <2>1. row' = row /\ c.pc = "lookAgain"
    BY <1>11 DEF P!LookAgain
  <2>2. CASE k0 \in DOMAIN f
    <3>1. P!Become(g, P!Settled(g, f))
      BY <1>11, <2>2 DEF P!LookAgain, k0, f
    <3> QED  BY <1>6, <2>1, <3>1, Becoming
  <2>3. CASE k0 \notin DOMAIN f
    <3> DEFINE new == [call[g] EXCEPT !.pc = "thrown"]
    <3>1. P!Become(g, new)
      BY <1>11, <2>3 DEF P!LookAgain, k0, f
    <3>2. /\ new \in Calls /\ new.pc = "thrown" /\ new.found = c.found /\ new.missing = c.missing
          /\ new.table = c.table /\ WantedOf(new) = WantedOf(c) /\ new.unlucky = c.unlucky
      BY <1>1 DEF Calls, P!Pc, WantedOf
    <3> HIDE DEF new
    <3>3. c.unlucky
      BY <1>1, <1>2, <1>5, <2>1, <2>3 DEF Fits
    <3>4. Fits(new, m)
      BY <1>1, <3>2, <3>3 DEF Fits
    <3> QED  BY <2>1, <3>1, <3>2, <3>4, Becoming
  <2> QED  BY <2>2, <2>3
<1> QED  BY <1>8, <1>9, <1>10, <1>11

LEMMA StepLinks == LinkInv /\ [P!Next]_(P!vars) => LinkInv'
<1> SUFFICES ASSUME LinkInv, [P!Next]_(P!vars)  PROVE LinkInv'
  OBVIOUS
<1>1. CASE UNCHANGED P!vars
  BY <1>1 DEF P!vars, LinkInv, LinkTypes
<1> QED  BY <1>1, AskLinks, FindLinks, SaveLinks, FailLinks, RefetchLinks, OneLink DEF P!Next

LEMMA InitLinks == P!Init => LinkInv
<1> SUFFICES ASSUME P!Init  PROVE LinkInv
  OBVIOUS
<1>1. << >> \in Maps /\ DOMAIN << >> = {}
  <2>1. DOMAIN << >> = {} /\ << >> = [k \in {} |-> << >>[k]]
    OBVIOUS
  <2> QED  BY <2>1, MapFacts
<1>2. P!Idle \in Calls /\ P!Idle.pc = "idle" /\ P!Idle.found = << >>
  BY <1>1 DEF P!Idle, Calls, P!Pc, P!Tables
<1>3. \A m : Fits(P!Idle, m)
  BY <1>1, <1>2 DEF Fits
<1> QED  BY <1>1, <1>2, <1>3 DEF P!Init, LinkInv, LinkTypes

LEMMA LinksAddUp == LinkInv => P!LinksAreComplete /\ P!ThrownOnlyOnFault /\ P!ActionsLackedAfterRace
<1> SUFFICES ASSUME LinkInv
             PROVE  P!LinksAreComplete /\ P!ThrownOnlyOnFault /\ P!ActionsLackedAfterRace
  OBVIOUS
<1>1. ASSUME NEW g \in Generators
      PROVE  /\ call[g] \in Calls /\ Fits(call[g], row[call[g].table]) /\ P!Wanted(g) = WantedOf(call[g])
             /\ call[g].found = [k \in DOMAIN call[g].found |-> call[g].found[k]]
  BY MapFacts DEF LinkInv, LinkTypes, Calls, P!Wanted, WantedOf
<1>2. P!LinksAreComplete
  <2> SUFFICES ASSUME NEW g \in Generators, call[g].pc = "done", call[g].table = "links"
               PROVE  call[g].found = [k \in P!Wanted(g) |-> row["links"][k]]
    BY DEF P!LinksAreComplete
  <2>1. /\ Fits(call[g], row["links"]) /\ P!Wanted(g) = WantedOf(call[g])
        /\ call[g].found = [k \in DOMAIN call[g].found |-> call[g].found[k]]
    BY <1>1
  <2>2. /\ DOMAIN call[g].found = P!Wanted(g)
        /\ \A k \in DOMAIN call[g].found : call[g].found[k] = row["links"][k]
    BY <2>1 DEF Fits
  <2> QED  BY <2>1, <2>2
<1>3. P!ThrownOnlyOnFault
  BY <1>1 DEF Fits, P!ThrownOnlyOnFault
<1>4. P!ActionsLackedAfterRace
  <2> SUFFICES ASSUME NEW g \in Generators, call[g].pc = "done", call[g].table = "actions", P!Lacks(g) # {}
               PROVE  call[g].unlucky \/ call[g].raced # {}
    BY DEF P!ActionsLackedAfterRace
  <2>1. Fits(call[g], row["actions"]) /\ ~ (WantedOf(call[g]) \subseteq DOMAIN call[g].found)
    BY <1>1 DEF P!Lacks
  <2> QED  BY <2>1 DEF Fits
<1> QED  BY <1>2, <1>3, <1>4

-----------------------------------------------------------------------------
(***************************************************************************)
(* MCReader's composition: what the reader_components run checks.          *)
(***************************************************************************)
ActionsInv == Runs("actions") => IInv /\ SourceInv

LEMMA ActionsInvStep == ActionsInv /\ [SumNext]_SumVars => ActionsInv'
<1> SUFFICES ASSUME ActionsInv, [SumNext]_SumVars, Runs("actions")'  PROVE (IInv /\ SourceInv)'
  BY DEF ActionsInv
<1>1. Runs("actions")
  BY DEF SumNext, SumVars, Runs
<1>2. [A!Next]_(A!vars)
  BY <1>1 DEF SumNext, SumVars, actionsVars, A!vars, Runs
<1> QED  BY <1>1, <1>2, StepIInv, StepSourceInv DEF ActionsInv

LEMMA ActionsInvInit == SumInit => ActionsInv
  BY InitIInv, InitSourceInv DEF SumInit, ActionsInv, Runs

LinksInv == Runs("links") => LinkInv

LEMMA LinksInvStep == LinksInv /\ [SumNext]_SumVars => LinksInv'
<1> SUFFICES ASSUME LinksInv, [SumNext]_SumVars, Runs("links")'  PROVE LinkInv'
  BY DEF LinksInv
<1>1. Runs("links")
  BY DEF SumNext, SumVars, Runs
<1>2. [P!Next]_(P!vars)
  BY <1>1 DEF SumNext, SumVars, linksVars, P!vars, Runs
<1> QED  BY <1>1, <1>2, StepLinks DEF LinksInv

LEMMA LinksInvInit == SumInit => LinksInv
  BY InitLinks DEF SumInit, LinksInv, Runs

(* What users did to articles adds up, and the links they opened are there   *)
(* and complete, with the exceptions that a race or a fault explains,        *)
(* whichever and however many transactions and calls run at a time.          *)
THEOREM ActionsAlwaysAddUp == SumSpec => []ActionsAddUp
<1>1. ActionsInv => (Runs("actions") => A!PreferenceCountsRows /\ A!SourceSumsReaders /\ A!OpensAreTracked)
  BY SourceSums DEF ActionsInv, IInv, SumInv
<1>2. LinksInv => (Runs("links") => P!LinksAreComplete /\ P!ThrownOnlyOnFault /\ P!ActionsLackedAfterRace)
  BY LinksAddUp DEF LinksInv
<1>3. ActionsInv /\ LinksInv => ActionsAddUp
  BY <1>1, <1>2 DEF ActionsAddUp
<1> QED  BY <1>3, ActionsInvInit, ActionsInvStep, LinksInvInit, LinksInvStep, PTL DEF SumSpec

(* Whichever and however many transactions of readers run at a time, only   *)
(* two readers' first interactions with the source wait for each other.     *)
THEOREM OnlyFirstActionsDeadlockHolds == SumSpec => []OnlyFirstActionsDeadlock
<1>1. ActionsInv => OnlyFirstActionsDeadlock
  BY OrderedLocks DEF ActionsInv, IInv, OnlyFirstActionsDeadlock
<1> QED  BY <1>1, ActionsInvInit, ActionsInvStep, PTL DEF SumSpec

-----------------------------------------------------------------------------
(***************************************************************************)
(* One reader's account, days and scores.                                  *)
(***************************************************************************)

AccountBound == MaxCalls \in Nat

AccountOp == [kind : U!Kinds, pc : U!Pc, token : Tokens \cup {None}, copy : U!User, session : 0 .. MaxCalls]

-----------------------------------------------------------------------------
(***************************************************************************)
(* The inductive invariant.                                                *)
(***************************************************************************)

(* A request that presents a token has one, a refresh a refresh token; a     *)
(* registration spends none.                                                 *)
Presents ==
  \A q \in Requests :
    /\ op[q].pc = "spend" =>
         /\ op[q].token \in Tokens /\ token[op[q].token].type # "none"
         /\ op[q].kind = "refresh" => token[op[q].token].type = "refresh"
    /\ op[q].pc = "spendAll" => op[q].kind # "register"

(* A request that will issue a refresh token, or is a registration on its    *)
(* way there, continues its session, and so does a usable token.             *)
Continues(q) ==
  op[q].pc \in {"find", "issue"} \/ (op[q].kind = "register" /\ op[q].pc \in {"insert", "token"})
UsableRefresh(t) == token[t].type = "refresh" /\ token[t].state = "usable"

(* Sessions are numbered by the requests that began them.                    *)
Numbered ==
  /\ \A q \in Requests : op[q].session <= started
  /\ \A t \in Tokens : token[t].session <= started

(* Whatever continues a session is alone, so long as no token was presented  *)
(* twice.                                                                    *)
OneContinuation ==
  ~ doubled =>
    /\ \A s, t \in Tokens :
         UsableRefresh(s) /\ UsableRefresh(t) /\ token[s].session = token[t].session => s = t
    /\ \A p, q \in Requests :
         Continues(p) /\ Continues(q) /\ op[p].session = op[q].session => p = q
    /\ \A q \in Requests, t \in Tokens :
         ~ (Continues(q) /\ UsableRefresh(t) /\ op[q].session = token[t].session)

AccountInv == U!TypeOK /\ Presents /\ Numbered /\ OneContinuation

-----------------------------------------------------------------------------
(***************************************************************************)
(* Steps.                                                                  *)
(***************************************************************************)
LEMMA AccountTypesOf ==
  U!TypeOK <=> /\ user \in U!User
             /\ token \in [Tokens -> U!Token]
             /\ op \in [Requests -> AccountOp]
             /\ started \in 0 .. MaxCalls
             /\ overwrote \in BOOLEAN /\ doubled \in BOOLEAN
             /\ \A t \in Tokens : token[t].type = "none" <=> token[t].state = "unused"
  BY DEF U!TypeOK, AccountOp

LEMMA Records ==
  ASSUME AccountBound
  PROVE  /\ U!NoUser \in U!User /\ U!Fresh \in U!User /\ U!NoToken \in U!Token /\ U!NoOp \in AccountOp
         /\ U!NoOp.pc = "idle" /\ U!NoOp.session = 0
         /\ U!NoToken.type = "none" /\ U!NoToken.state = "unused" /\ U!NoToken.session = 0
         /\ U!Fresh.exists /\ ~ U!NoUser.exists
<1>1. 0 \in 0 .. MaxCalls
  BY DEF AccountBound
<1>2. U!NoUser \in U!User /\ ~ U!NoUser.exists
  BY <1>1 DEF U!NoUser, U!User
<1>3. U!Fresh \in U!User /\ U!Fresh.exists
  BY <1>2 DEF U!Fresh, U!User
<1>4. /\ U!NoToken \in U!Token
      /\ U!NoToken.type = "none" /\ U!NoToken.state = "unused" /\ U!NoToken.session = 0
  BY <1>1 DEF U!NoToken, U!Token
<1>5. U!NoOp \in AccountOp /\ U!NoOp.pc = "idle" /\ U!NoOp.session = 0
  BY <1>1, <1>2 DEF U!NoOp, AccountOp, U!Kinds, U!Pc
<1> QED  BY <1>2, <1>3, <1>4, <1>5

(* A step that moves one request and no token.                               *)
LEMMA OpStep ==
  ASSUME AccountBound, AccountInv, NEW q \in Requests, NEW o \in AccountOp, op' = [op EXCEPT ![q] = o],
         token' = token, started' = started, doubled' = doubled,
         user' \in U!User, overwrote' \in BOOLEAN,
         o.pc \notin {"spend", "spendAll"},
         o.session <= started,
         o.pc \in {"find", "issue"} \/ (o.kind = "register" /\ o.pc \in {"insert", "token"}) =>
           Continues(q) /\ o.session = op[q].session
  PROVE  AccountInv'
<1>1. /\ op' \in [Requests -> AccountOp] /\ op'[q] = o
      /\ \A p \in Requests \ {q} : op'[p] = op[p]
  BY AccountTypesOf DEF AccountInv
<1>2. U!TypeOK'
  BY <1>1, AccountTypesOf DEF AccountInv, U!TypeOK, AccountOp
<1>3. Presents' /\ Numbered'
  BY <1>1 DEF AccountInv, Presents, Numbered
<1>4. /\ \A p \in Requests : Continues(p)' => Continues(p) /\ op'[p].session = op[p].session
      /\ \A t \in Tokens : UsableRefresh(t)' = UsableRefresh(t)
  BY <1>1 DEF Continues, UsableRefresh
<1>5. OneContinuation'
  BY <1>4 DEF AccountInv, OneContinuation
<1> QED  BY <1>2, <1>3, <1>5 DEF AccountInv

LEMMA RequestEnds ==
  ASSUME AccountBound, AccountInv, NEW q \in Requests, U!Ends(q), token' = token, started' = started,
         doubled' = doubled, user' \in U!User, overwrote' \in BOOLEAN
  PROVE  AccountInv'
<1>1. started \in Nat
  BY DEF AccountInv, U!TypeOK, AccountBound
<1>2. U!NoOp.session <= started
  BY <1>1, Records
<1> QED  BY <1>2, Records, OpStep DEF U!Ends

LEMMA GoStep ==
  ASSUME AccountBound, AccountInv, NEW q \in Requests, NEW pc \in U!Pc \ {"spend", "spendAll"}, U!Goes(q, pc), token' = token,
         started' = started, doubled' = doubled, user' \in U!User, overwrote' \in BOOLEAN,
         pc \in {"find", "issue"} \/ (op[q].kind = "register" /\ pc \in {"insert", "token"}) =>
           Continues(q)
  PROVE  AccountInv'
<1> DEFINE o == [op[q] EXCEPT !.pc = pc]
<1>1. op[q] \in AccountOp
  BY AccountTypesOf DEF AccountInv
<1>2. /\ o \in AccountOp /\ o.pc = pc /\ o.kind = op[q].kind /\ o.session = op[q].session
  BY <1>1 DEF AccountOp
<1>3. op' = [op EXCEPT ![q] = o]
  BY DEF U!Goes
<1>4. o.session <= started
  BY <1>2 DEF AccountInv, Numbered
<1> HIDE DEF o
<1> QED  BY <1>2, <1>3, <1>4, OpStep

(* A request arrives: its number is new, and it presents a token that may be *)
(* used.  What it continues, if anything, is its own session.                *)
LEMMA StartStep ==
  ASSUME AccountBound, AccountInv, NEW q \in Requests, NEW kind \in U!Kinds, NEW pc \in U!Pc, NEW t \in Tokens \cup {None},
         U!Starts(q, kind, pc, t), token' = token, doubled' = doubled,
         user' \in U!User, overwrote' \in BOOLEAN,
         pc = "spend" => t \in Tokens /\ token[t].type # "none"
                           /\ (kind = "refresh" => token[t].type = "refresh"),
         pc = "spendAll" => kind # "register"
  PROVE  AccountInv'
<1> DEFINE o == [U!NoOp EXCEPT !.kind = kind, !.pc = pc, !.token = t, !.session = started + 1]
<1>1. started + 1 \in 0 .. MaxCalls /\ started' = started + 1 /\ started \in Nat
  BY DEF U!Starts, AccountInv, U!TypeOK, AccountBound
<1>2. o \in AccountOp /\ o.kind = kind /\ o.pc = pc /\ o.token = t /\ o.session = started + 1
  BY <1>1, Records DEF AccountOp
<1>3. op' = [op EXCEPT ![q] = o] /\ op[q].pc = "idle"
  BY DEF U!Starts
<1> HIDE DEF o
<1>4. /\ op' \in [Requests -> AccountOp] /\ op'[q] = o
      /\ \A p \in Requests \ {q} : op'[p] = op[p]
  BY <1>2, <1>3, AccountTypesOf DEF AccountInv
<1>5. U!TypeOK'
  BY <1>1, <1>4, AccountTypesOf DEF AccountInv, U!TypeOK, AccountOp
<1>6. Presents'
  BY <1>2, <1>4 DEF AccountInv, Presents
<1>7. \A p \in Requests : op[p].session \in Nat /\ op[p].session <= started
  BY AccountTypesOf DEF AccountInv, Numbered, AccountOp, AccountBound
<1>8. \A s \in Tokens : token[s].session \in Nat /\ token[s].session <= started
  BY AccountTypesOf DEF AccountInv, Numbered, U!Token, AccountBound
<1>9. Numbered'
  BY <1>1, <1>2, <1>4, <1>7, <1>8 DEF Numbered
<1>10. /\ \A p \in Requests \ {q} : Continues(p)' = Continues(p)
       /\ \A s \in Tokens : UsableRefresh(s)' = UsableRefresh(s)
  BY <1>4 DEF Continues, UsableRefresh
<1>11. OneContinuation'
  BY <1>1, <1>2, <1>4, <1>7, <1>8, <1>10 DEF AccountInv, OneContinuation
<1> QED  BY <1>5, <1>6, <1>9, <1>11 DEF AccountInv

LEMMA RequestStep ==
  ASSUME AccountBound, AccountInv, NEW q \in Requests, U!Request(q)
  PROVE  AccountInv'
<1>1. token' = token /\ doubled' = doubled /\ user' \in U!User /\ overwrote' \in BOOLEAN
  BY DEF U!Request, AccountInv, U!TypeOK
<1>3. CASE U!Register(q)
  BY <1>1, <1>3, StartStep DEF U!Register, U!Kinds, U!Pc
<1>4. CASE U!Login(q)
  BY <1>1, <1>4, StartStep DEF U!Login, U!Kinds, U!Pc
<1>5. CASE U!Verify(q)
  BY <1>1, <1>5, StartStep DEF U!Verify, U!Usable, U!Kinds, U!Pc
<1>6. CASE U!Resend(q)
  BY <1>1, <1>6, StartStep DEF U!Resend, U!Kinds, U!Pc
<1>7. CASE U!Refresh(q)
  BY <1>1, <1>7, StartStep DEF U!Refresh, U!Usable, U!Kinds, U!Pc
<1>8. CASE U!Logout(q)
  BY <1>1, <1>8, StartStep DEF U!Logout, U!Usable, U!Kinds, U!Pc
<1>9. CASE U!Forgot(q)
  BY <1>1, <1>9, StartStep DEF U!Forgot, U!Kinds, U!Pc
<1>10. CASE U!Reset(q)
  BY <1>1, <1>10, StartStep DEF U!Reset, U!Usable, U!Kinds, U!Pc
<1>11. CASE U!Change(q) \/ U!Profile(q) \/ U!Onboard(q)
  BY <1>1, <1>11, StartStep DEF U!Change, U!Profile, U!Onboard, U!Kinds, U!Pc
<1> QED  BY <1>3, <1>4, <1>5, <1>6, <1>7, <1>8, <1>9, <1>10, <1>11 DEF U!Request

(* Statements that write no token.                                           *)
LEMMA PlainSteps ==
  ASSUME AccountBound, AccountInv, NEW q \in Requests,
         U!Fails(q) \/ U!Insert(q) \/ U!FindUser(q) \/ U!Unchanged(q)
  PROVE  AccountInv'
<1>1. token' = token /\ doubled' = doubled /\ started' = started
      /\ overwrote' \in BOOLEAN /\ user' \in U!User
  BY Records DEF U!Fails, U!Insert, U!FindUser, U!Unchanged, AccountInv, U!TypeOK
<1>2. CASE U!Fails(q)
  BY <1>1, <1>2, RequestEnds DEF U!Fails
<1>3. CASE U!Insert(q)
  <2>1. op[q].pc = "insert" /\ (U!Goes(q, "token") \/ U!Ends(q))
    BY <1>3 DEF U!Insert
  <2>2. op[q].kind = "register" => Continues(q)
    BY <2>1 DEF Continues
  <2> QED  BY <1>1, <2>1, <2>2, RequestEnds, GoStep DEF U!Pc
<1>4. CASE U!FindUser(q)
  <2>1. op[q].pc = "find" /\ (U!Goes(q, "issue") \/ U!Ends(q))
    BY <1>4 DEF U!FindUser
  <2>2. Continues(q)
    BY <2>1 DEF Continues
  <2> QED  BY <1>1, <2>1, <2>2, RequestEnds, GoStep DEF U!Pc
<1>5. CASE U!Unchanged(q)
  BY <1>1, <1>5, RequestEnds, GoStep DEF U!Unchanged, U!Pc
<1> QED  BY <1>2, <1>3, <1>4, <1>5

LEMMA UserSteps ==
  ASSUME AccountBound, AccountInv, NEW q \in Requests, U!Load(q) \/ U!SaveUser(q) \/ U!DirectFields(q)
  PROVE  AccountInv'
<1>1. /\ op[q] \in AccountOp /\ user \in U!User /\ op[q].session <= started
      /\ token' = token /\ doubled' = doubled /\ started' = started
  BY AccountTypesOf DEF AccountInv, Numbered, U!Load, U!SaveUser, U!DirectFields
<1>2. overwrote' \in BOOLEAN
  BY DEF U!Load, U!SaveUser, U!DirectFields, AccountInv, U!TypeOK
<1>3. CASE U!Load(q)
  <2> DEFINE o == [op[q] EXCEPT !.copy = user, !.pc = "save"]
  <2>1. /\ o \in AccountOp /\ o.pc = "save" /\ o.session = op[q].session
    BY <1>1 DEF AccountOp, U!Pc
  <2>2. user' = user /\ (op' = [op EXCEPT ![q] = o] \/ U!Ends(q))
    BY <1>3 DEF U!Load
  <2> HIDE DEF o
  <2> QED  BY <1>1, <1>2, <2>1, <2>2, RequestEnds, OpStep
<1>4. CASE U!SaveUser(q)
  <2>1. user' \in U!User
    <3>1. user' = U!Edited(op[q].kind, op[q].copy, op[q].session)
      BY <1>4 DEF U!SaveUser
    <3>2. op[q].copy \in U!User /\ op[q].session \in 0 .. MaxCalls
      BY <1>1 DEF AccountOp
    <3> QED  BY <3>1, <3>2 DEF U!Edited, U!User
  <2>2. U!Goes(q, "revoke") \/ U!Goes(q, "direct") \/ U!Ends(q)
    BY <1>4 DEF U!SaveUser
  <2> QED  BY <1>1, <1>2, <2>1, <2>2, RequestEnds, GoStep DEF U!Pc
<1>5. CASE U!DirectFields(q)
  <2> DEFINE o == [op[q] EXCEPT !.pc = "load", !.kind = "onboard"]
  <2>1. /\ o \in AccountOp /\ o.pc = "load" /\ o.session = op[q].session
    BY <1>1 DEF AccountOp, U!Pc, U!Kinds
  <2>2. op' = [op EXCEPT ![q] = o]
    BY <1>1, <1>5, AccountTypesOf DEF U!DirectFields, AccountInv, AccountOp
  <2>3. user' \in U!User
    BY <1>1, <1>5 DEF U!DirectFields, U!User
  <2> HIDE DEF o
  <2> QED  BY <1>1, <1>2, <2>1, <2>2, <2>3, OpStep
<1> QED  BY <1>3, <1>4, <1>5

-----------------------------------------------------------------------------
(***************************************************************************)
(* Statements that write tokens.                                           *)
(***************************************************************************)

(* No refresh token becomes usable.                                          *)
LEMMA SpendingStep ==
  ASSUME AccountBound, AccountInv, NEW q \in Requests, NEW o \in AccountOp, op' = [op EXCEPT ![q] = o],
         user' = user, overwrote' = overwrote, started' = started, doubled' \in BOOLEAN,
         doubled => doubled',
         token' \in [Tokens -> U!Token],
         \A t \in Tokens :
           /\ token'[t].type = "none" <=> token'[t].state = "unused"
           /\ token'[t].session <= started
           /\ UsableRefresh(t)' => UsableRefresh(t) /\ token'[t].session = token[t].session
           /\ token[t].type # "none" => token'[t].type = token[t].type,
         o.pc \notin {"spend", "spendAll"},
         o.session <= started,
         ~ doubled' => (o.pc \in {"find", "issue"} \/ (o.kind = "register" /\ o.pc \in {"insert", "token"}) =>
                          Continues(q) /\ o.session = op[q].session)
  PROVE  AccountInv'
<1>1. /\ op' \in [Requests -> AccountOp] /\ op'[q] = o
      /\ \A p \in Requests \ {q} : op'[p] = op[p]
  BY AccountTypesOf DEF AccountInv
<1>2. U!TypeOK'
  BY <1>1 DEF AccountInv, U!TypeOK, AccountOp
<1>3. Presents' /\ Numbered'
  BY <1>1 DEF AccountInv, Presents, Numbered
<1>4. ~ doubled' => \A p \in Requests : Continues(p)' => Continues(p) /\ op'[p].session = op[p].session
  BY <1>1 DEF Continues
<1>5. OneContinuation'
  BY <1>4 DEF AccountInv, OneContinuation
<1> QED  BY <1>2, <1>3, <1>5 DEF AccountInv

LEMMA SpendSome ==
  ASSUME AccountBound, AccountInv, NEW Z \in SUBSET Tokens, \A t \in Z : token[t].type # "none",
         token' = [t \in Tokens |-> IF t \in Z THEN [token[t] EXCEPT !.state = "spent"] ELSE token[t]]
  PROVE  /\ token' \in [Tokens -> U!Token]
         /\ \A t \in Tokens :
              /\ token'[t].type = "none" <=> token'[t].state = "unused"
              /\ token'[t].session <= started
              /\ UsableRefresh(t)' => UsableRefresh(t) /\ token'[t].session = token[t].session
              /\ token[t].type # "none" => token'[t].type = token[t].type
              /\ t \in Z => ~ UsableRefresh(t)'
<1>1. \A t \in Tokens : /\ token[t] \in U!Token /\ token[t].session <= started
                        /\ token[t].type = "none" <=> token[t].state = "unused"
  BY DEF AccountInv, U!TypeOK, Numbered
<1>2. ASSUME NEW t \in Z
      PROVE  /\ token'[t] \in U!Token /\ token'[t].type = token[t].type /\ token'[t].state = "spent"
             /\ token'[t].session = token[t].session
  BY <1>1, <1>2 DEF U!Token
<1>3. \A t \in Tokens \ Z : token'[t] = token[t]
  OBVIOUS
<1> QED  BY <1>1, <1>2, <1>3 DEF UsableRefresh

LEMMA BatchSteps ==
  ASSUME AccountBound, AccountInv, NEW q \in Requests, U!SpendAll(q) \/ U!RevokeAll(q)
  PROVE  AccountInv'
<1>1. /\ op[q] \in AccountOp /\ op[q].session <= started /\ doubled \in BOOLEAN
      /\ user' = user /\ overwrote' = overwrote /\ started' = started /\ doubled' = doubled
  BY AccountTypesOf DEF AccountInv, Numbered, U!SpendAll, U!RevokeAll
<1>2. PICK Z \in SUBSET Tokens :
        /\ \A t \in Z : token[t].type # "none"
        /\ token' = [t \in Tokens |-> IF t \in Z THEN [token[t] EXCEPT !.state = "spent"] ELSE token[t]]
  <2>1. CASE U!SpendAll(q)
    <3>1. U!Usable("verification") \in SUBSET Tokens /\ \A t \in U!Usable("verification") : token[t].type # "none"
      BY DEF U!Usable
    <3> QED  BY <2>1, <3>1 DEF U!SpendAll
  <2>2. CASE U!RevokeAll(q)
    <3>1. U!Usable("refresh") \in SUBSET Tokens /\ \A t \in U!Usable("refresh") : token[t].type # "none"
      BY DEF U!Usable
    <3> QED  BY <2>2, <3>1 DEF U!RevokeAll
  <2> QED  BY <2>1, <2>2
<1> DEFINE to == [op[q] EXCEPT !.pc = "token"]
<1>3. to \in AccountOp /\ to.pc = "token" /\ to.kind = op[q].kind /\ to.session = op[q].session
  BY <1>1 DEF AccountOp, U!Pc
<1>4. U!NoOp \in AccountOp /\ U!NoOp.pc = "idle" /\ U!NoOp.session <= started
  BY Records DEF AccountInv, U!TypeOK, AccountBound
<1>5. /\ token' \in [Tokens -> U!Token]
      /\ \A t \in Tokens :
           /\ token'[t].type = "none" <=> token'[t].state = "unused"
           /\ token'[t].session <= started
           /\ UsableRefresh(t)' => UsableRefresh(t) /\ token'[t].session = token[t].session
           /\ token[t].type # "none" => token'[t].type = token[t].type
  BY <1>2, SpendSome
<1>6. CASE U!RevokeAll(q)
  <2>1. op' = [op EXCEPT ![q] = U!NoOp]
    BY <1>6 DEF U!RevokeAll, U!Ends
  <2> QED  BY <1>1, <1>4, <1>5, <2>1, SpendingStep
<1>7. CASE U!SpendAll(q)
  <2>1. op[q].pc = "spendAll" /\ op' = [op EXCEPT ![q] = to]
    BY <1>7 DEF U!SpendAll, U!Goes
  <2>2. op[q].kind # "register"
    BY <2>1 DEF AccountInv, Presents
  <2> HIDE DEF to
  <2> QED  BY <1>1, <1>3, <1>5, <2>1, <2>2, SpendingStep
<1> QED  BY <1>6, <1>7

LEMMA SaveTokenStep ==
  ASSUME AccountBound, AccountInv, NEW q \in Requests, U!SaveToken(q)
  PROVE  AccountInv'
<1>1. /\ op[q] \in AccountOp /\ op[q].pc = "token" /\ op[q].session <= started /\ doubled \in BOOLEAN
      /\ user' = user /\ overwrote' = overwrote /\ started' = started /\ doubled' = doubled
  BY AccountTypesOf DEF AccountInv, Numbered, U!SaveToken
<1>2. PICK t \in Tokens :
        /\ token[t] = U!NoToken
        /\ token' = [token EXCEPT ![t] =
             [U!NoToken EXCEPT !.type = IF op[q].kind = "forgot" THEN "reset" ELSE "verification",
                             !.state = "usable"]]
  BY DEF U!SaveToken
<1> DEFINE new == [U!NoToken EXCEPT !.type = IF op[q].kind = "forgot" THEN "reset" ELSE "verification",
                                  !.state = "usable"]
<1>3. /\ new \in U!Token /\ new.type \in {"reset", "verification"} /\ new.state = "usable"
      /\ new.session = 0
  BY Records DEF U!Token
<1> HIDE DEF new
<1>4. /\ token' \in [Tokens -> U!Token] /\ token'[t] = new
      /\ \A s \in Tokens \ {t} : token'[s] = token[s]
  BY <1>2, <1>3 DEF AccountInv, U!TypeOK, new
<1>5. started \in Nat /\ token[t].type = "none"
  BY <1>2, Records DEF AccountInv, U!TypeOK, AccountBound
<1>6. \A s \in Tokens :
        /\ token'[s].type = "none" <=> token'[s].state = "unused"
        /\ token'[s].session <= started
        /\ UsableRefresh(s)' => UsableRefresh(s) /\ token'[s].session = token[s].session
        /\ token[s].type # "none" => token'[s].type = token[s].type
  BY <1>3, <1>4, <1>5 DEF UsableRefresh, AccountInv, U!TypeOK, Numbered
<1>7. CASE op[q].kind = "register"
  <2> DEFINE o == [op[q] EXCEPT !.pc = "issue"]
  <2>1. o \in AccountOp /\ o.pc = "issue" /\ o.session = op[q].session
    BY <1>1 DEF AccountOp, U!Pc
  <2>2. op' = [op EXCEPT ![q] = o]
    BY <1>7 DEF U!SaveToken, U!Goes
  <2>3. Continues(q)
    BY <1>1, <1>7 DEF Continues
  <2> HIDE DEF o
  <2> QED  BY <1>1, <1>4, <1>6, <2>1, <2>2, <2>3, SpendingStep
<1>8. CASE op[q].kind # "register"
  <2>1. op' = [op EXCEPT ![q] = U!NoOp]
    BY <1>8 DEF U!SaveToken, U!Ends
  <2>2. U!NoOp \in AccountOp /\ U!NoOp.pc = "idle" /\ U!NoOp.session <= started
    BY <1>5, Records
  <2> QED  BY <1>1, <1>4, <1>6, <2>1, <2>2, SpendingStep
<1> QED  BY <1>7, <1>8

(* The new token continues what the request continued.                       *)
LEMMA IssueStep ==
  ASSUME AccountBound, AccountInv, NEW q \in Requests, U!IssueTokens(q)
  PROVE  AccountInv'
<1>1. /\ op[q] \in AccountOp /\ op[q].pc = "issue" /\ op[q].session <= started
      /\ user' = user /\ overwrote' = overwrote /\ started' = started /\ doubled' = doubled
      /\ started \in Nat
  BY AccountTypesOf DEF AccountInv, Numbered, U!IssueTokens, AccountBound
<1>2. PICK t \in Tokens :
        /\ token[t] = U!NoToken
        /\ token' = [token EXCEPT ![t] = [type |-> "refresh", state |-> "usable",
                                          session |-> op[q].session]]
  BY DEF U!IssueTokens
<1> DEFINE new == [type |-> "refresh", state |-> "usable", session |-> op[q].session]
<1>3. /\ new \in U!Token /\ new.type = "refresh" /\ new.state = "usable"
      /\ new.session = op[q].session
  BY <1>1 DEF U!Token, AccountOp
<1> HIDE DEF new
<1>4. /\ token' \in [Tokens -> U!Token] /\ token'[t] = new
      /\ \A s \in Tokens \ {t} : token'[s] = token[s]
  BY <1>2, <1>3 DEF AccountInv, U!TypeOK, new
<1>5. op' = [op EXCEPT ![q] = U!NoOp] /\ U!NoOp \in AccountOp /\ U!NoOp.pc = "idle" /\ U!NoOp.session = 0
  BY Records DEF U!IssueTokens, U!Ends
<1>6. /\ op' \in [Requests -> AccountOp] /\ op'[q] = U!NoOp
      /\ \A p \in Requests \ {q} : op'[p] = op[p]
  BY <1>5, AccountTypesOf DEF AccountInv
<1>7. Continues(q) /\ ~ UsableRefresh(t) /\ token[t].type = "none"
  BY <1>1, <1>2, Records DEF Continues, UsableRefresh
<1>8. U!TypeOK'
  BY <1>1, <1>3, <1>4, <1>6 DEF AccountInv, U!TypeOK, AccountOp
<1>9. Presents'
  BY <1>4, <1>5, <1>6, <1>7 DEF AccountInv, Presents
<1>10. Numbered'
  BY <1>1, <1>3, <1>4, <1>5, <1>6 DEF AccountInv, Numbered
<1>11. /\ ~ Continues(q)' /\ UsableRefresh(t)'
       /\ \A p \in Requests \ {q} : Continues(p)' = Continues(p)
       /\ \A s \in Tokens \ {t} : UsableRefresh(s)' = UsableRefresh(s)
  BY <1>3, <1>4, <1>5, <1>6 DEF Continues, UsableRefresh
<1>12. OneContinuation'
  BY <1>1, <1>3, <1>4, <1>6, <1>7, <1>11 DEF AccountInv, OneContinuation
<1> QED  BY <1>8, <1>9, <1>10, <1>12 DEF AccountInv

(* The request takes over from the token that it presents.                   *)
LEMMA SpendStep ==
  ASSUME AccountBound, AccountInv, NEW q \in Requests, U!Spend(q)
  PROVE  AccountInv'
<1>0. PICK t \in Tokens : t = op[q].token
  BY DEF AccountInv, Presents, U!Spend
<1>1. /\ op[q] \in AccountOp /\ op[q].pc = "spend" /\ op[q].session <= started /\ t \in Tokens
      /\ user' = user /\ overwrote' = overwrote /\ started' = started
      /\ token[t].type # "none"
      /\ op[q].kind = "refresh" => token[t].type = "refresh"
      /\ token' = [token EXCEPT ![t].state = "spent"]
      /\ doubled' = (doubled \/ (op[q].kind = "refresh" /\ token[t].state = "spent"))
      /\ doubled \in BOOLEAN
  BY <1>0, AccountTypesOf DEF AccountInv, Numbered, Presents, U!Spend
<1>2. token[t] \in U!Token /\ token[t].session <= started
  BY <1>1 DEF AccountInv, U!TypeOK, Numbered
<1>3. /\ token' \in [Tokens -> U!Token]
      /\ \A s \in Tokens :
           /\ token'[s].type = "none" <=> token'[s].state = "unused"
           /\ token'[s].session <= started
           /\ UsableRefresh(s)' => UsableRefresh(s) /\ token'[s].session = token[s].session
           /\ token[s].type # "none" => token'[s].type = token[s].type
           /\ s = t => ~ UsableRefresh(s)'
  <2> DEFINE Z == {t}
  <2>1. token' = [s \in Tokens |-> IF s \in Z THEN [token[s] EXCEPT !.state = "spent"] ELSE token[s]]
    BY <1>1 DEF AccountInv, U!TypeOK
  <2>2. Z \in SUBSET Tokens /\ (\A s \in Z : token[s].type # "none") /\ t \in Z
    BY <1>1
  <2> HIDE DEF Z
  <2> QED  BY <2>1, <2>2, SpendSome
<1>4. CASE op[q].kind = "logout"
  <2>1. op' = [op EXCEPT ![q] = U!NoOp]
    BY <1>4 DEF U!Spend, U!Ends
  <2>2. U!NoOp \in AccountOp /\ U!NoOp.pc = "idle" /\ U!NoOp.session <= started
    BY Records DEF AccountInv, U!TypeOK, AccountBound
  <2> QED  BY <1>1, <1>3, <2>1, <2>2, SpendingStep
<1>5. CASE op[q].kind \notin {"logout", "refresh"}
  <2> DEFINE o == [op[q] EXCEPT !.pc = "load"]
  <2>1. o \in AccountOp /\ o.pc = "load" /\ o.session = op[q].session
    BY <1>1 DEF AccountOp, U!Pc
  <2>2. op' = [op EXCEPT ![q] = o]
    BY <1>5 DEF U!Spend, U!Goes
  <2> HIDE DEF o
  <2> QED  BY <1>1, <1>3, <2>1, <2>2, SpendingStep
<1>6. CASE op[q].kind = "refresh"
  <2> DEFINE o == [op[q] EXCEPT !.pc = "find", !.session = token[t].session]
  <2>1. o \in AccountOp /\ o.pc = "find" /\ o.session = token[t].session
    BY <1>1, <1>2 DEF AccountOp, U!Pc, U!Token
  <2>2. op' = [op EXCEPT ![q] = o]
    BY <1>0, <1>1, <1>6, AccountTypesOf DEF U!Spend, AccountInv, AccountOp
  <2> HIDE DEF o
  <2>3. CASE token[t].state = "spent"
    BY <1>1, <1>2, <1>3, <1>6, <2>1, <2>2, <2>3, SpendingStep
  <2>4. CASE token[t].state # "spent"
    <3>1. UsableRefresh(t) /\ ~ UsableRefresh(t)' /\ doubled' = doubled
      <4>1. token[t].type = "refresh" /\ token[t].state \in {"unused", "usable", "spent"}
            /\ (token[t].type = "none" <=> token[t].state = "unused")
        BY <1>1, <1>2, <1>6 DEF AccountInv, U!TypeOK, U!Token
      <4>2. UsableRefresh(t)
        BY <2>4, <4>1 DEF UsableRefresh
      <4>3. ~ UsableRefresh(t)'
        BY <1>1, <1>3
      <4>4. doubled' = doubled
        BY <1>1, <2>4
      <4> QED  BY <4>2, <4>3, <4>4
    <3>2. /\ op' \in [Requests -> AccountOp] /\ op'[q] = o
          /\ \A p \in Requests \ {q} : op'[p] = op[p]
      BY <2>1, <2>2, AccountTypesOf DEF AccountInv
    <3>3. U!TypeOK'
      BY <1>1, <1>3, <3>1, <3>2 DEF AccountInv, U!TypeOK, AccountOp
    <3>4. Presents'
      BY <1>3, <2>1, <3>2 DEF AccountInv, Presents
    <3>5. Numbered'
      BY <1>1, <1>2, <1>3, <2>1, <3>2 DEF AccountInv, Numbered
    <3>6. \A p \in Requests \ {q} : Continues(p)' = Continues(p)
      BY <3>2 DEF Continues
    <3>7. ASSUME ~ doubled
          PROVE  /\ \A p \in Requests : Continues(p) => op[p].session # token[t].session
                 /\ \A s \in Tokens \ {t} : UsableRefresh(s) => token[s].session # token[t].session
      BY <1>1, <3>1, <3>7 DEF AccountInv, OneContinuation
    <3>8. OneContinuation'
      BY <1>1, <1>3, <2>1, <3>1, <3>2, <3>6, <3>7 DEF AccountInv, OneContinuation
    <3> QED  BY <3>3, <3>4, <3>5, <3>8 DEF AccountInv
  <2> QED  BY <2>3, <2>4
<1> QED  BY <1>4, <1>5, <1>6

(* The account's own events: a token expires, an administrator deletes, the  *)
(* seed script starts over.                                                  *)
LEMMA OtherSteps ==
  ASSUME AccountBound, AccountInv, U!SoftDelete \/ U!Expire \/ \E q \in Requests : U!Sync(q)
  PROVE  AccountInv'
<1>1. CASE U!SoftDelete
  <2>1. /\ token' = token /\ op' = op /\ started' = started /\ doubled' = doubled
        /\ overwrote' = overwrote
    BY <1>1 DEF U!SoftDelete
  <2>2. user' \in U!User
    BY <1>1 DEF U!SoftDelete, AccountInv, U!TypeOK, U!User
  <2>3. U!TypeOK'
    BY <2>1, <2>2 DEF AccountInv, U!TypeOK
  <2> QED  BY <2>1, <2>3 DEF AccountInv, Presents, Numbered, OneContinuation, Continues,
              UsableRefresh
<1>2. CASE U!Expire
  <2>1. PICK t \in U!Usable("verification") \cup U!Usable("reset") :
          token' = [token EXCEPT ![t].state = "spent"]
    BY <1>2 DEF U!Expire
  <2>2. t \in Tokens /\ token[t].type # "none"
    BY DEF U!Usable
  <2>3. /\ user' = user /\ op' = op /\ started' = started /\ doubled' = doubled
        /\ overwrote' = overwrote
    BY <1>2 DEF U!Expire
  <2> DEFINE Z == {t}
  <2>4. token' = [s \in Tokens |-> IF s \in Z THEN [token[s] EXCEPT !.state = "spent"] ELSE token[s]]
    BY <2>1, <2>2 DEF AccountInv, U!TypeOK
  <2>5. Z \in SUBSET Tokens /\ \A s \in Z : token[s].type # "none"
    BY <2>2
  <2> HIDE DEF Z
  <2>6. /\ token' \in [Tokens -> U!Token]
        /\ \A s \in Tokens :
             /\ token'[s].type = "none" <=> token'[s].state = "unused"
             /\ token'[s].session <= started
             /\ UsableRefresh(s)' => UsableRefresh(s) /\ token'[s].session = token[s].session
             /\ token[s].type # "none" => token'[s].type = token[s].type
    BY <2>4, <2>5, SpendSome
  <2>7. U!TypeOK'
    BY <2>3, <2>6 DEF AccountInv, U!TypeOK
  <2>8. Presents' /\ Numbered'
    BY <2>3, <2>6 DEF AccountInv, Presents, Numbered
  <2>9. OneContinuation'
    BY <2>3, <2>6 DEF AccountInv, OneContinuation, Continues
  <2> QED  BY <2>7, <2>8, <2>9 DEF AccountInv
<1>3. CASE \E q \in Requests : U!Sync(q)
  <2>1. PICK q \in Requests : U!Sync(q)
    BY <1>3
  <2>2. U!Starts(q, "sync", "load", None) /\ token' = token /\ doubled' = doubled /\ overwrote' = overwrote
    BY <2>1 DEF U!Sync
  <2>3. user' \in U!User
    BY <2>1, Records DEF U!Sync, AccountInv, U!TypeOK, U!User
  <2>4. overwrote' \in BOOLEAN
    BY <2>2 DEF AccountInv, U!TypeOK
  <2> QED  BY <2>2, <2>3, <2>4, StartStep DEF U!Kinds, U!Pc
<1> QED  BY <1>1, <1>2, <1>3

-----------------------------------------------------------------------------
(***************************************************************************)
(* The theorems.                                                           *)
(***************************************************************************)
LEMMA InitAccount == AccountBound /\ U!Init => AccountInv
<1> SUFFICES ASSUME AccountBound, U!Init  PROVE  AccountInv
  OBVIOUS
<1>1. U!TypeOK
  <2>1. user \in U!User /\ token \in [Tokens -> U!Token] /\ op \in [Requests -> AccountOp]
    BY Records DEF U!Init
  <2>2. started \in 0 .. MaxCalls /\ overwrote \in BOOLEAN /\ doubled \in BOOLEAN
    <3>1. started = 0 /\ overwrote = FALSE /\ doubled = FALSE
      BY DEF U!Init
    <3>2. started \in 0 .. MaxCalls
      BY <3>1 DEF AccountBound
    <3>3. overwrote \in BOOLEAN /\ doubled \in BOOLEAN
      BY <3>1, Zenon
    <3> QED  BY <3>2, <3>3
  <2>3. \A t \in Tokens : token[t].type = "none" <=> token[t].state = "unused"
    BY Records DEF U!Init
  <2> QED  BY <2>1, <2>2, <2>3, AccountTypesOf
<1>2. Presents /\ Numbered /\ OneContinuation
  BY Records DEF U!Init, Presents, Numbered, OneContinuation, Continues, UsableRefresh, AccountBound
<1> QED  BY <1>1, <1>2 DEF AccountInv

LEMMA StepAccount == AccountBound /\ AccountInv /\ [U!Next]_(U!vars) => AccountInv'
<1> SUFFICES ASSUME AccountBound, AccountInv, [U!Next]_(U!vars)  PROVE  AccountInv'
  OBVIOUS
<1>1. ASSUME NEW q \in Requests,
             \/ U!Request(q) \/ U!Fails(q) \/ U!Insert(q) \/ U!SaveToken(q) \/ U!IssueTokens(q) \/ U!Spend(q)
             \/ U!SpendAll(q) \/ U!FindUser(q) \/ U!Load(q) \/ U!SaveUser(q) \/ U!Unchanged(q)
             \/ U!RevokeAll(q) \/ U!DirectFields(q)
      PROVE  AccountInv'
  BY <1>1, RequestStep, PlainSteps, UserSteps, BatchSteps, SaveTokenStep, IssueStep, SpendStep
<1>2. CASE U!SoftDelete \/ U!Expire \/ \E q \in Requests : U!Sync(q)
  BY <1>2, OtherSteps
<1>3. CASE UNCHANGED U!vars
  BY <1>3 DEF U!vars, AccountInv, U!TypeOK, Presents, Numbered, OneContinuation, Continues,
     UsableRefresh
<1> QED  BY <1>1, <1>2, <1>3 DEF U!Next

LEMMA AccountInductive == AccountBound => (U!Spec => []AccountInv)
<1> SUFFICES ASSUME AccountBound  PROVE  U!Spec => []AccountInv
  OBVIOUS
<1>1. U!Init => AccountInv
  BY InitAccount
<1>2. AccountInv /\ [U!Next]_(U!vars) => AccountInv'
  BY StepAccount
<1> QED  BY <1>1, <1>2, PTL DEF U!Spec

(* The row, its tokens and its requests have their types.                    *)
THEOREM AccountTypes == AccountBound => (U!Spec => []U!TypeOK)
<1> SUFFICES ASSUME AccountBound  PROVE  U!Spec => []U!TypeOK
  OBVIOUS
<1>1. AccountInv => U!TypeOK
  BY DEF AccountInv
<1>2. U!Spec => []AccountInv
  BY AccountInductive
<1> QED  BY <1>1, <1>2, PTL

LEMMA OneContinues == AccountInv => U!OneTokenPerSession
  BY DEF AccountInv, OneContinuation, UsableRefresh, U!OneTokenPerSession, U!Usable

(* A login is continued by one usable refresh token at a time, whatever      *)
(* requests rotate, revoke and issue tokens side by side, unless two of them *)
(* presented the same refresh token.                                         *)
THEOREM SessionsHaveOneToken == AccountBound => (U!Spec => []U!OneTokenPerSession)
<1> SUFFICES ASSUME AccountBound  PROVE  U!Spec => []U!OneTokenPerSession
  OBVIOUS
<1>1. U!Spec => []AccountInv
  BY AccountInductive
<1> QED  BY <1>1, OneContinues, PTL

LEMMA ProgressStep == AccountInv /\ [U!Next]_(U!vars) => [U!KeepsProgress]_(U!vars)
<1> SUFFICES ASSUME AccountInv, U!Next, user.exists, ~ overwrote'
             PROVE  (user.verified => user'.verified) /\ (user.completed => user'.completed)
  BY DEF U!KeepsProgress
<1>1. user \in U!User /\ op \in [Requests -> AccountOp]
  BY AccountTypesOf DEF AccountInv
<1>2. ASSUME NEW q \in Requests, U!SaveUser(q)
      PROVE  (user.verified => user'.verified) /\ (user.completed => user'.completed)
  <2>1. user' = U!Edited(op[q].kind, user, op[q].session)
    BY <1>2 DEF U!SaveUser
  <2> QED  BY <1>1, <2>1 DEF U!Edited, U!User
<1>3. ASSUME NEW q \in Requests, U!Sync(q) \/ U!DirectFields(q)
      PROVE  (user.verified => user'.verified) /\ (user.completed => user'.completed)
  BY <1>1, <1>3 DEF U!Sync, U!DirectFields, U!User
<1>4. CASE U!SoftDelete
  BY <1>1, <1>4 DEF U!SoftDelete, U!User
<1>5. ASSUME NEW q \in Requests,
             \/ U!Request(q) \/ U!Fails(q) \/ U!Insert(q) \/ U!SaveToken(q) \/ U!IssueTokens(q) \/ U!Spend(q)
             \/ U!SpendAll(q) \/ U!FindUser(q) \/ U!Load(q) \/ U!Unchanged(q) \/ U!RevokeAll(q)
      PROVE  user' = user
  BY <1>5 DEF U!Request, U!Fails, U!Insert, U!SaveToken, U!IssueTokens, U!Spend, U!SpendAll,
     U!FindUser, U!Load, U!Unchanged, U!RevokeAll
<1>6. CASE U!Expire
  BY <1>6 DEF U!Expire
<1> QED  BY <1>2, <1>3, <1>4, <1>5, <1>6 DEF U!Next

(* No request undoes a verification or a completed onboarding, except by a   *)
(* save that writes back what it loaded before another's write.              *)
THEOREM ProgressKept == AccountBound => (U!Spec => U!ProgressIsKept)
<1> SUFFICES ASSUME AccountBound  PROVE  U!Spec => U!ProgressIsKept
  OBVIOUS
<1>1. U!Spec => []AccountInv
  BY AccountInductive
<1> QED  BY <1>1, ProgressStep, PTL DEF U!Spec, U!ProgressIsKept

-----------------------------------------------------------------------------
(***************************************************************************)
(* Local days: component D.                                                *)
(***************************************************************************)

(* Offsets, in whole hours, that a zone changes by an hour at most. *)
DaysBound ==
  /\ Offsets \subseteq Int /\ Shifts \subseteq -1 .. 1 /\ Transitions \subseteq Int
  /\ LastDay \in Nat /\ MaxDays \in Nat

DaysInv ==
  /\ zone \in [offset : Offsets, shift : Shifts, at : Transitions]
  /\ now \in Int
  /\ query \in D!Query
  /\ answer.status = "ok" => answer = D!WindowOf

LEMMA TwoNumbers ==
  ASSUME NEW m \in Int, NEW n \in Int
  PROVE  /\ D!Max({m, n}) = IF m < n THEN n ELSE m
         /\ D!Min({m, n}) = IF m < n THEN m ELSE n
<1> DEFINE most == IF m < n THEN n ELSE m
           least == IF m < n THEN m ELSE n
<1>1. \A x \in {m, n} : (\A y \in {m, n} : x >= y) <=> x = most
  OBVIOUS
<1>2. \A x \in {m, n} : (\A y \in {m, n} : x <= y) <=> x = least
  OBVIOUS
<1>3. most \in {m, n} /\ least \in {m, n}
  OBVIOUS
<1> HIDE DEF most, least
<1>4. D!Max({m, n}) = most
  BY <1>1, <1>3 DEF D!Max
<1>5. D!Min({m, n}) = least
  BY <1>2, <1>3 DEF D!Min
<1> QED  BY <1>4, <1>5 DEF most, least

LEMMA DayFacts ==
  ASSUME DaysBound, DaysInv
  PROVE  /\ \A t \in Int : D!Offset(t) \in Int /\ D!LocalDay(t) \in Int
         /\ \A t \in Int, d \in Int : D!LocalDay(t) >= d <=> t + D!Offset(t) >= 24 * d
         /\ \A d \in Int : D!StartOfDay(d) \in Int
         /\ D!First \in Int /\ D!Last \in Int /\ D!Floor \in Int
<1>1. zone.offset \in Int /\ zone.shift \in -1 .. 1 /\ zone.at \in Int /\ now \in Int
  BY DEF DaysBound, DaysInv
<1>2. \A t \in Int : D!Offset(t) \in Int
  BY <1>1 DEF D!Offset
<1>3. \A x \in Int, d \in Int : x \div 24 \in Int /\ (x \div 24 >= d <=> x >= 24 * d)
  OBVIOUS
<1>4. \A t \in Int : D!LocalDay(t) \in Int
  BY <1>2, <1>3 DEF D!LocalDay
<1>5. \A t \in Int, d \in Int : D!LocalDay(t) >= d <=> t + D!Offset(t) >= 24 * d
  BY <1>2, <1>3 DEF D!LocalDay
<1>6. \A d \in Int : D!StartOfDay(d) \in Int
  BY <1>2 DEF D!StartOfDay
<1>7. /\ query.from \in Int \cup {None} /\ query.to \in Int \cup {None}
      /\ query.before \in Int \cup {None} /\ query.days \in Int
  BY DEF DaysInv, DaysBound, D!Query, D!Days
<1>8. D!Today \in Int /\ MaxDays \in Int
  BY <1>1, <1>4 DEF D!Today, DaysBound
<1>9. D!Last \in Int
  BY <1>7, <1>8 DEF D!Last, D!Or
<1>10. D!Asked \in Int
  BY <1>7, <1>8 DEF D!Asked, D!Least
<1>11. D!First \in Int
  BY <1>7, <1>9, <1>10 DEF D!First, D!Or
<1>12. D!Floor \in Int
  BY <1>8 DEF D!Floor
<1> QED  BY <1>2, <1>4, <1>5, <1>6, <1>9, <1>11, <1>12

(* Where the zone does not change its offset, the midnight that the code     *)
(* computes is the one at which the local day begins.                        *)
LEMMA MidnightIsRight ==
  ASSUME DaysBound, DaysInv, NEW d \in Int, ~ D!Shifted(d), NEW t \in Int
  PROVE  D!StartOfDay(d) <= t <=> D!LocalDay(t) >= d
<1> DEFINE o == zone.offset
           s == zone.shift
           a == zone.at
<1>1. o \in Int /\ s \in -1 .. 1 /\ a \in Int
  BY DEF DaysBound, DaysInv
<1>2. D!LocalDay(t) >= d <=> t + D!Offset(t) >= 24 * d
  BY DayFacts
<1>3. D!Offset(t) = IF t < a THEN o ELSE o + s
  BY DEF D!Offset
<1>4. D!StartOfDay(d) = 24 * d - (IF 24 * d < a THEN o ELSE o + s)
  BY DEF D!StartOfDay, D!Offset
<1>5. 24 * d - o \in Int /\ 24 * d \in Int
  BY <1>1
<1>6. s = 0 \/ (a < 24 * d - o /\ a < 24 * d) \/ (a > 24 * d - o /\ a > 24 * d)
  <2> DEFINE m == 24 * d - o
             n == 24 * d
  <2>1. s # 0 => ~ (a \in D!Min({m, n}) .. D!Max({m, n}))
    BY DEF D!Shifted
  <2>2. /\ D!Max({m, n}) = IF m < n THEN n ELSE m
        /\ D!Min({m, n}) = IF m < n THEN m ELSE n
    BY <1>5, TwoNumbers
  <2> HIDE DEF m, n
  <2>3. m \in Int /\ n \in Int
    BY <1>5 DEF m, n
  <2>4. s # 0 => (a < m /\ a < n) \/ (a > m /\ a > n)
    BY <1>1, <2>1, <2>2, <2>3
  <2> QED  BY <2>4 DEF m, n
<1> HIDE DEF o, s, a
<1> QED  BY <1>1, <1>2, <1>3, <1>4, <1>6

LEMMA WholeDays == DaysBound /\ DaysInv => D!DaysAreWhole
<1> SUFFICES ASSUME DaysBound, DaysInv, answer.status = "ok", \A d \in D!Bounds : ~ D!Shifted(d),
                    NEW t \in D!Instants
             PROVE  D!InWindow(t) <=> D!Belongs(t)
  BY DEF D!DaysAreWhole
<1>1. t \in Int
  BY DEF D!Instants, DaysBound
<1>2. D!LocalDay(t) \in Int /\ D!First \in Int /\ D!Last \in Int /\ D!Floor \in Int
  BY <1>1, DayFacts
<1>3. /\ D!StartOfDay(D!First) \in Int /\ D!StartOfDay(D!Floor) \in Int
      /\ D!StartOfDay(D!Last + 1) \in Int
  <2>1. \A d \in Int : D!StartOfDay(d) \in Int
    BY DayFacts
  <2>2. D!Last + 1 \in Int
    BY <1>2
  <2> QED  BY <1>2, <2>1, <2>2
<1>4. D!First \in D!Bounds /\ D!Last + 1 \in D!Bounds /\ (~ query.saved => D!Floor \in D!Bounds)
  BY DEF D!Bounds
<1>5. D!StartOfDay(D!First) <= t <=> D!LocalDay(t) >= D!First
  <2>1. ~ D!Shifted(D!First)
    BY <1>4
  <2> QED  BY <1>1, <1>2, <2>1, MidnightIsRight
<1>6. D!StartOfDay(D!Last + 1) <= t <=> D!LocalDay(t) >= D!Last + 1
  <2>1. ~ D!Shifted(D!Last + 1) /\ D!Last + 1 \in Int
    BY <1>2, <1>4
  <2> QED  BY <1>1, <2>1, MidnightIsRight
<1>7. ~ query.saved => (D!StartOfDay(D!Floor) <= t <=> D!LocalDay(t) >= D!Floor)
  <2> SUFFICES ASSUME ~ query.saved  PROVE D!StartOfDay(D!Floor) <= t <=> D!LocalDay(t) >= D!Floor
    OBVIOUS
  <2>1. ~ D!Shifted(D!Floor)
    BY <1>4
  <2> QED  BY <1>1, <1>2, <2>1, MidnightIsRight
<1>8. /\ answer.first = IF query.saved THEN D!StartOfDay(D!First)
                        ELSE D!Max({D!StartOfDay(D!First), D!StartOfDay(D!Floor)})
      /\ answer.end = D!StartOfDay(D!Last + 1)
      /\ answer.days = D!First .. D!Last
  BY DEF DaysInv, D!WindowOf, D!EndOfDay
<1>9. D!Max({D!StartOfDay(D!First), D!StartOfDay(D!Floor)}) =
        IF D!StartOfDay(D!First) < D!StartOfDay(D!Floor) THEN D!StartOfDay(D!Floor) ELSE D!StartOfDay(D!First)
  BY <1>3, TwoNumbers
<1>10. D!InWindow(t) <=> answer.first <= t /\ t < answer.end
  BY DEF D!InWindow
<1>11. answer.first <= t <=> D!LocalDay(t) >= D!First /\ (query.saved \/ D!LocalDay(t) >= D!Floor)
  BY <1>1, <1>2, <1>3, <1>5, <1>7, <1>8, <1>9
<1>12. t < answer.end <=> D!LocalDay(t) <= D!Last
  BY <1>1, <1>2, <1>3, <1>6, <1>8
<1> QED  BY <1>2, <1>8, <1>10, <1>11, <1>12 DEF D!Belongs

LEMMA InitDays == DaysBound /\ D!Init => DaysInv
  BY DEF DaysBound, D!Init, DaysInv, D!NoWindow

LEMMA StepDays == DaysInv /\ [D!Next]_(D!vars) => DaysInv'
<1> SUFFICES ASSUME DaysInv, [D!Next]_(D!vars)  PROVE DaysInv'
  OBVIOUS
<1>1. UNCHANGED <<zone, now, query>>
  BY DEF D!Next, D!GetFeed, D!vars
<1>2. D!WindowOf' = D!WindowOf
  BY <1>1 DEF D!WindowOf, D!StartOfDay, D!EndOfDay, D!Offset, D!First, D!Last, D!Floor, D!Asked,
     D!Today, D!LocalDay
<1>3. answer' = answer \/ answer'.status # "ok" \/ answer' = D!WindowOf
  BY DEF D!Next, D!GetFeed, D!vars, D!Refused, D!NoWindow
<1> QED  BY <1>1, <1>2, <1>3 DEF DaysInv

-----------------------------------------------------------------------------
(***************************************************************************)
(* Scores: component S.                                                    *)
(***************************************************************************)
ScoreBound == IsFiniteSet(Technologies) /\ IsFiniteSet(Interests)

Article ==
  [technologies : SUBSET Technologies, interests : SUBSET Interests, streams : SUBSET Topics,
   complexity : S!Complexity \cup {None}, quality : {None, 30}, age : {"fresh", "recent", "older"}]
Profile ==
  [technologies : SUBSET Technologies, interests : SUBSET Interests, streams : SUBSET Topics,
   level : S!Levels \cup {None}]

ScoreInv ==
  /\ article \in Article /\ profile \in Profile /\ counts \in [S!Kinds -> Nat]
  /\ result = S!ScoreOf(article, profile, counts)

LEMMA InitScores == S!Init => ScoreInv
  BY DEF S!Init, ScoreInv, Article, Profile

LEMMA StepScores == ScoreInv /\ [S!Next]_(S!vars) => ScoreInv'
<1> SUFFICES ASSUME ScoreInv, [S!Next]_(S!vars)  PROVE ScoreInv'
  OBVIOUS
<1>1. CASE S!Interact
  <2>1. counts' \in [S!Kinds -> Nat]
    BY <1>1 DEF S!Interact, ScoreInv
  <2> QED  BY <1>1, <2>1 DEF S!Interact, ScoreInv
<1>2. CASE S!Select
  <2>1. profile' \in Profile
    BY <1>2 DEF S!Select, ScoreInv, Profile
  <2> QED  BY <1>2, <2>1 DEF S!Select, ScoreInv
<1>3. CASE S!Age
  <2>1. article' \in Article
    BY <1>3 DEF S!Age, ScoreInv, Article
  <2> QED  BY <1>3, <2>1 DEF S!Age, ScoreInv
<1>4. CASE UNCHANGED S!vars
  BY <1>4 DEF S!vars, ScoreInv
<1> QED  BY <1>1, <1>2, <1>3, <1>4 DEF S!Next

(* Integer division keeps the order of fractions. *)
LEMMA Quotients ==
  ASSUME NEW a \in Int, NEW b \in Nat, b > 0, NEW c \in Int, NEW e \in Nat, e > 0, a * e <= c * b
  PROVE  a \div b <= c \div e
<1> DEFINE q == a \div b
           z == c \div e
<1>1. q \in Int /\ b * q <= a /\ z \in Int /\ c < e * z + e
  OBVIOUS
<1> HIDE DEF q, z
<1>2. (b * q) * e <= a * e
  BY <1>1
<1>3. b * (q * e) <= b * c
  <2>1. b * q * e = b * (q * e)
    BY <1>1
  <2> QED  BY <1>1, <1>2, <2>1
<1>4. q * e \in Int /\ q * e <= c
  BY <1>1, <1>3
<1>5. q < z + 1
  <2>1. q * e < (z + 1) * e
    BY <1>1, <1>4
  <2> QED  BY <1>1, <2>1
<1> QED  BY <1>1, <1>5 DEF q, z

(* The share of the weight that speaks for a source grows with what speaks   *)
(* for it and falls with what speaks against it.                             *)
LEMMA Shares ==
  ASSUME NEW p \in Nat, NEW q \in Nat, NEW m \in Nat, NEW n \in Nat, p <= q, n <= m
  PROVE  (p - m) * (q + n + 6) <= (q - n) * (p + m + 6)
<1>1. p * n <= q * n /\ q * n <= q * m
  OBVIOUS
<1>2. (p - m) * (q + n + 6) = p * q + p * n + 6 * p - m * q - m * n - 6 * m
  OBVIOUS
<1>3. (q - n) * (p + m + 6) = q * p + q * m + 6 * q - n * p - n * m - 6 * n
  OBVIOUS
<1> QED  BY <1>1, <1>2, <1>3

Better(c, d) ==
  /\ c["useful"] <= d["useful"] /\ c["saved"] <= d["saved"] /\ c["opened"] <= d["opened"]
  /\ d["notUseful"] <= c["notUseful"]

LEMMA AdjustmentTypes ==
  ASSUME NEW c \in [S!Kinds -> Nat]
  PROVE  /\ S!Weighted(c) \in Int /\ S!Magnitude(c) \in Nat /\ S!Magnitude(c) > 0
         /\ S!Rounded(1200 * S!Weighted(c), S!Magnitude(c)) \in Int /\ S!Adjustment(c) \in Int
<1>1. S!Weighted(c) \in Int /\ S!Magnitude(c) \in Nat /\ S!Magnitude(c) > 0
  BY DEF S!Weighted, S!Magnitude, S!Prior, S!Kinds
<1>2. \A x \in Int, y \in Nat : y > 0 => S!Rounded(1200 * x, y) \in Int
  BY DEF S!Rounded
<1>3. S!Rounded(1200 * S!Weighted(c), S!Magnitude(c)) \in Int
  BY <1>1, <1>2
<1>4. \A x \in Int : S!Between(-800, x, 800) \in Int
  BY DEF S!Between
<1>5. S!Adjustment(c) = S!Between(-800, S!Rounded(1200 * S!Weighted(c), S!Magnitude(c)), 800)
  BY DEF S!Adjustment, S!Clamp, S!Scale
<1> QED  BY <1>1, <1>3, <1>4, <1>5

LEMMA AdjustmentGrows ==
  ASSUME NEW c \in [S!Kinds -> Nat], NEW d \in [S!Kinds -> Nat], Better(c, d)
  PROVE  S!Adjustment(c) <= S!Adjustment(d)
<1> DEFINE v == S!Weighted(c)
           w == S!Weighted(d)
           x == S!Magnitude(c)
           y == S!Magnitude(d)
<1>1. v * y <= w * x
  <2> DEFINE p == 4 * c["useful"] + 2 * c["saved"] + c["opened"]
             q == 4 * d["useful"] + 2 * d["saved"] + d["opened"]
             m == 4 * c["notUseful"]
             n == 4 * d["notUseful"]
  <2>1. p \in Nat /\ q \in Nat /\ m \in Nat /\ n \in Nat /\ p <= q /\ n <= m
    BY DEF S!Kinds, Better
  <2>2. v = p - m /\ w = q - n /\ x = p + m + 6 /\ y = q + n + 6
    BY DEF S!Kinds, S!Weighted, S!Magnitude, S!Prior
  <2> HIDE DEF p, q, m, n, v, w, x, y
  <2>3. (p - m) * (q + n + 6) <= (q - n) * (p + m + 6)
    BY <2>1, Shares
  <2> QED  BY <2>2, <2>3
<1>2. /\ v \in Int /\ w \in Int /\ x \in Nat /\ x > 0 /\ y \in Nat /\ y > 0
      /\ S!Rounded(1200 * v, x) \in Int /\ S!Rounded(1200 * w, y) \in Int
  BY AdjustmentTypes
<1>3. /\ S!Adjustment(c) = S!Between(-800, S!Rounded(1200 * v, x), 800)
      /\ S!Adjustment(d) = S!Between(-800, S!Rounded(1200 * w, y), 800)
  BY DEF S!Adjustment, S!Clamp, S!Scale
<1> HIDE DEF v, w, x, y
<1>4. S!Rounded(1200 * v, x) <= S!Rounded(1200 * w, y)
  <2> DEFINE a == 2 * (1200 * v) + x
             b == 2 * x
             e == 2 * (1200 * w) + y
             h == 2 * y
  <2>1. a \in Int /\ e \in Int /\ b \in Nat /\ b > 0 /\ h \in Nat /\ h > 0
    BY <1>2
  <2>2. a * h <= e * b
    <3>1. a * h = 4800 * (v * y) + 2 * (x * y)
      BY <1>2
    <3>2. e * b = 4800 * (w * x) + 2 * (x * y)
      BY <1>2
    <3>3. v * y \in Int /\ w * x \in Int /\ x * y \in Int
      BY <1>2
    <3> HIDE DEF a, b, e, h
    <3> QED  BY <1>1, <3>1, <3>2, <3>3
  <2> HIDE DEF a, b, e, h
  <2>3. a \div b <= e \div h
    BY <2>1, <2>2, Quotients
  <2> QED  BY <2>3 DEF S!Rounded, a, b, e, h
<1>5. \A r, s \in Int : r <= s => S!Between(-800, r, 800) <= S!Between(-800, s, 800)
  BY DEF S!Between
<1> QED  BY <1>2, <1>3, <1>4, <1>5

LEMMA MoreOverlap ==
  ASSUME NEW tags, NEW wanted, NEW more, wanted \subseteq more, IsFiniteSet(tags)
  PROVE  /\ S!Overlap(tags, wanted) \in Int /\ S!Overlap(tags, more) \in Int
         /\ S!Overlap(tags, wanted) <= S!Overlap(tags, more)
<1>1. \A X : S!Cardinality(X) = Cardinality(X)
  BY DEF S!Cardinality, Cardinality
<1> DEFINE m == Cardinality(tags \cap wanted)
           n == Cardinality(tags \cap more)
<1>2. m \in Nat /\ n \in Nat /\ m <= n
  <2>1. IsFiniteSet(tags \cap wanted) /\ IsFiniteSet(tags \cap more)
    BY FS_Subset
  <2>2. tags \cap wanted \subseteq tags \cap more
    OBVIOUS
  <2> QED  BY <2>1, <2>2, FS_Subset, FS_CardinalityType
<1>3. /\ S!Overlap(tags, wanted) =
           IF tags = {} THEN 50 ELSE IF m = 0 THEN 0 ELSE IF m = 1 THEN 60 ELSE IF m = 2 THEN 80 ELSE 100
      /\ S!Overlap(tags, more) =
           IF tags = {} THEN 50 ELSE IF n = 0 THEN 0 ELSE IF n = 1 THEN 60 ELSE IF n = 2 THEN 80 ELSE 100
  <2> HIDE DEF m, n
  <2>1. S!Cardinality(tags \cap wanted) = m /\ S!Cardinality(tags \cap more) = n
    BY <1>1 DEF m, n
  <2> QED  BY <1>2, <2>1 DEF S!Overlap
<1> HIDE DEF m, n
<1> QED  BY <1>2, <1>3

(* What the points of an article are made of. *)
LEMMA PointTypes ==
  ASSUME ScoreBound, NEW a \in Article, NEW p \in Profile, NEW c \in [S!Kinds -> Nat]
  PROVE  /\ S!Overlap(a.technologies, p.technologies) \in Int
         /\ S!Overlap(a.interests, p.interests) \in Int
         /\ S!ComplexityMatch(p.level, a.complexity) \in Int
         /\ S!Quality(a) \in Int /\ S!Recency(a.age) \in Int /\ S!Adjustment(c) \in Int
<1>1. IsFiniteSet(a.technologies) /\ IsFiniteSet(a.interests)
  BY FS_Subset DEF ScoreBound, Article
<1>2. /\ S!Overlap(a.technologies, p.technologies) \in Int
      /\ S!Overlap(a.interests, p.interests) \in Int
  BY <1>1, MoreOverlap
<1>3. S!ComplexityMatch(p.level, a.complexity) \in Int
  <2>1. p.level \in S!Levels \cup {None} /\ a.complexity \in S!Complexity \cup {None}
    BY DEF Profile, Article
  <2>2. \A x \in S!Levels \cup {None}, y \in S!Complexity \cup {None} : S!ComplexityMatch(x, y) \in Int
    BY DEF S!ComplexityMatch, S!Levels, S!Complexity
  <2> QED  BY <2>1, <2>2
<1>4. S!Quality(a) \in Int
  BY DEF S!Quality, Article
<1>5. S!Recency(a.age) \in Int
  BY DEF S!Recency, Article
<1> QED  BY <1>2, <1>3, <1>4, <1>5, AdjustmentTypes

Points(a, p, c) ==
  25 * S!Overlap(a.technologies, p.technologies) + 20 * S!Overlap(a.interests, p.interests)
  + 20 * S!ComplexityMatch(p.level, a.complexity) + 25 * S!Quality(a) + 10 * S!Recency(a.age)
  + S!Adjustment(c)

LEMMA ScoreIsPoints ==
  ASSUME NEW a, NEW p, NEW c
  PROVE  /\ S!ScoreOf(a, p, c).eligible <=> S!Eligible(a, p)
         /\ S!ScoreOf(a, p, c).score = IF S!Eligible(a, p) THEN Points(a, p, c) ELSE 0
  BY DEF S!ScoreOf, Points, S!Eligible

LEMMA InteractionsPoint ==
  ASSUME ScoreBound, ScoreInv, S!Interact
  PROVE  S!PointsItsWay /\ S!OnlyAdds
<1>1. /\ article' = article /\ profile' = profile
      /\ result = S!ScoreOf(article, profile, counts) /\ result' = S!ScoreOf(article, profile, counts')
      /\ counts \in [S!Kinds -> Nat] /\ counts' \in [S!Kinds -> Nat]
      /\ article \in Article /\ profile \in Profile
  BY DEF S!Interact, ScoreInv
<1>2. ASSUME NEW c \in [S!Kinds -> Nat], NEW d \in [S!Kinds -> Nat], Better(c, d)
      PROVE  S!ScoreOf(article, profile, c).score <= S!ScoreOf(article, profile, d).score
  <2>1. S!Adjustment(c) <= S!Adjustment(d)
    BY <1>2, AdjustmentGrows
  <2>2. Points(article, profile, c) \in Int /\ Points(article, profile, c) <= Points(article, profile, d)
    BY <1>1, <2>1, PointTypes DEF Points
  <2> QED  BY <2>2, ScoreIsPoints
<1>3. \/ /\ Better(counts, counts')
         /\ \A k \in {"useful", "saved", "opened"} : counts'[k] >= counts[k]
         /\ counts'["notUseful"] <= counts["notUseful"]
      \/ /\ Better(counts', counts)
         /\ \A k \in {"useful", "saved", "opened"} : counts'[k] <= counts[k]
         /\ counts'["notUseful"] >= counts["notUseful"]
  <2>1. PICK k \in S!Kinds : counts' = [counts EXCEPT ![k] = @ + 1] \/ counts' = [counts EXCEPT ![k] = @ - 1]
    BY DEF S!Interact
  <2>2. \A j \in S!Kinds : counts[j] \in Nat /\ (j # k => counts'[j] = counts[j])
    BY <1>1, <2>1
  <2>3. counts'[k] = counts[k] + 1 \/ counts'[k] = counts[k] - 1
    BY <1>1, <2>1
  <2> QED  BY <2>2, <2>3 DEF S!Kinds, Better
<1>4. ASSUME Better(counts, counts'), \A k \in {"useful", "saved", "opened"} : counts'[k] >= counts[k],
             counts'["notUseful"] <= counts["notUseful"]
      PROVE  S!PointsItsWay
  <2>1. result.score <= result'.score
    BY <1>1, <1>2, <1>4
  <2>2. \A k \in S!Kinds : counts[k] \in Nat /\ counts'[k] \in Nat
    BY <1>1
  <2>3. ~ \E k \in {"useful", "saved", "opened"} : counts'[k] < counts[k]
    BY <1>4, <2>2 DEF S!Kinds
  <2>4. ~ counts'["notUseful"] > counts["notUseful"]
    BY <1>4, <2>2 DEF S!Kinds
  <2>5. result'.score >= result.score
    BY <2>1
  <2> QED  BY <2>3, <2>4, <2>5 DEF S!PointsItsWay
<1>5. ASSUME Better(counts', counts), \A k \in {"useful", "saved", "opened"} : counts'[k] <= counts[k],
             counts'["notUseful"] >= counts["notUseful"]
      PROVE  S!PointsItsWay
  <2>1. result'.score <= result.score
    BY <1>1, <1>2, <1>5
  <2>2. \A k \in S!Kinds : counts[k] \in Nat /\ counts'[k] \in Nat
    BY <1>1
  <2>3. ~ \E k \in {"useful", "saved", "opened"} : counts'[k] > counts[k]
    BY <1>5, <2>2 DEF S!Kinds
  <2>4. ~ counts'["notUseful"] < counts["notUseful"]
    BY <1>5, <2>2 DEF S!Kinds
  <2> QED  BY <2>1, <2>3, <2>4 DEF S!PointsItsWay
<1>6. S!OnlyAdds
  BY <1>1 DEF S!OnlyAdds
<1> QED  BY <1>3, <1>4, <1>5, <1>6

LEMMA SelectionsPoint ==
  ASSUME ScoreBound, ScoreInv, S!Select
  PROVE  S!PointsItsWay /\ S!OnlyAdds
<1>1. /\ article' = article /\ counts' = counts
      /\ result = S!ScoreOf(article, profile, counts) /\ result' = S!ScoreOf(article, profile', counts)
      /\ counts \in [S!Kinds -> Nat] /\ article \in Article /\ profile \in Profile
  BY DEF S!Select, ScoreInv
<1>2. /\ profile' \in Profile /\ profile'.level = profile.level
      /\ profile.technologies \subseteq profile'.technologies
      /\ profile.interests \subseteq profile'.interests /\ profile.streams \subseteq profile'.streams
  BY <1>1 DEF S!Select, Profile
<1>3. S!Eligible(article, profile) => S!Eligible(article, profile')
  BY <1>2 DEF S!Eligible
<1>4. IsFiniteSet(article.technologies) /\ IsFiniteSet(article.interests)
  BY <1>1, FS_Subset DEF ScoreBound, Article
<1>5. /\ S!Overlap(article.technologies, profile.technologies) <= S!Overlap(article.technologies, profile'.technologies)
      /\ S!Overlap(article.interests, profile.interests) <= S!Overlap(article.interests, profile'.interests)
  BY <1>2, <1>4, MoreOverlap
<1> DEFINE after == profile'
<1>6. Points(article, profile, counts) <= Points(article, after, counts)
  <2>1. after \in Profile /\ after.level = profile.level
    BY <1>2
  <2>2. /\ S!Overlap(article.technologies, profile.technologies) <= S!Overlap(article.technologies, after.technologies)
        /\ S!Overlap(article.interests, profile.interests) <= S!Overlap(article.interests, after.interests)
    BY <1>5
  <2> HIDE DEF after
  <2> QED  BY <1>1, <2>1, <2>2, PointTypes DEF Points
<1>7. /\ Points(article, profile, counts) \in Int
      /\ Points(article, after, counts) \in Int
  <2>1. after \in Profile
    BY <1>2
  <2> HIDE DEF after
  <2> QED  BY <1>1, <2>1, PointTypes DEF Points
<1>8. /\ result.eligible => S!Eligible(article, profile) /\ result.score = Points(article, profile, counts)
      /\ S!Eligible(article, after) => result'.eligible /\ result'.score = Points(article, after, counts)
  <2>1. result' = S!ScoreOf(article, after, counts)
    BY <1>1
  <2> HIDE DEF after
  <2> QED  BY <1>1, <2>1, ScoreIsPoints
<1>9. result.eligible => result'.eligible /\ result'.score >= result.score
  BY <1>3, <1>6, <1>7, <1>8
<1>10. S!PointsItsWay
  <2>1. \A k \in S!Kinds : counts[k] \in Nat /\ counts'[k] = counts[k]
    BY <1>1
  <2> QED  BY <2>1 DEF S!PointsItsWay, S!Kinds
<1> QED  BY <1>1, <1>9, <1>10 DEF S!OnlyAdds

LEMMA AgePoints ==
  ASSUME ScoreBound, ScoreInv, S!Age
  PROVE  S!PointsItsWay /\ S!OnlyAdds
<1>1. /\ profile' = profile /\ counts' = counts
      /\ result = S!ScoreOf(article, profile, counts) /\ result' = S!ScoreOf(article', profile, counts)
      /\ counts \in [S!Kinds -> Nat] /\ article \in Article /\ profile \in Profile
  BY DEF S!Age, ScoreInv
<1> DEFINE after == article'
<1>2. /\ after \in Article /\ after.technologies = article.technologies /\ after.interests = article.interests
      /\ after.streams = article.streams /\ after.complexity = article.complexity
      /\ after.quality = article.quality
      /\ \/ article.age = "fresh" /\ after.age = "recent"
         \/ article.age = "recent" /\ after.age = "older"
  BY <1>1 DEF S!Age, Article
<1>3. result' = S!ScoreOf(after, profile, counts)
  BY <1>1
<1>4. result'.score <= result.score
  <2> HIDE DEF after
  <2>1. S!Eligible(after, profile) <=> S!Eligible(article, profile)
    BY <1>2 DEF S!Eligible
  <2>2. S!Recency(after.age) <= S!Recency(article.age) /\ S!Quality(after) = S!Quality(article)
    BY <1>2 DEF S!Recency, S!Quality
  <2>3. /\ Points(article, profile, counts) \in Int /\ Points(after, profile, counts) \in Int
        /\ Points(after, profile, counts) <= Points(article, profile, counts)
    BY <1>1, <1>2, <2>2, PointTypes DEF Points
  <2> QED  BY <1>1, <1>3, <2>1, <2>3, ScoreIsPoints
<1>5. S!PointsItsWay
  <2>1. \A k \in S!Kinds : counts[k] \in Nat /\ counts'[k] = counts[k]
    BY <1>1
  <2> QED  BY <2>1 DEF S!PointsItsWay, S!Kinds
<1> QED  BY <1>1, <1>4, <1>5 DEF S!OnlyAdds

LEMMA ScoresPoint ==
  ScoreBound /\ ScoreInv /\ [S!Next]_(S!vars) => S!PointsItsWay /\ S!OnlyAdds
<1> SUFFICES ASSUME ScoreBound, ScoreInv, [S!Next]_(S!vars)  PROVE S!PointsItsWay /\ S!OnlyAdds
  OBVIOUS
<1>1. CASE UNCHANGED S!vars
  <2>1. \A k \in S!Kinds : counts[k] \in Nat /\ counts'[k] = counts[k]
    BY <1>1 DEF S!vars, ScoreInv
  <2>2. article' = article /\ profile' = profile
    BY <1>1 DEF S!vars
  <2> QED  BY <2>1, <2>2 DEF S!PointsItsWay, S!OnlyAdds, S!Kinds
<1> QED  BY <1>1, InteractionsPoint, SelectionsPoint, AgePoints DEF S!Next

-----------------------------------------------------------------------------
(***************************************************************************)
(* MCReader's composition: what the reader_components run checks.          *)
(***************************************************************************)
AccountsInv  == Runs("accounts") => AccountInv
ZonesInv     == Runs("days") => DaysInv
ScoringInv   == Runs("scoring") => ScoreInv

LEMMA AccountsStep == AccountBound /\ AccountsInv /\ [SumNext]_SumVars => AccountsInv'
<1> SUFFICES ASSUME AccountBound, AccountsInv, [SumNext]_SumVars, Runs("accounts")'  PROVE AccountInv'
  BY DEF AccountsInv
<1>1. Runs("accounts")
  BY DEF SumNext, SumVars, Runs
<1>2. [U!Next]_(U!vars)
  BY <1>1 DEF SumNext, SumVars, accountsVars, U!vars, Runs
<1> QED  BY <1>1, <1>2, StepAccount DEF AccountsInv

LEMMA ZonesStep == ZonesInv /\ [SumNext]_SumVars => ZonesInv'
<1> SUFFICES ASSUME ZonesInv, [SumNext]_SumVars, Runs("days")'  PROVE DaysInv'
  BY DEF ZonesInv
<1>1. Runs("days")
  BY DEF SumNext, SumVars, Runs
<1>2. [D!Next]_(D!vars)
  BY <1>1 DEF SumNext, SumVars, daysVars, D!vars, Runs
<1> QED  BY <1>1, <1>2, StepDays DEF ZonesInv

LEMMA ScoringStep ==
  ASSUME ScoringInv, [SumNext]_SumVars
  PROVE  ScoringInv' /\ (Runs("scoring") => [S!Next]_(S!vars))
<1>1. Runs("scoring")' => Runs("scoring")
  BY DEF SumNext, SumVars, Runs
<1>2. Runs("scoring") => [S!Next]_(S!vars)
  BY DEF SumNext, SumVars, scoringVars, S!vars, Runs
<1> QED  BY <1>1, <1>2, StepScores DEF ScoringInv

(* A session has at most one usable refresh token, unless a race doubled it, *)
(* for any requests, tokens and limit of calls.                              *)
THEOREM OneTokenAlways == AccountBound => (SumSpec => []OneTokenPerSession)
<1> SUFFICES ASSUME AccountBound  PROVE SumSpec => []OneTokenPerSession
  OBVIOUS
<1>1. SumInit => AccountsInv
  BY InitAccount DEF SumInit, AccountsInv, Runs
<1>2. AccountsInv /\ [SumNext]_SumVars => AccountsInv'
  BY AccountsStep
<1>3. AccountsInv => OneTokenPerSession
  BY OneContinues DEF AccountsInv, OneTokenPerSession
<1> QED  BY <1>1, <1>2, <1>3, PTL DEF SumSpec

(* A page reads the articles of its local days and no others, in any zone of *)
(* whole hours, where no transition falls beside one of its ends.            *)
THEOREM DaysAlwaysWhole == DaysBound => (SumSpec => []DaysAreWhole)
<1> SUFFICES ASSUME DaysBound  PROVE SumSpec => []DaysAreWhole
  OBVIOUS
<1>1. SumInit => ZonesInv
  BY InitDays DEF SumInit, ZonesInv, Runs
<1>2. ZonesInv => DaysAreWhole
  BY WholeDays DEF ZonesInv, DaysAreWhole
<1> QED  BY <1>1, <1>2, ZonesStep, PTL DEF SumSpec

(* An interaction moves a score the way it points, a selection never lowers  *)
(* one, age never raises one, for any number of interactions; and no request *)
(* undoes progress but by a save of what it loaded before another's write.   *)
THEOREM NothingEverGoesBackwards == AccountBound /\ ScoreBound => (SumSpec => NothingGoesBackwards)
<1> SUFFICES ASSUME AccountBound, ScoreBound  PROVE SumSpec => NothingGoesBackwards
  OBVIOUS
<1>1. SumInit => AccountsInv /\ ScoringInv
  BY InitAccount, InitScores DEF SumInit, AccountsInv, ScoringInv, Runs
<1>2. AccountsInv /\ [SumNext]_SumVars => AccountsInv'
  BY AccountsStep
<1>3. ScoringInv /\ [SumNext]_SumVars => ScoringInv'
  BY ScoringStep
<1> DEFINE Forwards == /\ Runs("scoring") => S!PointsItsWay /\ S!OnlyAdds
                       /\ Runs("accounts") => U!KeepsProgress
<1>4. AccountsInv /\ ScoringInv /\ [SumNext]_SumVars => [Forwards]_SumVars
  <2> SUFFICES ASSUME AccountsInv, ScoringInv, [SumNext]_SumVars  PROVE Forwards
    OBVIOUS
  <2>1. Runs("scoring") => S!PointsItsWay /\ S!OnlyAdds
    BY ScoringStep, ScoresPoint DEF ScoringInv
  <2>2. Runs("accounts") => U!KeepsProgress
    <3> SUFFICES ASSUME Runs("accounts")  PROVE U!KeepsProgress
      OBVIOUS
    <3>1. [U!Next]_(U!vars) /\ AccountInv
      BY DEF SumNext, SumVars, accountsVars, U!vars, Runs, AccountsInv
    <3>2. CASE UNCHANGED U!vars
      BY <3>2 DEF U!vars, U!KeepsProgress
    <3> QED  BY <3>1, <3>2, ProgressStep
  <2> QED  BY <2>1, <2>2
<1> QED  BY <1>1, <1>2, <1>3, <1>4, PTL DEF SumSpec, NothingGoesBackwards
=============================================================================
