------------------------------ MODULE MCReader ------------------------------
(***************************************************************************)
(* What a user does and is shown: seven components that meet in the        *)
(* database only.  Each behaviour runs one of them, the variables of the   *)
(* others are None.                                                        *)
(***************************************************************************)
EXTENDS Integers, Sequences, TLC

CONSTANTS None,
  Users, Stories, Contexts, Operators, \* of the actions
  Linked, ActionTypes, Generators, \* of the links
  Offsets, Shifts, Transitions, LastDay, MaxDays, \* of the days
  Technologies, Interests, Topics, MaxInteractions, \* of the scores
  Tokens,                    \* of the account
  Newcomers, RowKinds, Names, Similar, Rows, Streams, MaxSelected, Limit, Catalogs, \* of the catalog
  Requests, MaxActions, MaxCalls, MaxCommands \* concurrent requests and, of each kind, all

CONSTANTS s1, s2, n1, n2, n3, r1, r2, r3, technology

VARIABLES
  component, \* the one that runs
  feedback, saved, opening, link, tracked, preference, source, removed, save, uncounted,
  request, asked,
  row, call,
  candidate, selected, filter, mode, shown,
  zone, now, query, answer,
  article, profile, counts, result,
  user, token, op, started, overwrote, doubled,
  rows, links, streams, completed, quota, jobs, command, begun, stale, disturbed

actionsVars ==
  <<feedback, saved, opening, link, tracked, preference, source, removed, save, uncounted,
    request, asked>>
linksVars == <<row, call>>
selectionVars == <<candidate, selected, filter, mode, shown>>
daysVars == <<zone, now, query, answer>>
scoringVars == <<article, profile, counts, result>>
accountsVars == <<user, token, op, started, overwrote, doubled>>
catalogVars ==
  <<rows, links, streams, completed, quota, jobs, command, begun, stale, disturbed>>

A == INSTANCE UserActions WITH Articles <- Stories, MaxRequests <- MaxActions

P == INSTANCE PersonalLinks WITH Articles <- Linked, Types <- ActionTypes

F == INSTANCE FeedSelection WITH
       Streams <- {s1, s2}, Count <- 4, Scores <- {1, 2}, PerStreamCap <- 3, DayCap <- 3,
       DigestLimit <- 1, PreviewLimit <- 2

(* Zones west and east of Greenwich that change by an hour, back or forth,   *)
(* or not at all, at any hour of a day and its nights.                       *)
Zones  == {-5, 1, 10}
Hours  == {-1, 0, 1}
Nights == 34 .. 58

D == INSTANCE LocalDays

S == INSTANCE Scoring WITH Streams <- Topics

U == INSTANCE Accounts WITH MaxRequests <- MaxCalls

(* One row exists already, or all three do. *)
OneRow     == {r1 :> <<technology, n3>>}
OneOrThree == OneRow \cup {r1 :> <<technology, n3>> @@ r2 :> <<technology, n1>>
                            @@ r3 :> <<technology, n2>>}

T == INSTANCE TaxonomyCatalog WITH
       Users <- Newcomers, Kinds <- RowKinds, MaxRequests <- MaxCommands, op <- command,
       started <- begun

actionsOff ==
  /\ feedback = None /\ saved = None /\ opening = None /\ link = None /\ tracked = None
  /\ preference = None /\ source = None /\ removed = None /\ save = None
  /\ uncounted = None /\ request = None /\ asked = None
linksOff ==
  row = None /\ call = None
selectionOff ==
  /\ candidate = None /\ selected = None /\ filter = None
  /\ mode = None /\ shown = None
daysOff ==
  zone = None /\ now = None /\ query = None /\ answer = None
scoringOff ==
  article = None /\ profile = None /\ counts = None /\ result = None
accountsOff ==
  /\ user = None /\ token = None /\ op = None /\ started = None
  /\ overwrote = None /\ doubled = None
catalogOff ==
  /\ rows = None /\ links = None /\ streams = None /\ completed = None /\ quota = None
  /\ jobs = None /\ command = None /\ begun = None /\ stale = None /\ disturbed = None

SumInit ==
  \/ component = "actions" /\ A!Init
     /\ linksOff /\ selectionOff /\ daysOff /\ scoringOff /\ accountsOff /\ catalogOff
  \/ component = "links" /\ P!Init
     /\ actionsOff /\ selectionOff /\ daysOff /\ scoringOff /\ accountsOff /\ catalogOff
  \/ component = "selection" /\ F!Init
     /\ actionsOff /\ linksOff /\ daysOff /\ scoringOff /\ accountsOff /\ catalogOff
  \/ component = "days" /\ D!Init
     /\ actionsOff /\ linksOff /\ selectionOff /\ scoringOff /\ accountsOff /\ catalogOff
  \/ component = "scoring" /\ S!Init
     /\ actionsOff /\ linksOff /\ selectionOff /\ daysOff /\ accountsOff /\ catalogOff
  \/ component = "accounts" /\ U!Init
     /\ actionsOff /\ linksOff /\ selectionOff /\ daysOff /\ scoringOff /\ catalogOff
  \/ component = "catalog" /\ T!Init
     /\ actionsOff /\ linksOff /\ selectionOff /\ daysOff /\ scoringOff /\ accountsOff

SumNext ==
  \/ component = "actions" /\ A!Next
     /\ UNCHANGED <<component, linksVars, selectionVars, daysVars, scoringVars, accountsVars,
                    catalogVars>>
  \/ component = "links" /\ P!Next
     /\ UNCHANGED <<component, actionsVars, selectionVars, daysVars, scoringVars, accountsVars,
                    catalogVars>>
  \/ component = "selection" /\ F!Next
     /\ UNCHANGED <<component, actionsVars, linksVars, daysVars, scoringVars, accountsVars,
                    catalogVars>>
  \/ component = "days" /\ D!Next
     /\ UNCHANGED <<component, actionsVars, linksVars, selectionVars, scoringVars,
                    accountsVars, catalogVars>>
  \/ component = "scoring" /\ S!Next
     /\ UNCHANGED <<component, actionsVars, linksVars, selectionVars, daysVars, accountsVars,
                    catalogVars>>
  \/ component = "accounts" /\ U!Next
     /\ UNCHANGED <<component, actionsVars, linksVars, selectionVars, daysVars, scoringVars,
                    catalogVars>>
  \/ component = "catalog" /\ T!Next
     /\ UNCHANGED <<component, actionsVars, linksVars, selectionVars, daysVars, scoringVars,
                    accountsVars>>

SumVars ==
  <<component, actionsVars, linksVars, selectionVars, daysVars, scoringVars, accountsVars,
    catalogVars>>
SumSpec == SumInit /\ [][SumNext]_SumVars

(* Concurrent requests are interchangeable. *)
Symmetry == Permutations(Requests)

Runs(c) == component = c

(* Each state has the types of the component that runs. *)
TypesOK ==
  /\ Runs("actions") => A!TypeOK
  /\ Runs("links") => P!TypeOK
  /\ Runs("selection") => F!TypeOK
  /\ Runs("days") => D!TypeOK
  /\ Runs("scoring") => S!TypeOK
  /\ Runs("accounts") => U!TypeOK
  /\ Runs("catalog") => T!TypeOK

(* What users did to articles adds up: the preference of a user counts the   *)
(* rows of the user, the source sums its readers, opens are tracked with     *)
(* their interaction; and the links they opened are there, complete, with    *)
(* the exceptions that a race or a fault explains.                           *)
ActionsAddUp ==
  /\ Runs("actions") => A!PreferenceCountsRows /\ A!SourceSumsReaders /\ A!OpensAreTracked
  /\ Runs("links") => P!LinksAreComplete /\ P!ThrownOnlyOnFault /\ P!ActionsLackedAfterRace

(* Only the first actions of two users on one source wait for each other.    *)
OnlyFirstActionsDeadlock == Runs("actions") => A!OnlyFirstActionsDeadlock

(* A page of a day is full, shows every stream it can and leaves out nothing *)
(* better than what it shows; a digest holds the best of what it may hold.   *)
SelectionShowsTheBest ==
  Runs("selection") => /\ F!DayIsFull /\ F!EveryStreamShows
                       /\ F!NothingBetterLeftOut /\ F!DigestHoldsBest

(* A page of a local day spans that day, across changes of its offset.       *)
DaysAreWhole == Runs("days") => D!DaysAreWhole

(* A catalog under concurrent creations, merges and updates keeps to the     *)
(* quota, resolves the names it knew and, alone, does what it was asked.     *)
CatalogHolds ==
  Runs("catalog") => /\ T!QuotaIsKept /\ T!CreationsArePaid
                     /\ T!NamesKeepResolving /\ T!SoloOnboardingIsExact

(* A session has at most one usable refresh token, unless a race doubled it. *)
OneTokenPerSession == Runs("accounts") => U!OneTokenPerSession

(* What a user likes never lowers a score, what a user dislikes or the age   *)
(* of an article never raises one, a user who selects more loses nothing; and *)
(* no request undoes a verified email or a completed onboarding, unless its   *)
(* save writes back what it loaded before another's write.                   *)
NothingGoesBackwards ==
  [][/\ Runs("scoring") => S!PointsItsWay /\ S!OnlyAdds
     /\ Runs("accounts") => U!KeepsProgress]_SumVars

(* What comments and READMEs say and the components do not do: an article     *)
(* counts a reader's openings once, a race lost leaves a complete set of      *)
(* actions, only midnight transitions misjudge a day, a verified email stays  *)
(* verified, the quota counts each creation of the last 24 hours, each new    *)
(* catalog row has a discovery job, a user selects no more than the limit,    *)
(* and links lead to live rows.                                               *)
OpensCountReaders              == Runs("actions") => A!OpensCountReaders
ActionsAreComplete             == Runs("links") => P!ActionsAreComplete
OnlyMidnightTransitionsMisjudged == Runs("days") => D!OnlyMidnightTransitionsMisjudged
VerifiedStays                  ==
  [][Runs("accounts") => (user.exists /\ user.verified => user'.verified)]_accountsVars
CreationsAreCounted            == Runs("catalog") => T!CreationsAreCounted
NewRowsAreDiscovered           == Runs("catalog") => T!NewRowsAreDiscovered
SelectionsAreLimited           == Runs("catalog") => T!SelectionsAreLimited
LinksAreLive                   == Runs("catalog") => T!LinksAreLive
=============================================================================
