----------------------------- MODULE LocalDays -----------------------------
(***************************************************************************)
(* The window of publication times behind a personal feed: which instants  *)
(* FeedQueryService reads for the local days of a request, and under which *)
(* day it puts an article.  Time is in hours since a UTC midnight, a day   *)
(* its number; a time zone has one offset until its transition and another *)
(* from then on.                                                           *)
(***************************************************************************)
EXTENDS Integers, FiniteSets, FiniteSetsExt

CONSTANTS
  Offsets, \* hours that a zone adds to UTC before its transition
  Shifts,  \* what the transition adds to the offset
  Transitions, \* when it may happen
  LastDay, \* days considered (bound)
  MaxDays, \* FEED_MAX_DAYS
  None

VARIABLES
  zone,   \* the user's time zone
  now,    \* when the request is served
  query,  \* the request
  answer  \* the window and the days shown, or an error

vars == <<zone, now, query, answer>>

Days     == 1 .. LastDay
Instants == 0 .. 24 * (LastDay + 1)

Query ==
  {q \in [from : Days \cup {None}, to : Days \cup {None}, before : Days \cup {None},
          days : 1 .. MaxDays + 1, saved : BOOLEAN] : None \in {q.to, q.before}}

NoWindow == [status |-> "none", first |-> 0, end |-> 0, days |-> {}]

TypeOK ==
  /\ answer.status \in {"none", "ok", "empty range", "too long"}
  /\ answer.first \in Int /\ answer.end \in Int /\ answer.days \subseteq Int

Init ==
  /\ zone \in [offset : Offsets, shift : Shifts, at : Transitions]
  /\ now = 24 * LastDay
  /\ query \in Query
  /\ answer = NoWindow

-----------------------------------------------------------------------------
(* timezone.util.ts: getLocalDateString, getTimeZoneOffsetMinutes. *)

Offset(t)   == IF t < zone.at THEN zone.offset ELSE zone.offset + zone.shift
LocalDay(t) == (t + Offset(t)) \div 24

(* Mutant: the midnight of UTC is taken for the local one. *)
StartOfDayUTC(d) == 24 * d

(* zonedStartOfDayUTC looks the offset up at the midnight of UTC. *)
StartOfDay(d) == 24 * d - Offset(24 * d)

(* zonedEndOfDayExclusiveUTC *)
EndOfDay(d) == StartOfDay(d + 1)

-----------------------------------------------------------------------------
(* FeedQueryService.getFeed *)

Or(value, default) == IF value = None THEN default ELSE value
Least(m, n)        == IF m < n THEN m ELSE n

Today   == LocalDay(now)
Last    == Or(query.to, Or(query.before, Today))
Asked   == Least(query.days, MaxDays)
First   == Or(query.from, Last - (Asked - 1))
Count   == Last - First + 1
Floor   == Today - (MaxDays - 1)

(* Mutant: the day of dateTo is left out. *)
WindowBeforeLast ==
  [status |-> "ok",
   first |-> IF query.saved THEN StartOfDay(First) ELSE Max({StartOfDay(First), StartOfDay(Floor)}),
   end |-> StartOfDay(Last),
   days |-> First .. Last]

(* Nothing but saved articles is older than the floor. *)
WindowOf ==
  [status |-> "ok",
   first |-> IF query.saved THEN StartOfDay(First) ELSE Max({StartOfDay(First), StartOfDay(Floor)}),
   end |-> EndOfDay(Last),
   days |-> First .. Last]

Refused(status) == [NoWindow EXCEPT !.status = status]

GetFeed ==
  /\ answer = NoWindow
  /\ answer' = CASE Count < 1 -> Refused("empty range")
                 [] Count > MaxDays -> Refused("too long")
                 [] OTHER -> WindowOf
  /\ UNCHANGED <<zone, now, query>>

Next == GetFeed

Spec == Init /\ [][Next]_vars

-----------------------------------------------------------------------------
(***************************************************************************)
(* Properties.                                                             *)
(***************************************************************************)

InWindow(t) == answer.first <= t /\ t < answer.end

(* The articles of the days that the request asks for, none older than the   *)
(* floor unless they are saved ones.                                         *)
Belongs(t) == LocalDay(t) \in answer.days /\ (query.saved \/ LocalDay(t) >= Floor)

(* The zone changes its offset between the local midnight and the midnight   *)
(* of UTC with which day d begins.                                           *)
Shifted(d) ==
  /\ zone.shift # 0
  /\ zone.at \in Min({24 * d - zone.offset, 24 * d}) .. Max({24 * d - zone.offset, 24 * d})

(* The first and the day after the last of the days that are read. *)
Bounds == {First, Last + 1} \cup (IF query.saved THEN {} ELSE {Floor})

(* An article published on one of the days, at any hour, is read and no      *)
(* other is, if no transition of the zone falls between the local midnight   *)
(* and the midnight of UTC of the first or the last of these days.           *)
DaysAreWhole ==
  answer.status = "ok" /\ (\A d \in Bounds : ~ Shifted(d)) =>
    \A t \in Instants : InWindow(t) <=> Belongs(t)

(* Comment of zonedStartOfDayUTC: only zones that change their offset "at    *)
(* exactly local midnight" are misjudged: after a transition at one to three *)
(* in the night, a day still begins at its midnight.                         *)
OnlyMidnightTransitionsMisjudged ==
  answer.status = "ok" /\ query.saved =>
    \A d \in {First, Last + 1} :
      zone.shift # 0 /\ zone.at + zone.offset \in 24 * d + 1 .. 24 * d + 3 =>
        LocalDay(StartOfDay(d)) = d /\ LocalDay(StartOfDay(d) - 1) = d - 1
=============================================================================
