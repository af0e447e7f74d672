------------------------------ MODULE Scoring ------------------------------
(***************************************************************************)
(* RelevanceScoringService and the adjustment that a reader's interactions *)
(* give to a source.  Scores are counted in hundredths (percents of the    *)
(* weights times points), adjustments in hundredths of a point.            *)
(***************************************************************************)
EXTENDS Integers, FiniteSets

CONSTANTS
  Technologies,
  Interests,
  Streams,
  MaxInteractions, \* of the user with articles of the source (bound)
  None

VARIABLES
  article, \* what the analysis says of it
  profile, \* what the user has selected
  counts,  \* user_source_preferences of the user and the article's source
  result   \* of computeScore at the last request

vars == <<article, profile, counts, result>>

Levels     == {"junior", "middle", "senior"}
Complexity == {"beginner", "intermediate", "advanced"}
Kinds      == {"useful", "notUseful", "saved", "opened"}

TypeOK ==
  /\ article \in [technologies : SUBSET Technologies, interests : SUBSET Interests,
                  streams : SUBSET Streams, complexity : Complexity \cup {None},
                  quality : {None, 30}, age : {"fresh", "recent", "older"}]
  /\ profile \in [technologies : SUBSET Technologies, interests : SUBSET Interests,
                  streams : SUBSET Streams, level : Levels \cup {None}]
  /\ counts \in [Kinds -> 0 .. MaxInteractions]
  /\ result.eligible \in BOOLEAN
  /\ result.adjustment \in -800 .. 800
  /\ result.score \in (IF result.eligible THEN -800 .. 10800 ELSE {0})

-----------------------------------------------------------------------------
(* computeAdjustment *)

(* ADJUSTMENT_PRIOR, ADJUSTMENT_SCALE, ADJUSTMENT_CLAMP *)
Prior == 6
Scale == 12
Clamp == 8

(* Mutant: the sign of a weight is lost. *)
WeightedUnsigned(c) == 4 * c.useful + 4 * c.notUseful + 2 * c.saved + c.opened

Weighted(c)  == 4 * c.useful - 4 * c.notUseful + 2 * c.saved + c.opened
Magnitude(c) == 4 * c.useful + 4 * c.notUseful + 2 * c.saved + c.opened + Prior

(* To the nearest hundredth, for a column of two decimals. *)
Rounded(n, d) == (2 * n + d) \div (2 * d)

Between(low, n, high) == IF n < low THEN low ELSE IF n > high THEN high ELSE n

Adjustment(c) ==
  Between(-100 * Clamp, Rounded(100 * Scale * Weighted(c), Magnitude(c)), 100 * Clamp)

-----------------------------------------------------------------------------
(* computeScore *)

(* Mutant: the share of the selection that the article has. *)
OverlapOfSelection(tags, wanted) ==
  IF tags = {} THEN 50
  ELSE IF wanted = {} THEN 0
  ELSE (100 * Cardinality(tags \cap wanted)) \div Cardinality(wanted)

(* An article without tags is neutral. *)
Overlap(tags, wanted) ==
  IF tags = {} THEN 50 ELSE
  CASE Cardinality(tags \cap wanted) = 0 -> 0
    [] Cardinality(tags \cap wanted) = 1 -> 60
    [] Cardinality(tags \cap wanted) = 2 -> 80
    [] OTHER -> 100

ComplexityMatch(level, complexity) ==
  IF None \in {level, complexity} THEN 50 ELSE
  CASE level = "junior" -> [beginner |-> 100, intermediate |-> 70, advanced |-> 30][complexity]
    [] level = "middle" -> [beginner |-> 60, intermediate |-> 100, advanced |-> 70][complexity]
    [] OTHER -> [beginner |-> 20, intermediate |-> 50, advanced |-> 100][complexity]

(* Mutant: an article without a fresh date is taken for a new one. *)
RecencyOfUnknown(age) == [fresh |-> 100, recent |-> 50, older |-> 80][age]

(* Within 12 hours, within 24 hours; an unknown date counts as older. *)
Recency(age) == [fresh |-> 100, recent |-> 80, older |-> 50][age]

Quality(a) == IF a.quality = None THEN 50 ELSE a.quality

Eligible(a, p) == a.streams \cap p.streams # {}

ScoreOf(a, p, c) ==
  IF Eligible(a, p)
  THEN [eligible   |-> TRUE,
        score      |-> 25 * Overlap(a.technologies, p.technologies)
                       + 20 * Overlap(a.interests, p.interests)
                       + 20 * ComplexityMatch(p.level, a.complexity)
                       + 25 * Quality(a)
                       + 10 * Recency(a.age)
                       + Adjustment(c),
        adjustment |-> Adjustment(c)]
  ELSE [eligible |-> FALSE, score |-> 0, adjustment |-> 0]

-----------------------------------------------------------------------------
(* An analysed article has at least its main stream. *)
Init ==
  /\ article \in [technologies : SUBSET Technologies, interests : SUBSET Interests,
                  streams : SUBSET Streams \ {{}}, complexity : Complexity \cup {None},
                  quality : {None, 30}, age : {"fresh", "older"}]
  /\ profile \in [technologies : {{}}, interests : {{}}, streams : {{}},
                  level : Levels \cup {None}]
  /\ counts = [k \in Kinds |-> 0]
  /\ result = ScoreOf(article, profile, counts)

Total == counts["useful"] + counts["notUseful"] + counts["saved"] + counts["opened"]

(* The user reacts to an article of the source, or takes it back. *)
Interact ==
  /\ \E k \in Kinds :
       \/ Total < MaxInteractions /\ counts' = [counts EXCEPT ![k] = @ + 1]
       \/ counts[k] > 0 /\ counts' = [counts EXCEPT ![k] = @ - 1]
  /\ result' = ScoreOf(article, profile, counts')
  /\ UNCHANGED <<article, profile>>

(* Onboarding with one more technology, interest or stream. *)
Select ==
  /\ \/ \E t \in Technologies \ profile.technologies :
          profile' = [profile EXCEPT !.technologies = @ \cup {t}]
     \/ \E t \in Interests \ profile.interests :
          profile' = [profile EXCEPT !.interests = @ \cup {t}]
     \/ \E s \in Streams \ profile.streams :
          profile' = [profile EXCEPT !.streams = @ \cup {s}]
  /\ result' = ScoreOf(article, profile', counts)
  /\ UNCHANGED <<article, counts>>

(* Twelve hours pass. *)
Age ==
  /\ article.age # "older"
  /\ article' = [article EXCEPT !.age = IF @ = "fresh" THEN "recent" ELSE "older"]
  /\ result' = ScoreOf(article', profile, counts)
  /\ UNCHANGED <<profile, counts>>

Next == Interact \/ Select \/ Age

Spec == Init /\ [][Next]_vars

-----------------------------------------------------------------------------
(* Every interaction moves the articles of its source the way it points,   *)
(* or not at all, whatever the user did before: computeAdjustment divides  *)
(* by a number that the interaction changes as well.                       *)
PointsItsWay ==
  LET more(k) == counts'[k] > counts[k]
      less(k) == counts'[k] < counts[k]
      good    == {"useful", "saved", "opened"}
  IN  /\ (\E k \in good : more(k)) \/ less("notUseful") => result'.score >= result.score
      /\ (\E k \in good : less(k)) \/ more("notUseful") => result'.score <= result.score

InteractionsPointTheirWay == [][PointsItsWay]_vars

(* A user who selects more never loses an article or points for it, and    *)
(* an article never gains by growing older.                                *)
OnlyAdds ==
  /\ profile' # profile /\ result.eligible =>
       result'.eligible /\ result'.score >= result.score
  /\ article'.age # article.age => result'.score <= result.score

SelectionsOnlyAdd == [][OnlyAdds]_vars
=============================================================================
