--------------------------- MODULE FeedSelection ---------------------------
(***************************************************************************)
(* Which of the scored articles of a day the personal feed shows, which of *)
(* a period a digest holds, and which the public preview lists.  Pure      *)
(* functions of the candidates: one action each, from every input.  An     *)
(* article is its place in the order in which the database returned it.    *)
(***************************************************************************)
EXTENDS Integers, Sequences, SequencesExt, FiniteSets

CONSTANTS
  Streams,      \* content streams
  Count,        \* candidates of the day
  Scores,       \* their possible scores
  PerStreamCap, \* PER_STREAM_DAILY_CAP
  DayCap,       \* DAY_TOTAL_CAP
  DigestLimit,  \* articlesPerStream of a digest
  PreviewLimit  \* PREVIEW_RESULT_LIMIT

VARIABLES
  candidate, \* for each article: its streams, its main stream and its score
  selected,  \* the user's streams by sortOrder
  filter,    \* the streams the request names
  mode,      \* what was asked for, once it is answered
  shown      \* the answer

vars == <<candidate, selected, filter, mode, shown>>

Articles == 1 .. Count
Orders   == UNION {SetToSeqs(set) : set \in SUBSET Streams}

TypeOK ==
  /\ \A a \in Articles : candidate[a].main \in candidate[a].streams /\ candidate[a].score \in Scores
  /\ filter \subseteq Streams
  /\ mode \in {"none", "saved", "filtered", "all", "streams", "digest", "preview"}
  /\ shown \in Seq(Articles)

Init ==
  /\ candidate \in [Articles -> {c \in [streams : SUBSET Streams \ {{}}, main : Streams, score : Scores] :
                                   c.main \in c.streams}]
  /\ selected \in Orders
  /\ filter \in SUBSET Streams
  /\ mode = "none"
  /\ shown = << >>

-----------------------------------------------------------------------------
Take(s, n) == SubSeq(s, 1, IF n < Len(s) THEN n ELSE Len(s))

All          == [a \in Articles |-> a]
In(set)      == {a \in Articles : candidate[a].streams \cap set # {}}
Chosen       == ToSet(selected)
EligibleOnly == SelectSeq(All, LAMBDA a : a \in In(Chosen))

(* Array.prototype.sort is stable. *)
SortByScoreDesc(s) ==
  LET Before(i, j) == \/ candidate[s[i]].score > candidate[s[j]].score
                      \/ candidate[s[i]].score = candidate[s[j]].score /\ i < j
      order == SetToSortSeq(DOMAIN s, Before)
  IN [k \in DOMAIN s |-> s[order[k]]]

(* The capped list of each selected stream. *)
Queues ==
  [i \in DOMAIN selected |->
    Take(SortByScoreDesc(SelectSeq(EligibleOnly, LAMBDA a : selected[i] \in candidate[a].streams)),
         PerStreamCap)]

(* One article of each stream in turn, duplicates included, up to the cap. *)
Merged(queues) ==
  LET Round(k) == LET live == SelectSeq([i \in DOMAIN queues |-> i], LAMBDA i : k <= Len(queues[i]))
                  IN [j \in DOMAIN live |-> queues[live[j]][k]]
  IN Take(FlattenSeq([k \in 1 .. PerStreamCap |-> Round(k)]), DayCap)

(* The first occurrence of each. *)
Deduped(s) ==
  LET firsts == SelectSeq([i \in DOMAIN s |-> i], LAMBDA i : \A j \in 1 .. i - 1 : s[j] # s[i])
  IN [k \in DOMAIN firsts |-> s[firsts[k]]]

(* Mutant: the places that duplicates leave are not filled again. *)
DistributeWithoutBackfill(queues) == Deduped(Merged(queues))

(* Mutant: the streams are emptied one after the other. *)
DistributeStreamByStream(queues) == Take(Deduped(FlattenSeq(queues)), DayCap)

(* The places that duplicates leave go to the best of what the lists hold. *)
DistributeAcrossStreams(queues) ==
  LET merged == Deduped(Merged(queues))
      left == Deduped(SelectSeq(FlattenSeq(queues), LAMBDA a : a \notin ToSet(merged)))
  IN merged \o Take(SortByScoreDesc(left), DayCap - Len(merged))

(* Mutant: the limit of a digest is for all its streams together. *)
SelectUpToLimit(s) == Take(s, DigestLimit)

(* At most DigestLimit articles of each main stream, best first. *)
SelectByPrimaryStream(s) ==
  SelectSeq(s, LAMBDA a :
    Cardinality({b \in ToSet(SubSeq(s, 1, SelectInSeq(s, LAMBDA x : x = a) - 1)) :
                   candidate[b].main = candidate[a].main}) < DigestLimit)

-----------------------------------------------------------------------------
Answer(asked, list) ==
  /\ mode = "none"
  /\ mode' = asked
  /\ shown' = SortByScoreDesc(list)
  /\ UNCHANGED <<candidate, selected, filter>>

(* capAndDistributeForDay, by what the request and the user have selected. *)
ShowSaved    == Answer("saved", Take(SortByScoreDesc(All), DayCap))
ShowFiltered ==
  /\ filter # {}
  /\ Answer("filtered", Take(SortByScoreDesc(SelectSeq(EligibleOnly, LAMBDA a : a \in In(filter))),
                             PerStreamCap))
ShowAll      ==
  /\ filter = {} /\ selected = << >>
  /\ Answer("all", Take(SortByScoreDesc(EligibleOnly), DayCap))
ShowStreams  ==
  /\ filter = {} /\ selected # << >>
  /\ Answer("streams", DistributeAcrossStreams(Queues))

BuildDigest == Answer("digest", SelectByPrimaryStream(SortByScoreDesc(EligibleOnly)))

(* The preview scores against the streams that the request submits. *)
ShowPreview == Answer("preview", Take(SortByScoreDesc(EligibleOnly), PreviewLimit))

Next == ShowSaved \/ ShowFiltered \/ ShowAll \/ ShowStreams \/ BuildDigest \/ ShowPreview

Spec == Init /\ [][Next]_vars

-----------------------------------------------------------------------------
(***************************************************************************)
(* Properties.                                                             *)
(***************************************************************************)

Score(a)   == candidate[a].score
Shown      == ToSet(shown)
Candidates == UNION {ToSet(Queues[i]) : i \in DOMAIN selected}
Least(m, n) == IF m < n THEN m ELSE n

(* Deduplication and backfill of the day: an article in two streams appears  *)
(* once and costs the day no place while a stream has another to show.       *)
DayIsFull ==
  mode = "streams" =>
    /\ Len(shown) = Cardinality(Shown)
    /\ Len(shown) = Least(DayCap, Cardinality(Candidates))

(* Round-robin: no stream, however weak its articles, is crowded out of the  *)
(* day while the day has a place for every stream.                           *)
EveryStreamShows ==
  mode = "streams" /\ Len(selected) <= DayCap =>
    \A i \in DOMAIN selected : Queues[i] # << >> => Queues[i][1] \in Shown

(* No article is left out for a worse one that shows because of the same     *)
(* streams, neither by a round nor by the backfill.                          *)
NothingBetterLeftOut ==
  mode = "streams" =>
    \A x \in Shown, y \in In(Chosen) \ Shown :
      candidate[x].streams \cap Chosen \subseteq candidate[y].streams => Score(x) >= Score(y)

(* README of digests: the best of each main stream, and of every main stream *)
(* that has an eligible article.                                             *)
DigestHoldsBest ==
  mode = "digest" =>
    \A s \in Streams :
      LET of(set) == {a \in set : candidate[a].main = s} IN
      /\ Cardinality(of(Shown)) = Least(DigestLimit, Cardinality(of(In(Chosen))))
      /\ \A x \in of(Shown), y \in of(In(Chosen)) \ Shown : Score(x) >= Score(y)
=============================================================================
