------------------------- MODULE MCSourceCandidates -------------------------
(* TLC instances of SourceCandidates. *)
EXTENDS SourceCandidates, TLC

(* Executions of one kind are interchangeable, and so are the candidates     *)
(* and the ids of sources.                                                   *)
Symmetry == Permutations(Sources) \cup Permutations(Candidates) \cup
            Permutations(Workers) \cup Permutations(Requests)
=============================================================================
