------------------------- MODULE MCArticleAnalysis -------------------------
(* TLC instances of ArticleAnalysis. *)
EXTENDS ArticleAnalysis, TLC

(* Replicas are interchangeable, and so are concurrent retry requests. *)
Symmetry == Permutations(Workers) \cup Permutations(Admins) \cup Permutations(Streams)
=============================================================================
