--------------------------- MODULE MCKeywordAlerts ---------------------------
(* Instances of KeywordAlerts for TLC. *)
EXTENDS KeywordAlerts, TLC

Symmetry == Permutations(Emails) \cup Permutations(Words)
=============================================================================
