--------------------------- MODULE MCWikiHistory ---------------------------
(* An instance of WikiHistory for TLC: two authors, two calls at a time. *)
EXTENDS WikiHistory, TLC

Symmetry == Permutations(Worker)

=============================================================================
