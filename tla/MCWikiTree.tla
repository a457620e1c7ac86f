----------------------------- MODULE MCWikiTree -----------------------------
(* Instances of WikiTree for TLC. *)
EXTENDS WikiTree, TLC

\* Workers are interchangeable, and so are the pages that are not drafts.
TreeSymmetry == Permutations(Worker) \cup Permutations(Page \ Draft)
=============================================================================
