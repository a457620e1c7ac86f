----------------------------- MODULE MCMenuSync -----------------------------
(* Instances of MenuSync for TLC. *)
EXTENDS MenuSync, TLC

MCRefresh == {[boundary |-> 1, horizon |-> 2]}

\* Workers are interchangeable.
WorkerSymmetry == Permutations(Worker)
=============================================================================
