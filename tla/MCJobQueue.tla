---------------------------- MODULE MCJobQueue ----------------------------
(* Small instances of JobQueue for TLC. *)
EXTENDS JobQueue, TLC

\* One job, by the id the database gives it.
OneJob == {1}

\* Nothing tells one terminal from another. Used where no liveness is checked.
Terminals == Permutations(Clis)
=============================================================================
