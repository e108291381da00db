---------------------------- MODULE MCJobRun ----------------------------
(* Small instances of JobRun for TLC. *)
EXTENDS JobRun

\* Files by their ids.
OneFile == {1}
TwoFiles == {1, 2}
=============================================================================
