---------------------------- MODULE MCUpload ----------------------------
(* A small instance of Upload for TLC. *)
EXTENDS Upload

\* One part is one slice, and every file is sliced.
Sliced == {[single_shot_max |-> 0, resumable_max |-> 0, min_slice |-> 1, max_components |-> 32]}
=============================================================================
