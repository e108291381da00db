-------------------------- MODULE MCQueueService --------------------------
(***************************************************************************)
(* The service without terminals, in two small instances of JobQueue that  *)
(* one run explores together: one job that is paused, cancelled and        *)
(* resumed by request threads, and two jobs, scheduled or not, that nobody *)
(* calls. What tells them apart is not in the module, only what the users  *)
(* are let do; so every property is checked of both.                       *)
(***************************************************************************)
EXTENDS JobQueue

VARIABLE users

TwoJobs == {1, 2}

Called == status'[2] = "absent" /\ ~waiting'[1] /\ dest'[1] # CHOOSE d \in Dests : TRUE
Queued == \A a \in Apis : api'[a].at = "idle"

MCInit == Init /\ users \in {"call", "queue"}
MCNext ==
  /\ Next /\ UNCHANGED users
  /\ users = "call" => Called
  /\ users = "queue" => Queued

MCSpec == MCInit /\ [][MCNext]_<<vars, users>> /\ Fairness
=============================================================================
