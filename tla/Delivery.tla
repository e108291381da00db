---------------------------- MODULE Delivery ----------------------------
(***************************************************************************)
(* What a job promises its user, apart from how it works: a ledger of the  *)
(* planned files, the destination, and a verdict. A job is declared        *)
(* complete only when the ledger counts every file as delivered and each   *)
(* was found at the destination since the run began.                       *)
(***************************************************************************)
CONSTANT Files   \* the files of the job's manifest

VARIABLES
  ledger,     \* what the job holds of each file: "open", "delivered" or "given up"
  held,       \* the files the destination has
  confirmed,  \* the files found there since the run began
  verdict     \* "none", "complete" or "incomplete"

DeliveryInit ==
  /\ ledger = [f \in Files |-> "open"]
  /\ held \in SUBSET Files
  /\ confirmed = {}
  /\ verdict = "none"

\* A run begins: earlier verdicts and confirmations no longer count.
Begin == verdict' = "none" /\ confirmed' = {} /\ UNCHANGED <<ledger, held>>

\* Bytes reach the destination, and somebody may take them away again.
Arrive(f) == held' = held \cup {f} /\ UNCHANGED <<ledger, confirmed, verdict>>
Vanish(f) == held' = held \ {f} /\ UNCHANGED <<ledger, confirmed, verdict>>

\* A file moves in the ledger; a delivered one comes back only while no
\* verdict stands, an open one can be given up or taken up again by the user.
Deliver(f) ==
  /\ verdict = "none" /\ ledger[f] # "delivered"
  /\ ledger' = [ledger EXCEPT ![f] = "delivered"]
  /\ UNCHANGED <<held, confirmed, verdict>>
Reopen(f) ==
  /\ verdict = "none" /\ ledger[f] = "delivered"
  /\ ledger' = [ledger EXCEPT ![f] = "open"]
  /\ UNCHANGED <<held, confirmed, verdict>>
GiveUp(F) ==
  /\ \A f \in F : ledger[f] = "open"
  /\ ledger' = [f \in Files |-> IF f \in F THEN "given up" ELSE ledger[f]]
  /\ UNCHANGED <<held, confirmed, verdict>>
TakeUp(F) ==
  /\ \A f \in F : ledger[f] = "given up"
  /\ ledger' = [f \in Files |-> IF f \in F THEN "open" ELSE ledger[f]]
  /\ UNCHANGED <<held, confirmed, verdict>>

\* Files are looked up at the destination.
Confirm(F) ==
  /\ verdict = "none" /\ F \subseteq held
  /\ confirmed' = confirmed \cup F
  /\ UNCHANGED <<ledger, held, verdict>>

Finish ==
  /\ verdict = "none"
  /\ \/ verdict' = "incomplete"
     \/ /\ \A f \in Files : ledger[f] = "delivered" /\ f \in confirmed
        /\ verdict' = "complete"
  /\ UNCHANGED <<ledger, held, confirmed>>

DeliveryNext ==
  \/ Begin \/ Finish
  \/ \E f \in Files : Arrive(f) \/ Vanish(f) \/ Deliver(f) \/ Reopen(f)
  \/ \E F \in SUBSET Files : GiveUp(F) \/ TakeUp(F) \/ Confirm(F)

DeliverySpec == DeliveryInit /\ [][DeliveryNext]_<<ledger, held, confirmed, verdict>>
=============================================================================
