---------------------------- MODULE MCDelivers ----------------------------
(***************************************************************************)
(* One file of a job that is resumed until the file is settled: an upload  *)
(* or a download, explored by one run.                                     *)
(***************************************************************************)
EXTENDS Download

VARIABLES
  way,
  source, past, bucket, late, options, u_row, slices, u_pc, u_try, local, edited, u_stop,
  stream, u_spent

Policy(single, resumable) ==
  [single_shot_max |-> single, resumable_max |-> resumable, min_slice |-> 1, max_components |-> 32]
AllMethods == {Policy(2, 2), Policy(0, 2), Policy(0, 0)}
TwoValues == 1..2

Sent == INSTANCE Upload WITH
  row <- u_row, pc <- u_pc, try <- u_try, stop <- u_stop, spent <- u_spent,
  Policies <- AllMethods, Audits <- {TRUE}, MaxEdits <- 0, MaxFaults <- 2, MaxForeign <- 0,
  MaxStops <- 0

upload == <<source, past, bucket, late, options, u_row, slices, u_pc, u_try, local, edited,
            u_stop, stream, u_spent>>

MCInit ==
  /\ way \in {"up", "down"}
  /\ Sent!Init
  /\ way = "down" => source = <<>> /\ bucket.dest = Sent!Absent /\ options.policy = Policy(2, 2)
  /\ Init
  /\ way = "up" => object.data = <<>> /\ dest = NoFile
  /\ object.data = <<>> \/ object.data[1] = 1      \* one value is like the other

Either(A, B) ==
  /\ UNCHANGED way
  /\ \/ way = "up" /\ A /\ UNCHANGED vars
     \/ way = "down" /\ B /\ UNCHANGED upload
\* A download meets an object that is replaced and a crash, or a user who removes
\* files, beside the failed request.
Bounded == spent'.removed = 0 \/ spent'.crashes + spent'.replaced = 0
MCNext == Either(Sent!Next, Next /\ Bounded)
allvars == <<way, vars, upload>>

\* The run's threads go on, and who resumes the job does so again.
MCFairness ==
  /\ WF_allvars(Either(Sent!Begin, Begin)) /\ WF_allvars(Either(Sent!MainStep, MainStep))
  /\ \A u \in Units : WF_allvars(Either(Sent!Upload(u), Fetching(u)))

MCSpec == MCInit /\ [][MCNext]_allvars /\ MCFairness

\* Left alone, the file is delivered: an upload whatever requests were lost,
\* answered or executed late, sessions forgotten, and processes killed before; a
\* download if only so many requests fail and objects are replaced.
FileIsDelivered ==
  <>[](IF way = "up" THEN u_row.state \in Sent!Delivered ELSE row.state \in Delivered)
=============================================================================
