---------------------------- MODULE MCDesktop ----------------------------
(***************************************************************************)
(* The window in five small instances, explored by one run: a job acted    *)
(* upon from the toolbar, two jobs selected and archived, two of which     *)
(* the selected one is retried or resumed, a rail over an outage, and a    *)
(* shelf of archived jobs that end meanwhile.                              *)
(***************************************************************************)
EXTENDS Desktop

VARIABLE way

Unlisted == {j \in Jobs : status[j] = "none"}
\* An incomplete job has been selected, and a retry of its errors asked for.
Left == CHOOSE j \in Jobs : j \notin OfProfile
Looking ==
  LET rows == {Row(j) : j \in Jobs}
  IN [NewWindow EXCEPT
        !.selected = Left, !.selStatus = "incomplete", !.jobs = rows, !.rail.rows = rows,
        !.tabs = [progress |-> {Left}, summary |-> Left, errors |-> Left, files |-> Left],
        !.watch.job = Left, !.watch.last = "ended", !.calls = {Request("retry and resume", Left)}]
MCInit ==
  \/ /\ way \in {"acted", "selected", "rail", "shelf"}
     /\ Init
     /\ CASE way = "acted"    -> OfProfile \cap Unlisted = {} /\ Jobs \ OfProfile \subseteq Unlisted
          [] way = "selected" -> \A j \in Jobs : status[j] = IF j \in OfProfile THEN "complete" ELSE "running"
          [] way = "rail"     -> OfProfile \cap Unlisted = {} /\ Jobs \ OfProfile \subseteq Unlisted
          [] way = "shelf"    -> Unlisted = {}
  \/ /\ way = "retried"
     /\ status = [j \in Jobs |-> IF j = Left THEN "incomplete" ELSE "complete"]
     /\ archived = {} /\ up = TRUE /\ win = Looking
     /\ spent = [gestures |-> 1, moves |-> 0, outages |-> 0]

Users ==
  \/ way = "acted" /\ (Click \/ Pause \/ Exclude \/ Archive \/ ShowArchived)
  \/ way = "selected" /\ (Click \/ Archive)
  \/ way = "retried" /\ (Click \/ Retry \/ Resume)
  \/ way = "rail" /\ (Filter \/ Submit)
  \/ way = "shelf" /\ (Archive \/ ShowArchived \/ Filter)
Services ==
  \/ ServeCall \/ ServePoll
  \/ way = "shelf" /\ Move
  \/ way = "rail" /\ (GoDown \/ ComeUp)
MCNext == UNCHANGED way /\ (Users \/ Window \/ Services)

allvars == <<way, vars>>

\* Of the window's fairness no more than that requests get on, or the service comes
\* back; that the poller goes on polling; and that what is posted is handled.
MCSpec ==
  /\ MCInit /\ [][MCNext]_allvars
  /\ WF_vars(ServeCall \/ Deliver \/ ComeUp) /\ WF_vars(ServePoll \/ PollAnswered)
  /\ WF_vars(Signal)
=============================================================================
