--------------------------- MODULE MCFollowing ---------------------------
(***************************************************************************)
(* A job as it is followed: by the streams and the watches of its          *)
(* progress, or by the desktop's table of its files, explored by one run.  *)
(***************************************************************************)
EXTENDS Following

VARIABLES way

listing == <<files, progressed, inbox, table, tab, used>>
allvars == <<way, vars, listing>>

MCInit ==
  /\ way \in {"watched", "listed"}
  /\ Init /\ (way = "listed" => \A w \in Watchers : Window(w))
  /\ Shown!Init /\ (way = "watched" => files = <<>>)

Either(A, B) ==
  /\ UNCHANGED way
  /\ \/ way = "watched" /\ A /\ UNCHANGED listing
     \/ way = "listed" /\ B /\ UNCHANGED vars
\* A table has one of the three: files retried, a failed fetch or a gesture.
Bounded == used'.retries + used'.failures + used'.gestures <= 1
MCNext == Either(Next, Shown!Next /\ Bounded)

\* The worker goes on and the service is started again; a stream's and a watch's
\* thread go on, or the stream's and the Qt thread and its clock.
MCFairness ==
  /\ WF_allvars(Either(WorkerStep, Shown!Cool)) /\ WF_allvars(Either(Restart, Shown!MaybeAutoRefresh))
  /\ \A w \in Watchers :
       WF_allvars(Either(Serve(w), Shown!Tick)) /\ WF_allvars(Either(Follow(w), FALSE))

MCSpec == MCInit /\ [][MCNext]_allvars /\ MCFairness

---------------------------------------------------------------------------
\* Nobody waits for ever: a watch of a job that comes to rest ends (gui/watcher.py:41-70,
\* cli/transfer_command.py:98-132), and a refresh that was put off while the user
\* read on is made up for (gui/job_tabs.py:417-421, 429-454).
NobodyWaitsForEver == (way = "watched" => WatchesEnd) /\ Shown!Flushed
=============================================================================
