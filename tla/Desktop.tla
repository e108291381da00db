----------------------------- MODULE Desktop -----------------------------
(***************************************************************************)
(* The main window (main_window.py) over its helpers: the rail of jobs and *)
(* sync_rail (jobs_model.py), the tabs, the watch of the selected job and  *)
(* the poller (workers.py, watcher.py).                                    *)
(*                                                                         *)
(* What runs on the Qt thread is a function of the window as it was, one   *)
(* operator per slot.  Every request is a thread of its own: asked by a    *)
(* slot, served by the service, and answered on the Qt thread in any order.*)
(* Equal requests under way at once are one.                               *)
(***************************************************************************)
EXTENDS Naturals, FiniteSets

CONSTANTS
  Jobs, NoJob,
  OfProfile,    \* the jobs that use the connection the rail can be filtered by
  MaxGestures, MaxMoves, MaxOutages   \* bounds

ASSUME DesktopAssumption ==
  /\ OfProfile \subseteq Jobs /\ NoJob \notin Jobs
  /\ {MaxGestures, MaxMoves, MaxOutages} \subseteq Nat

VARIABLES
  status, archived, up,   \* the service: the jobs' rows, and whether it answers
  win,                    \* the window
  spent                   \* what was used of the bounds

vars == <<status, archived, up, win, spent>>

Settled == {"complete", "incomplete", "paused"}
Statuses == Settled \cup {"pending", "running"}
Pausable == {"running", "pending"}
Resumable == {"paused", "incomplete"}

\* A request: what is asked of which job, and the rows that came back.
Request(kind, j) == [kind |-> kind, job |-> j, at |-> "asked", rows |-> {}]
Row(j) == [id |-> j, status |-> status[j], archived |-> j \in archived]
Ids(rows) == {r.id : r \in rows}
StatusIn(rows, j) == IF j \in Ids(rows) THEN (CHOOSE r \in rows : r.id = j).status ELSE "none"

NoWatch == [job |-> NoJob, last |-> "none", posted |-> FALSE]
EmptyTabs == [progress |-> {}, summary |-> NoJob, errors |-> NoJob, files |-> NoJob]

TypeOK ==
  /\ \A j \in Jobs : status[j] \in Statuses \cup {"none"} /\ archived \subseteq Jobs
  /\ win.selected \in Jobs \cup {NoJob} /\ win.selStatus \in Statuses \cup {"none"}
  /\ win.pending \in Jobs \cup {NoJob} /\ Ids(win.jobs) \subseteq Jobs
  /\ Ids(win.rail.rows) \subseteq Ids(win.jobs)
  /\ win.watch.posted <=> \E s \in win.signals : s.live
  /\ \A s \in win.signals : s.live => s.job = win.watch.job
  /\ \A j \in Jobs : status[j] = "none" => win.selected # j

NewWindow ==
  [selected |-> NoJob, selStatus |-> "none", pending |-> NoJob,
   filtering |-> FALSE, showArchived |-> FALSE, up |-> TRUE, jobs |-> {},
   rail |-> [up |-> TRUE, rows |-> {}], tabs |-> EmptyTabs,
   watch |-> NoWatch, signals |-> {}, poll |-> Request("poll", NoJob),
   calls |-> {}, astray |-> FALSE]

Init ==
  /\ status \in [Jobs -> {"none", "running", "incomplete", "complete"}]
  /\ archived = {} /\ up = TRUE
  /\ win = NewWindow
  /\ spent = [gestures |-> 0, moves |-> 0, outages |-> 0]

---------------------------------------------------------------------------
(* The slots' building blocks *)

Ask(v, requests) == [v EXCEPT !.calls = @ \cup requests]
\* call_async of the slot that asks for the list once more.
Poke(v) == Ask(v, {Request("list", NoJob)})

\* JobWatcher.stop: what the old thread has posted already is still delivered.
StopWatch(v) ==
  [v EXCEPT !.watch = NoWatch, !.astray = FALSE, !.signals = {[s EXCEPT !.live = FALSE] : s \in @}]
StartUnstopped(v, j) == [v EXCEPT !.watch = [NoWatch EXCEPT !.job = j]]
StartWatch(v, j) == [StopWatch(v) EXCEPT !.watch = [NoWatch EXCEPT !.job = j]]

\* _on_rail_current_changed: the summary stays until the job's row is there.
SelectJob(v, j, st) ==
  IF j = v.selected THEN v
  ELSE Ask(StartWatch([v EXCEPT !.selected = j, !.selStatus = st, !.tabs.progress = {},
                                !.tabs.errors = NoJob, !.tabs.files = j], j),
           {Request("errors", j), Request("job", j)})

\* _clear_selection_and_tabs.
DeselectWatching(v) ==
  [v EXCEPT !.selected = NoJob, !.selStatus = "none", !.tabs.progress = {}, !.tabs.errors = NoJob]
Deselect(v) ==
  StopWatch([v EXCEPT !.selected = NoJob, !.selStatus = "none",
                      !.tabs.progress = {}, !.tabs.errors = NoJob])

RefreshSelected(v) ==
  IF v.selected = NoJob THEN v
  ELSE Poke(Ask(v, {Request("job", v.selected), Request("errors", v.selected)}))

---------------------------------------------------------------------------
(* The rail *)

Filtered(v, rows) == IF v.filtering THEN {r \in rows : r.id \in OfProfile} ELSE rows

\* The signature sync_rail compares is the rows and whether the service is up.
IdsOnly(v, rail) == Ids(rail.rows) # Ids(v.rail.rows) \/ rail.up # v.rail.up
Changed(v, rail) == rail # v.rail \/ v.rail.rows = {}

\* _sync_rail_preserving_expansion: a submitted job the filter hides ends the
\* filter; a rail that was rebuilt selects the submitted job if it lists it.
SyncRail(v, rows, isUp) ==
  LET hides == /\ v.pending # NoJob /\ v.filtering /\ v.pending \in Ids(v.jobs)
               /\ v.pending \notin Ids(Filtered(v, rows))
      v1 == IF hides THEN [v EXCEPT !.filtering = FALSE] ELSE v
      list == IF hides THEN v.jobs ELSE Filtered(v, rows)
      rail == [up |-> IF hides THEN v.up ELSE isUp, rows |-> list]
      v2 == [v1 EXCEPT !.rail = rail]
  IN IF ~Changed(v, rail) THEN v1
     ELSE IF v.pending \in Ids(list)
          THEN SelectJob([v2 EXCEPT !.pending = NoJob], v.pending, StatusIn(list, v.pending))
          ELSE v2

OnJobs(v, rows) ==
  SyncRail([v EXCEPT !.jobs = rows, !.up = TRUE], rows, TRUE)
DownClears(v) == IF v.up THEN Deselect(SyncRail([v EXCEPT !.up = FALSE], v.jobs, FALSE)) ELSE v
OnDown(v) == IF v.up THEN SyncRail([v EXCEPT !.up = FALSE], v.jobs, FALSE) ELSE v

---------------------------------------------------------------------------
(* Answers *)

RenderSummary(v, r) == [v EXCEPT !.selStatus = r.status, !.tabs.summary = r.id]
RenderJob(v, r) == [RenderSummary(v, r) EXCEPT !.tabs.progress = @ \cup {r.id}]
RenderErrors(v, r) == [v EXCEPT !.tabs.errors = IF r.status = "incomplete" THEN r.id ELSE NoJob]

ActionDone(v, j) == IF j = v.selected THEN RefreshSelected(StartWatch(v, j)) ELSE Poke(v)
\* _retry_done follows its job though the user has left it (astray, history).
RetryDone(v, j) == RefreshSelected([StartWatch(v, j) EXCEPT !.astray = j # v.selected])
Archived(v, j) == Poke(IF j = v.selected THEN Deselect(v) ELSE v)
JobSubmitted(v, j) == Poke([v EXCEPT !.pending = j])

\* The slot of an answer; a failure is only said in the status bar.
Answered(v, c) ==
  IF c.at = "failed" THEN v
  ELSE CASE c.kind = "list" -> OnJobs(v, c.rows)
         [] c.kind = "job" -> RenderJob(v, CHOOSE r \in c.rows : TRUE)
         [] c.kind = "summary" -> RenderSummary(v, CHOOSE r \in c.rows : TRUE)
         [] c.kind = "errors" -> RenderErrors(v, CHOOSE r \in c.rows : TRUE)
         [] c.kind \in {"pause", "resume"} -> ActionDone(v, c.job)
         [] c.kind \in {"retry", "retry and resume"} -> RetryDone(v, c.job)
         [] c.kind = "exclude" -> RefreshSelected(v)
         [] c.kind = "archive" -> Archived(v, c.job)
         [] c.kind = "unarchive" -> Poke(v)
         [] c.kind = "submit" -> JobSubmitted(v, c.job)

Deliver ==
  \E c \in win.calls :
    /\ c.at # "asked"
    /\ win' = Answered([win EXCEPT !.calls = @ \ {c}], c)
    /\ UNCHANGED <<status, archived, up, spent>>

\* The poller's thread: a list or a failure, posted and awaited.
PollAnswered ==
  /\ win.poll.at # "asked"
  /\ win' = [IF win.poll.at = "failed" THEN OnDown(win) ELSE OnJobs(win, win.poll.rows)
             EXCEPT !.poll = Request("poll", NoJob)]
  /\ UNCHANGED <<status, archived, up, spent>>

---------------------------------------------------------------------------
(* The watch of a job: its stream's ticks and its end *)

Posted(s) == win' = [win EXCEPT !.signals = @ \cup {s}, !.watch.posted = TRUE, !.watch.last = s.status]
Tick ==
  /\ up /\ win.watch.job # NoJob /\ ~win.watch.posted
  /\ win.watch.last # status[win.watch.job] /\ win.watch.last # "ended"
  /\ Posted([job |-> win.watch.job, kind |-> "snapshot", status |-> status[win.watch.job], live |-> TRUE])
  /\ UNCHANGED <<status, archived, up, spent>>
WatchEnds ==
  /\ up /\ win.watch.job # NoJob /\ ~win.watch.posted
  /\ win.watch.last \in Settled /\ status[win.watch.job] = win.watch.last
  /\ win' = [win EXCEPT !.signals = @ \cup {[job |-> win.watch.job, kind |-> "settled",
                                              status |-> win.watch.last, live |-> TRUE]},
                        !.watch.posted = TRUE, !.watch.last = "ended"]
  /\ UNCHANGED <<status, archived, up, spent>>

\* _on_watcher_snapshot asks for the selected job; _on_watcher_settled renders
\* what it is given.
OnSnapshot(v, s) ==
  LET shown == [v EXCEPT !.tabs.progress = @ \cup {s.job}]
  IN IF v.selected = NoJob THEN shown
     ELSE Ask(shown, {Request("errors", v.selected), Request("summary", v.selected)})
OnSettled(v, s) == Poke(RenderJob(v, [id |-> s.job, status |-> s.status]))

Signal ==
  \E s \in win.signals :
    /\ LET v == [win EXCEPT !.signals = @ \ {s}, !.watch.posted = @ /\ ~s.live]
       IN win' = IF s.kind = "snapshot" THEN OnSnapshot(v, s) ELSE OnSettled(v, s)
    /\ UNCHANGED <<status, archived, up, spent>>

---------------------------------------------------------------------------
(* The user *)

Gesture ==
  /\ spent.gestures < MaxGestures
  /\ spent' = [spent EXCEPT !.gestures = @ + 1]
  /\ UNCHANGED <<status, archived, up>>

Click ==
  /\ Gesture
  /\ \E r \in win.rail.rows : win' = SelectJob(win, r.id, r.status) /\ win' # win

\* The toolbar's buttons are enabled by the status shown, and act on the selection.
Pause ==
  /\ Gesture /\ win.selected # NoJob /\ win.up /\ win.selStatus \in Pausable
  /\ win' = Ask(win, {Request("pause", win.selected)})
Resume ==
  /\ Gesture /\ win.selected # NoJob /\ win.up /\ win.selStatus \in Resumable
  /\ win' = Ask(win, {Request("resume", win.selected)})

\* The errors tab's buttons; whether to resume is read from the status shown.
Retry ==
  /\ Gesture /\ win.selected # NoJob /\ win.tabs.errors # NoJob
  /\ win' = Ask(win, {Request(IF win.selStatus \in {"paused", "incomplete"}
                              THEN "retry and resume" ELSE "retry", win.selected)})
Exclude ==
  /\ Gesture /\ win.selected # NoJob /\ win.tabs.errors # NoJob
  /\ win' = Ask(win, {Request("exclude", win.selected)})

\* The rail's menu, for any job of the rail.
Archive ==
  /\ Gesture
  /\ \E r \in win.rail.rows : /\ r.archived \/ r.status = "complete"
                              /\ win' = Ask(win, {Request(IF r.archived THEN "unarchive" ELSE "archive", r.id)})
ShowArchived ==
  /\ Gesture
  /\ LET v == [win EXCEPT !.showArchived = ~@]
         hidden == win.showArchived /\ \E r \in win.jobs : r.id = win.selected /\ r.archived
     IN win' = Poke(IF hidden THEN Deselect(v) ELSE v)

\* show_jobs_for_profile and clear_profile_filter.
Filter ==
  /\ Gesture
  /\ LET v == [win EXCEPT !.filtering = ~@]
         hidden == v.filtering /\ win.selected \notin Ids(Filtered(v, win.jobs))
     IN win' = SyncRail(IF hidden /\ win.selected # NoJob THEN Deselect(v) ELSE v, win.jobs, win.up)

\* The wizard's Finish.
Submit ==
  /\ Gesture /\ win.up
  /\ \E j \in Jobs \ Ids(win.jobs) :
       status[j] = "none" /\ win' = Ask(win, {Request("submit", j)})

---------------------------------------------------------------------------
(* The service *)

\* Each request is served once, or fails where the service is down.
Lists(v) == {Row(j) : j \in {i \in Jobs : status[i] # "none" /\ (v.showArchived \/ i \notin archived)}}
Reply(c, at, rows) ==
  win' = IF c.kind = "poll" THEN [win EXCEPT !.poll = [c EXCEPT !.at = at, !.rows = rows]]
         ELSE [win EXCEPT !.calls = (@ \ {c}) \cup {[c EXCEPT !.at = at, !.rows = rows]}]

Reads(c) ==
  /\ c.kind \in {"list", "poll", "job", "summary", "errors", "exclude"}
  /\ Reply(c, "answered", IF c.kind \in {"list", "poll"} THEN Lists(win) ELSE {Row(c.job)})
  /\ UNCHANGED <<status, archived>>
\* A running job is told to stop, and is paused when it has.
Acts(c) ==
  /\ c.kind \in {"pause", "resume", "retry and resume", "submit"}
  /\ LET from == IF c.kind = "pause" THEN Pausable ELSE IF c.kind = "submit" THEN {"none"} ELSE Resumable
         to == CASE c.kind = "pause" /\ status[c.job] = "running" -> "running"
                 [] c.kind = "pause" /\ status[c.job] # "running" -> "paused"
                 [] c.kind # "pause" -> "pending"
     IN IF status[c.job] \in from /\ (c.kind = "pause" \/ c.job \notin archived)
        THEN /\ status' = [status EXCEPT ![c.job] = to]
             /\ Reply(c, "answered", {[Row(c.job) EXCEPT !.status = to]})
        ELSE Reply(c, "failed", {}) /\ UNCHANGED status
  /\ UNCHANGED archived
Retries(c) ==
  /\ c.kind = "retry"
  /\ IF status[c.job] = "running" THEN Reply(c, "failed", {}) ELSE Reply(c, "answered", {Row(c.job)})
  /\ UNCHANGED <<status, archived>>
Archives(c) ==
  /\ c.kind \in {"archive", "unarchive"}
  /\ IF c.kind = "archive" /\ status[c.job] # "complete"
     THEN Reply(c, "failed", {}) /\ UNCHANGED archived
     ELSE /\ Reply(c, "answered", {Row(c.job)})
          /\ archived' = IF c.kind = "archive" THEN archived \cup {c.job} ELSE archived \ {c.job}
  /\ UNCHANGED status

Serve(c) ==
  /\ c.at = "asked"
  /\ IF up THEN Reads(c) \/ Acts(c) \/ Retries(c) \/ Archives(c)
     ELSE Reply(c, "failed", {}) /\ UNCHANGED <<status, archived>>
  /\ UNCHANGED <<up, spent>>
ServeCall == \E c \in win.calls : Serve(c)
ServePoll == Serve(win.poll)

\* The worker.
Move ==
  /\ up /\ spent.moves < MaxMoves /\ spent' = [spent EXCEPT !.moves = @ + 1]
  /\ \E j \in Jobs : \E s \in Statuses :
       /\ <<status[j], s>> \in {<<"pending", "running">>, <<"running", "complete">>,
                             <<"running", "incomplete">>, <<"running", "paused">>}
       /\ status' = [status EXCEPT ![j] = s]
  /\ UNCHANGED <<archived, up, win>>
GoDown ==
  /\ up /\ spent.outages < MaxOutages /\ up' = FALSE
  /\ spent' = [spent EXCEPT !.outages = @ + 1]
  /\ UNCHANGED <<status, archived, win>>
ComeUp == ~up /\ up' = TRUE /\ UNCHANGED <<status, archived, win, spent>>

User ==
  \/ Click \/ Pause \/ Resume \/ Retry \/ Exclude
  \/ Archive \/ ShowArchived \/ Filter \/ Submit
Window == Deliver \/ PollAnswered \/ Signal \/ Tick \/ WatchEnds
Service == ServeCall \/ ServePoll \/ Move \/ GoDown \/ ComeUp
Next == User \/ Window \/ Service

Spec == Init /\ [][Next]_vars

\* Every request is served and answered, the poller goes on polling, the Qt
\* thread handles what is posted, and the service comes back.
FairSpec ==
  /\ Spec /\ WF_vars(ServeCall) /\ WF_vars(ServePoll) /\ WF_vars(ComeUp)
  /\ WF_vars(Deliver) /\ WF_vars(PollAnswered) /\ WF_vars(Signal)

---------------------------------------------------------------------------
(* Properties *)

\* _on_jobs, _on_down, sync_rail: the rail says of every job it lists what the
\* banner and the buttons say of the service, though a list is the trigger of
\* the one and a failed poll of the other, and equal lists are not rendered.
RailSaysWhetherUp == win.rail.rows # {} => win.rail.up = win.up

\* So it is at any time; and a rail whose lists are answered in any order, filtered,
\* extended by the archived jobs and cut off from the service, ends as the
\* service's list.
RailCatchesUp ==
  []RailSaysWhetherUp /\ <>[](win.rail = [up |-> TRUE, rows |-> Filtered(win, Lists(win))])

\* _sync_rail_preserving_expansion: what is answered, polled or reported moves
\* the selection to nothing but the job the user submitted, and takes it away
\* from nothing but a job the user's archiving of which is being answered (it
\* may have been taken out of the archive again since).
SelectionIsTheUsers ==
  [][spent'.gestures = spent.gestures /\ win'.selected # win.selected
       => \/ win'.selected = win.pending /\ win.pending # NoJob
          \/ /\ win'.selected = NoJob
             /\ \E c \in win.calls \ win'.calls :
                  c.kind = "archive" /\ c.at = "answered" /\ c.job = win.selected]_vars

\* Selection drives the watch: the selected job is followed, and none without; only
\* a retry that is answered after the user left its job puts that job's watch in place.
WatchIsTheSelections == win.watch.job = win.selected \/ win.astray

=============================================================================
