-------------------------- MODULE DesktopProofs --------------------------
(***************************************************************************)
(* Theorems about Desktop, for any jobs, any number of the user's gestures *)
(* and any order of the answers: the window's types, that the selected job *)
(* is the one followed, that the rail and the banner agree, and that the   *)
(* selection moves at the user's wish.                                     *)
(***************************************************************************)
EXTENDS Desktop, TLAPS

---------------------------------------------------------------------------
(* The shape of a window *)

\* The jobs the service knows; none is ever forgotten.
Known == {j \in Jobs : status[j] # "none"}

CallKinds == {"list", "job", "summary", "errors", "pause", "resume", "retry", "retry and resume",
              "exclude", "archive", "unarchive", "submit"}

\* What a window that has heard of the jobs E can hold.
Rows(E) == [id : E, status : Statuses, archived : BOOLEAN]
Requests(K, E) ==
  {c \in [kind : K, job : Jobs \cup {NoJob}, at : {"asked", "answered", "failed"}, rows : SUBSET Rows(E)] :
     c.kind \notin {"list", "poll"} =>
       /\ c.job \in Jobs
       /\ c.kind # "submit" \/ c.at = "answered" => c.job \in E
       /\ c.at = "answered" => c.rows # {}}
Tabs(E) == [progress : SUBSET E, summary : E \cup {NoJob}, errors : E \cup {NoJob}, files : E \cup {NoJob}]
Watches(E) == [job : E \cup {NoJob}, last : Statuses \cup {"none", "ended"}, posted : BOOLEAN]
Signals(E) == [job : E, kind : {"snapshot", "settled"}, status : Statuses, live : BOOLEAN]
Windows(E) ==
  [selected : E \cup {NoJob}, selStatus : Statuses \cup {"none"}, pending : E \cup {NoJob},
   filtering : BOOLEAN, showArchived : BOOLEAN, up : BOOLEAN, jobs : SUBSET Rows(E),
   rail : [up : BOOLEAN, rows : SUBSET Rows(E)], tabs : Tabs(E),
   watch : Watches(E), signals : SUBSET Signals(E), poll : Requests({"poll"}, E),
   calls : SUBSET Requests(CallKinds, E), astray : BOOLEAN]

\* The signals of the job that is followed, of which one at most is under way,
\* and its watch.
Followed(v) ==
  /\ v.watch.posted <=> \E s \in v.signals : s.live
  /\ \A s \in v.signals : s.live => s.job = v.watch.job
  /\ \A s, t \in v.signals : s.live /\ t.live => s = t
  /\ v.watch.job = v.selected \/ v.astray
Shaped(v, E) == v \in Windows(E) /\ Followed(v)

\* The rail lists jobs of the last list, under the banner that is shown.
Railed(v) == v.rail.rows \subseteq v.jobs /\ (v.rail.rows # {} => v.rail.up = v.up)
SameRail(v, w) == w.rail = v.rail /\ w.jobs = v.jobs /\ w.up = v.up
\* The rail, and the selection and the job to be selected too.
Keeps(v, w) == SameRail(v, w) /\ w.selected = v.selected /\ w.pending = v.pending

USE DesktopAssumption

LEMMA StatusesAre == /\ Statuses = {"complete", "incomplete", "paused", "pending", "running"}
                     /\ Settled = {"complete", "incomplete", "paused"}
                     /\ "none" \notin Statuses /\ "ended" \notin Statuses
  BY DEF Statuses, Settled

LEMMA NewRequest ==
  ASSUME NEW E \in SUBSET Jobs, NEW K, NEW kind \in K, NEW j \in Jobs \cup {NoJob},
         kind \notin {"list", "poll"} => j \in Jobs /\ (kind # "submit" => j \in E)
  PROVE  Request(kind, j) \in Requests(K, E)
  BY DEF Request, Requests

LEMMA AskShaped ==
  ASSUME NEW E, NEW v, Shaped(v, E), NEW R \in SUBSET Requests(CallKinds, E)
  PROVE  Shaped(Ask(v, R), E) /\ Keeps(v, Ask(v, R))
  BY DEF Shaped, Windows, Followed, Ask, Keeps, SameRail

LEMMA StopShaped ==
  ASSUME NEW E, NEW v \in Windows(E)
  PROVE  /\ StopWatch(v) \in Windows(E)
         /\ StopWatch(v).watch = NoWatch
         /\ \A s \in StopWatch(v).signals : ~s.live
         /\ Keeps(v, StopWatch(v))
<1>1. NoWatch \in Watches(E)
  BY DEF NoWatch, Watches
<1> DEFINE quiet == {[s EXCEPT !.live = FALSE] : s \in v.signals}
<1>2. quiet \in SUBSET Signals(E) /\ \A s \in quiet : ~s.live
  <2>1. v.signals \subseteq Signals(E)
    BY DEF Windows
  <2>2. \A s \in Signals(E) : [s EXCEPT !.live = FALSE] \in Signals(E) /\ ~[s EXCEPT !.live = FALSE].live
    BY DEF Signals
  <2> QED
    BY <2>1, <2>2
<1>3. StopWatch(v) = [v EXCEPT !.watch = NoWatch, !.astray = FALSE, !.signals = quiet]
  BY DEF StopWatch
<1> HIDE DEF quiet
<1> QED
  BY <1>1, <1>2, <1>3 DEF Windows, Keeps, SameRail

LEMMA StartShaped ==
  ASSUME NEW E, NEW v \in Windows(E), NEW j \in E
  PROVE  /\ StartWatch(v, j) \in Windows(E)
         /\ StartWatch(v, j).watch = [NoWatch EXCEPT !.job = j]
         /\ \A s \in StartWatch(v, j).signals : ~s.live
         /\ Keeps(v, StartWatch(v, j))
<1> DEFINE w == StopWatch(v)  watch == [NoWatch EXCEPT !.job = j]
<1>1. watch \in Watches(E)
  BY DEF NoWatch, Watches
<1>2. w \in Windows(E) /\ (\A s \in w.signals : ~s.live) /\ Keeps(v, w)
  BY StopShaped
<1>3. StartWatch(v, j) = [w EXCEPT !.watch = watch]
  BY DEF StartWatch
<1> HIDE DEF w, watch
<1>4. [w EXCEPT !.watch = watch] \in Windows(E)
  BY <1>1, <1>2 DEF Windows
<1> QED
  BY <1>1, <1>2, <1>3, <1>4 DEF Windows, Keeps, SameRail, watch

\* A watch just started has nothing under way.
LEMMA StartFollowed ==
  ASSUME NEW E \in SUBSET Jobs, NEW v \in Windows(E), NEW j \in E
  PROVE  (StartWatch(v, j).selected = j \/ StartWatch(v, j).astray) => Followed(StartWatch(v, j))
<1>1. /\ StartWatch(v, j).watch = [NoWatch EXCEPT !.job = j]
      /\ \A s \in StartWatch(v, j).signals : ~s.live
  BY StartShaped
<1>2. [NoWatch EXCEPT !.job = j].job = j /\ [NoWatch EXCEPT !.job = j].posted = FALSE
  BY DEF NoWatch
<1> QED
  BY <1>1, <1>2 DEF Followed

LEMMA PokeShaped ==
  ASSUME NEW E \in SUBSET Jobs, NEW v, Shaped(v, E)
  PROVE  Shaped(Poke(v), E) /\ Keeps(v, Poke(v))
<1>1. {Request("list", NoJob)} \in SUBSET Requests(CallKinds, E)
  BY NewRequest DEF CallKinds
<1> QED
  BY <1>1, AskShaped DEF Poke

LEMMA SelectShaped ==
  ASSUME NEW E \in SUBSET Jobs, NEW v, Shaped(v, E), NEW j \in E, NEW st \in Statuses \cup {"none"}
  PROVE  /\ Shaped(SelectJob(v, j, st), E) /\ SameRail(v, SelectJob(v, j, st))
         /\ SelectJob(v, j, st).selected = j /\ SelectJob(v, j, st).pending = v.pending
<1>1. CASE j = v.selected
  BY <1>1 DEF SelectJob, SameRail
<1>2. CASE j # v.selected
  <2> DEFINE u == [v EXCEPT !.selected = j, !.selStatus = st, !.tabs.progress = {},
                            !.tabs.errors = NoJob, !.tabs.files = j]
             R == {Request("errors", j), Request("job", j)}
             w == StartWatch(u, j)
  <2>1. SelectJob(v, j, st) = Ask(w, R)
    BY <1>2 DEF SelectJob
  <2>2. u \in Windows(E) /\ u.selected = j /\ u.pending = v.pending /\ SameRail(v, u)
    BY DEF Shaped, Windows, Tabs, SameRail
  <2>3. R \in SUBSET Requests(CallKinds, E)
    BY NewRequest DEF CallKinds
  <2> HIDE DEF u, R
  <2>4. w \in Windows(E) /\ Keeps(u, w)
    BY <2>2, StartShaped
  <2>5. Shaped(w, E)
    BY <2>2, <2>4, StartFollowed DEF Shaped, Keeps
  <2> HIDE DEF w
  <2> QED
    BY <2>1, <2>2, <2>3, <2>4, <2>5, AskShaped DEF Keeps, SameRail
<1> QED
  BY <1>1, <1>2

LEMMA DeselectShaped ==
  ASSUME NEW E \in SUBSET Jobs, NEW v, Shaped(v, E)
  PROVE  /\ Shaped(Deselect(v), E) /\ SameRail(v, Deselect(v))
         /\ Deselect(v).selected = NoJob /\ Deselect(v).pending = v.pending
<1> DEFINE u == [v EXCEPT !.selected = NoJob, !.selStatus = "none",
                          !.tabs.progress = {}, !.tabs.errors = NoJob]
           w == StopWatch(u)
<1>1. Deselect(v) = w
  BY DEF Deselect
<1>2. u \in Windows(E) /\ u.selected = NoJob /\ u.pending = v.pending /\ SameRail(v, u)
  BY DEF Shaped, Windows, Tabs, SameRail
<1> HIDE DEF u
<1>3. w \in Windows(E) /\ w.watch = NoWatch /\ (\A s \in w.signals : ~s.live) /\ Keeps(u, w)
  BY <1>2, StopShaped
<1> HIDE DEF w
<1>4. NoWatch.job = NoJob /\ NoWatch.posted = FALSE
  BY DEF NoWatch
<1>5. Followed(w)
  BY <1>2, <1>3, <1>4 DEF Followed, Keeps
<1> QED
  BY <1>1, <1>2, <1>3, <1>5 DEF Shaped, Keeps, SameRail

LEMMA RefreshShaped ==
  ASSUME NEW E \in SUBSET Jobs, NEW v, Shaped(v, E)
  PROVE  Shaped(RefreshSelected(v), E) /\ Keeps(v, RefreshSelected(v))
<1>1. CASE v.selected = NoJob
  BY <1>1 DEF RefreshSelected, Keeps, SameRail
<1>2. CASE v.selected # NoJob
  <2> DEFINE R == {Request("job", v.selected), Request("errors", v.selected)}
             w == Ask(v, R)
  <2>1. v.selected \in E
    BY <1>2 DEF Shaped, Windows
  <2>2. R \in SUBSET Requests(CallKinds, E)
    BY <2>1, NewRequest DEF CallKinds
  <2>3. RefreshSelected(v) = Poke(w)
    BY <1>2 DEF RefreshSelected
  <2> HIDE DEF R
  <2>4. Shaped(w, E) /\ Keeps(v, w)
    BY <2>2, AskShaped
  <2> HIDE DEF w
  <2> QED
    BY <2>3, <2>4, PokeShaped DEF Keeps, SameRail
<1> QED
  BY <1>1, <1>2

---------------------------------------------------------------------------
(* The rail *)

LEMMA StatusInTyped ==
  ASSUME NEW E, NEW R \in SUBSET Rows(E), NEW j
  PROVE  StatusIn(R, j) \in Statuses \cup {"none"}
<1>1. CASE j \in Ids(R)
  <2>1. PICK r \in R : r.id = j
    BY <1>1 DEF Ids
  <2>2. (CHOOSE q \in R : q.id = j) \in R
    BY <2>1
  <2> QED
    BY <1>1, <2>2 DEF StatusIn, Rows
<1> QED
  BY <1>1 DEF StatusIn

LEMMA IdsTyped == ASSUME NEW E, NEW R \in SUBSET Rows(E) PROVE Ids(R) \subseteq E
  BY DEF Ids, Rows

\* A rail in step with its window's list and banner, whether it is rebuilt or
\* what it shows already is equal to it; of selections it makes none but that of
\* the job submitted.
LEMMA SyncShaped ==
  ASSUME NEW E \in SUBSET Jobs, NEW v, Shaped(v, E)
  PROVE  LET w == SyncRail(v, v.jobs, v.up) IN
         /\ Shaped(w, E) /\ Railed(w)
         /\ w.jobs = v.jobs /\ w.up = v.up
         /\ w.selected = v.selected \/ (w.selected = v.pending /\ v.pending # NoJob)
<1> DEFINE hides == /\ v.pending # NoJob /\ v.filtering /\ v.pending \in Ids(v.jobs)
                    /\ v.pending \notin Ids(Filtered(v, v.jobs))
           v1 == IF hides THEN [v EXCEPT !.filtering = FALSE] ELSE v
           list == IF hides THEN v.jobs ELSE Filtered(v, v.jobs)
           rail == [up |-> v.up, rows |-> list]
           v2 == [v1 EXCEPT !.rail = rail]
           v3 == [v2 EXCEPT !.pending = NoJob]
           w == SyncRail(v, v.jobs, v.up)
<1>1. w = IF ~Changed(v, rail) THEN v1
          ELSE IF v.pending \in Ids(list) THEN SelectJob(v3, v.pending, StatusIn(list, v.pending)) ELSE v2
  BY DEF SyncRail
<1>2. /\ Shaped(v1, E) /\ v1.rail = v.rail /\ v1.jobs = v.jobs /\ v1.up = v.up
      /\ v1.selected = v.selected /\ v1.pending = v.pending
  BY DEF Shaped, Windows, Followed
<1>3. list \subseteq v.jobs /\ list \in SUBSET Rows(E)
  BY DEF Filtered, Shaped, Windows
<1> HIDE DEF hides, v1, list
<1>4. rail \in [up : BOOLEAN, rows : SUBSET Rows(E)]
  BY <1>3 DEF Shaped, Windows
<1>5. /\ Shaped(v2, E) /\ v2.rail = rail /\ v2.jobs = v.jobs /\ v2.up = v.up
      /\ v2.selected = v.selected /\ v2.pending = v.pending
  <2> HIDE DEF rail
  <2> QED
    BY <1>2, <1>4 DEF Shaped, Windows, Followed
<1>6. CASE ~Changed(v, rail)
  <2>1. v.rail = rail
    BY <1>6 DEF Changed
  <2>2. Railed(v1)
    BY <1>2, <1>3, <2>1 DEF Railed
  <2> QED
    BY <1>1, <1>2, <1>6, <2>2
<1>7. CASE Changed(v, rail) /\ v.pending \notin Ids(list)
  BY <1>1, <1>3, <1>5, <1>7 DEF Railed
<1>8. CASE Changed(v, rail) /\ v.pending \in Ids(list)
  <2>1. v.pending \in E /\ v.pending # NoJob
    BY <1>3, <1>8, IdsTyped
  <2>2. /\ Shaped(v3, E) /\ v3.rail = rail /\ v3.jobs = v.jobs /\ v3.up = v.up
        /\ v3.selected = v.selected
    <3> HIDE DEF rail, v2
    <3> QED
      BY <1>5 DEF Shaped, Windows, Followed
  <2>3. StatusIn(list, v.pending) \in Statuses \cup {"none"}
    BY <1>3, StatusInTyped
  <2> HIDE DEF v3
  <2>4. Shaped(w, E) /\ SameRail(v3, w) /\ w.selected = v.pending
    <3> DEFINE st == StatusIn(list, v.pending)
    <3>1. w = SelectJob(v3, v.pending, st)
      BY <1>1, <1>8 DEF v3
    <3>3. st \in Statuses \cup {"none"} /\ Shaped(v3, E) /\ v.pending \in E
      BY <2>1, <2>2, <2>3
    <3> HIDE DEF st, w, rail, v2
    <3>2. /\ Shaped(SelectJob(v3, v.pending, st), E) /\ SameRail(v3, SelectJob(v3, v.pending, st))
          /\ SelectJob(v3, v.pending, st).selected = v.pending
      BY <3>3, SelectShaped
    <3> QED
      BY <3>1, <3>2
  <2> HIDE DEF w
  <2>5. w.rail = rail /\ w.jobs = v.jobs /\ w.up = v.up
    BY <2>2, <2>4 DEF SameRail
  <2>6. Railed(w)
    BY <1>3, <2>5 DEF Railed
  <2> QED
    BY <2>1, <2>4, <2>5, <2>6 DEF w
<1> QED
  BY <1>6, <1>7, <1>8

\* What a list or a failed poll makes of the window.
LEMMA OnJobsShaped ==
  ASSUME NEW E \in SUBSET Jobs, NEW v, Shaped(v, E), NEW R \in SUBSET Rows(E)
  PROVE  /\ Shaped(OnJobs(v, R), E) /\ Railed(OnJobs(v, R))
         /\ \/ OnJobs(v, R).selected = v.selected
            \/ OnJobs(v, R).selected = v.pending /\ v.pending # NoJob
<1> DEFINE u == [v EXCEPT !.jobs = R, !.up = TRUE]
<1>1. /\ Shaped(u, E) /\ u.jobs = R /\ u.up = TRUE
      /\ u.selected = v.selected /\ u.pending = v.pending
  BY DEF Shaped, Windows, Followed
<1>2. OnJobs(v, R) = SyncRail(u, R, TRUE)
  BY DEF OnJobs
<1> HIDE DEF u
<1> QED
  BY <1>1, <1>2, SyncShaped

LEMMA OnDownShaped ==
  ASSUME NEW E \in SUBSET Jobs, NEW v, Shaped(v, E), Railed(v)
  PROVE  /\ Shaped(OnDown(v), E) /\ Railed(OnDown(v))
         /\ \/ OnDown(v).selected = v.selected
            \/ OnDown(v).selected = v.pending /\ v.pending # NoJob
<1> DEFINE u == [v EXCEPT !.up = FALSE]
<1>1. /\ Shaped(u, E) /\ u.jobs = v.jobs /\ u.up = FALSE
      /\ u.selected = v.selected /\ u.pending = v.pending
  BY DEF Shaped, Windows, Followed
<1>2. OnDown(v) = IF v.up THEN SyncRail(u, u.jobs, u.up) ELSE v
  BY <1>1 DEF OnDown
<1> HIDE DEF u
<1> QED
  BY <1>1, <1>2, SyncShaped

---------------------------------------------------------------------------
(* The slots *)

\* Where the selection may be after what the user did not do.
Moves(v, w) == w.selected = v.selected \/ (w.selected = v.pending /\ v.pending # NoJob)

LEMMA RenderShaped ==
  ASSUME NEW E \in SUBSET Jobs, NEW v, Shaped(v, E), NEW j \in E, NEW st \in Statuses, NEW r,
         r.id = j, r.status = st
  PROVE  /\ Shaped(RenderSummary(v, r), E) /\ Keeps(v, RenderSummary(v, r))
         /\ Shaped(RenderJob(v, r), E) /\ Keeps(v, RenderJob(v, r))
         /\ Shaped(RenderErrors(v, r), E) /\ Keeps(v, RenderErrors(v, r))
<1> DEFINE w == [v EXCEPT !.selStatus = st, !.tabs.summary = j]
<1>1. w = RenderSummary(v, r)
  BY DEF RenderSummary
<1>2. /\ Shaped(w, E) /\ Keeps(v, w)
  BY DEF Shaped, Windows, Tabs, Followed, Keeps, SameRail
<1>3. RenderJob(v, r) = [w EXCEPT !.tabs.progress = @ \cup {j}]
  BY DEF RenderJob, RenderSummary
<1> HIDE DEF w
<1>4. Shaped(RenderJob(v, r), E) /\ Keeps(w, RenderJob(v, r))
  BY <1>2, <1>3 DEF Shaped, Windows, Tabs, Followed, Keeps, SameRail
<1>5. Shaped(RenderErrors(v, r), E) /\ Keeps(v, RenderErrors(v, r))
  BY DEF RenderErrors, Shaped, Windows, Tabs, Followed, Keeps, SameRail
<1> QED
  BY <1>1, <1>2, <1>4, <1>5 DEF Keeps, SameRail

LEMMA ActionDoneShaped ==
  ASSUME NEW E \in SUBSET Jobs, NEW v, Shaped(v, E), NEW j \in E
  PROVE  Shaped(ActionDone(v, j), E) /\ Keeps(v, ActionDone(v, j))
<1>1. CASE j = v.selected
  <2> DEFINE w == StartWatch(v, j)
  <2>1. w \in Windows(E) /\ Keeps(v, w)
    BY StartShaped DEF Shaped
  <2>2. Shaped(w, E)
    BY <1>1, <2>1, StartFollowed DEF Shaped, Keeps
  <2>3. ActionDone(v, j) = RefreshSelected(w)
    BY <1>1 DEF ActionDone
  <2> HIDE DEF w
  <2> QED
    BY <2>1, <2>2, <2>3, RefreshShaped DEF Keeps, SameRail
<1> QED
  BY <1>1, PokeShaped DEF ActionDone

LEMMA RetryDoneShaped ==
  ASSUME NEW E \in SUBSET Jobs, NEW v, Shaped(v, E), NEW j \in E
  PROVE  Shaped(RetryDone(v, j), E) /\ Keeps(v, RetryDone(v, j))
<1> DEFINE u == StartWatch(v, j)
           w == [u EXCEPT !.astray = j # v.selected]
<1>1. u \in Windows(E) /\ Keeps(v, u)
  BY StartShaped DEF Shaped
<1>2. u.watch = [NoWatch EXCEPT !.job = j] /\ \A s \in u.signals : ~s.live
  BY StartShaped DEF Shaped
<1>3. [NoWatch EXCEPT !.job = j].job = j /\ [NoWatch EXCEPT !.job = j].posted = FALSE
  BY DEF NoWatch
<1>4. RetryDone(v, j) = RefreshSelected(w)
  BY DEF RetryDone
<1> HIDE DEF u
<1>5. /\ w \in Windows(E) /\ w.watch = u.watch /\ w.signals = u.signals /\ Keeps(v, w)
      /\ w.astray = (j # v.selected)
  BY <1>1 DEF Windows, Keeps, SameRail
<1> HIDE DEF w
<1>6. Shaped(w, E)
  BY <1>2, <1>3, <1>5 DEF Shaped, Followed, Keeps
<1> QED
  BY <1>4, <1>5, <1>6, RefreshShaped DEF Keeps, SameRail

LEMMA KeepsRailed == ASSUME NEW v, Railed(v), NEW w, SameRail(v, w) PROVE Railed(w)
  BY DEF Railed, SameRail

\* Every answer leaves a window in shape, and moves the selection only so.
LEMMA AnsweredShaped ==
  ASSUME NEW E \in SUBSET Jobs, NEW v, Shaped(v, E), Railed(v),
         NEW c \in Requests(CallKinds, E), c.at # "asked"
  PROVE  /\ Shaped(Answered(v, c), E) /\ Railed(Answered(v, c))
         /\ \/ Moves(v, Answered(v, c))
            \/ /\ Answered(v, c).selected = NoJob
               /\ c.kind = "archive" /\ c.at = "answered" /\ c.job = v.selected
<1> DEFINE w == Answered(v, c)
<1>0. SUFFICES ASSUME NEW x, x = w
               PROVE  /\ Shaped(x, E) /\ Railed(x)
                      /\ \/ Moves(v, x)
                         \/ /\ x.selected = NoJob
                            /\ c.kind = "archive" /\ c.at = "answered" /\ c.job = v.selected
  OBVIOUS
<1>1. c.kind \in CallKinds /\ c.at \in {"failed", "answered"} /\ c.rows \in SUBSET Rows(E)
  BY DEF Requests
<1>2. ASSUME Shaped(x, E), Keeps(v, x) PROVE Shaped(x, E) /\ Railed(x) /\ Moves(v, x)
  BY <1>2, KeepsRailed DEF Keeps, Moves
<1>3. CASE c.at = "failed"
  BY <1>0, <1>3 DEF Answered, Moves
<1>4. CASE c.at = "answered"
  <2>1. CASE c.kind = "list"
    BY <1>0, <1>1, <1>4, <2>1, OnJobsShaped DEF Answered, Moves
  <2>2. ASSUME c.kind # "list"
        PROVE  c.job \in E /\ (CHOOSE r \in c.rows : TRUE) \in Rows(E)
    <3>1. c.job \in E /\ c.rows # {}
      BY <1>1, <1>4, <2>2 DEF Requests, CallKinds
    <3>2. (CHOOSE r \in c.rows : TRUE) \in c.rows
      BY <3>1
    <3> QED
      BY <1>1, <3>1, <3>2
  <2>3. CASE c.kind \in {"job", "summary", "errors"}
    <3> DEFINE r == CHOOSE q \in c.rows : TRUE
    <3>1. r.id \in E /\ r.status \in Statuses
      BY <2>2, <2>3 DEF Rows
    <3>2. /\ c.kind = "job" => x = RenderJob(v, r)
          /\ c.kind = "summary" => x = RenderSummary(v, r)
          /\ c.kind = "errors" => x = RenderErrors(v, r)
      <4>1. x = Answered(v, c) /\ c.at # "failed"
        BY <1>0, <1>4
      <4>2. ASSUME c.kind = "job" PROVE x = RenderJob(v, r)
        BY <4>1, <4>2 DEF Answered
      <4>3. ASSUME c.kind = "summary" PROVE x = RenderSummary(v, r)
        BY <4>1, <4>3 DEF Answered
      <4>4. ASSUME c.kind = "errors" PROVE x = RenderErrors(v, r)
        BY <4>1, <4>4 DEF Answered
      <4> QED
        BY <4>2, <4>3, <4>4
    <3> HIDE DEF r
    <3>3. /\ Shaped(RenderSummary(v, r), E) /\ Keeps(v, RenderSummary(v, r))
          /\ Shaped(RenderJob(v, r), E) /\ Keeps(v, RenderJob(v, r))
          /\ Shaped(RenderErrors(v, r), E) /\ Keeps(v, RenderErrors(v, r))
      BY <3>1, RenderShaped
    <3> QED
      BY <1>2, <2>3, <3>2, <3>3
  <2>4. CASE c.kind \in {"pause", "resume"}
    <3>1. x = ActionDone(v, c.job)
      BY <1>0, <1>4, <2>4 DEF Answered
    <3> QED
      BY <1>2, <2>2, <2>4, <3>1, ActionDoneShaped
  <2>5. CASE c.kind \in {"retry", "retry and resume"}
    <3>1. x = RetryDone(v, c.job)
      BY <1>0, <1>4, <2>5 DEF Answered
    <3> QED
      BY <1>2, <2>2, <2>5, <3>1, RetryDoneShaped
  <2>6. CASE c.kind = "exclude"
    <3>1. x = RefreshSelected(v)
      BY <1>0, <1>4, <2>6 DEF Answered
    <3> QED
      BY <1>2, <3>1, RefreshShaped
  <2>7. CASE c.kind = "unarchive"
    <3>1. x = Poke(v)
      BY <1>0, <1>4, <2>7 DEF Answered
    <3> QED
      BY <1>2, <3>1, PokeShaped
  <2>8. CASE c.kind = "archive"
    <3> DEFINE u == IF c.job = v.selected THEN Deselect(v) ELSE v
    <3>1. x = Poke(u)
      BY <1>0, <1>4, <2>8 DEF Answered, Archived
    <3>2. /\ Shaped(u, E) /\ SameRail(v, u)
          /\ u.selected = v.selected \/ (u.selected = NoJob /\ c.job = v.selected)
      BY DeselectShaped DEF SameRail
    <3> HIDE DEF u
    <3>3. Shaped(x, E) /\ Keeps(u, x)
      BY <3>1, <3>2, PokeShaped
    <3>4. SameRail(v, x) /\ x.selected = u.selected
      BY <3>2, <3>3 DEF Keeps, SameRail
    <3> QED
      BY <1>4, <2>8, <3>2, <3>3, <3>4, KeepsRailed DEF Moves
  <2>9. CASE c.kind = "submit"
    <3> DEFINE u == [v EXCEPT !.pending = c.job]
    <3>1. x = Poke(u)
      BY <1>0, <1>4, <2>9 DEF Answered, JobSubmitted
    <3>2. c.job \in E
      BY <2>2, <2>9
    <3>3. Shaped(u, E) /\ SameRail(v, u) /\ u.selected = v.selected
      BY <3>2 DEF Shaped, Windows, Followed, SameRail
    <3> HIDE DEF u
    <3>4. Shaped(x, E) /\ Keeps(u, x)
      BY <3>1, <3>3, PokeShaped
    <3>5. SameRail(v, x) /\ x.selected = v.selected
      BY <3>3, <3>4 DEF Keeps, SameRail
    <3> QED
      BY <3>4, <3>5, KeepsRailed DEF Moves
  <2> QED
    BY <1>1, <2>1, <2>3, <2>4, <2>5, <2>6, <2>7, <2>8, <2>9 DEF CallKinds
<1> QED
  BY <1>1, <1>3, <1>4

---------------------------------------------------------------------------
(* The inductive invariant *)

ServiceOK == status \in [Jobs -> Statuses \cup {"none"}] /\ archived \subseteq Jobs
SpentOK == spent \in [gestures : Nat, moves : Nat, outages : Nat]
WindowOK == Shaped(win, Known) /\ Railed(win)
Inv == ServiceOK /\ SpentOK /\ WindowOK

\* A window in shape stays so when the service has more jobs.
LEMMA MoreKnown ==
  ASSUME NEW E, NEW F, E \subseteq F, NEW v, Shaped(v, E)
  PROVE  Shaped(v, F)
<1>1. Rows(E) \subseteq Rows(F)
  BY DEF Rows
<1>2. \A K : Requests(K, E) \subseteq Requests(K, F)
  BY <1>1 DEF Requests
<1>3. Tabs(E) \subseteq Tabs(F) /\ Watches(E) \subseteq Watches(F) /\ Signals(E) \subseteq Signals(F)
  BY DEF Tabs, Watches, Signals
<1>4. Windows(E) \subseteq Windows(F)
  <2> SUFFICES ASSUME NEW w \in Windows(E) PROVE w \in Windows(F)
    OBVIOUS
  <2>1. /\ w.jobs \subseteq Rows(F) /\ w.rail \in [up : BOOLEAN, rows : SUBSET Rows(F)]
        /\ w.tabs \in Tabs(F) /\ w.watch \in Watches(F) /\ w.signals \subseteq Signals(F)
        /\ w.poll \in Requests({"poll"}, F) /\ w.calls \subseteq Requests(CallKinds, F)
    BY <1>1, <1>2, <1>3 DEF Windows
  <2> QED
    BY <2>1 DEF Windows
<1> QED
  BY <1>4 DEF Shaped

LEMMA KnownSame == ASSUME UNCHANGED status PROVE Known' = Known
  BY DEF Known

\* A step of the window's that keeps it in shape keeps the invariant.
LEMMA WindowStep ==
  ASSUME Inv, UNCHANGED <<status, archived>>, SpentOK', Shaped(win', Known), Railed(win')
  PROVE  Inv'
<1>1. WindowOK'
  BY KnownSame DEF WindowOK
<1> QED
  BY <1>1 DEF Inv, ServiceOK

LEMMA KnownIsKnown == Known \in SUBSET Jobs
  BY DEF Known

---------------------------------------------------------------------------
(* What the Qt thread does of its own accord *)

LEMMA ArchivedCalls ==
  ASSUME NEW E \in SUBSET Jobs, NEW v, Shaped(v, E), NEW j
  PROVE  Archived(v, j).calls = v.calls \cup {Request("list", NoJob)}
<1> DEFINE gone == [v EXCEPT !.selected = NoJob, !.selStatus = "none",
                             !.tabs.progress = {}, !.tabs.errors = NoJob]
           quiet == {[s EXCEPT !.live = FALSE] : s \in gone.signals}
           u == IF j = v.selected THEN Deselect(v) ELSE v
<1>1. Archived(v, j) = [u EXCEPT !.calls = @ \cup {Request("list", NoJob)}]
  BY DEF Archived, Poke, Ask
<1>2. Deselect(v) = [gone EXCEPT !.watch = NoWatch, !.astray = FALSE, !.signals = quiet]
  BY DEF Deselect, StopWatch
<1>3. Shaped(Deselect(v), E)
  BY DeselectShaped
<1> HIDE DEF quiet
<1>4. Deselect(v).calls = v.calls
  BY <1>2 DEF Shaped, Windows
<1>5. u \in Windows(E) /\ u.calls = v.calls
  BY <1>3, <1>4 DEF Shaped
<1> HIDE DEF u
<1> QED
  BY <1>1, <1>5 DEF Windows

LEMMA DeliverStep ==
  ASSUME Inv, Deliver
  PROVE  /\ Inv'
         /\ \/ Moves(win, win')
            \/ /\ win'.selected = NoJob
               /\ \E c \in win.calls \ win'.calls :
                    c.kind = "archive" /\ c.at = "answered" /\ c.job = win.selected
<1> PICK c \in win.calls : /\ c.at # "asked"
                           /\ win' = Answered([win EXCEPT !.calls = @ \ {c}], c)
                           /\ UNCHANGED <<status, archived, up, spent>>
  BY DEF Deliver
<1> DEFINE v == [win EXCEPT !.calls = @ \ {c}]
<1>1. Shaped(win, Known) /\ Railed(win) /\ SpentOK'
  BY DEF Inv, WindowOK, SpentOK
<1>2. c \in Requests(CallKinds, Known)
  BY <1>1 DEF Shaped, Windows
<1>3. Shaped(v, Known) /\ Keeps(win, v) /\ v.calls = win.calls \ {c}
  BY <1>1 DEF Shaped, Windows, Followed, Keeps, SameRail
<1>4. win' = Answered(v, c)
  OBVIOUS
<1> HIDE DEF v
<1>5. Railed(v)
  BY <1>1, <1>3, KeepsRailed DEF Keeps
<1>6. /\ Shaped(Answered(v, c), Known) /\ Railed(Answered(v, c))
      /\ \/ Moves(v, Answered(v, c))
         \/ /\ Answered(v, c).selected = NoJob
            /\ c.kind = "archive" /\ c.at = "answered" /\ c.job = v.selected
  BY <1>2, <1>3, <1>5, KnownIsKnown, AnsweredShaped
<1>7. Inv'
  BY <1>1, <1>4, <1>6, WindowStep
<1>8. CASE Moves(v, win')
  BY <1>3, <1>7, <1>8 DEF Moves, Keeps
<1>9. CASE win'.selected = NoJob /\ c.kind = "archive" /\ c.at = "answered" /\ c.job = v.selected
  <2>1. Answered(v, c) = Archived(v, c.job)
    BY <1>9 DEF Answered
  <2>2. win'.calls = (win.calls \ {c}) \cup {Request("list", NoJob)}
    BY <1>3, <1>4, <2>1, KnownIsKnown, ArchivedCalls
  <2>3. c # Request("list", NoJob)
    BY <1>9 DEF Request
  <2>4. c \in win.calls \ win'.calls
    BY <2>2, <2>3
  <2>5. v.selected = win.selected
    BY <1>3 DEF Keeps
  <2> QED
    BY <1>7, <1>9, <2>4, <2>5
<1> QED
  BY <1>4, <1>6, <1>8, <1>9

LEMMA PollStep == ASSUME Inv, PollAnswered PROVE Inv' /\ Moves(win, win')
<1> DEFINE w == IF win.poll.at = "failed" THEN OnDown(win) ELSE OnJobs(win, win.poll.rows)
<1>1. Shaped(win, Known) /\ Railed(win) /\ SpentOK'
  BY DEF Inv, WindowOK, SpentOK, PollAnswered
<1>2. win.poll.rows \in SUBSET Rows(Known)
  BY <1>1 DEF Shaped, Windows, Requests
<1>3. Shaped(w, Known) /\ Railed(w) /\ Moves(win, w)
  BY <1>1, <1>2, KnownIsKnown, OnDownShaped, OnJobsShaped DEF Moves
<1>4. win' = [w EXCEPT !.poll = Request("poll", NoJob)]
  BY DEF PollAnswered
<1> HIDE DEF w
<1>5. Request("poll", NoJob) \in Requests({"poll"}, Known)
  BY KnownIsKnown, NewRequest
<1>6. Shaped(win', Known) /\ Keeps(w, win')
  BY <1>3, <1>4, <1>5 DEF Shaped, Windows, Followed, Keeps, SameRail
<1>7. Railed(win')
  BY <1>3, <1>6, KeepsRailed DEF Keeps
<1> QED
  BY <1>1, <1>3, <1>6, <1>7, WindowStep DEF PollAnswered, Moves, Keeps

\* A signal is posted only while none is under way.
LEMMA PostedShaped ==
  ASSUME NEW E \in SUBSET Jobs, NEW v, Shaped(v, E), ~v.watch.posted, NEW s \in Signals(E),
         s.live, s.job = v.watch.job, NEW last \in Statuses \cup {"none", "ended"}
  PROVE  LET w == [v EXCEPT !.signals = @ \cup {s}, !.watch.posted = TRUE, !.watch.last = last] IN
         Shaped(w, E) /\ Keeps(v, w)
<1> DEFINE w == [v EXCEPT !.signals = @ \cup {s}, !.watch.posted = TRUE, !.watch.last = last]
<1>1. \A t \in v.signals : ~t.live
  BY DEF Shaped, Followed
<1>2. w \in Windows(E) /\ Keeps(v, w)
  BY DEF Shaped, Windows, Watches, Keeps, SameRail
<1>3. /\ w.signals = v.signals \cup {s} /\ w.watch.posted = TRUE
      /\ w.watch.job = v.watch.job /\ w.astray = v.astray /\ w.selected = v.selected
  BY DEF Shaped, Windows, Watches
<1> HIDE DEF w
<1>4. Followed(w)
  BY <1>1, <1>3 DEF Followed, Shaped
<1> QED
  BY <1>2, <1>4 DEF Shaped, w

LEMMA TickStep == ASSUME Inv, Tick \/ WatchEnds PROVE Inv' /\ Moves(win, win')
<1>1. /\ Shaped(win, Known) /\ Railed(win) /\ SpentOK' /\ UNCHANGED <<status, archived>>
      /\ win.watch.job \in Known /\ win.watch.last \in Statuses \cup {"none", "ended"}
  BY DEF Inv, WindowOK, SpentOK, Tick, WatchEnds, Shaped, Windows, Watches
<1>2. status[win.watch.job] \in Statuses
  BY <1>1 DEF Known, Inv, ServiceOK
<1>3. CASE Tick
  <2> DEFINE s == [job |-> win.watch.job, kind |-> "snapshot", status |-> status[win.watch.job], live |-> TRUE]
             last == status[win.watch.job]
  <2>1. s \in Signals(Known) /\ s.live /\ s.job = win.watch.job
    BY <1>1, <1>2 DEF Signals
  <2>2. win' = [win EXCEPT !.signals = @ \cup {s}, !.watch.posted = TRUE, !.watch.last = last]
    BY <1>3 DEF Tick, Posted
  <2>3. ~win.watch.posted /\ last \in Statuses \cup {"none", "ended"}
    BY <1>2, <1>3 DEF Tick
  <2> HIDE DEF s, last
  <2>4. Shaped(win', Known) /\ Keeps(win, win')
    BY <1>1, <2>1, <2>2, <2>3, KnownIsKnown, PostedShaped
  <2> QED
    BY <1>1, <2>4, KeepsRailed, WindowStep DEF Keeps, Moves
<1>4. CASE WatchEnds
  <2> DEFINE s == [job |-> win.watch.job, kind |-> "settled", status |-> win.watch.last, live |-> TRUE]
  <2>1. s \in Signals(Known) /\ s.live /\ s.job = win.watch.job
    BY <1>1, <1>4, StatusesAre DEF Signals, WatchEnds
  <2>2. win' = [win EXCEPT !.signals = @ \cup {s}, !.watch.posted = TRUE, !.watch.last = "ended"]
    BY <1>4 DEF WatchEnds
  <2>3. ~win.watch.posted
    BY <1>4 DEF WatchEnds
  <2> HIDE DEF s
  <2>4. Shaped(win', Known) /\ Keeps(win, win')
    BY <1>1, <2>1, <2>2, <2>3, KnownIsKnown, PostedShaped
  <2> QED
    BY <1>1, <2>4, KeepsRailed, WindowStep DEF Keeps, Moves
<1> QED
  BY <1>3, <1>4

LEMMA SnapshotShaped ==
  ASSUME NEW E \in SUBSET Jobs, NEW v, Shaped(v, E), NEW s \in Signals(E)
  PROVE  Shaped(OnSnapshot(v, s), E) /\ Keeps(v, OnSnapshot(v, s))
<1> DEFINE u == [v EXCEPT !.tabs.progress = @ \cup {s.job}]
           R == {Request("errors", v.selected), Request("summary", v.selected)}
<1>1. Shaped(u, E) /\ Keeps(v, u)
  BY DEF Shaped, Windows, Tabs, Signals, Followed, Keeps, SameRail
<1>2. OnSnapshot(v, s) = IF v.selected = NoJob THEN u ELSE Ask(u, R)
  BY DEF OnSnapshot
<1>3. v.selected # NoJob => R \in SUBSET Requests(CallKinds, E)
  <2>1. v.selected # NoJob => v.selected \in E
    BY DEF Shaped, Windows
  <2> QED
    BY <2>1, NewRequest DEF CallKinds
<1> HIDE DEF u, R
<1>4. CASE v.selected = NoJob
  BY <1>1, <1>2, <1>4
<1>5. CASE v.selected # NoJob
  <2>1. Shaped(Ask(u, R), E) /\ Keeps(u, Ask(u, R))
    BY <1>1, <1>3, <1>5, AskShaped
  <2> QED
    BY <1>1, <1>2, <1>5, <2>1 DEF Keeps, SameRail
<1> QED
  BY <1>4, <1>5

LEMMA SettledShaped ==
  ASSUME NEW E \in SUBSET Jobs, NEW v, Shaped(v, E), NEW s \in Signals(E)
  PROVE  Shaped(OnSettled(v, s), E) /\ Keeps(v, OnSettled(v, s))
<1> DEFINE r == [id |-> s.job, status |-> s.status]
           u == RenderJob(v, r)
<1>1. r.id \in E /\ r.status \in Statuses
  BY DEF Signals
<1> HIDE DEF r
<1>2. Shaped(u, E) /\ Keeps(v, u)
  BY <1>1, RenderShaped
<1>3. OnSettled(v, s) = Poke(u)
  BY DEF OnSettled, r
<1> HIDE DEF u
<1> QED
  BY <1>2, <1>3, PokeShaped DEF Keeps, SameRail

LEMMA SignalStep == ASSUME Inv, Signal PROVE Inv' /\ Moves(win, win')
<1> PICK s \in win.signals :
      LET v == [win EXCEPT !.signals = @ \ {s}, !.watch.posted = @ /\ ~s.live]
      IN win' = IF s.kind = "snapshot" THEN OnSnapshot(v, s) ELSE OnSettled(v, s)
  BY DEF Signal
<1> DEFINE v == [win EXCEPT !.signals = @ \ {s}, !.watch.posted = @ /\ ~s.live]
<1>1. Shaped(win, Known) /\ Railed(win) /\ SpentOK' /\ UNCHANGED <<status, archived>>
  BY DEF Inv, WindowOK, SpentOK, Signal
<1>2. s \in Signals(Known)
  BY <1>1 DEF Shaped, Windows
<1>3. win' = OnSnapshot(v, s) \/ win' = OnSettled(v, s)
  OBVIOUS
<1>4. v \in Windows(Known) /\ Keeps(win, v)
  BY <1>1, <1>2 DEF Shaped, Windows, Watches, Signals, Keeps, SameRail
<1>5. /\ v.signals = win.signals \ {s} /\ v.watch.posted = (win.watch.posted /\ ~s.live)
      /\ v.watch.job = win.watch.job /\ v.astray = win.astray /\ v.selected = win.selected
  BY <1>1 DEF Shaped, Windows, Watches
<1> HIDE DEF v
<1>6. Shaped(v, Known)
  BY <1>1, <1>4, <1>5 DEF Shaped, Followed
<1>7. Shaped(win', Known) /\ Keeps(v, win')
  BY <1>2, <1>3, <1>6, KnownIsKnown, SnapshotShaped, SettledShaped
<1>8. Keeps(win, win')
  BY <1>4, <1>7 DEF Keeps, SameRail
<1> QED
  BY <1>1, <1>7, <1>8, KeepsRailed, WindowStep DEF Keeps, Moves

---------------------------------------------------------------------------
(* The user's gestures *)

LEMMA GestureCounts ==
  ASSUME Inv, Gesture
  PROVE  SpentOK' /\ spent'.gestures # spent.gestures /\ UNCHANGED <<status, archived>>
<1>1. spent.gestures \in Nat
  BY DEF Inv, SpentOK
<1> QED
  BY <1>1 DEF Inv, SpentOK, Gesture

LEMMA AskStep ==
  ASSUME Inv, Gesture, NEW R \in SUBSET Requests(CallKinds, Known), win' = Ask(win, R)
  PROVE  Inv'
<1>1. Shaped(win, Known) /\ Railed(win)
  BY DEF Inv, WindowOK
<1>2. Shaped(win', Known) /\ Keeps(win, win')
  BY <1>1, KnownIsKnown, AskShaped
<1> QED
  BY <1>1, <1>2, KeepsRailed, GestureCounts, WindowStep DEF Keeps

LEMMA UserStep == ASSUME Inv, User PROVE Inv' /\ spent'.gestures # spent.gestures
<1>1. Gesture
  BY DEF User, Click, Pause, Resume, Retry, Exclude, Archive, ShowArchived, Filter, Submit
<1>2. SpentOK' /\ spent'.gestures # spent.gestures /\ UNCHANGED <<status, archived>>
  BY <1>1, GestureCounts
<1>3. Shaped(win, Known) /\ Railed(win) /\ win \in Windows(Known)
  BY DEF Inv, WindowOK, Shaped
<1>4. ASSUME Shaped(win', Known), SameRail(win, win') PROVE Inv'
  BY <1>2, <1>3, <1>4, KeepsRailed, WindowStep
<1>5. CASE Click
  <2> PICK r \in win.rail.rows : win' = SelectJob(win, r.id, r.status)
    BY <1>5 DEF Click
  <2>1. r \in Rows(Known)
    BY <1>3 DEF Windows
  <2>2. r.id \in Known /\ r.status \in Statuses \cup {"none"}
    BY <2>1 DEF Rows
  <2>3. Shaped(win', Known) /\ SameRail(win, win')
    BY <1>3, <2>2, KnownIsKnown, SelectShaped
  <2> QED
    BY <1>2, <1>4, <2>3
<1>6. CASE Pause \/ Resume \/ Retry \/ Exclude
  <2>1. PICK kind \in {"pause", "resume", "retry", "retry and resume", "exclude"} :
          win' = Ask(win, {Request(kind, win.selected)})
    BY <1>6 DEF Pause, Resume, Retry, Exclude
  <2>2. win.selected \in Known
    BY <1>3, <1>6 DEF Windows, Pause, Resume, Retry, Exclude
  <2>3. kind \in CallKinds /\ kind \notin {"list", "poll", "submit"}
    BY DEF CallKinds
  <2>4. Request(kind, win.selected) \in Requests(CallKinds, Known)
    BY <2>2, <2>3, KnownIsKnown, NewRequest
  <2>5. {Request(kind, win.selected)} \in SUBSET Requests(CallKinds, Known)
    BY <2>4
  <2> QED
    BY <1>1, <1>2, <2>1, <2>5, AskStep
<1>7. CASE Archive
  <2> PICK r \in win.rail.rows : win' = Ask(win, {Request(IF r.archived THEN "unarchive" ELSE "archive", r.id)})
    BY <1>7 DEF Archive
  <2>1. r \in Rows(Known)
    BY <1>3 DEF Windows
  <2>2. r.id \in Known
    BY <2>1 DEF Rows
  <2>3. {Request(IF r.archived THEN "unarchive" ELSE "archive", r.id)} \in SUBSET Requests(CallKinds, Known)
    BY <2>2, KnownIsKnown, NewRequest DEF CallKinds
  <2> QED
    BY <1>1, <1>2, <2>3, AskStep
<1>8. CASE ShowArchived
  <2> DEFINE v == [win EXCEPT !.showArchived = ~@]
  <2>1. Shaped(v, Known) /\ SameRail(win, v)
    BY <1>3 DEF Shaped, Windows, Followed, SameRail
  <2>2. win' = Poke(Deselect(v)) \/ win' = Poke(v)
    BY <1>8 DEF ShowArchived
  <2> HIDE DEF v
  <2>3. Shaped(Deselect(v), Known) /\ SameRail(v, Deselect(v))
    BY <2>1, KnownIsKnown, DeselectShaped
  <2>4. Shaped(win', Known) /\ (Keeps(v, win') \/ Keeps(Deselect(v), win'))
    BY <2>1, <2>2, <2>3, KnownIsKnown, PokeShaped
  <2>5. SameRail(win, win')
    BY <2>1, <2>3, <2>4 DEF Keeps, SameRail
  <2> QED
    BY <1>2, <1>4, <2>4, <2>5
<1>9. CASE Filter
  <2> DEFINE v == [win EXCEPT !.filtering = ~@]
  <2>1. Shaped(v, Known) /\ SameRail(win, v)
    BY <1>3 DEF Shaped, Windows, Followed, SameRail
  <2>2. win' = SyncRail(Deselect(v), win.jobs, win.up) \/ win' = SyncRail(v, win.jobs, win.up)
    BY <1>9 DEF Filter
  <2> HIDE DEF v
  <2>3. Shaped(Deselect(v), Known) /\ SameRail(v, Deselect(v))
    BY <2>1, KnownIsKnown, DeselectShaped
  <2>4. \E u : Shaped(u, Known) /\ win' = SyncRail(u, u.jobs, u.up)
    BY <2>1, <2>2, <2>3 DEF SameRail
  <2>5. Shaped(win', Known) /\ Railed(win')
    BY <2>4, KnownIsKnown, SyncShaped
  <2> QED
    BY <1>2, <2>5, WindowStep
<1>10. CASE Submit
  <2> PICK j \in Jobs : win' = Ask(win, {Request("submit", j)})
    BY <1>10 DEF Submit
  <2>1. {Request("submit", j)} \in SUBSET Requests(CallKinds, Known)
    BY KnownIsKnown, NewRequest DEF CallKinds
  <2> QED
    BY <1>1, <1>2, <2>1, AskStep
<1> QED
  BY <1>5, <1>6, <1>7, <1>8, <1>9, <1>10 DEF User

---------------------------------------------------------------------------
(* The service *)

\* A request that is served takes its answer along.
LEMMA ReplyShaped ==
  ASSUME Inv, NEW F \in SUBSET Jobs, Known \subseteq F,
         NEW c, c \in win.calls \/ c = win.poll,
         NEW at \in {"answered", "failed"}, NEW R \in SUBSET Rows(F), Reply(c, at, R),
         c.kind \notin {"list", "poll"} /\ at = "answered" => c.job \in F /\ R # {}
  PROVE  Shaped(win', F) /\ Keeps(win, win')
<1> DEFINE K == IF c.kind = "poll" THEN {"poll"} ELSE CallKinds
           d == [c EXCEPT !.at = at, !.rows = R]
<1>1. Shaped(win, F)
  BY MoreKnown DEF Inv, WindowOK
<1>2. win.calls \subseteq Requests(CallKinds, F) /\ win.poll \in Requests({"poll"}, F)
  BY <1>1 DEF Shaped, Windows
<1>3. c \in Requests(K, F)
  <2>1. CASE c \in win.calls
    <3>1. c.kind \in CallKinds /\ "poll" \notin CallKinds
      BY <1>2, <2>1 DEF Requests, CallKinds
    <3> QED
      BY <1>2, <2>1, <3>1
  <2>2. CASE c = win.poll
    <3>1. c.kind = "poll"
      BY <1>2, <2>2 DEF Requests
    <3> QED
      BY <1>2, <2>2, <3>1
  <2> QED
    BY <2>1, <2>2
<1>4. d \in Requests(K, F)
  <2> HIDE DEF K
  <2> QED
    BY <1>3 DEF Requests
<1>5. win' = IF c.kind = "poll" THEN [win EXCEPT !.poll = d]
             ELSE [win EXCEPT !.calls = (@ \ {c}) \cup {d}]
  BY DEF Reply
<1> HIDE DEF d
<1>6. CASE c.kind = "poll"
  BY <1>1, <1>4, <1>5, <1>6 DEF Shaped, Windows, Followed, Keeps, SameRail
<1>7. CASE c.kind # "poll"
  <2>1. (win.calls \ {c}) \cup {d} \in SUBSET Requests(CallKinds, F)
    BY <1>2, <1>4, <1>7
  <2> QED
    BY <1>1, <1>5, <1>7, <2>1 DEF Shaped, Windows, Followed, Keeps, SameRail
<1> QED
  BY <1>6, <1>7

LEMMA RowTyped == ASSUME Inv, NEW j \in Known PROVE Row(j) \in Rows(Known)
  BY DEF Inv, ServiceOK, Known, Row, Rows

LEMMA ServeStep ==
  ASSUME Inv, NEW c, c \in win.calls \/ c = win.poll, Serve(c)
  PROVE  Inv' /\ Keeps(win, win')
<1>1. /\ Shaped(win, Known) /\ Railed(win) /\ SpentOK' /\ ServiceOK
      /\ \E K : c \in Requests(K, Known)
  BY DEF Inv, WindowOK, SpentOK, Serve, Shaped, Windows
<1>2. /\ c.kind \notin {"list", "poll"} => c.job \in Jobs
      /\ c.kind \notin {"list", "poll", "submit"} => c.job \in Known
  BY <1>1 DEF Requests
<1>3. ASSUME Shaped(win', Known), Keeps(win, win'), UNCHANGED <<status, archived>>
      PROVE  Inv' /\ Keeps(win, win')
  BY <1>1, <1>3, KeepsRailed, WindowStep DEF Keeps
<1>4. CASE Reply(c, "failed", {}) /\ UNCHANGED <<status, archived>>
  BY <1>3, <1>4, KnownIsKnown, ReplyShaped
<1>5. CASE Reads(c)
  <2> DEFINE R == IF c.kind \in {"list", "poll"} THEN Lists(win) ELSE {Row(c.job)}
  <2>1. R \in SUBSET Rows(Known)
    BY <1>2, <1>5, RowTyped DEF Lists, Known, Reads
  <2>2. Reply(c, "answered", R) /\ UNCHANGED <<status, archived>>
    BY <1>5 DEF Reads
  <2>3. c.kind \notin {"list", "poll"} => c.job \in Known /\ R # {}
    BY <1>2, <1>5 DEF Reads
  <2> HIDE DEF R
  <2> QED
    BY <1>3, <2>1, <2>2, <2>3, KnownIsKnown, ReplyShaped
<1>6. CASE Retries(c)
  <2>1. CASE Reply(c, "failed", {})
    BY <1>4, <1>6, <2>1 DEF Retries
  <2>2. CASE Reply(c, "answered", {Row(c.job)})
    <3>1. {Row(c.job)} \in SUBSET Rows(Known) /\ {Row(c.job)} # {} /\ c.job \in Known
      BY <1>2, <1>6, RowTyped DEF Retries
    <3> QED
      BY <1>3, <1>6, <2>2, <3>1, KnownIsKnown, ReplyShaped DEF Retries
  <2> QED
    BY <1>6, <2>1, <2>2 DEF Retries
<1>7. CASE Archives(c)
  <2>1. CASE Reply(c, "failed", {}) /\ UNCHANGED archived
    BY <1>4, <1>7, <2>1 DEF Archives
  <2>2. CASE /\ Reply(c, "answered", {Row(c.job)})
             /\ archived' = IF c.kind = "archive" THEN archived \cup {c.job} ELSE archived \ {c.job}
    <3>1. {Row(c.job)} \in SUBSET Rows(Known) /\ {Row(c.job)} # {} /\ c.job \in Known
      BY <1>2, <1>7, RowTyped DEF Archives
    <3>2. Shaped(win', Known) /\ Keeps(win, win') /\ UNCHANGED status
      BY <1>7, <2>2, <3>1, KnownIsKnown, ReplyShaped DEF Archives
    <3>3. WindowOK'
      BY <1>1, <3>2, KnownSame, KeepsRailed DEF WindowOK, Keeps
    <3>4. ServiceOK'
      BY <1>1, <2>2, <3>1, <3>2, KnownIsKnown DEF ServiceOK
    <3> QED
      BY <1>1, <3>2, <3>3, <3>4 DEF Inv
  <2> QED
    BY <1>7, <2>1, <2>2 DEF Archives
<1>8. CASE Acts(c)
  <2>1. CASE Reply(c, "failed", {}) /\ UNCHANGED status
    BY <1>4, <1>8, <2>1 DEF Acts
  <2>2. CASE \E to \in {"running", "paused", "pending"} :
               /\ status' = [status EXCEPT ![c.job] = to]
               /\ Reply(c, "answered", {[Row(c.job) EXCEPT !.status = to]})
    <3> PICK to \in {"running", "paused", "pending"} :
          /\ status' = [status EXCEPT ![c.job] = to]
          /\ Reply(c, "answered", {[Row(c.job) EXCEPT !.status = to]})
      BY <2>2
    <3>1. c.job \in Jobs /\ UNCHANGED archived
      BY <1>2, <1>8 DEF Acts
    <3>2. ServiceOK' /\ Known' = Known \cup {c.job}
      BY <1>1, <3>1, StatusesAre DEF ServiceOK, Known
    <3>3. [Row(c.job) EXCEPT !.status = to] \in Rows(Known \cup {c.job})
      <4>1. [Row(c.job) EXCEPT !.status = to] = [id |-> c.job, status |-> to, archived |-> c.job \in archived]
        BY DEF Row
      <4>2. to \in Statuses /\ (c.job \in archived) \in BOOLEAN
        BY StatusesAre
      <4> QED
        BY <4>1, <4>2 DEF Rows
    <3>4. Shaped(win', Known \cup {c.job}) /\ Keeps(win, win')
      <4> DEFINE R == {[Row(c.job) EXCEPT !.status = to]}
      <4>1. R \in SUBSET Rows(Known \cup {c.job}) /\ R # {} /\ Reply(c, "answered", R)
        BY <3>3
      <4>2. Known \cup {c.job} \in SUBSET Jobs /\ Known \subseteq Known \cup {c.job}
        BY <3>1, KnownIsKnown
      <4> HIDE DEF R
      <4> QED
        BY <4>1, <4>2, ReplyShaped
    <3>5. Railed(win')
      BY <1>1, <3>4, KeepsRailed DEF Keeps
    <3> QED
      BY <1>1, <3>2, <3>4, <3>5 DEF Inv, WindowOK
  <2> QED
    BY <1>8, <2>1, <2>2 DEF Acts
<1> QED
  BY <1>4, <1>5, <1>6, <1>7, <1>8 DEF Serve

\* The worker moves a job on, and forgets none.
LEMMA MoveStep == ASSUME Inv, Move PROVE Inv' /\ win' = win
<1> PICK j \in Jobs, s \in Statuses : status' = [status EXCEPT ![j] = s] /\ status[j] \in {"pending", "running"}
  BY DEF Move
<1>1. ServiceOK' /\ Known' = Known
  BY StatusesAre DEF Inv, ServiceOK, Known, Move
<1>2. spent.moves \in Nat
  BY DEF Inv, SpentOK
<1> QED
  BY <1>1, <1>2 DEF Inv, SpentOK, WindowOK, Move

LEMMA OutageStep == ASSUME Inv, GoDown \/ ComeUp PROVE Inv' /\ win' = win
<1>1. spent.outages \in Nat
  BY DEF Inv, SpentOK
<1> QED
  BY <1>1, KnownSame DEF Inv, ServiceOK, SpentOK, WindowOK, GoDown, ComeUp

---------------------------------------------------------------------------
(* The theorems *)

LEMMA InitHolds == Init => Inv
<1> SUFFICES ASSUME Init PROVE Inv
  OBVIOUS
<1>1. ServiceOK
  BY StatusesAre DEF Init, ServiceOK
<1>2. SpentOK
  BY DEF Init, SpentOK
<1>3. EmptyTabs \in Tabs(Known) /\ NoWatch \in Watches(Known)
  BY DEF EmptyTabs, Tabs, NoWatch, Watches
<1>4. Request("poll", NoJob) \in Requests({"poll"}, Known)
  BY KnownIsKnown, NewRequest
<1>5. NewWindow \in Windows(Known)
  BY <1>3, <1>4 DEF NewWindow, Windows
<1>6. Followed(NewWindow) /\ Railed(NewWindow)
  BY DEF NewWindow, NoWatch, Followed, Railed
<1> QED
  BY <1>1, <1>2, <1>5, <1>6 DEF Init, Inv, WindowOK, Shaped

LEMMA StepHolds ==
  ASSUME Inv, [Next]_vars
  PROVE  /\ Inv'
         /\ \/ spent'.gestures # spent.gestures
            \/ Moves(win, win')
            \/ /\ win'.selected = NoJob
               /\ \E c \in win.calls \ win'.calls :
                    c.kind = "archive" /\ c.at = "answered" /\ c.job = win.selected
<1>1. CASE vars' = vars
  <2>1. UNCHANGED <<status, archived, win, spent>>
    BY <1>1 DEF vars
  <2> QED
    BY <2>1, KnownSame DEF Inv, ServiceOK, SpentOK, WindowOK, Moves
<1>2. CASE User
  BY <1>2, UserStep
<1>3. CASE Window
  BY <1>3, DeliverStep, PollStep, SignalStep, TickStep DEF Window
<1>4. CASE Service
  <2>1. CASE ServeCall \/ ServePoll
    <3>1. PICK c : (c \in win.calls \/ c = win.poll) /\ Serve(c)
      BY <2>1 DEF ServeCall, ServePoll
    <3> QED
      BY <3>1, ServeStep DEF Keeps, Moves
  <2> QED
    BY <1>4, <2>1, MoveStep, OutageStep DEF Service, Moves
<1> QED
  BY <1>1, <1>2, <1>3, <1>4 DEF Next

LEMMA Invariant == Spec => []Inv
  BY InitHolds, StepHolds, PTL DEF Spec

\* Every window keeps the shape the slots rely on: the selection and the rail
\* are of jobs the service has, and a signal that is under way is of the watch
\* in place (main_window.py, workers.py).
THEOREM TypeCorrect == Spec => []TypeOK
<1>1. Inv => TypeOK
  <2> SUFFICES ASSUME Inv PROVE TypeOK
    OBVIOUS
  <2>1. ServiceOK /\ win \in Windows(Known) /\ Followed(win) /\ Railed(win)
    BY DEF Inv, WindowOK, Shaped
  <2>2. /\ win.selected \in Known \cup {NoJob} /\ win.selStatus \in Statuses \cup {"none"}
        /\ win.pending \in Known \cup {NoJob} /\ win.jobs \in SUBSET Rows(Known)
    BY <2>1 DEF Windows
  <2>3. Ids(win.jobs) \subseteq Known
    BY <2>2, IdsTyped
  <2>4. Ids(win.rail.rows) \subseteq Ids(win.jobs)
    BY <2>1 DEF Railed, Ids
  <2>5. \A j \in Jobs : status[j] = "none" => win.selected # j
    BY <2>2 DEF Known
  <2> QED
    BY <2>1, <2>2, <2>3, <2>4, <2>5, KnownIsKnown DEF TypeOK, ServiceOK, Followed
<1> QED
  BY <1>1, Invariant, PTL

\* The selected job is the one followed, whatever is answered late and in
\* whatever order, but after a retry answered once its job had been left
\* (main_window.py, _retry_done).
THEOREM SelectionIsFollowed == Spec => []WatchIsTheSelections
<1>1. Inv => WatchIsTheSelections
  BY DEF Inv, WindowOK, Shaped, Followed, WatchIsTheSelections
<1> QED
  BY <1>1, Invariant, PTL

\* At no time does the rail say another thing of the service than the banner and
\* the buttons (main_window.py, _on_jobs and _on_down; jobs_model.py, sync_rail).
THEOREM RailAgrees == Spec => []RailSaysWhetherUp
<1>1. Inv => RailSaysWhetherUp
  BY DEF Inv, WindowOK, Railed, RailSaysWhetherUp
<1> QED
  BY <1>1, Invariant, PTL

\* No list, answer or signal moves the selection, but to the job the user has
\* submitted, or away from the one whose archiving is answered
\* (main_window.py, _sync_rail_preserving_expansion and _archived).
THEOREM SelectionMovesByTheUser == Spec => SelectionIsTheUsers
<1>1. Inv /\ [Next]_vars =>
        [spent'.gestures = spent.gestures /\ win'.selected # win.selected
           => \/ win'.selected = win.pending /\ win.pending # NoJob
              \/ /\ win'.selected = NoJob
                 /\ \E c \in win.calls \ win'.calls :
                      c.kind = "archive" /\ c.at = "answered" /\ c.job = win.selected]_vars
  BY StepHolds DEF Moves
<1> QED
  BY <1>1, Invariant, PTL DEF Spec, SelectionIsTheUsers
=============================================================================
