---------------------------- MODULE FileTable ----------------------------
(***************************************************************************)
(* The desktop's table of a job's files: the model that fetches them page  *)
(* by page as the user scrolls (gui/files_model.py), the tab that fetches  *)
(* them anew when the progress of the job says that they changed, though   *)
(* not while the user reads on below the top and not too often             *)
(* (gui/job_tabs.py, FilesTab), and the job whose files appear and change  *)
(* between the pages.                                                      *)
(***************************************************************************)
EXTENDS Naturals, Sequences, SequencesExt, FiniteSets

CONSTANTS
  PageSize,   \* PAGE
  Filters,    \* the filters users choose, of States and All
  MaxFiles, MaxRetries, MaxFailures, MaxGestures, MaxInbox   \* bounds

VARIABLES
  files,   \* the states of the job's files, by id
  job,     \* [at, told]: whether it runs, whether its last progress is sent
  inbox,   \* the progress under way to the tab, what it compares of each
  table,   \* FileTableModel
  tab,     \* FilesTab, with where the scroll bar is and whether the throttle has run out
  used     \* what was used of the bounds

vars == <<files, job, inbox, table, tab, used>>

\* A file under way counts as pending, one given up as failed.
States == {"pending", "verified", "failed"}
All == "all"

\* files_done and state_counts of the job's progress.
Progress == [s \in States |-> Cardinality({i \in DOMAIN files : files[i] = s})]
NoProgress == [s \in States |-> MaxFiles + 1]

TypeOK ==
  /\ files \in BoundedSeq(States, MaxFiles)
  /\ job \in [at: {"running", "settled"}, told: BOOLEAN] /\ Len(inbox) <= MaxInbox
  /\ table.filter \in States \cup {All}
  /\ \A i \in DOMAIN table.rows : table.rows[i].id \in 1..MaxFiles /\ table.rows[i].state \in States
  /\ ~table.exhausted => \E pages \in 1..Len(table.rows) : Len(table.rows) = pages * PageSize
  /\ table.error => table.exhausted
  /\ {tab.pending, tab.atTop, tab.cooled} \subseteq BOOLEAN

---------------------------------------------------------------------------
(* FileTableModel *)

\* get_files_page: ORDER BY id LIMIT PAGE OFFSET offset. Nth is the n-th id of a set.
Matching(filter) == {i \in DOMAIN files : filter \in {All, files[i]}}
UpTo(S, i) == {j \in S : j <= i}
Nth(S, n) == CHOOSE i \in S : Cardinality(UpTo(S, i)) = n
GetPage(filter, offset) ==
  LET found == Matching(filter)
      row(i) == [id |-> i, state |-> files[i]]
  IN [n \in {n \in 1..PageSize : offset + n <= Cardinality(found)} |-> row(Nth(found, offset + n))]

Exhausted(page) == Len(page) < PageSize

Offset(t) == Len(t.rows)

\* fetchMore: a page, or an answer that is none.
FetchMore(t) ==
  \/ LET page == GetPage(t.filter, Offset(t))
     IN /\ table' = [t EXCEPT !.rows = @ \o page, !.exhausted = Exhausted(page)]
        /\ UNCHANGED used
  \/ /\ used.failures < MaxFailures
     /\ used' = [used EXCEPT !.failures = @ + 1]
     /\ table' = [t EXCEPT !.exhausted = TRUE, !.error = TRUE]

Blank(filter) == [rows |-> <<>>, exhausted |-> FALSE, error |-> FALSE, filter |-> filter]
SetFilter(filter) == FetchMore(Blank(filter))

---------------------------------------------------------------------------
(* FilesTab *)

\* refresh, with what the caller did to the tab before; the scroll bar goes to the top.
Refresh(before, filter) ==
  SetFilter(filter) /\ tab' = [before EXCEPT !.pending = FALSE, !.atTop = TRUE]
AutoRefresh(before) == Refresh([before EXCEPT !.cooled = FALSE], table.filter)

NewTab == [sig |-> NoProgress, pending |-> FALSE, atTop |-> TRUE, cooled |-> TRUE]

Pends(sig) == tab.pending \/ sig # tab.sig
Flushes(sig) == Pends(sig) /\ tab.atTop /\ tab.cooled
Forgotten(sig) == FALSE
Deferred(sig) == Pends(sig)

\* maybe_auto_refresh, of a tick's progress or of the settled job's.
MaybeAutoRefresh ==
  /\ inbox # <<>> /\ inbox' = Tail(inbox)
  /\ LET sig == Head(inbox)
         seen == [tab EXCEPT !.sig = sig]
     IN \/ Flushes(sig) /\ AutoRefresh(seen)
        \/ ~Flushes(sig) /\ tab' = [seen EXCEPT !.pending = Deferred(sig)] /\ UNCHANGED <<table, used>>
  /\ UNCHANGED <<files, job>>

\* Two seconds have passed since the last automatic refresh.
Cool ==
  /\ ~tab.cooled /\ tab' = [tab EXCEPT !.cooled = TRUE]
  /\ UNCHANGED <<files, job, inbox, table, used>>

\* The view asks for more rows when it is scrolled to the last one.
ScrollDown ==
  /\ table.rows # <<>>
  /\ tab' = [tab EXCEPT !.atTop = FALSE]
  /\ IF table.exhausted THEN UNCHANGED <<table, used>> ELSE FetchMore(table)
  /\ UNCHANGED <<files, job, inbox>>
ScrollToTop ==
  /\ ~tab.atTop
  /\ IF tab.pending THEN AutoRefresh(tab)
     ELSE tab' = [tab EXCEPT !.atTop = TRUE] /\ UNCHANGED <<table, used>>
  /\ UNCHANGED <<files, job, inbox>>

Gesture == used.gestures < MaxGestures /\ used' = [used EXCEPT !.gestures = @ + 1]

\* A state is chosen to filter by; the first page is fetched, in these two cases
\* by a service that answers.
ChooseFilter(filter) ==
  /\ filter # table.filter /\ Gesture
  /\ LET t == Blank(filter)
         page == GetPage(filter, Offset(t))
     IN table' = [t EXCEPT !.rows = page, !.exhausted = Exhausted(page)]
  /\ tab' = [tab EXCEPT !.pending = FALSE, !.atTop = TRUE]
  /\ UNCHANGED <<files, job, inbox>>

\* attach: the job is selected again, and watched anew.
Attach ==
  /\ Gesture
  /\ LET t == Blank(table.filter)
         page == GetPage(table.filter, Offset(t))
     IN table' = [t EXCEPT !.rows = page, !.exhausted = Exhausted(page)]
  /\ tab' = NewTab /\ job' = [job EXCEPT !.told = FALSE]
  /\ UNCHANGED <<files, inbox>>

---------------------------------------------------------------------------
(* The job, and what is heard of it *)

Change(i, s) ==
  /\ job.at = "running" /\ files' = [files EXCEPT ![i] = s]
  /\ UNCHANGED <<job, inbox, table, tab>>
\* The scan plans a file.
Plan ==
  /\ job.at = "running" /\ Len(files) < MaxFiles
  /\ files' = Append(files, "pending")
  /\ UNCHANGED <<job, inbox, table, tab, used>>
Retry(i) ==
  /\ files[i] = "failed" /\ used.retries < MaxRetries
  /\ used' = [used EXCEPT !.retries = @ + 1] /\ Change(i, "pending")
Finish(i) ==
  /\ files[i] = "pending" /\ \E s \in {"verified", "failed"} : Change(i, s)
  /\ UNCHANGED used
Settle ==
  /\ job.at = "running" /\ job' = [job EXCEPT !.at = "settled"]
  /\ UNCHANGED <<files, inbox, table, tab, used>>

\* A tick, or the settled job behind the last one.
Tick ==
  /\ ~job.told /\ Len(inbox) < MaxInbox
  /\ inbox' = Append(inbox, Progress)
  /\ job' = [job EXCEPT !.told = job.at = "settled"]
  /\ UNCHANGED <<files, table, tab, used>>

Init ==
  /\ files \in BoundedSeq({"pending"}, MaxFiles)
  /\ job = [at |-> "running", told |-> FALSE] /\ inbox = <<>>
  /\ LET page == GetPage(All, 0)
     IN table = [Blank(All) EXCEPT !.rows = page, !.exhausted = Exhausted(page)]
  /\ tab = NewTab
  /\ used = [retries |-> 0, failures |-> 0, gestures |-> 0]

Work == Plan \/ (\E i \in DOMAIN files : Retry(i) \/ Finish(i)) \/ Settle
User == ScrollDown \/ ScrollToTop \/ (\E f \in Filters : ChooseFilter(f)) \/ Attach
Next == Work \/ User \/ Tick \/ MaybeAutoRefresh \/ Cool

Spec == Init /\ [][Next]_vars

---------------------------------------------------------------------------
(* Properties *)

\* get_files_page under a growing job: the rows without a filter are the job's
\* files from the first on, each once, however their states change between the
\* pages. Under a filter they need not be: a file that joins or leaves the state
\* between two pages shifts the offset of those behind it.
EachFileOnce == table.filter = All => \A i \in DOMAIN table.rows : table.rows[i].id = i

\* FilesTab: when the job is at rest and nothing is pending any more, every file
\* that arrived is shown as verified as far as the rows go, and no file is
\* missing from a table that claims to be whole.
AtRest == job.told /\ inbox = <<>> /\ ~tab.pending /\ ~table.error /\ table.filter = All
ArrivalsAreShown ==
  AtRest =>
    /\ \A i \in DOMAIN table.rows : files[i] = "verified" => table.rows[i].state = "verified"
    /\ table.exhausted => Len(table.rows) = Len(files)

\* What was put off is made good as long as progress comes: by a later tick, or
\* when the user returns to the top (job_tabs.py:417-421).
PutOff == tab.pending /\ tab.atTop /\ ~job.told
Flushed == PutOff ~> ~PutOff
=============================================================================
