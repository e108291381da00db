---------------------------- MODULE Following ----------------------------
(***************************************************************************)
(* A job as it is followed: by the streams and the watches of its progress *)
(* (module Watch, which this one extends), and by the desktop's table of   *)
(* its files (module FileTable, whose job is `progressed' here).           *)
(***************************************************************************)
EXTENDS Watch

CONSTANTS
  PageSize, Filters,
  MaxFiles, MaxRetries, MaxFailures, MaxGestures, MaxTold   \* those of the table

VARIABLES files, progressed, inbox, table, tab, used

Shown == INSTANCE FileTable WITH job <- progressed, MaxInbox <- MaxTold

ASSUME TableAssumption ==
  /\ PageSize \in Nat \ {0} /\ Filters \subseteq Shown!States \cup {Shown!All}
  /\ {MaxFiles, MaxRetries, MaxFailures, MaxGestures, MaxTold} \subseteq Nat

---------------------------------------------------------------------------
(* The properties of both, put together by what they are about *)

\* The streams and watches, or the table's pages and the tab's notes, fit each other.
WellTyped == TypeOK /\ Shown!TypeOK

\* A stream tells all: its ticks carry every event once and in order, and the one
\* that ends it carries all there was to tell when the job came to rest
\* (service/sse.py:42-89: the row is read before the events).
StreamTellsAll == []NoGap /\ LastTickIsComplete

\* The table of a growing job tells the truth: without a filter every file is listed
\* once, whatever changes between the pages (gui/files_model.py:66-84), and a job at
\* rest is shown as it ended (gui/job_tabs.py:429-454).
TableIsTrue == Shown!EachFileOnce /\ Shown!ArrivalsAreShown
=============================================================================
