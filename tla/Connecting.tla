---------------------------- MODULE Connecting ----------------------------
(***************************************************************************)
(* What becomes of connections and of what else is configured: the service *)
(* that keeps them with their credentials (module Profiles, which this one *)
(* extends), the dialogs that make, check and remove them, the form that   *)
(* submits over them, the probe of what a credential may do, the advanced  *)
(* settings, and the database as it is opened.                             *)
(***************************************************************************)
EXTENDS Profiles

CONSTANTS
  Cards, NoName,                                   \* the names in the dialogs
  MaxSteps, MaxElsewhere, MaxUnanswered,           \* and their bounds
  Connections, NoConnection, Preferred,            \* the connections of the form
  MaxInputs, MaxChanges, MaxRefused,               \* and its bounds
  MaxProbeFaults,
  MaxDialogs, MaxGestures, MaxDeadServices, MaxFailures, Mib,   \* those of the settings
  Openers, MaxDeaths

VARIABLES
  stored, used, stepper, probes, cards, calls, d_spent,
  f_stored, f_jobs, form, preview, f_calls, told, f_spent,
  may, objects, written, can, cleaned, at, faults,
  file, tmp, running, s_up, dialog, put, current, overlapped, s_spent,
  tables, columns, versions, opener, deaths

Dialogs == INSTANCE ConnectionDialogs WITH
  spent <- d_spent, Names <- Cards,
  MaxGestures <- MaxSteps, MaxChanges <- MaxElsewhere, MaxFailures <- MaxUnanswered
Form == INSTANCE Wizard WITH
  stored <- f_stored, jobs <- f_jobs, calls <- f_calls, spent <- f_spent,
  MaxGestures <- MaxInputs, MaxFailures <- MaxRefused
Probed == INSTANCE Preflight WITH MaxFaults <- MaxProbeFaults
Tuned == INSTANCE Settings WITH up <- s_up, spent <- s_spent, MaxCrashes <- MaxDeadServices
Opened == INSTANCE Migrations

ASSUME ConnectingAssumption ==
  /\ DOMAIN Found \subseteq Nat /\ "none" \notin Names \cup Range(Found)
  /\ NoName \notin Cards /\ NoConnection \notin Connections
  /\ Mib \in Nat \ {0}
  /\ {MaxCredentials, MaxJobs, MaxFaults, MaxCrashes, MaxSteps, MaxElsewhere, MaxUnanswered,
      MaxInputs, MaxChanges, MaxRefused, MaxProbeFaults,
      MaxDialogs, MaxGestures, MaxDeadServices, MaxFailures, MaxDeaths} \subseteq Nat

---------------------------------------------------------------------------
(* The properties of the modules, put together by what they are about *)

\* Dialogs, form, rows, probe, settings and database are each in a state of theirs.
WellTyped ==
  TypeOK /\ Dialogs!TypeOK /\ Form!TypeOK /\ Probed!TypeOK /\ Tuned!TypeOK /\ Opened!TypeOK

\* What ended was done in full: the probe of a credential leaves nothing behind, not
\* even an old version of a probe object (auth/preflight.py:124-130), and who opened
\* the database finds its whole schema (store/schema.py:106-141).
NothingIsHalfDone == Probed!LeavesNothing /\ Opened!OpenMeansMigrated

\* What a dialog shows is true: the probes are passed when the service said so, a
\* connection refused for its jobs has some, and the totals of a bucket are of what
\* the form shows (gui/connection_widgets.py:346-363, gui/connection_dialogs.py:1043-1055,
\* gui/wizard.py:543-558).
ShownIsTrue == Dialogs!ProbesWait /\ Dialogs!RefusalIsTrue /\ Form!PreviewIsOfTheForm

\* A dialog that was left sends nothing (gui/connection_dialogs.py:890-903).
CancelledSendsNothing == Dialogs!CancelledSendsNothing

\* The settings are kept: a file is torn only by saves that overlap, and a save by who
\* edited nothing changes nothing (service/app.py:762-782, gui/settings_dialog.py:149-231).
SettingsAreKept == []Tuned!WholeUnlessOverlapped /\ Tuned!SaveKeepsWhatIsStaged
=============================================================================
