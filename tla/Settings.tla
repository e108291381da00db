---------------------------- MODULE Settings ----------------------------
(***************************************************************************)
(* The advanced settings: the dialog (gui/settings_dialog.py) loads them,  *)
(* lets the user edit and saves them, in requests answered late; PUT       *)
(* /settings (service/app.py) reads settings.json, merges and writes it    *)
(* through one temporary name; the service reads it as it starts.          *)
(*                                                                         *)
(* The number of workers stands for it and for auto_resume_on_startup; a   *)
(* size policy for its three sizes, in halves of a MiB, so that an odd one *)
(* is none that the dialog can show.  A dialog is modal, and the save of a *)
(* closed one may still be on its way under the next.                      *)
(***************************************************************************)
EXTENDS Integers

CONSTANTS
  MaxDialogs, MaxGestures, MaxCrashes, MaxFailures,   \* bounds
  Mib              \* bound: the sizes, in MiB, that the user may choose

Omit == -1         \* a key the payload does not have
None == 0          \* a key the file does not have; "" in a payload
Default == 2       \* the workers of a service nobody configured
Dialogs == 1..MaxDialogs

VARIABLES
  file,         \* settings.json
  tmp,          \* settings.json.tmp
  running,      \* what the service started with
  up,
  dialog,
  put,          \* the save of each dialog: its place, payload, what it read, and unedited (history)
  current,      \* the dialog that is open, or was last
  overlapped,   \* history: two PUTs were handled at once
  spent         \* what was used of the bounds

vars == <<file, tmp, running, up, dialog, put, current, overlapped, spent>>

File(workers, policy) == [whole |-> TRUE, workers |-> workers, policy |-> policy]
Torn == [whole |-> FALSE, workers |-> None, policy |-> None]

TypeOK ==
  /\ file.whole \in BOOLEAN /\ file.workers \in 0..2 /\ file.policy \in 0..(2 * (Mib + 1))
  /\ current \in 0..MaxDialogs
  /\ \A d \in Dialogs :
       /\ dialog[d].open => d = current
       /\ put[d].at \notin {"idle", "asked"} => put[d].payload.workers \in {1, 2}

\* load_config: what is in the file, else the default.
NextStart(f) == [workers |-> IF f.workers = None THEN Default ELSE f.workers, policy |-> f.policy]

\* The dialog before its settings are loaded: load is the GET, edited that
\* the user changed any, fresh that nothing was stored since the GET (history).
NewDialog == [open |-> TRUE, load |-> "asked", view |-> NextStart(Torn), stored |-> Torn,
              workers |-> 1, custom |-> FALSE, mib |-> 1, dirty |-> FALSE, had |-> FALSE,
              edited |-> FALSE, fresh |-> FALSE]
Closed == [NewDialog EXCEPT !.open = FALSE, !.load = "none"]
Idle == [at |-> "idle", payload |-> File(1, Omit), unedited |-> FALSE, merged |-> Torn]

Init ==
  /\ file = File(None, 3)
  /\ tmp = Torn /\ running = NextStart(file) /\ up = TRUE
  /\ dialog = [d \in Dialogs |-> Closed]
  /\ put = [d \in Dialogs |-> Idle] /\ current = 0 /\ overlapped = FALSE
  /\ spent = [gestures |-> 0, crashes |-> 0, failures |-> 0]

---------------------------------------------------------------------------
(* The user *)

service == <<file, tmp, running, up, overlapped>>

Gesture == spent.gestures < MaxGestures /\ spent' = [spent EXCEPT !.gestures = @ + 1]
Open ==
  /\ current < MaxDialogs /\ (current > 0 => ~dialog[current].open)
  /\ current' = current + 1 /\ dialog' = [dialog EXCEPT ![current + 1] = NewDialog]
  /\ UNCHANGED <<put, service, spent>>
\* A closed dialog is forgotten, but for the save that is on its way: its thread
\* reads the widgets, which the window keeps.
Close(d) ==
  /\ dialog[d].open
  /\ dialog' = [dialog EXCEPT ![d] = IF put[d].at = "idle" THEN Closed ELSE [@ EXCEPT !.open = FALSE]]
  /\ UNCHANGED <<put, current, service, spent>>

\* A value of the policy, or which radio button; a number of workers.
Edit(d) ==
  /\ dialog[d].open /\ Gesture
  /\ \/ \E custom \in BOOLEAN, mib \in 1..Mib :
          /\ <<custom, mib>> # <<dialog[d].custom, dialog[d].mib>>
          /\ dialog' = [dialog EXCEPT ![d].custom = custom, ![d].mib = mib, ![d].dirty = TRUE, ![d].edited = TRUE]
     \/ \E workers \in {1, 2} \ {dialog[d].workers} :
          dialog' = [dialog EXCEPT ![d].workers = workers, ![d].edited = TRUE]
  /\ UNCHANGED <<put, current, service>>

\* The button is disabled until the answer; it is not while the settings load.
Save(d) ==
  /\ dialog[d].open /\ put[d].at = "idle" /\ Gesture
  /\ put' = [put EXCEPT ![d].at = "asked"]
  /\ UNCHANGED <<dialog, current, service>>

---------------------------------------------------------------------------
(* The dialog's requests *)

\* What is staged is shown before what is running; the file's policy is shown as
\* custom, without being an edit.
Shown(x) == IF x.stored.workers # None THEN x.stored.workers ELSE x.view.workers
StaysDirty(x) == x.stored.policy # None
DirtyOnceLoaded(x) == FALSE
Loaded(d) ==
  /\ dialog[d].load \in {"served", "failed"}
  /\ LET x == dialog[d]
         had == x.stored.policy # None
         loaded == [x EXCEPT !.workers = Shown(x), !.had = had,
                             !.custom = had \/ x.custom,
                             !.mib = IF had THEN x.stored.policy \div 2 ELSE x.mib,
                             !.dirty = DirtyOnceLoaded(x)]
     IN dialog' = [dialog EXCEPT ![d] = [IF x.load = "served" THEN loaded ELSE x
                                              EXCEPT !.load = "none", !.stored = Torn, !.view = NextStart(Torn)]]
  /\ UNCHANGED <<put, current, service, spent>>

\* History: the settings were loaded, and the user edited none.
Unedited(x) == x.fresh /\ x.load = "none" /\ ~x.edited

\* build_payload, in the request's thread.
Payload(x) ==
  File(x.workers, IF x.custom THEN IF x.dirty THEN 2 * x.mib ELSE Omit
                  ELSE IF x.had THEN None ELSE Omit)
Build(d) ==
  /\ put[d].at = "asked"
  /\ put' = [put EXCEPT ![d].at = "sent", ![d].payload = Payload(dialog[d]), ![d].unedited = Unedited(dialog[d])]
  /\ UNCHANGED <<dialog, current, service, spent>>

Saved(d) ==
  /\ put[d].at \in {"answered", "failed"} /\ put' = [put EXCEPT ![d] = Idle]
  /\ dialog' = [dialog EXCEPT ![d] =
       IF ~@.open THEN Closed ELSE IF put[d].at = "failed" THEN @ ELSE [@ EXCEPT !.had = put[d].merged.policy # None, !.dirty = FALSE]]
  /\ UNCHANGED <<current, service, spent>>

---------------------------------------------------------------------------
(* The service *)

Handled == {"read", "opened", "written", "replaced"}

GetSettings(d) ==
  /\ up /\ dialog[d].load = "asked"
  /\ dialog' = [dialog EXCEPT ![d] = IF file.whole
       THEN [@ EXCEPT !.load = "served", !.view = running, !.stored = file, !.fresh = TRUE]
       ELSE [@ EXCEPT !.load = "failed"]]
  /\ UNCHANGED <<put, current, service, spent>>

\* put_settings: the stored settings are read and merged, the temporary file is opened
\* (and emptied), written and renamed.  Two that write it at once may mix.
Merged(stored, payload) ==
  File(payload.workers, IF payload.policy = Omit THEN stored.policy ELSE payload.policy)
ReadStored(d) ==
  /\ up /\ put[d].at = "sent"
  /\ put' = [put EXCEPT ![d] = IF file.whole THEN [@ EXCEPT !.at = "read", !.merged = Merged(file, put[d].payload)]
                               ELSE [@ EXCEPT !.at = "failed"]]
  /\ overlapped' = (overlapped \/ \E o \in Dialogs \ {d} : put[o].at \in Handled)
  /\ UNCHANGED <<file, tmp, running, up, dialog, current, spent>>
Opens == tmp' = Torn /\ UNCHANGED file
OpenTmp(d) ==
  /\ up /\ put[d].at = "read" /\ put' = [put EXCEPT ![d].at = "opened"] /\ Opens
  /\ UNCHANGED <<running, up, dialog, current, overlapped, spent>>
WriteTmp(d) ==
  /\ up /\ put[d].at = "opened" /\ put' = [put EXCEPT ![d].at = "written"]
  /\ tmp' \in {put[d].merged} \cup {Torn : o \in {o \in Dialogs \ {d} : put[o].at \in {"opened", "written"}}}
  /\ UNCHANGED <<file, running, up, dialog, current, overlapped, spent>>

\* The rename fails while another has the file open.
Replace(d) ==
  /\ up /\ put[d].at = "written"
  /\ IF \E o \in Dialogs \ {d} : put[o].at = "opened"
     THEN put' = [put EXCEPT ![d].at = "failed"] /\ UNCHANGED <<file, dialog>>
     ELSE /\ put' = [put EXCEPT ![d].at = "replaced"] /\ file' = tmp
          /\ dialog' = [o \in Dialogs |-> [dialog[o] EXCEPT !.fresh = FALSE]]
  /\ UNCHANGED <<tmp, running, up, current, overlapped, spent>>
Reply(d) ==
  /\ up /\ put[d].at = "replaced"
  /\ put' = [put EXCEPT ![d] = IF file.whole THEN [@ EXCEPT !.at = "answered", !.merged = file]
                               ELSE [@ EXCEPT !.at = "failed"]]
  /\ UNCHANGED <<service, dialog, current, spent>>

Fails ==
  /\ spent.failures < MaxFailures /\ spent' = [spent EXCEPT !.failures = @ + 1]
  /\ \/ \E d \in Dialogs : put[d].at \in {"sent", "replaced"} /\ put' = [put EXCEPT ![d].at = "failed"] /\ UNCHANGED dialog
     \/ \E d \in Dialogs : dialog[d].load = "asked" /\ dialog' = [dialog EXCEPT ![d].load = "failed"] /\ UNCHANGED put
  /\ UNCHANGED <<service, current>>

\* The service dies, with what it was handling, and starts if it can read the file.
Crash ==
  /\ up /\ spent.crashes < MaxCrashes /\ up' = FALSE /\ spent' = [spent EXCEPT !.crashes = @ + 1]
  /\ put' = [d \in Dialogs |-> IF put[d].at \in Handled THEN [put[d] EXCEPT !.at = "failed"] ELSE put[d]]
  /\ UNCHANGED <<file, tmp, running, dialog, current, overlapped>>
Start ==
  /\ ~up /\ file.whole /\ up' = TRUE /\ running' = NextStart(file)
  /\ UNCHANGED <<file, tmp, dialog, put, current, overlapped, spent>>

Next ==
  \/ Open \/ Fails \/ Crash \/ Start
  \/ \E d \in Dialogs : \/ Close(d) \/ Edit(d) \/ Save(d) \/ Loaded(d) \/ Build(d) \/ Saved(d)
                        \/ GetSettings(d) \/ ReadStored(d) \/ OpenTmp(d) \/ WriteTmp(d) \/ Replace(d) \/ Reply(d)
Spec == Init /\ [][Next]_vars

---------------------------------------------------------------------------
(* Properties *)

\* settings.json is torn, so that no service starts over it, only after two PUTs were
\* handled at once; a service that dies at any point of one leaves it whole.
WholeUnlessOverlapped == ~file.whole => overlapped

\* "a reopen-then-Save never silently reverts a staged change", and a policy that the
\* dialog cannot show "is never silently rewritten": a save over settings that were
\* loaded, and that nobody else stored since, changes nothing that the next start of
\* the service would see if the user edited nothing.
SaveKeepsWhatIsStaged ==
  [][\A d \in Dialogs :
       /\ put[d].at = "written" /\ put'[d].at = "replaced" /\ ~overlapped
       /\ put[d].unedited /\ dialog[d].fresh
       => NextStart(file') = NextStart(file)]_vars
=============================================================================
