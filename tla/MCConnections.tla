---------------------------- MODULE MCConnections ----------------------------
(***************************************************************************)
(* What becomes of connections and of what else is configured, in small    *)
(* instances explored by one run: the dialogs that make, check and remove  *)
(* connections, the form that submits over them, the service that keeps    *)
(* them with their credentials, the probe of what a credential may do, the *)
(* advanced settings, and the database as it is opened.  A behaviour is    *)
(* one of them, and what it is not stays as it is.                         *)
(***************************************************************************)
EXTENDS Connecting

CONSTANTS k, l, m, n, p, q

VARIABLES way

\* The names service/app.py tries in turn for a bucket.
FoundNames == <<"a", "b">>

dialogs == <<stored, used, stepper, probes, cards, calls, d_spent>>
wizard == <<f_stored, f_jobs, form, preview, f_calls, told, f_spent>>
probe == <<may, objects, written, can, cleaned, at, faults>>
tuning == <<file, tmp, running, s_up, dialog, put, current, overlapped, s_spent>>
opening == <<tables, columns, versions, opener, deaths>>

MCInit ==
  /\ way \in {"dialogs", "form", "kept", "probed", "tuned", "opened"}
  /\ Dialogs!Init /\ (way # "dialogs" => stored = {})
  /\ Form!Init /\ (way # "form" => f_stored = <<>>)
  /\ Init
  /\ Probed!Init /\ (way # "probed" => may = {})
  /\ Tuned!Init
  /\ Opened!Init /\ (way # "opened" => versions = <<>>)

\* A step of the dialogs, or one of the form or of the openers that is like it. The
\* dialogs have a request that fails or a change made elsewhere.
Either(A, B, C) ==
  /\ UNCHANGED <<way, vars, probe, tuning>>
  /\ \/ way = "dialogs" /\ A /\ UNCHANGED <<wizard, opening>>
     \/ way = "form" /\ B /\ UNCHANGED <<dialogs, opening>>
     \/ way = "opened" /\ C /\ UNCHANGED <<dialogs, wizard>>
  /\ d_spent'.changes + d_spent'.failures <= 1
Keeping == way = "kept" /\ Next /\ UNCHANGED <<way, dialogs, wizard, probe, tuning, opening>>
Probing == way = "probed" /\ Probed!Next /\ UNCHANGED <<way, vars, dialogs, wizard, tuning, opening>>
Tuning ==
  /\ way = "tuned" /\ Tuned!Next /\ UNCHANGED <<way, vars, dialogs, wizard, probe, opening>>
  /\ s_spent'.gestures + s_spent'.crashes + s_spent'.failures <= 3
MCNext == Either(Dialogs!Next, Form!Next, Opened!Next) \/ Keeping \/ Probing \/ Tuning

allvars == <<way, vars, dialogs, wizard, probe, tuning, opening>>

\* Requests are served, the window's event loop goes on, and processes get on with
\* opening the database.
Opening == \E o \in {p, q} : Opened!Opens(o)
MCSpec ==
  /\ MCInit /\ [][MCNext]_allvars
  /\ WF_allvars(Either(Dialogs!Serve, Form!Serve, Opening))
  /\ WF_allvars(Either(Dialogs!Answer, Form!Answer, FALSE))

---------------------------------------------------------------------------
\* What was begun ends: a card's check (gui/connection_dialogs.py:1026-1035), a
\* submission, with the main window told (gui/wizard.py:595-623), and the opening of
\* the database (store/schema.py:106-141).
WhatIsBegunEnds ==
  Dialogs!ChecksEnd /\ Form!SubmittedIsAnnounced /\ <>[](way = "opened" => Opened!AllOpen)
=============================================================================
