------------------------------ MODULE Wizard ------------------------------
(***************************************************************************)
(* The desktop's form for a new transfer (gui/wizard.py): the connections  *)
(* it loads, the preview of what would be transferred, started anew when   *)
(* the input rests, and the submission, which a duplicate may turn into a  *)
(* resume.  Every request is a thread of its own and is answered in any    *)
(* order; the form remains usable meanwhile.                               *)
(***************************************************************************)
EXTENDS Naturals, Sequences, SequencesExt, Functions

CONSTANTS
  Connections, NoConnection,
  Preferred,     \* the connection used last, or NoConnection
  MaxGestures, MaxChanges, MaxFailures   \* bounds

VARIABLES
  stored,    \* the service's connections, by id
  jobs,      \* its jobs, in the order of their ids: [over, prefix, status]
  form,      \* the widgets' values and the dialog's flags
  preview,   \* the label, the timer and which preview counts
  calls,     \* requests and scans under way
  told,      \* the jobs the main window was told of
  spent      \* what was used of the bounds

vars == <<stored, jobs, form, preview, calls, told, spent>>
service == <<stored, jobs>>

PrefixValues == {"none", "p"}
Blank == [kind |-> "blank", of |-> NoConnection, prefix |-> "none"]
Labels == [kind: {"blank", "working", "folder", "bucket", "error"},
           of: Connections \cup {NoConnection}, prefix: PrefixValues]

TypeOK ==
  /\ stored \in BoundedSeq(Connections, MaxChanges + 2) /\ IsInjective(stored)
  /\ form.chosen \in Range(form.list) \cup {NoConnection}
  /\ form.chosen = NoConnection <=> form.list = <<>>
  /\ preview.label \in Labels
  /\ preview.label.kind = "bucket" => preview.label.of # NoConnection
  /\ told \subseteq DOMAIN jobs
  /\ \A i, j \in DOMAIN jobs : jobs[i].over = jobs[j].over /\ jobs[i].prefix = jobs[j].prefix => i = j

\* A thread: what it is about, and when it was started its preview counted.
Call(kind) == [kind |-> kind, at |-> "asked", current |-> TRUE, over |-> form.chosen,
               prefix |-> form.prefix, list |-> <<>>, job |-> 0]
Ask(requests) == calls' = calls \cup requests
List == [Call("list") EXCEPT !.over = NoConnection, !.prefix = "none"]

Init ==
  /\ \E n \in 0..2 : stored \in {s \in [1..n -> Connections] : IsInjective(s)}
  /\ jobs = <<>> /\ told = {}
  /\ form = [open |-> TRUE, direction |-> "upload", source |-> FALSE, prefix |-> "none",
             list |-> <<>>, chosen |-> NoConnection, picked |-> FALSE]
  /\ preview = [label |-> Blank, timer |-> FALSE, cancelled |-> FALSE]
  /\ calls = {List}
  /\ spent = [gestures |-> 0, changes |-> 0, failures |-> 0]

---------------------------------------------------------------------------
(* Input *)

Gesture ==
  /\ form.open /\ spent.gestures < MaxGestures
  /\ spent' = [spent EXCEPT !.gestures = @ + 1] /\ UNCHANGED <<service, told>>
Restart == preview' = [preview EXCEPT !.timer = TRUE]

Turn ==
  /\ Gesture /\ Restart /\ UNCHANGED calls
  /\ form' = [form EXCEPT !.direction = IF @ = "upload" THEN "download" ELSE "upload"]
EditSource ==
  /\ Gesture /\ Restart /\ form' = [form EXCEPT !.source = ~@] /\ UNCHANGED calls
\* An upload previews the folder, whatever the prefix.
PrefixMatters == form.direction = "download"
EditPrefix ==
  /\ Gesture /\ (IF PrefixMatters THEN Restart ELSE UNCHANGED preview)
  /\ form' = [form EXCEPT !.prefix = IF @ = "none" THEN "p" ELSE "none"] /\ UNCHANGED calls
Pick ==
  /\ Gesture /\ Restart /\ UNCHANGED calls
  /\ \E c \in Range(form.list) \ {form.chosen} : form' = [form EXCEPT !.chosen = c, !.picked = TRUE]

\* _refresh, also behind the dialog for a new connection.
Refresh == Gesture /\ Ask({List}) /\ UNCHANGED <<form, preview>>

\* _loaded: clearing the combo and its first item move the selection.
FirstOf(list) == IF list = <<>> THEN NoConnection ELSE list[1]
Chosen(list) == IF ~form.picked /\ Preferred \in Range(list) THEN Preferred ELSE FirstOf(list)
Loaded(c) ==
  /\ form' = [form EXCEPT !.list = c.list, !.chosen = Chosen(c.list)]
  /\ (IF Chosen(c.list) # form.chosen \/ form.list # <<>> THEN Restart ELSE UNCHANGED preview)
  /\ UNCHANGED told

---------------------------------------------------------------------------
(* The preview *)

\* cancel_preview and the beginning of _restart_preview.
Superseded == {[c EXCEPT !.current = FALSE] : c \in {c \in calls : c.kind \in {"scan", "bucket"}}}
              \cup {c \in calls : c.kind \notin {"scan", "bucket"}}
Shows(kind) == preview' = [label |-> [Blank EXCEPT !.kind = kind], timer |-> FALSE, cancelled |-> FALSE]

RestartPreview ==
  /\ preview.timer
  /\ CASE form.direction = "upload" /\ ~form.source ->
            calls' = Superseded /\ Shows("blank")
       [] form.direction = "upload" /\ form.source ->
            calls' = Superseded \cup {[Call("scan") EXCEPT !.at = "answered"]} /\ Shows("working")
       [] form.direction = "download" /\ form.chosen = NoConnection ->
            calls' = Superseded /\ Shows("blank")
       [] form.direction = "download" /\ form.chosen # NoConnection ->
            calls' = Superseded \cup {Call("bucket")} /\ Shows("working")
  /\ UNCHANGED <<service, form, told, spent>>

\* _preview_finished: a scan that was superseded is told so, unless it was through.
Scanned ==
  /\ preview' = [preview EXCEPT !.label = [Blank EXCEPT !.kind = "folder"]]
  /\ UNCHANGED <<form, told>>
Abandoned == UNCHANGED <<form, preview, told>>

\* _maybe_remote_preview_done.
Whichever(c) == TRUE
Counts(c) == c.current
RemoteDone(c) ==
  /\ IF Counts(c)
     THEN preview' = [preview EXCEPT !.label = [kind |-> "bucket", of |-> c.over, prefix |-> c.prefix]]
     ELSE UNCHANGED preview
  /\ UNCHANGED <<form, told>>
PreviewFailed ==
  /\ preview' = [preview EXCEPT !.label = [Blank EXCEPT !.kind = "error"]]
  /\ UNCHANGED <<form, told>>

---------------------------------------------------------------------------
(* The submission *)

CancelPreview == preview' = [preview EXCEPT !.timer = FALSE, !.cancelled = TRUE]

Submit ==
  /\ Gesture /\ form.chosen # NoConnection /\ form.source /\ CancelPreview
  /\ calls' = Superseded \cup {Call("submit")} /\ UNCHANGED form
\* reject, and closing the window.
Cancel ==
  /\ Gesture /\ form' = [form EXCEPT !.open = FALSE] /\ CancelPreview /\ calls' = Superseded

\* _submit_done and _resumed: whether or not the form is open still.
IfOpen(c) == told' = IF form.open THEN told \cup {c.job} ELSE told
Announce(c) == told' = told \cup {c.job}
Submitted(c) == Announce(c) /\ form' = [form EXCEPT !.open = FALSE] /\ UNCHANGED preview

\* The slot of an answer, and the question behind a duplicate.
Answer ==
  \E c \in calls :
    /\ c.at # "asked" /\ UNCHANGED <<service, spent>>
    /\ \/ c.at = "failed" /\ calls' = calls \ {c}
          /\ IF c.kind = "bucket" THEN PreviewFailed ELSE Abandoned
       \/ /\ c.at = "duplicate" /\ Abandoned
          /\ \/ calls' = calls \ {c}
             \/ calls' = (calls \ {c}) \cup {[c EXCEPT !.kind = "resume", !.at = "asked"]}
       \/ /\ c.at = "answered" /\ calls' = calls \ {c}
          /\ CASE c.kind = "list" -> Loaded(c)
               [] c.kind = "bucket" -> RemoteDone(c)
               [] c.kind = "scan" -> Scanned \/ (~c.current /\ Abandoned)
               [] c.kind \in {"submit", "resume"} -> Submitted(c)

---------------------------------------------------------------------------
(* The service *)

Reply(c, at) == calls' = (calls \ {c}) \cup {[c EXCEPT !.at = at]}
Same(c) == {i \in DOMAIN jobs : jobs[i].over = c.over /\ jobs[i].prefix = c.prefix}

\* Answered, refused, or failed with nothing done.
Lists(c) == calls' = (calls \ {c}) \cup {[c EXCEPT !.at = "answered", !.list = stored]} /\ UNCHANGED jobs
Previews(c) == Reply(c, IF c.over \in Range(stored) THEN "answered" ELSE "failed") /\ UNCHANGED jobs
Submits(c) ==
  IF c.over \notin Range(stored) THEN Reply(c, "failed") /\ UNCHANGED jobs
  ELSE IF Same(c) # {}
  THEN /\ calls' = (calls \ {c}) \cup {[c EXCEPT !.at = "duplicate", !.job = CHOOSE i \in Same(c) : TRUE]}
       /\ UNCHANGED jobs
  ELSE /\ jobs' = Append(jobs, [over |-> c.over, prefix |-> c.prefix, status |-> "pending"])
       /\ calls' = (calls \ {c}) \cup {[c EXCEPT !.at = "answered", !.job = Len(jobs) + 1]}
Resumes(c) ==
  IF jobs[c.job].status = "paused"
  THEN jobs' = [jobs EXCEPT ![c.job].status = "pending"] /\ Reply(c, "answered")
  ELSE Reply(c, "failed") /\ UNCHANGED jobs
Serve ==
  /\ \E c \in calls :
       /\ c.at = "asked"
       /\ \/ /\ CASE c.kind = "list" -> Lists(c) [] c.kind = "bucket" -> Previews(c)
                  [] c.kind = "submit" -> Submits(c) [] c.kind = "resume" -> Resumes(c)
             /\ UNCHANGED spent
          \/ /\ spent.failures < MaxFailures /\ spent' = [spent EXCEPT !.failures = @ + 1]
             /\ Reply(c, "failed") /\ UNCHANGED jobs
  /\ UNCHANGED <<stored, form, preview, told>>

\* Other clients, and the worker.
Change ==
  /\ spent.changes < MaxChanges /\ spent' = [spent EXCEPT !.changes = @ + 1]
  /\ \/ \E c \in Connections \ Range(stored) : stored' = Append(stored, c) /\ UNCHANGED jobs
     \/ \E i \in DOMAIN stored :
          /\ \A j \in DOMAIN jobs : jobs[j].over # stored[i]
          /\ stored' = RemoveAt(stored, i) /\ UNCHANGED jobs
     \/ \E i \in DOMAIN jobs : jobs' = [jobs EXCEPT ![i].status = "paused"] /\ UNCHANGED stored
  /\ UNCHANGED <<form, preview, calls, told>>

User == Turn \/ EditSource \/ EditPrefix \/ Pick \/ Refresh \/ Submit \/ Cancel
Next == User \/ RestartPreview \/ Answer \/ Serve \/ Change
Spec == Init /\ [][Next]_vars

---------------------------------------------------------------------------
(* Properties *)

\* _maybe_remote_preview_done and the restarts: the totals of a bucket that the
\* form shows are of the connection and the prefix it shows, unless the input is
\* about to be previewed, or was still to be when a submission put an end to it.
PreviewIsOfTheForm ==
  preview.label.kind = "bucket" /\ ~preview.timer /\ ~preview.cancelled =>
    /\ form.direction = "download"
    /\ preview.label.of = form.chosen /\ preview.label.prefix = form.prefix

\* _submit_done: the jobs the form has submitted are those the main window is told
\* of, whether or not it was closed and whatever was submitted meanwhile.
SubmittedIsAnnounced == []<>(told = DOMAIN jobs)
=============================================================================
