------------------------------ MODULE Watch ------------------------------
(***************************************************************************)
(* Those who follow a job: the progress stream of the service (sse.py),    *)
(* the command line's _watch_until_settled, and the desktop's watch_job    *)
(* with the thread that runs it; while the worker runs the job and parks   *)
(* it when the network is gone, and the service dies and comes back.       *)
(*                                                                         *)
(* Of the job there is its status and how many events it has; the worker   *)
(* is what module JobQueue has in full, reduced to the writes a follower   *)
(* can see, each a transaction of its own.                                 *)
(***************************************************************************)
EXTENDS Naturals, Sequences, FiniteSets

CONSTANTS
  Watchers,             \* the followers, each a command's or a window's
  MaxInbox,             \* ticks under way to a follower
  MaxOutages, MaxCrashes, MaxRestarts   \* bounds

ASSUME WatchAssumption ==
  /\ MaxInbox \in Nat \ {0}
  /\ {MaxOutages, MaxCrashes, MaxRestarts} \subseteq Nat

VARIABLES
  status, events,   \* the job's row, and how many rows it has in events
  worker, up,       \* where the worker is; whether the service runs
  stream,           \* per follower, the generator progress_events behind its connection
  watch,            \* per follower, its loop
  sealed,           \* the events there were when the job last came to rest (history)
  spent             \* what was used of the bounds

job == <<status, events, sealed>>
service == <<worker, up>>
vars == <<job, service, stream, watch, spent>>

Window(w) == watch[w].window
\* TERMINAL_STREAM_STATUSES, and SETTLED of the watcher: the same four.
Settled == {"complete", "incomplete", "paused", "cancelled"}
Statuses == Settled \cup {"pending", "running", "stalled"}
NoStream == [at |-> "none", last |-> 0, got |-> 0, sampled |-> "none", seen |-> 0, inbox |-> <<>>]
\* Two for each run, two for each outage, one for each restart of the service.
MaxEvents == 2 * (1 + MaxOutages + MaxCrashes) + 2 * MaxOutages + MaxCrashes

TypeOK ==
  /\ status \in Statuses /\ events \in 0..MaxEvents /\ sealed \in 0..events
  /\ worker \in {"idle", "started", "running", "finished", "probing", "parking", "parked", "unparking"}
  /\ up \in BOOLEAN
  /\ \A w \in Watchers :
       /\ stream[w].at \in {"none", "open", "closed", "broken"}
       /\ stream[w].last \in 0..events /\ stream[w].got \in 0..stream[w].last
       /\ stream[w].sampled \in Statuses \cup {"none"} /\ Len(stream[w].inbox) <= MaxInbox
       /\ watch[w].at \in {"start", "reading", "check", "waiting", "reconnecting", "done", "failed"}
       /\ watch[w].at = "done" <=> watch[w].result # "none"
       /\ watch[w].at = "reading" => stream[w].at # "none"

Init ==
  /\ status = "pending" /\ events = 0 /\ sealed = 0
  /\ worker = "idle" /\ up = TRUE
  /\ stream = [w \in Watchers |-> NoStream]
  /\ watch \in [Watchers -> [at: {"start"}, result: {"none"}, window: BOOLEAN]]
  /\ spent = [outages |-> 0, crashes |-> 0, restarts |-> 0]

---------------------------------------------------------------------------
(* The worker, as far as it can be seen *)

Followers == UNCHANGED <<stream, watch>>
SetStatus(s) == status' = s /\ sealed' = IF s \in Settled THEN events ELSE sealed
RecordEvent == events' = events + 1 /\ UNCHANGED <<status, sealed>>

\* start_job, and the event that says so.
StartJob ==
  /\ up /\ worker = "idle" /\ status = "pending"
  /\ SetStatus("running") /\ worker' = "started"
  /\ UNCHANGED <<events, up, spent>> /\ Followers
RunStarted ==
  /\ up /\ worker = "started" /\ RecordEvent /\ worker' = "running"
  /\ UNCHANGED <<up, spent>> /\ Followers

\* finish_job, and run_finished behind it.
FinishJob ==
  /\ up /\ worker = "running"
  /\ \E s \in {"complete", "incomplete", "paused"} : SetStatus(s)
  /\ worker' = "finished"
  /\ UNCHANGED <<events, up, spent>> /\ Followers
RunFinished ==
  /\ up /\ worker = "finished" /\ RecordEvent
  /\ worker' = IF status = "incomplete" THEN "probing" ELSE "idle"
  /\ UNCHANGED <<up, spent>> /\ Followers

\* _handle: an incomplete run whose failures are the network's is parked when
\* the bucket does not answer either.
Probe ==
  /\ up /\ worker = "probing"
  /\ \/ worker' = "idle" /\ UNCHANGED <<job, spent>>
     \/ /\ spent.outages < MaxOutages /\ spent' = [spent EXCEPT !.outages = @ + 1]
        /\ SetStatus("stalled") /\ worker' = "parking" /\ UNCHANGED events
  /\ UNCHANGED up /\ Followers
JobStalled ==
  /\ up /\ worker = "parking" /\ RecordEvent /\ worker' = "parked"
  /\ UNCHANGED <<up, spent>> /\ Followers

\* _stall: the bucket answers again.
Unstall ==
  /\ up /\ worker = "parked"
  /\ SetStatus("pending") /\ worker' = "unparking"
  /\ UNCHANGED <<events, up, spent>> /\ Followers
JobUnstalled ==
  /\ up /\ worker = "unparking" /\ RecordEvent /\ worker' = "idle"
  /\ UNCHANGED <<up, spent>> /\ Followers

\* run_once: a pause accepted while the job is parked is applied behind _stall.
PauseParked ==
  /\ up /\ worker = "parked"
  /\ SetStatus("paused") /\ worker' = "idle"
  /\ UNCHANGED <<events, up, spent>> /\ Followers

\* The service dies, and every connection with it; startup_recovery puts the
\* job back in the queue.
Crash ==
  /\ up /\ spent.crashes < MaxCrashes
  /\ up' = FALSE /\ worker' = "idle"
  /\ spent' = [spent EXCEPT !.crashes = @ + 1]
  /\ stream' = [w \in Watchers |->
       IF stream[w].at = "open" THEN [stream[w] EXCEPT !.at = "broken", !.sampled = "none"] ELSE stream[w]]
  /\ UNCHANGED <<job, watch>>
Restart ==
  /\ ~up /\ up' = TRUE
  /\ IF status \in {"running", "stalled"}
     THEN status' = "pending" /\ events' = events + 1 /\ UNCHANGED sealed
     ELSE UNCHANGED job
  /\ UNCHANGED <<worker, spent>> /\ Followers

---------------------------------------------------------------------------
(* progress_events: one tick after the other *)

\* snapshot looks at the job first, and at its events behind that.
Sample(w) ==
  /\ up /\ stream[w].at = "open" /\ stream[w].sampled = "none" /\ Len(stream[w].inbox) < MaxInbox
  /\ stream' = [stream EXCEPT ![w].sampled = status, ![w].seen = events]
  /\ UNCHANGED <<job, service, watch, spent>>

EventsFirst(w) == [status |-> status, upto |-> stream[w].seen]
Snapshot(w) == [status |-> stream[w].sampled, upto |-> events]
OneAhead(w, tick) == tick.upto + 1
Advanced(w, tick) == tick.upto
Tick(w) ==
  /\ up /\ stream[w].at = "open" /\ stream[w].sampled # "none"
  /\ LET snap == Snapshot(w)
         tick == [status |-> snap.status, from |-> stream[w].last + 1, upto |-> snap.upto]
     IN stream' = [stream EXCEPT
          ![w].inbox = Append(@, tick), ![w].last = Advanced(w, tick), ![w].sampled = "none",
          ![w].at = IF tick.status \in Settled THEN "closed" ELSE "open"]
  /\ UNCHANGED <<job, service, watch, spent>>

---------------------------------------------------------------------------
(* The followers *)

Goes(w, at) == watch' = [watch EXCEPT ![w].at = at]

\* What a lost connection is to a follower: a window tries on, a command ends.
Lost(w) == Goes(w, IF Window(w) THEN "reconnecting" ELSE "failed")

\* A new stream begins with the first event.
Connect(w) ==
  /\ watch[w].at = "start"
  /\ IF up
     THEN stream' = [stream EXCEPT ![w] = [NoStream EXCEPT !.at = "open"]] /\ Goes(w, "reading")
     ELSE Lost(w) /\ UNCHANGED stream
  /\ UNCHANGED <<job, service, spent>>

Receive(w) ==
  /\ watch[w].at = "reading" /\ stream[w].inbox # <<>>
  /\ LET tick == Head(stream[w].inbox)
     IN stream' = [stream EXCEPT ![w].inbox = Tail(@), ![w].got = tick.upto]
  /\ UNCHANGED <<job, service, watch, spent>>

\* The stream is closed, or the connection is.
Ended(w) ==
  /\ watch[w].at = "reading" /\ stream[w].inbox = <<>> /\ stream[w].at \in {"closed", "broken"}
  /\ IF stream[w].at = "closed" THEN Goes(w, "check") ELSE Lost(w)
  /\ UNCHANGED <<job, service, stream, spent>>

\* get_job is the truth about "settled".
NeverAgain(w) == watch' = [watch EXCEPT ![w].at = "failed"]
WatchOn(w) == Goes(w, IF Window(w) THEN "waiting" ELSE "start")
Check(w) ==
  /\ watch[w].at = "check"
  /\ CASE ~up -> Lost(w)
       [] up /\ status \in Settled -> watch' = [watch EXCEPT ![w].at = "done", ![w].result = status]
       [] up /\ status \notin Settled -> WatchOn(w)
  /\ UNCHANGED <<job, service, stream, spent>>
Waited(w) ==
  /\ watch[w].at = "waiting" /\ Goes(w, "start")
  /\ UNCHANGED <<job, service, stream, spent>>

\* _wait_for_service: health answers.
Reconnect(w) ==
  /\ watch[w].at = "reconnecting" /\ up /\ Goes(w, "start")
  /\ UNCHANGED <<job, service, stream, spent>>

\* JobWatcher.start for the job that is already shown (an action on it was
\* done): the old thread's signals are suppressed.
StartAgain(w) ==
  /\ Window(w) /\ spent.restarts < MaxRestarts
  /\ spent' = [spent EXCEPT !.restarts = @ + 1]
  /\ watch' = [watch EXCEPT ![w].at = "start", ![w].result = "none"]
  /\ stream' = [stream EXCEPT ![w] = NoStream]
  /\ UNCHANGED <<job, service>>

WorkerStep ==
  \/ StartJob \/ RunStarted \/ FinishJob \/ RunFinished
  \/ Probe \/ JobStalled \/ Unstall \/ JobUnstalled
Serve(w) == Sample(w) \/ Tick(w)
Follow(w) == Connect(w) \/ Receive(w) \/ Ended(w) \/ Check(w) \/ Waited(w) \/ Reconnect(w)

Next ==
  \/ WorkerStep \/ PauseParked \/ Crash \/ Restart
  \/ \E w \in Watchers : Serve(w) \/ Follow(w) \/ StartAgain(w)

Spec == Init /\ [][Next]_vars
FairSpec ==
  /\ Spec /\ WF_vars(WorkerStep) /\ WF_vars(Restart)
  /\ \A w \in Watchers : WF_vars(Serve(w)) /\ WF_vars(Follow(w))

---------------------------------------------------------------------------
(* Properties *)

\* progress_events: the ticks of one stream carry every event once and in
\* order, whatever is recorded between and during its looks at the database.
NoGap ==
  \A w \in Watchers :
    LET box == stream[w].inbox
        before(i) == IF i = 1 THEN stream[w].got ELSE box[i - 1].upto
    IN /\ \A i \in DOMAIN box : box[i].from = before(i) + 1 /\ box[i].upto >= before(i)
       /\ stream[w].last = IF box = <<>> THEN stream[w].got ELSE box[Len(box)].upto

\* snapshot: the stream that ends with a job at rest has carried all there was
\* to tell when the job came to rest.
LastTickIsComplete ==
  [][\A w \in Watchers :
       stream[w].at = "open" /\ stream'[w].at = "closed" /\ status \in Settled
         => stream'[w].last >= sealed]_vars

\* A window's watch of a job that comes to rest ends with it, over crashes of
\* the service and outages of the network; a command's does, or it says that it
\* lost the service.
WatchesEnd ==
  \A w \in Watchers : <>[](watch[w].at \in IF Window(w) THEN {"done"} ELSE {"done", "failed"})

=============================================================================
