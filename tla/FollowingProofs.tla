------------------------- MODULE FollowingProofs -------------------------
(***************************************************************************)
(* What is proved of those who follow a job: that streams tell all there   *)
(* is to tell, that the table of a job's files is true, and that streams,  *)
(* watches, pages and the worker they look at fit each other, over any     *)
(* number of followers, files, outages and crashes.                        *)
(***************************************************************************)
EXTENDS Following, SequenceTheorems, FiniteSetTheorems, TLAPS

---------------------------------------------------------------------------
(* The job and its worker *)

Workers == {"idle", "started", "running", "finished", "probing", "parking", "parked", "unparking"}

\* Each place of the worker has its statuses.
Placed ==
  /\ worker \in {"started", "running"} => status = "running"
  /\ worker = "finished" => status \in {"complete", "incomplete", "paused"}
  /\ worker = "probing" => status = "incomplete"
  /\ worker \in {"parking", "parked"} => status = "stalled"
  /\ worker = "unparking" => status = "pending"
  /\ up /\ worker = "idle" => status \in Settled \cup {"pending"}
  /\ ~up => worker = "idle"

\* The events that are still to come without another outage or crash: those of
\* the run, of the stall, and of the recovery that is due.
Due ==
  CASE worker = "idle" /\ status = "pending" -> 2
    [] worker = "idle" /\ status \in {"running", "stalled"} -> 3
    [] worker = "idle" /\ status \in Settled -> 0
    [] worker = "started" -> 2
    [] worker \in {"running", "finished"} -> 1
    [] worker = "probing" -> 0
    [] worker = "parking" -> 4
    [] worker \in {"parked", "unparking"} -> 3
Allowed == 2 * (1 + spent.outages + spent.crashes) + 2 * spent.outages + spent.crashes

JobInv ==
  /\ status \in Statuses /\ events \in Nat /\ sealed \in 0..events
  /\ worker \in Workers /\ up \in BOOLEAN
  /\ spent \in [outages : 0..MaxOutages, crashes : 0..MaxCrashes, restarts : 0..MaxRestarts]
  /\ Placed /\ events + Due <= Allowed

---------------------------------------------------------------------------
(* The streams *)

Ticks == [status : Statuses, from : Nat, upto : Nat]
Streams == [at : {"none", "open", "closed", "broken"}, last : Nat, got : Nat,
            sampled : Statuses \cup {"none"}, seen : Nat, inbox : Seq(Ticks)]
Watches == [at : {"start", "reading", "check", "waiting", "reconnecting", "done", "failed"},
            result : Settled \cup {"none"}, window : BOOLEAN]

\* A stream over n events: its ticks join from what its follower has to what it
\* has looked at, which is no more than there is.
Joined(s) ==
  LET before(i) == IF i = 1 THEN s.got ELSE s.inbox[i - 1].upto
  IN /\ \A i \in DOMAIN s.inbox : s.inbox[i].from = before(i) + 1 /\ s.inbox[i].upto >= before(i)
     /\ s.last = IF s.inbox = <<>> THEN s.got ELSE s.inbox[Len(s.inbox)].upto
Rising(s) ==
  /\ s.got <= s.last
  /\ \A i \in DOMAIN s.inbox : s.got <= s.inbox[i].upto /\ s.inbox[i].upto <= s.last
  /\ \A i, j \in DOMAIN s.inbox : i <= j => s.inbox[i].upto <= s.inbox[j].upto
Roomy(s) ==
  /\ Len(s.inbox) <= MaxInbox
  /\ s.at = "open" /\ s.sampled # "none" => Len(s.inbox) < MaxInbox
Told(s, n) == s \in Streams /\ Joined(s) /\ Rising(s) /\ Roomy(s) /\ s.last <= n

\* A watch has a result when it is done, and reads a stream that there is.
Fits(x, s) ==
  /\ x \in Watches
  /\ x.at = "done" <=> x.result # "none"
  /\ x.at = "reading" => s.at # "none"

FollowInv ==
  /\ stream \in [Watchers -> Streams] /\ watch \in [Watchers -> Watches]
  /\ \A w \in Watchers : Told(stream[w], events) /\ Fits(watch[w], stream[w])

Inv == JobInv /\ FollowInv

---------------------------------------------------------------------------
(* A stream, step by step *)

LEMMA TickJoins ==
  ASSUME NEW s, NEW n \in Nat, Told(s, n), s.at = "open", s.sampled # "none",
         NEW k, k \in Ticks, k.from = s.last + 1, k.upto = n,
         NEW t, t \in Streams, t.inbox = Append(s.inbox, k), t.last = n, t.got = s.got,
         t.sampled = "none"
  PROVE  Told(t, n)
<1> DEFINE box == s.inbox
           l == Len(s.inbox)
<1>1. box \in Seq(Ticks) /\ s.last \in Nat /\ s.got \in Nat /\ k.upto \in Nat /\ k.from \in Nat
  BY DEF Told, Streams, Ticks
<1>2. /\ Len(t.inbox) = l + 1 /\ l \in Nat
      /\ \A i \in 1..l : t.inbox[i] = box[i]
      /\ t.inbox[l + 1] = k /\ t.inbox # <<>>
      /\ DOMAIN t.inbox = 1..(l + 1) /\ DOMAIN box = 1..l
  BY <1>1
<1>3. \A i \in 1..l : box[i] \in Ticks /\ box[i].upto \in Nat /\ box[i].from \in Nat
  <2>1. \A i \in 1..l : box[i] \in Ticks
    BY <1>1, <1>2
  <2> QED BY <2>1 DEF Ticks
<1>4. Joined(t)
  <2>1. l = 0 => s.last = s.got
    BY <1>1, <1>2 DEF Told, Joined
  <2>2. l > 0 => s.last = box[l].upto
    BY <1>1, <1>2 DEF Told, Joined
  <2>3. t.inbox[l + 1].from = (IF l + 1 = 1 THEN t.got ELSE t.inbox[(l + 1) - 1].upto) + 1
    BY <1>1, <1>2, <2>1, <2>2
  <2>4. t.inbox[l + 1].upto >= IF l + 1 = 1 THEN t.got ELSE t.inbox[(l + 1) - 1].upto
    BY <1>1, <1>2, <2>1, <2>2 DEF Told
  <2>5. ASSUME NEW i \in 1..l
        PROVE  /\ t.inbox[i].from = (IF i = 1 THEN t.got ELSE t.inbox[i - 1].upto) + 1
               /\ t.inbox[i].upto >= IF i = 1 THEN t.got ELSE t.inbox[i - 1].upto
    <3>1. /\ box[i].from = (IF i = 1 THEN s.got ELSE box[i - 1].upto) + 1
          /\ box[i].upto >= IF i = 1 THEN s.got ELSE box[i - 1].upto
      BY <1>2 DEF Told, Joined
    <3>2. i # 1 => i - 1 \in 1..l
      BY <1>2
    <3> QED BY <3>1, <3>2, <1>2
  <2>6. t.last = t.inbox[Len(t.inbox)].upto
    BY <1>2
  <2>7. \A i \in DOMAIN t.inbox : i = l + 1 \/ i \in 1..l
    BY <1>2
  <2> QED BY <2>3, <2>4, <2>5, <2>6, <2>7, <1>2 DEF Joined
<1>5. Rising(t)
  <2>1. s.got <= s.last /\ s.last <= n /\ \A i \in 1..l : s.got <= box[i].upto /\ box[i].upto <= s.last
    BY <1>2 DEF Told, Rising
  <2>2. \A i, j \in 1..l : i <= j => box[i].upto <= box[j].upto
    BY <1>2 DEF Told, Rising
  <2>3. t.got <= t.last
    BY <2>1, <1>1
  <2>4. \A i \in DOMAIN t.inbox : t.got <= t.inbox[i].upto /\ t.inbox[i].upto <= t.last
    BY <2>1, <1>1, <1>2, <1>3
  <2>5. \A i, j \in DOMAIN t.inbox : i <= j => t.inbox[i].upto <= t.inbox[j].upto
    BY <2>1, <2>2, <1>1, <1>2, <1>3
  <2> QED BY <2>3, <2>4, <2>5 DEF Rising
<1>6. Roomy(t)
  BY <1>2, WatchAssumption DEF Told, Roomy
<1> QED BY <1>4, <1>5, <1>6 DEF Told

LEMMA ReceiveJoins ==
  ASSUME NEW s, NEW n \in Nat, Told(s, n), s.inbox # <<>>,
         NEW t, t \in Streams, t.inbox = Tail(s.inbox), t.got = Head(s.inbox).upto,
         t.last = s.last, t.at = s.at, t.sampled = s.sampled
  PROVE  Told(t, n)
<1> DEFINE box == s.inbox
           l == Len(s.inbox)
<1>1. box \in Seq(Ticks) /\ s.last \in Nat /\ s.got \in Nat
  BY DEF Told, Streams
<1>2. /\ l \in Nat \ {0} /\ Len(t.inbox) = l - 1
      /\ \A i \in 1..(l - 1) : t.inbox[i] = box[i + 1]
      /\ DOMAIN t.inbox = 1..(l - 1) /\ DOMAIN box = 1..l
      /\ t.got = box[1].upto /\ 1 \in 1..l
  BY <1>1
<1>7. t.inbox \in Seq(Ticks) /\ (t.inbox = <<>> <=> l = 1)
  <2>1. t.inbox \in Seq(Ticks)
    BY DEF Streams
  <2>2. t.inbox = <<>> <=> Len(t.inbox) = 0
    BY <2>1, EmptySeq
  <2>3. Len(t.inbox) = l - 1 /\ l \in Nat
    BY <1>2
  <2>4. Len(t.inbox) = 0 <=> l = 1
    BY <2>3
  <2> QED BY <2>1, <2>2, <2>4
<1>3. \A i \in 1..l : box[i] \in Ticks /\ box[i].upto \in Nat /\ box[i].from \in Nat
  <2>1. \A i \in 1..l : box[i] \in Ticks
    BY <1>1, <1>2
  <2> QED BY <2>1 DEF Ticks
<1>4. Joined(t)
  <2>1. ASSUME NEW i \in 1..(l - 1)
        PROVE  /\ t.inbox[i].from = (IF i = 1 THEN t.got ELSE t.inbox[i - 1].upto) + 1
               /\ t.inbox[i].upto >= IF i = 1 THEN t.got ELSE t.inbox[i - 1].upto
    <3>1. i + 1 \in 1..l /\ i + 1 # 1 /\ (i + 1) - 1 = i
      BY <1>2
    <3>2. /\ box[i + 1].from = box[i].upto + 1
          /\ box[i + 1].upto >= box[i].upto
      BY <3>1, <1>2 DEF Told, Joined
    <3>3. i # 1 => i - 1 \in 1..(l - 1) /\ (i - 1) + 1 = i
      BY <1>2
    <3> QED BY <3>2, <3>3, <1>2
  <2>2. s.last = box[l].upto
    BY <1>1, <1>2 DEF Told, Joined
  <2>3. t.last = IF t.inbox = <<>> THEN t.got ELSE t.inbox[Len(t.inbox)].upto
    <3>1. CASE l = 1
      BY <3>1, <2>2, <1>1, <1>2, <1>7
    <3>2. CASE l # 1
      BY <3>2, <2>2, <1>1, <1>2, <1>7
    <3> QED BY <3>1, <3>2
  <2> QED BY <2>1, <2>3, <1>2 DEF Joined
<1>5. Rising(t)
  <2>1. \A i \in 1..l : box[i].upto <= s.last
    BY <1>2 DEF Told, Rising
  <2>2. \A i, j \in 1..l : i <= j => box[i].upto <= box[j].upto
    BY <1>2 DEF Told, Rising
  <2>3. t.got <= t.last
    BY <2>1, <1>2
  <2>4. \A i \in DOMAIN t.inbox : t.got <= t.inbox[i].upto /\ t.inbox[i].upto <= t.last
    <3>1. \A i \in 1..(l - 1) : i + 1 \in 1..l /\ 1 <= i + 1
      BY <1>2
    <3> QED BY <3>1, <2>1, <2>2, <1>2
  <2>5. \A i, j \in DOMAIN t.inbox : i <= j => t.inbox[i].upto <= t.inbox[j].upto
    <3>1. \A i, j \in 1..(l - 1) : i <= j => i + 1 \in 1..l /\ j + 1 \in 1..l /\ i + 1 <= j + 1
      BY <1>2
    <3> QED BY <3>1, <2>2, <1>2
  <2> QED BY <2>3, <2>4, <2>5 DEF Rising
<1>6. Roomy(t)
  BY <1>2, WatchAssumption DEF Told, Roomy
<1> QED BY <1>4, <1>5, <1>6 DEF Told

LEMMA NewStream ==
  ASSUME NEW n \in Nat, NEW s, s = NoStream \/ s = [NoStream EXCEPT !.at = "open"]
  PROVE  Told(s, n)
<1>1. /\ s \in Streams /\ s.inbox = <<>> /\ s.last = 0 /\ s.got = 0
      /\ s.sampled = "none"
  <2>1. NoStream \in Streams /\ [NoStream EXCEPT !.at = "open"] \in Streams
    <3>1. <<>> \in Seq(Ticks)
      OBVIOUS
    <3> QED BY <3>1 DEF NoStream, Streams
  <2> QED BY <2>1 DEF NoStream
<1>2. DOMAIN s.inbox = {} /\ Len(s.inbox) = 0
  BY <1>1
<1>3. Joined(s) /\ Rising(s)
  BY <1>1, <1>2 DEF Joined, Rising
<1> QED BY <1>1, <1>2, <1>3, WatchAssumption DEF Told, Roomy

\* Nothing is done to what a stream has told; more may have happened.
LEMMA StreamRests ==
  ASSUME NEW s, NEW n \in Nat, NEW m \in Nat, n <= m, Told(s, n),
         NEW t, t \in Streams, t.inbox = s.inbox, t.last = s.last, t.got = s.got,
         t.sampled = "none" \/ Len(t.inbox) < MaxInbox \/ (t.at = s.at /\ t.sampled = s.sampled)
  PROVE  Told(t, m)
<1>1. s.last \in Nat
  BY DEF Told, Streams
<1> QED BY <1>1 DEF Told, Joined, Rising, Roomy

---------------------------------------------------------------------------
(* The job, step by step *)

LEMMA JobBegins == Init => JobInv
<1> SUFFICES ASSUME Init PROVE JobInv
  OBVIOUS
<1>1. status = "pending" /\ worker = "idle" /\ up = TRUE /\ events = 0 /\ sealed = 0
      /\ spent = [outages |-> 0, crashes |-> 0, restarts |-> 0]
  BY DEF Init
<1>2. Due = 2
  BY <1>1 DEF Due, Settled
<1> QED BY <1>1, <1>2, WatchAssumption DEF JobInv, Statuses, Settled, Workers, Placed, Allowed

LEMMA JobRests ==
  ASSUME JobInv, UNCHANGED <<job, worker, up>>,
         spent' \in [outages : 0..MaxOutages, crashes : 0..MaxCrashes, restarts : 0..MaxRestarts],
         spent'.outages = spent.outages, spent'.crashes = spent.crashes
  PROVE  JobInv'
<1>1. UNCHANGED <<status, events, sealed, worker, up>>
  BY DEF job
<1>2. Due' = Due /\ Allowed' = Allowed
  BY <1>1 DEF Due, Allowed
<1> QED BY <1>1, <1>2 DEF JobInv, Placed

\* The worker, and the service that dies and comes back: events are only added.
Writes == WorkerStep \/ PauseParked \/ Crash \/ Restart

LEMMA JobMoves ==
  ASSUME JobInv, Writes
  PROVE  JobInv' /\ events <= events'
<1>1. /\ events \in Nat /\ sealed \in 0..events /\ spent.outages \in Nat /\ spent.crashes \in Nat
      /\ {MaxOutages, MaxCrashes} \subseteq Nat
  BY WatchAssumption DEF JobInv
<1> USE DEF JobInv, Placed, Due, Allowed, Statuses, Settled, Workers, SetStatus, RecordEvent, job
<1>2. CASE StartJob
  BY <1>1, <1>2 DEF StartJob
<1>3. CASE RunStarted
  BY <1>1, <1>3 DEF RunStarted
<1>4. CASE FinishJob
  BY <1>1, <1>4 DEF FinishJob
<1>5. CASE RunFinished
  BY <1>1, <1>5 DEF RunFinished
<1>6. CASE Probe
  BY <1>1, <1>6 DEF Probe
<1>7. CASE JobStalled
  BY <1>1, <1>7 DEF JobStalled
<1>8. CASE Unstall
  BY <1>1, <1>8 DEF Unstall
<1>9. CASE JobUnstalled
  BY <1>1, <1>9 DEF JobUnstalled
<1>10. CASE PauseParked
  BY <1>1, <1>10 DEF PauseParked
<1>11. CASE Crash
  <2>1. /\ UNCHANGED <<status, events, sealed>> /\ worker' = "idle" /\ up' = FALSE
        /\ spent'.crashes = spent.crashes + 1 /\ spent'.outages = spent.outages
        /\ spent' \in [outages : 0..MaxOutages, crashes : 0..MaxCrashes, restarts : 0..MaxRestarts]
    <3> HIDE DEF Due, Allowed, Placed, Statuses, Settled
    <3>1. /\ UNCHANGED <<status, events, sealed>> /\ worker' = "idle" /\ up' = FALSE
          /\ spent.crashes < MaxCrashes /\ spent' = [spent EXCEPT !.crashes = @ + 1]
      BY <1>11 DEF Crash
    <3>2. spent \in [outages : 0..MaxOutages, crashes : 0..MaxCrashes, restarts : 0..MaxRestarts]
      OBVIOUS
    <3>3. spent.crashes + 1 \in 0..MaxCrashes
      BY <3>1, <3>2, <1>1
    <3> QED BY <3>1, <3>2, <3>3
  <2>2. Allowed' = Allowed + 3
    BY <1>1, <2>1
  <2>3. Due' <= Due + 3
    <3>1. CASE status = "pending"
      BY <2>1, <3>1
    <3>2. CASE status \in {"running", "stalled"}
      BY <2>1, <3>2
    <3>3. CASE status \in Settled
      BY <2>1, <3>3
    <3> QED BY <3>1, <3>2, <3>3
  <2>4. Due \in Nat /\ Due' \in Nat
    BY <2>1
  <2>5. events' + Due' <= Allowed'
    BY <1>1, <2>1, <2>2, <2>3, <2>4
  <2>6. Placed'
    BY <2>1
  <2> QED
    <3> HIDE DEF Due, Allowed, Placed, Statuses, Settled
    <3>1. events' = events /\ sealed' = sealed /\ status' = status /\ worker' = "idle" /\ up' = FALSE
      BY <2>1
    <3>2. status' \in Statuses /\ events' \in Nat /\ sealed' \in 0..events' /\ worker' \in Workers
      BY <3>1
    <3>3. JobInv'
      BY <3>1, <3>2, <2>1, <2>5, <2>6
    <3> QED BY <1>1, <3>1, <3>3
<1>12. CASE Restart
  BY <1>1, <1>12 DEF Restart
<1> QED BY <1>2, <1>3, <1>4, <1>5, <1>6, <1>7, <1>8, <1>9, <1>10, <1>11, <1>12 DEF Writes, WorkerStep

---------------------------------------------------------------------------
(* The followers, step by step *)

LEMMA FollowBegins == Init => FollowInv
<1> SUFFICES ASSUME Init PROVE FollowInv
  OBVIOUS
<1>1. \A w \in Watchers : stream[w] = NoStream
  BY DEF Init
<1>2. \A w \in Watchers : Told(stream[w], events)
  BY <1>1, NewStream DEF Init
<1>3. stream \in [Watchers -> Streams]
  <2>1. Told(NoStream, 0)
    BY NewStream
  <2> QED BY <2>1 DEF Init, Told
<1>4. watch \in [Watchers -> Watches] /\ \A w \in Watchers : watch[w].at = "start" /\ watch[w].result = "none"
  BY DEF Init, Watches
<1> QED BY <1>2, <1>3, <1>4 DEF FollowInv, Fits

LEMMA WritesAreSeen ==
  ASSUME JobInv, FollowInv, Writes
  PROVE  FollowInv'
<1>1. events \in Nat /\ events' \in Nat /\ events <= events'
  BY JobMoves DEF JobInv
<1>2. watch' = watch
  BY DEF Writes, WorkerStep, StartJob, RunStarted, FinishJob, RunFinished, Probe, JobStalled,
     Unstall, JobUnstalled, PauseParked, Crash, Restart, Followers
<1>3. /\ stream' \in [Watchers -> Streams]
      /\ \A w \in Watchers :
           /\ stream'[w] \in Streams /\ stream'[w].inbox = stream[w].inbox
           /\ stream'[w].last = stream[w].last /\ stream'[w].got = stream[w].got
           /\ \/ stream'[w].sampled = "none"
              \/ stream'[w].at = stream[w].at /\ stream'[w].sampled = stream[w].sampled
           /\ stream[w].at # "none" => stream'[w].at # "none"
  <2>1. CASE Crash
    <3>1. stream' = [w \in Watchers |->
            IF stream[w].at = "open" THEN [stream[w] EXCEPT !.at = "broken", !.sampled = "none"] ELSE stream[w]]
      BY <2>1 DEF Crash
    <3>2. \A w \in Watchers : stream[w] \in Streams
      BY DEF FollowInv
    <3>3. ASSUME NEW x, x \in Streams
          PROVE  /\ [x EXCEPT !.at = "broken", !.sampled = "none"] \in Streams
                 /\ [x EXCEPT !.at = "broken", !.sampled = "none"].inbox = x.inbox
                 /\ [x EXCEPT !.at = "broken", !.sampled = "none"].last = x.last
                 /\ [x EXCEPT !.at = "broken", !.sampled = "none"].got = x.got
                 /\ [x EXCEPT !.at = "broken", !.sampled = "none"].at = "broken"
                 /\ [x EXCEPT !.at = "broken", !.sampled = "none"].sampled = "none"
      BY <3>3 DEF Streams
    <3> QED BY <3>1, <3>2, <3>3
  <2>2. CASE ~Crash
    <3>1. stream' = stream
      BY <2>2 DEF Writes, WorkerStep, StartJob, RunStarted, FinishJob, RunFinished, Probe, JobStalled,
         Unstall, JobUnstalled, PauseParked, Restart, Followers
    <3> QED BY <3>1 DEF FollowInv
  <2> QED BY <2>1, <2>2
<1>4. \A w \in Watchers : Told(stream'[w], events')
  <2> TAKE w \in Watchers
  <2>1. Told(stream[w], events)
    BY DEF FollowInv
  <2> QED BY <2>1, <1>1, <1>3, StreamRests
<1>5. \A w \in Watchers : Fits(watch'[w], stream'[w])
  BY <1>2, <1>3 DEF FollowInv, Fits
<1>6. watch' \in [Watchers -> Watches]
  BY <1>2 DEF FollowInv
<1> QED BY <1>3, <1>4, <1>5, <1>6 DEF FollowInv

\* A step of one follower, which leaves the others as they are.
LEMMA OneFollows ==
  ASSUME FollowInv, UNCHANGED events, NEW w \in Watchers,
         NEW s, Told(s, events), NEW x, Fits(x, s),
         stream' = [stream EXCEPT ![w] = s], watch' = [watch EXCEPT ![w] = x]
  PROVE  FollowInv'
<1>1. s \in Streams /\ x \in Watches
  BY DEF Told, Fits
<1>2. stream' \in [Watchers -> Streams] /\ watch' \in [Watchers -> Watches]
  BY <1>1 DEF FollowInv
<1>3. \A v \in Watchers : stream'[v] = (IF v = w THEN s ELSE stream[v]) /\ watch'[v] = IF v = w THEN x ELSE watch[v]
  BY DEF FollowInv
<1> QED BY <1>2, <1>3 DEF FollowInv

LEMMA ServedFits ==
  ASSUME JobInv, FollowInv, NEW w \in Watchers, Serve(w)
  PROVE  FollowInv'
<1> DEFINE s == stream[w]
<1>1. /\ s \in Streams /\ Told(s, events) /\ Fits(watch[w], s) /\ events \in Nat /\ status \in Statuses
      /\ watch' = [watch EXCEPT ![w] = watch[w]] /\ UNCHANGED events
      /\ stream \in [Watchers -> Streams]
  BY DEF JobInv, FollowInv, Serve, Sample, Tick, job
<1>2. CASE Sample(w)
  <2>1. PICK t : t = [s EXCEPT !.sampled = status, !.seen = events]
    OBVIOUS
  <2>2. /\ t \in Streams /\ t.inbox = s.inbox /\ t.last = s.last /\ t.got = s.got /\ t.at = s.at
    BY <2>1, <1>1 DEF Streams
  <2>3. stream' = [stream EXCEPT ![w] = t] /\ Len(s.inbox) < MaxInbox
    BY <1>2, <2>1, <1>1 DEF Sample, Streams
  <2>4. Told(t, events)
    BY <2>2, <2>3, <1>1, StreamRests
  <2>5. Fits(watch[w], t)
    BY <2>2, <1>1 DEF Fits
  <2> QED BY <2>3, <2>4, <2>5, <1>1, OneFollows
<1>3. CASE Tick(w)
  <2>1. PICK k : k = [status |-> s.sampled, from |-> s.last + 1, upto |-> events]
    OBVIOUS
  <2>2. k \in Ticks /\ k.from = s.last + 1 /\ k.upto = events /\ k.status = s.sampled
    BY <2>1, <1>1, <1>3 DEF Ticks, Streams, Tick
  <2>3. PICK t : t = [s EXCEPT !.inbox = Append(@, k), !.last = events, !.sampled = "none",
                               !.at = IF k.status \in Settled THEN "closed" ELSE "open"]
    OBVIOUS
  <2>4. stream' = [stream EXCEPT ![w] = t] /\ s.at = "open" /\ s.sampled # "none"
    BY <1>3, <2>1, <2>3, <1>1 DEF Tick, Snapshot, Advanced, Streams
  <2>5. Append(s.inbox, k) \in Seq(Ticks)
    BY <2>2, <1>1 DEF Streams
  <2>6. /\ t \in Streams /\ t.inbox = Append(s.inbox, k) /\ t.last = events /\ t.got = s.got
        /\ t.sampled = "none" /\ t.at # "none"
    BY <2>3, <2>5, <1>1 DEF Streams
  <2>7. Told(t, events)
    BY <2>2, <2>4, <2>6, <1>1, TickJoins
  <2>8. Fits(watch[w], t)
    BY <2>6, <1>1 DEF Fits
  <2> QED BY <2>4, <2>7, <2>8, <1>1, OneFollows
<1> QED BY <1>2, <1>3 DEF Serve

LEMMA FollowedFits ==
  ASSUME JobInv, FollowInv, NEW w \in Watchers, Follow(w) \/ StartAgain(w)
  PROVE  FollowInv'
<1> DEFINE s == stream[w]
<1>1. /\ s \in Streams /\ Told(s, events) /\ Fits(watch[w], s) /\ events \in Nat /\ status \in Statuses
      /\ UNCHANGED events /\ stream \in [Watchers -> Streams] /\ watch \in [Watchers -> Watches]
      /\ watch[w] \in Watches
  BY DEF JobInv, FollowInv, Follow, Connect, Receive, Ended, Check, Waited, Reconnect, StartAgain, job
<1>2. ASSUME NEW at \in {"reading", "check", "waiting", "reconnecting", "failed", "start"},
             watch[w].at # "done", NEW t, Told(t, events), at = "reading" => t.at # "none",
             Goes(w, at), stream' = [stream EXCEPT ![w] = t]
      PROVE  FollowInv'
  <2>1. PICK x : x = [watch[w] EXCEPT !.at = at]
    OBVIOUS
  <2>2. watch' = [watch EXCEPT ![w] = x]
    BY <1>2, <2>1, <1>1 DEF Goes
  <2>3. x \in Watches /\ x.at = at /\ x.result = watch[w].result
    BY <2>1, <1>1 DEF Watches
  <2>4. Fits(x, t)
    BY <1>1, <1>2, <2>3 DEF Fits
  <2> QED BY <1>1, <1>2, <2>2, <2>4, OneFollows
<1>3. ASSUME UNCHANGED stream PROVE stream' = [stream EXCEPT ![w] = s]
  BY <1>1, <1>3
<1>4. CASE Connect(w)
  <2>1. watch[w].at = "start"
    BY <1>4 DEF Connect
  <2>2. CASE up
    <3>1. PICK t : t = [NoStream EXCEPT !.at = "open"]
      OBVIOUS
    <3>2. t.at # "none" /\ Told(t, events)
      BY <3>1, <1>1, NewStream DEF NoStream
    <3>3. stream' = [stream EXCEPT ![w] = t] /\ Goes(w, "reading")
      BY <1>4, <2>2, <3>1 DEF Connect
    <3> QED BY <1>2, <2>1, <3>2, <3>3
  <2>3. CASE ~up
    BY <1>1, <1>2, <1>3, <1>4, <2>1, <2>3 DEF Connect, Lost
  <2> QED BY <2>2, <2>3
<1>5. CASE Receive(w)
  <2>1. PICK t : t = [s EXCEPT !.inbox = Tail(@), !.got = Head(s.inbox).upto]
    OBVIOUS
  <2>2. s.inbox # <<>> /\ stream' = [stream EXCEPT ![w] = t] /\ watch' = [watch EXCEPT ![w] = watch[w]]
    BY <1>5, <2>1, <1>1 DEF Receive, Streams
  <2>3. s.inbox \in Seq(Ticks)
    BY <1>1 DEF Streams
  <2>4. Tail(s.inbox) \in Seq(Ticks) /\ Head(s.inbox) \in Ticks
    BY <2>2, <2>3
  <2>5. Head(s.inbox).upto \in Nat
    BY <2>4 DEF Ticks
  <2>6. /\ t \in Streams /\ t.inbox = Tail(s.inbox) /\ t.got = Head(s.inbox).upto /\ t.last = s.last
        /\ t.at = s.at /\ t.sampled = s.sampled
    BY <2>1, <2>4, <2>5, <1>1 DEF Streams
  <2>7. Told(t, events)
    BY <2>2, <2>6, <1>1, ReceiveJoins
  <2>8. Fits(watch[w], t)
    BY <2>6, <1>1 DEF Fits
  <2> QED BY <2>2, <2>7, <2>8, <1>1, OneFollows
<1>6. CASE Ended(w)
  <2>1. watch[w].at = "reading" /\ UNCHANGED stream
        /\ (Goes(w, "check") \/ Goes(w, "reconnecting") \/ Goes(w, "failed"))
    BY <1>6 DEF Ended, Lost
  <2> QED BY <1>1, <1>2, <1>3, <2>1
<1>7. CASE Check(w)
  <2>1. watch[w].at = "check" /\ UNCHANGED stream
    BY <1>7 DEF Check
  <2>2. CASE up /\ status \in Settled
    <3>1. PICK x : x = [watch[w] EXCEPT !.at = "done", !.result = status]
      OBVIOUS
    <3>2. watch' = [watch EXCEPT ![w] = x]
      BY <1>7, <2>2, <3>1, <1>1 DEF Check
    <3>3. x \in Watches /\ x.at = "done" /\ x.result # "none"
      BY <3>1, <2>2, <1>1 DEF Watches, Settled
    <3>4. Fits(x, s)
      BY <3>3 DEF Fits
    <3> QED BY <1>1, <1>3, <2>1, <3>2, <3>4, OneFollows
  <2>3. CASE ~(up /\ status \in Settled)
    <3>1. Goes(w, "reconnecting") \/ Goes(w, "failed") \/ Goes(w, "waiting") \/ Goes(w, "start")
      BY <1>7, <2>3, Zenon DEF Check, Lost, WatchOn
    <3> QED BY <1>1, <1>2, <1>3, <2>1, <3>1
  <2> QED BY <2>2, <2>3
<1>8. CASE Waited(w)
  BY <1>1, <1>2, <1>3, <1>8 DEF Waited
<1>9. CASE Reconnect(w)
  BY <1>1, <1>2, <1>3, <1>9 DEF Reconnect
<1>10. CASE StartAgain(w)
  <2>1. PICK x : x = [watch[w] EXCEPT !.at = "start", !.result = "none"]
    OBVIOUS
  <2>2. watch' = [watch EXCEPT ![w] = x] /\ stream' = [stream EXCEPT ![w] = NoStream]
    BY <1>10, <2>1, <1>1 DEF StartAgain
  <2>3. x \in Watches /\ x.at = "start" /\ x.result = "none"
    BY <2>1, <1>1 DEF Watches
  <2>4. Fits(x, NoStream) /\ Told(NoStream, events)
    BY <2>3, <1>1, NewStream DEF Fits
  <2> QED BY <1>1, <2>2, <2>4, OneFollows
<1> QED BY <1>4, <1>5, <1>6, <1>7, <1>8, <1>9, <1>10 DEF Follow

---------------------------------------------------------------------------
LEMMA InvHolds == Spec => []Inv
<1>1. Init => Inv
  BY JobBegins, FollowBegins DEF Inv
<1>2. Inv /\ [Next]_vars => Inv'
  <2> SUFFICES ASSUME Inv, [Next]_vars PROVE Inv'
    OBVIOUS
  <2>1. CASE Writes
    BY <2>1, JobMoves, WritesAreSeen DEF Inv
  <2>2. ASSUME NEW w \in Watchers, Serve(w) \/ Follow(w) \/ StartAgain(w) PROVE Inv'
    <3>1. UNCHANGED <<job, worker, up>> /\ spent'.outages = spent.outages /\ spent'.crashes = spent.crashes
          /\ spent' \in [outages : 0..MaxOutages, crashes : 0..MaxCrashes, restarts : 0..MaxRestarts]
      <4>1. spent \in [outages : 0..MaxOutages, crashes : 0..MaxCrashes, restarts : 0..MaxRestarts]
        BY DEF Inv, JobInv
      <4>2. UNCHANGED <<job, worker, up>>
        BY <2>2 DEF Serve, Sample, Tick, Follow, Connect, Receive, Ended, Check, Waited, Reconnect, StartAgain, service
      <4>3. CASE StartAgain(w)
        <5>1. spent' = [spent EXCEPT !.restarts = @ + 1] /\ spent.restarts + 1 \in 0..MaxRestarts
          BY <4>1, <4>3, WatchAssumption DEF StartAgain
        <5> QED BY <4>1, <4>2, <5>1
      <4>4. CASE ~StartAgain(w)
        BY <2>2, <4>1, <4>2, <4>4 DEF Serve, Sample, Tick, Follow, Connect, Receive, Ended, Check, Waited, Reconnect
      <4> QED BY <4>3, <4>4
    <3> QED BY <2>2, <3>1, JobRests, ServedFits, FollowedFits DEF Inv
  <2>3. CASE UNCHANGED vars
    <3>1. JobInv'
      BY <2>3, JobRests DEF Inv, JobInv, vars, job, service
    <3>2. FollowInv'
      BY <2>3 DEF Inv, FollowInv, vars, job, service
    <3> QED BY <3>1, <3>2 DEF Inv
  <2> QED BY <2>1, <2>2, <2>3 DEF Next, Writes
<1> QED BY <1>1, <1>2, PTL DEF Spec

\* Every stream carries every event once and in order, and the one that ends with the
\* job at rest carries all there was to tell (service/sse.py:42-89).
THEOREM StreamsTellAll == Spec => StreamTellsAll
<1>1. Inv => NoGap
  BY DEF Inv, FollowInv, Told, Joined, NoGap
<1>2. Inv /\ [Next]_vars =>
        [\A w \in Watchers :
           stream[w].at = "open" /\ stream'[w].at = "closed" /\ status \in Settled
             => stream'[w].last >= sealed]_vars
  <2> SUFFICES ASSUME Inv, Next, NEW w \in Watchers, stream[w].at = "open", stream'[w].at = "closed"
               PROVE  stream'[w].last >= sealed
    BY DEF vars, job, service
  <2>1. stream[w] \in Streams /\ stream \in [Watchers -> Streams] /\ sealed \in Nat /\ events \in Nat /\ sealed <= events
    BY DEF Inv, JobInv, FollowInv
  <2>2. CASE Tick(w)
    <3>1. stream'[w].last = events
      BY <2>1, <2>2 DEF Tick, Snapshot, Advanced, Streams
    <3> QED BY <2>1, <3>1
  <2>3. ASSUME NEW v \in Watchers, Serve(v) \/ Follow(v) \/ StartAgain(v), ~Tick(w)
        PROVE  FALSE
    <3>1. CASE v # w
      <4>1. CASE Tick(v) \/ Sample(v)
        BY <2>1, <3>1, <4>1 DEF Tick, Sample
      <4>2. CASE Receive(v)
        BY <2>1, <3>1, <4>2 DEF Receive
      <4>3. CASE ~(Tick(v) \/ Sample(v) \/ Receive(v))
        BY <2>1, <2>3, <3>1, <4>3 DEF Serve, Follow, Connect, Ended, Check, Waited, Reconnect, StartAgain
      <4> QED BY <4>1, <4>2, <4>3
    <3>2. CASE v = w
      <4>1. stream'[w].at = stream[w].at \/ stream'[w].at \in {"open", "none"}
        <5>1. CASE Sample(w) \/ Receive(w)
          BY <2>1, <5>1 DEF Sample, Receive, Streams
        <5>2. CASE Connect(w) \/ StartAgain(w)
          BY <2>1, <5>2 DEF Connect, StartAgain, NoStream
        <5>3. CASE Ended(w) \/ Check(w) \/ Waited(w) \/ Reconnect(w)
          BY <2>1, <5>3 DEF Ended, Check, Waited, Reconnect
        <5> QED BY <2>3, <3>2, <5>1, <5>2, <5>3 DEF Serve, Follow
      <4> QED BY <4>1
    <3> QED BY <3>1, <3>2
  <2>4. CASE Writes
    <3>1. stream'[w].at = stream[w].at \/ stream'[w].at = "broken"
      <4>1. CASE Crash
        BY <2>1, <4>1 DEF Crash, Streams
      <4>2. CASE ~Crash
        BY <2>4, <4>2 DEF Writes, WorkerStep, StartJob, RunStarted, FinishJob, RunFinished, Probe, JobStalled,
           Unstall, JobUnstalled, PauseParked, Restart, Followers
      <4> QED BY <4>1, <4>2
    <3> QED BY <3>1
  <2> QED BY <2>2, <2>3, <2>4 DEF Next, Writes
<1> QED BY <1>1, <1>2, InvHolds, PTL DEF Spec, StreamTellsAll, LastTickIsComplete

\* Streams, watches and the worker they look at are in states that fit each other, and no
\* run, outage or crash records more events than are counted for it.
LEMMA WatchTypes == Spec => []TypeOK
<1>1. Inv => TypeOK
  <2> SUFFICES ASSUME Inv PROVE TypeOK
    OBVIOUS
  <2>1. JobInv /\ FollowInv
    BY DEF Inv
  <2>2. events \in 0..MaxEvents
    <3>1. Due \in Nat
      <4>1. CASE worker = "idle"
        BY <2>1, <4>1 DEF JobInv, Placed, Due, Statuses, Settled
      <4>2. CASE worker # "idle"
        BY <2>1, <4>2 DEF JobInv, Due, Workers
      <4> QED BY <4>1, <4>2
    <3>2. /\ events \in Nat /\ events + Due <= Allowed
          /\ spent.outages \in 0..MaxOutages /\ spent.crashes \in 0..MaxCrashes
          /\ MaxOutages \in Nat /\ MaxCrashes \in Nat
      BY <2>1, WatchAssumption DEF JobInv
    <3>3. Allowed <= MaxEvents /\ Allowed \in Nat /\ MaxEvents \in Nat
      BY <3>2 DEF Allowed, MaxEvents
    <3> QED BY <3>1, <3>2, <3>3
  <2>3. ASSUME NEW w \in Watchers
        PROVE  /\ stream[w].at \in {"none", "open", "closed", "broken"}
               /\ stream[w].last \in 0..events /\ stream[w].got \in 0..stream[w].last
               /\ stream[w].sampled \in Statuses \cup {"none"} /\ Len(stream[w].inbox) <= MaxInbox
               /\ watch[w].at \in {"start", "reading", "check", "waiting", "reconnecting", "done", "failed"}
               /\ watch[w].at = "done" <=> watch[w].result # "none"
               /\ watch[w].at = "reading" => stream[w].at # "none"
    <3>1. /\ stream[w] \in Streams /\ Rising(stream[w]) /\ Roomy(stream[w])
          /\ stream[w].last <= events /\ Fits(watch[w], stream[w]) /\ events \in Nat
      BY <2>1 DEF FollowInv, Told, JobInv
    <3> QED BY <3>1 DEF Streams, Rising, Roomy, Fits, Watches
  <2> QED BY <2>1, <2>2, <2>3 DEF TypeOK, JobInv, Workers
<1> QED BY <1>1, InvHolds, PTL

---------------------------------------------------------------------------
(* Counts, and the n-th of a set *)

CountOf(f, s) == Cardinality({i \in DOMAIN f : f[i] = s})

LEMMA SameCount == ASSUME NEW S PROVE Shown!Cardinality(S) = Cardinality(S)
BY DEF Shown!Cardinality, Cardinality

LEMMA IntervalCounts ==
  ASSUME NEW n \in Nat
  PROVE  IsFiniteSet(1..n) /\ Cardinality(1..n) = n
<1>1. IsFiniteSet(1..n) /\ Cardinality(1..n) = IF 1 > n THEN 0 ELSE n - 1 + 1
  BY FS_Interval
<1> QED BY <1>1

LEMMA PartsOfInterval ==
  ASSUME NEW n \in Nat, NEW S, S \subseteq 1..n
  PROVE  IsFiniteSet(S) /\ Cardinality(S) \in Nat /\ Cardinality(S) <= n
<1>1. S \in SUBSET (1..n) /\ IsFiniteSet(1..n) /\ Cardinality(1..n) = n
  BY IntervalCounts
<1>2. IsFiniteSet(S) /\ Cardinality(S) <= Cardinality(1..n)
  BY <1>1, FS_Subset
<1> QED BY <1>1, <1>2, FS_CardinalityType

LEMMA FirstIs == ASSUME NEW S \in SUBSET Nat, S # {} PROVE \E x \in S : \A y \in S : x <= y
<1>1. PICK x \in S : \A y \in S : ~ (<<y, x>> \in OpToRel(<, Nat))
  BY WFMin, NatLessThanWellFounded, Zenon
<1>2. \A y \in S : ~ (y < x)
  BY <1>1, Zenon DEF OpToRel
<1> QED BY <1>2

LEMMA ApartAdds ==
  ASSUME NEW A, NEW B, IsFiniteSet(A), IsFiniteSet(B), A \cap B = {}
  PROVE  IsFiniteSet(A \cup B) /\ Cardinality(A \cup B) = Cardinality(A) + Cardinality(B)
<1>1. /\ IsFiniteSet(A \cup B)
      /\ Cardinality(A \cup B) = Cardinality(A) + Cardinality(B) - Cardinality(A \cap B)
  BY FS_Union
<1>2. Cardinality(A \cap B) = 0 /\ Cardinality(A) \in Nat /\ Cardinality(B) \in Nat
  BY FS_EmptySet, FS_CardinalityType
<1> QED BY <1>1, <1>2

\* The states of a sequence's elements are counted apart, each element once.
LEMMA CountsAdd ==
  ASSUME NEW f \in Seq(Shown!States)
  PROVE  /\ \A s \in Shown!States : CountOf(f, s) \in Nat
         /\ CountOf(f, "pending") + CountOf(f, "verified") + CountOf(f, "failed") = Len(f)
<1> DEFINE A(s) == {i \in DOMAIN f : f[i] = s}
<1>1. DOMAIN f = 1..Len(f) /\ Len(f) \in Nat /\ \A i \in 1..Len(f) : f[i] \in Shown!States
  OBVIOUS
<1>2. \A s : IsFiniteSet(A(s)) /\ Cardinality(A(s)) \in Nat
  BY <1>1, PartsOfInterval
<1>3. (A("pending") \cup A("verified")) \cup A("failed") = 1..Len(f)
  BY <1>1 DEF Shown!States
<1>4. A("pending") \cap A("verified") = {} /\ (A("pending") \cup A("verified")) \cap A("failed") = {}
  OBVIOUS
<1>5. /\ IsFiniteSet(A("pending") \cup A("verified"))
      /\ Cardinality(A("pending") \cup A("verified")) = Cardinality(A("pending")) + Cardinality(A("verified"))
  BY <1>2, <1>4, ApartAdds
<1>6. Cardinality(1..Len(f)) = Cardinality(A("pending") \cup A("verified")) + Cardinality(A("failed"))
  <2>1. Cardinality((A("pending") \cup A("verified")) \cup A("failed"))
          = Cardinality(A("pending") \cup A("verified")) + Cardinality(A("failed"))
    <3> HIDE DEF A
    <3> QED BY <1>2, <1>4, <1>5, ApartAdds
  <2> QED BY <2>1, <1>3
<1>9. CountOf(f, "pending") = Cardinality(A("pending")) /\ CountOf(f, "verified") = Cardinality(A("verified"))
      /\ CountOf(f, "failed") = Cardinality(A("failed")) /\ \A s : CountOf(f, s) = Cardinality(A(s))
  BY DEF CountOf
<1> HIDE DEF A
<1> QED BY <1>1, <1>2, <1>5, <1>6, <1>9, IntervalCounts

LEMMA CountRises ==
  ASSUME NEW f \in Seq(Shown!States), NEW i \in DOMAIN f, f[i] # "verified", NEW s \in Shown!States
  PROVE  LET g == [f EXCEPT ![i] = s]
         IN CountOf(g, "verified") = CountOf(f, "verified") + (IF s = "verified" THEN 1 ELSE 0)
<1> DEFINE g == [f EXCEPT ![i] = s]
           A == {j \in DOMAIN f : f[j] = "verified"}
<1>1. DOMAIN f = 1..Len(f) /\ Len(f) \in Nat
  OBVIOUS
<1>2. IsFiniteSet(A) /\ Cardinality(A) \in Nat
  BY <1>1, PartsOfInterval
<1>3. {j \in DOMAIN g : g[j] = "verified"} = A \cup (IF s = "verified" THEN {i} ELSE {})
  OBVIOUS
<1>4. i \notin A
  OBVIOUS
<1>5. Cardinality(A \cup {i}) = Cardinality(A) + 1
  <2> HIDE DEF A
  <2> QED BY <1>2, <1>4, FS_AddElement
<1>6. A \cup {} = A
  OBVIOUS
<1>7. CountOf(g, "verified") = Cardinality(A \cup (IF s = "verified" THEN {i} ELSE {})) /\ CountOf(f, "verified") = Cardinality(A)
  BY <1>3 DEF CountOf
<1>8. CASE s = "verified"
  <2> HIDE DEF A, g
  <2> QED BY <1>2, <1>5, <1>7, <1>8 DEF g
<1>9. CASE s # "verified"
  <2> HIDE DEF A, g
  <2> QED BY <1>2, <1>6, <1>7, <1>9 DEF g
<1> QED BY <1>8, <1>9

\* The n-th of a set of numbers is one of them.
LEMMA NthIs ==
  ASSUME NEW n \in Nat, NEW S, S \subseteq 1..n, NEW k \in 1..Cardinality(S)
  PROVE  Shown!Nth(S, k) \in S
<1> DEFINE G(x) == {j \in S : j <= x}
           g(x) == Cardinality(G(x))
           X == {x \in Nat : g(x) >= k}
<1>1. \A x : IsFiniteSet(G(x)) /\ g(x) \in Nat
  <2>1. \A x : G(x) \subseteq 1..n
    OBVIOUS
  <2> HIDE DEF G
  <2> QED BY <2>1, PartsOfInterval
<1>2. G(n) = S /\ G(0) = {} /\ Cardinality(S) \in Nat /\ k \in Nat \ {0}
  <2>1. Cardinality(S) \in Nat
    BY PartsOfInterval
  <2>5. \A j \in S : j \in Nat /\ j <= n /\ ~(j <= 0)
    OBVIOUS
  <2>2. G(n) = S
    BY <2>5
  <2>3. G(0) = {}
    BY <2>5
  <2>4. k \in Nat \ {0}
    BY <2>1
  <2> QED BY <2>1, <2>2, <2>3, <2>4
<1>3. n \in X /\ 0 \notin X
  <2>1. g(n) = Cardinality(S) /\ g(0) = 0
    BY <1>2, FS_EmptySet
  <2> HIDE DEF g
  <2> QED BY <2>1, <1>2
<1>4. PICK x \in X : \A y \in X : x <= y
  <2>1. X \in SUBSET Nat /\ X # {}
    BY <1>3
  <2> HIDE DEF X
  <2> QED BY <2>1, FirstIs
<1>5. x \in Nat /\ x # 0 /\ x - 1 \in Nat /\ ~(x <= x - 1)
  BY <1>3, <1>4
<1>6. g(x - 1) < k /\ g(x) >= k
  <2>1. x - 1 \notin X
    BY <1>4, <1>5
  <2>2. ~(g(x - 1) >= k)
    BY <2>1, <1>5
  <2>3. g(x - 1) \in Nat /\ k \in Nat
    BY <1>1, <1>2
  <2>4. g(x) >= k
    BY <1>4
  <2> HIDE DEF g
  <2> QED BY <2>2, <2>3, <2>4
<1>7. x \in S /\ G(x) = G(x - 1) \cup {x} /\ x \notin G(x - 1)
  <2>5. \A j \in Nat : j <= x <=> j <= x - 1 \/ j = x
    BY <1>5
  <2>6. S \subseteq Nat
    OBVIOUS
  <2>1. CASE x \in S
    BY <2>1, <2>5, <2>6, <1>5
  <2>2. CASE x \notin S
    <3>1. G(x) = G(x - 1)
      BY <2>2, <2>5, <2>6, <1>5
    <3>2. g(x) = g(x - 1) /\ g(x) \in Nat /\ k \in Nat
      BY <3>1, <1>1, <1>2
    <3> HIDE DEF g
    <3> QED BY <3>2, <1>6
  <2> QED BY <2>1, <2>2
<1>8. g(x) = g(x - 1) + 1
  <2>1. IsFiniteSet(G(x - 1))
    BY <1>1
  <2> HIDE DEF G
  <2> QED BY <2>1, <1>7, FS_AddElement
<1>9. g(x) = k
  <2>1. g(x) \in Nat /\ g(x - 1) \in Nat /\ k \in Nat
    BY <1>1, <1>2
  <2> HIDE DEF g
  <2> QED BY <2>1, <1>6, <1>8
<1>10. \E i \in S : Cardinality(Shown!UpTo(S, i)) = k
  <2>1. Shown!UpTo(S, x) = G(x)
    BY DEF Shown!UpTo
  <2> QED BY <2>1, <1>7, <1>9
<1> QED BY <1>10, SameCount DEF Shown!Nth

LEMMA NthOfAll ==
  ASSUME NEW n \in Nat, NEW k \in 1..n
  PROVE  Shown!Nth(1..n, k) = k
<1>1. \A i \in 1..n : Shown!UpTo(1..n, i) = 1..i
  BY DEF Shown!UpTo
<1>2. \A i \in 1..n : Cardinality(Shown!UpTo(1..n, i)) = i
  BY <1>1, IntervalCounts
<1>3. \A i \in 1..n : Cardinality(Shown!UpTo(1..n, i)) = k <=> i = k
  BY <1>2
<1>4. \E i \in 1..n : Cardinality(Shown!UpTo(1..n, i)) = k
  BY <1>3
<1>5. Shown!Nth(1..n, k) \in 1..n /\ Cardinality(Shown!UpTo(1..n, Shown!Nth(1..n, k))) = k
  BY <1>4, SameCount DEF Shown!Nth
<1> QED BY <1>3, <1>5

---------------------------------------------------------------------------
(* The pages of a table *)

Ids == 1..MaxFiles
Rows == [id : Ids, state : Shown!States]
Tables == [rows : Seq(Rows), exhausted : BOOLEAN, error : BOOLEAN, filter : Shown!States \cup {Shown!All}]
Listed(f) == f \in Seq(Shown!States) /\ Len(f) <= MaxFiles

LEMMA PageIs ==
  ASSUME Listed(files), NEW filter, NEW offset \in Nat,
         NEW page, page = Shown!GetPage(filter, offset)
  PROVE  /\ page \in Seq(Rows) /\ Len(page) <= PageSize
         /\ \A i \in 1..Len(page) : page[i].id \in DOMAIN files /\ page[i].state = files[page[i].id]
         /\ filter = Shown!All /\ offset <= Len(files) =>
              /\ \A i \in 1..Len(page) : page[i].id = offset + i
              /\ offset + Len(page) <= Len(files)
              /\ Len(page) < PageSize => offset + Len(page) = Len(files)
<1> DEFINE found == Shown!Matching(filter)
           c == Cardinality(found)
           D == {n \in 1..PageSize : offset + n <= c}
           m == IF c <= offset THEN 0 ELSE IF c - offset < PageSize THEN c - offset ELSE PageSize
           row(i) == [id |-> i, state |-> files[i]]
<1>1. /\ DOMAIN files = 1..Len(files) /\ Len(files) \in Nat /\ Len(files) <= MaxFiles /\ MaxFiles \in Nat
      /\ PageSize \in Nat \ {0} /\ \A i \in 1..Len(files) : files[i] \in Shown!States
  BY TableAssumption DEF Listed
<1>2. found \subseteq 1..Len(files)
  BY <1>1 DEF Shown!Matching
<1>3. c \in Nat /\ c <= Len(files)
  BY <1>1, <1>2, PartsOfInterval
<1>4. page = [n \in D |-> row(Shown!Nth(found, offset + n))]
  BY SameCount DEF Shown!GetPage
<1>5. D = 1..m /\ m \in Nat /\ m <= PageSize
  <2> HIDE DEF c
  <2> QED BY <1>1, <1>3
<1>6. \A n \in 1..m : offset + n \in 1..c
  <2> HIDE DEF c
  <2> QED BY <1>1, <1>3
<1>7. \A n \in 1..m : Shown!Nth(found, offset + n) \in found
  BY <1>1, <1>2, <1>6, NthIs
<1>8. /\ DOMAIN page = 1..m
      /\ \A n \in 1..m : page[n] = row(Shown!Nth(found, offset + n))
  <2> HIDE DEF D, m, row, found
  <2> QED BY <1>4, <1>5
<1>9. \A n \in 1..m : page[n].id = Shown!Nth(found, offset + n) /\ page[n].state = files[page[n].id]
                      /\ page[n] \in Rows /\ page[n].id \in DOMAIN files
  <2> TAKE n \in 1..m
  <2>1. PICK i \in found : i = Shown!Nth(found, offset + n)
    BY <1>7
  <2>2. page[n] = [id |-> i, state |-> files[i]]
    BY <1>8, <2>1
  <2>3. i \in 1..Len(files) /\ files[i] \in Shown!States /\ i \in Ids
    BY <1>1, <1>2 DEF Ids
  <2> QED BY <1>1, <2>1, <2>2, <2>3 DEF Rows
<1>10. page \in Seq(Rows) /\ Len(page) = m
  <2>1. page \in [1..m -> Rows]
    <3> HIDE DEF m, found, row, D
    <3>1. page = [n \in 1..m |-> page[n]]
      BY <1>4, <1>5, <1>8
    <3> QED BY <3>1, <1>9
  <2> HIDE DEF m
  <2> QED BY <2>1, <1>5
<1>11. ASSUME filter = Shown!All, offset <= Len(files)
       PROVE  /\ \A i \in 1..m : page[i].id = offset + i
              /\ offset + m <= Len(files)
              /\ m < PageSize => offset + m = Len(files)
  <2>1. found = 1..Len(files)
    BY <1>1, <1>11 DEF Shown!Matching
  <2>2. c = Len(files)
    BY <1>1, <2>1, IntervalCounts
  <2>3. \A i \in 1..m : offset + i \in 1..Len(files)
    BY <1>6, <2>2
  <2>4. \A i \in 1..m : Shown!Nth(1..Len(files), offset + i) = offset + i
    BY <1>1, <2>3, NthOfAll
  <2>5. \A i \in 1..m : page[i].id = offset + i
    BY <1>9, <2>1, <2>4
  <2>6. offset + m <= Len(files) /\ (m < PageSize => offset + m = Len(files))
    <3> HIDE DEF c
    <3>1. PageSize \in Nat \ {0} /\ Len(files) \in Nat /\ c \in Nat /\ c = Len(files) /\ offset <= c
      BY <1>1, <1>3, <1>11, <2>2
    <3>2. CASE c <= offset
      <4>1. m = 0 /\ c = offset
        BY <3>1, <3>2
      <4> QED BY <3>1, <4>1
    <3>3. CASE c > offset
      <4>1. m = IF c - offset < PageSize THEN c - offset ELSE PageSize
        BY <3>1, <3>3
      <4> HIDE DEF m
      <4> QED BY <3>1, <3>3, <4>1
    <3> QED BY <3>1, <3>2, <3>3
  <2> QED BY <2>5, <2>6
<1> HIDE DEF m
<1> QED BY <1>1, <1>5, <1>9, <1>10, <1>11

\* A table of the files f as they are now, or as they were: what it claims.
InOrder(t, f) ==
  t.filter = Shown!All => Len(t.rows) <= Len(f) /\ \A i \in 1..Len(t.rows) : t.rows[i].id = i
Whole(t) == \E pages \in Nat : Len(t.rows) = pages * PageSize
Good(t, f) ==
  /\ t \in Tables /\ InOrder(t, f)
  /\ ~t.exhausted => \E pages \in 1..Len(t.rows) : Len(t.rows) = pages * PageSize
  /\ t.error => t.exhausted

\* It shows what has arrived among the files f.
Arrived(t, f) ==
  ~t.error /\ t.filter = Shown!All =>
    /\ \A i \in 1..Len(t.rows) : f[i] = "verified" => t.rows[i].state = "verified"
    /\ t.exhausted => Len(t.rows) = Len(f)

LEMMA PagesCount ==
  ASSUME NEW l \in Nat, NEW q \in Nat, l = q * PageSize
  PROVE  \E pages \in 1..(l + PageSize) : l + PageSize = pages * PageSize
<1>1. PageSize \in Nat \ {0}
  BY TableAssumption
<1>2. l + PageSize = (q + 1) * PageSize
  BY <1>1
<1>3. q * PageSize >= q
  BY <1>1
<1>4. q + 1 \in 1..(l + PageSize)
  BY <1>1, <1>3
<1> QED BY <1>2, <1>4

LEMMA Halves ==
  ASSUME NEW l \in Nat, NEW m \in Nat
  PROVE  /\ \A i \in 1..l : i \in 1..(l + m) /\ i <= l
         /\ \A i \in (l + 1)..(l + m) : i \in 1..(l + m) /\ ~(i <= l) /\ i - l \in 1..m /\ l + (i - l) = i
         /\ \A i \in 1..(l + m) : i \in 1..l \/ i \in (l + 1)..(l + m)
OBVIOUS

LEMMA ExhaustedIs ==
  ASSUME NEW page
  PROVE  Shown!Exhausted(page) \in BOOLEAN /\ (Shown!Exhausted(page) <=> Len(page) < PageSize)
BY DEF Shown!Exhausted

\* Another page behind a whole number of them.
LEMMA PageJoins ==
  ASSUME Listed(files), NEW t \in Tables, InOrder(t, files), Whole(t), ~t.exhausted, ~t.error,
         NEW page, page = Shown!GetPage(t.filter, Len(t.rows)),
         NEW n \in Tables, n.rows = t.rows \o page, n.exhausted = Shown!Exhausted(page),
         n.error = t.error, n.filter = t.filter
  PROVE  Good(n, files) /\ (Arrived(t, files) => Arrived(n, files))
<1> DEFINE l == Len(t.rows)
<1>1. t.rows \in Seq(Rows) /\ l \in Nat
  BY DEF Tables
<1>2. /\ page \in Seq(Rows) /\ Len(page) <= PageSize
      /\ \A i \in 1..Len(page) : page[i].id \in DOMAIN files /\ page[i].state = files[page[i].id]
      /\ t.filter = Shown!All /\ l <= Len(files) =>
           /\ \A i \in 1..Len(page) : page[i].id = l + i
           /\ l + Len(page) <= Len(files)
           /\ Len(page) < PageSize => l + Len(page) = Len(files)
  <2>1. page = Shown!GetPage(t.filter, l) /\ l \in Nat
    BY <1>1
  <2> HIDE DEF l
  <2> QED BY <2>1, PageIs
<1>3. /\ n.rows = t.rows \o page /\ n.exhausted = Shown!Exhausted(page) /\ n.error = t.error /\ n.filter = t.filter
  OBVIOUS
<1>4. /\ Len(n.rows) = l + Len(page) /\ Len(page) \in Nat
      /\ \A i \in 1..l : n.rows[i] = t.rows[i]
      /\ \A i \in (l + 1)..(l + Len(page)) : n.rows[i] = page[i - l] /\ i - l \in 1..Len(page) /\ l + (i - l) = i
      /\ \A i \in 1..(l + Len(page)) : i \in 1..l \/ i \in (l + 1)..(l + Len(page))
  <2>1. page \in Seq(Rows) /\ Len(page) \in Nat
    BY <1>2
  <2>2. /\ Len(t.rows \o page) = l + Len(page)
        /\ \A i \in 1..(l + Len(page)) :
             (t.rows \o page)[i] = IF i <= l THEN t.rows[i] ELSE page[i - l]
    BY <1>1, <2>1, ConcatProperties
  <2>3. /\ \A i \in 1..l : i \in 1..(l + Len(page)) /\ i <= l
        /\ \A i \in (l + 1)..(l + Len(page)) :
             i \in 1..(l + Len(page)) /\ ~(i <= l) /\ i - l \in 1..Len(page) /\ l + (i - l) = i
        /\ \A i \in 1..(l + Len(page)) : i \in 1..l \/ i \in (l + 1)..(l + Len(page))
    <3> HIDE DEF l
    <3> QED BY <1>1, <2>1, Halves, Zenon
  <2> HIDE DEF l
  <2> QED BY <1>3, <2>1, <2>2, <2>3
<1>5. PageSize \in Nat \ {0} /\ Len(files) \in Nat
  BY TableAssumption DEF Listed
<1>6. InOrder(n, files)
  <2>1. SUFFICES ASSUME n.filter = Shown!All PROVE Len(n.rows) <= Len(files) /\ \A i \in 1..Len(n.rows) : n.rows[i].id = i
    BY DEF InOrder
  <2>2. l <= Len(files) /\ \A i \in 1..l : t.rows[i].id = i
    BY <1>3, <2>1 DEF InOrder
  <2>3. t.filter = Shown!All
    BY <1>3, <2>1
  <2>4. (\A i \in 1..Len(page) : page[i].id = l + i) /\ l + Len(page) <= Len(files)
    BY <1>2, <2>2, <2>3
  <2>5. \A i \in 1..l : n.rows[i].id = i
    BY <1>4, <2>2
  <2>6. \A i \in (l + 1)..(l + Len(page)) : n.rows[i].id = i
    BY <1>4, <2>4
  <2> HIDE DEF l
  <2> QED BY <1>4, <2>4, <2>5, <2>6
<1>7. ~n.exhausted => \E pages \in 1..Len(n.rows) : Len(n.rows) = pages * PageSize
  <2>1. SUFFICES ASSUME ~n.exhausted PROVE \E pages \in 1..Len(n.rows) : Len(n.rows) = pages * PageSize
    OBVIOUS
  <2>2. Len(page) = PageSize
    <3>1. Len(page) <= PageSize /\ ~(Len(page) < PageSize)
      BY <1>2, <1>3, <2>1, ExhaustedIs
    <3> QED BY <3>1, <1>4, <1>5
  <2>3. PICK q \in Nat : l = q * PageSize
    BY DEF Whole
  <2> QED BY <1>1, <1>4, <2>2, <2>3, PagesCount
<1>8. ASSUME Arrived(t, files) PROVE Arrived(n, files)
  <2>1. SUFFICES ASSUME n.filter = Shown!All
                 PROVE  /\ \A i \in 1..Len(n.rows) : files[i] = "verified" => n.rows[i].state = "verified"
                        /\ n.exhausted => Len(n.rows) = Len(files)
    BY DEF Arrived
  <2>2. l <= Len(files) /\ \A i \in 1..l : files[i] = "verified" => t.rows[i].state = "verified"
    BY <1>3, <1>8, <2>1 DEF InOrder, Arrived
  <2>3. \A i \in (l + 1)..(l + Len(page)) : n.rows[i].state = files[i]
    <3>1. t.filter = Shown!All
      BY <1>3, <2>1
    <3>2. \A i \in 1..Len(page) : page[i].id = l + i /\ page[i].state = files[page[i].id]
      BY <1>2, <2>2, <3>1
    <3>3. \A i \in 1..Len(page) : page[i].state = files[l + i]
      BY <3>2
    <3> HIDE DEF l
    <3> QED BY <1>4, <3>3
  <2>4. n.exhausted => l + Len(page) = Len(files)
    BY <1>2, <1>3, <2>1, <2>2, ExhaustedIs
  <2>5. \A i \in 1..l : files[i] = "verified" => n.rows[i].state = "verified"
    BY <1>4, <2>2
  <2> HIDE DEF l
  <2> QED BY <1>4, <2>3, <2>4, <2>5
<1> QED BY <1>3, <1>6, <1>7, <1>8 DEF Good

\* What has a table's fields is a table.
LEMMA TableIs ==
  ASSUME NEW n, n.rows \in Seq(Rows), n.exhausted \in BOOLEAN, n.error \in BOOLEAN,
         n.filter \in Shown!States \cup {Shown!All},
         n = [rows |-> n.rows, exhausted |-> n.exhausted, error |-> n.error, filter |-> n.filter]
  PROVE  n \in Tables
<1> DEFINE R == Seq(Rows)
           F == Shown!States \cup {Shown!All}
<1>1. n.rows \in R /\ n.filter \in F /\ Tables = [rows : R, exhausted : BOOLEAN, error : BOOLEAN, filter : F]
  BY DEF Tables
<1> HIDE DEF R, F
<1> QED BY <1>1

\* A table that was made empty, with its first page.
LEMMA FirstPage ==
  ASSUME Listed(files), NEW filter \in Shown!States \cup {Shown!All},
         NEW new, new = [Shown!Blank(filter) EXCEPT !.rows = Shown!GetPage(filter, 0),
                                                    !.exhausted = Shown!Exhausted(Shown!GetPage(filter, 0))]
  PROVE  Good(new, files) /\ Arrived(new, files) /\ new.filter = filter
<1>1. PICK t : t = Shown!Blank(filter)
  OBVIOUS
<1>2. PICK page : page = Shown!GetPage(filter, 0)
  OBVIOUS
<1>3. t = [rows |-> <<>>, exhausted |-> FALSE, error |-> FALSE, filter |-> filter]
  BY <1>1 DEF Shown!Blank
<1>4. page \in Seq(Rows)
  BY <1>2, PageIs
<1>5. PICK e \in BOOLEAN : e = Shown!Exhausted(page)
  BY ExhaustedIs
<1>6. PICK n : n = [rows |-> page, exhausted |-> e, error |-> FALSE, filter |-> filter] /\ n = new
  <2>1. new = [t EXCEPT !.rows = page, !.exhausted = Shown!Exhausted(page)]
    BY <1>1, <1>2
  <2>2. new = [t EXCEPT !.rows = page, !.exhausted = e]
    BY <2>1, <1>5
  <2> QED BY <1>3, <2>2
<1>7. n \in Tables /\ n.rows = page /\ n.exhausted = e /\ n.error = FALSE /\ n.filter = filter
  <2>1. /\ n.rows = page /\ n.exhausted = e /\ n.error = FALSE /\ n.filter = filter
        /\ n = [rows |-> n.rows, exhausted |-> n.exhausted, error |-> n.error, filter |-> n.filter]
    BY <1>6, SMT
  <2>2. n.rows \in Seq(Rows) /\ n.exhausted \in BOOLEAN /\ n.error \in BOOLEAN /\ n.filter \in Shown!States \cup {Shown!All}
    <3> HIDE DEF Rows
    <3> QED BY <1>4, <2>1
  <2>3. n \in Tables
    BY <2>1, <2>2, TableIs, Zenon
  <2> QED BY <2>1, <2>3
<1>8. t \in Tables /\ t.rows = <<>> /\ t.exhausted = FALSE /\ t.error = FALSE /\ t.filter = filter
  <2>1. <<>> \in Seq(Rows)
    OBVIOUS
  <2>2. /\ t.rows = <<>> /\ t.exhausted = FALSE /\ t.error = FALSE /\ t.filter = filter
        /\ t = [rows |-> t.rows, exhausted |-> t.exhausted, error |-> t.error, filter |-> t.filter]
    BY <1>3
  <2>3. t.rows \in Seq(Rows) /\ t.exhausted \in BOOLEAN /\ t.error \in BOOLEAN /\ t.filter \in Shown!States \cup {Shown!All}
    BY <2>1, <2>2
  <2>4. t \in Tables
    BY <2>2, <2>3, TableIs, Zenon
  <2> QED BY <2>2, <2>4
<1>9. InOrder(t, files) /\ Whole(t) /\ Arrived(t, files) /\ Len(t.rows) = 0
  <2>1. Len(files) \in Nat /\ PageSize \in Nat \ {0} /\ 0 = 0 * PageSize
    BY TableAssumption DEF Listed
  <2> QED BY <1>8, <2>1 DEF InOrder, Whole, Arrived
<1>10. page = Shown!GetPage(t.filter, Len(t.rows))
  BY <1>2, <1>8, <1>9
<1>11. t.rows \o page = page
  BY <1>4, <1>8
<1>12. n.rows = t.rows \o page /\ n.exhausted = Shown!Exhausted(page) /\ n.error = t.error /\ n.filter = t.filter
  BY <1>5, <1>7, <1>8, <1>11
<1>13. ~t.exhausted /\ ~t.error
  BY <1>8
<1>14. Good(n, files) /\ (Arrived(t, files) => Arrived(n, files))
  <2>1. InOrder(t, files) /\ Whole(t) /\ t \in Tables /\ n \in Tables
    BY <1>7, <1>8, <1>9
  <2> QED BY <2>1, <1>10, <1>12, <1>13, PageJoins
<1> QED BY <1>6, <1>7, <1>9, <1>14

LEMMA FetchIs ==
  ASSUME Listed(files), NEW t \in Tables, InOrder(t, files), Whole(t), ~t.exhausted, ~t.error,
         used \in [retries : Nat, failures : Nat, gestures : Nat],
         Shown!FetchMore(t)
  PROVE  /\ Good(table', files) /\ (Arrived(t, files) => Arrived(table', files))
         /\ table'.filter = t.filter
         /\ used' \in [retries : Nat, failures : Nat, gestures : Nat]
<1>0. t.rows \in Seq(Rows) /\ Len(t.rows) \in Nat /\ t.filter \in Shown!States \cup {Shown!All}
      /\ t = [rows |-> t.rows, exhausted |-> t.exhausted, error |-> t.error, filter |-> t.filter]
      /\ t.error \in BOOLEAN
  BY DEF Tables
<1>1. ASSUME NEW page, page = Shown!GetPage(t.filter, Len(t.rows)),
             table' = [t EXCEPT !.rows = @ \o page, !.exhausted = Shown!Exhausted(page)]
      PROVE  /\ Good(table', files) /\ (Arrived(t, files) => Arrived(table', files))
             /\ table'.filter = t.filter
  <2>2. page \in Seq(Rows)
    BY <1>1, <1>0, PageIs
  <2>3. t.rows \o page \in Seq(Rows)
    BY <1>0, <2>2
  <2>4. PICK e \in BOOLEAN : e = Shown!Exhausted(page)
    BY ExhaustedIs
  <2>5. PICK n : n = table'
    OBVIOUS
  <2>6. n = [rows |-> t.rows \o page, exhausted |-> e, error |-> t.error, filter |-> t.filter]
    BY <1>0, <1>1, <2>4, <2>5
  <2>7. n \in Tables /\ n.rows = t.rows \o page /\ n.exhausted = e /\ n.error = t.error /\ n.filter = t.filter
    <3>1. /\ n.rows = t.rows \o page /\ n.exhausted = e /\ n.error = t.error /\ n.filter = t.filter
          /\ n = [rows |-> n.rows, exhausted |-> n.exhausted, error |-> n.error, filter |-> n.filter]
      BY <2>6
    <3>2. n.rows \in Seq(Rows) /\ n.exhausted \in BOOLEAN /\ n.error \in BOOLEAN /\ n.filter \in Shown!States \cup {Shown!All}
      BY <1>0, <2>3, <2>4, <3>1, Zenon
    <3>3. n \in Tables
      BY <3>1, <3>2, TableIs, Zenon
    <3> QED BY <3>1, <3>3
  <2>8. n.exhausted = Shown!Exhausted(page)
    BY <2>4, <2>7
  <2>9. Good(n, files) /\ (Arrived(t, files) => Arrived(n, files))
    BY <1>1, <2>7, <2>8, PageJoins
  <2> QED BY <2>5, <2>7, <2>9
<1>2. CASE table' = [t EXCEPT !.exhausted = TRUE, !.error = TRUE] /\ used' = [used EXCEPT !.failures = @ + 1]
  <2>1. /\ table' \in Tables /\ table'.exhausted = TRUE /\ table'.error = TRUE
        /\ table'.rows = t.rows /\ table'.filter = t.filter
    BY <1>2 DEF Tables
  <2> QED BY <2>1, <1>2 DEF Good, InOrder, Arrived
<1>3. Good(table', files) /\ (Arrived(t, files) => Arrived(table', files)) /\ table'.filter = t.filter
  BY <1>1, <1>2 DEF Shown!FetchMore, Shown!Offset
<1>4. used' \in [retries : Nat, failures : Nat, gestures : Nat]
  BY DEF Shown!FetchMore
<1> QED BY <1>3, <1>4

---------------------------------------------------------------------------
(* The progress heard of the files *)

Sigs == [Shown!States -> Nat]
Total(sig) == sig["pending"] + sig["verified"] + sig["failed"]

\* What is heard is behind the files f, or no progress at all; or it has caught up with them.
Behind(sig, f) ==
  \/ sig["verified"] <= CountOf(f, "verified") /\ Total(sig) <= Len(f)
  \/ Total(sig) > MaxFiles
Caught(sig, f) == sig["verified"] = CountOf(f, "verified") /\ Total(sig) = Len(f)

LEMMA NoProgressIs == Shown!NoProgress \in Sigs /\ Behind(Shown!NoProgress, files)
<1>1. MaxFiles \in Nat
  BY TableAssumption
<1>2. Shown!NoProgress = [s \in Shown!States |-> MaxFiles + 1]
  BY DEF Shown!NoProgress
<1>3. {"pending", "verified", "failed"} \subseteq Shown!States
  BY DEF Shown!States
<1> QED BY <1>1, <1>2, <1>3 DEF Sigs, Behind, Total

LEMMA ProgressIs ==
  ASSUME Listed(files), NEW sig, sig = Shown!Progress
  PROVE  sig \in Sigs /\ Caught(sig, files) /\ Behind(sig, files)
<1>1. sig = [s \in Shown!States |-> CountOf(files, s)]
  BY SameCount DEF Shown!Progress, CountOf
<1>2. \A s \in Shown!States : sig[s] = CountOf(files, s)
  BY <1>1
<1>3. /\ \A s \in Shown!States : CountOf(files, s) \in Nat
      /\ CountOf(files, "pending") + CountOf(files, "verified") + CountOf(files, "failed") = Len(files)
  BY CountsAdd DEF Listed
<1>4. {"pending", "verified", "failed"} \subseteq Shown!States
  BY DEF Shown!States
<1>5. sig \in Sigs
  BY <1>1, <1>3 DEF Sigs
<1>6. Total(sig) = Len(files) /\ sig["verified"] = CountOf(files, "verified")
  BY <1>2, <1>3, <1>4 DEF Total
<1>7. CountOf(files, "verified") \in Nat /\ Len(files) \in Nat
  BY <1>3, <1>4 DEF Listed
<1> QED BY <1>5, <1>6, <1>7 DEF Caught, Behind

\* The files only go on: no verified one is undone, none goes.
Onward(f, g) ==
  /\ CountOf(f, "verified") \in Nat /\ CountOf(g, "verified") \in Nat
  /\ CountOf(f, "verified") <= CountOf(g, "verified") /\ Len(f) <= Len(g)
  /\ CountOf(f, "verified") = CountOf(g, "verified") /\ Len(f) = Len(g) =>
       \A i \in 1..Len(f) : g[i] = "verified" => f[i] = "verified"

LEMMA PlanIsOnward ==
  ASSUME Listed(files), Shown!Plan
  PROVE  Listed(files') /\ Onward(files, files')
<1> DEFINE g == Append(files, "pending")
<1>1. files \in Seq(Shown!States) /\ Len(files) \in Nat /\ Len(files) < MaxFiles /\ MaxFiles \in Nat
  BY TableAssumption DEF Listed, Shown!Plan
<1>2. /\ g \in Seq(Shown!States) /\ Len(g) = Len(files) + 1
      /\ \A i \in 1..Len(files) : g[i] = files[i] /\ g[Len(files) + 1] = "pending"
  BY <1>1 DEF Shown!States
<1>3. {i \in DOMAIN g : g[i] = "verified"} = {i \in DOMAIN files : files[i] = "verified"}
  <2>1. DOMAIN files = 1..Len(files) /\ DOMAIN g = 1..(Len(files) + 1) /\ g[Len(files) + 1] = "pending"
    BY <1>1, <1>2
  <2> HIDE DEF g
  <2> QED BY <1>1, <1>2, <2>1
<1>4. CountOf(g, "verified") = CountOf(files, "verified")
  BY <1>3 DEF CountOf
<1>5. CountOf(files, "verified") \in Nat
  BY <1>1, CountsAdd DEF Shown!States
<1>6. files' = g
  BY DEF Shown!Plan
<1> HIDE DEF g
<1> QED BY <1>1, <1>2, <1>4, <1>5, <1>6 DEF Listed, Onward

LEMMA ChangeIsOnward ==
  ASSUME Listed(files), NEW i \in DOMAIN files, files[i] # "verified", NEW s \in Shown!States,
         files' = [files EXCEPT ![i] = s]
  PROVE  Listed(files') /\ Onward(files, files')
<1>1. files \in Seq(Shown!States) /\ Len(files) \in Nat /\ Len(files) <= MaxFiles
  BY DEF Listed
<1>2. PICK g : g = [files EXCEPT ![i] = s]
  OBVIOUS
<1>3. g \in Seq(Shown!States) /\ Len(g) = Len(files)
  BY <1>1, <1>2
<1>4. CountOf(g, "verified") = CountOf(files, "verified") + (IF s = "verified" THEN 1 ELSE 0)
  BY <1>1, <1>2, CountRises
<1>5. CountOf(files, "verified") \in Nat
  BY <1>1, CountsAdd DEF Shown!States
<1>6. \A j \in 1..Len(files) : g[j] = "verified" => files[j] = "verified" \/ s = "verified"
  BY <1>1, <1>2
<1>7. files' = g
  BY <1>2
<1>8. CountOf(g, "verified") \in Nat /\ CountOf(files, "verified") <= CountOf(g, "verified")
  BY <1>4, <1>5
<1>9. CountOf(files, "verified") = CountOf(g, "verified") => s # "verified"
  BY <1>4, <1>5
<1>10. Listed(g) /\ Onward(files, g)
  BY <1>1, <1>3, <1>5, <1>6, <1>8, <1>9 DEF Listed, Onward
<1> QED BY <1>7, <1>10

LEMMA WorkIsOnward ==
  ASSUME Listed(files),
         Shown!Plan \/ (\E i \in DOMAIN files : Shown!Retry(i) \/ Shown!Finish(i))
  PROVE  Listed(files') /\ Onward(files, files')
<1>1. CASE Shown!Plan
  BY <1>1, PlanIsOnward
<1>2. ASSUME NEW i \in DOMAIN files, Shown!Retry(i) PROVE Listed(files') /\ Onward(files, files')
  <2>1. files[i] # "verified" /\ "pending" \in Shown!States /\ files' = [files EXCEPT ![i] = "pending"]
    BY <1>2 DEF Shown!Retry, Shown!Change, Shown!States
  <2> QED BY <2>1, ChangeIsOnward
<1>3. ASSUME NEW i \in DOMAIN files, Shown!Finish(i) PROVE Listed(files') /\ Onward(files, files')
  <2>1. PICK s \in Shown!States : files' = [files EXCEPT ![i] = s] /\ files[i] # "verified"
    BY <1>3 DEF Shown!Finish, Shown!Change, Shown!States
  <2> QED BY <2>1, ChangeIsOnward
<1> QED BY <1>1, <1>2, <1>3

\* Files that go on leave behind what was heard, and what caught up with them.
LEMMA OnwardCounts ==
  ASSUME NEW f, NEW g, Listed(f), Listed(g), Onward(f, g), NEW sig \in Sigs
  PROVE  /\ sig["verified"] \in Nat /\ Total(sig) \in Nat
         /\ CountOf(f, "verified") \in Nat /\ CountOf(g, "verified") \in Nat /\ Len(f) \in Nat /\ Len(g) \in Nat
         /\ Len(f) <= MaxFiles /\ Len(g) <= MaxFiles /\ MaxFiles \in Nat
         /\ CountOf(f, "verified") <= CountOf(g, "verified") /\ Len(f) <= Len(g)
<1>1. sig["verified"] \in Nat /\ Total(sig) \in Nat
  BY DEF Sigs, Total, Shown!States
<1> QED BY <1>1, TableAssumption DEF Listed, Onward

LEMMA OnwardBehind ==
  ASSUME NEW f, NEW g, Listed(f), Listed(g), Onward(f, g), NEW sig \in Sigs, Behind(sig, f)
  PROVE  Behind(sig, g)
BY OnwardCounts DEF Behind

LEMMA OnwardArrived ==
  ASSUME NEW f, NEW g, Listed(f), Listed(g), Onward(f, g), NEW sig \in Sigs, Behind(sig, f),
         NEW t \in Tables, InOrder(t, f), Caught(sig, f) => Arrived(t, f), Caught(sig, g)
  PROVE  Arrived(t, g)
<1>1. CountOf(f, "verified") = CountOf(g, "verified") /\ Len(f) = Len(g) /\ Caught(sig, f) /\ Len(f) \in Nat
  BY OnwardCounts DEF Caught, Behind
<1>2. \A i \in 1..Len(f) : g[i] = "verified" => f[i] = "verified"
  BY <1>1 DEF Onward
<1>3. Len(t.rows) \in Nat /\ Arrived(t, f)
  BY <1>1 DEF Tables
<1> QED BY <1>1, <1>2, <1>3 DEF Arrived, InOrder

\* A table of files that go on is in order still.
LEMMA OnwardGood ==
  ASSUME NEW f, NEW g, Listed(f), Listed(g), Len(f) <= Len(g), NEW t, Good(t, f)
  PROVE  Good(t, g)
<1>1. Len(f) \in Nat /\ Len(g) \in Nat /\ Len(t.rows) \in Nat
  BY DEF Listed, Good, Tables
<1> QED BY <1>1 DEF Good, InOrder

---------------------------------------------------------------------------
(* The table and the tab *)

Useds == [retries : Nat, failures : Nat, gestures : Nat]
Tabs == [sig : Sigs, pending : BOOLEAN, atTop : BOOLEAN, cooled : BOOLEAN]

\* What is told of a job at rest is the last that there is to tell.
LastIsTold ==
  progressed.told =>
    /\ progressed.at = "settled"
    /\ IF inbox = <<>> THEN tab.sig = Shown!Progress ELSE inbox[Len(inbox)] = Shown!Progress

\* What the tab has caught up with, and does not put off, its table shows.
UpToDate == Caught(tab.sig, files) /\ ~tab.pending => Arrived(table, files)

HeardIsBehind == Behind(tab.sig, files) /\ \A i \in 1..Len(inbox) : Behind(inbox[i], files)

TabTyped ==
  /\ Listed(files)
  /\ progressed \in [at : {"running", "settled"}, told : BOOLEAN]
  /\ inbox \in Seq(Sigs) /\ Len(inbox) <= MaxTold
  /\ tab \in Tabs
  /\ used \in Useds

TableInv == TabTyped /\ Good(table, files) /\ HeardIsBehind /\ LastIsTold /\ UpToDate

LEMMA TableStarts == ASSUME Shown!Init PROVE TableInv
<1>1. files \in Seq(Shown!States) /\ Len(files) \in Nat /\ Len(files) <= MaxFiles
  <2>1. MaxFiles \in Nat
    BY TableAssumption
  <2>2. files \in Shown!BoundedSeq({"pending"}, MaxFiles)
    BY DEF Shown!Init
  <2>3. PICK n \in 0..MaxFiles : files \in [1..n -> {"pending"}]
    BY <2>1, <2>2 DEF Shown!BoundedSeq, Shown!SeqOf
  <2> QED BY <2>1, <2>3 DEF Shown!States
<1>2. Listed(files)
  BY <1>1 DEF Listed
<1>3. Good(table, files) /\ Arrived(table, files)
  <2>1. Shown!All \in Shown!States \cup {Shown!All}
    OBVIOUS
  <2>2. table = [Shown!Blank(Shown!All) EXCEPT !.rows = Shown!GetPage(Shown!All, 0),
                                              !.exhausted = Shown!Exhausted(Shown!GetPage(Shown!All, 0))]
    BY DEF Shown!Init
  <2> QED BY <1>2, <2>1, <2>2, FirstPage
<1>4. tab \in Tabs /\ tab.sig = Shown!NoProgress
  BY NoProgressIs DEF Tabs, Shown!Init, Shown!NewTab
<1>5. progressed = [at |-> "running", told |-> FALSE] /\ inbox = <<>> /\ used \in Useds
  BY DEF Shown!Init, Useds
<1>6. MaxTold \in Nat
  BY TableAssumption
<1>7. TabTyped
  BY <1>2, <1>4, <1>5, <1>6 DEF TabTyped
<1>8. HeardIsBehind
  BY <1>4, <1>5, NoProgressIs DEF HeardIsBehind
<1> QED BY <1>3, <1>5, <1>7, <1>8 DEF TableInv, LastIsTold, UpToDate

\* The files go on.
LEMMA WorkKeepsTable ==
  ASSUME TableInv, Shown!Plan \/ (\E i \in DOMAIN files : Shown!Retry(i) \/ Shown!Finish(i))
  PROVE  TableInv'
<1>1. Listed(files') /\ Onward(files, files')
  BY WorkIsOnward DEF TableInv, TabTyped
<1>2. /\ UNCHANGED <<progressed, inbox, table, tab>> /\ used' \in Useds /\ progressed.at = "running"
  BY DEF TableInv, TabTyped, Useds, Shown!Plan, Shown!Retry, Shown!Finish, Shown!Change
<1>3. Listed(files) /\ tab.sig \in Sigs /\ Len(inbox) \in Nat /\ \A i \in 1..Len(inbox) : inbox[i] \in Sigs
  BY DEF TableInv, TabTyped, Tabs
<1>4. TabTyped'
  BY <1>1, <1>2 DEF TableInv, TabTyped
<1>5. Good(table, files')
  BY <1>1, <1>3, OnwardGood DEF TableInv, Onward
<1>6. Behind(tab.sig, files')
  BY <1>1, <1>3, OnwardBehind DEF TableInv, HeardIsBehind
<1>7. \A i \in 1..Len(inbox) : Behind(inbox[i], files')
  BY <1>1, <1>3, OnwardBehind DEF TableInv, HeardIsBehind
<1>8. ASSUME Caught(tab.sig, files'), ~tab.pending PROVE Arrived(table, files')
  <2>1. Caught(tab.sig, files) => Arrived(table, files)
    BY <1>8 DEF TableInv, UpToDate
  <2>2. table \in Tables /\ InOrder(table, files) /\ Behind(tab.sig, files)
    BY DEF TableInv, Good, HeardIsBehind
  <2> QED BY <1>1, <1>3, <1>8, <2>1, <2>2, OnwardArrived
<1>9. HeardIsBehind'
  BY <1>2, <1>6, <1>7 DEF HeardIsBehind
<1>10. UpToDate'
  BY <1>2, <1>8 DEF UpToDate
<1>11. LastIsTold'
  BY <1>2 DEF TableInv, LastIsTold
<1>12. Good(table, files)'
  BY <1>2, <1>5
<1> QED BY <1>4, <1>9, <1>10, <1>11, <1>12 DEF TableInv

LEMMA TickKeepsTable == ASSUME TableInv, Shown!Tick PROVE TableInv'
<1>1. PICK sig : sig = Shown!Progress
  OBVIOUS
<1>2. /\ ~progressed.told /\ Len(inbox) < MaxTold /\ inbox' = Append(inbox, sig)
      /\ progressed' = [progressed EXCEPT !.told = progressed.at = "settled"]
      /\ UNCHANGED <<files, table, tab, used>>
  BY <1>1 DEF Shown!Tick
<1>3. sig \in Sigs /\ Behind(sig, files)
  BY <1>1, ProgressIs DEF TableInv, TabTyped
<1>4. MaxTold \in Nat /\ inbox \in Seq(Sigs) /\ Len(inbox) \in Nat
      /\ progressed \in [at : {"running", "settled"}, told : BOOLEAN]
  BY TableAssumption DEF TableInv, TabTyped
<1>5. /\ inbox' \in Seq(Sigs) /\ Len(inbox') = Len(inbox) + 1 /\ inbox' # <<>>
      /\ inbox'[Len(inbox')] = sig /\ \A i \in 1..Len(inbox) : inbox'[i] = inbox[i]
  <2> HIDE DEF Sigs
  <2> QED BY <1>2, <1>3, <1>4
<1>6. progressed' \in [at : {"running", "settled"}, told : BOOLEAN] /\ (progressed'.told => progressed'.at = "settled")
  BY <1>2, <1>4
<1>7. TabTyped'
  BY <1>2, <1>4, <1>5, <1>6 DEF TableInv, TabTyped
<1>8. \A i \in 1..Len(inbox') : i \in 1..Len(inbox) \/ i = Len(inbox')
  BY <1>4, <1>5
<1>9. HeardIsBehind'
  <2>1. \A i \in 1..Len(inbox') : Behind(inbox'[i], files)
    BY <1>3, <1>5, <1>8 DEF TableInv, HeardIsBehind
  <2> QED BY <1>2, <2>1 DEF TableInv, HeardIsBehind
<1>10. Shown!Progress' = sig
  BY <1>1, <1>2 DEF Shown!Progress
<1>11. LastIsTold'
  BY <1>5, <1>6, <1>10 DEF LastIsTold
<1>12. UpToDate' /\ Good(table, files)'
  BY <1>2 DEF TableInv, UpToDate
<1> QED BY <1>7, <1>9, <1>11, <1>12 DEF TableInv

\* A table made anew shows what has arrived.
LEMMA SetFilterIs ==
  ASSUME TabTyped, NEW filter \in Shown!States \cup {Shown!All}, Shown!SetFilter(filter)
  PROVE  Good(table', files) /\ Arrived(table', files) /\ used' \in Useds
<1>1. PICK t : t = Shown!Blank(filter)
  OBVIOUS
<1>2. /\ t.rows = <<>> /\ t.exhausted = FALSE /\ t.error = FALSE /\ t.filter = filter
      /\ t = [rows |-> t.rows, exhausted |-> t.exhausted, error |-> t.error, filter |-> t.filter]
  BY <1>1 DEF Shown!Blank
<1>3. t.rows \in Seq(Rows) /\ t.exhausted \in BOOLEAN /\ t.error \in BOOLEAN /\ t.filter \in Shown!States \cup {Shown!All}
  <2> HIDE DEF Rows
  <2>1. <<>> \in Seq(Rows)
    OBVIOUS
  <2> QED BY <1>2, <2>1, Zenon
<1>4. t \in Tables
  BY <1>2, <1>3, TableIs, Zenon
<1>5. InOrder(t, files) /\ Whole(t) /\ Arrived(t, files) /\ ~t.exhausted /\ ~t.error
  <2>1. Len(files) \in Nat /\ PageSize \in Nat \ {0} /\ 0 = 0 * PageSize
    BY TableAssumption DEF TabTyped, Listed
  <2> QED BY <1>2, <2>1 DEF InOrder, Whole, Arrived
<1>6. Shown!FetchMore(t)
  BY <1>1 DEF Shown!SetFilter
<1>7. Listed(files) /\ used \in [retries : Nat, failures : Nat, gestures : Nat]
  BY DEF TabTyped, Useds
<1>8. /\ Good(table', files) /\ (Arrived(t, files) => Arrived(table', files))
      /\ used' \in [retries : Nat, failures : Nat, gestures : Nat]
  BY <1>4, <1>5, <1>6, <1>7, FetchIs
<1> QED BY <1>5, <1>8 DEF Useds

\* The tab fetches anew, with what it has noted before.
LEMMA RefreshIs ==
  ASSUME TableInv, NEW before \in Tabs, Shown!AutoRefresh(before)
  PROVE  /\ Good(table', files) /\ Arrived(table', files) /\ used' \in Useds
         /\ tab' \in Tabs /\ tab'.sig = before.sig
<1>1. table.filter \in Shown!States \cup {Shown!All} /\ TabTyped
  BY DEF TableInv, Good, Tables
<1>2. Shown!SetFilter(table.filter)
  BY DEF Shown!AutoRefresh, Shown!Refresh
<1>3. Good(table', files) /\ Arrived(table', files) /\ used' \in Useds
  BY <1>1, <1>2, SetFilterIs
<1>4. tab' \in Tabs /\ tab'.sig = before.sig
  BY DEF Tabs, Shown!AutoRefresh, Shown!Refresh
<1> QED BY <1>3, <1>4

LEMMA MaybeAutoRefreshKeepsTable == ASSUME TableInv, Shown!MaybeAutoRefresh PROVE TableInv'
<1>1. PICK sig : sig = Head(inbox)
  OBVIOUS
<1>2. PICK seen : seen = [tab EXCEPT !.sig = sig]
  OBVIOUS
<1>3. /\ inbox # <<>> /\ inbox' = Tail(inbox) /\ UNCHANGED <<files, progressed>>
      /\ \/ Shown!Flushes(sig) /\ Shown!AutoRefresh(seen)
         \/ /\ ~Shown!Flushes(sig) /\ tab' = [seen EXCEPT !.pending = Shown!Deferred(sig)]
            /\ UNCHANGED <<table, used>>
  BY <1>1, <1>2 DEF Shown!MaybeAutoRefresh
<1>4. /\ inbox \in Seq(Sigs) /\ tab \in Tabs /\ Len(inbox) \in Nat /\ Len(inbox) <= MaxTold /\ Listed(files)
      /\ progressed \in [at : {"running", "settled"}, told : BOOLEAN] /\ MaxTold \in Nat /\ used \in Useds
  BY TableAssumption DEF TableInv, TabTyped
<1>5. /\ Len(inbox) # 0 /\ sig = inbox[1] /\ sig \in Sigs
      /\ inbox' \in Seq(Sigs) /\ Len(inbox') = Len(inbox) - 1
      /\ \A i \in 1..Len(inbox') : inbox'[i] = inbox[i + 1] /\ i + 1 \in 1..Len(inbox)
  <2> HIDE DEF Sigs
  <2>1. Len(inbox) # 0 /\ sig = inbox[1] /\ sig \in Sigs
    BY <1>1, <1>3, <1>4
  <2>2. /\ Tail(inbox) \in Seq(Sigs) /\ Len(Tail(inbox)) = Len(inbox) - 1
        /\ \A i \in 1..(Len(inbox) - 1) : Tail(inbox)[i] = inbox[i + 1]
    BY <1>3, <1>4
  <2> QED BY <1>3, <1>4, <2>1, <2>2
<1>6. seen \in Tabs /\ seen.sig = sig /\ seen.pending = tab.pending
  BY <1>2, <1>4, <1>5 DEF Tabs
<1>7. Behind(sig, files) /\ \A i \in 1..Len(inbox') : Behind(inbox'[i], files)
  BY <1>4, <1>5 DEF TableInv, HeardIsBehind
<1>8. /\ tab' \in Tabs /\ tab'.sig = sig /\ used' \in Useds /\ Good(table', files)
      /\ (Caught(sig, files) /\ ~tab'.pending => Arrived(table', files))
  <2>1. CASE Shown!Flushes(sig) /\ Shown!AutoRefresh(seen)
    BY <1>6, <2>1, RefreshIs
  <2>2. CASE /\ ~Shown!Flushes(sig) /\ tab' = [seen EXCEPT !.pending = Shown!Deferred(sig)]
             /\ UNCHANGED <<table, used>>
    <3>1. Shown!Deferred(sig) \in BOOLEAN /\ (Shown!Deferred(sig) <=> tab.pending \/ sig # tab.sig)
      BY DEF Shown!Deferred, Shown!Pends
    <3>2. PICK b \in BOOLEAN : b = Shown!Deferred(sig)
      BY <3>1
    <3>3. tab' = [seen EXCEPT !.pending = b]
      BY <2>2, <3>2
    <3>4. tab' \in Tabs /\ tab'.sig = sig /\ tab'.pending = b
      BY <1>6, <3>3 DEF Tabs
    <3>5. ~b => ~tab.pending /\ sig = tab.sig
      BY <3>1, <3>2
    <3>6. Caught(sig, files) /\ ~tab'.pending => Arrived(table, files)
      BY <3>4, <3>5 DEF TableInv, UpToDate
    <3> QED BY <1>4, <2>2, <3>4, <3>6 DEF TableInv
  <2> QED BY <1>3, <2>1, <2>2
<1>9. TabTyped'
  BY <1>3, <1>4, <1>5, <1>8 DEF TabTyped
<1>10. HeardIsBehind'
  BY <1>3, <1>7, <1>8 DEF HeardIsBehind
<1>11. UpToDate'
  BY <1>3, <1>8 DEF UpToDate
<1>12. LastIsTold'
  <2>1. SUFFICES ASSUME progressed.told
                 PROVE  /\ progressed.at = "settled"
                        /\ IF inbox' = <<>> THEN sig = Shown!Progress ELSE inbox'[Len(inbox')] = Shown!Progress
    BY <1>3, <1>8 DEF LastIsTold, Shown!Progress
  <2>2. progressed.at = "settled" /\ inbox[Len(inbox)] = Shown!Progress
    BY <1>3, <2>1 DEF TableInv, LastIsTold
  <2>3. CASE inbox' = <<>>
    <3>1. Len(inbox') = 0
      BY <2>3
    <3>2. Len(inbox) = 1
      <4> HIDE DEF Sigs
      <4> QED BY <1>4, <1>5, <3>1
    <3>3. sig = Shown!Progress
      BY <1>5, <2>2, <3>2
    <3> QED BY <2>2, <2>3, <3>3
  <2>4. CASE inbox' # <<>>
    <3>1. Len(inbox') \in 1..Len(inbox') /\ Len(inbox') + 1 = Len(inbox)
      <4> HIDE DEF Sigs
      <4> QED BY <1>4, <1>5, <2>4
    <3> QED BY <1>5, <2>2, <2>4, <3>1
  <2> QED BY <2>2, <2>3, <2>4
<1>13. Good(table, files)'
  BY <1>3, <1>8
<1> QED BY <1>9, <1>10, <1>11, <1>12, <1>13 DEF TableInv

\* What the user does leaves what is heard as it is.
LEMMA GesturesKeepTable ==
  ASSUME TableInv, UNCHANGED <<files, inbox>>, Good(table', files), used' \in Useds,
         tab' \in Tabs, Behind(tab'.sig, files),
         progressed' \in [at : {"running", "settled"}, told : BOOLEAN],
         progressed'.told => progressed' = progressed /\ tab'.sig = tab.sig,
         Caught(tab'.sig, files) /\ ~tab'.pending => Arrived(table', files)
  PROVE  TableInv'
<1>1. TabTyped'
  BY DEF TableInv, TabTyped
<1>2. HeardIsBehind'
  BY DEF TableInv, HeardIsBehind
<1>3. UpToDate'
  BY DEF UpToDate
<1>4. LastIsTold'
  BY DEF TableInv, LastIsTold, Shown!Progress
<1> QED BY <1>1, <1>2, <1>3, <1>4 DEF TableInv

LEMMA ScrollDownKeepsTable == ASSUME TableInv, Shown!ScrollDown PROVE TableInv'
<1>1. /\ tab' \in Tabs /\ tab'.sig = tab.sig /\ tab'.pending = tab.pending
      /\ UNCHANGED <<files, inbox, progressed>> /\ Behind(tab.sig, files)
      /\ progressed \in [at : {"running", "settled"}, told : BOOLEAN] /\ used \in Useds
  BY DEF TableInv, TabTyped, Tabs, Shown!ScrollDown, HeardIsBehind
<1>2. Good(table', files) /\ (Arrived(table, files) => Arrived(table', files)) /\ used' \in Useds
  <2>1. CASE table.exhausted
    <3>1. table' = table /\ used' = used
      BY <2>1 DEF Shown!ScrollDown
    <3> QED BY <1>1, <3>1 DEF TableInv
  <2>2. CASE ~table.exhausted
    <3>1. Shown!FetchMore(table)
      BY <2>2 DEF Shown!ScrollDown
    <3>2. table \in Tables /\ InOrder(table, files) /\ ~table.error /\ Listed(files)
      BY <2>2 DEF TableInv, Good, TabTyped
    <3>3. Whole(table)
      <4>1. PICK pages \in 1..Len(table.rows) : Len(table.rows) = pages * PageSize
        BY <2>2 DEF TableInv, Good
      <4>2. pages \in Nat
        BY <3>2, <4>1 DEF Tables
      <4> QED BY <4>1, <4>2 DEF Whole
    <3> QED BY <1>1, <2>2, <3>1, <3>2, <3>3, FetchIs DEF Useds
  <2> QED BY <2>1, <2>2
<1>3. Caught(tab'.sig, files) /\ ~tab'.pending => Arrived(table', files)
  BY <1>1, <1>2 DEF TableInv, UpToDate
<1> QED BY <1>1, <1>2, <1>3, GesturesKeepTable

LEMMA ScrollToTopKeepsTable == ASSUME TableInv, Shown!ScrollToTop PROVE TableInv'
<1>1. /\ UNCHANGED <<files, inbox, progressed>> /\ Behind(tab.sig, files) /\ tab \in Tabs
      /\ progressed \in [at : {"running", "settled"}, told : BOOLEAN] /\ used \in Useds
  BY DEF TableInv, TabTyped, Shown!ScrollToTop, HeardIsBehind
<1>2. CASE tab.pending
  <2>1. Shown!AutoRefresh(tab)
    BY <1>2 DEF Shown!ScrollToTop
  <2>2. Good(table', files) /\ Arrived(table', files) /\ used' \in Useds /\ tab' \in Tabs /\ tab'.sig = tab.sig
    BY <1>1, <2>1, RefreshIs
  <2> QED BY <1>1, <2>2, GesturesKeepTable
<1>3. CASE ~tab.pending
  <2>1. tab' = [tab EXCEPT !.atTop = TRUE] /\ UNCHANGED <<table, used>>
    BY <1>3 DEF Shown!ScrollToTop
  <2>2. tab' \in Tabs /\ tab'.sig = tab.sig /\ tab'.pending = tab.pending
    BY <1>1, <2>1 DEF Tabs
  <2>3. Good(table', files) /\ (Caught(tab'.sig, files) /\ ~tab'.pending => Arrived(table', files))
    BY <2>1, <2>2 DEF TableInv, UpToDate
  <2> QED BY <1>1, <2>1, <2>2, <2>3, GesturesKeepTable
<1> QED BY <1>2, <1>3

LEMMA GestureTypes == ASSUME used \in Useds, Shown!Gesture PROVE used' \in Useds
BY DEF Useds, Shown!Gesture

LEMMA ChooseFilterKeepsTable ==
  ASSUME TableInv, NEW filter \in Filters, Shown!ChooseFilter(filter) PROVE TableInv'
<1>1. /\ UNCHANGED <<files, inbox, progressed>> /\ Behind(tab.sig, files) /\ tab \in Tabs /\ Listed(files)
      /\ progressed \in [at : {"running", "settled"}, told : BOOLEAN] /\ used' \in Useds
      /\ filter \in Shown!States \cup {Shown!All}
  BY TableAssumption, GestureTypes DEF TableInv, TabTyped, Shown!ChooseFilter, HeardIsBehind
<1>2. PICK new : /\ new = [Shown!Blank(filter) EXCEPT !.rows = Shown!GetPage(filter, 0),
                                                      !.exhausted = Shown!Exhausted(Shown!GetPage(filter, 0))]
                 /\ new = table'
  BY DEF Shown!ChooseFilter, Shown!Offset, Shown!Blank
<1>3. Good(table', files) /\ Arrived(table', files)
  BY <1>1, <1>2, FirstPage
<1>4. tab' \in Tabs /\ tab'.sig = tab.sig
  BY <1>1 DEF Tabs, Shown!ChooseFilter
<1> QED BY <1>1, <1>3, <1>4, GesturesKeepTable

LEMMA AttachKeepsTable == ASSUME TableInv, Shown!Attach PROVE TableInv'
<1>1. /\ UNCHANGED <<files, inbox>> /\ Listed(files) /\ used' \in Useds
      /\ progressed' \in [at : {"running", "settled"}, told : BOOLEAN] /\ progressed'.told = FALSE
      /\ table.filter \in Shown!States \cup {Shown!All}
  BY GestureTypes DEF TableInv, TabTyped, Shown!Attach, Good, Tables
<1>2. PICK new : /\ new = [Shown!Blank(table.filter) EXCEPT
                             !.rows = Shown!GetPage(table.filter, 0),
                             !.exhausted = Shown!Exhausted(Shown!GetPage(table.filter, 0))]
                 /\ new = table'
  BY DEF Shown!Attach, Shown!Offset, Shown!Blank
<1>3. Good(table', files) /\ Arrived(table', files)
  BY <1>1, <1>2, FirstPage
<1>4. tab' \in Tabs /\ tab'.sig = Shown!NoProgress /\ Behind(tab'.sig, files)
  BY NoProgressIs DEF Tabs, Shown!Attach, Shown!NewTab
<1> QED BY <1>1, <1>3, <1>4, GesturesKeepTable

\* The job comes to rest, or the throttle runs out.
LEMMA SettleAndCoolKeepTable == ASSUME TableInv, Shown!Settle \/ Shown!Cool PROVE TableInv'
<1>1. UNCHANGED <<files, inbox, table, used>>
  BY DEF Shown!Settle, Shown!Cool
<1>2. /\ tab' \in Tabs /\ tab'.sig = tab.sig /\ tab'.pending = tab.pending
      /\ progressed' \in [at : {"running", "settled"}, told : BOOLEAN] /\ progressed'.told = progressed.told
      /\ (progressed.at = "settled" => progressed'.at = "settled")
  BY DEF TableInv, TabTyped, Tabs, Shown!Settle, Shown!Cool
<1>3. TabTyped'
  BY <1>1, <1>2 DEF TableInv, TabTyped
<1>4. HeardIsBehind' /\ UpToDate' /\ Good(table, files)'
  BY <1>1, <1>2 DEF TableInv, HeardIsBehind, UpToDate
<1>5. LastIsTold'
  BY <1>1, <1>2 DEF TableInv, LastIsTold, Shown!Progress
<1> QED BY <1>3, <1>4, <1>5 DEF TableInv

LEMMA TableInvHolds == Shown!Spec => []TableInv
<1>1. Shown!Init => TableInv
  BY TableStarts
<1>2. TableInv /\ [Shown!Next]_Shown!vars => TableInv'
  <2> SUFFICES ASSUME TableInv, [Shown!Next]_Shown!vars PROVE TableInv'
    OBVIOUS
  <2>1. CASE Shown!Work
    BY <2>1, WorkKeepsTable, SettleAndCoolKeepTable DEF Shown!Work
  <2>2. CASE Shown!User
    BY <2>2, ScrollDownKeepsTable, ScrollToTopKeepsTable, ChooseFilterKeepsTable, AttachKeepsTable
       DEF Shown!User
  <2>3. CASE UNCHANGED Shown!vars
    <3>1. UNCHANGED <<files, progressed, inbox, table, tab, used>>
      BY <2>3 DEF Shown!vars
    <3> QED BY <3>1 DEF TableInv, TabTyped, HeardIsBehind, LastIsTold, UpToDate, Shown!Progress
  <2> QED BY <2>1, <2>2, <2>3, TickKeepsTable, MaybeAutoRefreshKeepsTable, SettleAndCoolKeepTable
          DEF Shown!Next
<1> QED BY <1>1, <1>2, PTL DEF Shown!Spec

\* The table of a growing job tells the truth, however its files change between the
\* pages, whatever the user does and whenever the service fails to answer
\* (gui/files_model.py:66-84, gui/job_tabs.py:429-454).
THEOREM TableTellsTheTruth == Shown!Spec => []TableIsTrue
<1>1. ASSUME TableInv PROVE TableIsTrue
  <2>1. Shown!EachFileOnce
    <3>1. Len(table.rows) \in Nat /\ DOMAIN table.rows = 1..Len(table.rows)
      BY <1>1 DEF TableInv, Good, Tables
    <3> QED BY <1>1, <3>1 DEF TableInv, Good, InOrder, Shown!EachFileOnce
  <2>2. Shown!ArrivalsAreShown
    <3>1. SUFFICES ASSUME progressed.told, inbox = <<>>, ~tab.pending, ~table.error, table.filter = Shown!All
                   PROVE  /\ \A i \in DOMAIN table.rows : files[i] = "verified" => table.rows[i].state = "verified"
                          /\ table.exhausted => Len(table.rows) = Len(files)
      BY DEF Shown!ArrivalsAreShown, Shown!AtRest
    <3>2. tab.sig = Shown!Progress
      BY <1>1, <3>1 DEF TableInv, LastIsTold
    <3>3. Caught(tab.sig, files)
      BY <1>1, <3>2, ProgressIs DEF TableInv, TabTyped
    <3>4. Arrived(table, files)
      BY <1>1, <3>1, <3>3 DEF TableInv, UpToDate
    <3>5. DOMAIN table.rows = 1..Len(table.rows)
      BY <1>1 DEF TableInv, Good, Tables
    <3> QED BY <3>1, <3>4, <3>5 DEF Arrived
  <2> QED BY <2>1, <2>2 DEF TableIsTrue
<1> QED BY <1>1, TableInvHolds, PTL

LEMMA TableTypes == ASSUME TableInv PROVE Shown!TypeOK
<1>1. files \in Shown!BoundedSeq(Shown!States, MaxFiles)
  <2>1. files \in [1..Len(files) -> Shown!States] /\ Len(files) \in 0..MaxFiles
    BY TableAssumption DEF TableInv, TabTyped, Listed
  <2> QED BY <2>1 DEF Shown!BoundedSeq, Shown!SeqOf
<1>2. progressed \in [at : {"running", "settled"}, told : BOOLEAN] /\ Len(inbox) <= MaxTold
  BY DEF TableInv, TabTyped
<1>3. table.filter \in Shown!States \cup {Shown!All}
  BY DEF TableInv, Good, Tables
<1>4. \A i \in DOMAIN table.rows : table.rows[i].id \in 1..MaxFiles /\ table.rows[i].state \in Shown!States
  <2>1. table.rows \in Seq(Rows)
    BY DEF TableInv, Good, Tables
  <2>2. \A i \in DOMAIN table.rows : table.rows[i] \in Rows
    <3> HIDE DEF Rows
    <3> QED BY <2>1
  <2> QED BY <2>2 DEF Rows, Ids
<1>5. /\ (~table.exhausted => \E pages \in 1..Len(table.rows) : Len(table.rows) = pages * PageSize)
      /\ (table.error => table.exhausted)
  BY DEF TableInv, Good
<1>6. {tab.pending, tab.atTop, tab.cooled} \subseteq BOOLEAN
  BY DEF TableInv, TabTyped, Tabs
<1> QED BY <1>1, <1>2, <1>3, <1>4, <1>5, <1>6 DEF Shown!TypeOK

\* Streams, watches, table and tab are what their modules say they are (service/sse.py,
\* gui/watch.py, gui/files_model.py, gui/job_tabs.py).
THEOREM FollowedIsWellTyped == Spec /\ Shown!Spec => []WellTyped
<1>1. TableInv => Shown!TypeOK
  BY TableTypes
<1> QED BY <1>1, WatchTypes, TableInvHolds, PTL DEF WellTyped

=============================================================================
