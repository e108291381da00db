----------------------------- MODULE Upload -----------------------------
(***************************************************************************)
(* How one file of an upload reaches the bucket: the attempts of           *)
(* _process_file and, inside them, the single request, the resumable       *)
(* session, or the slices that are uploaded side by side and composed; what *)
(* the row keeps of a transfer that was cut short; and around them the     *)
(* source that is edited, the bucket others write to, requests that are    *)
(* lost, answered late or executed late, stops and crashes.                *)
(*                                                                         *)
(* A file is a sequence of parts, a part the number of the edit that wrote *)
(* it. A checksum is the content it was taken of, so that two are equal    *)
(* when the contents are; combine_all is concatenation (module CrcCombine  *)
(* checks that it is). One chunk of the code is one part.                  *)
(***************************************************************************)
EXTENDS Slicing, Sequences, FiniteSets, SequencesExt

CONSTANTS
  Policies,           \* the size policies a run may have
  Audits,             \* the values of the job's audit_hash
  MaxAttempts, QuarantineAttempts,
  Persistent,         \* BOOLEAN: the job is resumed for as long as its file is not settled
  MaxSize,            \* bound on the parts of the file
  MaxRuns, MaxEdits, MaxFaults, MaxForeign, MaxCrashes, MaxStops   \* bounds

ASSUME UploadAssumption ==
  /\ Policies \subseteq SizePolicies /\ Audits \subseteq BOOLEAN /\ Persistent \in BOOLEAN
  /\ {MaxAttempts, QuarantineAttempts, MaxSize} \subseteq Nat \ {0}
  /\ {MaxRuns, MaxEdits, MaxFaults, MaxForeign, MaxCrashes, MaxStops} \subseteq Nat

VARIABLES
  source,   \* the file's content
  past,     \* every content it had: past[m] is the one with mtime m
  bucket,   \* [dest, temps, sessions, gen]
  late,     \* requests their sender gave up on and the server has still to execute
  options,  \* [policy, method, audit]: of the run, of the row and of the job
  row,      \* the row of job_files; torn: its slices are of an earlier content (history)
  slices,   \* the file's rows of file_slices
  pc, try,  \* _process_file
  local,    \* what the attempt's result will be: [crc, gen, sha]
  edited,   \* whether the file was edited since it was looked at
  stop,     \* options.should_stop()
  stream,   \* the uploads into a session: the only one, or one per slice
  spent     \* what was used of the bounds; looked: the generation first seen (history)

rows == <<row, slices>>
file == <<source, past>>
run == <<pc, try, local, edited, stop, stream>>
vars == <<file, bucket, late, options, rows, run, spent>>

---------------------------------------------------------------------------
(* Contents, objects, sessions *)

Contents == BoundedSeq(0..MaxEdits + 1, MaxSize)
Alien == <<MaxEdits + 1>>           \* what another writer puts in the bucket
None == <<MaxEdits + 2>>            \* no checksum, no hash
Absent == [gen |-> 0, data |-> None, by |-> "nobody", hash |-> None]
Units == 0..MaxSize - 1

Count == IF options.method = "sliced" THEN SliceCount(options.policy, row.size) ELSE 1
Used == {u \in Units : u < Count}
Offset(u) == IF options.method = "sliced" THEN SliceOffset(options.policy, row.size, u) ELSE 0
Length(u) == IF options.method = "sliced" THEN SliceLength(options.policy, row.size, u) ELSE row.size
Part(u, n) == SubSeq(source, Offset(u) + 1, Smaller(Offset(u) + n, Len(source)))

NoRow == [uri |-> 0, crc |-> None]
Blank == [u \in Units |-> NoRow]
\* at: where the upload stands; hashed: what it fed to its hash; meta: the
\* finalized object, and until there is one what the slice was looked up to be; err:
\* the category of the exception it ended with.
NoStream == [at |-> "none", hashed |-> <<>>, meta |-> Absent, err |-> "none"]
NoResult == [crc |-> None, gen |-> 0, sha |-> None]
Idle == [u \in Units |-> NoStream]

\* The server stores an object under a new generation.
Stored(b, data, hash) == [gen |-> b.gen + 1, data |-> data, by |-> "job", hash |-> hash]
Replace(b, data, hash) == [b EXCEPT !.dest = Stored(b, data, hash), !.gen = @ + 1]

\* A chunk arrives at a session: it is kept when it continues what the session
\* has, and the last one makes the object, a destination only under its
\* precondition (if_generation_match).
Receive(b, s, offset, part) ==
  LET old == b.sessions[s]
      data == Append(old.data, part)
      whole == Len(data) = old.total
      refused == whole /\ old.target = "destination" /\ b.dest.gen # old.match
      object == Stored(b, data, None)
      final == [old EXCEPT !.data = data, !.state = "final", !.meta = object]
      made == [b EXCEPT !.gen = @ + 1, !.sessions[s] = final]
  IN IF old.state # "open" \/ Len(old.data) # offset THEN b
     ELSE IF refused THEN [b EXCEPT !.sessions[s].state = "refused"]
     ELSE IF ~whole THEN [b EXCEPT !.sessions[s].data = data]
     ELSE IF old.target = "destination" THEN [made EXCEPT !.dest = object]
     ELSE [made EXCEPT !.temps[old.unit] = object]

\* _handle: what its answer makes of it, the request executed.
Answer(b, s, offset) ==
  LET now == b.sessions[s]
  IN CASE now.state = "final" -> "final"
       [] now.state = "refused" -> "conflict"
       [] now.state = "gone" -> "unknown"        \* SessionExpired, unless a query catches it
       [] now.state = "open" /\ offset > Len(now.data) -> "network"
       [] OTHER -> "more"

\* The pinned generations of the slices are composed, under the precondition.
Joined(metas) == FlattenSeq([u \in DOMAIN metas |-> metas[u].data])
Sources(b, metas) ==
  IF \A u \in DOMAIN metas : b.temps[u - 1].gen = metas[u].gen THEN Joined(metas) ELSE None
ComposeAnswer(b, metas, match) ==
  IF Sources(b, metas) = None THEN "not found" ELSE IF b.dest.gen # match THEN "conflict" ELSE "done"
Composed(b, metas, match) ==
  IF ComposeAnswer(b, metas, match) = "done" THEN Replace(b, Sources(b, metas), None) ELSE b

\* One request with the whole file; the server holds it against its checksum.
PutAnswer(b, data, crc, match) ==
  IF data # crc THEN "mismatch" ELSE IF b.dest.gen # match THEN "conflict" ELSE "done"
PutWhole(b, data, crc, match, hash) ==
  IF PutAnswer(b, data, crc, match) = "done" THEN Replace(b, data, hash) ELSE b

---------------------------------------------------------------------------
(* State *)

FileStates == {"pending", "transferring", "verified", "skipped", "changed", "failed", "quarantined"}
Categories == {"none", "network", "conflict", "mismatch", "not found", "unknown", "source changed"}
Transient == {"network"}
Checksums == Contents \cup {None}

TypeOK ==
  /\ source \in Contents /\ \A m \in DOMAIN past : past[m] \in Contents
  /\ bucket.temps \in
       [Units -> [gen: Nat, data: Checksums, by: {"nobody", "job", "other"}, hash: Checksums]]
  /\ row.state \in FileStates /\ row.category \in Categories
  /\ row.size \in 0..MaxSize /\ row.seen \in DOMAIN past
  /\ slices \in [Units -> [uri: 0..Len(bucket.sessions), crc: Checksums]]
  /\ pc \in {"idle", "stat", "attempt", "skip rule", "put", "check put", "plan", "streams",
             "compose", "check compose", "sweep", "stamp", "record", "clear slices", "caught"}
  /\ try \in 0..MaxAttempts
  /\ \A u \in Units : stream[u].at \in {"none", "queued", "query", "open", "send", "verify",
                                         "done", "found", "failed", "stopped"}
  /\ \A u \in Units : stream[u].at \in {"send", "verify"} => slices[u].uri > 0

Init ==
  /\ source \in {c \in Contents : \A i \in DOMAIN c : c[i] = 0}
  /\ past = <<source>>
  /\ \E d \in {Absent, [gen |-> 1, data |-> Alien, by |-> "other", hash |-> None]} :
       bucket = [dest |-> d, temps |-> [u \in Units |-> Absent], sessions |-> <<>>, gen |-> 1]
  /\ late = {}
  /\ \E p \in Policies, a \in Audits :
       options = [policy |-> p, method |-> ChooseMethod(p, Len(source)), audit |-> a]
  /\ row = [state |-> "pending", size |-> Len(source), seen |-> 1, match |-> -1, attempts |-> 0,
            category |-> "none", crc |-> None, gen |-> 0, sha |-> None, torn |-> FALSE]
  /\ slices = Blank
  /\ pc = "idle" /\ try = 0 /\ local = NoResult /\ edited = FALSE /\ stop = FALSE
  /\ stream = Idle
  /\ spent = [runs |-> 0, faults |-> 0, foreign |-> 0, crashes |-> 0, stops |-> 0, looked |-> -1]

---------------------------------------------------------------------------
(* _process_file: the attempts *)

Delivered == {"verified", "skipped"}
NotRetried == Delivered \cup {"quarantined"}
Fault == spent.faults < MaxFaults /\ spent' = [spent EXCEPT !.faults = @ + 1]
Outside == UNCHANGED <<file, bucket, late, options, spent>>

MarkFailed(c) == row' = [row EXCEPT !.state = "failed", !.attempts = @ + 1, !.category = c]

\* The run ends, returning or raising; its memory is gone.
Leave ==
  /\ pc' = "idle" /\ try' = 0 /\ local' = NoResult /\ stop' = FALSE
  /\ stream' = Idle /\ UNCHANGED edited

\* The job is run (again); reset_stale_transfers.
Begin ==
  /\ pc = "idle" /\ row.state \notin NotRetried
  /\ Persistent \/ spent.runs < MaxRuns
  /\ spent' = IF Persistent THEN spent ELSE [spent EXCEPT !.runs = @ + 1]
  /\ row' = [row EXCEPT !.state = IF @ = "transferring" THEN "pending" ELSE @]
  /\ pc' = "stat"
  /\ UNCHANGED <<file, bucket, late, options, slices, try, local, edited, stop, stream>>

\* The row is settled for this run; its slices are cleared by a statement of their own.
Settle == pc' = "clear slices" /\ UNCHANGED <<slices, try, local, edited, stop, stream>>

\* The source is looked at, once for all attempts of the run.
MarkChanged ==
  /\ row' = [row EXCEPT !.state = "changed", !.size = Len(source), !.seen = Len(past), !.crc = None,
                        !.torn = slices # Blank]
  /\ Settle
Stat ==
  /\ pc = "stat"
  /\ IF Len(source) = row.size /\ Len(past) = row.seen
     THEN /\ pc' = "attempt" /\ try' = 1 /\ edited' = FALSE
          /\ UNCHANGED <<rows, local, stop, stream>>
     ELSE IF row.state = "changed"
     THEN MarkFailed("source changed") /\ UNCHANGED slices /\ Leave
     ELSE MarkChanged
  /\ Outside

\* The head of the loop: should_stop, mark_transferring, the precondition.
FreshMatch == bucket.dest.gen
FirstMatch == IF row.match = -1 THEN bucket.dest.gen ELSE row.match
Attempt ==
  /\ pc = "attempt"
  /\ IF stop
     THEN Leave /\ UNCHANGED <<rows, spent>>
     ELSE /\ row' = [row EXCEPT !.state = "transferring", !.match = FirstMatch]
          /\ pc' = "skip rule"
          /\ spent' = [spent EXCEPT !.looked = IF @ = -1 THEN bucket.dest.gen ELSE @]
          /\ UNCHANGED <<slices, try, local, edited, stop, stream>>
  /\ UNCHANGED <<file, bucket, late, options>>

\* An exception of the attempt, and what the except clause does with it.
Fail(c) ==
  /\ MarkFailed(c)
  /\ pc' = "caught" /\ local' = NoResult /\ stream' = Idle
  /\ UNCHANGED <<slices, try, edited, stop>>
Uncleared == row.category = "mismatch" /\ slices # Blank
Caught ==
  /\ pc = "caught" /\ ~Uncleared /\ UNCHANGED slices
  /\ LET over == row.attempts >= QuarantineAttempts
     IN /\ row' = [row EXCEPT !.state = IF over THEN "quarantined" ELSE @]
        /\ IF ~over /\ row.category \in Transient /\ try < MaxAttempts
           THEN pc' = "attempt" /\ try' = try + 1 /\ UNCHANGED <<local, stop, stream, edited>>
           ELSE Leave
  /\ Outside

\* A request of the main thread that only looks: it gets no answer.
LookupLost ==
  /\ \/ pc \in {"skip rule", "check put", "plan", "check compose"}
     \/ pc = "attempt" /\ row.match = -1 /\ ~stop
     \/ pc = "stamp" /\ options.audit
  /\ Fault /\ Fail("network")
  /\ UNCHANGED <<file, bucket, late, options>>

MarkDelivered(state, result) ==
  /\ row' = [row EXCEPT !.state = state, !.category = "none", !.crc = result.crc,
                        !.gen = result.gen, !.sha = result.sha]
  /\ Settle

\* The destination has these bytes already: looked at in full when the sizes agree.
Same == bucket.dest # Absent /\ bucket.dest.data = source /\ (options.method # "single_shot" => Len(source) = row.size)
Start(u) == [NoStream EXCEPT !.at = IF slices[u].uri = 0 THEN "open" ELSE "query"]
SkipRule ==
  /\ pc = "skip rule"
  /\ CASE options.method = "resumable" /\ row.size = 0 -> Fail("unknown")
       [] Same /\ ~(options.method = "resumable" /\ row.size = 0) ->
            MarkDelivered("skipped", [crc |-> source, gen |-> bucket.dest.gen,
                                      sha |-> IF options.audit THEN source ELSE None])
       [] OTHER ->
            /\ pc' = CASE options.method = "single_shot" -> "put"
                       [] options.method = "resumable" -> "streams"
                       [] OTHER -> "plan"
            /\ local' = [NoResult EXCEPT !.crc = source]
            /\ stream' = IF options.method = "resumable" THEN [Idle EXCEPT ![0] = Start(0)] ELSE Idle
            /\ UNCHANGED <<rows, try, edited, stop>>
  /\ Outside

\* mark_verified
Record ==
  /\ pc = "record"
  /\ MarkDelivered("verified", local)
  /\ Outside

\* The rows of file_slices are deleted: behind mark_changed's UPDATE, behind a
\* delivery, and behind a mismatch, which _process_file goes on from.
KeepSlices == slices
DropSlices == Blank
ClearSlices ==
  /\ slices' = DropSlices
  /\ row' = [row EXCEPT !.torn = @ /\ row.state \in Delivered]
  /\ \/ pc = "clear slices" /\ Leave
     \/ pc = "caught" /\ Uncleared /\ UNCHANGED <<pc, try, local, edited, stop, stream>>
  /\ Outside

\* That statement raises: after a delivery the attempt's except clause sees it,
\* else the run ends over what stands.
ClearFails ==
  /\ pc = "clear slices" \/ (pc = "caught" /\ Uncleared)
  /\ IF pc = "clear slices" /\ row.state \in Delivered THEN Fail("unknown") ELSE Leave /\ UNCHANGED rows
  /\ Fault
  /\ UNCHANGED <<file, bucket, late, options>>

---------------------------------------------------------------------------
(* A small file: one request *)

\* A request that changes the bucket: answered, or executed without an answer
\* (the client library may repeat it, and then it is refused), or lost, or
\* executed when nobody waits for it any more.
Request(next, b, answer, r) ==
  \/ /\ bucket' = b /\ UNCHANGED <<late, spent>>
     /\ IF answer = "done"
        THEN pc' = next /\ UNCHANGED <<rows, try, local, edited, stop, stream>>
        ELSE Fail(answer)
  \/ /\ Fault /\ bucket' = b /\ UNCHANGED late
     /\ \E c \in {"network"} \cup IF answer = "done" THEN {"conflict"} ELSE {} : Fail(c)
  \/ /\ Fault /\ UNCHANGED bucket /\ late' \in {late, late \cup {r}} /\ Fail("network")

Put ==
  /\ pc = "put"
  /\ LET hash == IF options.audit THEN local.crc ELSE None
     IN Request("check put",
                PutWhole(bucket, source, local.crc, row.match, hash),
                PutAnswer(bucket, source, local.crc, row.match),
                [kind |-> "put", data |-> source, crc |-> local.crc, match |-> row.match, hash |-> hash])
  /\ UNCHANGED <<file, options>>

CheckPut ==
  /\ pc = "check put"
  /\ IF bucket.dest.data = local.crc
     THEN /\ pc' = "record"
          /\ local' = [local EXCEPT !.gen = bucket.dest.gen,
                                    !.sha = IF options.audit THEN local.crc ELSE None]
          /\ UNCHANGED <<rows, try, edited, stop, stream>>
     ELSE Fail("mismatch")
  /\ Outside

---------------------------------------------------------------------------
(* A larger one: an upload into a session, or one per slice in a pool *)

\* A slice whose temporary object has the recorded checksum is not sent again.
NeverReusable(u) == FALSE
Reusable(u) == slices[u].crc # None /\ bucket.temps[u].data = slices[u].crc
LookedUp(u) == IF slices[u].crc # None THEN bucket.temps[u] ELSE Absent
Plan ==
  /\ pc = "plan"
  /\ IF stop
     THEN Leave
     ELSE /\ pc' = "streams"
          /\ stream' = [u \in Units |->
               IF u \notin Used THEN NoStream
               ELSE IF Reusable(u)
               THEN [NoStream EXCEPT !.at = "done", !.hashed = slices[u].crc, !.meta = bucket.temps[u]]
               ELSE [Start(u) EXCEPT !.meta = LookedUp(u)]]
          /\ UNCHANGED <<try, local, edited, stop>>
  /\ UNCHANGED rows /\ Outside

StreamStep == pc = "streams" /\ UNCHANGED <<file, options, row, pc, try, local, edited, stop>>
Becomes(u, new) == stream' = [stream EXCEPT ![u] = new]
Fails(u, category) == Becomes(u, [stream[u] EXCEPT !.at = "failed", !.err = category])
Session(u) == bucket.sessions[slices[u].uri]

\* query_offset: restart, finished before, refused for another size than the
\* session was opened for, or continue behind what is committed, whose bytes are
\* read again for the checksum.
Restarts(u) == Session(u).state \in {"gone", "refused"}
Committed(u) == Len(Session(u).data)
Query(u) ==
  /\ StreamStep /\ stream[u].at = "query"
  /\ CASE Restarts(u) -> Becomes(u, [stream[u] EXCEPT !.at = "open"]) /\ UNCHANGED slices
       [] Session(u).state = "final" ->
            IF /\ Len(Session(u).meta.data) = Length(u)
               /\ Session(u).meta.data = Part(u, IF options.method = "sliced" THEN Length(u) ELSE Len(source))
            THEN /\ Becomes(u, [stream[u] EXCEPT !.at = "found", !.meta = Session(u).meta])
                 /\ slices' = IF options.method = "sliced"
                              THEN [slices EXCEPT ![u].crc = Session(u).meta.data] ELSE slices
            ELSE /\ Fails(u, IF options.method = "sliced" /\ Len(source) < Offset(u) + Length(u)
                             THEN "unknown" ELSE "mismatch")
                 /\ UNCHANGED slices
       [] Session(u).state = "open" /\ Session(u).total # Length(u) ->
            Fails(u, "unknown") /\ UNCHANGED slices
       [] OTHER ->
            /\ IF Len(source) < Offset(u) + Committed(u)
               THEN Fails(u, "unknown")
               ELSE Becomes(u, [stream[u] EXCEPT !.at = "send", !.hashed = Part(u, Committed(u))])
            /\ UNCHANGED slices
  /\ UNCHANGED <<bucket, late, spent>>

\* initiate_upload, and its URI stored at once.
Open(u) ==
  /\ StreamStep /\ stream[u].at = "open"
  /\ bucket' = [bucket EXCEPT !.sessions = Append(@,
       [unit |-> u, target |-> IF options.method = "sliced" THEN "temp" ELSE "destination",
        total |-> Length(u), match |-> row.match, data |-> <<>>, state |-> "open", meta |-> Absent])]
  /\ slices' = [slices EXCEPT ![u] = [uri |-> Len(bucket.sessions) + 1, crc |-> None]]
  /\ Becomes(u, [stream[u] EXCEPT !.at = "send", !.hashed = <<>>])
  /\ UNCHANGED <<late, spent>>

SessionLost(u) ==
  /\ StreamStep /\ stream[u].at \in {"query", "open"}
  /\ Fault /\ Fails(u, "network")
  /\ UNCHANGED <<bucket, late, slices>>

\* The head of the chunk loop: should_stop, or all was sent and no answer ended it.
StopStream(u) ==
  /\ StreamStep /\ stream[u].at = "send" /\ stop /\ Len(stream[u].hashed) < Length(u)
  /\ Becomes(u, [stream[u] EXCEPT !.at = "stopped"])
  /\ UNCHANGED <<bucket, late, slices, spent>>
Unfinished(u) ==
  /\ StreamStep /\ stream[u].at = "send" /\ Len(stream[u].hashed) = Length(u)
  /\ Fails(u, "mismatch")
  /\ UNCHANGED <<bucket, late, slices, spent>>
\* The file became shorter: the chunk is empty, and its range malformed.
Truncated(u) ==
  /\ StreamStep /\ stream[u].at = "send" /\ ~stop
  /\ Len(stream[u].hashed) < Length(u) /\ Len(source) <= Offset(u) + Len(stream[u].hashed)
  /\ Fails(u, "unknown")
  /\ UNCHANGED <<bucket, late, slices, spent>>

\* put_chunk: the next part is read, fed to the hash and sent; the offset goes on
\* by what was sent. Answered; executed without an answer; lost, or executed
\* later; or answered by a server that kept nothing of it.
Send(u) ==
  /\ StreamStep /\ stream[u].at = "send" /\ ~stop
  /\ LET n == Len(stream[u].hashed)
         part == source[Offset(u) + n + 1]
         sent == [stream[u] EXCEPT !.hashed = Append(@, part)]
         s == slices[u].uri
         after == Receive(bucket, s, n, part)
         answer == Answer(after, s, n)
         r == [kind |-> "chunk", session |-> s, offset |-> n, part |-> part]
     IN /\ n < Length(u) /\ Offset(u) + n < Len(source)
        /\ \/ /\ bucket' = after /\ UNCHANGED <<late, spent>>
              /\ CASE answer = "final" -> Becomes(u, [sent EXCEPT !.at = "verify", !.meta = after.sessions[s].meta])
                   [] answer = "more" -> Becomes(u, sent)
                   [] OTHER -> Fails(u, answer)
           \/ Fault /\ bucket' = after /\ UNCHANGED late /\ Fails(u, "network")
           \/ Fault /\ UNCHANGED bucket /\ late' \in {late, late \cup {r}} /\ Fails(u, "network")
           \/ /\ bucket.sessions[s].state = "open" /\ Fault
              /\ UNCHANGED <<bucket, late>> /\ Becomes(u, sent)
  /\ UNCHANGED slices

\* verify_layer2, and for a slice the row that says it is uploaded.
VerifyStream(u) ==
  /\ StreamStep /\ stream[u].at = "verify"
  /\ IF stream[u].meta.data = stream[u].hashed
     THEN /\ Becomes(u, [stream[u] EXCEPT !.at = "done"])
          /\ slices' = IF options.method = "sliced" THEN [slices EXCEPT ![u].crc = stream[u].hashed] ELSE slices
     ELSE Fails(u, "mismatch") /\ UNCHANGED slices
  /\ UNCHANGED <<bucket, late, spent>>

\* All have ended: the first that failed, in their order, decides.
Succeeded(u) == stream[u].at \in {"done", "found"}
Settled(u) == stream[u].at \in {"done", "found", "failed", "stopped"}
Bad(u) == stream[u].at \in {"failed", "stopped"}
Metas == [i \in 1..Count |-> stream[i - 1].meta]
Join ==
  /\ pc = "streams" /\ \A u \in Used : Settled(u)
  /\ \/ \E u \in Used :
          /\ Bad(u) /\ \A v \in Used : Bad(v) => u <= v
          /\ IF stream[u].at = "stopped" THEN Leave /\ UNCHANGED rows ELSE Fail(stream[u].err)
     \/ /\ \A u \in Used : ~Bad(u)
        /\ pc' = IF options.method = "sliced" THEN "compose"
                 ELSE IF stream[0].at = "found" THEN "record"     \* finished before: nothing to stamp
                 ELSE "stamp"
        /\ local' = [crc |-> stream[0].meta.data, gen |-> stream[0].meta.gen,
                     sha |-> IF stream[0].at = "found" /\ options.audit THEN source ELSE None]
        /\ UNCHANGED <<rows, try, edited, stop, stream>>
  /\ Outside

Compose ==
  /\ pc = "compose"
  /\ Request("check compose", Composed(bucket, Metas, row.match), ComposeAnswer(bucket, Metas, row.match),
             [kind |-> "compose", metas |-> Metas, match |-> row.match])
  /\ UNCHANGED <<file, options>>

\* combine_all counts each slice with the length it is planned to have.
Fitting == \A u \in Used : Len(stream[u].meta.data) = Length(u)
CheckCompose ==
  /\ pc = "check compose"
  /\ IF Fitting /\ bucket.dest.data = Joined(Metas)
     THEN /\ pc' = "sweep"
          /\ local' = [NoResult EXCEPT !.crc = bucket.dest.data, !.gen = bucket.dest.gen]
          /\ UNCHANGED <<rows, try, edited, stop, stream>>
     ELSE Fail("mismatch")
  /\ Outside

\* Every temporary object is deleted, or some are when a request fails.
Sweep ==
  /\ pc = "sweep"
  /\ \/ /\ bucket' = [bucket EXCEPT !.temps = [u \in Units |-> Absent]]
        /\ pc' = "stamp" /\ UNCHANGED <<rows, try, local, edited, stop, stream, spent>>
     \/ /\ \E S \in SUBSET Units :
             bucket' = [bucket EXCEPT !.temps = [u \in Units |-> IF u \in S THEN Absent ELSE @[u]]]
        /\ Fault /\ Fail("network")
  /\ UNCHANGED <<file, late, options>>

\* stamp_sha256: of what was sent, or, after slices, of the file read once more;
\* whatever object has the name gets it.
Sha == IF options.method = "sliced" THEN source ELSE local.crc
Stamp ==
  /\ pc = "stamp"
  /\ CASE ~options.audit -> pc' = "record" /\ UNCHANGED <<bucket, rows, try, local, edited, stop, stream>>
       [] options.audit /\ bucket.dest = Absent -> Fail("not found") /\ UNCHANGED bucket
       [] OTHER ->
            /\ bucket' = [bucket EXCEPT !.dest.hash = Sha]
            /\ local' = [local EXCEPT !.sha = Sha]
            /\ pc' = "record" /\ UNCHANGED <<rows, try, edited, stop, stream>>
  /\ UNCHANGED <<file, late, options, spent>>

---------------------------------------------------------------------------
(* Around it *)

\* A request arrives that nobody waits for any more.
ExecuteLate ==
  /\ \E r \in late :
       /\ late' = late \ {r}
       /\ bucket' = CASE r.kind = "put" -> PutWhole(bucket, r.data, r.crc, r.match, r.hash)
                      [] r.kind = "chunk" -> Receive(bucket, r.session, r.offset, r.part)
                      [] r.kind = "compose" -> Composed(bucket, r.metas, r.match)
  /\ UNCHANGED <<file, options, rows, run, spent>>

\* The source is written to: some parts are new, and its length may be.
Edit ==
  /\ Len(past) <= MaxEdits
  /\ \E c \in Contents :
       /\ c # source
       /\ \A i \in DOMAIN c : c[i] = Len(past) \/ (i \in DOMAIN source /\ c[i] = source[i])
       /\ source' = c /\ past' = Append(past, c)
  /\ edited' = (edited \/ pc # "idle")
  /\ UNCHANGED <<bucket, late, options, rows, pc, try, local, stop, stream, spent>>

\* Somebody else writes or deletes in the bucket; a lifecycle rule does, too.
OthersObject(data) == [gen |-> bucket.gen + 1, data |-> data, by |-> "other", hash |-> None]
Foreign ==
  /\ spent.foreign < MaxForeign /\ spent' = [spent EXCEPT !.foreign = @ + 1]
  /\ \E o \in {OthersObject(Alien), OthersObject(source), Absent} :
       \/ bucket' = [bucket EXCEPT !.dest = o, !.gen = @ + 1]
       \/ \E u \in Units : bucket' = [bucket EXCEPT !.temps[u] = o, !.gen = @ + 1]
  /\ UNCHANGED <<file, late, options, rows, run>>

\* A session is forgotten by the server.
Expire ==
  /\ Fault
  /\ \E s \in DOMAIN bucket.sessions :
       /\ bucket.sessions[s].state # "gone"
       /\ bucket' = [bucket EXCEPT !.sessions[s].state = "gone"]
  /\ UNCHANGED <<file, late, options, rows, run>>

Crash ==
  /\ pc # "idle" /\ spent.crashes < MaxCrashes
  /\ spent' = [spent EXCEPT !.crashes = @ + 1]
  /\ Leave
  /\ UNCHANGED <<file, bucket, late, options, rows>>

RequestStop ==
  /\ pc # "idle" /\ ~stop /\ spent.stops < MaxStops
  /\ spent' = [spent EXCEPT !.stops = @ + 1] /\ stop' = TRUE
  /\ UNCHANGED <<file, bucket, late, options, rows, pc, try, local, edited, stream>>

MainStep ==
  \/ Stat \/ Attempt \/ Caught \/ SkipRule \/ Record \/ ClearSlices \/ Put \/ CheckPut \/ Plan \/ Join
  \/ Compose \/ CheckCompose \/ Sweep \/ Stamp
Upload(u) == Query(u) \/ Open(u) \/ StopStream(u) \/ Unfinished(u) \/ Truncated(u) \/ Send(u) \/ VerifyStream(u)
Next ==
  \/ Begin \/ MainStep \/ LookupLost \/ ClearFails
  \/ \E u \in Units : Upload(u) \/ SessionLost(u)
  \/ ExecuteLate \/ Edit \/ Foreign \/ Expire \/ Crash \/ RequestStop

Spec == Init /\ [][Next]_vars

---------------------------------------------------------------------------
(* Properties *)

\* A file that nobody edited between the look at it and its verification is
\* verified as what it was: nothing of an earlier content survives in the
\* slices, sessions and temporary objects that the attempt takes up again
\* (store/repository.py:386-390, gcs/uploader.py:414-421, 189-214). But for one
\* window: a run that ended between the UPDATE and the DELETE of mark_changed
\* (store/repository.py:380, 390) leaves the old slices under the new size and
\* mtime, and what is verified with them is not vouched for.
HonestUnlessEdited == row.state = "verified" /\ ~edited /\ ~row.torn => row.crc = past[row.seen]

\* Of a file that is never edited, nothing but the file ever appears under its
\* object's name by the job's hand: not for a moment a part, two parts in the
\* wrong order, or a slice that somebody replaced (gcs/uploader.py:344-348).
NothingElseAppears == Len(past) = 1 /\ bucket.dest.by = "job" => bucket.dest.data = source

\* Nobody is ever handed, or told to be delivered, anything but the file
\* (gcs/uploader.py:332-377, engine/runner.py:302-312).
OnlyTheFile == HonestUnlessEdited /\ NothingElseAppears

\* What others wrote to the destination after the job's first look at it is never
\* replaced by the job, in no attempt, resumed session or late request
\* (engine/runner.py:171-176: the precondition is kept for every later one).
ForeignWriteStays ==
  [][bucket.dest.by = "other" /\ spent.looked >= 0 /\ bucket.dest.gen # spent.looked
       => bucket'.dest.by # "job"]_vars

\* An uploaded slice is sent once: its row keeps its checksum until the file is
\* settled, changes, or fails its verification, or the attempt looked for the
\* temporary object and found it gone or replaced (gcs/uploader.py:414-421, 446-448).
UploadedSliceIsKept ==
  [][\A u \in Units :
       slices[u].crc # None /\ slices'[u].crc = None
         => \/ row'.state \in Delivered \cup {"changed"}
            \/ row.category = "mismatch"
            \/ stream[u].at = "open" /\ stream[u].meta.data # slices[u].crc]_vars

\* A content that the file never had is not verified (store/repository.py:386-389).
NoChimera == row.state = "verified" => \E m \in DOMAIN past : row.crc = past[m]
=============================================================================
