---------------------------- MODULE Download ----------------------------
(***************************************************************************)
(* How one object of a download reaches its file: the attempts of          *)
(* _process_file and, inside them, download_file, which collects ranges in *)
(* a .part file, keeps the checksums of the finished ones in file_slices   *)
(* over attempts and runs, and renames the part; the audit behind it; and  *)
(* around them the bucket where the object is replaced, the user who       *)
(* removes files, requests that fail, stops and crashes.                   *)
(*                                                                         *)
(* A content is a sequence of ranges, a range the value of its bytes; the  *)
(* checksum of some bytes is their value, so that two are equal when the   *)
(* bytes are (combine_all is concatenation: module CrcCombine). Sizes are  *)
(* counted in ranges.                                                      *)
(***************************************************************************)
EXTENDS Integers, Sequences, FiniteSets, SequencesExt

CONSTANTS
  MaxAttempts, QuarantineAttempts,
  Persistent,     \* BOOLEAN: the job is resumed for as long as its file is not settled
  Resizes,        \* BOOLEAN: the object may be replaced by one of another size
  Values,         \* the contents a range may have
  MaxSize,        \* bound on the ranges of an object
  MaxRuns, MaxReplaced, MaxFaults, MaxRemoved, MaxCrashes, MaxStops   \* bounds

ASSUME DownloadAssumption ==
  /\ MaxAttempts \in Nat \ {0} /\ QuarantineAttempts \in Nat
  /\ Values \subseteq Nat \ {0} /\ MaxSize \in Nat \ {0}

VARIABLES
  object,   \* [gen, data]: the live object; gens before it cannot be read any more
  part,     \* the .part file, or NoFile
  dest,     \* the destination, or NoFile
  row,      \* the row of job_files
  ranges,   \* the file's rows of file_slices: the checksums of finished ranges
  pc, try,  \* _process_file, and _audit behind it
  meta,     \* the object as download_file looked at it
  crcs,     \* download_file's checksums by range
  fetch,    \* the calls of _fetch_range in the pool
  stop,     \* options.should_stop()
  spent,    \* what was used of the bounds, and whether a part was begun anew beside
            \* ranges that are still recorded (history)
  seen      \* every content the object had (history)

disk == <<part, dest>>
rows == <<row, ranges>>
run == <<pc, try, meta, crcs, fetch, stop>>
world == <<object, seen>>
vars == <<world, disk, rows, run, spent>>

Zeros == 0            \* a range never written
Torn == -1            \* a range half written
NoCrc == -2
NoFile == <<NoCrc>>
Contents == BoundedSeq(Values, MaxSize)
Units == 0..MaxSize - 1
Blank == [u \in Units |-> NoCrc]
NoMeta == [gen |-> 0, data |-> <<>>]
NoCalls == [u \in Units |-> "none"]

\* plan_ranges, counted in ranges.
Planned(size) == {u \in Units : u < size}
Data(content, u) == content[u + 1]
Put(content, u, value) == [content EXCEPT ![u + 1] = value]

FileStates == {"pending", "transferring", "verified", "skipped", "failed", "quarantined"}
Delivered == {"verified", "skipped"}
NotRetried == Delivered \cup {"quarantined"}
Transient == {"network"}
Failed == {"network", "not found", "unknown", "stopped"}   \* a call's exception

TypeOK ==
  /\ object.data \in Contents /\ object.data \in seen
  /\ part # NoFile => part \in BoundedSeq(Values \cup {Zeros, Torn}, MaxSize)
  /\ row.state \in FileStates /\ row.size \in 0..MaxSize
  /\ row.category \in {"none", "network", "not found", "mismatch", "unknown", "denied"}
  /\ ranges \in [Units -> Values \cup {NoCrc}]
  /\ pc \in {"idle", "attempt", "look", "part", "size", "fetch", "rename", "record", "clear",
             "caught", "audit"}
  /\ try \in 0..MaxAttempts
  /\ fetch \in [Units -> {"none", "queued", "open", "writing", "received", "done"} \cup Failed]
  /\ pc \in {"fetch", "rename"} => Len(part) = Len(meta.data)

Init ==
  /\ \E c \in Contents : object = [gen |-> 1, data |-> c] /\ seen = {c}
  /\ part = NoFile /\ dest \in {NoFile} \cup {c \in Contents : Len(c) = Len(object.data)}
  /\ row = [state |-> "pending", size |-> Len(object.data), attempts |-> 0,
            category |-> "none", crc |-> NoFile, gen |-> 0]
  /\ ranges = Blank
  /\ pc = "idle" /\ try = 0 /\ meta = NoMeta /\ crcs = Blank /\ fetch = NoCalls /\ stop = FALSE
  /\ spent = [runs |-> 0, replaced |-> 0, faults |-> 0, removed |-> 0, crashes |-> 0, stops |-> 0,
            anew |-> FALSE]

Fault == spent.faults < MaxFaults /\ spent' = [spent EXCEPT !.faults = @ + 1]

---------------------------------------------------------------------------
(* _process_file, which looks at no source for a download *)

MarkFailed(c) == row' = [row EXCEPT !.state = "failed", !.attempts = @ + 1, !.category = c]
Forgotten == spent' = [spent EXCEPT !.anew = @ /\ ranges' # Blank]
Forget == meta' = NoMeta /\ crcs' = Blank /\ fetch' = NoCalls

\* The file is done with for this run: the audit follows unless the run was stopped.
Leave(next) == pc' = next /\ try' = 0 /\ Forget /\ stop' = FALSE

\* The job is run (again); reset_stale_transfers. A file that is not pending
\* is only audited.
Begin ==
  /\ pc = "idle" /\ (Persistent => row.state \notin NotRetried)
  /\ Persistent \/ spent.runs < MaxRuns
  /\ spent' = IF Persistent THEN spent ELSE [spent EXCEPT !.runs = @ + 1]
  /\ row' = [row EXCEPT !.state = IF @ = "transferring" THEN "pending" ELSE @]
  /\ IF row.state \in NotRetried
     THEN pc' = "audit" /\ UNCHANGED try
     ELSE pc' = "attempt" /\ try' = 1
  /\ UNCHANGED <<world, disk, ranges, meta, crcs, fetch, stop>>

\* The head of the loop; the rows of the finished ranges are read here.
Attempt ==
  /\ pc = "attempt"
  /\ IF stop
     THEN Leave("idle") /\ UNCHANGED row
     ELSE /\ row' = [row EXCEPT !.state = "transferring"]
          /\ pc' = "look" /\ crcs' = ranges
          /\ UNCHANGED <<try, meta, fetch, stop>>
  /\ UNCHANGED <<world, disk, ranges, spent>>

Fail(c) ==
  /\ MarkFailed(c) /\ pc' = "caught" /\ Forget
  /\ UNCHANGED <<disk, ranges, try, stop>>

\* The except clause: what failed verification is forgotten.
KeepRanges == ranges
DropRanges == IF row.category = "mismatch" THEN Blank ELSE ranges
Caught ==
  /\ pc = "caught"
  /\ ranges' = DropRanges /\ Forgotten
  /\ LET over == row.attempts >= QuarantineAttempts
     IN /\ row' = [row EXCEPT !.state = IF over THEN "quarantined" ELSE @]
        /\ IF ~over /\ row.category \in Transient /\ try < MaxAttempts
           THEN pc' = "attempt" /\ try' = try + 1 /\ UNCHANGED <<meta, crcs, fetch, stop>>
           ELSE Leave("audit")
  /\ UNCHANGED <<world, disk>>

---------------------------------------------------------------------------
(* download_file *)

MarkDelivered(state, crc, gen) ==
  row' = [row EXCEPT !.state = state, !.category = "none", !.crc = crc, !.gen = gen]

\* The object's metadata and the skip rule.
Look ==
  /\ pc = "look"
  /\ \/ /\ dest = object.data
        /\ MarkDelivered("skipped", dest, object.gen)
        /\ pc' = "clear" /\ UNCHANGED <<disk, ranges, try, meta, crcs, fetch, stop, spent>>
     \/ /\ dest # object.data
        /\ meta' = object /\ pc' = "part"
        /\ UNCHANGED <<disk, rows, try, crcs, fetch, stop, spent>>
     \/ Fault /\ Fail("network")
  /\ UNCHANGED world

\* A part of another size is begun anew, and the finished ranges are ignored
\* by this attempt; first it is emptied, then sized.
OnlyMissing == part = NoFile
Stale == part = NoFile \/ Len(part) # Len(meta.data)
ToFetch(known) == [u \in Units |->
  IF u \in Planned(Len(meta.data)) /\ known[u] = NoCrc THEN "queued" ELSE "none"]
MakePart ==
  /\ pc = "part"
  /\ IF Stale
     THEN /\ part' = <<>> /\ crcs' = Blank /\ pc' = "size" /\ UNCHANGED fetch
          /\ spent' = [spent EXCEPT !.anew = @ \/ ranges # Blank]
     ELSE fetch' = ToFetch(crcs) /\ pc' = "fetch" /\ UNCHANGED <<part, crcs, spent>>
  /\ UNCHANGED <<world, dest, rows, try, meta, stop>>
SizePart ==
  /\ pc = "size"
  /\ part' = [i \in DOMAIN meta.data |-> Zeros]
  /\ fetch' = ToFetch(crcs) /\ pc' = "fetch"
  /\ UNCHANGED <<world, dest, rows, try, meta, crcs, stop, spent>>

FetchStep == pc = "fetch" /\ UNCHANGED <<world, dest, row, pc, try, meta, stop>>
Becomes(u, at) == fetch' = [fetch EXCEPT ![u] = at]

\* The request for the pinned generation, which only the live object answers.
Open(u) ==
  /\ FetchStep /\ fetch[u] = "queued"
  /\ \/ Becomes(u, IF object.gen = meta.gen THEN "open" ELSE "not found") /\ UNCHANGED spent
     \/ Fault /\ Becomes(u, "network")
  /\ UNCHANGED <<part, ranges, crcs>>

\* The bytes arrive and are written one chunk behind the other; an answer that
\* breaks off is a failure of the network, and a stop is seen between chunks.
Write(u) ==
  /\ FetchStep /\ fetch[u] = "open" /\ ~stop
  /\ part' = Put(part, u, Torn) /\ Becomes(u, "writing")
  /\ UNCHANGED <<ranges, crcs, spent>>
CutOff(u) ==
  /\ FetchStep /\ fetch[u] \in {"open", "writing"}
  /\ \/ stop /\ Becomes(u, "stopped") /\ UNCHANGED spent
     \/ Fault /\ Becomes(u, "network")
  /\ UNCHANGED <<part, ranges, crcs>>
Receive(u) ==
  /\ FetchStep /\ fetch[u] = "writing"
  /\ part' = Put(part, u, Data(meta.data, u)) /\ Becomes(u, "received")
  /\ UNCHANGED <<ranges, crcs, spent>>

\* on_range: the finished range's row, from the plan of the scanned size; the
\* call returns the checksum.
Known(u) == u \in Planned(row.size)
RecordRange(u) ==
  /\ FetchStep /\ fetch[u] = "received"
  /\ IF Known(u)
     THEN /\ ranges' = [ranges EXCEPT ![u] = Data(meta.data, u)]
          /\ crcs' = [crcs EXCEPT ![u] = Data(meta.data, u)]
          /\ Becomes(u, "done")
     ELSE Becomes(u, "unknown") /\ UNCHANGED <<ranges, crcs>>
  /\ UNCHANGED <<part, spent>>

\* The futures in their order: the first exception, when the pool has finished;
\* else the checksums together against the object's.
Assembled == [i \in DOMAIN meta.data |-> crcs[i - 1]]
Unchecked == TRUE
Matches == Assembled = meta.data
Join ==
  /\ pc = "fetch" /\ \A u \in Units : fetch[u] \in {"none", "done"} \cup Failed
  /\ LET bad == {u \in Units : fetch[u] \in Failed}
         first == CHOOSE u \in bad : \A w \in bad : u <= w
     IN CASE bad # {} /\ fetch[first] = "stopped" -> Leave("idle") /\ UNCHANGED <<disk, rows>>
          [] bad # {} /\ fetch[first] # "stopped" -> Fail(fetch[first])
          [] bad = {} /\ ~Matches -> Fail("mismatch")
          [] bad = {} /\ Matches ->
               pc' = "rename" /\ UNCHANGED <<disk, rows, try, meta, crcs, fetch, stop>>
  /\ UNCHANGED <<world, spent>>

\* os.replace, which a program that holds the destination open makes fail.
Rename ==
  /\ pc = "rename"
  /\ \/ /\ dest' = part /\ part' = NoFile /\ pc' = "record"
        /\ UNCHANGED <<rows, try, meta, crcs, fetch, stop, spent>>
     \/ Fault /\ Fail("denied")
  /\ UNCHANGED world

\* mark_verified, and then clear_slices, each its own transaction.
Record ==
  /\ pc = "record"
  /\ MarkDelivered("verified", Assembled, meta.gen) /\ pc' = "clear"
  /\ UNCHANGED <<world, disk, ranges, try, meta, crcs, fetch, stop, spent>>
Clear ==
  /\ pc = "clear"
  /\ ranges' = Blank /\ Forgotten /\ Leave("audit")
  /\ UNCHANGED <<world, disk, row>>

\* _audit: a delivered file is there, with the size it was scanned with.
Audit ==
  /\ pc = "audit"
  /\ IF row.state \in Delivered /\ (dest = NoFile \/ Len(dest) # row.size)
     THEN MarkFailed(IF dest = NoFile THEN "not found" ELSE "mismatch")
     ELSE UNCHANGED row
  /\ pc' = "idle"
  /\ UNCHANGED <<world, disk, ranges, try, meta, crcs, fetch, stop, spent>>

---------------------------------------------------------------------------
(* What happens around it *)

\* The object is written anew, perhaps with a content it had before.
Replaced ==
  /\ spent.replaced < MaxReplaced
  /\ \E c \in Contents :
       /\ Resizes \/ Len(c) = Len(object.data)
       /\ object' = [gen |-> object.gen + 1, data |-> c] /\ seen' = seen \cup {c}
  /\ spent' = [spent EXCEPT !.replaced = @ + 1]
  /\ UNCHANGED <<disk, rows, run>>

\* The user tidies up, while nothing is being transferred.
Removed ==
  /\ pc = "idle" /\ spent.removed < MaxRemoved
  /\ \/ part' = NoFile /\ UNCHANGED dest
     \/ dest' = NoFile /\ UNCHANGED part
  /\ disk' # disk
  /\ spent' = [spent EXCEPT !.removed = @ + 1]
  /\ UNCHANGED <<world, rows, run>>

\* The process dies; what it wrote to its files and its database stays.
Crash ==
  /\ pc # "idle" /\ spent.crashes < MaxCrashes
  /\ Leave("idle")
  /\ spent' = [spent EXCEPT !.crashes = @ + 1]
  /\ UNCHANGED <<world, disk, rows>>

RequestStop ==
  /\ pc # "idle" /\ ~stop /\ spent.stops < MaxStops
  /\ stop' = TRUE /\ spent' = [spent EXCEPT !.stops = @ + 1]
  /\ UNCHANGED <<world, disk, rows, pc, try, meta, crcs, fetch>>

MainStep ==
  \/ Attempt \/ Caught \/ Look \/ MakePart \/ SizePart \/ Join \/ Rename \/ Record \/ Clear \/ Audit
Fetching(u) == Open(u) \/ Write(u) \/ CutOff(u) \/ Receive(u) \/ RecordRange(u)
Around == Replaced \/ Removed \/ Crash \/ RequestStop

Next == Begin \/ MainStep \/ (\E u \in Units : Fetching(u)) \/ Around

Spec == Init /\ [][Next]_vars

---------------------------------------------------------------------------
(* Properties *)

\* download_file: what is renamed to the destination is a content the object
\* had as a whole, never two generations of it and never a range that was not
\* written, however often the object is replaced and the run cut short: unless a
\* part was begun anew beside recorded ranges. VerifiedIsObject shows what may
\* follow then.
OneGeneration ==
  [][dest' # dest /\ dest' # NoFile => dest' \in seen \/ spent.anew]_vars

\* file_slices: the bytes of a range whose checksum is kept are in the part,
\* so that what a later attempt does not fetch it has; again unless the part was
\* begun anew.
RowsHaveBytes ==
  part # NoFile /\ ~spent.anew =>
    \A u \in Units : ranges[u] # NoCrc => u < Len(part) /\ Data(part, u) = ranges[u]

\* What is told of a file is true: as its row is marked verified, the destination
\* has the content whose checksum the row gets; again unless the part was begun anew.
VerifiedIsThere == ~spent.anew /\ row.state = "verified" /\ pc = "clear" => dest = row.crc

\* What a download renames into place and calls verified is one content of the object,
\* as a whole (gcs/downloader.py:167-192), and until then every range recorded as
\* received has its bytes in the part (gcs/downloader.py:90-106), over restarts and
\* objects that are replaced.
BytesAreTheObjects == [](RowsHaveBytes /\ VerifiedIsThere) /\ OneGeneration

\* A range that was finished is not fetched again, in the same or a later run,
\* unless the whole failed its verification; again unless the part was begun anew.
FinishedIsKept ==
  [][\A u \in Units :
       fetch[u] # "queued" /\ fetch'[u] = "queued" => ranges[u] = NoCrc \/ spent.anew]_vars

\* A file that is called verified is there, and is the object's generation
\* that its row names.
VerifiedIsObject == row.state = "verified" /\ pc = "clear" => dest = row.crc
=============================================================================
