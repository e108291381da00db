---------------------------- MODULE MCTransfers ----------------------------
(***************************************************************************)
(* The ways of a file, each in a small instance, explored by one run: a    *)
(* behaviour is one upload, one download, one cutting of a file or one     *)
(* combining of checksums, and what it is not stays as it is. An upload is *)
(* of a source that is edited, or into a bucket others write to.           *)
(***************************************************************************)
EXTENDS SlicePlan, Upload

VARIABLES
  way,
  object, part, dest, d_row, ranges, d_pc, d_try, meta, crcs, fetch, d_stop, seen, d_spent,
  bytes, folded, result, piece, even, odd, crc, remaining, half

\* Sizes around every multiple of the slices below; minimums below, at and above
\* the even share, one that parse() accepts though it is no size, and one
\* component only.
SmallSizes == 0..26
SmallPolicies ==
  {[single_shot_max |-> 1, resumable_max |-> 3, min_slice |-> m, max_components |-> c] :
     m \in {-1, 0, 1, 4, 9}, c \in {1, 3, 8}}
SmallRanges == {1, 5, 8}

\* One part is one slice; at which size a method begins differs.
Policy(single, resumable) ==
  [single_shot_max |-> single, resumable_max |-> resumable, min_slice |-> 1, max_components |-> 32]
AllMethods == {Policy(2, 2), Policy(0, 2), Policy(0, 0)}

Fetched == INSTANCE Download WITH
  row <- d_row, pc <- d_pc, try <- d_try, stop <- d_stop, spent <- d_spent,
  MaxAttempts <- 2, QuarantineAttempts <- 3, Persistent <- FALSE, Resizes <- FALSE,
  Values <- {1, 2}, MaxSize <- 2, MaxRuns <- 2, MaxReplaced <- 1, MaxFaults <- 1,
  MaxRemoved <- 0, MaxCrashes <- 1, MaxStops <- 1

\* CRC-32C itself, 32 bits wide, over pieces of every length up to nine bytes: a
\* text whose bytes differ, zero bytes in front and at its end.
Castagnoli == {3, 4, 5, 6, 8, 9, 11, 12, 13, 17, 18, 20, 21, 22, 23, 25, 31}
Text == <<{}, {0, 5, 6}, {1, 5, 6}, {}, {0, 1, 2, 3, 4, 5, 6, 7}, {7}, {2, 4}, {0}, {}>>
Cuts == {SubSeq(Text, 1, n) : n \in 0..9} \cup {SubSeq(Text, n, 9) : n \in 7..8}
Summed == INSTANCE CrcCombine WITH
  file <- bytes, Dim <- 32, Poly <- Castagnoli, Pieces <- Cuts, MaxPieces <- 3

download == <<object, part, dest, d_row, ranges, d_pc, d_try, meta, crcs, fetch, d_stop, seen,
              d_spent>>
checksum == <<bytes, folded, result, piece, even, odd, crc, remaining, half>>

MCInit ==
  /\ way \in {"edited", "shared", "fetched", "cut", "summed"}
  /\ Init /\ (way \notin {"edited", "shared"} =>
                source = <<>> /\ bucket.dest = Absent /\ options.policy = Policy(2, 2))
  /\ Fetched!Init /\ (way # "fetched" => object.data = <<>> /\ dest = Fetched!NoFile)
  /\ PlanInit /\ (way # "cut" => plan = "slices" /\ size = 0 /\ policy.min_slice = 1
                                 /\ policy.max_components = 1 /\ range_bytes = 1)
  /\ Summed!Init

\* Of a source that is edited, or into a bucket others write to.
Uploading ==
  /\ Next
  /\ \/ way = "edited" /\ spent'.foreign = 0 /\ spent'.stops = 0
     \/ way = "shared" /\ Len(past') = 1 /\ spent'.runs <= 2
Fetching == way = "fetched" /\ Fetched!Next
Cutting == way = "cut" /\ PlanNext
Summing == way = "summed" /\ Summed!Next

\* A run is cut short by a crash or by a stop, once; an edited file has that or
\* a failed request, and both when a change of it was left half recorded.
MCNext ==
  /\ UNCHANGED way
  /\ \/ Uploading /\ UNCHANGED <<download, plan_vars, checksum>>
     \/ Fetching /\ UNCHANGED <<vars, plan_vars, checksum>>
     \/ Cutting /\ UNCHANGED <<vars, download, checksum>>
     \/ Summing /\ UNCHANGED <<vars, download, plan_vars>>
  /\ spent'.crashes + spent'.stops <= 1 /\ d_spent'.crashes + d_spent'.stops <= 1
  /\ way = "edited" => spent'.crashes + spent'.faults <= 1 \/ row'.torn \/ spent' = spent

allvars == <<way, vars, download, plan_vars, checksum>>
MCSpec == MCInit /\ [][MCNext]_allvars

---------------------------------------------------------------------------
(* The properties of the modules, put together by what they are about *)

\* The state of each way, and where its thread stands, fit each other.
WellTyped == TypeOK /\ PlanTypeOK /\ Fetched!TypeOK /\ Summed!TypeOK

\* What was finished is not done again by a retry, by the next run or after a
\* crash: a slice that was uploaded (gcs/uploader.py:414-421), a range that was
\* received (gcs/downloader.py:162-165).
WorkIsKept == UploadedSliceIsKept /\ Fetched!FinishedIsKept

\* The checksums combined of the slices' are the whole file's, and in every turn of
\* combine's loop what has been applied is the low bits of the length
\* (core/crc32c_combine.py:32-84).
CombinedIsWhole == Summed!CombinedIsWhole /\ Summed!LoopInvariant
=============================================================================
