-------------------------- MODULE DownloadProofs --------------------------
(***************************************************************************)
(* Theorems about Download, for every size, number of attempts, runs and   *)
(* failures, objects replaced by ones of any size and files removed: its   *)
(* types, that what is renamed into place and called verified is one       *)
(* content of the object, and that a finished range is not fetched again.  *)
(***************************************************************************)
EXTENDS Download, WellFoundedInduction, TLAPS

---------------------------------------------------------------------------
(* Contents, and files that are written range by range *)

Bytes == Values \cup {Zeros, Torn}
Parts == BoundedSeq(Bytes, MaxSize)
Files == {NoFile} \cup Parts
Crcs == [Units -> Values \cup {NoCrc}]

LEMMA ConstantsAre ==
  /\ MaxSize \in Nat \ {0} /\ MaxAttempts \in Nat \ {0} /\ QuarantineAttempts \in Nat
  /\ Values \subseteq Nat \ {0} /\ Zeros = 0 /\ Torn = -1 /\ NoCrc = -2
  /\ NoFile = <<NoCrc>> /\ Units = 0..MaxSize - 1
BY DownloadAssumption DEF Zeros, Torn, NoCrc, NoFile, Units

\* A bounded sequence is a sequence that is no longer than the bound.
LEMMA BoundedIs ==
  ASSUME NEW S, NEW n \in Nat, NEW c
  PROVE  c \in BoundedSeq(S, n) <=> c \in Seq(S) /\ Len(c) <= n
<1>1. ASSUME c \in BoundedSeq(S, n) PROVE c \in Seq(S) /\ Len(c) <= n
  <2>1. PICK m \in 0..n : c \in [1..m -> S]
    BY <1>1 DEF BoundedSeq, SeqOf
  <2> QED BY <2>1
<1>2. ASSUME c \in Seq(S), Len(c) <= n PROVE c \in BoundedSeq(S, n)
  <2>1. c \in [1..Len(c) -> S] /\ Len(c) \in 0..n
    BY <1>2
  <2> QED BY <2>1 DEF BoundedSeq, SeqOf
<1> QED BY <1>1, <1>2

LEMMA ContentsAre == \A c : c \in Contents <=> c \in Seq(Values) /\ Len(c) <= MaxSize
BY BoundedIs, ConstantsAre DEF Contents
LEMMA PartsAre == \A p : p \in Parts <=> p \in Seq(Bytes) /\ Len(p) <= MaxSize
BY BoundedIs, ConstantsAre DEF Parts

\* A content is a file; no content and no part is the sign for an absent file.
LEMMA ContentsAreParts == Contents \subseteq Parts /\ NoFile \notin Parts /\ NoFile \notin Contents
<1>1. ASSUME NEW c \in Contents PROVE c \in Parts
  <2>1. c \in Seq(Values) /\ Len(c) <= MaxSize
    BY ContentsAre
  <2>2. c \in Seq(Bytes)
    BY <2>1 DEF Bytes
  <2> QED BY <2>1, <2>2, PartsAre
<1>2. ASSUME NoFile \in Parts PROVE FALSE
  <2>1. NoFile \in Seq(Bytes) /\ NoFile = <<-2>>
    BY <1>2, PartsAre, ConstantsAre
  <2>2. NoFile[1] \in Bytes /\ NoFile[1] = -2
    BY <2>1
  <2> QED BY <2>2, ConstantsAre DEF Bytes
<1> QED BY <1>1, <1>2

\* A part as SizePart leaves it, and one in which a range was written.
LEMMA EmptyIs == <<>> \in Parts /\ <<>> \in Contents /\ <<>> # NoFile
<1>1. <<>> \in Seq(Bytes) /\ <<>> \in Seq(Values) /\ Len(<<>>) = 0
  OBVIOUS
<1>2. 0 <= MaxSize
  BY ConstantsAre
<1>3. <<>> \in Parts /\ <<>> \in Contents
  BY <1>1, <1>2, PartsAre, ContentsAre
<1> QED BY <1>3, ContentsAreParts

LEMMA SizedIs ==
  ASSUME NEW c \in Contents
  PROVE  /\ [i \in DOMAIN c |-> Zeros] \in Parts
         /\ Len([i \in DOMAIN c |-> Zeros]) = Len(c)
<1>1. c \in Seq(Values) /\ Len(c) <= MaxSize
  BY ContentsAre
<1>2. Zeros \in Bytes
  BY DEF Bytes
<1>3. [i \in DOMAIN c |-> Zeros] \in Seq(Bytes) /\ Len([i \in DOMAIN c |-> Zeros]) = Len(c)
  BY <1>1, <1>2
<1> QED BY <1>1, <1>3, PartsAre

LEMMA PutIs ==
  ASSUME NEW p \in Parts, NEW u \in Units, u < Len(p), NEW v \in Bytes
  PROVE  /\ Put(p, u, v) \in Parts /\ Len(Put(p, u, v)) = Len(p) /\ Data(Put(p, u, v), u) = v
         /\ \A w \in Units : w # u /\ w < Len(p) => Data(Put(p, u, v), w) = Data(p, w)
<1>1. p \in Seq(Bytes) /\ Len(p) <= MaxSize /\ u + 1 \in 1..Len(p)
  BY PartsAre, ConstantsAre
<1>2. Put(p, u, v) \in Seq(Bytes) /\ Len(Put(p, u, v)) = Len(p) /\ Put(p, u, v)[u + 1] = v
  BY <1>1 DEF Put
<1>3. ASSUME NEW w \in Units, w # u, w < Len(p) PROVE Put(p, u, v)[w + 1] = p[w + 1]
  <2>1. w + 1 \in 1..Len(p) /\ w + 1 # u + 1
    BY <1>1, <1>3, ConstantsAre
  <2> QED BY <1>1, <2>1 DEF Put
<1> QED BY <1>1, <1>2, <1>3, PartsAre DEF Data

\* The range of a content that has it is a value.
LEMMA DataIs ==
  ASSUME NEW c \in Contents, NEW u \in Units, u < Len(c)
  PROVE  Data(c, u) \in Values /\ Data(c, u) \in Bytes /\ Data(c, u) # NoCrc
<1>1. c \in Seq(Values) /\ u + 1 \in 1..Len(c)
  BY ContentsAre, ConstantsAre
<1> QED BY <1>1, ConstantsAre DEF Data, Bytes

---------------------------------------------------------------------------
(* The inductive invariant *)

Categories == {"none", "network", "not found", "mismatch", "unknown", "denied"}
Places ==
  {"idle", "attempt", "look", "part", "size", "fetch", "rename", "record", "clear", "caught", "audit"}
CallPlaces == {"none", "queued", "open", "writing", "received", "done"} \cup Failed
Rows == [state: FileStates, size: 0..MaxSize, attempts: Nat, category: Categories, crc: Files,
         gen: Nat]
Spent == [runs: Nat, replaced: Nat, faults: Nat, removed: Nat, crashes: Nat, stops: Nat, anew: BOOLEAN]

WorldOK == object \in [gen: Nat, data: Contents] /\ seen \in SUBSET Contents /\ object.data \in seen
DiskOK == part \in Files /\ dest \in Files
RowsOK == row \in Rows /\ ranges \in Crcs
RunOK ==
  /\ pc \in Places /\ try \in 0..MaxAttempts /\ meta \in [gen: Nat, data: Contents]
  /\ crcs \in Crcs /\ fetch \in [Units -> CallPlaces]
Typed == WorldOK /\ DiskOK /\ RowsOK /\ RunOK /\ spent \in Spent

\* What an attempt goes by is what the object was when it looked, and the ranges
\* it takes to be finished are those of the rows, whose bytes its part has.
Looked ==
  /\ pc \in {"part", "size", "fetch", "rename", "record"} => meta.data \in seen
  /\ pc \in {"look", "part"} => crcs = ranges
  /\ pc = "size" => crcs = Blank /\ part = <<>>
  /\ pc \in {"size", "fetch", "rename"} => part # NoFile /\ (~spent.anew => crcs = ranges)
  /\ pc \in {"fetch", "rename"} => Len(part) = Len(meta.data)

\* A call under way is for a range that is not recorded; its bytes are written
\* before it is.
Calls ==
  pc = "fetch" =>
    \A u \in Units :
      /\ fetch[u] \in {"queued", "open", "writing", "received"} => u < Len(meta.data) /\ crcs[u] = NoCrc
      /\ fetch[u] = "received" => Data(part, u) = Data(meta.data, u)

\* What is renamed, marked and called verified.
Verdict ==
  /\ pc \in {"rename", "record"} => Assembled = meta.data
  /\ pc = "record" /\ ~spent.anew => dest = meta.data
  /\ VerifiedIsThere

Inv == Typed /\ Looked /\ RowsHaveBytes /\ Calls /\ Verdict

---------------------------------------------------------------------------
(* The first of some ranges *)

LEMMA FirstIs == ASSUME NEW S \in SUBSET Units, S # {} PROVE \E u \in S : \A w \in S : u <= w
<1>1. S \subseteq Nat
  BY ConstantsAre
<1>2. PICK u \in S : \A w \in S : ~ (<<w, u>> \in OpToRel(<, Nat))
  BY <1>1, WFMin, NatLessThanWellFounded, Zenon
<1>3. \A w \in S : ~ (w < u)
  BY <1>1, <1>2, Zenon DEF OpToRel
<1> QED BY <1>1, <1>3

---------------------------------------------------------------------------
(* What the steps have in common *)

LEMMA BlankIs == Blank \in Crcs /\ \A u \in Units : Blank[u] = NoCrc
BY DEF Blank, Crcs

LEMMA BeginningIs == NoMeta \in [gen: Nat, data: Contents] /\ NoCalls \in [Units -> CallPlaces]
BY EmptyIs DEF NoMeta, NoCalls, CallPlaces

\* Between the attempts there is nothing to be right about but the rows.
LEMMA AtRest ==
  ASSUME Typed', RowsHaveBytes', pc' \in {"idle", "attempt", "caught", "audit"}
  PROVE  Inv'
BY DEF Inv, Looked, Calls, Verdict, VerifiedIsThere

LEMMA BytesStay ==
  ASSUME Inv, part' = part, ranges' = ranges, spent'.anew = spent.anew
  PROVE  RowsHaveBytes'
BY DEF Inv, RowsHaveBytes

LEMMA FaultIs == ASSUME spent \in Spent, Fault PROVE spent' \in Spent /\ spent'.anew = spent.anew
BY DEF Spent, Fault

LEMMA FailedIs ==
  ASSUME row \in Rows, NEW c \in Categories, MarkFailed(c)
  PROVE  row' \in Rows /\ row'.state = "failed"
<1>1. row.attempts + 1 \in Nat /\ "failed" \in FileStates
  BY DEF Rows, FileStates
<1> QED BY <1>1 DEF Rows, MarkFailed

LEMMA DeliveredIs ==
  ASSUME row \in Rows, NEW state \in Delivered, NEW crc \in Files, NEW gen \in Nat,
         MarkDelivered(state, crc, gen)
  PROVE  row' \in Rows /\ row'.state = state /\ row'.crc = crc
BY DEF Rows, MarkDelivered, FileStates, Delivered, Categories

\* The attempt is given up.
LEMMA FailKeeps ==
  ASSUME Inv, NEW c \in Categories, Fail(c), UNCHANGED world,
         spent' \in Spent, spent'.anew = spent.anew
  PROVE  Inv'
<1>1. Typed'
  BY FailedIs, BlankIs, BeginningIs DEF Inv, Typed, WorldOK, DiskOK, RowsOK, RunOK, Fail, Forget, world, disk, Places
<1> QED BY <1>1, AtRest, BytesStay DEF Fail, disk

\* The file is left for this run.
LEMMA LeaveKeeps ==
  ASSUME Inv, NEW next \in {"idle", "audit"}, Leave(next), WorldOK', DiskOK', RowsOK', spent' \in Spent,
         RowsHaveBytes'
  PROVE  Inv'
<1>1. RunOK'
  BY ConstantsAre, BlankIs, BeginningIs DEF Leave, Forget, RunOK, Places
<1> QED BY <1>1, AtRest DEF Typed, Leave

LEMMA InitIsRight == Init => Inv
<1> SUFFICES ASSUME Init PROVE Inv
  OBVIOUS
<1>1. PICK c \in Contents : object = [gen |-> 1, data |-> c] /\ seen = {c}
  BY DEF Init
<1>2. WorldOK
  BY <1>1 DEF WorldOK
<1>3. DiskOK
  BY ContentsAreParts DEF Init, DiskOK, Files
<1>4. RowsOK
  <2>1. Len(c) \in 0..MaxSize
    BY ContentsAre, ConstantsAre
  <2>2. NoFile \in Files
    BY DEF Files
  <2> QED BY <1>1, <2>1, <2>2, BlankIs DEF Init, RowsOK, Rows, FileStates, Categories
<1>5. RunOK
  BY ConstantsAre, BlankIs, BeginningIs DEF Init, RunOK, Places
<1>6. spent \in Spent
  BY DEF Init, Spent
<1>7. RowsHaveBytes /\ Looked /\ Calls /\ Verdict
  BY DEF Init, RowsHaveBytes, Looked, Calls, Verdict, VerifiedIsThere
<1> QED BY <1>2, <1>3, <1>4, <1>5, <1>6, <1>7 DEF Inv, Typed

---------------------------------------------------------------------------
(* The attempts *)

LEMMA KeepsBegin == Inv /\ Begin => Inv'
<1> SUFFICES ASSUME Inv, Begin PROVE Inv'
  OBVIOUS
<1>1. spent' \in Spent /\ spent'.anew = spent.anew
  BY DEF Inv, Typed, Begin, Spent
<1>2. row' \in Rows
  BY DEF Inv, Typed, RowsOK, Begin, Rows, FileStates
<1>3. try' \in 0..MaxAttempts /\ pc' \in {"attempt", "audit"}
  BY ConstantsAre DEF Inv, Typed, RunOK, Begin
<1>4. Typed'
  BY <1>1, <1>2, <1>3 DEF Inv, Typed, WorldOK, DiskOK, RowsOK, RunOK, Begin, world, disk, Places
<1> QED BY <1>1, <1>3, <1>4, AtRest, BytesStay DEF Begin, disk

LEMMA KeepsAttempt == Inv /\ Attempt => Inv'
<1> SUFFICES ASSUME Inv, Attempt PROVE Inv'
  OBVIOUS
<1>1. WorldOK' /\ DiskOK' /\ spent' \in Spent /\ RowsHaveBytes'
  BY BytesStay DEF Inv, Typed, WorldOK, DiskOK, Attempt, world, disk
<1>2. CASE stop
  BY <1>1, <1>2, LeaveKeeps DEF Inv, Typed, RowsOK, Attempt
<1>3. CASE ~stop
  <2>1. RowsOK' /\ RunOK'
    BY <1>3 DEF Inv, Typed, RowsOK, RunOK, Attempt, Rows, FileStates, Places
  <2>2. Looked' /\ Calls' /\ Verdict'
    BY <1>3 DEF Attempt, Looked, Calls, Verdict, VerifiedIsThere
  <2> QED BY <1>1, <2>1, <2>2 DEF Inv, Typed
<1> QED BY <1>2, <1>3

LEMMA KeepsCaught == Inv /\ Caught => Inv'
<1> SUFFICES ASSUME Inv, Caught PROVE Inv'
  OBVIOUS
<1>1. ranges' \in {ranges, Blank} /\ ranges' \in Crcs
  BY BlankIs DEF Inv, Typed, RowsOK, Caught, DropRanges
<1>2. spent' \in Spent /\ (~spent'.anew => ~spent.anew \/ ranges' = Blank)
  BY DEF Inv, Typed, Spent, Caught, Forgotten
<1>3. row' \in Rows
  BY DEF Inv, Typed, RowsOK, Caught, Rows, FileStates
<1>4. WorldOK' /\ DiskOK' /\ RowsOK'
  BY <1>1, <1>3 DEF Inv, Typed, WorldOK, DiskOK, RowsOK, Caught, world, disk
<1>5. RowsHaveBytes'
  BY <1>1, <1>2, BlankIs DEF Inv, RowsHaveBytes, Caught, disk
<1>6. CASE Leave("audit")
  BY <1>2, <1>4, <1>5, <1>6, LeaveKeeps
<1>7. CASE ~Leave("audit")
  <2>1. pc' = "attempt" /\ try' = try + 1 /\ try < MaxAttempts /\ UNCHANGED <<meta, crcs, fetch, stop>>
    BY <1>7 DEF Caught
  <2>2. RunOK'
    BY <2>1, ConstantsAre DEF Inv, Typed, RunOK, Places
  <2> QED BY <1>2, <1>4, <1>5, <2>1, <2>2, AtRest DEF Typed
<1> QED BY <1>6, <1>7

---------------------------------------------------------------------------
(* download_file *)

LEMMA KeepsLook == Inv /\ Look => Inv'
<1> SUFFICES ASSUME Inv, Look PROVE Inv'
  OBVIOUS
<1>1. WorldOK'
  BY DEF Inv, Typed, WorldOK, Look, world
<1>2. CASE Fault /\ Fail("network")
  BY <1>2, FailKeeps, FaultIs DEF Look, Inv, Typed, Categories
<1>3. CASE /\ dest = object.data /\ MarkDelivered("skipped", dest, object.gen)
           /\ pc' = "clear" /\ UNCHANGED <<disk, ranges, try, meta, crcs, fetch, stop, spent>>
  <2>1. row' \in Rows /\ row'.state = "skipped"
    BY <1>3, DeliveredIs DEF Inv, Typed, WorldOK, DiskOK, RowsOK, Delivered
  <2>2. Typed'
    BY <1>1, <1>3, <2>1 DEF Inv, Typed, DiskOK, RowsOK, RunOK, disk, Places
  <2>3. RowsHaveBytes'
    BY <1>3, BytesStay DEF disk
  <2>4. Looked' /\ Calls' /\ Verdict'
    BY <1>3, <2>1 DEF Looked, Calls, Verdict, VerifiedIsThere
  <2> QED BY <2>2, <2>3, <2>4 DEF Inv
<1>4. CASE /\ dest # object.data /\ meta' = object /\ pc' = "part"
           /\ UNCHANGED <<disk, rows, try, crcs, fetch, stop, spent>>
  <2>1. Typed'
    BY <1>1, <1>4 DEF Inv, Typed, WorldOK, DiskOK, RowsOK, RunOK, disk, rows, Places
  <2>2. RowsHaveBytes'
    BY <1>4, BytesStay DEF disk, rows
  <2>3. Looked'
    BY <1>4 DEF Inv, Typed, WorldOK, Looked, Look, rows, world
  <2>4. Calls' /\ Verdict'
    BY <1>4 DEF Calls, Verdict, VerifiedIsThere
  <2> QED BY <2>1, <2>2, <2>3, <2>4 DEF Inv
<1> QED BY <1>2, <1>3, <1>4 DEF Look

\* Every range that is missing is fetched, and no other.
LEMMA ToFetchIs ==
  ASSUME NEW known \in Crcs
  PROVE  /\ ToFetch(known) \in [Units -> CallPlaces]
         /\ \A u \in Units : ToFetch(known)[u] \in {"none", "queued"}
         /\ \A u \in Units : ToFetch(known)[u] = "queued" => u < Len(meta.data) /\ known[u] = NoCrc
BY DEF ToFetch, Planned, CallPlaces

LEMMA KeepsMakePart == Inv /\ MakePart => Inv'
<1> SUFFICES ASSUME Inv, MakePart PROVE Inv'
  OBVIOUS
<1>1. WorldOK' /\ RowsOK' /\ pc = "part" /\ crcs = ranges /\ meta.data \in seen
  BY DEF Inv, Typed, WorldOK, RowsOK, MakePart, Looked, world, rows
<1>2. CASE Stale
  <2>1. part' = <<>> /\ crcs' = Blank /\ pc' = "size" /\ UNCHANGED <<fetch, dest, try, meta, seen, ranges>>
    BY <1>2 DEF MakePart, world, rows
  <2>2. spent' \in Spent /\ (~spent'.anew => ranges = Blank)
    BY <1>2 DEF Inv, Typed, Spent, MakePart
  <2>3. Typed'
    BY <1>1, <2>1, <2>2, BlankIs, EmptyIs DEF Inv, Typed, DiskOK, RunOK, Files, Places
  <2>4. RowsHaveBytes' /\ Looked'
    BY <1>1, <2>1, <2>2, BlankIs, EmptyIs DEF RowsHaveBytes, Looked
  <2>5. Calls' /\ Verdict'
    BY <2>1 DEF Calls, Verdict, VerifiedIsThere
  <2> QED BY <2>3, <2>4, <2>5 DEF Inv
<1>3. CASE ~Stale
  <2>1. /\ fetch' = ToFetch(crcs) /\ pc' = "fetch"
        /\ UNCHANGED <<part, dest, rows, try, meta, crcs, spent, seen>>
    BY <1>3 DEF MakePart, world
  <2>2. Typed'
    BY <1>1, <2>1, ToFetchIs DEF Inv, Typed, DiskOK, RunOK, Places
  <2>3. Looked'
    BY <1>1, <1>3, <2>1 DEF Looked, Stale, rows
  <2>4. Calls'
    BY <2>1, ToFetchIs DEF Inv, Typed, RunOK, Calls
  <2>5. RowsHaveBytes' /\ Verdict'
    BY <2>1, BytesStay DEF Verdict, VerifiedIsThere, rows
  <2> QED BY <2>2, <2>3, <2>4, <2>5 DEF Inv
<1> QED BY <1>2, <1>3

LEMMA KeepsSizePart == Inv /\ SizePart => Inv'
<1> SUFFICES ASSUME Inv, SizePart PROVE Inv'
  OBVIOUS
<1> DEFINE sized == [i \in DOMAIN meta.data |-> Zeros]
<1>1. sized \in Parts /\ Len(sized) = Len(meta.data)
  BY SizedIs DEF Inv, Typed, RunOK
<1>2. sized # NoFile
  BY <1>1, ContentsAreParts
<1>3. /\ part' = sized /\ fetch' = ToFetch(crcs) /\ pc' = "fetch"
      /\ UNCHANGED <<world, dest, rows, try, meta, crcs, spent>>
  BY DEF SizePart
<1> HIDE DEF sized
<1>4. crcs = Blank /\ meta.data \in seen /\ (~spent.anew => ranges = Blank)
  BY DEF Inv, Looked, SizePart
<1>5. Typed'
  BY <1>1, <1>3, ToFetchIs DEF Inv, Typed, WorldOK, DiskOK, RowsOK, RunOK, Files, Places, world, rows
<1>6. RowsHaveBytes'
  BY <1>3, <1>4, BlankIs DEF RowsHaveBytes, rows
<1>7. Looked'
  BY <1>1, <1>2, <1>3, <1>4 DEF Looked, world, rows
<1>8. Calls'
  BY <1>3, ToFetchIs DEF Inv, Typed, RunOK, Calls
<1>9. Verdict'
  BY <1>3 DEF Verdict, VerifiedIsThere
<1> QED BY <1>5, <1>6, <1>7, <1>8, <1>9 DEF Inv

---------------------------------------------------------------------------
(* The calls of _fetch_range *)

LEMMA FetchStays ==
  ASSUME Inv, FetchStep, spent' \in Spent, spent'.anew = spent.anew
  PROVE  /\ WorldOK' /\ row' \in Rows /\ pc = "fetch" /\ pc' = "fetch"
         /\ part \in Parts /\ dest' \in Files /\ Len(part) = Len(meta.data) /\ Verdict'
         /\ (~spent.anew => crcs = ranges)
<1>1. part \in Parts
  BY DEF Inv, Typed, DiskOK, Looked, FetchStep, Files
<1>2. Verdict'
  BY DEF FetchStep, Verdict, VerifiedIsThere
<1> QED BY <1>1, <1>2 DEF Inv, Typed, WorldOK, DiskOK, RowsOK, Looked, FetchStep, world

\* A call moves on, and no byte and no row with it.
LEMMA CallMoves ==
  ASSUME Inv, FetchStep, spent' \in Spent, spent'.anew = spent.anew, UNCHANGED <<part, ranges, crcs>>,
         NEW u \in Units, NEW at \in CallPlaces, Becomes(u, at),
         at \in {"open"} \cup Failed, fetch[u] \in {"queued", "open", "writing"}
  PROVE  Inv'
<1>1. fetch' \in [Units -> CallPlaces] /\ fetch'[u] = at /\ \A w \in Units \ {u} : fetch'[w] = fetch[w]
  BY DEF Inv, Typed, RunOK, Becomes
<1>2. Typed' /\ Looked'
  BY <1>1, FetchStays DEF Inv, Typed, WorldOK, DiskOK, RowsOK, RunOK, Looked, FetchStep, world
<1>3. Calls'
  BY <1>1 DEF Inv, Calls, FetchStep, Failed
<1> QED BY <1>2, <1>3, FetchStays, BytesStay DEF Inv

\* A call writes bytes of its own range.
LEMMA CallWrites ==
  ASSUME Inv, FetchStep, UNCHANGED <<ranges, crcs, spent>>, NEW u \in Units, NEW v \in Bytes,
         NEW at \in {"writing", "received"}, Becomes(u, at), fetch[u] \in {"open", "writing"},
         part' = Put(part, u, v), at = "received" => v = Data(meta.data, u)
  PROVE  Inv'
<1>1. fetch' \in [Units -> CallPlaces] /\ fetch'[u] = at /\ \A w \in Units \ {u} : fetch'[w] = fetch[w]
  BY DEF Inv, Typed, RunOK, Becomes, CallPlaces
<1>2. spent' \in Spent /\ spent'.anew = spent.anew
  BY DEF Inv, Typed
<1>3. u < Len(meta.data) /\ crcs[u] = NoCrc
  BY DEF Inv, Calls, FetchStep
<1>4. /\ part' \in Parts /\ Len(part') = Len(part) /\ Data(part', u) = v
      /\ \A w \in Units : w # u /\ w < Len(part) => Data(part', w) = Data(part, w)
  BY <1>2, <1>3, FetchStays, PutIs
<1>5. Typed'
  BY <1>1, <1>2, <1>4, FetchStays DEF Inv, Typed, WorldOK, DiskOK, RowsOK, RunOK, Files, FetchStep
<1>6. Looked'
  BY <1>2, <1>4, FetchStays, ContentsAreParts DEF Inv, Looked, FetchStep, world
<1>7. Calls'
  <2> SUFFICES ASSUME NEW w \in Units, fetch'[w] \in {"queued", "open", "writing", "received"}
               PROVE  /\ w < Len(meta.data) /\ crcs[w] = NoCrc
                      /\ fetch'[w] = "received" => Data(part', w) = Data(meta.data, w)
    BY DEF Calls, FetchStep
  <2>1. CASE w = u
    BY <1>1, <1>3, <1>4, <2>1
  <2>2. CASE w # u
    BY <1>1, <1>2, <1>4, <2>2, FetchStays DEF Inv, Calls, FetchStep
  <2> QED BY <2>1, <2>2
<1>8. RowsHaveBytes'
  <2> SUFFICES ASSUME ~spent.anew, NEW w \in Units, ranges[w] # NoCrc
               PROVE  w < Len(part') /\ Data(part', w) = ranges[w]
    BY DEF RowsHaveBytes
  <2>1. w # u
    BY <1>2, <1>3, FetchStays
  <2>2. w < Len(part) /\ Data(part, w) = ranges[w]
    BY <1>2, FetchStays, ContentsAreParts DEF Inv, RowsHaveBytes
  <2> QED BY <1>4, <2>1, <2>2
<1> QED BY <1>2, <1>5, <1>6, <1>7, <1>8, FetchStays DEF Inv

LEMMA KeepsOpen == ASSUME NEW u \in Units PROVE Inv /\ Open(u) => Inv'
<1> SUFFICES ASSUME Inv, Open(u) PROVE Inv'
  OBVIOUS
<1>1. spent' \in Spent /\ spent'.anew = spent.anew
  BY FaultIs DEF Inv, Typed, Open
<1>2. PICK at \in {"open", "not found", "network"} : Becomes(u, at)
  BY DEF Open
<1> QED BY <1>1, <1>2, CallMoves DEF Open, CallPlaces, Failed

LEMMA KeepsCutOff == ASSUME NEW u \in Units PROVE Inv /\ CutOff(u) => Inv'
<1> SUFFICES ASSUME Inv, CutOff(u) PROVE Inv'
  OBVIOUS
<1>1. spent' \in Spent /\ spent'.anew = spent.anew
  BY FaultIs DEF Inv, Typed, CutOff
<1>2. PICK at \in {"stopped", "network"} : Becomes(u, at)
  BY DEF CutOff
<1> QED BY <1>1, <1>2, CallMoves DEF CutOff, CallPlaces, Failed

LEMMA KeepsWrite == ASSUME NEW u \in Units PROVE Inv /\ Write(u) => Inv'
BY CallWrites DEF Write, Bytes

LEMMA KeepsReceive == ASSUME NEW u \in Units PROVE Inv /\ Receive(u) => Inv'
<1> SUFFICES ASSUME Inv, Receive(u) PROVE Inv'
  OBVIOUS
<1>1. u < Len(meta.data) /\ meta.data \in Contents
  BY DEF Inv, Typed, RunOK, Calls, Receive, FetchStep
<1>2. Data(meta.data, u) \in Bytes
  BY <1>1, DataIs
<1> QED BY <1>2, CallWrites DEF Receive

LEMMA KeepsRecordRange == ASSUME NEW u \in Units PROVE Inv /\ RecordRange(u) => Inv'
<1> SUFFICES ASSUME Inv, RecordRange(u) PROVE Inv'
  OBVIOUS
<1>1. /\ FetchStep /\ fetch[u] = "received" /\ UNCHANGED <<part, spent>>
      /\ spent' \in Spent /\ spent'.anew = spent.anew
  BY DEF RecordRange, Inv, Typed
<1>2. u < Len(meta.data) /\ Data(part, u) = Data(meta.data, u) /\ meta.data \in Contents
  BY <1>1 DEF Inv, Typed, RunOK, Calls, FetchStep
<1>3. CASE ~Known(u)
  <2>1. UNCHANGED <<ranges, crcs>> /\ Becomes(u, "unknown")
    BY <1>3 DEF RecordRange
  <2>2. fetch' \in [Units -> CallPlaces] /\ fetch'[u] = "unknown" /\ \A w \in Units \ {u} : fetch'[w] = fetch[w]
    BY <2>1 DEF Inv, Typed, RunOK, Becomes, CallPlaces, Failed
  <2>3. Typed' /\ Looked'
    BY <1>1, <2>1, <2>2, FetchStays DEF Inv, Typed, WorldOK, DiskOK, RowsOK, RunOK, Looked, FetchStep, world
  <2>4. Calls'
    BY <1>1, <2>1, <2>2 DEF Inv, Calls, FetchStep
  <2> QED BY <1>1, <2>1, <2>3, <2>4, FetchStays, BytesStay DEF Inv
<1>4. CASE Known(u)
  <2> DEFINE d == Data(meta.data, u)
  <2>1. /\ ranges' = [ranges EXCEPT ![u] = d] /\ crcs' = [crcs EXCEPT ![u] = d] /\ Becomes(u, "done")
    BY <1>4 DEF RecordRange
  <2>2. d \in Values /\ d # NoCrc
    BY <1>2, DataIs
  <2> HIDE DEF d
  <2>3. /\ fetch' \in [Units -> CallPlaces] /\ fetch'[u] = "done"
        /\ \A w \in Units \ {u} : fetch'[w] = fetch[w]
    BY <2>1 DEF Inv, Typed, RunOK, Becomes, CallPlaces
  <2>4. /\ ranges' \in Crcs /\ ranges'[u] = d /\ \A w \in Units \ {u} : ranges'[w] = ranges[w]
        /\ crcs' \in Crcs /\ crcs'[u] = d /\ \A w \in Units \ {u} : crcs'[w] = crcs[w]
        /\ crcs = ranges => crcs' = ranges'
    BY <2>1, <2>2 DEF Inv, Typed, RowsOK, RunOK, Crcs
  <2>5. Typed' /\ Looked'
    BY <1>1, <2>3, <2>4, FetchStays DEF Inv, Typed, WorldOK, DiskOK, RowsOK, RunOK, Looked, FetchStep, world
  <2>6. Calls'
    BY <1>1, <2>3, <2>4 DEF Inv, Calls, FetchStep
  <2>7. RowsHaveBytes'
    <3>1. Data(part, u) = d /\ u < Len(part)
      BY <1>1, <1>2, FetchStays DEF d
    <3> QED BY <1>1, <2>4, <3>1 DEF Inv, RowsHaveBytes
  <2> QED BY <1>1, <2>5, <2>6, <2>7, FetchStays DEF Inv
<1> QED BY <1>3, <1>4

---------------------------------------------------------------------------
(* The end of an attempt, and what happens around it *)

LEMMA KeepsJoin == Inv /\ Join => Inv'
<1> SUFFICES ASSUME Inv, Join PROVE Inv'
  OBVIOUS
<1> DEFINE bad == {u \in Units : fetch[u] \in Failed}
           first == CHOOSE u \in bad : \A w \in bad : u <= w
<1>1. spent' \in Spent /\ spent'.anew = spent.anew /\ UNCHANGED world /\ WorldOK' /\ pc = "fetch"
  BY DEF Inv, Typed, WorldOK, Join, world
<1>2. CASE bad # {} /\ fetch[first] = "stopped"
  <2>1. Leave("idle") /\ UNCHANGED <<disk, rows>>
    BY <1>2 DEF Join
  <2>2. DiskOK' /\ RowsOK' /\ RowsHaveBytes'
    BY <1>1, <2>1, BytesStay DEF Inv, Typed, DiskOK, RowsOK, disk, rows
  <2> QED BY <1>1, <2>1, <2>2, LeaveKeeps
<1>3. CASE bad # {} /\ fetch[first] # "stopped"
  <2>1. Fail(fetch[first])
    BY <1>3 DEF Join
  <2>2. fetch[first] \in Categories
    <3>1. PICK u \in bad : \A w \in bad : u <= w
      BY <1>3, FirstIs
    <3>2. first \in bad
      BY <3>1
    <3> QED BY <1>3, <3>2 DEF Failed, Categories
  <2> QED BY <1>1, <2>1, <2>2, FailKeeps
<1>4. CASE bad = {} /\ ~Matches
  <2>1. Fail("mismatch")
    BY <1>4 DEF Join
  <2> QED BY <1>1, <2>1, FailKeeps DEF Categories
<1>5. CASE bad = {} /\ Matches
  <2>1. pc' = "rename" /\ UNCHANGED <<disk, rows, try, meta, crcs, fetch, stop>>
    BY <1>5 DEF Join
  <2>2. Typed' /\ Looked'
    BY <1>1, <2>1 DEF Inv, Typed, DiskOK, RowsOK, RunOK, Looked, disk, rows, world, Places
  <2>3. RowsHaveBytes'
    BY <1>1, <2>1, BytesStay DEF disk, rows
  <2>4. Calls' /\ Verdict'
    BY <1>5, <2>1 DEF Calls, Verdict, VerifiedIsThere, Matches, Assembled
  <2> QED BY <2>2, <2>3, <2>4 DEF Inv
<1> QED BY <1>2, <1>3, <1>4, <1>5

\* A part whose ranges' recorded checksums are those of the object is the object.
LEMMA PartIsWhole ==
  ASSUME Inv, pc = "rename", ~spent.anew
  PROVE  part = meta.data
<1>1. /\ part \in Parts /\ meta.data \in Contents /\ Len(part) = Len(meta.data) /\ part # NoFile
      /\ crcs = ranges /\ Assembled = meta.data
  BY DEF Inv, Typed, DiskOK, RunOK, Looked, Verdict, Files
<1>2. part \in Seq(Bytes) /\ meta.data \in Seq(Values) /\ Len(meta.data) <= MaxSize
  BY <1>1, PartsAre, ContentsAre
<1>3. ASSUME NEW i \in 1..Len(part) PROVE part[i] = meta.data[i]
  <2> DEFINE u == i - 1
  <2>1. u \in Units /\ u < Len(meta.data) /\ u + 1 = i
    BY <1>1, <1>2, <1>3, ConstantsAre
  <2>2. Assembled[i] = crcs[u]
    BY <1>1, <1>2, <1>3 DEF Assembled
  <2> HIDE DEF u
  <2>3. Data(meta.data, u) = meta.data[i] /\ Data(part, u) = part[i]
    BY <2>1 DEF Data
  <2>4. ranges[u] = meta.data[i] /\ ranges[u] # NoCrc
    BY <1>1, <2>1, <2>2, <2>3, DataIs
  <2>5. Data(part, u) = ranges[u]
    BY <1>1, <2>1, <2>4 DEF Inv, RowsHaveBytes
  <2> QED BY <2>3, <2>4, <2>5
<1> QED BY <1>1, <1>2, <1>3

LEMMA KeepsRename == Inv /\ Rename => Inv'
<1> SUFFICES ASSUME Inv, Rename PROVE Inv'
  OBVIOUS
<1>1. CASE Fault /\ Fail("denied")
  BY <1>1, FailKeeps, FaultIs DEF Rename, Inv, Typed, Categories
<1>2. CASE /\ dest' = part /\ part' = NoFile /\ pc' = "record"
           /\ UNCHANGED <<rows, try, meta, crcs, fetch, stop, spent>>
  <2>1. Typed'
    BY <1>2 DEF Inv, Typed, WorldOK, DiskOK, RowsOK, RunOK, Files, Rename, world, rows, Places
  <2>2. Looked' /\ RowsHaveBytes' /\ Calls'
    BY <1>2 DEF Inv, Looked, RowsHaveBytes, Calls, Rename, world
  <2>3. Verdict'
    BY <1>2, PartIsWhole DEF Inv, Verdict, VerifiedIsThere, Assembled, Rename
  <2> QED BY <2>1, <2>2, <2>3 DEF Inv
<1> QED BY <1>1, <1>2 DEF Rename

LEMMA KeepsRecord == Inv /\ Record => Inv'
<1> SUFFICES ASSUME Inv, Record PROVE Inv'
  OBVIOUS
<1>1. Assembled = meta.data /\ Assembled \in Files /\ meta.gen \in Nat
  BY ContentsAreParts DEF Inv, Typed, RunOK, Verdict, Record, Files
<1>2. row' \in Rows /\ row'.state = "verified" /\ row'.crc = Assembled
  BY <1>1, DeliveredIs DEF Record, Inv, Typed, RowsOK, Delivered
<1>3. Typed'
  BY <1>2 DEF Inv, Typed, WorldOK, DiskOK, RowsOK, RunOK, Record, world, disk, Places
<1>4. RowsHaveBytes'
  BY BytesStay DEF Record, disk
<1>5. Looked' /\ Calls' /\ Verdict'
  BY <1>1, <1>2 DEF Inv, Looked, Calls, Verdict, VerifiedIsThere, Record, disk
<1> QED BY <1>3, <1>4, <1>5 DEF Inv

LEMMA KeepsClear == Inv /\ Clear => Inv'
<1> SUFFICES ASSUME Inv, Clear PROVE Inv'
  OBVIOUS
<1>1. WorldOK' /\ DiskOK' /\ RowsOK' /\ spent' \in Spent
  BY BlankIs DEF Inv, Typed, WorldOK, DiskOK, RowsOK, Clear, Forgotten, Spent, world, disk
<1>2. RowsHaveBytes'
  BY BlankIs DEF Clear, RowsHaveBytes
<1> QED BY <1>1, <1>2, LeaveKeeps DEF Clear

LEMMA KeepsAudit == Inv /\ Audit => Inv'
<1> SUFFICES ASSUME Inv, Audit PROVE Inv'
  OBVIOUS
<1>1. row' \in Rows
  BY FailedIs DEF Inv, Typed, RowsOK, Audit, Categories
<1>2. Typed'
  BY <1>1 DEF Inv, Typed, WorldOK, DiskOK, RowsOK, RunOK, Audit, world, disk, Places
<1> QED BY <1>2, AtRest, BytesStay DEF Audit, disk

LEMMA KeepsReplaced == Inv /\ Replaced => Inv'
<1> SUFFICES ASSUME Inv, Replaced PROVE Inv'
  OBVIOUS
<1>1. spent' \in Spent /\ spent'.anew = spent.anew
  BY DEF Inv, Typed, Spent, Replaced
<1>2. WorldOK' /\ seen \subseteq seen'
  BY DEF Inv, Typed, WorldOK, Replaced
<1>3. UNCHANGED <<part, dest, row, ranges, pc, try, meta, crcs, fetch, stop>>
  BY DEF Replaced, disk, rows, run
<1>4. Typed'
  BY <1>1, <1>2, <1>3 DEF Inv, Typed, DiskOK, RowsOK, RunOK
<1>5. Looked' /\ Calls' /\ Verdict'
  BY <1>1, <1>2, <1>3 DEF Inv, Looked, Calls, Verdict, VerifiedIsThere, Assembled
<1> QED BY <1>1, <1>3, <1>4, <1>5, BytesStay DEF Inv

LEMMA KeepsRemoved == Inv /\ Removed => Inv'
<1> SUFFICES ASSUME Inv, Removed PROVE Inv'
  OBVIOUS
<1>1. spent' \in Spent /\ spent'.anew = spent.anew
  BY DEF Inv, Typed, Spent, Removed
<1>2. /\ pc = "idle" /\ part' \in {part, NoFile} /\ dest' \in {dest, NoFile}
      /\ UNCHANGED <<world, rows, run>>
  BY DEF Removed
<1>3. Typed'
  BY <1>1, <1>2 DEF Inv, Typed, WorldOK, DiskOK, RowsOK, RunOK, Files, world, rows, run
<1>4. RowsHaveBytes'
  BY <1>1, <1>2 DEF Inv, RowsHaveBytes, rows
<1> QED BY <1>2, <1>3, <1>4, AtRest DEF run

LEMMA KeepsCrash == Inv /\ Crash => Inv'
<1> SUFFICES ASSUME Inv, Crash PROVE Inv'
  OBVIOUS
<1>1. spent' \in Spent /\ spent'.anew = spent.anew
  BY DEF Inv, Typed, Spent, Crash
<1>2. WorldOK' /\ DiskOK' /\ RowsOK' /\ RowsHaveBytes'
  BY <1>1, BytesStay DEF Inv, Typed, WorldOK, DiskOK, RowsOK, Crash, world, disk, rows
<1> QED BY <1>1, <1>2, LeaveKeeps DEF Crash

\* A stop is only asked for, or nothing happens at all.
LEMMA KeepsAll ==
  Inv /\ UNCHANGED <<world, disk, rows, pc, try, meta, crcs, fetch>>
      /\ spent' \in Spent /\ spent'.anew = spent.anew => Inv'
<1> SUFFICES ASSUME Inv, UNCHANGED <<world, disk, rows, pc, try, meta, crcs, fetch>>,
                    spent' \in Spent, spent'.anew = spent.anew
             PROVE  Inv'
  OBVIOUS
<1>1. Typed'
  BY DEF Inv, Typed, WorldOK, DiskOK, RowsOK, RunOK, world, disk, rows
<1>2. Looked' /\ Calls' /\ Verdict' /\ RowsHaveBytes'
  BY BytesStay DEF Inv, Looked, Calls, Verdict, VerifiedIsThere, Assembled, world, disk, rows
<1> QED BY <1>1, <1>2 DEF Inv

LEMMA KeepsRequestStop == Inv /\ RequestStop => Inv'
<1>1. Inv /\ RequestStop => spent' \in Spent /\ spent'.anew = spent.anew
  BY DEF Inv, Typed, Spent, RequestStop
<1> QED BY <1>1, KeepsAll DEF RequestStop

LEMMA StepsKeep == Inv /\ [Next]_vars => Inv'
<1> SUFFICES ASSUME Inv, [Next]_vars PROVE Inv'
  OBVIOUS
<1>1. CASE UNCHANGED vars
  BY <1>1, KeepsAll DEF vars, run, Inv, Typed
<1>2. CASE MainStep
  BY <1>2, KeepsAttempt, KeepsCaught, KeepsLook, KeepsMakePart, KeepsSizePart, KeepsJoin, KeepsRename,
     KeepsRecord, KeepsClear, KeepsAudit DEF MainStep
<1>3. ASSUME NEW u \in Units, Fetching(u) PROVE Inv'
  BY <1>3, KeepsOpen, KeepsWrite, KeepsCutOff, KeepsReceive, KeepsRecordRange DEF Fetching
<1>4. CASE Around
  BY <1>4, KeepsReplaced, KeepsRemoved, KeepsCrash, KeepsRequestStop DEF Around
<1> QED BY <1>1, <1>2, <1>3, <1>4, KeepsBegin DEF Next

LEMMA InvHolds == Spec => []Inv
BY InitIsRight, StepsKeep, PTL DEF Spec

---------------------------------------------------------------------------
(* Theorems *)

\* Every variable has its type, and the part the size of the object that is fetched.
THEOREM TypeCorrect == Spec => []TypeOK
<1>1. Inv => TypeOK
  <2> SUFFICES ASSUME Inv PROVE TypeOK
    OBVIOUS
  <2>1. part # NoFile => part \in BoundedSeq(Values \cup {Zeros, Torn}, MaxSize)
    BY DEF Inv, Typed, DiskOK, Files, Parts, Bytes
  <2> QED BY <2>1 DEF TypeOK, Inv, Typed, WorldOK, RowsOK, RunOK, Looked, Rows, Crcs, Categories, Places, CallPlaces
<1> QED BY <1>1, InvHolds, PTL

\* What a download renames into place and calls verified is one content of the object,
\* as a whole, and every range that is recorded has its bytes in the part: over any
\* number of crashes, failed requests, replaced objects and removed files, as long as no
\* part was begun anew beside recorded ranges (gcs/downloader.py:90-192).
THEOREM BytesAreRight == Spec => BytesAreTheObjects
<1> DEFINE A == dest' # dest /\ dest' # NoFile => dest' \in seen \/ spent.anew
<1>1. Inv => RowsHaveBytes /\ VerifiedIsThere
  BY DEF Inv, Verdict
<1>2. Inv /\ [Next]_vars => [A]_vars
  <2> SUFFICES ASSUME Inv, Next, dest' # dest, dest' # NoFile, ~spent.anew PROVE dest' \in seen
    BY DEF vars, disk
  <2>1. pc = "rename" /\ dest' = part
    <3>1. CASE Begin
      BY <3>1 DEF Begin, disk
    <3>2. CASE MainStep
      BY <3>2 DEF MainStep, Attempt, Caught, Look, MakePart, SizePart, Join, Rename, Record, Clear, Audit,
                  Fail, disk
    <3>3. ASSUME NEW u \in Units, Fetching(u) PROVE dest' = dest
      BY <3>3 DEF Fetching, Open, Write, CutOff, Receive, RecordRange, FetchStep
    <3>4. CASE Around
      BY <3>4 DEF Around, Replaced, Removed, Crash, RequestStop, disk
    <3> QED BY <3>1, <3>2, <3>3, <3>4 DEF Next
  <2> QED BY <2>1, PartIsWhole DEF Inv, Looked
<1>3. Spec => []Inv /\ [][Next]_vars
  BY InvHolds, PTL DEF Spec
<1> QED BY <1>1, <1>2, <1>3, PTL DEF BytesAreTheObjects, OneGeneration

\* A range that was finished is not fetched again, in the same or a later run, unless the
\* whole failed its verification or the part was begun anew (gcs/downloader.py:162-165).
THEOREM FinishedStays == Spec => FinishedIsKept
<1> DEFINE A == \A u \in Units :
                  fetch[u] # "queued" /\ fetch'[u] = "queued" => ranges[u] = NoCrc \/ spent.anew
<1>1. Inv /\ [Next]_vars => [A]_vars
  <2> SUFFICES ASSUME Inv, Next, NEW u \in Units, fetch[u] # "queued", fetch'[u] = "queued", ~spent.anew
               PROVE  ranges[u] = NoCrc
    BY DEF vars, run
  <2>1. CASE MakePart
    BY <2>1, ToFetchIs DEF MakePart, Inv, Typed, RunOK, Looked
  <2>2. CASE SizePart
    BY <2>2, ToFetchIs DEF SizePart, Inv, Typed, RunOK, Looked
  <2>3. CASE Begin \/ Around \/ Record \/ Rename \/ Audit
    BY <2>3 DEF Begin, Around, Replaced, Removed, Crash, RequestStop, Record, Rename, Audit, Fail, Leave,
                Forget, NoCalls, run
  <2>4. CASE Attempt \/ Caught \/ Look \/ Join \/ Clear
    BY <2>4 DEF Attempt, Caught, Look, Join, Clear, Fail, Leave, Forget, NoCalls
  <2>5. ASSUME NEW w \in Units, Fetching(w) PROVE FALSE
    <3>1. PICK at \in CallPlaces \ {"queued"} : Becomes(w, at)
      BY <2>5 DEF Fetching, Open, Write, CutOff, Receive, RecordRange, CallPlaces, Failed
    <3> QED BY <3>1 DEF Becomes, Inv, Typed, RunOK
  <2> QED BY <2>1, <2>2, <2>3, <2>4, <2>5 DEF Next, MainStep
<1>2. Spec => []Inv /\ [][Next]_vars
  BY InvHolds, PTL DEF Spec
<1> QED BY <1>1, <1>2, PTL DEF FinishedIsKept
=============================================================================
