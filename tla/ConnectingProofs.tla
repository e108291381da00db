------------------------- MODULE ConnectingProofs -------------------------
(***************************************************************************)
(* Theorems about Connecting: what the parts that make, probe, use and     *)
(* configure connections keep, for any number of dialogs, requests, rows,  *)
(* openers and failures. Each part has an inductive invariant of its own,  *)
(* and the last section puts them together.                                *)
(***************************************************************************)
EXTENDS Connecting, ProfilesProofs, SequenceTheorems

---------------------------------------------------------------------------
(* The probe of a credential *)

ProbeNames == {"a", "b", "composed"}
ProbeTyped ==
  /\ may \subseteq Probed!Capabilities /\ can \subseteq may /\ faults \in 0..MaxProbeFaults
  /\ at \in {"list", "a", "b", "read", "composed", "delete", "done"}
  /\ cleaned \in [n : Nat, failed : BOOLEAN]
  /\ objects \subseteq ProbeNames /\ written \in Seq(ProbeNames)

\* How far the probe is says how many objects it knows of, and what it found out.
ProbeShape ==
  /\ Len(written) <= 3 /\ cleaned.n <= Len(written)
  /\ at \in {"list", "a"} => Len(written) = 0 /\ objects = {}
  /\ at = "b" => Len(written) = 1
  /\ at = "read" => Len(written) <= 2
  /\ at = "composed" => Len(written) = 2
  /\ at \notin {"delete", "done"} => cleaned.n = 0 /\ ~cleaned.failed /\ "composed" \notin objects
  /\ at = "done" => cleaned.n = Len(written)
  /\ ("write" \in can <=> Len(written) >= 2)
  /\ ("compose" \in can <=> Len(written) = 3)
  /\ "delete" \in can => at = "done" /\ ~cleaned.failed
  /\ cleaned.failed => "delete" \notin may \/ faults > 0
  /\ cleaned.n > 0 /\ ~cleaned.failed => "delete" \in may

\* An object is one that is still to be deleted, or one whose deletion failed, or one
\* of which the answer never came.
ToDelete(o) == \E i \in 1..Len(written) : i > cleaned.n /\ written[i] = o
Unknown(o) ==
  /\ faults > 0 /\ at \notin {"list", "a", "b"}
  /\ IF o = "composed" THEN "compose" \notin can /\ at # "composed" ELSE "write" \notin can
Accounted == \A o \in objects : ToDelete(o) \/ cleaned.failed \/ Unknown(o)

ProbeInv == ProbeTyped /\ ProbeShape /\ Accounted

\* What a request does to the objects and the faults, whatever becomes of it.
LEMMA FailsIs ==
  ASSUME NEW capability, NEW ACTION done, Probed!Fails(capability, done), faults \in 0..MaxProbeFaults
  PROVE  /\ faults' \in 0..MaxProbeFaults /\ faults <= faults' /\ (objects' = objects \/ (faults' > 0 /\ done))
         /\ (capability \notin may \/ faults' > 0)
<1>1. MaxProbeFaults \in Nat
  BY ConnectingAssumption
<1> QED BY <1>1 DEF Probed!Fails

LEMMA SucceedsIs ==
  ASSUME NEW capability, NEW ACTION done, Probed!Succeeds(capability, done), faults \in 0..MaxProbeFaults
  PROVE  /\ faults' \in 0..MaxProbeFaults /\ faults <= faults' /\ capability \in may /\ done
BY DEF Probed!Succeeds

LEMMA ProbeListing == ASSUME ProbeInv, Probed!ListProbe PROVE ProbeInv'
<1>1. /\ at = "list" /\ at' = "a" /\ UNCHANGED <<may, written, cleaned, objects>>
      /\ faults' \in 0..MaxProbeFaults /\ faults <= faults'
      /\ can' \subseteq can \cup {"list"} /\ can \subseteq can' /\ can' \subseteq may
  BY FailsIs, SucceedsIs DEF Probed!ListProbe, ProbeInv, ProbeTyped
<1>2. ProbeTyped'
  BY <1>1 DEF ProbeInv, ProbeTyped
<1>3. ProbeShape'
  BY <1>1 DEF ProbeInv, ProbeTyped, ProbeShape
<1>4. Accounted'
  BY <1>1 DEF ProbeInv, ProbeShape, Accounted
<1> QED BY <1>2, <1>3, <1>4 DEF ProbeInv

\* One more object that the probe knows of.
LEMMA OneMore ==
  ASSUME ProbeTyped, NEW name \in ProbeNames, NEW more, more = Append(written, name)
  PROVE  /\ more \in Seq(ProbeNames) /\ Len(written) \in Nat /\ Len(more) = Len(written) + 1
         /\ \A i \in 1..Len(written) : i \in 1..Len(more) /\ more[i] = written[i]
         /\ Len(more) \in 1..Len(more) /\ more[Len(more)] = name
<1> HIDE DEF ProbeNames
<1> QED BY DEF ProbeTyped

\* What was to be deleted still is, and what was just written too.
LEMMA OneMoreToDelete ==
  ASSUME ProbeTyped, ProbeShape, NEW name \in ProbeNames, written' = Append(written, name), UNCHANGED cleaned
  PROVE  \A o : ToDelete(o) \/ o = name => ToDelete(o)'
<1>1. PICK more : more = Append(written, name)
  OBVIOUS
<1>2. /\ Len(written) \in Nat /\ Len(more) = Len(written) + 1
      /\ \A i \in 1..Len(written) : i \in 1..Len(more) /\ more[i] = written[i]
      /\ Len(more) \in 1..Len(more) /\ more[Len(more)] = name
  BY <1>1, OneMore
<1>3. cleaned.n \in Nat /\ cleaned.n <= Len(written) /\ written' = more /\ cleaned' = cleaned
  BY <1>1 DEF ProbeTyped, ProbeShape
<1>4. Len(more) > cleaned.n
  BY <1>2, <1>3
<1> QED BY <1>2, <1>3, <1>4 DEF ToDelete

LEMMA ProbeWrites == ASSUME ProbeInv, NEW name \in {"a", "b"}, Probed!WriteProbe(name) PROVE ProbeInv'
<1>1. at = name /\ UNCHANGED <<may, cleaned>> /\ name \in ProbeNames
  BY DEF Probed!WriteProbe, ProbeNames
<1>2. /\ Len(written) = (IF name = "a" THEN 0 ELSE 1) /\ cleaned.n = 0 /\ ~cleaned.failed
      /\ "write" \notin can /\ "compose" \notin can /\ "delete" \notin can /\ "composed" \notin objects
      /\ \A o \in objects : ToDelete(o)
  BY <1>1 DEF ProbeInv, ProbeShape, Accounted, Unknown
<1>3. CASE Probed!Fails("write", Probed!Stores(name)) /\ UNCHANGED <<written, can>> /\ at' = "read"
  <2>1. /\ faults' \in 0..MaxProbeFaults /\ faults <= faults'
        /\ (objects' = objects \/ (faults' > 0 /\ objects' = objects \cup {name}))
    BY <1>3, FailsIs DEF ProbeInv, ProbeTyped, Probed!Stores
  <2>2. ProbeTyped'
    BY <1>1, <1>3, <2>1 DEF ProbeInv, ProbeTyped
  <2>3. ProbeShape'
    <3>1. "composed" \notin objects'
      BY <1>2, <2>1
    <3>2. at' = "read" /\ written' = written /\ can' = can /\ cleaned' = cleaned
      BY <1>1, <1>3
    <3>3. PICK l \in {0, 1} : l = Len(written)
      BY <1>2
    <3>4. Len(written') = l /\ cleaned'.n = 0 /\ ~cleaned'.failed /\ "write" \notin can' /\ "compose" \notin can'
          /\ "delete" \notin can'
      BY <1>2, <3>2, <3>3
    <3> HIDE <1>3
    <3> QED BY <3>1, <3>2, <3>3, <3>4 DEF ProbeShape
  <2>4. \A o : ToDelete(o)' <=> ToDelete(o)
    BY <1>1, <1>3 DEF ToDelete
  <2>5. faults' > 0 => Unknown(name)'
    BY <1>1, <1>2, <1>3 DEF Unknown
  <2>6. Accounted'
    BY <1>2, <2>1, <2>4, <2>5 DEF Accounted
  <2> QED BY <2>2, <2>3, <2>6 DEF ProbeInv
<1>4. CASE /\ Probed!Succeeds("write", Probed!Stores(name)) /\ written' = Append(written, name)
           /\ at' = IF name = "a" THEN "b" ELSE "read"
           /\ can' = IF name = "a" THEN can ELSE can \cup {"write"}
  <2>1. faults' \in 0..MaxProbeFaults /\ faults <= faults' /\ "write" \in may /\ objects' = objects \cup {name}
    BY <1>4, SucceedsIs DEF ProbeInv, ProbeTyped, Probed!Stores
  <2>2. written' \in Seq(ProbeNames) /\ Len(written') = Len(written) + 1
    BY <1>1, <1>4, OneMore DEF ProbeInv
  <2>3. ProbeTyped'
    BY <1>1, <1>4, <2>1, <2>2 DEF ProbeInv, ProbeTyped
  <2>4. ProbeShape'
    BY <1>1, <1>2, <1>4, <2>1, <2>2 DEF ProbeShape, ProbeInv
  <2>5. \A o : ToDelete(o) \/ o = name => ToDelete(o)'
    BY <1>1, <1>4, OneMoreToDelete DEF ProbeInv
  <2>6. Accounted'
    BY <1>2, <2>1, <2>5 DEF Accounted
  <2> QED BY <2>3, <2>4, <2>6 DEF ProbeInv
<1> QED BY <1>3, <1>4 DEF Probed!WriteProbe, Probed!Recorded

LEMMA ProbeReads == ASSUME ProbeInv, Probed!ReadProbe PROVE ProbeInv'
<1>1. /\ at = "read" /\ at' = (IF Len(written) = 2 THEN "composed" ELSE "delete")
      /\ UNCHANGED <<may, written, cleaned>>
  BY DEF Probed!ReadProbe, Probed!Composable
<1>2. /\ faults' \in 0..MaxProbeFaults /\ faults <= faults' /\ objects' = objects
      /\ can' \subseteq can \cup {"read"} /\ can \subseteq can' /\ can' \subseteq may
  BY FailsIs, SucceedsIs DEF Probed!ReadProbe, ProbeInv, ProbeTyped
<1>3. ProbeTyped'
  BY <1>1, <1>2 DEF ProbeInv, ProbeTyped
<1>4. ProbeShape'
  BY <1>1, <1>2 DEF ProbeInv, ProbeTyped, ProbeShape
<1>5. Accounted'
  <2>1. \A o : ToDelete(o)' <=> ToDelete(o)
    BY <1>1 DEF ToDelete
  <2>2. "composed" \notin objects /\ ~cleaned.failed
    BY <1>1 DEF ProbeInv, ProbeShape
  <2>3. ASSUME NEW o \in objects, Unknown(o) PROVE Unknown(o)'
    <3>1. faults' > 0 /\ at' \notin {"list", "a", "b"}
      BY <1>1, <1>2, <2>3 DEF Unknown, ProbeInv, ProbeTyped
    <3>2. o # "composed" /\ "write" \notin can'
      BY <1>2, <2>2, <2>3 DEF Unknown
    <3> QED BY <3>1, <3>2 DEF Unknown
  <2> QED BY <1>2, <2>1, <2>2, <2>3 DEF ProbeInv, Accounted
<1> QED BY <1>3, <1>4, <1>5 DEF ProbeInv

LEMMA ProbeComposes == ASSUME ProbeInv, Probed!ComposeProbe PROVE ProbeInv'
<1>1. at = "composed" /\ at' = "delete" /\ UNCHANGED <<may, cleaned>> /\ "composed" \in ProbeNames
  BY DEF Probed!ComposeProbe, ProbeNames
<1>2. /\ Len(written) = 2 /\ cleaned.n = 0 /\ ~cleaned.failed
      /\ "write" \in can /\ "compose" \notin can /\ "delete" \notin can /\ "composed" \notin objects
      /\ \A o \in objects : ToDelete(o)
  BY <1>1 DEF ProbeInv, ProbeShape, Accounted, Unknown
<1>3. CASE Probed!Fails("compose", Probed!Stores("composed")) /\ UNCHANGED <<written, can>>
  <2>1. /\ faults' \in 0..MaxProbeFaults /\ faults <= faults'
        /\ (objects' = objects \/ (faults' > 0 /\ objects' = objects \cup {"composed"}))
    BY <1>3, FailsIs DEF ProbeInv, ProbeTyped, Probed!Stores
  <2>2. ProbeTyped'
    BY <1>1, <1>3, <2>1 DEF ProbeInv, ProbeTyped
  <2>3. ProbeShape'
    BY <1>1, <1>2, <1>3, <2>1 DEF ProbeShape, ProbeInv
  <2>4. \A o : ToDelete(o)' <=> ToDelete(o)
    BY <1>1, <1>3 DEF ToDelete
  <2>5. faults' > 0 => Unknown("composed")'
    BY <1>1, <1>2, <1>3 DEF Unknown
  <2>6. Accounted'
    BY <1>2, <2>1, <2>4, <2>5 DEF Accounted
  <2> QED BY <2>2, <2>3, <2>6 DEF ProbeInv
<1>4. CASE /\ Probed!Succeeds("compose", Probed!Stores("composed")) /\ written' = Append(written, "composed")
           /\ can' = can \cup {"compose"}
  <2>1. faults' \in 0..MaxProbeFaults /\ faults <= faults' /\ "compose" \in may /\ objects' = objects \cup {"composed"}
    BY <1>4, SucceedsIs DEF ProbeInv, ProbeTyped, Probed!Stores
  <2>2. written' \in Seq(ProbeNames) /\ Len(written') = Len(written) + 1
    BY <1>1, <1>4, OneMore DEF ProbeInv
  <2>3. ProbeTyped'
    BY <1>1, <1>4, <2>1, <2>2 DEF ProbeInv, ProbeTyped
  <2>4. ProbeShape'
    BY <1>1, <1>2, <1>4, <2>1, <2>2 DEF ProbeShape, ProbeInv
  <2>5. \A o : ToDelete(o) \/ o = "composed" => ToDelete(o)'
    BY <1>1, <1>4, OneMoreToDelete DEF ProbeInv
  <2>6. Accounted'
    BY <1>2, <2>1, <2>5 DEF Accounted
  <2> QED BY <2>3, <2>4, <2>6 DEF ProbeInv
<1> QED BY <1>3, <1>4 DEF Probed!ComposeProbe, Probed!Recorded

LEMMA ProbeDeletes == ASSUME ProbeInv, Probed!DeleteProbe PROVE ProbeInv'
<1>1. PICK fails \in BOOLEAN :
        /\ cleaned' = [n |-> cleaned.n + 1, failed |-> cleaned.failed \/ fails]
        /\ IF fails THEN Probed!Fails("delete", objects' = Probed!Deleted(written[cleaned.n + 1]))
           ELSE Probed!Succeeds("delete", objects' = Probed!Deleted(written[cleaned.n + 1]))
  BY DEF Probed!DeleteProbe
<1>2. PICK f \in BOOLEAN : (f <=> cleaned.failed \/ fails) /\ cleaned' = [n |-> cleaned.n + 1, failed |-> f]
  BY <1>1
<1>3. /\ cleaned'.n = cleaned.n + 1 /\ (cleaned'.failed <=> cleaned.failed \/ fails)
      /\ cleaned' \in [n : Nat, failed : BOOLEAN]
  BY <1>2 DEF ProbeInv, ProbeTyped
<1>4. /\ at = "delete" /\ cleaned.n < Len(written) /\ UNCHANGED <<may, written, can, at>>
  BY DEF Probed!DeleteProbe
<1>5. /\ faults' \in 0..MaxProbeFaults /\ faults <= faults'
      /\ (objects' = objects \/ objects' = objects \ {written[cleaned.n + 1]})
      /\ (fails => "delete" \notin may \/ faults' > 0)
      /\ (~fails => objects' = objects \ {written[cleaned.n + 1]} /\ "delete" \in may)
  <2>1. CASE fails
    BY <1>1, <2>1, FailsIs DEF ProbeInv, ProbeTyped, Probed!Deleted
  <2>2. CASE ~fails
    BY <1>1, <2>2, SucceedsIs DEF ProbeInv, ProbeTyped, Probed!Deleted
  <2> QED BY <2>1, <2>2
<1>6. ProbeTyped'
  BY <1>3, <1>4, <1>5 DEF ProbeInv, ProbeTyped
<1>7. /\ Len(written) \in Nat /\ cleaned.n \in Nat /\ faults \in Nat /\ faults' \in Nat
  BY <1>5 DEF ProbeInv, ProbeTyped
<1>8. ProbeShape'
  BY <1>3, <1>4, <1>5, <1>7 DEF ProbeInv, ProbeShape
<1>9. ASSUME NEW o \in objects' PROVE ToDelete(o)' \/ cleaned'.failed \/ Unknown(o)'
  <2>1. o \in objects
    BY <1>5
  <2>2. CASE ToDelete(o) /\ ~cleaned'.failed
    <3>1. PICK i \in 1..Len(written) : i > cleaned.n /\ written[i] = o
      BY <2>2 DEF ToDelete
    <3>2. o # written[cleaned.n + 1]
      BY <1>3, <1>5, <2>2
    <3>3. i > cleaned.n + 1
      BY <1>7, <3>1, <3>2
    <3> QED BY <1>3, <1>4, <3>1, <3>3 DEF ToDelete
  <2>3. CASE Unknown(o)
    BY <1>4, <1>5, <1>7, <2>3 DEF Unknown
  <2> QED BY <1>3, <2>1, <2>2, <2>3 DEF ProbeInv, Accounted
<1> QED BY <1>6, <1>8, <1>9 DEF ProbeInv, Accounted

LEMMA ProbeFinishes == ASSUME ProbeInv, Probed!Finish PROVE ProbeInv'
<1>1. /\ at = "delete" /\ cleaned.n = Len(written) /\ at' = "done"
      /\ UNCHANGED <<may, objects, written, cleaned, faults>>
      /\ can' = IF written # <<>> /\ ~cleaned.failed THEN can \cup {"delete"} ELSE can
  BY DEF Probed!Finish
<1>2. written # <<>> => cleaned.n > 0
  BY <1>1 DEF ProbeInv, ProbeTyped
<1>3. "delete" \notin can /\ (can' = can \/ (can' = can \cup {"delete"} /\ "delete" \in may /\ ~cleaned.failed))
  BY <1>1, <1>2 DEF ProbeInv, ProbeShape
<1>4. ProbeTyped'
  BY <1>1, <1>3 DEF ProbeInv, ProbeTyped
<1>5. ProbeShape'
  BY <1>1, <1>3 DEF ProbeInv, ProbeShape
<1>6. \A o : (ToDelete(o)' <=> ToDelete(o)) /\ (Unknown(o) => Unknown(o)')
  BY <1>1, <1>3 DEF ToDelete, Unknown
<1>7. Accounted'
  BY <1>1, <1>6 DEF ProbeInv, Accounted
<1> QED BY <1>4, <1>5, <1>7 DEF ProbeInv

LEMMA ProbeInvHolds == Probed!Spec => []ProbeInv
<1>1. Probed!Init => ProbeInv
  <2> SUFFICES ASSUME Probed!Init PROVE ProbeInv
    OBVIOUS
  <2>1. /\ may \subseteq Probed!Capabilities /\ objects = {} /\ written = <<>> /\ can = {} /\ at = "list"
        /\ cleaned = [n |-> 0, failed |-> FALSE] /\ faults = 0
    BY DEF Probed!Init
  <2>2. MaxProbeFaults \in Nat
    BY ConnectingAssumption
  <2>3. ProbeTyped
    BY <2>1, <2>2 DEF ProbeTyped
  <2> QED BY <2>1, <2>3 DEF ProbeInv, ProbeShape, Accounted
<1>2. ProbeInv /\ [Probed!Next]_Probed!vars => ProbeInv'
  <2> SUFFICES ASSUME ProbeInv, [Probed!Next]_Probed!vars PROVE ProbeInv'
    OBVIOUS
  <2>1. CASE UNCHANGED Probed!vars
    BY <2>1 DEF Probed!vars, ProbeInv, ProbeTyped, ProbeShape, Accounted, ToDelete, Unknown
  <2> QED BY <2>1, ProbeListing, ProbeWrites, ProbeReads, ProbeComposes, ProbeDeletes,
             ProbeFinishes DEF Probed!Next
<1> QED BY <1>1, <1>2, PTL DEF Probed!Spec

LEMMA ProbeLeavesNothing == ASSUME ProbeInv PROVE Probed!LeavesNothing /\ Probed!TypeOK
<1>1. Probed!LeavesNothing
  <2> SUFFICES ASSUME at = "done", {"write", "compose", "delete"} \subseteq can \/ ("delete" \in may /\ faults = 0),
                      NEW o \in objects
               PROVE  FALSE
    BY DEF Probed!LeavesNothing
  <2>1. ~ToDelete(o)
    BY DEF ProbeInv, ProbeTyped, ProbeShape, ToDelete
  <2>2. ~Unknown(o)
    BY DEF Unknown
  <2>3. ~cleaned.failed
    BY DEF ProbeInv, ProbeShape
  <2> QED BY <2>1, <2>2, <2>3 DEF ProbeInv, Accounted
<1>2. Probed!TypeOK
  BY DEF ProbeInv, ProbeTyped, ProbeShape, Probed!TypeOK
<1> QED BY <1>1, <1>2

---------------------------------------------------------------------------
(* The database as it is opened *)

TableNames == {"schema_version", "profiles", "jobs"}
ColumnNames == {"validated_at", "archived_at"}
Openings == [at : Opened!Places, read : 0..3, step : 1..4]

LEMMA SchemaIs ==
  /\ Opened!Latest = 3 /\ Len(Opened!Tables) = 3 /\ DOMAIN Opened!Tables = {1, 2, 3}
  /\ Opened!Tables[1] = "schema_version" /\ Opened!Tables[2] = "profiles" /\ Opened!Tables[3] = "jobs"
  /\ Opened!ColumnOf(2) = "validated_at" /\ Opened!ColumnOf(3) = "archived_at"
  /\ Opened!Columns = ColumnNames
  /\ Opened!TableOf("validated_at") = "profiles" /\ Opened!TableOf("archived_at") = "jobs"
<1>1. Opened!Latest = 3 /\ 2..Opened!Latest = {2, 3}
  BY DEF Opened!Latest
<1>2. Opened!ColumnOf(2) = "validated_at" /\ Opened!ColumnOf(3) = "archived_at"
  BY DEF Opened!ColumnOf
<1>3. Opened!Columns = ColumnNames
  BY <1>1, <1>2 DEF Opened!Columns, ColumnNames
<1>4. Opened!TableOf("validated_at") = "profiles" /\ Opened!TableOf("archived_at") = "jobs"
  BY DEF Opened!TableOf
<1>5. /\ Len(Opened!Tables) = 3 /\ DOMAIN Opened!Tables = {1, 2, 3}
      /\ Opened!Tables[1] = "schema_version" /\ Opened!Tables[2] = "profiles" /\ Opened!Tables[3] = "jobs"
  BY DEF Opened!Tables
<1> QED BY <1>1, <1>2, <1>3, <1>4, <1>5

\* What there is: a column only in its table, and every one that the version says.
Complete == \A c \in ColumnNames : Opened!TableOf(c) \in tables => c \in columns
Schema ==
  /\ tables \subseteq TableNames /\ columns \subseteq ColumnNames
  /\ \A c \in columns : Opened!TableOf(c) \in tables
  /\ versions \in Seq(1..3)
  /\ \A i \in 1..Len(versions) :
       /\ versions[i] >= 2 => "validated_at" \in columns
       /\ versions[i] >= 3 => "archived_at" \in columns
  /\ IF versions = <<>> THEN Complete ELSE tables = TableNames

\* What an opener has seen to is there.
Seen(o) ==
  /\ opener[o].at = "script" =>
       /\ opener[o].step <= 3
       /\ opener[o].step >= 2 => "schema_version" \in tables
       /\ opener[o].step >= 3 => "profiles" \in tables
  /\ opener[o].at \notin {"script", "failed"} => tables = TableNames
  /\ opener[o].at \in {"insert", "open"} => columns = ColumnNames
  /\ opener[o].at = "read" => opener[o].step = 2
  /\ opener[o].at \in {"check", "alter", "bump"} =>
       /\ opener[o].step >= 2
       /\ opener[o].step >= 3 => "validated_at" \in columns
       /\ opener[o].step >= 4 => "archived_at" \in columns
       /\ opener[o].read >= 2 => "validated_at" \in columns
       /\ opener[o].read >= 3 => "archived_at" \in columns
  /\ opener[o].at \in {"alter", "bump"} => opener[o].step <= 3
  /\ opener[o].at = "bump" => Opened!ColumnOf(opener[o].step) \in columns

OpenInv == Schema /\ opener \in [Openers -> Openings] /\ \A o \in Openers : Seen(o)

\* Tables and columns only come.
LEMMA SeenStays ==
  ASSUME NEW o, Seen(o), tables \subseteq tables', columns \subseteq columns',
         tables' \subseteq TableNames, columns' \subseteq ColumnNames, opener'[o] = opener[o]
  PROVE  Seen(o)'
BY DEF Seen, TableNames, ColumnNames

LEMMA ScriptOpens == ASSUME OpenInv, NEW o \in Openers, Opened!Script(o) PROVE OpenInv'
<1>1. opener[o] \in Openings /\ opener \in [Openers -> Openings]
  BY DEF OpenInv
<1>2. PICK k \in {1, 2, 3} : k = opener[o].step
  BY <1>1 DEF OpenInv, Seen, Openings, Opened!Script
<1>3. PICK table \in TableNames : table = Opened!Tables[k]
  BY SchemaIs, <1>2 DEF TableNames
<1>4. /\ opener[o].at = "script" /\ UNCHANGED versions
      /\ IF table \in tables THEN UNCHANGED <<tables, columns>>
         ELSE tables' = tables \cup {table} /\ columns' = columns \cup {c \in ColumnNames : Opened!TableOf(c) = table}
      /\ IF k < 3 THEN opener' = [opener EXCEPT ![o].step = @ + 1]
         ELSE opener' = [opener EXCEPT ![o].step = 2, ![o].at = "read"]
  BY <1>2, <1>3, SchemaIs DEF Opened!Script, Opened!MadeWith
<1>5. Schema'
  <2>1. CASE table \in tables
    BY <1>4, <2>1 DEF OpenInv, Schema, Complete
  <2>2. CASE table \notin tables
    <3>1. versions = <<>> /\ Complete
      BY <1>3, <2>2 DEF OpenInv, Schema
    <3>2. tables' = tables \cup {table} /\ columns' = columns \cup {c \in ColumnNames : Opened!TableOf(c) = table}
      BY <1>4, <2>2
    <3>3. Complete'
      BY <3>1, <3>2 DEF Complete
    <3> QED BY <1>3, <1>4, <3>1, <3>2, <3>3 DEF OpenInv, Schema
  <2> QED BY <2>1, <2>2
<1>6. /\ tables \subseteq tables' /\ columns \subseteq columns' /\ tables' \subseteq TableNames /\ columns' \subseteq ColumnNames
      /\ table \in tables'
  BY <1>3, <1>4 DEF OpenInv, Schema
<1>7. opener' \in [Openers -> Openings] /\ \A other \in Openers \ {o} : opener'[other] = opener[other]
  <2>1. "read" \in Opened!Places
    BY DEF Opened!Places
  <2> QED BY <1>1, <1>2, <1>4, <2>1 DEF Openings
<1>8. Seen(o)'
  <2>1. CASE k < 3
    <3>1. opener'[o].at = "script" /\ opener'[o].step = k + 1
      BY <1>1, <1>2, <1>4, <2>1 DEF Openings
    <3>2. (k >= 2 => "schema_version" \in tables) /\ (k = 1 => table = "schema_version") /\ (k = 2 => table = "profiles")
      BY <1>2, <1>3, <1>4, SchemaIs DEF OpenInv, Seen
    <3> QED BY <1>2, <1>6, <2>1, <3>1, <3>2 DEF Seen
  <2>2. CASE k = 3
    <3>1. opener'[o].at = "read" /\ opener'[o].step = 2
      BY <1>1, <1>2, <1>4, <2>2 DEF Openings
    <3>2. "schema_version" \in tables /\ "profiles" \in tables
      <4>1. opener[o].at = "script" /\ opener[o].step >= 2 /\ opener[o].step >= 3 /\ Seen(o)
        BY <1>2, <1>4, <2>2 DEF OpenInv
      <4> QED BY <4>1 DEF Seen
    <3>4. table = "jobs"
      BY <1>3, <2>2, SchemaIs
    <3>3. tables' = TableNames
      BY <1>6, <3>2, <3>4 DEF TableNames
    <3> QED BY <3>1, <3>3 DEF Seen
  <2> QED BY <1>2, <2>1, <2>2
<1> QED BY <1>5, <1>6, <1>7, <1>8, SeenStays DEF OpenInv

\* A step that leaves tables and columns, or adds a column.
LEMMA OthersStay ==
  ASSUME OpenInv, NEW o \in Openers, UNCHANGED tables, columns \subseteq columns', columns' \subseteq ColumnNames,
         opener' \in [Openers -> Openings], \A other \in Openers \ {o} : opener'[other] = opener[other],
         Seen(o)', Schema'
  PROVE  OpenInv'
<1>1. \A other \in Openers \ {o} : Seen(other)'
  BY SeenStays DEF OpenInv, Schema
<1> QED BY <1>1 DEF OpenInv

LEMMA GoesIs ==
  ASSUME opener \in [Openers -> Openings], NEW o \in Openers, NEW place \in Opened!Places, Opened!Goes(o, place)
  PROVE  /\ opener' \in [Openers -> Openings] /\ \A other \in Openers \ {o} : opener'[other] = opener[other]
         /\ opener'[o].at = place /\ opener'[o].read = opener[o].read /\ opener'[o].step = opener[o].step
BY DEF Opened!Goes, Openings

LEMMA ReadOpens == ASSUME OpenInv, NEW o \in Openers, Opened!ReadVersion(o) PROVE OpenInv'
<1>1. opener \in [Openers -> Openings] /\ opener[o] \in Openings
  BY DEF OpenInv
<1>2. /\ opener[o].at = "read" /\ opener[o].step = 2 /\ UNCHANGED <<tables, columns, versions>> /\ tables = TableNames
  BY DEF OpenInv, Seen, Opened!ReadVersion
<1>3. Schema' /\ columns \subseteq columns' /\ columns' \subseteq ColumnNames
  BY <1>2 DEF OpenInv, Schema, Complete
<1>4. CASE versions = <<>>
  <2>1. Opened!Goes(o, "insert") /\ "insert" \in Opened!Places
    BY <1>4 DEF Opened!ReadVersion, Opened!Places
  <2>2. /\ opener' \in [Openers -> Openings] /\ \A other \in Openers \ {o} : opener'[other] = opener[other]
        /\ opener'[o].at = "insert"
    BY <1>1, <2>1, GoesIs
  <2>3. columns = ColumnNames
    <3>1. Complete /\ columns \subseteq ColumnNames
      BY <1>4 DEF OpenInv, Schema
    <3>2. \A c \in ColumnNames : Opened!TableOf(c) \in TableNames
      BY SchemaIs DEF ColumnNames, TableNames
    <3> QED BY <1>2, <3>1, <3>2 DEF Complete
  <2>4. Seen(o)'
    BY <1>2, <2>2, <2>3 DEF Seen
  <2> QED BY <1>2, <1>3, <2>2, <2>4, OthersStay
<1>5. CASE versions # <<>>
  <2>1. opener' = [opener EXCEPT ![o].read = versions[1], ![o].at = "check"] /\ "check" \in Opened!Places
    BY <1>5 DEF Opened!ReadVersion, Opened!Places
  <2>2. PICK v \in 1..3 : v = versions[1] /\ (v >= 2 => "validated_at" \in columns) /\ (v >= 3 => "archived_at" \in columns)
    BY <1>5 DEF OpenInv, Schema
  <2>3. /\ opener' \in [Openers -> Openings] /\ \A other \in Openers \ {o} : opener'[other] = opener[other]
        /\ opener'[o].at = "check" /\ opener'[o].read = v /\ opener'[o].step = 2
    BY <1>1, <1>2, <2>1, <2>2 DEF Openings
  <2>4. Seen(o)'
    BY <1>2, <2>2, <2>3 DEF Seen
  <2> QED BY <1>2, <1>3, <2>3, <2>4, OthersStay
<1> QED BY <1>4, <1>5

LEMMA InsertOpens == ASSUME OpenInv, NEW o \in Openers, Opened!InsertVersion(o) PROVE OpenInv'
<1>1. /\ opener \in [Openers -> Openings] /\ opener[o].at = "insert" /\ tables = TableNames /\ columns = ColumnNames
      /\ UNCHANGED <<tables, columns>> /\ versions' = Append(versions, 3)
      /\ Opened!Goes(o, "open") /\ "open" \in Opened!Places
  BY SchemaIs DEF OpenInv, Seen, Opened!InsertVersion, Opened!Places
<1>2. /\ opener' \in [Openers -> Openings] /\ \A other \in Openers \ {o} : opener'[other] = opener[other]
      /\ opener'[o].at = "open"
  BY <1>1, GoesIs
<1>3. Seen(o)'
  BY <1>1, <1>2 DEF Seen
<1>4. versions' \in Seq(1..3) /\ versions' # <<>>
  BY <1>1 DEF OpenInv, Schema
<1>5. Schema'
  BY <1>1, <1>4 DEF OpenInv, Schema, ColumnNames
<1> QED BY <1>1, <1>2, <1>3, <1>5, OthersStay DEF OpenInv, Schema

LEMMA CheckOpens == ASSUME OpenInv, NEW o \in Openers, Opened!Check(o) \/ Opened!CheckedAll(o) PROVE OpenInv'
<1>1. /\ opener \in [Openers -> Openings] /\ opener[o] \in Openings /\ opener[o].at = "check" /\ tables = TableNames
      /\ UNCHANGED <<tables, columns, versions>> /\ Seen(o)
  BY DEF OpenInv, Seen, Opened!Check, Opened!CheckedAll
<1>2. Schema' /\ columns \subseteq columns' /\ columns' \subseteq ColumnNames
  BY <1>1 DEF OpenInv, Schema, Complete
<1>3. PICK k \in {2, 3, 4} : k = opener[o].step
  BY <1>1 DEF Seen, Openings
<1>4. PICK v \in 0..3 : v = opener[o].read
  BY <1>1 DEF Openings
<1>5. /\ (k >= 3 => "validated_at" \in columns) /\ (k >= 4 => "archived_at" \in columns)
      /\ (v >= 2 => "validated_at" \in columns) /\ (v >= 3 => "archived_at" \in columns)
  BY <1>1, <1>3, <1>4 DEF Seen
<1>6. CASE Opened!CheckedAll(o)
  <2>1. k = 4 /\ Opened!Goes(o, "open") /\ "open" \in Opened!Places
    BY <1>3, <1>6, SchemaIs DEF Opened!CheckedAll, Opened!Places
  <2>2. /\ opener' \in [Openers -> Openings] /\ \A other \in Openers \ {o} : opener'[other] = opener[other]
        /\ opener'[o].at = "open"
    BY <1>1, <2>1, GoesIs
  <2>3. columns = ColumnNames
    <3>1. "validated_at" \in columns /\ "archived_at" \in columns /\ columns \subseteq ColumnNames
      BY <1>1, <1>2, <1>5, <2>1
    <3> QED BY <3>1 DEF ColumnNames
  <2>4. Seen(o)'
    BY <1>1, <2>2, <2>3 DEF Seen
  <2> QED BY <1>1, <1>2, <2>2, <2>4, OthersStay
<1>7. CASE Opened!Check(o) /\ k <= v
  <2>1. k \in {2, 3} /\ opener' = [opener EXCEPT ![o].step = @ + 1]
    BY <1>3, <1>4, <1>7, SchemaIs DEF Opened!Check, Opened!Pending
  <2>2. /\ opener' \in [Openers -> Openings] /\ \A other \in Openers \ {o} : opener'[other] = opener[other]
        /\ opener'[o].at = "check" /\ opener'[o].read = v /\ opener'[o].step = k + 1
    BY <1>1, <1>3, <1>4, <2>1 DEF Openings
  <2>3. Seen(o)'
    BY <1>1, <1>5, <1>7, <2>1, <2>2 DEF Seen
  <2> QED BY <1>1, <1>2, <2>2, <2>3, OthersStay
<1>8. CASE Opened!Check(o) /\ ~(k <= v)
  <2>1. PICK place \in {"bump", "alter"} : Opened!Goes(o, place) /\ (place = "bump" => Opened!ColumnOf(k) \in columns)
    BY <1>3, <1>4, <1>8 DEF Opened!Check, Opened!Pending, Opened!Skips
  <2>2. /\ opener' \in [Openers -> Openings] /\ \A other \in Openers \ {o} : opener'[other] = opener[other]
        /\ opener'[o].at = place /\ opener'[o].read = v /\ opener'[o].step = k
    <3>1. place \in Opened!Places
      BY DEF Opened!Places
    <3> QED BY <1>1, <1>3, <1>4, <2>1, <3>1, GoesIs
  <2>3. k \in {2, 3}
    BY <1>3, <1>8, SchemaIs DEF Opened!Check
  <2>4. Seen(o)'
    BY <1>1, <1>5, <2>1, <2>2, <2>3 DEF Seen
  <2> QED BY <1>1, <1>2, <2>2, <2>4, OthersStay
<1> QED BY <1>6, <1>7, <1>8

LEMMA AlterOpens == ASSUME OpenInv, NEW o \in Openers, Opened!AlterTable(o) PROVE OpenInv'
<1>1. /\ opener \in [Openers -> Openings] /\ opener[o] \in Openings /\ opener[o].at = "alter" /\ tables = TableNames
      /\ UNCHANGED <<tables, versions>> /\ Seen(o)
  BY DEF OpenInv, Seen, Opened!AlterTable
<1>2. PICK k \in {2, 3} : k = opener[o].step
  BY <1>1 DEF Seen, Openings
<1>3. PICK column \in ColumnNames : column = Opened!ColumnOf(k)
  BY SchemaIs, <1>2 DEF ColumnNames
<1>4. PICK place \in {"failed", "bump"} :
        Opened!Goes(o, place) /\ columns' \subseteq columns \cup {column} /\ columns \subseteq columns'
        /\ (place = "bump" => column \in columns')
  BY <1>2, <1>3 DEF Opened!AlterTable
<1>5. place \in Opened!Places
  BY DEF Opened!Places
<1>6. /\ opener' \in [Openers -> Openings] /\ \A other \in Openers \ {o} : opener'[other] = opener[other]
      /\ opener'[o].at = place /\ opener'[o].read = opener[o].read /\ opener'[o].step = k
  BY <1>1, <1>2, <1>4, <1>5, GoesIs
<1>7. columns' \subseteq ColumnNames
  BY <1>3, <1>4 DEF OpenInv, Schema
<1>8. Seen(o)'
  BY <1>1, <1>2, <1>3, <1>4, <1>6 DEF Seen
<1>9. Schema'
  <2>1. \A c \in ColumnNames : Opened!TableOf(c) \in TableNames
    BY SchemaIs DEF ColumnNames, TableNames
  <2>2. Complete => Complete'
    BY <1>1, <1>4 DEF Complete
  <2> QED BY <1>1, <1>4, <1>7, <2>1, <2>2 DEF OpenInv, Schema
<1> QED BY <1>1, <1>4, <1>6, <1>7, <1>8, <1>9, OthersStay

LEMMA BumpOpens == ASSUME OpenInv, NEW o \in Openers, Opened!Bump(o) PROVE OpenInv'
<1>1. /\ opener \in [Openers -> Openings] /\ opener[o] \in Openings /\ opener[o].at = "bump" /\ tables = TableNames
      /\ UNCHANGED <<tables, columns>> /\ Seen(o) /\ versions \in Seq(1..3) /\ Schema
  BY DEF OpenInv, Seen, Schema, Opened!Bump
<1>2. PICK k \in {2, 3} : k = opener[o].step
  BY <1>1 DEF Seen, Openings
<1>3. versions' = [i \in DOMAIN versions |-> k] /\ opener' = [opener EXCEPT ![o].at = "check", ![o].step = @ + 1]
  BY <1>2 DEF Opened!Bump
<1>4. /\ opener' \in [Openers -> Openings] /\ \A other \in Openers \ {o} : opener'[other] = opener[other]
      /\ opener'[o].at = "check" /\ opener'[o].read = opener[o].read /\ opener'[o].step = k + 1
  <2>1. "check" \in Opened!Places
    BY DEF Opened!Places
  <2> QED BY <1>1, <1>2, <1>3, <2>1 DEF Openings
<1>5. ("validated_at" \in columns) /\ (k = 3 => "archived_at" \in columns)
  BY <1>1, <1>2, SchemaIs DEF Seen
<1>6. Seen(o)'
  BY <1>1, <1>2, <1>4, <1>5 DEF Seen
<1>7. /\ versions' \in Seq(1..3) /\ Len(versions') = Len(versions) /\ (versions' = <<>> <=> versions = <<>>)
      /\ \A i \in 1..Len(versions') : versions'[i] = k
  <2>1. DOMAIN versions = 1..Len(versions) /\ Len(versions) \in Nat
    BY <1>1
  <2>2. PICK r : r = [i \in 1..Len(versions) |-> k] /\ r = versions'
    BY <1>3, <2>1
  <2>3. r \in Seq(1..3) /\ Len(r) = Len(versions) /\ \A i \in 1..Len(r) : r[i] = k
    BY <1>2, <2>1, <2>2
  <2>4. r = <<>> <=> versions = <<>>
    BY <1>1, <2>1, <2>3
  <2> QED BY <2>2, <2>3, <2>4
<1>8. Schema'
  BY <1>1, <1>2, <1>5, <1>7 DEF Schema, Complete
<1> QED BY <1>1, <1>4, <1>6, <1>8, OthersStay DEF Schema

LEMMA FailOpens == ASSUME OpenInv, NEW o \in Openers, Opened!Dies(o) \/ Opened!Reopen(o) PROVE OpenInv'
<1>1. opener \in [Openers -> Openings] /\ UNCHANGED <<tables, columns, versions>> /\ columns \subseteq ColumnNames
  BY DEF OpenInv, Schema, Opened!Dies, Opened!Reopen
<1>2. Schema'
  BY <1>1 DEF OpenInv, Schema, Complete
<1>3. CASE Opened!Dies(o)
  <2>1. Opened!Goes(o, "failed") /\ "failed" \in Opened!Places
    BY <1>3 DEF Opened!Dies, Opened!Places
  <2>2. /\ opener' \in [Openers -> Openings] /\ \A other \in Openers \ {o} : opener'[other] = opener[other]
        /\ opener'[o].at = "failed"
    BY <1>1, <2>1, GoesIs
  <2>3. Seen(o)'
    BY <2>2 DEF Seen
  <2> QED BY <1>1, <1>2, <2>2, <2>3, OthersStay
<1>4. CASE Opened!Reopen(o)
  <2>1. opener' = [opener EXCEPT ![o] = Opened!Begin] /\ Opened!Begin \in Openings
        /\ Opened!Begin.at = "script" /\ Opened!Begin.step = 1
    BY <1>4 DEF Opened!Reopen, Opened!Begin, Openings, Opened!Places
  <2>2. /\ opener' \in [Openers -> Openings] /\ \A other \in Openers \ {o} : opener'[other] = opener[other]
        /\ opener'[o].at = "script" /\ opener'[o].step = 1
    BY <1>1, <2>1
  <2>3. Seen(o)'
    BY <2>2 DEF Seen
  <2> QED BY <1>1, <1>2, <2>2, <2>3, OthersStay
<1> QED BY <1>3, <1>4

LEMMA OpenInvHolds == Opened!Spec => []OpenInv
<1>1. Opened!Init => OpenInv
  <2> SUFFICES ASSUME Opened!Init PROVE OpenInv
    OBVIOUS
  <2>1. PICK v \in 0..3 :
          /\ tables = (IF v = 0 THEN {} ELSE {Opened!Tables[i] : i \in DOMAIN Opened!Tables})
          /\ columns = {Opened!ColumnOf(w) : w \in 2..v}
          /\ versions = IF v = 0 THEN <<>> ELSE <<v>>
    BY SchemaIs DEF Opened!Init
  <2>2. {Opened!Tables[i] : i \in DOMAIN Opened!Tables} = TableNames
    BY SchemaIs DEF TableNames
  <2>3. columns = {c \in ColumnNames : (c = "validated_at" /\ v >= 2) \/ (c = "archived_at" /\ v >= 3)}
    <3>1. CASE v <= 1
      <4>1. 2..v = {}
        BY <3>1
      <4> QED BY <2>1, <3>1, <4>1 DEF ColumnNames
    <3>2. CASE v = 2
      <4>1. 2..v = {2}
        BY <3>2
      <4> QED BY <2>1, <3>2, <4>1, SchemaIs DEF ColumnNames
    <3>3. CASE v = 3
      <4>1. 2..v = {2, 3}
        BY <3>3
      <4> QED BY <2>1, <3>3, <4>1, SchemaIs DEF ColumnNames
    <3> QED BY <3>1, <3>2, <3>3
  <2>4. Schema
    <3>1. CASE v = 0
      BY <2>1, <2>3, <3>1 DEF Schema, Complete
    <3>2. CASE v # 0
      <4>1. tables = TableNames /\ versions = <<v>>
        BY <2>1, <2>2, <3>2
      <4>2. \A c \in ColumnNames : Opened!TableOf(c) \in TableNames
        BY SchemaIs DEF ColumnNames, TableNames
      <4>3. versions \in Seq(1..3) /\ Len(versions) = 1 /\ versions[1] = v /\ versions # <<>>
        BY <3>2, <4>1
      <4> QED BY <2>3, <4>1, <4>2, <4>3 DEF Schema, ColumnNames
    <3> QED BY <3>1, <3>2
  <2>5. opener \in [Openers -> Openings] /\ \A o \in Openers : opener[o].at = "script" /\ opener[o].step = 1
    BY DEF Opened!Init, Opened!Begin, Openings, Opened!Places
  <2>6. \A o \in Openers : Seen(o)
    BY <2>5 DEF Seen
  <2> QED BY <2>4, <2>5, <2>6 DEF OpenInv
<1>2. OpenInv /\ [Opened!Next]_Opened!vars => OpenInv'
  <2> SUFFICES ASSUME OpenInv, [Opened!Next]_Opened!vars PROVE OpenInv'
    OBVIOUS
  <2>1. CASE UNCHANGED Opened!vars
    BY <2>1 DEF Opened!vars, OpenInv, Schema, Complete, Seen
  <2>2. ASSUME NEW o \in Openers, Opened!Opens(o) \/ Opened!Dies(o) PROVE OpenInv'
    BY <2>2, ScriptOpens, ReadOpens, InsertOpens, CheckOpens, AlterOpens, BumpOpens, FailOpens
       DEF Opened!Opens
  <2> QED BY <2>1, <2>2 DEF Opened!Next
<1> QED BY <1>1, <1>2, PTL DEF Opened!Spec

LEMMA OpenIsMigrated == ASSUME OpenInv PROVE Opened!OpenMeansMigrated /\ Opened!TypeOK
<1>1. Opened!OpenMeansMigrated
  <2>1. \A i \in DOMAIN Opened!Tables : Opened!Tables[i] \in TableNames
    BY SchemaIs DEF TableNames
  <2> QED BY <2>1, SchemaIs DEF OpenInv, Seen, Opened!OpenMeansMigrated
<1>2. Opened!TypeOK
  <2>1. \A i \in DOMAIN versions : versions[i] \in 1..3 /\ i \in 1..Len(versions)
    BY DEF OpenInv, Schema
  <2>2. \A i \in DOMAIN versions, w \in 2..3 : w <= versions[i] => Opened!ColumnOf(w) \in columns
    <3> SUFFICES ASSUME NEW i \in DOMAIN versions, NEW w \in 2..3, w <= versions[i] PROVE Opened!ColumnOf(w) \in columns
      OBVIOUS
    <3>1. w = 2 \/ w = 3
      OBVIOUS
    <3>2. CASE w = 2
      BY <2>1, <3>2, SchemaIs DEF OpenInv, Schema
    <3>3. CASE w = 3
      BY <2>1, <3>3, SchemaIs DEF OpenInv, Schema
    <3> QED BY <3>1, <3>2, <3>3
  <2>3. columns \subseteq {c \in Opened!Columns : Opened!TableOf(c) \in tables}
    BY SchemaIs DEF OpenInv, Schema
  <2>4. opener \in [Openers -> [at : Opened!Places, read : 0..Opened!Latest, step : 1..Opened!Latest + 1]]
    <3>1. Opened!Latest + 1 = 4
      BY SchemaIs
    <3> QED BY <3>1, SchemaIs DEF OpenInv, Openings
  <2> QED BY <2>1, <2>2, <2>3, <2>4, SchemaIs DEF Opened!TypeOK
<1> QED BY <1>1, <1>2

---------------------------------------------------------------------------
(* The form for a new transfer *)

Lists == Seq(Connections)
Chosen == Connections \cup {NoConnection}
Forms == [open : BOOLEAN, direction : {"upload", "download"}, source : BOOLEAN, prefix : Form!PrefixValues,
          list : Lists, chosen : Chosen, picked : BOOLEAN]
Previews == [label : Form!Labels, timer : BOOLEAN, cancelled : BOOLEAN]
Requests == [kind : {"list", "scan", "bucket", "submit", "resume"},
             at : {"asked", "answered", "failed", "duplicate"}, current : BOOLEAN,
             over : Chosen, prefix : Form!PrefixValues, list : Lists, job : Nat]
Jobs == [over : Connections, prefix : Form!PrefixValues, status : {"pending", "paused"}]
Counters == [gestures : Nat, changes : Nat, failures : Nat]

\* The service's connections are few and each is there once, and no two of its jobs
\* are of the same.
ServiceOK ==
  /\ f_stored \in Lists /\ Form!IsInjective(f_stored) /\ Len(f_stored) <= 2 + f_spent.changes
  /\ f_spent \in Counters /\ f_spent.changes <= MaxChanges
  /\ f_jobs \in Seq(Jobs)
  /\ \A i, j \in 1..Len(f_jobs) : f_jobs[i].over = f_jobs[j].over /\ f_jobs[i].prefix = f_jobs[j].prefix => i = j

FormOK(x) ==
  /\ x \in Forms /\ x.chosen \in Form!Range(x.list) \cup {NoConnection}
  /\ (x.chosen = NoConnection <=> x.list = <<>>)
PreviewOK(x) == x \in Previews /\ (x.label.kind = "bucket" => x.label.of # NoConnection)
RequestOK(c, n) ==
  /\ c \in Requests
  /\ c.kind = "bucket" => c.over # NoConnection
  /\ c.at = "duplicate" => c.kind = "submit"
  /\ c.kind = "scan" => c.at # "asked"
  /\ c.kind = "resume" \/ (c.kind = "submit" /\ c.at \in {"answered", "duplicate"}) => c.job \in 1..n

\* When nothing is about to be previewed, and nothing was submitted instead, the
\* preview that counts, and the totals that are shown, are of the form.
OfForm(over, prefix) == form.direction = "download" /\ over = form.chosen /\ prefix = form.prefix
OfBucket(c) == c.kind = "bucket" /\ c.current
PreviewFits ==
  ~preview.timer /\ ~preview.cancelled =>
    /\ \A c \in f_calls : OfBucket(c) => OfForm(c.over, c.prefix)
    /\ preview.label.kind = "bucket" => OfForm(preview.label.of, preview.label.prefix)

FormInv ==
  /\ ServiceOK /\ FormOK(form) /\ PreviewOK(preview) /\ told \subseteq 1..Len(f_jobs)
  /\ \A c \in f_calls : RequestOK(c, Len(f_jobs))
  /\ PreviewFits

\* A step of the form leaves the service as it is.
LEMMA FormKeeps ==
  ASSUME FormInv, UNCHANGED <<f_stored, f_jobs>>, f_spent' \in Counters, f_spent'.changes = f_spent.changes,
         FormOK(form'), PreviewOK(preview'), told' \subseteq 1..Len(f_jobs),
         \A c \in f_calls' : RequestOK(c, Len(f_jobs)), PreviewFits'
  PROVE  FormInv'
<1>1. ServiceOK'
  BY DEF FormInv, ServiceOK
<1> QED BY <1>1 DEF FormInv

LEMMA GestureIs ==
  ASSUME FormInv, Form!Gesture
  PROVE  /\ UNCHANGED <<f_stored, f_jobs, told>> /\ f_spent' \in Counters /\ f_spent'.changes = f_spent.changes
         /\ told' \subseteq 1..Len(f_jobs)
BY DEF FormInv, ServiceOK, Form!Gesture, Form!service, Counters

\* What restarts the preview's timer says nothing of what is shown until it runs out.
LEMMA RestartIs ==
  ASSUME FormInv, Form!Restart
  PROVE  PreviewOK(preview') /\ preview'.timer = TRUE /\ PreviewFits'
<1>1. PreviewOK(preview') /\ preview'.timer = TRUE
  BY DEF FormInv, PreviewOK, Previews, Form!Restart
<1> QED BY <1>1 DEF PreviewFits

LEMMA InputsKeep ==
  ASSUME FormInv, Form!Turn \/ Form!EditSource \/ Form!EditPrefix \/ Form!Pick
  PROVE  FormInv'
<1>1. /\ Form!Gesture /\ UNCHANGED f_calls /\ form \in Forms /\ FormOK(form) /\ PreviewOK(preview)
      /\ \A c \in f_calls : RequestOK(c, Len(f_jobs))
  BY DEF FormInv, FormOK, Form!Turn, Form!EditSource, Form!EditPrefix, Form!Pick
<1>2. CASE Form!Turn \/ Form!EditSource
  <2>1. /\ form' \in Forms /\ form'.list = form.list /\ form'.chosen = form.chosen
    BY <1>1, <1>2 DEF Forms, Form!Turn, Form!EditSource
  <2>2. FormOK(form')
    BY <1>1, <2>1 DEF FormOK
  <2>3. Form!Restart
    BY <1>2 DEF Form!Turn, Form!EditSource
  <2> QED BY <1>1, <2>2, <2>3, GestureIs, RestartIs, FormKeeps
<1>3. CASE Form!EditPrefix
  <2>1. /\ form' \in Forms /\ form'.list = form.list /\ form'.chosen = form.chosen /\ form'.direction = form.direction
    BY <1>1, <1>3 DEF Forms, Form!PrefixValues, Form!EditPrefix
  <2>2. FormOK(form')
    BY <1>1, <2>1 DEF FormOK
  <2>3. PreviewOK(preview') /\ PreviewFits'
    <3>1. CASE form.direction = "download"
      <4>1. Form!Restart
        BY <1>3, <3>1 DEF Form!EditPrefix, Form!PrefixMatters
      <4> QED BY <4>1, RestartIs
    <3>2. CASE form.direction # "download"
      <4>1. preview' = preview
        BY <1>3, <3>2 DEF Form!EditPrefix, Form!PrefixMatters
      <4> QED BY <1>1, <2>1, <3>2, <4>1 DEF FormInv, PreviewFits, OfForm
    <3> QED BY <3>1, <3>2
  <2> QED BY <1>1, <2>2, <2>3, GestureIs, FormKeeps
<1>4. CASE Form!Pick
  <2>1. PICK c \in Form!Range(form.list) : form' = [form EXCEPT !.chosen = c, !.picked = TRUE]
    BY <1>4 DEF Form!Pick
  <2>2. form.list \in Seq(Connections)
    BY <1>1 DEF Forms, Lists
  <2>3. c \in Connections /\ form.list # <<>>
    BY <2>2 DEF Form!Range
  <2>4. form' \in Forms /\ form'.list = form.list /\ form'.chosen = c
    BY <1>1, <2>1, <2>3 DEF Forms, Chosen
  <2>5. FormOK(form')
    BY <2>3, <2>4, ConnectingAssumption DEF FormOK
  <2>6. Form!Restart
    BY <1>4 DEF Form!Pick
  <2> QED BY <1>1, <2>5, <2>6, GestureIs, RestartIs, FormKeeps
<1> QED BY <1>2, <1>3, <1>4

\* A thread that is started knows what the form shows.
LEMMA CallIs ==
  ASSUME FormOK(form), NEW kind \in {"list", "scan", "bucket", "submit"},
         NEW c, c = Form!Call(kind)
  PROVE  /\ c \in Requests /\ c.kind = kind /\ c.at = "asked" /\ c.current = TRUE
         /\ c.over = form.chosen /\ c.prefix = form.prefix
<1>1. <<>> \in Lists
  BY DEF Lists
<1>2. form.chosen \in Chosen /\ form.prefix \in Form!PrefixValues
  BY DEF FormOK, Forms
<1> QED BY <1>1, <1>2 DEF Requests, Form!Call

LEMMA ListIs ==
  ASSUME FormOK(form), NEW n
  PROVE  RequestOK(Form!List, n) /\ ~OfBucket(Form!List)
<1>1. PICK c : c = Form!Call("list")
  OBVIOUS
<1>2. c \in Requests /\ c.kind = "list" /\ c.at = "asked"
  BY <1>1, CallIs
<1>3. PICK d : d = [c EXCEPT !.over = NoConnection, !.prefix = "none"] /\ d = Form!List
  BY <1>1 DEF Form!List
<1>4. d \in Requests /\ d.kind = "list" /\ d.at = "asked"
  BY <1>2, <1>3 DEF Requests, Chosen, Form!PrefixValues
<1> QED BY <1>3, <1>4 DEF RequestOK, OfBucket

LEMMA RefreshKeeps == ASSUME FormInv, Form!Refresh PROVE FormInv'
<1>1. /\ Form!Gesture /\ UNCHANGED <<form, preview>> /\ f_calls' = f_calls \cup {Form!List}
      /\ FormOK(form) /\ PreviewOK(preview)
  BY DEF FormInv, Form!Refresh, Form!Ask
<1>2. \A c \in f_calls' : RequestOK(c, Len(f_jobs))
  BY <1>1, ListIs DEF FormInv
<1>3. PreviewFits'
  BY <1>1, ListIs DEF FormInv, PreviewFits, OfForm
<1> QED BY <1>1, <1>2, <1>3, GestureIs, FormKeeps

\* No preview that was superseded counts.
LEMMA SupersededIs ==
  ASSUME FormInv
  PROVE  \A c \in Form!Superseded : RequestOK(c, Len(f_jobs)) /\ ~OfBucket(c)
<1> SUFFICES ASSUME NEW c \in Form!Superseded PROVE RequestOK(c, Len(f_jobs)) /\ ~OfBucket(c)
  OBVIOUS
<1>1. CASE c \in f_calls /\ c.kind \notin {"scan", "bucket"}
  BY <1>1 DEF FormInv, OfBucket
<1>2. ASSUME NEW d \in f_calls, d.kind \in {"scan", "bucket"}, c = [d EXCEPT !.current = FALSE]
      PROVE  RequestOK(c, Len(f_jobs)) /\ ~OfBucket(c)
  <2>1. RequestOK(d, Len(f_jobs))
    BY DEF FormInv
  <2>2. /\ c \in Requests /\ c.kind = d.kind /\ c.at = d.at /\ c.over = d.over /\ c.job = d.job /\ c.current = FALSE
    BY <1>2, <2>1 DEF RequestOK, Requests
  <2> QED BY <2>1, <2>2 DEF RequestOK, OfBucket
<1> QED BY <1>1, <1>2 DEF Form!Superseded

LEMMA ShowsIs ==
  ASSUME NEW kind \in {"blank", "working"}, Form!Shows(kind)
  PROVE  /\ PreviewOK(preview') /\ preview'.label.kind = kind
BY DEF Form!Shows, Form!Blank, Form!Labels, Form!PrefixValues, PreviewOK, Previews

LEMMA RestartPreviewKeeps == ASSUME FormInv, Form!RestartPreview PROVE FormInv'
<1>1. /\ UNCHANGED <<f_stored, f_jobs, form, told, f_spent>> /\ FormOK(form) /\ FormOK(form')
      /\ told \subseteq 1..Len(f_jobs) /\ f_spent \in Counters
      /\ form.direction \in {"upload", "download"}
  BY DEF FormInv, FormOK, Forms, ServiceOK, Form!RestartPreview, Form!service
<1>2. PICK kind \in {"blank", "working"} : Form!Shows(kind)
  BY <1>1 DEF Form!RestartPreview
<1>3. PreviewOK(preview') /\ preview'.label.kind # "bucket"
  BY <1>2, ShowsIs
<1>4. \A c \in f_calls' : c \in Form!Superseded \/ c = [Form!Call("scan") EXCEPT !.at = "answered"]
                          \/ (c = Form!Call("bucket") /\ form.direction = "download" /\ form.chosen # NoConnection)
  BY <1>1 DEF Form!RestartPreview
<1>5. \A c \in f_calls' : RequestOK(c, Len(f_jobs)) /\ (OfBucket(c) => OfForm(c.over, c.prefix))
  <2> SUFFICES ASSUME NEW c \in f_calls' PROVE RequestOK(c, Len(f_jobs)) /\ (OfBucket(c) => OfForm(c.over, c.prefix))
    OBVIOUS
  <2>1. CASE c \in Form!Superseded
    BY <2>1, SupersededIs
  <2>2. CASE c = [Form!Call("scan") EXCEPT !.at = "answered"]
    <3>1. PICK d : d = Form!Call("scan")
      OBVIOUS
    <3>2. d \in Requests /\ d.kind = "scan"
      BY <1>1, <3>1, CallIs
    <3>3. c \in Requests /\ c.kind = "scan" /\ c.at = "answered"
      BY <2>2, <3>1, <3>2 DEF Requests
    <3> QED BY <3>3 DEF RequestOK, OfBucket
  <2>3. CASE c = Form!Call("bucket") /\ form.direction = "download" /\ form.chosen # NoConnection
    <3>1. c \in Requests /\ c.kind = "bucket" /\ c.at = "asked" /\ c.over = form.chosen /\ c.prefix = form.prefix
      BY <1>1, <2>3, CallIs
    <3> QED BY <2>3, <3>1 DEF RequestOK, OfForm
  <2> QED BY <1>4, <2>1, <2>2, <2>3
<1>6. PreviewFits'
  BY <1>1, <1>3, <1>5 DEF PreviewFits, OfForm, OfBucket
<1> QED BY <1>1, <1>3, <1>5, <1>6, FormKeeps

\* A submission puts an end to the preview.
LEMMA CancelPreviewIs ==
  ASSUME FormInv, Form!CancelPreview
  PROVE  PreviewOK(preview') /\ PreviewFits'
<1>1. PreviewOK(preview') /\ preview'.cancelled = TRUE
  BY DEF FormInv, PreviewOK, Previews, Form!CancelPreview
<1> QED BY <1>1 DEF PreviewFits

LEMMA SubmitAndCancelKeep == ASSUME FormInv, Form!Submit \/ Form!Cancel PROVE FormInv'
<1>1. Form!Gesture /\ Form!CancelPreview /\ FormOK(form)
  BY DEF FormInv, Form!Submit, Form!Cancel
<1>2. FormOK(form')
  <2>1. form' \in Forms /\ form'.list = form.list /\ form'.chosen = form.chosen
    BY <1>1 DEF FormOK, Forms, Form!Submit, Form!Cancel
  <2> QED BY <1>1, <2>1 DEF FormOK
<1>3. \A c \in f_calls' : RequestOK(c, Len(f_jobs))
  <2>1. \A c \in f_calls' : c \in Form!Superseded \/ c = Form!Call("submit")
    BY DEF Form!Submit, Form!Cancel
  <2>2. ASSUME NEW c, c = Form!Call("submit") PROVE RequestOK(c, Len(f_jobs))
    <3>1. c \in Requests /\ c.kind = "submit" /\ c.at = "asked"
      BY <1>1, <2>2, CallIs
    <3> QED BY <3>1 DEF RequestOK
  <2> QED BY <2>1, <2>2, SupersededIs
<1> QED BY <1>1, <1>2, <1>3, GestureIs, CancelPreviewIs, FormKeeps

---------------------------------------------------------------------------
(* The form, as answers reach it *)

\* An answer that leaves the form as it is, or shows what is none of a bucket.
LEMMA LabelIs ==
  ASSUME FormInv, NEW kind \in {"folder", "error"},
         preview' = [preview EXCEPT !.label = [Form!Blank EXCEPT !.kind = kind]]
  PROVE  PreviewOK(preview') /\ preview'.label.kind = kind
         /\ preview'.timer = preview.timer /\ preview'.cancelled = preview.cancelled
<1>1. preview \in Previews
  BY DEF FormInv, PreviewOK
<1>2. PICK label : label = [Form!Blank EXCEPT !.kind = kind]
  OBVIOUS
<1>3. label \in Form!Labels /\ label.kind = kind
  BY <1>2 DEF Form!Blank, Form!Labels, Form!PrefixValues
<1>4. preview' = [preview EXCEPT !.label = label]
  BY <1>2
<1>5. PICK b \in BOOLEAN, t \in BOOLEAN : b = preview.timer /\ t = preview.cancelled
  BY <1>1 DEF Previews
<1>6. preview'.label = label /\ preview' \in Previews /\ preview'.timer = preview.timer /\ preview'.cancelled = preview.cancelled
  BY <1>1, <1>3, <1>4 DEF Previews
<1> QED BY <1>3, <1>6 DEF PreviewOK

\* _loaded moves the selection, and starts the timer if it did.
LEMMA LoadedKeeps ==
  ASSUME FormInv, NEW c \in f_calls, Form!Loaded(c),
         UNCHANGED <<f_stored, f_jobs, f_spent>>, f_calls' = f_calls \ {c}
  PROVE  FormInv'
<1>1. /\ form \in Forms /\ c.list \in Lists /\ UNCHANGED told /\ told \subseteq 1..Len(f_jobs) /\ f_spent \in Counters
      /\ \A d \in f_calls : RequestOK(d, Len(f_jobs)) /\ PreviewOK(preview) /\ FormOK(form)
  BY DEF FormInv, FormOK, ServiceOK, RequestOK, Requests, Form!Loaded
<1>2. PICK x : x = Form!Chosen(c.list)
  OBVIOUS
<1>3. /\ x \in Form!Range(c.list) \cup {NoConnection} /\ (x = NoConnection <=> c.list = <<>>) /\ x \in Chosen
  <2>1. c.list \in Seq(Connections) /\ Form!Range(c.list) \subseteq Connections
    BY <1>1 DEF Lists, Form!Range
  <2>2. CASE c.list = <<>>
    <3>1. Form!Range(c.list) = {}
      BY <2>2 DEF Form!Range
    <3> QED BY <1>2, <2>2, <3>1 DEF Form!Chosen, Form!FirstOf, Chosen
  <2>3. CASE c.list # <<>>
    <3>1. 1 \in DOMAIN c.list /\ c.list[1] \in Form!Range(c.list)
      BY <2>1, <2>3 DEF Form!Range
    <3>2. x \in Form!Range(c.list)
      BY <1>2, <2>3, <3>1 DEF Form!Chosen, Form!FirstOf
    <3> QED BY <2>1, <2>3, <3>2, ConnectingAssumption DEF Chosen
  <2> QED BY <2>2, <2>3
<1>4. form' = [form EXCEPT !.list = c.list, !.chosen = x]
  BY <1>2 DEF Form!Loaded
<1>5. /\ form' \in Forms /\ form'.list = c.list /\ form'.chosen = x /\ form'.direction = form.direction
      /\ form'.prefix = form.prefix
  BY <1>1, <1>3, <1>4 DEF Forms
<1>6. FormOK(form')
  BY <1>3, <1>5 DEF FormOK
<1>7. PreviewOK(preview') /\ PreviewFits'
  <2>1. CASE Form!Restart
    BY <2>1, RestartIs
  <2>2. CASE ~Form!Restart
    <3>1. x = form.chosen /\ preview' = preview
      BY <1>2, <2>2 DEF Form!Loaded
    <3> QED BY <1>1, <1>5, <3>1 DEF FormInv, PreviewFits, OfForm, OfBucket
  <2> QED BY <2>1, <2>2
<1>8. \A d \in f_calls' : RequestOK(d, Len(f_jobs))
  BY <1>1
<1> QED BY <1>1, <1>6, <1>7, <1>8, FormKeeps

\* _maybe_remote_preview_done: the totals of the preview that counts.
LEMMA RemoteDoneKeeps ==
  ASSUME FormInv, NEW c \in f_calls, c.kind = "bucket", Form!RemoteDone(c),
         UNCHANGED <<f_stored, f_jobs, f_spent>>, f_calls' = f_calls \ {c}
  PROVE  FormInv'
<1>1. /\ UNCHANGED <<told, form>> /\ told \subseteq 1..Len(f_jobs) /\ f_spent \in Counters
      /\ \A d \in f_calls : RequestOK(d, Len(f_jobs)) /\ PreviewOK(preview) /\ FormOK(form)
  BY DEF FormInv, ServiceOK, Form!RemoteDone
<1>2. PICK label : label = [kind |-> "bucket", of |-> c.over, prefix |-> c.prefix]
  OBVIOUS
<1>3. label \in Form!Labels /\ label.kind = "bucket" /\ label.of = c.over /\ label.prefix = c.prefix /\ label.of # NoConnection
  BY <1>1, <1>2 DEF RequestOK, Requests, Chosen, Form!Labels
<1>4. PreviewOK(preview') /\ PreviewFits'
  <2>1. CASE c.current
    <3>1. preview' = [preview EXCEPT !.label = label]
      BY <1>2, <2>1 DEF Form!RemoteDone, Form!Counts
    <3>2. /\ preview' \in Previews /\ preview'.label = label /\ preview'.timer = preview.timer
          /\ preview'.cancelled = preview.cancelled
      BY <1>1, <1>3, <3>1 DEF PreviewOK, Previews
    <3>3. PreviewOK(preview')
      BY <1>3, <3>2 DEF PreviewOK
    <3>4. OfBucket(c)
      BY <2>1 DEF OfBucket
    <3> QED BY <1>1, <1>3, <3>2, <3>3, <3>4 DEF FormInv, PreviewFits, OfForm
  <2>2. CASE ~c.current
    <3>1. preview' = preview
      BY <2>2 DEF Form!RemoteDone, Form!Counts
    <3> QED BY <1>1, <3>1 DEF FormInv, PreviewFits, OfForm
  <2> QED BY <2>1, <2>2
<1> QED BY <1>1, <1>4, FormKeeps

LEMMA AnswerKeeps == ASSUME FormInv, Form!Answer PROVE FormInv'
<1>1. PICK c \in f_calls :
        /\ c.at # "asked" /\ UNCHANGED <<f_stored, f_jobs, f_spent>>
        /\ \/ c.at = "failed" /\ f_calls' = f_calls \ {c}
              /\ IF c.kind = "bucket" THEN Form!PreviewFailed ELSE Form!Abandoned
           \/ /\ c.at = "duplicate" /\ Form!Abandoned
              /\ \/ f_calls' = f_calls \ {c}
                 \/ f_calls' = (f_calls \ {c}) \cup {[c EXCEPT !.kind = "resume", !.at = "asked"]}
           \/ /\ c.at = "answered" /\ f_calls' = f_calls \ {c}
              /\ CASE c.kind = "list" -> Form!Loaded(c)
                   [] c.kind = "bucket" -> Form!RemoteDone(c)
                   [] c.kind = "scan" -> Form!Scanned \/ (~c.current /\ Form!Abandoned)
                   [] c.kind \in {"submit", "resume"} -> Form!Submitted(c)
  BY DEF Form!Answer, Form!service
<1>2. /\ told \subseteq 1..Len(f_jobs) /\ f_spent \in Counters /\ PreviewOK(preview) /\ FormOK(form)
      /\ \A d \in f_calls : RequestOK(d, Len(f_jobs))
      /\ f_spent' \in Counters /\ f_spent'.changes = f_spent.changes
  BY <1>1 DEF FormInv, ServiceOK
<1>3. CASE f_calls' = f_calls \ {c} /\ Form!Abandoned
  BY <1>1, <1>2, <1>3, FormKeeps DEF Form!Abandoned, FormInv, PreviewFits, OfForm
<1>4. CASE f_calls' = f_calls \ {c} /\ (Form!PreviewFailed \/ Form!Scanned)
  <2>1. PICK kind \in {"folder", "error"} : preview' = [preview EXCEPT !.label = [Form!Blank EXCEPT !.kind = kind]]
    BY <1>4 DEF Form!PreviewFailed, Form!Scanned
  <2>2. /\ PreviewOK(preview') /\ preview'.label.kind # "bucket"
        /\ preview'.timer = preview.timer /\ preview'.cancelled = preview.cancelled
    BY <2>1, LabelIs
  <2>3. UNCHANGED <<form, told>>
    BY <1>4 DEF Form!PreviewFailed, Form!Scanned
  <2>4. PreviewFits'
    BY <1>4, <2>2, <2>3 DEF FormInv, PreviewFits, OfForm
  <2> QED BY <1>1, <1>2, <1>4, <2>2, <2>3, <2>4, FormKeeps
<1>5. CASE c.at = "duplicate" /\ Form!Abandoned /\ f_calls' = (f_calls \ {c}) \cup {[c EXCEPT !.kind = "resume", !.at = "asked"]}
  <2>1. PICK d : d = [c EXCEPT !.kind = "resume", !.at = "asked"]
    OBVIOUS
  <2>2. RequestOK(c, Len(f_jobs))
    BY <1>2
  <2>3. d \in Requests /\ d.kind = "resume" /\ d.at = "asked" /\ d.job = c.job /\ c.job \in 1..Len(f_jobs)
    BY <1>5, <2>1, <2>2 DEF RequestOK, Requests
  <2>4. RequestOK(d, Len(f_jobs)) /\ ~OfBucket(d)
    BY <2>3 DEF RequestOK, OfBucket
  <2>5. \A e \in f_calls' : e \in f_calls \/ e = d
    BY <1>5, <2>1
  <2>6. PreviewFits' /\ UNCHANGED <<form, preview, told>>
    BY <1>5, <2>4, <2>5 DEF FormInv, PreviewFits, OfForm, Form!Abandoned
  <2> QED BY <1>1, <1>2, <2>4, <2>5, <2>6, FormKeeps
<1>6. CASE c.at = "answered" /\ f_calls' = f_calls \ {c} /\ c.kind = "list" /\ Form!Loaded(c)
  BY <1>1, <1>6, LoadedKeeps
<1>7. CASE c.at = "answered" /\ f_calls' = f_calls \ {c} /\ c.kind = "bucket" /\ Form!RemoteDone(c)
  BY <1>1, <1>7, RemoteDoneKeeps
<1>8. CASE c.at = "answered" /\ f_calls' = f_calls \ {c} /\ c.kind \in {"submit", "resume"} /\ Form!Submitted(c)
  <2>1. c.job \in 1..Len(f_jobs)
    BY <1>2, <1>8 DEF RequestOK
  <2>2. told' \subseteq 1..Len(f_jobs) /\ UNCHANGED preview
    BY <1>2, <1>8, <2>1 DEF Form!Submitted, Form!Announce
  <2>3. /\ form' \in Forms /\ form'.list = form.list /\ form'.chosen = form.chosen
        /\ form'.direction = form.direction /\ form'.prefix = form.prefix
    BY <1>2, <1>8 DEF FormOK, Forms, Form!Submitted
  <2>4. FormOK(form')
    BY <1>2, <2>3 DEF FormOK
  <2>5. PreviewFits'
    BY <1>8, <2>2, <2>3 DEF FormInv, PreviewFits, OfForm
  <2> QED BY <1>1, <1>2, <1>8, <2>2, <2>4, <2>5, FormKeeps
<1>9. c.kind \in {"list", "scan", "bucket", "submit", "resume"}
  BY <1>2 DEF RequestOK, Requests
<1> QED BY <1>1, <1>3, <1>4, <1>5, <1>6, <1>7, <1>8, <1>9

---------------------------------------------------------------------------
(* The service, as it answers the form *)

\* The answer to a request is about what it was about.
LEMMA ReplyIs ==
  ASSUME NEW c, NEW n \in Nat, NEW m \in Nat, n <= m, RequestOK(c, n), c.at = "asked",
         NEW at1 \in {"answered", "failed", "duplicate"}, NEW job1 \in Nat, NEW list1 \in Lists,
         at1 = "duplicate" => c.kind = "submit",
         c.kind = "submit" /\ at1 # "failed" => job1 \in 1..m,
         c.kind = "resume" => job1 = c.job,
         NEW d, d = [c EXCEPT !.at = at1, !.job = job1, !.list = list1]
  PROVE  RequestOK(d, m) /\ (OfBucket(d) => OfBucket(c)) /\ d.over = c.over /\ d.prefix = c.prefix
<1>1. c \in Requests
  BY DEF RequestOK
<1>2. /\ d \in Requests /\ d.kind = c.kind /\ d.at = at1 /\ d.job = job1 /\ d.over = c.over /\ d.prefix = c.prefix
      /\ d.current = c.current
  BY <1>1 DEF Requests
<1> QED BY <1>2 DEF RequestOK, OfBucket

\* More jobs take nothing from what is known of those there were.
LEMMA MoreJobs == ASSUME NEW c, NEW n \in Nat, NEW m \in Nat, n <= m, RequestOK(c, n) PROVE RequestOK(c, m)
BY DEF RequestOK

\* A request that is answered, over as many jobs or more.
LEMMA ServedIs ==
  ASSUME FormInv, NEW c \in f_calls, NEW d, f_calls' = (f_calls \ {c}) \cup {d},
         RequestOK(d, Len(f_jobs')), OfBucket(d) => OfBucket(c), d.over = c.over, d.prefix = c.prefix,
         ServiceOK', Len(f_jobs) <= Len(f_jobs'), UNCHANGED <<form, preview, told>>
  PROVE  FormInv'
<1>1. /\ FormOK(form) /\ PreviewOK(preview) /\ told \subseteq 1..Len(f_jobs) /\ PreviewFits
      /\ \A e \in f_calls : RequestOK(e, Len(f_jobs))
      /\ Len(f_jobs) \in Nat /\ Len(f_jobs') \in Nat
  <2>1. f_jobs \in Seq(Jobs) /\ f_jobs' \in Seq(Jobs)
    BY DEF FormInv, ServiceOK
  <2> HIDE DEF Jobs
  <2> QED BY <2>1 DEF FormInv
<1>2. \A e \in f_calls' : e = d \/ e \in f_calls
  OBVIOUS
<1>3. \A e \in f_calls' : RequestOK(e, Len(f_jobs'))
  BY <1>1, <1>2, MoreJobs
<1>4. PreviewFits'
  BY <1>1, <1>2 DEF PreviewFits, OfForm
<1>5. told' \subseteq 1..Len(f_jobs')
  BY <1>1
<1> QED BY <1>1, <1>3, <1>4, <1>5 DEF FormInv

LEMMA SameJobs ==
  ASSUME FormInv, UNCHANGED <<f_stored, f_jobs>>, f_spent' \in Counters, f_spent'.changes = f_spent.changes
  PROVE  ServiceOK' /\ Len(f_jobs) \in Nat /\ Len(f_jobs') = Len(f_jobs)
<1>1. f_jobs \in Seq(Jobs) /\ ServiceOK
  BY DEF FormInv, ServiceOK
<1>2. Len(f_jobs) \in Nat /\ Len(f_jobs') = Len(f_jobs)
  <2> HIDE DEF Jobs
  <2> QED BY <1>1
<1>3. ServiceOK'
  BY <1>1 DEF ServiceOK
<1> QED BY <1>2, <1>3

\* What fails leaves the service as it is, and so does a preview that succeeds.
LEMMA RepliedKeeps ==
  ASSUME FormInv, NEW c \in f_calls, c.at = "asked", NEW at1 \in {"answered", "failed"}, Form!Reply(c, at1),
         at1 = "failed" \/ c.kind = "bucket",
         UNCHANGED <<f_stored, f_jobs, form, preview, told>>, f_spent' \in Counters, f_spent'.changes = f_spent.changes
  PROVE  FormInv'
<1>1. RequestOK(c, Len(f_jobs)) /\ c \in Requests
  BY DEF FormInv, RequestOK
<1>2. PICK d : d = [c EXCEPT !.at = at1]
  OBVIOUS
<1>3. /\ d \in Requests /\ d.kind = c.kind /\ d.at = at1 /\ d.job = c.job /\ d.over = c.over /\ d.prefix = c.prefix
      /\ d.current = c.current
  BY <1>1, <1>2 DEF Requests
<1>4. RequestOK(d, Len(f_jobs)) /\ (OfBucket(d) => OfBucket(c))
  BY <1>1, <1>3 DEF RequestOK, OfBucket
<1>5. f_calls' = (f_calls \ {c}) \cup {d}
  BY <1>2 DEF Form!Reply
<1>6. ServiceOK' /\ Len(f_jobs) \in Nat /\ Len(f_jobs') = Len(f_jobs)
  BY SameJobs
<1> QED BY <1>3, <1>4, <1>5, <1>6, ServedIs

LEMMA ListsKeeps ==
  ASSUME FormInv, NEW c \in f_calls, c.at = "asked", c.kind = "list", Form!Lists(c),
         UNCHANGED <<f_stored, form, preview, told, f_spent>>
  PROVE  FormInv'
<1>1. RequestOK(c, Len(f_jobs)) /\ c \in Requests /\ f_stored \in Lists /\ f_spent \in Counters
  BY DEF FormInv, RequestOK, ServiceOK
<1>2. PICK d : d = [c EXCEPT !.at = "answered", !.list = f_stored]
  OBVIOUS
<1>3. /\ d \in Requests /\ d.kind = "list" /\ d.at = "answered" /\ d.over = c.over /\ d.prefix = c.prefix
  BY <1>1, <1>2 DEF Requests
<1>4. RequestOK(d, Len(f_jobs)) /\ ~OfBucket(d)
  BY <1>1, <1>3 DEF RequestOK, OfBucket
<1>5. f_calls' = (f_calls \ {c}) \cup {d} /\ UNCHANGED f_jobs
  BY <1>2 DEF Form!Lists
<1>6. ServiceOK' /\ Len(f_jobs) \in Nat /\ Len(f_jobs') = Len(f_jobs)
  BY <1>1, <1>5, SameJobs
<1> QED BY <1>3, <1>4, <1>5, <1>6, ServedIs

LEMMA SubmitsKeeps ==
  ASSUME FormInv, NEW c \in f_calls, c.at = "asked", c.kind = "submit", Form!Submits(c),
         UNCHANGED <<f_stored, form, preview, told, f_spent>>
  PROVE  FormInv'
<1>1. RequestOK(c, Len(f_jobs)) /\ c \in Requests /\ f_stored \in Seq(Connections) /\ f_spent \in Counters
      /\ f_jobs \in Seq(Jobs) /\ Len(f_jobs) \in Nat /\ ServiceOK
  <2>1. f_jobs \in Seq(Jobs)
    BY DEF FormInv, ServiceOK
  <2>2. Len(f_jobs) \in Nat
    <3> HIDE DEF Jobs
    <3> QED BY <2>1
  <2> QED BY <2>1, <2>2 DEF FormInv, RequestOK, ServiceOK, Lists
<1>2. CASE c.over \notin Form!Range(f_stored)
  <2>1. Form!Reply(c, "failed") /\ UNCHANGED f_jobs
    BY <1>2 DEF Form!Submits
  <2> QED BY <1>1, <2>1, RepliedKeeps
<1>3. CASE c.over \in Form!Range(f_stored) /\ Form!Same(c) # {}
  <2>1. PICK i : i \in Form!Same(c) /\ i = CHOOSE j \in Form!Same(c) : TRUE
    BY <1>3
  <2>2. i \in 1..Len(f_jobs) /\ i \in Nat
    BY <1>1, <2>1 DEF Form!Same
  <2>3. PICK d : d = [c EXCEPT !.at = "duplicate", !.job = i]
    OBVIOUS
  <2>4. f_calls' = (f_calls \ {c}) \cup {d} /\ UNCHANGED f_jobs
    BY <1>3, <2>1, <2>3 DEF Form!Submits
  <2>5. /\ d \in Requests /\ d.kind = "submit" /\ d.at = "duplicate" /\ d.job = i /\ d.over = c.over /\ d.prefix = c.prefix
    BY <1>1, <2>2, <2>3 DEF Requests
  <2>6. RequestOK(d, Len(f_jobs)) /\ ~OfBucket(d)
    BY <1>1, <2>2, <2>5 DEF RequestOK, OfBucket
  <2>7. ServiceOK' /\ Len(f_jobs) \in Nat /\ Len(f_jobs') = Len(f_jobs)
    BY <1>1, <2>4, SameJobs
  <2> QED BY <2>4, <2>5, <2>6, <2>7, ServedIs
<1>4. CASE c.over \in Form!Range(f_stored) /\ Form!Same(c) = {}
  <2>1. PICK job : job = [over |-> c.over, prefix |-> c.prefix, status |-> "pending"]
    OBVIOUS
  <2>2. c.over \in Connections /\ c.prefix \in Form!PrefixValues
    <3>1. Form!Range(f_stored) \subseteq Connections
      BY <1>1 DEF Form!Range
    <3> QED BY <1>1, <1>4, <3>1 DEF Requests
  <2>3. job \in Jobs /\ job.over = c.over /\ job.prefix = c.prefix
    BY <2>1, <2>2 DEF Jobs
  <2>4. f_jobs' = Append(f_jobs, job)
    BY <1>4, <2>1 DEF Form!Submits
  <2>5. /\ f_jobs' \in Seq(Jobs) /\ Len(f_jobs') = Len(f_jobs) + 1 /\ f_jobs'[Len(f_jobs) + 1] = job
        /\ \A i \in 1..Len(f_jobs) : f_jobs'[i] = f_jobs[i]
    <3> HIDE DEF Jobs
    <3> QED BY <1>1, <2>3, <2>4
  <2>6. \A i \in 1..Len(f_jobs) : ~(f_jobs[i].over = c.over /\ f_jobs[i].prefix = c.prefix)
    BY <1>1, <1>4 DEF Form!Same
  <2>7. \A i, j \in 1..Len(f_jobs') : f_jobs'[i].over = f_jobs'[j].over /\ f_jobs'[i].prefix = f_jobs'[j].prefix => i = j
    <3>1. \A i \in 1..Len(f_jobs') : i \in 1..Len(f_jobs) \/ i = Len(f_jobs) + 1
      BY <1>1, <2>5
    <3> QED BY <1>1, <2>3, <2>5, <2>6, <3>1 DEF ServiceOK
  <2>8. ServiceOK'
    BY <1>1, <2>5, <2>7 DEF ServiceOK
  <2>9. PICK n : n = Len(f_jobs) + 1 /\ n \in Nat /\ n = Len(f_jobs') /\ n \in 1..n
    BY <1>1, <2>5
  <2>10. PICK d : d = [c EXCEPT !.at = "answered", !.job = n]
    OBVIOUS
  <2>11. f_calls' = (f_calls \ {c}) \cup {d}
    BY <1>4, <2>9, <2>10 DEF Form!Submits
  <2>12. /\ d \in Requests /\ d.kind = "submit" /\ d.at = "answered" /\ d.job = n /\ d.over = c.over /\ d.prefix = c.prefix
    BY <1>1, <2>9, <2>10 DEF Requests
  <2>13. RequestOK(d, n) /\ ~OfBucket(d)
    BY <2>9, <2>12 DEF RequestOK, OfBucket
  <2>14. Len(f_jobs) <= Len(f_jobs') /\ RequestOK(d, Len(f_jobs'))
    BY <1>1, <2>5, <2>9, <2>13
  <2> QED BY <2>8, <2>11, <2>12, <2>13, <2>14, ServedIs
<1> QED BY <1>2, <1>3, <1>4

\* A job that is paused or resumed is of what it was.
LEMMA StatusKeeps ==
  ASSUME ServiceOK, NEW i \in 1..Len(f_jobs), NEW status \in {"pending", "paused"},
         f_jobs' = [f_jobs EXCEPT ![i].status = status], UNCHANGED f_stored,
         f_spent' \in Counters, f_spent'.changes <= MaxChanges, f_spent.changes <= f_spent'.changes
  PROVE  ServiceOK' /\ Len(f_jobs') = Len(f_jobs)
<1>1. f_jobs \in Seq(Jobs)
  BY DEF ServiceOK
<1>2. PICK n : n = Len(f_jobs) /\ n \in Nat /\ f_jobs \in [1..n -> Jobs]
  <2> HIDE DEF Jobs
  <2> QED BY <1>1
<1>3. PICK r : r = [f_jobs[i] EXCEPT !.status = status]
  OBVIOUS
<1>4. f_jobs[i] \in Jobs
  BY <1>2
<1>5. r \in Jobs /\ r.over = f_jobs[i].over /\ r.prefix = f_jobs[i].prefix
  BY <1>3, <1>4 DEF Jobs
<1>6. f_jobs' = [f_jobs EXCEPT ![i] = r]
  BY <1>3
<1>7. f_jobs' \in [1..n -> Jobs] /\ f_jobs'[i] = r /\ (\A j \in 1..n : j # i => f_jobs'[j] = f_jobs[j])
  <2> HIDE DEF Jobs
  <2> QED BY <1>2, <1>5, <1>6
<1>8. f_jobs' \in Seq(Jobs) /\ Len(f_jobs') = n
  <2> HIDE DEF Jobs
  <2>1. f_jobs' \in Seq(Jobs)
    BY <1>2, <1>7
  <2>2. DOMAIN f_jobs' = 1..n /\ DOMAIN f_jobs' = 1..Len(f_jobs') /\ Len(f_jobs') \in Nat
    BY <1>7, <2>1
  <2> QED BY <1>2, <2>1, <2>2
<1>9. \A j \in 1..n : f_jobs'[j].over = f_jobs[j].over /\ f_jobs'[j].prefix = f_jobs[j].prefix
  BY <1>5, <1>7
<1>10. \A j, k \in 1..Len(f_jobs') : f_jobs'[j].over = f_jobs'[k].over /\ f_jobs'[j].prefix = f_jobs'[k].prefix => j = k
  BY <1>2, <1>8, <1>9 DEF ServiceOK
<1>11. Len(f_stored) \in Nat /\ Len(f_stored) <= 2 + f_spent'.changes
  <2>1. f_stored \in Seq(Connections) /\ Len(f_stored) <= 2 + f_spent.changes /\ f_spent.changes \in Nat /\ f_spent'.changes \in Nat
    BY DEF ServiceOK, Lists, Counters
  <2> QED BY <2>1
<1> QED BY <1>2, <1>8, <1>10, <1>11 DEF ServiceOK

LEMMA ResumesKeeps ==
  ASSUME FormInv, NEW c \in f_calls, c.at = "asked", c.kind = "resume", Form!Resumes(c),
         UNCHANGED <<f_stored, form, preview, told, f_spent>>
  PROVE  FormInv'
<1>1. RequestOK(c, Len(f_jobs)) /\ c \in Requests /\ f_spent \in Counters
      /\ f_jobs \in [1..Len(f_jobs) -> Jobs] /\ f_jobs \in Seq(Jobs) /\ Len(f_jobs) \in Nat /\ ServiceOK
  <2>1. f_jobs \in Seq(Jobs)
    BY DEF FormInv, ServiceOK
  <2>2. Len(f_jobs) \in Nat /\ f_jobs \in [1..Len(f_jobs) -> Jobs]
    <3> HIDE DEF Jobs
    <3> QED BY <2>1
  <2> QED BY <2>1, <2>2 DEF FormInv, RequestOK, ServiceOK
<1>2. c.job \in 1..Len(f_jobs)
  BY <1>1 DEF RequestOK
<1>3. CASE Form!Reply(c, "failed") /\ UNCHANGED f_jobs
  BY <1>1, <1>3, RepliedKeeps
<1>4. CASE f_jobs' = [f_jobs EXCEPT ![c.job].status = "pending"] /\ Form!Reply(c, "answered")
  <2>1. ServiceOK' /\ Len(f_jobs') = Len(f_jobs)
    <3>1. /\ ServiceOK /\ f_spent' \in Counters /\ f_spent'.changes <= MaxChanges /\ f_spent.changes <= f_spent'.changes
      BY <1>1 DEF ServiceOK, Counters
    <3> HIDE DEF ServiceOK
    <3> QED BY <1>2, <1>4, <3>1, StatusKeeps
  <2>2. PICK d : d = [c EXCEPT !.at = "answered"]
    OBVIOUS
  <2>3. /\ d \in Requests /\ d.kind = "resume" /\ d.at = "answered" /\ d.job = c.job /\ d.over = c.over /\ d.prefix = c.prefix
    BY <1>1, <2>2 DEF Requests
  <2>4. RequestOK(d, Len(f_jobs')) /\ ~OfBucket(d)
    BY <1>1, <2>1, <2>3 DEF RequestOK, OfBucket
  <2>5. f_calls' = (f_calls \ {c}) \cup {d}
    BY <1>4, <2>2 DEF Form!Reply
  <2> QED BY <1>1, <2>1, <2>3, <2>4, <2>5, ServedIs
<1> QED BY <1>3, <1>4 DEF Form!Resumes

LEMMA ServeKeeps == ASSUME FormInv, Form!Serve PROVE FormInv'
<1>1. PICK c \in f_calls :
        /\ c.at = "asked"
        /\ \/ /\ CASE c.kind = "list" -> Form!Lists(c) [] c.kind = "bucket" -> Form!Previews(c)
                   [] c.kind = "submit" -> Form!Submits(c) [] c.kind = "resume" -> Form!Resumes(c)
              /\ UNCHANGED f_spent
           \/ /\ f_spent' = [f_spent EXCEPT !.failures = @ + 1]
              /\ Form!Reply(c, "failed") /\ UNCHANGED f_jobs
  BY DEF Form!Serve
<1>2. UNCHANGED <<f_stored, form, preview, told>>
  BY DEF Form!Serve
<1>3. f_spent \in Counters /\ RequestOK(c, Len(f_jobs))
  BY DEF FormInv, ServiceOK
<1>4. c.kind \in {"list", "bucket", "submit", "resume"}
  BY <1>1, <1>3 DEF RequestOK, Requests
<1>5. CASE f_spent' = [f_spent EXCEPT !.failures = @ + 1] /\ Form!Reply(c, "failed") /\ UNCHANGED f_jobs
  <2>1. f_spent' \in Counters /\ f_spent'.changes = f_spent.changes
    BY <1>3, <1>5 DEF Counters
  <2> QED BY <1>1, <1>2, <1>5, <2>1, RepliedKeeps
<1>6. CASE c.kind = "list" /\ Form!Lists(c) /\ UNCHANGED f_spent
  BY <1>1, <1>2, <1>6, ListsKeeps
<1>7. CASE c.kind = "bucket" /\ Form!Previews(c) /\ UNCHANGED f_spent
  <2>1. PICK at1 \in {"answered", "failed"} : Form!Reply(c, at1) /\ UNCHANGED f_jobs
    BY <1>7 DEF Form!Previews
  <2> QED BY <1>1, <1>2, <1>3, <1>7, <2>1, RepliedKeeps
<1>8. CASE c.kind = "submit" /\ Form!Submits(c) /\ UNCHANGED f_spent
  BY <1>1, <1>2, <1>8, SubmitsKeeps
<1>9. CASE c.kind = "resume" /\ Form!Resumes(c) /\ UNCHANGED f_spent
  BY <1>1, <1>2, <1>9, ResumesKeeps
<1> QED BY <1>1, <1>4, <1>5, <1>6, <1>7, <1>8, <1>9

\* Another client stores a connection.
LEMMA StoredKeeps ==
  ASSUME FormInv, NEW s, f_stored' = s, s \in Lists, Form!IsInjective(s), Len(s) <= Len(f_stored) + 1,
         f_spent' = [f_spent EXCEPT !.changes = @ + 1], f_spent.changes < MaxChanges, UNCHANGED f_jobs
  PROVE  ServiceOK'
<1>1. ServiceOK /\ f_stored \in Seq(Connections) /\ s \in Seq(Connections) /\ MaxChanges \in Nat
  BY ConnectingAssumption DEF FormInv, ServiceOK, Lists
<1>2. f_spent' \in Counters /\ f_spent'.changes = f_spent.changes + 1 /\ f_spent.changes \in Nat
  BY <1>1 DEF ServiceOK, Counters
<1>3. Len(s) <= 2 + f_spent'.changes /\ f_spent'.changes <= MaxChanges
  <2>1. Len(f_stored) \in Nat /\ Len(s) \in Nat /\ Len(f_stored) <= 2 + f_spent.changes
    BY <1>1 DEF ServiceOK
  <2> QED BY <1>1, <1>2, <2>1
<1> QED BY <1>1, <1>2, <1>3 DEF ServiceOK, Form!IsInjective

LEMMA ChangeKeeps == ASSUME FormInv, Form!Change PROVE FormInv'
<1>1. /\ f_spent.changes < MaxChanges /\ f_spent' = [f_spent EXCEPT !.changes = @ + 1]
      /\ UNCHANGED <<form, preview, f_calls, told>>
  BY DEF Form!Change
<1>2. /\ ServiceOK /\ f_stored \in Seq(Connections) /\ Form!IsInjective(f_stored) /\ f_spent \in Counters
      /\ \A c \in f_calls : RequestOK(c, Len(f_jobs)) /\ PreviewFits
  BY DEF FormInv, ServiceOK, Lists
<1>3. f_spent' \in Counters /\ f_spent'.changes = f_spent.changes + 1 /\ f_spent.changes \in Nat /\ MaxChanges \in Nat
  <2>1. MaxChanges \in Nat
    BY ConnectingAssumption
  <2>2. f_spent \in Counters /\ f_spent' = [f_spent EXCEPT !.changes = @ + 1]
    BY <1>1, <1>2
  <2> QED BY <2>1, <2>2 DEF Counters
<1>4. ServiceOK' /\ Len(f_jobs') = Len(f_jobs)
  <2>1. ASSUME NEW c \in Connections \ Form!Range(f_stored), f_stored' = Append(f_stored, c), UNCHANGED f_jobs
        PROVE  ServiceOK'
    <3>1. PICK s : s = Append(f_stored, c)
      OBVIOUS
    <3>2. /\ s \in Seq(Connections) /\ Len(s) = Len(f_stored) + 1 /\ s[Len(f_stored) + 1] = c /\ Len(f_stored) \in Nat
          /\ \A i \in 1..Len(f_stored) : s[i] = f_stored[i] /\ f_stored[i] \in Form!Range(f_stored)
          /\ DOMAIN s = 1..Len(s) /\ DOMAIN f_stored = 1..Len(f_stored)
      BY <1>2, <2>1, <3>1 DEF Form!Range
    <3>3. \A i \in 1..Len(s) : i \in 1..Len(f_stored) \/ i = Len(f_stored) + 1
      BY <3>2
    <3>4. \A i \in 1..Len(f_stored) : s[i] # c
      BY <2>1, <3>2
    <3>5. Form!IsInjective(s)
      BY <1>2, <3>2, <3>3, <3>4 DEF Form!IsInjective
    <3>6. Len(s) <= Len(f_stored) + 1
      BY <3>2
    <3> QED BY <1>1, <2>1, <3>1, <3>2, <3>5, <3>6, StoredKeeps DEF Lists
  <2>2. ASSUME NEW i \in DOMAIN f_stored, f_stored' = Form!RemoveAt(f_stored, i), UNCHANGED f_jobs
        PROVE  ServiceOK'
    <3>1. PICK s : s = Form!RemoveAt(f_stored, i)
      OBVIOUS
    <3>2. s = SubSeq(f_stored, 1, i - 1) \o SubSeq(f_stored, i + 1, Len(f_stored))
      BY <3>1 DEF Form!RemoveAt
    <3>3. PICK n \in Nat : n = Len(f_stored) /\ i \in 1..n /\ DOMAIN f_stored = 1..n
      BY <1>2, <2>2
    <3>4. /\ SubSeq(f_stored, 1, i - 1) \in Seq(Connections) /\ Len(SubSeq(f_stored, 1, i - 1)) = i - 1
          /\ \A j \in 1..(i - 1) : SubSeq(f_stored, 1, i - 1)[j] = f_stored[j]
      BY <1>2, <3>3
    <3>5. /\ SubSeq(f_stored, i + 1, n) \in Seq(Connections) /\ Len(SubSeq(f_stored, i + 1, n)) = n - i
          /\ \A j \in 1..(n - i) : SubSeq(f_stored, i + 1, n)[j] = f_stored[j + i]
      BY <1>2, <3>3
    <3>6. /\ s \in Seq(Connections) /\ Len(s) = n - 1
          /\ \A j \in 1..(n - 1) : s[j] = f_stored[IF j < i THEN j ELSE j + 1]
      <4>1. PICK s1 \in Seq(Connections) : /\ s1 = SubSeq(f_stored, 1, i - 1) /\ Len(s1) = i - 1
                                           /\ \A j \in 1..(i - 1) : s1[j] = f_stored[j]
        BY <3>4
      <4>2. PICK s2 \in Seq(Connections) : /\ s2 = SubSeq(f_stored, i + 1, n) /\ Len(s2) = n - i
                                           /\ \A j \in 1..(n - i) : s2[j] = f_stored[j + i]
        BY <3>5
      <4>3. s = s1 \o s2
        BY <3>2, <3>3, <4>1, <4>2
      <4>4. /\ s \in Seq(Connections) /\ Len(s) = n - 1
            /\ \A j \in 1..(n - 1) : s[j] = IF j <= i - 1 THEN s1[j] ELSE s2[j - (i - 1)]
        <5>1. /\ s1 \o s2 \in Seq(Connections) /\ Len(s1 \o s2) = Len(s1) + Len(s2)
              /\ \A j \in 1..(Len(s1) + Len(s2)) : (s1 \o s2)[j] = IF j <= Len(s1) THEN s1[j] ELSE s2[j - Len(s1)]
          BY ConcatProperties
        <5>2. Len(s1) = i - 1 /\ Len(s1) + Len(s2) = n - 1
          BY <3>3, <4>1, <4>2
        <5> QED BY <4>3, <5>1, <5>2
      <4>5. ASSUME NEW j \in 1..(n - 1) PROVE s[j] = f_stored[IF j < i THEN j ELSE j + 1]
        <5>1. CASE j < i
          BY <3>3, <4>1, <4>4, <5>1
        <5>2. CASE ~(j < i)
          <6>1. j - (i - 1) \in 1..(n - i) /\ (j - (i - 1)) + i = j + 1 /\ ~(j <= i - 1)
            BY <3>3, <5>2
          <6>2. s2[j - (i - 1)] = f_stored[j + 1]
            BY <4>2, <6>1
          <6> QED BY <4>4, <5>2, <6>1, <6>2
        <5> QED BY <5>1, <5>2
      <4> QED BY <4>4, <4>5
    <3>7. DOMAIN s = 1..(n - 1)
      BY <3>3, <3>6
    <3>8. Form!IsInjective(s)
      <4> SUFFICES ASSUME NEW j \in 1..(n - 1), NEW k \in 1..(n - 1), s[j] = s[k] PROVE j = k
        BY <3>7 DEF Form!IsInjective
      <4>1. PICK j1 : j1 = (IF j < i THEN j ELSE j + 1) /\ j1 \in 1..n
        BY <3>3
      <4>2. PICK k1 : k1 = (IF k < i THEN k ELSE k + 1) /\ k1 \in 1..n
        BY <3>3
      <4>3. f_stored[j1] = f_stored[k1]
        BY <3>6, <4>1, <4>2
      <4>4. j1 = k1
        BY <1>2, <3>3, <4>1, <4>2, <4>3 DEF Form!IsInjective
      <4> QED BY <3>3, <4>1, <4>2, <4>4
    <3>9. Len(s) <= Len(f_stored) + 1
      BY <3>3, <3>6
    <3> QED BY <1>1, <2>2, <3>1, <3>6, <3>8, <3>9, StoredKeeps DEF Lists
  <2>3. ASSUME NEW i \in DOMAIN f_jobs, f_jobs' = [f_jobs EXCEPT ![i].status = "paused"], UNCHANGED f_stored
        PROVE  ServiceOK' /\ Len(f_jobs') = Len(f_jobs)
    <3>1. i \in 1..Len(f_jobs)
      <4>1. f_jobs \in Seq(Jobs)
        BY <1>2 DEF ServiceOK
      <4> HIDE DEF Jobs
      <4> QED BY <4>1
    <3>2. f_spent'.changes <= MaxChanges /\ f_spent.changes <= f_spent'.changes
      BY <1>1, <1>3
    <3> QED BY <1>2, <1>3, <2>3, <3>1, <3>2, StatusKeeps
  <2> QED BY <2>1, <2>2, <2>3 DEF Form!Change
<1>5. Len(f_jobs) \in Nat
  <2>1. f_jobs \in Seq(Jobs)
    BY <1>2 DEF ServiceOK
  <2> HIDE DEF Jobs
  <2> QED BY <2>1
<1>6. \A c \in f_calls' : RequestOK(c, Len(f_jobs'))
  BY <1>1, <1>2, <1>4
<1>7. PreviewFits'
  BY <1>1 DEF FormInv, PreviewFits, OfForm
<1> QED BY <1>1, <1>4, <1>6, <1>7 DEF FormInv

LEMMA FormInit == Form!Init => FormInv
<1> SUFFICES ASSUME Form!Init PROVE FormInv
  OBVIOUS
<1>1. PICK n \in 0..2 : f_stored \in {s \in [1..n -> Connections] : Form!IsInjective(s)}
  BY DEF Form!Init
<1>2. f_stored \in Seq(Connections) /\ Len(f_stored) = n /\ Form!IsInjective(f_stored)
  BY <1>1
<1>3. f_jobs = <<>> /\ told = {} /\ f_spent = [gestures |-> 0, changes |-> 0, failures |-> 0]
      /\ f_calls = {Form!List}
      /\ form = [open |-> TRUE, direction |-> "upload", source |-> FALSE, prefix |-> "none",
                 list |-> <<>>, chosen |-> NoConnection, picked |-> FALSE]
      /\ preview = [label |-> Form!Blank, timer |-> FALSE, cancelled |-> FALSE]
  BY DEF Form!Init
<1>4. f_spent \in Counters /\ f_spent.changes = 0 /\ MaxChanges \in Nat
  BY <1>3, ConnectingAssumption DEF Counters
<1>5. f_jobs \in Seq(Jobs) /\ Len(f_jobs) = 0
  <2> HIDE DEF Jobs
  <2> QED BY <1>3
<1>6. ServiceOK
  BY <1>2, <1>4, <1>5 DEF ServiceOK, Lists
<1>7. FormOK(form)
  <2>1. <<>> \in Lists
    BY DEF Lists
  <2> QED BY <1>3, <2>1 DEF FormOK, Forms, Chosen, Form!PrefixValues
<1>8. PreviewOK(preview) /\ preview.label.kind = "blank"
  BY <1>3 DEF PreviewOK, Previews, Form!Blank, Form!Labels, Form!PrefixValues
<1>9. \A c \in f_calls : RequestOK(c, Len(f_jobs)) /\ ~OfBucket(c)
  BY <1>3, <1>7, ListIs
<1>10. PreviewFits
  BY <1>8, <1>9 DEF PreviewFits
<1> QED BY <1>3, <1>6, <1>7, <1>8, <1>9, <1>10 DEF FormInv

\* What the form relies on always holds of it.
LEMMA FormInvHolds == Form!Spec => []FormInv
<1>1. ASSUME FormInv, Form!Next PROVE FormInv'
  BY <1>1, InputsKeep, RefreshKeeps, RestartPreviewKeeps, SubmitAndCancelKeep, AnswerKeeps, ServeKeeps,
     ChangeKeeps
     DEF Form!Next, Form!User
<1>2. ASSUME FormInv, UNCHANGED Form!vars PROVE FormInv'
  BY <1>2 DEF Form!vars, FormInv, ServiceOK, PreviewFits, OfForm
<1> QED BY <1>1, <1>2, FormInit, PTL DEF Form!Spec

LEMMA FormShows == ASSUME FormInv PROVE Form!PreviewIsOfTheForm /\ Form!TypeOK
<1>1. Form!PreviewIsOfTheForm
  BY DEF FormInv, PreviewFits, OfForm, Form!PreviewIsOfTheForm
<1>2. f_stored \in Form!BoundedSeq(Connections, MaxChanges + 2)
  <2>1. f_stored \in Seq(Connections) /\ Len(f_stored) <= 2 + f_spent.changes /\ f_spent.changes <= MaxChanges
        /\ f_spent.changes \in Nat /\ MaxChanges \in Nat
    BY ConnectingAssumption DEF FormInv, ServiceOK, Lists, Counters
  <2>2. Len(f_stored) \in 0..(MaxChanges + 2) /\ f_stored \in [1..Len(f_stored) -> Connections]
    BY <2>1
  <2> QED BY <2>2 DEF Form!BoundedSeq, Form!SeqOf
<1>3. \A i, j \in DOMAIN f_jobs : f_jobs[i].over = f_jobs[j].over /\ f_jobs[i].prefix = f_jobs[j].prefix => i = j
  <2>1. f_jobs \in Seq(Jobs)
    BY DEF FormInv, ServiceOK
  <2>2. DOMAIN f_jobs = 1..Len(f_jobs)
    <3> HIDE DEF Jobs
    <3> QED BY <2>1
  <2> QED BY <2>2 DEF FormInv, ServiceOK
<1>4. told \subseteq DOMAIN f_jobs
  <2>1. f_jobs \in Seq(Jobs) /\ told \subseteq 1..Len(f_jobs)
    BY DEF FormInv, ServiceOK
  <2> HIDE DEF Jobs
  <2> QED BY <2>1
<1> QED BY <1>1, <1>2, <1>3, <1>4 DEF FormInv, ServiceOK, FormOK, PreviewOK, Previews, Form!TypeOK

---------------------------------------------------------------------------
(* The dialogs of the connections *)

Steppers == [page : {"closed", "where", "credential", "signin", "validating", "verified", "failed"},
             name : Cards \cup {NoName}, healthy : BOOLEAN, login : Nat]
ProbeLists == [passed : 0..5, ticking : BOOLEAN]
CardStates == [listed : BOOLEAN, region : {"none", "confirm", "refusal"}, checking : BOOLEAN]
DialogCalls == [kind : {"health", "login", "create", "list", "check", "delete"},
                at : {"asked", "answered", "failed", "taken", "used"}, name : Cards \cup {NoName},
                login : Nat, live : BOOLEAN, rows : SUBSET Cards]

\* The page's name is chosen in its first step.
StepperOK(s) == s \in Steppers /\ (s.page \notin {"closed", "where"} => s.name \in Cards)
\* The last probe passes with the service's answer, and then the timer is stopped.
ProbesOK(p, page) == p \in ProbeLists /\ (p.passed = 5 => ~p.ticking /\ page \in {"verified", "closed"})
\* What a card says, it says of a connection that is listed, and of one with jobs.
CardsOK(cs, u) ==
  /\ cs \in [Cards -> CardStates]
  /\ \A n \in Cards : cs[n].region # "none" \/ cs[n].checking => cs[n].listed
  /\ \A n \in Cards : cs[n].region = "refusal" => n \in u
\* A request that still has its card finds it listed; none is of a generation to come.
CallOK(c, cs, u, login) ==
  /\ c \in DialogCalls
  /\ c.kind \in {"check", "delete"} => c.name \in Cards /\ (c.live => cs[c.name].listed)
  /\ c.kind = "create" => c.name \in Cards
  /\ c.kind \in {"login", "create"} => c.live = TRUE /\ c.login <= login
  /\ c.at = "used" => c.kind = "delete" /\ c.name \in u

\* A page that waits has what it waits for under way, once; no other page has it.
Pending(cs, kind, login) == {c \in cs : c.kind = kind /\ c.login = login}
Awaited(cs, page, login) ==
  /\ page = "signin" => \E c \in cs : Pending(cs, "login", login) = {c}
  /\ page = "validating" => \E c \in cs : Pending(cs, "create", login) = {c}
  /\ page # "signin" => Pending(cs, "login", login) = {}
  /\ page # "validating" => Pending(cs, "create", login) = {}

DialogInv ==
  /\ stored \subseteq Cards /\ used \subseteq stored
  /\ StepperOK(stepper) /\ ProbesOK(probes, stepper.page) /\ CardsOK(cards, used)
  /\ \A c \in calls : CallOK(c, cards, used, stepper.login)
  /\ Awaited(calls, stepper.page, stepper.login)

\* The requests that the pages wait for, of any generation.
Sent(cs) == {c \in cs : c.kind \in {"login", "create"}}

LEMMA AwaitedKept ==
  ASSUME NEW cs, NEW ds, NEW page, NEW q, NEW login, Awaited(cs, page, login), Sent(ds) = Sent(cs),
         q = page \/ {page, q} \cap {"signin", "validating"} = {}
  PROVE  Awaited(ds, q, login)
<1>1. \A k \in {"login", "create"} : Pending(ds, k, login) = Pending(cs, k, login)
  BY DEF Pending, Sent
<1>2. \A k \in {"login", "create"} : \A c : Pending(ds, k, login) = {c} => c \in ds
  BY DEF Pending
<1> QED BY <1>1, <1>2 DEF Awaited

LEMMA CallKept ==
  ASSUME NEW c, NEW cs, NEW ds, NEW u, NEW v, NEW login \in Nat, NEW m \in Nat, CallOK(c, cs, u, login),
         u \subseteq v, login <= m, \A n \in Cards : cs[n].listed => ds[n].listed
  PROVE  CallOK(c, ds, v, m)
<1>1. c.login \in Nat
  BY DEF CallOK, DialogCalls
<1> QED BY <1>1 DEF CallOK

LEMMA DialogCallIs ==
  ASSUME StepperOK(stepper), NEW kind \in {"health", "login", "create", "list", "check", "delete"},
         NEW c, c = Dialogs!Call(kind)
  PROVE  /\ c \in DialogCalls /\ c.kind = kind /\ c.at = "asked" /\ c.name = NoName
         /\ c.login = stepper.login /\ c.live = TRUE
BY DEF StepperOK, Steppers, DialogCalls, Dialogs!Call

\* A request that is about neither a card nor a page.
LEMMA ListsIs ==
  ASSUME StepperOK(stepper)
  PROVE  \A cs, u, login : CallOK(Dialogs!Lists, cs, u, login) /\ Dialogs!Lists.kind = "list"
<1>1. PICK c : c = Dialogs!Call("list")
  OBVIOUS
<1>2. c \in DialogCalls /\ c.kind = "list" /\ c.at = "asked"
  BY <1>1, DialogCallIs
<1>3. PICK d : d = [c EXCEPT !.login = 0] /\ d = Dialogs!Lists
  BY <1>1 DEF Dialogs!Lists
<1>4. d \in DialogCalls /\ d.kind = "list" /\ d.at = "asked"
  BY <1>2, <1>3 DEF DialogCalls
<1> QED BY <1>3, <1>4 DEF CallOK

LEMMA HealthIs ==
  ASSUME StepperOK(stepper)
  PROVE  \A cs, u, login : CallOK(Dialogs!Call("health"), cs, u, login) /\ Dialogs!Call("health").kind = "health"
<1>1. PICK c : c = Dialogs!Call("health")
  OBVIOUS
<1>2. c \in DialogCalls /\ c.kind = "health" /\ c.at = "asked"
  BY <1>1, DialogCallIs
<1> QED BY <1>1, <1>2 DEF CallOK

\* A step that sends no sign-in and no creation, and neither waits nor stops to.
LEMMA QuietKeeps ==
  ASSUME DialogInv, UNCHANGED <<stored, used>>, StepperOK(stepper'), ProbesOK(probes', stepper'.page),
         CardsOK(cards', used), \A n \in Cards : cards[n].listed => cards'[n].listed,
         stepper'.login = stepper.login, Sent(calls') = Sent(calls),
         \A c \in calls' : c \in calls \/ CallOK(c, cards', used, stepper.login),
         stepper'.page = stepper.page \/ {stepper.page, stepper'.page} \cap {"signin", "validating"} = {}
  PROVE  DialogInv'
<1>1. stepper.login \in Nat
  BY DEF DialogInv, StepperOK, Steppers
<1>2. \A c \in calls' : CallOK(c, cards', used, stepper.login)
  BY <1>1, CallKept DEF DialogInv
<1>3. Awaited(calls', stepper'.page, stepper.login)
  BY AwaitedKept DEF DialogInv
<1> QED BY <1>2, <1>3 DEF DialogInv

LEMMA OpenKeeps == ASSUME DialogInv, Dialogs!Open PROVE DialogInv'
<1>1. /\ UNCHANGED <<stored, used, cards>> /\ stepper.page = "closed" /\ calls' = calls \cup {Dialogs!Call("health")}
      /\ stepper' = [Dialogs!Closed EXCEPT !.page = "where", !.login = stepper.login] /\ probes' = Dialogs!NoProbes
  BY DEF Dialogs!Open, Dialogs!Gesture, Dialogs!Modal, Dialogs!Ask, Dialogs!service
<1>2. StepperOK(stepper) /\ CardsOK(cards, used)
  BY DEF DialogInv
<1>3. StepperOK(stepper') /\ stepper'.page = "where" /\ stepper'.login = stepper.login
  BY <1>1, <1>2 DEF StepperOK, Steppers, Dialogs!Closed
<1>4. ProbesOK(probes', stepper'.page)
  BY <1>1 DEF ProbesOK, ProbeLists, Dialogs!NoProbes
<1>5. Sent(calls') = Sent(calls)
  BY <1>1, <1>2, HealthIs DEF Sent
<1> QED BY <1>1, <1>2, <1>3, <1>4, <1>5, HealthIs, QuietKeeps

LEMMA PagesKeep == ASSUME DialogInv, Dialogs!Next1 \/ Dialogs!Back \/ Dialogs!TryAnother PROVE DialogInv'
<1>1. /\ UNCHANGED <<stored, used, cards, calls>>
  BY DEF Dialogs!Next1, Dialogs!Back, Dialogs!TryAnother, Dialogs!Gesture, Dialogs!service
<1>2. StepperOK(stepper) /\ CardsOK(cards, used) /\ ProbesOK(probes, stepper.page)
  BY DEF DialogInv
<1>3. CASE Dialogs!Next1
  <2>1. PICK n \in Cards : stepper' = [stepper EXCEPT !.page = "credential", !.name = n]
    BY <1>3 DEF Dialogs!Next1
  <2>2. stepper.page = "where" /\ UNCHANGED probes
    BY <1>3 DEF Dialogs!Next1
  <2>3. StepperOK(stepper') /\ stepper'.page = "credential" /\ stepper'.login = stepper.login
    BY <1>2, <2>1 DEF StepperOK, Steppers
  <2>4. ProbesOK(probes', stepper'.page)
    BY <1>2, <2>2 DEF ProbesOK
  <2> QED BY <1>1, <1>2, <2>2, <2>3, <2>4, QuietKeeps
<1>4. CASE Dialogs!Back
  <2>1. /\ stepper.page \in {"credential", "failed", "verified"} /\ stepper' = [stepper EXCEPT !.page = "where"]
        /\ probes' = IF stepper.page = "verified" THEN Dialogs!NoProbes ELSE probes
    BY <1>4 DEF Dialogs!Back, Dialogs!Turns
  <2>2. StepperOK(stepper') /\ stepper'.page = "where" /\ stepper'.login = stepper.login
    BY <1>2, <2>1 DEF StepperOK, Steppers
  <2>3. ProbesOK(probes', stepper'.page)
    BY <1>2, <2>1, <2>2 DEF ProbesOK, ProbeLists, Dialogs!NoProbes
  <2> QED BY <1>1, <1>2, <2>1, <2>2, <2>3, QuietKeeps
<1>5. CASE Dialogs!TryAnother
  <2>1. /\ stepper.page = "failed" /\ stepper' = [stepper EXCEPT !.page = "credential"] /\ UNCHANGED probes
    BY <1>5 DEF Dialogs!TryAnother, Dialogs!Turns
  <2>2. StepperOK(stepper') /\ stepper'.page = "credential" /\ stepper'.login = stepper.login
    BY <1>2, <2>1 DEF StepperOK, Steppers
  <2>3. ProbesOK(probes', stepper'.page)
    BY <1>2, <2>1 DEF ProbesOK
  <2> QED BY <1>1, <1>2, <2>1, <2>2, <2>3, QuietKeeps
<1> QED BY <1>3, <1>4, <1>5

LEMMA CheckAgainKeeps == ASSUME DialogInv, Dialogs!CheckAgain PROVE DialogInv'
<1>1. /\ UNCHANGED <<stored, used, stepper, probes, cards>> /\ calls' = calls \cup {Dialogs!Call("health")}
  BY DEF Dialogs!CheckAgain, Dialogs!Gesture, Dialogs!Ask, Dialogs!service
<1>2. StepperOK(stepper) /\ CardsOK(cards, used) /\ ProbesOK(probes, stepper.page)
  BY DEF DialogInv
<1>3. Sent(calls') = Sent(calls)
  BY <1>1, <1>2, HealthIs DEF Sent
<1> QED BY <1>1, <1>2, <1>3, HealthIs, QuietKeeps

\* _start_create: the page waits for the one creation of its generation.
LEMMA StartCreateIs ==
  ASSUME DialogInv, stepper.name \in Cards, Dialogs!StartCreate, NEW c, c = Dialogs!CreateCall,
         NEW cs \in SUBSET calls, Pending(cs, "login", stepper.login) = {}, Pending(cs, "create", stepper.login) = {},
         calls' = cs \cup {c}, UNCHANGED <<stored, used, cards>>
  PROVE  DialogInv'
<1>1. StepperOK(stepper) /\ stepper.login \in Nat /\ CardsOK(cards, used)
  BY DEF DialogInv, StepperOK, Steppers
<1>2. PICK d : d = Dialogs!Call("create")
  OBVIOUS
<1>3. d \in DialogCalls /\ d.kind = "create" /\ d.at = "asked" /\ d.login = stepper.login /\ d.live = TRUE
  BY <1>1, <1>2, DialogCallIs
<1>4. c = [d EXCEPT !.name = stepper.name]
  BY <1>2 DEF Dialogs!CreateCall
<1>5. /\ c \in DialogCalls /\ c.kind = "create" /\ c.at = "asked" /\ c.login = stepper.login /\ c.live = TRUE
      /\ c.name = stepper.name
  BY <1>3, <1>4 DEF DialogCalls
<1>6. CallOK(c, cards, used, stepper.login)
  BY <1>1, <1>5 DEF CallOK
<1>7. StepperOK(stepper') /\ stepper'.page = "validating" /\ stepper'.login = stepper.login
  BY <1>1 DEF StepperOK, Steppers, Dialogs!StartCreate, Dialogs!Turns
<1>8. ProbesOK(probes', stepper'.page)
  BY DEF ProbesOK, ProbeLists, Dialogs!StartCreate
<1>9. Pending(calls', "login", stepper.login) = {} /\ Pending(calls', "create", stepper.login) = {c}
  BY <1>5 DEF Pending
<1>10. Awaited(calls', "validating", stepper.login)
  BY <1>9 DEF Awaited
<1>11. \A e \in calls' : CallOK(e, cards, used, stepper.login)
  BY <1>6 DEF DialogInv
<1> QED BY <1>1, <1>7, <1>8, <1>10, <1>11 DEF DialogInv

LEMMA ChooseKeyKeeps == ASSUME DialogInv, Dialogs!ChooseKey PROVE DialogInv'
<1>1. /\ stepper.page = "credential" /\ Dialogs!StartCreate /\ UNCHANGED <<stored, used, cards>>
      /\ calls' = calls \cup {Dialogs!CreateCall}
  BY DEF Dialogs!ChooseKey, Dialogs!Gesture, Dialogs!service, Dialogs!Ask
<1>2. stepper.name \in Cards
  BY <1>1 DEF DialogInv, StepperOK
<1>3. Pending(calls, "login", stepper.login) = {} /\ Pending(calls, "create", stepper.login) = {}
  BY <1>1 DEF DialogInv, Awaited
<1> QED BY <1>1, <1>2, <1>3, StartCreateIs

LEMMA ChooseSigninKeeps == ASSUME DialogInv, Dialogs!ChooseSignin PROVE DialogInv'
<1>1. /\ stepper.page = "credential" /\ UNCHANGED <<stored, used, probes, cards>>
      /\ stepper' = [stepper EXCEPT !.page = "signin", !.login = @ + 1]
      /\ calls' = calls \cup {[Dialogs!Call("login") EXCEPT !.login = stepper'.login]}
  BY DEF Dialogs!ChooseSignin, Dialogs!Gesture, Dialogs!service, Dialogs!Ask
<1>2. StepperOK(stepper) /\ CardsOK(cards, used) /\ ProbesOK(probes, stepper.page)
      /\ \A e \in calls : CallOK(e, cards, used, stepper.login)
  BY DEF DialogInv
<1>3. PICK n \in Nat : n = stepper.login
  BY <1>2 DEF StepperOK, Steppers
<1>4. StepperOK(stepper') /\ stepper'.page = "signin" /\ stepper'.login = n + 1
  <2>1. stepper' = [stepper EXCEPT !.page = "signin", !.login = n + 1] /\ n + 1 \in Nat
    BY <1>1, <1>3
  <2>2. stepper \in Steppers /\ stepper.name \in Cards
    BY <1>1, <1>2 DEF StepperOK
  <2>3. stepper' \in Steppers /\ stepper'.page = "signin" /\ stepper'.login = n + 1 /\ stepper'.name = stepper.name
    BY <2>1, <2>2 DEF Steppers
  <2> QED BY <2>2, <2>3 DEF StepperOK
<1>5. PICK d : d = Dialogs!Call("login")
  OBVIOUS
<1>6. d \in DialogCalls /\ d.kind = "login" /\ d.at = "asked" /\ d.live = TRUE
  BY <1>2, <1>5, DialogCallIs
<1>7. PICK c : c = [d EXCEPT !.login = n + 1]
  OBVIOUS
<1>8. c \in DialogCalls /\ c.kind = "login" /\ c.at = "asked" /\ c.live = TRUE /\ c.login = n + 1
  BY <1>3, <1>6, <1>7 DEF DialogCalls
<1>9. calls' = calls \cup {c}
  BY <1>1, <1>4, <1>5, <1>7
<1>10. \A e \in calls' : CallOK(e, cards, used, n + 1)
  <2>1. CallOK(c, cards, used, n + 1)
    BY <1>8, <1>3 DEF CallOK
  <2>2. \A e \in calls : CallOK(e, cards, used, n + 1)
    BY <1>2, <1>3, CallKept
  <2> QED BY <1>9, <2>1, <2>2
<1>11. \A e \in calls : e.kind \in {"login", "create"} => e.login # n + 1
  BY <1>2, <1>3 DEF CallOK, DialogCalls
<1>12. Pending(calls', "login", n + 1) = {c} /\ Pending(calls', "create", n + 1) = {}
  BY <1>8, <1>9, <1>11 DEF Pending
<1>13. Awaited(calls', "signin", n + 1)
  BY <1>9, <1>12 DEF Awaited
<1>14. ProbesOK(probes', stepper'.page)
  BY <1>1, <1>2 DEF ProbesOK
<1> QED BY <1>1, <1>2, <1>4, <1>10, <1>13, <1>14 DEF DialogInv

LEMMA LeavingKeeps == ASSUME DialogInv, Dialogs!Close \/ Dialogs!Done PROVE DialogInv'
<1>1. /\ UNCHANGED <<stored, used, probes, cards>>
      /\ calls' = {c \in calls : c.kind # "health"} \cup {Dialogs!Lists}
  BY DEF Dialogs!Close, Dialogs!Done, Dialogs!Gesture, Dialogs!service, Dialogs!Left
<1>2. StepperOK(stepper) /\ CardsOK(cards, used) /\ ProbesOK(probes, stepper.page)
      /\ (\A e \in calls : CallOK(e, cards, used, stepper.login)) /\ Awaited(calls, stepper.page, stepper.login)
  BY DEF DialogInv
<1>3. PICK n \in Nat : n = stepper.login
  BY <1>2 DEF StepperOK, Steppers
<1>4. PICK m \in Nat : /\ stepper' = [Dialogs!Closed EXCEPT !.login = m]
                       /\ m = n + 1 \/ (m = n /\ stepper.page = "verified")
  BY <1>3 DEF Dialogs!Close, Dialogs!Done, Dialogs!NextGeneration
<1>5. StepperOK(stepper') /\ stepper'.page = "closed" /\ stepper'.login = m
  BY <1>4 DEF StepperOK, Steppers, Dialogs!Closed
<1>6. ProbesOK(probes', stepper'.page)
  BY <1>1, <1>2, <1>5 DEF ProbesOK
<1>7. \A e \in calls' : CallOK(e, cards, used, m)
  <2>1. n <= m
    BY <1>3, <1>4
  <2> QED BY <1>1, <1>2, <1>3, <2>1, CallKept, ListsIs
<1>8. \A e \in calls' : e.kind \in {"login", "create"} => e.login # m
  <2>1. \A e \in calls' : e.kind \in {"login", "create"} => e \in calls
    BY <1>1, <1>2, ListsIs
  <2>2. CASE m = n + 1
    <3>1. \A e \in calls : e.kind \in {"login", "create"} => e.login \in Nat /\ e.login <= n
      BY <1>2, <1>3 DEF CallOK, DialogCalls
    <3> QED BY <1>3, <2>1, <2>2, <3>1
  <2>3. CASE m = n /\ stepper.page = "verified"
    <3>1. Pending(calls, "login", m) = {} /\ Pending(calls, "create", m) = {}
      BY <1>2, <1>3, <2>3 DEF Awaited
    <3> QED BY <2>1, <3>1 DEF Pending
  <2> QED BY <1>4, <2>2, <2>3
<1>9. Awaited(calls', "closed", m)
  BY <1>8 DEF Awaited, Pending
<1> QED BY <1>1, <1>2, <1>5, <1>6, <1>7, <1>9 DEF DialogInv

LEMMA AdvanceKeeps == ASSUME DialogInv, Dialogs!Advance PROVE DialogInv'
<1>1. UNCHANGED <<stored, used, stepper, cards, calls>> /\ probes.ticking
      /\ probes' = [passed |-> IF probes.passed = 4 THEN 4 ELSE probes.passed + 1, ticking |-> probes.passed < 4]
  BY DEF Dialogs!Advance, Dialogs!Advanced, Dialogs!service
<1>2. StepperOK(stepper) /\ CardsOK(cards, used) /\ ProbesOK(probes, stepper.page)
  BY DEF DialogInv
<1>3. PICK p \in 0..4 : p = probes.passed
  BY <1>1, <1>2 DEF ProbesOK, ProbeLists
<1>4. PICK q \in 0..4, t \in BOOLEAN : probes' = [passed |-> q, ticking |-> t]
  <2>1. (IF p = 4 THEN 4 ELSE p + 1) \in 0..4 /\ (p < 4) \in BOOLEAN
    OBVIOUS
  <2> QED BY <1>1, <1>3, <2>1
<1>5. ProbesOK(probes', stepper'.page)
  BY <1>4 DEF ProbesOK, ProbeLists
<1> QED BY <1>1, <1>2, <1>5, QuietKeeps

\* A card that remains listed or not, refusing only because of jobs.
LEMMA CardIs ==
  ASSUME CardsOK(cards, used), NEW n \in Cards, NEW card \in CardStates, card.listed = cards[n].listed,
         card.region # "none" \/ card.checking => card.listed, card.region = "refusal" => n \in used,
         cards' = [cards EXCEPT ![n] = card]
  PROVE  CardsOK(cards', used) /\ \A m \in Cards : cards'[m].listed = cards[m].listed
<1>1. cards' \in [Cards -> CardStates] /\ cards'[n] = card /\ \A m \in Cards : m # n => cards'[m] = cards[m]
  BY DEF CardsOK
<1> QED BY <1>1 DEF CardsOK

LEMMA CardCallIs ==
  ASSUME StepperOK(stepper), NEW kind \in {"check", "delete"}, NEW n \in Cards, NEW c, c = Dialogs!CardCall(kind, n),
         NEW cs, cs[n].listed
  PROVE  c.kind = kind /\ \A u, login : CallOK(c, cs, u, login)
<1>1. PICK d : d = Dialogs!Call(kind)
  OBVIOUS
<1>2. d \in DialogCalls /\ d.kind = kind /\ d.at = "asked"
  BY <1>1, DialogCallIs
<1>3. c = [d EXCEPT !.name = n, !.login = 0]
  BY <1>1 DEF Dialogs!CardCall
<1>4. PICK m \in Nat, name \in Cards \cup {NoName} : m = 0 /\ name = n
  OBVIOUS
<1>5. c = [d EXCEPT !.name = name, !.login = m]
  BY <1>3, <1>4
<1>6. c \in DialogCalls /\ c.kind = d.kind /\ c.at = d.at /\ c.name = name
  BY <1>2, <1>5 DEF DialogCalls
<1> QED BY <1>2, <1>4, <1>6 DEF CallOK

\* A step about a card, that keeps those that are listed.
LEMMA CardStepKeeps ==
  ASSUME DialogInv, UNCHANGED <<stored, used, stepper, probes>>, CardsOK(cards', used),
         \A n \in Cards : cards[n].listed => cards'[n].listed,
         \A c \in calls' : c \in calls \/ (CallOK(c, cards', used, stepper.login) /\ c.kind \notin {"login", "create"}),
         \A c \in calls : c \in calls' \/ c.kind \notin {"login", "create"}
  PROVE  DialogInv'
<1>1. StepperOK(stepper) /\ ProbesOK(probes, stepper.page)
  BY DEF DialogInv
<1>2. Sent(calls') = Sent(calls)
  BY DEF Sent
<1> QED BY <1>1, <1>2, QuietKeeps

LEMMA CardGesturesKeep ==
  ASSUME DialogInv, Dialogs!CheckCard \/ Dialogs!Remove \/ Dialogs!Keep \/ Dialogs!Confirm
  PROVE  DialogInv'
<1>1. StepperOK(stepper) /\ CardsOK(cards, used)
  BY DEF DialogInv
<1>2. UNCHANGED <<stored, used, stepper, probes>>
  BY DEF Dialogs!CheckCard, Dialogs!Remove, Dialogs!Keep, Dialogs!Confirm, Dialogs!Gesture,
     Dialogs!service, Dialogs!Change
<1>3. \A n \in Cards : cards[n] \in CardStates
  BY <1>1 DEF CardsOK
<1>4. CASE Dialogs!CheckCard
  <2>1. PICK n \in Cards : /\ cards[n].listed /\ ~cards[n].checking /\ calls' = calls \cup {Dialogs!CardCall("check", n)}
                           /\ cards' = [cards EXCEPT ![n] = [cards[n] EXCEPT !.checking = TRUE]]
    BY <1>4 DEF Dialogs!CheckCard, Dialogs!Ask, Dialogs!Change
  <2>2. PICK card : card = [cards[n] EXCEPT !.checking = TRUE]
    OBVIOUS
  <2>3. cards' = [cards EXCEPT ![n] = card]
    BY <2>1, <2>2
  <2>4. card \in CardStates /\ card.listed = cards[n].listed /\ card.region = cards[n].region
    BY <1>3, <2>2 DEF CardStates
  <2>5. CardsOK(cards', used) /\ \A m \in Cards : cards'[m].listed = cards[m].listed
    <3>1. card.region = "refusal" => n \in used
      BY <1>1, <2>4 DEF CardsOK
    <3> QED BY <1>1, <2>1, <2>3, <2>4, <3>1, CardIs
  <2>6. PICK c : c = Dialogs!CardCall("check", n)
    OBVIOUS
  <2>7. c.kind = "check" /\ CallOK(c, cards', used, stepper.login)
    BY <1>1, <2>1, <2>5, <2>6, CardCallIs
  <2> QED BY <1>2, <2>1, <2>5, <2>6, <2>7, CardStepKeeps
<1>5. CASE Dialogs!Remove \/ Dialogs!Keep
  <2>1. PICK n \in Cards, region \in {"none", "confirm"} :
          /\ cards[n].listed \/ cards[n].region # "none"
          /\ cards' = [cards EXCEPT ![n] = [cards[n] EXCEPT !.region = region]] /\ UNCHANGED calls
    BY <1>5 DEF Dialogs!Remove, Dialogs!Keep, Dialogs!Change
  <2>2. PICK card : card = [cards[n] EXCEPT !.region = region]
    OBVIOUS
  <2>3. cards' = [cards EXCEPT ![n] = card]
    BY <2>1, <2>2
  <2>4. card \in CardStates /\ card.listed = cards[n].listed /\ card.region = region
    BY <1>3, <2>2 DEF CardStates
  <2>5. CardsOK(cards', used) /\ \A m \in Cards : cards'[m].listed = cards[m].listed
    <3>1. card.listed
      BY <1>1, <2>1, <2>4 DEF CardsOK
    <3> QED BY <1>1, <2>3, <2>4, <3>1, CardIs
  <2> QED BY <1>2, <2>1, <2>5, CardStepKeeps
<1>6. CASE Dialogs!Confirm
  <2>1. PICK n \in Cards : cards[n].region = "confirm" /\ calls' = calls \cup {Dialogs!CardCall("delete", n)} /\ UNCHANGED cards
    BY <1>6 DEF Dialogs!Confirm, Dialogs!Ask
  <2>2. cards[n].listed
    BY <1>1, <2>1 DEF CardsOK
  <2>3. PICK c : c = Dialogs!CardCall("delete", n)
    OBVIOUS
  <2>4. c.kind = "delete" /\ CallOK(c, cards, used, stepper.login)
    BY <1>1, <2>2, <2>3, CardCallIs
  <2> QED BY <1>1, <1>2, <2>1, <2>3, <2>4, CardStepKeeps
<1> QED BY <1>4, <1>5, <1>6

---------------------------------------------------------------------------
(* The dialogs, as answers reach them *)

\* The answer the stepper waited for: it waits no longer, for that generation or another.
LEMMA SettledKeeps ==
  ASSUME DialogInv, UNCHANGED <<stored, used, cards>>, NEW page \in {"credential", "where", "verified", "failed"},
         StepperOK(stepper), stepper.name \in Cards, stepper' = [stepper EXCEPT !.page = page], ProbesOK(probes', page),
         Pending(calls', "login", stepper.login) = {}, Pending(calls', "create", stepper.login) = {},
         \A c \in calls' : c \in calls \/ CallOK(c, cards, used, stepper.login)
  PROVE  DialogInv'
<1>1. StepperOK(stepper') /\ stepper'.page = page /\ stepper'.login = stepper.login
  BY DEF StepperOK, Steppers
<1>2. Awaited(calls', page, stepper.login)
  BY DEF Awaited
<1> QED BY <1>1, <1>2 DEF DialogInv

LEMMA LoginAnswerKeeps ==
  ASSUME DialogInv, NEW c \in calls, c.kind = "login", c.login = stepper.login, Dialogs!LoginDone(c),
         UNCHANGED <<stored, used>>
  PROVE  DialogInv'
<1>1. StepperOK(stepper) /\ ProbesOK(probes, stepper.page) /\ Awaited(calls, stepper.page, stepper.login)
  BY DEF DialogInv
<1>2. c \in Pending(calls, "login", stepper.login)
  BY DEF Pending
<1>3. stepper.page = "signin"
  BY <1>1, <1>2 DEF Awaited
<1>4. /\ Pending(calls, "login", stepper.login) = {c} /\ Pending(calls, "create", stepper.login) = {}
      /\ stepper.name \in Cards
  BY <1>1, <1>2, <1>3 DEF Awaited, StepperOK
<1>5. Pending(calls \ {c}, "login", stepper.login) = {} /\ Pending(calls \ {c}, "create", stepper.login) = {}
  BY <1>4 DEF Pending
<1>6. CASE c.at = "answered"
  <2>1. Dialogs!StartCreate /\ calls' = (calls \ {c}) \cup {Dialogs!CreateCall} /\ UNCHANGED cards
    BY <1>6 DEF Dialogs!LoginDone
  <2> QED BY <1>4, <1>5, <2>1, StartCreateIs
<1>7. CASE c.at # "answered"
  <2>1. stepper' = [stepper EXCEPT !.page = "credential"] /\ calls' = calls \ {c} /\ UNCHANGED <<probes, cards>>
    BY <1>7 DEF Dialogs!LoginDone, Dialogs!Turns
  <2>2. ProbesOK(probes', "credential")
    BY <1>1, <1>3, <2>1 DEF ProbesOK
  <2> QED BY <1>1, <1>4, <1>5, <2>1, <2>2, SettledKeeps
<1> QED BY <1>6, <1>7

LEMMA CreateAnswerKeeps ==
  ASSUME DialogInv, NEW c \in calls, c.kind = "create", c.at # "asked", c.login = stepper.login, Dialogs!CreateDone(c),
         UNCHANGED <<stored, used>>
  PROVE  DialogInv'
<1>1. StepperOK(stepper) /\ ProbesOK(probes, stepper.page) /\ Awaited(calls, stepper.page, stepper.login)
      /\ CallOK(c, cards, used, stepper.login)
  BY DEF DialogInv
<1>2. c \in Pending(calls, "create", stepper.login)
  BY DEF Pending
<1>3. stepper.page = "validating"
  BY <1>1, <1>2 DEF Awaited
<1>4. /\ Pending(calls, "create", stepper.login) = {c} /\ Pending(calls, "login", stepper.login) = {}
      /\ stepper.name \in Cards
  BY <1>1, <1>2, <1>3 DEF Awaited, StepperOK
<1>5. Pending(calls \ {c}, "login", stepper.login) = {} /\ Pending(calls \ {c}, "create", stepper.login) = {}
  BY <1>4 DEF Pending
<1>6. c.at \in {"answered", "taken", "failed"} /\ UNCHANGED cards
  BY <1>1 DEF CallOK, DialogCalls, Dialogs!CreateDone
<1>7. CASE c.at = "answered"
  <2>1. /\ stepper' = [stepper EXCEPT !.page = "verified"] /\ probes' = [passed |-> 5, ticking |-> FALSE]
        /\ calls' = (calls \ {c}) \cup {Dialogs!Lists}
    BY <1>7 DEF Dialogs!CreateDone, Dialogs!Turns
  <2>2. ProbesOK(probes', "verified")
    BY <2>1 DEF ProbesOK, ProbeLists
  <2>3. Pending(calls', "login", stepper.login) = {} /\ Pending(calls', "create", stepper.login) = {}
    BY <1>1, <1>5, <2>1, ListsIs DEF Pending
  <2> QED BY <1>1, <1>4, <1>6, <2>1, <2>2, <2>3, ListsIs, SettledKeeps
<1>8. CASE c.at \in {"taken", "failed"}
  <2>1. PICK page \in {"where", "failed"} :
          stepper' = [stepper EXCEPT !.page = page] /\ probes' = [probes EXCEPT !.ticking = FALSE] /\ calls' = calls \ {c}
    BY <1>8 DEF Dialogs!CreateDone, Dialogs!Turns
  <2>2. ProbesOK(probes', page)
    <3>1. PICK p \in 0..5 : p = probes.passed /\ p # 5
      BY <1>1, <1>3 DEF ProbesOK, ProbeLists
    <3>2. probes' \in ProbeLists /\ probes'.passed = p /\ ~probes'.ticking
      BY <1>1, <2>1, <3>1 DEF ProbesOK, ProbeLists
    <3> QED BY <3>1, <3>2 DEF ProbesOK
  <2> QED BY <1>1, <1>4, <1>5, <1>6, <2>1, <2>2, SettledKeeps
<1> QED BY <1>6, <1>7, <1>8
LEMMA NoCardIs ==
  /\ Dialogs!Card \in CardStates /\ Dialogs!Card.region = "none" /\ Dialogs!Card.checking = FALSE
  /\ Dialogs!NoCard \in CardStates /\ Dialogs!NoCard.region = "none" /\ Dialogs!NoCard.checking = FALSE
<1>1. PICK y : y = Dialogs!NoCard
  OBVIOUS
<1>2. y = [listed |-> FALSE, region |-> "none", checking |-> FALSE]
  BY <1>1 DEF Dialogs!NoCard
<1>3. y \in CardStates /\ y.region = "none" /\ y.checking = FALSE
  BY <1>2 DEF CardStates
<1>4. PICK x : x = [y EXCEPT !.listed = TRUE]
  OBVIOUS
<1>5. x \in CardStates /\ x.region = "none" /\ x.checking = FALSE
  BY <1>3, <1>4 DEF CardStates
<1>6. x = Dialogs!Card
  BY <1>1, <1>4 DEF Dialogs!Card
<1> QED BY <1>1, <1>3, <1>5, <1>6

LEMMA LoadedAnswerKeeps ==
  ASSUME DialogInv, NEW c \in calls, c.kind = "list", Dialogs!Loaded(c), UNCHANGED <<stored, used>>
  PROVE  DialogInv'
<1>1. StepperOK(stepper) /\ ProbesOK(probes, stepper.page) /\ CardsOK(cards, used) /\ c \in DialogCalls
      /\ Awaited(calls, stepper.page, stepper.login) /\ UNCHANGED <<stepper, probes>>
      /\ (\A e \in calls : CallOK(e, cards, used, stepper.login))
  BY DEF DialogInv, CallOK, Dialogs!Loaded
<1>2. CASE c.at # "answered"
  <2>1. UNCHANGED cards /\ calls' = calls \ {c}
    BY <1>2 DEF Dialogs!Loaded
  <2> QED BY <1>1, <2>1, CardStepKeeps
<1>3. CASE c.at = "answered"
  <2>1. /\ cards' = [n \in Cards |-> IF n \in c.rows THEN Dialogs!Card ELSE Dialogs!NoCard]
        /\ calls' = {[d EXCEPT !.live = d.kind \notin {"check", "delete"}] : d \in calls \ {c}}
    BY <1>3 DEF Dialogs!Loaded
  <2>2. CardsOK(cards', used)
    <3>1. PICK x, y : x = Dialogs!Card /\ y = Dialogs!NoCard
      OBVIOUS
    <3>4. /\ x \in CardStates /\ x.region = "none" /\ x.checking = FALSE
          /\ y \in CardStates /\ y.region = "none" /\ y.checking = FALSE
      BY <3>1, NoCardIs
    <3>2. \A n \in Cards : cards'[n] \in {x, y}
      BY <2>1, <3>1
    <3>3. cards' \in [Cards -> CardStates]
      BY <2>1, <3>1, <3>4
    <3> QED BY <3>2, <3>3, <3>4 DEF CardsOK
  \* What is about a card loses it, and the others are as they were.
  <2>3. ASSUME NEW e \in calls \ {c}, NEW f, f = [e EXCEPT !.live = e.kind \notin {"check", "delete"}]
        PROVE  CallOK(f, cards', used, stepper.login) /\ f.kind = e.kind /\ (e.kind \in {"login", "create"} => f = e)
    <3>1. e \in DialogCalls /\ CallOK(e, cards, used, stepper.login)
      BY <1>1 DEF CallOK
    <3>2. PICK b \in BOOLEAN : b = (e.kind \notin {"check", "delete"}) /\ f = [e EXCEPT !.live = b]
      BY <2>3
    <3>3. /\ f \in DialogCalls /\ f.kind = e.kind /\ f.at = e.at /\ f.name = e.name /\ f.login = e.login /\ f.live = b
      BY <3>1, <3>2 DEF DialogCalls
    <3>4. CASE e.kind \in {"login", "create"}
      <4>1. e.live = TRUE /\ b = TRUE
        BY <3>1, <3>2, <3>4 DEF CallOK
      <4>2. f = e
        BY <3>1, <3>2, <4>1 DEF DialogCalls
      <4> QED BY <3>1, <3>4, <4>2 DEF CallOK
    <3>5. CASE e.kind \notin {"login", "create"}
      <4>1. b = FALSE \/ e.kind \notin {"check", "delete"}
        BY <3>2
      <4>2. (e.kind \in {"check", "delete"} => e.name \in Cards) /\ (e.at = "used" => e.kind = "delete" /\ e.name \in used)
        BY <3>1 DEF CallOK
      <4> QED BY <3>3, <3>5, <4>1, <4>2 DEF CallOK
    <3> QED BY <3>3, <3>4, <3>5
  <2>4. \A f \in calls' : CallOK(f, cards', used, stepper.login) /\ (f.kind \in {"login", "create"} => f \in calls)
    BY <2>1, <2>3
  <2>5. \A e \in calls : e.kind \in {"login", "create"} => e \in calls'
    <3> SUFFICES ASSUME NEW e \in calls, e.kind \in {"login", "create"} PROVE e \in calls'
      OBVIOUS
    <3>1. PICK f : f = [e EXCEPT !.live = e.kind \notin {"check", "delete"}]
      OBVIOUS
    <3>2. e \in calls \ {c}
      OBVIOUS
    <3>3. f = e
      BY <2>3, <3>1, <3>2
    <3>4. f \in calls'
      BY <2>1, <3>1, <3>2
    <3> QED BY <3>3, <3>4
  <2>6. Sent(calls') = Sent(calls)
    BY <2>4, <2>5 DEF Sent
  <2>7. Awaited(calls', stepper.page, stepper.login)
    BY <1>1, <2>6, AwaitedKept
  <2> QED BY <1>1, <2>2, <2>4, <2>7 DEF DialogInv
<1> QED BY <1>2, <1>3

LEMMA CardAnswersKeep ==
  ASSUME DialogInv, NEW c \in calls, UNCHANGED <<stored, used>>,
         (c.kind = "check" /\ Dialogs!CheckDone(c)) \/ (c.kind = "delete" /\ Dialogs!DeleteDone(c))
  PROVE  DialogInv'
<1>1. StepperOK(stepper) /\ CardsOK(cards, used) /\ CallOK(c, cards, used, stepper.login) /\ c.name \in Cards
  BY DEF DialogInv, CallOK
<1>2. UNCHANGED <<stepper, probes>> /\ cards[c.name] \in CardStates
  BY <1>1 DEF Dialogs!CheckDone, Dialogs!DeleteDone, Dialogs!Change, CardsOK
<1>3. calls' = calls \ {c} \/ calls' = (calls \ {c}) \cup {Dialogs!Lists}
  BY DEF Dialogs!CheckDone, Dialogs!DeleteDone
<1>4. CardsOK(cards', used) /\ \A n \in Cards : cards[n].listed => cards'[n].listed
  <2>1. CASE UNCHANGED cards
    BY <1>1, <2>1
  <2>2. CASE c.live /\ cards' = [cards EXCEPT ![c.name] = [cards[c.name] EXCEPT !.checking = FALSE]]
    <3>1. PICK card : card = [cards[c.name] EXCEPT !.checking = FALSE]
      OBVIOUS
    <3>2. /\ card \in CardStates /\ card.listed = cards[c.name].listed /\ card.region = cards[c.name].region
      BY <1>2, <3>1 DEF CardStates
    <3>3. card.region = "refusal" => c.name \in used
      BY <1>1, <3>2 DEF CardsOK
    <3>4. card.listed
      BY <1>1, <2>2, <3>2 DEF CallOK
    <3> QED BY <1>1, <2>2, <3>1, <3>2, <3>3, <3>4, CardIs
  <2>3. CASE c.live /\ c.at = "used" /\ cards' = [cards EXCEPT ![c.name] = [cards[c.name] EXCEPT !.region = "refusal"]]
    <3>1. PICK card : card = [cards[c.name] EXCEPT !.region = "refusal"]
      OBVIOUS
    <3>2. card \in CardStates /\ card.listed = cards[c.name].listed
      BY <1>2, <3>1 DEF CardStates
    <3>3. c.name \in used
      BY <1>1, <2>3 DEF CallOK
    <3>4. card.listed
      BY <1>1, <2>3, <3>2 DEF CallOK
    <3> QED BY <1>1, <2>3, <3>1, <3>2, <3>3, <3>4, CardIs
  <2>4. CASE c.live /\ cards' = [cards EXCEPT ![c.name] = [cards[c.name] EXCEPT !.region = "none", !.checking = FALSE]]
    <3>1. PICK card : card = [cards[c.name] EXCEPT !.region = "none", !.checking = FALSE]
      OBVIOUS
    <3>2. card \in CardStates /\ card.listed = cards[c.name].listed /\ card.region = "none"
      BY <1>2, <3>1 DEF CardStates
    <3>3. card.listed
      BY <1>1, <2>4, <3>2 DEF CallOK
    <3> QED BY <1>1, <2>4, <3>1, <3>2, <3>3, CardIs
  <2> QED BY <2>1, <2>2, <2>3, <2>4 DEF Dialogs!CheckDone, Dialogs!DeleteDone, Dialogs!Change,
             Dialogs!Refused
<1> QED BY <1>1, <1>2, <1>3, <1>4, ListsIs, CardStepKeeps

LEMMA AnswersKeep == ASSUME DialogInv, Dialogs!Answer PROVE DialogInv'
<1>1. PICK c \in calls :
        /\ c.at # "asked" /\ UNCHANGED <<stored, used>>
        /\ CASE c.kind = "health" -> Dialogs!HealthDone(c)
             [] c.kind = "login" -> IF Dialogs!Counts(c) THEN Dialogs!LoginDone(c) ELSE Dialogs!Discarded(c)
             [] c.kind = "create" -> IF Dialogs!Counts(c) THEN Dialogs!CreateDone(c) ELSE Dialogs!Discarded(c)
             [] c.kind = "list" -> Dialogs!Loaded(c)
             [] c.kind = "check" -> Dialogs!CheckDone(c)
             [] c.kind = "delete" -> Dialogs!DeleteDone(c)
  BY DEF Dialogs!Answer, Dialogs!service
<1>2. /\ StepperOK(stepper) /\ ProbesOK(probes, stepper.page) /\ CardsOK(cards, used)
      /\ Awaited(calls, stepper.page, stepper.login) /\ CallOK(c, cards, used, stepper.login)
  BY DEF DialogInv
<1>3. c.kind \in {"health", "login", "create", "list", "check", "delete"}
  BY <1>2 DEF CallOK, DialogCalls
<1>4. CASE c.kind = "health"
  <2>1. stepper' = [stepper EXCEPT !.healthy = c.at = "answered"] /\ calls' = calls \ {c} /\ UNCHANGED <<probes, cards>>
    BY <1>1, <1>4 DEF Dialogs!HealthDone
  <2>2. PICK b \in BOOLEAN : b = (c.at = "answered") /\ stepper' = [stepper EXCEPT !.healthy = b]
    BY <2>1
  <2>3. StepperOK(stepper') /\ stepper'.page = stepper.page /\ stepper'.login = stepper.login
    BY <1>2, <2>2 DEF StepperOK, Steppers
  <2>4. Sent(calls') = Sent(calls)
    BY <1>4, <2>1 DEF Sent
  <2> QED BY <1>1, <1>2, <2>1, <2>3, <2>4, QuietKeeps
<1>5. CASE c.kind \in {"login", "create"} /\ ~Dialogs!Counts(c)
  <2>1. calls' = calls \ {c} /\ UNCHANGED <<stepper, probes, cards>>
    BY <1>1, <1>5 DEF Dialogs!Discarded
  <2>2. \A k : Pending(calls', k, stepper.login) = Pending(calls, k, stepper.login)
    BY <1>5, <2>1 DEF Pending, Dialogs!Counts
  <2>3. \A k, e : Pending(calls, k, stepper.login) = {e} => e \in calls'
    BY <2>2 DEF Pending
  <2>4. Awaited(calls', stepper.page, stepper.login)
    BY <1>2, <2>2, <2>3 DEF Awaited
  <2> QED BY <1>1, <2>1, <2>4 DEF DialogInv
<1>6. CASE c.kind = "login" /\ Dialogs!Counts(c)
  BY <1>1, <1>6, LoginAnswerKeeps DEF Dialogs!Counts
<1>7. CASE c.kind = "create" /\ Dialogs!Counts(c)
  BY <1>1, <1>7, CreateAnswerKeeps DEF Dialogs!Counts
<1>8. CASE c.kind = "list"
  BY <1>1, <1>8, LoadedAnswerKeeps
<1>9. CASE c.kind \in {"check", "delete"}
  BY <1>1, <1>9, CardAnswersKeep
<1> QED BY <1>3, <1>4, <1>5, <1>6, <1>7, <1>8, <1>9

---------------------------------------------------------------------------
(* The service, as it answers the dialogs *)

\* The service answers: of what the page waits for there is still one.
LEMMA DialogReplyKeeps ==
  ASSUME DialogInv, NEW c \in calls, NEW reply \in {"answered", "failed", "taken", "used"}, Dialogs!Reply(c, reply),
         reply = "used" => c.kind = "delete" /\ c.name \in used,
         UNCHANGED <<used, stepper, probes, cards>>, stored' \subseteq Cards, used \subseteq stored'
  PROVE  DialogInv'
<1>1. /\ StepperOK(stepper) /\ ProbesOK(probes, stepper.page) /\ CardsOK(cards, used)
      /\ Awaited(calls, stepper.page, stepper.login) /\ CallOK(c, cards, used, stepper.login) /\ stored \in SUBSET Cards
  BY DEF DialogInv
<1>2. PICK d : d = [c EXCEPT !.at = reply, !.rows = stored]
  OBVIOUS
<1>3. /\ d \in DialogCalls /\ d.kind = c.kind /\ d.at = reply /\ d.name = c.name /\ d.login = c.login /\ d.live = c.live
  BY <1>1, <1>2 DEF CallOK, DialogCalls
<1>4. CallOK(d, cards, used, stepper.login)
  BY <1>1, <1>3 DEF CallOK
<1>5. calls' = (calls \ {c}) \cup {d}
  BY <1>2 DEF Dialogs!Reply
<1>6. \A k : IF c.kind = k /\ c.login = stepper.login
           THEN Pending(calls', k, stepper.login) = (Pending(calls, k, stepper.login) \ {c}) \cup {d}
           ELSE Pending(calls', k, stepper.login) = Pending(calls, k, stepper.login)
  BY <1>3, <1>5 DEF Pending
<1>7. \A k : c.kind = k /\ c.login = stepper.login => c \in Pending(calls, k, stepper.login)
  BY DEF Pending
<1>8. \A k : Pending(calls, k, stepper.login) = {} => Pending(calls', k, stepper.login) = {}
  BY <1>6, <1>7
<1>9. ASSUME NEW k, NEW e, Pending(calls, k, stepper.login) = {e}
      PROVE  \E f \in calls' : Pending(calls', k, stepper.login) = {f}
  <2>1. CASE c.kind = k /\ c.login = stepper.login
    <3>1. Pending(calls', k, stepper.login) = {d}
      BY <1>6, <1>7, <1>9, <2>1
    <3> QED BY <1>5, <3>1
  <2>2. CASE ~(c.kind = k /\ c.login = stepper.login)
    <3>1. Pending(calls', k, stepper.login) = {e}
      BY <1>6, <1>9, <2>2
    <3> QED BY <3>1 DEF Pending
  <2> QED BY <2>1, <2>2
<1>10. Awaited(calls', stepper.page, stepper.login)
  BY <1>1, <1>8, <1>9 DEF Awaited
<1>11. \A e \in calls' : CallOK(e, cards, used, stepper.login)
  BY <1>4, <1>5 DEF DialogInv
<1> QED BY <1>1, <1>10, <1>11 DEF DialogInv

LEMMA DialogServeKeeps == ASSUME DialogInv, Dialogs!Serve PROVE DialogInv'
<1>1. PICK c \in calls :
        \/ CASE c.kind = "create" -> Dialogs!Creates(c)
             [] c.kind = "delete" -> Dialogs!Deletes(c)
             [] c.kind = "check" ->
                  Dialogs!Reply(c, IF c.name \in stored THEN "answered" ELSE "failed") /\ UNCHANGED stored
             [] c.kind \in {"health", "login", "list"} -> Dialogs!Reply(c, "answered") /\ UNCHANGED stored
        \/ Dialogs!Reply(c, "failed") /\ UNCHANGED stored
  BY DEF Dialogs!Serve
<1>2. UNCHANGED <<used, stepper, probes, cards>>
  BY DEF Dialogs!Serve
<1>3. stored \subseteq Cards /\ used \subseteq stored /\ CallOK(c, cards, used, stepper.login)
  BY DEF DialogInv
<1>4. c.kind \in {"health", "login", "create", "list", "check", "delete"} /\ (c.kind = "create" => c.name \in Cards)
  BY <1>3 DEF CallOK, DialogCalls
<1>5. PICK reply \in {"answered", "failed", "taken", "used"} :
        /\ Dialogs!Reply(c, reply) /\ (reply = "used" => c.kind = "delete" /\ c.name \in used)
        /\ \/ UNCHANGED stored
           \/ c.kind = "create" /\ stored' = stored \cup {c.name}
           \/ c.name \in stored \ used /\ stored' = stored \ {c.name}
  BY <1>1, <1>4 DEF Dialogs!Creates, Dialogs!Deletes
<1>6. stored' \subseteq Cards /\ used \subseteq stored'
  BY <1>3, <1>4, <1>5
<1> QED BY <1>2, <1>5, <1>6, DialogReplyKeeps

LEMMA ElsewhereKeeps == ASSUME DialogInv, Dialogs!Elsewhere PROVE DialogInv'
<1>1. /\ UNCHANGED <<stepper, probes, cards, calls>>
      /\ \E n \in Cards : \/ n \in stored \ used /\ stored' = stored \ {n} /\ UNCHANGED used
                          \/ n \notin stored /\ stored' = stored \cup {n} /\ UNCHANGED used
                          \/ n \in stored \ used /\ used' = used \cup {n} /\ UNCHANGED stored
  BY DEF Dialogs!Elsewhere
<1>2. used \subseteq used' /\ used' \subseteq stored' /\ stored' \subseteq Cards
  BY <1>1 DEF DialogInv
<1>3. stepper.login \in Nat
  BY DEF DialogInv, StepperOK, Steppers
<1>4. \A c \in calls : CallOK(c, cards, used', stepper.login)
  BY <1>2, <1>3, CallKept DEF DialogInv
<1>5. CardsOK(cards, used')
  BY <1>2 DEF DialogInv, CardsOK
<1> QED BY <1>1, <1>2, <1>4, <1>5 DEF DialogInv

LEMMA DialogInit == Dialogs!Init => DialogInv
<1> SUFFICES ASSUME Dialogs!Init PROVE DialogInv
  OBVIOUS
<1>1. /\ stored \subseteq Cards /\ used \subseteq stored /\ stepper = Dialogs!Closed /\ probes = Dialogs!NoProbes
      /\ cards = [n \in Cards |-> Dialogs!NoCard] /\ calls = {Dialogs!Lists}
  BY DEF Dialogs!Init, Dialogs!Lists
<1>2. StepperOK(stepper) /\ stepper.page = "closed"
  BY <1>1 DEF StepperOK, Steppers, Dialogs!Closed
<1>3. ProbesOK(probes, "closed")
  BY <1>1 DEF ProbesOK, ProbeLists, Dialogs!NoProbes
<1>4. CardsOK(cards, used)
  <2>1. PICK y : y = Dialogs!NoCard
    OBVIOUS
  <2>2. y \in CardStates /\ y.region = "none" /\ y.checking = FALSE
    BY <2>1, NoCardIs
  <2>3. cards \in [Cards -> CardStates] /\ \A n \in Cards : cards[n] = y
    BY <1>1, <2>1, <2>2
  <2> QED BY <2>2, <2>3 DEF CardsOK
<1>5. \A c \in calls : CallOK(c, cards, used, stepper.login) /\ c.kind = "list"
  BY <1>1, <1>2, ListsIs
<1>6. Awaited(calls, "closed", stepper.login)
  BY <1>5 DEF Awaited, Pending
<1> QED BY <1>1, <1>2, <1>3, <1>4, <1>5, <1>6 DEF DialogInv

LEMMA DialogStep == ASSUME DialogInv, [Dialogs!Next]_(Dialogs!vars) PROVE DialogInv'
<1>1. CASE Dialogs!Next
  BY <1>1, OpenKeeps, PagesKeep, CheckAgainKeeps, ChooseKeyKeeps, ChooseSigninKeeps, LeavingKeeps,
     CardGesturesKeep,
     AdvanceKeeps, AnswersKeep, DialogServeKeeps, ElsewhereKeeps DEF Dialogs!Next, Dialogs!User
<1>2. CASE UNCHANGED Dialogs!vars
  BY <1>2 DEF Dialogs!vars, DialogInv
<1> QED BY <1>1, <1>2

\* What the dialogs rely on always holds of them.
LEMMA DialogInvHolds == Dialogs!Spec => []DialogInv
BY DialogInit, DialogStep, PTL DEF Dialogs!Spec

LEMMA DialogsShow == ASSUME DialogInv PROVE Dialogs!ProbesWait /\ Dialogs!RefusalIsTrue /\ Dialogs!TypeOK
<1>1. Dialogs!ProbesWait /\ Dialogs!RefusalIsTrue
  BY DEF DialogInv, ProbesOK, CardsOK, Dialogs!ProbesWait, Dialogs!RefusalIsTrue
<1>2. StepperOK(stepper) /\ ProbesOK(probes, stepper.page) /\ CardsOK(cards, used) /\ Awaited(calls, stepper.page, stepper.login)
      /\ stored \subseteq Cards /\ used \subseteq stored
  BY DEF DialogInv
<1>3. \A k : Dialogs!InFlight(k) = Pending(calls, k, stepper.login)
  BY DEF Dialogs!InFlight, Pending
<1>4. stepper.page \in Dialogs!Waiting => Dialogs!Cardinality(Dialogs!InFlight(Dialogs!Expected(stepper.page))) = 1
  <2> SUFFICES ASSUME stepper.page \in {"signin", "validating"}
               PROVE  Dialogs!Cardinality(Dialogs!InFlight(Dialogs!Expected(stepper.page))) = 1
    BY DEF Dialogs!Waiting
  <2>1. PICK e : Dialogs!InFlight(Dialogs!Expected(stepper.page)) = {e}
    BY <1>2, <1>3 DEF Dialogs!Expected, Awaited
  <2>2. Dialogs!Cardinality({e}) = Cardinality({e})
    BY DEF Dialogs!Cardinality, Cardinality
  <2> QED BY <2>1, <2>2, FS_Singleton
<1>5. stepper.page \notin Dialogs!Waiting => Dialogs!InFlight("login") \cup Dialogs!InFlight("create") = {}
  BY <1>2, <1>3 DEF Dialogs!Waiting, Awaited
<1>6. stepper.page \in Dialogs!Waiting \cup {"closed", "where", "credential", "verified", "failed"}
  BY <1>2 DEF StepperOK, Steppers, Dialogs!Waiting
<1>7. probes.passed \in 0..5 /\ probes.ticking \in BOOLEAN
  BY <1>2 DEF ProbesOK, ProbeLists
<1>8. \A n \in Cards : cards[n].region # "none" \/ cards[n].checking => cards[n].listed
  BY <1>2 DEF CardsOK
<1> QED BY <1>1, <1>2, <1>4, <1>5, <1>6, <1>7, <1>8 DEF Dialogs!TypeOK

\* What is sent is sent from the page of the credential, or with a sign-in that counts.
LEMMA CreationIsSent ==
  ASSUME DialogInv, [Dialogs!Next]_(Dialogs!vars), NEW c \in calls' \ calls, c.kind = "create", c.at = "asked"
  PROVE  stepper.page \in {"credential", "signin"}
<1>1. StepperOK(stepper) /\ Awaited(calls, stepper.page, stepper.login) /\ \A e \in calls : CallOK(e, cards, used, stepper.login)
  BY DEF DialogInv
<1>2. c # Dialogs!Lists /\ c # Dialogs!Call("health")
  BY <1>1, ListsIs, HealthIs
<1>3. \A n : c # Dialogs!CardCall("check", n) /\ c # Dialogs!CardCall("delete", n)
  <2>1. \A k, n : Dialogs!CardCall(k, n).kind = k
    BY DEF Dialogs!CardCall, Dialogs!Call
  <2> QED BY <2>1
<1>4. CASE Dialogs!User
  <2>1. CASE Dialogs!ChooseKey
    BY <2>1 DEF Dialogs!ChooseKey
  <2>2. CASE Dialogs!ChooseSignin
    BY <2>2 DEF Dialogs!ChooseSignin
  <2>3. CASE Dialogs!Open \/ Dialogs!CheckAgain
    BY <1>2, <2>3 DEF Dialogs!Open, Dialogs!CheckAgain, Dialogs!Ask
  <2>4. CASE Dialogs!Close \/ Dialogs!Done
    BY <1>2, <2>4 DEF Dialogs!Close, Dialogs!Done, Dialogs!Left
  <2>5. CASE Dialogs!Next1 \/ Dialogs!Back \/ Dialogs!TryAnother \/ Dialogs!Remove \/ Dialogs!Keep
    BY <2>5 DEF Dialogs!Next1, Dialogs!Back, Dialogs!TryAnother, Dialogs!Remove, Dialogs!Keep
  <2>6. CASE Dialogs!CheckCard \/ Dialogs!Confirm
    BY <1>3, <2>6 DEF Dialogs!CheckCard, Dialogs!Confirm, Dialogs!Ask
  <2> QED BY <1>4, <2>1, <2>2, <2>3, <2>4, <2>5, <2>6 DEF Dialogs!User
<1>5. CASE Dialogs!Answer
  <2>1. PICK e \in calls : e.at # "asked" /\
          CASE e.kind = "health" -> Dialogs!HealthDone(e)
            [] e.kind = "login" -> IF Dialogs!Counts(e) THEN Dialogs!LoginDone(e) ELSE Dialogs!Discarded(e)
            [] e.kind = "create" -> IF Dialogs!Counts(e) THEN Dialogs!CreateDone(e) ELSE Dialogs!Discarded(e)
            [] e.kind = "list" -> Dialogs!Loaded(e)
            [] e.kind = "check" -> Dialogs!CheckDone(e)
            [] e.kind = "delete" -> Dialogs!DeleteDone(e)
    BY <1>5 DEF Dialogs!Answer
  <2>2. CallOK(e, cards, used, stepper.login)
    BY <1>1
  <2>3. e.kind \in {"health", "login", "create", "list", "check", "delete"}
    BY <2>2 DEF CallOK, DialogCalls
  <2>4. CASE e.kind = "health"
    BY <2>1, <2>4 DEF Dialogs!HealthDone
  <2>5. CASE e.kind = "login"
    <3>1. CASE Dialogs!Counts(e)
      <4>1. e \in Pending(calls, "login", stepper.login)
        BY <2>5, <3>1 DEF Pending, Dialogs!Counts
      <4> QED BY <1>1, <4>1 DEF Awaited
    <3>2. CASE ~Dialogs!Counts(e)
      BY <2>1, <2>5, <3>2 DEF Dialogs!Discarded
    <3> QED BY <3>1, <3>2
  <2>6. CASE e.kind = "create"
    <3>1. calls' \subseteq calls \cup {Dialogs!Lists} \/ ~(e.at \in {"answered", "taken", "failed"})
      BY <2>1, <2>6 DEF Dialogs!CreateDone, Dialogs!Discarded
    <3>2. e.at \in {"answered", "taken", "failed"}
      BY <2>1, <2>2, <2>6 DEF CallOK, DialogCalls
    <3> QED BY <1>2, <3>1, <3>2
  <2>7. CASE e.kind = "list"
    <3>1. calls' \subseteq calls \/ calls' = {[d EXCEPT !.live = d.kind \notin {"check", "delete"}] : d \in calls \ {e}}
      BY <2>1, <2>7 DEF Dialogs!Loaded
    <3>2. PICK d \in calls : c = [d EXCEPT !.live = d.kind \notin {"check", "delete"}]
      BY <3>1
    <3>3. d \in DialogCalls /\ CallOK(d, cards, used, stepper.login)
      BY <1>1 DEF CallOK
    <3>4. d.kind = "create"
      BY <3>2, <3>3 DEF DialogCalls
    <3>5. d.live = TRUE /\ c = [d EXCEPT !.live = TRUE]
      BY <3>2, <3>3, <3>4 DEF CallOK
    <3>6. c = d
      BY <3>3, <3>5 DEF DialogCalls
    <3> QED BY <3>6
  <2>8. CASE e.kind \in {"check", "delete"}
    <3>1. calls' \subseteq calls \cup {Dialogs!Lists}
      BY <2>1, <2>8 DEF Dialogs!CheckDone, Dialogs!DeleteDone
    <3> QED BY <1>2, <3>1
  <2> QED BY <2>3, <2>4, <2>5, <2>6, <2>7, <2>8
<1>6. CASE Dialogs!Serve
  <2>1. PICK e \in calls : \E reply \in {"answered", "failed", "taken", "used"} : Dialogs!Reply(e, reply)
    <3>1. PICK e \in calls :
        \/ CASE e.kind = "create" -> Dialogs!Creates(e)
             [] e.kind = "delete" -> Dialogs!Deletes(e)
             [] e.kind = "check" ->
                  Dialogs!Reply(e, IF e.name \in stored THEN "answered" ELSE "failed") /\ UNCHANGED stored
             [] e.kind \in {"health", "login", "list"} -> Dialogs!Reply(e, "answered") /\ UNCHANGED stored
        \/ Dialogs!Reply(e, "failed") /\ UNCHANGED stored
      BY <1>6 DEF Dialogs!Serve
    <3>2. e.kind \in {"health", "login", "create", "list", "check", "delete"}
      BY <1>1 DEF CallOK, DialogCalls
    <3> QED BY <3>1, <3>2 DEF Dialogs!Creates, Dialogs!Deletes
  <2>2. PICK reply \in {"answered", "failed", "taken", "used"} : c = [e EXCEPT !.at = reply, !.rows = stored]
    BY <2>1 DEF Dialogs!Reply
  <2>3. e \in DialogCalls
    BY <1>1 DEF CallOK
  <2>4. c.at = reply
    BY <2>2, <2>3 DEF DialogCalls
  <2> QED BY <2>4
<1>7. CASE Dialogs!Advance \/ Dialogs!Elsewhere \/ UNCHANGED Dialogs!vars
  BY <1>7 DEF Dialogs!Advance, Dialogs!Elsewhere, Dialogs!vars
<1> QED BY <1>4, <1>5, <1>6, <1>7 DEF Dialogs!Next

\* _start_create, _signed_in, reject: whenever the sign-in of a dialog that was left
\* comes back, and whatever was opened since, the request that makes a connection goes
\* out only from the page that asks for it, of the generation that asked.
THEOREM CancelledDialogsSendNothing == Dialogs!Spec => CancelledSendsNothing
<1>1. ASSUME DialogInv, [Dialogs!Next]_(Dialogs!vars)
      PROVE  [\A c \in calls' \ calls : c.kind = "create" /\ c.at = "asked" => stepper.page \in {"credential", "signin"}]_(Dialogs!vars)
  BY <1>1, CreationIsSent
<1> QED BY <1>1, DialogInvHolds, PTL DEF Dialogs!Spec, CancelledSendsNothing, Dialogs!CancelledSendsNothing

---------------------------------------------------------------------------
(* The advanced settings *)

Policies == 0..(2 * (Mib + 1))
Files == [whole : BOOLEAN, workers : 0..2, policy : Policies]
Payloads == [whole : BOOLEAN, workers : {1, 2}, policy : Policies \cup {-1}]
Started == [workers : {1, 2}, policy : Policies]
Shown == [open : BOOLEAN, load : {"asked", "served", "failed", "none"}, view : Started, stored : Files,
          workers : {1, 2}, custom : BOOLEAN, mib : 0..(Mib + 1), dirty : BOOLEAN, had : BOOLEAN,
          edited : BOOLEAN, fresh : BOOLEAN]
Puts == [at : {"idle", "asked", "sent", "read", "opened", "written", "replaced", "answered", "failed"},
         payload : Payloads, unedited : BOOLEAN, merged : Files]

\* The workers of the next start over a file, and what a payload makes of its policy.
StartsWith(f) == IF f.workers = 0 THEN 2 ELSE f.workers
Alters(p, f) == ~(p.policy = -1 \/ (p.policy = 0 /\ f.policy = 0))

\* What a dialog, and the save of it, that nobody else's save has made stale know of
\* the file: f is the file, or whatever if saves have overlapped.
Faithful(x, p, f) ==
  /\ x.fresh /\ x.load = "served" => x.stored = f /\ (f.workers = 0 => x.view.workers = 2)
  /\ x.fresh /\ x.load = "none" /\ ~x.edited =>
       x.workers = StartsWith(f) /\ ~x.dirty /\ (x.custom <=> f.policy # 0)
  /\ p.unedited /\ x.fresh /\ p.at \in {"sent", "read", "opened", "written"} =>
       p.payload.workers = StartsWith(f) /\ ~Alters(p.payload, f)
  /\ p.unedited /\ x.fresh /\ p.at \in {"read", "opened", "written"} =>
       p.merged.workers = StartsWith(f) /\ p.merged.policy = f.policy
OwnOK(d, x, p, f, n, mixed) ==
  /\ x.open => d = n
  /\ d > n => p = Tuned!Idle
  /\ p.unedited => x.load = "none"
  /\ x.fresh => x.load \in {"served", "none"}
  /\ ~x.edited /\ x.load \in {"asked", "served"} => ~x.custom
  /\ p.at \in {"read", "opened", "written"} => p.merged.whole /\ p.merged.workers # 0
  /\ ~mixed => Faithful(x, p, f)

SettingsTyped ==
  /\ file \in Files /\ tmp \in Files /\ running \in Started /\ current \in 0..MaxDialogs /\ overlapped \in BOOLEAN
  /\ dialog \in [1..MaxDialogs -> Shown] /\ put \in [1..MaxDialogs -> Puts]
\* Unless saves overlapped, one is handled at a time and the temporary file is its own.
OneAtATime ==
  ~overlapped =>
    /\ file.whole /\ (file.workers = 0 => running.workers = 2)
    /\ \A d, e \in 1..MaxDialogs : put[d].at \in Tuned!Handled /\ put[e].at \in Tuned!Handled => d = e
    /\ \A d \in 1..MaxDialogs : put[d].at = "written" => tmp = put[d].merged
SettingsInv ==
  /\ SettingsTyped /\ OneAtATime
  /\ \A d \in 1..MaxDialogs : OwnOK(d, dialog[d], put[d], file, current, overlapped)

LEMMA Bounds == MaxDialogs \in Nat /\ Mib \in Nat /\ Mib # 0
BY ConnectingAssumption

\* A step of one dialog and of its save, as the service stays as it is.
LEMMA OwnStepKeeps ==
  ASSUME SettingsInv, NEW d \in 1..MaxDialogs, NEW x \in Shown, NEW p \in Puts,
         dialog' = [dialog EXCEPT ![d] = x], put' = [put EXCEPT ![d] = p],
         UNCHANGED <<file, tmp, running, current, overlapped>>,
         OwnOK(d, x, p, file, current, overlapped),
         p.at \in Tuned!Handled => put[d].at \in Tuned!Handled,
         p.at = "written" => put[d].at = "written" /\ p.merged = put[d].merged
  PROVE  SettingsInv'
<1>1. SettingsTyped /\ OneAtATime /\ \A e \in 1..MaxDialogs : OwnOK(e, dialog[e], put[e], file, current, overlapped)
  BY DEF SettingsInv
<1>2. /\ dialog' \in [1..MaxDialogs -> Shown] /\ dialog'[d] = x /\ \A e \in 1..MaxDialogs : e # d => dialog'[e] = dialog[e]
      /\ put' \in [1..MaxDialogs -> Puts] /\ put'[d] = p /\ \A e \in 1..MaxDialogs : e # d => put'[e] = put[e]
  <2> HIDE DEF Shown, Puts
  <2> QED BY <1>1 DEF SettingsTyped
<1>3. SettingsTyped'
  BY <1>1, <1>2 DEF SettingsTyped
<1>4. \A e \in 1..MaxDialogs : OwnOK(e, dialog'[e], put'[e], file', current', overlapped')
  <2> SUFFICES ASSUME NEW e \in 1..MaxDialogs PROVE OwnOK(e, dialog'[e], put'[e], file, current, overlapped)
    OBVIOUS
  <2> QED BY <1>1, <1>2
<1>5. OneAtATime'
  <2>1. \A e \in 1..MaxDialogs : put'[e].at \in Tuned!Handled => put[e].at \in Tuned!Handled
    BY <1>2
  <2>2. \A e \in 1..MaxDialogs : put'[e].at = "written" => put[e].at = "written" /\ put'[e].merged = put[e].merged
    BY <1>2
  <2> QED BY <1>1, <2>1, <2>2 DEF OneAtATime
<1> QED BY <1>3, <1>4, <1>5 DEF SettingsInv

\* A dialog and its save, as they are.
LEMMA Own ==
  ASSUME SettingsInv, NEW d \in 1..MaxDialogs
  PROVE  dialog[d] \in Shown /\ put[d] \in Puts /\ OwnOK(d, dialog[d], put[d], file, current, overlapped)
         /\ dialog = [dialog EXCEPT ![d] = dialog[d]] /\ put = [put EXCEPT ![d] = put[d]]
<1>1. dialog \in [1..MaxDialogs -> Shown] /\ put \in [1..MaxDialogs -> Puts]
  BY DEF SettingsInv, SettingsTyped
<1> HIDE DEF Shown, Puts
<1> QED BY <1>1 DEF SettingsInv

LEMMA ClosedIs ==
  /\ Tuned!Closed \in Shown /\ Tuned!Closed.open = FALSE /\ Tuned!Closed.load = "none" /\ Tuned!Closed.fresh = FALSE
  /\ Tuned!NewDialog \in Shown /\ Tuned!NewDialog.load = "asked" /\ Tuned!NewDialog.fresh = FALSE
  /\ Tuned!NewDialog.custom = FALSE
  /\ Tuned!Idle \in Puts /\ Tuned!Idle.at = "idle" /\ Tuned!Idle.unedited = FALSE
<1>1. PICK torn : torn = Tuned!Torn
  OBVIOUS
<1>2. torn \in Files /\ torn.workers = 0 /\ torn.policy = 0
  BY <1>1, Bounds DEF Files, Policies, Tuned!Torn, Tuned!None
<1>3. PICK view : view = Tuned!NextStart(torn)
  OBVIOUS
<1>4. view \in Started
  BY <1>2, <1>3, Bounds DEF Started, Policies, Tuned!NextStart, Tuned!None, Tuned!Default
<1>5. PICK x : x = Tuned!NewDialog
  OBVIOUS
<1>6. x = [open |-> TRUE, load |-> "asked", view |-> view, stored |-> torn,
           workers |-> 1, custom |-> FALSE, mib |-> 1, dirty |-> FALSE, had |-> FALSE,
           edited |-> FALSE, fresh |-> FALSE]
  BY <1>1, <1>3, <1>5 DEF Tuned!NewDialog
<1>7. x \in Shown /\ x.load = "asked" /\ x.fresh = FALSE /\ x.custom = FALSE
  <2>1. 1 \in 0..(Mib + 1)
    BY Bounds
  <2> HIDE DEF Files, Started
  <2> QED BY <1>2, <1>4, <1>6, <2>1 DEF Shown
<1>8. PICK y : y = [x EXCEPT !.open = FALSE, !.load = "none"] /\ y = Tuned!Closed
  BY <1>5 DEF Tuned!Closed
<1>9. y \in Shown /\ y.open = FALSE /\ y.load = "none" /\ y.fresh = FALSE
  <2> HIDE DEF Files, Started
  <2> QED BY <1>7, <1>8 DEF Shown
<1>10. PICK payload : payload = Tuned!File(1, Tuned!Omit)
  OBVIOUS
<1>11. payload \in Payloads
  BY <1>10 DEF Payloads, Tuned!File, Tuned!Omit
<1>12. PICK z : z = Tuned!Idle
  OBVIOUS
<1>13. z = [at |-> "idle", payload |-> payload, unedited |-> FALSE, merged |-> torn]
  BY <1>1, <1>10, <1>12 DEF Tuned!Idle
<1>14. z \in Puts /\ z.at = "idle" /\ z.unedited = FALSE
  <2> HIDE DEF Files, Payloads
  <2> QED BY <1>2, <1>11, <1>13 DEF Puts
<1> QED BY <1>5, <1>7, <1>8, <1>9, <1>12, <1>14

\* A dialog that is closed, or its save that is forgotten, claims nothing.
LEMMA ForgottenIs ==
  ASSUME NEW d \in Nat, NEW f, NEW n, NEW mixed
  PROVE  /\ \A p \in Puts : (p.at \in {"read", "opened", "written"} => p.merged.whole /\ p.merged.workers # 0) /\ (d > n => p = Tuned!Idle)
                            => OwnOK(d, Tuned!Closed, p, f, n, mixed)
         /\ \A x \in Shown : (x.open => d = n) /\ (x.fresh => x.load \in {"served", "none"})
                            /\ (~x.edited /\ x.load \in {"asked", "served"} => ~x.custom)
                            /\ (~mixed => Faithful(x, Tuned!Idle, f))
                            => OwnOK(d, x, Tuned!Idle, f, n, mixed)
<1>1. PICK y, z : y = Tuned!Closed /\ z = Tuned!Idle
  OBVIOUS
<1>2. y.open = FALSE /\ y.load = "none" /\ y.fresh = FALSE /\ z.at = "idle" /\ z.unedited = FALSE
  BY <1>1, ClosedIs
<1>3. \A p \in Puts : (p.at \in {"read", "opened", "written"} => p.merged.whole /\ p.merged.workers # 0) /\ (d > n => p = z)
                            => OwnOK(d, y, p, f, n, mixed)
  BY <1>1, <1>2 DEF OwnOK, Faithful
<1>4. \A x \in Shown : (x.open => d = n) /\ (x.fresh => x.load \in {"served", "none"})
                            /\ (~x.edited /\ x.load \in {"asked", "served"} => ~x.custom)
                            /\ (~mixed => Faithful(x, z, f))
                            => OwnOK(d, x, z, f, n, mixed)
  BY <1>1, <1>2 DEF OwnOK
<1> QED BY <1>1, <1>3, <1>4

LEMMA SettingsInit == Tuned!Init => SettingsInv
<1> SUFFICES ASSUME Tuned!Init PROVE SettingsInv
  OBVIOUS
<1>1. /\ file = Tuned!File(0, 3) /\ tmp = Tuned!Torn /\ running = Tuned!NextStart(file) /\ current = 0 /\ overlapped = FALSE
      /\ dialog = [d \in 1..MaxDialogs |-> Tuned!Closed] /\ put = [d \in 1..MaxDialogs |-> Tuned!Idle]
  BY DEF Tuned!Init, Tuned!None, Tuned!Dialogs
<1>2. file \in Files /\ tmp \in Files /\ file.whole = TRUE /\ file.workers = 0
  <2>1. 3 \in Policies /\ 0 \in Policies
    BY Bounds DEF Policies
  <2> QED BY <1>1, <2>1 DEF Files, Tuned!File, Tuned!Torn, Tuned!None
<1>3. running \in Started /\ running.workers = 2
  BY <1>1, <1>2 DEF Files, Started, Tuned!NextStart, Tuned!None, Tuned!Default
<1>4. PICK y, z : y = Tuned!Closed /\ z = Tuned!Idle
  OBVIOUS
<1>5. /\ y \in Shown /\ z \in Puts /\ z.at = "idle"
      /\ \A d \in 1..MaxDialogs : dialog[d] = y /\ put[d] = z
  BY <1>1, <1>4, ClosedIs
<1>6. dialog \in [1..MaxDialogs -> Shown] /\ put \in [1..MaxDialogs -> Puts]
  <2> HIDE DEF Shown, Puts
  <2> QED BY <1>1, <1>4, <1>5
<1>7. \A d \in 1..MaxDialogs : OwnOK(d, y, z, file, current, overlapped)
  <2> SUFFICES ASSUME NEW d \in 1..MaxDialogs PROVE OwnOK(d, y, z, file, current, overlapped)
    OBVIOUS
  <2>1. d \in Nat
    BY Bounds
  <2> HIDE DEF Puts
  <2> QED BY <1>4, <1>5, <2>1, ForgottenIs
<1>8. OneAtATime
  BY <1>2, <1>3, <1>5 DEF OneAtATime, Tuned!Handled
<1>9. SettingsTyped
  <2>1. current \in 0..MaxDialogs
    BY <1>1, Bounds
  <2> HIDE DEF Shown, Puts, Files, Started
  <2> QED BY <1>1, <1>2, <1>3, <1>6, <2>1 DEF SettingsTyped
<1> QED BY <1>5, <1>7, <1>8, <1>9 DEF SettingsInv

LEMMA CloseKeeps == ASSUME SettingsInv, NEW d \in 1..MaxDialogs, Tuned!Close(d) PROVE SettingsInv'
<1>1. /\ dialog' = [dialog EXCEPT ![d] = IF put[d].at = "idle" THEN Tuned!Closed ELSE [@ EXCEPT !.open = FALSE]]
      /\ UNCHANGED <<put, current, file, tmp, running, overlapped>>
  BY DEF Tuned!Close, Tuned!service
<1>2. d \in Nat
  BY Bounds
<1>3. PICK x : x = (IF put[d].at = "idle" THEN Tuned!Closed ELSE [dialog[d] EXCEPT !.open = FALSE])
  OBVIOUS
<1>4. dialog \in [1..MaxDialogs -> Shown]
  BY DEF SettingsInv, SettingsTyped
<1>5. dialog' = [dialog EXCEPT ![d] = x]
  <2> HIDE DEF Shown
  <2> QED BY <1>1, <1>3, <1>4
<1>6. x \in Shown /\ OwnOK(d, x, put[d], file, current, overlapped)
  <2>1. CASE put[d].at = "idle"
    <3>1. x = Tuned!Closed
      BY <1>3, <2>1
    <3>2. (put[d].at \in {"read", "opened", "written"} => put[d].merged.whole /\ put[d].merged.workers # 0) /\ (d > current => put[d] = Tuned!Idle)
          /\ put[d] \in Puts
      BY Own DEF OwnOK
    <3> QED BY <1>2, <3>1, <3>2, ForgottenIs, ClosedIs
  <2>2. CASE put[d].at # "idle"
    <3>1. x = [dialog[d] EXCEPT !.open = FALSE] /\ dialog[d] \in Shown
      BY <1>3, <2>2, Own
    <3>2. /\ x \in Shown /\ x.open = FALSE /\ x.load = dialog[d].load /\ x.stored = dialog[d].stored /\ x.view = dialog[d].view
          /\ x.workers = dialog[d].workers /\ x.custom = dialog[d].custom /\ x.dirty = dialog[d].dirty
          /\ x.edited = dialog[d].edited /\ x.fresh = dialog[d].fresh
      BY <3>1 DEF Shown
    <3> QED BY <3>2, Own DEF OwnOK, Faithful
  <2> QED BY <2>1, <2>2
<1> QED BY <1>1, <1>5, <1>6, Own, OwnStepKeeps

LEMMA EditKeeps == ASSUME SettingsInv, NEW d \in 1..MaxDialogs, Tuned!Edit(d) PROVE SettingsInv'
<1>1. UNCHANGED <<put, current, file, tmp, running, overlapped>>
  BY DEF Tuned!Edit, Tuned!service
<1>2. dialog[d] \in Shown /\ dialog \in [1..MaxDialogs -> Shown]
  BY Own DEF SettingsInv, SettingsTyped
<1>3. PICK x : dialog' = [dialog EXCEPT ![d] = x]
              /\ \/ \E custom \in BOOLEAN, mib \in 1..Mib :
                      x = [dialog[d] EXCEPT !.custom = custom, !.mib = mib, !.dirty = TRUE, !.edited = TRUE]
                 \/ \E workers \in {1, 2} : x = [dialog[d] EXCEPT !.workers = workers, !.edited = TRUE]
  <2>1. CASE \E custom \in BOOLEAN, mib \in 1..Mib :
          dialog' = [dialog EXCEPT ![d].custom = custom, ![d].mib = mib, ![d].dirty = TRUE, ![d].edited = TRUE]
    <3>1. PICK custom \in BOOLEAN, mib \in 1..Mib :
          dialog' = [dialog EXCEPT ![d].custom = custom, ![d].mib = mib, ![d].dirty = TRUE, ![d].edited = TRUE]
      BY <2>1
    <3>2. PICK x : x = [dialog[d] EXCEPT !.custom = custom, !.mib = mib, !.dirty = TRUE, !.edited = TRUE]
      OBVIOUS
    <3>3. dialog' = [dialog EXCEPT ![d] = x]
      <4> HIDE DEF Shown
      <4> QED BY <1>2, <3>1, <3>2
    <3> QED BY <3>2, <3>3
  <2>2. CASE \E workers \in {1, 2} : dialog' = [dialog EXCEPT ![d].workers = workers, ![d].edited = TRUE]
    <3>1. PICK workers \in {1, 2} : dialog' = [dialog EXCEPT ![d].workers = workers, ![d].edited = TRUE]
      BY <2>2
    <3>2. PICK x : x = [dialog[d] EXCEPT !.workers = workers, !.edited = TRUE]
      OBVIOUS
    <3>3. dialog' = [dialog EXCEPT ![d] = x]
      <4> HIDE DEF Shown
      <4> QED BY <1>2, <3>1, <3>2
    <3> QED BY <3>2, <3>3
  <2> QED BY <2>1, <2>2 DEF Tuned!Edit
<1>4. /\ x \in Shown /\ x.edited = TRUE /\ x.open = dialog[d].open /\ x.load = dialog[d].load /\ x.fresh = dialog[d].fresh
      /\ x.stored = dialog[d].stored /\ x.view = dialog[d].view
  <2>1. CASE \E workers \in {1, 2} : x = [dialog[d] EXCEPT !.workers = workers, !.edited = TRUE]
    BY <1>2, <2>1 DEF Shown
  <2>2. ASSUME NEW custom \in BOOLEAN, NEW mib \in 1..Mib,
               x = [dialog[d] EXCEPT !.custom = custom, !.mib = mib, !.dirty = TRUE, !.edited = TRUE]
        PROVE  /\ x \in Shown /\ x.edited = TRUE /\ x.open = dialog[d].open /\ x.load = dialog[d].load
               /\ x.fresh = dialog[d].fresh /\ x.stored = dialog[d].stored /\ x.view = dialog[d].view
    <3>1. mib \in 0..(Mib + 1)
      BY Bounds
    <3> QED BY <1>2, <2>2, <3>1 DEF Shown
  <2> QED BY <1>3, <2>1, <2>2
<1>5. OwnOK(d, x, put[d], file, current, overlapped)
  BY <1>4, Own DEF OwnOK, Faithful
<1> QED BY <1>1, <1>3, <1>4, <1>5, Own, OwnStepKeeps

LEMMA SaveKeeps == ASSUME SettingsInv, NEW d \in 1..MaxDialogs, Tuned!Save(d) PROVE SettingsInv'
<1>1. /\ put[d].at = "idle" /\ put' = [put EXCEPT ![d].at = "asked"] /\ dialog[d].open
      /\ UNCHANGED <<dialog, current, file, tmp, running, overlapped>>
  BY DEF Tuned!Save, Tuned!service
<1>2. PICK p : p = [put[d] EXCEPT !.at = "asked"]
  OBVIOUS
<1>3. put' = [put EXCEPT ![d] = p]
  BY <1>1, <1>2
<1>4. p \in Puts /\ p.at = "asked" /\ p.unedited = put[d].unedited
  BY <1>2, Own DEF Puts
<1>5. OwnOK(d, dialog[d], p, file, current, overlapped)
  <2>1. ~(d > current)
    <3>1. d = current /\ current \in Nat
      BY <1>1, Own, Bounds DEF OwnOK, SettingsInv, SettingsTyped
    <3> QED BY <3>1
  <2> QED BY <1>4, <2>1, Own DEF OwnOK, Faithful
<1>6. p.at \notin Tuned!Handled /\ p.at # "written"
  BY <1>4 DEF Tuned!Handled
<1>7. dialog[d] \in Shown /\ dialog' = [dialog EXCEPT ![d] = dialog[d]] /\ UNCHANGED <<file, tmp, running, current, overlapped>>
  BY <1>1, Own
<1> QED BY <1>3, <1>4, <1>5, <1>6, <1>7, OwnStepKeeps

\* _apply_settings, of what was answered, and of what was not.
LEMMA LoadedKeeps7 == ASSUME SettingsInv, NEW d \in 1..MaxDialogs, Tuned!Loaded(d) PROVE SettingsInv'
<1>1. dialog[d] \in Shown /\ put[d] \in Puts /\ OwnOK(d, dialog[d], put[d], file, current, overlapped)
  BY Own
<1>2. PICK x : x = dialog[d]
  OBVIOUS
<1>3. PICK had \in BOOLEAN : had = (x.stored.policy # 0)
  OBVIOUS
<1>4. PICK custom \in BOOLEAN : custom = (had \/ x.custom)
  OBVIOUS
<1>5. PICK mib : mib = IF had THEN x.stored.policy \div 2 ELSE x.mib
  OBVIOUS
<1>6. PICK workers : workers = IF x.stored.workers # 0 THEN x.stored.workers ELSE x.view.workers
  OBVIOUS
<1>7. PICK torn, view : torn = Tuned!Torn /\ view = Tuned!NextStart(torn)
  OBVIOUS
<1>8. PICK loaded : loaded = [x EXCEPT !.workers = workers, !.had = had, !.custom = custom, !.mib = mib, !.dirty = FALSE]
  OBVIOUS
<1>9. PICK y : y = [IF x.load = "served" THEN loaded ELSE x EXCEPT !.load = "none", !.stored = torn, !.view = view]
  OBVIOUS
<1>10. /\ x.load \in {"served", "failed"} /\ dialog' = [dialog EXCEPT ![d] = y]
       /\ UNCHANGED <<put, current, file, tmp, running, overlapped>>
  BY <1>2, <1>3, <1>4, <1>5, <1>6, <1>7, <1>8, <1>9
     DEF Tuned!Loaded, Tuned!Shown, Tuned!DirtyOnceLoaded, Tuned!None, Tuned!service
<1>11. torn \in Files /\ view \in Started
  <2>1. torn \in Files /\ torn.workers = 0 /\ torn.policy = 0
    BY <1>7, Bounds DEF Files, Policies, Tuned!Torn, Tuned!None
  <2> QED BY <1>7, <2>1, Bounds DEF Started, Policies, Tuned!NextStart, Tuned!None, Tuned!Default
<1>12. x.stored \in Files /\ x.view \in Started /\ x.mib \in 0..(Mib + 1)
  <2> HIDE DEF Files, Started
  <2> QED BY <1>1, <1>2 DEF Shown
<1>13. workers \in {1, 2}
  BY <1>6, <1>12 DEF Files, Started
<1>14. mib \in 0..(Mib + 1)
  <2>1. x.stored.policy \in 0..(2 * (Mib + 1))
    BY <1>12 DEF Files, Policies
  <2>2. \A q \in 0..(2 * (Mib + 1)) : q \div 2 \in 0..(Mib + 1)
    BY Bounds
  <2> QED BY <1>5, <1>12, <2>1, <2>2
<1>15. /\ loaded \in Shown /\ loaded.open = x.open /\ loaded.workers = workers /\ loaded.custom = custom
       /\ loaded.dirty = FALSE /\ loaded.edited = x.edited /\ loaded.fresh = x.fresh /\ loaded.load = x.load
  <2> HIDE DEF Files, Started
  <2> QED BY <1>1, <1>2, <1>8, <1>13, <1>14 DEF Shown
<1>16. CASE x.load = "served"
  <2>1. y = [loaded EXCEPT !.load = "none", !.stored = torn, !.view = view]
    BY <1>9, <1>16
  <2>2. /\ y \in Shown /\ y.open = x.open /\ y.workers = workers /\ y.custom = custom
        /\ y.dirty = FALSE /\ y.edited = x.edited /\ y.fresh = x.fresh /\ y.load = "none"
    <3> HIDE DEF Files, Started
    <3> QED BY <1>11, <1>15, <2>1 DEF Shown
  <2>3. ~overlapped => Faithful(y, put[d], file)
    <3> SUFFICES ASSUME ~overlapped PROVE Faithful(y, put[d], file)
      OBVIOUS
    <3>1. Faithful(x, put[d], file) /\ (~x.edited => ~x.custom) /\ ~put[d].unedited
      BY <1>1, <1>2, <1>16 DEF OwnOK
    <3>2. y.fresh /\ ~y.edited => y.workers = StartsWith(file) /\ (y.custom <=> file.policy # 0)
      <4> SUFFICES ASSUME y.fresh, ~y.edited PROVE y.workers = StartsWith(file) /\ (y.custom <=> file.policy # 0)
        OBVIOUS
      <4>1. x.stored = file /\ (file.workers = 0 => x.view.workers = 2) /\ ~x.custom
        BY <1>16, <2>2, <3>1 DEF Faithful
      <4>2. y.workers = StartsWith(file)
        BY <1>6, <2>2, <4>1 DEF StartsWith
      <4>3. y.custom <=> file.policy # 0
        BY <1>3, <1>4, <2>2, <4>1
      <4> QED BY <4>2, <4>3
    <3> QED BY <2>2, <3>1, <3>2 DEF Faithful
  <2>4. OwnOK(d, y, put[d], file, current, overlapped)
    BY <1>1, <1>2, <2>2, <2>3 DEF OwnOK
  <2> QED BY <1>10, <2>2, <2>4, Own, OwnStepKeeps
<1>17. CASE x.load = "failed"
  <2>1. y = [x EXCEPT !.load = "none", !.stored = torn, !.view = view]
    BY <1>9, <1>17
  <2>2. /\ y \in Shown /\ y.open = x.open /\ y.fresh = x.fresh /\ y.load = "none"
    <3> HIDE DEF Files, Started
    <3> QED BY <1>1, <1>2, <1>11, <2>1 DEF Shown
  <2>3. ~y.fresh
    BY <1>1, <1>2, <1>17, <2>2 DEF OwnOK
  <2>4. OwnOK(d, y, put[d], file, current, overlapped)
    BY <1>1, <1>2, <2>2, <2>3 DEF OwnOK, Faithful
  <2> QED BY <1>10, <2>2, <2>4, Own, OwnStepKeeps
<1> QED BY <1>10, <1>16, <1>17

\* build_payload of settings that nobody edited alters nothing.
LEMMA PayloadIs ==
  ASSUME NEW x \in Shown
  PROVE  /\ Tuned!Payload(x) \in Payloads /\ Tuned!Payload(x).workers = x.workers
         /\ \A f : ~x.dirty /\ (x.custom <=> f.policy # 0) => ~Alters(Tuned!Payload(x), f)
<1>1. x.workers \in {1, 2} /\ x.mib \in 0..(Mib + 1)
  BY DEF Shown
<1>2. PICK policy : policy = IF x.custom THEN IF x.dirty THEN 2 * x.mib ELSE -1 ELSE IF x.had THEN 0 ELSE -1
  OBVIOUS
<1>3. policy \in Policies \cup {-1}
  <2>1. 2 * x.mib \in Policies /\ 0 \in Policies
    BY <1>1, Bounds DEF Policies
  <2> QED BY <1>2, <2>1
<1>4. Tuned!Payload(x) = [whole |-> TRUE, workers |-> x.workers, policy |-> policy]
  BY <1>2 DEF Tuned!Payload, Tuned!File, Tuned!Omit, Tuned!None
<1>5. Tuned!Payload(x) \in Payloads
  BY <1>1, <1>3, <1>4 DEF Payloads
<1>6. \A f : ~x.dirty /\ (x.custom <=> f.policy # 0) => policy = -1 \/ (policy = 0 /\ f.policy = 0)
  BY <1>2
<1> QED BY <1>4, <1>5, <1>6 DEF Alters

LEMMA BuildKeeps == ASSUME SettingsInv, NEW d \in 1..MaxDialogs, Tuned!Build(d) PROVE SettingsInv'
<1>1. dialog[d] \in Shown /\ put[d] \in Puts /\ OwnOK(d, dialog[d], put[d], file, current, overlapped)
  BY Own
<1>2. /\ put[d].at = "asked" /\ UNCHANGED <<dialog, current, file, tmp, running, overlapped>>
      /\ put' = [put EXCEPT ![d].at = "sent", ![d].payload = Tuned!Payload(dialog[d]),
                            ![d].unedited = Tuned!Unedited(dialog[d])]
  BY DEF Tuned!Build, Tuned!service
<1>3. PICK payload : payload = Tuned!Payload(dialog[d])
  OBVIOUS
<1>4. payload \in Payloads /\ payload.workers = dialog[d].workers
      /\ (~dialog[d].dirty /\ (dialog[d].custom <=> file.policy # 0) => ~Alters(payload, file))
  BY <1>1, <1>3, PayloadIs
<1>5. PICK b \in BOOLEAN : b = Tuned!Unedited(dialog[d])
  BY DEF Tuned!Unedited
<1>6. PICK p : p = [put[d] EXCEPT !.at = "sent", !.payload = payload, !.unedited = b]
  OBVIOUS
<1>7. put' = [put EXCEPT ![d] = p]
  <2>1. put \in [1..MaxDialogs -> Puts]
    BY DEF SettingsInv, SettingsTyped
  <2> HIDE DEF Puts
  <2> QED BY <1>2, <1>3, <1>5, <1>6, <2>1
<1>8. p \in Puts /\ p.at = "sent" /\ p.payload = payload /\ p.unedited = b
  <2> HIDE DEF Payloads, Files
  <2> QED BY <1>1, <1>4, <1>6 DEF Puts
<1>9. b => dialog[d].load = "none" /\ ~dialog[d].edited /\ dialog[d].fresh
  BY <1>5 DEF Tuned!Unedited
<1>10. ~(d > current)
  BY <1>1, <1>2, ClosedIs DEF OwnOK
<1>11. ~overlapped => Faithful(dialog[d], p, file)
  BY <1>1, <1>4, <1>8, <1>9 DEF OwnOK, Faithful
<1>12. OwnOK(d, dialog[d], p, file, current, overlapped)
  BY <1>1, <1>8, <1>9, <1>10, <1>11 DEF OwnOK
<1>13. p.at \notin Tuned!Handled /\ p.at # "written"
  BY <1>8 DEF Tuned!Handled
<1>14. dialog' = [dialog EXCEPT ![d] = dialog[d]] /\ UNCHANGED <<file, tmp, running, current, overlapped>>
  BY <1>2, Own
<1> QED BY <1>1, <1>7, <1>8, <1>12, <1>13, <1>14, OwnStepKeeps

LEMMA SavedKeeps == ASSUME SettingsInv, NEW d \in 1..MaxDialogs, Tuned!Saved(d) PROVE SettingsInv'
<1>1. dialog[d] \in Shown /\ put[d] \in Puts /\ OwnOK(d, dialog[d], put[d], file, current, overlapped)
  BY Own
<1>2. d \in Nat
  BY Bounds
<1>3. PICK had \in BOOLEAN : had = (put[d].merged.policy # 0)
  OBVIOUS
<1>4. PICK x : x = IF ~dialog[d].open THEN Tuned!Closed ELSE IF put[d].at = "failed" THEN dialog[d]
                   ELSE [dialog[d] EXCEPT !.had = had, !.dirty = FALSE]
  OBVIOUS
<1>5. PICK p : p = Tuned!Idle
  OBVIOUS
<1>6. /\ dialog' = [dialog EXCEPT ![d] = x] /\ put' = [put EXCEPT ![d] = p]
      /\ UNCHANGED <<current, file, tmp, running, overlapped>>
  <2>1. dialog \in [1..MaxDialogs -> Shown]
    BY DEF SettingsInv, SettingsTyped
  <2> HIDE DEF Shown
  <2> QED BY <1>3, <1>4, <1>5, <2>1 DEF Tuned!Saved, Tuned!None, Tuned!service
<1>7. p \in Puts /\ p.at = "idle"
  BY <1>5, ClosedIs
<1>8. CASE x = Tuned!Closed
  <2>1. OwnOK(d, x, p, file, current, overlapped) /\ x \in Shown
    BY <1>2, <1>5, <1>7, <1>8, ForgottenIs, ClosedIs
  <2> QED BY <1>6, <1>7, <2>1, OwnStepKeeps DEF Tuned!Handled
<1>9. CASE x = dialog[d] \/ x = [dialog[d] EXCEPT !.had = had, !.dirty = FALSE]
  <2>1. /\ x \in Shown /\ x.open = dialog[d].open /\ x.load = dialog[d].load /\ x.stored = dialog[d].stored
        /\ x.view = dialog[d].view /\ x.workers = dialog[d].workers /\ x.custom = dialog[d].custom
        /\ (x.dirty => dialog[d].dirty) /\ x.edited = dialog[d].edited /\ x.fresh = dialog[d].fresh
    BY <1>1, <1>9 DEF Shown
  <2>2. p.unedited = FALSE
    BY <1>5, ClosedIs
  <2>3. ~overlapped => Faithful(x, p, file)
    BY <1>1, <2>1, <2>2 DEF OwnOK, Faithful
  <2>4. OwnOK(d, x, p, file, current, overlapped)
    BY <1>1, <1>5, <1>7, <2>1, <2>2, <2>3 DEF OwnOK
  <2>5. p.at \notin Tuned!Handled /\ p.at # "written"
    BY <1>7 DEF Tuned!Handled
  <2> QED BY <1>6, <1>7, <2>1, <2>4, <2>5, OwnStepKeeps
<1> QED BY <1>4, <1>8, <1>9

LEMMA GetKeeps == ASSUME SettingsInv, NEW d \in 1..MaxDialogs, Tuned!GetSettings(d) PROVE SettingsInv'
<1>1. /\ dialog[d] \in Shown /\ put[d] \in Puts /\ OwnOK(d, dialog[d], put[d], file, current, overlapped)
      /\ file \in Files /\ running \in Started /\ OneAtATime
  BY Own DEF SettingsInv, SettingsTyped
<1>2. PICK x : x = IF file.whole THEN [dialog[d] EXCEPT !.load = "served", !.view = running, !.stored = file, !.fresh = TRUE]
                   ELSE [dialog[d] EXCEPT !.load = "failed"]
  OBVIOUS
<1>3. /\ dialog[d].load = "asked" /\ dialog' = [dialog EXCEPT ![d] = x]
      /\ UNCHANGED <<put, current, file, tmp, running, overlapped>>
  BY <1>2 DEF Tuned!GetSettings, Tuned!service
<1>4. ~put[d].unedited /\ ~dialog[d].fresh
  BY <1>1, <1>3 DEF OwnOK
<1>5. CASE file.whole
  <2>1. x = [dialog[d] EXCEPT !.load = "served", !.view = running, !.stored = file, !.fresh = TRUE]
    BY <1>2, <1>5
  <2>2. /\ x \in Shown /\ x.open = dialog[d].open /\ x.load = "served" /\ x.stored = file
        /\ x.view = running /\ x.custom = dialog[d].custom /\ x.edited = dialog[d].edited
    <3> HIDE DEF Files, Started
    <3> QED BY <1>1, <2>1 DEF Shown
  <2>3. ~overlapped => Faithful(x, put[d], file)
    BY <1>1, <1>4, <2>2 DEF Faithful, OneAtATime
  <2>4. OwnOK(d, x, put[d], file, current, overlapped)
    BY <1>1, <1>3, <1>4, <2>2, <2>3 DEF OwnOK
  <2> QED BY <1>1, <1>3, <2>2, <2>4, Own, OwnStepKeeps
<1>6. CASE ~file.whole
  <2>1. x = [dialog[d] EXCEPT !.load = "failed"]
    BY <1>2, <1>6
  <2>2. /\ x \in Shown /\ x.open = dialog[d].open /\ x.load = "failed" /\ x.fresh = dialog[d].fresh
    BY <1>1, <2>1 DEF Shown
  <2>3. OwnOK(d, x, put[d], file, current, overlapped)
    BY <1>1, <1>4, <2>2 DEF OwnOK, Faithful
  <2> QED BY <1>1, <1>3, <2>2, <2>3, Own, OwnStepKeeps
<1> QED BY <1>5, <1>6

\* A save that is through with the file, or has failed, may take what it answers.
LEMMA ThroughKeeps ==
  ASSUME SettingsInv, NEW d \in 1..MaxDialogs, NEW p \in Puts, p.at \in {"answered", "failed"},
         put[d].at \notin {"idle"}, p.unedited = put[d].unedited,
         put' = [put EXCEPT ![d] = p], UNCHANGED <<dialog, file, tmp, running, current, overlapped>>
  PROVE  SettingsInv'
<1>1. /\ dialog[d] \in Shown /\ put[d] \in Puts /\ OwnOK(d, dialog[d], put[d], file, current, overlapped)
  BY Own
<1>2. ~(d > current)
  BY <1>1, ClosedIs DEF OwnOK
<1>3. OwnOK(d, dialog[d], p, file, current, overlapped)
  BY <1>1, <1>2 DEF OwnOK, Faithful
<1>4. p.at \notin Tuned!Handled /\ p.at # "written"
  BY DEF Tuned!Handled
<1> QED BY <1>1, <1>3, <1>4, Own, OwnStepKeeps

LEMMA ReplyKeeps ==
  ASSUME SettingsInv, NEW d \in 1..MaxDialogs, Tuned!Reply(d)
  PROVE  SettingsInv'
<1>1. /\ put[d].at = "replaced" /\ UNCHANGED <<dialog, file, tmp, running, current, overlapped>>
  BY DEF Tuned!Reply, Tuned!service
<1>2. PICK p : p = IF file.whole THEN [put[d] EXCEPT !.at = "answered", !.merged = file] ELSE [put[d] EXCEPT !.at = "failed"]
  OBVIOUS
<1>3. put' = [put EXCEPT ![d] = p]
  BY <1>2 DEF Tuned!Reply
<1>4. put[d] \in Puts /\ file \in Files
  BY Own DEF SettingsInv, SettingsTyped
<1>5. p \in Puts /\ p.at \in {"answered", "failed"} /\ p.unedited = put[d].unedited
  <2> HIDE DEF Files, Payloads
  <2> QED BY <1>2, <1>4 DEF Puts
<1> QED BY <1>1, <1>3, <1>5, ThroughKeeps

LEMMA FailsKeeps == ASSUME SettingsInv, Tuned!Fails PROVE SettingsInv'
<1>1. UNCHANGED <<file, tmp, running, current, overlapped>>
  BY DEF Tuned!Fails, Tuned!service
<1>2. ASSUME NEW d \in 1..MaxDialogs, put[d].at \in {"sent", "replaced"}, put' = [put EXCEPT ![d].at = "failed"], UNCHANGED dialog
      PROVE  SettingsInv'
  <2>1. PICK p : p = [put[d] EXCEPT !.at = "failed"]
    OBVIOUS
  <2>2. p \in Puts /\ p.at = "failed" /\ p.unedited = put[d].unedited
    BY <2>1, Own DEF Puts
  <2>3. put' = [put EXCEPT ![d] = p]
    BY <1>2, <2>1
  <2> QED BY <1>1, <1>2, <2>2, <2>3, ThroughKeeps
<1>3. ASSUME NEW d \in 1..MaxDialogs, dialog[d].load = "asked", dialog' = [dialog EXCEPT ![d].load = "failed"], UNCHANGED put
      PROVE  SettingsInv'
  <2>1. /\ dialog[d] \in Shown /\ OwnOK(d, dialog[d], put[d], file, current, overlapped)
    BY Own
  <2>2. PICK x : x = [dialog[d] EXCEPT !.load = "failed"]
    OBVIOUS
  <2>3. x \in Shown /\ x.open = dialog[d].open /\ x.load = "failed" /\ x.fresh = dialog[d].fresh
    BY <2>1, <2>2 DEF Shown
  <2>4. ~x.fresh /\ ~put[d].unedited
    BY <1>3, <2>1, <2>3 DEF OwnOK
  <2>5. OwnOK(d, x, put[d], file, current, overlapped)
    BY <2>1, <2>3, <2>4 DEF OwnOK, Faithful
  <2>6. dialog' = [dialog EXCEPT ![d] = x]
    BY <1>3, <2>2
  <2>7. put[d] \in Puts /\ put' = [put EXCEPT ![d] = put[d]]
    BY <1>3, Own
  <2> QED BY <1>1, <2>3, <2>5, <2>6, <2>7, OwnStepKeeps
<1> QED BY <1>2, <1>3 DEF Tuned!Fails, Tuned!Dialogs

LEMMA OpenSettingsKeeps == ASSUME SettingsInv, Tuned!Open PROVE SettingsInv'
<1>1. /\ current < MaxDialogs /\ (current > 0 => ~dialog[current].open) /\ current' = current + 1
      /\ dialog' = [dialog EXCEPT ![current + 1] = Tuned!NewDialog]
      /\ UNCHANGED <<put, file, tmp, running, overlapped>>
  BY DEF Tuned!Open, Tuned!service
<1>2. SettingsTyped /\ OneAtATime /\ \A d \in 1..MaxDialogs : OwnOK(d, dialog[d], put[d], file, current, overlapped)
  BY DEF SettingsInv
<1>3. PICK n \in Nat : n = current /\ n + 1 \in 1..MaxDialogs /\ n \in 0..MaxDialogs
  BY <1>1, <1>2, Bounds DEF SettingsTyped
<1>4. PICK x, z : x = Tuned!NewDialog /\ z = Tuned!Idle
  OBVIOUS
<1>5. x \in Shown /\ x.load = "asked" /\ x.fresh = FALSE /\ x.custom = FALSE /\ z.at = "idle" /\ z.unedited = FALSE
  BY <1>4, ClosedIs
<1>6. /\ dialog' \in [1..MaxDialogs -> Shown] /\ dialog'[n + 1] = x
      /\ \A e \in 1..MaxDialogs : e # n + 1 => dialog'[e] = dialog[e]
  <2> HIDE DEF Shown, Puts
  <2> QED BY <1>1, <1>2, <1>3, <1>4, <1>5 DEF SettingsTyped
<1>7. put[n + 1] = z
  BY <1>2, <1>3, <1>4 DEF OwnOK
<1>8. OwnOK(n + 1, x, z, file, n + 1, overlapped)
  BY <1>3, <1>5 DEF OwnOK, Faithful
<1>9. ASSUME NEW e \in 1..MaxDialogs, e # n + 1 PROVE OwnOK(e, dialog[e], put[e], file, n + 1, overlapped)
  <2>1. OwnOK(e, dialog[e], put[e], file, n, overlapped)
    BY <1>2, <1>3
  <2>2. e \in Nat /\ (e > n + 1 => e > n)
    BY <1>3, Bounds
  <2>3. ~dialog[e].open
    <3>1. dialog[e].open => e = n
      BY <2>1 DEF OwnOK
    <3>2. e = n => n > 0
      BY <1>3
    <3> QED BY <1>1, <1>3, <3>1, <3>2
  <2> QED BY <2>1, <2>2, <2>3 DEF OwnOK
<1>10. \A e \in 1..MaxDialogs : OwnOK(e, dialog'[e], put'[e], file', current', overlapped')
  <2> SUFFICES ASSUME NEW e \in 1..MaxDialogs PROVE OwnOK(e, dialog'[e], put[e], file, n + 1, overlapped)
    BY <1>1, <1>3
  <2>1. CASE e = n + 1
    BY <1>6, <1>7, <1>8, <2>1
  <2>2. CASE e # n + 1
    BY <1>6, <1>9, <2>2
  <2> QED BY <2>1, <2>2
<1>11. SettingsTyped'
  BY <1>1, <1>2, <1>3, <1>6 DEF SettingsTyped
<1>12. OneAtATime'
  BY <1>1, <1>2 DEF OneAtATime
<1> QED BY <1>10, <1>11, <1>12 DEF SettingsInv
---------------------------------------------------------------------------
(* The service, as it handles a save *)

\* Its own save goes on, alone unless another was handled at once.
LEMMA HandledKeeps ==
  ASSUME SettingsInv, NEW d \in 1..MaxDialogs, NEW p \in Puts, put' = [put EXCEPT ![d] = p],
         UNCHANGED <<dialog, file, running, current>>, tmp' \in Files, overlapped' \in BOOLEAN,
         overlapped => overlapped', OwnOK(d, dialog[d], p, file, current, overlapped'),
         ~overlapped' => /\ \A e \in 1..MaxDialogs : e # d => put[e].at \notin Tuned!Handled
                         /\ p.at = "written" => tmp' = p.merged
  PROVE  SettingsInv'
<1>1. SettingsTyped /\ OneAtATime /\ \A e \in 1..MaxDialogs : OwnOK(e, dialog[e], put[e], file, current, overlapped)
  BY DEF SettingsInv
<1>2. put' \in [1..MaxDialogs -> Puts] /\ put'[d] = p /\ \A e \in 1..MaxDialogs : e # d => put'[e] = put[e]
  <2> HIDE DEF Shown, Puts
  <2> QED BY <1>1 DEF SettingsTyped
<1>3. SettingsTyped'
  BY <1>1, <1>2 DEF SettingsTyped
<1>4. \A e \in 1..MaxDialogs : OwnOK(e, dialog'[e], put'[e], file', current', overlapped')
  <2> SUFFICES ASSUME NEW e \in 1..MaxDialogs PROVE OwnOK(e, dialog[e], put'[e], file, current, overlapped')
    OBVIOUS
  <2>1. CASE e = d
    BY <1>2, <2>1
  <2>2. CASE e # d
    <3>1. OwnOK(e, dialog[e], put[e], file, current, overlapped) /\ put'[e] = put[e]
      BY <1>1, <1>2, <2>2
    <3> QED BY <3>1 DEF OwnOK
  <2> QED BY <2>1, <2>2
<1>5. OneAtATime'
  <2> SUFFICES ASSUME ~overlapped'
               PROVE  /\ file.whole /\ (file.workers = 0 => running.workers = 2)
                      /\ \A e, g \in 1..MaxDialogs : put'[e].at \in Tuned!Handled /\ put'[g].at \in Tuned!Handled => e = g
                      /\ \A e \in 1..MaxDialogs : put'[e].at = "written" => tmp' = put'[e].merged
    BY DEF OneAtATime
  <2>1. \A e \in 1..MaxDialogs : e # d => put'[e].at \notin Tuned!Handled
    BY <1>2
  <2>2. \A e \in 1..MaxDialogs : e # d => put'[e].at # "written"
    BY <2>1 DEF Tuned!Handled
  <2> QED BY <1>1, <1>2, <2>1, <2>2 DEF OneAtATime
<1> QED BY <1>3, <1>4, <1>5 DEF SettingsInv

LEMMA MergedIs ==
  ASSUME NEW f \in Files, NEW p \in Payloads
  PROVE  /\ Tuned!Merged(f, p) \in Files /\ Tuned!Merged(f, p).whole = TRUE /\ Tuned!Merged(f, p).workers = p.workers
         /\ ~Alters(p, f) => Tuned!Merged(f, p).policy = f.policy
<1>1. PICK policy : policy = IF p.policy = -1 THEN f.policy ELSE p.policy
  OBVIOUS
<1>2. policy \in Policies /\ p.workers \in 0..2 /\ (~Alters(p, f) => policy = f.policy)
  BY <1>1 DEF Files, Payloads, Alters
<1>3. Tuned!Merged(f, p) = [whole |-> TRUE, workers |-> p.workers, policy |-> policy]
  BY <1>1 DEF Tuned!Merged, Tuned!File, Tuned!Omit
<1> QED BY <1>2, <1>3 DEF Files

LEMMA ReadKeeps == ASSUME SettingsInv, NEW d \in 1..MaxDialogs, Tuned!ReadStored(d) PROVE SettingsInv'
<1>1. /\ dialog[d] \in Shown /\ put[d] \in Puts /\ OwnOK(d, dialog[d], put[d], file, current, overlapped)
      /\ file \in Files /\ tmp \in Files /\ overlapped \in BOOLEAN
  BY Own DEF SettingsInv, SettingsTyped
<1>2. /\ put[d].at = "sent" /\ UNCHANGED <<dialog, file, tmp, running, current>>
      /\ overlapped' = (overlapped \/ \E o \in (1..MaxDialogs) \ {d} : put[o].at \in Tuned!Handled)
  BY DEF Tuned!ReadStored, Tuned!Dialogs
<1>3. PICK merged : merged = Tuned!Merged(file, put[d].payload)
  OBVIOUS
<1>4. PICK p : p = IF file.whole THEN [put[d] EXCEPT !.at = "read", !.merged = merged] ELSE [put[d] EXCEPT !.at = "failed"]
  OBVIOUS
<1>5. put' = [put EXCEPT ![d] = p]
  BY <1>3, <1>4 DEF Tuned!ReadStored
<1>6. /\ overlapped' \in BOOLEAN /\ (overlapped => overlapped')
      /\ ~overlapped' => \A e \in 1..MaxDialogs : e # d => put[e].at \notin Tuned!Handled
  BY <1>1, <1>2
<1>7. ~(d > current)
  BY <1>1, <1>2, ClosedIs DEF OwnOK
<1>8. CASE file.whole
  <2>1. p = [put[d] EXCEPT !.at = "read", !.merged = merged]
    BY <1>4, <1>8
  <2>2. put[d].payload \in Payloads /\ put[d].payload.workers # 0
    <3>1. put[d].payload \in Payloads
      <4> HIDE DEF Payloads, Files
      <4> QED BY <1>1 DEF Puts
    <3> QED BY <3>1 DEF Payloads
  <2>3. merged \in Files /\ merged.whole = TRUE /\ merged.workers = put[d].payload.workers
        /\ (~Alters(put[d].payload, file) => merged.policy = file.policy)
    BY <1>1, <1>3, <2>2, MergedIs
  <2>4. p \in Puts /\ p.at = "read" /\ p.merged = merged /\ p.payload = put[d].payload /\ p.unedited = put[d].unedited
    <3> HIDE DEF Payloads, Files
    <3> QED BY <1>1, <2>1, <2>3 DEF Puts
  <2>5. ~overlapped' => Faithful(dialog[d], p, file)
    <3> SUFFICES ASSUME ~overlapped' PROVE Faithful(dialog[d], p, file)
      OBVIOUS
    <3>1. Faithful(dialog[d], put[d], file)
      BY <1>1, <1>6 DEF OwnOK
    <3> QED BY <1>2, <2>3, <2>4, <3>1 DEF Faithful
  <2>6. OwnOK(d, dialog[d], p, file, current, overlapped')
    BY <1>1, <1>7, <2>2, <2>3, <2>4, <2>5 DEF OwnOK
  <2> QED BY <1>1, <1>2, <1>5, <1>6, <2>4, <2>6, HandledKeeps
<1>9. CASE ~file.whole
  <2>1. p = [put[d] EXCEPT !.at = "failed"]
    BY <1>4, <1>9
  <2>2. p \in Puts /\ p.at = "failed" /\ p.unedited = put[d].unedited
    BY <1>1, <2>1 DEF Puts
  <2>3. OwnOK(d, dialog[d], p, file, current, overlapped')
    BY <1>1, <1>6, <1>7, <2>2 DEF OwnOK, Faithful
  <2> QED BY <1>1, <1>2, <1>5, <1>6, <2>2, <2>3, HandledKeeps
<1> QED BY <1>8, <1>9

LEMMA TmpKeeps ==
  ASSUME SettingsInv, NEW d \in 1..MaxDialogs, Tuned!OpenTmp(d) \/ Tuned!WriteTmp(d)
  PROVE  SettingsInv'
<1>1. /\ dialog[d] \in Shown /\ put[d] \in Puts /\ OwnOK(d, dialog[d], put[d], file, current, overlapped)
      /\ file \in Files /\ tmp \in Files /\ overlapped \in BOOLEAN /\ OneAtATime
  BY Own DEF SettingsInv, SettingsTyped
<1>2. UNCHANGED <<dialog, file, running, current, overlapped>>
  BY DEF Tuned!OpenTmp, Tuned!WriteTmp, Tuned!Opens
<1>3. Tuned!Torn \in Files
  BY Bounds DEF Files, Policies, Tuned!Torn, Tuned!None
<1>4. put[d].merged \in Files
  <2> HIDE DEF Payloads, Files
  <2> QED BY <1>1 DEF Puts
<1>5. PICK at1 \in {"opened", "written"} :
        /\ put' = [put EXCEPT ![d].at = at1] /\ put[d].at \in {"read", "opened"}
        /\ \/ at1 = "opened" /\ tmp' = Tuned!Torn
           \/ /\ at1 = "written"
              /\ tmp' \in {put[d].merged} \cup {Tuned!Torn : o \in {o \in (1..MaxDialogs) \ {d} : put[o].at \in {"opened", "written"}}}
  BY DEF Tuned!OpenTmp, Tuned!WriteTmp, Tuned!Opens, Tuned!Dialogs
<1>6. tmp' \in Files
  BY <1>3, <1>4, <1>5
<1>7. PICK p : p = [put[d] EXCEPT !.at = at1]
  OBVIOUS
<1>8. put' = [put EXCEPT ![d] = p]
  BY <1>5, <1>7
<1>9. /\ p \in Puts /\ p.at = at1 /\ p.merged = put[d].merged /\ p.payload = put[d].payload /\ p.unedited = put[d].unedited
  <2> HIDE DEF Payloads, Files
  <2> QED BY <1>1, <1>7 DEF Puts
<1>10. put[d].at \in Tuned!Handled
  BY <1>5 DEF Tuned!Handled
<1>11. ~overlapped => \A e \in 1..MaxDialogs : e # d => put[e].at \notin Tuned!Handled
  BY <1>1, <1>10 DEF OneAtATime
<1>12. ~overlapped /\ p.at = "written" => tmp' = p.merged
  <2> SUFFICES ASSUME ~overlapped, p.at = "written" PROVE tmp' = p.merged
    OBVIOUS
  <2>1. \A o \in (1..MaxDialogs) \ {d} : put[o].at \notin {"opened", "written"}
    BY <1>11 DEF Tuned!Handled
  <2>2. tmp' \in {put[d].merged}
    BY <1>5, <1>9, <2>1
  <2> QED BY <1>9, <2>2
<1>13. ~(d > current)
  BY <1>1, <1>5, ClosedIs DEF OwnOK
<1>14. OwnOK(d, dialog[d], p, file, current, overlapped)
  BY <1>1, <1>5, <1>9, <1>13 DEF OwnOK, Faithful
<1> QED BY <1>1, <1>2, <1>6, <1>8, <1>9, <1>11, <1>12, <1>14, HandledKeeps

\* Whatever was stored, nobody's settings are fresh any more.
LEMMA ReplaceKeeps == ASSUME SettingsInv, NEW d \in 1..MaxDialogs, Tuned!Replace(d) PROVE SettingsInv'
<1>1. /\ dialog[d] \in Shown /\ put[d] \in Puts /\ OwnOK(d, dialog[d], put[d], file, current, overlapped)
      /\ OneAtATime /\ SettingsTyped
  BY Own DEF SettingsInv
<1>2. put[d].at = "written" /\ UNCHANGED <<tmp, running, current, overlapped>>
  BY DEF Tuned!Replace
<1>3. CASE \E o \in (1..MaxDialogs) \ {d} : put[o].at = "opened"
  <2>1. put' = [put EXCEPT ![d].at = "failed"] /\ UNCHANGED <<file, dialog>>
    BY <1>3 DEF Tuned!Replace, Tuned!Dialogs
  <2>2. PICK p : p = [put[d] EXCEPT !.at = "failed"]
    OBVIOUS
  <2>3. p \in Puts /\ p.at = "failed" /\ p.unedited = put[d].unedited
    BY <1>1, <2>2 DEF Puts
  <2>4. put' = [put EXCEPT ![d] = p]
    BY <2>1, <2>2
  <2> QED BY <1>2, <2>1, <2>3, <2>4, ThroughKeeps
<1>4. CASE ~\E o \in (1..MaxDialogs) \ {d} : put[o].at = "opened"
  <2>1. /\ put' = [put EXCEPT ![d].at = "replaced"] /\ file' = tmp
        /\ dialog' = [o \in 1..MaxDialogs |-> [dialog[o] EXCEPT !.fresh = FALSE]]
    BY <1>4 DEF Tuned!Replace, Tuned!Dialogs
  <2>2. \A e \in 1..MaxDialogs :
          /\ put'[e] \in Puts /\ put'[e].at = (IF e = d THEN "replaced" ELSE put[e].at)
          /\ put'[e].unedited = put[e].unedited /\ put'[e].merged = put[e].merged /\ (e # d => put'[e] = put[e])
    <3> SUFFICES ASSUME NEW e \in 1..MaxDialogs
                 PROVE  /\ put'[e] \in Puts /\ put'[e].at = (IF e = d THEN "replaced" ELSE put[e].at)
                        /\ put'[e].unedited = put[e].unedited /\ put'[e].merged = put[e].merged /\ (e # d => put'[e] = put[e])
      OBVIOUS
    <3>1. PICK p : p = [put[d] EXCEPT !.at = "replaced"]
      OBVIOUS
    <3>2. p \in Puts /\ p.at = "replaced" /\ p.unedited = put[d].unedited /\ p.merged = put[d].merged
      BY <1>1, <3>1 DEF Puts
    <3>3. put' = [put EXCEPT ![d] = p] /\ put \in [1..MaxDialogs -> Puts]
      BY <1>1, <2>1, <3>1 DEF SettingsTyped
    <3>4. put'[e] = IF e = d THEN p ELSE put[e]
      <4> HIDE DEF Puts
      <4> QED BY <3>3
    <3>5. put[e] \in Puts
      BY Own
    <3> HIDE DEF Puts
    <3> QED BY <3>2, <3>4, <3>5
  <2>3. \A e \in 1..MaxDialogs :
          /\ dialog'[e] \in Shown /\ ~dialog'[e].fresh /\ dialog'[e].open = dialog[e].open /\ dialog'[e].load = dialog[e].load
          /\ dialog'[e].edited = dialog[e].edited /\ dialog'[e].custom = dialog[e].custom
    <3> SUFFICES ASSUME NEW e \in 1..MaxDialogs
                 PROVE  /\ dialog'[e] \in Shown /\ ~dialog'[e].fresh /\ dialog'[e].open = dialog[e].open
                        /\ dialog'[e].load = dialog[e].load
                        /\ dialog'[e].edited = dialog[e].edited /\ dialog'[e].custom = dialog[e].custom
      OBVIOUS
    <3>1. dialog[e] \in Shown /\ dialog'[e] = [dialog[e] EXCEPT !.fresh = FALSE]
      BY <2>1, Own
    <3> QED BY <3>1 DEF Shown
  <2>4. \A e \in 1..MaxDialogs : OwnOK(e, dialog'[e], put'[e], file', current', overlapped')
    <3> SUFFICES ASSUME NEW e \in 1..MaxDialogs PROVE OwnOK(e, dialog'[e], put'[e], file', current, overlapped)
      BY <1>2
    <3>1. OwnOK(e, dialog[e], put[e], file, current, overlapped)
      BY Own
    <3>2. ~(d > current)
      BY <1>1, <1>2, ClosedIs DEF OwnOK
    <3>3. Faithful(dialog'[e], put'[e], file')
      BY <2>3 DEF Faithful
    <3> QED BY <1>2, <2>2, <2>3, <3>1, <3>2, <3>3 DEF OwnOK
  <2>5. SettingsTyped'
    <3>1. dialog' \in [1..MaxDialogs -> Shown] /\ put' \in [1..MaxDialogs -> Puts]
      <4>1. put \in [1..MaxDialogs -> Puts] /\ DOMAIN put' = DOMAIN put
        BY <1>1, <2>1 DEF SettingsTyped
      <4>2. put' = [e \in 1..MaxDialogs |-> put'[e]]
        BY <2>1, <4>1
      <4> HIDE DEF Puts, Shown
      <4> QED BY <2>1, <2>2, <2>3, <4>2
    <3> QED BY <1>1, <1>2, <2>1, <3>1 DEF SettingsTyped
  <2>6. OneAtATime'
    <3> SUFFICES ASSUME ~overlapped
                 PROVE  /\ tmp.whole /\ (tmp.workers = 0 => running.workers = 2)
                        /\ \A e, g \in 1..MaxDialogs : put'[e].at \in Tuned!Handled /\ put'[g].at \in Tuned!Handled => e = g
                        /\ \A e \in 1..MaxDialogs : put'[e].at = "written" => tmp = put'[e].merged
      BY <1>2, <2>1 DEF OneAtATime
    <3>1. tmp = put[d].merged /\ put[d].merged.whole
      BY <1>1, <1>2 DEF OneAtATime, OwnOK
    <3>2. \A e \in 1..MaxDialogs : put'[e].at \in Tuned!Handled => put[e].at \in Tuned!Handled
      BY <1>2, <2>2 DEF Tuned!Handled
    <3>3. \A e \in 1..MaxDialogs : put'[e].at = "written" => put[e].at = "written"
      BY <2>2
    <3>4. tmp.workers # 0
      BY <1>1, <1>2, <3>1 DEF OwnOK
    <3> QED BY <1>1, <2>2, <3>1, <3>2, <3>3, <3>4 DEF OneAtATime
  <2> QED BY <2>4, <2>5, <2>6 DEF SettingsInv
<1> QED BY <1>3, <1>4

LEMMA CrashKeeps == ASSUME SettingsInv, Tuned!Crash PROVE SettingsInv'
<1>1. /\ put' = [d \in 1..MaxDialogs |-> IF put[d].at \in Tuned!Handled THEN [put[d] EXCEPT !.at = "failed"] ELSE put[d]]
      /\ UNCHANGED <<file, tmp, running, dialog, current, overlapped>>
  BY DEF Tuned!Crash, Tuned!Dialogs
<1>2. SettingsTyped /\ OneAtATime
  BY DEF SettingsInv
<1>3. ASSUME NEW d \in 1..MaxDialogs
      PROVE  /\ put'[d] \in Puts /\ put'[d].at \notin Tuned!Handled /\ put'[d].at # "written"
             /\ OwnOK(d, dialog[d], put'[d], file, current, overlapped)
  <2>1. put[d] \in Puts /\ OwnOK(d, dialog[d], put[d], file, current, overlapped)
    BY Own
  <2>2. CASE put[d].at \in Tuned!Handled
    <3>1. put'[d] = [put[d] EXCEPT !.at = "failed"]
      BY <1>1, <2>2
    <3>2. put'[d] \in Puts /\ put'[d].at = "failed" /\ put'[d].unedited = put[d].unedited
      BY <2>1, <3>1 DEF Puts
    <3>3. ~(d > current)
      BY <2>1, <2>2, ClosedIs DEF OwnOK, Tuned!Handled
    <3>4. put'[d].at \notin Tuned!Handled
      BY <3>2 DEF Tuned!Handled
    <3> QED BY <2>1, <3>2, <3>3, <3>4 DEF OwnOK, Faithful
  <2>3. CASE put[d].at \notin Tuned!Handled
    <3>1. put'[d] = put[d]
      BY <1>1, <2>3
    <3>2. put[d].at # "written"
      BY <2>3 DEF Tuned!Handled
    <3> QED BY <2>1, <2>3, <3>1, <3>2
  <2> QED BY <2>2, <2>3
<1>4. put' \in [1..MaxDialogs -> Puts]
  <2>1. put' = [d \in 1..MaxDialogs |-> put'[d]]
    BY <1>1
  <2>2. \A d \in 1..MaxDialogs : put'[d] \in Puts
    BY <1>3
  <2> HIDE DEF Puts
  <2> QED BY <2>1, <2>2
<1>5. SettingsTyped'
  BY <1>1, <1>2, <1>4 DEF SettingsTyped
<1>6. OneAtATime'
  BY <1>1, <1>2, <1>3 DEF OneAtATime
<1>7. \A d \in 1..MaxDialogs : OwnOK(d, dialog'[d], put'[d], file', current', overlapped')
  BY <1>1, <1>3
<1> QED BY <1>5, <1>6, <1>7 DEF SettingsInv

LEMMA StartIs == ASSUME SettingsInv, Tuned!Start PROVE SettingsInv'
<1>1. /\ running' = Tuned!NextStart(file) /\ UNCHANGED <<file, tmp, dialog, put, current, overlapped>>
  BY DEF Tuned!Start
<1>2. SettingsTyped /\ OneAtATime /\ file \in Files
  BY DEF SettingsInv, SettingsTyped
<1>3. running' \in Started /\ (file.workers = 0 => running'.workers = 2)
  BY <1>1, <1>2 DEF Files, Started, Tuned!NextStart, Tuned!None, Tuned!Default
<1>4. SettingsTyped' /\ OneAtATime'
  BY <1>1, <1>2, <1>3 DEF SettingsTyped, OneAtATime
<1> QED BY <1>1, <1>4 DEF SettingsInv

LEMMA SettingsStep == ASSUME SettingsInv, [Tuned!Next]_(Tuned!vars) PROVE SettingsInv'
<1>1. CASE Tuned!Next
  BY <1>1, CloseKeeps, EditKeeps, SaveKeeps, LoadedKeeps7, BuildKeeps, SavedKeeps, GetKeeps,
     ReplyKeeps, FailsKeeps,
     OpenSettingsKeeps, ReadKeeps, TmpKeeps, ReplaceKeeps, CrashKeeps, StartIs DEF Tuned!Next, Tuned!Dialogs
<1>2. CASE UNCHANGED Tuned!vars
  BY <1>2 DEF Tuned!vars, SettingsInv, SettingsTyped, OneAtATime
<1> QED BY <1>1, <1>2

\* What the settings rely on always holds of them.
LEMMA SettingsInvHolds == Tuned!Spec => []SettingsInv
BY SettingsInit, SettingsStep, PTL DEF Tuned!Spec

LEMMA SettingsShow == ASSUME SettingsInv PROVE Tuned!WholeUnlessOverlapped /\ Tuned!TypeOK
<1>1. SettingsTyped /\ OneAtATime
  BY DEF SettingsInv
<1>2. Tuned!WholeUnlessOverlapped
  BY <1>1 DEF OneAtATime, Tuned!WholeUnlessOverlapped
<1>3. file.whole \in BOOLEAN /\ file.workers \in 0..2 /\ file.policy \in 0..(2 * (Mib + 1)) /\ current \in 0..MaxDialogs
  BY <1>1 DEF SettingsTyped, Files, Policies
<1>4. ASSUME NEW d \in 1..MaxDialogs
      PROVE  /\ dialog[d].open => d = current
             /\ put[d].payload.workers \in {1, 2}
  <2>1. put[d] \in Puts /\ OwnOK(d, dialog[d], put[d], file, current, overlapped)
    BY Own
  <2>2. put[d].payload \in Payloads
    <3> HIDE DEF Payloads, Files
    <3> QED BY <2>1 DEF Puts
  <2> QED BY <2>1, <2>2 DEF OwnOK, Payloads
<1> QED BY <1>2, <1>3, <1>4 DEF Tuned!TypeOK, Tuned!Dialogs

\* A save of settings that nobody edited, over those that were loaded, changes nothing.
LEMMA UneditedChangesNothing ==
  ASSUME SettingsInv, [Tuned!Next]_(Tuned!vars), NEW d \in 1..MaxDialogs,
         put[d].at = "written", put'[d].at = "replaced", ~overlapped, put[d].unedited, dialog[d].fresh
  PROVE  Tuned!NextStart(file') = Tuned!NextStart(file)
<1>1. put[d] \in Puts /\ OwnOK(d, dialog[d], put[d], file, current, overlapped) /\ OneAtATime
  BY Own DEF SettingsInv
<1>2. /\ tmp = put[d].merged /\ tmp.workers = StartsWith(file) /\ tmp.policy = file.policy /\ tmp.workers # 0
  BY <1>1 DEF OneAtATime, OwnOK, Faithful
<1>3. file' = file \/ file' = tmp
  BY DEF Tuned!Next, Tuned!vars, Tuned!Open, Tuned!Fails, Tuned!Crash, Tuned!Start, Tuned!Close,
     Tuned!Edit, Tuned!Save,
         Tuned!Loaded, Tuned!Build, Tuned!Saved, Tuned!GetSettings, Tuned!ReadStored, Tuned!OpenTmp, Tuned!Opens,
         Tuned!WriteTmp, Tuned!Replace, Tuned!Reply, Tuned!service
<1>4. CASE file' = tmp
  BY <1>2, <1>4 DEF Tuned!NextStart, Tuned!None, Tuned!Default, StartsWith
<1>5. CASE file' = file
  BY <1>5
<1> QED BY <1>3, <1>4, <1>5

\* get_settings, put_settings, _settings_loaded: over any number of dialogs, crashes
\* and failed requests the file is torn only where saves overlapped, and who saves what
\* was loaded, without an edit and with nobody's save in between, changes nothing of
\* what the next start runs with.
THEOREM SettingsKept == Tuned!Spec => SettingsAreKept
<1>1. ASSUME SettingsInv, [Tuned!Next]_(Tuned!vars)
      PROVE  [\A d \in Tuned!Dialogs :
                /\ put[d].at = "written" /\ put'[d].at = "replaced" /\ ~overlapped
                /\ put[d].unedited /\ dialog[d].fresh
                => Tuned!NextStart(file') = Tuned!NextStart(file)]_(Tuned!vars)
  BY <1>1, UneditedChangesNothing DEF Tuned!Dialogs
<1>2. SettingsInv => Tuned!WholeUnlessOverlapped
  BY SettingsShow
<1> QED BY <1>1, <1>2, SettingsInvHolds, PTL DEF Tuned!Spec, SettingsAreKept, Tuned!SaveKeepsWhatIsStaged

---------------------------------------------------------------------------
(* The parts together *)

\* run_preflight, apply_migrations: a probe that found all an upload takes, or that may
\* delete and met no failure, leaves no object and no old version; and whoever opened the
\* database finds the whole schema, however many open it at once and wherever they die.
THEOREM NothingStaysHalfDone == Probed!Spec /\ Opened!Spec => []NothingIsHalfDone
<1>1. ProbeInv /\ OpenInv => NothingIsHalfDone
  BY ProbeLeavesNothing, OpenIsMigrated DEF NothingIsHalfDone
<1> QED BY <1>1, ProbeInvHolds, OpenInvHolds, PTL

\* _profile_created, _delete_failed, _maybe_remote_preview_done: the probes pass only
\* on the page the service's answer leads to, a connection said to have jobs has some,
\* and the totals of a bucket are of the connection and the prefix the form shows, in
\* whatever order the answers to older requests come in.
THEOREM WhatIsShownIsTrue == Dialogs!Spec /\ Form!Spec => []ShownIsTrue
<1>1. DialogInv /\ FormInv => ShownIsTrue
  BY DialogsShow, FormShows DEF ShownIsTrue
<1> QED BY <1>1, DialogInvHolds, FormInvHolds, PTL

\* Each part (create_profile, _start_create, _restart_preview, run_preflight,
\* put_settings, apply_migrations) stays in a state of its own: no two connections have
\* a name in common and no two requests a credential, ids are at most one more than the
\* credentials ever saved, and a page that waits has the one request it waits for.
THEOREM ConnectingStaysTyped ==
  Spec /\ Dialogs!Spec /\ Form!Spec /\ Probed!Spec /\ Tuned!Spec /\ Opened!Spec => []WellTyped
<1>1. Spec => []TypeOK
  BY RowsStayTyped, ConnectingAssumption
<1>2. TypeOK /\ DialogInv /\ FormInv /\ ProbeInv /\ SettingsInv /\ OpenInv => WellTyped
  BY DialogsShow, FormShows, ProbeLeavesNothing, SettingsShow, OpenIsMigrated DEF WellTyped
<1> QED BY <1>1, <1>2, DialogInvHolds, FormInvHolds, ProbeInvHolds, SettingsInvHolds, OpenInvHolds, PTL
=============================================================================
