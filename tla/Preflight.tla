---------------------------- MODULE Preflight ----------------------------
(***************************************************************************)
(* run_preflight (auth/preflight.py): what a credential can do is found    *)
(* out by doing it, with probe objects that are deleted by generation, so  *)
(* that a bucket that keeps versions keeps none of them; for a credential  *)
(* that may do some of it, over requests that fail before or after they    *)
(* are done.                                                               *)
(***************************************************************************)
EXTENDS Naturals, Sequences

CONSTANTS MaxFaults   \* bound: requests that fail

Capabilities == {"list", "read", "write", "compose", "delete"}

VARIABLES
  may,       \* what the credential is granted
  objects,   \* the probe objects of which the bucket has any version
  written,   \* the names, with their generations, that the probe knows of
  can,       \* what was found out
  cleaned,   \* how many of them were tried to delete, and whether one failed
  at,        \* the operation that is next
  faults     \* what was used of the bound

vars == <<may, objects, written, can, cleaned, at, faults>>

TypeOK ==
  /\ can \subseteq may /\ faults \in 0..MaxFaults
  /\ at \in {"list", "a", "b", "read", "composed", "delete", "done"}
  /\ Len(written) <= 3 /\ cleaned.n \in 0..Len(written)
  /\ "compose" \in can => "write" \in can

Init ==
  /\ may \in SUBSET Capabilities
  /\ objects = {} /\ written = <<>> /\ can = {} /\ at = "list" /\ cleaned = [n |-> 0, failed |-> FALSE] /\ faults = 0

\* An operation is refused; or fails, done or not; or is done and answered.
Fails(capability, done) ==
  \/ capability \notin may /\ UNCHANGED <<objects, faults>>
  \/ /\ faults < MaxFaults /\ faults' = faults + 1
     /\ UNCHANGED objects \/ (capability \in may /\ done)
Succeeds(capability, done) == capability \in may /\ done /\ UNCHANGED faults

ListProbe ==
  /\ at = "list" /\ at' = "a"
  /\ \/ Fails("list", UNCHANGED objects) /\ UNCHANGED can
     \/ Succeeds("list", UNCHANGED objects) /\ can' = can \cup {"list"}
  /\ UNCHANGED <<may, written, cleaned>>

\* The second object is tried if the first was written; it takes both.
Stores(name) == objects' = objects \cup {name}
OnlyWritten(name) == IF name = "composed" THEN written ELSE Append(written, name)
Recorded(name) == Append(written, name)
WriteProbe(name) ==
  /\ at = name
  /\ \/ Fails("write", Stores(name)) /\ UNCHANGED <<written, can>> /\ at' = "read"
     \/ /\ Succeeds("write", Stores(name)) /\ written' = Recorded(name)
        /\ at' = IF name = "a" THEN "b" ELSE "read"
        /\ can' = IF name = "a" THEN can ELSE can \cup {"write"}
  /\ UNCHANGED <<may, cleaned>>

Composable == Len(written) = 2
ReadProbe ==
  /\ at = "read" /\ at' = IF Composable THEN "composed" ELSE "delete"
  /\ \/ Fails("read", UNCHANGED objects) /\ UNCHANGED can
     \/ Succeeds("read", UNCHANGED objects) /\ can' = can \cup {"read"}
  /\ UNCHANGED <<may, written, cleaned>>

ComposeProbe ==
  /\ at = "composed" /\ at' = "delete"
  /\ \/ Fails("compose", Stores("composed")) /\ UNCHANGED <<written, can>>
     \/ /\ Succeeds("compose", Stores("composed")) /\ written' = Recorded("composed")
        /\ can' = can \cup {"compose"}
  /\ UNCHANGED <<may, cleaned>>

\* delete_object of each, by its generation; one that fails does not spare the
\* others, and can_delete is said if there was anything and none failed.
Deleted(name) == objects \ {name}
DeleteProbe ==
  /\ at = "delete" /\ cleaned.n < Len(written)
  /\ LET gone == objects' = Deleted(written[cleaned.n + 1])
     IN \E fails \in BOOLEAN :
          /\ cleaned' = [n |-> cleaned.n + 1, failed |-> cleaned.failed \/ fails]
          /\ IF fails THEN Fails("delete", gone) ELSE Succeeds("delete", gone)
  /\ UNCHANGED <<may, written, can, at>>
Finish ==
  /\ at = "delete" /\ cleaned.n = Len(written) /\ at' = "done"
  /\ can' = IF written # <<>> /\ ~cleaned.failed THEN can \cup {"delete"} ELSE can
  /\ UNCHANGED <<may, objects, written, cleaned, faults>>

Next ==
  \/ ListProbe \/ WriteProbe("a") \/ WriteProbe("b") \/ ReadProbe \/ ComposeProbe
  \/ DeleteProbe \/ Finish
Spec == Init /\ [][Next]_vars

---------------------------------------------------------------------------
(* Properties *)

\* run_preflight leaves nothing behind, not even an old version, if the
\* credential turns out to have all that an upload takes; or if it may delete and
\* no request failed, whatever else it may not do.
LeavesNothing ==
  /\ at = "done"
  /\ {"write", "compose", "delete"} \subseteq can \/ ("delete" \in may /\ faults = 0)
  => objects = {}
=============================================================================
