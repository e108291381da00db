---------------------------- MODULE Migrations ----------------------------
(***************************************************************************)
(* apply_migrations (store/schema.py), run by every connection of every    *)
(* process as it opens the database: the tables that are missing are made  *)
(* as of the present version, and the steps since the stored version       *)
(* follow, a column and a version each.  Every statement is a transaction, *)
(* of which others see the effect before the next; a process may die, or a *)
(* statement fail, between any two.                                        *)
(***************************************************************************)
EXTENDS Naturals, Sequences

CONSTANTS
  Openers,       \* those that connect
  MaxDeaths      \* bound: processes that die on the way

Latest == 3      \* SCHEMA_VERSION
Tables == <<"schema_version", "profiles", "jobs">>
ColumnOf(version) == IF version = 2 THEN "validated_at" ELSE "archived_at"
TableOf(column) == IF column = "validated_at" THEN "profiles" ELSE "jobs"
Columns == {ColumnOf(v) : v \in 2..Latest}

VARIABLES
  tables,        \* the tables there are
  columns,       \* and those of their columns that came later
  versions,      \* the rows of schema_version
  opener,        \* where each is, with the version it read
  deaths

vars == <<tables, columns, versions, opener, deaths>>

Places == {"script", "read", "insert", "check", "alter", "bump", "open", "failed"}
TypeOK ==
  /\ columns \subseteq {c \in Columns : TableOf(c) \in tables}
  /\ \A i \in DOMAIN versions : versions[i] \in 1..Latest
  /\ \A i \in DOMAIN versions, w \in 2..Latest : w <= versions[i] => ColumnOf(w) \in columns
  /\ opener \in [Openers -> [at : Places, read : 0..Latest, step : 1..Latest + 1]]

\* A step of an opener: what it goes to next, with version its next migration.
Begin == [at |-> "script", read |-> 0, step |-> 1]
Goes(o, at) == opener' = [opener EXCEPT ![o].at = at]

\* No database, or one of an earlier version.
Init ==
  /\ \E v \in 0..Latest :
       /\ tables = IF v = 0 THEN {} ELSE {Tables[i] : i \in DOMAIN Tables}
       /\ columns = {ColumnOf(w) : w \in 2..v}
       /\ versions = IF v = 0 THEN <<>> ELSE <<v>>
  /\ opener = [o \in Openers |-> Begin] /\ deaths = 0

---------------------------------------------------------------------------
\* A statement of the script: a table that is missing is made with all its columns.
MadeWith(table) == {c \in Columns : TableOf(c) = table}
Script(o) ==
  /\ opener[o].at = "script"
  /\ LET table == Tables[opener[o].step]
     IN IF table \in tables THEN UNCHANGED <<tables, columns>>
        ELSE tables' = tables \cup {table} /\ columns' = columns \cup MadeWith(table)
  /\ IF opener[o].step < Len(Tables)
     THEN opener' = [opener EXCEPT ![o].step = @ + 1]
     ELSE opener' = [opener EXCEPT ![o].step = 2, ![o].at = "read"]
  /\ UNCHANGED <<versions, deaths>>

\* The first row decides; a database without one was made just now.
Pending(version, step) == version < step
ReadVersion(o) ==
  /\ opener[o].at = "read"
  /\ IF versions = <<>> THEN Goes(o, "insert")
     ELSE opener' = [opener EXCEPT ![o].read = versions[1], ![o].at = "check"]
  /\ UNCHANGED <<tables, columns, versions, deaths>>
InsertVersion(o) ==
  /\ opener[o].at = "insert" /\ versions' = Append(versions, Latest) /\ Goes(o, "open")
  /\ UNCHANGED <<tables, columns, deaths>>

\* The steps since the version that was read: a column that is there is left, and
\* the version follows the column.
Skips(o) == ColumnOf(opener[o].step) \in columns
Check(o) ==
  /\ opener[o].at = "check" /\ opener[o].step <= Latest
  /\ IF ~Pending(opener[o].read, opener[o].step) THEN opener' = [opener EXCEPT ![o].step = @ + 1]
     ELSE Goes(o, IF Skips(o) THEN "bump" ELSE "alter")
  /\ UNCHANGED <<tables, columns, versions, deaths>>
CheckedAll(o) ==
  /\ opener[o].at = "check" /\ opener[o].step > Latest /\ Goes(o, "open")
  /\ UNCHANGED <<tables, columns, versions, deaths>>

\* A column that another has added since is a duplicate, and connect raises.
AlterTable(o) ==
  /\ opener[o].at = "alter"
  /\ LET column == ColumnOf(opener[o].step)
     IN IF column \in columns THEN Goes(o, "failed") /\ UNCHANGED columns
        ELSE Goes(o, "bump") /\ columns' = columns \cup {column}
  /\ UNCHANGED <<tables, versions, deaths>>

\* UPDATE has no condition: every row gets it, one of a later version too.
Bump(o) ==
  /\ opener[o].at = "bump"
  /\ versions' = [i \in DOMAIN versions |-> opener[o].step]
  /\ opener' = [opener EXCEPT ![o].at = "check", ![o].step = @ + 1]
  /\ UNCHANGED <<tables, columns, deaths>>

\* The process dies, or an error ends it; it, or another, connects again.
Dies(o) ==
  /\ opener[o].at # "failed" /\ deaths < MaxDeaths /\ deaths' = deaths + 1 /\ Goes(o, "failed")
  /\ UNCHANGED <<tables, columns, versions>>
Reopen(o) ==
  /\ opener[o].at = "failed" /\ opener' = [opener EXCEPT ![o] = Begin]
  /\ UNCHANGED <<tables, columns, versions, deaths>>

\* Each gets on; who failed tries again.
Opens(o) ==
  \/ Script(o) \/ ReadVersion(o) \/ InsertVersion(o) \/ Check(o) \/ CheckedAll(o)
  \/ AlterTable(o) \/ Bump(o) \/ Reopen(o)
Next == \E o \in Openers : Opens(o) \/ Dies(o)
Spec == Init /\ [][Next]_vars /\ WF_vars(\E o \in Openers : Opens(o))

---------------------------------------------------------------------------
(* Properties *)

\* A connection that opened finds every table and column, whoever else opens the
\* database or died opening it.
OpenMeansMigrated ==
  \A o \in Openers : opener[o].at = "open" =>
    columns = Columns /\ \A i \in DOMAIN Tables : Tables[i] \in tables

\* Nothing that a death leaves behind, or that another does meanwhile, "can brick the
\* database": who tries again gets it open.
AllOpen == \A o \in Openers : opener[o].at = "open"
OpensInTheEnd == <>[]AllOpen
=============================================================================
