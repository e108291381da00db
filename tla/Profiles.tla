----------------------------- MODULE Profiles -----------------------------
(***************************************************************************)
(* The connections the service keeps: rows of profiles, each with its      *)
(* encrypted credential in a file of its own (auth/credential_store.py),   *)
(* while requests create, check and delete them and submit jobs over them  *)
(* in threads of their own (service/app.py), the service dies between any  *)
(* two of their steps, and the next one sweeps what was left behind        *)
(* (worker.startup_recovery, host.start).                                  *)
(*                                                                         *)
(* Every request's transactions are steps of their own; ids are given as   *)
(* SQLite gives them, one more than the highest there is.                  *)
(***************************************************************************)
EXTENDS Integers, FiniteSets, FiniteSetsExt, Functions

CONSTANTS
  Threads,      \* the threads that serve requests
  Names,        \* the names users give
  Found,        \* the names of the connections made for a bucket, a function of the attempt
  MaxCredentials, MaxJobs, MaxFaults, MaxCrashes   \* bounds

VARIABLES
  profiles,   \* the rows: from ids to [name, ref], the ref of a stored credential or NoRef
  jobs,       \* the rows of jobs, each by the profile it has
  blobs,      \* the refs whose files are there
  saved,      \* how many credentials were ever saved
  up,         \* whether the service serves requests
  thread,     \* per thread, its request and where it is
  last, reused,   \* the id given last, and whether one was given again (history)
  spent       \* what was used of the bounds

given == <<last, reused>>
vars == <<profiles, jobs, blobs, saved, up, thread, given, spent>>

NoRef == 0
Refs == 1..MaxCredentials
Ids == 1..(MaxCredentials + 1)
Row == [name: Names \cup Range(Found), ref: Refs \cup {NoRef}]
Idle == [at |-> "idle", name |-> "none", id |-> 0, ref |-> NoRef]

TypeOK ==
  /\ IsInjective([i \in DOMAIN profiles |-> profiles[i].name])
  /\ DOMAIN profiles \subseteq Ids /\ \A i \in DOMAIN profiles : profiles[i] \in Row
  /\ blobs \subseteq 1..saved /\ saved \in 0..MaxCredentials
  /\ \A t \in Threads :
       /\ thread[t].at \in {"idle", "save", "create", "undo", "validate", "load", "submit",
                            "count", "delete", "remove"}
       /\ thread[t].at # "idle" => up
       /\ thread[t].at \in {"create", "undo"} => thread[t].ref \in blobs
  /\ \A s, t \in Threads : thread[s].at = "create" /\ thread[t].at = "create" /\ s # t
                             => thread[s].ref # thread[t].ref

NameOf(i) == profiles[i].name
Taken == {NameOf(i) : i \in DOMAIN profiles}
Referenced == {profiles[i].ref : i \in DOMAIN profiles} \ {NoRef}

\* INTEGER PRIMARY KEY: a deleted highest id is given again.
NextId == IF DOMAIN profiles = {} THEN 1 ELSE Max(DOMAIN profiles) + 1
Insert(row) ==
  /\ profiles' = [i \in DOMAIN profiles \cup {NextId} |-> IF i = NextId THEN row ELSE profiles[i]]
  /\ last' = NextId /\ reused' = (reused \/ NextId <= last)

Init ==
  /\ profiles = <<>> /\ jobs = {} /\ blobs = {} /\ saved = 0 /\ up = TRUE
  /\ thread = [t \in Threads |-> Idle]
  /\ last = 0 /\ reused = FALSE
  /\ spent = [jobs |-> 0, faults |-> 0, crashes |-> 0]

Goes(t, at) == thread' = [thread EXCEPT ![t].at = at]
\* The request is answered, with what was asked or with an error.
Answer(t) == thread' = [thread EXCEPT ![t] = Idle]
Begins(t, at) == up /\ thread[t].at = "idle" /\ thread' = [thread EXCEPT ![t] = at]
Fault == spent.faults < MaxFaults /\ spent' = [spent EXCEPT !.faults = @ + 1]

---------------------------------------------------------------------------
(* POST /profiles *)

\* Preflight is passed before anything is stored.
Create(t) ==
  /\ \E n \in Names : Begins(t, [Idle EXCEPT !.at = "save", !.name = n])
  /\ UNCHANGED <<profiles, given, jobs, blobs, saved, up, spent>>

\* CredentialStore.save, under a new ref.
Save(t) ==
  /\ thread[t].at = "save" /\ saved < MaxCredentials
  /\ saved' = saved + 1 /\ blobs' = blobs \cup {saved'}
  /\ thread' = [thread EXCEPT ![t].at = "create", ![t].ref = saved']
  /\ UNCHANGED <<profiles, given, jobs, up, spent>>

\* UNIQUE(name) decides; a database that stays locked fails the request.
CreateProfile(t) ==
  /\ thread[t].at = "create"
  /\ \/ /\ thread[t].name \in Taken /\ Goes(t, "undo") /\ UNCHANGED <<profiles, given, spent>>
     \/ /\ thread[t].name \notin Taken
        /\ Insert([name |-> thread[t].name, ref |-> thread[t].ref])
        /\ thread' = [thread EXCEPT ![t].at = "validate", ![t].id = NextId]
        /\ UNCHANGED spent
     \/ Fault /\ Answer(t) /\ UNCHANGED <<profiles, given>>
  /\ UNCHANGED <<jobs, blobs, saved, up>>
Undo(t) ==
  /\ thread[t].at = "undo" /\ blobs' = blobs \ {thread[t].ref} /\ Answer(t)
  /\ UNCHANGED <<profiles, given, jobs, saved, up, spent>>

\* set_profile_validated: of whatever has the id now; nobody is a LookupError.
Validate(t) ==
  /\ thread[t].at = "validate" /\ Answer(t)
  /\ UNCHANGED <<profiles, given, jobs, blobs, saved, up, spent>>

---------------------------------------------------------------------------
(* POST /profiles/{id}/check and /preview, and POST /jobs *)

\* The row is read and the connection closed.
Check(t) ==
  /\ \E i \in DOMAIN profiles : Begins(t, [Idle EXCEPT !.at = "load", !.id = i, !.ref = profiles[i].ref])
  /\ UNCHANGED <<profiles, given, jobs, blobs, saved, up, spent>>
\* Submission names the connection.
SubmitOver(t) ==
  /\ spent.jobs < MaxJobs
  /\ \E i \in DOMAIN profiles :
       Begins(t, [at |-> "load", name |-> NameOf(i), id |-> i, ref |-> profiles[i].ref])
  /\ UNCHANGED <<profiles, given, jobs, blobs, saved, up, spent>>
\* context_for_profile; the probes fail, or a preview ends here.
Load(t) ==
  /\ thread[t].at = "load"
  /\ \/ thread[t].ref \in blobs \cup {NoRef}
        /\ Goes(t, IF thread[t].name = "none" THEN "validate" ELSE "submit")
     \/ Answer(t)
  /\ UNCHANGED <<profiles, given, jobs, blobs, saved, up, spent>>

\* set_profile_validated and, after BEGIN IMMEDIATE, create_job: a foreign key; a
\* job that is there already may be refused as a duplicate.
References(i) == i \in DOMAIN profiles
CreateJob(t) ==
  /\ thread[t].at = "submit" /\ Answer(t)
  /\ \/ /\ References(thread[t].id) /\ jobs' = jobs \cup {thread[t].id}
        /\ spent' = [spent EXCEPT !.jobs = @ + 1]
     \/ (~References(thread[t].id) \/ jobs # {}) /\ UNCHANGED <<jobs, spent>>
  /\ UNCHANGED <<profiles, given, blobs, saved, up>>

\* A submission to a bucket: get_or_create_profile in the job's transaction.
FirstFree == IF \E k \in DOMAIN Found : Found[k] \notin Taken
             THEN Found[Min({k \in DOMAIN Found : Found[k] \notin Taken})] ELSE "none"
Twins == {i \in DOMAIN profiles : profiles[i].ref = NoRef}
SubmitToBucket ==
  /\ up /\ spent.jobs < MaxJobs /\ spent' = [spent EXCEPT !.jobs = @ + 1]
  /\ \/ Twins # {} /\ jobs' = jobs \cup {Min(Twins)} /\ UNCHANGED <<profiles, given>>
     \/ /\ Twins = {} /\ FirstFree # "none"
        /\ Insert([name |-> FirstFree, ref |-> NoRef]) /\ jobs' = jobs \cup {NextId}
  /\ UNCHANGED <<blobs, saved, up, thread>>

---------------------------------------------------------------------------
(* DELETE /profiles/{id} *)

Delete(t) ==
  /\ \E i \in DOMAIN profiles : Begins(t, [Idle EXCEPT !.at = "count", !.id = i, !.ref = profiles[i].ref])
  /\ UNCHANGED <<profiles, given, jobs, blobs, saved, up, spent>>
\* A profile that jobs have is refused, one that is gone is not found.
Count(t) ==
  /\ thread[t].at = "count"
  /\ IF thread[t].id \in DOMAIN profiles \ jobs THEN Goes(t, "delete") ELSE Answer(t)
  /\ UNCHANGED <<profiles, given, jobs, blobs, saved, up, spent>>
\* The foreign key holds against a job that came meanwhile.
DeleteProfile(t) ==
  /\ thread[t].at = "delete"
  /\ IF thread[t].id \in jobs THEN Answer(t) /\ UNCHANGED <<profiles, given>>
     ELSE /\ profiles' = Restrict(profiles, DOMAIN profiles \ {thread[t].id})
          /\ Goes(t, "remove") /\ UNCHANGED given
  /\ UNCHANGED <<jobs, blobs, saved, up, spent>>
BeforeTheRow(t) == thread[t].at \in {"count", "delete", "remove"} /\ blobs' = blobs \ {thread[t].ref}
BehindTheRow(t) == thread[t].at = "remove" /\ blobs' = blobs \ {thread[t].ref}
\* The file behind the row; a file that is held stays.
RemoveBlob(t) ==
  /\ \/ BehindTheRow(t) /\ UNCHANGED spent
     \/ thread[t].at = "remove" /\ Fault /\ UNCHANGED blobs
  /\ Answer(t) /\ UNCHANGED <<profiles, given, jobs, saved, up>>

---------------------------------------------------------------------------
(* The service *)

Crash ==
  /\ up /\ spent.crashes < MaxCrashes /\ up' = FALSE
  /\ thread' = [t \in Threads |-> Idle] /\ spent' = [spent EXCEPT !.crashes = @ + 1]
  /\ UNCHANGED <<profiles, given, jobs, blobs, saved>>

\* sweep_orphans, before there is a thread for requests; a held file stays.
Swept == blobs \ Referenced
Start ==
  /\ ~up /\ up' = TRUE
  /\ \/ blobs' = blobs \ Swept /\ UNCHANGED spent
     \/ Swept # {} /\ Fault /\ \E held \in Swept : blobs' = blobs \ (Swept \ {held})
  /\ UNCHANGED <<profiles, given, jobs, saved, thread>>

Serves(t) ==
  \/ Create(t) \/ Save(t) \/ CreateProfile(t) \/ Undo(t) \/ Validate(t)
  \/ Check(t) \/ SubmitOver(t) \/ Load(t) \/ CreateJob(t)
  \/ Delete(t) \/ Count(t) \/ DeleteProfile(t) \/ RemoveBlob(t)
Next == (\E t \in Threads : Serves(t)) \/ SubmitToBucket \/ Crash \/ Start
Spec == Init /\ [][Next]_vars

---------------------------------------------------------------------------
(* Properties *)

\* create_profile, delete_profile, sweep_orphans: a connection there is has its
\* credential, whatever requests meet and wherever the service dies: saved
\* before the row, removed behind it, swept while nobody saves.
CredentialKept == Referenced \subseteq blobs

\* delete_profile against submit_job: a job's connection is there.
JobsKeepTheirProfile == jobs \subseteq DOMAIN profiles

\* A credential of no connection is one a request is about to record or to
\* remove, or was left by a request that failed or by a crash; or two requests
\* deleted one connection, and the second the one that had its id by then.
InHand == {thread[t].ref : t \in {t \in Threads : thread[t].at \in {"create", "undo", "remove"}}}
NoStrays ==
  blobs \ (Referenced \cup InHand) # {} => spent.faults + spent.crashes > 0 \/ reused

\* Nothing dangles: a connection has its credential and a job its connection, whatever
\* requests meet and wherever the service dies, and a credential that is nobody's was
\* left by a failure, a crash or an id given again (service/app.py:620-639, 721-737,
\* auth/credential_store.py:52-72).
NothingDangles == CredentialKept /\ JobsKeepTheirProfile /\ NoStrays
=============================================================================
