-------------------------- MODULE ProfilesProofs --------------------------
(***************************************************************************)
(* Theorems about Profiles, for any number of requests, connections and    *)
(* crashes: what is kept fits together and stays within its bounds.        *)
(***************************************************************************)
EXTENDS Profiles, WellFoundedInduction, FiniteSetTheorems, TLAPS

---------------------------------------------------------------------------
(* Least and greatest numbers of a set *)

LEMMA Least == ASSUME NEW S \in SUBSET Nat, S # {} PROVE \E m \in S : \A k \in S : m <= k
<1>1. PICK m \in S : \A k \in S : ~ (<<k, m>> \in OpToRel(<, Nat))
  BY WFMin, NatLessThanWellFounded, Zenon
<1>2. \A k \in S : ~ (k < m)
  BY <1>1, Zenon DEF OpToRel
<1> QED BY <1>2

LEMMA MinIs == ASSUME NEW S \in SUBSET Nat, S # {} PROVE Min(S) \in S
  BY Least DEF Min

LEMMA MaxIs ==
  ASSUME NEW K \in Nat, NEW S \in SUBSET (0..K), S # {}
  PROVE  Max(S) \in S /\ \A x \in S : x <= Max(S)
<1> DEFINE D == {k \in Nat : \E x \in S : k = K - x}
<1>1. D \in SUBSET Nat /\ D # {}
  <2>1. PICK x \in S : TRUE
    OBVIOUS
  <2>2. K - x \in D
    OBVIOUS
  <2> QED BY <2>2
<1>2. PICK m \in D : \A k \in D : m <= k
  BY <1>1, Least
<1>3. PICK x \in S : m = K - x
  BY <1>2
<1>4. \A y \in S : x >= y
  <2> SUFFICES ASSUME NEW y \in S PROVE x >= y
    OBVIOUS
  <2>1. K - y \in D
    OBVIOUS
  <2>2. K - x <= K - y
    BY <1>2, <1>3, <2>1
  <2> QED BY <2>2
<1>5. \E z \in S : \A y \in S : z >= y
  BY <1>4
<1>6. Max(S) \in S /\ \A y \in S : Max(S) >= y
  BY <1>5 DEF Max
<1> QED BY <1>6

---------------------------------------------------------------------------
(* The inductive invariant *)

Text == Names \cup Range(Found) \cup {"none"}
Places == {"idle", "save", "create", "undo", "validate", "load", "submit", "count", "delete", "remove"}
Typed ==
  /\ thread \in [Threads -> [at: Places, name: Text, id: Nat, ref: Nat]]
  /\ saved \in Nat /\ blobs \subseteq 1..saved
  /\ \E k \in Nat : DOMAIN profiles \subseteq 0..k
  /\ \A i \in DOMAIN profiles : profiles[i].name \in Text /\ profiles[i].ref \in Nat

RefOf(i) == profiles[i].ref
Making(t) == thread[t].at \in {"create", "undo"}
Unmaking(t) == thread[t].at \in {"count", "delete", "remove"}

\* A credential belongs to one connection, or to the one request that saved it, or
\* to none; the requests that delete its connection know no other by it.
RowsApart ==
  /\ \A i \in DOMAIN profiles : RefOf(i) # NoRef => RefOf(i) \in blobs
  /\ \A i, j \in DOMAIN profiles : RefOf(i) # NoRef /\ RefOf(i) = RefOf(j) => i = j
MakersApart ==
  /\ \A t \in Threads : Making(t) =>
       thread[t].ref \in blobs /\ \A i \in DOMAIN profiles : RefOf(i) # thread[t].ref
  /\ \A s, t \in Threads : Making(s) /\ Making(t) /\ thread[s].ref = thread[t].ref => s = t
UnmakersApart ==
  \A t \in Threads : Unmaking(t) /\ thread[t].ref # NoRef =>
    /\ thread[t].ref <= saved
    /\ \A i \in DOMAIN profiles :
         RefOf(i) = thread[t].ref => i = thread[t].id /\ thread[t].at # "remove"
    /\ \A s \in Threads : Making(s) => thread[s].ref # thread[t].ref
KeptInv == Typed /\ RowsApart /\ MakersApart /\ UnmakersApart /\ JobsKeepTheirProfile

\* A new row gets an id no row has.
LEMMA InsertIs ==
  ASSUME Typed, NEW row, Insert(row)
  PROVE  /\ NextId \in Nat /\ NextId \notin DOMAIN profiles
         /\ DOMAIN profiles' = DOMAIN profiles \cup {NextId}
         /\ profiles'[NextId] = row
         /\ \A i \in DOMAIN profiles : profiles'[i] = profiles[i]
<1> PICK k \in Nat : DOMAIN profiles \subseteq 0..k
  BY DEF Typed
<1>1. NextId \in Nat /\ NextId \notin DOMAIN profiles
  <2>1. CASE DOMAIN profiles = {}
    BY <2>1 DEF NextId
  <2>2. CASE DOMAIN profiles # {}
    <3>1. /\ Max(DOMAIN profiles) \in DOMAIN profiles
          /\ \A x \in DOMAIN profiles : x <= Max(DOMAIN profiles)
      BY <2>2, MaxIs
    <3>2. NextId = Max(DOMAIN profiles) + 1
      BY <2>2 DEF NextId
    <3> HIDE DEF NextId
    <3>3. Max(DOMAIN profiles) \in Nat
      BY <3>1
    <3> QED BY <3>1, <3>2, <3>3
  <2> QED BY <2>1, <2>2
<1> QED BY <1>1 DEF Insert

LEMMA TypedInsert ==
  ASSUME Typed, NEW row \in [name: Text, ref: Nat], Insert(row)
  PROVE  /\ \E k \in Nat : DOMAIN profiles' \subseteq 0..k
         /\ \A i \in DOMAIN profiles' : profiles'[i].name \in Text /\ profiles'[i].ref \in Nat
<1> PICK k \in Nat : DOMAIN profiles \subseteq 0..k
  BY DEF Typed
<1>1. NextId \in Nat /\ DOMAIN profiles' = DOMAIN profiles \cup {NextId}
  BY InsertIs
<1>2. DOMAIN profiles' \subseteq 0..(k + NextId)
  BY <1>1
<1>3. k + NextId \in Nat
  BY <1>1
<1>4. \A i \in DOMAIN profiles' : profiles'[i].name \in Text /\ profiles'[i].ref \in Nat
  BY InsertIs DEF Typed
<1> QED BY <1>2, <1>3, <1>4

---------------------------------------------------------------------------
(* The steps *)

\* What a thread's record is after a step of it.
LEMMA RecordIs ==
  ASSUME Typed, NEW t \in Threads
  PROVE  /\ thread[t] \in [at: Places, name: Text, id: Nat, ref: Nat]
         /\ Idle \in [at: Places, name: Text, id: Nat, ref: Nat]
         /\ \A r : thread' = [thread EXCEPT ![t] = r] =>
              thread'[t] = r /\ \A s \in Threads : s # t => thread'[s] = thread[s]
  BY DEF Typed, Idle, Text, Places, NoRef

\* A step of one request that touches neither rows of profiles nor credentials.
LEMMA ThreadStep ==
  ASSUME KeptInv, JobsKeepTheirProfile', UNCHANGED <<profiles, blobs, saved>>,
         NEW t \in Threads, NEW r \in [at: Places, name: Text, id: Nat, ref: Nat],
         thread' = [thread EXCEPT ![t] = r],
         r.at \in {"create", "undo"} => Making(t) /\ r.ref = thread[t].ref,
         r.at \in {"count", "delete", "remove"} /\ r.ref # NoRef =>
           /\ r.ref <= saved
           /\ \A i \in DOMAIN profiles : RefOf(i) = r.ref => i = r.id /\ r.at # "remove"
           /\ \A s \in Threads : Making(s) => thread[s].ref # r.ref
  PROVE  KeptInv'
<1> USE DEF KeptInv
<1>1. thread'[t] = r /\ \A s \in Threads : s # t => thread'[s] = thread[s]
  BY RecordIs
<1>2. Typed'
  BY DEF Typed
<1>3. RowsApart'
  BY DEF RowsApart, RefOf
<1>4. MakersApart'
  BY <1>1 DEF MakersApart, Making, RefOf
<1>5. UnmakersApart'
  BY <1>1 DEF UnmakersApart, Making, Unmaking, RefOf
<1> QED BY <1>2, <1>3, <1>4, <1>5

LEMMA AnswerStep ==
  ASSUME KeptInv, JobsKeepTheirProfile', UNCHANGED <<profiles, blobs, saved>>,
         NEW t \in Threads, Answer(t)
  PROVE  KeptInv'
<1>1. Idle \in [at: Places, name: Text, id: Nat, ref: Nat] /\ Idle.at = "idle"
  BY RecordIs DEF KeptInv, Idle
<1> QED BY <1>1, ThreadStep DEF Answer

\* A request goes on with what it has.
LEMMA GoesStep ==
  ASSUME KeptInv, JobsKeepTheirProfile', UNCHANGED <<profiles, blobs, saved>>,
         NEW t \in Threads, NEW at \in Places, Goes(t, at),
         at \in {"create", "undo"} => Making(t),
         at \in {"count", "delete"} => Unmaking(t),
         at # "remove"
  PROVE  KeptInv'
<1> DEFINE r == [thread[t] EXCEPT !.at = at]
<1>1. r \in [at: Places, name: Text, id: Nat, ref: Nat]
  BY RecordIs DEF KeptInv
<1>2. r.at = at /\ r.ref = thread[t].ref /\ r.id = thread[t].id
  BY RecordIs DEF KeptInv
<1>3. thread' = [thread EXCEPT ![t] = r]
  BY DEF Goes
<1> HIDE DEF r
<1>4. at \in {"count", "delete"} /\ r.ref # NoRef =>
        /\ r.ref <= saved
        /\ \A i \in DOMAIN profiles : RefOf(i) = r.ref => i = r.id
        /\ \A s \in Threads : Making(s) => thread[s].ref # r.ref
  BY <1>2 DEF KeptInv, UnmakersApart
<1> QED BY <1>1, <1>2, <1>3, <1>4, ThreadStep

LEMMA SaveStep == ASSUME KeptInv, NEW t \in Threads, Save(t) PROVE KeptInv'
<1> USE DEF KeptInv
<1>1. /\ saved' = saved + 1 /\ blobs' = blobs \cup {saved'}
      /\ UNCHANGED <<profiles, jobs>>
      /\ thread'[t].at = "create" /\ thread'[t].ref = saved'
      /\ \A s \in Threads : s # t => thread'[s] = thread[s]
  BY DEF Save, Typed
<1>2. thread' \in [Threads -> [at: Places, name: Text, id: Nat, ref: Nat]]
  <2> DEFINE r == [[thread[t] EXCEPT !.at = "create"] EXCEPT !.ref = saved']
  <2>1. saved' \in Nat
    BY DEF Save, Typed
  <2>2. ASSUME NEW n \in Nat
        PROVE  [[thread[t] EXCEPT !.at = "create"] EXCEPT !.ref = n]
                 \in [at: Places, name: Text, id: Nat, ref: Nat]
    <3>1. thread[t] \in [at: Places, name: Text, id: Nat, ref: Nat] /\ "create" \in Places
      BY RecordIs DEF Places
    <3> HIDE DEF KeptInv
    <3> QED BY <3>1
  <2>3. r \in [at: Places, name: Text, id: Nat, ref: Nat]
    BY <2>1, <2>2
  <2>4. thread' = [thread EXCEPT ![t] = r]
    BY DEF Save
  <2> HIDE DEF r
  <2> QED BY <2>3, <2>4 DEF Typed
<1>3. saved \in Nat /\ saved' \in Nat /\ blobs' \subseteq 1..saved' /\ \A b \in blobs : b <= saved
  BY <1>1 DEF Typed
<1>4. Typed'
  BY <1>1, <1>2, <1>3 DEF Typed
<1>5. RowsApart'
  BY <1>1 DEF RowsApart, RefOf
<1>6. \A i \in DOMAIN profiles : RefOf(i) # saved'
  BY <1>1, <1>3 DEF RowsApart, NoRef
<1>7. MakersApart'
  BY <1>1, <1>3, <1>6 DEF MakersApart, Making, RefOf
<1>8. UnmakersApart'
  <2> SUFFICES ASSUME NEW s \in Threads, Unmaking(s)', thread'[s].ref # NoRef
               PROVE  /\ thread'[s].ref <= saved'
                      /\ \A i \in DOMAIN profiles :
                           RefOf(i) = thread'[s].ref => i = thread'[s].id /\ thread'[s].at # "remove"
                      /\ \A u \in Threads : Making(u)' => thread'[u].ref # thread'[s].ref
    BY <1>1 DEF UnmakersApart, RefOf
  <2>1. s # t /\ thread'[s] = thread[s]
    BY <1>1 DEF Unmaking
  <2>2. /\ thread[s].ref <= saved /\ thread[s].ref \in Nat
        /\ \A i \in DOMAIN profiles : RefOf(i) = thread[s].ref => i = thread[s].id /\ thread[s].at # "remove"
        /\ \A u \in Threads : Making(u) => thread[u].ref # thread[s].ref
    BY <2>1, RecordIs DEF UnmakersApart, Unmaking
  <2> QED BY <1>1, <1>3, <2>1, <2>2 DEF Making
<1>9. JobsKeepTheirProfile'
  BY <1>1 DEF JobsKeepTheirProfile
<1> QED BY <1>4, <1>5, <1>7, <1>8, <1>9

\* A new row, with the credential of the request that makes it or with none.
LEMMA InsertStep ==
  ASSUME KeptInv, UNCHANGED <<blobs, saved>>, NEW row \in [name: Text, ref: Nat], Insert(row),
         row.ref # NoRef => row.ref \in blobs /\ \A i \in DOMAIN profiles : RefOf(i) # row.ref,
         thread' \in [Threads -> [at: Places, name: Text, id: Nat, ref: Nat]],
         \A t \in Threads : Making(t)' =>
           Making(t) /\ thread'[t].ref = thread[t].ref /\ thread[t].ref # row.ref,
         \A t \in Threads : Unmaking(t)' => Unmaking(t) /\ thread'[t] = thread[t],
         \A t \in Threads : Unmaking(t) /\ thread[t].ref # NoRef => thread[t].ref # row.ref
  PROVE  Typed' /\ RowsApart' /\ MakersApart' /\ UnmakersApart'
<1>1. /\ NextId \notin DOMAIN profiles
      /\ DOMAIN profiles' = DOMAIN profiles \cup {NextId}
      /\ profiles'[NextId] = row
      /\ \A i \in DOMAIN profiles : profiles'[i] = profiles[i]
  BY InsertIs DEF KeptInv
<1>2. Typed'
  <2>1. /\ \E k \in Nat : DOMAIN profiles' \subseteq 0..k
        /\ \A i \in DOMAIN profiles' : profiles'[i].name \in Text /\ profiles'[i].ref \in Nat
    BY TypedInsert DEF KeptInv
  <2>2. saved' \in Nat /\ blobs' \subseteq 1..saved'
    BY DEF KeptInv, Typed
  <2> QED BY <2>1, <2>2 DEF Typed
<1>3. RowsApart'
  BY <1>1 DEF KeptInv, RowsApart, RefOf
<1>4. MakersApart'
  <2>1. \A t \in Threads : Making(t)' => thread'[t].ref \in blobs' /\ \A i \in DOMAIN profiles' : RefOf(i)' # thread'[t].ref
    BY <1>1 DEF KeptInv, MakersApart, RefOf
  <2>2. \A s, t \in Threads : Making(s)' /\ Making(t)' /\ thread'[s].ref = thread'[t].ref => s = t
    BY DEF KeptInv, MakersApart
  <2> QED BY <2>1, <2>2 DEF MakersApart
<1>5. UnmakersApart'
  <2> SUFFICES ASSUME NEW s \in Threads, Unmaking(s)', thread'[s].ref # NoRef
               PROVE  /\ thread'[s].ref <= saved'
                      /\ \A i \in DOMAIN profiles' :
                           RefOf(i)' = thread'[s].ref => i = thread'[s].id /\ thread'[s].at # "remove"
                      /\ \A u \in Threads : Making(u)' => thread'[u].ref # thread'[s].ref
    BY DEF UnmakersApart
  <2>1. Unmaking(s) /\ thread'[s] = thread[s] /\ thread[s].ref # row.ref
    OBVIOUS
  <2>2. /\ thread[s].ref <= saved
        /\ \A i \in DOMAIN profiles : RefOf(i) = thread[s].ref => i = thread[s].id /\ thread[s].at # "remove"
        /\ \A u \in Threads : Making(u) => thread[u].ref # thread[s].ref
    BY <2>1 DEF KeptInv, UnmakersApart
  <2> QED BY <1>1, <2>1, <2>2 DEF RefOf
<1> QED BY <1>2, <1>3, <1>4, <1>5

LEMMA CreateProfileStep == ASSUME KeptInv, NEW t \in Threads, CreateProfile(t) PROVE KeptInv'
<1> USE DEF KeptInv
<1>1. UNCHANGED <<jobs, blobs, saved>> /\ thread[t].at = "create" /\ Making(t)
  BY DEF CreateProfile, Making
<1>2. CASE Goes(t, "undo") /\ UNCHANGED profiles
  <2>1. JobsKeepTheirProfile'
    BY <1>1, <1>2 DEF JobsKeepTheirProfile
  <2> QED BY <1>1, <1>2, <2>1, GoesStep DEF Places
<1>3. CASE Answer(t) /\ UNCHANGED profiles
  <2>1. JobsKeepTheirProfile'
    BY <1>1, <1>3 DEF JobsKeepTheirProfile
  <2> QED BY <1>1, <1>3, <2>1, AnswerStep
<1>4. CASE /\ Insert([name |-> thread[t].name, ref |-> thread[t].ref])
           /\ thread' = [thread EXCEPT ![t].at = "validate", ![t].id = NextId]
  <2> DEFINE row == [name |-> thread[t].name, ref |-> thread[t].ref]
             r == [[thread[t] EXCEPT !.at = "validate"] EXCEPT !.id = NextId]
  <2>1. row \in [name: Text, ref: Nat] /\ row.ref = thread[t].ref
    BY RecordIs
  <2>2. /\ NextId \in Nat /\ DOMAIN profiles' = DOMAIN profiles \cup {NextId}
    BY <1>4, InsertIs
  <2>3. r \in [at: Places, name: Text, id: Nat, ref: Nat] /\ r.at = "validate"
    BY <2>2, RecordIs DEF Places
  <2>4. thread' = [thread EXCEPT ![t] = r]
    BY <1>4
  <2> HIDE DEF r
  <2>5. thread'[t] = r /\ \A s \in Threads : s # t => thread'[s] = thread[s]
    BY <2>4, RecordIs
  <2>6. thread' \in [Threads -> [at: Places, name: Text, id: Nat, ref: Nat]]
    BY <2>3, <2>4 DEF Typed
  <2>7. Insert(row)
    BY <1>4
  <2> HIDE DEF row
  <2>8. row.ref \in blobs /\ \A i \in DOMAIN profiles : RefOf(i) # row.ref
    BY <1>1, <2>1 DEF MakersApart
  <2>9. \A s \in Threads : Making(s)' =>
          Making(s) /\ thread'[s].ref = thread[s].ref /\ thread[s].ref # row.ref
    BY <1>1, <2>1, <2>3, <2>5 DEF MakersApart, Making
  <2>10. \A s \in Threads : Unmaking(s)' => Unmaking(s) /\ thread'[s] = thread[s]
    BY <2>3, <2>5 DEF Unmaking
  <2>11. \A s \in Threads : Unmaking(s) /\ thread[s].ref # NoRef => thread[s].ref # row.ref
    BY <1>1, <2>1 DEF UnmakersApart
  <2>12. Typed' /\ RowsApart' /\ MakersApart' /\ UnmakersApart'
    BY <1>1, <2>1, <2>6, <2>7, <2>8, <2>9, <2>10, <2>11, InsertStep
  <2>13. JobsKeepTheirProfile'
    BY <1>1, <2>2 DEF JobsKeepTheirProfile
  <2> QED BY <2>12, <2>13
<1> QED BY <1>2, <1>3, <1>4 DEF CreateProfile

LEMMA UndoStep == ASSUME KeptInv, NEW t \in Threads, Undo(t) PROVE KeptInv'
<1> USE DEF KeptInv
<1>1. /\ UNCHANGED <<profiles, jobs, saved>> /\ blobs' = blobs \ {thread[t].ref}
      /\ thread[t].at = "undo" /\ thread' = [thread EXCEPT ![t] = Idle]
  BY DEF Undo, Answer
<1>2. /\ Making(t) /\ thread'[t] = Idle /\ Idle.at = "idle"
      /\ \A s \in Threads : s # t => thread'[s] = thread[s]
  BY <1>1, RecordIs DEF Making, Idle
<1>3. Typed'
  BY <1>1, RecordIs DEF Typed
<1>4. RowsApart'
  BY <1>1, <1>2 DEF RowsApart, MakersApart, RefOf
<1>5. MakersApart'
  BY <1>1, <1>2 DEF MakersApart, Making, RefOf
<1>6. UnmakersApart'
  BY <1>1, <1>2 DEF UnmakersApart, Making, Unmaking, RefOf
<1>7. JobsKeepTheirProfile'
  BY <1>1 DEF JobsKeepTheirProfile
<1> QED BY <1>3, <1>4, <1>5, <1>6, <1>7

\* The row goes, and with it whatever stood between its credential and the file's removal.
LEMMA DeleteProfileStep == ASSUME KeptInv, NEW t \in Threads, DeleteProfile(t) PROVE KeptInv'
<1> USE DEF KeptInv
<1>1. UNCHANGED <<jobs, blobs, saved>> /\ thread[t].at = "delete" /\ Unmaking(t)
  BY DEF DeleteProfile, Unmaking
<1>2. CASE Answer(t) /\ UNCHANGED profiles
  <2>1. JobsKeepTheirProfile'
    BY <1>1, <1>2 DEF JobsKeepTheirProfile
  <2> QED BY <1>1, <1>2, <2>1, AnswerStep
<1>3. CASE /\ thread[t].id \notin jobs /\ Goes(t, "remove")
           /\ profiles' = Restrict(profiles, DOMAIN profiles \ {thread[t].id})
  <2>1. /\ DOMAIN profiles' = DOMAIN profiles \ {thread[t].id}
        /\ \A i \in DOMAIN profiles' : profiles'[i] = profiles[i]
    BY <1>3 DEF Restrict
  <2> DEFINE r == [thread[t] EXCEPT !.at = "remove"]
  <2>2. /\ r \in [at: Places, name: Text, id: Nat, ref: Nat]
        /\ r.at = "remove" /\ r.ref = thread[t].ref /\ r.id = thread[t].id
    BY RecordIs DEF Places
  <2>3. thread' = [thread EXCEPT ![t] = r]
    BY <1>3 DEF Goes
  <2> HIDE DEF r
  <2>4. thread'[t] = r /\ \A s \in Threads : s # t => thread'[s] = thread[s]
    BY <2>3, RecordIs
  <2>5. Typed'
    <3>1. thread' \in [Threads -> [at: Places, name: Text, id: Nat, ref: Nat]]
      BY <2>2, <2>3 DEF Typed
    <3>2. \E k \in Nat : DOMAIN profiles' \subseteq 0..k
      BY <2>1 DEF Typed
    <3>3. \A i \in DOMAIN profiles' : profiles'[i].name \in Text /\ profiles'[i].ref \in Nat
      BY <2>1 DEF Typed
    <3> QED BY <1>1, <3>1, <3>2, <3>3 DEF Typed
  <2>6. RowsApart'
    BY <1>1, <2>1 DEF RowsApart, RefOf
  <2>7. MakersApart'
    BY <1>1, <2>1, <2>2, <2>4 DEF MakersApart, Making, RefOf
  <2>8. UnmakersApart'
    BY <1>1, <2>1, <2>2, <2>4 DEF UnmakersApart, Making, Unmaking, RefOf
  <2>9. JobsKeepTheirProfile'
    BY <1>1, <1>3, <2>1 DEF JobsKeepTheirProfile
  <2> QED BY <2>5, <2>6, <2>7, <2>8, <2>9
<1> QED BY <1>2, <1>3 DEF DeleteProfile

LEMMA RemoveBlobStep == ASSUME KeptInv, NEW t \in Threads, RemoveBlob(t) PROVE KeptInv'
<1> USE DEF KeptInv
<1>1. /\ UNCHANGED <<profiles, jobs, saved>> /\ Answer(t)
      /\ thread[t].at = "remove" /\ Unmaking(t)
  BY DEF RemoveBlob, BehindTheRow, Unmaking
<1>2. JobsKeepTheirProfile'
  BY <1>1 DEF JobsKeepTheirProfile
<1>3. CASE UNCHANGED blobs
  BY <1>1, <1>2, <1>3, AnswerStep
<1>4. CASE blobs' = blobs \ {thread[t].ref}
  <2>1. /\ thread' = [thread EXCEPT ![t] = Idle] /\ Idle.at = "idle"
        /\ thread'[t] = Idle /\ \A s \in Threads : s # t => thread'[s] = thread[s]
    BY <1>1, RecordIs DEF Answer, Idle
  <2>2. Typed'
    BY <1>1, <1>4, <2>1, RecordIs DEF Typed
  <2>3. \A i \in DOMAIN profiles : RefOf(i) # NoRef => RefOf(i) # thread[t].ref
    BY <1>1 DEF UnmakersApart
  <2>4. RowsApart'
    BY <1>1, <1>4, <2>3 DEF RowsApart, RefOf
  <2>5. \A s \in Threads : Making(s) => thread[s].ref # thread[t].ref
    <3> SUFFICES ASSUME NEW s \in Threads, Making(s) PROVE thread[s].ref # thread[t].ref
      OBVIOUS
    <3>1. thread[s].ref \in blobs /\ thread[s].ref # NoRef
      BY DEF MakersApart, Typed, NoRef
    <3> QED BY <1>1, <3>1 DEF UnmakersApart
  <2>6. MakersApart'
    BY <1>1, <1>4, <2>1, <2>5 DEF MakersApart, Making, RefOf
  <2>7. UnmakersApart'
    BY <1>1, <2>1 DEF UnmakersApart, Making, Unmaking, RefOf
  <2> QED BY <1>2, <2>2, <2>4, <2>6, <2>7
<1> QED BY <1>3, <1>4 DEF RemoveBlob, BehindTheRow

\* A request begins: it knows a connection by a row there is, or none.
LEMMA BeginsStep ==
  ASSUME KeptInv, UNCHANGED <<profiles, jobs, blobs, saved>>, NEW t \in Threads,
         NEW r \in [at: Places, name: Text, id: Nat, ref: Nat], Begins(t, r),
         r.at \in {"save", "load", "count"},
         r.at = "count" => r.id \in DOMAIN profiles /\ r.ref = RefOf(r.id)
  PROVE  KeptInv'
<1> USE DEF KeptInv
<1>1. thread' = [thread EXCEPT ![t] = r]
  BY DEF Begins
<1>2. JobsKeepTheirProfile'
  BY DEF JobsKeepTheirProfile
<1>3. ASSUME r.at = "count", r.ref # NoRef
      PROVE  /\ r.ref <= saved
             /\ \A i \in DOMAIN profiles : RefOf(i) = r.ref => i = r.id
             /\ \A s \in Threads : Making(s) => thread[s].ref # r.ref
  <2>1. r.ref \in blobs
    BY <1>3 DEF RowsApart
  <2>2. r.ref <= saved
    BY <2>1 DEF Typed
  <2>3. \A i \in DOMAIN profiles : RefOf(i) = r.ref => i = r.id
    BY <1>3 DEF RowsApart
  <2>4. \A s \in Threads : Making(s) => thread[s].ref # r.ref
    BY <1>3 DEF MakersApart
  <2> QED BY <2>2, <2>3, <2>4
<1> QED BY <1>1, <1>2, <1>3, ThreadStep

LEMMA IdsAreNumbers == ASSUME KeptInv PROVE DOMAIN profiles \subseteq Nat
  BY DEF KeptInv, Typed

LEMMA CreateStep == ASSUME KeptInv, NEW t \in Threads, Create(t) PROVE KeptInv'
<1>1. PICK n \in Names : Begins(t, [Idle EXCEPT !.at = "save", !.name = n])
  BY DEF Create
<1> DEFINE r == [[Idle EXCEPT !.at = "save"] EXCEPT !.name = n]
<1>2. r \in [at: Places, name: Text, id: Nat, ref: Nat] /\ r.at = "save"
  BY RecordIs DEF Idle, Places, Text, NoRef
<1>3. Begins(t, r)
  BY <1>1
<1> HIDE DEF r
<1> QED BY <1>2, <1>3, BeginsStep DEF Create

LEMMA CheckStep == ASSUME KeptInv, NEW t \in Threads, Check(t) PROVE KeptInv'
<1>1. PICK i \in DOMAIN profiles : Begins(t, [Idle EXCEPT !.at = "load", !.id = i, !.ref = profiles[i].ref])
  BY DEF Check
<1> DEFINE r == [[[Idle EXCEPT !.at = "load"] EXCEPT !.id = i] EXCEPT !.ref = profiles[i].ref]
<1>2. i \in Nat /\ profiles[i].ref \in Nat
  BY IdsAreNumbers DEF KeptInv, Typed
<1>3. r \in [at: Places, name: Text, id: Nat, ref: Nat] /\ r.at = "load"
  BY <1>2 DEF Idle, Places, Text, NoRef
<1>4. Begins(t, r)
  BY <1>1
<1> HIDE DEF r
<1> QED BY <1>3, <1>4, BeginsStep DEF Check

LEMMA SubmitOverStep == ASSUME KeptInv, NEW t \in Threads, SubmitOver(t) PROVE KeptInv'
<1>1. PICK i \in DOMAIN profiles :
        Begins(t, [at |-> "load", name |-> NameOf(i), id |-> i, ref |-> profiles[i].ref])
  BY DEF SubmitOver
<1> DEFINE r == [at |-> "load", name |-> NameOf(i), id |-> i, ref |-> profiles[i].ref]
<1>2. i \in Nat /\ profiles[i].ref \in Nat /\ NameOf(i) \in Text
  BY IdsAreNumbers DEF KeptInv, Typed, NameOf
<1>3. r \in [at: Places, name: Text, id: Nat, ref: Nat] /\ r.at = "load"
  BY <1>2 DEF Places
<1>4. Begins(t, r)
  BY <1>1
<1> HIDE DEF r
<1> QED BY <1>3, <1>4, BeginsStep DEF SubmitOver

LEMMA DeleteStep == ASSUME KeptInv, NEW t \in Threads, Delete(t) PROVE KeptInv'
<1>1. PICK i \in DOMAIN profiles : Begins(t, [Idle EXCEPT !.at = "count", !.id = i, !.ref = profiles[i].ref])
  BY DEF Delete
<1> DEFINE r == [[[Idle EXCEPT !.at = "count"] EXCEPT !.id = i] EXCEPT !.ref = profiles[i].ref]
<1>2. i \in Nat /\ profiles[i].ref \in Nat
  BY IdsAreNumbers DEF KeptInv, Typed
<1>3. r \in [at: Places, name: Text, id: Nat, ref: Nat] /\ r.at = "count" /\ r.id = i /\ r.ref = RefOf(i)
  BY <1>2 DEF Idle, Places, Text, NoRef, RefOf
<1>4. Begins(t, r)
  BY <1>1
<1> HIDE DEF r
<1> QED BY <1>3, <1>4, BeginsStep DEF Delete

\* The steps that only take a request further, or to its answer.
LEMMA OnwardStep ==
  ASSUME KeptInv, NEW t \in Threads, Validate(t) \/ Load(t) \/ Count(t)
  PROVE  KeptInv'
<1>1. UNCHANGED <<profiles, jobs, blobs, saved>>
  BY DEF Validate, Load, Count
<1>2. JobsKeepTheirProfile'
  BY <1>1 DEF KeptInv, JobsKeepTheirProfile
<1>3. CASE Answer(t)
  BY <1>1, <1>2, <1>3, AnswerStep
<1>4. ASSUME NEW at \in {"validate", "submit"}, Goes(t, at) PROVE KeptInv'
  BY <1>1, <1>2, <1>4, GoesStep DEF Places
<1>5. CASE thread[t].at = "count" /\ Goes(t, "delete")
  BY <1>1, <1>2, <1>5, GoesStep DEF Places, Unmaking
<1>6. Answer(t) \/ (\E at \in {"validate", "submit"} : Goes(t, at))
        \/ (thread[t].at = "count" /\ Goes(t, "delete"))
  BY DEF Validate, Load, Count
<1> QED BY <1>3, <1>4, <1>5, <1>6

LEMMA CreateJobStep == ASSUME KeptInv, NEW t \in Threads, CreateJob(t) PROVE KeptInv'
<1>1. Answer(t) /\ UNCHANGED <<profiles, blobs, saved>>
  BY DEF CreateJob
<1>2. JobsKeepTheirProfile'
  BY DEF CreateJob, References, KeptInv, JobsKeepTheirProfile
<1> QED BY <1>1, <1>2, AnswerStep

LEMMA SubmitToBucketStep ==
  ASSUME KeptInv, DOMAIN Found \subseteq Nat, SubmitToBucket
  PROVE  KeptInv'
<1> USE DEF KeptInv
<1>1. UNCHANGED <<blobs, saved, thread>>
  BY DEF SubmitToBucket
<1>2. CASE Twins # {} /\ jobs' = jobs \cup {Min(Twins)} /\ UNCHANGED profiles
  <2>1. Twins \in SUBSET Nat /\ Twins \subseteq DOMAIN profiles
    BY IdsAreNumbers DEF Twins
  <2>2. Min(Twins) \in DOMAIN profiles
    BY <1>2, <2>1, MinIs
  <2>3. JobsKeepTheirProfile'
    BY <1>2, <2>2 DEF JobsKeepTheirProfile
  <2>4. Typed' /\ RowsApart' /\ MakersApart' /\ UnmakersApart'
    BY <1>1, <1>2 DEF Typed, RowsApart, MakersApart, UnmakersApart, RefOf, Making, Unmaking
  <2> QED BY <2>3, <2>4
<1>3. CASE Insert([name |-> FirstFree, ref |-> NoRef]) /\ jobs' = jobs \cup {NextId}
  <2> DEFINE row == [name |-> FirstFree, ref |-> NoRef]
  <2>1. FirstFree \in Text
    <3> DEFINE Free == {k \in DOMAIN Found : Found[k] \notin Taken}
    <3>1. CASE Free = {}
      BY <3>1 DEF FirstFree, Text
    <3>2. CASE Free # {}
      <4>1. Min(Free) \in Free
        BY <3>2, MinIs
      <4>2. FirstFree = Found[Min(Free)]
        BY <3>2 DEF FirstFree
      <4> QED BY <4>1, <4>2 DEF Text, Range
    <3> QED BY <3>1, <3>2
  <2>2. row \in [name: Text, ref: Nat] /\ row.ref = NoRef
    BY <2>1 DEF NoRef
  <2>3. Insert(row) /\ DOMAIN profiles' = DOMAIN profiles \cup {NextId}
    BY <1>3, InsertIs
  <2> HIDE DEF row
  <2>4. thread' \in [Threads -> [at: Places, name: Text, id: Nat, ref: Nat]]
    BY <1>1 DEF Typed
  <2>5. \A s \in Threads : Making(s) => thread[s].ref # NoRef
    BY DEF MakersApart, Typed, NoRef
  <2>6. \A s \in Threads : (Making(s)' <=> Making(s)) /\ (Unmaking(s)' <=> Unmaking(s))
    BY <1>1 DEF Making, Unmaking
  <2>7. Typed' /\ RowsApart' /\ MakersApart' /\ UnmakersApart'
    BY <1>1, <2>2, <2>3, <2>4, <2>5, <2>6, InsertStep
  <2>8. JobsKeepTheirProfile'
    BY <1>3, <2>3 DEF JobsKeepTheirProfile
  <2> QED BY <2>7, <2>8
<1> QED BY <1>2, <1>3 DEF SubmitToBucket

LEMMA CrashStep == ASSUME KeptInv, Crash PROVE KeptInv'
<1> USE DEF KeptInv
<1>1. UNCHANGED <<profiles, jobs, blobs, saved>> /\ thread' = [t \in Threads |-> Idle]
  BY DEF Crash
<1>2. Idle \in [at: Places, name: Text, id: Nat, ref: Nat] /\ Idle.at = "idle"
  BY DEF Idle, Places, Text, NoRef
<1>3. Typed'
  BY <1>1, <1>2 DEF Typed
<1>4. RowsApart' /\ JobsKeepTheirProfile'
  BY <1>1 DEF RowsApart, RefOf, JobsKeepTheirProfile
<1>5. MakersApart' /\ UnmakersApart'
  BY <1>1, <1>2 DEF MakersApart, UnmakersApart, Making, Unmaking
<1> QED BY <1>3, <1>4, <1>5

\* A service that is down has no requests.
Down == ~up => \A t \in Threads : thread[t].at = "idle"

\* The sweep has the credentials to itself.
LEMMA StartStep == ASSUME KeptInv, Down, Start PROVE KeptInv'
<1> USE DEF KeptInv
<1>1. /\ UNCHANGED <<profiles, jobs, saved, thread>>
      /\ blobs' \subseteq blobs /\ \A b \in blobs : b \in Referenced => b \in blobs'
      /\ \A t \in Threads : thread[t].at = "idle"
  BY DEF Start, Swept, Down
<1>2. Typed'
  BY <1>1 DEF Typed
<1>3. RowsApart'
  <2>1. \A i \in DOMAIN profiles : RefOf(i) # NoRef => RefOf(i) \in Referenced
    BY DEF Referenced, RefOf
  <2> QED BY <1>1, <2>1 DEF RowsApart, RefOf
<1>4. MakersApart' /\ UnmakersApart'
  BY <1>1 DEF MakersApart, UnmakersApart, Making, Unmaking
<1>5. JobsKeepTheirProfile'
  BY <1>1 DEF JobsKeepTheirProfile
<1> QED BY <1>2, <1>3, <1>4, <1>5

LEMMA DownStep == ASSUME Down, KeptInv, [Next]_vars PROVE Down'
<1>1. ASSUME NEW t \in Threads, Serves(t) PROVE Down'
  <2>1. up' = up
    BY <1>1 DEF Serves, Create, Save, CreateProfile, Undo, Validate, Check, SubmitOver, Load,
                CreateJob, Delete, Count, DeleteProfile, RemoveBlob
  <2>2. up \/ thread[t].at # "idle"
    BY <1>1 DEF Serves, Create, Save, CreateProfile, Undo, Validate, Check, SubmitOver, Load,
                CreateJob, Delete, Count, DeleteProfile, RemoveBlob, BehindTheRow, Begins
  <2> QED BY <2>1, <2>2 DEF Down
<1>2. CASE SubmitToBucket
  BY <1>2 DEF SubmitToBucket, Down
<1>3. CASE Crash
  BY <1>3 DEF Crash, Down, Idle
<1>4. CASE Start
  BY <1>4 DEF Start, Down
<1>5. CASE UNCHANGED vars
  BY <1>5 DEF vars, Down
<1> QED BY <1>1, <1>2, <1>3, <1>4, <1>5 DEF Next

LEMMA KeptStep ==
  ASSUME KeptInv, Down, DOMAIN Found \subseteq Nat, [Next]_vars
  PROVE  KeptInv'
<1>1. ASSUME NEW t \in Threads, Serves(t) PROVE KeptInv'
  BY <1>1, CreateStep, SaveStep, CreateProfileStep, UndoStep, OnwardStep, CheckStep, SubmitOverStep,
     CreateJobStep, DeleteStep, DeleteProfileStep, RemoveBlobStep DEF Serves
<1>2. CASE SubmitToBucket
  BY <1>2, SubmitToBucketStep
<1>3. CASE Crash
  BY <1>3, CrashStep
<1>4. CASE Start
  BY <1>4, StartStep
<1>5. CASE UNCHANGED vars
  BY <1>5 DEF vars, KeptInv, Typed, RowsApart, MakersApart, UnmakersApart, JobsKeepTheirProfile,
              RefOf, Making, Unmaking
<1> QED BY <1>1, <1>2, <1>3, <1>4, <1>5 DEF Next

LEMMA KeptInit == ASSUME Init PROVE KeptInv /\ Down
<1>1. Idle \in [at: Places, name: Text, id: Nat, ref: Nat] /\ Idle.at = "idle"
  BY DEF Idle, Places, Text, NoRef
<1>2. DOMAIN profiles = {}
  BY DEF Init
<1>3. Typed
  <2>1. DOMAIN profiles \subseteq 0..0
    BY <1>2
  <2>2. \A i \in DOMAIN profiles : profiles[i].name \in Text /\ profiles[i].ref \in Nat
    BY <1>2
  <2>3. thread \in [Threads -> [at: Places, name: Text, id: Nat, ref: Nat]]
    BY <1>1 DEF Init
  <2>4. saved \in Nat /\ blobs \subseteq 1..saved
    BY DEF Init
  <2> QED BY <2>1, <2>2, <2>3, <2>4 DEF Typed
<1>4. RowsApart /\ MakersApart /\ UnmakersApart /\ Down
  BY <1>1, <1>2 DEF Init, RowsApart, MakersApart, UnmakersApart, Making, Unmaking, Down
<1>5. JobsKeepTheirProfile
  BY DEF Init, JobsKeepTheirProfile
<1> QED BY <1>3, <1>4, <1>5 DEF KeptInv

---------------------------------------------------------------------------
(* Nothing is left behind *)

Excused == spent.faults + spent.crashes > 0 \/ reused
Counted == /\ spent \in [jobs: Int, faults: Nat, crashes: Nat] /\ last \in Nat
           /\ up \in BOOLEAN /\ reused \in BOOLEAN

\* While no id was given again, the ids known are no higher than the last, and a
\* request that deletes a connection knows its row's credential.
Fresh == ~reused =>
  /\ \A i \in DOMAIN profiles : i <= last
  /\ \A t \in Threads :
       /\ thread[t].id <= last
       /\ thread[t].at \in {"count", "delete"} /\ thread[t].id \in DOMAIN profiles
            => thread[t].ref = RefOf(thread[t].id)

InRow(b) == \E i \in DOMAIN profiles : RefOf(i) = b
Holds(t, b) == thread[t].at \in {"create", "undo", "remove"} /\ thread[t].ref = b
Tidy == Excused \/ \A b \in blobs : InRow(b) \/ \E t \in Threads : Holds(t, b)
TidyInv == Counted /\ Fresh /\ (~up => Excused) /\ Tidy

\* What a step may do with what a request knows of a row.
Looks(t) == thread'[t].id \in DOMAIN profiles /\ thread'[t].ref = RefOf(thread'[t].id)
Forgets(t) == thread'[t].id = 0 /\ thread'[t].at \notin {"count", "delete"}
KeepsOn(t) ==
  /\ thread'[t].id = thread[t].id
  /\ thread'[t].at \in {"count", "delete"} =>
       thread[t].at \in {"count", "delete"} /\ thread'[t].ref = thread[t].ref

LEMMA FreshStep ==
  ASSUME KeptInv, Fresh, Counted, UNCHANGED given,
         DOMAIN profiles' \subseteq DOMAIN profiles,
         \A i \in DOMAIN profiles' : profiles'[i] = profiles[i],
         \A t \in Threads : Looks(t) \/ Forgets(t) \/ KeepsOn(t)
  PROVE  Fresh'
<1> SUFFICES ASSUME ~reused
             PROVE  /\ \A i \in DOMAIN profiles' : i <= last
                    /\ \A t \in Threads :
                         /\ thread'[t].id <= last
                         /\ thread'[t].at \in {"count", "delete"} /\ thread'[t].id \in DOMAIN profiles'
                              => thread'[t].ref = profiles'[thread'[t].id].ref
  BY DEF Fresh, RefOf, given
<1>1. \A i \in DOMAIN profiles : i <= last
  BY DEF Fresh
<1>2. ASSUME NEW t \in Threads
      PROVE  /\ thread'[t].id <= last
             /\ thread'[t].at \in {"count", "delete"} /\ thread'[t].id \in DOMAIN profiles'
                  => thread'[t].ref = profiles'[thread'[t].id].ref
  <2>1. CASE Looks(t)
    BY <1>1, <2>1 DEF Looks, RefOf
  <2>2. CASE Forgets(t)
    BY <2>2 DEF Forgets, Counted
  <2>3. CASE KeepsOn(t)
    BY <2>3 DEF KeepsOn, Fresh, RefOf
  <2> QED BY <1>2, <2>1, <2>2, <2>3
<1> QED BY <1>1, <1>2

\* A new row has an id nobody knows, or one that is given again.
LEMMA FreshInsert ==
  ASSUME KeptInv, Fresh, Counted, NEW row, Insert(row),
         \A t \in Threads : KeepsOn(t) \/ (thread'[t].id = NextId /\ thread'[t].at \notin {"count", "delete"})
  PROVE  Fresh' /\ (reused => reused') /\ last' \in Nat /\ reused' \in BOOLEAN
<1>1. /\ NextId \in Nat /\ DOMAIN profiles' = DOMAIN profiles \cup {NextId}
      /\ \A i \in DOMAIN profiles : profiles'[i] = profiles[i]
  BY InsertIs DEF KeptInv
<1>2. last' = NextId /\ reused' = (reused \/ NextId <= last)
  BY DEF Insert
<1>3. ASSUME ~reused'
      PROVE  /\ \A i \in DOMAIN profiles' : i <= last'
             /\ \A t \in Threads :
                  /\ thread'[t].id <= last'
                  /\ thread'[t].at \in {"count", "delete"} /\ thread'[t].id \in DOMAIN profiles'
                       => thread'[t].ref = profiles'[thread'[t].id].ref
  <2>1. ~reused /\ ~(NextId <= last) /\ last \in Nat
    BY <1>2, <1>3 DEF Counted
  <2>2. \A i \in DOMAIN profiles : i \in Nat /\ i <= last
    BY <2>1, IdsAreNumbers DEF Fresh
  <2>3. \A i \in DOMAIN profiles' : i <= last'
    BY <1>1, <1>2, <2>1, <2>2
  <2>4. ASSUME NEW t \in Threads
        PROVE  /\ thread'[t].id <= last'
               /\ thread'[t].at \in {"count", "delete"} /\ thread'[t].id \in DOMAIN profiles'
                    => thread'[t].ref = profiles'[thread'[t].id].ref
    <3>1. CASE KeepsOn(t)
      <4>1. thread[t].id \in Nat /\ thread[t].id <= last
        BY <2>1, RecordIs DEF Fresh, KeptInv
      <4>2. thread'[t].id <= last' /\ thread'[t].id # NextId
        BY <1>1, <1>2, <2>1, <3>1, <4>1 DEF KeepsOn
      <4>3. ASSUME thread'[t].at \in {"count", "delete"}, thread'[t].id \in DOMAIN profiles'
            PROVE  thread'[t].ref = profiles'[thread'[t].id].ref
        BY <1>1, <2>1, <3>1, <4>2, <4>3 DEF KeepsOn, Fresh, RefOf
      <4> QED BY <4>2, <4>3
    <3>2. CASE thread'[t].id = NextId /\ thread'[t].at \notin {"count", "delete"}
      BY <1>1, <1>2, <3>2
    <3> QED BY <2>4, <3>1, <3>2
  <2> QED BY <2>3, <2>4
<1>4. Fresh'
  BY <1>3 DEF Fresh, RefOf
<1> QED BY <1>1, <1>2, <1>4 DEF Counted

\* A step that leaves rows and ids given as they are, and spends no fault or crash.
LEMMA TidyStep ==
  ASSUME KeptInv, TidyInv, UNCHANGED <<profiles, given, up>>,
         spent' \in [jobs: Int, faults: Nat, crashes: Nat],
         spent'.faults = spent.faults, spent'.crashes = spent.crashes,
         \A t \in Threads : Looks(t) \/ Forgets(t) \/ KeepsOn(t),
         \A b \in blobs' :
           \/ b \in blobs /\ \A t \in Threads : Holds(t, b) => \E s \in Threads : Holds(s, b)'
           \/ \E t \in Threads : Holds(t, b)'
  PROVE  TidyInv'
<1>1. Counted'
  BY DEF TidyInv, Counted, given
<1>2. Fresh'
  BY FreshStep DEF TidyInv
<1>3. Excused' <=> Excused
  BY DEF Excused, given
<1>4. ~up' => Excused'
  BY <1>3 DEF TidyInv
<1>5. Tidy'
  <2>1. \A b : InRow(b)' <=> InRow(b)
    BY DEF InRow, RefOf
  <2> QED BY <1>3, <2>1 DEF TidyInv, Tidy
<1> QED BY <1>1, <1>2, <1>4, <1>5 DEF TidyInv

\* A step in which a request fails: what it leaves is excused.
LEMMA FaultStep ==
  ASSUME KeptInv, TidyInv, Fault, UNCHANGED <<profiles, given>>, up' \in BOOLEAN,
         \A t \in Threads : Forgets(t) \/ KeepsOn(t)
  PROVE  TidyInv'
<1>1. /\ spent' \in [jobs: Int, faults: Nat, crashes: Nat]
      /\ spent'.faults = spent.faults + 1 /\ spent'.crashes = spent.crashes
  BY DEF Fault, TidyInv, Counted
<1>2. Counted'
  BY <1>1 DEF TidyInv, Counted, given
<1>3. Fresh'
  BY FreshStep DEF TidyInv
<1>4. Excused'
  <2>1. spent.faults \in Nat /\ spent.crashes \in Nat
    BY DEF TidyInv, Counted
  <2> QED BY <1>1, <2>1 DEF Excused
<1> QED BY <1>2, <1>3, <1>4 DEF TidyInv, Tidy

Hand == {"create", "undo", "remove"}

\* A step of one request, with rows and credentials as they were.
LEMMA TidyRequest ==
  ASSUME KeptInv, TidyInv, UNCHANGED <<profiles, given, up, blobs>>, NEW t \in Threads, NEW r,
         spent' \in [jobs: Int, faults: Nat, crashes: Nat],
         spent'.faults = spent.faults, spent'.crashes = spent.crashes,
         thread' = [thread EXCEPT ![t] = r],
         \/ r.id = 0 /\ r.at \notin {"count", "delete"}
         \/ r.id \in DOMAIN profiles /\ r.ref = RefOf(r.id)
         \/ r.id = thread[t].id /\ (r.at \in {"count", "delete"} =>
              thread[t].at \in {"count", "delete"} /\ r.ref = thread[t].ref),
         thread[t].at \in Hand => r.at \in Hand /\ r.ref = thread[t].ref
  PROVE  TidyInv'
<1>1. thread'[t] = r /\ \A s \in Threads : s # t => thread'[s] = thread[s]
  BY RecordIs DEF KeptInv
<1>2. \A s \in Threads : Looks(s) \/ Forgets(s) \/ KeepsOn(s)
  BY <1>1 DEF Looks, Forgets, KeepsOn
<1>3. \A s \in Threads, b \in blobs : Holds(s, b) => Holds(s, b)'
  BY <1>1 DEF Holds, Hand
<1> QED BY <1>2, <1>3, TidyStep

LEMMA SpentIs ==
  ASSUME TidyInv
  PROVE  /\ spent \in [jobs: Int, faults: Nat, crashes: Nat]
         /\ UNCHANGED spent => /\ spent' \in [jobs: Int, faults: Nat, crashes: Nat]
                               /\ spent'.faults = spent.faults /\ spent'.crashes = spent.crashes
  BY DEF TidyInv, Counted

LEMMA TidyCreate == ASSUME KeptInv, TidyInv, NEW t \in Threads, Create(t) PROVE TidyInv'
<1>1. PICK n \in Names : Begins(t, [Idle EXCEPT !.at = "save", !.name = n])
  BY DEF Create
<1> DEFINE r == [[Idle EXCEPT !.at = "save"] EXCEPT !.name = n]
<1>2. r.id = 0 /\ r.at = "save"
  BY DEF Idle
<1>3. thread' = [thread EXCEPT ![t] = r] /\ thread[t].at = "idle"
  BY <1>1 DEF Begins
<1> HIDE DEF r
<1> QED BY <1>2, <1>3, SpentIs, TidyRequest DEF Create, Hand

\* A request that looks a row up begins.
LEMMA TidyLook ==
  ASSUME KeptInv, TidyInv, UNCHANGED <<profiles, given, up, blobs, spent>>, NEW t \in Threads,
         NEW r, Begins(t, r), r.id \in DOMAIN profiles, r.ref = RefOf(r.id)
  PROVE  TidyInv'
<1>1. thread' = [thread EXCEPT ![t] = r] /\ thread[t].at = "idle"
  BY DEF Begins
<1> QED BY <1>1, SpentIs, TidyRequest DEF Hand

LEMMA TidyCheck == ASSUME KeptInv, TidyInv, NEW t \in Threads, Check(t) PROVE TidyInv'
<1>1. PICK i \in DOMAIN profiles : Begins(t, [Idle EXCEPT !.at = "load", !.id = i, !.ref = profiles[i].ref])
  BY DEF Check
<1> DEFINE r == [[[Idle EXCEPT !.at = "load"] EXCEPT !.id = i] EXCEPT !.ref = profiles[i].ref]
<1>2. r.id = i /\ r.ref = RefOf(i)
  BY DEF Idle, RefOf
<1>3. Begins(t, r)
  BY <1>1
<1> HIDE DEF r
<1> QED BY <1>2, <1>3, TidyLook DEF Check

LEMMA TidySubmitOver == ASSUME KeptInv, TidyInv, NEW t \in Threads, SubmitOver(t) PROVE TidyInv'
<1>1. PICK i \in DOMAIN profiles :
        Begins(t, [at |-> "load", name |-> NameOf(i), id |-> i, ref |-> profiles[i].ref])
  BY DEF SubmitOver
<1> DEFINE r == [at |-> "load", name |-> NameOf(i), id |-> i, ref |-> profiles[i].ref]
<1>2. r.id = i /\ r.ref = RefOf(i)
  BY DEF RefOf
<1>3. Begins(t, r)
  BY <1>1
<1> HIDE DEF r
<1> QED BY <1>2, <1>3, TidyLook DEF SubmitOver

LEMMA TidyDelete == ASSUME KeptInv, TidyInv, NEW t \in Threads, Delete(t) PROVE TidyInv'
<1>1. PICK i \in DOMAIN profiles : Begins(t, [Idle EXCEPT !.at = "count", !.id = i, !.ref = profiles[i].ref])
  BY DEF Delete
<1> DEFINE r == [[[Idle EXCEPT !.at = "count"] EXCEPT !.id = i] EXCEPT !.ref = profiles[i].ref]
<1>2. r.id = i /\ r.ref = RefOf(i)
  BY DEF Idle, RefOf
<1>3. Begins(t, r)
  BY <1>1
<1> HIDE DEF r
<1> QED BY <1>2, <1>3, TidyLook DEF Delete

LEMMA TidyAnswer ==
  ASSUME KeptInv, TidyInv, UNCHANGED <<profiles, given, up, blobs>>, NEW t \in Threads,
         spent' \in [jobs: Int, faults: Nat, crashes: Nat],
         spent'.faults = spent.faults, spent'.crashes = spent.crashes,
         Answer(t), thread[t].at \notin Hand
  PROVE  TidyInv'
<1>1. Idle.id = 0 /\ Idle.at = "idle"
  BY DEF Idle
<1> QED BY <1>1, TidyRequest DEF Answer

LEMMA TidyGoes ==
  ASSUME KeptInv, TidyInv, UNCHANGED <<profiles, given, up, blobs, spent>>, NEW t \in Threads,
         NEW at \in Places, Goes(t, at), thread[t].at \in Hand => at \in Hand,
         at \in {"count", "delete"} => thread[t].at \in {"count", "delete"}
  PROVE  TidyInv'
<1> DEFINE r == [thread[t] EXCEPT !.at = at]
<1>1. r.at = at /\ r.ref = thread[t].ref /\ r.id = thread[t].id
  BY RecordIs DEF KeptInv
<1>2. thread' = [thread EXCEPT ![t] = r]
  BY DEF Goes
<1> HIDE DEF r
<1> QED BY <1>1, <1>2, SpentIs, TidyRequest

LEMMA TidyOnward ==
  ASSUME KeptInv, TidyInv, NEW t \in Threads, Validate(t) \/ Load(t) \/ Count(t)
  PROVE  TidyInv'
<1>1. UNCHANGED <<profiles, given, up, blobs, spent>> /\ thread[t].at \notin Hand
  BY DEF Validate, Load, Count, Hand
<1>2. CASE Answer(t)
  BY <1>1, <1>2, SpentIs, TidyAnswer
<1>3. ASSUME NEW at \in {"validate", "submit"}, Goes(t, at) PROVE TidyInv'
  BY <1>1, <1>3, TidyGoes DEF Places
<1>4. CASE thread[t].at = "count" /\ Goes(t, "delete")
  BY <1>1, <1>4, TidyGoes DEF Places
<1>5. Answer(t) \/ (\E at \in {"validate", "submit"} : Goes(t, at))
        \/ (thread[t].at = "count" /\ Goes(t, "delete"))
  BY DEF Validate, Load, Count
<1> QED BY <1>2, <1>3, <1>4, <1>5

LEMMA TidyCreateJob == ASSUME KeptInv, TidyInv, NEW t \in Threads, CreateJob(t) PROVE TidyInv'
<1>1. /\ Answer(t) /\ UNCHANGED <<profiles, given, up, blobs>> /\ thread[t].at \notin Hand
      /\ UNCHANGED spent \/ spent' = [spent EXCEPT !.jobs = @ + 1]
  BY DEF CreateJob, Hand
<1>2. /\ spent' \in [jobs: Int, faults: Nat, crashes: Nat]
      /\ spent'.faults = spent.faults /\ spent'.crashes = spent.crashes
  BY <1>1, SpentIs
<1> QED BY <1>1, <1>2, TidyAnswer

LEMMA TidySave == ASSUME KeptInv, TidyInv, NEW t \in Threads, Save(t) PROVE TidyInv'
<1> DEFINE r == [[thread[t] EXCEPT !.at = "create"] EXCEPT !.ref = saved']
<1>1. /\ r.at = "create" /\ r.ref = saved' /\ r.id = thread[t].id /\ thread[t].at = "save"
      /\ thread' = [thread EXCEPT ![t] = r]
  <2>1. \A n : /\ [[thread[t] EXCEPT !.at = "create"] EXCEPT !.ref = n].at = "create"
               /\ [[thread[t] EXCEPT !.at = "create"] EXCEPT !.ref = n].ref = n
               /\ [[thread[t] EXCEPT !.at = "create"] EXCEPT !.ref = n].id = thread[t].id
    BY RecordIs DEF KeptInv
  <2> QED BY <2>1 DEF Save
<1> HIDE DEF r
<1>2. thread'[t] = r /\ \A s \in Threads : s # t => thread'[s] = thread[s]
  BY <1>1, RecordIs DEF KeptInv
<1>3. \A s \in Threads : KeepsOn(s)
  BY <1>1, <1>2 DEF KeepsOn
<1>4. \A s \in Threads, b \in blobs : Holds(s, b) => Holds(s, b)'
  BY <1>1, <1>2 DEF Holds
<1>5. blobs' = blobs \cup {saved'} /\ \A b : b = saved' => Holds(t, b)'
  BY <1>1, <1>2 DEF Save, Holds
<1> QED BY <1>3, <1>4, <1>5, SpentIs, TidyStep DEF Save

LEMMA TidyUndo == ASSUME KeptInv, TidyInv, NEW t \in Threads, Undo(t) PROVE TidyInv'
<1>1. /\ blobs' = blobs \ {thread[t].ref} /\ thread' = [thread EXCEPT ![t] = Idle]
      /\ Idle.id = 0 /\ Idle.at = "idle"
  BY DEF Undo, Answer, Idle
<1>2. thread'[t] = Idle /\ \A s \in Threads : s # t => thread'[s] = thread[s]
  BY <1>1, RecordIs DEF KeptInv
<1>3. \A s \in Threads : Forgets(s) \/ KeepsOn(s)
  BY <1>1, <1>2 DEF KeepsOn, Forgets
<1>4. \A s \in Threads, b \in blobs' : Holds(s, b) => Holds(s, b)'
  BY <1>1, <1>2 DEF Holds
<1> QED BY <1>1, <1>3, <1>4, SpentIs, TidyStep DEF Undo

LEMMA TidyRemove == ASSUME KeptInv, TidyInv, NEW t \in Threads, RemoveBlob(t) PROVE TidyInv'
<1>1. thread' = [thread EXCEPT ![t] = Idle] /\ Idle.id = 0 /\ Idle.at = "idle"
  BY DEF RemoveBlob, Answer, Idle
<1>2. thread'[t] = Idle /\ \A s \in Threads : s # t => thread'[s] = thread[s]
  BY <1>1, RecordIs DEF KeptInv
<1>3. \A s \in Threads : Forgets(s) \/ KeepsOn(s)
  BY <1>1, <1>2 DEF KeepsOn, Forgets
<1>4. CASE BehindTheRow(t) /\ UNCHANGED spent
  <2>1. blobs' = blobs \ {thread[t].ref}
    BY <1>4 DEF BehindTheRow
  <2>2. \A s \in Threads, b \in blobs' : Holds(s, b) => Holds(s, b)'
    BY <1>1, <1>2, <2>1 DEF Holds
  <2> QED BY <1>3, <1>4, <2>1, <2>2, SpentIs, TidyStep DEF RemoveBlob
<1>5. CASE Fault
  BY <1>3, <1>5, FaultStep DEF RemoveBlob, TidyInv, Counted
<1> QED BY <1>4, <1>5 DEF RemoveBlob

\* The row takes over the credential of the request that makes it.
LEMMA TidyCreateProfile == ASSUME KeptInv, TidyInv, NEW t \in Threads, CreateProfile(t) PROVE TidyInv'
<1>1. UNCHANGED <<up, blobs>> /\ thread[t].at = "create"
  BY DEF CreateProfile
<1>2. CASE Goes(t, "undo") /\ UNCHANGED <<profiles, given, spent>>
  BY <1>1, <1>2, TidyGoes DEF Places, Hand
<1>3. CASE Fault /\ Answer(t) /\ UNCHANGED <<profiles, given>>
  <2>1. thread' = [thread EXCEPT ![t] = Idle] /\ Idle.id = 0 /\ Idle.at = "idle"
    BY <1>3 DEF Answer, Idle
  <2>2. thread'[t] = Idle /\ \A s \in Threads : s # t => thread'[s] = thread[s]
    BY <2>1, RecordIs DEF KeptInv
  <2>3. \A s \in Threads : Forgets(s) \/ KeepsOn(s)
    BY <2>1, <2>2 DEF KeepsOn, Forgets
  <2> QED BY <1>1, <1>3, <2>3, FaultStep DEF TidyInv, Counted
<1>4. CASE /\ Insert([name |-> thread[t].name, ref |-> thread[t].ref])
           /\ thread' = [thread EXCEPT ![t].at = "validate", ![t].id = NextId]
           /\ UNCHANGED spent
  <2> DEFINE row == [name |-> thread[t].name, ref |-> thread[t].ref]
             r == [[thread[t] EXCEPT !.at = "validate"] EXCEPT !.id = NextId]
  <2>1. row.ref = thread[t].ref /\ Insert(row)
    BY <1>4
  <2>2. /\ NextId \notin DOMAIN profiles /\ DOMAIN profiles' = DOMAIN profiles \cup {NextId}
        /\ profiles'[NextId] = row
        /\ \A i \in DOMAIN profiles : profiles'[i] = profiles[i]
    BY <2>1, InsertIs DEF KeptInv
  <2>3. r.at = "validate" /\ r.id = NextId /\ thread' = [thread EXCEPT ![t] = r]
    <3>1. \A n : /\ [[thread[t] EXCEPT !.at = "validate"] EXCEPT !.id = n].at = "validate"
                 /\ [[thread[t] EXCEPT !.at = "validate"] EXCEPT !.id = n].id = n
      BY RecordIs DEF KeptInv
    <3> QED BY <1>4, <3>1
  <2> HIDE DEF row, r
  <2>4. thread'[t] = r /\ \A s \in Threads : s # t => thread'[s] = thread[s]
    BY <2>3, RecordIs DEF KeptInv
  <2>5. \A s \in Threads : KeepsOn(s) \/ (thread'[s].id = NextId /\ thread'[s].at \notin {"count", "delete"})
    BY <2>3, <2>4 DEF KeepsOn
  <2>6. Fresh' /\ (reused => reused') /\ last' \in Nat /\ reused' \in BOOLEAN
    BY <2>1, <2>5, FreshInsert DEF TidyInv
  <2>7. Counted' /\ (Excused => Excused')
    BY <1>1, <1>4, <2>6 DEF TidyInv, Counted, Excused
  <2>8. Tidy'
    <3> SUFFICES ASSUME ~Excused, NEW b \in blobs
                 PROVE  InRow(b)' \/ \E s \in Threads : Holds(s, b)'
      BY <1>1, <2>7 DEF Tidy
    <3>1. CASE InRow(b)
      BY <2>2, <3>1 DEF InRow, RefOf
    <3>2. ASSUME NEW s \in Threads, Holds(s, b) PROVE InRow(b)' \/ Holds(s, b)'
      <4>1. CASE s = t
        BY <2>1, <2>2, <3>2, <4>1 DEF InRow, RefOf, Holds
      <4>2. CASE s # t
        BY <2>4, <3>2, <4>2 DEF Holds
      <4> QED BY <4>1, <4>2
    <3> QED BY <3>1, <3>2 DEF TidyInv, Tidy
  <2>9. ~up' => Excused'
    BY <1>1, <2>7 DEF TidyInv
  <2> QED BY <2>6, <2>7, <2>8, <2>9 DEF TidyInv
<1> QED BY <1>2, <1>3, <1>4 DEF CreateProfile

\* The request takes over the credential of the row it deletes.
LEMMA TidyDeleteProfile == ASSUME KeptInv, TidyInv, NEW t \in Threads, DeleteProfile(t) PROVE TidyInv'
<1>1. UNCHANGED <<up, blobs, spent, given>> /\ thread[t].at = "delete"
  BY DEF DeleteProfile
<1>2. CASE Answer(t) /\ UNCHANGED profiles
  BY <1>1, <1>2, SpentIs, TidyAnswer DEF Hand
<1>3. CASE /\ thread[t].id \notin jobs /\ Goes(t, "remove")
           /\ profiles' = Restrict(profiles, DOMAIN profiles \ {thread[t].id})
  <2>1. /\ DOMAIN profiles' = DOMAIN profiles \ {thread[t].id}
        /\ \A i \in DOMAIN profiles' : profiles'[i] = profiles[i]
    BY <1>3 DEF Restrict
  <2> DEFINE r == [thread[t] EXCEPT !.at = "remove"]
  <2>2. /\ r.at = "remove" /\ r.ref = thread[t].ref /\ r.id = thread[t].id
        /\ thread' = [thread EXCEPT ![t] = r]
    BY <1>3, RecordIs DEF Goes, KeptInv
  <2> HIDE DEF r
  <2>3. thread'[t] = r /\ \A s \in Threads : s # t => thread'[s] = thread[s]
    BY <2>2, RecordIs DEF KeptInv
  <2>4. \A s \in Threads : KeepsOn(s)
    BY <2>2, <2>3 DEF KeepsOn
  <2>5. Fresh'
    BY <1>1, <2>1, <2>4, FreshStep DEF TidyInv
  <2>6. Counted' /\ (Excused' <=> Excused)
    BY <1>1 DEF TidyInv, Counted, Excused, given
  <2>7. Tidy'
    <3> SUFFICES ASSUME ~Excused, NEW b \in blobs
                 PROVE  InRow(b)' \/ \E s \in Threads : Holds(s, b)'
      BY <1>1, <2>6 DEF Tidy
    <3>1. ASSUME NEW i \in DOMAIN profiles, RefOf(i) = b
          PROVE  InRow(b)' \/ \E s \in Threads : Holds(s, b)'
      <4>1. CASE i = thread[t].id
        <5>1. thread[t].ref = RefOf(i)
          BY <1>1, <4>1 DEF TidyInv, Fresh, Excused
        <5> QED BY <2>2, <2>3, <3>1, <5>1 DEF Holds
      <4>2. CASE i # thread[t].id
        BY <2>1, <3>1, <4>2 DEF InRow, RefOf
      <4> QED BY <4>1, <4>2
    <3>2. ASSUME NEW s \in Threads, Holds(s, b) PROVE Holds(s, b)'
      BY <1>1, <2>3, <3>2 DEF Holds
    <3> QED BY <3>1, <3>2 DEF TidyInv, Tidy, InRow
  <2> QED BY <1>1, <2>5, <2>6, <2>7 DEF TidyInv
<1> QED BY <1>2, <1>3 DEF DeleteProfile

LEMMA TidySubmitToBucket == ASSUME KeptInv, TidyInv, SubmitToBucket PROVE TidyInv'
<1>1. UNCHANGED <<up, blobs, thread>> /\ spent' = [spent EXCEPT !.jobs = @ + 1]
  BY DEF SubmitToBucket
<1>2. /\ spent' \in [jobs: Int, faults: Nat, crashes: Nat]
      /\ spent'.faults = spent.faults /\ spent'.crashes = spent.crashes
  BY <1>1, SpentIs
<1>3. \A s \in Threads : KeepsOn(s)
  BY <1>1 DEF KeepsOn
<1>4. \A s \in Threads : \A b : Holds(s, b)' <=> Holds(s, b)
  BY <1>1 DEF Holds
<1>5. CASE UNCHANGED <<profiles, given>>
  BY <1>1, <1>2, <1>3, <1>4, <1>5, TidyStep
<1>6. CASE Insert([name |-> FirstFree, ref |-> NoRef])
  <2> DEFINE row == [name |-> FirstFree, ref |-> NoRef]
  <2>1. Insert(row)
    BY <1>6
  <2> HIDE DEF row
  <2>2. /\ DOMAIN profiles' = DOMAIN profiles \cup {NextId}
        /\ \A i \in DOMAIN profiles : profiles'[i] = profiles[i]
    BY <2>1, InsertIs DEF KeptInv
  <2>3. Fresh' /\ (reused => reused') /\ last' \in Nat /\ reused' \in BOOLEAN
    BY <1>3, <2>1, FreshInsert DEF TidyInv
  <2>4. Counted' /\ (Excused => Excused')
    BY <1>1, <1>2, <2>3 DEF TidyInv, Counted, Excused
  <2>5. Tidy'
    BY <1>1, <1>4, <2>2, <2>4 DEF TidyInv, Tidy, InRow, RefOf
  <2> QED BY <1>1, <2>3, <2>4, <2>5 DEF TidyInv
<1> QED BY <1>5, <1>6 DEF SubmitToBucket

LEMMA TidyCrash == ASSUME KeptInv, TidyInv, Crash PROVE TidyInv'
<1>1. /\ UNCHANGED <<profiles, given, blobs>> /\ thread' = [t \in Threads |-> Idle]
      /\ spent' = [spent EXCEPT !.crashes = @ + 1] /\ up' = FALSE
      /\ Idle.id = 0 /\ Idle.at = "idle"
  BY DEF Crash, Idle
<1>2. /\ spent' \in [jobs: Int, faults: Nat, crashes: Nat]
      /\ spent'.faults = spent.faults /\ spent'.crashes = spent.crashes + 1
  BY <1>1, SpentIs
<1>3. Counted'
  BY <1>1, <1>2 DEF TidyInv, Counted, given
<1>4. Excused'
  <2>1. spent.faults \in Nat /\ spent.crashes \in Nat
    BY SpentIs
  <2> QED BY <1>2, <2>1 DEF Excused
<1>5. \A t \in Threads : Forgets(t)
  BY <1>1 DEF Forgets
<1>6. Fresh'
  BY <1>1, <1>5, FreshStep DEF TidyInv
<1> QED BY <1>3, <1>4, <1>6 DEF TidyInv, Tidy

\* A service that starts was down, which only a crash makes it.
LEMMA TidyStart == ASSUME KeptInv, TidyInv, Start PROVE TidyInv'
<1>1. UNCHANGED <<profiles, given, thread>> /\ up' = TRUE /\ Excused
  BY DEF Start, TidyInv
<1>2. /\ spent' \in [jobs: Int, faults: Nat, crashes: Nat]
      /\ spent'.faults >= spent.faults /\ spent'.crashes = spent.crashes
  BY SpentIs DEF Start, Fault
<1>3. Counted'
  BY <1>1, <1>2 DEF TidyInv, Counted, given
<1>4. Excused'
  <2>1. spent.faults \in Nat /\ spent.crashes \in Nat
    BY SpentIs
  <2> QED BY <1>1, <1>2, <2>1 DEF Excused, given
<1>5. \A t \in Threads : KeepsOn(t)
  BY <1>1 DEF KeepsOn
<1>6. Fresh'
  BY <1>1, <1>5, FreshStep DEF TidyInv
<1> QED BY <1>3, <1>4, <1>6 DEF TidyInv, Tidy

LEMMA TidyNext == ASSUME KeptInv, TidyInv, [Next]_vars PROVE TidyInv'
<1>1. ASSUME NEW t \in Threads, Serves(t) PROVE TidyInv'
  BY <1>1, TidyCreate, TidySave, TidyCreateProfile, TidyUndo, TidyOnward, TidyCheck, TidySubmitOver,
     TidyCreateJob, TidyDelete, TidyDeleteProfile, TidyRemove DEF Serves
<1>2. CASE SubmitToBucket
  BY <1>2, TidySubmitToBucket
<1>3. CASE Crash
  BY <1>3, TidyCrash
<1>4. CASE Start
  BY <1>4, TidyStart
<1>5. CASE UNCHANGED vars
  BY <1>5 DEF vars, given, TidyInv, Counted, Fresh, Excused, Tidy, InRow, Holds, RefOf
<1> QED BY <1>1, <1>2, <1>3, <1>4, <1>5 DEF Next

LEMMA TidyInit == ASSUME Init PROVE TidyInv
<1>1. DOMAIN profiles = {} /\ \A t \in Threads : thread[t] = Idle
  BY DEF Init
<1>2. Counted
  <2>1. up \in BOOLEAN /\ reused \in BOOLEAN
    BY Zenon DEF Init
  <2>2. spent \in [jobs: Int, faults: Nat, crashes: Nat] /\ last \in Nat
    BY DEF Init
  <2> QED BY <2>1, <2>2 DEF Counted
<1>3. Fresh
  <2>1. Idle.id = 0 /\ Idle.at = "idle" /\ last = 0
    BY DEF Init, Idle
  <2> QED BY <1>1, <2>1 DEF Fresh
<1> QED BY <1>2, <1>3 DEF Init, TidyInv, Tidy

LEMMA TidyMeans == ASSUME KeptInv, TidyInv PROVE NoStrays
<1>1. NoRef \notin blobs
  BY DEF KeptInv, Typed, NoRef
<1>2. \A b \in blobs : InRow(b) => b \in Referenced
  BY <1>1 DEF InRow, Referenced, RefOf
<1>3. \A b \in blobs : (\E t \in Threads : Holds(t, b)) => b \in InHand
  BY DEF Holds, InHand
<1> QED BY <1>2, <1>3 DEF TidyInv, Tidy, Excused, NoStrays

\* create_profile, delete_profile, submit_job, sweep_orphans: whatever requests run
\* at once and wherever the service dies, no connection is without its credential,
\* no job without its connection, and no credential without a connection is left by
\* requests that neither failed nor died nor met an id that was given again.
THEOREM NothingIsLost ==
  ASSUME DOMAIN Found \subseteq Nat
  PROVE  Spec => []NothingDangles
<1>1. Init => KeptInv /\ Down /\ TidyInv
  BY KeptInit, TidyInit
<1>2. KeptInv /\ Down /\ TidyInv /\ [Next]_vars => KeptInv' /\ Down' /\ TidyInv'
  BY KeptStep, DownStep, TidyNext
<1>3. KeptInv /\ TidyInv => NothingDangles
  BY TidyMeans DEF KeptInv, NothingDangles, CredentialKept, Referenced, RowsApart, RefOf
<1> QED BY <1>1, <1>2, <1>3, PTL DEF Spec

---------------------------------------------------------------------------
(* Ids, names and credentials stay within their bounds *)

\* The credentials ever saved that no request is about to give to a row: every id
\* but a twin's was given for one of them.
Recorded == {b \in 1..saved : \A t \in Threads : thread[t].at = "create" => thread[t].ref # b}
Given == Cardinality(Recorded) + IF Twins = {} THEN 0 ELSE 1
TextOfRow == Names \cup Range(Found)

RowsWithin ==
  \A i \in DOMAIN profiles : i \in 1..Given /\ profiles[i] \in [name: TextOfRow, ref: Nat]
NamesApart == \A i, j \in DOMAIN profiles : NameOf(i) = NameOf(j) => i = j
\* The connection without a credential was made with its job, and stays.
OneTwin == Twins \subseteq jobs /\ \A i, j \in Twins : i = j
Named == \A t \in Threads : thread[t].at \in {"save", "create"} => thread[t].name \in Names
WithinInv == saved <= MaxCredentials /\ RowsWithin /\ NamesApart /\ OneTwin /\ Named

LEMMA RecordedCounts ==
  Typed => IsFiniteSet(Recorded) /\ Cardinality(Recorded) \in Nat /\ Cardinality(Recorded) <= saved
<1> SUFFICES ASSUME Typed
             PROVE  IsFiniteSet(Recorded) /\ Cardinality(Recorded) \in Nat /\ Cardinality(Recorded) <= saved
  OBVIOUS
<1>1. Recorded \in SUBSET (1..saved) /\ saved \in Int /\ saved \in Nat
  BY DEF Recorded, Typed
<1>2. IsFiniteSet(1..saved) /\ Cardinality(1..saved) = saved
  BY <1>1, FS_Interval
<1> QED BY <1>1, <1>2, FS_Subset, FS_CardinalityType

\* Credentials that come to be recorded make room for ids.
LEMMA RecordedGrows ==
  ASSUME Typed, Typed', saved' >= saved,
         \A t \in Threads : thread'[t].at = "create" =>
           (thread[t].at = "create" /\ thread'[t].ref = thread[t].ref) \/ thread'[t].ref > saved
  PROVE  Recorded \subseteq Recorded' /\ Cardinality(Recorded) <= Cardinality(Recorded')
<1>1. saved \in Nat /\ saved' \in Nat /\ \A t \in Threads : thread'[t].ref \in Nat
  BY DEF Typed
<1>2. Recorded \subseteq Recorded'
  <2> SUFFICES ASSUME NEW b \in 1..saved, NEW t \in Threads, thread'[t].at = "create",
                      thread[t].at = "create" => thread[t].ref # b
               PROVE  b \in 1..saved' /\ thread'[t].ref # b
    BY <1>1 DEF Recorded
  <2> QED BY <1>1
<1>3. (IsFiniteSet(Recorded) /\ Cardinality(Recorded) \in Nat /\ Cardinality(Recorded) <= saved)'
  BY RecordedCounts, PTL
<1>4. Cardinality(Recorded) <= Cardinality(Recorded')
  BY <1>2, <1>3, FS_Subset
<1> QED BY <1>2, <1>4

\* A step that neither makes nor removes a connection.
LEMMA WithinStep ==
  ASSUME Typed, Typed', WithinInv, UNCHANGED profiles, jobs \subseteq jobs',
         saved' >= saved, saved' <= MaxCredentials,
         \A t \in Threads : thread'[t].at = "create" =>
           (thread[t].at = "create" /\ thread'[t].ref = thread[t].ref) \/ thread'[t].ref > saved,
         Named'
  PROVE  WithinInv'
<1>1. Cardinality(Recorded) <= Cardinality(Recorded')
  BY RecordedGrows
<1>2. Cardinality(Recorded) \in Nat
  BY RecordedCounts
<1>3. (IsFiniteSet(Recorded) /\ Cardinality(Recorded) \in Nat /\ Cardinality(Recorded) <= saved)'
  BY RecordedCounts, PTL
<1>4. Given \in Nat /\ Given' \in Nat /\ Given <= Given'
  BY <1>1, <1>2, <1>3 DEF Given, Twins
<1>5. RowsWithin'
  BY <1>4 DEF WithinInv, RowsWithin
<1>6. NamesApart' /\ OneTwin'
  BY DEF WithinInv, NamesApart, NameOf, OneTwin, Twins
<1> QED BY <1>5, <1>6 DEF WithinInv

\* A new connection has an id that is one more than there was room for, and makes
\* room for it: its credential is no longer to be recorded, or it is the twin.
LEMMA WithinInsert ==
  ASSUME Typed, Typed', WithinInv, UNCHANGED saved, NEW row \in [name: TextOfRow, ref: Nat],
         Insert(row), row.name \notin Taken, jobs \subseteq jobs',
         row.ref = NoRef => Twins = {} /\ NextId \in jobs',
         row.ref # NoRef => row.ref \in Recorded' \ Recorded,
         \A t \in Threads : thread'[t].at = "create" =>
           thread[t].at = "create" /\ thread'[t].ref = thread[t].ref,
         Named'
  PROVE  WithinInv'
<1>1. /\ NextId \in Nat /\ NextId \notin DOMAIN profiles
      /\ DOMAIN profiles' = DOMAIN profiles \cup {NextId}
      /\ profiles'[NextId] = row
      /\ \A i \in DOMAIN profiles : profiles'[i] = profiles[i]
  BY InsertIs
<1>2. saved \in Nat
  BY DEF Typed
<1>3. Recorded \subseteq Recorded' /\ Cardinality(Recorded) <= Cardinality(Recorded')
  BY <1>2, RecordedGrows
<1>4. IsFiniteSet(Recorded) /\ Cardinality(Recorded) \in Nat
  BY RecordedCounts
<1>5. (IsFiniteSet(Recorded) /\ Cardinality(Recorded) \in Nat /\ Cardinality(Recorded) <= saved)'
  BY RecordedCounts, PTL
<1>6. Twins' = IF row.ref = NoRef THEN Twins \cup {NextId} ELSE Twins
  BY <1>1 DEF Twins
<1>7. Given \in Nat /\ Given' \in Nat /\ Given + 1 <= Given'
  <2>1. CASE row.ref = NoRef
    <3>1. Twins = {} /\ Twins' # {}
      BY <1>6, <2>1
    <3> QED BY <1>3, <1>4, <1>5, <3>1 DEF Given
  <2>2. CASE row.ref # NoRef
    <3>1. Cardinality(Recorded \cup {row.ref}) = Cardinality(Recorded) + 1
      BY <1>4, <2>2, FS_AddElement
    <3>2. Recorded \cup {row.ref} \in SUBSET Recorded'
      BY <1>3, <2>2
    <3>3. Cardinality(Recorded \cup {row.ref}) <= Cardinality(Recorded')
      BY <1>5, <3>2, FS_Subset
    <3>4. Twins' = Twins
      BY <1>6, <2>2
    <3> QED BY <1>4, <1>5, <3>1, <3>3, <3>4 DEF Given
  <2> QED BY <2>1, <2>2
<1>8. NextId <= Given + 1 /\ NextId >= 1
  <2>1. CASE DOMAIN profiles = {}
    BY <1>7, <2>1 DEF NextId
  <2>2. CASE DOMAIN profiles # {}
    <3>1. PICK k \in Nat : DOMAIN profiles \subseteq 0..k
      BY DEF Typed
    <3>2. Max(DOMAIN profiles) \in DOMAIN profiles
      BY <2>2, <3>1, MaxIs
    <3>3. Max(DOMAIN profiles) \in 1..Given
      BY <3>2 DEF WithinInv, RowsWithin
    <3>4. NextId = Max(DOMAIN profiles) + 1
      BY <2>2 DEF NextId
    <3> HIDE DEF NextId
    <3> QED BY <1>7, <3>3, <3>4
  <2> QED BY <2>1, <2>2
<1> HIDE DEF NextId
<1>9. RowsWithin'
  <2> SUFFICES ASSUME NEW i \in DOMAIN profiles'
               PROVE  i \in 1..Given' /\ profiles'[i] \in [name: TextOfRow, ref: Nat]
    BY DEF RowsWithin
  <2>1. CASE i = NextId
    BY <1>1, <1>7, <1>8, <2>1
  <2>2. CASE i \in DOMAIN profiles
    <3>1. i \in 1..Given /\ profiles[i] \in [name: TextOfRow, ref: Nat]
      BY <2>2 DEF WithinInv, RowsWithin
    <3> QED BY <1>1, <1>7, <2>2, <3>1
  <2> QED BY <1>1, <2>1, <2>2
<1>10. NamesApart'
  BY <1>1 DEF WithinInv, NamesApart, NameOf, Taken
<1>11. OneTwin'
  BY <1>6 DEF WithinInv, OneTwin
<1>12. saved' <= MaxCredentials
  BY DEF WithinInv
<1> QED BY <1>9, <1>10, <1>11, <1>12 DEF WithinInv

\* A step in which one thread's record changes, and no row.
LEMMA WithinRecord ==
  ASSUME KeptInv, KeptInv', WithinInv, UNCHANGED <<profiles, saved>>, jobs \subseteq jobs',
         NEW t \in Threads, NEW r, thread' = [thread EXCEPT ![t] = r],
         r.at # "create", r.at = "save" => r.name \in Names
  PROVE  WithinInv'
<1>1. thread'[t] = r /\ \A s \in Threads : s # t => thread'[s] = thread[s]
  BY RecordIs DEF KeptInv
<1>2. Named'
  BY <1>1 DEF WithinInv, Named
<1>3. \A s \in Threads : thread'[s].at = "create" =>
        thread[s].at = "create" /\ thread'[s].ref = thread[s].ref
  BY <1>1
<1>4. saved' >= saved /\ saved' <= MaxCredentials
  BY DEF KeptInv, Typed, WithinInv
<1> QED BY <1>2, <1>3, <1>4, WithinStep DEF KeptInv

LEMMA WithinAnswer ==
  ASSUME KeptInv, KeptInv', WithinInv, UNCHANGED <<profiles, saved>>, jobs \subseteq jobs',
         NEW t \in Threads, Answer(t)
  PROVE  WithinInv'
<1>1. Idle.at = "idle"
  BY DEF Idle
<1> QED BY <1>1, WithinRecord DEF Answer

LEMMA WithinGoes ==
  ASSUME KeptInv, KeptInv', WithinInv, UNCHANGED <<profiles, saved>>, jobs \subseteq jobs',
         NEW t \in Threads, NEW at \in Places \ {"save", "create"}, Goes(t, at)
  PROVE  WithinInv'
<1> DEFINE r == [thread[t] EXCEPT !.at = at]
<1>1. r.at = at
  BY RecordIs DEF KeptInv
<1>2. thread' = [thread EXCEPT ![t] = r]
  BY DEF Goes
<1> HIDE DEF r
<1> QED BY <1>1, <1>2, WithinRecord

LEMMA WithinBegins ==
  ASSUME KeptInv, KeptInv', WithinInv, NEW t \in Threads,
         Create(t) \/ Check(t) \/ SubmitOver(t) \/ Delete(t)
  PROVE  WithinInv'
<1>1. UNCHANGED <<profiles, saved>> /\ jobs \subseteq jobs'
  BY DEF Create, Check, SubmitOver, Delete
<1>2. \A n : /\ [[Idle EXCEPT !.at = "save"] EXCEPT !.name = n].at = "save"
            /\ [[Idle EXCEPT !.at = "save"] EXCEPT !.name = n].name = n
  BY DEF Idle
<1>3. \A i, f : /\ [[[Idle EXCEPT !.at = "load"] EXCEPT !.id = i] EXCEPT !.ref = f].at = "load"
               /\ [[[Idle EXCEPT !.at = "count"] EXCEPT !.id = i] EXCEPT !.ref = f].at = "count"
  BY DEF Idle
<1>4. \E r : Begins(t, r) /\ r.at \in {"save", "load", "count"} /\ (r.at = "save" => r.name \in Names)
  <2>1. CASE Create(t)
    <3>1. PICK n \in Names : Begins(t, [Idle EXCEPT !.at = "save", !.name = n])
      BY <2>1 DEF Create
    <3> QED BY <3>1, <1>2
  <2>2. CASE Check(t)
    <3>1. PICK i \in DOMAIN profiles :
            Begins(t, [Idle EXCEPT !.at = "load", !.id = i, !.ref = profiles[i].ref])
      BY <2>2 DEF Check
    <3> QED BY <3>1, <1>3
  <2>3. CASE SubmitOver(t)
    <3>1. PICK i \in DOMAIN profiles :
            Begins(t, [at |-> "load", name |-> NameOf(i), id |-> i, ref |-> profiles[i].ref])
      BY <2>3 DEF SubmitOver
    <3> QED BY <3>1
  <2>4. CASE Delete(t)
    <3>1. PICK i \in DOMAIN profiles :
            Begins(t, [Idle EXCEPT !.at = "count", !.id = i, !.ref = profiles[i].ref])
      BY <2>4 DEF Delete
    <3> QED BY <3>1, <1>3
  <2> QED BY <2>1, <2>2, <2>3, <2>4
<1>5. PICK r : Begins(t, r) /\ r.at \in {"save", "load", "count"} /\ (r.at = "save" => r.name \in Names)
  BY <1>4
<1>6. thread' = [thread EXCEPT ![t] = r] /\ r.at # "create"
  BY <1>5 DEF Begins
<1> QED BY <1>1, <1>5, <1>6, WithinRecord

LEMMA WithinOnward ==
  ASSUME KeptInv, KeptInv', WithinInv, NEW t \in Threads,
         Validate(t) \/ Load(t) \/ Count(t) \/ CreateJob(t) \/ Undo(t) \/ RemoveBlob(t)
  PROVE  WithinInv'
<1>1. UNCHANGED <<profiles, saved>> /\ jobs \subseteq jobs'
  BY DEF Validate, Load, Count, CreateJob, Undo, RemoveBlob
<1>2. CASE Answer(t)
  BY <1>1, <1>2, WithinAnswer
<1>3. ASSUME NEW at \in {"validate", "submit", "delete"}, Goes(t, at) PROVE WithinInv'
  BY <1>1, <1>3, WithinGoes DEF Places
<1>4. Answer(t) \/ \E at \in {"validate", "submit", "delete"} : Goes(t, at)
  BY DEF Validate, Load, Count, CreateJob, Undo, RemoveBlob
<1> QED BY <1>2, <1>3, <1>4

LEMMA WithinSave ==
  ASSUME KeptInv, KeptInv', WithinInv, MaxCredentials \in Nat, NEW t \in Threads, Save(t)
  PROVE  WithinInv'
<1> DEFINE r == [[thread[t] EXCEPT !.at = "create"] EXCEPT !.ref = saved']
<1>1. r.ref = saved' /\ r.name = thread[t].name /\ thread' = [thread EXCEPT ![t] = r]
  <2>1. \A n : /\ [[thread[t] EXCEPT !.at = "create"] EXCEPT !.ref = n].ref = n
              /\ [[thread[t] EXCEPT !.at = "create"] EXCEPT !.ref = n].name = thread[t].name
    BY RecordIs DEF KeptInv
  <2> QED BY <2>1 DEF Save
<1> HIDE DEF r
<1>2. thread'[t] = r /\ \A s \in Threads : s # t => thread'[s] = thread[s]
  BY <1>1, RecordIs DEF KeptInv
<1>3. /\ saved \in Nat /\ saved' = saved + 1 /\ saved < MaxCredentials /\ thread[t].at = "save"
      /\ UNCHANGED profiles /\ jobs \subseteq jobs'
  BY DEF Save, KeptInv, Typed
<1>4. Named'
  BY <1>1, <1>2, <1>3 DEF WithinInv, Named
<1>5. \A s \in Threads : thread'[s].at = "create" =>
        (thread[s].at = "create" /\ thread'[s].ref = thread[s].ref) \/ thread'[s].ref > saved
  BY <1>1, <1>2, <1>3
<1>6. saved' >= saved /\ saved' <= MaxCredentials
  BY <1>3
<1> QED BY <1>3, <1>4, <1>5, <1>6, WithinStep DEF KeptInv

LEMMA WithinCreateProfile ==
  ASSUME KeptInv, KeptInv', WithinInv, NEW t \in Threads, CreateProfile(t)
  PROVE  WithinInv'
<1>1. UNCHANGED <<jobs, blobs, saved>> /\ thread[t].at = "create"
  BY DEF CreateProfile
<1>2. CASE Goes(t, "undo") /\ UNCHANGED profiles
  BY <1>1, <1>2, WithinGoes DEF Places
<1>3. CASE Answer(t) /\ UNCHANGED profiles
  BY <1>1, <1>3, WithinAnswer
<1>4. CASE /\ thread[t].name \notin Taken
           /\ Insert([name |-> thread[t].name, ref |-> thread[t].ref])
           /\ thread' = [thread EXCEPT ![t].at = "validate", ![t].id = NextId]
  <2> DEFINE row == [name |-> thread[t].name, ref |-> thread[t].ref]
             r == [[thread[t] EXCEPT !.at = "validate"] EXCEPT !.id = NextId]
  <2>1. row \in [name: TextOfRow, ref: Nat] /\ row.ref = thread[t].ref /\ row.name = thread[t].name
    <3>1. thread[t].name \in Names /\ thread[t].ref \in Nat
      BY <1>1, RecordIs DEF WithinInv, Named, KeptInv
    <3> QED BY <3>1 DEF TextOfRow
  <2>2. r.at = "validate" /\ thread' = [thread EXCEPT ![t] = r]
    <3>1. \A n : [[thread[t] EXCEPT !.at = "validate"] EXCEPT !.id = n].at = "validate"
      BY RecordIs DEF KeptInv
    <3> QED BY <1>4, <3>1
  <2>3. Insert(row) /\ row.name \notin Taken
    BY <1>4, <2>1
  <2> HIDE DEF r, row
  <2>4. thread'[t] = r /\ \A s \in Threads : s # t => thread'[s] = thread[s]
    BY <2>2, RecordIs DEF KeptInv
  <2>5. \A s \in Threads : thread'[s].at = "create" =>
          s # t /\ thread[s].at = "create" /\ thread'[s].ref = thread[s].ref
    BY <2>2, <2>4
  <2>6. Named'
    BY <2>2, <2>4 DEF WithinInv, Named
  <2>7. thread[t].ref \in blobs /\ thread[t].ref \in 1..saved /\ thread[t].ref # NoRef
    BY <1>1 DEF KeptInv, MakersApart, Making, Typed, NoRef
  <2>8. thread[t].ref \in Recorded' \ Recorded
    <3>1. thread[t].ref \notin Recorded
      BY <1>1 DEF Recorded
    <3>2. \A s \in Threads : thread'[s].at = "create" => thread'[s].ref # thread[t].ref
      BY <1>1, <2>5 DEF KeptInv, MakersApart, Making
    <3>3. thread[t].ref \in Recorded'
      BY <1>1, <2>7, <3>2 DEF Recorded
    <3> QED BY <3>1, <3>3
  <2> QED BY <1>1, <2>1, <2>3, <2>5, <2>6, <2>7, <2>8, WithinInsert DEF KeptInv
<1> QED BY <1>2, <1>3, <1>4 DEF CreateProfile

LEMMA WithinDeleteProfile ==
  ASSUME KeptInv, KeptInv', WithinInv, NEW t \in Threads, DeleteProfile(t)
  PROVE  WithinInv'
<1>1. UNCHANGED <<jobs, saved>> /\ thread[t].at = "delete"
  BY DEF DeleteProfile
<1>2. CASE Answer(t) /\ UNCHANGED profiles
  BY <1>1, <1>2, WithinAnswer
<1>3. CASE /\ thread[t].id \notin jobs /\ Goes(t, "remove")
           /\ profiles' = Restrict(profiles, DOMAIN profiles \ {thread[t].id})
  <2>1. /\ DOMAIN profiles' = DOMAIN profiles \ {thread[t].id}
        /\ \A i \in DOMAIN profiles' : profiles'[i] = profiles[i]
    BY <1>3 DEF Restrict
  <2> DEFINE r == [thread[t] EXCEPT !.at = "remove"]
  <2>2. r.at = "remove" /\ thread' = [thread EXCEPT ![t] = r]
    BY <1>3, RecordIs DEF Goes, KeptInv
  <2> HIDE DEF r
  <2>3. thread'[t] = r /\ \A s \in Threads : s # t => thread'[s] = thread[s]
    BY <2>2, RecordIs DEF KeptInv
  <2>4. Twins' = Twins
    BY <1>3, <2>1 DEF Twins, WithinInv, OneTwin
  <2>5. saved' >= saved /\ saved' <= MaxCredentials
    BY <1>1 DEF KeptInv, Typed, WithinInv
  <2>6. Cardinality(Recorded) <= Cardinality(Recorded')
    BY <2>2, <2>3, <2>5, RecordedGrows DEF KeptInv
  <2>7. Cardinality(Recorded) \in Nat
    BY RecordedCounts DEF KeptInv
  <2>8. (IsFiniteSet(Recorded) /\ Cardinality(Recorded) \in Nat /\ Cardinality(Recorded) <= saved)'
    <3>1. Typed'
      BY DEF KeptInv
    <3> QED BY <3>1, RecordedCounts, PTL
  <2>9. Given \in Nat /\ Given' \in Nat /\ Given <= Given'
    BY <2>4, <2>6, <2>7, <2>8 DEF Given
  <2>10. RowsWithin'
    BY <2>1, <2>9 DEF WithinInv, RowsWithin
  <2>11. NamesApart'
    BY <2>1 DEF WithinInv, NamesApart, NameOf
  <2>12. OneTwin'
    BY <1>1, <2>4 DEF WithinInv, OneTwin
  <2>13. Named'
    BY <2>2, <2>3 DEF WithinInv, Named
  <2> QED BY <2>5, <2>10, <2>11, <2>12, <2>13 DEF WithinInv
<1> QED BY <1>2, <1>3 DEF DeleteProfile

LEMMA WithinSubmitToBucket ==
  ASSUME KeptInv, KeptInv', WithinInv, DOMAIN Found \subseteq Nat, SubmitToBucket
  PROVE  WithinInv'
<1>1. UNCHANGED <<blobs, saved, thread>> /\ saved \in Nat
  BY DEF SubmitToBucket, KeptInv, Typed
<1>2. Named' /\ \A s \in Threads : thread'[s].at = "create" =>
                  thread[s].at = "create" /\ thread'[s].ref = thread[s].ref
  BY <1>1 DEF WithinInv, Named
<1>3. saved' >= saved /\ saved' <= MaxCredentials
  BY <1>1 DEF WithinInv
<1>4. CASE UNCHANGED profiles /\ jobs \subseteq jobs'
  BY <1>2, <1>3, <1>4, WithinStep DEF KeptInv
<1>5. CASE /\ Twins = {} /\ FirstFree # "none"
           /\ Insert([name |-> FirstFree, ref |-> NoRef]) /\ jobs' = jobs \cup {NextId}
  <2> DEFINE row == [name |-> FirstFree, ref |-> NoRef]
             Free == {k \in DOMAIN Found : Found[k] \notin Taken}
  <2>1. Free # {} /\ FirstFree = Found[Min(Free)]
    BY <1>5 DEF FirstFree
  <2>2. Min(Free) \in Free
    BY <2>1, MinIs
  <2>3. FirstFree \in Range(Found) /\ FirstFree \notin Taken
    BY <2>1, <2>2 DEF Range
  <2>4. /\ row \in [name: TextOfRow, ref: Nat] /\ row.ref = NoRef /\ row.name \notin Taken
        /\ Insert(row)
    BY <1>5, <2>3 DEF TextOfRow, NoRef
  <2> HIDE DEF row
  <2>5. jobs \subseteq jobs' /\ NextId \in jobs'
    BY <1>5
  <2> QED BY <1>1, <1>2, <1>5, <2>4, <2>5, WithinInsert DEF KeptInv
<1> QED BY <1>4, <1>5 DEF SubmitToBucket

LEMMA WithinService ==
  ASSUME KeptInv, KeptInv', WithinInv, Crash \/ Start \/ UNCHANGED vars
  PROVE  WithinInv'
<1>1. UNCHANGED <<profiles, saved>> /\ jobs \subseteq jobs'
  BY DEF Crash, Start, vars
<1>2. saved' >= saved /\ saved' <= MaxCredentials
  BY <1>1 DEF KeptInv, Typed, WithinInv
<1>3. \A s \in Threads : thread'[s] = thread[s] \/ thread'[s].at = "idle"
  BY DEF Crash, Start, vars, Idle
<1>4. Named'
  BY <1>3 DEF WithinInv, Named
<1> QED BY <1>1, <1>2, <1>3, <1>4, WithinStep DEF KeptInv

LEMMA WithinNext ==
  ASSUME KeptInv, KeptInv', WithinInv, DOMAIN Found \subseteq Nat, MaxCredentials \in Nat, [Next]_vars
  PROVE  WithinInv'
<1>1. ASSUME NEW t \in Threads, Serves(t) PROVE WithinInv'
  BY <1>1, WithinBegins, WithinOnward, WithinSave, WithinCreateProfile, WithinDeleteProfile DEF Serves
<1> QED BY <1>1, WithinSubmitToBucket, WithinService DEF Next

LEMMA WithinInit == ASSUME Init, MaxCredentials \in Nat PROVE WithinInv
<1>1. DOMAIN profiles = {} /\ saved = 0 /\ \A t \in Threads : thread[t].at = "idle"
  BY DEF Init, Idle
<1> QED BY <1>1 DEF WithinInv, RowsWithin, NamesApart, OneTwin, Twins, Named

\* The invariants say that rows, credentials and requests are what they should be.
LEMMA RowsAreTyped ==
  ASSUME KeptInv, Down, WithinInv, MaxCredentials \in Nat
  PROVE  TypeOK
<1>1. saved \in 0..MaxCredentials /\ blobs \subseteq 1..saved
  BY DEF KeptInv, Typed, WithinInv
<1>2. Given \in Nat /\ Given <= MaxCredentials + 1
  <2>1. Cardinality(Recorded) \in Nat /\ Cardinality(Recorded) <= saved
    BY RecordedCounts DEF KeptInv
  <2> QED BY <1>1, <2>1 DEF Given
<1>3. DOMAIN profiles \subseteq Ids
  BY <1>2 DEF WithinInv, RowsWithin, Ids
<1>4. \A i \in DOMAIN profiles : profiles[i] \in Row
  <2> SUFFICES ASSUME NEW i \in DOMAIN profiles PROVE profiles[i] \in Row
    OBVIOUS
  <2>1. profiles[i] \in [name: TextOfRow, ref: Nat]
    BY DEF WithinInv, RowsWithin
  <2>2. profiles[i].ref = NoRef \/ profiles[i].ref \in blobs
    BY DEF KeptInv, RowsApart, RefOf
  <2>3. profiles[i].ref \in blobs => profiles[i].ref \in Refs
    <3>1. \A b \in 1..saved : b \in 1..MaxCredentials
      BY <1>1
    <3> QED BY <1>1, <3>1 DEF Refs
  <2> QED BY <2>1, <2>2, <2>3 DEF Row, TextOfRow
<1>5. IsInjective([i \in DOMAIN profiles |-> profiles[i].name])
  BY DEF IsInjective, WithinInv, NamesApart, NameOf
<1>6. \A t \in Threads :
        /\ thread[t].at \in Places /\ (thread[t].at # "idle" => up)
        /\ thread[t].at \in {"create", "undo"} => thread[t].ref \in blobs
  BY RecordIs DEF KeptInv, Down, MakersApart, Making
<1>7. \A s, t \in Threads : thread[s].at = "create" /\ thread[t].at = "create" /\ s # t
                             => thread[s].ref # thread[t].ref
  BY DEF KeptInv, MakersApart, Making
<1> QED BY <1>1, <1>3, <1>4, <1>5, <1>6, <1>7 DEF TypeOK, Places

LEMMA RowsStayTyped ==
  ASSUME DOMAIN Found \subseteq Nat, MaxCredentials \in Nat
  PROVE  Spec => []TypeOK
<1>1. Init => KeptInv /\ Down /\ WithinInv
  BY KeptInit, WithinInit
<1>2. KeptInv /\ Down /\ WithinInv /\ [Next]_vars => KeptInv' /\ Down' /\ WithinInv'
  BY KeptStep, DownStep, WithinNext
<1>3. KeptInv /\ Down /\ WithinInv => TypeOK
  BY RowsAreTyped
<1> QED BY <1>1, <1>2, <1>3, PTL DEF Spec
=============================================================================
