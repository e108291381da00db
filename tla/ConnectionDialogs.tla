------------------------ MODULE ConnectionDialogs ------------------------
(***************************************************************************)
(* The desktop's connections: the dialog that makes one in three steps,    *)
(* with a health check, a sign-in and a creation it cannot take back, and  *)
(* the dialog that lists them on cards that are checked and removed        *)
(* (gui/connection_dialogs.py, gui/connection_widgets.py).  Every request  *)
(* is a thread of its own, answered in any order.                          *)
(***************************************************************************)
EXTENDS Naturals, FiniteSets

CONSTANTS
  Names, NoName,
  MaxGestures, MaxChanges, MaxFailures   \* bounds

VARIABLES
  stored, used,   \* the service's connections by name, and those that jobs have
  stepper,        \* NewConnectionDialog; a new one goes on counting generations
  probes,         \* its list of probes: how many have passed, and its timer
  cards,          \* ConnectionsDialog: per name listed, its card
  calls,          \* requests, and the sign-in, under way
  spent           \* what was used of the bounds

vars == <<stored, used, stepper, probes, cards, calls, spent>>
service == <<stored, used>>

NoCard == [listed |-> FALSE, region |-> "none", checking |-> FALSE]
Card == [NoCard EXCEPT !.listed = TRUE]
Closed == [page |-> "closed", name |-> NoName, healthy |-> FALSE, login |-> 0]
NoProbes == [passed |-> 0, ticking |-> FALSE]
Waiting == {"signin", "validating"}

\* A request knows the generation it was made in, or whether its card is there.
Call(kind) == [kind |-> kind, at |-> "asked", name |-> NoName, login |-> stepper.login,
               live |-> TRUE, rows |-> {}]
Expected(page) == IF page = "signin" THEN "login" ELSE "create"
InFlight(kind) == {c \in calls : c.kind = kind /\ c.login = stepper.login}

\* A page that waits has what it waits for under way, once; no other page has it.
TypeOK ==
  /\ stored \subseteq Names /\ used \subseteq stored
  /\ stepper.page \in Waiting \cup {"closed", "where", "credential", "verified", "failed"}
  /\ stepper.page \in Waiting => Cardinality(InFlight(Expected(stepper.page))) = 1
  /\ stepper.page \notin Waiting => InFlight("login") \cup InFlight("create") = {}
  /\ probes.passed \in 0..5 /\ probes.ticking \in BOOLEAN
  /\ \A n \in Names : cards[n].region # "none" \/ cards[n].checking => cards[n].listed

Init ==
  /\ stored \in SUBSET Names /\ used \in SUBSET stored
  /\ stepper = Closed /\ probes = NoProbes
  /\ cards = [n \in Names |-> NoCard]
  /\ calls = {[Call("list") EXCEPT !.login = 0]}
  /\ spent = [gestures |-> 0, changes |-> 0, failures |-> 0]

Gesture == /\ spent.gestures < MaxGestures /\ spent' = [spent EXCEPT !.gestures = @ + 1]
           /\ UNCHANGED service
Ask(c) == calls' = calls \cup {c}
Lists == [Call("list") EXCEPT !.login = 0]
Turns(page) == stepper' = [stepper EXCEPT !.page = page]
Modal == stepper.page # "closed"

---------------------------------------------------------------------------
(* NewConnectionDialog *)

Open ==
  /\ Gesture /\ ~Modal /\ Ask(Call("health"))
  /\ stepper' = [Closed EXCEPT !.page = "where", !.login = stepper.login]
  /\ probes' = NoProbes /\ UNCHANGED cards

\* Step one: a name and a bucket.
Next1 ==
  /\ Gesture /\ stepper.page = "where"
  /\ \E n \in Names : stepper' = [stepper EXCEPT !.page = "credential", !.name = n]
  /\ UNCHANGED <<probes, cards, calls>>
\* Back to it, from the credential or for the bucket's name; or for another one.
Back ==
  /\ Gesture /\ stepper.page \in {"credential", "failed", "verified"} /\ Turns("where")
  /\ probes' = IF stepper.page = "verified" THEN NoProbes ELSE probes
  /\ UNCHANGED <<cards, calls>>
TryAnother ==
  /\ Gesture /\ stepper.page = "failed" /\ Turns("credential") /\ UNCHANGED <<probes, cards, calls>>
CheckAgain ==
  /\ Gesture /\ stepper.page = "credential" /\ ~stepper.healthy /\ Ask(Call("health"))
  /\ UNCHANGED <<stepper, probes, cards>>

\* _start_create.
StartCreate ==
  /\ Turns("validating") /\ probes' = [passed |-> 0, ticking |-> TRUE]
CreateCall == [Call("create") EXCEPT !.name = stepper.name]
ChooseKey ==
  /\ Gesture /\ stepper.page = "credential" /\ stepper.healthy
  /\ StartCreate /\ Ask(CreateCall) /\ UNCHANGED cards
ChooseSignin ==
  /\ Gesture /\ stepper.page = "credential" /\ stepper.healthy
  /\ stepper' = [stepper EXCEPT !.page = "signin", !.login = @ + 1]
  /\ Ask([Call("login") EXCEPT !.login = stepper'.login]) /\ UNCHANGED <<probes, cards>>

\* reject abandons what is under way; Done does not have to. Behind either, the
\* list is loaded once more, and a health check answers a dialog that is gone.
Left == calls' = {c \in calls : c.kind # "health"} \cup {Lists}
KeepsGeneration == stepper.login
NextGeneration == stepper.login + 1
Close ==
  /\ Gesture /\ Modal /\ Left
  /\ stepper' = [Closed EXCEPT !.login = NextGeneration] /\ UNCHANGED <<probes, cards>>
Done ==
  /\ Gesture /\ stepper.page = "verified"
  /\ stepper' = [Closed EXCEPT !.login = stepper.login] /\ Left /\ UNCHANGED <<probes, cards>>

\* ProbeList._advance: the last probe runs until the service answers.
Advanced == IF probes.passed = 4 THEN 4 ELSE probes.passed + 1
Advance ==
  /\ probes.ticking
  /\ probes' = [passed |-> Advanced, ticking |-> probes.passed < 4]
  /\ UNCHANGED <<service, stepper, cards, calls, spent>>

\* The answers. A generation that is over is not listened to.
Whichever(c) == TRUE
Counts(c) == c.login = stepper.login
HealthDone(c) ==
  /\ stepper' = [stepper EXCEPT !.healthy = c.at = "answered"]
  /\ calls' = calls \ {c} /\ UNCHANGED <<probes, cards>>
LoginDone(c) ==
  /\ IF c.at = "answered"
     THEN StartCreate /\ calls' = (calls \ {c}) \cup {CreateCall}
     ELSE Turns("credential") /\ calls' = calls \ {c} /\ UNCHANGED probes
  /\ UNCHANGED cards
CreateDone(c) ==
  /\ CASE c.at = "answered" ->
            /\ Turns("verified") /\ probes' = [passed |-> 5, ticking |-> FALSE]
            /\ calls' = (calls \ {c}) \cup {Lists}
       [] c.at = "taken" ->
            Turns("where") /\ probes' = [probes EXCEPT !.ticking = FALSE] /\ calls' = calls \ {c}
       [] c.at = "failed" ->
            Turns("failed") /\ probes' = [probes EXCEPT !.ticking = FALSE] /\ calls' = calls \ {c}
  /\ UNCHANGED cards
Discarded(c) == calls' = calls \ {c} /\ UNCHANGED <<stepper, probes, cards>>

---------------------------------------------------------------------------
(* ConnectionsDialog *)

Change(n, card) == cards' = [cards EXCEPT ![n] = card] /\ UNCHANGED <<stepper, probes>>
CardCall(kind, n) == [Call(kind) EXCEPT !.name = n, !.login = 0]

CheckCard ==
  /\ Gesture /\ ~Modal
  /\ \E n \in Names : /\ cards[n].listed /\ ~cards[n].checking /\ Ask(CardCall("check", n))
                      /\ Change(n, [cards[n] EXCEPT !.checking = TRUE])
Remove ==
  /\ Gesture /\ ~Modal /\ UNCHANGED calls
  /\ \E n \in Names : /\ cards[n].listed /\ ~cards[n].checking
                      /\ Change(n, [cards[n] EXCEPT !.region = "confirm"])
Keep ==
  /\ Gesture /\ ~Modal /\ UNCHANGED calls
  /\ \E n \in Names : cards[n].region # "none" /\ Change(n, [cards[n] EXCEPT !.region = "none"])
\* The button stays, to be pressed once more.
Confirm ==
  /\ Gesture /\ ~Modal
  /\ \E n \in Names : cards[n].region = "confirm" /\ Ask(CardCall("delete", n))
  /\ UNCHANGED <<stepper, probes, cards>>

\* _profiles_loaded: cards are made anew, and calls of the old ones have none.
Loaded(c) ==
  /\ cards' = IF c.at # "answered" THEN cards
              ELSE [n \in Names |-> IF n \in c.rows THEN Card ELSE NoCard]
  /\ calls' = IF c.at # "answered" THEN calls \ {c}
              ELSE {[d EXCEPT !.live = d.kind \notin {"check", "delete"}] : d \in calls \ {c}}
  /\ UNCHANGED <<stepper, probes>>

\* The card, if it is there still, gets its buttons back, whatever the answer.
CheckDone(c) ==
  /\ calls' = calls \ {c}
  /\ IF c.live THEN Change(c.name, [cards[c.name] EXCEPT !.checking = FALSE])
     ELSE UNCHANGED <<stepper, probes, cards>>

\* Refused because of its jobs, or failed.
Refused(c) == c.at = "used"
DeleteDone(c) ==
  IF c.at = "answered"
  THEN calls' = (calls \ {c}) \cup {Lists} /\ UNCHANGED <<stepper, probes, cards>>
  ELSE /\ calls' = calls \ {c}
       /\ CASE ~c.live -> UNCHANGED <<stepper, probes, cards>>
            [] c.live /\ Refused(c) -> Change(c.name, [cards[c.name] EXCEPT !.region = "refusal"])
            [] c.live /\ ~Refused(c) ->
                 Change(c.name, [cards[c.name] EXCEPT !.region = "none", !.checking = FALSE])

Answer ==
  \E c \in calls :
    /\ c.at # "asked" /\ UNCHANGED <<service, spent>>
    /\ CASE c.kind = "health" -> HealthDone(c)
         [] c.kind = "login" -> IF Counts(c) THEN LoginDone(c) ELSE Discarded(c)
         [] c.kind = "create" -> IF Counts(c) THEN CreateDone(c) ELSE Discarded(c)
         [] c.kind = "list" -> Loaded(c)
         [] c.kind = "check" -> CheckDone(c)
         [] c.kind = "delete" -> DeleteDone(c)

---------------------------------------------------------------------------
(* The service and the browser *)

Reply(c, at) == calls' = (calls \ {c}) \cup {[c EXCEPT !.at = at, !.rows = stored]}
Creates(c) ==
  IF c.name \in stored THEN Reply(c, "taken") /\ UNCHANGED stored
  ELSE stored' = stored \cup {c.name} /\ Reply(c, "answered")
Deletes(c) ==
  CASE c.name \in used -> Reply(c, "used") /\ UNCHANGED stored
    [] c.name \notin stored -> Reply(c, "failed") /\ UNCHANGED stored
    [] c.name \in stored \ used -> stored' = stored \ {c.name} /\ Reply(c, "answered")
Serve ==
  /\ \E c \in calls :
       /\ c.at = "asked"
       /\ \/ /\ CASE c.kind = "create" -> Creates(c)
                  [] c.kind = "delete" -> Deletes(c)
                  [] c.kind = "check" ->
                       Reply(c, IF c.name \in stored THEN "answered" ELSE "failed") /\ UNCHANGED stored
                  [] c.kind \in {"health", "login", "list"} -> Reply(c, "answered") /\ UNCHANGED stored
             /\ UNCHANGED spent
          \/ /\ spent.failures < MaxFailures /\ spent' = [spent EXCEPT !.failures = @ + 1]
             /\ Reply(c, "failed") /\ UNCHANGED stored
  /\ UNCHANGED <<used, stepper, probes, cards>>

\* Other clients: a connection is removed, made, or used by a job.
Elsewhere ==
  /\ spent.changes < MaxChanges /\ spent' = [spent EXCEPT !.changes = @ + 1]
  /\ \E n \in Names :
       \/ n \in stored \ used /\ stored' = stored \ {n} /\ UNCHANGED used
       \/ n \notin stored /\ stored' = stored \cup {n} /\ UNCHANGED used
       \/ n \in stored \ used /\ used' = used \cup {n} /\ UNCHANGED stored
  /\ UNCHANGED <<stepper, probes, cards, calls>>

User ==
  \/ Open \/ Next1 \/ Back \/ TryAnother \/ CheckAgain \/ ChooseKey \/ ChooseSignin
  \/ Close \/ Done \/ CheckCard \/ Remove \/ Keep \/ Confirm
Next == User \/ Advance \/ Answer \/ Serve \/ Elsewhere
Spec == Init /\ [][Next]_vars

---------------------------------------------------------------------------
(* Properties *)

\* reject: a sign-in that comes back behind a cancelled dialog sends nothing to
\* the service, for that dialog or for the one opened since.
CancelledSendsNothing ==
  [][\A c \in calls' \ calls : c.kind = "create" /\ c.at = "asked" => stepper.page \in {"credential", "signin"}]_vars

\* ProbeList: the probes are shown as passed when the service said so and never
\* before.
ProbesWait == probes.passed = 5 => stepper.page \in {"verified", "closed"}

\* show_refusal: a connection the card says has jobs has some.
RefusalIsTrue == \A n \in Names : cards[n].region = "refusal" => n \in used

\* set_checking: no card is left checking, its buttons dead, whatever lists, checks
\* and removals were answered before.
ChecksEnd == []<>(\A n \in Names : ~cards[n].checking)
=============================================================================
