---------------------------- MODULE AccountScreens ----------------------------
(***************************************************************************)
(* The screens an Administrator signs in to, decides Role Requests on and  *)
(* works the Accounts and the Clients from, over an API where others decide *)
(* and ask too.  Every list is what the API answered at some moment, and   *)
(* a card can leave its list while the act pressed on it is under way.     *)
(***************************************************************************)
EXTENDS Integers, FiniteSets

CONSTANTS
    RoleRequests,
    Accounts,
    HeldRoles,
    me,             \* the Administrator who is signed in
    raisedBy,       \* [RoleRequests -> Accounts]
    roleAsked,      \* [RoleRequests -> HeldRoles]
    firstRoles,     \* [Accounts -> HeldRoles]
    MaxMoves,       \* nothing is written after this many
    Nobody

ASSUME AccountsAssumption ==
    /\ me \in Accounts /\ Nobody \notin RoleRequests \cup Accounts
    /\ raisedBy \in [RoleRequests -> Accounts]
    /\ roleAsked \in [RoleRequests -> HeldRoles]
    /\ firstRoles \in [Accounts -> HeldRoles]

VARIABLES
    api,        \* what the API holds
    lists,      \* the query cache
    place,      \* the screen shown
    pressed,    \* requests under way, one from each button
    shown,      \* what the screen keeps: the refusals it tells, the open dialog
    session,    \* the role the session says this Viewer holds
    forms       \* the forms that only send and tell

accountVars == <<api, lists, place, pressed, shown, session, forms>>

Api == [asked: [RoleRequests -> {"none", "open", "granted", "denied"}],
        held: [Accounts -> HeldRoles], moves: Nat]

Places == {"home", "account", "roleRequests", "viewers"}

AccountKeys == {"open", "mine", "viewers", "me"}

\* A button: Grant or Deny of a card, Ask for this role, or the acts of a row.
Pressable == ({"grant", "deny"} \X RoleRequests) \cup ({"raise"} \X RoleRequests)
             \cup ({"act"} \X Accounts)

Held == {Nobody} \cup Api

Pressed == [answer: {"none", "done", "refused", "unanswered"}, here: BOOLEAN,
            settled: BOOLEAN, role: HeldRoles, answered: Held]

ASSUME NobodyAssumption == Nobody \notin Pressed

FormNames == {"login", "forgotten", "setPassword", "createViewer", "createClient"}

AccountsTypeOK ==
    /\ api \in Api
    /\ lists \in [AccountKeys -> [at: Held, fetch: {"none", "asked", "answered"}, answer: Held,
                              failed: BOOLEAN]]
    /\ place \in Places
    /\ pressed \in [Pressable -> {Nobody} \cup Pressed]
    /\ shown \in [refusal: {Nobody} \cup RoleRequests, raiseRefused: BOOLEAN,
                  rowRefused: {Nobody} \cup Accounts, denying: {Nobody} \cup RoleRequests,
                  problem: BOOLEAN]
    /\ session \in HeldRoles
    /\ forms \in [FormNames -> {"open", "problem", "sending", "refused", "linkRefused", "done"}]

nothingShown == [refusal |-> Nobody, raiseRefused |-> FALSE, rowRefused |-> Nobody,
                 denying |-> Nobody, problem |-> FALSE]

(* The sidebar counts the open Role Requests on every screen. *)
mountedAt(p) ==
    {"open"} \cup CASE p = "home"     -> {"mine"}
                    [] p = "account"  -> {"mine", "me"}
                    [] p = "viewers"  -> {"viewers"}
                    [] OTHER          -> {}

empty == [at |-> Nobody, fetch |-> "none", answer |-> Nobody, failed |-> FALSE]

AccountsInit ==
    /\ api = [asked |-> [r \in RoleRequests |-> "none"], held |-> firstRoles, moves |-> 0]
    /\ place = "home"
    /\ lists = [k \in AccountKeys |-> IF k \in mountedAt("home") THEN [empty EXCEPT !.fetch = "asked"]
                                      ELSE empty]
    /\ pressed = [b \in Pressable |-> Nobody]
    /\ shown = nothingShown
    /\ session = firstRoles[me]
    /\ forms = [f \in FormNames |-> "open"]

-----------------------------------------------------------------------------
(* Queries *)

listLoaded(k) == lists[k].at # Nobody /\ ~lists[k].failed

askedFor(q) == [q EXCEPT !.fetch = "asked", !.answer = Nobody, !.failed = @ /\ q.at # Nobody]

notAsked(q) == [q EXCEPT !.fetch = "none", !.answer = Nobody]

firstLoad(q) == q.at = Nobody /\ q.fetch # "none"

(* Those mounted are asked for again from the start, but a first load, which
   goes on. *)
outOfDate(keys) ==
    [k \in AccountKeys |-> IF k \in keys \cap mountedAt(place) /\ ~firstLoad(lists[k])
                           THEN askedFor(lists[k]) ELSE lists[k]]

Go(p) ==
    /\ p # place
    /\ place' = p
    /\ lists' = [k \in AccountKeys |->
                   IF k \notin mountedAt(p) THEN notAsked(lists[k])
                   ELSE IF lists[k].fetch = "none" THEN askedFor(lists[k]) ELSE lists[k]]
    /\ pressed' = [b \in Pressable |->
                     IF pressed[b] = Nobody THEN Nobody ELSE [pressed[b] EXCEPT !.here = FALSE]]
    /\ shown' = nothingShown
    /\ UNCHANGED <<api, session, forms>>

ListAnswered(k) ==
    /\ lists[k].fetch = "asked"
    /\ lists' = [lists EXCEPT ![k].fetch = "answered", ![k].answer = api]
    /\ UNCHANGED <<api, place, pressed, shown, session, forms>>

(* A card that leaves its list takes its dialog with it.  "me" is also put in
   the session. *)
ListArrives(k) ==
    /\ lists[k].fetch = "answered"
    /\ lists' = [lists EXCEPT ![k] = [empty EXCEPT !.at = lists[k].answer]]
    /\ session' = IF k = "me" THEN lists[k].answer.held[me] ELSE session
    /\ shown' = IF k = "open" /\ shown.denying # Nobody
                   /\ lists[k].answer.asked[shown.denying] # "open"
                THEN [shown EXCEPT !.denying = Nobody, !.problem = FALSE]
                ELSE shown
    /\ UNCHANGED <<api, place, pressed, forms>>

ListFails(k) ==
    /\ lists[k].fetch # "none"
    /\ lists' = [lists EXCEPT ![k] = [notAsked(@) EXCEPT !.failed = TRUE]]
    /\ shown' = IF k = "open" THEN [shown EXCEPT !.denying = Nobody, !.problem = FALSE] ELSE shown
    /\ UNCHANGED <<api, place, pressed, session, forms>>

ListTryAgain(k) ==
    /\ lists[k].failed /\ lists[k].fetch = "none"
    /\ k \in mountedAt(place)
    /\ lists' = [lists EXCEPT ![k] = askedFor(@)]
    /\ UNCHANGED <<api, place, pressed, shown, session, forms>>

-----------------------------------------------------------------------------
(* Acts *)

(* The card of a Role Request in the queue. *)
cardShown(r) == place = "roleRequests" /\ listLoaded("open") /\ lists["open"].at.asked[r] = "open"

(* One mutation for both buttons of a card. *)
deciding(r) == \E act \in {"grant", "deny"} : pressed[<<act, r>>] # Nobody

startsRequest(button, role) ==
    pressed' = [pressed EXCEPT ![button] =
        [answer |-> "none", here |-> TRUE, settled |-> FALSE, role |-> role, answered |-> Nobody]]

Grant(r) ==
    /\ cardShown(r) /\ ~deciding(r) /\ shown.denying = Nobody
    /\ startsRequest(<<"grant", r>>, roleAsked[r])
    /\ shown' = [shown EXCEPT !.refusal = Nobody]
    /\ UNCHANGED <<api, lists, place, session, forms>>

StartDenying(r) ==
    /\ cardShown(r) /\ ~deciding(r) /\ shown.denying = Nobody
    /\ shown' = [shown EXCEPT !.denying = r]
    /\ UNCHANGED <<api, lists, place, pressed, session, forms>>

StopDenying ==
    /\ shown.denying # Nobody
    /\ shown' = [shown EXCEPT !.denying = Nobody, !.problem = FALSE, !.refusal = Nobody]
    /\ UNCHANGED <<api, lists, place, pressed, session, forms>>

(* A reason the schema refuses is not sent. *)
Deny(reasonGiven) ==
    /\ shown.denying # Nobody /\ ~deciding(shown.denying)
    /\ IF reasonGiven
       THEN /\ startsRequest(<<"deny", shown.denying>>, roleAsked[shown.denying])
            /\ shown' = [shown EXCEPT !.problem = FALSE, !.refusal = Nobody]
       ELSE /\ shown' = [shown EXCEPT !.problem = TRUE]
            /\ UNCHANGED pressed
    /\ UNCHANGED <<api, lists, place, session, forms>>

raising == \E r \in RoleRequests : pressed[<<"raise", r>>] # Nobody

(* Hidden while the latest is open, as it is held. *)
Raise(r) ==
    /\ place = "account" /\ listLoaded("mine")
    /\ raisedBy[r] = me /\ ~raising
    /\ \A one \in RoleRequests : raisedBy[one] = me => lists["mine"].at.asked[one] # "open"
    /\ lists["mine"].at.asked[r] = "none"
    /\ roleAsked[r] # session
    /\ startsRequest(<<"raise", r>>, roleAsked[r])
    /\ shown' = [shown EXCEPT !.raiseRefused = FALSE]
    /\ UNCHANGED <<api, lists, place, session, forms>>

(* Change the role of a row; the other acts of the menu go the same way. *)
ActOnViewer(v, role) ==
    /\ place = "viewers" /\ listLoaded("viewers")
    /\ role # lists["viewers"].at.held[v]
    /\ pressed[<<"act", v>>] = Nobody
    /\ startsRequest(<<"act", v>>, role)
    /\ shown' = [shown EXCEPT !.rowRefused = Nobody]
    /\ UNCHANGED <<api, lists, place, session, forms>>

-----------------------------------------------------------------------------
(* The API, and the others who use it *)

allowed(button) ==
    CASE button[1] \in {"grant", "deny"} -> api.asked[button[2]] = "open"
      [] button[1] = "raise" ->
            /\ \A r \in RoleRequests : raisedBy[r] = raisedBy[button[2]] => api.asked[r] # "open"
            /\ api.asked[button[2]] = "none"
            /\ roleAsked[button[2]] # api.held[raisedBy[button[2]]]
      [] button[1] = "act" -> TRUE

wrote(button, role) ==
    CASE button[1] = "grant" -> [api EXCEPT !.asked[button[2]] = "granted",
                                            !.held[raisedBy[button[2]]] = role, !.moves = @ + 1]
      [] button[1] = "deny"  -> [api EXCEPT !.asked[button[2]] = "denied", !.moves = @ + 1]
      [] button[1] = "raise" -> [api EXCEPT !.asked[button[2]] = "open", !.moves = @ + 1]
      [] button[1] = "act"   -> [api EXCEPT !.held[button[2]] = role, !.moves = @ + 1]

(* A refusal is by the rules, or, of an act on a Viewer, by one of Administration. *)
ActServed(button) ==
    /\ pressed[button] # Nobody /\ pressed[button].answer = "none"
    /\ \/ /\ allowed(button) /\ api.moves < MaxMoves
          /\ api' = wrote(button, pressed[button].role)
          /\ \E answer \in {"done", "unanswered"} :
                pressed' = [pressed EXCEPT ![button].answer = answer, ![button].answered = api']
       \/ /\ ~allowed(button) \/ button[1] = "act"
          /\ pressed' = [pressed EXCEPT ![button].answer = "refused"]
          /\ UNCHANGED api
       \/ /\ pressed' = [pressed EXCEPT ![button].answer = "unanswered"]
          /\ UNCHANGED api
    /\ UNCHANGED <<lists, place, shown, session, forms>>

(* Others, or this Viewer in another tab. *)
OthersMove(button) ==
    /\ button[1] # "act"
    /\ allowed(button) /\ api.moves < MaxMoves
    /\ api' = wrote(button, roleAsked[button[2]])
    /\ UNCHANGED <<lists, place, pressed, shown, session, forms>>

-----------------------------------------------------------------------------
(* Answers *)

(* onSuccess and onSettled of the hook, whatever has become of the card. *)
ActSettles(button) ==
    /\ pressed[button] # Nobody
    /\ pressed[button].answer # "none" /\ ~pressed[button].settled
    /\ pressed' = [pressed EXCEPT ![button].settled = TRUE]
    /\ lists' = CASE button[1] \in {"grant", "deny"} -> outOfDate({"open", "mine", "viewers"})
                  [] button[1] = "raise" -> outOfDate({"open", "mine", "me"})
                  [] button[1] = "act" ->
                        IF pressed[button].answer = "done" THEN outOfDate({"viewers"}) ELSE lists
    /\ session' = IF pressed[button].answer # "done" THEN session
                  ELSE IF button = <<"act", me>> THEN pressed[button].answered.held[me]
                  ELSE IF button[1] \in {"grant", "deny"} THEN api.held[me]
                  ELSE session
    /\ UNCHANGED <<api, place, shown, forms>>

settledFor(button) ==
    /\ pressed[button] # Nobody /\ pressed[button].settled
    /\ \A k \in mountedAt(place) :
          (button[1] # "act" \/ k = "viewers") => lists[k].fetch = "none"

(* Mutant: by the callback of `mutate`, dropped once the card has left. *)
tellsRefusal_byTheCard(r, s) == s.here /\ s.answer # "done" /\ cardShown(r)

(* By the promise of mutateAsync, to the queue if it is still up. *)
tellsRefusal(r, s) == s.here /\ s.answer # "done"

DecisionHeard(button) ==
    LET r == button[2]
        s == pressed[button]
    IN  /\ button[1] \in {"grant", "deny"}
        /\ settledFor(button)
        /\ pressed' = [pressed EXCEPT ![button] = Nobody]
        /\ shown' = IF tellsRefusal(r, s)
                    THEN [shown EXCEPT !.refusal = r,
                                       !.denying = IF @ = r THEN Nobody ELSE @]
                    ELSE shown
        /\ UNCHANGED <<api, lists, place, session, forms>>

(* The account keeps the mutation, and a row its own: told while it is up. *)
OtherActHeard(button) ==
    LET told == pressed[button].here /\ pressed[button].answer # "done"
    IN  /\ button[1] \in {"raise", "act"}
        /\ settledFor(button)
        /\ pressed' = [pressed EXCEPT ![button] = Nobody]
        /\ shown' = IF ~told THEN shown
                    ELSE IF button[1] = "raise" THEN [shown EXCEPT !.raiseRefused = TRUE]
                    ELSE [shown EXCEPT !.rowRefused = button[2]]
        /\ UNCHANGED <<api, lists, place, session, forms>>

-----------------------------------------------------------------------------
(* The forms that only send and tell *)

SubmitForm(f, passes) ==
    /\ forms[f] \in {"open", "problem", "refused"}
    /\ forms' = [forms EXCEPT ![f] = IF passes THEN "sending" ELSE "problem"]
    /\ UNCHANGED <<api, lists, place, pressed, shown, session>>

(* A link that is expired, used or replaced leaves no form; the other refusals
   leave what was typed, on the fields they name or as one message. *)
FormAnswered(f) ==
    /\ forms[f] = "sending"
    /\ \E answer \in {"done", "refused"}
                     \cup (IF f \in {"createViewer", "createClient"} THEN {"problem"} ELSE {})
                     \cup (IF f = "setPassword" THEN {"linkRefused"} ELSE {}) :
          forms' = [forms EXCEPT ![f] = answer]
    /\ UNCHANGED <<api, lists, place, pressed, shown, session>>

(* The dialog opened again, the screen come to again, another link followed. *)
FormReopened(f) ==
    /\ forms[f] \in {"done", "linkRefused", "problem", "refused"}
    /\ forms' = [forms EXCEPT ![f] = "open"]
    /\ UNCHANGED <<api, lists, place, pressed, shown, session>>

-----------------------------------------------------------------------------
AccountsNext ==
    \/ \E p \in Places : Go(p)
    \/ \E k \in AccountKeys : ListAnswered(k) \/ ListArrives(k) \/ ListFails(k) \/ ListTryAgain(k)
    \/ \E r \in RoleRequests : Grant(r) \/ StartDenying(r) \/ Raise(r)
    \/ StopDenying
    \/ \E reasonGiven \in BOOLEAN : Deny(reasonGiven)
    \/ \E v \in Accounts, role \in HeldRoles : ActOnViewer(v, role)
    \/ \E b \in Pressable :
          ActServed(b) \/ OthersMove(b) \/ ActSettles(b) \/ DecisionHeard(b) \/ OtherActHeard(b)
    \/ \E f \in FormNames :
          FormAnswered(f) \/ FormReopened(f) \/ \E passes \in BOOLEAN : SubmitForm(f, passes)

AccountsSpec == AccountsInit /\ [][AccountsNext]_accountVars

-----------------------------------------------------------------------------
(* Properties *)

(* A decision that was refused or not answered is told in the queue it was
   made from, although that queue has been asked again by then and the card
   may have left it.  (RoleRequestDecision sends with mutateAsync, and the
   hook's onSettled waits for the queue before the promise is rejected.) *)
RefusedDecisionsAreTold ==
    [][\A r \in RoleRequests, act \in {"grant", "deny"} :
          LET s == pressed[<<act, r>>]
          IN  s # Nobody /\ s.here /\ s.answer \in {"refused", "unanswered"}
              /\ pressed'[<<act, r>>] = Nobody
              => shown'.refusal = r]_accountVars
=============================================================================
