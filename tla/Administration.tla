---------------------------- MODULE Administration ----------------------------
(***************************************************************************)
(* Who holds which role and which authority, and the acts that change it:  *)
(* creating a Viewer, appointing and withdrawing an Administrator, setting *)
(* a role, Deactivating and reactivating, and Role Requests raised,        *)
(* granted and denied.  Each act is one transaction; transactions run at   *)
(* once, at READ COMMITTED, and meet only at the row locks they take.      *)
(*                                                                         *)
(* The rows a transaction has written are seen by others when it commits,  *)
(* and a lock holds them until then, so each transaction's writes are in   *)
(* its last step.  Deactivating also revokes refresh tokens (Sessions), and *)
(* creating a Viewer also mails a password link (PasswordLinks).           *)
(***************************************************************************)
EXTENDS Integers, Sequences, FiniteSets

CONSTANTS
    Viewers,            \* ids, in the order uuids are sorted in
    FirstViewers,       \* the viewers table to begin with: Viewers -> Row or None
    RoleRequestIds,     \* the ids a run has to give out
    Requests,           \* the requests that can be in flight at once
    Asks,               \* the administrative requests sent in this instance
    MaxEvents,          \* no act that may be recorded begins once this many are
    None                \* no row, no field

Roles == {"reader", "author", "reviewer"}

Row == [role: Roles, isAdministrator: BOOLEAN, isDeactivated: BOOLEAN]

RoleRequest == [viewer: Viewers, role: Roles, state: {"open", "granted", "denied"}]

Acts == {"create", "appoint", "withdraw", "changeRole", "deactivate", "reactivate",
         "raise", "grant", "deny"}

Ask == [act: Acts, target: {None} \cup Viewers, role: {None} \cup Roles,
        request: {None} \cup RoleRequestIds]

(* A Change Event about a Viewer.  For an event about a role, before and after
   are roles. *)
Event == [type: {"viewer_created", "administrator_appointed",
                 "administrator_withdrawn", "role_changed", "viewer_deactivated",
                 "viewer_reactivated", "role_request_granted",
                 "role_request_denied"},
          viewer: Viewers, before: {None} \cup Roles, after: {None} \cup Roles,
          request: {None} \cup RoleRequestIds]

ASSUME ViewersAssumption == Viewers \subseteq Nat /\ IsFiniteSet(Viewers)

ASSUME FirstAssumption == FirstViewers \in [Viewers -> {None} \cup Row]

(* Each request names what its route and its schema make it name. *)
ASSUME AsksAssumption ==
    /\ Asks \subseteq Ask
    /\ \A a \in Asks :
          /\ a.act \in {"grant", "deny"} => a.request # None
          /\ a.act \in {"create", "changeRole", "raise"} => a.role # None
          /\ a.act \notin {"raise", "grant", "deny"} => a.target # None

ASSUME NoneAssumption ==
    /\ None \notin Viewers /\ None \notin RoleRequestIds /\ None \notin Roles
    /\ \A row \in Row : row # None
    /\ \A request \in RoleRequest : request # None

VARIABLES
    viewers,        \* the viewers table
    roleRequests,   \* the role_requests table
    events,         \* the Change Events about Viewers
    req             \* what each request in flight has in hand

vars == <<viewers, roleRequests, events, req>>

(* A request: where it is, who acts and with which role (as the sign-in check
   read them), what is asked; and inside its transaction the Viewer the act is
   about, the rows it has still to lock, those it has locked, and the Role
   Request it has decided. *)
Request ==
    [pc: {"idle", "insert", "decide", "select", "lock", "record"},
     actor: {None} \cup Viewers, held: {None} \cup Roles, ask: {None} \cup Ask,
     target: {None} \cup Viewers, toLock: SUBSET Viewers, locked: SUBSET Viewers,
     before: {None} \cup Row]

Idle == [pc |-> "idle", actor |-> None, held |-> None, ask |-> None,
         target |-> None, toLock |-> {}, locked |-> {}, before |-> None]

TypeOK ==
    /\ viewers \in [Viewers -> {None} \cup Row]
    /\ roleRequests \in [RoleRequestIds -> {None} \cup RoleRequest]
    /\ events \in Seq(Event)
    /\ req \in [Requests -> Request]

Init ==
    /\ viewers = FirstViewers
    /\ roleRequests = [id \in RoleRequestIds |-> None]
    /\ events = <<>>
    /\ req = [r \in Requests |-> Idle]

-----------------------------------------------------------------------------
(* Rows, locks and who waits for whom *)

activeAdministrator(v) ==
    /\ viewers[v] # None
    /\ viewers[v].isAdministrator
    /\ ~viewers[v].isDeactivated

isOpen(id) == roleRequests[id] # None /\ roleRequests[id].state = "open"

(* A transaction that has decided a Role Request holds its row. *)
hasDecided(r, id) ==
    /\ req[r].pc \in {"select", "lock", "record"}
    /\ req[r].ask.act \in {"grant", "deny"}
    /\ req[r].ask.request = id

(* How strongly lockViewer and lockViewerAndActiveAdministrators lock. *)
rowLock == "no key update"

(* Mutant: the target first, and then the Administrators. *)
nextToLock_targetFirst(r) ==
    IF req[r].target \in req[r].toLock
    THEN req[r].target
    ELSE CHOOSE v \in req[r].toLock : \A w \in req[r].toLock : v =< w

(* ORDER BY id. *)
nextToLock(r) == CHOOSE v \in req[r].toLock : \A w \in req[r].toLock : v =< w

(* What one transaction waits for in PostgreSQL: a row another has locked, a
   unique index entry another has written and not committed, and, for the
   foreign key of a row that names the acting Viewer, a lock that is stronger
   than NO KEY UPDATE. *)
waitsFor(r, s) ==
    /\ r # s
    /\ \/ /\ req[r].pc = "lock"
          /\ req[r].toLock # {}
          /\ nextToLock(r) \in req[s].locked
       \/ req[r].pc = "decide" /\ hasDecided(s, req[r].ask.request)
       \/ /\ req[r].pc = "insert" /\ req[r].ask.act = "raise"
          /\ \E id \in RoleRequestIds : /\ isOpen(id)
                                        /\ roleRequests[id].viewer = req[r].actor
                                        /\ hasDecided(s, id)
       \/ /\ req[r].pc = "insert" /\ req[r].ask.act = "create"
          /\ req[s].pc = "record" /\ req[s].ask.act = "create"
          /\ req[s].target = req[r].target
       \/ /\ req[r].pc \in {"insert", "record"}
          /\ rowLock = "update"
          /\ req[r].actor \in req[s].locked

blocked(r) == \E s \in Requests : waitsFor(r, s)

finish(r) == req' = [req EXCEPT ![r] = Idle]

-----------------------------------------------------------------------------
(* Before the transaction *)

(* The bounds of the instance, and nothing the code has. *)
withinBounds(a) ==
    /\ a.act = "raise" \/ Len(events) < MaxEvents
    /\ a.act = "raise" =>
          Cardinality({id \in RoleRequestIds : roleRequests[id] = None}) >
          Cardinality({r \in Requests : req[r].pc = "insert" /\ req[r].ask.act = "raise"})

firstStep(act) ==
    CASE act \in {"create", "raise"} -> "insert"
      [] act \in {"grant", "deny"} -> "decide"
      [] OTHER -> "select"

(* Ids are random: nobody can name a Viewer whose creation has yet to commit. *)
unheardOf(v) == viewers[v] = None /\ \E b \in Asks : b.act = "create" /\ b.target = v

(* The sign-in check refuses a Deactivated Viewer, and requireAdministrator
   everyone but an Administrator; anyone may raise a Role Request. *)
Authenticate(r, v, a) ==
    /\ req[r].pc = "idle"
    /\ withinBounds(a)
    /\ viewers[v] # None
    /\ ~viewers[v].isDeactivated
    /\ a.act # "raise" => viewers[v].isAdministrator
    /\ a.act \notin {"create", "raise", "grant", "deny"} => ~unheardOf(a.target)
    /\ req' = [req EXCEPT ![r] = [Idle EXCEPT !.pc = firstStep(a.act),
                                             !.actor = v, !.held = viewers[v].role,
                                             !.ask = a, !.target = a.target]]
    /\ UNCHANGED <<viewers, roleRequests, events>>

-----------------------------------------------------------------------------
(* Role Requests *)

(* Another role than the one held when the request came in, and the partial
   unique index of the open Role Requests. *)
mayRaise(r) ==
    /\ req[r].held # req[r].ask.role
    /\ \A id \in RoleRequestIds : isOpen(id) => roleRequests[id].viewer # req[r].actor

RaiseRoleRequest(r, id) ==
    /\ req[r].pc = "insert"
    /\ req[r].ask.act = "raise"
    /\ ~blocked(r)
    /\ mayRaise(r)
    /\ roleRequests[id] = None
    /\ roleRequests' = [roleRequests EXCEPT
          ![id] = [viewer |-> req[r].actor, role |-> req[r].ask.role, state |-> "open"]]
    /\ finish(r)
    /\ UNCHANGED <<viewers, events>>

RaiseRefused(r) ==
    /\ req[r].pc = "insert"
    /\ req[r].ask.act = "raise"
    /\ ~blocked(r)
    /\ ~mayRaise(r)
    /\ finish(r)
    /\ UNCHANGED <<viewers, roleRequests, events>>

(* Mutant: the update names the Role Request and not its state. *)
decidable_anyState(id) == roleRequests[id] # None

decidable(id) == isOpen(id)

(* decideRoleRequest: of two decisions at once, the second waits on the row
   and then finds nothing to change.  A denial writes nothing more than its
   event. *)
DecideRoleRequest(r) ==
    LET id == req[r].ask.request
    IN  /\ req[r].pc = "decide"
        /\ ~blocked(r)
        /\ decidable(id)
        /\ req' = [req EXCEPT ![r].pc = IF req[r].ask.act = "grant" THEN "select" ELSE "record",
                             ![r].target = roleRequests[id].viewer]
        /\ UNCHANGED <<viewers, roleRequests, events>>

DecisionRefused(r) ==
    /\ req[r].pc = "decide"
    /\ ~blocked(r)
    /\ ~decidable(req[r].ask.request)
    /\ finish(r)
    /\ UNCHANGED <<viewers, roleRequests, events>>

-----------------------------------------------------------------------------
(* Creating a Viewer *)

(* insertViewer, where the unique index on the address refuses a second one.
   The password link is mailed before the commit, and Abort is a mail that
   could not be sent. *)
InsertViewer(r) ==
    /\ req[r].pc = "insert"
    /\ req[r].ask.act = "create"
    /\ ~blocked(r)
    /\ viewers[req[r].target] = None
    /\ req' = [req EXCEPT ![r].pc = "record"]
    /\ UNCHANGED <<viewers, roleRequests, events>>

InsertRefused(r) ==
    /\ req[r].pc = "insert"
    /\ req[r].ask.act = "create"
    /\ ~blocked(r)
    /\ viewers[req[r].target] # None
    /\ finish(r)
    /\ UNCHANGED <<viewers, roleRequests, events>>

-----------------------------------------------------------------------------
(* Acts on a Viewer's row *)

(* Mutant: only the target is locked. *)
rowsToLock_targetOnly(act, target) == {v \in Viewers : viewers[v] # None /\ v = target}

(* lockViewer for most acts; those that could remove the last Administrator
   lock every active one as well. *)
rowsToLock(act, target) ==
    {v \in Viewers : /\ viewers[v] # None
                     /\ \/ v = target
                        \/ act \in {"withdraw", "deactivate"} /\ activeAdministrator(v)}

(* The statement that locks finds its rows by the snapshot it starts with. *)
SelectRows(r) ==
    /\ req[r].pc = "select"
    /\ req' = [req EXCEPT ![r].pc = "lock",
                         ![r].toLock = rowsToLock(req[r].ask.act, req[r].target)]
    /\ UNCHANGED <<viewers, roleRequests, events>>

(* Mutant: no row is locked. *)
LockRow_not(r) ==
    /\ req[r].pc = "lock"
    /\ req[r].toLock # {}
    /\ req' = [req EXCEPT ![r].toLock = {}]
    /\ UNCHANGED <<viewers, roleRequests, events>>

(* It then locks them one by one, waiting for each.  A row that has changed
   since is locked as it now is; one that is no longer an active Administrator
   drops out of the answer and its lock is kept all the same. *)
LockRow(r) ==
    /\ req[r].pc = "lock"
    /\ req[r].toLock # {}
    /\ ~blocked(r)
    /\ LET v == nextToLock(r)
       IN  req' = [req EXCEPT ![r].toLock = @ \ {v}, ![r].locked = @ \cup {v}]
    /\ UNCHANGED <<viewers, roleRequests, events>>

allLocked(r) == req[r].pc = "lock" /\ req[r].toLock = {}

(* The row already is what the act would make it.  A grant is never so: it is
   recorded even when the role is held by then. *)
alreadyDone(a, row) ==
    CASE a.act = "appoint"    -> row.isAdministrator
      [] a.act = "withdraw"   -> ~row.isAdministrator
      [] a.act = "changeRole" -> row.role = a.role
      [] a.act = "deactivate" -> row.isDeactivated
      [] a.act = "reactivate" -> ~row.isDeactivated
      [] a.act = "grant"      -> FALSE

(* Mutant: a Deactivated Administrator counts. *)
isLastActiveAdministrator_countsAll(v) ==
    /\ viewers[v].isAdministrator
    /\ \A w \in Viewers \ {v} : viewers[w] # None => ~viewers[w].isAdministrator

(* refuseLastActiveAdministrator: nobody else who can appoint a replacement. *)
isLastActiveAdministrator(v) ==
    /\ viewers[v].isAdministrator
    /\ \A w \in Viewers \ {v} : ~activeAdministrator(w)

(* What the row locked allows, read after the lock. *)
allowedOnRow(a, v) ==
    /\ viewers[v] # None
    /\ ~alreadyDone(a, viewers[v])
    /\ a.act \in {"withdraw", "deactivate"} => ~isLastActiveAdministrator(v)

CheckRow(r) ==
    /\ allLocked(r)
    /\ allowedOnRow(req[r].ask, req[r].target)
    /\ req' = [req EXCEPT ![r].pc = "record", ![r].before = viewers[req[r].target]]
    /\ UNCHANGED <<viewers, roleRequests, events>>

(* Not there, already done, or the last active Administrator. *)
RowRefused(r) ==
    /\ allLocked(r)
    /\ ~allowedOnRow(req[r].ask, req[r].target)
    /\ finish(r)
    /\ UNCHANGED <<viewers, roleRequests, events>>

-----------------------------------------------------------------------------
(* What a transaction has written when it commits *)

(* Mutant: the role comes from the decision, which names none. *)
roleGiven_fromDecision(a) == a.role

roleGiven(a) == IF a.act = "grant" THEN roleRequests[a.request].role ELSE a.role

(* Mutant: a grant records the role and does not set it. *)
newRow_grantKeepsRole(a, row) ==
    CASE a.act = "create" ->
            [role |-> a.role, isAdministrator |-> FALSE, isDeactivated |-> FALSE]
      [] a.act = "changeRole" -> [row EXCEPT !.role = a.role]
      [] a.act = "deactivate" -> [row EXCEPT !.isDeactivated = TRUE]
      [] a.act = "reactivate" -> [row EXCEPT !.isDeactivated = FALSE]
      [] OTHER -> row

newRow(a, row) ==
    CASE a.act = "create" ->
            [role |-> a.role, isAdministrator |-> FALSE, isDeactivated |-> FALSE]
      [] a.act = "appoint"    -> [row EXCEPT !.isAdministrator = TRUE]
      [] a.act = "withdraw"   -> [row EXCEPT !.isAdministrator = FALSE]
      [] a.act \in {"changeRole", "grant"} -> [row EXCEPT !.role = roleGiven(a)]
      [] a.act = "deactivate" -> [row EXCEPT !.isDeactivated = TRUE]
      [] a.act = "reactivate" -> [row EXCEPT !.isDeactivated = FALSE]
      [] a.act = "deny"       -> row

typeOf(act) ==
    CASE act = "create"     -> "viewer_created"
      [] act = "appoint"    -> "administrator_appointed"
      [] act = "withdraw"   -> "administrator_withdrawn"
      [] act = "changeRole" -> "role_changed"
      [] act = "deactivate" -> "viewer_deactivated"
      [] act = "reactivate" -> "viewer_reactivated"
      [] act = "grant"      -> "role_request_granted"
      [] act = "deny"       -> "role_request_denied"

(* insertChangeEvent, with the payload of each act. *)
eventOf(a, v, before) ==
    [type |-> typeOf(a.act), viewer |-> v,
     before |-> IF a.act \in {"changeRole", "grant"} THEN before.role ELSE None,
     after |-> CASE a.act \in {"create", "changeRole", "grant"} -> roleGiven(a)
                 [] a.act = "deny" -> roleRequests[a.request].role
                 [] OTHER -> None,
     request |-> IF a.act \in {"grant", "deny"} THEN a.request ELSE None]

decidedRoleRequests(a) ==
    CASE a.act = "grant" -> [roleRequests EXCEPT ![a.request].state = "granted"]
      [] a.act = "deny"  -> [roleRequests EXCEPT ![a.request].state = "denied"]
      [] OTHER -> roleRequests

Commit(r) ==
    LET a == req[r].ask
        v == req[r].target
    IN  /\ req[r].pc = "record"
        /\ ~blocked(r)
        /\ viewers' = [viewers EXCEPT ![v] = newRow(a, @)]
        /\ roleRequests' = decidedRoleRequests(a)
        /\ events' = Append(events, eventOf(a, v, req[r].before))
        /\ finish(r)

(* A connection, the process, a mail that fails or the transaction's time
   limit ends a request anywhere; what it has not committed is rolled back. *)
Abort(r) ==
    /\ req[r].pc # "idle"
    /\ finish(r)
    /\ UNCHANGED <<viewers, roleRequests, events>>

Step(r) ==
    \/ \E id \in RoleRequestIds : RaiseRoleRequest(r, id)
    \/ RaiseRefused(r)
    \/ DecideRoleRequest(r)
    \/ DecisionRefused(r)
    \/ InsertViewer(r)
    \/ InsertRefused(r)
    \/ SelectRows(r)
    \/ LockRow(r)
    \/ CheckRow(r)
    \/ RowRefused(r)
    \/ Commit(r)

Next ==
    \E r \in Requests :
       \/ \E v \in Viewers, a \in Asks : Authenticate(r, v, a)
       \/ Step(r)
       \/ Abort(r)

Spec == Init /\ [][Next]_vars

-----------------------------------------------------------------------------
(* Invariants *)

(* Somebody active can always appoint a replacement.  (docs/adr/0015: the last
   Administrator cannot be removed; refuseLastActiveAdministrator and the
   locks around it, of several removals at once.) *)
AnAdministratorRemains == \E v \in Viewers : activeAdministrator(v)

(* No transactions wait for each other in a circle, which PostgreSQL would end
   by failing one of them.  (docs/adr/0039: one statement, one order, and no
   stronger than NO KEY UPDATE.) *)
NoDeadlock ==
    \A S \in SUBSET Requests :
       S # {} => \E r \in S : \A s \in S : ~waitsFor(r, s)

recorded == 1..Len(events)

tellsOfRole(i, v) ==
    /\ events[i].viewer = v
    /\ events[i].type \in {"viewer_created", "role_changed", "role_request_granted"}

tellsOfAuthority(i, v) ==
    /\ events[i].viewer = v
    /\ events[i].type \in {"administrator_appointed", "administrator_withdrawn"}

tellsOfDeactivation(i, v) ==
    /\ events[i].viewer = v
    /\ events[i].type \in {"viewer_deactivated", "viewer_reactivated"}

(* The Change Events about a Viewer, replayed on the row they began with, give
   their row: there is one if they were there at first or were created, its
   role is what the last event about it left, and an Administrator was last
   appointed and a Deactivated Viewer last Deactivated.  (setRole,
   setIsAdministrator and setIsDeactivated write the row apart from the event,
   in one transaction.) *)
EventsReplayToViewers ==
    \A v \in Viewers :
       /\ viewers[v] # None <=>
             \/ FirstViewers[v] # None
             \/ \E i \in recorded : events[i].viewer = v /\ events[i].type = "viewer_created"
       /\ \A i \in recorded :
             /\ tellsOfRole(i, v) /\ (\A j \in recorded : tellsOfRole(j, v) => j =< i)
                => viewers[v] # None /\ viewers[v].role = events[i].after
             /\ tellsOfAuthority(i, v) /\ (\A j \in recorded : tellsOfAuthority(j, v) => j =< i)
                => /\ viewers[v] # None
                   /\ viewers[v].isAdministrator <=> events[i].type = "administrator_appointed"
             /\ tellsOfDeactivation(i, v) /\ (\A j \in recorded : tellsOfDeactivation(j, v) => j =< i)
                => /\ viewers[v] # None
                   /\ viewers[v].isDeactivated <=> events[i].type = "viewer_deactivated"
       /\ viewers[v] # None =>
             /\ (\A i \in recorded : ~tellsOfRole(i, v)) =>
                   viewers[v].role = FirstViewers[v].role
             /\ (\A i \in recorded : ~tellsOfAuthority(i, v)) =>
                   (viewers[v].isAdministrator <=>
                        FirstViewers[v] # None /\ FirstViewers[v].isAdministrator)
             /\ (\A i \in recorded : ~tellsOfDeactivation(i, v)) =>
                   (viewers[v].isDeactivated <=>
                        FirstViewers[v] # None /\ FirstViewers[v].isDeactivated)

(* Each change is recorded once, though two requests may ask for it at once:
   an event about a role starts from the role the one before it left, and two
   in a row about authority or Deactivation never say the same.
   (docs/adr/0039: the target is read after the lock.) *)
EachChangeIsRecordedOnce ==
    \A v \in Viewers : \A i, j \in recorded :
       /\ /\ i < j /\ tellsOfRole(i, v) /\ tellsOfRole(j, v)
          /\ \A k \in recorded : tellsOfRole(k, v) => k =< i \/ j =< k
          => /\ events[j].before = events[i].after
             /\ events[j].type = "role_changed" => events[j].before # events[j].after
       /\ /\ i < j /\ tellsOfAuthority(i, v) /\ tellsOfAuthority(j, v)
          /\ \A k \in recorded : tellsOfAuthority(k, v) => k =< i \/ j =< k
          => events[i].type # events[j].type
       /\ /\ i < j /\ tellsOfDeactivation(i, v) /\ tellsOfDeactivation(j, v)
          /\ \A k \in recorded : tellsOfDeactivation(k, v) => k =< i \/ j =< k
          => events[i].type # events[j].type

(* A Role Request is decided once, its state says how, and a grant gave the
   role it asked for; and a Viewer has one open at a time, so deciding is what
   lets them ask again.  (docs/adr/0041, and decideRoleRequest's condition on
   the state.) *)
RoleRequestsAreDecidedOnce ==
    LET decisions(id) == {i \in recorded : events[i].request = id}
    IN  \A id \in RoleRequestIds : roleRequests[id] # None =>
           /\ isOpen(id) =>
                 /\ decisions(id) = {}
                 /\ \A other \in RoleRequestIds \ {id} :
                       isOpen(other) => roleRequests[other].viewer # roleRequests[id].viewer
           /\ ~isOpen(id) =>
                 \E i \in recorded :
                    /\ decisions(id) = {i}
                    /\ events[i].viewer = roleRequests[id].viewer
                    /\ events[i].after = roleRequests[id].role
                    /\ events[i].type = IF roleRequests[id].state = "granted"
                                        THEN "role_request_granted"
                                        ELSE "role_request_denied"
=============================================================================
