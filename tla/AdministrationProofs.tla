------------------------- MODULE AdministrationProofs -------------------------
(***************************************************************************)
(* Theorems of Administration, for any number of Viewers, Role Requests    *)
(* and concurrent transactions: nobody waits in a circle, the log replayed *)
(* gives the tables, it says each change and each decision once, and an    *)
(* Administrator remains.                                                  *)
(***************************************************************************)
EXTENDS Administration, FiniteSetTheorems, WellFoundedInduction, TLAPS

(* The acts that lock a Viewer's row. *)
RowActs == {"appoint", "withdraw", "changeRole", "deactivate", "reactivate", "grant"}

toCreate(v) == \E b \in Asks : b.act = "create" /\ b.target = v

decides(R) == R.pc \in {"select", "lock", "record"} /\ R.ask.act \in {"grant", "deny"}

creates(R) == R.pc = "record" /\ R.ask.act = "create"

inHand(R) ==
    /\ R.pc # "idle" => R.actor \in Viewers /\ R.held \in Roles /\ R.ask \in Asks
    /\ R.pc = "insert" => R.ask.act \in {"create", "raise"}
    /\ R.pc = "decide" => R.ask.act \in {"grant", "deny"}
    /\ R.pc \in {"select", "lock"} => R.ask.act \in RowActs
    /\ R.pc = "record" => R.ask.act \in RowActs \cup {"create", "deny"}
    /\ R.pc \notin {"idle", "decide"} /\ R.ask.act # "raise" => R.target \in Viewers
    /\ R.pc \notin {"idle", "decide"} /\ R.ask.act = "create" => R.target = R.ask.target
    /\ R.pc \notin {"lock", "record"} => R.locked = {}

(* What a transaction goes by is still so: the Role Request it decided is open,
   the row it is about is among those it locks, it locks in order, and what it
   is about to record has not been done by another. *)
sound(R) ==
    /\ R.pc # "idle" => viewers[R.actor] # None
    /\ decides(R) =>
          isOpen(R.ask.request) /\ R.target = roleRequests[R.ask.request].viewer
    /\ R.pc \in {"select", "lock"} => viewers[R.target] # None \/ ~toCreate(R.target)
    /\ R.pc = "lock" =>
          /\ viewers[R.target] # None => R.target \in R.toLock \cup R.locked
          /\ \A v \in R.locked, w \in R.toLock : v < w
    /\ creates(R) => viewers[R.target] = None
    /\ R.pc = "record" /\ R.ask.act \in RowActs =>
          /\ R.target \in R.locked
          /\ R.before # None
          /\ R.before = viewers[R.target]
          /\ ~alreadyDone(R.ask, R.before)

(* No two hold one row, have decided one Role Request or create one Viewer. *)
apart(R, S) ==
    /\ R.locked \cap S.locked = {}
    /\ ~(decides(R) /\ decides(S) /\ R.ask.request = S.ask.request)
    /\ ~(creates(R) /\ creates(S) /\ R.target = S.target)

HandsOK == \A r \in Requests : inHand(req[r])

Sound == \A r \in Requests : sound(req[r])

Apart == \A r, s \in Requests : r # s => apart(req[r], req[s])

RequestersExist ==
    \A id \in RoleRequestIds :
        roleRequests[id] # None => viewers[roleRequests[id].viewer] # None

Typed == TypeOK /\ HandsOK

Inv == Typed /\ Sound /\ Apart /\ RequestersExist

LEMMA IdleFacts ==
    /\ Idle \in Request /\ inHand(Idle) /\ sound(Idle)
    /\ \A S \in Request : apart(Idle, S)
BY DEF Idle, Request, inHand, sound, apart, decides, creates

LEMMA ApartIsMutual == \A R, S : apart(R, S) => apart(S, R)
BY DEF apart

LEMMA InvInit == Init => Inv
<1> SUFFICES ASSUME Init PROVE Inv
  OBVIOUS
<1>1. TypeOK
  BY IdleFacts, FirstAssumption DEF Init, TypeOK
<1>2. \A r \in Requests : req[r] = Idle
  BY DEF Init
<1>3. HandsOK /\ Sound /\ Apart
  BY <1>2, IdleFacts DEF HandsOK, Sound, Apart
<1>4. RequestersExist
  BY DEF Init, RequestersExist
<1> QED BY <1>1, <1>3, <1>4 DEF Inv, Typed

-----------------------------------------------------------------------------
(* Steps that write no row that others see *)

(* A step of one request that changes what it alone has in hand. *)
LEMMA OnlyTheRequest ==
    ASSUME Inv, NEW r \in Requests, NEW R \in Request, inHand(R), sound(R),
           \A s \in Requests \ {r} : apart(R, req[s]),
           req' = [req EXCEPT ![r] = R],
           UNCHANGED <<viewers, roleRequests, events>>
    PROVE  Inv'
<1>1. req'[r] = R /\ \A s \in Requests \ {r} : req'[s] = req[s]
  BY DEF Inv, Typed, TypeOK
<1>2. TypeOK'
  BY DEF Inv, Typed, TypeOK
<1>3. ASSUME NEW s \in Requests PROVE inHand(req[s])' /\ sound(req[s])'
  <2>1. inHand(req'[s]) /\ sound(req'[s])
    BY <1>1 DEF Inv, Typed, HandsOK, Sound
  <2> QED BY <2>1 DEF inHand, sound, decides, creates, isOpen
<1>4. Apart'
  <2>1. ASSUME NEW s \in Requests, NEW t \in Requests, s # t PROVE apart(req'[s], req'[t])
    BY <1>1, <2>1, ApartIsMutual DEF Inv, Apart
  <2> QED BY <2>1 DEF Apart, apart, decides, creates
<1>5. RequestersExist'
  BY DEF Inv, RequestersExist
<1> QED BY <1>2, <1>3, <1>4, <1>5 DEF Inv, Typed, HandsOK, Sound

(* A step that leaves a request idle. *)
LEMMA Finishing ==
    ASSUME Inv, NEW r \in Requests, finish(r), UNCHANGED <<viewers, roleRequests, events>>
    PROVE  Inv'
<1>1. \A s \in Requests : req[s] \in Request
  BY DEF Inv, Typed, TypeOK
<1> QED BY <1>1, IdleFacts, OnlyTheRequest DEF finish

LEMMA Known ==
    ASSUME Inv, NEW r \in Requests
    PROVE  /\ req[r] \in Request /\ inHand(req[r]) /\ sound(req[r])
           /\ req \in [Requests -> Request]
           /\ \A s \in Requests \ {r} :
                 apart(req[r], req[s]) /\ req[s] \in Request /\ inHand(req[s])
BY DEF Inv, Typed, TypeOK, HandsOK, Sound, Apart

LEMMA AuthenticateStep ==
    ASSUME Inv, NEW r \in Requests, NEW v \in Viewers, NEW a \in Asks, Authenticate(r, v, a)
    PROVE  Inv'
<1> DEFINE R == [Idle EXCEPT !.pc = firstStep(a.act), !.actor = v,
                             !.held = viewers[v].role, !.ask = a, !.target = a.target]
<1>1. /\ a \in Ask
      /\ a.act \notin {"raise", "grant", "deny"} => a.target \in Viewers
  BY AsksAssumption DEF Ask
<1>2. viewers[v] \in Row /\ viewers[v] # None
  BY DEF Inv, Typed, TypeOK, Authenticate
<1>3. /\ R.pc = firstStep(a.act) /\ R.actor = v /\ R.held = viewers[v].role /\ R.ask = a
      /\ R.target = a.target /\ R.toLock = {} /\ R.locked = {} /\ R.before = None
  BY DEF Idle
<1>4. /\ firstStep(a.act) \in {"insert", "decide", "select"}
      /\ firstStep(a.act) = "insert" => a.act \in {"create", "raise"}
      /\ firstStep(a.act) = "decide" => a.act \in {"grant", "deny"}
      /\ firstStep(a.act) = "select" =>
            a.act \in RowActs /\ a.act \notin {"create", "raise", "grant", "deny"}
  BY <1>1 DEF Ask, Acts, RowActs, firstStep
<1>5. R \in Request
  BY <1>1, <1>2, <1>4 DEF Request, Row, Ask, Idle
<1>6. inHand(R)
  BY <1>1, <1>2, <1>3, <1>4 DEF inHand, Row, RowActs
<1>7. sound(R)
  BY <1>2, <1>3, <1>4 DEF sound, decides, creates, Authenticate, unheardOf, toCreate
<1>8. \A s \in Requests \ {r} : apart(R, req[s])
  BY <1>3, <1>4 DEF apart, decides, creates
<1>9. req' = [req EXCEPT ![r] = R]
  BY DEF Authenticate
<1> HIDE DEF R
<1> QED BY <1>5, <1>6, <1>7, <1>8, <1>9, OnlyTheRequest DEF Authenticate

LEMMA DecideStep ==
    ASSUME Inv, NEW r \in Requests, DecideRoleRequest(r)
    PROVE  Inv'
<1> DEFINE id == req[r].ask.request
           R == [req[r] EXCEPT !.pc = IF req[r].ask.act = "grant" THEN "select" ELSE "record",
                               !.target = roleRequests[id].viewer]
<1>1. /\ req[r] \in Request /\ inHand(req[r]) /\ sound(req[r]) /\ req \in [Requests -> Request]
      /\ req[r].pc = "decide" /\ req[r].ask.act \in {"grant", "deny"} /\ req[r].locked = {}
      /\ req[r].ask \in Asks /\ req[r].actor \in Viewers /\ req[r].held \in Roles
  BY Known DEF DecideRoleRequest, inHand
<1>2. id \in RoleRequestIds
  BY <1>1, AsksAssumption DEF Ask
<1>3. /\ isOpen(id) /\ roleRequests[id].viewer \in Viewers
      /\ viewers[roleRequests[id].viewer] # None
  BY <1>2 DEF DecideRoleRequest, decidable, isOpen, Inv, Typed, TypeOK, RoleRequest,
              RequestersExist
<1>4. /\ R.pc = (IF req[r].ask.act = "grant" THEN "select" ELSE "record")
      /\ R.target = roleRequests[id].viewer /\ R.ask = req[r].ask /\ R.locked = {}
      /\ R.actor = req[r].actor /\ R.held = req[r].held /\ R \in Request
  BY <1>1, <1>3 DEF Request
<1>5. inHand(R)
  BY <1>1, <1>3, <1>4 DEF inHand, RowActs
<1>6. sound(R)
  BY <1>1, <1>3, <1>4 DEF sound, decides, creates, RowActs
<1>7. ASSUME NEW s \in Requests \ {r} PROVE apart(R, req[s])
  <2>1. ~hasDecided(s, id)
    BY <1>1 DEF DecideRoleRequest, blocked, waitsFor
  <2> QED BY <2>1, <1>1, <1>4 DEF apart, decides, creates, hasDecided
<1>8. req' = [req EXCEPT ![r] = R]
  BY <1>1 DEF DecideRoleRequest
<1> HIDE DEF R
<1> QED BY <1>4, <1>5, <1>6, <1>7, <1>8, OnlyTheRequest DEF DecideRoleRequest

LEMMA SelectStep ==
    ASSUME Inv, NEW r \in Requests, SelectRows(r)
    PROVE  Inv'
<1> DEFINE rows == rowsToLock(req[r].ask.act, req[r].target)
           R == [req[r] EXCEPT !.pc = "lock", !.toLock = rows]
<1>1. /\ req[r] \in Request /\ inHand(req[r]) /\ sound(req[r]) /\ req \in [Requests -> Request]
      /\ \A s \in Requests \ {r} : apart(req[r], req[s])
      /\ req[r].pc = "select" /\ req[r].locked = {} /\ req[r].target \in Viewers
  BY Known DEF SelectRows, inHand, RowActs
<1>2. rows \subseteq Viewers /\ (viewers[req[r].target] # None => req[r].target \in rows)
  BY <1>1 DEF rowsToLock
<1>3. /\ R.pc = "lock" /\ R.toLock = rows /\ R.ask = req[r].ask /\ R.target = req[r].target
      /\ R.locked = {} /\ R.actor = req[r].actor /\ R.held = req[r].held /\ R \in Request
  BY <1>1, <1>2 DEF Request
<1>4. inHand(R)
  BY <1>1, <1>3 DEF inHand
<1>5. sound(R)
  BY <1>1, <1>2, <1>3 DEF sound, decides, creates
<1>6. \A s \in Requests \ {r} : apart(R, req[s])
  BY <1>1, <1>3 DEF apart, decides, creates
<1>7. req' = [req EXCEPT ![r] = R]
  BY <1>1 DEF SelectRows
<1> HIDE DEF R, rows
<1> QED BY <1>3, <1>4, <1>5, <1>6, <1>7, OnlyTheRequest DEF SelectRows

LEMMA LeastOf ==
    ASSUME NEW T, T \subseteq Nat, T # {}
    PROVE  \E v \in T : \A w \in T : v =< w
<1> DEFINE below == {pair \in Nat \X Nat : pair[1] < pair[2]}
<1>1. IsWellFoundedOn(below, Nat)
  BY NatLessThanWellFounded DEF OpToRel
<1>2. \A v, w \in Nat : <<w, v>> \in below <=> w < v
  OBVIOUS
<1> HIDE DEF below
<1>3. PICK v \in T : \A w \in T : ~ (<<w, v>> \in below)
  BY <1>1, WFMin
<1>4. ASSUME NEW w \in T PROVE v =< w
  <2>1. <<w, v>> \notin below /\ v \in Nat /\ w \in Nat
    BY <1>3
  <2>2. ~ (w < v)
    BY <2>1, <1>2
  <2> QED BY <2>1, <2>2
<1> QED BY <1>4

(* There is a first among the rows still to lock. *)
LEMMA FirstToLock ==
    ASSUME NEW r, req[r].toLock \subseteq Viewers, req[r].toLock # {}
    PROVE  /\ nextToLock(r) \in req[r].toLock
           /\ \A w \in req[r].toLock : nextToLock(r) =< w
<1>1. Viewers \subseteq Nat
  BY ViewersAssumption
<1>2. \E v \in req[r].toLock : \A w \in req[r].toLock : v =< w
  BY <1>1, LeastOf
<1> QED BY <1>2 DEF nextToLock

LEMMA LockStep ==
    ASSUME Inv, NEW r \in Requests, LockRow(r)
    PROVE  Inv'
<1> DEFINE v == nextToLock(r)
           R == [req[r] EXCEPT !.toLock = @ \ {v}, !.locked = @ \cup {v}]
<1>1. /\ req[r] \in Request /\ inHand(req[r]) /\ sound(req[r]) /\ req \in [Requests -> Request]
      /\ \A s \in Requests \ {r} : apart(req[r], req[s])
      /\ req[r].pc = "lock" /\ req[r].toLock # {} /\ req[r].toLock \subseteq Viewers
      /\ req[r].locked \subseteq Viewers
  BY Known DEF LockRow, Request
<1>2. v \in req[r].toLock /\ \A w \in req[r].toLock : v =< w
  BY <1>1, FirstToLock
<1>3. /\ R.pc = "lock" /\ R.toLock = req[r].toLock \ {v} /\ R.locked = req[r].locked \cup {v}
      /\ R.ask = req[r].ask /\ R.target = req[r].target
      /\ R.actor = req[r].actor /\ R.held = req[r].held /\ R \in Request
  BY <1>1, <1>2 DEF Request
<1>4. inHand(R)
  BY <1>1, <1>3 DEF inHand
<1>5. \A u \in R.locked, w \in R.toLock : u < w
  <2>1. Viewers \subseteq Nat
    BY ViewersAssumption
  <2>2. \A u \in req[r].locked, w \in req[r].toLock : u < w
    BY <1>1 DEF sound
  <2> QED BY <1>1, <1>2, <1>3, <2>1, <2>2
<1>6. sound(R)
  BY <1>1, <1>3, <1>5 DEF sound, decides, creates
<1>7. ASSUME NEW s \in Requests \ {r} PROVE apart(R, req[s])
  <2>1. v \notin req[s].locked
    BY <1>1 DEF LockRow, blocked, waitsFor
  <2> QED BY <2>1, <1>1, <1>3 DEF apart, decides, creates
<1>8. req' = [req EXCEPT ![r] = R]
  BY <1>1 DEF LockRow
<1> HIDE DEF R, v
<1> QED BY <1>3, <1>4, <1>6, <1>7, <1>8, OnlyTheRequest DEF LockRow

LEMMA CheckStep ==
    ASSUME Inv, NEW r \in Requests, CheckRow(r)
    PROVE  Inv'
<1> DEFINE R == [req[r] EXCEPT !.pc = "record", !.before = viewers[req[r].target]]
<1>1. /\ req[r] \in Request /\ inHand(req[r]) /\ sound(req[r]) /\ req \in [Requests -> Request]
      /\ \A s \in Requests \ {r} : apart(req[r], req[s])
      /\ req[r].pc = "lock" /\ req[r].toLock = {} /\ req[r].target \in Viewers
      /\ req[r].ask.act \in RowActs
  BY Known DEF CheckRow, allLocked, inHand, RowActs
<1>2. /\ viewers[req[r].target] # None /\ viewers[req[r].target] \in Row
      /\ ~alreadyDone(req[r].ask, viewers[req[r].target])
  BY <1>1 DEF CheckRow, allowedOnRow, Inv, Typed, TypeOK
<1>3. /\ R.pc = "record" /\ R.before = viewers[req[r].target] /\ R.locked = req[r].locked
      /\ R.ask = req[r].ask /\ R.target = req[r].target
      /\ R.actor = req[r].actor /\ R.held = req[r].held /\ R \in Request
  BY <1>1, <1>2 DEF Request
<1>4. inHand(R)
  BY <1>1, <1>3 DEF inHand, RowActs
<1>5. sound(R)
  <2>1. req[r].target \in req[r].locked
    BY <1>1, <1>2 DEF sound
  <2> QED BY <1>1, <1>2, <1>3, <2>1 DEF sound, decides, creates, RowActs
<1>6. \A s \in Requests \ {r} : apart(R, req[s])
  BY <1>1, <1>3 DEF apart, decides, creates, RowActs
<1>7. req' = [req EXCEPT ![r] = R]
  BY <1>1 DEF CheckRow
<1> HIDE DEF R
<1> QED BY <1>3, <1>4, <1>5, <1>6, <1>7, OnlyTheRequest DEF CheckRow

LEMMA InsertStep ==
    ASSUME Inv, NEW r \in Requests, InsertViewer(r)
    PROVE  Inv'
<1> DEFINE R == [req[r] EXCEPT !.pc = "record"]
<1>1. /\ req[r] \in Request /\ inHand(req[r]) /\ sound(req[r]) /\ req \in [Requests -> Request]
      /\ \A s \in Requests \ {r} : apart(req[r], req[s]) /\ inHand(req[s])
      /\ req[r].pc = "insert" /\ req[r].ask.act = "create" /\ req[r].locked = {}
      /\ req[r].target \in Viewers
  BY Known DEF InsertViewer, inHand
<1>2. /\ R.pc = "record" /\ R.locked = {} /\ R.ask = req[r].ask /\ R.target = req[r].target
      /\ R.actor = req[r].actor /\ R.held = req[r].held /\ R \in Request
  BY <1>1 DEF Request
<1>3. inHand(R)
  BY <1>1, <1>2 DEF inHand, RowActs
<1>4. sound(R)
  BY <1>1, <1>2 DEF sound, decides, creates, RowActs, InsertViewer
<1>5. ASSUME NEW s \in Requests \ {r} PROVE apart(R, req[s])
  <2>1. ~(creates(req[s]) /\ req[s].target = req[r].target)
    BY <1>1 DEF InsertViewer, blocked, waitsFor, creates
  <2> QED BY <2>1, <1>1, <1>2 DEF apart, decides
<1>6. req' = [req EXCEPT ![r] = R]
  BY <1>1 DEF InsertViewer
<1> HIDE DEF R
<1> QED BY <1>2, <1>3, <1>4, <1>5, <1>6, OnlyTheRequest DEF InsertViewer

-----------------------------------------------------------------------------
(* Steps that write *)

LEMMA RaiseStep ==
    ASSUME Inv, NEW r \in Requests, NEW id \in RoleRequestIds, RaiseRoleRequest(r, id)
    PROVE  Inv'
<1> DEFINE request == [viewer |-> req[r].actor, role |-> req[r].ask.role, state |-> "open"]
<1>1. /\ req[r] \in Request /\ inHand(req[r]) /\ sound(req[r]) /\ req[r].pc = "insert"
      /\ req[r].ask \in Asks /\ req[r].ask.act = "raise" /\ req[r].actor \in Viewers
      /\ viewers[req[r].actor] # None
  BY Known DEF RaiseRoleRequest, inHand, sound
<1>2. request \in RoleRequest /\ request # None
  BY <1>1, AsksAssumption, NoneAssumption DEF RoleRequest, Ask
<1>3. /\ roleRequests[id] = None /\ roleRequests \in [RoleRequestIds -> {None} \cup RoleRequest]
      /\ roleRequests' = [roleRequests EXCEPT ![id] = request]
      /\ req' = [req EXCEPT ![r] = Idle] /\ UNCHANGED <<viewers, events>>
  BY DEF RaiseRoleRequest, finish, Inv, Typed, TypeOK
<1>4. /\ roleRequests'[id] = request
      /\ \A other \in RoleRequestIds : other # id => roleRequests'[other] = roleRequests[other]
      /\ req'[r] = Idle /\ \A s \in Requests \ {r} : req'[s] = req[s]
  BY <1>3 DEF Inv, Typed, TypeOK
<1>5. TypeOK'
  BY <1>2, <1>3, IdleFacts DEF Inv, Typed, TypeOK
<1>6. ASSUME NEW s \in Requests PROVE inHand(req[s])' /\ sound(req[s])'
  <2>1. CASE s = r
    BY <1>4, <2>1 DEF inHand, sound, Idle, decides, creates
  <2>2. CASE s # r
    <3>1. req'[s] = req[s] /\ inHand(req[s]) /\ sound(req[s])
      BY <1>4, <2>2, Known
    <3>2. decides(req[s]) => /\ roleRequests'[req[s].ask.request] = roleRequests[req[s].ask.request]
      <4>1. decides(req[s]) => req[s].ask.request \in RoleRequestIds /\ isOpen(req[s].ask.request)
        BY <3>1, AsksAssumption DEF inHand, sound, decides, Ask
      <4> QED BY <4>1, <1>3, <1>4 DEF isOpen
    <3> QED BY <3>1, <3>2, <1>3 DEF inHand, sound, decides, creates, isOpen
  <2> QED BY <2>1, <2>2
<1>7. Apart'
  <2>1. ASSUME NEW s \in Requests, NEW t \in Requests, s # t PROVE apart(req'[s], req'[t])
    BY <1>4, <2>1, Known, IdleFacts, ApartIsMutual DEF Inv, Apart
  <2> QED BY <2>1 DEF Apart, apart, decides, creates
<1>8. RequestersExist'
  BY <1>1, <1>3, <1>4 DEF Inv, RequestersExist
<1> QED BY <1>5, <1>6, <1>7, <1>8 DEF Inv, Typed, HandsOK, Sound

(* What a transaction that commits is about. *)
LEMMA CommitFacts ==
    ASSUME Inv, NEW r \in Requests, Commit(r)
    PROVE  LET a == req[r].ask
               v == req[r].target
           IN  /\ v \in Viewers /\ a \in Asks /\ a \in Ask
               /\ a.act \in RowActs \cup {"create", "deny"}
               /\ a.act \in {"create", "changeRole"} => a.role \in Roles
               /\ a.act \in RowActs =>
                     /\ viewers[v] \in Row /\ viewers[v] # None
                     /\ v \in req[r].locked /\ req[r].before = viewers[v]
                     /\ ~alreadyDone(a, viewers[v])
               /\ a.act = "create" => viewers[v] = None /\ toCreate(v)
               /\ a.act = "deny" => viewers[v] \in Row /\ viewers[v] # None
               /\ a.act \in {"grant", "deny"} =>
                     /\ a.request \in RoleRequestIds /\ isOpen(a.request)
                     /\ roleRequests[a.request] \in RoleRequest
                     /\ roleRequests[a.request].viewer = v
<1>1. /\ req[r] \in Request /\ inHand(req[r]) /\ sound(req[r]) /\ req[r].pc = "record"
  BY Known DEF Commit
<1>2. /\ req[r].ask \in Asks /\ req[r].ask \in Ask
      /\ req[r].ask.act \in RowActs \cup {"create", "deny"}
      /\ req[r].target \in Viewers
  BY <1>1, AsksAssumption DEF inHand, RowActs
<1>3. /\ viewers \in [Viewers -> {None} \cup Row]
      /\ roleRequests \in [RoleRequestIds -> {None} \cup RoleRequest]
  BY DEF Inv, Typed, TypeOK
<1>4. req[r].ask.act \in {"create", "changeRole"} => req[r].ask.role \in Roles
  BY <1>2, AsksAssumption DEF Ask
<1>5. req[r].ask.act = "create" => viewers[req[r].target] = None /\ toCreate(req[r].target)
  BY <1>1, <1>2 DEF inHand, sound, creates, toCreate
<1>6. req[r].ask.act \in {"grant", "deny"} =>
         /\ req[r].ask.request \in RoleRequestIds /\ isOpen(req[r].ask.request)
         /\ roleRequests[req[r].ask.request] \in RoleRequest
         /\ roleRequests[req[r].ask.request].viewer = req[r].target
         /\ viewers[req[r].target] # None
  BY <1>1, <1>2, <1>3, AsksAssumption
     DEF Ask, sound, decides, isOpen, Inv, RequestersExist
<1>7. req[r].ask.act \in RowActs =>
         /\ viewers[req[r].target] \in Row /\ viewers[req[r].target] # None
         /\ req[r].target \in req[r].locked /\ req[r].before = viewers[req[r].target]
         /\ ~alreadyDone(req[r].ask, viewers[req[r].target])
  BY <1>1, <1>2, <1>3 DEF sound
<1> QED BY <1>2, <1>3, <1>4, <1>5, <1>6, <1>7

(* And what it leaves. *)
LEMMA CommitEffects ==
    ASSUME Inv, NEW r \in Requests, Commit(r)
    PROVE  LET a == req[r].ask
               v == req[r].target
           IN  /\ viewers' \in [Viewers -> {None} \cup Row]
               /\ viewers'[v] = newRow(a, viewers[v]) /\ viewers'[v] # None /\ viewers'[v] \in Row
               /\ \A w \in Viewers : w # v => viewers'[w] = viewers[w]
               /\ a.act = "deny" => viewers'[v] = viewers[v]
               /\ roleRequests' \in [RoleRequestIds -> {None} \cup RoleRequest]
               /\ \A id \in RoleRequestIds :
                     a.act \notin {"grant", "deny"} \/ id # a.request =>
                         roleRequests'[id] = roleRequests[id]
               /\ a.act \in {"grant", "deny"} =>
                     roleRequests'[a.request] =
                         [roleRequests[a.request] EXCEPT
                             !.state = IF a.act = "grant" THEN "granted" ELSE "denied"]
               /\ eventOf(a, v, req[r].before) \in Event
               /\ events \in Seq(Event) /\ events' \in Seq(Event)
               /\ events' = Append(events, eventOf(a, v, req[r].before))
               /\ req'[r] = Idle /\ \A s \in Requests \ {r} : req'[s] = req[s]
               /\ req' \in [Requests -> Request]
<1> DEFINE a == req[r].ask
           v == req[r].target
<1>1. /\ v \in Viewers /\ a \in Asks /\ a \in Ask
      /\ a.act \in RowActs \cup {"create", "deny"}
      /\ a.act \in {"create", "changeRole"} => a.role \in Roles
      /\ a.act \in RowActs => viewers[v] \in Row /\ req[r].before = viewers[v]
      /\ a.act = "deny" => viewers[v] \in Row
      /\ a.act \in {"grant", "deny"} =>
            a.request \in RoleRequestIds /\ roleRequests[a.request] \in RoleRequest
  BY CommitFacts
<1>2. /\ viewers \in [Viewers -> {None} \cup Row]
      /\ roleRequests \in [RoleRequestIds -> {None} \cup RoleRequest]
      /\ events \in Seq(Event) /\ req \in [Requests -> Request]
  BY DEF Inv, Typed, TypeOK
<1>3. /\ viewers' = [viewers EXCEPT ![v] = newRow(a, viewers[v])]
      /\ roleRequests' = decidedRoleRequests(a)
      /\ events' = Append(events, eventOf(a, v, req[r].before))
      /\ req' = [req EXCEPT ![r] = Idle]
  BY DEF Commit, finish
<1> HIDE DEF a, v
<1>4. a.act \in {"create", "changeRole", "grant"} => roleGiven(a) \in Roles
  BY <1>1 DEF roleGiven, RoleRequest
<1>5. newRow(a, viewers[v]) \in Row /\ (a.act = "deny" => newRow(a, viewers[v]) = viewers[v])
  <2>1. CASE a.act = "create"
    BY <1>1, <2>1 DEF newRow, Row
  <2>2. CASE a.act \in {"changeRole", "grant"}
    <3>1. viewers[v] \in Row
      BY <1>1, <2>2 DEF RowActs
    <3>2. newRow(a, viewers[v]) = [viewers[v] EXCEPT !.role = roleGiven(a)]
      BY <2>2 DEF newRow
    <3> QED BY <3>1, <3>2, <2>2, <1>4 DEF Row
  <2>3. CASE a.act \in {"appoint", "withdraw", "deactivate", "reactivate"}
    BY <1>1, <2>3 DEF newRow, Row, RowActs
  <2>4. CASE a.act = "deny"
    BY <1>1, <2>4 DEF newRow
  <2> QED BY <1>1, <2>1, <2>2, <2>3, <2>4 DEF RowActs
<1>6. eventOf(a, v, req[r].before) \in Event
  <2>1. typeOf(a.act) \in {"viewer_created", "administrator_appointed",
                 "administrator_withdrawn", "role_changed", "viewer_deactivated",
                 "viewer_reactivated", "role_request_granted", "role_request_denied"}
    BY <1>1 DEF typeOf, RowActs
  <2>2. a.act \in {"changeRole", "grant"} => req[r].before.role \in Roles
    BY <1>1 DEF Row, RowActs
  <2>3. a.act = "deny" => roleRequests[a.request].role \in Roles
    BY <1>1 DEF RoleRequest
  <2> QED BY <1>1, <1>4, <2>1, <2>2, <2>3 DEF eventOf, Event
<1>7. /\ roleRequests' \in [RoleRequestIds -> {None} \cup RoleRequest]
      /\ \A id \in RoleRequestIds :
             a.act \notin {"grant", "deny"} \/ id # a.request =>
                 roleRequests'[id] = roleRequests[id]
      /\ a.act \in {"grant", "deny"} =>
             roleRequests'[a.request] =
                 [roleRequests[a.request] EXCEPT
                     !.state = IF a.act = "grant" THEN "granted" ELSE "denied"]
  <2>1. CASE a.act = "grant"
    BY <1>1, <1>2, <1>3, <2>1 DEF decidedRoleRequests, RoleRequest
  <2>2. CASE a.act = "deny"
    BY <1>1, <1>2, <1>3, <2>2 DEF decidedRoleRequests, RoleRequest
  <2>3. CASE a.act \notin {"grant", "deny"}
    BY <1>1, <1>2, <1>3, <2>3 DEF decidedRoleRequests
  <2> QED BY <2>1, <2>2, <2>3
<1>8. /\ viewers'[v] = newRow(a, viewers[v]) /\ viewers'[v] \in Row /\ viewers'[v] # None
      /\ \A w \in Viewers : w # v => viewers'[w] = viewers[w]
      /\ viewers' \in [Viewers -> {None} \cup Row]
  BY <1>1, <1>2, <1>3, <1>5, NoneAssumption
<1>9. /\ req'[r] = Idle /\ \A s \in Requests \ {r} : req'[s] = req[s]
      /\ req' \in [Requests -> Request]
  BY <1>2, <1>3, IdleFacts
<1>10. events' \in Seq(Event)
  <2> DEFINE e == eventOf(a, v, req[r].before)
  <2>1. e \in Event /\ events' = Append(events, e)
    BY <1>3, <1>6
  <2> HIDE DEF e
  <2> QED BY <2>1, <1>2
<1> QED BY <1>2, <1>3, <1>5, <1>6, <1>7, <1>8, <1>9, <1>10 DEF a, v

LEMMA CommitStep ==
    ASSUME Inv, NEW r \in Requests, Commit(r)
    PROVE  Inv'
<1> DEFINE a == req[r].ask
           v == req[r].target
<1>1. /\ v \in Viewers /\ a \in Asks /\ req[r].pc = "record"
      /\ a.act \in RowActs \cup {"create", "deny"}
      /\ a.act \in RowActs => viewers[v] # None /\ v \in req[r].locked
      /\ a.act = "create" => viewers[v] = None /\ toCreate(v)
      /\ a.act \in {"grant", "deny"} =>
            /\ a.request \in RoleRequestIds
            /\ roleRequests[a.request] \in RoleRequest
  BY CommitFacts DEF Commit
<1>2. /\ viewers' \in [Viewers -> {None} \cup Row]
      /\ viewers'[v] # None
      /\ \A w \in Viewers : w # v => viewers'[w] = viewers[w]
      /\ a.act = "deny" => viewers'[v] = viewers[v]
      /\ roleRequests' \in [RoleRequestIds -> {None} \cup RoleRequest]
      /\ \A id \in RoleRequestIds :
             a.act \notin {"grant", "deny"} \/ id # a.request =>
                 roleRequests'[id] = roleRequests[id]
      /\ a.act \in {"grant", "deny"} =>
             roleRequests'[a.request] =
                 [roleRequests[a.request] EXCEPT
                     !.state = IF a.act = "grant" THEN "granted" ELSE "denied"]
      /\ events' \in Seq(Event)
      /\ req'[r] = Idle /\ \A s \in Requests \ {r} : req'[s] = req[s]
      /\ req' \in [Requests -> Request]
  BY CommitEffects
<1>3. TypeOK'
  BY <1>2 DEF TypeOK
<1>4. \A w \in Viewers : viewers[w] # None => viewers'[w] # None
  BY <1>2
<1>5. ASSUME NEW s \in Requests PROVE inHand(req[s])' /\ sound(req[s])'
  <2>1. CASE s = r
    BY <1>2, <2>1 DEF inHand, sound, Idle, decides, creates
  <2>2. CASE s # r
    <3>1. /\ req'[s] = req[s] /\ inHand(req[s]) /\ sound(req[s]) /\ req[s] \in Request
          /\ apart(req[r], req[s])
      BY <1>2, <2>2, Known
    <3> DEFINE S == req[s]
    <3>2. decides(S) =>
             isOpen(S.ask.request)' /\ roleRequests'[S.ask.request] = roleRequests[S.ask.request]
      <4>1. decides(S) => S.ask.request \in RoleRequestIds /\ isOpen(S.ask.request)
        BY <3>1, AsksAssumption DEF inHand, sound, decides, Ask
      <4>2. decides(S) => a.act \notin {"grant", "deny"} \/ S.ask.request # a.request
        BY <1>1, <3>1 DEF apart, decides
      <4> QED BY <3>1, <4>1, <4>2, <1>2 DEF isOpen
    <3>3. S.pc # "idle" => viewers'[S.actor] # None
      BY <1>4, <3>1 DEF inHand, sound
    <3>4. S.pc \in {"select", "lock"} =>
             /\ viewers'[S.target] # None \/ ~toCreate(S.target)
             /\ viewers'[S.target] # None => viewers[S.target] # None
      <4>1. S.pc \in {"select", "lock"} => S.target \in Viewers
        BY <3>1 DEF inHand, RowActs
      <4>2. S.pc \in {"select", "lock"} => viewers[S.target] # None \/ ~toCreate(S.target)
        BY <3>1 DEF sound
      <4>3. CASE S.target = v
        BY <4>1, <4>2, <4>3, <1>1, <1>2
      <4>4. CASE S.target # v
        BY <4>1, <4>2, <4>4, <1>2
      <4> QED BY <4>3, <4>4
    <3>5. creates(S) => viewers'[S.target] = None
      <4>1. creates(S) => S.target \in Viewers /\ viewers[S.target] = None
        BY <3>1 DEF inHand, sound, creates
      <4>2. creates(S) => S.target # v \/ a.act = "deny"
        BY <4>1, <1>1, <3>1 DEF apart, creates
      <4> QED BY <4>1, <4>2, <1>2
    <3>6. S.pc = "record" /\ S.ask.act \in RowActs => S.before = viewers'[S.target]
      <4>1. S.pc = "record" /\ S.ask.act \in RowActs =>
               /\ S.target \in Viewers /\ S.target \in S.locked
               /\ S.before = viewers[S.target] /\ S.before # None
        BY <3>1 DEF inHand, sound, RowActs
      <4>2. S.pc = "record" /\ S.ask.act \in RowActs => S.target # v \/ a.act = "deny"
        BY <4>1, <1>1, <3>1 DEF apart
      <4> QED BY <4>1, <4>2, <1>2
    <3> HIDE DEF a, v
    <3>7. sound(S)'
      BY <3>1, <3>2, <3>3, <3>4, <3>5, <3>6 DEF sound, decides, creates, alreadyDone, toCreate
    <3> QED BY <3>1, <3>7 DEF inHand
  <2> QED BY <2>1, <2>2
<1>6. Apart'
  <2>1. ASSUME NEW s \in Requests, NEW t \in Requests, s # t PROVE apart(req'[s], req'[t])
    BY <1>2, <2>1, Known, IdleFacts, ApartIsMutual DEF Inv, Apart
  <2> QED BY <2>1 DEF Apart, apart, decides, creates
<1>7. RequestersExist'
  <2>1. ASSUME NEW id \in RoleRequestIds, roleRequests'[id] # None
        PROVE  /\ roleRequests[id] # None /\ roleRequests[id].viewer \in Viewers
               /\ roleRequests'[id].viewer = roleRequests[id].viewer
    <3>1. roleRequests[id] # None /\ roleRequests'[id].viewer = roleRequests[id].viewer
      BY <1>1, <1>2, <2>1, NoneAssumption DEF RoleRequest
    <3> QED BY <3>1 DEF Inv, Typed, TypeOK, RoleRequest
  <2> QED BY <2>1, <1>4 DEF Inv, RequestersExist
<1> QED BY <1>3, <1>5, <1>6, <1>7 DEF Inv, Typed, HandsOK, Sound

-----------------------------------------------------------------------------
(* Every step *)

(* Only a Role Request that is raised and a commit write what others see. *)
LEMMA QuietOrNot ==
    ASSUME [Next]_vars
    PROVE  \/ \E r \in Requests : \/ \E id \in RoleRequestIds : RaiseRoleRequest(r, id)
                                  \/ Commit(r)
           \/ UNCHANGED <<viewers, roleRequests, events>>
<1>1. CASE UNCHANGED vars
  BY <1>1 DEF vars
<1>2. CASE Next
  BY <1>2 DEF Next, Step, Authenticate, RaiseRefused, DecideRoleRequest, DecisionRefused,
              InsertViewer, InsertRefused, SelectRows, LockRow, CheckRow, RowRefused, Abort
<1> QED BY <1>1, <1>2

LEMMA InvStep == Inv /\ [Next]_vars => Inv'
<1> SUFFICES ASSUME Inv, [Next]_vars PROVE Inv'
  OBVIOUS
<1>1. CASE UNCHANGED vars
  BY <1>1 DEF vars, Inv, Typed, TypeOK, HandsOK, inHand, Sound, sound, Apart, apart, decides,
              creates, isOpen, RequestersExist
<1>2. ASSUME NEW r \in Requests, NEW v \in Viewers, NEW a \in Asks, Authenticate(r, v, a)
      PROVE  Inv'
  BY <1>2, AuthenticateStep
<1>3. ASSUME NEW r \in Requests, NEW id \in RoleRequestIds, RaiseRoleRequest(r, id) PROVE Inv'
  BY <1>3, RaiseStep
<1>4. ASSUME NEW r \in Requests,
             RaiseRefused(r) \/ DecisionRefused(r) \/ InsertRefused(r) \/ RowRefused(r) \/ Abort(r)
      PROVE  Inv'
  BY <1>4, Finishing DEF RaiseRefused, DecisionRefused, InsertRefused, RowRefused, Abort
<1>5. ASSUME NEW r \in Requests, DecideRoleRequest(r) PROVE Inv'
  BY <1>5, DecideStep
<1>6. ASSUME NEW r \in Requests, InsertViewer(r) PROVE Inv'
  BY <1>6, InsertStep
<1>7. ASSUME NEW r \in Requests, SelectRows(r) PROVE Inv'
  BY <1>7, SelectStep
<1>8. ASSUME NEW r \in Requests, LockRow(r) PROVE Inv'
  BY <1>8, LockStep
<1>9. ASSUME NEW r \in Requests, CheckRow(r) PROVE Inv'
  BY <1>9, CheckStep
<1>10. ASSUME NEW r \in Requests, Commit(r) PROVE Inv'
  BY <1>10, CommitStep
<1> QED BY <1>1, <1>2, <1>3, <1>4, <1>5, <1>6, <1>7, <1>8, <1>9, <1>10 DEF Next, Step

LEMMA Invariance == Spec => []Inv
<1> QED BY InvInit, InvStep, PTL DEF Spec

(* However many transactions run at once, the tables keep their shape, and
   each request has in hand what its next statement reads. *)
THEOREM TypeCorrect == Spec => []TypeOK
<1>1. Inv => TypeOK
  BY DEF Inv, Typed
<1> QED BY <1>1, Invariance, PTL

-----------------------------------------------------------------------------
(* No circle *)

inLockStep(r) == req[r].pc = "lock" /\ req[r].toLock # {}

(* Whoever is waited for either waits for nothing or is locking rows, and has
   then locked none after the one it waits for. *)
LEMMA Waiting ==
    ASSUME Inv, NEW r \in Requests, NEW s \in Requests, waitsFor(r, s)
    PROVE  /\ (\E t \in Requests : waitsFor(s, t)) => inLockStep(s)
           /\ inLockStep(r) /\ inLockStep(s) => nextToLock(r) < nextToLock(s)
<1>1. /\ inHand(req[s]) /\ sound(req[s]) /\ req[s] \in Request /\ inHand(req[r])
      /\ req[r] \in Request
  BY Known
<1>2. req[s].pc \in {"select", "lock", "record"}
  BY <1>1 DEF waitsFor, hasDecided, inHand, rowLock
<1>3. ASSUME NEW t \in Requests, waitsFor(s, t) PROVE inLockStep(s)
  BY <1>2, <1>3 DEF waitsFor, rowLock, inLockStep
<1>4. ASSUME inLockStep(r), inLockStep(s) PROVE nextToLock(r) < nextToLock(s)
  <2>1. nextToLock(r) \in req[s].locked
    BY <1>4 DEF waitsFor, inLockStep, rowLock
  <2>2. nextToLock(s) \in req[s].toLock
    BY <1>1, <1>4, FirstToLock DEF Request, inLockStep
  <2> QED BY <1>1, <1>4, <2>1, <2>2 DEF sound, inLockStep
<1> QED BY <1>3, <1>4

LEMMA NoCircle == Inv => NoDeadlock
<1> SUFFICES ASSUME Inv, NEW S \in SUBSET Requests, S # {},
                    \A r \in S : \E s \in S : waitsFor(r, s)
             PROVE  FALSE
  BY DEF NoDeadlock
<1> DEFINE lockers == {r \in S : inLockStep(r)}
<1> DEFINE after(v) == {w \in Viewers : v < w}
           left(r) == Cardinality(after(nextToLock(r)))
<1>1. ASSUME NEW v \in Viewers
      PROVE  /\ IsFiniteSet(after(v)) /\ Cardinality(after(v)) \in Nat
             /\ \A w \in Viewers : v < w => Cardinality(after(w)) < Cardinality(after(v))
  <2>1. after(v) \subseteq Viewers
    OBVIOUS
  <2>2. IsFiniteSet(after(v)) /\ Cardinality(after(v)) \in Nat
    BY <2>1, ViewersAssumption, FS_Subset, FS_CardinalityType
  <2>3. ASSUME NEW w \in Viewers, v < w PROVE Cardinality(after(w)) < Cardinality(after(v))
    <3>1. /\ after(w) \subseteq after(v) /\ w \in after(v) /\ w \notin after(w)
      <4>1. \A x \in Viewers : x \in Nat
        BY ViewersAssumption
      <4>2. \A x \in Viewers : w < x => v < x
        BY <2>3, <4>1
      <4>3. ~(w < w)
        BY <4>1
      <4> QED BY <2>3, <4>2, <4>3
    <3>2. /\ Cardinality(after(w)) =< Cardinality(after(v))
          /\ Cardinality(after(w)) \in Nat
          /\ Cardinality(after(w)) # Cardinality(after(v))
      <4> HIDE DEF after
      <4> QED BY <2>2, <3>1, FS_Subset, FS_CardinalityType
    <3> QED BY <2>2, <3>2
  <2> QED BY <2>2, <2>3
<1> HIDE DEF after
<1>2. ASSUME NEW r \in lockers PROVE nextToLock(r) \in Viewers /\ left(r) \in Nat
  <2>1. nextToLock(r) \in Viewers
    BY Known, FirstToLock DEF inLockStep, Request
  <2> QED BY <2>1, <1>1
<1>3. ASSUME NEW r \in S PROVE \E s \in lockers : waitsFor(r, s)
  BY Waiting
<1>4. lockers # {}
  BY <1>3
<1>5. ASSUME NEW r \in lockers PROVE \E s \in lockers : left(s) < left(r)
  <2>1. PICK s \in lockers : nextToLock(r) < nextToLock(s)
    BY <1>3, Waiting
  <2>2. nextToLock(r) \in Viewers /\ nextToLock(s) \in Viewers
    BY <1>2
  <2>3. Cardinality(after(nextToLock(s))) < Cardinality(after(nextToLock(r)))
    BY <2>1, <2>2, <1>1
  <2> QED BY <2>3
<1> HIDE DEF lockers, left
<1>6. \E d \in {left(r) : r \in lockers} : \A e \in {left(r) : r \in lockers} : d =< e
  <2> DEFINE all == {left(r) : r \in lockers}
  <2>1. all \subseteq Nat /\ all # {}
    BY <1>2, <1>4
  <2> HIDE DEF all
  <2>2. \E d \in all : \A e \in all : d =< e
    BY <2>1, LeastOf
  <2> QED BY <2>2 DEF all
<1>7. PICK r \in lockers : \A s \in lockers : left(r) =< left(s)
  BY <1>6
<1>8. PICK s \in lockers : left(s) < left(r)
  BY <1>5
<1> QED BY <1>2, <1>7, <1>8

(* However many transactions lock rows at once, they never wait for each
   other in a circle.  (docs/adr/0039.) *)
THEOREM NobodyDeadlocks == Spec => []NoDeadlock
<1> QED BY NoCircle, Invariance, PTL

-----------------------------------------------------------------------------
(* The last event of a kind *)

RoleTypes == {"viewer_created", "role_changed", "role_request_granted"}
AuthorityTypes == {"administrator_appointed", "administrator_withdrawn"}
DeactivationTypes == {"viewer_deactivated", "viewer_reactivated"}

tellsOf(T, e, v) == e.viewer = v /\ e.type \in T

lastOf(L, T, v, i) ==
    /\ i \in 1..Len(L) /\ tellsOf(T, L[i], v)
    /\ \A j \in 1..Len(L) : tellsOf(T, L[j], v) => j =< i

noneOf(L, T, v) == \A i \in 1..Len(L) : ~tellsOf(T, L[i], v)

inARow(L, T, v, i, j) ==
    /\ i \in 1..Len(L) /\ j \in 1..Len(L) /\ i < j
    /\ tellsOf(T, L[i], v) /\ tellsOf(T, L[j], v)
    /\ \A k \in 1..Len(L) : tellsOf(T, L[k], v) => k =< i \/ j =< k

LEMMA OneMore ==
    ASSUME NEW L \in Seq(Event), NEW e \in Event
    PROVE  LET N == Append(L, e)
           IN  /\ N \in Seq(Event) /\ Len(L) \in Nat /\ Len(N) = Len(L) + 1
               /\ Len(N) \in 1..Len(N) /\ N[Len(N)] = e
               /\ \A i \in 1..Len(L) : i \in 1..Len(N) /\ N[i] = L[i] /\ i < Len(N)
               /\ \A i \in 1..Len(N) : i = Len(N) \/ i \in 1..Len(L)
OBVIOUS

LEMMA LastGrows ==
    ASSUME NEW L \in Seq(Event), NEW e \in Event, NEW T, NEW v, NEW i,
           lastOf(Append(L, e), T, v, i)
    PROVE  LET N == Append(L, e)
           IN  \/ i = Len(N) /\ N[i] = e /\ tellsOf(T, e, v)
               \/ lastOf(L, T, v, i) /\ N[i] = L[i] /\ ~tellsOf(T, e, v)
<1> DEFINE N == Append(L, e)
<1>1. /\ Len(L) \in Nat /\ Len(N) \in 1..Len(N) /\ N[Len(N)] = e
      /\ \A j \in 1..Len(L) : j \in 1..Len(N) /\ N[j] = L[j] /\ j < Len(N)
      /\ \A j \in 1..Len(N) : j = Len(N) \/ j \in 1..Len(L)
  BY OneMore
<1>2. lastOf(N, T, v, i)
  OBVIOUS
<1> HIDE DEF N
<1>3. CASE i = Len(N)
  BY <1>1, <1>2, <1>3 DEF lastOf
<1>4. CASE i # Len(N)
  <2>1. i \in 1..Len(L) /\ N[i] = L[i] /\ ~tellsOf(T, e, v)
    BY <1>1, <1>2, <1>4 DEF lastOf
  <2>2. lastOf(L, T, v, i)
    BY <1>1, <1>2, <2>1 DEF lastOf
  <2> QED BY <2>1, <2>2
<1> QED BY <1>3, <1>4 DEF N

LEMMA NoneBefore ==
    ASSUME NEW L \in Seq(Event), NEW e \in Event, NEW T, NEW v, noneOf(Append(L, e), T, v)
    PROVE  noneOf(L, T, v) /\ ~tellsOf(T, e, v)
<1> DEFINE N == Append(L, e)
<1>1. /\ Len(N) \in 1..Len(N) /\ N[Len(N)] = e
      /\ \A j \in 1..Len(L) : j \in 1..Len(N) /\ N[j] = L[j]
  BY OneMore
<1>2. noneOf(N, T, v)
  OBVIOUS
<1> HIDE DEF N
<1> QED BY <1>1, <1>2 DEF noneOf

LEMMA RowGrows ==
    ASSUME NEW L \in Seq(Event), NEW e \in Event, NEW T, NEW v, NEW i, NEW j,
           inARow(Append(L, e), T, v, i, j)
    PROVE  LET N == Append(L, e)
           IN  \/ inARow(L, T, v, i, j) /\ N[i] = L[i] /\ N[j] = L[j]
               \/ lastOf(L, T, v, i) /\ N[i] = L[i] /\ N[j] = e /\ tellsOf(T, e, v)
<1> DEFINE N == Append(L, e)
<1>1. /\ Len(L) \in Nat /\ Len(N) \in 1..Len(N) /\ N[Len(N)] = e /\ Len(N) = Len(L) + 1
      /\ \A k \in 1..Len(L) : k \in 1..Len(N) /\ N[k] = L[k] /\ k < Len(N)
      /\ \A k \in 1..Len(N) : k = Len(N) \/ k \in 1..Len(L)
  BY OneMore
<1>2. inARow(N, T, v, i, j)
  OBVIOUS
<1> HIDE DEF N
<1>3. i \in 1..Len(L) /\ N[i] = L[i] /\ tellsOf(T, L[i], v)
  BY <1>1, <1>2 DEF inARow
<1>4. CASE j = Len(N)
  <2>1. \A k \in 1..Len(L) : tellsOf(T, L[k], v) => k =< i
    BY <1>1, <1>2, <1>4 DEF inARow
  <2> QED BY <1>1, <1>2, <1>3, <1>4, <2>1 DEF inARow, lastOf
<1>5. CASE j # Len(N)
  <2>1. j \in 1..Len(L) /\ N[j] = L[j]
    BY <1>1, <1>2, <1>5 DEF inARow
  <2>2. inARow(L, T, v, i, j)
    BY <1>1, <1>2, <1>3, <2>1 DEF inARow
  <2> QED BY <1>3, <2>1, <2>2
<1> QED BY <1>4, <1>5 DEF N

-----------------------------------------------------------------------------
(* The row a log leaves of a Viewer *)

isThere(L, row, v) ==
    row # None <=>
        \/ FirstViewers[v] # None
        \/ \E i \in 1..Len(L) : L[i].viewer = v /\ L[i].type = "viewer_created"

roleAsSaid(L, row, v) ==
    /\ \A i : lastOf(L, RoleTypes, v, i) => row # None /\ row.role = L[i].after
    /\ row # None /\ noneOf(L, RoleTypes, v) => row.role = FirstViewers[v].role

authorityAsSaid(L, row, v) ==
    /\ \A i : lastOf(L, AuthorityTypes, v, i) =>
          row # None /\ (row.isAdministrator <=> L[i].type = "administrator_appointed")
    /\ row # None /\ noneOf(L, AuthorityTypes, v) =>
          (row.isAdministrator <=> FirstViewers[v] # None /\ FirstViewers[v].isAdministrator)

deactivationAsSaid(L, row, v) ==
    /\ \A i : lastOf(L, DeactivationTypes, v, i) =>
          row # None /\ (row.isDeactivated <=> L[i].type = "viewer_deactivated")
    /\ row # None /\ noneOf(L, DeactivationTypes, v) =>
          (row.isDeactivated <=> FirstViewers[v] # None /\ FirstViewers[v].isDeactivated)

replays(L, row, v) ==
    /\ isThere(L, row, v)
    /\ roleAsSaid(L, row, v)
    /\ authorityAsSaid(L, row, v)
    /\ deactivationAsSaid(L, row, v)

(* What an event must say of a row that becomes another. *)
tells(e, row, row2, v) ==
    /\ row2 # None <=> row # None \/ (e.viewer = v /\ e.type = "viewer_created")
    /\ tellsOf(RoleTypes, e, v) => row2 # None /\ row2.role = e.after
    /\ tellsOf(AuthorityTypes, e, v) =>
          row # None /\ (row2.isAdministrator <=> e.type = "administrator_appointed")
    /\ tellsOf(DeactivationTypes, e, v) =>
          row # None /\ (row2.isDeactivated <=> e.type = "viewer_deactivated")
    /\ row # None =>
          /\ ~tellsOf(RoleTypes, e, v) => row2.role = row.role
          /\ ~tellsOf(AuthorityTypes, e, v) => row2.isAdministrator = row.isAdministrator
          /\ ~tellsOf(DeactivationTypes, e, v) => row2.isDeactivated = row.isDeactivated
    /\ row = None /\ row2 # None => ~row2.isAdministrator /\ ~row2.isDeactivated

(* One event more, which tells what became of the row. *)
LEMMA ReplayGrows ==
    ASSUME NEW L \in Seq(Event), NEW e \in Event, NEW v, NEW row, NEW row2,
           replays(L, row, v), tells(e, row, row2, v)
    PROVE  replays(Append(L, e), row2, v)
<1> DEFINE N == Append(L, e)
<1>1. /\ Len(N) \in 1..Len(N) /\ N[Len(N)] = e
      /\ \A i \in 1..Len(L) : i \in 1..Len(N) /\ N[i] = L[i]
      /\ \A i \in 1..Len(N) : i = Len(N) \/ i \in 1..Len(L)
  BY OneMore
<1>2. \A T, i : lastOf(N, T, v, i) =>
         \/ N[i] = e /\ tellsOf(T, e, v)
         \/ lastOf(L, T, v, i) /\ N[i] = L[i] /\ ~tellsOf(T, e, v)
  BY LastGrows
<1>3. \A T : noneOf(N, T, v) => noneOf(L, T, v) /\ ~tellsOf(T, e, v)
  BY NoneBefore
<1> HIDE DEF N
<1>4. isThere(N, row2, v)
  BY <1>1 DEF replays, isThere, tells
<1>5. row = None => FirstViewers[v] = None
  BY DEF replays, isThere
<1>6. row = None /\ row2 # None => tellsOf(RoleTypes, e, v)
  BY DEF tells, tellsOf, RoleTypes
<1>7. roleAsSaid(N, row2, v)
  BY <1>2, <1>3, <1>6 DEF replays, roleAsSaid, tells
<1>8. authorityAsSaid(N, row2, v)
  BY <1>2, <1>3, <1>5 DEF replays, authorityAsSaid, tells
<1>9. deactivationAsSaid(N, row2, v)
  BY <1>2, <1>3, <1>5 DEF replays, deactivationAsSaid, tells
<1> QED BY <1>4, <1>7, <1>8, <1>9 DEF replays, N

LEMMA ReplayIsHistory ==
    (\A v \in Viewers : replays(events, viewers[v], v)) => EventsReplayToViewers
<1> SUFFICES ASSUME \A v \in Viewers : replays(events, viewers[v], v)
             PROVE  EventsReplayToViewers
  OBVIOUS
<1>1. ASSUME NEW v \in Viewers, NEW i \in recorded
      PROVE  /\ tellsOfRole(i, v) <=> tellsOf(RoleTypes, events[i], v)
             /\ tellsOfAuthority(i, v) <=> tellsOf(AuthorityTypes, events[i], v)
             /\ tellsOfDeactivation(i, v) <=> tellsOf(DeactivationTypes, events[i], v)
  BY DEF tellsOfRole, tellsOfAuthority, tellsOfDeactivation, tellsOf, RoleTypes, AuthorityTypes,
         DeactivationTypes
<1>2. ASSUME NEW v \in Viewers
      PROVE  /\ isThere(events, viewers[v], v) /\ roleAsSaid(events, viewers[v], v)
             /\ authorityAsSaid(events, viewers[v], v)
             /\ deactivationAsSaid(events, viewers[v], v)
  BY DEF replays
<1>3. ASSUME NEW v \in Viewers, NEW i \in recorded
      PROVE  /\ tellsOfRole(i, v) /\ (\A j \in recorded : tellsOfRole(j, v) => j =< i)
                => lastOf(events, RoleTypes, v, i)
             /\ tellsOfAuthority(i, v) /\ (\A j \in recorded : tellsOfAuthority(j, v) => j =< i)
                => lastOf(events, AuthorityTypes, v, i)
             /\ tellsOfDeactivation(i, v)
                /\ (\A j \in recorded : tellsOfDeactivation(j, v) => j =< i)
                => lastOf(events, DeactivationTypes, v, i)
  BY <1>1 DEF lastOf, recorded
<1>4. ASSUME NEW v \in Viewers
      PROVE  /\ (\A i \in recorded : ~tellsOfRole(i, v)) => noneOf(events, RoleTypes, v)
             /\ (\A i \in recorded : ~tellsOfAuthority(i, v)) => noneOf(events, AuthorityTypes, v)
             /\ (\A i \in recorded : ~tellsOfDeactivation(i, v)) =>
                   noneOf(events, DeactivationTypes, v)
  BY <1>1 DEF noneOf, recorded
<1>5. ASSUME NEW v \in Viewers
      PROVE  viewers[v] # None <=>
               \/ FirstViewers[v] # None
               \/ \E i \in recorded : events[i].viewer = v /\ events[i].type = "viewer_created"
  BY <1>2 DEF isThere, recorded
<1> QED BY <1>2, <1>3, <1>4, <1>5
        DEF EventsReplayToViewers, roleAsSaid, authorityAsSaid, deactivationAsSaid

-----------------------------------------------------------------------------
(* A log that says each change once *)

onceSaid(L, v) ==
    /\ \A i, j : inARow(L, RoleTypes, v, i, j) =>
          /\ L[j].before = L[i].after
          /\ L[j].type = "role_changed" => L[j].before # L[j].after
    /\ \A i, j : inARow(L, AuthorityTypes, v, i, j) => L[i].type # L[j].type
    /\ \A i, j : inARow(L, DeactivationTypes, v, i, j) => L[i].type # L[j].type

(* An event that says what the row was not already. *)
changes(e, row, v) ==
    /\ tellsOf(RoleTypes, e, v) /\ row # None =>
          e.before = row.role /\ (e.type = "role_changed" => e.before # e.after)
    /\ tellsOf(AuthorityTypes, e, v) /\ row # None =>
          (row.isAdministrator <=> e.type = "administrator_withdrawn")
    /\ tellsOf(DeactivationTypes, e, v) /\ row # None =>
          (row.isDeactivated <=> e.type = "viewer_reactivated")

LEMMA OnceGrows ==
    ASSUME NEW L \in Seq(Event), NEW e \in Event, NEW v, NEW row,
           replays(L, row, v), onceSaid(L, v), changes(e, row, v)
    PROVE  onceSaid(Append(L, e), v)
<1> DEFINE N == Append(L, e)
<1>1. \A T, i, j : inARow(N, T, v, i, j) =>
         \/ inARow(L, T, v, i, j) /\ N[i] = L[i] /\ N[j] = L[j]
         \/ lastOf(L, T, v, i) /\ N[i] = L[i] /\ N[j] = e /\ tellsOf(T, e, v)
  BY RowGrows
<1> HIDE DEF N
<1>2. ASSUME NEW i, NEW j, inARow(N, RoleTypes, v, i, j)
      PROVE  N[j].before = N[i].after /\ (N[j].type = "role_changed" => N[j].before # N[j].after)
  BY <1>1, <1>2 DEF onceSaid, replays, roleAsSaid, changes
<1>3. ASSUME NEW i, NEW j, inARow(N, AuthorityTypes, v, i, j) PROVE N[i].type # N[j].type
  BY <1>1, <1>3 DEF onceSaid, replays, authorityAsSaid, changes, tellsOf, AuthorityTypes
<1>4. ASSUME NEW i, NEW j, inARow(N, DeactivationTypes, v, i, j) PROVE N[i].type # N[j].type
  BY <1>1, <1>4 DEF onceSaid, replays, deactivationAsSaid, changes, tellsOf, DeactivationTypes
<1> QED BY <1>2, <1>3, <1>4 DEF onceSaid, N

LEMMA OnceIsOnce ==
    (\A v \in Viewers : onceSaid(events, v)) => EachChangeIsRecordedOnce
<1> SUFFICES ASSUME \A v \in Viewers : onceSaid(events, v), NEW v \in Viewers,
                    NEW i \in recorded, NEW j \in recorded
             PROVE  /\ /\ i < j /\ tellsOfRole(i, v) /\ tellsOfRole(j, v)
                       /\ \A k \in recorded : tellsOfRole(k, v) => k =< i \/ j =< k
                       => /\ events[j].before = events[i].after
                          /\ events[j].type = "role_changed" => events[j].before # events[j].after
                    /\ /\ i < j /\ tellsOfAuthority(i, v) /\ tellsOfAuthority(j, v)
                       /\ \A k \in recorded : tellsOfAuthority(k, v) => k =< i \/ j =< k
                       => events[i].type # events[j].type
                    /\ /\ i < j /\ tellsOfDeactivation(i, v) /\ tellsOfDeactivation(j, v)
                       /\ \A k \in recorded : tellsOfDeactivation(k, v) => k =< i \/ j =< k
                       => events[i].type # events[j].type
  BY DEF EachChangeIsRecordedOnce
<1>1. onceSaid(events, v)
  OBVIOUS
<1>2. \A k \in recorded :
         /\ tellsOfRole(k, v) <=> tellsOf(RoleTypes, events[k], v)
         /\ tellsOfAuthority(k, v) <=> tellsOf(AuthorityTypes, events[k], v)
         /\ tellsOfDeactivation(k, v) <=> tellsOf(DeactivationTypes, events[k], v)
  BY DEF tellsOfRole, tellsOfAuthority, tellsOfDeactivation, tellsOf, RoleTypes, AuthorityTypes,
         DeactivationTypes
<1>3. /\ i < j /\ tellsOfRole(i, v) /\ tellsOfRole(j, v)
      /\ \A k \in recorded : tellsOfRole(k, v) => k =< i \/ j =< k
      => inARow(events, RoleTypes, v, i, j)
  BY <1>2 DEF inARow, recorded
<1>4. /\ i < j /\ tellsOfAuthority(i, v) /\ tellsOfAuthority(j, v)
      /\ \A k \in recorded : tellsOfAuthority(k, v) => k =< i \/ j =< k
      => inARow(events, AuthorityTypes, v, i, j)
  BY <1>2 DEF inARow, recorded
<1>5. /\ i < j /\ tellsOfDeactivation(i, v) /\ tellsOfDeactivation(j, v)
      /\ \A k \in recorded : tellsOfDeactivation(k, v) => k =< i \/ j =< k
      => inARow(events, DeactivationTypes, v, i, j)
  BY <1>2 DEF inARow, recorded
<1> QED BY <1>1, <1>3, <1>4, <1>5 DEF onceSaid

-----------------------------------------------------------------------------
(* What each transaction records is what it did *)

LEMMA ACommitIsTold ==
    ASSUME Inv, NEW r \in Requests, Commit(r)
    PROVE  LET v == req[r].target
               e == eventOf(req[r].ask, v, req[r].before)
           IN  tells(e, viewers[v], viewers'[v], v) /\ changes(e, viewers[v], v)
<1> DEFINE a == req[r].ask
           v == req[r].target
           e == eventOf(a, v, req[r].before)
           row == viewers[v]
           row2 == viewers'[v]
<1>1. /\ a.act \in RowActs \cup {"create", "deny"}
      /\ a.act \in RowActs =>
            row \in Row /\ row # None /\ req[r].before = row /\ ~alreadyDone(a, row)
      /\ a.act = "create" => row = None
      /\ a.act = "deny" => row \in Row /\ row # None
  BY CommitFacts
<1>2. row2 = newRow(a, row) /\ row2 # None /\ row2 \in Row
  BY CommitEffects
<1>3. /\ e.type = typeOf(a.act) /\ e.viewer = v
      /\ a.act \in {"changeRole", "grant"} => e.before = req[r].before.role
      /\ a.act \in {"create", "changeRole", "grant"} => e.after = roleGiven(a)
  BY DEF eventOf
<1> HIDE DEF a, v, e, row, row2
<1>4. tells(e, row, row2, v) /\ changes(e, row, v)
  <2>1. CASE a.act = "create"
    BY <1>1, <1>2, <1>3, <2>1
       DEF tells, changes, tellsOf, typeOf, newRow, roleGiven, RoleTypes, AuthorityTypes,
           DeactivationTypes
  <2>2. CASE a.act \in {"changeRole", "grant"}
    <3>1. row2 = [row EXCEPT !.role = roleGiven(a)]
      BY <1>2, <2>2 DEF newRow
    <3>2. row \in Row /\ row # None /\ e.before = row.role /\ ~alreadyDone(a, row)
      BY <1>1, <1>3, <2>2 DEF RowActs
    <3>3. /\ row2.role = roleGiven(a) /\ row2.isAdministrator = row.isAdministrator
          /\ row2.isDeactivated = row.isDeactivated
      BY <3>1, <3>2 DEF Row
    <3>4. e.type = IF a.act = "grant" THEN "role_request_granted" ELSE "role_changed"
      BY <1>3, <2>2 DEF typeOf
    <3>5. a.act = "changeRole" => e.before # e.after
      BY <1>3, <2>2, <3>2 DEF alreadyDone, roleGiven
    <3> QED BY <1>2, <1>3, <2>2, <3>2, <3>3, <3>4, <3>5
            DEF tells, changes, tellsOf, RoleTypes, AuthorityTypes, DeactivationTypes
  <2>3. CASE a.act \in {"appoint", "withdraw", "deactivate", "reactivate"}
    <3>1. row \in Row /\ row # None /\ ~alreadyDone(a, row)
      BY <1>1, <2>3 DEF RowActs
    <3>2. CASE a.act = "appoint"
      BY <1>2, <1>3, <3>1, <3>2
         DEF tells, changes, tellsOf, typeOf, newRow, alreadyDone, Row, RoleTypes, AuthorityTypes,
             DeactivationTypes
    <3>3. CASE a.act = "withdraw"
      BY <1>2, <1>3, <3>1, <3>3
         DEF tells, changes, tellsOf, typeOf, newRow, alreadyDone, Row, RoleTypes, AuthorityTypes,
             DeactivationTypes
    <3>4. CASE a.act = "deactivate"
      BY <1>2, <1>3, <3>1, <3>4
         DEF tells, changes, tellsOf, typeOf, newRow, alreadyDone, Row, RoleTypes, AuthorityTypes,
             DeactivationTypes
    <3>5. CASE a.act = "reactivate"
      BY <1>2, <1>3, <3>1, <3>5
         DEF tells, changes, tellsOf, typeOf, newRow, alreadyDone, Row, RoleTypes, AuthorityTypes,
             DeactivationTypes
    <3> QED BY <2>3, <3>2, <3>3, <3>4, <3>5
  <2>4. CASE a.act = "deny"
    <3>1. row2 = row /\ row # None /\ e.type = "role_request_denied"
      BY <1>1, <1>2, <1>3, <2>4 DEF newRow, typeOf
    <3> QED BY <3>1
            DEF tells, changes, tellsOf, RoleTypes, AuthorityTypes, DeactivationTypes
  <2> QED BY <1>1, <2>1, <2>2, <2>3, <2>4 DEF RowActs
<1> QED BY <1>4 DEF a, v, e, row, row2

(* An event about another Viewer tells of nothing. *)
LEMMA OthersAreNotTold ==
    ASSUME NEW e, NEW row, NEW v, e.viewer # v
    PROVE  tells(e, row, row, v) /\ changes(e, row, v)
BY DEF tells, changes, tellsOf

Told == \A v \in Viewers : replays(events, viewers[v], v) /\ onceSaid(events, v)

LEMMA ToldInit == Init => Told
<1> SUFFICES ASSUME Init, NEW v \in Viewers
             PROVE  replays(events, viewers[v], v) /\ onceSaid(events, v)
  BY DEF Told
<1>1. viewers[v] = FirstViewers[v] /\ \A i : ~(i \in 1..Len(events))
  BY DEF Init
<1>2. \A T, i, j : ~lastOf(events, T, v, i) /\ ~inARow(events, T, v, i, j)
  BY <1>1 DEF lastOf, inARow
<1> QED BY <1>1, <1>2 DEF replays, isThere, roleAsSaid, authorityAsSaid, deactivationAsSaid,
                          onceSaid

LEMMA ToldStep == Inv /\ Told /\ [Next]_vars => Told'
<1> SUFFICES ASSUME Inv, Told, [Next]_vars PROVE Told'
  OBVIOUS
<1>1. CASE UNCHANGED <<viewers, events>>
  <2>1. ASSUME NEW v \in Viewers
        PROVE  replays(events', viewers'[v], v) /\ onceSaid(events', v)
    BY <1>1 DEF Told
  <2> QED BY <2>1 DEF Told, replays, isThere, roleAsSaid, authorityAsSaid, deactivationAsSaid,
                      onceSaid, lastOf, noneOf, inARow, tellsOf
<1>2. ASSUME NEW r \in Requests, Commit(r) PROVE Told'
  <2> DEFINE v == req[r].target
             e == eventOf(req[r].ask, v, req[r].before)
  <2>1. /\ events \in Seq(Event) /\ e \in Event /\ events' = Append(events, e)
        /\ \A w \in Viewers : w # v => viewers'[w] = viewers[w]
    BY <1>2, CommitEffects
  <2>2. tells(e, viewers[v], viewers'[v], v) /\ changes(e, viewers[v], v)
    BY <1>2, ACommitIsTold
  <2>3. e.viewer = v
    BY DEF eventOf
  <2> HIDE DEF e, v
  <2>4. ASSUME NEW w \in Viewers
        PROVE  tells(e, viewers[w], viewers'[w], w) /\ changes(e, viewers[w], w)
    <3>1. CASE w = v
      BY <2>2, <3>1
    <3>2. CASE w # v
      BY <2>1, <2>3, <3>2, OthersAreNotTold
    <3> QED BY <3>1, <3>2
  <2>5. ASSUME NEW w \in Viewers
        PROVE  replays(events', viewers'[w], w) /\ onceSaid(events', w)
    BY <2>1, <2>4, ReplayGrows, OnceGrows DEF Told
  <2> QED BY <2>5 DEF Told, replays, isThere, roleAsSaid, authorityAsSaid, deactivationAsSaid,
                      onceSaid, lastOf, noneOf, inARow, tellsOf
<1> QED BY <1>1, <1>2, QuietOrNot DEF RaiseRoleRequest

(* However many transactions run at once, the Change Events about Viewers,
   replayed, give the viewers table: who there is, their roles and their
   authority.  (setRole, setIsAdministrator and setIsDeactivated, each in one
   transaction with its event.) *)
THEOREM EventsReplay == Spec => []EventsReplayToViewers
<1>1. Told => EventsReplayToViewers
  BY ReplayIsHistory DEF Told
<1> QED BY <1>1, Invariance, ToldInit, ToldStep, PTL DEF Spec

(* Each change is recorded once, however many ask for it at once.
   (docs/adr/0039: the target is read after the lock.) *)
THEOREM RecordedOnce == Spec => []EachChangeIsRecordedOnce
<1>1. Told => EachChangeIsRecordedOnce
  BY OnceIsOnce DEF Told
<1> QED BY <1>1, Invariance, ToldInit, ToldStep, PTL DEF Spec

-----------------------------------------------------------------------------
(* Role Requests *)

decisionOf(request) ==
    IF request.state = "granted" THEN "role_request_granted" ELSE "role_request_denied"

(* An undecided Role Request is in no event, and a decided one in one. *)
decidedAsSaid(L, request, id) ==
    /\ request = None \/ request.state = "open" => \A i \in 1..Len(L) : L[i].request # id
    /\ request # None /\ request.state # "open" =>
          \E i \in 1..Len(L) :
             /\ \A j \in 1..Len(L) : L[j].request = id <=> j = i
             /\ L[i].viewer = request.viewer
             /\ L[i].after = request.role
             /\ L[i].type = decisionOf(request)

OneOpenEach ==
    \A id, other \in RoleRequestIds :
        id # other /\ isOpen(id) /\ isOpen(other) =>
            roleRequests[id].viewer # roleRequests[other].viewer

Decided ==
    /\ \A id \in RoleRequestIds : decidedAsSaid(events, roleRequests[id], id)
    /\ OneOpenEach

LEMMA OtherDecisions ==
    ASSUME NEW L \in Seq(Event), NEW e \in Event, NEW request, NEW id, e.request # id,
           decidedAsSaid(L, request, id)
    PROVE  decidedAsSaid(Append(L, e), request, id)
<1> DEFINE N == Append(L, e)
<1>1. /\ Len(N) \in 1..Len(N) /\ N[Len(N)] = e
      /\ \A i \in 1..Len(L) : i \in 1..Len(N) /\ N[i] = L[i]
      /\ \A i \in 1..Len(N) : i = Len(N) \/ i \in 1..Len(L)
  BY OneMore
<1> HIDE DEF N
<1>2. decidedAsSaid(N, request, id)
  <2>1. request = None \/ request.state = "open" => \A i \in 1..Len(N) : N[i].request # id
    BY <1>1 DEF decidedAsSaid
  <2>2. ASSUME request # None, request.state # "open"
        PROVE  \E i \in 1..Len(N) :
                  /\ \A j \in 1..Len(N) : N[j].request = id <=> j = i
                  /\ N[i].viewer = request.viewer
                  /\ N[i].after = request.role
                  /\ N[i].type = decisionOf(request)
    <3>1. PICK i \in 1..Len(L) :
             /\ \A j \in 1..Len(L) : L[j].request = id <=> j = i
             /\ L[i].viewer = request.viewer
             /\ L[i].after = request.role
             /\ L[i].type = decisionOf(request)
      BY <2>2 DEF decidedAsSaid
    <3>2. \A j \in 1..Len(N) : N[j].request = id <=> j = i
      BY <1>1, <3>1
    <3> QED BY <1>1, <3>1, <3>2
  <2> QED BY <2>1, <2>2 DEF decidedAsSaid
<1> QED BY <1>2 DEF N

LEMMA ADecision ==
    ASSUME NEW L \in Seq(Event), NEW e \in Event, NEW before, NEW request, NEW id,
           decidedAsSaid(L, before, id), before.state = "open",
           request # None, request.state # "open", e.request = id,
           e.viewer = request.viewer, e.after = request.role, e.type = decisionOf(request)
    PROVE  decidedAsSaid(Append(L, e), request, id)
<1> DEFINE N == Append(L, e)
<1>1. /\ Len(N) \in 1..Len(N) /\ N[Len(N)] = e /\ Len(L) \in Nat
      /\ \A i \in 1..Len(L) : i \in 1..Len(N) /\ N[i] = L[i] /\ i < Len(N)
      /\ \A i \in 1..Len(N) : i = Len(N) \/ i \in 1..Len(L)
  BY OneMore
<1>2. \A i \in 1..Len(L) : L[i].request # id
  BY DEF decidedAsSaid
<1> HIDE DEF N
<1>3. \A j \in 1..Len(N) : N[j].request = id <=> j = Len(N)
  BY <1>1, <1>2
<1>4. decidedAsSaid(N, request, id)
  BY <1>1, <1>3 DEF decidedAsSaid
<1> QED BY <1>4 DEF N

LEMMA DecidedIsOnce == TypeOK /\ Decided => RoleRequestsAreDecidedOnce
<1> SUFFICES ASSUME TypeOK, Decided, NEW id \in RoleRequestIds, roleRequests[id] # None
             PROVE  LET decisions == {i \in recorded : events[i].request = id}
                    IN  /\ isOpen(id) =>
                             /\ decisions = {}
                             /\ \A other \in RoleRequestIds \ {id} :
                                   isOpen(other) =>
                                       roleRequests[other].viewer # roleRequests[id].viewer
                        /\ ~isOpen(id) =>
                             \E i \in recorded :
                                /\ decisions = {i}
                                /\ events[i].viewer = roleRequests[id].viewer
                                /\ events[i].after = roleRequests[id].role
                                /\ events[i].type = IF roleRequests[id].state = "granted"
                                                    THEN "role_request_granted"
                                                    ELSE "role_request_denied"
  BY DEF RoleRequestsAreDecidedOnce
<1> DEFINE decisions == {i \in recorded : events[i].request = id}
<1>1. ASSUME isOpen(id)
      PROVE  /\ decisions = {}
             /\ \A other \in RoleRequestIds \ {id} :
                   isOpen(other) => roleRequests[other].viewer # roleRequests[id].viewer
  BY <1>1 DEF Decided, decidedAsSaid, OneOpenEach, isOpen, recorded
<1>2. ASSUME ~isOpen(id)
      PROVE  \E i \in recorded :
                /\ decisions = {i}
                /\ events[i].viewer = roleRequests[id].viewer
                /\ events[i].after = roleRequests[id].role
                /\ events[i].type = IF roleRequests[id].state = "granted"
                                    THEN "role_request_granted" ELSE "role_request_denied"
  <2>1. PICK i \in 1..Len(events) :
           /\ \A j \in 1..Len(events) : events[j].request = id <=> j = i
           /\ events[i].viewer = roleRequests[id].viewer
           /\ events[i].after = roleRequests[id].role
           /\ events[i].type = decisionOf(roleRequests[id])
    BY <1>2 DEF Decided, decidedAsSaid, isOpen
  <2> QED BY <2>1 DEF recorded, decisionOf
<1> QED BY <1>1, <1>2

LEMMA DecidedInit == Init => Decided
BY DEF Init, Decided, decidedAsSaid, OneOpenEach, isOpen

LEMMA DecidedStep == Inv /\ Decided /\ [Next]_vars => Decided'
<1> SUFFICES ASSUME Inv, Decided, [Next]_vars PROVE Decided'
  OBVIOUS
<1>1. CASE UNCHANGED <<viewers, roleRequests, events>>
  BY <1>1 DEF Decided, decidedAsSaid, decisionOf, OneOpenEach, isOpen
<1>2. ASSUME NEW r \in Requests, NEW id \in RoleRequestIds, RaiseRoleRequest(r, id)
      PROVE  Decided'
  <2> DEFINE request == [viewer |-> req[r].actor, role |-> req[r].ask.role, state |-> "open"]
  <2>1. /\ roleRequests[id] = None /\ UNCHANGED events
        /\ roleRequests' = [roleRequests EXCEPT ![id] = request]
        /\ \A other \in RoleRequestIds :
              isOpen(other) => roleRequests[other].viewer # req[r].actor
    BY <1>2 DEF RaiseRoleRequest, mayRaise
  <2>2. /\ roleRequests'[id] = request /\ request.state = "open"
        /\ request.viewer = req[r].actor
        /\ \A other \in RoleRequestIds \ {id} : roleRequests'[other] = roleRequests[other]
    BY <2>1 DEF Inv, Typed, TypeOK
  <2> HIDE DEF request
  <2>3. OneOpenEach'
    BY <2>1, <2>2 DEF Decided, OneOpenEach, isOpen
  <2>4. request # None
    BY <1>2, <2>2, AsksAssumption, NoneAssumption, Known
       DEF request, RoleRequest, Ask, RaiseRoleRequest, inHand
  <2>5. ASSUME NEW other \in RoleRequestIds
        PROVE  decidedAsSaid(events', roleRequests'[other], other)
    <3>1. CASE other = id
      BY <2>1, <2>2, <2>4, <3>1 DEF Decided, decidedAsSaid
    <3>2. CASE other # id
      BY <2>1, <2>2, <3>2 DEF Decided
    <3> QED BY <3>1, <3>2
  <2> QED BY <2>3, <2>5 DEF Decided, decidedAsSaid, decisionOf
<1>3. ASSUME NEW r \in Requests, Commit(r) PROVE Decided'
  <2> DEFINE a == req[r].ask
             v == req[r].target
             e == eventOf(a, v, req[r].before)
  <2>1. /\ a.act \in RowActs \cup {"create", "deny"}
        /\ a.act \in {"grant", "deny"} =>
              /\ a.request \in RoleRequestIds /\ isOpen(a.request)
              /\ roleRequests[a.request] \in RoleRequest
              /\ roleRequests[a.request].viewer = v
    BY <1>3, CommitFacts
  <2>2. /\ events \in Seq(Event) /\ e \in Event /\ events' = Append(events, e)
        /\ \A id \in RoleRequestIds :
              a.act \notin {"grant", "deny"} \/ id # a.request =>
                  roleRequests'[id] = roleRequests[id]
        /\ a.act \in {"grant", "deny"} =>
              roleRequests'[a.request] =
                  [roleRequests[a.request] EXCEPT
                      !.state = IF a.act = "grant" THEN "granted" ELSE "denied"]
    BY <1>3, CommitEffects
  <2>3. /\ e.viewer = v /\ e.type = typeOf(a.act)
        /\ e.request = IF a.act \in {"grant", "deny"} THEN a.request ELSE None
        /\ a.act \in {"grant", "deny"} => e.after = roleRequests[a.request].role
    BY DEF eventOf, roleGiven
  <2> HIDE DEF a, v, e
  <2>4. a.act \in {"grant", "deny"} =>
           LET request == roleRequests'[a.request]
           IN  /\ request # None
               /\ request.viewer = v /\ request.role = roleRequests[a.request].role
               /\ request.state = IF a.act = "grant" THEN "granted" ELSE "denied"
    BY <2>1, <2>2, NoneAssumption DEF RoleRequest
  <2>5. ASSUME NEW id \in RoleRequestIds
        PROVE  decidedAsSaid(events', roleRequests'[id], id)
    <3>1. CASE a.act \notin {"grant", "deny"} \/ id # a.request
      <4>1. e.request # id /\ roleRequests'[id] = roleRequests[id]
        BY <2>2, <2>3, <3>1, NoneAssumption
      <4> QED BY <2>2, <4>1, OtherDecisions DEF Decided
    <3>2. CASE a.act \in {"grant", "deny"} /\ id = a.request
      <4> DEFINE request == roleRequests'[id]
      <4>1. decidedAsSaid(events, roleRequests[id], id) /\ roleRequests[id].state = "open"
        BY <2>1, <3>2 DEF Decided, isOpen
      <4>2. request # None /\ request.state # "open" /\ e.request = id
        BY <2>3, <2>4, <3>2
      <4>3. e.viewer = request.viewer /\ e.after = request.role
        BY <2>3, <2>4, <3>2
      <4>4. e.type = decisionOf(request)
        BY <2>3, <2>4, <3>2 DEF decisionOf, typeOf
      <4> HIDE DEF request
      <4>5. decidedAsSaid(Append(events, e), request, id)
        BY <2>2, <4>1, <4>2, <4>3, <4>4, ADecision
      <4> QED BY <2>2, <4>5 DEF request
    <3> QED BY <3>1, <3>2
  <2>6. OneOpenEach'
    <3>1. ASSUME NEW id \in RoleRequestIds, isOpen(id)'
          PROVE  isOpen(id) /\ roleRequests'[id] = roleRequests[id]
      BY <2>1, <2>2, <2>4, <3>1 DEF isOpen
    <3> QED BY <3>1 DEF Decided, OneOpenEach
  <2> QED BY <2>5, <2>6 DEF Decided, decidedAsSaid, decisionOf
<1> QED BY <1>1, <1>2, <1>3, QuietOrNot

(* However many decide at once, a Role Request is decided once, its state says
   how, the grant gave the role it asked for, and a Viewer has one open at a
   time.  (docs/adr/0041, and decideRoleRequest's condition on the state.) *)
THEOREM DecidedOnce == Spec => []RoleRequestsAreDecidedOnce
<1>1. Inv /\ Decided => RoleRequestsAreDecidedOnce
  BY DecidedIsOnce DEF Inv, Typed
<1> QED BY <1>1, Invariance, DecidedInit, DecidedStep, PTL DEF Spec
-----------------------------------------------------------------------------
(* The last Administrator *)

(* A transaction that may remove an Administrator and has chosen its rows. *)
removing(R) == R.pc \in {"lock", "record"} /\ R.ask.act \in {"withdraw", "deactivate"}

(* One that is about to commit a new one. *)
appointing(R) == R.pc = "record" /\ R.ask.act \in {"appoint", "reactivate"}

(* Nobody is made an Administrator while two removals are between the rows they
   chose and their end. *)
NoAppointmentBesideTwoRemovals ==
    \A r, s, t \in Requests :
       r # s /\ removing(req[r]) /\ removing(req[s]) => ~appointing(req[t])

administrators == {v \in Viewers : activeAdministrator(v)}

chosen(R) == R.toLock \cup R.locked

(* Of two removals, the one that chose its rows last chose every Administrator
   there is. *)
OneChoseAll ==
    \A r, s \in Requests :
       r # s /\ removing(req[r]) /\ removing(req[s]) =>
          administrators \subseteq chosen(req[r]) \/ administrators \subseteq chosen(req[s])

(* Another one than the one about to be removed. *)
leavesOne(R) ==
    R.pc = "record" /\ removing(R) /\ activeAdministrator(R.target) =>
       \E w \in Viewers \ {R.target} : activeAdministrator(w)

LastInv ==
    /\ AnAdministratorRemains
    /\ OneChoseAll
    /\ \A r \in Requests : removing(req[r]) /\ req[r].pc = "record" => req[r].toLock = {}
    /\ \A r \in Requests : leavesOne(req[r])

(* A step of one request that writes no Viewer's row. *)
LEMMA LastOfOne ==
    ASSUME Inv, LastInv, NEW r \in Requests, NEW R, req' = [req EXCEPT ![r] = R],
           UNCHANGED viewers,
           removing(R) => \/ administrators \subseteq chosen(R)
                          \/ removing(req[r]) /\ chosen(R) = chosen(req[r]),
           removing(R) /\ R.pc = "record" => R.toLock = {},
           leavesOne(R)
    PROVE  LastInv'
<1>1. req'[r] = R /\ \A s \in Requests \ {r} : req'[s] = req[s]
  BY DEF Inv, Typed, TypeOK
<1>2. \A v : activeAdministrator(v)' <=> activeAdministrator(v)
  BY DEF activeAdministrator
<1>3. administrators' = administrators
  BY <1>2 DEF administrators
<1>4. OneChoseAll'
  <2>1. ASSUME NEW s \in Requests, NEW t \in Requests, s # t, removing(req'[s]), removing(req'[t])
        PROVE  administrators \subseteq chosen(req'[s]) \/ administrators \subseteq chosen(req'[t])
    BY <1>1, <2>1 DEF LastInv, OneChoseAll
  <2> QED BY <1>3, <2>1 DEF OneChoseAll, removing, chosen
<1>5. AnAdministratorRemains'
  BY <1>2 DEF LastInv, AnAdministratorRemains
<1>6. ASSUME NEW s \in Requests
      PROVE  /\ removing(req'[s]) /\ req'[s].pc = "record" => req'[s].toLock = {}
             /\ leavesOne(req'[s])
  BY <1>1 DEF LastInv
<1>7. ASSUME NEW s \in Requests PROVE leavesOne(req[s])'
  BY <1>2, <1>6 DEF leavesOne, removing
<1> QED BY <1>4, <1>5, <1>6, <1>7 DEF LastInv, removing

LEMMA LastOfFinishing ==
    ASSUME Inv, LastInv, NEW r \in Requests, finish(r), UNCHANGED viewers
    PROVE  LastInv'
<1>1. ~removing(Idle) /\ leavesOne(Idle)
  BY DEF Idle, removing, leavesOne
<1> QED BY <1>1, LastOfOne DEF finish

(* What a commit does to who is an active Administrator. *)
LEMMA AdministratorsAfter ==
    ASSUME Inv, NEW r \in Requests, Commit(r)
    PROVE  \A v \in Viewers :
              /\ v # req[r].target => (activeAdministrator(v)' <=> activeAdministrator(v))
              /\ activeAdministrator(v) /\ ~activeAdministrator(v)' =>
                    v = req[r].target /\ removing(req[r])
              /\ ~activeAdministrator(v) /\ activeAdministrator(v)' => appointing(req[r])
<1> DEFINE a == req[r].ask
<1>0. PICK v \in Viewers : v = req[r].target
  BY CommitFacts
<1>1. /\ req[r].pc = "record" /\ a.act \in RowActs \cup {"create", "deny"}
      /\ a.act \in RowActs => viewers[v] \in Row /\ viewers[v] # None
      /\ a.act = "create" => viewers[v] = None
  BY <1>0, CommitFacts DEF Commit
<1>2. /\ viewers'[v] = newRow(a, viewers[v]) /\ viewers'[v] # None
      /\ a.act = "deny" => viewers'[v] = viewers[v]
      /\ \A w \in Viewers : w # v => viewers'[w] = viewers[w]
  BY <1>0, CommitEffects
<1> HIDE DEF a
<1>3. \A w \in Viewers \ {v} : activeAdministrator(w)' <=> activeAdministrator(w)
  BY <1>2 DEF activeAdministrator
<1>4. CASE a.act \in {"withdraw", "deactivate"}
  <2>1. ~activeAdministrator(v)'
    BY <1>1, <1>2, <1>4 DEF activeAdministrator, newRow, Row, RowActs
  <2> QED BY <1>0, <1>1, <1>3, <1>4, <2>1 DEF removing, a
<1>5. CASE a.act \in {"appoint", "reactivate"}
  <2>1. activeAdministrator(v) => activeAdministrator(v)'
    <3>1. viewers[v] \in Row /\ viewers[v] # None
      BY <1>1, <1>5 DEF RowActs
    <3> QED BY <1>2, <1>5, <3>1 DEF activeAdministrator, newRow, Row
  <2> QED BY <1>0, <1>1, <1>3, <1>5, <2>1 DEF appointing, a
<1>6. CASE a.act \in {"create", "changeRole", "grant", "deny"}
  <2>1. activeAdministrator(v)' <=> activeAdministrator(v)
    <3>2. CASE a.act = "create"
      BY <1>1, <1>2, <3>2 DEF activeAdministrator, newRow
    <3>3. CASE a.act \in {"changeRole", "grant"}
      <4>1. viewers[v] \in Row /\ viewers[v] # None
        BY <1>1, <3>3 DEF RowActs
      <4>2. viewers'[v] = [viewers[v] EXCEPT !.role = roleGiven(a)]
        BY <1>2, <3>3 DEF newRow
      <4> QED BY <1>2, <4>1, <4>2 DEF activeAdministrator, Row
    <3>4. CASE a.act = "deny"
      BY <1>2, <3>4 DEF activeAdministrator
    <3> QED BY <1>6, <3>2, <3>3, <3>4
  <2> QED BY <1>0, <1>3, <2>1
<1> QED BY <1>1, <1>4, <1>5, <1>6 DEF RowActs

LEMMA LastOfCommit ==
    ASSUME Inv, LastInv, NoAppointmentBesideTwoRemovals, NEW r \in Requests, Commit(r)
    PROVE  LastInv'
<1> DEFINE a == req[r].ask
<1>0. PICK v \in Viewers : v = req[r].target
  BY CommitFacts
<1>1. \A w \in Viewers :
         /\ w # v => (activeAdministrator(w)' <=> activeAdministrator(w))
         /\ activeAdministrator(w) /\ ~activeAdministrator(w)' => w = v /\ removing(req[r])
         /\ ~activeAdministrator(w) /\ activeAdministrator(w)' => appointing(req[r])
  BY <1>0, AdministratorsAfter
<1>2. /\ req[r].pc = "record" /\ a.act \in RowActs \cup {"create", "deny"}
      /\ a.act \in RowActs => v \in req[r].locked
      /\ a.act = "create" => viewers[v] = None
  BY <1>0, CommitFacts DEF Commit
<1>3. req'[r] = Idle /\ \A s \in Requests \ {r} : req'[s] = req[s]
  BY CommitEffects
<1>4. ~removing(Idle)
  BY DEF Idle, removing
<1> HIDE DEF a
<1>5. AnAdministratorRemains'
  <2>1. PICK w \in Viewers : activeAdministrator(w)
    BY DEF LastInv, AnAdministratorRemains
  <2>2. CASE activeAdministrator(w)'
    BY <2>2 DEF AnAdministratorRemains
  <2>3. CASE ~activeAdministrator(w)'
    <3>1. w = v /\ removing(req[r])
      BY <1>1, <2>1, <2>3
    <3>2. PICK u \in Viewers \ {v} : activeAdministrator(u)
      BY <1>0, <1>2, <2>1, <3>1 DEF LastInv, leavesOne
    <3>3. activeAdministrator(u)'
      BY <1>1, <3>2
    <3> QED BY <3>3 DEF AnAdministratorRemains
  <2> QED BY <2>2, <2>3
<1>6. OneChoseAll'
  <2>1. ASSUME NEW s \in Requests, NEW t \in Requests, s # t, removing(req'[s]), removing(req'[t])
        PROVE  \/ administrators' \subseteq chosen(req'[s])
               \/ administrators' \subseteq chosen(req'[t])
    <3>1. req'[s] = req[s] /\ req'[t] = req[t] /\ removing(req[s]) /\ removing(req[t])
      BY <1>3, <1>4, <2>1
    <3>2. ~appointing(req[r])
      BY <2>1, <3>1 DEF NoAppointmentBesideTwoRemovals
    <3>3. \A w \in Viewers : activeAdministrator(w)' => activeAdministrator(w)
      BY <1>1, <3>2
    <3>4. administrators' \subseteq administrators
      BY <3>3 DEF administrators
    <3> QED BY <2>1, <3>1, <3>4 DEF LastInv, OneChoseAll
  <2> QED BY <2>1 DEF OneChoseAll, removing, chosen
<1>7. ASSUME NEW s \in Requests
      PROVE  removing(req'[s]) /\ req'[s].pc = "record" => req'[s].toLock = {}
  BY <1>3, <1>4 DEF LastInv
<1>8. ASSUME NEW s \in Requests, s # r, req[s].pc = "record", removing(req[s]),
             NEW u \in Viewers, u = req[s].target, activeAdministrator(u)'
      PROVE  \E w \in Viewers \ {u} : activeAdministrator(w)'
  <2>1. /\ u \in req[s].locked /\ viewers[u] # None
        /\ req[r].locked \cap req[s].locked = {}
    BY <1>8, Known DEF inHand, sound, removing, apart, RowActs
  <2>2. u # v \/ a.act = "deny"
    BY <1>2, <2>1
  <2>3. activeAdministrator(u)
    <3>1. a.act = "deny" => ~appointing(req[r])
      BY DEF appointing, a
    <3> QED BY <1>1, <1>8, <2>2, <3>1
  <2>4. PICK w \in Viewers \ {u} : activeAdministrator(w)
    BY <1>8, <2>3 DEF LastInv, leavesOne
  <2>5. ASSUME ~activeAdministrator(w)' PROVE FALSE
    <3>1. w = v /\ removing(req[r])
      BY <1>1, <2>4, <2>5
    <3>2. chosen(req[r]) = req[r].locked /\ chosen(req[s]) = req[s].locked
      BY <1>2, <1>8, <3>1 DEF LastInv, chosen
    <3>3. administrators \subseteq req[r].locked \/ administrators \subseteq req[s].locked
      BY <1>8, <3>1, <3>2 DEF LastInv, OneChoseAll
    <3>4. u \in administrators /\ v \in administrators
      BY <2>3, <2>4, <3>1 DEF administrators
    <3>5. v \in req[r].locked
      BY <1>2, <3>1 DEF removing, a, RowActs
    <3> QED BY <2>1, <3>3, <3>4, <3>5
  <2> QED BY <2>4, <2>5
<1>9. ASSUME NEW s \in Requests PROVE leavesOne(req[s])'
  <2>1. CASE s = r
    BY <1>3, <1>4, <2>1 DEF leavesOne, removing
  <2>2. CASE s # r
    <3>1. req'[s] = req[s]
      BY <1>3, <2>2
    <3>2. removing(req[s]) => req[s].target \in Viewers
      BY Known DEF removing, inHand, RowActs
    <3> QED BY <1>8, <2>2, <3>1, <3>2 DEF leavesOne, removing
  <2> QED BY <2>1, <2>2
<1> QED BY <1>5, <1>6, <1>7, <1>9 DEF LastInv, removing

LEMMA LastStep ==
    Inv /\ LastInv /\ NoAppointmentBesideTwoRemovals /\ [Next]_vars => LastInv'
<1> SUFFICES ASSUME Inv, LastInv, NoAppointmentBesideTwoRemovals, [Next]_vars PROVE LastInv'
  OBVIOUS
<1>1. CASE UNCHANGED vars
  BY <1>1 DEF vars, LastInv, AnAdministratorRemains, activeAdministrator, OneChoseAll,
              removing, chosen, administrators, leavesOne
<1>2. ASSUME NEW r \in Requests, NEW R, req' = [req EXCEPT ![r] = R], UNCHANGED viewers,
             ~removing(R)
      PROVE  LastInv'
  BY <1>2, LastOfOne DEF leavesOne
<1>3. ASSUME NEW r \in Requests, NEW v \in Viewers, NEW a \in Asks, Authenticate(r, v, a)
      PROVE  LastInv'
  <2> DEFINE R == [Idle EXCEPT !.pc = firstStep(a.act), !.actor = v,
                               !.held = viewers[v].role, !.ask = a, !.target = a.target]
  <2>1. R.pc = firstStep(a.act)
    BY DEF Idle
  <2>2. ~removing(R)
    BY <2>1 DEF removing, firstStep
  <2>3. req' = [req EXCEPT ![r] = R] /\ UNCHANGED viewers
    BY <1>3 DEF Authenticate
  <2> HIDE DEF R
  <2> QED BY <1>2, <2>2, <2>3
<1>4. ASSUME NEW r \in Requests,
             \/ \E id \in RoleRequestIds : RaiseRoleRequest(r, id)
             \/ RaiseRefused(r) \/ DecisionRefused(r) \/ InsertRefused(r) \/ RowRefused(r)
             \/ Abort(r)
      PROVE  LastInv'
  BY <1>4, LastOfFinishing
     DEF RaiseRoleRequest, RaiseRefused, DecisionRefused, InsertRefused, RowRefused, Abort
<1>5. ASSUME NEW r \in Requests, DecideRoleRequest(r) \/ InsertViewer(r)
      PROVE  LastInv'
  <2>1. req[r] \in Request /\ inHand(req[r]) /\ req \in [Requests -> Request]
    BY Known
  <2>2. PICK R : /\ req' = [req EXCEPT ![r] = R] /\ R.ask = req[r].ask
    <3>1. CASE DecideRoleRequest(r)
      <4> DEFINE R == [req[r] EXCEPT
                         !.pc = IF req[r].ask.act = "grant" THEN "select" ELSE "record",
                         !.target = roleRequests[req[r].ask.request].viewer]
      <4>1. req' = [req EXCEPT ![r] = R]
        BY <2>1, <3>1 DEF DecideRoleRequest
      <4>2. R.ask = req[r].ask
        BY <2>1 DEF Request
      <4> HIDE DEF R
      <4> QED BY <4>1, <4>2
    <3>2. CASE InsertViewer(r)
      <4> DEFINE R == [req[r] EXCEPT !.pc = "record"]
      <4>1. req' = [req EXCEPT ![r] = R]
        BY <2>1, <3>2 DEF InsertViewer
      <4>2. R.ask = req[r].ask
        BY <2>1 DEF Request
      <4> HIDE DEF R
      <4> QED BY <4>1, <4>2
    <3> QED BY <1>5, <3>1, <3>2
  <2>3. ~removing(R)
    BY <1>5, <2>1, <2>2 DEF DecideRoleRequest, InsertViewer, inHand, removing
  <2> QED BY <1>2, <1>5, <2>2, <2>3 DEF DecideRoleRequest, InsertViewer
<1>6. ASSUME NEW r \in Requests, SelectRows(r) PROVE LastInv'
  <2> DEFINE rows == rowsToLock(req[r].ask.act, req[r].target)
             R == [req[r] EXCEPT !.pc = "lock", !.toLock = rows]
  <2>1. req[r] \in Request /\ req \in [Requests -> Request]
    BY Known
  <2>2. R.pc = "lock" /\ R.toLock = rows /\ R.ask = req[r].ask
    BY <2>1 DEF Request
  <2>3. removing(R) => administrators \subseteq chosen(R)
    BY <2>2 DEF removing, administrators, activeAdministrator, chosen, rowsToLock
  <2>4. req' = [req EXCEPT ![r] = R] /\ UNCHANGED viewers
    BY <1>6, <2>1 DEF SelectRows
  <2>5. leavesOne(R)
    BY <2>2 DEF leavesOne
  <2> HIDE DEF R, rows
  <2> QED BY <2>2, <2>3, <2>4, <2>5, LastOfOne
<1>7. ASSUME NEW r \in Requests, LockRow(r) PROVE LastInv'
  <2> DEFINE v == nextToLock(r)
             R == [req[r] EXCEPT !.toLock = @ \ {v}, !.locked = @ \cup {v}]
  <2>1. /\ req[r] \in Request /\ req \in [Requests -> Request] /\ req[r].pc = "lock"
        /\ v \in req[r].toLock
    BY <1>7, Known, FirstToLock DEF LockRow, Request
  <2>2. /\ R.pc = "lock" /\ R.ask = req[r].ask
        /\ R.toLock = req[r].toLock \ {v} /\ R.locked = req[r].locked \cup {v}
    BY <2>1 DEF Request
  <2>3. removing(R) => removing(req[r]) /\ chosen(R) = chosen(req[r])
    BY <2>1, <2>2 DEF removing, chosen
  <2>4. req' = [req EXCEPT ![r] = R] /\ UNCHANGED viewers
    BY <1>7, <2>1 DEF LockRow
  <2>5. leavesOne(R)
    BY <2>2 DEF leavesOne
  <2> HIDE DEF R, v
  <2> QED BY <2>2, <2>3, <2>4, <2>5, LastOfOne
<1>8. ASSUME NEW r \in Requests, CheckRow(r) PROVE LastInv'
  <2> DEFINE R == [req[r] EXCEPT !.pc = "record", !.before = viewers[req[r].target]]
  <2>1. /\ req[r] \in Request /\ req \in [Requests -> Request] /\ req[r].pc = "lock"
        /\ req[r].toLock = {}
    BY <1>8, Known DEF CheckRow, allLocked
  <2>2. /\ R.pc = "record" /\ R.ask = req[r].ask /\ R.target = req[r].target
        /\ R.toLock = {} /\ R.locked = req[r].locked
    BY <2>1 DEF Request
  <2>3. removing(R) => removing(req[r]) /\ chosen(R) = chosen(req[r])
    BY <2>1, <2>2 DEF removing, chosen
  <2>4. req' = [req EXCEPT ![r] = R] /\ UNCHANGED viewers
    BY <1>8, <2>1 DEF CheckRow
  <2>5. leavesOne(R)
    BY <1>8, <2>2 DEF leavesOne, removing, CheckRow, allowedOnRow, isLastActiveAdministrator,
                      activeAdministrator
  <2> HIDE DEF R
  <2> QED BY <2>2, <2>3, <2>4, <2>5, LastOfOne
<1>9. ASSUME NEW r \in Requests, Commit(r) PROVE LastInv'
  BY <1>9, LastOfCommit
<1> QED BY <1>1, <1>3, <1>4, <1>5, <1>6, <1>7, <1>8, <1>9 DEF Next, Step

(* With any number of acts at once an active Administrator remains, as long as
   none is made one while two removals are between the rows they chose and
   their end: the later of the two has chosen every Administrator, and waits
   for the other.  (docs/adr/0015, of what it promises without exception.) *)
THEOREM OneRemains ==
    Spec /\ AnAdministratorRemains /\ []NoAppointmentBesideTwoRemovals => []AnAdministratorRemains
<1>1. Init /\ AnAdministratorRemains => LastInv
  BY DEF Init, Idle, LastInv, OneChoseAll, removing, leavesOne
<1>2. LastInv => AnAdministratorRemains
  BY DEF LastInv
<1> QED BY <1>1, <1>2, LastStep, Invariance, PTL DEF Spec

(* Two acts at once never remove the last Administrator. *)
THEOREM OneRemainsOfTwo ==
    ASSUME Cardinality(Requests) =< 2, IsFiniteSet(Requests)
    PROVE  Spec /\ AnAdministratorRemains => []AnAdministratorRemains
<1>1. NoAppointmentBesideTwoRemovals
  <2>1. ASSUME NEW r \in Requests, NEW s \in Requests, NEW t \in Requests, r # s,
               removing(req[r]), removing(req[s]), appointing(req[t])
        PROVE  FALSE
    <3>1. t # r /\ t # s
      BY <2>1 DEF removing, appointing
    <3>2. Cardinality({r, s, t}) = 3
      <4>1. PICK one : one = {r}
        OBVIOUS
      <4>2. PICK two : two = one \cup {s}
        OBVIOUS
      <4>3. IsFiniteSet(one) /\ Cardinality(one) = 1
        BY <4>1, FS_Singleton
      <4>4. s \notin one /\ t \notin two /\ {r, s, t} = two \cup {t}
        BY <2>1, <3>1, <4>1, <4>2
      <4>5. IsFiniteSet(two) /\ Cardinality(two) = 1 + 1
        BY <4>2, <4>3, <4>4, FS_AddElement
      <4> QED BY <4>4, <4>5, FS_AddElement
    <3>3. Cardinality({r, s, t}) =< Cardinality(Requests)
      BY FS_Subset
    <3> QED BY <3>2, <3>3, FS_CardinalityType
  <2> QED BY <2>1 DEF NoAppointmentBesideTwoRemovals
<1> QED BY <1>1, OneRemains, PTL

=============================================================================
