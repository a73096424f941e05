------------------------- MODULE PasswordLinksProofs -------------------------
(***************************************************************************)
(* Theorems of PasswordLinks, for any set of Viewers, links and concurrent *)
(* requests: a Viewer has one link that works, and one link a window.      *)
(***************************************************************************)
EXTENDS PasswordLinks, TLAPS

inTable(l) == l \in Links /\ links[l] # None

(* A transaction that is issuing a link for a Viewer keeps others from doing
   so: a reset by the advisory lock, a creation by the address it inserted. *)
holds(R) ==
    /\ R.open
    /\ \/ R.act = "reset" /\ R.pc \in {"check", "issue", "insert", "send", "commit"}
       \/ R.act = "create" /\ R.pc \in {"issue", "insert", "send", "commit"}

inHand(R) ==
    /\ R.pc # "idle" /\ R.act \in {"reset", "create"} => R.viewer \in Viewers
    /\ R.pc \in {"lock", "check"} => R.act = "reset"
    /\ R.pc = "insertViewer" => R.act = "create"
    /\ R.pc \in {"issue", "insert", "send"} => R.act \in {"reset", "create"}
    /\ R.pc \in {"spend", "update"} => R.act = "setPassword" /\ R.link \in Links
    /\ R.pc = "commit" => R.act \in {"reset", "create", "setPassword"}
    /\ R.pc \in {"send", "commit"} /\ R.act # "setPassword" => R.link \in Links
    /\ R.pc = "commit" /\ R.act = "setPassword" => R.link = None \/ R.link \in R.ending
    /\ R.pc # "send" => R.open
    /\ \A l \in R.sees \cup R.ending : inTable(l)

(* A reset is made for somebody who has an account, a creation for somebody who
   has none; and whoever is issuing a link has the older ones in hand, and
   found that none of them is recent. *)
issues(R) ==
    /\ R.pc # "idle" /\ R.act = "reset" => viewers[R.viewer] # "none"
    /\ holds(R) /\ R.act = "create" => viewers[R.viewer] = "none"
    /\ holds(R) /\ R.pc \in {"insert", "send", "commit"} =>
          unspentOf(R.viewer) \subseteq R.ending
    /\ holds(R) /\ R.pc # "check" => ~wasIssuedSince(R.viewer)

LinksHaveAccounts ==
    \A l \in Links : links[l] # None => viewers[links[l].viewer] # "none"

HandsOK == \A r \in Requests : inHand(req[r])

IssuersKnow == \A r \in Requests : issues(req[r])

OneIssuer ==
    \A r, s \in Requests :
       holds(req[r]) /\ holds(req[s]) /\ req[r].viewer = req[s].viewer => r = s

Typed == TypeOK /\ HandsOK

Inv ==
    /\ Typed
    /\ LinksHaveAccounts
    /\ IssuersKnow
    /\ OneIssuer
    /\ OneLinkThatWorks
    /\ OneLinkPerWindow

LEMMA IdleFacts == Idle \in Request /\ inHand(Idle) /\ issues(Idle) /\ ~holds(Idle)
BY DEF Idle, Request, inHand, issues, holds

LEMMA InvInit == Init => Inv
<1> SUFFICES ASSUME Init PROVE Inv
  OBVIOUS
<1>1. TypeOK
  BY IdleFacts, MaxDeactivationsAssumption DEF Init, TypeOK
<1>2. \A r \in Requests : req[r] = Idle
  BY DEF Init
<1>3. HandsOK /\ IssuersKnow /\ OneIssuer
  BY <1>2, IdleFacts DEF HandsOK, IssuersKnow, OneIssuer
<1> QED BY <1>1, <1>3
        DEF Init, Inv, Typed, LinksHaveAccounts, OneLinkThatWorks, OneLinkPerWindow

-----------------------------------------------------------------------------
(* Steps that write no row that others see *)

(* A step of one request that changes what it alone has in hand. *)
LEMMA OnlyTheRequest ==
    ASSUME Inv, NEW r \in Requests, NEW R \in Request, inHand(R), issues(R),
           holds(R) => \A s \in Requests \ {r} :
                          holds(req[s]) => req[s].viewer # R.viewer,
           req' = [req EXCEPT ![r] = R], inbox' \subseteq Links,
           UNCHANGED <<viewers, links, deactivations>>
    PROVE  Inv'
<1>1. req'[r] = R /\ \A s \in Requests \ {r} : req'[s] = req[s]
  BY DEF Inv, Typed, TypeOK
<1>2. TypeOK'
  BY DEF Inv, Typed, TypeOK
<1>3. ASSUME NEW s \in Requests PROVE inHand(req[s])' /\ issues(req[s])'
  <2>1. inHand(req'[s]) /\ issues(req'[s])
    BY <1>1 DEF Inv, Typed, HandsOK, IssuersKnow
  <2> QED BY <2>1 DEF inHand, issues, holds, inTable, unspentOf, wasIssuedSince
<1>4. OneIssuer'
  BY <1>1 DEF Inv, OneIssuer, holds
<1>5. LinksHaveAccounts' /\ OneLinkThatWorks' /\ OneLinkPerWindow'
  BY DEF Inv, LinksHaveAccounts, OneLinkThatWorks, OneLinkPerWindow
<1> QED BY <1>2, <1>3, <1>4, <1>5 DEF Inv, Typed, HandsOK, IssuersKnow

(* A step that leaves a request idle. *)
LEMMA Finishing ==
    ASSUME Inv, NEW r \in Requests, finish(r), inbox' \subseteq Links,
           UNCHANGED <<viewers, links, deactivations>>
    PROVE  Inv'
BY IdleFacts, OnlyTheRequest DEF finish

(* Nobody else is issuing a link when one request begins to. *)
LEMMA IssuingBegins ==
    ASSUME Inv, NEW r \in Requests
    PROVE  /\ LockResets(r) => \A s \in Requests \ {r} :
                 holds(req[s]) => req[s].viewer # req[r].viewer
           /\ InsertViewer(r) => \A s \in Requests \ {r} :
                 holds(req[s]) => req[s].viewer # req[r].viewer
<1>1. inHand(req[r]) /\ issues(req[r])
  BY DEF Inv, Typed, HandsOK, IssuersKnow
<1>2. ASSUME NEW s \in Requests, s # r, holds(req[s]), req[s].viewer = req[r].viewer
      PROVE  ~LockResets(r) /\ ~InsertViewer(r)
  <2>1. issues(req[s])
    BY DEF Inv, IssuersKnow
  <2>2. CASE req[s].act = "reset"
    BY <1>2, <2>1, <2>2 DEF holds, issues, LockResets, resetsLocked, InsertViewer
  <2>3. CASE req[s].act = "create"
    BY <1>1, <1>2, <2>1, <2>3
       DEF holds, issues, inHand, LockResets, InsertViewer, addressLocked
  <2> QED BY <1>2, <2>2, <2>3 DEF holds
<1> QED BY <1>2

LEMMA StepOfOne ==
    ASSUME Inv, NEW r \in Requests,
           \/ \E v \in Viewers : AskReset(r, v) \/ CreateViewer(r, v)
           \/ \E l \in Links : SetPassword(r, l) \/ InsertLink(r, l)
           \/ LockResets(r) \/ HoldBack(r) \/ GoAhead(r) \/ InsertViewer(r)
           \/ AddressTaken(r) \/ EndUnused(r) \/ Send(r) \/ SendFails(r)
           \/ Spend(r) \/ DeadLink(r) \/ Update(r) \/ TimeOut(r)
    PROVE  Inv'
<1>0. /\ req[r] \in Request /\ inHand(req[r]) /\ issues(req[r])
      /\ inbox \subseteq Links
      /\ req \in [Requests -> Request]
  BY DEF Inv, Typed, TypeOK, HandsOK, IssuersKnow
<1>a. holds(req[r]) => \A s \in Requests \ {r} :
         holds(req[s]) => req[s].viewer # req[r].viewer
  BY DEF Inv, OneIssuer
<1>1. ASSUME NEW v \in Viewers, AskReset(r, v) PROVE Inv'
  <2> DEFINE R == [Idle EXCEPT !.pc = "lock", !.act = "reset", !.viewer = v]
  <2>1. R \in Request /\ inHand(R) /\ issues(R) /\ ~holds(R)
    BY <1>1 DEF AskReset, Idle, Request, inHand, issues, holds
  <2>2. req' = [req EXCEPT ![r] = R]
    BY <1>1 DEF AskReset
  <2> HIDE DEF R
  <2> QED BY <1>0, <1>1, <2>1, <2>2, OnlyTheRequest DEF AskReset
<1>2. ASSUME NEW v \in Viewers, CreateViewer(r, v) PROVE Inv'
  <2> DEFINE R == [Idle EXCEPT !.pc = "insertViewer", !.act = "create", !.viewer = v]
  <2>1. R \in Request /\ inHand(R) /\ issues(R) /\ ~holds(R)
    BY DEF Idle, Request, inHand, issues, holds
  <2>2. req' = [req EXCEPT ![r] = R]
    BY <1>2 DEF CreateViewer
  <2> HIDE DEF R
  <2> QED BY <1>0, <1>2, <2>1, <2>2, OnlyTheRequest DEF CreateViewer
<1>3. ASSUME NEW l \in Links, SetPassword(r, l) PROVE Inv'
  <2> DEFINE R == [Idle EXCEPT !.pc = "spend", !.act = "setPassword", !.link = l]
  <2>1. R \in Request /\ inHand(R) /\ issues(R) /\ ~holds(R)
    BY DEF Idle, Request, inHand, issues, holds
  <2>2. req' = [req EXCEPT ![r] = R]
    BY <1>3 DEF SetPassword
  <2> HIDE DEF R
  <2> QED BY <1>0, <1>3, <2>1, <2>2, OnlyTheRequest DEF SetPassword
<1>4. ASSUME NEW l \in Links, InsertLink(r, l) PROVE Inv'
  <2> DEFINE R == [req[r] EXCEPT !.pc = "send", !.link = l]
  <2>1. R \in Request /\ inHand(R)
    BY <1>0, <1>4 DEF InsertLink, Request, inHand
  <2>2. issues(R) /\ (holds(R) => holds(req[r])) /\ R.viewer = req[r].viewer
    BY <1>0, <1>4 DEF InsertLink, Request, issues, holds
  <2>3. req' = [req EXCEPT ![r] = R]
    BY <1>0, <1>4 DEF InsertLink
  <2> HIDE DEF R
  <2> QED BY <1>0, <1>a, <1>4, <2>1, <2>2, <2>3, OnlyTheRequest DEF InsertLink
<1>5. ASSUME LockResets(r) PROVE Inv'
  <2> DEFINE R == [req[r] EXCEPT !.pc = "check"]
  <2>1. R \in Request /\ inHand(R) /\ issues(R) /\ R.viewer = req[r].viewer
    BY <1>0, <1>5 DEF LockResets, Request, inHand, issues, holds
  <2>2. req' = [req EXCEPT ![r] = R]
    BY <1>0, <1>5 DEF LockResets
  <2> HIDE DEF R
  <2> QED BY <1>0, <1>5, <2>1, <2>2, IssuingBegins, OnlyTheRequest DEF LockResets
<1>6. ASSUME GoAhead(r) PROVE Inv'
  <2> DEFINE R == [req[r] EXCEPT !.pc = "issue"]
  <2>1. R \in Request /\ inHand(R)
    BY <1>0, <1>6 DEF GoAhead, Request, inHand
  <2>2. issues(R) /\ (holds(R) => holds(req[r])) /\ R.viewer = req[r].viewer
    BY <1>0, <1>6 DEF GoAhead, Request, inHand, issues, holds
  <2>3. req' = [req EXCEPT ![r] = R]
    BY <1>0, <1>6 DEF GoAhead
  <2> HIDE DEF R
  <2> QED BY <1>0, <1>a, <1>6, <2>1, <2>2, <2>3, OnlyTheRequest DEF GoAhead
<1>7. ASSUME InsertViewer(r) PROVE Inv'
  <2> DEFINE R == [req[r] EXCEPT !.pc = "issue"]
  <2>1. R \in Request /\ inHand(R) /\ R.viewer = req[r].viewer
    BY <1>0, <1>7 DEF InsertViewer, Request, inHand
  <2>2. ~wasIssuedSince(req[r].viewer)
    BY <1>7 DEF InsertViewer, wasIssuedSince, Inv, LinksHaveAccounts
  <2>3. issues(R)
    BY <1>0, <1>7, <2>2 DEF InsertViewer, Request, inHand, issues, holds
  <2>4. req' = [req EXCEPT ![r] = R]
    BY <1>0, <1>7 DEF InsertViewer
  <2> HIDE DEF R
  <2> QED BY <1>0, <1>7, <2>1, <2>3, <2>4, IssuingBegins, OnlyTheRequest DEF InsertViewer
<1>8. ASSUME EndUnused(r) PROVE Inv'
  <2> DEFINE R == [req[r] EXCEPT !.pc = "insert", !.ending = unspentOf(req[r].viewer)]
  <2>1. unspentOf(req[r].viewer) \subseteq Links
    BY DEF unspentOf
  <2>2. \A l \in unspentOf(req[r].viewer) : inTable(l)
    BY DEF unspentOf, inTable
  <2>3. /\ R.pc = "insert" /\ R.act = req[r].act /\ R.viewer = req[r].viewer
        /\ R.ending = unspentOf(req[r].viewer) /\ R.sees = req[r].sees
        /\ R.open = req[r].open /\ R.link = req[r].link
        /\ R \in Request
    BY <1>0, <2>1 DEF Request
  <2>4. req' = [req EXCEPT ![r] = R] /\ req[r].pc = "issue"
    BY <1>0, <1>8 DEF EndUnused
  <2> HIDE DEF R
  <2>5. inHand(R)
    BY <1>0, <2>2, <2>3, <2>4 DEF inHand
  <2>6. issues(R) /\ (holds(R) => holds(req[r]))
    BY <1>0, <2>3, <2>4 DEF issues, holds
  <2>7. inbox' \subseteq Links /\ UNCHANGED <<viewers, links, deactivations>>
    BY <1>0, <1>8 DEF EndUnused
  <2> QED BY <1>a, <2>3, <2>4, <2>5, <2>6, <2>7, OnlyTheRequest
<1>9. ASSUME Send(r) PROVE Inv'
  <2>1. req[r].link \in Links
    BY <1>0, <1>9 DEF Send, inHand
  <2>2. inbox' \subseteq Links
    BY <1>0, <1>9, <2>1 DEF Send
  <2>3. CASE req[r].open
    <3> DEFINE R == [req[r] EXCEPT !.pc = "commit"]
    <3>1. R \in Request /\ inHand(R)
      BY <1>0, <1>9, <2>3 DEF Send, Request, inHand
    <3>2. issues(R) /\ (holds(R) => holds(req[r])) /\ R.viewer = req[r].viewer
      BY <1>0, <1>9 DEF Send, Request, issues, holds
    <3>3. req' = [req EXCEPT ![r] = R]
      BY <1>0, <1>9, <2>3 DEF Send
    <3> HIDE DEF R
    <3> QED BY <1>a, <1>9, <2>2, <3>1, <3>2, <3>3, OnlyTheRequest DEF Send
  <2>4. CASE ~req[r].open
    BY <1>9, <2>2, <2>4, Finishing DEF Send, finish
  <2> QED BY <2>3, <2>4
<1>10. ASSUME Spend(r) PROVE Inv'
  <2> DEFINE w == links[req[r].link].viewer
             R == [req[r] EXCEPT !.pc = "update", !.viewer = w, !.sees = unspentOf(w)]
  <2>1. w \in Viewers /\ req[r].act = "setPassword" /\ req[r].pc = "spend"
        /\ req[r].link \in Links
    BY <1>0, <1>10 DEF Spend, inHand, works, Inv, Typed, TypeOK, Link
  <2>2. req' = [req EXCEPT ![r] = R]
    BY <1>0, <1>10 DEF Spend
  <2> HIDE DEF w
  <2>3. unspentOf(w) \subseteq Links /\ \A l \in unspentOf(w) : inTable(l)
    BY DEF unspentOf, inTable
  <2>4. /\ R.pc = "update" /\ R.act = "setPassword" /\ R.sees = unspentOf(w)
        /\ R.ending = req[r].ending /\ R.open = req[r].open /\ R.link = req[r].link
        /\ R \in Request
    BY <1>0, <2>1, <2>3 DEF Request
  <2> HIDE DEF R
  <2>5. inHand(R) /\ issues(R) /\ ~holds(R)
    BY <1>0, <2>1, <2>3, <2>4 DEF inHand, issues, holds
  <2> QED BY <1>0, <1>10, <2>2, <2>4, <2>5, OnlyTheRequest DEF Spend
<1>11. ASSUME Update(r) PROVE Inv'
  <2> DEFINE link == IF req[r].link \in stillUnspent(r) THEN req[r].link ELSE None
             R == [req[r] EXCEPT !.pc = "commit", !.ending = stillUnspent(r), !.link = link]
  <2>1. /\ req[r].act = "setPassword" /\ req[r].pc = "update"
        /\ link \in Links \cup {None} /\ (link = None \/ link \in stillUnspent(r))
    BY <1>0, <1>11 DEF Update, inHand
  <2>2. req' = [req EXCEPT ![r] = R]
    BY <1>0, <1>11 DEF Update
  <2>3. stillUnspent(r) \subseteq Links /\ \A l \in stillUnspent(r) : inTable(l)
    BY <1>0 DEF stillUnspent, inHand, inTable
  <2> HIDE DEF link
  <2>4. /\ R.pc = "commit" /\ R.act = "setPassword" /\ R.sees = req[r].sees
        /\ R.ending = stillUnspent(r) /\ R.open = req[r].open /\ R.link = link
        /\ R \in Request
    BY <1>0, <2>1, <2>3 DEF Request
  <2> HIDE DEF R
  <2>5. inHand(R) /\ issues(R) /\ ~holds(R)
    BY <1>0, <2>1, <2>3, <2>4 DEF inHand, issues, holds
  <2> QED BY <1>0, <1>11, <2>2, <2>4, <2>5, OnlyTheRequest DEF Update
<1>12. ASSUME TimeOut(r) PROVE Inv'
  <2>1. CASE req[r].pc = "send"
    <3> DEFINE R == [req[r] EXCEPT !.open = FALSE, !.ending = {}]
    <3>1. R \in Request /\ inHand(R) /\ ~holds(R)
      BY <1>0, <2>1 DEF Request, inHand, holds
    <3>2. issues(R)
      BY <1>0, <2>1 DEF Request, issues, holds
    <3>3. req' = [req EXCEPT ![r] = R]
      BY <1>0, <1>12, <2>1 DEF TimeOut
    <3> HIDE DEF R
    <3> QED BY <1>0, <1>12, <3>1, <3>2, <3>3, OnlyTheRequest DEF TimeOut
  <2>2. CASE req[r].pc # "send"
    BY <1>0, <1>12, <2>2, Finishing DEF TimeOut, finish
  <2> QED BY <2>1, <2>2
<1>13. ASSUME HoldBack(r) \/ AddressTaken(r) \/ SendFails(r) \/ DeadLink(r) PROVE Inv'
  BY <1>0, <1>13, Finishing DEF HoldBack, AddressTaken, SendFails, DeadLink
<1> QED BY <1>1, <1>2, <1>3, <1>4, <1>5, <1>6, <1>7, <1>8, <1>9, <1>10, <1>11, <1>12, <1>13

-----------------------------------------------------------------------------
(* Steps that write rows that others see *)

older(l) ==
    /\ links[l] # None
    /\ links'[l].viewer = links[l].viewer
    /\ links[l].spent => links'[l].spent
    /\ links'[l].recent => links[l].recent

(* Rows are spent and grow old, and those that are new are of Viewers for whom
   no other request is issuing a link. *)
LEMMA RowsWritten ==
    ASSUME Inv, NEW W \in SUBSET Viewers,
           links' \in [Links -> {None} \cup Link],
           viewers' \in [Viewers -> {"none", "active", "deactivated"}],
           deactivations' \in 0..MaxDeactivations,
           UNCHANGED inbox,
           req' \in [Requests -> Request],
           \A l \in Links : links[l] # None => links'[l] # None,
           \A l \in Links : links'[l] # None => older(l) \/ links'[l].viewer \in W,
           \A v \in Viewers : viewers[v] # "none" => viewers'[v] # "none",
           \A v \in Viewers \ W : viewers[v] = "none" => viewers'[v] = "none",
           \A v \in W : viewers'[v] # "none",
           \A s \in Requests :
              \/ req'[s] = Idle
              \/ req'[s] = req[s] /\ (holds(req[s]) => req[s].viewer \notin W)
    PROVE  /\ TypeOK' /\ HandsOK' /\ LinksHaveAccounts' /\ IssuersKnow' /\ OneIssuer'
<1>1. TypeOK'
  BY DEF Inv, Typed, TypeOK
<1>2. ASSUME NEW s \in Requests PROVE inHand(req[s])'
  BY <1>2, IdleFacts DEF Inv, Typed, HandsOK, inHand, inTable, Idle
<1>3. LinksHaveAccounts'
  <2>1. ASSUME NEW l \in Links, links'[l] # None PROVE viewers'[links'[l].viewer] # "none"
    <3>1. CASE links'[l].viewer \in W
      BY <3>1
    <3>2. CASE older(l)
      <4>1. links[l] # None /\ links[l].viewer \in Viewers
        BY <3>2 DEF older, Inv, Typed, TypeOK, Link
      <4> QED BY <3>2, <4>1 DEF older, Inv, LinksHaveAccounts
    <3> QED BY <2>1, <3>1, <3>2
  <2> QED BY <2>1 DEF LinksHaveAccounts
<1>4. ASSUME NEW s \in Requests PROVE issues(req[s])'
  <2>1. CASE req'[s] = Idle
    BY <2>1 DEF issues, holds, Idle
  <2>2. CASE req'[s] = req[s] /\ (holds(req[s]) => req[s].viewer \notin W)
    <3> DEFINE v == req[s].viewer
    <3>1. issues(req[s]) /\ inHand(req[s])
      BY DEF Inv, Typed, HandsOK, IssuersKnow
    <3>2. ASSUME holds(req[s])
          PROVE  /\ v \in Viewers \ W
                 /\ unspentOf(v)' \subseteq unspentOf(v)
                 /\ wasIssuedSince(v)' => wasIssuedSince(v)
      <4>1. v \in Viewers \ W
        BY <2>2, <3>1, <3>2 DEF inHand, holds
      <4>2. \A l \in Links : links'[l] # None /\ links'[l].viewer = v => older(l)
        BY <4>1
      <4> QED BY <2>2, <4>1, <4>2 DEF older, unspentOf, wasIssuedSince
    <3>3. (holds(req[s]))' <=> holds(req[s])
      BY <2>2 DEF holds
    <3>4. req[s].pc # "idle" /\ req[s].act = "reset" => viewers'[v] # "none"
      BY <3>1 DEF issues, inHand
    <3>5. holds(req[s]) /\ req[s].act = "create" => viewers'[v] = "none"
      BY <3>1, <3>2 DEF issues
    <3>6. holds(req[s]) /\ req[s].pc \in {"insert", "send", "commit"} =>
             unspentOf(v)' \subseteq req[s].ending
      BY <3>1, <3>2 DEF issues
    <3>7. holds(req[s]) /\ req[s].pc # "check" => ~wasIssuedSince(v)'
      BY <3>1, <3>2 DEF issues
    <3>8. (unspentOf(req[s].viewer))' = unspentOf(v)' /\ (wasIssuedSince(req[s].viewer))' = wasIssuedSince(v)'
      BY <2>2 DEF unspentOf, wasIssuedSince
    <3> QED BY <2>2, <3>3, <3>4, <3>5, <3>6, <3>7, <3>8 DEF issues
  <2> QED BY <2>1, <2>2
<1>5. OneIssuer'
  BY IdleFacts DEF Inv, OneIssuer, holds, Idle
<1> QED BY <1>1, <1>2, <1>3, <1>4, <1>5 DEF HandsOK, IssuersKnow

(* Rows that only age and are spent leave one link at most. *)
LEMMA OlderLinks ==
    ASSUME Inv, \A l \in Links : links'[l] # None => older(l)
    PROVE  OneLinkThatWorks' /\ OneLinkPerWindow'
BY DEF Inv, OneLinkThatWorks, OneLinkPerWindow, older

(* Nothing but time passing over the rows, and Deactivations. *)
LEMMA RowsOlder ==
    ASSUME Inv,
           links' \in [Links -> {None} \cup Link],
           viewers' \in [Viewers -> {"none", "active", "deactivated"}],
           deactivations' \in 0..MaxDeactivations,
           UNCHANGED <<inbox, req>>,
           \A l \in Links : links[l] # None => links'[l] # None,
           \A l \in Links : links'[l] # None => older(l),
           \A v \in Viewers : viewers[v] # "none" <=> viewers'[v] # "none"
    PROVE  Inv'
<1>1. PICK W : W = {}
  OBVIOUS
<1>2. /\ W \in SUBSET Viewers
      /\ \A l \in Links : links'[l] # None => older(l) \/ links'[l].viewer \in W
      /\ \A v \in Viewers \ W : viewers[v] = "none" => viewers'[v] = "none"
      /\ \A v \in W : viewers'[v] # "none"
      /\ \A s \in Requests : req'[s] = req[s] /\ req[s].viewer \notin W
      /\ req' \in [Requests -> Request]
  BY <1>1 DEF Inv, Typed, TypeOK
<1>3. TypeOK' /\ HandsOK' /\ LinksHaveAccounts' /\ IssuersKnow' /\ OneIssuer'
  BY <1>2, RowsWritten
<1> QED BY <1>3, OlderLinks DEF Inv, Typed

(* What a commit makes of the table. *)
LEMMA CommitFacts ==
    ASSUME Inv, NEW r \in Requests, Commit(r), NEW R, R = req[r]
    PROVE  /\ R.act \in {"reset", "create", "setPassword"}
           /\ inHand(R) /\ issues(R) /\ R.pc = "commit"
           /\ R.act # "setPassword" => holds(R) /\ R.viewer \in Viewers /\ R.link \in Links
           /\ \A l \in R.ending : /\ l \in Links
                                  /\ older(l)
                                  /\ links'[l] \in Link
                                  /\ links'[l].spent
           /\ \A l \in Links \ R.ending : l # R.link => links'[l] = links[l]
           /\ R.act # "setPassword" /\ R.link \notin R.ending =>
                 links'[R.link] \in Link /\ links'[R.link].viewer = R.viewer
           /\ R.act = "setPassword" => R.link \notin Links \ R.ending
           /\ req' = [req EXCEPT ![r] = Idle]
           /\ viewers' = IF R.act = "create" THEN [viewers EXCEPT ![R.viewer] = "active"]
                                             ELSE viewers
           /\ UNCHANGED <<inbox, deactivations>>
<1>1. inHand(R) /\ issues(R) /\ R.pc = "commit"
  BY DEF Inv, Typed, HandsOK, IssuersKnow, Commit
<1>2. R.act # "setPassword" => holds(R) /\ R.viewer \in Viewers /\ R.link \in Links
  BY <1>1 DEF inHand, holds
<1>3. links' = [l \in Links |->
         IF l \in R.ending THEN [links[l] EXCEPT !.spent = TRUE]
         ELSE IF l = R.link
         THEN [viewer |-> R.viewer, spent |-> FALSE, expired |-> FALSE, recent |-> TRUE]
         ELSE links[l]]
  BY DEF Commit
<1>4. ASSUME NEW l \in R.ending
      PROVE  l \in Links /\ older(l) /\ links'[l] \in Link /\ links'[l].spent
  <2>1. l \in Links /\ links[l] # None /\ links[l] \in Link
    BY <1>1, <1>4 DEF inHand, inTable, Inv, Typed, TypeOK
  <2>2. links'[l] = [links[l] EXCEPT !.spent = TRUE]
    BY <1>3, <1>4, <2>1
  <2> QED BY <2>1, <2>2 DEF Link, older
<1>5. R.act # "setPassword" /\ R.link \notin R.ending =>
         links'[R.link] \in Link /\ links'[R.link].viewer = R.viewer
  BY <1>2, <1>3 DEF Link
<1>6. R.act = "setPassword" => R.link \notin Links \ R.ending
  BY <1>1, NoneAssumption DEF inHand
<1>7. \A l \in Links \ R.ending : l # R.link => links'[l] = links[l]
  BY <1>3
<1> QED BY <1>1, <1>2, <1>4, <1>5, <1>6, <1>7 DEF Commit, finish, inHand

LEMMA CommitStep ==
    ASSUME Inv, NEW r \in Requests, Commit(r)
    PROVE  Inv'
<1>0. PICK R : R = req[r]
  OBVIOUS
<1> DEFINE W == IF R.act = "setPassword" THEN {} ELSE {R.viewer}
<1>1. /\ inHand(R) /\ issues(R) /\ R.pc = "commit"
      /\ R.act # "setPassword" => holds(R) /\ R.viewer \in Viewers /\ R.link \in Links
      /\ W \in SUBSET Viewers
  BY <1>0, CommitFacts
<1>2. ASSUME NEW l \in Links, links[l] # None PROVE links'[l] # None
  BY <1>0, <1>2, CommitFacts, NoneAssumption
<1>3. ASSUME NEW l \in Links, links'[l] # None
      PROVE  older(l) \/ (l = R.link /\ R.act # "setPassword" /\ links'[l].viewer = R.viewer)
  <2>1. CASE l \in R.ending
    BY <1>0, <2>1, CommitFacts
  <2>2. CASE l \notin R.ending /\ l = R.link
    BY <1>0, <2>2, CommitFacts
  <2>3. CASE l \notin R.ending /\ l # R.link
    BY <1>0, <1>3, <2>3, CommitFacts DEF older
  <2> QED BY <2>1, <2>2, <2>3
<1>4. links' \in [Links -> {None} \cup Link]
  <2>1. \A l \in Links : links'[l] \in {None} \cup Link
    BY <1>0, CommitFacts DEF Inv, Typed, TypeOK
  <2>2. links' = [l \in Links |-> links'[l]]
    BY DEF Commit
  <2> QED BY <2>1, <2>2
<1>5. \A s \in Requests :
         \/ req'[s] = Idle
         \/ req'[s] = req[s] /\ (holds(req[s]) => req[s].viewer \notin W)
  BY <1>0, <1>1, CommitFacts DEF Inv, Typed, TypeOK, OneIssuer
<1>6. /\ req' \in [Requests -> Request]
      /\ viewers' \in [Viewers -> {"none", "active", "deactivated"}]
      /\ UNCHANGED inbox
      /\ deactivations' \in 0..MaxDeactivations
  BY <1>0, <1>1, CommitFacts, IdleFacts DEF Inv, Typed, TypeOK
<1>7. /\ \A v \in Viewers : viewers[v] # "none" => viewers'[v] # "none"
      /\ \A v \in Viewers \ W : viewers[v] = "none" => viewers'[v] = "none"
      /\ \A v \in W : viewers'[v] # "none"
  BY <1>0, <1>1, CommitFacts DEF Inv, Typed, TypeOK, issues
<1>8. \A l \in Links : links'[l] # None => older(l) \/ links'[l].viewer \in W
  BY <1>3
<1>9. TypeOK' /\ HandsOK' /\ LinksHaveAccounts' /\ IssuersKnow' /\ OneIssuer'
  <2> HIDE DEF W
  <2> QED BY <1>1, <1>2, <1>4, <1>5, <1>6, <1>7, <1>8, RowsWritten
<1>10. CASE R.act = "setPassword"
  <2>1. \A l \in Links : links'[l] # None => older(l)
    BY <1>3, <1>10
  <2> QED BY <1>9, <2>1, OlderLinks DEF Inv, Typed
<1>11. CASE R.act # "setPassword"
  <2>1. unspentOf(R.viewer) \subseteq R.ending /\ ~wasIssuedSince(R.viewer)
    BY <1>1, <1>11 DEF issues
  <2>2. ASSUME NEW l \in Links, l # R.link, links'[l] # None, links'[l].viewer = R.viewer
        PROVE  links'[l].spent /\ ~links'[l].recent
    <3>1. older(l)
      BY <1>3, <2>2
    <3>2. ~links'[l].recent
      BY <2>1, <2>2, <3>1 DEF older, wasIssuedSince
    <3>3. links[l].spent \/ l \in R.ending
      BY <2>1, <2>2, <3>1 DEF older, unspentOf
    <3> QED BY <1>0, <3>1, <3>2, <3>3, CommitFacts DEF older
  <2>3. ASSUME NEW k \in Links, NEW l \in Links, k # l, links'[k] # None, links'[l] # None,
               links'[k].viewer = links'[l].viewer
        PROVE  /\ links'[k].spent \/ links'[l].spent
               /\ ~links'[k].recent \/ ~links'[l].recent
    <3>1. CASE older(k) /\ older(l)
      BY <2>3, <3>1 DEF older, Inv, OneLinkThatWorks, OneLinkPerWindow
    <3>2. CASE ~older(k)
      BY <1>3, <2>2, <2>3, <3>2
    <3>3. CASE ~older(l)
      BY <1>3, <2>2, <2>3, <3>3
    <3> QED BY <3>1, <3>2, <3>3
  <2>4. OneLinkThatWorks' /\ OneLinkPerWindow'
    BY <2>3 DEF OneLinkThatWorks, OneLinkPerWindow
  <2> QED BY <1>9, <2>4 DEF Inv, Typed
<1> QED BY <1>10, <1>11

(* A step that is no request's. *)
LEMMA StepAround ==
    ASSUME Inv,
           \/ \E v \in Viewers : Deactivate(v) \/ Reactivate(v)
           \/ \E l \in Links : WindowPasses(l) \/ Expire(l)
    PROVE  Inv'
<1>1. ASSUME NEW v \in Viewers, Deactivate(v) \/ Reactivate(v) PROVE Inv'
  <2>1. \A l \in Links : links'[l] # None => older(l)
    BY <1>1 DEF Deactivate, Reactivate, older
  <2>2. /\ viewers' \in [Viewers -> {"none", "active", "deactivated"}]
        /\ \A w \in Viewers : viewers[w] # "none" <=> viewers'[w] # "none"
        /\ deactivations' \in 0..MaxDeactivations
    BY <1>1, MaxDeactivationsAssumption DEF Deactivate, Reactivate, Inv, Typed, TypeOK
  <2>3. UNCHANGED <<links, inbox, req>>
    BY <1>1 DEF Deactivate, Reactivate
  <2>4. links' \in [Links -> {None} \cup Link]
    BY <2>3 DEF Inv, Typed, TypeOK
  <2> QED BY <2>1, <2>2, <2>3, <2>4, RowsOlder
<1>2. ASSUME NEW l \in Links, NEW link \in Link, links[l] # None,
             links' = [links EXCEPT ![l] = link],
             link.viewer = links[l].viewer, link.spent = links[l].spent,
             link.recent => links[l].recent,
             UNCHANGED <<viewers, inbox, deactivations, req>>
      PROVE  Inv'
  <2>1. /\ links' \in [Links -> {None} \cup Link]
        /\ links'[l] = link
        /\ \A k \in Links \ {l} : links'[k] = links[k]
    BY <1>2 DEF Inv, Typed, TypeOK
  <2>2. \A k \in Links : links'[k] # None => older(k)
    BY <1>2, <2>1 DEF older
  <2>3. \A k \in Links : links[k] # None => links'[k] # None
    BY <2>1, NoneAssumption
  <2>4. /\ viewers' \in [Viewers -> {"none", "active", "deactivated"}]
        /\ deactivations' \in 0..MaxDeactivations
    BY <1>2 DEF Inv, Typed, TypeOK
  <2> QED BY <1>2, <2>1, <2>2, <2>3, <2>4, RowsOlder
<1>3. ASSUME NEW l \in Links, WindowPasses(l) \/ Expire(l) PROVE Inv'
  <2> DEFINE aged == [links[l] EXCEPT !.recent = FALSE]
             dead == [links[l] EXCEPT !.expired = TRUE]
  <2>1. links[l] # None /\ links[l] \in Link
    BY <1>3 DEF WindowPasses, Expire, Inv, Typed, TypeOK
  <2>2. /\ aged \in Link /\ aged.viewer = links[l].viewer /\ aged.spent = links[l].spent
        /\ ~aged.recent
        /\ dead \in Link /\ dead.viewer = links[l].viewer /\ dead.spent = links[l].spent
        /\ dead.recent = links[l].recent
    BY <2>1 DEF Link
  <2>3. /\ links' = [links EXCEPT ![l] = aged] \/ links' = [links EXCEPT ![l] = dead]
        /\ UNCHANGED <<viewers, inbox, deactivations, req>>
    BY <1>3 DEF WindowPasses, Expire
  <2> HIDE DEF aged, dead
  <2> QED BY <1>2, <2>1, <2>2, <2>3
<1> QED BY <1>1, <1>3

LEMMA InvStep == Inv /\ [Next]_vars => Inv'
<1> SUFFICES ASSUME Inv, [Next]_vars PROVE Inv'
  OBVIOUS
<1>1. CASE UNCHANGED vars
  BY <1>1 DEF vars, Inv, Typed, TypeOK, HandsOK, inHand, inTable, LinksHaveAccounts,
              IssuersKnow, issues, holds, unspentOf, wasIssuedSince, OneIssuer,
              OneLinkThatWorks, OneLinkPerWindow
<1>2. CASE Next
  BY <1>2, StepOfOne, CommitStep, StepAround DEF Next, Step
<1> QED BY <1>1, <1>2

(* Every variable keeps its type, and every request has in hand what its next
   statement needs. *)
THEOREM TypeCorrect == Spec => [](TypeOK /\ HandsOK)
<1>1. Inv => TypeOK /\ HandsOK
  BY DEF Inv, Typed
<1> QED BY <1>1, InvInit, InvStep, PTL DEF Spec

(* A Viewer has at most one link that has not been used or replaced, however
   many resets, creations and new passwords are in flight, and whichever of
   them run out of time. *)
THEOREM OneLink == Spec => []OneLinkThatWorks
<1>1. Inv => OneLinkThatWorks
  BY DEF Inv
<1> QED BY <1>1, InvInit, InvStep, PTL DEF Spec

(* No two links of a Viewer are issued within one window: the advisory lock
   keeps the check and the insert of one reset from those of another. *)
THEOREM OneLinkAWindow == Spec => []OneLinkPerWindow
<1>1. Inv => OneLinkPerWindow
  BY DEF Inv
<1> QED BY <1>1, InvInit, InvStep, PTL DEF Spec

-----------------------------------------------------------------------------
(* Mails, and the rows a transaction holds *)

issuing(R) == R.act \in {"reset", "create"} /\ R.pc \in {"send", "commit"}

(* A link that is being issued is in no table yet, and was mailed before its
   transaction commits. *)
mailsFirst(R) ==
    issuing(R) => links[R.link] = None /\ (R.pc = "commit" => R.link \in inbox)

(* The rows a transaction has spent are unspent to everybody else; one that
   sets a password spends its own link and no other. *)
spendsOwn(R) ==
    /\ \A l \in R.ending : /\ ~links[l].spent
                           /\ R.act # "setPassword" => links[l].viewer = R.viewer
    /\ R.act = "setPassword" /\ R.pc = "update" => R.sees \subseteq {R.link}
    /\ R.act = "setPassword" /\ R.pc = "commit" => R.ending \subseteq {R.link}

TransactionsOK == \A r \in Requests : mailsFirst(req[r]) /\ spendsOwn(req[r])

LinksApart ==
    \A r, s \in Requests :
       issuing(req[r]) /\ issuing(req[s]) /\ req[r].link = req[s].link => r = s

RowsApart ==
    \A r, s \in Requests : r # s => req[r].ending \cap req[s].ending = {}

MailInv ==
    /\ TransactionsOK
    /\ LinksApart
    /\ RowsApart
    /\ EveryNewViewerWasMailed

(* A step of one request that writes no row, and takes no link from the inbox. *)
LEMMA TransactionOfOne ==
    ASSUME Inv, MailInv, NEW r \in Requests, NEW R,
           req' = [req EXCEPT ![r] = R], UNCHANGED <<viewers, links>>,
           inbox \subseteq inbox',
           issuing(R) => links[R.link] = None /\ (R.pc = "commit" => R.link \in inbox'),
           spendsOwn(R),
           issuing(R) => \A s \in Requests \ {r} : issuing(req[s]) => req[s].link # R.link,
           \A s \in Requests \ {r} : req[s].ending \cap R.ending = {}
    PROVE  MailInv'
<1>1. req'[r] = R /\ \A s \in Requests \ {r} : req'[s] = req[s]
  BY DEF Inv, Typed, TypeOK
<1>2. ASSUME NEW s \in Requests PROVE (mailsFirst(req[s]) /\ spendsOwn(req[s]))'
  <2>1. CASE s = r
    BY <1>1, <2>1 DEF mailsFirst, issuing, spendsOwn
  <2>2. CASE s # r
    BY <1>1, <2>2 DEF MailInv, TransactionsOK, mailsFirst, issuing, spendsOwn
  <2> QED BY <2>1, <2>2
<1>3. LinksApart'
  BY <1>1 DEF MailInv, LinksApart, issuing
<1>4. RowsApart'
  BY <1>1 DEF MailInv, RowsApart
<1>5. EveryNewViewerWasMailed'
  BY DEF MailInv, EveryNewViewerWasMailed
<1> QED BY <1>2, <1>3, <1>4, <1>5 DEF MailInv, TransactionsOK

(* The same of a step after which the request holds no row and issues nothing. *)
LEMMA TransactionEnds ==
    ASSUME Inv, MailInv, NEW r \in Requests, NEW R,
           req' = [req EXCEPT ![r] = R], UNCHANGED <<viewers, links>>,
           inbox \subseteq inbox', ~issuing(R), R.ending = {},
           R.act = "setPassword" /\ R.pc = "update" => R.sees \subseteq {R.link}
    PROVE  MailInv'
<1>1. spendsOwn(R)
  BY DEF spendsOwn
<1> QED BY <1>1, TransactionOfOne

LEMMA TransactionStep ==
    ASSUME Inv, MailInv, NEW r \in Requests,
           \/ \E v \in Viewers : AskReset(r, v) \/ CreateViewer(r, v)
           \/ \E l \in Links : SetPassword(r, l) \/ InsertLink(r, l)
           \/ LockResets(r) \/ HoldBack(r) \/ GoAhead(r) \/ InsertViewer(r)
           \/ AddressTaken(r) \/ EndUnused(r) \/ Send(r) \/ SendFails(r)
           \/ Spend(r) \/ DeadLink(r) \/ Update(r) \/ TimeOut(r)
    PROVE  MailInv'
<1>0. /\ req[r] \in Request /\ inHand(req[r])
      /\ req \in [Requests -> Request]
      /\ mailsFirst(req[r]) /\ spendsOwn(req[r])
      /\ \A s \in Requests \ {r} : req[s].ending \cap req[r].ending = {}
      /\ issuing(req[r]) =>
            \A s \in Requests \ {r} : issuing(req[s]) => req[s].link # req[r].link
  BY DEF Inv, Typed, TypeOK, HandsOK, MailInv, TransactionsOK, RowsApart, LinksApart
<1>a. ~issuing(Idle) /\ Idle.ending = {} /\ Idle.act = None
  BY DEF Idle, issuing
<1>1. ASSUME NEW v \in Viewers, AskReset(r, v) \/ CreateViewer(r, v) PROVE MailInv'
  <2> DEFINE A == [Idle EXCEPT !.pc = "lock", !.act = "reset", !.viewer = v]
             C == [Idle EXCEPT !.pc = "insertViewer", !.act = "create", !.viewer = v]
  <2>1. /\ ~issuing(A) /\ A.ending = {} /\ A.act = "reset"
        /\ ~issuing(C) /\ C.ending = {} /\ C.act = "create"
    BY DEF Idle, issuing
  <2>2. /\ req' = [req EXCEPT ![r] = A] \/ req' = [req EXCEPT ![r] = C]
        /\ UNCHANGED <<viewers, links, inbox>>
    BY <1>1 DEF AskReset, CreateViewer
  <2> HIDE DEF A, C
  <2> QED BY <2>1, <2>2, TransactionEnds
<1>2. ASSUME NEW l \in Links, SetPassword(r, l) PROVE MailInv'
  <2> DEFINE R == [Idle EXCEPT !.pc = "spend", !.act = "setPassword", !.link = l]
  <2>1. ~issuing(R) /\ R.ending = {} /\ R.pc = "spend"
    BY DEF Idle, issuing
  <2>2. req' = [req EXCEPT ![r] = R] /\ UNCHANGED <<viewers, links, inbox>>
    BY <1>2 DEF SetPassword
  <2> HIDE DEF R
  <2> QED BY <2>1, <2>2, TransactionEnds
<1>3. ASSUME NEW l \in Links, InsertLink(r, l) PROVE MailInv'
  <2> DEFINE R == [req[r] EXCEPT !.pc = "send", !.link = l]
  <2>1. R.ending = req[r].ending /\ R.act = req[r].act /\ R.link = l /\ R.pc = "send"
        /\ R.viewer = req[r].viewer
    BY <1>0 DEF Request
  <2>2. req' = [req EXCEPT ![r] = R] /\ UNCHANGED <<viewers, links, inbox>>
    BY <1>0, <1>3 DEF InsertLink
  <2>3. links[l] = None /\ \A s \in Requests : req[s].link # l
    BY <1>3 DEF InsertLink, isFresh
  <2> HIDE DEF R
  <2>4. spendsOwn(R)
    BY <1>0, <2>1 DEF spendsOwn
  <2> QED BY <1>0, <2>1, <2>2, <2>3, <2>4, TransactionOfOne
<1>4. ASSUME NEW p \in {"check", "issue"}, req' = [req EXCEPT ![r].pc = p],
             req[r].act \in {"reset", "create"}, UNCHANGED <<viewers, links, inbox>>
      PROVE  MailInv'
  <2> DEFINE R == [req[r] EXCEPT !.pc = p]
  <2>1. R.ending = req[r].ending /\ R.act = req[r].act /\ R.viewer = req[r].viewer /\ R.pc = p
    BY <1>0 DEF Request
  <2>2. req' = [req EXCEPT ![r] = R]
    BY <1>0, <1>4
  <2> HIDE DEF R
  <2>3. spendsOwn(R) /\ ~issuing(R)
    BY <1>0, <1>4, <2>1 DEF spendsOwn, issuing
  <2> QED BY <1>0, <1>4, <2>1, <2>2, <2>3, TransactionOfOne
<1>5. ASSUME LockResets(r) \/ GoAhead(r) \/ InsertViewer(r) PROVE MailInv'
  <2>1. req[r].act \in {"reset", "create"}
    BY <1>0, <1>5 DEF inHand, LockResets, GoAhead, InsertViewer
  <2> QED BY <1>4, <1>5, <2>1 DEF LockResets, GoAhead, InsertViewer
<1>6. ASSUME EndUnused(r) PROVE MailInv'
  <2> DEFINE found == unspentOf(req[r].viewer)
             R == [req[r] EXCEPT !.pc = "insert", !.ending = found]
  <2>1. /\ R.ending = found /\ R.act = req[r].act /\ R.viewer = req[r].viewer
        /\ R.pc = "insert"
    BY <1>0 DEF Request
  <2>2. /\ req' = [req EXCEPT ![r] = R] /\ UNCHANGED <<viewers, links, inbox>>
        /\ \A s \in Requests \ {r} : req[s].ending \cap found = {}
    BY <1>0, <1>6 DEF EndUnused, rowsLocked
  <2>3. \A l \in found : ~links[l].spent /\ links[l].viewer = req[r].viewer
    BY DEF unspentOf
  <2> HIDE DEF R, found
  <2>4. spendsOwn(R) /\ ~issuing(R)
    BY <2>1, <2>3 DEF spendsOwn, issuing
  <2> QED BY <2>1, <2>2, <2>4, TransactionOfOne
<1>7. ASSUME Send(r) PROVE MailInv'
  <2>1. /\ req[r].act \in {"reset", "create"} /\ req[r].pc = "send"
        /\ UNCHANGED <<viewers, links>> /\ inbox' = inbox \cup {req[r].link}
    BY <1>0, <1>7 DEF Send, inHand
  <2>2. CASE req[r].open
    <3> DEFINE R == [req[r] EXCEPT !.pc = "commit"]
    <3>1. /\ R.ending = req[r].ending /\ R.act = req[r].act /\ R.viewer = req[r].viewer
          /\ R.pc = "commit" /\ R.link = req[r].link
      BY <1>0 DEF Request
    <3>2. req' = [req EXCEPT ![r] = R]
      BY <1>0, <1>7, <2>2 DEF Send
    <3> HIDE DEF R
    <3>3. spendsOwn(R) /\ issuing(req[r]) /\ links[R.link] = None
      BY <1>0, <2>1, <3>1 DEF spendsOwn, issuing, mailsFirst
    <3> QED BY <1>0, <2>1, <3>1, <3>2, <3>3, TransactionOfOne
  <2>3. CASE ~req[r].open
    BY <1>a, <1>7, <2>1, <2>3, TransactionEnds, NoneAssumption DEF Send, Idle
  <2> QED BY <2>2, <2>3
<1>8. ASSUME Spend(r) PROVE MailInv'
  <2> DEFINE link == req[r].link
             w == links[link].viewer
             R == [req[r] EXCEPT !.pc = "update", !.viewer = w, !.sees = unspentOf(w)]
  <2>1. /\ req[r].act = "setPassword" /\ link \in Links /\ link \in unspentOf(w)
    BY <1>0, <1>8 DEF Spend, inHand, works, unspentOf
  <2>2. unspentOf(w) \subseteq {link}
    BY <2>1 DEF Inv, OneLinkThatWorks, unspentOf
  <2>3. req' = [req EXCEPT ![r] = R] /\ UNCHANGED <<viewers, links, inbox>>
    BY <1>0, <1>8 DEF Spend
  <2>4. /\ R.ending = req[r].ending /\ R.act = req[r].act /\ R.pc = "update"
        /\ R.sees = unspentOf(w) /\ R.link = link
    BY <1>0 DEF Request
  <2> HIDE DEF R, w
  <2>5. spendsOwn(R) /\ ~issuing(R)
    BY <1>0, <2>1, <2>2, <2>4 DEF spendsOwn, issuing
  <2> QED BY <1>0, <2>3, <2>4, <2>5, TransactionOfOne
<1>9. ASSUME Update(r) PROVE MailInv'
  <2> DEFINE link == IF req[r].link \in stillUnspent(r) THEN req[r].link ELSE None
             R == [req[r] EXCEPT !.pc = "commit", !.ending = stillUnspent(r), !.link = link]
  <2>1. /\ req[r].act = "setPassword" /\ req[r].sees \subseteq {req[r].link}
    BY <1>0, <1>9 DEF Update, inHand, spendsOwn
  <2>2. /\ stillUnspent(r) \subseteq {link}
        /\ \A l \in stillUnspent(r) : ~links[l].spent
    BY <2>1 DEF stillUnspent
  <2>3. /\ req' = [req EXCEPT ![r] = R] /\ UNCHANGED <<viewers, links, inbox>>
        /\ \A s \in Requests \ {r} : req[s].ending \cap req[r].sees = {}
    BY <1>0, <1>9 DEF Update, rowsLocked
  <2>4. /\ R.ending = stillUnspent(r) /\ R.act = req[r].act /\ R.pc = "commit"
        /\ R.link = link
    BY <1>0 DEF Request
  <2> HIDE DEF R, link
  <2>5. spendsOwn(R) /\ ~issuing(R)
    BY <2>1, <2>2, <2>4 DEF spendsOwn, issuing
  <2>6. \A s \in Requests \ {r} : req[s].ending \cap R.ending = {}
    BY <2>3, <2>4 DEF stillUnspent
  <2> QED BY <2>3, <2>5, <2>6, TransactionOfOne
<1>10. ASSUME TimeOut(r) PROVE MailInv'
  <2>1. UNCHANGED <<viewers, links, inbox>>
    BY <1>10 DEF TimeOut
  <2>2. CASE req[r].pc = "send"
    <3> DEFINE R == [req[r] EXCEPT !.open = FALSE, !.ending = {}]
    <3>1. /\ R.ending = {} /\ R.act = req[r].act /\ R.pc = "send" /\ R.link = req[r].link
      BY <1>0, <2>2 DEF Request
    <3>2. req' = [req EXCEPT ![r] = R]
      BY <1>0, <1>10, <2>2 DEF TimeOut
    <3> HIDE DEF R
    <3>3. spendsOwn(R) /\ (issuing(R) => issuing(req[r]) /\ links[R.link] = None)
      BY <1>0, <2>2, <3>1 DEF spendsOwn, issuing, mailsFirst
    <3> QED BY <1>0, <2>1, <3>1, <3>2, <3>3, TransactionOfOne
  <2>3. CASE req[r].pc # "send"
    BY <1>a, <1>10, <2>1, <2>3, TransactionEnds DEF TimeOut, Idle
  <2> QED BY <2>2, <2>3
<1>11. ASSUME HoldBack(r) \/ AddressTaken(r) \/ SendFails(r) \/ DeadLink(r) PROVE MailInv'
  <2>1. req' = [req EXCEPT ![r] = Idle] /\ UNCHANGED <<viewers, links, inbox>>
    BY <1>11 DEF HoldBack, AddressTaken, SendFails, DeadLink, finish
  <2> QED BY <1>a, <2>1, TransactionEnds DEF Idle
<1> QED BY <1>1, <1>2, <1>3, <1>5, <1>6, <1>7, <1>8, <1>9, <1>10, <1>11

(* What a commit writes: the rows it holds are spent, and the link it issued
   is in the table. *)
LEMMA CommitWrites ==
    ASSUME Inv, MailInv, NEW r \in Requests, Commit(r), NEW l \in Links
    PROVE  /\ l \in req[r].ending =>
                 /\ links[l] # None /\ ~links[l].spent
                 /\ links'[l] \in Link /\ links'[l].viewer = links[l].viewer
           /\ issuing(req[r]) /\ l = req[r].link =>
                 /\ links[l] = None /\ l \in inbox
                 /\ links'[l] \in Link /\ links'[l].viewer = req[r].viewer
           /\ l \notin req[r].ending /\ ~(issuing(req[r]) /\ l = req[r].link) =>
                 links'[l] = links[l]
           /\ req[r].act = "setPassword" <=> ~issuing(req[r])
<1>1. /\ mailsFirst(req[r]) /\ spendsOwn(req[r]) /\ req[r].pc = "commit"
      /\ req[r].act = "setPassword" <=> ~issuing(req[r])
  BY CommitFacts DEF MailInv, TransactionsOK, issuing
<1>2. l \in req[r].ending => links[l] # None
  BY CommitFacts DEF inHand, inTable
<1>3. issuing(req[r]) => links[req[r].link] = None
  BY <1>1 DEF mailsFirst
<1>4. issuing(req[r]) => req[r].link \notin req[r].ending
  BY <1>3, CommitFacts DEF inHand, inTable
<1>5. l \in req[r].ending =>
         links'[l] \in Link /\ links'[l].viewer = links[l].viewer /\ ~links[l].spent
  BY <1>1, CommitFacts DEF older, spendsOwn
<1>6. issuing(req[r]) /\ l = req[r].link =>
         l \in inbox /\ links'[l] \in Link /\ links'[l].viewer = req[r].viewer
  BY <1>1, <1>4, CommitFacts DEF mailsFirst
<1> QED BY <1>1, <1>2, <1>3, <1>5, <1>6, CommitFacts

LEMMA CommitMails ==
    ASSUME Inv, MailInv, NEW r \in Requests, Commit(r)
    PROVE  MailInv'
<1>1. /\ req'[r] = Idle /\ \A s \in Requests \ {r} : req'[s] = req[s]
      /\ inbox' = inbox
  BY CommitFacts DEF Inv, Typed, TypeOK
<1>2. ASSUME NEW s \in Requests PROVE (mailsFirst(req[s]) /\ spendsOwn(req[s]))'
  <2>1. CASE s = r
    BY <1>1, <2>1, NoneAssumption DEF Idle, mailsFirst, issuing, spendsOwn
  <2>2. CASE s # r
    <3>1. mailsFirst(req[s]) /\ spendsOwn(req[s]) /\ inHand(req[s]) /\ req'[s] = req[s]
      BY <1>1, <2>2 DEF MailInv, TransactionsOK, Inv, Typed, HandsOK
    <3>2. issuing(req[s]) => links'[req[s].link] = None
      <4>1. SUFFICES ASSUME issuing(req[s]) PROVE links'[req[s].link] = None
        OBVIOUS
      <4>2. req[s].link \in Links /\ links[req[s].link] = None
        BY <3>1, <4>1 DEF mailsFirst, inHand, issuing
      <4>3. ~(issuing(req[r]) /\ req[s].link = req[r].link)
        BY <2>2, <4>1 DEF MailInv, LinksApart
      <4> QED BY <4>2, <4>3, CommitWrites
    <3>3. ASSUME NEW l \in req[s].ending PROVE links'[l] = links[l]
      <4>1. l \in Links /\ links[l] # None /\ l \notin req[r].ending
        BY <2>2, <3>1 DEF inHand, inTable, MailInv, RowsApart
      <4> QED BY <4>1, CommitWrites
    <3> QED BY <1>1, <3>1, <3>2, <3>3 DEF mailsFirst, spendsOwn, issuing
  <2> QED BY <2>1, <2>2
<1>3. LinksApart' /\ RowsApart'
  BY <1>1, NoneAssumption DEF MailInv, LinksApart, RowsApart, issuing, Idle
<1>4. ASSUME NEW l \in Links, links'[l] # None PROVE l \in inbox
  BY <1>4, CommitWrites DEF MailInv, EveryNewViewerWasMailed
<1>5. ASSUME NEW l \in Links, links[l] # None
      PROVE  links'[l] # None /\ links'[l].viewer = links[l].viewer
  BY <1>5, CommitWrites, NoneAssumption
<1>6. ASSUME NEW v \in Viewers \ Members, viewers'[v] # "none"
      PROVE  \E l \in inbox : links'[l] # None /\ links'[l].viewer = v
  <2>1. CASE viewers[v] # "none"
    <3>1. PICK l \in inbox : links[l] # None /\ links[l].viewer = v
      BY <2>1 DEF MailInv, EveryNewViewerWasMailed
    <3> QED BY <1>5, <3>1 DEF Inv, Typed, TypeOK
  <2>2. CASE viewers[v] = "none"
    <3>1. req[r].act = "create" /\ req[r].viewer = v /\ req[r].link \in Links
      BY <1>6, <2>2, CommitFacts DEF Inv, Typed, TypeOK
    <3>2. issuing(req[r])
      BY <3>1, CommitFacts DEF issuing
    <3> QED BY <3>1, <3>2, CommitWrites, NoneAssumption
  <2> QED BY <2>1, <2>2
<1>7. EveryNewViewerWasMailed'
  BY <1>1, <1>4, <1>6 DEF EveryNewViewerWasMailed
<1> QED BY <1>2, <1>3, <1>7 DEF MailInv, TransactionsOK

LEMMA MailsAround ==
    ASSUME Inv, MailInv, UNCHANGED <<inbox, req>>,
           \A l \in Links : links[l] = None <=> links'[l] = None,
           \A l \in Links : links[l] # None => /\ links'[l].viewer = links[l].viewer
                                               /\ links'[l].spent = links[l].spent,
           \A v \in Viewers : viewers[v] = "none" <=> viewers'[v] = "none"
    PROVE  MailInv'
<1>1. ASSUME NEW s \in Requests PROVE (mailsFirst(req[s]) /\ spendsOwn(req[s]))'
  <2>1. mailsFirst(req[s]) /\ spendsOwn(req[s]) /\ inHand(req[s])
    BY DEF MailInv, TransactionsOK, Inv, Typed, HandsOK
  <2>2. issuing(req[s]) => req[s].link \in Links
    BY <2>1 DEF issuing, inHand
  <2>3. \A l \in req[s].ending : l \in Links /\ links[l] # None
    BY <2>1 DEF inHand, inTable
  <2>4. \A l \in req[s].ending :
           links'[l].viewer = links[l].viewer /\ links'[l].spent = links[l].spent
    BY <2>3
  <2>5. issuing(req[s]) => links'[req[s].link] = None
    BY <2>1, <2>2 DEF mailsFirst
  <2> QED BY <2>1, <2>4, <2>5 DEF mailsFirst, spendsOwn, issuing
<1>2. LinksApart' /\ RowsApart'
  BY DEF MailInv, LinksApart, RowsApart, issuing
<1>3. EveryNewViewerWasMailed'
  BY DEF MailInv, EveryNewViewerWasMailed, Inv, Typed, TypeOK
<1> QED BY <1>1, <1>2, <1>3 DEF MailInv, TransactionsOK

LEMMA MailInvInit == Init => MailInv
BY NoneAssumption DEF Init, MailInv, TransactionsOK, LinksApart, RowsApart, mailsFirst,
   spendsOwn, issuing, Idle, EveryNewViewerWasMailed

LEMMA MailInvStep == Inv /\ MailInv /\ [Next]_vars => MailInv'
<1> SUFFICES ASSUME Inv, MailInv, [Next]_vars PROVE MailInv'
  OBVIOUS
<1>1. CASE UNCHANGED vars
  BY <1>1, MailsAround DEF vars
<1>2. ASSUME NEW v \in Viewers, Deactivate(v) \/ Reactivate(v) PROVE MailInv'
  BY <1>2, MailsAround DEF Deactivate, Reactivate, Inv, Typed, TypeOK
<1>3. ASSUME NEW l \in Links, WindowPasses(l) \/ Expire(l) PROVE MailInv'
  <2>1. links[l] \in Link /\ links[l] # None /\ links \in [Links -> {None} \cup Link]
    BY <1>3 DEF WindowPasses, Expire, Inv, Typed, TypeOK
  <2>2. /\ links'[l] \in Link /\ links'[l].viewer = links[l].viewer
        /\ links'[l].spent = links[l].spent
        /\ \A k \in Links \ {l} : links'[k] = links[k]
    BY <1>3, <2>1 DEF WindowPasses, Expire, Link
  <2>3. UNCHANGED <<viewers, inbox, req>>
    BY <1>3 DEF WindowPasses, Expire
  <2> QED BY <2>1, <2>2, <2>3, MailsAround, NoneAssumption
<1>4. CASE Next
  BY <1>2, <1>3, <1>4, TransactionStep, CommitMails DEF Next, Step
<1> QED BY <1>1, <1>4

LEMMA Invariance == Spec => [](Inv /\ MailInv)
<1>1. Init => Inv /\ MailInv
  BY InvInit, MailInvInit
<1>2. (Inv /\ MailInv) /\ [Next]_vars => (Inv /\ MailInv)'
  BY InvStep, MailInvStep
<1> QED BY <1>1, <1>2, PTL DEF Spec

(* Every link in the table was mailed, and every Viewer who was created was
   mailed one of theirs: the mail goes before the commit, and no transaction
   writes the link that another is about to. *)
THEOREM NewViewersAreMailed == Spec => []EveryNewViewerWasMailed
<1>1. Inv /\ MailInv => EveryNewViewerWasMailed
  BY DEF MailInv
<1> QED BY <1>1, Invariance, PTL

(* A commit that sets a password finds its link unspent: the rows it holds are
   spent by nobody else, and it holds the link it was given. *)
THEOREM UnspentLinksSetPasswords == Spec => OnlyAnUnspentLinkSetsAPassword
<1>1. ASSUME Inv, MailInv, NEW r \in Requests, setsPassword(r)
      PROVE  ~links[req[r].link].spent
  <2>1. req[r].link \in req[r].ending /\ spendsOwn(req[r])
    BY <1>1, CommitFacts DEF setsPassword, inHand, MailInv, TransactionsOK
  <2> QED BY <2>1 DEF spendsOwn
<1>2. Inv /\ MailInv /\ [Next]_vars =>
         [\A r \in Requests : setsPassword(r) => ~links[req[r].link].spent]_vars
  BY <1>1
<1> QED BY <1>2, Invariance, PTL DEF Spec, OnlyAnUnspentLinkSetsAPassword

(* A commit is the one step that spends a link, and what it spends is the link
   that sets its password or those of the Viewer it has mailed another. *)
THEOREM LinksEndForAReason == Spec => ALinkEndsForAReason
<1> DEFINE Reason(l) ==
       \/ \E r \in Requests : setsPassword(r) /\ req[r].link = l
       \/ \E k \in inbox : /\ links[k] = None
                           /\ links'[k] # None
                           /\ links'[k].viewer = links[l].viewer
<1>1. ASSUME Inv, MailInv, NEW r \in Requests, Commit(r), NEW l \in Links,
             links[l] # None, ~links[l].spent, links'[l].spent
      PROVE  Reason(l)
  <2>1. l \in req[r].ending /\ spendsOwn(req[r]) /\ req[r].pc = "commit"
    BY <1>1, CommitWrites, CommitFacts DEF MailInv, TransactionsOK
  <2>2. CASE req[r].act = "setPassword"
    <3>1. l = req[r].link /\ l # None
      BY <2>1, <2>2, NoneAssumption DEF spendsOwn
    <3> QED BY <1>1, <2>2, <3>1 DEF setsPassword
  <2>3. CASE req[r].act # "setPassword"
    <3>1. /\ issuing(req[r]) /\ req[r].link \in Links
          /\ links[l].viewer = req[r].viewer
      BY <1>1, <2>1, <2>3, CommitWrites, CommitFacts DEF spendsOwn
    <3>2. /\ req[r].link \in inbox /\ links[req[r].link] = None
          /\ links'[req[r].link] # None /\ links'[req[r].link].viewer = links[l].viewer
      BY <1>1, <3>1, CommitWrites, NoneAssumption
    <3> QED BY <3>2
  <2> QED BY <2>2, <2>3
<1>2. ASSUME Inv, [Next]_vars, NEW l \in Links, links[l] # None, ~links[l].spent,
             links'[l].spent
      PROVE  \E r \in Requests : Commit(r)
  <2>1. ~UNCHANGED links
    BY <1>2
  <2>2. ASSUME NEW k \in Links, WindowPasses(k) \/ Expire(k) PROVE FALSE
    <3>1. links[k] \in Link /\ links \in [Links -> {None} \cup Link]
      BY <1>2, <2>2 DEF WindowPasses, Expire, Inv, Typed, TypeOK
    <3>2. links'[k].spent = links[k].spent /\ \A j \in Links \ {k} : links'[j] = links[j]
      BY <2>2, <3>1 DEF WindowPasses, Expire, Link
    <3> QED BY <1>2, <3>2
  <2> QED BY <1>2, <2>1, <2>2
          DEF Next, Step, vars, AskReset, CreateViewer, SetPassword, LockResets, HoldBack,
              GoAhead, InsertViewer, AddressTaken, EndUnused, InsertLink, Send, SendFails,
              Spend, DeadLink, Update, TimeOut, Deactivate, Reactivate
<1>3. Inv /\ MailInv /\ [Next]_vars =>
         [\A l \in Links :
            links[l] # None /\ ~links[l].spent /\ links'[l].spent => Reason(l)]_vars
  <2> HIDE DEF Reason
  <2> QED BY <1>1, <1>2
<1> QED BY <1>3, Invariance, PTL DEF Spec, ALinkEndsForAReason
=============================================================================
