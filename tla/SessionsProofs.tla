--------------------------- MODULE SessionsProofs ---------------------------
(***************************************************************************)
(* Theorems of Sessions, for any set of Viewers, tokens and concurrent     *)
(* requests: a refresh token is exchanged once.                            *)
(***************************************************************************)
EXTENDS Sessions, TLAPS

-----------------------------------------------------------------------------
(* What a request has in hand: tokens that are in the table. *)
inTable(rows, t) == t \in TokenIds /\ rows[t] # None

inHand(rows, R) ==
    /\ R.pc # "idle" => R.act \in Acts /\ R.viewer \in Viewers
    /\ R.pc = "start" => R.act = "login"
    /\ R.pc \in {"find", "spend", "insert", "recheck", "answer"} => R.act = "refresh"
    /\ R.pc = "lock" => R.act \in {"setPassword", "deactivate"}
    /\ R.pc \in {"select", "revoke"} =>
          R.act \in {"refresh", "logout", "setPassword", "deactivate"}
    /\ R.pc # "idle" /\ R.act \in {"refresh", "logout"} => inTable(rows, R.token)
    /\ R.pc \in {"recheck", "answer"} => inTable(rows, R.issued)
    /\ \A t \in R.toRevoke : inTable(rows, t)

HandsOK == \A r \in Requests : inHand(tokens, req[r])

(* The token a family is named after is in the table. *)
FamiliesHaveAFirst ==
    \A t \in TokenIds : tokens[t] # None => tokens[tokens[t].family] # None

Typed == TypeOK /\ HandsOK /\ FamiliesHaveAFirst

LEMMA IdleFacts == Idle \in Request /\ \A rows : inHand(rows, Idle)
BY DEF Idle, Request, inHand

LEMMA MintedFacts ==
    ASSUME NEW f \in TokenIds, NEW v \in Viewers
    PROVE  /\ minted(f, v) \in Token
           /\ minted(f, v) # None
           /\ minted(f, v).family = f
           /\ ~minted(f, v).spent
BY NoneAssumption DEF minted, Token

(* How a step may change the table: it takes no token out, moves none to
   another family or Viewer, and takes no revocation back. *)
keepsTokens ==
    /\ tokens' \in [TokenIds -> {None} \cup Token]
    /\ \A t \in TokenIds : tokens[t] # None =>
          /\ tokens'[t] # None
          /\ tokens'[t].family = tokens[t].family
          /\ tokens'[t].viewer = tokens[t].viewer
          /\ tokens[t].revoked => tokens'[t].revoked

(* A step of one request is fine when that request has in hand what it should. *)
LEMMA OneRequest ==
    ASSUME TypeOK, HandsOK, NEW r \in Requests, NEW R \in Request, inHand(tokens', R),
           req' = [req EXCEPT ![r] = R], keepsTokens
    PROVE  req' \in [Requests -> Request] /\ HandsOK'
<1>1. req' \in [Requests -> Request]
  BY DEF TypeOK
<1>2. ASSUME NEW s \in Requests, s # r PROVE inHand(tokens', req[s])
  BY DEF HandsOK, inHand, inTable, keepsTokens
<1> QED BY <1>1, <1>2 DEF HandsOK, TypeOK

(* A statement that writes no row keeps the table. *)
LEMMA SameTable == TypeOK /\ UNCHANGED tokens => keepsTokens
BY DEF TypeOK, keepsTokens

(* Inserting a token where none was keeps the table. *)
LEMMA InsertKeeps ==
    ASSUME TypeOK, FamiliesHaveAFirst, NEW t \in TokenIds, tokens[t] = None,
           NEW f \in TokenIds, NEW v \in Viewers, f = t \/ tokens[f] # None,
           tokens' = [tokens EXCEPT ![t] = minted(f, v)]
    PROVE  /\ keepsTokens
           /\ FamiliesHaveAFirst'
           /\ tokens'[t] = minted(f, v)
           /\ \A s \in TokenIds \ {t} : tokens'[s] = tokens[s]
<1>1. /\ tokens'[t] = minted(f, v)
      /\ \A s \in TokenIds \ {t} : tokens'[s] = tokens[s]
  BY DEF TypeOK
<1>2. keepsTokens
  BY <1>1, MintedFacts DEF TypeOK, keepsTokens
<1>3. ASSUME NEW s \in TokenIds, tokens'[s] # None
      PROVE  tokens'[tokens'[s].family] # None
  <2>1. CASE s = t
    BY <1>1, <1>2, <2>1, MintedFacts DEF keepsTokens
  <2>2. CASE s # t
    <3>1. tokens[s] # None /\ tokens[s].family \in TokenIds
      BY <1>1, <1>3, <2>2, NoneAssumption DEF TypeOK, Token
    <3> QED BY <1>1, <1>2, <2>2, <3>1 DEF keepsTokens, FamiliesHaveAFirst
  <2> QED BY <2>1, <2>2
<1> QED BY <1>1, <1>2, <1>3 DEF FamiliesHaveAFirst

(* Rows that are updated and keep their family keep the table. *)
LEMMA UpdateKeeps ==
    ASSUME TypeOK, FamiliesHaveAFirst,
           tokens' \in [TokenIds -> {None} \cup Token],
           \A t \in TokenIds :
              \/ tokens'[t] = tokens[t]
              \/ /\ tokens[t] # None
                 /\ tokens'[t] \in Token
                 /\ tokens'[t].family = tokens[t].family
                 /\ tokens'[t].viewer = tokens[t].viewer
                 /\ tokens[t].revoked => tokens'[t].revoked
    PROVE  keepsTokens /\ FamiliesHaveAFirst'
<1>1. keepsTokens
  BY NoneAssumption DEF keepsTokens
<1>2. ASSUME NEW t \in TokenIds, tokens'[t] # None
      PROVE  tokens'[tokens'[t].family] # None
  <2>1. tokens[t] # None /\ tokens[t].family \in TokenIds
    BY <1>2 DEF TypeOK, Token
  <2> QED BY <1>1, <2>1 DEF FamiliesHaveAFirst, keepsTokens
<1> QED BY <1>1, <1>2 DEF FamiliesHaveAFirst

LEMMA SpendKeeps ==
    ASSUME TypeOK, FamiliesHaveAFirst, NEW t \in TokenIds, tokens[t] # None,
           tokens' = [tokens EXCEPT ![t].spent = TRUE]
    PROVE  keepsTokens /\ FamiliesHaveAFirst'
<1>1. tokens[t] \in Token
  BY DEF TypeOK
<1>2. [tokens[t] EXCEPT !.spent = TRUE] \in Token
  BY <1>1 DEF Token
<1>3. tokens' \in [TokenIds -> {None} \cup Token]
  BY <1>2 DEF TypeOK
<1>4. \A s \in TokenIds : tokens'[s] =
         IF s = t THEN [tokens[t] EXCEPT !.spent = TRUE] ELSE tokens[s]
  BY DEF TypeOK
<1>5. /\ [tokens[t] EXCEPT !.spent = TRUE].family = tokens[t].family
      /\ [tokens[t] EXCEPT !.spent = TRUE].viewer = tokens[t].viewer
      /\ [tokens[t] EXCEPT !.spent = TRUE].revoked = tokens[t].revoked
  BY <1>1 DEF Token
<1> QED BY <1>2, <1>3, <1>4, <1>5, UpdateKeeps

LEMMA ExpireKeeps ==
    ASSUME TypeOK, FamiliesHaveAFirst, NEW t \in TokenIds, tokens[t] # None,
           tokens' = [tokens EXCEPT ![t].expired = TRUE]
    PROVE  keepsTokens /\ FamiliesHaveAFirst'
<1>1. tokens[t] \in Token
  BY DEF TypeOK
<1>2. [tokens[t] EXCEPT !.expired = TRUE] \in Token
  BY <1>1 DEF Token
<1>3. tokens' \in [TokenIds -> {None} \cup Token]
  BY <1>2 DEF TypeOK
<1>4. \A s \in TokenIds : tokens'[s] =
         IF s = t THEN [tokens[t] EXCEPT !.expired = TRUE] ELSE tokens[s]
  BY DEF TypeOK
<1>5. /\ [tokens[t] EXCEPT !.expired = TRUE].family = tokens[t].family
      /\ [tokens[t] EXCEPT !.expired = TRUE].viewer = tokens[t].viewer
      /\ [tokens[t] EXCEPT !.expired = TRUE].revoked = tokens[t].revoked
  BY <1>1 DEF Token
<1> QED BY <1>2, <1>3, <1>4, <1>5, UpdateKeeps

LEMMA RevokeKeeps ==
    ASSUME TypeOK, FamiliesHaveAFirst, NEW S, \A t \in S : inTable(tokens, t),
           tokens' = revoked(S)
    PROVE  keepsTokens /\ FamiliesHaveAFirst'
<1>1. ASSUME NEW t \in S
      PROVE  /\ t \in TokenIds
             /\ tokens[t] # None
             /\ [tokens[t] EXCEPT !.revoked = TRUE] \in Token
             /\ [tokens[t] EXCEPT !.revoked = TRUE].family = tokens[t].family
             /\ [tokens[t] EXCEPT !.revoked = TRUE].viewer = tokens[t].viewer
             /\ [tokens[t] EXCEPT !.revoked = TRUE].revoked
  <2>1. t \in TokenIds /\ tokens[t] # None /\ tokens[t] \in Token
    BY DEF TypeOK, inTable
  <2> QED BY <2>1 DEF Token
<1>2. \A t \in TokenIds : tokens'[t] =
         IF t \in S THEN [tokens[t] EXCEPT !.revoked = TRUE] ELSE tokens[t]
  BY DEF revoked
<1>3. tokens' \in [TokenIds -> {None} \cup Token]
  BY <1>1 DEF revoked, TypeOK
<1> QED BY <1>1, <1>2, <1>3, UpdateKeeps

LEMMA TypedInit == Init => Typed
<1> SUFFICES ASSUME Init PROVE Typed
  OBVIOUS
<1>1. ASSUME NEW t \in TokenIds, FirstTokens[t] # None
      PROVE  FirstTokens[t] \in Viewers
  BY <1>1, FirstAssumption
<1>2. tokens \in [TokenIds -> {None} \cup Token]
  BY <1>1, MintedFacts DEF Init
<1>3. FamiliesHaveAFirst
  BY <1>1, MintedFacts DEF Init, FamiliesHaveAFirst
<1>4. \A t \in cookies : t \in TokenIds /\ tokens[t] # None
  BY <1>1, MintedFacts DEF Init
<1> QED BY <1>2, <1>3, <1>4, IdleFacts
        DEF Init, Typed, TypeOK, HandsOK

(* The tokens a client holds are still in the table. *)
LEMMA CookiesKept ==
    ASSUME TypeOK, keepsTokens
    PROVE  cookies \subseteq {t \in TokenIds : tokens'[t] # None}
BY DEF TypeOK, keepsTokens

(* A request that ends leaves nothing in hand. *)
LEMMA FinishFacts ==
    ASSUME TypeOK, HandsOK, NEW r \in Requests, finish(r), keepsTokens
    PROVE  req' \in [Requests -> Request] /\ HandsOK'
BY IdleFacts, OneRequest DEF finish

(* A step that changes nothing but what one request has in hand. *)
LEMMA OnlyTheRequest ==
    ASSUME Typed, NEW r \in Requests, NEW R \in Request, inHand(tokens, R),
           req' = [req EXCEPT ![r] = R],
           UNCHANGED <<tokens, cookies, deactivated, linked, endings, verified, over>>
    PROVE  Typed'
<1>1. keepsTokens
  BY SameTable DEF Typed
<1>2. req' \in [Requests -> Request] /\ HandsOK'
  BY <1>1, OneRequest DEF Typed
<1> QED BY <1>2 DEF Typed, TypeOK, FamiliesHaveAFirst

LEMMA TypedStep == Typed /\ [Next]_vars => Typed'
<1> SUFFICES ASSUME Typed, [Next]_vars PROVE Typed'
  OBVIOUS
<1> USE DEF Typed
<1>0. \A r \in Requests : req[r] \in Request /\ inHand(tokens, req[r])
  BY DEF TypeOK, HandsOK
<1>1. ASSUME NEW r \in Requests, NEW v \in Viewers, Verify(r, v) PROVE Typed'
  <2> DEFINE R == [Idle EXCEPT !.pc = "start", !.act = "login", !.viewer = v,
                               !.since = endings[v]]
  <2>1. R \in Request /\ inHand(tokens, R)
    BY <1>1 DEF Verify, Idle, Request, inHand, TypeOK
  <2>2. req' = [req EXCEPT ![r] = R]
    BY <1>1 DEF Verify
  <2> HIDE DEF R
  <2> QED BY <1>1, <2>1, <2>2, OnlyTheRequest DEF Verify
<1>2. ASSUME NEW r \in Requests, NEW t \in TokenIds, StartFamily(r, t) PROVE Typed'
  <2>1. req[r].viewer \in Viewers /\ req[r].since \in Nat
    BY <1>0, <1>2 DEF StartFamily, inHand, Request
  <2>a. tokens[t] = None /\ tokens' = [tokens EXCEPT ![t] = minted(t, req[r].viewer)]
    BY <1>2 DEF StartFamily
  <2>b. minted(t, req[r].viewer) # None
    BY <2>1, MintedFacts
  <2>2. keepsTokens /\ FamiliesHaveAFirst' /\ tokens'[t] # None
    BY <2>1, <2>a, <2>b, InsertKeeps
  <2>3. req' \in [Requests -> Request] /\ HandsOK'
    BY <1>2, <2>2, FinishFacts DEF StartFamily
  <2>4. cookies' \subseteq {s \in TokenIds : tokens'[s] # None}
    BY <1>2, <2>2, CookiesKept DEF StartFamily
  <2>5. tokens' \in [TokenIds -> {None} \cup Token]
    BY <2>2 DEF keepsTokens
  <2> QED BY <1>2, <2>1, <2>2, <2>3, <2>4, <2>5 DEF StartFamily, TypeOK
<1>3. ASSUME NEW r \in Requests, NEW t \in TokenIds, Present(r, t) PROVE Typed'
  <2> DEFINE late == tokens[t].family \in over
             R == [Idle EXCEPT !.pc = "find", !.act = "refresh",
                               !.viewer = tokens[t].viewer, !.token = t,
                               !.late = late,
                               !.reuse = tokens[t].spent,
                               !.since = endings[tokens[t].viewer]]
  <2>1. tokens[t] # None /\ tokens[t] \in Token
    BY <1>3 DEF Present, TypeOK
  <2>a. /\ tokens[t].viewer \in Viewers
        /\ tokens[t].spent \in BOOLEAN
        /\ endings[tokens[t].viewer] \in Nat
        /\ "refresh" \in Acts
    BY <1>3, <2>1 DEF Present, TypeOK, Token
  <2>3. req' = [req EXCEPT ![r] = R]
    BY <1>3 DEF Present
  <2>d. late \in BOOLEAN
    OBVIOUS
  <2> HIDE DEF late
  <2>b. R \in Request
    BY <2>a, <2>d DEF Idle, Request
  <2>c. inHand(tokens, R)
    BY <2>1, <2>a DEF Idle, inHand, inTable
  <2>2. R \in Request /\ inHand(tokens, R)
    BY <2>b, <2>c
  <2> HIDE DEF R
  <2> QED BY <1>3, <2>2, <2>3, OnlyTheRequest DEF Present
<1>4. ASSUME NEW r \in Requests, NEW t \in TokenIds, LogOut(r, t) PROVE Typed'
  <2> DEFINE R == [Idle EXCEPT !.pc = "select", !.act = "logout",
                               !.viewer = tokens[t].viewer, !.token = t]
  <2>1. tokens[t] # None /\ tokens[t] \in Token
    BY <1>4 DEF LogOut, TypeOK
  <2>2. R \in Request /\ inHand(tokens, R)
    BY <1>4, <2>1 DEF LogOut, Idle, Request, inHand, inTable, Token
  <2>3. req' = [req EXCEPT ![r] = R]
    BY <1>4 DEF LogOut
  <2> HIDE DEF R
  <2> QED BY <1>4, <2>2, <2>3, OnlyTheRequest DEF LogOut
<1>5. ASSUME NEW r \in Requests, NEW v \in Viewers, NEW act \in {"setPassword", "deactivate"},
             act \in Acts,
             req' = [req EXCEPT ![r] = [Idle EXCEPT !.pc = "lock", !.act = act, !.viewer = v]],
             UNCHANGED <<tokens, cookies, deactivated, linked, endings, verified, over>>
      PROVE  Typed'
  <2> DEFINE R == [Idle EXCEPT !.pc = "lock", !.act = act, !.viewer = v]
  <2>1. R \in Request /\ inHand(tokens, R)
    BY <1>5 DEF Idle, Request, inHand
  <2> HIDE DEF R
  <2> QED BY <1>5, <2>1, OnlyTheRequest DEF R
<1>6. ASSUME NEW r \in Requests, NEW v \in Viewers, SpendLink(r, v) \/ Deactivate(r, v)
      PROVE  Typed'
  BY <1>5, <1>6 DEF SpendLink, Deactivate
<1>7. ASSUME NEW r \in Requests, NEW pc \in {"spend", "insert", "select", "answer"},
             req[r].pc \in {"find", "spend", "recheck"},
             pc = "answer" => req[r].pc = "recheck",
             req' = [req EXCEPT ![r].pc = pc], keepsTokens
      PROVE  req' \in [Requests -> Request] /\ HandsOK'
  <2> DEFINE R == [req[r] EXCEPT !.pc = pc]
  <2>1. R \in Request
    BY <1>0 DEF Request
  <2>2. inHand(tokens', R)
    BY <1>0, <1>7 DEF Request, inHand, inTable, keepsTokens
  <2>3. req' = [req EXCEPT ![r] = R]
    BY <1>7 DEF TypeOK
  <2> HIDE DEF R
  <2> QED BY <1>7, <2>1, <2>2, <2>3, OneRequest
<1>8. ASSUME NEW r \in Requests, Find(r) \/ Recheck(r) PROVE Typed'
  <2>1. keepsTokens
    BY <1>8, SameTable DEF Find, Recheck
  <2>2. req' \in [Requests -> Request] /\ HandsOK'
    BY <1>7, <1>8, <2>1 DEF Find, Recheck, afterRecheck
  <2> QED BY <1>8, <2>2 DEF Find, Recheck, TypeOK, FamiliesHaveAFirst
<1>9. ASSUME NEW r \in Requests, Spend(r) PROVE Typed'
  <2>1. inTable(tokens, req[r].token)
    BY <1>0, <1>9 DEF Spend, inHand
  <2>2. keepsTokens /\ FamiliesHaveAFirst'
    BY <1>9, <2>1, SpendKeeps DEF Spend, inTable
  <2>3. req' \in [Requests -> Request] /\ HandsOK'
    BY <1>7, <1>9, <2>2 DEF Spend
  <2> QED BY <1>9, <2>2, <2>3, CookiesKept DEF Spend, TypeOK, keepsTokens
<1>10. ASSUME NEW r \in Requests, NEW t \in TokenIds, InsertSuccessor(r, t) PROVE Typed'
  <2> DEFINE R == [req[r] EXCEPT !.pc = "recheck", !.issued = t]
  <2>1. /\ req[r].viewer \in Viewers
        /\ inTable(tokens, req[r].token)
        /\ familyOf(r) \in TokenIds
        /\ tokens[familyOf(r)] # None
    BY <1>0, <1>10 DEF InsertSuccessor, inHand, inTable, familyOf, TypeOK, Token,
                       FamiliesHaveAFirst
  <2>a. /\ tokens[t] = None
        /\ tokens' = [tokens EXCEPT ![t] = minted(familyOf(r), req[r].viewer)]
    BY <1>10 DEF InsertSuccessor
  <2>b. minted(familyOf(r), req[r].viewer) # None
    BY <2>1, MintedFacts
  <2>2. keepsTokens /\ FamiliesHaveAFirst' /\ tokens'[t] # None
    BY <2>1, <2>a, <2>b, InsertKeeps
  <2>3. R \in Request
    BY <1>0 DEF Request
  <2>4. inHand(tokens', R)
    BY <1>0, <1>10, <2>2 DEF InsertSuccessor, Request, inHand, inTable, keepsTokens
  <2>5. req' = [req EXCEPT ![r] = R]
    BY <1>10 DEF InsertSuccessor, TypeOK
  <2> HIDE DEF R
  <2>6. req' \in [Requests -> Request] /\ HandsOK'
    BY <2>2, <2>3, <2>4, <2>5, OneRequest
  <2> QED BY <1>10, <2>2, <2>6, CookiesKept DEF InsertSuccessor, TypeOK, keepsTokens
<1>11. ASSUME NEW r \in Requests, Answer(r) PROVE Typed'
  <2>1. inTable(tokens, req[r].issued)
    BY <1>0, <1>11 DEF Answer, inHand
  <2>2. req' \in [Requests -> Request] /\ HandsOK'
    BY <1>11, SameTable, FinishFacts DEF Answer
  <2> QED BY <1>11, <2>1, <2>2 DEF Answer, TypeOK, FamiliesHaveAFirst, inTable
<1>12. ASSUME NEW r \in Requests, LockViewer(r) PROVE Typed'
  <2> DEFINE R == [req[r] EXCEPT !.pc = "select", !.had = familiesOf(req[r].viewer)]
  <2>1. familiesOf(req[r].viewer) \in SUBSET TokenIds
    BY DEF familiesOf, tokensOf, TypeOK, Token
  <2>a. req[r] \in Request /\ inHand(tokens, req[r]) /\ req[r].pc = "lock"
    BY <1>0, <1>12 DEF LockViewer
  <2>b. R \in Request
    BY <2>1, <2>a DEF Request
  <2>c. inHand(tokens, R)
    BY <2>a, ActsAssumption DEF Request, inHand
  <2>2. R \in Request /\ inHand(tokens, R)
    BY <2>b, <2>c
  <2>3. req' = [req EXCEPT ![r] = R]
    BY <1>12 DEF LockViewer, TypeOK
  <2> HIDE DEF R
  <2> QED BY <1>12, <2>2, <2>3, OnlyTheRequest DEF LockViewer
<1>13. ASSUME NEW r \in Requests, Select(r) PROVE Typed'
  <2> DEFINE R == [req[r] EXCEPT !.pc = "revoke", !.toRevoke = toRevoke(r)]
  <2>1. \A t \in toRevoke(r) : inTable(tokens, t)
    BY DEF toRevoke, tokensOf, inFamily, inTable
  <2>2. R \in Request /\ inHand(tokens, R)
    BY <1>0, <1>13, <2>1 DEF Select, Request, inHand, inTable
  <2>3. req' = [req EXCEPT ![r] = R]
    BY <1>13 DEF Select, TypeOK
  <2> HIDE DEF R
  <2> QED BY <1>13, <2>2, <2>3, OnlyTheRequest DEF Select
<1>14. ASSUME NEW r \in Requests, RevokeFamily(r) \/ RevokeAll(r) PROVE Typed'
  <2>1. keepsTokens /\ FamiliesHaveAFirst'
    BY <1>0, <1>14, RevokeKeeps DEF RevokeFamily, RevokeAll, inHand
  <2>2. req' \in [Requests -> Request] /\ HandsOK'
    BY <1>14, <2>1, FinishFacts DEF RevokeFamily, RevokeAll
  <2>3. cookies' \subseteq {s \in TokenIds : tokens'[s] # None}
    BY <1>14, <2>1, CookiesKept DEF RevokeFamily, RevokeAll
  <2>4. over' \subseteq TokenIds
    BY <1>0, <1>14 DEF RevokeFamily, RevokeAll, familyOf, inHand, inTable, endsAll,
                       TypeOK, Token, Request
  <2>5. linked' \subseteq Viewers /\ deactivated' \in [Viewers -> BOOLEAN]
    BY <1>14 DEF RevokeFamily, RevokeAll, TypeOK
  <2>6. endings' \in [Viewers -> Nat]
    BY <1>14 DEF RevokeFamily, RevokeAll, TypeOK
  <2> QED BY <1>14, <2>1, <2>2, <2>3, <2>4, <2>5, <2>6
          DEF RevokeFamily, RevokeAll, TypeOK, keepsTokens
<1>15. ASSUME NEW r \in Requests, Refuse(r) \/ AlreadyDeactivated(r) \/ Abort(r)
       PROVE  Typed'
  BY <1>15, SameTable, FinishFacts
     DEF Refuse, AlreadyDeactivated, Abort, TypeOK, FamiliesHaveAFirst
<1>16. ASSUME NEW v \in Viewers, SendLink(v) \/ Reactivate(v) PROVE Typed'
  BY <1>16 DEF SendLink, Reactivate, TypeOK, HandsOK, FamiliesHaveAFirst
<1>17. ASSUME NEW t \in TokenIds, Expire(t) PROVE Typed'
  <2>1. keepsTokens /\ FamiliesHaveAFirst'
    BY <1>17, ExpireKeeps DEF Expire
  <2>2. HandsOK'
    BY <1>0, <1>17, <2>1 DEF Expire, HandsOK, inHand, inTable, keepsTokens
  <2> QED BY <1>17, <2>1, <2>2, CookiesKept DEF Expire, TypeOK, keepsTokens
<1>18. CASE UNCHANGED vars
  BY <1>18 DEF vars, TypeOK, HandsOK, FamiliesHaveAFirst
<1> QED BY <1>1, <1>2, <1>3, <1>4, <1>6, <1>8, <1>9, <1>10, <1>11, <1>12, <1>13, <1>14,
           <1>15, <1>16, <1>17, <1>18
        DEF Next, Step

(* Every variable keeps its type, and every request has in hand tokens that
   are in the table, whatever is in flight: no refresh, log-out or ending of
   sessions ever writes a token that is not there. *)
THEOREM TypeCorrect == Spec => [](TypeOK /\ HandsOK)
<1>1. Init => Typed
  BY TypedInit
<1>2. Typed /\ [Next]_vars => Typed'
  BY TypedStep
<1> QED BY <1>1, <1>2, PTL DEF Spec, Typed

-----------------------------------------------------------------------------
(* One token to exchange *)

inserting(r) == req[r].pc = "insert"

(* A refresh that has spent its token and not yet inserted the successor
   stands for the unspent token of its family: there is no other, and no other
   refresh does. *)
InsertingStandsForIt ==
    \A r \in Requests : inserting(r) =>
       /\ \A t \in TokenIds : unspent(t) => tokens[t].family # familyOf(r)
       /\ \A s \in Requests : inserting(s) /\ familyOf(s) = familyOf(r) => s = r

Exchange == OneTokenToExchange /\ InsertingStandsForIt

LEMMA ExchangeInit == Init => Exchange
<1> SUFFICES ASSUME Init PROVE Exchange
  OBVIOUS
<1>1. \A t \in TokenIds : tokens[t] # None => tokens[t].family = t
  BY DEF Init, minted
<1>2. OneTokenToExchange
  BY <1>1 DEF OneTokenToExchange, unspent
<1>3. InsertingStandsForIt
  BY DEF Init, Idle, InsertingStandsForIt, inserting
<1> QED BY <1>2, <1>3 DEF Exchange

(* A step that makes no token unspent and lets no request begin inserting
   leaves it so. *)
LEMMA ExchangeKept ==
    ASSUME Typed, Exchange, keepsTokens,
           \A t \in TokenIds : unspent(t)' => unspent(t),
           \A r \in Requests : inserting(r)' => inserting(r) /\ req'[r].token = req[r].token
    PROVE  Exchange'
<1>1. ASSUME NEW t \in TokenIds, unspent(t)'
      PROVE  unspent(t) /\ tokens'[t].family = tokens[t].family
  BY <1>1 DEF keepsTokens, unspent
<1>2. ASSUME NEW r \in Requests, inserting(r)'
      PROVE  inserting(r) /\ familyOf(r)' = familyOf(r)
  <2>1. inserting(r) /\ req'[r].token = req[r].token /\ inTable(tokens, req[r].token)
    BY <1>2 DEF Typed, HandsOK, inHand, inserting
  <2> QED BY <2>1 DEF keepsTokens, familyOf, inTable
<1>3. OneTokenToExchange'
  BY <1>1 DEF Exchange, OneTokenToExchange
<1>4. InsertingStandsForIt'
  BY <1>1, <1>2 DEF Exchange, InsertingStandsForIt
<1> QED BY <1>3, <1>4 DEF Exchange

(* What Spend makes of the table. *)
LEMMA SpendFacts ==
    ASSUME Typed, NEW r \in Requests, Spend(r), NEW token, token = req[r].token
    PROVE  /\ token \in TokenIds
           /\ tokens[token] # None
           /\ keepsTokens
           /\ ~unspent(token)'
           /\ \A t \in TokenIds : unspent(t)' => unspent(t)
<1>1. inTable(tokens, token)
  BY DEF Spend, Typed, HandsOK, inHand
<1>2. tokens[token] \in Token
  BY <1>1 DEF Typed, TypeOK, inTable
<1>3. keepsTokens
  BY <1>1, SpendKeeps DEF Spend, Typed, inTable
<1>4. tokens'[token].spent = TRUE
  BY <1>1, <1>2 DEF Spend, Typed, TypeOK, Token, inTable
<1>5. \A t \in TokenIds \ {token} : tokens'[t] = tokens[t]
  BY DEF Spend, Typed, TypeOK
<1> QED BY <1>1, <1>3, <1>4, <1>5 DEF unspent, inTable

LEMMA ExchangeSpend ==
    ASSUME Typed, Exchange, NEW r \in Requests, Spend(r)
    PROVE  Exchange'
<1>0. PICK token : token = req[r].token
  OBVIOUS
<1>1. CASE tokens[token].spent
  <2>1. \A s \in Requests : inserting(s)' => inserting(s) /\ req'[s].token = req[s].token
    BY <1>0, <1>1 DEF Spend, inserting, Typed, TypeOK
  <2> QED BY <1>0, <2>1, SpendFacts, ExchangeKept
<1>2. CASE ~tokens[token].spent
  <2>1. unspent(token)
    BY <1>0, <1>2, SpendFacts DEF unspent
  <2>2. \A s \in Requests : req'[s].token = req[s].token /\ (inserting(s)' => s = r \/ inserting(s))
    BY DEF Spend, inserting, Typed, TypeOK
  <2>3. ASSUME NEW s \in Requests, inserting(s) \/ s = r
        PROVE  familyOf(s)' = familyOf(s)
    <3>1. inTable(tokens, req[s].token)
      BY <2>3 DEF Typed, HandsOK, inHand, inserting, Spend
    <3> QED BY <1>0, <2>2, <3>1, SpendFacts DEF keepsTokens, familyOf, inTable
  <2>4. ASSUME NEW t \in TokenIds, unspent(t)'
        PROVE  /\ unspent(t)
               /\ tokens'[t].family = tokens[t].family
               /\ tokens[t].family # familyOf(r)
    <3>1. unspent(t) /\ t # token
      BY <1>0, <2>4, SpendFacts
    <3> QED BY <1>0, <2>1, <3>1, SpendFacts
            DEF Exchange, OneTokenToExchange, keepsTokens, unspent, familyOf
  <2>5. \A s \in Requests : inserting(s) => familyOf(s) # familyOf(r)
    BY <1>0, <2>1, SpendFacts DEF Exchange, InsertingStandsForIt, familyOf
  <2>6. OneTokenToExchange'
    BY <2>4 DEF Exchange, OneTokenToExchange
  <2>7. InsertingStandsForIt'
    BY <2>2, <2>3, <2>4, <2>5 DEF Exchange, InsertingStandsForIt
  <2> QED BY <2>6, <2>7 DEF Exchange
<1> QED BY <1>1, <1>2

(* A token inserted into a family without an unspent one. *)
LEMMA ExchangeInsert ==
    ASSUME Typed, Exchange, NEW r \in Requests, NEW t \in TokenIds, NEW f \in TokenIds,
           NEW v \in Viewers,
           tokens[t] = None, f = t \/ tokens[f] # None,
           tokens' = [tokens EXCEPT ![t] = minted(f, v)],
           \A s \in TokenIds : unspent(s) => tokens[s].family # f,
           \A s \in Requests : inserting(s) /\ familyOf(s) = f => s = r,
           ~inserting(r)',
           \A s \in Requests \ {r} : req'[s] = req[s]
    PROVE  Exchange'
<1>1. /\ keepsTokens
      /\ tokens'[t] = minted(f, v)
      /\ \A s \in TokenIds \ {t} : tokens'[s] = tokens[s]
  BY InsertKeeps DEF Typed
<1>2. tokens'[t].family = f
  BY <1>1, MintedFacts
<1>3. ASSUME NEW s \in TokenIds, unspent(s)', s # t
      PROVE  unspent(s) /\ tokens'[s].family = tokens[s].family /\ tokens[s].family # f
  BY <1>1, <1>3 DEF unspent
<1>4. ASSUME NEW s \in Requests, inserting(s)'
      PROVE  /\ inserting(s)
             /\ s # r
             /\ familyOf(s)' = familyOf(s)
             /\ familyOf(s) # f
  <2>1. s # r /\ inserting(s) /\ req'[s] = req[s]
    BY <1>4 DEF inserting
  <2>2. inTable(tokens, req[s].token)
    BY <2>1 DEF Typed, HandsOK, inHand, inserting
  <2> QED BY <1>1, <2>1, <2>2 DEF keepsTokens, familyOf, inTable
<1>5. OneTokenToExchange'
  BY <1>2, <1>3 DEF Exchange, OneTokenToExchange
<1>6. InsertingStandsForIt'
  BY <1>2, <1>3, <1>4 DEF Exchange, InsertingStandsForIt
<1> QED BY <1>5, <1>6 DEF Exchange

LEMMA ExchangeStep == Typed /\ Exchange /\ [Next]_vars => Exchange'
<1> SUFFICES ASSUME Typed, Exchange, [Next]_vars PROVE Exchange'
  OBVIOUS
<1>1. ASSUME UNCHANGED tokens,
             \A r \in Requests : inserting(r)' => inserting(r) /\ req'[r].token = req[r].token
      PROVE  Exchange'
  BY <1>1, SameTable, ExchangeKept DEF Typed, unspent
<1>2. ASSUME NEW r \in Requests, UNCHANGED tokens, NEW R, R.pc # "insert",
             req' = [req EXCEPT ![r] = R]
      PROVE  Exchange'
  BY <1>1, <1>2 DEF inserting, Typed, TypeOK
<1>3. ASSUME NEW r \in Requests, NEW v \in Viewers,
             Verify(r, v) \/ SpendLink(r, v) \/ Deactivate(r, v)
      PROVE  Exchange'
  BY <1>2, <1>3 DEF Verify, SpendLink, Deactivate, Idle
<1>4. ASSUME NEW r \in Requests, NEW t \in TokenIds, Present(r, t) \/ LogOut(r, t)
      PROVE  Exchange'
  BY <1>2, <1>4 DEF Present, LogOut, Idle
<1>5. ASSUME NEW r \in Requests, Find(r) \/ Recheck(r) \/ LockViewer(r) \/ Select(r)
      PROVE  Exchange'
  <2>1. UNCHANGED tokens
    BY <1>5 DEF Find, Recheck, LockViewer, Select
  <2>2. ASSUME NEW s \in Requests, inserting(s)'
        PROVE  inserting(s) /\ req'[s].token = req[s].token
    <3>1. s # r => req'[s] = req[s]
      BY <1>5 DEF Find, Recheck, LockViewer, Select, Typed, TypeOK
    <3>2. ~inserting(r)'
      BY <1>5 DEF Find, Recheck, afterRecheck, LockViewer, Select, inserting, Typed, TypeOK, Request
    <3> QED BY <2>2, <3>1, <3>2 DEF inserting
  <2> QED BY <1>1, <2>1, <2>2
<1>6. ASSUME NEW r \in Requests,
             Refuse(r) \/ Answer(r) \/ AlreadyDeactivated(r) \/ Abort(r)
      PROVE  Exchange'
  BY <1>2, <1>6 DEF Refuse, Answer, AlreadyDeactivated, Abort, finish, Idle
<1>7. ASSUME NEW r \in Requests, NEW t \in TokenIds, StartFamily(r, t) PROVE Exchange'
  <2>1. req[r].viewer \in Viewers
    BY <1>7 DEF StartFamily, Typed, HandsOK, inHand
  <2>2. \A s \in TokenIds : tokens[s] # None => tokens[s].family # t
    BY <1>7 DEF StartFamily, Typed, FamiliesHaveAFirst
  <2>3. \A s \in Requests : inserting(s) => familyOf(s) # t
    BY <2>2 DEF Typed, HandsOK, inHand, inserting, inTable, familyOf
  <2>4. ~inserting(r)' /\ \A s \in Requests \ {r} : req'[s] = req[s]
    BY <1>7 DEF StartFamily, finish, Idle, inserting, Typed, TypeOK
  <2>5. tokens[t] = None /\ tokens' = [tokens EXCEPT ![t] = minted(t, req[r].viewer)]
    BY <1>7 DEF StartFamily
  <2> QED BY <2>1, <2>2, <2>3, <2>4, <2>5, ExchangeInsert DEF unspent
<1>8. ASSUME NEW r \in Requests, NEW t \in TokenIds, InsertSuccessor(r, t) PROVE Exchange'
  <2>1. /\ req[r].viewer \in Viewers
        /\ inTable(tokens, req[r].token)
        /\ familyOf(r) \in TokenIds
        /\ tokens[familyOf(r)] # None
    BY <1>8 DEF InsertSuccessor, Typed, HandsOK, inHand, inTable, familyOf, TypeOK, Token,
                FamiliesHaveAFirst
  <2>2. inserting(r)
    BY <1>8 DEF InsertSuccessor, inserting
  <2>3. /\ \A s \in TokenIds : unspent(s) => tokens[s].family # familyOf(r)
        /\ \A s \in Requests : inserting(s) /\ familyOf(s) = familyOf(r) => s = r
    BY <2>2 DEF Exchange, InsertingStandsForIt
  <2>4. ~inserting(r)' /\ \A s \in Requests \ {r} : req'[s] = req[s]
    BY <1>8 DEF InsertSuccessor, inserting, Typed, TypeOK
  <2>5. /\ tokens[t] = None
        /\ tokens' = [tokens EXCEPT ![t] = minted(familyOf(r), req[r].viewer)]
    BY <1>8 DEF InsertSuccessor
  <2> HIDE DEF familyOf
  <2> QED BY <2>1, <2>3, <2>4, <2>5, ExchangeInsert
<1>9. ASSUME NEW r \in Requests, RevokeFamily(r) \/ RevokeAll(r) PROVE Exchange'
  <2>1. \A t \in req[r].toRevoke : inTable(tokens, t)
    BY DEF Typed, HandsOK, inHand
  <2>2. tokens' = revoked(req[r].toRevoke)
    BY <1>9 DEF RevokeFamily, RevokeAll
  <2>3. keepsTokens
    BY <2>1, <2>2, RevokeKeeps DEF Typed
  <2>4. \A t \in TokenIds : unspent(t)' => unspent(t)
    <3>1. ASSUME NEW t \in req[r].toRevoke
          PROVE  [tokens[t] EXCEPT !.revoked = TRUE].spent = tokens[t].spent
                 /\ tokens[t] # None
      BY <2>1 DEF inTable, Typed, TypeOK, Token
    <3> QED BY <2>2, <3>1 DEF revoked, unspent
  <2>5. \A s \in Requests : inserting(s)' => inserting(s) /\ req'[s].token = req[s].token
    BY <1>9 DEF RevokeFamily, RevokeAll, finish, Idle, inserting, Typed, TypeOK
  <2> QED BY <2>3, <2>4, <2>5, ExchangeKept
<1>10. ASSUME NEW v \in Viewers, SendLink(v) \/ Reactivate(v) PROVE Exchange'
  BY <1>1, <1>10 DEF SendLink, Reactivate, inserting
<1>11. ASSUME NEW t \in TokenIds, Expire(t) PROVE Exchange'
  <2>1. keepsTokens
    BY <1>11, ExpireKeeps DEF Expire, Typed
  <2>2. \A s \in TokenIds : unspent(s)' => unspent(s)
    <3>1. tokens[t] \in Token
      BY <1>11 DEF Expire, Typed, TypeOK
    <3>2. tokens'[t].spent = tokens[t].spent
      BY <1>11, <3>1 DEF Expire, Typed, TypeOK, Token
    <3>3. \A s \in TokenIds \ {t} : tokens'[s] = tokens[s]
      BY <1>11 DEF Expire, Typed, TypeOK
    <3> QED BY <1>11, <3>2, <3>3 DEF unspent, Expire
  <2> QED BY <1>11, <2>1, <2>2, ExchangeKept DEF Expire, inserting
<1>12. CASE UNCHANGED vars
  BY <1>1, <1>12 DEF vars, inserting
<1> QED BY <1>3, <1>4, <1>5, <1>6, <1>7, <1>8, <1>9, <1>10, <1>11, <1>12, ExchangeSpend
        DEF Next, Step

(* However many requests present the tokens of one login at once, in whatever
   order their statements run, at most one token of it can still be exchanged:
   spendRefreshToken lets one of them through, and only that one inserts. *)
THEOREM OneExchange == Spec => []OneTokenToExchange
<1>1. Init => Typed /\ Exchange
  BY TypedInit, ExchangeInit
<1>2. Typed /\ Exchange /\ [Next]_vars => Typed' /\ Exchange'
  BY TypedStep, ExchangeStep
<1>3. Typed /\ Exchange => OneTokenToExchange
  BY DEF Exchange
<1> QED BY <1>1, <1>2, <1>3, PTL DEF Spec

-----------------------------------------------------------------------------
(* Sessions that have ended *)

(* Every statement keeps the tokens there are. *)
LEMMA KeepsStep == Typed /\ [Next]_vars => keepsTokens
<1> SUFFICES ASSUME Typed, [Next]_vars PROVE keepsTokens
  OBVIOUS
<1>0. \A r \in Requests : req[r] \in Request /\ inHand(tokens, req[r])
  BY DEF Typed, TypeOK, HandsOK
<1>1. CASE UNCHANGED tokens
  BY <1>1, SameTable DEF Typed
<1>2. ASSUME NEW r \in Requests, NEW t \in TokenIds, StartFamily(r, t) PROVE keepsTokens
  BY <1>0, <1>2, InsertKeeps DEF StartFamily, Typed, inHand
<1>3. ASSUME NEW r \in Requests, NEW t \in TokenIds, InsertSuccessor(r, t)
      PROVE  keepsTokens
  <2>1. /\ req[r].viewer \in Viewers
        /\ inTable(tokens, req[r].token)
        /\ familyOf(r) \in TokenIds
        /\ tokens[familyOf(r)] # None
    BY <1>0, <1>3 DEF InsertSuccessor, Typed, inHand, inTable, familyOf, TypeOK, Token,
                      FamiliesHaveAFirst
  <2> QED BY <1>3, <2>1, InsertKeeps DEF InsertSuccessor, Typed
<1>4. ASSUME NEW r \in Requests, Spend(r) PROVE keepsTokens
  BY <1>4, SpendFacts
<1>5. ASSUME NEW r \in Requests, RevokeFamily(r) \/ RevokeAll(r) PROVE keepsTokens
  BY <1>0, <1>5, RevokeKeeps DEF RevokeFamily, RevokeAll, inHand, Typed
<1>6. ASSUME NEW t \in TokenIds, Expire(t) PROVE keepsTokens
  BY <1>6, ExpireKeeps DEF Expire, Typed
<1> QED BY <1>1, <1>2, <1>3, <1>4, <1>5, <1>6
        DEF Next, Step, vars, Verify, SpendLink, Deactivate, Present, LogOut, Find, Refuse,
            Recheck, Answer, LockViewer, AlreadyDeactivated, Select, Abort, SendLink,
            Reactivate

ended(rows, f) == \E t \in TokenIds : inTable(rows, t) /\ rows[t].family = f /\ rows[t].revoked

reaches(rows, S, f) == \E t \in S : inTable(rows, t) /\ rows[t].family = f

endingAll(R) == R.act \in {"setPassword", "deactivate"}

(* What a request that ends sessions has under way: each family it ends has
   been ended or has a token among those it revokes.  And a refresh that came
   after the end of its session has not passed the second read. *)
ending(rows, R) ==
    /\ R.pc = "revoke" /\ ~endingAll(R) =>
          LET f == rows[R.token].family
          IN  ended(rows, f) \/ reaches(rows, R.toRevoke, f)
    /\ R.pc = "select" /\ endingAll(R) =>
          \A f \in R.had : \E t \in TokenIds :
             inTable(rows, t) /\ rows[t].family = f /\ rows[t].viewer = R.viewer
    /\ R.pc = "revoke" /\ endingAll(R) =>
          \A f \in R.had : ended(rows, f) \/ reaches(rows, R.toRevoke, f)
    /\ R.late => R.pc \notin {"idle", "answer"} /\ R.act = "refresh"
                 /\ ended(rows, rows[R.token].family)

OverIsOver ==
    /\ \A f \in over : ended(tokens, f)
    /\ \A r \in Requests : ending(tokens, req[r])

LEMMA EndedKept ==
    ASSUME keepsTokens, NEW f
    PROVE  /\ ended(tokens, f) => ended(tokens', f)
           /\ \A S : reaches(tokens, S, f) => reaches(tokens', S, f)
BY DEF keepsTokens, ended, reaches, inTable

LEMMA EndingKept ==
    ASSUME keepsTokens, NEW R, inHand(tokens, R), ending(tokens, R)
    PROVE  ending(tokens', R)
<1>1. \A f : /\ ended(tokens, f) => ended(tokens', f)
             /\ \A S : reaches(tokens, S, f) => reaches(tokens', S, f)
  BY EndedKept
<1>2. ASSUME NEW t, inTable(tokens, t)
      PROVE  /\ inTable(tokens', t)
             /\ tokens'[t].family = tokens[t].family
             /\ tokens'[t].viewer = tokens[t].viewer
  BY <1>2 DEF keepsTokens, inTable
<1>3. R.pc \in {"select", "revoke"} /\ ~endingAll(R) => inTable(tokens, R.token)
  BY DEF inHand, endingAll
<1>4. R.late => inTable(tokens, R.token)
  BY DEF inHand, ending
<1> QED BY <1>1, <1>2, <1>3, <1>4 DEF ending

(* A step of one request, which ends what it says it has ended. *)
LEMMA OverIsOverStep ==
    ASSUME Typed, OverIsOver, keepsTokens, NEW r \in Requests, NEW R,
           req' = [req EXCEPT ![r] = R], ending(tokens', R),
           \A f \in over' : f \in over \/ ended(tokens', f)
    PROVE  OverIsOver'
<1>1. \A f \in over' : ended(tokens', f)
  BY EndedKept DEF OverIsOver
<1>2. ASSUME NEW s \in Requests PROVE ending(tokens', req'[s])
  <2>1. CASE s = r
    BY <2>1 DEF Typed, TypeOK
  <2>2. CASE s # r
    <3>1. inHand(tokens, req[s]) /\ ending(tokens, req[s])
      BY DEF Typed, HandsOK, OverIsOver
    <3>2. req'[s] = req[s]
      BY <2>2 DEF Typed, TypeOK
    <3> QED BY <3>1, <3>2, EndingKept
  <2> QED BY <2>1, <2>2
<1> QED BY <1>1, <1>2 DEF OverIsOver

LEMMA IdleEnding == \A rows : ending(rows, Idle)
BY DEF Idle, ending
(* The UPDATE that ends the sessions ends every family it reaches. *)
LEMMA RevokingEnds ==
    ASSUME Typed, keepsTokens, NEW S, \A t \in S : inTable(tokens, t),
           tokens' = revoked(S), NEW f, ended(tokens, f) \/ reaches(tokens, S, f)
    PROVE  ended(tokens', f)
<1>1. CASE ended(tokens, f)
  BY <1>1, EndedKept
<1>2. CASE reaches(tokens, S, f)
  <2>1. PICK t \in S : inTable(tokens, t) /\ tokens[t].family = f
    BY <1>2 DEF reaches
  <2>2. tokens[t] \in Token
    BY <2>1 DEF inTable, Typed, TypeOK
  <2>3. tokens'[t] = [tokens[t] EXCEPT !.revoked = TRUE]
    BY <2>1 DEF revoked, inTable
  <2>4. tokens'[t].revoked
    BY <2>2, <2>3 DEF Token
  <2>5. inTable(tokens', t) /\ tokens'[t].family = f
    BY <2>1 DEF keepsTokens, inTable
  <2> QED BY <2>1, <2>4, <2>5 DEF ended, inTable
<1> QED BY <1>1, <1>2

LEMMA OverStep == Typed /\ OverIsOver /\ [Next]_vars => OverIsOver'
<1> SUFFICES ASSUME Typed, OverIsOver, [Next]_vars PROVE OverIsOver'
  OBVIOUS
<1>0. /\ keepsTokens
      /\ \A r \in Requests :
            req[r] \in Request /\ inHand(tokens, req[r]) /\ ending(tokens, req[r])
  BY KeepsStep DEF Typed, TypeOK, HandsOK, OverIsOver
<1>a. \A f \in over : ended(tokens, f)
  BY DEF OverIsOver
<1>b. \A f : familyIsRevoked(f) <=> ended(tokens, f)
  BY DEF familyIsRevoked, inFamily, ended, inTable
<1>1. ASSUME NEW r \in Requests, NEW R, req' = [req EXCEPT ![r] = R],
             UNCHANGED <<tokens, over>>, ending(tokens, R)
      PROVE  OverIsOver'
  BY <1>0, <1>1, OverIsOverStep
<1>2. ASSUME NEW r \in Requests, NEW v \in Viewers,
             Verify(r, v) \/ SpendLink(r, v) \/ Deactivate(r, v)
      PROVE  OverIsOver'
  <2> DEFINE R1 == [Idle EXCEPT !.pc = "start", !.act = "login", !.viewer = v,
                                !.since = endings[v]]
             R2(act) == [Idle EXCEPT !.pc = "lock", !.act = act, !.viewer = v]
  <2>1. ending(tokens, R1) /\ \A act : ending(tokens, R2(act))
    BY DEF Idle, ending
  <2>2. /\ UNCHANGED <<tokens, over>>
        /\ \/ req' = [req EXCEPT ![r] = R1]
           \/ \E act : req' = [req EXCEPT ![r] = R2(act)]
    BY <1>2 DEF Verify, SpendLink, Deactivate
  <2> HIDE DEF R1, R2
  <2> QED BY <1>1, <2>1, <2>2
<1>3. ASSUME NEW r \in Requests, NEW t \in TokenIds, Present(r, t) PROVE OverIsOver'
  <2> DEFINE late == tokens[t].family \in over
             R == [Idle EXCEPT !.pc = "find", !.act = "refresh",
                               !.viewer = tokens[t].viewer, !.token = t,
                               !.late = late,
                               !.reuse = tokens[t].spent,
                               !.since = endings[tokens[t].viewer]]
  <2>1. late => ended(tokens, tokens[t].family)
    BY <1>a
  <2>2. req' = [req EXCEPT ![r] = R]
    BY <1>3 DEF Present
  <2> HIDE DEF late
  <2>3. ending(tokens, R)
    BY <2>1 DEF Idle, ending
  <2> HIDE DEF R
  <2> QED BY <1>1, <1>3, <2>2, <2>3 DEF Present
<1>4. ASSUME NEW r \in Requests, NEW t \in TokenIds, LogOut(r, t) PROVE OverIsOver'
  <2> DEFINE R == [Idle EXCEPT !.pc = "select", !.act = "logout",
                               !.viewer = tokens[t].viewer, !.token = t]
  <2>1. ending(tokens, R)
    BY DEF Idle, ending, endingAll
  <2>2. req' = [req EXCEPT ![r] = R]
    BY <1>4 DEF LogOut
  <2> HIDE DEF R
  <2> QED BY <1>1, <1>4, <2>1, <2>2 DEF LogOut
<1>5. ASSUME NEW r \in Requests, req[r].act = "refresh",
             NEW pc \in {"spend", "insert", "recheck", "select", "answer"}, NEW issued,
             pc = "answer" => ~ended(tokens, familyOf(r)),
             req' = [req EXCEPT ![r] = [req[r] EXCEPT !.pc = pc, !.issued = issued]],
             UNCHANGED over
      PROVE  OverIsOver'
  <2> DEFINE R == [req[r] EXCEPT !.pc = pc, !.issued = issued]
  <2>1. /\ R.pc = pc /\ R.act = "refresh" /\ R.late = req[r].late /\ R.token = req[r].token
    BY <1>0, <1>5 DEF Request
  <2>2. ending(tokens, req[r]) /\ inHand(tokens, req[r])
    BY <1>0
  <2>3. req' = [req EXCEPT ![r] = R]
    BY <1>5
  <2> HIDE DEF R
  <2>4. ASSUME R.late PROVE inTable(tokens, req[r].token) /\ ended(tokens, familyOf(r))
    BY <1>5, <2>1, <2>2, <2>4 DEF ending, inHand, familyOf
  <2>5. ASSUME R.late PROVE ended(tokens', tokens'[R.token].family)
    BY <1>0, <2>1, <2>4, <2>5, EndedKept DEF keepsTokens, inTable, familyOf
  <2>6. ending(tokens', R)
    BY <1>5, <2>1, <2>4, <2>5 DEF ending, endingAll
  <2> QED BY <1>0, <1>5, <2>3, <2>6, OverIsOverStep
<1>6. ASSUME NEW r \in Requests, Find(r) \/ Spend(r) \/ Recheck(r) PROVE OverIsOver'
  <2>1. req[r].act = "refresh" /\ UNCHANGED over
    BY <1>0, <1>6 DEF Find, Spend, Recheck, inHand
  <2>2. PICK pc \in {"spend", "insert", "recheck", "select", "answer"} :
           /\ pc = "answer" => ~ended(tokens, familyOf(r))
           /\ req' = [req EXCEPT ![r].pc = pc]
    BY <1>6, <1>b DEF Find, Spend, Recheck, afterRecheck
  <2>3. [req[r] EXCEPT !.pc = pc] = [req[r] EXCEPT !.pc = pc, !.issued = req[r].issued]
    BY <1>0 DEF Request
  <2>4. req' = [req EXCEPT ![r] = [req[r] EXCEPT !.pc = pc, !.issued = req[r].issued]]
    BY <2>2, <2>3
  <2> QED BY <1>5, <2>1, <2>2, <2>4
<1>7. ASSUME NEW r \in Requests, NEW t \in TokenIds, InsertSuccessor(r, t)
      PROVE  OverIsOver'
  <2>1. req[r].act = "refresh" /\ UNCHANGED over
    BY <1>0, <1>7 DEF InsertSuccessor, inHand
  <2>2. req' = [req EXCEPT ![r] = [req[r] EXCEPT !.pc = "recheck", !.issued = t]]
    BY <1>7 DEF InsertSuccessor, Typed, TypeOK
  <2> QED BY <1>5, <2>1, <2>2
<1>8. ASSUME NEW r \in Requests, LockViewer(r) PROVE OverIsOver'
  <2> DEFINE R == [req[r] EXCEPT !.pc = "select", !.had = familiesOf(req[r].viewer)]
  <2>1. /\ R.pc = "select" /\ R.act = req[r].act /\ R.late = req[r].late
        /\ R.viewer = req[r].viewer /\ R.had = familiesOf(req[r].viewer)
    BY <1>0 DEF Request
  <2>2. req[r].act \in {"setPassword", "deactivate"} /\ ~req[r].late
    BY <1>0, <1>8 DEF LockViewer, inHand, ending
  <2>3. req' = [req EXCEPT ![r] = R]
    BY <1>8 DEF LockViewer, Typed, TypeOK
  <2> HIDE DEF R
  <2>4. \A f \in R.had : \E t \in TokenIds :
           inTable(tokens, t) /\ tokens[t].family = f /\ tokens[t].viewer = R.viewer
    BY <2>1 DEF familiesOf, tokensOf, inTable
  <2>5. ending(tokens, R)
    BY <2>1, <2>2, <2>4 DEF ending, endingAll
  <2> QED BY <1>1, <1>8, <2>3, <2>5 DEF LockViewer
<1>9. ASSUME NEW r \in Requests, Select(r) PROVE OverIsOver'
  <2> DEFINE R == [req[r] EXCEPT !.pc = "revoke", !.toRevoke = toRevoke(r)]
  <2>1. /\ R.pc = "revoke" /\ R.act = req[r].act /\ R.late = req[r].late
        /\ R.token = req[r].token /\ R.had = req[r].had /\ R.toRevoke = toRevoke(r)
    BY <1>0 DEF Request
  <2>2. req' = [req EXCEPT ![r] = R]
    BY <1>9 DEF Select, Typed, TypeOK
  <2> HIDE DEF R
  <2>3. ending(tokens, req[r]) /\ inHand(tokens, req[r]) /\ req[r].pc = "select"
    BY <1>0, <1>9 DEF Select
  <2>4. ASSUME ~endingAll(R)
        PROVE  LET f == tokens[R.token].family
               IN  ended(tokens, f) \/ reaches(tokens, R.toRevoke, f)
    <3>1. inTable(tokens, R.token) /\ ~endsAll(r)
      BY <2>1, <2>3, <2>4 DEF inHand, endingAll, endsAll
    <3>2. tokens[R.token].revoked \/ R.token \in R.toRevoke
      BY <2>1, <3>1 DEF toRevoke, inFamily, familyOf, inTable
    <3> QED BY <3>1, <3>2 DEF ended, reaches, inTable
  <2>5. ASSUME endingAll(R), NEW f \in R.had
        PROVE  ended(tokens, f) \/ reaches(tokens, R.toRevoke, f)
    <3>1. endsAll(r) /\ endingAll(req[r])
      BY <2>1, <2>5 DEF endingAll, endsAll
    <3>2. PICK t \in TokenIds :
             inTable(tokens, t) /\ tokens[t].family = f /\ tokens[t].viewer = req[r].viewer
      BY <2>1, <2>3, <2>5, <3>1 DEF ending
    <3>3. tokens[t].revoked \/ t \in R.toRevoke
      BY <2>1, <3>1, <3>2 DEF toRevoke, tokensOf, inTable
    <3> QED BY <3>2, <3>3 DEF ended, reaches
  <2>6. ending(tokens, R)
    BY <2>1, <2>3, <2>4, <2>5 DEF ending
  <2> QED BY <1>1, <1>9, <2>2, <2>6 DEF Select
<1>10. ASSUME NEW r \in Requests, RevokeFamily(r) \/ RevokeAll(r) PROVE OverIsOver'
  <2>1. /\ \A t \in req[r].toRevoke : inTable(tokens, t)
        /\ ending(tokens, req[r])
        /\ tokens' = revoked(req[r].toRevoke)
        /\ req' = [req EXCEPT ![r] = Idle]
    BY <1>0, <1>10 DEF RevokeFamily, RevokeAll, finish, inHand
  <2>2. ASSUME NEW f \in over', f \notin over
        PROVE  ended(tokens, f) \/ reaches(tokens, req[r].toRevoke, f)
    BY <1>10, <2>1, <2>2
       DEF RevokeFamily, RevokeAll, endsAll, endingAll, familyOf, ending
  <2>3. \A f \in over' : f \in over \/ ended(tokens', f)
    BY <1>0, <2>1, <2>2, RevokingEnds
  <2> QED BY <1>0, <2>1, <2>3, IdleEnding, OverIsOverStep
<1>11. ASSUME NEW r \in Requests, NEW t \in TokenIds, StartFamily(r, t) PROVE OverIsOver'
  BY <1>0, <1>11, IdleEnding, OverIsOverStep DEF StartFamily, finish
<1>12. ASSUME NEW r \in Requests,
              Refuse(r) \/ Answer(r) \/ AlreadyDeactivated(r) \/ Abort(r)
       PROVE  OverIsOver'
  BY <1>1, <1>12, IdleEnding DEF Refuse, Answer, AlreadyDeactivated, Abort, finish
<1>13. ASSUME UNCHANGED <<req, over>> PROVE OverIsOver'
  BY <1>0, <1>a, <1>13, EndedKept, EndingKept DEF OverIsOver
<1>14. ASSUME NEW v \in Viewers, SendLink(v) \/ Reactivate(v) PROVE OverIsOver'
  BY <1>13, <1>14 DEF SendLink, Reactivate
<1>15. ASSUME NEW t \in TokenIds, Expire(t) PROVE OverIsOver'
  BY <1>13, <1>15 DEF Expire
<1>16. CASE UNCHANGED vars
  BY <1>13, <1>16 DEF vars
<1> QED BY <1>2, <1>3, <1>4, <1>6, <1>7, <1>8, <1>9, <1>10, <1>11, <1>12, <1>14, <1>15, <1>16
        DEF Next, Step

(* A session that has ended is not carried on by any refresh that comes after:
   the family it belongs to has a revoked token by then, and every refresh
   reads for one after it has inserted its successor. *)
THEOREM EndedIsOver == Spec => EndedSessionsStayOver
<1>1. Init => Typed /\ OverIsOver
  <2>1. Init => OverIsOver
    BY IdleEnding DEF Init, OverIsOver
  <2> QED BY <2>1, TypedInit
<1>2. Typed /\ OverIsOver /\ [Next]_vars => Typed' /\ OverIsOver'
  BY TypedStep, OverStep
<1>3. Typed /\ OverIsOver /\ [Next]_vars
         => [\A r \in Requests : signsIn(r) => ~req[r].late]_vars
  BY DEF OverIsOver, ending, signsIn, Answer
<1> QED BY <1>1, <1>2, <1>3, PTL DEF Spec, EndedSessionsStayOver

-----------------------------------------------------------------------------
(* Tokens presented after they were spent *)

staysSpent == \A t \in TokenIds : inTable(tokens, t) /\ tokens[t].spent => tokens'[t].spent

(* No statement takes it back that a token was spent. *)
LEMMA SpentStep == Typed /\ [Next]_vars => staysSpent
<1> SUFFICES ASSUME Typed, [Next]_vars PROVE staysSpent
  OBVIOUS
<1>0. /\ \A r \in Requests : inHand(tokens, req[r])
      /\ tokens \in [TokenIds -> {None} \cup Token]
      /\ \A t \in TokenIds : inTable(tokens, t) => tokens[t] \in Token
  BY DEF Typed, TypeOK, HandsOK, inTable
<1>1. CASE UNCHANGED tokens
  BY <1>1 DEF staysSpent
<1>2. ASSUME NEW r \in Requests, NEW t \in TokenIds, StartFamily(r, t) \/ InsertSuccessor(r, t)
      PROVE  staysSpent
  <2>1. tokens[t] = None /\ \A s \in TokenIds \ {t} : tokens'[s] = tokens[s]
    BY <1>0, <1>2 DEF StartFamily, InsertSuccessor
  <2> QED BY <2>1 DEF staysSpent, inTable
<1>3. ASSUME NEW r \in Requests, Spend(r) PROVE staysSpent
  <2>1. inTable(tokens, req[r].token)
    BY <1>0, <1>3 DEF Spend, inHand
  <2> QED BY <1>0, <1>3, <2>1 DEF Spend, staysSpent, Token
<1>4. ASSUME NEW r \in Requests, RevokeFamily(r) \/ RevokeAll(r) PROVE staysSpent
  <2>1. tokens' = revoked(req[r].toRevoke)
    BY <1>4 DEF RevokeFamily, RevokeAll
  <2>2. ASSUME NEW t \in TokenIds, inTable(tokens, t), tokens[t].spent PROVE tokens'[t].spent
    BY <1>0, <2>1, <2>2 DEF revoked, Token
  <2> QED BY <2>2 DEF staysSpent
<1>5. ASSUME NEW t \in TokenIds, Expire(t) PROVE staysSpent
  <2>1. inTable(tokens, t)
    BY <1>5 DEF Expire, inTable
  <2> QED BY <1>0, <1>5, <2>1 DEF Expire, staysSpent, Token
<1> QED BY <1>1, <1>2, <1>3, <1>4, <1>5
        DEF Next, Step, vars, Verify, SpendLink, Deactivate, Present, LogOut, Find, Refuse,
            Recheck, Answer, LockViewer, AlreadyDeactivated, Select, Abort, SendLink,
            Reactivate

(* A refresh that presents a spent token never comes to spend it, and so never
   to its successor and its answer. *)
reused(rows, R) ==
    R.reuse => /\ R.act = "refresh"
               /\ R.pc \in {"find", "select", "revoke"}
               /\ rows[R.token].spent

ReuseIsSeen == \A r \in Requests : reused(tokens, req[r])

LEMMA ReusedStep ==
    ASSUME Typed, ReuseIsSeen, staysSpent, NEW r \in Requests, NEW R,
           req' = [req EXCEPT ![r] = R], reused(tokens', R)
    PROVE  ReuseIsSeen'
<1>1. ASSUME NEW s \in Requests PROVE reused(tokens', req'[s])
  <2>1. CASE s = r
    BY <2>1 DEF Typed, TypeOK
  <2>2. CASE s # r
    <3>1. req'[s] = req[s] /\ reused(tokens, req[s]) /\ inHand(tokens, req[s])
      BY <2>2 DEF Typed, TypeOK, HandsOK, ReuseIsSeen
    <3>2. req[s].reuse => inTable(tokens, req[s].token)
      BY <3>1 DEF reused, inHand
    <3> QED BY <3>1, <3>2 DEF reused, staysSpent, inTable
  <2> QED BY <2>1, <2>2
<1> QED BY <1>1 DEF ReuseIsSeen

LEMMA ReuseStep == Typed /\ ReuseIsSeen /\ [Next]_vars => ReuseIsSeen'
<1> SUFFICES ASSUME Typed, ReuseIsSeen, [Next]_vars PROVE ReuseIsSeen'
  OBVIOUS
<1>0. /\ staysSpent
      /\ \A r \in Requests :
            req[r] \in Request /\ inHand(tokens, req[r]) /\ reused(tokens, req[r])
  BY SpentStep DEF Typed, TypeOK, HandsOK, ReuseIsSeen
<1>1. ASSUME NEW r \in Requests, NEW R, req' = [req EXCEPT ![r] = R], ~R.reuse
      PROVE  ReuseIsSeen'
  BY <1>0, <1>1, ReusedStep DEF reused
<1>2. ASSUME NEW r \in Requests, req' = [req EXCEPT ![r] = Idle] PROVE ReuseIsSeen'
  <2>1. ~Idle.reuse
    BY DEF Idle
  <2> QED BY <1>1, <1>2, <2>1
<1>3. ASSUME NEW r \in Requests, NEW v \in Viewers,
             Verify(r, v) \/ SpendLink(r, v) \/ Deactivate(r, v)
      PROVE  ReuseIsSeen'
  <2> DEFINE R1 == [Idle EXCEPT !.pc = "start", !.act = "login", !.viewer = v,
                                !.since = endings[v]]
             R2(act) == [Idle EXCEPT !.pc = "lock", !.act = act, !.viewer = v]
  <2>1. ~R1.reuse /\ \A act : ~R2(act).reuse
    BY DEF Idle
  <2>2. req' = [req EXCEPT ![r] = R1] \/ \E act : req' = [req EXCEPT ![r] = R2(act)]
    BY <1>3 DEF Verify, SpendLink, Deactivate
  <2> HIDE DEF R1, R2
  <2> QED BY <1>1, <2>1, <2>2
<1>4. ASSUME NEW r \in Requests, NEW t \in TokenIds, LogOut(r, t) PROVE ReuseIsSeen'
  <2> DEFINE R == [Idle EXCEPT !.pc = "select", !.act = "logout",
                               !.viewer = tokens[t].viewer, !.token = t]
  <2>1. ~R.reuse
    BY DEF Idle
  <2>2. req' = [req EXCEPT ![r] = R]
    BY <1>4 DEF LogOut
  <2> HIDE DEF R
  <2> QED BY <1>1, <2>1, <2>2
<1>5. ASSUME NEW r \in Requests, NEW t \in TokenIds, Present(r, t) PROVE ReuseIsSeen'
  <2> DEFINE late == tokens[t].family \in over
             R == [Idle EXCEPT !.pc = "find", !.act = "refresh",
                               !.viewer = tokens[t].viewer, !.token = t,
                               !.late = late,
                               !.reuse = tokens[t].spent,
                               !.since = endings[tokens[t].viewer]]
  <2>1. req' = [req EXCEPT ![r] = R] /\ UNCHANGED tokens
    BY <1>5 DEF Present
  <2> HIDE DEF late
  <2>2. reused(tokens', R)
    BY <2>1 DEF Idle, reused
  <2> HIDE DEF R
  <2> QED BY <1>0, <2>1, <2>2, ReusedStep
<1>6. ASSUME NEW r \in Requests, NEW R,
             R.reuse => /\ req[r].reuse /\ R.act = req[r].act /\ R.token = req[r].token
                        /\ R.pc \in {"find", "select", "revoke"},
             req' = [req EXCEPT ![r] = R]
      PROVE  ReuseIsSeen'
  <2>1. R.reuse => inTable(tokens, R.token) /\ tokens[R.token].spent /\ R.act = "refresh"
    BY <1>0, <1>6 DEF reused, inHand
  <2>2. reused(tokens', R)
    BY <1>0, <1>6, <2>1 DEF reused, staysSpent, inTable
  <2> QED BY <1>0, <1>6, <2>2, ReusedStep
<1>7. ASSUME NEW r \in Requests, Find(r) PROVE ReuseIsSeen'
  <2> DEFINE pc == IF judged(req[r].token) = "good" THEN "spend" ELSE "select"
             R == [req[r] EXCEPT !.pc = pc]
  <2>1. req[r].reuse => pc = "select"
    BY <1>0, <1>7 DEF Find, judged, reused
  <2>2. req' = [req EXCEPT ![r] = R]
    BY <1>7 DEF Find, Typed, TypeOK
  <2> HIDE DEF pc
  <2>3. R.pc = pc /\ R.reuse = req[r].reuse /\ R.act = req[r].act /\ R.token = req[r].token
    BY <1>0 DEF Request
  <2> HIDE DEF R
  <2> QED BY <1>6, <2>1, <2>2, <2>3
<1>8. ASSUME NEW r \in Requests, ~req[r].reuse, NEW R, R.reuse = req[r].reuse,
             req' = [req EXCEPT ![r] = R]
      PROVE  ReuseIsSeen'
  BY <1>1, <1>8
<1>9. ASSUME NEW r \in Requests,
             Spend(r) \/ Recheck(r) \/ LockViewer(r) \/ \E t \in TokenIds : InsertSuccessor(r, t)
      PROVE  ReuseIsSeen'
  <2>1. ~req[r].reuse
    BY <1>0, <1>9 DEF Spend, InsertSuccessor, Recheck, LockViewer, reused
  <2>2. PICK R : req' = [req EXCEPT ![r] = R] /\ R.reuse = req[r].reuse
    <3> DEFINE R1(pc) == [req[r] EXCEPT !.pc = pc]
               R2(t) == [req[r] EXCEPT !.pc = "recheck", !.issued = t]
               R3 == [req[r] EXCEPT !.pc = "select", !.had = familiesOf(req[r].viewer)]
    <3>1. /\ \A pc : R1(pc).reuse = req[r].reuse
          /\ \A t : R2(t).reuse = req[r].reuse
          /\ R3.reuse = req[r].reuse
      BY <1>0 DEF Request
    <3>2. \/ \E pc : req' = [req EXCEPT ![r] = R1(pc)]
          \/ \E t : req' = [req EXCEPT ![r] = R2(t)]
          \/ req' = [req EXCEPT ![r] = R3]
      BY <1>9 DEF Spend, InsertSuccessor, Recheck, LockViewer, Typed, TypeOK
    <3> HIDE DEF R1, R2, R3
    <3> QED BY <3>1, <3>2
  <2> QED BY <1>8, <2>1, <2>2
<1>10. ASSUME NEW r \in Requests, Select(r) PROVE ReuseIsSeen'
  <2> DEFINE R == [req[r] EXCEPT !.pc = "revoke", !.toRevoke = toRevoke(r)]
  <2>1. R.pc = "revoke" /\ R.reuse = req[r].reuse /\ R.act = req[r].act
        /\ R.token = req[r].token
    BY <1>0 DEF Request
  <2>2. req' = [req EXCEPT ![r] = R]
    BY <1>10 DEF Select, Typed, TypeOK
  <2> HIDE DEF R
  <2> QED BY <1>6, <2>1, <2>2
<1>11. ASSUME NEW r \in Requests,
              \/ \E t \in TokenIds : StartFamily(r, t)
              \/ Refuse(r) \/ Answer(r) \/ AlreadyDeactivated(r)
              \/ RevokeFamily(r) \/ RevokeAll(r) \/ Abort(r)
       PROVE  ReuseIsSeen'
  BY <1>2, <1>11
     DEF StartFamily, Refuse, Answer, AlreadyDeactivated, RevokeFamily, RevokeAll, Abort, finish
<1>12. ASSUME UNCHANGED req PROVE ReuseIsSeen'
  <2>1. \A r \in Requests : req[r].reuse => inTable(tokens, req[r].token)
    BY <1>0 DEF reused, inHand
  <2> QED BY <1>0, <1>12, <2>1 DEF ReuseIsSeen, reused, staysSpent, inTable
<1>13. ASSUME \/ \E v \in Viewers : SendLink(v) \/ Reactivate(v)
              \/ \E t \in TokenIds : Expire(t)
              \/ UNCHANGED vars
       PROVE  ReuseIsSeen'
  BY <1>12, <1>13 DEF SendLink, Reactivate, Expire, vars
<1>14. ASSUME NEW r \in Requests, Step(r) \/ Abort(r) PROVE ReuseIsSeen'
  BY <1>7, <1>9, <1>10, <1>11, <1>14 DEF Step
<1> QED BY <1>3, <1>4, <1>5, <1>13, <1>14 DEF Next

(* A token presented after it was spent ends its family before the presenter
   is answered: either a token of it was revoked already, or the request
   revokes every one that is not, and it never reaches a session. *)
THEOREM ReuseEnds == Spec => ReuseEndsTheFamily
<1> DEFINE I == Typed /\ OverIsOver /\ ReuseIsSeen
           Ends == \A r \in Requests :
                      /\ req[r].reuse
                      /\ Refuse(r) \/ Answer(r) \/ RevokeFamily(r)
                      => \E t \in inFamily(familyOf(r)) : tokens'[t].revoked
<1>1. Init => I
  <2>1. Init => OverIsOver
    BY IdleEnding DEF Init, OverIsOver
  <2>2. Init => ReuseIsSeen
    BY DEF Init, Idle, ReuseIsSeen, reused
  <2> QED BY <2>1, <2>2, TypedInit
<1>2. I /\ [Next]_vars => I'
  BY TypedStep, OverStep, ReuseStep
<1>3. ASSUME I, [Next]_vars, NEW r \in Requests, req[r].reuse,
             Refuse(r) \/ Answer(r) \/ RevokeFamily(r)
      PROVE  \E t \in inFamily(familyOf(r)) : tokens'[t].revoked
  <2>0. /\ inHand(tokens, req[r]) /\ reused(tokens, req[r]) /\ ending(tokens, req[r])
        /\ keepsTokens
    BY <1>3, KeepsStep DEF Typed, HandsOK, OverIsOver, ReuseIsSeen
  <2>1. inTable(tokens, req[r].token) /\ req[r].token \in inFamily(familyOf(r))
    BY <1>3, <2>0 DEF reused, inHand, inTable, inFamily, familyOf
  <2>2. CASE Refuse(r)
    <3>1. tokens[req[r].token].revoked
      BY <1>3, <2>0, <2>2 DEF Refuse, judged, reused
    <3> QED BY <2>0, <2>1, <3>1 DEF keepsTokens, inTable
  <2>3. CASE Answer(r)
    BY <1>3, <2>0, <2>3 DEF Answer, reused
  <2>4. CASE RevokeFamily(r)
    <3>1. ended(tokens, familyOf(r)) \/ reaches(tokens, req[r].toRevoke, familyOf(r))
      BY <2>0, <2>4 DEF RevokeFamily, endsAll, endingAll, ending, familyOf
    <3>2. PICK t \in inFamily(familyOf(r)) : tokens[t].revoked \/ t \in req[r].toRevoke
      BY <3>1 DEF ended, reaches, inTable, inFamily
    <3>3. t \in TokenIds /\ tokens[t] # None /\ tokens[t] \in Token
      BY <1>3 DEF inFamily, Typed, TypeOK
    <3>4. CASE tokens[t].revoked
      BY <2>0, <3>3, <3>4 DEF keepsTokens
    <3>5. CASE t \in req[r].toRevoke
      BY <2>4, <3>3, <3>5 DEF RevokeFamily, revoked, Token
    <3> QED BY <3>2, <3>4, <3>5
  <2> QED BY <1>3, <2>2, <2>3, <2>4
<1>4. I /\ [Next]_vars => [Ends]_vars
  <2> HIDE DEF I
  <2> QED BY <1>3
<1> HIDE DEF I
<1> QED BY <1>1, <1>2, <1>4, PTL DEF Spec, ReuseEndsTheFamily
=============================================================================
