------------------------ MODULE BrowserSessionProofs ------------------------
(***************************************************************************)
(* Theorems of BrowserSession, for any set of tabs, Viewers, tokens and    *)
(* calls in flight.                                                        *)
(***************************************************************************)
EXTENDS BrowserSession, TLAPS

(* What a call must have for whatever handles it next. *)
callOK(call) ==
    /\ call.act = "login" /\ call.stage = "sent" => call.viewer # None
    /\ call.act = "login" => call.tab = None \/ call.tab \in Tabs
    /\ call.act \in {"me", "actOnViewer", "change"} => call.viewer # None /\ call.tab # None
    /\ call.ok /\ call.act \in {"login", "refresh"} => call.viewer # None
    /\ call.act = "refresh" => call.from # "signed-out"
    /\ call.stage = "arrived" => call.tab # None
    /\ call.stage = "sent" => ~call.ok /\ call.cookie = None
    /\ call.ok /\ call.act = "refresh" => call.presented # None

CallsOK == \A c \in Calls : calls[c] # None => callOK(calls[c])

Shape == TypeOK /\ CallsOK

(* A timer is set only where somebody is signed in. *)
TimersFollow == \A tab \in Tabs : renewal[tab] => session[tab].status = "signed-in"

(* The tokens a call or the cookie holds were issued. *)
known(rows, call) ==
    /\ call.presented # None => rows[call.presented] # None
    /\ call.cookie # None => rows[call.cookie] # None

TokensKnown ==
    /\ cookie # None => tokens[cookie] # None
    /\ \A c \in Calls : calls[c] # None => known(tokens, calls[c])

Typed == Shape /\ TimersFollow /\ TokensKnown

LEMMA SessionFacts ==
    /\ unknown \in Session /\ signedOut \in Session
    /\ \A v \in Viewers : signedInAs(v) \in Session
    /\ \A s \in Session :
          /\ s.status \in {"unknown", "signed-in", "signed-out"}
          /\ s.status = "signed-in" => s.accessToken \in Viewers /\ s.viewer \in Viewers
          /\ s.status # "signed-in" => s.accessToken = None /\ s.viewer = None
BY DEF Session, unknown, signedOut, signedInAs

LEMMA SendingFacts ==
    ASSUME TypeOK, NEW tab \in Tabs, NEW v \in {None} \cup Viewers,
           NEW act \in {"login", "refresh", "logout", "me", "actOnViewer", "change"}
    PROVE  sending(tab, act, v) \in Call /\ sending(tab, act, v) # None
<1>1. session[tab].status \in {"unknown", "signed-in", "signed-out"}
  BY SessionFacts DEF TypeOK
<1>2. sending(tab, act, v) \in Call
  BY <1>1 DEF sending, Call, TypeOK
<1> QED BY <1>2, NoneAssumption

LEMMA IssuedFacts ==
    ASSUME NEW f \in TokenIds, NEW v \in Viewers
    PROVE  issued(f, v) \in Token /\ issued(f, v) # None /\ ~issued(f, v).spent
BY NoneAssumption DEF issued, Token

(* A step that changes one call is fine when that call is. *)
LEMMA OneCall ==
    ASSUME Shape, NEW c \in Calls, NEW R \in {None} \cup Call, R # None => callOK(R),
           calls' = [calls EXCEPT ![c] = R]
    PROVE  calls' \in [Calls -> {None} \cup Call] /\ CallsOK'
<1>1. \A d \in Calls : calls'[d] = IF d = c THEN R ELSE calls[d]
  BY DEF Shape, TypeOK
<1>2. calls' \in [Calls -> {None} \cup Call]
  BY DEF Shape, TypeOK
<1>3. ASSUME NEW d \in Calls, calls'[d] # None PROVE callOK(calls'[d])
  BY <1>1, <1>3 DEF Shape, CallsOK
<1> QED BY <1>2, <1>3 DEF CallsOK

LEMMA SendKeeps ==
    ASSUME Shape, NEW tab \in Tabs, NEW c \in Calls, NEW v \in {None} \cup Viewers,
           NEW act \in {"login", "refresh", "logout", "me", "actOnViewer", "change"},
           act \in {"login", "me", "actOnViewer", "change"} => v # None,
           act = "refresh" => session[tab].status # "signed-out",
           send(c, sending(tab, act, v))
    PROVE  calls' \in [Calls -> {None} \cup Call] /\ CallsOK'
<1>1. sending(tab, act, v) \in Call
  BY SendingFacts DEF Shape
<1>2. callOK(sending(tab, act, v))
  BY NoneAssumption DEF callOK, sending
<1> QED BY <1>1, <1>2, OneCall DEF send

(* Taking a call off, alone or with the queries of a tab. *)
LEMMA DropKeeps ==
    ASSUME Shape, \A d \in Calls : calls'[d] \in {None, calls[d]},
           calls' = [d \in Calls |-> calls'[d]]
    PROVE  calls' \in [Calls -> {None} \cup Call] /\ CallsOK'
<1>1. ASSUME NEW d \in Calls PROVE calls'[d] \in {None} \cup Call
  BY DEF Shape, TypeOK
<1>2. ASSUME NEW d \in Calls, calls'[d] # None PROVE callOK(calls'[d])
  BY <1>2 DEF Shape, CallsOK
<1>3. calls' \in [Calls -> {None} \cup Call]
  BY <1>1
<1> QED BY <1>2, <1>3 DEF CallsOK

LEMMA DoneKeeps ==
    ASSUME Shape, NEW c \in Calls, done(c)
    PROVE  calls' \in [Calls -> {None} \cup Call] /\ CallsOK'
BY OneCall DEF done

LEMMA EndingKeeps ==
    ASSUME Shape, NEW c \in Calls, NEW tab \in Tabs, endSession(c, tab)
    PROVE  /\ calls' \in [Calls -> {None} \cup Call] /\ CallsOK'
           /\ session' \in [Tabs -> Session]
           /\ renewal' \in [Tabs -> BOOLEAN]
           /\ cached' \in [Tabs -> SUBSET Viewers]
           /\ garbled' \subseteq Tabs
           /\ swapped' \subseteq Tabs
           /\ late' \in [Tabs -> SUBSET Viewers]
<1>1. \A d \in Calls : calls'[d] \in {None, calls[d]}
  BY DEF endSession
<1>2. calls' = [d \in Calls |-> calls'[d]]
  BY DEF endSession
<1> HIDE DEF endSession
<1>3. calls' \in [Calls -> {None} \cup Call] /\ CallsOK'
  BY <1>1, <1>2, DropKeeps
<1> QED BY <1>3, SessionFacts DEF endSession, Shape, TypeOK

(* What an answer makes of the call it answers. *)
LEMMA AnswerKeeps ==
    ASSUME Shape, NEW c \in Calls, calls[c] # None, calls[c].stage = "sent",
           NEW ok \in BOOLEAN, NEW v \in {None} \cup Viewers,
           ok /\ calls[c].act \in {"login", "refresh"} => v # None,
           calls[c].act \in {"me", "actOnViewer", "change"} => v # None,
           ok /\ calls[c].act = "refresh" => calls[c].presented # None,
           \/ answer(c, ok, v)
           \/ \E t \in {None} \cup TokenIds : answerWithCookie(c, ok, v, t)
    PROVE  calls' \in [Calls -> {None} \cup Call] /\ CallsOK'
<1>1. calls[c] \in Call /\ callOK(calls[c])
  BY DEF Shape, TypeOK, CallsOK
<1>2. CASE answer(c, ok, v)
  <2> DEFINE R == [calls[c] EXCEPT !.stage = "answered", !.ok = ok, !.viewer = v]
  <2>1. R \in Call /\ callOK(R)
    BY <1>1 DEF Call, callOK
  <2>2. calls' = [calls EXCEPT ![c] = R]
    BY <1>2 DEF answer, Shape, TypeOK
  <2> QED BY <2>1, <2>2, OneCall
<1>3. ASSUME NEW t \in {None} \cup TokenIds, answerWithCookie(c, ok, v, t)
      PROVE  calls' \in [Calls -> {None} \cup Call] /\ CallsOK'
  <2> DEFINE R == [calls[c] EXCEPT !.stage = "answered", !.ok = ok, !.viewer = v,
                                   !.sets = TRUE, !.cookie = t]
  <2>1. R \in Call /\ callOK(R)
    BY <1>1 DEF Call, callOK
  <2>2. calls' = [calls EXCEPT ![c] = R]
    BY <1>3 DEF answerWithCookie, Shape, TypeOK
  <2> QED BY <2>1, <2>2, OneCall
<1> QED BY <1>2, <1>3

(* A change about the Viewer who is signed in is a change of nothing here:
   their name was there. *)
LEMMA FollowKeeps ==
    ASSUME TypeOK, NEW tab \in Tabs, NEW v, followViewer(tab, v)
    PROVE  session' = session
<1>1. CASE session[tab].status = "signed-in" /\ session[tab].viewer = v
  <2>1. session[tab] \in [status: {"signed-in"}, accessToken: Viewers, viewer: Viewers]
    BY <1>1 DEF TypeOK, Session, unknown, signedOut
  <2>2. [session[tab] EXCEPT !.viewer = v] = session[tab]
    BY <1>1, <2>1
  <2>3. session' = [session EXCEPT ![tab] = [session[tab] EXCEPT !.viewer = v]]
    BY <1>1 DEF followViewer
  <2> QED BY <2>2, <2>3 DEF TypeOK
<1>2. CASE ~(session[tab].status = "signed-in" /\ session[tab].viewer = v)
  BY <1>2 DEF followViewer
<1> QED BY <1>1, <1>2

LEMMA EndedFacts ==
    ASSUME TypeOK
    PROVE  /\ \A f : /\ ended(tokens, f) \in [TokenIds -> {None} \cup Token]
                     /\ \A t \in TokenIds :
                           /\ tokens[t] # None <=> ended(tokens, f)[t] # None
                           /\ tokens[t] # None => ended(tokens, f)[t].spent = tokens[t].spent
<1>1. \A t \in TokenIds : tokens[t] = None \/ tokens[t] \in Token
  BY DEF TypeOK
<1>2. \A row \in Token : /\ [row EXCEPT !.revoked = TRUE] \in Token
                         /\ [row EXCEPT !.revoked = TRUE].spent = row.spent
  BY DEF Token
<1>3. \A row \in Token : row # None
  BY NoneAssumption
<1> HIDE DEF Token
<1> QED BY <1>1, <1>2, <1>3 DEF ended

-----------------------------------------------------------------------------
(* Types *)

LEMMA TypedInit == Init => Typed
BY SessionFacts, NoneAssumption DEF Init, Typed, Shape, TypeOK, CallsOK, TimersFollow, TokensKnown

LEMMA ShapeStep == Typed /\ [Next]_vars => Shape'
<1> SUFFICES ASSUME Shape, TimersFollow, TokensKnown, [Next]_vars PROVE Shape'
  BY DEF Typed
<1> USE DEF Shape
<1>1. ASSUME NEW tab \in Tabs, NEW c \in Calls, NEW v \in Viewers, SignIn(tab, c, v)
      PROVE Shape'
  BY <1>1, SendKeeps, NoneAssumption DEF SignIn, TypeOK, history
<1>2. ASSUME NEW tab \in Tabs, NEW c \in Calls, NEW v \in Viewers, ActOnViewer(tab, c, v)
      PROVE Shape'
  BY <1>2, SendKeeps, NoneAssumption DEF ActOnViewer, TypeOK, history
<1>3. ASSUME NEW tab \in Tabs, NEW c \in Calls, Renew(tab, c) PROVE Shape'
  <2>1. session[tab].status = "signed-in"
    BY <1>3 DEF Renew, TimersFollow
  <2>2. calls' \in [Calls -> {None} \cup Call] /\ CallsOK'
    BY <1>3, <2>1, SendKeeps DEF Renew
  <2> QED BY <1>3, <2>2 DEF Renew, TypeOK, history
<1>4. ASSUME NEW tab \in Tabs, NEW c \in Calls, SignOut(tab, c) PROVE Shape'
  BY <1>4, SendKeeps DEF SignOut, TypeOK, history
<1>5. ASSUME NEW tab \in Tabs, NEW c \in Calls, Load(tab, c) PROVE Shape'
  <2> DEFINE R == [sending(tab, "refresh", None) EXCEPT !.from = "unknown"]
  <2>1. R \in Call /\ callOK(R)
    <3>1. sending(tab, "refresh", None) \in Call
      BY SendingFacts
    <3> QED BY <3>1 DEF sending, callOK, Call
  <2>2. ASSUME NEW d \in Calls
        PROVE  /\ calls'[d] \in {None} \cup Call
               /\ calls'[d] # None => callOK(calls'[d])
    <3>1. calls[d] \in {None} \cup Call /\ (calls[d] # None => callOK(calls[d]))
      BY DEF TypeOK, CallsOK
    <3>2. \/ calls'[d] \in {R, None, calls[d]}
          \/ /\ calls[d] # None /\ calls[d].stage # "arrived"
             /\ calls[d].act \notin {"me", "actOnViewer", "change"}
             /\ calls'[d] = [calls[d] EXCEPT !.tab = None]
      BY <1>5 DEF Load
    <3>3. CASE calls'[d] \in {R, None, calls[d]}
      BY <2>1, <3>1, <3>3
    <3>4. CASE /\ calls[d] # None /\ calls[d].stage # "arrived"
               /\ calls[d].act \notin {"me", "actOnViewer", "change"}
               /\ calls'[d] = [calls[d] EXCEPT !.tab = None]
      BY <3>1, <3>4 DEF callOK, Call
    <3> QED BY <3>2, <3>3, <3>4
  <2>3. calls' = [d \in Calls |-> calls'[d]]
    BY <1>5 DEF Load
  <2>4. calls' \in [Calls -> {None} \cup Call] /\ CallsOK'
    BY <2>2, <2>3 DEF CallsOK
  <2> QED BY <1>5, <2>4, SessionFacts DEF Load, TypeOK
<1>6. ASSUME NEW tab \in Tabs, NEW c \in Calls, AskWhoIAm(tab, c) PROVE Shape'
  <2>1. session[tab].accessToken \in Viewers
    BY <1>6, SessionFacts DEF AskWhoIAm, TypeOK
  <2> QED BY <1>6, <2>1, SendKeeps, NoneAssumption DEF AskWhoIAm, TypeOK, history
<1>21. ASSUME NEW tab \in Tabs, NEW c \in Calls, ChangeQuestion(tab, c) PROVE Shape'
  <2>1. session[tab].accessToken \in Viewers
    BY <1>21, SessionFacts DEF ChangeQuestion, TypeOK
  <2> QED BY <1>21, <2>1, SendKeeps, NoneAssumption DEF ChangeQuestion, TypeOK, history
<1>7. ASSUME NEW c \in Calls, Login(c) PROVE Shape'
  <2>1. /\ calls[c] # None /\ calls[c].stage = "sent" /\ calls[c].act = "login"
        /\ calls[c].viewer \in Viewers
    BY <1>7 DEF Login, asks, TypeOK, Call, CallsOK, callOK
  <2>2. CASE answer(c, FALSE, None) /\ UNCHANGED tokens
    BY <1>7, <2>1, <2>2, AnswerKeeps DEF Login, TypeOK, history
  <2>3. ASSUME NEW t \in TokenIds,
               tokens' = [tokens EXCEPT ![t] = issued(t, calls[c].viewer)],
               answerWithCookie(c, TRUE, calls[c].viewer, t)
        PROVE Shape'
    <3>1. calls' \in [Calls -> {None} \cup Call] /\ CallsOK'
      BY <2>1, <2>3, AnswerKeeps, NoneAssumption
    <3>2. tokens' \in [TokenIds -> {None} \cup Token]
      BY <2>1, <2>3, IssuedFacts DEF TypeOK
    <3> QED BY <1>7, <3>1, <3>2 DEF Login, TypeOK, history
  <2> QED BY <1>7, <2>2, <2>3 DEF Login
<1>8. ASSUME NEW c \in Calls, RefuseRefresh(c) PROVE Shape'
  <2>1. calls[c] # None /\ calls[c].stage = "sent" /\ calls[c].act = "refresh"
    BY <1>8 DEF RefuseRefresh, asks
  <2>2. answer(c, FALSE, None) \/ answerWithCookie(c, FALSE, None, None)
    BY <1>8 DEF RefuseRefresh
  <2>3. calls' \in [Calls -> {None} \cup Call] /\ CallsOK'
    BY <2>1, <2>2, AnswerKeeps
  <2>4. tokens' \in [TokenIds -> {None} \cup Token]
    BY <1>8, EndedFacts DEF RefuseRefresh, TypeOK
  <2> QED BY <1>8, <2>3, <2>4 DEF RefuseRefresh, TypeOK, history
<1>9. ASSUME NEW c \in Calls, Rotate(c) PROVE Shape'
  <2> DEFINE t == calls[c].presented
  <2>1. /\ calls[c] # None /\ calls[c].stage = "sent" /\ calls[c].act = "refresh"
        /\ t \in TokenIds
    BY <1>9 DEF Rotate, asks, TypeOK, Call
  <2>2. PICK next \in TokenIds :
          /\ tokens[next] = None
          /\ tokens' = [tokens EXCEPT ![t].spent = TRUE,
                                      ![next] = issued(tokens[t].family, tokens[t].viewer)]
          /\ answerWithCookie(c, TRUE, tokens[t].viewer, next)
    BY <1>9 DEF Rotate
  <2>3. tokens[t] \in Token
    BY <2>1, NoneAssumption DEF TypeOK, TokensKnown, known
  <2>4. calls' \in [Calls -> {None} \cup Call] /\ CallsOK'
    BY <2>1, <2>2, <2>3, AnswerKeeps, NoneAssumption DEF Token
  <2>5. tokens' \in [TokenIds -> {None} \cup Token]
    <3>1. issued(tokens[t].family, tokens[t].viewer) \in Token
      BY <2>3, IssuedFacts DEF Token
    <3>2. [tokens[t] EXCEPT !.spent = TRUE] \in Token
      BY <2>3 DEF Token
    <3> QED BY <2>1, <2>2, <3>1, <3>2 DEF TypeOK
  <2> QED BY <1>9, <2>4, <2>5 DEF Rotate, TypeOK, history
<1>10. ASSUME NEW c \in Calls, LogOut(c) PROVE Shape'
  <2>1. calls[c] # None /\ calls[c].stage = "sent" /\ calls[c].act = "logout"
    BY <1>10 DEF LogOut, asks
  <2>2. calls' \in [Calls -> {None} \cup Call] /\ CallsOK'
    BY <1>10, <2>1, AnswerKeeps DEF LogOut
  <2>3. tokens' \in [TokenIds -> {None} \cup Token]
    BY <1>10, EndedFacts DEF LogOut, TypeOK
  <2> QED BY <1>10, <2>2, <2>3 DEF LogOut, TypeOK, history
<1>11. ASSUME NEW c \in Calls, AnswerOther(c) PROVE Shape'
  <2>1. /\ calls[c] # None /\ calls[c].stage = "sent"
        /\ calls[c].act \in {"me", "actOnViewer", "change"} /\ calls[c].viewer \in Viewers
    BY <1>11 DEF AnswerOther, asks, TypeOK, Call, CallsOK, callOK
  <2>2. calls' \in [Calls -> {None} \cup Call] /\ CallsOK'
    BY <1>11, <2>1, AnswerKeeps, NoneAssumption DEF AnswerOther
  <2> QED BY <1>11, <2>2 DEF AnswerOther, TypeOK, history
<1>12. ASSUME NEW v \in Viewers, EndedElsewhere(v) PROVE Shape'
  <2>1. tokens' \in [TokenIds -> {None} \cup Token]
    BY <1>12 DEF EndedElsewhere, TypeOK, Token
  <2> QED BY <1>12, <2>1 DEF EndedElsewhere, TypeOK, CallsOK, history
<1>13. ASSUME NEW c \in Calls, Arrive(c) PROVE Shape'
  <2>1. calls[c] \in Call /\ calls[c].stage = "answered" /\ callOK(calls[c])
    BY <1>13 DEF Arrive, TypeOK, CallsOK
  <2> DEFINE R == IF calls[c].tab = None THEN None ELSE [calls[c] EXCEPT !.stage = "arrived"]
  <2>2. R \in {None} \cup Call /\ (R # None => callOK(R))
    BY <2>1 DEF Call, callOK
  <2>3. calls' \in [Calls -> {None} \cup Call] /\ CallsOK'
    BY <1>13, <2>2, OneCall DEF Arrive
  <2>4. cookie' \in {None} \cup TokenIds
    BY <1>13, <2>1 DEF Arrive, TypeOK, Call
  <2> QED BY <1>13, <2>3, <2>4 DEF Arrive, TypeOK, history
<1>14. ASSUME NEW c \in Calls, SignedIn(c) PROVE Shape'
  <2>1. /\ calls[c] \in Call /\ calls[c].tab \in Tabs /\ calls[c].viewer \in Viewers
    BY <1>14 DEF SignedIn, arrived, TypeOK, Call, CallsOK, callOK
  <2>2. calls' \in [Calls -> {None} \cup Call] /\ CallsOK'
    BY <1>14, DoneKeeps DEF SignedIn
  <2> QED BY <1>14, <2>1, <2>2, SessionFacts DEF SignedIn, beginSession, TypeOK
<1>15. ASSUME NEW c \in Calls, LoginRefused(c) PROVE Shape'
  BY <1>15, DoneKeeps DEF LoginRefused, TypeOK, history
<1>16. ASSUME NEW c \in Calls, NoSession(c) PROVE Shape'
  <2>1. calls[c].tab \in Tabs
    BY <1>16 DEF NoSession, arrived, TypeOK, Call, CallsOK, callOK
  <2> QED BY <1>16, <2>1, EndingKeeps DEF NoSession, TypeOK
<1>17. ASSUME NEW c \in Calls, Unreadable(c) PROVE Shape'
  <2>1. calls[c].tab \in Tabs
    BY <1>17 DEF Unreadable, arrived, TypeOK, Call, CallsOK, callOK
  <2> QED BY <1>17, <2>1, DoneKeeps DEF Unreadable, TypeOK
<1>18. ASSUME NEW c \in Calls, ViewerRead(c) PROVE Shape'
  <2>1. calls[c].tab \in Tabs /\ calls[c].viewer \in Viewers
    BY <1>18 DEF ViewerRead, arrived, TypeOK, Call, CallsOK, callOK
  <2>2. session' = session
    BY <1>18, <2>1, FollowKeeps DEF ViewerRead
  <2> QED BY <1>18, <2>1, <2>2, DoneKeeps DEF ViewerRead, TypeOK, history
<1>22. ASSUME NEW c \in Calls, ChangeKept(c) PROVE Shape'
  <2>1. calls[c].tab \in Tabs /\ calls[c].viewer \in Viewers
    BY <1>22 DEF ChangeKept, arrived, TypeOK, Call, CallsOK, callOK
  <2>2. cached' \in [Tabs -> SUBSET Viewers] /\ late' \in [Tabs -> SUBSET Viewers]
    BY <1>22, <2>1 DEF ChangeKept, TypeOK
  <2> QED BY <1>22, <2>2, DoneKeeps DEF ChangeKept, TypeOK
<1>19. ASSUME NEW c \in Calls, Fail(c) PROVE Shape'
  <2>1. calls[c] \in Call /\ calls[c].tab \in {None} \cup Tabs
    BY <1>19 DEF Fail, TypeOK, Call
  <2>2. unseen' \subseteq TokenIds
    BY <1>19, <2>1 DEF Fail, TypeOK, Call, CallsOK, callOK
  <2>3. CASE calls[c].tab # None /\ calls[c].act \in {"refresh", "logout"}
    BY <1>19, <2>1, <2>2, <2>3, EndingKeeps DEF Fail, TypeOK
  <2>4. CASE ~(calls[c].tab # None /\ calls[c].act \in {"refresh", "logout"})
    BY <1>19, <2>2, <2>4, DoneKeeps DEF Fail, TypeOK
  <2> QED BY <2>3, <2>4
<1>20. CASE UNCHANGED vars
  BY <1>20 DEF vars, TypeOK, CallsOK
<1> QED
  BY <1>1, <1>2, <1>3, <1>4, <1>5, <1>6, <1>7, <1>8, <1>9, <1>10, <1>11, <1>12, <1>13,
     <1>14, <1>15, <1>16, <1>17, <1>18, <1>19, <1>20, <1>21, <1>22 DEF Next

(* No row is taken out of the table, and only an exchange spends one. *)
LEMMA RowsKept ==
    ASSUME Typed, [Next]_vars, NEW t \in TokenIds, tokens[t] # None
    PROVE  /\ tokens'[t] # None
           /\ \/ tokens'[t].spent = tokens[t].spent
              \/ \E c \in Calls : Rotate(c) /\ calls[c].presented = t
<1>1. tokens[t] \in Token
  BY DEF Typed, Shape, TypeOK
<1>2. CASE UNCHANGED tokens
  BY <1>2
<1>3. ASSUME NEW c \in Calls, Login(c) PROVE tokens'[t] = tokens[t]
  BY <1>3 DEF Login, Typed, Shape, TypeOK
<1>4. ASSUME NEW c \in Calls, RefuseRefresh(c) \/ LogOut(c)
      PROVE  tokens'[t] # None /\ tokens'[t].spent = tokens[t].spent
  BY <1>4, EndedFacts DEF RefuseRefresh, LogOut, Typed, Shape
<1>5. ASSUME NEW c \in Calls, Rotate(c)
      PROVE  /\ tokens'[t] # None
             /\ tokens'[t].spent = tokens[t].spent \/ calls[c].presented = t
  <2>1. [tokens[t] EXCEPT !.spent = TRUE] # None
    BY <1>1, NoneAssumption DEF Token
  <2> QED BY <1>1, <1>5, <2>1 DEF Rotate, Typed, Shape, TypeOK
<1>6. ASSUME NEW v \in Viewers, EndedElsewhere(v)
      PROVE  tokens'[t] # None /\ tokens'[t].spent = tokens[t].spent
  <2>1. [tokens[t] EXCEPT !.revoked = TRUE] # None
    BY <1>1, NoneAssumption DEF Token
  <2> QED BY <1>1, <1>6, <2>1 DEF EndedElsewhere, Token
<1>7. \/ UNCHANGED tokens
      \/ \E c \in Calls : Login(c) \/ RefuseRefresh(c) \/ LogOut(c) \/ Rotate(c)
      \/ \E v \in Viewers : EndedElsewhere(v)
  BY DEF Next, vars, SignIn, ActOnViewer, Renew, SignOut, Load, AskWhoIAm, ChangeQuestion, AnswerOther, Arrive,
         SignedIn, LoginRefused, NoSession, Unreadable, ViewerRead, ChangeKept, Fail
<1> QED BY <1>2, <1>3, <1>4, <1>5, <1>6, <1>7

LEMMA TimersStep == Typed /\ [Next]_vars => TimersFollow'
<1> SUFFICES ASSUME Typed, [Next]_vars PROVE TimersFollow'
  OBVIOUS
<1> USE DEF Typed, Shape
<1>1. CASE UNCHANGED <<session, renewal>>
  BY <1>1 DEF TimersFollow
<1>2. ASSUME NEW tab \in Tabs, NEW c \in Calls, Renew(tab, c) \/ Load(tab, c)
      PROVE  TimersFollow'
  BY <1>2 DEF TimersFollow, Renew, Load, TypeOK
<1>3. ASSUME NEW c \in Calls, SignedIn(c) PROVE TimersFollow'
  BY <1>3 DEF TimersFollow, SignedIn, beginSession, signedInAs, TypeOK
<1>4. ASSUME NEW c \in Calls, NEW tab, endSession(c, tab) PROVE TimersFollow'
  BY <1>4 DEF TimersFollow, endSession, TypeOK
<1>5. ASSUME NEW c \in Calls, ViewerRead(c) PROVE TimersFollow'
  <2>1. calls[c].tab \in Tabs
    BY <1>5 DEF ViewerRead, arrived, TypeOK, Call, CallsOK, callOK
  <2>2. session' = session
    BY <1>5, <2>1, FollowKeeps DEF ViewerRead
  <2> QED BY <1>5, <2>2 DEF ViewerRead, TimersFollow
<1>6. \/ UNCHANGED <<session, renewal>>
      \/ \E tab \in Tabs, c \in Calls : Renew(tab, c) \/ Load(tab, c)
      \/ \E c \in Calls : SignedIn(c) \/ ViewerRead(c) \/ endSession(c, calls[c].tab)
  BY DEF Next, vars, SignIn, ActOnViewer, SignOut, AskWhoIAm, ChangeQuestion, Login, RefuseRefresh, Rotate,
         LogOut, AnswerOther, EndedElsewhere, Arrive, LoginRefused, NoSession, Unreadable, ChangeKept, Fail
<1> QED BY <1>1, <1>2, <1>3, <1>4, <1>5, <1>6

(* Where a step leaves what a call presents and what its answer sets. *)
LEMMA KnownStep == Typed /\ [Next]_vars => TokensKnown'
<1> SUFFICES ASSUME Typed, [Next]_vars PROVE TokensKnown'
  OBVIOUS
<1> USE DEF Typed, Shape
<1>1. \A t \in TokenIds : tokens[t] # None => tokens'[t] # None
  BY RowsKept
<1>2. \A t \in {None} \cup TokenIds : t \in TokenIds \/ t = None
  OBVIOUS
<1>3. ASSUME NEW d \in Calls, calls'[d] # None,
             calls[d] # None,
             calls'[d].presented = calls[d].presented, calls'[d].cookie = calls[d].cookie
      PROVE  known(tokens', calls'[d])
  BY <1>1, <1>3 DEF TokensKnown, known, TypeOK, Call
<1>4. ASSUME NEW tab \in Tabs, NEW c \in Calls, NEW v \in {None} \cup Viewers,
             NEW act \in {"login", "refresh", "logout", "me", "actOnViewer", "change"},
             send(c, sending(tab, act, v)), UNCHANGED <<cookie, tokens>>
      PROVE  TokensKnown'
  <2>1. known(tokens', sending(tab, act, v))
    BY <1>4 DEF known, sending, TokensKnown
  <2>2. \A d \in Calls : calls'[d] = IF d = c THEN sending(tab, act, v) ELSE calls[d]
    BY <1>4 DEF send, TypeOK
  <2> QED BY <1>4, <2>1, <2>2 DEF TokensKnown
<1>5. ASSUME NEW c \in Calls, NEW tab \in Tabs, Load(tab, c) PROVE TokensKnown'
  <2>1. known(tokens', [sending(tab, "refresh", None) EXCEPT !.from = "unknown"])
    BY <1>5 DEF known, sending, TokensKnown, Load
  <2>2. ASSUME NEW d \in Calls, calls'[d] # None PROVE known(tokens', calls'[d])
    <3>1. CASE d = c
      BY <1>5, <2>1, <3>1 DEF Load
    <3>2. CASE d # c
      <4>1. calls[d] \in Call
        BY <1>5, <2>2, <3>2 DEF Load, TypeOK
      <4>2. calls'[d] = calls[d] \/ calls'[d] = [calls[d] EXCEPT !.tab = None]
        BY <1>5, <2>2, <3>2 DEF Load
      <4> QED BY <1>3, <2>2, <4>1, <4>2, NoneAssumption DEF Call
    <3> QED BY <3>1, <3>2
  <2> QED BY <1>5, <2>2 DEF TokensKnown, Load
<1>6. ASSUME NEW c \in Calls, NEW ok, NEW v, NEW t \in {None} \cup TokenIds,
             calls[c] # None, answer(c, ok, v) \/ answerWithCookie(c, ok, v, t),
             t # None => tokens'[t] # None, cookie' = cookie
      PROVE  TokensKnown'
  <2>1. calls[c] \in Call /\ known(tokens, calls[c])
    BY <1>6 DEF TypeOK, TokensKnown
  <2>2. known(tokens', calls'[c])
    BY <1>1, <1>6, <2>1 DEF known, answer, answerWithCookie, TypeOK, Call
  <2>3. \A d \in Calls : d # c => calls'[d] = calls[d]
    BY <1>6 DEF answer, answerWithCookie, TypeOK
  <2>4. \A d \in Calls : calls'[d] # None => known(tokens', calls'[d])
    BY <1>3, <2>2, <2>3
  <2> QED BY <1>1, <1>6, <2>4 DEF TokensKnown, TypeOK
<1>7. ASSUME NEW c \in Calls, Arrive(c) PROVE TokensKnown'
  <2>1. calls[c] \in Call /\ known(tokens, calls[c])
    BY <1>7 DEF Arrive, TypeOK, TokensKnown
  <2>2. cookie' # None => tokens'[cookie'] # None
    BY <1>1, <1>7, <2>1 DEF Arrive, TypeOK, Call, known, TokensKnown
  <2>3. ASSUME NEW d \in Calls, calls'[d] # None PROVE known(tokens', calls'[d])
    BY <1>3, <1>7, <2>1, <2>3 DEF Arrive, TypeOK, Call
  <2> QED BY <2>2, <2>3 DEF TokensKnown
<1>8. ASSUME \A d \in Calls : calls'[d] \in {None, calls[d]}, cookie' = cookie
      PROVE  TokensKnown'
  BY <1>1, <1>3, <1>8 DEF TokensKnown, TypeOK
<1>9. ASSUME NEW tab \in Tabs, NEW c \in Calls,
             \/ \E v \in Viewers : SignIn(tab, c, v) \/ ActOnViewer(tab, c, v)
             \/ Renew(tab, c) \/ SignOut(tab, c) \/ AskWhoIAm(tab, c)
             \/ ChangeQuestion(tab, c)
      PROVE  TokensKnown'
  <2>1. AskWhoIAm(tab, c) \/ ChangeQuestion(tab, c) => session[tab].accessToken \in Viewers
    BY SessionFacts DEF AskWhoIAm, ChangeQuestion, TypeOK
  <2> QED BY <1>4, <1>9, <2>1 DEF SignIn, ActOnViewer, Renew, SignOut, AskWhoIAm, ChangeQuestion
<1>10. ASSUME NEW c \in Calls, Login(c) PROVE TokensKnown'
  <2>1. calls[c] # None /\ cookie' = cookie
    BY <1>10 DEF Login, asks
  <2>2. CASE answer(c, FALSE, None)
    BY <1>6, <2>1, <2>2
  <2>3. ASSUME NEW t \in TokenIds,
               tokens' = [tokens EXCEPT ![t] = issued(t, calls[c].viewer)],
               answerWithCookie(c, TRUE, calls[c].viewer, t)
        PROVE  TokensKnown'
    <3>1. calls[c].viewer \in Viewers
      BY <1>10 DEF Login, asks, TypeOK, Call, CallsOK, callOK
    <3>2. tokens'[t] # None
      BY <2>3, <3>1, IssuedFacts DEF TypeOK
    <3> QED BY <1>6, <2>1, <2>3, <3>2
  <2> QED BY <1>10, <2>2, <2>3 DEF Login
<1>11. ASSUME NEW c \in Calls, Rotate(c) PROVE TokensKnown'
  <2> DEFINE t == calls[c].presented
  <2>1. PICK next \in TokenIds :
          /\ tokens' = [tokens EXCEPT ![t].spent = TRUE,
                                      ![next] = issued(tokens[t].family, tokens[t].viewer)]
          /\ answerWithCookie(c, TRUE, tokens[t].viewer, next)
    BY <1>11 DEF Rotate
  <2>2. calls[c] # None /\ cookie' = cookie /\ t \in TokenIds
    BY <1>11 DEF Rotate, asks, TypeOK, Call
  <2>3. tokens[t] \in Token
    BY <1>11, <2>2 DEF Rotate, asks, TypeOK, TokensKnown, known
  <2>4. tokens'[next] # None
    BY <2>1, <2>3, IssuedFacts DEF TypeOK, Token
  <2> QED BY <1>6, <2>1, <2>2, <2>4
<1>12. ASSUME NEW c \in Calls, RefuseRefresh(c) \/ LogOut(c) \/ AnswerOther(c)
       PROVE  TokensKnown'
  <2>1. calls[c] # None /\ cookie' = cookie
    BY <1>12 DEF RefuseRefresh, LogOut, AnswerOther, asks
  <2>2. \E ok, v : answer(c, ok, v) \/ answerWithCookie(c, ok, v, None)
    BY <1>12 DEF RefuseRefresh, LogOut, AnswerOther
  <2> QED BY <1>6, <2>1, <2>2
<1>13. ASSUME NEW c \in Calls,
              \/ SignedIn(c) \/ LoginRefused(c) \/ NoSession(c) \/ Unreadable(c)
              \/ ViewerRead(c) \/ ChangeKept(c) \/ Fail(c)
       PROVE  TokensKnown'
  <2>1. cookie' = cookie
    BY <1>13 DEF SignedIn, LoginRefused, NoSession, Unreadable, ViewerRead, ChangeKept, Fail, history
  <2>2. done(c) \/ endSession(c, calls[c].tab)
    BY <1>13 DEF SignedIn, LoginRefused, NoSession, Unreadable, ViewerRead, ChangeKept, Fail
  <2>3. \A d \in Calls : calls'[d] \in {None, calls[d]}
    BY <2>2 DEF done, endSession, TypeOK
  <2> QED BY <1>8, <2>1, <2>3
<1>14. CASE UNCHANGED <<calls, cookie>>
  BY <1>8, <1>14
<1> QED
  BY <1>5, <1>7, <1>9, <1>10, <1>11, <1>12, <1>13, <1>14 DEF Next, vars, EndedElsewhere

LEMMA Typing == Spec => []Typed
<1>1. Typed /\ [Next]_vars => Typed'
  BY ShapeStep, TimersStep, KnownStep DEF Typed
<1> QED BY <1>1, TypedInit, PTL DEF Spec

(* Sessions, calls, cookie and tokens keep their types whatever overtakes
   what, and no call comes back to a page that is gone. *)
THEOREM TypeCorrect == Spec => []TypeOK
<1>1. Typed => TypeOK
  BY DEF Typed, Shape
<1> QED BY <1>1, Typing, PTL
-----------------------------------------------------------------------------
(* Every tab will learn *)

(* An answer, and its arrival at a page that is there, leave the call in
   flight for the tab that sent it. *)
LEMMA InFlightKept ==
    ASSUME Typed, NEW u \in Tabs, NEW c \in Calls,
           \/ \E tab \in Tabs : \E act, v : send(c, sending(tab, act, v))
           \/ \E ok \in BOOLEAN, v \in {None} \cup Viewers, t \in {None} \cup TokenIds :
                 answer(c, ok, v) \/ answerWithCookie(c, ok, v, t)
           \/ Arrive(c)
           \/ calls' = calls
           \/ done(c) /\ (calls[c] = None \/ calls[c].act # "refresh" \/ calls[c].tab # u)
           \/ \E tab \in Tabs :
                 endSession(c, tab) /\ (calls[c].act # "refresh" \/ calls[c].tab # u),
           Shape',
           inFlight("refresh", u)
    PROVE  inFlight("refresh", u)'
<1>1. PICK d \in Calls : calls[d] # None /\ calls[d].act = "refresh" /\ calls[d].tab = u
  BY DEF inFlight
<1>2. calls[d] \in Call /\ calls'[d] \in {None} \cup Call
  BY <1>1 DEF Typed, Shape, TypeOK
<1>3. calls'[d] # None /\ calls'[d].act = "refresh" /\ calls'[d].tab = u
  <2>1. CASE \E tab \in Tabs : \E act, v : send(c, sending(tab, act, v))
    BY <1>1, <2>1 DEF send, Typed, Shape, TypeOK
  <2>2. ASSUME NEW ok \in BOOLEAN, NEW v \in {None} \cup Viewers,
               NEW t \in {None} \cup TokenIds,
               answer(c, ok, v) \/ answerWithCookie(c, ok, v, t), d = c
        PROVE  calls'[d] # None /\ calls'[d].act = "refresh" /\ calls'[d].tab = u
    <3> DEFINE R == calls'[d]
    <3>1. \/ R = [calls[d] EXCEPT !.stage = "answered", !.ok = ok, !.viewer = v]
          \/ R = [calls[d] EXCEPT !.stage = "answered", !.ok = ok, !.viewer = v,
                                   !.sets = TRUE, !.cookie = t]
      BY <2>2 DEF answer, answerWithCookie, Typed, Shape, TypeOK
    <3>2. R \in Call /\ R.act = "refresh" /\ R.tab = u
      BY <1>1, <1>2, <3>1 DEF Call
    <3> QED BY <3>2, NoneAssumption
  <2>3. ASSUME NEW ok, NEW v, NEW t, answer(c, ok, v) \/ answerWithCookie(c, ok, v, t), d # c
        PROVE  calls'[d] = calls[d]
    BY <2>3 DEF answer, answerWithCookie, Typed, Shape, TypeOK
  <2>4. CASE Arrive(c)
    <3>1. CASE d = c
      <4>1. calls'[d] = [calls[d] EXCEPT !.stage = "arrived"]
        BY <1>1, <2>4, <3>1, NoneAssumption DEF Arrive, Typed, Shape, TypeOK
      <4> QED BY <1>1, <1>2, <4>1, NoneAssumption DEF Call
    <3>2. CASE d # c
      BY <1>1, <2>4, <3>2 DEF Arrive, Typed, Shape, TypeOK
    <3> QED BY <3>1, <3>2
  <2>5. CASE calls' = calls
    BY <1>1, <2>5
  <2>6. CASE done(c) /\ (calls[c] = None \/ calls[c].act # "refresh" \/ calls[c].tab # u)
    BY <1>1, <2>6 DEF done, Typed, Shape, TypeOK
  <2>7. CASE \E tab \in Tabs :
               endSession(c, tab) /\ (calls[c].act # "refresh" \/ calls[c].tab # u)
    BY <1>1, <2>7 DEF endSession
  <2> QED BY <1>1, <2>1, <2>2, <2>3, <2>4, <2>5, <2>6, <2>7
<1> QED BY <1>3 DEF inFlight
(* What EveryTabWillLearn asks of one tab. *)
learns(tab) ==
    \/ tab \in garbled
    \/ /\ session[tab].status = "unknown" => inFlight("refresh", tab)
       /\ session[tab].status = "signed-in" => renewal[tab] \/ inFlight("refresh", tab)

LEMMA LearnStep == Typed /\ Shape' /\ EveryTabWillLearn /\ [Next]_vars => EveryTabWillLearn'
<1> SUFFICES ASSUME Typed, Shape', EveryTabWillLearn, [Next]_vars, NEW u \in Tabs
             PROVE  learns(u)'
  BY DEF EveryTabWillLearn, learns
<1>1. learns(u)
  BY DEF EveryTabWillLearn, learns
<1>2. ASSUME session'[u] = session[u], renewal'[u] = renewal[u], u \in garbled => u \in garbled',
             inFlight("refresh", u) => inFlight("refresh", u)'
      PROVE  learns(u)'
  BY <1>1, <1>2 DEF learns
<1> USE DEF Typed, Shape
<1>3. ASSUME NEW tab \in Tabs, NEW c \in Calls,
             \/ \E v \in Viewers : SignIn(tab, c, v) \/ ActOnViewer(tab, c, v)
             \/ SignOut(tab, c) \/ AskWhoIAm(tab, c) \/ ChangeQuestion(tab, c)
      PROVE  learns(u)'
  <2>1. \E act, v : send(c, sending(tab, act, v))
    BY <1>3 DEF SignIn, ActOnViewer, SignOut, AskWhoIAm, ChangeQuestion
  <2>2. inFlight("refresh", u) => inFlight("refresh", u)'
    BY <2>1, InFlightKept
  <2> QED BY <1>2, <1>3, <2>2 DEF SignIn, ActOnViewer, SignOut, AskWhoIAm, ChangeQuestion, history
<1>4. ASSUME NEW tab \in Tabs, NEW c \in Calls, Renew(tab, c) PROVE learns(u)'
  <2>1. CASE u = tab
    <3>1. /\ sending(tab, "refresh", None) # None
          /\ sending(tab, "refresh", None).act = "refresh"
          /\ sending(tab, "refresh", None).tab = tab
      BY SendingFacts DEF sending
    <3>2. calls'[c] = sending(tab, "refresh", None)
      BY <1>4 DEF Renew, send, TypeOK
    <3>3. inFlight("refresh", u)'
      BY <2>1, <3>1, <3>2 DEF inFlight
    <3> QED BY <3>3 DEF learns
  <2>2. CASE u # tab
    <3>1. inFlight("refresh", u) => inFlight("refresh", u)'
      BY <1>4, InFlightKept DEF Renew
    <3> QED BY <1>2, <1>4, <2>2, <3>1 DEF Renew, TypeOK, history
  <2> QED BY <2>1, <2>2
<1>5. ASSUME NEW tab \in Tabs, NEW c \in Calls, Load(tab, c) PROVE learns(u)'
  <2>1. CASE u = tab
    <3> DEFINE R == [sending(tab, "refresh", None) EXCEPT !.from = "unknown"]
    <3>1. calls'[c] = R
      BY <1>5 DEF Load
    <3>2. R \in Call /\ R.act = "refresh" /\ R.tab = tab
      <4>1. sending(tab, "refresh", None) \in Call
        BY SendingFacts
      <4> QED BY <4>1 DEF sending, Call
    <3>3. inFlight("refresh", u)'
      BY <2>1, <3>1, <3>2, NoneAssumption DEF inFlight
    <3> QED BY <3>3 DEF learns
  <2>2. CASE u # tab
    <3>1. \A d \in Calls : calls[d] # None /\ calls[d].tab = u => calls'[d] = calls[d]
      BY <1>5, <2>2 DEF Load
    <3>2. inFlight("refresh", u) => inFlight("refresh", u)'
      BY <3>1 DEF inFlight
    <3> QED BY <1>2, <1>5, <2>2, <3>2 DEF Load, TypeOK
  <2> QED BY <2>1, <2>2
<1>6. ASSUME NEW c \in Calls,
             Login(c) \/ RefuseRefresh(c) \/ Rotate(c) \/ LogOut(c) \/ AnswerOther(c)
      PROVE  learns(u)'
  <2>1. \E ok \in BOOLEAN, v \in {None} \cup Viewers, t \in {None} \cup TokenIds :
           answer(c, ok, v) \/ answerWithCookie(c, ok, v, t)
    <3>1. calls[c] \in Call
      BY <1>6 DEF Login, RefuseRefresh, Rotate, LogOut, AnswerOther, asks, TypeOK
    <3>2. Rotate(c) => tokens[calls[c].presented].viewer \in Viewers
      BY <3>1 DEF Rotate, asks, TypeOK, Token, Call, TokensKnown, known
    <3> QED BY <1>6, <3>1, <3>2
          DEF Login, RefuseRefresh, Rotate, LogOut, AnswerOther, Call
  <2>2. inFlight("refresh", u) => inFlight("refresh", u)'
    BY <2>1, InFlightKept
  <2> QED BY <1>2, <1>6, <2>2
        DEF Login, RefuseRefresh, Rotate, LogOut, AnswerOther, history
<1>7. ASSUME NEW c \in Calls, Arrive(c) PROVE learns(u)'
  <2>1. inFlight("refresh", u) => inFlight("refresh", u)'
    BY <1>7, InFlightKept
  <2> QED BY <1>2, <1>7, <2>1 DEF Arrive, history
<1>8. ASSUME NEW c \in Calls, SignedIn(c) PROVE learns(u)'
  <2>1. calls[c].tab \in Tabs
    BY <1>8 DEF SignedIn, arrived, TypeOK, Call, CallsOK, callOK
  <2>2. CASE u = calls[c].tab
    BY <1>8, <2>2 DEF SignedIn, beginSession, signedInAs, learns, TypeOK
  <2>3. CASE u # calls[c].tab
    <3>1. inFlight("refresh", u) => inFlight("refresh", u)'
      BY <1>8, <2>3, InFlightKept DEF SignedIn
    <3> QED BY <1>2, <1>8, <2>1, <2>3, <3>1 DEF SignedIn, beginSession, TypeOK
  <2> QED BY <2>2, <2>3
<1>9. ASSUME NEW c \in Calls, calls[c] # None, calls[c].tab \in Tabs,
             calls[c].act \in {"refresh", "logout"}, endSession(c, calls[c].tab)
      PROVE  learns(u)'
  <2>1. CASE u = calls[c].tab
    BY <1>9, <2>1 DEF endSession, signedOut, learns, TypeOK
  <2>2. CASE u # calls[c].tab
    <3>1. inFlight("refresh", u) => inFlight("refresh", u)'
      BY <1>9, <2>2, InFlightKept
    <3> QED BY <1>2, <1>9, <2>2, <3>1 DEF endSession, TypeOK
  <2> QED BY <2>1, <2>2
<1>10. ASSUME NEW c \in Calls, Unreadable(c) PROVE learns(u)'
  <2>1. CASE calls[c].act = "refresh" /\ u = calls[c].tab
    BY <1>10, <2>1 DEF Unreadable, learns
  <2>2. CASE ~(calls[c].act = "refresh" /\ u = calls[c].tab)
    <3>1. inFlight("refresh", u) => inFlight("refresh", u)'
      BY <1>10, <2>2, InFlightKept DEF Unreadable
    <3> QED BY <1>2, <1>10, <3>1 DEF Unreadable
  <2> QED BY <2>1, <2>2
<1>11. ASSUME NEW c \in Calls, done(c), calls[c].act # "refresh" \/ calls[c].tab = None,
              UNCHANGED <<session, renewal, garbled>>
       PROVE  learns(u)'
  <2>1. calls[c].act # "refresh" \/ calls[c].tab # u
    BY <1>11, NoneAssumption
  <2>2. inFlight("refresh", u) => inFlight("refresh", u)'
    BY <1>11, <2>1, InFlightKept
  <2> QED BY <1>2, <1>11, <2>2
<1>12. ASSUME NEW c \in Calls, ViewerRead(c) PROVE learns(u)'
  <2>1. calls[c].tab \in Tabs
    BY <1>12 DEF ViewerRead, arrived, TypeOK, Call, CallsOK, callOK
  <2>2. session' = session
    BY <1>12, <2>1, FollowKeeps DEF ViewerRead
  <2> QED BY <1>11, <1>12, <2>2 DEF ViewerRead, arrived, history
<1>15. ASSUME NEW c \in Calls, ChangeKept(c) PROVE learns(u)'
  BY <1>11, <1>15 DEF ChangeKept, arrived
<1>13. ASSUME NEW c \in Calls, NoSession(c) \/ LoginRefused(c) \/ Fail(c)
       PROVE  learns(u)'
  <2>1. calls[c] \in Call /\ callOK(calls[c])
    BY <1>13 DEF NoSession, LoginRefused, Fail, arrived, TypeOK, CallsOK
  <2>2. \/ /\ calls[c].act \in {"refresh", "logout"} /\ calls[c].tab # None
           /\ endSession(c, calls[c].tab)
        \/ /\ calls[c].act # "refresh" \/ calls[c].tab = None
           /\ done(c) /\ UNCHANGED <<session, renewal, garbled>>
    BY <1>13, <2>1 DEF NoSession, LoginRefused, Fail, arrived, callOK, history
  <2> QED BY <1>9, <1>11, <1>13, <2>1, <2>2 DEF NoSession, LoginRefused, Fail, arrived, Call
<1>14. CASE UNCHANGED <<session, renewal, calls, garbled>>
  BY <1>2, <1>14 DEF inFlight
<1> QED
  BY <1>3, <1>4, <1>5, <1>6, <1>7, <1>8, <1>10, <1>12, <1>13, <1>14, <1>15
     DEF Next, vars, EndedElsewhere, history

(* No tab stays as it is by waiting for nothing: what it knows is renewed or
   asked for, unless an answer the client cannot read broke the chain. *)
THEOREM Learning == Spec => []EveryTabWillLearn
<1>1. Init => EveryTabWillLearn
  <2>1. signedOut.status = "signed-out"
    BY DEF signedOut
  <2> QED BY <2>1 DEF Init, EveryTabWillLearn
<1>2. Typed => Shape
  BY DEF Typed
<1> QED BY <1>1, <1>2, Typing, LearnStep, PTL DEF Spec
-----------------------------------------------------------------------------
(* A spent cookie is unseen *)

(* What an answer on its way sets is nobody's yet: it was not spent, nobody
   has it to present, and no other answer sets it. *)
Fresh ==
    \A c \in Calls : calls[c] # None /\ calls[c].stage = "answered" =>
       /\ calls[c].ok /\ calls[c].act = "refresh" => calls[c].sets
       /\ calls[c].cookie # None =>
             /\ ~tokens[calls[c].cookie].spent
             /\ calls[c].cookie # cookie
             /\ \A d \in Calls : calls[d] # None =>
                   /\ calls[d].presented # calls[c].cookie
                   /\ d # c /\ calls[d].stage = "answered" => calls[d].cookie # calls[c].cookie

(* A step that answers nothing. *)
LEMMA FreshKept ==
    ASSUME Typed, Fresh,
           \A t \in TokenIds : tokens[t] # None => tokens'[t].spent = tokens[t].spent,
           \A d \in Calls : calls'[d] # None =>
              \/ calls'[d].presented \in {None, cookie} /\ calls'[d].stage = "sent"
              \/ /\ calls[d] # None /\ calls'[d].presented = calls[d].presented
                 /\ calls'[d].stage = "answered" =>
                       /\ calls[d].stage = "answered" /\ calls'[d].cookie = calls[d].cookie
                       /\ calls'[d].ok = calls[d].ok /\ calls'[d].act = calls[d].act
                       /\ calls'[d].sets = calls[d].sets,
           \A d \in Calls : calls'[d] # None /\ calls'[d].stage = "answered"
                              /\ calls'[d].cookie # None => calls'[d].cookie # cookie'
    PROVE  Fresh'
<1> SUFFICES ASSUME NEW c \in Calls, calls'[c] # None, calls'[c].stage = "answered"
             PROVE  /\ calls'[c].ok /\ calls'[c].act = "refresh" => calls'[c].sets
                    /\ calls'[c].cookie # None =>
                          /\ ~tokens'[calls'[c].cookie].spent
                          /\ calls'[c].cookie # cookie'
                          /\ \A d \in Calls : calls'[d] # None =>
                                /\ calls'[d].presented # calls'[c].cookie
                                /\ d # c /\ calls'[d].stage = "answered"
                                      => calls'[d].cookie # calls'[c].cookie
  BY DEF Fresh
<1>1. /\ calls[c] \in Call /\ calls[c].stage = "answered" /\ calls'[c].cookie = calls[c].cookie
      /\ calls'[c].ok = calls[c].ok /\ calls'[c].act = calls[c].act
      /\ calls'[c].sets = calls[c].sets
  BY DEF Typed, Shape, TypeOK
<1>2. calls'[c].cookie # None => ~tokens'[calls'[c].cookie].spent
  BY <1>1 DEF Fresh, Typed, TokensKnown, known, Call
<1>3. ASSUME calls'[c].cookie # None, NEW d \in Calls, calls'[d] # None
      PROVE  /\ calls'[d].presented # calls'[c].cookie
             /\ d # c /\ calls'[d].stage = "answered" => calls'[d].cookie # calls'[c].cookie
  BY <1>1, <1>3 DEF Fresh
<1> QED BY <1>1, <1>2, <1>3 DEF Fresh

(* A step that answers one call, with a token that was not issued before. *)
LEMMA FreshAnswer ==
    ASSUME Typed, Fresh, NEW c \in Calls, calls[c] # None, calls[c].stage = "sent",
           NEW ok \in BOOLEAN, NEW v \in {None} \cup Viewers, NEW t \in {None} \cup TokenIds,
           \/ answerWithCookie(c, ok, v, t)
           \/ t = None /\ answer(c, ok, v) /\ (ok => calls[c].act # "refresh"),
           t # None => tokens[t] = None /\ ~tokens'[t].spent,
           \A r \in TokenIds : tokens[r] # None /\ r # calls[c].presented =>
              tokens'[r].spent = tokens[r].spent,
           cookie' = cookie
    PROVE  Fresh'
<1>1. calls[c] \in Call /\ callOK(calls[c])
  BY DEF Typed, Shape, TypeOK, CallsOK
<1>2. /\ calls'[c].presented = calls[c].presented /\ calls'[c].cookie = t
      /\ calls'[c].ok /\ calls'[c].act = "refresh" => calls'[c].sets
  <2>1. CASE answerWithCookie(c, ok, v, t)
    BY <1>1, <2>1 DEF answerWithCookie, Call, Typed, Shape, TypeOK
  <2>2. CASE t = None /\ answer(c, ok, v) /\ (ok => calls[c].act # "refresh")
    BY <1>1, <2>2 DEF answer, Call, callOK, Typed, Shape, TypeOK
  <2> QED BY <2>1, <2>2
<1>3. \A d \in Calls : d # c => calls'[d] = calls[d]
  BY DEF answer, answerWithCookie, Typed, Shape, TypeOK
<1>4. \A d \in Calls : calls[d] # None =>
         /\ calls[d].presented \in {None} \cup TokenIds
         /\ calls[d].cookie \in {None} \cup TokenIds
         /\ calls[d].presented # None => tokens[calls[d].presented] # None
         /\ calls[d].cookie # None => tokens[calls[d].cookie] # None
  BY DEF Typed, Shape, TypeOK, Call, TokensKnown, known
<1>5. cookie # None => tokens[cookie] # None
  BY DEF Typed, TokensKnown
<1> SUFFICES ASSUME NEW e \in Calls, calls'[e] # None, calls'[e].stage = "answered"
             PROVE  /\ calls'[e].ok /\ calls'[e].act = "refresh" => calls'[e].sets
                    /\ calls'[e].cookie # None =>
                          /\ ~tokens'[calls'[e].cookie].spent
                          /\ calls'[e].cookie # cookie'
                          /\ \A d \in Calls : calls'[d] # None =>
                                /\ calls'[d].presented # calls'[e].cookie
                                /\ d # e /\ calls'[d].stage = "answered"
                                      => calls'[d].cookie # calls'[e].cookie
  BY DEF Fresh
<1>6. CASE e = c
  <2>1. ASSUME t # None, NEW d \in Calls, calls'[d] # None
        PROVE  /\ calls'[d].presented # t
               /\ d # c => calls'[d].cookie # t
    BY <1>2, <1>3, <1>4, <2>1
  <2> QED BY <1>2, <1>5, <1>6, <2>1
<1>7. CASE e # c
  <2>1. /\ calls[e] # None /\ calls'[e] = calls[e]
        /\ calls[e].ok /\ calls[e].act = "refresh" => calls[e].sets
    BY <1>3, <1>7 DEF Fresh
  <2>2. ASSUME calls[e].cookie # None
        PROVE  /\ ~tokens'[calls[e].cookie].spent
               /\ calls[e].cookie # cookie
               /\ calls[e].cookie # t
               /\ calls[e].cookie # calls[c].presented
    BY <1>4, <2>1, <2>2 DEF Fresh
  <2>3. ASSUME calls[e].cookie # None, NEW d \in Calls, calls'[d] # None
        PROVE  /\ calls'[d].presented # calls[e].cookie
               /\ d # e /\ calls'[d].stage = "answered" => calls'[d].cookie # calls[e].cookie
    BY <1>2, <1>3, <2>1, <2>2, <2>3 DEF Fresh
  <2> QED BY <2>1, <2>2, <2>3
<1> QED BY <1>6, <1>7
LEMMA FreshStep == Typed /\ Fresh /\ [Next]_vars => Fresh'
<1> SUFFICES ASSUME Typed, Fresh, [Next]_vars PROVE Fresh'
  OBVIOUS
<1> USE DEF Typed, Shape
<1>1. ASSUME \A t \in TokenIds : tokens[t] # None => tokens'[t].spent = tokens[t].spent,
             \A d \in Calls : calls'[d] \in {None, calls[d]}, cookie' = cookie
      PROVE  Fresh'
  BY <1>1, FreshKept DEF Fresh
<1>2. ASSUME NEW tab \in Tabs, NEW c \in Calls, NEW act, NEW v,
             send(c, sending(tab, act, v)), UNCHANGED <<cookie, tokens>>
      PROVE  Fresh'
  <2>1. \A d \in Calls : calls'[d] = IF d = c THEN sending(tab, act, v) ELSE calls[d]
    BY <1>2 DEF send, TypeOK
  <2>2. /\ sending(tab, act, v).presented \in {None, cookie}
        /\ sending(tab, act, v).stage = "sent"
    BY DEF sending
  <2> QED BY <1>2, <2>1, <2>2, FreshKept DEF Fresh
<1>3. ASSUME NEW tab \in Tabs, NEW c \in Calls,
             \/ \E v \in Viewers : SignIn(tab, c, v) \/ ActOnViewer(tab, c, v)
             \/ Renew(tab, c) \/ SignOut(tab, c) \/ AskWhoIAm(tab, c)
             \/ ChangeQuestion(tab, c)
      PROVE  Fresh'
  BY <1>2, <1>3 DEF SignIn, ActOnViewer, Renew, SignOut, AskWhoIAm, ChangeQuestion
<1>4. ASSUME NEW tab \in Tabs, NEW c \in Calls, Load(tab, c) PROVE Fresh'
  <2> DEFINE R == [sending(tab, "refresh", None) EXCEPT !.from = "unknown"]
  <2>1. R.presented \in {None, cookie} /\ R.stage = "sent"
    BY DEF sending
  <2>2. ASSUME NEW d \in Calls, calls'[d] # None, d # c
        PROVE  /\ calls[d] # None /\ calls'[d].presented = calls[d].presented
               /\ calls'[d].stage = calls[d].stage /\ calls'[d].cookie = calls[d].cookie
               /\ calls'[d].ok = calls[d].ok /\ calls'[d].act = calls[d].act
               /\ calls'[d].sets = calls[d].sets
    <3>1. calls[d] \in Call
      BY <1>4, <2>2 DEF Load, TypeOK
    <3>2. calls'[d] = calls[d] \/ calls'[d] = [calls[d] EXCEPT !.tab = None]
      BY <1>4, <2>2 DEF Load
    <3> QED BY <3>1, <3>2, NoneAssumption DEF Call
  <2>3. calls'[c] = R
    BY <1>4 DEF Load
  <2>4. \A d \in Calls : calls'[d] # None /\ calls'[d].stage = "answered"
           /\ calls'[d].cookie # None => calls'[d].cookie # cookie'
    BY <1>4, <2>1, <2>2, <2>3 DEF Fresh, Load
  <2> HIDE DEF R
  <2> QED BY <1>4, <2>1, <2>2, <2>3, <2>4, FreshKept DEF Load
<1>5. ASSUME NEW c \in Calls, Login(c) PROVE Fresh'
  <2>1. calls[c] # None /\ calls[c].stage = "sent" /\ calls[c].act = "login" /\ cookie' = cookie
        /\ calls[c].viewer \in Viewers
    BY <1>5 DEF Login, asks, TypeOK, Call, CallsOK, callOK
  <2>2. CASE answer(c, FALSE, None) /\ UNCHANGED tokens
    BY <2>1, <2>2, FreshAnswer
  <2>3. ASSUME NEW t \in TokenIds, tokens[t] = None,
               tokens' = [tokens EXCEPT ![t] = issued(t, calls[c].viewer)],
               answerWithCookie(c, TRUE, calls[c].viewer, t)
        PROVE  Fresh'
    <3>1. tokens[t] = None /\ ~tokens'[t].spent
      BY <2>1, <2>3, IssuedFacts DEF TypeOK
    <3>2. \A r \in TokenIds : tokens[r] # None => tokens'[r] = tokens[r]
      BY <2>3 DEF TypeOK
    <3> QED BY <2>1, <2>3, <3>1, <3>2, FreshAnswer
  <2> QED BY <1>5, <2>2, <2>3 DEF Login
<1>6. ASSUME NEW c \in Calls, Rotate(c) PROVE Fresh'
  <2> DEFINE t == calls[c].presented
  <2>1. PICK next \in TokenIds :
          /\ tokens[next] = None
          /\ tokens' = [tokens EXCEPT ![t].spent = TRUE,
                                      ![next] = issued(tokens[t].family, tokens[t].viewer)]
          /\ answerWithCookie(c, TRUE, tokens[t].viewer, next)
    BY <1>6 DEF Rotate
  <2>2. /\ calls[c] # None /\ calls[c].stage = "sent" /\ cookie' = cookie /\ t \in TokenIds
    BY <1>6 DEF Rotate, asks, TypeOK, Call
  <2>3. tokens[t] \in Token
    BY <1>6, <2>2 DEF Rotate, asks, TypeOK, TokensKnown, known
  <2>4. ~tokens'[next].spent
    BY <2>1, <2>3, IssuedFacts DEF TypeOK, Token
  <2>5. \A r \in TokenIds : tokens[r] # None /\ r # t => tokens'[r] = tokens[r]
    BY <2>1 DEF TypeOK
  <2>6. tokens[t].viewer \in Viewers
    BY <2>3 DEF Token
  <2> HIDE DEF t
  <2>7. \A r \in TokenIds : tokens[r] # None /\ r # calls[c].presented =>
           tokens'[r].spent = tokens[r].spent
    BY <2>5 DEF t
  <2> QED BY <2>1, <2>2, <2>4, <2>6, <2>7, FreshAnswer
<1>7. ASSUME NEW c \in Calls, RefuseRefresh(c) \/ LogOut(c) \/ AnswerOther(c)
      PROVE  Fresh'
  <2>1. /\ calls[c] \in Call /\ calls[c] # None /\ calls[c].stage = "sent" /\ cookie' = cookie
    BY <1>7 DEF RefuseRefresh, LogOut, AnswerOther, asks, TypeOK
  <2>2. \A r \in TokenIds : tokens[r] # None => tokens'[r].spent = tokens[r].spent
    BY <1>7, EndedFacts DEF RefuseRefresh, LogOut, AnswerOther
  <2>3. \E ok \in BOOLEAN, v \in {None} \cup Viewers :
           \/ answerWithCookie(c, ok, v, None)
           \/ answer(c, ok, v) /\ (ok => calls[c].act # "refresh")
    BY <1>7, <2>1 DEF RefuseRefresh, LogOut, AnswerOther, asks, Call
  <2> QED BY <2>1, <2>2, <2>3, FreshAnswer
<1>8. ASSUME NEW c \in Calls, Arrive(c) PROVE Fresh'
  <2>1. calls[c] \in Call
    BY <1>8 DEF Arrive, TypeOK
  <2>2. calls'[c] = None \/ calls'[c] = [calls[c] EXCEPT !.stage = "arrived"]
    BY <1>8 DEF Arrive, TypeOK
  <2>3. calls'[c] # None => calls'[c].presented = calls[c].presented /\ calls'[c].stage = "arrived"
    BY <2>1, <2>2 DEF Call
  <2>4. \A d \in Calls : d # c => calls'[d] = calls[d]
    BY <1>8 DEF Arrive, TypeOK
  <2>5. \A d \in Calls : calls'[d] # None /\ calls'[d].stage = "answered"
           /\ calls'[d].cookie # None => calls'[d].cookie # cookie'
    BY <1>8, <2>3, <2>4 DEF Arrive, Fresh
  <2> QED BY <1>8, <2>3, <2>4, <2>5, FreshKept DEF Arrive
<1>9. ASSUME NEW c \in Calls,
             \/ SignedIn(c) \/ LoginRefused(c) \/ NoSession(c) \/ Unreadable(c)
             \/ ViewerRead(c) \/ ChangeKept(c) \/ Fail(c)
      PROVE  Fresh'
  <2>1. cookie' = cookie /\ tokens' = tokens
    BY <1>9 DEF SignedIn, LoginRefused, NoSession, Unreadable, ViewerRead, ChangeKept, Fail
  <2>2. done(c) \/ endSession(c, calls[c].tab)
    BY <1>9 DEF SignedIn, LoginRefused, NoSession, Unreadable, ViewerRead, ChangeKept, Fail
  <2>3. \A d \in Calls : calls'[d] \in {None, calls[d]}
    BY <2>2 DEF done, endSession, TypeOK
  <2> QED BY <1>1, <2>1, <2>3
<1>10. ASSUME NEW v \in Viewers, EndedElsewhere(v) PROVE Fresh'
  <2>1. \A t \in TokenIds : tokens[t] # None => tokens'[t].spent = tokens[t].spent
    BY <1>10 DEF EndedElsewhere, TypeOK, Token
  <2> QED BY <1>1, <1>10, <2>1 DEF EndedElsewhere
<1>11. CASE UNCHANGED vars
  BY <1>1, <1>11 DEF vars
<1> QED BY <1>3, <1>4, <1>5, <1>6, <1>7, <1>8, <1>9, <1>10, <1>11 DEF Next

(* The answer to an exchange stays on its way until it arrives or is lost. *)
LEMMA ExchangeStays ==
    ASSUME Typed, [Next]_vars, NEW d \in Calls,
           calls[d] # None, calls[d].stage = "answered", calls[d].act = "refresh", calls[d].ok
    PROVE  \/ Arrive(d) \/ Fail(d)
           \/ /\ calls'[d] # None /\ calls'[d].stage = "answered" /\ calls'[d].act = "refresh"
              /\ calls'[d].ok /\ calls'[d].presented = calls[d].presented
<1>1. calls[d] \in Call
  BY DEF Typed, Shape, TypeOK
<1> USE DEF Typed, Shape
<1>2. ASSUME NEW tab \in Tabs, NEW c \in Calls,
             \/ \E v \in Viewers : SignIn(tab, c, v) \/ ActOnViewer(tab, c, v)
             \/ Renew(tab, c) \/ SignOut(tab, c) \/ AskWhoIAm(tab, c)
             \/ ChangeQuestion(tab, c)
      PROVE  calls'[d] = calls[d]
  BY <1>2 DEF SignIn, ActOnViewer, Renew, SignOut, AskWhoIAm, ChangeQuestion, send, TypeOK
<1>3. ASSUME NEW tab \in Tabs, NEW c \in Calls, Load(tab, c)
      PROVE  calls'[d] = calls[d] \/ calls'[d] = [calls[d] EXCEPT !.tab = None]
  BY <1>3 DEF Load
<1>4. ASSUME NEW c \in Calls,
             Login(c) \/ RefuseRefresh(c) \/ Rotate(c) \/ LogOut(c) \/ AnswerOther(c)
      PROVE  calls'[d] = calls[d]
  <2>1. c # d
    BY <1>4 DEF Login, RefuseRefresh, Rotate, LogOut, AnswerOther, asks
  <2>2. \E ok, v, t : answer(c, ok, v) \/ answerWithCookie(c, ok, v, t)
    BY <1>4 DEF Login, RefuseRefresh, Rotate, LogOut, AnswerOther
  <2> QED BY <2>1, <2>2 DEF answer, answerWithCookie, TypeOK
<1>5. ASSUME NEW c \in Calls, Arrive(c), c # d PROVE calls'[d] = calls[d]
  BY <1>5 DEF Arrive, TypeOK
<1>6. ASSUME NEW c \in Calls,
             \/ SignedIn(c) \/ LoginRefused(c) \/ NoSession(c) \/ Unreadable(c)
             \/ ViewerRead(c) \/ ChangeKept(c)
             \/ Fail(c) /\ c # d
      PROVE  calls'[d] = calls[d]
  <2>1. c # d
    BY <1>6 DEF SignedIn, LoginRefused, NoSession, Unreadable, ViewerRead, ChangeKept, arrived
  <2>2. done(c) \/ endSession(c, calls[c].tab)
    BY <1>6 DEF SignedIn, LoginRefused, NoSession, Unreadable, ViewerRead, ChangeKept, Fail
  <2> QED BY <2>1, <2>2 DEF done, endSession, TypeOK
<1>7. ASSUME calls'[d] = [calls[d] EXCEPT !.tab = None]
      PROVE  /\ calls'[d] # None /\ calls'[d].stage = "answered" /\ calls'[d].act = "refresh"
             /\ calls'[d].ok /\ calls'[d].presented = calls[d].presented
  BY <1>1, <1>7, NoneAssumption DEF Call
<1>8. CASE UNCHANGED vars
  BY <1>8 DEF vars
<1>9. ASSUME NEW c \in Calls, Arrive(c) \/ Fail(c)
      PROVE  calls'[d] = calls[d] \/ Arrive(d) \/ Fail(d)
  BY <1>5, <1>6, <1>9
<1>10. ASSUME NEW v \in Viewers, EndedElsewhere(v) PROVE calls'[d] = calls[d]
  BY <1>10 DEF EndedElsewhere
<1> DEFINE R == [calls[d] EXCEPT !.tab = None]
<1>11. ASSUME NEW tab \in Tabs, NEW c \in Calls, Load(tab, c)
       PROVE  calls'[d] = calls[d] \/ calls'[d] = R
  BY <1>3, <1>11
<1>12. CASE calls'[d] = R
  BY <1>7, <1>12
<1> HIDE DEF R
<1>13. CASE Next
  <2>1. Arrive(d) \/ Fail(d) \/ calls'[d] = calls[d] \/ calls'[d] = R
    BY <1>2, <1>4, <1>6, <1>9, <1>10, <1>11, <1>13 DEF Next
  <2> QED BY <1>12, <2>1
<1> QED BY <1>8, <1>13

LEMMA UnseenStep ==
    Typed /\ Fresh /\ ASpentCookieIsUnseen /\ [Next]_vars => ASpentCookieIsUnseen'
<1> SUFFICES ASSUME Typed, Fresh, ASpentCookieIsUnseen, [Next]_vars,
                    cookie' # None, tokens'[cookie'].spent
             PROVE  \/ cookie' \in unseen'
                    \/ \E c \in Calls :
                          /\ calls'[c] # None /\ calls'[c].act = "refresh"
                          /\ calls'[c].stage = "answered"
                          /\ calls'[c].ok /\ calls'[c].presented = cookie'
  BY DEF ASpentCookieIsUnseen
<1> USE DEF Typed, Shape
<1>1. unseen \subseteq unseen'
  <2>1. ASSUME NEW c \in Calls, Fail(c) PROVE unseen \subseteq unseen'
    BY <2>1 DEF Fail
  <2>2. unseen' = unseen \/ \E c \in Calls : Fail(c)
    BY DEF Next, vars, history, SignIn, ActOnViewer, Renew, SignOut, Load, AskWhoIAm, ChangeQuestion, Login,
           RefuseRefresh, Rotate, LogOut, AnswerOther, EndedElsewhere, Arrive, SignedIn,
           LoginRefused, NoSession, Unreadable, ViewerRead, ChangeKept
  <2> QED BY <2>1, <2>2
<1>2. cookie' = cookie
  <2>1. ASSUME NEW c \in Calls, Arrive(c) PROVE cookie' = cookie
    <3>1. calls[c] \in Call /\ UNCHANGED tokens /\ calls[c].stage = "answered"
      BY <2>1 DEF Arrive, TypeOK
    <3>2. calls[c].cookie # None => ~tokens[calls[c].cookie].spent
      BY <2>1, <3>1 DEF Arrive, Fresh
    <3> QED BY <2>1, <3>1, <3>2 DEF Arrive
  <2> QED
    BY <2>1 DEF Next, vars, history, SignIn, ActOnViewer, Renew, SignOut, Load, AskWhoIAm, ChangeQuestion, Login,
           RefuseRefresh, Rotate, LogOut, AnswerOther, EndedElsewhere, SignedIn,
           LoginRefused, NoSession, Unreadable, ViewerRead, ChangeKept, Fail
<1>3. cookie \in TokenIds /\ tokens[cookie] # None
  BY <1>2 DEF TypeOK, TokensKnown
<1>4. CASE tokens[cookie].spent
  <2>1. CASE cookie \in unseen
    BY <1>1, <1>2, <2>1
  <2>2. ASSUME NEW c \in Calls, calls[c] # None, calls[c].act = "refresh",
               calls[c].stage = "answered", calls[c].ok, calls[c].presented = cookie
        PROVE  \/ cookie' \in unseen'
               \/ /\ calls'[c] # None /\ calls'[c].act = "refresh"
                  /\ calls'[c].stage = "answered"
                  /\ calls'[c].ok /\ calls'[c].presented = cookie'
    <3>1. ~Arrive(c)
      <4>1. calls[c].sets /\ calls[c].cookie # cookie
        BY <1>2, <2>2 DEF Fresh
      <4> QED BY <1>2, <4>1 DEF Arrive
    <3>2. CASE Fail(c)
      BY <1>2, <2>2, <3>2 DEF Fail
    <3>3. \/ Arrive(c) \/ Fail(c)
          \/ /\ calls'[c] # None /\ calls'[c].stage = "answered" /\ calls'[c].act = "refresh"
             /\ calls'[c].ok /\ calls'[c].presented = calls[c].presented
      BY <2>2, ExchangeStays
    <3> QED BY <1>2, <2>2, <3>1, <3>2, <3>3
  <2> QED BY <1>2, <1>4, <2>1, <2>2 DEF ASpentCookieIsUnseen
<1>5. CASE ~tokens[cookie].spent
  <2>1. PICK c \in Calls : Rotate(c) /\ calls[c].presented = cookie
    BY <1>2, <1>3, <1>5, RowsKept
  <2>2. calls[c] \in Call /\ calls[c].act = "refresh"
    BY <2>1 DEF Rotate, asks, TypeOK
  <2> DEFINE v == tokens[cookie].viewer
  <2>3. v \in Viewers
    BY <1>3 DEF TypeOK, Token
  <2>4. PICK t \in TokenIds : answerWithCookie(c, TRUE, v, t)
    BY <2>1 DEF Rotate
  <2>5. calls'[c] = [calls[c] EXCEPT !.stage = "answered", !.ok = TRUE, !.viewer = v,
                                     !.sets = TRUE, !.cookie = t]
    BY <2>2, <2>4 DEF answerWithCookie, TypeOK
  <2> HIDE DEF v
  <2>6. /\ calls'[c] \in Call /\ calls'[c].act = "refresh" /\ calls'[c].stage = "answered"
        /\ calls'[c].ok /\ calls'[c].presented = cookie
    BY <2>1, <2>2, <2>3, <2>5 DEF Call
  <2> QED BY <1>2, <2>6, NoneAssumption
<1> QED BY <1>4, <1>5

(* The cookie holds a spent token, which sent again would end the session as
   a theft, only while the answer that replaces it is on its way or once that
   answer is lost: a tab never puts an old token back over a new one. *)
THEOREM SpentCookies == Spec => []ASpentCookieIsUnseen
<1>1. Init => Fresh /\ ASpentCookieIsUnseen
  BY DEF Init, Fresh, ASpentCookieIsUnseen
<1> QED BY <1>1, Typing, FreshStep, UnseenStep, PTL DEF Spec
-----------------------------------------------------------------------------
(* Signing in and out *)

LEMMA AgreeStep == Typed /\ TokenAndViewerAgree /\ [Next]_vars => TokenAndViewerAgree'
<1> SUFFICES ASSUME Typed, TokenAndViewerAgree, [Next]_vars PROVE TokenAndViewerAgree'
  OBVIOUS
<1> USE DEF Typed, Shape
<1>1. ASSUME NEW tab \in Tabs, NEW c \in Calls, Load(tab, c) PROVE TokenAndViewerAgree'
  BY <1>1 DEF TokenAndViewerAgree, Load, TypeOK, unknown
<1>2. ASSUME NEW c \in Calls, SignedIn(c) PROVE TokenAndViewerAgree'
  BY <1>2 DEF TokenAndViewerAgree, SignedIn, beginSession, TypeOK, signedInAs
<1>3. ASSUME NEW c \in Calls, NEW tab, endSession(c, tab) PROVE TokenAndViewerAgree'
  BY <1>3 DEF TokenAndViewerAgree, endSession, TypeOK, signedOut
<1>4. ASSUME NEW c \in Calls, ViewerRead(c) PROVE UNCHANGED session
  <2>1. calls[c].tab \in Tabs
    BY <1>4 DEF ViewerRead, arrived, TypeOK, Call, CallsOK, callOK
  <2> QED BY <1>4, <2>1, FollowKeeps DEF ViewerRead
<1>5. CASE UNCHANGED session
  BY <1>5 DEF TokenAndViewerAgree
<1>6. \/ UNCHANGED session
      \/ \E tab \in Tabs, c \in Calls : Load(tab, c)
      \/ \E c \in Calls : SignedIn(c) \/ ViewerRead(c) \/ endSession(c, calls[c].tab)
  BY DEF Next, vars, SignIn, ActOnViewer, Renew, SignOut, AskWhoIAm, ChangeQuestion, Login, RefuseRefresh, Rotate,
         LogOut, AnswerOther, EndedElsewhere, Arrive, LoginRefused, NoSession, Unreadable, ChangeKept, Fail
<1> QED BY <1>1, <1>2, <1>3, <1>4, <1>5, <1>6

(* No answer about another Viewer puts a token under the wrong name. *)
THEOREM Agreement == Spec => []TokenAndViewerAgree
<1>1. Init => TokenAndViewerAgree
  <2>1. signedOut.accessToken = signedOut.viewer
    BY DEF signedOut
  <2> QED BY <2>1 DEF Init, TokenAndViewerAgree
<1> QED BY <1>1, Typing, AgreeStep, PTL DEF Spec

LEMMA AskedStep ==
    Typed /\ [Next]_vars =>
       \A tab \in Tabs :
          session[tab].status = "signed-out" /\ session'[tab].status = "signed-in" =>
             \E c \in Calls : /\ calls[c] # None /\ calls'[c] = None
                              /\ calls[c].tab = tab
                              /\ calls[c].act = "login" \/ calls[c].from # "signed-out"
<1> SUFFICES ASSUME Typed, [Next]_vars, NEW tab \in Tabs,
                    session[tab].status = "signed-out", session'[tab].status = "signed-in"
             PROVE  \E c \in Calls : /\ calls[c] # None /\ calls'[c] = None
                                     /\ calls[c].tab = tab
                                     /\ calls[c].act = "login" \/ calls[c].from # "signed-out"
  OBVIOUS
<1> USE DEF Typed, Shape
<1>1. ~UNCHANGED session
  OBVIOUS
<1>2. ASSUME NEW t \in Tabs, NEW c \in Calls PROVE ~Load(t, c)
  BY DEF Load, TypeOK, unknown
<1>3. ASSUME NEW c \in Calls, NEW t PROVE ~endSession(c, t)
  BY DEF endSession, TypeOK, signedOut
<1>4. ASSUME NEW c \in Calls PROVE ~ViewerRead(c)
  <2>1. ViewerRead(c) => calls[c].tab \in Tabs
    BY DEF ViewerRead, arrived, TypeOK, Call, CallsOK, callOK
  <2> QED BY <1>1, <2>1, FollowKeeps DEF ViewerRead
<1>5. PICK c \in Calls : SignedIn(c)
  BY <1>1, <1>2, <1>3, <1>4
     DEF Next, vars, SignIn, ActOnViewer, Renew, SignOut, AskWhoIAm, ChangeQuestion, Login, RefuseRefresh, Rotate,
         LogOut, AnswerOther, EndedElsewhere, Arrive, LoginRefused, NoSession, Unreadable, ChangeKept, Fail
<1>6. calls[c] # None /\ calls'[c] = None
  BY <1>5 DEF SignedIn, arrived, done, TypeOK
<1>7. calls[c].tab = tab
  BY <1>5 DEF SignedIn, beginSession, TypeOK
<1>8. calls[c].act = "login" \/ calls[c].from # "signed-out"
  BY <1>5 DEF SignedIn, arrived, CallsOK, callOK
<1> QED BY <1>6, <1>7, <1>8

(* A timer never signs in a tab that is signed out: an answer to credentials
   does, or one to a refresh sent before the session was over. *)
THEOREM Asked == Spec => SignedOutUntilAsked
<1> QED BY Typing, AskedStep, PTL DEF Spec, SignedOutUntilAsked
(* A tab holds, and has asked for, nobody's answers but its own Viewer's, but
   for what came of changes sent before. *)
own(tab) ==
    \/ tab \in swapped
    \/ /\ cached[tab] \subseteq {session[tab].viewer} \cup late[tab]
       /\ \A c \in Calls :
             calls[c] # None /\ calls[c].act = "me" /\ calls[c].tab = tab =>
                calls[c].viewer = session[tab].viewer

EachItsOwn == \A tab \in Tabs : own(tab)

LEMMA OwnStep == Typed /\ TokenAndViewerAgree /\ EachItsOwn /\ [Next]_vars => EachItsOwn'
<1> SUFFICES ASSUME Typed, TokenAndViewerAgree, EachItsOwn, [Next]_vars, NEW u \in Tabs
             PROVE  own(u)'
  BY DEF EachItsOwn
<1> USE DEF Typed, Shape
<1>1. own(u)
  BY DEF EachItsOwn
<1>2. ASSUME session'[u] = session[u], cached'[u] = cached[u], late'[u] = late[u], u \in swapped => u \in swapped',
             \A d \in Calls :
                calls'[d] # None /\ calls'[d].act = "me" /\ calls'[d].tab = u =>
                   /\ calls[d] # None /\ calls[d].act = "me" /\ calls[d].tab = u
                   /\ calls'[d].viewer = calls[d].viewer
      PROVE  own(u)'
  BY <1>1, <1>2 DEF own
<1>3. ASSUME NEW tab \in Tabs, NEW c \in Calls, NEW act, NEW v,
             send(c, sending(tab, act, v)), UNCHANGED <<session, cached, swapped, late>>,
             act = "me" => v = session[tab].viewer
      PROVE  own(u)'
  <2>1. \A d \in Calls : calls'[d] = IF d = c THEN sending(tab, act, v) ELSE calls[d]
    BY <1>3 DEF send, TypeOK
  <2>2. /\ sending(tab, act, v).act = act /\ sending(tab, act, v).tab = tab
        /\ sending(tab, act, v).viewer = v
    BY DEF sending
  <2> QED BY <1>1, <1>3, <2>1, <2>2 DEF own
<1>4. ASSUME NEW tab \in Tabs, NEW c \in Calls,
             \/ \E v \in Viewers : SignIn(tab, c, v) \/ ActOnViewer(tab, c, v)
             \/ Renew(tab, c) \/ SignOut(tab, c) \/ AskWhoIAm(tab, c)
             \/ ChangeQuestion(tab, c)
      PROVE  own(u)'
  BY <1>3, <1>4 DEF SignIn, ActOnViewer, Renew, SignOut, AskWhoIAm, ChangeQuestion, history, TokenAndViewerAgree
<1>5. ASSUME NEW tab \in Tabs, NEW c \in Calls, Load(tab, c) PROVE own(u)'
  <2> DEFINE R == [sending(tab, "refresh", None) EXCEPT !.from = "unknown"]
  <2>1. R.act = "refresh" /\ calls'[c] = R
    BY <1>5 DEF Load, sending
  <2>2. ASSUME NEW d \in Calls, calls'[d] # None, calls'[d].act = "me"
        PROVE  calls[d] # None /\ calls'[d] = calls[d] /\ calls[d].tab # tab
    <3>1. d # c
      BY <2>1, <2>2
    <3>2. calls[d] \in Call
      BY <1>5, <2>2, <3>1 DEF Load, TypeOK
    <3> QED BY <1>5, <2>2, <3>1, <3>2 DEF Load, Call
  <2>3. CASE u = tab
    BY <1>5, <2>2, <2>3 DEF Load, own, TypeOK
  <2>4. CASE u # tab
    BY <1>2, <1>5, <2>2, <2>4 DEF Load, TypeOK
  <2> QED BY <2>3, <2>4
<1>6. ASSUME NEW c \in Calls, NEW ok \in BOOLEAN, NEW v \in {None} \cup Viewers,
             NEW t \in {None} \cup TokenIds,
             calls[c] # None, answer(c, ok, v) \/ answerWithCookie(c, ok, v, t),
             calls[c].act = "me" => v = calls[c].viewer, UNCHANGED <<session, cached, swapped, late>>
      PROVE  own(u)'
  <2>1. calls[c] \in Call
    BY <1>6 DEF TypeOK
  <2>2. /\ calls'[c].act = calls[c].act /\ calls'[c].tab = calls[c].tab /\ calls'[c].viewer = v
    BY <1>6, <2>1 DEF answer, answerWithCookie, TypeOK, Call
  <2>3. \A d \in Calls : d # c => calls'[d] = calls[d]
    BY <1>6 DEF answer, answerWithCookie, TypeOK
  <2> QED BY <1>2, <1>6, <2>2, <2>3
<1>7. ASSUME NEW c \in Calls,
             Login(c) \/ RefuseRefresh(c) \/ Rotate(c) \/ LogOut(c) \/ AnswerOther(c)
      PROVE  own(u)'
  <2>1. calls[c] \in Call /\ calls[c] # None
    BY <1>7 DEF Login, RefuseRefresh, Rotate, LogOut, AnswerOther, asks, TypeOK
  <2>2. Rotate(c) => tokens[calls[c].presented].viewer \in Viewers
    BY <2>1 DEF Rotate, asks, TypeOK, Token, Call, TokensKnown, known
  <2>3. UNCHANGED <<session, cached, swapped, late>>
    BY <1>7 DEF Login, RefuseRefresh, Rotate, LogOut, AnswerOther, history
  <2>4. \E ok \in BOOLEAN, v \in {None} \cup Viewers, t \in {None} \cup TokenIds :
           /\ answer(c, ok, v) \/ answerWithCookie(c, ok, v, t)
           /\ calls[c].act = "me" => v = calls[c].viewer
    BY <1>7, <2>1, <2>2 DEF Login, RefuseRefresh, Rotate, LogOut, AnswerOther, asks, Call
  <2> QED BY <1>6, <2>1, <2>3, <2>4
<1>8. ASSUME NEW c \in Calls, Arrive(c) PROVE own(u)'
  <2>1. calls[c] \in Call
    BY <1>8 DEF Arrive, TypeOK
  <2>2. calls'[c] = None \/ calls'[c] = [calls[c] EXCEPT !.stage = "arrived"]
    BY <1>8 DEF Arrive, TypeOK
  <2>3. calls'[c] # None => /\ calls'[c].act = calls[c].act /\ calls'[c].tab = calls[c].tab
                            /\ calls'[c].viewer = calls[c].viewer
    BY <2>1, <2>2 DEF Call
  <2>4. \A d \in Calls : d # c => calls'[d] = calls[d]
    BY <1>8 DEF Arrive, TypeOK
  <2> QED BY <1>2, <1>8, <2>3, <2>4 DEF Arrive, history
<1>9. ASSUME NEW c \in Calls, SignedIn(c) PROVE own(u)'
  <2> DEFINE tab == calls[c].tab
  <2> DEFINE v == calls[c].viewer
  <2>1. tab \in Tabs /\ v \in Viewers
    BY <1>9 DEF SignedIn, arrived, TypeOK, Call, CallsOK, callOK
  <2>2. \A d \in Calls : calls'[d] \in {None, calls[d]}
    BY <1>9 DEF SignedIn, done, TypeOK
  <2>3. /\ session'[tab] = signedInAs(v) /\ \A x \in Tabs : x # tab => session'[x] = session[x]
        /\ cached' = cached /\ late' = late
        /\ session[tab].status = "signed-in" /\ session[tab].viewer # v => tab \in swapped'
        /\ swapped \subseteq swapped'
    BY <1>9, <2>1 DEF SignedIn, beginSession, TypeOK
  <2>4. signedInAs(v).viewer = v
    BY DEF signedInAs
  <2> HIDE DEF tab, v
  <2>5. CASE u # tab
    BY <1>2, <2>2, <2>3, <2>5
  <2>6. CASE u = tab /\ session[u].status = "signed-in"
    BY <1>1, <2>2, <2>3, <2>4, <2>6 DEF own
  <2>7. CASE u = tab /\ session[u].status # "signed-in"
    <3>1. session[u].viewer = None
      BY <2>7, SessionFacts DEF TypeOK
    <3>2. \A d \in Calls : calls[d] # None /\ calls[d].act = "me" => calls[d].viewer # None
      BY DEF CallsOK, callOK
    <3>3. None \notin cached[u]
      BY NoneAssumption DEF TypeOK
    <3> QED BY <1>1, <2>2, <2>3, <2>4, <2>7, <3>1, <3>2, <3>3 DEF own
  <2> QED BY <2>5, <2>6, <2>7
<1>10. ASSUME NEW c \in Calls, NEW tab \in Tabs, endSession(c, tab) PROVE own(u)'
  <2>1. \A d \in Calls : calls'[d] # None =>
           calls'[d] = calls[d] /\ ~(calls[d].act = "me" /\ calls[d].tab = tab)
    BY <1>10 DEF endSession
  <2>2. CASE u = tab
    BY <1>10, <2>1, <2>2 DEF endSession, own, TypeOK
  <2>3. CASE u # tab
    BY <1>2, <1>10, <2>1, <2>3 DEF endSession, TypeOK
  <2> QED BY <2>2, <2>3
<1>11. ASSUME NEW c \in Calls, done(c), UNCHANGED <<session, cached, swapped, late>> PROVE own(u)'
  <2>1. \A d \in Calls : calls'[d] \in {None, calls[d]}
    BY <1>11 DEF done, TypeOK
  <2> QED BY <1>2, <1>11, <2>1
<1>12. ASSUME NEW c \in Calls, ViewerRead(c) PROVE own(u)'
  <2>1. calls[c].tab \in Tabs
    BY <1>12 DEF ViewerRead, arrived, TypeOK, Call, CallsOK, callOK
  <2>2. session' = session
    BY <1>12, <2>1, FollowKeeps DEF ViewerRead
  <2>3. \A d \in Calls : calls'[d] \in {None, calls[d]}
    BY <1>12 DEF ViewerRead, done, TypeOK
  <2>4. CASE calls[c].act = "me" /\ u = calls[c].tab
    <3>1. /\ cached'[u] = cached[u] \cup {calls[c].viewer}
          /\ swapped' = swapped /\ late' = late
      BY <1>12, <2>4 DEF ViewerRead, history, TypeOK
    <3>2. u \in swapped \/ calls[c].viewer = session[u].viewer
      BY <1>1, <1>12, <2>4 DEF ViewerRead, arrived, own
    <3> QED BY <1>1, <2>2, <2>3, <3>1, <3>2 DEF own
  <2>5. CASE ~(calls[c].act = "me" /\ u = calls[c].tab)
    <3>1. cached'[u] = cached[u] /\ swapped' = swapped /\ late' = late
      BY <1>12, <2>1, <2>5 DEF ViewerRead, history, TypeOK
    <3> QED BY <1>2, <2>2, <2>3, <3>1
  <2> QED BY <2>4, <2>5
<1>13. ASSUME NEW c \in Calls, NoSession(c) \/ LoginRefused(c) \/ Unreadable(c) \/ Fail(c)
       PROVE  own(u)'
  <2>1. calls[c] \in Call /\ callOK(calls[c])
    BY <1>13 DEF NoSession, LoginRefused, Unreadable, Fail, arrived, TypeOK, CallsOK
  <2>2. \/ calls[c].tab # None /\ endSession(c, calls[c].tab)
        \/ done(c) /\ UNCHANGED <<session, cached, swapped, late>>
    BY <1>13, <2>1 DEF NoSession, LoginRefused, Unreadable, Fail, arrived, callOK, history
  <2> QED BY <1>10, <1>11, <2>1, <2>2 DEF Call
<1>15. ASSUME NEW c \in Calls, ChangeKept(c) PROVE own(u)'
  <2> DEFINE tab == calls[c].tab
  <2> DEFINE v == calls[c].viewer
  <2>1. tab \in Tabs /\ v \in Viewers
    BY <1>15 DEF ChangeKept, arrived, TypeOK, Call, CallsOK, callOK
  <2>2. \A d \in Calls : calls'[d] \in {None, calls[d]}
    BY <1>15 DEF ChangeKept, done, TypeOK
  <2>3. /\ session' = session /\ swapped' = swapped
        /\ cached'[tab] = cached[tab] \cup {v}
        /\ late'[tab] = IF session[tab].viewer = v THEN late[tab] ELSE late[tab] \cup {v}
        /\ \A x \in Tabs : x # tab => cached'[x] = cached[x] /\ late'[x] = late[x]
    BY <1>15, <2>1 DEF ChangeKept, TypeOK
  <2> HIDE DEF tab, v
  <2>4. CASE u # tab
    BY <1>2, <2>2, <2>3, <2>4
  <2>5. CASE u = tab
    BY <1>1, <2>2, <2>3, <2>5 DEF own
  <2> QED BY <2>4, <2>5
<1>14. CASE UNCHANGED <<session, cached, calls, swapped, late>>
  BY <1>2, <1>14
<1> QED
  BY <1>4, <1>5, <1>7, <1>8, <1>9, <1>12, <1>13, <1>14, <1>15 DEF Next, vars, EndedElsewhere, history

(* Who signs in next in a tab finds nothing of the last Viewer there but what
   came of a change sent before the sign-out and answered after it, unless the
   session changed hands in the cookie and nobody signed out here. *)
THEOREM NothingLeft == Spec => []SigningOutLeavesNothing
<1>1. Init => EachItsOwn /\ TokenAndViewerAgree
  <2>1. signedOut.accessToken = signedOut.viewer
    BY DEF signedOut
  <2> QED BY <2>1 DEF Init, EachItsOwn, own, TokenAndViewerAgree
<1>2. EachItsOwn => SigningOutLeavesNothing
  BY DEF EachItsOwn, own, SigningOutLeavesNothing
<1> QED BY <1>1, <1>2, Typing, AgreeStep, OwnStep, PTL DEF Spec
=============================================================================
