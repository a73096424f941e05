---------------------------- MODULE BrowserSession ----------------------------
(***************************************************************************)
(* The browser's side of a session.  Each tab holds a session in memory, a *)
(* timer that renews it, and a cache of what the API answered; the tabs    *)
(* share one cookie, which holds the refresh token and which only answers  *)
(* of the API change.  A call can fail, and answers can overtake others.   *)
(*                                                                         *)
(* The API is here one step for each endpoint (Sessions models what goes   *)
(* on inside them): a login starts a family of tokens, a refresh exchanges *)
(* a token or ends the family of a spent one, a log-out ends the family.   *)
(***************************************************************************)
EXTENDS Naturals

CONSTANTS
    Tabs,
    Viewers,
    TokenIds,       \* the refresh tokens a run has to issue
    Calls,          \* the calls that can be in flight at once
    None

VARIABLES
    session,        \* what each tab takes its session to be
    renewal,        \* whether a tab's timer is set
    cached,         \* whose answers a tab's cache holds
    calls,          \* what is in flight: Calls -> Call or None
    cookie,         \* the refresh token the browser holds
    tokens,         \* the API's: TokenIds -> Token or None
    garbled,        \* history: the tabs whose last refresh could not be read
    unseen,         \* history: the spent tokens whose exchange was never heard of
    swapped,        \* history: the tabs that changed Viewer without signing out
    late            \* history: whose changes a tab heard of when their session was over

vars == <<session, renewal, cached, calls, cookie, tokens, garbled, unseen, swapped, late>>

history == <<garbled, unseen, swapped, late>>

(* An access token is the Viewer it names. *)
signedOut == [status |-> "signed-out", accessToken |-> None, viewer |-> None]

unknown == [status |-> "unknown", accessToken |-> None, viewer |-> None]

signedInAs(v) == [status |-> "signed-in", accessToken |-> v, viewer |-> v]

Session ==
    {unknown, signedOut}
    \cup [status: {"signed-in"}, accessToken: Viewers, viewer: Viewers]

Token == [family: TokenIds, viewer: Viewers, spent: BOOLEAN, revoked: BOOLEAN]

(* A call is sent, answered by the API, and arrived, when the browser has
   seen the head of the answer and the page is to read the rest.  `tab` is
   None once the page that sent it is gone; `presented` is the token sent with
   it; `viewer` whose credentials it has, whom it is about or, in an answer,
   who is signed in; `cookie` what the answer sets, if it `sets` one.  `from`
   is history: what the tab's session was when it was sent. *)
Call == [act: {"login", "refresh", "logout", "me", "actOnViewer", "change"},
         tab: {None} \cup Tabs, viewer: {None} \cup Viewers,
         presented: {None} \cup TokenIds,
         from: {"unknown", "signed-in", "signed-out"},
         stage: {"sent", "answered", "arrived"}, ok: BOOLEAN,
         sets: BOOLEAN, cookie: {None} \cup TokenIds]

ASSUME NoneAssumption ==
    /\ None \notin Tabs \cup Viewers \cup TokenIds
    /\ \A token \in Token : token # None
    /\ \A call \in Call : call # None

TypeOK ==
    /\ session \in [Tabs -> Session]
    /\ renewal \in [Tabs -> BOOLEAN]
    /\ cached \in [Tabs -> SUBSET Viewers]
    /\ calls \in [Calls -> {None} \cup Call]
    /\ cookie \in {None} \cup TokenIds
    /\ tokens \in [TokenIds -> {None} \cup Token]
    /\ garbled \subseteq Tabs
    /\ unseen \subseteq TokenIds
    /\ swapped \subseteq Tabs
    /\ late \in [Tabs -> SUBSET Viewers]

(* Every tab has been told that there is no session. *)
Init ==
    /\ session = [tab \in Tabs |-> signedOut]
    /\ renewal = [tab \in Tabs |-> FALSE]
    /\ cached = [tab \in Tabs |-> {}]
    /\ calls = [c \in Calls |-> None]
    /\ cookie = None
    /\ tokens = [t \in TokenIds |-> None]
    /\ garbled = {}
    /\ unseen = {}
    /\ swapped = {}
    /\ late = [tab \in Tabs |-> {}]

-----------------------------------------------------------------------------
(* Sending *)

sending(tab, act, v) ==
    [act |-> act, tab |-> tab, viewer |-> v,
     presented |-> IF act \in {"refresh", "logout"} THEN cookie ELSE None,
     from |-> session[tab].status, stage |-> "sent",
     ok |-> FALSE, sets |-> FALSE, cookie |-> None]

inFlight(act, tab) == \E c \in Calls : calls[c] # None /\ calls[c].act = act /\ calls[c].tab = tab

send(c, call) ==
    /\ calls[c] = None
    /\ calls' = [calls EXCEPT ![c] = call]

(* The form is shown to whoever is not signed in, and sends one at a time. *)
SignIn(tab, c, v) ==
    /\ session[tab].status # "signed-in"
    /\ ~inFlight("login", tab)
    /\ send(c, sending(tab, "login", v))
    /\ UNCHANGED <<session, renewal, cached, cookie, tokens, history>>

(* The timer goes off. *)
Renew(tab, c) ==
    /\ renewal[tab]
    /\ renewal' = [renewal EXCEPT ![tab] = FALSE]
    /\ send(c, sending(tab, "refresh", None))
    /\ UNCHANGED <<session, cached, cookie, tokens, history>>

SignOut(tab, c) ==
    /\ session[tab].status = "signed-in"
    /\ send(c, sending(tab, "logout", None))
    /\ UNCHANGED <<session, renewal, cached, cookie, tokens, history>>

(* The page is loaded again.  Nothing in memory is left, and whatever it had
   asked has nobody to answer, but may still reach the API and the cookie. *)
Load(tab, c) ==
    /\ calls[c] = None
    /\ calls' = [d \in Calls |->
           IF d = c THEN [sending(tab, "refresh", None) EXCEPT !.from = "unknown"]
           ELSE IF calls[d] = None \/ calls[d].tab # tab THEN calls[d]
           ELSE IF calls[d].stage = "arrived" \/ calls[d].act \in {"me", "actOnViewer", "change"} THEN None
           ELSE [calls[d] EXCEPT !.tab = None]]
    /\ session' = [session EXCEPT ![tab] = unknown]
    /\ renewal' = [renewal EXCEPT ![tab] = FALSE]
    /\ cached' = [cached EXCEPT ![tab] = {}]
    /\ garbled' = garbled \ {tab}
    /\ swapped' = swapped \ {tab}
    /\ late' = [late EXCEPT ![tab] = {}]
    /\ UNCHANGED <<cookie, tokens, unseen>>

(* A query: who am I now?  One at a time, whatever asks. *)
AskWhoIAm(tab, c) ==
    /\ session[tab].status = "signed-in"
    /\ ~inFlight("me", tab)
    /\ send(c, sending(tab, "me", session[tab].accessToken))
    /\ UNCHANGED <<session, renewal, cached, cookie, tokens, history>>

(* An edit or a move of a Question; the answer is the Question as this Viewer
   sees it. *)
ChangeQuestion(tab, c) ==
    /\ session[tab].status = "signed-in"
    /\ send(c, sending(tab, "change", session[tab].accessToken))
    /\ UNCHANGED <<session, renewal, cached, cookie, tokens, history>>

(* An Administrator changes a Viewer; the answer is that Viewer. *)
ActOnViewer(tab, c, v) ==
    /\ session[tab].status = "signed-in"
    /\ send(c, sending(tab, "actOnViewer", v))
    /\ UNCHANGED <<session, renewal, cached, cookie, tokens, history>>

-----------------------------------------------------------------------------
(* The API *)

answer(c, ok, v) ==
    calls' = [calls EXCEPT ![c].stage = "answered", ![c].ok = ok, ![c].viewer = v]

answerWithCookie(c, ok, v, token) ==
    calls' = [calls EXCEPT ![c].stage = "answered", ![c].ok = ok, ![c].viewer = v,
                           ![c].sets = TRUE, ![c].cookie = token]

asks(c, act) == calls[c] # None /\ calls[c].stage = "sent" /\ calls[c].act = act

issued(family, v) == [family |-> family, viewer |-> v, spent |-> FALSE, revoked |-> FALSE]

ended(rows, f) ==
    [t \in TokenIds |-> IF rows[t] # None /\ rows[t].family = f
                        THEN [rows[t] EXCEPT !.revoked = TRUE] ELSE rows[t]]

Login(c) ==
    /\ asks(c, "login")
    /\ \/ answer(c, FALSE, None) /\ UNCHANGED tokens
       \/ \E t \in TokenIds :
             /\ tokens[t] = None
             /\ tokens' = [tokens EXCEPT ![t] = issued(t, calls[c].viewer)]
             /\ answerWithCookie(c, TRUE, calls[c].viewer, t)
    /\ UNCHANGED <<session, renewal, cached, cookie, history>>

(* A spent token ends its family; any refusal of a token clears the cookie. *)
RefuseRefresh(c) ==
    /\ asks(c, "refresh")
    /\ LET t == calls[c].presented IN
       \/ t = None /\ answer(c, FALSE, None) /\ UNCHANGED tokens
       \/ /\ t # None /\ tokens[t].revoked
          /\ answerWithCookie(c, FALSE, None, None) /\ UNCHANGED tokens
       \/ /\ t # None /\ ~tokens[t].revoked /\ tokens[t].spent
          /\ tokens' = ended(tokens, tokens[t].family)
          /\ answerWithCookie(c, FALSE, None, None)
    /\ UNCHANGED <<session, renewal, cached, cookie, history>>

\* Bug: the successor's cookie is not set.
Rotate_cookieKept(c) ==
    /\ asks(c, "refresh")
    /\ LET t == calls[c].presented IN
       /\ t # None /\ ~tokens[t].revoked /\ ~tokens[t].spent
       /\ \E next \in TokenIds :
             /\ tokens[next] = None
             /\ tokens' = [tokens EXCEPT ![t].spent = TRUE,
                              ![next] = issued(tokens[t].family, tokens[t].viewer)]
       /\ answer(c, TRUE, tokens[t].viewer)
    /\ UNCHANGED <<session, renewal, cached, cookie, history>>

Rotate(c) ==
    /\ asks(c, "refresh")
    /\ LET t == calls[c].presented IN
       /\ t # None /\ ~tokens[t].revoked /\ ~tokens[t].spent
       /\ \E next \in TokenIds :
             /\ tokens[next] = None
             /\ tokens' = [tokens EXCEPT ![t].spent = TRUE,
                              ![next] = issued(tokens[t].family, tokens[t].viewer)]
             /\ answerWithCookie(c, TRUE, tokens[t].viewer, next)
    /\ UNCHANGED <<session, renewal, cached, cookie, history>>

LogOut(c) ==
    /\ asks(c, "logout")
    /\ LET t == calls[c].presented IN
       tokens' = IF t = None THEN tokens ELSE ended(tokens, tokens[t].family)
    /\ answerWithCookie(c, TRUE, None, None)
    /\ UNCHANGED <<session, renewal, cached, cookie, history>>

(* A new password or a Deactivation ends every session of a Viewer. *)
EndedElsewhere(v) ==
    /\ \E t \in TokenIds : tokens[t] # None /\ tokens[t].viewer = v /\ ~tokens[t].revoked
    /\ tokens' = [t \in TokenIds |-> IF tokens[t] # None /\ tokens[t].viewer = v
                                     THEN [tokens[t] EXCEPT !.revoked = TRUE] ELSE tokens[t]]
    /\ UNCHANGED <<session, renewal, cached, calls, cookie, history>>

(* Answers whoever the access token names, or with the Viewer acted on. *)
AnswerOther(c) ==
    /\ asks(c, "me") \/ asks(c, "actOnViewer") \/ asks(c, "change")
    /\ answer(c, TRUE, calls[c].viewer)
    /\ UNCHANGED <<session, renewal, cached, cookie, tokens, history>>

-----------------------------------------------------------------------------
(* What comes back *)

(* The browser sets the cookie before the page has read the answer. *)
Arrive(c) ==
    /\ calls[c] # None /\ calls[c].stage = "answered"
    /\ cookie' = IF calls[c].sets THEN calls[c].cookie ELSE cookie
    /\ calls' = [calls EXCEPT ![c] =
           IF calls[c].tab = None THEN None ELSE [calls[c] EXCEPT !.stage = "arrived"]]
    /\ UNCHANGED <<session, renewal, cached, tokens, history>>

done(c) == calls' = [calls EXCEPT ![c] = None]

(* Sets the timer anew. *)
beginSession(tab, v) ==
    /\ session' = [session EXCEPT ![tab] = signedInAs(v)]
    /\ renewal' = [renewal EXCEPT ![tab] = TRUE]
    /\ garbled' = garbled \ {tab}
    /\ swapped' = IF session[tab].status = "signed-in" /\ session[tab].viewer # v
                  THEN swapped \cup {tab} ELSE swapped
    /\ UNCHANGED <<cached, late>>

\* Bug: the timer is left running.
endSession_timerLeft(c, tab) ==
    /\ session' = [session EXCEPT ![tab] = signedOut]
    /\ cached' = [cached EXCEPT ![tab] = {}]
    /\ garbled' = garbled \ {tab}
    /\ swapped' = swapped \ {tab}
    /\ late' = [late EXCEPT ![tab] = {}]
    /\ calls' = [d \in Calls |->
           IF d = c \/ (calls[d] # None /\ calls[d].act = "me" /\ calls[d].tab = tab)
           THEN None ELSE calls[d]]
    /\ UNCHANGED renewal

\* Bug: the cache is emptied, and the queries in flight fill it again.
endSession_queriesLeft(c, tab) ==
    /\ session' = [session EXCEPT ![tab] = signedOut]
    /\ renewal' = [renewal EXCEPT ![tab] = FALSE]
    /\ cached' = [cached EXCEPT ![tab] = {}]
    /\ garbled' = garbled \ {tab}
    /\ swapped' = swapped \ {tab}
    /\ late' = [late EXCEPT ![tab] = {}]
    /\ done(c)

(* Stops the timer; the queries in flight are dropped with the cache, and the
   changes in flight are not. *)
endSession(c, tab) ==
    /\ session' = [session EXCEPT ![tab] = signedOut]
    /\ renewal' = [renewal EXCEPT ![tab] = FALSE]
    /\ cached' = [cached EXCEPT ![tab] = {}]
    /\ garbled' = garbled \ {tab}
    /\ swapped' = swapped \ {tab}
    /\ late' = [late EXCEPT ![tab] = {}]
    /\ calls' = [d \in Calls |->
           IF d = c \/ (calls[d] # None /\ calls[d].act = "me" /\ calls[d].tab = tab)
           THEN None ELSE calls[d]]

\* Bug: any Viewer in an answer is taken for the one who is signed in.
followViewer_anyone(tab, v) ==
    session' = IF session[tab].status = "signed-in"
               THEN [session EXCEPT ![tab].viewer = v] ELSE session

(* A change to the Viewer who is signed in here shows; any other does not. *)
followViewer(tab, v) ==
    session' = IF session[tab].status = "signed-in" /\ session[tab].viewer = v
               THEN [session EXCEPT ![tab].viewer = v] ELSE session

arrived(c, act) == calls[c] # None /\ calls[c].stage = "arrived" /\ calls[c].act = act

\* Bug: a refusal is taken for an answer.
SignedIn_byRefusal(c) ==
    /\ arrived(c, "login") \/ arrived(c, "refresh")
    /\ beginSession(calls[c].tab, calls[c].viewer)
    /\ done(c)
    /\ UNCHANGED <<cookie, tokens, unseen>>

SignedIn(c) ==
    /\ arrived(c, "login") \/ arrived(c, "refresh")
    /\ calls[c].ok
    /\ beginSession(calls[c].tab, calls[c].viewer)
    /\ done(c)
    /\ UNCHANGED <<cookie, tokens, unseen>>

LoginRefused(c) ==
    /\ arrived(c, "login") /\ ~calls[c].ok
    /\ done(c)
    /\ UNCHANGED <<session, renewal, cached, cookie, tokens, history>>

\* Bug: a refused refresh is left at that.
NoSession_leftAlone(c) ==
    \/ /\ arrived(c, "refresh") /\ ~calls[c].ok
       /\ done(c)
       /\ UNCHANGED <<session, renewal, cached, cookie, tokens, history>>
    \/ /\ arrived(c, "logout")
       /\ endSession(c, calls[c].tab)
       /\ UNCHANGED <<cookie, tokens, unseen>>

NoSession(c) ==
    /\ \/ arrived(c, "refresh") /\ ~calls[c].ok
       \/ arrived(c, "logout")
    /\ endSession(c, calls[c].tab)
    /\ UNCHANGED <<cookie, tokens, unseen>>

(* What answered is not what the client was built for, and what it said is
   thrown away: it leaves the session as it was. *)
Unreadable(c) ==
    /\ arrived(c, "login") \/ arrived(c, "refresh")
    /\ calls[c].ok
    /\ garbled' = IF calls[c].act = "refresh" THEN garbled \cup {calls[c].tab} ELSE garbled
    /\ done(c)
    /\ UNCHANGED <<session, renewal, cached, cookie, tokens, unseen, swapped, late>>

ViewerRead(c) ==
    /\ arrived(c, "me") \/ arrived(c, "actOnViewer")
    /\ followViewer(calls[c].tab, calls[c].viewer)
    /\ cached' = IF calls[c].act = "me"
                 THEN [cached EXCEPT ![calls[c].tab] = @ \cup {calls[c].viewer}] ELSE cached
    /\ done(c)
    /\ UNCHANGED <<renewal, cookie, tokens, history>>

(* The answer to a change is kept whoever is signed in by now, or nobody: what
   it writes is the cache of the tab, emptied since or not. *)
ChangeKept(c) ==
    /\ arrived(c, "change")
    /\ LET tab == calls[c].tab IN
       /\ cached' = [cached EXCEPT ![tab] = @ \cup {calls[c].viewer}]
       /\ late' = IF session[tab].viewer = calls[c].viewer THEN late
                  ELSE [late EXCEPT ![tab] = @ \cup {calls[c].viewer}]
    /\ done(c)
    /\ UNCHANGED <<session, renewal, cookie, tokens, garbled, unseen, swapped>>

(* Nothing comes back, from before the API answered or after it.  A refresh
   that failed ends the session here, and so does a log-out that failed. *)
Fail(c) ==
    /\ calls[c] # None /\ calls[c].stage # "arrived"
    /\ unseen' = IF calls[c].act = "refresh" /\ calls[c].ok
                 THEN unseen \cup {calls[c].presented} ELSE unseen
    /\ IF calls[c].tab # None /\ calls[c].act \in {"refresh", "logout"}
       THEN endSession(c, calls[c].tab)
       ELSE done(c) /\ UNCHANGED <<session, renewal, cached, garbled, swapped, late>>
    /\ UNCHANGED <<cookie, tokens>>

-----------------------------------------------------------------------------
Next ==
    \/ \E tab \in Tabs, c \in Calls :
          \/ \E v \in Viewers : SignIn(tab, c, v) \/ ActOnViewer(tab, c, v)
          \/ Renew(tab, c)
          \/ SignOut(tab, c)
          \/ Load(tab, c)
          \/ AskWhoIAm(tab, c)
          \/ ChangeQuestion(tab, c)
    \/ \E c \in Calls :
          \/ Login(c) \/ RefuseRefresh(c) \/ Rotate(c) \/ LogOut(c) \/ AnswerOther(c)
          \/ Arrive(c)
          \/ SignedIn(c) \/ LoginRefused(c) \/ NoSession(c) \/ Unreadable(c) \/ ViewerRead(c)
          \/ ChangeKept(c)
          \/ Fail(c)
    \/ \E v \in Viewers : EndedElsewhere(v)

Spec == Init /\ [][Next]_vars

-----------------------------------------------------------------------------
(* Properties *)

(* A tab sends one Viewer's access token under that Viewer's name, whatever
   answers about other Viewers arrive meanwhile: token and Viewer arrive
   together, and neither is set without the other. *)
TokenAndViewerAgree ==
    \A tab \in Tabs : session[tab].accessToken = session[tab].viewer

(* A tab never stays as it is by waiting for nothing: one that does not know
   has its refresh in flight, and one that is signed in has its timer set or
   its refresh in flight, so that it will learn that its session is over.
   The exception is a refresh answered in a way the client cannot read. *)
EveryTabWillLearn ==
    \A tab \in Tabs \ garbled :
       /\ session[tab].status = "unknown" => inFlight("refresh", tab)
       /\ session[tab].status = "signed-in" => renewal[tab] \/ inFlight("refresh", tab)

(* The cookie holds a spent token, whose use would end the session as a
   theft, only while the answer that replaces it is on its way or once that
   answer is lost. *)
ASpentCookieIsUnseen ==
    cookie # None /\ tokens[cookie].spent =>
       \/ cookie \in unseen
       \/ \E c \in Calls :
             /\ calls[c] # None /\ calls[c].act = "refresh" /\ calls[c].stage = "answered"
             /\ calls[c].ok /\ calls[c].presented = cookie

(* Who is signed out is signed in only by credentials, or by the answer to a
   refresh that was sent before: a timer never does it. *)
SignedOutUntilAsked ==
    [][\A tab \in Tabs :
          session[tab].status = "signed-out" /\ session'[tab].status = "signed-in" =>
             \E c \in Calls : /\ calls[c] # None /\ calls'[c] = None
                              /\ calls[c].tab = tab
                              /\ calls[c].act = "login" \/ calls[c].from # "signed-out"]_vars

(* Signing out leaves nothing for the next Viewer in a tab, however late the
   answers to the last one's queries come, but the Questions whose edit or
   move was sent before the session was over and answered after it: the cache
   is emptied once, and those answers are kept.  A tab that changed Viewer
   without signing out, because its timer found another tab's session in the
   cookie, may also hold what somebody else was sent. *)
SigningOutLeavesNothing ==
    \A tab \in Tabs \ swapped : cached[tab] \subseteq {session[tab].viewer} \cup late[tab]
=============================================================================
