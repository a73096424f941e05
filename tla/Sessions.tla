------------------------------ MODULE Sessions ------------------------------
(***************************************************************************)
(* Sign-in sessions.  A login starts a family of refresh tokens; a refresh *)
(* spends the token presented and inserts its successor; presenting a      *)
(* spent token ends the family, as logging out does; a new password and a  *)
(* Deactivation end every family of the Viewer.  Refresh, login and log-out*)
(* use no transaction: each statement sees what is committed when it       *)
(* begins, and an UPDATE of several rows writes those it saw then.         *)
(***************************************************************************)
EXTENDS Naturals

CONSTANTS
    Viewers,
    TokenIds,       \* the refresh tokens a run has to mint
    Requests,       \* the requests that can be in flight at once
    Acts,           \* what requests do in this instance
    FirstTokens,    \* TokenIds -> Viewers or None: who is signed in at first
    MaxEndings,     \* how often all of a Viewer's sessions may be ended
    None

ASSUME FirstAssumption == FirstTokens \in [TokenIds -> {None} \cup Viewers]

ASSUME MaxEndingsAssumption == MaxEndings \in Nat

ASSUME ActsAssumption ==
    Acts \subseteq {"login", "refresh", "logout", "setPassword", "deactivate"}

VARIABLES
    tokens,         \* the refresh_tokens table: TokenIds -> Token or None
    cookies,        \* the tokens an answer has carried to a client
    deactivated,    \* viewers.isDeactivated
    linked,         \* the Viewers with a password link that works
    endings,        \* how often all of a Viewer's sessions have been ended
    verified,       \* history: endings when the login of a family was verified
    over,           \* history: the families some request has ended
    req             \* what each request has in hand

vars == <<tokens, cookies, deactivated, linked, endings, verified, over, req>>

(* A family is named after the first token in it. *)
Token == [family: TokenIds, viewer: Viewers,
          spent: BOOLEAN, revoked: BOOLEAN, expired: BOOLEAN]

ASSUME NoneAssumption ==
    /\ None \notin Viewers \cup TokenIds
    /\ \A token \in Token : token # None

(* `late`, `reuse` and `since` are history, of the moment the request came in:
   whether the family of its token was over, whether its token had been spent,
   and how often the Viewer's sessions had been ended.  So is `had`: the
   families an ending found when it took the Viewer's row. *)
Request ==
    [pc: {"idle", "find", "spend", "insert", "recheck", "answer", "start",
          "lock", "select", "revoke"},
     act: {None} \cup Acts, viewer: {None} \cup Viewers, token: {None} \cup TokenIds,
     issued: {None} \cup TokenIds, toRevoke: SUBSET TokenIds, had: SUBSET TokenIds,
     late: BOOLEAN, reuse: BOOLEAN, since: Nat]

Idle == [pc |-> "idle", act |-> None, viewer |-> None, token |-> None,
         issued |-> None, toRevoke |-> {}, had |-> {}, late |-> FALSE, reuse |-> FALSE, since |-> 0]

TypeOK ==
    /\ tokens \in [TokenIds -> {None} \cup Token]
    /\ cookies \subseteq {t \in TokenIds : tokens[t] # None}
    /\ deactivated \in [Viewers -> BOOLEAN]
    /\ linked \subseteq Viewers
    /\ endings \in [Viewers -> Nat]
    /\ verified \in [TokenIds -> Nat]
    /\ over \subseteq TokenIds
    /\ req \in [Requests -> Request]

minted(family, viewer) ==
    [family |-> family, viewer |-> viewer, spent |-> FALSE, revoked |-> FALSE, expired |-> FALSE]

Init ==
    /\ tokens = [t \in TokenIds |-> IF FirstTokens[t] = None
                                    THEN None
                                    ELSE minted(t, FirstTokens[t])]
    /\ cookies = {t \in TokenIds : FirstTokens[t] # None}
    /\ deactivated = [v \in Viewers |-> FALSE]
    /\ linked = {}
    /\ endings = [v \in Viewers |-> 0]
    /\ verified = [t \in TokenIds |-> 0]
    /\ over = {}
    /\ req = [r \in Requests |-> Idle]

-----------------------------------------------------------------------------
(* Families *)

finish(r) == req' = [req EXCEPT ![r] = Idle]

inFamily(f) == {t \in TokenIds : tokens[t] # None /\ tokens[t].family = f}

tokensOf(v) == {t \in TokenIds : tokens[t] # None /\ tokens[t].viewer = v}

familiesOf(v) == {tokens[t].family : t \in tokensOf(v)}

familyOf(r) == tokens[req[r].token].family

(* refreshTokenFamilyIsRevoked: any member of it. *)
familyIsRevoked(f) == \E t \in inFamily(f) : tokens[t].revoked

revoked(S) == [t \in TokenIds |-> IF t \in S THEN [tokens[t] EXCEPT !.revoked = TRUE]
                                            ELSE tokens[t]]

-----------------------------------------------------------------------------
(* Logging in *)

(* The Viewer is read and their password verified.  A login that is refused
   changes nothing. *)
Verify(r, v) ==
    /\ req[r].pc = "idle"
    /\ "login" \in Acts
    /\ ~deactivated[v]
    /\ req' = [req EXCEPT ![r] = [Idle EXCEPT !.pc = "start", !.act = "login",
                                             !.viewer = v, !.since = endings[v]]]
    /\ UNCHANGED <<tokens, cookies, deactivated, linked, endings, verified, over>>

(* issueRefreshToken: a family of its own, whatever happened since. *)
StartFamily(r, t) ==
    /\ req[r].pc = "start"
    /\ tokens[t] = None
    /\ tokens' = [tokens EXCEPT ![t] = minted(t, req[r].viewer)]
    /\ cookies' = cookies \cup {t}
    /\ verified' = [verified EXCEPT ![t] = req[r].since]
    /\ finish(r)
    /\ UNCHANGED <<deactivated, linked, endings, over>>

-----------------------------------------------------------------------------
(* Refreshing: rotateRefreshToken *)

(* Whoever holds a cookie, or a copy of one, presents it. *)
Present(r, t) ==
    /\ req[r].pc = "idle"
    /\ "refresh" \in Acts
    /\ t \in cookies
    /\ req' = [req EXCEPT ![r] =
          [Idle EXCEPT !.pc = "find", !.act = "refresh",
                       !.viewer = tokens[t].viewer, !.token = t,
                       !.late = tokens[t].family \in over,
                       !.reuse = tokens[t].spent,
                       !.since = endings[tokens[t].viewer]]]
    /\ UNCHANGED <<tokens, cookies, deactivated, linked, endings, verified, over>>

(* Mutant: an expired token is refused before it is found to be spent. *)
judged_expiryFirst(t) ==
    IF tokens[t].revoked \/ tokens[t].expired THEN "refused"
    ELSE IF tokens[t].spent THEN "reused" ELSE "good"

(* Revoked, then spent, then expired. *)
judged(t) ==
    CASE tokens[t].revoked -> "refused"
      [] ~tokens[t].revoked /\ tokens[t].spent -> "reused"
      [] ~tokens[t].revoked /\ ~tokens[t].spent ->
            IF tokens[t].expired THEN "refused" ELSE "good"

Find(r) ==
    /\ req[r].pc = "find"
    /\ judged(req[r].token) # "refused"
    /\ req' = [req EXCEPT ![r].pc =
                  IF judged(req[r].token) = "good" THEN "spend" ELSE "select"]
    /\ UNCHANGED <<tokens, cookies, deactivated, linked, endings, verified, over>>

Refuse(r) ==
    /\ req[r].pc = "find"
    /\ judged(req[r].token) = "refused"
    /\ finish(r)
    /\ UNCHANGED <<tokens, cookies, deactivated, linked, endings, verified, over>>

(* Mutant: the update names the token and not that it is unspent. *)
Spend_anyToken(r) ==
    /\ req[r].pc = "spend"
    /\ tokens' = [tokens EXCEPT ![req[r].token].spent = TRUE]
    /\ req' = [req EXCEPT ![r].pc = "insert"]
    /\ UNCHANGED <<cookies, deactivated, linked, endings, verified, over>>

(* spendRefreshToken: one of two requests that found the token unspent wins;
   to the other it is a reuse. *)
Spend(r) ==
    /\ req[r].pc = "spend"
    /\ tokens' = [tokens EXCEPT ![req[r].token].spent = TRUE]
    /\ req' = [req EXCEPT ![r].pc =
                  IF tokens[req[r].token].spent THEN "select" ELSE "insert"]
    /\ UNCHANGED <<cookies, deactivated, linked, endings, verified, over>>

(* Mutant: the answer does not carry what was inserted. *)
InsertSuccessor_notKept(r, t) ==
    /\ req[r].pc = "insert"
    /\ tokens[t] = None
    /\ tokens' = [tokens EXCEPT ![t] = minted(familyOf(r), req[r].viewer)]
    /\ req' = [req EXCEPT ![r].pc = "recheck"]
    /\ UNCHANGED <<cookies, deactivated, linked, endings, verified, over>>

InsertSuccessor(r, t) ==
    /\ req[r].pc = "insert"
    /\ tokens[t] = None
    /\ tokens' = [tokens EXCEPT ![t] = minted(familyOf(r), req[r].viewer)]
    /\ req' = [req EXCEPT ![r].pc = "recheck", ![r].issued = t]
    /\ UNCHANGED <<cookies, deactivated, linked, endings, verified, over>>

(* Mutant: a successor is not checked. *)
afterRecheck_answer(r) == "answer"

(* The family may have ended since the token was found. *)
afterRecheck(r) == IF familyIsRevoked(familyOf(r)) THEN "select" ELSE "answer"

Recheck(r) ==
    /\ req[r].pc = "recheck"
    /\ req' = [req EXCEPT ![r].pc = afterRecheck(r)]
    /\ UNCHANGED <<tokens, cookies, deactivated, linked, endings, verified, over>>

(* The Viewer is read again, and a Deactivated one is refused though the token
   is spent by now. *)
Answer(r) ==
    /\ req[r].pc = "answer"
    /\ cookies' = IF deactivated[req[r].viewer] THEN cookies
                                                ELSE cookies \cup {req[r].issued}
    /\ finish(r)
    /\ UNCHANGED <<tokens, deactivated, linked, endings, verified, over>>

-----------------------------------------------------------------------------
(* Ending sessions *)

(* Log-out finds the token and then ends its family, whatever its state. *)
LogOut(r, t) ==
    /\ req[r].pc = "idle"
    /\ "logout" \in Acts
    /\ t \in cookies
    /\ req' = [req EXCEPT ![r] = [Idle EXCEPT !.pc = "select", !.act = "logout",
                                             !.viewer = tokens[t].viewer, !.token = t]]
    /\ UNCHANGED <<tokens, cookies, deactivated, linked, endings, verified, over>>

(* The transaction of set-password holds the link it spends until it ends, and
   with it keeps others from using it. *)
holdsLink(v) == \E r \in Requests : req[r].act = "setPassword" /\ req[r].viewer = v

SpendLink(r, v) ==
    /\ req[r].pc = "idle"
    /\ "setPassword" \in Acts
    /\ v \in linked
    /\ ~deactivated[v]
    /\ ~holdsLink(v)
    /\ req' = [req EXCEPT ![r] = [Idle EXCEPT !.pc = "lock", !.act = "setPassword",
                                             !.viewer = v]]
    /\ UNCHANGED <<tokens, cookies, deactivated, linked, endings, verified, over>>

Deactivate(r, v) ==
    /\ req[r].pc = "idle"
    /\ "deactivate" \in Acts
    /\ endings[v] < MaxEndings
    /\ req' = [req EXCEPT ![r] = [Idle EXCEPT !.pc = "lock", !.act = "deactivate",
                                             !.viewer = v]]
    /\ UNCHANGED <<tokens, cookies, deactivated, linked, endings, verified, over>>

endsAll(r) == req[r].act \in {"setPassword", "deactivate"}

(* The Viewer's row, locked by setPasswordHash or by lockViewer.  (Whether a
   Deactivation is allowed is in Administration; one that is not ends here.) *)
viewerLocked(v) ==
    \E r \in Requests : req[r].pc \in {"select", "revoke"} /\ endsAll(r) /\ req[r].viewer = v

LockViewer(r) ==
    /\ req[r].pc = "lock"
    /\ ~viewerLocked(req[r].viewer)
    /\ ~(req[r].act = "deactivate" /\ deactivated[req[r].viewer])
    /\ endings[req[r].viewer] < MaxEndings
    /\ req' = [req EXCEPT ![r].pc = "select", ![r].had = familiesOf(req[r].viewer)]
    /\ UNCHANGED <<tokens, cookies, deactivated, linked, endings, verified, over>>

AlreadyDeactivated(r) ==
    /\ req[r].pc = "lock"
    /\ ~viewerLocked(req[r].viewer)
    /\ req[r].act = "deactivate"
    /\ deactivated[req[r].viewer]
    /\ finish(r)
    /\ UNCHANGED <<tokens, cookies, deactivated, linked, endings, verified, over>>

(* Every family of the Viewer, or the family of the token presented. *)
toRevoke(r) ==
    {t \in IF endsAll(r) THEN tokensOf(req[r].viewer) ELSE inFamily(familyOf(r)) :
        ~tokens[t].revoked}

(* The rows the UPDATE finds are those committed when it begins. *)
Select(r) ==
    /\ req[r].pc = "select"
    /\ req' = [req EXCEPT ![r].pc = "revoke", ![r].toRevoke = toRevoke(r)]
    /\ UNCHANGED <<tokens, cookies, deactivated, linked, endings, verified, over>>

(* The UPDATE of log-out and of endFamily ends, and with it the request. *)
RevokeFamily(r) ==
    /\ req[r].pc = "revoke"
    /\ ~endsAll(r)
    /\ tokens' = revoked(req[r].toRevoke)
    /\ over' = over \cup {familyOf(r)}
    /\ finish(r)
    /\ UNCHANGED <<cookies, deactivated, linked, endings, verified>>

(* The transaction of set-password or of Deactivation commits.  The rows it
   locked only made others wait. *)
RevokeAll(r) ==
    LET v == req[r].viewer
    IN  /\ req[r].pc = "revoke"
        /\ endsAll(r)
        /\ tokens' = revoked(req[r].toRevoke)
        /\ endings' = [endings EXCEPT ![v] = @ + 1]
        /\ over' = over \cup req[r].had
        /\ deactivated' = [deactivated EXCEPT ![v] = @ \/ req[r].act = "deactivate"]
        /\ linked' = IF req[r].act = "setPassword" THEN linked \ {v} ELSE linked
        /\ finish(r)
        /\ UNCHANGED <<cookies, verified>>

-----------------------------------------------------------------------------
(* Around the requests *)

(* A password link is mailed: a Viewer holds at most one that works. *)
SendLink(v) ==
    /\ "setPassword" \in Acts
    /\ v \notin linked
    /\ ~deactivated[v]
    /\ endings[v] < MaxEndings
    /\ linked' = linked \cup {v}
    /\ UNCHANGED <<tokens, cookies, deactivated, endings, verified, over, req>>

Reactivate(v) ==
    /\ deactivated[v]
    /\ ~viewerLocked(v)
    /\ deactivated' = [deactivated EXCEPT ![v] = FALSE]
    /\ UNCHANGED <<tokens, cookies, linked, endings, verified, over, req>>

(* Time passes. *)
Expire(t) ==
    /\ tokens[t] # None
    /\ ~tokens[t].expired
    /\ tokens' = [tokens EXCEPT ![t].expired = TRUE]
    /\ UNCHANGED <<cookies, deactivated, linked, endings, verified, over, req>>

(* A connection or the process ends, or a deadlock is broken, between any two
   statements: what a statement outside a transaction did stays done. *)
Abort(r) ==
    /\ req[r].pc # "idle"
    /\ finish(r)
    /\ UNCHANGED <<tokens, cookies, deactivated, linked, endings, verified, over>>

Step(r) ==
    \/ \E t \in TokenIds : StartFamily(r, t) \/ InsertSuccessor(r, t)
    \/ Find(r)
    \/ Refuse(r)
    \/ Spend(r)
    \/ Recheck(r)
    \/ Answer(r)
    \/ LockViewer(r)
    \/ AlreadyDeactivated(r)
    \/ Select(r)
    \/ RevokeFamily(r)
    \/ RevokeAll(r)

Next ==
    \/ \E r \in Requests :
          \/ \E v \in Viewers : Verify(r, v) \/ SpendLink(r, v) \/ Deactivate(r, v)
          \/ \E t \in TokenIds : Present(r, t) \/ LogOut(r, t)
          \/ Step(r)
          \/ Abort(r)
    \/ \E v \in Viewers : SendLink(v) \/ Reactivate(v)
    \/ \E t \in TokenIds : Expire(t)

Spec == Init /\ [][Next]_vars

-----------------------------------------------------------------------------
(* Properties *)

unspent(t) == tokens[t] # None /\ ~tokens[t].spent

live(t) == unspent(t) /\ ~tokens[t].revoked

(* However many requests present the tokens of one login at once, there is one
   token of it at most that another refresh could exchange.  (The filter on
   spentAt in spendRefreshToken.) *)
OneTokenToExchange ==
    \A s, t \in TokenIds :
       unspent(s) /\ unspent(t) /\ tokens[s].family = tokens[t].family => s = t

(* A refresh is answered with a session. *)
signsIn(r) == Answer(r) /\ ~deactivated[req[r].viewer]

(* Once a log-out, a reuse, a new password or a Deactivation has ended a
   session, no refresh that comes after signs anyone in with it, though the
   UPDATE may have missed a successor inserted at that moment.
   (The second read in rotateRefreshToken; docs/adr/0023.) *)
EndedSessionsStayOver ==
    [][\A r \in Requests : signsIn(r) => ~req[r].late]_vars

(* A token presented after it was spent ends its family before it is answered,
   however long its presenter waited.  (docs/adr/0023: the order of the
   checks is part of the decision.) *)
ReuseEndsTheFamily ==
    [][\A r \in Requests :
         /\ req[r].reuse
         /\ Refuse(r) \/ Answer(r) \/ RevokeFamily(r)
         => \E t \in inFamily(familyOf(r)) : tokens'[t].revoked]_vars

(* Nobody stays signed in by a login that was verified before all the Viewer's
   sessions were ended: no refresh that comes after the ending signs them in.
   (README.md: "Setting a password ends every session the Viewer had"; and
   docs/adr/0017 of Deactivation.) *)
NoSessionOutlivesItsEnding ==
    [][\A r \in Requests :
         signsIn(r) => verified[familyOf(r)] >= req[r].since]_vars

(* When nothing is in flight, no family that has ended holds a token that was
   handed to a client and is neither spent nor revoked.
   (docs/adr/0023: "after two concurrent rotations, no live token remains in
   the family".) *)
EndedFamiliesHoldNoLiveToken ==
    (\A r \in Requests : req[r].pc = "idle") =>
       \A t \in cookies : live(t) => ~familyIsRevoked(tokens[t].family)
=============================================================================
