---------------------------- MODULE PasswordLinks ----------------------------
(***************************************************************************)
(* Password links.  A new Viewer is mailed their first link and a reset    *)
(* mails another; either one sets a password, once.  A link is inserted and *)
(* mailed inside one transaction, which commits after the mail has gone;   *)
(* resets of one Viewer wait for each other on an advisory lock, and       *)
(* transactions that write the same link wait on its row.  What a request  *)
(* has written is its own until it commits.                                *)
(***************************************************************************)
EXTENDS Naturals

CONSTANTS
    Viewers,        \* addresses: those who have an account and those who may
    Links,          \* the links a run has to issue
    Requests,       \* the requests that can be in flight at once
    Members,        \* the Viewers there are at first
    MaxDeactivations,
    None

ASSUME MembersAssumption == Members \subseteq Viewers

ASSUME MaxDeactivationsAssumption == MaxDeactivations \in Nat

VARIABLES
    viewers,        \* whether each has an account, and works
    links,          \* the password_tokens table: Links -> Link or None
    inbox,          \* the links that were mailed
    deactivations,  \* how many there have been
    req             \* what each request has in hand

vars == <<viewers, links, inbox, deactivations, req>>

(* `recent`: issued within the window of the last few minutes. *)
Link == [viewer: Viewers, spent: BOOLEAN, expired: BOOLEAN, recent: BOOLEAN]

ASSUME NoneAssumption ==
    /\ None \notin Viewers \cup Links
    /\ \A link \in Link : link # None

(* `sees`: the rows an UPDATE found when it began; `ending`: those it has
   marked spent, and holds until it commits. `open`: its transaction has not
   run out of time. *)
Request ==
    [pc: {"idle", "lock", "check", "insertViewer", "issue", "insert", "send",
          "spend", "update", "commit"},
     act: {None, "reset", "create", "setPassword"},
     viewer: {None} \cup Viewers, link: {None} \cup Links,
     sees: SUBSET Links, ending: SUBSET Links, open: BOOLEAN]

Idle == [pc |-> "idle", act |-> None, viewer |-> None, link |-> None,
         sees |-> {}, ending |-> {}, open |-> TRUE]

TypeOK ==
    /\ viewers \in [Viewers -> {"none", "active", "deactivated"}]
    /\ links \in [Links -> {None} \cup Link]
    /\ inbox \subseteq Links
    /\ deactivations \in 0..MaxDeactivations
    /\ req \in [Requests -> Request]

Init ==
    /\ viewers = [v \in Viewers |-> IF v \in Members THEN "active" ELSE "none"]
    /\ links = [l \in Links |-> None]
    /\ inbox = {}
    /\ deactivations = 0
    /\ req = [r \in Requests |-> Idle]

-----------------------------------------------------------------------------
(* Rows and locks *)

finish(r) == req' = [req EXCEPT ![r] = Idle]

unspentOf(v) == {l \in Links : links[l] # None /\ links[l].viewer = v /\ ~links[l].spent}

(* Mutant: nobody takes the advisory lock. *)
resetsLocked_never(r) == FALSE

(* lockPasswordResetsOf: held from the lock to the end of the transaction. *)
resetsLocked(r) ==
    \E s \in Requests \ {r} :
       /\ req[s].act = "reset"
       /\ req[s].viewer = req[r].viewer
       /\ req[s].pc \in {"check", "issue", "insert", "send", "commit"}
       /\ req[s].open

rowsLocked(r, S) == \E s \in Requests \ {r} : req[s].ending \cap S # {}

isFresh(l) ==
    links[l] = None /\ l \notin inbox /\ \A r \in Requests : req[r].link # l

-----------------------------------------------------------------------------
(* Asking for a reset: mailPasswordResetLink, after the answer has gone *)

(* Mutant: an address nobody has is not turned away. *)
AskReset_anyAddress(r, v) ==
    /\ req[r].pc = "idle"
    /\ req' = [req EXCEPT ![r] =
                  [Idle EXCEPT !.pc = "lock", !.act = "reset",
                               !.viewer = IF viewers[v] = "none" THEN None ELSE v]]
    /\ UNCHANGED <<viewers, links, inbox, deactivations>>

(* An address nobody has, or a Deactivated Viewer's, is sent nothing. *)
AskReset(r, v) ==
    /\ req[r].pc = "idle"
    /\ viewers[v] = "active"
    /\ req' = [req EXCEPT ![r] = [Idle EXCEPT !.pc = "lock", !.act = "reset", !.viewer = v]]
    /\ UNCHANGED <<viewers, links, inbox, deactivations>>

LockResets(r) ==
    /\ req[r].pc = "lock"
    /\ ~resetsLocked(r)
    /\ req' = [req EXCEPT ![r].pc = "check"]
    /\ UNCHANGED <<viewers, links, inbox, deactivations>>

(* Mutant: a link that has been used holds no mail back. *)
wasIssuedSince_unspent(v) == \E l \in unspentOf(v) : links[l].recent

(* A spent link counts too. *)
wasIssuedSince(v) == \E l \in Links : links[l] # None /\ links[l].viewer = v /\ links[l].recent

HoldBack(r) ==
    /\ req[r].pc = "check"
    /\ wasIssuedSince(req[r].viewer)
    /\ finish(r)
    /\ UNCHANGED <<viewers, links, inbox, deactivations>>

GoAhead(r) ==
    /\ req[r].pc = "check"
    /\ ~wasIssuedSince(req[r].viewer)
    /\ req' = [req EXCEPT ![r].pc = "issue"]
    /\ UNCHANGED <<viewers, links, inbox, deactivations>>

-----------------------------------------------------------------------------
(* Creating a Viewer *)

CreateViewer(r, v) ==
    /\ req[r].pc = "idle"
    /\ req' = [req EXCEPT ![r] =
                  [Idle EXCEPT !.pc = "insertViewer", !.act = "create", !.viewer = v]]
    /\ UNCHANGED <<viewers, links, inbox, deactivations>>

(* Another transaction has inserted this address and not ended. *)
addressLocked(r) ==
    \E s \in Requests \ {r} :
       /\ req[s].act = "create"
       /\ req[s].viewer = req[r].viewer
       /\ req[s].pc \in {"issue", "insert", "send", "commit"}
       /\ req[s].open

InsertViewer(r) ==
    /\ req[r].pc = "insertViewer"
    /\ ~addressLocked(r)
    /\ viewers[req[r].viewer] = "none"
    /\ req' = [req EXCEPT ![r].pc = "issue"]
    /\ UNCHANGED <<viewers, links, inbox, deactivations>>

AddressTaken(r) ==
    /\ req[r].pc = "insertViewer"
    /\ ~addressLocked(r)
    /\ viewers[req[r].viewer] # "none"
    /\ finish(r)
    /\ UNCHANGED <<viewers, links, inbox, deactivations>>

-----------------------------------------------------------------------------
(* issuePasswordToken, the mail and the commit *)

(* Mutant: older links are left as they are. *)
EndUnused_none(r) ==
    /\ req[r].pc = "issue"
    /\ req' = [req EXCEPT ![r].pc = "insert"]
    /\ UNCHANGED <<viewers, links, inbox, deactivations>>

(* The UPDATE waits for the rows it finds.  No link of the Viewer can be
   inserted meanwhile, so what it finds is what is there when it goes on. *)
EndUnused(r) ==
    LET found == unspentOf(req[r].viewer)
    IN  /\ req[r].pc = "issue"
        /\ ~rowsLocked(r, found)
        /\ req' = [req EXCEPT ![r].pc = "insert", ![r].ending = found]
        /\ UNCHANGED <<viewers, links, inbox, deactivations>>

InsertLink(r, l) ==
    /\ req[r].pc = "insert"
    /\ isFresh(l)
    /\ req' = [req EXCEPT ![r].pc = "send", ![r].link = l]
    /\ UNCHANGED <<viewers, links, inbox, deactivations>>

(* A mail that goes out after its transaction has run out of time carries a
   link that is nowhere. *)
Send(r) ==
    /\ req[r].pc = "send"
    /\ inbox' = inbox \cup {req[r].link}
    /\ req' = [req EXCEPT ![r] = IF req[r].open THEN [@ EXCEPT !.pc = "commit"] ELSE Idle]
    /\ UNCHANGED <<viewers, links, deactivations>>

(* Mutant: a mail that could not be sent is ignored. *)
SendFails_ignored(r) ==
    /\ req[r].pc = "send"
    /\ req' = [req EXCEPT ![r] = IF req[r].open THEN [@ EXCEPT !.pc = "commit"] ELSE Idle]
    /\ UNCHANGED <<viewers, links, inbox, deactivations>>

(* The error rolls the transaction back. *)
SendFails(r) ==
    /\ req[r].pc = "send"
    /\ finish(r)
    /\ UNCHANGED <<viewers, links, inbox, deactivations>>

Commit(r) ==
    LET R == req[r]
    IN  /\ R.pc = "commit"
        /\ links' = [l \in Links |->
              IF l \in R.ending THEN [links[l] EXCEPT !.spent = TRUE]
              ELSE IF l = R.link
              THEN [viewer |-> R.viewer, spent |-> FALSE, expired |-> FALSE, recent |-> TRUE]
              ELSE links[l]]
        /\ viewers' = IF R.act = "create" THEN [viewers EXCEPT ![R.viewer] = "active"]
                                          ELSE viewers
        /\ finish(r)
        /\ UNCHANGED <<inbox, deactivations>>

-----------------------------------------------------------------------------
(* Setting a password *)

(* Whoever has a mail follows its link. *)
SetPassword(r, l) ==
    /\ req[r].pc = "idle"
    /\ l \in inbox
    /\ req' = [req EXCEPT ![r] = [Idle EXCEPT !.pc = "spend", !.act = "setPassword",
                                             !.link = l]]
    /\ UNCHANGED <<viewers, links, inbox, deactivations>>

works(l) == links[l] # None /\ ~links[l].spent /\ ~links[l].expired

(* spendPasswordTokenByHash: the rows its UPDATE finds are every unspent one of
   the Viewer whose link is presented. *)
Spend(r) ==
    LET l == req[r].link
    IN  /\ req[r].pc = "spend"
        /\ works(l)
        /\ viewers[links[l].viewer] = "active"
        /\ req' = [req EXCEPT ![r].pc = "update", ![r].viewer = links[l].viewer,
                              ![r].sees = unspentOf(links[l].viewer)]
        /\ UNCHANGED <<viewers, links, inbox, deactivations>>

DeadLink(r) ==
    LET l == req[r].link
    IN  /\ req[r].pc = "spend"
        /\ ~(works(l) /\ viewers[links[l].viewer] = "active")
        /\ finish(r)
        /\ UNCHANGED <<viewers, links, inbox, deactivations>>

(* Mutant: a row that was spent while the UPDATE waited is spent again. *)
stillUnspent_all(r) == req[r].sees

(* A row that another transaction spent while the UPDATE waited is left out. *)
stillUnspent(r) == {l \in req[r].sees : ~links[l].spent}

(* The one presented may not be among them: then no password is set, and the
   transaction commits all the same. *)
Update(r) ==
    /\ req[r].pc = "update"
    /\ ~rowsLocked(r, req[r].sees)
    /\ req' = [req EXCEPT ![r].pc = "commit", ![r].ending = stillUnspent(r),
                          ![r].link = IF @ \in stillUnspent(r) THEN @ ELSE None]
    /\ UNCHANGED <<viewers, links, inbox, deactivations>>

-----------------------------------------------------------------------------
(* Around the requests *)

(* The transaction has taken too long and is rolled back: its locks go, and a
   mail on its way may still arrive. *)
TimeOut(r) ==
    /\ req[r].pc \in {"lock", "check", "insertViewer", "issue", "insert", "send",
                      "spend", "update", "commit"}
    /\ req[r].open
    /\ req' = [req EXCEPT ![r] = IF req[r].pc = "send"
                                 THEN [@ EXCEPT !.open = FALSE, !.ending = {}]
                                 ELSE Idle]
    /\ UNCHANGED <<viewers, links, inbox, deactivations>>

Deactivate(v) ==
    /\ viewers[v] = "active"
    /\ deactivations < MaxDeactivations
    /\ viewers' = [viewers EXCEPT ![v] = "deactivated"]
    /\ deactivations' = deactivations + 1
    /\ UNCHANGED <<links, inbox, req>>

Reactivate(v) ==
    /\ viewers[v] = "deactivated"
    /\ viewers' = [viewers EXCEPT ![v] = "active"]
    /\ UNCHANGED <<links, inbox, deactivations, req>>

(* Time passes: a link leaves the window, and later it expires. *)
WindowPasses(l) ==
    /\ links[l] # None
    /\ links[l].recent
    /\ links' = [links EXCEPT ![l].recent = FALSE]
    /\ UNCHANGED <<viewers, inbox, deactivations, req>>

Expire(l) ==
    /\ links[l] # None
    /\ ~links[l].recent
    /\ ~links[l].expired
    /\ links' = [links EXCEPT ![l].expired = TRUE]
    /\ UNCHANGED <<viewers, inbox, deactivations, req>>

Step(r) ==
    \/ LockResets(r) \/ HoldBack(r) \/ GoAhead(r)
    \/ InsertViewer(r) \/ AddressTaken(r)
    \/ EndUnused(r)
    \/ \E l \in Links : InsertLink(r, l)
    \/ Send(r) \/ SendFails(r)
    \/ Commit(r)
    \/ Spend(r) \/ DeadLink(r) \/ Update(r)
    \/ TimeOut(r)

Next ==
    \/ \E r \in Requests :
          \/ \E v \in Viewers : AskReset(r, v) \/ CreateViewer(r, v)
          \/ \E l \in Links : SetPassword(r, l)
          \/ Step(r)
    \/ \E v \in Viewers : Deactivate(v) \/ Reactivate(v)
    \/ \E l \in Links : WindowPasses(l) \/ Expire(l)

Spec == Init /\ [][Next]_vars

-----------------------------------------------------------------------------
(* Properties *)

(* A Viewer has at most one link that has not been used or replaced, though
   two requests may be issuing one for them.
   (endUnusedPasswordTokensOf: "so a Viewer has at most one link that works".) *)
OneLinkThatWorks ==
    \A k, l \in Links :
       /\ links[k] # None /\ ~links[k].spent
       /\ links[l] # None /\ ~links[l].spent
       /\ links[k].viewer = links[l].viewer
       => k = l

(* No two links of a Viewer are issued within one window, however many
   requests ask at once and though the first was used already.
   (docs/adr/0040: the check is made under the lock, and any link counts.) *)
OneLinkPerWindow ==
    \A k, l \in Links :
       /\ links[k] # None /\ links[k].recent
       /\ links[l] # None /\ links[l].recent
       /\ links[k].viewer = links[l].viewer
       => k = l

setsPassword(r) == Commit(r) /\ req[r].act = "setPassword" /\ req[r].link # None

(* A link that was used, or replaced while the request that presents it
   waited, sets no password.
   (spendPasswordTokenByHash: "the database lets exactly one through".) *)
OnlyAnUnspentLinkSetsAPassword ==
    [][\A r \in Requests : setsPassword(r) => ~links[req[r].link].spent]_vars

(* A link that works ends only by being used or because another one, which
   has been mailed, takes its place: a mail that fails, or one that outlasts
   its transaction, ends no link.
   (mailPasswordResetLink: the mail is sent last.) *)
ALinkEndsForAReason ==
    [][\A l \in Links :
         links[l] # None /\ ~links[l].spent /\ links'[l].spent =>
            \/ \E r \in Requests : setsPassword(r) /\ req[r].link = l
            \/ \E k \in inbox : /\ links[k] = None
                                /\ links'[k] # None
                                /\ links'[k].viewer = links[l].viewer]_vars

(* Every link there is was mailed, and every Viewer who was created has one: a
   mail that fails leaves no Viewer behind who cannot sign in.
   (createViewer: "a send that fails leaves no Viewer behind".) *)
EveryNewViewerWasMailed ==
    /\ \A l \in Links : links[l] # None => l \in inbox
    /\ \A v \in Viewers \ Members : viewers[v] # "none" =>
          \E l \in inbox : links[l] # None /\ links[l].viewer = v
=============================================================================
