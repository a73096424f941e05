--------------------------- MODULE QuestionScreens ---------------------------
(***************************************************************************)
(* One Viewer's screens on one Question, over an API where others act on   *)
(* it too: the page of the Question, the Review queue, Your Questions, and *)
(* the forms that add and edit.  Every answer is of the moment the API     *)
(* read or wrote the Question and arrives at another; screens offer acts   *)
(* by what they hold.  What the API makes of a request is QuestionRules.   *)
(***************************************************************************)
EXTENDS QuestionRules

CONSTANTS
    viewer,         \* who is signed in, as the API and the session know them
    Blank,          \* what a box holds that trims to nothing
    FirstRow,       \* the Question as it is to begin with
    Typed,          \* <<field, value>>: what this Viewer types
    MaxVersions,    \* nothing is written once the Question has had this many
    MaxInFlight     \* how many of this Viewer's requests can be in flight

ASSUME ScreensAssumption ==
    /\ viewer \in Viewer
    /\ FirstRow \in Row
    /\ Blank \notin Texts \cup Notes \cup {None}
    /\ None \notin {"done", "nearDuplicates", "refused", "unanswered"} \cup ChangeActs
    /\ Typed \subseteq ({"text"} \X (Texts \cup {Blank})) \cup ({"notes"} \X (Notes \cup {Blank}))
                       \cup ({"clients"} \X SUBSET Clients)
    /\ QuestionIds # {} /\ Reasons # {}

VARIABLES
    bank,           \* the Question after each write to it, the present one last
    queries,        \* the query cache: what is held for each key
    screen,         \* what the address bar says
    form,           \* the add or edit form, while there is one
    ui,             \* what is open and pressed on the other screens
    sent,           \* requests for acts, each by the button it came from
    stopped         \* history: the requests refused for Near-Duplicates

screenVars == <<bank, queries, screen, form, ui, sent, stopped>>

Screens == {"question", "edit", "add", "review", "own"}

Keys == {"one", "history", "pending", "own"}

Buttons == ChangeActs \cup {"upvote", "edit", "add"}

\* A Question, and whether this Viewer has upvoted it.
Version == [row: Row, mine: BOOLEAN]

now == bank[Len(bank)]

\* A fetch that is not under way, and one not yet answered; any other is the
\* version its answer is of.
noFetch == -1
asked == 0

\* The version held (0 for none), with the Upvote summary as last told.
\* `joined` is history: the first load was under way, and answered by the API,
\* when it went out of date.
Query == [at: Nat, mine: BOOLEAN, fetch: {noFetch} \cup Nat, failed: BOOLEAN, joined: BOOLEAN]

Fields == {"text", "notes", "clients"}

\* `touched` is history: the fields the Viewer has typed in.
Form == [opened: {None} \cup Row,
         draft: [text: Texts \cup {Blank}, notes: Notes \cup {Blank}, clients: SUBSET Clients],
         touched: SUBSET Fields, sending: BOOLEAN,
         dialog: {None} \cup Ask, told: BOOLEAN]

\* `confirming` is the publication's dialog, `writing` the reason's.
UI == [pressed: SUBSET Buttons, confirming: BOOLEAN,
       writing: {None, "reject", "return"}, refusal: BOOLEAN]

\* `here` while the screen it was sent from is up; `at` the version it was
\* answered by.
Sent == [ask: Ask, touched: SUBSET Fields, here: BOOLEAN,
         answer: {None, "done", "nearDuplicates", "refused", "unanswered"},
         at: Nat, settled: BOOLEAN]

ScreensTypeOK ==
    /\ bank \in Seq(Version) /\ bank # <<>>
    /\ queries \in [Keys -> Query]
    /\ screen \in Screens
    /\ form \in {None} \cup Form
    /\ ui \in UI
    /\ sent \in [Buttons -> {None} \cup Sent]
    /\ stopped \subseteq Ask

nothing == [at |-> 0, mine |-> FALSE, fetch |-> noFetch, failed |-> FALSE, joined |-> FALSE]

untouched == [pressed |-> {}, confirming |-> FALSE, writing |-> None, refusal |-> FALSE]

ScreensInit ==
    /\ bank = <<[row |-> FirstRow, mine |-> FALSE]>>
    /\ queries = [k \in Keys |-> IF k = "one" THEN [nothing EXCEPT !.fetch = asked]
                                 ELSE nothing]
    /\ screen = "question"
    /\ form = None
    /\ ui = untouched
    /\ sent = [b \in Buttons |-> None]
    /\ stopped = {}

-----------------------------------------------------------------------------
(* What a screen shows *)

(* The queries a screen holds open. *)
mounted(scr) ==
    CASE scr = "question" -> {"one", "history"}
      [] scr = "edit"     -> {"one"}
      [] scr = "review"   -> {"pending"}
      [] scr = "own"      -> {"own"}
      [] scr = "add"      -> {}

loaded(q) == q.at # 0 /\ ~q.failed

(* By the rules the API uses, and the Publication State as it is held. *)
actsFor(row) ==
    {act \in ChangeActs : may(viewer, row, act) /\ row.state = startsFrom(act)}
    \cup {act \in {"upvote"} : row.state = "published"}

(* The page of the Question shows its acts, a list those of the cards it holds. *)
offered(scr, qs) ==
    CASE scr = "question" /\ loaded(qs["one"]) -> actsFor(bank[qs["one"].at].row)
      [] scr = "review" /\ loaded(qs["pending"]) ->
            {act \in {"publish", "reject"} : bank[qs["pending"].at].row.state = "pending"}
      [] scr = "own" /\ loaded(qs["own"]) ->
            {act \in {"resubmit"} : /\ bank[qs["own"].at].row.state = "rejected"
                                    /\ bank[qs["own"].at].row.author = viewer.id}
      [] OTHER -> {}

(* What a button held goes with it, and with the page what it told. *)
kept(scr, qs, u) ==
    LET buttons == offered(scr, qs)
    IN  [pressed |-> u.pressed \cap buttons,
         confirming |-> u.confirming /\ "publish" \in buttons,
         writing |-> IF u.writing \in buttons THEN u.writing ELSE None,
         refusal |-> u.refusal /\ (scr = "question" => loaded(qs["one"]))]

emptyForm == [opened |-> None,
              draft |-> [text |-> Blank, notes |-> Blank, clients |-> {}],
              touched |-> {}, sending |-> FALSE, dialog |-> None, told |-> FALSE]

draftOf(row) == [text |-> row.text, notes |-> row.notes, clients |-> row.clients]

(* The edit form opens on the Question as it is held, however old, keeps that
   version, and is gone when the Question is shown as not loaded. *)
formShown(scr, qs, f) ==
    CASE scr = "add" -> IF f = None THEN emptyForm ELSE f
      [] scr = "edit" /\ loaded(qs["one"]) ->
            IF f # None THEN f
            ELSE LET row == bank[qs["one"].at].row
                 IN  [emptyForm EXCEPT !.opened = row, !.draft = draftOf(row)]
      [] OTHER -> None

(* The last part of every step of the page. *)
shows(f, u) ==
    /\ form' = formShown(screen', queries', f)
    /\ ui' = kept(screen', queries', u)

-----------------------------------------------------------------------------
(* Queries *)

asking(q) == [q EXCEPT !.fetch = IF @ = noFetch THEN asked ELSE @,
                       !.failed = @ /\ q.at # 0,
                       !.joined = @ /\ q.fetch # noFetch]

firstLoading(q) == q.at = 0 /\ q.fetch # noFetch

(* An invalidated query is asked for again from the start, if it is mounted;
   the others will be when they are next.  A first load is not: it goes on,
   and is the answer that is kept, of whatever moment. *)
askedAgain(q) ==
    IF firstLoading(q) THEN [q EXCEPT !.joined = q.fetch # asked]
    ELSE [q EXCEPT !.fetch = asked, !.failed = @ /\ q.at # 0, !.joined = FALSE]

invalidated(scr, keys, qs) ==
    [k \in Keys |-> IF k \in keys \cap mounted(scr) THEN askedAgain(qs[k]) ELSE qs[k]]

(* A screen asks for what it mounts; what it unmounts is no longer awaited. *)
visited(scr, qs) ==
    [k \in Keys |-> IF k \in mounted(scr) THEN asking(qs[k])
                    ELSE [qs[k] EXCEPT !.fetch = noFetch, !.joined = FALSE]]

Visit(scr) ==
    /\ scr # screen
    /\ screen' = scr
    /\ queries' = visited(scr, queries)
    /\ sent' = [b \in Buttons |->
                  IF sent[b] = None THEN None ELSE [sent[b] EXCEPT !.here = FALSE]]
    /\ shows(None, untouched)
    /\ UNCHANGED <<bank, stopped>>

(* The window has the focus again, or "Try again". *)
Refetch(k) ==
    /\ k \in mounted(screen)
    /\ queries[k].fetch = noFetch
    /\ queries' = [queries EXCEPT ![k] = asking(@)]
    /\ UNCHANGED screen
    /\ shows(form, ui)
    /\ UNCHANGED <<bank, sent, stopped>>

Answer(k) ==
    /\ queries[k].fetch = asked
    /\ queries' = [queries EXCEPT ![k].fetch = Len(bank)]
    /\ UNCHANGED <<bank, screen, form, ui, sent, stopped>>

(* Whether the API tells this Viewer, by the rule of each endpoint. *)
told(k, version) ==
    CASE k \in {"one", "history"} -> visibleQuestions(viewer, version.row)
      [] k = "pending" -> mayPublish(viewer)
      [] k = "own" -> mayAddAQuestion(viewer)

Arrive(k) ==
    /\ queries[k].fetch > asked
    /\ LET q == queries[k]
           version == bank[q.fetch]
       IN  queries' = [queries EXCEPT ![k] =
             IF told(k, version)
             THEN [at |-> q.fetch, mine |-> version.mine, fetch |-> noFetch, failed |-> FALSE,
                   joined |-> q.joined]
             ELSE [@ EXCEPT !.fetch = noFetch, !.failed = TRUE]]
    /\ UNCHANGED screen
    /\ shows(form, ui)
    /\ UNCHANGED <<bank, sent, stopped>>

(* Nothing answered, however often it was asked. *)
Fail(k) ==
    /\ queries[k].fetch # noFetch
    /\ queries' = [queries EXCEPT ![k].fetch = noFetch, ![k].failed = TRUE]
    /\ UNCHANGED screen
    /\ shows(form, ui)
    /\ UNCHANGED <<bank, sent, stopped>>

-----------------------------------------------------------------------------
(* Acts on the Question *)

theQuestion == CHOOSE q \in QuestionIds : TRUE

asks(act) == [act |-> act, question |-> theQuestion, text |-> None, notes |-> None,
              clients |-> None, reason |-> None, confirmed |-> FALSE]

(* The bounds: so many requests in flight at a time, and one of each button,
   which disables itself only until it is drawn anew. *)
sends(button, a, touched) ==
    /\ sent[button] = None
    /\ Cardinality({b \in Buttons : sent[b] # None}) < MaxInFlight
    /\ sent' = [sent EXCEPT ![button] =
         [ask |-> a, touched |-> touched, here |-> TRUE, answer |-> None,
          at |-> 0, settled |-> FALSE]]

pressable(button) ==
    /\ button \in offered(screen, queries) \ ui.pressed
    /\ ~ui.confirming /\ ui.writing = None

Press(button) ==
    /\ button \in {"publish", "resubmit"}
    /\ pressable(button)
    /\ sends(button, asks(button), {})
    /\ ui' = [ui EXCEPT !.pressed = @ \cup {button}, !.refusal = FALSE]
    /\ UNCHANGED <<bank, queries, screen, form, stopped>>

(* Give or take back is by the summary the button was drawn with. *)
ToggleUpvote ==
    /\ pressable("upvote")
    /\ sends("upvote", asks(IF queries["one"].mine THEN "takeBack" ELSE "upvote"), {})
    /\ ui' = [ui EXCEPT !.pressed = @ \cup {"upvote"}]
    /\ UNCHANGED <<bank, queries, screen, form, stopped>>

PublishAnyway ==
    /\ ui.confirming
    /\ "publish" \notin ui.pressed
    /\ sends("publish", [asks("publish") EXCEPT !.confirmed = TRUE], {})
    /\ ui' = [ui EXCEPT !.pressed = @ \cup {"publish"}, !.confirming = FALSE, !.refusal = FALSE]
    /\ UNCHANGED <<bank, queries, screen, form, stopped>>

LeaveItPending ==
    /\ ui.confirming
    /\ ui' = [ui EXCEPT !.confirming = FALSE]
    /\ UNCHANGED <<bank, queries, screen, form, sent, stopped>>

OpenReason(act) ==
    /\ act \in {"reject", "return"} \cap offered(screen, queries)
    /\ ~ui.confirming /\ ui.writing = None
    /\ ui' = [ui EXCEPT !.writing = act]
    /\ UNCHANGED <<bank, queries, screen, form, sent, stopped>>

(* A blank reason is not sent. *)
SendReason(reason) ==
    /\ ui.writing \in ChangeActs \ ui.pressed
    /\ sends(ui.writing, [asks(ui.writing) EXCEPT !.reason = reason], {})
    /\ ui' = [ui EXCEPT !.pressed = @ \cup {ui.writing}, !.refusal = FALSE]
    /\ UNCHANGED <<bank, queries, screen, form, stopped>>

CancelReason ==
    /\ ui.writing # None
    /\ ui' = [ui EXCEPT !.writing = None]
    /\ UNCHANGED <<bank, queries, screen, form, sent, stopped>>

-----------------------------------------------------------------------------
(* The add and edit forms *)

(* Mutant: against the Question as it is held now. *)
changesIn_asHeld(draft, opened) ==
    LET held == bank[queries["one"].at].row
    IN  [asks("edit") EXCEPT
           !.text = IF draft.text = held.text THEN None ELSE draft.text,
           !.notes = IF draft.notes = held.notes THEN None ELSE draft.notes,
           !.clients = IF draft.clients = held.clients THEN None ELSE draft.clients]

(* Only what differs from the version the form was opened on. *)
changesIn(draft, opened) ==
    [asks("edit") EXCEPT
        !.text = IF draft.text = opened.text THEN None ELSE draft.text,
        !.notes = IF draft.notes = opened.notes THEN None ELSE draft.notes,
        !.clients = IF draft.clients = opened.clients THEN None ELSE draft.clients]

wholeDraft(draft) ==
    [asks("add") EXCEPT !.question = None, !.text = draft.text, !.notes = draft.notes,
                        !.clients = draft.clients]

requested(f) == IF f.opened = None THEN wholeDraft(f.draft) ELSE changesIn(f.draft, f.opened)

(* What the schema lets through: no blank field, and an edit names something. *)
passesCheck(a) ==
    /\ a.text # Blank /\ a.notes # Blank
    /\ a.act = "edit" => \E f \in Fields : a[f] # None

(* The dialog and everything it covers are one or the other's to use. *)
writable == form # None /\ form.dialog = None

(* Typing goes on while a request is in flight. *)
Type(f, value) ==
    /\ writable
    /\ form.draft[f] # value
    /\ form' = [form EXCEPT !.draft[f] = value, !.touched = @ \cup {f}]
    /\ UNCHANGED <<bank, queries, screen, ui, sent, stopped>>

Submit ==
    /\ writable
    /\ ~form.sending
    /\ LET a == requested(form)
       IN  IF passesCheck(a)
           THEN /\ sends(a.act, a, form.touched)
                /\ form' = [form EXCEPT !.sending = TRUE, !.told = FALSE]
           ELSE /\ form' = [form EXCEPT !.told = TRUE]
                /\ UNCHANGED sent
    /\ UNCHANGED <<bank, queries, screen, ui, stopped>>

(* Mutant: what the boxes hold by now. *)
confirmation_ofTheDraft(f) == [requested(f) EXCEPT !.confirmed = TRUE]

(* The request as it was refused. *)
confirmation(f) == [f.dialog EXCEPT !.confirmed = TRUE]

(* submitAnyway and saveAnyway. *)
SendAnyway ==
    /\ form # None /\ form.dialog # None
    /\ sends(form.dialog.act, confirmation(form), form.touched)
    /\ form' = [form EXCEPT !.dialog = None, !.sending = TRUE]
    /\ UNCHANGED <<bank, queries, screen, ui, stopped>>

ChangeMyQuestion ==
    /\ form # None /\ form.dialog # None
    /\ form' = [form EXCEPT !.dialog = None]
    /\ UNCHANGED <<bank, queries, screen, ui, sent, stopped>>

-----------------------------------------------------------------------------
(* The API and the others who use it *)

allows(a, row) ==
    /\ a.act = "add" => mayAddAQuestion(viewer)
    /\ a.act # "add" => visibleQuestions(viewer, row) /\ may(viewer, row, a.act)
    /\ a.act \in ChangeActs => row.state = startsFrom(a.act)
    /\ a.act = "upvote" => row.state = "published"

checksText(a, row) ==
    \/ a.act \in {"add", "publish"}
    \/ a.act = "edit" /\ row.state = "published" /\ a.text \notin {None, row.text}

after(a, version) ==
    CASE a.act = "add"    -> version
      [] a.act = "edit"   -> [version EXCEPT !.row = edited(@, a)]
      [] a.act \in ChangeActs -> [version EXCEPT !.row = changed(@, a)]
      [] a.act = "upvote" -> [version EXCEPT !.mine = TRUE]
      [] a.act = "takeBack" -> [version EXCEPT !.mine = FALSE]

writes(version) ==
    IF version = now THEN UNCHANGED bank
    ELSE Len(bank) < MaxVersions /\ bank' = Append(bank, version)

answers(button, answer) ==
    sent' = [sent EXCEPT ![button].answer = answer, ![button].at = Len(bank')]

Done(button) ==
    /\ allows(sent[button].ask, now.row)
    /\ writes(after(sent[button].ask, now))
    /\ answers(button, "done")
    /\ UNCHANGED stopped

NearDuplicatesFound(button) ==
    /\ allows(sent[button].ask, now.row)
    /\ checksText(sent[button].ask, now.row)
    /\ ~sent[button].ask.confirmed
    /\ UNCHANGED bank
    /\ answers(button, "nearDuplicates")
    /\ stopped' = stopped \cup {sent[button].ask}

(* By the rules, or, of a form, for a Tag or a Client that is not there. *)
Refused(button) ==
    /\ button \in {"add", "edit"} \/ ~allows(sent[button].ask, now.row)
    /\ UNCHANGED bank
    /\ answers(button, "refused")
    /\ UNCHANGED stopped

(* The answer is lost, and the request with it or not. *)
Lost(button) ==
    /\ \/ UNCHANGED bank
       \/ allows(sent[button].ask, now.row) /\ writes(after(sent[button].ask, now))
    /\ sent' = [sent EXCEPT ![button].answer = "unanswered"]
    /\ UNCHANGED stopped

Serve(button) ==
    /\ sent[button] # None
    /\ sent[button].answer = None
    /\ \/ Done(button)
       \/ NearDuplicatesFound(button)
       \/ Refused(button)
       \/ Lost(button)
    /\ UNCHANGED <<queries, screen, form, ui>>

OthersWrite ==
    /\ Len(bank) < MaxVersions
    /\ \E row \in {[now.row EXCEPT !.text = t] : t \in Texts}
                  \cup {[now.row EXCEPT !.notes = n] : n \in Notes}
                  \cup {changed(now.row, [asks(act) EXCEPT !.reason =
                          IF act \in {"reject", "return"} THEN CHOOSE r \in Reasons : TRUE
                          ELSE None])
                        : act \in {b \in ChangeActs : startsFrom(b) = now.row.state}} :
          /\ row # now.row
          /\ bank' = Append(bank, [now EXCEPT !.row = row])
    /\ UNCHANGED <<queries, screen, form, ui, sent, stopped>>

-----------------------------------------------------------------------------
(* Answers to acts *)

(* setQueryData: the answer is the Question as it was then.  A fetch under way
   goes on, and may put an older one in its place. *)
holding(qs, at) ==
    [qs EXCEPT !["one"].at = at, !["one"].mine = bank[at].mine, !["one"].failed = FALSE]

(* Mutant: only what went through makes the lists out of date. *)
afterMove_onSuccess(s) ==
    IF s.answer = "done"
    THEN invalidated(screen, Keys \ {"one"}, holding(queries, s.at))
    ELSE queries

(* useMoveQuestion: after a refusal too, and then the Question as well. *)
afterMove(s) ==
    IF s.answer = "done"
    THEN invalidated(screen, Keys \ {"one"}, holding(queries, s.at))
    ELSE invalidated(screen, Keys, queries)

(* useEditQuestion. *)
afterEdit(s) ==
    IF s.answer = "done"
    THEN invalidated(screen, {"history"}, holding(queries, s.at))
    ELSE queries

(* useUpvoteQuestion: only the summary, and only if the Question is held. *)
afterUpvote(s) ==
    IF s.answer # "done" THEN invalidated(screen, {"one"}, queries)
    ELSE IF queries["one"].at = 0 THEN queries
    ELSE [queries EXCEPT !["one"].mine = bank[s.at].mine, !["one"].failed = FALSE]

afterAct(s) ==
    CASE s.ask.act \in ChangeActs -> afterMove(s)
      [] s.ask.act = "edit" -> afterEdit(s)
      [] s.ask.act \in {"upvote", "takeBack"} -> afterUpvote(s)
      [] s.ask.act = "add" -> queries

(* The hooks' own callbacks, which run whatever has become of the screen. *)
Settle(button) ==
    /\ sent[button] # None
    /\ sent[button].answer # None
    /\ ~sent[button].settled
    /\ queries' = afterAct(sent[button])
    /\ sent' = [sent EXCEPT ![button].settled = TRUE]
    /\ UNCHANGED screen
    /\ shows(form, ui)
    /\ UNCHANGED <<bank, stopped>>

(* The queries that are awaited before the button hears. *)
awaited(s) ==
    CASE s.ask.act \in ChangeActs -> IF s.answer = "done" THEN Keys \ {"one"} ELSE Keys
      [] s.ask.act = "edit" -> {"history"}
      [] s.ask.act \in {"upvote", "takeBack"} -> {"one"}
      [] s.ask.act = "add" -> {}

heard(button) ==
    /\ sent[button] # None
    /\ sent[button].settled
    /\ \A k \in awaited(sent[button]) \cap mounted(screen) : queries[k].fetch = noFetch

(* A button that is still drawn opens its dialog or closes it, and the screen,
   if it is still up, tells what was refused. *)
HearMove(button) ==
    LET s == sent[button]
        drawn == button \in ui.pressed
    IN  /\ heard(button)
        /\ button \notin {"add", "edit"}
        /\ ui' = [ui EXCEPT
             !.pressed = @ \ {button},
             !.confirming = @ \/ (drawn /\ s.answer = "nearDuplicates"),
             !.writing = IF drawn /\ @ = button THEN None ELSE @,
             !.refusal = @ \/ (/\ s.here
                               /\ s.answer \in {"refused", "unanswered"}
                               /\ kept(screen, queries, [ui EXCEPT !.refusal = TRUE]).refusal)]
        /\ sent' = [sent EXCEPT ![button] = None]
        /\ UNCHANGED <<bank, queries, screen, form, stopped>>

(* A form that has been closed since hears nothing.  One that was saved goes
   to the Question, which is asked for once more. *)
HearForm(button) ==
    LET s == sent[button]
        listens == s.here /\ form # None /\ form.sending
    IN  /\ heard(button)
        /\ button \in {"add", "edit"}
        /\ sent' = [sent EXCEPT ![button] = None]
        /\ IF listens /\ s.answer = "done"
           THEN /\ screen' = "question"
                /\ queries' = visited("question", queries)
                /\ shows(None, untouched)
           ELSE /\ form' = IF ~listens THEN form
                           ELSE [form EXCEPT
                                   !.sending = FALSE,
                                   !.dialog = IF s.answer = "nearDuplicates" THEN s.ask ELSE None,
                                   !.told = s.answer # "nearDuplicates"]
                /\ UNCHANGED <<screen, queries, ui>>
        /\ UNCHANGED <<bank, stopped>>

-----------------------------------------------------------------------------
ScreensNext ==
    \/ \E scr \in Screens : Visit(scr)
    \/ \E k \in Keys : Refetch(k) \/ Answer(k) \/ Arrive(k) \/ Fail(k)
    \/ \E b \in Buttons : Press(b) \/ Serve(b) \/ Settle(b) \/ HearMove(b) \/ HearForm(b)
    \/ ToggleUpvote \/ PublishAnyway \/ LeaveItPending
    \/ \E act \in ChangeActs : OpenReason(act)
    \/ \E reason \in Reasons : SendReason(reason)
    \/ CancelReason
    \/ \E typed \in Typed : Type(typed[1], typed[2])
    \/ Submit \/ SendAnyway \/ ChangeMyQuestion
    \/ OthersWrite

ScreensSpec == ScreensInit /\ [][ScreensNext]_screenVars

-----------------------------------------------------------------------------
(* Properties *)

(* A save writes only the fields its Viewer typed in: whatever others have
   saved in the others since the form was opened stands.  (EditForm holds the
   version it opened on; questions are fetched again behind it.) *)
SavesTouchOnlyWhatWasTyped ==
    [][\A f \in Fields :
          /\ sent["edit"] # None
          /\ sent["edit"].answer = None
          /\ sent'["edit"].answer = "done"
          /\ f \notin sent["edit"].touched
          => now'.row[f] = now.row[f]]_screenVars

(* Confirming that a text is no Near-Duplicate is of a text the API has
   refused as one, whatever the Viewer typed while it answered.  (ADR-0014;
   RefusedAsNearDuplicate in edit-screen.tsx and contribute-screen.tsx.) *)
ConfirmationsAreOfWhatWasRefused ==
    \A b \in {"add", "edit"} :
        sent[b] # None /\ sent[b].ask.confirmed =>
            [sent[b].ask EXCEPT !.confirmed = FALSE] \in stopped

(* When a move has been answered, by a refusal or not, no list on the screen
   goes on showing the Question as it was before that answer: it is newer,
   asked for, or shown as not loaded.  (useMoveQuestion's onSettled; a page
   fetched before the act may still be under way when it is answered.)  The
   exception is a list's first load, which is not begun again: what the API
   had answered it before the move is shown after it. *)
AnsweredMovesAreLookedUp ==
    \A b \in ChangeActs :
        sent[b] # None /\ sent[b].settled /\ sent[b].answer # "unanswered" =>
            \A k \in mounted(screen) \ {"one"} :
                LET q == queries[k]
                IN  \/ q.at >= sent[b].at
                    \/ q.fetch = asked \/ q.fetch \in sent[b].at..Len(bank)
                    \/ q.failed
                    \/ q.joined
=============================================================================
