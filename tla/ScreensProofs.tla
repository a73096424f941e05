---------------------------- MODULE ScreensProofs ----------------------------
(***************************************************************************)
(* What the browser's screens keep to whatever the API answers and in      *)
(* whatever order: the screens of one Question and their forms, the read   *)
(* of a history, and the queue of Role Requests.  For any texts, Viewers   *)
(* and Accounts, any length of the bank, and any number of requests in     *)
(* flight.                                                                 *)
(***************************************************************************)
EXTENDS QuestionScreens, QuestionLists, AccountScreens, FiniteSetTheorems, TLAPS

-----------------------------------------------------------------------------
(* The screens of one Question *)

(* What is held and what is told is of versions there are. *)
OfVersions ==
    /\ \A k \in Keys : queries[k].at \in 0 .. Len(bank) /\ queries[k].fetch \in -1 .. Len(bank)
    /\ \A b \in Buttons : sent[b] # None =>
          /\ sent[b].at \in 0 .. Len(bank)
          /\ sent[b].answer = "done" => sent[b].at # 0
          /\ sent[b].settled => sent[b].answer # None

(* What a request or a dialog asks to write is no more than was typed. *)
narrow(ask, fields) == \A f \in Fields \ fields : ask[f] = None

(* The form is of the screen it is on, and differs from the version it was
   opened on only where it was typed in; its dialog is of a refusal. *)
formHolds(f) ==
    /\ \/ screen = "add" /\ f.opened = None
       \/ screen = "edit" /\ f.opened # None
    /\ f.opened # None =>
          \A field \in Fields \ f.touched : f.draft[field] = f.opened[field]
    /\ f.dialog # None =>
          /\ f.dialog \in stopped /\ ~f.dialog.confirmed /\ f.dialog.act = screen
          /\ screen = "edit" => narrow(f.dialog, f.touched)

FormHolds == form # None => formHolds(form)

(* What a form sent, of which the form may have been closed or typed in since. *)
saveHolds(b, s) ==
    /\ s.ask.act = b
    /\ s.ask.confirmed => [s.ask EXCEPT !.confirmed = FALSE] \in stopped
    /\ s.answer = "nearDuplicates" => s.ask \in stopped /\ ~s.ask.confirmed
    /\ b = "edit" => narrow(s.ask, s.touched)
    /\ s.here => screen = b

SavesHold == \A b \in {"add", "edit"} : sent[b] # None => saveHolds(b, sent[b])

TouchedSince ==
    \A b \in {"add", "edit"} :
        sent[b] # None /\ sent[b].here /\ form # None /\ form.sending =>
            sent[b].touched \subseteq form.touched

(* What the screen does not show is not awaited, and nothing on its way to a
   list is of before a move that has been answered, unless it is what the first
   load there was then had been answered. *)
lookedUp(q, at) ==
    \/ q.joined
    \/ q.fetch \notin 1 .. at - 1 /\ (q.at >= at \/ q.fetch # noFetch \/ q.failed)

ListsLookedUp ==
    /\ \A k \in Keys \ mounted(screen) : queries[k].fetch = noFetch
    /\ \A b \in ChangeActs : sent[b] # None =>
          /\ sent[b].ask.act = b
          /\ sent[b].settled /\ sent[b].answer # "unanswered" =>
                \A k \in mounted(screen) \ {"one"} : lookedUp(queries[k], sent[b].at)

ScreensInv ==
    /\ ScreensTypeOK
    /\ OfVersions
    /\ FormHolds
    /\ SavesHold
    /\ TouchedSince
    /\ ListsLookedUp

LEMMA RecordsAreNotNone ==
    /\ \A row \in Row : row # None
    /\ Blank # None /\ None \notin Texts \cup Notes \cup Reasons \cup QuestionIds
    /\ \A C \in SUBSET Clients : C # None
BY ScreensAssumption, NoneAssumption

LEMMA TheQuestion == theQuestion \in QuestionIds /\ theQuestion # None
BY ScreensAssumption, RecordsAreNotNone DEF theQuestion

LEMMA AskHas ==
    \A a \in Ask : /\ a.act \in Acts /\ a.reason \in {None} \cup Reasons
                   /\ a.text \in {None} \cup Texts /\ a.notes \in {None} \cup Notes
                   /\ a.clients \in {None} \cup SUBSET Clients
                   /\ a.confirmed \in BOOLEAN
BY DEF Ask

(* A request for an act, by what the act carries. *)
LEMMA AskedActs ==
    /\ \A act \in {"publish", "resubmit", "upvote", "takeBack"} :
          /\ asks(act) \in Ask
          /\ [asks(act) EXCEPT !.confirmed = TRUE] \in Ask
    /\ \A act \in {"reject", "return"}, reason \in Reasons :
          [asks(act) EXCEPT !.reason = reason] \in Ask
<1>1. ASSUME NEW act \in {"publish", "resubmit", "upvote", "takeBack"}
      PROVE  asks(act) \in Ask /\ [asks(act) EXCEPT !.confirmed = TRUE] \in Ask
  BY TheQuestion DEF asks, Ask, Acts, ChangeActs
<1>2. ASSUME NEW act \in {"reject", "return"}, NEW reason \in Reasons
      PROVE  [asks(act) EXCEPT !.reason = reason] \in Ask
  BY TheQuestion, RecordsAreNotNone DEF asks, Ask, Acts, ChangeActs
<1> QED BY <1>1, <1>2

LEMMA ActOfAsks ==
    /\ \A act, reason : [asks(act) EXCEPT !.reason = reason].act = act
    /\ \A act : asks(act).act = act /\ [asks(act) EXCEPT !.confirmed = TRUE].act = act
BY DEF asks

(* Of a confirmation the request that was refused can be read again. *)
LEMMA Confirmed ==
    ASSUME NEW a \in Ask, ~a.confirmed
    PROVE  LET c == [a EXCEPT !.confirmed = TRUE]
           IN  /\ c \in Ask /\ c.confirmed /\ c.act = a.act
               /\ [c EXCEPT !.confirmed = FALSE] = a
               /\ \A fields : narrow(a, fields) => narrow(c, fields)
<1> DEFINE c == [a EXCEPT !.confirmed = TRUE]
<1>1. c \in Ask /\ c.confirmed /\ c.act = a.act
  BY DEF Ask
<1>2. [c EXCEPT !.confirmed = FALSE] = a
  BY DEF Ask
<1>3. c.text = a.text /\ c.notes = a.notes /\ c.clients = a.clients
  BY DEF Ask
<1>4. \A fields : narrow(a, fields) => narrow(c, fields)
  BY <1>3 DEF narrow, Fields
<1> QED BY <1>1, <1>2, <1>4

(* What a form sends names, of an edit, only what differs from the version the
   form was opened on. *)
LEMMA Requested ==
    ASSUME NEW f \in Form, passesCheck(requested(f))
    PROVE  /\ requested(f) \in Ask /\ ~requested(f).confirmed
           /\ requested(f).act = IF f.opened = None THEN "add" ELSE "edit"
           /\ f.opened # None =>
                 \A field \in Fields : f.draft[field] = f.opened[field] => requested(f)[field] = None
<1>1. /\ f.opened \in {None} \cup Row
      /\ f.draft.text \in Texts \cup {Blank} /\ f.draft.notes \in Notes \cup {Blank}
      /\ f.draft.clients \in SUBSET Clients
  BY DEF Form
<1>2. CASE f.opened = None
  <2> DEFINE a == wholeDraft(f.draft)
  <2>1. requested(f) = a
    BY <1>2 DEF requested
  <2>2. /\ a.act = "add" /\ a.question = None /\ a.reason = None /\ a.confirmed = FALSE
        /\ a.text = f.draft.text /\ a.notes = f.draft.notes /\ a.clients = f.draft.clients
    BY DEF wholeDraft, asks
  <2>3. a.text \in Texts /\ a.notes \in Notes
    BY <1>1, <2>1, <2>2 DEF passesCheck
  <2>5. a \in Ask
    <3>1. f.draft.text \in Texts /\ f.draft.notes \in Notes
      BY <2>2, <2>3
    <3> QED BY <1>1, <3>1, RecordsAreNotNone DEF wholeDraft, asks, Ask, Acts
  <2> QED BY <1>2, <2>1, <2>2, <2>5
<1>3. CASE f.opened # None
  <2> DEFINE a == changesIn(f.draft, f.opened)
             t == IF f.draft.text = f.opened.text THEN None ELSE f.draft.text
             n == IF f.draft.notes = f.opened.notes THEN None ELSE f.draft.notes
             cs == IF f.draft.clients = f.opened.clients THEN None ELSE f.draft.clients
  <2>1. requested(f) = a
    BY <1>3 DEF requested
  <2>2. /\ a = [asks("edit") EXCEPT !.text = t, !.notes = n, !.clients = cs]
        /\ a.text = t /\ a.notes = n /\ a.clients = cs
    BY DEF changesIn, asks
  <2>3. t \in {None} \cup Texts /\ n \in {None} \cup Notes /\ cs \in {None} \cup SUBSET Clients
    <3>1. a.text = t /\ a.notes = n
      BY <2>2
    <3>2. t # Blank /\ n # Blank
      BY <2>1, <3>1 DEF passesCheck
    <3> QED BY <1>1, <3>2
  <2>4. \A field \in Fields : f.draft[field] = f.opened[field] => a[field] = None
    BY <2>2 DEF Fields
  <2> HIDE DEF t, n, cs
  <2>5. a \in Ask /\ ~a.confirmed /\ a.act = "edit"
    BY <2>2, <2>3, TheQuestion DEF asks, Ask, Acts
  <2> QED BY <1>3, <2>1, <2>4, <2>5
<1> QED BY <1>2, <1>3

(* What an act makes of a Question is a Question, and an edit leaves alone the
   fields its request does not name. *)
LEMMA AfterTyped ==
    ASSUME NEW a \in Ask, NEW version \in Version
    PROVE  /\ after(a, version) \in Version
           /\ a.act \in {"add", "edit"} =>
                 \A field \in Fields : a[field] = None =>
                    after(a, version).row[field] = version.row[field]
<1>1. PICK row \in Row : row = version.row
  BY DEF Version
<1>2. CASE a.act = "add"
  BY <1>2 DEF after, ChangeActs
<1>3. CASE a.act = "edit"
  <2>1. PICK t \in Texts, n \in Notes, cs \in SUBSET Clients :
           /\ t = given(a.text, row.text) /\ n = given(a.notes, row.notes)
           /\ cs = given(a.clients, row.clients)
    BY AskHas DEF given, Row
  <2>2. edited(row, a) = [row EXCEPT !.text = t, !.notes = n, !.clients = cs]
    BY <2>1 DEF edited
  <2>3. PICK to \in Row : to = edited(row, a)
    BY <2>2 DEF Row
  <2>4. to.text = t /\ to.notes = n /\ to.clients = cs
    BY <2>2, <2>3 DEF Row
  <2>5. \A field \in Fields : a[field] = None => to[field] = row[field]
    BY <2>1, <2>4 DEF given, Fields
  <2>6. after(a, version) = [version EXCEPT !.row = to]
    BY <1>1, <1>3, <2>3 DEF after, ChangeActs
  <2>7. after(a, version) \in Version /\ after(a, version).row = to
    BY <2>6 DEF Version
  <2> QED BY <1>1, <2>5, <2>7
<1>4. CASE a.act \in ChangeActs
  <2>1. leaves(a.act) \in PublicationStates /\ a.reason \in {None} \cup Reasons
    BY <1>4, AskHas DEF ChangeActs, leaves, PublicationStates
  <2>2. changed(row, a) \in Row
    BY <2>1 DEF changed, Row
  <2>3. after(a, version) = [version EXCEPT !.row = changed(row, a)]
    BY <1>1, <1>4 DEF after, ChangeActs
  <2> QED BY <1>4, <2>2, <2>3 DEF Version, ChangeActs
<1>5. CASE a.act \in {"upvote", "takeBack"}
  BY <1>5 DEF after, Version, ChangeActs
<1> QED BY <1>2, <1>3, <1>4, <1>5, AskHas DEF Acts

(* The versions are as many as they are long; the present one is the last. *)
LEMMA BankFacts ==
    ASSUME ScreensTypeOK
    PROVE  /\ Len(bank) \in Nat \ {0} /\ now \in Version
           /\ \A n \in 1 .. Len(bank) : bank[n] \in Version
<1>1. Len(bank) \in Nat \ {0} /\ \A n \in 1 .. Len(bank) : bank[n] \in Version
  BY DEF ScreensTypeOK
<1> QED BY <1>1 DEF now

LEMMA VersionHas ==
    \A version \in Version : version.row \in Row /\ version.mine \in BOOLEAN
BY DEF Version

(* A write adds one version or none, and takes none away. *)
LEMMA Written ==
    ASSUME ScreensTypeOK, NEW version \in Version,
           UNCHANGED bank \/ bank' = Append(bank, version)
    PROVE  /\ bank' \in Seq(Version) /\ bank' # <<>>
           /\ Len(bank) =< Len(bank') /\ Len(bank') \in Nat
           /\ \A n \in 1 .. Len(bank) : bank'[n] = bank[n]
           /\ now' = IF UNCHANGED bank THEN now ELSE version
<1>1. CASE UNCHANGED bank
  BY <1>1, BankFacts DEF ScreensTypeOK, now
<1>2. CASE bank' = Append(bank, version) /\ ~ UNCHANGED bank
  <2>1. /\ bank' \in Seq(Version) /\ Len(bank') = Len(bank) + 1 /\ bank'[Len(bank')] = version
        /\ \A n \in 1 .. Len(bank) : bank'[n] = bank[n]
    BY <1>2 DEF ScreensTypeOK
  <2> QED BY <1>2, <2>1, BankFacts DEF now
<1> QED BY <1>1, <1>2

-----------------------------------------------------------------------------
(* Queries *)

LEMMA QueryHas ==
    \A q \in Query : /\ q.at \in Nat /\ q.fetch \in {noFetch} \cup Nat
                     /\ q.mine \in BOOLEAN /\ q.failed \in BOOLEAN /\ q.joined \in BOOLEAN
BY DEF Query

(* To ask for a query changes what is awaited of it and not what it holds.  A
   first load goes on when it is asked for again. *)
LEMMA AskingTyped ==
    ASSUME NEW q \in Query
    PROVE  /\ asking(q) \in Query /\ asking(q).at = q.at
           /\ asking(q).fetch = IF q.fetch = noFetch THEN asked ELSE q.fetch
           /\ q.fetch # noFetch => asking(q).joined = q.joined
           /\ askedAgain(q) \in Query /\ askedAgain(q).at = q.at
           /\ \/ askedAgain(q).fetch = asked
              \/ askedAgain(q).fetch = q.fetch /\ askedAgain(q).joined
<1>1. PICK f \in {noFetch} \cup Nat, b \in BOOLEAN, j \in BOOLEAN, g \in BOOLEAN :
         /\ f = (IF q.fetch = noFetch THEN asked ELSE q.fetch)
         /\ b = (q.failed /\ q.at # 0)
         /\ j = (q.joined /\ q.fetch # noFetch)
         /\ g = (q.fetch # asked)
  BY DEF Query, asked
<1> DEFINE A == [[[q EXCEPT !.fetch = f] EXCEPT !.failed = b] EXCEPT !.joined = j]
           B == [[[q EXCEPT !.fetch = 0] EXCEPT !.failed = b] EXCEPT !.joined = FALSE]
           G == [q EXCEPT !.joined = g]
<1>2. asking(q) = A
  BY <1>1 DEF asking
<1>3. askedAgain(q) = IF firstLoading(q) THEN G ELSE B
  BY <1>1 DEF askedAgain, asked
<1>4. A \in Query /\ A.at = q.at /\ A.fetch = f /\ A.joined = j
  BY DEF Query
<1>5. B \in Query /\ B.at = q.at /\ B.fetch = 0
  BY DEF Query
<1>6. G \in Query /\ G.at = q.at /\ G.fetch = q.fetch /\ G.joined = g
  BY DEF Query
<1>7. q.joined \in BOOLEAN
  BY DEF Query
<1> HIDE DEF A, B, G
<1>8. asking(q) \in Query /\ asking(q).at = q.at /\ asking(q).fetch = f
  BY <1>2, <1>4
<1>9. q.fetch # noFetch => asking(q).joined = q.joined
  BY <1>1, <1>2, <1>4, <1>7
<1>10. /\ askedAgain(q) \in Query /\ askedAgain(q).at = q.at
       /\ \/ askedAgain(q).fetch = asked
          \/ askedAgain(q).fetch = q.fetch /\ askedAgain(q).joined
  <2>1. CASE firstLoading(q)
    BY <1>1, <1>3, <1>6, <2>1
  <2>2. CASE ~firstLoading(q)
    BY <1>3, <1>5, <2>2 DEF asked
  <2> QED BY <2>1, <2>2
<1> QED BY <1>1, <1>8, <1>9, <1>10

(* What was answered before a move is not awaited after it but of a first
   load. *)
afresh(q) == q.fetch = asked \/ q.joined

(* Of a query that is asked for, or put aside, what is held stays. *)
same(q, to) ==
    /\ to \in Query /\ to.at = q.at
    /\ \/ to.fetch = asked
       \/ to.fetch = q.fetch /\ to.joined
       \/ to = q

LEMMA Invalidated ==
    ASSUME NEW scr, NEW keys, NEW qs \in [Keys -> Query]
    PROVE  /\ invalidated(scr, keys, qs) \in [Keys -> Query]
           /\ \A k \in Keys :
                 /\ k \in keys \cap mounted(scr) => afresh(invalidated(scr, keys, qs)[k])
                 /\ k \notin mounted(scr) => invalidated(scr, keys, qs)[k] = qs[k]
                 /\ same(qs[k], invalidated(scr, keys, qs)[k])
<1>1. ASSUME NEW k \in Keys
      PROVE  same(qs[k], askedAgain(qs[k])) /\ afresh(askedAgain(qs[k]))
  <2>1. PICK q \in Query : q = qs[k]
    OBVIOUS
  <2> QED BY <2>1, AskingTyped DEF same, afresh
<1>2. ASSUME NEW k \in Keys
      PROVE  same(qs[k], qs[k])
  BY DEF same
<1> QED BY <1>1, <1>2 DEF invalidated, same

(* What an answered act makes of the cache: of the lists no more than that they
   are asked for again. *)
LEMMA AfterActFacts ==
    ASSUME ScreensTypeOK, NEW s \in Sent, s.at \in 0 .. Len(bank),
           s.answer = "done" => s.at # 0
    PROVE  /\ afterAct(s) \in [Keys -> Query]
           /\ \A k \in Keys \ {"one"} : same(queries[k], afterAct(s)[k])
           /\ afterAct(s)["one"].at \in {queries["one"].at, s.at}
           /\ afterAct(s)["one"].fetch \in {queries["one"].fetch, asked}
           /\ \A k \in Keys \ mounted(screen) : afterAct(s)[k].fetch = queries[k].fetch
           /\ s.ask.act \in ChangeActs =>
                 \A k \in (mounted(screen) \cap Keys) \ {"one"} : afresh(afterAct(s)[k])
<1>a. queries \in [Keys -> Query] /\ "one" \in Keys
  BY DEF ScreensTypeOK, Keys
<1>1. CASE s.answer = "done"
  <2>1. s.at \in 1 .. Len(bank) /\ s.at \in Nat /\ bank[s.at] \in Version
    BY <1>1, BankFacts
  <2> DEFINE H == holding(queries, s.at)
             U == [queries EXCEPT !["one"].mine = bank[s.at].mine, !["one"].failed = FALSE]
  <2>2. PICK m \in BOOLEAN : m = bank[s.at].mine
    BY <2>1, VersionHas
  <2>a. PICK old \in Query : old = queries["one"]
    BY <1>a
  <2>b. /\ [[[old EXCEPT !.at = s.at] EXCEPT !.mine = m] EXCEPT !.failed = FALSE] \in Query
        /\ [[[old EXCEPT !.at = s.at] EXCEPT !.mine = m] EXCEPT !.failed = FALSE].at = s.at
        /\ [[[old EXCEPT !.at = s.at] EXCEPT !.mine = m] EXCEPT !.failed = FALSE].fetch = old.fetch
    BY <2>1 DEF Query
  <2>c. /\ [[old EXCEPT !.mine = m] EXCEPT !.failed = FALSE] \in Query
        /\ [[old EXCEPT !.mine = m] EXCEPT !.failed = FALSE].at = old.at
        /\ [[old EXCEPT !.mine = m] EXCEPT !.failed = FALSE].fetch = old.fetch
    BY DEF Query
  <2>3. PICK q \in Query : /\ q = [[[old EXCEPT !.at = s.at] EXCEPT !.mine = m] EXCEPT !.failed = FALSE]
                           /\ q.at = s.at /\ q.fetch = queries["one"].fetch
    BY <2>a, <2>b
  <2>4. H = [queries EXCEPT !["one"] = q]
    BY <1>a, <2>2, <2>3, <2>a DEF holding
  <2>5. PICK u \in Query : /\ u = [[old EXCEPT !.mine = m] EXCEPT !.failed = FALSE]
                           /\ u.at = queries["one"].at /\ u.fetch = queries["one"].fetch
    BY <2>a, <2>c
  <2>6. U = [queries EXCEPT !["one"] = u]
    BY <1>a, <2>2, <2>5, <2>a
  <2> HIDE DEF H, U
  <2>7. /\ H \in [Keys -> Query] /\ \A k \in Keys \ {"one"} : H[k] = queries[k]
        /\ H["one"].at = s.at /\ H["one"].fetch = queries["one"].fetch
    BY <1>a, <2>3, <2>4
  <2>8. /\ U \in [Keys -> Query] /\ \A k \in Keys \ {"one"} : U[k] = queries[k]
        /\ U["one"].at = queries["one"].at /\ U["one"].fetch = queries["one"].fetch
    BY <1>a, <2>5, <2>6
  <2>9. CASE s.ask.act \in ChangeActs
    <3>1. afterAct(s) = invalidated(screen, Keys \ {"one"}, H)
      BY <1>1, <2>9 DEF afterAct, afterMove, H, ChangeActs
    <3> QED BY <1>a, <2>7, <3>1, Invalidated DEF same
  <2>10. CASE s.ask.act = "edit"
    <3>1. afterAct(s) = invalidated(screen, {"history"}, H) /\ s.ask.act \notin ChangeActs
      BY <1>1, <2>10 DEF afterAct, afterEdit, H, ChangeActs
    <3> QED BY <1>a, <2>7, <3>1, Invalidated DEF same
  <2>11. CASE s.ask.act \in {"upvote", "takeBack"}
    <3>1. afterAct(s) \in {queries, U} /\ s.ask.act \notin ChangeActs
      BY <1>1, <2>11 DEF afterAct, afterUpvote, U, ChangeActs
    <3> QED BY <1>a, <2>8, <3>1 DEF same
  <2>12. CASE s.ask.act = "add"
    <3>1. afterAct(s) = queries /\ s.ask.act \notin ChangeActs
      BY <2>12 DEF afterAct, ChangeActs
    <3> QED BY <1>a, <3>1 DEF same
  <2> QED BY <2>9, <2>10, <2>11, <2>12, AskHas DEF Sent, Acts
<1>2. CASE s.answer # "done"
  <2>1. CASE s.ask.act \in ChangeActs
    <3>1. afterAct(s) = invalidated(screen, Keys, queries)
      BY <1>2, <2>1 DEF afterAct, afterMove, ChangeActs
    <3> QED BY <1>a, <3>1, Invalidated DEF same
  <2>2. CASE s.ask.act \in {"upvote", "takeBack"}
    <3>1. afterAct(s) = invalidated(screen, {"one"}, queries) /\ s.ask.act \notin ChangeActs
      BY <1>2, <2>2 DEF afterAct, afterUpvote, ChangeActs
    <3> QED BY <1>a, <3>1, Invalidated DEF same
  <2>3. CASE s.ask.act \in {"add", "edit"}
    <3>1. afterAct(s) = queries /\ s.ask.act \notin ChangeActs
      BY <1>2, <2>3 DEF afterAct, afterEdit, ChangeActs
    <3> QED BY <1>a, <3>1 DEF same
  <2> QED BY <2>1, <2>2, <2>3, AskHas DEF Sent, Acts
<1> QED BY <1>1, <1>2

LEMMA MountedKeys == \A scr \in Screens : mounted(scr) \subseteq Keys
BY DEF mounted, Screens, Keys

-----------------------------------------------------------------------------
(* Forms, buttons and what they sent *)

LEMMA KeptTyped ==
    ASSUME NEW u \in UI, NEW scr, NEW qs
    PROVE  kept(scr, qs, u) \in UI
<1>1. /\ u.pressed \in SUBSET Buttons /\ u.confirming \in BOOLEAN
      /\ u.writing \in {None, "reject", "return"} /\ u.refusal \in BOOLEAN
  BY DEF UI
<1>2. PICK p \in SUBSET Buttons, c \in BOOLEAN, w \in {None, "reject", "return"}, r \in BOOLEAN :
         /\ p = u.pressed \cap offered(scr, qs)
         /\ c = (u.confirming /\ "publish" \in offered(scr, qs))
         /\ w = (IF u.writing \in offered(scr, qs) THEN u.writing ELSE None)
         /\ r = (u.refusal /\ (scr = "question" => loaded(qs["one"])))
  BY <1>1
<1>3. kept(scr, qs, u) = [pressed |-> p, confirming |-> c, writing |-> w, refusal |-> r]
  BY <1>2 DEF kept
<1> QED BY <1>3 DEF UI

LEMMA UntouchedTyped == untouched \in UI
BY DEF untouched, UI

LEMMA EmptyFormTyped ==
    /\ emptyForm \in Form /\ emptyForm.opened = None /\ emptyForm.dialog = None
    /\ ~emptyForm.sending
    /\ \A row \in Row :
          LET F == [emptyForm EXCEPT !.opened = row, !.draft = draftOf(row)]
          IN  /\ F \in Form /\ F.opened = row /\ F.draft = draftOf(row) /\ F.dialog = None
              /\ ~F.sending /\ \A field \in Fields : F.draft[field] = row[field]
<1>1. /\ emptyForm \in Form /\ emptyForm.opened = None /\ emptyForm.dialog = None
      /\ ~emptyForm.sending
  BY DEF emptyForm, Form
<1>2. ASSUME NEW row \in Row
      PROVE  LET F == [emptyForm EXCEPT !.opened = row, !.draft = draftOf(row)]
             IN  /\ F \in Form /\ F.opened = row /\ F.draft = draftOf(row) /\ F.dialog = None
                 /\ ~F.sending /\ \A field \in Fields : F.draft[field] = row[field]
  <2> DEFINE F == [emptyForm EXCEPT !.opened = row, !.draft = draftOf(row)]
  <2>1. draftOf(row) \in [text: Texts \cup {Blank}, notes: Notes \cup {Blank},
                          clients: SUBSET Clients]
    BY DEF draftOf, Row
  <2>2. F \in Form /\ F.opened = row /\ F.draft = draftOf(row) /\ F.dialog = None /\ ~F.sending
    BY <2>1 DEF emptyForm, Form
  <2>3. \A field \in Fields : draftOf(row)[field] = row[field]
    BY DEF draftOf, Fields
  <2> QED BY <2>2, <2>3
<1> QED BY <1>1, <1>2

(* A form that is drawn anew holds nothing typed, asked or told. *)
LEMMA FreshForm ==
    ASSUME ScreensInv, UNCHANGED bank, queries'["one"].at \in 0 .. Len(bank),
           \/ form' = None
           \/ screen' = "add" /\ form' = emptyForm
           \/ /\ screen' = "edit" /\ loaded(queries'["one"])
              /\ form' = [emptyForm EXCEPT !.opened = bank[queries'["one"].at].row,
                                          !.draft = draftOf(bank[queries'["one"].at].row)]
    PROVE  form' \in {None} \cup Form /\ FormHolds' /\ ~(form' # None /\ form'.sending)
<1>1. CASE form' = None
  BY <1>1 DEF FormHolds
<1>2. CASE screen' = "add" /\ form' = emptyForm
  <2>1. formHolds(emptyForm)'
    BY <1>2, EmptyFormTyped DEF formHolds
  <2> QED BY <1>2, <2>1, EmptyFormTyped DEF FormHolds
<1>3. CASE /\ screen' = "edit" /\ loaded(queries'["one"])
           /\ form' = [emptyForm EXCEPT !.opened = bank[queries'["one"].at].row,
                                       !.draft = draftOf(bank[queries'["one"].at].row)]
  <2>1. queries'["one"].at \in 1 .. Len(bank)
    BY <1>3, BankFacts DEF loaded, ScreensInv
  <2>2. PICK row \in Row : row = bank[queries'["one"].at].row
    BY <2>1, BankFacts, VersionHas DEF ScreensInv
  <2>3. PICK F \in Form : F = [emptyForm EXCEPT !.opened = row, !.draft = draftOf(row)]
    BY EmptyFormTyped
  <2>4. form' = F
    BY <1>3, <2>2, <2>3
  <2>5. /\ F.opened = row /\ row # None /\ F.dialog = None /\ ~F.sending
        /\ \A field \in Fields : F.draft[field] = row[field]
    BY <2>3, EmptyFormTyped, RecordsAreNotNone
  <2>6. formHolds(F)'
    BY <1>3, <2>5 DEF formHolds
  <2> QED BY <2>4, <2>5, <2>6 DEF FormHolds
<1> QED BY <1>1, <1>2, <1>3

LEMMA NewForm ==
    ASSUME ScreensInv, UNCHANGED bank, queries'["one"].at \in 0 .. Len(bank),
           form' = formShown(screen', queries', None)
    PROVE  form' \in {None} \cup Form /\ FormHolds' /\ ~(form' # None /\ form'.sending)
BY FreshForm DEF formShown

(* On the screen there is, a form that is drawn is the one there was or a new
   one. *)
LEMMA SameForm ==
    ASSUME ScreensInv, UNCHANGED <<bank, screen, stopped>>, queries'["one"].at \in 0 .. Len(bank),
           form' = formShown(screen', queries', form)
    PROVE  /\ form' \in {None} \cup Form /\ FormHolds'
           /\ form' # None /\ form'.sending => form # None /\ form' = form
<1>1. CASE form # None /\ form' = form
  BY <1>1 DEF ScreensInv, ScreensTypeOK, FormHolds, formHolds
<1>2. CASE ~(form # None /\ form' = form)
  BY <1>2, FreshForm DEF formShown
<1> QED BY <1>1, <1>2

(* A request a form sent goes on as it was, or has been heard. *)
goesOn(b) ==
    sent'[b] # None =>
        /\ sent[b] # None
        /\ sent'[b].ask = sent[b].ask /\ sent'[b].touched = sent[b].touched
        /\ sent'[b].answer = sent[b].answer
        /\ sent'[b].here => sent[b].here /\ screen' = screen

LEMMA SavesGoOn ==
    ASSUME ScreensInv, goesOn("add"), goesOn("edit"), stopped \subseteq stopped',
           form' # None /\ form'.sending =>
              form # None /\ form.sending /\ form.touched \subseteq form'.touched
    PROVE  SavesHold' /\ TouchedSince'
<1>1. ASSUME NEW b \in {"add", "edit"}, sent'[b] # None
      PROVE  saveHolds(b, sent[b])'
  <2>1. /\ saveHolds(b, sent[b]) /\ sent'[b].ask = sent[b].ask
        /\ sent'[b].touched = sent[b].touched
        /\ sent'[b].answer = sent[b].answer
        /\ sent'[b].here => sent[b].here /\ screen' = screen
    BY <1>1 DEF ScreensInv, SavesHold, goesOn
  <2> QED BY <2>1 DEF saveHolds
<1>2. TouchedSince'
  BY DEF ScreensInv, TouchedSince, goesOn
<1> QED BY <1>1, <1>2 DEF SavesHold

(* Nor does anything a move has had looked up come to be of before it. *)
LEMMA StillLookedUp ==
    ASSUME ScreensInv, screen' = screen, queries' \in [Keys -> Query],
           \A k \in Keys \ {"one"} : same(queries[k], queries'[k]),
           \A k \in Keys \ mounted(screen) : queries'[k].fetch = queries[k].fetch,
           \A b \in ChangeActs : sent'[b] # None =>
              /\ sent'[b].ask.act = b
              /\ sent'[b].settled /\ sent'[b].answer # "unanswered" =>
                    /\ sent[b] # None /\ sent[b].settled /\ sent[b].answer # "unanswered"
                    /\ sent'[b].at = sent[b].at
    PROVE  ListsLookedUp'
<1>1. \A k \in Keys \ mounted(screen) : queries'[k].fetch = noFetch
  BY DEF ScreensInv, ListsLookedUp
<1>2. ASSUME NEW b \in ChangeActs, sent'[b] # None, sent'[b].settled,
             sent'[b].answer # "unanswered", NEW k \in mounted(screen) \ {"one"}
      PROVE  lookedUp(queries'[k], sent'[b].at)
  <2>1. /\ sent'[b].at = sent[b].at /\ lookedUp(queries[k], sent[b].at)
        /\ sent[b].at \in Nat
    BY <1>2 DEF ScreensInv, ListsLookedUp, OfVersions, Buttons
  <2>2. k \in Keys
    BY MountedKeys DEF ScreensInv, ScreensTypeOK
  <2>3. same(queries[k], queries'[k])
    BY <1>2, <2>2
  <2> QED BY <2>1, <2>3 DEF same, lookedUp, asked, noFetch
<1> QED BY <1>1, <1>2 DEF ListsLookedUp, lookedUp

LEMMA SendsFacts ==
    ASSUME ScreensTypeOK, NEW button \in Buttons, NEW a \in Ask, NEW touched \in SUBSET Fields,
           sends(button, a, touched)
    PROVE  /\ sent' \in [Buttons -> {None} \cup Sent] /\ sent[button] = None
           /\ sent'[button].ask = a /\ sent'[button].touched = touched
           /\ sent'[button].answer = None /\ sent'[button].at = 0
           /\ ~sent'[button].settled /\ sent'[button].here
           /\ \A b \in Buttons \ {button} : sent'[b] = sent[b]
<1> DEFINE S == [ask |-> a, touched |-> touched, here |-> TRUE, answer |-> None,
                 at |-> 0, settled |-> FALSE]
<1>1. /\ S \in Sent /\ S.ask = a /\ S.touched = touched /\ S.answer = None /\ S.at = 0
      /\ ~S.settled /\ S.here
  BY DEF Sent
<1>2. sent' = [sent EXCEPT ![button] = S] /\ sent[button] = None
  BY DEF sends
<1> HIDE DEF S
<1> QED BY <1>1, <1>2 DEF ScreensTypeOK

-----------------------------------------------------------------------------
(* The steps of the screens *)

LEMMA VisitedFacts ==
    ASSUME NEW scr \in Screens, NEW qs \in [Keys -> Query]
    PROVE  /\ visited(scr, qs) \in [Keys -> Query]
           /\ \A k \in Keys :
                 /\ visited(scr, qs)[k].at = qs[k].at
                 /\ k \in mounted(scr) =>
                       /\ visited(scr, qs)[k].fetch =
                             IF qs[k].fetch = noFetch THEN asked ELSE qs[k].fetch
                       /\ qs[k].fetch # noFetch => visited(scr, qs)[k].joined = qs[k].joined
                 /\ k \notin mounted(scr) => visited(scr, qs)[k].fetch = noFetch
<1>1. ASSUME NEW k \in Keys
      PROVE  /\ asking(qs[k]) \in Query /\ asking(qs[k]).at = qs[k].at
             /\ asking(qs[k]).fetch = IF qs[k].fetch = noFetch THEN asked ELSE qs[k].fetch
             /\ qs[k].fetch # noFetch => asking(qs[k]).joined = qs[k].joined
             /\ [qs[k] EXCEPT !.fetch = noFetch, !.joined = FALSE] \in Query
             /\ [qs[k] EXCEPT !.fetch = noFetch, !.joined = FALSE].at = qs[k].at
             /\ [qs[k] EXCEPT !.fetch = noFetch, !.joined = FALSE].fetch = noFetch
  <2>1. PICK q \in Query : q = qs[k]
    OBVIOUS
  <2>2. [[q EXCEPT !.fetch = noFetch] EXCEPT !.joined = FALSE] \in Query
    BY DEF Query
  <2>3. /\ [[q EXCEPT !.fetch = noFetch] EXCEPT !.joined = FALSE].at = q.at
        /\ [[q EXCEPT !.fetch = noFetch] EXCEPT !.joined = FALSE].fetch = noFetch
    BY DEF Query
  <2> QED BY <2>1, <2>2, <2>3, AskingTyped
<1> QED BY <1>1 DEF visited

(* The queries of the screen that is come to are awaited. *)
LEMMA VisitLooksUp ==
    ASSUME ScreensInv, NEW scr \in Screens, screen' = scr, queries' = visited(scr, queries),
           \A b \in ChangeActs : sent'[b] # None =>
              /\ sent[b] # None /\ sent'[b].ask = sent[b].ask
              /\ sent'[b].settled = sent[b].settled
              /\ sent'[b].answer = sent[b].answer /\ sent'[b].at = sent[b].at
    PROVE  ListsLookedUp'
<1>a. queries \in [Keys -> Query]
  BY DEF ScreensInv, ScreensTypeOK
<1>1. \A k \in Keys \ mounted(scr) : queries'[k].fetch = noFetch
  BY <1>a, VisitedFacts
<1>2. ASSUME NEW b \in ChangeActs, sent'[b] # None, sent'[b].settled,
             sent'[b].answer # "unanswered", NEW k \in mounted(scr) \ {"one"}
      PROVE  lookedUp(queries'[k], sent'[b].at)
  <2>1. k \in Keys
    BY MountedKeys
  <2>2. /\ queries'[k].fetch = IF queries[k].fetch = noFetch THEN asked ELSE queries[k].fetch
        /\ queries[k].fetch # noFetch => queries'[k].joined = queries[k].joined
    BY <1>a, <2>1, VisitedFacts
  <2>3. CASE queries[k].fetch = noFetch
    <3>1. queries'[k].fetch \notin 1 .. sent'[b].at - 1 /\ queries'[k].fetch # noFetch
      BY <2>2, <2>3 DEF asked, noFetch
    <3> QED BY <3>1 DEF lookedUp
  <2>4. CASE queries[k].fetch # noFetch
    <3>1. k \in mounted(screen) \ {"one"}
      BY <2>1, <2>4 DEF ScreensInv, ListsLookedUp
    <3>2. lookedUp(queries[k], sent[b].at)
      BY <1>2, <3>1 DEF ScreensInv, ListsLookedUp
    <3> QED BY <1>2, <2>2, <2>4, <3>2 DEF lookedUp
  <2> QED BY <2>3, <2>4
<1>3. \A b \in ChangeActs : sent'[b] # None => sent'[b].ask.act = b
  BY DEF ScreensInv, ListsLookedUp
<1> QED BY <1>1, <1>2, <1>3 DEF ListsLookedUp, lookedUp

LEMMA VisitStep ==
    ASSUME ScreensInv, NEW scr \in Screens, Visit(scr)
    PROVE  ScreensInv'
<1>1. /\ scr # screen /\ screen' = scr /\ queries' = visited(scr, queries)
      /\ form' = formShown(screen', queries', None) /\ ui' = kept(screen', queries', untouched)
      /\ UNCHANGED <<bank, stopped>>
      /\ sent' = [b \in Buttons |-> IF sent[b] = None THEN None ELSE [sent[b] EXCEPT !.here = FALSE]]
  BY DEF Visit, shows
<1>2. /\ queries' \in [Keys -> Query]
      /\ \A k \in Keys : /\ queries'[k].at \in 0 .. Len(bank)
                         /\ queries'[k].fetch \in -1 .. Len(bank)
  <2>1. queries \in [Keys -> Query] /\ Len(bank) \in Nat
    BY BankFacts DEF ScreensInv, ScreensTypeOK
  <2> QED BY <1>1, <2>1, VisitedFacts DEF ScreensInv, OfVersions, asked, noFetch
<1>3. ASSUME NEW b \in Buttons, sent'[b] # None
      PROVE  /\ sent[b] # None /\ sent'[b] \in Sent /\ ~sent'[b].here
             /\ sent'[b].ask = sent[b].ask /\ sent'[b].touched = sent[b].touched
             /\ sent'[b].answer = sent[b].answer /\ sent'[b].at = sent[b].at
             /\ sent'[b].settled = sent[b].settled
  <2>1. sent[b] # None /\ sent'[b] = [sent[b] EXCEPT !.here = FALSE]
    BY <1>1, <1>3
  <2>2. PICK s \in Sent : s = sent[b]
    BY <2>1 DEF ScreensInv, ScreensTypeOK
  <2> QED BY <2>1, <2>2 DEF Sent
<1>4. sent' \in [Buttons -> {None} \cup Sent]
  BY <1>1, <1>3
<1>5. form' \in {None} \cup Form /\ FormHolds' /\ ~(form' # None /\ form'.sending)
  <2>1. queries'["one"].at \in 0 .. Len(bank)
    BY <1>2 DEF Keys
  <2> QED BY <1>1, <2>1, NewForm
<1>6. ui' \in UI
  BY <1>1, KeptTyped, UntouchedTyped
<1>7. SavesHold' /\ TouchedSince'
  <2>1. goesOn("add") /\ goesOn("edit")
    BY <1>3 DEF goesOn, Buttons
  <2> QED BY <1>1, <1>5, <2>1, SavesGoOn
<1>8. ListsLookedUp'
  <2>1. \A b \in ChangeActs : b \in Buttons
    BY DEF Buttons
  <2> QED BY <1>1, <1>3, <2>1, VisitLooksUp
<1>9. OfVersions'
  BY <1>1, <1>2, <1>3 DEF ScreensInv, OfVersions
<1>10. ScreensTypeOK'
  BY <1>1, <1>2, <1>4, <1>5, <1>6 DEF ScreensInv, ScreensTypeOK
<1> QED BY <1>5, <1>7, <1>8, <1>9, <1>10 DEF ScreensInv

(* A query asked for again, answered or failed, on the screen there is: what
   the screen shows follows. *)
LEMMA PageStep ==
    ASSUME ScreensInv, queries' \in [Keys -> Query],
           \A k \in Keys : /\ queries'[k].at \in 0 .. Len(bank)
                           /\ queries'[k].fetch \in -1 .. Len(bank),
           ListsLookedUp', shows(form, ui), UNCHANGED <<screen, bank, stopped>>,
           sent' \in [Buttons -> {None} \cup Sent],
           \A b \in Buttons : sent'[b] # None =>
              /\ sent[b] # None /\ sent'[b].ask = sent[b].ask /\ sent'[b].touched = sent[b].touched
              /\ sent'[b].here = sent[b].here /\ sent'[b].answer = sent[b].answer
              /\ sent'[b].at = sent[b].at /\ (sent'[b].settled => sent[b].answer # None)
    PROVE  ScreensInv'
<1>1. /\ form' = formShown(screen', queries', form) /\ ui' = kept(screen', queries', ui)
      /\ screen \in Screens /\ ui \in UI
  BY DEF shows, ScreensInv, ScreensTypeOK
<1>2. /\ form' \in {None} \cup Form /\ FormHolds'
      /\ form' # None /\ form'.sending => form # None /\ form' = form
  <2>1. queries'["one"].at \in 0 .. Len(bank)
    BY DEF Keys
  <2> QED BY <1>1, <2>1, SameForm
<1>3. ui' \in UI
  BY <1>1, KeptTyped
<1>4. SavesHold' /\ TouchedSince'
  <2>1. goesOn("add") /\ goesOn("edit")
    BY DEF goesOn, Buttons
  <2> QED BY <1>2, <2>1, SavesGoOn
<1>5. OfVersions'
  BY DEF ScreensInv, OfVersions
<1>6. ScreensTypeOK'
  BY <1>2, <1>3 DEF ScreensInv, ScreensTypeOK
<1> QED BY <1>2, <1>4, <1>5, <1>6 DEF ScreensInv

LEMMA QueryStep ==
    ASSUME ScreensInv, NEW k \in Keys, Refetch(k) \/ Arrive(k) \/ Fail(k)
    PROVE  ScreensInv'
<1>a. /\ queries \in [Keys -> Query] /\ Len(bank) \in Nat \ {0}
      /\ \A j \in Keys : queries[j].at \in 0 .. Len(bank) /\ queries[j].fetch \in -1 .. Len(bank)
  BY BankFacts DEF ScreensInv, ScreensTypeOK, OfVersions
<1>b. PICK q \in Query : q = queries[k]
  BY <1>a
<1>0. /\ shows(form, ui) /\ UNCHANGED <<screen, bank, sent, stopped>>
      /\ \E to : queries' = [queries EXCEPT ![k] = to]
  BY <1>b DEF Refetch, Arrive, Fail
<1>1. PICK to \in Query :
         /\ queries' = [queries EXCEPT ![k] = to]
         /\ to.at \in 0 .. Len(bank) /\ to.fetch \in -1 .. Len(bank)
         /\ to.fetch \in {noFetch, asked, q.fetch}
         /\ to.fetch = q.fetch => to = q
         /\ to.fetch = asked \/ to.joined = q.joined
         /\ k \notin mounted(screen) => to.fetch = noFetch
         /\ \/ to.failed \/ to.fetch = asked
            \/ to.at = q.fetch /\ q.fetch > 0
  <2>1. CASE Refetch(k)
    <3>1. asking(q) \in Query /\ asking(q).at = q.at /\ asking(q).fetch = asked
      BY <1>b, <2>1, AskingTyped DEF Refetch
    <3>2. queries' = [queries EXCEPT ![k] = asking(q)] /\ k \in mounted(screen) /\ q.fetch = noFetch
      BY <1>a, <1>b, <2>1 DEF Refetch
    <3> DEFINE T == asking(q)
    <3> HIDE DEF T
    <3>3. /\ queries' = [queries EXCEPT ![k] = T]
          /\ T.at \in 0 .. Len(bank) /\ T.fetch \in -1 .. Len(bank)
          /\ T.fetch \in {noFetch, asked, q.fetch}
          /\ T.fetch = q.fetch => T = q
          /\ T.fetch = asked \/ T.joined = q.joined
          /\ k \notin mounted(screen) => T.fetch = noFetch
          /\ \/ T.failed \/ T.fetch = asked
             \/ T.at = q.fetch /\ q.fetch > 0
      BY <1>a, <1>b, <3>1, <3>2 DEF asked, noFetch, T
    <3> QED BY <3>1, <3>3 DEF T
  <2>2. CASE Fail(k)
    <3> DEFINE F == [[q EXCEPT !.fetch = noFetch] EXCEPT !.failed = TRUE]
    <3>1. F \in Query /\ F.at = q.at /\ F.fetch = noFetch /\ F.failed /\ F.joined = q.joined
      BY DEF Query
    <3>2. queries' = [queries EXCEPT ![k] = F] /\ q.fetch # noFetch
      BY <1>a, <1>b, <2>2 DEF Fail
    <3> HIDE DEF F
    <3>3. /\ queries' = [queries EXCEPT ![k] = F]
          /\ F.at \in 0 .. Len(bank) /\ F.fetch \in -1 .. Len(bank)
          /\ F.fetch \in {noFetch, asked, q.fetch}
          /\ F.fetch = q.fetch => F = q
          /\ F.fetch = asked \/ F.joined = q.joined
          /\ k \notin mounted(screen) => F.fetch = noFetch
          /\ \/ F.failed \/ F.fetch = asked
             \/ F.at = q.fetch /\ q.fetch > 0
      BY <1>a, <1>b, <3>1, <3>2 DEF asked, noFetch
    <3> QED BY <3>1, <3>3
  <2>3. CASE Arrive(k)
    <3>1. q.fetch \in 1 .. Len(bank) /\ q.fetch > asked /\ bank[q.fetch] \in Version
      BY <1>a, <1>b, <2>3, BankFacts DEF Arrive, asked, ScreensInv
    <3>2. PICK m \in BOOLEAN : m = bank[q.fetch].mine
      BY <3>1, VersionHas
    <3> DEFINE A == [at |-> q.fetch, mine |-> m, fetch |-> noFetch, failed |-> FALSE,
                     joined |-> q.joined]
               F == [[q EXCEPT !.fetch = noFetch] EXCEPT !.failed = TRUE]
    <3>a. q.fetch \in Nat /\ q.fetch # noFetch /\ q.fetch > 0
      BY <3>1 DEF noFetch
    <3>b. A \in Query /\ A.at = q.fetch /\ A.fetch = noFetch /\ A.joined = q.joined
      BY <3>a, QueryHas DEF Query
    <3>3. F \in Query /\ F.at = q.at /\ F.fetch = noFetch /\ F.failed /\ F.joined = q.joined
      BY DEF Query
    <3>4. \/ queries' = [queries EXCEPT ![k] = A]
          \/ queries' = [queries EXCEPT ![k] = F]
      BY <1>a, <1>b, <2>3, <3>2 DEF Arrive
    <3> HIDE DEF A, F
    <3> QED BY <1>a, <1>b, <3>1, <3>3, <3>4, <3>a, <3>b DEF asked, noFetch
  <2> QED BY <2>1, <2>2, <2>3
<1>2. queries' \in [Keys -> Query] /\ queries'[k] = to /\ \A j \in Keys \ {k} : queries'[j] = queries[j]
  BY <1>a, <1>1
<1>3. \A j \in Keys : queries'[j].at \in 0 .. Len(bank) /\ queries'[j].fetch \in -1 .. Len(bank)
  BY <1>a, <1>1, <1>2
<1>4. ListsLookedUp'
  <2>1. \A j \in Keys \ mounted(screen) : queries'[j].fetch = noFetch
    BY <1>1, <1>2 DEF ScreensInv, ListsLookedUp
  <2>2. ASSUME NEW b \in ChangeActs, sent[b] # None, sent[b].settled,
               sent[b].answer # "unanswered", NEW j \in mounted(screen) \ {"one"}
        PROVE  lookedUp(queries'[j], sent[b].at)
    <3>1. /\ lookedUp(queries[j], sent[b].at) /\ sent[b].at \in Nat /\ j \in Keys
      BY <2>2, MountedKeys
         DEF ScreensInv, ListsLookedUp, OfVersions, Buttons, ScreensTypeOK
    <3>2. CASE j = k
      <4>1. q.joined \/ q.fetch \notin 1 .. sent[b].at - 1
        BY <1>b, <3>1, <3>2 DEF lookedUp
      <4>2. CASE to.fetch # asked /\ q.joined
        BY <1>1, <1>2, <3>2, <4>2 DEF lookedUp
      <4>3. CASE to.fetch = asked
        BY <1>2, <3>2, <4>3 DEF lookedUp, asked, noFetch
      <4>4. CASE q.fetch \notin 1 .. sent[b].at - 1
        <5>1. to.at \in Nat /\ q.fetch \in Int /\ to.fetch \notin 1 .. sent[b].at - 1
          BY <1>1, <4>4, QueryHas DEF noFetch, asked
        <5>2. to.at >= sent[b].at \/ to.fetch # noFetch \/ to.failed
          BY <1>1, <3>1, <4>4, <5>1 DEF asked, noFetch
        <5> QED BY <1>2, <3>2, <5>1, <5>2 DEF lookedUp
      <4> QED BY <4>1, <4>2, <4>3, <4>4
    <3>3. CASE j # k
      BY <1>2, <3>1, <3>3
    <3> QED BY <3>2, <3>3
  <2> QED BY <1>0, <2>1, <2>2 DEF ScreensInv, ListsLookedUp, lookedUp
<1>5. /\ sent' \in [Buttons -> {None} \cup Sent]
      /\ \A b \in Buttons : sent'[b] = sent[b] /\ (sent[b] # None /\ sent[b].settled => sent[b].answer # None)
  BY <1>0 DEF ScreensInv, ScreensTypeOK, OfVersions
<1> QED BY <1>0, <1>2, <1>3, <1>4, <1>5, PageStep

LEMMA AnswerStep ==
    ASSUME ScreensInv, NEW k \in Keys, Answer(k)
    PROVE  ScreensInv'
<1>a. /\ queries \in [Keys -> Query] /\ Len(bank) \in Nat \ {0}
      /\ queries[k].fetch = asked /\ UNCHANGED <<bank, screen, form, ui, sent, stopped>>
  BY BankFacts DEF ScreensInv, ScreensTypeOK, Answer
<1>b. PICK q \in Query : q = queries[k]
  BY <1>a
<1>c. PICK last \in Nat \ {0} : last = Len(bank)
  BY <1>a
<1>d. /\ [q EXCEPT !.fetch = last] \in Query /\ [q EXCEPT !.fetch = last].at = q.at
      /\ [q EXCEPT !.fetch = last].fetch = last
  BY DEF Query
<1>1. PICK to \in Query : to = [q EXCEPT !.fetch = last] /\ to.at = q.at /\ to.fetch = last
  BY <1>d
<1>2. queries' = [queries EXCEPT ![k] = to]
  BY <1>a, <1>b, <1>c, <1>1 DEF Answer
<1>3. queries' \in [Keys -> Query] /\ queries'[k] = to /\ \A j \in Keys \ {k} : queries'[j] = queries[j]
  BY <1>a, <1>2
<1>4. ListsLookedUp'
  <2>1. k \in mounted(screen)
    BY <1>a DEF ScreensInv, ListsLookedUp, asked, noFetch
  <2>2. ASSUME NEW b \in ChangeActs, sent[b] # None, sent[b].settled,
               sent[b].answer # "unanswered", NEW j \in mounted(screen) \ {"one"}
        PROVE  lookedUp(queries'[j], sent[b].at)
    <3>1. lookedUp(queries[j], sent[b].at) /\ sent[b].at \in 0 .. Len(bank) /\ j \in Keys
      BY <2>2, MountedKeys
         DEF ScreensInv, ListsLookedUp, OfVersions, Buttons, ScreensTypeOK
    <3>2. CASE j = k
      <4>1. last \notin 1 .. sent[b].at - 1 /\ last # noFetch
        BY <1>c, <3>1 DEF noFetch
      <4> QED BY <1>1, <1>3, <3>2, <4>1 DEF lookedUp
    <3>3. CASE j # k
      BY <1>3, <3>1, <3>3
    <3> QED BY <3>2, <3>3
  <2> QED BY <1>a, <1>3, <2>1, <2>2 DEF ScreensInv, ListsLookedUp, lookedUp
<1>5. OfVersions'
  <2>1. \A j \in Keys : queries'[j].at \in 0 .. Len(bank) /\ queries'[j].fetch \in -1 .. Len(bank)
    <3>1. to.at \in 0 .. Len(bank)
      BY <1>b, <1>1 DEF ScreensInv, OfVersions
    <3>2. last \in -1 .. last
      BY <1>c
    <3> QED BY <1>c, <1>1, <1>3, <3>1, <3>2 DEF ScreensInv, OfVersions
  <2> QED BY <1>a, <2>1 DEF ScreensInv, OfVersions
<1>6. ScreensTypeOK'
  BY <1>a, <1>3 DEF ScreensInv, ScreensTypeOK
<1>7. SavesHold' /\ TouchedSince'
  BY <1>a, SavesGoOn DEF goesOn
<1>8. FormHolds'
  BY <1>a DEF ScreensInv, FormHolds, formHolds
<1> QED BY <1>4, <1>5, <1>6, <1>7, <1>8 DEF ScreensInv

(* The queries as they are satisfy what StillLookedUp asks of them. *)
LEMMA QueriesAsTheyAre ==
    ASSUME ScreensInv, UNCHANGED queries
    PROVE  /\ queries' \in [Keys -> Query]
           /\ \A k \in Keys \ {"one"} : same(queries[k], queries'[k])
           /\ \A k \in Keys \ mounted(screen) : queries'[k].fetch = queries[k].fetch
BY DEF ScreensInv, ScreensTypeOK, same

(* What a button other than a form's sends, or has heard, or does not send. *)
LEMMA ButtonStep ==
    ASSUME ScreensInv, ui' \in UI, UNCHANGED <<bank, queries, screen, form, stopped>>,
           NEW button \in Buttons \ {"add", "edit"}, sent' \in [Buttons -> {None} \cup Sent],
           \A b \in Buttons \ {button} : sent'[b] = sent[b],
           sent'[button] \in {None, sent[button]}
           \/ /\ sent'[button].at = 0 /\ sent'[button].answer = None
              /\ ~sent'[button].settled
              /\ button \in ChangeActs => sent'[button].ask.act = button
    PROVE  ScreensInv'
<1>1. ScreensTypeOK'
  BY DEF ScreensInv, ScreensTypeOK
<1>2. OfVersions'
  BY BankFacts, ScreensAssumption DEF ScreensInv, OfVersions
<1>3. FormHolds'
  BY DEF ScreensInv, FormHolds, formHolds
<1>4. SavesHold' /\ TouchedSince'
  <2>1. sent'["add"] = sent["add"] /\ sent'["edit"] = sent["edit"]
    BY DEF Buttons
  <2> QED BY <2>1, SavesGoOn DEF goesOn
<1>5. ListsLookedUp'
  <2>1. ASSUME NEW b \in ChangeActs, sent'[b] # None
        PROVE  /\ sent'[b].ask.act = b
               /\ sent'[b].settled /\ sent'[b].answer # "unanswered" =>
                    /\ sent[b] # None /\ sent[b].settled /\ sent[b].answer # "unanswered"
                    /\ sent'[b].at = sent[b].at
    <3>1. b \in Buttons
      BY DEF Buttons
    <3>2. CASE sent'[b] = sent[b]
      BY <2>1, <3>2 DEF ScreensInv, ListsLookedUp
    <3>3. CASE sent'[b] # sent[b]
      BY <2>1, <3>1, <3>3
    <3> QED BY <3>2, <3>3
  <2> QED BY <2>1, QueriesAsTheyAre, StillLookedUp
<1> QED BY <1>1, <1>2, <1>3, <1>4, <1>5 DEF ScreensInv

LEMMA UIHas ==
    \A u \in UI : /\ u.pressed \in SUBSET Buttons /\ u.confirming \in BOOLEAN
                  /\ u.writing \in {None, "reject", "return"} /\ u.refusal \in BOOLEAN
BY DEF UI

LEMMA UIBuilt ==
    ASSUME NEW u \in UI, NEW p \in SUBSET Buttons, NEW c \in BOOLEAN,
           NEW w \in {None, "reject", "return"}, NEW r \in BOOLEAN
    PROVE  /\ [u EXCEPT !.pressed = p] \in UI
           /\ [u EXCEPT !.confirming = c] \in UI
           /\ [u EXCEPT !.writing = w] \in UI
           /\ [u EXCEPT !.pressed = p, !.refusal = r] \in UI
           /\ [u EXCEPT !.pressed = p, !.confirming = c, !.refusal = r] \in UI
           /\ [u EXCEPT !.pressed = p, !.confirming = c, !.writing = w, !.refusal = r] \in UI
BY DEF UI

(* The buttons of the page and of the lists, and their dialogs. *)
LEMMA ActSentStep ==
    ASSUME ScreensInv,
           \/ \E b \in Buttons : Press(b)
           \/ ToggleUpvote \/ PublishAnyway \/ \E reason \in Reasons : SendReason(reason)
    PROVE  ScreensInv'
<1>0. ui \in UI /\ ScreensTypeOK
  BY DEF ScreensInv, ScreensTypeOK
<1>1. PICK button \in Buttons \ {"add", "edit"}, a \in Ask :
         /\ sends(button, a, {}) /\ (button \in ChangeActs => a.act = button)
         /\ UNCHANGED <<bank, queries, screen, form, stopped>>
         /\ \/ ui' = [ui EXCEPT !.pressed = @ \cup {button}, !.refusal = FALSE]
            \/ ui' = [ui EXCEPT !.pressed = @ \cup {button}]
            \/ ui' = [ui EXCEPT !.pressed = @ \cup {button}, !.confirming = FALSE, !.refusal = FALSE]
  <2>1. ASSUME NEW b \in Buttons, Press(b)
        PROVE  \E button \in Buttons \ {"add", "edit"}, a \in Ask :
                  /\ sends(button, a, {}) /\ (button \in ChangeActs => a.act = button)
                  /\ UNCHANGED <<bank, queries, screen, form, stopped>>
                  /\ ui' = [ui EXCEPT !.pressed = @ \cup {button}, !.refusal = FALSE]
    <3>1. b \in {"publish", "resubmit"}
      BY <2>1 DEF Press
    <3>2. asks(b) \in Ask /\ asks(b).act = b
      BY <3>1, AskedActs, ActOfAsks
    <3> QED BY <2>1, <3>1, <3>2 DEF Press
  <2>2. ASSUME ToggleUpvote
        PROVE  \E button \in Buttons \ {"add", "edit"}, a \in Ask :
                  /\ sends(button, a, {}) /\ (button \in ChangeActs => a.act = button)
                  /\ UNCHANGED <<bank, queries, screen, form, stopped>>
                  /\ ui' = [ui EXCEPT !.pressed = @ \cup {button}]
    <3>1. PICK a \in Ask : a = asks(IF queries["one"].mine THEN "takeBack" ELSE "upvote")
      BY AskedActs
    <3>2. "upvote" \in Buttons \ {"add", "edit"} /\ "upvote" \notin ChangeActs
      BY DEF Buttons, ChangeActs
    <3> QED BY <2>2, <3>1, <3>2 DEF ToggleUpvote
  <2>3. ASSUME PublishAnyway
        PROVE  \E button \in Buttons \ {"add", "edit"}, a \in Ask :
                  /\ sends(button, a, {}) /\ (button \in ChangeActs => a.act = button)
                  /\ UNCHANGED <<bank, queries, screen, form, stopped>>
                  /\ ui' = [ui EXCEPT !.pressed = @ \cup {button}, !.confirming = FALSE,
                                      !.refusal = FALSE]
    <3>1. PICK a \in Ask : a = [asks("publish") EXCEPT !.confirmed = TRUE] /\ a.act = "publish"
      BY AskedActs, ActOfAsks
    <3>2. "publish" \in Buttons \ {"add", "edit"}
      BY DEF Buttons, ChangeActs
    <3> QED BY <2>3, <3>1, <3>2 DEF PublishAnyway
  <2>4. ASSUME NEW reason \in Reasons, SendReason(reason)
        PROVE  \E button \in Buttons \ {"add", "edit"}, a \in Ask :
                  /\ sends(button, a, {}) /\ (button \in ChangeActs => a.act = button)
                  /\ UNCHANGED <<bank, queries, screen, form, stopped>>
                  /\ ui' = [ui EXCEPT !.pressed = @ \cup {button}, !.refusal = FALSE]
    <3>1. PICK act \in ChangeActs : act = ui.writing
      BY <2>4 DEF SendReason
    <3>2. act \in {"reject", "return"}
      BY <1>0, <2>4, <3>1, UIHas, ScreensAssumption DEF ChangeActs, SendReason
    <3>3. PICK a \in Ask : a = [asks(act) EXCEPT !.reason = reason] /\ a.act = act
      BY <3>2, AskedActs, ActOfAsks
    <3>4. act \in Buttons \ {"add", "edit"}
      BY <3>2 DEF Buttons, ChangeActs
    <3> QED BY <2>4, <3>1, <3>3, <3>4 DEF SendReason
  <2> QED BY <2>1, <2>2, <2>3, <2>4
<1>2. ui' \in UI
  <2>1. PICK p \in SUBSET Buttons : p = ui.pressed \cup {button}
    BY <1>0, UIHas
  <2>2. \/ ui' = [ui EXCEPT !.pressed = p, !.refusal = FALSE]
        \/ ui' = [ui EXCEPT !.pressed = p]
        \/ ui' = [ui EXCEPT !.pressed = p, !.confirming = FALSE, !.refusal = FALSE]
    BY <1>1, <2>1
  <2>3. /\ [ui EXCEPT !.pressed = p, !.refusal = FALSE] \in UI
        /\ [ui EXCEPT !.pressed = p] \in UI
        /\ [ui EXCEPT !.pressed = p, !.confirming = FALSE, !.refusal = FALSE] \in UI
    BY <1>0, UIBuilt
  <2> QED BY <2>2, <2>3
<1>3. /\ sent' \in [Buttons -> {None} \cup Sent]
      /\ sent'[button].ask = a /\ sent'[button].answer = None /\ sent'[button].at = 0
      /\ ~sent'[button].settled
      /\ \A b \in Buttons \ {button} : sent'[b] = sent[b]
  BY <1>0, <1>1, SendsFacts
<1> QED BY <1>1, <1>2, <1>3, ButtonStep

LEMMA DialogStep ==
    ASSUME ScreensInv,
           LeaveItPending \/ (\E act \in ChangeActs : OpenReason(act)) \/ CancelReason
    PROVE  ScreensInv'
<1>0. ui \in UI /\ sent \in [Buttons -> {None} \cup Sent]
  BY DEF ScreensInv, ScreensTypeOK
<1>1. UNCHANGED <<bank, queries, screen, form, sent, stopped>>
  BY DEF LeaveItPending, OpenReason, CancelReason
<1>2. ui' \in UI
  BY <1>0, UIBuilt DEF LeaveItPending, OpenReason, CancelReason
<1>3. "publish" \in Buttons \ {"add", "edit"}
  BY DEF Buttons, ChangeActs
<1> QED BY <1>0, <1>1, <1>2, <1>3, ButtonStep

LEMMA HearMoveStep ==
    ASSUME ScreensInv, NEW button \in Buttons, HearMove(button)
    PROVE  ScreensInv'
<1>0. ui \in UI /\ sent \in [Buttons -> {None} \cup Sent]
  BY DEF ScreensInv, ScreensTypeOK
<1>1. /\ UNCHANGED <<bank, queries, screen, form, stopped>>
      /\ sent' = [sent EXCEPT ![button] = None] /\ button \notin {"add", "edit"}
  BY DEF HearMove
<1>2. ui' \in UI
  <2> DEFINE s == sent[button]
             drawn == button \in ui.pressed
  <2>1. PICK p \in SUBSET Buttons, c \in BOOLEAN, w \in {None, "reject", "return"}, r \in BOOLEAN :
           /\ p = ui.pressed \ {button}
           /\ c = (ui.confirming \/ (drawn /\ s.answer = "nearDuplicates"))
           /\ w = (IF drawn /\ ui.writing = button THEN None ELSE ui.writing)
           /\ r = (ui.refusal \/ (/\ s.here
                                  /\ s.answer \in {"refused", "unanswered"}
                                  /\ kept(screen, queries, [ui EXCEPT !.refusal = TRUE]).refusal))
    BY <1>0, UIHas
  <2>2. ui' = [ui EXCEPT !.pressed = p, !.confirming = c, !.writing = w, !.refusal = r]
    BY <2>1 DEF HearMove
  <2> QED BY <1>0, <2>2, UIBuilt
<1>3. /\ sent' \in [Buttons -> {None} \cup Sent] /\ sent'[button] = None
      /\ \A b \in Buttons \ {button} : sent'[b] = sent[b]
  BY <1>0, <1>1
<1> QED BY <1>1, <1>2, <1>3, ButtonStep

-----------------------------------------------------------------------------
(* The steps of the forms *)

LEMMA FormHas ==
    \A f \in Form :
        /\ f.opened \in {None} \cup Row /\ f.touched \in SUBSET Fields
        /\ f.sending \in BOOLEAN /\ f.dialog \in {None} \cup Ask /\ f.told \in BOOLEAN
        /\ f.draft \in [text: Texts \cup {Blank}, notes: Notes \cup {Blank}, clients: SUBSET Clients]
BY DEF Form

(* The same text, of the same version of the Question. *)
alike(f, g) == /\ g \in Form /\ g.opened = f.opened /\ g.draft = f.draft /\ g.touched = f.touched

LEMMA FormBuilt ==
    \A f \in Form :
        /\ LET g == [f EXCEPT !.sending = TRUE, !.told = FALSE] IN alike(f, g) /\ g.dialog = f.dialog
        /\ LET g == [f EXCEPT !.dialog = None, !.sending = TRUE] IN alike(f, g) /\ g.dialog = None
        /\ LET g == [f EXCEPT !.told = TRUE]
           IN  alike(f, g) /\ g.dialog = f.dialog /\ g.sending = f.sending
        /\ LET g == [f EXCEPT !.dialog = None]
           IN  alike(f, g) /\ g.dialog = None /\ g.sending = f.sending
BY DEF Form, alike

(* Nothing of the page but the form, and of what was sent only its own. *)
LEMMA OnlyTheForm ==
    ASSUME ScreensInv, UNCHANGED <<bank, queries, screen, ui, stopped>>,
           form' \in {None} \cup Form, FormHolds', SavesHold', TouchedSince',
           sent' \in [Buttons -> {None} \cup Sent],
           \A b \in Buttons :
              \/ sent'[b] \in {None, sent[b]}
              \/ /\ b \in {"add", "edit"}
                 /\ sent'[b].at = 0 /\ sent'[b].answer = None /\ ~sent'[b].settled
    PROVE  ScreensInv'
<1>1. ScreensTypeOK'
  BY DEF ScreensInv, ScreensTypeOK
<1>2. OfVersions'
  BY BankFacts, ScreensAssumption DEF ScreensInv, OfVersions
<1>3. ListsLookedUp'
  <2>1. \A b \in ChangeActs : sent'[b] \in {None, sent[b]}
    BY DEF Buttons, ChangeActs
  <2> QED BY <2>1, QueriesAsTheyAre, StillLookedUp DEF ScreensInv, ListsLookedUp
<1> QED BY <1>1, <1>2, <1>3 DEF ScreensInv

LEMMA FormAlone ==
    ASSUME ScreensInv, UNCHANGED <<bank, queries, screen, ui, sent, stopped>>,
           form' \in Form, FormHolds', SavesHold', TouchedSince'
    PROVE  ScreensInv'
<1>1. sent' \in [Buttons -> {None} \cup Sent] /\ \A b \in Buttons : sent'[b] = sent[b]
  BY DEF ScreensInv, ScreensTypeOK
<1> QED BY <1>1, OnlyTheForm

LEMMA TypedFacts ==
    ASSUME NEW f \in Form, NEW typed \in Typed, f.draft[typed[1]] # typed[2]
    PROVE  LET g == [f EXCEPT !.draft[typed[1]] = typed[2], !.touched = @ \cup {typed[1]}]
           IN  /\ g \in Form /\ g.opened = f.opened /\ g.touched = f.touched \cup {typed[1]}
               /\ g.sending = f.sending /\ g.dialog = f.dialog
               /\ \A field \in Fields \ g.touched : g.draft[field] = f.draft[field]
<1> DEFINE field == typed[1]
           d == [f.draft EXCEPT ![field] = typed[2]]
           g == [f EXCEPT !.draft[field] = typed[2], !.touched = @ \cup {field}]
<1>1. field \in Fields /\ d \in [text: Texts \cup {Blank}, notes: Notes \cup {Blank},
                                 clients: SUBSET Clients]
  BY ScreensAssumption, FormHas DEF Fields
<1>2. \A other \in Fields \ {field} : d[other] = f.draft[other]
  BY FormHas DEF Fields
<1>3. PICK t \in SUBSET Fields : t = f.touched \cup {field}
  BY <1>1, FormHas
<1>4. g = [[f EXCEPT !.draft = d] EXCEPT !.touched = t]
  BY <1>3, FormHas DEF Form
<1> HIDE DEF d
<1>5. /\ g \in Form /\ g.opened = f.opened /\ g.touched = t /\ g.draft = d
      /\ g.sending = f.sending /\ g.dialog = f.dialog
  BY <1>1, <1>4 DEF Form
<1> QED BY <1>2, <1>3, <1>5

LEMMA TypeStep ==
    ASSUME ScreensInv, NEW typed \in Typed, Type(typed[1], typed[2])
    PROVE  ScreensInv'
<1>1. /\ UNCHANGED <<bank, queries, screen, ui, sent, stopped>> /\ form \in Form /\ form # None
      /\ form.dialog = None
  BY DEF Type, writable, ScreensInv, ScreensTypeOK
<1>2. PICK g \in Form :
         /\ form' = g /\ g.opened = form.opened /\ g.touched = form.touched \cup {typed[1]}
         /\ g.sending = form.sending /\ g.dialog = form.dialog
         /\ \A field \in Fields \ g.touched : g.draft[field] = form.draft[field]
  BY <1>1, TypedFacts DEF Type
<1>3. FormHolds'
  BY <1>1, <1>2 DEF ScreensInv, FormHolds, formHolds
<1>4. SavesHold' /\ TouchedSince'
  BY <1>1, <1>2, SavesGoOn DEF goesOn
<1> QED BY <1>1, <1>2, <1>3, <1>4, FormAlone

(* A request that a form sends, of which it holds what it asks for. *)
LEMMA FormSends ==
    ASSUME ScreensInv, UNCHANGED <<bank, queries, screen, ui, stopped>>,
           form \in Form, form # None,
           NEW a \in Ask, sends(a.act, a, form.touched), a.act = screen,
           a.confirmed => [a EXCEPT !.confirmed = FALSE] \in stopped,
           a.act = "edit" => narrow(a, form.touched),
           alike(form, form'), form'.dialog = None
    PROVE  ScreensInv'
<1>1. formHolds(form) /\ a.act \in {"add", "edit"}
  BY DEF ScreensInv, FormHolds, formHolds
<1>2. /\ sent' \in [Buttons -> {None} \cup Sent]
      /\ sent'[a.act].ask = a /\ sent'[a.act].touched = form.touched
      /\ sent'[a.act].answer = None /\ sent'[a.act].at = 0
      /\ ~sent'[a.act].settled /\ sent'[a.act].here
      /\ \A b \in Buttons \ {a.act} : sent'[b] = sent[b]
  <2>1. a.act \in Buttons /\ form.touched \in SUBSET Fields
    BY <1>1, FormHas DEF Buttons
  <2> QED BY <2>1, SendsFacts DEF ScreensInv
<1>3. FormHolds'
  BY <1>1 DEF FormHolds, formHolds, alike
<1>4. SavesHold' /\ TouchedSince'
  <2>1. ASSUME NEW b \in {"add", "edit"}, sent'[b] # None
        PROVE  saveHolds(b, sent[b])' /\ (sent'[b].here => sent'[b].touched \subseteq form'.touched)
    <3>1. CASE b = a.act
      BY <1>2, <3>1, ScreensAssumption DEF saveHolds, alike
    <3>2. CASE b # a.act
      <4>1. sent'[b] = sent[b]
        BY <1>2, <3>2 DEF Buttons
      <4>2. saveHolds(b, sent[b])
        BY <2>1, <4>1 DEF ScreensInv, SavesHold
      <4> QED BY <3>2, <4>1, <4>2 DEF saveHolds
    <3> QED BY <3>1, <3>2
  <2> QED BY <2>1 DEF SavesHold, TouchedSince
<1>5. \A b \in Buttons : b # a.act => sent'[b] \in {None, sent[b]}
  BY <1>2
<1> QED BY <1>1, <1>2, <1>3, <1>4, <1>5, OnlyTheForm DEF alike

LEMMA SubmitStep ==
    ASSUME ScreensInv, Submit
    PROVE  ScreensInv'
<1>1. /\ UNCHANGED <<bank, queries, screen, ui, stopped>> /\ form \in Form /\ form # None
      /\ form.dialog = None /\ ~form.sending /\ formHolds(form)
  BY DEF Submit, writable, ScreensInv, ScreensTypeOK, FormHolds
<1>2. CASE passesCheck(requested(form))
  <2>1. PICK a \in Ask : a = requested(form)
    BY <1>1, <1>2, Requested
  <2>2. /\ ~a.confirmed /\ a.act = screen
        /\ a.act = "edit" => narrow(a, form.touched)
    BY <1>1, <1>2, <2>1, Requested DEF formHolds, narrow
  <2>3. sends(a.act, a, form.touched) /\ form' = [form EXCEPT !.sending = TRUE, !.told = FALSE]
    BY <1>2, <2>1 DEF Submit
  <2>4. alike(form, form') /\ form'.dialog = None
    BY <1>1, <2>3, FormBuilt
  <2> QED BY <1>1, <2>2, <2>3, <2>4, FormSends
<1>3. CASE ~ passesCheck(requested(form))
  <2>1. UNCHANGED sent /\ form' = [form EXCEPT !.told = TRUE]
    BY <1>3 DEF Submit
  <2>2. alike(form, form') /\ form'.dialog = None /\ form'.sending = form.sending
    BY <1>1, <2>1, FormBuilt
  <2>3. FormHolds'
    BY <1>1, <2>1, <2>2 DEF FormHolds, formHolds, alike
  <2>4. SavesHold' /\ TouchedSince'
    BY <1>1, <2>1, <2>2, SavesGoOn DEF goesOn, alike
  <2> QED BY <1>1, <2>1, <2>2, <2>3, <2>4, FormAlone DEF alike
<1> QED BY <1>2, <1>3

LEMMA SendAnywayStep ==
    ASSUME ScreensInv, SendAnyway
    PROVE  ScreensInv'
<1>1. /\ UNCHANGED <<bank, queries, screen, ui, stopped>> /\ form \in Form /\ form # None
      /\ form.dialog # None /\ formHolds(form)
  BY DEF SendAnyway, ScreensInv, ScreensTypeOK, FormHolds
<1>2. PICK d \in Ask : d = form.dialog /\ ~d.confirmed /\ d \in stopped /\ d.act = screen
                       /\ (screen = "edit" => narrow(d, form.touched))
  BY <1>1, FormHas DEF formHolds
<1>3. PICK a \in Ask : a = [d EXCEPT !.confirmed = TRUE]
  BY <1>2, Confirmed
<1>4. /\ a.act = d.act /\ [a EXCEPT !.confirmed = FALSE] = d
      /\ \A fields : narrow(d, fields) => narrow(a, fields)
  BY <1>2, <1>3, Confirmed
<1>5. sends(a.act, a, form.touched) /\ form' = [form EXCEPT !.dialog = None, !.sending = TRUE]
  BY <1>2, <1>3, <1>4 DEF SendAnyway, confirmation
<1>6. alike(form, form') /\ form'.dialog = None
  BY <1>1, <1>5, FormBuilt
<1>7. a.act = screen /\ [a EXCEPT !.confirmed = FALSE] \in stopped
      /\ (a.act = "edit" => narrow(a, form.touched))
  BY <1>2, <1>4
<1> QED BY <1>1, <1>5, <1>6, <1>7, FormSends

LEMMA ChangeMyQuestionStep ==
    ASSUME ScreensInv, ChangeMyQuestion
    PROVE  ScreensInv'
<1>1. /\ UNCHANGED <<bank, queries, screen, ui, sent, stopped>> /\ form \in Form /\ form # None
      /\ formHolds(form)
  BY DEF ChangeMyQuestion, ScreensInv, ScreensTypeOK, FormHolds
<1>2. alike(form, form') /\ form'.dialog = None /\ form'.sending = form.sending
  BY <1>1, FormBuilt DEF ChangeMyQuestion
<1>3. FormHolds'
  BY <1>1, <1>2 DEF FormHolds, formHolds, alike
<1>4. SavesHold' /\ TouchedSince'
  BY <1>1, <1>2, SavesGoOn DEF goesOn, alike
<1> QED BY <1>1, <1>2, <1>3, <1>4, FormAlone DEF alike

-----------------------------------------------------------------------------
(* The steps of the API, and its answers *)

LEMMA SentHas ==
    \A s \in Sent : /\ s.ask \in Ask /\ s.touched \in SUBSET Fields /\ s.here \in BOOLEAN
                    /\ s.answer \in {None, "done", "nearDuplicates", "refused", "unanswered"}
                    /\ s.at \in Nat /\ s.settled \in BOOLEAN
BY DEF Sent

(* A write adds to the versions what others hold, and what they hold stays. *)
LEMMA BankGrows ==
    ASSUME ScreensInv, bank' \in Seq(Version), bank' # <<>>, Len(bank') \in Nat,
           Len(bank) =< Len(bank'), UNCHANGED <<queries, screen, form, ui>>,
           stopped \subseteq stopped', stopped' \subseteq Ask,
           NEW button \in Buttons, sent' \in [Buttons -> {None} \cup Sent],
           \A b \in Buttons \ {button} : sent'[b] = sent[b],
           \/ sent'[button] = sent[button]
           \/ /\ sent[button] # None
              /\ sent'[button].ask = sent[button].ask
              /\ sent'[button].touched = sent[button].touched
              /\ sent'[button].here = sent[button].here
              /\ sent'[button].at \in 0 .. Len(bank')
              /\ sent'[button].answer = "done" => sent'[button].at # 0
              /\ ~sent'[button].settled
              /\ sent'[button].answer = "nearDuplicates" =>
                    sent'[button].ask \in stopped' /\ ~sent'[button].ask.confirmed
    PROVE  ScreensInv'
<1>1. ScreensTypeOK'
  BY DEF ScreensInv, ScreensTypeOK
<1>2. OfVersions'
  <2>1. \A k \in Keys : queries'[k].at \in 0 .. Len(bank') /\ queries'[k].fetch \in -1 .. Len(bank')
    BY BankFacts DEF ScreensInv, OfVersions
  <2>2. ASSUME NEW b \in Buttons, sent'[b] # None
        PROVE  /\ sent'[b].at \in 0 .. Len(bank')
               /\ sent'[b].answer = "done" => sent'[b].at # 0
               /\ sent'[b].settled => sent'[b].answer # None
    <3>1. CASE sent'[b] = sent[b]
      BY <2>2, <3>1, BankFacts DEF ScreensInv, OfVersions
    <3>2. CASE sent'[b] # sent[b]
      BY <2>2, <3>2
    <3> QED BY <3>1, <3>2
  <2> QED BY <2>1, <2>2 DEF OfVersions
<1>3. FormHolds'
  BY DEF ScreensInv, FormHolds, formHolds
<1>4. SavesHold'
  <2>1. ASSUME NEW b \in {"add", "edit"}, sent'[b] # None
        PROVE  saveHolds(b, sent[b])'
    <3>1. b \in Buttons
      BY DEF Buttons
    <3>2. CASE sent'[b] = sent[b]
      BY <2>1, <3>2 DEF ScreensInv, SavesHold, saveHolds
    <3>3. CASE sent'[b] # sent[b]
      <4>1. b = button /\ saveHolds(b, sent[b])
        BY <2>1, <3>1, <3>3 DEF ScreensInv, SavesHold
      <4> QED BY <3>3, <4>1 DEF saveHolds
    <3> QED BY <3>2, <3>3
  <2> QED BY <2>1 DEF SavesHold
<1>5. TouchedSince'
  <2>1. \A b \in {"add", "edit"} : sent'[b] # None =>
           /\ sent[b] # None /\ sent'[b].here = sent[b].here /\ sent'[b].touched = sent[b].touched
    BY DEF Buttons
  <2> QED BY <2>1 DEF ScreensInv, TouchedSince
<1>6. ListsLookedUp'
  <2>1. ASSUME NEW b \in ChangeActs, sent'[b] # None
        PROVE  /\ sent'[b].ask.act = b
               /\ sent'[b].settled /\ sent'[b].answer # "unanswered" =>
                    /\ sent[b] # None /\ sent[b].settled /\ sent[b].answer # "unanswered"
                    /\ sent'[b].at = sent[b].at
    <3>1. b \in Buttons
      BY DEF Buttons
    <3>2. CASE sent'[b] = sent[b]
      BY <2>1, <3>2 DEF ScreensInv, ListsLookedUp
    <3>3. CASE sent'[b] # sent[b]
      BY <2>1, <3>1, <3>3 DEF ScreensInv, ListsLookedUp
    <3> QED BY <3>2, <3>3
  <2> QED BY <2>1, QueriesAsTheyAre, StillLookedUp
<1> QED BY <1>1, <1>2, <1>3, <1>4, <1>5, <1>6 DEF ScreensInv

LEMMA ServeStep ==
    ASSUME ScreensInv, NEW button \in Buttons, Serve(button)
    PROVE  ScreensInv'
<1>1. PICK s \in Sent : /\ s = sent[button] /\ s # None /\ s.answer = None /\ ~s.settled
                        /\ s.at \in 0 .. Len(bank)
  BY SentHas DEF Serve, ScreensInv, ScreensTypeOK, OfVersions
<1>2. PICK version \in Version : version = after(s.ask, now)
  BY AfterTyped, BankFacts, SentHas DEF ScreensInv
<1>3. UNCHANGED bank \/ bank' = Append(bank, version)
  BY <1>1, <1>2 DEF Serve, Done, NearDuplicatesFound, Refused, Lost, writes
<1>4. /\ bank' \in Seq(Version) /\ bank' # <<>> /\ Len(bank') \in Nat /\ Len(bank) =< Len(bank')
      /\ Len(bank) \in Nat \ {0}
  BY <1>2, <1>3, Written, BankFacts DEF ScreensInv
<1>5. stopped \subseteq stopped' /\ stopped' \subseteq Ask /\ UNCHANGED <<queries, screen, form, ui>>
  <2>1. UNCHANGED stopped \/ stopped' = stopped \cup {s.ask}
    BY <1>1 DEF Serve, Done, NearDuplicatesFound, Refused, Lost
  <2> QED BY <2>1, SentHas DEF Serve, ScreensInv, ScreensTypeOK
<1>6. PICK answer \in {"done", "nearDuplicates", "refused", "unanswered"}, at \in 0 .. Len(bank') :
         /\ sent' = [sent EXCEPT ![button] = [[s EXCEPT !.answer = answer] EXCEPT !.at = at]]
         /\ answer = "done" => at # 0
         /\ answer = "nearDuplicates" => s.ask \in stopped' /\ ~s.ask.confirmed
  <2>a. sent \in [Buttons -> {None} \cup Sent] /\ s.at \in 0 .. Len(bank') /\ Len(bank') \in 0 .. Len(bank')
    BY <1>1, <1>4 DEF ScreensInv, ScreensTypeOK
  <2>1. CASE Lost(button)
    <3>1. sent' = [sent EXCEPT ![button] = [s EXCEPT !.answer = "unanswered"]]
      BY <1>1, <2>1, <2>a DEF Lost
    <3>2. [s EXCEPT !.answer = "unanswered"] = [[s EXCEPT !.answer = "unanswered"] EXCEPT !.at = s.at]
      BY DEF Sent
    <3> QED BY <2>a, <3>1, <3>2
  <2>2. CASE ~Lost(button)
    <3>1. PICK answer \in {"done", "nearDuplicates", "refused"} :
             /\ answers(button, answer)
             /\ answer = "nearDuplicates" => s.ask \in stopped' /\ ~s.ask.confirmed
      BY <1>1, <2>2 DEF Serve, Done, NearDuplicatesFound, Refused
    <3>2. sent' = [sent EXCEPT ![button] = [[s EXCEPT !.answer = answer] EXCEPT !.at = Len(bank')]]
      BY <1>1, <2>a, <3>1 DEF answers
    <3>3. PICK last \in 0 .. Len(bank') : last = Len(bank') /\ last # 0
      BY <1>4, <2>a
    <3> QED BY <3>1, <3>2, <3>3
  <2> QED BY <2>1, <2>2
<1>7. PICK S \in Sent : /\ S = [[s EXCEPT !.answer = answer] EXCEPT !.at = at]
                        /\ S.ask = s.ask /\ S.touched = s.touched /\ S.here = s.here
                        /\ S.at = at /\ S.answer = answer /\ ~S.settled
  <2>1. at \in Nat
    BY <1>4
  <2>2. LET S == [[s EXCEPT !.answer = answer] EXCEPT !.at = at]
        IN  /\ S \in Sent /\ S.ask = s.ask /\ S.touched = s.touched /\ S.here = s.here
            /\ S.at = at /\ S.answer = answer /\ ~S.settled
    BY <1>1, <2>1 DEF Sent
  <2> QED BY <2>2
<1>8. /\ sent' \in [Buttons -> {None} \cup Sent] /\ sent'[button] = S
      /\ \A b \in Buttons \ {button} : sent'[b] = sent[b]
  BY <1>6, <1>7 DEF ScreensInv, ScreensTypeOK
<1>9. S.answer = "nearDuplicates" => S.ask \in stopped' /\ ~S.ask.confirmed
  BY <1>6, <1>7
<1> QED BY <1>1, <1>4, <1>5, <1>6, <1>7, <1>8, <1>9, BankGrows

LEMMA OthersStep ==
    ASSUME ScreensInv, OthersWrite
    PROVE  ScreensInv'
<1>1. now \in Version /\ now.row \in Row /\ Len(bank) \in Nat
  BY BankFacts, VersionHas DEF ScreensInv
<1>2. PICK row : /\ bank' = Append(bank, [now EXCEPT !.row = row])
                 /\ row \in {[now.row EXCEPT !.text = t] : t \in Texts}
                           \cup {[now.row EXCEPT !.notes = n] : n \in Notes}
                           \cup {changed(now.row, [asks(act) EXCEPT !.reason =
                                   IF act \in {"reject", "return"} THEN CHOOSE r \in Reasons : TRUE
                                   ELSE None])
                                 : act \in {b \in ChangeActs : startsFrom(b) = now.row.state}}
  BY DEF OthersWrite
<1>3. row \in Row
  <2>1. ASSUME NEW t \in Texts PROVE [now.row EXCEPT !.text = t] \in Row
    BY <1>1 DEF Row
  <2>2. ASSUME NEW n \in Notes PROVE [now.row EXCEPT !.notes = n] \in Row
    BY <1>1 DEF Row
  <2>3. ASSUME NEW act \in ChangeActs
        PROVE  changed(now.row, [asks(act) EXCEPT !.reason =
                 IF act \in {"reject", "return"} THEN CHOOSE r \in Reasons : TRUE ELSE None]) \in Row
    <3>1. PICK reason \in {None} \cup Reasons :
             reason = IF act \in {"reject", "return"} THEN CHOOSE r \in Reasons : TRUE ELSE None
      BY ScreensAssumption
    <3>2. /\ [asks(act) EXCEPT !.reason = reason].act = act
          /\ [asks(act) EXCEPT !.reason = reason].reason = reason
      BY DEF asks
    <3>3. leaves(act) \in PublicationStates
      BY DEF ChangeActs, leaves, PublicationStates
    <3>4. changed(now.row, [asks(act) EXCEPT !.reason = reason]) \in Row
      BY <1>1, <3>2, <3>3 DEF changed, Row
    <3> QED BY <3>1, <3>4
  <2>4. ASSUME NEW act \in {b \in ChangeActs : startsFrom(b) = now.row.state},
               row = changed(now.row, [asks(act) EXCEPT !.reason =
                       IF act \in {"reject", "return"} THEN CHOOSE r \in Reasons : TRUE ELSE None])
        PROVE  row \in Row
    BY <2>3, <2>4
  <2> QED BY <1>2, <2>1, <2>2, <2>4
<1>4. PICK version \in Version : version = [now EXCEPT !.row = row]
  BY <1>1, <1>3 DEF Version
<1>5. bank' \in Seq(Version) /\ bank' # <<>> /\ Len(bank') \in Nat /\ Len(bank) =< Len(bank')
  BY <1>2, <1>4, Written DEF ScreensInv
<1>6. /\ sent' \in [Buttons -> {None} \cup Sent] /\ sent' = sent /\ stopped' = stopped
      /\ stopped' \subseteq Ask /\ UNCHANGED <<queries, screen, form, ui>> /\ "add" \in Buttons
  BY DEF OthersWrite, ScreensInv, ScreensTypeOK, Buttons
<1> QED BY <1>5, <1>6, BankGrows

LEMMA SettleStep ==
    ASSUME ScreensInv, NEW button \in Buttons, Settle(button)
    PROVE  ScreensInv'
<1>1. PICK s \in Sent : /\ s = sent[button] /\ s # None /\ s.answer # None
                        /\ s.at \in 0 .. Len(bank) /\ (s.answer = "done" => s.at # 0)
  BY DEF Settle, ScreensInv, ScreensTypeOK, OfVersions
<1>2. /\ queries' = afterAct(s) /\ shows(form, ui) /\ UNCHANGED <<screen, bank, stopped>>
      /\ sent' = [sent EXCEPT ![button] = [s EXCEPT !.settled = TRUE]]
  BY <1>1 DEF Settle, ScreensInv, ScreensTypeOK
<1>3. PICK S \in Sent : /\ S = [s EXCEPT !.settled = TRUE]
                        /\ S.ask = s.ask /\ S.touched = s.touched /\ S.here = s.here
                        /\ S.answer = s.answer /\ S.at = s.at
  <2>1. LET S == [s EXCEPT !.settled = TRUE]
        IN  /\ S \in Sent /\ S.ask = s.ask /\ S.touched = s.touched /\ S.here = s.here
            /\ S.answer = s.answer /\ S.at = s.at
    BY DEF Sent
  <2> QED BY <2>1
<1>4. /\ sent' \in [Buttons -> {None} \cup Sent] /\ sent'[button] = S
      /\ \A b \in Buttons \ {button} : sent'[b] = sent[b]
  BY <1>2, <1>3 DEF ScreensInv, ScreensTypeOK
<1>5. /\ queries' \in [Keys -> Query]
      /\ \A k \in Keys \ {"one"} : same(queries[k], queries'[k])
      /\ queries'["one"].at \in {queries["one"].at, s.at}
      /\ queries'["one"].fetch \in {queries["one"].fetch, asked}
      /\ \A k \in Keys \ mounted(screen) : queries'[k].fetch = queries[k].fetch
      /\ s.ask.act \in ChangeActs =>
            \A k \in (mounted(screen) \cap Keys) \ {"one"} : afresh(queries'[k])
  BY <1>1, <1>2, AfterActFacts DEF ScreensInv
<1>6. \A k \in Keys : queries'[k].at \in 0 .. Len(bank) /\ queries'[k].fetch \in -1 .. Len(bank)
  <2>1. /\ Len(bank) \in Nat \ {0}
        /\ \A k \in Keys : queries[k].at \in 0 .. Len(bank) /\ queries[k].fetch \in -1 .. Len(bank)
    BY BankFacts DEF ScreensInv, OfVersions
  <2>2. asked \in -1 .. Len(bank)
    BY <2>1 DEF asked
  <2>3. ASSUME NEW k \in Keys \ {"one"}
        PROVE  queries'[k].at = queries[k].at /\ queries'[k].fetch \in {queries[k].fetch, asked}
    BY <1>5, <2>3 DEF same
  <2>4. "one" \in Keys
    BY DEF Keys
  <2> QED BY <1>1, <1>5, <2>1, <2>2, <2>3, <2>4
<1>7. ASSUME NEW b \in Buttons, sent'[b] # None
      PROVE  /\ sent[b] # None /\ sent'[b].ask = sent[b].ask /\ sent'[b].touched = sent[b].touched
             /\ sent'[b].here = sent[b].here /\ sent'[b].answer = sent[b].answer
             /\ sent'[b].at = sent[b].at /\ (sent'[b].settled => sent[b].answer # None)
  <2>1. CASE b = button
    BY <1>1, <1>3, <1>4, <2>1
  <2>2. CASE b # button
    BY <1>4, <1>7, <2>2 DEF ScreensInv, OfVersions
  <2> QED BY <2>1, <2>2
<1>8. ListsLookedUp'
  <2>1. \A k \in Keys \ mounted(screen) : queries'[k].fetch = noFetch
    BY <1>5 DEF ScreensInv, ListsLookedUp
  <2>2. ASSUME NEW b \in ChangeActs, sent'[b] # None
        PROVE  /\ sent'[b].ask.act = b
               /\ sent'[b].settled /\ sent'[b].answer # "unanswered" =>
                    \A k \in mounted(screen) \ {"one"} : lookedUp(queries'[k], sent'[b].at)
    <3>1. b \in Buttons /\ sent[b] # None /\ sent'[b].ask.act = b
      BY <1>7, <2>2 DEF ScreensInv, ListsLookedUp, Buttons
    <3>2. ASSUME sent'[b].settled, sent'[b].answer # "unanswered", NEW k \in mounted(screen) \ {"one"}
          PROVE  lookedUp(queries'[k], sent'[b].at)
      <4>1. k \in Keys /\ sent'[b].at \in Nat
        BY <1>4, <2>2, <3>1, MountedKeys, SentHas DEF ScreensInv, ScreensTypeOK
      <4>2. CASE afresh(queries'[k])
        BY <4>1, <4>2 DEF afresh, lookedUp, asked, noFetch
      <4>3. CASE ~afresh(queries'[k])
        <5>1. queries'[k] = queries[k]
          BY <1>5, <3>2, <4>1, <4>3 DEF same, afresh
        <5>2. k \in (mounted(screen) \cap Keys) \ {"one"}
          BY <3>2, <4>1
        <5>3. s.ask.act \notin ChangeActs
          BY <1>5, <4>3, <5>2
        <5>4. sent'[button].ask.act \notin ChangeActs
          BY <1>3, <1>4, <5>3
        <5>5. b # button
          BY <3>1, <5>4
        <5> QED BY <1>4, <3>1, <3>2, <5>1, <5>5 DEF ScreensInv, ListsLookedUp
      <4> QED BY <4>2, <4>3
    <3> QED BY <3>1, <3>2
  <2> QED BY <1>2, <2>1, <2>2 DEF ListsLookedUp, lookedUp
<1> QED BY <1>2, <1>4, <1>5, <1>6, <1>7, <1>8, PageStep

LEMMA HearFormStep ==
    ASSUME ScreensInv, NEW button \in Buttons, HearForm(button)
    PROVE  ScreensInv'
<1>1. PICK s \in Sent : /\ s = sent[button] /\ s # None /\ saveHolds(button, s)
  BY DEF HearForm, heard, ScreensInv, ScreensTypeOK, SavesHold
<1>2. /\ button \in {"add", "edit"} /\ UNCHANGED <<bank, stopped>>
      /\ sent' = [sent EXCEPT ![button] = None]
  BY DEF HearForm
<1>3. /\ sent' \in [Buttons -> {None} \cup Sent] /\ sent'[button] = None
      /\ \A b \in Buttons \ {button} : sent'[b] = sent[b]
  BY <1>2 DEF ScreensInv, ScreensTypeOK
<1> DEFINE listens == s.here /\ form # None /\ form.sending
<1>4. CASE listens /\ s.answer = "done"
  <2>1. /\ screen' = "question" /\ queries' = visited("question", queries)
        /\ form' = formShown(screen', queries', None) /\ ui' = kept(screen', queries', untouched)
    BY <1>1, <1>4 DEF HearForm, shows
  <2>2. /\ queries' \in [Keys -> Query]
        /\ \A k \in Keys : /\ queries'[k].at \in 0 .. Len(bank)
                           /\ queries'[k].fetch \in -1 .. Len(bank)
    <3>1. queries \in [Keys -> Query] /\ Len(bank) \in Nat /\ "question" \in Screens
      BY BankFacts DEF ScreensInv, ScreensTypeOK, Screens
    <3> QED BY <2>1, <3>1, VisitedFacts DEF ScreensInv, OfVersions, asked, noFetch
  <2>3. form' \in {None} \cup Form /\ FormHolds' /\ ~(form' # None /\ form'.sending)
    <3>1. queries'["one"].at \in 0 .. Len(bank)
      BY <2>2 DEF Keys
    <3> QED BY <1>2, <2>1, <3>1, NewForm
  <2>4. ui' \in UI
    BY <2>1, KeptTyped, UntouchedTyped
  <2>5. SavesHold' /\ TouchedSince'
    <3>1. ASSUME NEW b \in {"add", "edit"}, sent'[b] # None
          PROVE  sent'[b] = sent[b] /\ ~sent[b].here
      <4>1. b \in Buttons /\ b # button
        BY <1>3, <3>1 DEF Buttons
      <4>2. saveHolds(b, sent[b]) /\ sent'[b] = sent[b]
        BY <1>3, <3>1, <4>1 DEF ScreensInv, SavesHold
      <4> QED BY <1>1, <1>4, <4>1, <4>2 DEF saveHolds
    <3>2. goesOn("add") /\ goesOn("edit")
      BY <3>1 DEF goesOn
    <3> QED BY <1>2, <2>3, <3>2, SavesGoOn
  <2>6. ListsLookedUp'
    <3>1. \A b \in ChangeActs : sent'[b] = sent[b]
      BY <1>2, <1>3 DEF Buttons, ChangeActs
    <3>2. "question" \in Screens
      BY DEF Screens
    <3> QED BY <2>1, <3>1, <3>2, VisitLooksUp
  <2>7. OfVersions'
    BY <1>2, <1>3, <2>2 DEF ScreensInv, OfVersions
  <2>8. ScreensTypeOK'
    BY <1>2, <1>3, <2>1, <2>2, <2>3, <2>4 DEF ScreensInv, ScreensTypeOK, Screens
  <2> QED BY <2>3, <2>5, <2>6, <2>7, <2>8 DEF ScreensInv
<1>5. CASE ~(listens /\ s.answer = "done")
  <2>1. UNCHANGED <<bank, queries, screen, ui, stopped>>
    BY <1>1, <1>2, <1>5 DEF HearForm
  <2>2. form' \in {None} \cup Form /\ FormHolds'
        /\ (form' # None /\ form'.sending =>
              form # None /\ form.sending /\ form.touched \subseteq form'.touched)
    <3>1. CASE ~listens
      <4>1. form' = form
        BY <1>1, <1>5, <3>1 DEF HearForm
      <4> QED BY <2>1, <4>1, FormHas DEF ScreensInv, ScreensTypeOK, FormHolds, formHolds
    <3>2. CASE listens
      <4>1. form \in Form /\ formHolds(form) /\ s.touched \subseteq form.touched
        BY <1>1, <1>2, <3>2 DEF ScreensInv, ScreensTypeOK, FormHolds, TouchedSince
      <4>2. PICK d \in {None} \cup Ask, t \in BOOLEAN :
               /\ d = (IF s.answer = "nearDuplicates" THEN s.ask ELSE None)
               /\ t = (s.answer # "nearDuplicates")
        BY SentHas
      <4>3. form' = [form EXCEPT !.sending = FALSE, !.dialog = d, !.told = t]
        BY <1>1, <1>5, <3>2, <4>2 DEF HearForm
      <4>4. alike(form, form') /\ form'.dialog = d /\ ~form'.sending
        BY <4>1, <4>3 DEF Form, alike
      <4>5. d # None => d \in stopped /\ ~d.confirmed /\ d.act = screen
                        /\ (screen = "edit" => narrow(d, form.touched))
        <5>1. s.here /\ screen = button /\ s.ask.act = button
          BY <1>1, <3>2 DEF saveHolds
        <5>2. button = "edit" => narrow(s.ask, form.touched)
          BY <1>1, <4>1 DEF saveHolds, narrow
        <5> QED BY <1>1, <4>2, <5>1, <5>2 DEF saveHolds
      <4>6. FormHolds'
        BY <2>1, <4>1, <4>4, <4>5 DEF FormHolds, formHolds, alike
      <4> QED BY <4>4, <4>6 DEF alike
    <3> QED BY <3>1, <3>2
  <2>3. SavesHold' /\ TouchedSince'
    <3>1. ASSUME NEW b \in {"add", "edit"}, sent'[b] # None
          PROVE  sent'[b] = sent[b]
      BY <1>3, <3>1 DEF Buttons
    <3>2. goesOn("add") /\ goesOn("edit")
      BY <2>1, <3>1 DEF goesOn
    <3> QED BY <2>1, <2>2, <3>2, SavesGoOn
  <2>4. \A b \in Buttons : sent'[b] \in {None, sent[b]}
    BY <1>3
  <2> QED BY <1>3, <2>1, <2>2, <2>3, <2>4, OnlyTheForm
<1> QED BY <1>4, <1>5

-----------------------------------------------------------------------------
(* The invariant, and what it says *)

LEMMA ScreensInvInit == ScreensInit => ScreensInv
<1> SUFFICES ASSUME ScreensInit PROVE ScreensInv
  OBVIOUS
<1>1. PICK first \in Version : bank = <<first>>
  BY ScreensAssumption DEF ScreensInit, Version
<1>2. bank \in Seq(Version) /\ bank # <<>> /\ Len(bank) = 1
  BY <1>1
<1>3. \A k \in Keys : /\ queries[k] \in Query
                      /\ queries[k].at = 0 /\ queries[k].fetch \in {asked, noFetch}
                      /\ k \notin {"one"} => queries[k].fetch = noFetch
  BY DEF ScreensInit, nothing, Query, asked, noFetch
<1>4. queries \in [Keys -> Query]
  BY <1>3 DEF ScreensInit
<1>5. sent = [b \in Buttons |-> None] /\ form = None /\ screen = "question" /\ stopped = {}
      /\ ui \in UI
  BY UntouchedTyped DEF ScreensInit
<1>6. ScreensTypeOK
  BY <1>2, <1>4, <1>5 DEF ScreensTypeOK, Screens
<1>7. OfVersions
  BY <1>2, <1>3, <1>5 DEF OfVersions, asked, noFetch
<1>8. ListsLookedUp
  BY <1>3, <1>5 DEF ListsLookedUp, mounted, Keys, Buttons
<1>9. FormHolds /\ SavesHold /\ TouchedSince
  BY <1>5 DEF FormHolds, SavesHold, TouchedSince, Buttons
<1> QED BY <1>6, <1>7, <1>8, <1>9 DEF ScreensInv

LEMMA ScreensInvStep == ScreensInv /\ [ScreensNext]_screenVars => ScreensInv'
<1> SUFFICES ASSUME ScreensInv, [ScreensNext]_screenVars PROVE ScreensInv'
  OBVIOUS
<1>1. ASSUME NEW scr \in Screens, Visit(scr) PROVE ScreensInv'
  BY <1>1, VisitStep
<1>2. ASSUME NEW k \in Keys, Refetch(k) \/ Answer(k) \/ Arrive(k) \/ Fail(k) PROVE ScreensInv'
  BY <1>2, QueryStep, AnswerStep
<1>3. ASSUME NEW b \in Buttons, Press(b) \/ Serve(b) \/ Settle(b) \/ HearMove(b) \/ HearForm(b)
      PROVE  ScreensInv'
  <2>1. CASE Press(b)
    BY <2>1, ActSentStep
  <2> QED BY <1>3, <2>1, ServeStep, SettleStep, HearMoveStep, HearFormStep
<1>4. CASE ToggleUpvote \/ PublishAnyway \/ \E reason \in Reasons : SendReason(reason)
  BY <1>4, ActSentStep
<1>5. CASE LeaveItPending \/ (\E act \in ChangeActs : OpenReason(act)) \/ CancelReason
  BY <1>5, DialogStep
<1>6. ASSUME NEW typed \in Typed, Type(typed[1], typed[2]) PROVE ScreensInv'
  BY <1>6, TypeStep
<1>7. CASE Submit \/ SendAnyway \/ ChangeMyQuestion
  BY <1>7, SubmitStep, SendAnywayStep, ChangeMyQuestionStep
<1>8. CASE OthersWrite
  BY <1>8, OthersStep
<1>9. CASE UNCHANGED screenVars
  <2>1. UNCHANGED <<bank, queries, screen, form, ui, sent, stopped>>
    BY <1>9 DEF screenVars
  <2>2. ui' \in UI /\ sent' \in [Buttons -> {None} \cup Sent] /\ "upvote" \in Buttons \ {"add", "edit"}
    BY <2>1 DEF ScreensInv, ScreensTypeOK, Buttons, ChangeActs
  <2> QED BY <2>1, <2>2, ButtonStep
<1> QED BY <1>1, <1>2, <1>3, <1>4, <1>5, <1>6, <1>7, <1>8, <1>9 DEF ScreensNext

LEMMA ScreensInvariance == ScreensSpec => []ScreensInv
BY ScreensInvInit, ScreensInvStep, PTL DEF ScreensSpec

(* The screens hold what they are declared to, whatever is answered and in
   whatever order. *)
THEOREM ScreensTypeCorrect == ScreensSpec => []ScreensTypeOK
<1>1. ScreensInv => ScreensTypeOK
  BY DEF ScreensInv
<1> QED BY <1>1, ScreensInvariance, PTL

(* A form confirms no text but one that was refused as a Near-Duplicate: the
   dialog keeps the request as it was sent, and a form that has been closed or
   opened anew since hears nothing of the answer. *)
THEOREM ConfirmedWasRefused == ScreensSpec => []ConfirmationsAreOfWhatWasRefused
<1>1. ScreensInv => ConfirmationsAreOfWhatWasRefused
  BY DEF ScreensInv, SavesHold, saveHolds, ConfirmationsAreOfWhatWasRefused
<1> QED BY <1>1, ScreensInvariance, PTL

(* No list goes on showing the Question as it was before a move that has been
   answered, with any number of moves and fetches under way: what was under
   way when the move was answered is asked for again from the start, unless it
   is a first load, the one exception the property names. *)
THEOREM MovesAreLookedUp == ScreensSpec => []AnsweredMovesAreLookedUp
<1>1. ScreensInv => AnsweredMovesAreLookedUp
  <2> SUFFICES ASSUME ScreensInv, NEW b \in ChangeActs, sent[b] # None, sent[b].settled,
                      sent[b].answer # "unanswered", NEW k \in mounted(screen) \ {"one"}
               PROVE  \/ queries[k].at >= sent[b].at
                      \/ queries[k].fetch = asked \/ queries[k].fetch \in sent[b].at .. Len(bank)
                      \/ queries[k].failed \/ queries[k].joined
    BY DEF AnsweredMovesAreLookedUp
  <2>1. lookedUp(queries[k], sent[b].at)
    BY DEF ScreensInv, ListsLookedUp
  <2>2. /\ k \in Keys /\ queries[k].fetch \in -1 .. Len(bank) /\ sent[b].at \in 0 .. Len(bank)
        /\ Len(bank) \in Nat
    BY MountedKeys, BankFacts DEF ScreensInv, ScreensTypeOK, OfVersions, Buttons
  <2> QED BY <2>1, <2>2 DEF lookedUp, asked, noFetch
<1> QED BY <1>1, ScreensInvariance, PTL

LEMMA SaveWrites ==
    ScreensInv /\ [ScreensNext]_screenVars =>
        \A f \in Fields :
           /\ sent["edit"] # None /\ sent["edit"].answer = None /\ sent'["edit"].answer = "done"
           /\ f \notin sent["edit"].touched
           => now'.row[f] = now.row[f]
<1> SUFFICES ASSUME ScreensInv, [ScreensNext]_screenVars, NEW f \in Fields,
                    sent["edit"] # None, sent["edit"].answer = None,
                    sent'["edit"].answer = "done", f \notin sent["edit"].touched
             PROVE  now'.row[f] = now.row[f]
  OBVIOUS
<1>1. PICK s \in Sent : s = sent["edit"] /\ s.ask \in Ask /\ s.ask.act = "edit" /\ s.ask[f] = None
  BY SentHas DEF ScreensInv, ScreensTypeOK, Buttons, SavesHold, saveHolds, narrow
<1>2. sent'["edit"] # sent["edit"]
  BY ScreensAssumption
<1>3. CASE Serve("edit")
  <2>1. PICK version \in Version : /\ version = after(s.ask, now)
                                   /\ version.row[f] = now.row[f]
    BY <1>1, AfterTyped, BankFacts DEF ScreensInv
  <2>2. UNCHANGED bank \/ bank' = Append(bank, version)
    BY <1>1, <1>3, <2>1 DEF Serve, Done, NearDuplicatesFound, Refused, Lost, writes
  <2> QED BY <2>1, <2>2, Written DEF ScreensInv
<1>4. CASE UNCHANGED now
  BY <1>4
<1>5. UNCHANGED now \/ Serve("edit")
  <2>1. UNCHANGED bank => UNCHANGED now
    BY DEF now
  <2>2. ASSUME NEW b \in Buttons, Serve(b) PROVE b = "edit"
    <3>1. CASE b # "edit"
      BY <1>2, <2>2, <3>1
         DEF Serve, Done, NearDuplicatesFound, Refused, Lost, answers, ScreensInv, ScreensTypeOK, Buttons
    <3> QED BY <3>1
  <2>3. ~OthersWrite
    BY <1>2 DEF OthersWrite
  <2>4. ASSUME ~ UNCHANGED bank PROVE \E b \in Buttons : Serve(b)
    BY <2>3, <2>4
       DEF ScreensNext, screenVars, Visit, Refetch, Answer, Arrive, Fail, Press, Settle, HearMove,
           HearForm, ToggleUpvote, PublishAnyway, LeaveItPending, OpenReason, SendReason,
           CancelReason, Type, Submit, SendAnyway, ChangeMyQuestion
  <2> QED BY <2>1, <2>2, <2>4
<1> QED BY <1>3, <1>4, <1>5

(* A save writes no field its Viewer has not typed in: of a form, only what
   differs from the version it was opened on is sent, and of that the boxes
   left alone hold what it held. *)
THEOREM SavesAreNarrow == ScreensSpec => SavesTouchOnlyWhatWasTyped
<1> DEFINE Narrow == \A f \in Fields :
                        /\ sent["edit"] # None
                        /\ sent["edit"].answer = None
                        /\ sent'["edit"].answer = "done"
                        /\ f \notin sent["edit"].touched
                        => now'.row[f] = now.row[f]
<1>1. ScreensInv /\ [ScreensNext]_screenVars => [Narrow]_screenVars
  BY SaveWrites
<1> QED BY <1>1, ScreensInvariance, PTL DEF ScreensSpec, SavesTouchOnlyWhatWasTyped

-----------------------------------------------------------------------------
(* The read of a history *)

States == {"pending", "published", "rejected"}

(* The events are told after the check, and a Question only gains events. *)
HistoryInv ==
    /\ versions \in [Listed -> Seq(States)] /\ content \in [Listed -> Contents]
    /\ history \in {NoRead} \cup [question: Listed, checkedAt: Nat, told: Nat]
    /\ history # NoRead =>
          /\ history.checkedAt =< Len(versions[history.question])
          /\ history.told # 0 => history.checkedAt # 0 /\ history.told >= history.checkedAt

LEMMA HistoryInvInit == ListsInit => HistoryInv
BY FirstVersionsAssumption DEF ListsInit, HistoryInv, Listed, States

LEMMA HistoryInvStep == HistoryInv /\ [ListsNext]_listVars => HistoryInv'
<1> SUFFICES ASSUME HistoryInv, [ListsNext]_listVars PROVE HistoryInv'
  OBVIOUS
<1>1. CASE UNCHANGED <<versions, content, history>>
  BY <1>1 DEF HistoryInv, Listed
<1>2. ASSUME NEW q \in Listed, AskHistory(q) PROVE HistoryInv'
  <2>1. Len(versions[q]) \in Nat
    BY DEF HistoryInv
  <2> QED BY <1>2, <2>1 DEF AskHistory, HistoryInv, Listed
<1>3. CASE CheckVisible
  <2>1. CASE history' = NoRead
    BY <1>3, <2>1 DEF CheckVisible, HistoryInv, Listed
  <2>2. CASE history' = [history EXCEPT !.checkedAt = Len(versions[history.question])]
    <3>1. PICK n \in Nat : n = Len(versions[history.question])
      BY <1>3 DEF CheckVisible, HistoryInv
    <3>2. /\ history' \in [question: Listed, checkedAt: Nat, told: Nat] /\ versions' = versions /\ content' = content
          /\ history'.question = history.question /\ history'.checkedAt = n /\ history'.told = 0
      BY <1>3, <2>2, <3>1 DEF CheckVisible, HistoryInv
    <3> QED BY <3>1, <3>2 DEF HistoryInv, Listed
  <2> QED BY <1>3, <2>1, <2>2 DEF CheckVisible
<1>4. CASE ReadEvents
  <2>1. PICK n \in Nat : n = Len(versions[history.question]) /\ history.checkedAt =< n
    BY <1>4 DEF ReadEvents, HistoryInv
  <2>2. /\ history' \in [question: Listed, checkedAt: Nat, told: Nat] /\ versions' = versions /\ content' = content
        /\ history'.question = history.question /\ history'.checkedAt = history.checkedAt
        /\ history'.told = n /\ history.checkedAt # 0
    BY <1>4, <2>1 DEF ReadEvents, HistoryInv
  <2> QED BY <2>1, <2>2 DEF HistoryInv, Listed
<1>5. CASE AnswerHistory
  BY <1>5 DEF AnswerHistory, HistoryInv, Listed
<1>6. ASSUME NEW q \in Listed, NEW state \in States, versions' = [versions EXCEPT ![q] = Append(@, state)],
             content' \in [Listed -> Contents], history' = history
      PROVE  HistoryInv'
  <2>2. versions' \in [Listed -> Seq(States)]
    BY <1>6 DEF HistoryInv
  <2>3. \A p \in Listed : Len(versions[p]) \in Nat /\ Len(versions'[p]) >= Len(versions[p])
    BY <1>6 DEF HistoryInv
  <2>4. CASE history = NoRead
    BY <1>6, <2>2, <2>4 DEF HistoryInv, Listed
  <2>5. CASE history # NoRead
    <3>1. /\ history.question \in Listed /\ history.checkedAt \in Nat
          /\ history.checkedAt =< Len(versions[history.question])
          /\ Len(versions'[history.question]) \in Nat
      BY <2>2, <2>5 DEF HistoryInv
    <3>2. history.checkedAt =< Len(versions'[history.question])
      BY <2>3, <3>1
    <3> QED BY <1>6, <2>2, <3>2 DEF HistoryInv, Listed
  <2> QED BY <2>4, <2>5
<1>7. ASSUME NEW q \in Listed, NEW state \in States, OthersChange(q, state) PROVE HistoryInv'
  BY <1>6, <1>7 DEF OthersChange, HistoryInv
<1>8. ASSUME NEW q \in Listed, NEW c \in Contents, OthersEdit(q, c) PROVE HistoryInv'
  <2>1. Last(versions[q]) \in States
    BY <1>8 DEF OthersEdit, HistoryInv, Last
  <2>2. versions' = [versions EXCEPT ![q] = Append(@, Last(versions[q]))]
    BY <1>8 DEF OthersEdit, HistoryInv
  <2>3. content' \in [Listed -> Contents] /\ history' = history
    BY <1>8 DEF OthersEdit, HistoryInv
  <2> QED BY <1>6, <2>1, <2>2, <2>3
<1> QED
  BY <1>1, <1>2, <1>3, <1>4, <1>5, <1>7, <1>8
     DEF ListsNext, listVars, States, Open, goesTo, ChooseFilter, NextPage, PreviousPage, AskAgain,
         ReadPage, PageArrives, PageFails

(* A history that is answered is of a moment no earlier than one at which the
   Viewer could see the Question, whatever is written between the two
   statements and however long the bank is. *)
THEOREM HistoriesAreVisible == ListsSpec => []HistoryCoversAVisibleMoment
<1>1. HistoryInv => HistoryCoversAVisibleMoment
  BY DEF HistoryInv, HistoryCoversAVisibleMoment
<1> QED BY <1>1, HistoryInvInit, HistoryInvStep, PTL DEF ListsSpec

-----------------------------------------------------------------------------
(* Paging *)

(* Every list is in one order, whatever its Questions say. *)
LEMMA ListOrder ==
    ASSUME NEW cs \in [Listed -> Contents], NEW list \in Lists
    PROVE  /\ \A p \in Listed : ~precedes(cs, list, p, p)
           /\ \A p, q \in Listed : p # q => precedes(cs, list, p, q) \/ precedes(cs, list, q, p)
           /\ \A p, q, r \in Listed : precedes(cs, list, p, q) /\ precedes(cs, list, q, r)
                                       => precedes(cs, list, p, r)
<1>1. /\ \A q \in Listed : addedAt[q] \in Nat /\ idOf[q] \in Nat
      /\ \A p, q \in Listed : p # q => addedAt[p] # addedAt[q] /\ idOf[p] # idOf[q]
  BY OrderAssumption DEF distinguishes
<1>2. CASE list \notin Searches
  <2>1. \/ \A p, q \in Listed : precedes(cs, list, p, q) <=> addedAt[p] < addedAt[q]
        \/ \A p, q \in Listed : precedes(cs, list, p, q) <=> addedAt[p] > addedAt[q]
    BY <1>2 DEF precedes
  <2> QED BY <1>1, <2>1
<1>3. CASE list \in Searches
  <2> DEFINE rank(q) == rankIn[list][cs[q]]
             better(p, q) == rank(p) > rank(q) \/ (rank(p) = rank(q) /\ idOf[p] > idOf[q])
  <2>1. \A q \in Listed : rank(q) \in Nat
    BY <1>3, OrderAssumption
  <2>2. list # "pending"
    BY <1>3, OrderAssumption, ListsAssumption
  <2>3. \A p, q \in Listed : precedes(cs, list, p, q) <=> better(p, q)
    BY <1>3, <2>2 DEF precedes
  <2> HIDE DEF rank
  <2>4. /\ \A p \in Listed : ~better(p, p)
        /\ \A p, q \in Listed : p # q => better(p, q) \/ better(q, p)
        /\ \A p, q, r \in Listed : better(p, q) /\ better(q, r) => better(p, r)
    BY <1>1, <2>1
  <2> QED
    <3> HIDE DEF better
    <3> QED BY <2>3, <2>4
<1> QED BY <1>2, <1>3

LEMMA Belonging ==
    ASSUME NEW vs, NEW cs, NEW list \in Lists
    PROVE  /\ belonging(vs, cs, list) \in SUBSET Listed /\ IsFiniteSet(belonging(vs, cs, list))
           /\ \A q : /\ ahead(vs, cs, list, q) \in SUBSET belonging(vs, cs, list)
                     /\ IsFiniteSet(ahead(vs, cs, list, q))
                     /\ position(vs, cs, list, q) \in Nat
<1>1. belonging(vs, cs, list) \in SUBSET Listed
  BY ListsAssumption, OrderAssumption DEF belonging, Lists
<1>2. IsFiniteSet(belonging(vs, cs, list))
  BY <1>1, OrderAssumption, FS_Subset
<1>3. ASSUME NEW q
      PROVE  /\ ahead(vs, cs, list, q) \in SUBSET belonging(vs, cs, list)
             /\ IsFiniteSet(ahead(vs, cs, list, q))
             /\ position(vs, cs, list, q) \in Nat
  <2>1. ahead(vs, cs, list, q) \in SUBSET belonging(vs, cs, list)
    BY DEF ahead
  <2>2. IsFiniteSet(ahead(vs, cs, list, q))
    BY <1>2, <2>1, FS_Subset
  <2> QED BY <2>1, <2>2, FS_CardinalityType DEF position
<1> QED BY <1>1, <1>2, <1>3

(* No two of a list have one position in it, and no position is left out. *)
LEMMA Positions ==
    ASSUME NEW vs, NEW cs \in [Listed -> Contents], NEW list \in Lists
    PROVE  LET B == belonging(vs, cs, list)
           IN  /\ Cardinality(B) \in Nat
               /\ \A q \in B : position(vs, cs, list, q) \in 0 .. Cardinality(B) - 1
               /\ \A p, q \in B : p # q => position(vs, cs, list, p) # position(vs, cs, list, q)
               /\ \A i \in 0 .. Cardinality(B) - 1 : \E q \in B : position(vs, cs, list, q) = i
<1> DEFINE B == belonging(vs, cs, list)
           before(q) == {p \in B : precedes(cs, list, p, q)}
<1>0. \A q : before(q) = ahead(vs, cs, list, q) /\ position(vs, cs, list, q) = Cardinality(before(q))
  BY DEF ahead, position
<1>1. B \in SUBSET Listed /\ IsFiniteSet(B) /\ Cardinality(B) \in Nat
  BY Belonging, FS_CardinalityType
<1>2. /\ \A q \in B : ~precedes(cs, list, q, q)
      /\ \A p, q \in B : p # q => precedes(cs, list, p, q) \/ precedes(cs, list, q, p)
      /\ \A p, q, r \in B : precedes(cs, list, p, q) /\ precedes(cs, list, q, r)
                             => precedes(cs, list, p, r)
  BY <1>1, ListOrder
<1> HIDE DEF B
<1>3. \A q \in B : before(q) \in SUBSET B /\ IsFiniteSet(before(q)) /\ Cardinality(before(q)) \in Nat
  BY <1>1, FS_Subset, FS_CardinalityType
<1>4. ASSUME NEW q \in B PROVE Cardinality(before(q)) \in 0 .. Cardinality(B) - 1
  <2>1. Cardinality(before(q)) =< Cardinality(B) /\ Cardinality(before(q)) # Cardinality(B)
    <3>1. q \notin before(q)
      BY <1>2
    <3> QED BY <1>1, <1>3, <3>1, FS_Subset
  <2> QED BY <1>1, <1>3, <2>1
<1>5. ASSUME NEW p \in B, NEW q \in B, precedes(cs, list, p, q)
      PROVE  Cardinality(before(p)) # Cardinality(before(q))
  <2>1. before(p) \in SUBSET before(q)
    BY <1>2, <1>5
  <2>2. p \in before(q) /\ p \notin before(p)
    BY <1>2, <1>5
  <2> QED BY <1>3, <2>1, <2>2, FS_Subset
<1>6. ASSUME NEW p \in B, NEW q \in B, p # q
      PROVE  Cardinality(before(p)) # Cardinality(before(q))
  <2>1. precedes(cs, list, p, q) \/ precedes(cs, list, q, p)
    BY <1>2, <1>6
  <2> QED BY <1>5, <2>1
<1>7. ASSUME NEW i \in 0 .. Cardinality(B) - 1
      PROVE  \E q \in B : Cardinality(before(q)) = i
  <2> DEFINE T == 0 .. Cardinality(B) - 1
             f == [q \in B |-> Cardinality(before(q))]
  <2>1. f \in Injection(B, T)
    BY <1>4, <1>6 DEF Injection, IsInjective
  <2>2. IsFiniteSet(T) /\ Cardinality(T) = Cardinality(B)
    BY <1>1, FS_Interval
  <2>3. f \in Surjection(B, T)
    <3> HIDE DEF f, T
    <3> QED BY <1>1, <2>1, <2>2, FS_Injection
  <2> QED BY <2>3 DEF Surjection
<1> HIDE DEF before
<1>8. /\ \A q \in B : position(vs, cs, list, q) \in 0 .. Cardinality(B) - 1
      /\ \A p, q \in B : p # q => position(vs, cs, list, p) # position(vs, cs, list, q)
      /\ \A i \in 0 .. Cardinality(B) - 1 : \E q \in B : position(vs, cs, list, q) = i
  BY <1>0, <1>4, <1>6, <1>7
<1> QED BY <1>1, <1>8 DEF B

(* A page is short only where nothing is left. *)
LEMMA ShortPages ==
    ASSUME NEW vs, NEW cs \in [Listed -> Contents], NEW list \in Lists, NEW from \in Nat,
           NEW last \in belonging(vs, cs, list), position(vs, cs, list, last) >= from + PageSize
    PROVE  Cardinality({q \in belonging(vs, cs, list) :
                          position(vs, cs, list, q) \in from .. from + PageSize - 1}) = PageSize
<1> DEFINE B == belonging(vs, cs, list)
           I == from .. from + PageSize - 1
           page == {q \in B : position(vs, cs, list, q) \in I}
           f == [q \in page |-> position(vs, cs, list, q)]
<1>1. /\ IsFiniteSet(B) /\ Cardinality(B) \in Nat /\ PageSize \in Nat \ {0}
      /\ \A q \in B : position(vs, cs, list, q) \in 0 .. Cardinality(B) - 1
      /\ \A p, q \in B : p # q => position(vs, cs, list, p) # position(vs, cs, list, q)
      /\ \A i \in 0 .. Cardinality(B) - 1 : \E q \in B : position(vs, cs, list, q) = i
  BY Belonging, Positions, ListsAssumption
<1>2. I \subseteq 0 .. Cardinality(B) - 1
  BY <1>1
<1>3. IsFiniteSet(page)
  BY <1>1, FS_Subset
<1>4. f \in Bijection(page, I)
  <2>1. f \in [page -> I] /\ \A p, q \in page : p # q => f[p] # f[q]
    BY <1>1
  <2>2. ASSUME NEW i \in I PROVE \E q \in page : f[q] = i
    BY <1>1, <1>2
  <2> QED BY <2>1, <2>2 DEF Bijection, Injection, IsInjective, Surjection
<1>5. Cardinality(I) = Cardinality(page)
  <2> HIDE DEF f, page, I
  <2> QED BY <1>3, <1>4, FS_Bijection DEF ExistsBijection
<1>6. Cardinality(I) = PageSize
  BY <1>1, FS_Interval
<1> QED BY <1>5, <1>6

Walk == [seen: SUBSET Listed, due: SUBSET Listed, fresh: BOOLEAN]

answeredPage == fetch[1] = "answered"

(* All that is due, up to the n-th of the list, is among these. *)
upTo(n, seen) ==
    \A q \in walk.due : position(versions, content, request.list, q) < n => q \in seen

(* Writes only move what is still due further down, so what has been shown up
   to the page reached stays shown up to it; and after a short page nothing is
   left. *)
WalkHolds ==
    walk # NoRead =>
       /\ request.list \in Lists
       /\ walk.due \subseteq belonging(versions, content, request.list)
       /\ upTo(request.offset + (IF walk.fresh THEN PageSize ELSE 0), walk.seen)
       /\ answeredPage => upTo(request.offset + PageSize, walk.seen \cup fetch[2])
       /\ answeredPage /\ Cardinality(fetch[2]) # PageSize =>
             walk.due \subseteq walk.seen \cup fetch[2]
       /\ walk.fresh /\ loadedPage /\ ~mayBeMore => walk.due \subseteq walk.seen

PagesTyped ==
    /\ request \in Requests
    /\ DOMAIN pages \subseteq Requests /\ \A r \in DOMAIN pages : pages[r] \in Page
    /\ fetch \in {<<"none">>, <<"asked">>} \cup ({"answered"} \X Page)
    /\ fetch # <<"none">> => request.list \in Lists
    /\ failed \in BOOLEAN
    /\ walk \in {NoRead} \cup Walk

ListsInv == HistoryInv /\ PagesTyped /\ WalkHolds

LEMMA ListsInvInit == ListsInit => ListsInv
<1> SUFFICES ASSUME ListsInit PROVE ListsInv
  OBVIOUS
<1>1. request \in Requests /\ request.list \in Lists
  BY DEF ListsInit, Requests, Lists
<1>2. DOMAIN pages = {}
  BY DEF ListsInit
<1>3. PagesTyped
  BY <1>1, <1>2 DEF ListsInit, PagesTyped
<1> QED BY <1>3, HistoryInvInit DEF ListsInit, ListsInv, WalkHolds

(* Another address: a walk begins at the first page, goes on to the next, or is over. *)
LEMMA GoesToStep ==
    ASSUME ListsInv, NEW r \in Requests, goesTo(r),
           \/ walk' = NoRead
           \/ r.offset = 0 /\ walk' = startsAWalk(r.list)
           \/ /\ walk # NoRead /\ walk.fresh /\ walk' = [walk EXCEPT !.fresh = FALSE]
              /\ r.list = request.list /\ r.offset = request.offset + PageSize
    PROVE  PagesTyped' /\ WalkHolds'
<1>1. /\ request' = r /\ fetch' \in {<<"none">>, <<"asked">>} /\ failed' = FALSE
      /\ fetch' # <<"none">> => r.list \in Lists
      /\ UNCHANGED <<versions, content, pages, history>> /\ r.offset \in Nat
      /\ r.list \in Lists \cup {badFilter}
  BY DEF goesTo, Requests
<1>2. ~answeredPage'
  BY <1>1 DEF answeredPage
<1>3. CASE walk' = NoRead
  BY <1>1, <1>3 DEF ListsInv, PagesTyped, WalkHolds
<1>4. CASE walk' # NoRead /\ r.offset = 0 /\ walk' = startsAWalk(r.list)
  <2>1. r.list \in Lists /\ belonging(versions, content, r.list) \in SUBSET Listed
    BY <1>1, <1>4, Belonging DEF startsAWalk
  <2>2. /\ walk' \in Walk /\ walk'.due = belonging(versions, content, r.list) /\ ~walk'.fresh
    BY <1>4, <2>1 DEF startsAWalk, Walk
  <2>3. \A q \in walk'.due : ~(position(versions, content, r.list, q) < 0)
    BY <2>1, <2>2, Belonging
  <2>4. PagesTyped'
    BY <1>1, <2>2 DEF ListsInv, PagesTyped
  <2>5. WalkHolds'
    BY <1>1, <1>2, <1>4, <2>1, <2>2, <2>3 DEF WalkHolds, upTo
  <2> QED BY <2>4, <2>5
<1>5. CASE /\ walk # NoRead /\ walk.fresh /\ walk' = [walk EXCEPT !.fresh = FALSE]
           /\ r.list = request.list /\ r.offset = request.offset + PageSize
  <2>1. /\ walk' \in Walk /\ ~walk'.fresh
        /\ walk'.due = walk.due /\ walk'.seen = walk.seen
    BY <1>5 DEF ListsInv, PagesTyped, Walk
  <2>2. PagesTyped'
    BY <1>1, <2>1 DEF ListsInv, PagesTyped
  <2>3. /\ r.list \in Lists /\ walk'.due \subseteq belonging(versions, content, r.list)
        /\ upTo(r.offset, walk.seen)
    BY <1>5, <2>1 DEF ListsInv, WalkHolds
  <2>4. r.offset + 0 = r.offset
    BY <1>1
  <2>5. WalkHolds'
    BY <1>1, <1>2, <1>5, <2>1, <2>3, <2>4 DEF WalkHolds, upTo
  <2> QED BY <2>2, <2>5
<1> QED BY <1>3, <1>4, <1>5

(* The page read is what stands at its positions now: what is due and stands
   before them has been shown, and if it is short nothing stands after. *)
LEMMA ReadPageStep ==
    ASSUME ListsInv, ReadPage
    PROVE  PagesTyped' /\ WalkHolds'
<1> DEFINE B == belonging(versions, content, request.list)
           page == {q \in B : position(versions, content, request.list, q)
                               \in request.offset .. request.offset + PageSize - 1}
<1>1. UNCHANGED <<versions, content, request, pages, failed, walk>>
  BY DEF ReadPage
<1>2. /\ fetch = <<"asked">> /\ fetch' = <<"answered", page>>
      /\ request.offset \in Nat /\ PageSize \in Nat /\ request.list \in Lists
  BY ListsAssumption DEF ReadPage, pageAt, ListsInv, PagesTyped, Requests
<1>3. content \in [Listed -> Contents]
  BY DEF ListsInv, HistoryInv
<1>4. PagesTyped'
  <2>1. page \in Page
    BY <1>2, Belonging DEF Page
  <2> HIDE DEF page
  <2> QED BY <1>1, <1>2, <2>1 DEF ListsInv, PagesTyped
<1>5. CASE walk = NoRead
  BY <1>1, <1>4, <1>5 DEF WalkHolds
<1>6. CASE walk # NoRead
  <2>1. \A q \in walk.due : q \in B /\ position(versions, content, request.list, q) \in Nat
    BY <1>2, <1>6, Belonging DEF ListsInv, WalkHolds
  <2>2. ASSUME NEW q \in walk.due, q \notin page,
               position(versions, content, request.list, q) < request.offset + PageSize
        PROVE  q \in walk.seen
    <3>1. position(versions, content, request.list, q) < request.offset + (IF walk.fresh THEN PageSize ELSE 0)
      BY <1>2, <2>1, <2>2
    <3> QED BY <1>6, <3>1 DEF ListsInv, WalkHolds, upTo
  <2>3. ASSUME Cardinality(page) # PageSize, NEW q \in walk.due
        PROVE  q \in walk.seen \cup page
    <3>1. position(versions, content, request.list, q) < request.offset + PageSize
      <4> SUFFICES ASSUME position(versions, content, request.list, q) >= request.offset + PageSize
                   PROVE  Cardinality(page) = PageSize
        BY <1>2, <2>1, <2>3
      <4>1. q \in belonging(versions, content, request.list)
        BY <2>1, <2>3
      <4> QED BY <1>2, <1>3, <4>1, ShortPages
    <3> QED BY <2>2, <3>1
  <2>4. fetch'[1] = "answered" /\ fetch'[2] = page
    BY <1>2
  <2> HIDE DEF page
  <2>5. /\ upTo(request.offset + PageSize, walk.seen \cup page)
        /\ Cardinality(page) # PageSize => walk.due \subseteq walk.seen \cup page
    BY <2>2, <2>3 DEF upTo
  <2>6. /\ walk.due \subseteq belonging(versions, content, request.list)
        /\ upTo(request.offset + (IF walk.fresh THEN PageSize ELSE 0), walk.seen)
        /\ walk.fresh /\ loadedPage /\ ~mayBeMore => walk.due \subseteq walk.seen
    BY <1>6 DEF ListsInv, WalkHolds
  <2> QED BY <1>1, <1>2, <1>4, <1>6, <2>4, <2>5, <2>6 DEF WalkHolds, upTo, answeredPage, loadedPage, mayBeMore
<1> QED BY <1>4, <1>5, <1>6

LEMMA PageArrivesStep ==
    ASSUME ListsInv, PageArrives
    PROVE  PagesTyped' /\ WalkHolds'
<1>1. /\ answeredPage /\ fetch[2] \in Page /\ fetch' = <<"none">> /\ failed' = FALSE
      /\ UNCHANGED <<versions, content, request>> /\ request \in Requests
      /\ pages' = [r \in DOMAIN pages \cup {request} |-> IF r = request THEN fetch[2] ELSE pages[r]]
  BY DEF PageArrives, answeredPage, ListsInv, PagesTyped
<1>2. /\ DOMAIN pages' \subseteq Requests /\ \A r \in DOMAIN pages' : pages'[r] \in Page
      /\ pages'[request] = fetch[2] /\ request \in DOMAIN pages'
  BY <1>1 DEF ListsInv, PagesTyped
<1>3. CASE walk = NoRead
  <2>1. walk' = NoRead
    BY <1>3 DEF PageArrives
  <2> QED BY <1>1, <1>2, <2>1 DEF ListsInv, PagesTyped, WalkHolds
<1>4. CASE walk # NoRead
  <2>1. /\ walk' \in Walk /\ walk'.fresh /\ walk'.seen = walk.seen \cup fetch[2]
        /\ walk'.due = walk.due
    BY <1>1, <1>4 DEF PageArrives, ListsInv, PagesTyped, Walk, Page
  <2>2. PagesTyped'
    BY <1>1, <1>2, <2>1 DEF ListsInv, PagesTyped
  <2>3. ~answeredPage'
    BY <1>1 DEF answeredPage
  <2>4. WalkHolds'
    BY <1>1, <1>2, <1>4, <2>1, <2>3 DEF ListsInv, WalkHolds, upTo, mayBeMore, loadedPage
  <2> QED BY <2>2, <2>4
<1> QED BY <1>3, <1>4

LEMMA AskStep ==
    ASSUME ListsInv, AskAgain \/ PageFails
    PROVE  PagesTyped' /\ WalkHolds'
<1>1. /\ fetch' \in {<<"none">>, <<"asked">>} /\ failed' \in BOOLEAN
      /\ fetch' # <<"none">> => request.list \in Lists
      /\ UNCHANGED <<versions, content, request, pages, walk>>
  BY DEF AskAgain, PageFails, loadedPage, ListsInv, PagesTyped, Requests
<1>2. ~answeredPage'
  BY <1>1 DEF answeredPage
<1>3. PagesTyped'
  BY <1>1 DEF ListsInv, PagesTyped
<1>4. WalkHolds'
  BY <1>1, <1>2 DEF ListsInv, WalkHolds, upTo, mayBeMore, loadedPage
<1> QED BY <1>3, <1>4

(* What others write moves nothing that is still due to a page already passed. *)
LEMMA OthersWriteStep ==
    ASSUME ListsInv, walk' = walkAfter(versions', content'),
           UNCHANGED <<request, pages, fetch, failed, history>>
    PROVE  PagesTyped' /\ WalkHolds'
<1>2. CASE walk = NoRead
  <2>1. walk' = NoRead
    BY <1>2 DEF walkAfter
  <2> QED BY <2>1 DEF ListsInv, PagesTyped, WalkHolds
<1>3. CASE walk # NoRead
  <2> DEFINE was(p) == ahead(versions, content, request.list, p)
             then(p) == ahead(versions', content', request.list, p)
  <2>1. /\ walk' \in Walk /\ walk'.fresh = walk.fresh /\ walk'.seen = walk.seen
        /\ walk'.due \subseteq walk.due
        /\ walk'.due \subseteq belonging(versions', content', request.list)
        /\ \A p \in walk'.due : was(p) \subseteq then(p)
    <3>1. PICK due \in SUBSET Listed :
             due = {q \in walk.due \cap belonging(versions', content', request.list) :
                      was(q) \subseteq then(q)}
      BY <1>3 DEF ListsInv, PagesTyped, Walk
    <3>2. walk' = [walk EXCEPT !.due = due]
      BY <1>3, <3>1 DEF walkAfter
    <3>3. walk \in Walk
      BY <1>3 DEF ListsInv, PagesTyped
    <3> HIDE DEF was, then
    <3>4. /\ walk' \in Walk /\ walk'.fresh = walk.fresh /\ walk'.seen = walk.seen
          /\ walk'.due = due
      BY <3>2, <3>3 DEF Walk
    <3> QED BY <3>1, <3>4
  <2>2. request.list \in Lists
    BY <1>3 DEF ListsInv, WalkHolds
  <2>3. ASSUME NEW p \in walk'.due
        PROVE  /\ p \in walk.due
               /\ position(versions, content, request.list, p) \in Nat
               /\ position(versions', content', request.list, p) \in Nat
               /\ position(versions', content', request.list, p)
                     >= position(versions, content, request.list, p)
    <3>1. /\ was(p) \in SUBSET then(p) /\ p \in walk.due
          /\ IsFiniteSet(was(p)) /\ IsFiniteSet(then(p))
      BY <2>1, <2>2, Belonging
    <3>2. /\ position(versions, content, request.list, p) = Cardinality(was(p))
          /\ position(versions', content', request.list, p) = Cardinality(then(p))
      BY DEF position
    <3> HIDE DEF was, then
    <3>3. /\ Cardinality(was(p)) \in Nat /\ Cardinality(then(p)) \in Nat
          /\ Cardinality(was(p)) =< Cardinality(then(p))
      BY <3>1, FS_Subset, FS_CardinalityType
    <3> QED BY <3>1, <3>2, <3>3
  <2> HIDE DEF was, then
  <2>4. PagesTyped'
    BY <2>1 DEF ListsInv, PagesTyped
  <2>5. /\ request.offset \in Nat /\ PageSize \in Nat
    BY ListsAssumption DEF ListsInv, PagesTyped, Requests
  <2>6. ASSUME NEW p \in walk'.due, NEW n \in Nat,
               position(versions', content', request.list, p) < n
        PROVE  p \in walk.due /\ position(versions, content, request.list, p) < n
    BY <2>3, <2>6
  <2>7. PICK n \in Nat : n = request.offset + (IF walk.fresh THEN PageSize ELSE 0)
    BY <2>1, <2>5 DEF Walk
  <2>8. /\ \A p \in walk'.due :
              position(versions', content', request.list, p) < n => p \in walk.seen
        /\ answeredPage =>
              \A p \in walk'.due :
                 position(versions', content', request.list, p) < request.offset + PageSize
                 => p \in walk.seen \cup fetch[2]
        /\ answeredPage /\ Cardinality(fetch[2]) # PageSize =>
              walk.due \subseteq walk.seen \cup fetch[2]
        /\ walk.fresh /\ loadedPage /\ ~mayBeMore => walk.due \subseteq walk.seen
    <3>1. /\ upTo(n, walk.seen)
          /\ answeredPage => upTo(request.offset + PageSize, walk.seen \cup fetch[2])
          /\ answeredPage /\ Cardinality(fetch[2]) # PageSize =>
                walk.due \subseteq walk.seen \cup fetch[2]
          /\ walk.fresh /\ loadedPage /\ ~mayBeMore => walk.due \subseteq walk.seen
      BY <1>3, <2>7 DEF ListsInv, WalkHolds
    <3>2. PICK last \in Nat : last = request.offset + PageSize
      BY <2>5
    <3> QED BY <2>6, <3>1, <3>2 DEF upTo
  <2>9. WalkHolds'
    <3>1. /\ answeredPage' <=> answeredPage
          /\ loadedPage' <=> loadedPage
          /\ mayBeMore' <=> mayBeMore
      BY DEF answeredPage, loadedPage, mayBeMore
    <3>2. walk'.due \subseteq belonging(versions', content', request'.list) /\ request'.list \in Lists
      BY <2>1, <2>2
    <3>3. (request.offset + (IF walk.fresh THEN PageSize ELSE 0))' = n
      BY <2>1, <2>7
    <3> QED BY <2>1, <2>8, <3>1, <3>2, <3>3 DEF WalkHolds, upTo
  <2> QED BY <2>4, <2>9
<1> QED BY <1>2, <1>3

LEMMA OtherOffset ==
    ASSUME NEW r \in Requests, NEW n \in Nat
    PROVE  LET s == [r EXCEPT !.offset = n]
           IN  s \in Requests /\ s.list = r.list /\ s.offset = n
BY DEF Requests

LEMMA ListsInvStep == ListsInv /\ [ListsNext]_listVars => ListsInv'
<1> SUFFICES ASSUME ListsInv, [ListsNext]_listVars PROVE PagesTyped' /\ WalkHolds'
  BY HistoryInvStep DEF ListsInv
<1>1. CASE UNCHANGED <<versions, content, request, pages, fetch, failed, walk>>
  BY <1>1 DEF ListsInv, PagesTyped, WalkHolds, upTo, answeredPage, loadedPage, mayBeMore
<1>2. request \in Requests /\ request.offset \in Nat /\ PageSize \in Nat
  BY ListsAssumption DEF ListsInv, PagesTyped, Requests
<1>3. ASSUME NEW list \in Lists \cup {badFilter}, NEW offset \in Offsets, Open(list, offset)
      PROVE  PagesTyped' /\ WalkHolds'
  <2>1. [list |-> list, offset |-> offset] \in Requests
    BY <1>3, ListsAssumption DEF Requests
  <2> QED BY <1>3, <2>1, GoesToStep DEF Open
<1>4. ASSUME NEW list \in Filters, ChooseFilter(list)
      PROVE  PagesTyped' /\ WalkHolds'
  <2>1. filtered(list) \in Requests /\ filtered(list).list = list /\ filtered(list).offset = 0
    BY <1>4 DEF filtered, Requests, Lists
  <2> QED BY <1>4, <2>1, GoesToStep DEF ChooseFilter
<1>5. CASE NextPage
  <2>1. PICK n \in Nat : n = request.offset + PageSize
    BY <1>2
  <2>2. PICK r \in Requests : /\ r = [request EXCEPT !.offset = n]
                             /\ r.list = request.list /\ r.offset = n
    BY <1>2, OtherOffset
  <2>3. goesTo(r)
    BY <1>5, <2>1, <2>2 DEF NextPage
  <2> QED BY <1>5, <2>1, <2>2, <2>3, GoesToStep DEF NextPage
<1>6. CASE PreviousPage
  <2>1. PICK n \in Nat : n = IF request.offset > PageSize THEN request.offset - PageSize ELSE 0
    BY <1>2
  <2>2. PICK r \in Requests : /\ r = [request EXCEPT !.offset = n]
                             /\ r.list = request.list /\ r.offset = n
    BY <1>2, OtherOffset
  <2>3. goesTo(r) /\ request' = r
    BY <1>6, <2>1, <2>2 DEF PreviousPage, goesTo
  <2> QED BY <1>6, <2>2, <2>3, GoesToStep DEF PreviousPage
<1>7. CASE AskAgain \/ PageFails
  BY <1>7, AskStep
<1>8. CASE ReadPage
  BY <1>8, ReadPageStep
<1>9. CASE PageArrives
  BY <1>9, PageArrivesStep
<1>10. ASSUME NEW q \in Listed, NEW state \in States, OthersChange(q, state)
       PROVE  PagesTyped' /\ WalkHolds'
  BY <1>10, OthersWriteStep DEF OthersChange
<1>11. ASSUME NEW q \in Listed, NEW c \in Contents, OthersEdit(q, c)
       PROVE  PagesTyped' /\ WalkHolds'
  BY <1>11, OthersWriteStep DEF OthersEdit
<1> QED
  BY <1>1, <1>3, <1>4, <1>5, <1>6, <1>7, <1>8, <1>9, <1>10, <1>11
     DEF ListsNext, listVars, States, AskHistory, CheckVisible, ReadEvents, AnswerHistory

LEMMA ListsInvariance == ListsSpec => []ListsInv
BY ListsInvInit, ListsInvStep, PTL DEF ListsSpec

(* What a list holds, shows and awaits is of the types declared, for any bank. *)
THEOREM ListsTypeCorrect == ListsSpec => []ListsTypeOK
<1>1. ListsInv => ListsTypeOK
  BY DEF ListsInv, HistoryInv, PagesTyped, Walk, States, ListsTypeOK
<1> QED BY <1>1, ListsInvariance, PTL

(* Whoever pages on from the first page to a page that is not full has been
   shown all that was in the list all along and lost none ahead of it, for any
   bank, any size of page, any ranks, and whatever is added, edited, published
   and returned between two pages. *)
THEOREM PagingReachesAll == ListsSpec => []PagingReachesEveryQuestion
<1>1. ListsInv => PagingReachesEveryQuestion
  BY DEF ListsInv, WalkHolds, PagingReachesEveryQuestion
<1> QED BY <1>1, ListsInvariance, PTL

-----------------------------------------------------------------------------
(* The Administrator's screens *)

AccountQuery == [at: Held, fetch: {"none", "asked", "answered"}, answer: Held, failed: BOOLEAN]

(* An answer on its way is of what the API held. *)
Asked == {q \in AccountQuery : q.fetch = "answered" => q.answer \in Api}

UnderWay == {s \in Pressed : s.answer = "done" => s.answered \in Api}

Shown == [refusal: {Nobody} \cup RoleRequests, raiseRefused: BOOLEAN,
          rowRefused: {Nobody} \cup Accounts, denying: {Nobody} \cup RoleRequests,
          problem: BOOLEAN]

AccountsInv ==
    /\ api \in Api /\ place \in Places /\ session \in HeldRoles /\ shown \in Shown
    /\ forms \in [FormNames -> {"open", "problem", "sending", "refused", "linkRefused", "done"}]
    /\ lists \in [AccountKeys -> Asked]
    /\ pressed \in [Pressable -> {Nobody} \cup UnderWay]

(* What is under way ends only by being heard. *)
stillUnderWay == \A b \in Pressable : pressed[b] # Nobody => pressed'[b] # Nobody

LEMMA AskedWritten ==
    ASSUME NEW a \in Api, NEW r \in RoleRequests, NEW became \in {"open", "granted", "denied"}
    PROVE  [a EXCEPT !.asked[r] = became] \in Api
BY DEF Api

LEMMA HeldWritten ==
    ASSUME NEW a \in Api, NEW v \in Accounts, NEW role \in HeldRoles
    PROVE  [a EXCEPT !.held[v] = role] \in Api
BY DEF Api

LEMMA MoveCounted ==
    ASSUME NEW a \in Api
    PROVE  [a EXCEPT !.moves = @ + 1] \in Api
<1>1. PICK n \in Nat : n = a.moves + 1
  BY DEF Api
<1>2. [a EXCEPT !.moves = n] \in Api
  BY DEF Api
<1> QED BY <1>1, <1>2

LEMMA WroteTyped ==
    ASSUME api \in Api, NEW button \in Pressable, NEW role \in HeldRoles
    PROVE  wrote(button, role) \in Api
<1>1. CASE button[1] = "grant"
  <2>1. button[2] \in RoleRequests /\ raisedBy[button[2]] \in Accounts
    BY <1>1, AccountsAssumption DEF Pressable
  <2>2. PICK a \in Api : a = [api EXCEPT !.asked[button[2]] = "granted"]
    BY <2>1, AskedWritten
  <2>3. PICK h \in Api : h = [a EXCEPT !.held[raisedBy[button[2]]] = role]
    BY <2>1, HeldWritten
  <2>4. PICK w \in Api : w = [h EXCEPT !.moves = @ + 1]
    BY MoveCounted
  <2>5. wrote(button, role) = w
    BY <1>1, <2>2, <2>3, <2>4 DEF wrote
  <2> QED BY <2>5
<1>2. CASE button[1] \in {"deny", "raise"}
  <2>1. button[2] \in RoleRequests
    BY <1>2 DEF Pressable
  <2>2. PICK became \in {"open", "denied"} :
           became = IF button[1] = "raise" THEN "open" ELSE "denied"
    OBVIOUS
  <2>3. PICK a \in Api : a = [api EXCEPT !.asked[button[2]] = became]
    BY <2>1, AskedWritten
  <2>4. PICK w \in Api : w = [a EXCEPT !.moves = @ + 1]
    BY MoveCounted
  <2>5. wrote(button, role) = w
    BY <1>2, <2>2, <2>3, <2>4 DEF wrote
  <2> QED BY <2>5
<1>3. CASE button[1] = "act"
  <2>1. button[2] \in Accounts
    BY <1>3 DEF Pressable
  <2>2. PICK h \in Api : h = [api EXCEPT !.held[button[2]] = role]
    BY <2>1, HeldWritten
  <2>3. PICK w \in Api : w = [h EXCEPT !.moves = @ + 1]
    BY MoveCounted
  <2>4. wrote(button, role) = w
    BY <1>3, <2>2, <2>3 DEF wrote
  <2> QED BY <2>4
<1> QED BY <1>1, <1>2, <1>3 DEF Pressable

LEMMA AskedTyped ==
    ASSUME NEW q \in Asked
    PROVE  askedFor(q) \in Asked /\ notAsked(q) \in Asked /\ q.at \in Held /\ q.answer \in Held
BY DEF askedFor, notAsked, Asked, AccountQuery, Held

LEMMA OutOfDateTyped ==
    ASSUME AccountsInv, NEW keys
    PROVE  outOfDate(keys) \in [AccountKeys -> Asked]
<1>1. \A k \in AccountKeys : lists[k] \in Asked /\ askedFor(lists[k]) \in Asked
  BY AskedTyped DEF AccountsInv
<1> QED BY <1>1 DEF outOfDate

LEMMA RequestStarts ==
    ASSUME AccountsInv, NEW button \in Pressable, NEW role \in HeldRoles,
           startsRequest(button, role)
    PROVE  pressed' \in [Pressable -> {Nobody} \cup UnderWay] /\ stillUnderWay
<1> DEFINE S == [answer |-> "none", here |-> TRUE, settled |-> FALSE, role |-> role,
                 answered |-> Nobody]
<1>1. S \in UnderWay
  BY DEF UnderWay, Pressed, Held
<1>2. S # Nobody
  BY <1>1, NobodyAssumption DEF UnderWay
<1>3. pressed' = [pressed EXCEPT ![button] = S]
  BY DEF startsRequest
<1> HIDE DEF S
<1> QED BY <1>1, <1>2, <1>3 DEF AccountsInv, stillUnderWay

LEMMA PressedChanges ==
    ASSUME AccountsInv, NEW button \in Pressable, NEW s \in UnderWay,
           pressed' = [pressed EXCEPT ![button] = s]
    PROVE  pressed' \in [Pressable -> {Nobody} \cup UnderWay] /\ stillUnderWay
BY NobodyAssumption DEF AccountsInv, stillUnderWay, UnderWay

LEMMA AccountsInvInit == AccountsInit => AccountsInv
<1> SUFFICES ASSUME AccountsInit PROVE AccountsInv
  OBVIOUS
<1>1. empty \in Asked /\ [empty EXCEPT !.fetch = "asked"] \in Asked
  BY DEF empty, Asked, AccountQuery, Held
<1>2. lists \in [AccountKeys -> Asked]
  BY <1>1 DEF AccountsInit
<1>3. api \in Api /\ session \in HeldRoles /\ shown \in Shown /\ place \in Places
  BY AccountsAssumption DEF AccountsInit, Api, Shown, nothingShown, Places
<1> QED BY <1>2, <1>3 DEF AccountsInv, AccountsInit

LEMMA GoStep ==
    ASSUME AccountsInv, NEW p \in Places, Go(p)
    PROVE  AccountsInv' /\ stillUnderWay
<1>1. lists' \in [AccountKeys -> Asked]
  <2>1. \A k \in AccountKeys :
           lists[k] \in Asked /\ askedFor(lists[k]) \in Asked /\ notAsked(lists[k]) \in Asked
    BY AskedTyped DEF AccountsInv
  <2> QED BY <2>1 DEF Go
<1>2. \A b \in Pressable : pressed[b] # Nobody => [pressed[b] EXCEPT !.here = FALSE] \in UnderWay
  <2>1. ASSUME NEW s \in UnderWay PROVE [s EXCEPT !.here = FALSE] \in UnderWay
    BY DEF UnderWay, Pressed
  <2> QED BY <2>1 DEF AccountsInv
<1>3. pressed' \in [Pressable -> {Nobody} \cup UnderWay] /\ stillUnderWay
  <2>1. ASSUME NEW b \in Pressable
        PROVE  /\ pressed'[b] \in {Nobody} \cup UnderWay
               /\ pressed[b] # Nobody => pressed'[b] # Nobody
    <3>1. CASE pressed[b] = Nobody
      BY <3>1 DEF Go
    <3>2. CASE pressed[b] # Nobody
      <4>1. PICK s \in UnderWay : s = [pressed[b] EXCEPT !.here = FALSE]
        BY <1>2, <3>2
      <4>2. pressed'[b] = s
        BY <3>2, <4>1 DEF Go
      <4> QED BY <4>2, NobodyAssumption DEF UnderWay
    <3> QED BY <3>1, <3>2
  <2>2. pressed' = [b \in Pressable |-> pressed'[b]]
    BY DEF Go
  <2> QED BY <2>1, <2>2 DEF stillUnderWay
<1>4. shown' \in Shown
  BY DEF Go, nothingShown, Shown
<1> QED BY <1>1, <1>3, <1>4 DEF AccountsInv, Go

LEMMA ListStep ==
    ASSUME AccountsInv, NEW k \in AccountKeys,
           ListAnswered(k) \/ ListArrives(k) \/ ListFails(k) \/ ListTryAgain(k)
    PROVE  AccountsInv' /\ stillUnderWay
<1>1. /\ lists[k] \in Asked /\ askedFor(lists[k]) \in Asked /\ notAsked(lists[k]) \in Asked
      /\ api \in Api /\ shown \in Shown /\ session \in HeldRoles
  BY AskedTyped DEF AccountsInv
<1>2. [shown EXCEPT !.denying = Nobody, !.problem = FALSE] \in Shown
  BY <1>1 DEF Shown
<1>3. CASE ListAnswered(k)
  <2>1. [lists[k] EXCEPT !.fetch = "answered", !.answer = api] \in Asked
    BY <1>1 DEF Asked, AccountQuery, Held
  <2>2. lists' = [lists EXCEPT ![k] = [lists[k] EXCEPT !.fetch = "answered", !.answer = api]]
    BY <1>3 DEF ListAnswered, AccountsInv
  <2>3. lists' \in [AccountKeys -> Asked]
    BY <2>1, <2>2 DEF AccountsInv
  <2> QED BY <1>3, <2>3 DEF AccountsInv, ListAnswered, stillUnderWay
<1>4. CASE ListArrives(k)
  <2>1. lists[k].answer \in Api
    BY <1>1, <1>4 DEF ListArrives, Asked
  <2>2. [empty EXCEPT !.at = lists[k].answer] \in Asked
    BY <2>1 DEF empty, Asked, AccountQuery, Held
  <2>3. lists' \in [AccountKeys -> Asked]
    BY <1>4, <2>2 DEF ListArrives, AccountsInv
  <2>4. session' \in HeldRoles
    BY <1>1, <1>4, <2>1, AccountsAssumption DEF ListArrives, Api
  <2>5. shown' \in Shown
    BY <1>1, <1>2, <1>4 DEF ListArrives
  <2> QED BY <1>4, <2>3, <2>4, <2>5 DEF AccountsInv, ListArrives, stillUnderWay
<1>5. CASE ListFails(k)
  <2>1. [notAsked(lists[k]) EXCEPT !.failed = TRUE] \in Asked
    BY <1>1 DEF Asked, AccountQuery
  <2>2. lists' \in [AccountKeys -> Asked]
    BY <1>5, <2>1 DEF ListFails, AccountsInv
  <2>3. shown' \in Shown
    BY <1>1, <1>2, <1>5 DEF ListFails
  <2> QED BY <1>5, <2>2, <2>3 DEF AccountsInv, ListFails, stillUnderWay
<1>6. CASE ListTryAgain(k)
  <2>1. lists' \in [AccountKeys -> Asked]
    BY <1>1, <1>6 DEF ListTryAgain, AccountsInv
  <2> QED BY <1>6, <2>1 DEF AccountsInv, ListTryAgain, stillUnderWay
<1> QED BY <1>3, <1>4, <1>5, <1>6

LEMMA CardStep ==
    ASSUME AccountsInv, NEW r \in RoleRequests, Grant(r) \/ StartDenying(r) \/ Raise(r)
    PROVE  AccountsInv' /\ stillUnderWay
<1>1. /\ <<"grant", r>> \in Pressable /\ <<"raise", r>> \in Pressable
      /\ roleAsked[r] \in HeldRoles /\ shown \in Shown
  BY AccountsAssumption DEF AccountsInv, Pressable
<1>2. /\ [shown EXCEPT !.refusal = Nobody] \in Shown /\ [shown EXCEPT !.denying = r] \in Shown
      /\ [shown EXCEPT !.raiseRefused = FALSE] \in Shown
  BY <1>1 DEF Shown
<1>3. CASE StartDenying(r)
  BY <1>2, <1>3 DEF AccountsInv, StartDenying, stillUnderWay
<1>4. CASE Grant(r)
  <2>1. pressed' \in [Pressable -> {Nobody} \cup UnderWay] /\ stillUnderWay
    BY <1>1, <1>4, RequestStarts DEF Grant
  <2> QED BY <1>2, <1>4, <2>1 DEF AccountsInv, Grant
<1>5. CASE Raise(r)
  <2>1. pressed' \in [Pressable -> {Nobody} \cup UnderWay] /\ stillUnderWay
    BY <1>1, <1>5, RequestStarts DEF Raise
  <2> QED BY <1>2, <1>5, <2>1 DEF AccountsInv, Raise
<1> QED BY <1>3, <1>4, <1>5

LEMMA DenialStep ==
    ASSUME AccountsInv, StopDenying \/ \E reasonGiven \in BOOLEAN : Deny(reasonGiven)
    PROVE  AccountsInv' /\ stillUnderWay
<1>1. shown \in Shown /\ (shown.denying # Nobody => shown.denying \in RoleRequests)
  BY DEF AccountsInv, Shown
<1>2. /\ [shown EXCEPT !.denying = Nobody, !.problem = FALSE, !.refusal = Nobody] \in Shown
      /\ [shown EXCEPT !.problem = FALSE, !.refusal = Nobody] \in Shown
      /\ [shown EXCEPT !.problem = TRUE] \in Shown
  BY <1>1 DEF Shown
<1>3. CASE StopDenying
  BY <1>2, <1>3 DEF AccountsInv, StopDenying, stillUnderWay
<1>4. ASSUME NEW reasonGiven \in BOOLEAN, Deny(reasonGiven)
      PROVE  AccountsInv' /\ stillUnderWay
  <2>1. CASE reasonGiven
    <3>1. <<"deny", shown.denying>> \in Pressable /\ roleAsked[shown.denying] \in HeldRoles
      BY <1>1, <1>4, AccountsAssumption DEF Deny, Pressable
    <3>2. pressed' \in [Pressable -> {Nobody} \cup UnderWay] /\ stillUnderWay
      BY <1>4, <2>1, <3>1, RequestStarts DEF Deny
    <3> QED BY <1>2, <1>4, <2>1, <3>2 DEF AccountsInv, Deny
  <2>2. CASE ~reasonGiven
    BY <1>2, <1>4, <2>2 DEF AccountsInv, Deny, stillUnderWay
  <2> QED BY <2>1, <2>2
<1> QED BY <1>3, <1>4

LEMMA RowStep ==
    ASSUME AccountsInv, NEW v \in Accounts, NEW role \in HeldRoles, ActOnViewer(v, role)
    PROVE  AccountsInv' /\ stillUnderWay
<1>1. <<"act", v>> \in Pressable /\ shown \in Shown
  BY DEF AccountsInv, Pressable
<1>2. [shown EXCEPT !.rowRefused = Nobody] \in Shown
  BY <1>1 DEF Shown
<1>3. pressed' \in [Pressable -> {Nobody} \cup UnderWay] /\ stillUnderWay
  BY <1>1, RequestStarts DEF ActOnViewer
<1> QED BY <1>2, <1>3 DEF AccountsInv, ActOnViewer

LEMMA ActServedStep ==
    ASSUME AccountsInv, NEW button \in Pressable, ActServed(button) \/ OthersMove(button)
    PROVE  AccountsInv' /\ stillUnderWay
<1>1. api \in Api
  BY DEF AccountsInv
<1>2. CASE OthersMove(button)
  <2>1. roleAsked[button[2]] \in HeldRoles
    BY <1>2, AccountsAssumption DEF OthersMove, Pressable
  <2>2. api' \in Api
    BY <1>1, <1>2, <2>1, WroteTyped DEF OthersMove
  <2> QED BY <1>2, <2>2 DEF AccountsInv, OthersMove, stillUnderWay
<1>3. CASE ActServed(button)
  <2>1. PICK s \in UnderWay : s = pressed[button] /\ s.role \in HeldRoles
    BY <1>3 DEF ActServed, AccountsInv, UnderWay, Pressed
  <2>2. CASE /\ api' = wrote(button, s.role)
             /\ \E answer \in {"done", "unanswered"} :
                   pressed' = [pressed EXCEPT ![button].answer = answer, ![button].answered = api']
    <3>1. PICK w \in Api : w = api'
      BY <1>1, <2>1, <2>2, WroteTyped
    <3>2. PICK answer \in {"done", "unanswered"} :
             pressed' = [pressed EXCEPT ![button].answer = answer, ![button].answered = w]
      BY <2>2, <3>1
    <3>3. [s EXCEPT !.answer = answer, !.answered = w] \in UnderWay
      BY DEF UnderWay, Pressed, Held
    <3>4. pressed' = [pressed EXCEPT ![button] = [s EXCEPT !.answer = answer, !.answered = w]]
      BY <2>1, <3>2 DEF AccountsInv
    <3>5. pressed' \in [Pressable -> {Nobody} \cup UnderWay] /\ stillUnderWay
      BY <3>3, <3>4, PressedChanges
    <3> QED BY <1>3, <3>1, <3>5 DEF AccountsInv, ActServed
  <2>3. CASE api' = api /\ \E answer \in {"refused", "unanswered"} :
                              pressed' = [pressed EXCEPT ![button].answer = answer]
    <3>1. PICK answer \in {"refused", "unanswered"} :
             pressed' = [pressed EXCEPT ![button].answer = answer]
      BY <2>3
    <3>2. [s EXCEPT !.answer = answer] \in UnderWay
      BY DEF UnderWay, Pressed
    <3>3. pressed' = [pressed EXCEPT ![button] = [s EXCEPT !.answer = answer]]
      BY <2>1, <3>1 DEF AccountsInv
    <3>4. pressed' \in [Pressable -> {Nobody} \cup UnderWay] /\ stillUnderWay
      BY <3>2, <3>3, PressedChanges
    <3> QED BY <1>3, <2>3, <3>4 DEF AccountsInv, ActServed
  <2> QED BY <1>3, <2>1, <2>2, <2>3 DEF ActServed
<1> QED BY <1>2, <1>3

LEMMA SettledStep ==
    ASSUME AccountsInv, NEW button \in Pressable, ActSettles(button)
    PROVE  AccountsInv' /\ stillUnderWay
<1>1. PICK s \in UnderWay : s = pressed[button]
  BY DEF ActSettles, AccountsInv
<1>2. pressed' \in [Pressable -> {Nobody} \cup UnderWay] /\ stillUnderWay
  <2>1. [s EXCEPT !.settled = TRUE] \in UnderWay
    BY DEF UnderWay, Pressed
  <2>2. pressed' = [pressed EXCEPT ![button] = [s EXCEPT !.settled = TRUE]]
    BY <1>1 DEF ActSettles, AccountsInv
  <2> QED BY <2>1, <2>2, PressedChanges
<1>3. lists' \in [AccountKeys -> Asked]
  <2>1. lists \in [AccountKeys -> Asked]
    BY DEF AccountsInv
  <2> QED BY <2>1, OutOfDateTyped DEF ActSettles, Pressable
<1>4. session' \in HeldRoles
  BY <1>1, AccountsAssumption DEF AccountsInv, ActSettles, UnderWay, Api
<1> QED BY <1>2, <1>3, <1>4 DEF AccountsInv, ActSettles

LEMMA HeardStep ==
    ASSUME AccountsInv, NEW button \in Pressable, DecisionHeard(button) \/ OtherActHeard(button)
    PROVE  AccountsInv'
<1>1. shown \in Shown /\ pressed' = [pressed EXCEPT ![button] = Nobody]
  BY DEF AccountsInv, DecisionHeard, OtherActHeard
<1>2. pressed' \in [Pressable -> {Nobody} \cup UnderWay]
  BY <1>1 DEF AccountsInv
<1>3. CASE DecisionHeard(button)
  <2>1. PICK r \in RoleRequests : r = button[2]
    BY <1>3 DEF DecisionHeard, Pressable
  <2>2. [shown EXCEPT !.refusal = r, !.denying = IF @ = r THEN Nobody ELSE @] \in Shown
    BY <1>1 DEF Shown
  <2>3. shown' \in Shown
    BY <1>1, <1>3, <2>1, <2>2 DEF DecisionHeard
  <2> QED BY <1>2, <1>3, <2>3 DEF AccountsInv, DecisionHeard
<1>4. CASE OtherActHeard(button)
  <2>1. [shown EXCEPT !.raiseRefused = TRUE] \in Shown
    BY <1>1 DEF Shown
  <2>2. button[1] # "raise" => button[2] \in Accounts
    BY <1>4 DEF OtherActHeard, Pressable
  <2>3. button[1] # "raise" => [shown EXCEPT !.rowRefused = button[2]] \in Shown
    BY <1>1, <2>2 DEF Shown
  <2>4. shown' \in Shown
    BY <1>1, <1>4, <2>1, <2>3 DEF OtherActHeard
  <2> QED BY <1>2, <1>4, <2>4 DEF AccountsInv, OtherActHeard
<1> QED BY <1>3, <1>4

LEMMA FormsStep ==
    ASSUME AccountsInv, NEW f \in FormNames,
           FormAnswered(f) \/ FormReopened(f) \/ \E passes \in BOOLEAN : SubmitForm(f, passes)
    PROVE  AccountsInv' /\ stillUnderWay
<1>1. forms' \in [FormNames -> {"open", "problem", "sending", "refused", "linkRefused", "done"}]
  BY DEF AccountsInv, FormAnswered, FormReopened, SubmitForm
<1> QED BY <1>1 DEF AccountsInv, FormAnswered, FormReopened, SubmitForm, stillUnderWay

LEMMA AccountsStep ==
    AccountsInv /\ [AccountsNext]_accountVars =>
        /\ AccountsInv'
        /\ stillUnderWay \/ \E b \in Pressable : DecisionHeard(b) \/ OtherActHeard(b)
<1> SUFFICES ASSUME AccountsInv, [AccountsNext]_accountVars
             PROVE  /\ AccountsInv'
                    /\ stillUnderWay \/ \E b \in Pressable : DecisionHeard(b) \/ OtherActHeard(b)
  OBVIOUS
<1>1. CASE UNCHANGED accountVars
  BY <1>1 DEF accountVars, AccountsInv, stillUnderWay
<1>2. CASE \E p \in Places : Go(p)
  BY <1>2, GoStep
<1>3. CASE \E k \in AccountKeys :
              ListAnswered(k) \/ ListArrives(k) \/ ListFails(k) \/ ListTryAgain(k)
  BY <1>3, ListStep
<1>4. CASE \E r \in RoleRequests : Grant(r) \/ StartDenying(r) \/ Raise(r)
  BY <1>4, CardStep
<1>5. CASE StopDenying \/ \E reasonGiven \in BOOLEAN : Deny(reasonGiven)
  BY <1>5, DenialStep
<1>6. CASE \E v \in Accounts, role \in HeldRoles : ActOnViewer(v, role)
  BY <1>6, RowStep
<1>7. CASE \E b \in Pressable : ActServed(b) \/ OthersMove(b)
  BY <1>7, ActServedStep
<1>8. CASE \E b \in Pressable : ActSettles(b)
  BY <1>8, SettledStep
<1>9. CASE \E b \in Pressable : DecisionHeard(b) \/ OtherActHeard(b)
  BY <1>9, HeardStep
<1>10. CASE \E f \in FormNames :
               FormAnswered(f) \/ FormReopened(f) \/ \E passes \in BOOLEAN : SubmitForm(f, passes)
  BY <1>10, FormsStep
<1> QED BY <1>1, <1>2, <1>3, <1>4, <1>5, <1>6, <1>7, <1>8, <1>9, <1>10 DEF AccountsNext

LEMMA AccountsInvariance == AccountsSpec => []AccountsInv
BY AccountsInvInit, AccountsStep, PTL DEF AccountsSpec

(* The lists, the dialog and the session hold what they are declared to: what
   a list or the session takes from an answer is of what the API held. *)
THEOREM AccountsTypeCorrect == AccountsSpec => []AccountsTypeOK
<1>1. AccountsInv => AccountsTypeOK
  BY DEF AccountsInv, AccountsTypeOK, Asked, AccountQuery, UnderWay, Shown
<1> QED BY <1>1, AccountsInvariance, PTL

(* A decision leaves the buttons only by being heard, and if it was refused or
   lost while its queue is up, the queue tells which: no answer to another act
   and no list that arrives can take it away unheard. *)
THEOREM RefusalsAreTold == AccountsSpec => RefusedDecisionsAreTold
<1> DEFINE Told == \A r \in RoleRequests, act \in {"grant", "deny"} :
          LET s == pressed[<<act, r>>]
          IN  s # Nobody /\ s.here /\ s.answer \in {"refused", "unanswered"}
              /\ pressed'[<<act, r>>] = Nobody
              => shown'.refusal = r
<1>1. ASSUME AccountsInv, [AccountsNext]_accountVars,
             NEW r \in RoleRequests, NEW act \in {"grant", "deny"}, NEW s, s = pressed[<<act, r>>],
             s # Nobody, s.here, s.answer \in {"refused", "unanswered"},
             pressed'[<<act, r>>] = Nobody
      PROVE  shown'.refusal = r
  <2>1. <<act, r>> \in Pressable
    BY DEF Pressable
  <2>2. PICK b \in Pressable : DecisionHeard(b) \/ OtherActHeard(b)
    BY <1>1, <2>1, AccountsStep DEF stillUnderWay
  <2>3. b = <<act, r>>
    BY <1>1, <2>1, <2>2 DEF DecisionHeard, OtherActHeard, AccountsInv
  <2>4. DecisionHeard(b) /\ b[2] = r
    BY <2>2, <2>3 DEF OtherActHeard
  <2>5. shown' = [shown EXCEPT !.refusal = r, !.denying = IF @ = r THEN Nobody ELSE @]
    BY <1>1, <2>3, <2>4 DEF DecisionHeard, tellsRefusal
  <2> QED BY <1>1, <2>5 DEF AccountsInv, Shown
<1>2. AccountsInv /\ [AccountsNext]_accountVars => [Told]_accountVars
  BY <1>1
<1> QED BY <1>2, AccountsInvariance, PTL DEF AccountsSpec, RefusedDecisionsAreTold
=============================================================================
