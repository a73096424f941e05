--------------------------- MODULE QuestionsProofs ---------------------------
(***************************************************************************)
(* Theorems of Questions, for any set of Viewers, Questions, texts and     *)
(* concurrent requests.                                                    *)
(***************************************************************************)
EXTENDS Questions, TLAPS

-----------------------------------------------------------------------------
(* What a request has in hand at each point of its handler: among the rest, a
   Question that is there. *)
inHand(rows, R) ==
    /\ R.pc # "idle" => R.viewer \in Viewer /\ R.ask \in Ask
    /\ R.pc \in {"lookup", "commit", "save", "remove"} => R.ask.act # "add"
    /\ R.pc \in {"detect", "refuse"} => R.ask.act \in {"add", "edit", "publish"}
    /\ R.pc = "write" => R.ask.act \in {"add", "edit"} \cup ChangeActs
    /\ R.pc = "commit" => R.ask.act \in {"edit"} \cup ChangeActs /\ R.before \in Row
    /\ R.pc \in {"detect", "refuse", "write", "commit"} /\ R.ask.act # "add"
          => R.seen \in Row
    /\ R.pc \notin {"idle", "lookup"} /\ R.ask.act # "add"
          => rows[R.ask.question] # None
    /\ R.pc = "save" => R.ask.act = "upvote"
    /\ R.pc = "refuse" => R.found # {}

HandsOK == \A r \in Requests : inHand(questions, req[r])

(* An Ask names a Question exactly when it is not an addition, and carries a
   whole Question when it is. *)
LEMMA AskFacts ==
    ASSUME NEW a \in Ask
    PROVE  /\ a.act \in Acts
           /\ a.confirmed \in BOOLEAN
           /\ a.reason \in {None} \cup Reasons
           /\ a.act # "add" => a.question \in QuestionIds
           /\ a.act = "add" => /\ a.question = None
                              /\ a.text \in Texts
                              /\ a.notes \in Notes
                              /\ a.clients \in SUBSET Clients
           /\ a.text \in {None} \cup Texts
           /\ a.notes \in {None} \cup Notes
           /\ a.clients \in {None} \cup SUBSET Clients
BY DEF Ask

LEMMA RowIsNotNone == None \notin Row
BY NoneAssumption

(* What an edit, a change and an addition leave is a row. *)
LEMMA RowFacts ==
    ASSUME NEW a \in Ask
    PROVE  /\ \A row \in Row : edited(row, a) \in Row
           /\ a.act \in ChangeActs => \A row \in Row : changed(row, a) \in Row
           /\ a.act = "add" => \A viewer \in Viewer : addedRow(viewer, a) \in Row
<1>1. ASSUME NEW row \in Row PROVE edited(row, a) \in Row
  BY AskFacts DEF edited, given, Row
<1>2. ASSUME a.act \in ChangeActs, NEW row \in Row PROVE changed(row, a) \in Row
  BY <1>2, AskFacts DEF changed, leaves, Row, PublicationStates, ChangeActs
<1>3. ASSUME a.act = "add", NEW viewer \in Viewer PROVE addedRow(viewer, a) \in Row
  BY <1>3, AskFacts DEF addedRow, Row, PublicationStates, Viewer
<1> QED BY <1>1, <1>2, <1>3

(* What a transaction records is an entry of the log. *)
LEMMA EntryFacts ==
    ASSUME NEW a \in Ask, NEW viewer \in Viewer, NEW found \in SUBSET NearDuplicate
    PROVE  /\ refusedEntry(viewer, a, found) \in Entry
           /\ \A q \in QuestionIds :
                /\ a.act = "add" => addedEntry(q, viewer, a, found) \in Entry
                /\ a.act \in ChangeActs => changedEntry(q, viewer, a, found) \in Entry
                /\ \A before, after \in Row :
                      editedEntry(q, viewer, before, after, found) \in Entry
<1>1. refusedEntry(viewer, a, found) \in Entry
  BY AskFacts DEF refusedEntry, entry, Entry, Viewer, Acts
<1>2. ASSUME NEW q \in QuestionIds, a.act = "add"
      PROVE  addedEntry(q, viewer, a, found) \in Entry
  BY <1>2, AskFacts DEF addedEntry, entry, Entry, Viewer, Content
<1>3. ASSUME NEW q \in QuestionIds, a.act \in ChangeActs
      PROVE  changedEntry(q, viewer, a, found) \in Entry
  BY <1>3, AskFacts DEF changedEntry, eventOf, entry, Entry, Viewer, ChangeActs, MovingTypes
<1>4. ASSUME NEW q \in QuestionIds, NEW before \in Row, NEW after \in Row
      PROVE  editedEntry(q, viewer, before, after, found) \in Entry
  <2>1. ContentOf(before) \in Content /\ ContentOf(after) \in Content
    BY DEF ContentOf, Content, Row
  <2> QED BY <2>1 DEF editedEntry, entry, Entry, Viewer, Row
<1> QED BY <1>1, <1>2, <1>3, <1>4

-----------------------------------------------------------------------------
(* Types *)

Typed == TypeOK /\ HandsOK

LEMMA IdleFacts == Idle \in Request /\ \A rows : inHand(rows, Idle)
BY DEF Idle, Request, inHand

(* Detection answers a set of Near-Duplicates. *)
LEMMA FoundFacts ==
    ASSUME NEW rows \in [QuestionIds -> {None} \cup Row], NEW text, NEW states,
           NEW excluding,
           NEW F \in findNearDuplicatesAmong(rows, text, states, excluding)
    PROVE  F \in SUBSET NearDuplicate
<1>1. nearDuplicates(rows, text, states, excluding) \in SUBSET NearDuplicate
  <2> SUFFICES ASSUME NEW q \in QuestionIds, rows[q] # None
               PROVE  [question |-> q, text |-> rows[q].text] \in NearDuplicate
    BY DEF nearDuplicates
  <2>1. rows[q] \in Row
    OBVIOUS
  <2> QED BY <2>1 DEF Row, NearDuplicate
<1> QED BY <1>1 DEF findNearDuplicatesAmong

(* A step of one request, which takes no Question away, is fine when that
   request has in hand what it should. *)
LEMMA OneRequest ==
    ASSUME Typed, NEW r \in Requests, NEW R \in Request, inHand(questions', R),
           req' = [req EXCEPT ![r] = R],
           \A q \in QuestionIds : questions[q] # None => questions'[q] # None
    PROVE  req' \in [Requests -> Request] /\ HandsOK'
<1> USE DEF Typed, TypeOK
<1>1. req' \in [Requests -> Request]
  OBVIOUS
<1>2. ASSUME NEW s \in Requests, s # r PROVE inHand(questions', req[s])
  <2>1. inHand(questions, req[s])
    BY DEF HandsOK
  <2>2. req[s].pc # "idle" /\ req[s].ask.act # "add" => req[s].ask.question \in QuestionIds
    BY <2>1, AskFacts DEF inHand
  <2> QED BY <2>1, <2>2 DEF inHand
<1> QED BY <1>1, <1>2 DEF HandsOK

LEMMA TypedInit == Init => Typed
BY IdleFacts, RolesAssumption DEF Init, Typed, TypeOK, HandsOK, Entry

LEMMA TypedStep == Typed /\ [Next]_vars => Typed'
<1> SUFFICES ASSUME Typed, [Next]_vars PROVE Typed'
  OBVIOUS
<1> USE DEF Typed
<1>1. ASSUME NEW r \in Requests, NEW v \in Viewers, NEW a \in Asks, Authenticate(r, v, a)
      PROVE  Typed'
  <2> DEFINE R == [Idle EXCEPT !.pc = IF a.act = "add" THEN "detect" ELSE "lookup",
                               !.viewer = [id |-> v, role |-> role[v]], !.ask = a]
  <2>1. a \in Ask /\ [id |-> v, role |-> role[v]] \in Viewer
    BY AsksAssumption DEF TypeOK, Viewer
  <2>2. R \in Request /\ inHand(questions', R)
    BY <2>1 DEF Idle, Request, inHand
  <2>3. req' = [req EXCEPT ![r] = R]
    BY <1>1 DEF Authenticate
  <2> HIDE DEF R
  <2>4. req' \in [Requests -> Request] /\ HandsOK'
    BY <1>1, <2>2, <2>3, OneRequest DEF Authenticate
  <2> QED BY <1>1, <2>4 DEF Authenticate, TypeOK
<1>2. ASSUME NEW r \in Requests, LookUp(r) PROVE Typed'
  <2> DEFINE row == questions[req[r].ask.question]
             R == [req[r] EXCEPT !.pc = afterLookUp(req[r].ask.act), !.seen = row]
  <2>1. /\ req[r] \in Request /\ inHand(questions, req[r])
        /\ req[r].ask \in Ask /\ req[r].ask.act # "add"
    BY <1>2 DEF LookUp, TypeOK, HandsOK, inHand
  <2>2. row \in Row
    BY <1>2, <2>1, AskFacts DEF LookUp, allowed, TypeOK
  <2>3. R \in Request /\ inHand(questions', R)
    BY <1>2, <2>1, <2>2, AskFacts, RowIsNotNone
       DEF LookUp, afterLookUp, Request, inHand, Acts, ChangeActs
  <2>4. req' = [req EXCEPT ![r] = R]
    BY <1>2, <2>1 DEF LookUp, TypeOK
  <2> HIDE DEF R
  <2>5. req' \in [Requests -> Request] /\ HandsOK'
    BY <1>2, <2>3, <2>4, OneRequest DEF LookUp
  <2> QED BY <1>2, <2>5 DEF LookUp, TypeOK
<1>3. ASSUME NEW r \in Requests, finish(r),
             \A q \in QuestionIds : questions[q] # None => questions'[q] # None
      PROVE  req' \in [Requests -> Request] /\ HandsOK'
  BY <1>3, IdleFacts, OneRequest DEF finish
<1>4. ASSUME NEW r \in Requests, Detect(r) PROVE Typed'
  <2>1. /\ req[r] \in Request /\ inHand(questions, req[r]) /\ req[r].ask \in Ask
        /\ req[r].ask.act \in {"add", "edit", "publish"}
        /\ req[r].ask.act # "add" => req[r].seen \in Row
    BY <1>4 DEF Detect, TypeOK, HandsOK, inHand
  <2> DEFINE found == IF needsCheck(req[r].seen, req[r].ask)
                      THEN findNearDuplicatesAmong(questions,
                                checkedText(req[r].seen, req[r].ask),
                                reach(req[r].ask), req[r].ask.question)
                      ELSE {{}}
  <2>a. \A F \in found : F \in SUBSET NearDuplicate
    BY FoundFacts DEF TypeOK
  <2>b. PICK F \in found :
           req' = [req EXCEPT ![r].pc = IF F = {} \/ req[r].ask.confirmed
                                        THEN "write" ELSE "refuse",
                              ![r].found = F]
    BY <1>4, Zenon DEF Detect
  <2> HIDE DEF found
  <2>2. F \in SUBSET NearDuplicate
    BY <2>a, <2>b
  <2> DEFINE R == [req[r] EXCEPT !.pc = IF F = {} \/ req[r].ask.confirmed
                                        THEN "write" ELSE "refuse",
                                 !.found = F]
  <2>3. R \in Request /\ inHand(questions', R)
    BY <1>4, <2>1, <2>2 DEF Detect, Request, inHand, ChangeActs
  <2>4. req' = [req EXCEPT ![r] = R]
    BY <2>1, <2>b DEF TypeOK
  <2> HIDE DEF R
  <2>5. req' \in [Requests -> Request] /\ HandsOK'
    BY <1>4, <2>3, <2>4, OneRequest DEF Detect
  <2> QED BY <1>4, <2>5 DEF Detect, TypeOK
<1>5. ASSUME NEW r \in Requests, LockQuestion(r) PROVE Typed'
  <2> DEFINE q == req[r].ask.question
             g == req[r].ask.act = "publish" /\ authorsUpvote(r) \notin upvotes
             R == [req[r] EXCEPT !.pc = "commit", !.before = questions[q], !.gives = g]
  <2>1. /\ req[r] \in Request /\ inHand(questions, req[r]) /\ req[r].ask \in Ask
        /\ req[r].ask.act # "add" /\ req[r].ask.act \in {"edit"} \cup ChangeActs
        /\ req[r].seen \in Row
    BY <1>5 DEF LockQuestion, TypeOK, HandsOK, inHand
  <2>2. questions[q] \in Row
    BY <1>5, <2>1, AskFacts DEF LockQuestion, TypeOK, inHand
  <2>3. R \in Request /\ inHand(questions', R)
    BY <1>5, <2>1, <2>2 DEF LockQuestion, Request, inHand
  <2>4. req' = [req EXCEPT ![r] = R]
    BY <1>5, <2>1 DEF LockQuestion, TypeOK
  <2> HIDE DEF R
  <2>5. req' \in [Requests -> Request] /\ HandsOK'
    BY <1>5, <2>3, <2>4, OneRequest DEF LockQuestion
  <2> QED BY <1>5, <2>5 DEF LockQuestion, TypeOK
<1>6. ASSUME NEW r \in Requests, RecordRefusal(r) PROVE Typed'
  <2>1. /\ req[r] \in Request /\ req[r].ask \in Ask /\ req[r].viewer \in Viewer
        /\ req[r].found \in SUBSET NearDuplicate
    BY <1>6 DEF RecordRefusal, TypeOK, HandsOK, inHand, Request
  <2>2. refusedEntry(req[r].viewer, req[r].ask, req[r].found) \in Entry
    BY <2>1, EntryFacts
  <2> QED BY <1>3, <1>6, <2>2 DEF RecordRefusal, TypeOK
<1>7. ASSUME NEW r \in Requests, NEW q \in QuestionIds, InsertQuestion(r, q) PROVE Typed'
  <2>1. /\ req[r] \in Request /\ req[r].ask \in Ask /\ req[r].viewer \in Viewer
        /\ req[r].found \in SUBSET NearDuplicate
    BY <1>7 DEF InsertQuestion, TypeOK, HandsOK, inHand, Request
  <2>2. addedRow(req[r].viewer, req[r].ask) \in Row
    BY <1>7, <2>1, RowFacts DEF InsertQuestion
  <2>3. addedEntry(q, req[r].viewer, req[r].ask, req[r].found) \in Entry
    BY <1>7, <2>1, EntryFacts DEF InsertQuestion
  <2>4. \A p \in QuestionIds : questions[p] # None => questions'[p] # None
    BY <1>7 DEF InsertQuestion, TypeOK
  <2> QED BY <1>3, <1>7, <2>2, <2>3, <2>4 DEF InsertQuestion, TypeOK
<1>8. ASSUME NEW r \in Requests, CommitEdit(r) \/ CommitChange(r) PROVE Typed'
  <2> DEFINE q == req[r].ask.question
  <2>1. /\ req[r] \in Request /\ req[r].ask \in Ask /\ req[r].viewer \in Viewer
        /\ req[r].found \in SUBSET NearDuplicate
        /\ req[r].before \in Row /\ req[r].ask.act \in {"edit"} \cup ChangeActs
        /\ q \in QuestionIds /\ questions[q] # None
    BY <1>8, AskFacts DEF CommitEdit, CommitChange, TypeOK, HandsOK, inHand, Request
  <2>2. questions[q] \in Row
    BY <2>1 DEF TypeOK
  <2>3. CASE CommitEdit(r)
    <3>1. edited(questions[q], req[r].ask) \in Row
      BY <2>1, <2>2, RowFacts
    <3> DEFINE e == editedEntry(q, req[r].viewer, req[r].before,
                                edited(questions[q], req[r].ask), req[r].found)
    <3>0. e \in Entry
      BY <2>1, <3>1, EntryFacts
    <3>2. log' \in Seq(Entry)
      <4>1. log' = log \/ log' = Append(log, e)
        BY <2>3 DEF CommitEdit
      <4> HIDE DEF e
      <4> QED BY <3>0, <4>1 DEF TypeOK
    <3>3. /\ questions' \in [QuestionIds -> {None} \cup Row]
          /\ \A p \in QuestionIds : questions[p] # None => questions'[p] # None
      BY <2>1, <2>3, <3>1, RowIsNotNone DEF CommitEdit, TypeOK
    <3> QED BY <1>3, <2>3, <3>2, <3>3 DEF CommitEdit, TypeOK
  <2>4. CASE CommitChange(r)
    <3>1. changed(questions[q], req[r].ask) \in Row
      BY <2>1, <2>2, <2>4, RowFacts DEF CommitChange
    <3> DEFINE e == changedEntry(q, req[r].viewer, req[r].ask, req[r].found)
    <3>0. e \in Entry
      BY <2>1, <2>4, EntryFacts DEF CommitChange
    <3>2. log' \in Seq(Entry)
      <4>1. log' = Append(log, e)
        BY <2>4 DEF CommitChange
      <4> HIDE DEF e
      <4> QED BY <3>0, <4>1 DEF TypeOK
    <3>3. /\ questions' \in [QuestionIds -> {None} \cup Row]
          /\ \A p \in QuestionIds : questions[p] # None => questions'[p] # None
      BY <2>1, <2>4, <3>1, RowIsNotNone DEF CommitChange, TypeOK
    <3>4. upvotes' \subseteq QuestionIds \X Viewers
      BY <2>1, <2>2, <2>4 DEF CommitChange, TypeOK, authorsUpvote, Row
    <3> QED BY <1>3, <2>4, <3>2, <3>3, <3>4 DEF CommitChange, TypeOK
  <2> QED BY <1>8, <2>3, <2>4
<1>9. ASSUME NEW r \in Requests, SaveUpvote(r) \/ RemoveUpvote(r) PROVE Typed'
  <2>1. req[r].ask.question \in QuestionIds /\ req[r].viewer.id \in Viewers
    BY <1>9, AskFacts DEF SaveUpvote, RemoveUpvote, TypeOK, HandsOK, inHand, Viewer
  <2> QED BY <1>3, <1>9, <2>1 DEF SaveUpvote, RemoveUpvote, TypeOK
<1>10. ASSUME NEW r \in Requests, LookUpRefused(r) \/ WriteRefused(r) \/ Abort(r)
       PROVE  Typed'
  BY <1>3, <1>10 DEF LookUpRefused, WriteRefused, Abort, TypeOK
<1>11. ASSUME NEW change \in RoleChanges, SetRole(change[1], change[2]) PROVE Typed'
  <2>1. change[1] \in Viewers /\ change[2] \in Roles
    BY <1>11, RolesAssumption
  <2> QED BY <1>11, <2>1 DEF SetRole, TypeOK, HandsOK
<1>12. CASE UNCHANGED vars
  BY <1>12 DEF vars, TypeOK, HandsOK
<1> QED BY <1>1, <1>2, <1>4, <1>5, <1>6, <1>7, <1>8, <1>9, <1>10, <1>11, <1>12
        DEF Next, Step

(* Every variable keeps its type, and every request has in hand what the step
   it is at reads: every table keeps its shape whatever is asked of it. *)
THEOREM TypeCorrect == Spec => [](TypeOK /\ HandsOK)
<1>1. Init => Typed
  BY TypedInit
<1>2. Typed /\ [Next]_vars => Typed'
  BY TypedStep
<1> QED BY <1>1, <1>2, PTL DEF Spec, Typed
=============================================================================
