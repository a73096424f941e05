-------------------------- MODULE QuestionBankProofs --------------------------
(***************************************************************************)
(* Questions implements QuestionBank, for any set of Viewers, Questions,   *)
(* texts and concurrent requests: what each request was allowed when it    *)
(* looked is still allowed when it writes, the log about a Question,       *)
(* replayed, gives its row though separate statements write the two, and a *)
(* comparison holds while no other act on a text is under way.             *)
(***************************************************************************)
EXTENDS QuestionsProofs, FiniteSetTheorems

-----------------------------------------------------------------------------
(* What a request may still do *)

wasPublished(L, q) ==
    \E i \in 1..Len(L) : L[i].type = "question_published" /\ L[i].question = q

(* What a request decided by an earlier read holds of the rows and the log as
   they are: its act is still its Viewer's to do, the row it locked is the row
   there is, and what it upvotes was in the bank. *)
entitled(rows, L, R) ==
    /\ R.pc # "idle" => R.ask \in Asks
    /\ R.found \in Bank!named
    /\ R.pc # "idle" /\ R.ask.act = "add" => mayAddAQuestion(R.viewer)
    /\ R.pc \in {"detect", "write", "commit"} /\ R.ask.act # "add"
          => may(R.viewer, rows[R.ask.question], R.ask.act)
    /\ R.pc = "commit" =>
          /\ R.before = rows[R.ask.question]
          /\ R.ask.act # "edit" => R.before.state = startsFrom(R.ask.act)
          /\ R.gives => R.ask.act = "publish"
    /\ R.pc = "save" => wasPublished(L, R.ask.question)

EntitledOK == \A r \in Requests : entitled(questions, log, req[r])

OneWriter ==
    \A r, s \in Requests :
        /\ req[r].pc = "commit" /\ req[s].pc = "commit"
        /\ req[r].ask.question = req[s].ask.question
        => r = s

PublishedRecorded ==
    \A q \in QuestionIds :
        questions[q] # None /\ questions[q].state = "published" => wasPublished(log, q)

Entitled == Typed /\ EntitledOK /\ OneWriter /\ PublishedRecorded

-----------------------------------------------------------------------------
(* The serial bank uses the rules the API uses. *)

LEMMA SameRules ==
    /\ Bank!Viewer = Viewer
    /\ Bank!NearDuplicate = NearDuplicate
    /\ Bank!ChangeActs = ChangeActs
    /\ \A viewer : Bank!mayAddAQuestion(viewer) <=> mayAddAQuestion(viewer)
    /\ \A viewer, row : Bank!mayEdit(viewer, row) <=> mayEdit(viewer, row)
    /\ \A viewer, row, act : Bank!may(viewer, row, act) <=> may(viewer, row, act)
    /\ \A act : Bank!startsFrom(act) = startsFrom(act)
    /\ \A row, a : Bank!edited(row, a) = edited(row, a)
    /\ \A row, a : Bank!changed(row, a) = changed(row, a)
    /\ \A viewer, a : Bank!addedRow(viewer, a) = addedRow(viewer, a)
<1>1. Bank!Viewer = Viewer
  BY DEF Bank!Viewer, Viewer, Bank!Roles, Roles
<1>2. Bank!NearDuplicate = NearDuplicate /\ Bank!ChangeActs = ChangeActs
  BY DEF Bank!NearDuplicate, NearDuplicate, Bank!ChangeActs, ChangeActs
<1>3. /\ \A viewer : Bank!mayAddAQuestion(viewer) <=> mayAddAQuestion(viewer)
      /\ \A viewer, row : Bank!mayEdit(viewer, row) <=> mayEdit(viewer, row)
  BY DEF Bank!mayAddAQuestion, mayAddAQuestion, Bank!mayEdit, mayEdit
<1>4. \A viewer, row, act : Bank!may(viewer, row, act) <=> may(viewer, row, act)
  BY <1>3 DEF Bank!may, may, Bank!mayPublish, mayPublish, Bank!mayResubmit, mayResubmit
<1>5. \A act : Bank!startsFrom(act) = startsFrom(act) /\ Bank!leaves(act) = leaves(act)
  BY DEF Bank!startsFrom, startsFrom, Bank!leaves, leaves
<1>6. \A row, a : Bank!edited(row, a) = edited(row, a)
  BY DEF Bank!edited, edited, Bank!given, given
<1>7. \A row, a : Bank!changed(row, a) = changed(row, a)
  BY <1>5 DEF Bank!changed, changed
<1>8. \A viewer, a : Bank!addedRow(viewer, a) = addedRow(viewer, a)
  BY DEF Bank!addedRow, addedRow
<1> QED BY <1>1, <1>2, <1>3, <1>4, <1>5, <1>6, <1>7, <1>8

LEMMA SameEntries ==
    /\ \A q, viewer, a, found :
          /\ Bank!addedEntry(q, viewer, a, found) = addedEntry(q, viewer, a, found)
          /\ Bank!changedEntry(q, viewer, a, found) = changedEntry(q, viewer, a, found)
    /\ \A viewer, a, found :
          Bank!refusedEntry(viewer, a, found) = refusedEntry(viewer, a, found)
    /\ \A q, viewer, before, after, found :
          Bank!editedEntry(q, viewer, before, after, found)
            = editedEntry(q, viewer, before, after, found)
<1>1. \A type, q, viewer : Bank!entry(type, q, viewer) = entry(type, q, viewer)
  BY DEF Bank!entry, entry
<1>2. \A act : Bank!eventOf(act) = eventOf(act)
  BY DEF Bank!eventOf, eventOf
<1>3. \A row : Bank!ContentOf(row) = ContentOf(row)
  BY DEF Bank!ContentOf, ContentOf
<1>4. \A q, viewer, a, found :
          /\ Bank!addedEntry(q, viewer, a, found) = addedEntry(q, viewer, a, found)
          /\ Bank!changedEntry(q, viewer, a, found) = changedEntry(q, viewer, a, found)
  BY <1>1, <1>2 DEF Bank!addedEntry, addedEntry, Bank!changedEntry, changedEntry
<1>5. \A viewer, a, found :
          Bank!refusedEntry(viewer, a, found) = refusedEntry(viewer, a, found)
  BY <1>1 DEF Bank!refusedEntry, refusedEntry
<1>6. \A q, viewer, before, after, found :
          Bank!editedEntry(q, viewer, before, after, found)
            = editedEntry(q, viewer, before, after, found)
  <2> TAKE q, viewer, before, after, found
  <2>1. CASE ContentOf(before) = ContentOf(after)
    BY <1>1, <1>3, <2>1 DEF Bank!editedEntry, editedEntry
  <2>2. CASE ContentOf(before) # ContentOf(after)
    BY <1>1, <1>3, <2>2 DEF Bank!editedEntry, editedEntry
  <2> QED BY <2>1, <2>2
<1> QED BY <1>4, <1>5, <1>6

LEMMA SameNamed ==
    Bank!named = {F \in SUBSET NearDuplicate : Cardinality(F) =< mostNearDuplicatesNamed}
<1>1. ASSUME NEW F PROVE Bank!Cardinality(F) = Cardinality(F)
  BY DEF Bank!Cardinality, Cardinality
<1> QED BY <1>1, SameRules DEF Bank!named

-----------------------------------------------------------------------------
(* What was decided stays decided *)

LEMMA IdleIsEntitled == \A rows, L : entitled(rows, L, Idle)
<1>1. {} \in Bank!named
  BY FS_EmptySet, NamedAssumption, SameNamed
<1> QED BY <1>1 DEF entitled, Idle

(* Who may do what to a Question depends on its Author and on nothing else of
   its row. *)
LEMMA RightsFollowTheAuthor ==
    ASSUME NEW row, NEW row2, row2.author = row.author, NEW viewer, NEW act
    PROVE  may(viewer, row, act) <=> may(viewer, row2, act)
BY DEF may, mayEdit, mayPublish, mayResubmit

(* No act changes the Author of a row. *)
LEMMA AuthorsStay ==
    ASSUME NEW row \in Row, NEW a
    PROVE  edited(row, a).author = row.author /\ changed(row, a).author = row.author
BY DEF edited, changed, Row

(* What an act that is recorded leaves of the log. *)
LEMMA LogGrows ==
    ASSUME NEW L \in Seq(Entry), NEW e \in Entry
    PROVE  /\ Append(L, e) # L
           /\ \A q : wasPublished(L, q) => wasPublished(Append(L, e), q)
           /\ \A q : e.type = "question_published" /\ e.question = q
                     => wasPublished(Append(L, e), q)
<1>1. /\ Append(L, e) \in Seq(Entry) /\ Len(L) \in Nat /\ Len(Append(L, e)) = Len(L) + 1
      /\ \A i \in 1..Len(L) : Append(L, e)[i] = L[i]
      /\ Append(L, e)[Len(L) + 1] = e
  OBVIOUS
<1> HIDE DEF Entry
<1>2. Append(L, e) # L
  BY <1>1
<1>3. \A q : wasPublished(L, q) => wasPublished(Append(L, e), q)
  BY <1>1 DEF wasPublished
<1>4. ASSUME NEW q, e.type = "question_published", e.question = q
      PROVE  wasPublished(Append(L, e), q)
  BY <1>1, <1>4 DEF wasPublished
<1> QED BY <1>2, <1>3, <1>4

(* A step of one request leaves the others what they may do, when it changes
   no Author, keeps its hands off the rows they locked, and only adds to the
   log. *)
LEMMA OthersKeepTheirRights ==
    ASSUME NEW rows, NEW rows2, NEW L, NEW L2, NEW R, inHand(rows, R),
           entitled(rows, L, R),
           \A q : rows[q] # None => rows2[q].author = rows[q].author,
           R.pc = "commit" => rows2[R.ask.question] = rows[R.ask.question],
           \A q : wasPublished(L, q) => wasPublished(L2, q)
    PROVE  entitled(rows2, L2, R)
<1>1. ASSUME R.pc \in {"detect", "write", "commit"}, R.ask.act # "add"
      PROVE  may(R.viewer, rows2[R.ask.question], R.ask.act)
  <2>1. rows[R.ask.question] # None /\ may(R.viewer, rows[R.ask.question], R.ask.act)
    BY <1>1 DEF inHand, entitled
  <2> QED BY <2>1, RightsFollowTheAuthor
<1> QED BY <1>1 DEF entitled

LEMMA OneRequestActs ==
    ASSUME Entitled, Typed', NEW r \in Requests, NEW R,
           entitled(questions', log', R), req' = [req EXCEPT ![r] = R],
           R.pc = "commit" => ~rowLocked(R.ask.question),
           \A q : questions[q] # None => questions'[q].author = questions[q].author,
           \A s \in Requests \ {r} : req[s].pc = "commit" =>
               questions'[req[s].ask.question] = questions[req[s].ask.question],
           \A q : wasPublished(log, q) => wasPublished(log', q),
           PublishedRecorded'
    PROVE  Entitled'
<1>0. req \in [Requests -> Request]
  BY DEF Entitled, Typed, TypeOK
<1>1. ASSUME NEW s \in Requests PROVE entitled(questions', log', req'[s])
  <2>1. CASE s = r
    BY <1>0, <2>1
  <2>2. CASE s # r
    <3>1. inHand(questions, req[s]) /\ entitled(questions, log, req[s]) /\ req'[s] = req[s]
      BY <1>0, <2>2 DEF Entitled, Typed, HandsOK, EntitledOK
    <3>2. req[s].pc = "commit" =>
              questions'[req[s].ask.question] = questions[req[s].ask.question]
      BY <2>2
    <3> QED BY <3>1, <3>2, OthersKeepTheirRights
  <2> QED BY <2>1, <2>2
<1>2. OneWriter'
  BY <1>0 DEF Entitled, OneWriter, rowLocked
<1> QED BY <1>1, <1>2 DEF Entitled, EntitledOK

(* A request that ends leaves the rows and the log to the others. *)
LEMMA OneRequestEnds ==
    ASSUME Entitled, Typed', NEW r \in Requests, finish(r),
           \A q : questions[q] # None => questions'[q].author = questions[q].author,
           \A s \in Requests \ {r} : req[s].pc = "commit" =>
               questions'[req[s].ask.question] = questions[req[s].ask.question],
           \A q : wasPublished(log, q) => wasPublished(log', q),
           PublishedRecorded'
    PROVE  Entitled'
<1>1. entitled(questions', log', Idle) /\ Idle.pc # "commit"
  BY IdleIsEntitled DEF Idle
<1> QED BY <1>1, OneRequestActs DEF finish

LEMMA FoundIsNamed ==
    ASSUME NEW rows \in [QuestionIds -> {None} \cup Row], NEW text, NEW states,
           NEW excluding,
           NEW F \in findNearDuplicatesAmong(rows, text, states, excluding)
    PROVE  F \in Bank!named
<1>1. F \in SUBSET NearDuplicate
  BY FoundFacts
<1>2. Cardinality(F) =< mostNearDuplicatesNamed
  BY NamedAssumption DEF findNearDuplicatesAmong
<1> QED BY <1>1, <1>2, SameNamed

(* What a request that is past its look-up has in hand. *)
LEMMA HandFacts ==
    ASSUME Entitled, NEW r \in Requests, req[r].pc \notin {"idle", "lookup"}
    PROVE  /\ req[r] \in Request /\ inHand(questions, req[r])
           /\ entitled(questions, log, req[r])
           /\ req[r].ask \in Ask /\ req[r].ask \in Asks /\ req[r].viewer \in Viewer
           /\ req[r].found \in SUBSET NearDuplicate /\ req[r].found \in Bank!named
           /\ req[r].ask.act # "add" => /\ req[r].ask.question \in QuestionIds
                                        /\ questions[req[r].ask.question] \in Row
<1>1. /\ req[r] \in Request /\ inHand(questions, req[r]) /\ entitled(questions, log, req[r])
      /\ questions \in [QuestionIds -> {None} \cup Row]
  BY DEF Entitled, Typed, TypeOK, HandsOK, EntitledOK
<1>2. req[r].ask \in Ask /\ req[r].viewer \in Viewer /\ req[r].ask \in Asks
  BY <1>1 DEF inHand, entitled
<1>3. req[r].found \in SUBSET NearDuplicate /\ req[r].found \in Bank!named
  BY <1>1 DEF Request, entitled
<1>4. ASSUME req[r].ask.act # "add"
      PROVE  req[r].ask.question \in QuestionIds /\ questions[req[r].ask.question] \in Row
  BY <1>1, <1>2, <1>4, AskFacts DEF inHand
<1> QED BY <1>1, <1>2, <1>3, <1>4

(* A commit finds the row as its transaction locked it, and nobody else is
   about to write that row. *)
LEMMA CommitFacts ==
    ASSUME Entitled, NEW r \in Requests, req[r].pc = "commit"
    PROVE  LET a == req[r].ask
           IN  /\ a.act \in {"edit"} \cup ChangeActs
               /\ req[r].before = questions[a.question]
               /\ may(req[r].viewer, questions[a.question], a.act)
               /\ a.act # "edit" => questions[a.question].state = startsFrom(a.act)
               /\ req[r].gives => a.act = "publish"
               /\ \A s \in Requests \ {r} :
                     req[s].pc = "commit" => req[s].ask.question # a.question
<1>1. inHand(questions, req[r]) /\ entitled(questions, log, req[r])
  BY HandFacts
<1>2. req[r].ask.act \in {"edit"} \cup ChangeActs /\ req[r].ask.act # "add"
  BY <1>1 DEF inHand
<1>3. \A s \in Requests \ {r} : req[s].pc = "commit" => req[s].ask.question # req[r].ask.question
  BY DEF Entitled, OneWriter
<1> QED BY <1>1, <1>2, <1>3 DEF entitled

LEMMA EntitledInit == Init => Entitled
<1> SUFFICES ASSUME Init PROVE Entitled
  OBVIOUS
<1>1. EntitledOK
  BY IdleIsEntitled DEF Init, EntitledOK
<1>2. OneWriter /\ PublishedRecorded
  BY DEF Init, OneWriter, PublishedRecorded, Idle
<1> QED BY <1>1, <1>2, TypedInit DEF Entitled

LEMMA EntitledStep == Entitled /\ [Next]_vars => Entitled'
<1> SUFFICES ASSUME Entitled, [Next]_vars PROVE Entitled'
  OBVIOUS
<1>0. /\ Typed' /\ req \in [Requests -> Request] /\ log \in Seq(Entry)
      /\ questions \in [QuestionIds -> {None} \cup Row]
      /\ PublishedRecorded
  BY TypedStep DEF Entitled, Typed, TypeOK
(* Steps of a request that leave rows and log alone. *)
<1>1. ASSUME questions' = questions, log' = log
      PROVE  /\ \A q : questions[q] # None => questions'[q].author = questions[q].author
             /\ \A s \in Requests :
                   questions'[req[s].ask.question] = questions[req[s].ask.question]
             /\ \A q : wasPublished(log, q) => wasPublished(log', q)
             /\ PublishedRecorded'
  BY <1>0, <1>1 DEF PublishedRecorded
<1>2. ASSUME NEW r \in Requests, NEW R, req' = [req EXCEPT ![r] = R],
             entitled(questions, log, R), questions' = questions, log' = log,
             R.pc = "commit" => ~rowLocked(R.ask.question)
      PROVE  Entitled'
  BY <1>0, <1>1, <1>2, OneRequestActs
<1>3. ASSUME NEW r \in Requests, NEW v \in Viewers, NEW a \in Asks, Authenticate(r, v, a)
      PROVE  Entitled'
  <2> DEFINE R == [Idle EXCEPT !.pc = IF a.act = "add" THEN "detect" ELSE "lookup",
                               !.viewer = [id |-> v, role |-> role[v]], !.ask = a]
  <2>1. entitled(questions, log, R) /\ R.pc # "commit"
    BY <1>3, IdleIsEntitled DEF Authenticate, entitled, Idle
  <2>2. req' = [req EXCEPT ![r] = R] /\ questions' = questions /\ log' = log
    BY <1>3 DEF Authenticate
  <2> HIDE DEF R
  <2> QED BY <1>2, <2>1, <2>2
<1>4. ASSUME NEW r \in Requests, LookUp(r) PROVE Entitled'
  <2> DEFINE row == questions[req[r].ask.question]
             R == [req[r] EXCEPT !.pc = afterLookUp(req[r].ask.act), !.seen = row]
  <2>1. /\ req[r] \in Request /\ inHand(questions, req[r]) /\ entitled(questions, log, req[r])
        /\ req[r].ask \in Ask /\ req[r].ask.act # "add" /\ req[r].ask.act \in Acts
        /\ req[r].ask.question \in QuestionIds
    BY <1>0, <1>4, AskFacts DEF LookUp, Entitled, EntitledOK, Typed, HandsOK, inHand
  <2>2. may(req[r].viewer, row, req[r].ask.act)
    BY <1>4 DEF LookUp, allowed
  <2>3. req[r].ask.act = "upvote" => wasPublished(log, req[r].ask.question)
    BY <1>0, <1>4, <2>1 DEF LookUp, allowed, PublishedRecorded
  <2>4. /\ afterLookUp(req[r].ask.act) \in {"detect", "write", "save", "remove"}
        /\ afterLookUp(req[r].ask.act) = "save" => req[r].ask.act = "upvote"
    BY <2>1 DEF afterLookUp, Acts, ChangeActs
  <2>5. entitled(questions, log, R) /\ R.pc # "commit"
    BY <1>4, <2>1, <2>2, <2>3, <2>4 DEF LookUp, entitled, Request
  <2>6. req' = [req EXCEPT ![r] = R] /\ questions' = questions /\ log' = log
    BY <1>4, <2>1 DEF LookUp
  <2> HIDE DEF R
  <2> QED BY <1>2, <2>5, <2>6
<1>5. ASSUME NEW r \in Requests, Detect(r) PROVE Entitled'
  <2>1. req[r].pc = "detect"
    BY <1>5 DEF Detect
  <2> DEFINE found == IF needsCheck(req[r].seen, req[r].ask)
                      THEN findNearDuplicatesAmong(questions,
                                checkedText(req[r].seen, req[r].ask),
                                reach(req[r].ask), req[r].ask.question)
                      ELSE {{}}
  <2>2. \A F \in found : F \in Bank!named
    BY <1>0, FoundIsNamed, IdleIsEntitled DEF entitled, Idle
  <2>3. PICK F \in found :
           req' = [req EXCEPT ![r].pc = IF F = {} \/ req[r].ask.confirmed
                                        THEN "write" ELSE "refuse",
                              ![r].found = F]
    BY <1>5, Zenon DEF Detect
  <2> HIDE DEF found
  <2> DEFINE R == [req[r] EXCEPT !.pc = IF F = {} \/ req[r].ask.confirmed
                                        THEN "write" ELSE "refuse",
                                 !.found = F]
  <2>4. entitled(questions, log, req[r]) /\ req[r] \in Request
    BY <2>1, HandFacts
  <2>5. entitled(questions, log, R) /\ R.pc # "commit"
    BY <2>1, <2>2, <2>4 DEF entitled, Request
  <2>6. req' = [req EXCEPT ![r] = R] /\ questions' = questions /\ log' = log
    BY <1>0, <1>5, <2>3 DEF Detect
  <2> HIDE DEF R
  <2> QED BY <1>2, <2>5, <2>6
<1>6. ASSUME NEW r \in Requests, LockQuestion(r) PROVE Entitled'
  <2> DEFINE q == req[r].ask.question
             g == req[r].ask.act = "publish" /\ authorsUpvote(r) \notin upvotes
             R == [req[r] EXCEPT !.pc = "commit", !.before = questions[q], !.gives = g]
  <2>1. /\ req[r] \in Request /\ inHand(questions, req[r]) /\ entitled(questions, log, req[r])
        /\ req[r].ask.act # "add"
    BY <1>6, HandFacts DEF LockQuestion
  <2>2. req[r].ask.act # "edit" => questions[q].state = startsFrom(req[r].ask.act)
    BY <1>6 DEF LockQuestion, stillWritable
  <2>3. entitled(questions, log, R) /\ R.ask.question = q
    BY <1>6, <2>1, <2>2 DEF LockQuestion, entitled, Request
  <2>4. /\ req' = [req EXCEPT ![r] = R] /\ questions' = questions /\ log' = log
        /\ ~rowLocked(q)
    BY <1>0, <1>6 DEF LockQuestion
  <2> HIDE DEF R
  <2> QED BY <1>2, <2>3, <2>4
<1>7. ASSUME NEW r \in Requests, finish(r), questions' = questions, log' = log PROVE Entitled'
  BY <1>0, <1>1, <1>7, OneRequestEnds
<1>8. ASSUME NEW r \in Requests, RecordRefusal(r) PROVE Entitled'
  <2>1. refusedEntry(req[r].viewer, req[r].ask, req[r].found) \in Entry
    BY <1>8, HandFacts, EntryFacts DEF RecordRefusal
  <2>2. \A q : wasPublished(log, q) => wasPublished(log', q)
    BY <1>0, <1>8, <2>1, LogGrows DEF RecordRefusal
  <2>3. PublishedRecorded' /\ questions' = questions /\ finish(r)
    BY <1>0, <1>8, <2>2 DEF RecordRefusal, PublishedRecorded
  <2> QED BY <1>0, <2>2, <2>3, OneRequestEnds
<1>9. ASSUME NEW r \in Requests, NEW q \in QuestionIds, InsertQuestion(r, q) PROVE Entitled'
  <2>1. /\ addedEntry(q, req[r].viewer, req[r].ask, req[r].found) \in Entry
        /\ req[r].pc = "write"
    BY <1>9, HandFacts, EntryFacts DEF InsertQuestion
  <2>2. \A p : wasPublished(log, p) => wasPublished(log', p)
    BY <1>0, <1>9, <2>1, LogGrows DEF InsertQuestion
  <2>3. /\ questions[q] = None /\ \A p : p # q => questions'[p] = questions[p]
        /\ questions'[q].state = "pending"
    BY <1>0, <1>9 DEF InsertQuestion, addedRow
  <2>4. \A p : questions[p] # None => questions'[p].author = questions[p].author
    BY <2>3
  <2>5. \A s \in Requests \ {r} : req[s].pc = "commit" =>
            questions'[req[s].ask.question] = questions[req[s].ask.question]
    <3> TAKE s \in Requests \ {r}
    <3> HAVE req[s].pc = "commit"
    <3>1. questions[req[s].ask.question] # None
      BY HandFacts DEF inHand
    <3> QED BY <2>3, <3>1
  <2>6. PublishedRecorded'
    BY <1>0, <2>2, <2>3 DEF PublishedRecorded
  <2> QED BY <1>0, <1>9, <2>2, <2>4, <2>5, <2>6, OneRequestEnds DEF InsertQuestion
<1>10. ASSUME NEW r \in Requests, CommitEdit(r) PROVE Entitled'
  <2> DEFINE q == req[r].ask.question
             after == edited(questions[q], req[r].ask)
             e == editedEntry(q, req[r].viewer, req[r].before, after, req[r].found)
  <2>1. /\ req[r].pc = "commit" /\ req[r].ask.act = "edit" /\ finish(r)
        /\ questions' = [questions EXCEPT ![q] = after]
        /\ log' = log \/ log' = Append(log, e)
    BY <1>10 DEF CommitEdit
  <2>2. /\ q \in QuestionIds /\ questions[q] \in Row /\ req[r].before \in Row
        /\ req[r].viewer \in Viewer /\ req[r].found \in SUBSET NearDuplicate
        /\ req[r].ask \in Ask
    BY <2>1, HandFacts DEF inHand
  <2>3. after \in Row /\ after.author = questions[q].author /\ after.state = questions[q].state
    BY <2>2, RowFacts DEF edited, Row
  <2>4. e \in Entry
    BY <2>2, <2>3, EntryFacts
  <2> HIDE DEF e
  <2>5. \A p : wasPublished(log, p) => wasPublished(log', p)
    BY <1>0, <2>1, <2>4, LogGrows
  <2>6. \A p : p # q => questions'[p] = questions[p]
    BY <1>0, <2>1
  <2>7. questions'[q] = after
    BY <1>0, <2>1, <2>2
  <2> HIDE DEF after
  <2>8. \A p : questions[p] # None => questions'[p].author = questions[p].author
    BY <2>3, <2>6, <2>7
  <2>9. \A s \in Requests \ {r} : req[s].pc = "commit" =>
            questions'[req[s].ask.question] = questions[req[s].ask.question]
    BY <2>1, <2>6, CommitFacts
  <2>10. PublishedRecorded'
    BY <1>0, <2>2, <2>3, <2>5, <2>6, <2>7, RowIsNotNone DEF PublishedRecorded
  <2> QED BY <1>0, <2>1, <2>5, <2>8, <2>9, <2>10, OneRequestEnds
<1>11. ASSUME NEW r \in Requests, CommitChange(r) PROVE Entitled'
  <2> DEFINE q == req[r].ask.question
             after == changed(questions[q], req[r].ask)
             e == changedEntry(q, req[r].viewer, req[r].ask, req[r].found)
  <2>1. /\ req[r].pc = "commit" /\ req[r].ask.act # "edit" /\ finish(r)
        /\ questions' = [questions EXCEPT ![q] = after]
        /\ log' = Append(log, e)
    BY <1>11 DEF CommitChange
  <2>2. /\ q \in QuestionIds /\ questions[q] \in Row /\ req[r].ask.act \in ChangeActs
        /\ req[r].viewer \in Viewer /\ req[r].found \in SUBSET NearDuplicate
        /\ req[r].ask \in Ask
    BY <2>1, HandFacts DEF inHand
  <2>3. /\ after.author = questions[q].author
        /\ after.state = "published" => req[r].ask.act = "publish"
    BY <2>2, AuthorsStay DEF changed, leaves, ChangeActs, Row
  <2>4. e \in Entry
    BY <2>2, EntryFacts
  <2>5. req[r].ask.act = "publish" => e.type = "question_published" /\ e.question = q
    BY <2>2 DEF changedEntry, entry, eventOf
  <2> HIDE DEF e
  <2>6. /\ \A p : wasPublished(log, p) => wasPublished(log', p)
        /\ req[r].ask.act = "publish" => wasPublished(log', q)
    BY <1>0, <2>1, <2>4, <2>5, LogGrows
  <2>7. questions'[q] = after /\ \A p : p # q => questions'[p] = questions[p]
    BY <1>0, <2>1, <2>2
  <2> HIDE DEF after
  <2>8. \A p : questions[p] # None => questions'[p].author = questions[p].author
    BY <2>3, <2>7
  <2>9. \A s \in Requests \ {r} : req[s].pc = "commit" =>
            questions'[req[s].ask.question] = questions[req[s].ask.question]
    BY <2>1, <2>7, CommitFacts
  <2>10. PublishedRecorded'
    BY <1>0, <2>3, <2>6, <2>7 DEF PublishedRecorded
  <2> QED BY <1>0, <2>1, <2>6, <2>8, <2>9, <2>10, OneRequestEnds
<1>12. ASSUME NEW r \in Requests,
              \/ LookUpRefused(r) \/ WriteRefused(r) \/ SaveUpvote(r) \/ RemoveUpvote(r)
              \/ Abort(r)
       PROVE  Entitled'
  BY <1>7, <1>12 DEF LookUpRefused, WriteRefused, SaveUpvote, RemoveUpvote, Abort
<1>13. ASSUME UNCHANGED <<questions, log, req>> PROVE Entitled'
  BY <1>0, <1>13 DEF Entitled, EntitledOK, OneWriter, PublishedRecorded
<1>14. ASSUME NEW change \in RoleChanges, SetRole(change[1], change[2]) PROVE Entitled'
  BY <1>13, <1>14 DEF SetRole
<1>15. CASE UNCHANGED vars
  BY <1>13, <1>15 DEF vars
<1> QED BY <1>3, <1>4, <1>5, <1>6, <1>8, <1>9, <1>10, <1>11, <1>12, <1>14, <1>15
        DEF Next, Step

-----------------------------------------------------------------------------
(* Every step is one step of the serial bank, or none *)

LEMMA BankStep == Entitled /\ [Next]_vars => [Bank!BankNext]_(Bank!bankVars)
<1> SUFFICES ASSUME Entitled, [Next]_vars PROVE [Bank!BankNext]_(Bank!bankVars)
  OBVIOUS
<1>0. log \in Seq(Entry) /\ questions \in [QuestionIds -> {None} \cup Row]
  BY DEF Entitled, Typed, TypeOK
<1>1. ASSUME UNCHANGED <<questions, log, upvotes>> PROVE UNCHANGED Bank!bankVars
  BY <1>1 DEF Bank!bankVars
<1>2. ASSUME NEW r \in Requests, RecordRefusal(r) PROVE Bank!BankNext
  <2>1. /\ req[r].ask \in Asks /\ req[r].ask \in Ask /\ req[r].viewer \in Viewer
        /\ req[r].found \in SUBSET NearDuplicate /\ req[r].found \in Bank!named
        /\ req[r].found # {} /\ req[r].ask.act \in {"add", "edit", "publish"}
    BY <1>2, HandFacts DEF RecordRefusal, inHand
  <2>2. log' = Append(log, refusedEntry(req[r].viewer, req[r].ask, req[r].found))
    BY <1>2 DEF RecordRefusal
  <2>3. log' # log
    BY <1>0, <2>1, <2>2, EntryFacts, LogGrows
  <2>4. Bank!Refuse(req[r].viewer, req[r].ask)
    BY <1>2, <2>1, <2>2, SameEntries DEF RecordRefusal, Bank!Refuse
  <2> QED BY <2>1, <2>3, <2>4, SameRules DEF Bank!BankNext
<1>3. ASSUME NEW r \in Requests, NEW q \in QuestionIds, InsertQuestion(r, q)
      PROVE  Bank!BankNext
  <2>1. /\ req[r].ask \in Asks /\ req[r].ask \in Ask /\ req[r].viewer \in Viewer
        /\ req[r].found \in SUBSET NearDuplicate /\ req[r].found \in Bank!named
        /\ req[r].ask.act = "add" /\ mayAddAQuestion(req[r].viewer)
    BY <1>3, HandFacts DEF InsertQuestion, entitled
  <2>2. log' = Append(log, addedEntry(q, req[r].viewer, req[r].ask, req[r].found))
    BY <1>3 DEF InsertQuestion
  <2>3. log' # log
    BY <1>0, <2>1, <2>2, EntryFacts, LogGrows
  <2>4. Bank!Add(q, req[r].viewer, req[r].ask)
    BY <1>3, <2>1, <2>2, SameRules, SameEntries DEF InsertQuestion, Bank!Add
  <2> QED BY <2>1, <2>3, <2>4, SameRules DEF Bank!BankNext
<1>4. ASSUME NEW r \in Requests, CommitEdit(r) PROVE [Bank!BankNext]_(Bank!bankVars)
  <2> DEFINE q == req[r].ask.question
             after == edited(questions[q], req[r].ask)
  <2>1. /\ req[r].pc = "commit" /\ req[r].ask.act = "edit"
        /\ questions' = [questions EXCEPT ![q] = after] /\ upvotes' = upvotes
    BY <1>4 DEF CommitEdit
  <2>2. /\ req[r].ask \in Asks /\ req[r].ask \in Ask /\ req[r].viewer \in Viewer
        /\ req[r].found \in SUBSET NearDuplicate /\ req[r].found \in Bank!named
        /\ q \in QuestionIds /\ questions[q] \in Row /\ req[r].before = questions[q]
    BY <2>1, HandFacts, CommitFacts
  <2>3. mayEdit(req[r].viewer, questions[q])
    BY <2>1, CommitFacts DEF may
  <2>4. CASE after = questions[q]
    <3>1. questions' = questions
      BY <1>0, <2>1, <2>4
    <3>2. log' = log
      BY <1>4, <2>2, <2>4 DEF CommitEdit
    <3> QED BY <1>1, <2>1, <3>1, <3>2
  <2>5. CASE after # questions[q]
    <3>1. log' = Append(log, editedEntry(q, req[r].viewer, questions[q], after, req[r].found))
      BY <1>4, <2>2, <2>5 DEF CommitEdit
    <3>2. editedEntry(q, req[r].viewer, questions[q], after, req[r].found) \in Entry
      BY <2>2, RowFacts, EntryFacts
    <3>3. log' # log
      BY <1>0, <3>1, <3>2, LogGrows
    <3>4. Bank!edited(questions[q], req[r].ask) = after /\ questions[q] # None
      BY <2>2, SameRules, RowIsNotNone
    <3> HIDE DEF after
    <3>5. Bank!Edit(q, req[r].viewer, req[r].ask)
      BY <2>1, <2>2, <2>3, <2>5, <3>1, <3>4, SameRules, SameEntries DEF Bank!Edit
    <3> QED BY <2>1, <2>2, <3>3, <3>5, SameRules DEF Bank!BankNext
  <2> QED BY <2>4, <2>5
<1>5. ASSUME NEW r \in Requests, CommitChange(r) PROVE Bank!BankNext
  <2> DEFINE q == req[r].ask.question
             act == req[r].ask.act
             after == changed(questions[q], req[r].ask)
             e == changedEntry(q, req[r].viewer, req[r].ask, req[r].found)
  <2>1. /\ req[r].pc = "commit" /\ act # "edit"
        /\ questions' = [questions EXCEPT ![q] = after]
        /\ log' = Append(log, e)
    BY <1>5 DEF CommitChange
  <2>2. /\ req[r].ask \in Asks /\ req[r].ask \in Ask /\ req[r].viewer \in Viewer
        /\ req[r].found \in SUBSET NearDuplicate /\ req[r].found \in Bank!named
        /\ q \in QuestionIds /\ questions[q] \in Row /\ act \in ChangeActs
        /\ may(req[r].viewer, questions[q], act)
        /\ questions[q].state = startsFrom(act)
        /\ req[r].gives => act = "publish"
    <3>1. act \in {"edit"} \cup ChangeActs /\ act # "add"
      BY <2>1, CommitFacts DEF ChangeActs
    <3> QED BY <2>1, <3>1, HandFacts, CommitFacts
  <2>3. \/ upvotes' = upvotes
        \/ act = "publish" /\ upvotes' = upvotes \cup {<<q, questions[q].author>>}
    BY <1>5, <2>2 DEF CommitChange, authorsUpvote
  <2>4. log' # log
    BY <1>0, <2>1, <2>2, EntryFacts, LogGrows
  <2>5. /\ Bank!changed(questions[q], req[r].ask) = after
        /\ Bank!changedEntry(q, req[r].viewer, req[r].ask, req[r].found) = e
        /\ Bank!startsFrom(act) = startsFrom(act)
        /\ Bank!may(req[r].viewer, questions[q], act)
        /\ questions[q] # None
    BY <2>2, SameRules, SameEntries, RowIsNotNone
  <2> HIDE DEF after, e
  <2>6. Bank!Change(q, req[r].viewer, req[r].ask)
    BY <2>1, <2>2, <2>3, <2>5 DEF Bank!Change
  <2> QED BY <2>2, <2>4, <2>6, SameRules DEF Bank!BankNext
<1>6. ASSUME NEW r \in Requests, SaveUpvote(r) PROVE Bank!BankNext
  <2>1. /\ req[r].ask.question \in QuestionIds /\ req[r].viewer.id \in Viewers
        /\ wasPublished(log, req[r].ask.question)
    BY <1>6, HandFacts DEF SaveUpvote, inHand, entitled, Viewer
  <2>2. Bank!Upvote(req[r].ask.question, req[r].viewer.id)
    BY <1>6, <2>1 DEF SaveUpvote, wasPublished, Bank!Upvote
  <2> QED BY <2>1, <2>2 DEF Bank!BankNext
<1>7. ASSUME NEW r \in Requests, RemoveUpvote(r) PROVE Bank!BankNext
  <2>1. req[r].ask.question \in QuestionIds /\ req[r].viewer.id \in Viewers
    BY <1>7, HandFacts DEF RemoveUpvote, inHand, Viewer
  <2>2. Bank!TakeBack(req[r].ask.question, req[r].viewer.id)
    BY <1>7 DEF RemoveUpvote, Bank!TakeBack
  <2> QED BY <2>1, <2>2 DEF Bank!BankNext
<1>8. ASSUME NEW r \in Requests,
             \/ \E v \in Viewers, a \in Asks : Authenticate(r, v, a)
             \/ LookUp(r) \/ LookUpRefused(r) \/ Detect(r) \/ LockQuestion(r)
             \/ WriteRefused(r) \/ Abort(r)
      PROVE  UNCHANGED Bank!bankVars
  BY <1>1, <1>8 DEF Authenticate, LookUp, LookUpRefused, Detect, LockQuestion,
                    WriteRefused, Abort
<1>9. ASSUME NEW v, NEW new, SetRole(v, new) PROVE UNCHANGED Bank!bankVars
  BY <1>1, <1>9 DEF SetRole
<1>10. CASE UNCHANGED vars
  BY <1>1, <1>10 DEF vars
<1> QED BY <1>2, <1>3, <1>4, <1>5, <1>6, <1>7, <1>8, <1>9, <1>10 DEF Next, Step

(* However many requests interleave, every act is one step on the serial bank,
   on the row as it then is and by a Viewer who may do it, or none.
   (writeVisibleQuestion; upvoteQuestion.) *)
THEOREM ImplementsTheBank == Spec => ActsAreAtomic
<1>1. Init => Bank!BankInit
  BY DEF Init, Bank!BankInit
<1>2. Init => Entitled
  BY EntitledInit
<1>3. Entitled /\ [Next]_vars => Entitled'
  BY EntitledStep
<1>4. Entitled /\ [Next]_vars => [Bank!BankNext]_(Bank!bankVars)
  BY BankStep
<1> QED BY <1>1, <1>2, <1>3, <1>4, PTL DEF Spec, ActsAreAtomic, Bank!BankSpec

(* Whoever may write a Question sees it, and keeps seeing it until the write:
   the second visibility check, under the lock, never answers not found. *)
THEOREM StaysVisible == Spec => []LookedUpStaysVisible
<1>1. Init => Entitled
  BY EntitledInit
<1>2. Entitled /\ [Next]_vars => Entitled'
  BY EntitledStep
<1>3. Entitled => LookedUpStaysVisible
  <2> SUFFICES ASSUME Entitled, NEW r \in Requests,
                      req[r].pc \in {"detect", "write", "commit"}, req[r].ask.act # "add"
               PROVE  LET row == questions[req[r].ask.question]
                      IN  row # None /\ visibleQuestions(req[r].viewer, row)
    BY DEF LookedUpStaysVisible
  <2>1. /\ inHand(questions, req[r])
        /\ may(req[r].viewer, questions[req[r].ask.question], req[r].ask.act)
    BY HandFacts DEF entitled
  <2>2. req[r].ask.act \in {"edit"} \cup ChangeActs
    BY <2>1 DEF inHand, ChangeActs
  <2> QED BY <2>1, <2>2 DEF inHand, may, mayEdit, mayPublish, mayResubmit, ChangeActs,
                            visibleQuestions
<1> QED BY <1>1, <1>2, <1>3, PTL DEF Spec

-----------------------------------------------------------------------------
(* What an entry says of a Question *)

movesIt(e, q) == e.question = q /\ e.type \in {"question_added"} \cup MovingTypes

writesItsText(e, q) == e.question = q /\ e.type \in {"question_added", "question_edited"}

touchesIts(c, e, q) == e.question = q /\ c \in e.clientsAdded \cup e.clientsRemoved

stateSaid(e) ==
    CASE e.type = "question_published" -> "published"
      [] e.type \in {"question_rejected", "question_returned"} -> "rejected"
      [] e.type \in {"question_added", "question_resubmitted"} -> "pending"

(* The row a log leaves of a Question, part by part. *)
movedAsSaid(L, row, q) ==
    \A i \in 1..Len(L) :
        movesIt(L[i], q) /\ (\A j \in 1..Len(L) : movesIt(L[j], q) => j =< i) =>
            row # None /\ row.state = stateSaid(L[i]) /\ row.reason = L[i].reason

writtenAsSaid(L, row, q) ==
    \A i \in 1..Len(L) :
        writesItsText(L[i], q) /\ (\A j \in 1..Len(L) : writesItsText(L[j], q) => j =< i) =>
            row # None /\ ContentOf(row) = L[i].after

clientsAsSaid(L, row, q) ==
    \A c \in Clients, i \in 1..Len(L) :
        touchesIts(c, L[i], q) /\ (\A j \in 1..Len(L) : touchesIts(c, L[j], q) => j =< i) =>
            row # None /\ (c \in row.clients <=> c \in L[i].clientsAdded)

nothingUnsaid(L, row, q) ==
    row # None =>
        /\ \E i \in 1..Len(L) : L[i].question = q /\ L[i].type = "question_added"
        /\ \A c \in row.clients : \E i \in 1..Len(L) : touchesIts(c, L[i], q)

replays(L, row, q) ==
    /\ movedAsSaid(L, row, q)
    /\ writtenAsSaid(L, row, q)
    /\ clientsAsSaid(L, row, q)
    /\ nothingUnsaid(L, row, q)

(* What an entry must say of a row that becomes another. *)
tells(e, row, row2, q) ==
    /\ IF movesIt(e, q)
       THEN row2 # None /\ row2.state = stateSaid(e) /\ row2.reason = e.reason
       ELSE row # None => row2 # None /\ row2.state = row.state /\ row2.reason = row.reason
    /\ IF writesItsText(e, q)
       THEN row2 # None /\ ContentOf(row2) = e.after
       ELSE row # None => row2 # None /\ ContentOf(row2) = ContentOf(row)
    /\ \A c \in Clients :
          IF touchesIts(c, e, q)
          THEN row2 # None /\ (c \in row2.clients <=> c \in e.clientsAdded)
          ELSE row # None => row2 # None /\ (c \in row2.clients <=> c \in row.clients)
    /\ row2 # None =>
          /\ row # None \/ (e.question = q /\ e.type = "question_added")
          /\ \A c \in row2.clients : touchesIts(c, e, q) \/ (row # None /\ c \in row.clients)

LEMMA ReplayIsHistory ==
    HistoryReplaysToRow <=> \A q \in QuestionIds : replays(log, questions[q], q)
<1>1. \A q \in QuestionIds, i \in recorded :
          /\ moves(i, q) <=> movesIt(log[i], q)
          /\ writesText(i, q) <=> writesItsText(log[i], q)
          /\ stateAfter(i) = stateSaid(log[i])
          /\ \A c : touchesClient(i, q, c) <=> touchesIts(c, log[i], q)
  BY DEF moves, movesIt, writesText, writesItsText, stateAfter, stateSaid, touchesClient,
         touchesIts
<1> QED BY <1>1 DEF HistoryReplaysToRow, replays, movedAsSaid, writtenAsSaid, clientsAsSaid,
                    nothingUnsaid, recorded

(* One entry more, which tells what became of the row. *)
LEMMA ReplayGrows ==
    ASSUME NEW L \in Seq(Entry), NEW e \in Entry, NEW q, NEW row, NEW row2,
           replays(L, row, q), tells(e, row, row2, q)
    PROVE  replays(Append(L, e), row2, q)
<1> DEFINE N == Append(L, e)
           n == Len(L) + 1
<1>1. /\ Len(L) \in Nat /\ Len(N) = n /\ N[n] = e /\ n \in 1..Len(N)
      /\ \A i \in 1..Len(L) : i \in 1..Len(N) /\ N[i] = L[i] /\ i < n
      /\ \A i \in 1..Len(N) : i = n \/ i \in 1..Len(L)
  OBVIOUS
<1> HIDE DEF N, n
<1>2. movedAsSaid(N, row2, q)
  <2> SUFFICES ASSUME NEW i \in 1..Len(N), movesIt(N[i], q),
                      \A j \in 1..Len(N) : movesIt(N[j], q) => j =< i
               PROVE  row2 # None /\ row2.state = stateSaid(N[i]) /\ row2.reason = N[i].reason
    BY DEF movedAsSaid
  <2>1. CASE i = n
    BY <1>1, <2>1 DEF tells
  <2>2. CASE i # n
    <3>1. i \in 1..Len(L) /\ N[i] = L[i] /\ ~movesIt(e, q)
      BY <1>1, <2>2
    <3>2. \A j \in 1..Len(L) : movesIt(L[j], q) => j =< i
      BY <1>1
    <3>3. row # None /\ row.state = stateSaid(L[i]) /\ row.reason = L[i].reason
      BY <3>1, <3>2 DEF replays, movedAsSaid
    <3> QED BY <3>1, <3>3 DEF tells
  <2> QED BY <2>1, <2>2
<1>3. writtenAsSaid(N, row2, q)
  <2> SUFFICES ASSUME NEW i \in 1..Len(N), writesItsText(N[i], q),
                      \A j \in 1..Len(N) : writesItsText(N[j], q) => j =< i
               PROVE  row2 # None /\ ContentOf(row2) = N[i].after
    BY DEF writtenAsSaid
  <2>1. CASE i = n
    BY <1>1, <2>1 DEF tells
  <2>2. CASE i # n
    <3>1. i \in 1..Len(L) /\ N[i] = L[i] /\ ~writesItsText(e, q)
      BY <1>1, <2>2
    <3>2. \A j \in 1..Len(L) : writesItsText(L[j], q) => j =< i
      BY <1>1
    <3>3. row # None /\ ContentOf(row) = L[i].after
      BY <3>1, <3>2 DEF replays, writtenAsSaid
    <3> QED BY <3>1, <3>3 DEF tells
  <2> QED BY <2>1, <2>2
<1>4. clientsAsSaid(N, row2, q)
  <2> SUFFICES ASSUME NEW c \in Clients, NEW i \in 1..Len(N), touchesIts(c, N[i], q),
                      \A j \in 1..Len(N) : touchesIts(c, N[j], q) => j =< i
               PROVE  row2 # None /\ (c \in row2.clients <=> c \in N[i].clientsAdded)
    BY DEF clientsAsSaid
  <2>1. CASE i = n
    BY <1>1, <2>1 DEF tells
  <2>2. CASE i # n
    <3>1. i \in 1..Len(L) /\ N[i] = L[i] /\ ~touchesIts(c, e, q)
      BY <1>1, <2>2
    <3>2. \A j \in 1..Len(L) : touchesIts(c, L[j], q) => j =< i
      BY <1>1
    <3>3. row # None /\ (c \in row.clients <=> c \in L[i].clientsAdded)
      BY <3>1, <3>2 DEF replays, clientsAsSaid
    <3> QED BY <3>1, <3>3 DEF tells
  <2> QED BY <2>1, <2>2
<1>5. nothingUnsaid(N, row2, q)
  <2> SUFFICES ASSUME row2 # None
               PROVE  /\ \E i \in 1..Len(N) : N[i].question = q /\ N[i].type = "question_added"
                      /\ \A c \in row2.clients : \E i \in 1..Len(N) : touchesIts(c, N[i], q)
    BY DEF nothingUnsaid
  <2>1. \E i \in 1..Len(N) : N[i].question = q /\ N[i].type = "question_added"
    BY <1>1 DEF tells, replays, nothingUnsaid
  <2>2. ASSUME NEW c \in row2.clients PROVE \E i \in 1..Len(N) : touchesIts(c, N[i], q)
    <3>1. CASE touchesIts(c, e, q)
      BY <1>1, <3>1
    <3>2. CASE row # None /\ c \in row.clients
      BY <1>1, <3>2 DEF replays, nothingUnsaid
    <3> QED BY <3>1, <3>2 DEF tells
  <2> QED BY <2>1, <2>2
<1> QED BY <1>2, <1>3, <1>4, <1>5 DEF replays, N

(* An entry about another Question tells of nothing. *)
LEMMA OthersAreNotTold ==
    ASSUME NEW e \in Entry, NEW q, e.question # q, NEW row
    PROVE  tells(e, row, row, q)
BY DEF tells, movesIt, writesItsText, touchesIts

-----------------------------------------------------------------------------
(* What each act records is what it did *)

LEMMA AnAdditionIsTold ==
    ASSUME NEW a \in Ask, a.act = "add", NEW viewer \in Viewer, NEW q \in QuestionIds,
           NEW found \in SUBSET NearDuplicate
    PROVE  tells(addedEntry(q, viewer, a, found), None, addedRow(viewer, a), q)
<1> DEFINE e == addedEntry(q, viewer, a, found)
           row2 == addedRow(viewer, a)
<1>1. /\ e.type = "question_added" /\ e.question = q /\ e.reason = None
      /\ e.after = [text |-> a.text, notes |-> a.notes]
      /\ e.clientsAdded = a.clients /\ e.clientsRemoved = {}
  BY DEF addedEntry, entry
<1>2. /\ row2 \in Row /\ row2.state = "pending" /\ row2.reason = None
      /\ row2.clients = a.clients
      /\ ContentOf(row2) = [text |-> a.text, notes |-> a.notes]
  BY RowFacts DEF addedRow, ContentOf
<1> HIDE DEF e, row2
<1>3. row2 # None
  BY <1>2, RowIsNotNone
<1>4. movesIt(e, q) /\ writesItsText(e, q) /\ stateSaid(e) = "pending"
  BY <1>1 DEF movesIt, writesItsText, stateSaid
<1>5. \A c : touchesIts(c, e, q) <=> c \in row2.clients
  BY <1>1, <1>2 DEF touchesIts
<1>6. tells(e, None, row2, q)
  BY <1>1, <1>2, <1>3, <1>4, <1>5 DEF tells
<1> QED BY <1>6 DEF e, row2

LEMMA AnEditIsTold ==
    ASSUME NEW a \in Ask, NEW viewer \in Viewer, NEW q \in QuestionIds,
           NEW found \in SUBSET NearDuplicate, NEW row \in Row
    PROVE  tells(editedEntry(q, viewer, row, edited(row, a), found), row, edited(row, a), q)
<1> DEFINE row2 == edited(row, a)
           e == editedEntry(q, viewer, row, row2, found)
<1>1. /\ row2 \in Row /\ row2.state = row.state /\ row2.reason = row.reason
  BY RowFacts DEF edited, Row
<1> HIDE DEF row2
<1>2. /\ e.question = q
      /\ e.clientsAdded = row2.clients \ row.clients
      /\ e.clientsRemoved = row.clients \ row2.clients
      /\ ContentOf(row) = ContentOf(row2) => e.type = "clients_only"
      /\ ContentOf(row) # ContentOf(row2) =>
            e.type = "question_edited" /\ e.after = ContentOf(row2)
  BY DEF editedEntry, entry
<1> HIDE DEF e
<1>3. row # None /\ row2 # None
  BY <1>1, RowIsNotNone
<1>4. ~movesIt(e, q)
  BY <1>2 DEF movesIt, MovingTypes
<1>5. IF writesItsText(e, q) THEN ContentOf(row2) = e.after ELSE ContentOf(row2) = ContentOf(row)
  BY <1>2 DEF writesItsText
<1>6. \A c : touchesIts(c, e, q) <=> (c \in row.clients) # (c \in row2.clients)
  BY <1>2 DEF touchesIts
<1>7. tells(e, row, row2, q)
  BY <1>1, <1>2, <1>3, <1>4, <1>5, <1>6 DEF tells
<1> QED BY <1>7 DEF e, row2

LEMMA AChangeIsTold ==
    ASSUME NEW a \in Ask, a.act \in ChangeActs, NEW viewer \in Viewer,
           NEW q \in QuestionIds, NEW found \in SUBSET NearDuplicate, NEW row \in Row
    PROVE  tells(changedEntry(q, viewer, a, found), row, changed(row, a), q)
<1> DEFINE row2 == changed(row, a)
           e == changedEntry(q, viewer, a, found)
<1>1. /\ row2 \in Row /\ row2.state = leaves(a.act) /\ row2.reason = a.reason
      /\ row2.clients = row.clients /\ ContentOf(row2) = ContentOf(row)
  BY RowFacts DEF changed, ContentOf, Row
<1>2. /\ e.type = eventOf(a.act) /\ e.question = q /\ e.reason = a.reason
      /\ e.clientsAdded = {} /\ e.clientsRemoved = {}
  BY DEF changedEntry, entry
<1> HIDE DEF e, row2
<1>3. row # None /\ row2 # None
  BY <1>1, RowIsNotNone
<1>4. movesIt(e, q) /\ ~writesItsText(e, q) /\ stateSaid(e) = leaves(a.act)
  BY <1>2 DEF movesIt, writesItsText, stateSaid, eventOf, leaves, ChangeActs, MovingTypes
<1>5. \A c : ~touchesIts(c, e, q)
  BY <1>2 DEF touchesIts
<1>6. tells(e, row, row2, q)
  BY <1>1, <1>2, <1>3, <1>4, <1>5 DEF tells
<1> QED BY <1>6 DEF e, row2

LEMMA ARefusalTellsNothing ==
    ASSUME NEW a \in Ask, NEW viewer \in Viewer, NEW found \in SUBSET NearDuplicate,
           NEW q, NEW row
    PROVE  tells(refusedEntry(viewer, a, found), row, row, q)
<1> DEFINE e == refusedEntry(viewer, a, found)
<1>1. e.type = "near_duplicate_refused" /\ e.clientsAdded = {} /\ e.clientsRemoved = {}
  BY DEF refusedEntry, entry
<1> HIDE DEF e
<1>2. ~movesIt(e, q) /\ ~writesItsText(e, q) /\ \A c : ~touchesIts(c, e, q)
  BY <1>1 DEF movesIt, writesItsText, touchesIts, MovingTypes
<1>3. tells(e, row, row, q)
  BY <1>2 DEF tells
<1> QED BY <1>3 DEF e

-----------------------------------------------------------------------------
(* The history of every Question *)

Told == \A q \in QuestionIds : replays(log, questions[q], q)

(* One entry about one row, and nothing about any other. *)
LEMMA OneRowIsTold ==
    ASSUME log \in Seq(Entry), Told, NEW e \in Entry, log' = Append(log, e), NEW q,
           e.question = q,
           \A p \in QuestionIds : p # q => questions'[p] = questions[p],
           q \in QuestionIds => tells(e, questions[q], questions'[q], q)
    PROVE  Told'
<1>1. ASSUME NEW p \in QuestionIds PROVE replays(log', questions'[p], p)
  <2>1. CASE p = q
    BY <2>1, ReplayGrows DEF Told
  <2>2. CASE p # q
    BY <2>2, ReplayGrows, OthersAreNotTold DEF Told
  <2> QED BY <2>1, <2>2
<1> QED BY <1>1 DEF Told

LEMMA ToldStep == Entitled /\ Told /\ [Next]_vars => Told'
<1> SUFFICES ASSUME Entitled, Told, [Next]_vars PROVE Told'
  OBVIOUS
<1>0. log \in Seq(Entry) /\ questions \in [QuestionIds -> {None} \cup Row]
  BY DEF Entitled, Typed, TypeOK
<1>1. ASSUME UNCHANGED <<questions, log>> PROVE Told'
  BY <1>1 DEF Told
<1>2. ASSUME NEW r \in Requests, RecordRefusal(r) PROVE Told'
  <2> DEFINE e == refusedEntry(req[r].viewer, req[r].ask, req[r].found)
  <2>1. e \in Entry /\ \A q, row : tells(e, row, row, q)
    BY <1>2, HandFacts, EntryFacts, ARefusalTellsNothing DEF RecordRefusal
  <2>2. log' = Append(log, e) /\ questions' = questions
    BY <1>2 DEF RecordRefusal
  <2> HIDE DEF e
  <2> QED BY <1>0, <2>1, <2>2, OneRowIsTold
<1>3. ASSUME NEW r \in Requests, NEW q \in QuestionIds, InsertQuestion(r, q) PROVE Told'
  <2> DEFINE e == addedEntry(q, req[r].viewer, req[r].ask, req[r].found)
             row2 == addedRow(req[r].viewer, req[r].ask)
  <2>1. e \in Entry /\ tells(e, None, row2, q) /\ e.question = q
    <3>1. /\ req[r].ask \in Ask /\ req[r].ask.act = "add" /\ req[r].viewer \in Viewer
          /\ req[r].found \in SUBSET NearDuplicate
      BY <1>3, HandFacts DEF InsertQuestion
    <3>2. e.question = q
      BY DEF addedEntry, entry
    <3> HIDE DEF e, row2
    <3> QED BY <3>1, <3>2, EntryFacts, AnAdditionIsTold DEF e, row2
  <2>2. /\ log' = Append(log, e) /\ questions[q] = None
        /\ questions' = [questions EXCEPT ![q] = row2]
    BY <1>3 DEF InsertQuestion
  <2> HIDE DEF e, row2
  <2> QED BY <1>0, <2>1, <2>2, OneRowIsTold
<1>4. ASSUME NEW r \in Requests, CommitEdit(r) PROVE Told'
  <2> DEFINE q == req[r].ask.question
             after == edited(questions[q], req[r].ask)
             e == editedEntry(q, req[r].viewer, questions[q], after, req[r].found)
  <2>1. /\ req[r].pc = "commit" /\ req[r].ask.act = "edit"
        /\ questions' = [questions EXCEPT ![q] = after]
    BY <1>4 DEF CommitEdit
  <2>2. /\ req[r].ask \in Ask /\ req[r].viewer \in Viewer
        /\ req[r].found \in SUBSET NearDuplicate
        /\ q \in QuestionIds /\ questions[q] \in Row /\ req[r].before = questions[q]
    BY <2>1, HandFacts, CommitFacts
  <2>3. CASE after = questions[q]
    BY <1>0, <1>1, <1>4, <2>1, <2>2, <2>3 DEF CommitEdit
  <2>4. CASE after # questions[q]
    <3>1. log' = Append(log, e)
      BY <1>4, <2>2, <2>4 DEF CommitEdit
    <3>2. e \in Entry
      BY <2>2, RowFacts, EntryFacts
    <3>3. tells(e, questions[q], after, q)
      BY <2>2, AnEditIsTold
    <3>4. e.question = q
      BY DEF editedEntry, entry
    <3> HIDE DEF e, after
    <3> QED BY <1>0, <2>1, <2>2, <3>1, <3>2, <3>3, <3>4, OneRowIsTold
  <2> QED BY <2>3, <2>4
<1>5. ASSUME NEW r \in Requests, CommitChange(r) PROVE Told'
  <2> DEFINE q == req[r].ask.question
             after == changed(questions[q], req[r].ask)
             e == changedEntry(q, req[r].viewer, req[r].ask, req[r].found)
  <2>1. /\ req[r].pc = "commit" /\ req[r].ask.act # "edit"
        /\ questions' = [questions EXCEPT ![q] = after]
        /\ log' = Append(log, e)
    BY <1>5 DEF CommitChange
  <2>2. /\ req[r].ask \in Ask /\ req[r].viewer \in Viewer
        /\ req[r].found \in SUBSET NearDuplicate
        /\ q \in QuestionIds /\ questions[q] \in Row /\ req[r].ask.act \in ChangeActs
    BY <2>1, HandFacts DEF inHand
  <2>3. e \in Entry /\ tells(e, questions[q], after, q)
    BY <2>2, EntryFacts, AChangeIsTold
  <2>4. e.question = q
    BY DEF changedEntry, entry
  <2> HIDE DEF e, after
  <2> QED BY <1>0, <2>1, <2>2, <2>3, <2>4, OneRowIsTold
<1>6. ASSUME NEW r \in Requests,
             \/ \E v \in Viewers, a \in Asks : Authenticate(r, v, a)
             \/ LookUp(r) \/ LookUpRefused(r) \/ Detect(r) \/ LockQuestion(r)
             \/ WriteRefused(r) \/ SaveUpvote(r) \/ RemoveUpvote(r) \/ Abort(r)
      PROVE  Told'
  BY <1>1, <1>6 DEF Authenticate, LookUp, LookUpRefused, Detect, LockQuestion, WriteRefused,
                    SaveUpvote, RemoveUpvote, Abort
<1>7. ASSUME NEW v, NEW new, SetRole(v, new) PROVE Told'
  BY <1>1, <1>7 DEF SetRole
<1>8. CASE UNCHANGED vars
  BY <1>1, <1>8 DEF vars
<1> QED BY <1>2, <1>3, <1>4, <1>5, <1>6, <1>7, <1>8 DEF Next, Step

(* However many requests interleave or abort, the log about a Question gives
   its row: its Publication State and reason, its text and notes, its Clients.
   (changeLockedQuestion, editLockedQuestion and recordClientsChanged, each
   in one transaction with the row.) *)
THEOREM HistoryReplays == Spec => []HistoryReplaysToRow
<1>1. Init => Entitled /\ Told
  BY EntitledInit DEF Init, Told, replays, movedAsSaid, writtenAsSaid, clientsAsSaid,
                      nothingUnsaid
<1>2. Entitled /\ Told /\ [Next]_vars => Entitled' /\ Told'
  BY EntitledStep, ToldStep
<1>3. Told => HistoryReplaysToRow
  BY ReplayIsHistory DEF Told
<1> QED BY <1>1, <1>2, <1>3, PTL DEF Spec
-----------------------------------------------------------------------------
(* What a comparison is still worth when its act is carried out *)

(* The acts that give a Question a text it was not compared with, or bring its
   text into the bank or back to its door. *)
TextActs == {"edit", "publish", "resubmit"}

underWay(r, acts) == req[r].pc \notin {"idle", "lookup"} /\ req[r].ask.act \in acts

(* At most one of these acts is between its look-up and its end.  Anything
   else may be under way beside it, however often. *)
OneUnderWay(acts) ==
    \A r, s \in Requests : underWay(r, acts) /\ underWay(s, acts) => r = s

(* An edit or a publication still has before it the row it read, except that
   the Question may have gone back to its Author, and what it was compared
   with: where nothing too alike was found there is nothing now. *)
compared(rows, states, R) ==
    R.pc \in {"detect", "write", "commit"} /\ R.ask.act \in {"edit", "publish"} =>
        LET row == rows[R.ask.question]
        IN  /\ row.text = R.seen.text
            /\ row.state \in {R.seen.state, "rejected"}
            /\ R.pc # "detect" /\ needsCheck(R.seen, R.ask) /\ R.found = {} =>
                  nearDuplicates(rows, checkedText(R.seen, R.ask),
                                 reach(R.ask) \cap states, R.ask.question) = {}

Compared(states) == \A r \in Requests : compared(questions, states, req[r])

(* What is near a text, when no Question joins those it is looked for among
   and none of them is given another text. *)
LEMMA NothingJoins ==
    ASSUME NEW rows, NEW rows2, NEW text, NEW states, NEW excluding,
           nearDuplicates(rows, text, states, excluding) = {},
           \A q \in QuestionIds : rows2[q] # None /\ rows2[q].state \in states =>
               rows[q] # None /\ rows[q].state \in states /\ rows2[q].text = rows[q].text
    PROVE  nearDuplicates(rows2, text, states, excluding) = {}
BY DEF nearDuplicates

(* Detection answers nothing only where there is nothing. *)
LEMMA NothingFound ==
    ASSUME NEW rows, NEW text, NEW states, NEW excluding, NEW fewer,
           {} \in findNearDuplicatesAmong(rows, text, states, excluding)
    PROVE  nearDuplicates(rows, text, states \cap fewer, excluding) = {}
<1>1. nearDuplicates(rows, text, states, excluding) = {}
  BY FS_EmptySet, NamedAssumption DEF findNearDuplicatesAmong
<1> QED BY <1>1 DEF nearDuplicates

(* What an act under way holds of the rows, when another act takes a Question
   out of the bank or out of the queue, or does nothing to the rows. *)
LEMMA ComparedIsKept ==
    ASSUME NEW rows, NEW rows2, NEW states, NEW R, inHand(rows, R),
           R.pc # "idle" => R.ask \in Ask,
           compared(rows, states, R),
           \A q \in QuestionIds : rows[q] # None =>
               /\ rows2[q].text = rows[q].text
               /\ rows2[q].state \in {rows[q].state, "rejected"},
           \A q \in QuestionIds : rows[q] = None /\ rows2[q] # None => rows2[q].state \notin states,
           "rejected" \notin states
    PROVE  compared(rows2, states, R)
<1> SUFFICES ASSUME R.pc \in {"detect", "write", "commit"}, R.ask.act \in {"edit", "publish"}
             PROVE  compared(rows2, states, R)
  BY DEF compared
<1>1. R.ask.question \in QuestionIds /\ rows[R.ask.question] # None
  BY AskFacts DEF inHand
<1>2. /\ rows[R.ask.question].text = R.seen.text
      /\ rows[R.ask.question].state \in {R.seen.state, "rejected"}
  BY DEF compared
<1>3. /\ rows2[R.ask.question].text = R.seen.text
      /\ rows2[R.ask.question].state \in {R.seen.state, "rejected"}
  BY <1>1, <1>2
<1>4. ASSUME R.pc # "detect", needsCheck(R.seen, R.ask), R.found = {}
      PROVE  nearDuplicates(rows2, checkedText(R.seen, R.ask),
                            reach(R.ask) \cap states, R.ask.question) = {}
  <2>1. nearDuplicates(rows, checkedText(R.seen, R.ask),
                       reach(R.ask) \cap states, R.ask.question) = {}
    BY <1>4 DEF compared
  <2>2. \A q \in QuestionIds : rows2[q] # None /\ rows2[q].state \in reach(R.ask) \cap states =>
            /\ rows[q] # None /\ rows[q].state \in reach(R.ask) \cap states
            /\ rows2[q].text = rows[q].text
    OBVIOUS
  <2> QED BY <2>1, <2>2, NothingJoins
<1> QED BY <1>3, <1>4 DEF compared

LEMMA ComparedStep ==
    ASSUME NEW acts, TextActs \subseteq acts,
           NEW states \in SUBSET {"published", "pending"}, "pending" \in states => "add" \in acts,
           Entitled, Compared(states), OneUnderWay(acts), [Next]_vars
    PROVE  Compared(states)'
<1>0. questions \in [QuestionIds -> {None} \cup Row] /\ req \in [Requests -> Request]
  BY DEF Entitled, Typed, TypeOK
<1>1. ASSUME NEW r \in Requests, NEW R, req' = [req EXCEPT ![r] = R],
             compared(questions', states, R),
             \A s \in Requests \ {r} : compared(questions', states, req[s])
      PROVE  Compared(states)'
  BY <1>0, <1>1 DEF Compared
<1>2. ASSUME NEW r \in Requests, finish(r),
             \A s \in Requests \ {r} : compared(questions', states, req[s])
      PROVE  Compared(states)'
  <2>1. compared(questions', states, Idle)
    BY DEF compared, Idle
  <2> QED BY <1>1, <1>2, <2>1 DEF finish
<1>3. ASSUME NEW r \in Requests, NEW R, req' = [req EXCEPT ![r] = R],
             questions' = questions, compared(questions, states, R)
      PROVE  Compared(states)'
  BY <1>1, <1>3 DEF Compared
<1>4. ASSUME NEW r \in Requests, NEW v \in Viewers, NEW a \in Asks, Authenticate(r, v, a)
      PROVE  Compared(states)'
  <2> DEFINE R == [Idle EXCEPT !.pc = IF a.act = "add" THEN "detect" ELSE "lookup",
                               !.viewer = [id |-> v, role |-> role[v]], !.ask = a]
  <2>1. compared(questions, states, R)
    BY DEF compared, Idle
  <2>2. req' = [req EXCEPT ![r] = R] /\ questions' = questions
    BY <1>4 DEF Authenticate
  <2> HIDE DEF R
  <2> QED BY <1>3, <2>1, <2>2
<1>5. ASSUME NEW r \in Requests, LookUp(r) PROVE Compared(states)'
  <2> DEFINE row == questions[req[r].ask.question]
             R == [req[r] EXCEPT !.pc = afterLookUp(req[r].ask.act), !.seen = row]
  <2>1. req[r] \in Request
    BY <1>0
  <2>2. R.ask = req[r].ask /\ R.seen = row /\ R.pc = afterLookUp(R.ask.act)
    BY <2>1 DEF Request
  <2>3. req' = [req EXCEPT ![r] = R] /\ questions' = questions
    BY <1>0, <1>5 DEF LookUp
  <2> HIDE DEF R
  <2>4. compared(questions, states, R)
    BY <2>2 DEF compared, afterLookUp
  <2> QED BY <1>3, <2>3, <2>4
<1>6. ASSUME NEW r \in Requests, Detect(r) PROVE Compared(states)'
  <2> DEFINE found == IF needsCheck(req[r].seen, req[r].ask)
                      THEN findNearDuplicatesAmong(questions,
                                checkedText(req[r].seen, req[r].ask),
                                reach(req[r].ask), req[r].ask.question)
                      ELSE {{}}
  <2>1. PICK F \in found :
           req' = [req EXCEPT ![r].pc = IF F = {} \/ req[r].ask.confirmed
                                        THEN "write" ELSE "refuse",
                              ![r].found = F]
    BY <1>6, Zenon DEF Detect
  <2>2. needsCheck(req[r].seen, req[r].ask) /\ F = {} =>
            nearDuplicates(questions, checkedText(req[r].seen, req[r].ask),
                           reach(req[r].ask) \cap states, req[r].ask.question) = {}
    BY NothingFound
  <2> HIDE DEF found
  <2> DEFINE R == [req[r] EXCEPT !.pc = IF F = {} \/ req[r].ask.confirmed
                                        THEN "write" ELSE "refuse",
                                 !.found = F]
  <2>3. req[r] \in Request /\ req[r].pc = "detect" /\ compared(questions, states, req[r])
    BY <1>0, <1>6 DEF Detect, Compared
  <2>4. R.ask = req[r].ask /\ R.seen = req[r].seen /\ R.found = F
    BY <2>3 DEF Request
  <2>5. req' = [req EXCEPT ![r] = R] /\ questions' = questions
    BY <1>0, <1>6, <2>1 DEF Detect
  <2> HIDE DEF R
  <2>6. compared(questions, states, R)
    BY <2>2, <2>3, <2>4 DEF compared
  <2> QED BY <1>3, <2>5, <2>6
<1>7. ASSUME NEW r \in Requests, LockQuestion(r) PROVE Compared(states)'
  <2> DEFINE q == req[r].ask.question
             g == req[r].ask.act = "publish" /\ authorsUpvote(r) \notin upvotes
             R == [req[r] EXCEPT !.pc = "commit", !.before = questions[q], !.gives = g]
  <2>1. req[r] \in Request /\ req[r].pc = "write" /\ compared(questions, states, req[r])
    BY <1>0, <1>7 DEF LockQuestion, Compared
  <2>2. R.ask = req[r].ask /\ R.seen = req[r].seen /\ R.found = req[r].found
    BY <2>1 DEF Request
  <2>3. req' = [req EXCEPT ![r] = R] /\ questions' = questions
    BY <1>0, <1>7 DEF LockQuestion
  <2> HIDE DEF R
  <2>4. compared(questions, states, R)
    BY <2>1, <2>2 DEF compared
  <2> QED BY <1>3, <2>3, <2>4
<1>8. ASSUME NEW r \in Requests, req[r].pc \in {"write", "commit"}, req[r].ask.act \in acts,
             NEW s \in Requests \ {r}
      PROVE  compared(questions', states, req[s])
  <2>1. ~(req[s].pc \in {"detect", "write", "commit"} /\ req[s].ask.act \in {"edit", "publish"})
    BY <1>8 DEF OneUnderWay, underWay, TextActs
  <2> QED BY <2>1 DEF compared
<1>9. ASSUME NEW s \in Requests,
             \A q \in QuestionIds : questions[q] # None =>
                 /\ questions'[q].text = questions[q].text
                 /\ questions'[q].state \in {questions[q].state, "rejected"},
             \A q \in QuestionIds : questions[q] = None /\ questions'[q] # None =>
                 questions'[q].state \notin states
      PROVE  compared(questions', states, req[s])
  <2>1. /\ inHand(questions, req[s]) /\ compared(questions, states, req[s])
        /\ req[s].pc # "idle" => req[s].ask \in Ask
    BY DEF Entitled, Typed, HandsOK, inHand, Compared
  <2> QED BY <1>9, <2>1, ComparedIsKept
<1>10. ASSUME NEW r \in Requests, NEW q \in QuestionIds, InsertQuestion(r, q)
       PROVE  Compared(states)'
  <2>1. /\ req[r].pc = "write" /\ req[r].ask.act = "add" /\ questions[q] = None /\ finish(r)
        /\ questions' = [questions EXCEPT ![q] = addedRow(req[r].viewer, req[r].ask)]
    BY <1>10 DEF InsertQuestion
  <2>2. CASE "pending" \in states
    BY <1>2, <1>8, <2>1, <2>2
  <2>3. CASE "pending" \notin states
    <3>1. questions'[q].state = "pending" /\ \A p \in QuestionIds : p # q => questions'[p] = questions[p]
      BY <1>0, <2>1 DEF addedRow
    <3> QED BY <1>2, <1>9, <2>1, <2>3, <3>1
  <2> QED BY <2>2, <2>3
<1>11. ASSUME NEW r \in Requests, CommitEdit(r) PROVE Compared(states)'
  BY <1>2, <1>8, <1>11 DEF CommitEdit, TextActs
<1>12. ASSUME NEW r \in Requests, CommitChange(r) PROVE Compared(states)'
  <2> DEFINE q == req[r].ask.question
             after == changed(questions[q], req[r].ask)
  <2>1. /\ req[r].pc = "commit" /\ finish(r) /\ req[r].ask.act # "edit"
        /\ questions' = [questions EXCEPT ![q] = after]
    BY <1>12 DEF CommitChange
  <2>2. q \in QuestionIds /\ questions[q] \in Row /\ req[r].ask.act \in ChangeActs
    BY <2>1, HandFacts DEF inHand
  <2>3. CASE req[r].ask.act \in {"publish", "resubmit"}
    BY <1>2, <1>8, <2>1, <2>3 DEF TextActs
  <2>4. CASE req[r].ask.act \in {"reject", "return"}
    <3>1. after.text = questions[q].text /\ after.state = "rejected"
      BY <2>2, <2>4 DEF changed, leaves, Row
    <3>2. questions[q] # None
      BY <2>2, RowIsNotNone
    <3>3. questions'[q] = after /\ \A p \in QuestionIds : p # q => questions'[p] = questions[p]
      BY <1>0, <2>1, <2>2
    <3> HIDE DEF after, q
    <3> QED BY <1>2, <1>9, <2>1, <3>1, <3>2, <3>3
  <2> QED BY <2>2, <2>3, <2>4 DEF ChangeActs
<1>13. ASSUME NEW r \in Requests,
              \/ LookUpRefused(r) \/ RecordRefusal(r) \/ WriteRefused(r) \/ SaveUpvote(r)
              \/ RemoveUpvote(r) \/ Abort(r)
       PROVE  Compared(states)'
  BY <1>2, <1>13 DEF LookUpRefused, RecordRefusal, WriteRefused, SaveUpvote, RemoveUpvote,
                     Abort, Compared
<1>14. ASSUME UNCHANGED <<questions, req>> PROVE Compared(states)'
  BY <1>14 DEF Compared
<1>15. ASSUME NEW v, NEW new, SetRole(v, new) PROVE Compared(states)'
  BY <1>14, <1>15 DEF SetRole
<1>16. CASE UNCHANGED vars
  BY <1>14, <1>16 DEF vars
<1> QED BY <1>4, <1>5, <1>6, <1>7, <1>10, <1>11, <1>12, <1>13, <1>15, <1>16 DEF Next, Step

-----------------------------------------------------------------------------
(* What reaches the bank was compared with it *)

LEMMA CheckedAtTheCommit ==
    ASSUME NEW states, Entitled, Compared(states), NEW r \in Requests, req[r].pc = "commit"
    PROVE  LET a == req[r].ask
               row == questions[a.question]
               seen == req[r].seen
           IN  /\ a.act = "edit" /\ row.state = "published" /\ edited(row, a).text # row.text =>
                     needsCheck(seen, a) /\ checkedText(seen, a) = edited(row, a).text
               /\ a.act = "publish" =>
                     /\ needsCheck(seen, a) /\ checkedText(seen, a) = row.text
                     /\ row.state = "pending"
<1> DEFINE a == req[r].ask
           row == questions[a.question]
           seen == req[r].seen
<1>1. /\ a \in Ask /\ a.act \in {"edit"} \cup ChangeActs /\ row \in Row
      /\ a.act # "edit" => row.state = startsFrom(a.act)
  BY HandFacts, CommitFacts DEF inHand
<1>2. a.act \in {"edit", "publish"} => row.text = seen.text /\ row.state \in {seen.state, "rejected"}
  BY DEF Compared, compared
<1> HIDE DEF a, row, seen
<1>3. edited(row, a).text = given(a.text, row.text)
  BY <1>1 DEF edited, Row
<1>4. ASSUME a.act = "edit", row.state = "published", edited(row, a).text # row.text
      PROVE  needsCheck(seen, a) /\ checkedText(seen, a) = edited(row, a).text
  BY <1>2, <1>3, <1>4 DEF needsCheck, checkedText, given
<1>5. ASSUME a.act = "publish"
      PROVE  needsCheck(seen, a) /\ checkedText(seen, a) = row.text /\ row.state = "pending"
  BY <1>1, <1>2, <1>5 DEF needsCheck, checkedText, startsFrom
<1> QED BY <1>4, <1>5 DEF a, row, seen

(* While no two acts on a text are under way at once, a text reaches the bank
   only compared with it, beside any number of additions, rejections, returns
   and Upvotes.  (checkEditedText and publicationFor decide by the row as it
   was looked up; docs/adr/0014.) *)
THEOREM BankTextsAreChecked ==
    Spec /\ []OneUnderWay(TextActs) => TextsInTheBankWereChecked
<1> DEFINE checked == \A q \in QuestionIds :
              /\ published(q)'
              /\ published(q) => questions[q].text # questions'[q].text
              => \E r \in Requests :
                    /\ req[r].pc = "commit"
                    /\ req[r].ask.question = q
                    /\ needsCheck(req[r].seen, req[r].ask)
                    /\ checkedText(req[r].seen, req[r].ask) = questions'[q].text
<1>1. Init => Entitled /\ Compared({"published"})
  BY EntitledInit DEF Init, Compared, compared, Idle
<1>2. Entitled /\ [Next]_vars => Entitled'
  BY EntitledStep
<1>3. Entitled /\ Compared({"published"}) /\ OneUnderWay(TextActs) /\ [Next]_vars
          => Compared({"published"})'
  BY ComparedStep
<1>4. Entitled /\ Compared({"published"}) /\ [Next]_vars => [checked]_vars
  <2> SUFFICES ASSUME Entitled, Compared({"published"}), Next, NEW q \in QuestionIds,
                      published(q)', published(q) => questions[q].text # questions'[q].text
               PROVE  \E r \in Requests :
                         /\ req[r].pc = "commit"
                         /\ req[r].ask.question = q
                         /\ needsCheck(req[r].seen, req[r].ask)
                         /\ checkedText(req[r].seen, req[r].ask) = questions'[q].text
    OBVIOUS
  <2>0. questions \in [QuestionIds -> {None} \cup Row]
    BY DEF Entitled, Typed, TypeOK
  <2>1. questions'[q] # questions[q]
    BY DEF published
  <2>2. PICK r \in Requests : \/ CommitEdit(r) \/ CommitChange(r)
                              \/ \E p \in QuestionIds : InsertQuestion(r, p)
    BY <2>1 DEF Next, Step, Authenticate, LookUp, LookUpRefused, Detect, RecordRefusal,
                LockQuestion, WriteRefused, SaveUpvote, RemoveUpvote, Abort, SetRole
  <2>3. ASSUME NEW p \in QuestionIds, InsertQuestion(r, p) PROVE FALSE
    BY <2>0, <2>1, <2>3 DEF InsertQuestion, addedRow, published
  <2>4. req[r].pc = "commit" /\ req[r].ask.question = q
    BY <2>0, <2>1, <2>2, <2>3 DEF CommitEdit, CommitChange
  <2>5. questions[q] \in Row /\ req[r].ask \in Ask /\ questions[q] # None
    BY <2>4, HandFacts, RowIsNotNone DEF inHand
  <2>6. CASE CommitEdit(r)
    <3>1. req[r].ask.act = "edit" /\ questions'[q] = edited(questions[q], req[r].ask)
      BY <2>0, <2>4, <2>6 DEF CommitEdit
    <3>2. edited(questions[q], req[r].ask).state = questions[q].state
      BY <2>5 DEF edited, Row
    <3>3. questions[q].state = "published" /\ questions[q].text # questions'[q].text
      BY <2>5, <3>1, <3>2 DEF published
    <3> QED BY <2>4, <3>1, <3>3, CheckedAtTheCommit
  <2>7. CASE CommitChange(r)
    <3>1. req[r].ask.act \in ChangeActs /\ questions'[q] = changed(questions[q], req[r].ask)
      BY <2>0, <2>4, <2>7, CommitFacts DEF CommitChange
    <3>2. /\ questions'[q].text = questions[q].text
          /\ questions'[q].state = leaves(req[r].ask.act)
      BY <2>5, <3>1 DEF changed, Row
    <3>3. req[r].ask.act = "publish"
      BY <3>1, <3>2 DEF published, leaves, ChangeActs
    <3> QED BY <2>4, <3>2, <3>3, CheckedAtTheCommit
  <2> QED BY <2>2, <2>3, <2>6, <2>7
<1> QED BY <1>1, <1>2, <1>3, <1>4, PTL DEF Spec, TextsInTheBankWereChecked

(* A publication that finds its Question alone among the bank and the queue
   leaves it there alone: where it joins a Near-Duplicate, the event names
   one.  Additions are under way one at a time too, because they put texts
   into the queue.  (publicationFor.) *)
THEOREM PublicationsOverride ==
    Spec /\ []OneUnderWay(TextActs \cup {"add"}) => PublicationOverridesWhatItJoins
<1> DEFINE all == {"published", "pending"}
           acts == TextActs \cup {"add"}
           overrides == \A q \in QuestionIds :
              /\ ~published(q) /\ published(q)'
              /\ nearDuplicates(questions, questions[q].text, {"published", "pending"}, q) # {}
              => log'[Len(log')].overridden # {}
<1>1. Init => Entitled /\ Compared(all)
  BY EntitledInit DEF Init, Compared, compared, Idle
<1>2. Entitled /\ [Next]_vars => Entitled'
  BY EntitledStep
<1>3. Entitled /\ Compared(all) /\ OneUnderWay(acts) /\ [Next]_vars => Compared(all)'
  <2> SUFFICES ASSUME Entitled, Compared(all), OneUnderWay(acts), [Next]_vars
               PROVE  Compared(all)'
    OBVIOUS
  <2>1. TextActs \subseteq acts /\ "add" \in acts /\ all \in SUBSET {"published", "pending"}
    OBVIOUS
  <2> HIDE DEF all, acts
  <2> QED BY <2>1, ComparedStep
<1>4. Entitled /\ Compared(all) /\ [Next]_vars => [overrides]_vars
  <2> SUFFICES ASSUME Entitled, Compared(all), Next, NEW q \in QuestionIds,
                      ~published(q), published(q)',
                      nearDuplicates(questions, questions[q].text,
                                     {"published", "pending"}, q) # {}
               PROVE  log'[Len(log')].overridden # {}
    OBVIOUS
  <2>0. questions \in [QuestionIds -> {None} \cup Row] /\ log \in Seq(Entry)
    BY DEF Entitled, Typed, TypeOK
  <2>1. questions'[q] # questions[q]
    BY DEF published
  <2>2. PICK r \in Requests : \/ CommitEdit(r) \/ CommitChange(r)
                              \/ \E p \in QuestionIds : InsertQuestion(r, p)
    BY <2>1 DEF Next, Step, Authenticate, LookUp, LookUpRefused, Detect, RecordRefusal,
                LockQuestion, WriteRefused, SaveUpvote, RemoveUpvote, Abort, SetRole
  <2>3. ASSUME NEW p \in QuestionIds, InsertQuestion(r, p) PROVE FALSE
    BY <2>0, <2>1, <2>3 DEF InsertQuestion, addedRow, published
  <2>4. req[r].pc = "commit" /\ req[r].ask.question = q
    BY <2>0, <2>1, <2>2, <2>3 DEF CommitEdit, CommitChange
  <2>5. /\ questions[q] \in Row /\ questions[q] # None /\ req[r].ask \in Ask
        /\ req[r].viewer \in Viewer /\ req[r].found \in SUBSET NearDuplicate
    BY <2>4, HandFacts, RowIsNotNone DEF inHand
  <2>6. ~CommitEdit(r)
    <3> SUFFICES ASSUME CommitEdit(r) PROVE FALSE
      OBVIOUS
    <3>1. questions'[q] = edited(questions[q], req[r].ask)
      BY <2>0, <2>4 DEF CommitEdit
    <3>2. edited(questions[q], req[r].ask).state = questions[q].state
      BY <2>5 DEF edited, Row
    <3> QED BY <2>5, <3>1, <3>2 DEF published
  <2>7. CommitChange(r)
    BY <2>2, <2>3, <2>6
  <2>8. req[r].ask.act = "publish"
    <3>1. req[r].ask.act \in ChangeActs /\ questions'[q] = changed(questions[q], req[r].ask)
      BY <2>0, <2>4, <2>7, CommitFacts DEF CommitChange
    <3>2. questions'[q].state = leaves(req[r].ask.act)
      BY <2>5, <3>1 DEF changed, Row
    <3> QED BY <3>1, <3>2 DEF published, leaves, ChangeActs
  <2>9. req[r].found # {}
    <3>1. /\ needsCheck(req[r].seen, req[r].ask)
          /\ checkedText(req[r].seen, req[r].ask) = questions[q].text
      BY <2>4, <2>8, CheckedAtTheCommit
    <3>2. reach(req[r].ask) \cap all = {"published", "pending"}
      BY <2>8 DEF reach
    <3> QED BY <2>4, <2>8, <3>1, <3>2 DEF Compared, compared
  <2> DEFINE e == changedEntry(q, req[r].viewer, req[r].ask, req[r].found)
  <2>10. log' = Append(log, e)
    BY <2>4, <2>7 DEF CommitChange
  <2>11. e \in Entry /\ e.overridden = req[r].found
    <3>1. e.overridden = req[r].found
      BY DEF changedEntry, entry
    <3>2. e \in Entry
      BY <2>5, <2>8, EntryFacts DEF ChangeActs
    <3> QED BY <3>1, <3>2
  <2> HIDE DEF e
  <2>12. log'[Len(log')] = e
    BY <2>0, <2>10, <2>11
  <2> QED BY <2>9, <2>11, <2>12
<1> QED BY <1>1, <1>2, <1>3, <1>4, PTL DEF Spec, PublicationOverridesWhatItJoins

-----------------------------------------------------------------------------
(* Near-Duplicates in the bank *)

(* An event that gave a Question the text it has in the bank. *)
bankTextOf(e, q) ==
    /\ e.question = q
    /\ \/ e.type = "question_published"
       \/ e.type = "question_edited" /\ e.before.text # e.after.text

(* The last of these was confirmed. *)
confirmedIn(L, q) ==
    \E i \in 1..Len(L) :
       /\ bankTextOf(L[i], q)
       /\ \A j \in 1..Len(L) : bankTextOf(L[j], q) => j =< i
       /\ L[i].overridden # {}

isPublished(row) == row # None /\ row.state = "published"

pairsConfirmed(rows, L) ==
    \A p, q \in QuestionIds :
       /\ p # q /\ isPublished(rows[p]) /\ isPublished(rows[q])
       /\ <<rows[p].text, rows[q].text>> \in Similar
       => confirmedIn(L, p) \/ confirmedIn(L, q)

LEMMA PairsAreConfirmed == NearDuplicatesWereConfirmed <=> pairsConfirmed(questions, log)
<1> DEFINE bankText(i, q) == /\ log[i].question = q
                             /\ \/ log[i].type = "question_published"
                                \/ /\ log[i].type = "question_edited"
                                   /\ log[i].before.text # log[i].after.text
           confirmed(q) == \E i \in recorded :
                              /\ bankText(i, q)
                              /\ \A j \in recorded : bankText(j, q) => j =< i
                              /\ log[i].overridden # {}
<1>1. \A i, q : bankTextOf(log[i], q) <=> bankText(i, q)
  BY DEF bankTextOf
<1> HIDE DEF bankText
<1>2. \A q : confirmed(q) <=> confirmedIn(log, q)
  BY <1>1 DEF confirmedIn, recorded
<1> HIDE DEF confirmed
<1>3. NearDuplicatesWereConfirmed <=>
          \A p, q \in QuestionIds :
             /\ p # q /\ published(p) /\ published(q)
             /\ <<questions[p].text, questions[q].text>> \in Similar
             => confirmed(p) \/ confirmed(q)
  BY Zenon DEF NearDuplicatesWereConfirmed, confirmed, bankText
<1> QED BY <1>2, <1>3 DEF pairsConfirmed, isPublished, published

(* One event more. *)
LEMMA ConfirmedGrows ==
    ASSUME NEW L \in Seq(Entry), NEW e \in Entry, NEW q
    PROVE  /\ ~bankTextOf(e, q) /\ confirmedIn(L, q) => confirmedIn(Append(L, e), q)
           /\ bankTextOf(e, q) /\ e.overridden # {} => confirmedIn(Append(L, e), q)
<1> DEFINE N == Append(L, e)
           n == Len(L) + 1
<1>1. /\ Len(L) \in Nat /\ Len(N) = n /\ N[n] = e /\ n \in 1..Len(N)
      /\ \A i \in 1..Len(L) : i \in 1..Len(N) /\ N[i] = L[i]
      /\ \A i \in 1..Len(N) : i =< n /\ (i = n \/ i \in 1..Len(L))
  OBVIOUS
<1> HIDE DEF N, n
<1>2. ASSUME ~bankTextOf(e, q), confirmedIn(L, q) PROVE confirmedIn(N, q)
  <2>1. PICK i \in 1..Len(L) : /\ bankTextOf(L[i], q)
                               /\ \A j \in 1..Len(L) : bankTextOf(L[j], q) => j =< i
                               /\ L[i].overridden # {}
    BY <1>2 DEF confirmedIn
  <2>2. \A j \in 1..Len(N) : bankTextOf(N[j], q) => j =< i
    BY <1>1, <1>2, <2>1
  <2> QED BY <1>1, <2>1, <2>2 DEF confirmedIn
<1>3. ASSUME bankTextOf(e, q), e.overridden # {} PROVE confirmedIn(N, q)
  BY <1>1, <1>3 DEF confirmedIn
<1> QED BY <1>2, <1>3 DEF N

(* One act on one Question, recorded by one event: it leaves the text the
   Question has in the bank, or is confirmed, or found nothing like it there,
   or leaves the Question out of the bank. *)
LEMMA OneTextJoins ==
    ASSUME NEW L \in Seq(Entry), NEW e \in Entry, NEW x \in QuestionIds, e.question = x,
           NEW rows \in [QuestionIds -> {None} \cup Row],
           NEW rows2 \in [QuestionIds -> {None} \cup Row],
           \A p \in QuestionIds : p # x => rows2[p] = rows[p],
           pairsConfirmed(rows, L),
           isPublished(rows2[x]) =>
               \/ bankTextOf(e, x) /\ e.overridden # {}
               \/ nearDuplicates(rows, rows2[x].text, {"published"}, x) = {}
               \/ /\ ~bankTextOf(e, x)
                  /\ isPublished(rows[x]) /\ rows2[x].text = rows[x].text
    PROVE  pairsConfirmed(rows2, Append(L, e))
<1> DEFINE N == Append(L, e)
<1>1. \A q : ~bankTextOf(e, q) /\ confirmedIn(L, q) => confirmedIn(N, q)
  BY ConfirmedGrows
<1>2. bankTextOf(e, x) /\ e.overridden # {} => confirmedIn(N, x)
  BY ConfirmedGrows
<1>3. \A q : q # x => ~bankTextOf(e, q)
  BY DEF bankTextOf
<1> HIDE DEF N
<1>4. ASSUME NEW q \in QuestionIds, q # x, isPublished(rows2[x]), isPublished(rows2[q]),
             \/ <<rows2[x].text, rows2[q].text>> \in Similar
             \/ <<rows2[q].text, rows2[x].text>> \in Similar
      PROVE  confirmedIn(N, x) \/ confirmedIn(N, q)
  <2>1. rows2[q] = rows[q] /\ rows2[q] \in Row /\ rows2[x] \in Row
    BY <1>4 DEF isPublished
  <2>2. rows2[x].text \in Texts /\ rows2[q].text \in Texts
    BY <2>1 DEF Row
  <2>3. /\ <<rows2[q].text, rows2[x].text>> \in Similar
        /\ <<rows2[x].text, rows2[q].text>> \in Similar
    BY <1>4, <2>2, SimilarAssumption
  <2>4. CASE bankTextOf(e, x) /\ e.overridden # {}
    BY <1>2, <2>4
  <2>5. CASE nearDuplicates(rows, rows2[x].text, {"published"}, x) = {}
    BY <1>4, <2>1, <2>3, <2>5 DEF nearDuplicates, isPublished
  <2>6. CASE ~bankTextOf(e, x) /\ isPublished(rows[x]) /\ rows2[x].text = rows[x].text
    <3>1. confirmedIn(L, x) \/ confirmedIn(L, q)
      BY <1>4, <2>1, <2>3, <2>6 DEF pairsConfirmed
    <3> QED BY <1>1, <1>3, <1>4, <2>6, <3>1
  <2> QED BY <1>4, <2>4, <2>5, <2>6
<1>5. ASSUME NEW p \in QuestionIds, NEW q \in QuestionIds, p # q, p # x, q # x,
             isPublished(rows2[p]), isPublished(rows2[q]),
             <<rows2[p].text, rows2[q].text>> \in Similar
      PROVE  confirmedIn(N, p) \/ confirmedIn(N, q)
  <2>1. confirmedIn(L, p) \/ confirmedIn(L, q)
    BY <1>5 DEF pairsConfirmed
  <2> QED BY <1>1, <1>3, <1>5, <2>1
<1>6. pairsConfirmed(rows2, N)
  <2> SUFFICES ASSUME NEW p \in QuestionIds, NEW q \in QuestionIds, p # q,
                      isPublished(rows2[p]), isPublished(rows2[q]),
                      <<rows2[p].text, rows2[q].text>> \in Similar
               PROVE  confirmedIn(N, p) \/ confirmedIn(N, q)
    BY DEF pairsConfirmed
  <2>1. CASE p = x
    BY <1>4, <2>1
  <2>2. CASE q = x
    BY <1>4, <2>2
  <2>3. CASE p # x /\ q # x
    BY <1>5, <2>3
  <2> QED BY <2>1, <2>2, <2>3
<1> QED BY <1>6 DEF N

LEMMA PairsStep ==
    ASSUME Entitled, Entitled', Compared({"published"}), pairsConfirmed(questions, log), [Next]_vars
    PROVE  pairsConfirmed(questions', log')
<1>0. /\ questions \in [QuestionIds -> {None} \cup Row] /\ log \in Seq(Entry)
      /\ questions' \in [QuestionIds -> {None} \cup Row]
  BY DEF Entitled, Typed, TypeOK
<1>1. ASSUME UNCHANGED <<questions, log>> PROVE pairsConfirmed(questions', log')
  BY <1>1
<1>2. ASSUME NEW r \in Requests, RecordRefusal(r) PROVE pairsConfirmed(questions', log')
  <2> DEFINE e == refusedEntry(req[r].viewer, req[r].ask, req[r].found)
  <2>1. e.type = "near_duplicate_refused"
    BY DEF refusedEntry, entry
  <2>2. e \in Entry
    BY <1>2, HandFacts, EntryFacts DEF RecordRefusal
  <2>3. questions' = questions /\ log' = Append(log, e)
    BY <1>2 DEF RecordRefusal
  <2> HIDE DEF e
  <2>4. \A q : ~bankTextOf(e, q)
    BY <2>1 DEF bankTextOf
  <2>5. \A q : confirmedIn(log, q) => confirmedIn(log', q)
    BY <1>0, <2>2, <2>3, <2>4, ConfirmedGrows
  <2> QED BY <2>3, <2>5 DEF pairsConfirmed
<1>3. ASSUME NEW r \in Requests, NEW q \in QuestionIds, InsertQuestion(r, q)
      PROVE  pairsConfirmed(questions', log')
  <2> DEFINE e == addedEntry(q, req[r].viewer, req[r].ask, req[r].found)
  <2>1. e.question = q
    BY DEF addedEntry, entry
  <2>2. e \in Entry
    BY <1>3, HandFacts, EntryFacts DEF InsertQuestion
  <2>3. log' = Append(log, e)
    BY <1>3 DEF InsertQuestion
  <2>4. \A p \in QuestionIds : p # q => questions'[p] = questions[p]
    BY <1>0, <1>3 DEF InsertQuestion
  <2>5. ~isPublished(questions'[q])
    BY <1>0, <1>3 DEF InsertQuestion, addedRow, isPublished
  <2> HIDE DEF e
  <2> QED BY <1>0, <2>1, <2>2, <2>3, <2>4, <2>5, OneTextJoins
<1>4. ASSUME NEW r \in Requests, CommitEdit(r) PROVE pairsConfirmed(questions', log')
  <2> DEFINE q == req[r].ask.question
             after == edited(questions[q], req[r].ask)
             e == editedEntry(q, req[r].viewer, questions[q], after, req[r].found)
  <2>1. /\ req[r].pc = "commit" /\ req[r].ask.act = "edit"
        /\ questions' = [questions EXCEPT ![q] = after]
    BY <1>4 DEF CommitEdit
  <2>2. /\ req[r].ask \in Ask /\ req[r].viewer \in Viewer
        /\ req[r].found \in SUBSET NearDuplicate
        /\ q \in QuestionIds /\ questions[q] \in Row /\ req[r].before = questions[q]
    BY <2>1, HandFacts, CommitFacts
  <2>3. /\ questions'[q] = after
        /\ \A p \in QuestionIds : p # q => questions'[p] = questions[p]
    BY <1>0, <2>1, <2>2
  <2>4. CASE after = questions[q]
    <3>1. log' = log
      BY <1>4, <2>2, <2>4 DEF CommitEdit
    <3>2. questions' = questions
      BY <1>0, <2>1, <2>4
    <3> QED BY <1>1, <3>1, <3>2
  <2>5. CASE after # questions[q]
    <3>1. log' = Append(log, e)
      BY <1>4, <2>2, <2>5 DEF CommitEdit
    <3>2. e \in Entry /\ after \in Row
      BY <2>2, RowFacts, EntryFacts
    <3>3. after.state = questions[q].state
      BY <2>2 DEF edited, Row
    <3>4. e.question = q
      BY DEF editedEntry, entry
    <3>5. ASSUME isPublished(after), after.text # questions[q].text
          PROVE  /\ bankTextOf(e, q) /\ e.overridden = req[r].found
                 /\ req[r].found = {} =>
                       nearDuplicates(questions, after.text, {"published"}, q) = {}
      <4>1. /\ ContentOf(questions[q]).text = questions[q].text
            /\ ContentOf(after).text = after.text
        BY DEF ContentOf
      <4>2. /\ e.type = "question_edited" /\ e.overridden = req[r].found
            /\ e.before = ContentOf(questions[q]) /\ e.after = ContentOf(after)
        <5>1. ContentOf(questions[q]) # ContentOf(after)
          BY <3>5, <4>1
        <5> HIDE DEF after
        <5> QED BY <5>1 DEF editedEntry, entry
      <4>3. /\ needsCheck(req[r].seen, req[r].ask)
            /\ checkedText(req[r].seen, req[r].ask) = after.text
        BY <2>1, <3>3, <3>5, CheckedAtTheCommit DEF isPublished
      <4>4. reach(req[r].ask) \cap {"published"} = {"published"}
        BY DEF reach
      <4>5. req[r].found = {} => nearDuplicates(questions, after.text, {"published"}, q) = {}
        BY <2>1, <4>3, <4>4 DEF Compared, compared
      <4> HIDE DEF e, after
      <4> QED BY <3>4, <3>5, <4>1, <4>2, <4>5 DEF bankTextOf
    <3>6. ASSUME after.text = questions[q].text PROVE ~bankTextOf(e, q)
      <4>1. e.type = "question_edited" =>
                e.before = ContentOf(questions[q]) /\ e.after = ContentOf(after)
        <5> HIDE DEF after
        <5> QED BY DEF editedEntry, entry
      <4>2. e.type \in {"question_edited", "clients_only"}
        <5> HIDE DEF after
        <5> QED BY DEF editedEntry, entry
      <4>3. ContentOf(questions[q]).text = ContentOf(after).text
        BY <3>6 DEF ContentOf
      <4> HIDE DEF e, after
      <4> QED BY <4>1, <4>2, <4>3 DEF bankTextOf
    <3>7. isPublished(after) =>
              \/ bankTextOf(e, q) /\ e.overridden # {}
              \/ nearDuplicates(questions, after.text, {"published"}, q) = {}
              \/ ~bankTextOf(e, q) /\ isPublished(questions[q]) /\ after.text = questions[q].text
      <4> HIDE DEF e, after
      <4> QED BY <2>2, <3>3, <3>5, <3>6, RowIsNotNone DEF isPublished
    <3> HIDE DEF e, after
    <3> QED BY <1>0, <2>2, <2>3, <3>1, <3>2, <3>4, <3>7, OneTextJoins
  <2> QED BY <2>4, <2>5
<1>5. ASSUME NEW r \in Requests, CommitChange(r) PROVE pairsConfirmed(questions', log')
  <2> DEFINE q == req[r].ask.question
             after == changed(questions[q], req[r].ask)
             e == changedEntry(q, req[r].viewer, req[r].ask, req[r].found)
  <2>1. /\ req[r].pc = "commit" /\ req[r].ask.act # "edit"
        /\ questions' = [questions EXCEPT ![q] = after]
        /\ log' = Append(log, e)
    BY <1>5 DEF CommitChange
  <2>2. /\ req[r].ask \in Ask /\ req[r].viewer \in Viewer
        /\ req[r].found \in SUBSET NearDuplicate
        /\ q \in QuestionIds /\ questions[q] \in Row /\ req[r].ask.act \in ChangeActs
    BY <2>1, HandFacts DEF inHand
  <2>3. /\ questions'[q] = after
        /\ \A p \in QuestionIds : p # q => questions'[p] = questions[p]
    BY <1>0, <2>1, <2>2
  <2>4. e \in Entry /\ e.question = q
    <3>1. e.question = q
      BY DEF changedEntry, entry
    <3>2. e \in Entry
      BY <2>2, EntryFacts
    <3> QED BY <3>1, <3>2
  <2>5. after.text = questions[q].text /\ after.state = leaves(req[r].ask.act)
    BY <2>2 DEF changed, Row
  <2>6. ASSUME isPublished(after)
        PROVE  \/ bankTextOf(e, q) /\ e.overridden # {}
               \/ nearDuplicates(questions, after.text, {"published"}, q) = {}
    <3>1. req[r].ask.act = "publish"
      BY <2>2, <2>5, <2>6 DEF isPublished, leaves, ChangeActs
    <3>2. /\ needsCheck(req[r].seen, req[r].ask)
          /\ checkedText(req[r].seen, req[r].ask) = after.text
      BY <2>1, <2>5, <3>1, CheckedAtTheCommit
    <3>3. reach(req[r].ask) \cap {"published"} = {"published"}
      BY DEF reach
    <3>4. req[r].found = {} => nearDuplicates(questions, after.text, {"published"}, q) = {}
      BY <2>1, <3>1, <3>2, <3>3 DEF Compared, compared
    <3>5. e.type = "question_published" /\ e.overridden = req[r].found
      BY <3>1 DEF changedEntry, entry, eventOf
    <3> HIDE DEF e, after
    <3> QED BY <2>4, <3>4, <3>5 DEF bankTextOf
  <2> HIDE DEF e, after
  <2> QED BY <1>0, <2>1, <2>2, <2>3, <2>4, <2>6, OneTextJoins
<1>6. ASSUME NEW r \in Requests,
             \/ \E v \in Viewers, a \in Asks : Authenticate(r, v, a)
             \/ LookUp(r) \/ LookUpRefused(r) \/ Detect(r) \/ LockQuestion(r)
             \/ WriteRefused(r) \/ SaveUpvote(r) \/ RemoveUpvote(r) \/ Abort(r)
      PROVE  pairsConfirmed(questions', log')
  BY <1>1, <1>6 DEF Authenticate, LookUp, LookUpRefused, Detect, LockQuestion, WriteRefused,
                    SaveUpvote, RemoveUpvote, Abort
<1>7. ASSUME NEW v, NEW new, SetRole(v, new) PROVE pairsConfirmed(questions', log')
  BY <1>1, <1>7 DEF SetRole
<1>8. CASE UNCHANGED vars
  BY <1>1, <1>8 DEF vars
<1> QED BY <1>2, <1>3, <1>4, <1>5, <1>6, <1>7, <1>8 DEF Next, Step

(* While no two acts on a text are under way at once, two Near-Duplicates are
   in the bank only by an act that was confirmed.  (refuseUnlessConfirmed,
   which no lock holds to the write; README.md, "so two near-identical
   submissions do not both reach the bank".) *)
THEOREM NearDuplicatesAreConfirmed ==
    Spec /\ []OneUnderWay(TextActs) => []NearDuplicatesWereConfirmed
<1>1. Init => Entitled /\ Compared({"published"}) /\ pairsConfirmed(questions, log)
  BY EntitledInit DEF Init, Compared, compared, Idle, pairsConfirmed, isPublished
<1>2. Entitled /\ [Next]_vars => Entitled'
  BY EntitledStep
<1>3. Entitled /\ Compared({"published"}) /\ OneUnderWay(TextActs) /\ [Next]_vars
          => Compared({"published"})'
  BY ComparedStep
<1>4. /\ Entitled /\ Entitled' /\ Compared({"published"}) /\ NearDuplicatesWereConfirmed
      /\ [Next]_vars
      => NearDuplicatesWereConfirmed'
  <2> SUFFICES ASSUME Entitled, Entitled', Compared({"published"}),
                      NearDuplicatesWereConfirmed, [Next]_vars
               PROVE  NearDuplicatesWereConfirmed'
    OBVIOUS
  <2>1. pairsConfirmed(questions', log')
    BY PairsAreConfirmed, PairsStep
  <2>2. (NearDuplicatesWereConfirmed <=> pairsConfirmed(questions, log))'
    BY PairsAreConfirmed, PTL
  <2> QED BY <2>1, <2>2
<1> QED BY <1>1, <1>2, <1>3, <1>4, PairsAreConfirmed, PTL DEF Spec
=============================================================================
