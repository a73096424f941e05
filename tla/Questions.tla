------------------------------ MODULE Questions ------------------------------
(***************************************************************************)
(* The question bank as the API serves it.  Each request is authenticated, *)
(* reads the Question it names, decides by that read and by the role it    *)
(* was authenticated with, runs near-duplicate detection, and only then    *)
(* writes, in a transaction that locks the row.  Requests interleave at    *)
(* every statement; READ COMMITTED shows each statement what is committed  *)
(* when it runs.                                                           *)
(***************************************************************************)
EXTENDS QuestionRules

CONSTANTS
    Requests,       \* the requests that can be in flight at once
    Asks,           \* the request bodies clients send in this instance
    InitialRole,    \* [Viewers -> Roles]
    RoleChanges,    \* <<viewer, role>>: what Administrators may set
    MaxEntries      \* no act that may be recorded begins once the log is this long

ASSUME AsksAssumption == Asks \subseteq Ask

ASSUME RolesAssumption ==
    /\ InitialRole \in [Viewers -> Roles]
    /\ RoleChanges \subseteq Viewers \X Roles

VARIABLES
    questions,      \* the questions table: QuestionIds -> Row or None
    log,            \* change_events, one entry per transaction that wrote some
    upvotes,        \* the upvotes table: pairs of Question and Viewer
    role,           \* viewers.role
    req             \* what each request has in hand

vars == <<questions, log, upvotes, role, req>>

(* A request: where it is in its handler, who it acts for, what it asks, the
   row it read, the Near-Duplicates it found, and, inside its transaction, the
   row as locked and whether it inserted the Author's Upvote. *)
Request ==
    [pc: {"idle", "lookup", "detect", "refuse", "write", "commit", "save", "remove"},
     viewer: {None} \cup Viewer, ask: {None} \cup Ask,
     seen: {None} \cup Row, found: SUBSET NearDuplicate,
     before: {None} \cup Row, gives: BOOLEAN]

Idle == [pc |-> "idle", viewer |-> None, ask |-> None, seen |-> None,
         found |-> {}, before |-> None, gives |-> FALSE]

TypeOK ==
    /\ questions \in [QuestionIds -> {None} \cup Row]
    /\ log \in Seq(Entry)
    /\ upvotes \subseteq QuestionIds \X Viewers
    /\ role \in [Viewers -> Roles]
    /\ req \in [Requests -> Request]

Init ==
    /\ questions = [q \in QuestionIds |-> None]
    /\ log = <<>>
    /\ upvotes = {}
    /\ role = InitialRole
    /\ req = [r \in Requests |-> Idle]

-----------------------------------------------------------------------------
(* Inside a request *)

finish(r) == req' = [req EXCEPT ![r] = Idle]

(* Mutant: the row is read without FOR UPDATE. *)
rowLocked_plainSelect(q) == FALSE

(* Mutant: a writer holds the row it looked up and waits for the others. *)
rowLocked_fromLookUp(q) ==
    \E r \in Requests : req[r].pc \in {"write", "commit"} /\ req[r].ask.question = q

(* FOR UPDATE, held from the lock to the commit. *)
rowLocked(q) ==
    \E r \in Requests : req[r].pc = "commit" /\ req[r].ask.question = q

(* The bounds of the instance, and nothing the code has: how long the log may
   grow, and that every Question being added will find an id. *)
withinBounds(a) ==
    /\ a.act \in {"upvote", "takeBack"} \/ Len(log) < MaxEntries
    /\ a.act = "add" =>
          Cardinality({q \in QuestionIds : questions[q] = None}) >
          Cardinality({r \in Requests : req[r].pc # "idle" /\ req[r].ask.act = "add"})

(* requireViewer reads the Viewer once, before the handler; everything after
   uses what it read.  POST /questions also refuses by role here. *)
Authenticate(r, v, a) ==
    /\ req[r].pc = "idle"
    /\ withinBounds(a)
    /\ LET viewer == [id |-> v, role |-> role[v]]
       IN  /\ a.act = "add" => mayAddAQuestion(viewer)
           /\ req' = [req EXCEPT ![r] =
                [Idle EXCEPT !.pc = IF a.act = "add" THEN "detect" ELSE "lookup",
                             !.viewer = viewer, !.ask = a]]
    /\ UNCHANGED <<questions, log, upvotes, role>>

(* findVisibleQuestionById, then the rule of the act: what lets a request go
   on.  An upvote also needs the Question to be Published as it was read. *)
allowed(viewer, row, act) ==
    /\ row # None
    /\ visibleQuestions(viewer, row)
    /\ may(viewer, row, act)
    /\ act = "upvote" => row.state = "published"

afterLookUp(act) ==
    CASE act \in {"edit", "publish"} -> "detect"
      [] act \in {"reject", "resubmit", "return"} -> "write"
      [] act = "upvote" -> "save"
      [] act = "takeBack" -> "remove"

LookUp(r) ==
    /\ req[r].pc = "lookup"
    /\ LET row == questions[req[r].ask.question]
       IN  /\ allowed(req[r].viewer, row, req[r].ask.act)
           /\ req' = [req EXCEPT ![r].pc = afterLookUp(req[r].ask.act),
                                 ![r].seen = row]
    /\ UNCHANGED <<questions, log, upvotes, role>>

LookUpRefused(r) ==
    /\ req[r].pc = "lookup"
    /\ ~allowed(req[r].viewer, questions[req[r].ask.question], req[r].ask.act)
    /\ finish(r)
    /\ UNCHANGED <<questions, log, upvotes, role>>

-----------------------------------------------------------------------------
(* Near-duplicate detection *)

(* Mutant: edits are never checked. *)
needsCheck_noEdits(seen, a) ==
    \/ a.act = "add"
    \/ a.act = "publish" /\ seen.state = "pending"

(* checkEditedText and publicationFor: by the row as it was read. *)
needsCheck(seen, a) ==
    \/ a.act = "add"
    \/ /\ a.act = "edit"
       /\ seen.state = "published"
       /\ a.text \notin {None, seen.text}
    \/ /\ a.act = "publish"
       /\ seen.state = "pending"

checkedText(seen, a) == IF a.act = "publish" THEN seen.text ELSE a.text

(* Mutant: a publication is compared with the bank alone, as an addition is. *)
reach_bankOnly(a) == {"published"}

reach(a) == IF a.act = "publish" THEN {"published", "pending"} ELSE {"published"}

Detect(r) ==
    /\ req[r].pc = "detect"
    /\ LET a == req[r].ask
           seen == req[r].seen
       IN  \E F \in IF needsCheck(seen, a)
                    THEN findNearDuplicatesAmong(questions, checkedText(seen, a),
                                                 reach(a), a.question)
                    ELSE {{}} :
              req' = [req EXCEPT
                        ![r].pc = IF F = {} \/ a.confirmed THEN "write" ELSE "refuse",
                        ![r].found = F]
    /\ UNCHANGED <<questions, log, upvotes, role>>

(* The refusal is recorded by itself, outside any transaction of the act.  Its
   foreign key waits for a transaction that holds the row. *)
RecordRefusal(r) ==
    /\ req[r].pc = "refuse"
    /\ ~rowLocked(req[r].ask.question)
    /\ log' = Append(log, refusedEntry(req[r].viewer, req[r].ask, req[r].found))
    /\ finish(r)
    /\ UNCHANGED <<questions, upvotes, role>>

-----------------------------------------------------------------------------
(* Writes *)

(* One transaction on a row nobody else can name yet. *)
InsertQuestion(r, q) ==
    /\ req[r].pc = "write"
    /\ req[r].ask.act = "add"
    /\ questions[q] = None
    /\ questions' = [questions EXCEPT ![q] = addedRow(req[r].viewer, req[r].ask)]
    /\ log' = Append(log, addedEntry(q, req[r].viewer, req[r].ask, req[r].found))
    /\ finish(r)
    /\ UNCHANGED <<upvotes, role>>

(* What the transaction finds once it has the lock: still Visible, and for a
   change still in the state it starts from. *)
stillWritable(viewer, row, a) ==
    /\ visibleQuestions(viewer, row)
    /\ a.act # "edit" => row.state = startsFrom(a.act)

(* The Author from the row, because the Viewer acting here is the Reviewer. *)
authorsUpvote(r) ==
    <<req[r].ask.question, questions[req[r].ask.question].author>>

(* lockVisibleQuestion, and the statements up to the commit, which nobody else
   sees: the row before the edit, the state condition of the change, and
   whether giveTheAuthorsUpvote inserts or finds the Upvote already there. *)
LockQuestion(r) ==
    /\ req[r].pc = "write"
    /\ req[r].ask.act # "add"
    /\ LET q == req[r].ask.question
           row == questions[q]
       IN  /\ ~rowLocked(q)
           /\ stillWritable(req[r].viewer, row, req[r].ask)
           /\ req' = [req EXCEPT
                        ![r].pc = "commit",
                        ![r].before = row,
                        ![r].gives = /\ req[r].ask.act = "publish"
                                     /\ authorsUpvote(r) \notin upvotes]
    /\ UNCHANGED <<questions, log, upvotes, role>>

WriteRefused(r) ==
    /\ req[r].pc = "write"
    /\ req[r].ask.act # "add"
    /\ ~rowLocked(req[r].ask.question)
    /\ ~stillWritable(req[r].viewer, questions[req[r].ask.question], req[r].ask)
    /\ finish(r)
    /\ UNCHANGED <<questions, log, upvotes, role>>

(* editLockedQuestion: the named columns are written to the row as it stands,
   and the event compares the reads on either side of the write. *)
CommitEdit(r) ==
    LET q == req[r].ask.question
        after == edited(questions[q], req[r].ask)
    IN  /\ req[r].pc = "commit"
        /\ req[r].ask.act = "edit"
        /\ questions' = [questions EXCEPT ![q] = after]
        /\ log' = IF after = req[r].before
                  THEN log
                  ELSE Append(log, editedEntry(q, req[r].viewer, req[r].before,
                                               after, req[r].found))
        /\ finish(r)
        /\ UNCHANGED <<upvotes, role>>

(* changeLockedQuestion. *)
CommitChange(r) ==
    LET q == req[r].ask.question
    IN  /\ req[r].pc = "commit"
        /\ req[r].ask.act # "edit"
        /\ questions' = [questions EXCEPT ![q] = changed(@, req[r].ask)]
        /\ log' = Append(log, changedEntry(q, req[r].viewer, req[r].ask, req[r].found))
        /\ upvotes' = IF req[r].gives
                      THEN upvotes \cup {authorsUpvote(r)}
                      ELSE upvotes
        /\ finish(r)
        /\ UNCHANGED role

(* Not in a transaction with the look-up.  An insert waits, by its foreign
   key, for a transaction that holds the Question; a duplicate is skipped. *)
SaveUpvote(r) ==
    LET upvote == <<req[r].ask.question, req[r].viewer.id>>
    IN  /\ req[r].pc = "save"
        /\ upvote \in upvotes \/ ~rowLocked(req[r].ask.question)
        /\ upvotes' = upvotes \cup {upvote}
        /\ finish(r)
        /\ UNCHANGED <<questions, log, role>>

RemoveUpvote(r) ==
    /\ req[r].pc = "remove"
    /\ upvotes' = upvotes \ {<<req[r].ask.question, req[r].viewer.id>>}
    /\ finish(r)
    /\ UNCHANGED <<questions, log, role>>

-----------------------------------------------------------------------------
(* Around the requests *)

(* The process, its connection or the transaction's time limit ends a request
   at any statement, and the database rolls back what was not committed. *)
Abort(r) ==
    /\ req[r].pc # "idle"
    /\ finish(r)
    /\ UNCHANGED <<questions, log, upvotes, role>>

(* An Administrator changes a role, whatever requests are in flight. *)
SetRole(v, new) ==
    /\ role[v] # new
    /\ role' = [role EXCEPT ![v] = new]
    /\ UNCHANGED <<questions, log, upvotes, req>>

Step(r) ==
    \/ LookUp(r)
    \/ LookUpRefused(r)
    \/ Detect(r)
    \/ RecordRefusal(r)
    \/ \E q \in QuestionIds : InsertQuestion(r, q)
    \/ LockQuestion(r)
    \/ WriteRefused(r)
    \/ CommitEdit(r)
    \/ CommitChange(r)
    \/ SaveUpvote(r)
    \/ RemoveUpvote(r)

Next ==
    \/ \E r \in Requests :
          \/ \E v \in Viewers, a \in Asks : Authenticate(r, v, a)
          \/ Step(r)
          \/ Abort(r)
    \/ \E change \in RoleChanges : SetRole(change[1], change[2])

Spec == Init /\ [][Next]_vars

(* Node runs every handler on and PostgreSQL grants a row lock to those who
   wait for it in turn, so a request that can go on does. *)
Fairness == \A r \in Requests : SF_vars(Step(r))

FairSpec == Spec /\ Fairness

-----------------------------------------------------------------------------
(* Invariants *)

recorded == 1..Len(log)

published(q) == questions[q] # None /\ questions[q].state = "published"

moves(i, q) == log[i].question = q /\ log[i].type \in {"question_added"} \cup MovingTypes

writesText(i, q) ==
    log[i].question = q /\ log[i].type \in {"question_added", "question_edited"}

touchesClient(i, q, c) ==
    log[i].question = q /\ c \in log[i].clientsAdded \cup log[i].clientsRemoved

stateAfter(i) ==
    CASE log[i].type = "question_published" -> "published"
      [] log[i].type \in {"question_rejected", "question_returned"} -> "rejected"
      [] log[i].type \in {"question_added", "question_resubmitted"} -> "pending"

(* The log about a Question, replayed, gives its row: its Publication State
   and reason are those of the last event that moved it, its text and notes
   those of the last event that wrote them, and it names the Clients last
   recorded as added.  (changeLockedQuestion, editLockedQuestion and
   recordClientsChanged write row and log apart, in one transaction.) *)
HistoryReplaysToRow ==
    \A q \in QuestionIds :
       /\ \A i \in recorded :
            /\ moves(i, q) /\ (\A j \in recorded : moves(j, q) => j =< i) =>
                  /\ questions[q] # None
                  /\ questions[q].state = stateAfter(i)
                  /\ questions[q].reason = log[i].reason
            /\ writesText(i, q) /\ (\A j \in recorded : writesText(j, q) => j =< i) =>
                  /\ questions[q] # None
                  /\ ContentOf(questions[q]) = log[i].after
            /\ \A c \in Clients :
                  (/\ touchesClient(i, q, c)
                   /\ \A j \in recorded : touchesClient(j, q, c) => j =< i) =>
                     /\ questions[q] # None
                     /\ c \in questions[q].clients <=> c \in log[i].clientsAdded
       /\ questions[q] # None =>
            /\ \E i \in recorded : log[i].question = q /\ log[i].type = "question_added"
            /\ \A c \in questions[q].clients :
                  \E i \in recorded : touchesClient(i, q, c)

(* Once the look-up has let a write through, no other act hides its Question:
   the second visibility check, under the lock, never answers not found. *)
LookedUpStaysVisible ==
    \A r \in Requests :
        req[r].pc \in {"detect", "write", "commit"} /\ req[r].ask.act # "add" =>
            LET row == questions[req[r].ask.question]
            IN  row # None /\ visibleQuestions(req[r].viewer, row)

(* Of two Published Questions that are Near-Duplicates, at least one reached
   the text it has in the bank by an act its Viewer confirmed, recorded as an
   override.  (refuseUnlessConfirmed; README.md, "so two near-identical
   submissions do not both reach the bank".) *)
NearDuplicatesWereConfirmed ==
    LET bankText(i, q) == /\ log[i].question = q
                          /\ \/ log[i].type = "question_published"
                             \/ /\ log[i].type = "question_edited"
                                /\ log[i].before.text # log[i].after.text
        confirmed(q) == \E i \in recorded :
                           /\ bankText(i, q)
                           /\ \A j \in recorded : bankText(j, q) => j =< i
                           /\ log[i].overridden # {}
    IN  \A p, q \in QuestionIds :
           /\ p # q /\ published(p) /\ published(q)
           /\ <<questions[p].text, questions[q].text>> \in Similar
           => confirmed(p) \/ confirmed(q)

-----------------------------------------------------------------------------
(* What a step may never do *)

(* A Question that joins the bank beside a Near-Duplicate, in the bank or in
   the review queue, is recorded as an override.  (publicationFor.) *)
PublicationOverridesWhatItJoins ==
    [][\A q \in QuestionIds :
          /\ ~published(q) /\ published(q)'
          /\ nearDuplicates(questions, questions[q].text, {"published", "pending"}, q) # {}
          => log'[Len(log')].overridden # {}]_vars

(* A text reaches the bank, by publication or by an edit of a Published
   Question, only by an act that had it compared with the bank.  (docs/adr/0014:
   a Pending Question needs no edit-time check, because the publication check
   covers it.) *)
TextsInTheBankWereChecked ==
    [][\A q \in QuestionIds :
          /\ published(q)'
          /\ published(q) => questions[q].text # questions'[q].text
          => \E r \in Requests :
                /\ req[r].pc = "commit"
                /\ req[r].ask.question = q
                /\ needsCheck(req[r].seen, req[r].ask)
                /\ checkedText(req[r].seen, req[r].ask) = questions'[q].text]_vars

(* The serial bank, of which this is the implementation: its tables are the
   tables here, and what a request has in hand is no part of it. *)
Bank == INSTANCE QuestionBank
            WITH questions <- questions, log <- log, upvotes <- upvotes

(* Every act is one step on the serial bank, or none: what the requests read
   and decide between their statements never shows, a Question takes each act
   from the state it starts from, only one that was once in the bank holds an
   Upvote, and one Upvote goes at a time.  (writeVisibleQuestion;
   upvoteQuestion, whose check and insert nothing holds together.) *)
ActsAreAtomic == Bank!BankSpec

-----------------------------------------------------------------------------
(* Progress *)

(* Every request is answered: no two of them wait for each other's rows. *)
EveryRequestIsAnswered ==
    \A r \in Requests : req[r].pc # "idle" ~> req[r].pc = "idle"
=============================================================================
