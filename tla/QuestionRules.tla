---------------------------- MODULE QuestionRules ----------------------------
(***************************************************************************)
(* The rules of the question bank that need no state: what a Question and  *)
(* its Change Events are, who sees a Question and who may do what to it,   *)
(* which Publication State each act starts from and leaves, what an edit   *)
(* makes of a row, and which Questions are Near-Duplicates of a text.      *)
(***************************************************************************)
EXTENDS Integers, Sequences, FiniteSets

CONSTANTS
    Viewers,                  \* the people with an account
    QuestionIds,              \* the ids a run has to give out
    Texts,                    \* Question texts
    Notes,                    \* Answer Notes together with Tags: what an edit
                              \* changes that detection never reads
    Clients,
    Reasons,
    Similar,                  \* pairs of texts at or over nearDuplicateThreshold
    mostNearDuplicatesNamed,
    None                      \* a field left out, a null column, no row

\* Two texts are alike in either order: similarity compares their trigram sets.
ASSUME SimilarAssumption ==
    /\ Similar \subseteq Texts \X Texts
    /\ \A s, t \in Texts : <<s, t>> \in Similar => <<t, s>> \in Similar

ASSUME NamedAssumption == mostNearDuplicatesNamed \in Nat \ {0}

-----------------------------------------------------------------------------
(* Rows, requests and events *)

Roles == {"reader", "author", "reviewer"}

PublicationStates == {"pending", "published", "rejected"}

ChangeActs == {"publish", "reject", "resubmit", "return"}

Acts == {"add", "edit", "upvote", "takeBack"} \cup ChangeActs

\* The Viewer as the access check read them when the request began.
Viewer == [id: Viewers, role: Roles]

Content == [text: Texts, notes: Notes]

Row == [author: Viewers, text: Texts, notes: Notes, clients: SUBSET Clients,
        state: PublicationStates, reason: {None} \cup Reasons]

ASSUME NoneAssumption ==
    /\ None \notin Viewers \cup QuestionIds \cup Texts \cup Notes \cup Reasons
    /\ \A C \in SUBSET Clients : C # None
    /\ \A row \in Row : row # None

ContentOf(row) == [text |-> row.text, notes |-> row.notes]

(* A request body after its schema has parsed it. Reject and return carry a
   reason and nothing else does; an edit may leave any field out. *)
Ask == {a \in [act: Acts, question: {None} \cup QuestionIds,
               text: {None} \cup Texts, notes: {None} \cup Notes,
               clients: {None} \cup SUBSET Clients,
               reason: {None} \cup Reasons, confirmed: BOOLEAN] :
          /\ (a.question = None) <=> (a.act = "add")
          /\ (a.reason # None) <=> (a.act \in {"reject", "return"})
          /\ a.act = "add" =>
                /\ a.text # None
                /\ a.notes # None
                /\ a.clients # None}

NearDuplicate == [question: QuestionIds, text: Texts]

MovingTypes == {"question_published", "question_rejected",
                "question_resubmitted", "question_returned"}

(* What one transaction writes to change_events about one Question, as one
   entry: the event of the act ("clients_only" when an edit changed nothing
   but Clients), the question_client_added and question_client_removed events
   as two sets of Clients, and the near_duplicate_overridden event as the
   Near-Duplicates it names, none when they are {}. *)
Entry == [type: {"question_added", "question_edited", "clients_only",
                 "near_duplicate_refused"} \cup MovingTypes,
          question: {None} \cup QuestionIds, viewer: Viewers,
          before: {None} \cup Content, after: {None} \cup Content,
          reason: {None} \cup Reasons,
          clientsAdded: SUBSET Clients, clientsRemoved: SUBSET Clients,
          overridden: SUBSET NearDuplicate, refusedFor: SUBSET NearDuplicate]

-----------------------------------------------------------------------------
(* Who sees a Question, and who may do what to it *)

visibleQuestions(viewer, row) ==
    \/ viewer.role = "reviewer"
    \/ row.state = "published"
    \/ row.author = viewer.id

mayAddAQuestion(viewer) == viewer.role \in {"author", "reviewer"}

(* Mutant: an Author edits what they can see. *)
mayEdit_anyAuthor(viewer, row) == viewer.role \in {"author", "reviewer"}

mayEdit(viewer, row) ==
    \/ viewer.role = "reviewer"
    \/ viewer.role = "author" /\ row.author = viewer.id

mayPublish(viewer) == viewer.role = "reviewer"

mayResubmit(viewer, row) == row.author = viewer.id /\ mayEdit(viewer, row)

(* actRules, and the two Upvote acts, which ask nothing about who. *)
may(viewer, row, act) ==
    /\ act \in {"edit", "reject"} => mayEdit(viewer, row)
    /\ act \in {"publish", "return"} => mayPublish(viewer)
    /\ act = "resubmit" => mayResubmit(viewer, row)

-----------------------------------------------------------------------------
(* changePlans: where each act starts, what it leaves, what it records *)

startsFrom(act) ==
    CASE act = "publish"  -> "pending"
      [] act = "reject"   -> "pending"
      [] act = "resubmit" -> "rejected"
      [] act = "return"   -> "published"

leaves(act) ==
    CASE act = "publish"  -> "published"
      [] act = "reject"   -> "rejected"
      [] act = "resubmit" -> "pending"
      [] act = "return"   -> "rejected"

eventOf(act) ==
    CASE act = "publish"  -> "question_published"
      [] act = "reject"   -> "question_rejected"
      [] act = "resubmit" -> "question_resubmitted"
      [] act = "return"   -> "question_returned"

(* Mutant: the acts that carry no reason leave the one that was there. *)
changed_keepsReason(row, a) ==
    [row EXCEPT !.state = leaves(a.act),
                !.reason = IF a.reason = None THEN @ ELSE a.reason]

(* plan.writes: a reason for the acts that carry one, null for the others. *)
changed(row, a) == [row EXCEPT !.state = leaves(a.act), !.reason = a.reason]

-----------------------------------------------------------------------------
(* Edits *)

given(field, old) == IF field = None THEN old ELSE field

(* Mutant: a text left out is written as null. *)
edited_nullText(row, a) ==
    [row EXCEPT !.text = a.text,
                !.notes = given(a.notes, @),
                !.clients = given(a.clients, @)]

(* updateMany with only the named columns, the Tags and replaceClientsOf. *)
edited(row, a) ==
    [row EXCEPT !.text = given(a.text, @),
                !.notes = given(a.notes, @),
                !.clients = given(a.clients, @)]

addedRow(viewer, a) ==
    [author |-> viewer.id, text |-> a.text, notes |-> a.notes,
     clients |-> a.clients, state |-> "pending", reason |-> None]

-----------------------------------------------------------------------------
(* What each transaction records *)

entry(type, q, viewer) ==
    [type |-> type, question |-> q, viewer |-> viewer.id,
     before |-> None, after |-> None, reason |-> None,
     clientsAdded |-> {}, clientsRemoved |-> {},
     overridden |-> {}, refusedFor |-> {}]

addedEntry(q, viewer, a, found) ==
    [entry("question_added", q, viewer) EXCEPT
        !.after = [text |-> a.text, notes |-> a.notes],
        !.clientsAdded = a.clients,
        !.overridden = found]

(* whatChanged: no question_edited event, and no override beside it, when the
   content ends as it was. *)
editedEntry(q, viewer, before, after, found) ==
    LET clientsIn(type) ==
            [entry(type, q, viewer) EXCEPT
                !.clientsAdded = after.clients \ before.clients,
                !.clientsRemoved = before.clients \ after.clients]
    IN  IF ContentOf(before) = ContentOf(after)
        THEN clientsIn("clients_only")
        ELSE [clientsIn("question_edited") EXCEPT
                !.before = ContentOf(before),
                !.after = ContentOf(after),
                !.overridden = found]

changedEntry(q, viewer, a, found) ==
    [entry(eventOf(a.act), q, viewer) EXCEPT !.reason = a.reason,
                                             !.overridden = found]

refusedEntry(viewer, a, found) ==
    [entry("near_duplicate_refused", a.question, viewer) EXCEPT
        !.refusedFor = found]

-----------------------------------------------------------------------------
(* Near-Duplicates *)

(* The Questions in `states` whose text is too like `text`, without the
   excluded one. *)
nearDuplicates(rows, text, states, excluding) ==
    {[question |-> q, text |-> rows[q].text] : q \in
        {p \in QuestionIds : /\ rows[p] # None
                             /\ rows[p].state \in states
                             /\ p # excluding
                             /\ <<rows[p].text, text>> \in Similar}}

(* What detection may answer: the closest few. Which ones are closest is left
   open; that it answers none only when there is none is not. *)
findNearDuplicatesAmong(rows, text, states, excluding) ==
    LET near == nearDuplicates(rows, text, states, excluding)
    IN  {F \in SUBSET near :
            \/ F = near /\ Cardinality(near) =< mostNearDuplicatesNamed
            \/ /\ Cardinality(near) > mostNearDuplicatesNamed
               /\ Cardinality(F) = mostNearDuplicatesNamed}
=============================================================================
