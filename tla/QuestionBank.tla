----------------------------- MODULE QuestionBank -----------------------------
(***************************************************************************)
(* What the question bank promises: every act on a Question is one step,   *)
(* taken on the row as it is at that moment, together with the Change      *)
(* Events that record it.  There are no requests, no transactions and no   *)
(* locks here.  Questions implements this specification.                   *)
(***************************************************************************)
EXTENDS QuestionRules

CONSTANT Asks       \* the request bodies clients send

VARIABLES
    questions,    \* the questions table
    log,          \* change_events, one entry per transaction that wrote some
    upvotes       \* the upvotes table

bankVars == <<questions, log, upvotes>>

BankInit ==
    /\ questions = [q \in QuestionIds |-> None]
    /\ log = <<>>
    /\ upvotes = {}

(* What a detection may name: no more than so many. *)
named == {F \in SUBSET NearDuplicate : Cardinality(F) =< mostNearDuplicatesNamed}

Add(q, viewer, a) ==
    /\ questions[q] = None
    /\ mayAddAQuestion(viewer)
    /\ questions' = [questions EXCEPT ![q] = addedRow(viewer, a)]
    /\ \E found \in named : log' = Append(log, addedEntry(q, viewer, a, found))
    /\ UNCHANGED upvotes

(* An edit that changes nothing is no step, and is not recorded. *)
Edit(q, viewer, a) ==
    LET before == questions[q]
        after == edited(before, a)
    IN  /\ before # None
        /\ mayEdit(viewer, before)
        /\ after # before
        /\ questions' = [questions EXCEPT ![q] = after]
        /\ \E found \in named :
              log' = Append(log, editedEntry(q, viewer, before, after, found))
        /\ UNCHANGED upvotes

(* Publish, Reject, resubmit and return, each only from the state it starts
   from.  Publishing may give the Author's Upvote, and nothing else does. *)
Change(q, viewer, a) ==
    /\ questions[q] # None
    /\ may(viewer, questions[q], a.act)
    /\ questions[q].state = startsFrom(a.act)
    /\ questions' = [questions EXCEPT ![q] = changed(@, a)]
    /\ \E found \in named : log' = Append(log, changedEntry(q, viewer, a, found))
    /\ \/ UNCHANGED upvotes
       \/ /\ a.act = "publish"
          /\ upvotes' = upvotes \cup {<<q, questions[q].author>>}

Refuse(viewer, a) ==
    /\ UNCHANGED <<questions, upvotes>>
    /\ \E found \in named \ {{}} : log' = Append(log, refusedEntry(viewer, a, found))

(* Only for a Question that is in the bank or once was. *)
Upvote(q, v) ==
    /\ \E i \in 1..Len(log) : log[i].type = "question_published" /\ log[i].question = q
    /\ upvotes' = upvotes \cup {<<q, v>>}
    /\ UNCHANGED <<questions, log>>

TakeBack(q, v) ==
    /\ upvotes' = upvotes \ {<<q, v>>}
    /\ UNCHANGED <<questions, log>>

(* An act on a Question is always recorded; an Upvote never is. *)
BankNext ==
    \/ /\ log' # log
       /\ \E viewer \in Viewer, a \in Asks :
             \/ a.act = "add" /\ \E q \in QuestionIds : Add(q, viewer, a)
             \/ a.act = "edit" /\ Edit(a.question, viewer, a)
             \/ a.act \in ChangeActs /\ Change(a.question, viewer, a)
             \/ a.act \in {"add", "edit", "publish"} /\ Refuse(viewer, a)
    \/ \E q \in QuestionIds, v \in Viewers : Upvote(q, v) \/ TakeBack(q, v)

BankSpec == BankInit /\ [][BankNext]_bankVars
=============================================================================
