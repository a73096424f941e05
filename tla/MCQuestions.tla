----------------------------- MODULE MCQuestions -----------------------------
(* Instances of Questions for TLC: the request bodies each run sends. *)
EXTENDS Questions

CONSTANTS alice, rita, q1, q2, q3, t1, t2, n1, n2, acme, why

request(act, q) ==
    [act |-> act, question |-> q, text |-> None, notes |-> None,
     clients |-> None, reason |-> None, confirmed |-> FALSE]

submission(t, confirmed) ==
    [request("add", None) EXCEPT !.text = t, !.notes = n1, !.clients = {},
                                 !.confirmed = confirmed]

retexted(q, t, confirmed) ==
    [request("edit", q) EXCEPT !.text = t, !.confirmed = confirmed]

reasoned(act, q) == [request(act, q) EXCEPT !.reason = why]

\* Alice writes, Rita reviews.
AuthorAndReviewer == [v \in Viewers |-> IF v = rita THEN "reviewer" ELSE "author"]

\* The texts are all alike.
AllSimilar == Texts \X Texts

\* One Question through every act, edited in its text, notes and Clients, and
\* Upvoted meanwhile.
ReviewAsks ==
    {[submission(t1, FALSE) EXCEPT !.clients = {acme}],
     [retexted(q1, t2, FALSE) EXCEPT !.clients = {acme}],
     [request("edit", q1) EXCEPT !.notes = n2, !.clients = {}],
     request("publish", q1), request("resubmit", q1),
     reasoned("reject", q1), reasoned("return", q1), request("upvote", q1),
     request("takeBack", q1)}

\* Between two acts Alice becomes a Reviewer and Rita an Author.
RolesSwap == {<<alice, "reviewer">>, <<rita, "author">>}

\* Publication and return beside Upvotes.
UpvoteAsks ==
    {submission(t1, FALSE), request("publish", q1), request("resubmit", q1),
     reasoned("return", q1), request("upvote", q1), request("takeBack", q1),
     retexted(q1, t1, FALSE)}

\* Two Questions whose texts are alike, checked, refused and confirmed.
DetectionAsks ==
    {submission(t1, TRUE), submission(t1, FALSE), request("takeBack", q1),
     reasoned("return", q1), request("resubmit", q1)} \cup
    UNION {{retexted(q, t2, FALSE), retexted(q, t1, TRUE),
            request("publish", q), [request("publish", q) EXCEPT !.confirmed = TRUE]}
           : q \in QuestionIds}

\* A publication and an edit at once.
EditAsks ==
    {submission(t1, FALSE), request("publish", q1), retexted(q1, t2, FALSE),
     request("takeBack", q1)}

NoChanges == {}
=============================================================================
