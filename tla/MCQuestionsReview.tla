-------------------------- MODULE MCQuestionsReview --------------------------
(* One run of two settings: two requests at once on one Question, taken
   through the whole review, or one request at a time on three Questions whose
   texts are alike.  Only the review's Question is added with a Client, which
   tells the settings apart once the log has begun; before that, what is in
   flight does. *)
EXTENDS MCQuestions, TLC

SettingAsks == ReviewAsks \cup DetectionAsks

\* MaxEntries is the bound of the detection, this of the review.
reviewEntries == 4

inFlight == {r \in Requests : req[r].pc # "idle"}

beginsInReview(a) ==
    /\ a \in ReviewAsks
    /\ \A r \in inFlight : req[r].ask \in ReviewAsks
    /\ log # <<>> => log[1].clientsAdded # {}
    /\ a.act = "add" => log = <<>> /\ \A r \in inFlight : req[r].ask.act # "add"
    /\ \/ a.act = "takeBack"
       \/ Len(log) < reviewEntries /\ questions[q2] = None /\ questions[q3] = None

beginsInDetection(a) ==
    /\ a \in DetectionAsks
    /\ inFlight = {}
    /\ log # <<>> => log[1].clientsAdded = {}

MCNext ==
    \E r \in Requests :
       \/ \E v \in Viewers, a \in Asks :
             /\ beginsInReview(a) \/ beginsInDetection(a)
             /\ Authenticate(r, v, a)
       \/ Step(r)
       \/ Abort(r)

\* The two requests are alike.
Alike == Permutations(Requests)

MCSpec == Init /\ [][MCNext]_vars
=============================================================================
