------------------------------ MODULE MCScreens ------------------------------
(***************************************************************************)
(* Instances of the browser's screens for TLC.  They share the browser but *)
(* no state: a behaviour is of one part of them, chosen at the start.      *)
(***************************************************************************)
EXTENDS QuestionScreens, TagsField, QuestionLists, AccountScreens

CONSTANTS
    ann, rita, q1, t1, t2, n1, n2, why,
    javascript, java, javaEE, agile, skill, method, textJava, textJavaEE,
    oldest, middle, newest, exact, passing, unrelated,
    ada, bob, mine, theirs

VARIABLE part

-----------------------------------------------------------------------------
(* The screens of one Question: its forms, its page beside the review queue,
   and its page beside its Author's own list. *)

AReviewer == [id |-> rita, role |-> "reviewer"]

APending == [author |-> rita, text |-> t1, notes |-> n1, clients |-> {}, state |-> "pending",
             reason |-> None]

NoneSimilar == {}

SomeTyped == {<<"text", t2>>, <<"notes", n2>>}

screensOf ==
    [editing |-> {"question", "edit"}, adding |-> {"question", "add"},
     pages |-> {"question", "review"}, own |-> {"question", "own"}]

buttonsOf ==
    [editing |-> {"edit"}, adding |-> {"add"}, pages |-> {"publish", "reject", "return"},
     own |-> {"upvote", "resubmit"}]

queriesOf ==
    [editing |-> {"one"}, adding |-> {"one"}, pages |-> Keys \ {"own"}, own |-> {"one", "own"}]

versionsOf == [editing |-> 3, adding |-> 1, pages |-> 2, own |-> 3]

ScreensPart ==
    /\ part \in DOMAIN screensOf
    /\ ScreensNext
    /\ screen' \in screensOf[part]
    /\ \A button \in Buttons \ buttonsOf[part] : sent'[button] = None
    /\ ui'.writing \in buttonsOf[part] \cup {None}
    /\ \A k \in Keys \ queriesOf[part] : queries'[k] \in {nothing, asking(nothing)}
    /\ Len(bank') =< versionsOf[part]

-----------------------------------------------------------------------------
(* The tags field: four Tags of two Categories. *)

SomeTags == <<javascript, java, javaEE, agile>>

SomeCategories == [t \in Tags |-> IF t = agile THEN method ELSE skill]

WhatIncludes ==
    (Tags \X {EmptyText}) \cup ({javascript, java, javaEE} \X {textJava})
    \cup {<<javaEE, textJavaEE>>}

WhatNames ==
    [t \in TypedTexts |-> CASE t = textJava -> java [] t = textJavaEE -> javaEE [] OTHER -> NoTag]

-----------------------------------------------------------------------------
(* The lists: three Questions, the oldest of them the Viewer's own, who is no
   Reviewer and whose review queue is empty.  The middle one is not edited. *)

SomeAdded == [q \in {oldest, middle, newest} |-> CASE q = oldest -> 0 [] q = middle -> 1 [] OTHER -> 2]

SomeVersions ==
    [q \in {oldest, middle, newest} |->
        IF q = middle THEN <<"pending">> ELSE <<"pending", "published">>]

SomeIds == [q \in {oldest, middle, newest} |-> CASE q = oldest -> 1 [] q = middle -> 2 [] OTHER -> 0]

\* Words that the oldest matches best, and that edits bring in and take out.
SomeContents ==
    [q \in {oldest, middle, newest} |->
        CASE q = oldest -> exact [] q = middle -> unrelated [] OTHER -> passing]

SomeMatching == [all |-> {exact, passing, unrelated}, searched |-> {exact, passing}]

SomeRanks ==
    [searched |-> [c \in {exact, passing, unrelated} |->
                      CASE c = exact -> 2 [] c = passing -> 1 [] OTHER -> 0]]

ListsPart ==
    /\ part \in {"lists", "history"}
    /\ ListsNext
    /\ part = "lists" => history' = history
    /\ part = "history" => <<request, fetch, pages>>' = <<request, fetch, pages>>
    /\ content'[middle] = unrelated
    /\ request'.list # "pending"

-----------------------------------------------------------------------------
(* The Administrator's screens; of the Viewers' rows, one is acted on at once. *)

SomeRaised == [r \in {mine, theirs} |-> IF r = mine THEN ada ELSE bob]

SomeAsked == [r \in {mine, theirs} |-> IF r = mine THEN "author" ELSE "reviewer"]

SomeRoles == [v \in {ada, bob} |-> "reader"]

placesOf ==
    [queue |-> {"home", "roleRequests"}, account |-> {"home", "account"},
     rows |-> {"home", "viewers"}, accountForms |-> {"home"}]

listsOf == [queue |-> {"open"}, account |-> {"mine", "me"}, rows |-> {"viewers"}, accountForms |-> {}]

movesOf == [queue |-> 3, account |-> 2, rows |-> 2, accountForms |-> 0]

accountsAtRest == <<api, lists, place, pressed, shown, session>>

AccountsPart ==
    /\ part \in DOMAIN placesOf
    /\ AccountsNext
    /\ part # "accountForms" => forms' = forms
    /\ api'.moves =< movesOf[part]
    /\ place' \in placesOf[part]
    /\ \A k \in AccountKeys \ listsOf[part] : lists'[k] \in {empty, askedFor(empty)}
    /\ part = "rows" => api'.asked = api.asked /\ \E v \in Accounts : pressed'[<<"act", v>>] = Nobody
    /\ part = "accountForms" => accountsAtRest' = accountsAtRest

-----------------------------------------------------------------------------
allVars == <<screenVars, tagsVars, listVars, accountVars, part>>

MCInit ==
    /\ ScreensInit /\ TagsInit /\ ListsInit /\ AccountsInit
    /\ part \in DOMAIN screensOf \cup DOMAIN placesOf \cup {"tags", "lists", "history"}
    /\ part # "lists" => request = [list |-> "all", offset |-> 0]

MCNext ==
    /\ UNCHANGED part
    /\ \/ ScreensPart /\ UNCHANGED <<tagsVars, listVars, accountVars>>
       \/ part = "tags" /\ TagsNext /\ UNCHANGED <<screenVars, listVars, accountVars>>
       \/ ListsPart /\ UNCHANGED <<screenVars, tagsVars, accountVars>>
       \/ AccountsPart /\ UNCHANGED <<screenVars, tagsVars, listVars>>

MCSpec == MCInit /\ [][MCNext]_allVars
=============================================================================
