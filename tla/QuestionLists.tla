---------------------------- MODULE QuestionLists ----------------------------
(***************************************************************************)
(* The lists of Questions: Browse under a filter or a search, the Review   *)
(* queue and Your Questions, each read a page at a time by an offset, with *)
(* no total, from a bank others write to between two pages.  And the other *)
(* read that takes two statements: a Question's history.                   *)
(***************************************************************************)
EXTENDS Integers, Sequences, SequencesExt, FiniteSets

CONSTANTS
    addedAt,        \* [Questions -> Nat]: when each is added
    idOf,           \* [Questions -> Nat]: their ids, as they are compared
    firstVersions,  \* what each has been, to begin with
    firstContents,  \* [Questions -> Contents]: and what each says
    Contents,       \* a text, Answer Notes, Tags and Clients
    matching,       \* [filters -> SUBSET Contents]: what the filter or the words match
    rankIn,         \* [searches -> [Contents -> Nat]]: and how well the words do
    reviews,        \* whether the Viewer is a Reviewer
    authored,       \* the Questions that are the Viewer's own
    Offsets,        \* those in an address the Viewer opens
    badFilter,      \* an address that names what is not a filter
    PageSize,
    MaxWrites,
    NoRead

Listed == DOMAIN addedAt
Filters == DOMAIN matching
Searches == DOMAIN rankIn

(* No two have one id, or are added at one moment: that one is the id's too. *)
distinguishes(f) == \A p, q \in Listed : p # q => f[p] # f[q]

ASSUME ListsAssumption ==
    /\ PageSize \in Nat \ {0}
    /\ Offsets \subseteq Nat
    /\ Filters \cap {"pending", "own"} = {}
    /\ reviews \in BOOLEAN
    /\ authored \subseteq Listed

ASSUME OrderAssumption ==
    /\ IsFiniteSet(Listed)
    /\ addedAt \in [Listed -> Nat] /\ distinguishes(addedAt)
    /\ idOf \in [Listed -> Nat] /\ distinguishes(idOf)
    /\ matching \in [Filters -> SUBSET Contents]
    /\ Searches \subseteq Filters /\ rankIn \in [Searches -> [Contents -> Nat]]

ASSUME FirstVersionsAssumption ==
    /\ firstVersions \in [Listed -> Seq({"pending", "published", "rejected"})]
    /\ firstContents \in [Listed -> Contents]

VARIABLES
    versions,       \* [Questions -> Seq(states)]: what each has been, as its events tell
    content,        \* [Questions -> Contents]: what each says now
    request,        \* the list and the offset the address names
    pages,          \* the query cache: the pages held
    fetch,          \* "none", "asked", or the page answered and on its way
    failed,
    history,        \* a read of a Question's history, while it is served
    walk            \* history: the Viewer pages on from the first page

listVars == <<versions, content, request, pages, fetch, failed, history, walk>>

Lists == Filters \cup {"pending", "own"}
Requests == [list: Lists \cup {badFilter}, offset: Nat]
Page == SUBSET Listed

ListsTypeOK ==
    /\ versions \in [Listed -> Seq({"pending", "published", "rejected"})]
    /\ content \in [Listed -> Contents]
    /\ request \in Requests
    /\ DOMAIN pages \subseteq Requests /\ \A r \in DOMAIN pages : pages[r] \in Page
    /\ fetch \in {<<"none">>, <<"asked">>} \cup ({"answered"} \X Page)
    /\ failed \in BOOLEAN
    /\ history \in {NoRead} \cup [question: Listed, checkedAt: Nat, told: Nat]
    /\ walk \in {NoRead} \cup [seen: SUBSET Listed, due: SUBSET Listed, fresh: BOOLEAN]

-----------------------------------------------------------------------------
(* The API: each list is one statement over the bank as it is *)

is(vs, q, state) == vs[q] # <<>> /\ Last(vs[q]) = state

visible(vs, q) == vs[q] # <<>> /\ (reviews \/ is(vs, q, "published") \/ q \in authored)

belonging(vs, cs, list) ==
    CASE list = "pending" -> {q \in Listed : reviews /\ is(vs, q, "pending")}
      [] list = "own"     -> {q \in authored : is(vs, q, "pending") \/ is(vs, q, "rejected")}
      [] OTHER            -> {q \in Listed : visible(vs, q) /\ cs[q] \in matching[list]}

(* The queue is worked from its oldest, and what words match from the best. *)
precedes(cs, list, p, q) ==
    CASE list = "pending"   -> addedAt[p] < addedAt[q]
      [] list \in Searches -> \/ rankIn[list][cs[p]] > rankIn[list][cs[q]]
                              \/ rankIn[list][cs[p]] = rankIn[list][cs[q]] /\ idOf[p] > idOf[q]
      [] OTHER              -> addedAt[p] > addedAt[q]

ahead(vs, cs, list, q) == {p \in belonging(vs, cs, list) : precedes(cs, list, p, q)}

position(vs, cs, list, q) == Cardinality(ahead(vs, cs, list, q))

pageAt(r) ==
    {q \in belonging(versions, content, r.list) :
        position(versions, content, r.list, q) \in r.offset .. r.offset + PageSize - 1}

(* `due` to be shown are those in the list from the start. *)
startsAWalk(list) ==
    IF list = badFilter THEN NoRead
    ELSE [seen |-> {}, due |-> belonging(versions, content, list), fresh |-> FALSE]

(* Not those that leave, or lose one ahead of them, which left, sank behind
   them or was passed. *)
walkAfter(vs, cs) ==
    IF walk = NoRead THEN NoRead
    ELSE [walk EXCEPT !.due =
             {q \in @ \cap belonging(vs, cs, request.list) :
                 ahead(versions, content, request.list, q) \subseteq ahead(vs, cs, request.list, q)}]

ListsInit ==
    /\ versions = firstVersions
    /\ content = firstContents
    /\ \E list \in Filters : request = [list |-> list, offset |-> 0]
    /\ pages = <<>>
    /\ fetch = <<"asked">>
    /\ failed = FALSE
    /\ history = NoRead
    /\ walk = NoRead

-----------------------------------------------------------------------------
(* The screens *)

loadedPage == request \in DOMAIN pages

(* Browse shows the buttons over a failure too; the others only over a page. *)
pagesNamed == request.list # badFilter /\ (request.list \in Filters \/ (loadedPage /\ ~failed))

(* The API sends no total: a full page is the only sign there may be more. *)
mayBeMore == loadedPage /\ Cardinality(pages[request]) = PageSize

(* The page held is shown while it is asked for again; what was asked of
   another address is no longer awaited. *)
goesTo(r) ==
    /\ r # request
    /\ request' = r
    /\ fetch' = IF r.list = badFilter THEN <<"none">> ELSE <<"asked">>
    /\ failed' = FALSE
    /\ UNCHANGED <<versions, content, pages, history>>

(* A link, Back, or the address typed. *)
Open(list, offset) ==
    /\ goesTo([list |-> list, offset |-> offset])
    /\ walk' = IF offset = 0 THEN startsAWalk(list) ELSE NoRead

(* Mutant: the page that was shown stays in the address. *)
filtered_keepingThePage(list) == [request EXCEPT !.list = list]

(* A new filter, or none after Clear, starts at its first page. *)
filtered(list) == [list |-> list, offset |-> 0]

ChooseFilter(list) ==
    /\ goesTo(filtered(list))
    /\ walk' = startsAWalk(list)

NextPage ==
    /\ pagesNamed /\ mayBeMore
    /\ goesTo([request EXCEPT !.offset = @ + PageSize])
    /\ walk' = IF walk # NoRead /\ walk.fresh THEN [walk EXCEPT !.fresh = FALSE] ELSE NoRead

PreviousPage ==
    /\ pagesNamed /\ request.offset # 0
    /\ goesTo([request EXCEPT !.offset = IF @ > PageSize THEN @ - PageSize ELSE 0])
    /\ walk' = IF request'.offset = 0 THEN startsAWalk(request.list) ELSE NoRead

(* "Try again", or the window has the focus again. *)
AskAgain ==
    /\ request.list # badFilter
    /\ fetch = <<"none">>
    /\ fetch' = <<"asked">>
    /\ failed' = (failed /\ loadedPage)
    /\ UNCHANGED <<versions, content, request, pages, history, walk>>

ReadPage ==
    /\ fetch = <<"asked">>
    /\ fetch' = <<"answered", pageAt(request)>>
    /\ UNCHANGED <<versions, content, request, pages, failed, history, walk>>

PageArrives ==
    /\ fetch[1] = "answered"
    /\ pages' = [r \in DOMAIN pages \cup {request} |->
                   IF r = request THEN fetch[2] ELSE pages[r]]
    /\ fetch' = <<"none">>
    /\ failed' = FALSE
    /\ walk' = IF walk = NoRead THEN NoRead
               ELSE [walk EXCEPT !.seen = @ \cup fetch[2], !.fresh = TRUE]
    /\ UNCHANGED <<versions, content, request, history>>

(* Refused, or not answered however often it was asked. *)
PageFails ==
    /\ fetch # <<"none">>
    /\ fetch' = <<"none">>
    /\ failed' = TRUE
    /\ UNCHANGED <<versions, content, request, pages, history, walk>>

-----------------------------------------------------------------------------
(* A Question's history: whether it is Visible, and then its events *)

AskHistory(q) ==
    /\ history = NoRead
    /\ history' = [question |-> q, checkedAt |-> 0, told |-> 0]
    /\ UNCHANGED <<versions, content, request, pages, fetch, failed, walk>>

CheckVisible ==
    /\ history # NoRead /\ history.checkedAt = 0
    /\ history' = IF visible(versions, history.question)
                  THEN [history EXCEPT !.checkedAt = Len(versions[history.question])]
                  ELSE NoRead
    /\ UNCHANGED <<versions, content, request, pages, fetch, failed, walk>>

(* Mutant: the events are read beside the check, not below it. *)
ReadEvents_besideTheCheck ==
    /\ history # NoRead /\ history.told = 0
    /\ history' = [history EXCEPT !.told = Len(versions[history.question])]
    /\ UNCHANGED <<versions, content, request, pages, fetch, failed, walk>>

ReadEvents ==
    /\ history # NoRead /\ history.checkedAt # 0 /\ history.told = 0
    /\ history' = [history EXCEPT !.told = Len(versions[history.question])]
    /\ UNCHANGED <<versions, content, request, pages, fetch, failed, walk>>

AnswerHistory ==
    /\ history # NoRead /\ history.checkedAt # 0 /\ history.told # 0
    /\ history' = NoRead
    /\ UNCHANGED <<versions, content, request, pages, fetch, failed, walk>>

-----------------------------------------------------------------------------
(* What others, or the Viewer in another tab, write *)

written == FoldFunction(LAMBDA version, n : Len(version) + n, 0, versions)

(* A Question is added as the newest; an old one may come into a list late. *)
mayBecome(q, state) ==
    CASE state = "pending" ->
            IF versions[q] = <<>>
            THEN \A p \in Listed : addedAt[p] < addedAt[q] => versions[p] # <<>>
            ELSE ~is(versions, q, "pending")
      [] state \in {"published", "rejected"} -> is(versions, q, "pending")

OthersChange(q, state) ==
    /\ written < MaxWrites
    /\ mayBecome(q, state)
    /\ versions' = [versions EXCEPT ![q] = Append(@, state)]
    /\ walk' = walkAfter(versions', content)
    /\ UNCHANGED <<content, request, pages, fetch, failed, history>>

(* An edit leaves the state as it is and tells it in an event. *)
OthersEdit(q, c) ==
    /\ written < MaxWrites
    /\ versions[q] # <<>> /\ content[q] # c
    /\ versions' = [versions EXCEPT ![q] = Append(@, Last(@))]
    /\ content' = [content EXCEPT ![q] = c]
    /\ walk' = walkAfter(versions', content')
    /\ UNCHANGED <<request, pages, fetch, failed, history>>

-----------------------------------------------------------------------------
ListsNext ==
    \/ \E list \in Lists \cup {badFilter}, offset \in Offsets : Open(list, offset)
    \/ \E list \in Filters : ChooseFilter(list)
    \/ NextPage \/ PreviousPage \/ AskAgain
    \/ ReadPage \/ PageArrives \/ PageFails
    \/ \E q \in Listed : AskHistory(q)
    \/ CheckVisible \/ ReadEvents \/ AnswerHistory
    \/ \E q \in Listed, state \in {"pending", "published", "rejected"} : OthersChange(q, state)
    \/ \E q \in Listed, c \in Contents : OthersEdit(q, c)

ListsSpec == ListsInit /\ [][ListsNext]_listVars

-----------------------------------------------------------------------------
(* Properties *)

(* A Viewer who pages on from the first page of a list to the last has been
   shown every Question that was in it all along, whatever others add, edit,
   publish and return between two pages, except one that lost a Question ahead
   of it: that one left the list or, in a search, an edit put the two in the
   other order.  (QuestionPages counts offsets.  visibleQuestionsStatement
   orders by when a Question was added, which no write changes, and
   searchStatement by a rank that an edit does.) *)
PagingReachesEveryQuestion ==
    walk # NoRead /\ walk.fresh /\ loadedPage /\ ~mayBeMore => walk.due \subseteq walk.seen

(* A history that is answered holds every event up to a moment at which the
   Viewer could see the Question.  (findEventsAboutVisibleQuestion; a Question
   returned between its two statements still answers.) *)
HistoryCoversAVisibleMoment ==
    history # NoRead /\ history.checkedAt # 0 /\ history.told # 0 =>
        history.told >= history.checkedAt
=============================================================================
