------------------------------ MODULE TagsField ------------------------------
(***************************************************************************)
(* The field a Question's Tags are chosen in: a box with a list of the     *)
(* Tags that match what is typed, one of them active, and a row of buttons *)
(* for each Category.  What is drawn follows from what is chosen and       *)
(* typed; handlers compute with what was drawn when the key was pressed.   *)
(***************************************************************************)
EXTENDS Integers, Sequences, SequencesExt

CONSTANTS
    Tags,
    Categories,
    TypedTexts,     \* what the box may hold
    EmptyText,      \* what it holds when nothing, or only blanks, is typed
    listedTags,     \* the Tags as the API lists them: Category by Category
    categoryOf,     \* [Tags -> Categories]
    includes,       \* <<tag, text>>: the Tag's name includes the text
    namedBy,        \* [TypedTexts -> {NoTag} \cup Tags]: the Tag named exactly
    quickAddShown,
    NoTag

ASSUME TagsAssumption ==
    /\ EmptyText \in TypedTexts
    /\ \A t \in Tags : \E i \in DOMAIN listedTags : listedTags[i] = t
    /\ \A t \in Tags : <<t, EmptyText>> \in includes
    /\ \A text \in TypedTexts : namedBy[text] # NoTag => <<namedBy[text], text>> \in includes

VARIABLES
    categories,     \* the query of the Categories: "pending", "error", "loaded"
    chosen,         \* the Tags of the draft, in the order they were added
    boxText,
    listOpen,
    activeAt,       \* counted from 0
    allShown,       \* the Categories whose row of buttons is shown whole
    noMatch         \* whether "No Tag matches." was the last thing said

tagsVars == <<categories, chosen, boxText, listOpen, activeAt, allShown, noMatch>>

TagsTypeOK ==
    /\ categories \in {"pending", "error", "loaded"}
    /\ chosen \in Seq(Tags)
    /\ boxText \in TypedTexts
    /\ listOpen \in BOOLEAN
    /\ activeAt \in 0..Len(listedTags)
    /\ allShown \subseteq Categories
    /\ noMatch \in BOOLEAN

TagsInit ==
    /\ categories = "pending"
    /\ chosen = <<>>
    /\ boxText = EmptyText
    /\ listOpen = FALSE
    /\ activeAt = 0
    /\ allShown = {}
    /\ noMatch = FALSE

-----------------------------------------------------------------------------
(* What is drawn *)

isChosen(tag) == Contains(chosen, tag)

notChosen == SelectSeq(listedTags, LAMBDA tag : ~isChosen(tag))

(* The options of the list, in the order of the Categories. *)
optionsFor(text) == SelectSeq(notChosen, LAMBDA tag : <<tag, text>> \in includes)

options == optionsFor(boxText)

listShown == listOpen /\ (options # <<>> \/ boxText # EmptyText)

lesser(m, n) == IF m < n THEN m ELSE n

activeIndex == lesser(activeAt, Len(options) - 1)

activeOption == IF options = <<>> THEN NoTag ELSE options[activeIndex + 1]

(* The chips: Category by Category, and in each as they were added. *)
inOrder ==
    LET rank(tag) == CHOOSE i \in DOMAIN listedTags :
                        /\ categoryOf[listedTags[i]] = categoryOf[tag]
                        /\ \A j \in 1..i-1 : categoryOf[listedTags[j]] # categoryOf[tag]
    IN  FlattenSeq([i \in DOMAIN listedTags |->
            SelectSeq(chosen, LAMBDA tag : rank(tag) = i)])

(* A Category's row of buttons, cut short unless it is shown whole. *)
quickAdd(category) ==
    LET left == SelectSeq(notChosen, LAMBDA tag : categoryOf[tag] = category)
    IN  IF category \in allShown \/ Len(left) =< quickAddShown THEN left
        ELSE SubSeq(left, 1, quickAddShown)

-----------------------------------------------------------------------------
(* Handlers *)

tagsKnown == categories = "loaded"

withTags(tags) == chosen \o SelectSeq(tags, LAMBDA tag : ~isChosen(tag))

(* Mutant: the place among all the Tags that match, chosen ones too. *)
hitFor_amongAll(text) ==
    LET matches == SelectSeq(listedTags, LAMBDA tag : <<tag, text>> \in includes)
    IN  IF namedBy[text] = NoTag \/ ~Contains(matches, namedBy[text]) THEN 0
        ELSE (CHOOSE i \in DOMAIN matches : matches[i] = namedBy[text]) - 1

(* The place of the Tag typed exactly, by what is chosen as the handler began. *)
hitFor(text) ==
    LET matches == optionsFor(text)
    IN  IF namedBy[text] = NoTag \/ ~Contains(matches, namedBy[text]) THEN 0
        ELSE (CHOOSE i \in DOMAIN matches : matches[i] = namedBy[text]) - 1

showMatchesFor(text, says) ==
    /\ boxText' = text
    /\ activeAt' = hitFor(text)
    /\ listOpen' = TRUE
    /\ noMatch' = \/ text # EmptyText /\ optionsFor(text) = <<>>
                  \/ noMatch /\ ~says

TypeTag(text) ==
    /\ tagsKnown
    /\ text # boxText
    /\ showMatchesFor(text, FALSE)
    /\ UNCHANGED <<categories, chosen, allShown>>

(* Tags named exactly before each comma, and what follows the last. *)
PasteTags(named, rest) ==
    LET tags == SelectSeq(notChosen, LAMBDA tag : tag \in named)
    IN  /\ tagsKnown
        /\ chosen' = withTags(tags)
        /\ showMatchesFor(rest, tags # <<>>)
        /\ UNCHANGED <<categories, allShown>>

addOption(tag) ==
    /\ chosen' = withTags(<<tag>>)
    /\ boxText' = EmptyText
    /\ activeAt' = 0
    /\ noMatch' = FALSE
    /\ UNCHANGED <<categories, listOpen, allShown>>

(* Enter or a comma; Enter never sends the form. *)
AddActive ==
    /\ tagsKnown
    /\ listShown /\ activeOption # NoTag
    /\ addOption(activeOption)

ClickOption(tag) ==
    /\ tagsKnown
    /\ listShown /\ Contains(options, tag)
    /\ addOption(tag)

(* ArrowDown and ArrowUp, round the ends. *)
ArrowKey(step) ==
    /\ tagsKnown
    /\ IF ~listOpen THEN listOpen' = TRUE /\ activeAt' = 0
       ELSE /\ options # <<>>
            /\ activeAt' = (activeIndex + step + Len(options)) % Len(options)
            /\ UNCHANGED listOpen
    /\ UNCHANGED <<categories, chosen, boxText, allShown, noMatch>>

RemoveTag(tag) ==
    /\ tagsKnown
    /\ isChosen(tag)
    /\ chosen' = SelectSeq(chosen, LAMBDA one : one # tag)
    /\ noMatch' = FALSE
    /\ UNCHANGED <<categories, boxText, listOpen, activeAt, allShown>>

(* The chip drawn last, not the Tag added last. *)
Backspace ==
    /\ boxText = EmptyText
    /\ inOrder # <<>>
    /\ RemoveTag(Last(inOrder))

OpenList ==
    /\ tagsKnown
    /\ listOpen' = TRUE
    /\ UNCHANGED <<categories, chosen, boxText, activeAt, allShown, noMatch>>

(* Escape, or the box loses the focus. *)
CloseList ==
    /\ tagsKnown
    /\ listOpen' = FALSE
    /\ UNCHANGED <<categories, chosen, boxText, activeAt, allShown, noMatch>>

(* The text and the active option stay as they were. *)
QuickAdd(tag) ==
    /\ tagsKnown
    /\ Contains(quickAdd(categoryOf[tag]), tag)
    /\ chosen' = withTags(<<tag>>)
    /\ noMatch' = FALSE
    /\ UNCHANGED <<categories, boxText, listOpen, activeAt, allShown>>

ShowAll(category) ==
    /\ tagsKnown
    /\ allShown' = IF category \in allShown THEN allShown \ {category}
                   ELSE allShown \cup {category}
    /\ UNCHANGED <<categories, chosen, boxText, listOpen, activeAt, noMatch>>

(* The Categories are asked for once, and again only after a failure. *)
LoadCategories ==
    /\ categories = "pending"
    /\ categories' \in {"loaded", "error"}
    /\ UNCHANGED <<chosen, boxText, listOpen, activeAt, allShown, noMatch>>

TryAgain ==
    /\ categories = "error"
    /\ categories' = "pending"
    /\ UNCHANGED <<chosen, boxText, listOpen, activeAt, allShown, noMatch>>

TagsNext ==
    \/ \E text \in TypedTexts :
          \/ TypeTag(text)
          \/ \E named \in SUBSET Tags : PasteTags(named, text)
    \/ AddActive \/ Backspace \/ OpenList \/ CloseList
    \/ \E step \in {1, -1} : ArrowKey(step)
    \/ \E tag \in Tags : ClickOption(tag) \/ RemoveTag(tag) \/ QuickAdd(tag)
    \/ \E category \in Categories : ShowAll(category)
    \/ LoadCategories \/ TryAgain

TagsSpec == TagsInit /\ [][TagsNext]_tagsVars

-----------------------------------------------------------------------------
(* Properties *)

namedExactly == IF Contains(options, namedBy[boxText]) THEN namedBy[boxText] ELSE NoTag

(* When a text is typed that names a Tag exactly, that Tag is the one Enter
   would add, among however many match and are not chosen yet.
   (showMatchesFor counts among what is still offered.) *)
TagTypedIsActive ==
    [][boxText' # boxText /\ chosen' = chosen /\ namedExactly' # NoTag =>
          activeOption' = namedExactly']_tagsVars
=============================================================================
