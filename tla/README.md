# The question bank, verified

TLA+ models of the interview question bank in this repository, checked with TLC, with
theorems checked by TLAPS. The bank is an Express API over PostgreSQL and a React client.
The models are translated from `backend/src`, `shared/src` and `frontend/src`; paths below
that begin with `features/` are under `backend/src`.

## The system

| Part | State | Operations | Meets |
| --- | --- | --- | --- |
| Questions | `questions`, `question_tags`, `question_clients` | add, edit, publish, reject, resubmit, return; lists, search, history | reads the acting Viewer; writes Change Events; publishing gives an Upvote |
| Near-duplicate detection | none | compares a text with the bank, or with bank and queue | run by add, edit and publish before their transaction |
| Upvotes | `upvotes` | give, take back | checks a Question's state without locking it |
| Change Events | `change_events`, append-only | insert; the history of a Question | every act writes here in its own transaction |
| Administration | `viewers` | create, appoint, withdraw, set role, Deactivate, reactivate | row locks in one order; revokes sessions; mails a link |
| Role Requests | `role_requests` | raise, grant, deny | a partial unique index; a grant locks the Viewer |
| Sessions | `refresh_tokens` | log in, refresh, log out | ended by Deactivation and by a new password |
| Password links | `password_tokens` | reset, first link, set a password | an advisory lock; a mail sent inside the transaction |
| The browser's session | an access token in memory, a cookie, a timer | sign in, recover, renew, sign out | the sessions API; other tabs with the same cookie |
| Lists | none; an offset and a filter in the address | Browse, search, the review queue, your Questions; a history | a bank others write to between two pages |
| Screens of a Question | cached answers, two forms, dialogs | the acts of the API, and what to show meanwhile | the API, which checks everything again |
| The tags field | Tags chosen, text typed, the active option | keys, clicks, a paste | the form it is in |
| Administration and sign-in screens | cached lists, open dialogs, forms | acts on Viewers and Role Requests; sign-in and passwords | the API, other Administrators |
| The process | connections, a count of attempts | start, requests, a signal, the end | PostgreSQL's pool; clients that stay |
| Seeds and commands | rows of most tables | seed the small, the hosted and the bulk bank | each other, and people using the database |

`PROJECT.json` lists every part, with those that are not modelled and why.

### What is hard here

Every handler is a sequence of awaited statements, and Node runs any number of them at once.
PostgreSQL runs at READ COMMITTED: each statement sees what is committed when it begins, and
two handlers meet only at row locks, unique indexes, foreign keys and one advisory lock. So
the bugs to look for are of these kinds.

* **Decided by a row that has changed.** The access check, near-duplicate detection and the
  Upvote's check read before the transaction or outside any.
* **An `UPDATE` of the rows it saw.** Ending a session revokes the tokens there are when the
  statement begins; a refresh in flight inserts another.
* **Locks chosen from a snapshot.** Removing an Administrator locks the Administrators of the
  moment, and counts those of a later one.
* **Several rows that must agree.** A row, its reason, its Change Event and an Upvote are
  separate statements of one transaction; a history must still replay to the row.
* **Something outside the transaction.** A mail goes before the commit, and may outlast it.
* **A client that repeats itself.** A spent refresh token is presented again, late or at once.
* **A screen that shows an answer.** It was true when the API read it. A form, a confirmation,
  a page of a list and a card are of then; what is pressed on them is decided now.
* **A command that stops half way.** Seeds commit row by row, and are run again.

### What makes each part correct

* Questions: every act is atomic and legal in the state it finds; the history replays to the
  row; nothing reaches the bank unchecked; no two Near-Duplicates unconfirmed.
* Upvotes: only for what was once in the bank; one goes at a time.
* Administration: an active Administrator remains; no deadlock; each change recorded once.
* Role Requests: one open per Viewer, decided once, the role as asked.
* Sessions: a token is exchanged once; an ended session is not carried on; reuse ends it.
* Password links: one at a time, one a window, each used once, none lost to a failed mail.
* The browser: signing out is final; tabs that share a cookie do not end their own session.
* Screens: a save writes what was typed; a confirmation is of what was refused; a list is looked
  up again after an act; paging skips nothing that stayed with all that was ahead of it; a refused
  decision is told.
* The process: a signal ends it, whatever its clients do; attempts past the limit are refused.
* Seeds: a finished run is whole, and undoes nothing people did.

## The modules

### `QuestionRules`, `QuestionBank`, `Questions`

`QuestionRules` holds what the code computes without waiting: who may see a Question and who
may act on it (`shared/src/question-acts.ts`), what each act does to the row and which event
it writes (`questions.repository.ts`), and which texts are compared. Texts, notes, Clients and
reasons are model values; trigram similarity is the constant relation `Similar`; which of
several Near-Duplicates are the closest is left open, because nothing here depends on it.

`Questions` is the API. `req[r]` is what one handler has in its variables, `req[r].pc` the
await it is at. Each action is the code between two awaits that others can see the effect of:
`Authenticate` (`auth.middleware.ts`), `LookUp` (the read and the rule of the act), `Detect`,
`RecordRefusal` (the event of a refused near-duplicate), `InsertQuestion` (a whole transaction
on a row nobody else knows of), `LockQuestion` (`SELECT … FOR UPDATE` and the second check),
`Commit` (the row, its event and the Author's Upvote), `SaveUpvote` and `RemoveUpvote`. What a
transaction wrote is seen by others at its commit, so its writes are in `Commit`; what it read
under the lock is in `LockQuestion`. `ChangeRole` is what an Administrator does meanwhile, and
`Abort` the end of a connection at any point.

`QuestionBank` is what the part promises: each act in one step on the row as it is, with no
requests and no locks, an Upvote only for what was once Published. `Questions` instantiates it
(`Bank == INSTANCE QuestionBank WITH …`) with its tables mapped to themselves, since what a
request has in hand is no part of the promise; `ActsAreAtomic` is `Bank!BankSpec`, checked by
TLC and proved.

### `Administration`

The six acts of `administration.service.ts` and the three of `role-requests.service.ts`.
`SelectRows` takes the snapshot a locking statement chooses its rows from, `LockRow` locks
them one by one in the order of `nextToLock`, `CheckRow` reads the target and counts, `Commit`
writes. `waitsFor` says what each transaction waits for in PostgreSQL: row locks, the unique
index on open Role Requests, the address of a Viewer being created, and the foreign key from
an event to its actor. Nobody names a Viewer whose creation has yet to commit (`unheardOf`),
because ids are random.

### `Sessions`

`features/auth/refresh-token*.ts` and the routes over them. Outside transactions each
statement is an action: `Find`, `Spend` (an `UPDATE … WHERE spentAt IS NULL`, so one of two
wins), `InsertSuccessor`, `Recheck` (the family may have ended), `Answer`. An `UPDATE` of
several rows is two actions, `Select` for the rows it sees and `RevokeFamily` or `RevokeAll`
for its end. Tokens are ids; a family is named after its first. `late`, `reuse`, `since`,
`had`, `verified`, `endings` and `over` are history: they are read by the properties and by
the bound on endings, never by what the code decides.

### `PasswordLinks`

`mailPasswordResetLink`, `createViewer` and `/set-password` as transactions. What a request
has written is in `req[r].ending` and `req[r].link` until `Commit`; `rowsLocked`,
`resetsLocked` and `addressLocked` are what it waits for meanwhile. `Send` puts the link in
`inbox` before the commit, `SendFails` rolls back, and `TimeOut` is the transaction's limit:
the locks go, and a mail on its way still arrives. `Sessions` uses the result, one link that
works at a time, in `SendLink`.

### `BrowserSession`

The client's side: `sign-in.ts`, `platform/session.ts`, `App.tsx` and `api-client.ts`. Each tab
has its `session`, whether its timer is set (`renewal`) and whose answers its query cache holds
(`cached`); the tabs share `cookie`. A call in `calls` is sent, then answered by the API (one
step of `Login`, `RefuseRefresh`, `Rotate`, `LogOut`, which `Sessions` models in detail), then
arrived: the browser stores the cookie with the head of the answer, before the page has read
it, so answers set cookies in the order they arrive and tabs act on them in any other order.
`Fail` is a call that got no answer, before the API saw it or after; `Unreadable` an answer
that is not what the client parses; `Load` throws away the memory of a page and leaves its
calls without anyone to answer. A change of `viewer` that names the Viewer who is signed in
here shows (`followViewer`); the model has no other field of a Viewer that could change.
`ChangeQuestion` is an edit or a move of a Question and `ChangeKept` its `onSuccess`, which puts the
Question answered into the cache whoever is signed in by then: `endSession` cancels the queries in
flight (`queryClient.clear()`), and no mutation. An Upvote's answer changes only a Question that is
held, so it leaves an emptied cache empty and is not a call of its own.
`from`, `garbled`, `unseen`, `swapped` and `late` are history.

### `QuestionScreens`

One Viewer's screens on one Question (`frontend/src/features/questions`): its page, the review
queue, Your Questions, and the forms that add and edit. `bank` is what the Question has been,
version after version; others write it in `OthersWrite` by the rules of `QuestionRules`.
`queries[k]` is what the cache holds of each list and of the Question, and the fetch under way;
`Answer` is the moment the API reads, `Arrive` the moment the answer is in the cache, so an
older answer may come after a newer one. What is called out of date is fetched again
(`askedAgain`), unless nothing is held yet: then the library joins the first load that is under way,
and the answer kept may be of before the call (`joined`, history). `sent[b]` is what each button has asked and what the
API made of it (`Serve`): hearing it is another step, which closes the form, opens the dialog of the
Near-Duplicates, puts the answer in the cache and calls the lists out of date, as the hooks of
`questions.queries.ts` do. `ui` is what is typed, confirmed or open.

### `TagsField`

`tags-field.tsx`: what is drawn (`options`, `activeOption`, `listShown`) are operators of what is
chosen and typed; each handler computes with what was drawn when its key was pressed. Which Tags
match a text, and which one it names, are constants.

### `QuestionLists`

The SQL of the three lists with filters and search, their order, offset and page size, and the
addresses that name them. A list by date is ordered by when its Questions were added, which no write
changes; a search by how well its words do in what a Question says now (`rankIn` of `content`), and
by the id where two do alike. A page is the Questions at its positions, of
those that belong to the list now. A fetch is asked, read and arrived as above, while others add
and return and publish (`OthersChange`) and edit (`OthersEdit`), which may change a match and a rank.
`walk` is history: what a Viewer who pages on has been shown (`seen`), and what is `due` to them: what
was in the list all along and has lost nothing ahead of it. A Question's history takes two statements,
the look-up and the read of the log, with others' writes between them.

### `AccountScreens`

The Administrator's queue of Role Requests with its badge, the list of Viewers and the Viewer's
own page, each from its own cached query; and the forms that send and tell (sign-in, a forgotten
password, a new one, a new Client, a new Viewer), which share the same steps. A decision is sent
from a card that can leave its list before the answer is heard. The current Viewer, whom a decision
fetches again (`prefetchQuery`), has the role the API gave when the decision is settled: the fetch
itself is no step of its own. A first load is joined as in `QuestionScreens` (`firstLoad`).

### `ServerProcess`

`server.ts` and `rate-limit.middleware.ts`: start, connections and their handlers, a signal, the
grace period, the forced close, the pool's end, a crash; and the count of attempts by window, from
which a success is taken off when it is answered, unless the route counts successes too
(`countSuccesses`, on for `/password-reset` alone). A client may go away or stay for ever, a handler may outlive its connection.

### `Seeds`

The commands `seed.ts`, `seed-hosted-bank.ts` and `seed-bulk-bank.ts` with the `*.seed.ts` they
run: the upserts row after row, each with what it must look up first; the bulk bank kind after kind in batches that
skip what is there. A run stops at any statement, is begun again, runs beside another, and people
create, edit and take off meanwhile.

## What the runs show

| Run | Instance | Shows |
| --- | --- | --- |
| `questions_review` | one Question, an Author and a Reviewer, 2 requests, 4 recorded acts; or three Questions that are all alike, 1 request, 5 recorded acts | every act of the review and every Upvote against every other: the history replays to the row, and `Questions` implements `QuestionBank`; the three doors into the bank together let in no unconfirmed Near-Duplicate |
| `questions_upvotes` | one Question, 2 requests, 3 recorded acts, roles swapping | what a Viewer may write stays Visible to them; every request is answered |
| `questions_edit_while_publishing` | 2 requests | **violated**: a text reaches the bank that nobody compared |
| `administration` | two Administrators and an address to create, two Role Requests, any 2 requests, 3 events | the last Administrator is safe from two acts at once; no deadlock; each change recorded once; a Role Request decided once |
| `administration_last_one` | three Viewers, 3 requests, 5 events | **violated**: three acts at once leave no Administrator |
| `sessions_rotation` | one Viewer's sessions, 3 tokens, 2 requests, 1 ending of everything | rotation, reuse, log-out, new password and Deactivation at once |
| `sessions_concurrent_rotation` | 2 refreshes | **violated**: a live token is handed out in an ended family |
| `sessions_new_password` | 2 requests | **violated**: a login with the old password outlives the new one |
| `password_links` | one Viewer and one to create, 3 links, 3 requests | links issued, mailed, lost, replaced, used and timed out at once |
| `browser_session` | two tabs on one cookie, 2 Viewers, 3 tokens, 2 calls in flight | each tab will learn that its session is over, no timer signs anyone in, the cookie keeps up with the exchanges, nothing is left for the next Viewer but what was being changed at the sign-out |
| `screens` | one screen at a time: a Question of up to 3 versions, 4 Tags, 3 Questions a page apart, 2 Role Requests | forms save what was typed and confirm what was refused; the typed Tag is the active one; lists are looked up again, paged without a gap that no edit or departure explains; a history is of a visible moment; a refused decision is told |
| `deployment` | 3 connections and a limit of 2; or the three commands, 2 runs, 2 starts | a signal ends the process; attempts are limited; a finished seed is whole and undoes nothing |

Every property of a passing run is also shown to fail when one definition of the code is
changed the way a bug would change it; those operators stand beside the definition they
change, and say so.

### The bounds, and why they are enough

* **Requests.** The code has no interaction of three handlers that two and a committed result
  do not already show, except where a lock is chosen from a snapshot: hence three in
  `administration_last_one`, and three in `password_links`, where one reset, one more and the
  use of an older link meet. The three Questions of `questions_review` are worked on one request
  at a time (`MCQuestionsReview` begins acts of one setting only) because near-duplicate detection
  between two at once is the gap `questions_edit_while_publishing` shows. For `ActsAreAtomic`,
  `LookedUpStaysVisible` and `HistoryReplaysToRow`, and for all of `Administration` but the last
  Administrator, the theorems say that a third request adds nothing.
* **`MaxEntries`, `MaxEvents`, `MaxEndings`, `MaxDeactivations`.** No act that would be
  recorded begins once the log is that long. Four acts are the longest path of the review that
  visits each of its states (added, rejected, resubmitted, published), and one act more than
  any property compares.
* **Data.** Two texts tell an edit that changes the text from one that does not; two notes and
  one Client do the same for the rest of the row. Three tokens are a login, its successor and
  one more; three links are an old one, a new one and a lost one.
* **Calls and tabs.** Two calls in flight are enough for one to overtake the other, for a log-out
  to cross a renewal and for two tabs to refresh with one token; the theorems of
  `BrowserSessionProofs` show that a third adds nothing to the six properties.
* **Screens.** `Screens.cfg` runs one part of the browser at a time, chosen at the start
  (`part`): `editing`, `adding`, `pages`, `own`, `tags`, `lists`, `history`, `queue`, `account`,
  `rows`, `accountForms`. The parts share the browser and no state, so their sum is checked and
  not their product. `MaxVersions` 3 (`versionsOf`) lets a Question change behind a form, and
  change again while the form's answer is on its way; `MaxInFlight` 1 is one act of the Viewer
  at once, beside any of the fetches and any act of others. Pages hold one Question of
  three, so that each boundary between pages is met; `MaxWrites` 7 is two writes beside the five that
  made the bank. A text says one of three `Contents`: the words searched for, the words in passing, or
  neither. Edits move the oldest and the newest past each other in a search, and into it and out of it;
  the middle one is never edited (`ListsPart`) and stands in the lists by date only. The Viewer is no
  Reviewer, so their queue is empty and not opened. The theorem has none of these bounds. `MaxMoves` 3
  (`movesOf`) is a decision by another, one here and a new request; on the Viewer's own page 2 are a
  request and its decision, and of the Viewers' rows one is acted on at a time. Four Tags, of which
  three match a text and one of the three is named by it.
* **Deployment.** `limit` 2 and 3 connections are one attempt too many; `MaxServed` 5 lets a
  window end with requests under way and fill again; `countSuccesses` is FALSE, because what a route
  that counts successes does is among what one that may take them off does. The theorem is of both.
  Two runs are the same command twice or two at once; `MaxStarts` 2 lets each be interrupted and begun
  again, and `batchSize` 1 lets the bulk bank stop between any two rows.
* **`withinBounds` and `isFresh`** keep ids in supply and are nothing the code has.

### Deadlock and fairness

`Questions` and the screens are checked for deadlock. In the other models the run stops when its
ids or its bounds are used up, as the system does not, so TLC's deadlock check is off there, and
in `Administration` `NoDeadlock` says what matters: no circle of transactions waiting for each
other. In `deployment` the process ends and commands come to an end.

`questions_upvotes` and `questions_edit_while_publishing` assume strong fairness of each request's
own steps (`FairSpec`). Node goes on with every handler whose statement has returned, and
PostgreSQL hands a released row lock to those that wait for it in turn, so a request that can go
on again and again does. Nothing is assumed of clients, of Administrators or of `Abort`. A
request that waits for a lock is enabled each time the lock is free, which is why weak fairness
would not do.

`deployment` assumes weak fairness of four things (`ProcessFairness`): the grace period's timer
fires, `server.close` calls back once no socket is left, the pool ends, and a handler comes to its
end. The last is an assumption about PostgreSQL: interactive transactions have a limit, and mails
and hashing come to an end, but `database.ts:24` sets no statement timeout, so a statement the
database never answered would keep its handler, and with it the process. Nothing is assumed of clients:
`ASignalEndsTheProcess` holds beside one that neither finishes its request nor goes away.

## What the runs found

1. **An edit begun while a Question is Pending is written unchecked once it is Published, and
   a publication publishes a text edited after its check.** `checkEditedText` and
   `publicationFor` decide by the row read before the transaction, and the write compares the
   Publication State it starts from and not the text (`docs/adr/0014`, `README.md:294`).
   `BankTextsAreChecked` says which acts it takes, and its proof showed another pair: a publication
   that read its Question as Rejected is compared with nothing, because it is expected to fail
   (`questions.service.ts:308`), and succeeds if a resubmission commits before its write.
2. **The last Administrator can be removed.** With three acts at once, two removals each
   locked the Administrators of their snapshots, and each counts one that the other is removing
   (`docs/adr/0015:19`, `administration.service.ts:225`).
3. **After two concurrent rotations a live token may remain.** The second read in
   `rotateRefreshToken` does not see a revocation that has begun and not committed, whose
   snapshot lacks the successor (`docs/adr/0023:47`). The session is over all the same:
   `EndedSessionsStayOver` holds, and its next refresh is refused.
4. **A login verified with the old password survives the new one** (`README.md:115`,
   `auth.routes.ts:142`). For Deactivation the same race is caught by the read in `/refresh`.

Modelling the browser's session brought up five more things, which no run here is about:

* ADR-0023:36 asks of the client one refresh in flight, shared across tabs. Each tab has its own
  timer and nothing is shared, so two tabs that renew at once end their session as a theft.
* A tab whose timer finds another tab's session in the cookie goes on as that Viewer without
  having been signed out, and the cache of the last Viewer is kept: `App.tsx:14` empties it
  when there is no session, not when there is another. `SigningOutLeavesNothing` excepts it
  (`swapped`).
* An edit or a move of a Question that is answered after the sign-out puts its answer in the cache
  that was emptied (`questions.queries.ts:139`, `:162`), where the next Viewer in the tab finds it
  for as long as the cache keeps it: `App.tsx:14` says "a cached answer must not outlive the
  session", and `queryClient.clear()` stops no mutation. `SigningOutLeavesNothing` excepts exactly
  these answers (`late`): a query's never comes late.
* A refresh answered after a sign-out signs the tab in again: `stopRenewingSession` stops the
  timer and not the call. Where the log-out reached the API the access token is all that is
  left of the session. `SignedOutUntilAsked` therefore speaks of when the refresh was sent.
* A refresh answered in a way the client cannot parse leaves a loading tab waiting and a signed-in
  one without a timer (`garbled` in `EveryTabWillLearn`).

Modelling the screens, the process and the seeds brought up these, which their properties step
around where they say so:

* A paste of "javascript,java" into the tags field makes another option active than the text left
  in the box names: `showMatchesFor` filters by the Tags chosen when the field was drawn, before
  the paste added one. `TagTypedIsActive` speaks of what is typed.
* An edit puts its answer in the cache (`setQueryData`) without cancelling the fetch under way,
  whose older answer then replaces it until the next one. `useAddQuestion` and `useEditQuestion`
  do not call the review queue and Your Questions out of date.
* A list or a history that is first loading when a move is answered is not fetched again
  (`questions.queries.ts:165`): TanStack Query cancels on invalidation only the fetch of a query that
  holds data, and joins a first load. Read before the move, it shows the Question as it was, and is
  not stale to the library. `AnsweredMovesAreLookedUp` excepts it (`joined`).
* A fetch behind an open edit form that fails unmounts the form, and what was typed is lost.
* `publish` with a confirmation names the Question and no text, so it confirms whatever text is
  in the bank by then; and a refusal is not shown when its button has left the screen meanwhile.
* An offset counts from the top of a list others take Questions out of: after a removal before
  it, the next page skips one. In a search an edit does the same to a Question that stays: it changes
  a rank, and one that is raised to a page already passed, or that is pulled up because one ahead of
  it sank, is never shown. `PagingReachesEveryQuestion` excepts what lost a Question ahead of it,
  by either; lists by date lose none by an edit.
* Deciding a Role Request fetches the current Viewer with `prefetchQuery`
  (`role-requests.queries.ts:81`), which joins a fetch already under way: the role it shows may be
  from before the decision.
* A success that began in one window of the rate limiter and ends in the next is taken off the
  count of the next (`spared` in `AttemptsAreLimited`).
* The bulk seed, run again, gives back the Upvotes, Tags and Clients people took off its
  Questions; `SeedsUndoNothing` is about the rows of the small and the hosted seed.

## What is proved

TLAPS checks these for every value of the constants that meets the `ASSUME`s of the modules:
any number of Viewers, Questions, tokens, links and requests.

| Module | Theorem | States |
| --- | --- | --- |
| `QuestionsProofs` | `TypeCorrect` | the tables keep their shape, and each request has in hand what its next step reads |
| `QuestionBankProofs` | `ImplementsTheBank` | `ActsAreAtomic`: `Questions` implements `QuestionBank` |
| `QuestionBankProofs` | `StaysVisible` | `LookedUpStaysVisible`: what a Viewer may write stays Visible to them until the write |
| `QuestionBankProofs` | `HistoryReplays` | `HistoryReplaysToRow`: the history of a Question gives its row |
| `QuestionBankProofs` | `NearDuplicatesAreConfirmed`, `BankTextsAreChecked` | `NearDuplicatesWereConfirmed`, `TextsInTheBankWereChecked`, while no two edits, publications or resubmissions are under way at once |
| `QuestionBankProofs` | `PublicationsOverride` | `PublicationOverridesWhatItJoins`, while no two of these or of additions are |
| `AdministrationProofs` | `TypeCorrect` | the same of the Viewers and the Role Requests |
| `AdministrationProofs` | `NobodyDeadlocks` | `NoDeadlock`: nobody waits in a circle |
| `AdministrationProofs` | `EventsReplay`, `RecordedOnce` | `EventsReplayToViewers`, `EachChangeIsRecordedOnce`: the log gives the table, and says each change once |
| `AdministrationProofs` | `DecidedOnce` | `RoleRequestsAreDecidedOnce` |
| `AdministrationProofs` | `OneRemains`, `OneRemainsOfTwo` | `AnAdministratorRemains`, while nobody is appointed beside two removals, and so always of two acts at once |
| `SessionsProofs` | `TypeCorrect` | the same of the tokens |
| `SessionsProofs` | `OneExchange` | `OneTokenToExchange`: no family has two unspent tokens |
| `SessionsProofs` | `EndedIsOver` | `EndedSessionsStayOver`: no refresh after the end of its session signs anyone in |
| `SessionsProofs` | `ReuseEnds` | `ReuseEndsTheFamily`: a token presented again ends its family before its presenter is answered |
| `PasswordLinksProofs` | `TypeCorrect` | the same of the links |
| `PasswordLinksProofs` | `OneLink`, `OneLinkAWindow` | one link that works at a time, one issued in a window |
| `PasswordLinksProofs` | `NewViewersAreMailed` | `EveryNewViewerWasMailed`: no Viewer exists whose first link was not sent |
| `PasswordLinksProofs` | `UnspentLinksSetPasswords`, `LinksEndForAReason` | a password is set by an unspent link; a link is spent by its own use or by another mailed in its place |
| `BrowserSessionProofs` | `TypeCorrect` | the same of the sessions, the calls and the cookie |
| `BrowserSessionProofs` | `Learning`, `Asked` | `EveryTabWillLearn`, `SignedOutUntilAsked`: a tab is never left waiting for nothing, and never signed in unasked |
| `BrowserSessionProofs` | `SpentCookies` | `ASpentCookieIsUnseen`: the cookie never falls behind the exchanges |
| `BrowserSessionProofs` | `Agreement`, `NothingLeft` | a token is under its Viewer's name, and a cache is of its session's Viewer, but for edits and moves answered after their session |
| `ScreensProofs` | `ScreensTypeCorrect`, `ListsTypeCorrect`, `AccountsTypeCorrect` | the same of the caches, the forms, what is sent and what is shown |
| `ScreensProofs` | `ConfirmedWasRefused`, `SavesAreNarrow` | `ConfirmationsAreOfWhatWasRefused`, `SavesTouchOnlyWhatWasTyped`: a form confirms only what was refused, and saves only what was typed |
| `ScreensProofs` | `MovesAreLookedUp` | `AnsweredMovesAreLookedUp`: no mounted list stays older than a move that has been answered, unless its first load was joined |
| `ScreensProofs` | `PagingReachesAll` | `PagingReachesEveryQuestion`: paging skips nothing that stayed and lost nothing ahead of it, for any page size, bank, matches and ranks, edits included |
| `ScreensProofs` | `HistoriesAreVisible` | `HistoryCoversAVisibleMoment` |
| `ScreensProofs` | `RefusalsAreTold` | `RefusedDecisionsAreTold`: a refused decision is told in the queue it was made in |
| `DeploymentProofs` | `LimitedAttempts` | `AttemptsAreLimited`, for any limit and number of connections, successes counted or not |
| `DeploymentProofs` | `NothingUndone`, `FinishedSeedsAreWhole` | `SeedsUndoNothing`, `AFinishedSeedIsWhole`, for any rows, batches and runs at once |

The assumptions are that texts are alike in either order, as two sets of trigrams are
(`SimilarAssumption`), that `None`, `Nobody` and `Blank` are no members of the sets they stand beside,
that the instance's requests, first rows, first roles and first versions have the type the schemas
give them, and that bounds are numbers. `Seeds` assumes that no seed is empty, that the
bulk bank's rows are no other seed's, and that nothing hangs from what people create
(`RowsAssumption`); `QuestionLists` that a bank is finite and
that no two Questions have one id or were added at one moment, which stands for the id at the end of
each `ORDER BY` (`OrderAssumption`); of ranks it assumes that they are numbers.

**Types.** `TypeOK` is not inductive: a commit updates the row its request names, and only
what the request has in hand says there is one. `HandsOK` says it, per step of the handler; in
`Sessions` it needs in turn that a family's first token is in the table.

**The refinement.** A request decides by what it read earlier, so a step of the serial bank has to
be shown to be allowed *now*. `entitled` says of each request what of its decision is still true:
its act is still its Viewer's to do (`RightsFollowTheAuthor`: the rules ask for the Author and for
nothing else that an act changes), the row it locked is the row there is (`OneWriter`: a lock is
held by one), and what it is about to upvote has been Published (`PublishedRecorded`: the log only
grows, `LogGrows`, and no row is Published without its event). Typed with these is inductive,
step by step of the handler (`EntitledStep`). Then `BankStep`: an insert, a commit, a refusal and
the two steps of Upvotes are each a step of the bank, an edit that changes nothing and everything
before a commit are none. That the bank's rules are the API's is a lemma of its own (`SameRules`,
`SameEntries`), because an instance has its own copies. `StaysVisible` is a corollary: whoever may
still do an act is the Author or a Reviewer, and both see the Question in every state.

**The history.** An entry `tells` what became of a row when its event says where the row moved, what
its text and notes are and which Clients came and went. `ReplayGrows`: a log that replays to the
row, and one entry more that tells of the row's change, replays to the row it became. So each act
needs only a lemma about the one entry it writes (`AnAdditionIsTold`, `AnEditIsTold`,
`AChangeIsTold`, `ARefusalTellsNothing`); an edit tells of the row it found because the row it
locked is still the row, which the refinement has shown.

**Near-duplicates.** No lock holds a comparison to the write that relies on it, so the three theorems
have a hypothesis, `OneUnderWay`: of the acts that change what a comparison is worth, one at a time is
between its look-up and its end. A resubmission is among them because a publication that looked its
Question up while it was Rejected is compared with nothing and may yet find it Pending. Anything else
may be under way beside them. `Compared` is what the comparison is still worth: the text is the one
that was read, the Question is in the state it was read in or has gone back to its Author, and where
nothing alike was found there is nothing now, because rejections and returns only take Questions away
(`NothingJoins`). With `CheckedAtTheCommit` an act that brings a text into the bank was compared, and
`OneTextJoins` adds one act to a bank whose pairs are confirmed. That the hypothesis is needed is what
`questions_edit_while_publishing` shows for an edit beside a publication.

**Administration.** `Sound` says what a transaction goes by and `Apart` that no other takes it away:
no two hold one row, have decided one Role Request or are creating one Viewer. So the row read after
the lock is still the row when it is written, the act is still not done, and the decided Role Request
is still open. The histories follow as for Questions, with one lemma about the event each commit
writes (`ACommitIsTold`). Every lock but a row's is waited for by who holds none, and a row's by who
holds only rows before it (`Waiting`): in a circle of those who lock, the one with the fewest Viewers
left after its next row would wait for one with fewer. This needs ids in an order and finitely many
rows.

**The last Administrator.** `AnAdministratorRemains` does not hold of three requests
(`administration_last_one`), and `OneRemains` says of which it does: of any number, as long as nobody
is appointed or reactivated while two removals are between the rows they chose and their end. Then,
of two removals, the one that chose its rows later chose every Administrator (`OneChoseAll`), because
none has joined since; it holds them all, or waits for one the other holds and counts again once it
has it. So whoever records a removal leaves another Administrator (`leavesOne`). Of two requests there
is no third to appoint anyone, so `OneRemainsOfTwo` has no hypothesis on what they do.

**One token to exchange.** While a refresh stands between its spend and its insert, the family
has no unspent token at all, and no other refresh of it stands there. `InsertingStandsForIt`
is that; with it the invariant is inductive, and the only step that matters is `Spend`, whose
filter lets one of two through.

**Ended is over.** A family is over when an ending has committed, and then it has a revoked
token (`OverIsOver`): the family of a single token because that token is among the rows found
unless it was revoked before; the families of a Viewer because each had a token when the
Viewer's row was locked. Revocations are never taken back (`keepsTokens`), so a refresh that
came later finds one in `Recheck` and never reaches its answer.

**Reuse.** Spent is spent for good, so a request that presents a spent token never comes to spend
it, insert or answer (`ReuseIsSeen`): it finds the token revoked and is refused, or goes on to end
the family. For the second, `OverIsOver` again: a family about to be ended has a revoked token or
one among the rows the statement saw.

**One link.** `OneIssuer`: only one open transaction issues links for a Viewer, resets by the
advisory lock, a creation because its Viewer is not there yet. `IssuersKnow`: from then to its
commit it holds every unspent link of the Viewer, and none of them is recent. So the link its
commit adds is alone.

**Mails and endings.** `mailsFirst`: a transaction that will commit a link has mailed it.
`LinksApart` and `RowsApart`: no two issue one link or spend one row. So the row a commit
adds is of the mail that went before it, and a mail is never of another's row. `spendsOwn` says that
what a transaction will spend is the link it was given or those of the Viewer it has mailed
another; the rows it has spent are unspent to everybody else until it commits.

**The browser.** A tab's part of `Typed` is that a timer is set only where someone is signed in
(`TimersFollow`), so that a refresh is never sent by who is signed out, and that each token a
call or the cookie holds was issued (`TokensKnown`). `EveryTabWillLearn` is then inductive: what
takes a refresh off its tab is an answer that sets the timer, an end of the session, or an
answer that cannot be read. The cookie needs `Fresh`: what an answer on its way sets is
unspent, in nobody's hands and set by no other answer. So the cookie it becomes is unspent, and only an
exchange that was sent with it, whose answer is still to come, spends it. For the cache, `own` adds
that each query in flight was sent for the Viewer the tab still shows; a change may have been sent for
another, and then its answer is in `late` as it comes.

**The screens of a Question.** `OfVersions`: what is held, read or answered is of a version there
has been, and versions are only added. `FormHolds` ties a form to the version it was opened on: a box
that was not typed in holds what that version held, and an open dialog holds a request that was
refused. `SavesHold` says the same of what was sent, of which the form may have been closed or typed
in since; `TouchedSince` says that a form that still waits has been typed in no less than when it
sent. From these a save is narrow and a confirmation is of a refusal. `ListsLookedUp` is of the
cache: a list that is not mounted awaits nothing, and a mounted one has, from the moment a move is
settled, no fetch under way that was read before it; it is newer, awaited, or failed, or has `joined` a
first load.

**Paging.** Every list is in one order whatever its Questions say (`ListOrder`: by date, or by rank
and then id), so a position is the count of those ahead, positions are distinct and none is left out
(`Positions`), and a page that is not full ends the list (`ShortPages`). A write, an edit included,
takes from `due` what loses a Question ahead of it; what is still due has only moved further down
(`OthersWriteStep`: the set of those ahead only grows). So `WalkHolds`, that all that is due and
stands before the end of the page reached has been shown, is kept by writes; a page read adds the
next positions to it, and a short one all the rest.

**Decisions.** `AccountsInv` types each list, button and session by what the API may have held. A
decision then leaves its button in one step only, that of being heard (`stillUnderWay`), and that step
tells a refusal in the queue still up.

**The process and the seeds.** `Counted`: the failures of a window and the requests still under way
in it are no more than were counted, but for what successes of an earlier window took off. For a
seed, `progress` says at each statement which rows its run has come by, and that each of them is
there and whole but for what people took off; that holds of any number of runs because rows are only added, and
only a row that is whole or the bulk bank's is left by an interrupted run.

The invariants were checked by TLC, on the instances above, before they were proved.

**Only model-checked**: `TagTypedIsActive`, whose model selects from sequences with an operator the
prover has no facts of. Liveness under fairness
(`EveryRequestIsAnswered`, `ASignalEndsTheProcess`), `ENABLED`, and induction over data are out of the
prover's reach and stay with TLC.

## What is not modelled

* Hashing, signing, random tokens and cookies' attributes: cryptography and I/O.
* Query plans (`query-plans.ts`): it reads what PostgreSQL plans and prints it.
* How well words do in a text, and trigram similarity: constant functions of what is said, in the models that use them.
* `createClient`: one insert under a unique index, with its event. The screen that calls it and the
  rows the seeds share with it are modelled.
* The rate limiter's store and TanStack Query: libraries, modelled from how the code uses them.
* Logging, errors' wording, headers, static files, the health check, migrations.
* Layout, navigation, theme and the shadcn components.
* The text of notes, titles and mails.

## Plan

1. `TagTypedIsActive` proved, from facts about what a selection from a sequence keeps.
2. `createClient` in `Administration`'s run, with the log an Administrator reads.
3. Two screens at once: the review queue beside an open form of the same Question.
