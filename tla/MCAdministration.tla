--------------------------- MODULE MCAdministration ---------------------------
(* Instances of Administration for TLC: who there is to begin with and what is
   asked. *)
EXTENDS Administration, TLC

CONSTANTS id1, id2

ask(act, v) == [act |-> act, target |-> v, role |-> None, request |-> None]

given(act, v, role) == [ask(act, v) EXCEPT !.role = role]

decision(act, id) == [act |-> act, target |-> None, role |-> None, request |-> id]

row(role, isAdministrator) ==
    [role |-> role, isAdministrator |-> isAdministrator, isDeactivated |-> FALSE]

\* One Administrator, and Viewers who are not.
OneAdministrator == [v \in Viewers |-> row("reader", v = 2)]

\* Two Administrators, and one address without an account.
TwoAdministrators == [v \in Viewers |-> IF v = 3 THEN None ELSE row("reader", TRUE)]

\* Every act, beside one another.
AllAsks ==
    {given("changeRole", 2, "author"), given("changeRole", 2, "reader"),
     [ask("raise", None) EXCEPT !.role = "author"],
     decision("grant", id1), decision("deny", id1), given("create", 3, "reader")}
    \cup {ask(act, v) : act \in {"withdraw", "deactivate", "appoint", "reactivate"}, v \in {1, 2}}

\* Viewer 2 hands their authority on to 1 and 3, and everyone's is withdrawn.
TakingTurns == {ask("appoint", 1), ask("appoint", 3)} \cup {ask("withdraw", v) : v \in Viewers}

\* The requests are alike.
Alike == Permutations(Requests)
=============================================================================
