--------------------------- MODULE MCPasswordLinks ---------------------------
(***************************************************************************)
(* An instance of PasswordLinks: one Viewer there is and one who may be    *)
(* created.                                                                *)
(***************************************************************************)
EXTENDS PasswordLinks, TLC

CONSTANTS v1, v2

SomeViewers == {v1, v2}

FirstMembers == {v1}

Alike == Permutations(Links) \cup Permutations(Requests)
=============================================================================
