------------------------------ MODULE MCSessions ------------------------------
(* Instances of Sessions for TLC: who is signed in to begin with. *)
EXTENDS Sessions, TLC

CONSTANTS v1, t1

\* One Viewer, signed in once before the run begins.
SignedIn == [t \in TokenIds |-> IF t = t1 THEN v1 ELSE None]

\* The requests are alike, and so are the tokens not minted yet.
Alike == {[x \in DOMAIN p \cup DOMAIN q |-> IF x \in DOMAIN p THEN p[x] ELSE q[x]] :
             p \in Permutations(Requests), q \in Permutations(TokenIds \ {t1})}
=============================================================================
