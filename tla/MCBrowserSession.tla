-------------------------- MODULE MCBrowserSession --------------------------
(* Instances of BrowserSession for TLC: which ids are alike. *)
EXTENDS BrowserSession, TLC

Alike == Permutations(Tabs) \cup Permutations(Viewers) \cup Permutations(TokenIds)
         \cup Permutations(Calls)
=============================================================================
