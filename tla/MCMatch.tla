------------------------------ MODULE MCMatch ------------------------------
(* Instances of Match: whose client sends the requests of which slot.       *)
EXTENDS Match, TLC

CONSTANTS c1, c2, j1

\* Two tabs of the creator against one of the joiner.
TwoTabs  == (c1 :> "creator") @@ (c2 :> "creator") @@ (j1 :> "joiner")
\* Every client waits for its answer.
OneEach  == (c1 :> "creator") @@ (j1 :> "joiner")

\* The two tabs of the creator may be exchanged.
TabsAlike == Permutations({c1, c2})
=============================================================================
