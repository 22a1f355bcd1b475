--------------------------- MODULE MCMatchmaking ---------------------------
(* Instances of Matchmaking: which user is signed in in which tab.          *)
EXTENDS Matchmaking, TLC

CONSTANTS ann, bob, a1, a2, b1, w1, w2

TwoAgainstOne == (a1 :> ann) @@ (a2 :> ann) @@ (b1 :> bob)
OneAgainstOne == (a1 :> ann) @@ (b1 :> bob)

\* The two tabs of ann, and the workers, may be exchanged.
Exchange == Permutations({a1, a2}) \cup Permutations({w1, w2})
=============================================================================
