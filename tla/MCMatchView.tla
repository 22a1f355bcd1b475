---------------------------- MODULE MCMatchView ----------------------------
(* The instance of MatchView: every client waits for its answer.            *)
EXTENDS MatchView, TLC

CONSTANTS c1, j1

OneEach == (c1 :> "creator") @@ (j1 :> "joiner")
=============================================================================
