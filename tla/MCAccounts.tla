----------------------------- MODULE MCAccounts -----------------------------
(* Instances of Accounts: which browser sends the requests of which slot.   *)
(* All addresses are spellings of "x".                                      *)
EXTENDS Accounts, TLC

CONSTANTS b1, b2, r1, r2

OneEach == (r1 :> b1) @@ (r2 :> b2)
TwoTabs == (r1 :> b1) @@ (r2 :> b1)
Lower   == [e \in Emails |-> "x"]

\* The two tabs of one browser may be exchanged.
TabsAlike == Permutations({r1, r2})
=============================================================================
