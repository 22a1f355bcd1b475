------------------------------- MODULE Signup -------------------------------
(***************************************************************************)
(* What a sign-up leaves to the feature endpoints: an account, then its    *)
(* inventory, its wallet and its welcome, each inserted without asking     *)
(* whether it is there (add_user, create_guest_user).  Accounts has the    *)
(* checks before, the tokens after and the rollback of a failed sign-up;   *)
(* here a sign-up goes on or is killed.  The account is there for everybody*)
(* from the first insert: others can write to it, and its owner can log in *)
(* from another tab.                                                       *)
(***************************************************************************)
EXTENDS Profile, Social

\* create_user.
CreateUser(u) ==
    /\ Known = 1 .. u - 1
    /\ Serve("sign_up")
    /\ alive' = alive \cup {u}
    /\ signup' = [signup EXCEPT ![u] = "kit"]
    /\ UNCHANGED <<menu, rewardsVars, rankingVars, profileVars, socialVars>>

GiveKit(u) ==
    /\ signup[u] = "kit"
    /\ kits' = [kits EXCEPT ![u] = @ + 1]
    /\ signup' = [signup EXCEPT ![u] = "wallet"]
    /\ UNCHANGED <<menu, alive, calls, rewardsVars, rankingVars, visit, twice, socialVars>>

GiveWallet(u) ==
    /\ signup[u] = "wallet"
    /\ wallets' = wallets \cup {[id |-> nextWallet, user |-> u, balance |-> Opening]}
    /\ nextWallet' = nextWallet + 1
    /\ kitted' = IF ClaimsOf(u) = {} /\ solved[u] = 0 /\ wins[u] = 0 THEN kitted \cup {u} ELSE kitted
    /\ signup' = [signup EXCEPT ![u] = "welcome"]
    /\ UNCHANGED <<menu, alive, calls, puzzles, solved, told, scores, jobs, claim, paid, tangled, reported,
                   rankingVars, profileVars, socialVars>>

Greet(u) ==
    /\ signup[u] = "welcome"
    /\ Send("system", u, 0)
    /\ signup' = [signup EXCEPT ![u] = "done"]
    /\ UNCHANGED <<menu, alive, calls, rewardsVars, rankingVars, profileVars, requests, friendships, games,
                   ask, socialHistory>>

KillSignup(u) ==
    /\ signup[u] \in {"kit", "wallet", "welcome"}
    /\ Die
    /\ signup' = [signup EXCEPT ![u] = "done"]
    /\ UNCHANGED <<menu, alive, rewardsVars, rankingVars, profileVars, socialVars>>

SignupNext ==
    \E u \in Users : CreateUser(u) \/ GiveKit(u) \/ GiveWallet(u) \/ Greet(u) \/ KillSignup(u)
=============================================================================
