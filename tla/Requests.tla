------------------------------ MODULE Requests ------------------------------
(***************************************************************************)
(* What the feature endpoints have in common: signed-in users, workers     *)
(* that share the database and nothing else, requests that may be killed   *)
(* between two round trips.  The modules that extend this one keep their   *)
(* requests in slots of their own and take one action per round trip.      *)
(*                                                                         *)
(* Documents carry ids that grow with the time of insertion; find_one and  *)
(* find_one_and_update take the first that fits, as a collection scan does.*)
(* A definition whose comment starts with "Fault" is a variant of the one  *)
(* after it with a plausible bug; no action uses it.                       *)
(***************************************************************************)
EXTENDS Naturals, FiniteSets

CONSTANTS
    Users,       \* ids of the accounts, in the order of db.users
    Veterans,    \* how many of them exist at the beginning
    Slots,       \* requests in flight, of each component
    Menus        \* bounds: how often one behaviour may call what, and kill a request

ASSUME RequestsAssumption ==
    /\ IsFiniteSet(Users) /\ Users = 1 .. Cardinality(Users)
    /\ Veterans \in 0 .. Cardinality(Users)
    /\ IsFiniteSet(Slots)
    /\ \A m \in Menus : \A event \in DOMAIN m : m[event] \in Nat

VARIABLES
    menu,        \* the bounds of this behaviour
    calls,       \* what it has called so far
    alive,       \* db.users: the accounts that exist now
    signup       \* what the sign-up of each account stores next

accounts == <<menu, alive, signup>>

\* Accounts that exist or have existed: others hold their ids.
Known == {u \in Users : signup[u] # "none"}

Serve(event) == /\ event \in DOMAIN menu /\ calls[event] < menu[event]
                /\ calls' = [calls EXCEPT ![event] = @ + 1]
Die == Serve("kill")

\* The document a lookup without a sort returns, as a set of at most one.
First(docs) == {d \in docs : \A e \in docs : d.id <= e.id}

RequestsInit ==
    /\ menu \in Menus /\ calls = [event \in DOMAIN menu |-> 0]
    /\ alive = 1 .. Veterans
    /\ signup = [u \in Users |-> IF u <= Veterans THEN "done" ELSE "none"]

\* remove_user: the account goes; nothing that other collections keep about it does.
RemoveAccount(u) ==
    /\ u \in alive
    /\ Serve("remove_account")
    /\ alive' = alive \ {u}
    /\ UNCHANGED <<menu, signup>>

RequestsOK ==
    /\ menu \in Menus /\ calls \in [DOMAIN menu -> Nat]
    /\ alive \subseteq Users
    /\ signup \in [Users -> {"none", "kit", "wallet", "welcome", "done"}]
=============================================================================
