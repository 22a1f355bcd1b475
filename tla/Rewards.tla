------------------------------- MODULE Rewards -------------------------------
(***************************************************************************)
(* Coins: the wallet, and the two handlers that pay into it.  A puzzle     *)
(* attempt that solves pays 25, winning a match pays 40 (_complete_game,   *)
(* of which Match has the rest); both read a balance and write back a      *)
(* larger one.  Wallets and puzzles are created by whoever first looks for *)
(* them.                                                                   *)
(*                                                                         *)
(* An attempt that does not solve the puzzle, or that nobody is signed in  *)
(* for, pays nothing and is left out.                                      *)
(***************************************************************************)
EXTENDS Requests

Opening == 1284
Reward  == [puzzle |-> 25, win |-> 40]
Paying  == {"puzzle", "win"}

VARIABLES
    wallets,     \* db.wallets
    nextWallet,  \* the id of the next wallet
    puzzles,     \* db.puzzles: how often the default puzzles were inserted
    solved,      \* db.puzzle_attempts that solved, per user
    wins,        \* db.scoress: wins of the user's players
    counted,     \* those of them that are read back: wins of the user's first 500 players
    told,        \* db.notifications that say coins were earned
    jobs,        \* rebuild_leaderboard_task messages with the broker
    claim        \* the request in each slot

\* History of the behaviour; no action reads it.
VARIABLES
    paid,        \* paid[u][k]: rewards of kind k written to a wallet of u
    tangled,     \* users who had two such requests in flight at once, or one cut short
    kitted,      \* users with a wallet from the sign-up, stored before they earned anything
    reported     \* every win was, or is about to be, announced to a rebuild

coins       == <<wallets, nextWallet, puzzles, solved, told>>
scores      == <<wins, counted>>
payHistory  == <<paid, tangled, kitted>>
rewardsVars == <<coins, scores, jobs, claim, payHistory, reported>>

Wallet == [id : Nat, user : Users, balance : Nat]
Kinds  == Paying \cup {"look", "seed"}
Claim  == [pc : {"idle", "seed", "record", "record_late", "find", "open", "credit", "tell", "enqueue"},
           kind : Kinds, by : Users \cup {0},
           wallet : Nat,        \* wallet["_id"]
           num : Nat]           \* wallet["balance"] as read
NoClaim == [pc |-> "idle", kind |-> "look", by |-> 0, wallet |-> 0, num |-> 0]

ClaimAt(r, label)   == claim[r].pc = label
ClaimStep(r, q)     == claim' = [claim EXCEPT ![r] = q]
ClaimGoto(r, label) == ClaimStep(r, [claim[r] EXCEPT !.pc = label])
ClaimEnd(r)         == ClaimStep(r, NoClaim)
ClaimsOf(u)         == {r \in Slots : ~ClaimAt(r, "idle") /\ claim[r].by = u}

ClaimBegin(r, kind, u, label) ==
    /\ ClaimAt(r, "idle")
    /\ ClaimStep(r, [NoClaim EXCEPT !.pc = label, !.kind = kind, !.by = u])
    /\ tangled' = IF ClaimsOf(u) = {} THEN tangled ELSE tangled \cup {u}

WalletsOf(u) == {w \in wallets : w.user = u}

\* A sign-up cut short before its wallet leaves an account without one.  Where
\* coins play no part, all have one.
RewardsInit ==
    /\ kitted \in SUBSET alive /\ (kitted = alive \/ "wallet" \in DOMAIN menu)
    /\ wallets = {[id |-> u, user |-> u, balance |-> Opening] : u \in kitted}
    /\ nextWallet = Veterans + 1
    /\ puzzles \in {0, 1} /\ (puzzles = 1 \/ "puzzles" \in DOMAIN menu)
    /\ solved = [u \in Users |-> 0] /\ wins = [u \in Users |-> 0] /\ counted = wins
    /\ told = [u \in Users |-> [k \in Paying |-> 0]]
    /\ jobs = 0
    /\ claim = [r \in Slots |-> NoClaim]
    /\ paid = [u \in Users |-> [k \in Paying |-> 0]]
    /\ tangled = {} /\ reported = TRUE

(***************************************************************************)
(* Puzzles.                                                                *)
(***************************************************************************)
\* _ensure_puzzles of the puzzle page and the daily puzzle, when it finds none.
SeedBegin(r) ==
    /\ puzzles = 0
    /\ Serve("puzzles")
    /\ \E u \in alive : ClaimBegin(r, "seed", u, "seed")
    /\ UNCHANGED <<coins, scores, jobs, paid, kitted, reported>>

SeedPuzzles(r) ==
    /\ ClaimAt(r, "seed")
    /\ puzzles' = puzzles + 1
    /\ ClaimEnd(r)
    /\ UNCHANGED <<wallets, nextWallet, solved, told, scores, jobs, payHistory, reported, calls>>

\* Fault: the coins come first and the attempt is recorded last.
SolvePaidFirst(r) ==
    /\ puzzles > 0
    /\ Serve("attempt")
    /\ \E u \in alive : ClaimBegin(r, "puzzle", u, "find")
    /\ UNCHANGED <<coins, scores, jobs, paid, kitted, reported>>

\* attempt_puzzle: 404 unless the puzzle is stored.  Whether the user has
\* solved it before is not asked.
SolveBegin(r) ==
    /\ puzzles > 0
    /\ Serve("attempt")
    /\ \E u \in alive : ClaimBegin(r, "puzzle", u, "record")
    /\ UNCHANGED <<coins, scores, jobs, paid, kitted, reported>>

(***************************************************************************)
(* A won match.  The winner may have removed the account meanwhile.  Scores *)
(* are looked up by player, and of a user only the first 500 (get_players   *)
(* with stop=500): the score of a later one is stored and never counted.    *)
(***************************************************************************)
WinBegin(r) ==
    /\ \E u \in Known :
          \/ Serve("win") /\ ClaimBegin(r, "win", u, "record")
          \/ Serve("late_win") /\ ClaimBegin(r, "win", u, "record_late")
    /\ UNCHANGED <<coins, scores, jobs, paid, kitted, reported>>

\* The attempt, or the winner's score, is stored.
Record(r) ==
    /\ ClaimAt(r, "record") \/ ClaimAt(r, "record_late")
    /\ LET u == claim[r].by IN
          \/ /\ claim[r].kind = "puzzle"
             /\ solved' = [solved EXCEPT ![u] = @ + 1]
             /\ UNCHANGED scores
          \/ /\ claim[r].kind = "win"
             /\ wins' = [wins EXCEPT ![u] = @ + 1]
             /\ counted' = IF ClaimAt(r, "record") THEN [counted EXCEPT ![u] = @ + 1] ELSE counted
             /\ UNCHANGED solved
    /\ ClaimGoto(r, "find")
    /\ UNCHANGED <<wallets, nextWallet, puzzles, told, jobs, payHistory, reported, calls>>

(***************************************************************************)
(* The wallet.                                                             *)
(***************************************************************************)
\* get_wallet, when it finds none; otherwise it changes nothing.
LookBegin(r) ==
    /\ Serve("wallet")
    /\ \E u \in alive : WalletsOf(u) = {} /\ ClaimBegin(r, "look", u, "open")
    /\ UNCHANGED <<coins, scores, jobs, paid, kitted, reported>>

\* Fault: the message goes out as soon as there is a wallet to pay into.
FindAndTell(r) ==
    /\ ClaimAt(r, "find")
    /\ LET q == claim[r] IN
          /\ \E w \in First(WalletsOf(q.by)) :
                ClaimStep(r, [q EXCEPT !.pc = "credit", !.wallet = w.id, !.num = w.balance])
          /\ told' = [told EXCEPT ![q.by][q.kind] = @ + 1]
    /\ UNCHANGED <<wallets, nextWallet, puzzles, solved, scores, jobs, payHistory, reported, calls>>

\* _ensure_wallet looks the wallet up; _complete_game pays only into one it finds.
FindWallet(r) ==
    /\ ClaimAt(r, "find")
    /\ LET q == claim[r] IN
          \/ \E w \in First(WalletsOf(q.by)) :
                ClaimStep(r, [q EXCEPT !.pc = "credit", !.wallet = w.id, !.num = w.balance])
          \/ /\ WalletsOf(q.by) = {}
             /\ ClaimGoto(r, IF q.kind = "win" THEN "tell" ELSE "open")
    /\ UNCHANGED <<coins, scores, jobs, payHistory, reported, calls>>

\* _ensure_wallet inserts the wallet it did not find, and works with that one.
OpenWallet(r) ==
    /\ ClaimAt(r, "open")
    /\ LET q == claim[r] IN
          /\ wallets' = wallets \cup {[id |-> nextWallet, user |-> q.by, balance |-> Opening]}
          /\ nextWallet' = nextWallet + 1
          /\ IF q.kind = "puzzle"
             THEN ClaimStep(r, [q EXCEPT !.pc = "credit", !.wallet = nextWallet, !.num = Opening])
             ELSE ClaimEnd(r)
    /\ UNCHANGED <<puzzles, solved, told, scores, jobs, payHistory, reported, calls>>

\* Fault: the balance is written back as it was read.
CreditNothing(r) ==
    /\ ClaimAt(r, "credit")
    /\ paid' = [paid EXCEPT ![claim[r].by][claim[r].kind] = @ + 1]
    /\ ClaimGoto(r, "tell")
    /\ UNCHANGED <<coins, scores, jobs, tangled, kitted, reported, calls>>

\* The balance read before, plus the reward.
Credit(r) ==
    /\ ClaimAt(r, "credit")
    /\ LET q == claim[r] IN
          /\ wallets' = {IF w.id = q.wallet THEN [w EXCEPT !.balance = q.num + Reward[q.kind]]
                                            ELSE w : w \in wallets}
          /\ paid' = [paid EXCEPT ![q.by][q.kind] = @ + 1]
    /\ ClaimGoto(r, "tell")
    /\ UNCHANGED <<nextWallet, puzzles, solved, told, scores, jobs, tangled, kitted, reported, calls>>

\* "You solved ... and earned 25 coins.", "You earned 40 coins for a win."
Tell(r) ==
    /\ ClaimAt(r, "tell")
    /\ told' = [told EXCEPT ![claim[r].by][claim[r].kind] = @ + 1]
    /\ IF claim[r].kind = "win" THEN ClaimGoto(r, "enqueue") ELSE ClaimEnd(r)
    /\ UNCHANGED <<wallets, nextWallet, puzzles, solved, scores, jobs, payHistory, reported, calls>>

\* rebuild_leaderboard_task.delay([]); an unreachable broker is logged and that is all.
Enqueue(r) ==
    /\ ClaimAt(r, "enqueue")
    /\ \/ jobs' = jobs + 1 /\ UNCHANGED reported
       \/ reported' = FALSE /\ UNCHANGED jobs
    /\ ClaimEnd(r)
    /\ UNCHANGED <<coins, scores, payHistory, calls>>

KillClaim(r) ==
    /\ ~ClaimAt(r, "idle")
    /\ Die
    /\ tangled' = tangled \cup {claim[r].by}
    /\ reported' = (reported /\ claim[r].kind # "win")
    /\ ClaimEnd(r)
    /\ UNCHANGED <<coins, scores, jobs, paid, kitted>>

RewardsStep(r) ==
    \/ SeedBegin(r) \/ SeedPuzzles(r) \/ SolveBegin(r) \/ WinBegin(r) \/ Record(r)
    \/ LookBegin(r) \/ FindWallet(r) \/ OpenWallet(r) \/ Credit(r) \/ Tell(r) \/ Enqueue(r)
    \/ KillClaim(r)

RewardsNext == (\E r \in Slots : RewardsStep(r)) /\ UNCHANGED accounts

(***************************************************************************)
(* Properties.                                                             *)
(***************************************************************************)
RewardsOK ==
    /\ wallets \subseteq Wallet /\ nextWallet \in Nat /\ puzzles \in Nat
    /\ solved \in [Users -> Nat] /\ wins \in [Users -> Nat] /\ counted \in [Users -> Nat]
    /\ told \in [Users -> [Paying -> Nat]] /\ jobs \in Nat
    /\ claim \in [Slots -> Claim]
    /\ paid \in [Users -> [Paying -> Nat]] /\ tangled \subseteq Users \cup {0} /\ kitted \subseteq Users
    /\ reported \in BOOLEAN

\* No coin is created by a race: whatever overlaps, is retried or is cut
\* short, no wallet holds more than it was opened with and the rewards of the
\* attempts and the wins on record, although every payment writes back a
\* balance read earlier (attempt_puzzle, _complete_game).
NeverOverpaid ==
    \A w \in wallets :
        w.balance <= Opening + Reward.puzzle * solved[w.user] + Reward.win * wins[w.user]

\* A user whose sign-up stored the wallet, and who never had two of these requests
\* in flight or one cut short, is paid in full: the wallet that get_wallet
\* shows holds the reward of every attempt and win on record, and no less.
PaidInFull ==
    \A u \in kitted \ tangled : ClaimsOf(u) = {} =>
        \A w \in First(WalletsOf(u)) :
            w.balance = Opening + Reward.puzzle * solved[u] + Reward.win * wins[u]

\* A message that says coins were earned follows the payment it speaks of, even
\* when the request dies in between: there are never more messages than
\* payments, except for wins of a user who had no wallet from the sign-up.
ToldIsPaid ==
    \A u \in Users, k \in Paying : (k = "win" => u \in kitted) => told[u][k] <= paid[u][k]
==============================================================================
