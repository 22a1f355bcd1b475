------------------------------- MODULE Profile -------------------------------
(***************************************************************************)
(* The profile page (build_profile_page, which the statistics, the match   *)
(* history and the achievements are cut from): five reads of five          *)
(* collections, one after the other, two of which create what they do not  *)
(* find.  The inventory alone is the second of them.                       *)
(*                                                                         *)
(* Recent matches, names and pictures are left out.                        *)
(***************************************************************************)
EXTENDS Ranking

VARIABLES
    kits,        \* db.inventory: documents per user
    visit        \* the request in each slot

\* History of the behaviour; no action reads it.
VARIABLE
    twice        \* users with two such requests in flight at once, or one before
                 \* their sign-up had stored the inventory

profileVars == <<kits, visit, twice>>

Visit == [pc : {"idle", "scores", "kit", "new_kit", "wallet", "new_wallet", "row", "page"},
          by : Users \cup {0}, page : BOOLEAN,     \* or the inventory alone
          wins : Nat, coins : Nat, rank : Nat,     \* as read; rank 0 is Unranked
          before : Nat]                            \* history: the wins counted at the beginning
NoVisit == [pc |-> "idle", by |-> 0, page |-> FALSE, wins |-> 0, coins |-> 0, rank |-> 0, before |-> 0]

VisitAt(r, label)   == visit[r].pc = label
VisitStep(r, q)     == visit' = [visit EXCEPT ![r] = q]
VisitGoto(r, label) == VisitStep(r, [visit[r] EXCEPT !.pc = label])
VisitEnd(r)         == VisitStep(r, NoVisit)
VisitsOf(u)         == {r \in Slots : ~VisitAt(r, "idle") /\ visit[r].by = u}

\* A sign-up cut short leaves an account without an inventory.
ProfileInit ==
    /\ kits \in [Users -> {0, 1}]
    /\ \A u \in Users : IF u \in alive THEN kits[u] = 1 \/ "inventory" \in DOMAIN menu ELSE kits[u] = 0
    /\ visit = [r \in Slots |-> NoVisit]
    /\ twice = {}

VisitBegin(r, u, whole) ==
    /\ VisitAt(r, "idle")
    /\ VisitStep(r, [NoVisit EXCEPT !.pc = IF whole THEN "scores" ELSE "kit", !.by = u,
                                    !.page = whole, !.before = counted[u]])
    /\ twice' = IF VisitsOf(u) = {} /\ signup[u] # "kit" THEN twice ELSE twice \cup {u}
    /\ UNCHANGED <<rewardsVars, rankingVars, kits>>

ProfileBegin(r)   == Serve("profile") /\ \E u \in alive : VisitBegin(r, u, TRUE)
InventoryBegin(r) == Serve("inventory") /\ \E u \in alive : VisitBegin(r, u, FALSE)

\* Fault: the wins are taken from the leaderboard.
ReadRanking(r) ==
    /\ VisitAt(r, "scores")
    /\ \E w \in {v.wins : v \in RowsOf(visit[r].by)} \cup {0} :
          VisitStep(r, [visit[r] EXCEPT !.pc = "kit", !.wins = w])
    /\ UNCHANGED <<rewardsVars, rankingVars, kits, twice, calls>>

\* get_scores_for_players of the user's first 500 players.
ReadScores(r) ==
    /\ VisitAt(r, "scores")
    /\ VisitStep(r, [visit[r] EXCEPT !.pc = "kit", !.wins = counted[visit[r].by]])
    /\ UNCHANGED <<rewardsVars, rankingVars, kits, twice, calls>>

AfterKit(r) == IF visit[r].page THEN VisitGoto(r, "wallet") ELSE VisitEnd(r)

\* Fault: the inventory is inserted without looking.
FindKitUnasked(r) ==
    /\ VisitAt(r, "kit")
    /\ VisitGoto(r, "new_kit")
    /\ UNCHANGED <<rewardsVars, rankingVars, kits, twice, calls>>

\* _ensure_inventory.
FindKit(r) ==
    /\ VisitAt(r, "kit")
    /\ IF kits[visit[r].by] > 0 THEN AfterKit(r) ELSE VisitGoto(r, "new_kit")
    /\ UNCHANGED <<rewardsVars, rankingVars, kits, twice, calls>>

NewKit(r) ==
    /\ VisitAt(r, "new_kit")
    /\ kits' = [kits EXCEPT ![visit[r].by] = @ + 1]
    /\ AfterKit(r)
    /\ UNCHANGED <<rewardsVars, rankingVars, twice, calls>>

\* _ensure_wallet.
ReadWallet(r) ==
    /\ VisitAt(r, "wallet")
    /\ \/ \E w \in First(WalletsOf(visit[r].by)) :
             VisitStep(r, [visit[r] EXCEPT !.pc = "row", !.coins = w.balance])
       \/ WalletsOf(visit[r].by) = {} /\ VisitGoto(r, "new_wallet")
    /\ UNCHANGED <<rewardsVars, rankingVars, kits, twice, calls>>

NewWallet(r) ==
    /\ VisitAt(r, "new_wallet")
    /\ wallets' = wallets \cup {[id |-> nextWallet, user |-> visit[r].by, balance |-> Opening]}
    /\ nextWallet' = nextWallet + 1
    /\ VisitStep(r, [visit[r] EXCEPT !.pc = "row", !.coins = Opening])
    /\ UNCHANGED <<puzzles, solved, told, scores, jobs, claim, payHistory, reported, rankingVars, kits, twice, calls>>

ReadRow(r) ==
    /\ VisitAt(r, "row")
    /\ \/ \E w \in First(RowsOf(visit[r].by)) :
             VisitStep(r, [visit[r] EXCEPT !.pc = "page", !.rank = w.rank])
       \/ RowsOf(visit[r].by) = {} /\ VisitGoto(r, "page")
    /\ UNCHANGED <<rewardsVars, rankingVars, kits, twice, calls>>

Show(r) ==
    /\ VisitAt(r, "page")
    /\ VisitEnd(r)
    /\ UNCHANGED <<rewardsVars, rankingVars, kits, twice, calls>>

KillVisit(r) ==
    /\ ~VisitAt(r, "idle")
    /\ Die
    /\ VisitEnd(r)
    /\ UNCHANGED <<rewardsVars, rankingVars, kits, twice>>

ProfileStep(r) ==
    \/ ProfileBegin(r) \/ InventoryBegin(r) \/ ReadScores(r) \/ FindKit(r) \/ NewKit(r)
    \/ ReadWallet(r) \/ NewWallet(r) \/ ReadRow(r) \/ Show(r) \/ KillVisit(r)

ProfileNext == (\E r \in Slots : ProfileStep(r)) /\ UNCHANGED accounts

(***************************************************************************)
(* Properties.                                                             *)
(***************************************************************************)
ProfileOK ==
    /\ kits \in [Users -> Nat]
    /\ visit \in [Slots -> Visit]
    /\ twice \subseteq Users

\* A page is neither ahead nor behind: it shows no wins and no coins beyond what
\* is on record, and every win of the user's first 500 players that was on
\* record when it was asked for, so that wins never shrink from one page to the
\* next and First Blood, once shown as unlocked, is never shown as locked again.
PageIsTrue ==
    \A r \in Slots : VisitAt(r, "page") =>
        LET q == visit[r] IN
          /\ q.before <= q.wins /\ q.wins <= wins[q.by]
          /\ q.coins <= Opening + Reward.puzzle * solved[q.by] + Reward.win * wins[q.by]

\* The power-ups of the beginning are given once, to a user who never sends two
\* of these requests at once, nor one while the sign-up has still to store them:
\* a request or a sign-up killed half-way has given them, or leaves them to the
\* next request.
KitGivenOnce == \A u \in Users \ twice : kits[u] <= 1
=============================================================================
