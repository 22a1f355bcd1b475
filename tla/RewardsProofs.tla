---------------------------- MODULE RewardsProofs -----------------------------
(***************************************************************************)
(* Coins and boards, for any number of users, requests, rebuilds and kills: *)
(* no race creates a coin, no message announces one that was not paid, the *)
(* profile page shows what is on record, no leaderboard shows a win that   *)
(* is not, and one that has settled is the ranking.                        *)
(***************************************************************************)
EXTENDS FeaturesTypes

(***************************************************************************)
(* Wallets, puzzles, match rewards and the profile page.                   *)
(***************************************************************************)
USE DEF vars, accounts, scoreVars, coins, scores, payHistory, rewardsVars, rankingVars, profileVars, socialVars,
        mediaVars, learningVars

(***************************************************************************)
(* Slots.                                                                  *)
(***************************************************************************)
LEMMA ClaimMoves ==
    ASSUME claim \in [Slots -> GoodClaim], NEW r \in Slots, NEW q, ClaimStep(r, q)
    PROVE  claim'[r] = q /\ \A s \in Slots \ {r} : claim'[s] = claim[s]
BY DEF ClaimStep

LEMMA ClaimWent ==
    ASSUME claim \in [Slots -> GoodClaim], NEW r \in Slots, NEW l, ClaimGoto(r, l)
    PROVE  /\ \A s \in Slots \ {r} : claim'[s] = claim[s]
           /\ claim'[r].pc = l /\ claim'[r].by = claim[r].by /\ claim'[r].kind = claim[r].kind
           /\ claim'[r].wallet = claim[r].wallet /\ claim'[r].num = claim[r].num
<1>1. claim[r] \in Claim
  BY DEF GoodClaim
<1>2. QED BY <1>1, ClaimMoves DEF ClaimGoto, Claim

LEMMA ClaimGone ==
    ASSUME claim \in [Slots -> GoodClaim], NEW r \in Slots, ClaimEnd(r)
    PROVE  claim'[r].pc = "idle" /\ \A s \in Slots \ {r} : claim'[s] = claim[s]
BY ClaimMoves DEF ClaimEnd, NoClaim

LEMMA ClaimBegun ==
    ASSUME claim \in [Slots -> GoodClaim], NEW r \in Slots, NEW k, NEW u, NEW l, ClaimBegin(r, k, u, l)
    PROVE  /\ claim[r].pc = "idle" /\ \A s \in Slots \ {r} : claim'[s] = claim[s]
           /\ claim'[r].pc = l /\ claim'[r].kind = k /\ claim'[r].by = u
<1>1. LET q == [NoClaim EXCEPT !.pc = l, !.kind = k, !.by = u]
      IN  q.pc = l /\ q.kind = k /\ q.by = u
  BY DEF NoClaim
<1>2. QED BY <1>1, ClaimMoves DEF ClaimBegin, ClaimAt

\* The balance a wallet is given with the one it was read with.
LEMMA Credited ==
    ASSUME wallets \subseteq Wallet, NEW id, NEW b \in Nat,
           wallets' = {IF w.id = id THEN [w EXCEPT !.balance = b] ELSE w : w \in wallets}
    PROVE  /\ \A x \in wallets' : \E w \in wallets :
                /\ x.id = w.id /\ x.user = w.user
                /\ IF w.id = id THEN x.balance = b ELSE x = w
           /\ \A w \in wallets : \E x \in wallets' : x.id = w.id /\ x.user = w.user
<1>1. \A w \in wallets : LET x == [w EXCEPT !.balance = b]
                         IN  x.id = w.id /\ x.user = w.user /\ x.balance = b
  BY DEF Wallet
<1>2. ASSUME NEW x \in wallets'
      PROVE  \E w \in wallets : /\ x.id = w.id /\ x.user = w.user
                                /\ IF w.id = id THEN x.balance = b ELSE x = w
  <2>1. PICK w \in wallets : x = IF w.id = id THEN [w EXCEPT !.balance = b] ELSE w
    OBVIOUS
  <2>2. QED BY <1>1, <2>1
<1>3. ASSUME NEW w \in wallets PROVE \E x \in wallets' : x.id = w.id /\ x.user = w.user
  <2>1. (IF w.id = id THEN [w EXCEPT !.balance = b] ELSE w) \in wallets'
    OBVIOUS
  <2>2. QED BY <1>1, <2>1
<1>4. QED BY <1>2, <1>3

(***************************************************************************)
(* The inductive invariant of NeverOverpaid and ToldIsPaid: each reward    *)
(* that is written, or about to be, has its record; a balance in flight is *)
(* of the user's own wallet and of a time with no more rewards than now;   *)
(* and each message that is about to go out has its payment.               *)
(***************************************************************************)
Due(u, k)      == {r \in Slots : /\ claim[r].by = u /\ claim[r].kind = k
                                 /\ claim[r].pc \in {"find", "open", "credit"}}
Telling(u, k)  == {r \in Slots : claim[r].by = u /\ claim[r].kind = k /\ claim[r].pc = "tell"}
Recorded(u, k) == IF k = "puzzle" THEN solved[u] ELSE wins[u]
Earned(u)      == Opening + Reward.puzzle * paid[u]["puzzle"] + Reward.win * paid[u]["win"]

PaidIsRecorded ==
    \A u \in Users, k \in Paying : paid[u][k] + Cardinality(Due(u, k)) <= Recorded(u, k)
BalancesEarned ==
    /\ \A w \in wallets : w.balance <= Earned(w.user)
    /\ \A r \in Slots : ClaimAt(r, "credit") => claim[r].num <= Earned(claim[r].by)
OwnWallets ==
    /\ \A w \in wallets : w.id < nextWallet
    /\ \A w, x \in wallets : w.id = x.id => w = x
    /\ \A u \in kitted : WalletsOf(u) # {}
    /\ \A r \in Slots : ClaimAt(r, "credit") =>
          /\ claim[r].wallet < nextWallet
          /\ \A w \in wallets : w.id = claim[r].wallet => w.user = claim[r].by
ToldBehind ==
    \A u \in Users, k \in Paying : (k = "win" => u \in kitted) =>
        told[u][k] + Cardinality(Telling(u, k)) <= paid[u][k]

PaySafe == PaidIsRecorded /\ BalancesEarned /\ OwnWallets /\ ToldBehind

\* Whoever is told of a win, or about to be, has one on record.
WinsFirst ==
    /\ \A u \in Users : wins[u] = 0 => told[u]["win"] = 0
    /\ \A r \in Slots : claim[r].kind = "win" /\ claim[r].pc \in {"find", "open", "credit", "tell"} =>
          wins[claim[r].by] # 0

LEMMA SlotsFinite == \A u, k : IsFiniteSet(Due(u, k)) /\ IsFiniteSet(Telling(u, k))
<1>1. IsFiniteSet(Slots) /\ \A u, k : Due(u, k) \subseteq Slots /\ Telling(u, k) \subseteq Slots
  BY RequestsAssumption DEF Due, Telling
<1>2. QED BY <1>1, FS_Subset

LEMMA PayNumbers ==
    ASSUME RewardsOK
    PROVE  \A u \in Users : /\ \A k \in Paying : /\ paid[u][k] \in Nat /\ told[u][k] \in Nat
                                                 /\ Recorded(u, k) \in Nat
                            /\ Earned(u) \in Nat
BY DEF RewardsOK, Paying, Recorded, Earned, Opening, Reward

LEMMA PaySafeInit == Init => PaySafe
<1> SUFFICES ASSUME Init PROVE PaySafe
  OBVIOUS
<1> USE DEF Init, RewardsInit
<1>1. \A u, k : Due(u, k) = {} /\ Telling(u, k) = {}
  BY DEF Due, Telling, NoClaim
<1>2. PaidIsRecorded /\ ToldBehind
  <2>1. \A u \in Users, k \in Paying : paid[u][k] = 0 /\ told[u][k] = 0 /\ Recorded(u, k) = 0
    BY DEF Recorded
  <2>2. Cardinality({}) = 0
    BY FS_EmptySet
  <2>3. \A u, k : Cardinality(Due(u, k)) = 0 /\ Cardinality(Telling(u, k)) = 0
    BY <1>1, <2>2, Zenon
  <2>4. QED BY <2>1, <2>3 DEF PaidIsRecorded, ToldBehind
<1>3. /\ kitted \subseteq Users /\ kitted \subseteq 1 .. Veterans /\ Veterans \in Nat
      /\ wallets = {[id |-> u, user |-> u, balance |-> Opening] : u \in kitted}
  BY RequestsAssumption, FS_CardinalityType DEF RequestsInit
<1>4. \A w \in wallets : w.id \in kitted /\ w.user = w.id /\ w.balance = Opening
  BY <1>3
<1>5. ASSUME NEW u \in kitted PROVE WalletsOf(u) # {}
  <2>1. [id |-> u, user |-> u, balance |-> Opening] \in wallets
    BY <1>3
  <2>2. QED BY <2>1 DEF WalletsOf
<1>6. \A w, x \in wallets : w.id = x.id => w = x
  BY <1>3
<1>7. OwnWallets
  <2>1. \A w \in wallets : w.id < nextWallet
    BY <1>3, <1>4
  <2>2. QED BY <1>5, <1>6, <2>1 DEF OwnWallets, ClaimAt, NoClaim
<1>8. BalancesEarned
  <2>1. \A u \in Users : Earned(u) = Opening
    BY DEF Earned, Opening, Reward, Paying
  <2>2. Opening \in Nat
    BY DEF Opening
  <2>3. QED BY <1>3, <1>4, <2>1, <2>2 DEF BalancesEarned, ClaimAt, NoClaim
<1>9. QED BY <1>2, <1>7, <1>8 DEF PaySafe

\* A step that neither pays nor tells, and starts nothing that will.
LEMMA PayKept ==
    ASSUME RewardsOK, PaySafe, NEW r \in Slots,
           \A s \in Slots \ {r} : claim'[s] = claim[s],
           claim'[r].pc \in {"find", "open", "credit"} => claim'[r].kind \notin Paying \/ r \in
              Due(claim'[r].by, claim'[r].kind),
           claim'[r].pc # "credit", claim'[r].pc = "tell" => claim'[r].kind = "win" /\ claim'[r].by \notin kitted,
           kitted' = kitted, paid' = paid, told' = told, wallets' = wallets, nextWallet' = nextWallet,
           \A u \in Users, k \in Paying : Recorded(u, k) <= Recorded(u, k)' /\ Recorded(u, k)' \in Nat
    PROVE  PaySafe'
<1>1. \A u \in Users, k \in Paying : Due(u, k)' \subseteq Due(u, k)
  BY DEF Due
<1>2. PaidIsRecorded'
  <2> SUFFICES ASSUME NEW u \in Users, NEW k \in Paying
               PROVE  paid[u][k] + Cardinality(Due(u, k)') <= Recorded(u, k)'
    BY DEF PaidIsRecorded
  <2>1. paid[u][k] + Cardinality(Due(u, k)) <= Recorded(u, k)
    BY DEF PaySafe, PaidIsRecorded
  <2>2. Cardinality(Due(u, k)') <= Cardinality(Due(u, k)) /\ Cardinality(Due(u, k)') \in Nat
        /\ Cardinality(Due(u, k)) \in Nat
    BY <1>1, SlotsFinite, CountSame
  <2>3. QED BY <2>1, <2>2, PayNumbers
<1>3. BalancesEarned' /\ OwnWallets'
  BY DEF PaySafe, BalancesEarned, OwnWallets, WalletsOf, Earned, ClaimAt
<1>4. ToldBehind'
  <2> SUFFICES ASSUME NEW u \in Users, NEW k \in Paying, k = "win" => u \in kitted
               PROVE  told[u][k] + Cardinality(Telling(u, k)') <= paid[u][k]
    BY DEF ToldBehind
  <2>2. Telling(u, k)' \subseteq Telling(u, k)
    BY DEF Telling
  <2>3. Cardinality(Telling(u, k)') <= Cardinality(Telling(u, k)) /\ Cardinality(Telling(u, k)') \in Nat
        /\ Cardinality(Telling(u, k)) \in Nat
    BY <2>2, SlotsFinite, CountSame
  <2>4. told[u][k] + Cardinality(Telling(u, k)) <= paid[u][k]
    BY DEF PaySafe, ToldBehind
  <2>5. QED BY <2>3, <2>4, PayNumbers
<1>5. QED BY <1>2, <1>3, <1>4 DEF PaySafe

\* A new wallet, whoever inserts it.
LEMMA PayOpens ==
    ASSUME RewardsOK, PaySafe, NEW v \in Users,
           wallets' = wallets \cup {[id |-> nextWallet, user |-> v, balance |-> Opening]},
           nextWallet' = nextWallet + 1
    PROVE  /\ \A w \in wallets' : w.id < nextWallet' /\ (w \in wallets \/ w.id = nextWallet)
           /\ \A w, x \in wallets' : w.id = x.id => w = x
           /\ \A u \in kitted \cup {v} : WalletsOf(u)' # {}
           /\ \A w \in wallets' : w.balance <= Earned(w.user)
           /\ \A w \in wallets' : w.id < nextWallet => w \in wallets
           /\ \A w \in wallets' : w.id = nextWallet => w.user = v
<1> DEFINE new == [id |-> nextWallet, user |-> v, balance |-> Opening]
<1>1. new.id = nextWallet /\ new.user = v /\ new.balance = Opening /\ wallets' = wallets \cup {new}
  OBVIOUS
<1> HIDE DEF new
<1>2. nextWallet \in Nat /\ \A w \in wallets : w.id \in Nat /\ w.id < nextWallet
  BY DEF RewardsOK, Wallet, PaySafe, OwnWallets
<1>3. \A u \in kitted \cup {v} : WalletsOf(u)' # {}
  BY <1>1 DEF PaySafe, OwnWallets, WalletsOf
<1>4. \A u \in Users : Opening <= Earned(u)
  BY PayNumbers DEF Earned, Opening, Reward, Paying
<1>5. \A w \in wallets : w.balance <= Earned(w.user)
  BY DEF PaySafe, BalancesEarned
<1>6. \A w, x \in wallets : w.id = x.id => w = x
  BY DEF PaySafe, OwnWallets
<1>7. \A w \in wallets' : w.id < nextWallet' /\ (w \in wallets \/ w.id = nextWallet)
  BY <1>1, <1>2
<1>8. \A w, x \in wallets' : w.id = x.id => w = x
  BY <1>1, <1>2, <1>6
<1>10. \A w \in wallets' : w.balance <= Earned(w.user)
  BY <1>1, <1>4, <1>5
<1>11. /\ \A w \in wallets' : w.id < nextWallet => w \in wallets
       /\ \A w \in wallets' : w.id = nextWallet => w.user = v
  BY <1>1, <1>2
<1>12. QED BY <1>3, <1>7, <1>8, <1>10, <1>11

LEMMA WalletAdded ==
    ASSUME RewardsOK, PaySafe, NEW v \in Users,
           wallets' = wallets \cup {[id |-> nextWallet, user |-> v, balance |-> Opening]},
           nextWallet' = nextWallet + 1, UNCHANGED <<solved, wins, told, paid>>,
           \A s \in Slots : claim'[s] = claim[s] \/ claim'[s].pc = "idle",
           \/ kitted' = kitted
           \/ kitted' = kitted \cup {v} /\ told[v]["win"] = 0 /\ Telling(v, "win") = {}
    PROVE  PaySafe'
<1>1. /\ \A w \in wallets' : w.id < nextWallet' /\ w.balance <= Earned(w.user)
      /\ \A w, x \in wallets' : w.id = x.id => w = x
      /\ \A u \in kitted' : WalletsOf(u)' # {}
      /\ \A w \in wallets' : w.id < nextWallet => w \in wallets
  BY PayOpens
<1>2. \A u, k : Due(u, k)' \subseteq Due(u, k) /\ Telling(u, k)' \subseteq Telling(u, k)
  BY DEF Due, Telling
<1>3. \A u, k : /\ Cardinality(Due(u, k)') <= Cardinality(Due(u, k))
                /\ Cardinality(Due(u, k)') \in Nat /\ Cardinality(Due(u, k)) \in Nat
                /\ Cardinality(Telling(u, k)') <= Cardinality(Telling(u, k))
                /\ Cardinality(Telling(u, k)') \in Nat /\ Cardinality(Telling(u, k)) \in Nat
  BY <1>2, SlotsFinite, CountSame
<1>4. \A u, k : Recorded(u, k)' = Recorded(u, k) /\ Earned(u)' = Earned(u)
  BY DEF Recorded, Earned
<1>5. PaidIsRecorded'
  <2> SUFFICES ASSUME NEW u \in Users, NEW k \in Paying
               PROVE  paid[u][k] + Cardinality(Due(u, k)') <= Recorded(u, k)
    BY <1>4 DEF PaidIsRecorded
  <2>1. paid[u][k] + Cardinality(Due(u, k)) <= Recorded(u, k)
    BY DEF PaySafe, PaidIsRecorded
  <2>2. paid[u][k] \in Nat /\ Recorded(u, k) \in Nat
    BY PayNumbers
  <2>3. QED BY <1>3, <2>1, <2>2
<1>6. BalancesEarned'
  BY <1>1, <1>4 DEF PaySafe, BalancesEarned, ClaimAt
<1>7. OwnWallets'
  <2>1. nextWallet \in Nat /\ \A s \in Slots : claim[s].wallet \in Nat
    BY DEF RewardsOK, Claim
  <2>2. \A s \in Slots : ClaimAt(s, "credit") =>
          /\ claim[s].wallet < nextWallet /\ claim[s].wallet < nextWallet'
          /\ \A w \in wallets' : w.id = claim[s].wallet => w.user = claim[s].by
    BY <1>1, <2>1 DEF PaySafe, OwnWallets
  <2>3. QED BY <1>1, <2>2 DEF OwnWallets, ClaimAt
<1>8. ToldBehind'
  <2> SUFFICES ASSUME NEW u \in Users, NEW k \in Paying, k = "win" => u \in kitted'
               PROVE  told[u][k] + Cardinality(Telling(u, k)') <= paid[u][k]
    BY DEF ToldBehind
  <2>1. told[u][k] \in Nat /\ paid[u][k] \in Nat
    BY PayNumbers
  <2>2. CASE k = "win" => u \in kitted
    <3>1. told[u][k] + Cardinality(Telling(u, k)) <= paid[u][k]
      BY <2>2 DEF PaySafe, ToldBehind
    <3>2. QED BY <1>3, <2>1, <3>1
  <2>3. CASE k = "win" /\ u \notin kitted
    <3>1. told[u][k] = 0 /\ Telling(u, k) = {}
      BY <2>3
    <3>2. Cardinality(Telling(u, k)) = 0
      BY <3>1, FS_EmptySet, Zenon
    <3>3. Cardinality(Telling(u, k)') <= Cardinality(Telling(u, k)) /\ Cardinality(Telling(u, k)') \in Nat
      BY <1>3
    <3>4. Cardinality(Telling(u, k)') = 0
      BY <3>2, <3>3
    <3>5. told[u][k] + Cardinality(Telling(u, k)') = 0
      BY <3>1, <3>4
    <3>6. QED BY <2>1, <3>5
  <2>4. QED BY <2>2, <2>3
<1>9. QED BY <1>5, <1>6, <1>7, <1>8 DEF PaySafe

\* The record of an attempt or a win: one more may be paid.
LEMMA PayRecords ==
    ASSUME RewardsOK, claim \in [Slots -> GoodClaim], PaySafe, NEW r \in Slots, Record(r)
    PROVE  PaySafe'
<1>1. /\ claim[r].pc \in {"record", "record_late"} /\ claim[r].by \in Users /\ claim[r].kind \in Paying
  BY DEF Record, ClaimAt, GoodClaim
<1>2. /\ \A s \in Slots \ {r} : claim'[s] = claim[s]
      /\ claim'[r].pc = "find" /\ claim'[r].by = claim[r].by /\ claim'[r].kind = claim[r].kind
  BY ClaimWent DEF Record
<1>3. UNCHANGED <<wallets, nextWallet, paid, told, kitted>>
  BY DEF Record
<1>4. \A u \in Users, k \in Paying :
        /\ Recorded(u, k)' \in Nat
        /\ Recorded(u, k)' = IF u = claim[r].by /\ k = claim[r].kind THEN Recorded(u, k) + 1 ELSE Recorded(u, k)
  BY <1>1 DEF Record, Recorded, RewardsOK, Paying
<1>5. PaidIsRecorded'
  <2> SUFFICES ASSUME NEW u \in Users, NEW k \in Paying
               PROVE  paid[u][k] + Cardinality(Due(u, k)') <= Recorded(u, k)'
    BY <1>3 DEF PaidIsRecorded
  <2>1. paid[u][k] + Cardinality(Due(u, k)) <= Recorded(u, k)
    BY DEF PaySafe, PaidIsRecorded
  <2>2. paid[u][k] \in Nat /\ Recorded(u, k) \in Nat
    BY PayNumbers
  <2>3. CASE u = claim[r].by /\ k = claim[r].kind
    <3>1. Due(u, k)' \subseteq Due(u, k) \cup {r}
      BY <1>2 DEF Due
    <3>2. /\ Cardinality(Due(u, k)') <= Cardinality(Due(u, k)) + 1
          /\ Cardinality(Due(u, k)') \in Nat /\ Cardinality(Due(u, k)) \in Nat
      BY <3>1, SlotsFinite, CountMore
    <3>3. QED BY <1>4, <2>1, <2>2, <2>3, <3>2
  <2>4. CASE ~(u = claim[r].by /\ k = claim[r].kind)
    <3>1. Due(u, k)' \subseteq Due(u, k)
      BY <1>2, <2>4 DEF Due
    <3>2. /\ Cardinality(Due(u, k)') <= Cardinality(Due(u, k))
          /\ Cardinality(Due(u, k)') \in Nat /\ Cardinality(Due(u, k)) \in Nat
      BY <3>1, SlotsFinite, CountSame
    <3>3. QED BY <1>4, <2>1, <2>2, <2>4, <3>2
  <2>5. QED BY <2>3, <2>4
<1>6. BalancesEarned' /\ OwnWallets'
  BY <1>2, <1>3 DEF PaySafe, BalancesEarned, OwnWallets, WalletsOf, Earned, ClaimAt
<1>7. ToldBehind'
  <2>1. \A u, k : Telling(u, k)' = Telling(u, k)
    BY <1>1, <1>2 DEF Telling
  <2>2. QED BY <1>3, <2>1 DEF PaySafe, ToldBehind
<1>8. QED BY <1>5, <1>6, <1>7 DEF PaySafe

\* The wallet is found, or opened, and its balance known.
LEMMA PayKnown ==
    ASSUME RewardsOK, PaySafe, NEW r \in Slots, claim[r].by \in Users,
           claim[r].pc \in {"find", "open"} /\ claim[r].kind \in Paying,
           \A s \in Slots \ {r} : claim'[s] = claim[s],
           claim'[r].pc = "credit" /\ claim'[r].by = claim[r].by /\ claim'[r].kind = claim[r].kind,
           claim'[r].num <= Earned(claim[r].by), claim'[r].wallet < nextWallet',
           \A w \in wallets' : w.id = claim'[r].wallet => w.user = claim[r].by,
           UNCHANGED <<solved, wins, paid, told, kitted>>,
           \/ UNCHANGED <<wallets, nextWallet>>
           \/ /\ wallets' = wallets \cup {[id |-> nextWallet, user |-> claim[r].by, balance |-> Opening]}
              /\ nextWallet' = nextWallet + 1
    PROVE  PaySafe'
<1>1. \A u, k : Due(u, k)' = Due(u, k) /\ Telling(u, k)' \subseteq Telling(u, k)
  BY DEF Due, Telling
<1>2. PaidIsRecorded'
  BY <1>1 DEF PaySafe, PaidIsRecorded, Recorded
<1>3. /\ \A w \in wallets' : w.id < nextWallet' /\ w.balance <= Earned(w.user)
      /\ \A w, x \in wallets' : w.id = x.id => w = x
      /\ \A u \in kitted : WalletsOf(u)' # {}
      /\ \A w \in wallets' : w.id < nextWallet => w \in wallets
  <2>1. CASE UNCHANGED <<wallets, nextWallet>>
    BY <2>1 DEF PaySafe, OwnWallets, BalancesEarned, WalletsOf
  <2>2. CASE /\ wallets' = wallets \cup {[id |-> nextWallet, user |-> claim[r].by, balance |-> Opening]}
             /\ nextWallet' = nextWallet + 1
    BY <2>2, PayOpens
  <2>3. QED BY <2>1, <2>2
<1>4. BalancesEarned'
  <2>1. \A u : Earned(u)' = Earned(u)
    BY DEF Earned
  <2>2. QED BY <1>3, <2>1 DEF PaySafe, BalancesEarned, ClaimAt
<1>5. OwnWallets'
  <2>1. nextWallet <= nextWallet' /\ nextWallet \in Nat /\ nextWallet' \in Nat
    BY DEF RewardsOK
  <2>2. \A s \in Slots \ {r} : ClaimAt(s, "credit") =>
          /\ claim[s].wallet < nextWallet /\ claim[s].wallet < nextWallet'
          /\ \A w \in wallets' : w.id = claim[s].wallet => w.user = claim[s].by
    <3>1. \A s \in Slots : claim[s].wallet \in Nat
      BY DEF RewardsOK, Claim
    <3>2. QED BY <1>3, <2>1, <3>1 DEF PaySafe, OwnWallets
  <2>3. QED BY <1>3, <2>2 DEF OwnWallets, ClaimAt
<1>6. ToldBehind'
  <2> SUFFICES ASSUME NEW u \in Users, NEW k \in Paying, k = "win" => u \in kitted
               PROVE  told[u][k] + Cardinality(Telling(u, k)') <= paid[u][k]
    BY DEF ToldBehind
  <2>1. told[u][k] + Cardinality(Telling(u, k)) <= paid[u][k]
    BY DEF PaySafe, ToldBehind
  <2>2. Cardinality(Telling(u, k)') <= Cardinality(Telling(u, k)) /\ Cardinality(Telling(u, k)') \in Nat
        /\ Cardinality(Telling(u, k)) \in Nat
    BY <1>1, SlotsFinite, CountSame
  <2>3. QED BY <2>1, <2>2, PayNumbers
<1>7. QED BY <1>2, <1>4, <1>5, <1>6 DEF PaySafe

\* The payment.
LEMMA PayCredits ==
    ASSUME RewardsOK, RewardsOK', claim \in [Slots -> GoodClaim], PaySafe, NEW r \in Slots, Credit(r)
    PROVE  PaySafe'
<1> DEFINE u == claim[r].by
           k == claim[r].kind
<1>1. claim[r].pc = "credit" /\ u \in Users /\ k \in Paying /\ claim[r].num \in Nat
  BY DEF Credit, ClaimAt, GoodClaim, Claim
<1>2. /\ \A s \in Slots \ {r} : claim'[s] = claim[s]
      /\ claim'[r].pc = "tell" /\ claim'[r].by = u /\ claim'[r].kind = k
  BY ClaimWent DEF Credit
<1>3. UNCHANGED <<nextWallet, solved, told, wins, kitted>>
  BY DEF Credit
<1>4. \A v \in Users, l \in Paying :
        paid'[v][l] = IF v = u /\ l = k THEN paid[v][l] + 1 ELSE paid[v][l]
  BY <1>1 DEF Credit, RewardsOK
<1>5. \A v \in Users : /\ Earned(v) <= Earned(v)' /\ Earned(v)' \in Nat /\ Earned(v) \in Nat
                       /\ v = u => Earned(v) + Reward[k] = Earned(v)'
  <2>1. \A v \in Users, l \in Paying : paid[v][l] \in Nat
    BY PayNumbers
  <2>2. "puzzle" \in Paying /\ "win" \in Paying /\ (k = "puzzle" \/ k = "win")
    BY <1>1 DEF Paying
  <2>3. QED BY <1>4, <2>1, <2>2 DEF Earned, Opening, Reward
<1>6. PaidIsRecorded'
  <2> SUFFICES ASSUME NEW v \in Users, NEW l \in Paying
               PROVE  paid'[v][l] + Cardinality(Due(v, l)') <= Recorded(v, l)
    BY <1>3 DEF PaidIsRecorded, Recorded
  <2>1. /\ paid[v][l] + Cardinality(Due(v, l)) <= Recorded(v, l)
        /\ paid[v][l] \in Nat /\ Recorded(v, l) \in Nat
    BY PayNumbers DEF PaySafe, PaidIsRecorded
  <2>2. CASE v = u /\ l = k
    <3>1. r \in Due(v, l) /\ Due(v, l)' \subseteq Due(v, l) \ {r}
      BY <1>1, <1>2, <2>2 DEF Due
    <3>2. /\ Cardinality(Due(v, l)') + 1 <= Cardinality(Due(v, l))
          /\ Cardinality(Due(v, l)') \in Nat /\ Cardinality(Due(v, l)) \in Nat
      BY <3>1, SlotsFinite, CountLess
    <3>3. QED BY <1>4, <2>1, <2>2, <3>2
  <2>3. CASE ~(v = u /\ l = k)
    <3>1. Due(v, l)' \subseteq Due(v, l)
      BY <1>2 DEF Due
    <3>2. /\ Cardinality(Due(v, l)') <= Cardinality(Due(v, l))
          /\ Cardinality(Due(v, l)') \in Nat /\ Cardinality(Due(v, l)) \in Nat
      BY <3>1, SlotsFinite, CountSame
    <3>3. QED BY <1>4, <2>1, <2>3, <3>2
  <2>4. QED BY <2>2, <2>3
<1>w. /\ \A x \in wallets' : \E w \in wallets :
            /\ x.id = w.id /\ x.user = w.user
            /\ IF w.id = claim[r].wallet THEN x.balance = claim[r].num + Reward[k] ELSE x = w
      /\ \A w \in wallets : \E x \in wallets' : x.id = w.id /\ x.user = w.user
  <2>1. PICK b \in Nat : b = claim[r].num + Reward[k]
    BY <1>1 DEF Reward, Paying
  <2>2. wallets' = {IF w.id = claim[r].wallet THEN [w EXCEPT !.balance = b] ELSE w : w \in wallets}
    BY <2>1 DEF Credit
  <2>3. wallets \subseteq Wallet
    BY DEF RewardsOK
  <2>4. /\ \A x \in wallets' : \E w \in wallets :
             /\ x.id = w.id /\ x.user = w.user
             /\ IF w.id = claim[r].wallet THEN x.balance = b ELSE x = w
        /\ \A w \in wallets : \E x \in wallets' : x.id = w.id /\ x.user = w.user
    BY <2>2, <2>3, Credited
  <2>5. QED BY <2>1, <2>4
<1>7. BalancesEarned'
  <2>1. \A w \in wallets : w.id = claim[r].wallet => w.user = u
    BY <1>1 DEF PaySafe, OwnWallets, ClaimAt
  <2>2. claim[r].num <= Earned(u)
    BY <1>1 DEF PaySafe, BalancesEarned, ClaimAt
  <2>3. \A w \in wallets : w.balance <= Earned(w.user) /\ w.user \in Users /\ w.balance \in Nat
    BY DEF PaySafe, BalancesEarned, RewardsOK, Wallet
  <2>4. ASSUME NEW x \in wallets' PROVE x.balance <= Earned(x.user)'
    <3>1. PICK w \in wallets :
            /\ x.id = w.id /\ x.user = w.user
            /\ IF w.id = claim[r].wallet THEN x.balance = claim[r].num + Reward[k] ELSE x = w
      BY <1>w
    <3>2. CASE w.id = claim[r].wallet
      <4>1. Reward[k] \in Nat
        BY <1>1 DEF Reward, Paying
      <4>2. x.balance = claim[r].num + Reward[k] /\ x.user = u
        BY <1>1, <2>1, <3>1, <3>2
      <4>3. PICK v \in Users : v = u
        BY <1>1
      <4>4. Earned(v) + Reward[k] = Earned(v)' /\ Earned(v) \in Nat /\ Earned(v)' \in Nat
        BY <1>5, <4>3
      <4>5. x.balance <= Earned(v)' /\ x.user = v
        BY <1>1, <2>2, <4>1, <4>2, <4>3, <4>4
      <4>6. QED BY <4>5
    <3>3. CASE w.id # claim[r].wallet
      BY <1>5, <2>3, <3>1, <3>3
    <3>4. QED BY <3>2, <3>3
  <2>5. ASSUME NEW s \in Slots, claim'[s].pc = "credit"
        PROVE  (claim[s].num <= Earned(claim[s].by))'
    <3>1. s # r /\ claim'[s] = claim[s]
      BY <1>2, <2>5
    <3>2. claim[s].pc = "credit" /\ claim[s].num \in Nat
      BY <2>5, <3>1 DEF GoodClaim, Claim
    <3>3. PICK v \in Users : v = claim[s].by
      BY <3>2 DEF GoodClaim
    <3>4. claim[s].num <= Earned(v)
      BY <3>2, <3>3 DEF PaySafe, BalancesEarned, ClaimAt
    <3>5. claim[s].num <= Earned(v)'
      BY <1>5, <3>2, <3>4
    <3>6. QED BY <3>1, <3>3, <3>5 DEF Earned
  <2>6. QED BY <2>4, <2>5 DEF BalancesEarned, ClaimAt
<1>8. OwnWallets'
  <2>1. \A x, y \in wallets' : x.id = y.id => x = y
    <3> SUFFICES ASSUME NEW x \in wallets', NEW y \in wallets', x.id = y.id PROVE x = y
      OBVIOUS
    <3>1. x \in Wallet /\ y \in Wallet
      BY DEF RewardsOK
    <3>2. PICK w \in wallets :
            /\ x.id = w.id /\ x.user = w.user
            /\ IF w.id = claim[r].wallet THEN x.balance = claim[r].num + Reward[k] ELSE x = w
      BY <1>w
    <3>3. PICK v \in wallets :
            /\ y.id = v.id /\ y.user = v.user
            /\ IF v.id = claim[r].wallet THEN y.balance = claim[r].num + Reward[k] ELSE y = v
      BY <1>w
    <3>4. w = v
      BY <3>2, <3>3 DEF PaySafe, OwnWallets
    <3>5. x.id = y.id /\ x.user = y.user /\ x.balance = y.balance
      BY <3>2, <3>3, <3>4
    <3>6. QED BY <3>1, <3>5 DEF Wallet
  <2>2. \A v \in kitted' : WalletsOf(v)' # {}
    BY <1>3, <1>w DEF PaySafe, OwnWallets, WalletsOf
  <2>3. QED BY <1>2, <1>3, <1>w, <2>1, <2>2 DEF PaySafe, OwnWallets, ClaimAt
<1>9. ToldBehind'
  <2> SUFFICES ASSUME NEW v \in Users, NEW l \in Paying, l = "win" => v \in kitted
               PROVE  told[v][l] + Cardinality(Telling(v, l)') <= paid'[v][l]
    BY <1>3 DEF ToldBehind
  <2>2. /\ told[v][l] + Cardinality(Telling(v, l)) <= paid[v][l]
        /\ told[v][l] \in Nat /\ paid[v][l] \in Nat
    BY PayNumbers DEF PaySafe, ToldBehind
  <2>3. CASE v = u /\ l = k
    <3>1. Telling(v, l)' \subseteq Telling(v, l) \cup {r}
      BY <1>2 DEF Telling
    <3>2. /\ Cardinality(Telling(v, l)') <= Cardinality(Telling(v, l)) + 1
          /\ Cardinality(Telling(v, l)') \in Nat /\ Cardinality(Telling(v, l)) \in Nat
      BY <3>1, SlotsFinite, CountMore
    <3>3. QED BY <1>4, <2>2, <2>3, <3>2
  <2>4. CASE ~(v = u /\ l = k)
    <3>1. Telling(v, l)' \subseteq Telling(v, l)
      BY <1>2, <2>4 DEF Telling
    <3>2. /\ Cardinality(Telling(v, l)') <= Cardinality(Telling(v, l))
          /\ Cardinality(Telling(v, l)') \in Nat /\ Cardinality(Telling(v, l)) \in Nat
      BY <3>1, SlotsFinite, CountSame
    <3>3. QED BY <1>4, <2>2, <2>4, <3>2
  <2>5. QED BY <2>3, <2>4
<1>10. QED BY <1>6, <1>7, <1>8, <1>9 DEF PaySafe

\* The message: one fewer is about to go out.
LEMMA PayTells ==
    ASSUME RewardsOK, claim \in [Slots -> GoodClaim], PaySafe, NEW r \in Slots, Tell(r)
    PROVE  PaySafe'
<1> DEFINE u == claim[r].by
           k == claim[r].kind
<1>1. claim[r].pc = "tell" /\ u \in Users /\ k \in Paying
  BY DEF Tell, ClaimAt, GoodClaim
<1>2. /\ \A s \in Slots \ {r} : claim'[s] = claim[s]
      /\ claim'[r].pc \in {"idle", "enqueue"}
  BY ClaimWent, ClaimGone DEF Tell
<1>3. UNCHANGED <<wallets, nextWallet, solved, wins, paid, kitted>>
  BY DEF Tell
<1>4. \A v \in Users, l \in Paying :
        told'[v][l] = IF v = u /\ l = k THEN told[v][l] + 1 ELSE told[v][l]
  BY <1>1 DEF Tell, RewardsOK
<1>5. \A v, l : Due(v, l)' = Due(v, l)
  BY <1>1, <1>2 DEF Due
<1>6. PaidIsRecorded' /\ BalancesEarned' /\ OwnWallets'
  BY <1>2, <1>3, <1>5
  DEF PaySafe, PaidIsRecorded, Recorded, BalancesEarned, OwnWallets, WalletsOf, Earned, ClaimAt
<1>7. ToldBehind'
  <2> SUFFICES ASSUME NEW v \in Users, NEW l \in Paying, l = "win" => v \in kitted
               PROVE  told'[v][l] + Cardinality(Telling(v, l)') <= paid[v][l]
    BY <1>3 DEF ToldBehind
  <2>1. /\ told[v][l] + Cardinality(Telling(v, l)) <= paid[v][l]
        /\ told[v][l] \in Nat /\ paid[v][l] \in Nat
    BY PayNumbers DEF PaySafe, ToldBehind
  <2>2. CASE v = u /\ l = k
    <3>1. r \in Telling(v, l) /\ Telling(v, l)' \subseteq Telling(v, l) \ {r}
      BY <1>1, <1>2, <2>2 DEF Telling
    <3>2. /\ Cardinality(Telling(v, l)') + 1 <= Cardinality(Telling(v, l))
          /\ Cardinality(Telling(v, l)') \in Nat /\ Cardinality(Telling(v, l)) \in Nat
      BY <3>1, SlotsFinite, CountLess
    <3>3. QED BY <1>4, <2>1, <2>2, <3>2
  <2>3. CASE ~(v = u /\ l = k)
    <3>1. Telling(v, l)' \subseteq Telling(v, l)
      BY <1>2 DEF Telling
    <3>2. /\ Cardinality(Telling(v, l)') <= Cardinality(Telling(v, l))
          /\ Cardinality(Telling(v, l)') \in Nat /\ Cardinality(Telling(v, l)) \in Nat
      BY <3>1, SlotsFinite, CountSame
    <3>3. QED BY <1>4, <2>1, <2>3, <3>2
  <2>4. QED BY <2>2, <2>3
<1>8. QED BY <1>6, <1>7 DEF PaySafe

LEMMA PaySafeStep ==
    ASSUME RewardsOK, RewardsOK', claim \in [Slots -> GoodClaim], PaySafe, NEW r \in Slots, RewardsStep(r)
    PROVE  PaySafe'
<1>0. \A u \in Users, k \in Paying : Recorded(u, k) \in Nat
  BY PayNumbers
<1>1. CASE SeedBegin(r) \/ SolveBegin(r) \/ WinBegin(r) \/ LookBegin(r)
  <2>1. PICK k, u, l : /\ ClaimBegin(r, k, u, l)
                       /\ l \in {"seed", "record", "record_late"} \/ (l = "open" /\ k = "look")
    BY <1>1 DEF SeedBegin, SolveBegin, WinBegin, LookBegin
  <2>2. UNCHANGED <<coins, wins, paid, kitted>>
    BY <1>1 DEF SeedBegin, SolveBegin, WinBegin, LookBegin
  <2>3. "look" \notin Paying
    BY DEF Paying
  <2>4. /\ \A s \in Slots \ {r} : claim'[s] = claim[s]
        /\ claim'[r].pc = l /\ claim'[r].kind = k
    BY <2>1, ClaimBegun
  <2>5. \A v \in Users, p \in Paying : Recorded(v, p)' = Recorded(v, p)
    BY <2>2 DEF Recorded
  <2>6. QED BY <1>0, <2>1, <2>2, <2>3, <2>4, <2>5, PayKept
<1>2. CASE SeedPuzzles(r) \/ Enqueue(r) \/ KillClaim(r)
  <2>1. ClaimEnd(r) /\ UNCHANGED <<wallets, nextWallet, solved, told, wins, paid, kitted>>
    BY <1>2 DEF SeedPuzzles, Enqueue, KillClaim
  <2>2. claim'[r].pc = "idle" /\ \A s \in Slots \ {r} : claim'[s] = claim[s]
    BY <2>1, ClaimGone
  <2>3. \A v \in Users, p \in Paying : Recorded(v, p)' = Recorded(v, p)
    BY <2>1 DEF Recorded
  <2>4. QED BY <1>0, <2>1, <2>2, <2>3, PayKept
<1>3. CASE Record(r)
  BY <1>3, PayRecords
<1>4. CASE FindWallet(r)
  <2>0. /\ claim[r].pc = "find" /\ claim[r].by \in Users /\ claim[r].kind \in Paying
        /\ UNCHANGED <<coins, wins, paid, kitted>>
    BY <1>4 DEF FindWallet, ClaimAt, GoodClaim
  <2>1. ASSUME NEW w \in First(WalletsOf(claim[r].by)),
               ClaimStep(r, [claim[r] EXCEPT !.pc = "credit", !.wallet = w.id, !.num = w.balance])
        PROVE  PaySafe'
    <3>1. w \in wallets /\ w.user = claim[r].by
      BY DEF First, WalletsOf
    <3>2. LET q == [claim[r] EXCEPT !.pc = "credit", !.wallet = w.id, !.num = w.balance]
          IN  /\ q.pc = "credit" /\ q.by = claim[r].by /\ q.kind = claim[r].kind
              /\ q.wallet = w.id /\ q.num = w.balance
      BY DEF RewardsOK, Claim
    <3>3. /\ \A s \in Slots \ {r} : claim'[s] = claim[s]
          /\ claim'[r].pc = "credit" /\ claim'[r].by = claim[r].by /\ claim'[r].kind = claim[r].kind
          /\ claim'[r].wallet = w.id /\ claim'[r].num = w.balance
      BY <2>1, <3>2, ClaimMoves
    <3>4. /\ w.balance <= Earned(w.user) /\ w.id < nextWallet
          /\ \A x \in wallets : x.id = w.id => x.user = w.user
      BY <3>1 DEF PaySafe, BalancesEarned, OwnWallets
    <3>5. QED BY <2>0, <3>1, <3>3, <3>4, PayKnown
  <2>2. CASE WalletsOf(claim[r].by) = {} /\ ClaimGoto(r, IF claim[r].kind = "win" THEN "tell" ELSE "open")
    <3>1. claim[r].by \notin kitted
      BY <2>2 DEF PaySafe, OwnWallets
    <3>2. /\ \A s \in Slots \ {r} : claim'[s] = claim[s]
          /\ claim'[r].pc = IF claim[r].kind = "win" THEN "tell" ELSE "open"
          /\ claim'[r].by = claim[r].by /\ claim'[r].kind = claim[r].kind
      BY <2>2, ClaimWent
    <3>3. r \in Due(claim'[r].by, claim'[r].kind)
      BY <2>0, <3>2 DEF Due
    <3>4. \A v \in Users, p \in Paying : Recorded(v, p)' = Recorded(v, p)
      BY <2>0 DEF Recorded
    <3>5. claim'[r].by \notin kitted
      BY <3>1, <3>2
    <3>6. QED BY <1>0, <2>0, <3>2, <3>3, <3>4, <3>5, PayKept
  <2>3. QED BY <1>4, <2>1, <2>2 DEF FindWallet
<1>5. CASE OpenWallet(r)
  <2>1. /\ claim[r].pc = "open" /\ claim[r].by \in Users
        /\ wallets' = wallets \cup {[id |-> nextWallet, user |-> claim[r].by, balance |-> Opening]}
        /\ nextWallet' = nextWallet + 1
        /\ UNCHANGED <<solved, told, wins, paid, kitted>>
    BY <1>5 DEF OpenWallet, ClaimAt, GoodClaim
  <2>2. nextWallet \in Nat
    BY DEF RewardsOK
  <2>3. CASE claim[r].kind = "puzzle"
    <3>1. ClaimStep(r, [claim[r] EXCEPT !.pc = "credit", !.wallet = nextWallet, !.num = Opening])
      BY <1>5, <2>3 DEF OpenWallet
    <3>2. LET q == [claim[r] EXCEPT !.pc = "credit", !.wallet = nextWallet, !.num = Opening]
          IN  /\ q.pc = "credit" /\ q.by = claim[r].by /\ q.kind = claim[r].kind
              /\ q.wallet = nextWallet /\ q.num = Opening
      BY DEF RewardsOK, Claim
    <3>3. /\ \A s \in Slots \ {r} : claim'[s] = claim[s]
          /\ claim'[r].pc = "credit" /\ claim'[r].by = claim[r].by /\ claim'[r].kind = claim[r].kind
          /\ claim'[r].wallet = nextWallet /\ claim'[r].num = Opening
      BY <3>1, <3>2, ClaimMoves
    <3>4. Opening <= Earned(claim[r].by)
      BY <2>1, PayNumbers DEF Earned, Opening, Reward, Paying
    <3>5. \A w \in wallets' : w.id = nextWallet => w.user = claim[r].by
      BY <2>1, PayOpens
    <3>6. nextWallet < nextWallet' /\ claim[r].kind \in Paying
      BY <2>1, <2>2, <2>3 DEF Paying
    <3>7. QED BY <2>1, <3>3, <3>4, <3>5, <3>6, PayKnown
  <2>4. CASE claim[r].kind # "puzzle"
    <3>1. claim'[r].pc = "idle" /\ \A s \in Slots \ {r} : claim'[s] = claim[s]
      BY <1>5, <2>4, ClaimGone DEF OpenWallet
    <3>2. QED BY <2>1, <3>1, WalletAdded
  <2>5. QED BY <2>3, <2>4
<1>6. CASE Credit(r)
  BY <1>6, PayCredits
<1>7. CASE Tell(r)
  BY <1>7, PayTells
<1>8. QED BY <1>1, <1>2, <1>3, <1>4, <1>5, <1>6, <1>7 DEF RewardsStep

\* A step after which nobody new is told of a win, or about to be.
LEMMA WinsKept ==
    ASSUME WinsFirst, NEW r \in Slots, \A s \in Slots \ {r} : claim'[s] = claim[s],
           wins' = wins, told' = told,
           claim'[r].kind = "win" /\ claim'[r].pc \in {"find", "open", "credit", "tell"} =>
              /\ claim[r].kind = "win" /\ claim[r].pc \in {"find", "open", "credit", "tell"}
              /\ claim'[r].by = claim[r].by
    PROVE  WinsFirst'
BY DEF WinsFirst

LEMMA WinsFirstStep ==
    ASSUME RewardsOK, claim \in [Slots -> GoodClaim], WinsFirst, NEW r \in Slots, RewardsStep(r)
    PROVE  WinsFirst'
<1>0. claim[r] \in Claim /\ wins \in [Users -> Nat]
  BY DEF GoodClaim, RewardsOK
<1>1. CASE SeedBegin(r) \/ SolveBegin(r) \/ WinBegin(r) \/ LookBegin(r)
  <2>1. PICK k, u, l : /\ ClaimBegin(r, k, u, l)
                       /\ l \in {"seed", "record", "record_late"} \/ (l = "open" /\ k = "look")
    BY <1>1 DEF SeedBegin, SolveBegin, WinBegin, LookBegin
  <2>2. wins' = wins /\ told' = told
    BY <1>1 DEF SeedBegin, SolveBegin, WinBegin, LookBegin
  <2>3. QED BY <2>1, <2>2, ClaimBegun, WinsKept
<1>2. CASE SeedPuzzles(r) \/ Enqueue(r) \/ KillClaim(r)
  <2>1. ClaimEnd(r) /\ wins' = wins /\ told' = told
    BY <1>2 DEF SeedPuzzles, Enqueue, KillClaim
  <2>2. QED BY <2>1, ClaimGone, WinsKept
<1>3. CASE Record(r)
  <2>1. claim[r].by \in Users /\ claim[r].pc # "idle" /\ told' = told
    BY <1>3 DEF Record, ClaimAt, GoodClaim
  <2>2. /\ \A s \in Slots \ {r} : claim'[s] = claim[s]
        /\ claim'[r].by = claim[r].by /\ claim'[r].kind = claim[r].kind
    BY <1>3, ClaimWent DEF Record
  <2>3. /\ \A u \in Users : wins'[u] = wins[u] \/ wins'[u] = wins[u] + 1
        /\ claim[r].kind = "win" => wins'[claim[r].by] = wins[claim[r].by] + 1
    BY <1>0, <1>3, <2>1 DEF Record
  <2>4. \A u \in Users : wins[u] # 0 => wins'[u] # 0
    BY <1>0, <2>3
  <2>5. \A s \in Slots : claim[s].pc # "idle" => claim[s].by \in Users
    BY DEF GoodClaim
  <2>6. claim[r].kind = "win" => wins'[claim[r].by] # 0
    BY <1>0, <2>1, <2>3
  <2>7. \A u \in Users : wins'[u] = 0 => told'[u]["win"] = 0
    BY <2>1, <2>4 DEF WinsFirst
  <2>8. QED BY <2>2, <2>4, <2>5, <2>6, <2>7 DEF WinsFirst
<1>4. CASE FindWallet(r) \/ OpenWallet(r) \/ Credit(r)
  <2>1. wins' = wins /\ told' = told /\ claim[r].pc \in {"find", "open", "credit"}
    BY <1>4 DEF FindWallet, OpenWallet, Credit, ClaimAt
  <2>2. ASSUME NEW i, NEW n, ClaimStep(r, [claim[r] EXCEPT !.pc = "credit", !.wallet = i, !.num = n])
        PROVE  WinsFirst'
    <3>1. LET q == [claim[r] EXCEPT !.pc = "credit", !.wallet = i, !.num = n]
          IN  q.by = claim[r].by /\ q.kind = claim[r].kind
      BY <1>0 DEF Claim
    <3>2. /\ \A s \in Slots \ {r} : claim'[s] = claim[s]
          /\ claim'[r].by = claim[r].by /\ claim'[r].kind = claim[r].kind
      BY <2>2, <3>1, ClaimMoves
    <3>3. QED BY <2>1, <3>2, WinsKept
  <2>3. ASSUME NEW l, ClaimGoto(r, l) PROVE WinsFirst'
    BY <2>1, <2>3, ClaimWent, WinsKept
  <2>4. CASE ClaimEnd(r)
    BY <2>1, <2>4, ClaimGone, WinsKept
  <2>5. QED BY <1>4, <2>2, <2>3, <2>4 DEF FindWallet, OpenWallet, Credit
<1>5. CASE Tell(r)
  <2>1. /\ claim[r].pc = "tell" /\ claim[r].by \in Users /\ claim[r].kind \in Paying /\ wins' = wins
        /\ told' = [told EXCEPT ![claim[r].by][claim[r].kind] = @ + 1]
    BY <1>5 DEF Tell, ClaimAt, GoodClaim
  <2>2. /\ \A s \in Slots \ {r} : claim'[s] = claim[s]
        /\ claim'[r].pc \in {"idle", "enqueue"}
    BY <1>5, ClaimWent, ClaimGone DEF Tell
  <2>3. \A u \in Users : wins[u] = 0 => told'[u]["win"] = told[u]["win"]
    <3>1. claim[r].kind = "win" => wins[claim[r].by] # 0
      BY <2>1 DEF WinsFirst
    <3>2. QED BY <2>1, <3>1 DEF RewardsOK, Paying
  <2>4. QED BY <2>1, <2>2, <2>3 DEF WinsFirst
<1>6. QED BY <1>1, <1>2, <1>3, <1>4, <1>5 DEF RewardsStep

\* What the other components leave alone.
LEMMA OthersPay ==
    ASSUME RankingTurn \/ ProfileTurn \/ SocialTurn \/ MediaTurn \/ LearnTurn \/ SignupTurn \/ RemoveTurn
           \/ UNCHANGED vars
    PROVE  /\ UNCHANGED <<solved, told, scores, claim, paid, tangled>>
           /\ ~SignupTurn => kitted' = kitted
<1>1. CASE RankingTurn
  BY <1>1 DEF RankingTurn, RankingNext, RankingStep, TaskBegin, MeBegin, GlobalBegin, QueryRows,
     CachePage, PageAgain, ReadUsers, ReadStats, ClearRows, SeekRow, WriteRow, KillBuild, ExpirePage
<1>2. CASE ProfileTurn
  BY <1>2 DEF ProfileTurn, ProfileNext, ProfileStep, ProfileBegin, InventoryBegin, VisitBegin, ReadScores,
     FindKit, NewKit, ReadWallet, NewWallet, ReadRow, Show, KillVisit
<1>3. CASE SignupTurn
  BY <1>3 DEF SignupTurn, SignupNext, CreateUser, GiveKit, GiveWallet, Greet, KillSignup
<1>4. QED BY <1>1, <1>2, <1>3 DEF SocialTurn, MediaTurn, LearnTurn, RemoveTurn

\* Wallets come from the profile page and from the sign-up, or stay as they are.
LEMMA OthersOpen ==
    ASSUME RankingTurn \/ ProfileTurn \/ SocialTurn \/ MediaTurn \/ LearnTurn \/ SignupTurn \/ RemoveTurn
           \/ UNCHANGED vars
    PROVE  \/ UNCHANGED <<wallets, nextWallet, kitted>>
           \/ ProfileTurn /\ \E r \in Slots : NewWallet(r)
           \/ SignupTurn /\ \E u \in Users : GiveWallet(u)
<1>1. CASE RankingTurn
  BY <1>1 DEF RankingTurn, RankingNext, RankingStep, TaskBegin, MeBegin, GlobalBegin, QueryRows,
     CachePage, PageAgain, ReadUsers, ReadStats, ClearRows, SeekRow, WriteRow, KillBuild, ExpirePage
<1>2. CASE ProfileTurn
  BY <1>2 DEF ProfileTurn, ProfileNext, ProfileStep, ProfileBegin, InventoryBegin, VisitBegin, ReadScores,
     FindKit, NewKit, ReadWallet, ReadRow, Show, KillVisit
<1>3. CASE SignupTurn
  BY <1>3 DEF SignupTurn, SignupNext, CreateUser, GiveKit, Greet, KillSignup
<1>4. QED BY <1>1, <1>2, <1>3 DEF SocialTurn, MediaTurn, LearnTurn, RemoveTurn

LEMMA PaySafeNext == Typed /\ PaySafe /\ WinsFirst /\ [Next]_vars => PaySafe' /\ WinsFirst'
<1> SUFFICES ASSUME Typed, PaySafe, WinsFirst, [Next]_vars PROVE PaySafe' /\ WinsFirst'
  OBVIOUS
<1>0. RewardsOK /\ RewardsOK' /\ claim \in [Slots -> GoodClaim] /\ visit \in [Slots -> GoodVisit]
  BY TypedStep DEF Typed, TypeOK, InFlight
<1>1. CASE RewardsTurn
  BY <1>0, <1>1, PaySafeStep, WinsFirstStep DEF RewardsTurn, RewardsNext
<1>2. CASE ~RewardsTurn
  <2>1. /\ UNCHANGED <<solved, told, scores, claim, paid>> /\ (~SignupTurn => kitted' = kitted)
        /\ \/ UNCHANGED <<wallets, nextWallet, kitted>>
           \/ ProfileTurn /\ \E r \in Slots : NewWallet(r)
           \/ SignupTurn /\ \E u \in Users : GiveWallet(u)
    BY <1>2, OthersPay, OthersOpen DEF Next
  <2>2. WinsFirst'
    BY <2>1 DEF WinsFirst
  <2>3. CASE UNCHANGED <<wallets, nextWallet, kitted>>
    <3>1. UNCHANGED <<solved, told, wins, claim, paid>>
      BY <2>1
    <3>2. \A u, k : Due(u, k)' = Due(u, k) /\ Telling(u, k)' = Telling(u, k) /\ Recorded(u, k)' = Recorded(u, k)
      BY <3>1 DEF Due, Telling, Recorded
    <3>a. \A u, k : /\ Cardinality(Due(u, k)') = Cardinality(Due(u, k))
                    /\ Cardinality(Telling(u, k)') = Cardinality(Telling(u, k))
      BY <3>2, Zenon
    <3>b. PaidIsRecorded'
      BY <3>1, <3>2, <3>a DEF PaySafe, PaidIsRecorded
    <3>c. ToldBehind'
      BY <2>3, <3>1, <3>a DEF PaySafe, ToldBehind
    <3>3. PaidIsRecorded' /\ ToldBehind'
      BY <3>b, <3>c
    <3>4. BalancesEarned' /\ OwnWallets'
      BY <2>3, <3>1 DEF PaySafe, BalancesEarned, OwnWallets, WalletsOf, Earned, ClaimAt
    <3>5. QED BY <2>2, <3>3, <3>4 DEF PaySafe
  <2>4. ASSUME NEW r \in Slots, NewWallet(r) PROVE PaySafe'
    <3>1. visit[r].by \in Users
      BY <1>0, <2>4 DEF NewWallet, VisitAt, GoodVisit
    <3>2. /\ wallets' = wallets \cup {[id |-> nextWallet, user |-> visit[r].by, balance |-> Opening]}
          /\ nextWallet' = nextWallet + 1 /\ kitted' = kitted
      BY <2>4 DEF NewWallet
    <3>3. QED BY <1>0, <2>1, <3>1, <3>2, WalletAdded
  <2>5. ASSUME NEW u \in Users, GiveWallet(u) PROVE PaySafe'
    <3>1. /\ wallets' = wallets \cup {[id |-> nextWallet, user |-> u, balance |-> Opening]}
          /\ nextWallet' = nextWallet + 1
          /\ kitted' = IF ClaimsOf(u) = {} /\ solved[u] = 0 /\ wins[u] = 0 THEN kitted \cup {u} ELSE kitted
      BY <2>5 DEF GiveWallet
    <3>2. ClaimsOf(u) = {} => Telling(u, "win") = {}
      BY DEF ClaimsOf, ClaimAt, Telling
    <3>3. wins[u] = 0 => told[u]["win"] = 0
      BY DEF WinsFirst
    <3>4. QED BY <1>0, <2>1, <3>1, <3>2, <3>3, WalletAdded
  <2>6. QED BY <2>1, <2>2, <2>3, <2>4, <2>5
<1>3. QED BY <1>1, <1>2

LEMMA PayInit == Init => Typed /\ PaySafe /\ WinsFirst
BY TypedInit, PaySafeInit DEF Init, RewardsInit, WinsFirst, NoClaim, Paying

LEMMA AlwaysPaySafe == Spec => [](Typed /\ PaySafe)
<1>1. Typed /\ PaySafe /\ WinsFirst /\ [Next]_vars => (Typed /\ PaySafe /\ WinsFirst)'
  BY TypedStep, PaySafeNext
<1>2. QED BY <1>1, PayInit, PTL DEF Spec

\* What was paid has its record, so what was earned bounds every wallet.
LEMMA EarnedIsRecorded ==
    ASSUME RewardsOK, PaySafe, NEW u \in Users
    PROVE  Earned(u) <= Opening + Reward.puzzle * solved[u] + Reward.win * wins[u]
<1>1. "puzzle" \in Paying /\ "win" \in Paying
  BY DEF Paying
<1>2. \A k \in Paying : /\ paid[u][k] + Cardinality(Due(u, k)) <= Recorded(u, k)
                        /\ Cardinality(Due(u, k)) \in Nat /\ paid[u][k] \in Nat /\ Recorded(u, k) \in Nat
  BY SlotsFinite, FS_CardinalityType, PayNumbers DEF PaySafe, PaidIsRecorded
<1>3. paid[u]["puzzle"] <= Recorded(u, "puzzle") /\ paid[u]["win"] <= Recorded(u, "win")
  BY <1>1, <1>2
<1>4. Recorded(u, "puzzle") = solved[u] /\ Recorded(u, "win") = wins[u]
  BY DEF Recorded
<1>5. QED BY <1>1, <1>2, <1>3, <1>4 DEF Earned, Opening, Reward

\* No wallet ever holds more than it was opened with and the rewards on
\* record, although every payment writes back a balance it read earlier
\* (attempt_puzzle, _complete_game).
THEOREM NoCoinFromARace == Spec => []NeverOverpaid
<1>1. Typed /\ PaySafe => NeverOverpaid
  <2> SUFFICES ASSUME Typed, PaySafe, NEW w \in wallets
               PROVE  w.balance <= Opening + Reward.puzzle * solved[w.user] + Reward.win * wins[w.user]
    BY DEF NeverOverpaid
  <2>0. RewardsOK
    BY DEF Typed, TypeOK
  <2>1. w.user \in Users /\ w.balance \in Nat
    BY <2>0 DEF RewardsOK, Wallet
  <2>2. w.balance <= Earned(w.user)
    BY DEF PaySafe, BalancesEarned
  <2>3. PICK n \in Nat : n = Opening + Reward.puzzle * solved[w.user] + Reward.win * wins[w.user]
    BY <2>0, <2>1 DEF RewardsOK, Opening, Reward
  <2>4. Earned(w.user) <= n /\ Earned(w.user) \in Nat
    BY <2>0, <2>1, <2>3, EarnedIsRecorded, PayNumbers
  <2>5. QED BY <2>1, <2>2, <2>3, <2>4
<1>2. QED BY <1>1, AlwaysPaySafe, PTL

\* A message that coins were earned always follows the payment it speaks of,
\* except for wins of users without a wallet (attempt_puzzle, _complete_game).
THEOREM MessagesFollowPayments == Spec => []ToldIsPaid
<1>1. Typed /\ PaySafe => ToldIsPaid
  <2> SUFFICES ASSUME Typed, PaySafe, NEW u \in Users, NEW k \in Paying, k = "win" => u \in kitted
               PROVE  told[u][k] <= paid[u][k]
    BY DEF ToldIsPaid
  <2>0. RewardsOK
    BY DEF Typed, TypeOK
  <2>1. told[u][k] + Cardinality(Telling(u, k)) <= paid[u][k]
    BY DEF PaySafe, ToldBehind
  <2>2. Cardinality(Telling(u, k)) \in Nat
    BY SlotsFinite, FS_CardinalityType
  <2>3. QED BY <2>0, <2>1, <2>2, PayNumbers
<1>2. QED BY <1>1, AlwaysPaySafe, PTL

(***************************************************************************)
(* The profile page.  What a visit has read was on record when it read it, *)
(* and records only grow.                                                  *)
(***************************************************************************)
OnRecord(u) == Opening + Reward.puzzle * solved[u] + Reward.win * wins[u]

CountedOnRecord == \A u \in Users : counted[u] <= wins[u]
VisitsTrue ==
    \A r \in Slots : ~VisitAt(r, "idle") =>
        /\ visit[r].coins <= OnRecord(visit[r].by)
        /\ visit[r].before <= counted[visit[r].by]
        /\ visit[r].pc # "scores" /\ visit[r].page =>
              visit[r].before <= visit[r].wins /\ visit[r].wins <= wins[visit[r].by]
        /\ visit[r].pc \notin {"kit", "new_kit"} => visit[r].page

LEMMA RecordsGrow ==
    ASSUME Typed, [Next]_vars
    PROVE  /\ \A u \in Users : /\ wins[u] \in Nat /\ wins'[u] \in Nat /\ wins[u] <= wins'[u]
                              /\ solved[u] \in Nat /\ solved'[u] \in Nat /\ solved[u] <= solved'[u]
                              /\ counted[u] \in Nat /\ counted'[u] \in Nat /\ counted[u] <= counted'[u]
           /\ CountedOnRecord => CountedOnRecord'
<1> USE DEF Typed, TypeOK, InFlight
<1>0. wins \in [Users -> Nat] /\ solved \in [Users -> Nat] /\ counted \in [Users -> Nat]
  BY DEF RewardsOK
<1>1. CASE UNCHANGED <<wins, solved, counted>>
  BY <1>0, <1>1 DEF CountedOnRecord
<1>2. ASSUME NEW r \in Slots, Record(r)
      PROVE  /\ \A u \in Users : /\ wins[u] \in Nat /\ wins'[u] \in Nat /\ wins[u] <= wins'[u]
                                /\ solved[u] \in Nat /\ solved'[u] \in Nat /\ solved[u] <= solved'[u]
                                /\ counted[u] \in Nat /\ counted'[u] \in Nat /\ counted[u] <= counted'[u]
             /\ CountedOnRecord => CountedOnRecord'
  <2>1. claim[r].by \in Users
    BY <1>2 DEF Record, ClaimAt, GoodClaim
  <2>2. \/ solved' = [solved EXCEPT ![claim[r].by] = @ + 1] /\ UNCHANGED <<wins, counted>>
        \/ /\ wins' = [wins EXCEPT ![claim[r].by] = @ + 1] /\ UNCHANGED solved
           /\ counted' = counted \/ counted' = [counted EXCEPT ![claim[r].by] = @ + 1]
    BY <1>2 DEF Record
  <2>3. QED BY <1>0, <2>1, <2>2 DEF CountedOnRecord
<1>3. CASE RewardsTurn
  BY <1>1, <1>2, <1>3 DEF RewardsTurn, RewardsNext, RewardsStep, SeedBegin, SeedPuzzles, SolveBegin,
     WinBegin, LookBegin, FindWallet, OpenWallet, Credit, Tell, Enqueue, KillClaim
<1>4. CASE ~RewardsTurn
  BY <1>1, <1>4, OthersPay DEF Next
<1>5. QED BY <1>3, <1>4

LEMMA VisitMoves ==
    ASSUME visit \in [Slots -> GoodVisit], NEW r \in Slots, NEW q, VisitStep(r, q)
    PROVE  visit'[r] = q /\ \A s \in Slots \ {r} : visit'[s] = visit[s]
BY DEF VisitStep

LEMMA VisitWent ==
    ASSUME visit \in [Slots -> GoodVisit], NEW r \in Slots, NEW l, VisitGoto(r, l)
    PROVE  /\ \A s \in Slots \ {r} : visit'[s] = visit[s]
           /\ visit'[r].pc = l /\ visit'[r].by = visit[r].by /\ visit'[r].page = visit[r].page
           /\ visit'[r].wins = visit[r].wins /\ visit'[r].coins = visit[r].coins
           /\ visit'[r].before = visit[r].before
<1>1. visit[r] \in Visit
  BY DEF GoodVisit
<1>2. QED BY <1>1, VisitMoves DEF VisitGoto, Visit

LEMMA VisitGone ==
    ASSUME visit \in [Slots -> GoodVisit], NEW r \in Slots, VisitEnd(r)
    PROVE  visit'[r].pc = "idle" /\ \A s \in Slots \ {r} : visit'[s] = visit[s]
BY VisitMoves DEF VisitEnd, NoVisit

\* A visit that goes on with what it has read, or ends.
LEMMA VisitKept ==
    ASSUME VisitsTrue, NEW r \in Slots, UNCHANGED <<wins, solved, counted>>,
           \A s \in Slots \ {r} : visit'[s] = visit[s],
           \/ visit'[r].pc = "idle"
           \/ /\ visit[r].pc \notin {"idle", "scores"}
              /\ visit'[r].by = visit[r].by /\ visit'[r].page = visit[r].page
              /\ visit'[r].wins = visit[r].wins /\ visit'[r].before = visit[r].before
              /\ visit'[r].pc # "scores" /\ (visit'[r].pc \in {"kit", "new_kit"} \/ visit[r].page)
              /\ visit'[r].coins <= OnRecord(visit[r].by)
    PROVE  VisitsTrue'
BY DEF VisitsTrue, VisitAt, OnRecord

LEMMA VisitStepTrue ==
    ASSUME RewardsOK, ProfileOK, PaySafe, visit \in [Slots -> GoodVisit], alive \subseteq Users,
           UNCHANGED <<wins, solved, counted>>, CountedOnRecord, VisitsTrue, NEW r \in Slots, ProfileStep(r)
    PROVE  VisitsTrue'
<1>0. /\ visit[r] \in Visit /\ (visit[r].pc # "idle" => visit[r].by \in Users)
      /\ wins \in [Users -> Nat] /\ solved \in [Users -> Nat] /\ counted \in [Users -> Nat]
  BY DEF GoodVisit, RewardsOK
<1>a. \A u \in Users : OnRecord(u) \in Nat /\ Opening <= OnRecord(u) /\ Opening \in Nat
  BY <1>0 DEF OnRecord, Opening, Reward
<1>b. visit[r].pc # "idle" =>
        /\ visit[r].coins <= OnRecord(visit[r].by)
        /\ visit[r].before <= counted[visit[r].by]
        /\ visit[r].pc # "scores" /\ visit[r].page =>
              visit[r].before <= visit[r].wins /\ visit[r].wins <= wins[visit[r].by]
        /\ visit[r].pc \notin {"kit", "new_kit"} => visit[r].page
  BY DEF VisitsTrue, VisitAt
<1>1. CASE ProfileBegin(r) \/ InventoryBegin(r)
  <2>1. PICK u \in alive, b \in BOOLEAN : VisitBegin(r, u, b)
    BY <1>1 DEF ProfileBegin, InventoryBegin
  <2> DEFINE q == [NoVisit EXCEPT !.pc = IF b THEN "scores" ELSE "kit", !.by = u,
                                  !.page = b, !.before = counted[u]]
  <2>2. /\ q.pc = IF b THEN "scores" ELSE "kit"
        /\ q.by = u /\ q.page = b /\ q.before = counted[u] /\ q.coins = 0
    BY DEF NoVisit
  <2>3. VisitStep(r, q)
    BY <2>1 DEF VisitBegin
  <2> HIDE DEF q
  <2>4. visit'[r] = q /\ \A s \in Slots \ {r} : visit'[s] = visit[s]
    BY <2>3, VisitMoves
  <2>5. 0 <= OnRecord(u) /\ counted[u] <= counted[u]
    BY <1>0, <1>a
  <2>6. QED BY <2>2, <2>4, <2>5 DEF VisitsTrue, VisitAt, OnRecord
<1>2. CASE ReadScores(r)
  <2> DEFINE q == [visit[r] EXCEPT !.pc = "kit", !.wins = counted[visit[r].by]]
  <2>1. /\ q.pc = "kit" /\ q.by = visit[r].by /\ q.page = visit[r].page /\ q.before = visit[r].before
        /\ q.coins = visit[r].coins /\ q.wins = counted[visit[r].by]
    BY <1>0 DEF Visit
  <2>2. VisitStep(r, q) /\ visit[r].pc = "scores"
    BY <1>2 DEF ReadScores, VisitAt
  <2> HIDE DEF q
  <2>3. visit'[r] = q /\ \A s \in Slots \ {r} : visit'[s] = visit[s]
    BY <2>2, VisitMoves
  <2>4. counted[visit[r].by] <= wins[visit[r].by]
    BY <1>0, <2>2 DEF CountedOnRecord
  <2>5. QED BY <1>b, <2>1, <2>2, <2>3, <2>4 DEF VisitsTrue, VisitAt, OnRecord
<1>3. CASE FindKit(r) \/ NewKit(r)
  <2>1. visit[r].pc \in {"kit", "new_kit"}
    BY <1>3 DEF FindKit, NewKit, VisitAt
  <2>2. VisitGoto(r, "new_kit") \/ (visit[r].page /\ VisitGoto(r, "wallet")) \/ VisitEnd(r)
    BY <1>3 DEF FindKit, NewKit, AfterKit
  <2>3. QED BY <1>b, <2>1, <2>2, VisitWent, VisitGone, VisitKept
<1>4. CASE ReadWallet(r)
  <2>0. visit[r].pc = "wallet"
    BY <1>4 DEF ReadWallet, VisitAt
  <2>1. CASE VisitGoto(r, "new_wallet")
    BY <1>b, <2>0, <2>1, VisitWent, VisitKept
  <2>2. ASSUME NEW w \in First(WalletsOf(visit[r].by)),
               VisitStep(r, [visit[r] EXCEPT !.pc = "row", !.coins = w.balance])
        PROVE  VisitsTrue'
    <3>1. LET q == [visit[r] EXCEPT !.pc = "row", !.coins = w.balance]
          IN  /\ q.pc = "row" /\ q.by = visit[r].by /\ q.page = visit[r].page
              /\ q.before = visit[r].before /\ q.wins = visit[r].wins /\ q.coins = w.balance
      BY <1>0 DEF Visit
    <3>2. /\ \A s \in Slots \ {r} : visit'[s] = visit[s]
          /\ visit'[r].pc = "row" /\ visit'[r].by = visit[r].by /\ visit'[r].page = visit[r].page
          /\ visit'[r].before = visit[r].before /\ visit'[r].wins = visit[r].wins
          /\ visit'[r].coins = w.balance
      BY <2>2, <3>1, VisitMoves
    <3>3. w \in wallets /\ w.user = visit[r].by /\ w.balance \in Nat
      BY DEF First, WalletsOf, RewardsOK, Wallet
    <3>4. PICK u \in Users : u = visit[r].by
      BY <1>0, <2>0
    <3>5. w.balance <= Earned(u) /\ Earned(u) \in Nat /\ Earned(u) <= OnRecord(u)
      BY <3>3, <3>4, EarnedIsRecorded, PayNumbers DEF PaySafe, BalancesEarned, OnRecord
    <3>6. w.balance <= OnRecord(u)
      BY <1>a, <3>3, <3>5
    <3>7. QED BY <1>b, <2>0, <3>2, <3>4, <3>6, VisitKept
  <2>3. QED BY <1>4, <2>1, <2>2 DEF ReadWallet
<1>5. CASE NewWallet(r)
  <2>0. visit[r].pc = "new_wallet" /\ VisitStep(r, [visit[r] EXCEPT !.pc = "row", !.coins = Opening])
    BY <1>5 DEF NewWallet, VisitAt
  <2>1. LET q == [visit[r] EXCEPT !.pc = "row", !.coins = Opening]
        IN  /\ q.pc = "row" /\ q.by = visit[r].by /\ q.page = visit[r].page
            /\ q.before = visit[r].before /\ q.wins = visit[r].wins /\ q.coins = Opening
    BY <1>0 DEF Visit
  <2>2. /\ \A s \in Slots \ {r} : visit'[s] = visit[s]
        /\ visit'[r].pc = "row" /\ visit'[r].by = visit[r].by /\ visit'[r].page = visit[r].page
        /\ visit'[r].before = visit[r].before /\ visit'[r].wins = visit[r].wins
        /\ visit'[r].coins = Opening
    BY <2>0, <2>1, VisitMoves
  <2>3. Opening <= OnRecord(visit[r].by)
    BY <1>0, <1>a, <2>0
  <2>4. QED BY <1>b, <2>0, <2>2, <2>3, VisitKept
<1>6. CASE ReadRow(r)
  <2>0. visit[r].pc = "row"
    BY <1>6 DEF ReadRow, VisitAt
  <2>1. CASE VisitGoto(r, "page")
    BY <1>b, <2>0, <2>1, VisitWent, VisitKept
  <2>2. ASSUME NEW k, VisitStep(r, [visit[r] EXCEPT !.pc = "page", !.rank = k])
        PROVE  VisitsTrue'
    <3>1. LET q == [visit[r] EXCEPT !.pc = "page", !.rank = k]
          IN  /\ q.pc = "page" /\ q.by = visit[r].by /\ q.page = visit[r].page
              /\ q.before = visit[r].before /\ q.wins = visit[r].wins /\ q.coins = visit[r].coins
      BY <1>0 DEF Visit
    <3>2. /\ \A s \in Slots \ {r} : visit'[s] = visit[s]
          /\ visit'[r].pc = "page" /\ visit'[r].by = visit[r].by /\ visit'[r].page = visit[r].page
          /\ visit'[r].before = visit[r].before /\ visit'[r].wins = visit[r].wins
          /\ visit'[r].coins = visit[r].coins
      BY <2>2, <3>1, VisitMoves
    <3>3. QED BY <1>b, <2>0, <3>2, VisitKept
  <2>3. QED BY <1>6, <2>1, <2>2 DEF ReadRow
<1>7. CASE Show(r) \/ KillVisit(r)
  BY <1>7, VisitGone, VisitKept DEF Show, KillVisit
<1>8. QED BY <1>1, <1>2, <1>3, <1>4, <1>5, <1>6, <1>7 DEF ProfileStep

LEMMA VisitsTrueNext == Typed /\ PaySafe /\ CountedOnRecord /\ VisitsTrue /\ [Next]_vars => VisitsTrue'
<1> SUFFICES ASSUME Typed, PaySafe, CountedOnRecord, VisitsTrue, [Next]_vars PROVE VisitsTrue'
  OBVIOUS
<1>1. CASE ProfileTurn
  <2>1. UNCHANGED <<wins, solved, counted>>
    BY <1>1, OthersPay
  <2>2. QED BY <1>1, <2>1, VisitStepTrue DEF ProfileTurn, ProfileNext, Typed, TypeOK, InFlight, RequestsOK
<1>2. CASE visit' = visit
  <2> SUFFICES ASSUME NEW r \in Slots, visit[r].pc # "idle"
               PROVE  /\ visit[r].coins <= OnRecord(visit[r].by)'
                      /\ visit[r].before <= counted'[visit[r].by]
                      /\ visit[r].pc # "scores" /\ visit[r].page =>
                            visit[r].before <= visit[r].wins /\ visit[r].wins <= wins'[visit[r].by]
                      /\ visit[r].pc \notin {"kit", "new_kit"} => visit[r].page
    BY <1>2 DEF VisitsTrue, VisitAt, OnRecord
  <2>1. /\ visit[r].coins <= OnRecord(visit[r].by) /\ visit[r].before <= counted[visit[r].by]
        /\ visit[r].pc # "scores" /\ visit[r].page =>
              visit[r].before <= visit[r].wins /\ visit[r].wins <= wins[visit[r].by]
        /\ visit[r].pc \notin {"kit", "new_kit"} => visit[r].page
    BY DEF VisitsTrue, VisitAt
  <2>2. /\ visit[r].by \in Users /\ visit[r].coins \in Nat /\ visit[r].before \in Nat /\ visit[r].wins \in Nat
    BY DEF Typed, InFlight, GoodVisit, Visit
  <2>3. PICK u \in Users : u = visit[r].by
    BY <2>2
  <2>4. /\ wins[u] \in Nat /\ wins'[u] \in Nat /\ wins[u] <= wins'[u]
        /\ solved[u] \in Nat /\ solved'[u] \in Nat /\ solved[u] <= solved'[u]
        /\ counted[u] \in Nat /\ counted'[u] \in Nat /\ counted[u] <= counted'[u]
    BY RecordsGrow
  <2>5. OnRecord(u) <= OnRecord(u)' /\ OnRecord(u) \in Nat /\ OnRecord(u)' \in Nat
    BY <2>4 DEF OnRecord, Opening, Reward
  <2>6. visit[r].coins <= OnRecord(u)'
    BY <2>1, <2>2, <2>3, <2>5
  <2>7. visit[r].coins <= OnRecord(visit[r].by)'
    BY <1>2, <2>3, <2>6 DEF OnRecord
  <2>8. QED BY <2>1, <2>2, <2>3, <2>4, <2>7
<1>3. CASE SignupTurn
  <2>1. visit' = visit
    BY <1>3 DEF SignupTurn, SignupNext, CreateUser, GiveKit, GiveWallet, Greet, KillSignup
  <2>2. QED BY <1>2, <2>1
<1>4. QED
  BY <1>1, <1>2, <1>3 DEF Next, RewardsTurn, RankingTurn, SocialTurn, MediaTurn, LearnTurn, RemoveTurn

LEMMA CountedInit == Init => CountedOnRecord
BY DEF Init, RewardsInit, CountedOnRecord

\* A profile page shows no wins and no coins beyond what is on record, and
\* every win of the user's first 500 players that was on record when it was
\* asked for (build_profile_page).
THEOREM PagesAreTrue == Spec => []PageIsTrue
<1>1. Init => VisitsTrue
  BY DEF Init, ProfileInit, VisitsTrue, VisitAt, NoVisit
<1>2. /\ Typed /\ PaySafe /\ WinsFirst /\ CountedOnRecord /\ VisitsTrue /\ [Next]_vars
      => (Typed /\ PaySafe /\ WinsFirst /\ CountedOnRecord /\ VisitsTrue)'
  BY TypedStep, PaySafeNext, RecordsGrow, VisitsTrueNext
<1>3. VisitsTrue => PageIsTrue
  BY DEF VisitsTrue, PageIsTrue, VisitAt, OnRecord
<1>4. QED BY <1>1, <1>2, <1>3, PayInit, CountedInit, PTL DEF Spec

(***************************************************************************)
(* The power-ups.  The only visit of a user looks and then inserts, with   *)
(* nobody in between; until the sign-up has stored them there is none, or  *)
(* the user is one of those who ask too early.                             *)
(***************************************************************************)
KitSafe ==
    /\ KitGivenOnce
    /\ \A u \in Users \ twice : \A r, s \in VisitsOf(u) : r = s
    /\ \A u \in Users \ twice : \A r \in VisitsOf(u) : VisitAt(r, "new_kit") => kits[u] = 0
    /\ \A u \in Users \ twice : signup[u] \in {"none", "kit"} => kits[u] = 0 /\ VisitsOf(u) = {}

LEMMA KitKept ==
    ASSUME KitSafe, signup' = signup, NEW r \in Slots, twice' = twice, \A s \in Slots \ {r} : visit'[s] = visit[s],
           \/ visit'[r].pc = "idle"
           \/ visit[r].pc # "idle" /\ visit'[r].by = visit[r].by,
           visit'[r].pc = "new_kit" => kits[visit'[r].by] = 0,
           \/ kits' = kits
           \/ /\ kits' = [kits EXCEPT ![visit[r].by] = @ + 1]
              /\ visit[r].pc = "new_kit" /\ visit'[r].pc # "new_kit" /\ kits \in [Users -> Nat]
    PROVE  KitSafe'
<1>1. \A u \in Users : VisitsOf(u)' \subseteq VisitsOf(u)
  BY DEF VisitsOf, VisitAt
<1>2. \A u \in Users \ twice : \A s, t \in VisitsOf(u)' : s = t
  BY <1>1 DEF KitSafe
<1>3. CASE kits' = kits
  <2>1. \A u \in Users \ twice : \A s \in VisitsOf(u)' : visit'[s].pc = "new_kit" => kits[u] = 0
    BY <1>1 DEF KitSafe, VisitsOf, VisitAt
  <2>2. \A u \in Users \ twice : signup[u] \in {"none", "kit"} => kits[u] = 0 /\ VisitsOf(u)' = {}
    BY <1>1 DEF KitSafe
  <2>3. QED BY <1>2, <1>3, <2>1, <2>2 DEF KitSafe, KitGivenOnce, VisitAt
<1>4. CASE /\ kits' = [kits EXCEPT ![visit[r].by] = @ + 1]
           /\ visit[r].pc = "new_kit" /\ visit'[r].pc # "new_kit" /\ kits \in [Users -> Nat]
  <2>1. ASSUME NEW u \in Users \ twice
        PROVE  /\ kits'[u] <= 1 /\ \A s \in VisitsOf(u)' : visit'[s].pc = "new_kit" => kits'[u] = 0
               /\ signup[u] \in {"none", "kit"} => kits'[u] = 0 /\ VisitsOf(u)' = {}
    <3>1. CASE visit[r].by = u
      <4>1. r \in VisitsOf(u) /\ kits[u] = 0
        BY <1>4, <3>1 DEF KitSafe, VisitsOf, VisitAt
      <4>2. kits'[u] = 1
        BY <1>4, <3>1, <4>1
      <4>3. \A s \in VisitsOf(u)' : s = r
        BY <1>1, <4>1 DEF KitSafe
      <4>4. signup[u] \notin {"none", "kit"}
        BY <4>1 DEF KitSafe
      <4>5. QED BY <1>4, <4>2, <4>3, <4>4
    <3>2. CASE visit[r].by # u
      <4>1. kits'[u] = kits[u] /\ kits[u] <= 1
        BY <1>4, <3>2 DEF KitSafe, KitGivenOnce
      <4>2. \A s \in VisitsOf(u)' : visit'[s].pc = "new_kit" => visit[s].pc = "new_kit" /\ s \in VisitsOf(u)
        BY <1>1, <1>4 DEF VisitsOf
      <4>3. QED BY <1>1, <4>1, <4>2 DEF KitSafe, VisitAt
    <3>3. QED BY <3>1, <3>2
  <2>2. QED BY <1>2, <2>1 DEF KitSafe, KitGivenOnce, VisitAt
<1>5. QED BY <1>3, <1>4

LEMMA KitStep ==
    ASSUME ProfileOK, visit \in [Slots -> GoodVisit], alive \subseteq Users, alive \subseteq Known,
           KitSafe, signup' = signup, NEW r \in Slots, ProfileStep(r)
    PROVE  KitSafe'
<1>0. visit[r] \in Visit /\ kits \in [Users -> Nat]
  BY DEF GoodVisit, ProfileOK
<1>1. CASE ProfileBegin(r) \/ InventoryBegin(r)
  <2>1. PICK u \in alive, b \in BOOLEAN : VisitBegin(r, u, b)
    BY <1>1 DEF ProfileBegin, InventoryBegin
  <2> DEFINE q == [NoVisit EXCEPT !.pc = IF b THEN "scores" ELSE "kit", !.by = u,
                                  !.page = b, !.before = counted[u]]
  <2>2. q.pc \in {"scores", "kit"} /\ q.by = u
    BY DEF NoVisit
  <2>3. VisitStep(r, q) /\ visit[r].pc = "idle" /\ kits' = kits
        /\ twice' = (IF VisitsOf(u) = {} /\ signup[u] # "kit" THEN twice ELSE twice \cup {u})
        /\ signup[u] # "none"
    BY <2>1 DEF VisitBegin, VisitAt, Known
  <2> HIDE DEF q
  <2>4. visit'[r] = q /\ \A s \in Slots \ {r} : visit'[s] = visit[s]
    BY <2>3, VisitMoves
  <2>5. /\ \A v \in Users \ {u} : VisitsOf(v)' \subseteq VisitsOf(v)
        /\ VisitsOf(u)' \subseteq VisitsOf(u) \cup {r}
        /\ \A s \in Slots : visit'[s].pc = "new_kit" => visit[s].pc = "new_kit" /\ visit'[s].by = visit[s].by
    BY <2>2, <2>4 DEF VisitsOf, VisitAt
  <2>6. \A v \in Users \ twice' : /\ v \notin twice /\ \A s, t \in VisitsOf(v)' : s = t
    BY <2>3, <2>5 DEF KitSafe
  <2>7. \A v \in Users \ twice' : \A s \in VisitsOf(v)' : visit'[s].pc = "new_kit" => kits[v] = 0
    BY <2>5, <2>6 DEF KitSafe, VisitsOf, VisitAt
  <2>8. \A v \in Users \ twice' : signup[v] \in {"none", "kit"} => kits[v] = 0 /\ VisitsOf(v)' = {}
    <3>1. u \notin twice' => signup[u] \notin {"none", "kit"}
      BY <2>3
    <3>2. QED BY <2>5, <2>6, <3>1 DEF KitSafe
  <2>9. QED BY <2>3, <2>6, <2>7, <2>8 DEF KitSafe, KitGivenOnce, VisitAt
<1>2. CASE FindKit(r) \/ NewKit(r)
  <2>0. /\ visit[r].pc \in {"kit", "new_kit"} /\ twice' = twice
        /\ NewKit(r) => kits' = [kits EXCEPT ![visit[r].by] = @ + 1] /\ visit[r].pc = "new_kit"
        /\ FindKit(r) => kits' = kits
    BY <1>2 DEF FindKit, NewKit, VisitAt
  <2>1. CASE VisitGoto(r, "wallet")
    <3>1. /\ \A s \in Slots \ {r} : visit'[s] = visit[s]
          /\ visit'[r].pc = "wallet" /\ visit'[r].by = visit[r].by
      BY <2>1, VisitWent
    <3>2. QED BY <1>0, <1>2, <2>0, <3>1, KitKept
  <2>2. CASE VisitEnd(r)
    <3>1. visit'[r].pc = "idle" /\ \A s \in Slots \ {r} : visit'[s] = visit[s]
      BY <2>2, VisitGone
    <3>2. QED BY <1>0, <1>2, <2>0, <3>1, KitKept
  <2>3. CASE FindKit(r) /\ VisitGoto(r, "new_kit") /\ ~(kits[visit[r].by] > 0)
    <3>1. visit[r].by \in Users
      BY <2>0 DEF GoodVisit
    <3>2. kits[visit[r].by] = 0
      BY <1>0, <2>3, <3>1
    <3>3. /\ \A s \in Slots \ {r} : visit'[s] = visit[s]
          /\ visit'[r].by = visit[r].by
      BY <2>3, VisitWent
    <3>4. QED BY <2>0, <2>3, <3>2, <3>3, KitKept
  <2>4. QED BY <1>2, <2>1, <2>2, <2>3 DEF FindKit, NewKit, AfterKit
<1>3. CASE ReadScores(r) \/ ReadWallet(r) \/ NewWallet(r) \/ ReadRow(r)
  <2>0. visit[r].pc # "idle" /\ kits' = kits /\ twice' = twice
    BY <1>3 DEF ReadScores, ReadWallet, NewWallet, ReadRow, VisitAt
  <2>2. ASSUME NEW q, VisitStep(r, q), q.pc # "new_kit", q.by = visit[r].by PROVE KitSafe'
    BY <2>0, <2>2, VisitMoves, KitKept
  <2>3. \/ \E w : VisitStep(r, [visit[r] EXCEPT !.pc = "kit", !.wins = w])
        \/ \E c : VisitStep(r, [visit[r] EXCEPT !.pc = "row", !.coins = c])
        \/ \E k : VisitStep(r, [visit[r] EXCEPT !.pc = "page", !.rank = k])
        \/ \E l \in {"new_wallet", "page"} : VisitStep(r, [visit[r] EXCEPT !.pc = l])
    BY <1>3 DEF ReadScores, ReadWallet, NewWallet, ReadRow, VisitGoto
  <2>4. ASSUME NEW w, VisitStep(r, [visit[r] EXCEPT !.pc = "kit", !.wins = w]) PROVE KitSafe'
    <3> DEFINE q == [visit[r] EXCEPT !.pc = "kit", !.wins = w]
    <3>1. q.pc = "kit" /\ q.by = visit[r].by
      BY <1>0 DEF Visit
    <3>2. VisitStep(r, q)
      BY <2>4
    <3> HIDE DEF q
    <3>3. QED BY <2>2, <3>1, <3>2
  <2>5. ASSUME NEW c, VisitStep(r, [visit[r] EXCEPT !.pc = "row", !.coins = c]) PROVE KitSafe'
    <3> DEFINE q == [visit[r] EXCEPT !.pc = "row", !.coins = c]
    <3>1. q.pc = "row" /\ q.by = visit[r].by
      BY <1>0 DEF Visit
    <3>2. VisitStep(r, q)
      BY <2>5
    <3> HIDE DEF q
    <3>3. QED BY <2>2, <3>1, <3>2
  <2>6. ASSUME NEW k, VisitStep(r, [visit[r] EXCEPT !.pc = "page", !.rank = k]) PROVE KitSafe'
    <3> DEFINE q == [visit[r] EXCEPT !.pc = "page", !.rank = k]
    <3>1. q.pc = "page" /\ q.by = visit[r].by
      BY <1>0 DEF Visit
    <3>2. VisitStep(r, q)
      BY <2>6
    <3> HIDE DEF q
    <3>3. QED BY <2>2, <3>1, <3>2
  <2>7. ASSUME NEW l \in {"new_wallet", "page"}, VisitStep(r, [visit[r] EXCEPT !.pc = l]) PROVE KitSafe'
    <3> DEFINE q == [visit[r] EXCEPT !.pc = l]
    <3>1. q.pc = l /\ q.by = visit[r].by
      BY <1>0 DEF Visit
    <3>2. VisitStep(r, q)
      BY <2>7
    <3> HIDE DEF q
    <3>3. QED BY <2>2, <3>1, <3>2
  <2>8. QED BY <2>3, <2>4, <2>5, <2>6, <2>7
<1>4. CASE Show(r) \/ KillVisit(r)
  <2>1. VisitEnd(r) /\ kits' = kits /\ twice' = twice
    BY <1>4 DEF Show, KillVisit
  <2>2. QED BY <2>1, VisitGone, KitKept
<1>5. QED BY <1>1, <1>2, <1>3, <1>4 DEF ProfileStep

LEMMA KitSignup ==
    ASSUME RequestsOK, ProfileOK, KitSafe, SignupTurn
    PROVE  KitSafe'
<1>0. kits \in [Users -> Nat]
  BY DEF ProfileOK
<1>1. PICK u \in Users :
        /\ \A v \in Users \ {u} : signup'[v] = signup[v]
        /\ \/ kits' = kits /\ (signup'[u] \in {"none", "kit"} => signup[u] = "none")
           \/ kits' = [kits EXCEPT ![u] = @ + 1] /\ signup[u] = "kit" /\ signup'[u] = "wallet"
  BY SignupStep DEF CreateUser, GiveKit, GiveWallet, Greet, KillSignup
<1>2. twice' = twice /\ visit' = visit /\ \A v : VisitsOf(v)' = VisitsOf(v)
  BY DEF SignupTurn, SignupNext, CreateUser, GiveKit, GiveWallet, Greet, KillSignup, VisitsOf, VisitAt
<1>3. ASSUME NEW v \in Users \ twice
      PROVE  /\ kits'[v] <= 1
             /\ \A r \in VisitsOf(v) : VisitAt(r, "new_kit") => kits'[v] = 0
             /\ signup'[v] \in {"none", "kit"} => kits'[v] = 0 /\ VisitsOf(v) = {}
  <2>1. /\ kits[v] <= 1 /\ \A r \in VisitsOf(v) : VisitAt(r, "new_kit") => kits[v] = 0
        /\ signup[v] \in {"none", "kit"} => kits[v] = 0 /\ VisitsOf(v) = {}
    BY DEF KitSafe, KitGivenOnce
  <2>2. QED BY <1>0, <1>1, <2>1
<1>4. QED BY <1>2, <1>3 DEF KitSafe, KitGivenOnce, VisitAt

\* A user who never has two of these requests in flight, nor one before the
\* sign-up has stored the inventory, is given the default power-ups once, also
\* when a request or the sign-up dies half-way (_ensure_inventory, add_user).
THEOREM PowerUpsOnce == Spec => []KitGivenOnce
<1>1. Init => Typed /\ KitSafe
  <2> SUFFICES ASSUME Init PROVE KitSafe
    BY TypedInit
  <2>1. \A u : VisitsOf(u) = {}
    BY DEF Init, ProfileInit, VisitsOf, VisitAt, NoVisit
  <2>2. \A u \in Users : kits[u] \in {0, 1} /\ (signup[u] \in {"none", "kit"} => kits[u] = 0)
    BY UsersFinite, RequestsAssumption, FS_CardinalityType DEF Init, ProfileInit, RequestsInit
  <2>3. QED BY <2>1, <2>2 DEF KitSafe, KitGivenOnce
<1>2. Typed /\ KitSafe /\ [Next]_vars => (Typed /\ KitSafe)'
  <2> SUFFICES ASSUME Typed, KitSafe, [Next]_vars PROVE KitSafe'
    BY TypedStep
  <2>1. CASE ProfileTurn
    BY <2>1, KitStep DEF ProfileTurn, ProfileNext, Typed, TypeOK, InFlight, RequestsOK
  <2>2. CASE UNCHANGED profileVars /\ signup' = signup
    BY <2>2 DEF KitSafe, KitGivenOnce, VisitsOf, VisitAt
  <2>3. CASE SignupTurn
    BY <2>3, KitSignup DEF Typed, TypeOK
  <2>4. QED
    BY <2>1, <2>2, <2>3, AccountsStep
    DEF Next, RewardsTurn, RankingTurn, SocialTurn, MediaTurn, LearnTurn, RemoveTurn
<1>3. KitSafe => KitGivenOnce
  BY DEF KitSafe
<1>4. QED BY <1>1, <1>2, <1>3, PTL DEF Spec

(***************************************************************************)
(* Paid in full.  The wallet a user had when the sign-up was done has the  *)
(* smallest id of the user's, so every request finds that one; and while a *)
(* user has one request at a time, it lacks exactly what that request      *)
(* still owes.                                                             *)
(***************************************************************************)
Owing(r)  == claim[r].pc \in {"find", "credit"}
Kit(w)    == w.user \in kitted /\ \A x \in wallets : x.user = w.user => w.id <= x.id

OneAtATime == \A u \in Users \ tangled : \A r, s \in ClaimsOf(u) : r = s
Balanced   ==
    \A w \in wallets : Kit(w) /\ w.user \notin tangled =>
        /\ (\A r \in ClaimsOf(w.user) : ~Owing(r)) => w.balance = OnRecord(w.user)
        /\ \A r \in ClaimsOf(w.user) : Owing(r) => w.balance + Reward[claim[r].kind] = OnRecord(w.user)
        /\ \A r \in ClaimsOf(w.user) : ClaimAt(r, "credit") =>
              claim[r].wallet = w.id /\ claim[r].num = w.balance
OpeningFirst == \A r \in Slots : ClaimAt(r, "open") => claim[r].by \notin kitted
NeverBelow   == /\ \A w \in wallets : Opening <= w.balance
                /\ \A r \in Slots : ClaimAt(r, "credit") => Opening <= claim[r].num

FullSafe == OneAtATime /\ Balanced /\ OpeningFirst /\ NeverBelow

LEMMA FullSafeInit == Init => FullSafe
<1> SUFFICES ASSUME Init PROVE FullSafe
  OBVIOUS
<1> USE DEF Init, RewardsInit
<1>1. \A u : ClaimsOf(u) = {}
  BY DEF ClaimsOf, ClaimAt, NoClaim
<1>2. alive \subseteq Users
  BY RequestsAssumption, FS_CardinalityType DEF RequestsInit
<1>3. \A w \in wallets : w.user \in Users /\ w.balance = Opening
  BY <1>2
<1>4. \A u \in Users : OnRecord(u) = Opening
  BY DEF OnRecord, Opening, Reward
<1>5. OneAtATime /\ Balanced
  BY <1>1, <1>3, <1>4 DEF OneAtATime, Balanced
<1>6. Opening \in Nat /\ OpeningFirst /\ \A r \in Slots : ~ClaimAt(r, "credit")
  BY DEF Opening, OpeningFirst, ClaimAt, NoClaim
<1>7. QED BY <1>3, <1>5, <1>6 DEF FullSafe, NeverBelow

\* A request that owes nothing, before and after.
LEMMA FullKept ==
    ASSUME FullSafe, NEW r \in Slots, \A s \in Slots \ {r} : claim'[s] = claim[s],
           UNCHANGED <<wallets, wins, solved, kitted>>, tangled \subseteq tangled',
           \/ claim'[r].pc = "idle"
           \/ claim[r].pc # "idle" /\ claim'[r].by = claim[r].by,
           claim'[r].pc # "credit", claim'[r].pc = "open" => claim'[r].by \notin kitted,
           \/ claim[r].by \in tangled'
           \/ WalletsOf(claim[r].by) = {}
           \/ ~Owing(r) /\ claim'[r].pc \notin {"find", "credit"}
    PROVE  FullSafe'
<1>1. \A u : ClaimsOf(u)' \subseteq ClaimsOf(u)
  BY DEF ClaimsOf, ClaimAt
<1>2. OneAtATime'
  BY <1>1 DEF FullSafe, OneAtATime
<1>3. \A w : Kit(w)' <=> Kit(w)
  BY DEF Kit
<1>4. OpeningFirst' /\ NeverBelow'
  BY DEF FullSafe, OpeningFirst, NeverBelow, ClaimAt
<1>6. Balanced'
  <2> SUFFICES ASSUME NEW w \in wallets, Kit(w), w.user \notin tangled'
      PROVE  /\ (\A s \in ClaimsOf(w.user)' : ~Owing(s)') => w.balance = OnRecord(w.user)
             /\ \A s \in ClaimsOf(w.user)' : Owing(s)' => w.balance + Reward[claim'[s].kind] = OnRecord(w.user)
             /\ \A s \in ClaimsOf(w.user)' : claim'[s].pc = "credit" =>
                   claim'[s].wallet = w.id /\ claim'[s].num = w.balance
    BY <1>3 DEF Balanced, OnRecord, ClaimAt
  <2>1. /\ (\A s \in ClaimsOf(w.user) : ~Owing(s)) => w.balance = OnRecord(w.user)
        /\ \A s \in ClaimsOf(w.user) : Owing(s) => w.balance + Reward[claim[s].kind] = OnRecord(w.user)
        /\ \A s \in ClaimsOf(w.user) : ClaimAt(s, "credit") =>
              claim[s].wallet = w.id /\ claim[s].num = w.balance
    BY DEF FullSafe, Balanced
  <2>2. CASE claim[r].by # w.user
    <3>1. ClaimsOf(w.user)' = ClaimsOf(w.user) /\ r \notin ClaimsOf(w.user)
      BY <2>2 DEF ClaimsOf, ClaimAt
    <3>2. ClaimsOf(w.user) \subseteq Slots
      BY DEF ClaimsOf
    <3>3. \A s \in ClaimsOf(w.user) : claim'[s] = claim[s]
      BY <3>1, <3>2
    <3>4. QED BY <2>1, <3>1, <3>3 DEF Owing, ClaimAt
  <2>3. CASE claim[r].by = w.user
    <3>1. ~Owing(r) /\ claim'[r].pc \notin {"find", "credit"}
      BY <2>3 DEF WalletsOf
    <3>2. ClaimsOf(w.user)' \subseteq ClaimsOf(w.user) /\ ClaimsOf(w.user) \subseteq ClaimsOf(w.user)' \cup {r}
      BY DEF ClaimsOf, ClaimAt
    <3>3. ClaimsOf(w.user) \subseteq Slots
      BY DEF ClaimsOf
    <3>4. \A s \in ClaimsOf(w.user) : s # r => claim'[s] = claim[s]
      BY <3>3
    <3>5. QED BY <2>1, <3>1, <3>2, <3>4 DEF Owing, ClaimAt
  <2>4. QED BY <2>2, <2>3
<1>7. QED BY <1>2, <1>4, <1>6 DEF FullSafe

\* A request that begins.
LEMMA FullBegins ==
    ASSUME FullSafe, claim \in [Slots -> GoodClaim], NEW r \in Slots, NEW k, NEW u \in Users,
           NEW l \in {"seed", "record", "record_late", "open"},
           ClaimBegin(r, k, u, l), UNCHANGED <<wallets, wins, solved, kitted>>, l = "open" => u \notin kitted
    PROVE  FullSafe'
<1>1. /\ claim[r].pc = "idle" /\ \A s \in Slots \ {r} : claim'[s] = claim[s]
      /\ claim'[r].pc = l /\ claim'[r].by = u
  BY ClaimBegun
<1>2. tangled' = IF ClaimsOf(u) = {} THEN tangled ELSE tangled \cup {u}
  BY DEF ClaimBegin
<1>3. /\ \A v \in Users \ {u} : ClaimsOf(v)' = ClaimsOf(v)
      /\ ClaimsOf(u)' = ClaimsOf(u) \cup {r}
      /\ \A v : ClaimsOf(v) \subseteq Slots \ {r}
  BY <1>1 DEF ClaimsOf, ClaimAt
<1>4. OneAtATime'
  BY <1>2, <1>3 DEF FullSafe, OneAtATime
<1>5. OpeningFirst' /\ NeverBelow' /\ (\A w : Kit(w)' <=> Kit(w))
  BY <1>1 DEF FullSafe, OpeningFirst, NeverBelow, Kit, ClaimAt
<1>6. Balanced'
  <2> SUFFICES ASSUME NEW w \in wallets, Kit(w), w.user \notin tangled'
      PROVE  /\ (\A s \in ClaimsOf(w.user)' : ~Owing(s)') => w.balance = OnRecord(w.user)
             /\ \A s \in ClaimsOf(w.user)' : Owing(s)' => w.balance + Reward[claim'[s].kind] = OnRecord(w.user)
             /\ \A s \in ClaimsOf(w.user)' : claim'[s].pc = "credit" =>
                   claim'[s].wallet = w.id /\ claim'[s].num = w.balance
    BY <1>5 DEF Balanced, OnRecord, ClaimAt
  <2>1. /\ (\A s \in ClaimsOf(w.user) : ~Owing(s)) => w.balance = OnRecord(w.user)
        /\ \A s \in ClaimsOf(w.user) : Owing(s) => w.balance + Reward[claim[s].kind] = OnRecord(w.user)
        /\ \A s \in ClaimsOf(w.user) : ClaimAt(s, "credit") =>
              claim[s].wallet = w.id /\ claim[s].num = w.balance
    BY <1>2 DEF FullSafe, Balanced
  <2>2. /\ ClaimsOf(w.user)' \subseteq ClaimsOf(w.user) \cup {r} /\ ClaimsOf(w.user) \subseteq ClaimsOf(w.user)'
        /\ \A s \in ClaimsOf(w.user) : claim'[s] = claim[s]
    <3>1. /\ ClaimsOf(w.user)' \subseteq ClaimsOf(w.user) \cup {r}
          /\ ClaimsOf(w.user) \subseteq ClaimsOf(w.user)' /\ ClaimsOf(w.user) \subseteq Slots \ {r}
      BY <1>1 DEF ClaimsOf, ClaimAt
    <3>2. QED BY <1>1, <3>1
  <2>3. claim'[r].pc \notin {"find", "credit"}
    BY <1>1
  <2>4. QED BY <2>1, <2>2, <2>3 DEF Owing, ClaimAt
<1>7. QED BY <1>4, <1>5, <1>6 DEF FullSafe

\* A wallet that is not the sign-up's.
LEMMA FullOpens ==
    ASSUME RewardsOK, PaySafe, FullSafe, NEW v \in Users,
           wallets' = wallets \cup {[id |-> nextWallet, user |-> v, balance |-> Opening]},
           UNCHANGED <<wins, solved, tangled, kitted>>,
           \A s \in Slots :
              \/ claim'[s] = claim[s]
              \/ /\ ClaimAt(s, "open") /\ claim[s].by = v
                 /\ claim'[s].pc = "idle" \/ (claim'[s].pc = "credit" /\ claim'[s].by = v /\ claim'[s].num = Opening)
    PROVE  FullSafe'
<1> DEFINE new == [id |-> nextWallet, user |-> v, balance |-> Opening]
<1>1. new.id = nextWallet /\ new.user = v /\ new.balance = Opening /\ wallets' = wallets \cup {new}
  OBVIOUS
<1> HIDE DEF new
<1>2. nextWallet \in Nat /\ Opening \in Nat /\ \A w \in wallets : w.id \in Nat /\ w.id < nextWallet
  BY DEF RewardsOK, Wallet, PaySafe, OwnWallets, Opening
<1>3. \A w \in wallets' : Kit(w)' => w \in wallets /\ Kit(w)
  <2>1. ASSUME NEW n \in wallets', n = new, Kit(n)' PROVE FALSE
    <3>1. v \in kitted
      BY <1>1, <2>1 DEF Kit
    <3>2. PICK w \in wallets : w.user = v
      BY <3>1 DEF PaySafe, OwnWallets, WalletsOf
    <3>3. n.id <= w.id
      BY <1>1, <2>1, <3>2 DEF Kit
    <3>4. QED BY <1>1, <1>2, <2>1, <3>2, <3>3
  <2>2. \A w \in wallets : Kit(w)' => Kit(w)
    BY <1>1 DEF Kit
  <2>3. QED BY <1>1, <2>1, <2>2
<1>4. \A u : ClaimsOf(u)' \subseteq ClaimsOf(u)
  BY DEF ClaimsOf, ClaimAt
<1>5. OneAtATime'
  BY <1>4 DEF FullSafe, OneAtATime
<1>6. OpeningFirst' /\ NeverBelow'
  <2>1. \A s \in Slots : claim'[s].pc = "open" => claim'[s] = claim[s]
    OBVIOUS
  <2>2. \A s \in Slots : claim'[s].pc = "credit" => claim'[s] = claim[s] \/ claim'[s].num = Opening
    OBVIOUS
  <2>3. OpeningFirst'
    BY <2>1 DEF FullSafe, OpeningFirst, ClaimAt
  <2>4. Opening <= Opening
    BY <1>2
  <2>5. QED BY <1>1, <2>2, <2>3, <2>4 DEF FullSafe, NeverBelow, ClaimAt
<1>7. Balanced'
  <2> SUFFICES ASSUME NEW w \in wallets, Kit(w), w.user \notin tangled
      PROVE  /\ (\A s \in ClaimsOf(w.user)' : ~Owing(s)') => w.balance = OnRecord(w.user)
             /\ \A s \in ClaimsOf(w.user)' : Owing(s)' => w.balance + Reward[claim'[s].kind] = OnRecord(w.user)
             /\ \A s \in ClaimsOf(w.user)' : claim'[s].pc = "credit" =>
                   claim'[s].wallet = w.id /\ claim'[s].num = w.balance
    BY <1>3 DEF Balanced, OnRecord, ClaimAt
  <2>1. /\ (\A s \in ClaimsOf(w.user) : ~Owing(s)) => w.balance = OnRecord(w.user)
        /\ \A s \in ClaimsOf(w.user) : Owing(s) => w.balance + Reward[claim[s].kind] = OnRecord(w.user)
        /\ \A s \in ClaimsOf(w.user) : ClaimAt(s, "credit") =>
              claim[s].wallet = w.id /\ claim[s].num = w.balance
    BY DEF FullSafe, Balanced
  <2>2. w.user \in kitted
    BY DEF Kit
  <2>3. \A s \in Slots : claim'[s] = claim[s] \/ (claim[s].by # w.user /\ (claim'[s].pc = "idle" \/ claim'[s].by # w.user))
    BY <2>2 DEF FullSafe, OpeningFirst
  <2>4. ClaimsOf(w.user)' = ClaimsOf(w.user) /\ \A s \in ClaimsOf(w.user) : claim'[s] = claim[s]
    BY <2>3 DEF ClaimsOf, ClaimAt
  <2>5. QED BY <2>1, <2>4 DEF Owing, ClaimAt
<1>8. QED BY <1>5, <1>6, <1>7 DEF FullSafe

\* The sign-up's own, of a user who has earned nothing yet: no wallet of this
\* user holds more or less than a new one.
LEMMA FullGives ==
    ASSUME RewardsOK, PaySafe, FullSafe, NEW v \in Users,
           wallets' = wallets \cup {[id |-> nextWallet, user |-> v, balance |-> Opening]},
           UNCHANGED <<wins, solved, tangled, claim>>,
           kitted' = kitted \cup {v}, ClaimsOf(v) = {}, solved[v] = 0, wins[v] = 0
    PROVE  FullSafe'
<1> DEFINE new == [id |-> nextWallet, user |-> v, balance |-> Opening]
<1>1. new.user = v /\ new.balance = Opening /\ wallets' = wallets \cup {new}
  OBVIOUS
<1> HIDE DEF new
<1>2. OnRecord(v) = Opening
  BY DEF OnRecord, Opening, Reward
<1>3. ASSUME NEW w \in wallets, w.user = v PROVE w.balance = Opening
  <2>1. w.balance \in Nat /\ Earned(v) \in Nat /\ Opening \in Nat
    BY PayNumbers DEF RewardsOK, Wallet, Opening
  <2>2. w.balance <= Earned(v)
    BY <1>3 DEF PaySafe, BalancesEarned
  <2>3. Earned(v) <= Opening
    BY <1>2, EarnedIsRecorded DEF OnRecord
  <2>4. Opening <= w.balance
    BY DEF FullSafe, NeverBelow
  <2>5. QED BY <2>1, <2>2, <2>3, <2>4
<1>4. \A u : ClaimsOf(u)' = ClaimsOf(u)
  BY DEF ClaimsOf, ClaimAt
<1>5. OneAtATime'
  BY <1>4 DEF FullSafe, OneAtATime
<1>6. OpeningFirst' /\ NeverBelow'
  <2>1. \A s \in Slots : ClaimAt(s, "open") => claim[s].by # v
    BY DEF ClaimsOf, ClaimAt
  <2>2. Opening <= Opening
    BY DEF Opening
  <2>3. QED BY <1>1, <2>1, <2>2 DEF FullSafe, OpeningFirst, NeverBelow, ClaimAt
<1>7. Balanced'
  <2> SUFFICES ASSUME NEW w \in wallets', Kit(w)', w.user \notin tangled
      PROVE  /\ (\A s \in ClaimsOf(w.user) : ~Owing(s)) => w.balance = OnRecord(w.user)
             /\ \A s \in ClaimsOf(w.user) : Owing(s) => w.balance + Reward[claim[s].kind] = OnRecord(w.user)
             /\ \A s \in ClaimsOf(w.user) : claim[s].pc = "credit" =>
                   claim[s].wallet = w.id /\ claim[s].num = w.balance
    BY <1>4 DEF Balanced, OnRecord, ClaimAt, Owing
  <2>1. CASE w.user = v
    <3>1. w.balance = Opening
      BY <1>1, <1>3, <2>1
    <3>2. QED BY <1>2, <2>1, <3>1
  <2>2. CASE w.user # v
    <3>1. w \in wallets /\ Kit(w)
      BY <1>1, <2>2 DEF Kit
    <3>2. QED BY <3>1 DEF FullSafe, Balanced, ClaimAt
  <2>3. QED BY <2>1, <2>2
<1>8. QED BY <1>5, <1>6, <1>7 DEF FullSafe

\* A request that moves on with what it owes: what is owed of the first wallet
\* changes with the record and the balance.
LEMMA FullMoves ==
    ASSUME FullSafe, NEW r \in Slots, claim[r].pc # "idle", tangled' = tangled, kitted' = kitted,
           \A s \in Slots \ {r} : claim'[s] = claim[s],
           claim'[r].pc # "idle" /\ claim'[r].pc # "open" /\ claim'[r].by = claim[r].by,
           NeverBelow',
           \A w \in wallets' : Kit(w)' /\ w.user # claim[r].by =>
              w \in wallets /\ Kit(w) /\ OnRecord(w.user)' = OnRecord(w.user),
           \A w \in wallets' : Kit(w)' /\ w.user = claim[r].by /\ w.user \notin tangled =>
              /\ claim'[r].pc \notin {"find", "credit"} => w.balance = OnRecord(w.user)'
              /\ claim'[r].pc \in {"find", "credit"} => w.balance + Reward[claim'[r].kind] = OnRecord(w.user)'
              /\ claim'[r].pc = "credit" => claim'[r].wallet = w.id /\ claim'[r].num = w.balance,
           wallets' \subseteq Wallet
    PROVE  FullSafe'
<1>1. \A u : ClaimsOf(u)' = ClaimsOf(u) /\ ClaimsOf(u) \subseteq Slots
  BY DEF ClaimsOf, ClaimAt
<1>2. OneAtATime'
  BY <1>1 DEF FullSafe, OneAtATime
<1>3. OpeningFirst'
  BY DEF FullSafe, OpeningFirst, ClaimAt
<1>4. Balanced'
  <2> SUFFICES ASSUME NEW w \in wallets', Kit(w)', w.user \notin tangled
      PROVE  /\ (\A s \in ClaimsOf(w.user) : ~Owing(s)') => w.balance = OnRecord(w.user)'
             /\ \A s \in ClaimsOf(w.user) : Owing(s)' => w.balance + Reward[claim'[s].kind] = OnRecord(w.user)'
             /\ \A s \in ClaimsOf(w.user) : claim'[s].pc = "credit" =>
                   claim'[s].wallet = w.id /\ claim'[s].num = w.balance
    BY <1>1 DEF Balanced, ClaimAt
  <2>1. CASE w.user = claim[r].by
    <3>1. w.user \in Users
      BY DEF Wallet
    <3>2. r \in ClaimsOf(w.user) /\ \A s \in ClaimsOf(w.user) : s = r
      BY <2>1, <3>1 DEF FullSafe, OneAtATime, ClaimsOf, ClaimAt
    <3>3. /\ claim'[r].pc \notin {"find", "credit"} => w.balance = OnRecord(w.user)'
          /\ claim'[r].pc \in {"find", "credit"} => w.balance + Reward[claim'[r].kind] = OnRecord(w.user)'
          /\ claim'[r].pc = "credit" => claim'[r].wallet = w.id /\ claim'[r].num = w.balance
      BY <2>1
    <3>4. Owing(r)' <=> claim'[r].pc \in {"find", "credit"}
      BY DEF Owing
    <3>5. QED BY <3>2, <3>3, <3>4
  <2>2. CASE w.user # claim[r].by
    <3>1. w \in wallets /\ Kit(w) /\ OnRecord(w.user)' = OnRecord(w.user)
      BY <2>2
    <3>2. \A s \in ClaimsOf(w.user) : claim'[s] = claim[s]
      BY <1>1, <2>2 DEF ClaimsOf
    <3>3. QED BY <3>1, <3>2 DEF FullSafe, Balanced, Owing, ClaimAt
  <2>3. QED BY <2>1, <2>2
<1>5. QED BY <1>2, <1>3, <1>4 DEF FullSafe

\* The lookup of a user returns the wallet with the smallest id.
LEMMA KitIsFirst ==
    ASSUME RewardsOK, PaySafe, NEW w \in wallets, Kit(w), NEW x \in First(WalletsOf(w.user))
    PROVE  x = w
<1>1. w \in WalletsOf(w.user) /\ x \in wallets /\ x.user = w.user /\ x.id \in Nat /\ w.id \in Nat
  BY DEF WalletsOf, First, RewardsOK, Wallet
<1>2. x.id <= w.id
  BY <1>1 DEF First
<1>3. w.id <= x.id
  BY <1>1 DEF Kit
<1>4. x.id = w.id
  BY <1>1, <1>2, <1>3
<1>5. QED BY <1>1, <1>4 DEF PaySafe, OwnWallets

LEMMA FullSafeStep ==
    ASSUME RewardsOK, RewardsOK', claim \in [Slots -> GoodClaim], alive \subseteq Users,
           PaySafe, FullSafe, NEW r \in Slots, RewardsStep(r)
    PROVE  FullSafe'
<1>0. /\ claim[r] \in Claim /\ (claim[r].pc # "idle" => claim[r].by \in Users)
      /\ \A s \in Slots : claim[s].pc = "open" => claim[s].by \in Users
      /\ wallets \subseteq Wallet /\ wallets' \subseteq Wallet
  BY DEF GoodClaim, RewardsOK
<1>1. CASE SeedBegin(r) \/ SolveBegin(r) \/ WinBegin(r) \/ LookBegin(r)
  <2>1. UNCHANGED <<wallets, wins, solved, kitted>>
    BY <1>1 DEF SeedBegin, SolveBegin, WinBegin, LookBegin
  <2>2. CASE SeedBegin(r)
    <3>1. PICK u \in alive : ClaimBegin(r, "seed", u, "seed")
      BY <2>2 DEF SeedBegin
    <3>2. QED BY <2>1, <3>1, FullBegins
  <2>3. CASE SolveBegin(r)
    <3>1. PICK u \in alive : ClaimBegin(r, "puzzle", u, "record")
      BY <2>3 DEF SolveBegin
    <3>2. QED BY <2>1, <3>1, FullBegins
  <2>4. CASE WinBegin(r)
    <3>1. PICK u \in Users, l \in {"record", "record_late"} : ClaimBegin(r, "win", u, l)
      BY <2>4 DEF WinBegin, Known
    <3>2. QED BY <2>1, <3>1, FullBegins
  <2>5. CASE LookBegin(r)
    <3>1. PICK u \in alive : WalletsOf(u) = {} /\ ClaimBegin(r, "look", u, "open")
      BY <2>5 DEF LookBegin
    <3>2. u \notin kitted
      BY <3>1 DEF PaySafe, OwnWallets
    <3>3. QED BY <2>1, <3>1, <3>2, FullBegins
  <2>6. QED BY <1>1, <2>2, <2>3, <2>4, <2>5
<1>2. CASE SeedPuzzles(r) \/ Enqueue(r) \/ KillClaim(r)
  <2>1. /\ ClaimEnd(r) /\ UNCHANGED <<wallets, solved, wins, kitted>>
        /\ \/ tangled' = tangled /\ claim[r].pc \in {"seed", "enqueue"}
           \/ tangled' = tangled \cup {claim[r].by}
    BY <1>2 DEF SeedPuzzles, Enqueue, KillClaim, ClaimAt
  <2>2. claim'[r].pc = "idle" /\ \A s \in Slots \ {r} : claim'[s] = claim[s]
    BY <2>1, ClaimGone
  <2>3. QED BY <2>1, <2>2, FullKept DEF Owing
<1>3. CASE Tell(r)
  <2>1. /\ UNCHANGED <<wallets, solved, wins, tangled, kitted>> /\ claim[r].pc = "tell"
        /\ ClaimGoto(r, "enqueue") \/ ClaimEnd(r)
    BY <1>3 DEF Tell, ClaimAt
  <2>2. /\ \A s \in Slots \ {r} : claim'[s] = claim[s]
        /\ claim'[r].pc = "idle" \/ (claim'[r].pc = "enqueue" /\ claim'[r].by = claim[r].by)
    BY <2>1, ClaimWent, ClaimGone
  <2>3. QED BY <2>1, <2>2, FullKept DEF Owing
<1>4. CASE Record(r)
  <2>1. /\ claim[r].pc \in {"record", "record_late"} /\ claim[r].by \in Users /\ claim[r].kind \in Paying
        /\ UNCHANGED <<wallets, tangled, kitted>>
    BY <1>4 DEF Record, ClaimAt, GoodClaim
  <2>2. /\ \A s \in Slots \ {r} : claim'[s] = claim[s]
        /\ claim'[r].pc = "find" /\ claim'[r].by = claim[r].by /\ claim'[r].kind = claim[r].kind
    BY <1>4, ClaimWent DEF Record
  <2>3. PICK u \in Users, k \in Paying : u = claim[r].by /\ k = claim[r].kind
    BY <2>1
  <2>4. \A v \in Users : v # u => OnRecord(v)' = OnRecord(v)
    BY <1>4, <2>3 DEF Record, OnRecord, RewardsOK
  <2>5. OnRecord(u)' = OnRecord(u) + Reward[k]
    <3>1. /\ wins \in [Users -> Nat] /\ solved \in [Users -> Nat]
          /\ k = "puzzle" \/ k = "win"
      BY DEF RewardsOK, Paying
    <3>2. IF k = "puzzle" THEN solved'[u] = solved[u] + 1 /\ wins'[u] = wins[u]
                          ELSE wins'[u] = wins[u] + 1 /\ solved'[u] = solved[u]
      BY <1>4, <2>3, <3>1 DEF Record
    <3>3. QED BY <3>1, <3>2 DEF OnRecord, Opening, Reward
  <2>6. ASSUME NEW w \in wallets, Kit(w), w.user = u, w.user \notin tangled
        PROVE  w.balance + Reward[k] = OnRecord(u)'
    <3>1. r \in ClaimsOf(u) /\ \A s \in ClaimsOf(u) : s = r
      BY <2>1, <2>3, <2>6 DEF FullSafe, OneAtATime, ClaimsOf, ClaimAt
    <3>2. w.balance = OnRecord(u)
      BY <2>1, <2>6, <3>1 DEF FullSafe, Balanced, Owing
    <3>3. QED BY <2>5, <3>2
  <2>7. NeverBelow' /\ \A w : Kit(w)' <=> Kit(w)
    BY <2>1, <2>2 DEF FullSafe, NeverBelow, Kit, ClaimAt
  <2>8. \A w \in wallets : w.user \in Users
    BY <1>0 DEF Wallet
  <2>9. \A w \in wallets' : Kit(w)' /\ w.user # claim[r].by =>
          w \in wallets /\ Kit(w) /\ OnRecord(w.user)' = OnRecord(w.user)
    BY <2>1, <2>3, <2>4, <2>7, <2>8
  <2>10. \A w \in wallets' : Kit(w)' /\ w.user = claim[r].by /\ w.user \notin tangled =>
          /\ claim'[r].pc \notin {"find", "credit"} => w.balance = OnRecord(w.user)'
          /\ claim'[r].pc \in {"find", "credit"} => w.balance + Reward[claim'[r].kind] = OnRecord(w.user)'
          /\ claim'[r].pc = "credit" => claim'[r].wallet = w.id /\ claim'[r].num = w.balance
    BY <2>1, <2>2, <2>3, <2>6, <2>7
  <2>11. QED BY <1>0, <2>1, <2>2, <2>7, <2>9, <2>10, FullMoves
<1>5. CASE FindWallet(r)
  <2>0. /\ claim[r].pc = "find" /\ claim[r].by \in Users
        /\ UNCHANGED <<coins, wins, tangled, kitted>>
    BY <1>5 DEF FindWallet, ClaimAt, GoodClaim
  <2>1. ASSUME NEW x \in First(WalletsOf(claim[r].by)),
               ClaimStep(r, [claim[r] EXCEPT !.pc = "credit", !.wallet = x.id, !.num = x.balance])
        PROVE  FullSafe'
    <3>1. LET q == [claim[r] EXCEPT !.pc = "credit", !.wallet = x.id, !.num = x.balance]
          IN  /\ q.pc = "credit" /\ q.by = claim[r].by /\ q.kind = claim[r].kind
              /\ q.wallet = x.id /\ q.num = x.balance
      BY <1>0 DEF Claim
    <3>2. /\ \A s \in Slots \ {r} : claim'[s] = claim[s]
          /\ claim'[r].pc = "credit" /\ claim'[r].by = claim[r].by /\ claim'[r].kind = claim[r].kind
          /\ claim'[r].wallet = x.id /\ claim'[r].num = x.balance
      BY <2>1, <3>1, ClaimMoves
    <3>3. \A u : OnRecord(u)' = OnRecord(u)
      BY <2>0 DEF OnRecord
    <3>4. ASSUME NEW w \in wallets, Kit(w), w.user = claim[r].by, w.user \notin tangled
          PROVE  w.balance + Reward[claim[r].kind] = OnRecord(w.user) /\ x = w
      <4>1. r \in ClaimsOf(w.user) /\ Owing(r)
        BY <2>0, <3>4 DEF ClaimsOf, ClaimAt, Owing
      <4>2. x = w
        BY <3>4, KitIsFirst
      <4>3. QED BY <3>4, <4>1, <4>2 DEF FullSafe, Balanced
    <3>5. \A w : Kit(w)' <=> Kit(w)
      BY <2>0 DEF Kit
    <3>8. NeverBelow'
      BY <2>0, <3>2 DEF FullSafe, NeverBelow, ClaimAt, First, WalletsOf
    <3>9. \A w \in wallets' : Kit(w)' /\ w.user # claim[r].by =>
            w \in wallets /\ Kit(w) /\ OnRecord(w.user)' = OnRecord(w.user)
      BY <2>0, <3>3, <3>5
    <3>6. \A w \in wallets' : Kit(w)' /\ w.user = claim[r].by /\ w.user \notin tangled =>
            /\ claim'[r].pc \notin {"find", "credit"} => w.balance = OnRecord(w.user)'
            /\ claim'[r].pc \in {"find", "credit"} => w.balance + Reward[claim'[r].kind] = OnRecord(w.user)'
            /\ claim'[r].pc = "credit" => claim'[r].wallet = w.id /\ claim'[r].num = w.balance
      BY <2>0, <3>2, <3>3, <3>4, <3>5
    <3>7. QED BY <1>0, <2>0, <3>2, <3>6, <3>8, <3>9, FullMoves
  <2>2. CASE WalletsOf(claim[r].by) = {} /\ ClaimGoto(r, IF claim[r].kind = "win" THEN "tell" ELSE "open")
    <3>1. /\ \A s \in Slots \ {r} : claim'[s] = claim[s]
          /\ claim'[r].by = claim[r].by
      BY <2>2, ClaimWent
    <3>2. claim'[r].by \notin kitted
      BY <2>2, <3>1 DEF PaySafe, OwnWallets
    <3>3. claim'[r].pc # "credit"
      BY <2>2, ClaimWent
    <3>4. QED BY <2>0, <2>2, <3>1, <3>2, <3>3, FullKept
  <2>3. QED BY <1>5, <2>1, <2>2 DEF FindWallet
<1>6. CASE OpenWallet(r)
  <2>1. /\ claim[r].pc = "open" /\ claim[r].by \in Users
        /\ wallets' = wallets \cup {[id |-> nextWallet, user |-> claim[r].by, balance |-> Opening]}
        /\ UNCHANGED <<wins, solved, tangled, kitted>>
    BY <1>6 DEF OpenWallet, ClaimAt, GoodClaim
  <2>2. CASE ClaimEnd(r)
    BY <2>1, <2>2, ClaimGone, FullOpens DEF ClaimAt
  <2>3. CASE ClaimStep(r, [claim[r] EXCEPT !.pc = "credit", !.wallet = nextWallet, !.num = Opening])
    <3>1. LET q == [claim[r] EXCEPT !.pc = "credit", !.wallet = nextWallet, !.num = Opening]
          IN  q.pc = "credit" /\ q.by = claim[r].by /\ q.num = Opening
      BY <1>0 DEF Claim
    <3>2. /\ \A s \in Slots \ {r} : claim'[s] = claim[s]
          /\ claim'[r].pc = "credit" /\ claim'[r].by = claim[r].by /\ claim'[r].num = Opening
      BY <2>3, <3>1, ClaimMoves
    <3>3. QED BY <2>1, <3>2, FullOpens DEF ClaimAt
  <2>4. QED BY <1>6, <2>2, <2>3 DEF OpenWallet
<1>7. CASE Credit(r)
  <2>1. /\ claim[r].pc = "credit" /\ claim[r].by \in Users /\ claim[r].kind \in Paying
        /\ claim[r].num \in Nat /\ UNCHANGED <<wins, solved, tangled, kitted>>
    BY <1>0, <1>7 DEF Credit, ClaimAt, GoodClaim, Claim
  <2>2. /\ \A s \in Slots \ {r} : claim'[s] = claim[s]
        /\ claim'[r].pc = "tell" /\ claim'[r].by = claim[r].by
    BY <1>7, ClaimWent DEF Credit
  <2>3. PICK b \in Nat : b = claim[r].num + Reward[claim[r].kind]
    BY <2>1 DEF Reward, Paying
  <2>4. wallets' = {IF w.id = claim[r].wallet THEN [w EXCEPT !.balance = b] ELSE w : w \in wallets}
    BY <1>7, <2>3 DEF Credit
  <2>5. /\ \A x \in wallets' : \E w \in wallets :
             /\ x.id = w.id /\ x.user = w.user
             /\ IF w.id = claim[r].wallet THEN x.balance = b ELSE x = w
        /\ \A w \in wallets : \E x \in wallets' : x.id = w.id /\ x.user = w.user
    <3>1. wallets \subseteq Wallet
      BY <1>0
    <3>2. QED BY <2>4, <3>1, Credited
  <2>6. \A u : OnRecord(u)' = OnRecord(u)
    BY <2>1 DEF OnRecord
  <2>7. \A x \in wallets', w \in wallets : x.id = w.id /\ x.user = w.user /\ Kit(x)' => Kit(w)
    <3> SUFFICES ASSUME NEW x \in wallets', NEW w \in wallets, x.id = w.id, x.user = w.user, Kit(x)',
                        NEW y \in wallets, y.user = w.user
                 PROVE  w.user \in kitted /\ w.id <= y.id
      BY <2>1 DEF Kit
    <3>1. PICK z \in wallets' : z.id = y.id /\ z.user = y.user
      BY <2>5
    <3>2. QED BY <2>1, <3>1 DEF Kit
  <2>b. NeverBelow'
    <3>1. Opening <= b
      <4>1. Opening <= claim[r].num
        BY <2>1 DEF FullSafe, NeverBelow, ClaimAt
      <4>2. QED BY <2>1, <2>3, <4>1 DEF Opening, Reward, Paying
    <3>2. \A x \in wallets' : Opening <= x.balance
      BY <2>5, <3>1 DEF FullSafe, NeverBelow
    <3>3. \A s \in Slots : claim'[s].pc = "credit" => claim'[s] = claim[s]
      BY <2>2
    <3>4. QED BY <3>2, <3>3 DEF FullSafe, NeverBelow, ClaimAt
  <2>8. ASSUME NEW x \in wallets', Kit(x)', x.user # claim[r].by PROVE x \in wallets /\ Kit(x)
    <3>1. PICK w \in wallets : /\ x.id = w.id /\ x.user = w.user
                               /\ IF w.id = claim[r].wallet THEN x.balance = b ELSE x = w
      BY <2>5
    <3>2. w.id # claim[r].wallet
      BY <2>1, <2>8, <3>1 DEF PaySafe, OwnWallets, ClaimAt
    <3>3. QED BY <2>7, <2>8, <3>1, <3>2
  <2>9. ASSUME NEW x \in wallets', Kit(x)', x.user = claim[r].by, x.user \notin tangled
        PROVE  x.balance = OnRecord(x.user)
    <3>1. PICK w \in wallets : /\ x.id = w.id /\ x.user = w.user
                               /\ IF w.id = claim[r].wallet THEN x.balance = b ELSE x = w
      BY <2>5
    <3>2. Kit(w) /\ w.user = claim[r].by /\ w.user \notin tangled /\ r \in ClaimsOf(w.user)
      BY <2>1, <2>7, <2>9, <3>1 DEF ClaimsOf, ClaimAt
    <3>3. claim[r].wallet = w.id /\ claim[r].num = w.balance
          /\ w.balance + Reward[claim[r].kind] = OnRecord(w.user)
      BY <2>1, <3>2 DEF FullSafe, Balanced, ClaimAt, Owing
    <3>4. QED BY <2>3, <3>1, <3>3
  <2>10. \A w \in wallets' : Kit(w)' /\ w.user # claim[r].by =>
          w \in wallets /\ Kit(w) /\ OnRecord(w.user)' = OnRecord(w.user)
    BY <2>6, <2>8
  <2>11. \A w \in wallets' : Kit(w)' /\ w.user = claim[r].by /\ w.user \notin tangled =>
          /\ claim'[r].pc \notin {"find", "credit"} => w.balance = OnRecord(w.user)'
          /\ claim'[r].pc \in {"find", "credit"} => w.balance + Reward[claim'[r].kind] = OnRecord(w.user)'
          /\ claim'[r].pc = "credit" => claim'[r].wallet = w.id /\ claim'[r].num = w.balance
    BY <2>2, <2>6, <2>9
  <2>12. QED BY <1>0, <2>1, <2>2, <2>b, <2>10, <2>11, FullMoves
<1>8. QED BY <1>1, <1>2, <1>3, <1>4, <1>5, <1>6, <1>7 DEF RewardsStep

LEMMA FullSafeNext == Typed /\ PaySafe /\ FullSafe /\ [Next]_vars => FullSafe'
<1> SUFFICES ASSUME Typed, PaySafe, FullSafe, [Next]_vars PROVE FullSafe'
  OBVIOUS
<1>0. RewardsOK /\ RewardsOK' /\ claim \in [Slots -> GoodClaim] /\ visit \in [Slots -> GoodVisit]
      /\ alive \subseteq Users
  BY TypedStep DEF Typed, TypeOK, InFlight, RequestsOK
<1>1. CASE RewardsTurn
  BY <1>0, <1>1, FullSafeStep DEF RewardsTurn, RewardsNext
<1>2. CASE ~RewardsTurn
  <2>1. /\ UNCHANGED <<solved, wins, claim, tangled>> /\ (~SignupTurn => kitted' = kitted)
        /\ \/ UNCHANGED <<wallets, nextWallet, kitted>>
           \/ ProfileTurn /\ \E r \in Slots : NewWallet(r)
           \/ SignupTurn /\ \E u \in Users : GiveWallet(u)
    BY <1>2, OthersPay, OthersOpen DEF Next
  <2>2. CASE UNCHANGED <<wallets, nextWallet, kitted>>
    BY <2>1, <2>2 DEF FullSafe, OneAtATime, Balanced, OpeningFirst, NeverBelow, ClaimsOf, ClaimAt, Owing, Kit, OnRecord
  <2>3. ASSUME NEW r \in Slots, NewWallet(r) PROVE FullSafe'
    <3>1. visit[r].by \in Users
      BY <1>0, <2>3 DEF NewWallet, VisitAt, GoodVisit
    <3>2. /\ wallets' = wallets \cup {[id |-> nextWallet, user |-> visit[r].by, balance |-> Opening]}
          /\ kitted' = kitted
      BY <2>3 DEF NewWallet
    <3>3. QED BY <1>0, <2>1, <3>1, <3>2, FullOpens
  <2>4. ASSUME NEW u \in Users, GiveWallet(u) PROVE FullSafe'
    <3>1. wallets' = wallets \cup {[id |-> nextWallet, user |-> u, balance |-> Opening]}
      BY <2>4 DEF GiveWallet
    <3>2. CASE ClaimsOf(u) = {} /\ solved[u] = 0 /\ wins[u] = 0
      <4>1. kitted' = kitted \cup {u}
        BY <2>4, <3>2 DEF GiveWallet
      <4>2. QED BY <1>0, <2>1, <3>1, <3>2, <4>1, FullGives
    <3>3. CASE ~(ClaimsOf(u) = {} /\ solved[u] = 0 /\ wins[u] = 0)
      <4>1. kitted' = kitted
        BY <2>4, <3>3 DEF GiveWallet
      <4>2. QED BY <1>0, <2>1, <3>1, <4>1, FullOpens
    <3>4. QED BY <3>2, <3>3
  <2>5. QED BY <2>1, <2>2, <2>3, <2>4
<1>3. QED BY <1>1, <1>2

\* A user whose sign-up stored the wallet, and whose requests never overlapped
\* or died, has every coin on record, in the wallet that a lookup returns
\* (attempt_puzzle, _ensure_wallet, _complete_game).
THEOREM OrderlyUsersArePaid == Spec => []PaidInFull
<1>1. Init => Typed /\ PaySafe /\ WinsFirst /\ FullSafe
  BY PayInit, FullSafeInit
<1>2. /\ Typed /\ PaySafe /\ WinsFirst /\ FullSafe /\ [Next]_vars
      => (Typed /\ PaySafe /\ WinsFirst /\ FullSafe)'
  BY TypedStep, PaySafeNext, FullSafeNext
<1>3. Typed /\ PaySafe /\ FullSafe => PaidInFull
  <2> SUFFICES ASSUME Typed, PaySafe, FullSafe, NEW u \in kitted \ tangled, ClaimsOf(u) = {},
                      NEW x \in First(WalletsOf(u))
               PROVE  x.balance = Opening + Reward.puzzle * solved[u] + Reward.win * wins[u]
    BY DEF PaidInFull
  <2>1. x \in wallets /\ x.user = u /\ Kit(x)
    BY DEF First, WalletsOf, Kit
  <2>2. x.balance = OnRecord(u)
    BY <2>1 DEF FullSafe, Balanced
  <2>3. QED BY <2>2 DEF OnRecord
<1>4. QED BY <1>1, <1>2, <1>3, PTL DEF Spec

-------------------------------------------------------------------------------
(***************************************************************************)
(* Leaderboards: rebuilds, pages and killed workers.                       *)
(***************************************************************************)
USE DEF vars, accounts, scoreVars, coins, scores, payHistory, rewardsVars, rankingVars, profileVars, socialVars, mediaVars, learningVars

(***************************************************************************)
(* The inductive invariant: what is stored, what is copied and what is in  *)
(* flight was read from scores, and scores only grow.                      *)
(***************************************************************************)
Covered(ws) == \A w \in ws : w.wins <= wins[w.user]

StatsWereTrue == \A r \in Slots, u \in Users : build[r].wins[u] <= wins[u]
ItemsWereTrue == \A r \in Slots : Covered(build[r].items)
BoardSafe     == StatsWereTrue /\ ItemsWereTrue /\ Covered(rows) /\ \A page \in copy : Covered(page)

LEMMA WinsGrow ==
    ASSUME Typed, [Next]_vars
    PROVE  wins' \in [Users -> Nat] /\ \A u \in Users : wins[u] <= wins'[u]
<1>1. wins' \in [Users -> Nat]
  BY TypedStep DEF Typed, TypeOK, RewardsOK
<1>2. QED BY <1>1, RecordsGrow

\* The boards of a state survive a step that lets the scores grow.
LEMMA CoveredGrows ==
    ASSUME wins \in [Users -> Nat], wins' \in [Users -> Nat], \A u \in Users : wins[u] <= wins'[u],
           NEW ws \in SUBSET Row, Covered(ws)
    PROVE  \A w \in ws : w.wins <= wins'[w.user]
BY DEF Covered, Row

LEMMA BoardKept ==
    ASSUME Typed, [Next]_vars, BoardSafe, build' = build, rows' = rows, copy' = copy
    PROVE  BoardSafe'
<1> USE DEF Typed, TypeOK, InFlight
<1>1. /\ wins \in [Users -> Nat] /\ wins' \in [Users -> Nat] /\ \A u \in Users : wins[u] <= wins'[u]
      /\ rows \subseteq Row /\ \A page \in copy : page \subseteq Row
      /\ \A r \in Slots : build[r].items \subseteq Row /\ build[r].wins \in [Users -> Nat]
  BY WinsGrow DEF RewardsOK, RankingOK, Build
<1>2. StatsWereTrue'
  BY <1>1 DEF BoardSafe, StatsWereTrue
<1>3. ItemsWereTrue'
  BY <1>1, CoveredGrows DEF BoardSafe, ItemsWereTrue, Covered
<1>4. Covered(rows)'
  BY <1>1, CoveredGrows DEF BoardSafe, Covered
<1>5. (\A page \in copy : Covered(page))'
  BY <1>1, CoveredGrows DEF BoardSafe, Covered
<1>6. QED BY <1>2, <1>3, <1>4, <1>5 DEF BoardSafe

(***************************************************************************)
(* A rebuild.                                                              *)
(***************************************************************************)
\* A slot that keeps what it has read, or forgets it.
LEMMA ReadsKept ==
    ASSUME build \in [Slots -> GoodBuild], BoardSafe, NEW r \in Slots, NEW q, BuildStep(r, q), wins' = wins,
           \A u \in Users : q.wins[u] <= wins[u], Covered(q.items)
    PROVE  StatsWereTrue' /\ ItemsWereTrue'
BY DEF BuildStep, BoardSafe, StatsWereTrue, ItemsWereTrue, Covered

LEMMA ReadsForgotten ==
    ASSUME wins \in [Users -> Nat], NEW q,
           q.wins = [u \in Users |-> 0], q.items = {}
    PROVE  (\A u \in Users : q.wins[u] <= wins[u]) /\ Covered(q.items)
BY DEF Covered

LEMMA BuildStepSafe ==
    ASSUME RankingOK, wins \in [Users -> Nat], wins' = wins, build \in [Slots -> GoodBuild],
           CountedOnRecord, BoardSafe, NEW r \in Slots, RankingStep(r)
    PROVE  BoardSafe'
<1>0. /\ build[r] \in GoodBuild /\ build[r] \in Build
      /\ \A u \in Users : build[r].wins[u] <= wins[u]
      /\ Covered(build[r].items) /\ Covered(rows) /\ \A page \in copy : Covered(page)
  BY DEF GoodBuild, BoardSafe, StatsWereTrue, ItemsWereTrue
<1>a. ASSUME NEW l \in {"idle", "users", "query", "seek", "page"}, BuildGoto(r, l)
      PROVE  StatsWereTrue' /\ ItemsWereTrue'
  <2>1. [build[r] EXCEPT !.pc = l].wins = build[r].wins /\ [build[r] EXCEPT !.pc = l].items = build[r].items
    BY <1>0 DEF Build
  <2>2. QED BY <1>0, <1>a, <2>1, ReadsKept DEF BuildGoto
<1>b. ASSUME BuildEnd(r) PROVE StatsWereTrue' /\ ItemsWereTrue'
  <2>1. NoBuild.wins = [u \in Users |-> 0] /\ NoBuild.items = {}
    BY DEF NoBuild
  <2>2. QED BY <1>b, <2>1, ReadsKept, ReadsForgotten DEF BuildEnd
<1>1. CASE TaskBegin(r) \/ MeBegin(r) \/ GlobalBegin(r)
  <2>a. /\ LET q == [NoBuild EXCEPT !.pc = "users"] IN q.wins = NoBuild.wins /\ q.items = {}
        /\ \A u : LET q == [NoBuild EXCEPT !.pc = "users", !.by = "me", !.only = {u}]
                  IN  q.wins = NoBuild.wins /\ q.items = {}
        /\ \A l : LET q == [NoBuild EXCEPT !.pc = l, !.by = "global"]
                  IN  q.wins = NoBuild.wins /\ q.items = {}
        /\ NoBuild.wins = [u \in Users |-> 0]
    BY DEF NoBuild
  <2>b. ASSUME TaskBegin(r) PROVE StatsWereTrue' /\ ItemsWereTrue'
    BY <2>a, <2>b, ReadsKept, ReadsForgotten DEF TaskBegin
  <2>c. ASSUME MeBegin(r) PROVE StatsWereTrue' /\ ItemsWereTrue'
    <3>1. PICK u : BuildStep(r, [NoBuild EXCEPT !.pc = "users", !.by = "me", !.only = {u}]) 
      BY <2>c DEF MeBegin
    <3>2. QED BY <2>a, <3>1, ReadsKept, ReadsForgotten
  <2>d. ASSUME GlobalBegin(r) PROVE StatsWereTrue' /\ ItemsWereTrue'
    <3>1. PICK l : BuildStep(r, [NoBuild EXCEPT !.pc = l, !.by = "global"])
      BY <2>d DEF GlobalBegin
    <3>2. QED BY <2>a, <3>1, ReadsKept, ReadsForgotten
  <2>2. StatsWereTrue' /\ ItemsWereTrue'
    BY <1>1, <2>b, <2>c, <2>d
  <2>3. QED BY <1>0, <1>1, <2>2 DEF TaskBegin, MeBegin, GlobalBegin, BoardSafe, Covered
<1>2. CASE QueryRows(r)
  <2> DEFINE q == [build[r] EXCEPT !.pc = "cache", !.items = rows]
  <2>1. q.wins = build[r].wins /\ q.items = rows /\ BuildStep(r, q)
    BY <1>0, <1>2 DEF QueryRows, Build
  <2> HIDE DEF q
  <2>2. StatsWereTrue' /\ ItemsWereTrue'
    BY <1>0, <2>1, ReadsKept
  <2>3. QED BY <1>0, <1>2, <2>2 DEF QueryRows, BoardSafe, Covered
<1>3. CASE CachePage(r)
  <2>1. StatsWereTrue' /\ ItemsWereTrue'
    BY <1>3, <1>a, <1>b DEF CachePage
  <2>2. QED BY <1>0, <1>3, <2>1 DEF CachePage, BoardSafe, Covered
<1>4. CASE PageAgain(r)
  <2>1. StatsWereTrue' /\ ItemsWereTrue'
    BY <1>4, <1>a, <1>b DEF PageAgain
  <2>2. QED BY <1>0, <1>4, <2>1 DEF PageAgain, BoardSafe, Covered
<1>5. CASE ReadUsers(r)
  <2>a. PICK ids : BuildStep(r, AfterStats([build[r] EXCEPT !.todo = ids, !.ranked = ids]))
    BY <1>5 DEF ReadUsers
  <2> DEFINE q == AfterStats([build[r] EXCEPT !.todo = ids, !.ranked = ids])
  <2>b. q.wins = build[r].wins /\ q.items = build[r].items
    BY <1>0 DEF AfterStats, Build
  <2>1. BuildStep(r, q) /\ q.wins = build[r].wins /\ q.items = build[r].items
    BY <2>a, <2>b
  <2> HIDE DEF q
  <2>2. StatsWereTrue' /\ ItemsWereTrue'
    BY <1>0, <2>1, ReadsKept
  <2>3. QED BY <1>0, <1>5, <2>2 DEF ReadUsers, BoardSafe, Covered
<1>6. CASE ReadStats(r)
  <2>1. PICK u \in build[r].todo :
          BuildStep(r, AfterStats([build[r] EXCEPT !.todo = @ \ {u}, !.wins[u] = counted[u]]))
    BY <1>6 DEF ReadStats
  <2> DEFINE q == AfterStats([build[r] EXCEPT !.todo = @ \ {u}, !.wins[u] = counted[u]])
  <2>2. q.wins = [build[r].wins EXCEPT ![u] = counted[u]] /\ q.items = build[r].items
    BY <1>0 DEF AfterStats, Build
  <2>3. BuildStep(r, q)
    BY <2>1
  <2> HIDE DEF q
  <2>4. u \in Users /\ build[r].wins \in [Users -> Nat]
    BY <1>0 DEF Build
  <2>5. \A v \in Users : q.wins[v] <= wins[v]
    BY <1>0, <2>2, <2>4 DEF CountedOnRecord
  <2>6. StatsWereTrue' /\ ItemsWereTrue'
    BY <1>0, <2>2, <2>3, <2>5, ReadsKept
  <2>7. QED BY <1>0, <1>6, <2>6 DEF ReadStats, BoardSafe, Covered
<1>7. CASE ClearRows(r)
  <2>1. StatsWereTrue' /\ ItemsWereTrue'
    BY <1>7, <1>a DEF ClearRows
  <2>2. QED BY <1>0, <1>7, <2>1 DEF ClearRows, BoardSafe, Covered
<1>8. CASE SeekRow(r)
  <2>1. CASE BuildEnd(r)
    BY <1>0, <1>8, <1>b, <2>1 DEF SeekRow, BoardSafe, Covered
  <2>2. CASE ~BuildEnd(r)
    <3>a. \/ \E b : BuildStep(r, [build[r] EXCEPT !.pc = "write", !.found = b])
          \/ BuildStep(r, [build[r] EXCEPT !.pc = "page", !.again = TRUE])
      BY <1>8, <2>2 DEF SeekRow
    <3>b. \A b : LET q == [build[r] EXCEPT !.pc = "write", !.found = b]
                 IN  q.wins = build[r].wins /\ q.items = build[r].items
      BY <1>0 DEF Build
    <3>c. LET q == [build[r] EXCEPT !.pc = "page", !.again = TRUE]
          IN  q.wins = build[r].wins /\ q.items = build[r].items
      BY <1>0 DEF Build
    <3>1. PICK q : BuildStep(r, q) /\ q.wins = build[r].wins /\ q.items = build[r].items
      BY <3>a, <3>b, <3>c
    <3>2. StatsWereTrue' /\ ItemsWereTrue'
      BY <1>0, <3>1, ReadsKept
    <3>3. QED BY <1>0, <1>8, <3>2 DEF SeekRow, BoardSafe, Covered
  <2>3. QED BY <2>1, <2>2
<1>9. CASE WriteRow(r)
  <2>1. PICK u \in Upcoming(build[r]) :
          /\ \/ rows' = {IF w \in First(RowsOf(u))
                         THEN [w EXCEPT !.wins = build[r].wins[u], !.rank = Rank(build[r], u)] ELSE w : w \in rows}
             \/ rows' = rows \cup {[id |-> nextRow, user |-> u, wins |-> build[r].wins[u],
                                    rank |-> Rank(build[r], u)]}
          /\ BuildStep(r, [build[r] EXCEPT !.pc = "seek", !.todo = @ \ {u}])
    BY <1>9 DEF WriteRow
  <2>2. u \in Users
    BY <1>0 DEF Upcoming, Build
  <2>3. build[r].wins[u] <= wins[u]
    BY <1>0, <2>2
  <2>4. \A w \in First(RowsOf(u)) : w.user = u /\ w \in Row
    BY DEF First, RowsOf, RankingOK
  <2>5. \A w \in rows' : w.wins <= wins[w.user]
    <3>1. CASE rows' = {IF w \in First(RowsOf(u))
                        THEN [w EXCEPT !.wins = build[r].wins[u], !.rank = Rank(build[r], u)] ELSE w : w \in rows}
      <4>1. \A w \in First(RowsOf(u)) :
              LET x == [w EXCEPT !.wins = build[r].wins[u], !.rank = Rank(build[r], u)]
              IN  x.wins = build[r].wins[u] /\ x.user = u
        BY <2>4 DEF Row
      <4>2. QED BY <1>0, <2>3, <3>1, <4>1 DEF Covered
    <3>2. CASE rows' = rows \cup {[id |-> nextRow, user |-> u, wins |-> build[r].wins[u],
                                   rank |-> Rank(build[r], u)]}
      BY <1>0, <2>3, <3>2 DEF Covered
    <3>3. QED BY <2>1, <3>1, <3>2
  <2> DEFINE q == [build[r] EXCEPT !.pc = "seek", !.todo = @ \ {u}]
  <2>6. q.wins = build[r].wins /\ q.items = build[r].items
    BY <1>0 DEF Build
  <2>7. BuildStep(r, q)
    BY <2>1
  <2> HIDE DEF q
  <2>8. StatsWereTrue' /\ ItemsWereTrue'
    BY <1>0, <2>6, <2>7, ReadsKept
  <2>9. QED BY <1>0, <1>9, <2>5, <2>8 DEF WriteRow, BoardSafe, Covered
<1>10. CASE KillBuild(r)
  <2>1. StatsWereTrue' /\ ItemsWereTrue'
    BY <1>10, <1>b DEF KillBuild
  <2>2. QED BY <1>0, <1>10, <2>1 DEF KillBuild, BoardSafe, Covered
<1>11. QED
  BY <1>1, <1>2, <1>3, <1>4, <1>5, <1>6, <1>7, <1>8, <1>9, <1>10 DEF RankingStep

(***************************************************************************)
(* All together.                                                           *)
(***************************************************************************)
LEMMA BoardSafeInit == Init => BoardSafe
BY DEF Init, RewardsInit, RankingInit, BoardSafe, StatsWereTrue, ItemsWereTrue, Covered, NoBuild

LEMMA BoardSafeNext == Typed /\ CountedOnRecord /\ BoardSafe /\ [Next]_vars => BoardSafe'
<1> SUFFICES ASSUME Typed, CountedOnRecord, BoardSafe, [Next]_vars PROVE BoardSafe'
  OBVIOUS
<1>0. RankingOK /\ wins \in [Users -> Nat] /\ build \in [Slots -> GoodBuild]
  BY DEF Typed, TypeOK, InFlight, RewardsOK
<1>1. ASSUME NEW r \in Slots, RankingStep(r) PROVE BoardSafe'
  <2>1. wins' = wins
    BY <1>1 DEF RankingStep, TaskBegin, MeBegin, GlobalBegin, QueryRows, CachePage, PageAgain,
       ReadUsers, ReadStats, ClearRows, SeekRow, WriteRow, KillBuild
  <2>2. QED BY <1>0, <1>1, <2>1, BuildStepSafe
<1>2. CASE ExpirePage
  BY <1>2 DEF ExpirePage, BoardSafe, StatsWereTrue, ItemsWereTrue, Covered
<1>3. CASE UNCHANGED <<build, rows, copy>>
  BY <1>3, BoardKept
<1>4. CASE RewardsTurn \/ SocialTurn \/ MediaTurn \/ LearnTurn \/ RemoveTurn \/ UNCHANGED vars
  BY <1>3, <1>4 DEF RewardsTurn, SocialTurn, MediaTurn, LearnTurn, RemoveTurn
<1>5. CASE ProfileTurn
  BY <1>3, <1>5 DEF ProfileTurn, ProfileNext, ProfileStep, ProfileBegin, InventoryBegin, VisitBegin,
     ReadScores, FindKit, NewKit, ReadWallet, NewWallet, ReadRow, Show, KillVisit
<1>6. CASE RankingTurn
  BY <1>1, <1>2, <1>6 DEF RankingTurn, RankingNext
<1>7. CASE SignupTurn
  BY <1>3, <1>7 DEF SignupTurn, SignupNext, CreateUser, GiveKit, GiveWallet, Greet, KillSignup
<1>8. QED BY <1>4, <1>5, <1>6, <1>7 DEF Next

\* Nobody is ever shown with wins that are not on record, in the table or in
\* the copy of the page, whatever rebuilds overlap, are killed or write late
\* (rebuild_leaderboard, list_global_leaderboard).
THEOREM BoardsNeverOverstate == Spec => []NeverOverstates
<1>1. Init => Typed /\ CountedOnRecord /\ BoardSafe
  BY TypedInit, CountedInit, BoardSafeInit
<1>2. Typed /\ CountedOnRecord /\ BoardSafe /\ [Next]_vars => (Typed /\ CountedOnRecord /\ BoardSafe)'
  BY TypedStep, RecordsGrow, BoardSafeNext
<1>3. BoardSafe => NeverOverstates
  BY DEF BoardSafe, Covered, NeverOverstates
<1>4. QED BY <1>1, <1>2, <1>3, PTL DEF Spec

-------------------------------------------------------------------------------
(***************************************************************************)
(* The exact board.  A rebuild that nothing disturbs has read every win    *)
(* that no other rebuild is still to be told of, and writes one row for    *)
(* each user it has found.                                                 *)
(***************************************************************************)
\* Some rebuild of everybody will still read the scores, or should.
Awaited == \/ jobs > 0 \/ ~reported
           \/ \E r \in Slots : claim[r].kind = "win"
           \/ \E r \in Slots : BuildAt(r, "users") /\ build[r].only = {}

OnTheWay       == {"record", "record_late", "find", "credit", "tell", "enqueue"}
WinsOnTheirWay ==
    \A r \in Slots : claim[r].kind = "win" => claim[r].pc \in OnTheWay

\* b has read the scores of the users in known, and misses none of those listed.
Informed(b, known) == listed \subseteq b.ranked /\ (~Awaited => \A u \in known : b.wins[u] = counted[u])

\* The rows are those of the users in done, as b ranks them.
Written(b, done) ==
    /\ \A w \in rows : w.user \in done /\ w.wins = b.wins[w.user] /\ w.rank = Rank(b, w.user)
    /\ \A u \in done : \E w \in rows : RowsOf(u) = {w}

Studied(b) == IF b.pc = "stats" THEN b.ranked \ b.todo ELSE b.ranked
OnCourse(b) ==
    /\ b.only = {} /\ Informed(b, Studied(b))
    /\ b.pc = "clear" => b.todo = b.ranked
    /\ b.pc \in {"seek", "write"} => Written(b, b.ranked \ b.todo)

Standing == [ranked : SUBSET Users, wins : [Users -> Nat]]
Final    == rows = {} \/ \E b \in Standing : Informed(b, b.ranked) /\ Written(b, b.ranked)

ExactInv ==
    /\ WinsOnTheirWay
    /\ alone => /\ \A r, s \in Slots : Rebuilding(r) /\ Rebuilding(s) => r = s
                /\ \A r \in Slots : Rebuilding(r) => OnCourse(build[r])
                /\ (\A r \in Slots : ~Rebuilding(r)) => Final

(***************************************************************************)
(* What is awaited stays so until a rebuild reads the accounts.            *)
(***************************************************************************)
LEMMA ClaimsAwaited ==
    ASSUME Typed, WinsOnTheirWay, NEW r \in Slots, RewardsStep(r)
    PROVE  /\ WinsOnTheirWay'
           /\ build' = build /\ Awaited => Awaited'
           /\ counted' = counted \/ \E s \in Slots : claim'[s].kind = "win"
<1>0. claim \in [Slots -> GoodClaim] /\ jobs \in Nat /\ reported \in BOOLEAN /\ claim[r] \in GoodClaim
  BY DEF Typed, TypeOK, InFlight, RewardsOK
<1>a. \A s \in Slots \ {r} : claim'[s] = claim[s]
  BY <1>0, ClaimBegun, ClaimGone, ClaimWent, ClaimMoves DEF RewardsStep, SeedBegin, SeedPuzzles, SolveBegin,
     WinBegin, Record, LookBegin, FindWallet, OpenWallet, Credit, Tell, Enqueue, KillClaim
<1>1. \/ jobs' = jobs /\ reported' = reported
         /\ (claim'[r].kind = "win" => claim'[r].pc \in OnTheWay)
         /\ (claim[r].kind = "win" => claim'[r].kind = "win")
         /\ (counted' = counted \/ claim'[r].kind = "win")
      \/ counted' = counted /\ claim'[r].kind # "win" /\ jobs' \in Nat /\ (jobs > 0 => jobs' > 0)
         /\ (~reported => ~reported') /\ (claim[r].kind = "win" => jobs' > 0 \/ ~reported')
  <2>0. claim[r].kind = "win" => claim[r].pc \in OnTheWay
    BY DEF WinsOnTheirWay
  <2>1. CASE SeedBegin(r) \/ SolveBegin(r) \/ LookBegin(r)
    BY <1>0, <2>0, <2>1, ClaimBegun DEF SeedBegin, SolveBegin, LookBegin, OnTheWay
  <2>2. CASE WinBegin(r)
    BY <1>0, <2>2, ClaimBegun DEF WinBegin, OnTheWay
  <2>3. CASE Record(r)
    <3>1. claim[r].kind \in {"puzzle", "win"}
      BY <1>0, <2>3 DEF Record, ClaimAt, GoodClaim, Paying
    <3>2. QED BY <1>0, <2>3, <3>1, ClaimWent DEF Record, OnTheWay
  <2>4. CASE FindWallet(r)
    <3>1. \A w : LET q == [claim[r] EXCEPT !.pc = "credit", !.wallet = w.id, !.num = w.balance]
                 IN  q.pc = "credit" /\ q.kind = claim[r].kind
      BY <1>0 DEF GoodClaim, Claim
    <3>2. ASSUME NEW w, ClaimStep(r, [claim[r] EXCEPT !.pc = "credit", !.wallet = w.id, !.num = w.balance])
          PROVE  claim'[r].pc = "credit" /\ claim'[r].kind = claim[r].kind
      BY <1>0, <3>1, <3>2, ClaimMoves
    <3>3. QED BY <1>0, <2>4, <3>2, ClaimWent DEF FindWallet, OnTheWay
  <2>5. CASE OpenWallet(r)
    <3>1. claim[r].kind # "win" /\ NoClaim.kind # "win"
      BY <2>0, <2>5 DEF OpenWallet, ClaimAt, NoClaim, OnTheWay
    <3>2. LET q == [claim[r] EXCEPT !.pc = "credit", !.wallet = nextWallet, !.num = Opening]
          IN  q.kind = claim[r].kind
      BY <1>0 DEF GoodClaim, Claim
    <3>3. claim'[r].kind # "win"
      BY <1>0, <2>5, <3>1, <3>2, ClaimMoves DEF OpenWallet, ClaimEnd
    <3>4. QED BY <2>5, <3>1, <3>3 DEF OpenWallet
  <2>6. CASE Credit(r)
    BY <1>0, <2>6, ClaimWent DEF Credit, OnTheWay
  <2>7. CASE Tell(r) \/ SeedPuzzles(r)
    <3>1. NoClaim.kind # "win" /\ (SeedPuzzles(r) => claim[r].kind # "win")
      BY <2>0 DEF SeedPuzzles, ClaimAt, NoClaim, OnTheWay
    <3>2. QED BY <1>0, <2>7, <3>1, ClaimMoves, ClaimWent DEF Tell, SeedPuzzles, ClaimEnd, OnTheWay
  <2>8. CASE Enqueue(r) \/ KillClaim(r)
    <3>1. claim'[r].kind # "win"
      BY <1>0, <2>8, ClaimMoves DEF Enqueue, KillClaim, ClaimEnd, NoClaim
    <3>2. jobs' = jobs \/ jobs' = jobs + 1
      BY <2>8 DEF Enqueue, KillClaim
    <3>3. jobs' \in Nat /\ (jobs > 0 => jobs' > 0) /\ (jobs' = jobs + 1 => jobs' > 0)
      BY <1>0, <3>2
    <3>4. counted' = counted /\ (~reported => ~reported') /\ (claim[r].kind = "win" => jobs' = jobs + 1 \/ ~reported')
      <4>1. CASE Enqueue(r)
        BY <4>1 DEF Enqueue
      <4>2. CASE KillClaim(r)
        BY <1>0, <4>2 DEF KillClaim
      <4>3. QED BY <2>8, <4>1, <4>2
    <3>5. QED BY <3>1, <3>3, <3>4
  <2>9. QED BY <2>1, <2>2, <2>3, <2>4, <2>5, <2>6, <2>7, <2>8 DEF RewardsStep
<1>2. WinsOnTheirWay'
  BY <1>a, <1>1 DEF WinsOnTheirWay
<1>3. ASSUME build' = build, Awaited PROVE Awaited'
  BY <1>a, <1>1, <1>3 DEF Awaited, BuildAt
<1>4. QED BY <1>1, <1>2, <1>3

(***************************************************************************)
(* Steps beside the rebuilds.                                              *)
(***************************************************************************)
LEMMA RankSame == ASSUME NEW a, NEW b, NEW u, a.ranked = b.ranked, a.wins = b.wins PROVE Rank(a, u) = Rank(b, u)
BY DEF Rank

\* What rebuilds have read and written stays right when wins come that are
\* announced.
LEMMA ExactFrame ==
    ASSUME Typed, ExactInv, WinsOnTheirWay', listed' = listed, rows' = rows, alone' = alone,
           Awaited => Awaited', counted' = counted \/ Awaited',
           \A s \in Slots : build'[s] = build[s] \/ (~Rebuilding(s) /\ ~Rebuilding(s)')
    PROVE  ExactInv'
<1> SUFFICES ASSUME alone
             PROVE  /\ \A r, s \in Slots : Rebuilding(r)' /\ Rebuilding(s)' => r = s
                    /\ \A r \in Slots : Rebuilding(r)' => OnCourse(build[r])'
                    /\ (\A r \in Slots : ~Rebuilding(r)') => Final'
  BY DEF ExactInv
<1>1. \A s \in Slots : Rebuilding(s)' = Rebuilding(s) /\ (Rebuilding(s) => build'[s] = build[s])
  BY DEF Rebuilding
<1>2. \A b, known : Informed(b, known) => Informed(b, known)'
  BY DEF Informed
<1>3. \A b, done : Written(b, done) => Written(b, done)'
  BY DEF Written, RowsOf, Rank, Before
<1>4. \A b : OnCourse(b) => OnCourse(b)'
  BY <1>2, <1>3 DEF OnCourse, Studied
<1>5. Final => Final'
  BY <1>2, <1>3 DEF Final, Standing
<1>6. ASSUME NEW r \in Slots, Rebuilding(r)' PROVE OnCourse(build[r])'
  <2>1. PICK b : b = build[r] /\ b = build'[r]
    BY <1>1, <1>6
  <2>2. OnCourse(b)'
    BY <1>1, <1>4, <1>6, <2>1 DEF ExactInv
  <2>3. QED BY <2>1, <2>2 DEF OnCourse, Studied, Informed, Written, Rank
<1>7. QED BY <1>1, <1>5, <1>6 DEF ExactInv

LEMMA OthersBuild ==
    ASSUME build \in [Slots -> GoodBuild], NEW r \in Slots, RankingStep(r)
    PROVE  \A s \in Slots \ {r} : build'[s] = build[s]
BY DEF RankingStep, TaskBegin, MeBegin, GlobalBegin, QueryRows, CachePage, PageAgain, ReadUsers, ReadStats,
   ClearRows, SeekRow, WriteRow, KillBuild, BuildGoto, BuildEnd, BuildStep

LEMMA BuildMoves ==
    ASSUME build \in [Slots -> GoodBuild], NEW r \in Slots, NEW q, BuildStep(r, q)
    PROVE  build'[r] = q
BY DEF BuildStep

LEMMA BuildWent ==
    ASSUME build \in [Slots -> GoodBuild], NEW r \in Slots, NEW l, BuildGoto(r, l)
    PROVE  /\ build'[r].pc = l /\ build'[r].only = build[r].only /\ build'[r].todo = build[r].todo
           /\ build'[r].ranked = build[r].ranked /\ build'[r].wins = build[r].wins
<1>1. build[r] \in Build
  BY DEF GoodBuild
<1>2. QED BY <1>1, BuildMoves DEF BuildGoto, Build

LEMMA BuildLeft ==
    ASSUME build \in [Slots -> GoodBuild], NEW r \in Slots, BuildEnd(r)
    PROVE  build'[r].pc = "idle"
BY BuildMoves DEF BuildEnd, NoBuild

\* A step of a rebuild that has read the accounts, or of a page, takes no task.
LEMMA StillAwaited ==
    ASSUME build \in [Slots -> GoodBuild], NEW r \in Slots, RankingStep(r), build[r].pc # "users",
           UNCHANGED <<jobs, claim, reported>>
    PROVE  Awaited => Awaited'
BY OthersBuild DEF Awaited, BuildAt

LEMMA ExactBegins ==
    ASSUME Typed, ExactInv, NEW r \in Slots, TaskBegin(r) \/ MeBegin(r) \/ GlobalBegin(r)
    PROVE  ExactInv'
<1>0. build \in [Slots -> GoodBuild] /\ RankingStep(r)
  BY DEF Typed, InFlight, RankingStep
<1>1. build[r].pc = "idle" /\ build'[r].pc \in {"users", "query"} /\ (TaskBegin(r) => build'[r].pc = "users" /\ build'[r].only = {})
  <2>1. CASE TaskBegin(r)
    BY <1>0, <2>1, BuildMoves DEF TaskBegin, BuildAt, NoBuild
  <2>2. CASE MeBegin(r)
    <3>1. PICK u : BuildStep(r, [NoBuild EXCEPT !.pc = "users", !.by = "me", !.only = {u}]) 
      BY <2>2 DEF MeBegin
    <3>2. QED BY <1>0, <2>2, <3>1, BuildMoves DEF MeBegin, TaskBegin, BuildAt, NoBuild
  <2>3. CASE GlobalBegin(r)
    <3>1. PICK l \in {"users", "query"} : BuildStep(r, [NoBuild EXCEPT !.pc = l, !.by = "global"])
      BY <2>3 DEF GlobalBegin
    <3>2. [NoBuild EXCEPT !.pc = l, !.by = "global"].pc = l /\ [NoBuild EXCEPT !.pc = l, !.by = "global"].only = {}
      BY DEF NoBuild
    <3>3. build[r].pc = "idle" /\ build'[r].pc = l /\ build'[r].only = {}
      BY <1>0, <2>3, <3>1, <3>2, BuildMoves DEF GlobalBegin, BuildAt
    <3>4. ~(TaskBegin(r) /\ l # "users")
      BY <1>0, <3>3, BuildMoves DEF TaskBegin, NoBuild
    <3>5. QED BY <3>3, <3>4
  <2>4. QED BY <2>1, <2>2, <2>3
<1>2. Awaited => Awaited'
  <2>1. CASE TaskBegin(r)
    BY <1>1, <2>1 DEF Awaited, BuildAt
  <2>2. CASE MeBegin(r) \/ GlobalBegin(r)
    BY <1>0, <1>1, <2>2, StillAwaited DEF MeBegin, GlobalBegin
  <2>3. QED BY <2>1, <2>2
<1>3. \A s \in Slots : build'[s] = build[s] \/ (~Rebuilding(s) /\ ~Rebuilding(s)')
  BY <1>0, <1>1, OthersBuild DEF Rebuilding
<1>4. rows' = rows /\ alone' = alone /\ counted' = counted /\ listed' = listed /\ claim' = claim
  BY DEF TaskBegin, MeBegin, GlobalBegin
<1>5. WinsOnTheirWay'
  BY <1>4 DEF ExactInv, WinsOnTheirWay
<1>6. QED BY <1>2, <1>3, <1>4, <1>5, ExactFrame

LEMMA ExactPages ==
    ASSUME Typed, ExactInv, NEW r \in Slots, QueryRows(r) \/ CachePage(r) \/ PageAgain(r)
    PROVE  ExactInv'
<1>0. build \in [Slots -> GoodBuild] /\ RankingStep(r) /\ build[r] \in Build
  BY DEF Typed, InFlight, RankingStep, GoodBuild
<1>1. build[r].pc \in {"query", "cache", "page"} /\ build'[r].pc \in {"users", "query", "cache", "idle"}
  <2>1. [build[r] EXCEPT !.pc = "cache", !.items = rows].pc = "cache"
    BY <1>0 DEF Build
  <2>2. QED BY <1>0, <2>1, BuildMoves, BuildWent, BuildLeft DEF QueryRows, CachePage, PageAgain, BuildAt
<1>2. UNCHANGED <<rows, alone, counted, listed, claim, jobs, reported>>
  BY DEF QueryRows, CachePage, PageAgain
<1>3. Awaited => Awaited'
  BY <1>0, <1>1, <1>2, StillAwaited
<1>4. \A s \in Slots : build'[s] = build[s] \/ (~Rebuilding(s) /\ ~Rebuilding(s)')
  BY <1>0, <1>1, OthersBuild DEF Rebuilding
<1>5. WinsOnTheirWay'
  BY <1>2 DEF ExactInv, WinsOnTheirWay
<1>6. QED BY <1>2, <1>3, <1>4, <1>5, ExactFrame

(***************************************************************************)
(* Steps of the rebuild itself.                                            *)
(***************************************************************************)
LEMMA OneRebuild ==
    ASSUME Typed, ExactInv, NEW r \in Slots, RankingStep(r), claim' = claim, Rebuilding(r),
           alone => alone' = alone /\ (Rebuilding(r)' => OnCourse(build[r])') /\ (~Rebuilding(r)' => Final'),
           ~alone => ~alone'
    PROVE  ExactInv'
<1>1. \A s \in Slots \ {r} : build'[s] = build[s]
  BY OthersBuild DEF Typed, InFlight
<1>2. \A s \in Slots \ {r} : Rebuilding(s)' = Rebuilding(s)
  BY <1>1 DEF Rebuilding
<1>3. WinsOnTheirWay'
  BY DEF ExactInv, WinsOnTheirWay
<1>4. CASE ~alone
  BY <1>3, <1>4 DEF ExactInv
<1>5. CASE alone
  <2>1. \A s \in Slots \ {r} : ~Rebuilding(s)
    BY <1>5 DEF ExactInv
  <2>2. \A s \in Slots : Rebuilding(s)' => s = r
    BY <1>2, <2>1
  <2>3. QED BY <1>3, <1>5, <2>2 DEF ExactInv
<1>6. QED BY <1>4, <1>5

\* It reads the accounts, and the scores are still to come.
LEMMA ExactReadUsers ==
    ASSUME Typed, ExactInv, NEW r \in Slots, ReadUsers(r)
    PROVE  ExactInv'
<1>0. /\ build \in [Slots -> GoodBuild] /\ RankingStep(r) /\ build[r] \in Build /\ Oldest \subseteq Users
      /\ claim' = claim
  BY DEF Typed, TypeOK, InFlight, RankingStep, GoodBuild, RequestsOK, ReadUsers, Oldest
<1>1. WinsOnTheirWay'
  BY <1>0 DEF ExactInv, WinsOnTheirWay
<1>2. CASE ~alone'
  BY <1>1, <1>2 DEF ExactInv
<1>3. CASE alone'
  <2>1. build[r].only = {} /\ \A s \in Slots : ~Rebuilding(s)
    BY <1>3 DEF ReadUsers
  <2>a. PICK ids \in SUBSET Users : ids = Oldest
    BY <1>0
  <2>b. listed' = ids /\ BuildStep(r, AfterStats([build[r] EXCEPT !.todo = ids, !.ranked = ids]))
    BY <2>1, <2>a DEF ReadUsers
  <2> DEFINE p == [build[r] EXCEPT !.todo = ids, !.ranked = ids]
  <2>2. p.only = {} /\ p.todo = ids /\ p.ranked = ids /\ p \in Build
    BY <1>0, <2>1 DEF Build
  <2>3. BuildStep(r, AfterStats(p))
    BY <2>b
  <2> HIDE DEF p
  <2> DEFINE q == AfterStats(p)
  <2>4. /\ q.only = {} /\ q.todo = ids /\ q.ranked = ids /\ q.pc \in {"stats", "clear"}
        /\ q.pc = "clear" => ids = {}
    BY <2>2 DEF AfterStats, Build
  <2>5. build'[r] = q
    BY <1>0, <2>3, BuildMoves
  <2> HIDE DEF q
  <2>6. \A s \in Slots : Rebuilding(s)' <=> s = r
    BY <1>0, <2>1, <2>4, <2>5, OthersBuild DEF Rebuilding
  <2>7. OnCourse(build[r])'
    BY <2>b, <2>4, <2>5 DEF OnCourse, Studied, Informed
  <2>8. QED BY <1>1, <2>6, <2>7 DEF ExactInv
<1>4. QED BY <1>2, <1>3

\* One score more has been read.
LEMMA ExactReadStats ==
    ASSUME Typed, ExactInv, NEW r \in Slots, ReadStats(r)
    PROVE  ExactInv'
<1>0. /\ build \in [Slots -> GoodBuild] /\ RankingStep(r) /\ build[r] \in Build
      /\ counted \in [Users -> Nat]
  BY DEF Typed, TypeOK, InFlight, RankingStep, GoodBuild, RewardsOK
<1>1. /\ UNCHANGED <<counted, listed, claim, jobs, reported, rows, alone>> /\ build[r].pc = "stats"
      /\ Rebuilding(r)
  BY DEF ReadStats, BuildAt, Rebuilding
<1>2. PICK u \in build[r].todo :
        BuildStep(r, AfterStats([build[r] EXCEPT !.todo = @ \ {u}, !.wins[u] = counted[u]]))
  BY DEF ReadStats
<1> DEFINE p == [build[r] EXCEPT !.todo = @ \ {u}, !.wins[u] = counted[u]]
<1>3. /\ p \in Build /\ p.todo = build[r].todo \ {u} /\ p.ranked = build[r].ranked /\ p.only = build[r].only
      /\ p.wins = [build[r].wins EXCEPT ![u] = counted[u]]
  BY <1>0 DEF Build
<1>4. BuildStep(r, AfterStats(p))
  BY <1>2
<1> HIDE DEF p
<1> DEFINE q == AfterStats(p)
<1>5. /\ q.only = p.only /\ q.ranked = p.ranked /\ q.wins = p.wins
      /\ \/ q.pc = "stats" /\ q.todo = p.todo
         \/ q.pc \in {"clear", "seek"} /\ (p.only = {} => q.pc = "clear") /\ q.todo = p.ranked /\ p.todo = {}
  BY <1>3 DEF AfterStats, Build
<1>6. build'[r] = q
  BY <1>0, <1>4, BuildMoves
<1> HIDE DEF q
<1>7. Awaited => Awaited'
  BY <1>0, <1>1, StillAwaited
<1>8. ASSUME alone PROVE OnCourse(build[r])'
  <2>1. build[r].only = {} /\ Informed(build[r], build[r].ranked \ build[r].todo)
    BY <1>1, <1>8 DEF ExactInv, OnCourse, Studied
  <2>2. Studied(q) = q.ranked \ p.todo
    BY <1>3, <1>5, <2>1 DEF Studied
  <2>3. q.only = {} /\ q.pc \in {"stats", "clear"} /\ (q.pc = "clear" => q.todo = q.ranked)
    BY <1>3, <1>5, <2>1
  <2>4. listed' \subseteq q.ranked
    BY <1>1, <1>3, <1>5, <2>1 DEF Informed
  <2>5. ASSUME ~Awaited', NEW v \in q.ranked \ p.todo PROVE q.wins[v] = counted'[v]
    <3>1. u \in Users /\ v \in Users /\ build[r].wins \in [Users -> Nat]
      BY <1>0, <1>3, <1>5 DEF Build, GoodBuild
    <3>2. CASE v = u
      BY <1>1, <1>3, <1>5, <3>1, <3>2
    <3>3. CASE v # u
      BY <1>1, <1>3, <1>5, <1>7, <2>1, <2>5, <3>1, <3>3 DEF Informed
    <3>4. QED BY <3>2, <3>3
  <2>6. QED BY <1>6, <2>2, <2>3, <2>4, <2>5 DEF OnCourse, Informed, Studied
<1>9. Rebuilding(r)'
  BY <1>5, <1>6 DEF Rebuilding
<1>10. QED BY <1>0, <1>1, <1>8, <1>9, OneRebuild

\* The table is empty, and no row is written yet.
LEMMA ExactClearRows ==
    ASSUME Typed, ExactInv, NEW r \in Slots, ClearRows(r)
    PROVE  ExactInv'
<1>0. build \in [Slots -> GoodBuild] /\ RankingStep(r)
  BY DEF Typed, TypeOK, InFlight, RankingStep
<1>1. /\ UNCHANGED <<counted, listed, claim, jobs, reported, alone>> /\ rows' = {} /\ build[r].pc = "clear"
      /\ Rebuilding(r)
  BY DEF ClearRows, BuildAt, Rebuilding
<1>2. /\ build'[r].pc = "seek" /\ build'[r].only = build[r].only /\ build'[r].todo = build[r].todo
      /\ build'[r].ranked = build[r].ranked /\ build'[r].wins = build[r].wins
  BY <1>0, BuildWent DEF ClearRows
<1>3. Awaited => Awaited'
  BY <1>0, <1>1, StillAwaited
<1>4. ASSUME alone PROVE OnCourse(build[r])'
  <2>1. OnCourse(build[r])
    BY <1>1, <1>4 DEF ExactInv
  <2>2. build[r].only = {} /\ build[r].todo = build[r].ranked /\ Informed(build[r], build[r].ranked)
    BY <1>1, <2>1 DEF OnCourse, Studied
  <2>3. Informed(build[r], build[r].ranked)'
    BY <1>1, <1>2, <1>3, <2>2 DEF Informed
  <2>4. Written(build[r], {})'
    BY <1>1 DEF Written
  <2>5. (build[r].ranked \ build[r].todo)' = {}
    BY <1>2, <2>2
  <2>6. QED BY <1>2, <2>2, <2>3, <2>4, <2>5 DEF OnCourse, Studied
<1>5. Rebuilding(r)'
  BY <1>2 DEF Rebuilding
<1>6. QED BY <1>0, <1>1, <1>4, <1>5, OneRebuild

\* It looks for the next row, or has written the last one.
LEMMA ExactSeekRow ==
    ASSUME Typed, ExactInv, NEW r \in Slots, SeekRow(r)
    PROVE  ExactInv'
<1>0. build \in [Slots -> GoodBuild] /\ RankingStep(r) /\ build[r] \in Build
  BY DEF Typed, TypeOK, InFlight, RankingStep, GoodBuild
<1>1. /\ UNCHANGED <<counted, listed, claim, jobs, reported, alone, rows>> /\ build[r].pc = "seek"
      /\ Rebuilding(r)
  BY DEF SeekRow, BuildAt, Rebuilding
<1>2. \/ /\ build'[r].pc = "write" /\ build'[r].only = build[r].only /\ build'[r].todo = build[r].todo
         /\ build'[r].ranked = build[r].ranked /\ build'[r].wins = build[r].wins
      \/ build[r].todo = {} /\ build'[r].pc \in {"page", "idle"}
  <2>1. \/ \E b : BuildStep(r, [build[r] EXCEPT !.pc = "write", !.found = b])
        \/ build[r].todo = {} /\ BuildStep(r, [build[r] EXCEPT !.pc = "page", !.again = TRUE])
        \/ build[r].todo = {} /\ BuildEnd(r)
    BY DEF SeekRow
  <2>2. ASSUME NEW b, BuildStep(r, [build[r] EXCEPT !.pc = "write", !.found = b])
        PROVE  /\ build'[r].pc = "write" /\ build'[r].only = build[r].only /\ build'[r].todo = build[r].todo
               /\ build'[r].ranked = build[r].ranked /\ build'[r].wins = build[r].wins
    <3>1. build'[r] = [build[r] EXCEPT !.pc = "write", !.found = b]
      BY <1>0, <2>2, BuildMoves
    <3>2. QED BY <1>0, <3>1 DEF Build
  <2>3. ASSUME BuildStep(r, [build[r] EXCEPT !.pc = "page", !.again = TRUE]) PROVE build'[r].pc = "page"
    <3>1. build'[r] = [build[r] EXCEPT !.pc = "page", !.again = TRUE]
      BY <1>0, <2>3, BuildMoves
    <3>2. QED BY <1>0, <3>1 DEF Build
  <2>4. BuildEnd(r) => build'[r].pc = "idle"
    BY <1>0, BuildLeft
  <2>5. QED BY <2>1, <2>2, <2>3, <2>4
<1>3. Awaited => Awaited'
  BY <1>0, <1>1, StillAwaited
<1>4. ASSUME alone PROVE /\ Rebuilding(r)' => OnCourse(build[r])'
                         /\ ~Rebuilding(r)' => Final'
  <2>1. /\ build[r].only = {} /\ Informed(build[r], build[r].ranked)
        /\ Written(build[r], build[r].ranked \ build[r].todo)
    BY <1>1, <1>4 DEF ExactInv, OnCourse, Studied
  <2>2. CASE build[r].todo = {} /\ build'[r].pc \in {"page", "idle"}
    <3> DEFINE b == [ranked |-> build[r].ranked, wins |-> build[r].wins]
    <3>1. b \in Standing /\ b.ranked = build[r].ranked /\ b.wins = build[r].wins
      BY <1>0 DEF Standing, Build
    <3> HIDE DEF b
    <3>2. Informed(b, b.ranked) /\ Written(b, b.ranked)
      BY <2>1, <2>2, <3>1, RankSame DEF Informed, Written
    <3>3. PICK c \in Standing : Informed(c, c.ranked) /\ Written(c, c.ranked)
      BY <3>1, <3>2
    <3>4. Informed(c, c.ranked)' /\ Written(c, c.ranked)'
      BY <1>1, <1>3, <3>3 DEF Informed, Written, RowsOf, Rank, Before
    <3>5. ~Rebuilding(r)'
      BY <2>2 DEF Rebuilding
    <3>6. QED BY <3>4, <3>5 DEF Final, Standing
  <2>3. CASE /\ build'[r].pc = "write" /\ build'[r].only = build[r].only /\ build'[r].todo = build[r].todo
             /\ build'[r].ranked = build[r].ranked /\ build'[r].wins = build[r].wins
    <3>1. Informed(build[r], build[r].ranked)'
      BY <1>1, <1>3, <2>1, <2>3 DEF Informed
    <3>2. Written(build[r], build[r].ranked \ build[r].todo)'
      <4>1. \A v : Rank(build[r], v)' = Rank(build[r], v)
        BY <2>3 DEF Rank, Before
      <4>2. QED BY <1>1, <2>1, <2>3, <4>1 DEF Written, RowsOf
    <3>3. Rebuilding(r)' /\ OnCourse(build[r])'
      BY <2>1, <2>3, <3>1, <3>2 DEF Rebuilding, OnCourse, Studied
    <3>4. QED BY <3>3
  <2>4. QED BY <1>2, <2>2, <2>3
<1>5. QED BY <1>0, <1>1, <1>4, OneRebuild

\* Nobody else writes rows, so the next one is new.
LEMMA ExactWriteRow ==
    ASSUME Typed, ExactInv, NEW r \in Slots, WriteRow(r)
    PROVE  ExactInv'
<1>0. build \in [Slots -> GoodBuild] /\ RankingStep(r) /\ build[r] \in Build /\ build[r].todo \subseteq build[r].ranked
  BY DEF Typed, TypeOK, InFlight, RankingStep, GoodBuild
<1>1. /\ UNCHANGED <<counted, listed, claim, jobs, reported, alone>> /\ build[r].pc = "write"
      /\ Rebuilding(r)
  BY DEF WriteRow, BuildAt, Rebuilding
<1>2. PICK u \in build[r].todo :
        /\ RowsOf(u) = {} => rows' = rows \cup {[id |-> nextRow, user |-> u, wins |-> build[r].wins[u],
                                                 rank |-> Rank(build[r], u)]}
        /\ BuildStep(r, [build[r] EXCEPT !.pc = "seek", !.todo = @ \ {u}])
  BY DEF WriteRow, Upcoming
<1>3. /\ build'[r].pc = "seek" /\ build'[r].only = build[r].only /\ build'[r].todo = build[r].todo \ {u}
      /\ build'[r].ranked = build[r].ranked /\ build'[r].wins = build[r].wins
  <2>1. build'[r] = [build[r] EXCEPT !.pc = "seek", !.todo = @ \ {u}]
    BY <1>0, <1>2, BuildMoves
  <2>2. QED BY <1>0, <2>1 DEF Build
<1>4. Awaited => Awaited'
  BY <1>0, <1>1, StillAwaited
<1>5. ASSUME alone PROVE OnCourse(build[r])'
  <2>1. /\ build[r].only = {} /\ Informed(build[r], build[r].ranked)
        /\ Written(build[r], build[r].ranked \ build[r].todo)
    BY <1>1, <1>5 DEF ExactInv, OnCourse, Studied
  <2> DEFINE done == build[r].ranked \ build[r].todo
             x == [id |-> nextRow, user |-> u, wins |-> build[r].wins[u], rank |-> Rank(build[r], u)]
  <2>2. /\ x.user = u /\ x.wins = build[r].wins[u] /\ x.rank = Rank(build[r], u)
        /\ u \notin done /\ build[r].ranked \ (build[r].todo \ {u}) = done \cup {u}
    BY <1>0
  <2>3. \A w \in rows : w.user \in done /\ w.wins = build[r].wins[w.user] /\ w.rank = Rank(build[r], w.user)
    BY <2>1 DEF Written
  <2>4. rows' = rows \cup {x}
    BY <1>2, <2>2, <2>3 DEF RowsOf
  <2> HIDE DEF x, done
  <2>5. \A w \in rows' : /\ w.user \in done \cup {u} /\ w.wins = build[r].wins[w.user]
                         /\ w.rank = Rank(build[r], w.user)
    BY <2>2, <2>3, <2>4
  <2>6. \A v \in done \cup {u} : \E w \in rows' : {y \in rows' : y.user = v} = {w}
    <3>1. {y \in rows' : y.user = u} = {x}
      BY <2>2, <2>3, <2>4
    <3>2. ASSUME NEW v \in done PROVE \E w \in rows' : {y \in rows' : y.user = v} = {w}
      <4>1. PICK w \in rows : RowsOf(v) = {w}
        BY <2>1, <3>2 DEF Written, done
      <4>2. {y \in rows' : y.user = v} = {w}
        BY <2>2, <2>4, <3>2, <4>1 DEF RowsOf
      <4>3. QED BY <2>4, <4>1, <4>2
    <3>3. QED BY <2>4, <3>1, <3>2
  <2>7. Written(build[r], build[r].ranked \ build[r].todo)'
    <3>1. (build[r].ranked \ build[r].todo)' = done \cup {u}
      BY <1>3, <2>2
    <3>2. \A v : Rank(build[r], v)' = Rank(build[r], v)
      BY <1>3 DEF Rank, Before
    <3>3. QED BY <1>3, <2>5, <2>6, <3>1, <3>2 DEF Written, RowsOf
  <2>8. Informed(build[r], build[r].ranked)'
    BY <1>1, <1>3, <1>4, <2>1 DEF Informed
  <2>9. QED BY <1>3, <2>1, <2>7, <2>8 DEF OnCourse, Studied
<1>6. Rebuilding(r)'
  BY <1>3 DEF Rebuilding
<1>7. QED BY <1>0, <1>1, <1>5, <1>6, OneRebuild

(***************************************************************************)
(* All together.                                                           *)
(***************************************************************************)
LEMMA ExactInit == Init => ExactInv
BY DEF Init, RewardsInit, RankingInit, ExactInv, WinsOnTheirWay, Rebuilding, Final, NoBuild, NoClaim

LEMMA ExactRanking ==
    ASSUME Typed, ExactInv, NEW r \in Slots, RankingStep(r)
    PROVE  ExactInv'
<1>1. CASE KillBuild(r)
  BY <1>1 DEF KillBuild, ExactInv, WinsOnTheirWay
<1>2. QED
  BY <1>1, ExactBegins, ExactPages, ExactReadUsers, ExactReadStats, ExactClearRows, ExactSeekRow,
     ExactWriteRow DEF RankingStep

LEMMA ExactNext == Typed /\ ExactInv /\ [Next]_vars => ExactInv'
<1> SUFFICES ASSUME Typed, ExactInv, [Next]_vars PROVE ExactInv'
  OBVIOUS
<1>a. WinsOnTheirWay
  BY DEF ExactInv
<1>b. ASSUME UNCHANGED <<counted, jobs, reported, claim, rows, alone, listed, build>> PROVE ExactInv'
  <2>1. WinsOnTheirWay' /\ (Awaited => Awaited')
    BY <1>a, <1>b DEF WinsOnTheirWay, Awaited, BuildAt
  <2>2. QED BY <1>b, <2>1, ExactFrame
<1>1. ASSUME RewardsTurn PROVE ExactInv'
  <2>1. PICK r \in Slots : RewardsStep(r)
    BY <1>1 DEF RewardsTurn, RewardsNext
  <2>2. UNCHANGED <<rows, alone, build, listed>>
    BY <1>1 DEF RewardsTurn, RewardsNext
  <2>3. WinsOnTheirWay' /\ (Awaited => Awaited') /\ (counted' = counted \/ Awaited')
    BY <1>a, <2>1, <2>2, ClaimsAwaited DEF Awaited
  <2>4. QED BY <2>2, <2>3, ExactFrame
<1>2. ASSUME RankingTurn PROVE ExactInv'
  <2>1. CASE ExpirePage
    BY <1>b, <2>1 DEF ExpirePage
  <2>2. QED BY <1>2, <2>1, ExactRanking DEF RankingTurn, RankingNext
<1>3. ASSUME ProfileTurn PROVE ExactInv'
  BY <1>b, <1>3 DEF ProfileTurn, ProfileNext, ProfileStep, ProfileBegin, InventoryBegin, VisitBegin,
     ReadScores, FindKit, NewKit, ReadWallet, NewWallet, ReadRow, Show, KillVisit
<1>4. ASSUME SocialTurn \/ MediaTurn \/ LearnTurn PROVE ExactInv'
  BY <1>b, <1>4 DEF SocialTurn, SocialNext, MediaTurn, MediaNext, LearnTurn, LearningNext
<1>5. ASSUME RemoveTurn PROVE ExactInv'
  BY <1>b, <1>5 DEF RemoveTurn, RemoveAccount
<1>6. CASE UNCHANGED vars
  BY <1>b, <1>6
<1>7. ASSUME SignupTurn PROVE ExactInv'
  BY <1>b, <1>7 DEF SignupTurn, SignupNext, CreateUser, GiveKit, GiveWallet, Greet, KillSignup
<1>8. QED BY <1>1, <1>2, <1>3, <1>4, <1>5, <1>6, <1>7 DEF Next

LEMMA BeforeOrders ==
    ASSUME NEW c, NEW x \in Nat, NEW y \in Nat, NEW z \in Nat, c[x] \in Nat, c[y] \in Nat, c[z] \in Nat
    PROVE  /\ ~Before(c, x, x) /\ (Before(c, x, y) => ~Before(c, y, x))
           /\ Before(c, x, y) \/ x = y \/ Before(c, y, x)
           /\ Before(c, z, x) /\ Before(c, x, y) => Before(c, z, y)
BY DEF Before

\* Ranks are in the order of the board.
LEMMA RankOrder ==
    ASSUME NEW b \in Standing, NEW u \in b.ranked, NEW v \in b.ranked
    PROVE  Rank(b, v) < Rank(b, u) <=> Before(b.wins, v, u)
<1> DEFINE S(x) == {y \in b.ranked : Before(b.wins, y, x)}
<1>1. b.ranked \subseteq Users /\ Users \subseteq Nat /\ b.wins \in [Users -> Nat]
  BY UsersFinite DEF Standing
<1>c. \A x \in b.ranked : x \in Nat /\ b.wins[x] \in Nat
  BY <1>1
<1>2. \A x : IsFiniteSet(S(x)) /\ Cardinality(S(x)) \in Nat /\ Rank(b, x) = 1 + Cardinality(S(x))
  <2> TAKE x
  <2>1. S(x) \subseteq Users
    BY <1>1
  <2>2. QED BY <2>1, UsersFinite, FS_Subset, FS_CardinalityType DEF Rank
<1>3. ASSUME NEW x \in b.ranked, NEW y \in b.ranked, Before(b.wins, x, y) PROVE Rank(b, x) < Rank(b, y)
  <2>1. S(x) \subseteq S(y) /\ x \in S(y) /\ x \notin S(x)
    BY <1>c, <1>3, BeforeOrders
  <2> HIDE DEF S
  <2>2. Cardinality(S(x)) <= Cardinality(S(y)) /\ Cardinality(S(x)) # Cardinality(S(y))
    BY <1>2, <2>1, FS_Subset
  <2>3. QED BY <1>2, <2>2
<1> HIDE DEF S
<1>4. Before(b.wins, u, v) \/ u = v \/ Before(b.wins, v, u)
  BY <1>c, BeforeOrders
<1>5. Rank(b, u) \in Nat /\ Rank(b, v) \in Nat
  BY <1>2
<1>6. CASE Before(b.wins, v, u)
  BY <1>3, <1>6
<1>7. CASE u = v
  BY <1>c, <1>5, <1>7, BeforeOrders
<1>8. CASE Before(b.wins, u, v)
  <2>1. Rank(b, u) < Rank(b, v)
    BY <1>3, <1>8
  <2>2. ~Before(b.wins, v, u)
    BY <1>c, <1>8, BeforeOrders
  <2>3. QED BY <1>5, <2>1, <2>2
<1>9. QED BY <1>4, <1>6, <1>7, <1>8

\* Once no win is unannounced and nothing runs, and the last rebuild was of
\* everybody and undisturbed, each of the oldest accounts of its time, as many as
\* a rebuild reads, has one row with all wins of its first 500 players, and the
\* ranks are in their order (rebuild_leaderboard, _complete_game).
THEOREM BoardsSettle == Spec => []BoardIsExact
<1>1. Typed /\ ExactInv => BoardIsExact
  <2> SUFFICES ASSUME Typed, ExactInv, Settled, NEW u \in listed
               PROVE  /\ Cardinality(RowsOf(u)) = 1
                      /\ \A w \in RowsOf(u) :
                            /\ w.wins = counted[u]
                            /\ \A v \in listed, x \in rows : x.user = v =>
                                  (x.rank < w.rank <=> counted[v] > counted[u] \/ (counted[v] = counted[u] /\ v < u))
    BY DEF BoardIsExact
  <2>1. ~Awaited
    <3>1. ~(jobs > 0) /\ reported
      BY DEF Settled
    <3>2. \A r \in Slots : claim[r].kind # "win"
      BY DEF Settled, ExactInv, WinsOnTheirWay, OnTheWay, ClaimAt
    <3>3. \A r \in Slots : ~BuildAt(r, "users")
      BY DEF Settled, BuildAt
    <3>4. QED BY <3>1, <3>2, <3>3 DEF Awaited
  <2>2. PICK b \in Standing : Informed(b, b.ranked) /\ Written(b, b.ranked)
    <3>1. \A r \in Slots : ~Rebuilding(r)
      BY DEF Settled, Rebuilding
    <3>2. QED BY <3>1 DEF Settled, ExactInv, Final
  <2>3. listed \subseteq b.ranked /\ \A v \in b.ranked : b.wins[v] = counted[v]
    BY <2>1, <2>2 DEF Informed
  <2>4. PICK w \in rows : RowsOf(u) = {w}
    BY <2>2, <2>3 DEF Written
  <2>5. Cardinality(RowsOf(u)) = 1
    BY <2>4, FS_Singleton
  <2>6. \A x \in rows : x.wins = counted[x.user] /\ x.rank = Rank(b, x.user)
    BY <2>2, <2>3 DEF Written
  <2>7. w.user = u
    BY <2>4 DEF RowsOf
  <2>8. ASSUME NEW v \in listed, NEW x \in rows, x.user = v
        PROVE  x.rank < w.rank <=> counted[v] > counted[u] \/ (counted[v] = counted[u] /\ v < u)
    <3>1. x.rank < w.rank <=> Before(b.wins, v, u)
      BY <2>3, <2>6, <2>7, <2>8, RankOrder
    <3>2. QED BY <2>3, <3>1 DEF Before
  <2>9. QED BY <2>4, <2>5, <2>6, <2>7, <2>8
<1>2. QED BY <1>1, TypedInit, TypedStep, ExactInit, ExactNext, PTL DEF Spec
===============================================================================
