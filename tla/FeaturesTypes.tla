---------------------------- MODULE FeaturesTypes ----------------------------
(***************************************************************************)
(* Type correctness of the feature endpoints, for any number of users and  *)
(* requests and any bounds.  The other proof modules build on it.          *)
(***************************************************************************)
EXTENDS Features, FiniteSetTheorems, TLAPS

USE DEF vars, accounts, scoreVars, coins, scores, payHistory, rewardsVars, rankingVars, profileVars, socialDocs,
        socialHistory, socialVars, mediaVars, learningDocs, learningHistory, learningVars

(***************************************************************************)
(* The inductive invariant: TypeOK, and that a request in flight is of a   *)
(* user and of what its label says.                                        *)
(***************************************************************************)
GoodClaim == {c \in Claim : /\ c.pc # "idle" => c.by \in Users
                            /\ c.pc \in {"record", "record_late", "find", "credit", "tell"} => c.kind \in Paying}
GoodBuild == {b \in Build : b.todo \subseteq b.ranked}
GoodVisit == {v \in Visit : v.pc # "idle" => v.by \in Users}
GoodAsk   == {q \in Ask : /\ q.pc # "idle" => q.by \in Users
                          /\ q.pc \notin {"idle", "welcome", "friends"} => q.other \in Users}
GoodUpload == {q \in Upload : q.pc # "idle" => q.by \in Users}
GoodStudy == {q \in Study : q.pc # "idle" => q.by \in Users}

StudyOK ==
    /\ study \in [Slots -> GoodStudy]
    /\ \A r \in Slots : StudyAt(r, "guess") \/ StudyAt(r, "answer") => study[r].doc \in DOMAIN sessions
    /\ DOMAIN posted = DOMAIN sessions /\ DOMAIN answered = DOMAIN sessions

InFlight ==
    /\ claim \in [Slots -> GoodClaim] /\ build \in [Slots -> GoodBuild]
    /\ visit \in [Slots -> GoodVisit] /\ ask \in [Slots -> GoodAsk]
    /\ upload \in [Slots -> GoodUpload] /\ StudyOK

Typed == TypeOK /\ InFlight /\ alive \subseteq Known

LEMMA UsersFinite == IsFiniteSet(Users) /\ Users \subseteq Nat
BY RequestsAssumption, FS_CardinalityType

(***************************************************************************)
(* Counting.                                                               *)
(***************************************************************************)
LEMMA CountSame ==
    ASSUME NEW S, IsFiniteSet(S), NEW T, T \subseteq S
    PROVE  /\ IsFiniteSet(T) /\ Cardinality(T) <= Cardinality(S)
           /\ Cardinality(T) \in Nat /\ Cardinality(S) \in Nat
BY FS_Subset, FS_CardinalityType

LEMMA CountMore ==
    ASSUME NEW S, IsFiniteSet(S), NEW x, NEW T, T \subseteq S \cup {x}
    PROVE  /\ IsFiniteSet(T) /\ Cardinality(T) <= Cardinality(S) + 1
           /\ Cardinality(T) \in Nat /\ Cardinality(S) \in Nat
<1>1. /\ IsFiniteSet(S \cup {x}) /\ Cardinality(S) \in Nat
      /\ Cardinality(S \cup {x}) = Cardinality(S) \/ Cardinality(S \cup {x}) = Cardinality(S) + 1
  BY FS_AddElement, FS_CardinalityType
<1>2. QED BY <1>1, CountSame

LEMMA CountLess ==
    ASSUME NEW S, IsFiniteSet(S), NEW x \in S, NEW T, T \subseteq S \ {x}
    PROVE  /\ IsFiniteSet(T) /\ Cardinality(T) + 1 <= Cardinality(S)
           /\ Cardinality(T) \in Nat /\ Cardinality(S) \in Nat
<1>1. /\ IsFiniteSet(S \ {x}) /\ Cardinality(S) \in Nat
      /\ Cardinality(S \ {x}) = Cardinality(S) - 1
  BY FS_RemoveElement, FS_CardinalityType
<1>2. QED BY <1>1, CountSame

(***************************************************************************)
(* The bounds.                                                             *)
(***************************************************************************)
Calling == calls' = calls \/ \E event : Serve(event)

LEMMA RequestsTypes ==
    ASSUME RequestsOK, Calling, menu' = menu, signup' = signup, alive' \subseteq Users
    PROVE  RequestsOK'
BY DEF RequestsOK, Calling, Serve

LEMMA RewardsCalling ==
    ASSUME NEW r \in Slots, RewardsStep(r)
    PROVE  Calling
BY DEF RewardsStep, SeedBegin, SeedPuzzles, SolveBegin, WinBegin, Record, LookBegin, FindWallet,
       OpenWallet, Credit, Tell, Enqueue, KillClaim, Die, Calling

LEMMA RankingCalling ==
    ASSUME NEW r \in Slots, RankingStep(r) \/ ExpirePage
    PROVE  Calling
BY DEF RankingStep, ExpirePage, TaskBegin, MeBegin, GlobalBegin, QueryRows, CachePage, PageAgain,
       ReadUsers, ReadStats, ClearRows, SeekRow, WriteRow, KillBuild, Die, Calling

LEMMA ProfileCalling ==
    ASSUME NEW r \in Slots, ProfileStep(r)
    PROVE  Calling
BY DEF ProfileStep, ProfileBegin, InventoryBegin, ReadScores, FindKit, NewKit, ReadWallet,
       NewWallet, ReadRow, Show, KillVisit, Die, Calling

LEMMA SocialCalling ==
    ASSUME NEW r \in Slots, SocialStep(r)
    PROVE  Calling
BY DEF SocialStep, AskFriendBegin, CheckPending, InsertRequest, TellFriend,
       RespondBegin, AnswerRequest, Befriend, SocialPageBegin, ReadFriend, ShowFriends,
       ChallengeBegin, SeatCreator, SeatJoiner, SetMode, TellChallenged, InboxBegin, Welcome, KillAsk,
       Die, Calling

LEMMA MediaCalling ==
    ASSUME NEW r \in Slots, MediaStep(r)
    PROVE  Calling
BY DEF MediaStep, UploadBegin, PutObject, PointProfile, DeleteOld, KillUpload, Die, Calling

LEMMA LearningCalling ==
    ASSUME NEW r \in Slots, LearningStep(r)
    PROVE  Calling
BY DEF LearningStep, PracticeBegin, WriteAttempts, AnswerGuess, CurriculumBegin, SeedCurriculum,
       ReadProgress, ShowPage, KillStudy, Die, Calling

LEMMA SignupCalling ==
    ASSUME RequestsOK, SignupNext
    PROVE  RequestsOK'
<1>1. PICK u \in Users : CreateUser(u) \/ GiveKit(u) \/ GiveWallet(u) \/ Greet(u) \/ KillSignup(u)
  BY DEF SignupNext
<1>2. Calling /\ menu' = menu
  BY <1>1 DEF CreateUser, GiveKit, GiveWallet, Greet, KillSignup, Die, Calling
<1>3. alive' \subseteq Users /\ signup' \in [Users -> {"none", "kit", "wallet", "welcome", "done"}]
  BY <1>1 DEF CreateUser, GiveKit, GiveWallet, Greet, KillSignup, RequestsOK
<1>4. QED BY <1>2, <1>3 DEF RequestsOK, Calling, Serve

LEMMA NextCalling ==
    ASSUME RequestsOK, [Next]_vars
    PROVE  RequestsOK'
<1>1. CASE RewardsTurn
  BY <1>1, RewardsCalling, RequestsTypes DEF RewardsTurn, RewardsNext, RequestsOK
<1>2. CASE RankingTurn
  <2>1. ASSUME ExpirePage PROVE Calling
    BY <2>1 DEF ExpirePage, Calling
  <2>2. QED BY <1>2, <2>1, RankingCalling, RequestsTypes DEF RankingTurn, RankingNext, RequestsOK
<1>3. CASE ProfileTurn
  BY <1>3, ProfileCalling, RequestsTypes DEF ProfileTurn, ProfileNext, RequestsOK
<1>4. CASE SocialTurn
  <2>1. ASSUME RemoveFriend \/ PlayPrivateGame \/ MarkRead PROVE Calling
    BY <2>1 DEF RemoveFriend, PlayPrivateGame, MarkRead, Calling
  <2>2. QED BY <1>4, <2>1, SocialCalling, RequestsTypes DEF SocialTurn, SocialNext, RequestsOK
<1>5. CASE MediaTurn
  BY <1>5, MediaCalling, RequestsTypes DEF MediaTurn, MediaNext, RequestsOK
<1>6. CASE LearnTurn
  <2>1. ASSUME OpenSession \/ CompleteLesson PROVE Calling
    BY <2>1 DEF OpenSession, CompleteLesson, Calling
  <2>2. QED BY <1>6, <2>1, LearningCalling, RequestsTypes DEF LearnTurn, LearningNext, RequestsOK
<1>7. CASE RemoveTurn
  BY <1>7, RequestsTypes DEF RemoveTurn, RemoveAccount, RequestsOK, Calling
<1>8. CASE SignupTurn
  BY <1>8, SignupCalling DEF SignupTurn
<1>9. CASE UNCHANGED vars
  BY <1>9 DEF RequestsOK
<1>10. QED BY <1>1, <1>2, <1>3, <1>4, <1>5, <1>6, <1>7, <1>8, <1>9 DEF Next

(***************************************************************************)
(* Rewards.                                                                *)
(***************************************************************************)
LEMMA ClaimSlot ==
    ASSUME claim \in [Slots -> GoodClaim], NEW r \in Slots, NEW q \in GoodClaim, ClaimStep(r, q)
    PROVE  claim' \in [Slots -> GoodClaim]
BY DEF ClaimStep

LEMMA NoClaimGood == NoClaim \in GoodClaim
BY DEF NoClaim, GoodClaim, Claim, Kinds, Paying

\* A fresh claim, and one that moves on.
LEMMA ClaimBegins ==
    ASSUME claim \in [Slots -> GoodClaim], NEW r \in Slots, NEW u \in Users, NEW kind, NEW label,
           \/ kind = "seed" /\ label = "seed"
           \/ kind = "look" /\ label = "open"
           \/ kind \in Paying /\ label \in {"record", "record_late"},
           ClaimBegin(r, kind, u, label)
    PROVE  claim' \in [Slots -> GoodClaim]
<1> DEFINE q == [NoClaim EXCEPT !.pc = label, !.kind = kind, !.by = u]
<1>1. q \in GoodClaim
  BY DEF NoClaim, GoodClaim, Claim, Kinds, Paying
<1>2. QED BY <1>1, ClaimSlot DEF ClaimBegin

LEMMA ClaimGoes ==
    ASSUME claim \in [Slots -> GoodClaim], NEW r \in Slots, NEW label, claim[r].pc # "idle",
           \/ label \in {"open", "enqueue"}
           \/ label \in {"find", "tell"} /\ claim[r].kind \in Paying,
           ClaimGoto(r, label)
    PROVE  claim' \in [Slots -> GoodClaim]
<1> DEFINE q == [claim[r] EXCEPT !.pc = label]
<1>1. q \in GoodClaim
  BY DEF GoodClaim, Claim
<1>2. QED BY <1>1, ClaimSlot DEF ClaimGoto

LEMMA ClaimEnds ==
    ASSUME claim \in [Slots -> GoodClaim], NEW r \in Slots, ClaimEnd(r)
    PROVE  claim' \in [Slots -> GoodClaim]
BY NoClaimGood, ClaimSlot DEF ClaimEnd

LEMMA ClaimCredits ==
    ASSUME claim \in [Slots -> GoodClaim], NEW r \in Slots, claim[r].pc # "idle",
           claim[r].kind \in Paying, NEW i \in Nat, NEW n \in Nat,
           ClaimStep(r, [claim[r] EXCEPT !.pc = "credit", !.wallet = i, !.num = n])
    PROVE  claim' \in [Slots -> GoodClaim]
<1> DEFINE q == [claim[r] EXCEPT !.pc = "credit", !.wallet = i, !.num = n]
<1>1. q \in GoodClaim
  BY DEF GoodClaim, Claim
<1>2. QED BY <1>1, ClaimSlot

LEMMA NewWalletType ==
    ASSUME wallets \subseteq Wallet, nextWallet \in Nat, NEW u \in Users,
           wallets' = wallets \cup {[id |-> nextWallet, user |-> u, balance |-> Opening]},
           nextWallet' = nextWallet + 1
    PROVE  wallets' \subseteq Wallet /\ nextWallet' \in Nat
BY DEF Wallet, Opening

LEMMA RewardsTypes ==
    ASSUME RewardsOK, RequestsOK, claim \in [Slots -> GoodClaim], NEW r \in Slots, RewardsStep(r)
    PROVE  RewardsOK' /\ claim' \in [Slots -> GoodClaim]
<1>0. claim[r] \in GoodClaim /\ claim[r] \in Claim /\ alive \subseteq Users
      /\ claim[r].by \in Users \cup {0} /\ claim[r].kind \in Kinds
  BY DEF GoodClaim, Claim, RequestsOK
<1>a. ASSUME claim' \in [Slots -> GoodClaim] PROVE claim' \in [Slots -> Claim]
  BY <1>a DEF GoodClaim
<1>b. ASSUME NEW u \in Users, NEW k, NEW l, ClaimBegin(r, k, u, l) PROVE tangled' \subseteq Users \cup {0}
  BY <1>b DEF ClaimBegin, RewardsOK
<1>1. CASE SeedBegin(r)
  BY <1>0, <1>1, <1>a, <1>b, ClaimBegins DEF SeedBegin, RewardsOK
<1>2. CASE SeedPuzzles(r)
  BY <1>2, <1>a, ClaimEnds DEF SeedPuzzles, RewardsOK
<1>3. CASE SolveBegin(r)
  BY <1>0, <1>3, <1>a, <1>b, ClaimBegins DEF SolveBegin, RewardsOK, Paying
<1>4. CASE WinBegin(r)
  <2>1. PICK u \in Users : ClaimBegin(r, "win", u, "record") \/ ClaimBegin(r, "win", u, "record_late")
    BY <1>4 DEF WinBegin, Known
  <2>2. claim' \in [Slots -> GoodClaim]
    BY <2>1, ClaimBegins DEF Paying
  <2>3. QED BY <1>4, <1>a, <1>b, <2>1, <2>2 DEF WinBegin, RewardsOK
<1>5. CASE Record(r)
  <2>1. claim[r].by \in Users /\ claim[r].kind \in Paying /\ claim[r].pc # "idle"
    BY <1>0, <1>5 DEF Record, ClaimAt, GoodClaim
  <2>2. claim' \in [Slots -> GoodClaim]
    BY <1>5, <2>1, ClaimGoes DEF Record
  <2>3. solved' \in [Users -> Nat] /\ wins' \in [Users -> Nat] /\ counted' \in [Users -> Nat]
    <3>1. CASE claim[r].kind = "puzzle"
      BY <1>5, <2>1, <3>1 DEF Record, RewardsOK
    <3>2. CASE claim[r].kind = "win"
      BY <1>5, <2>1, <3>2 DEF Record, RewardsOK
    <3>3. QED BY <2>1, <3>1, <3>2 DEF Paying
  <2>4. QED BY <1>5, <1>a, <2>2, <2>3 DEF Record, RewardsOK
<1>6. CASE LookBegin(r)
  BY <1>0, <1>6, <1>a, <1>b, ClaimBegins DEF LookBegin, RewardsOK
<1>7. CASE FindWallet(r)
  <2>1. claim[r].kind \in Paying /\ claim[r].pc # "idle"
    BY <1>0, <1>7 DEF FindWallet, ClaimAt, GoodClaim
  <2>2. \A w \in First(WalletsOf(claim[r].by)) : w.id \in Nat /\ w.balance \in Nat
    BY DEF First, WalletsOf, RewardsOK, Wallet
  <2>3. claim' \in [Slots -> GoodClaim]
    BY <1>7, <2>1, <2>2, ClaimGoes, ClaimCredits DEF FindWallet
  <2>4. QED BY <1>7, <1>a, <2>3 DEF FindWallet, RewardsOK
<1>8. CASE OpenWallet(r)
  <2>1. claim[r].by \in Users /\ claim[r].pc # "idle" /\ (claim[r].kind = "puzzle" => claim[r].kind \in Paying)
    BY <1>0, <1>8 DEF OpenWallet, ClaimAt, GoodClaim, Paying
  <2>2. wallets' \subseteq Wallet /\ nextWallet' \in Nat
    BY <1>8, <2>1, NewWalletType DEF OpenWallet, RewardsOK
  <2>3. claim' \in [Slots -> GoodClaim]
    <3>1. nextWallet \in Nat /\ Opening \in Nat
      BY DEF RewardsOK, Opening
    <3>2. QED BY <1>8, <2>1, <3>1, ClaimEnds, ClaimCredits DEF OpenWallet
  <2>4. QED BY <1>8, <1>a, <2>2, <2>3 DEF OpenWallet, RewardsOK
<1>9. CASE Credit(r)
  <2>1. /\ claim[r].by \in Users /\ claim[r].kind \in Paying /\ claim[r].pc # "idle"
        /\ claim[r].num \in Nat
    BY <1>0, <1>9 DEF Credit, ClaimAt, GoodClaim, Claim
  <2>2. Reward[claim[r].kind] \in Nat
    BY <2>1 DEF Reward, Paying
  <2>3. wallets' \subseteq Wallet
    <3> DEFINE sum == claim[r].num + Reward[claim[r].kind]
    <3>1. sum \in Nat
      BY <2>1, <2>2
    <3>2. \A w \in wallets : w \in Wallet /\ [w EXCEPT !.balance = sum] \in Wallet
      BY <3>1 DEF RewardsOK, Wallet
    <3>3. QED BY <1>9, <3>2 DEF Credit
  <2>4. paid' \in [Users -> [Paying -> Nat]]
    BY <1>9, <2>1 DEF Credit, RewardsOK
  <2>5. claim' \in [Slots -> GoodClaim]
    BY <1>9, <2>1, ClaimGoes DEF Credit
  <2>6. QED BY <1>9, <1>a, <2>3, <2>4, <2>5 DEF Credit, RewardsOK
<1>10. CASE Tell(r)
  <2>1. claim[r].by \in Users /\ claim[r].kind \in Paying /\ claim[r].pc # "idle"
    BY <1>0, <1>10 DEF Tell, ClaimAt, GoodClaim
  <2>2. told' \in [Users -> [Paying -> Nat]]
    BY <1>10, <2>1 DEF Tell, RewardsOK
  <2>3. claim' \in [Slots -> GoodClaim]
    BY <1>10, <2>1, ClaimGoes, ClaimEnds DEF Tell
  <2>4. QED BY <1>10, <1>a, <2>2, <2>3 DEF Tell, RewardsOK
<1>11. CASE Enqueue(r)
  <2>1. claim' \in [Slots -> GoodClaim]
    BY <1>11, ClaimEnds DEF Enqueue
  <2>2. jobs' \in Nat
    BY <1>11 DEF Enqueue, RewardsOK
  <2>3. reported' \in BOOLEAN
    BY <1>11 DEF Enqueue, RewardsOK
  <2>4. QED BY <1>11, <1>a, <2>1, <2>2, <2>3 DEF Enqueue, RewardsOK
<1>12. CASE KillClaim(r)
  <2>1. claim' \in [Slots -> GoodClaim]
    BY <1>12, ClaimEnds DEF KillClaim
  <2>2. tangled' \subseteq Users \cup {0}
    BY <1>0, <1>12 DEF KillClaim, RewardsOK
  <2>3. reported' \in BOOLEAN
    BY <1>12 DEF KillClaim, RewardsOK
  <2>4. QED BY <1>12, <1>a, <2>1, <2>2, <2>3 DEF KillClaim, RewardsOK
<1>13. QED
  BY <1>1, <1>2, <1>3, <1>4, <1>5, <1>6, <1>7, <1>8, <1>9, <1>10, <1>11, <1>12 DEF RewardsStep

(***************************************************************************)
(* Ranking.                                                                *)
(***************************************************************************)
LEMMA BuildSlot ==
    ASSUME build \in [Slots -> GoodBuild], NEW r \in Slots, NEW q \in GoodBuild, BuildStep(r, q)
    PROVE  build' \in [Slots -> GoodBuild]
BY DEF BuildStep

LEMMA NoBuildGood == NoBuild \in GoodBuild
BY DEF NoBuild, GoodBuild, Build

LEMMA BuildGoes ==
    ASSUME build \in [Slots -> GoodBuild], NEW r \in Slots,
           NEW label \in {"users", "seek", "page", "query"}, BuildGoto(r, label)
    PROVE  build' \in [Slots -> GoodBuild]
<1> DEFINE q == [build[r] EXCEPT !.pc = label]
<1>1. q \in GoodBuild
  BY DEF GoodBuild, Build
<1>2. QED BY <1>1, BuildSlot DEF BuildGoto

LEMMA BuildEnds ==
    ASSUME build \in [Slots -> GoodBuild], NEW r \in Slots, BuildEnd(r)
    PROVE  build' \in [Slots -> GoodBuild]
BY NoBuildGood, BuildSlot DEF BuildEnd

LEMMA AfterStatsGood == \A q \in GoodBuild : AfterStats(q) \in GoodBuild
<1> SUFFICES ASSUME NEW q \in GoodBuild PROVE AfterStats(q) \in GoodBuild
  OBVIOUS
<1>1. [q EXCEPT !.pc = "stats"] \in GoodBuild
  BY DEF GoodBuild, Build
<1>2. \A l \in {"clear", "seek"} : [q EXCEPT !.pc = l, !.todo = q.ranked] \in GoodBuild
  BY DEF GoodBuild, Build
<1>3. QED BY <1>1, <1>2 DEF AfterStats

LEMMA RankType == \A q \in Build, u \in Users : Rank(q, u) \in Nat
<1> SUFFICES ASSUME NEW q \in Build, NEW u \in Users PROVE Rank(q, u) \in Nat
  OBVIOUS
<1> DEFINE S == {v \in q.ranked : Before(q.wins, v, u)}
<1>1. S \subseteq Users
  BY DEF Build
<1>2. IsFiniteSet(S) /\ Cardinality(S) \in Nat
  BY <1>1, UsersFinite, FS_Subset, FS_CardinalityType
<1>3. QED BY <1>2 DEF Rank

LEMMA NatStep == \A n \in Nat : \A m : m = n \/ m = n + 1 => m \in Nat
OBVIOUS

\* An upsert, whether it finds a row or not.
LEMMA RowWritten ==
    ASSUME rows \subseteq Row, nextRow \in Nat, NEW u \in Users, NEW n \in Nat, NEW k \in Nat,
           \/ /\ rows' = {IF w \in First(RowsOf(u)) THEN [w EXCEPT !.wins = n, !.rank = k] ELSE w : w \in rows}
              /\ nextRow' = nextRow
           \/ /\ rows' = rows \cup {[id |-> nextRow, user |-> u, wins |-> n, rank |-> k]}
              /\ nextRow' = nextRow + 1
    PROVE  rows' \subseteq Row /\ nextRow' \in Nat
<1>1. \A w \in rows : w \in Row /\ [w EXCEPT !.wins = n, !.rank = k] \in Row
  BY DEF Row
<1>2. [id |-> nextRow, user |-> u, wins |-> n, rank |-> k] \in Row
  BY DEF Row
<1>3. ASSUME NEW w \in rows' PROVE w \in Row
  BY <1>1, <1>2, <1>3
<1>4. nextRow' \in Nat
  BY NatStep, Zenon
<1>5. QED BY <1>3, <1>4

LEMMA RankingTypes ==
    ASSUME RankingOK, RewardsOK, RequestsOK, build \in [Slots -> GoodBuild],
           NEW r \in Slots, RankingStep(r)
    PROVE  /\ RankingOK' /\ build' \in [Slots -> GoodBuild]
           /\ jobs' \in Nat /\ reported' \in BOOLEAN
<1>0. build[r] \in GoodBuild /\ build[r] \in Build /\ alive \subseteq Users
  BY DEF GoodBuild, RequestsOK
<1>a. ASSUME build' \in [Slots -> GoodBuild] PROVE build' \in [Slots -> Build]
  BY <1>a DEF GoodBuild
<1>1. CASE TaskBegin(r)
  <2>1. [NoBuild EXCEPT !.pc = "users"] \in GoodBuild
    BY DEF NoBuild, GoodBuild, Build
  <2>2. build' \in [Slots -> GoodBuild]
    BY <1>1, <2>1, BuildSlot DEF TaskBegin
  <2>3. jobs' \in Nat
    BY <1>1 DEF TaskBegin, RewardsOK
  <2>4. QED BY <1>1, <1>a, <2>2, <2>3 DEF TaskBegin, RewardsOK, RankingOK
<1>2. CASE MeBegin(r)
  <2>1. \A u \in Users : [NoBuild EXCEPT !.pc = "users", !.by = "me", !.only = {u}] \in GoodBuild
    BY DEF NoBuild, GoodBuild, Build
  <2>2. build' \in [Slots -> GoodBuild]
    BY <1>0, <1>2, <2>1, BuildSlot DEF MeBegin
  <2>3. QED BY <1>2, <1>a, <2>2 DEF MeBegin, RewardsOK, RankingOK
<1>3. CASE GlobalBegin(r)
  <2>1. \A l \in {"query", "users"} : [NoBuild EXCEPT !.pc = l, !.by = "global"] \in GoodBuild
    BY DEF NoBuild, GoodBuild, Build
  <2>2. build' \in [Slots -> GoodBuild]
    BY <1>3, <2>1, BuildSlot DEF GlobalBegin
  <2>3. QED BY <1>3, <1>a, <2>2 DEF GlobalBegin, RewardsOK, RankingOK
<1>4. CASE QueryRows(r)
  <2>1. [build[r] EXCEPT !.pc = "cache", !.items = rows] \in GoodBuild
    BY <1>0 DEF GoodBuild, Build, RankingOK
  <2>2. build' \in [Slots -> GoodBuild]
    BY <1>4, <2>1, BuildSlot DEF QueryRows
  <2>3. QED BY <1>4, <1>a, <2>2 DEF QueryRows, RewardsOK, RankingOK
<1>5. CASE CachePage(r)
  <2>1. copy' \subseteq SUBSET Row /\ Cardinality(copy') <= 1
    <3>1. build[r].items \subseteq Row
      BY <1>0 DEF Build
    <3>2. copy' = {build[r].items}
      BY <1>5 DEF CachePage
    <3>3. Cardinality(copy') = 1
      BY <3>2, FS_Singleton
    <3>4. QED BY <3>1, <3>2, <3>3
  <2>2. build' \in [Slots -> GoodBuild]
    BY <1>5, BuildGoes, BuildEnds DEF CachePage
  <2>3. QED BY <1>5, <1>a, <2>1, <2>2 DEF CachePage, RewardsOK, RankingOK
<1>6. CASE PageAgain(r)
  <2>1. build' \in [Slots -> GoodBuild]
    BY <1>6, BuildGoes, BuildEnds DEF PageAgain
  <2>2. QED BY <1>6, <1>a, <2>1 DEF PageAgain, RewardsOK, RankingOK
<1>7. CASE ReadUsers(r)
  <2>1. \A ids \in SUBSET Users : [build[r] EXCEPT !.todo = ids, !.ranked = ids] \in GoodBuild
    BY <1>0 DEF GoodBuild, Build
  <2>2. build' \in [Slots -> GoodBuild]
    BY <1>0, <1>7, <2>1, AfterStatsGood, BuildSlot DEF ReadUsers, Oldest
  <2>3. alone' \in BOOLEAN /\ reported' \in BOOLEAN /\ listed' \subseteq Users
    BY <1>0, <1>7 DEF ReadUsers, Oldest, RankingOK
  <2>4. QED BY <1>7, <1>a, <2>2, <2>3 DEF ReadUsers, RewardsOK, RankingOK
<1>8. CASE ReadStats(r)
  <2>1. \A u \in Users : [build[r] EXCEPT !.todo = @ \ {u}, !.wins[u] = counted[u]] \in GoodBuild
    BY <1>0 DEF GoodBuild, Build, RewardsOK
  <2>2. build[r].todo \subseteq Users
    BY <1>0 DEF Build
  <2>3. build' \in [Slots -> GoodBuild]
    BY <1>8, <2>1, <2>2, AfterStatsGood, BuildSlot DEF ReadStats
  <2>4. QED BY <1>8, <1>a, <2>3 DEF ReadStats, RewardsOK, RankingOK
<1>9. CASE ClearRows(r)
  <2>1. build' \in [Slots -> GoodBuild]
    BY <1>9, BuildGoes DEF ClearRows
  <2>2. QED BY <1>9, <1>a, <2>1 DEF ClearRows, RewardsOK, RankingOK
<1>10. CASE SeekRow(r)
  <2>1. \A b \in BOOLEAN : [build[r] EXCEPT !.pc = "write", !.found = b] \in GoodBuild
    BY <1>0 DEF GoodBuild, Build
  <2>2. [build[r] EXCEPT !.pc = "page", !.again = TRUE] \in GoodBuild
    BY <1>0 DEF GoodBuild, Build
  <2>3. build' \in [Slots -> GoodBuild]
    BY <1>10, <2>1, <2>2, BuildSlot, BuildEnds DEF SeekRow
  <2>4. QED BY <1>10, <1>a, <2>3 DEF SeekRow, RewardsOK, RankingOK
<1>11. CASE WriteRow(r)
  <2> DEFINE q == build[r]
  <2>1. Upcoming(q) \subseteq Users /\ \A u \in Users : q.wins[u] \in Nat /\ Rank(q, u) \in Nat
    BY <1>0, RankType DEF Upcoming, Build
  <2>3. \A u \in Users : [q EXCEPT !.pc = "seek", !.todo = @ \ {u}] \in GoodBuild
    BY <1>0 DEF GoodBuild, Build
  <2>4. PICK u \in Users :
          /\ \/ /\ rows' = {IF w \in First(RowsOf(u))
                            THEN [w EXCEPT !.wins = q.wins[u], !.rank = Rank(q, u)] ELSE w : w \in rows}
                /\ nextRow' = nextRow
             \/ /\ rows' = rows \cup {[id |-> nextRow, user |-> u, wins |-> q.wins[u], rank |-> Rank(q, u)]}
                /\ nextRow' = nextRow + 1
          /\ BuildStep(r, [q EXCEPT !.pc = "seek", !.todo = @ \ {u}])
    BY <1>11, <2>1 DEF WriteRow
  <2>5. rows' \subseteq Row /\ nextRow' \in Nat
    BY <2>1, <2>4, RowWritten DEF RankingOK
  <2>6. build' \in [Slots -> GoodBuild]
    BY <2>3, <2>4, BuildSlot
  <2>7. QED BY <1>11, <1>a, <2>5, <2>6 DEF WriteRow, RewardsOK, RankingOK
<1>12. CASE KillBuild(r)
  <2>1. build' \in [Slots -> GoodBuild]
    BY <1>12, BuildEnds DEF KillBuild
  <2>2. QED BY <1>12, <1>a, <2>1 DEF KillBuild, RewardsOK, RankingOK
<1>13. QED
  BY <1>1, <1>2, <1>3, <1>4, <1>5, <1>6, <1>7, <1>8, <1>9, <1>10, <1>11, <1>12 DEF RankingStep

LEMMA ExpireTypes ==
    ASSUME RankingOK, RewardsOK, build \in [Slots -> GoodBuild], ExpirePage
    PROVE  /\ RankingOK' /\ build' \in [Slots -> GoodBuild]
           /\ jobs' \in Nat /\ reported' \in BOOLEAN
<1>1. copy' \subseteq SUBSET Row /\ Cardinality(copy') <= 1
  BY FS_EmptySet DEF ExpirePage
<1>2. QED BY <1>1 DEF ExpirePage, RewardsOK, RankingOK

(***************************************************************************)
(* Profile.                                                                *)
(***************************************************************************)
LEMMA VisitSlot ==
    ASSUME visit \in [Slots -> GoodVisit], NEW r \in Slots, NEW q \in GoodVisit, VisitStep(r, q)
    PROVE  visit' \in [Slots -> GoodVisit]
BY DEF VisitStep

LEMMA VisitGoes ==
    ASSUME visit \in [Slots -> GoodVisit], NEW r \in Slots, visit[r].pc # "idle",
           NEW label \in {"new_kit", "wallet", "new_wallet", "page"}, VisitGoto(r, label)
    PROVE  visit' \in [Slots -> GoodVisit]
<1> DEFINE q == [visit[r] EXCEPT !.pc = label]
<1>1. q \in GoodVisit
  BY DEF GoodVisit, Visit
<1>2. QED BY <1>1, VisitSlot DEF VisitGoto

LEMMA VisitEnds ==
    ASSUME visit \in [Slots -> GoodVisit], NEW r \in Slots, VisitEnd(r)
    PROVE  visit' \in [Slots -> GoodVisit]
<1>1. NoVisit \in GoodVisit
  BY DEF NoVisit, GoodVisit, Visit
<1>2. QED BY <1>1, VisitSlot DEF VisitEnd

LEMMA VisitBegins ==
    ASSUME ProfileOK, RewardsOK, visit \in [Slots -> GoodVisit], NEW r \in Slots, NEW u \in Users,
           NEW whole \in BOOLEAN, VisitBegin(r, u, whole)
    PROVE  ProfileOK' /\ visit' \in [Slots -> GoodVisit]
<1> DEFINE q == [NoVisit EXCEPT !.pc = IF whole THEN "scores" ELSE "kit", !.by = u,
                                !.page = whole, !.before = counted[u]]
<1>1. q \in GoodVisit
  BY DEF NoVisit, GoodVisit, Visit, RewardsOK
<1>2. visit' \in [Slots -> GoodVisit]
  BY <1>1, VisitSlot DEF VisitBegin
<1>3. QED BY <1>2 DEF VisitBegin, ProfileOK, GoodVisit

LEMMA ProfileTypes ==
    ASSUME ProfileOK, RankingOK, RewardsOK, RequestsOK, visit \in [Slots -> GoodVisit],
           NEW r \in Slots, ProfileStep(r)
    PROVE  /\ ProfileOK' /\ visit' \in [Slots -> GoodVisit]
           /\ wallets' \subseteq Wallet /\ nextWallet' \in Nat
<1>0. visit[r] \in GoodVisit /\ visit[r] \in Visit /\ alive \subseteq Users
  BY DEF GoodVisit, RequestsOK
<1>a. ASSUME visit' \in [Slots -> GoodVisit] PROVE visit' \in [Slots -> Visit]
  BY <1>a DEF GoodVisit
<1>1. CASE ProfileBegin(r)
  BY <1>0, <1>1, VisitBegins DEF ProfileBegin, VisitBegin, RewardsOK
<1>2. CASE InventoryBegin(r)
  BY <1>0, <1>2, VisitBegins DEF InventoryBegin, VisitBegin, RewardsOK
<1>3. CASE ReadScores(r)
  <2>1. visit[r].by \in Users
    BY <1>0, <1>3 DEF ReadScores, VisitAt, GoodVisit
  <2>2. [visit[r] EXCEPT !.pc = "kit", !.wins = counted[visit[r].by]] \in GoodVisit
    BY <1>0, <2>1 DEF GoodVisit, Visit, RewardsOK
  <2>3. visit' \in [Slots -> GoodVisit]
    BY <1>3, <2>2, VisitSlot DEF ReadScores
  <2>4. QED BY <1>3, <1>a, <2>3 DEF ReadScores, ProfileOK, RewardsOK
<1>4. CASE FindKit(r)
  <2>1. visit' \in [Slots -> GoodVisit]
    BY <1>4, VisitGoes, VisitEnds DEF FindKit, AfterKit, VisitAt
  <2>2. QED BY <1>4, <1>a, <2>1 DEF FindKit, ProfileOK, RewardsOK
<1>5. CASE NewKit(r)
  <2>1. visit[r].by \in Users /\ visit[r].pc # "idle"
    BY <1>0, <1>5 DEF NewKit, VisitAt, GoodVisit
  <2>2. kits' \in [Users -> Nat]
    BY <1>5, <2>1 DEF NewKit, ProfileOK
  <2>3. visit' \in [Slots -> GoodVisit]
    BY <1>5, <2>1, VisitGoes, VisitEnds DEF NewKit, AfterKit
  <2>4. QED BY <1>5, <1>a, <2>2, <2>3 DEF NewKit, ProfileOK, RewardsOK
<1>6. CASE ReadWallet(r)
  <2>1. visit[r].by \in Users /\ visit[r].pc # "idle"
    BY <1>0, <1>6 DEF ReadWallet, VisitAt, GoodVisit
  <2>2. \A w \in First(WalletsOf(visit[r].by)) : w.balance \in Nat
    BY DEF First, WalletsOf, RewardsOK, Wallet
  <2>3. \A n \in Nat : [visit[r] EXCEPT !.pc = "row", !.coins = n] \in GoodVisit
    BY <1>0, <2>1 DEF GoodVisit, Visit
  <2>4. visit' \in [Slots -> GoodVisit]
    BY <1>6, <2>1, <2>2, <2>3, VisitSlot, VisitGoes DEF ReadWallet
  <2>5. QED BY <1>6, <1>a, <2>4 DEF ReadWallet, ProfileOK, RewardsOK
<1>7. CASE NewWallet(r)
  <2>1. visit[r].by \in Users /\ visit[r].pc # "idle"
    BY <1>0, <1>7 DEF NewWallet, VisitAt, GoodVisit
  <2>2. [visit[r] EXCEPT !.pc = "row", !.coins = Opening] \in GoodVisit
    <3>1. \A n \in Nat : [visit[r] EXCEPT !.pc = "row", !.coins = n] \in GoodVisit
      BY <1>0, <2>1 DEF GoodVisit, Visit
    <3>2. Opening \in Nat
      BY DEF Opening
    <3>3. QED BY <3>1, <3>2
  <2>3. visit' \in [Slots -> GoodVisit]
    BY <1>7, <2>2, VisitSlot DEF NewWallet
  <2>4. wallets' \subseteq Wallet /\ nextWallet' \in Nat
    BY <1>7, <2>1, NewWalletType DEF NewWallet, RewardsOK
  <2>5. QED BY <1>7, <1>a, <2>3, <2>4 DEF NewWallet, ProfileOK
<1>8. CASE ReadRow(r)
  <2>1. visit[r].by \in Users /\ visit[r].pc # "idle"
    BY <1>0, <1>8 DEF ReadRow, VisitAt, GoodVisit
  <2>2. \A w \in First(RowsOf(visit[r].by)) : w.rank \in Nat
    BY DEF First, RowsOf, RankingOK, Row
  <2>3. \A n \in Nat : [visit[r] EXCEPT !.pc = "page", !.rank = n] \in GoodVisit
    BY <1>0, <2>1 DEF GoodVisit, Visit
  <2>4. visit' \in [Slots -> GoodVisit]
    BY <1>8, <2>1, <2>2, <2>3, VisitSlot, VisitGoes DEF ReadRow
  <2>5. QED BY <1>8, <1>a, <2>4 DEF ReadRow, ProfileOK, RewardsOK
<1>9. CASE Show(r)
  BY <1>9, <1>a, VisitEnds DEF Show, ProfileOK, RewardsOK
<1>10. CASE KillVisit(r)
  BY <1>10, <1>a, VisitEnds DEF KillVisit, ProfileOK, RewardsOK
<1>11. QED
  BY <1>1, <1>2, <1>3, <1>4, <1>5, <1>6, <1>7, <1>8, <1>9, <1>10 DEF ProfileStep

(***************************************************************************)
(* Profile media.                                                          *)
(***************************************************************************)
LEMMA UploadSlot ==
    ASSUME upload \in [Slots -> GoodUpload], NEW r \in Slots, NEW q \in GoodUpload, UploadStep(r, q)
    PROVE  upload' \in [Slots -> GoodUpload]
BY DEF UploadStep

LEMMA UploadGoes ==
    ASSUME upload \in [Slots -> GoodUpload], NEW r \in Slots, upload[r].pc # "idle",
           NEW label \in {"point", "delete"}, UploadGoto(r, label)
    PROVE  upload' \in [Slots -> GoodUpload]
<1> DEFINE q == [upload[r] EXCEPT !.pc = label]
<1>1. q \in GoodUpload
  BY DEF GoodUpload, Upload
<1>2. QED BY <1>1, UploadSlot DEF UploadGoto

LEMMA UploadEnds ==
    ASSUME upload \in [Slots -> GoodUpload], NEW r \in Slots, UploadEnd(r)
    PROVE  upload' \in [Slots -> GoodUpload]
<1>1. NoUpload \in GoodUpload
  BY DEF NoUpload, GoodUpload, Upload
<1>2. QED BY <1>1, UploadSlot DEF UploadEnd

LEMMA MediaTypes ==
    ASSUME MediaOK, RequestsOK, upload \in [Slots -> GoodUpload], NEW r \in Slots, MediaStep(r)
    PROVE  MediaOK' /\ upload' \in [Slots -> GoodUpload]
<1>0. upload[r] \in GoodUpload /\ upload[r] \in Upload /\ alive \subseteq Users
  BY DEF GoodUpload, RequestsOK
<1>a. ASSUME upload' \in [Slots -> GoodUpload] PROVE upload' \in [Slots -> Upload]
  BY <1>a DEF GoodUpload
<1>b. upload[r].pc # "idle" => upload[r].by \in Users /\ [key |-> upload[r].key, user |-> upload[r].by] \in Object
  BY <1>0 DEF GoodUpload, Upload, Object
<1>1. CASE UploadBegin(r)
  <2>1. \A u \in Users : [pc |-> "put", by |-> u, key |-> nextKey, old |-> media[u]] \in GoodUpload
    BY DEF GoodUpload, Upload, MediaOK
  <2>2. upload' \in [Slots -> GoodUpload]
    BY <1>0, <1>1, <2>1, UploadSlot DEF UploadBegin
  <2>3. messy' \subseteq Users
    BY <1>0, <1>1 DEF UploadBegin, MediaOK
  <2>4. nextKey' \in Nat
    BY <1>1 DEF UploadBegin, MediaOK
  <2>5. QED BY <1>1, <1>a, <2>2, <2>3, <2>4 DEF UploadBegin, MediaOK
<1>2. CASE PutObject(r)
  <2>1. upload' \in [Slots -> GoodUpload]
    BY <1>2, UploadGoes, UploadEnds DEF PutObject, UploadAt
  <2>2. bucket' \subseteq Object /\ messy' \subseteq Users
    BY <1>2, <1>b DEF PutObject, UploadAt, Store, MediaOK
  <2>3. QED BY <1>2, <1>a, <2>1, <2>2 DEF PutObject, MediaOK
<1>3. CASE PointProfile(r)
  <2>1. upload' \in [Slots -> GoodUpload]
    BY <1>3, UploadGoes, UploadEnds DEF PointProfile, UploadAt
  <2>2. media' \in [Users -> Nat]
    BY <1>0, <1>3 DEF PointProfile, MediaOK, Upload
  <2>3. QED BY <1>3, <1>a, <2>1, <2>2 DEF PointProfile, MediaOK
<1>4. CASE DeleteOld(r)
  <2>1. upload' \in [Slots -> GoodUpload]
    BY <1>4, UploadEnds DEF DeleteOld
  <2>2. bucket' \subseteq Object /\ messy' \subseteq Users
    BY <1>4, <1>b DEF DeleteOld, UploadAt, MediaOK
  <2>3. QED BY <1>4, <1>a, <2>1, <2>2 DEF DeleteOld, MediaOK
<1>5. CASE KillUpload(r)
  <2>1. upload' \in [Slots -> GoodUpload]
    BY <1>5, UploadEnds DEF KillUpload
  <2>2. bucket' \subseteq Object /\ messy' \subseteq Users
    BY <1>5, <1>b DEF KillUpload, UploadAt, Store, MediaOK
  <2>3. QED BY <1>5, <1>a, <2>1, <2>2 DEF KillUpload, MediaOK
<1>6. QED BY <1>1, <1>2, <1>3, <1>4, <1>5 DEF MediaStep

(***************************************************************************)
(* Social.                                                                 *)
(***************************************************************************)
AskPC == {"idle", "pending", "insert", "ask_notice", "answer", "befriend", "accept_notice",
          "creator_seat", "joiner_seat", "game_mode", "challenger", "welcome", "friends"}

LEMMA AskSlot ==
    ASSUME ask \in [Slots -> GoodAsk], NEW r \in Slots, NEW q \in GoodAsk, AskStep(r, q)
    PROVE  ask' \in [Slots -> GoodAsk]
BY DEF AskStep

LEMMA AskGoes ==
    ASSUME ask \in [Slots -> GoodAsk], NEW r \in Slots, ask[r].pc \notin {"idle", "welcome", "friends"},
           NEW label \in AskPC \ {"idle", "welcome", "friends"}, AskGoto(r, label)
    PROVE  ask' \in [Slots -> GoodAsk]
<1> DEFINE q == [ask[r] EXCEPT !.pc = label]
<1>1. q \in GoodAsk
  BY DEF GoodAsk, Ask, AskPC
<1>2. QED BY <1>1, AskSlot DEF AskGoto

LEMMA AskEnds ==
    ASSUME ask \in [Slots -> GoodAsk], NEW r \in Slots, AskEnd(r)
    PROVE  ask' \in [Slots -> GoodAsk]
<1>1. NoAsk \in GoodAsk
  BY DEF NoAsk, GoodAsk, Ask
<1>2. QED BY <1>1, AskSlot DEF AskEnd

\* What the beginnings of requests put into a slot.
LEMMA AskFresh ==
    ASSUME NEW u \in Users, NEW v \in Users
    PROVE  /\ [NoAsk EXCEPT !.pc = "pending", !.by = u, !.other = v] \in GoodAsk
           /\ \A i \in Nat : [NoAsk EXCEPT !.pc = "creator_seat", !.by = u, !.other = v, !.doc = i] \in GoodAsk
           /\ \A i \in Nat, b \in BOOLEAN :
                [NoAsk EXCEPT !.pc = "answer", !.by = u, !.other = v, !.doc = i, !.accept = b] \in GoodAsk
           /\ [NoAsk EXCEPT !.pc = "welcome", !.by = u] \in GoodAsk
           /\ \A S \in SUBSET Users : [NoAsk EXCEPT !.pc = "friends", !.by = u, !.todo = S] \in GoodAsk
BY DEF NoAsk, GoodAsk, Ask

LEMMA SendType ==
    ASSUME inbox \subseteq Notification, nextDoc \in Nat, NEW kind \in Kind, NEW u \in Users, NEW g \in Nat,
           Send(kind, u, g)
    PROVE  inbox' \subseteq Notification /\ nextDoc' \in Nat
<1>1. [id |-> nextDoc, user |-> u, kind |-> kind, game |-> g, unread |-> TRUE] \in Notification
  BY DEF Notification
<1>2. /\ inbox' = inbox \cup {[id |-> nextDoc, user |-> u, kind |-> kind, game |-> g, unread |-> TRUE]}
      /\ nextDoc' = nextDoc + 1
  BY DEF Send
<1>3. inbox' \subseteq Notification
  BY <1>1, <1>2, Zenon
<1>4. nextDoc' \in Nat
  BY <1>2
<1>5. QED BY <1>3, <1>4

LEMMA SocialTypes ==
    ASSUME SocialOK, RequestsOK, ask \in [Slots -> GoodAsk],
           (\E r \in Slots : SocialStep(r)) \/ RemoveFriend \/ PlayPrivateGame \/ MarkRead
    PROVE  SocialOK' /\ ask' \in [Slots -> GoodAsk]
<1>0. /\ alive \subseteq Users /\ nextDoc \in Nat
      /\ requests \subseteq FriendRequest /\ friendships \subseteq Friendship
      /\ games \subseteq PrivateGame /\ inbox \subseteq Notification
  BY DEF RequestsOK, SocialOK
<1>a. ASSUME ask' \in [Slots -> GoodAsk] PROVE ask' \in [Slots -> Ask]
  BY <1>a DEF GoodAsk
<1>b. ASSUME NEW r \in Slots
      PROVE  /\ ask[r] \in GoodAsk /\ ask[r].doc \in Nat /\ ask[r].accept \in BOOLEAN
             /\ ask[r].pc # "idle" => ask[r].by \in Users
             /\ ask[r].pc \notin {"idle", "welcome", "friends"} => ask[r].other \in Users
  BY DEF GoodAsk, Ask
<1>1. ASSUME NEW r \in Slots, AskFriendBegin(r) PROVE SocialOK' /\ ask' \in [Slots -> GoodAsk]
  <2>1. ask' \in [Slots -> GoodAsk]
    BY <1>0, <1>1, AskFresh, AskSlot DEF AskFriendBegin, AskBegin
  <2>2. QED BY <1>1, <1>a, <2>1 DEF AskFriendBegin, SocialOK
<1>2. ASSUME NEW r \in Slots, CheckPending(r) PROVE SocialOK' /\ ask' \in [Slots -> GoodAsk]
  <2>1. ask' \in [Slots -> GoodAsk]
    BY <1>2, AskGoes, AskEnds DEF CheckPending, AskAt, AskPC
  <2>2. QED BY <1>2, <1>a, <2>1 DEF CheckPending, SocialOK
<1>3. ASSUME NEW r \in Slots, InsertRequest(r) PROVE SocialOK' /\ ask' \in [Slots -> GoodAsk]
  <2>1. ask[r].by \in Users /\ ask[r].other \in Users /\ ask[r].pc = "insert"
    BY <1>3, <1>b DEF InsertRequest, AskAt
  <2>2. ask' \in [Slots -> GoodAsk]
    BY <1>3, <2>1, AskGoes DEF InsertRequest, AskPC
  <2>3. requests' \subseteq FriendRequest /\ nextDoc' \in Nat
    BY <1>0, <1>3, <2>1 DEF InsertRequest, FriendRequest
  <2>4. asked' \subseteq Users \X Users
    BY <1>3, <2>1 DEF InsertRequest, SocialOK
  <2>5. QED BY <1>3, <1>a, <2>2, <2>3, <2>4 DEF InsertRequest, SocialOK
<1>4. ASSUME NEW r \in Slots, TellFriend(r) PROVE SocialOK' /\ ask' \in [Slots -> GoodAsk]
  <2>1. ask[r].other \in Users
    BY <1>4, <1>b DEF TellFriend, AskAt
  <2>2. inbox' \subseteq Notification /\ nextDoc' \in Nat
    BY <1>0, <1>4, <2>1, SendType DEF TellFriend, Kind
  <2>3. ask' \in [Slots -> GoodAsk]
    BY <1>4, AskEnds DEF TellFriend
  <2>4. QED BY <1>4, <1>a, <2>2, <2>3 DEF TellFriend, SocialOK
<1>5. ASSUME NEW r \in Slots, RespondBegin(r) PROVE SocialOK' /\ ask' \in [Slots -> GoodAsk]
  <2>1. PICK q \in requests, accept \in BOOLEAN : \E u \in alive \cap {q.to} :
          /\ AskBegin(r, [NoAsk EXCEPT !.pc = "answer", !.by = u, !.other = q.from,
                                       !.doc = q.id, !.accept = accept])
          /\ agreed' = IF accept THEN agreed \cup {<<q.from, u>>} ELSE agreed
          /\ crossed' = CrossedBy(q)
    BY <1>5 DEF RespondBegin
  <2>2. q.from \in Users /\ q.to \in Users /\ q.id \in Nat
    BY <1>0 DEF FriendRequest
  <2>3. ask' \in [Slots -> GoodAsk]
    BY <2>1, <2>2, AskFresh, AskSlot DEF AskBegin
  <2>4. agreed' \subseteq Users \X Users
    BY <2>1, <2>2 DEF SocialOK
  <2>5. crossed' \subseteq Users \X Users
    BY <2>1, <2>2 DEF SocialOK, CrossedBy
  <2>6. QED BY <1>5, <1>a, <2>3, <2>4, <2>5 DEF RespondBegin, SocialOK
<1>6. ASSUME NEW r \in Slots, AnswerRequest(r) PROVE SocialOK' /\ ask' \in [Slots -> GoodAsk]
  <2>1. ask' \in [Slots -> GoodAsk]
    BY <1>6, AskGoes, AskEnds DEF AnswerRequest, AskAt, AskPC
  <2>2. \A q \in requests, t \in {"accepted", "rejected"} :
          q \in FriendRequest /\ [q EXCEPT !.status = t] \in FriendRequest
    BY <1>0 DEF FriendRequest
  <2>3. requests' \subseteq FriendRequest
    BY <1>6, <2>2 DEF AnswerRequest
  <2>4. QED BY <1>6, <1>a, <2>1, <2>3 DEF AnswerRequest, SocialOK
<1>7. ASSUME NEW r \in Slots, Befriend(r) PROVE SocialOK' /\ ask' \in [Slots -> GoodAsk]
  <2>1. ask[r].by \in Users /\ ask[r].other \in Users /\ ask[r].pc = "befriend"
    BY <1>7, <1>b DEF Befriend, AskAt
  <2>2. ask' \in [Slots -> GoodAsk]
    BY <1>7, <2>1, AskGoes DEF Befriend, AskPC
  <2>3. friendships' \subseteq Friendship /\ nextDoc' \in Nat
    BY <1>0, <1>7, <2>1 DEF Befriend, Friendship
  <2>4. QED BY <1>7, <1>a, <2>2, <2>3 DEF Befriend, SocialOK
<1>8. ASSUME NEW r \in Slots, SocialPageBegin(r) PROVE SocialOK' /\ ask' \in [Slots -> GoodAsk]
  <2>1. \A u \in Users : Friends(u) \subseteq Users
    BY <1>0 DEF Friends, Friendship
  <2>2. ask' \in [Slots -> GoodAsk]
    BY <1>0, <1>8, <2>1, AskFresh, AskSlot DEF SocialPageBegin, AskBegin
  <2>3. QED BY <1>8, <1>a, <2>2 DEF SocialPageBegin, SocialOK
<1>9. ASSUME NEW r \in Slots, ReadFriend(r) PROVE SocialOK' /\ ask' \in [Slots -> GoodAsk]
  <2>1. \A u \in Users : [ask[r] EXCEPT !.todo = @ \ {u}, !.shown = @ \cup {u}] \in GoodAsk
    BY <1>9 DEF GoodAsk, Ask
  <2>2. ask[r].todo \subseteq Users
    BY <1>9 DEF GoodAsk, Ask
  <2>3. ask' \in [Slots -> GoodAsk]
    BY <1>9, <2>1, <2>2, AskSlot, AskEnds DEF ReadFriend
  <2>4. QED BY <1>9, <1>a, <2>3 DEF ReadFriend, SocialOK
<1>10. ASSUME NEW r \in Slots, ShowFriends(r) PROVE SocialOK' /\ ask' \in [Slots -> GoodAsk]
  BY <1>10, <1>a, AskEnds DEF ShowFriends, SocialOK
<1>11. ASSUME NEW r \in Slots, ChallengeBegin(r) PROVE SocialOK' /\ ask' \in [Slots -> GoodAsk]
  <2>1. ask' \in [Slots -> GoodAsk]
    BY <1>0, <1>11, AskFresh, AskSlot DEF ChallengeBegin, AskBegin, Known
  <2>2. games' \subseteq PrivateGame /\ nextDoc' \in Nat
    BY <1>0, <1>11 DEF ChallengeBegin, PrivateGame
  <2>3. QED BY <1>11, <1>a, <2>1, <2>2 DEF ChallengeBegin, SocialOK
<1>12. ASSUME NEW r \in Slots, SeatCreator(r) \/ SeatJoiner(r) \/ SetMode(r)
       PROVE  SocialOK' /\ ask' \in [Slots -> GoodAsk]
  <2>1. /\ ask[r].by \in Users /\ ask[r].other \in Users
        /\ ask[r].pc \in {"creator_seat", "joiner_seat", "game_mode"}
    BY <1>12, <1>b DEF SeatCreator, SeatJoiner, SetMode, AskAt
  <2>2. ask' \in [Slots -> GoodAsk]
    BY <1>12, <2>1, AskGoes DEF SeatCreator, SeatJoiner, SetMode, AskPC
  <2>3. \A g \in games : /\ [g EXCEPT !.creator = ask[r].by] \in PrivateGame
                         /\ [g EXCEPT !.joiner = ask[r].other] \in PrivateGame
                         /\ [g EXCEPT !.mode = "friend"] \in PrivateGame
    BY <1>0, <2>1 DEF PrivateGame
  <2>4. ASSUME NEW g \in games' PROVE g \in PrivateGame
    <3>1. CASE SeatCreator(r)
      BY <1>0, <2>3, <2>4, <3>1 DEF SeatCreator
    <3>2. CASE SeatJoiner(r)
      BY <1>0, <2>3, <2>4, <3>2 DEF SeatJoiner
    <3>3. CASE SetMode(r)
      BY <1>0, <2>3, <2>4, <3>3 DEF SetMode
    <3>4. QED BY <1>12, <3>1, <3>2, <3>3
  <2>5. QED BY <1>12, <1>a, <2>2, <2>4 DEF SeatCreator, SeatJoiner, SetMode, SocialOK
<1>13. ASSUME NEW r \in Slots, TellChallenged(r) PROVE SocialOK' /\ ask' \in [Slots -> GoodAsk]
  <2>1. ask[r].other \in Users /\ ask[r].doc \in Nat
    BY <1>13, <1>b DEF TellChallenged, AskAt
  <2>2. inbox' \subseteq Notification /\ nextDoc' \in Nat
    BY <1>0, <1>13, <2>1, SendType DEF TellChallenged, Kind
  <2>3. ask' \in [Slots -> GoodAsk]
    BY <1>13, AskEnds DEF TellChallenged
  <2>4. QED BY <1>13, <1>a, <2>2, <2>3 DEF TellChallenged, SocialOK
<1>14. ASSUME NEW r \in Slots, InboxBegin(r) PROVE SocialOK' /\ ask' \in [Slots -> GoodAsk]
  <2>1. ask' \in [Slots -> GoodAsk]
    BY <1>0, <1>14, AskFresh, AskSlot DEF InboxBegin, AskBegin
  <2>2. hasty' \subseteq Users
    BY <1>0, <1>14 DEF InboxBegin, SocialOK
  <2>3. QED BY <1>14, <1>a, <2>1, <2>2 DEF InboxBegin, SocialOK
<1>15. ASSUME NEW r \in Slots, Welcome(r) PROVE SocialOK' /\ ask' \in [Slots -> GoodAsk]
  <2>1. ask[r].by \in Users
    BY <1>15, <1>b DEF Welcome, AskAt
  <2>2. inbox' \subseteq Notification /\ nextDoc' \in Nat
    BY <1>0, <1>15, <2>1, SendType DEF Welcome, Kind
  <2>3. ask' \in [Slots -> GoodAsk]
    BY <1>15, AskEnds DEF Welcome
  <2>4. QED BY <1>15, <1>a, <2>2, <2>3 DEF Welcome, SocialOK
<1>16. ASSUME NEW r \in Slots, KillAsk(r) PROVE SocialOK' /\ ask' \in [Slots -> GoodAsk]
  BY <1>16, <1>a, AskEnds DEF KillAsk, SocialOK
<1>17. CASE RemoveFriend
  BY <1>0, <1>17 DEF RemoveFriend, SocialOK
<1>18. CASE MarkRead
  <2>1. \A n \in inbox : [n EXCEPT !.unread = FALSE] \in Notification
    BY <1>0 DEF Notification
  <2>2. inbox' \subseteq Notification
    BY <1>0, <1>18, <2>1 DEF MarkRead
  <2>3. QED BY <1>18, <2>2 DEF MarkRead, SocialOK
<1>19. CASE PlayPrivateGame
  <2>1. \A g \in games, t \in {"live", "over"} : [g EXCEPT !.status = t] \in PrivateGame
    BY <1>0 DEF PrivateGame
  <2>2. games' \subseteq PrivateGame
    BY <1>0, <1>19, <2>1 DEF PlayPrivateGame
  <2>3. QED BY <1>19, <2>2 DEF PlayPrivateGame, SocialOK
<1>20. QED
  BY <1>1, <1>2, <1>3, <1>4, <1>5, <1>6, <1>7, <1>8, <1>9, <1>10, <1>11, <1>12, <1>13, <1>14, <1>15,
     <1>16, <1>17, <1>18, <1>19 DEF SocialStep

(***************************************************************************)
(* Learning.                                                               *)
(***************************************************************************)
LEMMA StudySlot ==
    ASSUME StudyOK, NEW r \in Slots, NEW q \in GoodStudy, q.pc \in {"guess", "answer"} => q.doc \in DOMAIN sessions,
           StudyStep(r, q)
    PROVE  /\ study' \in [Slots -> GoodStudy]
           /\ \A s \in Slots : study'[s].pc \in {"guess", "answer"} => study'[s].doc \in DOMAIN sessions
BY DEF StudyOK, StudyStep, StudyAt

LEMMA StudyEnds ==
    ASSUME StudyOK, NEW r \in Slots, StudyEnd(r)
    PROVE  /\ study' \in [Slots -> GoodStudy]
           /\ \A s \in Slots : study'[s].pc \in {"guess", "answer"} => study'[s].doc \in DOMAIN sessions
<1>1. NoStudy \in GoodStudy /\ NoStudy.pc \notin {"guess", "answer"}
  BY DEF NoStudy, GoodStudy, Study
<1>2. QED BY <1>1, StudySlot DEF StudyEnd

LEMMA LearningTypes ==
    ASSUME LearningOK, RequestsOK, StudyOK,
           (\E r \in Slots : LearningStep(r)) \/ OpenSession \/ CompleteLesson
    PROVE  LearningOK' /\ StudyOK'
<1>0. alive \subseteq Users /\ sessions \in Seq(Session) /\ answered \in Seq(Nat) /\ posted \in Seq(Nat)
  BY DEF RequestsOK, LearningOK
<1>a. ASSUME study' \in [Slots -> GoodStudy] PROVE study' \in [Slots -> Study]
  BY <1>a DEF GoodStudy
<1>b. ASSUME NEW r \in Slots
      PROVE  /\ study[r] \in GoodStudy /\ study[r] \in Study /\ study[r].num \in Nat
             /\ study[r].pc # "idle" => study[r].by \in Users
             /\ study[r].pc \in {"guess", "answer"} =>
                  study[r].doc \in DOMAIN sessions /\ study[r].doc \in DOMAIN answered
  BY DEF StudyOK, StudyAt, GoodStudy, Study
<1>1. ASSUME NEW r \in Slots, PracticeBegin(r) PROVE LearningOK' /\ StudyOK'
  <2>1. PICK id \in DOMAIN sessions :
          /\ sessions[id].user \in alive
          /\ StudyBegin(r, [NoStudy EXCEPT !.pc = "guess", !.by = sessions[id].user, !.doc = id,
                                           !.num = sessions[id].attempts])
          /\ posted' = [posted EXCEPT ![id] = @ + 1]
          /\ doubled' = IF Guessing(id) = {} THEN doubled ELSE doubled \cup {id}
    BY <1>1 DEF PracticeBegin
  <2>2. id \in Nat /\ sessions[id] \in Session
    BY <1>0
  <2>3. [NoStudy EXCEPT !.pc = "guess", !.by = sessions[id].user, !.doc = id,
                        !.num = sessions[id].attempts] \in GoodStudy
    BY <2>2 DEF NoStudy, GoodStudy, Study, Session
  <2>4. doubled' \subseteq Nat
    BY <2>1, <2>2 DEF LearningOK
  <2>5. /\ study' \in [Slots -> GoodStudy]
        /\ \A s \in Slots : study'[s].pc \in {"guess", "answer"} => study'[s].doc \in DOMAIN sessions
    <3> DEFINE q == [NoStudy EXCEPT !.pc = "guess", !.by = sessions[id].user, !.doc = id,
                                    !.num = sessions[id].attempts]
    <3>1. q.doc = id
      BY DEF NoStudy
    <3>2. q \in GoodStudy /\ StudyStep(r, q)
      BY <2>1, <2>3 DEF StudyBegin
    <3> HIDE DEF q
    <3>3. QED BY <3>1, <3>2, StudySlot
  <2>6. posted' \in Seq(Nat) /\ DOMAIN posted' = DOMAIN posted
    <3>1. id \in DOMAIN posted
      BY <2>1 DEF StudyOK
    <3>2. posted[id] \in Nat /\ posted' = [posted EXCEPT ![id] = posted[id] + 1]
      BY <1>0, <2>1, <3>1
    <3>3. QED BY <1>0, <3>1, <3>2
  <2>7. QED BY <1>1, <1>a, <2>4, <2>5, <2>6 DEF PracticeBegin, LearningOK, StudyOK, StudyAt
<1>2. ASSUME NEW r \in Slots, WriteAttempts(r) PROVE LearningOK' /\ StudyOK'
  <2> DEFINE i == study[r].doc
             q == [study[r] EXCEPT !.pc = "answer"]
  <2>1. i \in DOMAIN sessions /\ study[r].num \in Nat
    BY <1>2, <1>b DEF WriteAttempts, StudyAt
  <2>2. sessions[i] \in Session
    BY <1>0, <2>1
  <2>3. [sessions[i] EXCEPT !.attempts = study[r].num + 1] \in Session
    BY <2>1, <2>2 DEF Session
  <2>4. sessions' = [sessions EXCEPT ![i] = [sessions[i] EXCEPT !.attempts = study[r].num + 1]]
    BY <1>2 DEF WriteAttempts
  <2>5. q \in GoodStudy /\ q.doc = i /\ StudyStep(r, q)
    BY <1>2, <1>b DEF WriteAttempts, StudyAt, GoodStudy, Study
  <2> HIDE DEF i, q
  <2>6. sessions' \in Seq(Session) /\ DOMAIN sessions' = DOMAIN sessions
    BY <1>0, <2>1, <2>3, <2>4
  <2>7. /\ study' \in [Slots -> GoodStudy]
        /\ \A s \in Slots : study'[s].pc \in {"guess", "answer"} => study'[s].doc \in DOMAIN sessions
    BY <2>1, <2>5, StudySlot
  <2>8. QED BY <1>2, <1>a, <2>6, <2>7 DEF WriteAttempts, LearningOK, StudyOK, StudyAt
<1>10. ASSUME NEW r \in Slots, AnswerGuess(r) PROVE LearningOK' /\ StudyOK'
  <2> DEFINE i == study[r].doc
  <2>1. i \in DOMAIN sessions /\ i \in DOMAIN answered
    BY <1>10, <1>b DEF AnswerGuess, StudyAt
  <2>2. answered[i] \in Nat
    BY <1>0, <2>1
  <2>3. answered' = [answered EXCEPT ![i] = answered[i] + 1]
    BY <1>10 DEF AnswerGuess
  <2> HIDE DEF i
  <2>4. answered' \in Seq(Nat) /\ DOMAIN answered' = DOMAIN answered
    BY <1>0, <2>1, <2>2, <2>3
  <2>5. /\ study' \in [Slots -> GoodStudy]
        /\ \A s \in Slots : study'[s].pc \in {"guess", "answer"} => study'[s].doc \in DOMAIN sessions
    BY <1>10, StudyEnds DEF AnswerGuess
  <2>6. QED BY <1>10, <1>a, <2>4, <2>5 DEF AnswerGuess, LearningOK, StudyOK, StudyAt
<1>3. ASSUME NEW r \in Slots, CurriculumBegin(r) PROVE LearningOK' /\ StudyOK'
  <2>1. \A u \in Users, l \in {"seed", "progress"} :
          LET q == [NoStudy EXCEPT !.pc = l, !.by = u, !.before = opened[u]] IN q \in GoodStudy /\ q.pc \notin {"guess", "answer"}
    BY DEF NoStudy, GoodStudy, Study, LearningOK
  <2>2. /\ study' \in [Slots -> GoodStudy]
        /\ \A s \in Slots : study'[s].pc \in {"guess", "answer"} => study'[s].doc \in DOMAIN sessions
    BY <1>0, <1>3, <2>1, StudySlot DEF CurriculumBegin, StudyBegin
  <2>3. QED BY <1>3, <1>a, <2>2 DEF CurriculumBegin, LearningOK, StudyOK, StudyAt
<1>4. ASSUME NEW r \in Slots, SeedCurriculum(r) PROVE LearningOK' /\ StudyOK'
  <2>1. [study[r] EXCEPT !.pc = "progress"] \in GoodStudy /\ [study[r] EXCEPT !.pc = "progress"].pc = "progress"
    BY <1>4, <1>b DEF SeedCurriculum, StudyAt, GoodStudy, Study
  <2>2. /\ study' \in [Slots -> GoodStudy]
        /\ \A s \in Slots : study'[s].pc \in {"guess", "answer"} => study'[s].doc \in DOMAIN sessions
    BY <1>4, <2>1, StudySlot DEF SeedCurriculum
  <2>3. curricula' \in Nat
    BY <1>4 DEF SeedCurriculum, LearningOK
  <2>4. QED BY <1>4, <1>a, <2>2, <2>3 DEF SeedCurriculum, LearningOK, StudyOK, StudyAt
<1>5. ASSUME NEW r \in Slots, ReadProgress(r) PROVE LearningOK' /\ StudyOK'
  <2>1. study[r].by \in Users
    BY <1>5, <1>b DEF ReadProgress, StudyAt
  <2>2. progress[study[r].by] \subseteq Chapters
    BY <2>1 DEF LearningOK
  <2>3. \A d \in SUBSET Chapters : LET q == [study[r] EXCEPT !.pc = "page", !.done = d] IN
          q \in GoodStudy /\ q.pc \notin {"guess", "answer"}
    BY <1>5, <1>b, <2>1 DEF GoodStudy, Study
  <2>4. /\ study' \in [Slots -> GoodStudy]
        /\ \A s \in Slots : study'[s].pc \in {"guess", "answer"} => study'[s].doc \in DOMAIN sessions
    BY <1>5, <2>2, <2>3, StudySlot DEF ReadProgress
  <2>5. QED BY <1>5, <1>a, <2>4 DEF ReadProgress, LearningOK, StudyOK, StudyAt
<1>6. ASSUME NEW r \in Slots, ShowPage(r) PROVE LearningOK' /\ StudyOK'
  <2>1. study[r].by \in Users
    BY <1>6, <1>b DEF ShowPage, StudyAt
  <2>2. ShownOpen(study[r].done) \subseteq Chapters
    BY DEF ShownOpen
  <2>3. opened' \in [Users -> SUBSET Chapters]
    BY <1>6, <2>1, <2>2 DEF ShowPage, LearningOK
  <2>4. QED BY <1>6, <1>a, <2>3, StudyEnds DEF ShowPage, LearningOK, StudyOK, StudyAt
<1>7. ASSUME NEW r \in Slots, KillStudy(r) PROVE LearningOK' /\ StudyOK'
  <2>1. cut' \subseteq Nat
    BY <1>7, <1>b DEF KillStudy, LearningOK, Study
  <2>2. QED BY <1>7, <1>a, <2>1, StudyEnds DEF KillStudy, LearningOK, StudyOK, StudyAt
<1>8. CASE OpenSession
  <2>1. PICK u \in Users : sessions' = Append(sessions, [user |-> u, attempts |-> 0])
    BY <1>0, <1>8 DEF OpenSession
  <2>2. [user |-> u, attempts |-> 0] \in Session
    BY DEF Session
  <2>3. sessions' \in Seq(Session) /\ DOMAIN sessions \subseteq DOMAIN sessions'
        /\ DOMAIN sessions' = 1 .. Len(sessions) + 1
    BY <1>0, <2>1, <2>2
  <2>4. /\ answered' \in Seq(Nat) /\ DOMAIN answered' = 1 .. Len(answered) + 1
        /\ posted' \in Seq(Nat) /\ DOMAIN posted' = 1 .. Len(posted) + 1
    BY <1>0, <1>8 DEF OpenSession
  <2>5. Len(answered) = Len(sessions) /\ Len(posted) = Len(sessions)
    BY <1>0 DEF StudyOK
  <2>6. QED BY <1>8, <2>3, <2>4, <2>5 DEF OpenSession, LearningOK, StudyOK, StudyAt
<1>9. CASE CompleteLesson
  <2>1. progress' \in [Users -> SUBSET Chapters]
    BY <1>0, <1>9 DEF CompleteLesson, LearningOK
  <2>2. QED BY <1>9, <2>1 DEF CompleteLesson, LearningOK, StudyOK, StudyAt
<1>11. QED
  BY <1>1, <1>2, <1>3, <1>4, <1>5, <1>6, <1>7, <1>8, <1>9, <1>10 DEF LearningStep

(***************************************************************************)
(* Sign-up.                                                                *)
(***************************************************************************)
LEMMA SignupTypes ==
    ASSUME RequestsOK, RewardsOK, ProfileOK, SocialOK, SignupNext
    PROVE  RewardsOK' /\ ProfileOK' /\ SocialOK'
<1>1. PICK u \in Users : CreateUser(u) \/ GiveKit(u) \/ GiveWallet(u) \/ Greet(u) \/ KillSignup(u)
  BY DEF SignupNext
<1>2. CASE CreateUser(u) \/ KillSignup(u)
  BY <1>2 DEF CreateUser, KillSignup, RewardsOK, ProfileOK, SocialOK
<1>3. CASE GiveKit(u)
  BY <1>3 DEF GiveKit, RewardsOK, ProfileOK, SocialOK
<1>4. CASE GiveWallet(u)
  <2>1. wallets' \subseteq Wallet /\ nextWallet' \in Nat
    BY <1>4, NewWalletType DEF GiveWallet, RewardsOK
  <2>2. kitted' \subseteq Users
    BY <1>4 DEF GiveWallet, RewardsOK
  <2>3. QED BY <1>4, <2>1, <2>2 DEF GiveWallet, RewardsOK, ProfileOK, SocialOK
<1>5. CASE Greet(u)
  <2>1. inbox' \subseteq Notification /\ nextDoc' \in Nat
    BY <1>5, SendType DEF Greet, Kind, SocialOK
  <2>2. QED BY <1>5, <2>1 DEF Greet, RewardsOK, ProfileOK, SocialOK
<1>6. QED BY <1>1, <1>2, <1>3, <1>4, <1>5

(***************************************************************************)
(* All together.                                                           *)
(***************************************************************************)
\* Accounts come by sign-up and go by removal.
LEMMA AccountsStep ==
    ASSUME [Next]_vars
    PROVE  \/ SignupTurn
           \/ alive' \subseteq alive /\ signup' = signup
<1>1. RewardsTurn \/ RankingTurn \/ ProfileTurn \/ SocialTurn \/ MediaTurn \/ LearnTurn \/ UNCHANGED vars =>
         alive' = alive /\ signup' = signup
  BY DEF RewardsTurn, RewardsNext, RankingTurn, RankingNext, ProfileTurn, ProfileNext, SocialTurn, SocialNext,
         MediaTurn, MediaNext, LearnTurn, LearningNext
<1>2. RemoveTurn => alive' \subseteq alive /\ signup' = signup
  BY DEF RemoveTurn, RemoveAccount
<1>3. QED BY <1>1, <1>2 DEF Next

\* An account is new once, and then has nothing yet.
LEMMA SignupStep ==
    ASSUME RequestsOK, SignupTurn
    PROVE  \E u \in Users :
              /\ \A v \in Users \ {u} : signup'[v] = signup[v]
              /\ \/ CreateUser(u) /\ signup[u] = "none" /\ signup'[u] = "kit" /\ alive' = alive \cup {u}
                 \/ GiveKit(u) /\ signup[u] = "kit" /\ signup'[u] = "wallet" /\ alive' = alive
                 \/ GiveWallet(u) /\ signup[u] = "wallet" /\ signup'[u] = "welcome" /\ alive' = alive
                 \/ Greet(u) /\ signup[u] = "welcome" /\ signup'[u] = "done" /\ alive' = alive
                 \/ KillSignup(u) /\ signup[u] \notin {"none", "done"} /\ signup'[u] = "done" /\ alive' = alive
<1>1. PICK u \in Users : CreateUser(u) \/ GiveKit(u) \/ GiveWallet(u) \/ Greet(u) \/ KillSignup(u)
  BY DEF SignupTurn, SignupNext
<1>2. CreateUser(u) => signup[u] = "none"
  <2>1. u \in Nat /\ u \notin 1 .. u - 1
    BY UsersFinite
  <2>2. QED BY <2>1 DEF CreateUser, Known
<1>3. QED BY <1>1, <1>2 DEF CreateUser, GiveKit, GiveWallet, Greet, KillSignup, RequestsOK

LEMMA KnownStep ==
    ASSUME RequestsOK, alive \subseteq Known, [Next]_vars
    PROVE  alive' \subseteq Known'
<1>1. CASE SignupTurn
  BY <1>1, SignupStep DEF RequestsOK, Known
<1>2. CASE alive' \subseteq alive /\ signup' = signup
  BY <1>2 DEF Known
<1>3. QED BY <1>1, <1>2, AccountsStep

LEMMA TypedInit == Init => Typed
<1> SUFFICES ASSUME Init PROVE Typed
  OBVIOUS
<1> USE DEF Init
<1>1. RequestsOK
  BY RequestsAssumption, FS_CardinalityType DEF RequestsInit, RequestsOK
<1>2. RewardsOK /\ claim \in [Slots -> GoodClaim]
  <2>0. alive \subseteq Users /\ Users \subseteq Nat /\ kitted \subseteq Users /\ Veterans \in Nat
    BY <1>1, UsersFinite, RequestsAssumption, FS_CardinalityType DEF RequestsOK, RewardsInit
  <2>1. wallets \subseteq Wallet
    BY <2>0 DEF RewardsInit, Wallet, Opening
  <2>2. nextWallet \in Nat /\ puzzles \in Nat
    BY <2>0 DEF RewardsInit
  <2>3. claim \in [Slots -> GoodClaim] /\ claim \in [Slots -> Claim]
    BY NoClaimGood DEF RewardsInit, GoodClaim
  <2>4. QED BY <2>0, <2>1, <2>2, <2>3 DEF RewardsInit, RewardsOK
<1>3. RankingOK /\ build \in [Slots -> GoodBuild]
  BY NoBuildGood, FS_EmptySet DEF RankingInit, RankingOK, GoodBuild
<1>4. ProfileOK /\ visit \in [Slots -> GoodVisit]
  <2>1. NoVisit \in GoodVisit /\ NoVisit \in Visit
    BY DEF NoVisit, GoodVisit, Visit
  <2>2. QED BY <2>1 DEF ProfileInit, ProfileOK
<1>5. SocialOK /\ ask \in [Slots -> GoodAsk]
  <2>1. NoAsk \in GoodAsk /\ NoAsk \in Ask
    BY DEF NoAsk, GoodAsk, Ask
  <2>2. alive \subseteq Users /\ Users \subseteq Nat /\ Veterans \in Nat
    BY <1>1, UsersFinite, RequestsAssumption, FS_CardinalityType DEF RequestsOK
  <2>3. inbox \subseteq Notification /\ nextDoc \in Nat
    <3>1. PICK welcomed \in SUBSET alive :
            inbox = {[id |-> u, user |-> u, kind |-> "system", game |-> 0, unread |-> TRUE] : u \in welcomed}
      BY DEF SocialInit
    <3>2. \A u \in welcomed :
            [id |-> u, user |-> u, kind |-> "system", game |-> 0, unread |-> TRUE] \in Notification
      BY <2>2 DEF Notification, Kind
    <3>3. nextDoc \in Nat
      BY <2>2 DEF SocialInit
    <3>4. QED BY <3>1, <3>2, <3>3
  <2>4. QED BY <2>1, <2>3 DEF SocialInit, SocialOK
<1>6. MediaOK /\ upload \in [Slots -> GoodUpload]
  <2>1. NoUpload \in GoodUpload /\ NoUpload \in Upload
    BY DEF NoUpload, GoodUpload, Upload
  <2>2. QED BY <2>1 DEF MediaInit, MediaOK
<1>7. LearningOK /\ StudyOK
  <2>1. NoStudy \in GoodStudy /\ NoStudy \in Study /\ NoStudy.pc \notin {"guess", "answer"}
    BY DEF NoStudy, GoodStudy, Study
  <2>2. QED BY <2>1 DEF LearningInit, LearningOK, StudyOK, StudyAt
<1>8. alive \subseteq Known
  BY <1>1, UsersFinite DEF RequestsInit, RequestsOK, Known
<1>9. QED BY <1>1, <1>2, <1>3, <1>4, <1>5, <1>6, <1>7, <1>8 DEF Typed, TypeOK, InFlight

LEMMA TypedStep == Typed /\ [Next]_vars => Typed'
<1> SUFFICES ASSUME Typed, [Next]_vars PROVE Typed'
  OBVIOUS
<1> USE DEF Typed, TypeOK, InFlight
<1>0. RequestsOK' /\ alive' \subseteq Known'
  BY NextCalling, KnownStep
<1>1. CASE RewardsTurn
  BY <1>0, <1>1, RewardsTypes
  DEF RewardsTurn, RewardsNext, RankingOK, ProfileOK, SocialOK, MediaOK, LearningOK, StudyOK, StudyAt
<1>2. CASE RankingTurn
  <2>1. RankingOK' /\ build' \in [Slots -> GoodBuild] /\ jobs' \in Nat /\ reported' \in BOOLEAN
    BY <1>2, RankingTypes, ExpireTypes DEF RankingTurn, RankingNext
  <2>2. UNCHANGED <<coins, scores, claim, payHistory>>
    BY <1>2 DEF RankingTurn, RankingNext, RankingStep, TaskBegin, MeBegin, GlobalBegin, QueryRows,
       CachePage, PageAgain, ReadUsers, ReadStats, ClearRows, SeekRow, WriteRow, KillBuild, ExpirePage
  <2>3. RewardsOK'
    BY <2>1, <2>2 DEF RewardsOK
  <2>4. QED BY <1>0, <1>2, <2>1, <2>2, <2>3
        DEF RankingTurn, ProfileOK, SocialOK, MediaOK, LearningOK, StudyOK, StudyAt
<1>3. CASE ProfileTurn
  <2>1. ProfileOK' /\ visit' \in [Slots -> GoodVisit] /\ wallets' \subseteq Wallet /\ nextWallet' \in Nat
    BY <1>3, ProfileTypes DEF ProfileTurn, ProfileNext
  <2>2. UNCHANGED <<puzzles, solved, told, scores, jobs, claim, payHistory, reported, rankingVars>>
    BY <1>3 DEF ProfileTurn, ProfileNext, ProfileStep, ProfileBegin, InventoryBegin, VisitBegin, ReadScores,
       FindKit, NewKit, ReadWallet, NewWallet, ReadRow, Show, KillVisit
  <2>3. RewardsOK'
    BY <2>1, <2>2 DEF RewardsOK
  <2>4. QED BY <1>0, <1>3, <2>1, <2>2, <2>3
        DEF ProfileTurn, RankingOK, SocialOK, MediaOK, LearningOK, StudyOK, StudyAt
<1>4. CASE SocialTurn
  BY <1>0, <1>4, SocialTypes
  DEF SocialTurn, SocialNext, RewardsOK, RankingOK, ProfileOK, MediaOK, LearningOK, StudyOK, StudyAt
<1>5. CASE MediaTurn
  BY <1>0, <1>5, MediaTypes
  DEF MediaTurn, MediaNext, RewardsOK, RankingOK, ProfileOK, SocialOK, LearningOK, StudyOK, StudyAt
<1>6. CASE LearnTurn
  BY <1>0, <1>6, LearningTypes
  DEF LearnTurn, LearningNext, RewardsOK, RankingOK, ProfileOK, SocialOK, MediaOK
<1>7. CASE RemoveTurn \/ UNCHANGED vars
  BY <1>0, <1>7 DEF RemoveTurn, RewardsOK, RankingOK, ProfileOK, SocialOK, MediaOK, LearningOK, StudyOK, StudyAt
<1>8. CASE SignupTurn
  <2>1. RewardsOK' /\ ProfileOK' /\ SocialOK'
    BY <1>8, SignupTypes DEF SignupTurn
  <2>2. UNCHANGED <<rankingVars, claim, visit, ask>>
    BY <1>8 DEF SignupTurn, SignupNext, CreateUser, GiveKit, GiveWallet, Greet, KillSignup
  <2>3. QED BY <1>0, <1>8, <2>1, <2>2 DEF SignupTurn, RankingOK, MediaOK, LearningOK, StudyOK, StudyAt
<1>9. QED BY <1>1, <1>2, <1>3, <1>4, <1>5, <1>6, <1>7, <1>8 DEF Next

THEOREM AlwaysTyped == Spec => []Typed
BY TypedInit, TypedStep, PTL DEF Spec

\* TypeOK holds of every reachable state, for any users, slots and menus: in
\* particular the Redis key of the global page never holds two copies, and a
\* practice guess in flight always has its session.
THEOREM TypeCorrect == Spec => []TypeOK
BY AlwaysTyped, PTL DEF Typed
=============================================================================
