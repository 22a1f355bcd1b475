------------------------------ MODULE Features ------------------------------
(***************************************************************************)
(* The feature endpoints together, over one database: the components take  *)
(* turns, and meet in the accounts, which come by sign-up and which any    *)
(* user may remove while requests of other components are in flight, in    *)
(* the scores, the wallets, the tasks a won match sends and the inbox.     *)
(***************************************************************************)
EXTENDS Signup, ProfileMedia, Learning

vars == <<accounts, calls, rewardsVars, rankingVars, profileVars, socialVars, mediaVars, learningVars>>

Init == /\ RequestsInit /\ RewardsInit /\ RankingInit /\ ProfileInit
        /\ SocialInit /\ MediaInit /\ LearningInit

\* The variables of the scores and the coins, and those of all the rest.
scoreVars == <<rewardsVars, rankingVars, profileVars>>

RewardsTurn == RewardsNext /\ UNCHANGED <<rankingVars, profileVars, socialVars, mediaVars, learningVars>>
RankingTurn == RankingNext /\ UNCHANGED <<profileVars, socialVars, mediaVars, learningVars>>
ProfileTurn == ProfileNext /\ UNCHANGED <<socialVars, mediaVars, learningVars>>
SocialTurn  == SocialNext /\ UNCHANGED <<scoreVars, mediaVars, learningVars>>
MediaTurn   == MediaNext /\ UNCHANGED <<scoreVars, socialVars, learningVars>>
LearnTurn   == LearningNext /\ UNCHANGED <<scoreVars, socialVars, mediaVars>>
SignupTurn  == SignupNext /\ UNCHANGED <<mediaVars, learningVars>>
RemoveTurn  ==
    /\ \E u \in Users : RemoveAccount(u)
    /\ UNCHANGED <<scoreVars, socialVars, mediaVars, learningVars>>

Next == \/ RewardsTurn \/ RankingTurn \/ ProfileTurn \/ SocialTurn \/ MediaTurn \/ LearnTurn
        \/ SignupTurn \/ RemoveTurn

Spec == Init /\ [][Next]_vars

TypeOK == /\ RequestsOK /\ RewardsOK /\ RankingOK /\ ProfileOK
          /\ SocialOK /\ MediaOK /\ LearningOK
=============================================================================
