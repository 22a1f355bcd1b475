------------------------------ MODULE UserProofs ------------------------------
(***************************************************************************)
(* What users do with each other and on their own, for any number of them  *)
(* and of requests.  Nobody becomes a friend without having said so, news  *)
(* is never ahead of the fact, one yes makes one friendship, and a user is *)
(* welcomed once.  A profile never names a picture that is gone, and       *)
(* orderly uploads leave none behind; practice sessions count their        *)
(* guesses, and the curriculum never closes a chapter again.               *)
(***************************************************************************)
EXTENDS FeaturesTypes

(***************************************************************************)
(* Friends and news.                                                       *)
(***************************************************************************)
USE DEF vars, accounts, scoreVars, coins, scores, payHistory, rewardsVars, rankingVars, profileVars, socialDocs,
        socialHistory, socialVars, mediaVars, learningVars

\* Whose turn it is, as the social documents see it: only sign-up touches them
\* besides the social endpoints, and of a sign-up only the welcome does.
LEMMA SocialTurns ==
    ASSUME RequestsOK, [Next]_vars
    PROVE  \/ SocialTurn
           \/ UNCHANGED socialVars /\ signup' = signup
           \/ \E u \in Users :
                 /\ \A v \in Users \ {u} : signup'[v] = signup[v]
                 /\ \/ /\ UNCHANGED socialVars
                       /\ signup[u] # "done" /\ (signup'[u] = "done" => signup[u] # "none")
                    \/ Greet(u) /\ signup[u] = "welcome" /\ signup'[u] = "done"
<1>1. CASE SignupTurn
  <2>1. PICK u \in Users :
          /\ \A v \in Users \ {u} : signup'[v] = signup[v]
          /\ \/ CreateUser(u) /\ signup[u] = "none" /\ signup'[u] = "kit"
             \/ GiveKit(u) /\ signup[u] = "kit" /\ signup'[u] = "wallet"
             \/ GiveWallet(u) /\ signup[u] = "wallet" /\ signup'[u] = "welcome"
             \/ Greet(u) /\ signup[u] = "welcome" /\ signup'[u] = "done"
             \/ KillSignup(u) /\ signup[u] \notin {"none", "done"} /\ signup'[u] = "done"
    BY <1>1, SignupStep
  <2>2. CreateUser(u) \/ GiveKit(u) \/ GiveWallet(u) \/ KillSignup(u) => UNCHANGED socialVars
    BY DEF CreateUser, GiveKit, GiveWallet, KillSignup
  <2>3. QED BY <2>1, <2>2, Zenon
<1>2. CASE SocialTurn
  BY <1>2
<1>3. CASE ~SignupTurn /\ ~SocialTurn
  <2>1. signup' = signup
    BY <1>3, AccountsStep
  <2>2. UNCHANGED socialVars
    BY <1>3 DEF Next, RewardsTurn, RankingTurn, ProfileTurn, MediaTurn, LearnTurn, RemoveTurn
  <2>3. QED BY <2>1, <2>2
<1>4. QED BY <1>1, <1>2, <1>3

(***************************************************************************)
(* Slots.                                                                  *)
(***************************************************************************)
LEMMA AskMoves ==
    ASSUME ask \in [Slots -> GoodAsk], NEW r \in Slots, NEW q, AskStep(r, q)
    PROVE  ask'[r] = q /\ \A s \in Slots \ {r} : ask'[s] = ask[s]
BY DEF AskStep

LEMMA AskWent ==
    ASSUME ask \in [Slots -> GoodAsk], NEW r \in Slots, NEW l, AskGoto(r, l)
    PROVE  /\ \A s \in Slots \ {r} : ask'[s] = ask[s]
           /\ ask'[r].pc = l /\ ask'[r].by = ask[r].by /\ ask'[r].other = ask[r].other
           /\ ask'[r].doc = ask[r].doc /\ ask'[r].accept = ask[r].accept
           /\ ask'[r].todo = ask[r].todo /\ ask'[r].shown = ask[r].shown
<1>1. ask[r] \in Ask
  BY DEF GoodAsk
<1>2. QED BY <1>1, AskMoves DEF AskGoto, Ask

LEMMA AskGone ==
    ASSUME ask \in [Slots -> GoodAsk], NEW r \in Slots, AskEnd(r)
    PROVE  /\ \A s \in Slots \ {r} : ask'[s] = ask[s]
           /\ ask'[r].pc = "idle" /\ ask'[r].todo = {} /\ ask'[r].shown = {}
BY AskMoves DEF AskEnd, NoAsk

\* A request that is new in its slot.
LEMMA AskBegun ==
    ASSUME ask \in [Slots -> GoodAsk], NEW r \in Slots, NEW q, AskBegin(r, q)
    PROVE  ask[r].pc = "idle" /\ ask'[r] = q /\ \A s \in Slots \ {r} : ask'[s] = ask[s]
BY AskMoves DEF AskBegin, AskAt

(***************************************************************************)
(* Consent.  Behind a friendship in the making there is a request and a    *)
(* yes, and the friends a page goes through were friends when it began.    *)
(***************************************************************************)
Consent(u, v) == <<u, v>> \in agreed \/ <<v, u>> \in agreed

RequestsAsked   == \A q \in requests : q.from # q.to /\ <<q.from, q.to>> \in asked
AskersDiffer    == \A r \in Slots : ask[r].pc \in {"pending", "insert"} => ask[r].by # ask[r].other
YesIsOnRecord   ==
    \A r \in Slots : (AskAt(r, "answer") /\ ask[r].accept) \/ AskAt(r, "befriend") =>
        /\ ask[r].by # ask[r].other
        /\ <<ask[r].other, ask[r].by>> \in asked /\ <<ask[r].other, ask[r].by>> \in agreed
PagesOfFriends  == \A r \in Slots : \A u \in ask[r].todo \cup ask[r].shown : Consent(ask[r].by, u)
FriendshipsMade ==
    \A f \in friendships :
        f.from # f.to /\ <<f.from, f.to>> \in asked /\ <<f.from, f.to>> \in agreed

ConsentSafe == RequestsAsked /\ AskersDiffer /\ YesIsOnRecord /\ PagesOfFriends /\ FriendshipsMade

LEMMA ConsentInit == Init => ConsentSafe
BY DEF Init, SocialInit, NoAsk, ConsentSafe, RequestsAsked, AskersDiffer, YesIsOnRecord, PagesOfFriends,
       FriendshipsMade, AskAt

\* A request that ends, or goes where its label promises nothing.
LEMMA ConsentKept ==
    ASSUME ConsentSafe, ask \in [Slots -> GoodAsk], asked \subseteq asked', agreed \subseteq agreed',
           RequestsAsked', friendships' \subseteq friendships,
           NEW r \in Slots, \A s \in Slots \ {r} : ask'[s] = ask[s],
           ask'[r].pc \notin {"pending", "insert", "answer", "befriend"},
           \/ ask'[r].todo = {} /\ ask'[r].shown = {}
           \/ ask'[r].todo = ask[r].todo /\ ask'[r].shown = ask[r].shown /\ ask'[r].by = ask[r].by
    PROVE  ConsentSafe'
<1>1. AskersDiffer'
  BY DEF ConsentSafe, AskersDiffer
<1>2. YesIsOnRecord'
  BY DEF ConsentSafe, YesIsOnRecord, AskAt
<1>3. PagesOfFriends'
  BY DEF ConsentSafe, PagesOfFriends, Consent
<1>4. FriendshipsMade'
  BY DEF ConsentSafe, FriendshipsMade
<1>5. QED BY <1>1, <1>2, <1>3, <1>4 DEF ConsentSafe

\* A request that only moves on, or begins.
LEMMA ConsentMoves ==
    ASSUME ConsentSafe, ask \in [Slots -> GoodAsk], asked \subseteq asked', agreed \subseteq agreed',
           requests' = requests, friendships' = friendships,
           NEW r \in Slots, \A s \in Slots \ {r} : ask'[s] = ask[s],
           ask'[r].pc \in {"pending", "insert"} => ask'[r].by # ask'[r].other,
           (ask'[r].pc = "answer" /\ ask'[r].accept) \/ ask'[r].pc = "befriend" =>
              /\ ask'[r].by # ask'[r].other
              /\ <<ask'[r].other, ask'[r].by>> \in asked /\ <<ask'[r].other, ask'[r].by>> \in agreed',
           \A u \in ask'[r].todo \cup ask'[r].shown : Consent(ask'[r].by, u)
    PROVE  ConsentSafe'
<1>1. AskersDiffer' /\ RequestsAsked' /\ FriendshipsMade'
  BY DEF ConsentSafe, AskersDiffer, RequestsAsked, FriendshipsMade
<1>2. YesIsOnRecord'
  BY DEF ConsentSafe, YesIsOnRecord, AskAt
<1>3. PagesOfFriends'
  BY DEF ConsentSafe, PagesOfFriends, Consent
<1>4. QED BY <1>1, <1>2, <1>3 DEF ConsentSafe

LEMMA ConsentStep ==
    ASSUME SocialOK, ask \in [Slots -> GoodAsk], alive \subseteq Users, ConsentSafe,
           NEW r \in Slots, SocialStep(r)
    PROVE  ConsentSafe'
<1>0. /\ ask[r] \in Ask /\ \A u \in ask[r].todo \cup ask[r].shown : Consent(ask[r].by, u)
      /\ RequestsAsked /\ FriendshipsMade
  BY DEF GoodAsk, ConsentSafe, PagesOfFriends
<1>k. ASSUME AskEnd(r), asked \subseteq asked', agreed \subseteq agreed', RequestsAsked',
             friendships' \subseteq friendships
      PROVE  ConsentSafe'
  BY <1>k, AskGone, ConsentKept
<1>1. CASE AskFriendBegin(r)
  <2>1. PICK u, v \in alive : u # v /\ AskBegin(r, [NoAsk EXCEPT !.pc = "pending", !.by = u, !.other = v])
    BY <1>1 DEF AskFriendBegin
  <2>2. LET q == [NoAsk EXCEPT !.pc = "pending", !.by = u, !.other = v]
        IN  q.pc = "pending" /\ q.by = u /\ q.other = v /\ q.todo = {} /\ q.shown = {}
    BY DEF NoAsk
  <2>3. UNCHANGED <<socialDocs, socialHistory>>
    BY <1>1 DEF AskFriendBegin
  <2>4. QED BY <2>1, <2>2, <2>3, AskBegun, ConsentMoves
<1>2. CASE CheckPending(r)
  <2>1. UNCHANGED <<socialDocs, socialHistory>> /\ ask[r].pc = "pending"
    BY <1>2 DEF CheckPending, AskAt
  <2>2. CASE AskEnd(r)
    BY <1>0, <1>k, <2>1, <2>2 DEF RequestsAsked
  <2>3. CASE AskGoto(r, "insert")
    <3>1. ask[r].by # ask[r].other
      BY <2>1 DEF ConsentSafe, AskersDiffer
    <3>2. /\ \A s \in Slots \ {r} : ask'[s] = ask[s]
          /\ ask'[r].pc = "insert" /\ ask'[r].by # ask'[r].other
          /\ \A u \in ask'[r].todo \cup ask'[r].shown : Consent(ask'[r].by, u)
      BY <1>0, <2>3, <3>1, AskWent
    <3>3. QED BY <2>1, <3>2, ConsentMoves
  <2>4. QED BY <1>2, <2>2, <2>3 DEF CheckPending
<1>3. CASE InsertRequest(r)
  <2>1. AskGoto(r, "ask_notice") /\ ask[r].by # ask[r].other /\ UNCHANGED <<friendships, agreed>>
    BY <1>3 DEF InsertRequest, ConsentSafe, AskersDiffer, AskAt
  <2>2. /\ requests' = requests \cup
              {[id |-> nextDoc, from |-> ask[r].by, to |-> ask[r].other, status |-> "pending"]}
        /\ asked' = asked \cup {<<ask[r].by, ask[r].other>>}
    BY <1>3 DEF InsertRequest
  <2>3. RequestsAsked'
    <3> DEFINE new == [id |-> nextDoc, from |-> ask[r].by, to |-> ask[r].other, status |-> "pending"]
    <3>1. new.from = ask[r].by /\ new.to = ask[r].other /\ requests' = requests \cup {new}
      BY <2>2
    <3> HIDE DEF new
    <3>2. QED BY <1>0, <2>1, <2>2, <3>1 DEF RequestsAsked
  <2>4. QED BY <2>1, <2>2, <2>3, AskWent, ConsentKept
<1>4. CASE TellFriend(r)
  BY <1>0, <1>4, <1>k DEF TellFriend, RequestsAsked
<1>5. CASE RespondBegin(r)
  <2>1. PICK q \in requests, accept \in BOOLEAN :
          /\ AskBegin(r, [NoAsk EXCEPT !.pc = "answer", !.by = q.to, !.other = q.from,
                                       !.doc = q.id, !.accept = accept])
          /\ agreed' = IF accept THEN agreed \cup {<<q.from, q.to>>} ELSE agreed
    BY <1>5 DEF RespondBegin
  <2>2. LET a == [NoAsk EXCEPT !.pc = "answer", !.by = q.to, !.other = q.from,
                               !.doc = q.id, !.accept = accept]
        IN  /\ a.pc = "answer" /\ a.by = q.to /\ a.other = q.from /\ a.accept = accept
            /\ a.todo = {} /\ a.shown = {}
    BY DEF NoAsk
  <2>3. q.from # q.to /\ <<q.from, q.to>> \in asked
    BY <1>0 DEF RequestsAsked
  <2>4. UNCHANGED <<socialDocs, asked, hasty>> /\ agreed \subseteq agreed'
    BY <1>5, <2>1 DEF RespondBegin
  <2>5. /\ \A s \in Slots \ {r} : ask'[s] = ask[s]
        /\ ask'[r].pc = "answer" /\ ask'[r].by = q.to /\ ask'[r].other = q.from
        /\ ask'[r].accept = accept /\ ask'[r].todo = {} /\ ask'[r].shown = {}
    BY <2>1, <2>2, AskBegun
  <2>6. accept => <<q.from, q.to>> \in agreed'
    BY <2>1
  <2>7. QED BY <2>3, <2>4, <2>5, <2>6, ConsentMoves
<1>6. CASE AnswerRequest(r)
  <2>1. \A status : \A q \in requests :
          [q EXCEPT !.status = status].from = q.from /\ [q EXCEPT !.status = status].to = q.to
    BY DEF SocialOK, FriendRequest
  <2> DEFINE status == IF ask[r].accept THEN "accepted" ELSE "rejected"
  <2>2. requests' = {IF q.id = ask[r].doc THEN [q EXCEPT !.status = status] ELSE q : q \in requests}
    BY <1>6 DEF AnswerRequest
  <2> HIDE DEF status
  <2>3. UNCHANGED <<friendships, asked, agreed>>
    BY <1>6 DEF AnswerRequest
  <2>4. RequestsAsked'
    <3>1. ASSUME NEW q \in requests' PROVE \E p \in requests : q.from = p.from /\ q.to = p.to
      <4>1. PICK p \in requests : q = IF p.id = ask[r].doc THEN [p EXCEPT !.status = status] ELSE p
        BY <2>2
      <4>2. QED BY <2>1, <4>1
    <3>2. QED BY <1>0, <2>3, <3>1 DEF RequestsAsked
  <2>5. CASE AskEnd(r)
    BY <1>k, <2>3, <2>4, <2>5
  <2>6. CASE AskGoto(r, "befriend") /\ ask[r].accept
    <3>1. /\ ask[r].by # ask[r].other
          /\ <<ask[r].other, ask[r].by>> \in asked /\ <<ask[r].other, ask[r].by>> \in agreed
      BY <1>6, <2>6 DEF AnswerRequest, ConsentSafe, YesIsOnRecord
    <3>2. AskersDiffer' /\ YesIsOnRecord'
      BY <2>3, <2>6, <3>1, AskWent DEF ConsentSafe, AskersDiffer, YesIsOnRecord, AskAt
    <3>3. PagesOfFriends' /\ FriendshipsMade'
      BY <2>3, <2>6, AskWent DEF ConsentSafe, PagesOfFriends, Consent, FriendshipsMade
    <3>4. QED BY <2>4, <3>2, <3>3 DEF ConsentSafe
  <2>7. QED BY <1>6, <2>5, <2>6 DEF AnswerRequest
<1>7. CASE Befriend(r)
  <2>1. /\ AskGoto(r, "accept_notice") /\ UNCHANGED <<requests, asked, agreed>>
        /\ friendships' = friendships \cup {[id |-> nextDoc, from |-> ask[r].other, to |-> ask[r].by]}
    BY <1>7 DEF Befriend
  <2>2. /\ ask[r].by # ask[r].other
        /\ <<ask[r].other, ask[r].by>> \in asked /\ <<ask[r].other, ask[r].by>> \in agreed
    BY <1>7 DEF Befriend, ConsentSafe, YesIsOnRecord
  <2>3. FriendshipsMade'
    <3> DEFINE new == [id |-> nextDoc, from |-> ask[r].other, to |-> ask[r].by]
    <3>1. new.from = ask[r].other /\ new.to = ask[r].by /\ friendships' = friendships \cup {new}
      BY <2>1
    <3> HIDE DEF new
    <3>2. QED BY <1>0, <2>1, <2>2, <3>1 DEF FriendshipsMade
  <2>4. AskersDiffer' /\ YesIsOnRecord' /\ RequestsAsked'
    BY <1>0, <2>1, AskWent DEF ConsentSafe, AskersDiffer, YesIsOnRecord, RequestsAsked, AskAt
  <2>5. PagesOfFriends'
    BY <2>1, AskWent DEF ConsentSafe, PagesOfFriends, Consent
  <2>6. QED BY <2>3, <2>4, <2>5 DEF ConsentSafe
<1>8. CASE SocialPageBegin(r)
  <2>1. PICK u \in alive : AskBegin(r, [NoAsk EXCEPT !.pc = "friends", !.by = u, !.todo = Friends(u)])
    BY <1>8 DEF SocialPageBegin
  <2>2. LET q == [NoAsk EXCEPT !.pc = "friends", !.by = u, !.todo = Friends(u)]
        IN  q.pc = "friends" /\ q.by = u /\ q.todo = Friends(u) /\ q.shown = {}
    BY DEF NoAsk
  <2>3. \A v \in Friends(u) : Consent(u, v)
    BY <1>0 DEF Friends, FriendshipsMade, Consent
  <2>4. UNCHANGED <<socialDocs, socialHistory>>
    BY <1>8 DEF SocialPageBegin
  <2>5. /\ \A s \in Slots \ {r} : ask'[s] = ask[s]
        /\ ask'[r].pc = "friends" /\ ask'[r].by = u /\ ask'[r].todo = Friends(u) /\ ask'[r].shown = {}
    BY <2>1, <2>2, AskBegun
  <2>6. \A v \in ask'[r].todo \cup ask'[r].shown : Consent(ask'[r].by, v)
    BY <2>3, <2>5
  <2>7. QED BY <2>4, <2>5, <2>6, ConsentMoves
<1>9. CASE ReadFriend(r)
  <2>1. UNCHANGED <<socialDocs, socialHistory>> /\ ask[r].pc = "friends"
    BY <1>9 DEF ReadFriend, AskAt
  <2>2. CASE AskEnd(r)
    BY <1>0, <1>k, <2>1, <2>2 DEF RequestsAsked
  <2>3. ASSUME NEW u \in ask[r].todo, AskStep(r, [ask[r] EXCEPT !.todo = @ \ {u}, !.shown = @ \cup {u}])
        PROVE  ConsentSafe'
    <3>1. LET q == [ask[r] EXCEPT !.todo = @ \ {u}, !.shown = @ \cup {u}]
          IN  /\ q.pc = "friends" /\ q.by = ask[r].by
              /\ q.todo \cup q.shown \subseteq ask[r].todo \cup ask[r].shown
      BY <1>0, <2>1 DEF Ask
    <3>2. QED BY <1>0, <2>1, <2>3, <3>1, AskMoves, ConsentMoves
  <2>4. QED BY <1>9, <2>2, <2>3 DEF ReadFriend
<1>10. CASE ShowFriends(r) \/ KillAsk(r)
  BY <1>0, <1>10, <1>k DEF ShowFriends, KillAsk, RequestsAsked
<1>11. CASE ChallengeBegin(r)
  <2>1. PICK u, v :
          AskBegin(r, [NoAsk EXCEPT !.pc = "creator_seat", !.by = u, !.other = v, !.doc = nextDoc])
    BY <1>11 DEF ChallengeBegin
  <2>2. LET q == [NoAsk EXCEPT !.pc = "creator_seat", !.by = u, !.other = v, !.doc = nextDoc]
        IN  q.pc = "creator_seat" /\ q.todo = {} /\ q.shown = {}
    BY DEF NoAsk
  <2>3. UNCHANGED <<requests, friendships, socialHistory>>
    BY <1>11 DEF ChallengeBegin
  <2>4. QED BY <2>1, <2>2, <2>3, AskBegun, ConsentMoves
<1>12. CASE SeatCreator(r) \/ SeatJoiner(r) \/ SetMode(r)
  <2>1. /\ AskGoto(r, "joiner_seat") \/ AskGoto(r, "game_mode") \/ AskGoto(r, "challenger")
        /\ UNCHANGED <<requests, friendships, socialHistory>>
    BY <1>12 DEF SeatCreator, SeatJoiner, SetMode
  <2>2. /\ \A s \in Slots \ {r} : ask'[s] = ask[s]
        /\ ask'[r].pc \in {"joiner_seat", "game_mode", "challenger"}
        /\ \A u \in ask'[r].todo \cup ask'[r].shown : Consent(ask'[r].by, u)
    BY <1>0, <2>1, AskWent
  <2>3. QED BY <2>1, <2>2, ConsentMoves
<1>13. CASE TellChallenged(r) \/ Welcome(r)
  BY <1>0, <1>13, <1>k DEF TellChallenged, Welcome, RequestsAsked
<1>14. CASE InboxBegin(r)
  <2>1. PICK u \in alive : AskBegin(r, [NoAsk EXCEPT !.pc = "welcome", !.by = u])
    BY <1>14 DEF InboxBegin
  <2>2. LET q == [NoAsk EXCEPT !.pc = "welcome", !.by = u]
        IN  q.pc = "welcome" /\ q.todo = {} /\ q.shown = {}
    BY DEF NoAsk
  <2>3. UNCHANGED <<socialDocs, asked, agreed>>
    BY <1>14 DEF InboxBegin
  <2>4. QED BY <2>1, <2>2, <2>3, AskBegun, ConsentMoves
<1>15. QED
  BY <1>1, <1>2, <1>3, <1>4, <1>5, <1>6, <1>7, <1>8, <1>9, <1>10, <1>11, <1>12, <1>13, <1>14
  DEF SocialStep

LEMMA ConsentNext == Typed /\ ConsentSafe /\ [Next]_vars => ConsentSafe'
<1> SUFFICES ASSUME Typed, ConsentSafe, [Next]_vars PROVE ConsentSafe'
  OBVIOUS
<1> USE DEF ConsentSafe, RequestsAsked, AskersDiffer, YesIsOnRecord, PagesOfFriends, FriendshipsMade,
            Consent, AskAt
<1>1. CASE SocialTurn
  <2>1. CASE RemoveFriend
    BY <2>1 DEF RemoveFriend
  <2>2. CASE MarkRead \/ PlayPrivateGame
    BY <2>2 DEF MarkRead, PlayPrivateGame
  <2>3. QED BY <1>1, <2>1, <2>2, ConsentStep DEF SocialTurn, SocialNext, Typed, TypeOK, InFlight, RequestsOK
<1>2. CASE UNCHANGED socialVars
  BY <1>2
<1>3. ASSUME NEW u, Greet(u) PROVE ConsentSafe'
  BY <1>3 DEF Greet
<1>4. QED
  BY <1>1, <1>2, <1>3, SocialTurns DEF Typed, TypeOK

\* Behind every friendship, and every friend on a social page, there is a
\* request of one of the two and a yes of the other, however requests cross,
\* answers overlap and requests die (send_friend_request,
\* respond_to_friend_request, build_social_page).
THEOREM ConsentAlways == Spec => []FriendsByConsent
<1>1. Init => Typed /\ ConsentSafe
  BY TypedInit, ConsentInit
<1>2. Typed /\ ConsentSafe /\ [Next]_vars => (Typed /\ ConsentSafe)'
  BY TypedStep, ConsentNext
<1>3. ConsentSafe => FriendsByConsent
  BY DEF ConsentSafe, FriendshipsMade, PagesOfFriends, Consent, FriendsByConsent
<1>4. QED BY <1>1, <1>2, <1>3, PTL DEF Spec

(***************************************************************************)
(* The welcome.  The only first page of a user finds the inbox empty, and  *)
(* it stays without a welcome until that page inserts one.                 *)
(***************************************************************************)
Welcoming(u) == {r \in Slots : AskAt(r, "welcome") /\ ask[r].by = u}

WelcomeSafe ==
    \A u \in Users \ hasty :
        /\ \A m, n \in Messages("system", u) : m = n
        /\ \A r \in Welcoming(u) : Messages("system", u) = {}
        /\ \A r, s \in Welcoming(u) : r = s
        /\ signup[u] # "done" => Messages("system", u) = {} /\ Welcoming(u) = {}

LEMMA WelcomeInit == Init => WelcomeSafe
<1> SUFFICES ASSUME Init PROVE WelcomeSafe
  OBVIOUS
<1>1. \A u : Welcoming(u) = {}
  BY DEF Init, SocialInit, Welcoming, AskAt, NoAsk
<1>2. PICK welcomed \in SUBSET alive :
        inbox = {[id |-> u, user |-> u, kind |-> "system", game |-> 0, unread |-> TRUE] : u \in welcomed}
  BY DEF Init, SocialInit
<1>3. \A u : \A m \in Messages("system", u) :
        m = [id |-> u, user |-> u, kind |-> "system", game |-> 0, unread |-> TRUE] /\ u \in welcomed
  BY <1>2 DEF Messages
<1>4. \A u \in welcomed : u \in Users => signup[u] = "done"
  BY UsersFinite, RequestsAssumption, FS_CardinalityType DEF Init, RequestsInit
<1>5. ASSUME NEW u \in Users
      PROVE  /\ \A m, n \in Messages("system", u) : m = n
             /\ signup[u] # "done" => Messages("system", u) = {}
  <2>1. \A m, n \in Messages("system", u) : m = n
    <3>1. PICK w : w = [id |-> u, user |-> u, kind |-> "system", game |-> 0, unread |-> TRUE]
      OBVIOUS
    <3>2. \A m \in Messages("system", u) : m = w
      BY <1>3, <3>1, Zenon
    <3>3. QED BY <3>2
  <2>2. ASSUME signup[u] # "done" PROVE Messages("system", u) = {}
    <3>1. u \notin welcomed
      BY <1>4, <2>2
    <3>2. \A m \in Messages("system", u) : FALSE
      BY <1>3, <3>1
    <3>3. QED BY <3>2
  <2>3. QED BY <2>1, <2>2
<1>6. QED BY <1>1, <1>5 DEF WelcomeSafe

\* A step that neither begins nor ends a welcome.
LEMMA WelcomeKept ==
    ASSUME WelcomeSafe, hasty \subseteq hasty', signup' = signup,
           NEW r \in Slots, \A s \in Slots \ {r} : ask'[s] = ask[s], ask'[r].pc # "welcome",
           \A u : Messages("system", u)' = Messages("system", u)
    PROVE  WelcomeSafe'
<1>1. \A u : Welcoming(u)' \subseteq Welcoming(u)
  BY DEF Welcoming, AskAt
<1>2. QED BY <1>1 DEF WelcomeSafe

\* Send adds one message, of its kind and to its user.
LEMMA SendAdds ==
    ASSUME NEW kind, NEW u, NEW g, Send(kind, u, g)
    PROVE  \E m : /\ inbox' = inbox \cup {m} /\ m.id = nextDoc
                  /\ m.user = u /\ m.kind = kind /\ m.game = g
                  /\ nextDoc' = nextDoc + 1
<1> DEFINE m == [id |-> nextDoc, user |-> u, kind |-> kind, game |-> g, unread |-> TRUE]
<1>1. /\ inbox' = inbox \cup {m} /\ m.id = nextDoc /\ m.user = u /\ m.kind = kind /\ m.game = g
      /\ nextDoc' = nextDoc + 1
  BY DEF Send
<1> HIDE DEF m
<1>2. QED BY <1>1

LEMMA SendElsewhere ==
    ASSUME NEW kind, NEW u, NEW g, Send(kind, u, g), NEW k, k # kind
    PROVE  \A v : Messages(k, v)' = Messages(k, v)
<1>1. PICK m : inbox' = inbox \cup {m} /\ m.kind = kind
  BY SendAdds
<1>2. QED BY <1>1 DEF Messages

LEMMA WelcomeStep ==
    ASSUME SocialOK, ask \in [Slots -> GoodAsk], alive \subseteq Users, WelcomeSafe, signup' = signup,
           NEW r \in Slots, SocialStep(r)
    PROVE  WelcomeSafe'
<1>k. ASSUME AskEnd(r), hasty' = hasty, inbox' = inbox PROVE WelcomeSafe'
  BY <1>k, AskGone, WelcomeKept DEF Messages
<1>g. ASSUME NEW l, AskGoto(r, l), l # "welcome", hasty' = hasty, inbox' = inbox PROVE WelcomeSafe'
  BY <1>g, AskWent, WelcomeKept DEF Messages
<1>b. ASSUME NEW q, AskBegin(r, q), q.pc # "welcome", hasty' = hasty, inbox' = inbox PROVE WelcomeSafe'
  BY <1>b, AskBegun, WelcomeKept DEF Messages
<1>s. ASSUME NEW k, k # "system", NEW u, NEW g, Send(k, u, g), AskEnd(r), hasty' = hasty PROVE WelcomeSafe'
  BY <1>s, SendElsewhere, AskGone, WelcomeKept
<1>1. CASE AskFriendBegin(r)
  <2>1. PICK u, v \in alive : AskBegin(r, [NoAsk EXCEPT !.pc = "pending", !.by = u, !.other = v])
    BY <1>1 DEF AskFriendBegin
  <2>2. [NoAsk EXCEPT !.pc = "pending", !.by = u, !.other = v].pc = "pending"
    BY DEF NoAsk
  <2>3. QED BY <1>1, <1>b, <2>1, <2>2 DEF AskFriendBegin
<1>2. CASE CheckPending(r)
  BY <1>2, <1>k, <1>g DEF CheckPending
<1>3. CASE InsertRequest(r)
  BY <1>3, <1>g DEF InsertRequest
<1>4. CASE TellFriend(r)
  BY <1>4, <1>s DEF TellFriend
<1>5. CASE RespondBegin(r)
  <2>1. PICK q \in requests, accept \in BOOLEAN :
          AskBegin(r, [NoAsk EXCEPT !.pc = "answer", !.by = q.to, !.other = q.from,
                                    !.doc = q.id, !.accept = accept])
    BY <1>5 DEF RespondBegin
  <2>2. [NoAsk EXCEPT !.pc = "answer", !.by = q.to, !.other = q.from,
                      !.doc = q.id, !.accept = accept].pc = "answer"
    BY DEF NoAsk
  <2>3. QED BY <1>5, <1>b, <2>1, <2>2 DEF RespondBegin
<1>6. CASE AnswerRequest(r)
  BY <1>6, <1>k, <1>g DEF AnswerRequest
<1>7. CASE Befriend(r)
  BY <1>7, <1>g DEF Befriend
<1>8. CASE SocialPageBegin(r)
  <2>1. PICK u \in alive : AskBegin(r, [NoAsk EXCEPT !.pc = "friends", !.by = u, !.todo = Friends(u)])
    BY <1>8 DEF SocialPageBegin
  <2>2. [NoAsk EXCEPT !.pc = "friends", !.by = u, !.todo = Friends(u)].pc = "friends"
    BY DEF NoAsk
  <2>3. QED BY <1>8, <1>b, <2>1, <2>2 DEF SocialPageBegin
<1>9. CASE ReadFriend(r)
  <2>1. hasty' = hasty /\ inbox' = inbox /\ ask[r].pc = "friends" /\ ask[r] \in Ask
    BY <1>9 DEF ReadFriend, AskAt, GoodAsk
  <2>2. ASSUME NEW u, AskStep(r, [ask[r] EXCEPT !.todo = @ \ {u}, !.shown = @ \cup {u}])
        PROVE  WelcomeSafe'
    <3>1. [ask[r] EXCEPT !.todo = @ \ {u}, !.shown = @ \cup {u}].pc = "friends"
      BY <2>1 DEF Ask
    <3>2. QED BY <2>1, <2>2, <3>1, AskMoves, WelcomeKept DEF Messages
  <2>3. QED BY <1>9, <1>k, <2>1, <2>2 DEF ReadFriend
<1>10. CASE ShowFriends(r) \/ KillAsk(r)
  BY <1>10, <1>k DEF ShowFriends, KillAsk
<1>11. CASE ChallengeBegin(r)
  <2>1. PICK u, v :
          AskBegin(r, [NoAsk EXCEPT !.pc = "creator_seat", !.by = u, !.other = v, !.doc = nextDoc])
    BY <1>11 DEF ChallengeBegin
  <2>2. [NoAsk EXCEPT !.pc = "creator_seat", !.by = u, !.other = v, !.doc = nextDoc].pc = "creator_seat"
    BY DEF NoAsk
  <2>3. QED BY <1>11, <1>b, <2>1, <2>2 DEF ChallengeBegin
<1>12. CASE SeatCreator(r) \/ SeatJoiner(r) \/ SetMode(r)
  BY <1>12, <1>g DEF SeatCreator, SeatJoiner, SetMode
<1>13. CASE TellChallenged(r)
  BY <1>13, <1>k, <1>s DEF TellChallenged
<1>14. CASE Welcome(r)
  <2>0. PICK w : w = ask[r].by
    OBVIOUS
  <2>1. PICK m : inbox' = inbox \cup {m} /\ m.user = ask[r].by /\ m.kind = "system"
    BY <1>14, SendAdds DEF Welcome
  <2>2. /\ AskAt(r, "welcome") /\ hasty' = hasty
        /\ \A s \in Slots \ {r} : ask'[s] = ask[s]
        /\ ask'[r].pc = "idle"
    BY <1>14, AskGone DEF Welcome
  <2>3. \A u : Welcoming(u)' = Welcoming(u) \ {r}
    BY <2>2 DEF Welcoming, AskAt
  <2>4. r \in Welcoming(w)
    BY <2>0, <2>2 DEF Welcoming
  <2>5. \A u : u # w => Messages("system", u)' = Messages("system", u)
    BY <2>0, <2>1 DEF Messages
  <2>6. Messages("system", w) = {} => Messages("system", w)' \subseteq {m}
    BY <2>0, <2>1 DEF Messages
  <2>7. ASSUME NEW u \in Users \ hasty
        PROVE  /\ \A n, o \in Messages("system", u)' : n = o
               /\ \A s \in Welcoming(u)' : Messages("system", u)' = {}
               /\ \A s, t \in Welcoming(u)' : s = t
               /\ signup[u] # "done" => Messages("system", u)' = {} /\ Welcoming(u)' = {}
    <3>1. CASE u = w
      <4>1. Messages("system", u) = {} /\ Welcoming(u)' = {} /\ signup[u] = "done"
        BY <2>3, <2>4, <3>1 DEF WelcomeSafe
      <4>2. QED BY <2>6, <3>1, <4>1
    <3>2. CASE u # w
      BY <2>3, <2>5, <3>2 DEF WelcomeSafe
    <3>3. QED BY <3>1, <3>2
  <2>8. QED BY <2>2, <2>7 DEF WelcomeSafe
<1>15. CASE InboxBegin(r)
  <2>1. PICK u \in alive :
          /\ ~Mailed(u)
          /\ AskBegin(r, [NoAsk EXCEPT !.pc = "welcome", !.by = u])
          /\ hasty' = IF signup[u] # "done" \/ \E s \in Slots : AskAt(s, "welcome") /\ ask[s].by = u
                      THEN hasty \cup {u} ELSE hasty
    BY <1>15 DEF InboxBegin
  <2>2. LET q == [NoAsk EXCEPT !.pc = "welcome", !.by = u]
        IN  q.pc = "welcome" /\ q.by = u
    BY DEF NoAsk
  <2>3. /\ ask[r].pc = "idle" /\ \A s \in Slots \ {r} : ask'[s] = ask[s]
        /\ ask'[r].pc = "welcome" /\ ask'[r].by = u
    BY <2>1, <2>2, AskBegun
  <2>4. hasty \subseteq hasty' /\ inbox' = inbox /\ Messages("system", u) = {}
    BY <1>15, <2>1 DEF InboxBegin, Mailed, Messages
  <2>5. \A v : v # u => Welcoming(v)' = Welcoming(v)
    BY <2>3 DEF Welcoming, AskAt
  <2>6. u \notin hasty' => Welcoming(u)' \subseteq {r} /\ signup[u] = "done"
    BY <2>1, <2>3 DEF Welcoming, AskAt
  <2>7. \A v : Messages("system", v)' = Messages("system", v)
    BY <2>4 DEF Messages
  <2>8. ASSUME NEW v \in Users \ hasty'
        PROVE  /\ \A n, o \in Messages("system", v)' : n = o
               /\ \A s \in Welcoming(v)' : Messages("system", v)' = {}
               /\ \A s, t \in Welcoming(v)' : s = t
               /\ signup[v] # "done" => Messages("system", v)' = {} /\ Welcoming(v)' = {}
    <3>1. v \in Users \ hasty
      BY <2>4
    <3>2. CASE v = u
      BY <2>4, <2>6, <2>7, <3>2
    <3>3. CASE v # u
      BY <2>5, <2>7, <3>1, <3>3 DEF WelcomeSafe
    <3>4. QED BY <3>2, <3>3
  <2>9. QED BY <2>8 DEF WelcomeSafe
<1>16. QED
  BY <1>1, <1>2, <1>3, <1>4, <1>5, <1>6, <1>7, <1>8, <1>9, <1>10, <1>11, <1>12, <1>13, <1>14, <1>15
  DEF SocialStep

\* Reading a message changes whether it is unread, and no more.
LEMMA ReadInPlace ==
    ASSUME SocialOK, MarkRead
    PROVE  \E m \in inbox : \E n :
              /\ inbox' = (inbox \ {m}) \cup {n}
              /\ n.id = m.id /\ n.user = m.user /\ n.kind = m.kind /\ n.game = m.game
              /\ UNCHANGED <<requests, friendships, games, nextDoc, ask, socialHistory>>
<1>1. PICK m \in inbox : inbox' = (inbox \ {m}) \cup {[m EXCEPT !.unread = FALSE]}
  BY DEF MarkRead
<1> DEFINE n == [m EXCEPT !.unread = FALSE]
<1>2. n.id = m.id /\ n.user = m.user /\ n.kind = m.kind /\ n.game = m.game
  BY DEF SocialOK, Notification
<1>3. inbox' = (inbox \ {m}) \cup {n}
  BY <1>1
<1> HIDE DEF n
<1>4. QED BY <1>2, <1>3 DEF MarkRead

LEMMA WelcomeNext == Typed /\ WelcomeSafe /\ [Next]_vars => WelcomeSafe'
<1> SUFFICES ASSUME Typed, WelcomeSafe, [Next]_vars PROVE WelcomeSafe'
  OBVIOUS
<1>1. CASE UNCHANGED <<ask, hasty, inbox, signup>>
  BY <1>1 DEF WelcomeSafe, Welcoming, Messages, AskAt
<1>2. CASE SocialTurn
  <2>0. signup' = signup
    BY <1>2 DEF SocialTurn, SocialNext
  <2>1. CASE RemoveFriend \/ PlayPrivateGame
    BY <1>1, <2>0, <2>1 DEF RemoveFriend, PlayPrivateGame
  <2>2. CASE MarkRead
    <3>1. PICK m \in inbox : \E n :
              /\ inbox' = (inbox \ {m}) \cup {n}
              /\ n.user = m.user /\ n.kind = m.kind /\ ask' = ask /\ hasty' = hasty
      BY <2>2, ReadInPlace DEF Typed, TypeOK
    <3>2. PICK n : /\ inbox' = (inbox \ {m}) \cup {n}
                   /\ n.user = m.user /\ n.kind = m.kind /\ ask' = ask /\ hasty' = hasty
      BY <3>1
    <3>3. \A u : Welcoming(u)' = Welcoming(u)
      BY <3>2 DEF Welcoming, AskAt
    <3>4. ASSUME NEW u \in Users \ hasty
          PROVE  /\ \A p, q \in Messages("system", u)' : p = q
                 /\ Messages("system", u) = {} => Messages("system", u)' = {}
      <4>1. CASE m \in Messages("system", u)
        BY <3>2, <4>1 DEF WelcomeSafe, Messages
      <4>2. CASE m \notin Messages("system", u)
        BY <3>2, <4>2 DEF WelcomeSafe, Messages
      <4>3. QED BY <4>1, <4>2
    <3>5. QED BY <2>0, <3>2, <3>3, <3>4 DEF WelcomeSafe
  <2>3. QED BY <1>2, <2>0, <2>1, <2>2, WelcomeStep
        DEF SocialTurn, SocialNext, Typed, TypeOK, InFlight, RequestsOK
<1>3. ASSUME NEW u \in Users, \A v \in Users \ {u} : signup'[v] = signup[v], UNCHANGED socialVars,
             signup[u] # "done"
      PROVE  WelcomeSafe'
  <2>1. \A v : Welcoming(v)' = Welcoming(v) /\ Messages("system", v)' = Messages("system", v)
    BY <1>3 DEF Welcoming, Messages, AskAt
  <2>2. QED BY <1>3, <2>1 DEF WelcomeSafe
<1>4. ASSUME NEW u \in Users, \A v \in Users \ {u} : signup'[v] = signup[v], Greet(u),
             signup[u] = "welcome", signup'[u] = "done"
      PROVE  WelcomeSafe'
  <2>1. PICK m : inbox' = inbox \cup {m} /\ m.user = u /\ m.kind = "system"
    BY <1>4, SendAdds DEF Greet
  <2>2. hasty' = hasty /\ \A v : Welcoming(v)' = Welcoming(v)
    BY <1>4 DEF Greet, Welcoming, AskAt
  <2>3. \A v : v # u => Messages("system", v)' = Messages("system", v)
    BY <2>1 DEF Messages
  <2>4. Messages("system", u) = {} => Messages("system", u)' \subseteq {m}
    BY <2>1 DEF Messages
  <2>5. u \notin hasty => Messages("system", u)' \subseteq {m} /\ Welcoming(u)' = {}
    BY <1>4, <2>2, <2>4 DEF WelcomeSafe
  <2>6. ASSUME NEW v \in Users \ hasty
        PROVE  /\ \A n, o \in Messages("system", v)' : n = o
               /\ \A s \in Welcoming(v)' : Messages("system", v)' = {}
               /\ \A s, t \in Welcoming(v)' : s = t
               /\ signup'[v] # "done" => Messages("system", v)' = {} /\ Welcoming(v)' = {}
    <3>1. CASE v = u
      BY <1>4, <2>5, <3>1
    <3>2. CASE v # u
      BY <1>4, <2>2, <2>3, <3>2 DEF WelcomeSafe
    <3>3. QED BY <3>1, <3>2
  <2>7. QED BY <2>2, <2>6 DEF WelcomeSafe
<1>5. QED
  BY <1>1, <1>2, <1>3, <1>4, SocialTurns DEF Typed, TypeOK

\* Whoever never opens the inbox twice at once, or before the sign-up is done,
\* is welcomed at most once, whatever news arrives and whichever request or
\* sign-up dies (list_notifications, _ensure_notifications, add_user).
THEOREM OneWelcome == Spec => []WelcomedOnce
<1>1. Init => Typed /\ WelcomeSafe
  BY TypedInit, WelcomeInit
<1>2. Typed /\ WelcomeSafe /\ [Next]_vars => (Typed /\ WelcomeSafe)'
  BY TypedStep, WelcomeNext
<1>3. WelcomeSafe => WelcomedOnce
  <2> SUFFICES ASSUME WelcomeSafe, NEW u \in Users \ hasty
               PROVE  Cardinality(Messages("system", u)) <= 1
    BY DEF WelcomedOnce
  <2>1. CASE Messages("system", u) = {}
    BY <2>1, FS_EmptySet
  <2>2. CASE \E m : Messages("system", u) = {m}
    <3>1. PICK m : Messages("system", u) = {m}
      BY <2>2
    <3>2. Cardinality({m}) = 1
      BY FS_Singleton
    <3>3. QED BY <3>1, <3>2
  <2>3. QED BY <2>1, <2>2 DEF WelcomeSafe
<1>4. QED BY <1>1, <1>2, <1>3, PTL DEF Spec

(***************************************************************************)
(* What the steps have in common, for the three invariants that follow.    *)
(***************************************************************************)
Aside(r) == \/ AskFriendBegin(r) \/ CheckPending(r) \/ SocialPageBegin(r) \/ ReadFriend(r)
            \/ ShowFriends(r) \/ InboxBegin(r) \/ KillAsk(r)
Telling(r) == TellFriend(r) \/ TellChallenged(r) \/ Welcome(r)
Arranging(r) == ChallengeBegin(r) \/ SeatCreator(r) \/ SeatJoiner(r) \/ SetMode(r)

LEMMA StepKinds ==
    ASSUME NEW r \in Slots, SocialStep(r)
    PROVE  \/ Aside(r) \/ Telling(r) \/ Arranging(r)
           \/ InsertRequest(r) \/ RespondBegin(r) \/ AnswerRequest(r) \/ Befriend(r)
BY DEF SocialStep, Aside, Telling, Arranging

\* A step aside touches no document that matters here.
LEMMA AsideStep ==
    ASSUME ask \in [Slots -> GoodAsk], NEW r \in Slots, Aside(r)
    PROVE  /\ UNCHANGED <<requests, friendships, games, inbox, nextDoc, asked, agreed, crossed>>
           /\ \A s \in Slots \ {r} : ask'[s] = ask[s]
           /\ ask'[r].pc \in {"idle", "pending", "insert", "welcome", "friends"}
<1>0. ask[r] \in Ask
  BY DEF GoodAsk
<1>1. CASE AskFriendBegin(r)
  <2>1. PICK u, v \in alive : AskBegin(r, [NoAsk EXCEPT !.pc = "pending", !.by = u, !.other = v])
    BY <1>1 DEF AskFriendBegin
  <2>2. [NoAsk EXCEPT !.pc = "pending", !.by = u, !.other = v].pc = "pending"
    BY DEF NoAsk
  <2>3. QED BY <1>1, <2>1, <2>2, AskBegun DEF AskFriendBegin
<1>2. CASE CheckPending(r)
  BY <1>2, AskGone, AskWent DEF CheckPending
<1>3. CASE SocialPageBegin(r)
  <2>1. PICK u \in alive : AskBegin(r, [NoAsk EXCEPT !.pc = "friends", !.by = u, !.todo = Friends(u)])
    BY <1>3 DEF SocialPageBegin
  <2>2. [NoAsk EXCEPT !.pc = "friends", !.by = u, !.todo = Friends(u)].pc = "friends"
    BY DEF NoAsk
  <2>3. QED BY <1>3, <2>1, <2>2, AskBegun DEF SocialPageBegin
<1>4. CASE ReadFriend(r)
  <2>1. UNCHANGED <<socialDocs, socialHistory>> /\ ask[r].pc = "friends"
    BY <1>4 DEF ReadFriend, AskAt
  <2>2. ASSUME NEW u, AskStep(r, [ask[r] EXCEPT !.todo = @ \ {u}, !.shown = @ \cup {u}])
        PROVE  ask'[r].pc = "friends" /\ \A s \in Slots \ {r} : ask'[s] = ask[s]
    <3>1. [ask[r] EXCEPT !.todo = @ \ {u}, !.shown = @ \cup {u}].pc = "friends"
      BY <1>0, <2>1 DEF Ask
    <3>2. QED BY <2>2, <3>1, AskMoves
  <2>3. QED BY <1>4, <2>1, <2>2, AskGone DEF ReadFriend
<1>5. CASE ShowFriends(r) \/ KillAsk(r)
  BY <1>5, AskGone DEF ShowFriends, KillAsk
<1>6. CASE InboxBegin(r)
  <2>1. PICK u \in alive : AskBegin(r, [NoAsk EXCEPT !.pc = "welcome", !.by = u])
    BY <1>6 DEF InboxBegin
  <2>2. [NoAsk EXCEPT !.pc = "welcome", !.by = u].pc = "welcome"
    BY DEF NoAsk
  <2>3. QED BY <1>6, <2>1, <2>2, AskBegun DEF InboxBegin
<1>7. QED BY <1>1, <1>2, <1>3, <1>4, <1>5, <1>6 DEF Aside

\* A message goes out and the request ends.
LEMMA TellingStep ==
    ASSUME ask \in [Slots -> GoodAsk], NEW r \in Slots, Telling(r)
    PROVE  /\ UNCHANGED <<requests, friendships, games, asked, agreed, crossed>>
           /\ \A s \in Slots \ {r} : ask'[s] = ask[s]
           /\ ask'[r].pc = "idle"
           /\ \/ /\ Send("friend_request", ask[r].other, 0) /\ ask[r].pc = "ask_notice"
              \/ /\ Send("friend_accept", ask[r].other, 0) /\ ask[r].pc = "accept_notice"
              \/ /\ Send("challenge", ask[r].other, ask[r].doc) /\ ask[r].pc = "challenger"
              \/ Send("system", ask[r].by, 0)
              \/ UNCHANGED <<inbox, nextDoc>>
BY AskGone DEF Telling, TellFriend, TellChallenged, Welcome, AskAt

\* A challenge begins, or goes on.
LEMMA ArrangingStep ==
    ASSUME ask \in [Slots -> GoodAsk], NEW r \in Slots, Arranging(r)
    PROVE  /\ UNCHANGED <<requests, friendships, inbox, asked, agreed, crossed>>
           /\ \A s \in Slots \ {r} : ask'[s] = ask[s]
           /\ \/ /\ ChallengeBegin(r) /\ ask[r].pc = "idle" /\ ask'[r].pc = "creator_seat"
                 /\ ask'[r].doc = nextDoc /\ nextDoc' = nextDoc + 1
              \/ /\ \/ SeatCreator(r) /\ ask[r].pc = "creator_seat" /\ ask'[r].pc = "joiner_seat"
                    \/ SeatJoiner(r) /\ ask[r].pc = "joiner_seat" /\ ask'[r].pc = "game_mode"
                    \/ SetMode(r) /\ ask[r].pc = "game_mode" /\ ask'[r].pc = "challenger"
                 /\ ask'[r].doc = ask[r].doc /\ ask'[r].other = ask[r].other
                 /\ nextDoc' = nextDoc
<1>1. CASE ChallengeBegin(r)
  <2>1. PICK u, v :
          AskBegin(r, [NoAsk EXCEPT !.pc = "creator_seat", !.by = u, !.other = v, !.doc = nextDoc])
    BY <1>1 DEF ChallengeBegin
  <2>2. LET q == [NoAsk EXCEPT !.pc = "creator_seat", !.by = u, !.other = v, !.doc = nextDoc]
        IN  q.pc = "creator_seat" /\ q.doc = nextDoc
    BY DEF NoAsk
  <2>3. QED BY <1>1, <2>1, <2>2, AskBegun DEF ChallengeBegin
<1>2. CASE SeatCreator(r)
  BY <1>2, AskWent DEF SeatCreator, AskAt
<1>3. CASE SeatJoiner(r)
  BY <1>3, AskWent DEF SeatJoiner, AskAt
<1>4. CASE SetMode(r)
  BY <1>4, AskWent DEF SetMode, AskAt
<1>5. QED BY <1>1, <1>2, <1>3, <1>4 DEF Arranging

\* Two inserts and an update write to one game; the others stay as they are.
LEMMA SeatsWrite ==
    ASSUME SocialOK, NEW r \in Slots, SeatCreator(r) \/ SeatJoiner(r) \/ SetMode(r)
    PROVE  /\ \A h \in games' : \E g \in games : h.id = g.id
           /\ \A g \in games : g.id # ask[r].doc => g \in games'
           /\ \A g \in games : g.id = ask[r].doc => \E h \in games' :
                 /\ h.id = g.id
                 /\ h.joiner = IF ask[r].pc = "joiner_seat" THEN ask[r].other ELSE g.joiner
                 /\ h.mode = IF ask[r].pc = "game_mode" THEN "friend" ELSE g.mode
<1>0. \A g \in games : g \in PrivateGame
  BY DEF SocialOK
<1>1. ASSUME NEW f, games' = {IF g.id = ask[r].doc THEN f[g] ELSE g : g \in games},
             \A g \in games : /\ f[g].id = g.id
                              /\ f[g].joiner = IF ask[r].pc = "joiner_seat" THEN ask[r].other ELSE g.joiner
                              /\ f[g].mode = IF ask[r].pc = "game_mode" THEN "friend" ELSE g.mode
      PROVE  /\ \A h \in games' : \E g \in games : h.id = g.id
             /\ \A g \in games : g.id # ask[r].doc => g \in games'
             /\ \A g \in games : g.id = ask[r].doc => \E h \in games' :
                   /\ h.id = g.id
                   /\ h.joiner = IF ask[r].pc = "joiner_seat" THEN ask[r].other ELSE g.joiner
                   /\ h.mode = IF ask[r].pc = "game_mode" THEN "friend" ELSE g.mode
  <2>1. \A g \in games : (IF g.id = ask[r].doc THEN f[g] ELSE g) \in games'
    BY <1>1
  <2>2. QED BY <1>1, <2>1
<1>2. CASE SeatCreator(r)
  <2> DEFINE f == [g \in games |-> [g EXCEPT !.creator = ask[r].by]]
  <2>1. games' = {IF g.id = ask[r].doc THEN f[g] ELSE g : g \in games} /\ ask[r].pc = "creator_seat"
    BY <1>2 DEF SeatCreator, AskAt
  <2>2. \A g \in games : f[g].id = g.id /\ f[g].joiner = g.joiner /\ f[g].mode = g.mode
    BY <1>0 DEF PrivateGame
  <2> HIDE DEF f
  <2>3. QED BY <1>1, <2>1, <2>2
<1>3. CASE SeatJoiner(r)
  <2> DEFINE f == [g \in games |-> [g EXCEPT !.joiner = ask[r].other]]
  <2>1. games' = {IF g.id = ask[r].doc THEN f[g] ELSE g : g \in games} /\ ask[r].pc = "joiner_seat"
    BY <1>3 DEF SeatJoiner, AskAt
  <2>2. \A g \in games : f[g].id = g.id /\ f[g].joiner = ask[r].other /\ f[g].mode = g.mode
    BY <1>0 DEF PrivateGame
  <2> HIDE DEF f
  <2>3. QED BY <1>1, <2>1, <2>2
<1>4. CASE SetMode(r)
  <2> DEFINE f == [g \in games |-> [g EXCEPT !.mode = "friend"]]
  <2>1. games' = {IF g.id = ask[r].doc THEN f[g] ELSE g : g \in games} /\ ask[r].pc = "game_mode"
    BY <1>4 DEF SetMode, AskAt
  <2>2. \A g \in games : f[g].id = g.id /\ f[g].joiner = g.joiner /\ f[g].mode = "friend"
    BY <1>0 DEF PrivateGame
  <2> HIDE DEF f
  <2>3. QED BY <1>1, <2>1, <2>2
<1>5. QED BY <1>2, <1>3, <1>4

\* Playing changes whether a game is over, and no more.
LEMMA PlayWrites ==
    ASSUME SocialOK, PlayPrivateGame
    PROVE  /\ \A h \in games' : \E g \in games : h.id = g.id
           /\ \A g \in games : \E h \in games' : h.id = g.id /\ h.joiner = g.joiner /\ h.mode = g.mode
           /\ UNCHANGED <<requests, friendships, inbox, nextDoc, ask, socialHistory>>
<1>1. PICK p \in games, status \in {"live", "over"} : games' = (games \ {p}) \cup {[p EXCEPT !.status = status]}
  BY DEF PlayPrivateGame
<1> DEFINE n == [p EXCEPT !.status = status]
<1>2. n.id = p.id /\ n.joiner = p.joiner /\ n.mode = p.mode
  BY DEF SocialOK, PrivateGame
<1>3. games' = (games \ {p}) \cup {n}
  BY <1>1
<1> HIDE DEF n
<1>4. QED BY <1>2, <1>3 DEF PlayPrivateGame

\* An answer rewrites the status of one request.
LEMMA AnswerRewrites ==
    ASSUME SocialOK, \A p, q \in requests : p.id = q.id => p = q, NEW r \in Slots, AnswerRequest(r),
           NEW q \in requests, q.id = ask[r].doc
    PROVE  \E p : /\ requests' = (requests \ {q}) \cup {p}
                  /\ p.id = q.id /\ p.from = q.from /\ p.to = q.to
                  /\ p.status = IF ask[r].accept THEN "accepted" ELSE "rejected"
<1> DEFINE status == IF ask[r].accept THEN "accepted" ELSE "rejected"
           p == [q EXCEPT !.status = status]
<1>1. requests' = {IF x.id = ask[r].doc THEN [x EXCEPT !.status = status] ELSE x : x \in requests}
  BY DEF AnswerRequest
<1>2. p.id = q.id /\ p.from = q.from /\ p.to = q.to /\ p.status = status
  BY DEF SocialOK, FriendRequest
<1>3. \A x \in requests : x.id = ask[r].doc <=> x = q
  OBVIOUS
<1>4. ASSUME NEW y \in requests' PROVE y \in (requests \ {q}) \cup {p}
  BY <1>1, <1>3
<1>5. ASSUME NEW y \in (requests \ {q}) \cup {p} PROVE y \in requests'
  <2>1. CASE y = p
    <3>1. p \in requests'
      BY <1>1
    <3>2. QED BY <2>1, <3>1
  <2>2. CASE y \in requests \ {q}
    <3>1. (IF y.id = ask[r].doc THEN [y EXCEPT !.status = status] ELSE y) \in requests'
      BY <1>1, <2>2
    <3>2. QED BY <1>3, <2>2, <3>1
  <2>3. QED BY <1>5, <2>1, <2>2
<1>6. requests' = (requests \ {q}) \cup {p}
  BY <1>4, <1>5
<1> HIDE DEF p
<1>7. QED BY <1>2, <1>6

(***************************************************************************)
(* Documents: ids are not used twice, and an answer in flight is an answer *)
(* to a request that exists.                                               *)
(***************************************************************************)
AnswersFound ==
    \A r \in Slots : AskAt(r, "answer") =>
        \E q \in requests : q.id = ask[r].doc /\ q.from = ask[r].other /\ q.to = ask[r].by

RequestIds == /\ \A q \in requests : q.id < nextDoc
              /\ \A p, q \in requests : p.id = q.id => p = q
Finite     == IsFiniteSet(requests) /\ IsFiniteSet(friendships) /\ IsFiniteSet(inbox)
GameIds    == \A g \in games : g.id < nextDoc

DocsSafe == RequestIds /\ AnswersFound /\ Finite /\ GameIds

LEMMA DocsInit == Init => DocsSafe
<1> SUFFICES ASSUME Init PROVE DocsSafe
  OBVIOUS
<1>1. IsFiniteSet(inbox)
  <2>1. PICK welcomed \in SUBSET alive :
          inbox = {[id |-> u, user |-> u, kind |-> "system", game |-> 0, unread |-> TRUE] : u \in welcomed}
    BY DEF Init, SocialInit
  <2>2. welcomed \subseteq Users
    BY TypedInit DEF Typed, TypeOK, RequestsOK
  <2>3. IsFiniteSet(welcomed)
    BY <2>2, UsersFinite, FS_Subset
  <2> DEFINE of == [n \in inbox |-> n.user]
  <2>4. of \in Injection(inbox, welcomed)
    <3>1. \A n \in inbox : n.user \in welcomed
      BY <2>1
    <3>2. of \in [inbox -> welcomed]
      BY <3>1
    <3>3. ASSUME NEW m \in inbox, NEW n \in inbox, m.user = n.user PROVE m = n
      <4>1. PICK a \in welcomed : m = [id |-> a, user |-> a, kind |-> "system", game |-> 0, unread |-> TRUE]
        BY <2>1
      <4>2. PICK b \in welcomed : n = [id |-> b, user |-> b, kind |-> "system", game |-> 0, unread |-> TRUE]
        BY <2>1
      <4>3. a = b
        BY <3>3, <4>1, <4>2
      <4>4. QED BY <4>1, <4>2, <4>3
    <3>4. \A m, n \in inbox : of[m] = of[n] => m = n
      BY <3>3
    <3>5. IsInjective(of)
      BY <3>4, DOMAIN of = inbox DEF IsInjective
    <3>6. QED BY <3>2, <3>5 DEF Injection
  <2>5. QED BY <2>3, <2>4, FS_Injection
<1>2. QED BY <1>1, FS_EmptySet
      DEF Init, SocialInit, DocsSafe, RequestIds, AnswersFound, Finite, GameIds, AskAt, NoAsk

\* A step that leaves the requests alone, or adds to them.
LEMMA DocsKept ==
    ASSUME DocsSafe, SocialOK, NEW r \in Slots, \A s \in Slots \ {r} : ask'[s] = ask[s],
           ask'[r].pc # "answer", requests \subseteq requests', RequestIds', Finite', GameIds'
    PROVE  DocsSafe'
<1>1. AnswersFound'
  BY DEF DocsSafe, AnswersFound, AskAt
<1>2. QED BY <1>1 DEF DocsSafe

LEMMA SendKeeps ==
    ASSUME DocsSafe, SocialOK, NEW k, NEW u, NEW g, Send(k, u, g), UNCHANGED <<requests, friendships, games>>
    PROVE  RequestIds' /\ Finite' /\ GameIds'
<1>1. PICK m : inbox' = inbox \cup {m} /\ nextDoc' = nextDoc + 1
  BY SendAdds
<1>2. IsFiniteSet(inbox')
  BY <1>1, FS_AddElement DEF DocsSafe, Finite
<1>3. RequestIds' /\ GameIds'
  BY <1>1 DEF DocsSafe, RequestIds, GameIds, SocialOK, FriendRequest, PrivateGame
<1>4. QED BY <1>2, <1>3 DEF DocsSafe, Finite

LEMMA DocsStep ==
    ASSUME SocialOK, ask \in [Slots -> GoodAsk], DocsSafe, NEW r \in Slots, SocialStep(r)
    PROVE  DocsSafe'
<1>0. nextDoc \in Nat /\ \A q \in requests : q.id \in Nat
  BY DEF SocialOK, FriendRequest
<1>1. CASE Aside(r)
  BY <1>1, AsideStep, DocsKept DEF DocsSafe, RequestIds, Finite, GameIds
<1>2. CASE Telling(r)
  <2>1. CASE UNCHANGED <<inbox, nextDoc>>
    BY <1>2, <2>1, TellingStep, DocsKept DEF DocsSafe, RequestIds, Finite, GameIds
  <2>2. CASE \E k, u, g : Send(k, u, g)
    BY <1>2, <2>2, TellingStep, SendKeeps, DocsKept
  <2>3. QED BY <1>2, <2>1, <2>2, TellingStep
<1>3. CASE Arranging(r)
  <2>1. /\ UNCHANGED <<requests, friendships, inbox>> /\ ask'[r].pc # "answer"
        /\ nextDoc' = nextDoc \/ nextDoc' = nextDoc + 1
        /\ \A s \in Slots \ {r} : ask'[s] = ask[s]
    BY <1>3, ArrangingStep
  <2>2. RequestIds' /\ Finite'
    BY <1>0, <2>1 DEF DocsSafe, RequestIds, Finite
  <2>3. ASSUME NEW h \in games' PROVE h.id < nextDoc'
    <3>0. nextDoc \in Nat /\ \A g \in games : g.id \in Nat
      BY DEF SocialOK, PrivateGame
    <3>1. CASE ChallengeBegin(r)
      <4> DEFINE new == [id |-> nextDoc, creator |-> 0, joiner |-> 0, mode |-> "none", status |-> "live"]
      <4>1. games' = games \cup {new} /\ nextDoc' = nextDoc + 1 /\ new.id = nextDoc
        BY <3>1 DEF ChallengeBegin
      <4> HIDE DEF new
      <4>2. QED BY <2>3, <3>0, <4>1 DEF DocsSafe, GameIds
    <3>2. CASE SeatCreator(r) \/ SeatJoiner(r) \/ SetMode(r)
      <4>1. PICK g \in games : h.id = g.id
        BY <2>3, <3>2, SeatsWrite
      <4>2. QED BY <2>1, <3>0, <4>1 DEF DocsSafe, GameIds
    <3>3. QED BY <1>3, <3>1, <3>2 DEF Arranging
  <2>4. QED BY <2>1, <2>2, <2>3, DocsKept DEF GameIds
<1>4. CASE InsertRequest(r)
  <2> DEFINE new == [id |-> nextDoc, from |-> ask[r].by, to |-> ask[r].other, status |-> "pending"]
  <2>1. requests' = requests \cup {new} /\ new.id = nextDoc
    BY <1>4 DEF InsertRequest
  <2>2. AskGoto(r, "ask_notice") /\ UNCHANGED <<friendships, games, inbox>> /\ nextDoc' = nextDoc + 1
    BY <1>4 DEF InsertRequest
  <2> HIDE DEF new
  <2>3. RequestIds'
    BY <1>0, <2>1, <2>2 DEF DocsSafe, RequestIds
  <2>4. Finite'
    BY <2>1, <2>2, FS_AddElement DEF DocsSafe, Finite
  <2>5. GameIds'
    BY <2>2 DEF DocsSafe, GameIds, SocialOK, PrivateGame
  <2>6. QED BY <2>1, <2>2, <2>3, <2>4, <2>5, AskWent, DocsKept
<1>5. CASE RespondBegin(r)
  <2>1. PICK q \in requests, accept \in BOOLEAN :
          AskBegin(r, [NoAsk EXCEPT !.pc = "answer", !.by = q.to, !.other = q.from,
                                    !.doc = q.id, !.accept = accept])
    BY <1>5 DEF RespondBegin
  <2>2. LET a == [NoAsk EXCEPT !.pc = "answer", !.by = q.to, !.other = q.from,
                               !.doc = q.id, !.accept = accept]
        IN  a.by = q.to /\ a.other = q.from /\ a.doc = q.id
    BY DEF NoAsk
  <2>3. /\ \A s \in Slots \ {r} : ask'[s] = ask[s]
        /\ ask'[r].by = q.to /\ ask'[r].other = q.from /\ ask'[r].doc = q.id
    BY <2>1, <2>2, AskBegun
  <2>4. UNCHANGED <<requests, friendships, games, inbox, nextDoc>>
    BY <1>5 DEF RespondBegin
  <2>5. AnswersFound'
    BY <2>3, <2>4 DEF DocsSafe, AnswersFound, AskAt
  <2>6. QED BY <2>4, <2>5 DEF DocsSafe, RequestIds, Finite, GameIds
<1>6. CASE AnswerRequest(r)
  <2>1. PICK q \in requests : q.id = ask[r].doc
    BY <1>6 DEF AnswerRequest, DocsSafe, AnswersFound
  <2>2. PICK p : /\ requests' = (requests \ {q}) \cup {p}
                 /\ p.id = q.id /\ p.from = q.from /\ p.to = q.to
    BY <1>6, <2>1, AnswerRewrites DEF DocsSafe, RequestIds
  <2>3. /\ UNCHANGED <<friendships, games, inbox, nextDoc>>
        /\ \A s \in Slots \ {r} : ask'[s] = ask[s]
        /\ ask'[r].pc # "answer"
    BY <1>6, AskGone, AskWent DEF AnswerRequest
  <2>4. RequestIds'
    BY <2>2, <2>3 DEF DocsSafe, RequestIds
  <2>5. IsFiniteSet(requests')
    BY <2>2, FS_RemoveElement, FS_AddElement DEF DocsSafe, Finite
  <2>6. \A x \in requests : \E y \in requests' : y.id = x.id /\ y.from = x.from /\ y.to = x.to
    BY <2>2
  <2>7. AnswersFound'
    <3>1. ASSUME NEW s \in Slots, ask'[s].pc = "answer"
          PROVE  \E y \in requests' : y.id = ask'[s].doc /\ y.from = ask'[s].other /\ y.to = ask'[s].by
      <4>1. ask'[s] = ask[s]
        BY <2>3, <3>1
      <4>2. PICK x \in requests : x.id = ask[s].doc /\ x.from = ask[s].other /\ x.to = ask[s].by
        BY <3>1, <4>1 DEF DocsSafe, AnswersFound, AskAt
      <4>3. QED BY <2>6, <4>1, <4>2
    <3>2. QED BY <3>1 DEF AnswersFound, AskAt
  <2>8. QED BY <2>3, <2>4, <2>5, <2>7 DEF DocsSafe, Finite, GameIds
<1>7. CASE Befriend(r)
  <2>1. /\ AskGoto(r, "accept_notice") /\ UNCHANGED <<requests, games, inbox>> /\ nextDoc' = nextDoc + 1
        /\ \E f : friendships' = friendships \cup {f}
    BY <1>7 DEF Befriend
  <2>2. Finite'
    BY <2>1, FS_AddElement DEF DocsSafe, Finite
  <2>3. RequestIds' /\ GameIds'
    BY <1>0, <2>1 DEF DocsSafe, RequestIds, GameIds, SocialOK, PrivateGame
  <2>4. QED BY <2>1, <2>2, <2>3, AskWent, DocsKept
<1>8. QED BY <1>1, <1>2, <1>3, <1>4, <1>5, <1>6, <1>7, StepKinds

LEMMA DocsNext == Typed /\ DocsSafe /\ [Next]_vars => DocsSafe'
<1> SUFFICES ASSUME Typed, DocsSafe, [Next]_vars PROVE DocsSafe'
  OBVIOUS
<1>1. CASE UNCHANGED socialVars
  BY <1>1 DEF DocsSafe, RequestIds, AnswersFound, Finite, GameIds, AskAt
<1>2. CASE SocialTurn
  <2>1. CASE RemoveFriend
    <3>1. friendships' \subseteq friendships /\ UNCHANGED <<requests, games, inbox, nextDoc, ask>>
      BY <2>1 DEF RemoveFriend
    <3>2. QED BY <3>1, FS_Subset DEF DocsSafe, RequestIds, AnswersFound, Finite, GameIds, AskAt
  <2>2. CASE MarkRead
    <3>1. PICK m \in inbox : \E n :
              /\ inbox' = (inbox \ {m}) \cup {n}
              /\ UNCHANGED <<requests, friendships, games, nextDoc, ask>>
      BY <2>2, ReadInPlace DEF Typed, TypeOK
    <3>2. IsFiniteSet(inbox')
      <4>1. PICK n : inbox' = (inbox \ {m}) \cup {n}
        BY <3>1
      <4>2. IsFiniteSet(inbox \ {m})
        BY FS_RemoveElement DEF DocsSafe, Finite
      <4>3. QED BY <4>1, <4>2, FS_AddElement
    <3>3. QED BY <3>1, <3>2 DEF DocsSafe, RequestIds, AnswersFound, Finite, GameIds, AskAt
  <2>3. CASE PlayPrivateGame
    <3>1. /\ UNCHANGED <<requests, friendships, inbox, nextDoc, ask>>
          /\ \A h \in games' : \E g \in games : h.id = g.id
      BY <2>3, PlayWrites DEF Typed, TypeOK
    <3>2. QED BY <3>1 DEF DocsSafe, RequestIds, AnswersFound, Finite, GameIds, AskAt
  <2>4. QED BY <1>2, <2>1, <2>2, <2>3, DocsStep DEF SocialTurn, SocialNext, Typed, TypeOK, InFlight
<1>3. ASSUME NEW u, Greet(u) PROVE DocsSafe'
  <2>1. Send("system", u, 0) /\ UNCHANGED <<requests, friendships, games, ask>>
    BY <1>3 DEF Greet
  <2>2. RequestIds' /\ Finite' /\ GameIds'
    BY <2>1, SendKeeps DEF Typed, TypeOK
  <2>3. QED BY <2>1, <2>2 DEF DocsSafe, AnswersFound, AskAt
<1>4. QED
  BY <1>1, <1>2, <1>3, SocialTurns DEF Typed, TypeOK

(***************************************************************************)
(* One yes, one friendship.  An answer to a request that nobody else is    *)
(* answering finds it pending; so each friendship, and each about to be    *)
(* made, has an accepted request of its own.                               *)
(***************************************************************************)
Accepted(u, v) == {q \in requests : q.from = u /\ q.to = v /\ q.status = "accepted"}
Made(u, v)     == {f \in friendships : f.from = u /\ f.to = v}
Making(u, v)   == {r \in Slots : AskAt(r, "befriend") /\ ask[r].other = u /\ ask[r].by = v}

YesCounted ==
    \A u, v \in Users : <<u, v>> \notin crossed =>
        Cardinality(Made(u, v)) + Cardinality(Making(u, v)) <= Cardinality(Accepted(u, v))
AnswersApart ==
    \A r \in Slots : AskAt(r, "answer") /\ <<ask[r].other, ask[r].by>> \notin crossed =>
        /\ \A q \in requests : q.id = ask[r].doc => q.status = "pending"
        /\ \A s \in Slots \ {r} : AskAt(s, "answer") => ask[s].doc # ask[r].doc

YesSafe == YesCounted /\ AnswersApart

LEMMA YesInit == Init => YesSafe
<1> SUFFICES ASSUME Init PROVE YesSafe
  OBVIOUS
<1>1. \A u, v : Made(u, v) = {} /\ Making(u, v) = {} /\ Accepted(u, v) = {}
  BY DEF Init, SocialInit, NoAsk, Made, Making, Accepted, AskAt
<1>2. YesCounted
  BY <1>1, FS_EmptySet DEF YesCounted
<1>3. AnswersApart
  BY DEF Init, SocialInit, NoAsk, AnswersApart, AskAt
<1>4. QED BY <1>2, <1>3 DEF YesSafe

LEMMA CountsFinite ==
    ASSUME DocsSafe
    PROVE  \A u, v : IsFiniteSet(Made(u, v)) /\ IsFiniteSet(Making(u, v)) /\ IsFiniteSet(Accepted(u, v))
<1>1. \A u, v : Made(u, v) \subseteq friendships /\ Making(u, v) \subseteq Slots
                /\ Accepted(u, v) \subseteq requests
  BY DEF Made, Making, Accepted
<1>2. QED BY <1>1, FS_Subset, RequestsAssumption DEF DocsSafe, Finite

\* The numbers of two users after a step that adds to none of them.
LEMMA YesFewer ==
    ASSUME DocsSafe, YesCounted, NEW u \in Users, NEW v \in Users, <<u, v>> \notin crossed,
           Made(u, v)' \subseteq Made(u, v), Making(u, v)' \subseteq Making(u, v),
           Accepted(u, v)' = Accepted(u, v)
    PROVE  Cardinality(Made(u, v)') + Cardinality(Making(u, v)') <= Cardinality(Accepted(u, v)')
<1>1. /\ Cardinality(Made(u, v)') <= Cardinality(Made(u, v))
      /\ Cardinality(Making(u, v)') <= Cardinality(Making(u, v))
      /\ Cardinality(Made(u, v)') \in Nat /\ Cardinality(Made(u, v)) \in Nat
      /\ Cardinality(Making(u, v)') \in Nat /\ Cardinality(Making(u, v)) \in Nat
      /\ Cardinality(Accepted(u, v)) \in Nat
  BY CountsFinite, CountSame
<1>2. Cardinality(Made(u, v)) + Cardinality(Making(u, v)) <= Cardinality(Accepted(u, v))
  BY DEF YesCounted
<1>3. QED BY <1>1, <1>2

\* A step that answers nothing and makes no friends.
LEMMA YesKept ==
    ASSUME DocsSafe, YesSafe, crossed \subseteq crossed',
           NEW r \in Slots, \A s \in Slots \ {r} : ask'[s] = ask[s], ask'[r].pc \notin {"answer", "befriend"},
           friendships' \subseteq friendships, \A u, v : Accepted(u, v)' = Accepted(u, v),
           \A q \in requests' : q \in requests \/ q.status = "pending"
    PROVE  YesSafe'
<1>1. \A u, v : Making(u, v)' \subseteq Making(u, v) /\ Made(u, v)' \subseteq Made(u, v)
  BY DEF Making, Made, AskAt
<1>2. YesCounted'
  BY <1>1, YesFewer DEF YesCounted, YesSafe
<1>3. AnswersApart'
  BY DEF YesSafe, AnswersApart, AskAt
<1>4. QED BY <1>2, <1>3 DEF YesSafe

LEMMA YesStep ==
    ASSUME SocialOK, ask \in [Slots -> GoodAsk], DocsSafe, YesSafe, NEW r \in Slots, SocialStep(r)
    PROVE  YesSafe'
<1>1. CASE Aside(r) \/ Telling(r) \/ Arranging(r)
  <2>1. /\ UNCHANGED <<requests, friendships, crossed>>
        /\ \A s \in Slots \ {r} : ask'[s] = ask[s]
        /\ ask'[r].pc \notin {"answer", "befriend"}
    BY <1>1, AsideStep, TellingStep, ArrangingStep
  <2>2. QED BY <2>1, YesKept DEF Accepted
<1>2. CASE InsertRequest(r)
  <2> DEFINE new == [id |-> nextDoc, from |-> ask[r].by, to |-> ask[r].other, status |-> "pending"]
  <2>1. requests' = requests \cup {new} /\ new.status = "pending"
    BY <1>2 DEF InsertRequest
  <2>2. AskGoto(r, "ask_notice") /\ UNCHANGED <<friendships, crossed>>
    BY <1>2 DEF InsertRequest
  <2> HIDE DEF new
  <2>3. \A u, v : Accepted(u, v)' = Accepted(u, v)
    BY <2>1 DEF Accepted
  <2>4. QED BY <2>1, <2>2, <2>3, AskWent, YesKept
<1>3. CASE RespondBegin(r)
  <2>1. PICK q \in requests, accept \in BOOLEAN :
          /\ q.status = "pending"
          /\ AskBegin(r, [NoAsk EXCEPT !.pc = "answer", !.by = q.to, !.other = q.from,
                                       !.doc = q.id, !.accept = accept])
          /\ crossed' = CrossedBy(q)
    BY <1>3 DEF RespondBegin
  <2>2. LET a == [NoAsk EXCEPT !.pc = "answer", !.by = q.to, !.other = q.from,
                               !.doc = q.id, !.accept = accept]
        IN  a.pc = "answer" /\ a.by = q.to /\ a.other = q.from /\ a.doc = q.id
    BY DEF NoAsk
  <2>3. /\ \A s \in Slots \ {r} : ask'[s] = ask[s]
        /\ ask[r].pc = "idle" /\ ask'[r].pc = "answer"
        /\ ask'[r].by = q.to /\ ask'[r].other = q.from /\ ask'[r].doc = q.id
    BY <2>1, <2>2, AskBegun
  <2>4. /\ requests' = requests /\ friendships' = friendships /\ crossed \subseteq crossed'
        /\ <<q.from, q.to>> \notin crossed' => Answering(q.id) = {}
    BY <1>3, <2>1 DEF RespondBegin, CrossedBy
  <2>5. YesCounted'
    <3>1. \A u, v : /\ Making(u, v)' \subseteq Making(u, v) /\ Made(u, v)' \subseteq Made(u, v)
                    /\ Accepted(u, v)' = Accepted(u, v)
      BY <2>3, <2>4 DEF Making, Made, Accepted, AskAt
    <3>2. QED BY <2>4, <3>1, YesFewer DEF YesCounted, YesSafe
  <2>6. ASSUME NEW s \in Slots, ask'[s].pc = "answer", <<ask'[s].other, ask'[s].by>> \notin crossed'
        PROVE  /\ \A p \in requests : p.id = ask'[s].doc => p.status = "pending"
               /\ \A t \in Slots \ {s} : ask'[t].pc = "answer" => ask'[t].doc # ask'[s].doc
    <3>1. CASE s = r
      <4>1. \A p \in requests : p.id = q.id => p = q
        BY DEF DocsSafe, RequestIds
      <4>2. \A t \in Slots \ {r} : ask[t].pc = "answer" => ask[t].doc # q.id
        BY <2>3, <2>4, <2>6, <3>1 DEF Answering
      <4>3. QED BY <2>1, <2>3, <3>1, <4>1, <4>2
    <3>2. CASE s # r
      <4>1. ask'[s] = ask[s]
        BY <2>3, <3>2
      <4>2. PICK p \in requests : p.id = ask[s].doc /\ p.from = ask[s].other /\ p.to = ask[s].by
        BY <2>6, <4>1 DEF DocsSafe, AnswersFound, AskAt
      <4>3. ask[s].doc # q.id
        <5>1. SUFFICES ASSUME ask[s].doc = q.id PROVE FALSE
          OBVIOUS
        <5>2. p = q
          BY <4>2, <5>1 DEF DocsSafe, RequestIds
        <5>3. s \in Answering(q.id)
          BY <2>6, <4>1, <5>1 DEF Answering
        <5>4. QED BY <2>4, <2>6, <4>1, <4>2, <5>2, <5>3
      <4>4. QED BY <2>3, <2>4, <2>6, <4>1, <4>3 DEF YesSafe, AnswersApart, AskAt
    <3>3. QED BY <3>1, <3>2
  <2>7. AnswersApart'
    BY <2>4, <2>6 DEF AnswersApart, AskAt
  <2>8. QED BY <2>5, <2>7 DEF YesSafe
<1>4. CASE AnswerRequest(r)
  <2>0. PICK from, to : from = ask[r].other /\ to = ask[r].by
    OBVIOUS
  <2>1. PICK q \in requests : q.id = ask[r].doc /\ q.from = from /\ q.to = to
    BY <1>4, <2>0 DEF AnswerRequest, DocsSafe, AnswersFound
  <2>2. PICK p : /\ requests' = (requests \ {q}) \cup {p}
                 /\ p.id = q.id /\ p.from = q.from /\ p.to = q.to
                 /\ p.status = IF ask[r].accept THEN "accepted" ELSE "rejected"
    BY <1>4, <2>1, AnswerRewrites DEF DocsSafe, RequestIds
  <2>3. /\ friendships' = friendships /\ crossed' = crossed /\ ask[r].pc = "answer"
        /\ \A s \in Slots \ {r} : ask'[s] = ask[s]
        /\ \/ ask'[r].pc = "idle" /\ ~ask[r].accept
           \/ ask'[r].pc = "befriend" /\ ask[r].accept /\ ask'[r].other = from /\ ask'[r].by = to
    BY <1>4, <2>0, AskGone, AskWent DEF AnswerRequest, AskAt
  <2>4. <<from, to>> \notin crossed => q.status = "pending"
    BY <2>0, <2>1, <2>3 DEF YesSafe, AnswersApart, AskAt
  <2>5. ASSUME NEW u \in Users, NEW v \in Users, <<u, v>> \notin crossed'
        PROVE  Cardinality(Made(u, v)') + Cardinality(Making(u, v)') <= Cardinality(Accepted(u, v)')
    <3>1. Made(u, v)' \subseteq Made(u, v)
      BY <2>3 DEF Made
    <3>2. CASE <<u, v>> # <<from, to>>
      <4>1. Making(u, v)' \subseteq Making(u, v)
        BY <2>3, <3>2 DEF Making, AskAt
      <4>2. Accepted(u, v)' = Accepted(u, v)
        BY <2>1, <2>2, <3>2 DEF Accepted
      <4>3. QED BY <2>3, <2>5, <3>1, <4>1, <4>2, YesFewer DEF YesSafe
    <3>3. CASE u = from /\ v = to /\ ~ask[r].accept
      <4>1. Making(u, v)' \subseteq Making(u, v)
        BY <2>3, <3>3 DEF Making, AskAt
      <4>2. Accepted(u, v)' = Accepted(u, v)
        BY <2>1, <2>2, <2>3, <2>4, <2>5, <3>3 DEF Accepted
      <4>3. QED BY <2>3, <2>5, <3>1, <4>1, <4>2, YesFewer DEF YesSafe
    <3>4. CASE u = from /\ v = to /\ ask[r].accept
      <4>1. Making(u, v)' \subseteq Making(u, v) \cup {r}
        BY <2>3, <3>4 DEF Making, AskAt
      <4>2. p \notin requests /\ p \notin Accepted(u, v)
        BY <2>1, <2>2, <2>3, <2>4, <2>5, <3>4 DEF DocsSafe, RequestIds, Accepted
      <4>3. Accepted(u, v)' = Accepted(u, v) \cup {p}
        BY <2>1, <2>2, <2>3, <2>4, <2>5, <3>4 DEF Accepted
      <4>4. Cardinality(Accepted(u, v)') = Cardinality(Accepted(u, v)) + 1
        BY <4>2, <4>3, CountsFinite, FS_AddElement
      <4>5. /\ Cardinality(Making(u, v)') <= Cardinality(Making(u, v)) + 1
            /\ Cardinality(Making(u, v)') \in Nat /\ Cardinality(Making(u, v)) \in Nat
        BY <4>1, CountsFinite, CountMore
      <4>6. /\ Cardinality(Made(u, v)') <= Cardinality(Made(u, v))
            /\ Cardinality(Made(u, v)') \in Nat /\ Cardinality(Made(u, v)) \in Nat
            /\ Cardinality(Accepted(u, v)) \in Nat
        BY <3>1, CountsFinite, CountSame
      <4>7. Cardinality(Made(u, v)) + Cardinality(Making(u, v)) <= Cardinality(Accepted(u, v))
        BY <2>3, <2>5 DEF YesSafe, YesCounted
      <4>8. QED BY <4>4, <4>5, <4>6, <4>7
    <3>5. QED BY <3>2, <3>3, <3>4
  <2>6. ASSUME NEW s \in Slots, ask'[s].pc = "answer", <<ask'[s].other, ask'[s].by>> \notin crossed'
        PROVE  /\ \A x \in requests' : x.id = ask'[s].doc => x.status = "pending"
               /\ \A t \in Slots \ {s} : ask'[t].pc = "answer" => ask'[t].doc # ask'[s].doc
    <3>1. s # r /\ ask'[s] = ask[s]
      BY <2>3, <2>6
    <3>2. /\ \A x \in requests : x.id = ask[s].doc => x.status = "pending"
          /\ \A t \in Slots \ {s} : ask[t].pc = "answer" => ask[t].doc # ask[s].doc
      BY <2>3, <2>6, <3>1 DEF YesSafe, AnswersApart, AskAt
    <3>3. p.id # ask[s].doc
      BY <2>1, <2>2, <2>3, <3>1, <3>2
    <3>4. QED BY <2>2, <2>3, <3>1, <3>2, <3>3
  <2>7. YesCounted' /\ AnswersApart'
    BY <2>5, <2>6 DEF YesCounted, AnswersApart, AskAt
  <2>8. QED BY <2>7 DEF YesSafe
<1>5. CASE Befriend(r)
  <2>0. PICK from, to : from = ask[r].other /\ to = ask[r].by
    OBVIOUS
  <2> DEFINE new == [id |-> nextDoc, from |-> from, to |-> to]
  <2>1. friendships' = friendships \cup {new} /\ new.from = from /\ new.to = to
    BY <1>5, <2>0 DEF Befriend
  <2> HIDE DEF new
  <2>2. /\ requests' = requests /\ crossed' = crossed /\ ask[r].pc = "befriend"
        /\ \A s \in Slots \ {r} : ask'[s] = ask[s]
        /\ ask'[r].pc = "accept_notice"
    BY <1>5, AskWent DEF Befriend, AskAt
  <2>3. ASSUME NEW u \in Users, NEW v \in Users, <<u, v>> \notin crossed'
        PROVE  Cardinality(Made(u, v)') + Cardinality(Making(u, v)') <= Cardinality(Accepted(u, v)')
    <3>1. Accepted(u, v)' = Accepted(u, v)
      BY <2>2 DEF Accepted
    <3>2. CASE <<u, v>> # <<from, to>>
      <4>1. Making(u, v)' \subseteq Making(u, v) /\ Made(u, v)' \subseteq Made(u, v)
        BY <2>1, <2>2, <3>2 DEF Making, Made, AskAt
      <4>2. QED BY <2>2, <2>3, <3>1, <4>1, YesFewer DEF YesSafe
    <3>3. CASE u = from /\ v = to
      <4>1. r \in Making(u, v) /\ Making(u, v)' \subseteq Making(u, v) \ {r}
        BY <2>0, <2>2, <3>3 DEF Making, AskAt
      <4>2. Made(u, v)' \subseteq Made(u, v) \cup {new}
        BY <2>1 DEF Made
      <4>3. /\ Cardinality(Making(u, v)') + 1 <= Cardinality(Making(u, v))
            /\ Cardinality(Making(u, v)') \in Nat /\ Cardinality(Making(u, v)) \in Nat
        BY <4>1, CountsFinite, CountLess
      <4>4. /\ Cardinality(Made(u, v)') <= Cardinality(Made(u, v)) + 1
            /\ Cardinality(Made(u, v)') \in Nat /\ Cardinality(Made(u, v)) \in Nat
        BY <4>2, CountsFinite, CountMore
      <4>5. /\ Cardinality(Made(u, v)) + Cardinality(Making(u, v)) <= Cardinality(Accepted(u, v))
            /\ Cardinality(Accepted(u, v)) \in Nat
        BY <2>2, <2>3, CountsFinite, FS_CardinalityType DEF YesSafe, YesCounted
      <4>6. QED BY <3>1, <4>3, <4>4, <4>5
    <3>4. QED BY <3>2, <3>3
  <2>4. YesCounted'
    BY <2>3 DEF YesCounted
  <2>5. AnswersApart'
    BY <2>2 DEF YesSafe, AnswersApart, AskAt
  <2>6. QED BY <2>4, <2>5 DEF YesSafe
<1>6. QED BY <1>1, <1>2, <1>3, <1>4, <1>5, StepKinds

LEMMA YesNext == Typed /\ DocsSafe /\ YesSafe /\ [Next]_vars => YesSafe'
<1> SUFFICES ASSUME Typed, DocsSafe, YesSafe, [Next]_vars PROVE YesSafe'
  OBVIOUS
<1>1. CASE friendships' \subseteq friendships /\ UNCHANGED <<requests, ask, crossed>>
  <2>1. \A u, v : /\ Making(u, v)' \subseteq Making(u, v) /\ Made(u, v)' \subseteq Made(u, v)
                  /\ Accepted(u, v)' = Accepted(u, v)
    BY <1>1 DEF Making, Made, Accepted, AskAt
  <2>2. YesCounted'
    BY <1>1, <2>1, YesFewer DEF YesCounted, YesSafe
  <2>3. AnswersApart'
    BY <1>1 DEF YesSafe, AnswersApart, AskAt
  <2>4. QED BY <2>2, <2>3 DEF YesSafe
<1>2. CASE SocialTurn
  BY <1>1, <1>2, YesStep DEF SocialTurn, SocialNext, RemoveFriend, PlayPrivateGame, MarkRead, Typed, TypeOK, InFlight
<1>3. ASSUME NEW u, Greet(u) PROVE YesSafe'
  BY <1>1, <1>3 DEF Greet
<1>4. QED
  BY <1>1, <1>2, <1>3, SocialTurns DEF Typed, TypeOK

\* Unless two answers to one request overlapped, there are never more
\* friendships between two users than accepted requests, so remove_friend,
\* which deletes one, ends what one yes began (respond_to_friend_request).
THEOREM OneYesOneFriendship == Spec => []OneFriendshipPerYes
<1>1. Init => Typed /\ DocsSafe /\ YesSafe
  BY TypedInit, DocsInit, YesInit
<1>2. Typed /\ DocsSafe /\ YesSafe /\ [Next]_vars => (Typed /\ DocsSafe /\ YesSafe)'
  BY TypedStep, DocsNext, YesNext
<1>3. DocsSafe /\ YesSafe => OneFriendshipPerYes
  <2> SUFFICES ASSUME DocsSafe, YesSafe, NEW u \in Users, NEW v \in Users, <<u, v>> \notin crossed
               PROVE  Cardinality(Made(u, v)) <= Cardinality(Accepted(u, v))
    BY DEF OneFriendshipPerYes, Made, Accepted
  <2>1. /\ Cardinality(Made(u, v)) \in Nat /\ Cardinality(Making(u, v)) \in Nat
        /\ Cardinality(Accepted(u, v)) \in Nat
    BY CountsFinite, FS_CardinalityType
  <2>2. QED BY <2>1 DEF YesSafe, YesCounted
<1>4. QED BY <1>1, <1>2, <1>3, PTL DEF Spec

(***************************************************************************)
(* News.  A challenge has its game to itself until the challenged user is  *)
(* told; of games of which somebody was told, play changes whether they    *)
(* are over and nothing changes more.  Each message about a request, sent  *)
(* or about to be, has a request of its own; who is about to be told of a  *)
(* yes was given one.                                                      *)
(***************************************************************************)
Challenging(r) == ask[r].pc \in {"creator_seat", "joiner_seat", "game_mode", "challenger"}
Playable(g)    == g.mode = "friend"
Announcing(u)  == {r \in Slots : AskAt(r, "ask_notice") /\ ask[r].other = u}
AskedOf(u)     == {q \in requests : q.to = u}

GamesApart ==
    \A r \in Slots : Challenging(r) =>
        /\ ask[r].doc < nextDoc
        /\ \A s \in Slots \ {r} : Challenging(s) => ask[s].doc # ask[r].doc
        /\ \A n \in inbox : n.kind = "challenge" => n.game # ask[r].doc
GamesReady ==
    \A r \in Slots : Challenging(r) => \E g \in games :
        /\ g.id = ask[r].doc
        /\ AskAt(r, "game_mode") \/ AskAt(r, "challenger") => g.joiner = ask[r].other
        /\ AskAt(r, "challenger") => Playable(g)
ChallengesTrue ==
    \A n \in inbox : n.kind = "challenge" => \E g \in games :
        g.id = n.game /\ Playable(g) /\ g.joiner = n.user
RequestsTold ==
    \A u \in Users :
        Cardinality(Messages("friend_request", u)) + Cardinality(Announcing(u)) <= Cardinality(AskedOf(u))
YesTold ==
    /\ \A r \in Slots : AskAt(r, "accept_notice") => <<ask[r].other, ask[r].by>> \in agreed
    /\ \A n \in inbox : n.kind = "friend_accept" => \E v \in Users : <<n.user, v>> \in agreed

ChallengeSafe == GamesApart /\ GamesReady /\ ChallengesTrue
NewsSafe      == ChallengeSafe /\ RequestsTold /\ YesTold

LEMMA NewsInit == Init => NewsSafe
<1> SUFFICES ASSUME Init PROVE NewsSafe
  OBVIOUS
<1>0. (\A n \in inbox : n.kind = "system") /\ (\A r \in Slots : ask[r].pc = "idle") /\ requests = {}
  BY DEF Init, SocialInit, NoAsk
<1>1. ChallengeSafe /\ YesTold
  BY <1>0 DEF ChallengeSafe, GamesApart, GamesReady, ChallengesTrue, Challenging, YesTold, AskAt
<1>2. \A u : Messages("friend_request", u) = {} /\ Announcing(u) = {} /\ AskedOf(u) = {}
  BY <1>0 DEF Messages, Announcing, AskedOf, AskAt
<1>3. RequestsTold
  BY <1>2, FS_EmptySet DEF RequestsTold
<1>4. QED BY <1>1, <1>3 DEF NewsSafe

\* Challenges after a step that is not about one.
LEMMA ChallengesKept ==
    ASSUME ChallengeSafe, SocialOK, NEW r \in Slots, \A s \in Slots \ {r} : ask'[s] = ask[s],
           ask'[r].pc \notin {"creator_seat", "joiner_seat", "game_mode", "challenger"}, games' = games,
           nextDoc' = nextDoc \/ nextDoc' = nextDoc + 1,
           \A n \in inbox' : n.kind = "challenge" =>
              \E m \in inbox : m.kind = n.kind /\ m.game = n.game /\ m.user = n.user
    PROVE  ChallengeSafe'
<1>0. nextDoc \in Nat /\ \A s \in Slots : ask[s].doc \in Nat
  BY DEF SocialOK, Ask
<1>1. \A s \in Slots : Challenging(s)' => Challenging(s) /\ ask'[s] = ask[s]
  BY DEF Challenging
<1>2. GamesApart'
  <2>1. ASSUME NEW s \in Slots, Challenging(s)'
        PROVE  /\ ask'[s].doc < nextDoc'
               /\ \A t \in Slots \ {s} : Challenging(t)' => ask'[t].doc # ask'[s].doc
               /\ \A n \in inbox' : n.kind = "challenge" => n.game # ask'[s].doc
    <3>1. /\ ask[s].doc < nextDoc
          /\ \A t \in Slots \ {s} : Challenging(t) => ask[t].doc # ask[s].doc
          /\ \A n \in inbox : n.kind = "challenge" => n.game # ask[s].doc
          /\ ask'[s] = ask[s]
      BY <1>1, <2>1 DEF ChallengeSafe, GamesApart
    <3>2. ask'[s].doc < nextDoc'
      BY <1>0, <3>1
    <3>3. \A n \in inbox' : n.kind = "challenge" => n.game # ask'[s].doc
      BY <3>1
    <3>4. QED BY <1>1, <3>1, <3>2, <3>3
  <2>2. QED BY <2>1 DEF GamesApart, Challenging
<1>3. GamesReady'
  BY <1>1 DEF ChallengeSafe, GamesReady, AskAt, Challenging, Playable
<1>4. ChallengesTrue'
  <2>1. ASSUME NEW n \in inbox', n.kind = "challenge"
        PROVE  \E g \in games : g.id = n.game /\ Playable(g) /\ g.joiner = n.user
    <3>1. PICK m \in inbox : m.kind = n.kind /\ m.game = n.game /\ m.user = n.user
      BY <2>1
    <3>2. QED BY <2>1, <3>1 DEF ChallengeSafe, ChallengesTrue
  <2>2. QED BY <2>1 DEF ChallengesTrue, Playable
<1>5. QED BY <1>2, <1>3, <1>4 DEF ChallengeSafe

LEMMA ChallengeStep ==
    ASSUME SocialOK, ask \in [Slots -> GoodAsk], DocsSafe, ChallengeSafe, NEW r \in Slots, SocialStep(r)
    PROVE  ChallengeSafe'
<1>0. nextDoc \in Nat /\ \A s \in Slots : ask[s].doc \in Nat
  BY DEF SocialOK, Ask
<1>1. CASE Aside(r)
  BY <1>1, AsideStep, ChallengesKept
<1>2. CASE Telling(r)
  <2>0. PICK w, d : w = ask[r].other /\ d = ask[r].doc
    OBVIOUS
  <2>1. /\ games' = games /\ \A s \in Slots \ {r} : ask'[s] = ask[s]
        /\ ask'[r].pc = "idle"
    BY <1>2, TellingStep
  <2>2. ASSUME NEW k, NEW u, Send(k, u, 0), k # "challenge" PROVE ChallengeSafe'
    <3>1. PICK m : inbox' = inbox \cup {m} /\ m.kind = k /\ nextDoc' = nextDoc + 1
      BY <2>2, SendAdds
    <3>2. QED BY <2>1, <2>2, <3>1, ChallengesKept
  <2>3. CASE Send("challenge", w, d) /\ ask[r].pc = "challenger"
    <3>1. PICK m : /\ inbox' = inbox \cup {m} /\ m.kind = "challenge" /\ m.user = w /\ m.game = d
                   /\ nextDoc' = nextDoc + 1
      BY <2>3, SendAdds
    <3>2. PICK g \in games : g.id = d /\ Playable(g) /\ g.joiner = w
      BY <2>0, <2>3 DEF ChallengeSafe, GamesReady, AskAt, Challenging
    <3>3. \A s \in Slots : Challenging(s)' => Challenging(s) /\ ask'[s] = ask[s] /\ s # r
      BY <2>1 DEF Challenging
    <3>4. \A s \in Slots \ {r} : Challenging(s) => ask[s].doc # d
      BY <2>0, <2>3 DEF ChallengeSafe, GamesApart, Challenging
    <3>5. GamesApart'
      <4>1. ASSUME NEW s \in Slots, Challenging(s)'
            PROVE  /\ ask'[s].doc < nextDoc'
                   /\ \A t \in Slots \ {s} : Challenging(t)' => ask'[t].doc # ask'[s].doc
                   /\ \A n \in inbox' : n.kind = "challenge" => n.game # ask'[s].doc
        <5>1. /\ ask[s].doc < nextDoc
              /\ \A t \in Slots \ {s} : Challenging(t) => ask[t].doc # ask[s].doc
              /\ \A n \in inbox : n.kind = "challenge" => n.game # ask[s].doc
              /\ ask'[s] = ask[s] /\ ask[s].doc # d
          BY <3>3, <3>4, <4>1 DEF ChallengeSafe, GamesApart
        <5>2. ask'[s].doc < nextDoc'
          BY <1>0, <3>1, <5>1
        <5>3. QED BY <3>1, <3>3, <5>1, <5>2
      <4>2. QED BY <4>1 DEF GamesApart, Challenging
    <3>6. GamesReady'
      BY <2>1, <3>3 DEF ChallengeSafe, GamesReady, AskAt, Challenging, Playable
    <3>7. ChallengesTrue'
      BY <2>1, <3>1, <3>2 DEF ChallengeSafe, ChallengesTrue, Playable
    <3>8. QED BY <3>5, <3>6, <3>7 DEF ChallengeSafe
  <2>4. CASE UNCHANGED <<inbox, nextDoc>>
    BY <2>1, <2>4, ChallengesKept
  <2>5. QED BY <1>2, <2>0, <2>2, <2>3, <2>4, TellingStep
<1>3. CASE Arranging(r)
  <2>1. /\ UNCHANGED inbox /\ \A s \in Slots \ {r} : ask'[s] = ask[s]
    BY <1>3, ArrangingStep
  <2>2. CASE ChallengeBegin(r)
    <3> DEFINE new == [id |-> nextDoc, creator |-> 0, joiner |-> 0, mode |-> "none", status |-> "live"]
    <3>1. games' = games \cup {new} /\ new.id = nextDoc
      BY <2>2 DEF ChallengeBegin
    <3> HIDE DEF new
    <3>2. ask[r].pc = "idle" /\ ask'[r].pc = "creator_seat" /\ ask'[r].doc = nextDoc /\ nextDoc' = nextDoc + 1
      BY <1>3, <2>2, ArrangingStep DEF ChallengeBegin, AskBegin, AskAt
    <3>3. \A n \in inbox : n.kind = "challenge" => n.game < nextDoc
      BY DEF ChallengeSafe, ChallengesTrue, DocsSafe, GameIds
    <3>4. \A n \in inbox : n.kind = "challenge" => n.game # nextDoc
      BY <1>0, <3>3 DEF SocialOK, Notification
    <3>5. GamesApart'
      <4>1. ASSUME NEW s \in Slots, Challenging(s)'
            PROVE  /\ ask'[s].doc < nextDoc'
                   /\ \A t \in Slots \ {s} : Challenging(t)' => ask'[t].doc # ask'[s].doc
                   /\ \A n \in inbox' : n.kind = "challenge" => n.game # ask'[s].doc
        <5>1. \A t \in Slots \ {r} : Challenging(t)' => Challenging(t) /\ ask'[t] = ask[t]
          BY <2>1 DEF Challenging
        <5>2. \A t \in Slots \ {r} : Challenging(t) => ask[t].doc < nextDoc /\ ask[t].doc # nextDoc
          BY <1>0 DEF ChallengeSafe, GamesApart
        <5>3. CASE s = r
          BY <1>0, <2>1, <3>2, <3>4, <5>1, <5>2, <5>3
        <5>4. CASE s # r
          <6>1. /\ ask[s].doc < nextDoc
                /\ \A t \in Slots \ {s} : Challenging(t) => ask[t].doc # ask[s].doc
                /\ \A n \in inbox : n.kind = "challenge" => n.game # ask[s].doc
                /\ ask'[s] = ask[s]
            BY <4>1, <5>1, <5>4 DEF ChallengeSafe, GamesApart
          <6>2. ask'[s].doc < nextDoc'
            BY <1>0, <3>2, <6>1
          <6>3. ask'[r].doc # ask'[s].doc
            BY <3>2, <4>1, <5>1, <5>2, <5>4, <6>1
          <6>4. \A t \in Slots \ {r, s} : Challenging(t)' => ask'[t].doc # ask'[s].doc
            BY <5>1, <6>1
          <6>5. QED BY <2>1, <6>1, <6>2, <6>3, <6>4
        <5>5. QED BY <5>3, <5>4
      <4>2. QED BY <4>1 DEF GamesApart, Challenging
    <3>6. GamesReady'
      <4>1. ASSUME NEW s \in Slots, Challenging(s)'
            PROVE  \E g \in games' :
                     /\ g.id = ask'[s].doc
                     /\ ask'[s].pc \in {"game_mode", "challenger"} => g.joiner = ask'[s].other
                     /\ ask'[s].pc = "challenger" => Playable(g)
        <5>1. CASE s = r
          BY <3>1, <3>2, <5>1
        <5>2. CASE s # r
          BY <2>1, <3>1, <4>1, <5>2 DEF ChallengeSafe, GamesReady, AskAt, Challenging
        <5>3. QED BY <5>1, <5>2
      <4>2. QED BY <4>1 DEF GamesReady, AskAt, Challenging, Playable
    <3>7. ChallengesTrue'
      BY <2>1, <3>1 DEF ChallengeSafe, ChallengesTrue, Playable
    <3>8. QED BY <3>5, <3>6, <3>7 DEF ChallengeSafe
  <2>3. CASE SeatCreator(r) \/ SeatJoiner(r) \/ SetMode(r)
    <3>0. PICK d, w : d = ask[r].doc /\ w = ask[r].other
      OBVIOUS
    <3>1. /\ Challenging(r) /\ ask'[r].doc = d /\ ask'[r].other = w /\ nextDoc' = nextDoc
          /\ \/ ask[r].pc = "creator_seat" /\ ask'[r].pc = "joiner_seat"
             \/ ask[r].pc = "joiner_seat" /\ ask'[r].pc = "game_mode"
             \/ ask[r].pc = "game_mode" /\ ask'[r].pc = "challenger"
      BY <2>3, <3>0, AskWent DEF SeatCreator, SeatJoiner, SetMode, Challenging, AskAt
    <3>2. PICK o \in games : o.id = d /\ (ask[r].pc = "game_mode" => o.joiner = w)
      BY <3>0, <3>1 DEF ChallengeSafe, GamesReady, AskAt
    <3>3. /\ \A h \in games : h.id # d => h \in games'
          /\ \E g \in games' : /\ g.id = d
                               /\ ask'[r].pc \in {"game_mode", "challenger"} => g.joiner = w
                               /\ ask'[r].pc = "challenger" => Playable(g)
      BY <2>3, <3>0, <3>1, <3>2, SeatsWrite DEF Playable
    <3>4. \A s \in Slots : Challenging(s)' => Challenging(s) /\ ask'[s].doc = ask[s].doc
      BY <2>1, <3>0, <3>1 DEF Challenging
    <3>5. GamesApart'
      BY <2>1, <3>1, <3>4 DEF ChallengeSafe, GamesApart, Challenging
    <3>6. GamesReady'
      <4>1. ASSUME NEW s \in Slots, Challenging(s)'
            PROVE  \E h \in games' :
                     /\ h.id = ask'[s].doc
                     /\ ask'[s].pc \in {"game_mode", "challenger"} => h.joiner = ask'[s].other
                     /\ ask'[s].pc = "challenger" => Playable(h)
        <5>1. CASE s = r
          BY <3>1, <3>3, <5>1
        <5>2. CASE s # r
          <6>1. ask'[s] = ask[s] /\ Challenging(s) /\ ask[s].doc # d
            BY <2>1, <3>0, <3>1, <3>4, <4>1, <5>2 DEF ChallengeSafe, GamesApart
          <6>2. QED BY <3>3, <6>1 DEF ChallengeSafe, GamesReady, AskAt
        <5>3. QED BY <5>1, <5>2
      <4>2. QED BY <4>1 DEF GamesReady, AskAt, Challenging, Playable
    <3>7. ChallengesTrue'
      <4>1. \A n \in inbox : n.kind = "challenge" => n.game # d
        BY <3>0, <3>1 DEF ChallengeSafe, GamesApart
      <4>2. QED BY <2>1, <3>3, <4>1 DEF ChallengeSafe, ChallengesTrue, Playable
    <3>8. QED BY <3>5, <3>6, <3>7 DEF ChallengeSafe
  <2>4. QED BY <1>3, <2>2, <2>3 DEF Arranging
<1>4. CASE InsertRequest(r) \/ AnswerRequest(r) \/ Befriend(r)
  <2>1. /\ games' = games /\ inbox' = inbox
        /\ nextDoc' = nextDoc \/ nextDoc' = nextDoc + 1
        /\ \A s \in Slots \ {r} : ask'[s] = ask[s]
        /\ ask'[r].pc \in {"ask_notice", "idle", "befriend", "accept_notice"}
    BY <1>4, AskGone, AskWent DEF InsertRequest, AnswerRequest, Befriend
  <2>2. QED BY <2>1, ChallengesKept
<1>5. CASE RespondBegin(r)
  <2>1. PICK q \in requests, accept \in BOOLEAN :
          AskBegin(r, [NoAsk EXCEPT !.pc = "answer", !.by = q.to, !.other = q.from,
                                    !.doc = q.id, !.accept = accept])
    BY <1>5 DEF RespondBegin
  <2>2. [NoAsk EXCEPT !.pc = "answer", !.by = q.to, !.other = q.from,
                      !.doc = q.id, !.accept = accept].pc = "answer"
    BY DEF NoAsk
  <2>3. /\ \A s \in Slots \ {r} : ask'[s] = ask[s]
        /\ ask'[r].pc = "answer"
    BY <2>1, <2>2, AskBegun
  <2>4. UNCHANGED <<games, inbox, nextDoc>>
    BY <1>5 DEF RespondBegin
  <2>5. QED BY <2>3, <2>4, ChallengesKept
<1>6. QED BY <1>1, <1>2, <1>3, <1>4, <1>5, StepKinds

LEMMA ToldFinite ==
    ASSUME DocsSafe
    PROVE  \A u : /\ IsFiniteSet(Messages("friend_request", u)) /\ IsFiniteSet(Announcing(u))
                  /\ IsFiniteSet(AskedOf(u))
<1>1. \A u : Messages("friend_request", u) \subseteq inbox /\ Announcing(u) \subseteq Slots
             /\ AskedOf(u) \subseteq requests
  BY DEF Messages, Announcing, AskedOf
<1>2. QED BY <1>1, FS_Subset, RequestsAssumption DEF DocsSafe, Finite

\* The numbers of a user whom nothing concerns.
LEMMA ToldFewer ==
    ASSUME DocsSafe, RequestsTold, NEW u \in Users,
           Messages("friend_request", u)' \subseteq Messages("friend_request", u),
           Announcing(u)' \subseteq Announcing(u), AskedOf(u)' = AskedOf(u)
    PROVE  Cardinality(Messages("friend_request", u)') + Cardinality(Announcing(u)') <= Cardinality(AskedOf(u)')
<1>1. /\ Cardinality(Messages("friend_request", u)') <= Cardinality(Messages("friend_request", u))
      /\ Cardinality(Announcing(u)') <= Cardinality(Announcing(u))
      /\ Cardinality(Messages("friend_request", u)') \in Nat /\ Cardinality(Messages("friend_request", u)) \in Nat
      /\ Cardinality(Announcing(u)') \in Nat /\ Cardinality(Announcing(u)) \in Nat
      /\ Cardinality(AskedOf(u)) \in Nat
  BY ToldFinite, CountSame
<1>2. Cardinality(Messages("friend_request", u)) + Cardinality(Announcing(u)) <= Cardinality(AskedOf(u))
  BY DEF RequestsTold
<1>3. QED BY <1>1, <1>2

LEMMA RequestsToldStep ==
    ASSUME SocialOK, ask \in [Slots -> GoodAsk], DocsSafe, RequestsTold, NEW r \in Slots, SocialStep(r)
    PROVE  RequestsTold'
<1>a. ASSUME \A s \in Slots \ {r} : ask'[s] = ask[s], ask'[r].pc # "ask_notice"
      PROVE  \A u : Announcing(u)' = Announcing(u) \ {r}
  BY <1>a DEF Announcing, AskAt
<1>b. ASSUME \A s \in Slots \ {r} : ask'[s] = ask[s], ask'[r].pc # "ask_notice", requests' = requests,
             \A u : Messages("friend_request", u)' = Messages("friend_request", u)
      PROVE  RequestsTold'
  <2>1. \A u : Announcing(u)' \subseteq Announcing(u) /\ AskedOf(u)' = AskedOf(u)
    BY <1>a, <1>b DEF AskedOf
  <2>2. QED BY <1>b, <2>1, ToldFewer DEF RequestsTold
<1>1. CASE Aside(r) \/ Arranging(r)
  <2>1. /\ \A s \in Slots \ {r} : ask'[s] = ask[s]
        /\ ask'[r].pc # "ask_notice" /\ UNCHANGED <<requests, inbox>>
    BY <1>1, AsideStep, ArrangingStep
  <2>2. QED BY <1>b, <2>1 DEF Messages
<1>2. CASE Telling(r)
  <2>0. PICK w : w = ask[r].other
    OBVIOUS
  <2>1. /\ \A s \in Slots \ {r} : ask'[s] = ask[s]
        /\ ask'[r].pc = "idle" /\ requests' = requests
    BY <1>2, TellingStep
  <2>2. ASSUME NEW k, k # "friend_request", NEW u, NEW g, Send(k, u, g) PROVE RequestsTold'
    BY <1>b, <2>1, <2>2, SendElsewhere
  <2>3. CASE UNCHANGED inbox
    BY <1>b, <2>1, <2>3 DEF Messages
  <2>4. CASE Send("friend_request", w, 0) /\ ask[r].pc = "ask_notice"
    <3>1. PICK m : inbox' = inbox \cup {m} /\ m.user = w
      BY <2>4, SendAdds
    <3>2. ASSUME NEW u \in Users
          PROVE  Cardinality(Messages("friend_request", u)') + Cardinality(Announcing(u)')
                    <= Cardinality(AskedOf(u)')
      <4>1. AskedOf(u)' = AskedOf(u) /\ Announcing(u)' = Announcing(u) \ {r}
        BY <1>a, <2>1 DEF AskedOf
      <4>2. CASE u # w
        <5>1. Messages("friend_request", u)' \subseteq Messages("friend_request", u)
          BY <3>1, <4>2 DEF Messages
        <5>2. QED BY <4>1, <5>1, ToldFewer
      <4>3. CASE u = w
        <5>1. r \in Announcing(u) /\ Announcing(u)' \subseteq Announcing(u) \ {r}
          BY <2>0, <2>4, <4>1, <4>3 DEF Announcing, AskAt
        <5>2. Messages("friend_request", u)' \subseteq Messages("friend_request", u) \cup {m}
          BY <3>1 DEF Messages
        <5>3. /\ Cardinality(Announcing(u)') + 1 <= Cardinality(Announcing(u))
              /\ Cardinality(Announcing(u)') \in Nat /\ Cardinality(Announcing(u)) \in Nat
          BY <5>1, ToldFinite, CountLess
        <5>4. /\ Cardinality(Messages("friend_request", u)') <= Cardinality(Messages("friend_request", u)) + 1
              /\ Cardinality(Messages("friend_request", u)') \in Nat
              /\ Cardinality(Messages("friend_request", u)) \in Nat
          BY <5>2, ToldFinite, CountMore
        <5>5. /\ Cardinality(Messages("friend_request", u)) + Cardinality(Announcing(u))
                    <= Cardinality(AskedOf(u))
              /\ Cardinality(AskedOf(u)) \in Nat
          BY ToldFinite, FS_CardinalityType DEF RequestsTold
        <5>6. QED BY <4>1, <5>3, <5>4, <5>5
      <4>4. QED BY <4>2, <4>3
    <3>3. QED BY <3>2 DEF RequestsTold
  <2>5. QED BY <1>2, <2>0, <2>2, <2>3, <2>4, TellingStep
<1>3. CASE InsertRequest(r)
  <2>0. PICK v, w : v = ask[r].by /\ w = ask[r].other
    OBVIOUS
  <2> DEFINE new == [id |-> nextDoc, from |-> v, to |-> w, status |-> "pending"]
  <2>1. requests' = requests \cup {new} /\ new.to = w /\ new.id = nextDoc
    BY <1>3, <2>0 DEF InsertRequest
  <2> HIDE DEF new
  <2>2. /\ inbox' = inbox /\ \A s \in Slots \ {r} : ask'[s] = ask[s]
        /\ ask'[r].pc = "ask_notice" /\ ask'[r].other = w
    BY <1>3, <2>0, AskWent DEF InsertRequest
  <2>3. new \notin requests
    BY <2>1 DEF SocialOK, FriendRequest, DocsSafe, RequestIds
  <2>4. ASSUME NEW u \in Users
        PROVE  Cardinality(Messages("friend_request", u)') + Cardinality(Announcing(u)')
                  <= Cardinality(AskedOf(u)')
    <3>1. Messages("friend_request", u)' = Messages("friend_request", u)
      BY <2>2 DEF Messages
    <3>2. CASE u # w
      <4>1. AskedOf(u)' = AskedOf(u)
        BY <2>1, <3>2 DEF AskedOf
      <4>2. Announcing(u)' \subseteq Announcing(u)
        BY <2>2, <3>2 DEF Announcing, AskAt
      <4>3. QED BY <3>1, <4>1, <4>2, ToldFewer
    <3>3. CASE u = w
      <4>1. AskedOf(u)' = AskedOf(u) \cup {new} /\ new \notin AskedOf(u)
        BY <2>1, <2>3, <3>3 DEF AskedOf
      <4>2. Announcing(u)' \subseteq Announcing(u) \cup {r}
        BY <2>2 DEF Announcing, AskAt
      <4>3. Cardinality(AskedOf(u)') = Cardinality(AskedOf(u)) + 1 /\ Cardinality(AskedOf(u)) \in Nat
        BY <4>1, ToldFinite, FS_AddElement, FS_CardinalityType
      <4>4. /\ Cardinality(Announcing(u)') <= Cardinality(Announcing(u)) + 1
            /\ Cardinality(Announcing(u)') \in Nat /\ Cardinality(Announcing(u)) \in Nat
        BY <4>2, ToldFinite, CountMore
      <4>5. /\ Cardinality(Messages("friend_request", u)) + Cardinality(Announcing(u))
                  <= Cardinality(AskedOf(u))
            /\ Cardinality(Messages("friend_request", u)) \in Nat
        BY ToldFinite, FS_CardinalityType DEF RequestsTold
      <4>6. QED BY <3>1, <4>3, <4>4, <4>5
    <3>4. QED BY <3>2, <3>3
  <2>5. QED BY <2>4 DEF RequestsTold
<1>4. CASE RespondBegin(r)
  <2>1. PICK q \in requests, accept \in BOOLEAN :
          AskBegin(r, [NoAsk EXCEPT !.pc = "answer", !.by = q.to, !.other = q.from,
                                    !.doc = q.id, !.accept = accept])
    BY <1>4 DEF RespondBegin
  <2>2. [NoAsk EXCEPT !.pc = "answer", !.by = q.to, !.other = q.from,
                      !.doc = q.id, !.accept = accept].pc = "answer"
    BY DEF NoAsk
  <2>3. /\ \A s \in Slots \ {r} : ask'[s] = ask[s]
        /\ ask'[r].pc = "answer"
    BY <2>1, <2>2, AskBegun
  <2>4. QED BY <1>4, <1>b, <2>3 DEF RespondBegin, Messages
<1>5. CASE AnswerRequest(r)
  <2>1. PICK q \in requests : q.id = ask[r].doc
    BY <1>5 DEF AnswerRequest, DocsSafe, AnswersFound
  <2>2. PICK p : /\ requests' = (requests \ {q}) \cup {p}
                 /\ p.id = q.id /\ p.from = q.from /\ p.to = q.to
    BY <1>5, <2>1, AnswerRewrites DEF DocsSafe, RequestIds
  <2>3. /\ inbox' = inbox /\ \A s \in Slots \ {r} : ask'[s] = ask[s]
        /\ ask'[r].pc # "ask_notice"
    BY <1>5, AskGone, AskWent DEF AnswerRequest
  <2>4. ASSUME NEW u \in Users
        PROVE  Cardinality(Messages("friend_request", u)') + Cardinality(Announcing(u)')
                  <= Cardinality(AskedOf(u)')
    <3>1. Messages("friend_request", u)' = Messages("friend_request", u)
      BY <2>3 DEF Messages
    <3>2. Announcing(u)' \subseteq Announcing(u)
      BY <1>a, <2>3
    <3>3. CASE q.to # u
      <4>1. AskedOf(u)' = AskedOf(u)
        BY <2>2, <3>3 DEF AskedOf
      <4>2. QED BY <3>1, <3>2, <4>1, ToldFewer
    <3>4. CASE q.to = u
      <4>1. AskedOf(u)' = (AskedOf(u) \ {q}) \cup {p} /\ q \in AskedOf(u)
        BY <2>2, <3>4 DEF AskedOf
      <4>2. p \notin AskedOf(u) \ {q}
        BY <2>2 DEF AskedOf, DocsSafe, RequestIds
      <4>3. /\ IsFiniteSet(AskedOf(u) \ {q}) /\ Cardinality(AskedOf(u)) \in Nat
            /\ Cardinality(AskedOf(u) \ {q}) = Cardinality(AskedOf(u)) - 1
        BY <4>1, ToldFinite, FS_RemoveElement, FS_CardinalityType
      <4>4. Cardinality(AskedOf(u)') = Cardinality(AskedOf(u) \ {q}) + 1
        BY <4>1, <4>2, <4>3, FS_AddElement
      <4>5. /\ Cardinality(Announcing(u)') <= Cardinality(Announcing(u))
            /\ Cardinality(Announcing(u)') \in Nat /\ Cardinality(Announcing(u)) \in Nat
        BY <3>2, ToldFinite, CountSame
      <4>6. /\ Cardinality(Messages("friend_request", u)) + Cardinality(Announcing(u))
                  <= Cardinality(AskedOf(u))
            /\ Cardinality(Messages("friend_request", u)) \in Nat
        BY ToldFinite, FS_CardinalityType DEF RequestsTold
      <4>7. Cardinality(AskedOf(u)') = Cardinality(AskedOf(u))
        BY <4>3, <4>4
      <4>8. Cardinality(Messages("friend_request", u)') = Cardinality(Messages("friend_request", u))
        BY <3>1
      <4>9. QED BY <4>3, <4>5, <4>6, <4>7, <4>8
    <3>5. QED BY <3>3, <3>4
  <2>5. QED BY <2>4 DEF RequestsTold
<1>6. CASE Befriend(r)
  BY <1>6, <1>b, AskWent DEF Befriend, Messages
<1>7. QED BY <1>1, <1>2, <1>3, <1>4, <1>5, <1>6, StepKinds

LEMMA YesToldStep ==
    ASSUME SocialOK, ask \in [Slots -> GoodAsk], ConsentSafe, YesTold, NEW r \in Slots, SocialStep(r)
    PROVE  YesTold'
<1>b. ASSUME \A s \in Slots \ {r} : ask'[s] = ask[s], ask'[r].pc # "accept_notice", agreed \subseteq agreed',
             \A n \in inbox' : n \in inbox \/ n.kind # "friend_accept"
      PROVE  YesTold'
  BY <1>b DEF YesTold, AskAt
<1>1. CASE Aside(r) \/ Arranging(r)
  BY <1>1, <1>b, AsideStep, ArrangingStep
<1>2. CASE Telling(r)
  <2>0. PICK w, v : w = ask[r].other /\ v = ask[r].by
    OBVIOUS
  <2>1. /\ \A s \in Slots \ {r} : ask'[s] = ask[s]
        /\ ask'[r].pc = "idle" /\ agreed' = agreed
    BY <1>2, TellingStep
  <2>2. ASSUME NEW k, k # "friend_accept", NEW u, NEW g, Send(k, u, g) PROVE YesTold'
    <3>1. PICK m : inbox' = inbox \cup {m} /\ m.kind = k
      BY <2>2, SendAdds
    <3>2. QED BY <1>b, <2>1, <2>2, <3>1
  <2>3. CASE UNCHANGED inbox
    BY <1>b, <2>1, <2>3
  <2>4. CASE Send("friend_accept", w, 0) /\ ask[r].pc = "accept_notice"
    <3>1. PICK m : inbox' = inbox \cup {m} /\ m.user = w
      BY <2>4, SendAdds
    <3>2. <<w, v>> \in agreed
      BY <2>0, <2>4 DEF YesTold, AskAt
    <3>3. v \in Users
      BY <2>0, <2>4 DEF GoodAsk
    <3>4. QED BY <2>1, <3>1, <3>2, <3>3 DEF YesTold, AskAt
  <2>5. QED BY <1>2, <2>0, <2>2, <2>3, <2>4, TellingStep
<1>3. CASE InsertRequest(r) \/ AnswerRequest(r)
  BY <1>3, <1>b, AskGone, AskWent DEF InsertRequest, AnswerRequest
<1>4. CASE RespondBegin(r)
  <2>1. PICK q \in requests, accept \in BOOLEAN :
          /\ AskBegin(r, [NoAsk EXCEPT !.pc = "answer", !.by = q.to, !.other = q.from,
                                       !.doc = q.id, !.accept = accept])
          /\ agreed' = IF accept THEN agreed \cup {<<q.from, q.to>>} ELSE agreed
    BY <1>4 DEF RespondBegin
  <2>2. [NoAsk EXCEPT !.pc = "answer", !.by = q.to, !.other = q.from,
                      !.doc = q.id, !.accept = accept].pc = "answer"
    BY DEF NoAsk
  <2>3. /\ \A s \in Slots \ {r} : ask'[s] = ask[s]
        /\ ask'[r].pc = "answer" /\ agreed \subseteq agreed'
    BY <2>1, <2>2, AskBegun
  <2>4. QED BY <1>4, <1>b, <2>3 DEF RespondBegin
<1>5. CASE Befriend(r)
  <2>1. <<ask[r].other, ask[r].by>> \in agreed
    BY <1>5 DEF Befriend, ConsentSafe, YesIsOnRecord
  <2>2. /\ \A s \in Slots \ {r} : ask'[s] = ask[s]
        /\ ask'[r].other = ask[r].other /\ ask'[r].by = ask[r].by
        /\ UNCHANGED <<inbox, agreed>>
    BY <1>5, AskWent DEF Befriend
  <2>3. QED BY <2>1, <2>2 DEF YesTold, AskAt
<1>6. QED BY <1>1, <1>2, <1>3, <1>4, <1>5, StepKinds

LEMMA NewsNext == Typed /\ ConsentSafe /\ DocsSafe /\ NewsSafe /\ [Next]_vars => NewsSafe'
<1> SUFFICES ASSUME Typed, ConsentSafe, DocsSafe, NewsSafe, [Next]_vars PROVE NewsSafe'
  OBVIOUS
<1>1. CASE UNCHANGED <<requests, games, inbox, nextDoc, ask, agreed>>
  <2>1. ChallengeSafe'
    BY <1>1 DEF NewsSafe, ChallengeSafe, GamesApart, GamesReady, ChallengesTrue, Challenging, Playable, AskAt
  <2>2. \A u : /\ Messages("friend_request", u)' = Messages("friend_request", u)
               /\ Announcing(u)' = Announcing(u) /\ AskedOf(u)' = AskedOf(u)
    BY <1>1 DEF Messages, Announcing, AskedOf, AskAt
  <2>3. RequestsTold' /\ YesTold'
    BY <1>1, <2>2 DEF NewsSafe, RequestsTold, YesTold, AskAt
  <2>4. QED BY <2>1, <2>3 DEF NewsSafe
<1>2. CASE SocialTurn
  <2>1. CASE RemoveFriend
    BY <1>1, <2>1 DEF RemoveFriend
  <2>2. CASE MarkRead
    <3>1. PICK m \in inbox : \E n :
              /\ inbox' = (inbox \ {m}) \cup {n}
              /\ n.user = m.user /\ n.kind = m.kind /\ n.game = m.game
              /\ UNCHANGED <<requests, games, nextDoc, ask, agreed>>
      BY <2>2, ReadInPlace DEF Typed, TypeOK
    <3>2. PICK n : /\ inbox' = (inbox \ {m}) \cup {n}
                   /\ n.user = m.user /\ n.kind = m.kind /\ n.game = m.game
                   /\ UNCHANGED <<requests, games, nextDoc, ask, agreed>>
      BY <3>1
    <3>3. ChallengeSafe'
      BY <3>2 DEF NewsSafe, ChallengeSafe, GamesApart, GamesReady, ChallengesTrue, Challenging, Playable, AskAt
    <3>4. YesTold'
      BY <3>2 DEF NewsSafe, YesTold, AskAt
    <3>5. ASSUME NEW u \in Users
          PROVE  Cardinality(Messages("friend_request", u)') + Cardinality(Announcing(u)')
                    <= Cardinality(AskedOf(u)')
      <4>0. Announcing(u)' = Announcing(u) /\ AskedOf(u)' = AskedOf(u)
        BY <3>2 DEF Announcing, AskedOf, AskAt
      <4>1. CASE m \notin Messages("friend_request", u)
        <5>1. Messages("friend_request", u)' \subseteq Messages("friend_request", u)
          BY <3>2, <4>1 DEF Messages
        <5>2. QED BY <4>0, <5>1, ToldFewer DEF NewsSafe
      <4>2. CASE m \in Messages("friend_request", u)
        <5>1. Messages("friend_request", u)' \subseteq (Messages("friend_request", u) \ {m}) \cup {n}
          BY <3>2 DEF Messages
        <5>2. /\ IsFiniteSet(Messages("friend_request", u) \ {m})
              /\ Cardinality(Messages("friend_request", u) \ {m}) + 1 <= Cardinality(Messages("friend_request", u))
              /\ Cardinality(Messages("friend_request", u)) \in Nat
          BY <4>2, ToldFinite, CountLess
        <5>3. /\ Cardinality(Messages("friend_request", u)')
                    <= Cardinality(Messages("friend_request", u) \ {m}) + 1
              /\ Cardinality(Messages("friend_request", u)') \in Nat
              /\ Cardinality(Messages("friend_request", u) \ {m}) \in Nat
          BY <5>1, <5>2, CountMore
        <5>4. /\ Cardinality(Messages("friend_request", u)) + Cardinality(Announcing(u))
                    <= Cardinality(AskedOf(u))
              /\ Cardinality(Announcing(u)) \in Nat /\ Cardinality(AskedOf(u)) \in Nat
          BY ToldFinite, FS_CardinalityType DEF NewsSafe, RequestsTold
        <5>5. QED BY <4>0, <5>2, <5>3, <5>4
      <4>3. QED BY <4>1, <4>2
    <3>6. QED BY <3>3, <3>4, <3>5 DEF NewsSafe, RequestsTold
  <2>3. ASSUME NEW r \in Slots, SocialStep(r) PROVE NewsSafe'
    BY <2>3, ChallengeStep, RequestsToldStep, YesToldStep DEF NewsSafe, Typed, TypeOK, InFlight
  <2>4. CASE PlayPrivateGame
    <3>1. /\ UNCHANGED <<requests, inbox, nextDoc, ask, agreed>>
          /\ \A g \in games : \E h \in games' : h.id = g.id /\ h.joiner = g.joiner /\ h.mode = g.mode
      BY <2>4, PlayWrites DEF Typed, TypeOK
    <3>2. GamesApart'
      BY <3>1 DEF NewsSafe, ChallengeSafe, GamesApart, Challenging
    <3>3. GamesReady'
      <4>1. ASSUME NEW s \in Slots, Challenging(s)
            PROVE  \E h \in games' :
                     /\ h.id = ask[s].doc
                     /\ ask[s].pc \in {"game_mode", "challenger"} => h.joiner = ask[s].other
                     /\ ask[s].pc = "challenger" => Playable(h)
        BY <3>1, <4>1 DEF NewsSafe, ChallengeSafe, GamesReady, Playable, AskAt
      <4>2. QED BY <3>1, <4>1 DEF GamesReady, Challenging, AskAt, Playable
    <3>4. ChallengesTrue'
      <4>1. ASSUME NEW n \in inbox, n.kind = "challenge"
            PROVE  \E h \in games' : h.id = n.game /\ Playable(h) /\ h.joiner = n.user
        BY <3>1, <4>1 DEF NewsSafe, ChallengeSafe, ChallengesTrue, Playable
      <4>2. QED BY <3>1, <4>1 DEF ChallengesTrue, Playable
    <3>5. \A u : /\ Messages("friend_request", u)' = Messages("friend_request", u)
                 /\ Announcing(u)' = Announcing(u) /\ AskedOf(u)' = AskedOf(u)
      BY <3>1 DEF Messages, Announcing, AskedOf, AskAt
    <3>6. RequestsTold' /\ YesTold'
      BY <3>1, <3>5 DEF NewsSafe, RequestsTold, YesTold, AskAt
    <3>7. QED BY <3>2, <3>3, <3>4, <3>6 DEF NewsSafe, ChallengeSafe
  <2>5. QED BY <1>2, <2>1, <2>2, <2>3, <2>4 DEF SocialTurn, SocialNext
<1>3. ASSUME NEW w, Greet(w) PROVE NewsSafe'
  <2>1. PICK m : inbox' = inbox \cup {m} /\ m.kind = "system" /\ nextDoc' = nextDoc + 1
    BY <1>3, SendAdds DEF Greet
  <2>2. UNCHANGED <<requests, games, ask, agreed>>
    BY <1>3 DEF Greet
  <2>3. nextDoc \in Nat /\ \A s \in Slots : ask[s].doc \in Nat
    BY DEF Typed, TypeOK, SocialOK, Ask
  <2>4. ChallengeSafe'
    BY <2>1, <2>2, <2>3
    DEF NewsSafe, ChallengeSafe, GamesApart, GamesReady, ChallengesTrue, Challenging, Playable, AskAt
  <2>5. \A u : /\ Messages("friend_request", u)' = Messages("friend_request", u)
               /\ Announcing(u)' = Announcing(u) /\ AskedOf(u)' = AskedOf(u)
    BY <2>1, <2>2 DEF Messages, Announcing, AskedOf, AskAt
  <2>6. RequestsTold' /\ YesTold'
    BY <2>1, <2>2, <2>5 DEF NewsSafe, RequestsTold, YesTold, AskAt
  <2>7. QED BY <2>4, <2>6 DEF NewsSafe
<1>4. QED
  BY <1>1, <1>2, <1>3, SocialTurns DEF Typed, TypeOK

\* Who is told of a challenge is the joiner of a private game, which can be
\* opened until it is over, who is told of a request has one, and who is told of a yes was given one, however requests
\* overlap and die (create_friend_challenge, send_friend_request,
\* respond_to_friend_request).
THEOREM NewsHolds == Spec => []NewsIsTrue
<1>1. Init => Typed /\ ConsentSafe /\ DocsSafe /\ NewsSafe
  BY TypedInit, ConsentInit, DocsInit, NewsInit
<1>2. Typed /\ ConsentSafe /\ DocsSafe /\ NewsSafe /\ [Next]_vars
        => (Typed /\ ConsentSafe /\ DocsSafe /\ NewsSafe)'
  BY TypedStep, ConsentNext, DocsNext, NewsNext
<1>3. DocsSafe /\ NewsSafe => NewsIsTrue
  <2> SUFFICES ASSUME DocsSafe, NewsSafe PROVE NewsIsTrue
    OBVIOUS
  <2>1. \A u \in Users : \A n \in Messages("challenge", u) :
          \E g \in games : /\ g.id = n.game /\ g.joiner = u
                           /\ g.status = "live" => g \in ActiveFriendGames(u)
    BY DEF NewsSafe, ChallengeSafe, ChallengesTrue, Messages, ActiveFriendGames, Playable
  <2>2. ASSUME NEW u \in Users
        PROVE  Cardinality(Messages("friend_request", u)) <= Cardinality({q \in requests : q.to = u})
    <3>1. /\ Cardinality(Messages("friend_request", u)) + Cardinality(Announcing(u))
                <= Cardinality(AskedOf(u))
          /\ Cardinality(Messages("friend_request", u)) \in Nat /\ Cardinality(Announcing(u)) \in Nat
          /\ Cardinality(AskedOf(u)) \in Nat
      BY ToldFinite, FS_CardinalityType DEF NewsSafe, RequestsTold
    <3>2. Cardinality(Messages("friend_request", u)) <= Cardinality(AskedOf(u))
      BY <3>1
    <3>3. QED BY <3>2 DEF AskedOf
  <2>3. \A u \in Users : Messages("friend_accept", u) # {} => \E v \in Users : <<u, v>> \in agreed
    BY DEF NewsSafe, YesTold, Messages
  <2>4. QED BY <2>1, <2>2, <2>3 DEF NewsIsTrue
<1>4. QED BY <1>1, <1>2, <1>3, PTL DEF Spec

-------------------------------------------------------------------------------
(***************************************************************************)
(* Pictures: overlapping, failing and killed uploads.                      *)
(***************************************************************************)

(***************************************************************************)
(* The inductive invariant: whose the keys are.  A key in use belongs to   *)
(* one user; the key of an upload that has not pointed the profile at it   *)
(* is in nobody's profile and is nobody's previous key; and an upload that *)
(* is about to delete is the only one that still knows what it deletes.    *)
(***************************************************************************)
Carrying(r) == upload[r].pc \in {"put", "point"}

KeysMade ==
    /\ \A u \in Users : media[u] < nextKey
    /\ \A r \in Slots : upload[r].key < nextKey /\ upload[r].old < nextKey
    /\ nextKey > 0

NewKeyIsFree ==
    \A r \in Slots : Carrying(r) =>
        /\ upload[r].key # 0
        /\ \A u \in Users : media[u] # upload[r].key
        /\ \A s \in Slots : upload[s].old # upload[r].key
        /\ \A s \in Slots \ {r} : Carrying(s) => upload[s].key # upload[r].key

OneProfileEach ==
    \A u, v \in Users : media[u] # 0 /\ media[u] = media[v] => u = v

OldIsOwn ==
    \A r \in Slots, v \in Users : upload[r].old # 0 /\ media[v] = upload[r].old =>
        v = upload[r].by /\ ~UploadAt(r, "delete")

Stored ==
    \A r \in Slots : UploadAt(r, "point") => [key |-> upload[r].key, user |-> upload[r].by] \in bucket

MediaSafe == KeysMade /\ NewKeyIsFree /\ OneProfileEach /\ OldIsOwn /\ Stored /\ NeverDangling

LEMMA MediaSafeInit == Init => MediaSafe
BY DEF Init, MediaInit, MediaSafe, KeysMade, NewKeyIsFree, OneProfileEach, OldIsOwn, Stored,
       NeverDangling, NoUpload, Carrying, UploadAt

\* A slot of which only the label changes, to one that carries no new key.
LEMMA MediaEnds ==
    ASSUME MediaOK, upload \in [Slots -> GoodUpload], MediaSafe, NEW r \in Slots, UploadEnd(r),
           media' = media, nextKey' = nextKey, bucket \subseteq bucket'
    PROVE  MediaSafe'
<1>1. upload' = [upload EXCEPT ![r] = NoUpload]
  BY DEF UploadEnd, UploadStep
<1>2. /\ \A s \in Slots \ {r} : upload'[s] = upload[s]
      /\ upload'[r].pc = "idle" /\ upload'[r].key = 0 /\ upload'[r].old = 0
  BY <1>1 DEF NoUpload
<1>3. KeysMade'
  BY <1>2 DEF MediaSafe, KeysMade
<1>4. NewKeyIsFree'
  BY <1>2 DEF MediaSafe, NewKeyIsFree, Carrying, KeysMade
<1>5. OneProfileEach'
  BY DEF MediaSafe, OneProfileEach
<1>6. OldIsOwn'
  BY <1>2 DEF MediaSafe, OldIsOwn, UploadAt
<1>7. Stored' /\ NeverDangling'
  BY <1>2 DEF MediaSafe, Stored, NeverDangling, UploadAt
<1>8. QED BY <1>3, <1>4, <1>5, <1>6, <1>7 DEF MediaSafe

LEMMA MediaSafeStep ==
    ASSUME MediaOK, upload \in [Slots -> GoodUpload], MediaSafe, NEW r \in Slots, MediaStep(r),
           alive \subseteq Users
    PROVE  MediaSafe'
<1> USE DEF MediaOK
<1>0. upload[r] \in GoodUpload /\ upload[r] \in Upload
  BY DEF GoodUpload
<1>1. CASE UploadBegin(r)
  <2>1. PICK u \in Users :
          upload' = [upload EXCEPT ![r] = [pc |-> "put", by |-> u, key |-> nextKey, old |-> media[u]]]
    BY <1>1 DEF UploadBegin, UploadStep
  <2>2. UploadAt(r, "idle") /\ nextKey' = nextKey + 1 /\ UNCHANGED <<bucket, media>>
    BY <1>1 DEF UploadBegin
  <2>3. /\ \A s \in Slots \ {r} : upload'[s] = upload[s]
        /\ upload'[r].pc = "put" /\ upload'[r].by = u /\ upload'[r].key = nextKey /\ upload'[r].old = media[u]
    BY <2>1
  <2>4. KeysMade'
    <3>1. \A s \in Slots : upload[s].key \in Nat /\ upload[s].old \in Nat
      BY DEF Upload
    <3>2. QED BY <2>2, <2>3, <3>1 DEF MediaSafe, KeysMade
  <2>5. NewKeyIsFree'
    <3>1. \A s \in Slots \ {r} : upload[s].key # nextKey /\ upload[s].old # nextKey
      BY DEF MediaSafe, KeysMade, Upload
    <3>2. \A v \in Users : media[v] # nextKey
      BY DEF MediaSafe, KeysMade
    <3>3. nextKey # 0
      BY DEF MediaSafe, KeysMade
    <3>4. QED BY <2>2, <2>3, <3>1, <3>2, <3>3 DEF MediaSafe, NewKeyIsFree, Carrying
  <2>6. OneProfileEach' /\ NeverDangling'
    BY <2>2 DEF MediaSafe, OneProfileEach, NeverDangling
  <2>7. OldIsOwn'
    BY <2>2, <2>3 DEF MediaSafe, OldIsOwn, OneProfileEach, UploadAt
  <2>8. Stored'
    BY <2>2, <2>3 DEF MediaSafe, Stored, UploadAt
  <2>9. QED BY <2>4, <2>5, <2>6, <2>7, <2>8 DEF MediaSafe
<1>2. CASE PutObject(r)
  <2>1. bucket \subseteq bucket' /\ UNCHANGED <<media, nextKey>>
    BY <1>2 DEF PutObject, Store
  <2>2. CASE UploadEnd(r)
    BY <2>1, <2>2, MediaEnds
  <2>3. CASE Store(r) /\ UploadGoto(r, "point")
    <3>1. /\ \A s \in Slots \ {r} : upload'[s] = upload[s]
          /\ upload'[r].pc = "point" /\ upload'[r].by = upload[r].by
          /\ upload'[r].key = upload[r].key /\ upload'[r].old = upload[r].old
      BY <1>0, <2>3 DEF UploadGoto, UploadStep, Upload
    <3>2. upload[r].pc = "put"
      BY <1>2 DEF PutObject, UploadAt
    <3>3. [key |-> upload[r].key, user |-> upload[r].by] \in bucket'
      BY <2>3 DEF Store
    <3>4. KeysMade' /\ OneProfileEach' /\ NeverDangling'
      BY <2>1, <3>1 DEF MediaSafe, KeysMade, OneProfileEach, NeverDangling
    <3>5. NewKeyIsFree'
      BY <2>1, <3>1, <3>2 DEF MediaSafe, NewKeyIsFree, Carrying
    <3>6. OldIsOwn' /\ Stored'
      BY <2>1, <3>1, <3>3 DEF MediaSafe, OldIsOwn, Stored, UploadAt
    <3>7. QED BY <3>4, <3>5, <3>6 DEF MediaSafe
  <2>4. QED BY <1>2, <2>2, <2>3 DEF PutObject
<1>3. CASE PointProfile(r)
  <2> DEFINE q == upload[r]
  <2>1. q.pc = "point" /\ q.by \in Users /\ UNCHANGED <<bucket, nextKey>>
    BY <1>0, <1>3 DEF PointProfile, UploadAt, GoodUpload
  <2>2. CASE UploadEnd(r) /\ UNCHANGED media
    BY <2>1, <2>2, MediaEnds
  <2>3. CASE media' = [media EXCEPT ![q.by] = q.key] /\ (q.old # 0 => UploadGoto(r, "delete"))
                                                    /\ (q.old = 0 => UploadEnd(r))
    <3>1. /\ \A s \in Slots \ {r} : upload'[s] = upload[s]
          /\ upload'[r].pc \in {"idle", "delete"} /\ upload'[r].key < nextKey
          /\ upload'[r].old = q.old /\ (q.old # 0 => upload'[r].by = q.by)
      BY <1>0, <2>3 DEF UploadGoto, UploadEnd, UploadStep, Upload, NoUpload, MediaSafe, KeysMade
    <3>2. media'[q.by] = q.key /\ \A v \in Users \ {q.by} : media'[v] = media[v]
      BY <2>1, <2>3
    <3>3. /\ \A v \in Users : media[v] # q.key
          /\ \A s \in Slots : upload[s].old # q.key
          /\ \A s \in Slots \ {r} : Carrying(s) => upload[s].key # q.key
      BY <2>1 DEF MediaSafe, NewKeyIsFree, Carrying
    <3>4. KeysMade'
      BY <2>1, <3>1, <3>2 DEF MediaSafe, KeysMade
    <3>5. NewKeyIsFree'
      BY <3>1, <3>2, <3>3 DEF MediaSafe, NewKeyIsFree, Carrying
    <3>6. OneProfileEach'
      BY <2>1, <3>2, <3>3 DEF MediaSafe, OneProfileEach
    <3>7. OldIsOwn'
      BY <2>1, <3>1, <3>2, <3>3 DEF MediaSafe, OldIsOwn, UploadAt
    <3>8. Stored'
      BY <2>1, <3>1 DEF MediaSafe, Stored, UploadAt
    <3>9. NeverDangling'
      BY <2>1, <3>2 DEF MediaSafe, Stored, NeverDangling, UploadAt
    <3>10. QED BY <3>4, <3>5, <3>6, <3>7, <3>8, <3>9 DEF MediaSafe
  <2>4. QED BY <1>3, <2>2, <2>3 DEF PointProfile
<1>4. CASE DeleteOld(r)
  <2>1. UploadAt(r, "delete") /\ UploadEnd(r) /\ UNCHANGED <<media, nextKey>>
    BY <1>4 DEF DeleteOld
  <2>2. CASE bucket' = bucket
    BY <2>1, <2>2, MediaEnds
  <2>3. CASE bucket' = {o \in bucket : o.key # upload[r].old}
    <3>1. /\ \A s \in Slots \ {r} : upload'[s] = upload[s]
          /\ upload'[r].pc = "idle" /\ upload'[r].key = 0 /\ upload'[r].old = 0
      BY <2>1 DEF UploadEnd, UploadStep, NoUpload
    <3>2. KeysMade' /\ OneProfileEach'
      BY <2>1, <3>1 DEF MediaSafe, KeysMade, OneProfileEach
    <3>3. NewKeyIsFree'
      BY <2>1, <3>1 DEF MediaSafe, NewKeyIsFree, Carrying, KeysMade
    <3>4. OldIsOwn'
      BY <2>1, <3>1 DEF MediaSafe, OldIsOwn, UploadAt
    <3>5. Stored'
      BY <2>3, <3>1 DEF MediaSafe, Stored, NewKeyIsFree, Carrying, UploadAt
    <3>6. \A v \in Users : media[v] # 0 => media[v] # upload[r].old
      BY <2>1 DEF MediaSafe, OldIsOwn
    <3>7. NeverDangling'
      BY <2>1, <2>3, <3>6 DEF MediaSafe, NeverDangling
    <3>8. QED BY <3>2, <3>3, <3>4, <3>5, <3>7 DEF MediaSafe
  <2>4. QED BY <1>4, <2>2, <2>3 DEF DeleteOld
<1>5. CASE KillUpload(r)
  BY <1>5, MediaEnds DEF KillUpload, Store
<1>6. QED BY <1>1, <1>2, <1>3, <1>4, <1>5 DEF MediaStep

LEMMA MediaSafeNext == Typed /\ MediaSafe /\ [Next]_vars => MediaSafe'
<1> SUFFICES ASSUME Typed, MediaSafe, [Next]_vars PROVE MediaSafe'
  OBVIOUS
<1>1. CASE MediaTurn
  BY <1>1, MediaSafeStep DEF MediaTurn, MediaNext, Typed, TypeOK, InFlight, RequestsOK
<1>2. CASE UNCHANGED mediaVars
  BY <1>2 DEF MediaSafe, KeysMade, NewKeyIsFree, OneProfileEach, OldIsOwn, Stored, NeverDangling,
              Carrying, UploadAt
<1>3. QED
  BY <1>1, <1>2 DEF Next, RewardsTurn, RankingTurn, ProfileTurn, SocialTurn, LearnTurn, SignupTurn, RemoveTurn

\* A profile never names an object that is gone, however many uploads of
\* however many users overlap, fail or are killed (upload_profile_media).
THEOREM ProfilesResolve == Spec => []NeverDangling
<1>1. Init => Typed /\ MediaSafe
  BY TypedInit, MediaSafeInit
<1>2. Typed /\ MediaSafe /\ [Next]_vars => (Typed /\ MediaSafe)'
  BY TypedStep, MediaSafeNext
<1>3. MediaSafe => NeverDangling
  BY DEF MediaSafe
<1>4. QED BY <1>1, <1>2, <1>3, PTL DEF Spec

(***************************************************************************)
(* Nothing piles up.  Of an orderly user the bucket has what the profile   *)
(* names and what the only upload has stored or is about to delete.        *)
(***************************************************************************)
Orderly         == {u \in Users \ messy : u \in alive \/ u \notin Known}     \* or still to come
Explained(u, k) == \/ k = media[u]
                   \/ \E r \in UploadsOf(u) : \/ UploadAt(r, "point") /\ k = upload[r].key
                                              \/ UploadAt(r, "delete") /\ k = upload[r].old

KeysReal   == \A o \in bucket : o.key # 0
OneUpload  == \A u \in Orderly : \A r, s \in UploadsOf(u) : r = s
OldIsNamed == \A u \in Orderly : \A r \in UploadsOf(u) : ~UploadAt(r, "delete") => upload[r].old = media[u]
AllKnown   == \A o \in bucket : o.user \in Orderly => Explained(o.user, o.key)
Uploaders  == \A r \in Slots : ~UploadAt(r, "idle") => upload[r].by \in Known

MediaTidy == KeysReal /\ OneUpload /\ OldIsNamed /\ AllKnown /\ Uploaders

LEMMA MediaTidyInit == Init => MediaTidy
BY DEF Init, MediaInit, MediaTidy, KeysReal, OneUpload, OldIsNamed, AllKnown, Uploaders,
       UploadsOf, UploadAt, NoUpload

\* A step of an upload of w, in slot r.
LEMMA TidyFrame ==
    ASSUME MediaTidy, alive' = alive, signup' = signup, messy \subseteq messy',
           NEW r \in Slots, \A s \in Slots \ {r} : upload'[s] = upload[s],
           NEW w, upload[r].pc = "idle" \/ upload[r].by = w, upload'[r].pc = "idle" \/ (upload'[r].by = w /\ w \in Known),
           \A v \in Users \ {w} : media'[v] = media[v],
           \A o \in bucket' : o \in bucket \/ (o.user = w /\ o.key # 0),
           w \in Orderly' =>
              /\ UploadsOf(w) \subseteq {r}
              /\ upload'[r].pc \in {"idle", "delete"} \/ upload'[r].old = media'[w]
              /\ \A o \in bucket' : o.user = w =>
                    \/ o.key = media'[w]
                    \/ upload'[r].pc = "point" /\ o.key = upload'[r].key
                    \/ upload'[r].pc = "delete" /\ o.key = upload'[r].old
    PROVE  MediaTidy'
<1>0. Orderly' \subseteq Orderly /\ Orderly' \subseteq Users
  BY DEF Orderly, Known
<1>1. KeysReal'
  BY DEF MediaTidy, KeysReal
<1>2. \A v : v # w => UploadsOf(v)' = UploadsOf(v) /\ r \notin UploadsOf(v)
  BY DEF UploadsOf, UploadAt
<1>3. \A v : UploadsOf(v) \subseteq Slots
  BY DEF UploadsOf
<1>4. w \in Orderly' => UploadsOf(w)' \subseteq {r}
  BY DEF UploadsOf, UploadAt
<1>5. OneUpload'
  BY <1>0, <1>2, <1>4 DEF MediaTidy, OneUpload
<1>6. OldIsNamed'
  <2>1. ASSUME NEW u \in Orderly', NEW s \in UploadsOf(u)', upload'[s].pc # "delete"
        PROVE  upload'[s].old = media'[u]
    <3>1. CASE u = w
      BY <1>4, <2>1, <3>1 DEF UploadsOf, UploadAt
    <3>2. CASE u # w
      <4>1. s \in UploadsOf(u) /\ s \in Slots \ {r} /\ upload'[s] = upload[s]
        BY <1>2, <1>3, <2>1, <3>2
      <4>2. upload[s].old = media[u]
        BY <1>0, <2>1, <4>1 DEF MediaTidy, OldIsNamed, UploadAt
      <4>3. QED BY <1>0, <3>2, <4>1, <4>2
    <3>3. QED BY <3>1, <3>2
  <2>2. QED BY <2>1 DEF OldIsNamed, UploadAt
<1>7. AllKnown'
  <2>1. ASSUME NEW o \in bucket', o.user \in Orderly' PROVE Explained(o.user, o.key)'
    <3>1. CASE o.user = w
      <4>1. CASE upload'[r].pc \in {"point", "delete"}
        <5>1. r \in UploadsOf(w)'
          BY <4>1 DEF UploadsOf, UploadAt
        <5>2. QED BY <2>1, <3>1, <4>1, <5>1 DEF Explained, UploadAt
      <4>2. CASE upload'[r].pc \notin {"point", "delete"}
        BY <2>1, <3>1, <4>2 DEF Explained
      <4>3. QED BY <4>1, <4>2
    <3>2. CASE o.user # w
      <4>1. o \in bucket /\ o.user \in Orderly /\ o.user \in Users
        BY <1>0, <2>1, <3>2
      <4>2. Explained(o.user, o.key)
        BY <4>1 DEF MediaTidy, AllKnown
      <4>3. media'[o.user] = media[o.user]
        BY <3>2, <4>1
      <4>4. \A s \in UploadsOf(o.user) : s \in UploadsOf(o.user)' /\ upload'[s] = upload[s]
        BY <1>2, <1>3, <3>2
      <4>5. QED BY <4>2, <4>3, <4>4 DEF Explained, UploadAt
    <3>3. QED BY <3>1, <3>2
  <2>2. QED BY <2>1 DEF AllKnown
<1>8. Uploaders'
  BY DEF MediaTidy, Uploaders, UploadAt, Known
<1>9. QED BY <1>1, <1>5, <1>6, <1>7, <1>8 DEF MediaTidy

LEMMA MediaTidyStep ==
    ASSUME MediaOK, upload \in [Slots -> GoodUpload], MediaSafe, MediaTidy, NEW r \in Slots, MediaStep(r),
           RequestsOK, alive \subseteq Known, UNCHANGED accounts
    PROVE  MediaTidy'
<1> USE DEF MediaOK
<1> DEFINE w == upload[r].by
<1>0. /\ upload[r] \in Upload /\ alive \subseteq Users /\ Orderly \subseteq Users /\ Known' = Known
      /\ upload[r].pc # "idle" => w \in Known
  BY DEF GoodUpload, RequestsOK, Orderly, Known, MediaTidy, Uploaders, UploadAt
<1>1. CASE UploadBegin(r)
  <2>1. PICK u \in alive :
          /\ upload' = [upload EXCEPT ![r] = [pc |-> "put", by |-> u, key |-> nextKey, old |-> media[u]]]
          /\ messy' = IF UploadsOf(u) = {} THEN messy ELSE messy \cup {u}
    BY <1>1 DEF UploadBegin, UploadStep
  <2>2. upload[r].pc = "idle" /\ UNCHANGED <<bucket, media>>
    BY <1>1 DEF UploadBegin, UploadAt
  <2>3. /\ \A s \in Slots \ {r} : upload'[s] = upload[s]
        /\ upload'[r].pc = "put" /\ upload'[r].by = u /\ upload'[r].old = media[u]
    BY <2>1
  <2>4. u \in Orderly' => UploadsOf(u) = {} /\ u \in Orderly
    BY <1>0, <2>1 DEF Orderly
  <2>5. u \in Orderly' => \A o \in bucket : o.user = u => o.key = media[u]
    BY <2>4 DEF MediaTidy, AllKnown, Explained
  <2>6. messy \subseteq messy'
    BY <2>1
  <2>7. u \in Known /\ alive' = alive /\ signup' = signup
    OBVIOUS
  <2>8. QED BY <2>2, <2>3, <2>4, <2>5, <2>6, <2>7, TidyFrame DEF MediaTidy, KeysReal
<1>k. ASSUME UploadEnd(r), media' = media, upload[r].pc # "idle", messy' = messy \cup {w},
             \A o \in bucket' : o \in bucket \/ (o.user = w /\ o.key # 0)
      PROVE  MediaTidy'
  <2>1. /\ \A s \in Slots \ {r} : upload'[s] = upload[s]
        /\ upload'[r].pc = "idle"
    BY <1>k DEF UploadEnd, UploadStep, NoUpload
  <2>2. w \notin Orderly'
    BY <1>k DEF Orderly
  <2>3. QED BY <1>k, <2>1, <2>2, TidyFrame
<1>s. ASSUME Store(r), UploadAt(r, "put")
      PROVE  \A o \in bucket' : o \in bucket \/ (o = [key |-> upload[r].key, user |-> w] /\ o.user = w
                                                /\ o.key = upload[r].key /\ o.key # 0)
  <2>1. upload[r].key # 0
    BY <1>s DEF MediaSafe, NewKeyIsFree, Carrying, UploadAt
  <2>2. QED BY <1>s, <2>1 DEF Store
<1>m. ASSUME upload[r].pc # "idle", w \in Orderly
      PROVE  /\ UploadsOf(w) \subseteq {r}
             /\ upload[r].pc = "delete" \/ upload[r].old = media[w]
             /\ \A o \in bucket : o.user = w =>
                    \/ o.key = media[w]
                    \/ upload[r].pc = "point" /\ o.key = upload[r].key
                    \/ upload[r].pc = "delete" /\ o.key = upload[r].old
  <2>1. r \in UploadsOf(w)
    BY <1>m DEF UploadsOf, UploadAt
  <2>2. UploadsOf(w) \subseteq {r}
    BY <1>m, <2>1 DEF MediaTidy, OneUpload
  <2>3. QED BY <1>m, <2>1, <2>2 DEF MediaTidy, OldIsNamed, AllKnown, Explained, UploadAt
<1>2. CASE PutObject(r)
  <2>1. UploadAt(r, "put") /\ upload[r].pc = "put" /\ UNCHANGED media
    BY <1>2 DEF PutObject, UploadAt
  <2>2. CASE (Store(r) \/ UNCHANGED bucket) /\ UploadEnd(r) /\ messy' = messy \cup {w}
    BY <1>k, <1>s, <2>1, <2>2
  <2>3. CASE Store(r) /\ UploadGoto(r, "point") /\ UNCHANGED messy
    <3>1. /\ \A s \in Slots \ {r} : upload'[s] = upload[s]
          /\ upload'[r].pc = "point" /\ upload'[r].by = w
          /\ upload'[r].key = upload[r].key /\ upload'[r].old = upload[r].old
      BY <1>0, <2>3 DEF UploadGoto, UploadStep, Upload
    <3>2. Orderly' = Orderly /\ w \in Known
      BY <1>0, <2>1, <2>3 DEF Orderly
    <3>3. QED BY <1>m, <1>s, <2>1, <2>3, <3>1, <3>2, TidyFrame
  <2>4. QED BY <1>2, <2>2, <2>3 DEF PutObject
<1>3. CASE PointProfile(r)
  <2>1. /\ upload[r].pc = "point" /\ w \in Users /\ UNCHANGED <<bucket, messy>> /\ Orderly' = Orderly
        /\ w \in Known
    BY <1>0, <1>3 DEF PointProfile, UploadAt, GoodUpload, Orderly
  <2>2. CASE UploadEnd(r) /\ UNCHANGED media /\ w \notin alive
    <3>1. /\ \A s \in Slots \ {r} : upload'[s] = upload[s]
          /\ upload'[r].pc = "idle"
      BY <2>2 DEF UploadEnd, UploadStep, NoUpload
    <3>2. w \notin Orderly'
      BY <2>1, <2>2 DEF Orderly
    <3>3. QED BY <2>1, <2>2, <3>1, <3>2, TidyFrame
  <2>3. CASE media' = [media EXCEPT ![w] = upload[r].key]
             /\ IF upload[r].old # 0 THEN UploadGoto(r, "delete") ELSE UploadEnd(r)
    <3>1. media'[w] = upload[r].key /\ \A v \in Users \ {w} : media'[v] = media[v]
      BY <2>1, <2>3
    <3>2. CASE upload[r].old # 0
      <4>1. /\ \A s \in Slots \ {r} : upload'[s] = upload[s]
            /\ upload'[r].pc = "delete" /\ upload'[r].by = w /\ upload'[r].old = upload[r].old
        BY <1>0, <2>3, <3>2 DEF UploadGoto, UploadStep, Upload
      <4>2. QED BY <1>m, <2>1, <3>1, <4>1, TidyFrame DEF MediaTidy, KeysReal
    <3>3. CASE upload[r].old = 0
      <4>1. /\ \A s \in Slots \ {r} : upload'[s] = upload[s]
            /\ upload'[r].pc = "idle"
        BY <2>3, <3>3 DEF UploadEnd, UploadStep, NoUpload
      <4>2. w \in Orderly => \A o \in bucket : o.user = w => o.key = upload[r].key
        BY <1>m, <2>1, <3>3 DEF MediaTidy, KeysReal
      <4>3. QED BY <1>m, <2>1, <3>1, <4>1, <4>2, TidyFrame
    <3>4. QED BY <3>2, <3>3
  <2>4. QED BY <1>3, <2>2, <2>3 DEF PointProfile
<1>4. CASE DeleteOld(r)
  <2>1. upload[r].pc = "delete" /\ UploadEnd(r) /\ UNCHANGED media
    BY <1>4 DEF DeleteOld, UploadAt
  <2>2. CASE bucket' = bucket /\ messy' = messy \cup {w}
    BY <1>k, <2>1, <2>2
  <2>3. CASE bucket' = {o \in bucket : o.key # upload[r].old} /\ UNCHANGED messy
    <3>1. /\ \A s \in Slots \ {r} : upload'[s] = upload[s]
          /\ upload'[r].pc = "idle"
      BY <2>1 DEF UploadEnd, UploadStep, NoUpload
    <3>2. Orderly' = Orderly
      BY <1>0, <2>3 DEF Orderly
    <3>3. w \in Orderly => \A o \in bucket' : o.user = w => o.key = media[w]
      BY <1>m, <2>1, <2>3
    <3>4. \A o \in bucket' : o \in bucket
      BY <2>3
    <3>5. QED BY <1>m, <2>1, <2>3, <3>1, <3>2, <3>3, <3>4, TidyFrame
  <2>4. QED BY <1>4, <2>2, <2>3 DEF DeleteOld
<1>5. CASE KillUpload(r)
  <2>1. /\ upload[r].pc # "idle" /\ UploadEnd(r) /\ media' = media /\ messy' = messy \cup {w}
        /\ (UploadAt(r, "put") /\ Store(r)) \/ bucket' = bucket
    BY <1>5 DEF KillUpload, UploadAt
  <2>2. QED BY <1>k, <1>s, <2>1
<1>6. QED BY <1>1, <1>2, <1>3, <1>4, <1>5 DEF MediaStep

\* Who comes by sign-up was orderly before, having nothing yet.
LEMMA OrderlyStep ==
    ASSUME RequestsOK, [Next]_vars, messy' = messy
    PROVE  Orderly' \subseteq Orderly /\ Known \subseteq Known'
<1>1. CASE SignupTurn
  <2>1. PICK u \in Users :
          /\ \A v \in Users \ {u} : signup'[v] = signup[v]
          /\ \/ signup[u] = "none" /\ signup'[u] # "none" /\ alive' = alive \cup {u}
             \/ signup[u] # "none" /\ signup'[u] # "none" /\ alive' = alive
    BY <1>1, SignupStep
  <2>2. QED BY <2>1 DEF Orderly, Known
<1>2. CASE alive' \subseteq alive /\ signup' = signup
  BY <1>2 DEF Orderly, Known
<1>3. QED BY <1>1, <1>2, AccountsStep

LEMMA MediaTidyNext == Typed /\ MediaSafe /\ MediaTidy /\ [Next]_vars => MediaTidy'
<1> SUFFICES ASSUME Typed, MediaSafe, MediaTidy, [Next]_vars PROVE MediaTidy'
  OBVIOUS
<1>1. CASE MediaTurn
  BY <1>1, MediaTidyStep DEF MediaTurn, MediaNext, Typed, TypeOK, InFlight
<1>2. CASE UNCHANGED mediaVars
  <2>1. Orderly' \subseteq Orderly /\ Known \subseteq Known'
    BY <1>2, OrderlyStep DEF Typed, TypeOK
  <2>2. \A u : UploadsOf(u)' = UploadsOf(u)
    BY <1>2 DEF UploadsOf, UploadAt
  <2>3. KeysReal' /\ OneUpload' /\ OldIsNamed' /\ AllKnown'
    BY <1>2, <2>1, <2>2 DEF MediaTidy, KeysReal, OneUpload, OldIsNamed, AllKnown, Explained, UploadAt
  <2>4. Uploaders'
    BY <1>2, <2>1 DEF MediaTidy, Uploaders, UploadAt
  <2>5. QED BY <2>3, <2>4 DEF MediaTidy
<1>3. QED
  BY <1>1, <1>2 DEF Next, RewardsTurn, RankingTurn, ProfileTurn, SocialTurn, LearnTurn, SignupTurn, RemoveTurn

\* Objects pile up only through overlapping, failed or killed uploads and
\* removed accounts: everybody else has what the profile names and nothing
\* more (upload_profile_media).
THEOREM NothingPilesUp == Spec => []OneObject
<1>1. Init => Typed /\ MediaSafe /\ MediaTidy
  BY TypedInit, MediaSafeInit, MediaTidyInit
<1>2. Typed /\ MediaSafe /\ MediaTidy /\ [Next]_vars => (Typed /\ MediaSafe /\ MediaTidy)'
  BY TypedStep, MediaSafeNext, MediaTidyNext
<1>3. Typed /\ MediaTidy => OneObject
  <2> SUFFICES ASSUME Typed, MediaTidy, NEW u \in alive \ messy, UploadsOf(u) = {},
                      NEW o \in bucket, o.user = u
               PROVE  o.key = media[u]
    BY DEF OneObject
  <2>1. u \in Orderly
    BY DEF Orderly, Typed, TypeOK, RequestsOK
  <2>2. QED BY <2>1 DEF MediaTidy, AllKnown, Explained
<1>4. QED BY <1>1, <1>2, <1>3, PTL DEF Spec

-------------------------------------------------------------------------------
(***************************************************************************)
(* Practice sessions and the curriculum.                                   *)
(***************************************************************************)
USE DEF learningDocs, learningHistory

(***************************************************************************)
(* Practice: a guess in flight knows how many came before it, unless       *)
(* another one of the session is in flight too; an attempt on record is    *)
(* answered, about to be, or cut short.                                    *)
(***************************************************************************)
Tally(id) ==
    LET attempts == sessions[id].attempts IN
      /\ attempts <= posted[id]
      /\ id \notin doubled => answered[id] <= attempts
      /\ id \notin doubled \cup cut /\ (\A r \in Guessing(id) : StudyAt(r, "guess")) => attempts = answered[id]
      /\ \A r \in Guessing(id) :
            /\ id \notin doubled => Guessing(id) \subseteq {r}
            /\ StudyAt(r, "guess") => study[r].num < posted[id]
            /\ StudyAt(r, "guess") /\ id \notin doubled => study[r].num = attempts
            /\ StudyAt(r, "answer") /\ id \notin doubled => answered[id] < attempts
            /\ StudyAt(r, "answer") /\ id \notin doubled \cup cut => attempts = answered[id] + 1

CountsHold == \A id \in DOMAIN sessions : Tally(id)

(***************************************************************************)
(* The curriculum: what was shown as open follows from lessons on record.  *)
(***************************************************************************)
OpenedHolds == \A u \in Users : opened[u] \subseteq ShownOpen(progress[u])
PagesHold   ==
    \A r \in Slots :
        /\ study[r].pc \in {"seed", "progress"} => study[r].before \subseteq ShownOpen(progress[study[r].by])
        /\ StudyAt(r, "page") => /\ study[r].done \subseteq progress[study[r].by]
                                 /\ study[r].before \subseteq ShownOpen(study[r].done)

LearningSafe == CountsHold /\ OpenedHolds /\ PagesHold

\* More lessons never lock a chapter.
LEMMA OpenGrows ==
    ASSUME NEW d \in SUBSET Chapters, NEW e \in SUBSET Chapters, d \subseteq e
    PROVE  ShownOpen(d) \subseteq ShownOpen(e)
BY DEF ShownOpen, Status, Chapters

\* The first chapter that is not done is open.
LEMMA SomethingCurrent ==
    ASSUME NEW d \in SUBSET Chapters, d # Chapters
    PROVE  \E c \in Chapters : Status(c, d) = "current"
<1>1. CASE 1 \notin d
  BY <1>1 DEF Status, Chapters
<1>2. CASE 1 \in d /\ 2 \notin d
  BY <1>2 DEF Status, Chapters
<1>3. CASE 1 \in d /\ 2 \in d /\ 3 \notin d
  BY <1>3 DEF Status, Chapters
<1>4. CASE 1 \in d /\ 2 \in d /\ 3 \in d
  <2>1. Chapters = {1, 2, 3, 4}
    BY DEF Chapters
  <2>2. 4 \notin d
    BY <1>4, <2>1
  <2>3. Status(4, d) = "current"
    BY <1>4, <2>2 DEF Status
  <2>4. QED BY <2>1, <2>3
<1>5. QED BY <1>1, <1>2, <1>3, <1>4

LEMMA LearningSafeInit == Init => LearningSafe
BY DEF Init, LearningInit, NoStudy, LearningSafe, CountsHold, OpenedHolds, PagesHold, StudyAt

\* A session that a step leaves alone.
LEMMA TallyKept ==
    ASSUME NEW id, Tally(id), sessions'[id] = sessions[id], posted'[id] = posted[id],
           answered'[id] = answered[id], doubled \subseteq doubled', cut \subseteq cut',
           Guessing(id)' \subseteq Guessing(id),
           Guessing(id)' = Guessing(id) \/ id \in cut',
           \A r \in Guessing(id)' : study'[r] = study[r]
    PROVE  Tally(id)'
BY DEF Tally, StudyAt

LEMMA StudyMoves ==
    ASSUME study \in [Slots -> GoodStudy], NEW r \in Slots, NEW q, StudyStep(r, q)
    PROVE  study'[r] = q /\ \A s \in Slots \ {r} : study'[s] = study[s]
BY DEF StudyStep

LEMMA StudyGone ==
    ASSUME study \in [Slots -> GoodStudy], NEW r \in Slots, StudyEnd(r)
    PROVE  study'[r].pc = "idle" /\ \A s \in Slots \ {r} : study'[s] = study[s]
BY StudyMoves DEF StudyEnd, NoStudy

LEMMA LearningSafeStep ==
    ASSUME LearningOK, StudyOK, alive \subseteq Users, LearningSafe,
           (\E r \in Slots : LearningStep(r)) \/ OpenSession \/ CompleteLesson
    PROVE  LearningSafe'
<1>0. /\ sessions \in Seq(Session) /\ answered \in Seq(Nat) /\ DOMAIN answered = DOMAIN sessions
      /\ posted \in Seq(Nat) /\ DOMAIN posted = DOMAIN sessions
      /\ \A id \in DOMAIN sessions : sessions[id] \in Session /\ answered[id] \in Nat /\ posted[id] \in Nat
                                     /\ sessions[id].attempts \in Nat
      /\ progress \in [Users -> SUBSET Chapters] /\ opened \in [Users -> SUBSET Chapters]
      /\ study \in [Slots -> GoodStudy]
      /\ \A r \in Slots : study[r] \in Study /\ (study[r].pc # "idle" => study[r].by \in Users)
      /\ \A r \in Slots : study[r].pc \in {"guess", "answer"} => study[r].doc \in DOMAIN sessions
  <2>1. /\ sessions \in Seq(Session) /\ answered \in Seq(Nat) /\ DOMAIN answered = DOMAIN sessions
        /\ posted \in Seq(Nat) /\ DOMAIN posted = DOMAIN sessions
        /\ progress \in [Users -> SUBSET Chapters] /\ opened \in [Users -> SUBSET Chapters]
        /\ study \in [Slots -> GoodStudy]
        /\ \A r \in Slots : study[r].pc \in {"guess", "answer"} => study[r].doc \in DOMAIN sessions
    BY DEF LearningOK, StudyOK, StudyAt
  <2>2. \A id \in DOMAIN sessions : sessions[id] \in Session /\ answered[id] \in Nat /\ posted[id] \in Nat
    BY <2>1
  <2>3. \A id \in DOMAIN sessions : sessions[id].attempts \in Nat
    BY <2>2 DEF Session
  <2>4. \A r \in Slots : study[r] \in Study /\ (study[r].pc # "idle" => study[r].by \in Users)
    BY <2>1 DEF GoodStudy
  <2>5. QED BY <2>1, <2>2, <2>3, <2>4
<1>t. \A id \in DOMAIN sessions : Tally(id)
  BY DEF LearningSafe, CountsHold
<1>1. ASSUME NEW r \in Slots, PracticeBegin(r) PROVE LearningSafe'
  <2>1. PICK id \in DOMAIN sessions :
          /\ StudyBegin(r, [NoStudy EXCEPT !.pc = "guess", !.by = sessions[id].user, !.doc = id,
                                           !.num = sessions[id].attempts])
          /\ posted' = [posted EXCEPT ![id] = @ + 1]
          /\ doubled' = IF Guessing(id) = {} THEN doubled ELSE doubled \cup {id}
    BY <1>1 DEF PracticeBegin
  <2>2. LET q == [NoStudy EXCEPT !.pc = "guess", !.by = sessions[id].user, !.doc = id,
                                 !.num = sessions[id].attempts]
        IN  q.pc = "guess" /\ q.doc = id /\ q.num = sessions[id].attempts
    BY DEF NoStudy
  <2>3. /\ study'[r].pc = "guess" /\ study'[r].doc = id /\ study'[r].num = sessions[id].attempts
        /\ study[r].pc = "idle" /\ \A s \in Slots \ {r} : study'[s] = study[s]
    BY <1>0, <2>1, <2>2, StudyMoves DEF StudyBegin, StudyAt
  <2>4. UNCHANGED <<sessions, answered, cut, progress, opened>>
    BY <1>1 DEF PracticeBegin
  <2>5. /\ Guessing(id)' = Guessing(id) \cup {r} /\ r \notin Guessing(id)
        /\ \A d : d # id => Guessing(d)' = Guessing(d)
        /\ \A s \in Slots : study[s].pc # "idle" => study'[s] = study[s]
        /\ \A d : r \notin Guessing(d)
    BY <2>3 DEF Guessing
  <2>6. /\ doubled \subseteq doubled' /\ (id \notin doubled' => Guessing(id) = {} /\ doubled' = doubled)
        /\ posted'[id] = posted[id] + 1 /\ \A d \in DOMAIN sessions \ {id} : posted'[d] = posted[d]
        /\ posted[id] \in Nat /\ answered[id] \in Nat /\ sessions[id].attempts \in Nat
    BY <1>0, <2>1
  <2>7. Tally(id)'
    <3>1. /\ sessions[id].attempts <= posted[id]
          /\ id \notin doubled => answered[id] <= sessions[id].attempts
          /\ id \notin doubled \cup cut /\ Guessing(id) = {} => sessions[id].attempts = answered[id]
          /\ \A s \in Guessing(id) : StudyAt(s, "guess") => study[s].num < posted[id]
      BY <1>t DEF Tally
    <3>2. \A s \in Guessing(id) : s \in Slots /\ study'[s] = study[s] /\ study[s] \in Study
      BY <1>0, <2>5 DEF Guessing
    <3>3. \A s \in Guessing(id)' : StudyAt(s, "guess")' => study'[s].num < posted'[id]
      <4>1. ASSUME NEW s \in Guessing(id), study'[s].pc = "guess" PROVE study'[s].num < posted'[id]
        <5>1. study[s].num < posted[id] /\ study[s].num \in Nat
          BY <3>1, <3>2, <4>1 DEF StudyAt, Study
        <5>2. QED BY <2>6, <3>2, <5>1
      <4>2. study'[r].num < posted'[id]
        BY <2>3, <2>6, <3>1
      <4>3. QED BY <2>5, <4>1, <4>2 DEF StudyAt
    <3>4. CASE id \notin doubled'
      <4>1. Guessing(id)' = {r} /\ doubled' = doubled /\ Guessing(id) = {}
        BY <2>5, <2>6, <3>4
      <4>2. QED BY <2>3, <2>4, <2>6, <3>1, <3>3, <4>1 DEF Tally, StudyAt
    <3>5. CASE id \in doubled'
      <4>1. sessions'[id].attempts <= posted'[id]
        BY <2>4, <2>6, <3>1
      <4>2. QED BY <3>3, <3>5, <4>1 DEF Tally, StudyAt
    <3>6. QED BY <3>4, <3>5
  <2>8. ASSUME NEW d \in DOMAIN sessions \ {id} PROVE Tally(d)'
    <3>1. \A s \in Guessing(d)' : study'[s] = study[s]
      BY <2>3, <2>5 DEF Guessing
    <3>2. QED BY <1>t, <2>4, <2>5, <2>6, <3>1, TallyKept
  <2>9. CountsHold'
    BY <2>4, <2>7, <2>8 DEF CountsHold
  <2>10. OpenedHolds' /\ PagesHold'
    BY <2>3, <2>4 DEF LearningSafe, OpenedHolds, PagesHold, StudyAt
  <2>11. QED BY <2>9, <2>10 DEF LearningSafe
<1>2. ASSUME NEW r \in Slots, WriteAttempts(r) PROVE LearningSafe'
  <2>0. PICK i : i = study[r].doc
    OBVIOUS
  <2>1. study[r].pc = "guess" /\ i \in DOMAIN sessions /\ study[r].num \in Nat /\ r \in Guessing(i)
    BY <1>0, <1>2, <2>0 DEF WriteAttempts, Study, StudyAt, Guessing
  <2>2. /\ sessions' = [sessions EXCEPT ![i].attempts = study[r].num + 1]
        /\ StudyStep(r, [study[r] EXCEPT !.pc = "answer"])
        /\ UNCHANGED <<answered, posted, doubled, cut, progress, opened>>
    BY <1>2, <2>0 DEF WriteAttempts
  <2>3. study'[r].pc = "answer" /\ study'[r].doc = i /\ \A s \in Slots \ {r} : study'[s] = study[s]
    BY <1>0, <2>0, <2>2, StudyMoves DEF Study
  <2>4. \A d : Guessing(d)' = Guessing(d)
    BY <2>0, <2>1, <2>3 DEF Guessing
  <2>5. /\ DOMAIN sessions' = DOMAIN sessions /\ sessions'[i].attempts = study[r].num + 1
        /\ \A d \in DOMAIN sessions \ {i} : sessions'[d] = sessions[d]
        /\ answered[i] \in Nat /\ posted[i] \in Nat /\ sessions[i].attempts \in Nat
    BY <1>0, <2>1, <2>2 DEF Session
  <2>6. Tally(i)'
    <3>1. /\ study[r].num < posted[i]
          /\ i \notin doubled => /\ study[r].num = sessions[i].attempts /\ Guessing(i) \subseteq {r}
                                 /\ answered[i] <= sessions[i].attempts
          /\ i \notin doubled \cup cut => sessions[i].attempts = answered[i]
      BY <1>t, <2>1 DEF Tally, StudyAt
    <3>2. sessions'[i].attempts <= posted[i]
      BY <2>1, <2>5, <3>1
    <3>3. CASE i \notin doubled
      <4>1. /\ Guessing(i)' = {r} /\ answered[i] < sessions'[i].attempts
            /\ i \notin cut => sessions'[i].attempts = answered[i] + 1
        BY <2>1, <2>4, <2>5, <3>1, <3>3
      <4>2. answered[i] <= sessions'[i].attempts
        BY <2>1, <2>5, <4>1
      <4>3. QED BY <2>2, <2>3, <3>2, <4>1, <4>2 DEF Tally, StudyAt
    <3>4. CASE i \in doubled
      <4>1. \A s \in Guessing(i) : StudyAt(s, "guess")' => study'[s].num < posted[i]
        <5>1. \A s \in Guessing(i) : StudyAt(s, "guess") => study[s].num < posted[i]
          BY <1>t, <2>1 DEF Tally
        <5>2. QED BY <2>3, <5>1 DEF Guessing, StudyAt
      <4>2. QED BY <2>2, <2>4, <3>2, <3>4, <4>1 DEF Tally
    <3>5. QED BY <3>3, <3>4
  <2>7. ASSUME NEW d \in DOMAIN sessions \ {i} PROVE Tally(d)'
    <3>1. \A s \in Guessing(d)' : study'[s] = study[s]
      BY <2>3 DEF Guessing
    <3>2. QED BY <1>t, <2>2, <2>4, <2>5, <3>1, TallyKept
  <2>8. CountsHold'
    BY <2>5, <2>6, <2>7 DEF CountsHold
  <2>9. OpenedHolds' /\ PagesHold'
    BY <2>2, <2>3 DEF LearningSafe, OpenedHolds, PagesHold, StudyAt
  <2>10. QED BY <2>8, <2>9 DEF LearningSafe
<1>a. ASSUME NEW r \in Slots, AnswerGuess(r) PROVE LearningSafe'
  <2>0. PICK i : i = study[r].doc
    OBVIOUS
  <2>1. study[r].pc = "answer" /\ i \in DOMAIN sessions /\ r \in Guessing(i)
    BY <1>0, <1>a, <2>0 DEF AnswerGuess, StudyAt, Guessing
  <2>2. /\ answered' = [answered EXCEPT ![i] = @ + 1]
        /\ UNCHANGED <<sessions, posted, doubled, cut, progress, opened>>
    BY <1>a, <2>0 DEF AnswerGuess
  <2>3. study'[r].pc = "idle" /\ \A s \in Slots \ {r} : study'[s] = study[s]
    BY <1>0, <1>a, StudyGone DEF AnswerGuess
  <2>4. Guessing(i)' = Guessing(i) \ {r} /\ \A d : d # i => Guessing(d)' = Guessing(d)
    BY <2>0, <2>1, <2>3 DEF Guessing
  <2>5. /\ answered'[i] = answered[i] + 1
        /\ \A d \in DOMAIN sessions \ {i} : answered'[d] = answered[d]
        /\ answered[i] \in Nat /\ posted[i] \in Nat /\ sessions[i].attempts \in Nat
    BY <1>0, <2>1, <2>2
  <2>6. Tally(i)'
    <3>1. /\ sessions[i].attempts <= posted[i]
          /\ i \notin doubled => answered[i] < sessions[i].attempts /\ Guessing(i) \subseteq {r}
          /\ i \notin doubled \cup cut => sessions[i].attempts = answered[i] + 1
          /\ \A s \in Guessing(i) : StudyAt(s, "guess") => study[s].num < posted[i]
      BY <1>t, <2>1 DEF Tally, StudyAt
    <3>2. CASE i \notin doubled
      <4>1. Guessing(i)' = {} /\ answered'[i] <= sessions[i].attempts
        BY <2>4, <2>5, <3>1, <3>2
      <4>2. QED BY <2>2, <2>5, <3>1, <3>2, <4>1 DEF Tally
    <3>3. CASE i \in doubled
      <4>1. \A s \in Guessing(i)' : StudyAt(s, "guess")' => study'[s].num < posted[i]
        BY <2>3, <2>4, <3>1 DEF Guessing, StudyAt
      <4>2. QED BY <2>2, <3>1, <3>3, <4>1 DEF Tally
    <3>4. QED BY <3>2, <3>3
  <2>7. ASSUME NEW d \in DOMAIN sessions \ {i} PROVE Tally(d)'
    <3>1. \A s \in Guessing(d)' : study'[s] = study[s]
      BY <2>3 DEF Guessing
    <3>2. QED BY <1>t, <2>2, <2>4, <2>5, <3>1, TallyKept
  <2>8. CountsHold'
    BY <2>2, <2>6, <2>7 DEF CountsHold
  <2>9. OpenedHolds' /\ PagesHold'
    BY <2>2, <2>3 DEF LearningSafe, OpenedHolds, PagesHold, StudyAt
  <2>10. QED BY <2>8, <2>9 DEF LearningSafe
<1>3. ASSUME NEW r \in Slots, NEW q, UNCHANGED <<sessions, posted, answered, doubled, progress>>,
             cut \subseteq cut', study[r].pc \in {"guess", "answer"} => study[r].doc \in cut',
             q.pc \notin {"guess", "answer"}, StudyStep(r, q), OpenedHolds',
             q.pc \in {"seed", "progress"} => q.before \subseteq ShownOpen(progress[q.by]),
             q.pc = "page" => q.done \subseteq progress[q.by] /\ q.before \subseteq ShownOpen(q.done)
      PROVE  LearningSafe'
  <2>1. study'[r] = q /\ \A s \in Slots \ {r} : study'[s] = study[s]
    BY <1>0, <1>3, StudyMoves
  <2>2. CountsHold'
    <3>1. ASSUME NEW id \in DOMAIN sessions PROVE Tally(id)'
      <4>1. /\ Guessing(id)' = Guessing(id) \ {r} /\ \A s \in Guessing(id)' : study'[s] = study[s]
            /\ r \in Guessing(id) => id \in cut'
        BY <1>3, <2>1 DEF Guessing
      <4>2. QED BY <1>3, <1>t, <4>1, TallyKept
    <3>2. QED BY <1>3, <3>1 DEF CountsHold
  <2>3. PagesHold'
    BY <1>3, <2>1 DEF LearningSafe, PagesHold, StudyAt
  <2>4. QED BY <1>3, <2>2, <2>3 DEF LearningSafe
<1>4. ASSUME NEW r \in Slots, CurriculumBegin(r) PROVE LearningSafe'
  <2>1. PICK u \in alive : StudyBegin(r, [NoStudy EXCEPT !.pc = IF curricula = 0 THEN "seed" ELSE "progress",
                                                        !.by = u, !.before = opened[u]])
    BY <1>4 DEF CurriculumBegin
  <2> DEFINE q == [NoStudy EXCEPT !.pc = IF curricula = 0 THEN "seed" ELSE "progress",
                                  !.by = u, !.before = opened[u]]
  <2>2. q.pc \in {"seed", "progress"} /\ q.by = u /\ q.before = opened[u]
    BY DEF NoStudy
  <2>3. StudyAt(r, "idle") /\ StudyStep(r, q)
    BY <2>1 DEF StudyBegin
  <2> HIDE DEF q
  <2>4. OpenedHolds' /\ opened[u] \subseteq ShownOpen(progress[u])
    BY <1>4 DEF CurriculumBegin, LearningSafe, OpenedHolds
  <2>5. UNCHANGED <<sessions, posted, answered, doubled, cut, progress>>
    BY <1>4 DEF CurriculumBegin
  <2>6. QED BY <1>3, <2>2, <2>3, <2>4, <2>5 DEF StudyAt
<1>5. ASSUME NEW r \in Slots, SeedCurriculum(r) PROVE LearningSafe'
  <2> DEFINE q == [study[r] EXCEPT !.pc = "progress"]
  <2>1. q.pc = "progress" /\ q.by = study[r].by /\ q.before = study[r].before
    BY <1>0 DEF Study
  <2>2. /\ StudyAt(r, "seed") /\ StudyStep(r, q)
        /\ UNCHANGED <<sessions, posted, answered, doubled, cut, progress, opened>>
    BY <1>5 DEF SeedCurriculum
  <2> HIDE DEF q
  <2>3. OpenedHolds' /\ study[r].before \subseteq ShownOpen(progress[study[r].by])
    BY <2>2 DEF LearningSafe, OpenedHolds, PagesHold, StudyAt
  <2>4. QED BY <1>3, <2>1, <2>2, <2>3 DEF StudyAt
<1>6. ASSUME NEW r \in Slots, ReadProgress(r) PROVE LearningSafe'
  <2> DEFINE q == [study[r] EXCEPT !.pc = "page", !.done = progress[study[r].by]]
  <2>1. /\ q.pc = "page" /\ q.by = study[r].by /\ q.before = study[r].before
        /\ q.done = progress[study[r].by]
    BY <1>0 DEF Study
  <2>2. /\ StudyAt(r, "progress") /\ StudyStep(r, q)
        /\ UNCHANGED <<sessions, posted, answered, doubled, cut, progress, opened>>
    BY <1>6 DEF ReadProgress
  <2> HIDE DEF q
  <2>3. OpenedHolds' /\ study[r].before \subseteq ShownOpen(progress[study[r].by])
    BY <2>2 DEF LearningSafe, OpenedHolds, PagesHold, StudyAt
  <2>4. QED BY <1>3, <2>1, <2>2, <2>3 DEF StudyAt
<1>7. ASSUME NEW r \in Slots, ShowPage(r) PROVE LearningSafe'
  <2> DEFINE u == study[r].by
  <2>1. u \in Users /\ study[r].done \subseteq progress[u] /\ study[r].done \in SUBSET Chapters
    BY <1>0, <1>7 DEF ShowPage, StudyAt, LearningSafe, PagesHold, Study
  <2>2. opened' = [opened EXCEPT ![u] = @ \cup ShownOpen(study[r].done)]
    BY <1>7 DEF ShowPage
  <2>3. UNCHANGED <<sessions, posted, answered, doubled, cut, progress>> /\ StudyStep(r, NoStudy)
    BY <1>7 DEF ShowPage, StudyEnd
  <2> HIDE DEF u
  <2>4. ShownOpen(study[r].done) \subseteq ShownOpen(progress[u])
    BY <1>0, <2>1, OpenGrows
  <2>5. OpenedHolds'
    BY <1>0, <2>1, <2>2, <2>3, <2>4 DEF LearningSafe, OpenedHolds
  <2>6. study[r].pc = "page"
    BY <1>7 DEF ShowPage, StudyAt
  <2>7. QED BY <1>3, <2>3, <2>5, <2>6 DEF NoStudy
<1>8. ASSUME NEW r \in Slots, KillStudy(r) PROVE LearningSafe'
  <2>1. /\ OpenedHolds' /\ UNCHANGED <<sessions, posted, answered, doubled, progress>> /\ StudyStep(r, NoStudy)
        /\ cut \subseteq cut' /\ (study[r].pc \in {"guess", "answer"} => study[r].doc \in cut')
    BY <1>8 DEF KillStudy, StudyEnd, LearningSafe, OpenedHolds
  <2>2. QED BY <1>3, <2>1 DEF NoStudy
<1>9. CASE OpenSession
  <2>1. PICK u \in Users : sessions' = Append(sessions, [user |-> u, attempts |-> 0])
    BY <1>9 DEF OpenSession
  <2>2. /\ answered' = Append(answered, 0) /\ posted' = Append(posted, 0)
        /\ UNCHANGED <<study, doubled, cut, progress, opened>>
    BY <1>9 DEF OpenSession
  <2>3. Len(answered) = Len(sessions) /\ Len(posted) = Len(sessions)
    BY <1>0
  <2> PICK n : n = Len(sessions) + 1
    OBVIOUS
  <2>4. /\ DOMAIN sessions' = DOMAIN sessions \cup {n} /\ n \notin DOMAIN sessions
        /\ sessions'[n] = [user |-> u, attempts |-> 0]
        /\ answered'[n] = 0 /\ posted'[n] = 0
        /\ \A id \in DOMAIN sessions : /\ sessions'[id] = sessions[id] /\ answered'[id] = answered[id]
                                       /\ posted'[id] = posted[id]
    BY <1>0, <2>1, <2>2, <2>3
  <2>5. \A id : Guessing(id)' = Guessing(id)
    BY <2>2 DEF Guessing
  <2>6. Tally(n)'
    <3>1. Guessing(n)' = {}
      <4>1. \A r \in Slots : study[r].pc \in {"guess", "answer"} => study[r].doc # n
        BY <1>0, <2>4
      <4>2. Guessing(n) = {}
        BY <4>1 DEF Guessing
      <4>3. QED BY <2>5, <4>2
    <3>2. sessions'[n].attempts = 0
      BY <2>4
    <3>3. QED BY <2>4, <3>1, <3>2 DEF Tally
  <2>7. ASSUME NEW id \in DOMAIN sessions PROVE Tally(id)'
    BY <1>t, <2>2, <2>4, <2>5, TallyKept
  <2>8. CountsHold'
    BY <2>4, <2>6, <2>7 DEF CountsHold
  <2>9. OpenedHolds' /\ PagesHold'
    BY <2>2 DEF LearningSafe, OpenedHolds, PagesHold, StudyAt
  <2>10. QED BY <2>8, <2>9 DEF LearningSafe
<1>10. CASE CompleteLesson
  <2>1. /\ \A u \in Users : progress[u] \subseteq progress'[u]
        /\ progress' \in [Users -> SUBSET Chapters]
    BY <1>0, <1>10 DEF CompleteLesson
  <2>2. UNCHANGED <<sessions, posted, answered, doubled, cut, study, opened>>
    BY <1>10 DEF CompleteLesson
  <2>3. \A u \in Users : ShownOpen(progress[u]) \subseteq ShownOpen(progress'[u])
    BY <1>0, <2>1, OpenGrows
  <2>4. CountsHold'
    BY <2>2 DEF LearningSafe, CountsHold, Tally, Guessing, StudyAt
  <2>5. OpenedHolds'
    BY <2>2, <2>3 DEF LearningSafe, OpenedHolds
  <2>6. PagesHold'
    BY <1>0, <2>1, <2>2, <2>3 DEF LearningSafe, PagesHold, StudyAt
  <2>7. QED BY <2>4, <2>5, <2>6 DEF LearningSafe
<1>11. QED
  BY <1>1, <1>2, <1>a, <1>4, <1>5, <1>6, <1>7, <1>8, <1>9, <1>10 DEF LearningStep

LEMMA LearningSafeNext == Typed /\ LearningSafe /\ [Next]_vars => LearningSafe'
<1> SUFFICES ASSUME Typed, LearningSafe, [Next]_vars PROVE LearningSafe'
  OBVIOUS
<1>1. CASE LearnTurn
  BY <1>1, LearningSafeStep DEF LearnTurn, LearningNext, Typed, TypeOK, InFlight, RequestsOK
<1>2. CASE UNCHANGED learningVars
  BY <1>2 DEF LearningSafe, CountsHold, Tally, Guessing, OpenedHolds, PagesHold, StudyAt
<1>3. QED
  BY <1>1, <1>2 DEF Next, RewardsTurn, RankingTurn, ProfileTurn, SocialTurn, MediaTurn, SignupTurn, RemoveTurn

LEMMA AlwaysLearningSafe == Spec => [](Typed /\ LearningSafe)
<1>1. Init => Typed /\ LearningSafe
  BY TypedInit, LearningSafeInit
<1>2. Typed /\ LearningSafe /\ [Next]_vars => (Typed /\ LearningSafe)'
  BY TypedStep, LearningSafeNext
<1>3. QED BY <1>1, <1>2, PTL DEF Spec

\* A practice session never counts more guesses than were posted; unless two
\* overlapped it misses no answered one, and without a kill it counts exactly
\* those (guess_practice_session).
THEOREM SessionsCount == Spec => []AttemptsAreGuesses
<1>1. LearningSafe => AttemptsAreGuesses
  BY DEF LearningSafe, CountsHold, Tally, AttemptsAreGuesses
<1>2. QED BY <1>1, AlwaysLearningSafe, PTL

\* Every page of the curriculum has a chapter to go on with, and none that a
\* page has shown as open is ever shown as locked (build_curriculum_page,
\* complete_lesson).
THEOREM NoChapterCloses == Spec => []PathStaysOpen
<1>1. Typed /\ LearningSafe => PathStaysOpen
  <2> SUFFICES ASSUME Typed, LearningSafe, NEW r \in Slots, StudyAt(r, "page")
               PROVE  /\ study[r].done # Chapters => \E c \in Chapters : Status(c, study[r].done) = "current"
                      /\ study[r].before \subseteq ShownOpen(study[r].done)
    BY DEF PathStaysOpen
  <2>1. study[r].done \in SUBSET Chapters
    BY DEF Typed, TypeOK, LearningOK, Study
  <2>2. QED BY <2>1, SomethingCurrent DEF LearningSafe, PagesHold
<1>2. QED BY <1>1, AlwaysLearningSafe, PTL
===============================================================================
