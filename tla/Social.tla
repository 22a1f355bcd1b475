------------------------------- MODULE Social -------------------------------
(***************************************************************************)
(* Friends: requests, their answers, friendships, challenges to a private  *)
(* match, and the notifications of all that.  Friendships and requests are *)
(* documents of their own and know nothing of each other after the request *)
(* was accepted.  Rewards adds its own notifications to the same inbox.    *)
(***************************************************************************)
EXTENDS Rewards

VARIABLES
    requests,    \* db.friend_requests
    friendships, \* db.friendships
    games,       \* db.games and db.players of challenges
    inbox,       \* db.notifications, without those of Rewards
    nextDoc,     \* the next document id
    ask          \* the request in each slot

\* History of the behaviour; no action reads it.
VARIABLES
    asked,       \* <<u, v>>: u asked v to be friends
    agreed,      \* <<u, v>>: v answered yes to a request of u
    crossed,     \* <<u, v>>: two answers to one request of u to v overlapped
    hasty        \* users who opened the inbox twice at once, or while signing up

socialDocs    == <<requests, friendships, games, inbox, nextDoc>>
socialHistory == <<asked, agreed, crossed, hasty>>
socialVars    == <<socialDocs, ask, socialHistory>>

FriendRequest == [id : Nat, from : Users, to : Users, status : {"pending", "accepted", "rejected"}]
Friendship    == [id : Nat, from : Users, to : Users]     \* users: [from, to]
PrivateGame   == [id : Nat, creator : Users \cup {0}, joiner : Users \cup {0}, mode : {"none", "friend"},
                  status : {"live", "over"}]              \* waiting or started; completed or expired
Kind          == {"system", "friend_request", "friend_accept", "challenge"}
Notification  == [id : Nat, user : Users, kind : Kind, game : Nat, unread : BOOLEAN]

Ask == [pc : {"idle", "pending", "insert", "ask_notice", "answer", "befriend", "accept_notice",
              "creator_seat", "joiner_seat", "game_mode", "challenger", "welcome", "friends"},
        by : Users \cup {0}, other : Users \cup {0}, doc : Nat, accept : BOOLEAN,
        todo : SUBSET Users, shown : SUBSET Users]     \* friends of the social page
NoAsk == [pc |-> "idle", by |-> 0, other |-> 0, doc |-> 0, accept |-> FALSE, todo |-> {}, shown |-> {}]

AskAt(r, label)   == ask[r].pc = label
AskStep(r, q)     == ask' = [ask EXCEPT ![r] = q]
AskGoto(r, label) == AskStep(r, [ask[r] EXCEPT !.pc = label])
AskEnd(r)         == AskStep(r, NoAsk)
AskBegin(r, q)    == AskAt(r, "idle") /\ AskStep(r, q)

Pending(u, v) == {q \in requests : q.from = u /\ q.to = v /\ q.status = "pending"}
Between(u, v) == {f \in friendships : {u, v} \subseteq {f.from, f.to}}     \* $all: [u, v]

\* The sign-up's own welcome is in the inbox, unless the sign-up was cut short.
SocialInit ==
    /\ requests = {} /\ friendships = {} /\ games = {}
    /\ \E welcomed \in SUBSET alive :
          /\ welcomed = alive \/ "inbox" \in DOMAIN menu
          /\ inbox = {[id |-> u, user |-> u, kind |-> "system", game |-> 0, unread |-> TRUE] : u \in welcomed}
    /\ nextDoc = Veterans + 1
    /\ ask = [r \in Slots |-> NoAsk]
    /\ asked = {} /\ agreed = {} /\ crossed = {} /\ hasty = {}

(***************************************************************************)
(* send_friend_request.                                                    *)
(***************************************************************************)
\* The target is found by name and is somebody else.
AskFriendBegin(r) ==
    /\ Serve("friend_request")
    /\ \E u, v \in alive :
          /\ u # v
          /\ AskBegin(r, [NoAsk EXCEPT !.pc = "pending", !.by = u, !.other = v])
    /\ UNCHANGED <<socialDocs, socialHistory>>

\* 409 when the same request is pending; one in the other direction is not looked for.
CheckPending(r) ==
    /\ AskAt(r, "pending")
    /\ IF Pending(ask[r].by, ask[r].other) # {} THEN AskEnd(r) ELSE AskGoto(r, "insert")
    /\ UNCHANGED <<socialDocs, socialHistory, calls>>

InsertRequest(r) ==
    /\ AskAt(r, "insert")
    /\ LET q == ask[r] IN
          /\ requests' = requests \cup {[id |-> nextDoc, from |-> q.by, to |-> q.other, status |-> "pending"]}
          /\ asked' = asked \cup {<<q.by, q.other>>}
    /\ nextDoc' = nextDoc + 1
    /\ AskGoto(r, "ask_notice")
    /\ UNCHANGED <<friendships, games, inbox, agreed, crossed, hasty, calls>>

\* _create_notification; the text of a friend request names its receiver.
Send(kind, u, g) ==
    /\ inbox' = inbox \cup {[id |-> nextDoc, user |-> u, kind |-> kind, game |-> g, unread |-> TRUE]}
    /\ nextDoc' = nextDoc + 1

\* The other user of the request, or of the answer, is told.
TellFriend(r) ==
    /\ \/ AskAt(r, "ask_notice") /\ Send("friend_request", ask[r].other, 0)
       \/ AskAt(r, "accept_notice") /\ Send("friend_accept", ask[r].other, 0)
    /\ AskEnd(r)
    /\ UNCHANGED <<requests, friendships, games, socialHistory, calls>>

(***************************************************************************)
(* respond_to_friend_request.                                              *)
(***************************************************************************)
Answering(d) == {r \in Slots : ask[r].pc = "answer" /\ ask[r].doc = d}
CrossedBy(q) == IF Answering(q.id) = {} THEN crossed ELSE crossed \cup {<<q.from, q.to>>}

\* Fault: the lookup does not ask who the request is addressed to.
RespondAnyone(r) ==
    /\ Serve("respond")
    /\ \E q \in requests, accept \in BOOLEAN : \E u \in alive \cap {q.from, q.to} :
          /\ q.status = "pending"
          /\ AskBegin(r, [NoAsk EXCEPT !.pc = "answer", !.by = u, !.other = q.from,
                                      !.doc = q.id, !.accept = accept])
          /\ agreed' = IF accept /\ u = q.to THEN agreed \cup {<<q.from, u>>} ELSE agreed
          /\ crossed' = CrossedBy(q)
    /\ UNCHANGED <<socialDocs, asked, hasty>>

\* The request must be pending and addressed to the caller.
RespondBegin(r) ==
    /\ Serve("respond")
    /\ \E q \in requests, accept \in BOOLEAN : \E u \in alive \cap {q.to} :
          /\ q.status = "pending"
          /\ AskBegin(r, [NoAsk EXCEPT !.pc = "answer", !.by = u, !.other = q.from,
                                      !.doc = q.id, !.accept = accept])
          /\ agreed' = IF accept THEN agreed \cup {<<q.from, u>>} ELSE agreed
          /\ crossed' = CrossedBy(q)
    /\ UNCHANGED <<socialDocs, asked, hasty>>

\* Fault: the answer is not stored.
AnswerForgotten(r) ==
    /\ AskAt(r, "answer")
    /\ IF ask[r].accept THEN AskGoto(r, "befriend") ELSE AskEnd(r)
    /\ UNCHANGED <<socialDocs, socialHistory, calls>>

\* The new status is written by id, whatever the status has become.
AnswerRequest(r) ==
    /\ AskAt(r, "answer")
    /\ LET status == IF ask[r].accept THEN "accepted" ELSE "rejected" IN
          requests' = {IF q.id = ask[r].doc THEN [q EXCEPT !.status = status] ELSE q : q \in requests}
    /\ IF ask[r].accept THEN AskGoto(r, "befriend") ELSE AskEnd(r)
    /\ UNCHANGED <<friendships, games, inbox, nextDoc, socialHistory, calls>>

Befriend(r) ==
    /\ AskAt(r, "befriend")
    /\ friendships' = friendships \cup {[id |-> nextDoc, from |-> ask[r].other, to |-> ask[r].by]}
    /\ nextDoc' = nextDoc + 1
    /\ AskGoto(r, "accept_notice")
    /\ UNCHANGED <<requests, games, inbox, socialHistory, calls>>

\* remove_friend: one friendship with both users in it, or any of one's own when
\* both are oneself.
RemoveFriend ==
    /\ Serve("remove_friend")
    /\ \E u \in alive, v \in Known : \E f \in First(Between(u, v)) :
          friendships' = friendships \ {f}
    /\ UNCHANGED <<requests, games, inbox, nextDoc, ask, socialHistory>>

(***************************************************************************)
(* build_social_page: the friendships, then account after account.  A      *)
(* friend who has removed the account makes it a 404; the best of the      *)
(* leaderboard, which follow, are left out.                                *)
(***************************************************************************)
Friends(u) == {f.from : f \in {g \in friendships : g.to = u}}
              \cup {f.to : f \in {g \in friendships : g.from = u}}

SocialPageBegin(r) ==
    /\ Serve("social_page")
    /\ \E u \in alive : AskBegin(r, [NoAsk EXCEPT !.pc = "friends", !.by = u, !.todo = Friends(u)])
    /\ UNCHANGED <<socialDocs, socialHistory>>

ReadFriend(r) ==
    /\ AskAt(r, "friends")
    /\ \E u \in ask[r].todo :
          IF u \in alive THEN AskStep(r, [ask[r] EXCEPT !.todo = @ \ {u}, !.shown = @ \cup {u}])
                        ELSE AskEnd(r)
    /\ UNCHANGED <<socialDocs, socialHistory, calls>>

ShowFriends(r) ==
    /\ AskAt(r, "friends") /\ ask[r].todo = {}
    /\ AskEnd(r)
    /\ UNCHANGED <<socialDocs, socialHistory, calls>>

(***************************************************************************)
(* create_friend_challenge: anybody can be challenged, oneself included.   *)
(***************************************************************************)
ChallengeBegin(r) ==
    /\ Serve("challenge")
    /\ \E u \in alive, v \in Known :
          AskBegin(r, [NoAsk EXCEPT !.pc = "creator_seat", !.by = u, !.other = v, !.doc = nextDoc])
    /\ games' = games \cup {[id |-> nextDoc, creator |-> 0, joiner |-> 0, mode |-> "none", status |-> "live"]}
    /\ nextDoc' = nextDoc + 1
    /\ UNCHANGED <<requests, friendships, inbox, socialHistory>>

\* Two inserts into db.players, in no friend game yet.
SeatCreator(r) ==
    /\ AskAt(r, "creator_seat")
    /\ games' = {IF g.id = ask[r].doc THEN [g EXCEPT !.creator = ask[r].by] ELSE g : g \in games}
    /\ AskGoto(r, "joiner_seat")
    /\ UNCHANGED <<requests, friendships, inbox, nextDoc, socialHistory, calls>>

SeatJoiner(r) ==
    /\ AskAt(r, "joiner_seat")
    /\ games' = {IF g.id = ask[r].doc THEN [g EXCEPT !.joiner = ask[r].other] ELSE g : g \in games}
    /\ AskGoto(r, "game_mode")
    /\ UNCHANGED <<requests, friendships, inbox, nextDoc, socialHistory, calls>>

\* Fault: the game is made a friend game only after the message is out.
TellFirst(r) ==
    /\ AskAt(r, "game_mode")
    /\ Send("challenge", ask[r].other, ask[r].doc)
    /\ AskGoto(r, "challenger")
    /\ UNCHANGED <<requests, friendships, games, socialHistory, calls>>

SetMode(r) ==
    /\ AskAt(r, "game_mode")
    /\ games' = {IF g.id = ask[r].doc THEN [g EXCEPT !.mode = "friend"] ELSE g : g \in games}
    /\ AskGoto(r, "challenger")
    /\ UNCHANGED <<requests, friendships, inbox, nextDoc, socialHistory, calls>>

\* _get_safe_user of the challenger: a 404, and no message, when it is gone.
TellChallenged(r) ==
    /\ AskAt(r, "challenger")
    /\ IF ask[r].by \in alive THEN Send("challenge", ask[r].other, ask[r].doc)
                              ELSE UNCHANGED <<inbox, nextDoc>>
    /\ AskEnd(r)
    /\ UNCHANGED <<requests, friendships, games, socialHistory, calls>>

\* What Match makes of the game: it ends, and a secret submitted once more
\* starts a game that had ended (submit_join_secret).
PlayPrivateGame ==
    /\ Serve("play")
    /\ \E g \in games : \E status \in {"live", "over"} \ {g.status} :
          games' = (games \ {g}) \cup {[g EXCEPT !.status = status]}
    /\ UNCHANGED <<requests, friendships, inbox, nextDoc, ask, socialHistory>>

\* get_active_friend_game: the private games it chooses from.
ActiveFriendGames(u) ==
    {g \in games : g.mode = "friend" /\ u \in {g.creator, g.joiner} /\ g.status = "live"}

(***************************************************************************)
(* The inbox.                                                              *)
(***************************************************************************)
\* Fault: only unread notifications are looked for.
MailedUnread(u) ==
    (\E n \in inbox : n.user = u /\ n.unread) \/ \E k \in Paying : told[u][k] > 0

Mailed(u) == (\E n \in inbox : n.user = u) \/ \E k \in Paying : told[u][k] > 0

\* list_notifications, when there are none; otherwise it changes nothing.
InboxBegin(r) ==
    /\ Serve("inbox")
    /\ \E u \in alive :
          /\ ~Mailed(u)
          /\ AskBegin(r, [NoAsk EXCEPT !.pc = "welcome", !.by = u])
          /\ hasty' = IF signup[u] # "done" \/ \E s \in Slots : AskAt(s, "welcome") /\ ask[s].by = u
                      THEN hasty \cup {u} ELSE hasty
    /\ UNCHANGED <<socialDocs, asked, agreed, crossed>>

\* _ensure_notifications inserts DEFAULT_NOTIFICATIONS.
Welcome(r) ==
    /\ AskAt(r, "welcome")
    /\ Send("system", ask[r].by, 0)
    /\ AskEnd(r)
    /\ UNCHANGED <<requests, friendships, games, socialHistory, calls>>

\* mark_notification_read: one's own.
MarkRead ==
    /\ Serve("read")
    /\ \E n \in inbox :
          /\ n.user \in alive
          /\ inbox' = (inbox \ {n}) \cup {[n EXCEPT !.unread = FALSE]}
    /\ UNCHANGED <<requests, friendships, games, nextDoc, ask, socialHistory>>

KillAsk(r) ==
    /\ ~AskAt(r, "idle")
    /\ Die
    /\ AskEnd(r)
    /\ UNCHANGED <<socialDocs, socialHistory>>

SocialStep(r) ==
    \/ AskFriendBegin(r) \/ CheckPending(r) \/ InsertRequest(r) \/ TellFriend(r)
    \/ RespondBegin(r) \/ AnswerRequest(r) \/ Befriend(r)
    \/ SocialPageBegin(r) \/ ReadFriend(r) \/ ShowFriends(r)
    \/ ChallengeBegin(r) \/ SeatCreator(r) \/ SeatJoiner(r) \/ SetMode(r) \/ TellChallenged(r)
    \/ InboxBegin(r) \/ Welcome(r) \/ KillAsk(r)

SocialNext ==
    ((\E r \in Slots : SocialStep(r)) \/ RemoveFriend \/ PlayPrivateGame \/ MarkRead) /\ UNCHANGED accounts

(***************************************************************************)
(* Properties.                                                             *)
(***************************************************************************)
SocialOK ==
    /\ requests \subseteq FriendRequest /\ friendships \subseteq Friendship
    /\ games \subseteq PrivateGame /\ inbox \subseteq Notification /\ nextDoc \in Nat
    /\ ask \in [Slots -> Ask]
    /\ asked \subseteq Users \X Users /\ agreed \subseteq Users \X Users
    /\ crossed \subseteq Users \X Users /\ hasty \subseteq Users

\* Nobody is made a friend, or shown as one: behind every friendship, and every
\* friend on a social page, there is a request of one of the two and a yes of
\* the other to it, however requests cross and answers overlap.
FriendsByConsent ==
    /\ \A f \in friendships :
          f.from # f.to /\ <<f.from, f.to>> \in asked /\ <<f.from, f.to>> \in agreed
    /\ \A r \in Slots : \A u \in ask[r].shown :
          <<ask[r].by, u>> \in agreed \/ <<u, ask[r].by>> \in agreed

\* One yes makes one friendship: unless two answers to one request overlapped,
\* there are never more friendships from one user to another than accepted
\* requests of the one to the other, so no removed friendship has a twin that
\* keeps the two friends unless they asked each other twice.
OneFriendshipPerYes ==
    \A u, v \in Users : <<u, v>> \notin crossed =>
        Cardinality({f \in friendships : f.from = u /\ f.to = v})
            <= Cardinality({q \in requests : q.from = u /\ q.to = v /\ q.status = "accepted"})

\* News is never ahead of the fact: who is told of a challenge has a seat in the
\* game as its joiner, and finds it among the private games that
\* get_active_friend_game chooses from, unless the game is over by then, even if
\* the challenger is killed or leaves half-way; who is told of a request, or of
\* a yes, can rely on it.
Messages(kind, u) == {n \in inbox : n.kind = kind /\ n.user = u}
NewsIsTrue ==
    /\ \A u \in Users : \A n \in Messages("challenge", u) :
          \E g \in games : /\ g.id = n.game /\ g.joiner = u
                           /\ g.status = "live" => g \in ActiveFriendGames(u)
    /\ \A u \in Users :
          /\ Cardinality(Messages("friend_request", u)) <= Cardinality({q \in requests : q.to = u})
          /\ Messages("friend_accept", u) # {} => \E v \in Users : <<u, v>> \in agreed

\* The inbox welcomes a user once, however its first page races with news of
\* friends, unless the user opens the first page twice at once or before the
\* sign-up is done.
WelcomedOnce == \A u \in Users \ hasty : Cardinality(Messages("system", u)) <= 1
=============================================================================
