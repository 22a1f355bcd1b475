---------------------------- MODULE Matchmaking ----------------------------
(***************************************************************************)
(* The ranked queue: joining and leaving it, the game a match creates, and *)
(* how the waiting player learns of it (the event stream of one worker     *)
(* process, which starts with a snapshot of the database).                 *)
(*                                                                         *)
(* Workers share the database; the subscribers of                          *)
(* core/matchmaking_events.py live in the memory of one worker.  A request *)
(* of a tab is a sequence of actions, one per database round trip others   *)
(* can notice.  A definition whose comment starts with "Fault" is a        *)
(* variant of the one after it with a plausible bug; no action uses it.    *)
(***************************************************************************)
EXTENDS Naturals, FiniteSets, Sequences

CONSTANTS
    Users,      \* verified accounts
    Tabs,       \* browser tabs
    Owner,      \* Owner[t]: the user signed in in tab t
    Workers,    \* gunicorn worker processes
    Capacity,   \* asyncio.Queue(maxsize=32) of a subscriber
    MaxCalls,   \* bound: join and leave requests of one behaviour
    Reopens,    \* whether clients that were shown no match look again after one
    MaxWatches, \* bound: streams and polls opened otherwise
    MaxSeconds, \* bound: ticks of the clock
    MaxKills    \* bound: workers killed

ASSUME MatchmakingAssumption ==
    /\ IsFiniteSet(Tabs) /\ Owner \in [Tabs -> Users]
    /\ Reopens \in BOOLEAN /\ Capacity \in Nat \ {0}
    /\ MaxCalls \in Nat /\ MaxWatches \in Nat
    /\ MaxSeconds \in Nat /\ MaxKills \in Nat

VARIABLES
    queue,      \* db.matchmaking_queue
    games,      \* db.games: the ranked ones
    seats,      \* db.players of those games
    presence,   \* db.presence
    nextId,     \* the next document id
    second,     \* int(time.time()): documents of one second are not ordered
    req,        \* req[t]: the join or leave request of tab t
    eye,        \* eye[t]: the stream or status request of tab t
    calls, watches, kills,
    announced,  \* history: <<game, worker>> pairs of publish calls
    seen,       \* history: <<game, user>> pairs, the user was shown the match
    crossed,    \* history: {u, v}: a request of u began before a join of v had acted
    ended       \* history: games that were over at some time

stored  == <<queue, games, seats, presence, nextId, second>>
bounds  == <<calls, watches, kills>>
history == <<announced, seen, crossed, ended>>
vars    == <<stored, req, eye, bounds, history>>

\* "live" is waiting or started: every reader here counts both as a match.
Statuses == {"live", "over"}

Quiet  == [pc |-> "idle", worker |-> "none", entry |-> 0, opponent |-> "none", game |-> 0]
Closed == [pc |-> "closed", worker |-> "none", sub |-> FALSE, inbox |-> << >>, said |-> "none", game |-> 0]

Entries(u) == {e \in queue : e.user = u}
Oldest(S)  == {x \in S : \A y \in S : x.at <= y.at}
Newest(S)  == {x \in S : \A y \in S : y.at <= x.at}
SeatsOf(u) == {s \in seats : s.user = u}
Live(g)    == g.status = "live"

\* A document is inserted in the same second as the one before it or later.
Stamp == second' \in {s \in {second, second + 1} : s <= MaxSeconds}

Step(t, q)     == req' = [req EXCEPT ![t] = q]
Goto(t, label) == Step(t, [req[t] EXCEPT !.pc = label])
At(t, label)   == req[t].pc = label
Look(t, e)     == eye' = [eye EXCEPT ![t] = e]

Init ==
    /\ queue = {} /\ games = {} /\ seats = {}
    /\ presence = [u \in Users |-> "Online"]
    /\ nextId = 1 /\ second = 0
    /\ req = [t \in Tabs |-> Quiet] /\ eye = [t \in Tabs |-> Closed]
    /\ calls = 0 /\ watches = 0 /\ kills = 0
    /\ announced = {} /\ seen = {} /\ crossed = {} /\ ended = {}

\* Joins that have looked at the queue, or are about to, and not acted on it.
Acting(t) == req[t].pc \in {"find", "insert", "claim"}
Cross(t)  == crossed' = crossed \cup {{Owner[t], Owner[s]} : s \in {x \in Tabs \ {t} : Acting(x)}}

(***************************************************************************)
(* join_matchmaking_queue.                                                 *)
(***************************************************************************)
\* Fault: a join keeps the entries the user already has.
JoinAgain(t, w) ==
    /\ At(t, "idle") /\ calls < MaxCalls
    /\ calls' = calls + 1
    /\ Step(t, [Quiet EXCEPT !.pc = "find", !.worker = w])
    /\ Cross(t)
    /\ UNCHANGED <<stored, eye, watches, kills, announced, seen, ended>>

\* delete_many: the user's own entries first.
JoinBegin(t, w) ==
    /\ At(t, "idle") /\ calls < MaxCalls
    /\ calls' = calls + 1
    /\ queue' = queue \ Entries(Owner[t])
    /\ Step(t, [Quiet EXCEPT !.pc = "find", !.worker = w])
    /\ Cross(t)
    /\ UNCHANGED <<games, seats, presence, nextId, second, eye, watches, kills, announced, seen, ended>>

\* Fault: entries of the current second do not count yet.
FindEarlier(t) ==
    /\ At(t, "find")
    /\ LET others == {e \in queue \ Entries(Owner[t]) : e.at < second} IN
          IF others = {} THEN Goto(t, "insert")
          ELSE \E e \in Oldest(others) :
                  Step(t, [req[t] EXCEPT !.pc = "claim", !.entry = e.id, !.opponent = e.user])
    /\ UNCHANGED <<stored, eye, bounds, history>>

\* Fault: the opponent is not remembered.
FindForgetful(t) ==
    /\ At(t, "find")
    /\ LET others == queue \ Entries(Owner[t]) IN
          IF others = {} THEN Goto(t, "insert")
          ELSE \E e \in Oldest(others) : Step(t, [req[t] EXCEPT !.pc = "claim", !.entry = e.id])
    /\ UNCHANGED <<stored, eye, bounds, history>>

FindWaiting(t) ==
    /\ At(t, "find")
    /\ LET others == queue \ Entries(Owner[t]) IN
          IF others = {} THEN Goto(t, "insert")
          ELSE \E e \in Oldest(others) :
                  Step(t, [req[t] EXCEPT !.pc = "claim", !.entry = e.id, !.opponent = e.user])
    /\ UNCHANGED <<stored, eye, bounds, history>>

InsertEntry(t) ==
    /\ At(t, "insert")
    /\ Stamp
    /\ queue' = queue \cup {[id |-> nextId, user |-> Owner[t], at |-> second']}
    /\ nextId' = nextId + 1
    /\ Goto(t, "in_queue")
    /\ UNCHANGED <<games, seats, presence, eye, bounds, history>>

SetInQueue(t) ==
    /\ At(t, "in_queue")
    /\ presence' = [presence EXCEPT ![Owner[t]] = "In ranked queue"]
    /\ Step(t, Quiet)
    /\ UNCHANGED <<queue, games, seats, nextId, second, eye, bounds, history>>

\* delete_one, whose result nobody looks at.
Claim(t) ==
    /\ At(t, "claim")
    /\ queue' = {e \in queue : e.id # req[t].entry}
    /\ Goto(t, "seat_waiter")
    /\ UNCHANGED <<games, seats, presence, nextId, second, eye, bounds, history>>

\* add_game and the first add_player: a game without players is in nobody's way.
SeatWaiter(t) ==
    /\ At(t, "seat_waiter")
    /\ Stamp
    /\ games' = games \cup {[id |-> nextId, creator |-> req[t].opponent, joiner |-> Owner[t],
                             mode |-> "none", status |-> "live"]}
    /\ seats' = seats \cup {[user |-> req[t].opponent, game |-> nextId, at |-> second']}
    /\ nextId' = nextId + 1
    /\ Step(t, [req[t] EXCEPT !.pc = "seat_joiner", !.game = nextId])
    /\ UNCHANGED <<queue, presence, eye, bounds, history>>

SeatJoiner(t) ==
    /\ At(t, "seat_joiner")
    /\ Stamp
    /\ seats' = seats \cup {[user |-> Owner[t], game |-> req[t].game, at |-> second']}
    /\ Goto(t, "mode")
    /\ UNCHANGED <<queue, games, presence, nextId, eye, bounds, history>>

\* Fault: the mode is left as add_game made it.
StayOffline(t) ==
    /\ At(t, "mode")
    /\ Goto(t, "in_match")
    /\ UNCHANGED <<stored, eye, bounds, history>>

\* update_game_by_id and _set_game_mode: the status request only counts games
\* whose mode is online, so the player ids matter to nobody before.
GoOnline(t) ==
    /\ At(t, "mode")
    /\ games' = {IF g.id = req[t].game THEN [g EXCEPT !.mode = "online"] ELSE g : g \in games}
    /\ Goto(t, "in_match")
    /\ UNCHANGED <<queue, seats, presence, nextId, second, eye, bounds, history>>

\* The two players' documents, one after the other; nothing reads both.
SetInMatch(t) ==
    /\ At(t, "in_match")
    /\ presence' = [presence EXCEPT ![req[t].opponent] = "In match", ![Owner[t]] = "In match"]
    /\ Goto(t, "publish")
    /\ UNCHANGED <<queue, games, seats, nextId, second, eye, bounds, history>>

\* put_nowait, and QueueFull is passed over.
Put(inbox, g) == IF Len(inbox) < Capacity THEN Append(inbox, g) ELSE inbox

\* Fault: a stream subscribes after its snapshot, so only listening ones are reached.
PublishToListeners(t) ==
    /\ At(t, "publish")
    /\ eye' = [s \in Tabs |->
                 IF /\ Owner[s] = req[t].opponent /\ eye[s].pc = "listen"
                    /\ eye[s].worker = req[t].worker
                 THEN [eye[s] EXCEPT !.inbox = Put(@, req[t].game)] ELSE eye[s]]
    /\ announced' = announced \cup {<<req[t].game, req[t].worker>>}
    /\ seen' = seen \cup {<<req[t].game, Owner[t]>>}
    /\ Step(t, Quiet)
    /\ UNCHANGED <<stored, bounds, crossed, ended>>

\* publish puts the event into the queue of every subscriber of the waiting
\* user in this worker, unless it is full; then the joiner is told in the
\* answer to its request.
Publish(t) ==
    /\ At(t, "publish")
    /\ eye' = [s \in Tabs |->
                 IF Owner[s] = req[t].opponent /\ eye[s].sub /\ eye[s].worker = req[t].worker
                 THEN [eye[s] EXCEPT !.inbox = Put(@, req[t].game)] ELSE eye[s]]
    /\ announced' = announced \cup {<<req[t].game, req[t].worker>>}
    /\ seen' = seen \cup {<<req[t].game, Owner[t]>>}
    /\ Step(t, Quiet)
    /\ UNCHANGED <<stored, bounds, crossed, ended>>

(***************************************************************************)
(* leave_matchmaking_queue.                                                *)
(***************************************************************************)
LeaveBegin(t, w) ==
    /\ At(t, "idle") /\ calls < MaxCalls
    /\ calls' = calls + 1
    /\ queue' = queue \ Entries(Owner[t])
    /\ Step(t, [Quiet EXCEPT !.pc = "leave", !.worker = w])
    /\ Cross(t)
    /\ UNCHANGED <<games, seats, presence, nextId, second, eye, watches, kills, announced, seen, ended>>

SetOnline(t) ==
    /\ At(t, "leave")
    /\ presence' = [presence EXCEPT ![Owner[t]] = "Online"]
    /\ Step(t, Quiet)
    /\ UNCHANGED <<queue, games, seats, nextId, second, eye, bounds, history>>

(***************************************************************************)
(* stream_matchmaking (sub) and queue_status: get_matchmaking_status reads *)
(* the queue, the newest seat and its game.                                *)
(***************************************************************************)
Watch(t, w, sub) ==
    /\ eye[t].pc = "closed"
    /\ IF Reopens /\ \E a \in announced : <<a[1], Owner[t]>> \notin seen
       THEN UNCHANGED watches
       ELSE watches < MaxWatches /\ watches' = watches + 1
    /\ Look(t, [Closed EXCEPT !.pc = "queue", !.worker = w, !.sub = sub])
    /\ UNCHANGED <<stored, req, calls, kills, history>>

\* What the snapshot says; a stream that was not told of a match listens on.
Answer(t, said) ==
    Look(t, IF eye[t].sub THEN [eye[t] EXCEPT !.pc = "listen", !.said = said, !.game = 0] ELSE Closed)

LookInQueue(t) ==
    /\ eye[t].pc = "queue"
    /\ IF Entries(Owner[t]) # {} THEN Answer(t, "queued")
       ELSE Look(t, [eye[t] EXCEPT !.pc = "seat"])
    /\ UNCHANGED <<stored, req, bounds, history>>

LookAtSeat(t) ==
    /\ eye[t].pc = "seat"
    /\ IF SeatsOf(Owner[t]) = {} THEN Answer(t, "idle")
       ELSE \E s \in Newest(SeatsOf(Owner[t])) :
               Look(t, [eye[t] EXCEPT !.pc = "game", !.game = s.game])
    /\ UNCHANGED <<stored, req, bounds, history>>

LookAtGame(t) ==
    /\ eye[t].pc = "game"
    /\ IF \E g \in games : g.id = eye[t].game /\ g.mode = "online" /\ Live(g)
       THEN Look(t, Closed) /\ seen' = seen \cup {<<eye[t].game, Owner[t]>>}
       ELSE Answer(t, "idle") /\ UNCHANGED seen
    /\ UNCHANGED <<stored, req, bounds, announced, crossed, ended>>

\* The stream yields the first match_found and ends; what has come after it is lost.
Deliver(t) ==
    /\ eye[t].pc = "listen" /\ eye[t].inbox # << >>
    /\ seen' = seen \cup {<<Head(eye[t].inbox), Owner[t]>>}
    /\ Look(t, Closed)
    /\ UNCHANGED <<stored, req, bounds, announced, crossed, ended>>

\* The stream gives up after 120 keep-alives, or the client goes away.
HangUp(t) ==
    /\ eye[t].pc = "listen" /\ eye[t].inbox = << >>
    /\ Look(t, Closed)
    /\ UNCHANGED <<stored, req, bounds, history>>

(***************************************************************************)
(* The environment.                                                        *)
(***************************************************************************)
\* What Match says of a status: the game ends or expires, and a secret sent
\* again, or late, writes "started" or "waiting" over whatever it has become.
Play ==
    /\ \E g \in games, s \in Statuses :
          /\ g.mode = "online" /\ g.status # s
          /\ games' = (games \ {g}) \cup {[g EXCEPT !.status = s]}
          /\ ended' = IF s = "over" THEN ended \cup {g.id} ELSE ended
    /\ UNCHANGED <<queue, seats, presence, nextId, second, req, eye, bounds, announced, seen, crossed>>

\* A worker dies with the requests it was serving and its subscribers.
Kill(w) ==
    /\ kills < MaxKills
    /\ \E t \in Tabs : req[t].worker = w \/ eye[t].worker = w
    /\ kills' = kills + 1
    /\ req' = [t \in Tabs |-> IF req[t].worker = w THEN Quiet ELSE req[t]]
    /\ eye' = [t \in Tabs |-> IF eye[t].worker = w THEN Closed ELSE eye[t]]
    /\ UNCHANGED <<stored, calls, watches, history>>

Handler(t) ==
    \/ FindWaiting(t) \/ InsertEntry(t) \/ SetInQueue(t) \/ Claim(t)
    \/ SeatWaiter(t) \/ SeatJoiner(t) \/ GoOnline(t) \/ SetInMatch(t) \/ Publish(t)
    \/ SetOnline(t)

Watcher(t) ==
    \/ LookInQueue(t) \/ LookAtSeat(t) \/ LookAtGame(t) \/ Deliver(t) \/ HangUp(t)

Next ==
    \/ \E t \in Tabs, w \in Workers : JoinBegin(t, w) \/ LeaveBegin(t, w)
    \/ \E t \in Tabs, w \in Workers, sub \in BOOLEAN : Watch(t, w, sub)
    \/ \E t \in Tabs : Handler(t) \/ Watcher(t)
    \/ Play
    \/ \E w \in Workers : Kill(w)

Spec == Init /\ [][Next]_vars

\* The event loop runs every handler on, a stream ends by itself after its 120
\* rounds, and the client of a waiting player opens it again.
Fairness ==
    \A t \in Tabs : /\ WF_vars(Handler(t))
                    /\ WF_vars(Watcher(t))
                    /\ WF_vars(\E w \in Workers, sub \in BOOLEAN : Watch(t, w, sub))

FairSpec == Spec /\ Fairness

(***************************************************************************)
(* Properties.                                                             *)
(***************************************************************************)
Joins == [pc : {"idle", "find", "insert", "in_queue", "claim", "seat_waiter", "seat_joiner", "mode",
                "in_match", "publish", "leave"},
          worker : Workers \cup {"none"}, entry : Nat, opponent : Users \cup {"none"}, game : Nat]

Streams == [pc : {"closed", "queue", "seat", "game", "listen"}, worker : Workers \cup {"none"},
            sub : BOOLEAN, inbox : Seq(Nat), said : {"none", "queued", "idle"}, game : Nat]

\* Whoever claims an entry knows whose it is, and only streams listen.
TypeOK ==
    /\ queue \subseteq [id : Nat, user : Users, at : Nat]
    /\ games \subseteq [id : Nat, creator : Users, joiner : Users, mode : {"none", "online"},
                        status : Statuses]
    /\ seats \subseteq [user : Users, game : Nat, at : Nat]
    /\ presence \in [Users -> {"Online", "In ranked queue", "In match"}]
    /\ nextId \in Nat /\ second \in Nat
    /\ announced \subseteq Nat \X (Workers \cup {"none"}) /\ seen \subseteq Nat \X Users
    /\ crossed \subseteq SUBSET Users /\ ended \subseteq Nat
    /\ req \in [Tabs -> Joins] /\ eye \in [Tabs -> Streams]
    /\ \A t \in Tabs :
          /\ req[t].pc \in {"claim", "seat_waiter", "seat_joiner", "mode", "in_match", "publish"} =>
                req[t].opponent \in Users
          /\ eye[t].pc = "listen" => eye[t].sub

\* However many tabs and retries race, the queue never holds more entries of a
\* user than the user has tabs joining at once: a join clears what earlier
\* ones left behind.
QueueBounded == \A u \in Users : Cardinality(Entries(u)) <= Cardinality({t \in Tabs : Owner[t] = u})

\* No wake-up is lost inside a worker: a stream that told its player "idle"
\* and listens with nothing to deliver has missed no match that its own
\* worker announced, as long as the match is the player's newest seat and has
\* not been over (subscribe before the snapshot, publish after the last write).
\* A match that was over when the stream looked and is opened again by a late
\* secret is not announced a second time.
NoMissedMatch ==
    \A t \in Tabs : eye[t].pc = "listen" /\ eye[t].inbox = << >> /\ eye[t].said = "idle" =>
        ~ \E g \in games : /\ g.creator = Owner[t] /\ g.id \notin ended
                           /\ <<g.id, eye[t].worker>> \in announced
                           /\ \A s \in SeatsOf(Owner[t]) \ {x \in seats : x.game = g.id} :
                                \A x \in SeatsOf(Owner[t]) : x.game = g.id => s.at < x.at

\* What the queue gets wrong takes two requests at once: two players wait side
\* by side only if a request of one of them began before a join of the other
\* had acted on what it saw, and a joiner claims an entry that is gone only if
\* another request began meanwhile or its own began during another join
\* (join_matchmaking_queue looks once, and ignores what delete_one says).
OnlyCrossedJoinsMiss ==
    /\ \A e, f \in queue : e.user # f.user => {e.user, f.user} \in crossed
    /\ \A t \in Tabs : At(t, "claim") /\ (\A e \in queue : e.id # req[t].entry) =>
          \E u \in Users : {u, Owner[t]} \in crossed

\* Nobody is paired with oneself, even with joins racing in several tabs.
NeverAgainstOneself == \A g \in games : g.creator # g.joiner

\* The waiting player of an announced match is shown it in the end, on
\* whichever worker its stream is, unless the game is over first or the player
\* has queued again or sat down elsewhere meanwhile.
MatchedIsSeen ==
    \A u \in Users, n \in 1 .. MaxCalls :
        (\E a \in announced, g \in games : a[1] = n /\ g.id = n /\ g.creator = u)
        ~> \/ <<n, u>> \in seen
           \/ \E g \in games : g.id = n /\ ~Live(g)
           \/ Entries(u) # {}
           \/ \E s \in SeatsOf(u) : s.game # n
=============================================================================
