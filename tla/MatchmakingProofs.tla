------------------------- MODULE MatchmakingProofs -------------------------
(***************************************************************************)
(* What holds of the ranked queue for every set of users, tabs and         *)
(* workers, every sign-in of users in tabs and every bound.                *)
(***************************************************************************)
EXTENDS Matchmaking, FiniteSetTheorems, TLAPS

USE DEF vars, stored, bounds, history

(***************************************************************************)
(* Updates of the request and of the stream of one tab.                    *)
(***************************************************************************)
Labels == {"idle", "find", "insert", "in_queue", "claim", "seat_waiter", "seat_joiner", "mode",
           "in_match", "publish", "leave"}
Knows  == {"claim", "seat_waiter", "seat_joiner", "mode", "in_match", "publish"}
HasGame == {"seat_joiner", "mode", "in_match", "publish"}

LEMMA QuietType == Quiet \in Joins
BY DEF Quiet, Joins

LEMMA ClosedType == Closed \in Streams
BY DEF Closed, Streams

LEMMA StepTab ==
    ASSUME req \in [Tabs -> Joins], NEW t \in Tabs, NEW q \in Joins, Step(t, q)
    PROVE  /\ req' \in [Tabs -> Joins] /\ req'[t] = q
           /\ \A x \in Tabs : x # t => req'[x] = req[x]
BY DEF Step

LEMMA GotoTab ==
    ASSUME req \in [Tabs -> Joins], NEW t \in Tabs, NEW l \in Labels, Goto(t, l)
    PROVE  /\ req' \in [Tabs -> Joins] /\ req'[t] = [req[t] EXCEPT !.pc = l]
           /\ req'[t].pc = l /\ req'[t].worker = req[t].worker /\ req'[t].entry = req[t].entry
           /\ req'[t].opponent = req[t].opponent /\ req'[t].game = req[t].game
           /\ \A x \in Tabs : x # t => req'[x] = req[x]
<1>1. req[t] \in Joins
  OBVIOUS
<1>2. [req[t] EXCEPT !.pc = l] \in Joins
  BY <1>1 DEF Joins, Labels
<1>3. QED
  BY <1>1, <1>2, StepTab DEF Goto, Joins

LEMMA LookTab ==
    ASSUME eye \in [Tabs -> Streams], NEW t \in Tabs, NEW e \in Streams, Look(t, e)
    PROVE  /\ eye' \in [Tabs -> Streams] /\ eye'[t] = e
           /\ \A x \in Tabs : x # t => eye'[x] = eye[x]
BY DEF Look

\* What a handler leaves in its tab: the new record, with its fields.
Moved(t, l, opponent, game) ==
    /\ req' \in [Tabs -> Joins]
    /\ req'[t].pc = l /\ req'[t].opponent = opponent /\ req'[t].game = game
    /\ \A x \in Tabs : x # t => req'[x] = req[x]

ReqType == req \in [Tabs -> Joins]
EyeType == eye \in [Tabs -> Streams]

LEMMA JoinMoves ==
    ASSUME ReqType, NEW t \in Tabs, NEW w \in Workers, NEW l \in Labels,
           Step(t, [Quiet EXCEPT !.pc = l, !.worker = w])
    PROVE  Moved(t, l, "none", 0)
<1> DEFINE q == [Quiet EXCEPT !.pc = l, !.worker = w]
<1>1. q \in Joins /\ q.pc = l /\ q.opponent = "none" /\ q.game = 0
  BY DEF Quiet, Joins, Labels
<1>2. QED
  BY <1>1, StepTab DEF Moved, ReqType

LEMMA GotoMoves ==
    ASSUME ReqType, NEW t \in Tabs, NEW l \in Labels, Goto(t, l)
    PROVE  Moved(t, l, req[t].opponent, req[t].game)
BY GotoTab DEF Moved, ReqType

LEMMA ReturnMoves ==
    ASSUME ReqType, NEW t \in Tabs, Step(t, Quiet)
    PROVE  Moved(t, "idle", "none", 0)
BY QuietType, StepTab DEF Moved, ReqType, Quiet

LEMMA FoundMoves ==
    ASSUME ReqType, NEW t \in Tabs, NEW n \in Nat, NEW u \in Users,
           Step(t, [req[t] EXCEPT !.pc = "claim", !.entry = n, !.opponent = u])
    PROVE  Moved(t, "claim", u, req[t].game)
<1> DEFINE q == [req[t] EXCEPT !.pc = "claim", !.entry = n, !.opponent = u]
<1>1. req[t] \in Joins
  BY DEF ReqType
<1>2. q \in Joins /\ q.pc = "claim" /\ q.opponent = u /\ q.game = req[t].game
  BY <1>1 DEF Joins
<1>3. QED
  BY <1>2, StepTab DEF Moved, ReqType

LEMMA SeatedMoves ==
    ASSUME ReqType, NEW t \in Tabs, NEW n \in Nat,
           Step(t, [req[t] EXCEPT !.pc = "seat_joiner", !.game = n])
    PROVE  Moved(t, "seat_joiner", req[t].opponent, n)
<1> DEFINE q == [req[t] EXCEPT !.pc = "seat_joiner", !.game = n]
<1>1. req[t] \in Joins
  BY DEF ReqType
<1>2. q \in Joins /\ q.pc = "seat_joiner" /\ q.opponent = req[t].opponent /\ q.game = n
  BY <1>1 DEF Joins
<1>3. QED
  BY <1>2, StepTab DEF Moved, ReqType

LEMMA CrossType ==
    ASSUME crossed \subseteq SUBSET Users, NEW t \in Tabs, Cross(t)
    PROVE  crossed' \subseteq SUBSET Users
<1>1. \A s \in Tabs : {Owner[t], Owner[s]} \in SUBSET Users
  BY MatchmakingAssumption
<1>2. QED BY <1>1 DEF Cross

\* A subscriber has something to deliver once an event was put for it.
LEMMA PutType ==
    ASSUME NEW inbox \in Seq(Nat), NEW g \in Nat
    PROVE  Put(inbox, g) \in Seq(Nat) /\ Put(inbox, g) # << >>
<1>1. CASE Len(inbox) < Capacity
  BY <1>1 DEF Put
<1>2. CASE ~(Len(inbox) < Capacity)
  <2>1. Len(inbox) # 0
    BY <1>2, MatchmakingAssumption
  <2>2. QED
    BY <1>2, <2>1 DEF Put
<1>3. QED
  BY <1>1, <1>2

\* A killed worker leaves its requests idle and its streams closed.
LEMMA KillMoves ==
    ASSUME ReqType, EyeType, NEW w \in Workers, Kill(w)
    PROVE  /\ req' \in [Tabs -> Joins] /\ eye' \in [Tabs -> Streams]
           /\ \A t \in Tabs : req'[t] = req[t] \/ req'[t] = Quiet
           /\ \A t \in Tabs : eye'[t] = eye[t] \/ eye'[t] = Closed
BY QuietType, ClosedType DEF Kill, ReqType, EyeType

(***************************************************************************)
(* What the seats, the games, the requests and the announcements say of    *)
(* one another.                                                            *)
(***************************************************************************)
\* The creator sits in the game.
Seated(g) == \E x \in seats : x.user = g.creator /\ x.game = g.id

\* The creator's newest seat is another one, or may be: of two seats of one
\* second either is read.
Overtaken(g) ==
    \E s, x \in SeatsOf(g.creator) : x.game = g.id /\ s.game # g.id /\ ~(s.at < x.at)

\* Document ids are handed out once, and a game that is over has ended.
Numbered == \A g \in games : g.id < nextId /\ (~Live(g) => g.id \in ended)

\* A joiner was given somebody else's entry, and so is every game.
Paired ==
    /\ \A t \in Tabs : req[t].pc \in {"claim", "seat_waiter"} => req[t].opponent # Owner[t]
    /\ \A g \in games : g.creator # g.joiner

\* The game a joiner is setting up is the waiting player's, who sits in it; it
\* is online once its mode is written.
SetUp ==
    \A t \in Tabs : req[t].pc \in HasGame =>
        /\ req[t].game < nextId
        /\ \A g \in games : g.id = req[t].game =>
              /\ g.creator = req[t].opponent /\ Seated(g)
              /\ req[t].pc \in {"in_match", "publish"} => g.mode = "online"

\* What was announced is online and its creator sits in it.
Announced ==
    \A a \in announced :
        /\ a[1] < nextId
        /\ \A g \in games : g.id = a[1] => g.mode = "online" /\ Seated(g)

\* A stream that its worker has told nothing of an announced match of its
\* player: it is about to read that game or the seat is not the newest, and
\* if it has said "idle" then the match was over or overtaken.
Informed(t, g) ==
    /\ eye[t].pc = "game" => eye[t].game = g.id \/ Overtaken(g)
    /\ eye[t].pc = "listen" /\ eye[t].said = "idle" => g.id \in ended \/ Overtaken(g)

Subscribed ==
    \A t \in Tabs : eye[t].sub =>
        \A g \in games :
            g.creator = Owner[t] /\ <<g.id, eye[t].worker>> \in announced
                /\ eye[t].inbox = << >> => Informed(t, g)

Joining(u) == {t \in Tabs : Owner[t] = u /\ req[t].pc \in {"find", "insert"}}
TabsOf(u)  == {t \in Tabs : Owner[t] = u}

\* A join that has cleared its player's entries may still insert one.
Room ==
    /\ IsFiniteSet(queue)
    /\ \A u \in Users : Cardinality(Entries(u)) + Cardinality(Joining(u)) <= Cardinality(TabsOf(u))

QInv == TypeOK /\ Numbered /\ Paired /\ SetUp /\ Announced /\ Subscribed /\ Room

LEMMA InvInit == Init => QInv
<1> SUFFICES ASSUME Init PROVE QInv
  OBVIOUS
<1>1. TypeOK
  BY QuietType, ClosedType DEF Init, TypeOK, Quiet, Closed
<1>2. Numbered /\ Paired /\ SetUp /\ Announced
  BY DEF Init, Numbered, Paired, SetUp, Announced, HasGame, Quiet
<1>3. Subscribed
  BY DEF Init, Subscribed, Closed
<1>4. Room
  <2>1. IsFiniteSet(queue) /\ \A u \in Users : Entries(u) = {} /\ Joining(u) = {}
    BY FS_EmptySet DEF Init, Entries, Joining, Quiet
  <2>2. \A u \in Users : IsFiniteSet(TabsOf(u))
    BY MatchmakingAssumption, FS_Subset DEF TabsOf
  <2>3. \A u \in Users : Cardinality(TabsOf(u)) \in Nat
    BY <2>2, FS_CardinalityType
  <2>4. Cardinality({}) = 0
    BY FS_EmptySet
  <2>5. QED
    BY <2>1, <2>3, <2>4 DEF Room
<1>5. QED
  BY <1>1, <1>2, <1>3, <1>4 DEF QInv

(***************************************************************************)
(* What a step that changes little keeps.                                  *)
(***************************************************************************)
\* Seats are never given up.
LEMMA SeatsGrow ==
    ASSUME seats \subseteq seats'
    PROVE  \A g : (Seated(g) => Seated(g)') /\ (Overtaken(g) => Overtaken(g)')
BY DEF Seated, Overtaken, SeatsOf

\* A tab whose request is past the seats was past them before.
Ahead(x) ==
    req'[x].pc \in HasGame =>
        /\ req[x].pc \in HasGame
        /\ req'[x].game = req[x].game /\ req'[x].opponent = req[x].opponent
        /\ req'[x].pc \in {"in_match", "publish"} => req[x].pc \in {"in_match", "publish"}

LEMMA SetUpKept ==
    ASSUME TypeOK, SetUp, games' = games, seats \subseteq seats', nextId' \in Nat,
           nextId <= nextId', \A x \in Tabs : Ahead(x)
    PROVE  SetUp'
<1> SUFFICES ASSUME NEW x \in Tabs, req'[x].pc \in HasGame
             PROVE  /\ req'[x].game < nextId'
                    /\ \A g \in games' : g.id = req'[x].game =>
                          /\ g.creator = req'[x].opponent /\ Seated(g)'
                          /\ req'[x].pc \in {"in_match", "publish"} => g.mode = "online"
  BY DEF SetUp
<1>1. req[x].game \in Nat /\ nextId \in Nat
  BY DEF TypeOK, Joins
<1>2. req[x].pc \in HasGame
  BY DEF Ahead
<1>3. req'[x].game < nextId'
  BY <1>1, <1>2 DEF Ahead, SetUp
<1>4. QED
  BY <1>2, <1>3, SeatsGrow DEF Ahead, SetUp

LEMMA AnnouncedKept ==
    ASSUME TypeOK, Announced, games' = games, seats \subseteq seats', nextId' \in Nat,
           nextId <= nextId', announced' = announced
    PROVE  Announced'
<1> SUFFICES ASSUME NEW a \in announced
             PROVE  /\ a[1] < nextId'
                    /\ \A g \in games : g.id = a[1] => g.mode = "online" /\ Seated(g)'
  BY DEF Announced
<1>1. a[1] \in Nat /\ nextId \in Nat /\ a[1] < nextId
  BY DEF TypeOK, Announced
<1>2. QED
  BY <1>1, SeatsGrow DEF Announced

LEMMA SubscribedKept ==
    ASSUME Subscribed, games' = games, seats \subseteq seats', announced' = announced,
           ended \subseteq ended',
           \A x \in Tabs : eye'[x] = eye[x] \/ ~ eye'[x].sub \/ eye'[x].pc \in {"queue", "seat"}
    PROVE  Subscribed'
<1> SUFFICES ASSUME NEW x \in Tabs, eye'[x].sub, NEW g \in games, g.creator = Owner[x],
                    <<g.id, eye'[x].worker>> \in announced, eye'[x].inbox = << >>
             PROVE  Informed(x, g)'
  BY DEF Subscribed
<1>1. CASE eye'[x] = eye[x]
  BY <1>1, SeatsGrow DEF Subscribed, Informed
<1>2. CASE eye'[x].pc \in {"queue", "seat"}
  BY <1>2 DEF Informed
<1>3. QED
  BY <1>1, <1>2

LEMMA CountsAreNat ==
    ASSUME IsFiniteSet(queue)
    PROVE  \A u \in Users : /\ IsFiniteSet(Entries(u)) /\ IsFiniteSet(Joining(u))
                            /\ IsFiniteSet(TabsOf(u)) /\ Joining(u) \subseteq TabsOf(u)
                            /\ Cardinality(Entries(u)) \in Nat
                            /\ Cardinality(Joining(u)) \in Nat
                            /\ Cardinality(TabsOf(u)) \in Nat
<1> SUFFICES ASSUME NEW u \in Users
             PROVE  /\ IsFiniteSet(Entries(u)) /\ IsFiniteSet(Joining(u)) /\ IsFiniteSet(TabsOf(u))
                    /\ Joining(u) \subseteq TabsOf(u)
                    /\ Cardinality(Entries(u)) \in Nat
                    /\ Cardinality(Joining(u)) \in Nat
                    /\ Cardinality(TabsOf(u)) \in Nat
  OBVIOUS
<1>1. Entries(u) \subseteq queue /\ Joining(u) \subseteq Tabs /\ TabsOf(u) \subseteq Tabs
  BY DEF Entries, Joining, TabsOf
<1>2. IsFiniteSet(Entries(u)) /\ IsFiniteSet(Joining(u)) /\ IsFiniteSet(TabsOf(u))
  BY <1>1, MatchmakingAssumption, FS_Subset
<1>3. Joining(u) \subseteq TabsOf(u)
  BY DEF Joining, TabsOf
<1>4. QED
  BY <1>2, <1>3, FS_CardinalityType

\* Fewer entries and fewer joins leave the room they had.
LEMMA RoomKept ==
    ASSUME Room, queue' \subseteq queue, \A u \in Users : Joining(u)' \subseteq Joining(u)
    PROVE  Room'
<1>1. IsFiniteSet(queue) /\ IsFiniteSet(queue')
  BY FS_Subset DEF Room
<1> SUFFICES ASSUME NEW u \in Users
             PROVE  Cardinality(Entries(u)') + Cardinality(Joining(u)') <= Cardinality(TabsOf(u))
  BY <1>1 DEF Room, TabsOf
<1>2. /\ IsFiniteSet(Entries(u)) /\ IsFiniteSet(Joining(u))
      /\ Cardinality(Entries(u)) \in Nat /\ Cardinality(Joining(u)) \in Nat
      /\ Cardinality(TabsOf(u)) \in Nat
  BY <1>1, CountsAreNat
<1>3. Entries(u)' \subseteq Entries(u)
  BY DEF Entries
<1>4. /\ Cardinality(Entries(u)') <= Cardinality(Entries(u)) /\ Cardinality(Entries(u)') \in Nat
      /\ IsFiniteSet(Entries(u)')
  BY <1>2, <1>3, FS_Subset, FS_CardinalityType
<1>5. /\ Cardinality(Joining(u)') <= Cardinality(Joining(u)) /\ Cardinality(Joining(u)') \in Nat
  BY <1>2, FS_Subset, FS_CardinalityType
<1>6. Cardinality(Entries(u)) + Cardinality(Joining(u)) <= Cardinality(TabsOf(u))
  BY DEF Room
<1>7. QED
  BY <1>2, <1>4, <1>5, <1>6

\* A move of one tab to a label that is no join's keeps fewer joins.
LEMMA JoiningKept ==
    ASSUME NEW t \in Tabs, NEW l, NEW o, NEW n, Moved(t, l, o, n),
           l \in {"find", "insert"} => req[t].pc \in {"find", "insert"}
    PROVE  \A u \in Users : Joining(u)' \subseteq Joining(u)
BY DEF Moved, Joining

\* The parts that a handler which touches only its tab, the queue and the
\* presence keeps.
LEMMA HandlerKeeps ==
    ASSUME QInv, games' = games, seats' = seats, nextId' = nextId, UNCHANGED <<eye, announced, ended>>,
           NEW t \in Tabs, NEW l, NEW o, NEW n, Moved(t, l, o, n),
           l \in HasGame => /\ req[t].pc \in HasGame /\ n = req[t].game /\ o = req[t].opponent
                            /\ l \in {"in_match", "publish"} => req[t].pc \in {"in_match", "publish"},
           l \in {"claim", "seat_waiter"} => o # Owner[t]
    PROVE  Numbered' /\ Paired' /\ SetUp' /\ Announced' /\ Subscribed'
<1>1. Numbered' /\ Paired'
  BY DEF QInv, Numbered, Paired, Moved
<1>2. \A x \in Tabs : Ahead(x)
  BY DEF Ahead, Moved
<1>3. nextId \in Nat /\ nextId' \in Nat /\ nextId <= nextId' /\ seats \subseteq seats'
  <2>1. nextId \in Nat
    BY DEF QInv, TypeOK
  <2>2. QED
    BY <2>1
<1>4. SetUp' /\ Announced' /\ Subscribed'
  BY <1>2, <1>3, SetUpKept, AnnouncedKept, SubscribedKept DEF QInv
<1>5. QED
  BY <1>1, <1>4

(***************************************************************************)
(* join_matchmaking_queue and leave_matchmaking_queue, step by step.       *)
(***************************************************************************)
LEMMA JoinBeginStep ==
    ASSUME QInv, NEW t \in Tabs, NEW w \in Workers, JoinBegin(t, w)
    PROVE  QInv'
<1>1. Moved(t, "find", "none", 0)
  BY JoinMoves DEF JoinBegin, QInv, TypeOK, ReqType, Labels
<1>2. /\ UNCHANGED <<games, seats, presence, nextId, second, eye, announced, seen, ended>>
      /\ crossed' \subseteq SUBSET Users
  BY CrossType DEF JoinBegin, QInv, TypeOK
<1>3. Numbered' /\ Paired' /\ SetUp' /\ Announced' /\ Subscribed'
  BY <1>1, <1>2, HandlerKeeps DEF HasGame
<1>4. TypeOK'
  BY <1>1, <1>2 DEF QInv, TypeOK, Moved, JoinBegin
<1>5. Room'
  <2>1. IsFiniteSet(queue) /\ IsFiniteSet(queue')
    BY FS_Subset DEF JoinBegin, QInv, Room
  <2> SUFFICES ASSUME NEW u \in Users
               PROVE  Cardinality(Entries(u)') + Cardinality(Joining(u)') <= Cardinality(TabsOf(u))
    BY <2>1 DEF Room, TabsOf
  <2>2. CASE u = Owner[t]
    <3>1. Entries(u)' = {}
      BY <2>2 DEF JoinBegin, Entries
    <3>2. Joining(u)' \subseteq TabsOf(u)
      BY DEF Joining, TabsOf
    <3>3. IsFiniteSet(TabsOf(u)) /\ Cardinality(TabsOf(u)) \in Nat
      BY <2>1, CountsAreNat
    <3>4. /\ Cardinality(Joining(u)') <= Cardinality(TabsOf(u))
          /\ Cardinality(Joining(u)') \in Nat
      BY <3>2, <3>3, FS_Subset, FS_CardinalityType
    <3>5. Cardinality(Entries(u)') = 0
      BY <3>1, FS_EmptySet
    <3>6. QED
      BY <3>3, <3>4, <3>5
  <2>3. CASE u # Owner[t]
    <3>1. Entries(u)' = Entries(u) /\ Joining(u)' = Joining(u)
      BY <1>1, <2>3 DEF JoinBegin, Entries, Joining, Moved
    <3>2. QED
      BY <3>1 DEF QInv, Room
  <2>4. QED
    BY <2>2, <2>3
<1>6. QED
  BY <1>3, <1>4, <1>5 DEF QInv

LEMMA LeaveBeginStep ==
    ASSUME QInv, NEW t \in Tabs, NEW w \in Workers, LeaveBegin(t, w)
    PROVE  QInv'
<1>1. Moved(t, "leave", "none", 0)
  BY JoinMoves DEF LeaveBegin, QInv, TypeOK, ReqType, Labels
<1>2. /\ UNCHANGED <<games, seats, presence, nextId, second, eye, announced, seen, ended>>
      /\ crossed' \subseteq SUBSET Users
  BY CrossType DEF LeaveBegin, QInv, TypeOK
<1>3. Numbered' /\ Paired' /\ SetUp' /\ Announced' /\ Subscribed'
  BY <1>1, <1>2, HandlerKeeps DEF HasGame
<1>4. TypeOK'
  BY <1>1, <1>2 DEF QInv, TypeOK, Moved, LeaveBegin
<1>5. Room'
  BY <1>1, JoiningKept, RoomKept DEF LeaveBegin, QInv
<1>6. QED
  BY <1>3, <1>4, <1>5 DEF QInv

\* Steps that write at most the queue or the presence of somebody.
LEMMA FindWaitingStep ==
    ASSUME QInv, NEW t \in Tabs, FindWaiting(t)
    PROVE  QInv'
<1>1. UNCHANGED <<queue, games, seats, presence, nextId, second, eye, announced, seen, crossed, ended>>
  BY DEF FindWaiting
<1>2. ReqType /\ req[t].pc = "find"
  BY DEF QInv, TypeOK, ReqType, FindWaiting, At
<1>3. CASE Goto(t, "insert")
  <2>1. Moved(t, "insert", req[t].opponent, req[t].game)
    BY <1>2, <1>3, GotoMoves DEF Labels
  <2>2. Numbered' /\ Paired' /\ SetUp' /\ Announced' /\ Subscribed'
    BY <1>1, <2>1, HandlerKeeps DEF HasGame
  <2>3. TypeOK'
    BY <1>1, <2>1 DEF QInv, TypeOK, Moved
  <2>4. Room'
    BY <1>1, <1>2, <2>1, JoiningKept, RoomKept DEF QInv
  <2>5. QED
    BY <2>2, <2>3, <2>4 DEF QInv
<1>4. CASE \E e \in Oldest(queue \ Entries(Owner[t])) :
              Step(t, [req[t] EXCEPT !.pc = "claim", !.entry = e.id, !.opponent = e.user])
  <2>1. PICK e \in queue : /\ e \notin Entries(Owner[t])
                           /\ Step(t, [req[t] EXCEPT !.pc = "claim", !.entry = e.id, !.opponent = e.user])
    BY <1>4 DEF Oldest
  <2>2. e.id \in Nat /\ e.user \in Users /\ e.user # Owner[t]
    BY <2>1 DEF QInv, TypeOK, Entries
  <2>3. Moved(t, "claim", e.user, req[t].game)
    BY <1>2, <2>1, <2>2, FoundMoves
  <2>4. Numbered' /\ Paired' /\ SetUp' /\ Announced' /\ Subscribed'
    BY <1>1, <2>2, <2>3, HandlerKeeps DEF HasGame
  <2>5. TypeOK'
    BY <1>1, <2>2, <2>3 DEF QInv, TypeOK, Moved
  <2>6. Room'
    BY <1>1, <2>3, JoiningKept, RoomKept DEF QInv
  <2>7. QED
    BY <2>4, <2>5, <2>6 DEF QInv
<1>5. QED
  BY <1>3, <1>4 DEF FindWaiting

LEMMA InsertEntryStep ==
    ASSUME QInv, NEW t \in Tabs, InsertEntry(t)
    PROVE  QInv'
<1> DEFINE e == [id |-> nextId, user |-> Owner[t], at |-> second']
<1>1. UNCHANGED <<games, seats, presence, eye, announced, seen, crossed, ended>> /\ queue' = queue \cup {e}
  BY DEF InsertEntry
<1>2. ReqType /\ req[t].pc = "insert" /\ Owner[t] \in Users
  BY MatchmakingAssumption DEF QInv, TypeOK, ReqType, InsertEntry, At
<1>3. nextId \in Nat /\ nextId' \in Nat /\ nextId <= nextId' /\ second' \in Nat
  <2>1. nextId \in Nat /\ second \in Nat
    BY DEF QInv, TypeOK
  <2>2. nextId' = nextId + 1 /\ second' \in {second, second + 1}
    BY DEF InsertEntry, Stamp
  <2>3. QED
    BY <2>1, <2>2
<1>4. Moved(t, "in_queue", req[t].opponent, req[t].game)
  BY <1>2, GotoMoves DEF InsertEntry, Labels
<1>5. Numbered'
  <2>1. \A g \in games : g.id \in Nat /\ g.id < nextId /\ (~Live(g) => g.id \in ended)
    BY DEF QInv, TypeOK, Numbered
  <2>2. QED
    BY <1>1, <1>3, <2>1 DEF Numbered, Live
<1>6. Paired'
  BY <1>1, <1>4 DEF QInv, Paired, Moved
<1>7. SetUp' /\ Announced' /\ Subscribed'
  <2>1. \A x \in Tabs : Ahead(x)
    BY <1>4 DEF Ahead, Moved, HasGame
  <2>2. QED
    BY <1>1, <1>3, <2>1, SetUpKept, AnnouncedKept, SubscribedKept DEF QInv
<1>8. TypeOK'
  <2>1. e \in [id : Nat, user : Users, at : Nat]
    BY <1>2, <1>3
  <2>2. QED
    BY <1>1, <1>3, <1>4, <2>1 DEF QInv, TypeOK, Moved
<1>9. Room'
  <2>1. IsFiniteSet(queue) /\ IsFiniteSet(queue')
    BY <1>1, FS_AddElement DEF QInv, Room
  <2> SUFFICES ASSUME NEW u \in Users
               PROVE  Cardinality(Entries(u)') + Cardinality(Joining(u)') <= Cardinality(TabsOf(u))
    BY <2>1 DEF Room, TabsOf
  <2>2. CASE u = Owner[t]
    <3>1. Entries(u)' = Entries(u) \cup {e}
      BY <1>1, <2>2 DEF Entries
    <3>2. t \in Joining(u) /\ Joining(u)' = Joining(u) \ {t}
      BY <1>2, <1>4, <2>2 DEF Joining, Moved
    <3>3. /\ IsFiniteSet(Entries(u)) /\ IsFiniteSet(Joining(u))
          /\ Cardinality(Entries(u)) \in Nat /\ Cardinality(Joining(u)) \in Nat
          /\ Cardinality(TabsOf(u)) \in Nat
      BY <2>1, CountsAreNat
    <3>4. Cardinality(Joining(u)') = Cardinality(Joining(u)) - 1
      BY <3>2, <3>3, FS_RemoveElement
    <3>5. \/ Cardinality(Entries(u)') = Cardinality(Entries(u)) + 1
          \/ Cardinality(Entries(u)') = Cardinality(Entries(u))
      BY <3>1, <3>3, FS_AddElement
    <3>6. Cardinality(Entries(u)) + Cardinality(Joining(u)) <= Cardinality(TabsOf(u))
      BY DEF QInv, Room
    <3>7. QED
      BY <3>3, <3>4, <3>5, <3>6
  <2>3. CASE u # Owner[t]
    <3>1. Entries(u)' = Entries(u) /\ Joining(u)' = Joining(u)
      BY <1>1, <1>4, <2>3 DEF Entries, Joining, Moved
    <3>2. QED
      BY <3>1 DEF QInv, Room
  <2>4. QED
    BY <2>2, <2>3
<1>10. QED
  BY <1>5, <1>6, <1>7, <1>8, <1>9 DEF QInv

LEMMA ClaimStep ==
    ASSUME QInv, NEW t \in Tabs, Claim(t)
    PROVE  QInv'
<1>1. UNCHANGED <<games, seats, presence, nextId, second, eye, announced, seen, crossed, ended>> /\ queue' \subseteq queue
  BY DEF Claim
<1>2. ReqType /\ req[t].pc = "claim"
  BY DEF QInv, TypeOK, ReqType, Claim, At
<1>3. Moved(t, "seat_waiter", req[t].opponent, req[t].game)
  BY <1>2, GotoMoves DEF Claim, Labels
<1>4. req[t].opponent # Owner[t] /\ req[t].opponent \in Users
  BY <1>2 DEF QInv, Paired, TypeOK
<1>5. Numbered' /\ Paired' /\ SetUp' /\ Announced' /\ Subscribed'
  BY <1>1, <1>3, <1>4, HandlerKeeps DEF HasGame
<1>6. TypeOK'
  BY <1>1, <1>3, <1>4 DEF QInv, TypeOK, Moved
<1>7. Room'
  BY <1>1, <1>3, JoiningKept, RoomKept DEF QInv
<1>8. QED
  BY <1>5, <1>6, <1>7 DEF QInv

\* The steps that write presence documents and go on or return.
LEMMA PresenceStep ==
    ASSUME QInv, NEW t \in Tabs, SetInQueue(t) \/ SetInMatch(t) \/ SetOnline(t)
    PROVE  QInv'
<1>1. UNCHANGED <<queue, games, seats, nextId, second, eye, announced, seen, crossed, ended>>
  BY DEF SetInQueue, SetInMatch, SetOnline
<1>2. ReqType
  BY DEF QInv, TypeOK, ReqType
<1>3. presence' \in [Users -> {"Online", "In ranked queue", "In match"}]
  BY DEF QInv, TypeOK, SetInQueue, SetInMatch, SetOnline
<1>4. CASE SetInQueue(t) \/ SetOnline(t)
  <2>1. Moved(t, "idle", "none", 0)
    BY <1>2, <1>4, ReturnMoves DEF SetInQueue, SetOnline
  <2>2. Numbered' /\ Paired' /\ SetUp' /\ Announced' /\ Subscribed'
    BY <1>1, <2>1, HandlerKeeps DEF HasGame
  <2>3. TypeOK'
    BY <1>1, <1>3, <2>1 DEF QInv, TypeOK, Moved
  <2>4. Room'
    BY <1>1, <2>1, JoiningKept, RoomKept DEF QInv
  <2>5. QED
    BY <2>2, <2>3, <2>4 DEF QInv
<1>5. CASE SetInMatch(t)
  <2>1. Moved(t, "publish", req[t].opponent, req[t].game) /\ req[t].pc = "in_match"
    BY <1>2, <1>5, GotoMoves DEF SetInMatch, At, Labels
  <2>2. Numbered' /\ Paired' /\ SetUp' /\ Announced' /\ Subscribed'
    BY <1>1, <2>1, HandlerKeeps DEF HasGame
  <2>3. TypeOK'
    BY <1>1, <1>3, <2>1 DEF QInv, TypeOK, Moved
  <2>4. Room'
    BY <1>1, <2>1, JoiningKept, RoomKept DEF QInv
  <2>5. QED
    BY <2>2, <2>3, <2>4 DEF QInv
<1>6. QED
  BY <1>4, <1>5

\* The new game is nobody's yet: its number is new, and the creator sits in it.
LEMMA SeatWaiterStep ==
    ASSUME QInv, NEW t \in Tabs, SeatWaiter(t)
    PROVE  QInv'
<1>0. PICK g0, x0 :
          /\ g0 = [id |-> nextId, creator |-> req[t].opponent, joiner |-> Owner[t],
                   mode |-> "none", status |-> "live"]
          /\ x0 = [user |-> req[t].opponent, game |-> nextId, at |-> second']
  OBVIOUS
<1>1. /\ UNCHANGED <<queue, presence, eye, announced, seen, crossed, ended>>
      /\ games' = games \cup {g0} /\ seats' = seats \cup {x0}
  BY <1>0 DEF SeatWaiter
<1>2. /\ ReqType /\ req[t].pc = "seat_waiter" /\ Owner[t] \in Users
      /\ req[t].opponent \in Users /\ req[t].opponent # Owner[t]
  BY MatchmakingAssumption DEF QInv, TypeOK, ReqType, SeatWaiter, At, Paired
<1>3. nextId \in Nat /\ nextId' = nextId + 1 /\ second' \in Nat
  <2>1. nextId \in Nat /\ second \in Nat
    BY DEF QInv, TypeOK
  <2>2. nextId' = nextId + 1 /\ second' \in {second, second + 1}
    BY DEF SeatWaiter, Stamp
  <2>3. QED
    BY <2>1, <2>2
<1>4. Moved(t, "seat_joiner", req[t].opponent, nextId)
  BY <1>2, <1>3, SeatedMoves DEF SeatWaiter
<1>5. g0.id = nextId /\ g0.creator = req[t].opponent /\ g0.creator # g0.joiner
  BY <1>0, <1>2
<1>6. Seated(g0)'
  BY <1>0, <1>1 DEF Seated
<1>7. Numbered'
  <2>1. \A g \in games : g.id \in Nat /\ g.id < nextId /\ (~Live(g) => g.id \in ended)
    BY DEF QInv, TypeOK, Numbered
  <2>2. Live(g0)
    BY <1>0 DEF Live
  <2>3. QED
    BY <1>1, <1>3, <1>5, <2>1, <2>2 DEF Numbered, Live
<1>8. Paired'
  BY <1>1, <1>4, <1>5 DEF QInv, Paired, Moved
<1>9. SetUp'
  <2> SUFFICES ASSUME NEW x \in Tabs, req'[x].pc \in HasGame
               PROVE  /\ req'[x].game < nextId'
                      /\ \A g \in games' : g.id = req'[x].game =>
                            /\ g.creator = req'[x].opponent /\ Seated(g)'
                            /\ req'[x].pc \in {"in_match", "publish"} => g.mode = "online"
    BY DEF SetUp
  <2>1. CASE x = t
    <3>1. req'[x].game = nextId /\ req'[x].opponent = req[t].opponent /\ req'[x].pc = "seat_joiner"
      BY <1>4, <2>1 DEF Moved
    <3>2. \A g \in games : g.id # nextId
      <4>1. \A g \in games : g.id \in Nat /\ g.id < nextId
        BY DEF QInv, TypeOK, Numbered
      <4>2. QED
        BY <1>3, <4>1
    <3>3. nextId < nextId'
      BY <1>3
    <3>4. QED
      BY <1>1, <1>5, <1>6, <3>1, <3>2, <3>3
  <2>2. CASE x # t
    <3>1. req'[x] = req[x]
      BY <1>4, <2>2 DEF Moved
    <3>2. req[x].game \in Nat /\ req[x].game < nextId
      BY <3>1 DEF QInv, TypeOK, SetUp, Joins
    <3>3. g0.id # req[x].game /\ req[x].game < nextId'
      BY <1>3, <1>5, <3>2
    <3>4. \A g \in games : Seated(g) => Seated(g)'
      BY <1>1, SeatsGrow
    <3>5. QED
      BY <1>1, <3>1, <3>3, <3>4 DEF QInv, SetUp
  <2>3. QED
    BY <2>1, <2>2
<1>10. Announced'
  <2> SUFFICES ASSUME NEW a \in announced
               PROVE  /\ a[1] < nextId'
                      /\ \A g \in games' : g.id = a[1] => g.mode = "online" /\ Seated(g)'
    BY <1>1 DEF Announced
  <2>1. a[1] \in Nat /\ a[1] < nextId
    BY DEF QInv, TypeOK, Announced
  <2>2. a[1] < nextId' /\ g0.id # a[1]
    BY <1>3, <1>5, <2>1
  <2>3. \A g \in games : Seated(g) => Seated(g)'
    BY <1>1, SeatsGrow
  <2>4. QED
    BY <1>1, <2>2, <2>3 DEF QInv, Announced
<1>11. Subscribed'
  <2> SUFFICES ASSUME NEW x \in Tabs, eye[x].sub, NEW g \in games', g.creator = Owner[x],
                      <<g.id, eye[x].worker>> \in announced, eye[x].inbox = << >>
               PROVE  Informed(x, g)'
    BY <1>1 DEF Subscribed
  <2>1. g \in games
    <3>1. <<g.id, eye[x].worker>>[1] < nextId /\ <<g.id, eye[x].worker>>[1] \in Nat
      BY DEF QInv, Announced, TypeOK
    <3>2. g.id < nextId /\ g.id \in Nat
      BY <3>1
    <3>3. g # g0
      BY <1>3, <1>5, <3>2
    <3>4. QED
      BY <1>1, <3>3
  <2>2. Informed(x, g)
    BY <2>1 DEF QInv, Subscribed
  <2>3. QED
    BY <1>1, <2>2, SeatsGrow DEF Informed
<1>12. TypeOK'
  <2>1. /\ g0 \in [id : Nat, creator : Users, joiner : Users, mode : {"none", "online"}, status : Statuses]
        /\ x0 \in [user : Users, game : Nat, at : Nat]
    BY <1>0, <1>2, <1>3 DEF Statuses
  <2>2. nextId' \in Nat
    BY <1>3
  <2>3. QED
    BY <1>1, <1>2, <1>3, <1>4, <2>1, <2>2 DEF QInv, TypeOK, Moved
<1>13. Room'
  BY <1>1, <1>4, JoiningKept, RoomKept DEF QInv
<1>14. QED
  BY <1>7, <1>8, <1>9, <1>10, <1>11, <1>12, <1>13 DEF QInv

LEMMA SeatJoinerStep ==
    ASSUME QInv, NEW t \in Tabs, SeatJoiner(t)
    PROVE  QInv'
<1> DEFINE x0 == [user |-> Owner[t], game |-> req[t].game, at |-> second']
<1>1. /\ UNCHANGED <<queue, games, presence, nextId, eye, announced, seen, crossed, ended>>
      /\ seats' = seats \cup {x0}
  BY DEF SeatJoiner
<1>2. /\ ReqType /\ req[t].pc = "seat_joiner" /\ Owner[t] \in Users /\ req[t].game \in Nat
      /\ req[t].opponent \in Users
  BY MatchmakingAssumption DEF QInv, TypeOK, ReqType, SeatJoiner, At, Joins
<1>3. nextId \in Nat /\ nextId' \in Nat /\ nextId <= nextId' /\ second' \in Nat
  <2>1. nextId \in Nat /\ second \in Nat
    BY DEF QInv, TypeOK
  <2>2. nextId' = nextId /\ second' \in {second, second + 1}
    BY DEF SeatJoiner, Stamp
  <2>3. QED
    BY <2>1, <2>2
<1>4. Moved(t, "mode", req[t].opponent, req[t].game)
  BY <1>2, GotoMoves DEF SeatJoiner, Labels
<1>5. Numbered' /\ Paired'
  BY <1>1, <1>4 DEF QInv, Numbered, Paired, Moved
<1>6. SetUp' /\ Announced' /\ Subscribed'
  <2>1. \A x \in Tabs : Ahead(x)
    BY <1>2, <1>4 DEF Ahead, Moved, HasGame
  <2>2. QED
    BY <1>1, <1>3, <2>1, SetUpKept, AnnouncedKept, SubscribedKept DEF QInv
<1>7. TypeOK'
  <2>1. x0 \in [user : Users, game : Nat, at : Nat]
    BY <1>2, <1>3
  <2>2. QED
    BY <1>1, <1>2, <1>3, <1>4, <2>1 DEF QInv, TypeOK, Moved
<1>8. Room'
  BY <1>1, <1>4, JoiningKept, RoomKept DEF QInv
<1>9. QED
  BY <1>5, <1>6, <1>7, <1>8 DEF QInv

\* A game whose mode or status is written stays the game it was.
SameGame(g, h) == h.id = g.id /\ h.creator = g.creator /\ h.joiner = g.joiner

LEMMA GoOnlineStep ==
    ASSUME QInv, NEW t \in Tabs, GoOnline(t)
    PROVE  QInv'
<1> DEFINE On(g) == IF g.id = req[t].game THEN [g EXCEPT !.mode = "online"] ELSE g
           G == [id : Nat, creator : Users, joiner : Users, mode : {"none", "online"}, status : Statuses]
<1>1. /\ UNCHANGED <<queue, seats, presence, nextId, second, eye, announced, seen, crossed, ended>>
      /\ games' = {On(g) : g \in games}
  BY DEF GoOnline
<1>2. ReqType /\ req[t].pc = "mode" /\ games \subseteq G /\ req[t].opponent \in Users
  BY DEF QInv, TypeOK, ReqType, GoOnline, At
<1>3. Moved(t, "in_match", req[t].opponent, req[t].game)
  BY <1>2, GotoMoves DEF GoOnline, Labels
<1>4. \A g \in G : /\ On(g) \in G /\ SameGame(g, On(g)) /\ On(g).status = g.status
                   /\ g.id = req[t].game \/ g.mode = "online" => On(g).mode = "online"
  BY DEF SameGame
<1>5. \A h \in games' : \E g \in games : g \in G /\ h = On(g)
  BY <1>1, <1>2
<1> HIDE DEF On, G
<1>6. Numbered' /\ Paired'
  BY <1>1, <1>3, <1>4, <1>5 DEF QInv, Numbered, Paired, Moved, SameGame, Live
<1>7. \A g, h : SameGame(g, h) /\ h.status = g.status =>
          /\ Seated(g) => Seated(h)'
          /\ Overtaken(g) => Overtaken(h)'
          /\ Live(g) <=> Live(h)
  BY <1>1 DEF SameGame, Seated, Overtaken, SeatsOf, Live
<1>8. SetUp'
  <2> SUFFICES ASSUME NEW x \in Tabs, req'[x].pc \in HasGame
               PROVE  /\ req'[x].game < nextId'
                      /\ \A h \in games' : h.id = req'[x].game =>
                            /\ h.creator = req'[x].opponent /\ Seated(h)'
                            /\ req'[x].pc \in {"in_match", "publish"} => h.mode = "online"
    BY DEF SetUp
  <2>1. /\ req'[x].game = req[x].game /\ req'[x].opponent = req[x].opponent /\ req[x].pc \in HasGame
        /\ x # t => req'[x] = req[x]
    BY <1>2, <1>3 DEF Moved, HasGame
  <2>2. req'[x].game < nextId'
    BY <1>1, <2>1 DEF QInv, SetUp
  <2>3. ASSUME NEW h \in games', h.id = req'[x].game
        PROVE  /\ h.creator = req'[x].opponent /\ Seated(h)'
               /\ req'[x].pc \in {"in_match", "publish"} => h.mode = "online"
    <3>1. PICK g \in games : g \in G /\ h = On(g)
      BY <1>5
    <3>2. SameGame(g, h) /\ h.status = g.status
      BY <1>4, <3>1
    <3>3. g.creator = req[x].opponent /\ Seated(g)
      BY <2>1, <2>3, <3>2 DEF QInv, SetUp, SameGame
    <3>4. req'[x].pc \in {"in_match", "publish"} => h.mode = "online"
      BY <1>4, <2>1, <2>3, <3>1, <3>2 DEF QInv, SetUp, SameGame
    <3>5. QED
      BY <1>7, <2>1, <3>2, <3>3, <3>4 DEF SameGame
  <2>4. QED
    BY <2>2, <2>3
<1>9. Announced'
  <2> SUFFICES ASSUME NEW a \in announced
               PROVE  /\ a[1] < nextId
                      /\ \A h \in games' : h.id = a[1] => h.mode = "online" /\ Seated(h)'
    BY <1>1 DEF Announced
  <2>1. ASSUME NEW h \in games', h.id = a[1] PROVE h.mode = "online" /\ Seated(h)'
    <3>1. PICK g \in games : g \in G /\ h = On(g)
      BY <1>5
    <3>2. QED
      BY <1>4, <1>7, <2>1, <3>1 DEF QInv, Announced, SameGame
  <2>2. QED
    BY <2>1 DEF QInv, Announced
<1>10. Subscribed'
  <2> SUFFICES ASSUME NEW x \in Tabs, eye[x].sub, NEW h \in games', h.creator = Owner[x],
                      <<h.id, eye[x].worker>> \in announced, eye[x].inbox = << >>
               PROVE  Informed(x, h)'
    BY <1>1 DEF Subscribed
  <2>1. PICK g \in games : g \in G /\ h = On(g)
    BY <1>5
  <2>2. SameGame(g, h) /\ h.status = g.status
    BY <1>4, <2>1
  <2>3. Informed(x, g)
    BY <2>2 DEF QInv, Subscribed, SameGame
  <2>4. eye'[x] = eye[x] /\ ended' = ended
    BY <1>1
  <2>5. QED
    BY <1>7, <2>2, <2>3, <2>4 DEF Informed, SameGame
<1>11. TypeOK'
  <2>1. games' \subseteq G
    BY <1>4, <1>5
  <2>2. QED
    BY <1>1, <1>2, <1>3, <2>1 DEF QInv, TypeOK, Moved, G
<1>12. Room'
  BY <1>1, <1>3, JoiningKept, RoomKept DEF QInv
<1>13. QED
  BY <1>6, <1>8, <1>9, <1>10, <1>11, <1>12 DEF QInv

\* Every stream of the waiting player in this worker is told, and whatever it
\* was told of before it still is.
LEMMA PublishStep ==
    ASSUME QInv, NEW t \in Tabs, Publish(t)
    PROVE  QInv'
<1> DEFINE n == req[t].game
           Told(x) == Owner[x] = req[t].opponent /\ eye[x].sub /\ eye[x].worker = req[t].worker
<1>1. /\ UNCHANGED <<queue, games, seats, presence, nextId, second, crossed, ended>>
      /\ announced' = announced \cup {<<n, req[t].worker>>}
      /\ seen' = seen \cup {<<n, Owner[t]>>}
      /\ eye' = [x \in Tabs |-> IF Told(x) THEN [eye[x] EXCEPT !.inbox = Put(@, n)] ELSE eye[x]]
  BY DEF Publish
<1>2. /\ ReqType /\ req[t].pc = "publish" /\ Owner[t] \in Users /\ n \in Nat
      /\ req[t].worker \in Workers \cup {"none"} /\ nextId \in Nat
  BY MatchmakingAssumption DEF QInv, TypeOK, ReqType, Publish, At, Joins
<1>3. Moved(t, "idle", "none", 0)
  BY <1>2, ReturnMoves DEF Publish
<1>4. \A x \in Tabs : /\ eye[x] \in Streams /\ eye'[x] \in Streams
                      /\ eye'[x].pc = eye[x].pc /\ eye'[x].sub = eye[x].sub
                      /\ eye'[x].worker = eye[x].worker /\ eye'[x].said = eye[x].said
                      /\ eye'[x].game = eye[x].game
                      /\ eye'[x].inbox = IF Told(x) THEN Put(eye[x].inbox, n) ELSE eye[x].inbox
                      /\ Told(x) => eye'[x].inbox # << >>
  <2> SUFFICES ASSUME NEW x \in Tabs
               PROVE  /\ eye[x] \in Streams /\ eye'[x] \in Streams
                      /\ eye'[x].pc = eye[x].pc /\ eye'[x].sub = eye[x].sub
                      /\ eye'[x].worker = eye[x].worker /\ eye'[x].said = eye[x].said
                      /\ eye'[x].game = eye[x].game
                      /\ eye'[x].inbox = IF Told(x) THEN Put(eye[x].inbox, n) ELSE eye[x].inbox
                      /\ Told(x) => eye'[x].inbox # << >>
    OBVIOUS
  <2>1. eye[x] \in Streams
    BY DEF QInv, TypeOK
  <2> HIDE DEF Told, n
  <2>2. CASE Told(x)
    <3>1. eye'[x] = [eye[x] EXCEPT !.inbox = Put(@, n)]
      BY <1>1, <2>2
    <3>2. eye[x].inbox \in Seq(Nat)
      BY <2>1 DEF Streams
    <3>3. Put(eye[x].inbox, n) \in Seq(Nat) /\ Put(eye[x].inbox, n) # << >>
      BY <1>2, <3>2, PutType
    <3>4. QED
      BY <1>2, <2>1, <2>2, <3>1, <3>3 DEF Streams
  <2>3. CASE ~ Told(x)
    <3>1. eye'[x] = eye[x]
      BY <1>1, <2>3
    <3>2. QED
      BY <2>1, <2>3, <3>1
  <2>4. QED
    BY <2>2, <2>3
<1>5. \A g \in games : g.id = n => /\ g.creator = req[t].opponent /\ Seated(g) /\ g.mode = "online"
  BY <1>2 DEF QInv, SetUp, HasGame
<1>6. n < nextId
  BY <1>2 DEF QInv, SetUp, HasGame
<1> HIDE DEF n
<1>7. Numbered' /\ Paired'
  BY <1>1, <1>3 DEF QInv, Numbered, Paired, Moved
<1>8. SetUp'
  <2>1. \A x \in Tabs : Ahead(x)
    BY <1>3 DEF Ahead, Moved, HasGame
  <2>2. nextId' \in Nat /\ nextId <= nextId'
    BY <1>1, <1>2
  <2>3. QED
    BY <1>1, <2>1, <2>2, SetUpKept DEF QInv
<1>9. Announced'
  <2>1. \A g \in games : Seated(g)' = Seated(g)
    BY <1>1 DEF Seated
  <2>2. \A a \in announced : a[1] < nextId /\ \A g \in games : g.id = a[1] => g.mode = "online" /\ Seated(g)
    BY DEF QInv, Announced
  <2>3. QED
    BY <1>1, <1>5, <1>6, <2>1, <2>2 DEF Announced
<1>10. Subscribed'
  <2> SUFFICES ASSUME NEW x \in Tabs, eye'[x].sub, NEW g \in games, g.creator = Owner[x],
                      <<g.id, eye'[x].worker>> \in announced', eye'[x].inbox = << >>
               PROVE  Informed(x, g)'
    BY <1>1 DEF Subscribed
  <2>1. <<g.id, eye[x].worker>> \in announced /\ eye[x].inbox = << >>
    BY <1>1, <1>4, <1>5
  <2>2. Informed(x, g)
    BY <1>4, <2>1 DEF QInv, Subscribed
  <2>3. QED
    BY <1>1, <1>4, <2>2, SeatsGrow DEF Informed
<1>11. TypeOK'
  <2>1. announced' \subseteq Nat \X (Workers \cup {"none"}) /\ seen' \subseteq Nat \X Users
    <3>1. announced \subseteq Nat \X (Workers \cup {"none"}) /\ seen \subseteq Nat \X Users
      BY DEF QInv, TypeOK
    <3>2. QED
      BY <1>1, <1>2, <3>1
  <2>2. eye' \in [Tabs -> Streams]
    <3>1. eye' = [x \in Tabs |-> eye'[x]]
      BY <1>1
    <3>2. QED
      BY <1>4, <3>1
  <2>3. \A x \in Tabs : eye'[x].pc = "listen" => eye'[x].sub
    BY <1>4 DEF QInv, TypeOK
  <2>4. QED
    BY <1>1, <1>3, <2>1, <2>2, <2>3 DEF QInv, TypeOK, Moved
<1>12. Room'
  BY <1>1, <1>3, JoiningKept, RoomKept DEF QInv
<1>13. QED
  BY <1>7, <1>8, <1>9, <1>10, <1>11, <1>12 DEF QInv

(***************************************************************************)
(* stream_matchmaking and queue_status.                                    *)
(***************************************************************************)
\* A step of a stream that writes nothing but its own record and what was seen.
LEMMA StreamKeeps ==
    ASSUME QInv, UNCHANGED <<queue, games, seats, presence, nextId, second, req, announced, crossed, ended>>,
           NEW t \in Tabs, NEW e \in Streams, Look(t, e), e.pc = "listen" => e.sub,
           seen' \subseteq Nat \X Users,
           e.sub => \A g \in games :
               g.creator = Owner[t] /\ <<g.id, e.worker>> \in announced /\ e.inbox = << >> =>
                   /\ e.pc = "game" => e.game = g.id \/ Overtaken(g)
                   /\ e.pc = "listen" /\ e.said = "idle" => g.id \in ended \/ Overtaken(g)
    PROVE  QInv'
<1>1. eye' \in [Tabs -> Streams] /\ eye'[t] = e /\ \A x \in Tabs : x # t => eye'[x] = eye[x]
  BY LookTab DEF QInv, TypeOK
<1>2. TypeOK'
  BY <1>1 DEF QInv, TypeOK
<1>3. Numbered' /\ Paired' /\ SetUp' /\ Announced'
  BY DEF QInv, Numbered, Paired, SetUp, Announced, Seated
<1>4. Subscribed'
  <2>1. \A x, g : x \in Tabs /\ g \in games /\ eye'[x] = eye[x] /\ Informed(x, g) => Informed(x, g)'
    BY SeatsGrow DEF Informed
  <2>2. \A g \in games : Overtaken(g)' = Overtaken(g)
    BY DEF Overtaken, SeatsOf
  <2>3. QED
    BY <1>1, <2>1, <2>2 DEF QInv, Subscribed, Informed
<1>5. Room'
  BY RoomKept DEF QInv, Joining
<1>6. QED
  BY <1>2, <1>3, <1>4, <1>5 DEF QInv

LEMMA WatchStep ==
    ASSUME QInv, NEW t \in Tabs, NEW w \in Workers, NEW sub \in BOOLEAN, Watch(t, w, sub)
    PROVE  QInv'
<1> DEFINE e == [Closed EXCEPT !.pc = "queue", !.worker = w, !.sub = sub]
<1>1. e \in Streams /\ e.pc = "queue"
  <2>1. Closed \in Streams /\ w \in Workers
    BY ClosedType
  <2>2. QED
    BY <2>1 DEF Streams
<1>2. /\ UNCHANGED <<queue, games, seats, presence, nextId, second, req, announced, seen, crossed, ended>>
      /\ Look(t, e)
  BY DEF Watch
<1>3. seen' \subseteq Nat \X Users
  BY <1>2 DEF QInv, TypeOK
<1> HIDE DEF e
<1>4. QED
  BY <1>1, <1>2, <1>3, StreamKeeps

\* An answer other than "idle" is no claim about a match.
LEMMA AnswerKeeps ==
    ASSUME QInv, UNCHANGED <<queue, games, seats, presence, nextId, second, req, announced, seen, crossed, ended>>,
           NEW t \in Tabs, NEW said \in {"queued", "idle"}, Answer(t, said),
           said = "idle" => \A g \in games :
               g.creator = Owner[t] /\ <<g.id, eye[t].worker>> \in announced =>
                   eye[t].inbox # << >> \/ g.id \in ended \/ Overtaken(g)
    PROVE  QInv'
<1>1. seen' \subseteq Nat \X Users /\ eye[t] \in Streams
  BY DEF QInv, TypeOK
<1>2. CASE eye[t].sub
  <2> DEFINE e == [eye[t] EXCEPT !.pc = "listen", !.said = said, !.game = 0]
  <2>1. /\ e \in Streams /\ e.pc = "listen" /\ e.sub /\ e.said = said
        /\ e.worker = eye[t].worker /\ e.inbox = eye[t].inbox
    BY <1>1, <1>2 DEF Streams
  <2>2. Look(t, e)
    BY <1>2 DEF Answer
  <2> HIDE DEF e
  <2>3. QED
    BY <1>1, <2>1, <2>2, StreamKeeps
<1>3. CASE ~ eye[t].sub
  <2>1. Look(t, Closed) /\ ~ Closed.sub /\ Closed.pc # "listen"
    BY <1>3 DEF Answer, Closed
  <2>2. QED
    BY <1>1, <2>1, ClosedType, StreamKeeps
<1>4. QED
  BY <1>1, <1>2, <1>3 DEF Streams

LEMMA ClosedKeeps ==
    ASSUME QInv, UNCHANGED <<queue, games, seats, presence, nextId, second, req, announced, crossed, ended>>,
           NEW t \in Tabs, Look(t, Closed), seen' \subseteq Nat \X Users
    PROVE  QInv'
<1>1. ~ Closed.sub /\ Closed.pc # "listen"
  BY DEF Closed
<1>2. QED
  BY <1>1, ClosedType, StreamKeeps

LEMMA LookInQueueStep ==
    ASSUME QInv, NEW t \in Tabs, LookInQueue(t)
    PROVE  QInv'
<1>1. UNCHANGED <<queue, games, seats, presence, nextId, second, req, announced, seen, crossed, ended>>
  BY DEF LookInQueue
<1>2. CASE Answer(t, "queued")
  BY <1>1, <1>2, AnswerKeeps
<1>3. CASE Look(t, [eye[t] EXCEPT !.pc = "seat"])
  <2> DEFINE e == [eye[t] EXCEPT !.pc = "seat"]
  <2>1. eye[t] \in Streams /\ seen' \subseteq Nat \X Users
    BY <1>1 DEF QInv, TypeOK
  <2>2. e \in Streams /\ e.pc = "seat"
    BY <2>1 DEF Streams
  <2> HIDE DEF e
  <2>3. QED
    BY <1>1, <1>3, <2>1, <2>2, StreamKeeps DEF e
<1>4. QED
  BY <1>2, <1>3 DEF LookInQueue

\* Whoever has been matched has a seat, and the newest seat is in the match
\* or overtakes it.
LEMMA LookAtSeatStep ==
    ASSUME QInv, NEW t \in Tabs, LookAtSeat(t)
    PROVE  QInv'
<1>1. /\ UNCHANGED <<queue, games, seats, presence, nextId, second, req, announced, seen, crossed, ended>>
      /\ seen' \subseteq Nat \X Users /\ eye[t] \in Streams
  BY DEF LookAtSeat, QInv, TypeOK
<1>2. \A g \in games : g.creator = Owner[t] /\ <<g.id, eye[t].worker>> \in announced =>
          \E x \in SeatsOf(Owner[t]) : x.game = g.id
  BY DEF QInv, Announced, Seated, SeatsOf
<1>3. CASE SeatsOf(Owner[t]) = {} /\ Answer(t, "idle")
  BY <1>1, <1>2, <1>3, AnswerKeeps
<1>4. CASE \E s \in Newest(SeatsOf(Owner[t])) : Look(t, [eye[t] EXCEPT !.pc = "game", !.game = s.game])
  <2>1. PICK s \in SeatsOf(Owner[t]) :
            /\ \A y \in SeatsOf(Owner[t]) : y.at <= s.at
            /\ Look(t, [eye[t] EXCEPT !.pc = "game", !.game = s.game])
    BY <1>4 DEF Newest
  <2> DEFINE e == [eye[t] EXCEPT !.pc = "game", !.game = s.game]
  <2>2. s.game \in Nat /\ s.at \in Nat /\ \A y \in SeatsOf(Owner[t]) : y.at \in Nat
    BY DEF SeatsOf, QInv, TypeOK
  <2>3. /\ e \in Streams /\ e.pc = "game" /\ e.game = s.game /\ e.worker = eye[t].worker
        /\ e.inbox = eye[t].inbox
    BY <1>1, <2>2 DEF Streams
  <2>4. Look(t, e)
    BY <2>1
  <2> HIDE DEF e
  <2>5. \A y \in SeatsOf(Owner[t]) : ~(s.at < y.at)
    BY <2>1, <2>2
  <2>6. \A g \in games : g.creator = Owner[t] /\ <<g.id, eye[t].worker>> \in announced =>
            s.game = g.id \/ Overtaken(g)
    BY <1>2, <2>5 DEF Overtaken
  <2>7. QED
    BY <1>1, <2>3, <2>4, <2>6, StreamKeeps
<1>5. QED
  BY <1>3, <1>4 DEF LookAtSeat

LEMMA LookAtGameStep ==
    ASSUME QInv, NEW t \in Tabs, LookAtGame(t)
    PROVE  QInv'
<1>1. /\ UNCHANGED <<queue, games, seats, presence, nextId, second, req, announced, crossed, ended>>
      /\ eye[t].pc = "game" /\ eye[t] \in Streams /\ Owner[t] \in Users
  BY MatchmakingAssumption DEF LookAtGame, QInv, TypeOK
<1>2. CASE Look(t, Closed) /\ seen' = seen \cup {<<eye[t].game, Owner[t]>>}
  <2>1. eye[t].game \in Nat /\ seen \subseteq Nat \X Users
    BY <1>1 DEF QInv, TypeOK, Streams
  <2>2. seen' \subseteq Nat \X Users
    BY <1>1, <1>2, <2>1
  <2>3. QED
    BY <1>1, <1>2, <2>2, ClosedKeeps
<1>3. CASE /\ ~ \E g \in games : g.id = eye[t].game /\ g.mode = "online" /\ Live(g)
           /\ Answer(t, "idle") /\ UNCHANGED seen
  <2>1. CASE eye[t].sub
    <3>1. \A g \in games : g.creator = Owner[t] /\ <<g.id, eye[t].worker>> \in announced =>
              /\ g.mode = "online"
              /\ eye[t].inbox # << >> \/ eye[t].game = g.id \/ Overtaken(g)
      BY <1>1, <2>1 DEF QInv, Announced, Subscribed, Informed
    <3>2. \A g \in games : ~Live(g) => g.id \in ended
      BY DEF QInv, Numbered
    <3>3. QED
      BY <1>1, <1>3, <3>1, <3>2, AnswerKeeps
  <2>2. CASE ~ eye[t].sub
    <3>1. Look(t, Closed) /\ seen' \subseteq Nat \X Users
      BY <1>3, <2>2 DEF Answer, QInv, TypeOK
    <3>2. QED
      BY <1>1, <3>1, ClosedKeeps
  <2>3. QED
    BY <1>1, <2>1, <2>2 DEF Streams
<1>4. QED
  BY <1>2, <1>3 DEF LookAtGame

LEMMA CloseStep ==
    ASSUME QInv, NEW t \in Tabs, Deliver(t) \/ HangUp(t)
    PROVE  QInv'
<1>1. /\ UNCHANGED <<queue, games, seats, presence, nextId, second, req, announced, crossed, ended>>
      /\ Look(t, Closed) /\ eye[t] \in Streams /\ Owner[t] \in Users
  BY MatchmakingAssumption DEF Deliver, HangUp, QInv, TypeOK
<1>2. eye[t].inbox \in Seq(Nat) /\ seen \subseteq Nat \X Users
  BY <1>1 DEF QInv, TypeOK, Streams
<1>3. seen' \subseteq Nat \X Users
  <2>1. CASE Deliver(t)
    <3>1. Head(eye[t].inbox) \in Nat /\ seen' = seen \cup {<<Head(eye[t].inbox), Owner[t]>>}
      BY <1>2, <2>1 DEF Deliver
    <3>2. QED
      BY <1>1, <1>2, <3>1
  <2>2. CASE HangUp(t)
    BY <1>2, <2>2 DEF HangUp
  <2>3. QED
    BY <2>1, <2>2
<1>4. QED
  BY <1>1, <1>3, ClosedKeeps

(***************************************************************************)
(* The environment.                                                        *)
(***************************************************************************)
LEMMA PlayStep ==
    ASSUME QInv, Play
    PROVE  QInv'
<1> DEFINE G == [id : Nat, creator : Users, joiner : Users, mode : {"none", "online"}, status : Statuses]
<1>1. /\ UNCHANGED <<queue, seats, presence, nextId, second, req, eye, announced, seen, crossed>>
      /\ ended \subseteq ended' /\ ended' \subseteq Nat
  BY DEF Play, QInv, TypeOK
<1>2. PICK g0 \in games, s \in Statuses :
          /\ games' = (games \ {g0}) \cup {[g0 EXCEPT !.status = s]}
          /\ ended' = IF s = "over" THEN ended \cup {g0.id} ELSE ended
  BY DEF Play
<1>3. PICK h0 : h0 = [g0 EXCEPT !.status = s]
  OBVIOUS
<1>4. /\ h0 \in G /\ SameGame(g0, h0) /\ h0.mode = g0.mode
      /\ ~Live(h0) => h0.id \in ended'
  BY <1>2, <1>3 DEF QInv, TypeOK, SameGame, Statuses, Live
<1>5. games' \subseteq games \cup {h0}
  BY <1>2, <1>3
<1>6. \A g : /\ Seated(g)' = Seated(g) /\ Overtaken(g)' = Overtaken(g)
             /\ SameGame(g, h0) => (Seated(h0) <=> Seated(g)) /\ (Overtaken(h0) <=> Overtaken(g))
  BY <1>1 DEF Seated, Overtaken, SeatsOf, SameGame
<1>7. Numbered' /\ Paired'
  BY <1>1, <1>4, <1>5 DEF QInv, Numbered, Paired, SameGame, Live
<1>8. SetUp' /\ Announced'
  BY <1>1, <1>4, <1>5, <1>6 DEF QInv, SetUp, Announced, SameGame
<1>9. Subscribed'
  <2> SUFFICES ASSUME NEW x \in Tabs, eye[x].sub, NEW h \in games', h.creator = Owner[x],
                      <<h.id, eye[x].worker>> \in announced, eye[x].inbox = << >>
               PROVE  Informed(x, h)'
    BY <1>1 DEF Subscribed
  <2>1. CASE h \in games
    <3>1. Informed(x, h)
      BY <2>1 DEF QInv, Subscribed
    <3>2. QED
      BY <1>1, <1>6, <3>1 DEF Informed
  <2>2. CASE h = h0
    <3>1. Informed(x, g0)
      BY <1>4, <2>2 DEF QInv, Subscribed, SameGame
    <3>2. QED
      BY <1>1, <1>2, <1>4, <1>6, <2>2, <3>1 DEF Informed, SameGame
  <2>3. QED
    BY <1>5, <2>1, <2>2
<1>10. TypeOK'
  <2>1. games' \subseteq G
    BY <1>4, <1>5 DEF QInv, TypeOK
  <2>2. QED
    BY <1>1, <2>1 DEF QInv, TypeOK
<1>11. Room'
  BY <1>1, RoomKept DEF QInv, Joining
<1>12. QED
  BY <1>7, <1>8, <1>9, <1>10, <1>11 DEF QInv

LEMMA KillStep ==
    ASSUME QInv, NEW w \in Workers, Kill(w)
    PROVE  QInv'
<1>1. UNCHANGED <<queue, games, seats, presence, nextId, second, announced, seen, crossed, ended>>
  BY DEF Kill
<1>2. /\ req' \in [Tabs -> Joins] /\ eye' \in [Tabs -> Streams]
      /\ \A t \in Tabs : req'[t] = req[t] \/ req'[t] = Quiet
      /\ \A t \in Tabs : eye'[t] = eye[t] \/ eye'[t] = Closed
  BY KillMoves DEF QInv, TypeOK, ReqType, EyeType
<1>3. Quiet.pc = "idle" /\ Closed.pc = "closed" /\ ~ Closed.sub
  BY DEF Quiet, Closed
<1>4. TypeOK'
  BY <1>1, <1>2, <1>3 DEF QInv, TypeOK
<1>5. Numbered' /\ Paired'
  BY <1>1, <1>2, <1>3 DEF QInv, Numbered, Paired
<1>6. SetUp' /\ Announced' /\ Subscribed'
  <2>1. \A x \in Tabs : Ahead(x)
    BY <1>2, <1>3 DEF Ahead, HasGame
  <2>2. nextId \in Nat
    BY DEF QInv, TypeOK
  <2>3. nextId' \in Nat /\ nextId <= nextId' /\ seats \subseteq seats'
    BY <1>1, <2>2
  <2>4. \A x \in Tabs : eye'[x] = eye[x] \/ ~ eye'[x].sub
    BY <1>2, <1>3
  <2>5. QED
    BY <1>1, <2>1, <2>3, <2>4, SetUpKept, AnnouncedKept, SubscribedKept DEF QInv
<1>7. Room'
  <2>1. \A u \in Users : Joining(u)' \subseteq Joining(u)
    BY <1>2, <1>3 DEF Joining
  <2>2. QED
    BY <1>1, <2>1, RoomKept DEF QInv
<1>8. QED
  BY <1>4, <1>5, <1>6, <1>7 DEF QInv

LEMMA InvNext == QInv /\ [Next]_vars => QInv'
<1> SUFFICES ASSUME QInv, [Next]_vars PROVE QInv'
  OBVIOUS
<1>1. CASE \E t \in Tabs, w \in Workers : JoinBegin(t, w) \/ LeaveBegin(t, w)
  BY <1>1, JoinBeginStep, LeaveBeginStep
<1>2. CASE \E t \in Tabs, w \in Workers, sub \in BOOLEAN : Watch(t, w, sub)
  BY <1>2, WatchStep
<1>3. CASE \E t \in Tabs : Handler(t)
  BY <1>3, FindWaitingStep, InsertEntryStep, ClaimStep, PresenceStep, SeatWaiterStep, SeatJoinerStep,
     GoOnlineStep, PublishStep DEF Handler
<1>4. CASE \E t \in Tabs : Watcher(t)
  BY <1>4, LookInQueueStep, LookAtSeatStep, LookAtGameStep, CloseStep DEF Watcher
<1>5. CASE Play
  BY <1>5, PlayStep
<1>6. CASE \E w \in Workers : Kill(w)
  BY <1>6, KillStep
<1>7. CASE UNCHANGED vars
  <2>1. TypeOK' /\ Numbered' /\ Paired'
    BY <1>7 DEF QInv, TypeOK, Numbered, Paired
  <2>2. SetUp' /\ Announced'
    BY <1>7 DEF QInv, SetUp, Announced, Seated
  <2>3. Subscribed'
    BY <1>7, SubscribedKept DEF QInv
  <2>4. Room'
    BY <1>7, RoomKept DEF QInv, Joining
  <2>5. QED
    BY <2>1, <2>2, <2>3, <2>4 DEF QInv
<1>8. QED
  BY <1>1, <1>2, <1>3, <1>4, <1>5, <1>6, <1>7 DEF Next

LEMMA QInvAlways == Spec => []QInv
<1>1. QED
  BY InvInit, InvNext, PTL DEF Spec

(***************************************************************************)
(* The properties the runs check.                                          *)
(***************************************************************************)
\* Types of join_matchmaking_queue, leave_matchmaking_queue and the streams:
\* whoever claims an entry knows the player it belongs to.
THEOREM MatchmakingTypes == Spec => []TypeOK
<1>1. QInv => TypeOK
  BY DEF QInv
<1>2. QED
  BY <1>1, QInvAlways, PTL

\* However many tabs a player joins from at once, join_matchmaking_queue
\* leaves at most one entry for each.
THEOREM MatchmakingQueueBounded == Spec => []QueueBounded
<1>1. QInv => QueueBounded
  <2> SUFFICES ASSUME QInv, NEW u \in Users
               PROVE  Cardinality(Entries(u)) <= Cardinality(TabsOf(u))
    BY DEF QueueBounded, TabsOf
  <2>1. /\ Cardinality(Entries(u)) \in Nat /\ Cardinality(Joining(u)) \in Nat
        /\ Cardinality(TabsOf(u)) \in Nat
    BY CountsAreNat DEF QInv, Room
  <2>2. Cardinality(Entries(u)) + Cardinality(Joining(u)) <= Cardinality(TabsOf(u))
    BY DEF QInv, Room
  <2>3. QED
    BY <2>1, <2>2
<1>2. QED
  BY <1>1, QInvAlways, PTL

\* A stream that subscribes before its snapshot misses no match its worker
\* publishes: something is in its inbox, or the match has been over at some time
\* (an end that a late secret may have undone) or is not the newest seat.
THEOREM MatchmakingNoMissedMatch == Spec => []NoMissedMatch
<1>1. QInv => NoMissedMatch
  <2> SUFFICES ASSUME QInv, NEW t \in Tabs, eye[t].pc = "listen", eye[t].inbox = << >>,
                      eye[t].said = "idle", NEW g \in games, g.creator = Owner[t], g.id \notin ended,
                      <<g.id, eye[t].worker>> \in announced,
                      \A s \in SeatsOf(Owner[t]) \ {x \in seats : x.game = g.id} :
                          \A x \in SeatsOf(Owner[t]) : x.game = g.id => s.at < x.at
               PROVE  FALSE
    BY DEF NoMissedMatch
  <2>1. eye[t].sub /\ eye[t].inbox = << >>
    BY DEF QInv, TypeOK
  <2>2. Overtaken(g)
    BY <2>1 DEF QInv, Subscribed, Informed
  <2>3. QED
    BY <2>2 DEF Overtaken, SeatsOf
<1>2. QED
  BY <1>1, QInvAlways, PTL

(***************************************************************************)
(* What requests that cross can do to the queue.                           *)
(***************************************************************************)
\* Joins that act at the same time have crossed, and so have the join that is
\* about to wait and whoever waits already.
AllCrossed ==
    /\ \A s, t \in Tabs : s # t /\ Acting(s) /\ Acting(t) => {Owner[s], Owner[t]} \in crossed
    /\ \A t \in Tabs, e \in queue :
          At(t, "insert") /\ e.user # Owner[t] => {e.user, Owner[t]} \in crossed

CInv == AllCrossed /\ OnlyCrossedJoinsMiss

\* A step that moves one tab away from the queue, or nobody, and adds nothing.
Leaves(t) ==
    /\ req' \in [Tabs -> Joins] /\ ~Acting(t)'
    /\ \A x \in Tabs : x # t => req'[x] = req[x]

LEMMA LeavesKeeps ==
    ASSUME CInv, queue' = queue, crossed' = crossed, NEW t \in Tabs, Leaves(t)
    PROVE  CInv'
BY DEF CInv, AllCrossed, OnlyCrossedJoinsMiss, Leaves, Acting, At

LEMMA CrossedBegin ==
    ASSUME QInv, CInv, NEW t \in Tabs, NEW l, Moved(t, l, "none", 0), l \in {"find", "leave"},
           queue' = queue \ Entries(Owner[t]), Cross(t)
    PROVE  CInv'
<1>1. Owner[t] \in Users /\ \A x \in Tabs : Owner[x] \in Users
  BY MatchmakingAssumption
<1>2. crossed \subseteq crossed' /\ \A x \in Tabs \ {t} : Acting(x) => {Owner[t], Owner[x]} \in crossed'
  BY DEF Cross
<1>3. /\ \A x \in Tabs \ {t} : req'[x] = req[x]
      /\ req'[t].pc = l
  BY DEF Moved
<1>4. \A r, x \in Tabs : r # x /\ Acting(r)' /\ Acting(x)' => {Owner[r], Owner[x]} \in crossed'
  <2> SUFFICES ASSUME NEW r \in Tabs, NEW x \in Tabs, r # x, Acting(r)', Acting(x)'
               PROVE  {Owner[r], Owner[x]} \in crossed'
    OBVIOUS
  <2>1. CASE r = t
    BY <1>2, <1>3, <2>1 DEF Acting
  <2>2. CASE x = t
    <3>1. {Owner[r], Owner[x]} = {Owner[x], Owner[r]}
      OBVIOUS
    <3>2. QED BY <1>2, <1>3, <2>2, <3>1 DEF Acting
  <2>3. CASE r # t /\ x # t
    BY <1>2, <1>3, <2>3 DEF Acting, CInv, AllCrossed
  <2>4. QED BY <2>1, <2>2, <2>3
<1>5. \A x \in Tabs, e \in queue' :
          At(x, "insert")' /\ e.user # Owner[x] => {e.user, Owner[x]} \in crossed'
  BY <1>2, <1>3 DEF At, CInv, AllCrossed
<1>6. \A e, f \in queue' : e.user # f.user => {e.user, f.user} \in crossed'
  BY <1>2 DEF CInv, OnlyCrossedJoinsMiss
<1>7. ASSUME NEW x \in Tabs, At(x, "claim")', \A e \in queue' : e.id # req'[x].entry
      PROVE  \E u \in Users : {u, Owner[x]} \in crossed'
  <2>1. x # t /\ At(x, "claim") /\ req'[x] = req[x]
    BY <1>3, <1>7 DEF At
  <2>2. {Owner[t], Owner[x]} \in crossed'
    BY <1>2, <2>1 DEF At, Acting
  <2>3. QED BY <1>1, <2>2
<1>8. AllCrossed'
  BY <1>4, <1>5 DEF AllCrossed
<1>9. OnlyCrossedJoinsMiss'
  BY <1>6, <1>7 DEF OnlyCrossedJoinsMiss
<1>10. QED BY <1>8, <1>9 DEF CInv

\* Whoever finds nobody goes to wait with the others' joins crossed, if any.
LEMMA CrossedFind ==
    ASSUME QInv, CInv, NEW t \in Tabs, FindWaiting(t)
    PROVE  CInv'
<1>1. queue' = queue /\ crossed' = crossed /\ Acting(t) /\ req \in [Tabs -> Joins]
  BY DEF FindWaiting, At, Acting, QInv, TypeOK
<1>2. CASE queue \ Entries(Owner[t]) = {} /\ Goto(t, "insert")
  <2>1. /\ \A x \in Tabs : x # t => req'[x] = req[x]
        /\ req'[t].pc = "insert"
    BY <1>1, <1>2, GotoTab DEF Labels
  <2>2. \A e \in queue : e.user = Owner[t]
    BY <1>2 DEF Entries
  <2>3. \A x \in Tabs : Acting(x)' <=> Acting(x)
    BY <1>1, <2>1 DEF Acting
  <2>4. AllCrossed'
    BY <1>1, <2>1, <2>2, <2>3 DEF CInv, AllCrossed, At
  <2>5. OnlyCrossedJoinsMiss'
    BY <1>1, <2>1 DEF CInv, OnlyCrossedJoinsMiss, At
  <2>6. QED BY <2>4, <2>5 DEF CInv
<1>3. CASE \E e \in Oldest(queue \ Entries(Owner[t])) :
              Step(t, [req[t] EXCEPT !.pc = "claim", !.entry = e.id, !.opponent = e.user])
  <2>1. PICK e \in queue : Step(t, [req[t] EXCEPT !.pc = "claim", !.entry = e.id, !.opponent = e.user])
    BY <1>3 DEF Oldest
  <2>2. /\ \A x \in Tabs : x # t => req'[x] = req[x]
        /\ req'[t].pc = "claim" /\ req'[t].entry = e.id
    <3>1. req[t] \in Joins
      BY <1>1
    <3>2. QED BY <1>1, <2>1, <3>1 DEF Step, Joins
  <2>3. \A x \in Tabs : Acting(x)' <=> Acting(x)
    BY <1>1, <2>2 DEF Acting
  <2>4. AllCrossed'
    BY <1>1, <2>2, <2>3 DEF CInv, AllCrossed, At
  <2>5. OnlyCrossedJoinsMiss'
    BY <1>1, <2>2 DEF CInv, OnlyCrossedJoinsMiss, At
  <2>6. QED BY <2>4, <2>5 DEF CInv
<1>4. QED BY <1>2, <1>3 DEF FindWaiting

LEMMA CrossedInsert ==
    ASSUME QInv, CInv, NEW t \in Tabs, InsertEntry(t)
    PROVE  CInv'
<1>1. PICK e : e.user = Owner[t] /\ queue' = queue \cup {e}
  BY DEF InsertEntry
<1>2. crossed' = crossed /\ At(t, "insert") /\ req \in [Tabs -> Joins]
  BY DEF InsertEntry, QInv, TypeOK
<1>3. /\ \A x \in Tabs : x # t => req'[x] = req[x]
      /\ req'[t].pc = "in_queue"
  BY <1>2, GotoTab DEF InsertEntry, Labels
<1>4. \A x \in Tabs : x # t /\ Acting(x) => {Owner[t], Owner[x]} \in crossed
  BY <1>2 DEF CInv, AllCrossed, At, Acting
<1>5. \A f \in queue : f.user # Owner[t] => {f.user, Owner[t]} \in crossed /\ {Owner[t], f.user} \in crossed
  <2> SUFFICES ASSUME NEW f \in queue, f.user # Owner[t]
               PROVE  {f.user, Owner[t]} \in crossed /\ {Owner[t], f.user} \in crossed
    OBVIOUS
  <2>1. {f.user, Owner[t]} = {Owner[t], f.user}
    OBVIOUS
  <2>2. QED BY <1>2, <2>1 DEF CInv, AllCrossed
<1>6. \A r, x \in Tabs : r # x /\ Acting(r)' /\ Acting(x)' => {Owner[r], Owner[x]} \in crossed'
  BY <1>2, <1>3 DEF CInv, AllCrossed, Acting
<1>7. ASSUME NEW x \in Tabs, NEW f \in queue', At(x, "insert")', f.user # Owner[x]
      PROVE  {f.user, Owner[x]} \in crossed'
  <2>1. x # t /\ At(x, "insert")
    BY <1>3, <1>7 DEF At
  <2>2. CASE f \in queue
    BY <1>2, <1>7, <2>1, <2>2 DEF CInv, AllCrossed
  <2>3. CASE f = e
    BY <1>1, <1>2, <1>4, <2>1, <2>3 DEF At, Acting
  <2>4. QED BY <1>1, <2>2, <2>3
<1>8. \A f, h \in queue' : f.user # h.user => {f.user, h.user} \in crossed'
  BY <1>1, <1>2, <1>5 DEF CInv, OnlyCrossedJoinsMiss
<1>9. \A x \in Tabs : At(x, "claim")' /\ (\A f \in queue' : f.id # req'[x].entry) =>
          \E u \in Users : {u, Owner[x]} \in crossed'
  BY <1>1, <1>2, <1>3 DEF CInv, OnlyCrossedJoinsMiss, At
<1>10. AllCrossed'
  BY <1>6, <1>7 DEF AllCrossed
<1>11. QED BY <1>8, <1>9, <1>10 DEF CInv, OnlyCrossedJoinsMiss

\* Two joins that claim the same entry act at the same time.
LEMMA CrossedClaim ==
    ASSUME QInv, CInv, NEW t \in Tabs, Claim(t)
    PROVE  CInv'
<1>1. /\ queue' \subseteq queue /\ crossed' = crossed /\ At(t, "claim") /\ req \in [Tabs -> Joins]
      /\ \A e \in queue \ queue' : e.id = req[t].entry
  BY DEF Claim, QInv, TypeOK
<1>2. /\ \A x \in Tabs : x # t => req'[x] = req[x]
      /\ req'[t].pc = "seat_waiter"
  BY <1>1, GotoTab DEF Claim, Labels
<1>3. AllCrossed'
  BY <1>1, <1>2 DEF CInv, AllCrossed, At, Acting
<1>4. \A e, f \in queue' : e.user # f.user => {e.user, f.user} \in crossed'
  BY <1>1 DEF CInv, OnlyCrossedJoinsMiss
<1>5. ASSUME NEW x \in Tabs, At(x, "claim")' PROVE \E u \in Users : {u, Owner[x]} \in crossed' \/ \E f \in queue' : f.id = req'[x].entry
  <2>1. x # t /\ At(x, "claim")
    BY <1>2, <1>5 DEF At
  <2>2. {Owner[t], Owner[x]} \in crossed'
    BY <1>1, <2>1 DEF CInv, AllCrossed, At, Acting
  <2>3. Owner[t] \in Users
    BY MatchmakingAssumption
  <2>4. QED BY <2>2, <2>3
<1>6. OnlyCrossedJoinsMiss'
  BY <1>4, <1>5 DEF OnlyCrossedJoinsMiss
<1>7. QED BY <1>3, <1>6 DEF CInv

\* The other steps of a request are not about the queue.
LEMMA CrossedElsewhere ==
    ASSUME QInv, CInv, NEW t \in Tabs,
           \/ SetInQueue(t) \/ SeatWaiter(t) \/ SeatJoiner(t) \/ GoOnline(t)
           \/ SetInMatch(t) \/ Publish(t) \/ SetOnline(t)
    PROVE  CInv'
<1>1. queue' = queue /\ crossed' = crossed
  BY DEF SetInQueue, SeatWaiter, SeatJoiner, GoOnline, SetInMatch, Publish, SetOnline
<1>2. req \in [Tabs -> Joins] /\ nextId \in Nat
  BY DEF QInv, TypeOK
<1>3. CASE \E l \in {"mode", "in_match", "publish"} : Goto(t, l)
  <2>1. PICK l \in {"mode", "in_match", "publish"} : Goto(t, l)
    BY <1>3
  <2>2. Leaves(t)
    BY <1>2, <2>1, GotoTab DEF Leaves, Acting, Labels
  <2>3. QED BY <1>1, <2>2, LeavesKeeps
<1>4. CASE Step(t, Quiet)
  <2>1. Leaves(t)
    BY <1>2, <1>4, QuietType, StepTab DEF Leaves, Acting, Quiet
  <2>2. QED BY <1>1, <2>1, LeavesKeeps
<1>5. CASE Step(t, [req[t] EXCEPT !.pc = "seat_joiner", !.game = nextId])
  <2>1. Leaves(t)
    BY <1>2, <1>5, SeatedMoves DEF Leaves, Acting, Moved, ReqType
  <2>2. QED BY <1>1, <2>1, LeavesKeeps
<1>6. QED
  BY <1>3, <1>4, <1>5 DEF SetInQueue, SeatWaiter, SeatJoiner, GoOnline, SetInMatch, Publish, SetOnline

LEMMA CrossedKept ==
    ASSUME QInv, CInv, queue' = queue, crossed' = crossed,
           req' = req \/ \E w \in Workers : Kill(w)
    PROVE  CInv'
<1>1. \A x \in Tabs : req'[x] = req[x] \/ req'[x] = Quiet
  BY KillMoves DEF QInv, TypeOK, ReqType, EyeType
<1>2. \A x \in Tabs : (Acting(x)' => Acting(x)) /\ (At(x, "insert")' => At(x, "insert"))
                      /\ (At(x, "claim")' => At(x, "claim") /\ req'[x] = req[x])
  BY <1>1 DEF Acting, At, Quiet
<1>3. QED
  BY <1>2 DEF CInv, AllCrossed, OnlyCrossedJoinsMiss

LEMMA CrossedNext == QInv /\ CInv /\ [Next]_vars => CInv'
<1> SUFFICES ASSUME QInv, CInv, [Next]_vars PROVE CInv'
  OBVIOUS
<1>1. ASSUME NEW t \in Tabs, NEW w \in Workers, JoinBegin(t, w) PROVE CInv'
  <2>1. Moved(t, "find", "none", 0)
    BY <1>1, JoinMoves DEF JoinBegin, QInv, TypeOK, ReqType, Labels
  <2>2. QED BY <1>1, <2>1, CrossedBegin DEF JoinBegin
<1>2. ASSUME NEW t \in Tabs, NEW w \in Workers, LeaveBegin(t, w) PROVE CInv'
  <2>1. Moved(t, "leave", "none", 0)
    BY <1>2, JoinMoves DEF LeaveBegin, QInv, TypeOK, ReqType, Labels
  <2>2. QED BY <1>2, <2>1, CrossedBegin DEF LeaveBegin
<1>3. CASE \E t \in Tabs, w \in Workers, sub \in BOOLEAN : Watch(t, w, sub)
  BY <1>3, CrossedKept DEF Watch
<1>4. CASE \E t \in Tabs : Handler(t)
  BY <1>4, CrossedFind, CrossedInsert, CrossedClaim, CrossedElsewhere DEF Handler
<1>5. CASE \E t \in Tabs : Watcher(t)
  BY <1>5, CrossedKept DEF Watcher, LookInQueue, LookAtSeat, LookAtGame, Deliver, HangUp
<1>6. CASE Play
  BY <1>6, CrossedKept DEF Play
<1>7. CASE \E w \in Workers : Kill(w)
  BY <1>7, CrossedKept DEF Kill
<1>8. CASE UNCHANGED vars
  BY <1>8, CrossedKept
<1>9. QED BY <1>1, <1>2, <1>3, <1>4, <1>5, <1>6, <1>7, <1>8 DEF Next

\* Joins that do not cross never leave two players waiting side by side, and
\* never claim an entry that is gone (join_matchmaking_queue), however many
\* players, tabs and workers there are.
THEOREM MatchmakingOnlyCrossedJoinsMiss == Spec => []OnlyCrossedJoinsMiss
<1>1. Init => CInv
  BY DEF Init, CInv, AllCrossed, OnlyCrossedJoinsMiss, Acting, At, Quiet
<1>2. CInv => OnlyCrossedJoinsMiss
  BY DEF CInv
<1>3. QED
  BY <1>1, <1>2, CrossedNext, QInvAlways, PTL DEF Spec

\* The entry a join is given belongs to somebody else, so nobody is paired
\* with oneself.
THEOREM MatchmakingNeverAgainstOneself == Spec => []NeverAgainstOneself
<1>1. QInv => NeverAgainstOneself
  BY DEF QInv, Paired, NeverAgainstOneself
<1>2. QED
  BY <1>1, QInvAlways, PTL
=============================================================================
