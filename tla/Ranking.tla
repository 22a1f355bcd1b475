------------------------------- MODULE Ranking -------------------------------
(***************************************************************************)
(* The leaderboard: a table that is rebuilt from the scores by a task      *)
(* after every match, by the global page when it is empty and, for one     *)
(* user, by that user's own page; and the copy of the page in Redis.  A    *)
(* rebuild is a long sequence of round trips, and nothing keeps two of     *)
(* them apart.                                                             *)
(***************************************************************************)
EXTENDS Rewards

CONSTANT
    UserLimit    \* how many users a rebuild reads at most, 1000 in the code

ASSUME RankingAssumption == UserLimit \in Nat

VARIABLES
    rows,        \* db.leaderboards
    nextRow,     \* the id of the next row
    copy,        \* the copy in Redis of the one page that is asked for; {} is none
    build        \* the request or task in each slot

\* History of the behaviour; no action reads it.
VARIABLES
    alone,       \* the last rebuild was of everybody and no other has overlapped it
    listed       \* the accounts that the last rebuild of everybody has read

rankingVars == <<rows, nextRow, copy, build, alone, listed>>

Row  == [id : Nat, user : Users, wins : Nat, rank : Nat]

Build == [pc : {"idle", "users", "stats", "clear", "seek", "write", "page", "query", "cache"},
          by : {"task", "me", "global"},
          only : SUBSET Users,          \* allowed_ids; {} is everybody
          todo : SUBSET Users,          \* whose scores, then whose row, come next
          ranked : SUBSET Users,        \* the users of ranking_rows
          wins : [Users -> Nat],        \* stats["wins"] as read
          found : BOOLEAN,              \* the upsert has found a row
          again : BOOLEAN,              \* the global page has been rebuilt
          items : SUBSET Row]           \* the rows as read
NoBuild == [pc |-> "idle", by |-> "task", only |-> {}, todo |-> {}, ranked |-> {},
            wins |-> [u \in Users |-> 0], found |-> FALSE, again |-> FALSE, items |-> {}]

BuildAt(r, label)   == build[r].pc = label
BuildStep(r, q)     == build' = [build EXCEPT ![r] = q]
BuildGoto(r, label) == BuildStep(r, [build[r] EXCEPT !.pc = label])
BuildEnd(r)         == BuildStep(r, NoBuild)
RowsOf(u)           == {w \in rows : w.user = u}

Rebuilding(s) == build[s].pc \in {"stats", "clear", "seek", "write"}

\* Fault: the sort has lost its reverse=True.
BeforeAscending(count, u, v) == count[u] < count[v] \/ (count[u] = count[v] /\ u < v)

\* ranking_rows.sort is stable: users of equal wins keep their order.
Before(count, u, v) == count[u] > count[v] \/ (count[u] = count[v] /\ u < v)
Rank(q, u)          == 1 + Cardinality({v \in q.ranked : Before(q.wins, v, u)})

\* Whose row is written next.
Upcoming(q) == {u \in q.todo : \A v \in q.todo : ~Before(q.wins, v, u)}

RankingInit ==
    /\ rows = {} /\ nextRow = 1 /\ copy = {}
    /\ build = [r \in Slots |-> NoBuild]
    /\ alone = TRUE /\ listed = {}

(***************************************************************************)
(* Who asks for a rebuild.                                                 *)
(***************************************************************************)
\* A Celery worker takes rebuild_leaderboard_task([]) from the broker.
TaskBegin(r) ==
    /\ BuildAt(r, "idle") /\ jobs > 0
    /\ Serve("task")
    /\ jobs' = jobs - 1
    /\ BuildStep(r, [NoBuild EXCEPT !.pc = "users"])
    /\ UNCHANGED <<coins, scores, claim, payHistory, reported, rows, nextRow, copy, alone, listed>>

\* retrieve_my_leaderboard of a user who has no row; with a row it changes nothing.
MeBegin(r) ==
    /\ BuildAt(r, "idle")
    /\ Serve("my_rank")
    /\ \E u \in alive :
          /\ RowsOf(u) = {}
          /\ BuildStep(r, [NoBuild EXCEPT !.pc = "users", !.by = "me", !.only = {u}])
    /\ UNCHANGED <<rewardsVars, rows, nextRow, copy, alone, listed>>

\* list_global_leaderboard: a copy with rows in it is returned as it is, an
\* empty one makes it rebuild.
GlobalBegin(r) ==
    /\ BuildAt(r, "idle")
    /\ copy \subseteq {{}}
    /\ Serve("global")
    /\ BuildStep(r, [NoBuild EXCEPT !.pc = IF copy = {} THEN "query" ELSE "users", !.by = "global"])
    /\ UNCHANGED <<rewardsVars, rows, nextRow, copy, alone, listed>>

\* retrieve_global_leaderboard, without a copy.
QueryRows(r) ==
    /\ BuildAt(r, "query")
    /\ BuildStep(r, [build[r] EXCEPT !.pc = "cache", !.items = rows])
    /\ UNCHANGED <<rewardsVars, rows, nextRow, copy, alone, listed, calls>>

\* Fault: a copy is kept for every reader.
CachePageBeside(r) ==
    /\ BuildAt(r, "cache")
    /\ copy' = copy \cup {build[r].items}
    /\ IF build[r].items = {} /\ ~build[r].again THEN BuildGoto(r, "users") ELSE BuildEnd(r)
    /\ UNCHANGED <<rewardsVars, rows, nextRow, alone, listed, calls>>

CachePage(r) ==
    /\ BuildAt(r, "cache")
    /\ copy' = {build[r].items}
    /\ IF build[r].items = {} /\ ~build[r].again THEN BuildGoto(r, "users") ELSE BuildEnd(r)
    /\ UNCHANGED <<rewardsVars, rows, nextRow, alone, listed, calls>>

\* The page again, after the rebuild: the empty copy, when it is still there.
PageAgain(r) ==
    /\ BuildAt(r, "page")
    /\ IF copy = {} THEN BuildGoto(r, "query") ELSE BuildEnd(r)
    /\ UNCHANGED <<rewardsVars, rows, nextRow, copy, alone, listed, calls>>

\* ttl_seconds = 60.  cache_delete("leaderboard:global") names another key.
ExpirePage ==
    /\ copy # {}
    /\ copy' = {}
    /\ UNCHANGED <<rewardsVars, rows, nextRow, build, alone, listed, calls>>

(***************************************************************************)
(* rebuild_leaderboard.                                                    *)
(***************************************************************************)
\* The scores of the users still to do, or else what follows them.
AfterStats(q) ==
    IF q.todo # {} THEN [q EXCEPT !.pc = "stats"]
    ELSE [q EXCEPT !.pc = IF q.only = {} THEN "clear" ELSE "seek", !.todo = q.ranked]

\* get_users(start=0, stop=1000): the oldest accounts.
Oldest == {u \in alive : Cardinality({v \in alive : v < u}) < UserLimit}

ReadUsers(r) ==
    /\ BuildAt(r, "users")
    /\ LET q   == build[r]
           ids == IF q.only = {} THEN Oldest ELSE Oldest \cap q.only
       IN  /\ BuildStep(r, AfterStats([q EXCEPT !.todo = ids, !.ranked = ids]))
           /\ alone' = (q.only = {} /\ \A s \in Slots : ~Rebuilding(s))
           /\ listed' = IF q.only = {} THEN ids ELSE listed
           /\ reported' = (reported \/ q.only = {})
    /\ UNCHANGED <<coins, scores, jobs, claim, payHistory, rows, nextRow, copy, calls>>

\* retrieve_score_stats_for_user, in the order of get_users.
ReadStats(r) ==
    /\ BuildAt(r, "stats")
    /\ \E u \in build[r].todo :
          /\ \A v \in build[r].todo : u <= v
          /\ BuildStep(r, AfterStats([build[r] EXCEPT !.todo = @ \ {u}, !.wins[u] = counted[u]]))
    /\ UNCHANGED <<rewardsVars, rows, nextRow, copy, alone, listed, calls>>

ClearRows(r) ==
    /\ BuildAt(r, "clear")
    /\ rows' = {}
    /\ BuildGoto(r, "seek")
    /\ UNCHANGED <<rewardsVars, nextRow, copy, alone, listed, calls>>

\* upsert_leaderboard_entry.  Without a unique index an upsert that finds no
\* row inserts one, even if another upsert has done so meanwhile.
SeekRow(r) ==
    /\ BuildAt(r, "seek")
    /\ LET q == build[r] IN
          \/ \E u \in Upcoming(q) :
                BuildStep(r, [q EXCEPT !.pc = "write", !.found = RowsOf(u) # {}])
          \/ q.todo = {} /\ q.by = "global" /\ BuildStep(r, [q EXCEPT !.pc = "page", !.again = TRUE])
          \/ q.todo = {} /\ q.by # "global" /\ BuildEnd(r)
    /\ UNCHANGED <<rewardsVars, rows, nextRow, copy, alone, listed, calls>>

\* Fault: the wins are added to those of the row.
WriteRowSum(r) ==
    /\ BuildAt(r, "write")
    /\ LET q == build[r] IN \E u \in Upcoming(q) :
          /\ IF q.found /\ RowsOf(u) # {}
             THEN rows' = {IF w \in First(RowsOf(u))
                           THEN [w EXCEPT !.wins = @ + q.wins[u], !.rank = Rank(q, u)] ELSE w : w \in rows}
             ELSE rows' = rows \cup {[id |-> nextRow, user |-> u, wins |-> q.wins[u], rank |-> Rank(q, u)]}
          /\ nextRow' = nextRow + 1
          /\ BuildStep(r, [q EXCEPT !.pc = "seek", !.todo = @ \ {u}])
    /\ UNCHANGED <<rewardsVars, copy, alone, listed, calls>>

WriteRow(r) ==
    /\ BuildAt(r, "write")
    /\ LET q == build[r] IN \E u \in Upcoming(q) :
          /\ IF q.found /\ RowsOf(u) # {}
             THEN /\ rows' = {IF w \in First(RowsOf(u))
                              THEN [w EXCEPT !.wins = q.wins[u], !.rank = Rank(q, u)] ELSE w : w \in rows}
                  /\ UNCHANGED nextRow
             ELSE /\ rows' = rows \cup {[id |-> nextRow, user |-> u, wins |-> q.wins[u], rank |-> Rank(q, u)]}
                  /\ nextRow' = nextRow + 1
          /\ BuildStep(r, [q EXCEPT !.pc = "seek", !.todo = @ \ {u}])
    /\ UNCHANGED <<rewardsVars, copy, alone, listed, calls>>

\* The worker is killed; the broker does not deliver the task again.
KillBuild(r) ==
    /\ ~BuildAt(r, "idle")
    /\ Die
    /\ alone' = FALSE
    /\ BuildEnd(r)
    /\ UNCHANGED <<rewardsVars, rows, nextRow, copy, listed>>

RankingStep(r) ==
    \/ TaskBegin(r) \/ MeBegin(r) \/ GlobalBegin(r) \/ QueryRows(r) \/ CachePage(r) \/ PageAgain(r)
    \/ ReadUsers(r) \/ ReadStats(r) \/ ClearRows(r) \/ SeekRow(r) \/ WriteRow(r) \/ KillBuild(r)

RankingNext == ((\E r \in Slots : RankingStep(r)) \/ ExpirePage) /\ UNCHANGED accounts

(***************************************************************************)
(* Properties.                                                             *)
(***************************************************************************)
RankingOK ==
    /\ rows \subseteq Row /\ nextRow \in Nat
    /\ copy \subseteq SUBSET Row /\ Cardinality(copy) <= 1
    /\ build \in [Slots -> Build]
    /\ alone \in BOOLEAN /\ listed \subseteq Users

\* Nobody is shown with wins that are not on record: not in the table, not in
\* the copy of the page, and not in what a rebuild is about to write, however
\* many rebuilds write the same rows from scores they read at different times.
NeverOverstates ==
    \A w \in rows \cup UNION copy : w.wins <= wins[w.user]

\* When the dust has settled, the table is the ranking of the accounts the last
\* rebuild has read, the 1000 oldest of the time: once no win is unannounced, no
\* task waits and none is running, and if the last rebuild was of everybody and
\* undisturbed, each of them has exactly one row, with all wins of its first
\* 500 players, ranked by them and by age among equals.  _complete_game stores
\* the score before it sends the task, so a rebuild never misses the win it
\* was sent for.
Settled ==
    /\ alone /\ reported /\ jobs = 0 /\ rows # {}
    /\ \A r \in Slots : /\ build[r].pc \in {"idle", "page", "query", "cache"}
                        /\ ClaimAt(r, "idle") \/ claim[r].kind # "win"
BoardIsExact ==
    Settled => \A u \in listed :
        /\ Cardinality(RowsOf(u)) = 1
        /\ \A w \in RowsOf(u) :
              /\ w.wins = counted[u]
              /\ \A v \in listed, x \in rows : x.user = v =>
                    (x.rank < w.rank <=> counted[v] > counted[u] \/ (counted[v] = counted[u] /\ v < u))
=============================================================================
