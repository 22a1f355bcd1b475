# A verification development for dead-and-injured-backend

Dead & Injured is a code-breaking game (bulls and cows) for one or two players.
The backend is a FastAPI application on asynchronous MongoDB, served by several
gunicorn workers, with a Celery worker for background jobs. This directory
models it in TLA+, model-checks the models with TLC and proves theorems
about them with TLAPS.

One fact shapes everything here: **no handler holds a lock or a transaction**.
Every `await db...` is one atomic operation on one document, and between two of
them any other request, in the same worker or another one, may run. A handler
is therefore modelled as a sequence of actions, one per database round trip
whose place among the others can be noticed.

## 1. Inventory

| component | source | state | operations | what makes it correct |
|---|---|---|---|---|
| Match engine | `services/live_game_service.py`, `match_service.py`, `match_modifier_service.py`, `game_service.py`, `repositories/game.py`, `match.py` | a game document (status, `last_player_id`, mode), secrets, guesses, modifiers, scores, notifications, wallet, inventory | submit a secret, guess, use a power-up, expire stale games | turn order, an end that stays, no soft lock, guesses only against secrets that exist, rewards once and in order, no charge for nothing |
| Ranked matchmaking | `live_game_service.py:182-267`, `core/matchmaking_events.py`, `api/v1/game.py` | the queue, games and seats, presence, subscribers per worker | join, leave, status, stream | nobody meets himself, the queue stays bounded, a waiting player learns of the match |
| Scoring and practice | `schemas/imports.py`, `schemas/validators.py`, `app_features_service.py:548-595` | a secret per match, puzzle or practice session, the attempts of a session | score a guess, bluff, draw a secret, count attempts | the count of dead and injured is right, a bluff misleads, every session can be won, attempts are counted once |
| Accounts and sessions | `user_service.py`, `repositories/tokens_repo.py`, `security/auth.py` | users, access and refresh tokens, one-time tokens | sign up with rollback, log in, refresh, log out, verify, reset | one account per email and username, a refresh token is used once, no session survives a reset |
| Guests | `guest_service.py` | the guest flag and expiry | provision, upgrade | the upgrade is all or nothing, old tokens are dead after it |
| Google sign-in | `google_oauth_service.py` | one-time states, one-time exchange codes | authorize, callback, exchange | each state and each code is used once |
| JWT keys | `security/encrypting_jwt.py`, `security/tokens.py` | signing keys, a cache per worker | sign, verify, rotate | imported by no module: sessions are documents of the token store |
| Coins and power-ups | `app_features_service.py:86-126`, `478-507`, `match_service.py:26-87` | wallets, inventories, puzzles, attempts | create on first use, pay for a puzzle, pay for a win | no coin from a race, no reward lost by a user who waits, no message ahead of its payment |
| Social | `app_features_service.py:266-421`, `live_game_service.py` | friend requests, friendships, private games, notifications | request, answer, remove, challenge, social page, inbox | friends by consent, one friendship per yes, news that is true, one welcome |
| Leaderboard | `leaderboard_service.py`, `scores_service.py`, `repositories/leaderboard.py`, `core/background_task.py` | ranking rows, a copy in Redis | rebuild everybody or one, read | no row overstates, a rebuild left alone is exact for the accounts and seats it looks at |
| Profile and curriculum | `app_features_service.py:130-265`, `423-546` | inventory and wallet on first use, chapters, completed lessons | profile page, statistics, achievements, curriculum page, complete a lesson | a page put together from five reads is true, the path stays open |
| Profile media | `profile_media_service.py` | objects in the bucket, the key in the profile | upload, replace | no profile names a deleted object |
| Background jobs | `core/background_task.py` | the Celery schedule | expire games, rebuild ranking, send mail | see Match and Leaderboard |
| Email, search | `email_service.py`, `email_templates`, `app_features_service.py` | none | rendering, sending, reads | not modelled |
| HTTP layer, configuration, seeding, deployment | `main.py`, `api/v1`, `schemas`, `core`, `seed.py`, `Dockerfile`, `docker-compose.yml` | none | routing, validation, rate limits | not modelled, except the event stream |

**How they interact.** Matchmaking and friend challenges create the game, the
players and the mode a match starts from. The match engine writes scores,
wallets and notifications when a game ends and then queues a leaderboard
rebuild. The profile page reads what all of them write. Any account may be
removed while requests about it are in flight. Scoring is a pure function that guesses, puzzles and practice
sessions call. Everything else shares only the database. The one piece of
shared memory is the subscriber table of `core/matchmaking_events.py`, and it
is private to a worker process.

**The hard behaviours.** Two requests of one player in flight (tabs, retries);
a value read at the start of a handler and written back at its end; checks
that run before the write they protect; requests killed between two writes
(`gunicorn --timeout 120`); clocks of one second used as an order; a job that
marks whatever its query found; an event that only reaches one process.
`PROJECT.json` lists each under "hazards" with its line.

## 2. The modules

### Match.tla: one game and the handlers on it

| variable | in the code |
|---|---|
| `mode`, `status`, `last` | `games.mode`, `games.status`, `games.last_player_id` |
| `secrets`, `board`, `nextId` | `db.secrets`, `db.matchs`, the order of insertion |
| `mods` | `db.match_modifiers`, how many of each type per seat |
| `scores` | `db.scores` and the win and loss rows of `db.notifications` |
| `wallet`, `presence`, `inv` | balance, presence and inventory of the seat's user |
| `req[r]` | what the handler in slot `r` has read so far, and where it stands |
| `job` | `expire_stale_games_job` |
| `opener`, `winners`, `turns`, `used` | history, for the properties only |

A *slot* is a request that may be in flight; `Owner` says whose client sends
it. Two slots of one owner are two tabs, or a retry.

| handler | actions |
|---|---|
| `submit_guess`, `add_match`, `play_match` | `GuessBegin`, `Admit`, `ConsumeSkip`, `CheckOpening`, then `_record_match` |
| `_record_match` | `Score`, `ConsumeExtra`, `PassTurn`, `RecordGuess`, `MarkGhost`, `GuessEnd` |
| `_complete_game` | `Complete`, `ScoreWin`, `ScoreLoss`, `ReadWallet`, `CreditWallet`, `NotifyWin`, `NotifyLoss`, `ResetPresence`, `ClearModifiers` |
| `submit_join_secret` | `SecretBegin`, `InsertSecret`, `LookAtSecrets`, `GuardUpdate`, `SetStatus`, `SetInMatch` |
| `use_powerup` | `PowerBegin`, then `Reveal`, `StrikeShield` and `AddModifier`, or `FindUndo` and `EraseGuess`, then `ChargeItem` |
| `expire_stale_games_job` | `JobScan`, `JobReset`, `JobMark` |
| a killed worker | `Crash` |

What a guess scores is left to chance (win or not), since no handler looks at
more of it; the numbers are the subject of Scoring. In a pass-and-play game and
in one against the bot `submit_guess` takes the seat from the client, so the
creator's slots may act for both seats there (`Acting`); a client that heeds its
session leaves the bot's seat alone. `create_match` reads the guess back after
the insert, which fails when the guess was undone in between: `GuessEnd` then
leaves the modifiers as they are (`Gone`).

Left out, or simplified: `match_events` (written, never read by these
handlers); `expire_game_if_needed`, which never expires anything because every
creation path passes `is_timed=False`; the two presence writes of a pair,
merged because nothing reads both; ties of `date_created` between guesses of
one second, which are ordered by id here. The owner of a bot game is taken to
be a registered account, with a wallet.

### TurnOrder.tla: what a game promises about turns

The creator takes the first turn and no player takes two in a row. `Match` is
shown to implement it (`KeepsTurnOrder`, checked by `match_play` and proved as
`TurnsAreOrdered`) by the history variable `turns`, for one request in flight
per player and no power-up that touches the turn. Those two restrictions are necessary: see `match_two_tabs` below, and skip and extra
turns are meant to break the alternation.

### MatchView.tla: the session a client polls

`build_match_session` on top of Match: `ReadGame`, `ReadGuesses`, `ReadGhosts`,
`ReadFog` and `ShowSession` are its reads, between which the handlers of Match
go on. `MayGuess` is `canGuess` as computed from those reads, `Blanked` the
guesses whose content the viewer is not shown, `Played` the seats of the viewer's
own client: an invitation is only held against the code while that client rests
(`Resting`). A behaviour makes one poll at most, and the constants say in which modes and with how many calls around it.

### Matchmaking.tla: the ranked queue over several workers

`queue`, `games`, `seats` and `presence` are the collections, `second` is the
clock in `created_at` and `date_created` (documents of one second are not
ordered, so `find_one` with a sort may return any of them), `req[t]` the join or
leave request of a tab, `eye[t]` its stream or status request with the
subscriber's inbox. `join_matchmaking_queue` is `JoinBegin`, `FindWaiting`,
then `InsertEntry` and `SetInQueue` or `Claim`, `SeatWaiter`, `SeatJoiner`,
`GoOnline`, `SetInMatch` and `Publish`. `get_matchmaking_status` is
`LookInQueue`, `LookAtSeat`, `LookAtGame`; the stream adds `Deliver` and
`HangUp`. A stream yields the first event of its inbox and ends, so `Deliver`
takes the head and what has come after it is lost; an inbox takes `Capacity`
events (32 in the code) and `publish` passes over one that is full (`Put`).
`Kill` ends a worker with its requests and its subscribers. `Play`
stands for the match engine, of which only the status of the game matters
here, and only as far as this code tells statuses apart: waiting or started is
`live`, completed or expired is `over`. A game goes from one to the other any
number of times, because `submit_join_secret` writes `started` or `waiting` over
any status (see `match_reopened`); `ended` is history: the games that have
been over. `crossed` is history: the pairs of users of whom a join or leave of one
began while one of the other was in flight (`Cross`).

### Scoring.tla: what a guess is told

`guess_result`, the arithmetic of fake feedback, the status that the answer to
a guess in a match carries, and which secrets and guesses
the three kinds of board accept. The state machine is one guess on any board
with any secret, so a run is an exhaustive comparison over the bounded inputs.

### Accounts.tla: accounts and their sessions

| variable | in the code |
|---|---|
| `users`, `nextUser` | `db.users`, in the order of insertion |
| `kit` | how many of inventory, loadout, wallet and welcome notification a user has |
| `access`, `refresh`, `nextId` | `db.accessToken`, `db.refreshToken`, the order in which ids are given out |
| `verifs`, `resets` | `db.email_verification_tokens`, `db.password_reset_tokens` |
| `states`, `codes` | `db.google_oauth_states`, `db.google_oauth_exchanges` |
| `jar`, `kept` | the two cookies of a browser, and the refresh tokens it may send in a body |
| `req[r]` | what the handler in slot `r` has read so far, and where it stands |
| `closed`, `proven`, `purged`, `cutoff`, `torn`, `contested` | history, for the properties only |

| handler | actions |
|---|---|
| `add_user` | `SignupBegin`, `CheckName`, `CreateUser`, `AddResource`, then a session, `SendVerification`; on an error `UndoUser`, `UndoKit` |
| `create_guest_session` | `GuestBegin`, `CreateUser`, `AddResource`, then a session; on an error `UndoUser`, `UndoKit` |
| `build_authorize_url`, `handle_callback` | `GoogleStart`; `CallbackBegin`, `FindUser`, `GoogleVerify` or `CreateUser` and `AddResource`, then a session, `StoreExchange` |
| `consume_exchange_code` | `ExchangeBegin`, `PickUp`, `Reply` |
| `_issue_session` | `IssueAccess`, `IssueRefresh`, `ReadBack` |
| `authenticate_user` | `LoginBegin`, then a session, `Reply` |
| `refresh_user_tokens_reduce_number_of_logins` | `RefreshBegin`, `MatchSession`, then a session, `DropAccess`, `DropRefresh`, `Reply`; on a mismatch `RejectRefresh`, `DropAccess` |
| `logout_user` | `LogoutBegin`, `DropAccess`, `DropRefresh`, `SkipDelete`, `ClearJar` |
| `request_password_reset`, `confirm_password_reset` | `RequestReset`; `ConfirmBegin`, `SetPassword`, `SpendReset`, then the purge |
| `delete_all_tokens_with_user_id` (the purge) | `PurgeRefresh`, `PurgeAccess` |
| `upgrade_guest_to_user` | `UpgradeBegin`, `CheckUpgrade`, `Convert`, `Reload`, the purge, then a session, `SendVerification`, `Reply` |
| `verify_email`, `resend_email_verification` | `VerifyBegin`, `SetVerified`, `MarkVerified`; `ResendBegin`, `SendVerification` |
| `update_user_by_id` | `RenameBegin`, `CheckRename`, `Rename` |
| `remove_user` | `RemoveBegin`, `RemoveUser`, the purge, `ClearJar` |
| `get_access_tokens` | `AccessAges` |
| an error outside a `try`, a killed worker | `Kill` |

Left out, or simplified: passwords and the age of one-time tokens (a refused
request writes nothing, so only accepted ones are modelled); the avatar; the conversation with Google, which is one step that reports any
address, verified or not; admin tokens, which no route uses. Access tokens
age (`AccessAges`); a refresh token has no age on the server.
A one-time token is assumed to reach the reader of the address it was sent to
and nobody else.

The collection of users has no unique index: `add_user`, `_find_or_create_user`,
`upgrade_guest_to_user` and `update_user_by_id` look an address or a username up
and write it some awaits later. The history variable `contested` holds the
addresses and usernames that two requests for different accounts had looked up,
and not written, at the same time (`Held`, `Contests`); every step of a handler
brings it up to date (`Step`) and none reads it.

### Requests.tla and the feature endpoints

The endpoints of `app_features_service.py`, the leaderboard and the uploads are
modelled one component per module. `Requests` holds what they share: the
accounts that still exist (`alive`; `RemoveAccount` is `remove_user`, after
which everything other collections keep about the account stays), what a
sign-up in progress has still to store (`signup`), the bounds of a behaviour, and the rule that a lookup without a sort returns the oldest
document that fits (`First`). Every component has requests in slots of its own,
any two of which may belong to one user.

| module | variables | handlers and actions |
|---|---|---|
| `Rewards` | `wallets`, `puzzles`, `solved` (`puzzle_attempts`), `wins` (`scoress`) and `counted` (those a query finds), `told` (`notifications` about coins), `jobs` (the broker), `claim[r]` | `_ensure_puzzles`: `SeedBegin`, `SeedPuzzles`; `attempt_puzzle`: `SolveBegin`, `Record`, then `FindWallet`, `OpenWallet`, `Credit`, `Tell`; the end of `_complete_game`: `WinBegin`, `Record`, `FindWallet`, `Credit`, `Tell`, `Enqueue`; `get_wallet`: `LookBegin`, `OpenWallet` |
| `Ranking` | `rows` (`leaderboards`), `copy` (Redis), `build[r]` | `rebuild_leaderboard`: `ReadUsers` (the first 1000), `ReadStats` per user (of his first 500 players), `ClearRows`, `SeekRow` and `WriteRow` per user; begun by `TaskBegin`, `MeBegin` or `GlobalBegin`; the global page: `QueryRows`, `CachePage`, `PageAgain`, `ExpirePage` |
| `Profile` | `kits` (`inventory`), `visit[r]` | `build_profile_page`: `ProfileBegin`, `ReadScores` (of the first 500 players), `FindKit`, `NewKit`, `ReadWallet`, `NewWallet`, `ReadRow`, `Show`; the inventory alone: `InventoryBegin` and the two kit steps |
| `Social` | `requests`, `friendships`, `games` (challenges), `inbox`, `ask[r]` | `send_friend_request`: `AskFriendBegin`, `CheckPending`, `InsertRequest`, `TellFriend`; `respond_to_friend_request`: `RespondBegin`, `AnswerRequest`, `Befriend`, `TellFriend`; `RemoveFriend`; `build_social_page`: `SocialPageBegin`, `ReadFriend`, `ShowFriends`; `create_friend_challenge`: `ChallengeBegin`, `SeatCreator`, `SeatJoiner`, `SetMode`, `TellChallenged`; `PlayPrivateGame` for what Match does to the game's status; the inbox: `InboxBegin`, `Welcome`, `MarkRead` |
| `ProfileMedia` | `bucket`, `media`, `upload[r]` | `UploadBegin`, `PutObject`, `PointProfile`, `DeleteOld`, each call to the bucket with its failure |
| `Learning` | `sessions`, `curricula`, `progress`, `study[r]` | `OpenSession`; `guess_practice_session`: `PracticeBegin`, `WriteAttempts`, `AnswerGuess`; `build_curriculum_page`: `CurriculumBegin`, `SeedCurriculum`, `ReadProgress`, `ShowPage`; `CompleteLesson` |
| `Signup` | `signup`, and those of Profile and Social | the inserts of `add_user` and of a new guest: `CreateUser`, `GiveKit`, `GiveWallet`, `Greet` |
| `Features` | all of these | one component takes a step at a time |

**Bounds in the queries.** `rebuild_leaderboard` reads `get_users(start=0,
stop=1000)`, so accounts beyond the 1000 oldest have no row; and the scores of a
user are looked up through `get_players(start=0, stop=500)`, so a win in a later
seat is stored and never counted, by the leaderboard or by the profile page. The
constant `UserLimit` stands for the first bound. For the second, a win is on
record in `wins` and, if its seat is among the first, in `counted`; a win of a
later seat is the call `late_win`. The properties of the board and of the page
claim what is true within these bounds: the accounts that the last rebuild has
listed, and the wins of a user's first seats.

**Sign-ups.** An account may come into being in the middle of a behaviour: its
inventory, wallet and welcome are inserted one after the other without asking
whether they are there, and its owner, logged in from another tab, or others who
write to it may be faster. A killed sign-up leaves what it has stored. The
rollback after a database error, tokens and the checks before are in Accounts.

`KillClaim`, `KillBuild`, `KillVisit`, `KillAsk`, `KillUpload`, `KillStudy` and
`KillSignup` end a request between two round trips: a worker killed by its timeout, or an
error outside a `try`. Each module has a few variables of history
(`tangled`, `twice`, `crossed`, `hasty`, `messy`, `doubled`, `cut`): they name the
users or documents for which two requests *did* overlap or one was killed, so that a property can
say exactly when the code is right instead of excluding those behaviours.

`Features` composes the modules over one database. They meet in the scores (a
win is what the leaderboard and the profile page read), the wallets (opened by
the profile page as well), the inbox, the queue of tasks and the accounts.

Left out: wrong puzzle attempts and attempts of visitors (they pay nothing);
the loser's notification; names, pictures and recent matches of the profile
page; the top players of the social page; refusals that write nothing;
presence, which is in Match and Matchmaking. The friend challenge creates the
game that Match starts from; the two modules are not composed, and of the game
only its seats, its mode and whether it is over are kept, which may change back
and forth as in Matchmaking.

### MCMatch.tla, MCMatchView.tla, MCMatchmaking.tla, MCAccounts.tla, MCFeatures.tla

The functions from slots to seats and from tabs to users that the
configurations name, and symmetry: in `match_race` and `sessions` the two tabs
of one player, in `queue` those and the two workers may be exchanged (nothing
in the modules tells them apart). No temporal property is checked under
symmetry. `MCFeatures` has the menus: what one behaviour of Features may call,
and how often.

### The proof modules

`MatchProofs` and `MatchSafety` (Match, MatchView, TurnOrder),
`MatchmakingProofs`, `AccountsProofs`, `ScoringProofs`, and for Features
`FeaturesTypes`, `RewardsProofs` (coins, profile page and leaderboard) and
`UserProofs` (friends and news, uploads, practice and curriculum); see
section 4.

Definitions whose comment starts with "Fault" are variants of the one after
them with a plausible bug. No action uses them; they document what each
property is sensitive to (`PROJECT.json`, "mutants").

## 3. The runs

| run | question | bounds | result |
|---|---|---|---|
| `match_race` | What survives every interleaving? `TypeOK`, `StartedHasSecrets`, `CreatorOpens`, `LossNeedsWin`, `NeverChargedForNothing`, `LockedByUndoOrCrash` | two slots of the creator, one of the joiner, 5 handler calls, 1 crash, undo, skip and extra turn with one charge each | holds, 0.8 million states |
| `match_play` | With one request per player: is the alternation strict, is the winner shown the winner, does nobody get stuck, and is a polled session right? `KeepsTurnOrder`, `CompletedByWinner`, `SomeoneCanGuess`, `InvitationHolds`, `GhostsStayHidden` | 5 calls, or 4 and a poll (online mode), every mode, the stale-game job, shield, fog, ghost guess and reveal, clients that follow `canGuess` and clients that do not | holds, 1.1 million states |
| `match_two_tabs` | Is a repeated guess always refused? `TurnsAlternate` | two slots of the creator, 5 calls | violated |
| `match_reopened` | Does an end stay an end? `EndIsFinal` | 6 calls | violated |
| `match_undo` | Is the board free of soft locks with undo? `SomeoneCanGuess` | 6 calls, undo | violated |
| `queue` | What does the unguarded queue guarantee? `TypeOK`, `QueueBounded`, `NoMissedMatch`, `OnlyCrossedJoinsMiss` | two tabs of one user, one of another, two workers, 3 calls, one stream with room for two events, two seconds, games that end and are opened again | holds, 1.8 million states |
| `queue_live` | Does the waiting player learn of the match? `MatchedIsSeen` | one tab each, two workers, one kill, 2 calls | holds |
| `registry` | Is an account whole or absent, its address proven, its address and username its own? `TypeOK`, `AllOrNothing`, `VerifiedIsOwned`, `OneOwnerEach` | two browsers with one request each, two accounts, an address in two spellings, 3 calls, one database error | holds, 0.2 million states |
| `sessions` | Does a browser keep a session that works, and does a reset leave no older token? `SessionSurvives`, `PurgeIsComplete` | two tabs of one browser, one account, 5 calls, of which one may be a kill | holds, 0.5 million states |
| `scoring` | `ScoredByHand`, `BluffIsABluff` | five digits, codes of four, practice secrets of three, puzzle guesses of zero, three and five | holds |
| `practice` | Can every session be won? `Solvable` | practice secrets of five | violated |
| `features` | What do the feature endpoints keep, side by side? `TypeOK` and the fifteen invariants listed below | two users and a third that may sign up, two requests of each component at a time, twenty-nine menus of two to seven calls, kills and removed accounts included; a leaderboard of two accounts | holds, 0.7 million states |

**What `features` asks.** The invariants are:

* coins: `NeverOverpaid` (no balance beyond what is on record), `PaidInFull`
  (nothing lost by a user whose sign-up stored the wallet and whose requests
  never overlapped and were never cut short), `ToldIsPaid` (no message ahead of its payment);
* leaderboard: `NeverOverstates` (no row and no copy above the record, however
  many rebuilds race), `BoardIsExact` (once everything has settled and the last
  rebuild was of everybody and undisturbed, one row for each account it listed,
  with the wins that queries find, in the right order);
* profile: `PageIsTrue` (five reads at five moments make a page that is neither
  ahead of the record nor behind what queries found when it was asked for),
  `KitGivenOnce` (also against the sign-up's own insert);
* social: `FriendsByConsent`, `OneFriendshipPerYes`, `NewsIsTrue` (a challenge
  that is announced is a game the challenged can open, unless it is over by
  then), `WelcomedOnce` (also against the sign-up's own welcome);
* uploads: `NeverDangling`, `OneObject`;
* learning: `AttemptsAreGuesses` (never more attempts than guesses posted; without
  overlap and kill exactly those answered), `PathStaysOpen`.

**Why the bounds are enough.** A game needs two secrets and then guesses, so
five calls in `match_race` and `match_play` allow both secrets and three more
handlers, which is a whole short game (against the bot one secret is enough)
with a request beyond its end; with a poll four calls leave two handlers to
race with it (heeding clients do nothing that others may not, so the polled
behaviours need only the others). An ended game, an empty board after an undo, and a stale job all
occur within them, and every action of the models fires in a passing run.
Three slots are the smallest number with two requests of one player and one of
the other; with one charge per power-up two uses already race for the same one.
In the queue
three calls are the smallest number with two joins of one user against one of
another, and two seconds suffice to have ties and strict order both. Five
digits are enough for codes of four with a digit missing from each, repeated
digits, and the wrap-around of the bluff. In `registry` two browsers are the
smallest number that can compete for an address; three calls are a sign-up (or
a guest and its upgrade) with a verification or a competitor. In `sessions`
five calls are two logins, or a login and the two steps of a Google sign-in,
with two or three requests that race on the tokens; an account that exists
saves the call that would create it. One browser suffices there, since two
tabs with one cookie jar interfere more than two jars do. `registry` has one
request per browser, so no two handlers of it act for one account at a time
unless a Google callback or a verification brings them together; `sessions`
is the run for that.

In `features` a behaviour calls what one menu of `MCFeatures` lists, each
endpoint as often as the menu says, in any order and by any user. The
components write almost disjoint sets of documents, so calls of unrelated
components add interleavings and nothing else; the menus bring together
those that meet (two rewards and a first look at the wallet, a win with a
rebuild, a page or an inbox, a friend request with its answers, a removal and a
removed account, three uploads of which two overlap, a sign-up with a first page
of each kind or with a friend request to the new account, a challenge with a game
that ends and is opened again) and each has two
or three calls of the kind that races with itself. Two users are enough for a
ranking, for crossed friend requests and for one to be affected by the other;
the third, who signs up, is one more than the leaderboard of the model lists
(`UserLimit` is 2 where the code has 1000), and moves up when another account is
removed.
The proofs of section 4 cover all of these invariants without any bound.

`CHECK_DEADLOCK FALSE` is set throughout because clients may simply stop, and
because the bounds on calls end every behaviour.

**Fairness.** Only `queue_live` assumes any: an event loop runs a started
handler on (weak fairness of `Handler(t)` and `Watcher(t)`), a stream ends by
itself after 120 keep-alives, and the client of a waiting player opens a new
stream or polls again (`Watch`). A killed worker ends its handlers, so the
conclusion is about matches that were announced. The Celery beat process that
would run the stale-game job is started by nothing in `docker-compose.yml`, so
no fairness is assumed for it, nor for clients playing on.

### What the violated runs show

* `match_two_tabs`: two requests of the creator read `last_player_id` before
  either writes it, and both guesses count. `tests/test_match_flow.py` tests
  that a repeated guess is refused, one request after the other.
* `match_reopened`: `submit_join_secret` writes `started` without looking at
  the status; sent again after the end (a retry, a stale page) it reopens a
  completed game. A message in `game_service.py:143` says that nothing can
  happen to it any more.
* `match_undo`: undoing the opening guess empties the board and leaves
  `last_player_id` at the creator. The creator is refused because it is not
  his turn, the joiner because the creator must start.
* `practice`: secrets have up to eight digits, guesses exactly four.

### Other behaviour seen while modelling

These are true of the models and the code, without a document that says
otherwise, so there is no run for them:

* The game is completed, and the turn passed on, before the guess is inserted: a
  session polled in between says how the match ended without the guess that
  ended it. A ghost guess is visible to the opponent until its flag is written
  (`match_service.py:132`), and a ghost guess that is undone between the two
  reads of a poll is shown: the poll has the guess and no longer finds its flag,
  which is why `GhostsAreHidden` is about games without undo.
* A session asked for without a seat is the creator's. A player whose opponent
  will have to skip a turn is not told that he may guess again.
* A guess of the opponent that was admitted before the winning one overwrites
  `last_player_id` afterwards, and the session shows the wrong winner; this
  needs a joiner who guesses before it is his turn, which is why
  `CompletedByWinner` is checked with heedful clients.
* An extra turn on the creator's first guess leaves `last_player_id` empty,
  because `update_game` drops fields that are None.
* A request killed between `PassTurn` and `RecordGuess` of the opening guess
  leaves the same lock as the undo.
* A secret submitted slowly can write `waiting` over `started`.
* Two joiners may claim the same waiting player, since the result of
  `delete_one` is ignored; two players who both see an empty queue wait for
  ever, since only a join looks for partners.
* `In ranked queue` can be written after `In match` and stays.
* The bluff may be an impossible answer, such as three dead and one injured, and
  it does not hide a solution: `submit_guess` reads the game's status back after
  the guess, and answers `completed` next to the misleading counts.
* A match that was over when a stream looked, and is opened again by a late
  secret, is not announced a second time: the stream that said `idle` waits on.
  A stream yields one event only; of two matches it announces the first.
* `zip` stops at the shorter code, so a four-digit guess that starts with a
  three-digit practice secret, or a longer puzzle guess that starts with the
  puzzle's secret, counts as solved.

Of accounts:

* Only an upgrade puts the address in lower case. Sign-up, login and Google
  compare it as it is written, so a guest who upgrades as `Ann@x.org` cannot
  log in as `Ann@x.org`, and two spellings are two accounts.
* Nothing makes addresses or usernames unique in the database: two sign-ups,
  upgrades or renamings at once can give two accounts the same one. Nothing else
  can, which is `OneOwnerEach`.
* An upgrade killed between the update of the user and the purge leaves a full
  account whose guest tokens live on. `guest.md` promises a single
  transactional update without partial state; Accounts has the behaviour, and a
  run of its own for it is the first of the next steps below.
* Two upgrades of one guest at once, from two tabs, can send a verification to
  the first address and have it verify the second. `VerifiedIsOwned` is
  therefore claimed for one upgrade of an account at a time only.
* The rollback of a sign-up or of a guest deletes the user and what he owns,
  but not the tokens issued before the error; a verification sent again while
  the rollback runs stays behind as well.
* Two refreshes with one token at once both succeed and leave two sessions. A
  login or a refresh in flight issues its session after a reset is through;
  `PurgeIsComplete` is about tokens issued before.
* Removing an account leaves inventory, wallet, loadout and notifications.

Of the feature endpoints:

* Two rewards of one user at once: both read the same balance, one is lost.
  Two first requests at once create two wallets or two inventories; a payment
  that opened the second wallet goes where no page looks. So does a first
  request that overlaps the account's own sign-up, which inserts inventory,
  wallet and welcome without asking.
* Each attempt that solves a puzzle is paid again. A winner without a wallet is
  told of 40 coins that nobody paid. Puzzles and curriculum can be inserted
  twice.
* A guess of a practice session that overlaps with another is not counted; one
  killed before its answer is.
  `unlimited_attempts` is never enforced. Lessons of locked chapters can be
  completed, and one lesson makes a chapter done.
* "Recent matches" are guesses, the achievement for collecting power-ups is
  locked again when they are used, the saved loadout is read by nothing.
* `cache_delete("leaderboard:global")` names a key nobody writes. An empty page
  copied before a rebuild is served for a minute after it. A rebuild that read
  the scores earlier can write its rows after a newer one, and two rebuilds can
  leave two rows of one user, since no index forbids it. The page of a user
  without a row writes rank 1 for him. Beyond 1000 accounts the newest are never
  ranked, and wins beyond a user's 500 oldest seats are never counted.
* A challenge killed half-way leaves a game that `get_active_friend_game` does not
  find. Two requests that cross, or two answers to one request at once, make two
  friendships, of which a removal deletes one. The text of a friend request
  names its receiver. Anybody can be challenged, oneself included. The social
  page is a 404 as long as one friend has removed the account, and its top
  players are not sorted.
* Overlapping uploads, a failed call to the bucket, a kill, or an account
  removed meanwhile leave objects behind that no profile names.

## 4. The proofs

Forty-four theorems, about six specifications, for every value of their
constants that the assumption of each admits:

* `Match!Spec` and `MatchView!ViewSpec` under `MatchAssumption`: any finite set
  of slots, each of one seat, any of the four modes, any set of power-ups, any
  number of charges, calls and crashes, with or without the job, with clients
  that heed the session or not;
* `Matchmaking!Spec` under `MatchmakingAssumption`: any users, any finite set of
  tabs, each of one user, any workers, any number of calls, streams, kills and
  seconds, inboxes of any capacity;
* `Accounts!Spec` under `AccountsAssumption`: any slots, browsers, addresses and
  names, any way to fold an address to lower case, any set of endpoints; an
  account that exists from the start needs an address to have;
* `Features!Spec` under `RequestsAssumption` and `RankingAssumption`: any number
  of users, any number of whom exist at the beginning, any bound on how many the
  leaderboard lists, any finite set of slots, any menus of natural numbers, so
  any number of calls, sign-ups and kills;
* `Scoring!Spec` under `ScoringAssumption`: codes of any length over any finite
  set of digits.

Some theorems have a hypothesis of their own. It is always one that the
property needs, and one that other behaviours of the same specification do not
meet: see below.

| theorem | property | inductive invariant |
|---|---|---|
| `MatchProofs!TypeCorrect` | `TypeOK` | `TInv` |
| `MatchProofs!SecretsBeforeGuesses` | `StartedHasSecrets` | `TInv` and `SInv` |
| `MatchProofs!TheCreatorOpens` | `CreatorOpens` | `TInv` and `CInv` |
| `MatchProofs!ChargesAreEarned` | `NeverChargedForNothing` | `TInv` and `NInv` |
| `MatchSafety!ResultsInOrder` | `LossNeedsWin` | `TInv` and `LInv` |
| `MatchSafety!OnlyUndoOrCrashLocks` | `LockedByUndoOrCrash` | `TInv`, `CInv` and `UInv` |
| `MatchSafety!SomeoneAlwaysCan` | `SomeoneCanGuess`, while `crashes = 0` and nothing was undone by the creator | the same, `AInv` and `BInv` |
| `MatchSafety!TurnsAreOrdered` | `KeepsTurnOrder` (refinement of TurnOrder), for `OneAtATime` and `PlainTurns` | `TInv`, `AInv`, `CInv` and `TurnInv` |
| `MatchSafety!TheWinnerIsShown` | `CompletedByWinner`, for the same | `TInv`, `AInv`, `CInv`, `TurnInv` and `WinInv` |
| `MatchSafety!GhostsAreHidden` | `GhostsStayHidden`, for `NoUndo` | `TInv`, `ViewTyped` and `GhostInv` |
| `MatchSafety!InvitationsHold` | `InvitationHolds`, for `NoUndo` and `NoExtraItem` | `TInv`, `AInv`, `Unextended`, `ViewTyped` and `InviteInv` |
| `MatchmakingProofs!MatchmakingTypes`, `...QueueBounded`, `...NoMissedMatch`, `...NeverAgainstOneself` | `TypeOK`, `QueueBounded`, `NoMissedMatch`, `NeverAgainstOneself` (no run: it follows from `Paired`, a part of `QInv`) | `QInv` |
| `MatchmakingProofs!MatchmakingOnlyCrossedJoinsMiss` | `OnlyCrossedJoinsMiss` | `QInv` and `CInv` |
| `AccountsProofs!AccountsTypes` | `TypeOK` | `TInv` |
| `AccountsProofs!AccountsPurgeIsComplete` | `PurgeIsComplete` | `TInv` and `PurgeInv` |
| `AccountsProofs!AccountsAllOrNothing` | `AllOrNothing`, while `kills = 0` | `TInv` and `WholeInv` |
| `AccountsProofs!AccountsGuestKeepsHandle` | `GuestKeepsHandle` (action property, no run) | `TInv` and `GuestInv` |
| `AccountsProofs!AccountsOneOwnerEach` | `OneOwnerEach` | `TInv` and `OwnerInv` |
| `AccountsProofs!AccountsVerifiedIsOwned` | `VerifiedIsOwned`, as long as `OneUpgrade` | `TInv` and `MailInv` |
| `AccountsProofs!AccountsSessionSurvives` | `SessionSurvives` | `TInv` and `SessionInv` |
| `FeaturesTypes!AlwaysTyped`, `TypeCorrect` | `Typed`, `TypeOK` | `Typed` |
| `RewardsProofs!NoCoinFromARace` | `NeverOverpaid` | `Typed` and `PaySafe` |
| `RewardsProofs!MessagesFollowPayments` | `ToldIsPaid` | the same |
| `RewardsProofs!PagesAreTrue` | `PageIsTrue` | `Typed`, `PaySafe` and `VisitsTrue` |
| `RewardsProofs!PowerUpsOnce` | `KitGivenOnce` | `Typed` and `KitSafe` |
| `RewardsProofs!OrderlyUsersArePaid` | `PaidInFull` | `Typed`, `PaySafe` and `FullSafe` |
| `RewardsProofs!BoardsNeverOverstate` | `NeverOverstates` | `Typed` and `BoardSafe` |
| `RewardsProofs!BoardsSettle` | `BoardIsExact` | `Typed` and `ExactInv` |
| `UserProofs!ConsentAlways` | `FriendsByConsent` | `Typed` and `ConsentSafe` |
| `UserProofs!OneWelcome` | `WelcomedOnce` | `Typed` and `WelcomeSafe` |
| `UserProofs!OneYesOneFriendship` | `OneFriendshipPerYes` | `Typed`, `DocsSafe` and `YesSafe` |
| `UserProofs!NewsHolds` | `NewsIsTrue` | `Typed`, `ConsentSafe`, `DocsSafe` and `NewsSafe` |
| `UserProofs!ProfilesResolve` | `NeverDangling` | `Typed` and `MediaSafe` |
| `UserProofs!NothingPilesUp` | `OneObject` | `Typed`, `MediaSafe` and `MediaTidy` |
| `UserProofs!SessionsCount`, `NoChapterCloses` | `AttemptsAreGuesses`, `PathStaysOpen` | `Typed` and `LearningSafe` |
| `ScoringProofs!BluffsMislead` | `BluffIsABluff` | `BluffInv` |
| `ScoringProofs!AlwaysScoredByHand` | `ScoredByHand` | `ScoreInv` |
| `ScoringProofs!SolvedIsFound` | a guess solves a board if and only if it begins with the secret | `FoundInv` |
| `ScoringProofs!OtherBoardsCanBeWon` | `Solvable`, for a match and for puzzles whose secret has a length that guesses may have | `WonInv` |

**Why the hypotheses are needed.**

* `OneAtATime`: two requests of one player both pass the check of the turn
  (`match_two_tabs` has the behaviour). `PlainTurns`: skip and extra turns are
  meant to break the alternation, and an extra turn on the first guess leaves no
  last mover.
* `crashes = 0` and no undo by the creator in `SomeoneAlwaysCan`: either leaves
  an empty board with the turn at the joiner (`match_undo` has the behaviour).
  `OnlyUndoOrCrashLocks` has no such hypothesis: it says that nothing else does.
* `NoUndo` in the two theorems of the poll: a guess that is erased between the
  read of the guesses and the read of the flags loses its flag, and an erased
  opening closes the board again. `NoExtraItem`: with an extra turn the opponent
  keeps the turn that the poll saw him give away.
* `kills = 0` in `AccountsAllOrNothing`: a killed sign-up is rolled back by
  nobody. Database errors, which are rolled back, may be any number.
* `OneUpgrade`: two upgrades of one guest between check and write, see the list
  above. It is a hypothesis on the behaviour (`Spec /\ []OneUpgrade`), not on
  the constants.

**Why each needs more than the property: Match.**

* `TypeOK` is not inductive. `ChargeItem` writes back a copy of the inventory
  that was read before the effect, with one charge less; that the result is
  not negative follows from the check `PowerBegin` made on the same copy.
  `ChargeHeld` says that the copy a handler carries still holds the charge, and
  `TInv` is `TypeOK /\ ChargeHeld`.
* `StartedHasSecrets`: a handler that saw the game started, or saw both
  secrets, writes `started` or `completed` much later. `SInv` adds that every
  such handler is right, then and later, because secrets are never removed.
* `CreatorOpens`: the board may be emptied between the check of a joiner's
  request and its insert. `CInv` adds that a joiner past the check knows the
  opener to be the creator, and that a board with a guess has an opener; the
  opener never changes, so the knowledge does not go stale.
* `NeverChargedForNothing`: the copy of an inventory can be older than any
  number of effects and charges. `NInv` adds that each copy in flight accounts
  for every missing charge by an effect, and that a handler about to charge
  has one effect to spare; effects are never taken back, so an old copy errs
  in the player's favour only.
* `LossNeedsWin`: a loss and the two messages are written by the handler that
  completed the game, after its win. `LInv` counts, for each of the three, the
  handlers that still owe one (`Owed`) together with what is on record; the
  induction is over the finite set of slots.
* `LockedByUndoOrCrash`: unless the creator has undone a guess, a board whose
  opening was recorded keeps a guess of his (`OpeningStays`); unless a
  request was killed, a turn taken before that belongs to a handler that will
  record the opening (`OpeningComes`). An undo takes a guess of its own
  player (`ErasesOwn`), which needs that ids are given out once (`IdsGrow`).
* `SomeoneCanGuess`: against a human this is `UInv`; against the bot the creator
  is the last mover only in a game that is over, and a client that heeds its
  session never starts one again (`BInv`).
* `KeepsTurnOrder`: `TurnInv` says that a handler past its admission may still
  take the turn it was admitted for (`MayTake`): with one request per player
  nobody but the opponent moves meanwhile, and he is past his own check only
  if the turn was his. `AInv` says whose request a slot carries.
* `CompletedByWinner`: `WinInv` says that among clients that heed the session
  only one handler at a time is between its admission and its move, and none
  once the game is completed; so nobody overwrites the winner.
* `GhostsStayHidden`, `InvitationHolds`: a poll runs next to any step of Match.
  `GhostInv` and `InviteInv` say what survives between its reads: a flag is
  never taken back, and while the viewer rests only the opponent moves, which
  never makes it the viewer's own last move.

**Why each needs more than the property: Matchmaking and Accounts.**

* `QueueBounded`: nothing makes the queue unique per user. A join removes its
  user's entries first and inserts one later, so `Room` counts entries and joins
  between the two together, against the number of tabs.
* `NoMissedMatch`: `Subscribed` says, for every stream with an empty inbox and
  every match its worker announced, that the stream is about to read that very
  game or that the match has been over, or was overtaken by a newer seat, when it
  was read. `SetUp` and `Announced` say what has been written by the time of the
  announcement, `Paired` that the entry a joiner holds is another user's.
* `OnlyCrossedJoinsMiss`: a join decides by what it saw, so `CInv` carries what
  it saw to the moment it acts: unless a request of another user has crossed
  it (`AllCrossed`: requests in flight together are on record as crossed, and
  stay so), a join past an empty queue still faces one, and the entry it is about
  to claim is still there.
* `TypeOK` of Accounts: `Basics` and one clause per label (`Stage`), with
  `Handled` (a request holds what its endpoint gave it) and `SoleMaker` (no two
  requests are making one account).
* `PurgeIsComplete`: the purge deletes refresh tokens first and access tokens
  next; `Purging` says that between the two nothing from before its mark has
  come back, which holds because ids only grow.
* `AllOrNothing`: `WholeInv` says of every account that somebody is making it
  or that it is whole, absent or removed by its owner. That the last one to
  write it leaves it whole follows from `Stage`, which counts its documents at
  each label.
* `VerifiedIsOwned`: `MailInv` carries what each request has established about
  the address it is about to write or to confirm (`Address`) and to whom each
  verification was sent (`Vouched`).
* `OneOwnerEach`: a request that has looked a value up writes it awaits later.
  `OwnerInv` adds that what a request holds is meanwhile owned by no other
  account, or contested (`HoldsFree`); an account can only get it from a request
  that held it too, and those two have contested it (`RivalsOnRecord`). A lookup
  that finds one of two owners is why the property itself is needed for it.
* `GuestKeepsHandle`: `Renaming`: a rename that read a guest writes back his
  handle, and nobody becomes a guest in between.
* `SessionSurvives`: a refresh token is in one place only (`Apart`): on its way
  with one request, parked in one exchange code, or with one browser. So what
  one browser drops is no other's, and its own requests drop a pair only after
  its successor is issued or in a request that ends the session (`Session`,
  `Cookies`).

**Why each needs more than the property: Features.**

* `TypeOK` leaves a request's fields free; `Typed` adds what each label
  promises (a request about to pay has a user and a kind that pays; a visit has
  a visitor), without which a step is not even a function update.
* `NeverOverpaid` and `ToldIsPaid`: a payment writes `num + Reward`, with `num`
  read before. `PaySafe` sets aside, for every request that is recorded and has
  not paid, its reward (`Due`), and bounds both the wallets *and the numbers
  read* by what remains; a request that has paid and not told is counted in
  the same way (`Telling`). The counting is over the finite set of slots.
* `PageIsTrue`: `VisitsTrue` says of every label what the visit has read
  so far; records only grow, so an old reading stays a lower bound.
* `PaidInFull`: `FullSafe` says that an untangled user has one request at most,
  that a wallet lacks exactly what this request still owes, that the request
  holds the current balance, and that the first wallet has the smallest id, so
  every lookup finds that one.
* `KitGivenOnce`, `WelcomedOnce`: the only first request of an orderly user
  finds nothing, and it stays so until that request inserts; an account whose
  sign-up is still to insert has nothing yet, and no first request.
* `NeverOverstates`: everything a rebuild holds (`StatsWereTrue`,
  `ItemsWereTrue`) was read from scores, and scores only grow; what is written
  late is too low, never too high.
* `BoardIsExact`: `ExactInv` follows the one rebuild that runs undisturbed. It
  has the current score of everybody it has read, unless a rebuild is still
  awaited (`Awaited`: a task in the queue, a win on its way to announce itself, a
  win that nobody announces, a rebuild that has not read the accounts yet), and
  the rows are those of the users it has written, with its wins and its ranks
  (`Written`). A win that it misses came after it read the score, so that win
  is awaited until another rebuild reads the accounts, which either starts
  over or overlaps and is no longer undisturbed. After its end the rows are
  those of some standing (`Final`), whose ranks are in the order of its wins
  (`RankOrder`).
* `FriendsByConsent`: a request in flight knows its document, and the answer is
  on record before the friendship is made; a page in flight has read friends
  only.
* `OneFriendshipPerYes`: friendships made and being made are counted against
  accepted requests (`YesCounted`); that an answer turns a *pending* request
  into an accepted one, and not an accepted one again, needs that answers to
  one request do not overlap (`AnswersApart`), which needs that ids are unique
  (`DocsSafe`).
* `NewsIsTrue`: challenges in flight have games of their own (`GamesApart`),
  which have their seats and their mode label by label, and all of them by the
  time the challenger is looked up (`GamesReady`), whatever becomes of their
  status;
  messages about to be sent are counted against requests (`RequestsTold`), and
  an answer keeps that count because it changes one request in place.
* `NeverDangling`: keys have one owner, a new key is in nobody's profile, and
  an upload about to delete is the only one whose previous key may go
  (`MediaSafe`). `OneObject` adds that every object of an orderly user is the
  one in the profile, or the one his only upload has just stored or is about to
  delete (`MediaTidy`).
* `AttemptsAreGuesses`: a guess in flight knows how many came before it, unless
  another one of the session is in flight, and one that has written and not yet
  answered is the only one that attempts are ahead of the answers by (`Tally`).
  `PathStaysOpen`: what was shown as
  open follows from lessons on record, and lessons are never forgotten.

**Scoring.** `BluffInv` adds that the secret of a match is a valid code; the
rest is that the dead count is within the length (`DeadBounded`) and that adding
one modulo the length plus one moves it (`FakeWithin`). `ScoredByHand` compares
`guess_result`, which counts digits, with crossing out pairs of positions. The
hits and whatever the second round crosses out make a pairing of equal digits
to which no pair can be added (`RoundsComplete`); such a pairing has, of every
digit, as many pairs as the code that has fewer of it (`PairedPerDigit`), so it
is as large as the set of digits in common (`PairedAsCommon`, by a bijection);
less the hits, it is what the code calls injured (`InjuredAreCrossedOut`), in
whatever order the pairs were taken. That the round comes to an end is
`RoundEnds`. The theorem needs no induction over a code, since nothing in the
reference definition is recursive.

**How the proofs are laid out.** An invariant is shown for the initial states,
then action by action, and the last step of the theorem puts the two together.
In `MatchProofs`, `Parts` splits the type invariant into facts per variable;
frame lemmas (`SFrame`, `CFrame`, `NFrame`) say what a step that touches one
slot has to show, and their companions (`SReturn`, `CGoto`, `NStep` and so on)
specialise them to a handler that returns, moves on, or remembers something.
Most actions are then one line. `MatchSafety` has the control flow of the
handlers as lemmas (`Edge`, `Follows`, `Leaves`, `Starts`: which labels a step
leads to, for one slot at a time) and who writes what (`OthersKeepBoard`,
`OthersKeepTurn` and so on); its invariants follow from those and from the few
actions that write the variables they read. `AccountsProofs` goes by label in the same
way, and `WatchedStep` makes every invariant of Match one of MatchView. In
Features each invariant reads the variables
of one or two components, so a step of the others leaves it alone by a lemma of
its own, and only the turn of the component itself is split into actions.
`FeaturesTypes` also has the lemmas on cardinalities that the counting
invariants share.

**Only model-checked:** `MatchedIsSeen`, which is liveness under fairness and
outside the prover; and what the
four `violation` runs refute, for which the theorems above say under which
conditions the same behaviour is right.

## 5. Not modelled, and what could follow

**Not modelled, and why.**

* Email rendering and SMTP, configuration and seeding: no state that another
  component reads. The facts the models rest on are taken from there (several
  workers, a request timeout, no beat process, no unique index).
* The JWT key store (`security/encrypting_jwt.py`, `security/tokens.py`): no
  module imports it, sessions are documents of the token store (Accounts).
* Search, lesson texts, the puzzle page, recent matches, the board view
  (`list_match_guesses`), hints: read-only views of what the modules have.
* `expire_game_if_needed`: no creation path makes a timed game, so it never
  writes. The CRUD helpers of leaderboard and scores have no caller.
* The loser's notification in Rewards (it is in Match), wrong puzzle attempts,
  and every request that is refused before it writes.

**Next steps, in the order of their worth.**

1. The run of the half-upgraded guest; an abstract book of sessions (issued,
   ended, spent at most once by requests that do not overlap) that the token
   store implements.
2. Composition of Matchmaking and Match: `Play` replaced by the handlers.
