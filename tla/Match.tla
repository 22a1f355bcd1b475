------------------------------- MODULE Match -------------------------------
(***************************************************************************)
(* One game document and everything the request handlers do to it:         *)
(* submit_guess / add_match, submit_join_secret, use_powerup and the       *)
(* stale-game job.  The web workers share nothing but MongoDB, and no      *)
(* handler uses a transaction, so a handler is a sequence of actions, one  *)
(* per database round trip whose place among the others matters; a request *)
(* lives in a slot, which remembers what the handler has read so far.      *)
(*                                                                         *)
(* Two round trips of a handler share an action only when no other handler *)
(* can tell them from adjacent ones; a comment at the action says why.     *)
(* match_events, which nothing reads, and ids that never change are left   *)
(* out.  A definition whose comment starts with "Fault" is a variant of    *)
(* the one after it with a plausible bug; no action uses it.               *)
(***************************************************************************)
EXTENDS Integers, FiniteSets

CONSTANTS
    Slots,       \* concurrent requests (browser tabs, retries, devices)
    Owner,       \* Owner[r]: the seat whose client sends the requests of slot r
    Modes,       \* how the game was created: "bot", "local", "online" or "friend"
    Items,       \* the power-ups in the inventories
    Charges,     \* charges of each power-up at the start
    HasJob,      \* whether the stale-game job runs
    Manners,     \* may clients only post what the session they are shown asks for?
    MaxCalls,    \* bound: handler and job invocations of one behaviour
    MaxCrashes   \* bound: requests killed between two round trips

Seats     == {"creator", "joiner"}
Statuses  == {"waiting", "started", "completed", "expired"}
Modifiers == {"skip_turn", "extra_turn", "shield", "fake_feedback", "ghost_guess", "fog"}
Entries   == {"win", "loss", "match_win", "match_loss"}
Reveals   == {"peek-in", "peek-out", "pin", "lock-in"}
Cosmetics == {"static-screen", "taunt", "mirror", "time-drain"}

\* The modifier a power-up arms, and on whom.
ModifierOf == [i \in {"skip-turn", "fake-feedback", "fog", "extra-turn", "shield", "ghost-guess"} |->
                 CASE i = "skip-turn"     -> "skip_turn"
                   [] i = "fake-feedback" -> "fake_feedback"
                   [] i = "fog"           -> "fog"
                   [] i = "extra-turn"    -> "extra_turn"
                   [] i = "shield"        -> "shield"
                   [] i = "ghost-guess"   -> "ghost_guess"]
Offensive == {"skip-turn", "fake-feedback", "fog"}
SelfArmed == {"extra-turn", "shield", "ghost-guess"}

PowerUps == Offensive \cup SelfArmed \cup Reveals \cup Cosmetics \cup {"undo"}

ASSUME MatchAssumption ==
    /\ IsFiniteSet(Slots) /\ Owner \in [Slots -> Seats]
    /\ Modes \subseteq {"bot", "local", "online", "friend"}
    /\ Items \subseteq PowerUps
    /\ Charges \in Nat
    /\ HasJob \in BOOLEAN /\ Manners \subseteq BOOLEAN
    /\ MaxCalls \in Nat /\ MaxCrashes \in Nat

Opponent(p) == IF p = "creator" THEN "joiner" ELSE "creator"

VARIABLES
    heed,        \* the manners of the clients of this behaviour
    mode,        \* games.mode, fixed when the game is created
    status,      \* games.status
    last,        \* games.last_player_id
    secrets,     \* secrets[p]: documents in db.secrets for the player of seat p
    board,       \* db.matchs: the recorded guesses
    nextId,      \* the next match id; ids grow with the time of insertion
    mods,        \* db.match_modifiers: mods[p][m] documents of type m on seat p
    scores,      \* db.scores and db.notifications: entries written, per seat
    wallet,      \* db.wallets balance of a seat's user
    presence,    \* db.presence status of a seat's user
    inv,         \* db.inventory: charges left, per seat and power-up
    req,         \* the request in each slot
    job,         \* the stale-game job
    calls, crashes

\* History of the behaviour; no action reads it.
VARIABLES
    opener,      \* the seat whose guess was the first one ever recorded
    winners,     \* seats whose winning guess completed the game
    turns,       \* the seat that last took the turn, and how many were taken
    used         \* used[p][i]: effects of power-up i applied for seat p

game    == <<mode, status, last>>
table   == <<secrets, board, nextId>>
rewards == <<scores, wallet, presence>>
stored  == <<game, table, rewards, mods, inv>>
bounds  == <<calls, crashes>>
history == <<opener, winners, turns, used>>
vars    == <<heed, stored, req, job, bounds, history>>

Guess    == [id : Nat, by : Seats, ghost : BOOLEAN]

Labels == {"idle", "admit", "skip", "opening", "score", "complete", "win", "loss",
           "wallet", "credit", "notify_win", "notify_loss", "online", "clear",
           "extra", "turn", "record", "mark_ghost", "feedback",
           "insert", "look", "guard", "set_status", "in_match",
           "effect", "arm", "erase", "charge"}

\* What a handler remembers between two round trips.
Request == [pc      : Labels,
            by      : Seats,
            last    : Seats \cup {"none"},      \* current_game.last_player_id as read by add_match
            fake    : BOOLEAN,                  \* fake_feedback_active
            ghost   : BOOLEAN,                  \* is_ghost
            extra   : BOOLEAN,                  \* has_extra_turn
            started : BOOLEAN,                  \* next_status = started
            id      : Nat,                      \* the guess to mark or to undo
            num     : Nat,                      \* wallet["balance"] as read
            item    : PowerUps \cup {"none"},   \* powerup_id
            items   : [Items -> Nat]]           \* inventory["items"] as read

Idle == [pc |-> "idle", by |-> "creator", last |-> "none", fake |-> FALSE, ghost |-> FALSE,
         extra |-> FALSE, started |-> FALSE, id |-> 0, num |-> 0, item |-> "none",
         items |-> [i \in Items |-> 0]]

\* Seats that belong to a registered account: they have a wallet, an
\* inventory and a presence document.  The bot and the two seats of a
\* pass-and-play game do not.
Member(p) == mode \in {"online", "friend"} \/ (mode = "bot" /\ p = "creator")

\* Seats slot r may act for: its owner's.  submit_guess takes the client's word
\* for the seat in a pass-and-play game and in a game against the bot, where
\* the device of the creator may drive both seats.
Acting(r) == IF mode \in {"online", "friend"} THEN {Owner[r]}
             ELSE {p \in Seats : Owner[r] = "creator"}

At(r, label)   == req[r].pc = label
Step(r, q)     == req' = [req EXCEPT ![r] = q]
Goto(r, label) == Step(r, [req[r] EXCEPT !.pc = label])
Return(r)      == Step(r, Idle)
Begin(r, q)    == /\ At(r, "idle") /\ calls < MaxCalls
                  /\ calls' = calls + 1
                  /\ Step(r, q)

Armed(p, m)   == mods[p][m] > 0
Arm(p, m)     == mods' = [mods EXCEPT ![p][m] = @ + 1]
Consume(p, m) == mods' = [mods EXCEPT ![p][m] = IF @ > 0 THEN @ - 1 ELSE 0]
NoModifiers   == [p \in Seats |-> [m \in Modifiers |-> 0]]
Write(p, e)   == scores' = [scores EXCEPT ![p][e] = @ + 1]
Everyone(s)   == presence' = [p \in Seats |-> IF Member(p) THEN s ELSE presence[p]]

(***************************************************************************)
(* Creation.  A ranked or challenge game waits for the two secrets; the    *)
(* bot's secret, and both of a pass-and-play game, are stored before the   *)
(* game is started.                                                        *)
(***************************************************************************)
Init ==
    /\ heed \in Manners /\ mode \in Modes
    /\ status = IF mode \in {"online", "friend"} THEN "waiting" ELSE "started"
    /\ last = "none"
    /\ secrets = [p \in Seats |-> IF mode = "local" \/ (mode = "bot" /\ p = "joiner") THEN 1 ELSE 0]
    /\ board = {} /\ nextId = 1
    /\ mods = NoModifiers
    /\ scores = [p \in Seats |-> [e \in Entries |-> 0]]
    /\ wallet = [p \in Seats |-> 0]
    /\ presence = [p \in Seats |-> IF ~Member(p) THEN "none"
                                   ELSE IF mode = "friend" THEN "Online" ELSE "In match"]
    /\ inv = [p \in Seats |-> [i \in Items |-> IF Member(p) THEN Charges ELSE 0]]
    /\ req = [r \in Slots |-> Idle]
    /\ job = "idle" /\ calls = 0 /\ crashes = 0
    /\ opener = "none" /\ winners = {} /\ turns = [seat |-> "none", taken |-> 0]
    /\ used = [p \in Seats |-> [i \in Items |-> 0]]

\* can_guess of build_match_session, as the viewer of seat p is shown it.
CanGuess(p) == /\ status = "started" /\ last # p
               /\ board # {} \/ p = "creator"

(***************************************************************************)
(* submit_guess and add_match: who may guess.                              *)
(***************************************************************************)
\* The game lookup of submit_guess only resolves the player; then it reads
\* whether fake feedback is armed.  play_match, the other way to add_match,
\* never looks.
GuessBegin(r) ==
    /\ \E p \in Acting(r) : \E fake \in {FALSE, Armed(p, "fake_feedback")} :
          /\ heed => CanGuess(p) /\ (mode = "bot" => p = "creator")
          /\ Begin(r, [Idle EXCEPT !.pc = "admit", !.by = p, !.fake = fake])
    /\ UNCHANGED <<stored, job, crashes, history>>

\* Fault: the turn check is lost.
AdmitAnyone(r) ==
    /\ At(r, "admit")
    /\ IF status # "started" THEN Return(r)
       ELSE Step(r, [req[r] EXCEPT !.last = last, !.pc = "opening"])
    /\ UNCHANGED <<stored, job, bounds, history>>

\* get_game: the copy read here is the one _record_match works with.
Admit(r) ==
    /\ At(r, "admit")
    /\ IF status # "started" THEN Return(r)
       ELSE Step(r, [req[r] EXCEPT !.last = last,
                                 !.pc   = IF last = req[r].by THEN "skip" ELSE "opening"])
    /\ UNCHANGED <<stored, job, bounds, history>>

\* The player who moved last goes again only by consuming a skip on the opponent.
ConsumeSkip(r) ==
    /\ At(r, "skip")
    /\ LET o == Opponent(req[r].by) IN
          IF Armed(o, "skip_turn") THEN Consume(o, "skip_turn") /\ Goto(r, "opening")
                                   ELSE Return(r) /\ UNCHANGED mods
    /\ UNCHANGED <<game, table, rewards, inv, job, bounds, history>>

\* Fault: nobody looks at the board before the first guess.
OpeningUnchecked(r) ==
    /\ At(r, "opening")
    /\ Goto(r, "score")
    /\ UNCHANGED <<stored, job, bounds, history>>

\* get_latest_match: the creator must take the first turn.
CheckOpening(r) ==
    /\ At(r, "opening")
    /\ IF board = {} /\ req[r].by # "creator" THEN Return(r) ELSE Goto(r, "score")
    /\ UNCHANGED <<stored, job, bounds, history>>

(***************************************************************************)
(* _record_match.                                                          *)
(***************************************************************************)
\* get_secret of the opponent, then the ghost and fog modifiers are consumed.
\* A secret once stored stays, and no handler looks at the two modifiers
\* together, so the three round trips can be taken as one.
Score(r) ==
    /\ At(r, "score")
    /\ LET p == req[r].by IN
          IF secrets[Opponent(p)] = 0
          THEN Return(r) /\ UNCHANGED mods
          ELSE /\ \E win \in BOOLEAN :
                     Step(r, [req[r] EXCEPT !.pc    = IF win THEN "complete" ELSE "extra",
                                            !.ghost = Armed(p, "ghost_guess")])
               /\ mods' = [mods EXCEPT ![p] = [m \in Modifiers |->
                              IF m \in {"ghost_guess", "fog"} /\ @[m] > 0 THEN @[m] - 1 ELSE @[m]]]
    /\ UNCHANGED <<game, table, rewards, inv, job, bounds, history>>

ConsumeExtra(r) ==
    /\ At(r, "extra")
    /\ Step(r, [req[r] EXCEPT !.pc = "turn", !.extra = Armed(req[r].by, "extra_turn")])
    /\ Consume(req[r].by, "extra_turn")
    /\ UNCHANGED <<game, table, rewards, inv, job, bounds, history>>

\* Fault: a single-player game is handed back to the human as the last mover.
NextLastBotToo(q) ==
    IF ~q.extra THEN q.by
    ELSE IF q.last # "none" THEN q.last ELSE last

\* next_last_player_id.  An extra turn writes back the value read by Admit;
\* when that was None, update_game leaves the field alone.
NextLast(q) ==
    IF mode = "bot" THEN Opponent(q.by)
    ELSE IF ~q.extra THEN q.by
    ELSE IF q.last # "none" THEN q.last ELSE last

PassTurn(r) ==
    /\ At(r, "turn")
    /\ last' = NextLast(req[r])
    /\ turns' = IF mode # "bot" /\ ~req[r].extra
                THEN [seat |-> req[r].by, taken |-> turns.taken + 1] ELSE turns
    /\ Goto(r, "record")
    /\ UNCHANGED <<mode, status, table, mods, rewards, inv, job, bounds, opener, winners, used>>

RecordGuess(r) ==
    /\ At(r, "record")
    /\ board' = board \cup {[id |-> nextId, by |-> req[r].by, ghost |-> FALSE]}
    /\ nextId' = nextId + 1
    /\ opener' = IF opener = "none" THEN req[r].by ELSE opener
    /\ Step(r, [req[r] EXCEPT !.pc = IF req[r].ghost THEN "mark_ghost" ELSE "feedback",
                              !.id = nextId])
    /\ UNCHANGED <<game, secrets, mods, rewards, inv, job, bounds, winners, turns, used>>

\* The ghost flag is a second write; the guess may have been undone meanwhile.
MarkGhost(r) ==
    /\ At(r, "mark_ghost")
    /\ board' = {IF g.id = req[r].id THEN [g EXCEPT !.ghost = TRUE] ELSE g : g \in board}
    /\ Goto(r, "feedback")
    /\ UNCHANGED <<game, secrets, nextId, mods, rewards, inv, job, bounds, history>>

\* Back in submit_guess: fake feedback, if it was armed at the start, is consumed
\* now.  A guess undone by then may have been gone when create_match read it
\* back; that request failed there, and flagging its ghost changed nothing.
Gone(r) == \A g \in board : g.id # req[r].id

GuessEnd(r) ==
    /\ At(r, "feedback")
    /\ \/ IF req[r].fake THEN Consume(req[r].by, "fake_feedback") ELSE UNCHANGED mods
       \/ Gone(r) /\ UNCHANGED mods
    /\ Return(r)
    /\ UNCHANGED <<game, table, rewards, inv, job, bounds, history>>

(***************************************************************************)
(* _complete_game, then clear_modifiers_for_game.                          *)
(***************************************************************************)
\* Fault: the status is set without the winner.
CompleteAnonymously(r) ==
    /\ At(r, "complete")
    /\ status' = "completed"
    /\ winners' = winners \cup {req[r].by}
    /\ turns' = [seat |-> req[r].by, taken |-> turns.taken + 1]
    /\ Goto(r, "win")
    /\ UNCHANGED <<mode, last, table, mods, rewards, inv, job, bounds, opener, used>>

Complete(r) ==
    /\ At(r, "complete")
    /\ status' = "completed" /\ last' = req[r].by
    /\ winners' = winners \cup {req[r].by}
    /\ turns' = [seat |-> req[r].by, taken |-> turns.taken + 1]
    /\ Goto(r, "win")
    /\ UNCHANGED <<mode, table, mods, rewards, inv, job, bounds, opener, used>>

\* The four inserts of _complete_game, each a round trip of its own.
WriteScore(r, label, p, entry, next) ==
    /\ At(r, label)
    /\ Write(p, entry)
    /\ Goto(r, next)
    /\ UNCHANGED <<game, table, mods, wallet, presence, inv, job, bounds, history>>

\* Fault: the winner and the loser are passed in the wrong order.
ScoreWinSwapped(r) == WriteScore(r, "win", Opponent(req[r].by), "win", "loss")

ScoreWin(r)   == WriteScore(r, "win", req[r].by, "win", "loss")
ScoreLoss(r)  == WriteScore(r, "loss", Opponent(req[r].by), "loss",
                            IF Member(req[r].by) THEN "wallet"
                            ELSE IF Member(Opponent(req[r].by)) THEN "notify_loss" ELSE "online")
NotifyWin(r)  == WriteScore(r, "notify_win", req[r].by, "match_win",
                            IF Member(Opponent(req[r].by)) THEN "notify_loss" ELSE "online")
NotifyLoss(r) == WriteScore(r, "notify_loss", Opponent(req[r].by), "match_loss", "online")

ReadWallet(r) ==
    /\ At(r, "wallet")
    /\ Step(r, [req[r] EXCEPT !.num = wallet[req[r].by], !.pc = "credit"])
    /\ UNCHANGED <<stored, job, bounds, history>>

CreditWallet(r) ==
    /\ At(r, "credit")
    /\ wallet' = [wallet EXCEPT ![req[r].by] = req[r].num + 40]
    /\ Goto(r, "notify_win")
    /\ UNCHANGED <<game, table, mods, scores, presence, inv, job, bounds, history>>

ResetPresence(r) ==
    /\ At(r, "online")
    /\ Everyone("Online")
    /\ Goto(r, "clear")
    /\ UNCHANGED <<game, table, mods, scores, wallet, inv, job, bounds, history>>

ClearModifiers(r) ==
    /\ At(r, "clear")
    /\ mods' = NoModifiers
    /\ Goto(r, "record")
    /\ UNCHANGED <<game, table, rewards, inv, job, bounds, history>>

(***************************************************************************)
(* submit_join_secret.                                                     *)
(***************************************************************************)
SecretBegin(r) ==
    /\ \E p \in Acting(r) :
          /\ Member(p)
          /\ heed => mode # "bot" /\ secrets[p] = 0
          /\ Begin(r, [Idle EXCEPT !.by = p, !.pc = IF secrets[p] = 0 THEN "insert" ELSE "look"])
    /\ UNCHANGED <<stored, job, crashes, history>>

InsertSecret(r) ==
    /\ At(r, "insert")
    /\ secrets' = [secrets EXCEPT ![req[r].by] = @ + 1]
    /\ Goto(r, "look")
    /\ UNCHANGED <<game, board, nextId, mods, rewards, inv, job, bounds, history>>

\* Fault: one secret is enough.
LookAtEither(r) ==
    /\ At(r, "look")
    /\ Step(r, [req[r] EXCEPT !.started = \E p \in Seats : secrets[p] > 0, !.pc = "guard"])
    /\ UNCHANGED <<stored, job, bounds, history>>

\* The creator's secret, then the joiner's.  The submitter's own is stored by
\* now, so only one of the two reads can go either way.
LookAtSecrets(r) ==
    /\ At(r, "look")
    /\ Step(r, [req[r] EXCEPT !.started = \A p \in Seats : secrets[p] > 0, !.pc = "guard"])
    /\ UNCHANGED <<stored, job, bounds, history>>

\* update_game_by_id reads the game, refuses only an expired one, and writes.
GuardUpdate(r) ==
    /\ At(r, "guard")
    /\ IF status = "expired" THEN Return(r) ELSE Goto(r, "set_status")
    /\ UNCHANGED <<stored, job, bounds, history>>

SetStatus(r) ==
    /\ At(r, "set_status")
    /\ status' = IF req[r].started THEN "started" ELSE "waiting"
    /\ IF req[r].started THEN Goto(r, "in_match") ELSE Return(r)
    /\ UNCHANGED <<mode, last, table, mods, rewards, inv, job, bounds, history>>

SetInMatch(r) ==
    /\ At(r, "in_match")
    /\ Everyone("In match")
    /\ Return(r)
    /\ UNCHANGED <<game, table, mods, scores, wallet, inv, job, bounds, history>>

(***************************************************************************)
(* use_powerup: the whole inventory is read, the effect is applied, and    *)
(* the whole inventory is written back with one charge less.               *)
(***************************************************************************)
\* Fault: the charge is taken before the effect is known to succeed.
PowerChargedFirst(r) ==
    /\ \E p \in Acting(r), i \in Items :
          /\ Member(p) /\ inv[p][i] > 0
          /\ Begin(r, [Idle EXCEPT !.pc = "effect", !.by = p, !.item = i, !.items = inv[p]])
          /\ inv' = [inv EXCEPT ![p][i] = @ - 1]
    /\ UNCHANGED <<game, table, rewards, mods, job, crashes, history>>

PowerBegin(r) ==
    /\ \E p \in Acting(r), i \in Items :
          /\ Member(p) /\ inv[p][i] > 0
          /\ Begin(r, [Idle EXCEPT !.pc = "effect", !.by = p, !.item = i, !.items = inv[p]])
    /\ UNCHANGED <<stored, job, crashes, history>>

Applied(r) == used' = [used EXCEPT ![req[r].by][req[r].item] = @ + 1]

\* peek-in, peek-out, pin, lock-in: a 404 without the opponent's secret.
\* The cosmetic ones only append a match event.
Reveal(r) ==
    /\ At(r, "effect")
    /\ req[r].item \in Reveals \cup Cosmetics
    /\ IF req[r].item \in Reveals /\ secrets[Opponent(req[r].by)] = 0
       THEN Return(r) /\ UNCHANGED used
       ELSE Goto(r, "charge") /\ Applied(r)
    /\ UNCHANGED <<stored, job, bounds, opener, winners, turns>>

\* apply_offensive_modifier: the target's shield is consumed or the modifier added.
StrikeShield(r) ==
    /\ At(r, "effect")
    /\ req[r].item \in Offensive
    /\ LET o == Opponent(req[r].by) IN
          /\ Consume(o, "shield")
          /\ IF Armed(o, "shield") THEN Goto(r, "charge") /\ Applied(r)
                                   ELSE Goto(r, "arm") /\ UNCHANGED used
    /\ UNCHANGED <<game, table, rewards, inv, job, bounds, opener, winners, turns>>

AddModifier(r) ==
    /\ \/ At(r, "arm")
       \/ At(r, "effect") /\ req[r].item \in SelfArmed
    /\ Arm(IF At(r, "arm") THEN Opponent(req[r].by) ELSE req[r].by, ModifierOf[req[r].item])
    /\ Goto(r, "charge") /\ Applied(r)
    /\ UNCHANGED <<game, table, rewards, inv, job, bounds, opener, winners, turns>>

\* _apply_undo finds the viewer's latest guess, then deletes it; the turn stays.
Latest(p) == {g \in board : g.by = p /\ \A h \in board : h.by = p => h.id <= g.id}

\* Fault: the latest guess is looked for on the whole board.
FindUndoOfAnybody(r) ==
    /\ At(r, "effect")
    /\ req[r].item = "undo"
    /\ IF board = {} THEN Return(r)
       ELSE \E g \in board : /\ \A h \in board : h.id <= g.id
                             /\ Step(r, [req[r] EXCEPT !.pc = "erase", !.id = g.id])
    /\ UNCHANGED <<stored, job, bounds, history>>

FindUndo(r) ==
    /\ At(r, "effect")
    /\ req[r].item = "undo"
    /\ IF Latest(req[r].by) = {} THEN Return(r)
       ELSE \E g \in Latest(req[r].by) :
               Step(r, [req[r] EXCEPT !.pc = "erase", !.id = g.id])
    /\ UNCHANGED <<stored, job, bounds, history>>

EraseGuess(r) ==
    /\ At(r, "erase")
    /\ board' = {g \in board : g.id # req[r].id}
    /\ Goto(r, "charge") /\ Applied(r)
    /\ UNCHANGED <<game, secrets, nextId, mods, rewards, inv, job, bounds, opener, winners, turns>>

\* Fault: the count is decremented in place, without looking at it again.
ChargeBlindly(r) ==
    /\ At(r, "charge")
    /\ inv' = [inv EXCEPT ![req[r].by][req[r].item] = @ - 1]
    /\ Return(r)
    /\ UNCHANGED <<game, table, mods, rewards, job, bounds, history>>

ChargeItem(r) ==
    /\ At(r, "charge")
    /\ inv' = [inv EXCEPT ![req[r].by] = [req[r].items EXCEPT ![req[r].item] = @ - 1]]
    /\ Return(r)
    /\ UNCHANGED <<game, table, mods, rewards, job, bounds, history>>

(***************************************************************************)
(* expire_stale_games_job: the games found are marked whatever they have   *)
(* become since.                                                           *)
(***************************************************************************)
JobScan ==
    /\ HasJob /\ job = "idle" /\ calls < MaxCalls
    /\ status \in {"waiting", "started"}
    /\ job' = "reset" /\ calls' = calls + 1
    /\ UNCHANGED <<stored, req, crashes, history>>

JobReset ==
    /\ job = "reset"
    /\ Everyone("Online")
    /\ job' = "mark"
    /\ UNCHANGED <<game, table, mods, scores, wallet, inv, req, bounds, history>>

JobMark ==
    /\ job = "mark"
    /\ status' = "expired" /\ job' = "idle"
    /\ UNCHANGED <<mode, last, table, mods, rewards, inv, req, bounds, history>>

\* A worker is killed (gunicorn --timeout) or the connection to Mongo is lost:
\* what the handler wrote stays, the rest never happens.
Crash(r) ==
    /\ ~At(r, "idle") /\ crashes < MaxCrashes
    /\ crashes' = crashes + 1
    /\ Return(r)
    /\ UNCHANGED <<stored, job, calls, history>>

SlotStep(r) ==
    \/ Admit(r) \/ ConsumeSkip(r) \/ CheckOpening(r) \/ Score(r)
    \/ ConsumeExtra(r) \/ PassTurn(r) \/ RecordGuess(r) \/ MarkGhost(r) \/ GuessEnd(r)
    \/ Complete(r) \/ ScoreWin(r) \/ ScoreLoss(r) \/ ReadWallet(r) \/ CreditWallet(r)
    \/ NotifyWin(r) \/ NotifyLoss(r) \/ ResetPresence(r) \/ ClearModifiers(r)
    \/ InsertSecret(r) \/ LookAtSecrets(r) \/ GuardUpdate(r) \/ SetStatus(r) \/ SetInMatch(r)
    \/ Reveal(r) \/ StrikeShield(r) \/ AddModifier(r) \/ FindUndo(r) \/ EraseGuess(r)
    \/ ChargeItem(r)

Next ==
    /\ \/ \E r \in Slots : \/ GuessBegin(r) \/ SecretBegin(r) \/ PowerBegin(r)
                           \/ SlotStep(r) \/ Crash(r)
       \/ JobScan \/ JobReset \/ JobMark
    /\ UNCHANGED heed

Spec == Init /\ [][Next]_vars

(***************************************************************************)
(* Properties.                                                             *)
(***************************************************************************)
StateOK ==
    /\ mode \in Modes /\ status \in Statuses /\ last \in Seats \cup {"none"}
    /\ secrets \in [Seats -> Nat]
    /\ board \subseteq Guess /\ nextId \in Nat
    /\ mods \in [Seats -> [Modifiers -> Nat]]
    /\ scores \in [Seats -> [Entries -> Nat]]
    /\ wallet \in [Seats -> Nat]
    /\ presence \in [Seats -> {"none", "Online", "In match"}]
    /\ inv \in [Seats -> [Items -> Nat]]
    /\ req \in [Slots -> Request]
    /\ job \in {"idle", "reset", "mark"}
    /\ calls \in Nat /\ crashes \in Nat
    /\ opener \in Seats \cup {"none"} /\ winners \subseteq Seats
    /\ turns \in [seat : Seats \cup {"none"}, taken : Nat]
    /\ used \in [Seats -> [Items -> Nat]]

TypeOK == heed \in Manners /\ StateOK

\* A guess is only ever scored against a stored secret: whatever the order of
\* the secret submissions, once the game is started or completed every seat
\* that can be guessed at has its secret (submit_join_secret starts the game
\* from two separate reads).
SecretsStored == \A p \in Seats : (mode = "bot" => p = "joiner") => secrets[p] > 0
StartedHasSecrets == status \in {"started", "completed"} => SecretsStored

\* The first guess ever recorded is the creator's, whatever races with the
\* get_latest_match check of add_match, and even if the board is emptied by
\* an undo later.
CreatorOpens == opener # "joiner"

\* A loss is never recorded without the opponent's win, nor a match_win or
\* match_loss notification without the score it announces, even if the
\* request dies between two inserts of _complete_game.
LossNeedsWin ==
    \A p \in Seats : /\ scores[p]["loss"] <= scores[Opponent(p)]["win"]
                      /\ scores[p]["match_win"] <= scores[p]["win"]
                      /\ scores[p]["match_loss"] <= scores[p]["loss"]

\* Nobody pays for a power-up that did nothing: the charges missing from an
\* inventory never outnumber the effects applied, although use_powerup writes
\* back a whole inventory it read before the effect, may fail in between, and
\* may race with another use.
NeverChargedForNothing ==
    \A p \in Seats, i \in Items : Member(p) => inv[p][i] + used[p][i] >= Charges

\* The viewers of a completed game are shown last_player_id as its winner
\* (build_match_session): it is a seat whose guess did win, as long as clients
\* post what their session asks for.
CompletedByWinner == heed /\ status = "completed" => last \in winners

\* The board is never soft-locked: once nothing is in flight, a player of a
\* started game is allowed to guess (canGuess of build_match_session), as long
\* as clients post what their session asks for.
Quiet == job = "idle" /\ \A r \in Slots : At(r, "idle")
SomeoneCanGuess ==
    heed /\ Quiet /\ status = "started" =>
        \E p \in Seats : CanGuess(p) /\ (mode = "bot" => p = "creator")

\* Only two things lock a started game for both players: the creator has undone
\* the opening guess, or a request was killed after the turn was passed and
\* before the guess was recorded (_record_match).  No race, no skipped or extra
\* turn and no undo of the joiner does, whatever the clients post.
LockedByUndoOrCrash ==
    Quiet /\ status = "started" /\ last = "creator" /\ board = {} =>
        crashes > 0 \/ used["creator"]["undo"] > 0

\* The turn alternates: a player who took the turn does not take the next one.
TurnsAlternate == [][turns' # turns => turns'.seat # turns.seat]_vars

\* A completed or expired game stays what it is.
EndIsFinal == [][(status \in {"completed", "expired"}) => status' = status]_vars

\* The turn taking seen from outside: strict alternation opened by the creator.
TurnTaking == INSTANCE TurnOrder WITH seat <- turns.seat, taken <- turns.taken
KeepsTurnOrder == TurnTaking!Spec
=============================================================================
