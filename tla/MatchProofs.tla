---------------------------- MODULE MatchProofs ----------------------------
(***************************************************************************)
(* What holds of every game, for every set of request slots, every set of  *)
(* power-ups and every bound: types, and three safety properties.  Each of *)
(* the three has an inductive invariant of the form "the property, and     *)
(* what every handler in flight already knows".                            *)
(***************************************************************************)
EXTENDS Match, TLAPS

USE DEF stored, game, table, rewards, bounds, history

(***************************************************************************)
(* Updates of one slot and of one counter.                                 *)
(***************************************************************************)
LEMMA IdleType == Idle \in Request
BY MatchAssumption DEF Idle, Request, Labels, Seats, PowerUps

ReqOK == req \in [Slots -> Request]

\* A step of slot r leaves the other slots alone.
LEMMA StepSlot ==
    ASSUME ReqOK, NEW r \in Slots, NEW q \in Request, Step(r, q)
    PROVE  ReqOK' /\ req'[r] = q /\ \A s \in Slots : s # r => req'[s] = req[s]
BY DEF ReqOK, Step

LEMMA GotoSlot ==
    ASSUME ReqOK, NEW r \in Slots, NEW l \in Labels, Goto(r, l)
    PROVE  /\ ReqOK' /\ req'[r] = [req[r] EXCEPT !.pc = l]
           /\ \A s \in Slots : s # r => req'[s] = req[s]
<1>1. req[r] \in Request
  BY DEF ReqOK
<1>2. [req[r] EXCEPT !.pc = l] \in Request
  BY <1>1 DEF Request
<1>3. QED
  BY <1>2, StepSlot DEF Goto

LEMMA ReturnSlot ==
    ASSUME ReqOK, NEW r \in Slots, Return(r)
    PROVE  ReqOK' /\ req'[r] = Idle /\ \A s \in Slots : s # r => req'[s] = req[s]
BY IdleType, StepSlot DEF Return

LEMMA CountUp ==
    ASSUME NEW A, NEW B, NEW f \in [A -> [B -> Nat]], NEW a \in A, NEW b \in B
    PROVE  [f EXCEPT ![a][b] = @ + 1] \in [A -> [B -> Nat]]
OBVIOUS

LEMMA ConsumeType ==
    ASSUME mods \in [Seats -> [Modifiers -> Nat]], NEW p \in Seats, NEW m \in Modifiers,
           Consume(p, m)
    PROVE  mods' \in [Seats -> [Modifiers -> Nat]]
BY DEF Consume

LEMMA OpponentSeat == \A p \in Seats : Opponent(p) \in Seats /\ Opponent(p) # p
BY DEF Opponent, Seats

LEMMA ActingSeat == \A r \in Slots : Acting(r) \subseteq Seats
BY MatchAssumption DEF Acting, Seats

LEMMA ParamFields ==
    ASSUME NEW q \in Request, NEW l \in Labels, NEW s \in Seats \cup {"none"}, NEW b \in BOOLEAN,
           NEW n \in Nat
    PROVE  /\ [q EXCEPT !.last = s, !.pc = l] \in Request
           /\ [q EXCEPT !.pc = l, !.ghost = b] \in Request
           /\ [q EXCEPT !.pc = l, !.extra = b] \in Request
           /\ [q EXCEPT !.pc = l, !.id = n] \in Request
           /\ [q EXCEPT !.num = n, !.pc = l] \in Request
           /\ [q EXCEPT !.started = b, !.pc = l] \in Request
BY DEF Request

\* A handler that applies a power-up read an inventory with a charge of it.
ChargeHeld ==
    \A r \in Slots : req[r].pc \in {"effect", "arm", "erase", "charge"} =>
        /\ req[r].item \in Items /\ req[r].items[req[r].item] > 0
        /\ req[r].pc = "arm" => req[r].item \in Offensive
        /\ req[r].pc = "erase" => req[r].item = "undo"

TInv == StateOK /\ ChargeHeld

LEMMA TypeInit == Init => TInv
<1> SUFFICES ASSUME Init PROVE TInv
  OBVIOUS
<1>1. req \in [Slots -> Request] /\ \A r \in Slots : req[r] = Idle
  BY IdleType DEF Init
<1>2. ChargeHeld
  BY <1>1 DEF ChargeHeld, Idle
<1>3. /\ mods \in [Seats -> [Modifiers -> Nat]] /\ scores \in [Seats -> [Entries -> Nat]]
      /\ secrets \in [Seats -> Nat] /\ wallet \in [Seats -> Nat]
      /\ inv \in [Seats -> [Items -> Nat]] /\ used \in [Seats -> [Items -> Nat]]
      /\ presence \in [Seats -> {"none", "Online", "In match"}]
  BY MatchAssumption DEF Init, NoModifiers
<1>4. /\ mode \in Modes /\ status \in Statuses /\ last \in Seats \cup {"none"}
      /\ board \subseteq Guess /\ nextId \in Nat /\ job \in {"idle", "reset", "mark"}
      /\ calls \in Nat /\ crashes \in Nat
      /\ opener \in Seats \cup {"none"} /\ winners \subseteq Seats
      /\ turns \in [seat : Seats \cup {"none"}, taken : Nat]
  BY DEF Init, Statuses
<1>5. QED
  BY <1>1, <1>2, <1>3, <1>4 DEF TInv, StateOK

(***************************************************************************)
(* TInv, one group of variables at a time: a step gives the types of what  *)
(* it writes, and Frame the rest.                                          *)
(***************************************************************************)
GameOK    == mode \in Modes /\ status \in Statuses /\ last \in Seats \cup {"none"}
TableOK   == secrets \in [Seats -> Nat] /\ board \subseteq Guess /\ nextId \in Nat
ModsOK    == mods \in [Seats -> [Modifiers -> Nat]]
RewardsOK == /\ scores \in [Seats -> [Entries -> Nat]] /\ wallet \in [Seats -> Nat]
             /\ presence \in [Seats -> {"none", "Online", "In match"}]
InvOK     == inv \in [Seats -> [Items -> Nat]]
BoundsOK  == calls \in Nat /\ crashes \in Nat
HistoryOK == /\ opener \in Seats \cup {"none"} /\ winners \subseteq Seats
             /\ turns \in [seat : Seats \cup {"none"}, taken : Nat]
             /\ used \in [Seats -> [Items -> Nat]]

Held(r) ==
    req[r].pc \in {"effect", "arm", "erase", "charge"} =>
        /\ req[r].item \in Items /\ req[r].items[req[r].item] > 0
        /\ req[r].pc = "arm" => req[r].item \in Offensive
        /\ req[r].pc = "erase" => req[r].item = "undo"

LEMMA Parts ==
    TInv <=> /\ GameOK /\ TableOK /\ ModsOK /\ RewardsOK /\ InvOK /\ ReqOK
             /\ job \in {"idle", "reset", "mark"} /\ BoundsOK /\ HistoryOK
             /\ \A r \in Slots : Held(r)
BY DEF TInv, StateOK, ChargeHeld, Held, GameOK, TableOK, ModsOK, RewardsOK, InvOK, ReqOK,
       BoundsOK, HistoryOK

LEMMA Frame ==
    ASSUME TInv, NEW r \in Slots,
           GameOK' \/ UNCHANGED game,
           TableOK' \/ UNCHANGED table,
           ModsOK' \/ UNCHANGED mods,
           RewardsOK' \/ UNCHANGED rewards,
           InvOK' \/ UNCHANGED inv,
           UNCHANGED job,
           BoundsOK' \/ UNCHANGED bounds,
           HistoryOK' \/ UNCHANGED history,
           ReqOK', Held(r)', \A s \in Slots : s # r => req'[s] = req[s]
    PROVE  TInv'
<1>1. GameOK' /\ TableOK'
  BY Parts DEF GameOK, TableOK
<1>2. ModsOK' /\ RewardsOK' /\ InvOK'
  BY Parts DEF ModsOK, RewardsOK, InvOK
<1>3. BoundsOK' /\ HistoryOK' /\ job' \in {"idle", "reset", "mark"}
  BY Parts DEF BoundsOK, HistoryOK
<1>4. \A s \in Slots : Held(s)'
  BY Parts DEF Held
<1>5. QED
  BY <1>1, <1>2, <1>3, <1>4, Parts DEF TInv, StateOK, ChargeHeld, Held, GameOK, TableOK, ModsOK,
     RewardsOK, InvOK, ReqOK, BoundsOK, HistoryOK

\* Labels of a handler that holds no charge.
Free == Labels \ {"effect", "arm", "erase", "charge"}

LEMMA GotoFree ==
    ASSUME ReqOK, NEW r \in Slots, NEW l \in Free, Goto(r, l)
    PROVE  ReqOK' /\ Held(r)' /\ \A s \in Slots : s # r => req'[s] = req[s]
<1>1. req[r] \in Request /\ l \in Labels
  BY DEF ReqOK, Free
<1>2. /\ ReqOK' /\ req'[r] = [req[r] EXCEPT !.pc = l]
      /\ \A s \in Slots : s # r => req'[s] = req[s]
  BY <1>1, GotoSlot
<1>3. req'[r].pc = l
  BY <1>1, <1>2 DEF Request
<1>4. QED
  BY <1>2, <1>3 DEF Held, Free

LEMMA StepFree ==
    ASSUME ReqOK, NEW r \in Slots, NEW q \in Request, q.pc \in Free, Step(r, q)
    PROVE  ReqOK' /\ Held(r)' /\ \A s \in Slots : s # r => req'[s] = req[s]
BY StepSlot DEF Held, Free

LEMMA ReturnFree ==
    ASSUME ReqOK, NEW r \in Slots, Return(r)
    PROVE  ReqOK' /\ Held(r)' /\ \A s \in Slots : s # r => req'[s] = req[s]
BY ReturnSlot DEF Held, Idle

LEMMA FreeLabels ==
    /\ {"idle", "admit", "skip", "opening", "score", "complete", "win", "loss", "wallet",
        "credit", "notify_win", "notify_loss", "online", "clear", "extra", "turn", "record",
        "mark_ghost", "feedback", "insert", "look", "guard", "set_status", "in_match"}
          \subseteq Free
    /\ Free \subseteq Labels
BY DEF Free, Labels

(***************************************************************************)
(* submit_guess.                                                           *)
(***************************************************************************)
LEMMA GuessBeginType == ASSUME NEW r \in Slots, TInv, GuessBegin(r) PROVE TInv'
<1>1. PICK p \in Acting(r), fake \in BOOLEAN :
         Begin(r, [Idle EXCEPT !.pc = "admit", !.by = p, !.fake = fake])
  <2>1. \A p \in Acting(r) : Armed(p, "fake_feedback") \in BOOLEAN
    BY DEF Armed
  <2>2. QED
    BY <2>1 DEF GuessBegin
<1> DEFINE q == [Idle EXCEPT !.pc = "admit", !.by = p, !.fake = fake]
<1>2. q \in Request
  BY ActingSeat, IdleType, FreeLabels DEF Request
<1>3. q.pc = "admit" /\ Step(r, q)
  BY <1>1 DEF Idle, Begin
<1> HIDE DEF q
<1>4. ReqOK' /\ Held(r)' /\ \A s \in Slots : s # r => req'[s] = req[s]
  BY <1>2, <1>3, StepFree, FreeLabels, Parts
<1>5. BoundsOK'
  BY <1>1, Parts DEF Begin, BoundsOK, GuessBegin
<1>6. QED
  BY <1>4, <1>5, Frame DEF GuessBegin

LEMMA AdmitType == ASSUME NEW r \in Slots, TInv, Admit(r) PROVE TInv'
<1>1. ReqOK /\ req[r] \in Request /\ last \in Seats \cup {"none"}
  BY Parts DEF ReqOK, GameOK
<1>2. CASE status # "started"
  BY <1>1, <1>2, ReturnFree, Frame DEF Admit
<1>3. CASE status = "started"
  <2> DEFINE l == IF last = req[r].by THEN "skip" ELSE "opening"
             q == [req[r] EXCEPT !.last = last, !.pc = l]
  <2>1. l \in Free
    BY FreeLabels
  <2>2. q \in Request
    BY <1>1, <2>1, ParamFields, FreeLabels
  <2>3. q.pc = l
    BY <1>1 DEF Request
  <2>4. Step(r, q)
    BY <1>3 DEF Admit
  <2> HIDE DEF q, l
  <2>5. ReqOK' /\ Held(r)' /\ \A s \in Slots : s # r => req'[s] = req[s]
    BY <1>1, <2>1, <2>2, <2>3, <2>4, StepFree
  <2>6. QED
    BY <2>5, Frame DEF Admit
<1>4. QED
  BY <1>2, <1>3

LEMMA ConsumeSkipType == ASSUME NEW r \in Slots, TInv, ConsumeSkip(r) PROVE TInv'
<1>1. ReqOK /\ ModsOK /\ Opponent(req[r].by) \in Seats
  BY Parts, OpponentSeat DEF ReqOK, Request
<1>2. ModsOK' \/ UNCHANGED mods
  BY <1>1, ConsumeType DEF ConsumeSkip, ModsOK, Modifiers
<1>3. ReqOK' /\ Held(r)' /\ \A s \in Slots : s # r => req'[s] = req[s]
  BY <1>1, GotoFree, ReturnFree, FreeLabels DEF ConsumeSkip
<1>4. QED
  BY <1>2, <1>3, Frame DEF ConsumeSkip

LEMMA CheckOpeningType == ASSUME NEW r \in Slots, TInv, CheckOpening(r) PROVE TInv'
<1>1. ReqOK' /\ Held(r)' /\ \A s \in Slots : s # r => req'[s] = req[s]
  BY Parts, GotoFree, ReturnFree, FreeLabels DEF CheckOpening
<1>2. QED
  BY <1>1, Frame DEF CheckOpening

LEMMA ScoreType == ASSUME NEW r \in Slots, TInv, Score(r) PROVE TInv'
<1>1. ReqOK /\ ModsOK /\ req[r] \in Request /\ req[r].by \in Seats
  BY Parts DEF ReqOK, Request
<1>2. CASE secrets[Opponent(req[r].by)] = 0
  BY <1>1, <1>2, ReturnFree, Frame DEF Score
<1>3. CASE secrets[Opponent(req[r].by)] # 0
  <2>1. ModsOK'
    <3> DEFINE p == req[r].by
               f == [m \in Modifiers |-> IF m \in {"ghost_guess", "fog"} /\ mods[p][m] > 0
                                         THEN mods[p][m] - 1 ELSE mods[p][m]]
    <3>1. mods' = [mods EXCEPT ![p] = f]
      BY <1>1, <1>3 DEF Score
    <3>2. f \in [Modifiers -> Nat]
      BY <1>1 DEF ModsOK
    <3> HIDE DEF f
    <3>3. QED
      BY <1>1, <3>1, <3>2 DEF ModsOK
  <2>2. PICK win \in BOOLEAN :
           Step(r, [req[r] EXCEPT !.pc    = IF win THEN "complete" ELSE "extra",
                                  !.ghost = Armed(req[r].by, "ghost_guess")])
    BY <1>3 DEF Score
  <2> DEFINE l == IF win THEN "complete" ELSE "extra"
             b == Armed(req[r].by, "ghost_guess")
             q == [req[r] EXCEPT !.pc = l, !.ghost = b]
  <2>3. l \in Free /\ b \in BOOLEAN /\ Step(r, q)
    BY <2>2, FreeLabels DEF Armed
  <2>4. q.pc = l
    BY <1>1 DEF Request
  <2> HIDE DEF l, b
  <2>5. q \in Request
    BY <1>1, <2>3, ParamFields, FreeLabels
  <2> HIDE DEF q
  <2>6. ReqOK' /\ Held(r)' /\ \A s \in Slots : s # r => req'[s] = req[s]
    BY <1>1, <2>3, <2>4, <2>5, StepFree
  <2>7. QED
    BY <2>1, <2>6, Frame DEF Score
<1>4. QED
  BY <1>2, <1>3

LEMMA ConsumeExtraType == ASSUME NEW r \in Slots, TInv, ConsumeExtra(r) PROVE TInv'
<1>1. ReqOK /\ ModsOK /\ req[r] \in Request /\ req[r].by \in Seats
  BY Parts DEF ReqOK, Request
<1>2. ModsOK'
  BY <1>1, ConsumeType DEF ConsumeExtra, ModsOK, Modifiers
<1> DEFINE b == Armed(req[r].by, "extra_turn")
           q == [req[r] EXCEPT !.pc = "turn", !.extra = b]
<1>3. b \in BOOLEAN /\ Step(r, q)
  BY DEF Armed, ConsumeExtra
<1>4. q.pc = "turn"
  BY <1>1 DEF Request
<1> HIDE DEF b
<1>5. q \in Request
  BY <1>1, <1>3, ParamFields, FreeLabels
<1> HIDE DEF q
<1>6. ReqOK' /\ Held(r)' /\ \A s \in Slots : s # r => req'[s] = req[s]
  BY <1>1, <1>3, <1>4, <1>5, StepFree, FreeLabels
<1>7. QED
  BY <1>2, <1>6, Frame DEF ConsumeExtra

LEMMA PassTurnType == ASSUME NEW r \in Slots, TInv, PassTurn(r) PROVE TInv'
<1>1. /\ ReqOK /\ GameOK /\ HistoryOK
      /\ req[r].by \in Seats /\ req[r].last \in Seats \cup {"none"}
  BY Parts DEF ReqOK, Request
<1>2. GameOK'
  BY <1>1, OpponentSeat DEF PassTurn, GameOK, NextLast
<1>3. HistoryOK'
  BY <1>1 DEF PassTurn, HistoryOK
<1>4. ReqOK' /\ Held(r)' /\ \A s \in Slots : s # r => req'[s] = req[s]
  BY <1>1, GotoFree, FreeLabels DEF PassTurn
<1>5. QED
  BY <1>2, <1>3, <1>4, Frame DEF PassTurn

LEMMA RecordGuessType == ASSUME NEW r \in Slots, TInv, RecordGuess(r) PROVE TInv'
<1>1. /\ ReqOK /\ TableOK /\ HistoryOK /\ nextId \in Nat
      /\ req[r] \in Request /\ req[r].by \in Seats
  BY Parts DEF ReqOK, Request, TableOK
<1>2. TableOK'
  <2>1. [id |-> nextId, by |-> req[r].by, ghost |-> FALSE] \in Guess
    BY <1>1 DEF Guess
  <2>2. board' \subseteq Guess
    BY <1>1, <2>1 DEF RecordGuess, TableOK
  <2>3. QED
    BY <1>1, <2>2 DEF RecordGuess, TableOK
<1>3. HistoryOK'
  BY <1>1 DEF RecordGuess, HistoryOK
<1> DEFINE l == IF req[r].ghost THEN "mark_ghost" ELSE "feedback"
           q == [req[r] EXCEPT !.pc = l, !.id = nextId]
<1>4. l \in Free /\ Step(r, q)
  BY FreeLabels DEF RecordGuess
<1>5. q.pc = l
  BY <1>1 DEF Request
<1> HIDE DEF l
<1>6. q \in Request
  BY <1>1, <1>4, ParamFields, FreeLabels
<1> HIDE DEF q
<1>7. ReqOK' /\ Held(r)' /\ \A s \in Slots : s # r => req'[s] = req[s]
  BY <1>1, <1>4, <1>5, <1>6, StepFree
<1>8. QED
  BY <1>2, <1>3, <1>7, Frame DEF RecordGuess

LEMMA MarkGhostType == ASSUME NEW r \in Slots, TInv, MarkGhost(r) PROVE TInv'
<1>1. TableOK'
  BY Parts DEF MarkGhost, TableOK, Guess
<1>2. ReqOK' /\ Held(r)' /\ \A s \in Slots : s # r => req'[s] = req[s]
  BY Parts, GotoFree, FreeLabels DEF MarkGhost
<1>3. QED
  BY <1>1, <1>2, Frame DEF MarkGhost

LEMMA GuessEndType == ASSUME NEW r \in Slots, TInv, GuessEnd(r) PROVE TInv'
<1>1. ReqOK /\ ModsOK /\ req[r].by \in Seats
  BY Parts DEF ReqOK, Request
<1>2. ModsOK' \/ UNCHANGED mods
  BY <1>1, ConsumeType DEF GuessEnd, ModsOK, Modifiers
<1>3. ReqOK' /\ Held(r)' /\ \A s \in Slots : s # r => req'[s] = req[s]
  BY <1>1, ReturnFree DEF GuessEnd
<1>4. QED
  BY <1>2, <1>3, Frame DEF GuessEnd

(***************************************************************************)
(* _complete_game.                                                         *)
(***************************************************************************)
LEMMA CompleteType == ASSUME NEW r \in Slots, TInv, Complete(r) PROVE TInv'
<1>1. ReqOK /\ GameOK /\ HistoryOK /\ req[r].by \in Seats
  BY Parts DEF ReqOK, Request
<1>2. GameOK' /\ HistoryOK'
  BY <1>1 DEF Complete, GameOK, HistoryOK, Statuses
<1>3. ReqOK' /\ Held(r)' /\ \A s \in Slots : s # r => req'[s] = req[s]
  BY <1>1, GotoFree, FreeLabels DEF Complete
<1>4. QED
  BY <1>2, <1>3, Frame DEF Complete

LEMMA WriteScoreType ==
    ASSUME NEW r \in Slots, TInv, NEW l \in Labels, NEW p \in Seats, NEW e \in Entries,
           NEW n \in Free, WriteScore(r, l, p, e, n)
    PROVE  TInv'
<1>1. ReqOK /\ RewardsOK
  BY Parts
<1>2. scores' \in [Seats -> [Entries -> Nat]]
  BY <1>1, CountUp DEF WriteScore, Write, RewardsOK
<1>3. RewardsOK'
  BY <1>1, <1>2 DEF WriteScore, RewardsOK
<1>4. ReqOK' /\ Held(r)' /\ \A s \in Slots : s # r => req'[s] = req[s]
  BY <1>1, GotoFree DEF WriteScore
<1>5. QED
  BY <1>3, <1>4, Frame DEF WriteScore

LEMMA AllScoresType ==
    ASSUME NEW r \in Slots, TInv,
           ScoreWin(r) \/ ScoreLoss(r) \/ NotifyWin(r) \/ NotifyLoss(r)
    PROVE  TInv'
<1>1. req[r].by \in Seats /\ Opponent(req[r].by) \in Seats
  BY Parts, OpponentSeat DEF ReqOK, Request
<1>2. CASE ScoreWin(r)
  BY <1>1, <1>2, WriteScoreType, FreeLabels DEF ScoreWin, Entries
<1>3. CASE ScoreLoss(r)
  BY <1>1, <1>3, WriteScoreType, FreeLabels DEF ScoreLoss, Entries
<1>4. CASE NotifyWin(r)
  BY <1>1, <1>4, WriteScoreType, FreeLabels DEF NotifyWin, Entries
<1>5. CASE NotifyLoss(r)
  BY <1>1, <1>5, WriteScoreType, FreeLabels DEF NotifyLoss, Entries
<1>6. QED
  BY <1>2, <1>3, <1>4, <1>5

LEMMA ReadWalletType == ASSUME NEW r \in Slots, TInv, ReadWallet(r) PROVE TInv'
<1>1. ReqOK /\ req[r] \in Request /\ wallet[req[r].by] \in Nat
  BY Parts DEF ReqOK, Request, RewardsOK
<1> DEFINE q == [req[r] EXCEPT !.num = wallet[req[r].by], !.pc = "credit"]
<1>2. q.pc = "credit" /\ Step(r, q)
  BY <1>1 DEF Request, ReadWallet
<1>3. q \in Request
  BY <1>1, ParamFields, FreeLabels
<1> HIDE DEF q
<1>4. ReqOK' /\ Held(r)' /\ \A s \in Slots : s # r => req'[s] = req[s]
  BY <1>1, <1>2, <1>3, StepFree, FreeLabels
<1>5. QED
  BY <1>4, Frame DEF ReadWallet

LEMMA CreditWalletType == ASSUME NEW r \in Slots, TInv, CreditWallet(r) PROVE TInv'
<1>1. ReqOK /\ RewardsOK /\ req[r].num \in Nat
  BY Parts DEF ReqOK, Request
<1>2. RewardsOK'
  <2>1. req[r].num + 40 \in Nat
    BY <1>1
  <2>2. wallet' \in [Seats -> Nat]
    BY <1>1, <2>1 DEF CreditWallet, RewardsOK
  <2>3. QED
    BY <1>1, <2>2 DEF CreditWallet, RewardsOK
<1>3. ReqOK' /\ Held(r)' /\ \A s \in Slots : s # r => req'[s] = req[s]
  BY <1>1, GotoFree, FreeLabels DEF CreditWallet
<1>4. QED
  BY <1>2, <1>3, Frame DEF CreditWallet

LEMMA EveryoneType ==
    ASSUME RewardsOK, NEW s \in {"Online", "In match"}, Everyone(s), UNCHANGED <<scores, wallet>>
    PROVE  RewardsOK'
BY DEF RewardsOK, Everyone

LEMMA ResetPresenceType == ASSUME NEW r \in Slots, TInv, ResetPresence(r) PROVE TInv'
<1>1. RewardsOK'
  BY Parts, EveryoneType DEF ResetPresence
<1>2. ReqOK' /\ Held(r)' /\ \A s \in Slots : s # r => req'[s] = req[s]
  BY Parts, GotoFree, FreeLabels DEF ResetPresence
<1>3. QED
  BY <1>1, <1>2, Frame DEF ResetPresence

LEMMA ClearModifiersType == ASSUME NEW r \in Slots, TInv, ClearModifiers(r) PROVE TInv'
<1>1. ModsOK'
  BY DEF ClearModifiers, ModsOK, NoModifiers
<1>2. ReqOK' /\ Held(r)' /\ \A s \in Slots : s # r => req'[s] = req[s]
  BY Parts, GotoFree, FreeLabels DEF ClearModifiers
<1>3. QED
  BY <1>1, <1>2, Frame DEF ClearModifiers

(***************************************************************************)
(* submit_join_secret.                                                     *)
(***************************************************************************)
LEMMA SecretBeginType == ASSUME NEW r \in Slots, TInv, SecretBegin(r) PROVE TInv'
<1>1. PICK p \in Acting(r) :
         Begin(r, [Idle EXCEPT !.by = p, !.pc = IF secrets[p] = 0 THEN "insert" ELSE "look"])
  BY DEF SecretBegin
<1> DEFINE l == IF secrets[p] = 0 THEN "insert" ELSE "look"
           q == [Idle EXCEPT !.by = p, !.pc = l]
<1>2. l \in Free /\ Begin(r, q)
  BY <1>1, FreeLabels
<1> HIDE DEF l
<1>3. q \in Request /\ q.pc = l
  BY <1>2, ActingSeat, IdleType, FreeLabels DEF Request
<1> HIDE DEF q
<1>4. ReqOK' /\ Held(r)' /\ \A s \in Slots : s # r => req'[s] = req[s]
  BY <1>2, <1>3, StepFree, Parts DEF Begin
<1>5. BoundsOK'
  BY <1>1, Parts DEF Begin, BoundsOK, SecretBegin
<1>6. QED
  BY <1>4, <1>5, Frame DEF SecretBegin

LEMMA InsertSecretType == ASSUME NEW r \in Slots, TInv, InsertSecret(r) PROVE TInv'
<1>1. ReqOK /\ TableOK /\ req[r].by \in Seats
  BY Parts DEF ReqOK, Request
<1>2. TableOK'
  BY <1>1 DEF InsertSecret, TableOK
<1>3. ReqOK' /\ Held(r)' /\ \A s \in Slots : s # r => req'[s] = req[s]
  BY <1>1, GotoFree, FreeLabels DEF InsertSecret
<1>4. QED
  BY <1>2, <1>3, Frame DEF InsertSecret

LEMMA LookAtSecretsType == ASSUME NEW r \in Slots, TInv, LookAtSecrets(r) PROVE TInv'
<1>1. ReqOK /\ req[r] \in Request
  BY Parts DEF ReqOK
<1> DEFINE b == \A p \in Seats : secrets[p] > 0
           q == [req[r] EXCEPT !.started = b, !.pc = "guard"]
<1>2. b \in BOOLEAN /\ Step(r, q) /\ q.pc = "guard"
  BY <1>1 DEF LookAtSecrets, Request
<1> HIDE DEF b
<1>3. q \in Request
  BY <1>1, <1>2, ParamFields, FreeLabels
<1> HIDE DEF q
<1>4. ReqOK' /\ Held(r)' /\ \A s \in Slots : s # r => req'[s] = req[s]
  BY <1>1, <1>2, <1>3, StepFree, FreeLabels
<1>5. QED
  BY <1>4, Frame DEF LookAtSecrets

LEMMA GuardUpdateType == ASSUME NEW r \in Slots, TInv, GuardUpdate(r) PROVE TInv'
<1>1. ReqOK' /\ Held(r)' /\ \A s \in Slots : s # r => req'[s] = req[s]
  BY Parts, GotoFree, ReturnFree, FreeLabels DEF GuardUpdate
<1>2. QED
  BY <1>1, Frame DEF GuardUpdate

LEMMA SetStatusType == ASSUME NEW r \in Slots, TInv, SetStatus(r) PROVE TInv'
<1>1. GameOK'
  BY Parts DEF SetStatus, GameOK, Statuses
<1>2. ReqOK' /\ Held(r)' /\ \A s \in Slots : s # r => req'[s] = req[s]
  BY Parts, GotoFree, ReturnFree, FreeLabels DEF SetStatus
<1>3. QED
  BY <1>1, <1>2, Frame DEF SetStatus

LEMMA SetInMatchType == ASSUME NEW r \in Slots, TInv, SetInMatch(r) PROVE TInv'
<1>1. RewardsOK'
  BY Parts, EveryoneType DEF SetInMatch
<1>2. ReqOK' /\ Held(r)' /\ \A s \in Slots : s # r => req'[s] = req[s]
  BY Parts, ReturnFree DEF SetInMatch
<1>3. QED
  BY <1>1, <1>2, Frame DEF SetInMatch

(***************************************************************************)
(* use_powerup: ChargeHeld is what keeps the inventory natural.            *)
(***************************************************************************)
LEMMA GotoHeld ==
    ASSUME TInv, NEW r \in Slots, NEW l \in {"arm", "erase", "charge"}, NEW n \in Nat,
           req[r].pc \in {"effect", "arm", "erase"},
           l = "arm" => req[r].item \in Offensive, l = "erase" => req[r].item = "undo",
           \/ Goto(r, l)
           \/ Step(r, [req[r] EXCEPT !.pc = l, !.id = n])
    PROVE  ReqOK' /\ Held(r)' /\ \A s \in Slots : s # r => req'[s] = req[s]
<1>1. ReqOK /\ req[r] \in Request /\ Held(r) /\ l \in Labels
  BY Parts DEF ReqOK, Labels
<1>2. CASE Goto(r, l)
  <2>1. /\ ReqOK' /\ req'[r] = [req[r] EXCEPT !.pc = l]
        /\ \A s \in Slots : s # r => req'[s] = req[s]
    BY <1>1, <1>2, GotoSlot
  <2>2. req'[r].pc = l /\ req'[r].item = req[r].item /\ req'[r].items = req[r].items
    BY <1>1, <2>1 DEF Request
  <2>3. QED
    BY <1>1, <2>1, <2>2 DEF Held
<1>3. CASE Step(r, [req[r] EXCEPT !.pc = l, !.id = n])
  <2> DEFINE q == [req[r] EXCEPT !.pc = l, !.id = n]
  <2>1. q.pc = l /\ q.item = req[r].item /\ q.items = req[r].items
    BY <1>1 DEF Request
  <2>2. q \in Request
    BY <1>1, ParamFields
  <2>3. Step(r, q)
    BY <1>3
  <2> HIDE DEF q
  <2>4. ReqOK' /\ req'[r] = q /\ \A s \in Slots : s # r => req'[s] = req[s]
    BY <1>1, <2>2, <2>3, StepSlot
  <2>5. QED
    BY <1>1, <2>1, <2>4 DEF Held
<1>4. QED
  BY <1>2, <1>3

LEMMA AppliedType ==
    ASSUME TInv, NEW r \in Slots, req[r].pc \in {"effect", "arm", "erase"},
           UNCHANGED <<opener, winners, turns>>, Applied(r) \/ UNCHANGED used
    PROVE  HistoryOK'
<1>1. HistoryOK /\ req[r].by \in Seats /\ req[r].item \in Items
  BY Parts DEF ReqOK, Request, Held
<1>2. used' \in [Seats -> [Items -> Nat]]
  <2>1. used \in [Seats -> [Items -> Nat]]
    BY <1>1 DEF HistoryOK
  <2>2. [used EXCEPT ![req[r].by][req[r].item] = @ + 1] \in [Seats -> [Items -> Nat]]
    BY <1>1, <2>1, CountUp
  <2>3. QED
    BY <2>1, <2>2 DEF Applied
<1>3. QED
  BY <1>1, <1>2 DEF HistoryOK

LEMMA PowerBeginType == ASSUME NEW r \in Slots, TInv, PowerBegin(r) PROVE TInv'
<1>1. PICK p \in Acting(r), i \in Items :
         /\ inv[p][i] > 0
         /\ Begin(r, [Idle EXCEPT !.pc = "effect", !.by = p, !.item = i, !.items = inv[p]])
  BY DEF PowerBegin
<1>2. p \in Seats /\ inv[p] \in [Items -> Nat] /\ i \in PowerUps \cup {"none"}
  BY ActingSeat, Parts, MatchAssumption DEF InvOK
<1> DEFINE q == [Idle EXCEPT !.pc = "effect", !.by = p, !.item = i, !.items = inv[p]]
<1>3. q \in Request /\ "effect" \in Labels
  BY <1>2, IdleType DEF Request, Labels
<1>4. q.pc = "effect" /\ q.item = i /\ q.items = inv[p]
  BY DEF Idle
<1>5. Step(r, q)
  BY <1>1 DEF Begin
<1> HIDE DEF q
<1>6. ReqOK' /\ req'[r] = q /\ \A s \in Slots : s # r => req'[s] = req[s]
  BY <1>3, <1>5, StepSlot, Parts
<1>7. Held(r)'
  BY <1>1, <1>4, <1>6 DEF Held
<1>8. BoundsOK'
  BY <1>1, Parts DEF Begin, BoundsOK, PowerBegin
<1>9. QED
  BY <1>6, <1>7, <1>8, Frame DEF PowerBegin

LEMMA RevealType == ASSUME NEW r \in Slots, TInv, Reveal(r) PROVE TInv'
<1>1. HistoryOK'
  BY AppliedType DEF Reveal, At
<1>2. ReqOK' /\ Held(r)' /\ \A s \in Slots : s # r => req'[s] = req[s]
  BY Parts, GotoHeld, ReturnFree DEF Reveal, At
<1>3. QED
  BY <1>1, <1>2, Frame DEF Reveal

LEMMA StrikeShieldType == ASSUME NEW r \in Slots, TInv, StrikeShield(r) PROVE TInv'
<1>1. HistoryOK'
  BY AppliedType DEF StrikeShield, At
<1>2. ModsOK /\ Opponent(req[r].by) \in Seats
  BY Parts, OpponentSeat DEF ReqOK, Request
<1>3. ModsOK'
  BY <1>2, ConsumeType DEF StrikeShield, ModsOK, Modifiers
<1>4. ReqOK' /\ Held(r)' /\ \A s \in Slots : s # r => req'[s] = req[s]
  BY Parts, GotoHeld DEF StrikeShield, At
<1>5. QED
  BY <1>1, <1>3, <1>4, Frame DEF StrikeShield

LEMMA AddModifierType == ASSUME NEW r \in Slots, TInv, AddModifier(r) PROVE TInv'
<1>1. HistoryOK'
  BY AppliedType DEF AddModifier, At
<1>2. ModsOK /\ req[r].by \in Seats /\ Opponent(req[r].by) \in Seats /\ Held(r)
  BY Parts, OpponentSeat DEF ReqOK, Request
<1>3. ModifierOf[req[r].item] \in Modifiers
  BY <1>2 DEF AddModifier, At, Held, Offensive, SelfArmed, ModifierOf, Modifiers
<1>4. ModsOK'
  BY <1>2, <1>3, CountUp DEF AddModifier, Arm, ModsOK
<1>5. ReqOK' /\ Held(r)' /\ \A s \in Slots : s # r => req'[s] = req[s]
  BY Parts, GotoHeld DEF AddModifier, At
<1>6. QED
  BY <1>1, <1>4, <1>5, Frame DEF AddModifier

LEMMA FindUndoType == ASSUME NEW r \in Slots, TInv, FindUndo(r) PROVE TInv'
<1>1. \A g \in board : g.id \in Nat
  BY Parts DEF TableOK, Guess
<1>2. CASE Latest(req[r].by) = {}
  BY <1>2, Parts, ReturnFree, Frame DEF FindUndo
<1>3. CASE Latest(req[r].by) # {}
  <2>1. PICK g \in board : Step(r, [req[r] EXCEPT !.pc = "erase", !.id = g.id])
    BY <1>3 DEF FindUndo, Latest
  <2>2. ReqOK' /\ Held(r)' /\ \A s \in Slots : s # r => req'[s] = req[s]
    BY <1>1, <2>1, GotoHeld DEF FindUndo, At
  <2>3. QED
    BY <2>2, Frame DEF FindUndo
<1>4. QED
  BY <1>2, <1>3

LEMMA EraseGuessType == ASSUME NEW r \in Slots, TInv, EraseGuess(r) PROVE TInv'
<1>1. HistoryOK'
  BY AppliedType DEF EraseGuess, At
<1>2. TableOK'
  BY Parts DEF EraseGuess, TableOK
<1>3. ReqOK' /\ Held(r)' /\ \A s \in Slots : s # r => req'[s] = req[s]
  BY GotoHeld DEF EraseGuess, At
<1>4. QED
  BY <1>1, <1>2, <1>3, Frame DEF EraseGuess

LEMMA ChargeItemType == ASSUME NEW r \in Slots, TInv, ChargeItem(r) PROVE TInv'
<1>1. /\ InvOK /\ ReqOK /\ req[r].by \in Seats /\ req[r].items \in [Items -> Nat]
      /\ req[r].item \in Items /\ req[r].items[req[r].item] > 0
  BY Parts DEF ReqOK, Request, Held, ChargeItem, At
<1>2. [req[r].items EXCEPT ![req[r].item] = @ - 1] \in [Items -> Nat]
  BY <1>1
<1>3. InvOK'
  BY <1>1, <1>2 DEF ChargeItem, InvOK
<1>4. ReqOK' /\ Held(r)' /\ \A s \in Slots : s # r => req'[s] = req[s]
  BY <1>1, ReturnFree DEF ChargeItem
<1>5. QED
  BY <1>3, <1>4, Frame DEF ChargeItem

(***************************************************************************)
(* The job, and a killed request.                                          *)
(***************************************************************************)
LEMMA JobType == ASSUME TInv, JobScan \/ JobReset \/ JobMark PROVE TInv'
<1>1. GameOK' /\ BoundsOK' /\ job' \in {"idle", "reset", "mark"}
  BY Parts DEF JobScan, JobReset, JobMark, GameOK, BoundsOK, Statuses
<1>2. RewardsOK'
  <2>1. CASE JobReset
    BY <2>1, Parts, EveryoneType DEF JobReset
  <2>2. CASE JobScan \/ JobMark
    BY <2>2, Parts DEF JobScan, JobMark, RewardsOK
  <2>3. QED
    BY <2>1, <2>2
<1>3. UNCHANGED <<table, mods, inv, req, history>>
  BY DEF JobScan, JobReset, JobMark
<1>4. TableOK' /\ ModsOK' /\ InvOK' /\ ReqOK' /\ HistoryOK'
  BY <1>3, Parts DEF TableOK, ModsOK, InvOK, ReqOK, HistoryOK
<1>5. \A r \in Slots : Held(r)'
  BY <1>3, Parts DEF Held
<1>6. QED
  BY <1>1, <1>2, <1>4, <1>5, Parts DEF TInv, StateOK, ChargeHeld, Held, GameOK, TableOK, ModsOK,
     RewardsOK, InvOK, ReqOK, BoundsOK, HistoryOK

LEMMA CrashType == ASSUME NEW r \in Slots, TInv, Crash(r) PROVE TInv'
<1>1. BoundsOK'
  BY Parts DEF Crash, BoundsOK
<1>2. ReqOK' /\ Held(r)' /\ \A s \in Slots : s # r => req'[s] = req[s]
  BY Parts, ReturnFree DEF Crash
<1>3. QED
  BY <1>1, <1>2, Frame DEF Crash

LEMMA SlotStepType == ASSUME NEW r \in Slots, TInv, SlotStep(r) PROVE TInv'
BY AdmitType, ConsumeSkipType, CheckOpeningType, ScoreType, ConsumeExtraType, PassTurnType,
   RecordGuessType, MarkGhostType, GuessEndType, CompleteType, AllScoresType, ReadWalletType,
   CreditWalletType, ResetPresenceType, ClearModifiersType, InsertSecretType, LookAtSecretsType,
   GuardUpdateType, SetStatusType, SetInMatchType, RevealType, StrikeShieldType, AddModifierType,
   FindUndoType, EraseGuessType, ChargeItemType
DEF SlotStep

LEMMA TypeNext == TInv /\ [Next]_vars => TInv'
<1> SUFFICES ASSUME TInv, [Next]_vars PROVE TInv'
  OBVIOUS
<1>1. ASSUME NEW r \in Slots, GuessBegin(r) \/ SecretBegin(r) \/ PowerBegin(r) PROVE TInv'
  BY <1>1, GuessBeginType, SecretBeginType, PowerBeginType
<1>2. ASSUME NEW r \in Slots, SlotStep(r) \/ Crash(r) PROVE TInv'
  BY <1>2, SlotStepType, CrashType
<1>3. CASE JobScan \/ JobReset \/ JobMark
  BY <1>3, JobType
<1>4. CASE UNCHANGED vars
  BY <1>4 DEF vars, TInv, StateOK, ChargeHeld
<1>5. QED
  BY <1>1, <1>2, <1>3, <1>4 DEF Next

(***************************************************************************)
(* Every reachable state has the type TypeOK gives it.  The inventory      *)
(* needs ChargeHeld: use_powerup writes back the copy it read, which had a *)
(* charge of the item, so no count ever goes below zero, whatever other    *)
(* requests wrote in between.                                              *)
(***************************************************************************)
THEOREM TypeCorrect == Spec => []TypeOK
<1>1. TInv /\ heed \in Manners => TypeOK
  BY DEF TInv, TypeOK
<1> DEFINE Heeds == heed \in Manners
<1>1a. TInv /\ Heeds => TypeOK
  BY <1>1
<1>2. Init => Heeds
  BY DEF Init
<1>3. Heeds /\ [Next]_vars => Heeds'
  BY DEF Next, vars
<1> HIDE DEF Heeds
<1>4. QED
  BY <1>1a, <1>2, <1>3, TypeInit, TypeNext, PTL DEF Spec

-------------------------------------------------------------------------------
(***************************************************************************)
(* What a step of one slot leaves behind.                                  *)
(***************************************************************************)
\* The request in slot r after a step of its handler, and the other slots.
LEMMA AfterGoto ==
    ASSUME TInv, NEW r \in Slots, NEW l \in Labels, Goto(r, l)
    PROVE  /\ req'[r].pc = l
           /\ req'[r].by = req[r].by /\ req'[r].started = req[r].started
           /\ req'[r].item = req[r].item /\ req'[r].items = req[r].items
           /\ \A s \in Slots : s # r => req'[s] = req[s]
<1>1. ReqOK /\ req[r] \in Request
  BY Parts DEF ReqOK
<1>2. req'[r] = [req[r] EXCEPT !.pc = l] /\ \A s \in Slots : s # r => req'[s] = req[s]
  BY <1>1, GotoSlot
<1>3. QED
  BY <1>1, <1>2 DEF Request

LEMMA AfterStep ==
    ASSUME TInv, NEW r \in Slots, NEW q, Step(r, q)
    PROVE  req'[r] = q /\ \A s \in Slots : s # r => req'[s] = req[s]
BY Parts DEF ReqOK, Step

LEMMA AfterReturn ==
    ASSUME TInv, NEW r \in Slots, Return(r)
    PROVE  /\ req'[r].pc = "idle" /\ ~req'[r].started
           /\ \A s \in Slots : s # r => req'[s] = req[s]
BY AfterStep DEF Return, Idle

(***************************************************************************)
(* A guess is only scored against a stored secret.  A handler that was     *)
(* admitted, or has seen both secrets, knows that they are stored, and     *)
(* secrets are never removed.                                              *)
(***************************************************************************)
Admitted(r) == req[r].pc \in {"skip", "opening", "score", "complete"} \/ req[r].started

SInv == StartedHasSecrets /\ \A r \in Slots : Admitted(r) => SecretsStored

\* A step that leaves the secrets and the mode alone.
LEMMA SFrame ==
    ASSUME SInv, NEW r \in Slots, UNCHANGED <<mode, secrets>>,
           \A s \in Slots : s # r => req'[s] = req[s],
           Admitted(r)' => SecretsStored,
           status' \in {"started", "completed"} => status' = status \/ SecretsStored
    PROVE  SInv'
BY DEF SInv, StartedHasSecrets, SecretsStored, Admitted

LEMMA SReturn ==
    ASSUME TInv, SInv, NEW r \in Slots, Return(r), UNCHANGED <<mode, status, secrets>>
    PROVE  SInv'
<1>1. ~Admitted(r)' /\ \A s \in Slots : s # r => req'[s] = req[s]
  BY AfterReturn DEF Admitted
<1>2. QED
  BY <1>1, SFrame

\* A handler goes on to a label where nothing is known, or knew it before.
LEMMA SGoto ==
    ASSUME TInv, SInv, NEW r \in Slots, NEW l \in Labels, Goto(r, l), UNCHANGED <<mode, secrets>>,
           l \in {"skip", "opening", "score", "complete"} => Admitted(r),
           status' \in {"started", "completed"} => status' = status \/ Admitted(r)
    PROVE  SInv'
<1>1. /\ req'[r].pc = l /\ req'[r].started = req[r].started
      /\ \A s \in Slots : s # r => req'[s] = req[s]
  BY AfterGoto
<1>2. Admitted(r)' => Admitted(r)
  BY <1>1 DEF Admitted
<1>3. QED
  BY <1>1, <1>2, SFrame DEF SInv

LEMMA SStep ==
    ASSUME TInv, SInv, NEW r \in Slots, NEW q, Step(r, q), UNCHANGED <<mode, status, secrets>>,
           q.pc \in {"skip", "opening", "score", "complete"} \/ q.started => SecretsStored
    PROVE  SInv'
<1>1. req'[r] = q /\ \A s \in Slots : s # r => req'[s] = req[s]
  BY AfterStep
<1>2. Admitted(r)' => SecretsStored
  BY <1>1 DEF Admitted
<1>3. QED
  BY <1>1, <1>2, SFrame

LEMMA SInit == Init => SInv
<1> SUFFICES ASSUME Init PROVE SInv
  OBVIOUS
<1>1. \A r \in Slots : ~Admitted(r)
  BY DEF Init, Admitted, Idle
<1>2. StartedHasSecrets
  <2>1. mode \in {"bot", "local", "online", "friend"}
    BY MatchAssumption DEF Init
  <2>2. \A p \in Seats :
           secrets[p] = IF mode = "local" \/ (mode = "bot" /\ p = "joiner") THEN 1 ELSE 0
    BY DEF Init
  <2>3. mode \in {"online", "friend"} => status = "waiting"
    BY DEF Init
  <2>4. QED
    BY <2>1, <2>2, <2>3 DEF StartedHasSecrets, SecretsStored
<1>3. QED
  BY <1>1, <1>2 DEF SInv

LEMMA SBegin ==
    ASSUME TInv, SInv, NEW r \in Slots, GuessBegin(r) \/ SecretBegin(r) \/ PowerBegin(r)
    PROVE  SInv'
<1>1. CASE GuessBegin(r)
  <2>1. PICK p \in Acting(r), fake \in BOOLEAN : Step(r, [Idle EXCEPT !.pc = "admit", !.by = p, !.fake = fake])
    <3>1. \A p \in Acting(r) : Armed(p, "fake_feedback") \in BOOLEAN
      BY DEF Armed
    <3>2. QED
      BY <3>1, <1>1 DEF GuessBegin, Begin
  <2>2. UNCHANGED <<mode, status, secrets>>
    BY <1>1 DEF GuessBegin
  <2>3. QED
    BY <2>1, <2>2, SStep DEF Idle
<1>2. CASE SecretBegin(r)
  <2>1. PICK p \in Acting(r) :
           Step(r, [Idle EXCEPT !.by = p, !.pc = IF secrets[p] = 0 THEN "insert" ELSE "look"])
    BY <1>2 DEF SecretBegin, Begin
  <2>2. UNCHANGED <<mode, status, secrets>>
    BY <1>2 DEF SecretBegin
  <2>3. QED
    BY <2>1, <2>2, SStep DEF Idle
<1>3. CASE PowerBegin(r)
  <2>1. PICK p \in Acting(r), i \in Items :
           Step(r, [Idle EXCEPT !.pc = "effect", !.by = p, !.item = i, !.items = inv[p]])
    BY <1>3 DEF PowerBegin, Begin
  <2>2. UNCHANGED <<mode, status, secrets>>
    BY <1>3 DEF PowerBegin
  <2>3. QED
    BY <2>1, <2>2, SStep DEF Idle
<1>4. QED
  BY <1>1, <1>2, <1>3

\* submit_guess: the status read by Admit vouches for the secrets.
LEMMA SGuess ==
    ASSUME TInv, SInv, NEW r \in Slots,
           \/ Admit(r) \/ ConsumeSkip(r) \/ CheckOpening(r) \/ Score(r) \/ ConsumeExtra(r)
           \/ PassTurn(r) \/ RecordGuess(r) \/ MarkGhost(r) \/ GuessEnd(r)
    PROVE  SInv'
<1>1. req[r] \in Request /\ (req[r].started => SecretsStored)
  BY Parts DEF ReqOK, SInv, Admitted
<1>2. CASE Admit(r)
  <2>1. CASE status # "started"
    BY <1>2, <2>1, SReturn DEF Admit
  <2>2. CASE status = "started"
    <3>1. SecretsStored
      BY <2>2 DEF SInv, StartedHasSecrets
    <3>2. QED
      BY <1>2, <2>2, <3>1, SStep DEF Admit
  <2>3. QED
    BY <2>1, <2>2
<1>3. CASE ConsumeSkip(r)
  BY <1>3, SGoto, SReturn, FreeLabels DEF ConsumeSkip, At, Admitted
<1>4. CASE CheckOpening(r)
  BY <1>4, SGoto, SReturn, FreeLabels DEF CheckOpening, At, Admitted
<1>5. CASE Score(r)
  <2>1. SecretsStored /\ UNCHANGED <<mode, status, secrets>>
    BY <1>5 DEF SInv, Score, At, Admitted
  <2>2. CASE Return(r)
    BY <2>1, <2>2, SReturn
  <2>3. CASE ~Return(r)
    BY <1>5, <2>1, <2>3, SStep DEF Score
  <2>4. QED
    BY <2>2, <2>3
<1>6. CASE ConsumeExtra(r)
  <2>1. Step(r, [req[r] EXCEPT !.pc = "turn", !.extra = Armed(req[r].by, "extra_turn")])
    BY <1>6 DEF ConsumeExtra
  <2>2. QED
    BY <1>1, <1>6, <2>1, SStep DEF ConsumeExtra, Request
<1>7. CASE PassTurn(r)
  BY <1>7, SGoto, FreeLabels DEF PassTurn
<1>8. CASE RecordGuess(r)
  <2>1. Step(r, [req[r] EXCEPT !.pc = IF req[r].ghost THEN "mark_ghost" ELSE "feedback",
                               !.id = nextId])
    BY <1>8 DEF RecordGuess
  <2>2. QED
    BY <1>1, <1>8, <2>1, SStep DEF RecordGuess, Request
<1>9. CASE MarkGhost(r)
  BY <1>9, SGoto, FreeLabels DEF MarkGhost
<1>10. CASE GuessEnd(r)
  BY <1>10, SReturn DEF GuessEnd
<1>11. QED
  BY <1>2, <1>3, <1>4, <1>5, <1>6, <1>7, <1>8, <1>9, <1>10

\* _complete_game: a completed game was admitted as a started one.
LEMMA SComplete ==
    ASSUME TInv, SInv, NEW r \in Slots,
           \/ Complete(r) \/ ScoreWin(r) \/ ScoreLoss(r) \/ ReadWallet(r) \/ CreditWallet(r)
           \/ NotifyWin(r) \/ NotifyLoss(r) \/ ResetPresence(r) \/ ClearModifiers(r)
    PROVE  SInv'
<1>1. req[r] \in Request /\ (req[r].started => SecretsStored)
  BY Parts DEF ReqOK, SInv, Admitted
<1>2. CASE Complete(r)
  BY <1>2, SGoto, FreeLabels DEF Complete, At, Admitted
<1>3. CASE ScoreWin(r)
  BY <1>3, SGoto, FreeLabels DEF ScoreWin, WriteScore
<1>4. CASE ScoreLoss(r)
  BY <1>4, SGoto, FreeLabels DEF ScoreLoss, WriteScore
<1>5. CASE ReadWallet(r)
  <2>1. Step(r, [req[r] EXCEPT !.num = wallet[req[r].by], !.pc = "credit"])
    BY <1>5 DEF ReadWallet
  <2>2. QED
    BY <1>1, <1>5, <2>1, SStep DEF ReadWallet, Request
<1>6. CASE CreditWallet(r)
  BY <1>6, SGoto, FreeLabels DEF CreditWallet
<1>7. CASE NotifyWin(r)
  BY <1>7, SGoto, FreeLabels DEF NotifyWin, WriteScore
<1>8. CASE NotifyLoss(r)
  BY <1>8, SGoto, FreeLabels DEF NotifyLoss, WriteScore
<1>9. CASE ResetPresence(r)
  BY <1>9, SGoto, FreeLabels DEF ResetPresence
<1>10. CASE ClearModifiers(r)
  BY <1>10, SGoto, FreeLabels DEF ClearModifiers
<1>11. QED
  BY <1>2, <1>3, <1>4, <1>5, <1>6, <1>7, <1>8, <1>9, <1>10

\* submit_join_secret: the flag it carries was computed from stored secrets.
LEMMA SSecret ==
    ASSUME TInv, SInv, NEW r \in Slots,
           InsertSecret(r) \/ LookAtSecrets(r) \/ GuardUpdate(r) \/ SetStatus(r) \/ SetInMatch(r)
    PROVE  SInv'
<1>1. req[r] \in Request /\ req[r].by \in Seats /\ secrets \in [Seats -> Nat]
  BY Parts DEF ReqOK, Request, TableOK
<1>2. CASE InsertSecret(r)
  <2>1. SecretsStored => SecretsStored'
    BY <1>1, <1>2 DEF InsertSecret, SecretsStored
  <2>2. /\ req'[r].pc = "look" /\ req'[r].started = req[r].started
        /\ \A s \in Slots : s # r => req'[s] = req[s]
    BY <1>2, AfterGoto, FreeLabels DEF InsertSecret
  <2>3. \A s \in Slots : Admitted(s)' => Admitted(s)
    BY <2>2 DEF Admitted
  <2>4. UNCHANGED status
    BY <1>2 DEF InsertSecret
  <2>5. QED
    BY <2>1, <2>3, <2>4 DEF SInv, StartedHasSecrets
<1>3. CASE LookAtSecrets(r)
  <2>1. (\A p \in Seats : secrets[p] > 0) => SecretsStored
    BY DEF SecretsStored
  <2>2. QED
    BY <1>1, <1>3, <2>1, SStep DEF LookAtSecrets, Request
<1>4. CASE GuardUpdate(r)
  BY <1>4, SGoto, SReturn, FreeLabels DEF GuardUpdate
<1>5. CASE SetStatus(r)
  <2>1. CASE req[r].started
    BY <1>5, <2>1, SGoto, FreeLabels DEF SetStatus, Admitted
  <2>2. CASE ~req[r].started
    <3>1. ~Admitted(r)' /\ \A s \in Slots : s # r => req'[s] = req[s]
      BY <1>5, <2>2, AfterReturn DEF SetStatus, Admitted
    <3>2. status' = "waiting" /\ UNCHANGED <<mode, secrets>>
      BY <1>5, <2>2 DEF SetStatus
    <3>3. QED
      BY <3>1, <3>2, SFrame
  <2>3. QED
    BY <2>1, <2>2
<1>6. CASE SetInMatch(r)
  BY <1>6, SReturn DEF SetInMatch
<1>7. QED
  BY <1>2, <1>3, <1>4, <1>5, <1>6

LEMMA SPower ==
    ASSUME TInv, SInv, NEW r \in Slots,
           \/ Reveal(r) \/ StrikeShield(r) \/ AddModifier(r) \/ FindUndo(r) \/ EraseGuess(r)
           \/ ChargeItem(r) \/ Crash(r)
    PROVE  SInv'
<1>1. /\ req[r] \in Request /\ (req[r].started => SecretsStored)
      /\ {"arm", "charge"} \subseteq Labels
  BY Parts DEF ReqOK, SInv, Admitted, Labels
<1>2. CASE Reveal(r)
  BY <1>1, <1>2, SGoto, SReturn DEF Reveal
<1>3. CASE StrikeShield(r)
  BY <1>1, <1>3, SGoto DEF StrikeShield
<1>4. CASE AddModifier(r)
  BY <1>1, <1>4, SGoto DEF AddModifier
<1>5. CASE FindUndo(r)
  <2>1. UNCHANGED <<mode, status, secrets>>
    BY <1>5 DEF FindUndo
  <2>2. CASE Return(r)
    BY <2>1, <2>2, SReturn
  <2>3. CASE ~Return(r)
    <3>1. PICK g : Step(r, [req[r] EXCEPT !.pc = "erase", !.id = g.id])
      BY <1>5, <2>3 DEF FindUndo
    <3>2. QED
      BY <1>1, <2>1, <3>1, SStep DEF Request
  <2>4. QED
    BY <2>2, <2>3
<1>6. CASE EraseGuess(r)
  BY <1>1, <1>6, SGoto DEF EraseGuess
<1>7. CASE ChargeItem(r)
  BY <1>7, SReturn DEF ChargeItem
<1>8. CASE Crash(r)
  BY <1>8, SReturn DEF Crash
<1>9. QED
  BY <1>2, <1>3, <1>4, <1>5, <1>6, <1>7, <1>8

LEMMA SJob == ASSUME TInv, SInv, JobScan \/ JobReset \/ JobMark PROVE SInv'
<1>1. UNCHANGED <<mode, secrets, req>> /\ (status' = status \/ status' = "expired")
  BY DEF JobScan, JobReset, JobMark
<1>2. QED
  BY <1>1 DEF SInv, StartedHasSecrets, SecretsStored, Admitted

LEMMA SNext == TInv /\ SInv /\ [Next]_vars => SInv'
<1> SUFFICES ASSUME TInv, SInv, [Next]_vars PROVE SInv'
  OBVIOUS
<1>1. ASSUME NEW r \in Slots, GuessBegin(r) \/ SecretBegin(r) \/ PowerBegin(r) PROVE SInv'
  BY <1>1, SBegin
<1>2. ASSUME NEW r \in Slots, SlotStep(r) \/ Crash(r) PROVE SInv'
  BY <1>2, SGuess, SComplete, SSecret, SPower DEF SlotStep
<1>3. CASE JobScan \/ JobReset \/ JobMark
  BY <1>3, SJob
<1>4. CASE UNCHANGED vars
  BY <1>4 DEF vars, SInv, StartedHasSecrets, SecretsStored, Admitted
<1>5. QED
  BY <1>1, <1>2, <1>3, <1>4 DEF Next

\* A game that is started or completed has every secret that can be guessed
\* at, in whatever order the two players submit theirs and however often.
THEOREM SecretsBeforeGuesses == Spec => []StartedHasSecrets
<1>1. SInv => StartedHasSecrets
  BY DEF SInv
<1>2. QED
  BY <1>1, TypeInit, TypeNext, SInit, SNext, PTL DEF Spec

(***************************************************************************)
(* The creator opens.  A handler of the joiner that has passed             *)
(* CheckOpening knows that a guess had been recorded by then; the first    *)
(* one ever recorded was the creator's, and undoing it does not make a     *)
(* joiner in flight the first.                                             *)
(***************************************************************************)
AfterOpening ==
    {"score", "complete", "win", "loss", "wallet", "credit", "notify_win", "notify_loss",
     "online", "clear", "extra", "turn", "record"}

Passed(r) == req[r].pc \in AfterOpening /\ req[r].by = "joiner"

CInv == /\ CreatorOpens
        /\ board # {} => opener # "none"
        /\ \A r \in Slots : Passed(r) => opener = "creator"

LEMMA CFrame ==
    ASSUME CInv, NEW r \in Slots, UNCHANGED opener, board' # {} => board # {},
           \A s \in Slots : s # r => req'[s] = req[s],
           Passed(r)' => Passed(r) \/ opener = "creator"
    PROVE  CInv'
BY DEF CInv, CreatorOpens, Passed

LEMMA CReturn ==
    ASSUME TInv, CInv, NEW r \in Slots, Return(r), UNCHANGED <<opener, board>>
    PROVE  CInv'
<1>1. ~Passed(r)' /\ \A s \in Slots : s # r => req'[s] = req[s]
  BY AfterReturn DEF Passed, AfterOpening
<1>2. QED
  BY <1>1, CFrame

LEMMA CGoto ==
    ASSUME TInv, CInv, NEW r \in Slots, NEW l \in Labels, Goto(r, l),
           UNCHANGED opener, board' # {} => board # {},
           l \in AfterOpening => req[r].pc \in AfterOpening
    PROVE  CInv'
<1>1. /\ req'[r].pc = l /\ req'[r].by = req[r].by
      /\ \A s \in Slots : s # r => req'[s] = req[s]
  BY AfterGoto
<1>2. QED
  BY <1>1, CFrame DEF Passed

LEMMA CStep ==
    ASSUME TInv, CInv, NEW r \in Slots, NEW q, Step(r, q), UNCHANGED <<opener, board>>,
           q.pc \in AfterOpening => req[r].pc \in AfterOpening /\ q.by = req[r].by
    PROVE  CInv'
<1>1. req'[r] = q /\ \A s \in Slots : s # r => req'[s] = req[s]
  BY AfterStep
<1>2. QED
  BY <1>1, CFrame DEF Passed

LEMMA CInit == Init => CInv
<1> SUFFICES ASSUME Init PROVE CInv
  OBVIOUS
<1>1. \A r \in Slots : ~Passed(r)
  BY DEF Init, Passed, AfterOpening, Idle
<1>2. opener = "none" /\ board = {}
  BY DEF Init
<1>3. QED
  BY <1>1, <1>2 DEF CInv, CreatorOpens

LEMMA CBegin ==
    ASSUME TInv, CInv, NEW r \in Slots, GuessBegin(r) \/ SecretBegin(r) \/ PowerBegin(r)
    PROVE  CInv'
<1>1. UNCHANGED <<opener, board>>
  BY DEF GuessBegin, SecretBegin, PowerBegin
<1>2. CASE GuessBegin(r)
  <2>1. PICK p \in Acting(r), fake \in BOOLEAN : Step(r, [Idle EXCEPT !.pc = "admit", !.by = p, !.fake = fake])
    <3>1. \A p \in Acting(r) : Armed(p, "fake_feedback") \in BOOLEAN
      BY DEF Armed
    <3>2. QED
      BY <3>1, <1>2 DEF GuessBegin, Begin
  <2>2. QED
    BY <1>1, <2>1, CStep DEF Idle, AfterOpening
<1>3. CASE SecretBegin(r)
  <2>1. PICK p \in Acting(r) :
           Step(r, [Idle EXCEPT !.by = p, !.pc = IF secrets[p] = 0 THEN "insert" ELSE "look"])
    BY <1>3 DEF SecretBegin, Begin
  <2>2. QED
    BY <1>1, <2>1, CStep DEF Idle, AfterOpening
<1>4. CASE PowerBegin(r)
  <2>1. PICK p \in Acting(r), i \in Items :
           Step(r, [Idle EXCEPT !.pc = "effect", !.by = p, !.item = i, !.items = inv[p]])
    BY <1>4 DEF PowerBegin, Begin
  <2>2. QED
    BY <1>1, <2>1, CStep DEF Idle, AfterOpening
<1>5. QED
  BY <1>2, <1>3, <1>4

LEMMA CGuess ==
    ASSUME TInv, CInv, NEW r \in Slots,
           \/ Admit(r) \/ ConsumeSkip(r) \/ CheckOpening(r) \/ Score(r) \/ ConsumeExtra(r)
           \/ PassTurn(r) \/ RecordGuess(r) \/ MarkGhost(r) \/ GuessEnd(r)
    PROVE  CInv'
<1>1. /\ req[r] \in Request /\ req[r].by \in Seats /\ opener \in Seats \cup {"none"}
      /\ {"skip", "opening", "mark_ghost", "feedback"} \cap AfterOpening = {}
  BY Parts DEF ReqOK, Request, HistoryOK, AfterOpening
<1>2. CASE Admit(r)
  <2>1. CASE status # "started"
    BY <1>2, <2>1, CReturn DEF Admit
  <2>2. CASE status = "started"
    <3>1. Step(r, [req[r] EXCEPT !.last = last,
                                 !.pc   = IF last = req[r].by THEN "skip" ELSE "opening"])
      BY <1>2, <2>2 DEF Admit
    <3>2. QED
      BY <1>1, <1>2, <3>1, CStep DEF Admit, Request
  <2>3. QED
    BY <2>1, <2>2
<1>3. CASE ConsumeSkip(r)
  BY <1>1, <1>3, CGoto, CReturn, FreeLabels DEF ConsumeSkip
<1>4. CASE CheckOpening(r)
  <2>1. CASE Return(r)
    BY <1>4, <2>1, CReturn DEF CheckOpening
  <2>2. CASE ~Return(r)
    <3>1. board # {} \/ req[r].by = "creator"
      BY <1>4, <2>2 DEF CheckOpening
    <3>2. req[r].by = "joiner" => opener = "creator"
      BY <1>1, <3>1 DEF CInv, CreatorOpens, Seats
    <3>3. req'[r].by = req[r].by /\ \A s \in Slots : s # r => req'[s] = req[s]
      BY <1>4, <2>2, AfterGoto, FreeLabels DEF CheckOpening
    <3>4. QED
      BY <1>4, <3>2, <3>3, CFrame DEF CheckOpening, Passed
  <2>3. QED
    BY <2>1, <2>2
<1>5. CASE Score(r)
  <2>1. UNCHANGED <<opener, board>> /\ req[r].pc \in AfterOpening
    BY <1>5 DEF Score, At, AfterOpening
  <2>2. CASE Return(r)
    BY <2>1, <2>2, CReturn
  <2>3. CASE ~Return(r)
    <3>1. PICK win \in BOOLEAN :
             Step(r, [req[r] EXCEPT !.pc    = IF win THEN "complete" ELSE "extra",
                                    !.ghost = Armed(req[r].by, "ghost_guess")])
      BY <1>5, <2>3 DEF Score
    <3>2. QED
      BY <1>1, <2>1, <3>1, CStep DEF Request
  <2>4. QED
    BY <2>2, <2>3
<1>6. CASE ConsumeExtra(r)
  <2>1. Step(r, [req[r] EXCEPT !.pc = "turn", !.extra = Armed(req[r].by, "extra_turn")])
    BY <1>6 DEF ConsumeExtra
  <2>2. req[r].pc \in AfterOpening /\ UNCHANGED <<opener, board>>
    BY <1>6 DEF ConsumeExtra, At, AfterOpening
  <2>3. QED
    BY <1>1, <2>1, <2>2, CStep DEF Request
<1>7. CASE PassTurn(r)
  BY <1>7, CGoto, FreeLabels DEF PassTurn, At, AfterOpening
<1>8. CASE RecordGuess(r)
  <2>1. Step(r, [req[r] EXCEPT !.pc = IF req[r].ghost THEN "mark_ghost" ELSE "feedback",
                               !.id = nextId])
    BY <1>8 DEF RecordGuess
  <2>2. req'[r].pc \in {"mark_ghost", "feedback"} /\ \A s \in Slots : s # r => req'[s] = req[s]
    <3> DEFINE q == [req[r] EXCEPT !.pc = IF req[r].ghost THEN "mark_ghost" ELSE "feedback",
                                   !.id = nextId]
    <3>1. q.pc \in {"mark_ghost", "feedback"}
      BY <1>1 DEF Request
    <3>2. Step(r, q)
      BY <2>1
    <3> HIDE DEF q
    <3>3. QED
      BY <3>1, <3>2, AfterStep
  <2>3. req[r].by = "joiner" => opener = "creator"
    BY <1>8 DEF CInv, RecordGuess, At, Passed, AfterOpening
  <2>4. opener' = IF opener = "none" THEN req[r].by ELSE opener
    BY <1>8 DEF RecordGuess
  <2>5. opener' # "none" /\ opener' # "joiner"
    BY <1>1, <2>3, <2>4 DEF CInv, CreatorOpens, Seats
  <2>6. \A s \in Slots : Passed(s)' => opener' = "creator"
    BY <1>1, <2>2, <2>4 DEF CInv, Passed
  <2>7. QED
    BY <2>5, <2>6 DEF CInv, CreatorOpens
<1>9. CASE MarkGhost(r)
  <2>1. board' # {} => board # {}
    BY <1>9 DEF MarkGhost
  <2>2. QED
    BY <1>1, <1>9, <2>1, CGoto, FreeLabels DEF MarkGhost
<1>10. CASE GuessEnd(r)
  BY <1>10, CReturn DEF GuessEnd
<1>11. QED
  BY <1>2, <1>3, <1>4, <1>5, <1>6, <1>7, <1>8, <1>9, <1>10

LEMMA CComplete ==
    ASSUME TInv, CInv, NEW r \in Slots,
           \/ Complete(r) \/ ScoreWin(r) \/ ScoreLoss(r) \/ ReadWallet(r) \/ CreditWallet(r)
           \/ NotifyWin(r) \/ NotifyLoss(r) \/ ResetPresence(r) \/ ClearModifiers(r)
    PROVE  CInv'
<1>1. req[r] \in Request
  BY Parts DEF ReqOK
<1>2. CASE Complete(r)
  BY <1>2, CGoto, FreeLabels DEF Complete, At, AfterOpening
<1>3. CASE ScoreWin(r)
  BY <1>3, CGoto, FreeLabels DEF ScoreWin, WriteScore, At, AfterOpening
<1>4. CASE ScoreLoss(r)
  BY <1>4, CGoto, FreeLabels DEF ScoreLoss, WriteScore, At, AfterOpening
<1>5. CASE ReadWallet(r)
  <2>1. Step(r, [req[r] EXCEPT !.num = wallet[req[r].by], !.pc = "credit"])
    BY <1>5 DEF ReadWallet
  <2>2. req[r].pc \in AfterOpening /\ UNCHANGED <<opener, board>>
    BY <1>5 DEF ReadWallet, At, AfterOpening
  <2>3. QED
    BY <1>1, <2>1, <2>2, CStep DEF Request
<1>6. CASE CreditWallet(r)
  BY <1>6, CGoto, FreeLabels DEF CreditWallet, At, AfterOpening
<1>7. CASE NotifyWin(r)
  BY <1>7, CGoto, FreeLabels DEF NotifyWin, WriteScore, At, AfterOpening
<1>8. CASE NotifyLoss(r)
  BY <1>8, CGoto, FreeLabels DEF NotifyLoss, WriteScore, At, AfterOpening
<1>9. CASE ResetPresence(r)
  BY <1>9, CGoto, FreeLabels DEF ResetPresence, At, AfterOpening
<1>10. CASE ClearModifiers(r)
  BY <1>10, CGoto, FreeLabels DEF ClearModifiers, At, AfterOpening
<1>11. QED
  BY <1>2, <1>3, <1>4, <1>5, <1>6, <1>7, <1>8, <1>9, <1>10

LEMMA COther ==
    ASSUME TInv, CInv, NEW r \in Slots,
           \/ InsertSecret(r) \/ LookAtSecrets(r) \/ GuardUpdate(r) \/ SetStatus(r)
           \/ SetInMatch(r) \/ Reveal(r) \/ StrikeShield(r) \/ AddModifier(r) \/ FindUndo(r)
           \/ EraseGuess(r) \/ ChargeItem(r) \/ Crash(r)
    PROVE  CInv'
<1>1. /\ req[r] \in Request /\ {"arm", "charge"} \subseteq Labels
      /\ {"look", "guard", "set_status", "in_match", "arm", "erase", "charge"} \cap AfterOpening = {}
  BY Parts DEF ReqOK, Labels, AfterOpening
<1>2. CASE InsertSecret(r) \/ GuardUpdate(r) \/ SetStatus(r) \/ SetInMatch(r)
  BY <1>1, <1>2, CGoto, CReturn, FreeLabels DEF InsertSecret, GuardUpdate, SetStatus, SetInMatch
<1>3. CASE LookAtSecrets(r)
  BY <1>1, <1>3, CStep DEF LookAtSecrets, Request
<1>4. CASE Reveal(r) \/ StrikeShield(r) \/ AddModifier(r)
  BY <1>1, <1>4, CGoto, CReturn DEF Reveal, StrikeShield, AddModifier
<1>5. CASE FindUndo(r)
  <2>1. UNCHANGED <<opener, board>>
    BY <1>5 DEF FindUndo
  <2>2. CASE Return(r)
    BY <2>1, <2>2, CReturn
  <2>3. CASE ~Return(r)
    <3>1. PICK g : Step(r, [req[r] EXCEPT !.pc = "erase", !.id = g.id])
      BY <1>5, <2>3 DEF FindUndo
    <3>2. QED
      BY <1>1, <2>1, <3>1, CStep DEF Request
  <2>4. QED
    BY <2>2, <2>3
<1>6. CASE EraseGuess(r)
  <2>1. board' # {} => board # {}
    BY <1>6 DEF EraseGuess
  <2>2. QED
    BY <1>1, <1>6, <2>1, CGoto DEF EraseGuess
<1>7. CASE ChargeItem(r) \/ Crash(r)
  BY <1>7, CReturn DEF ChargeItem, Crash
<1>8. QED
  BY <1>2, <1>3, <1>4, <1>5, <1>6, <1>7

LEMMA CNext == TInv /\ CInv /\ [Next]_vars => CInv'
<1> SUFFICES ASSUME TInv, CInv, [Next]_vars PROVE CInv'
  OBVIOUS
<1>1. ASSUME NEW r \in Slots, GuessBegin(r) \/ SecretBegin(r) \/ PowerBegin(r) PROVE CInv'
  BY <1>1, CBegin
<1>2. ASSUME NEW r \in Slots, SlotStep(r) \/ Crash(r) PROVE CInv'
  BY <1>2, CGuess, CComplete, COther DEF SlotStep
<1>3. CASE JobScan \/ JobReset \/ JobMark
  BY <1>3 DEF JobScan, JobReset, JobMark, CInv, CreatorOpens, Passed
<1>4. CASE UNCHANGED vars
  BY <1>4 DEF vars, CInv, CreatorOpens, Passed
<1>5. QED
  BY <1>1, <1>2, <1>3, <1>4 DEF Next

\* The first guess ever recorded in a game is the creator's, however many
\* requests of both players race with the check for it, and with undos.
THEOREM TheCreatorOpens == Spec => []CreatorOpens
<1>1. CInv => CreatorOpens
  BY DEF CInv
<1>2. QED
  BY <1>1, TypeInit, TypeNext, CInit, CNext, PTL DEF Spec

(***************************************************************************)
(* Nobody is charged for nothing.  The copy of the inventory a handler     *)
(* holds accounts for everything but effects, and effects are never taken  *)
(* back; once its own effect is applied, the copy has one to spare.        *)
(***************************************************************************)
Using(r) == req[r].pc \in {"effect", "arm", "erase", "charge"}

Accounted(r) ==
    Using(r) /\ Member(req[r].by) =>
        /\ \A i \in Items : req[r].items[i] + used[req[r].by][i] >= Charges
        /\ req[r].pc = "charge" =>
              req[r].items[req[r].item] + used[req[r].by][req[r].item] > Charges

NInv == NeverChargedForNothing /\ \A r \in Slots : Accounted(r)

UsedMore == \A p \in Seats, i \in Items : used'[p][i] \in Nat /\ used'[p][i] >= used[p][i]

LEMMA NTypes ==
    ASSUME TInv
    PROVE  /\ Charges \in Nat
           /\ \A p \in Seats, i \in Items : inv[p][i] \in Nat /\ used[p][i] \in Nat
           /\ \A r \in Slots : /\ req[r] \in Request /\ req[r].by \in Seats
                               /\ \A i \in Items : req[r].items[i] \in Nat
                               /\ Using(r) => req[r].item \in Items
BY Parts, MatchAssumption DEF ReqOK, Request, InvOK, HistoryOK, Using, Held

LEMMA AppliedMore ==
    ASSUME TInv, NEW r \in Slots, Using(r), Applied(r)
    PROVE  /\ UsedMore
           /\ used'[req[r].by][req[r].item] = used[req[r].by][req[r].item] + 1
<1>1. used \in [Seats -> [Items -> Nat]] /\ req[r].by \in Seats /\ req[r].item \in Items
  BY NTypes, Parts DEF HistoryOK
<1>2. used' = [used EXCEPT ![req[r].by][req[r].item] = @ + 1]
  BY DEF Applied
<1> DEFINE b == req[r].by
           c == req[r].item
<1>3. \A p \in Seats, i \in Items :
         used'[p][i] = IF p = b /\ i = c THEN used[p][i] + 1 ELSE used[p][i]
  BY <1>1, <1>2
<1>4. QED
  BY <1>1, <1>3 DEF UsedMore

\* A step that leaves the inventories alone; effects are only ever added.
LEMMA NFrame ==
    ASSUME TInv, NInv, NEW r \in Slots, UNCHANGED <<mode, inv>>, UNCHANGED used \/ UsedMore,
           \A s \in Slots : s # r => req'[s] = req[s],
           Accounted(r)'
    PROVE  NInv'
<1>1. UsedMore
  BY NTypes DEF UsedMore
<1>2. \A p \in Seats : Member(p)' = Member(p)
  BY DEF Member
<1>3. NeverChargedForNothing'
  <2> SUFFICES ASSUME NEW p \in Seats, NEW i \in Items, Member(p)
               PROVE  inv'[p][i] + used'[p][i] >= Charges
    BY <1>2 DEF NeverChargedForNothing
  <2>1. inv[p][i] + used[p][i] >= Charges
    BY DEF NInv, NeverChargedForNothing
  <2>2. QED
    BY <1>1, <2>1, NTypes DEF UsedMore
<1>4. ASSUME NEW s \in Slots, s # r PROVE Accounted(s)'
  <2>1. Accounted(s) /\ req'[s] = req[s] /\ req[s].by \in Seats
    BY <1>4, NTypes DEF NInv
  <2>2. CASE ~(Using(s) /\ Member(req[s].by))
    BY <1>2, <2>1, <2>2 DEF Accounted, Using
  <2>3. CASE Using(s) /\ Member(req[s].by)
    <3>1. ASSUME NEW i \in Items
          PROVE  req'[s].items[i] + used'[req'[s].by][i] >= Charges
      BY <1>1, <2>1, <2>3, NTypes DEF Accounted, UsedMore
    <3>2. ASSUME req'[s].pc = "charge"
          PROVE  req'[s].items[req'[s].item] + used'[req'[s].by][req'[s].item] > Charges
      BY <1>1, <2>1, <2>3, <3>2, NTypes DEF Accounted, UsedMore
    <3>3. QED
      BY <3>1, <3>2 DEF Accounted
  <2>4. QED
    BY <2>2, <2>3
<1>5. QED
  BY <1>3, <1>4 DEF NInv

LEMMA NReturn ==
    ASSUME TInv, NInv, NEW r \in Slots, Return(r), UNCHANGED <<mode, inv, used>>
    PROVE  NInv'
<1>1. ~Using(r)' /\ \A s \in Slots : s # r => req'[s] = req[s]
  BY AfterReturn DEF Using
<1>2. QED
  BY <1>1, NFrame DEF Accounted

\* Steps of handlers that use no power-up.
LEMMA NGoto ==
    ASSUME TInv, NInv, NEW r \in Slots, NEW l \in Free, Goto(r, l), UNCHANGED <<mode, inv, used>>
    PROVE  NInv'
<1>1. ~Using(r)' /\ \A s \in Slots : s # r => req'[s] = req[s]
  BY AfterGoto, FreeLabels DEF Using, Free
<1>2. QED
  BY <1>1, NFrame DEF Accounted

LEMMA NStep ==
    ASSUME TInv, NInv, NEW r \in Slots, NEW q, Step(r, q), UNCHANGED <<mode, inv, used>>,
           q.pc \notin {"effect", "arm", "erase", "charge"}
    PROVE  NInv'
<1>1. ~Using(r)' /\ \A s \in Slots : s # r => req'[s] = req[s]
  BY AfterStep DEF Using
<1>2. QED
  BY <1>1, NFrame DEF Accounted

\* The effect is applied, now or by the same step's last write.
LEMMA NApply ==
    ASSUME TInv, NInv, NEW r \in Slots, Using(r), req[r].pc # "charge",
           Goto(r, "charge"), Applied(r), UNCHANGED <<mode, inv>>
    PROVE  NInv'
<1>1. /\ UsedMore
      /\ used'[req[r].by][req[r].item] = used[req[r].by][req[r].item] + 1
  BY AppliedMore
<1>2. /\ req'[r].by = req[r].by /\ req'[r].item = req[r].item /\ req'[r].items = req[r].items
      /\ \A s \in Slots : s # r => req'[s] = req[s]
  BY AfterGoto DEF Labels
<1>3. Accounted(r)'
  <2> SUFFICES ASSUME Member(req[r].by)
               PROVE  /\ \A i \in Items : req[r].items[i] + used'[req[r].by][i] >= Charges
                      /\ req[r].items[req[r].item] + used'[req[r].by][req[r].item] > Charges
    BY <1>2 DEF Accounted, Member
  <2>1. \A i \in Items : req[r].items[i] + used[req[r].by][i] >= Charges
    BY DEF NInv, Accounted
  <2>2. QED
    BY <1>1, <2>1, NTypes DEF UsedMore
<1>4. QED
  BY <1>1, <1>2, <1>3, NFrame

\* The effect has begun and is not applied yet.
LEMMA NProceed ==
    ASSUME TInv, NInv, NEW r \in Slots, Using(r), NEW q, Step(r, q), q.pc \in {"arm", "erase"},
           q.by = req[r].by, q.items = req[r].items, UNCHANGED <<mode, inv, used>>
    PROVE  NInv'
<1>1. req'[r] = q /\ \A s \in Slots : s # r => req'[s] = req[s]
  BY AfterStep
<1>2. Accounted(r)'
  BY <1>1 DEF NInv, Accounted, Member
<1>3. QED
  BY <1>1, <1>2, NFrame

LEMMA NInit == Init => NInv
<1> SUFFICES ASSUME Init PROVE NInv
  OBVIOUS
<1>1. \A r \in Slots : ~Using(r)
  BY DEF Init, Using, Idle
<1>2. \A p \in Seats, i \in Items : used[p][i] = 0 /\ (Member(p) => inv[p][i] = Charges)
  BY DEF Init
<1>3. QED
  BY <1>1, <1>2, MatchAssumption DEF NInv, NeverChargedForNothing, Accounted

LEMMA NBegin ==
    ASSUME TInv, NInv, NEW r \in Slots, GuessBegin(r) \/ SecretBegin(r) \/ PowerBegin(r)
    PROVE  NInv'
<1>1. UNCHANGED <<mode, inv, used>>
  BY DEF GuessBegin, SecretBegin, PowerBegin
<1>2. CASE GuessBegin(r)
  <2>1. PICK p \in Acting(r), fake \in BOOLEAN : Step(r, [Idle EXCEPT !.pc = "admit", !.by = p, !.fake = fake])
    <3>1. \A p \in Acting(r) : Armed(p, "fake_feedback") \in BOOLEAN
      BY DEF Armed
    <3>2. QED
      BY <3>1, <1>2 DEF GuessBegin, Begin
  <2>2. QED
    BY <1>1, <2>1, NStep DEF Idle
<1>3. CASE SecretBegin(r)
  <2>1. PICK p \in Acting(r) :
           Step(r, [Idle EXCEPT !.by = p, !.pc = IF secrets[p] = 0 THEN "insert" ELSE "look"])
    BY <1>3 DEF SecretBegin, Begin
  <2>2. QED
    BY <1>1, <2>1, NStep DEF Idle
<1>4. CASE PowerBegin(r)
  <2>1. PICK p \in Acting(r), i \in Items :
           Step(r, [Idle EXCEPT !.pc = "effect", !.by = p, !.item = i, !.items = inv[p]])
    BY <1>4 DEF PowerBegin, Begin
  <2>2. p \in Seats
    BY ActingSeat
  <2> DEFINE q == [Idle EXCEPT !.pc = "effect", !.by = p, !.item = i, !.items = inv[p]]
  <2>q. q.pc = "effect" /\ q.by = p /\ q.items = inv[p]
    BY DEF Idle
  <2>s. Step(r, q)
    BY <2>1
  <2> HIDE DEF q
  <2>3. /\ req'[r].pc = "effect" /\ req'[r].by = p /\ req'[r].items = inv[p]
        /\ \A s \in Slots : s # r => req'[s] = req[s]
    BY <2>q, <2>s, AfterStep
  <2>4. Member(p) => \A j \in Items : inv[p][j] + used[p][j] >= Charges
    BY <2>2 DEF NInv, NeverChargedForNothing
  <2>5. Accounted(r)'
    BY <1>1, <2>3, <2>4 DEF Accounted, Member
  <2>6. QED
    BY <1>1, <2>3, <2>5, NFrame
<1>5. QED
  BY <1>2, <1>3, <1>4

LEMMA NGuess ==
    ASSUME TInv, NInv, NEW r \in Slots,
           \/ Admit(r) \/ ConsumeSkip(r) \/ CheckOpening(r) \/ Score(r) \/ ConsumeExtra(r)
           \/ PassTurn(r) \/ RecordGuess(r) \/ MarkGhost(r) \/ GuessEnd(r)
    PROVE  NInv'
<1>1. req[r] \in Request
  BY Parts DEF ReqOK
<1>2. UNCHANGED <<mode, inv, used>>
  BY DEF Admit, ConsumeSkip, CheckOpening, Score, ConsumeExtra, PassTurn, RecordGuess, MarkGhost,
         GuessEnd
<1>3. CASE Return(r)
  BY <1>2, <1>3, NReturn
<1>4. CASE Admit(r) /\ ~Return(r)
  <2>1. Step(r, [req[r] EXCEPT !.last = last, !.pc = IF last = req[r].by THEN "skip" ELSE "opening"])
    BY <1>4 DEF Admit
  <2>2. QED
    BY <1>1, <1>2, <2>1, NStep DEF Request
<1>5. CASE (ConsumeSkip(r) \/ CheckOpening(r)) /\ ~Return(r)
  BY <1>2, <1>5, NGoto, FreeLabels DEF ConsumeSkip, CheckOpening
<1>6. CASE Score(r) /\ ~Return(r)
  <2>1. PICK win \in BOOLEAN :
           Step(r, [req[r] EXCEPT !.pc    = IF win THEN "complete" ELSE "extra",
                                  !.ghost = Armed(req[r].by, "ghost_guess")])
    BY <1>6 DEF Score
  <2>2. QED
    BY <1>1, <1>2, <2>1, NStep DEF Request
<1>7. CASE ConsumeExtra(r)
  BY <1>1, <1>2, <1>7, NStep DEF ConsumeExtra, Request
<1>8. CASE RecordGuess(r)
  <2>1. Step(r, [req[r] EXCEPT !.pc = IF req[r].ghost THEN "mark_ghost" ELSE "feedback",
                               !.id = nextId])
    BY <1>8 DEF RecordGuess
  <2>2. QED
    BY <1>1, <1>2, <2>1, NStep DEF Request
<1>9. CASE PassTurn(r) \/ MarkGhost(r)
  BY <1>2, <1>9, NGoto, FreeLabels DEF PassTurn, MarkGhost
<1>10. CASE GuessEnd(r)
  BY <1>3, <1>10 DEF GuessEnd
<1>11. QED
  BY <1>3, <1>4, <1>5, <1>6, <1>7, <1>8, <1>9, <1>10

LEMMA NComplete ==
    ASSUME TInv, NInv, NEW r \in Slots,
           \/ Complete(r) \/ ScoreWin(r) \/ ScoreLoss(r) \/ ReadWallet(r) \/ CreditWallet(r)
           \/ NotifyWin(r) \/ NotifyLoss(r) \/ ResetPresence(r) \/ ClearModifiers(r)
    PROVE  NInv'
<1>1. req[r] \in Request
  BY Parts DEF ReqOK
<1>2. UNCHANGED <<mode, inv, used>>
  BY DEF Complete, ScoreWin, ScoreLoss, NotifyWin, NotifyLoss, WriteScore, ReadWallet,
         CreditWallet, ResetPresence, ClearModifiers
<1>3. CASE Complete(r) \/ CreditWallet(r) \/ ResetPresence(r) \/ ClearModifiers(r)
  BY <1>2, <1>3, NGoto, FreeLabels DEF Complete, CreditWallet, ResetPresence, ClearModifiers
<1>4. CASE ScoreWin(r) \/ ScoreLoss(r) \/ NotifyWin(r) \/ NotifyLoss(r)
  BY <1>2, <1>4, NGoto, FreeLabels DEF ScoreWin, ScoreLoss, NotifyWin, NotifyLoss, WriteScore
<1>5. CASE ReadWallet(r)
  BY <1>1, <1>2, <1>5, NStep DEF ReadWallet, Request
<1>6. QED
  BY <1>3, <1>4, <1>5

LEMMA NSecret ==
    ASSUME TInv, NInv, NEW r \in Slots,
           \/ InsertSecret(r) \/ LookAtSecrets(r) \/ GuardUpdate(r) \/ SetStatus(r)
           \/ SetInMatch(r) \/ Crash(r)
    PROVE  NInv'
<1>1. req[r] \in Request
  BY Parts DEF ReqOK
<1>2. UNCHANGED <<mode, inv, used>>
  BY DEF InsertSecret, LookAtSecrets, GuardUpdate, SetStatus, SetInMatch, Crash
<1>3. CASE LookAtSecrets(r)
  BY <1>1, <1>2, <1>3, NStep DEF LookAtSecrets, Request
<1>4. CASE ~LookAtSecrets(r)
  BY <1>2, <1>4, NGoto, NReturn, FreeLabels
  DEF InsertSecret, GuardUpdate, SetStatus, SetInMatch, Crash
<1>5. QED
  BY <1>3, <1>4

\* The write back: one charge less than a copy that had one to spare.
LEMMA NCharge == ASSUME TInv, NInv, NEW r \in Slots, ChargeItem(r) PROVE NInv'
<1> DEFINE b == req[r].by
           c == req[r].item
           f == [req[r].items EXCEPT ![c] = @ - 1]
<1>1. /\ Using(r) /\ req[r].pc = "charge" /\ b \in Seats /\ c \in Items
      /\ req[r].items \in [Items -> Nat] /\ inv \in [Seats -> [Items -> Nat]]
  BY NTypes, Parts DEF ChargeItem, At, Using, InvOK, ReqOK, Request
<1>2. /\ UNCHANGED <<mode, used>> /\ inv' = [inv EXCEPT ![b] = f]
      /\ ~Using(r)' /\ \A s \in Slots : s # r => req'[s] = req[s]
  BY AfterReturn DEF ChargeItem, Using
<1>3. \A i \in Items : f[i] = IF i = c THEN req[r].items[i] - 1 ELSE req[r].items[i]
  BY <1>1
<1> HIDE DEF f
<1>4. Member(b) => \A i \in Items : f[i] + used[b][i] >= Charges
  <2>1. Member(b) => /\ \A i \in Items : req[r].items[i] + used[b][i] >= Charges
                     /\ req[r].items[c] + used[b][c] > Charges
    BY <1>1 DEF NInv, Accounted
  <2>2. QED
    BY <1>1, <1>3, <2>1, NTypes
<1>5. NeverChargedForNothing'
  <2> SUFFICES ASSUME NEW p \in Seats, NEW i \in Items, Member(p)
               PROVE  inv'[p][i] + used[p][i] >= Charges
    BY <1>2 DEF NeverChargedForNothing, Member
  <2>1. CASE p = b
    BY <1>1, <1>2, <1>4, <2>1
  <2>2. CASE p # b
    BY <1>1, <1>2, <2>2 DEF NInv, NeverChargedForNothing
  <2>3. QED
    BY <2>1, <2>2
<1>6. \A s \in Slots : Accounted(s)'
  BY <1>2 DEF NInv, Accounted, Using, Member
<1>7. QED
  BY <1>5, <1>6 DEF NInv

LEMMA NPower ==
    ASSUME TInv, NInv, NEW r \in Slots,
           \/ Reveal(r) \/ StrikeShield(r) \/ AddModifier(r) \/ FindUndo(r) \/ EraseGuess(r)
    PROVE  NInv'
<1>1. /\ req[r] \in Request /\ Using(r) /\ req[r].pc # "charge" /\ UNCHANGED <<mode, inv>>
  BY Parts DEF ReqOK, Using, At, Reveal, StrikeShield, AddModifier, FindUndo, EraseGuess
<1>2. CASE Return(r)
  <2>1. UNCHANGED used
    BY <1>2, AfterReturn, AfterGoto
    DEF Reveal, StrikeShield, AddModifier, FindUndo, EraseGuess, Labels
  <2>2. QED
    BY <1>1, <1>2, <2>1, NReturn
<1>3. CASE Goto(r, "charge") /\ Applied(r)
  BY <1>1, <1>3, NApply
<1>4. CASE StrikeShield(r) /\ Goto(r, "arm") /\ UNCHANGED used
  BY <1>1, <1>4, NProceed DEF Goto, Request
<1>5. CASE FindUndo(r) /\ ~Return(r)
  <2>1. PICK g : Step(r, [req[r] EXCEPT !.pc = "erase", !.id = g.id])
    BY <1>5 DEF FindUndo
  <2>2. UNCHANGED used
    BY <1>5 DEF FindUndo
  <2>3. QED
    BY <1>1, <2>1, <2>2, NProceed DEF Request
<1>6. QED
  BY <1>2, <1>3, <1>4, <1>5 DEF Reveal, StrikeShield, AddModifier, EraseGuess

LEMMA NNext == TInv /\ NInv /\ [Next]_vars => NInv'
<1> SUFFICES ASSUME TInv, NInv, [Next]_vars PROVE NInv'
  OBVIOUS
<1>1. ASSUME NEW r \in Slots, GuessBegin(r) \/ SecretBegin(r) \/ PowerBegin(r) PROVE NInv'
  BY <1>1, NBegin
<1>2. ASSUME NEW r \in Slots, SlotStep(r) \/ Crash(r) PROVE NInv'
  BY <1>2, NGuess, NComplete, NSecret, NPower, NCharge DEF SlotStep
<1>3. CASE JobScan \/ JobReset \/ JobMark
  BY <1>3 DEF JobScan, JobReset, JobMark, NInv, NeverChargedForNothing, Accounted, Using, Member
<1>4. CASE UNCHANGED vars
  BY <1>4 DEF vars, NInv, NeverChargedForNothing, Accounted, Using, Member
<1>5. QED
  BY <1>1, <1>2, <1>3, <1>4 DEF Next

\* use_powerup never takes a charge without an effect: the missing charges
\* never outnumber the applied effects, with any number of uses, failures
\* and killed requests in between.
THEOREM ChargesAreEarned == Spec => []NeverChargedForNothing
<1>1. NInv => NeverChargedForNothing
  BY DEF NInv
<1>2. QED
  BY <1>1, TypeInit, TypeNext, NInit, NNext, PTL DEF Spec
=============================================================================
