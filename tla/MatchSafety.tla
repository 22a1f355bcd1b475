---------------------------- MODULE MatchSafety ----------------------------
(***************************************************************************)
(* What else holds of every game: results are recorded in order, only an   *)
(* undo or a killed request locks the board, clients that wait for their   *)
(* turn alternate and are shown the winner, and what a polled session says *)
(* holds.                                                                  *)
(***************************************************************************)
EXTENDS MatchProofs, MatchView, FiniteSetTheorems

USE DEF stored, game, table, rewards, bounds, history

(***************************************************************************)
(* Where a handler goes from each of its labels; it keeps its player and   *)
(* its power-up until it returns.                                          *)
(***************************************************************************)
Edge(l, m) ==
    \/ (l = "admit" /\ m \in {"skip", "opening"})
    \/ (l = "skip" /\ m = "opening")
    \/ (l = "opening" /\ m = "score")
    \/ (l = "score" /\ m \in {"complete", "extra"})
    \/ (l = "extra" /\ m = "turn")
    \/ (l = "turn" /\ m = "record")
    \/ (l = "record" /\ m \in {"mark_ghost", "feedback"})
    \/ (l = "mark_ghost" /\ m = "feedback")
    \/ (l = "complete" /\ m = "win")
    \/ (l = "win" /\ m = "loss")
    \/ (l = "loss" /\ m \in {"wallet", "notify_loss", "online"})
    \/ (l = "wallet" /\ m = "credit")
    \/ (l = "credit" /\ m = "notify_win")
    \/ (l = "notify_win" /\ m \in {"notify_loss", "online"})
    \/ (l = "notify_loss" /\ m = "online")
    \/ (l = "online" /\ m = "clear")
    \/ (l = "clear" /\ m = "record")
    \/ (l = "insert" /\ m = "look")
    \/ (l = "look" /\ m = "guard")
    \/ (l = "guard" /\ m = "set_status")
    \/ (l = "set_status" /\ m = "in_match")
    \/ (l = "effect" /\ m \in {"arm", "erase", "charge"})
    \/ (l \in {"arm", "erase"} /\ m = "charge")

Alone(r)    == \A s \in Slots : s # r => req'[s] = req[s]
Follows(r)  == /\ Edge(req[r].pc, req'[r].pc) /\ req'[r].by = req[r].by /\ req'[r].item = req[r].item
               /\ req[r].pc # "extra" => req'[r].extra = req[r].extra
Leaves(r)   == req'[r] = Idle

LEMMA Slot == ASSUME TInv, NEW r \in Slots PROVE ReqOK /\ req[r] \in Request
BY Parts DEF ReqOK

LEMMA FollowGoto ==
    ASSUME TInv, NEW r \in Slots, NEW l \in Labels, Goto(r, l), Edge(req[r].pc, l)
    PROVE  Alone(r) /\ Follows(r) /\ req'[r].pc = l
<1>1. req'[r] = [req[r] EXCEPT !.pc = l] /\ req[r] \in Request /\ Alone(r)
  BY Slot, GotoSlot DEF Alone
<1>2. /\ req'[r].pc = l /\ req'[r].by = req[r].by /\ req'[r].item = req[r].item
      /\ req'[r].extra = req[r].extra
  BY <1>1 DEF Request
<1>3. QED BY <1>1, <1>2 DEF Follows

LEMMA FollowStep ==
    ASSUME TInv, NEW r \in Slots, NEW q, Step(r, q), Edge(req[r].pc, q.pc),
           q.by = req[r].by, q.item = req[r].item, req[r].pc # "extra" => q.extra = req[r].extra
    PROVE  Alone(r) /\ Follows(r)
<1>1. req'[r] = q /\ Alone(r)
  BY AfterStep DEF Alone
<1>2. QED BY <1>1 DEF Follows

LEMMA LeaveSlot ==
    ASSUME TInv, NEW r \in Slots, Return(r)
    PROVE  Alone(r) /\ Leaves(r)
BY AfterStep DEF Alone, Leaves, Return

LEMMA FollowGuess ==
    ASSUME TInv, NEW r \in Slots,
           \/ Admit(r) \/ ConsumeSkip(r) \/ CheckOpening(r) \/ Score(r) \/ ConsumeExtra(r)
           \/ PassTurn(r) \/ RecordGuess(r) \/ MarkGhost(r) \/ GuessEnd(r)
    PROVE  Alone(r) /\ req[r].pc # "idle" /\ (Leaves(r) \/ Follows(r))
<1>0. req[r] \in Request
  BY Slot
<1>1. CASE Admit(r)
  <2>1. CASE status # "started"
    BY <1>1, <2>1, LeaveSlot DEF Admit, At
  <2>2. CASE status = "started"
    <3>1. Step(r, [req[r] EXCEPT !.last = last, !.pc = IF last = req[r].by THEN "skip" ELSE "opening"])
      BY <1>1, <2>2 DEF Admit
    <3>2. QED
      <4> DEFINE q == [req[r] EXCEPT !.last = last, !.pc = IF last = req[r].by THEN "skip" ELSE "opening"]
      <4>1. q.pc \in {"skip", "opening"} /\ q.by = req[r].by /\ q.item = req[r].item /\ q.extra = req[r].extra
        BY <1>0 DEF Request
      <4>2. Step(r, q)
        BY <3>1
      <4> HIDE DEF q
      <4>3. Edge(req[r].pc, q.pc) /\ req[r].pc # "idle"
        BY <1>1, <4>1 DEF Admit, At, Edge
      <4>4. QED BY <4>1, <4>2, <4>3, FollowStep
  <2>3. QED BY <2>1, <2>2
<1>2. CASE ConsumeSkip(r)
  BY <1>2, FollowGoto, LeaveSlot, FreeLabels DEF ConsumeSkip, At, Edge
<1>3. CASE CheckOpening(r)
  BY <1>3, FollowGoto, LeaveSlot, FreeLabels DEF CheckOpening, At, Edge
<1>4. CASE Score(r)
  <2>1. CASE Return(r)
    BY <1>4, <2>1, LeaveSlot DEF Score, At
  <2>2. CASE ~Return(r)
    <3>1. PICK win \in BOOLEAN :
             Step(r, [req[r] EXCEPT !.pc = IF win THEN "complete" ELSE "extra",
                                    !.ghost = Armed(req[r].by, "ghost_guess")])
      BY <1>4, <2>2 DEF Score
    <3>2. QED
      <4> DEFINE q == [req[r] EXCEPT !.pc = IF win THEN "complete" ELSE "extra", !.ghost = Armed(req[r].by, "ghost_guess")]
      <4>1. q.pc \in {"complete", "extra"} /\ q.by = req[r].by /\ q.item = req[r].item /\ q.extra = req[r].extra
        BY <1>0 DEF Request
      <4>2. Step(r, q)
        BY <3>1
      <4> HIDE DEF q
      <4>3. Edge(req[r].pc, q.pc) /\ req[r].pc # "idle"
        BY <1>4, <4>1 DEF Score, At, Edge
      <4>4. QED BY <4>1, <4>2, <4>3, FollowStep
  <2>3. QED BY <2>1, <2>2
<1>5. CASE ConsumeExtra(r)
  <2>1. Step(r, [req[r] EXCEPT !.pc = "turn", !.extra = Armed(req[r].by, "extra_turn")])
    BY <1>5 DEF ConsumeExtra
  <2>2. QED
    <3> DEFINE q == [req[r] EXCEPT !.pc = "turn", !.extra = Armed(req[r].by, "extra_turn")]
    <3>1. q.pc \in {"turn"} /\ q.by = req[r].by /\ q.item = req[r].item
      BY <1>0 DEF Request
    <3>2. Step(r, q)
      BY <2>1
    <3> HIDE DEF q
    <3>3. Edge(req[r].pc, q.pc) /\ req[r].pc # "idle"
      BY <1>5, <3>1 DEF ConsumeExtra, At, Edge
    <3>4. QED BY <3>1, <3>2, <3>3, FollowStep, <1>5 DEF ConsumeExtra, At
<1>6. CASE PassTurn(r)
  BY <1>6, FollowGoto, FreeLabels DEF PassTurn, At, Edge
<1>7. CASE RecordGuess(r)
  <2>1. Step(r, [req[r] EXCEPT !.pc = IF req[r].ghost THEN "mark_ghost" ELSE "feedback", !.id = nextId])
    BY <1>7 DEF RecordGuess
  <2>2. QED
    <3> DEFINE q == [req[r] EXCEPT !.pc = IF req[r].ghost THEN "mark_ghost" ELSE "feedback", !.id = nextId]
    <3>1. q.pc \in {"mark_ghost", "feedback"} /\ q.by = req[r].by /\ q.item = req[r].item /\ q.extra = req[r].extra
      BY <1>0 DEF Request
    <3>2. Step(r, q)
      BY <2>1
    <3> HIDE DEF q
    <3>3. Edge(req[r].pc, q.pc) /\ req[r].pc # "idle"
      BY <1>7, <3>1 DEF RecordGuess, At, Edge
    <3>4. QED BY <3>1, <3>2, <3>3, FollowStep
<1>8. CASE MarkGhost(r)
  BY <1>8, FollowGoto, FreeLabels DEF MarkGhost, At, Edge
<1>9. CASE GuessEnd(r)
  BY <1>9, LeaveSlot DEF GuessEnd, At
<1>10. QED BY <1>1, <1>2, <1>3, <1>4, <1>5, <1>6, <1>7, <1>8, <1>9

LEMMA FollowComplete ==
    ASSUME TInv, NEW r \in Slots,
           \/ Complete(r) \/ ScoreWin(r) \/ ScoreLoss(r) \/ ReadWallet(r) \/ CreditWallet(r)
           \/ NotifyWin(r) \/ NotifyLoss(r) \/ ResetPresence(r) \/ ClearModifiers(r)
    PROVE  Alone(r) /\ req[r].pc # "idle" /\ Follows(r)
<1>0. req[r] \in Request
  BY Slot
<1>1. CASE Complete(r)
  BY <1>1, FollowGoto, FreeLabels DEF Complete, At, Edge
<1>2. CASE ScoreWin(r)
  BY <1>2, FollowGoto, FreeLabels DEF ScoreWin, WriteScore, At, Edge
<1>3. CASE ScoreLoss(r)
  BY <1>3, FollowGoto, FreeLabels DEF ScoreLoss, WriteScore, At, Edge
<1>4. CASE ReadWallet(r)
  <2>1. Step(r, [req[r] EXCEPT !.num = wallet[req[r].by], !.pc = "credit"])
    BY <1>4 DEF ReadWallet
  <2>2. QED
    <3> DEFINE q == [req[r] EXCEPT !.num = wallet[req[r].by], !.pc = "credit"]
    <3>1. q.pc \in {"credit"} /\ q.by = req[r].by /\ q.item = req[r].item /\ q.extra = req[r].extra
      BY <1>0 DEF Request
    <3>2. Step(r, q)
      BY <2>1
    <3> HIDE DEF q
    <3>3. Edge(req[r].pc, q.pc) /\ req[r].pc # "idle"
      BY <1>4, <3>1 DEF ReadWallet, At, Edge
    <3>4. QED BY <3>1, <3>2, <3>3, FollowStep
<1>5. CASE CreditWallet(r)
  BY <1>5, FollowGoto, FreeLabels DEF CreditWallet, At, Edge
<1>6. CASE NotifyWin(r)
  BY <1>6, FollowGoto, FreeLabels DEF NotifyWin, WriteScore, At, Edge
<1>7. CASE NotifyLoss(r)
  BY <1>7, FollowGoto, FreeLabels DEF NotifyLoss, WriteScore, At, Edge
<1>8. CASE ResetPresence(r)
  BY <1>8, FollowGoto, FreeLabels DEF ResetPresence, At, Edge
<1>9. CASE ClearModifiers(r)
  BY <1>9, FollowGoto, FreeLabels DEF ClearModifiers, At, Edge
<1>10. QED BY <1>1, <1>2, <1>3, <1>4, <1>5, <1>6, <1>7, <1>8, <1>9

LEMMA FollowSecret ==
    ASSUME TInv, NEW r \in Slots,
           InsertSecret(r) \/ LookAtSecrets(r) \/ GuardUpdate(r) \/ SetStatus(r) \/ SetInMatch(r)
    PROVE  Alone(r) /\ req[r].pc # "idle" /\ (Leaves(r) \/ Follows(r))
<1>0. req[r] \in Request
  BY Slot
<1>1. CASE InsertSecret(r)
  BY <1>1, FollowGoto, FreeLabels DEF InsertSecret, At, Edge
<1>2. CASE LookAtSecrets(r)
  <2>1. Step(r, [req[r] EXCEPT !.started = \A p \in Seats : secrets[p] > 0, !.pc = "guard"])
    BY <1>2 DEF LookAtSecrets
  <2>2. QED
    <3> DEFINE q == [req[r] EXCEPT !.started = \A p \in Seats : secrets[p] > 0, !.pc = "guard"]
    <3>1. q.pc \in {"guard"} /\ q.by = req[r].by /\ q.item = req[r].item /\ q.extra = req[r].extra
      BY <1>0 DEF Request
    <3>2. Step(r, q)
      BY <2>1
    <3> HIDE DEF q
    <3>3. Edge(req[r].pc, q.pc) /\ req[r].pc # "idle"
      BY <1>2, <3>1 DEF LookAtSecrets, At, Edge
    <3>4. QED BY <3>1, <3>2, <3>3, FollowStep
<1>3. CASE GuardUpdate(r)
  BY <1>3, FollowGoto, LeaveSlot, FreeLabels DEF GuardUpdate, At, Edge
<1>4. CASE SetStatus(r)
  BY <1>4, FollowGoto, LeaveSlot, FreeLabels DEF SetStatus, At, Edge
<1>5. CASE SetInMatch(r)
  BY <1>5, LeaveSlot DEF SetInMatch, At
<1>6. QED BY <1>1, <1>2, <1>3, <1>4, <1>5

LEMMA FollowPower ==
    ASSUME TInv, NEW r \in Slots,
           \/ Reveal(r) \/ StrikeShield(r) \/ AddModifier(r) \/ FindUndo(r) \/ EraseGuess(r)
           \/ ChargeItem(r) \/ Crash(r)
    PROVE  Alone(r) /\ req[r].pc # "idle" /\ (Leaves(r) \/ Follows(r))
<1>0. req[r] \in Request /\ {"arm", "erase", "charge"} \subseteq Labels
  BY Slot DEF Labels
<1>1. CASE Reveal(r)
  BY <1>0, <1>1, FollowGoto, LeaveSlot DEF Reveal, At, Edge
<1>2. CASE StrikeShield(r)
  BY <1>0, <1>2, FollowGoto DEF StrikeShield, At, Edge
<1>3. CASE AddModifier(r)
  BY <1>0, <1>3, FollowGoto DEF AddModifier, At, Edge
<1>4. CASE FindUndo(r)
  <2>1. CASE Return(r)
    BY <1>4, <2>1, LeaveSlot DEF FindUndo, At
  <2>2. CASE ~Return(r)
    <3>1. PICK g : Step(r, [req[r] EXCEPT !.pc = "erase", !.id = g.id])
      BY <1>4, <2>2 DEF FindUndo
    <3>2. QED
      <4> DEFINE q == [req[r] EXCEPT !.pc = "erase", !.id = g.id]
      <4>1. q.pc \in {"erase"} /\ q.by = req[r].by /\ q.item = req[r].item /\ q.extra = req[r].extra
        BY <1>0 DEF Request
      <4>2. Step(r, q)
        BY <3>1
      <4> HIDE DEF q
      <4>3. Edge(req[r].pc, q.pc) /\ req[r].pc # "idle"
        BY <1>4, <4>1 DEF FindUndo, At, Edge
      <4>4. QED BY <4>1, <4>2, <4>3, FollowStep
  <2>3. QED BY <2>1, <2>2
<1>5. CASE EraseGuess(r)
  BY <1>0, <1>5, FollowGoto DEF EraseGuess, At, Edge
<1>6. CASE ChargeItem(r)
  BY <1>6, LeaveSlot DEF ChargeItem, At
<1>7. CASE Crash(r)
  BY <1>7, LeaveSlot DEF Crash, At
<1>8. QED BY <1>1, <1>2, <1>3, <1>4, <1>5, <1>6, <1>7

\* Every step of a handler in flight goes along an edge or ends it.
LEMMA Flow ==
    ASSUME TInv, NEW r \in Slots, SlotStep(r) \/ Crash(r)
    PROVE  Alone(r) /\ req[r].pc # "idle" /\ (Leaves(r) \/ Follows(r))
BY FollowGuess, FollowComplete, FollowSecret, FollowPower DEF SlotStep

\* How a handler starts, and that nothing is written by it.
Starts(r) == /\ req[r].pc = "idle"
             /\ req'[r].pc \in {"admit", "insert", "look", "effect"} /\ req'[r].by \in Acting(r)
             /\ ~req'[r].extra /\ ~req'[r].started

LEMMA StartStep ==
    ASSUME TInv, NEW r \in Slots, NEW q, Begin(r, q), q.pc \in {"admit", "insert", "look", "effect"},
           q.by \in Acting(r), ~q.extra, ~q.started
    PROVE  Alone(r) /\ Starts(r)
<1>1. req'[r] = q /\ Alone(r) /\ req[r].pc = "idle"
  BY AfterStep DEF Alone, Begin, At
<1>2. QED BY <1>1 DEF Starts

LEMMA FollowBegin ==
    ASSUME TInv, NEW r \in Slots, GuessBegin(r) \/ SecretBegin(r) \/ PowerBegin(r)
    PROVE  Alone(r) /\ Starts(r) /\ UNCHANGED <<stored, job, crashes, history>>
<1>1. CASE GuessBegin(r)
  <2>1. PICK p \in Acting(r), fake \in BOOLEAN : Begin(r, [Idle EXCEPT !.pc = "admit", !.by = p, !.fake = fake])
    <3>1. \A p \in Acting(r) : Armed(p, "fake_feedback") \in BOOLEAN
      BY DEF Armed
    <3>2. QED
      BY <3>1, <1>1 DEF GuessBegin
  <2> DEFINE q == [Idle EXCEPT !.pc = "admit", !.by = p, !.fake = fake]
  <2>2. q.pc \in {"admit"} /\ q.by = p /\ ~q.extra /\ ~q.started
    BY DEF Idle
  <2>3. Begin(r, q) /\ UNCHANGED <<stored, job, crashes, history>>
    BY <1>1, <2>1 DEF GuessBegin
  <2> HIDE DEF q
  <2>4. QED BY <2>2, <2>3, StartStep
<1>2. CASE SecretBegin(r)
  <2>1. PICK p \in Acting(r) :
           Begin(r, [Idle EXCEPT !.by = p, !.pc = IF secrets[p] = 0 THEN "insert" ELSE "look"])
    BY <1>2 DEF SecretBegin
  <2> DEFINE q == [Idle EXCEPT !.by = p, !.pc = IF secrets[p] = 0 THEN "insert" ELSE "look"]
  <2>2. q.pc \in {"insert", "look"} /\ q.by = p /\ ~q.extra /\ ~q.started
    BY DEF Idle
  <2>3. Begin(r, q) /\ UNCHANGED <<stored, job, crashes, history>>
    BY <1>2, <2>1 DEF SecretBegin
  <2> HIDE DEF q
  <2>4. QED BY <2>2, <2>3, StartStep
<1>3. CASE PowerBegin(r)
  <2>1. PICK p \in Acting(r), i \in Items :
           Begin(r, [Idle EXCEPT !.pc = "effect", !.by = p, !.item = i, !.items = inv[p]])
    BY <1>3 DEF PowerBegin
  <2> DEFINE q == [Idle EXCEPT !.pc = "effect", !.by = p, !.item = i, !.items = inv[p]]
  <2>2. q.pc \in {"effect"} /\ q.by = p /\ ~q.extra /\ ~q.started
    BY DEF Idle
  <2>3. Begin(r, q) /\ UNCHANGED <<stored, job, crashes, history>>
    BY <1>3, <2>1 DEF PowerBegin
  <2> HIDE DEF q
  <2>4. QED BY <2>2, <2>3, StartStep
<1>4. QED BY <1>1, <1>2, <1>3

\* A client that heeds its session only posts a guess when it may.
LEMMA StartLabels ==
    ASSUME TInv, NEW r \in Slots
    PROVE  /\ GuessBegin(r) => /\ req'[r].pc = "admit"
                               /\ heed => CanGuess(req'[r].by) /\ (mode = "bot" => req'[r].by = "creator")
           /\ SecretBegin(r) => req'[r].pc \in {"insert", "look"}
           /\ PowerBegin(r) => req'[r].pc = "effect" /\ Member(req'[r].by)
<1>1. ASSUME GuessBegin(r)
      PROVE  /\ req'[r].pc = "admit"
             /\ heed => CanGuess(req'[r].by) /\ (mode = "bot" => req'[r].by = "creator")
  <2>1. PICK p \in Acting(r), fake \in {FALSE} \cup BOOLEAN :
           /\ heed => CanGuess(p) /\ (mode = "bot" => p = "creator")
           /\ Begin(r, [Idle EXCEPT !.pc = "admit", !.by = p, !.fake = fake])
    <3>1. \A p \in Acting(r) : Armed(p, "fake_feedback") \in BOOLEAN
      BY DEF Armed
    <3>2. QED
      BY <3>1, <1>1 DEF GuessBegin
  <2> DEFINE q == [Idle EXCEPT !.pc = "admit", !.by = p, !.fake = fake]
  <2>2. q.pc = "admit" /\ q.by = p
    BY DEF Idle
  <2>3. Step(r, q)
    BY <2>1 DEF Begin
  <2> HIDE DEF q
  <2>4. QED BY <2>1, <2>2, <2>3, AfterStep
<1>2. ASSUME SecretBegin(r) PROVE req'[r].pc \in {"insert", "look"}
  <2>1. PICK p \in Acting(r) :
           Begin(r, [Idle EXCEPT !.by = p, !.pc = IF secrets[p] = 0 THEN "insert" ELSE "look"])
    BY <1>2 DEF SecretBegin
  <2> DEFINE q == [Idle EXCEPT !.by = p, !.pc = IF secrets[p] = 0 THEN "insert" ELSE "look"]
  <2>2. q.pc \in {"insert", "look"}
    BY DEF Idle
  <2>3. Step(r, q)
    BY <2>1 DEF Begin
  <2> HIDE DEF q
  <2>4. QED BY <2>2, <2>3, AfterStep
<1>3. ASSUME PowerBegin(r) PROVE req'[r].pc = "effect" /\ Member(req'[r].by)
  <2>1. PICK p \in Acting(r), i \in Items :
           Member(p) /\ Begin(r, [Idle EXCEPT !.pc = "effect", !.by = p, !.item = i, !.items = inv[p]])
    BY <1>3 DEF PowerBegin
  <2> DEFINE q == [Idle EXCEPT !.pc = "effect", !.by = p, !.item = i, !.items = inv[p]]
  <2>2. q.pc = "effect" /\ q.by = p
    BY DEF Idle
  <2>3. Step(r, q)
    BY <2>1 DEF Begin
  <2> HIDE DEF q
  <2>4. QED BY <2>1, <2>2, <2>3, AfterStep
<1>4. QED BY <1>1, <1>2, <1>3

\* The cases of a step.
LEMMA NextCases ==
    ASSUME [Next]_vars
    PROVE  \/ \E r \in Slots : GuessBegin(r) \/ SecretBegin(r) \/ PowerBegin(r)
           \/ \E r \in Slots : SlotStep(r) \/ Crash(r)
           \/ JobScan \/ JobReset \/ JobMark
           \/ UNCHANGED vars
BY DEF Next

(***************************************************************************)
(* Results in order.  A loss, or a notification, is owed as long as a      *)
(* handler that has written what it follows from is on its way to it; what *)
(* is written and what is owed never exceed what they follow from.  A      *)
(* killed request only owes less.                                          *)
(***************************************************************************)
Owed(labels, p) == {r \in Slots : req[r].pc \in labels /\ req[r].by = p}
WinWritten      == {"loss", "wallet", "credit", "notify_win"}
LossWritten     == {"wallet", "credit", "notify_win", "notify_loss"}

LossOwed(p)      == scores[p]["loss"] + Cardinality(Owed({"loss"}, Opponent(p))) <= scores[Opponent(p)]["win"]
WinNoteOwed(p)   == scores[p]["match_win"] + Cardinality(Owed(WinWritten, p)) <= scores[p]["win"]
LossNoteOwed(p)  == scores[p]["match_loss"] + Cardinality(Owed(LossWritten, Opponent(p))) <= scores[p]["loss"]

LInv == \A p \in Seats : LossOwed(p) /\ WinNoteOwed(p) /\ LossNoteOwed(p)

LEMMA OwedNumber ==
    ASSUME NEW labels, NEW p
    PROVE  IsFiniteSet(Owed(labels, p)) /\ Cardinality(Owed(labels, p)) \in Nat
<1>1. IsFiniteSet(Slots) /\ Owed(labels, p) \subseteq Slots
  BY MatchAssumption DEF Owed
<1>2. QED BY <1>1, FS_Subset, FS_CardinalityType

LEMMA OwedNumberNext ==
    ASSUME NEW labels, NEW p
    PROVE  IsFiniteSet(Owed(labels, p)') /\ Cardinality(Owed(labels, p)') \in Nat
<1>1. IsFiniteSet(Slots) /\ Owed(labels, p)' \subseteq Slots
  BY MatchAssumption DEF Owed
<1>2. QED BY <1>1, FS_Subset, FS_CardinalityType

\* What a step of one slot does to the number owed.
LEMMA OwedMoves ==
    ASSUME NEW r \in Slots, Alone(r), NEW labels, NEW p
    PROVE  LET n == Cardinality(Owed(labels, p))
               m == Cardinality(Owed(labels, p)')
           IN  /\ n \in Nat /\ m \in Nat
               /\ (r \in Owed(labels, p)' => r \in Owed(labels, p)) => m <= n
               /\ r \in Owed(labels, p) /\ r \notin Owed(labels, p)' => m = n - 1
               /\ m <= n + 1
<1> DEFINE S == Owed(labels, p)
           T == Owed(labels, p)'
<1>1. /\ IsFiniteSet(S) /\ Cardinality(S) \in Nat
      /\ IsFiniteSet(T) /\ Cardinality(T) \in Nat
  BY OwedNumber, OwedNumberNext
<1>2. S \ {r} = T \ {r}
  BY DEF Owed, Alone
<1> HIDE DEF S, T
<1>3. /\ Cardinality(S \ {r}) = IF r \in S THEN Cardinality(S) - 1 ELSE Cardinality(S)
      /\ Cardinality(T \ {r}) = IF r \in T THEN Cardinality(T) - 1 ELSE Cardinality(T)
  BY <1>1, FS_RemoveElement
<1>4. /\ (r \in T => r \in S) => Cardinality(T) <= Cardinality(S)
      /\ r \in S /\ r \notin T => Cardinality(T) = Cardinality(S) - 1
      /\ Cardinality(T) <= Cardinality(S) + 1
  BY <1>1, <1>2, <1>3
<1>5. QED BY <1>1, <1>4 DEF S, T

LEMMA ScoreTypes ==
    ASSUME TInv
    PROVE  /\ scores \in [Seats -> [Entries -> Nat]]
           /\ \A p \in Seats, e \in Entries : scores[p][e] \in Nat
           /\ \A r \in Slots : req[r].by \in Seats
           /\ \A p \in Seats : Opponent(p) \in Seats /\ Opponent(p) # p /\ Opponent(Opponent(p)) = p
           /\ {"win", "loss", "match_win", "match_loss"} = Entries
<1>1. scores \in [Seats -> [Entries -> Nat]]
  BY Parts DEF RewardsOK
<1>2. \A r \in Slots : req[r].by \in Seats
  BY Slot DEF Request
<1>3. QED BY <1>1, <1>2 DEF Opponent, Seats, Entries

\* A step that writes no result, and after which nothing more is owed.
LEMMA LFrame ==
    ASSUME TInv, LInv, NEW r \in Slots, Alone(r), UNCHANGED scores,
           req'[r].pc \in {"loss"} \cup WinWritten \cup LossWritten =>
               /\ req'[r].by = req[r].by
               /\ req[r].pc \in {"wallet", "credit"} /\ req'[r].pc \in {"credit", "notify_win"}
    PROVE  LInv'
<1> SUFFICES ASSUME NEW p \in Seats PROVE LossOwed(p)' /\ WinNoteOwed(p)' /\ LossNoteOwed(p)'
  BY DEF LInv
<1>1. /\ LossOwed(p) /\ WinNoteOwed(p) /\ LossNoteOwed(p)
      /\ scores[p]["loss"] \in Nat /\ scores[p]["match_win"] \in Nat /\ scores[p]["match_loss"] \in Nat
      /\ scores[p]["win"] \in Nat /\ scores[Opponent(p)]["win"] \in Nat
  BY ScoreTypes DEF LInv
<1>2. \A labels \in {{"loss"}, WinWritten, LossWritten}, q \in Seats :
         r \in Owed(labels, q)' => r \in Owed(labels, q)
  BY DEF Owed, WinWritten, LossWritten
<1>3. \A labels \in {{"loss"}, WinWritten, LossWritten}, q \in Seats :
         /\ Cardinality(Owed(labels, q)) \in Nat /\ Cardinality(Owed(labels, q)') \in Nat
         /\ Cardinality(Owed(labels, q)') <= Cardinality(Owed(labels, q))
  BY <1>2, OwedMoves
<1>4. Opponent(p) \in Seats
  BY ScoreTypes
<1>5. LossOwed(p)'
  BY <1>1, <1>3, <1>4 DEF LossOwed
<1>6. WinNoteOwed(p)'
  BY <1>1, <1>3, <1>4 DEF WinNoteOwed
<1>7. LossNoteOwed(p)'
  BY <1>1, <1>3, <1>4 DEF LossNoteOwed
<1>8. QED BY <1>5, <1>6, <1>7

\* One more entry e for seat p.
LEMMA Written ==
    ASSUME TInv, NEW p \in Seats, NEW e \in Entries, Write(p, e)
    PROVE  \A q \in Seats, f \in Entries :
              scores'[q][f] = IF q = p /\ f = e THEN scores[q][f] + 1 ELSE scores[q][f]
BY ScoreTypes DEF Write

\* The four inserts of _complete_game.
LEMMA LScoreWin == ASSUME TInv, LInv, NEW r \in Slots, ScoreWin(r) PROVE LInv'
<1> SUFFICES ASSUME NEW p \in Seats PROVE LossOwed(p)' /\ WinNoteOwed(p)' /\ LossNoteOwed(p)'
  BY DEF LInv
<1>1. /\ Alone(r) /\ req[r].pc = "win" /\ req'[r].pc = "loss" /\ req'[r].by = req[r].by
      /\ Write(req[r].by, "win")
  BY FollowGoto, FreeLabels DEF ScoreWin, WriteScore, At, Edge, Follows
<1>2. \A q \in Seats, f \in Entries :
         scores'[q][f] = IF q = req[r].by /\ f = "win" THEN scores[q][f] + 1 ELSE scores[q][f]
  BY <1>1, Written, ScoreTypes
<1>3. /\ LossOwed(p) /\ WinNoteOwed(p) /\ LossNoteOwed(p)
      /\ Opponent(p) \in Seats /\ Opponent(p) # p /\ req[r].by \in Seats
      /\ scores[p]["loss"] \in Nat /\ scores[p]["match_win"] \in Nat /\ scores[p]["match_loss"] \in Nat
      /\ scores[p]["win"] \in Nat /\ scores[Opponent(p)]["win"] \in Nat
  BY ScoreTypes DEF LInv
<1>4. LossOwed(p)'
  <2>1. scores'[p]["loss"] = scores[p]["loss"]
    BY <1>2, ScoreTypes
  <2>2. scores'[Opponent(p)]["win"] = IF req[r].by = Opponent(p) THEN scores[Opponent(p)]["win"] + 1
                                                                 ELSE scores[Opponent(p)]["win"]
    BY <1>2, <1>3, ScoreTypes
  <2>3. req[r].by # Opponent(p) => r \notin Owed({"loss"}, Opponent(p))'
    BY <1>1 DEF Owed
  <2>4. QED BY <1>1, <1>3, <2>1, <2>2, <2>3, OwedMoves DEF LossOwed
<1>5. WinNoteOwed(p)'
  <2>1. scores'[p]["match_win"] = scores[p]["match_win"]
    BY <1>2, ScoreTypes
  <2>2. scores'[p]["win"] = IF req[r].by = p THEN scores[p]["win"] + 1 ELSE scores[p]["win"]
    BY <1>2, ScoreTypes
  <2>3. req[r].by # p => r \notin Owed(WinWritten, p)'
    BY <1>1 DEF Owed
  <2>4. QED BY <1>1, <1>3, <2>1, <2>2, <2>3, OwedMoves DEF WinNoteOwed
<1>6. LossNoteOwed(p)'
  <2>1. scores'[p]["match_loss"] = scores[p]["match_loss"] /\ scores'[p]["loss"] = scores[p]["loss"]
    BY <1>2, ScoreTypes
  <2>2. r \notin Owed(LossWritten, Opponent(p))'
    BY <1>1 DEF Owed, LossWritten
  <2>3. QED BY <1>1, <1>3, <2>1, <2>2, OwedMoves DEF LossNoteOwed
<1>7. QED BY <1>4, <1>5, <1>6

LEMMA LScoreLoss == ASSUME TInv, LInv, NEW r \in Slots, ScoreLoss(r) PROVE LInv'
<1> SUFFICES ASSUME NEW p \in Seats PROVE LossOwed(p)' /\ WinNoteOwed(p)' /\ LossNoteOwed(p)'
  BY DEF LInv
<1>1. /\ Alone(r) /\ req[r].pc = "loss" /\ req'[r].pc # "loss" /\ req'[r].by = req[r].by
      /\ Write(Opponent(req[r].by), "loss")
  <2>1. PICK l \in {"wallet", "notify_loss", "online"} : Goto(r, l)
    BY DEF ScoreLoss, WriteScore
  <2>2. Edge("loss", l) /\ l \in Labels
    BY FreeLabels DEF Edge
  <2>3. QED BY <2>1, <2>2, FollowGoto DEF ScoreLoss, WriteScore, At, Follows
<1>2. /\ req[r].by \in Seats /\ Opponent(req[r].by) \in Seats /\ Opponent(Opponent(p)) = p
      /\ Opponent(Opponent(req[r].by)) = req[r].by
  BY ScoreTypes
<1>3. \A q \in Seats, f \in Entries :
         scores'[q][f] = IF q = Opponent(req[r].by) /\ f = "loss" THEN scores[q][f] + 1 ELSE scores[q][f]
  BY <1>1, <1>2, Written, ScoreTypes
<1>4. /\ LossOwed(p) /\ WinNoteOwed(p) /\ LossNoteOwed(p)
      /\ Opponent(p) \in Seats /\ Opponent(p) # p
      /\ scores[p]["loss"] \in Nat /\ scores[p]["match_win"] \in Nat /\ scores[p]["match_loss"] \in Nat
      /\ scores[p]["win"] \in Nat /\ scores[Opponent(p)]["win"] \in Nat
  BY ScoreTypes DEF LInv
<1>5. LossOwed(p)'
  <2>1. scores'[Opponent(p)]["win"] = scores[Opponent(p)]["win"]
    BY <1>3, <1>4, ScoreTypes
  <2>2. scores'[p]["loss"] = IF p = Opponent(req[r].by) THEN scores[p]["loss"] + 1 ELSE scores[p]["loss"]
    BY <1>3, ScoreTypes
  <2>3. r \notin Owed({"loss"}, Opponent(p))' /\ (p = Opponent(req[r].by) => r \in Owed({"loss"}, Opponent(p)))
    BY <1>1, <1>2 DEF Owed
  <2>4. QED BY <1>1, <1>4, <2>1, <2>2, <2>3, OwedMoves DEF LossOwed
<1>6. WinNoteOwed(p)'
  <2>1. scores'[p]["match_win"] = scores[p]["match_win"] /\ scores'[p]["win"] = scores[p]["win"]
    BY <1>3, ScoreTypes
  <2>2. r \in Owed(WinWritten, p)' => r \in Owed(WinWritten, p)
    BY <1>1 DEF Owed, WinWritten
  <2>3. QED BY <1>1, <1>4, <2>1, <2>2, OwedMoves DEF WinNoteOwed
<1>7. LossNoteOwed(p)'
  <2>1. scores'[p]["match_loss"] = scores[p]["match_loss"]
    BY <1>3, ScoreTypes
  <2>2. scores'[p]["loss"] = IF p = Opponent(req[r].by) THEN scores[p]["loss"] + 1 ELSE scores[p]["loss"]
    BY <1>3, ScoreTypes
  <2>3. p # Opponent(req[r].by) => r \notin Owed(LossWritten, Opponent(p))'
    BY <1>1, <1>2 DEF Owed
  <2>4. QED BY <1>1, <1>4, <2>1, <2>2, <2>3, OwedMoves DEF LossNoteOwed
<1>8. QED BY <1>5, <1>6, <1>7

LEMMA LNotifyWin == ASSUME TInv, LInv, NEW r \in Slots, NotifyWin(r) PROVE LInv'
<1> SUFFICES ASSUME NEW p \in Seats PROVE LossOwed(p)' /\ WinNoteOwed(p)' /\ LossNoteOwed(p)'
  BY DEF LInv
<1>1. /\ Alone(r) /\ req[r].pc = "notify_win" /\ req'[r].pc \in {"notify_loss", "online"}
      /\ req'[r].by = req[r].by /\ Write(req[r].by, "match_win")
  <2>1. PICK l \in {"notify_loss", "online"} : Goto(r, l)
    BY DEF NotifyWin, WriteScore
  <2>2. Edge("notify_win", l) /\ l \in Labels
    BY FreeLabels DEF Edge
  <2>3. QED BY <2>1, <2>2, FollowGoto DEF NotifyWin, WriteScore, At, Follows
<1>2. \A q \in Seats, f \in Entries :
         scores'[q][f] = IF q = req[r].by /\ f = "match_win" THEN scores[q][f] + 1 ELSE scores[q][f]
  BY <1>1, Written, ScoreTypes
<1>3. /\ LossOwed(p) /\ WinNoteOwed(p) /\ LossNoteOwed(p)
      /\ Opponent(p) \in Seats /\ Opponent(p) # p /\ req[r].by \in Seats
      /\ scores[p]["loss"] \in Nat /\ scores[p]["match_win"] \in Nat /\ scores[p]["match_loss"] \in Nat
      /\ scores[p]["win"] \in Nat /\ scores[Opponent(p)]["win"] \in Nat
  BY ScoreTypes DEF LInv
<1>4. LossOwed(p)'
  <2>1. scores'[p]["loss"] = scores[p]["loss"] /\ scores'[Opponent(p)]["win"] = scores[Opponent(p)]["win"]
    BY <1>2, <1>3, ScoreTypes
  <2>2. r \notin Owed({"loss"}, Opponent(p))'
    BY <1>1 DEF Owed
  <2>3. QED BY <1>1, <1>3, <2>1, <2>2, OwedMoves DEF LossOwed
<1>5. WinNoteOwed(p)'
  <2>1. scores'[p]["win"] = scores[p]["win"]
    BY <1>2, ScoreTypes
  <2>2. scores'[p]["match_win"] = IF p = req[r].by THEN scores[p]["match_win"] + 1 ELSE scores[p]["match_win"]
    BY <1>2, ScoreTypes
  <2>3. r \notin Owed(WinWritten, p)' /\ (p = req[r].by => r \in Owed(WinWritten, p))
    BY <1>1 DEF Owed, WinWritten
  <2>4. QED BY <1>1, <1>3, <2>1, <2>2, <2>3, OwedMoves DEF WinNoteOwed
<1>6. LossNoteOwed(p)'
  <2>1. scores'[p]["match_loss"] = scores[p]["match_loss"] /\ scores'[p]["loss"] = scores[p]["loss"]
    BY <1>2, ScoreTypes
  <2>2. r \in Owed(LossWritten, Opponent(p))' => r \in Owed(LossWritten, Opponent(p))
    BY <1>1 DEF Owed, LossWritten
  <2>3. QED BY <1>1, <1>3, <2>1, <2>2, OwedMoves DEF LossNoteOwed
<1>7. QED BY <1>4, <1>5, <1>6

LEMMA LNotifyLoss == ASSUME TInv, LInv, NEW r \in Slots, NotifyLoss(r) PROVE LInv'
<1> SUFFICES ASSUME NEW p \in Seats PROVE LossOwed(p)' /\ WinNoteOwed(p)' /\ LossNoteOwed(p)'
  BY DEF LInv
<1>1. /\ Alone(r) /\ req[r].pc = "notify_loss" /\ req'[r].pc = "online" /\ req'[r].by = req[r].by
      /\ Write(Opponent(req[r].by), "match_loss")
  BY FollowGoto, FreeLabels DEF NotifyLoss, WriteScore, At, Edge, Follows
<1>2. /\ req[r].by \in Seats /\ Opponent(req[r].by) \in Seats /\ Opponent(Opponent(p)) = p
      /\ Opponent(Opponent(req[r].by)) = req[r].by
  BY ScoreTypes
<1>3. \A q \in Seats, f \in Entries :
         scores'[q][f] = IF q = Opponent(req[r].by) /\ f = "match_loss" THEN scores[q][f] + 1 ELSE scores[q][f]
  BY <1>1, <1>2, Written, ScoreTypes
<1>4. /\ LossOwed(p) /\ WinNoteOwed(p) /\ LossNoteOwed(p)
      /\ Opponent(p) \in Seats /\ Opponent(p) # p
      /\ scores[p]["loss"] \in Nat /\ scores[p]["match_win"] \in Nat /\ scores[p]["match_loss"] \in Nat
      /\ scores[p]["win"] \in Nat /\ scores[Opponent(p)]["win"] \in Nat
  BY ScoreTypes DEF LInv
<1>5. LossOwed(p)' /\ WinNoteOwed(p)'
  <2>1. /\ scores'[p]["loss"] = scores[p]["loss"] /\ scores'[Opponent(p)]["win"] = scores[Opponent(p)]["win"]
        /\ scores'[p]["win"] = scores[p]["win"] /\ scores'[p]["match_win"] = scores[p]["match_win"]
    BY <1>3, <1>4, ScoreTypes
  <2>2. r \notin Owed({"loss"}, Opponent(p))' /\ r \notin Owed(WinWritten, p)'
    BY <1>1 DEF Owed, WinWritten
  <2>3. LossOwed(p)'
    BY <1>1, <1>4, <2>1, <2>2, OwedMoves DEF LossOwed
  <2>4. WinNoteOwed(p)'
    BY <1>1, <1>4, <2>1, <2>2, OwedMoves DEF WinNoteOwed
  <2>5. QED BY <2>3, <2>4
<1>6. LossNoteOwed(p)'
  <2>1. scores'[p]["loss"] = scores[p]["loss"]
    BY <1>3, ScoreTypes
  <2>2. scores'[p]["match_loss"] = IF p = Opponent(req[r].by) THEN scores[p]["match_loss"] + 1
                                                              ELSE scores[p]["match_loss"]
    BY <1>3, ScoreTypes
  <2>3. /\ r \notin Owed(LossWritten, Opponent(p))'
        /\ p = Opponent(req[r].by) => r \in Owed(LossWritten, Opponent(p))
    BY <1>1, <1>2 DEF Owed, LossWritten
  <2>4. QED BY <1>1, <1>4, <2>1, <2>2, <2>3, OwedMoves DEF LossNoteOwed
<1>7. QED BY <1>5, <1>6

\* All other steps write no result.
Inserts(r) == ScoreWin(r) \/ ScoreLoss(r) \/ NotifyWin(r) \/ NotifyLoss(r)

LEMMA OthersInsertNothing ==
    ASSUME NEW r \in Slots, SlotStep(r) \/ Crash(r), ~Inserts(r)
    PROVE  UNCHANGED scores /\ ~(req[r].pc \in {"win", "loss", "notify_win", "notify_loss"} /\ ~Crash(r))
<1>1. UNCHANGED scores
  BY DEF SlotStep, Inserts, Admit, ConsumeSkip, CheckOpening, Score, ConsumeExtra, PassTurn, RecordGuess,
     MarkGhost, GuessEnd, Complete, ReadWallet, CreditWallet, ResetPresence, ClearModifiers, InsertSecret,
     LookAtSecrets, GuardUpdate, SetStatus, SetInMatch, Reveal, StrikeShield, AddModifier, FindUndo,
     EraseGuess, ChargeItem, Crash, Everyone
<1>2. ~Crash(r) => req[r].pc \notin {"win", "loss", "notify_win", "notify_loss"}
  BY DEF SlotStep, Inserts, At, Admit, ConsumeSkip, CheckOpening, Score, ConsumeExtra, PassTurn, RecordGuess,
     MarkGhost, GuessEnd, Complete, ReadWallet, CreditWallet, ResetPresence, ClearModifiers, InsertSecret,
     LookAtSecrets, GuardUpdate, SetStatus, SetInMatch, Reveal, StrikeShield, AddModifier, FindUndo,
     EraseGuess, ChargeItem
<1>3. QED BY <1>1, <1>2

LEMMA LInit == Init => LInv
<1> SUFFICES ASSUME Init, NEW p \in Seats PROVE LossOwed(p) /\ WinNoteOwed(p) /\ LossNoteOwed(p)
  BY DEF LInv
<1>1. \A labels \in {{"loss"}, WinWritten, LossWritten}, q \in Seats : Cardinality(Owed(labels, q)) = 0
  <2>1. \A labels \in {{"loss"}, WinWritten, LossWritten}, q \in Seats : Owed(labels, q) = {}
    BY DEF Init, Owed, WinWritten, LossWritten, Idle
  <2>2. QED BY <2>1, FS_EmptySet
<1>2. Opponent(p) \in Seats /\ \A q \in Seats, e \in Entries : scores[q][e] = 0
  BY OpponentSeat DEF Init
<1>3. QED BY <1>1, <1>2 DEF LossOwed, WinNoteOwed, LossNoteOwed, Entries

LEMMA LNext == TInv /\ LInv /\ [Next]_vars => LInv'
<1> SUFFICES ASSUME TInv, LInv, [Next]_vars PROVE LInv'
  OBVIOUS
<1>1. ASSUME NEW r \in Slots, GuessBegin(r) \/ SecretBegin(r) \/ PowerBegin(r) PROVE LInv'
  <2>1. Alone(r) /\ Starts(r) /\ UNCHANGED scores
    BY <1>1, FollowBegin
  <2>2. req'[r].pc \notin {"loss"} \cup WinWritten \cup LossWritten
    BY <2>1 DEF Starts, WinWritten, LossWritten
  <2>3. QED BY <2>1, <2>2, LFrame
<1>2. ASSUME NEW r \in Slots, SlotStep(r) \/ Crash(r) PROVE LInv'
  <2>1. CASE Inserts(r)
    BY <2>1, LScoreWin, LScoreLoss, LNotifyWin, LNotifyLoss DEF Inserts
  <2>2. CASE ~Inserts(r)
    <3>1. Alone(r) /\ (Leaves(r) \/ Follows(r)) /\ UNCHANGED scores
      BY <1>2, <2>2, Flow, OthersInsertNothing
    <3>2. CASE Leaves(r)
      BY <3>1, <3>2, LFrame DEF Leaves, Idle, WinWritten, LossWritten
    <3>3. CASE Follows(r) /\ ~Leaves(r)
      <4>1. ~Crash(r)
        BY <3>3, LeaveSlot DEF Crash
      <4>2. req[r].pc \notin {"win", "loss", "notify_win", "notify_loss"}
        BY <1>2, <2>2, <4>1, OthersInsertNothing
      <4>3. req'[r].pc \in {"loss"} \cup WinWritten \cup LossWritten =>
               req[r].pc \in {"wallet", "credit"} /\ req'[r].pc \in {"credit", "notify_win"}
        BY <3>3, <4>2 DEF Follows, Edge, WinWritten, LossWritten
      <4>4. QED BY <3>1, <3>3, <4>3, LFrame DEF Follows
    <3>4. QED BY <3>1, <3>2, <3>3
  <2>3. QED BY <2>1, <2>2
<1>3. CASE JobScan \/ JobReset \/ JobMark \/ UNCHANGED vars
  <2>1. UNCHANGED <<scores, req>>
    BY <1>3 DEF JobScan, JobReset, JobMark, vars
  <2>2. \A labels \in {{"loss"}, WinWritten, LossWritten}, q \in Seats : Owed(labels, q)' = Owed(labels, q)
    BY <2>1 DEF Owed
  <2>3. \A p \in Seats : LossOwed(p)' /\ WinNoteOwed(p)' /\ LossNoteOwed(p)'
    BY <2>1, <2>2, OpponentSeat DEF LInv, LossOwed, WinNoteOwed, LossNoteOwed
  <2>4. QED BY <2>3 DEF LInv
<1>4. QED BY <1>1, <1>2, <1>3, NextCases

LEMMA TInvAlways == Spec => []TInv
BY TypeInit, TypeNext, PTL DEF Spec

\* A loss is only ever on record with the opponent's win, and a notification
\* with the score it announces, wherever the requests that complete the game
\* are killed and however many of them there are.
THEOREM ResultsInOrder == Spec => []LossNeedsWin
<1>1. TInv /\ LInv => LossNeedsWin
  <2> SUFFICES ASSUME TInv, LInv, NEW p \in Seats
               PROVE  /\ scores[p]["loss"] <= scores[Opponent(p)]["win"]
                      /\ scores[p]["match_win"] <= scores[p]["win"]
                      /\ scores[p]["match_loss"] <= scores[p]["loss"]
    BY DEF LossNeedsWin
  <2>1. /\ LossOwed(p) /\ WinNoteOwed(p) /\ LossNoteOwed(p)
        /\ scores[p]["loss"] \in Nat /\ scores[p]["match_win"] \in Nat /\ scores[p]["match_loss"] \in Nat
        /\ scores[p]["win"] \in Nat /\ scores[Opponent(p)]["win"] \in Nat
    BY ScoreTypes DEF LInv
  <2>2. QED BY <2>1, OwedNumber DEF LossOwed, WinNoteOwed, LossNoteOwed
<1>2. QED
  BY <1>1, TInvAlways, LInit, LNext, PTL DEF Spec

(***************************************************************************)
(* Who locks the board.  Guesses are erased by those who made them, so the *)
(* opening guess stays unless the creator undoes it; and as long as no     *)
(* request is killed, the creator has only moved last on an empty board    *)
(* while the request that will record the opening guess is on its way.     *)
(***************************************************************************)
Undone == "undo" \in Items /\ used["creator"]["undo"] > 0

ToRecord   == {"win", "loss", "wallet", "credit", "notify_win", "notify_loss", "online", "clear", "record"}
Opening(r) == req[r].pc \in ToRecord /\ req[r].by = "creator"

IdsGrow      == \A g \in board : g.id < nextId /\ \A h \in board : h.id = g.id => h.by = g.by
ErasesOwn(r) == At(r, "erase") => req[r].id < nextId /\ \A g \in board : g.id = req[r].id => g.by = req[r].by
OpeningStays == ~Undone /\ opener = "creator" => \E g \in board : g.by = "creator"
OpeningComes == crashes = 0 /\ last = "creator" /\ opener = "none" => \E r \in Slots : Opening(r)

UInv == IdsGrow /\ (\A r \in Slots : ErasesOwn(r)) /\ OpeningStays /\ OpeningComes

Records(r) == RecordGuess(r) \/ MarkGhost(r) \/ EraseGuess(r)
Moves(r)   == PassTurn(r) \/ Complete(r)

\* Which handlers write the board and which the turn.
LEMMA OthersKeepBoard ==
    ASSUME NEW r \in Slots, SlotStep(r) \/ Crash(r), ~Records(r)
    PROVE  UNCHANGED <<board, nextId, opener>>
BY DEF SlotStep, Records, Admit, ConsumeSkip, CheckOpening, Score, ConsumeExtra, PassTurn,
   GuessEnd, Complete, ScoreWin, ScoreLoss, NotifyWin, NotifyLoss, WriteScore, ReadWallet, CreditWallet,
   ResetPresence, ClearModifiers, InsertSecret, LookAtSecrets, GuardUpdate, SetStatus, SetInMatch, Reveal,
   StrikeShield, AddModifier, FindUndo, ChargeItem, Crash, Everyone

LEMMA OthersKeepTurn ==
    ASSUME NEW r \in Slots, SlotStep(r) \/ Crash(r), ~Moves(r)
    PROVE  UNCHANGED <<last, turns, winners>>
BY DEF SlotStep, Moves, Admit, ConsumeSkip, CheckOpening, Score, ConsumeExtra, RecordGuess, MarkGhost,
   GuessEnd, ScoreWin, ScoreLoss, NotifyWin, NotifyLoss, WriteScore, ReadWallet, CreditWallet,
   ResetPresence, ClearModifiers, InsertSecret, LookAtSecrets, GuardUpdate, SetStatus, SetInMatch, Reveal,
   StrikeShield, AddModifier, FindUndo, EraseGuess, ChargeItem, Crash, Everyone

LEMMA OthersKeepUsed ==
    ASSUME NEW r \in Slots, SlotStep(r) \/ Crash(r),
           ~(Reveal(r) \/ StrikeShield(r) \/ AddModifier(r) \/ EraseGuess(r))
    PROVE  UNCHANGED used
BY DEF SlotStep, Admit, ConsumeSkip, CheckOpening, Score, ConsumeExtra, RecordGuess, MarkGhost, PassTurn,
   GuessEnd, Complete, ScoreWin, ScoreLoss, NotifyWin, NotifyLoss, WriteScore, ReadWallet, CreditWallet,
   ResetPresence, ClearModifiers, InsertSecret, LookAtSecrets, GuardUpdate, SetStatus, SetInMatch,
   FindUndo, ChargeItem, Crash, Everyone

LEMMA OthersKeepCrashes ==
    ASSUME TInv, NEW r \in Slots, SlotStep(r) \/ Crash(r)
    PROVE  crashes' = 0 => crashes = 0 /\ ~Crash(r)
<1>1. crashes \in Nat
  BY Parts DEF BoundsOK
<1>2. Crash(r) => crashes' = crashes + 1
  BY DEF Crash
<1>3. SlotStep(r) => crashes' = crashes
  BY DEF SlotStep, Admit, ConsumeSkip, CheckOpening, Score, ConsumeExtra, RecordGuess, MarkGhost, PassTurn,
   GuessEnd, Complete, ScoreWin, ScoreLoss, NotifyWin, NotifyLoss, WriteScore, ReadWallet, CreditWallet,
   ResetPresence, ClearModifiers, InsertSecret, LookAtSecrets, GuardUpdate, SetStatus, SetInMatch, Reveal,
   StrikeShield, AddModifier, FindUndo, EraseGuess, ChargeItem, Everyone
<1>4. QED BY <1>1, <1>2, <1>3

\* An undo that happened stays.
LEMMA UsedGrows ==
    ASSUME TInv, NEW r \in Slots, SlotStep(r) \/ Crash(r)
    PROVE  Undone => Undone'
<1>1. CASE UNCHANGED used
  BY <1>1 DEF Undone
<1>2. CASE Using(r) /\ Applied(r)
  <2>1. UsedMore
    BY <1>2, AppliedMore
  <2>2. "undo" \in Items => used["creator"]["undo"] \in Nat /\ used'["creator"]["undo"] \in Nat
                            /\ used'["creator"]["undo"] >= used["creator"]["undo"]
    BY <2>1, NTypes DEF UsedMore, Seats
  <2>3. QED BY <2>2 DEF Undone
<1>3. Reveal(r) \/ StrikeShield(r) \/ AddModifier(r) \/ EraseGuess(r) => UNCHANGED used \/ (Using(r) /\ Applied(r))
  BY DEF Reveal, StrikeShield, AddModifier, EraseGuess, Using, At
<1>4. QED BY <1>1, <1>2, <1>3, OthersKeepUsed

\* A handler about to erase has just found a guess of its own.
LEMMA EraseTarget ==
    ASSUME TInv, NEW r \in Slots, SlotStep(r) \/ Crash(r), req'[r].pc = "erase"
    PROVE  /\ FindUndo(r)
           /\ \E g \in board : g.by = req[r].by /\ req'[r].id = g.id /\ req'[r].by = req[r].by
<1>1. Follows(r) /\ ~Leaves(r)
  BY Flow DEF Leaves, Idle
<1>2. req[r].pc = "effect" /\ ~Crash(r)
  BY <1>1, LeaveSlot DEF Follows, Edge, Crash
<1>3. Reveal(r) \/ StrikeShield(r) \/ AddModifier(r) \/ FindUndo(r)
  BY <1>2 DEF SlotStep, At, Admit, ConsumeSkip, CheckOpening, Score, ConsumeExtra, RecordGuess, MarkGhost,
   PassTurn, GuessEnd, Complete, ScoreWin, ScoreLoss, NotifyWin, NotifyLoss, WriteScore, ReadWallet,
   CreditWallet, ResetPresence, ClearModifiers, InsertSecret, LookAtSecrets, GuardUpdate, SetStatus,
   SetInMatch, EraseGuess, ChargeItem
<1>4. ~Reveal(r) /\ ~StrikeShield(r) /\ ~AddModifier(r)
  <2>1. {"arm", "charge"} \subseteq Labels
    BY DEF Labels
  <2>2. \A l \in {"arm", "charge"} : ~Goto(r, l)
    BY <2>1, AfterGoto
  <2>3. QED BY <1>1, <2>2, LeaveSlot DEF Reveal, StrikeShield, AddModifier
<1>5. ~Return(r)
  BY <1>1, LeaveSlot
<1>6. PICK g \in Latest(req[r].by) : Step(r, [req[r] EXCEPT !.pc = "erase", !.id = g.id])
  BY <1>3, <1>4, <1>5 DEF FindUndo
<1>7. req'[r] = [req[r] EXCEPT !.pc = "erase", !.id = g.id] /\ req[r] \in Request
  BY <1>6, AfterStep, Slot
<1>8. g \in board /\ g.by = req[r].by /\ req'[r].id = g.id /\ req'[r].by = req[r].by
  BY <1>6, <1>7 DEF Latest, Request
<1>9. QED BY <1>3, <1>4, <1>8

\* The ids of the guesses.
LEMMA IdsStep ==
    ASSUME TInv, IdsGrow, NEW r \in Slots, SlotStep(r) \/ Crash(r)
    PROVE  IdsGrow' /\ nextId' \in Nat /\ nextId' >= nextId
<1>1. nextId \in Nat /\ \A g \in board : g.id \in Nat
  BY Parts DEF TableOK, Guess
<1>2. CASE RecordGuess(r)
  <2>1. nextId' = nextId + 1 /\ board' = board \cup {[id |-> nextId, by |-> req[r].by, ghost |-> FALSE]}
    BY <1>2 DEF RecordGuess
  <2>2. \A g \in board' : g \in board \/ (g.id = nextId /\ g.by = req[r].by)
    BY <2>1
  <2>3. \A g \in board : g.id < nextId /\ g.id # nextId
    BY <1>1 DEF IdsGrow
  <2>4. \A g \in board' : g.id < nextId'
    BY <1>1, <2>1, <2>2, <2>3
  <2>5. \A g, h \in board' : h.id = g.id => h.by = g.by
    BY <2>2, <2>3 DEF IdsGrow
  <2>6. QED BY <1>1, <2>1, <2>4, <2>5 DEF IdsGrow
<1>3. CASE MarkGhost(r)
  <2>1. nextId' = nextId /\ \A g \in board' : \E h \in board : g.id = h.id /\ g.by = h.by
    BY <1>3, Parts DEF MarkGhost, TableOK, Guess
  <2>2. \A g \in board' : g.id < nextId'
    BY <1>1, <2>1 DEF IdsGrow
  <2>3. \A g, h \in board' : h.id = g.id => h.by = g.by
    BY <2>1 DEF IdsGrow
  <2>4. QED BY <1>1, <2>1, <2>2, <2>3 DEF IdsGrow
<1>4. CASE EraseGuess(r)
  <2>1. nextId' = nextId /\ board' \subseteq board
    BY <1>4 DEF EraseGuess
  <2>2. QED BY <1>1, <2>1 DEF IdsGrow
<1>5. CASE ~Records(r)
  BY <1>1, <1>5, OthersKeepBoard DEF IdsGrow
<1>6. QED BY <1>2, <1>3, <1>4, <1>5 DEF Records

LEMMA ErasesStep ==
    ASSUME TInv, IdsGrow, \A s \in Slots : ErasesOwn(s), NEW r \in Slots, SlotStep(r) \/ Crash(r), NEW s \in Slots
    PROVE  ErasesOwn(s)'
<1> SUFFICES ASSUME req'[s].pc = "erase"
             PROVE  req'[s].id < nextId' /\ \A g \in board' : g.id = req'[s].id => g.by = req'[s].by
  BY DEF ErasesOwn, At
<1>0. /\ nextId \in Nat /\ nextId' \in Nat /\ nextId' >= nextId /\ \A g \in board : g.id \in Nat
      /\ req[s].id \in Nat
  BY IdsStep, Parts, Slot DEF TableOK, Guess, Request
<1>1. CASE s = r
  <2>1. PICK g \in board : FindUndo(r) /\ g.by = req[r].by /\ req'[r].id = g.id /\ req'[r].by = req[r].by
    BY <1>1, EraseTarget
  <2>2. UNCHANGED <<board, nextId>>
    BY <2>1 DEF FindUndo
  <2>3. g.id < nextId /\ \A h \in board : h.id = g.id => h.by = g.by
    BY DEF IdsGrow
  <2>4. QED BY <1>1, <2>1, <2>2, <2>3
<1>2. CASE s # r
  <2>1. req'[s] = req[s]
    BY <1>2, Flow DEF Alone
  <2>2. req[s].id < nextId /\ \A g \in board : g.id = req[s].id => g.by = req[s].by
    BY <2>1 DEF ErasesOwn, At
  <2>3. \A g \in board' : \/ g.id = nextId
                         \/ \E h \in board : g.id = h.id /\ g.by = h.by
    <3>1. CASE RecordGuess(r)
      BY <3>1 DEF RecordGuess
    <3>2. CASE MarkGhost(r)
      BY <3>2, Parts DEF MarkGhost, TableOK, Guess
    <3>3. CASE EraseGuess(r)
      BY <3>3 DEF EraseGuess
    <3>4. CASE ~Records(r)
      BY <3>4, OthersKeepBoard
    <3>5. QED BY <3>1, <3>2, <3>3, <3>4 DEF Records
  <2>4. req[s].id # nextId
    BY <1>0, <2>2
  <2>5. \A g \in board' : g.id = req[s].id => g.by = req[s].by
    BY <2>2, <2>3, <2>4
  <2>6. QED BY <1>0, <2>1, <2>2, <2>5
<1>3. QED BY <1>1, <1>2

\* The opening guess stays on the board unless the creator erases it.
LEMMA StaysStep ==
    ASSUME TInv, UInv, NEW r \in Slots, SlotStep(r) \/ Crash(r)
    PROVE  OpeningStays'
<1> SUFFICES ASSUME ~Undone', opener' = "creator" PROVE \E g \in board' : g.by = "creator"
  BY DEF OpeningStays
<1>0. ~Undone
  BY UsedGrows
<1>1. CASE RecordGuess(r)
  <2>1. board' = board \cup {[id |-> nextId, by |-> req[r].by, ghost |-> FALSE]}
    BY <1>1 DEF RecordGuess
  <2>2. CASE opener = "creator"
    BY <1>0, <2>1, <2>2 DEF UInv, OpeningStays
  <2>3. CASE opener # "creator"
    <3>1. req[r].by = "creator"
      BY <1>1, <2>3 DEF RecordGuess
    <3>2. [id |-> nextId, by |-> req[r].by, ghost |-> FALSE] \in board'
      BY <2>1
    <3>3. QED BY <3>1, <3>2
  <2>4. QED BY <2>2, <2>3
<1>2. CASE MarkGhost(r)
  <2>1. PICK g \in board : g.by = "creator"
    BY <1>0, <1>2 DEF MarkGhost, UInv, OpeningStays
  <2> DEFINE h == IF g.id = req[r].id THEN [g EXCEPT !.ghost = TRUE] ELSE g
  <2>2. h \in board'
    BY <1>2 DEF MarkGhost
  <2>3. h.by = "creator"
    BY <2>1, Parts DEF TableOK, Guess
  <2>4. QED BY <2>2, <2>3
<1>3. CASE EraseGuess(r)
  <2>1. PICK g \in board : g.by = "creator"
    BY <1>0, <1>3 DEF EraseGuess, UInv, OpeningStays
  <2>2. Using(r) /\ req[r].item = "undo" /\ Applied(r)
    BY <1>3, Parts DEF EraseGuess, At, Using, Held
  <2>3. req[r].by # "creator"
    <3>1. SUFFICES ASSUME req[r].by = "creator" PROVE Undone'
      OBVIOUS
    <3>2. "undo" \in Items
      BY <2>2, NTypes
    <3>3. used'["creator"]["undo"] = used["creator"]["undo"] + 1 /\ used["creator"]["undo"] \in Nat
      BY <2>2, <3>1, <3>2, AppliedMore, NTypes DEF Seats
    <3>4. QED BY <3>2, <3>3 DEF Undone
  <2>4. g.id # req[r].id
    BY <1>3, <2>1, <2>3 DEF UInv, ErasesOwn, EraseGuess
  <2>5. QED BY <1>3, <2>1, <2>4 DEF EraseGuess
<1>4. CASE ~Records(r)
  BY <1>0, <1>4, OthersKeepBoard DEF UInv, OpeningStays
<1>5. QED BY <1>1, <1>2, <1>3, <1>4 DEF Records

\* Whoever moves last on an empty board is on the way to its first guess.
LEMMA ComesStep ==
    ASSUME TInv, CInv, UInv, NEW r \in Slots, SlotStep(r) \/ Crash(r)
    PROVE  OpeningComes'
<1> SUFFICES ASSUME crashes' = 0, last' = "creator", opener' = "none" PROVE \E s \in Slots : Opening(s)'
  BY DEF OpeningComes
<1>0. crashes = 0 /\ ~Crash(r) /\ SlotStep(r) /\ Alone(r) /\ req[r].by \in Seats
  BY OthersKeepCrashes, Flow, ScoreTypes
<1>1. opener = "none" /\ ~RecordGuess(r)
  <2>1. ~RecordGuess(r)
    <3>1. RecordGuess(r) => opener' # "none"
      BY <1>0 DEF RecordGuess, Seats
    <3>2. QED BY <3>1
  <2>2. UNCHANGED opener
    BY <2>1, OthersKeepBoard DEF Records, MarkGhost, EraseGuess
  <2>3. QED BY <2>1, <2>2
<1>2. CASE Moves(r)
  <2>1. req[r].pc \in {"turn", "complete"} /\ ~Passed(r)
    BY <1>1, <1>2 DEF Moves, PassTurn, Complete, At, CInv
  <2>2. req[r].by = "creator"
    BY <1>0, <2>1 DEF Passed, AfterOpening, Seats
  <2>3. req'[r].pc \in {"record", "win"} /\ req'[r].by = "creator"
    BY <1>2, <2>2, AfterGoto, FreeLabels DEF Moves, PassTurn, Complete
  <2>4. Opening(r)'
    BY <2>3 DEF Opening, ToRecord
  <2>5. QED BY <2>4
<1>3. CASE ~Moves(r)
  <2>1. last = "creator"
    BY <1>3, OthersKeepTurn
  <2>2. PICK s \in Slots : Opening(s)
    BY <1>0, <1>1, <2>1 DEF UInv, OpeningComes
  <2>3. CASE s # r
    BY <1>0, <2>2, <2>3 DEF Opening, Alone
  <2>4. CASE s = r
    <3>1. req[r].pc \in ToRecord \ {"record"}
      BY <1>0, <1>1, <2>2, <2>4 DEF Opening, ToRecord, SlotStep, At, Admit, ConsumeSkip, CheckOpening, Score,
       ConsumeExtra, MarkGhost, PassTurn, GuessEnd, Complete, ScoreWin, ScoreLoss, NotifyWin, NotifyLoss,
       WriteScore, ReadWallet, CreditWallet, ResetPresence, ClearModifiers, InsertSecret, LookAtSecrets,
       GuardUpdate, SetStatus, SetInMatch, Reveal, StrikeShield, AddModifier, FindUndo, EraseGuess, ChargeItem
    <3>2. \/ ScoreWin(r) \/ ScoreLoss(r) \/ ReadWallet(r) \/ CreditWallet(r)
          \/ NotifyWin(r) \/ NotifyLoss(r) \/ ResetPresence(r) \/ ClearModifiers(r)
      BY <1>0, <1>3, <3>1 DEF Moves, ToRecord, SlotStep, At, Admit, ConsumeSkip, CheckOpening, Score, RecordGuess,
       ConsumeExtra, MarkGhost, GuessEnd, InsertSecret, LookAtSecrets,
       GuardUpdate, SetStatus, SetInMatch, Reveal, StrikeShield, AddModifier, FindUndo, EraseGuess, ChargeItem
    <3>3. Follows(r)
      BY <3>2, FollowComplete
    <3>4. Opening(r)'
      BY <2>2, <2>4, <3>1, <3>3 DEF Follows, Edge, Opening, ToRecord
    <3>5. QED BY <3>4
  <2>5. QED BY <2>3, <2>4
<1>4. QED BY <1>2, <1>3

LEMMA UInit == Init => UInv
<1> SUFFICES ASSUME Init PROVE UInv
  OBVIOUS
<1>1. board = {} /\ last = "none" /\ opener = "none" /\ \A r \in Slots : req[r].pc = "idle"
  BY DEF Init, Idle
<1>2. QED BY <1>1 DEF UInv, IdsGrow, ErasesOwn, At, OpeningStays, OpeningComes

LEMMA UNext == TInv /\ CInv /\ UInv /\ [Next]_vars => UInv'
<1> SUFFICES ASSUME TInv, CInv, UInv, [Next]_vars PROVE UInv'
  OBVIOUS
<1>1. ASSUME NEW r \in Slots, GuessBegin(r) \/ SecretBegin(r) \/ PowerBegin(r) PROVE UInv'
  <2>1. Alone(r) /\ Starts(r) /\ UNCHANGED <<board, nextId, last, opener, used, crashes>>
    BY <1>1, FollowBegin
  <2>2. \A s \in Slots : ErasesOwn(s)'
    BY <2>1 DEF UInv, ErasesOwn, At, Starts, Alone
  <2>3. \A s \in Slots : Opening(s) => Opening(s)'
    BY <2>1 DEF Opening, ToRecord, Starts, Alone
  <2>4. OpeningComes' /\ OpeningStays' /\ IdsGrow'
    BY <2>1, <2>3 DEF UInv, OpeningComes, OpeningStays, IdsGrow, Undone
  <2>5. QED BY <2>2, <2>4 DEF UInv
<1>2. ASSUME NEW r \in Slots, SlotStep(r) \/ Crash(r) PROVE UInv'
  <2>1. IdsGrow' /\ \A s \in Slots : ErasesOwn(s)'
    BY <1>2, IdsStep, ErasesStep DEF UInv
  <2>2. QED BY <1>2, <2>1, StaysStep, ComesStep DEF UInv
<1>3. CASE JobScan \/ JobReset \/ JobMark \/ UNCHANGED vars
  <2>1. UNCHANGED <<board, nextId, last, opener, used, crashes, req>>
    BY <1>3 DEF JobScan, JobReset, JobMark, vars
  <2>2. QED BY <2>1 DEF UInv, IdsGrow, ErasesOwn, At, OpeningStays, OpeningComes, Undone, Opening
<1>4. QED BY <1>1, <1>2, <1>3, NextCases

\* At rest, an empty board on which the creator moved last has lost its
\* opening guess to an undo of the creator, or a request was killed.
LEMMA LockNeedsUndo ==
    ASSUME TInv, CInv, UInv, Quiet, last = "creator", board = {}, crashes = 0
    PROVE  Undone
<1>1. \A r \in Slots : ~Opening(r)
  BY DEF Quiet, At, Opening, ToRecord
<1>2. opener # "none"
  BY <1>1 DEF UInv, OpeningComes
<1>3. opener = "creator"
  BY <1>2, Parts DEF CInv, CreatorOpens, HistoryOK, Seats
<1>4. QED BY <1>3 DEF UInv, OpeningStays

LEMMA CInvAlways == Spec => []CInv
BY CInit, CNext, TInvAlways, PTL DEF Spec

LEMMA UInvAlways == Spec => []UInv
BY UInit, UNext, TInvAlways, CInvAlways, PTL DEF Spec

\* Nothing but the creator's undo, or a request killed between the turn and
\* the guess, leaves a started game in which nobody may guess.
THEOREM OnlyUndoOrCrashLocks == Spec => []LockedByUndoOrCrash
<1>1. TInv /\ CInv /\ UInv => LockedByUndoOrCrash
  <2> SUFFICES ASSUME TInv, CInv, UInv, Quiet, last = "creator", board = {}, ~(crashes > 0)
               PROVE  used["creator"]["undo"] > 0
    BY DEF LockedByUndoOrCrash
  <2>1. crashes = 0
    BY Parts DEF BoundsOK
  <2>2. QED BY <2>1, LockNeedsUndo DEF Undone
<1>2. QED
  BY <1>1, TInvAlways, CInvAlways, UInvAlways, PTL DEF Spec

(***************************************************************************)
(* Requests are for seats their slot may act for.                          *)
(***************************************************************************)
Active(r) == req[r].pc # "idle"
AInv == \A r \in Slots : Active(r) => req[r].by \in Acting(r)

LEMMA SlotKeepsMode == ASSUME NEW r \in Slots, SlotStep(r) \/ Crash(r) PROVE UNCHANGED mode
BY DEF SlotStep, Admit, ConsumeSkip, CheckOpening, Score, ConsumeExtra, RecordGuess, MarkGhost, PassTurn,
   GuessEnd, Complete, ScoreWin, ScoreLoss, NotifyWin, NotifyLoss, WriteScore, ReadWallet, CreditWallet,
   ResetPresence, ClearModifiers, InsertSecret, LookAtSecrets, GuardUpdate, SetStatus, SetInMatch, Reveal,
   StrikeShield, AddModifier, FindUndo, EraseGuess, ChargeItem, Crash, Everyone

LEMMA OthersKeepMode == ASSUME [Next]_vars PROVE UNCHANGED <<heed, mode>>
<1>1. ASSUME NEW r \in Slots, SlotStep(r) \/ Crash(r) PROVE UNCHANGED mode
  BY <1>1, SlotKeepsMode
<1>2. ASSUME NEW r \in Slots, GuessBegin(r) \/ SecretBegin(r) \/ PowerBegin(r) PROVE UNCHANGED mode
  BY <1>2 DEF GuessBegin, SecretBegin, PowerBegin
<1>3. ASSUME JobScan \/ JobReset \/ JobMark \/ UNCHANGED vars PROVE UNCHANGED mode
  <2>1. JobScan => UNCHANGED mode
    BY DEF JobScan
  <2>2. JobReset => UNCHANGED mode
    BY DEF JobReset
  <2>3. JobMark => UNCHANGED mode
    BY DEF JobMark
  <2>4. UNCHANGED vars => UNCHANGED mode
    BY DEF vars
  <2>5. QED BY <1>3, <2>1, <2>2, <2>3, <2>4
<1>4. UNCHANGED mode
  BY <1>1, <1>2, <1>3, NextCases
<1>5. UNCHANGED heed
  BY DEF Next, vars
<1>6. QED BY <1>4, <1>5

LEMMA AInit == Init => AInv
<1> SUFFICES ASSUME Init, NEW r \in Slots PROVE ~Active(r)
  BY DEF AInv
<1>1. req[r] = Idle
  BY DEF Init
<1>2. QED BY <1>1 DEF Active, Idle

LEMMA ANext == TInv /\ AInv /\ [Next]_vars => AInv'
<1> SUFFICES ASSUME TInv, AInv, [Next]_vars, NEW s \in Slots, req'[s].pc # "idle"
             PROVE  req'[s].by \in Acting(s)'
  BY DEF AInv, Active
<1>1. Acting(s)' = Acting(s)
  BY OthersKeepMode DEF Acting
<1>2. ASSUME NEW r \in Slots, GuessBegin(r) \/ SecretBegin(r) \/ PowerBegin(r) PROVE req'[s].by \in Acting(s)
  BY <1>2, FollowBegin DEF Starts, Alone, AInv, Active
<1>3. ASSUME NEW r \in Slots, SlotStep(r) \/ Crash(r) PROVE req'[s].by \in Acting(s)
  BY <1>3, Flow DEF Follows, Leaves, Idle, Alone, AInv, Active
<1>4. CASE JobScan \/ JobReset \/ JobMark \/ UNCHANGED vars
  <2>1. UNCHANGED req
    BY <1>4 DEF JobScan, JobReset, JobMark, vars
  <2>2. QED BY <1>1, <2>1 DEF AInv, Active
<1>5. QED BY <1>1, <1>2, <1>3, <1>4, NextCases

LEMMA AInvAlways == Spec => []AInv
BY AInit, ANext, TInvAlways, PTL DEF Spec

\* Only one device acts against the bot and in pass and play.
LEMMA ActsFor ==
    ASSUME AInv, NEW r \in Slots, Active(r)
    PROVE  /\ req[r].by \in Seats
           /\ mode \notin {"online", "friend"} => Owner[r] = "creator"
           /\ mode \in {"online", "friend"} => req[r].by = Owner[r]
<1>1. req[r].by \in Acting(r) /\ Owner[r] \in Seats
  BY MatchAssumption DEF AInv
<1>2. CASE mode \in {"online", "friend"}
  BY <1>1, <1>2 DEF Acting
<1>3. CASE mode \notin {"online", "friend"}
  BY <1>1, <1>3 DEF Acting
<1>4. QED BY <1>2, <1>3

(***************************************************************************)
(* Somebody can guess: against the bot the creator is the last mover only  *)
(* in a game that is over, and a client that heeds its session never       *)
(* starts one again there; against a human see who locks the board.        *)
(***************************************************************************)
SecretLabels == {"insert", "look", "guard", "set_status", "in_match"}

BInv ==
    mode = "bot" /\ heed =>
        /\ \A r \in Slots : req[r].pc \notin SecretLabels /\ (Active(r) => req[r].by = "creator")
        /\ last = "creator" => status \in {"completed", "expired"}

LEMMA OthersKeepStatus ==
    ASSUME NEW r \in Slots, SlotStep(r) \/ Crash(r), ~Complete(r), ~SetStatus(r)
    PROVE  UNCHANGED status
BY DEF SlotStep, Admit, ConsumeSkip, CheckOpening, Score, ConsumeExtra, RecordGuess, MarkGhost, PassTurn,
   GuessEnd, ScoreWin, ScoreLoss, NotifyWin, NotifyLoss, WriteScore, ReadWallet, CreditWallet,
   ResetPresence, ClearModifiers, InsertSecret, LookAtSecrets, GuardUpdate, SetInMatch, Reveal,
   StrikeShield, AddModifier, FindUndo, EraseGuess, ChargeItem, Crash, Everyone

LEMMA BInit == Init => BInv
<1> SUFFICES ASSUME Init PROVE last # "creator" /\ \A r \in Slots : req[r].pc = "idle"
  BY DEF BInv, SecretLabels, Active
<1>1. QED BY DEF Init, Idle

LEMMA BNext == TInv /\ AInv /\ BInv /\ [Next]_vars => BInv'
<1> DEFINE Fine(q) == q.pc \notin SecretLabels /\ (q.pc # "idle" => q.by = "creator")
           Over == last' = "creator" => status' \in {"completed", "expired"}
<1> SUFFICES ASSUME TInv, AInv, BInv, [Next]_vars, mode = "bot", heed
             PROVE  (\A r \in Slots : Fine(req'[r])) /\ Over
  BY OthersKeepMode DEF BInv, Active
<1>1. /\ \A r \in Slots : Fine(req[r])
      /\ last = "creator" => status \in {"completed", "expired"}
  BY DEF BInv, Active
<1>2. ASSUME NEW r \in Slots, GuessBegin(r) \/ SecretBegin(r) \/ PowerBegin(r)
      PROVE  (\A s \in Slots : Fine(req'[s])) /\ Over
  <2>1. Alone(r) /\ UNCHANGED <<last, status>>
    BY <1>2, FollowBegin
  <2>2. ~SecretBegin(r)
    BY DEF SecretBegin
  <2>3. req'[r].pc \notin SecretLabels
    <3>1. req'[r].pc \in {"admit", "effect"}
      BY <1>2, <2>2, StartLabels
    <3>2. QED BY <3>1 DEF SecretLabels
  <2>4. req'[r].by = "creator"
    <3>1. CASE GuessBegin(r)
      BY <3>1, StartLabels
    <3>2. CASE PowerBegin(r)
      <4>1. Member(req'[r].by)
        BY <3>2, StartLabels
      <4>2. QED BY <4>1 DEF Member
    <3>3. QED BY <1>2, <2>2, <3>1, <3>2
  <2>5. QED BY <1>1, <2>1, <2>3, <2>4 DEF Alone
<1>3. ASSUME NEW r \in Slots, SlotStep(r) \/ Crash(r)
      PROVE  (\A s \in Slots : Fine(req'[s])) /\ Over
  <2>1. Alone(r) /\ Active(r) /\ (Leaves(r) \/ Follows(r))
    BY <1>3, Flow DEF Active
  <2>2. \A s \in Slots : Fine(req'[s])
    <3>1. req[r].by = "creator" /\ req[r].pc \notin SecretLabels
      BY <1>1, <2>1 DEF Active
    <3>2. CASE Leaves(r)
      <4>1. req'[r].pc = "idle"
        BY <3>2 DEF Leaves, Idle
      <4>2. QED BY <1>1, <2>1, <4>1 DEF Alone, SecretLabels
    <3>3. CASE Follows(r)
      <4>1. req'[r].by = "creator" /\ req'[r].pc \notin SecretLabels
        BY <3>1, <3>3 DEF Follows, Edge, SecretLabels
      <4>2. QED BY <1>1, <2>1, <4>1 DEF Alone
    <3>4. QED BY <2>1, <3>2, <3>3
  <2>3. ~SetStatus(r) /\ req[r].by = "creator"
    BY <1>1, <2>1 DEF SetStatus, At, SecretLabels, Active
  <2>4. CASE Complete(r)
    BY <2>2, <2>4 DEF Complete
  <2>5. CASE PassTurn(r)
    BY <2>2, <2>3, <2>5 DEF PassTurn, NextLast, Opponent
  <2>6. CASE ~Moves(r)
    BY <1>1, <1>3, <2>2, <2>3, <2>6, OthersKeepTurn, OthersKeepStatus DEF Moves
  <2>7. QED BY <2>4, <2>5, <2>6 DEF Moves
<1>4. ASSUME JobScan \/ JobReset \/ JobMark \/ UNCHANGED vars
      PROVE  (\A s \in Slots : Fine(req'[s])) /\ Over
  <2>1. UNCHANGED <<req, last>> /\ (status' = status \/ status' = "expired")
    BY <1>4 DEF JobScan, JobReset, JobMark, vars
  <2>2. QED BY <1>1, <2>1
<1>5. QED BY <1>2, <1>3, <1>4, NextCases

LEMMA BInvAlways == Spec => []BInv
BY BInit, BNext, TInvAlways, AInvAlways, PTL DEF Spec

\* A started game at rest lets one of its players guess, in every mode and
\* with any number of tabs, as long as no request was killed and the creator
\* undid nothing.
THEOREM SomeoneAlwaysCan == Spec => [](crashes = 0 /\ ~Undone => SomeoneCanGuess)
<1>1. TInv /\ CInv /\ UInv /\ BInv => (crashes = 0 /\ ~Undone => SomeoneCanGuess)
  <2> SUFFICES ASSUME TInv, CInv, UInv, BInv, crashes = 0, ~Undone, heed, Quiet, status = "started"
               PROVE  \E p \in Seats : CanGuess(p) /\ (mode = "bot" => p = "creator")
    BY DEF SomeoneCanGuess
  <2>1. CASE last # "creator"
    BY <2>1 DEF CanGuess, Seats
  <2>2. CASE last = "creator"
    <3>1. mode # "bot"
      BY <2>2 DEF BInv
    <3>2. board # {}
      BY <2>2, LockNeedsUndo
    <3>3. CanGuess("joiner")
      BY <2>2, <3>2 DEF CanGuess
    <3>4. QED BY <3>1, <3>3 DEF Seats
  <2>3. QED BY <2>1, <2>2
<1>2. QED
  BY <1>1, TInvAlways, CInvAlways, UInvAlways, BInvAlways, PTL

(***************************************************************************)
(* Turns.  With one request at a time for every player, and without the    *)
(* power-ups that skip a turn or add one, two handlers in flight are for   *)
(* different seats, so a seat that was free to move when its handler was   *)
(* admitted still is when the handler passes the turn.                     *)
(***************************************************************************)
OneAtATime == \A r, s \in Slots : Owner[r] = Owner[s] => r = s
NoSkipItem  == "skip-turn" \notin Items
NoExtraItem == "extra-turn" \notin Items
PlainTurns  == NoSkipItem /\ NoExtraItem

LEMMA DifferentSeats ==
    ASSUME OneAtATime, AInv, NEW r \in Slots, NEW s \in Slots, r # s, Active(r), Active(s)
    PROVE  req[r].by # req[s].by /\ mode \in {"online", "friend"}
<1>1. Owner[r] # Owner[s]
  BY DEF OneAtATime
<1>2. QED BY <1>1, ActsFor

\* No handler arms a modifier of type m but through the power-up that gives it.
NoMore(m) == \A p \in Seats : mods[p][m] = 0 => mods'[p][m] = 0

LEMMA ConsumesOnly ==
    ASSUME TInv, NEW p \in Seats, NEW n \in Modifiers, Consume(p, n), NEW m \in Modifiers
    PROVE  NoMore(m)
<1>1. mods \in [Seats -> [Modifiers -> Nat]]
  BY Parts DEF ModsOK
<1>2. QED BY <1>1 DEF Consume, NoMore

LEMMA NoneArmed ==
    ASSUME TInv, NEW r \in Slots, SlotStep(r) \/ Crash(r), ~AddModifier(r), NEW m \in Modifiers
    PROVE  NoMore(m)
<1>0. /\ mods \in [Seats -> [Modifiers -> Nat]]
      /\ req[r].by \in Seats /\ Opponent(req[r].by) \in Seats
      /\ {"skip_turn", "extra_turn", "fake_feedback", "shield"} \subseteq Modifiers
  BY Parts, ScoreTypes DEF ModsOK, Modifiers
<1>1. CASE ConsumeSkip(r)
  BY <1>0, <1>1, ConsumesOnly DEF ConsumeSkip, NoMore
<1>2. CASE Score(r)
  <2>1. CASE UNCHANGED mods
    BY <2>1 DEF NoMore
  <2>2. CASE mods' = [mods EXCEPT ![req[r].by] = [n \in Modifiers |->
                        IF n \in {"ghost_guess", "fog"} /\ @[n] > 0 THEN @[n] - 1 ELSE @[n]]]
    BY <1>0, <2>2 DEF NoMore
  <2>3. QED BY <1>2, <2>1, <2>2 DEF Score
<1>3. CASE ConsumeExtra(r)
  BY <1>0, <1>3, ConsumesOnly DEF ConsumeExtra
<1>4. CASE GuessEnd(r)
  BY <1>0, <1>4, ConsumesOnly DEF GuessEnd, NoMore
<1>5. CASE ClearModifiers(r)
  BY <1>5 DEF ClearModifiers, NoModifiers, NoMore
<1>6. CASE StrikeShield(r)
  BY <1>0, <1>6, ConsumesOnly DEF StrikeShield
<1>7. CASE ~(ConsumeSkip(r) \/ Score(r) \/ ConsumeExtra(r) \/ GuessEnd(r) \/ ClearModifiers(r) \/ StrikeShield(r))
  <2>1. UNCHANGED mods
    BY <1>7 DEF SlotStep, Admit, CheckOpening, RecordGuess, MarkGhost, PassTurn,
       Complete, ScoreWin, ScoreLoss, NotifyWin, NotifyLoss, WriteScore, ReadWallet, CreditWallet,
       ResetPresence, InsertSecret, LookAtSecrets, GuardUpdate, SetStatus, SetInMatch, Reveal,
       FindUndo, EraseGuess, ChargeItem, Crash
  <2>2. QED BY <2>1 DEF NoMore
<1>8. QED BY <1>1, <1>2, <1>3, <1>4, <1>5, <1>6, <1>7

LEMMA ArmsItsOwn ==
    ASSUME TInv, NEW r \in Slots, AddModifier(r), NEW m \in Modifiers, m # ModifierOf[req[r].item]
    PROVE  NoMore(m)
<1>1. mods \in [Seats -> [Modifiers -> Nat]]
  BY Parts DEF ModsOK
<1>2. PICK p : Arm(p, ModifierOf[req[r].item])
  BY DEF AddModifier
<1>3. QED BY <1>1, <1>2 DEF Arm, NoMore

\* The label of a handler names its next step.
LEMMA ByLabel ==
    ASSUME NEW r \in Slots, SlotStep(r)
    PROVE  /\ req[r].pc = "admit" => Admit(r)
           /\ req[r].pc = "skip" => ConsumeSkip(r)
           /\ req[r].pc = "opening" => CheckOpening(r)
           /\ req[r].pc = "extra" => ConsumeExtra(r)
           /\ req[r].pc = "turn" => PassTurn(r)
           /\ req[r].pc = "record" => RecordGuess(r)
           /\ req[r].pc = "complete" => Complete(r)
BY DEF SlotStep, At, Admit, ConsumeSkip, CheckOpening, Score, ConsumeExtra,
   RecordGuess, MarkGhost, PassTurn, GuessEnd, Complete, ScoreWin, ScoreLoss, NotifyWin, NotifyLoss,
   WriteScore, ReadWallet, CreditWallet, ResetPresence, ClearModifiers, InsertSecret, LookAtSecrets,
   GuardUpdate, SetStatus, SetInMatch, Reveal, StrikeShield, AddModifier, FindUndo, EraseGuess, ChargeItem

\* A power-up nobody owns arms nothing.
NeverArmed(m) == \A p \in Seats : mods[p][m] = 0

LEMMA NeverArmedInit == ASSUME Init, NEW m \in Modifiers PROVE NeverArmed(m)
BY DEF Init, NoModifiers, NeverArmed

LEMMA NeverArmedNext ==
    ASSUME TInv, [Next]_vars, NEW m \in Modifiers, NeverArmed(m),
           \A i \in Items \cap (Offensive \cup SelfArmed) : ModifierOf[i] # m
    PROVE  NeverArmed(m)'
<1>1. ASSUME NEW r \in Slots, GuessBegin(r) \/ SecretBegin(r) \/ PowerBegin(r) PROVE UNCHANGED mods
  BY <1>1, FollowBegin
<1>2. ASSUME NEW r \in Slots, SlotStep(r) \/ Crash(r) PROVE NoMore(m)
  <2>1. CASE AddModifier(r)
    <3>1. req[r].item \in Items \cap (Offensive \cup SelfArmed)
      BY <2>1, Parts DEF AddModifier, At, Held
    <3>2. QED BY <2>1, <3>1, ArmsItsOwn
  <2>2. CASE ~AddModifier(r)
    BY <1>2, <2>2, NoneArmed
  <2>3. QED BY <2>1, <2>2
<1>3. ASSUME JobScan \/ JobReset \/ JobMark \/ UNCHANGED vars PROVE UNCHANGED mods
  BY <1>3 DEF JobScan, JobReset, JobMark, vars
<1>4. NoMore(m) \/ UNCHANGED mods
  BY <1>1, <1>2, <1>3, NextCases
<1>5. QED BY <1>4 DEF NeverArmed, NoMore

\* No turn is skipped and none is extra.
Unskipped  == NeverArmed("skip_turn")
Unextended == NeverArmed("extra_turn") /\ \A r \in Slots : ~req[r].extra
Plain      == Unskipped /\ Unextended

LEMMA PlainInit == Init => Unskipped /\ Unextended
<1> SUFFICES ASSUME Init PROVE Unskipped /\ Unextended
  OBVIOUS
<1>1. \A r \in Slots : ~req[r].extra
  BY DEF Init, Idle
<1>2. QED BY <1>1, NeverArmedInit DEF Unskipped, Unextended, Modifiers

LEMMA UnskippedNext ==
    ASSUME NoSkipItem, TInv, Unskipped, [Next]_vars
    PROVE  Unskipped'
<1>1. \A i \in Items \cap (Offensive \cup SelfArmed) : ModifierOf[i] # "skip_turn"
  BY DEF NoSkipItem, Offensive, SelfArmed, ModifierOf
<1>2. QED BY <1>1, NeverArmedNext DEF Unskipped, Modifiers

LEMMA UnextendedNext ==
    ASSUME NoExtraItem, TInv, Unextended, [Next]_vars
    PROVE  Unextended'
<1>1. NeverArmed("extra_turn")'
  <2>1. \A i \in Items \cap (Offensive \cup SelfArmed) : ModifierOf[i] # "extra_turn"
    BY DEF NoExtraItem, Offensive, SelfArmed, ModifierOf
  <2>2. QED BY <2>1, NeverArmedNext DEF Unextended, Modifiers
<1>2. ASSUME NEW r \in Slots, GuessBegin(r) \/ SecretBegin(r) \/ PowerBegin(r)
      PROVE  \A s \in Slots : ~req'[s].extra
  BY <1>2, FollowBegin DEF Unextended, Starts, Alone
<1>3. ASSUME NEW r \in Slots, SlotStep(r) \/ Crash(r)
      PROVE  \A s \in Slots : ~req'[s].extra
  <2>1. Alone(r) /\ (Leaves(r) \/ Follows(r))
    BY <1>3, Flow
  <2>2. CASE ConsumeExtra(r)
    <3> DEFINE q == [req[r] EXCEPT !.pc = "turn", !.extra = Armed(req[r].by, "extra_turn")]
    <3>1. req[r] \in Request /\ req[r].by \in Seats
      BY Slot, ScoreTypes
    <3>2. q.extra = Armed(req[r].by, "extra_turn") /\ ~Armed(req[r].by, "extra_turn")
      BY <3>1 DEF Request, Unextended, NeverArmed, Armed
    <3>3. Step(r, q)
      BY <2>2 DEF ConsumeExtra
    <3> HIDE DEF q
    <3>4. QED BY <2>1, <3>2, <3>3, AfterStep DEF Alone, Unextended
  <2>3. CASE Leaves(r)
    BY <2>1, <2>3 DEF Leaves, Idle, Alone, Unextended
  <2>4. CASE ~ConsumeExtra(r) /\ ~Leaves(r)
    <3>1. SlotStep(r) /\ Follows(r)
      BY <1>3, <2>1, <2>4, LeaveSlot DEF Crash
    <3>2. req[r].pc # "extra"
      BY <2>4, <3>1, ByLabel
    <3>3. QED BY <2>1, <3>1, <3>2 DEF Follows, Alone, Unextended
  <2>5. QED BY <2>2, <2>3, <2>4
<1>4. ASSUME JobScan \/ JobReset \/ JobMark \/ UNCHANGED vars PROVE UNCHANGED req
  BY <1>4 DEF JobScan, JobReset, JobMark, vars
<1>5. \A s \in Slots : ~req'[s].extra
  BY <1>2, <1>3, <1>4, NextCases DEF Unextended
<1>6. QED BY <1>1, <1>5 DEF Unextended

LEMMA AdmitsOthers ==
    ASSUME TInv, NEW r \in Slots, Admit(r), req'[r].pc = "opening"
    PROVE  last # req[r].by /\ status = "started"
<1>0. req[r] \in Request
  BY Slot
<1>1. ~Return(r)
  BY AfterReturn
<1>2. status = "started" /\ Step(r, [req[r] EXCEPT !.last = last, !.pc = IF last = req[r].by THEN "skip" ELSE "opening"])
  BY <1>1 DEF Admit
<1>3. QED
  <2> DEFINE q == [req[r] EXCEPT !.last = last, !.pc = IF last = req[r].by THEN "skip" ELSE "opening"]
  <2>1. q.pc = IF last = req[r].by THEN "skip" ELSE "opening"
    BY <1>0 DEF Request
  <2>2. Step(r, q)
    BY <1>2
  <2> HIDE DEF q
  <2>3. QED BY <1>2, <2>1, <2>2, AfterStep

\* Nobody goes on after a lost turn.
LEMMA NoSkip ==
    ASSUME TInv, Plain, NEW r \in Slots, ConsumeSkip(r)
    PROVE  Leaves(r)
<1>1. Opponent(req[r].by) \in Seats
  BY ScoreTypes
<1>2. ~Armed(Opponent(req[r].by), "skip_turn")
  BY <1>1 DEF Plain, Unskipped, NeverArmed, Armed
<1>3. QED BY <1>2, LeaveSlot DEF ConsumeSkip

\* How the turn passes.
LEMMA PassesTo ==
    ASSUME TInv, Unextended, NEW r \in Slots, PassTurn(r)
    PROVE  /\ req[r].pc = "turn" /\ req'[r].pc = "record" /\ req'[r].by = req[r].by /\ Alone(r)
           /\ UNCHANGED <<mode, opener>>
           /\ mode = "bot" => last' = Opponent(req[r].by) /\ UNCHANGED turns
           /\ mode # "bot" => last' = req[r].by /\ turns' = [seat |-> req[r].by, taken |-> turns.taken + 1]
<1>1. /\ req[r].pc = "turn" /\ req'[r].pc = "record" /\ req'[r].by = req[r].by /\ Alone(r)
      /\ UNCHANGED <<mode, opener>>
  BY AfterGoto, FreeLabels DEF PassTurn, At, Alone
<1>2. ~req[r].extra
  BY DEF Unextended
<1>3. QED BY <1>1, <1>2 DEF PassTurn, NextLast

LEMMA CompletesAs ==
    ASSUME TInv, NEW r \in Slots, Complete(r)
    PROVE  /\ req[r].pc = "complete" /\ req'[r].pc = "win" /\ req'[r].by = req[r].by /\ Alone(r)
           /\ UNCHANGED <<mode, opener>> /\ last' = req[r].by
           /\ turns' = [seat |-> req[r].by, taken |-> turns.taken + 1]
BY AfterGoto, FreeLabels DEF Complete, At, Alone

(***************************************************************************)
(* The invariant: turns counts the moves that passed the turn, and whoever *)
(* is past the check of the turn has not moved last.  Against the bot a    *)
(* guess that does not win is not counted, and hands the turn back.        *)
(***************************************************************************)
Guessing == {"opening", "score", "extra", "turn", "complete"}
Checked  == Guessing \ {"opening"}

Counted == /\ turns.taken = 0 <=> turns.seat = "none"
           /\ turns.seat = last \/ (mode = "bot" /\ turns.seat = "none" /\ last = "joiner")
Opened  == opener # "none" => last # "none"
MayTake(r)    == /\ req[r].pc \in Guessing => last # req[r].by
                 /\ req[r].pc \in Checked /\ req[r].by = "joiner" => last = "creator"
WillRecord(r) == req[r].pc \in ToRecord => last # "none"

TurnInv == Counted /\ Opened /\ \A r \in Slots : MayTake(r) /\ WillRecord(r)

LEMMA TurnTypes == ASSUME TInv PROVE turns \in [seat : Seats \cup {"none"}, taken : Nat] /\ last \in Seats \cup {"none"}
BY Parts DEF HistoryOK, GameOK

\* A step that leaves the turn alone, and after which its own slot is in order.
LEMMA TurnFrame ==
    ASSUME TurnInv, NEW r \in Slots, Alone(r), UNCHANGED <<mode, last, turns>>,
           Opened', MayTake(r)', WillRecord(r)'
    PROVE  TurnInv'
<1>1. \A s \in Slots : s # r => MayTake(s)' /\ WillRecord(s)'
  BY DEF TurnInv, MayTake, WillRecord, Alone
<1>2. Counted'
  BY DEF TurnInv, Counted
<1>3. QED BY <1>1, <1>2 DEF TurnInv

\* A move: the turn is now the mover's.
LEMMA TurnMoves ==
    ASSUME OneAtATime, TInv, AInv, TurnInv, NEW r \in Slots, Active(r), Alone(r), UNCHANGED <<mode, opener>>,
           last' = req[r].by, turns' = [seat |-> req[r].by, taken |-> turns.taken + 1],
           req'[r].pc \in {"record", "win"}
    PROVE  TurnInv'
<1>1. turns'.seat = req[r].by /\ turns'.taken = turns.taken + 1 /\ turns.taken \in Nat
  BY TurnTypes
<1>2. turns'.taken # 0
  BY <1>1
<1>3. req[r].by \in Seats
  BY ActsFor
<1>4. Counted'
  BY <1>1, <1>2, <1>3 DEF Counted, Seats
<1>5. ASSUME NEW s \in Slots, s # r PROVE MayTake(s)'
  <2>1. req'[s] = req[s]
    BY <1>5 DEF Alone
  <2>2. Active(s) => req[s].by \in Seats /\ req[s].by # req[r].by
    BY <1>5, DifferentSeats, ActsFor
  <2>3. QED BY <1>3, <2>1, <2>2 DEF MayTake, Active, Guessing, Checked, Seats
<1>6. MayTake(r)'
  BY DEF MayTake, Guessing, Checked
<1>7. Opened' /\ \A s \in Slots : WillRecord(s)'
  BY <1>3 DEF Opened, WillRecord, Seats
<1>8. QED BY <1>4, <1>5, <1>6, <1>7 DEF TurnInv

LEMMA TurnInit == Init => TurnInv
<1> SUFFICES ASSUME Init PROVE TurnInv
  OBVIOUS
<1>1. /\ turns.taken = 0 /\ turns.seat = "none" /\ last = "none" /\ opener = "none"
      /\ \A r \in Slots : req[r].pc = "idle"
  BY DEF Init, Idle
<1>2. QED BY <1>1 DEF TurnInv, Counted, Opened, MayTake, WillRecord, Guessing, Checked, ToRecord

LEMMA TurnSlot ==
    ASSUME OneAtATime, TInv, AInv, CInv, Plain, TurnInv, NEW r \in Slots, SlotStep(r) \/ Crash(r)
    PROVE  TurnInv'
<1>0. Alone(r) /\ Active(r) /\ (Leaves(r) \/ Follows(r)) /\ UNCHANGED mode
  BY Flow, SlotKeepsMode DEF Active
<1>1. CASE PassTurn(r)
  <2>1. CASE mode # "bot"
    BY <1>0, <1>1, <2>1, PassesTo, TurnMoves DEF Plain
  <2>2. CASE mode = "bot"
    <3>1. /\ req[r].pc = "turn" /\ req'[r].pc = "record" /\ last' = Opponent(req[r].by)
          /\ UNCHANGED <<mode, opener, turns>>
      BY <1>1, <2>2, PassesTo DEF Plain
    <3>2. req[r].by \in Seats /\ last # req[r].by /\ (req[r].by = "joiner" => last = "creator")
      BY <1>0, <3>1, ActsFor DEF TurnInv, MayTake, Guessing, Checked
    <3>3. last' \in Seats /\ (last' = turns.seat \/ (turns.seat = "none" /\ last' = "joiner"))
      BY <2>2, <3>1, <3>2, TurnTypes DEF TurnInv, Counted, Opponent, Seats
    <3>4. Counted' /\ Opened'
      BY <2>2, <3>1, <3>3 DEF TurnInv, Counted, Opened, Seats
    <3>5. ASSUME NEW s \in Slots PROVE MayTake(s)' /\ WillRecord(s)'
      <4>1. s # r => ~Active(s) /\ req'[s] = req[s]
        BY <1>0, <2>2, DifferentSeats DEF Alone
      <4>2. req'[s].pc \notin Guessing
        BY <3>1, <4>1 DEF Active, Guessing
      <4>3. QED BY <3>3, <4>2 DEF MayTake, WillRecord, Checked, Seats
    <3>6. QED BY <3>4, <3>5 DEF TurnInv
  <2>3. QED BY <2>1, <2>2
<1>2. CASE Complete(r)
  BY <1>0, <1>2, CompletesAs, TurnMoves
<1>3. CASE ~Moves(r)
  <2>1. UNCHANGED <<last, turns>>
    BY <1>3, OthersKeepTurn
  <2>2. Opened'
    <3>1. CASE RecordGuess(r)
      BY <1>0, <2>1, <3>1 DEF RecordGuess, At, TurnInv, Opened, WillRecord, ToRecord
    <3>2. CASE ~RecordGuess(r)
      <4>1. UNCHANGED opener
        BY <3>2, OthersKeepBoard DEF Records, MarkGhost, EraseGuess
      <4>2. QED BY <1>0, <2>1, <4>1 DEF TurnInv, Opened
    <3>3. QED BY <3>1, <3>2
  <2>3. MayTake(r)' /\ WillRecord(r)'
    <3>1. CASE Leaves(r)
      <4>1. req'[r].pc = "idle"
        BY <3>1 DEF Leaves, Idle
      <4>2. QED BY <4>1 DEF MayTake, WillRecord, Guessing, Checked, ToRecord
    <3>2. CASE ~Leaves(r)
      <4>1. Follows(r) /\ SlotStep(r) /\ req'[r].by = req[r].by /\ Edge(req[r].pc, req'[r].pc)
        BY <1>0, <3>2, LeaveSlot DEF Crash, Follows
      <4>2. /\ req[r].pc # "skip" /\ req[r].pc # "turn" /\ req[r].pc # "complete"
        BY <1>3, <3>2, <4>1, ByLabel, NoSkip DEF Moves
      <4>3. CASE req[r].pc = "admit"
        <5>1. req'[r].pc \in {"skip", "opening"} /\ Admit(r)
          BY <4>1, <4>3, ByLabel DEF Edge
        <5>2. req'[r].pc = "opening" => last # req[r].by
          BY <5>1, AdmitsOthers
        <5>3. QED BY <2>1, <4>1, <5>1, <5>2 DEF MayTake, WillRecord, Guessing, Checked, ToRecord
      <4>4. CASE req[r].pc = "opening"
        <5>1. req'[r].pc = "score" /\ CheckOpening(r)
          BY <4>1, <4>4, ByLabel DEF Edge
        <5>2. req[r].by = "joiner" => board # {}
          BY <3>2, <5>1, LeaveSlot DEF CheckOpening
        <5>3. last # req[r].by
          BY <4>4 DEF TurnInv, MayTake, Guessing
        <5>4. req[r].by = "joiner" => last = "creator"
          BY <5>2, <5>3, TurnTypes DEF CInv, TurnInv, Opened, Seats
        <5>5. QED BY <2>1, <4>1, <5>1, <5>3, <5>4 DEF MayTake, WillRecord, Guessing, Checked, ToRecord
      <4>5. CASE req[r].pc \notin {"admit", "opening"}
        <5>1. req'[r].pc \in Guessing => req[r].pc \in Checked
          BY <4>1, <4>2, <4>5 DEF Edge, Guessing, Checked
        <5>2. req'[r].pc \in ToRecord => req[r].pc \in ToRecord
          BY <4>1, <4>2, <4>5 DEF Edge, ToRecord
        <5>3. QED BY <1>0, <2>1, <4>1, <5>1, <5>2 DEF TurnInv, MayTake, WillRecord, Guessing, Checked
      <4>6. QED BY <4>3, <4>4, <4>5
    <3>3. QED BY <3>1, <3>2
  <2>4. QED BY <1>0, <2>1, <2>2, <2>3, TurnFrame
<1>4. QED BY <1>1, <1>2, <1>3 DEF Moves

LEMMA TurnNext ==
    ASSUME OneAtATime, TInv, AInv, CInv, Plain, TurnInv, [Next]_vars
    PROVE  TurnInv'
<1>1. ASSUME NEW r \in Slots, GuessBegin(r) \/ SecretBegin(r) \/ PowerBegin(r) PROVE TurnInv'
  <2>1. Alone(r) /\ Starts(r) /\ UNCHANGED <<mode, last, turns, opener>>
    BY <1>1, FollowBegin
  <2>2. Opened' /\ MayTake(r)' /\ WillRecord(r)'
    BY <2>1 DEF TurnInv, Opened, MayTake, WillRecord, Starts, Guessing, Checked, ToRecord
  <2>3. QED BY <2>1, <2>2, TurnFrame
<1>2. ASSUME NEW r \in Slots, SlotStep(r) \/ Crash(r) PROVE TurnInv'
  BY <1>2, TurnSlot
<1>3. CASE JobScan \/ JobReset \/ JobMark \/ UNCHANGED vars
  <2>1. UNCHANGED <<mode, last, turns, opener, req>>
    BY <1>3 DEF JobScan, JobReset, JobMark, vars
  <2>2. QED BY <2>1 DEF TurnInv, Counted, Opened, MayTake, WillRecord
<1>4. QED BY <1>1, <1>2, <1>3, NextCases

\* Every step takes a turn as TurnOrder has it, or none.
LEMMA TakesTurn ==
    ASSUME OneAtATime, TInv, AInv, CInv, Plain, TurnInv, [Next]_vars
    PROVE  [TurnTaking!Next]_<<turns.seat, turns.taken>>
<1>1. ASSUME NEW r \in Slots, Active(r), turns' = [seat |-> req[r].by, taken |-> turns.taken + 1],
             req[r].pc \in {"turn", "complete"}
      PROVE  TurnTaking!Next
  <2>1. req[r].by \in TurnTaking!Players
    BY <1>1, ActsFor DEF Seats, TurnTaking!Players
  <2>2. turns.seat # req[r].by /\ (req[r].by = "joiner" => turns.taken > 0)
    <3>1. last # req[r].by /\ (req[r].by = "joiner" => last = "creator")
      BY <1>1 DEF TurnInv, MayTake, Guessing, Checked
    <3>2. QED BY <2>1, <3>1, TurnTypes DEF TurnInv, Counted, TurnTaking!Players
  <2>3. turns.taken = 0 => req[r].by = "creator"
    BY <2>1, <2>2, TurnTypes DEF TurnTaking!Players
  <2>4. turns'.seat = req[r].by /\ turns'.taken = turns.taken + 1
    BY <1>1
  <2>5. QED BY <2>1, <2>2, <2>3, <2>4 DEF TurnTaking!Next, TurnTaking!Take
<1>2. ASSUME NEW r \in Slots, GuessBegin(r) \/ SecretBegin(r) \/ PowerBegin(r) PROVE UNCHANGED turns
  BY <1>2, FollowBegin
<1>3. ASSUME NEW r \in Slots, SlotStep(r) \/ Crash(r) PROVE TurnTaking!Next \/ UNCHANGED turns
  <2>1. Active(r)
    BY <1>3, Flow DEF Active
  <2>2. CASE PassTurn(r)
    BY <1>1, <2>1, <2>2, PassesTo DEF Plain
  <2>3. CASE Complete(r)
    BY <1>1, <2>1, <2>3, CompletesAs
  <2>4. CASE ~Moves(r)
    BY <1>3, <2>4, OthersKeepTurn
  <2>5. QED BY <2>2, <2>3, <2>4 DEF Moves
<1>4. ASSUME JobScan \/ JobReset \/ JobMark \/ UNCHANGED vars PROVE UNCHANGED turns
  BY <1>4 DEF JobScan, JobReset, JobMark, vars
<1>5. TurnTaking!Next \/ UNCHANGED turns
  BY <1>2, <1>3, <1>4, NextCases
<1>6. QED BY <1>5

LEMMA PlainAlways == ASSUME PlainTurns PROVE Spec => []Plain
<1>1. TInv /\ Plain /\ [Next]_vars => Plain'
  BY UnskippedNext, UnextendedNext DEF PlainTurns, Plain
<1>2. Init => Plain
  BY PlainInit DEF Plain
<1>3. QED BY <1>1, <1>2, TInvAlways, PTL DEF Spec

LEMMA TurnInvAlways == ASSUME OneAtATime, PlainTurns PROVE Spec => []TurnInv
<1>1. TInv /\ AInv /\ CInv /\ Plain /\ TurnInv /\ [Next]_vars => TurnInv'
  BY TurnNext
<1>2. Spec => []Plain
  BY PlainAlways
<1>3. QED BY <1>1, <1>2, TurnInit, TInvAlways, AInvAlways, CInvAlways, PTL DEF Spec

\* A game between players that have one request in flight at a time, without
\* power-ups that skip or add a turn, implements strict alternation opened by
\* the creator, in every mode, whatever else they post, undo or lose to
\* crashes, and whatever the stale-game job does.
THEOREM TurnsAreOrdered == ASSUME OneAtATime, PlainTurns PROVE Spec => KeepsTurnOrder
<1>1. Init => TurnTaking!Init
  <2> SUFFICES ASSUME Init PROVE TurnTaking!Init
    OBVIOUS
  <2>1. turns = [seat |-> "none", taken |-> 0]
    BY DEF Init
  <2>2. QED BY <2>1 DEF TurnTaking!Init
<1>2. TInv /\ AInv /\ CInv /\ Plain /\ TurnInv /\ [Next]_vars => [TurnTaking!Next]_<<turns.seat, turns.taken>>
  BY TakesTurn
<1>3. Spec => []Plain /\ []TurnInv
  BY PlainAlways, TurnInvAlways, PTL
<1>4. QED BY <1>1, <1>2, <1>3, TInvAlways, AInvAlways, CInvAlways, PTL DEF Spec, KeepsTurnOrder, TurnTaking!Spec

(***************************************************************************)
(* The winner shown.  Clients that heed their session only post a guess    *)
(* when it is their turn; then only one handler at a time is between its   *)
(* admission and its move, and none is once the game is completed.         *)
(***************************************************************************)
InStage   == {"admit", "skip", "opening", "score", "extra", "turn", "complete"}
HisTurn(r) == last # req[r].by /\ (req[r].by = "joiner" => last = "creator")

WinInv ==
    heed => /\ \A r \in Slots : req[r].pc \in InStage => HisTurn(r)
            /\ status = "completed" => last \in winners /\ \A r \in Slots : req[r].pc \notin InStage

LEMMA OneInStage ==
    ASSUME OneAtATime, TInv, AInv, WinInv, heed, NEW r \in Slots, NEW s \in Slots,
           req[r].pc \in InStage, req[s].pc \in InStage
    PROVE  r = s
<1> SUFFICES ASSUME r # s PROVE FALSE
  OBVIOUS
<1>1. Active(r) /\ Active(s)
  BY DEF Active, InStage
<1>2. req[r].by # req[s].by /\ req[r].by \in Seats /\ req[s].by \in Seats
  BY <1>1, DifferentSeats, ActsFor
<1>3. HisTurn(r) /\ HisTurn(s)
  BY DEF WinInv
<1>4. QED BY <1>2, <1>3 DEF HisTurn, Seats

LEMMA WinInit == Init => WinInv
<1> SUFFICES ASSUME Init PROVE status # "completed" /\ \A r \in Slots : req[r].pc = "idle"
  BY DEF WinInv, InStage
<1>1. QED BY DEF Init, Idle

LEMMA WinNext ==
    ASSUME OneAtATime, TInv, AInv, CInv, TurnInv, WinInv, [Next]_vars
    PROVE  WinInv'
<1> SUFFICES ASSUME heed
             PROVE  /\ \A s \in Slots : req'[s].pc \in InStage => HisTurn(s)'
                    /\ status' = "completed" => last' \in winners' /\ \A s \in Slots : req'[s].pc \notin InStage
  BY OthersKeepMode DEF WinInv
<1> DEFINE Kept == /\ \A s \in Slots : req'[s].pc \in InStage => HisTurn(s)'
                   /\ status' = "completed" => last' \in winners' /\ \A s \in Slots : req'[s].pc \notin InStage
<1>0. /\ \A s \in Slots : req[s].pc \in InStage => HisTurn(s)
      /\ status = "completed" => last \in winners /\ \A s \in Slots : req[s].pc \notin InStage
  BY DEF WinInv
<1>1. ASSUME NEW r \in Slots, GuessBegin(r) \/ SecretBegin(r) \/ PowerBegin(r) PROVE Kept
  <2>1. Alone(r) /\ Starts(r) /\ UNCHANGED <<status, last, winners>>
    BY <1>1, FollowBegin
  <2>2. req'[r].pc \in InStage => status = "started" /\ HisTurn(r)'
    <3>1. SUFFICES ASSUME GuessBegin(r) PROVE status = "started" /\ HisTurn(r)'
      BY <1>1, StartLabels DEF InStage
    <3>2. CanGuess(req'[r].by)
      BY <3>1, StartLabels
    <3>3. req'[r].by \in Acting(r) /\ Acting(r) \subseteq Seats
      BY <2>1, ActingSeat DEF Starts
    <3>4. ASSUME req'[r].by = "joiner" PROVE last = "creator"
      <4>1. board # {} /\ last # "joiner"
        BY <3>2, <3>4 DEF CanGuess
      <4>2. QED BY <4>1, TurnTypes DEF CInv, TurnInv, Opened, Seats
    <3>5. QED BY <2>1, <3>2, <3>4 DEF CanGuess, HisTurn
  <2>3. QED BY <1>0, <2>1, <2>2 DEF Alone, HisTurn
<1>2. ASSUME NEW r \in Slots, SlotStep(r) \/ Crash(r) PROVE Kept
  <2>1. Alone(r) /\ Active(r) /\ (Leaves(r) \/ Follows(r))
    BY <1>2, Flow DEF Active
  <2>2. req'[r].pc \in InStage => req[r].pc \in InStage /\ req'[r].by = req[r].by
    BY <2>1 DEF Leaves, Follows, Edge, Idle, InStage
  <2>3. ASSUME req[r].pc \in InStage, req'[r].pc \notin InStage
        PROVE  \A s \in Slots : req'[s].pc \notin InStage
    BY <2>1, <2>3, OneInStage DEF Alone
  <2>4. CASE PassTurn(r)
    <3>1. req[r].pc = "turn" /\ req'[r].pc = "record" /\ UNCHANGED status
      BY <2>4, AfterGoto, FreeLabels DEF PassTurn, At
    <3>2. QED BY <1>0, <2>3, <3>1 DEF InStage
  <2>5. CASE Complete(r)
    <3>1. req[r].pc = "complete" /\ req'[r].pc = "win" /\ last' = req[r].by /\ req[r].by \in winners'
      BY <2>5, CompletesAs DEF Complete
    <3>2. QED BY <2>3, <3>1 DEF InStage
  <2>6. CASE ~Moves(r)
    <3>1. UNCHANGED <<last, winners>>
      BY <1>2, <2>6, OthersKeepTurn
    <3>2. status' # "completed" \/ UNCHANGED status
      <4>1. CASE SetStatus(r)
        BY <4>1 DEF SetStatus
      <4>2. CASE ~SetStatus(r)
        BY <1>2, <2>6, <4>2, OthersKeepStatus DEF Moves
      <4>3. QED BY <4>1, <4>2
    <3>3. \A s \in Slots : req'[s].pc \in InStage => req[s].pc \in InStage /\ HisTurn(s)'
      BY <1>0, <2>1, <2>2, <3>1 DEF Alone, HisTurn
    <3>4. QED BY <1>0, <3>1, <3>2, <3>3
  <2>7. QED BY <2>4, <2>5, <2>6 DEF Moves
<1>3. ASSUME JobScan \/ JobReset \/ JobMark \/ UNCHANGED vars PROVE Kept
  <2>1. UNCHANGED <<req, last, winners>> /\ (status' = status \/ status' = "expired")
    BY <1>3 DEF JobScan, JobReset, JobMark, vars
  <2>2. QED BY <1>0, <2>1 DEF HisTurn
<1>4. QED BY <1>1, <1>2, <1>3, NextCases

\* A completed game names a seat whose guess did win as the last mover, which
\* is what both viewers are shown as the winner, in every game between clients
\* that heed their session and have one request in flight at a time.
THEOREM TheWinnerIsShown == ASSUME OneAtATime, PlainTurns PROVE Spec => []CompletedByWinner
<1>1. WinInv => CompletedByWinner
  BY DEF WinInv, CompletedByWinner
<1>2. TInv /\ AInv /\ CInv /\ TurnInv /\ WinInv /\ [Next]_vars => WinInv'
  BY WinNext
<1>3. Spec => []TurnInv
  BY TurnInvAlways
<1>4. QED BY <1>1, <1>2, <1>3, WinInit, TInvAlways, AInvAlways, CInvAlways, PTL DEF Spec

(***************************************************************************)
(* The polled session.  A poll is a sequence of reads next to the steps of *)
(* Match, so what always holds of a match holds while it is watched.       *)
(***************************************************************************)
NoUndo == "undo" \notin Items

\* A viewer has a session of its own.
ViewTyped == view \in Poll /\ (view.pc # "idle" => view.by \in Viewers)

LEMMA WatchedStep == ASSUME [ViewNext]_viewVars PROVE [Next]_vars
BY DEF ViewNext, MatchStep, ViewStep, viewVars, vars

LEMMA ViewIsMatch == ViewSpec => Spec
<1>1. ViewInit => Init
  BY DEF ViewInit
<1>2. [ViewNext]_viewVars => [Next]_vars
  BY WatchedStep
<1>3. QED BY <1>1, <1>2, PTL DEF ViewSpec, Spec

\* What a step does to the poll in hand.
LEMMA PollCases ==
    ASSUME [ViewNext]_viewVars
    PROVE  \/ UNCHANGED view /\ (view.pc = "idle" \/ UNCHANGED vars)
           \/ view.pc # "idle" /\ view' = [view EXCEPT !.resting = @ /\ Resting(req', Played(view.by))]
           \/ UNCHANGED vars /\ (ReadGame \/ ReadGuesses \/ ReadGhosts \/ ReadFog \/ ShowSession)
BY DEF ViewNext, MatchStep, ViewStep, viewVars, vars

LEMMA NoPollTyped == NoPoll \in Poll /\ NoPoll.pc = "idle"
BY DEF NoPoll, Poll, Seats, Statuses

LEMMA ViewersStay == ASSUME [Next]_vars PROVE Viewers' = Viewers
BY OthersKeepMode DEF Viewers, Member

LEMMA ViewTypedNext ==
    ASSUME TInv, ViewTyped, [ViewNext]_viewVars
    PROVE  ViewTyped'
<1>1. [Next]_vars /\ Viewers' = Viewers /\ Viewers \subseteq Seats
  BY WatchedStep, ViewersStay DEF Viewers, Seats
<1>2. CASE UNCHANGED view
  BY <1>1, <1>2 DEF ViewTyped
<1>3. CASE view' = [view EXCEPT !.resting = @ /\ Resting(req', Played(view.by))]
  <2>1. Resting(req', Played(view.by)) \in BOOLEAN /\ view \in Poll
    BY DEF Resting, ViewTyped
  <2>2. view' \in Poll /\ view'.pc = view.pc /\ view'.by = view.by
    BY <1>3, <2>1 DEF Poll
  <2>3. QED BY <1>1, <2>2 DEF ViewTyped
<1>4. CASE ReadGame
  <2>1. PICK p \in Viewers : view' = [NoPoll EXCEPT !.pc = "guesses", !.by = p, !.status = status,
                                         !.last = last, !.resting = Resting(req, Played(p))]
    BY <1>4 DEF ReadGame
  <2>2. /\ p \in Seats /\ status \in Statuses /\ last \in Seats \cup {"none"} /\ Resting(req, Played(p)) \in BOOLEAN
        /\ NoPoll \in Poll
    BY <1>1, Parts, NoPollTyped DEF GameOK, Resting
  <2>3. view' \in Poll /\ view'.by = p
    BY <2>1, <2>2 DEF Poll
  <2>4. QED BY <1>1, <2>3 DEF ViewTyped
<1>5. CASE ReadGuesses
  <2>1. board \subseteq Guess /\ view \in Poll /\ view.pc # "idle"
    BY <1>5, Parts DEF TableOK, ViewTyped, ReadGuesses
  <2>2. view' \in Poll /\ view'.by = view.by
    BY <1>5, <2>1 DEF ReadGuesses, Poll
  <2>3. QED BY <1>1, <2>1, <2>2 DEF ViewTyped
<1>6. CASE ReadGhosts
  <2>1. {g.id : g \in {h \in board : h.ghost}} \subseteq Nat /\ view \in Poll /\ view.pc # "idle"
    BY <1>6, Parts DEF TableOK, Guess, ViewTyped, ReadGhosts
  <2>2. view' \in Poll /\ view'.by = view.by
    BY <1>6, <2>1 DEF ReadGhosts, Poll
  <2>3. QED BY <1>1, <2>1, <2>2 DEF ViewTyped
<1>7. CASE ReadFog
  <2>1. Armed(view.by, "fog") \in BOOLEAN /\ view \in Poll /\ view.pc # "idle"
    BY <1>7 DEF Armed, ViewTyped, ReadFog
  <2>2. view' \in Poll /\ view'.by = view.by
    BY <1>7, <2>1 DEF ReadFog, Poll
  <2>3. QED BY <1>1, <2>1, <2>2 DEF ViewTyped
<1>8. CASE ShowSession
  BY <1>8, NoPollTyped DEF ShowSession, ViewTyped
<1>9. QED BY <1>2, <1>3, <1>4, <1>5, <1>6, <1>7, <1>8, PollCases

LEMMA ViewTypedAlways == ViewSpec => []ViewTyped
<1>1. ViewInit => ViewTyped
  BY NoPollTyped DEF ViewInit, ViewTyped
<1>2. TInv /\ ViewTyped /\ [ViewNext]_viewVars => ViewTyped'
  BY ViewTypedNext
<1>3. QED BY <1>1, <1>2, ViewIsMatch, TInvAlways, PTL DEF ViewSpec

\* Without undo a guess stays on the board, and once flagged stays flagged.
LEMMA GuessesStay ==
    ASSUME NoUndo, TInv, [Next]_vars, NEW g \in board
    PROVE  \E h \in board' : h.id = g.id /\ (g.ghost => h.ghost)
<1>1. ASSUME NEW r \in Slots, SlotStep(r) \/ Crash(r)
      PROVE  \E h \in board' : h.id = g.id /\ (g.ghost => h.ghost)
  <2>1. CASE RecordGuess(r)
    BY <2>1 DEF RecordGuess
  <2>2. CASE MarkGhost(r)
    <3> DEFINE h == IF g.id = req[r].id THEN [g EXCEPT !.ghost = TRUE] ELSE g
    <3>1. h \in board'
      BY <2>2 DEF MarkGhost
    <3>2. h.id = g.id /\ (g.ghost => h.ghost)
      BY Parts DEF TableOK, Guess
    <3>3. QED BY <3>1, <3>2
  <2>3. ~EraseGuess(r)
    BY Parts DEF EraseGuess, At, Held, NoUndo
  <2>4. CASE ~Records(r)
    BY <1>1, <2>4, OthersKeepBoard
  <2>5. QED BY <2>1, <2>2, <2>3, <2>4 DEF Records
<1>2. ASSUME NEW r \in Slots, GuessBegin(r) \/ SecretBegin(r) \/ PowerBegin(r) PROVE UNCHANGED board
  BY <1>2, FollowBegin
<1>3. ASSUME JobScan \/ JobReset \/ JobMark \/ UNCHANGED vars PROVE UNCHANGED board
  BY <1>3 DEF JobScan, JobReset, JobMark, vars
<1>4. QED BY <1>1, <1>2, <1>3, NextCases

(***************************************************************************)
(* Ghosts.  A guess that was flagged when it was read is still flagged     *)
(* when the flags are.                                                     *)
(***************************************************************************)
GhostInv ==
    /\ view.pc = "ghosts" => \A g \in view.matches : g.ghost => \E h \in board : h.id = g.id /\ h.ghost
    /\ view.pc \in {"fog", "page"} => \A g \in view.matches : g.ghost => g.id \in view.ghosts

LEMMA GhostNext ==
    ASSUME NoUndo, TInv, ViewTyped, GhostInv, [ViewNext]_viewVars
    PROVE  GhostInv'
<1>0. [Next]_vars /\ view \in Poll
  BY WatchedStep DEF ViewTyped
<1>1. CASE UNCHANGED view \/ view' = [view EXCEPT !.resting = @ /\ Resting(req', Played(view.by))]
  <2>1. view'.pc = view.pc /\ view'.matches = view.matches /\ view'.ghosts = view.ghosts
    BY <1>0, <1>1 DEF Poll
  <2>2. ASSUME NEW g \in view.matches, g.ghost, \E h \in board : h.id = g.id /\ h.ghost
        PROVE  \E h \in board' : h.id = g.id /\ h.ghost
    <3>1. PICK h \in board : h.id = g.id /\ h.ghost
      BY <2>2
    <3>2. \E k \in board' : k.id = h.id /\ (h.ghost => k.ghost)
      BY <1>0, GuessesStay
    <3>3. QED BY <3>1, <3>2
  <2>3. QED BY <2>1, <2>2 DEF GhostInv
<1>2. CASE ReadGame
  <2>1. view'.pc = "guesses"
    BY <1>2, NoPollTyped DEF ReadGame, Poll
  <2>2. QED BY <2>1 DEF GhostInv
<1>3. CASE UNCHANGED vars /\ ReadGuesses
  <2>1. view'.pc = "ghosts" /\ view'.matches = board /\ board' = board
    BY <1>0, <1>3 DEF ReadGuesses, Poll, vars
  <2>2. QED BY <2>1 DEF GhostInv
<1>4. CASE ReadGhosts
  <2>1. /\ view'.pc = "fog" /\ view.pc = "ghosts" /\ view'.matches = view.matches
        /\ view'.ghosts = {g.id : g \in {h \in board : h.ghost}}
    BY <1>0, <1>4 DEF ReadGhosts, Poll
  <2>2. QED BY <2>1 DEF GhostInv
<1>5. CASE ReadFog
  <2>1. view'.pc = "page" /\ view.pc = "fog" /\ view'.matches = view.matches /\ view'.ghosts = view.ghosts
    BY <1>0, <1>5 DEF ReadFog, Poll
  <2>2. QED BY <2>1 DEF GhostInv
<1>6. CASE ShowSession
  BY <1>6, NoPollTyped DEF ShowSession, GhostInv
<1>7. QED BY <1>1, <1>2, <1>3, <1>4, <1>5, <1>6, PollCases

\* A ghost guess that was flagged when the guesses were read is never shown to
\* the opponent, in every mode and with any number of requests in flight, when
\* no guess can be undone.
THEOREM GhostsAreHidden == ASSUME NoUndo PROVE ViewSpec => []GhostsStayHidden
<1>1. ViewTyped /\ GhostInv => GhostsStayHidden
  <2> SUFFICES ASSUME GhostInv, view.pc = "page", NEW g \in view.matches, g.ghost, g.by # view.by
               PROVE  g \in Blanked(view)
    BY DEF GhostsStayHidden
  <2>1. QED BY DEF GhostInv, Blanked
<1>2. ViewInit => GhostInv
  BY NoPollTyped DEF ViewInit, GhostInv
<1>3. TInv /\ ViewTyped /\ GhostInv /\ [ViewNext]_viewVars => GhostInv'
  BY GhostNext
<1>4. QED BY <1>1, <1>2, <1>3, ViewIsMatch, TInvAlways, ViewTypedAlways, PTL DEF ViewSpec

(***************************************************************************)
(* Invitations.  While the viewer rests, only the opponent moves, and a    *)
(* move of the opponent's is never the viewer's.                           *)
(***************************************************************************)
InviteInv ==
    view.pc # "idle" /\ view.resting =>
        /\ Resting(req, Played(view.by))
        /\ view.last # view.by => last # view.by
        /\ view.pc # "guesses" /\ view.matches # {} => board # {}

LEMMA OpponentsMove ==
    ASSUME TInv, AInv, Unextended, [Next]_vars, NEW p \in Viewers, Resting(req, Played(p)), last # p
    PROVE  last' # p
<1>1. ASSUME NEW r \in Slots, SlotStep(r) \/ Crash(r) PROVE last' # p
  <2>1. Active(r) /\ req[r].by \notin Played(p) /\ req[r].by \in Seats
    BY <1>1, Flow, ActsFor DEF Active, Resting
  <2>a. mode # "bot" /\ req[r].by # p
    BY <2>1 DEF Played
  <2>2. CASE PassTurn(r)
    BY <2>a, <2>2, PassesTo
  <2>3. CASE Complete(r)
    BY <2>a, <2>3, CompletesAs
  <2>4. CASE ~Moves(r)
    BY <1>1, <2>4, OthersKeepTurn
  <2>5. QED BY <2>2, <2>3, <2>4 DEF Moves
<1>2. ASSUME NEW r \in Slots, GuessBegin(r) \/ SecretBegin(r) \/ PowerBegin(r) PROVE UNCHANGED last
  BY <1>2, FollowBegin
<1>3. ASSUME JobScan \/ JobReset \/ JobMark \/ UNCHANGED vars PROVE UNCHANGED last
  BY <1>3 DEF JobScan, JobReset, JobMark, vars
<1>4. QED BY <1>1, <1>2, <1>3, NextCases

LEMMA InviteNext ==
    ASSUME NoUndo, TInv, AInv, Unextended, ViewTyped, InviteInv, [ViewNext]_viewVars
    PROVE  InviteInv'
<1>0. [Next]_vars /\ view \in Poll /\ Poll # {}
  BY WatchedStep DEF ViewTyped
<1>a. Played(view.by)' = Played(view'.by)
  BY <1>0, OthersKeepMode DEF Played
<1> SUFFICES ASSUME view'.pc # "idle", view'.resting
             PROVE  /\ Resting(req', Played(view'.by))
                    /\ view'.last # view'.by => last' # view'.by
                    /\ view'.pc # "guesses" /\ view'.matches # {} => board' # {}
  BY <1>a DEF InviteInv
<1>b. board # {} => board' # {}
  BY <1>0, GuessesStay
<1>1. CASE UNCHANGED view /\ (view.pc = "idle" \/ UNCHANGED vars)
  <2>1. view.pc # "idle" /\ UNCHANGED <<view, req, last, board>>
    BY <1>1 DEF vars
  <2>2. QED BY <2>1 DEF InviteInv
<1>2. CASE view.pc # "idle" /\ view' = [view EXCEPT !.resting = @ /\ Resting(req', Played(view.by))]
  <2>1. /\ view'.pc = view.pc /\ view'.by = view.by /\ view'.last = view.last
        /\ view'.matches = view.matches /\ view.resting /\ Resting(req', Played(view.by))
    BY <1>0, <1>2 DEF Poll
  <2>2. /\ view.by \in Viewers /\ Resting(req, Played(view.by))
        /\ view.last # view.by => last # view.by
        /\ view.pc # "guesses" /\ view.matches # {} => board # {}
    BY <1>2, <2>1 DEF ViewTyped, InviteInv
  <2>3. view.last # view.by => last' # view.by
    BY <1>0, <2>2, OpponentsMove
  <2>4. QED BY <1>b, <2>1, <2>2, <2>3
<1>3. CASE UNCHANGED vars /\ ReadGame
  <2>1. PICK p \in Viewers : view' = [NoPoll EXCEPT !.pc = "guesses", !.by = p, !.status = status,
                                         !.last = last, !.resting = Resting(req, Played(p))]
    BY <1>3 DEF ReadGame
  <2>2. view'.by = p /\ view'.last = last /\ view'.resting = Resting(req, Played(p)) /\ view'.pc = "guesses"
    BY <2>1, NoPollTyped DEF Poll
  <2>3. UNCHANGED <<req, last>>
    BY <1>3 DEF vars
  <2>4. QED BY <2>2, <2>3
<1>4. CASE UNCHANGED vars /\ (ReadGuesses \/ ReadGhosts \/ ReadFog)
  <2>1. /\ view.pc # "idle" /\ view'.by = view.by /\ view'.last = view.last /\ view'.resting = view.resting
        /\ IF view.pc = "guesses" THEN view'.matches = board ELSE view'.matches = view.matches
    BY <1>0, <1>4 DEF ReadGuesses, ReadGhosts, ReadFog, Poll
  <2>2. UNCHANGED <<req, last, board>>
    BY <1>4 DEF vars
  <2>3. QED BY <2>1, <2>2 DEF InviteInv
<1>5. CASE ShowSession
  BY <1>5, NoPollTyped DEF ShowSession
<1>6. QED BY <1>1, <1>2, <1>3, <1>4, <1>5, PollCases

\* A resting player whose session says that it may guess still may when the
\* session is shown, as long as the game goes on, in every mode and whatever
\* the opponent does meanwhile, when no guess can be undone and no extra turn
\* be armed.
THEOREM InvitationsHold == ASSUME NoUndo, NoExtraItem PROVE ViewSpec => []InvitationHolds
<1>1. InviteInv => InvitationHolds
  <2> SUFFICES ASSUME InviteInv, view.pc = "page", view.resting, MayGuess(view), status = "started"
               PROVE  CanGuess(view.by)
    BY DEF InvitationHolds
  <2>1. QED BY DEF InviteInv, MayGuess, CanGuess
<1>2. ViewInit => InviteInv
  BY NoPollTyped DEF ViewInit, InviteInv
<1>3. TInv /\ AInv /\ Unextended /\ ViewTyped /\ InviteInv /\ [ViewNext]_viewVars => InviteInv'
  BY InviteNext
<1>4. Spec => []Unextended
  <2>1. TInv /\ Unextended /\ [Next]_vars => Unextended'
    BY UnextendedNext
  <2>2. Init => Unextended
    BY PlainInit
  <2>3. QED BY <2>1, <2>2, TInvAlways, PTL DEF Spec
<1>5. QED
  BY <1>1, <1>2, <1>3, <1>4, ViewIsMatch, TInvAlways, AInvAlways, ViewTypedAlways, PTL DEF ViewSpec
=============================================================================
