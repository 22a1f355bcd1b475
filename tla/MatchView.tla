----------------------------- MODULE MatchView -----------------------------
(***************************************************************************)
(* The session that a player's client polls (build_match_session): the     *)
(* game, the guesses, the ghost flags and the fog are four reads, between  *)
(* which the handlers of Match go on.  The names, pictures and power-ups   *)
(* shown with them do not interact with the match and are left out; the    *)
(* scores of the guesses are Scoring's.                                    *)
(***************************************************************************)
EXTENDS Match

CONSTANTS
    WatchedModes,  \* bound: the modes in which a behaviour has a poll
    WatchedCalls   \* bound: handler and job invocations of such a behaviour

ASSUME MatchViewAssumption == WatchedModes \subseteq Modes /\ WatchedCalls \in Nat

VARIABLES
    view,          \* the poll
    polls          \* bound: polls that may still be made, at most one

viewVars == <<vars, view, polls>>

Poll == [pc : {"idle", "guesses", "ghosts", "fog", "page"},
         by : Seats,                                \* viewer_player_id
         status : Statuses, last : Seats \cup {"none"},
         matches : SUBSET Guess,                    \* as read, before the ghost flags
         ghosts : SUBSET Nat,                       \* ghost_ids
         fog : BOOLEAN,                             \* fog_active
         resting : BOOLEAN]                         \* history: no request of the viewer meanwhile
NoPoll == [pc |-> "idle", by |-> "creator", status |-> "waiting", last |-> "none",
           matches |-> {}, ghosts |-> {}, fog |-> FALSE, resting |-> TRUE]

\* What heeding clients do, others may do as well: they are polled for both.
ViewInit == /\ Init /\ view = NoPoll
            /\ polls \in {0, IF mode \in WatchedModes /\ ~heed THEN 1 ELSE 0}

\* Who has a session of its own; every other viewer is taken for the creator.
Viewers    == IF mode = "local" THEN {"creator"} ELSE {p \in Seats : Member(p)}
\* The seats that the viewer's own client plays: against the bot, both.
Played(p) == IF mode = "bot" THEN Seats ELSE {p}
Resting(requests, seats) == \A r \in Slots : requests[r].pc # "idle" => requests[r].by \notin seats

ReadGame ==
    /\ view.pc = "idle" /\ polls > 0
    /\ polls' = polls - 1
    /\ \E p \in Viewers :
          view' = [NoPoll EXCEPT !.pc = "guesses", !.by = p, !.status = status, !.last = last,
                                 !.resting = Resting(req, Played(p))]

ReadGuesses ==
    /\ view.pc = "guesses"
    /\ view' = [view EXCEPT !.pc = "ghosts", !.matches = board]
    /\ UNCHANGED polls

\* Fault: the viewer's own flagged guesses are looked for.
ReadOwnGhosts ==
    /\ view.pc = "ghosts"
    /\ view' = [view EXCEPT !.pc = "fog", !.ghosts = {g.id : g \in {h \in board : h.ghost /\ h.by = view.by}}]
    /\ UNCHANGED polls

ReadGhosts ==
    /\ view.pc = "ghosts"
    /\ view' = [view EXCEPT !.pc = "fog", !.ghosts = {g.id : g \in {h \in board : h.ghost}}]
    /\ UNCHANGED polls

ReadFog ==
    /\ view.pc = "fog"
    /\ view' = [view EXCEPT !.pc = "page", !.fog = Armed(view.by, "fog")]
    /\ UNCHANGED polls

ShowSession == view.pc = "page" /\ view' = NoPoll /\ UNCHANGED polls

ViewStep == (ReadGame \/ ReadGuesses \/ ReadGhosts \/ ReadFog \/ ShowSession) /\ UNCHANGED vars

\* A step of Match; in a behaviour with a poll there are fewer calls.
MatchStep ==
    /\ Next
    /\ (polls > 0 \/ view.pc # "idle") => calls' <= WatchedCalls
    /\ view' = IF view.pc = "idle" THEN view
               ELSE [view EXCEPT !.resting = @ /\ Resting(req', Played(view.by))]
    /\ UNCHANGED polls

ViewNext == MatchStep \/ ViewStep

ViewSpec == ViewInit /\ [][ViewNext]_viewVars

(***************************************************************************)
(* What the session says.                                                  *)
(***************************************************************************)
\* Fault: the check of an empty board is forgotten.
MayGuessFirst(q) == q.status = "started" /\ q.last # q.by

\* can_guess.
MayGuess(q) == /\ q.status = "started" /\ q.last # q.by
               /\ q.matches # {} \/ q.by = "creator"

\* The last two guesses of the viewer, blanked by fog.
LastTwo(q) == {g \in q.matches : /\ g.by = q.by
                                 /\ Cardinality({h \in q.matches : h.by = q.by /\ h.id > g.id}) < 2}
Blanked(q) == {g \in q.matches : g.by # q.by /\ g.id \in q.ghosts}
              \cup (IF q.fog THEN LastTwo(q) ELSE {})

(***************************************************************************)
(* Properties.                                                             *)
(***************************************************************************)
\* An invitation holds: a player whose session says that it may guess, and who
\* has had no request in flight since the session was asked for, still may
\* when it is shown, unless the game has ended or is waiting again, although
\* the turn, the guesses and the status were read at different moments and the
\* opponent and the stale-game job never stopped.
InvitationHolds ==
    view.pc = "page" /\ view.resting /\ MayGuess(view) /\ status = "started" => CanGuess(view.by)

\* A ghost guess that was flagged when the guesses were read is not shown to
\* the opponent: the flags are read after the guesses, so no guess is shown on
\* the strength of an older flag.
GhostsStayHidden ==
    view.pc = "page" =>
        \A g \in view.matches : g.ghost /\ g.by # view.by => g \in Blanked(view)
=============================================================================
