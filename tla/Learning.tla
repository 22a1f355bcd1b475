------------------------------ MODULE Learning ------------------------------
(***************************************************************************)
(* Practice sessions and the curriculum.  A practice guess reads the       *)
(* session and writes back one attempt more; what it is told is Scoring's. *)
(* The curriculum is stored by whoever first looks for it; any lesson of a *)
(* chapter completes the chapter, and complete_lesson does not ask whether *)
(* the chapter is open.                                                    *)
(***************************************************************************)
EXTENDS Requests, Sequences

Chapters == 1 .. 4           \* DEFAULT_CURRICULUM, in its order

VARIABLES
    sessions,    \* db.practice_sessions, in the order of insertion
    curricula,   \* db.curriculum: how often the default chapters were inserted
    progress,    \* db.curriculum_progress: the chapters with a completed lesson, per user
    study        \* the request in each slot

\* History of the behaviour; no action reads it.
VARIABLES
    posted,      \* the guesses begun so far, per session
    answered,    \* those that were answered
    doubled,     \* sessions with two guesses in flight at once
    cut,         \* sessions with a guess that was killed
    opened       \* the chapters a page has shown as open, per user

learningDocs    == <<sessions, curricula, progress>>
learningHistory == <<posted, answered, doubled, cut, opened>>
learningVars    == <<learningDocs, study, learningHistory>>

Session == [user : Users, attempts : Nat]
Study   == [pc : {"idle", "guess", "answer", "seed", "progress", "page"}, by : Users \cup {0},
            doc : Nat, num : Nat,          \* the session and its attempts, as read
            done : SUBSET Chapters,        \* completed_ids
            before : SUBSET Chapters]      \* history: what had been shown as open by then
NoStudy == [pc |-> "idle", by |-> 0, doc |-> 0, num |-> 0, done |-> {}, before |-> {}]

StudyAt(r, label)   == study[r].pc = label
StudyStep(r, q)     == study' = [study EXCEPT ![r] = q]
StudyEnd(r)         == StudyStep(r, NoStudy)
StudyBegin(r, q)    == StudyAt(r, "idle") /\ StudyStep(r, q)

LearningInit ==
    /\ sessions = << >> /\ curricula \in {0, 1} /\ (curricula = 1 \/ "curriculum" \in DOMAIN menu)
    /\ progress = [u \in Users |-> {}]
    /\ study = [r \in Slots |-> NoStudy]
    /\ posted = << >> /\ answered = << >> /\ doubled = {} /\ cut = {}
    /\ opened = [u \in Users |-> {}]

(***************************************************************************)
(* Practice.                                                               *)
(***************************************************************************)
\* create_practice_session.
OpenSession ==
    /\ Serve("session")
    /\ \E u \in alive : sessions' = Append(sessions, [user |-> u, attempts |-> 0])
    /\ posted' = Append(posted, 0) /\ answered' = Append(answered, 0)
    /\ UNCHANGED <<curricula, progress, study, doubled, cut, opened>>

Guessing(id) == {r \in Slots : study[r].pc \in {"guess", "answer"} /\ study[r].doc = id}

\* guess_practice_session: one's own session; a solved one takes guesses as before.
PracticeBegin(r) ==
    /\ Serve("practice_guess")
    /\ \E id \in DOMAIN sessions : LET x == sessions[id] IN
          /\ x.user \in alive
          /\ StudyBegin(r, [NoStudy EXCEPT !.pc = "guess", !.by = x.user, !.doc = id, !.num = x.attempts])
          /\ posted' = [posted EXCEPT ![id] = @ + 1]
          /\ doubled' = IF Guessing(id) = {} THEN doubled ELSE doubled \cup {id}
    /\ UNCHANGED <<learningDocs, answered, cut, opened>>

\* Fault: the attempts as read are written back.
ForgetAttempt(r) ==
    /\ StudyAt(r, "guess")
    /\ StudyStep(r, [study[r] EXCEPT !.pc = "answer"])
    /\ UNCHANGED <<learningDocs, learningHistory, calls>>

WriteAttempts(r) ==
    /\ StudyAt(r, "guess")
    /\ sessions' = [sessions EXCEPT ![study[r].doc].attempts = study[r].num + 1]
    /\ StudyStep(r, [study[r] EXCEPT !.pc = "answer"])
    /\ UNCHANGED <<curricula, progress, learningHistory, calls>>

AnswerGuess(r) ==
    /\ StudyAt(r, "answer")
    /\ answered' = [answered EXCEPT ![study[r].doc] = @ + 1]
    /\ StudyEnd(r)
    /\ UNCHANGED <<learningDocs, posted, doubled, cut, opened, calls>>

(***************************************************************************)
(* The curriculum.                                                         *)
(***************************************************************************)
Status(c, done) ==
    IF c \in done THEN "done" ELSE IF c = 1 \/ c - 1 \in done THEN "current" ELSE "locked"

ShownOpen(done) == {c \in Chapters : Status(c, done) # "locked"}

\* build_curriculum_page of a signed-in user.
CurriculumBegin(r) ==
    /\ Serve("curriculum")
    /\ \E u \in alive :
          StudyBegin(r, [NoStudy EXCEPT !.pc = IF curricula = 0 THEN "seed" ELSE "progress",
                                        !.by = u, !.before = opened[u]])
    /\ UNCHANGED <<learningDocs, learningHistory>>

\* _ensure_curriculum inserts the default; of several, the same one is read again.
SeedCurriculum(r) ==
    /\ StudyAt(r, "seed")
    /\ curricula' = curricula + 1
    /\ StudyStep(r, [study[r] EXCEPT !.pc = "progress"])
    /\ UNCHANGED <<sessions, progress, learningHistory, calls>>

ReadProgress(r) ==
    /\ StudyAt(r, "progress")
    /\ StudyStep(r, [study[r] EXCEPT !.pc = "page", !.done = progress[study[r].by]])
    /\ UNCHANGED <<learningDocs, learningHistory, calls>>

ShowPage(r) ==
    /\ StudyAt(r, "page")
    /\ opened' = [opened EXCEPT ![study[r].by] = @ \cup ShownOpen(study[r].done)]
    /\ StudyEnd(r)
    /\ UNCHANGED <<learningDocs, posted, answered, doubled, cut, calls>>

\* Fault: completing a lesson replaces the progress document of the user.
CompleteInstead ==
    /\ Serve("lesson")
    /\ \E u \in alive, c \in Chapters : progress' = [progress EXCEPT ![u] = {c}]
    /\ UNCHANGED <<sessions, curricula, study, learningHistory>>

\* complete_lesson: an upsert by user, chapter and lesson.
CompleteLesson ==
    /\ Serve("lesson")
    /\ \E u \in alive, c \in Chapters : progress' = [progress EXCEPT ![u] = @ \cup {c}]
    /\ UNCHANGED <<sessions, curricula, study, learningHistory>>

KillStudy(r) ==
    /\ ~StudyAt(r, "idle")
    /\ Die
    /\ cut' = IF study[r].pc \in {"guess", "answer"} THEN cut \cup {study[r].doc} ELSE cut
    /\ StudyEnd(r)
    /\ UNCHANGED <<learningDocs, posted, answered, doubled, opened>>

LearningStep(r) ==
    \/ PracticeBegin(r) \/ WriteAttempts(r) \/ AnswerGuess(r) \/ CurriculumBegin(r) \/ SeedCurriculum(r)
    \/ ReadProgress(r) \/ ShowPage(r) \/ KillStudy(r)

LearningNext ==
    ((\E r \in Slots : LearningStep(r)) \/ OpenSession \/ CompleteLesson) /\ UNCHANGED accounts

(***************************************************************************)
(* Properties.                                                             *)
(***************************************************************************)
LearningOK ==
    /\ sessions \in Seq(Session) /\ curricula \in Nat
    /\ progress \in [Users -> SUBSET Chapters]
    /\ study \in [Slots -> Study]
    /\ posted \in Seq(Nat) /\ answered \in Seq(Nat) /\ doubled \subseteq Nat /\ cut \subseteq Nat
    /\ opened \in [Users -> SUBSET Chapters]

\* The attempts of a practice session are its guesses: never more than were
\* posted, however guesses overlap or are cut short, and unless two guesses of
\* the session overlapped, no answered guess is missing.  A guess killed between
\* the write and the answer is counted all the same; without such a kill the
\* attempts at rest are exactly the guesses answered.
AttemptsAreGuesses ==
    \A id \in DOMAIN sessions :
        /\ sessions[id].attempts <= posted[id]
        /\ id \notin doubled => answered[id] <= sessions[id].attempts
        /\ id \notin doubled \cup cut /\ Guessing(id) = {} => sessions[id].attempts = answered[id]

\* The curriculum leaves nobody outside: although lessons can be completed in
\* any order, also of locked chapters, every page has a chapter to go on with
\* until all are done, and a chapter that one page has shown as open is not
\* locked on a page asked for afterwards.
PathStaysOpen ==
    \A r \in Slots : StudyAt(r, "page") =>
        LET q == study[r] IN
          /\ q.done # Chapters => \E c \in Chapters : Status(c, q.done) = "current"
          /\ q.before \subseteq ShownOpen(q.done)
=============================================================================
