------------------------------ MODULE Scoring ------------------------------
(***************************************************************************)
(* What a guess is told: Player.guess_result, the bluff of the fake        *)
(* feedback power-up, and which codes and guesses the three kinds of board *)
(* accept.  A match and its guesses use validated codes; a practice        *)
(* session draws its own secret; a puzzle takes any string of digits.      *)
(*                                                                         *)
(* A code is a sequence of digits.  A definition whose comment starts with *)
(* "Fault" is a variant of the one after it with a plausible bug.          *)
(***************************************************************************)
EXTENDS Integers, Sequences, FiniteSets, SequencesExt, FiniteSetsExt

CONSTANTS
    Digits,          \* 0 .. 9 in the program
    SecretLength,    \* SECRET_LENGTH, 4 in the program
    PracticeLengths, \* lengths a practice session may ask for, 3 .. 8 in the program
    PuzzleLengths,   \* lengths of the guesses a puzzle is sent
    Boards           \* the kinds of board looked at: "match", "practice", "puzzle"

ASSUME ScoringAssumption ==
    /\ Digits \subseteq Nat /\ IsFiniteSet(Digits)
    /\ SecretLength \in Nat \ {0}
    /\ PracticeLengths \subseteq Nat /\ PuzzleLengths \subseteq Nat
    /\ Boards \subseteq {"match", "practice", "puzzle"}

VARIABLES
    board,    \* the kind of board
    secret,   \* its secret
    guess,    \* the guess it was sent, << >> before
    answer    \* the answer to the guess

vars == <<board, secret, guess, answer>>

Codes(n)     == [1 .. n -> Digits]
Distinct(c)  == Cardinality(ToSet(c)) = Len(c)

\* validate_code: what CodeStr accepts.
ValidCodes == {c \in Codes(SecretLength) : Distinct(c)}

\* _generate_secret for every pair of length and allow_duplicates.
PracticeSecrets == UNION {Codes(n) : n \in PracticeLengths}

SecretsOf == [match |-> ValidCodes, puzzle |-> ValidCodes, practice |-> PracticeSecrets]

\* PuzzleAttemptRequest.guess is any string, the others are a CodeStr.
GuessesOf(b) == IF b = "puzzle" THEN UNION {Codes(n) : n \in PuzzleLengths} ELSE ValidCodes

Shorter(g, c) == IF Len(g) < Len(c) THEN Len(g) ELSE Len(c)
Count(s, d)   == Cardinality({i \in DOMAIN s : s[i] = d})

\* dead: zip pairs the digits up to the end of the shorter one.
Dead(g, c) == Cardinality({i \in 1 .. Shorter(g, c) : g[i] = c[i]})

\* Fault: every copy of a guessed digit counts.
InjuredPerCopy(g, c) ==
    MapThenSumSet(LAMBDA i : IF g[i] \in ToSet(c) THEN 1 ELSE 0, DOMAIN g) - Dead(g, c)

\* min(guess_digits.count(d), self.code.count(d)) for every d: copy k of a digit
\* is common to both codes if both have that many.
Common(g, c) ==
    {copy \in Digits \X (1 .. Len(g)) : copy[2] <= Count(g, copy[1]) /\ copy[2] <= Count(c, copy[1])}

\* injured: the digits in common, less the dead ones.
Injured(g, c) == Cardinality(Common(g, c)) - Dead(g, c)

GameOver(g, c) == Dead(g, c) = Len(c)

\* fake_dead and fake_injured of submit_guess, n the length of the guess.
FakeDead(d, n) == (d + 1) % (n + 1)

\* Fault: the difference is not cut off at zero.
FakeInjuredUncut(d, i, n) == n - FakeDead(d, n) - (i - 1)

FakeInjured(d, i, n) ==
    LET rest == n - FakeDead(d, n) - (IF i > 1 THEN i - 1 ELSE 0)
    IN  IF rest > 0 THEN rest ELSE 0

None == [kind |-> "none", dead |-> 0, injured |-> 0, solved |-> FALSE, status |-> "none"]

Init ==
    /\ board \in Boards
    /\ secret \in SecretsOf[board]
    /\ guess = << >> /\ answer = None

\* The status that submit_guess reads back after the guess: a solving guess has
\* completed the match by then, bluffed or not.  The other boards have none.
StatusAfter(g) == IF board # "match" THEN "none"
                  ELSE IF GameOver(g, secret) THEN "completed" ELSE "started"

Truth(g) == [kind    |-> "true",
             dead    |-> Dead(g, secret),
             injured |-> Injured(g, secret),
             solved  |-> GameOver(g, secret),
             status  |-> StatusAfter(g)]

Bluff(g) == [kind    |-> "fake",
             dead    |-> FakeDead(Dead(g, secret), Len(g)),
             injured |-> FakeInjured(Dead(g, secret), Injured(g, secret), Len(g)),
             solved  |-> FALSE,
             status  |-> StatusAfter(g)]

\* One guess: what earlier guesses were told does not matter to it.  The
\* solved flag of a match compares dead with the length of the guess, which is
\* the length of the secret there.
Guess ==
    /\ answer = None
    /\ \E g \in GuessesOf(board) : guess' = g /\ answer' = Truth(g)
    /\ UNCHANGED <<board, secret>>

FakeGuess ==
    /\ answer = None /\ board = "match"
    /\ \E g \in GuessesOf(board) : guess' = g /\ answer' = Bluff(g)
    /\ UNCHANGED <<board, secret>>

Next == Guess \/ FakeGuess

Spec == Init /\ [][Next]_vars

(***************************************************************************)
(* Properties.                                                             *)
(***************************************************************************)
\* Scoring by hand: cross out the exact hits on both codes; then, as long as a
\* digit left in the guess has an equal digit left in the secret, cross out
\* both.  A pair is <<position in the guess, position in the secret>>.
Misses(g, c) == {i \in DOMAIN g : ~(i \in DOMAIN c /\ g[i] = c[i])}
Pairs(g, c)  == {p \in Misses(g, c) \X Misses(c, g) : g[p[1]] = c[p[2]]}
Apart(p, q)  == p[1] # q[1] /\ p[2] # q[2]

\* The outcomes of the second round, one for every order of going about it: no
\* position is crossed out twice, and no pair is left.
CrossedOut(g, c) ==
    {P \in SUBSET Pairs(g, c) :
        /\ \A p, q \in P : p # q => Apart(p, q)
        /\ \A p \in Pairs(g, c) \ P : \E q \in P : ~Apart(p, q)}

\* guess_result agrees with scoring by hand on every board and in whatever
\* order the digits are crossed out, for guesses that are shorter or longer
\* than the secret and for repeated digits too.
ScoredByHand ==
    answer.kind = "true" =>
        /\ answer.dead = Cardinality(DOMAIN guess \ Misses(guess, secret))
        /\ {Cardinality(P) : P \in CrossedOut(guess, secret)} = {answer.injured}

\* The counts of fake feedback mislead: the dead count is never the true one,
\* and the two counts stay within the length of the code, wherever the first
\* wraps around.  It is about the counts only: a solving guess can be told from
\* the status of the answer all the same.
BluffIsABluff ==
    answer.kind = "fake" =>
        /\ answer.dead # Dead(guess, secret)
        /\ answer.dead + answer.injured \in 0 .. Len(guess)

\* Every session can be won: some guess that the board accepts solves it.
Solvable == answer = None => \E g \in GuessesOf(board) : GameOver(g, secret)
=============================================================================
