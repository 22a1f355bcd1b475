\* Codes of four distinct digits out of five; practice secrets of three, repeated
\* digits included; puzzle guesses that are empty, too short and too long.
CONSTANTS
    Digits = {0, 1, 2, 3, 4}
    SecretLength = 4
    PracticeLengths = {3}
    PuzzleLengths = {0, 3, 5}
    Boards = {"match", "practice", "puzzle"}
SPECIFICATION Spec
INVARIANTS
    ScoredByHand
    BluffIsABluff
CHECK_DEADLOCK FALSE
