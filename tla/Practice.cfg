\* A practice session whose secret is longer than a guess may be.
CONSTANTS
    Digits = {0, 1, 2, 3, 4}
    SecretLength = 4
    PracticeLengths = {5}
    PuzzleLengths = {}
    Boards = {"practice"}
SPECIFICATION Spec
INVARIANTS
    Solvable
CHECK_DEADLOCK FALSE
