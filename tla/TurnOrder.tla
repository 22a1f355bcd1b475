----------------------------- MODULE TurnOrder -----------------------------
(***************************************************************************)
(* What a two-player game promises about turns, whatever happens to its    *)
(* status, its board or the requests in between: the creator takes the     *)
(* first turn, and no player takes two turns in a row.                     *)
(***************************************************************************)
EXTENDS Naturals

VARIABLES
    seat,     \* who took the last turn; "none" at the start
    taken     \* how many turns were taken

Players == {"creator", "joiner"}

Init == seat = "none" /\ taken = 0

Take(p) ==
    /\ seat # p
    /\ taken = 0 => p = "creator"
    /\ seat' = p
    /\ taken' = taken + 1

Next == \E p \in Players : Take(p)

Spec == Init /\ [][Next]_<<seat, taken>>
=============================================================================
