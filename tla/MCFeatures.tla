----------------------------- MODULE MCFeatures -----------------------------
(* Instances of Features: what is called side by side, and how often.       *)
EXTENDS Features, TLC

CONSTANTS s1, s2

Coins ==
    { [attempt |-> 2, win |-> 1, wallet |-> 1, kill |-> 1],
      [attempt |-> 1, win |-> 2, kill |-> 1],
      [puzzles |-> 2, attempt |-> 1],
      [sign_up |-> 1, win |-> 1, attempt |-> 1, kill |-> 1] }
Boards ==
    { [win |-> 2, task |-> 2],
      [win |-> 1, task |-> 1, global |-> 1],
      [win |-> 1, global |-> 2],
      [win |-> 1, task |-> 1, my_rank |-> 1, remove_account |-> 1],
      [win |-> 1, my_rank |-> 2, kill |-> 1],
      [win |-> 1, late_win |-> 1, task |-> 1],
      [sign_up |-> 1, win |-> 1, task |-> 1],
      [sign_up |-> 1, global |-> 1, remove_account |-> 1] }
Sociable ==
    { [friend_request |-> 2, respond |-> 3, remove_friend |-> 1, kill |-> 1],
      [friend_request |-> 1, respond |-> 1, inbox |-> 2, read |-> 1],
      [friend_request |-> 1, respond |-> 1, remove_friend |-> 1, social_page |-> 2, remove_account |-> 1],
      [win |-> 1, inbox |-> 2],
      [challenge |-> 2, remove_account |-> 2, kill |-> 1],
      [challenge |-> 1, play |-> 2],
      [sign_up |-> 1, friend_request |-> 1, inbox |-> 1, kill |-> 1] }
Pictures ==
    { [upload |-> 3, remove_account |-> 1, kill |-> 1] }
Lessons ==
    { [session |-> 2, practice_guess |-> 3, kill |-> 1],
      [curriculum |-> 2, lesson |-> 3] }
Pages ==
    { [profile |-> 1, inventory |-> 2, kill |-> 1],
      [profile |-> 2, wallet |-> 1],
      [profile |-> 1, win |-> 1, attempt |-> 1],
      [profile |-> 1, win |-> 1, task |-> 1],
      [profile |-> 1, late_win |-> 1, win |-> 1],
      [sign_up |-> 1, profile |-> 1, inventory |-> 1],
      [sign_up |-> 1, profile |-> 1, wallet |-> 1] }
SideBySide == Lessons \cup Pages \cup Coins \cup Boards \cup Sociable \cup Pictures
=============================================================================
