----------------------------- MODULE TokenStore -----------------------------
(***************************************************************************)
(* What the browser's session storage promises: the pair of tokens in it   *)
(* is one the hub issued, and every issued pair enters the storage at most *)
(* once.  A pair that was replaced, dropped or lost on the way never comes *)
(* back, whichever window wrote to the storage last.                       *)
(***************************************************************************)
EXTENDS Naturals

CONSTANT MaxPairs

VARIABLES
  unseen,   \* pairs that have not been in the storage yet
  stored    \* the pair in the storage, 0 when it is empty

vars == <<unseen, stored>>

Init ==
  /\ stored \in {0, 1}
  /\ unseen = (1..MaxPairs) \ {stored}

\* A pair reaches the storage for the first time.
Store(p) ==
  /\ p \in unseen
  /\ unseen' = unseen \ {p}
  /\ stored' = p

\* The session is dropped.
Drop ==
  /\ stored' = 0
  /\ UNCHANGED unseen

Next == Drop \/ \E p \in unseen : Store(p)

Spec == Init /\ [][Next]_vars
=============================================================================
