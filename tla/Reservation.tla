---------------------------- MODULE Reservation ----------------------------
(***************************************************************************)
(* What the store of crew/reclaim.mjs promises its callers about one key:  *)
(* a reservation is given only when there is none, moves through phases    *)
(* under the identity it was given, and goes only by being cleared.        *)
(***************************************************************************)
CONSTANTS
  Id,      \* the identities reservations are given under
  Phases,  \* what a reservation can be advanced to
  None     \* no reservation: in neither of them

VARIABLES
  holder,  \* the reservation there is, None for none
  phase    \* the phase it has been advanced to

Init == holder = None /\ phase = None

Reserve == /\ holder = None
           /\ holder' \in Id
           /\ phase' = "reserved"

Advance == /\ holder # None
           /\ phase' \in Phases
           /\ UNCHANGED holder

Clear == /\ holder # None
         /\ holder' = None
         /\ phase' = None

Next == Reserve \/ Advance \/ Clear

Spec == Init /\ [][Next]_<<holder, phase>>
=============================================================================
