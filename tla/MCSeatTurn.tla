---------------------------- MODULE MCSeatTurn ----------------------------
(* One turn of each kind of seat: its first session and at most two more. *)
EXTENDS SeatTurn

Builder == [requests |-> 2, confined |-> FALSE, recorded |-> TRUE, advised |-> TRUE, apart |-> FALSE]
Planner == [requests |-> 2, confined |-> TRUE, recorded |-> TRUE, advised |-> FALSE, apart |-> FALSE]
Claude == [requests |-> 3, confined |-> FALSE, recorded |-> FALSE, advised |-> FALSE, apart |-> FALSE]

Pi == [requests |-> 2, confined |-> FALSE, recorded |-> FALSE, advised |-> FALSE, apart |-> TRUE]

AnySeat == {Pi, Builder, Planner, Claude}
\* A turn of up to three sessions: two beside the first, of retries, the rerun and the repair.
ThreeSessions == Cardinality(asked.names) <= 3

Rungs == <<1, 2>>
=============================================================================
