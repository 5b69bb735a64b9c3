----------------------------- MODULE MCRideEvents -----------------------------
(* Two rides, and one event that is not about a ride. *)
EXTENDS RideEvents

CONSTANTS r1, r2

\* All of the first ride, one event of the second.
SomeEvents ==
  {[ride |-> r1, stage |-> s] : s \in Stage}
    \cup {[ride |-> r2, stage |-> s] : s \in {Accepted}}
    \cup {OtherEvent}
=============================================================================
