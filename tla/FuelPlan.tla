------------------------------ MODULE FuelPlan ------------------------------
(***************************************************************************)
(* What a fuel plan promises the driver, whatever algorithm computes it:   *)
(* a tank that starts full takes the car from one station to the next,     *)
(* never further than the range, and the plan gives up only on a trip that *)
(* no choice of stations could make.  FuelOptimizer implements it.         *)
(***************************************************************************)
EXTENDS Integers

VARIABLES
    total,      \* length of the route, in miles
    range,      \* miles on a full tank
    stations,   \* the positions of the stations along the route
    at,         \* position of the last stop (0: the start)
    outcome     \* "driving" | "arrives" | "stranded"

vars == <<total, range, stations, at, outcome>>

\* Some choice P of stations lets the car go on from the start, and from each
\* of them, until the destination is within range.
Feasible ==
    \E P \in SUBSET stations :
        \A x \in P \cup {0} :
            x + range < total => \E y \in P : x < y /\ y <= x + range

Init ==
    /\ total \in Nat
    /\ range \in Nat \ {0}
    /\ stations \subseteq Nat
    /\ at = 0
    /\ outcome = "driving"

Refuel ==
    /\ outcome = "driving"
    /\ \E s \in stations : at < s /\ s <= at + range /\ at' = s
    /\ UNCHANGED <<total, range, stations, outcome>>

Arrive ==
    /\ outcome = "driving"
    /\ total <= at + range
    /\ outcome' = "arrives"
    /\ UNCHANGED <<total, range, stations, at>>

Strand ==
    /\ outcome = "driving"
    /\ ~Feasible
    /\ outcome' = "stranded"
    /\ UNCHANGED <<total, range, stations, at>>

Next == Refuel \/ Arrive \/ Strand

\* A plan is always completed.
Completes == <>(outcome # "driving")

Spec == Init /\ [][Next]_vars

FairSpec == Spec /\ Completes
=============================================================================
