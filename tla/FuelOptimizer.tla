--------------------------- MODULE FuelOptimizer ---------------------------
(***************************************************************************)
(* FuelOptimizerService.optimize (services/fuel/optimizer.py): the greedy  *)
(* choice of fuel stops.  The state is the function's locals; one action   *)
(* per way through the function, one FuelStop per turn of its loop.        *)
(*                                                                         *)
(* Distances are whole miles.  Gallons are miles / mpg, so the gallons a   *)
(* stop buys are given by the miles they cover, and money is counted in    *)
(* units of (price unit / mpg): a stop that buys m miles at price p costs  *)
(* m * p of them.  A cent is Cent such units; round(x, 2) is a nearest     *)
(* multiple of Cent, either one at a tie (binary floating point decides).  *)
(***************************************************************************)
EXTENDS Integers, Sequences, FiniteSets
LOCAL INSTANCE FiniteSetsExt

CONSTANTS
    Distances,      \* route lengths the trip may have
    Ranges,         \* VehicleConfig.max_range_miles
    Stations,       \* candidates that may be offered: [at, price]
    AveragePrice,   \* the 3.50 of a plan without stops
    Cent            \* money units in a cent

ASSUME InputAssumption ==
    /\ Distances \subseteq Nat
    /\ Ranges \subseteq Nat \ {0}
    /\ Stations \subseteq [at : Nat, price : Nat]
    /\ AveragePrice \in Nat
    /\ Cent \in Nat \ {0}

VARIABLES
    total,          \* route.total_distance_miles
    range,          \* config.max_range_miles
    candidates,     \* the reduced candidate stations
    pc,             \* "start" | "loop" | "done"
    current,        \* current_distance
    remaining,      \* remaining_range
    lastStop,       \* last_stop_distance
    stops,          \* fuel_stops
    cost,           \* total_cost, unrounded
    reported        \* total_fuel_cost of the result, 0 before the return

inputs == <<total, range, candidates>>
vars == <<inputs, pc, current, remaining, lastStop, stops, cost, reported>>

Rounded(x) ==
    LET low == Cent * (x \div Cent)
    IN  {r \in {low, low + Cent} : 2 * (x - r) <= Cent /\ 2 * (r - x) <= Cent}

TypeOK ==
    /\ total \in Distances
    /\ range \in Ranges
    /\ candidates \subseteq Stations
    /\ pc \in {"start", "loop", "done"}
    /\ current \in Nat
    /\ remaining \in Nat
    /\ lastStop \in Nat
    /\ stops \in Seq([at : Nat, price : Nat, miles : Nat, cost : Nat])
    /\ cost \in Nat
    /\ reported \in Nat

Init ==
    /\ total \in Distances
    /\ range \in Ranges
    /\ candidates \in SUBSET Stations
    /\ pc = "start"
    /\ current = 0
    /\ remaining = range
    /\ lastStop = 0
    /\ stops = <<>>
    /\ cost = 0
    /\ reported = 0

\* The route needs no stop, or there is nowhere to stop: the trip is priced at
\* the average and returned without stops.
ReturnWithoutStops ==
    /\ pc = "start"
    /\ candidates = {} \/ total <= range
    /\ reported' \in Rounded(total * AveragePrice)
    /\ pc' = "done"
    /\ UNCHANGED <<inputs, current, remaining, lastStop, stops, cost>>

EnterLoop ==
    /\ pc = "start"
    /\ candidates # {}
    /\ range < total
    /\ pc' = "loop"
    /\ UNCHANGED <<inputs, current, remaining, lastStop, stops, cost, reported>>

\* Faulty: a station exactly at the end of the range is not seen.
ReachableShort ==
    {c \in candidates : lastStop < c.at /\ c.at < current + remaining}

\* Faulty: any station ahead will do.
ReachableAhead == {c \in candidates : lastStop < c.at}

Reachable ==
    {c \in candidates : lastStop < c.at /\ c.at <= current + remaining}

\* Faulty: the nearest station, whatever its price.
IsNearest(c, S) == \A d \in S : c.at <= d.at

\* min() over the stations sorted by distance: the nearest of the cheapest.
IsCheapest(c, S) ==
    \A d \in S : c.price < d.price \/ (c.price = d.price /\ c.at <= d.at)

\* Faulty: what is missing to get to c.
NeededToArrive(c) == (c.at - current) - remaining

\* gallons_needed on arrival at c, in miles: the tank is filled up.
Needed(c) == range - (remaining - (c.at - current))

\* Faulty: total_cost is set, not added to.
OnlyCost(c) == Needed(c) * c.price

AddedCost(c) == cost + Needed(c) * c.price

Buy(c) ==
    /\ \E shown \in Rounded(Needed(c) * c.price) :
          stops' = Append(stops, [at |-> c.at, price |-> c.price,
                                  miles |-> Needed(c), cost |-> shown])
    /\ cost' = AddedCost(c)

\* Faulty: the tank is paid for and stays as it was.
DriveOn(c) ==
    /\ current' = c.at
    /\ remaining' = remaining - (c.at - current)
    /\ lastStop' = c.at

DriveTo(c) ==
    /\ current' = c.at
    /\ remaining' = range
    /\ lastStop' = c.at

Refuel ==
    /\ pc = "loop"
    /\ current + remaining < total
    /\ \E c \in Reachable : IsCheapest(c, Reachable) /\ Buy(c) /\ DriveTo(c)
    /\ UNCHANGED <<inputs, pc, reported>>

\* `break  # Cannot reach the end`: the stops so far are returned as the plan.
GiveUp ==
    /\ pc = "loop"
    /\ current + remaining < total
    /\ Reachable = {}
    /\ reported' \in Rounded(cost)
    /\ pc' = "done"
    /\ UNCHANGED <<inputs, current, remaining, lastStop, stops, cost>>

Finish ==
    /\ pc = "loop"
    /\ total <= current + remaining
    /\ reported' \in Rounded(cost)
    /\ pc' = "done"
    /\ UNCHANGED <<inputs, current, remaining, lastStop, stops, cost>>

Next == ReturnWithoutStops \/ EnterLoop \/ Refuel \/ GiveUp \/ Finish

\* The call runs on one thread and waits for nothing: it keeps taking steps.
Spec == Init /\ [][Next]_vars /\ WF_vars(Next)

-----------------------------------------------------------------------------

\* Where the car last filled up before stop i of s (it starts with a full tank).
Before(s, i) == IF i = 1 THEN 0 ELSE s[i - 1].at

Arrives == total <= current + range

\* Every stop is a candidate further along the route, no leg between two stops
\* is longer than the range, the fuel bought at a stop is exactly what the leg
\* to it burnt, and no stop is made once the destination is within range.
LegsWithinRange ==
    \A i \in 1..Len(stops) :
        /\ \E c \in candidates : c.at = stops[i].at /\ c.price = stops[i].price
        /\ Before(stops, i) < stops[i].at
        /\ stops[i].at <= Before(stops, i) + range
        /\ stops[i].miles = stops[i].at - Before(stops, i)
        /\ Before(stops, i) + range < total

\* No regret: a stop is never dearer than a later one that could have been
\* reached without it (the greedy choice at line 68, seen over several turns).
NoRegret ==
    \A i, j \in 1..Len(stops) :
        i < j /\ stops[j].at <= Before(stops, i) + range
            => stops[i].price <= stops[j].price

\* What some choice of the candidates could have done, see FuelPlan.
Plan == INSTANCE FuelPlan
          WITH at <- current,
               stations <- {c.at : c \in candidates},
               outcome <- IF pc # "done" THEN "driving"
                          ELSE IF Arrives THEN "arrives" ELSE "stranded"

\* The greedy arrives exactly when some choice of the candidates does: choosing
\* a near cheap station does not lose a far one for good.
StrandedIffInfeasible == pc = "done" => (Arrives <=> Plan!Feasible)

\* What the costs shown for the stops of s add up to.
ShownSum(s) ==
    LET sum[k \in 0..Len(s)] == IF k = 0 THEN 0 ELSE sum[k - 1] + s[k].cost
    IN  sum[Len(s)]

\* The total is rounded from the unrounded sum (line 91), so the costs shown for
\* the stops add up to it only within half a cent per stop and half for the sum.
ShownCostsAddUp ==
    pc = "done" /\ stops # <<>> =>
        LET gap == ShownSum(stops) - reported
            slack == (Len(stops) + 1) * Cent
        IN  2 * gap <= slack /\ -2 * gap <= slack

\* The optimizer implements the promise to the driver, and always returns.
ImplementsPlan == Plan!FairSpec

-----------------------------------------------------------------------------
(* What the code's documentation claims, and the code does not do.          *)

\* services/fuel/optimizer.py:24 "ensuring the vehicle never runs out of fuel".
NeverRunsOutOfFuel == pc = "done" => Arrives

\* services/fuel/optimizer.py:24 "Calculates fuel stops to minimize total cost".
\* A fuelling buys b[c] miles at each candidate c it passes; it makes the trip when
\* the tank never runs dry and never overflows.
Tank(b, x) == range - x + MapThenSumSet(LAMBDA c : b[c], {c \in candidates : c.at < x})

MakesTrip(b) ==
    /\ Tank(b, total) >= 0
    /\ \A c \in candidates :
          LET here == {d \in candidates : d.at = c.at}
          IN  /\ Tank(b, c.at) >= 0
              /\ Tank(b, c.at) + MapThenSumSet(LAMBDA d : b[d], here) <= range

\* A plan with stops costs no more than any fuelling that makes the trip and
\* arrives with as much fuel left.
CheapestPlan ==
    pc = "done" /\ Arrives /\ stops # <<>> =>
        \A b \in [candidates -> 0..range] :
            MakesTrip(b) /\ Tank(b, total) >= current + range - total
                => cost <= MapThenSumSet(LAMBDA c : b[c] * c.price, candidates)

=============================================================================
