----------------------------- MODULE RoadPlan -----------------------------
(***************************************************************************)
(* plan_optimized_trip behind its caches (services/trips/trip_planner.py): *)
(* the corridor's stations are handed to the optimizer, with the length    *)
(* ORS gave for the route and the caller's vehicle.  Corridor works with   *)
(* the haversine length of the polyline and with checkpoints, the driver   *)
(* with the road: what a plan is worth on the road is said here.           *)
(***************************************************************************)
EXTENDS Corridor

CONSTANTS
    Mismatches,     \* ORS's length of a route, less that of its polyline
    Vehicles,       \* ranges of the vehicles a trip is planned for
    AveragePrice,
    Cent

ASSUME RoadPlanAssumption ==
    /\ Mismatches \subseteq Int
    /\ Vehicles \subseteq Nat \ {0}
    /\ AveragePrice \in Nat /\ Cent \in Nat \ {0}

VARIABLES total, range, pc, current, remaining, lastStop, stops, cost, reported

optimizer == <<total, range, pc, current, remaining, lastStop, stops, cost, reported>>
planVars == <<vars, optimizer>>

\* What the optimizer is given of a station: where its checkpoint is.
Offered == {[at |-> c.at, price |-> c.price] : c \in kept}

Optimizer == INSTANCE FuelOptimizer
               WITH candidates <- Offered, Distances <- Nat, Ranges <- Vehicles,
                    Stations <- [at : Nat, price : Nat]

PlanInit ==
    /\ Init
    /\ total = 0 /\ range = 0 /\ pc = "none" /\ current = 0 /\ remaining = 0
    /\ lastStop = 0 /\ stops = <<>> /\ cost = 0 /\ reported = 0

\* Route sampling and reduction, for plan_optimized_trip.
Reduce == pc = "none" /\ Next /\ UNCHANGED optimizer

\* optimize(route_metadata, candidates, vehicle_config)
Optimize ==
    /\ stage = "done"
    /\ pc = "none"
    /\ total' \in {Length + m : m \in Mismatches} \cap Nat
    /\ range' \in Vehicles
    /\ pc' = "start"
    /\ remaining' = range'
    /\ UNCHANGED <<vars, current, lastStop, stops, cost, reported>>

Choose == UNCHANGED vars /\ Optimizer!Next

PlanNext == Reduce \/ Optimize \/ Choose

PlanSpec == PlanInit /\ [][PlanNext]_planVars /\ WF_planVars(PlanNext)

-----------------------------------------------------------------------------

Positive(x) == IF x > 0 THEN x ELSE 0

\* How far a station may be from its checkpoint when no gap is wider than w.
Shift(w) == IF 2 * Radius > w THEN Radius ELSE (w + 1) \div 2

\* The stations a stop may stand for: the optimizer tells them by checkpoint.
StationsOf(s) == {c \in kept : c.at = s.at /\ c.price = s.price}

\* A plan that arrives, by the optimizer's lights, can be driven by a vehicle
\* that goes a gap between two checkpoints further, and the part of the road that
\* ORS's length leaves out: no leg of the road is longer, wherever the stations
\* stand that were moved to their checkpoints.
RoadLegsAreBounded ==
    pc = "done" /\ Optimizer!Arrives =>
        \A w \in {w \in 0..Length : NoWiderThan(w)} :
            /\ \A k \in DOMAIN stops : \A c \in StationsOf(stops[k]) :
                  IF k = 1 THEN c.mile <= range + Shift(w)
                  ELSE \A d \in StationsOf(stops[k - 1]) :
                          d.mile <= c.mile /\ c.mile <= d.mile + range + 2 * Shift(w)
            /\ IF stops = <<>> THEN Length <= range + Positive(Length - total)
               ELSE \A c \in StationsOf(stops[Len(stops)]) :
                       Length <= c.mile + range + Shift(w) + Positive(Length - total)

\* A trip is given up only if no choice of the stations kept would make it on the
\* road with that much less range: neither the checkpoints nor ORS's length lose
\* a trip that has this margin.
GivesUpOnlyWithoutMargin ==
    pc = "done" /\ ~Optimizer!Arrives =>
        \A w \in {w \in 0..Length : NoWiderThan(w)} :
            LET margin == 2 * Shift(w) + Positive(total - Length)
            IN  margin < range => ~Trip(range - margin, {c.mile : c \in kept})!Feasible

\* The pipeline as a whole loses no trip with two segments more of margin: one that
\* is given up could not be made with any choice of the stations along the road,
\* the ones that were dropped for their price included.
NoTripIsLost ==
    pc = "done" /\ ~Optimizer!Arrives =>
        \A w \in {w \in 0..Length : NoWiderThan(w)} :
            LET margin == 2 * Shift(w) + 2 * (Segment - 1) + Positive(total - Length)
            IN  margin < range => ~Trip(range - margin, {c.mile : c \in found})!Feasible
=============================================================================
