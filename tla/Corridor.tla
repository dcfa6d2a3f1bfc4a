------------------------------ MODULE Corridor ------------------------------
(***************************************************************************)
(* From a decoded route to the candidate stations of the optimizer:        *)
(* GeometryService.downsample_route picks checkpoints, the repository      *)
(* finds the stations near the line through them, and                      *)
(* CandidateReductionService assigns each station to its nearest           *)
(* checkpoint and keeps the cheapest few of each segment of the road.      *)
(*                                                                         *)
(* The road is a line: a point of it is given by its mile, and the         *)
(* distance of two points is the difference of their miles.  A station is  *)
(* at the mile where it is nearest to the road; a negative mile, or one    *)
(* beyond the last, is that of a station before the start or past the end. *)
(***************************************************************************)
EXTENDS Integers, Sequences, FiniteSets

CONSTANTS
    Routes,         \* cumulative distances of the route's points
    Stations,       \* stations the database may hold: [mile, price]
    Interval,       \* miles between checkpoints: 10
    Radius,         \* of the corridor, in miles: 10
    Segment,        \* segment_size_miles: 50
    Limit,          \* max_candidates_per_segment: 5
    Ranges          \* ranges of the vehicles that may use the result

ASSUME CorridorAssumption ==
    /\ \A p \in Routes :
          /\ p \in Seq(Nat) /\ p # <<>> /\ p[1] = 0
          /\ \A i, j \in DOMAIN p : i < j => p[i] <= p[j]
    /\ Stations \subseteq [mile : Int, price : Nat]
    /\ IsFiniteSet(Stations)
    /\ Interval \in Nat \ {0} /\ Segment \in Nat \ {0} /\ Limit \in Nat \ {0}
    /\ Radius \in Nat
    /\ Ranges \subseteq Nat

VARIABLES
    points,         \* cumulative_distances
    stations,       \* the fuel station table
    stage,          \* "sample" | "search" | "filter" | "done" | "failed"
    i,              \* the next point of the sampling loop
    lastDist,       \* last_checkpoint_dist
    checkpoints,    \* the checkpoints' distances from the start
    found,          \* processed_candidates: [mile, price, at]
    todo,           \* those whose segment is still to be filtered
    kept            \* final_candidates

inputs == <<points, stations>>
sampling == <<i, lastDist, checkpoints>>
vars == <<inputs, stage, sampling, found, todo, kept>>

Candidates == [mile : Int, price : Nat, at : Nat]

TypeOK ==
    /\ points \in Routes /\ stations \subseteq Stations
    /\ stage \in {"sample", "search", "filter", "done", "failed"}
    /\ i \in 1..(Len(points) + 1)
    /\ lastDist \in Nat
    /\ checkpoints \in Seq(Nat)
    /\ found \subseteq Candidates
    /\ todo \subseteq found
    /\ kept \subseteq found

Length == points[Len(points)]

Init ==
    /\ points \in Routes
    /\ stations \in SUBSET Stations
    /\ stage = "sample"
    /\ i = 2
    /\ lastDist = 0
    /\ checkpoints = <<0>>
    /\ found = {} /\ todo = {} /\ kept = {}

-----------------------------------------------------------------------------
(* downsample_route                                                         *)

\* Faulty: the interval is measured from the point before, not from the last
\* checkpoint, so many short steps add up to nothing.
FarFromPoint(d) == d - points[i - 1] >= Interval

Far(d) == d - lastDist >= Interval

\* Faulty: the loop takes every second point.
AdvanceTwo == i' = i + 2

\* Faulty: the loop stays where it is.
Stay == i' = i

Advance == i' = i + 1

Sample ==
    /\ stage = "sample"
    /\ i <= Len(points)
    /\ Far(points[i])
    /\ checkpoints' = Append(checkpoints, points[i])
    /\ lastDist' = points[i]
    /\ Advance
    /\ UNCHANGED <<inputs, stage, found, todo, kept>>

Pass ==
    /\ stage = "sample"
    /\ i <= Len(points)
    /\ ~Far(points[i])
    /\ Advance
    /\ UNCHANGED <<inputs, stage, lastDist, checkpoints, found, todo, kept>>

\* Faulty: the end is left out.
WithoutEnd == checkpoints

WithEnd ==
    IF lastDist < Length THEN Append(checkpoints, Length) ELSE checkpoints

\* The end of the route is a checkpoint too.
SampleEnd ==
    /\ stage = "sample"
    /\ i > Len(points)
    /\ checkpoints' = WithEnd
    /\ stage' = "search"
    /\ UNCHANGED <<inputs, i, lastDist, found, todo, kept>>

-----------------------------------------------------------------------------
(* reduce_candidates                                                        *)

Gap(x, y) == IF x <= y THEN y - x ELSE x - y

\* The stations within Radius of the line through the checkpoints.
InCorridor == {s \in stations : -Radius <= s.mile /\ s.mile <= Length + Radius}

\* Faulty: the last checkpoint passed, not the nearest.
PassedCheckpoint(mile) ==
    LET k == CHOOSE k \in DOMAIN checkpoints :
                /\ checkpoints[k] <= mile \/ k = 1
                /\ \A j \in DOMAIN checkpoints : checkpoints[j] <= mile => j <= k
    IN  checkpoints[k]

\* _find_nearest_checkpoint: the first of the nearest.
NearestCheckpoint(mile) ==
    LET k == CHOOSE k \in DOMAIN checkpoints :
                \A j \in DOMAIN checkpoints :
                   \/ Gap(checkpoints[k], mile) < Gap(checkpoints[j], mile)
                   \/ Gap(checkpoints[k], mile) = Gap(checkpoints[j], mile) /\ k <= j
    IN  checkpoints[k]

Search ==
    /\ stage = "search"
    /\ Len(checkpoints) > 1
    /\ found' = {[mile |-> s.mile, price |-> s.price, at |-> NearestCheckpoint(s.mile)] :
                    s \in InCorridor}
    /\ todo' = found'
    /\ stage' = "filter"
    /\ UNCHANGED <<inputs, sampling, kept>>

\* A line needs two points: LineString raises ValueError for one, the route of
\* two places that are the same.
SearchFails ==
    /\ stage = "search"
    /\ Len(checkpoints) = 1
    /\ stage' = "failed"
    /\ UNCHANGED <<inputs, sampling, found, todo, kept>>

SegmentOf(c) == c.at \div Segment

\* The order of the candidates in a segment: by price, then along the road.
\* Two stations alike in both come in the order the database gave them.
NotAfter(c, d) == c.price < d.price \/ (c.price = d.price /\ c.at <= d.at)

\* Faulty: a full segment loses one station too many.
IsBestButOne(K, S) ==
    /\ Cardinality(K) = IF Cardinality(S) < Limit THEN Cardinality(S) ELSE Limit - 1
    /\ \A c \in K, d \in S \ K : NotAfter(c, d)

IsBest(K, S) ==
    /\ Cardinality(K) = IF Cardinality(S) < Limit THEN Cardinality(S) ELSE Limit
    /\ \A c \in K, d \in S \ K : NotAfter(c, d)

\* One segment, in the order of the road.
FilterSegment ==
    /\ stage = "filter"
    /\ \E c \in todo :
          LET S == {d \in todo : SegmentOf(d) = SegmentOf(c)}
          IN  /\ \A d \in todo : SegmentOf(c) <= SegmentOf(d)
              /\ \E K \in SUBSET S : IsBest(K, S) /\ kept' = kept \cup K
              /\ todo' = todo \ S
    /\ UNCHANGED <<inputs, stage, sampling, found>>

Finish ==
    /\ stage = "filter"
    /\ todo = {}
    /\ stage' = "done"
    /\ UNCHANGED <<inputs, sampling, found, todo, kept>>

Next ==
    \/ Sample \/ Pass \/ SampleEnd
    \/ Search \/ SearchFails \/ FilterSegment \/ Finish

\* One call on one thread: it keeps going.
Spec == Init /\ [][Next]_vars /\ WF_vars(Next)

-----------------------------------------------------------------------------

\* The checkpoints run from the start to the end of the route, at least Interval
\* apart but for the last, and a checkpoint is passed over only for want of a
\* route point: any point Interval or more past a checkpoint ends its gap.
CheckpointsSpanTheRoute ==
    stage \notin {"sample", "failed"} =>
        LET n == Len(checkpoints)
        IN  /\ checkpoints[1] = 0 /\ checkpoints[n] = Length
            /\ \A k \in 1..(n - 1) :
                  /\ checkpoints[k] < checkpoints[k + 1]
                  /\ k < n - 1 => checkpoints[k + 1] >= checkpoints[k] + Interval
                  /\ \A j \in DOMAIN points :
                        points[j] >= checkpoints[k] + Interval
                            => points[j] >= checkpoints[k + 1]

\* Only a route without length has no corridor.
OnlyPointsFail == stage = "failed" => Length = 0

\* No two checkpoints that follow each other are further apart than w.
NoWiderThan(w) ==
    \A k \in 1..(Len(checkpoints) - 1) : checkpoints[k + 1] - checkpoints[k] <= w

\* Assigned to checkpoints, the stations keep their order along the road, and
\* none is moved by more than half a gap between two checkpoints: a leg of the
\* plan is at most one gap longer on the road.
StationsStayInPlace ==
    /\ \A c, d \in found : c.mile <= d.mile => c.at <= d.at
    /\ \A c \in found, w \in 0..Length :
          0 <= c.mile /\ c.mile <= Length /\ NoWiderThan(w)
              => 2 * Gap(c.at, c.mile) <= w

\* The trip with stations at the given miles, for a vehicle of range r.
Trip(r, S) == INSTANCE FuelPlan
                WITH total <- Length, range <- r, stations <- S,
                     at <- 0, outcome <- "driving"

\* Dropping the dearer stations of a segment costs a vehicle less than two
\* segments of range: what is feasible before is feasible after for a vehicle
\* that goes so much further.
ReductionCostsTwoSegments ==
    stage = "done" => \A r \in Ranges :
        Trip(r, {c.at : c \in found})!Feasible
            => Trip(r + 2 * (Segment - 1), {c.at : c \in kept})!Feasible

\* The reduction always comes to an end.
Terminates == <>(stage \in {"done", "failed"})
=============================================================================
