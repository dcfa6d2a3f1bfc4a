-------------------------- MODULE RoadPlan_proofs --------------------------
(***************************************************************************)
(* Proofs about RoadPlan: the invariants of Corridor and FuelOptimizer     *)
(* taken together, and what they say of the road, for every route, length  *)
(* given by ORS, table of stations and vehicle.                            *)
(***************************************************************************)
EXTENDS RoadPlan, Corridor_proofs, SequenceTheorems

\* The optimizer with its invariant, over the stations that it is offered.
Loop == INSTANCE FuelOptimizer_proofs
          WITH candidates <- Offered, Distances <- Nat, Ranges <- Vehicles,
               Stations <- [at : Nat, price : Nat]

-----------------------------------------------------------------------------
(* The inductive invariant.                                                 *)

\* The corridor's query returns what is near the road only.
NearTheRoad == \A c \in found : -Radius <= c.mile /\ c.mile <= Length + Radius

\* The optimizer is called once, on a reduction that is over.
CallInv ==
    IF pc = "none"
    THEN current = 0 /\ lastStop = 0 /\ stops = <<>> /\ cost = 0 /\ reported = 0
    ELSE stage = "done" /\ Loop!IInv

PlanIInv == IInv /\ NearTheRoad /\ CallInv

\* The constants are what the optimizer assumes of its own.
LEMMA LoopInputs == Loop!InputAssumption
  BY RoadPlanAssumption DEF Loop!InputAssumption

\* Both instances of the optimizer take the same steps.
LEMMA SameNext == Optimizer!Next => Loop!Next
  <1>1. Optimizer!ReturnWithoutStops => Loop!ReturnWithoutStops
    BY DEF Optimizer!ReturnWithoutStops, Loop!ReturnWithoutStops, Optimizer!inputs, Loop!inputs,
           Optimizer!Rounded, Loop!Rounded
  <1>2. Optimizer!EnterLoop => Loop!EnterLoop
    BY DEF Optimizer!EnterLoop, Loop!EnterLoop, Optimizer!inputs, Loop!inputs
  <1>3. Optimizer!Refuel => Loop!Refuel
    BY DEF Optimizer!Refuel, Loop!Refuel, Optimizer!inputs, Loop!inputs,
           Optimizer!Reachable, Loop!Reachable, Optimizer!IsCheapest, Loop!IsCheapest,
           Optimizer!Buy, Loop!Buy, Optimizer!DriveTo, Loop!DriveTo,
           Optimizer!Rounded, Loop!Rounded, Optimizer!Needed, Loop!Needed,
           Optimizer!AddedCost, Loop!AddedCost
  <1>4. Optimizer!GiveUp => Loop!GiveUp
    BY DEF Optimizer!GiveUp, Loop!GiveUp, Optimizer!inputs, Loop!inputs,
           Optimizer!Reachable, Loop!Reachable, Optimizer!Rounded, Loop!Rounded
  <1>5. Optimizer!Finish => Loop!Finish
    BY DEF Optimizer!Finish, Loop!Finish, Optimizer!inputs, Loop!inputs,
           Optimizer!Rounded, Loop!Rounded
  <1> QED
    BY <1>1, <1>2, <1>3, <1>4, <1>5 DEF Optimizer!Next, Loop!Next

\* What is offered are places and prices.
LEMMA OfferedStations == IInv => Offered \subseteq [at : Nat, price : Nat]
  BY DEF IInv, TypeOK, Offered, Candidates

\* Only the query finds stations, and the route stays.
LEMMA StaysNear == IInv /\ NearTheRoad /\ [Next]_vars => NearTheRoad'
  <1> SUFFICES ASSUME IInv, NearTheRoad, [Next]_vars PROVE NearTheRoad'
    OBVIOUS
  <1>1. Length' = Length
    BY DEF Next, Sample, Pass, SampleEnd, Search, SearchFails, FilterSegment, Finish, vars,
           inputs, Length
  <1>2. CASE Search
    <2>1. found' = {[mile |-> s.mile, price |-> s.price, at |-> NearestCheckpoint(s.mile)] :
                       s \in InCorridor}
      BY <1>2 DEF Search
    <2> QED
      BY <1>1, <2>1 DEF NearTheRoad, InCorridor
  <1>3. CASE found' = found
    BY <1>1, <1>3 DEF NearTheRoad
  <1> QED
    BY <1>2, <1>3
       DEF Next, Sample, Pass, SampleEnd, SearchFails, FilterSegment, Finish, vars

LEMMA PlanInitIInv == PlanInit => PlanIInv
  <1> SUFFICES ASSUME PlanInit PROVE PlanIInv
    OBVIOUS
  <1>1. IInv
    BY InitIInv DEF PlanInit
  <1>2. NearTheRoad
    BY DEF PlanInit, Init, NearTheRoad
  <1>3. CallInv
    BY DEF PlanInit, CallInv
  <1> QED
    BY <1>1, <1>2, <1>3 DEF PlanIInv

\* The call itself: the optimizer starts from what the reduction left.
LEMMA OptimizeKeepsCall == PlanIInv /\ IInv' /\ Optimize => CallInv'
  <1> SUFFICES ASSUME PlanIInv, IInv', Optimize PROVE CallInv'
    OBVIOUS
  <1>1. /\ pc' = "start" /\ stage' = "done" /\ stops' = <<>>
        /\ current' = 0 /\ lastStop' = 0 /\ cost' = 0 /\ reported' = 0
        /\ total' \in Nat /\ range' \in Vehicles /\ remaining' = range'
    BY DEF PlanIInv, CallInv, Optimize, vars
  <1>2. Offered' \subseteq [at : Nat, price : Nat]
    <2>1. (IInv => Offered \subseteq [at : Nat, price : Nat])'
      BY OfferedStations, PTL
    <2> QED
      BY <2>1
  <1>3. Loop!Init'
    BY <1>1, <1>2 DEF Loop!Init
  <1>4. (Loop!Init => Loop!IInv)'
    BY Loop!InitIInv, LoopInputs, PTL
  <1> QED
    BY <1>1, <1>3, <1>4 DEF CallInv

LEMMA PlanNextIInv == PlanIInv /\ [PlanNext]_planVars => PlanIInv'
  <1> SUFFICES ASSUME PlanIInv, [PlanNext]_planVars PROVE PlanIInv'
    OBVIOUS
  <1>1. [Next]_vars
    BY DEF PlanNext, Reduce, Optimize, Choose, planVars
  <1>2. IInv' /\ NearTheRoad'
    BY <1>1, NextIInv, StaysNear DEF PlanIInv
  <1>3. ASSUME Reduce PROVE CallInv'
    BY <1>3 DEF Reduce, optimizer, PlanIInv, CallInv
  <1>4. ASSUME Optimize PROVE CallInv'
    BY <1>2, <1>4, OptimizeKeepsCall
  <1>5. ASSUME Choose PROVE CallInv'
    <2>1. Loop!Next /\ UNCHANGED vars
      BY <1>5, SameNext DEF Choose
    <2>2. pc \in {"start", "loop"} /\ pc' \in {"start", "loop", "done"}
      BY <2>1 DEF Loop!Next, Loop!ReturnWithoutStops, Loop!EnterLoop, Loop!Refuel, Loop!GiveUp,
                  Loop!Finish
    <2>3. Loop!IInv /\ stage = "done"
      BY <2>2 DEF PlanIInv, CallInv
    <2>4. Loop!IInv'
      BY <2>1, <2>3, Loop!NextIInv, LoopInputs
    <2>5. stage' = "done"
      BY <2>1, <2>3 DEF vars
    <2> QED
      BY <2>2, <2>4, <2>5 DEF CallInv
  <1>6. ASSUME UNCHANGED planVars PROVE CallInv'
    <2>1. UNCHANGED <<vars, optimizer>>
      BY <1>6 DEF planVars
    <2>2. /\ pc' = pc /\ stage' = stage
          /\ current' = current /\ lastStop' = lastStop /\ stops' = stops
          /\ cost' = cost /\ reported' = reported
      BY <2>1 DEF vars, optimizer
    <2>3. CASE pc = "none"
      BY <2>2, <2>3 DEF PlanIInv, CallInv
    <2>4. CASE pc # "none"
      <3>1. Loop!IInv /\ stage = "done"
        BY <2>4 DEF PlanIInv, CallInv
      <3>2. UNCHANGED Loop!vars
        BY <2>1 DEF vars, optimizer, Loop!vars, Loop!inputs, Offered
      <3>3. Loop!IInv'
        BY <3>1, <3>2, Loop!NextIInv, LoopInputs
      <3> QED
        BY <2>2, <2>4, <3>1, <3>3 DEF CallInv
    <2> QED
      BY <2>3, <2>4
  <1> QED
    BY <1>2, <1>3, <1>4, <1>5, <1>6 DEF PlanNext, PlanIInv

\* Both invariants, through the whole of plan_optimized_trip behind its caches.
THEOREM PlanInvariance == PlanSpec => []PlanIInv
  BY PlanInitIInv, PlanNextIInv, PTL DEF PlanSpec

-----------------------------------------------------------------------------
(* The plan on the road.                                                    *)

\* No station found is further from its checkpoint than Shift.
LEMMA Shifted ==
    ASSUME IInv, NearTheRoad, NEW w \in 0..Length, NoWiderThan(w), NEW c \in found
    PROVE  /\ Shift(w) \in Nat /\ c.mile \in Int /\ c.at \in Nat
           /\ c.at <= c.mile + Shift(w) /\ c.mile <= c.at + Shift(w)
  <1>1. c.mile \in Int /\ c.at \in Nat
    BY DEF IInv, TypeOK, Candidates
  <1>2. /\ Length \in Nat /\ w \in Nat /\ Radius \in Nat
        /\ -Radius <= c.mile /\ c.mile <= Length + Radius
    BY PointFacts, CorridorAssumption DEF IInv, TypeOK, NearTheRoad
  <1>3. Gap(c.at, c.mile) \in Nat
    BY <1>1 DEF Gap
  <1>4. /\ Shift(w) \in Nat
        /\ \A g \in Nat : 2 * g <= w \/ g <= Radius => g <= Shift(w)
    <2> DEFINE h == (w + 1) \div 2
    <2>1. h \in Nat /\ 2 * h <= w + 1 /\ w + 1 < 2 * h + 2
      BY <1>2
    <2>2. Shift(w) = IF 2 * Radius > w THEN Radius ELSE h
      BY DEF Shift
    <2> HIDE DEF h
    <2>3. CASE 2 * Radius > w
      BY <1>2, <2>2, <2>3
    <2>4. CASE ~(2 * Radius > w)
      BY <1>2, <2>1, <2>2, <2>4
    <2> QED
      BY <2>3, <2>4
  <1>5. 2 * Gap(c.at, c.mile) <= w \/ Gap(c.at, c.mile) <= Radius
    <2>1. CASE 0 <= c.mile /\ c.mile <= Length
      BY <2>1, StaysInPlace DEF StationsStayInPlace
    <2>2. CASE ~(0 <= c.mile /\ c.mile <= Length)
      <3>1. /\ checkpoints \in Seq(Nat) /\ Len(checkpoints) \in Nat /\ Len(checkpoints) >= 1
            /\ checkpoints[1] = 0 /\ checkpoints[Len(checkpoints)] = Length
            /\ c.at = NearestCheckpoint(c.mile)
        BY DEF IInv, TypeOK, SampleInv, FoundInv
      <3>2. PICK k \in 1..Len(checkpoints) :
               /\ c.at = checkpoints[k]
               /\ \A j \in 1..Len(checkpoints) :
                     \/ Gap(checkpoints[k], c.mile) < Gap(checkpoints[j], c.mile)
                     \/ Gap(checkpoints[k], c.mile) = Gap(checkpoints[j], c.mile) /\ k <= j
        BY <1>1, <3>1, NearestIsNearest
      <3>3. 1 \in 1..Len(checkpoints) /\ Len(checkpoints) \in 1..Len(checkpoints)
        BY <3>1
      <3>4. Gap(0, c.mile) \in Nat /\ Gap(Length, c.mile) \in Nat
        BY <1>1, <1>2 DEF Gap
      <3>5. /\ Gap(c.at, c.mile) <= Gap(0, c.mile)
            /\ Gap(c.at, c.mile) <= Gap(Length, c.mile)
        BY <1>3, <3>1, <3>2, <3>3, <3>4
      <3>6. CASE c.mile < 0
        <4>1. Gap(0, c.mile) <= Radius
          BY <1>1, <1>2, <3>6 DEF Gap
        <4> QED
          BY <1>2, <1>3, <3>4, <3>5, <4>1
      <3>7. CASE c.mile > Length
        <4>1. Gap(Length, c.mile) <= Radius
          BY <1>1, <1>2, <3>7 DEF Gap
        <4> QED
          BY <1>2, <1>3, <3>4, <3>5, <4>1
      <3> QED
        BY <1>1, <1>2, <2>2, <3>6, <3>7
    <2> QED
      BY <2>1, <2>2
  <1>6. Gap(c.at, c.mile) <= Shift(w)
    BY <1>3, <1>4, <1>5
  <1> QED
    BY <1>1, <1>4, <1>6 DEF Gap

\* What the optimizer's invariant says of a plan, leg by leg.
LEMMA PlanFacts ==
    ASSUME PlanIInv, pc = "done"
    PROVE  /\ total \in Nat /\ range \in Nat /\ current \in Nat /\ Len(stops) \in Nat
           /\ DOMAIN stops = 1..Len(stops)
           /\ \A k \in 1..Len(stops) : stops[k].at \in Nat
           /\ \A k \in 1..Len(stops) :
                 IF k = 1 THEN stops[k].at <= range
                 ELSE /\ k - 1 \in 1..Len(stops)
                      /\ stops[k - 1].at < stops[k].at
                      /\ stops[k].at <= stops[k - 1].at + range
           /\ current = IF stops = <<>> THEN 0 ELSE stops[Len(stops)].at
           /\ stops # <<>> => Len(stops) \in 1..Len(stops)
           /\ Optimizer!Arrives <=> total <= current + range
           /\ Optimizer!Arrives
                 \/ \A c \in kept : ~(current < c.at /\ c.at <= current + range)
  <1>1. Loop!IInv
    BY DEF PlanIInv, CallInv
  <1>2. /\ total \in Nat /\ range \in Nat \ {0} /\ current \in Nat
        /\ stops \in Seq([at : Nat, price : Nat, miles : Nat, cost : Nat])
    BY <1>1, RoadPlanAssumption DEF Loop!IInv, Loop!TypeOK
  <1>3. Len(stops) \in Nat /\ DOMAIN stops = 1..Len(stops)
    BY <1>2
  <1>4. \A k \in 1..Len(stops) : stops[k].at \in Nat
    <2>1. \A k \in 1..Len(stops) : stops[k] \in [at : Nat, price : Nat, miles : Nat, cost : Nat]
      BY <1>2, ElementOfSeq
    <2> QED
      BY <2>1
  <1>5. \A k \in 1..Len(stops) :
           Loop!Before(stops, k) < stops[k].at /\ stops[k].at <= Loop!Before(stops, k) + range
    BY <1>1 DEF Loop!IInv, Loop!LegsWithinRange
  <1>6. \A k \in 1..Len(stops) :
           IF k = 1 THEN stops[k].at <= range
           ELSE /\ k - 1 \in 1..Len(stops)
                /\ stops[k - 1].at < stops[k].at
                /\ stops[k].at <= stops[k - 1].at + range
    BY <1>2, <1>3, <1>5 DEF Loop!Before
  <1>7. current = Loop!Before(stops, Len(stops) + 1)
    BY <1>1 DEF Loop!IInv, Loop!AtLastStop
  <1>8. stops # <<>> => Len(stops) \in 1..Len(stops)
    BY <1>2, <1>3
  <1>9. current = IF stops = <<>> THEN 0 ELSE stops[Len(stops)].at
    <2>1. CASE stops = <<>>
      <3>1. Len(stops) = 0
        BY <2>1
      <3> QED
        BY <1>7, <2>1, <3>1 DEF Loop!Before
    <2>2. CASE stops # <<>>
      <3>1. Len(stops) + 1 # 1 /\ Len(stops) + 1 - 1 = Len(stops)
        BY <1>3, <1>8, <2>2
      <3> QED
        BY <1>7, <2>2, <3>1 DEF Loop!Before
    <2> QED
      BY <2>1, <2>2
  <1>10. Optimizer!Arrives <=> total <= current + range
    BY DEF Optimizer!Arrives
  <1>11. Optimizer!Arrives \/ \A c \in kept : ~(current < c.at /\ c.at <= current + range)
    <2>1. Loop!Arrives <=> Optimizer!Arrives
      BY DEF Loop!Arrives, Optimizer!Arrives
    <2>2. \A c \in kept : [at |-> c.at, price |-> c.price] \in Offered
      BY DEF Offered
    <2>3. Loop!Arrives \/ \A c \in Offered : ~(current < c.at /\ c.at <= current + range)
      BY <1>1 DEF Loop!IInv, Loop!DeadEnd
    <2> QED
      BY <2>1, <2>2, <2>3
  <1> QED
    BY <1>2, <1>3, <1>4, <1>6, <1>8, <1>9, <1>10, <1>11

\* The legs of a plan that arrives (trip_planner.py:103 hands the optimizer places of
\* checkpoints and ORS's length): two shifts, and what that length leaves out, bound
\* how much longer they are on the road.
THEOREM RoadLegs == PlanSpec => []RoadLegsAreBounded
  <1>1. PlanIInv => RoadLegsAreBounded
    <2> SUFFICES ASSUME PlanIInv, pc = "done", Optimizer!Arrives,
                        NEW w \in 0..Length, NoWiderThan(w)
                 PROVE  /\ \A k \in DOMAIN stops : \A c \in StationsOf(stops[k]) :
                              IF k = 1 THEN c.mile <= range + Shift(w)
                              ELSE \A d \in StationsOf(stops[k - 1]) :
                                      d.mile <= c.mile /\ c.mile <= d.mile + range + 2 * Shift(w)
                        /\ IF stops = <<>> THEN Length <= range + Positive(Length - total)
                           ELSE \A c \in StationsOf(stops[Len(stops)]) :
                                   Length <= c.mile + range + Shift(w) + Positive(Length - total)
      BY DEF RoadLegsAreBounded
    <2>1. IInv /\ NearTheRoad /\ kept \subseteq found
      BY DEF PlanIInv, IInv, TypeOK
    <2>2. ASSUME NEW s, NEW c \in StationsOf(s)
          PROVE  /\ c \in found /\ c.at = s.at
                 /\ Shift(w) \in Nat /\ c.mile \in Int /\ c.at \in Nat
                 /\ c.at <= c.mile + Shift(w) /\ c.mile <= c.at + Shift(w)
      BY <2>1, Shifted DEF StationsOf
    <2>3. ASSUME NEW k \in DOMAIN stops, NEW c \in StationsOf(stops[k])
          PROVE  IF k = 1 THEN c.mile <= range + Shift(w)
                 ELSE \A d \in StationsOf(stops[k - 1]) :
                         d.mile <= c.mile /\ c.mile <= d.mile + range + 2 * Shift(w)
      <3>1. CASE k = 1
        <4>1. c.at <= range /\ range \in Nat
          BY <2>3, <3>1, <2>2, PlanFacts
        <4> QED
          BY <2>2, <3>1, <4>1
      <3>2. CASE k # 1
        <4> SUFFICES ASSUME NEW d \in StationsOf(stops[k - 1])
                     PROVE  d.mile <= c.mile /\ c.mile <= d.mile + range + 2 * Shift(w)
          BY <3>2
        <4>1. d.at < c.at /\ c.at <= d.at + range /\ range \in Nat
          BY <2>2, <3>2, PlanFacts
        <4>2. c.mile <= d.mile => c.at <= d.at
          BY <2>1, <2>2, StaysInPlace DEF StationsStayInPlace
        <4>3. /\ c.mile \in Int /\ c.at \in Nat /\ c.mile <= c.at + Shift(w)
              /\ d.mile \in Int /\ d.at \in Nat /\ d.at <= d.mile + Shift(w)
              /\ Shift(w) \in Nat
          BY <2>2
        <4> QED
          BY <4>1, <4>2, <4>3
      <3> QED
        BY <3>1, <3>2
    <2>4. total \in Nat /\ range \in Nat /\ current \in Nat /\ total <= current + range
      BY PlanFacts
    <2>5. Length \in Nat /\ Length <= total + Positive(Length - total)
          /\ Positive(Length - total) \in Nat
      BY <2>1, <2>4, PointFacts DEF IInv, TypeOK, Positive
    <2>6. CASE stops = <<>>
      BY <2>3, <2>4, <2>5, <2>6, PlanFacts
    <2>7. CASE stops # <<>>
      <3> SUFFICES ASSUME NEW c \in StationsOf(stops[Len(stops)])
                   PROVE  Length <= c.mile + range + Shift(w) + Positive(Length - total)
        BY <2>3, <2>7
      <3>1. c.at = current
        BY <2>2, <2>7, PlanFacts
      <3>2. c.mile \in Int /\ Shift(w) \in Nat /\ c.at <= c.mile + Shift(w)
        BY <2>2
      <3> QED
        BY <2>4, <2>5, <3>1, <3>2
    <2> QED
      BY <2>6, <2>7
  <1> QED
    BY <1>1, PlanInvariance, PTL

\* A trip that is given up (the break of optimizer.py:66) could not be made on the
\* road with that much less range: of the stations of a supposed way, the one after
\* the last that is not beyond the last stop would have been reached from there.
THEOREM GivesUpRightly == PlanSpec => []GivesUpOnlyWithoutMargin
  <1>1. PlanIInv => GivesUpOnlyWithoutMargin
    <2> SUFFICES ASSUME PlanIInv, pc = "done", ~Optimizer!Arrives,
                        NEW w \in 0..Length, NoWiderThan(w),
                        NEW margin, margin = 2 * Shift(w) + Positive(total - Length),
                        margin < range, Trip(range - margin, {c.mile : c \in kept})!Feasible
                 PROVE  FALSE
      BY DEF GivesUpOnlyWithoutMargin
    <2>1. IInv /\ NearTheRoad /\ kept \subseteq found
      BY DEF PlanIInv, IInv, TypeOK
    <2>2. /\ total \in Nat /\ range \in Nat /\ current \in Nat /\ current + range < total
          /\ \A c \in kept : ~(current < c.at /\ c.at <= current + range)
      BY PlanFacts
    <2>3. /\ Length \in Nat /\ Radius \in Nat
          /\ total <= Length + Positive(total - Length) /\ Positive(total - Length) \in Nat
      BY <2>1, <2>2, PointFacts, CorridorAssumption DEF IInv, TypeOK, Positive
    <2>4. \A c \in kept : /\ c.mile \in Int /\ c.at \in Nat /\ c.mile <= Length + Radius
                          /\ c.at <= c.mile + Shift(w) /\ c.mile <= c.at + Shift(w)
      BY <2>1, Shifted DEF NearTheRoad
    <2>5. Shift(w) \in Nat
      BY <2>3 DEF Shift
    <2>6. margin \in Nat /\ range - margin \in Nat
      BY <2>2, <2>3, <2>5
    <2>7. PICK P \in SUBSET {c.mile : c \in kept} :
             \A x \in P \cup {0} :
                x + (range - margin) < Length
                   => \E y \in P : x < y /\ y <= x + (range - margin)
      BY TripFeasible
    <2> DEFINE behind == {0} \cup {x \in P : x >= 0 /\ \E c \in kept : c.mile = x /\ c.at <= current}
    <2>8. behind \in SUBSET Nat /\ \A x \in behind : x <= Length + Radius
      BY <2>3, <2>4, <2>7
    <2>9. PICK m \in behind : \A x \in behind : x <= m
      <3>1. behind # {} /\ Length + Radius \in Nat
        BY <2>3
      <3> HIDE DEF behind
      <3> QED
        BY <2>8, <3>1, Last
    <2>10. m \in Nat /\ m <= current + Shift(w) /\ m \in P \cup {0}
      <3>1. CASE m = 0
        BY <2>2, <2>5, <3>1
      <3>2. CASE m # 0
        BY <2>2, <2>4, <2>5, <2>8, <3>2
      <3> QED
        BY <3>1, <3>2
    <2>11. m + (range - margin) < Length /\ m + (range - margin) + Shift(w) <= current + range
      BY <2>2, <2>3, <2>5, <2>6, <2>10
    <2>12. PICK y \in P : m < y /\ y <= m + (range - margin)
      BY <2>7, <2>10, <2>11
    <2>13. PICK c \in kept : c.mile = y
      BY <2>7
    <2>14. current < c.at
      <3>1. y \notin behind
        BY <2>4, <2>8, <2>9, <2>12, <2>13
      <3> QED
        BY <2>2, <2>4, <2>10, <2>12, <2>13, <3>1
    <2>15. c.at <= current + range
      BY <2>2, <2>4, <2>5, <2>6, <2>10, <2>11, <2>12, <2>13
    <2> QED
      BY <2>2, <2>14, <2>15
  <1> QED
    BY <1>1, PlanInvariance, PTL

\* A trip that is given up could not be made, with that much less range, with any of
\* the stations along the road: of a supposed way, the one after the last that is not
\* in a segment beyond the last stop's has a station kept in its segment, which
\* would have been reached.
THEOREM LosesNoTrip == PlanSpec => []NoTripIsLost
  <1>1. PlanIInv => NoTripIsLost
    <2> SUFFICES ASSUME PlanIInv, pc = "done", ~Optimizer!Arrives,
                        NEW w \in 0..Length, NoWiderThan(w),
                        NEW margin,
                        margin = 2 * Shift(w) + 2 * (Segment - 1) + Positive(total - Length),
                        margin < range, Trip(range - margin, {c.mile : c \in found})!Feasible
                 PROVE  FALSE
      BY DEF NoTripIsLost
    <2> DEFINE seg(x) == x \div Segment
               less == Segment - 1
               over == Positive(total - Length)
               s == Shift(w)
    <2>1. IInv /\ NearTheRoad /\ kept \subseteq found /\ stage = "done"
      BY DEF PlanIInv, IInv, TypeOK, CallInv
    <2>2. /\ total \in Nat /\ range \in Nat /\ current \in Nat /\ current + range < total
          /\ \A c \in kept : ~(current < c.at /\ c.at <= current + range)
      BY PlanFacts
    <2>3. /\ Length \in Nat /\ Radius \in Nat /\ less \in Nat
          /\ total <= Length + over /\ over \in Nat
      BY <2>1, <2>2, PointFacts, CorridorAssumption DEF IInv, TypeOK, Positive
    <2>4. \A c \in found : /\ c.mile \in Int /\ c.at \in Nat /\ c.mile <= Length + Radius
                           /\ c.at <= c.mile + s /\ c.mile <= c.at + s
      BY <2>1, Shifted DEF NearTheRoad
    <2>5. s \in Nat
      BY <2>3 DEF Shift
    <2> HIDE DEF less, over, s
    <2>6. margin = 2 * s + 2 * less + over /\ margin \in Nat /\ range - margin \in Nat
      BY <2>2, <2>3, <2>5 DEF less, over, s
    <2>7. PICK P \in SUBSET {c.mile : c \in found} :
             \A x \in P \cup {0} :
                x + (range - margin) < Length
                   => \E y \in P : x < y /\ y <= x + (range - margin)
      BY TripFeasible
    <2>7a. \A a, b \in Nat : /\ seg(a) \in Nat
                             /\ seg(a) = seg(b) => b <= a + less
                             /\ seg(a) < seg(b) => a < b
      BY SegmentFacts DEF less
    <2> HIDE DEF seg
    <2> DEFINE behind == {0} \cup {x \in P : x >= 0 /\ \E c \in found : c.mile = x /\ seg(c.at) <= seg(current)}
    <2>8. behind \in SUBSET Nat /\ \A x \in behind : x <= Length + Radius
      BY <2>3, <2>4, <2>7
    <2>9. PICK m \in behind : \A x \in behind : x <= m
      <3>1. behind # {} /\ Length + Radius \in Nat
        BY <2>3
      <3> HIDE DEF behind
      <3> QED
        BY <2>8, <3>1, Last
    <2>10. m \in Nat /\ m <= current + less + s /\ m \in P \cup {0}
      <3>1. CASE m = 0
        BY <2>2, <2>3, <2>5, <3>1
      <3>2. CASE m # 0
        <4>1. m \in P /\ m \in Nat
          BY <2>8, <3>2
        <4>2. PICK c \in found : c.mile = m /\ seg(c.at) <= seg(current)
          BY <3>2
        <4>3. c.at \in Nat /\ seg(c.at) \in Nat /\ seg(current) \in Nat
          BY <2>2, <2>4, <2>7a
        <4>4. c.at <= current + less
          <5>1. CASE seg(c.at) = seg(current)
            BY <2>2, <2>7a, <4>3, <5>1
          <5>2. CASE seg(c.at) < seg(current)
            <6>1. c.at < current
              BY <2>2, <2>7a, <4>3, <5>2
            <6> QED
              BY <2>2, <2>3, <4>3, <6>1
          <5> QED
            BY <4>2, <4>3, <5>1, <5>2
        <4>5. m <= c.at + s
          BY <2>4, <4>2
        <4> QED
          BY <2>2, <2>3, <2>5, <4>1, <4>3, <4>4, <4>5
      <3> QED
        BY <3>1, <3>2
    <2>11. /\ m + (range - margin) < Length
           /\ m + (range - margin) + s + less <= current + range
      BY <2>2, <2>3, <2>5, <2>6, <2>10
    <2>12. PICK y \in P : m < y /\ y <= m + (range - margin)
      BY <2>7, <2>10, <2>11
    <2>13. PICK c \in found : c.mile = y
      BY <2>7
    <2>14. c.at \in Nat /\ seg(c.at) \in Nat /\ seg(current) \in Nat /\ y \in Int /\ y >= 0
           /\ c.at <= y + s
      BY <2>2, <2>4, <2>7a, <2>10, <2>12, <2>13
    <2>15. seg(current) < seg(c.at)
      <3>1. y \notin behind
        <4> HIDE DEF behind
        <4>1. y \in behind => y <= m
          BY <2>9
        <4>2. ~(y <= m)
          BY <2>10, <2>12, <2>14
        <4> QED
          BY <4>1, <4>2
      <3> QED
        BY <2>13, <2>14, <3>1
    <2>16. PICK d \in kept : SegmentOf(d) = SegmentOf(c)
      <3>1. c \in found \ todo
        BY <2>1 DEF IInv, KeptInv
      <3> QED
        BY <2>1, <3>1 DEF IInv, KeptInv
    <2>17. d.at \in Nat /\ seg(d.at) = seg(c.at)
      BY <2>1, <2>4, <2>16 DEF SegmentOf, seg
    <2>18. current < d.at /\ d.at <= c.at + less
      BY <2>2, <2>7a, <2>14, <2>15, <2>17
    <2>19. d.at <= current + range
      BY <2>2, <2>3, <2>5, <2>6, <2>10, <2>11, <2>12, <2>14, <2>17, <2>18
    <2> QED
      BY <2>2, <2>18, <2>19
  <1> QED
    BY <1>1, PlanInvariance, PTL

=============================================================================
