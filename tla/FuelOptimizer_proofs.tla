------------------------ MODULE FuelOptimizer_proofs ------------------------
(***************************************************************************)
(* Proofs about FuelOptimizer, for every set of stations, range and route. *)
(***************************************************************************)
EXTENDS FuelOptimizer, SequenceTheorems, WellFoundedInduction, TLAPS

-----------------------------------------------------------------------------
(* Arithmetic and sets.                                                     *)

\* Products of naturals are naturals.
LEMMA NatTimes ==
    ASSUME NEW a \in Nat, NEW b \in Nat
    PROVE  a * b \in Nat
  OBVIOUS

\* Amounts of money are rounded to amounts of money.
LEMMA RoundedIsNat ==
    ASSUME NEW x \in Nat
    PROVE  Rounded(x) \subseteq Nat
  <1>1. Cent \in Nat \ {0}
    BY InputAssumption
  <1>2. x \div Cent \in Nat
    BY <1>1
  <1>3. Cent * (x \div Cent) \in Nat
    BY <1>1, <1>2, NatTimes
  <1> QED
    BY <1>1, <1>3 DEF Rounded

\* The first of some positions.
LEMMA FirstPosition ==
    ASSUME NEW T \in SUBSET Nat, T # {}
    PROVE  \E m \in T : \A k \in T : m <= k
  <1>1. PICK m \in T : \A k \in T : ~(<<k, m>> \in OpToRel(<, Nat))
    BY WFMin, NatLessThanWellFounded
  <1>2. ASSUME NEW k \in T, k < m PROVE FALSE
    <2>1. <<k, m>> \in {ss \in Nat \X Nat : ss[1] < ss[2]}
      BY <1>2
    <2> QED
      BY <1>1, <2>1 DEF OpToRel
  <1> QED
    BY <1>2

\* The order of the naturals, turned upside down below a bound p, is well
\* founded: a nonempty set of positions up to p has a last one.
LEMMA LastPosition ==
    ASSUME NEW p \in Nat, NEW S \in SUBSET Nat, S # {},
           \A x \in S : x <= p
    PROVE  \E m \in S : \A x \in S : x <= m
  <1> DEFINE T == {p - x : x \in S}
  <1>0. \A x \in S : p - x \in Nat
    OBVIOUS
  <1>1. T \subseteq Nat /\ T # {}
    BY <1>0
  <1>2. PICK t \in T : \A u \in T : t <= u
    BY <1>1, FirstPosition
  <1>3. PICK m \in S : t = p - m
    BY <1>2
  <1>4. \A x \in S : p - m <= p - x
    BY <1>2, <1>3
  <1> QED
    BY <1>4

-----------------------------------------------------------------------------
(* The inductive invariant: TypeOK with what the loop keeps true of its     *)
(* locals and of the stops it has made.                                     *)

Stop == [at : Nat, price : Nat, miles : Nat, cost : Nat]

\* Where the loop stands: at its last stop, with a full tank.
AtLastStop ==
    /\ remaining = range
    /\ lastStop = current
    /\ current = Before(stops, Len(stops) + 1)
    /\ current = 0 \/ \E c \in candidates : c.at = current
    /\ pc = "start" => stops = <<>>

\* Every stop was the cheapest candidate within range of the one before.
CheapestInWindow ==
    \A i \in 1..Len(stops) : \A c \in candidates :
        Before(stops, i) < c.at /\ c.at <= Before(stops, i) + range => stops[i].price <= c.price

\* The loop gives up only where the road ahead has no candidate in range.
DeadEnd ==
    pc = "done" /\ ~Arrives =>
        \A c \in candidates : ~(current < c.at /\ c.at <= current + range)

\* Stops are made in the order of the road.
StopsAdvance ==
    \A i, j \in 1..Len(stops) : i < j => stops[i].at <= Before(stops, j)

IInv == /\ TypeOK
        /\ AtLastStop
        /\ LegsWithinRange
        /\ CheapestInWindow
        /\ StopsAdvance
        /\ DeadEnd
\* What the assumptions say of the inputs of a call.
LEMMA Inputs ==
    ASSUME TypeOK
    PROVE  /\ total \in Nat
           /\ range \in Nat \ {0}
           /\ \A c \in candidates : c.at \in Nat /\ c.price \in Nat
  BY InputAssumption DEF TypeOK

\* Positions and prices of the stops are naturals.
LEMMA StopTypes ==
    ASSUME TypeOK, NEW k \in 1..Len(stops)
    PROVE  stops[k].at \in Nat /\ stops[k].price \in Nat /\ Before(stops, k) \in Nat
  <1>1. stops \in Seq(Stop)
    BY DEF TypeOK, Stop
  <1>2. \A m \in 1..Len(stops) : stops[m] \in Stop
    BY <1>1
  <1>3. k = 1 \/ k - 1 \in 1..Len(stops)
    BY <1>1
  <1> QED
    BY <1>2, <1>3 DEF Before, Stop

\* A call starts in the invariant.
LEMMA InitIInv == Init => IInv
  <1> SUFFICES ASSUME Init PROVE IInv
    OBVIOUS
  <1>1. TypeOK
    BY InputAssumption DEF Init, TypeOK
  <1> QED
    BY <1>1 DEF Init, IInv, AtLastStop, LegsWithinRange, CheapestInWindow,
                StopsAdvance, DeadEnd, Before

\* A stop at c extends the stops made so far by one that satisfies everything
\* the invariant says of a stop.
LEMMA AddStopKeepsIInv ==
    ASSUME IInv, pc = "loop", current + remaining < total,
           NEW c \in Reachable, IsCheapest(c, Reachable), Buy(c), DriveTo(c),
           UNCHANGED <<inputs, pc, reported>>
    PROVE  IInv'
  <1>1. /\ total \in Nat /\ range \in Nat \ {0} /\ current \in Nat
        /\ c \in candidates /\ c.at \in Nat /\ c.price \in Nat
        /\ current < c.at /\ c.at <= current + range
        /\ remaining = range
        /\ stops \in Seq(Stop)
    BY Inputs DEF IInv, AtLastStop, TypeOK, Reachable, Stop
  <1> DEFINE miles == Needed(c)
  <1>2. /\ \E shown \in Rounded(miles * c.price) :
              stops' = Append(stops, [at |-> c.at, price |-> c.price,
                                      miles |-> miles, cost |-> shown])
        /\ current' = c.at /\ remaining' = range /\ lastStop' = c.at
        /\ cost' = cost + miles * c.price
    BY DEF Buy, AddedCost, DriveTo
  <1>3. miles = c.at - current /\ miles \in Nat
    BY <1>1 DEF Needed
  <1> HIDE DEF miles
  <1>3a. miles * c.price \in Nat
    BY <1>1, <1>3, NatTimes
  <1>3b. PICK shown \in Nat :
           stops' = Append(stops, [at |-> c.at, price |-> c.price,
                                   miles |-> miles, cost |-> shown])
    BY <1>2, <1>3a, RoundedIsNat
  <1> DEFINE n == Len(stops)
             new == [at |-> c.at, price |-> c.price, miles |-> miles, cost |-> shown]
  <1>4. n \in Nat /\ new \in Stop /\ stops' \in Seq(Stop) /\ Len(stops') = n + 1
    BY <1>1, <1>3, <1>3b DEF Stop
  <1>5. stops'[n + 1] = new /\ \A i \in 1..n : stops'[i] = stops[i]
    BY <1>1, <1>3b, <1>4
  <1>6. /\ \A i \in 1..n : Before(stops', i) = Before(stops, i)
        /\ Before(stops', n + 1) = current
        /\ Before(stops', n + 2) = c.at
    <2>1. Before(stops, n + 1) = current
      BY DEF IInv, AtLastStop
    <2>2. \A i \in 1..(n + 1) : Before(stops', i) = Before(stops, i)
      BY <1>4, <1>5 DEF Before
    <2>3. Before(stops', n + 2) = c.at
      <3>1. Before(stops', n + 2) = stops'[n + 1].at
        BY <1>4 DEF Before
      <3> QED
        BY <1>5, <3>1
    <2> QED
      BY <1>4, <2>1, <2>2, <2>3
  <1>7. cost' \in Nat
    <2>1. cost \in Nat
      BY DEF IInv, TypeOK
    <2> QED
      BY <1>2, <1>3a, <2>1
  <1>8. UNCHANGED <<total, range, candidates, pc, reported>>
    BY DEF inputs
  <1>9. TypeOK'
    BY <1>1, <1>2, <1>4, <1>7, <1>8 DEF IInv, TypeOK, Stop
  <1>10. AtLastStop'
    BY <1>1, <1>2, <1>4, <1>6, <1>8 DEF IInv, AtLastStop
  <1>11. LegsWithinRange'
    <2> SUFFICES ASSUME NEW i \in 1..(n + 1)
                 PROVE  /\ \E d \in candidates : d.at = stops'[i].at /\ d.price = stops'[i].price
                        /\ Before(stops', i) < stops'[i].at
                        /\ stops'[i].at <= Before(stops', i) + range
                        /\ stops'[i].miles = stops'[i].at - Before(stops', i)
                        /\ Before(stops', i) + range < total
      BY <1>4, <1>8 DEF LegsWithinRange
    <2>1. CASE i \in 1..n
      BY <1>5, <1>6, <2>1 DEF IInv, LegsWithinRange
    <2>2. CASE i = n + 1
      <3>1. /\ stops'[i].at = c.at /\ stops'[i].price = c.price /\ stops'[i].miles = miles
            /\ Before(stops', i) = current
        BY <1>5, <1>6, <2>2
      <3> HIDE DEF n
      <3> QED
        BY <1>1, <1>3, <3>1
    <2> QED
      BY <1>4, <2>1, <2>2
  <1>12. CheapestInWindow'
    <2> SUFFICES ASSUME NEW i \in 1..(n + 1), NEW d \in candidates,
                        Before(stops', i) < d.at, d.at <= Before(stops', i) + range
                 PROVE  stops'[i].price <= d.price
      BY <1>4, <1>8 DEF CheapestInWindow
    <2>1. CASE i \in 1..n
      BY <1>5, <1>6, <2>1 DEF IInv, CheapestInWindow
    <2>2. CASE i = n + 1
      <3>1. d \in Reachable
        BY <1>1, <1>6, <2>2 DEF Reachable, IInv, AtLastStop
      <3>2. d.price \in Nat
        BY Inputs DEF IInv
      <3> QED
        BY <1>1, <1>5, <2>2, <3>1, <3>2 DEF IsCheapest
    <2> QED
      BY <1>4, <2>1, <2>2
  <1>13. StopsAdvance'
    <2> SUFFICES ASSUME NEW i \in 1..(n + 1), NEW j \in 1..(n + 1), i < j
                 PROVE  stops'[i].at <= Before(stops', j)
      BY <1>4 DEF StopsAdvance
    <2>1. CASE j \in 1..n
      BY <1>4, <1>5, <1>6, <2>1 DEF IInv, StopsAdvance
    <2>2. CASE j = n + 1
      <3>1. i \in 1..n /\ n \in 1..n /\ current = stops[n].at
        BY <1>4, <2>2 DEF IInv, AtLastStop, Before
      <3>2. stops[i].at \in Nat /\ stops[n].at \in Nat /\ Before(stops, n) \in Nat
        BY <3>1, StopTypes DEF IInv
      <3>3. CASE i = n
        BY <1>5, <1>6, <2>2, <3>1, <3>2, <3>3
      <3>4. CASE i < n
        <4>1. stops[i].at <= Before(stops, n) /\ Before(stops, n) < stops[n].at
          BY <3>1, <3>4 DEF IInv, StopsAdvance, LegsWithinRange
        <4> QED
          BY <1>5, <1>6, <2>2, <3>1, <3>2, <4>1
      <3> QED
        BY <3>1, <3>3, <3>4, <1>4
    <2> QED
      BY <1>4, <2>1, <2>2
  <1>14. DeadEnd'
    BY <1>8 DEF DeadEnd
  <1> QED
    BY <1>9, <1>10, <1>11, <1>12, <1>13, <1>14 DEF IInv

\* Steps that make no stop keep what is said of the stops.
LEMMA NoStopKeepsIInv ==
    ASSUME IInv, TypeOK', DeadEnd', pc' # "start",
           UNCHANGED <<inputs, current, remaining, lastStop, stops>>
    PROVE  IInv'
  <1>1. /\ total' = total /\ range' = range /\ candidates' = candidates
        /\ current' = current /\ remaining' = remaining /\ lastStop' = lastStop
        /\ stops' = stops
    BY DEF inputs
  <1> QED
    BY <1>1 DEF IInv, AtLastStop, LegsWithinRange, CheapestInWindow, StopsAdvance

\* Every step of the call keeps the invariant.
LEMMA NextIInv == IInv /\ [Next]_vars => IInv'
  <1> SUFFICES ASSUME IInv, [Next]_vars PROVE IInv'
    OBVIOUS
  <1>1. CASE ReturnWithoutStops
    <2>1. total * AveragePrice \in Nat
      BY InputAssumption, Inputs, NatTimes DEF IInv
    <2>2. TypeOK'
      BY <1>1, <2>1, RoundedIsNat DEF ReturnWithoutStops, inputs, IInv, TypeOK
    <2>3. DeadEnd'
      BY <1>1, Inputs DEF ReturnWithoutStops, inputs, IInv, AtLastStop, Before,
                          DeadEnd, Arrives, TypeOK
    <2> QED
      BY <1>1, <2>2, <2>3, NoStopKeepsIInv DEF ReturnWithoutStops
  <1>2. CASE EnterLoop
    <2>1. TypeOK' /\ DeadEnd'
      BY <1>2 DEF EnterLoop, inputs, IInv, TypeOK, DeadEnd
    <2> QED
      BY <1>2, <2>1, NoStopKeepsIInv DEF EnterLoop
  <1>3. CASE Refuel
    BY <1>3, AddStopKeepsIInv DEF Refuel
  <1>4. CASE GiveUp
    <2>1. TypeOK'
      BY <1>4, RoundedIsNat DEF GiveUp, inputs, IInv, TypeOK
    <2>2. DeadEnd'
      BY <1>4 DEF GiveUp, inputs, IInv, AtLastStop, Reachable, DeadEnd, Arrives
    <2> QED
      BY <1>4, <2>1, <2>2, NoStopKeepsIInv DEF GiveUp
  <1>5. CASE Finish
    <2>1. TypeOK'
      BY <1>5, RoundedIsNat DEF Finish, inputs, IInv, TypeOK
    <2>2. DeadEnd'
      BY <1>5, Inputs DEF Finish, inputs, IInv, TypeOK, AtLastStop, DeadEnd, Arrives
    <2> QED
      BY <1>5, <2>1, <2>2, NoStopKeepsIInv DEF Finish
  <1>6. CASE UNCHANGED vars
    BY <1>6 DEF vars, inputs, IInv, TypeOK, AtLastStop, LegsWithinRange,
                CheapestInWindow, StopsAdvance, DeadEnd, Before, Arrives
  <1> QED
    BY <1>1, <1>2, <1>3, <1>4, <1>5, <1>6 DEF Next

\* The invariant holds throughout every call.
THEOREM Invariance == Spec => []IInv
  BY InitIInv, NextIInv, PTL DEF Spec

\* The locals and the result keep their types (services/fuel/optimizer.py:27-103).
THEOREM TypeCorrect == Spec => []TypeOK
  BY Invariance, PTL DEF IInv

\* No leg between two stops is longer than the range, and each stop buys what
\* the leg to it burnt.
THEOREM LegsSafe == Spec => []LegsWithinRange
  BY Invariance, PTL DEF IInv

\* A stop is never dearer than a later one that could have been reached
\* without it: the later one was in the window the earlier was chosen from.
THEOREM GreedyHasNoRegret == Spec => []NoRegret
  <1>1. IInv => NoRegret
    <2> SUFFICES ASSUME IInv, NEW i \in 1..Len(stops), NEW j \in 1..Len(stops),
                        i < j, stops[j].at <= Before(stops, i) + range
                 PROVE  stops[i].price <= stops[j].price
      BY DEF NoRegret
    <2>1. PICK c \in candidates : c.at = stops[j].at /\ c.price = stops[j].price
      BY DEF IInv, LegsWithinRange
    <2>2. /\ Before(stops, i) < stops[i].at
          /\ stops[i].at <= Before(stops, j)
          /\ Before(stops, j) < stops[j].at
      BY DEF IInv, LegsWithinRange, StopsAdvance
    <2>3. Before(stops, i) < c.at /\ c.at <= Before(stops, i) + range
      BY <2>1, <2>2, StopTypes DEF IInv
    <2> QED
      BY <2>1, <2>3 DEF IInv, CheapestInWindow
  <1> QED
    BY <1>1, Invariance, PTL

-----------------------------------------------------------------------------
(* The greedy strands no trip that could be made, and implements FuelPlan.  *)

\* An empty window of a full range ahead is a certificate: any choice of
\* stations has a last one before the window, and no next one.
LEMMA EmptyWindow ==
    ASSUME IInv, ~Arrives,
           \A c \in candidates : ~(current < c.at /\ c.at <= current + range)
    PROVE  ~Plan!Feasible
  <1> SUFFICES ASSUME NEW P \in SUBSET {c.at : c \in candidates},
                      \A x \in P \cup {0} :
                         x + range < total => \E y \in P : x < y /\ y <= x + range
               PROVE  FALSE
    BY DEF Plan!Feasible
  <1> DEFINE S == {x \in P \cup {0} : x <= current}
  <1>1. /\ total \in Nat /\ range \in Nat \ {0} /\ current \in Nat
        /\ \A x \in P : x \in Nat
        /\ current + range < total
    BY Inputs DEF IInv, TypeOK, Arrives
  <1>2. S \in SUBSET Nat /\ S # {} /\ \A x \in S : x <= current
    <2>1. 0 \in S
      BY <1>1
    <2> QED
      BY <1>1, <2>1
  <1>3. PICK m \in S : \A x \in S : x <= m
    BY <1>1, <1>2, LastPosition
  <1>4. PICK y \in P : m < y /\ y <= m + range
    BY <1>1, <1>2, <1>3
  <1>5. current < y
    BY <1>1, <1>2, <1>3, <1>4
  <1>6. PICK c \in candidates : c.at = y
    OBVIOUS
  <1> QED
    BY <1>1, <1>2, <1>4, <1>5, <1>6

\* The stops of a plan that arrives are the choice that makes the trip.
LEMMA StopsMakeTheTrip ==
    ASSUME IInv, Arrives
    PROVE  Plan!Feasible
  <1> DEFINE n == Len(stops)
             P == {stops[i].at : i \in 1..n}
  <1>1. /\ total \in Nat /\ range \in Nat \ {0} /\ n \in Nat /\ current \in Nat
        /\ total <= current + range
        /\ current = Before(stops, n + 1)
    BY Inputs DEF IInv, AtLastStop, TypeOK, Arrives
  <1>2. P \in SUBSET {c.at : c \in candidates}
    BY DEF IInv, LegsWithinRange
  <1> HIDE DEF n
  <1>3. ASSUME NEW i \in 1..(n + 1), Before(stops, i) + range < total
        PROVE  i \in 1..n
    <2>1. i # n + 1
      BY <1>1, <1>3
    <2> QED
      BY <1>1, <2>1
  <1>4. \A i \in 1..n : Before(stops, i) < stops[i].at /\ stops[i].at <= Before(stops, i) + range
    BY DEF IInv, LegsWithinRange, n
  <1>5. ASSUME NEW x \in P \cup {0}, x + range < total
        PROVE  \E y \in P : x < y /\ y <= x + range
    <2>1. PICK i \in 1..(n + 1) : x = Before(stops, i)
      <3>1. CASE x = 0
        BY <1>1, <3>1 DEF Before
      <3>2. CASE x \in P
        <4>1. PICK k \in 1..n : x = stops[k].at
          BY <3>2
        <4>2. k + 1 \in 1..(n + 1) /\ k + 1 # 1 /\ (k + 1) - 1 = k
          BY <1>1
        <4> QED
          BY <4>1, <4>2 DEF Before
      <3> QED
        BY <3>1, <3>2
    <2>2. i \in 1..n
      BY <1>3, <1>5, <2>1
    <2> QED
      BY <1>4, <2>1, <2>2
  <1> HIDE DEF P
  <1> QED
    BY <1>2, <1>5 DEF Plan!Feasible

\* The greedy gives a trip up exactly if no choice of the candidates makes it.
THEOREM GreedyIsComplete == Spec => []StrandedIffInfeasible
  <1>1. IInv => StrandedIffInfeasible
    BY EmptyWindow, StopsMakeTheTrip DEF StrandedIffInfeasible, IInv, DeadEnd
  <1> QED
    BY <1>1, Invariance, PTL

\* The call, seen as a car on the road, starts and moves as FuelPlan allows.
THEOREM OptimizerImplementsPlan == Spec => Plan!Spec
  <1>1. Init => Plan!Init
    BY InputAssumption DEF Init, Plan!Init
  <1>2. IInv /\ IInv' /\ [Next]_vars => [Plan!Next]_(Plan!vars)
    <2> SUFFICES ASSUME IInv, IInv', [Next]_vars
                 PROVE  [Plan!Next]_(Plan!vars)
      OBVIOUS
    <2>1. CASE ReturnWithoutStops \/ GiveUp \/ Finish
      <3>1. /\ pc # "done" /\ pc' = "done"
            /\ UNCHANGED <<total, range, candidates, current>>
        BY <2>1 DEF ReturnWithoutStops, GiveUp, Finish, inputs
      <3>2. CASE Arrives
        <4>1. Plan!Arrive
          BY <3>1, <3>2 DEF Plan!Arrive, Arrives
        <4> QED
          BY <4>1 DEF Plan!Next
      <3>3. CASE ~Arrives
        <4>1. \A c \in candidates : ~(current < c.at /\ c.at <= current + range)
          BY <3>1, <3>3 DEF IInv, DeadEnd, Arrives
        <4>2. ~Plan!Feasible
          BY <3>3, <4>1, EmptyWindow
        <4>3. Plan!Strand
          BY <3>1, <3>3, <4>2 DEF Plan!Strand, Arrives
        <4> QED
          BY <4>3 DEF Plan!Next
      <3> QED
        BY <3>2, <3>3
    <2>2. CASE EnterLoop \/ UNCHANGED vars
      BY <2>2 DEF EnterLoop, vars, inputs, Plan!vars, Arrives
    <2>3. CASE Refuel
      <3>1. PICK c \in Reachable : DriveTo(c)
        BY <2>3 DEF Refuel
      <3>2. /\ pc = "loop" /\ pc' = "loop" /\ current' = c.at
            /\ UNCHANGED <<total, range, candidates>>
        BY <2>3, <3>1 DEF Refuel, DriveTo, inputs
      <3>3. c \in candidates /\ current < c.at /\ c.at <= current + range
        BY <3>1 DEF Reachable, IInv, AtLastStop
      <3>4. Plan!Refuel
        BY <3>2, <3>3 DEF Plan!Refuel
      <3> QED
        BY <3>4 DEF Plan!Next
    <2> QED
      BY <2>1, <2>2, <2>3 DEF Next
  <1> QED
    BY <1>1, <1>2, Invariance, PTL DEF Spec, Plan!Spec

-----------------------------------------------------------------------------
(* What the costs shown add up to.  A recursive function is a CHOOSE: that  *)
(* there is one function that adds up, and no other, is shown first.        *)

\* f adds up the costs of the first n stops of s.
Adds(f, s, n) ==
    f = [k \in 0..n |-> IF k = 0 THEN 0 ELSE f[k - 1] + s[k].cost]

\* Adding up, step by step.
LEMMA SumUnfolds ==
    ASSUME NEW s, NEW n \in Nat, NEW f, Adds(f, s, n)
    PROVE  /\ f = [k \in 0..n |-> f[k]]
           /\ f[0] = 0
           /\ \A k \in 1..n : f[k] = f[k - 1] + s[k].cost
  <1> DEFINE g == [k \in 0..n |-> IF k = 0 THEN 0 ELSE f[k - 1] + s[k].cost]
  <1>1. f = g
    BY DEF Adds
  <1>2. g = [k \in 0..n |-> g[k]] /\ g[0] = 0
    OBVIOUS
  <1>3. \A k \in 1..n : g[k] = f[k - 1] + s[k].cost
    OBVIOUS
  <1> HIDE DEF g
  <1> QED
    BY <1>1, <1>2, <1>3

\* What steps so adds up.
LEMMA SumFolds ==
    ASSUME NEW s, NEW n \in Nat, NEW f,
           f = [k \in 0..n |-> f[k]],
           f[0] = 0,
           \A k \in 1..n : f[k] = f[k - 1] + s[k].cost
    PROVE  Adds(f, s, n)
  <1> DEFINE g == [k \in 0..n |-> IF k = 0 THEN 0 ELSE f[k - 1] + s[k].cost]
  <1>1. ASSUME NEW k \in 0..n PROVE g[k] = f[k]
    <2>1. CASE k = 0
      BY <2>1
    <2>2. CASE k \in 1..n
      <3>1. g[k] = f[k - 1] + s[k].cost
        BY <2>2
      <3> HIDE DEF g
      <3> QED
        BY <2>2, <3>1
    <2> QED
      BY <2>1, <2>2
  <1>2. g = [k \in 0..n |-> g[k]]
    OBVIOUS
  <1> HIDE DEF g
  <1>3. f = g
    BY <1>1, <1>2
  <1> QED
    BY <1>3 DEF Adds, g

\* Nothing adds them up in two ways: there would be a first position at which two
\* of them part.
LEMMA OneSum ==
    ASSUME NEW s, NEW n \in Nat, NEW f, NEW g, Adds(f, s, n), Adds(g, s, n)
    PROVE  f = g
  <1> DEFINE T == {k \in 0..n : f[k] # g[k]}
  <1>1. /\ f = [k \in 0..n |-> f[k]] /\ g = [k \in 0..n |-> g[k]]
        /\ f[0] = g[0]
        /\ \A k \in 1..n : f[k] = f[k - 1] + s[k].cost /\ g[k] = g[k - 1] + s[k].cost
    BY SumUnfolds
  <1>2. SUFFICES ASSUME T # {} PROVE FALSE
    BY <1>1
  <1>3. PICK m \in T : \A k \in T : m <= k
    <2>1. T \in SUBSET Nat
      OBVIOUS
    <2> QED
      BY <1>2, <2>1, FirstPosition
  <1>4. m \in 0..n /\ f[m] # g[m]
    OBVIOUS
  <1>5. m \in 1..n /\ m - 1 \in 0..n
    BY <1>1, <1>4
  <1>6. m - 1 \notin T
    BY <1>3, <1>5
  <1> QED
    BY <1>1, <1>4, <1>5, <1>6

\* A sum of n stops is extended by the next one.
LEMMA SumExtends ==
    ASSUME NEW s \in Seq(Stop), NEW n \in Nat, n < Len(s),
           NEW f \in [0..n -> Nat], Adds(f, s, n)
    PROVE  \E g \in [0..(n + 1) -> Nat] : Adds(g, s, n + 1)
  <1> DEFINE g == [k \in 0..(n + 1) |-> IF k = n + 1 THEN f[n] + s[n + 1].cost ELSE f[k]]
  <1>1. s[n + 1].cost \in Nat
    <2>1. s[n + 1] \in Stop
      BY ElementOfSeq
    <2> QED
      BY <2>1 DEF Stop
  <1>2. f[0] = 0 /\ \A k \in 1..n : f[k] = f[k - 1] + s[k].cost
    BY SumUnfolds
  <1>3. g \in [0..(n + 1) -> Nat] /\ g = [k \in 0..(n + 1) |-> g[k]]
    BY <1>1
  <1>4. g[0] = 0
    BY <1>2
  <1>5. ASSUME NEW k \in 1..(n + 1) PROVE g[k] = g[k - 1] + s[k].cost
    <2>1. g[k - 1] = f[k - 1]
      OBVIOUS
    <2>2. CASE k = n + 1
      BY <2>1, <2>2
    <2>3. CASE k \in 1..n
      <3>1. g[k] = f[k]
        BY <2>3
      <3> HIDE DEF g
      <3> QED
        BY <1>2, <2>1, <2>3, <3>1
    <2> QED
      BY <2>2, <2>3
  <1> HIDE DEF g
  <1>6. Adds(g, s, n + 1)
    <2>1. n + 1 \in Nat
      OBVIOUS
    <2> QED
      BY <1>3, <1>4, <1>5, <2>1, SumFolds
  <1> QED
    BY <1>3, <1>6

\* So the first n stops always have a sum: there would be a first n without.
LEMMA SumExists ==
    ASSUME NEW s \in Seq(Stop), NEW n \in 0..Len(s)
    PROVE  \E f \in [0..n -> Nat] : Adds(f, s, n)
  <1> DEFINE T == {k \in 0..Len(s) : ~\E f \in [0..k -> Nat] : Adds(f, s, k)}
  <1>0. Len(s) \in Nat
    OBVIOUS
  <1>1. SUFFICES ASSUME T # {} PROVE FALSE
    OBVIOUS
  <1>2. PICK m \in T : \A k \in T : m <= k
    <2>1. T \in SUBSET Nat
      BY <1>0
    <2> QED
      BY <1>1, <2>1, FirstPosition
  <1>3. m \in 0..Len(s) /\ ~\E f \in [0..m -> Nat] : Adds(f, s, m)
    OBVIOUS
  <1>4. CASE m = 0
    <2> DEFINE z == [k \in 0..0 |-> 0]
    <2>1. z \in [0..0 -> Nat] /\ z = [k \in 0..0 |-> z[k]] /\ z[0] = 0 /\ 1..0 = {}
      OBVIOUS
    <2> HIDE DEF z
    <2>2. Adds(z, s, 0)
      BY <2>1, SumFolds
    <2> QED
      BY <1>3, <1>4, <2>1, <2>2
  <1>5. CASE m # 0
    <2>1. m - 1 \in Nat /\ m - 1 < Len(s) /\ m - 1 \in 0..Len(s) /\ (m - 1) + 1 = m
      BY <1>0, <1>3, <1>5
    <2>2. m - 1 \notin T
      BY <1>2, <2>1
    <2>3. PICK f \in [0..(m - 1) -> Nat] : Adds(f, s, m - 1)
      BY <2>1, <2>2
    <2>4. \E g \in [0..((m - 1) + 1) -> Nat] : Adds(g, s, (m - 1) + 1)
      BY <2>1, <2>3, SumExtends
    <2> QED
      BY <1>3, <2>1, <2>4
  <1> QED
    BY <1>4, <1>5

\* ShownSum is that function's last value.
LEMMA SumIsTheirs ==
    ASSUME NEW s \in Seq(Stop), NEW f, Adds(f, s, Len(s))
    PROVE  ShownSum(s) = f[Len(s)]
  <1> DEFINE S == CHOOSE S : Adds(S, s, Len(s))
  <1>1. Adds(S, s, Len(s))
    OBVIOUS
  <1>2. S = f
    BY <1>1, OneSum
  <1>3. ShownSum(s) = S[Len(s)]
    BY DEF ShownSum, Adds
  <1> QED
    BY <1>2, <1>3

\* Costs add up to a cost.
LEMMA SumIsNat ==
    ASSUME NEW s \in Seq(Stop)
    PROVE  ShownSum(s) \in Nat
  <1>1. Len(s) \in Nat /\ Len(s) \in 0..Len(s)
    OBVIOUS
  <1>2. PICK f \in [0..Len(s) -> Nat] : Adds(f, s, Len(s))
    BY <1>1, SumExists
  <1> QED
    BY <1>1, <1>2, SumIsTheirs

\* Without stops nothing is shown.
LEMMA ShownSumEmpty == ShownSum(<<>>) = 0
  <1>1. <<>> \in Seq(Stop) /\ Len(<<>>) = 0 /\ 0 \in 0..Len(<<>>)
    OBVIOUS
  <1>2. PICK f \in [0..0 -> Nat] : Adds(f, <<>>, 0)
    BY <1>1, SumExists
  <1>3. ShownSum(<<>>) = f[0]
    BY <1>1, <1>2, SumIsTheirs
  <1>4. f[0] = 0
    BY <1>2, SumUnfolds
  <1> QED
    BY <1>3, <1>4

\* A stop more adds what is shown for it.
LEMMA ShownSumAppend ==
    ASSUME NEW s \in Seq(Stop), NEW e \in Stop
    PROVE  ShownSum(Append(s, e)) = ShownSum(s) + e.cost
  <1> DEFINE n == Len(s)
             t == Append(s, e)
  <1>1. n \in Nat /\ t \in Seq(Stop) /\ Len(t) = n + 1
    OBVIOUS
  <1>2. t[n + 1] = e /\ \A k \in 1..n : t[k] = s[k]
    OBVIOUS
  <1> HIDE DEF n, t
  <1>3. PICK F \in [0..(n + 1) -> Nat] : Adds(F, t, n + 1)
    <2>1. n + 1 \in 0..Len(t)
      BY <1>1
    <2> QED
      BY <1>1, <2>1, SumExists
  <1>4. F[0] = 0 /\ \A k \in 1..(n + 1) : F[k] = F[k - 1] + t[k].cost
    <2>1. n + 1 \in Nat
      BY <1>1
    <2> QED
      BY <1>3, <2>1, SumUnfolds
  <1> DEFINE G == [k \in 0..n |-> F[k]]
  <1>5. G = [k \in 0..n |-> G[k]] /\ \A k \in 0..n : G[k] = F[k]
    OBVIOUS
  <1> HIDE DEF G
  <1>6. G[0] = 0 /\ \A k \in 1..n : G[k] = G[k - 1] + s[k].cost
    <2>1. 0 \in 0..n
      BY <1>1
    <2>2. ASSUME NEW k \in 1..n PROVE G[k] = G[k - 1] + s[k].cost
      <3>1. k \in 0..n /\ k - 1 \in 0..n /\ k \in 1..(n + 1)
        BY <1>1
      <3>2. F[k] = F[k - 1] + t[k].cost /\ t[k] = s[k]
        BY <1>2, <1>4, <3>1
      <3> QED
        BY <1>5, <3>1, <3>2
    <2> QED
      BY <1>4, <1>5, <2>1, <2>2
  <1>7. Adds(G, s, n)
    BY <1>1, <1>5, <1>6, SumFolds
  <1>8. ShownSum(s) = F[n]
    <2>1. ShownSum(s) = G[n]
      BY <1>7, SumIsTheirs DEF n
    <2> QED
      BY <1>1, <1>5, <2>1
  <1>9. ShownSum(t) = F[n + 1]
    BY <1>1, <1>3, SumIsTheirs
  <1>10. F[n + 1] = F[n] + e.cost
    <2>1. n + 1 \in 1..(n + 1) /\ (n + 1) - 1 = n
      BY <1>1
    <2> QED
      BY <1>2, <1>4, <2>1
  <1> QED
    BY <1>8, <1>9, <1>10 DEF t

-----------------------------------------------------------------------------
(* The costs shown and the cost reported.                                   *)

\* Cents shown, summed, and the unrounded cost part by half a cent per stop; the
\* cost reported is within half a cent of the unrounded one.
CostsShown ==
    /\ 2 * (ShownSum(stops) - cost) <= Len(stops) * Cent
    /\ 2 * (cost - ShownSum(stops)) <= Len(stops) * Cent
    /\ pc = "done" /\ stops # <<>> =>
          2 * (reported - cost) <= Cent /\ 2 * (cost - reported) <= Cent

\* Roundings are within half a cent.
LEMMA RoundedIsClose ==
    ASSUME NEW x \in Nat, NEW r \in Rounded(x)
    PROVE  r \in Nat /\ 2 * (x - r) <= Cent /\ 2 * (r - x) <= Cent
  <1>1. r \in Nat
    BY RoundedIsNat
  <1>2. 2 * (x - r) <= Cent /\ 2 * (r - x) <= Cent
    BY DEF Rounded
  <1> QED
    BY <1>1, <1>2

\* Two gaps add up.
LEMMA GapsAdd ==
    ASSUME NEW a \in Nat, NEW b \in Nat, NEW c \in Nat, NEW d \in Nat, NEW u \in Nat,
           2 * (a - b) <= u, 2 * (b - a) <= u,
           2 * (c - d) <= Cent, 2 * (d - c) <= Cent
    PROVE  2 * ((a + c) - (b + d)) <= u + Cent /\ 2 * ((b + d) - (a + c)) <= u + Cent
  <1>1. Cent \in Nat
    BY InputAssumption
  <1> QED
    BY <1>1

\* One stop more allows half a cent more.
LEMMA OneMore ==
    ASSUME NEW n \in Nat
    PROVE  n * Cent \in Nat /\ (n + 1) * Cent = n * Cent + Cent
  <1>1. Cent \in Nat
    BY InputAssumption
  <1> QED
    BY <1>1

\* Nothing is shown at the start, and nothing paid.
LEMMA InitCostsShown == Init => CostsShown
  <1> SUFFICES ASSUME Init PROVE CostsShown
    OBVIOUS
  <1>1. stops = <<>> /\ cost = 0 /\ pc = "start" /\ Len(stops) = 0 /\ Len(stops) * Cent = 0
    BY InputAssumption DEF Init
  <1>2. ShownSum(stops) = 0
    BY <1>1, ShownSumEmpty
  <1> QED
    BY <1>1, <1>2 DEF CostsShown

\* A stop adds a rounded cost to the one sum and the cost itself to the other.
LEMMA NextCostsShown == IInv /\ CostsShown /\ [Next]_vars => CostsShown'
  <1> SUFFICES ASSUME IInv, CostsShown, [Next]_vars PROVE CostsShown'
    OBVIOUS
  <1>1. /\ stops \in Seq(Stop) /\ cost \in Nat /\ Len(stops) \in Nat
        /\ pc = "start" => stops = <<>>
    BY DEF IInv, TypeOK, AtLastStop, Stop
  <1>2. CASE ReturnWithoutStops
    BY <1>1, <1>2 DEF ReturnWithoutStops, CostsShown
  <1>3. CASE EnterLoop
    BY <1>3 DEF EnterLoop, CostsShown
  <1>4. CASE Refuel
    <2>1. PICK c \in Reachable : Buy(c)
      BY <1>4 DEF Refuel
    <2>2. Needed(c) \in Nat /\ c.at \in Nat /\ c.price \in Nat
      BY Inputs DEF Reachable, Needed, IInv, AtLastStop, TypeOK
    <2> DEFINE miles == Needed(c)
               d == miles * c.price
               n == Len(stops)
               S == ShownSum(stops)
    <2>3. PICK shown \in Rounded(d) :
             stops' = Append(stops, [at |-> c.at, price |-> c.price,
                                     miles |-> miles, cost |-> shown])
      BY <2>1 DEF Buy
    <2>4. cost' = cost + d /\ pc' = "loop"
      BY <1>4, <2>1 DEF Buy, AddedCost, Refuel
    <2> HIDE DEF miles
    <2>5. d \in Nat
      BY <2>2, NatTimes DEF miles
    <2> HIDE DEF d
    <2>6. shown \in Nat /\ 2 * (d - shown) <= Cent /\ 2 * (shown - d) <= Cent
      BY <2>5, RoundedIsClose
    <2> DEFINE e == [at |-> c.at, price |-> c.price, miles |-> miles, cost |-> shown]
    <2>7. e \in Stop /\ e.cost = shown
      BY <2>2, <2>6 DEF Stop, miles
    <2>8. stops' = Append(stops, e)
      BY <2>3
    <2> HIDE DEF e
    <2>9. S \in Nat /\ ShownSum(Append(stops, e)) = S + shown
      BY <1>1, <2>7, ShownSumAppend, SumIsNat
    <2>9a. ShownSum(stops') = S + shown
      BY <2>8, <2>9
    <2>10. Len(stops') = n + 1
      BY <1>1, <2>8
    <2>11. 2 * (S - cost) <= n * Cent /\ 2 * (cost - S) <= n * Cent
      BY DEF CostsShown
    <2> HIDE DEF S, n
    <2>12. n \in Nat /\ n * Cent \in Nat /\ (n + 1) * Cent = n * Cent + Cent
      BY <1>1, OneMore DEF n
    <2>13. /\ 2 * ((S + shown) - (cost + d)) <= (n + 1) * Cent
           /\ 2 * ((cost + d) - (S + shown)) <= (n + 1) * Cent
      <3>1. /\ 2 * ((S + shown) - (cost + d)) <= n * Cent + Cent
            /\ 2 * ((cost + d) - (S + shown)) <= n * Cent + Cent
        <4> DEFINE u == n * Cent
        <4>1. u \in Nat /\ 2 * (S - cost) <= u /\ 2 * (cost - S) <= u
          BY <2>11, <2>12
        <4> HIDE DEF u
        <4>2. 2 * ((S + shown) - (cost + d)) <= u + Cent /\ 2 * ((cost + d) - (S + shown)) <= u + Cent
          BY <1>1, <2>5, <2>6, <2>9, <4>1, GapsAdd
        <4> QED
          BY <4>2 DEF u
      <3> QED
        BY <2>12, <3>1
    <2> QED
      BY <2>4, <2>9a, <2>10, <2>13 DEF CostsShown
  <1>5. CASE GiveUp \/ Finish
    <2>1. reported' \in Rounded(cost) /\ UNCHANGED <<stops, cost>>
      BY <1>5 DEF GiveUp, Finish
    <2>2. reported' \in Nat /\ 2 * (reported' - cost) <= Cent /\ 2 * (cost - reported') <= Cent
      BY <1>1, <2>1, RoundedIsClose
    <2> QED
      BY <2>1, <2>2 DEF CostsShown
  <1>6. CASE UNCHANGED vars
    BY <1>6 DEF vars, CostsShown
  <1> QED
    BY <1>2, <1>3, <1>4, <1>5, <1>6 DEF Next

\* The costs shown for the stops add up to the cost reported within half a cent per
\* stop and half a cent for the sum, for any number of stops and any prices
\* (services/fuel/optimizer.py:77-99).
THEOREM CostsAddUp == Spec => []ShownCostsAddUp
  <1>1. IInv /\ CostsShown => ShownCostsAddUp
    <2> SUFFICES ASSUME IInv, CostsShown, pc = "done", stops # <<>>
                 PROVE  /\ 2 * (ShownSum(stops) - reported) <= (Len(stops) + 1) * Cent
                        /\ -2 * (ShownSum(stops) - reported) <= (Len(stops) + 1) * Cent
      BY DEF ShownCostsAddUp
    <2> DEFINE S == ShownSum(stops)
               u == Len(stops) * Cent
    <2>1. /\ stops \in Seq(Stop) /\ cost \in Nat /\ reported \in Nat /\ Len(stops) \in Nat
      BY DEF IInv, TypeOK, Stop
    <2>2. u \in Nat /\ (Len(stops) + 1) * Cent = u + Cent
      BY <2>1, OneMore
    <2>3. S \in Nat
      BY <2>1, SumIsNat
    <2>4. /\ 2 * (S - cost) <= u /\ 2 * (cost - S) <= u
          /\ 2 * (reported - cost) <= Cent /\ 2 * (cost - reported) <= Cent
      BY DEF CostsShown
    <2>5. Cent \in Nat
      BY InputAssumption
    <2> HIDE DEF S, u
    <2>6. 2 * (S - reported) <= u + Cent /\ -2 * (S - reported) <= u + Cent
      BY <2>1, <2>2, <2>3, <2>4, <2>5
    <2> QED
      BY <2>2, <2>6 DEF S
  <1> QED
    BY <1>1, Invariance, InitCostsShown, NextCostsShown, PTL DEF Spec

-----------------------------------------------------------------------------
(* The call comes to its return: it is never without a step before, and each *)
(* step counts down.                                                        *)

\* The miles still to go, and the steps that go none.
StepsLeft ==
    CASE pc = "start" -> total + 2
      [] pc = "loop" -> total - current + 1
      [] OTHER -> 0

\* What some step needs: a price to return, or a cheapest station to refuel at and a
\* price to show for it.
CanGoOn ==
    \/ pc = "start" /\ candidates # {} /\ range < total
    \/ /\ pc = "start" /\ (candidates = {} \/ total <= range)
       /\ Rounded(total * AveragePrice) # {}
    \/ /\ pc = "loop" /\ current + remaining < total
       /\ \E c \in Reachable : IsCheapest(c, Reachable) /\ Rounded(Needed(c) * c.price) # {}
    \/ /\ pc = "loop" /\ (total <= current + remaining \/ Reachable = {})
       /\ Rounded(cost) # {}

\* An amount of money has a nearest amount in cents.
LEMMA RoundedExists ==
    ASSUME NEW x \in Nat
    PROVE  Rounded(x) # {}
  <1> DEFINE low == Cent * (x \div Cent)
  <1>1. Cent \in Nat \ {0}
    BY InputAssumption
  <1>2. low \in Nat /\ low <= x /\ x < low + Cent
    <2>1. x \div Cent \in Nat
      BY <1>1
    <2>2. low \in Nat
      BY <1>1, <2>1, NatTimes
    <2>3. x % Cent \in 0..(Cent - 1) /\ x = low + (x % Cent)
      BY <1>1
    <2> HIDE DEF low
    <2> QED
      BY <1>1, <2>2, <2>3
  <1> HIDE DEF low
  <1>3. CASE 2 * (x - low) <= Cent
    <2>1. 2 * (low - x) <= Cent
      BY <1>1, <1>2
    <2> QED
      BY <1>3, <2>1 DEF Rounded, low
  <1>4. CASE ~(2 * (x - low) <= Cent)
    <2>1. 2 * (x - (low + Cent)) <= Cent /\ 2 * ((low + Cent) - x) <= Cent
      BY <1>1, <1>2, <1>4
    <2> QED
      BY <2>1 DEF Rounded, low
  <1> QED
    BY <1>3, <1>4

\* Of some stations one is the nearest of the cheapest.
LEMMA CheapestExists ==
    ASSUME NEW S \in SUBSET [at : Nat, price : Nat], S # {}
    PROVE  \E c \in S : IsCheapest(c, S)
  <1>1. PICK p \in {d.price : d \in S} : \A q \in {d.price : d \in S} : p <= q
    <2>1. {d.price : d \in S} \in SUBSET Nat /\ {d.price : d \in S} # {}
      OBVIOUS
    <2> QED
      BY <2>1, FirstPosition
  <1> DEFINE Cheap == {d \in S : d.price = p}
  <1>2. PICK a \in {d.at : d \in Cheap} : \A b \in {d.at : d \in Cheap} : a <= b
    <2>1. {d.at : d \in Cheap} \in SUBSET Nat /\ {d.at : d \in Cheap} # {}
      BY <1>1
    <2> QED
      BY <2>1, FirstPosition
  <1>3. PICK c \in Cheap : c.at = a
    BY <1>2
  <1>4. ASSUME NEW d \in S PROVE c.price < d.price \/ (c.price = d.price /\ c.at <= d.at)
    <2>1. c.price = p /\ p <= d.price /\ c.price \in Nat /\ d.price \in Nat
      BY <1>1
    <2>2. d.price = p => c.at <= d.at
      BY <1>2, <1>3
    <2> QED
      BY <2>1, <2>2
  <1> QED
    BY <1>4 DEF IsCheapest

\* The last stop lies before the end of the route.
LEMMA NotBeyond == IInv /\ pc = "loop" => current <= total
  <1> SUFFICES ASSUME IInv, pc = "loop" PROVE current <= total
    OBVIOUS
  <1> DEFINE n == Len(stops)
  <1>1. /\ total \in Nat /\ range \in Nat /\ current \in Nat /\ n \in Nat
        /\ current = Before(stops, n + 1)
    BY Inputs DEF IInv, TypeOK, AtLastStop
  <1>2. CASE n = 0
    BY <1>1, <1>2 DEF Before
  <1>3. CASE n # 0
    <2>1. n \in 1..n /\ current = stops[n].at
      BY <1>1, <1>3 DEF Before
    <2>2. stops[n].at <= Before(stops, n) + range /\ Before(stops, n) + range < total
      BY <2>1 DEF IInv, LegsWithinRange
    <2>3. Before(stops, n) \in Nat
      BY <2>1, StopTypes DEF IInv
    <2> HIDE DEF n
    <2> QED
      BY <1>1, <2>1, <2>2, <2>3
  <1> QED
    BY <1>2, <1>3

\* What is left is a number of steps.
LEMMA StepsLeftIsNat == IInv => StepsLeft \in Nat
  <1> SUFFICES ASSUME IInv PROVE StepsLeft \in Nat
    OBVIOUS
  <1>1. total \in Nat /\ current \in Nat /\ pc \in {"start", "loop", "done"}
    BY Inputs DEF IInv, TypeOK
  <1>2. pc = "loop" => total - current + 1 \in Nat
    BY <1>1, NotBeyond
  <1> QED
    BY <1>1, <1>2 DEF StepsLeft

\* Each step leaves fewer: no route makes the loop of optimizer.py:52-93 turn forever.
THEOREM CallCountsDown == Spec => [](StepsLeft \in Nat) /\ [][StepsLeft' < StepsLeft]_vars
  <1>1. IInv /\ IInv' /\ [Next]_vars => [StepsLeft' < StepsLeft]_vars
    <2> SUFFICES ASSUME IInv, IInv', Next PROVE StepsLeft' < StepsLeft
      BY DEF vars
    <2>1. /\ total \in Nat /\ current \in Nat /\ total' = total
          /\ pc = "loop" => total - current + 1 \in Nat
      <3>1. total \in Nat /\ current \in Nat
        BY Inputs DEF IInv, TypeOK
      <3>2. total' = total
        BY DEF Next, ReturnWithoutStops, EnterLoop, Refuel, GiveUp, Finish, inputs
      <3> QED
        BY <3>1, <3>2, NotBeyond
    <2>2. CASE ReturnWithoutStops
      <3>1. pc = "start" /\ pc' = "done"
        BY <2>2 DEF ReturnWithoutStops
      <3> QED
        BY <2>1, <3>1 DEF StepsLeft
    <2>3. CASE EnterLoop
      <3>1. pc = "start" /\ pc' = "loop" /\ current' = current
        BY <2>3 DEF EnterLoop
      <3> QED
        BY <2>1, <3>1 DEF StepsLeft
    <2>4. CASE Refuel
      <3>1. PICK c \in Reachable : DriveTo(c)
        BY <2>4 DEF Refuel
      <3>2. pc = "loop" /\ pc' = "loop" /\ current' = c.at /\ current < c.at /\ c.at \in Nat
        BY <2>4, <3>1, Inputs DEF Refuel, DriveTo, Reachable, IInv, AtLastStop
      <3> QED
        BY <2>1, <3>2 DEF StepsLeft
    <2>5. CASE GiveUp \/ Finish
      <3>1. pc = "loop" /\ pc' = "done"
        BY <2>5 DEF GiveUp, Finish
      <3>2. StepsLeft = total - current + 1 /\ StepsLeft' = 0
        BY <3>1 DEF StepsLeft
      <3>3. total - current + 1 > 0
        BY <2>1, <3>1, NotBeyond
      <3> QED
        BY <3>2, <3>3
    <2> QED
      BY <2>2, <2>3, <2>4, <2>5 DEF Next
  <1> QED
    BY <1>1, StepsLeftIsNat, Invariance, PTL DEF Spec

\* And before the return there is a step to take: min() at optimizer.py:68 has something to
\* choose from whenever it is called.
THEOREM CallGoesOn == Spec => [](pc # "done" => CanGoOn)
  <1>1. IInv => (pc # "done" => CanGoOn)
    <2> SUFFICES ASSUME IInv, pc # "done" PROVE CanGoOn
      OBVIOUS
    <2>1. /\ total \in Nat /\ range \in Nat /\ current \in Nat /\ remaining = range /\ cost \in Nat
          /\ pc \in {"start", "loop"}
          /\ Reachable \in SUBSET [at : Nat, price : Nat]
      BY Inputs, InputAssumption DEF IInv, TypeOK, AtLastStop, Reachable
    <2>2. CASE pc = "start"
      <3>1. total * AveragePrice \in Nat
        BY <2>1, InputAssumption, NatTimes
      <3>2. Rounded(total * AveragePrice) # {}
        BY <3>1, RoundedExists
      <3> QED
        BY <2>1, <2>2, <3>2 DEF CanGoOn
    <2>3. CASE pc = "loop" /\ (total <= current + remaining \/ Reachable = {})
      BY <2>1, <2>3, RoundedExists DEF CanGoOn
    <2>4. CASE pc = "loop" /\ ~(total <= current + remaining) /\ Reachable # {}
      <3>1. PICK c \in Reachable : IsCheapest(c, Reachable)
        BY <2>1, <2>4, CheapestExists
      <3>2. Needed(c) \in Nat /\ c.price \in Nat
        BY <2>1, Inputs DEF Reachable, Needed, IInv, AtLastStop, TypeOK
      <3>3. Needed(c) * c.price \in Nat
        BY <3>2, NatTimes
      <3>4. Rounded(Needed(c) * c.price) # {}
        BY <3>3, RoundedExists
      <3>5. current + remaining < total
        BY <2>1, <2>4
      <3> QED
        BY <2>4, <3>1, <3>4, <3>5 DEF CanGoOn
    <2> QED
      BY <2>1, <2>2, <2>3, <2>4
  <1> QED
    BY <1>1, Invariance, PTL
=============================================================================
