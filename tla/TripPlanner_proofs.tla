------------------------ MODULE TripPlanner_proofs ------------------------
(***************************************************************************)
(* Theorems about TripPlanner: for any number of workers, trips and        *)
(* vehicles and any lifetimes, it implements TripService, and the bounds   *)
(* on what stale caches and a stampede may do hold.                        *)
(***************************************************************************)
EXTENDS TripPlanner, FiniteSetTheorems, TLAPS

\* What a worker carries.  A route that was just fetched has aged while the
\* request was held; one from the cache was young enough when it was read.
WorkerInv ==
    \A w \in Workers :
        /\ pc[w] = "setRoute" => route[w].age <= held[w]
        /\ pc[w] \in HasRoute => route[w].age < RouteTTL + WorkerTimeout + held[w]
        /\ pc[w] \in HasPlan => prices[w] <= held[w]

\* A live route and its time to live stay together below what they were when
\* it was stored, at the end of a request that held it all along.
RouteInv ==
    \A t \in Trips : routeCache[t].ttl > 0 =>
        routeCache[t].age + routeCache[t].ttl <= RouteTTL + WorkerTimeout

\* So do both ages of a live plan, which is that of its own request.
PlanInv ==
    \A r \in Requests :
        /\ planCache[r].trip = r.trip /\ planCache[r].config = r.config
        /\ planCache[r].ttl > 0 =>
              /\ planCache[r].prices + planCache[r].ttl <= PlanTTL + WorkerTimeout
              /\ planCache[r].route + planCache[r].ttl
                    < RouteTTL + PlanTTL + 2 * WorkerTimeout

IInv == TypeOK /\ WorkerInv /\ RouteInv /\ PlanInv

-----------------------------------------------------------------------------

LEMMA BoundsAreNat ==
    /\ RouteTTL \in Nat /\ RouteTTL > 0
    /\ PlanTTL \in Nat /\ PlanTTL > 0
    /\ WorkerTimeout \in Nat /\ WorkerTimeout > 0
    /\ PriceBound = PlanTTL + WorkerTimeout
    /\ RouteBound = RouteTTL + PlanTTL + 2 * WorkerTimeout - 1
  BY TripPlannerAssumption DEF PriceBound, RouteBound

\* The key of a request is the request.
LEMMA KeyIsRequest == \A r \in Requests : PlanKey(r) = r
  BY DEF PlanKey, Requests

LEMMA NothingStored ==
    /\ NoRoute \in Routes
    /\ NoRouteEntry \in RouteEntries /\ NoRouteEntry.ttl = 0
    /\ \A r \in Requests : /\ NoPlan(r) \in PlanEntries
                           /\ NoPlan(r).ttl = 0
                           /\ NoPlan(r).trip = r.trip /\ NoPlan(r).config = r.config
  BY BoundsAreNat DEF NoRoute, Routes, NoRouteEntry, RouteEntries,
                      NoPlan, PlanEntries, Requests

LEMMA InitIInv == Init => IInv
  <1> SUFFICES ASSUME Init PROVE IInv
    OBVIOUS
  <1>1. request \in [Workers -> Requests]
    <2>1. PICK t \in Trips, c \in Configs : TRUE
      BY TripPlannerAssumption
    <2>2. [trip |-> t, config |-> c] \in Requests
      BY DEF Requests
    <2>3. (CHOOSE r \in Requests : TRUE) \in Requests
      BY <2>2
    <2> QED
      BY <2>3 DEF Init
  <1>2. TypeOK
    BY <1>1, NothingStored, BoundsAreNat DEF Init, TypeOK, Stages
  <1>3. WorkerInv
    BY DEF Init, WorkerInv, HasRoute, HasPlan
  <1>4. RouteInv /\ PlanInv
    BY NothingStored DEF Init, RouteInv, PlanInv
  <1> QED
    BY <1>2, <1>3, <1>4 DEF IInv

\* A worker that lets go of its request carries nothing; the others are left alone.
LEMMA ReleaseKeeps ==
    ASSUME TypeOK, WorkerInv, NEW w \in Workers, Release(w)
    PROVE  /\ pc' \in [Workers -> Stages]
           /\ request' \in [Workers -> Requests]
           /\ held' \in [Workers -> 0..WorkerTimeout]
           /\ route' \in [Workers -> Routes]
           /\ prices' \in [Workers -> Nat]
           /\ WorkerInv'
  <1>1. NoRoute \in Routes /\ 0 \in 0..WorkerTimeout /\ 0 \in Nat /\ "idle" \in Stages
    BY NothingStored, BoundsAreNat DEF Stages
  <1>2. \A v \in Workers : v # w => /\ pc'[v] = pc[v] /\ held'[v] = held[v]
                                    /\ route'[v] = route[v] /\ prices'[v] = prices[v]
    BY DEF TypeOK, Release, Goto
  <1>3. pc'[w] = "idle"
    BY DEF TypeOK, Release, Goto
  <1>4. WorkerInv'
    BY <1>2, <1>3 DEF WorkerInv, HasRoute, HasPlan
  <1> QED
    BY <1>1, <1>4 DEF TypeOK, Release, Goto

\* What a second does to a route a worker holds, and to an entry of either cache.
LEMMA AgedIsRoute ==
    ASSUME NEW m \in Routes
    PROVE  /\ [m EXCEPT !.age = @ + 1] \in Routes
           /\ [m EXCEPT !.age = @ + 1].age = m.age + 1
  BY DEF Routes

LEMMA AgedRouteKeeps ==
    ASSUME NEW e \in RouteEntries
    PROVE  /\ AgedRoute(e) \in RouteEntries
           /\ AgedRoute(e).ttl > 0 => /\ e.ttl > 0
                                      /\ AgedRoute(e).ttl = e.ttl - 1
                                      /\ AgedRoute(e).age = e.age + 1
  <1>1. CASE e.ttl <= 1
    BY <1>1, NothingStored DEF AgedRoute
  <1>2. CASE ~(e.ttl <= 1)
    <2>1. AgedRoute(e) = [ttl |-> e.ttl - 1, age |-> e.age + 1, usable |-> e.usable]
      BY <1>2 DEF AgedRoute, RouteEntries
    <2>2. e.ttl - 1 \in 0..RouteTTL /\ e.ttl > 0 /\ e.age + 1 \in Nat
      BY <1>2, BoundsAreNat DEF RouteEntries
    <2> QED
      BY <2>1, <2>2 DEF RouteEntries
  <1> QED
    BY <1>1, <1>2

LEMMA AgedPlanKeeps ==
    ASSUME NEW r \in Requests, NEW e \in PlanEntries, e.trip = r.trip, e.config = r.config
    PROVE  /\ AgedPlan(r, e) \in PlanEntries
           /\ AgedPlan(r, e).trip = r.trip /\ AgedPlan(r, e).config = r.config
           /\ AgedPlan(r, e).ttl > 0 => /\ e.ttl > 0
                                        /\ AgedPlan(r, e).ttl = e.ttl - 1
                                        /\ AgedPlan(r, e).prices = e.prices + 1
                                        /\ AgedPlan(r, e).route = e.route + 1
  <1>1. CASE e.ttl <= 1
    BY <1>1, NothingStored DEF AgedPlan
  <1>2. CASE ~(e.ttl <= 1)
    <2>1. AgedPlan(r, e) = [ttl |-> e.ttl - 1, prices |-> e.prices + 1,
                            route |-> e.route + 1, trip |-> e.trip, config |-> e.config]
      BY <1>2 DEF AgedPlan, PlanEntries
    <2>2. /\ e.ttl - 1 \in 0..PlanTTL /\ e.ttl > 0
          /\ e.prices + 1 \in Nat /\ e.route + 1 \in Nat
      BY <1>2, BoundsAreNat DEF PlanEntries
    <2> QED
      BY <2>1, <2>2 DEF PlanEntries
  <1> QED
    BY <1>1, <1>2

\* Every step keeps the invariant.
LEMMA NextIInv == IInv /\ [Next]_vars => IInv'
  <1> SUFFICES ASSUME IInv, [Next]_vars PROVE IInv'
    OBVIOUS
  <1> USE DEF IInv
  <1>1. ASSUME NEW w \in Workers, Accept(w) PROVE IInv'
    <2>1. TypeOK'
      BY <1>1 DEF Accept, Goto, caches, TypeOK, Stages
    <2>2. WorkerInv'
      BY <1>1 DEF Accept, Goto, TypeOK, WorkerInv, HasRoute, HasPlan
    <2>3. RouteInv' /\ PlanInv'
      BY <1>1 DEF Accept, caches, RouteInv, PlanInv
    <2> QED
      BY <2>1, <2>2, <2>3
  <1>2. ASSUME NEW w \in Workers, PlanHit(w) \/ Respond(w) \/ Fail(w) \/ Kill(w) PROVE IInv'
    <2>1. Release(w) /\ UNCHANGED caches
      BY <1>2 DEF PlanHit, Respond, Fail, Kill
    <2> QED
      BY <2>1, ReleaseKeeps DEF caches, TypeOK, RouteInv, PlanInv
  <1>3. ASSUME NEW w \in Workers, PlanMiss(w) \/ RouteMiss(w) PROVE IInv'
    <2>1. TypeOK' /\ WorkerInv'
      BY <1>3 DEF PlanMiss, RouteMiss, Goto, caches, TypeOK, Stages, WorkerInv, HasRoute, HasPlan
    <2>2. RouteInv' /\ PlanInv'
      BY <1>3 DEF PlanMiss, RouteMiss, caches, RouteInv, PlanInv
    <2> QED
      BY <2>1, <2>2
  <1>4. ASSUME NEW w \in Workers, RouteHit(w) PROVE IInv'
    <2> DEFINE e == routeCache[request[w].trip]
               m == [age |-> e.age, usable |-> e.usable]
    <2>1. request[w].trip \in Trips
      BY DEF TypeOK, Requests
    <2>2. e \in RouteEntries /\ e.ttl > 0 /\ e.age + e.ttl <= RouteTTL + WorkerTimeout
      BY <1>4, <2>1 DEF RouteHit, RouteInv, TypeOK
    <2>3. m \in Routes /\ \A h \in Nat : m.age < RouteTTL + WorkerTimeout + h
      BY <2>2, BoundsAreNat DEF Routes, RouteEntries
    <2>4. /\ route' = [route EXCEPT ![w] = m] /\ pc' = [pc EXCEPT ![w] = "reduce"]
          /\ UNCHANGED <<request, held, prices, caches>>
      BY <1>4 DEF RouteHit, Goto
    <2>5. held[w] \in Nat
      BY BoundsAreNat DEF TypeOK
    <2> HIDE DEF m
    <2>6. TypeOK' /\ WorkerInv'
      BY <2>3, <2>4, <2>5 DEF caches, TypeOK, Stages, WorkerInv, HasRoute, HasPlan
    <2>7. RouteInv' /\ PlanInv'
      BY <2>4 DEF caches, RouteInv, PlanInv
    <2> QED
      BY <2>6, <2>7
  <1>5. ASSUME NEW w \in Workers, Fetch(w) PROVE IInv'
    <2> PICK u \in BOOLEAN : route' = [route EXCEPT ![w] = [age |-> 0, usable |-> u]]
      BY <1>5 DEF Fetch
    <2>1. [age |-> 0, usable |-> u] \in Routes /\ held[w] \in Nat
      BY BoundsAreNat DEF Routes, TypeOK
    <2>2. TypeOK'
      BY <1>5, <2>1 DEF Fetch, Goto, caches, TypeOK, Stages
    <2>3. WorkerInv'
      BY <1>5, <2>1, BoundsAreNat DEF Fetch, Goto, TypeOK, WorkerInv, HasRoute, HasPlan
    <2>4. RouteInv' /\ PlanInv'
      BY <1>5 DEF Fetch, caches, RouteInv, PlanInv
    <2> QED
      BY <2>2, <2>3, <2>4
  <1>6. ASSUME NEW w \in Workers, SetRoute(w) PROVE IInv'
    <2> DEFINE t == request[w].trip
               e == [ttl |-> RouteTTL, age |-> route[w].age, usable |-> route[w].usable]
    <2>1. t \in Trips /\ route[w] \in Routes /\ held[w] \in 0..WorkerTimeout
      BY DEF TypeOK, Requests
    <2>2. e \in RouteEntries /\ e.age + e.ttl <= RouteTTL + WorkerTimeout
      BY <1>6, <2>1, BoundsAreNat DEF SetRoute, WorkerInv, Routes, RouteEntries
    <2>3. /\ routeCache' = [routeCache EXCEPT ![t] = e]
          /\ pc' = [pc EXCEPT ![w] = "reduce"]
          /\ UNCHANGED <<request, held, route, prices, planCache>>
      BY <1>6 DEF SetRoute, Goto
    <2>4. refetched' \in [Trips -> Nat]
      <3>1. /\ refetched[t] \in Nat /\ refetched \in [Trips -> Nat]
            /\ refetched' = [refetched EXCEPT ![t] =
                               IF routeCache[t].ttl > 0 THEN refetched[t] + 1 ELSE 0]
        BY <1>6, <2>1 DEF SetRoute, TypeOK
      <3>2. (IF routeCache[t].ttl > 0 THEN refetched[t] + 1 ELSE 0) \in Nat
        BY <3>1
      <3> HIDE DEF t
      <3> QED
        BY <3>1, <3>2
    <2> HIDE DEF e, t
    <2>5. TypeOK'
      BY <2>1, <2>2, <2>3, <2>4 DEF TypeOK, Stages
    <2>6. WorkerInv'
      BY <1>6, <2>3 DEF SetRoute, TypeOK, WorkerInv, HasRoute, HasPlan
    <2>7. RouteInv' /\ PlanInv'
      BY <2>1, <2>2, <2>3 DEF TypeOK, RouteInv, PlanInv
    <2> QED
      BY <2>5, <2>6, <2>7
  <1>7. ASSUME NEW w \in Workers, Reduce(w) PROVE IInv'
    <2>1. held[w] \in Nat
      BY BoundsAreNat DEF TypeOK
    <2>2. TypeOK' /\ WorkerInv'
      BY <1>7, <2>1 DEF Reduce, Goto, caches, TypeOK, Stages, WorkerInv, HasRoute, HasPlan
    <2>3. RouteInv' /\ PlanInv'
      BY <1>7 DEF Reduce, caches, RouteInv, PlanInv
    <2> QED
      BY <2>2, <2>3
  <1>8. ASSUME NEW w \in Workers, SetPlan(w) PROVE IInv'
    <2> DEFINE r == request[w]
               e == [ttl |-> PlanTTL, prices |-> prices[w], route |-> route[w].age,
                     trip |-> r.trip, config |-> r.config]
    <2>1. /\ r \in Requests /\ PlanKey(r) = r
          /\ route[w] \in Routes /\ prices[w] \in Nat /\ held[w] \in 0..WorkerTimeout
      BY KeyIsRequest DEF TypeOK
    <2>2. /\ e \in PlanEntries /\ e.trip = r.trip /\ e.config = r.config
      BY <2>1, BoundsAreNat DEF PlanEntries, Routes, Requests
    <2>3. /\ e.prices + e.ttl <= PlanTTL + WorkerTimeout
          /\ e.route + e.ttl < RouteTTL + PlanTTL + 2 * WorkerTimeout
      BY <1>8, <2>1, BoundsAreNat DEF SetPlan, WorkerInv, HasRoute, HasPlan, Routes
    <2>4. planCache' = [planCache EXCEPT ![r] = e] /\ UNCHANGED <<routeCache, refetched>>
      BY <1>8, <2>1 DEF SetPlan
    <2> HIDE DEF e, r
    <2>5. TypeOK' /\ WorkerInv'
      <3>1. pc[w] = "setPlan" /\ Goto(w, "send") /\ UNCHANGED <<request, held, route, prices>>
        BY <1>8 DEF SetPlan
      <3>2. planCache' \in [Requests -> PlanEntries]
        BY <2>1, <2>2, <2>4 DEF TypeOK
      <3>3. TypeOK'
        BY <2>4, <3>1, <3>2 DEF Goto, TypeOK, Stages
      <3>4. WorkerInv'
        BY <3>1 DEF Goto, TypeOK, WorkerInv, HasRoute, HasPlan
      <3> QED
        BY <3>3, <3>4
    <2>6. RouteInv' /\ PlanInv'
      BY <2>1, <2>2, <2>3, <2>4 DEF TypeOK, RouteInv, PlanInv
    <2> QED
      BY <2>5, <2>6
  <1>9. ASSUME NEW t \in Trips, EvictRoute(t) PROVE IInv'
    <2>1. TypeOK' /\ WorkerInv'
      BY <1>9, NothingStored DEF EvictRoute, locals, TypeOK, WorkerInv
    <2>2. RouteInv' /\ PlanInv'
      BY <1>9, NothingStored DEF EvictRoute, TypeOK, RouteInv, PlanInv
    <2> QED
      BY <2>1, <2>2
  <1>10. ASSUME NEW r \in Requests, EvictPlan(r) PROVE IInv'
    <2>1. TypeOK' /\ WorkerInv'
      BY <1>10, NothingStored DEF EvictPlan, locals, TypeOK, WorkerInv
    <2>2. RouteInv' /\ PlanInv'
      BY <1>10, NothingStored DEF EvictPlan, TypeOK, RouteInv, PlanInv
    <2> QED
      BY <2>1, <2>2
  <1>11. CASE Tick
    <2>1. \A w \in Workers : /\ held'[w] \in 0..WorkerTimeout
                             /\ pc[w] \in HasRoute => held'[w] = held[w] + 1
      BY <1>11, BoundsAreNat DEF Tick, TypeOK, HasRoute
    <2>2. \A w \in Workers : /\ route'[w] \in Routes
                             /\ pc[w] \in HasRoute => route'[w].age = route[w].age + 1
      <3> SUFFICES ASSUME NEW w \in Workers
                   PROVE  /\ route'[w] \in Routes
                          /\ pc[w] \in HasRoute => route'[w].age = route[w].age + 1
        OBVIOUS
      <3>1. route[w] \in Routes
        BY DEF TypeOK
      <3>2. route'[w] = IF pc[w] \in HasRoute THEN [route[w] EXCEPT !.age = @ + 1]
                                              ELSE route[w]
        BY <1>11 DEF Tick
      <3> QED
        BY <3>1, <3>2, AgedIsRoute
    <2>3. \A w \in Workers : /\ prices'[w] \in Nat
                             /\ pc[w] \in HasPlan => prices'[w] = prices[w] + 1
      BY <1>11 DEF Tick, TypeOK
    <2>4. \A t \in Trips : routeCache[t] \in RouteEntries /\ routeCache'[t] = AgedRoute(routeCache[t])
      BY <1>11 DEF Tick, TypeOK
    <2>5. \A r \in Requests : planCache[r] \in PlanEntries /\ planCache'[r] = AgedPlan(r, planCache[r])
      BY <1>11 DEF Tick, TypeOK
    <2>6. pc' = pc /\ request' = request
      BY <1>11 DEF Tick
    <2>7. TypeOK'
      <3>1. held' \in [Workers -> 0..WorkerTimeout]
        BY <1>11, <2>1 DEF Tick
      <3>2. route' \in [Workers -> Routes] /\ prices' \in [Workers -> Nat]
        BY <1>11, <2>2, <2>3 DEF Tick
      <3>3. routeCache' \in [Trips -> RouteEntries]
        BY <1>11, <2>4, AgedRouteKeeps DEF Tick
      <3>4. planCache' \in [Requests -> PlanEntries]
        BY <1>11, <2>5, AgedPlanKeeps DEF Tick, PlanInv
      <3>5. refetched' \in [Trips -> Nat]
        BY <1>11 DEF Tick, TypeOK
      <3> QED
        BY <2>6, <3>1, <3>2, <3>3, <3>4, <3>5 DEF TypeOK
    <2>8. WorkerInv'
      <3> SUFFICES ASSUME NEW w \in Workers
                   PROVE  /\ pc[w] = "setRoute" => route'[w].age <= held'[w]
                          /\ pc[w] \in HasRoute =>
                                route'[w].age < RouteTTL + WorkerTimeout + held'[w]
                          /\ pc[w] \in HasPlan => prices'[w] <= held'[w]
        BY <2>6 DEF WorkerInv
      <3>1. route[w].age \in Nat /\ held[w] \in Nat /\ prices[w] \in Nat
        BY BoundsAreNat DEF TypeOK, Routes
      <3>2. "setRoute" \in HasRoute /\ HasPlan \subseteq HasRoute
        BY DEF HasRoute, HasPlan
      <3> QED
        BY <2>1, <2>2, <2>3, <3>1, <3>2, BoundsAreNat DEF WorkerInv
    <2>9. RouteInv'
      <3> SUFFICES ASSUME NEW t \in Trips, routeCache'[t].ttl > 0
                   PROVE  routeCache'[t].age + routeCache'[t].ttl <= RouteTTL + WorkerTimeout
        BY DEF RouteInv
      <3>1. routeCache[t].age \in Nat /\ routeCache[t].ttl \in Nat
        BY <2>4, BoundsAreNat DEF RouteEntries
      <3> QED
        BY <2>4, <3>1, AgedRouteKeeps, BoundsAreNat DEF RouteInv
    <2>10. PlanInv'
      <3> SUFFICES ASSUME NEW r \in Requests
                   PROVE  /\ planCache'[r].trip = r.trip /\ planCache'[r].config = r.config
                          /\ planCache'[r].ttl > 0 =>
                                /\ planCache'[r].prices + planCache'[r].ttl
                                      <= PlanTTL + WorkerTimeout
                                /\ planCache'[r].route + planCache'[r].ttl
                                      < RouteTTL + PlanTTL + 2 * WorkerTimeout
        BY DEF PlanInv
      <3>1. /\ planCache[r].prices \in Nat /\ planCache[r].route \in Nat
            /\ planCache[r].ttl \in Nat
        BY <2>5, BoundsAreNat DEF PlanEntries
      <3> QED
        BY <2>5, <3>1, AgedPlanKeeps, BoundsAreNat DEF PlanInv
    <2> QED
      BY <2>7, <2>8, <2>9, <2>10
  <1>12. CASE UNCHANGED vars
    BY <1>12 DEF vars, locals, caches, TypeOK, WorkerInv, RouteInv, PlanInv
  <1> QED
    BY <1>1, <1>2, <1>3, <1>4, <1>5, <1>6, <1>7, <1>8, <1>9, <1>10, <1>11, <1>12
       DEF Next, Serve

\* Every reachable state satisfies the invariant.
THEOREM Invariance == Spec => []IInv
  BY InitIInv, NextIInv, PTL DEF Spec

-----------------------------------------------------------------------------

\* The types of all variables of the planner's workers and of both caches.
THEOREM TypeCorrect == Spec => []TypeOK
  BY Invariance, PTL DEF IInv

\* A route the provider got wrong is used for no longer than its entry may live
\* and two requests may hold it (set_cached_route stores it before it is
\* decoded, trip_planner.py:75-83).
THEOREM UnusableExpire == Spec => []UnusableRoutesExpire
  <1>1. IInv => UnusableRoutesExpire
    <2> SUFFICES ASSUME IInv, NEW w \in Workers, pc[w] = "reduce"
                 PROVE  route[w].age < RouteTTL + 2 * WorkerTimeout
      BY DEF UnusableRoutesExpire
    <2>1. route[w].age < RouteTTL + WorkerTimeout + held[w]
      BY DEF IInv, WorkerInv, HasRoute, HasPlan
    <2>2. held[w] \in 0..WorkerTimeout /\ route[w].age \in Nat
      BY DEF IInv, TypeOK, Routes
    <2> QED
      BY <2>1, <2>2, BoundsAreNat
  <1> QED
    BY <1>1, Invariance, PTL

-----------------------------------------------------------------------------
(* The refinement.                                                          *)

\* The requests the service sees a worker serve.
Pending == [w \in Workers |-> IF pc[w] = "idle" THEN {} ELSE {request[w]}]

\* A worker that was serving and is free again had its request taken away.
LEMMA ReleaseEmpties ==
    ASSUME TypeOK, NEW w \in Workers, pc[w] # "idle", Release(w)
    PROVE  /\ Pending[w] = {request[w]}
           /\ Pending' = [Pending EXCEPT ![w] = {}]
  <1>1. /\ pc'[w] = "idle" /\ request' = request
        /\ \A v \in Workers : v # w => pc'[v] = pc[v]
    BY DEF TypeOK, Release, Goto
  <1> QED
    BY <1>1 DEF Pending

\* A step of a worker that keeps its request changes nothing the clients see.
LEMMA StageIsQuiet ==
    ASSUME TypeOK, NEW w \in Workers, NEW s, s # "idle",
           pc[w] # "idle", Goto(w, s), request' = request
    PROVE  Pending' = Pending
  <1>1. \A v \in Workers : pc'[v] = "idle" <=> pc[v] = "idle"
    BY DEF TypeOK, Goto
  <1> QED
    BY <1>1 DEF Pending

LEMMA InitMaps == Init => Service!Init
  BY DEF Init, Service!Init

LEMMA StepMaps == IInv /\ [Next]_vars => [Service!Next]_Service!vars
  <1> SUFFICES ASSUME IInv, [Next]_vars
               PROVE  Service!Next \/ UNCHANGED <<Pending, answer>>
    BY DEF Service!vars, Pending
  <1> USE DEF IInv
  <1>1. ASSUME NEW w \in Workers, Accept(w) PROVE Service!Next
    <2> PICK r \in Requests : request' = [request EXCEPT ![w] = r]
      BY <1>1 DEF Accept
    <2>1. Pending[w] = {} /\ Pending' = [Pending EXCEPT ![w] = {r}]
      BY <1>1 DEF Accept, Goto, TypeOK, Pending
    <2>2. r \in Service!Requests /\ answer' = NoAnswer
      BY <1>1 DEF Accept, Requests, Service!Requests
    <2> QED
      BY <2>1, <2>2 DEF Pending, Service!Accept, Service!Next
  <1>2. ASSUME NEW w \in Workers, PlanHit(w) PROVE Service!Next
    <2> DEFINE r == request[w]
    <2>1. r \in Requests /\ PlanKey(r) = r
      BY KeyIsRequest DEF TypeOK
    <2>2. /\ planCache[r] \in PlanEntries /\ planCache[r].ttl > 0
          /\ planCache[r].trip = r.trip /\ planCache[r].config = r.config
          /\ planCache[r].prices + planCache[r].ttl <= PlanTTL + WorkerTimeout
          /\ planCache[r].route + planCache[r].ttl < RouteTTL + PlanTTL + 2 * WorkerTimeout
      BY <1>2, <2>1 DEF PlanHit, PlanInv, TypeOK
    <2>3. /\ planCache[r].prices \in 0..(PriceBound - 1)
          /\ planCache[r].route \in 0..(RouteBound - 1)
      BY <2>2, BoundsAreNat DEF PlanEntries
    <2>4. answer' = [to |-> w, trip |-> r.trip, config |-> r.config,
                     prices |-> planCache[r].prices, route |-> planCache[r].route]
      BY <1>2, <2>1, <2>2 DEF PlanHit, Send
    <2>5. Pending[w] = {r} /\ Pending' = [Pending EXCEPT ![w] = {}]
      BY <1>2, ReleaseEmpties DEF PlanHit
    <2> QED
      BY <2>3, <2>4, <2>5 DEF Pending, Service!Serve, Service!Next
  <1>3. ASSUME NEW w \in Workers, Respond(w) PROVE Service!Next
    <2> DEFINE r == request[w]
    <2>1. /\ route[w].age \in Nat /\ prices[w] \in Nat /\ held[w] \in 0..WorkerTimeout
          /\ prices[w] <= held[w] /\ route[w].age < RouteTTL + WorkerTimeout + held[w]
      BY <1>3 DEF Respond, WorkerInv, HasRoute, HasPlan, TypeOK, Routes
    <2>2. prices[w] \in 0..(PriceBound - 1) /\ route[w].age \in 0..(RouteBound - 1)
      BY <2>1, BoundsAreNat
    <2>3. answer' = [to |-> w, trip |-> r.trip, config |-> r.config,
                     prices |-> prices[w], route |-> route[w].age]
      BY <1>3 DEF Respond, Send
    <2>4. Pending[w] = {r} /\ Pending' = [Pending EXCEPT ![w] = {}]
      BY <1>3, ReleaseEmpties DEF Respond
    <2> QED
      BY <2>2, <2>3, <2>4 DEF Pending, Service!Serve, Service!Next
  <1>4. ASSUME NEW w \in Workers, Fail(w) \/ Kill(w) PROVE Service!Next
    <2>1. pc[w] # "idle" /\ Release(w) /\ answer' = NoAnswer
      BY <1>4 DEF Fail, Kill
    <2>2. Pending[w] # {} /\ Pending' = [Pending EXCEPT ![w] = {}]
      BY <2>1, ReleaseEmpties
    <2> QED
      BY <2>1, <2>2 DEF Pending, Service!Drop, Service!Next
  <1>5. ASSUME NEW w \in Workers,
               \/ PlanMiss(w) \/ RouteHit(w) \/ RouteMiss(w) \/ Fetch(w)
               \/ SetRoute(w) \/ Reduce(w) \/ SetPlan(w)
        PROVE  Service!Next
    <2>1. /\ pc[w] # "idle" /\ request' = request /\ answer' = NoAnswer
          /\ \E s \in Stages \ {"idle"} : Goto(w, s)
      BY <1>5 DEF PlanMiss, RouteHit, RouteMiss, Fetch, SetRoute, Reduce, SetPlan, Stages
    <2>2. Pending' = Pending
      BY <2>1, StageIsQuiet
    <2> QED
      BY <2>1, <2>2 DEF Pending, Service!Quiet, Service!Next
  <1>6. ASSUME Tick \/ (\E t \in Trips : EvictRoute(t)) \/ (\E r \in Requests : EvictPlan(r))
        PROVE  Service!Next
    <2>1. pc' = pc /\ request' = request /\ answer' = NoAnswer
      BY <1>6 DEF Tick, EvictRoute, EvictPlan, locals
    <2> QED
      BY <2>1 DEF Service!Quiet, Service!Next
  <1>7. CASE UNCHANGED vars
    BY <1>7 DEF vars, locals, Pending
  <1> QED
    BY <1>1, <1>2, <1>3, <1>4, <1>5, <1>6, <1>7 DEF Next, Serve

\* Requests are answered with a plan for what they asked, from prices and a
\* route younger than the stacked lifetimes, whatever the workers store over
\* one another (plan_optimized_trip, trip_planner.py:57-121).
THEOREM PlannerImplementsService == Spec => ImplementsService
  BY InitMaps, StepMaps, Invariance, PTL DEF Spec, ImplementsService, Service!Spec

-----------------------------------------------------------------------------
(* The stampede.                                                            *)

\* The workers that missed the route of a trip and have not stored it yet.
Fetching(t) == {w \in Workers : pc[w] \in {"fetch", "setRoute"} /\ request[w].trip = t}

\* A live route can be stored over once by each worker still fetching it, and
\* the one that stored it first is not among them.
StampedeInv ==
    \A t \in Trips :
        IF routeCache[t].ttl > 0
        THEN refetched[t] + Cardinality(Fetching(t)) <= Cardinality(Workers) - 1
        ELSE refetched[t] = 0

LEMMA FetchingIsFinite ==
    \A t \in Trips : /\ IsFiniteSet(Fetching(t))
                     /\ Cardinality(Fetching(t)) \in Nat
                     /\ Cardinality(Fetching(t)) <= Cardinality(Workers)
  <1> SUFFICES ASSUME NEW t \in Trips
               PROVE  /\ IsFiniteSet(Fetching(t))
                      /\ Cardinality(Fetching(t)) \in Nat
                      /\ Cardinality(Fetching(t)) <= Cardinality(Workers)
    OBVIOUS
  <1>1. Fetching(t) \subseteq Workers
    BY DEF Fetching
  <1> QED
    BY <1>1, TripPlannerAssumption, FS_Subset, FS_CardinalityType

\* No worker starts to fetch a route that is in the cache.
LEMMA FewerFetch ==
    ASSUME StampedeInv, TypeOK, NEW t \in Trips, routeCache[t].ttl > 0,
           Fetching(t)' \subseteq Fetching(t), refetched'[t] = refetched[t]
    PROVE  refetched'[t] + Cardinality(Fetching(t)') <= Cardinality(Workers) - 1
  <1>1. /\ Cardinality(Fetching(t)') \in Nat /\ Cardinality(Fetching(t)) \in Nat
        /\ Cardinality(Fetching(t)') <= Cardinality(Fetching(t))
    BY FetchingIsFinite, FS_Subset, FS_CardinalityType
  <1>2. Cardinality(Workers) \in Nat /\ refetched[t] \in Nat
    BY TripPlannerAssumption, FS_CardinalityType DEF TypeOK
  <1> QED
    BY <1>1, <1>2 DEF StampedeInv

\* One step, of any kind but that of a worker that stores a route: the entry of
\* a trip stays or goes, and nobody starts to fetch it while it is there.
LEMMA NoStoreKeeps ==
    ASSUME StampedeInv, TypeOK, NEW t \in Trips,
           routeCache'[t].ttl > 0 => /\ routeCache[t].ttl > 0
                                     /\ refetched'[t] = refetched[t]
                                     /\ Fetching(t)' \subseteq Fetching(t),
           ~(routeCache'[t].ttl > 0) => refetched'[t] = 0
    PROVE  IF routeCache'[t].ttl > 0
           THEN refetched'[t] + Cardinality(Fetching(t)') <= Cardinality(Workers) - 1
           ELSE refetched'[t] = 0
  BY FewerFetch

LEMMA NextStampede ==
    ASSUME IInv, StampedeInv, [Next]_vars
    PROVE  StampedeInv'
  <1> SUFFICES ASSUME NEW t \in Trips
               PROVE  IF routeCache'[t].ttl > 0
                      THEN refetched'[t] + Cardinality(Fetching(t)') <= Cardinality(Workers) - 1
                      ELSE refetched'[t] = 0
    BY DEF StampedeInv
  <1> DEFINE Goal == IF routeCache'[t].ttl > 0
                     THEN refetched'[t] + Cardinality(Fetching(t)') <= Cardinality(Workers) - 1
                     ELSE refetched'[t] = 0
  <1> USE DEF IInv
  <1>0. /\ routeCache[t] \in RouteEntries /\ refetched[t] \in Nat
        /\ ~(routeCache[t].ttl > 0) => refetched[t] = 0
    BY DEF TypeOK, StampedeInv
  <1>1. ASSUME NEW w \in Workers,
               \/ Accept(w) \/ PlanHit(w) \/ PlanMiss(w) \/ RouteHit(w)
               \/ Fetch(w) \/ Reduce(w) \/ SetPlan(w) \/ Respond(w)
               \/ Fail(w) \/ Kill(w)
        PROVE  Goal
    <2>1. routeCache' = routeCache /\ refetched' = refetched
      BY <1>1 DEF Accept, PlanHit, PlanMiss, RouteHit, Fetch, Reduce, SetPlan, Respond, Fail,
                  Kill, caches
    <2>2. \A v \in Workers : v # w => pc'[v] = pc[v] /\ request'[v] = request[v]
      BY <1>1 DEF Accept, PlanHit, PlanMiss, RouteHit, Fetch, Reduce, SetPlan, Respond, Fail,
                  Kill, Release, Goto, TypeOK
    <2>3. pc'[w] \in {"fetch", "setRoute"} => pc[w] = "fetch" /\ request'[w] = request[w]
      BY <1>1 DEF Accept, PlanHit, PlanMiss, RouteHit, Fetch, Reduce, SetPlan, Respond, Fail,
                  Kill, Release, Goto, TypeOK
    <2>4. Fetching(t)' \subseteq Fetching(t)
      BY <2>2, <2>3 DEF Fetching
    <2> QED
      BY <1>0, <2>1, <2>4, NoStoreKeeps
  <1>2. ASSUME NEW w \in Workers, RouteMiss(w) PROVE Goal
    <2>1. routeCache' = routeCache /\ refetched' = refetched /\ request' = request
      BY <1>2 DEF RouteMiss, caches
    <2>2. routeCache[request[w].trip].ttl = 0
      BY <1>2 DEF RouteMiss, Missed
    <2>3. \A v \in Workers : v # w => pc'[v] = pc[v]
      BY <1>2 DEF RouteMiss, Goto, TypeOK
    <2>4. routeCache[t].ttl > 0 => Fetching(t)' \subseteq Fetching(t)
      BY <2>1, <2>2, <2>3 DEF Fetching
    <2> QED
      BY <1>0, <2>1, <2>4, NoStoreKeeps
  <1>3. ASSUME NEW w \in Workers, SetRoute(w) PROVE Goal
    <2>1. /\ pc[w] = "setRoute" /\ pc'[w] = "reduce" /\ request' = request
          /\ \A v \in Workers : v # w => pc'[v] = pc[v]
      BY <1>3 DEF SetRoute, Goto, TypeOK
    <2>2. CASE request[w].trip = t
      <3>1. w \in Fetching(t) /\ Fetching(t)' = Fetching(t) \ {w}
        BY <2>1, <2>2 DEF Fetching
      <3>2. Cardinality(Fetching(t)') = Cardinality(Fetching(t)) - 1
        BY <3>1, FetchingIsFinite, FS_RemoveElement
      <3>3. /\ Cardinality(Fetching(t)) \in Nat /\ Cardinality(Workers) \in Nat
            /\ Cardinality(Fetching(t)) <= Cardinality(Workers)
        BY FetchingIsFinite, TripPlannerAssumption, FS_CardinalityType
      <3>4. routeCache'[t].ttl > 0
        BY <1>3, <2>2, BoundsAreNat DEF SetRoute, TypeOK
      <3>5. refetched'[t] = IF routeCache[t].ttl > 0 THEN refetched[t] + 1 ELSE 0
        BY <1>3, <2>2 DEF SetRoute, TypeOK
      <3>6. routeCache[t].ttl > 0 =>
               refetched[t] + Cardinality(Fetching(t)) <= Cardinality(Workers) - 1
        BY DEF StampedeInv
      <3> QED
        BY <1>0, <3>2, <3>3, <3>4, <3>5, <3>6
    <2>3. CASE request[w].trip # t
      <3>1. routeCache'[t] = routeCache[t] /\ refetched'[t] = refetched[t]
        BY <1>3, <2>3 DEF SetRoute, TypeOK
      <3>2. Fetching(t)' \subseteq Fetching(t)
        BY <2>1 DEF Fetching
      <3> QED
        BY <1>0, <3>1, <3>2, NoStoreKeeps
    <2> QED
      BY <2>2, <2>3
  <1>4. ASSUME NEW u \in Trips, EvictRoute(u) PROVE Goal
    <2>1. IF u = t THEN routeCache'[t].ttl = 0 /\ refetched'[t] = 0
                   ELSE routeCache'[t] = routeCache[t] /\ refetched'[t] = refetched[t]
      BY <1>4, NothingStored DEF EvictRoute, TypeOK
    <2>2. Fetching(t)' = Fetching(t)
      BY <1>4 DEF EvictRoute, locals, Fetching
    <2> QED
      BY <1>0, <2>1, <2>2, NoStoreKeeps
  <1>5. ASSUME NEW r \in Requests, EvictPlan(r) PROVE Goal
    <2>1. routeCache' = routeCache /\ refetched' = refetched /\ Fetching(t)' = Fetching(t)
      BY <1>5 DEF EvictPlan, locals, Fetching
    <2> QED
      BY <1>0, <2>1, NoStoreKeeps
  <1>6. CASE Tick
    <2>1. /\ routeCache'[t] = AgedRoute(routeCache[t])
          /\ refetched'[t] = IF routeCache[t].ttl <= 1 THEN 0 ELSE refetched[t]
          /\ Fetching(t)' = Fetching(t)
      BY <1>6 DEF Tick, Fetching
    <2>2. routeCache[t].ttl \in Nat
      BY <1>0, BoundsAreNat DEF RouteEntries
    <2>3. routeCache[t].ttl <= 1 => routeCache'[t].ttl = 0
      BY <2>1, NothingStored DEF AgedRoute
    <2>4. ~(routeCache[t].ttl <= 1) => routeCache'[t].ttl = routeCache[t].ttl - 1
      BY <1>0, <2>1 DEF AgedRoute, RouteEntries
    <2> QED
      BY <2>1, <2>2, <2>3, <2>4, NoStoreKeeps
  <1>7. CASE UNCHANGED vars
    <2>1. routeCache' = routeCache /\ refetched' = refetched /\ Fetching(t)' = Fetching(t)
      BY <1>7 DEF vars, locals, caches, Fetching
    <2> QED
      BY <1>0, <2>1, NoStoreKeeps
  <1> QED
    BY <1>1, <1>2, <1>3, <1>4, <1>5, <1>6, <1>7 DEF Next, Serve

\* While a route is cached it is fetched again at most once by every worker but
\* one, those that had missed it before it was stored (get_cached_route,
\* trip_planner.py:72-75).
THEOREM StampedeIsBounded == Spec => []StampedeBound
  <1>1. Init => StampedeInv
    BY NothingStored DEF Init, StampedeInv
  <1>2. IInv /\ StampedeInv /\ [Next]_vars => StampedeInv'
    BY NextStampede
  <1>3. IInv /\ StampedeInv => StampedeBound
    <2> SUFFICES ASSUME IInv, StampedeInv, NEW t \in Trips
                 PROVE  refetched[t] <= Cardinality(Workers) - 1
      BY DEF StampedeBound
    <2>1. /\ Cardinality(Fetching(t)) \in Nat /\ Cardinality(Workers) \in Nat
          /\ refetched[t] \in Nat
      BY FetchingIsFinite, TripPlannerAssumption, FS_CardinalityType DEF IInv, TypeOK
    <2>2. Cardinality(Workers) > 0
      BY <2>1, TripPlannerAssumption, FS_EmptySet
    <2> QED
      BY <2>1, <2>2 DEF StampedeInv
  <1> QED
    BY <1>1, <1>2, <1>3, Invariance, PTL DEF Spec
===========================================================================
