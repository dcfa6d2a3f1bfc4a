---------------------------- MODULE TripPlanner ----------------------------
(***************************************************************************)
(* TripPlannerService.plan_optimized_trip in each gunicorn worker, over    *)
(* the route cache and the plan cache the workers share (Redis, through    *)
(* CacheService), the routing provider and the price database.             *)
(*                                                                         *)
(* Data is abstracted to its age: a route has the ticks since the provider *)
(* sent it, a plan the ticks since its prices were read and the age of its *)
(* route.  A cache entry is live while its ttl is positive.  A worker      *)
(* holds a request for at most WorkerTimeout ticks, then gunicorn kills it *)
(* and starts another.                                                     *)
(***************************************************************************)
EXTENDS Integers, FiniteSets

CONSTANTS
    Workers,        \* gunicorn's sync workers: one request at a time each
    Trips,          \* (origin, destination) pairs
    Configs,        \* vehicle parameters: range and miles per gallon
    RouteTTL,       \* CacheService.set_cached_route: 3600 s
    PlanTTL,        \* CacheService.set_cached_optimization: 1800 s
    WorkerTimeout,  \* gunicorn's --timeout: 30 s by default
    NoAnswer

ASSUME TripPlannerAssumption ==
    /\ RouteTTL \in Nat \ {0}
    /\ PlanTTL \in Nat \ {0}
    /\ WorkerTimeout \in Nat \ {0}
    /\ IsFiniteSet(Workers)
    /\ Workers # {} /\ Trips # {} /\ Configs # {}

VARIABLES
    pc,             \* where each worker is in plan_optimized_trip
    request,        \* the request each worker serves, or served last
    held,           \* for how long it has held the request
    route,          \* its local route_metadata: [age, usable]
    prices,         \* the age of the prices in its local result
    routeCache,     \* trip -> [ttl, age, usable]
    planCache,      \* trip, config -> [ttl, prices, route, trip, config]
    answer,         \* the plan sent by the last step, or NoAnswer
    refetched       \* how often a live entry of a trip was stored over

locals == <<pc, request, held, route, prices>>
caches == <<routeCache, planCache, refetched>>
vars == <<locals, caches, answer>>

Requests == [trip : Trips, config : Configs]
Routes == [age : Nat, usable : BOOLEAN]
NoRoute == [age |-> 0, usable |-> FALSE]

RouteEntries == [ttl : 0..RouteTTL, age : Nat, usable : BOOLEAN]
NoRouteEntry == [ttl |-> 0, age |-> 0, usable |-> FALSE]

PlanEntries ==
    [ttl : 0..PlanTTL, prices : Nat, route : Nat, trip : Trips, config : Configs]
NoPlan(r) ==
    [ttl |-> 0, prices |-> 0, route |-> 0, trip |-> r.trip, config |-> r.config]

Stages == {"idle", "getPlan", "getRoute", "fetch", "setRoute", "reduce", "setPlan", "send"}

TypeOK ==
    /\ pc \in [Workers -> Stages]
    /\ request \in [Workers -> Requests]
    /\ held \in [Workers -> 0..WorkerTimeout]
    /\ route \in [Workers -> Routes]
    /\ prices \in [Workers -> Nat]
    /\ routeCache \in [Trips -> RouteEntries]
    /\ planCache \in [Requests -> PlanEntries]
    /\ refetched \in [Trips -> Nat]

\* Faulty: the vehicle is left out of the key.
PlanKeyOfTrip(r) == [trip |-> r.trip, config |-> CHOOSE c \in Configs : TRUE]

\* The entry of a request in the plan cache: _generate_key over the origin,
\* the destination and the vehicle parameters.
PlanKey(r) == [trip |-> r.trip, config |-> r.config]

Init ==
    /\ pc = [w \in Workers |-> "idle"]
    /\ request \in [Workers -> {CHOOSE r \in Requests : TRUE}]
    /\ held = [w \in Workers |-> 0]
    /\ route = [w \in Workers |-> NoRoute]
    /\ prices = [w \in Workers |-> 0]
    /\ routeCache = [t \in Trips |-> NoRouteEntry]
    /\ planCache = [r \in Requests |-> NoPlan(r)]
    /\ answer = NoAnswer
    /\ refetched = [t \in Trips |-> 0]

-----------------------------------------------------------------------------
(* One request in one worker.                                               *)

Goto(w, stage) == pc' = [pc EXCEPT ![w] = stage]

\* The worker is free again and its locals are gone.
Release(w) ==
    /\ Goto(w, "idle")
    /\ held' = [held EXCEPT ![w] = 0]
    /\ route' = [route EXCEPT ![w] = NoRoute]
    /\ prices' = [prices EXCEPT ![w] = 0]
    /\ UNCHANGED request

Send(w, p, m, r) ==
    answer' = [to |-> w, trip |-> r.trip, config |-> r.config,
               prices |-> p, route |-> m]

\* The view has validated the body and calls plan_optimized_trip.
Accept(w) ==
    /\ pc[w] = "idle"
    /\ \E r \in Requests : request' = [request EXCEPT ![w] = r]
    /\ Goto(w, "getPlan")
    /\ answer' = NoAnswer
    /\ UNCHANGED <<held, route, prices, caches>>

\* Faulty: whether it is there or not.
MissedAny(e) == TRUE

\* cache.get found nothing.
Missed(e) == e.ttl = 0

\* get_cached_optimization
PlanHit(w) ==
    LET plan == planCache[PlanKey(request[w])]
    IN  /\ pc[w] = "getPlan"
        /\ plan.ttl > 0
        /\ Send(w, plan.prices, plan.route, plan)
        /\ Release(w)
        /\ UNCHANGED caches

PlanMiss(w) ==
    /\ pc[w] = "getPlan"
    /\ Missed(planCache[PlanKey(request[w])])
    /\ Goto(w, "getRoute")
    /\ answer' = NoAnswer
    /\ UNCHANGED <<request, held, route, prices, caches>>

\* get_cached_route
RouteHit(w) ==
    LET entry == routeCache[request[w].trip]
    IN  /\ pc[w] = "getRoute"
        /\ entry.ttl > 0
        /\ route' = [route EXCEPT ![w] = [age |-> entry.age, usable |-> entry.usable]]
        /\ Goto(w, "reduce")
        /\ answer' = NoAnswer
        /\ UNCHANGED <<request, held, prices, caches>>

RouteMiss(w) ==
    /\ pc[w] = "getRoute"
    /\ Missed(routeCache[request[w].trip])
    /\ Goto(w, "fetch")
    /\ answer' = NoAnswer
    /\ UNCHANGED <<request, held, route, prices, caches>>

\* routing_provider.get_route returns.  A route between two places that are
\* the same is not usable: its line has one point.
Fetch(w) ==
    /\ pc[w] = "fetch"
    /\ \E u \in BOOLEAN :
          route' = [route EXCEPT ![w] = [age |-> 0, usable |-> u]]
    /\ Goto(w, "setRoute")
    /\ answer' = NoAnswer
    /\ UNCHANGED <<request, held, prices, caches>>

\* set_cached_route, before the route is decoded.
SetRoute(w) ==
    LET t == request[w].trip
    IN  /\ pc[w] = "setRoute"
        /\ routeCache' = [routeCache EXCEPT ![t] =
              [ttl |-> RouteTTL, age |-> route[w].age, usable |-> route[w].usable]]
        /\ refetched' = [refetched EXCEPT ![t] =
              IF routeCache[t].ttl > 0 THEN @ + 1 ELSE 0]
        /\ Goto(w, "reduce")
        /\ answer' = NoAnswer
        /\ UNCHANGED <<request, held, route, prices, planCache>>

\* decode_polyline, downsample_route, reduce_candidates (the one query that
\* reads the prices) and optimize.
Reduce(w) ==
    /\ pc[w] = "reduce"
    /\ route[w].usable
    /\ prices' = [prices EXCEPT ![w] = 0]
    /\ Goto(w, "setPlan")
    /\ answer' = NoAnswer
    /\ UNCHANGED <<request, held, route, caches>>

\* set_cached_optimization
SetPlan(w) ==
    LET r == request[w]
    IN  /\ pc[w] = "setPlan"
        /\ planCache' = [planCache EXCEPT ![PlanKey(r)] =
              [ttl |-> PlanTTL, prices |-> prices[w], route |-> route[w].age,
               trip |-> r.trip, config |-> r.config]]
        /\ Goto(w, "send")
        /\ answer' = NoAnswer
        /\ UNCHANGED <<request, held, route, prices, routeCache, refetched>>

\* The view's response.  A worker that dies first leaves a plan in the cache that
\* was sent to nobody.
Respond(w) ==
    /\ pc[w] = "send"
    /\ Send(w, prices[w], route[w].age, request[w])
    /\ Release(w)
    /\ UNCHANGED caches

\* An exception ends the request with an error response: the provider's, the
\* database's or the cache's, or (with "reduce") that of an unusable route.
Fail(w) ==
    /\ pc[w] # "idle"
    /\ Release(w)
    /\ answer' = NoAnswer
    /\ UNCHANGED caches

\* Faulty: gunicorn without a timeout.
TimedOutNever(w) == FALSE

TimedOut(w) == held[w] = WorkerTimeout

\* gunicorn kills a worker that has held a request for too long.
Kill(w) ==
    /\ pc[w] # "idle"
    /\ TimedOut(w)
    /\ Release(w)
    /\ answer' = NoAnswer
    /\ UNCHANGED caches

-----------------------------------------------------------------------------
(* Time and the cache server.                                               *)

\* Faulty: entries get older and never go.
AgedForever(e) == [e EXCEPT !.ttl = @ - 1, !.age = @ + 1]

\* Faulty: stored without a timeout.
AgedNever(e) == IF e.ttl = 0 THEN e ELSE [e EXCEPT !.age = @ + 1]

AgedRoute(e) ==
    IF e.ttl <= 1 THEN NoRouteEntry ELSE [e EXCEPT !.ttl = @ - 1, !.age = @ + 1]

AgedPlan(k, e) ==
    IF e.ttl <= 1 THEN NoPlan(k)
    ELSE [e EXCEPT !.ttl = @ - 1, !.prices = @ + 1, !.route = @ + 1]

HasRoute == {"setRoute", "reduce", "setPlan", "send"}
HasPlan == {"setPlan", "send"}

Tick ==
    /\ \A w \in Workers : held[w] < WorkerTimeout
    /\ held' = [w \in Workers |-> IF pc[w] = "idle" THEN 0 ELSE held[w] + 1]
    /\ route' = [w \in Workers |->
          IF pc[w] \in HasRoute THEN [route[w] EXCEPT !.age = @ + 1] ELSE route[w]]
    /\ prices' = [w \in Workers |->
          IF pc[w] \in HasPlan THEN prices[w] + 1 ELSE prices[w]]
    /\ routeCache' = [t \in Trips |-> AgedRoute(routeCache[t])]
    /\ planCache' = [r \in Requests |-> AgedPlan(r, planCache[r])]
    /\ refetched' = [t \in Trips |->
          IF routeCache[t].ttl <= 1 THEN 0 ELSE refetched[t]]
    /\ answer' = NoAnswer
    /\ UNCHANGED <<pc, request>>

\* Redis evicts an entry, or restarts without its data.
EvictRoute(t) ==
    /\ routeCache[t].ttl > 0
    /\ routeCache' = [routeCache EXCEPT ![t] = NoRouteEntry]
    /\ refetched' = [refetched EXCEPT ![t] = 0]
    /\ answer' = NoAnswer
    /\ UNCHANGED <<locals, planCache>>

EvictPlan(r) ==
    /\ planCache[r].ttl > 0
    /\ planCache' = [planCache EXCEPT ![r] = NoPlan(r)]
    /\ answer' = NoAnswer
    /\ UNCHANGED <<locals, routeCache, refetched>>

Serve(w) ==
    \/ PlanHit(w) \/ PlanMiss(w) \/ RouteHit(w) \/ RouteMiss(w)
    \/ SetRoute(w) \/ Reduce(w) \/ SetPlan(w) \/ Respond(w)

Next ==
    \/ \E w \in Workers : Accept(w) \/ Serve(w) \/ Fetch(w) \/ Fail(w) \/ Kill(w)
    \/ \E t \in Trips : EvictRoute(t)
    \/ \E r \in Requests : EvictPlan(r)
    \/ Tick

\* Time passes and gunicorn's arbiter keeps watch.  Nothing is assumed of the
\* provider, nor of the database and the cache server a worker waits for.
Spec ==
    /\ Init /\ [][Next]_vars
    /\ WF_vars(Tick)
    /\ \A w \in Workers : WF_vars(Kill(w))

-----------------------------------------------------------------------------

\* A plan is served from prices read less than PlanTTL and one request ago;
\* its route may be older than RouteTTL by a plan's lifetime and two requests,
\* because a plan is cached anew from a route that was about to expire.
PriceBound == PlanTTL + WorkerTimeout
RouteBound == RouteTTL + PlanTTL + 2 * WorkerTimeout - 1

\* The service the clients see.
Service == INSTANCE TripService
             WITH pending <- [w \in Workers |->
                     IF pc[w] = "idle" THEN {} ELSE {request[w]}]

\* Requests are answered with a plan for what they asked, from data that is
\* young enough (lines 57-121, through both caches).
ImplementsService == Service!Spec

\* The provider is asked for a route that is in the cache only by the workers
\* that missed it before it was stored: a stampede is one call per worker, and
\* no call at all once the entry is there.
StampedeBound == \A t \in Trips : refetched[t] <= Cardinality(Workers) - 1

\* A route that cannot be used, such as that from a place to itself, fails the
\* requests for its trip, for no longer than its entry lives and the requests that
\* read or fetched it last.
UnusableRoutesExpire ==
    \A w \in Workers :
        pc[w] = "reduce" /\ ~route[w].usable => route[w].age < RouteTTL + 2 * WorkerTimeout

\* Whatever the provider, the database and the cache do, a worker that took a
\* request is free again.
EveryRequestEnds == \A w \in Workers : pc[w] # "idle" ~> pc[w] = "idle"
=============================================================================
