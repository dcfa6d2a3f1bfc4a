# AlloRoute: TLA+ models and proofs

AlloRoute answers `POST /api/v1/trips/optimize/` with a driving route and the fuel
stops along it. This directory models the program in TLA+, checks the models with
TLC on small instances and proves theorems about each of them with TLAPS, for all
instances. `PROJECT.json` names, for every definition, the lines it stands for.

## The system

| component | state | operations | talks to |
|---|---|---|---|
| Idempotency middleware | entries in the shared cache, by key, path and body | lookup before the view, store after it | cache, view |
| View and `TripPlannerService` | none of their own; a new planner for every request | validate, plan, answer | caches, provider, reduction, optimizer |
| `CacheService` | route cache (3600 s) and plan cache (1800 s), shared by three gunicorn workers | get, set | Redis |
| `OpenRouteServiceProvider` | HTTP session with retries, circuit breaker; both as old as the request | geocode twice, directions once | ORS |
| `GeometryService`, repository, `CandidateReductionService` | locals | sample checkpoints, find stations in the corridor, keep the cheapest of each segment | station table |
| `FuelOptimizerService` | locals | choose stops greedily, price the plan | nothing |
| Ingest commands | the station table | `sync_fuel_prices`, `import_all_usa_fuel`, `import_fuel_prices` | CollectAPI, CSV files |
| Serializers and exception handler | none | validate a request, answer an exception | view, DRF |
| Users, profiles and tokens | user and profile tables, refresh tokens and their blacklist | create, change a role, log in, refresh, permit | every save of a user |
| Counting of the throttles, logging, web page, an unused Celery task | see `PROJECT.json` | | |

A request passes through the middleware, the view and the planner, in one worker from
beginning to end. Workers share only what is in Redis and PostgreSQL. What is hard:

* several workers between a cache lookup and the store that follows it, with
  expiry, eviction and killed workers in between;
* lifetimes that add up, since a plan made from a cached route is cached, and a
  response made from a cached plan is stored for replay;
* retries, timeouts and sleeps under each of the provider's three calls, and a worker
  timeout above them;
* a greedy choice, made over candidates that were moved to checkpoints and thinned out;
* ingest commands that write row by row, beside each other, under ids that depend on
  the process;
* logins and refreshes made of several statements without a transaction around them,
  beside role changes and beside each other.

## The modules

| module | models | checked by |
|---|---|---|
| `FuelPlan` | what a plan promises the driver, whatever the algorithm | (refined by `FuelOptimizer`, used by `Corridor`) |
| `FuelOptimizer` | `services/fuel/optimizer.py` | `MCFuelOptimizer` |
| `FuelOptimizer_proofs` | theorems about it | tlapm |
| `Corridor` | `services/routing/geometry.py`, the repository's corridor query, `services/fuel/candidate_reduction.py` | `MCCorridor`, through `RoadPlan` |
| `Corridor_proofs` | theorems about it | tlapm |
| `RoadPlan` | `plan_optimized_trip` behind its caches: `Corridor` and `FuelOptimizer` composed | `MCCorridor` |
| `RoadPlan_proofs` | theorems about it, with those of `Corridor` and `FuelOptimizer` | tlapm |
| `TripApi` | `apps/api/serializers.py`, `apps/api/exceptions.py`, the exceptions | `MCOrsProvider`, through `OrsProvider` |
| `OrsProvider` | `services/routing/providers/ors_provider.py`, requests before and after it | `MCOrsProvider` |
| `OrsProvider_proofs` | theorems about it | tlapm |
| `TripService` | what the endpoint promises its clients | (refined by `TripPlanner`) |
| `TripPlanner` | `services/trips/trip_planner.py`, `infrastructure/performance/cache_service.py`, the workers | `MCTripPlanner` |
| `TripPlanner_proofs` | theorems about it | tlapm |
| `Idempotency` | `infrastructure/performance/middleware.py` | `MCIdempotency` |
| `Idempotency_proofs` | theorems about it | tlapm |
| `FuelSync` | the three commands of `apps/fuel/management/commands/` | `MCFuelSync` |
| `FuelSync_proofs` | theorems about it | tlapm |
| `Accounts` | `apps/common/models.py`, `apps/common/roles.py`, `apps/api/auth_*.py`, `apps/api/permissions.py` | `MCAccounts` |
| `Accounts_proofs` | theorems about it | tlapm |

An `MC` module only gives the constants values. Definitions marked *Faulty* are
plausible bugs of the definition after them; with a faulty definition in place, the
property named beside it in `PROJECT.json` ("mutants") fails.

### FuelPlan and FuelOptimizer

The state is the locals of `optimize` (`current` is `current_distance`, `remaining` is
`remaining_range`, `stops` is `fuel_stops`, `cost` is `total_cost`) and its arguments.
`ReturnWithoutStops` is the early return, `Refuel` one turn of the loop,
`GiveUp` its `break`, `Finish` its end. Distances are whole miles, and money is counted
in units of one price unit per mile of fuel, so that every product is an integer.
`round(x, 2)` is a nearest multiple of a cent, either one at a tie.

*FuelPlan* has the position of the last stop and an outcome. Its one idea is `Feasible`:
some set of stations lets the car go on from the start and from each of them. A plan
may be `Strand`ed only if the trip is not feasible. `FuelOptimizer!Plan` is the
refinement mapping; `ImplementsPlan` says that the optimizer implements it and returns.

Four invariants say what the plan is worth: `LegsWithinRange` (legs, fuel and order),
`NoRegret` (no stop dearer than a later one that was within reach), `StrandedIffInfeasible`
(the plan arrives exactly when some choice of stops would) and `ShownCostsAddUp` (the error
of rounding stops and total apart).

Bounds: lengths 0, 3, 6, 7, ranges 2 to 4 and every subset of ten stations at five
places with two prices. They include no stop, one to three stops, ties in price and
place, a station at the start, one at the exact end of the range and trips that cannot be made.

Two runs show what the docstring and the README claim and the code does not do:
`fuel_dry_tank` (a plan that does not arrive is returned like one that does) and
`fuel_cheapest` (the tank is always filled up, so a cheaper later stop is wasted; the
comparison is with fuellings that arrive with as much fuel left).

### Corridor

A road is a line: a point is its mile. `Sample`, `Pass` and `SampleEnd` are the
sampling loop, `Search` the corridor query and the assignment of stations to
checkpoints, `FilterSegment` one segment of the reduction. Stations alike in price and
place come in any order, as the database returns them.

`ReductionCostsTwoSegments` is the one property that ties the reduction to its purpose:
a trip feasible with all stations found is feasible with those kept for
a vehicle whose range is less than two segments longer. With the 50 miles of the code
that is a hundred miles, so for the smallest vehicle accepted (50 miles) the reduction
can strand a trip that the stations allow. The bound is tight: with one mile less TLC
finds a counterexample on the long route of `MCRoutes`. `OnlyPointsFail`
isolates the one failure, a route between two equal places, whose `LineString` has one point.

### RoadPlan

`RoadPlan` goes on where the reduction ends: `Optimize` hands the kept stations, at the miles of
their checkpoints, to an instance of `FuelOptimizer` with a vehicle and with the length *ORS*
gives for the route, which need not be that of the polyline (`Mismatches`). The optimizer's own
properties are about the miles it was given. The three of `RoadPlan` are about the road:
`RoadLegsAreBounded` says by how much a leg of a plan may exceed the vehicle's range when it is
driven to where the stations really are (two shifts to the checkpoints, and what ORS's length leaves out),
`GivesUpOnlyWithoutMargin` that a trip that the kept stations would make with that much range to spare is not given up.
`NoTripIsLost` goes from one end to the other: whoever plans with the stations *found*, where they really are, and with two
segments, two shifts and ORS's excess length to spare, has a way whenever a plan is given up. The three margins are those of
three components, and no test of one would show that they only add up.
The margin of the shifts is real: with the code's radius of 10 miles and checkpoints up to 20 miles apart it is 20 miles, of
the 50 that the smallest vehicle accepted has.

Bounds of both: interval 2, segment 4, limit 1, radius 1; every route of five points at most three
miles apart, in which steps shorter and longer than the interval mix, two long routes, and stations before,
on and between checkpoints; ORS's length right or a mile wrong either way; vehicles that need stops with and without
the margin, and one (12 miles) whose range is more than all three margins together. One thread runs the pipeline, so `WF` of its next step is all the fairness it needs.

### TripApi and OrsProvider

`TripApi` has no state: `Valid` says which bodies the serializer lets through and `Located` which
of their places may be coordinates; `StatusOf` and `CodeOf` are `custom_exception_handler`, over the
exceptions of the provider, of DRF and any other. `OrsProvider` uses both: a request is refused
(`Refuse`: by its token, its rate, its body), meets a failure of the service's own database or cache
(`BreakDown`) or starts to be planned (`Start`).

`stage` is the call that is made. Each attempt ends in one of the `Outcomes`; `Retry`, `Raise`
and `Geocoded` or `Routed` are what follows. urllib3 repeats a request that was never
sent, and other failures of GET only: the directions POST is not repeated once it reached
ORS. A response that is broken off (`BrokenOff`) is repeated for neither: requests reads the body when urllib3 is done,
and no timeout is that of the whole body. An attempt takes `Timeout` seconds or none, `Backoff` and `Retry-After` are slept,
and `Kill` is gunicorn's timeout. `ExceptionOf` gives the exception of
every outcome. `Geometries` are the forms a route's geometry may have, `Normalizes` those that become a
polyline, `Decodes` and `IsLine` those that planning can use: the others pass through the provider as a success and end in a 500,
a perfectly good route from a place to itself (`"noLength"`) among them.

`OneRouteCall` is the docstring's one route API call, `ErrorsTellTheCause` relates
the status to what ORS did: 404 is an empty answer of ORS and nothing else, 503 and 504 are ORS failing, and 500 never is,
but an odd reply, a route planning cannot use, or a failure of the service's own before ORS was asked or after its route had come.
Before a route is asked for, 503 comes after every retry, unless what failed is not retried. `CodesTellTheCause` says what status and code together tell: the status 400 alone
covers the client's mistake, ORS's rate limit and a route that cannot be read.
`EveryRequestEnds` needs both timeouts. `BreakerStaysClosed` and the
violation `ors_fail_fast` are two sides of one fact: the breaker is made anew for each request.

Bounds: the code's own numbers (10 s, 30 s, 3 retries, `fail_max` 3), a `Retry-After` within
and one beyond the worker's timeout. `burst`, the failed calls in a row, is capped at `FailMax`.
Fairness: `WF(Step)`. Every attempt has a timeout, every sleep ends, and `Kill` ends what does not.

### TripService and TripPlanner

Each worker runs `plan_optimized_trip` step by step: `PlanHit` or `PlanMiss`, `RouteHit` or
`RouteMiss`, `Fetch`, `SetRoute`, `Reduce`, `SetPlan`, `Respond`. A `Fail` or `Kill` may come at any point, the last between
the plan's store and the response, which leaves a plan in the cache that was sent to nobody.
Data is its age: a route carries the ticks since ORS sent it, a plan those since
its prices were read. Cache entries carry a time to live; `Tick` is time, `EvictRoute` and `EvictPlan`
are Redis's eviction and restarts.

*TripService* promises that an answer is a plan for the request, from prices younger
than `PriceBound` and a route younger than `RouteBound`. `ImplementsService` shows that
the planner keeps it, with `PriceBound = PlanTTL + WorkerTimeout` and
`RouteBound = RouteTTL + PlanTTL + 2 * WorkerTimeout - 1`: with the code's numbers, prices may
be half an hour old and routes an hour and a half. The bounds are tight: with one tick less TLC
finds a counterexample. `StampedeBound` counts how often a live route entry is stored over:
at most once for every other worker. `UnusableRoutesExpire` bounds how long a route that was cached
before it was looked at fails its trip.

Bounds: two workers, one trip, two vehicles, lifetimes 2 and 1, worker timeout 1. Ages and counters
are bounded by the lifetimes, not by a constraint. Fairness: `WF(Tick)` and `WF(Kill)` only:
time passes and gunicorn watches; nothing is assumed of ORS, the database or Redis.

### Idempotency

The view is the trip service, seen from outside: it answers 200 with some content, whose
data has an age below `ViewBound`, or anything else. `RepliesAreFresh` adds the
third lifetime to the planner's two. `EntriesSettle` says what the store is good for although
lookup and store are apart: while an entry lives no new execution starts, and when those that raced
for it are over it changes no more. `idempotent_retry` is the race itself; its instance leaves out
large responses, which are never stored.

Bounds: two workers, one key (and requests without), two bodies, three contents of which one
is too large, lifetime 2, worker timeout 1, view bound 2.

### FuelSync

A process runs a command (`job`) over the states it has `todo`; `batch` is the list or file it writes,
`written` how far it is. Each `Write` is one `update_or_create`. `hash` is the process's salted hash,
one of `Hashes`. `before`, for the properties only, is the table as the process found it,
without the rows others have written since.

`TableFollowsTheBatch` says what the table holds at any point of any interleaving: for every id that no other
command has written meanwhile a good line of the batch so far, and what was there before only if there is none. For a sync it is
the last such line, two cities with one hash included. Which of the duplicates in a *file* stays is left open: code and test disagree (see Findings).
`OneRowPerCityAndSalt` bounds the rows that syncs leave behind.
`fuel_sync_atomic` shows that a failed batch stays half written.

Bounds: two processes, two states, two cities and a made-up one, one file with a duplicate and a bad line,
three ids, two salts of which one collides. Fairness: `WF(Run(p))`, since requests have a timeout and the rest is local.

### Accounts

A process creates a user (`Register`, `CreateProfile`, `FinishSave`: the row, its profile, and the second
signal handler's save), edits one (`EditUser`, `FinishSave`: the admin that `config/urls.py` mounts, a shell or a change of password, all
of which save a `User` and so the profile it holds), logs in (`Login` reads the profile into the user object, `FinishLogin` saves it
again with `last_login` and issues a token) or refreshes (`Check`, `Blacklist`, `Rotate`). Each is one statement, since
nothing puts a transaction around a request. `Assign` is the change of a role as the tests do it, and as
an operator does. `Die` ends a process between any two of them. `assigned`, `given`,
`clean`, `current`, `exchanges` and `interrupted` only serve the properties.

`QuietAssignmentsStick` says exactly when a role change is safe: `save_user_profile` writes an old role
back, but only in a save (of a login, an edit or a creation) that had read it before the change and was not done.
`ClaimsAreCurrent` says when a token's claim, which every rotation copies, may be outdated: a role was given after its login had read the
profile, or the last one was given in the middle of a save (`current` keeps the logins and tokens that are neither). `RolesWereGiven` bounds
what the profile, the permissions and the tokens may name, after any number of rotations. `RotationBound`
counts the exchanges of one refresh token: not one, since the blacklist is read and written apart,
but at most one for each process. `HalfDoneOnlyByDeath` says
who may be refused by `IsBasicUser`, which "allows access to all registered users", and which token may be used up without a successor.

Bounds: two processes, one user, four tokens. Users share no state: what one process does with one user
touches no other's profile or tokens, so a second user adds no case. Two processes make every
overlap of two saves of the user, or of two refreshes, with `Assign` at any point, and tokens suffice for two rotations of each login.

## What is proved

`FuelOptimizer_proofs` proves for every set of stations, every length and every range, from
`InputAssumption` alone (natural numbers, a positive range and cent):

* `Invariance`: `Spec => []IInv`, the inductive invariant. The properties are not inductive by themselves:
  `IInv` adds that `remaining` is the range whenever the loop is at its head, that `current` and `lastStop`
  are the position of the last stop, that each stop was the cheapest of what could be reached from the one before it, and that
  a plan given up had nothing in reach.
* `TypeCorrect`, `LegsSafe`, `GreedyHasNoRegret`: type, legs and order of prices.
* `GreedyIsComplete`: a plan arrives if and only if the trip is feasible. Its own stops are a choice that makes it (`StopsMakeTheTrip`);
  and if it is given up there is none: from `P`, the stations of a supposed solution, take the last that is not
  beyond the last stop (`LastPosition`); the one `P` offers next is within reach of the last stop too, but nothing was.
* `OptimizerImplementsPlan`: every behaviour is one of `FuelPlan!Spec`, the safety part of `ImplementsPlan`.
* `CostsAddUp`: the costs shown. `CostsShown`, inductive beside `IInv`, keeps twice the difference of the costs shown so far and the unrounded
  sum within a cent for each stop; rounding the total adds the last. `ShownSum` is a recursive function, defined by
  a CHOOSE: `SumExists` shows that there is one to choose, by the first length at which there would be none, since the library's
  induction cannot be used here.
* `CallCountsDown` and `CallGoesOn`: the miles left go down with every step, and a call that is not done has one to take.

`Corridor_proofs` proves, from `CorridorAssumption` (routes in order from mile 0, a finite table, positive interval, segment and limit):

* `Invariance`: `IInv` adds to the types where the sampling loop stands (`SampleInv`: the points already passed are less than an interval
  beyond the last checkpoint, those to come are not before it; without the first half a gap could be passed over), that
  stations are assigned once and from checkpoints that stay (`FoundInv`), and that each segment done has kept a station (`KeptInv`).
* `TypeCorrect`, `PointsFail`, `CheckpointsSpan`: type and the sampling's properties.
* `InPlace`: a station lies between two checkpoints (`Around`), and the nearest is no further than either of them.
* `ReductionIsBounded`: given a way along the candidates, the kept stations of its segments are a way for two segments more: from any of them the
  last place of the way up to the end of its segment leads on to another segment, which has kept a station too.
* `TurnsCountDown` and `GoesOn`: points, stations and segments left go down with every step, and until the end there is a first segment
  that has its best stations, found one by one (`BestExists`), for every limit.

`RoadPlan_proofs` takes the inductive invariants of `Corridor` and `FuelOptimizer` together, from `RoadPlanAssumption` and `CorridorAssumption`:
`PlanIInv` says that the optimizer is called once, after the reduction, so both invariants hold throughout `PlanSpec`, and adds that stations found are within the radius (`NearTheRoad`), from which
`Shifted` bounds how far each is from its checkpoint, before the start and past the end too. Then

* `RoadLegs` adds up the two shifts of each leg and what ORS's length leaves out;
* `GivesUpRightly` takes, from a supposed way along the road, the last station not beyond the last stop: the next one
  would have been offered within the range.
* `LosesNoTrip` goes straight from the stations found to the plan: of a supposed way along them, take the last place whose station is in
  no later segment than the last stop. The next place is in a later one; its segment has kept a station, beyond the last stop, and the two
  shifts, the two segments and the excess length are what may separate it from the end of the range. But nothing was within it.

`Idempotency_proofs` proves, from `IdempotencyAssumption` alone (natural lifetimes, at least one body; any number
of workers, keys and contents, finite or not):

* `Invariance`: `IInv` adds to the types what a worker carries (`WorkerInv`: a response on its way to the store is one to
  the worker's own request, and has aged only while the request was held) and what an entry holds (`StoreInv`: the response
  to its request, whose age and time to live *together* stay below `ViewBound + WorkerTimeout + Lifetime`). Neither
  property of the replies is inductive without them: a reply is read from an entry another worker stored long before.
* `TypeCorrect`, `RepliesBelong`, `RepliesFresh`: type, and the two properties of what is sent.
* `Settles`: the action property `EntriesSettle`. A step that would let a request into the view has just found no entry for it.

`TripPlanner_proofs` proves, from `TripPlannerAssumption` (positive lifetimes, finitely many workers, at least one of
each kind):

* `Invariance`: `IInv` relates age and time of everything that ages: a fetched route's age to how long the request has been
  held (`WorkerInv`), and the age of a live entry to its time to live (`RouteInv`, `PlanInv`, which also says that an entry
  is that of its own request). The sums are what every tick keeps; `RouteBound`'s two worker timeouts come from the request
  that fetched the route and the one that read it from the cache.
* `TypeCorrect`, `UnusableExpire`: type, and for how long a useless route is used.
* `PlannerImplementsService`: every behaviour is one of `TripService`, the property `ImplementsService`. Hits and stores map
  to `Serve`, failures and kills to `Drop`, all else to `Quiet`.
* `StampedeIsBounded`: from `StampedeInv`, which counts the workers still fetching a live route together with the
  stores that have already gone over it.

`OrsProvider_proofs` proves, from `OrsAssumption` (natural timeouts, retries and pauses):

* `OneCall`, `BreakerNeverOpens`, `CausesAreTold` and `CodesAreTold`, from an
  invariant that says that a request under way has sent no directions yet, has a new breaker and no answer (`RequestInv`), and lemmas that follow
  each outcome and each refusal to its status and code.
* `TypeCorrect`, in two halves, what is counted and what is named. What is slept sums powers of two (`Power`), which exist and are naturals
  by the first exponent at which they would not be.
* `AttemptsCountDown`: attempts left in this call and in those to come go down with every step of a request.

`Accounts_proofs` proves, from `AccountsAssumption` (finitely many processes, users that are no tokens):

* `Invariance`: `IInv` adds that profiles belong to registered users, that one process at most creates each, and that a token being refreshed was issued (`RowInv`), that a process holding
  a profile of a `clean` user holds the row as it is (`QuietInv`: without it a save could not be told from a change), that
  held roles were given (`GivenInv`), and which step a half-done creation or refresh is at (`DeathInv`).
* `TypeCorrect`, `QuietAssignments`, `ClaimsTold`, `RolesGiven`, `HalfDone`: type and four of the properties.
* `ClaimsTold`, from `CurrentInv` beside `IInv`: a `current` login holds the role given last or none, and a `current` token names it. It rests
  on `QuietInv`: the login read the row when the row was right.
* `RotationIsBounded`: a token not yet in the blacklist was never exchanged; afterwards its exchanges and the processes still
  in the middle of one together are at most all processes.

`FuelSync_proofs` proves, from `FuelSyncAssumption` (a list of states, answers made of cities, salts that give cities ids):

* `Invariance`: `IInv` is `TypeOK`, `RowsFollow`, which says what the code does with every batch (the last good line so far stays) and from which
`TableFollowsTheBatch` follows, and `RowsInv`: each row of a city, in the table *or
  still to be written*, is where the salt of some sync puts it. A row written now comes from a batch made long before.
* `TypeCorrect`, `TableFollows`: type, and what the table holds at any point of any interleaving.
* `OneRow`: the rows of a city are among the places of the salts, so no more than these.
* `CommandsAdvance`: a step leaves a command where it is, or takes it on: to its end, to fewer states, from asking to writing, or to fewer lines,
  whatever the other commands do.

So every invariant and every action property that a run checks is proved. What stays with TLC is liveness, which needs fairness and
`ENABLED`: the second half of `ImplementsPlan` (`Completes`), `Terminates`, the two `EveryRequestEnds` and `EveryCommandEnds`. The theorems that
count down are the part of it that needs neither: with a measure that no step raises, all that is left to fairness is that a step is taken.
For the planner there is none to prove: its requests end because time passes and gunicorn watches.

## Findings

Each is shown by a run that expects a violation and quoted in `PROJECT.json`.

1. A plan that strands the vehicle is returned like any other (`fuel_dry_tank`).
2. A plan is not the cheapest (`fuel_cheapest`).
3. The circuit breaker never opens (`ors_fail_fast`).
4. Overlapping sends with one idempotency key get different responses (`idempotent_retry`).
5. Ingestion is not atomic (`fuel_sync_atomic`).

One more disagreement shows in a single call, between a test's assertions and one line of code, and has no run:

6. `apps/fuel/tests.py:89` says "duplicate IDs are handled (ignored due to ignore_conflicts)", and lines 99-102 assert the values of the
   first of two lines with one id. `import_fuel_prices.py:30` calls `update_or_create` for each line, so the *last* stays and these
   assertions do not hold of it (found by reading: the test needs PostGIS). Which of the two is meant is the team's to decide. `TableFollowsTheBatch` holds for either and so takes no side; the model's `Store` does what the code does, and
   the proof's `RowsFollow` says so.

Met on the way, without a run:

* The unit test `tests/test_optimizer_unit.py:61` expects a cost of 0 for a trip
  without stations, which is priced at the average.
* An ORS rate limit is answered with 400, or with 503 during geocoding; the statuses 404, 503 and 504 are not in the
  view's schema; a place of coordinates that exist nowhere is answered with 503, like an outage.
* `FloatField` takes "nan", which neither validator of a range finds beyond its limit (`Between`).
* `DEFAULT_EXCEPTION_HANDLER` (`config/settings/base.py:125`) is not a setting of DRF, whose key is `EXCEPTION_HANDLER`: the handler
  serves the views that override `get_exception_handler`. `tests/test_observability.py` expects its code to be a number
  where it is `"validation_error"`.
* `apps/api/permissions.py:15` reads a "Role from JWT token" that nothing sets: the database always decides. A token names the
  role of its login through every rotation. A user without a profile is told "basic" at login and refused as basic.
* The comment at `candidate_reduction.py:88` speaks of the vehicle's range, the segment is always 50 miles.

## Plan

The modules of the first plan are written and their safety properties proved. What would add most from here:

1. `OrsProvider` over several requests at once, should the code ever share its breaker and session between requests: the
   breaker then counts, opens and half-opens, and `BreakerStaysClosed` no longer holds.
2. The counting of DRF's throttles, which reads and writes its history in the cache in two steps.

## Not modelled

The arithmetic of haversine and of floats other than `round`, what DRF's throttles count, the signatures and expiry of
JWT, the layout of responses, logging, the web page and the unused Celery task and request table; the reasons are in `PROJECT.json`. Off-road distances are in the model only
as stations within the corridor; a road that bends back on itself, where the nearest checkpoint may be on another part
of the road, is not in it.

## Running

    tlc -workers 2 -config MCFuelOptimizer.cfg MCFuelOptimizer
    tlapm Accounts_proofs.tla
    tlapm Corridor_proofs.tla
    tlapm FuelOptimizer_proofs.tla
    tlapm Idempotency_proofs.tla
    tlapm FuelSync_proofs.tla
    tlapm OrsProvider_proofs.tla
    tlapm RoadPlan_proofs.tla
    tlapm TripPlanner_proofs.tla
