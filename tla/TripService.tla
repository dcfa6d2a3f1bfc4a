---------------------------- MODULE TripService ----------------------------
(***************************************************************************)
(* What POST /api/v1/trips/optimize/ promises, whatever is cached behind   *)
(* it: each accepted request gets at most one answer, the answer is a plan *)
(* for the trip and the vehicle it asked about, and the prices and the     *)
(* route behind the plan are younger than a bound.  TripPlanner            *)
(* implements it.                                                          *)
(***************************************************************************)
EXTENDS Integers

CONSTANTS
    Workers,        \* processes that serve requests
    Trips,          \* (origin, destination) pairs
    Configs,        \* vehicles: range and miles per gallon
    PriceBound,     \* age below which prices may still be served
    RouteBound,     \* age below which a route may still be served
    NoAnswer        \* nothing was answered by the last step

VARIABLES
    pending,        \* the requests each worker is serving: none or one
    answer          \* [to, trip, config, prices, route], or NoAnswer

vars == <<pending, answer>>

Requests == [trip : Trips, config : Configs]

Init ==
    /\ pending = [w \in Workers |-> {}]
    /\ answer = NoAnswer

Accept(w) ==
    /\ pending[w] = {}
    /\ \E r \in Requests : pending' = [pending EXCEPT ![w] = {r}]
    /\ answer' = NoAnswer

\* A plan made for this request from data that is young enough.
Serve(w) ==
    /\ \E r \in pending[w], p \in 0..(PriceBound - 1), m \in 0..(RouteBound - 1) :
          answer' = [to |-> w, trip |-> r.trip, config |-> r.config,
                     prices |-> p, route |-> m]
    /\ pending' = [pending EXCEPT ![w] = {}]

\* An error response, or a worker killed before it answered.
Drop(w) ==
    /\ pending[w] # {}
    /\ pending' = [pending EXCEPT ![w] = {}]
    /\ answer' = NoAnswer

\* The answer is on its way and the service works on.
Quiet ==
    /\ answer' = NoAnswer
    /\ UNCHANGED pending

Next ==
    \/ \E w \in Workers : Accept(w) \/ Serve(w) \/ Drop(w)
    \/ Quiet

Spec == Init /\ [][Next]_vars
=============================================================================
