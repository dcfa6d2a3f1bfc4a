------------------------------ MODULE TripApi ------------------------------
(***************************************************************************)
(* The two ends of POST /api/trips/optimize/: which requests get past the  *)
(* serializer (apps/api/serializers.py), and what custom_exception_handler *)
(* (apps/api/exceptions.py) tells a client of an exception.                *)
(***************************************************************************)
EXTENDS Integers

Places == {"origin", "destination"}

-----------------------------------------------------------------------------
(* TripOptimizationRequestSerializer                                        *)

\* The text of a place, by what is asked of it: its length when trimmed (0 if it
\* is missing), whether all its characters are allowed, and whether it is
\* "lat,lng", which needs no geocoding.
Texts == [length : {0, 1, 2, 255, 256}, allowed : BOOLEAN, point : {FALSE}]
            \cup [length : {3}, allowed : {TRUE}, point : {TRUE}]

\* "nan" is a float that neither validator finds beyond its limit.
NaN == -1

Bodies == [origin : Texts, destination : Texts,
           range : {49, 50, 2000, 2001, NaN}, mpg : {0, 1, 100, 101, NaN}]

ValidText(t) == 2 <= t.length /\ t.length <= 255 /\ t.allowed

Between(x, low, high) == x = NaN \/ (low <= x /\ x <= high)

Valid(b) ==
    /\ ValidText(b.origin) /\ ValidText(b.destination)
    /\ Between(b.range, 50, 2000)
    /\ Between(b.mpg, 1, 100)

\* What a request that gets past it may have as coordinates.
Located == {{p \in Places : b[p].point} : b \in {b \in Bodies : Valid(b)}}

-----------------------------------------------------------------------------
(* Exceptions and answers                                                   *)

\* Before the view's method runs: what the client accepts, its token, its rate;
\* in it, the body, which is no JSON, of another type, or not valid.
RestStatus == [NotAcceptable |-> 406, InvalidToken |-> 401, Throttled |-> 429,
               ParseError |-> 400, UnsupportedMediaType |-> 415]

Refusals == DOMAIN RestStatus \cup {"ValidationError"}

\* The codes of the classes the routing errors derive from.
DefaultCode ==
    [AlloRouteError |-> "internal_error", ExternalServiceError |-> "external_service_error",
     ServiceTimeoutError |-> "service_timeout", ResourceNotFoundError |-> "resource_not_found"]

\* Faulty: no code is given to the rate limit.
InheritedCode ==
    [RoutingError |-> DefaultCode.AlloRouteError, RouteNotFoundError |-> "route_not_found",
     ProviderUnavailableError |-> "provider_unavailable",
     ProviderTimeoutError |-> "provider_timeout",
     ProviderRateLimitError |-> DefaultCode.ExternalServiceError]

\* The code each routing error is made with; RoutingError itself is given none.
OwnCode ==
    [RoutingError |-> DefaultCode.AlloRouteError, RouteNotFoundError |-> "route_not_found",
     ProviderUnavailableError |-> "provider_unavailable",
     ProviderTimeoutError |-> "provider_timeout",
     ProviderRateLimitError |-> "provider_rate_limit"]

\* Their status, by what their name contains.
StatusByName(e) ==
    IF e = "RouteNotFoundError" THEN 404
    ELSE IF e = "ProviderTimeoutError" THEN 504
    ELSE IF e = "ProviderUnavailableError" THEN 503
    ELSE 400

\* The code of what the REST framework raises is its status, as a number.
StatusAgain == "the status"

Codes == {OwnCode[e] : e \in DOMAIN OwnCode}
           \cup {"validation_error", "internal_server_error", StatusAgain}

\* custom_exception_handler
StatusOf(e) ==
    IF e = "ValidationError" THEN 400
    ELSE IF e \in DOMAIN OwnCode THEN StatusByName(e)
    ELSE IF e \in DOMAIN RestStatus THEN RestStatus[e]
    ELSE 500

CodeOf(e) ==
    IF e = "ValidationError" THEN "validation_error"
    ELSE IF e \in DOMAIN OwnCode THEN OwnCode[e]
    ELSE IF e \in DOMAIN RestStatus THEN StatusAgain
    ELSE "internal_server_error"
=============================================================================
