---------------------------- MODULE OrsProvider ----------------------------
(***************************************************************************)
(* OpenRouteServiceProvider.get_route: geocode the origin, geocode the     *)
(* destination, ask for directions through a circuit breaker, with         *)
(* urllib3's retries under every call.  One gunicorn worker serves one     *)
(* request after the other, each with a provider of its own (the view      *)
(* builds a TripPlannerService per request), and is killed when a request  *)
(* takes longer than WorkerTimeout.                                        *)
(*                                                                         *)
(* ORS is the environment: any attempt may end in any of the Outcomes.     *)
(* Time is counted in seconds; an attempt that times out takes Timeout of  *)
(* them, any other outcome comes at once, and what a retry sleeps is       *)
(* counted.                                                                *)
(*                                                                         *)
(* TripApi says which requests get here and what an exception is answered  *)
(* with.  What planning does with the route is TripPlanner's: here it only *)
(* works, finds that the geometry is none or no line, or is stopped by the *)
(* service's own database or cache.                                        *)
(***************************************************************************)
EXTENDS TripApi

CONSTANTS
    Timeout,        \* of an attempt: 10 s
    WorkerTimeout,  \* gunicorn's --timeout: 30 s by default
    RetryTotal,     \* Retry(total=3)
    RetryAfters,    \* what ORS may send as Retry-After, with a 429 or 503
    FailMax         \* CircuitBreaker(fail_max=3)

ASSUME OrsAssumption ==
    /\ Timeout \in Nat \ {0}
    /\ WorkerTimeout \in Nat
    /\ RetryTotal \in Nat
    /\ RetryAfters \subseteq Nat
    /\ FailMax \in Nat /\ FailMax > 1

VARIABLES
    stage,      \* the call being made, or "idle" between two requests
    located,    \* the places given as "lat,lng", which need no geocoding
    failures,   \* failed attempts of the current call: urllib3's history
    elapsed,    \* seconds since the worker took the request
    breaker,    \* fail_counter of the provider's circuit breaker
    answer,     \* HTTP status of the request answered last, Lost, or 0
    code,       \* the error code of that answer, or ""
    last,       \* how the last attempt ended
    posts,      \* directions POSTs of this request that reached ORS
    burst       \* route calls in a row that failed, without a pause

vars == <<stage, located, failures, elapsed, breaker, answer, code, last, posts, burst>>

Calls == Places \cup {"directions"}

\* How an attempt ends.  A place or route is found; "noLength" is a route between
\* two places at one spot, "unusable" one whose geometry cannot be decoded; "empty"
\* is a place without features and, for directions, a 404; "malformed" an object
\* that lacks what is read from it, "notAnObject" JSON of another type.
Found == {"found", "noLength", "unusable"}
OddReplies == {"malformed", "notAnObject"}

\* The rest is ORS failing: "garbled" is no JSON at all, "4xx" any other client
\* error, "readTimeout" and "dropped" come before the head of a response is there,
\* and a response is broken off while its body is read.
NothingSent == {"connectTimeout", "refused"}
ForcedStatus == {"429", "5xx"}
BrokenOff == {"bodyTimeout", "bodyDropped"}
Outages ==
    {"garbled", "4xx", "readTimeout", "dropped"}
      \cup NothingSent \cup ForcedStatus \cup BrokenOff

Outcomes == Found \cup {"empty"} \cup OddReplies \cup Outages

Statuses == {200, 400, 401, 404, 406, 415, 429, 500, 503, 504}
Lost == 502     \* the worker was killed: what the proxy answers for it

TypeOK ==
    /\ stage \in Calls \cup {"idle"}
    /\ located \subseteq Places
    /\ failures \in 0..RetryTotal
    /\ elapsed \in 0..WorkerTimeout
    /\ breaker \in Nat
    /\ answer \in Statuses \cup {Lost, 0}
    /\ code \in Codes \cup {""}
    /\ last \in Outcomes \cup {"none"}
    /\ posts \in Nat
    /\ burst \in 0..FailMax

\* Faulty: POST is retried like GET (allowed_methods=None).
RetryableAny(call) == NothingSent \cup {"readTimeout", "dropped"} \cup ForcedStatus

\* urllib3 retries a request that was never sent, and what failed later only
\* of the methods it knows to be idempotent: POST is not one of them.  It is done
\* when it has the head of a response: requests reads the body, without retries.
Retryable(call) ==
    IF call = "directions" THEN NothingSent
    ELSE NothingSent \cup {"readTimeout", "dropped"} \cup ForcedStatus

Duration(o) ==
    IF o \in {"connectTimeout", "readTimeout", "bodyTimeout"} THEN Timeout ELSE 0

\* Powers of two.
Power[n \in 0..RetryTotal] == IF n = 0 THEN 1 ELSE 2 * Power[n - 1]

\* backoff_factor 1: nothing before the first retry, then 2 s, 4 s, ...
Backoff(n) == IF n = 1 THEN 0 ELSE Power[n - 1]

\* What is slept after the n-th failure, o: Retry-After goes before backoff.
Pauses(n, o) ==
    {Backoff(n)} \cup (IF o \in ForcedStatus THEN RetryAfters ELSE {})

\* The exception get_route raises for a call that ends in o, its retries spent.
\* An exhausted status is a RetryError, an exhausted read timeout and one of the
\* body a ConnectionError: none is a Timeout, nor an HTTPError with a status.
ExceptionOf(call, o) ==
    CASE o = "empty" -> "RouteNotFoundError"
      [] o = "connectTimeout" -> "ProviderTimeoutError"
      [] o = "readTimeout" /\ call = "directions" -> "ProviderTimeoutError"
      [] o = "429" /\ call = "directions" -> "ProviderRateLimitError"
      [] o = "malformed" /\ call = "directions" -> "RoutingError"
      [] o = "malformed" /\ call \in Places -> "KeyError"
      [] o = "notAnObject" -> "AttributeError"
      [] OTHER -> "ProviderUnavailableError"

Init ==
    /\ stage = "idle"
    /\ located = {}
    /\ failures = 0
    /\ elapsed = 0
    /\ breaker = 0
    /\ answer = 0
    /\ code = ""
    /\ last = "none"
    /\ posts = 0
    /\ burst = 0

-----------------------------------------------------------------------------

\* Faulty: one provider for the life of the worker.
SharedProvider == UNCHANGED breaker

\* A request arrives; its provider is new, and so are its session and breaker.
NewProvider == breaker' = 0

Arrive ==
    /\ stage = "idle"
    /\ NewProvider
    /\ failures' = 0 /\ elapsed' = 0 /\ posts' = 0
    /\ last' = "none"
    /\ UNCHANGED burst

\* custom_exception_handler, for an exception of the request.
AnswerError(e) == answer' = StatusOf(e) /\ code' = CodeOf(e)

\* Nothing of a request that is refused has an effect.
Refuse ==
    /\ Arrive
    /\ \E e \in Refusals : AnswerError(e)
    /\ located' = {}
    /\ UNCHANGED stage

\* What the service's own database and cache raise.
OwnFailures == {"OperationalError", "ConnectionInterrupted"}

\* One of them fails before ORS is asked: the throttle and the planner look into
\* the cache first, authentication into the database.
BreakDown ==
    /\ Arrive
    /\ \E e \in OwnFailures : AnswerError(e)
    /\ located' = {}
    /\ UNCHANGED stage

Start ==
    /\ Arrive
    /\ stage' = "origin"
    /\ located' \in Located
    /\ answer' = 0 /\ code' = ""

\* Nothing is asked of the worker for the breaker's reset_timeout.
Pause ==
    /\ stage = "idle"
    /\ burst > 0
    /\ burst' = 0
    /\ UNCHANGED <<stage, located, failures, elapsed, breaker, answer, code, last, posts>>

NextCall(call) == IF call = "origin" THEN "destination" ELSE "directions"

\* "lat,lng" is parsed, without a request.
Parse ==
    /\ stage \in located
    /\ stage' = NextCall(stage)
    /\ UNCHANGED <<located, failures, elapsed, breaker, answer, code, last, posts, burst>>

Worse(n) == IF n < FailMax THEN n + 1 ELSE n

\* The call made next goes over the network; directions only while the
\* breaker is closed.
Calling ==
    /\ stage \in Calls \ located
    /\ stage = "directions" => breaker < FailMax

\* Faulty: nothing watches how long the worker is busy.
AnyTime(t) == TRUE

InTime(t) == t <= WorkerTimeout

\* An attempt that ends in o, after pause seconds asleep if it is retried.
Attempt(o, pause) ==
    /\ InTime(elapsed + Duration(o) + pause)
    /\ elapsed' = elapsed + Duration(o) + pause
    /\ last' = o
    /\ posts' = IF stage = "directions" /\ o \notin NothingSent THEN posts + 1 ELSE posts
    /\ UNCHANGED located

\* Faulty: one retry too few.
SpentEarly(o) == o \notin Retryable(stage) \/ failures + 1 >= RetryTotal

\* Nothing is left to try after an attempt that ends in o.
Spent(o) == o \notin Retryable(stage) \/ failures = RetryTotal

\* Both places are known: the next call is made.
Geocoded ==
    /\ Calling
    /\ stage \in Places
    /\ Attempt("found", 0)
    /\ stage' = NextCall(stage)
    /\ failures' = 0
    /\ UNCHANGED <<breaker, answer, code, burst>>

\* The geometry of a route: an encoded polyline that decodes to a line, or to one
\* spot, or does not decode; a LineString or a bare list, of positions that may
\* not be numbers, or too short to be positions, or one; none; or something else.
Geometries ==
    [form : {"encoded"}, points : {"many", "one", "none", "garbled"}]
      \cup [form : {"LineString", "list"}, points : {"many", "one", "none", "garbled", "short"}]
      \cup [form : {"other"}, points : {"none"}]

\* _normalize_ors_geometry finds a polyline: it fails for positions that are not
\* numbers, and what has none is empty.  A string is taken as it is.
Normalizes(g) ==
    \/ g.form = "encoded" /\ g.points # "none"
    \/ g.form \in {"LineString", "list"} /\ g.points \in {"many", "one"}

\* decode_polyline
Decodes(g) == g.points # "garbled"

\* Two checkpoints for the corridor's LineString: a route that stays at one spot has
\* but one.
IsLine(g) == g.points = "many"

\* What planning makes of a geometry.
Planned(g) ==
    IF ~Decodes(g) THEN "unusable" ELSE IF IsLine(g) THEN "found" ELSE "noLength"

PlanningErrors(o) == OwnFailures \cup (IF o = "found" THEN {} ELSE {"ValueError"})

\* Whatever becomes of its geometry, a route that has one is a success to the
\* breaker.
Routed ==
    /\ Calling
    /\ stage = "directions"
    /\ \E g \in {g \in Geometries : Normalizes(g)} :
          /\ Attempt(Planned(g), 0)
          /\ \/ Planned(g) = "found" /\ answer' = 200 /\ code' = ""
             \/ \E e \in PlanningErrors(Planned(g)) : AnswerError(e)
    /\ stage' = "idle"
    /\ breaker' = 0
    /\ burst' = 0
    /\ UNCHANGED failures

\* Faulty: the attempts are not counted.
KeepFailures == failures' = failures

CountFailure == failures' = failures + 1

Retry ==
    /\ Calling
    /\ \E o \in Retryable(stage) :
          /\ ~Spent(o)
          /\ \E pause \in Pauses(failures + 1, o) : Attempt(o, pause)
    /\ CountFailure
    /\ UNCHANGED <<stage, breaker, answer, code, burst>>

\* get_route raises and the request is answered with an error.  The breaker
\* counts any exception of the route call, a 404 included.
Raise ==
    /\ Calling
    /\ \E o \in Outcomes \ Found :
          /\ Spent(o)
          /\ Attempt(o, 0)
          /\ AnswerError(ExceptionOf(stage, o))
    /\ stage' = "idle"
    /\ breaker' = IF stage = "directions" THEN breaker + 1 ELSE breaker
    /\ burst' = IF stage = "directions" THEN Worse(burst) ELSE burst
    /\ UNCHANGED failures

\* An attempt or a sleep that lasts until the worker is killed.  Timeout is that of
\* a read, not of a body: one that trickles in may take any time.
Kill ==
    /\ Calling
    /\ \E o \in Outcomes :
          /\ \/ elapsed + Duration(o) >= WorkerTimeout
             \/ o \in BrokenOff
             \/ /\ o \in Retryable(stage) /\ ~Spent(o)
                /\ \E pause \in Pauses(failures + 1, o) :
                      elapsed + Duration(o) + pause >= WorkerTimeout
          /\ posts' = IF stage = "directions" /\ o \notin NothingSent
                      THEN posts + 1 ELSE posts
          /\ last' = o
    /\ stage' = "idle"
    /\ answer' = Lost /\ code' = ""
    /\ elapsed' = WorkerTimeout
    /\ UNCHANGED <<located, failures, breaker, burst>>

Step == Parse \/ Geocoded \/ Routed \/ Retry \/ Raise \/ Kill

Next == Start \/ Refuse \/ BreakDown \/ Pause \/ Step

\* Every attempt has a timeout and every sleep ends: a request goes on.
Spec == Init /\ [][Next]_vars /\ WF_vars(Step)

-----------------------------------------------------------------------------

\* "it fulfills the 'one route API call'" (lines 60-62): whatever is retried,
\* ORS gets at most one directions request for a trip.
OneRouteCall == posts <= 1

\* The breaker a request calls through has seen no failure, so the handler of
\* CircuitBreakerError (line 77) is never reached.
BreakerStaysClosed == stage # "idle" => breaker = 0

\* A client is told "not found" only if ORS answered that there is no such
\* place or route, never because of an outage, however often it was retried.  503
\* and 504 always stand for ORS failing; 500 never does, but for an odd reply of
\* ORS, a route from a place to itself, or a database or cache of the service that
\* fails before ORS is asked or after its last answer.  And an outage met before a
\* route was asked for is reported after every retry, not earlier, unless it broke
\* off a response that had begun.
ErrorsTellTheCause ==
    /\ answer = 404 <=> stage = "idle" /\ last = "empty" /\ answer # Lost
    /\ answer \in {503, 504} => last \in Outages
    /\ answer = 500 => \/ last \in OddReplies \cup {"none"}
                       \/ last \in Found /\ posts = 1
    /\ answer = 503 /\ posts = 0 /\ last \in Retryable("origin") => failures = RetryTotal

\* The status 400 stands for three causes that a client tells apart by the code
\* alone: its own mistake, which cost no call of ORS; a rate limit of ORS, met
\* after the route was asked for; and a route of ORS that cannot be read.  The
\* limit of this service, 429, is never that of ORS.
CodesTellTheCause ==
    /\ answer = 400 =>
          \/ code \in {"validation_error", StatusAgain} /\ last = "none"
          \/ code = "provider_rate_limit" /\ last = "429" /\ posts = 1
          \/ code = "internal_error" /\ last = "malformed" /\ posts = 1
    /\ answer \in {401, 406, 415, 429} => code = StatusAgain /\ last = "none"
    /\ last = "none" => posts = 0

\* Every request is answered or its worker killed.
EveryRequestEnds == stage # "idle" ~> stage = "idle"

\* README.md:12 "Integrated Circuit Breakers (`pybreaker`) and automatic
\* retries": after FailMax failed route calls in a row, the next request within
\* the reset timeout fails fast instead of calling ORS.
FailFast ==
    [][burst = FailMax /\ stage = "directions" /\ elapsed = 0 => posts' = posts]_vars
=============================================================================
