---------------------------- MODULE Idempotency ----------------------------
(***************************************************************************)
(* IdempotencyMiddleware (infrastructure/performance/middleware.py): POSTs *)
(* that carry an X-Idempotency-Key are answered from a store the workers   *)
(* share, or run the view and have their response stored.  The lookup and  *)
(* the store are two calls with the whole view between them.               *)
(*                                                                         *)
(* The view is the trip service (TripService): its 200 responses carry     *)
(* some content, made from prices of an age below ViewBound.  Clients may  *)
(* send the same request again at any time, to any worker.                 *)
(***************************************************************************)
EXTENDS Integers, FiniteSets

CONSTANTS
    Workers,
    Keys,           \* values of X-Idempotency-Key
    NoKey,          \* the header is absent
    Bodies,         \* request bodies, seen through their SHA-256
    Contents,       \* bodies of 200 responses
    Large,          \* those of them above IDEMPOTENCY_MAX_CACHE_BYTES
    Lifetime,       \* IDEMPOTENCY_CACHE_TIMEOUT: 3600 s
    WorkerTimeout,  \* gunicorn's --timeout: 30 s by default
    ViewBound,      \* PriceBound of the trip service
    None            \* no content

ASSUME IdempotencyAssumption ==
    /\ Lifetime \in Nat \ {0}
    /\ WorkerTimeout \in Nat
    /\ ViewBound \in Nat \ {0}
    /\ Bodies # {}
    /\ Large \subseteq Contents
    /\ NoKey \notin Keys
    /\ None \notin Contents

VARIABLES
    pc,         \* "idle" | "get" | "view" | "set"
    request,    \* [key, body] being served by each worker, or served last
    response,   \* the view's 200 response on its way out: [of, content,
                \* age], of being the request the view was run for
    held,       \* for how long the worker has held the request
    store,      \* request -> [ttl, response]
    sent        \* the 200 response sent by the last step: [to, response]

locals == <<pc, request, response, held>>
vars == <<locals, store, sent>>

Requests == [key : Keys \cup {NoKey}, body : Bodies]
Replayable == [key : Keys, body : Bodies]

Responses ==
    [of : Requests \cup {None}, content : Contents \cup {None}, age : Nat]
NoResponse == [of |-> None, content |-> None, age |-> 0]
NoEntry == [ttl |-> 0, response |-> NoResponse]

TypeOK ==
    /\ pc \in [Workers -> {"idle", "get", "view", "set"}]
    /\ request \in [Workers -> Requests]
    /\ response \in [Workers -> Responses]
    /\ held \in [Workers -> 0..WorkerTimeout]
    /\ store \in [Replayable -> [ttl : 0..Lifetime, response : Responses]]

\* Faulty: the body is left out of the key.
KeyOnly(r) == [key |-> r.key, body |-> CHOOSE b \in Bodies : TRUE]

\* idempotency:{user}:{key}:{method}:{path}:{body_hash}.  The middleware runs
\* before authentication, so the user is "anon" for all; the method is POST.
CacheKey(r) == [key |-> r.key, body |-> r.body]

Init ==
    /\ pc = [w \in Workers |-> "idle"]
    /\ request \in [Workers -> {CHOOSE r \in Requests : TRUE}]
    /\ response = [w \in Workers |-> NoResponse]
    /\ held = [w \in Workers |-> 0]
    /\ store = [r \in Replayable |-> NoEntry]
    /\ sent = {}

-----------------------------------------------------------------------------

Release(w) ==
    /\ pc' = [pc EXCEPT ![w] = "idle"]
    /\ held' = [held EXCEPT ![w] = 0]
    /\ response' = [response EXCEPT ![w] = NoResponse]
    /\ UNCHANGED request

Send(w, m) == sent' = {[to |-> request[w], response |-> m]}

Receive(w) ==
    /\ pc[w] = "idle"
    /\ \E r \in Requests :
          /\ request' = [request EXCEPT ![w] = r]
          /\ pc' = [pc EXCEPT ![w] = IF r.key = NoKey THEN "view" ELSE "get"]
    /\ sent' = {}
    /\ UNCHANGED <<response, held, store>>

\* Faulty: whether it is there or not.
MissedAny(e) == TRUE

\* cache.get found nothing.
Missed(e) == e.ttl = 0

\* process_request: the stored response is returned and, having no
\* idempotency_key on its request, not stored again.
Hit(w) ==
    LET k == CacheKey(request[w])
    IN  /\ pc[w] = "get"
        /\ store[k].ttl > 0
        /\ Send(w, store[k].response)
        /\ Release(w)
        /\ UNCHANGED store

Miss(w) ==
    /\ pc[w] = "get"
    /\ Missed(store[CacheKey(request[w])])
    /\ pc' = [pc EXCEPT ![w] = "view"]
    /\ sent' = {}
    /\ UNCHANGED <<request, response, held, store>>

\* The view answers 200 and process_response will store the response.
ViewStored(w) ==
    /\ pc[w] = "view"
    /\ request[w].key # NoKey
    /\ \E c \in Contents \ Large, age \in 0..(ViewBound - 1) :
          response' = [response EXCEPT ![w] =
                          [of |-> request[w], content |-> c, age |-> age]]
    /\ pc' = [pc EXCEPT ![w] = "set"]
    /\ sent' = {}
    /\ UNCHANGED <<request, held, store>>

\* It answers 200, without a key or with a body that is too large to store.
ViewSent(w) ==
    /\ pc[w] = "view"
    /\ \E c \in Contents, age \in 0..(ViewBound - 1) :
          /\ request[w].key = NoKey \/ c \in Large
          /\ Send(w, [of |-> request[w], content |-> c, age |-> age])
    /\ Release(w)
    /\ UNCHANGED store

\* The view answers any other status, which is never stored; or a call raises,
\* the lookup's and the store's included, and Django answers 500.
Fail(w) ==
    /\ pc[w] # "idle"
    /\ sent' = {}
    /\ Release(w)
    /\ UNCHANGED store

\* cache.set in process_response, then the response leaves.
Set(w) ==
    LET k == CacheKey(request[w])
    IN  /\ pc[w] = "set"
        /\ store' = [store EXCEPT ![k] =
              [ttl |-> Lifetime, response |-> response[w]]]
        /\ Send(w, response[w])
        /\ Release(w)

\* The worker is killed: what the view did is done, the response is lost.
Kill(w) ==
    /\ pc[w] # "idle"
    /\ held[w] = WorkerTimeout
    /\ sent' = {}
    /\ Release(w)
    /\ UNCHANGED store

\* Faulty: entries get older and never go.
ExpireNever(e) == [e EXCEPT !.ttl = @ - 1, !.response.age = @ + 1]

\* Faulty: stored without a timeout.
KeepForever(e) == IF e.ttl = 0 THEN e ELSE [e EXCEPT !.response.age = @ + 1]

Expire(e) ==
    IF e.ttl <= 1 THEN NoEntry
    ELSE [e EXCEPT !.ttl = @ - 1, !.response.age = @ + 1]

Tick ==
    /\ \A w \in Workers : held[w] < WorkerTimeout
    /\ held' = [w \in Workers |-> IF pc[w] = "idle" THEN 0 ELSE held[w] + 1]
    /\ response' = [w \in Workers |->
          IF pc[w] = "set" THEN [response[w] EXCEPT !.age = @ + 1] ELSE response[w]]
    /\ store' = [r \in Replayable |-> Expire(store[r])]
    /\ sent' = {}
    /\ UNCHANGED <<pc, request>>

\* Redis evicts an entry, or restarts without its data.
Evict(r) ==
    /\ store[r].ttl > 0
    /\ store' = [store EXCEPT ![r] = NoEntry]
    /\ sent' = {}
    /\ UNCHANGED locals

Next ==
    \/ \E w \in Workers :
          \/ Receive(w) \/ Hit(w) \/ Miss(w) \/ Set(w) \/ Kill(w)
          \/ ViewStored(w) \/ ViewSent(w) \/ Fail(w)
    \/ \E r \in Replayable : Evict(r)
    \/ Tick

Spec == Init /\ [][Next]_vars

-----------------------------------------------------------------------------

\* A response, replayed or not, is one the view gave to the very same request:
\* never that of another body sent with the same key.
RepliesBelongToTheRequest ==
    \A m \in sent : m.response.of = m.to

\* The workers that run the view for a request they did not find in the store.
InFlight(r) == {w \in Workers : pc[w] \in {"view", "set"} /\ request[w] = r}

\* While an entry is live no further execution of its request starts, and once
\* those that had started before it was stored are over, it does not change.
EntriesSettle ==
    [][\A r \in Replayable : store[r].ttl > 0 /\ store'[r].ttl > 0 =>
          /\ InFlight(r)' \subseteq InFlight(r)
          /\ InFlight(r) = {} => store'[r].response.content = store[r].response.content]_vars

\* A replay adds the lifetime of an entry, and the time its request was held, to
\* the age of the prices the trip service had answered from.
EndToEndBound == ViewBound + WorkerTimeout + Lifetime - 1

RepliesAreFresh == \A m \in sent : m.response.age < EndToEndBound

\* tests/test_idempotency.py:48 `response2.content == response1.content`: as long
\* as a response is stored, its request gets that one when it is sent again.
RetriesGetTheSameResponse ==
    [][\A m \in sent' : m.to \in Replayable /\ store[m.to].ttl > 0
          => m.response.content = store[m.to].response.content]_vars
=============================================================================
