------------------------ MODULE Idempotency_proofs ------------------------
(***************************************************************************)
(* Theorems about Idempotency: for any number of workers, keys, bodies and *)
(* contents and any lifetimes, a replay belongs to the request, is younger *)
(* than the stacked lifetimes, and the store settles.                      *)
(***************************************************************************)
EXTENDS Idempotency, TLAPS

\* What a worker carries: a lookup is made for a request with a key, and a
\* response on its way to the store was made for the request while it was held.
WorkerInv ==
    \A w \in Workers :
        /\ pc[w] \in {"get", "set"} => request[w] \in Replayable
        /\ pc[w] = "set" => /\ response[w].of = request[w]
                            /\ response[w].age < ViewBound + held[w]

\* What a live entry holds: the response to its request, whose age and time to
\* live together never exceed what they were when it was stored.
StoreInv ==
    \A r \in Replayable : store[r].ttl > 0 =>
        /\ store[r].response.of = r
        /\ store[r].response.age + store[r].ttl < ViewBound + WorkerTimeout + Lifetime

SentInv == RepliesBelongToTheRequest /\ RepliesAreFresh

IInv == TypeOK /\ WorkerInv /\ StoreInv /\ SentInv

-----------------------------------------------------------------------------

\* The key of a request that carries one is the request itself.
LEMMA KeyIsRequest == \A r \in Replayable : CacheKey(r) = r
  BY DEF CacheKey, Replayable

LEMMA ReplayableIsRequest == Replayable \subseteq Requests
  BY DEF Replayable, Requests

LEMMA InitIInv == Init => IInv
  <1> SUFFICES ASSUME Init PROVE IInv
    OBVIOUS
  <1>1. TypeOK
    <2>1. NoResponse \in Responses /\ NoEntry \in [ttl : 0..Lifetime, response : Responses]
      BY IdempotencyAssumption DEF NoResponse, NoEntry, Responses
    <2>2. request \in [Workers -> Requests]
      <3>1. PICK b \in Bodies : TRUE
        BY IdempotencyAssumption
      <3>2. [key |-> NoKey, body |-> b] \in Requests
        BY DEF Requests
      <3>3. (CHOOSE r \in Requests : TRUE) \in Requests
        BY <3>2
      <3> QED
        BY <3>3 DEF Init
    <2> QED
      BY <2>1, <2>2, IdempotencyAssumption DEF Init, TypeOK
  <1> QED
    BY <1>1 DEF Init, IInv, WorkerInv, StoreInv, SentInv, NoEntry,
                RepliesBelongToTheRequest, RepliesAreFresh

\* What holds of one worker is kept when the others are left alone.
LEMMA ReleaseKeeps ==
    ASSUME TypeOK, WorkerInv, NEW w \in Workers, Release(w)
    PROVE  /\ pc' \in [Workers -> {"idle", "get", "view", "set"}]
           /\ request' \in [Workers -> Requests]
           /\ response' \in [Workers -> Responses]
           /\ held' \in [Workers -> 0..WorkerTimeout]
           /\ WorkerInv'
  <1>1. NoResponse \in Responses /\ 0 \in 0..WorkerTimeout
    BY IdempotencyAssumption DEF NoResponse, Responses
  <1>2. \A v \in Workers : v # w =>
           pc'[v] = pc[v] /\ response'[v] = response[v] /\ held'[v] = held[v]
    BY DEF TypeOK, Release
  <1>3. pc'[w] = "idle" /\ request' = request
    BY DEF TypeOK, Release
  <1>4. WorkerInv'
    BY <1>2, <1>3 DEF WorkerInv
  <1> QED
    BY <1>1, <1>4 DEF TypeOK, Release

\* A step that sends a response for w: it must be that of w's request, and young.
LEMMA SendKeeps ==
    ASSUME NEW w \in Workers, NEW m, Send(w, m), m.of = request[w], m.age < EndToEndBound
    PROVE  SentInv'
  BY DEF Send, SentInv, RepliesBelongToTheRequest, RepliesAreFresh, EndToEndBound

LEMMA SilentKeeps == ASSUME sent' = {} PROVE SentInv'
  BY DEF SentInv, RepliesBelongToTheRequest, RepliesAreFresh

\* An age below a bound is that of a response that may be sent.
LEMMA BoundsAreNat ==
    /\ Lifetime \in Nat /\ Lifetime > 0 /\ WorkerTimeout \in Nat
    /\ ViewBound \in Nat /\ ViewBound > 0
    /\ EndToEndBound = ViewBound + WorkerTimeout + Lifetime - 1
  BY IdempotencyAssumption DEF EndToEndBound

\* A response that gets a second older is a response to the same request.
LEMMA AgedIsResponse ==
    ASSUME NEW m \in Responses
    PROVE  /\ [m EXCEPT !.age = @ + 1] \in Responses
           /\ [m EXCEPT !.age = @ + 1].of = m.of
           /\ [m EXCEPT !.age = @ + 1].age = m.age + 1
  BY DEF Responses

\* Every step keeps the invariant.
LEMMA NextIInv == IInv /\ [Next]_vars => IInv'
  <1> SUFFICES ASSUME IInv, [Next]_vars PROVE IInv'
    OBVIOUS
  <1> USE DEF IInv
  <1>1. ASSUME NEW w \in Workers, Receive(w) PROVE IInv'
    <2> PICK r \in Requests :
          /\ request' = [request EXCEPT ![w] = r]
          /\ pc' = [pc EXCEPT ![w] = IF r.key = NoKey THEN "view" ELSE "get"]
      BY <1>1 DEF Receive
    <2>1. TypeOK'
      BY <1>1 DEF Receive, TypeOK
    <2>2. r.key # NoKey => r \in Replayable
      BY DEF Requests, Replayable
    <2>3. WorkerInv'
      BY <1>1, <2>2 DEF Receive, TypeOK, WorkerInv
    <2>4. StoreInv' /\ SentInv'
      BY <1>1, SilentKeeps DEF Receive, StoreInv
    <2> QED
      BY <2>1, <2>3, <2>4
  <1>2. ASSUME NEW w \in Workers, Hit(w) PROVE IInv'
    <2> DEFINE k == request[w]
    <2>1. k \in Replayable /\ CacheKey(k) = k /\ store[k].ttl > 0
      BY <1>2, KeyIsRequest DEF Hit, WorkerInv
    <2>2. store[k] \in [ttl : 0..Lifetime, response : Responses]
      BY <2>1 DEF TypeOK
    <2>3. /\ store[k].response.of = k
          /\ store[k].response.age + store[k].ttl < ViewBound + WorkerTimeout + Lifetime
      BY <2>1 DEF StoreInv
    <2>4. store[k].response.age < EndToEndBound
      BY <2>1, <2>2, <2>3, BoundsAreNat DEF Responses
    <2>5. SentInv'
      BY <1>2, <2>1, <2>3, <2>4, SendKeeps DEF Hit
    <2>6. TypeOK' /\ WorkerInv' /\ StoreInv'
      BY <1>2, ReleaseKeeps DEF Hit, TypeOK, StoreInv
    <2> QED
      BY <2>5, <2>6
  <1>3. ASSUME NEW w \in Workers, Miss(w) PROVE IInv'
    <2>1. TypeOK' /\ WorkerInv'
      BY <1>3 DEF Miss, TypeOK, WorkerInv
    <2>2. StoreInv' /\ SentInv'
      BY <1>3, SilentKeeps DEF Miss, StoreInv
    <2> QED
      BY <2>1, <2>2
  <1>4. ASSUME NEW w \in Workers, ViewStored(w) PROVE IInv'
    <2> PICK c \in Contents \ Large, age \in 0..(ViewBound - 1) :
          response' = [response EXCEPT ![w] =
                          [of |-> request[w], content |-> c, age |-> age]]
      BY <1>4 DEF ViewStored
    <2>1. /\ request[w] \in Replayable
          /\ age \in Nat /\ age < ViewBound + held[w]
      BY <1>4, BoundsAreNat DEF ViewStored, TypeOK, Requests, Replayable
    <2>2. [of |-> request[w], content |-> c, age |-> age] \in Responses
      BY <2>1 DEF Responses, TypeOK
    <2>3. TypeOK'
      BY <1>4, <2>2 DEF ViewStored, TypeOK
    <2>4. WorkerInv'
      BY <1>4, <2>1 DEF ViewStored, TypeOK, WorkerInv
    <2>5. StoreInv' /\ SentInv'
      BY <1>4, SilentKeeps DEF ViewStored, StoreInv
    <2> QED
      BY <2>3, <2>4, <2>5
  <1>5. ASSUME NEW w \in Workers, ViewSent(w) PROVE IInv'
    <2> PICK c \in Contents, age \in 0..(ViewBound - 1) :
          Send(w, [of |-> request[w], content |-> c, age |-> age])
      BY <1>5 DEF ViewSent
    <2>1. age < EndToEndBound
      BY BoundsAreNat
    <2>2. SentInv'
      BY <2>1, SendKeeps
    <2>3. TypeOK' /\ WorkerInv' /\ StoreInv'
      BY <1>5, ReleaseKeeps DEF ViewSent, TypeOK, StoreInv
    <2> QED
      BY <2>2, <2>3
  <1>6. ASSUME NEW w \in Workers, Fail(w) \/ Kill(w) PROVE IInv'
    <2>1. TypeOK' /\ WorkerInv' /\ StoreInv'
      BY <1>6, ReleaseKeeps DEF Fail, Kill, TypeOK, StoreInv
    <2> QED
      BY <1>6, <2>1, SilentKeeps DEF Fail, Kill
  <1>7. ASSUME NEW w \in Workers, Set(w) PROVE IInv'
    <2> DEFINE k == request[w]
    <2>1. /\ k \in Replayable /\ CacheKey(k) = k
          /\ response[w].of = k /\ response[w].age < ViewBound + held[w]
      BY <1>7, KeyIsRequest DEF Set, WorkerInv
    <2>2. response[w] \in Responses /\ response[w].age \in Nat /\ held[w] \in 0..WorkerTimeout
      BY DEF TypeOK, Responses
    <2>3. store' = [store EXCEPT ![k] = [ttl |-> Lifetime, response |-> response[w]]]
      BY <1>7, <2>1 DEF Set
    <2>4. TypeOK' /\ WorkerInv'
      BY <1>7, <2>1, <2>2, <2>3, ReleaseKeeps, BoundsAreNat DEF Set, TypeOK
    <2>5. StoreInv'
      BY <2>1, <2>2, <2>3, BoundsAreNat DEF TypeOK, StoreInv
    <2>6. SentInv'
      BY <1>7, <2>1, <2>2, SendKeeps, BoundsAreNat DEF Set
    <2> QED
      BY <2>4, <2>5, <2>6
  <1>8. ASSUME NEW r \in Replayable, Evict(r) PROVE IInv'
    <2>1. NoEntry \in [ttl : 0..Lifetime, response : Responses] /\ NoEntry.ttl = 0
      BY BoundsAreNat DEF NoEntry, NoResponse, Responses
    <2>2. TypeOK' /\ WorkerInv'
      BY <1>8, <2>1 DEF Evict, locals, TypeOK, WorkerInv
    <2>3. StoreInv'
      BY <1>8, <2>1 DEF Evict, TypeOK, StoreInv
    <2> QED
      BY <1>8, <2>2, <2>3, SilentKeeps DEF Evict
  <1>9. CASE Tick
    <2>1. \A w \in Workers : /\ held'[w] \in 0..WorkerTimeout
                             /\ pc[w] = "set" => held'[w] = held[w] + 1
      BY <1>9, BoundsAreNat DEF Tick, TypeOK
    <2>2. \A w \in Workers : /\ response'[w] \in Responses
                             /\ pc[w] = "set" => /\ response'[w].of = response[w].of
                                                 /\ response'[w].age = response[w].age + 1
      <3> SUFFICES ASSUME NEW w \in Workers
                   PROVE  /\ response'[w] \in Responses
                          /\ pc[w] = "set" => /\ response'[w].of = response[w].of
                                              /\ response'[w].age = response[w].age + 1
        OBVIOUS
      <3>1. response[w] \in Responses
        BY DEF TypeOK
      <3>2. response'[w] = IF pc[w] = "set" THEN [response[w] EXCEPT !.age = @ + 1]
                                            ELSE response[w]
        BY <1>9 DEF Tick
      <3> QED
        BY <3>1, <3>2, AgedIsResponse
    <2>3. \A r \in Replayable :
             /\ Expire(store[r]) \in [ttl : 0..Lifetime, response : Responses]
             /\ Expire(store[r]).ttl > 0 =>
                   /\ store[r].ttl > 0
                   /\ Expire(store[r]).ttl = store[r].ttl - 1
                   /\ Expire(store[r]).response.age = store[r].response.age + 1
                   /\ Expire(store[r]).response.of = store[r].response.of
      <3> SUFFICES ASSUME NEW r \in Replayable PROVE
             /\ Expire(store[r]) \in [ttl : 0..Lifetime, response : Responses]
             /\ Expire(store[r]).ttl > 0 =>
                   /\ store[r].ttl > 0
                   /\ Expire(store[r]).ttl = store[r].ttl - 1
                   /\ Expire(store[r]).response.age = store[r].response.age + 1
                   /\ Expire(store[r]).response.of = store[r].response.of
        OBVIOUS
      <3>1. store[r] \in [ttl : 0..Lifetime, response : Responses]
        BY DEF TypeOK
      <3>2. CASE store[r].ttl <= 1
        BY <3>2, BoundsAreNat DEF Expire, NoEntry, NoResponse, Responses
      <3>3. CASE ~(store[r].ttl <= 1)
        <4> DEFINE e == store[r]
                   m == [e.response EXCEPT !.age = @ + 1]
        <4>1. e.ttl \in 0..Lifetime /\ e.response \in Responses
          BY <3>1
        <4>2. e.ttl - 1 \in 0..Lifetime /\ e.ttl > 0
          BY <3>3, <4>1, BoundsAreNat
        <4>3. m \in Responses /\ m.of = e.response.of /\ m.age = e.response.age + 1
          BY <4>1, AgedIsResponse
        <4>4. Expire(e) = [ttl |-> e.ttl - 1, response |-> m]
          BY <3>1, <3>3 DEF Expire
        <4> HIDE DEF e, m
        <4> QED
          BY <4>2, <4>3, <4>4 DEF e
      <3> QED
        BY <3>2, <3>3
    <2>4. TypeOK'
      BY <1>9, <2>1, <2>2, <2>3 DEF Tick, TypeOK
    <2>5. WorkerInv'
      <3> SUFFICES ASSUME NEW w \in Workers
                   PROVE  /\ pc'[w] \in {"get", "set"} => request'[w] \in Replayable
                          /\ pc'[w] = "set" => /\ response'[w].of = request'[w]
                                               /\ response'[w].age < ViewBound + held'[w]
        BY DEF WorkerInv
      <3>1. pc' = pc /\ request' = request
        BY <1>9 DEF Tick
      <3>2. response[w] \in Responses /\ response[w].age \in Nat /\ held[w] \in Nat
        BY BoundsAreNat DEF TypeOK, Responses
      <3> QED
        BY <2>1, <2>2, <3>1, <3>2, BoundsAreNat DEF WorkerInv
    <2>6. StoreInv'
      <3> SUFFICES ASSUME NEW r \in Replayable, store'[r].ttl > 0
                   PROVE  /\ store'[r].response.of = r
                          /\ store'[r].response.age + store'[r].ttl
                                < ViewBound + WorkerTimeout + Lifetime
        BY DEF StoreInv
      <3>1. store'[r] = Expire(store[r])
        BY <1>9 DEF Tick
      <3>2. store[r].ttl \in Nat /\ store[r].response.age \in Nat
        BY BoundsAreNat DEF TypeOK, Responses
      <3> QED
        BY <2>3, <3>1, <3>2, BoundsAreNat DEF StoreInv
    <2> QED
      BY <1>9, <2>4, <2>5, <2>6, SilentKeeps DEF Tick
  <1>10. CASE UNCHANGED vars
    BY <1>10 DEF vars, locals, TypeOK, WorkerInv, StoreInv, SentInv,
                 RepliesBelongToTheRequest, RepliesAreFresh
  <1> QED
    BY <1>1, <1>2, <1>3, <1>4, <1>5, <1>6, <1>7, <1>8, <1>9, <1>10 DEF Next

\* Every reachable state satisfies the invariant.
THEOREM Invariance == Spec => []IInv
  BY InitIInv, NextIInv, PTL DEF Spec

\* The types of all variables (process_request, process_response).
THEOREM TypeCorrect == Spec => []TypeOK
  BY Invariance, PTL DEF IInv

\* No response is ever replayed to another request (middleware.py:34).
THEOREM RepliesBelong == Spec => []RepliesBelongToTheRequest
  BY Invariance, PTL DEF IInv, SentInv

\* Replays add one lifetime and one held request to the age of a response, and
\* no more, whatever is stored over what (middleware.py:77-81).
THEOREM RepliesFresh == Spec => []RepliesAreFresh
  BY Invariance, PTL DEF IInv, SentInv

-----------------------------------------------------------------------------

\* What EntriesSettle says of one request and one step.
Settled(r) ==
    store[r].ttl > 0 /\ store'[r].ttl > 0 =>
        /\ InFlight(r)' \subseteq InFlight(r)
        /\ InFlight(r) = {} => store'[r].response.content = store[r].response.content

\* A worker that lets go of its request is in flight for none.
LEMMA ReleaseEnds ==
    ASSUME NEW w \in Workers, NEW r \in Replayable, TypeOK, Release(w)
    PROVE  InFlight(r)' \subseteq InFlight(r)
  <1>1. /\ pc'[w] = "idle" /\ request' = request
        /\ \A v \in Workers : v # w => pc'[v] = pc[v]
    BY DEF TypeOK, Release
  <1> QED
    BY <1>1 DEF InFlight

\* An entry that gets older keeps its content.
LEMMA ExpireKeepsContent ==
    ASSUME NEW e \in [ttl : 0..Lifetime, response : Responses], Expire(e).ttl > 0
    PROVE  Expire(e).response.content = e.response.content
  <1>1. CASE e.ttl <= 1
    BY <1>1 DEF Expire, NoEntry
  <1>2. CASE ~(e.ttl <= 1)
    <2>1. [e.response EXCEPT !.age = @ + 1].content = e.response.content
      BY DEF Responses
    <2>2. Expire(e).response = [e.response EXCEPT !.age = @ + 1]
      BY <1>2 DEF Expire
    <2> QED
      BY <2>1, <2>2
  <1> QED
    BY <1>1, <1>2

LEMMA NextSettles ==
    ASSUME IInv, [Next]_vars, NEW r \in Replayable
    PROVE  Settled(r)
  <1> USE DEF IInv
  <1>1. ASSUME NEW w \in Workers, Receive(w) PROVE Settled(r)
    <2>1. pc'[w] = "get" \/ request'[w].key = NoKey
      BY <1>1 DEF Receive, TypeOK
    <2>2. r.key # NoKey
      BY IdempotencyAssumption DEF Replayable
    <2>3. \A v \in Workers : v # w => pc'[v] = pc[v] /\ request'[v] = request[v]
      BY <1>1 DEF Receive, TypeOK
    <2>4. InFlight(r)' \subseteq InFlight(r)
      BY <2>1, <2>2, <2>3 DEF InFlight
    <2> QED
      BY <1>1, <2>4 DEF Receive, Settled
  <1>2. ASSUME NEW w \in Workers, Miss(w) PROVE Settled(r)
    <2>1. request[w] \in Replayable /\ store[request[w]].ttl = 0
      BY <1>2, KeyIsRequest DEF Miss, Missed, WorkerInv
    <2>2. /\ \A v \in Workers : v # w => pc'[v] = pc[v]
          /\ request' = request /\ store' = store
      BY <1>2 DEF Miss, TypeOK
    <2>3. store[r].ttl > 0 => InFlight(r)' \subseteq InFlight(r)
      BY <2>1, <2>2 DEF InFlight
    <2> QED
      BY <2>2, <2>3 DEF Settled
  <1>3. ASSUME NEW w \in Workers, ViewStored(w) PROVE Settled(r)
    <2>1. /\ pc[w] = "view" /\ request' = request /\ store' = store
          /\ \A v \in Workers : v # w => pc'[v] = pc[v]
      BY <1>3 DEF ViewStored, TypeOK
    <2>2. InFlight(r)' \subseteq InFlight(r)
      BY <2>1 DEF InFlight
    <2> QED
      BY <2>1, <2>2 DEF Settled
  <1>4. ASSUME NEW w \in Workers, Hit(w) \/ ViewSent(w) \/ Fail(w) \/ Kill(w) PROVE Settled(r)
    <2>1. Release(w) /\ store' = store
      BY <1>4 DEF Hit, ViewSent, Fail, Kill
    <2> QED
      BY <2>1, ReleaseEnds DEF Settled
  <1>5. ASSUME NEW w \in Workers, Set(w) PROVE Settled(r)
    <2>1. request[w] \in Replayable /\ CacheKey(request[w]) = request[w]
      BY <1>5, KeyIsRequest DEF Set, WorkerInv
    <2>2. w \in InFlight(request[w])
      BY <1>5 DEF Set, InFlight
    <2>3. r # request[w] => store'[r] = store[r]
      BY <1>5, <2>1 DEF Set, TypeOK
    <2>4. InFlight(r)' \subseteq InFlight(r)
      BY <1>5, ReleaseEnds DEF Set
    <2> QED
      BY <2>2, <2>3, <2>4 DEF Settled
  <1>6. ASSUME NEW q \in Replayable, Evict(q) PROVE Settled(r)
    <2>1. store'[q].ttl = 0 /\ (r # q => store'[r] = store[r])
      BY <1>6 DEF Evict, TypeOK, NoEntry
    <2>2. InFlight(r)' = InFlight(r)
      BY <1>6 DEF Evict, locals, InFlight
    <2> QED
      BY <2>1, <2>2 DEF Settled
  <1>7. CASE Tick
    <2>1. store[r] \in [ttl : 0..Lifetime, response : Responses]
      BY DEF TypeOK
    <2>2. store'[r] = Expire(store[r]) /\ InFlight(r)' = InFlight(r)
      BY <1>7 DEF Tick, InFlight
    <2> QED
      BY <2>1, <2>2, ExpireKeepsContent DEF Settled
  <1>8. CASE UNCHANGED vars
    BY <1>8 DEF vars, locals, Settled, InFlight
  <1> QED
    BY <1>1, <1>2, <1>3, <1>4, <1>5, <1>6, <1>7, <1>8 DEF Next

\* Once an entry is live and the executions that had missed it are over, its
\* content stays, and no other execution of its request starts meanwhile
\* (process_request returning the cached response, middleware.py:36-55).
THEOREM Settles == Spec => EntriesSettle
  <1>1. IInv /\ [Next]_vars =>
           [\A r \in Replayable : store[r].ttl > 0 /\ store'[r].ttl > 0 =>
               /\ InFlight(r)' \subseteq InFlight(r)
               /\ InFlight(r) = {} =>
                     store'[r].response.content = store[r].response.content]_vars
    BY NextSettles DEF Settled
  <1> QED
    BY <1>1, Invariance, PTL DEF Spec, EntriesSettle
=============================================================================
