------------------------ MODULE OrsProvider_proofs ------------------------
(***************************************************************************)
(* Theorems about OrsProvider: whatever ORS answers, however often calls   *)
(* are retried and whenever the worker is killed, a trip costs one route   *)
(* call, its breaker never opens, and an error names its cause.            *)
(***************************************************************************)
EXTENDS OrsProvider, WellFoundedInduction, TLAPS

\* What the argument needs of a request under way: no route was asked for that
\* reached ORS, the breaker is new, and nothing is answered.
RequestInv ==
    /\ stage \in Calls \cup {"idle"} /\ located \subseteq Places
    /\ stage # "idle" => posts = 0 /\ breaker = 0 /\ answer = 0
    /\ last = "none" => posts = 0

IInv == RequestInv /\ OneRouteCall /\ ErrorsTellTheCause /\ CodesTellTheCause

-----------------------------------------------------------------------------

\* Nothing that reached ORS is sent again: the retries of a POST are those of
\* attempts that were never sent.
LEMMA PostIsNotRepeated == Retryable("directions") = NothingSent
  BY DEF Retryable

\* custom_exception_handler, for what get_route and planning raise.
LEMMA RaisedAnswers ==
    /\ StatusOf("RouteNotFoundError") = 404
    /\ StatusOf("ProviderTimeoutError") = 504 /\ StatusOf("ProviderUnavailableError") = 503
    /\ StatusOf("ProviderRateLimitError") = 400 /\ CodeOf("ProviderRateLimitError") = "provider_rate_limit"
    /\ StatusOf("RoutingError") = 400 /\ CodeOf("RoutingError") = "internal_error"
    /\ StatusOf("KeyError") = 500 /\ StatusOf("AttributeError") = 500 /\ StatusOf("ValueError") = 500
    /\ StatusOf("OperationalError") = 500 /\ StatusOf("ConnectionInterrupted") = 500
  BY DEF StatusOf, CodeOf, StatusByName, OwnCode, DefaultCode, RestStatus

\* And for what is raised before.
LEMMA RefusalAnswers ==
    ASSUME NEW e \in Refusals
    PROVE  \/ StatusOf(e) = 400 /\ CodeOf(e) \in {"validation_error", StatusAgain}
           \/ StatusOf(e) \in {401, 406, 415, 429} /\ CodeOf(e) = StatusAgain
  BY DEF Refusals, StatusOf, CodeOf, OwnCode, RestStatus

\* 404 is the status of an empty answer alone; 500 that of an odd reply; 503 and 504
\* those of an outage; 400 that of a rate limit or of a route that cannot be read.
LEMMA StatusNamesTheCause ==
    ASSUME NEW call \in Calls, NEW o \in Outcomes \ Found
    PROVE  LET e == ExceptionOf(call, o)
           IN  /\ StatusOf(e) \in {400, 404, 500, 503, 504}
               /\ StatusOf(e) = 404 <=> o = "empty"
               /\ StatusOf(e) \in {503, 504} => o \in Outages
               /\ StatusOf(e) = 500 => o \in OddReplies
               /\ StatusOf(e) = 400 => /\ call = "directions"
                                       /\ \/ o = "429" /\ CodeOf(e) = "provider_rate_limit"
                                          \/ o = "malformed" /\ CodeOf(e) = "internal_error"
  <1> DEFINE e == ExceptionOf(call, o)
  <1>1. o = "empty" => e = "RouteNotFoundError"
    BY DEF ExceptionOf
  <1>2. /\ o = "notAnObject" => e = "AttributeError"
        /\ o = "malformed" /\ call = "directions" => e = "RoutingError"
        /\ o = "malformed" /\ call \in Places => e = "KeyError"
    <2>1. o = "notAnObject" => e = "AttributeError"
      BY DEF ExceptionOf
    <2>2. o = "malformed" /\ call = "directions" => e = "RoutingError"
      BY DEF ExceptionOf, Places
    <2>3. o = "malformed" /\ call \in Places => e = "KeyError"
      BY DEF ExceptionOf, Places
    <2> QED
      BY <2>1, <2>2, <2>3
  <1>3. o \notin {"empty", "malformed", "notAnObject", "429"} =>
           e \in {"ProviderTimeoutError", "ProviderUnavailableError"}
    BY DEF ExceptionOf
  <1>4. o = "429" => e = IF call = "directions" THEN "ProviderRateLimitError"
                                                ELSE "ProviderUnavailableError"
    BY DEF ExceptionOf
  <1>5. call = "directions" \/ call \in Places
    BY DEF Calls
  <1>6. o \notin {"empty", "malformed", "notAnObject"} => o \in Outages
    BY DEF Outcomes, OddReplies
  <1> HIDE DEF e
  <1> QED
    BY <1>1, <1>2, <1>3, <1>4, <1>5, <1>6, RaisedAnswers DEF e, OddReplies

\* The service's own failures, and those of planning, are answered with a 500.
LEMMA OwnAnswers ==
    ASSUME NEW o, NEW e \in PlanningErrors(o)
    PROVE  StatusOf(e) = 500 /\ CodeOf(e) = "internal_server_error"
  <1>1. e \in {"OperationalError", "ConnectionInterrupted", "ValueError"}
    BY DEF PlanningErrors, OwnFailures
  <1> QED
    BY <1>1, RaisedAnswers DEF CodeOf, OwnCode, RestStatus

\* What planning makes of a geometry was a route, and no error of ORS.
LEMMA PlannedIsFound ==
    ASSUME NEW g
    PROVE  Planned(g) \in Found /\ Planned(g) \notin NothingSent
  BY DEF Planned, Found, NothingSent

\* A worker begins idle, with nothing asked and nothing answered.
LEMMA InitIInv == Init => IInv
  <1> SUFFICES ASSUME Init PROVE IInv
    OBVIOUS
  <1>1. /\ stage = "idle" /\ located = {} /\ posts = 0 /\ answer = 0 /\ last = "none"
    BY DEF Init
  <1>2. RequestInv /\ OneRouteCall /\ ErrorsTellTheCause
    BY <1>1 DEF RequestInv, OneRouteCall, ErrorsTellTheCause
  <1>3. CodesTellTheCause
    BY <1>1 DEF CodesTellTheCause
  <1> QED
    BY <1>2, <1>3 DEF IInv

\* Every step keeps the invariant.
LEMMA NextIInv == IInv /\ [Next]_vars => IInv'
  <1> SUFFICES ASSUME IInv, [Next]_vars PROVE IInv'
    OBVIOUS
  <1> USE DEF IInv
  <1>1. CASE Start
    <2>1. located' \subseteq Places
      BY <1>1 DEF Start, Located
    <2>2. /\ stage' = "origin" /\ posts' = 0 /\ breaker' = 0 /\ answer' = 0 /\ last' = "none"
      BY <1>1 DEF Start, Arrive, NewProvider
    <2>3. RequestInv' /\ OneRouteCall' /\ ErrorsTellTheCause'
      BY <2>1, <2>2 DEF RequestInv, OneRouteCall, ErrorsTellTheCause, Calls, Places
    <2>4. CodesTellTheCause'
      BY <2>2 DEF CodesTellTheCause
    <2> QED
      BY <2>3, <2>4
  <1>2. CASE Pause
    BY <1>2 DEF Pause, RequestInv, OneRouteCall, ErrorsTellTheCause, CodesTellTheCause
  <1>10. CASE Refuse
    <2>1. PICK e \in Refusals : AnswerError(e)
      BY <1>10 DEF Refuse
    <2>2. /\ stage = "idle" /\ stage' = "idle" /\ located' = {} /\ posts' = 0
          /\ last' = "none" /\ answer' = StatusOf(e) /\ code' = CodeOf(e)
      BY <1>10, <2>1 DEF Refuse, Arrive, AnswerError
    <2> QED
      BY <2>2, RefusalAnswers DEF RequestInv, OneRouteCall, ErrorsTellTheCause, CodesTellTheCause
  <1>11. CASE BreakDown
    <2>1. PICK e \in OwnFailures : AnswerError(e)
      BY <1>11 DEF BreakDown
    <2>2. StatusOf(e) = 500
      BY <2>1, OwnAnswers DEF PlanningErrors
    <2>3. /\ stage = "idle" /\ stage' = "idle" /\ located' = {} /\ posts' = 0
          /\ last' = "none" /\ answer' = 500
      BY <1>11, <2>1, <2>2 DEF BreakDown, Arrive, AnswerError
    <2> QED
      BY <2>3 DEF RequestInv, OneRouteCall, ErrorsTellTheCause, CodesTellTheCause
  <1>3. CASE Parse
    <2>1. stage # "idle" /\ stage' \in Calls
      BY <1>3 DEF Parse, RequestInv, NextCall, Calls, Places
    <2> QED
      BY <1>3, <2>1 DEF Parse, RequestInv, OneRouteCall, ErrorsTellTheCause, CodesTellTheCause,
                        Calls, Places
  <1>4. CASE Geocoded
    <2>1. /\ stage # "idle" /\ stage' \in Calls
          /\ posts' = posts /\ breaker' = breaker /\ answer' = answer /\ located' = located
          /\ last' = "found"
      BY <1>4 DEF Geocoded, Attempt, NextCall, Calls, Places
    <2> QED
      BY <2>1 DEF RequestInv, OneRouteCall, ErrorsTellTheCause, CodesTellTheCause, Calls, Places
  <1>5. CASE Routed
    <2>1. PICK g \in Geometries :
             /\ Attempt(Planned(g), 0)
             /\ \/ answer' = 200
                \/ \E e \in PlanningErrors(Planned(g)) : AnswerError(e)
      BY <1>5 DEF Routed
    <2>2. posts = 0 /\ stage = "directions" /\ stage' = "idle"
      BY <1>5 DEF Routed, RequestInv
    <2>3. posts' = 1 /\ last' \in Found /\ located' = located
      BY <2>1, <2>2, PlannedIsFound DEF Attempt
    <2>4. answer' \in {200, 500}
      BY <2>1, OwnAnswers DEF AnswerError
    <2>5. last' \notin {"none", "empty"}
      BY <2>3 DEF Found
    <2> QED
      BY <2>2, <2>3, <2>4, <2>5 DEF RequestInv, OneRouteCall, ErrorsTellTheCause,
                                    CodesTellTheCause
  <1>6. CASE Retry
    <2>1. PICK o \in Retryable(stage) :
             \E pause \in Pauses(failures + 1, o) : Attempt(o, pause)
      BY <1>6 DEF Retry
    <2>2. /\ stage \in Calls /\ stage' = stage /\ breaker' = breaker /\ answer' = answer
          /\ located' = located
      BY <1>6 DEF Retry, Calling, Attempt
    <2>3. posts' = posts /\ last' # "none"
      BY <2>1, PostIsNotRepeated DEF Attempt, Retryable, NothingSent, ForcedStatus
    <2>4. stage # "idle"
      BY <2>2 DEF Calls, Places
    <2> QED
      BY <2>2, <2>3, <2>4 DEF RequestInv, OneRouteCall, ErrorsTellTheCause, CodesTellTheCause
  <1>7. CASE Raise
    <2>1. PICK o \in Outcomes \ Found :
             Spent(o) /\ Attempt(o, 0) /\ AnswerError(ExceptionOf(stage, o))
      BY <1>7 DEF Raise
    <2>2. stage \in Calls /\ stage # "idle" /\ stage' = "idle" /\ failures' = failures
      BY <1>7 DEF Raise, Calling, Calls, Places
    <2>3. /\ last' = o /\ located' = located /\ o # "none"
          /\ posts' = IF stage = "directions" /\ o \notin NothingSent THEN 1 ELSE 0
      BY <2>1, <2>2 DEF Attempt, RequestInv, Outcomes, Found, OddReplies, Outages,
                        NothingSent, ForcedStatus, BrokenOff
    <2>4. RequestInv' /\ OneRouteCall'
      BY <2>2, <2>3 DEF RequestInv, OneRouteCall
    <2>5. /\ answer' \in {400, 404, 500, 503, 504}
          /\ answer' = 404 <=> o = "empty"
          /\ answer' \in {503, 504} => o \in Outages
          /\ answer' = 500 => o \in OddReplies
          /\ answer' = 400 => /\ stage = "directions"
                              /\ \/ o = "429" /\ code' = "provider_rate_limit"
                                 \/ o = "malformed" /\ code' = "internal_error"
      BY <2>1, <2>2, StatusNamesTheCause DEF AnswerError
    <2>6. posts' = 0 /\ o \in Retryable("origin") => failures' = RetryTotal
      BY <2>1, <2>2, <2>3 DEF Spent, Retryable
    <2>7. ErrorsTellTheCause'
      BY <2>2, <2>3, <2>5, <2>6 DEF ErrorsTellTheCause, Lost, Retryable
    <2>8. CodesTellTheCause'
      BY <2>3, <2>5 DEF CodesTellTheCause, NothingSent
    <2> QED
      BY <2>4, <2>7, <2>8
  <1>8. CASE Kill
    <2>1. /\ stage' = "idle" /\ answer' = Lost /\ last' # "none"
          /\ posts' \in {posts, posts + 1} /\ located' = located
      BY <1>8 DEF Kill, Outcomes, Found, OddReplies, Outages, NothingSent, ForcedStatus,
                  BrokenOff
    <2>2. posts = 0
      BY <1>8 DEF Kill, Calling, RequestInv, Calls, Places
    <2> QED
      BY <2>1, <2>2 DEF RequestInv, OneRouteCall, ErrorsTellTheCause, CodesTellTheCause, Lost
  <1>9. CASE UNCHANGED vars
    BY <1>9 DEF vars, RequestInv, OneRouteCall, ErrorsTellTheCause, CodesTellTheCause
  <1> QED
    BY <1>1, <1>2, <1>3, <1>4, <1>5, <1>6, <1>7, <1>8, <1>9, <1>10, <1>11
    DEF Next, Step

\* Every reachable state satisfies the invariant.
THEOREM Invariance == Spec => []IInv
  BY InitIInv, NextIInv, PTL DEF Spec

\* However many attempts the session retries, ORS gets one directions request
\* for a trip at most (ors_provider.py:60-62).
THEOREM OneCall == Spec => []OneRouteCall
  BY Invariance, PTL DEF IInv

\* A provider of its own for every request keeps its breaker closed
\* (ors_provider.py:77).
THEOREM BreakerNeverOpens == Spec => []BreakerStaysClosed
  <1>1. IInv => BreakerStaysClosed
    BY DEF IInv, RequestInv, BreakerStaysClosed
  <1> QED
    BY <1>1, Invariance, PTL

\* The status a client gets names what happened (get_route's handlers and
\* custom_exception_handler).
THEOREM CausesAreTold == Spec => []ErrorsTellTheCause
  BY Invariance, PTL DEF IInv

\* Of the three causes of a 400 the code names the right one, for any retries
\* (apps/api/exceptions.py:31-52).
THEOREM CodesAreTold == Spec => []CodesTellTheCause
  BY Invariance, PTL DEF IInv

-----------------------------------------------------------------------------
(* Types.  What is slept is a number of seconds because the powers of two    *)
(* are; Power is a CHOOSE, and there is a function to choose because there  *)
(* would be a first exponent at which none goes on.                         *)

\* f doubles up to n.
Doubles(f, n) == f = [k \in 0..n |-> IF k = 0 THEN 1 ELSE 2 * f[k - 1]]

\* A longer one goes on from a shorter one.
LEMMA DoublesOn ==
    ASSUME NEW n \in Nat, NEW f \in [0..n -> Nat], Doubles(f, n)
    PROVE  \E g \in [0..(n + 1) -> Nat] : Doubles(g, n + 1)
  <1> DEFINE h == [k \in 0..n |-> IF k = 0 THEN 1 ELSE 2 * f[k - 1]]
             g == [k \in 0..(n + 1) |-> IF k = n + 1 THEN 2 * f[n] ELSE f[k]]
             G == [k \in 0..(n + 1) |-> IF k = 0 THEN 1 ELSE 2 * g[k - 1]]
  <1>1. g \in [0..(n + 1) -> Nat] /\ g = [k \in 0..(n + 1) |-> g[k]]
    OBVIOUS
  <1>2. f = h
    BY DEF Doubles
  <1>3. h[0] = 1 /\ \A k \in 1..n : h[k] = 2 * f[k - 1]
    OBVIOUS
  <1> HIDE DEF h
  <1>4. g[0] = 1 /\ \A k \in 1..(n + 1) : g[k] = 2 * f[k - 1] /\ g[k - 1] = f[k - 1]
    <2>1. g[0] = 1
      BY <1>2, <1>3
    <2>2. ASSUME NEW k \in 1..(n + 1) PROVE g[k] = 2 * f[k - 1] /\ g[k - 1] = f[k - 1]
      <3>1. CASE k = n + 1
        BY <3>1
      <3>2. CASE k \in 1..n
        <4>1. g[k] = f[k] /\ g[k - 1] = f[k - 1]
          BY <3>2
        <4> HIDE DEF g
        <4> QED
          BY <1>2, <1>3, <3>2, <4>1
      <3> QED
        BY <3>1, <3>2
    <2> QED
      BY <2>1, <2>2
  <1> HIDE DEF g
  <1>5. G = [k \in 0..(n + 1) |-> G[k]] /\ G[0] = 1 /\ \A k \in 1..(n + 1) : G[k] = 2 * g[k - 1]
    OBVIOUS
  <1> HIDE DEF G
  <1>6. ASSUME NEW k \in 0..(n + 1) PROVE g[k] = G[k]
    <2>1. k = 0 \/ k \in 1..(n + 1)
      OBVIOUS
    <2> QED
      BY <1>4, <1>5, <2>1
  <1>7. g = G
    BY <1>1, <1>5, <1>6
  <1> QED
    BY <1>1, <1>7 DEF Doubles, G

\* There is one up to every exponent.
LEMMA DoublesExists ==
    ASSUME NEW n \in Nat
    PROVE  \E f \in [0..n -> Nat] : Doubles(f, n)
  <1> DEFINE T == {k \in Nat : ~\E f \in [0..k -> Nat] : Doubles(f, k)}
  <1>1. SUFFICES ASSUME T # {} PROVE FALSE
    OBVIOUS
  <1>2. PICK m \in T : \A k \in T : ~(<<k, m>> \in OpToRel(<, Nat))
    <2>1. T \in SUBSET Nat
      OBVIOUS
    <2> QED
      BY <1>1, <2>1, WFMin, NatLessThanWellFounded
  <1>3. m \in Nat /\ ~\E f \in [0..m -> Nat] : Doubles(f, m)
    OBVIOUS
  <1>4. CASE m = 0
    <2> DEFINE z == [k \in 0..0 |-> 1]
    <2>1. z \in [0..0 -> Nat]
      OBVIOUS
    <2>2. z = [k \in 0..0 |-> IF k = 0 THEN 1 ELSE 2 * z[k - 1]]
      OBVIOUS
    <2> HIDE DEF z
    <2> QED
      BY <1>3, <1>4, <2>1, <2>2 DEF Doubles
  <1>5. CASE m # 0
    <2>1. m - 1 \in Nat /\ (m - 1) + 1 = m
      BY <1>3, <1>5
    <2>2. <<m - 1, m>> \in {ss \in Nat \X Nat : ss[1] < ss[2]}
      BY <1>3, <2>1
    <2>3. m - 1 \notin T
      BY <1>2, <2>2 DEF OpToRel
    <2>4. PICK f \in [0..(m - 1) -> Nat] : Doubles(f, m - 1)
      BY <2>1, <2>3
    <2>5. \E g \in [0..((m - 1) + 1) -> Nat] : Doubles(g, (m - 1) + 1)
      BY <2>1, <2>4, DoublesOn
    <2> QED
      BY <1>3, <2>1, <2>5
  <1> QED
    BY <1>4, <1>5

\* Powers of two are naturals.
LEMMA PowerIsNat ==
    ASSUME NEW n \in 0..RetryTotal
    PROVE  Power[n] \in Nat
  <1>0. RetryTotal \in Nat
    BY OrsAssumption
  <1>1. \E f : Doubles(f, RetryTotal)
    BY <1>0, DoublesExists
  <1> DEFINE g == [k \in 0..RetryTotal |-> IF k = 0 THEN 1 ELSE 2 * Power[k - 1]]
  <1>2. Power = g
    BY <1>1 DEF Power, Doubles
  <1>3. g[0] = 1 /\ \A k \in 1..RetryTotal : g[k] = 2 * Power[k - 1]
    BY <1>0
  <1> HIDE DEF g
  <1>4. Power[0] = 1 /\ \A k \in 1..RetryTotal : Power[k] = 2 * Power[k - 1]
    BY <1>2, <1>3
  <1> DEFINE T == {k \in 0..RetryTotal : Power[k] \notin Nat}
  <1>5. SUFFICES ASSUME T # {} PROVE FALSE
    OBVIOUS
  <1>6. PICK m \in T : \A k \in T : ~(<<k, m>> \in OpToRel(<, Nat))
    <2>1. T \in SUBSET Nat
      BY <1>0
    <2> QED
      BY <1>5, <2>1, WFMin, NatLessThanWellFounded
  <1>7. m \in 0..RetryTotal /\ Power[m] \notin Nat
    OBVIOUS
  <1>8. m \in 1..RetryTotal /\ m - 1 \in 0..RetryTotal
    <2>1. m # 0
      BY <1>4, <1>7
    <2> QED
      BY <1>0, <1>7, <2>1
  <1>9. <<m - 1, m>> \in {ss \in Nat \X Nat : ss[1] < ss[2]}
    BY <1>0, <1>8
  <1>10. Power[m - 1] \in Nat
    BY <1>6, <1>8, <1>9 DEF OpToRel
  <1> QED
    BY <1>4, <1>7, <1>8, <1>10

\* What is slept before a retry is a number of seconds.
LEMMA PausesAreSeconds ==
    ASSUME failures \in 0..RetryTotal, failures # RetryTotal, NEW o,
           NEW pause \in Pauses(failures + 1, o)
    PROVE  pause \in Nat
  <1>1. RetryTotal \in Nat /\ RetryAfters \subseteq Nat
    BY OrsAssumption
  <1>2. failures \in 0..RetryTotal /\ (failures + 1) - 1 = failures
    BY <1>1
  <1>3. Power[failures] \in Nat
    BY PowerIsNat
  <1>4. Backoff(failures + 1) \in Nat
    BY <1>2, <1>3 DEF Backoff
  <1> QED
    BY <1>1, <1>4 DEF Pauses

\* The stages of a request, what it may fail with, and what that is answered as.
LEMMA ErrorTypes ==
    ASSUME NEW call \in Calls, NEW o \in Outcomes \ Found
    PROVE  StatusOf(ExceptionOf(call, o)) \in Statuses /\ CodeOf(ExceptionOf(call, o)) \in Codes
  <1> DEFINE e == ExceptionOf(call, o)
  <1>1. e \in {"RouteNotFoundError", "ProviderTimeoutError", "ProviderUnavailableError",
              "ProviderRateLimitError", "RoutingError", "KeyError", "AttributeError"}
    BY DEF ExceptionOf
  <1> HIDE DEF e
  <1>2. StatusOf(e) \in Statuses
    BY <1>1, RaisedAnswers DEF Statuses
  <1>3. CodeOf(e) \in Codes
    BY <1>1 DEF CodeOf, Codes, OwnCode
  <1> QED
    BY <1>2, <1>3 DEF e

\* And of what is raised before.
LEMMA RefusalTypes ==
    ASSUME NEW e \in Refusals
    PROVE  StatusOf(e) \in Statuses /\ CodeOf(e) \in Codes
  BY RefusalAnswers DEF Statuses, Codes

\* The two halves of TypeOK: what is counted and what is named.
Numbers ==
    /\ failures \in 0..RetryTotal /\ elapsed \in 0..WorkerTimeout
    /\ breaker \in Nat /\ posts \in Nat /\ burst \in 0..FailMax

Names ==
    /\ stage \in Calls \cup {"idle"} /\ located \subseteq Places
    /\ answer \in Statuses \cup {Lost, 0} /\ code \in Codes \cup {""}
    /\ last \in Outcomes \cup {"none"}

\* TypeOK is both.
LEMMA Halves == TypeOK <=> Numbers /\ Names
  BY DEF TypeOK, Numbers, Names

\* The constants are numbers.
LEMMA Limits ==
    /\ Timeout \in Nat /\ WorkerTimeout \in Nat /\ RetryTotal \in Nat /\ FailMax \in Nat
    /\ RetryAfters \subseteq Nat
    /\ 0 \in 0..RetryTotal /\ 0 \in 0..WorkerTimeout /\ 0 \in 0..FailMax
  BY OrsAssumption

\* Attempts take time, and no more than there is.
LEMMA AttemptTypes ==
    ASSUME Numbers, NEW o \in Outcomes, NEW pause \in Nat, Attempt(o, pause)
    PROVE  /\ elapsed' \in 0..WorkerTimeout /\ posts' \in Nat
           /\ last' \in Outcomes /\ located' = located
  <1>1. elapsed \in Nat /\ posts \in Nat /\ WorkerTimeout \in Nat
    BY Limits DEF Numbers
  <1>2. Duration(o) \in Nat
    BY Limits DEF Duration
  <1> QED
    BY <1>1, <1>2 DEF Attempt, InTime

\* Every step keeps what is counted within its limits,
LEMMA NextNumbers == Numbers /\ [Next]_vars => Numbers'
  <1> SUFFICES ASSUME Numbers, [Next]_vars PROVE Numbers'
    OBVIOUS
  <1> USE Limits
  <1>1. CASE Start \/ Refuse \/ BreakDown
    <2>1. /\ failures' = 0 /\ elapsed' = 0 /\ breaker' = 0 /\ posts' = 0
          /\ burst' = burst
      BY <1>1 DEF Start, Refuse, BreakDown, Arrive, NewProvider
    <2> QED
      BY <2>1 DEF Numbers
  <1>2. CASE Pause
    BY <1>2 DEF Pause, Numbers
  <1>3. CASE Parse
    BY <1>3 DEF Parse, Numbers
  <1>4. CASE Geocoded
    <2>1. Attempt("found", 0) /\ "found" \in Outcomes /\ failures' = 0 /\ UNCHANGED <<breaker, burst>>
      BY <1>4 DEF Geocoded, Outcomes, Found
    <2>2. elapsed' \in 0..WorkerTimeout /\ posts' \in Nat
      BY <2>1, AttemptTypes
    <2> QED
      BY <2>1, <2>2 DEF Numbers
  <1>5. CASE Routed
    <2>1. PICK o \in Found : Attempt(o, 0)
      BY <1>5, PlannedIsFound DEF Routed
    <2>2. breaker' = 0 /\ burst' = 0 /\ failures' = failures /\ o \in Outcomes
      BY <1>5, <2>1 DEF Routed, Outcomes
    <2>3. elapsed' \in 0..WorkerTimeout /\ posts' \in Nat
      BY <2>1, <2>2, AttemptTypes
    <2> QED
      BY <2>2, <2>3 DEF Numbers
  <1>6. CASE Retry
    <2>1. PICK o \in Retryable(stage) :
            ~Spent(o) /\ \E pause \in Pauses(failures + 1, o) : Attempt(o, pause)
      BY <1>6 DEF Retry
    <2>2. PICK pause \in Pauses(failures + 1, o) : Attempt(o, pause)
      BY <2>1
    <2>3. failures \in 0..RetryTotal /\ failures # RetryTotal
      BY <2>1 DEF Spent, Numbers
    <2>4. o \in Outcomes
      BY <2>1 DEF Retryable, Outcomes, Outages, NothingSent, ForcedStatus
    <2>5. pause \in Nat
      BY <2>3, PausesAreSeconds
    <2>6. elapsed' \in 0..WorkerTimeout /\ posts' \in Nat
      BY <2>2, <2>4, <2>5, AttemptTypes
    <2>7. failures' = failures + 1 /\ UNCHANGED <<breaker, burst>>
      BY <1>6 DEF Retry, CountFailure
    <2> QED
      BY <2>3, <2>6, <2>7 DEF Numbers
  <1>7. CASE Raise
    <2>1. PICK o \in Outcomes : Attempt(o, 0)
      BY <1>7 DEF Raise
    <2>2. /\ failures' = failures /\ breaker' \in {breaker, breaker + 1}
          /\ burst' \in {burst, Worse(burst)}
      BY <1>7 DEF Raise
    <2>3. elapsed' \in 0..WorkerTimeout /\ posts' \in Nat
      BY <2>1, AttemptTypes
    <2>4. Worse(burst) \in 0..FailMax
      BY DEF Worse, Numbers
    <2> QED
      BY <2>2, <2>3, <2>4 DEF Numbers
  <1>8. CASE Kill
    <2>1. /\ elapsed' = WorkerTimeout /\ posts' \in {posts, posts + 1}
          /\ UNCHANGED <<failures, breaker, burst>>
      BY <1>8 DEF Kill
    <2> QED
      BY <2>1 DEF Numbers
  <1>9. CASE UNCHANGED vars
    BY <1>9 DEF vars, Numbers
  <1> QED
    BY <1>1, <1>2, <1>3, <1>4, <1>5, <1>6, <1>7, <1>8, <1>9 DEF Next, Step

\* and names what there is: the answers are those of the handler.
LEMMA NextNames == Numbers /\ Names /\ [Next]_vars => Names'
  <1> SUFFICES ASSUME Numbers, Names, [Next]_vars PROVE Names'
    OBVIOUS
  <1>0. "idle" \in Calls \cup {"idle"}
    OBVIOUS
  <1>1. CASE Start
    <2>1. located' \subseteq Places /\ stage' \in Calls
      BY <1>1 DEF Start, Located, Calls, Places
    <2>2. answer' = 0 /\ code' = "" /\ last' = "none"
      BY <1>1 DEF Start, Arrive
    <2> QED
      BY <2>1, <2>2 DEF Names
  <1>2. CASE Refuse
    <2>1. PICK e \in Refusals : answer' = StatusOf(e) /\ code' = CodeOf(e)
      BY <1>2 DEF Refuse, AnswerError
    <2>2. answer' \in Statuses /\ code' \in Codes
      BY <2>1, RefusalTypes
    <2>3. located' = {} /\ stage' = stage /\ last' = "none"
      BY <1>2 DEF Refuse, Arrive
    <2> QED
      BY <2>2, <2>3 DEF Names
  <1>3. CASE Pause
    BY <1>3 DEF Pause, Names
  <1>4. CASE Parse
    <2>1. stage' \in Calls
      BY <1>4 DEF Parse, NextCall, Calls, Places
    <2>2. UNCHANGED <<located, answer, code, last>>
      BY <1>4 DEF Parse
    <2> QED
      BY <2>1, <2>2 DEF Names
  <1>5. CASE Geocoded
    <2>1. Attempt("found", 0) /\ "found" \in Outcomes /\ stage' \in Calls
      BY <1>5 DEF Geocoded, NextCall, Calls, Places, Outcomes, Found
    <2>2. last' \in Outcomes /\ located' = located
      BY <2>1, AttemptTypes
    <2>3. UNCHANGED <<answer, code>>
      BY <1>5 DEF Geocoded
    <2> QED
      BY <2>1, <2>2, <2>3 DEF Names
  <1>6. CASE Routed
    <2>1. PICK g \in Geometries :
             /\ Attempt(Planned(g), 0)
             /\ \/ answer' = 200 /\ code' = ""
                \/ \E e \in PlanningErrors(Planned(g)) : AnswerError(e)
      BY <1>6 DEF Routed
    <2>2. Planned(g) \in Outcomes /\ stage' = "idle"
      BY <1>6, PlannedIsFound DEF Routed, Outcomes
    <2>3. last' \in Outcomes /\ located' = located
      BY <2>1, <2>2, AttemptTypes
    <2>4. \/ answer' = 200 /\ code' = ""
          \/ answer' = 500 /\ code' = "internal_server_error"
      BY <2>1, OwnAnswers DEF AnswerError
    <2>5. answer' \in Statuses /\ code' \in Codes \cup {""}
      BY <2>4 DEF Statuses, Codes
    <2> QED
      BY <2>2, <2>3, <2>5 DEF Names
  <1>7. CASE Retry
    <2>1. PICK o \in Retryable(stage) :
            \E pause \in Pauses(failures + 1, o) : Attempt(o, pause)
      BY <1>7 DEF Retry
    <2>2. o \in Outcomes
      BY <2>1 DEF Retryable, Outcomes, Outages, NothingSent, ForcedStatus
    <2>3. last' = o /\ UNCHANGED <<stage, located, answer, code>>
      BY <1>7, <2>1 DEF Retry, Attempt
    <2> QED
      BY <2>2, <2>3 DEF Names
  <1>8. CASE Raise
    <2>1. PICK o \in Outcomes \ Found :
             Attempt(o, 0) /\ AnswerError(ExceptionOf(stage, o))
      BY <1>8 DEF Raise
    <2>2. stage \in Calls /\ stage' = "idle"
      BY <1>8 DEF Raise, Calling
    <2>3. last' \in Outcomes /\ located' = located
      BY <2>1, AttemptTypes
    <2>4. answer' \in Statuses /\ code' \in Codes
      BY <2>1, <2>2, ErrorTypes DEF AnswerError
    <2> QED
      BY <2>2, <2>3, <2>4 DEF Names
  <1>9. CASE Kill
    <2>1. /\ stage' = "idle" /\ answer' = Lost /\ code' = "" /\ last' \in Outcomes
          /\ located' = located
      BY <1>9 DEF Kill
    <2> QED
      BY <2>1 DEF Names
  <1>10. CASE UNCHANGED vars
    BY <1>10 DEF vars, Names
  <1>11. CASE BreakDown
    <2>1. PICK e \in OwnFailures : answer' = StatusOf(e) /\ code' = CodeOf(e)
      BY <1>11 DEF BreakDown, AnswerError
    <2>2. answer' = 500 /\ code' = "internal_server_error"
      BY <2>1, OwnAnswers DEF PlanningErrors
    <2>3. answer' \in Statuses /\ code' \in Codes
      BY <2>2 DEF Statuses, Codes
    <2>4. located' = {} /\ stage' = stage /\ last' = "none"
      BY <1>11 DEF BreakDown, Arrive
    <2> QED
      BY <2>3, <2>4 DEF Names
  <1> QED
    BY <1>1, <1>2, <1>3, <1>4, <1>5, <1>6, <1>7, <1>8, <1>9, <1>10, <1>11 DEF Next, Step

\* The worker's clock stays within its timeout, retries and the count of failed
\* route calls within their limits, and an answer is one the handler can give.
THEOREM TypeCorrect == Spec => []TypeOK
  <1>1. Init => Numbers
    <2> SUFFICES ASSUME Init PROVE Numbers
      OBVIOUS
    <2>1. failures = 0 /\ elapsed = 0 /\ breaker = 0 /\ posts = 0 /\ burst = 0
      BY DEF Init
    <2> QED
      BY <2>1, Limits DEF Numbers
  <1>2. Init => Names
    BY DEF Init, Names, Calls
  <1> QED
    BY <1>1, <1>2, Halves, NextNumbers, NextNames, PTL DEF Spec

-----------------------------------------------------------------------------
(* The half of EveryRequestEnds that needs no fairness.                     *)

\* The attempts that call may still take, and the steps between calls.
AttemptsLeft ==
    CASE stage = "origin" -> 2 * (RetryTotal + 2) + RetryTotal - failures + 1
      [] stage = "destination" -> (RetryTotal + 2) + RetryTotal - failures + 1
      [] stage = "directions" -> RetryTotal - failures + 1
      [] OTHER -> 0

LEMMA AttemptsLeftIsNat == TypeOK => AttemptsLeft \in Nat
  <1> SUFFICES ASSUME TypeOK PROVE AttemptsLeft \in Nat
    OBVIOUS
  <1>1. RetryTotal \in Nat /\ failures \in 0..RetryTotal
    BY Limits DEF TypeOK
  <1> QED
    BY <1>1 DEF AttemptsLeft

\* Whatever ORS answers, every step of a request leaves it fewer attempts: the
\* retries are counted for each call, and no call is made again once it is over
\* (ors_provider.py:50-54, 57-75).
THEOREM AttemptsCountDown ==
    Spec => /\ [](AttemptsLeft \in Nat)
            /\ [][stage # "idle" => AttemptsLeft' < AttemptsLeft]_vars
  <1>1. TypeOK /\ TypeOK' /\ [Next]_vars => [stage # "idle" => AttemptsLeft' < AttemptsLeft]_vars
    <2> SUFFICES ASSUME TypeOK, TypeOK', Next, stage # "idle"
                 PROVE  AttemptsLeft' < AttemptsLeft
      BY DEF vars
    <2>1. /\ RetryTotal \in Nat /\ failures \in 0..RetryTotal /\ failures' \in 0..RetryTotal
          /\ stage \in {"origin", "destination", "directions"}
      BY Limits DEF TypeOK, Calls, Places
    <2>2. Step
      BY DEF Next, Start, Refuse, BreakDown, Arrive, Pause
    <2>3. CASE stage' = NextCall(stage) /\ stage \in Places
      <3>1. CASE stage = "origin"
        <4>1. stage' = "destination"
          BY <2>3, <3>1 DEF NextCall
        <4> QED
          BY <4>1, <3>1, <2>1 DEF AttemptsLeft
      <3>2. CASE stage = "destination"
        <4>1. stage' = "directions"
          BY <2>3, <3>2 DEF NextCall
        <4> QED
          BY <4>1, <3>2, <2>1 DEF AttemptsLeft
      <3> QED
        BY <2>3, <3>1, <3>2 DEF Places
    <2>4. CASE stage' = "idle"
      <3>1. AttemptsLeft' = 0
        BY <2>4 DEF AttemptsLeft
      <3>2. AttemptsLeft >= 1
        BY <2>1 DEF AttemptsLeft
      <3> QED
        BY <3>1, <3>2, <2>1, AttemptsLeftIsNat
    <2>5. CASE stage' = stage /\ failures' = failures + 1
      BY <2>1, <2>5 DEF AttemptsLeft
    <2>6. CASE Parse \/ Geocoded
      <3>1. stage' = NextCall(stage) /\ stage \in Places
        BY <2>6 DEF Parse, Geocoded, TypeOK
      <3> QED
        BY <3>1, <2>3
    <2>7. CASE Routed \/ Raise \/ Kill
      <3>1. stage' = "idle"
        BY <2>7 DEF Routed, Raise, Kill
      <3> QED
        BY <3>1, <2>4
    <2>8. CASE Retry
      <3>1. stage' = stage /\ failures' = failures + 1
        BY <2>8 DEF Retry, CountFailure
      <3> QED
        BY <3>1, <2>5
    <2> QED
      BY <2>2, <2>6, <2>7, <2>8 DEF Step
  <1> QED
    BY <1>1, TypeCorrect, AttemptsLeftIsNat, PTL DEF Spec

=============================================================================
