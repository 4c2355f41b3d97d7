----------------------- MODULE ProviderCircuitProofs -----------------------
(***************************************************************************)
(* What ProviderCircuit guarantees for any providers, requests, policy and *)
(* length of behaviour: providers rest after failures, a fallback is       *)
(* bounded, and a request is refused only for cause.                       *)
(***************************************************************************)
EXTENDS ProviderCircuit, FiniteSetTheorems, TLAPS

\* The types the two invariants need.
HealthTypes ==
    /\ circuit \in [Provider -> CircuitState]
    /\ failures \in [Provider -> 0..FailureThreshold]
    /\ retryAt \in [Provider -> Nat \cup {Never}]
    /\ now \in Nat
    /\ calls \in [Request -> [Provider -> Nat]]
    /\ streak \in [Provider -> 0..FailureThreshold]
    /\ lastFailure \in [Provider -> Nat \cup {Never}]

\* A provider that has failed FailureThreshold times since its last success
\* is shut until its rest is over, or half open after it.
Resting(p) ==
    /\ lastFailure[p] # Never
    /\ \/ /\ circuit[p] = "open"
          /\ retryAt[p] = lastFailure[p] + RecoveryTimeout
       \/ /\ circuit[p] = "half_open"
          /\ now >= lastFailure[p] + RecoveryTimeout

RestInv ==
    /\ HealthTypes
    /\ \A p \in Provider :
          /\ streak[p] <= failures[p]
          /\ streak[p] >= FailureThreshold => Resting(p)

\* The counters saturate in their types.
LEMMA AtMostRange ==
    ASSUME NEW n \in Nat, NEW bound \in Nat
    PROVE  /\ AtMost(n, bound) \in 0..bound
           /\ AtMost(n, bound) >= bound <=> n >= bound
           /\ AtMost(n, bound) <= n
  BY DEF AtMost

\* A further failure keeps the history's count below the code's.
LEMMA CountsInStep ==
    ASSUME NEW s \in Nat, NEW f \in Nat, NEW bound \in Nat, s <= f
    PROVE  AtMost(s + 1, bound) <= AtMost(f + 1, bound)
  BY DEF AtMost

\* One more call of p changes the count of p alone.
LEMMA CalledTyped ==
    ASSUME NEW c \in [Provider -> Nat], NEW p \in Provider
    PROVE  /\ Called(c, p) \in [Provider -> Nat]
           /\ Called(c, p)[p] = c[p] + 1
           /\ \A q \in Provider \ {p} : Called(c, p)[q] = c[q]
  BY DEF Called

LEMMA RestInit == Init => RestInv
  BY CircuitAssumption DEF Init, RestInv, HealthTypes, CircuitState, Never

LEMMA RestRefresh ==
    ASSUME RestInv, NEW r \in Request, RefreshExpired(r)
    PROVE  RestInv'
<1>1. HealthTypes'
  BY CircuitAssumption DEF RestInv, HealthTypes, RefreshExpired, record, CircuitState
<1>2. ASSUME NEW p \in Provider
      PROVE  streak'[p] <= failures'[p] /\ (streak'[p] >= FailureThreshold => Resting(p)')
  BY <1>2, CircuitAssumption
  DEF RestInv, HealthTypes, RefreshExpired, record, Resting, Expired, CircuitState, Never
<1>3. QED
  BY <1>1, <1>2 DEF RestInv

LEMMA RestHalfOpen ==
    ASSUME RestInv, NEW p \in Provider, MayProbe(p), HalfOpen(p),
           UNCHANGED <<failures, retryAt, now, streak, lastFailure>>,
           calls' \in [Request -> [Provider -> Nat]]
    PROVE  RestInv'
<1>1. HealthTypes'
  BY CircuitAssumption DEF RestInv, HealthTypes, HalfOpen, CircuitState
<1>2. ASSUME NEW q \in Provider
      PROVE  streak'[q] <= failures'[q] /\ (streak'[q] >= FailureThreshold => Resting(q)')
  BY <1>2, CircuitAssumption
  DEF RestInv, HealthTypes, HalfOpen, MayProbe, Resting, CircuitState, Never
<1>3. QED
  BY <1>1, <1>2 DEF RestInv

LEMMA RestSucceeds ==
    ASSUME RestInv, NEW r \in Request, NEW p \in Provider, CallSucceeds(r, p)
    PROVE  RestInv'
<1>1. HealthTypes'
  <2>1. CASE ProbePassed(p)
    BY <2>1, CircuitAssumption DEF RestInv, HealthTypes, CallSucceeds
  <2>2. CASE ~ProbePassed(p)
    <3>1. 0 \in 0..FailureThreshold /\ Never \in Nat \cup {Never} /\ "closed" \in CircuitState
      BY CircuitAssumption DEF CircuitState
    <3>2. QED
      BY <2>2, <3>1 DEF RestInv, HealthTypes, CallSucceeds
  <2>3. QED
    BY <2>1, <2>2
<1>2. ASSUME NEW q \in Provider
      PROVE  streak'[q] <= failures'[q] /\ (streak'[q] >= FailureThreshold => Resting(q)')
  BY <1>2, CircuitAssumption DEF RestInv, HealthTypes, CallSucceeds, Resting, Never
<1>3. QED
  BY <1>1, <1>2 DEF RestInv

LEMMA RestFails ==
    ASSUME RestInv, NEW r \in Request, NEW p \in Provider, NEW kind \in Failure,
           CallFails(r, p, kind)
    PROVE  RestInv'
<1>0. /\ FailureThreshold \in Nat \ {0} /\ RecoveryTimeout \in Nat \ {0}
      /\ streak[p] \in Nat /\ failures[p] \in Nat /\ streak[p] <= failures[p]
      /\ now \in Nat /\ now # Never
  BY CircuitAssumption DEF RestInv, HealthTypes, Never
<1>1. /\ AtMost(streak[p] + 1, FailureThreshold) \in 0..FailureThreshold
      /\ AtMost(failures[p] + 1, FailureThreshold) \in 0..FailureThreshold
      /\ AtMost(streak[p] + 1, FailureThreshold) <= AtMost(failures[p] + 1, FailureThreshold)
      /\ AtMost(streak[p] + 1, FailureThreshold) >= FailureThreshold
            => failures[p] + 1 >= FailureThreshold
  <2>1. streak[p] + 1 \in Nat /\ failures[p] + 1 \in Nat /\ FailureThreshold \in Nat
    BY <1>0
  <2>2. AtMost(streak[p] + 1, FailureThreshold) <= AtMost(failures[p] + 1, FailureThreshold)
    BY <1>0, CountsInStep
  <2>3. /\ AtMost(streak[p] + 1, FailureThreshold) \in 0..FailureThreshold
        /\ AtMost(failures[p] + 1, FailureThreshold) \in 0..FailureThreshold
        /\ AtMost(streak[p] + 1, FailureThreshold) >= FailureThreshold
              => streak[p] + 1 >= FailureThreshold
    BY <2>1, AtMostRange
  <2>4. QED
    BY <1>0, <2>2, <2>3
<1>2. /\ streak' = [streak EXCEPT ![p] = AtMost(streak[p] + 1, FailureThreshold)]
      /\ failures' = [failures EXCEPT ![p] = AtMost(failures[p] + 1, FailureThreshold)]
      /\ lastFailure' = [lastFailure EXCEPT ![p] = now]
      /\ now' = now /\ calls' = calls
  BY DEF CallFails
<1>3. HealthTypes'
  BY <1>0, <1>1, <1>2 DEF RestInv, HealthTypes, CallFails, CircuitState, RetryTime
<1>4. /\ streak'[p] <= failures'[p]
      /\ streak'[p] >= FailureThreshold => Resting(p)'
  BY <1>0, <1>1, <1>2
  DEF RestInv, HealthTypes, CallFails, Resting, ShouldOpen, RetryTime
<1>5. ASSUME NEW q \in Provider, q # p
      PROVE  streak'[q] <= failures'[q] /\ (streak'[q] >= FailureThreshold => Resting(q)')
  BY <1>2, <1>5 DEF RestInv, HealthTypes, CallFails, Resting
<1>6. QED
  BY <1>3, <1>4, <1>5 DEF RestInv

LEMMA RestTick ==
    ASSUME RestInv, Tick
    PROVE  RestInv'
<1>1. HealthTypes'
  BY DEF RestInv, HealthTypes, Tick, health, record
<1>2. ASSUME NEW p \in Provider
      PROVE  streak'[p] <= failures'[p] /\ (streak'[p] >= FailureThreshold => Resting(p)')
  BY <1>2, CircuitAssumption
  DEF RestInv, HealthTypes, Tick, health, record, Resting, Never
<1>3. QED
  BY <1>1, <1>2 DEF RestInv

\* Steps of a request that leave circuits, counters and calls alone.
LEMMA RestFrame ==
    ASSUME RestInv, UNCHANGED <<health, now, calls, record>>
    PROVE  RestInv'
  BY DEF RestInv, HealthTypes, Resting, health, record

\* A restart keeps all that is known of a provider, or forgets it all.
LEMMA RestRestart ==
    ASSUME RestInv, Restart
    PROVE  RestInv'
<1>1. CASE stored
  BY <1>1, RestFrame DEF Restart, record
<1>2. CASE ~stored
  <2>1. 0 \in 0..FailureThreshold /\ ~(0 >= FailureThreshold)
    BY CircuitAssumption
  <2>2. /\ \A p \in Provider : streak'[p] = 0 /\ failures'[p] = 0
        /\ streak' \in [Provider -> 0..FailureThreshold]
    BY <1>2, <2>1 DEF Restart, ForgetHealth
  <2>3. HealthTypes'
    BY <1>2, <2>1, <2>2 DEF Restart, ForgetHealth, RestInv, HealthTypes, CircuitState
  <2> QED BY <2>1, <2>2, <2>3 DEF RestInv
<1> QED BY <1>1, <1>2

LEMMA RestNext == RestInv /\ [Next]_vars => RestInv'
<1> SUFFICES ASSUME RestInv, [Next]_vars PROVE RestInv'
  OBVIOUS
<1>1. CASE UNCHANGED vars
  BY <1>1, RestFrame DEF vars
<1>2. ASSUME NEW r \in Request, Arrive(r) PROVE RestInv'
  BY <1>2, RestFrame DEF Arrive
<1>3. ASSUME NEW r \in Request, RequestStep(r) PROVE RestInv'
  <2>1. CASE RefreshExpired(r)
    BY <2>1, RestRefresh
  <2>2. CASE RouteRefused(r) \/ CallBreaks(r)
    BY <2>2, RestFrame DEF RouteRefused, CallBreaks
  <2>3. ASSUME NEW p \in Provider, RouteTo(r, p) \/ DenyOpen(r, p) PROVE RestInv'
    BY <2>3, RestFrame DEF RouteTo, DenyOpen
  <2>4. ASSUME NEW p \in Provider, Admit(r, p) PROVE RestInv'
    <3>1. calls' \in [Request -> [Provider -> Nat]]
      BY <2>4, CalledTyped DEF RestInv, HealthTypes, Admit
    <3>2. QED
      BY <2>4, <3>1, RestHalfOpen DEF Admit, record
  <2>5. ASSUME NEW p \in Provider, DenyCapability(r, p) PROVE RestInv'
    BY <2>5, RestHalfOpen DEF DenyCapability, record, RestInv, HealthTypes
  <2>6. ASSUME NEW p \in Provider, CallSucceeds(r, p) PROVE RestInv'
    BY <2>6, RestSucceeds
  <2>7. ASSUME NEW p \in Provider, NEW kind \in Failure, CallFails(r, p, kind) PROVE RestInv'
    BY <2>7, RestFails
  <2>8. QED
    BY <1>3, <2>1, <2>2, <2>3, <2>4, <2>5, <2>6, <2>7 DEF RequestStep
<1>4. CASE Tick
  BY <1>4, RestTick
<1>5. CASE Restart
  BY <1>5, RestRestart
<1>6. QED
  BY <1>1, <1>2, <1>3, <1>4, <1>5 DEF Next

\* Only an admitted call adds to calls.
LEMMA OnlyAdmitCalls ==
    ASSUME RestInv, [Next]_vars, NEW r \in Request, NEW p \in Provider,
           calls'[r][p] > calls[r][p]
    PROVE  MayProbe(p)
<1>0. calls \in [Request -> [Provider -> Nat]]
  BY DEF RestInv, HealthTypes
<1>1. ~UNCHANGED calls
  BY <1>0
<1>2. PICK s \in Request, q \in Provider : Admit(s, q)
  BY <1>1 DEF Next, vars, Arrive, RequestStep, RefreshExpired, RouteRefused, CallBreaks,
     RouteTo, DenyOpen, DenyCapability, CallSucceeds, CallFails, Tick, Restart
<1>3. calls'[s] = Called(calls[s], q) /\ \A t \in Request \ {s} : calls'[t] = calls[t]
  BY <1>0, <1>2 DEF Admit
<1>4. s = r
  BY <1>0, <1>3
<1>5. q = p
  BY <1>0, <1>3, <1>4, CalledTyped
<1>6. QED
  BY <1>2, <1>5 DEF Admit

\* A provider that failed FailureThreshold times in a row is called by nobody
\* before the recovery timeout is over (before_call, record_failure).
THEOREM RestsAfterFailuresHolds == Spec => RestsAfterFailures
<1>1. RestInv /\ [Next]_vars =>
        [\A r \in Request, p \in Provider :
            calls'[r][p] > calls[r][p] /\ streak[p] >= FailureThreshold
            => now >= lastFailure[p] + RecoveryTimeout]_vars
  <2> SUFFICES ASSUME RestInv, [Next]_vars, NEW r \in Request, NEW p \in Provider,
                      calls'[r][p] > calls[r][p], streak[p] >= FailureThreshold
               PROVE  now >= lastFailure[p] + RecoveryTimeout
    OBVIOUS
  <2>1. MayProbe(p)
    BY OnlyAdmitCalls
  <2>2. Resting(p)
    BY DEF RestInv
  <2>3. QED
    BY <2>1, <2>2, CircuitAssumption DEF RestInv, HealthTypes, Resting, MayProbe, Never
<1>2. QED
  BY <1>1, RestInit, RestNext, PTL DEF Spec, RestsAfterFailures

-----------------------------------------------------------------------------
\* What a request has attempted bounds what it has called: a provider enters
\* attempted before it is called, and a turn starts below the maximum.
FallbackInv(r) ==
    /\ attempted[r] \subseteq Provider
    /\ IsFiniteSet(attempted[r])
    /\ Cardinality(attempted[r]) <= MaximumAttempts
    /\ \A p \in Provider : calls[r][p] <= 1 /\ (calls[r][p] > 0 => p \in attempted[r])
    /\ pc[r] = "new" => attempted[r] = {}
    /\ pc[r] \in {"refresh", "route"} => Cardinality(attempted[r]) < MaximumAttempts
    /\ pc[r] = "admit" => choice[r] \in attempted[r] /\ calls[r][choice[r]] = 0

FallbackTypes ==
    /\ pc \in [Request -> Place]
    /\ choice \in [Request -> Provider \cup {Nobody}]
    /\ attempted \in [Request -> SUBSET Provider]
    /\ calls \in [Request -> [Provider -> Nat]]

FallbackAll == FallbackTypes /\ \A r \in Request : FallbackInv(r)

LEMMA FallbackInit == Init => FallbackAll
<1> SUFFICES ASSUME Init PROVE FallbackAll
  OBVIOUS
<1>1. FallbackTypes
  BY DEF Init, FallbackTypes, Place
<1>2. IsFiniteSet({}) /\ Cardinality({}) = 0
  BY FS_EmptySet
<1>3. ASSUME NEW r \in Request PROVE FallbackInv(r)
  BY <1>2, CircuitAssumption DEF Init, FallbackInv
<1>4. QED
  BY <1>1, <1>3 DEF FallbackAll

\* A step that moves at most request r, to a place that begins no turn.
LEMMA FallbackMoves ==
    ASSUME FallbackAll, NEW r \in Request, NEW place \in Place,
           UNCHANGED <<choice, attempted, calls>>, Move(r, place),
           place # "admit", place # "new",
           place \in {"refresh", "route"} =>
              Cardinality(attempted[r]) < MaximumAttempts
    PROVE  FallbackAll'
<1>1. FallbackTypes'
  BY DEF FallbackAll, FallbackTypes, Move
<1>2. ASSUME NEW t \in Request PROVE FallbackInv(t)'
  <2>1. CASE t = r
    BY <2>1 DEF FallbackAll, FallbackTypes, FallbackInv, Move
  <2>2. CASE t # r
    BY <2>2 DEF FallbackAll, FallbackTypes, FallbackInv, Move
  <2>3. QED
    BY <2>1, <2>2
<1>3. QED
  BY <1>1, <1>2 DEF FallbackAll

LEMMA FallbackTurns ==
    ASSUME FallbackAll, NEW r \in Request, NextTurn(r),
           UNCHANGED <<choice, attempted, calls>>
    PROVE  FallbackAll'
<1>0. Cardinality(attempted[r]) \in Nat
  BY FS_CardinalityType DEF FallbackAll, FallbackInv
<1>1. CASE Cardinality(attempted[r]) >= MaximumAttempts
  BY <1>1, FallbackMoves DEF NextTurn, Place, Ended
<1>2. CASE ~(Cardinality(attempted[r]) >= MaximumAttempts)
  BY <1>0, <1>2, FallbackMoves, CircuitAssumption DEF NextTurn, Place
<1>3. QED
  BY <1>1, <1>2

LEMMA FallbackRoutes ==
    ASSUME FallbackAll, NEW r \in Request, NEW p \in Provider, RouteTo(r, p)
    PROVE  FallbackAll'
<1>0. /\ p \notin attempted[r] /\ pc[r] = "route"
      /\ IsFiniteSet(attempted[r]) /\ Cardinality(attempted[r]) < MaximumAttempts
  BY DEF RouteTo, Preferred, Candidates, FallbackAll, FallbackInv
<1>1. /\ IsFiniteSet(attempted[r] \cup {p})
      /\ Cardinality(attempted[r] \cup {p}) = Cardinality(attempted[r]) + 1
      /\ Cardinality(attempted[r]) \in Nat
  BY <1>0, FS_AddElement, FS_CardinalityType
<1>2. FallbackTypes'
  BY DEF FallbackAll, FallbackTypes, RouteTo, Move, Place
<1>3. ASSUME NEW t \in Request PROVE FallbackInv(t)'
  <2>1. CASE t = r
    <3>1. /\ attempted'[r] = attempted[r] \cup {p} /\ choice'[r] = p /\ pc'[r] = "admit"
          /\ calls' = calls
      BY DEF FallbackAll, FallbackTypes, RouteTo, Move
    <3>2. Cardinality(attempted'[r]) <= MaximumAttempts
      BY <1>0, <1>1, <3>1, CircuitAssumption
    <3>3. calls[r][p] = 0
      BY <1>0 DEF FallbackAll, FallbackInv, FallbackTypes
    <3>4. QED
      BY <1>1, <2>1, <3>1, <3>2, <3>3 DEF FallbackAll, FallbackTypes, FallbackInv
  <2>2. CASE t # r
    BY <2>2 DEF FallbackAll, FallbackTypes, FallbackInv, RouteTo, Move
  <2>3. QED
    BY <2>1, <2>2
<1>4. QED
  BY <1>2, <1>3 DEF FallbackAll

LEMMA FallbackAdmits ==
    ASSUME FallbackAll, NEW r \in Request, NEW p \in Provider, Admit(r, p)
    PROVE  FallbackAll'
<1>0. calls[r] \in [Provider -> Nat] /\ calls[r][p] = 0 /\ p \in attempted[r]
  BY DEF FallbackAll, FallbackTypes, FallbackInv, Admit
<1>1. /\ Called(calls[r], p) \in [Provider -> Nat]
      /\ Called(calls[r], p)[p] = 1
      /\ \A q \in Provider \ {p} : Called(calls[r], p)[q] = calls[r][q]
  BY <1>0, CalledTyped
<1>2. /\ attempted' = attempted /\ choice' = choice
      /\ pc' = [pc EXCEPT ![r] = "calling"]
      /\ calls' = [calls EXCEPT ![r] = Called(calls[r], p)]
  BY DEF Admit, fallback, Move
<1>3. FallbackTypes'
  BY <1>1, <1>2 DEF FallbackAll, FallbackTypes, Place
<1>4. ASSUME NEW t \in Request PROVE FallbackInv(t)'
  <2>1. CASE t = r
    <3>1. ASSUME NEW q \in Provider
          PROVE  calls'[r][q] <= 1 /\ (calls'[r][q] > 0 => q \in attempted[r])
      <4>1. CASE q = p
        BY <1>0, <1>1, <1>2, <4>1 DEF FallbackAll, FallbackTypes
      <4>2. CASE q # p
        BY <1>1, <1>2, <4>2 DEF FallbackAll, FallbackTypes, FallbackInv
      <4>3. QED
        BY <4>1, <4>2
    <3>2. pc'[r] = "calling"
      BY <1>2 DEF FallbackAll, FallbackTypes
    <3>3. QED
      BY <1>2, <2>1, <3>1, <3>2 DEF FallbackAll, FallbackInv
  <2>2. CASE t # r
    BY <1>2, <2>2 DEF FallbackAll, FallbackTypes, FallbackInv
  <2>3. QED
    BY <2>1, <2>2
<1>5. QED
  BY <1>3, <1>4 DEF FallbackAll

LEMMA FallbackFrame ==
    ASSUME FallbackAll, UNCHANGED <<pc, choice, attempted, calls>>
    PROVE  FallbackAll'
  BY DEF FallbackAll, FallbackTypes, FallbackInv

LEMMA FallbackRestart ==
    ASSUME FallbackAll, Restart
    PROVE  FallbackAll'
<1>1. /\ attempted' = attempted /\ choice' = choice /\ calls' = calls
      /\ pc' = [r \in Request |-> IF Active(r) THEN "lost" ELSE pc[r]]
  BY DEF Restart, fallback
<1>2. FallbackTypes'
  BY <1>1 DEF FallbackAll, FallbackTypes, Place, Ended
<1>3. ASSUME NEW r \in Request PROVE FallbackInv(r)'
  BY <1>1, <1>3 DEF FallbackAll, FallbackTypes, FallbackInv, Active
<1>4. QED
  BY <1>2, <1>3 DEF FallbackAll

LEMMA FallbackNext == FallbackAll /\ [Next]_vars => FallbackAll'
<1> SUFFICES ASSUME FallbackAll, [Next]_vars PROVE FallbackAll'
  OBVIOUS
<1>0. {"refresh", "route", "refused", "served", "failed"} \subseteq Place
  BY DEF Place, Ended
<1>1. CASE UNCHANGED vars
  BY <1>1, FallbackFrame DEF vars, fallback
<1>2. ASSUME NEW r \in Request, Arrive(r) PROVE FallbackAll'
  <2>1. Cardinality(attempted[r]) < MaximumAttempts
    BY <1>2, FS_EmptySet, CircuitAssumption DEF Arrive, FallbackAll, FallbackInv
  <2>2. QED
    BY <1>0, <1>2, <2>1, FallbackMoves DEF Arrive, fallback
<1>3. ASSUME NEW r \in Request, RequestStep(r) PROVE FallbackAll'
  <2>1. CASE RefreshExpired(r)
    <3>1. Cardinality(attempted[r]) < MaximumAttempts
      BY <2>1 DEF RefreshExpired, FallbackAll, FallbackInv
    <3>2. QED
      BY <1>0, <2>1, <3>1, FallbackMoves DEF RefreshExpired, fallback
  <2>2. CASE RouteRefused(r) \/ CallBreaks(r)
    BY <1>0, <2>2, FallbackMoves DEF RouteRefused, CallBreaks, fallback
  <2>3. ASSUME NEW p \in Provider, RouteTo(r, p) PROVE FallbackAll'
    BY <2>3, FallbackRoutes
  <2>4. ASSUME NEW p \in Provider, Admit(r, p) PROVE FallbackAll'
    BY <2>4, FallbackAdmits
  <2>5. ASSUME NEW p \in Provider, DenyOpen(r, p) \/ DenyCapability(r, p) PROVE FallbackAll'
    BY <2>5, FallbackTurns DEF DenyOpen, DenyCapability, fallback
  <2>6. ASSUME NEW p \in Provider, CallSucceeds(r, p) PROVE FallbackAll'
    BY <1>0, <2>6, FallbackMoves DEF CallSucceeds, fallback
  <2>7. ASSUME NEW p \in Provider, NEW kind \in Failure, CallFails(r, p, kind)
        PROVE  FallbackAll'
    <3>1. UNCHANGED <<choice, attempted, calls>>
      BY <2>7 DEF CallFails, fallback
    <3>2. CASE kind = "final"
      <4>1. Move(r, "failed")
        BY <2>7, <3>2 DEF CallFails
      <4>2. QED
        BY <1>0, <3>1, <4>1, FallbackMoves
    <3>3. CASE kind # "final"
      <4>1. NextTurn(r)
        BY <2>7, <3>3 DEF CallFails
      <4>2. QED
        BY <3>1, <4>1, FallbackTurns
    <3>4. QED
      BY <3>2, <3>3
  <2>8. QED
    BY <1>3, <2>1, <2>2, <2>3, <2>4, <2>5, <2>6, <2>7 DEF RequestStep
<1>4. CASE Tick
  BY <1>4, FallbackFrame DEF Tick, fallback
<1>5. CASE Restart
  BY <1>5, FallbackRestart
<1>6. QED
  BY <1>1, <1>2, <1>3, <1>4, <1>5 DEF Next

LEMMA FallbackBounds == FallbackAll => FallbackIsBounded
<1> SUFFICES ASSUME FallbackAll, NEW r \in Request
             PROVE  /\ \A p \in Provider : calls[r][p] <= 1
                    /\ Cardinality({p \in Provider : calls[r][p] > 0}) <= MaximumAttempts
  BY DEF FallbackIsBounded
<1> DEFINE C == {p \in Provider : calls[r][p] > 0}
<1>1. /\ IsFiniteSet(attempted[r]) /\ C \subseteq attempted[r]
      /\ Cardinality(attempted[r]) <= MaximumAttempts
  BY DEF FallbackAll, FallbackInv
<1>2. /\ IsFiniteSet(C) /\ Cardinality(C) <= Cardinality(attempted[r])
      /\ Cardinality(C) \in Nat /\ Cardinality(attempted[r]) \in Nat
  BY <1>1, FS_Subset, FS_CardinalityType
<1>3. Cardinality(C) <= MaximumAttempts
  BY <1>1, <1>2, CircuitAssumption
<1>4. QED
  BY <1>3 DEF FallbackAll, FallbackInv

\* A request calls no provider twice and at most MaximumAttempts of them
\* (FallbackStateMachine), for any number of requests and providers.
THEOREM FallbackIsBoundedHolds == Spec => []FallbackIsBounded
  BY FallbackInit, FallbackNext, FallbackBounds, PTL DEF Spec

-----------------------------------------------------------------------------
(***************************************************************************)
(* Why a request is refused.  What it has attempted and is not at the      *)
(* moment to be admitted to was called or out of service (Excused).  A     *)
(* circuit that is open when the request is routed was shut when the       *)
(* circuits were refreshed, or has been opened since: the request has seen *)
(* it out of service, or it is so now.                                     *)
(***************************************************************************)
Excused(r, p) == calls[r][p] > 0 \/ p \in unfit[r]

CauseInv ==
    /\ \A p \in Provider : circuit[p] = "open" => retryAt[p] # Never
    /\ \A r \in Request :
          /\ Active(r) => \A p \in attempted[r] :
                Excused(r, p) \/ (pc[r] = "admit" /\ choice[r] = p)
          /\ pc[r] = "route" => \A p \in Provider :
                circuit[p] = "open" => p \in unfit[r] \/ now < retryAt[p]
          /\ pc[r] = "refused" => \A p \in Eligible[r] : Excused(r, p)

LEMMA CauseInit == Init => CauseInv
  BY DEF Init, CauseInv, Active

\* A circuit opens with a time to retry it.
LEMMA Opens ==
    ASSUME RestInv, [Next]_vars, NEW p \in Provider, circuit'[p] = "open"
    PROVE  \/ circuit[p] = "open" /\ retryAt'[p] = retryAt[p]
           \/ retryAt'[p] = now + RecoveryTimeout /\ now' = now
<1> USE DEF health, record
<1>0. CASE UNCHANGED vars
  BY <1>0 DEF vars
<1>1. CASE Tick \/ Restart
  BY <1>1 DEF Tick, Restart, ForgetHealth
<1>2. ASSUME NEW r \in Request, Arrive(r) \/ RouteRefused(r) \/ CallBreaks(r)
      PROVE  circuit' = circuit /\ retryAt' = retryAt
  BY <1>2 DEF Arrive, RouteRefused, CallBreaks
<1>3. ASSUME NEW r \in Request, RefreshExpired(r)
      PROVE  circuit[p] = "open" /\ retryAt' = retryAt
  BY <1>3 DEF RefreshExpired
<1>4. ASSUME NEW r \in Request, NEW q \in Provider,
             RouteTo(r, q) \/ DenyOpen(r, q)
      PROVE  circuit' = circuit /\ retryAt' = retryAt
  BY <1>4 DEF RouteTo, DenyOpen
<1>5. ASSUME NEW r \in Request, NEW q \in Provider, Admit(r, q) \/ DenyCapability(r, q)
      PROVE  circuit[p] = "open" /\ retryAt' = retryAt
  BY <1>5 DEF Admit, DenyCapability, HalfOpen, RestInv, HealthTypes
<1>6. ASSUME NEW r \in Request, NEW q \in Provider, CallSucceeds(r, q)
      PROVE  circuit[p] = "open" /\ retryAt'[p] = retryAt[p]
  BY <1>6 DEF CallSucceeds, RestInv, HealthTypes
<1>7. ASSUME NEW r \in Request, NEW q \in Provider, NEW kind \in Failure, CallFails(r, q, kind)
      PROVE  \/ circuit[p] = "open" /\ retryAt'[p] = retryAt[p]
             \/ retryAt'[p] = now + RecoveryTimeout /\ now' = now
  <2>1. CASE ShouldOpen(q, kind)
    BY <1>7, <2>1 DEF CallFails, RetryTime, RestInv, HealthTypes
  <2>2. CASE ~ShouldOpen(q, kind)
    BY <1>7, <2>2 DEF CallFails, RestInv, HealthTypes
  <2>3. QED
    BY <2>1, <2>2
<1>8. QED
  BY <1>0, <1>1, <1>2, <1>3, <1>4, <1>5, <1>6, <1>7 DEF Next, RequestStep

\* What a step may do to request t.
LEMMA OneRequest ==
    ASSUME RestInv, FallbackAll, [Next]_vars, NEW t \in Request
    PROVE  /\ \A p \in Provider : calls'[t][p] >= calls[t][p]
           /\ Active(t)' => Active(t) \/ attempted'[t] = {}
           /\ Active(t)' => \A p \in attempted'[t] :
                 \/ p \in attempted[t]
                 \/ pc'[t] = "admit" /\ choice'[t] = p
           /\ Active(t)' /\ pc[t] = "admit" => \A p \in Provider : choice[t] = p =>
                 \/ pc'[t] = "admit" /\ choice'[t] = p
                 \/ calls'[t][p] > 0
                 \/ OutOfService(t, p)
           /\ pc'[t] = "route" => pc[t] = "route" \/ RefreshExpired(t)
           /\ pc'[t] = "refused" => pc[t] = "refused" \/ RouteRefused(t)
<1> USE DEF health, record, fallback, Move
<1>t. FallbackTypes /\ calls[t] \in [Provider -> Nat]
      /\ (pc[t] = "new" => attempted[t] = {})
  BY DEF FallbackAll, FallbackTypes, FallbackInv
<1>i. \A p \in Provider : calls[t][p] >= calls[t][p]
  BY <1>t
\* A step that leaves the request where it is.
<1>q. ASSUME pc'[t] = pc[t], attempted'[t] = attempted[t], choice'[t] = choice[t],
             calls'[t] = calls[t]
      PROVE  /\ \A p \in Provider : calls'[t][p] >= calls[t][p]
             /\ Active(t)' => Active(t)
             /\ attempted'[t] = attempted[t] /\ choice'[t] = choice[t] /\ pc'[t] = pc[t]
  BY <1>q, <1>i DEF Active
<1>0. CASE UNCHANGED vars \/ Tick
  BY <1>0, <1>i DEF vars, Tick, Active
<1>1. CASE Restart
  BY <1>1, <1>i, <1>t DEF Restart, Active, Ended, FallbackTypes
<1>2. ASSUME NEW r \in Request, r # t, Arrive(r) \/ RequestStep(r)
      PROVE  /\ pc'[t] = pc[t] /\ attempted'[t] = attempted[t]
             /\ choice'[t] = choice[t] /\ calls'[t] = calls[t]
  <2>1. CASE Arrive(r) \/ RefreshExpired(r) \/ RouteRefused(r) \/ CallBreaks(r)
    BY <1>t, <1>2, <2>1
       DEF Arrive, RefreshExpired, RouteRefused, CallBreaks, FallbackTypes
  <2>2. ASSUME NEW p \in Provider,
               RouteTo(r, p) \/ Admit(r, p) \/ CallSucceeds(r, p)
        PROVE  /\ pc'[t] = pc[t] /\ attempted'[t] = attempted[t]
               /\ choice'[t] = choice[t] /\ calls'[t] = calls[t]
    BY <1>t, <1>2, <2>2 DEF RouteTo, Admit, CallSucceeds, FallbackTypes
  <2>3. ASSUME NEW p \in Provider, DenyOpen(r, p) \/ DenyCapability(r, p)
        PROVE  /\ pc'[t] = pc[t] /\ attempted'[t] = attempted[t]
               /\ choice'[t] = choice[t] /\ calls'[t] = calls[t]
    BY <1>t, <1>2, <2>3 DEF DenyOpen, DenyCapability, NextTurn, FallbackTypes
  <2>4. ASSUME NEW p \in Provider, NEW kind \in Failure, CallFails(r, p, kind)
        PROVE  /\ pc'[t] = pc[t] /\ attempted'[t] = attempted[t]
               /\ choice'[t] = choice[t] /\ calls'[t] = calls[t]
    <3>1. UNCHANGED <<choice, attempted, calls>>
      BY <2>4 DEF CallFails
    <3>2. \E place : pc' = [pc EXCEPT ![r] = place]
      BY <2>4 DEF CallFails, NextTurn
    <3>3. QED
      BY <1>t, <1>2, <3>1, <3>2 DEF FallbackTypes
  <2>5. QED
    BY <1>2, <2>1, <2>2, <2>3, <2>4 DEF RequestStep
<1>3. CASE Arrive(t)
  BY <1>3, <1>i, <1>t DEF Arrive, Active, FallbackTypes
<1>4. CASE RefreshExpired(t) \/ RouteRefused(t) \/ CallBreaks(t)
  BY <1>4, <1>i, <1>t
     DEF RefreshExpired, RouteRefused, CallBreaks, Active, Ended, FallbackTypes
<1>5. ASSUME NEW p \in Provider, RouteTo(t, p)
      PROVE  /\ attempted'[t] = attempted[t] \cup {p} /\ choice'[t] = p
             /\ pc[t] = "route" /\ pc'[t] = "admit" /\ calls'[t] = calls[t]
  BY <1>5, <1>t DEF RouteTo, FallbackTypes
<1>6. ASSUME NEW p \in Provider, Admit(t, p)
      PROVE  /\ attempted' = attempted /\ choice[t] = p /\ pc[t] = "admit" /\ pc'[t] = "calling"
             /\ calls'[t][p] > 0 /\ \A q \in Provider : calls'[t][q] >= calls[t][q]
  <2>1. calls'[t] = Called(calls[t], p)
    BY <1>6, <1>t DEF Admit, FallbackTypes
  <2>2. QED
    BY <1>6, <1>t, <2>1, CalledTyped DEF Admit, FallbackTypes
<1>7. ASSUME NEW p \in Provider, DenyOpen(t, p) \/ DenyCapability(t, p)
      PROVE  /\ attempted' = attempted /\ calls' = calls /\ choice[t] = p /\ pc[t] = "admit"
             /\ pc'[t] \in {"exhausted", "refresh"} /\ OutOfService(t, p)
  <2>1. CASE DenyOpen(t, p)
    <3>1. circuit[p] = "open" /\ now < retryAt[p]
      BY <2>1 DEF DenyOpen, MayProbe, RestInv, HealthTypes, Never
    <3>2. QED
      BY <1>t, <2>1, <3>1 DEF DenyOpen, NextTurn, OutOfService, FallbackTypes
  <2>2. CASE DenyCapability(t, p)
    BY <1>t, <2>2 DEF DenyCapability, NextTurn, OutOfService, FallbackTypes
  <2>3. QED
    BY <1>7, <2>1, <2>2
<1>8. ASSUME NEW p \in Provider,
             CallSucceeds(t, p) \/ \E kind \in Failure : CallFails(t, p, kind)
      PROVE  /\ attempted' = attempted /\ calls' = calls /\ pc[t] = "calling"
             /\ pc'[t] \in {"served", "failed", "exhausted", "refresh"}
  <2>1. CASE CallSucceeds(t, p)
    BY <1>t, <2>1 DEF CallSucceeds, FallbackTypes
  <2>2. ASSUME NEW kind \in Failure, CallFails(t, p, kind)
        PROVE  /\ attempted' = attempted /\ calls' = calls /\ pc[t] = "calling"
               /\ pc'[t] \in {"served", "failed", "exhausted", "refresh"}
    <3>1. attempted' = attempted /\ calls' = calls /\ pc[t] = "calling"
      BY <2>2 DEF CallFails
    <3>2. CASE kind = "final"
      BY <1>t, <2>2, <3>1, <3>2 DEF CallFails, FallbackTypes
    <3>3. CASE kind # "final"
      <4>1. NextTurn(t)
        BY <2>2, <3>3 DEF CallFails
      <4>2. QED
        BY <1>t, <3>1, <4>1 DEF NextTurn, FallbackTypes
    <3>4. QED
      BY <3>2, <3>3
  <2>3. QED
    BY <1>8, <2>1, <2>2
<1>9. CASE RequestStep(t)
  <2>1. CASE \E p \in Provider : RouteTo(t, p)
    BY <1>5, <1>i, <2>1 DEF Active, Ended
  <2>2. CASE \E p \in Provider : Admit(t, p)
    BY <1>6, <2>2 DEF Active, Ended
  <2>3. CASE \E p \in Provider : DenyOpen(t, p) \/ DenyCapability(t, p)
    BY <1>7, <1>i, <2>3 DEF Active, Ended
  <2>4. CASE \E p \in Provider : CallSucceeds(t, p) \/ \E kind \in Failure : CallFails(t, p, kind)
    BY <1>8, <1>i, <2>4 DEF Active, Ended
  <2>5. QED
    BY <1>4, <1>9, <2>1, <2>2, <2>3, <2>4 DEF RequestStep
<1>10. CASE \E r \in Request \ {t} : Arrive(r) \/ RequestStep(r)
  BY <1>2, <1>q, <1>10
<1>11. QED
  BY <1>0, <1>1, <1>3, <1>9, <1>10 DEF Next

LEMMA CauseNext ==
    ASSUME RestInv, FallbackAll, CauseInv, [Next]_vars
    PROVE  CauseInv'
<1>t. /\ HealthTypes /\ HealthTypes' /\ FallbackTypes
      /\ RecoveryTimeout \in Nat \ {0} /\ \A r \in Request : Eligible[r] \subseteq Provider
  BY RestNext, CircuitAssumption DEF RestInv, FallbackAll
<1>1. ASSUME NEW p \in Provider, circuit'[p] = "open" PROVE retryAt'[p] # Never
  <2>1. circuit[p] = "open" => retryAt[p] # Never
    BY DEF CauseInv
  <2>2. now + RecoveryTimeout # Never
    BY <1>t DEF HealthTypes, Never
  <2>3. QED
    BY <1>1, <2>1, <2>2, Opens
<1>2. ASSUME NEW r \in Request, Active(r) \/ pc[r] = "refused"
      PROVE  /\ \A p \in Provider : Excused(r, p) => Excused(r, p)'
             /\ Active(r) /\ ~UNCHANGED vars => \A p \in Provider :
                   OutOfService(r, p) => p \in unfit'[r]
  <2>1. \A p \in Provider : calls'[r][p] >= calls[r][p]
    BY OneRequest
  <2>2. \A p \in Provider : p \in unfit[r] => p \in unfit'[r]
    BY DEF Next, Observe, vars
  <2>3. \A p \in Provider : calls[r][p] > 0 => calls'[r][p] > 0
    BY <1>t, <2>1 DEF HealthTypes
  <2>4. Active(r) /\ ~UNCHANGED vars => \A p \in Provider : OutOfService(r, p) => p \in unfit'[r]
    BY DEF Next, Observe
  <2>5. QED
    BY <2>2, <2>3, <2>4 DEF Excused
<1>3. CASE UNCHANGED vars
  BY <1>3 DEF vars, health, fallback, record, CauseInv, Active, Excused
<1>4. ASSUME NEW r \in Request, ~UNCHANGED vars
      PROVE  /\ Active(r)' => \A p \in attempted'[r] :
                   Excused(r, p)' \/ (pc'[r] = "admit" /\ choice'[r] = p)
             /\ pc'[r] = "route" => \A p \in Provider :
                   circuit'[p] = "open" => p \in unfit'[r] \/ now' < retryAt'[p]
             /\ pc'[r] = "refused" => \A p \in Eligible[r] : Excused(r, p)'
  <2>1. ASSUME Active(r)', NEW p \in attempted'[r]
        PROVE  Excused(r, p)' \/ (pc'[r] = "admit" /\ choice'[r] = p)
    <3>1. Active(r) /\ (p \in attempted[r] \/ (pc'[r] = "admit" /\ choice'[r] = p))
      BY <2>1, OneRequest
    <3>2. CASE p \in attempted[r] /\ Excused(r, p)
      BY <1>t, <1>2, <3>1, <3>2 DEF FallbackTypes
    <3>3. CASE p \in attempted[r] /\ pc[r] = "admit" /\ choice[r] = p
      <4>1. p \in Provider
        BY <1>t, <3>3 DEF FallbackTypes
      <4>2. \/ pc'[r] = "admit" /\ choice'[r] = p
            \/ calls'[r][p] > 0
            \/ OutOfService(r, p)
        BY <2>1, <3>3, <4>1, OneRequest
      <4>3. QED
        BY <1>2, <1>4, <3>1, <4>1, <4>2 DEF Excused
    <3>4. QED
      BY <3>1, <3>2, <3>3 DEF CauseInv
  <2>2. ASSUME pc'[r] = "route", NEW p \in Provider, circuit'[p] = "open"
        PROVE  p \in unfit'[r] \/ now' < retryAt'[p]
    <3>1. CASE retryAt'[p] = now + RecoveryTimeout /\ now' = now
      BY <1>t, <3>1 DEF HealthTypes
    <3>2. CASE circuit[p] = "open" /\ retryAt'[p] = retryAt[p] /\ pc[r] = "route"
      <4>1. p \in unfit[r] \/ OutOfService(r, p)
        BY <3>2 DEF CauseInv, OutOfService
      <4>2. Active(r)
        BY <3>2 DEF Active, Ended
      <4>3. p \in unfit[r] => p \in unfit'[r]
        BY DEF Next, Observe, vars
      <4>4. QED
        BY <1>2, <1>4, <4>1, <4>2, <4>3
    <3>3. CASE circuit[p] = "open" /\ retryAt'[p] = retryAt[p] /\ RefreshExpired(r)
      <4>1. ~Expired(p) /\ now' = now
        BY <2>2, <3>3 DEF RefreshExpired
      <4>2. retryAt[p] # Never
        BY <3>3 DEF CauseInv
      <4>3. QED
        BY <1>t, <3>3, <4>1, <4>2 DEF Expired, HealthTypes
    <3>4. QED
      BY <2>2, <3>1, <3>2, <3>3, Opens, OneRequest
  <2>3. ASSUME pc'[r] = "refused", NEW p \in Eligible[r] PROVE Excused(r, p)'
    <3>1. p \in Provider
      BY <1>t
    <3>2. CASE pc[r] = "refused"
      BY <1>2, <3>1, <3>2 DEF CauseInv
    <3>3. CASE RouteRefused(r)
      <4>1. pc[r] = "route" /\ Active(r) /\ Candidates(r) = {}
        BY <3>3 DEF RouteRefused, Active, Ended
      <4>2. p \in attempted[r] \/ Unavailable(p) \/ (r \in Demanding /\ degraded[p])
        BY <4>1 DEF Candidates
      <4>3. Excused(r, p) \/ OutOfService(r, p)
        BY <4>1, <4>2, <3>1 DEF CauseInv, Unavailable, OutOfService, Excused
      <4>4. QED
        BY <1>2, <1>4, <3>1, <4>1, <4>3 DEF Excused
    <3>4. QED
      BY <2>3, <3>2, <3>3, OneRequest
  <2>4. QED
    BY <2>1, <2>2, <2>3
<1>5. QED
  BY <1>1, <1>3, <1>4 DEF CauseInv

\* A request that is refused has called each provider that was eligible for it,
\* or has seen it out of service: neither a circuit that has expired nor a race
\* between the route and the admission makes route refuse on its own.
THEOREM RefusedForCauseHolds == Spec => []RefusedForCause
<1>1. CauseInv => RefusedForCause
  BY DEF CauseInv, RefusedForCause, Excused
<1>2. RestInv /\ FallbackAll /\ CauseInv /\ [Next]_vars => (RestInv /\ FallbackAll /\ CauseInv)'
  BY RestNext, FallbackNext, CauseNext
<1>3. Init => RestInv /\ FallbackAll /\ CauseInv
  BY RestInit, FallbackInit, CauseInit
<1>4. QED
  BY <1>1, <1>2, <1>3, PTL DEF Spec

-----------------------------------------------------------------------------
(* The types of the rest, and when an open circuit may be tried again. *)

Turns ==
    /\ stored \in BOOLEAN
    /\ pc \in [Request -> Place]
    /\ choice \in [Request -> Provider \cup {Nobody}]
    /\ attempted \in [Request -> SUBSET Provider]
    /\ unfit \in [Request -> SUBSET Provider]
    /\ restarts \in Nat
Circuits ==
    /\ successes \in [Provider -> 0..SuccessThreshold]
    /\ degraded \in [Provider -> BOOLEAN]
    /\ \A p \in Provider : circuit[p] = "open" => retryAt[p] # Never

LEMMA MoveTyped ==
    ASSUME pc \in [Request -> Place], NEW r \in Request,
           NextTurn(r) \/ \E place \in Place : Move(r, place)
    PROVE  pc' \in [Request -> Place]
  BY DEF NextTurn, Move, Place, Ended

LEMMA TurnsKept == Turns /\ [Next]_vars => Turns'
<1> SUFFICES ASSUME Turns, [Next]_vars PROVE Turns'
  OBVIOUS
<1>1. CASE UNCHANGED vars
  BY <1>1 DEF Turns, vars, fallback
<1>2. CASE Next
  <2>1. unfit' \in [Request -> SUBSET Provider] /\ stored' \in BOOLEAN
    <3>1. Observe
      BY <1>2 DEF Next
    <3>2. stored' \in BOOLEAN
      BY <3>1 DEF Turns, Observe
    <3> QED BY <3>1, <3>2 DEF Turns, Observe
  <2>2. ASSUME NEW r \in Request, Arrive(r) \/ RequestStep(r)
        PROVE  pc' \in [Request -> Place] /\ restarts' = restarts
    <3>1. \/ NextTurn(r)
          \/ \E place \in Place : Move(r, place)
      BY <2>2 DEF Arrive, RequestStep, RefreshExpired, RouteTo, RouteRefused, Admit, DenyOpen,
         DenyCapability, CallSucceeds, CallFails, CallBreaks, Place, Ended
    <3>2. restarts' = restarts
      BY <2>2 DEF Arrive, RequestStep, RefreshExpired, RouteTo, RouteRefused, Admit, DenyOpen,
         DenyCapability, CallSucceeds, CallFails, CallBreaks
    <3> QED BY <3>1, <3>2, MoveTyped DEF Turns
  <2>3. ASSUME NEW r \in Request, Arrive(r) \/ RequestStep(r)
        PROVE  /\ choice' \in [Request -> Provider \cup {Nobody}]
               /\ attempted' \in [Request -> SUBSET Provider]
    <3>1. CASE \E p \in Provider : RouteTo(r, p)
      BY <3>1 DEF RouteTo, Turns
    <3>2. CASE UNCHANGED fallback
      BY <3>2 DEF Turns, fallback
    <3> QED BY <2>3, <3>1, <3>2 DEF Arrive, RequestStep, RefreshExpired, RouteRefused, Admit,
            DenyOpen, DenyCapability, CallSucceeds, CallFails, CallBreaks
  <2>4. CASE Tick
    BY <2>1, <2>4 DEF Tick, Turns, fallback
  <2>5. CASE Restart
    BY <2>1, <2>5 DEF Restart, Turns, fallback, Place, Ended
  <2> QED BY <1>2, <2>1, <2>2, <2>3, <2>4, <2>5 DEF Next, Turns
<1> QED BY <1>1, <1>2

LEMMA CircuitsKept == HealthTypes /\ Circuits /\ [Next]_vars => Circuits'
<1> SUFFICES ASSUME HealthTypes, Circuits, [Next]_vars PROVE Circuits'
  OBVIOUS
<1>1. 0 \in 0..SuccessThreshold /\ SuccessThreshold \in Nat
  BY CircuitAssumption
<1>2. ASSUME UNCHANGED health PROVE Circuits'
  BY <1>2 DEF Circuits, health
<1>3. ASSUME NEW r \in Request, RefreshExpired(r) PROVE Circuits'
  BY <1>1, <1>3 DEF RefreshExpired, Circuits, HealthTypes
<1>4. ASSUME NEW r \in Request, NEW p \in Provider, Admit(r, p) \/ DenyCapability(r, p)
      PROVE  Circuits'
  BY <1>1, <1>4 DEF Admit, DenyCapability, HalfOpen, Circuits, HealthTypes
<1>5. ASSUME NEW r \in Request, NEW p \in Provider, CallSucceeds(r, p) PROVE Circuits'
  <2>0. successes \in [Provider -> 0..SuccessThreshold] /\ successes[p] + 1 \in Nat
    BY <1>1 DEF Circuits
  <2>1. AtMost(successes[p] + 1, SuccessThreshold) \in 0..SuccessThreshold
    BY <1>1, <2>0, AtMostRange
  <2>2. successes' = [successes EXCEPT ![p] = AtMost(successes[p] + 1, SuccessThreshold)]
    BY <1>5 DEF CallSucceeds
  <2>3. successes' \in [Provider -> 0..SuccessThreshold]
    BY <2>0, <2>1, <2>2
  <2>4. CASE UNCHANGED <<circuit, retryAt, degraded>>
    BY <2>3, <2>4 DEF Circuits
  <2>5. CASE /\ circuit' = [circuit EXCEPT ![p] = "closed"]
             /\ retryAt' = [retryAt EXCEPT ![p] = Never]
             /\ degraded' = [degraded EXCEPT ![p] = FALSE]
    <3>1. degraded' \in [Provider -> BOOLEAN]
      BY <2>5 DEF Circuits
    <3>2. \A q \in Provider : circuit'[q] = "open" => q # p
      BY <2>5 DEF HealthTypes
    <3>3. \A q \in Provider : circuit'[q] = "open" => retryAt'[q] # Never
      BY <2>5, <3>2 DEF Circuits, HealthTypes
    <3> QED BY <2>3, <3>1, <3>3 DEF Circuits
  <2> QED BY <1>5, <2>4, <2>5 DEF CallSucceeds
<1>6. ASSUME NEW r \in Request, NEW p \in Provider, NEW kind \in Failure, CallFails(r, p, kind)
      PROVE  Circuits'
  <2>1. RetryTime # Never
    BY CircuitAssumption DEF RetryTime, Never, HealthTypes
  <2>2. successes' \in [Provider -> 0..SuccessThreshold] /\ degraded' \in [Provider -> BOOLEAN]
    BY <1>1, <1>6 DEF CallFails, Circuits
  <2>3. \A q \in Provider : circuit'[q] = "open" => retryAt'[q] # Never
    BY <1>6, <2>1 DEF CallFails, Circuits, HealthTypes
  <2> QED BY <2>2, <2>3 DEF Circuits
<1>7. CASE UNCHANGED vars
  BY <1>2, <1>7 DEF vars
<1>8. CASE Next
  <2>1. CASE Tick \/ Restart
    <3>1. CASE UNCHANGED health
      BY <1>2, <3>1
    <3>2. CASE ForgetHealth
      BY <1>1, <3>2 DEF ForgetHealth, Circuits
    <3> QED BY <2>1, <3>1, <3>2 DEF Tick, Restart
  <2>2. ASSUME NEW r \in Request, Arrive(r) \/ RequestStep(r) PROVE Circuits'
    <3>1. CASE Arrive(r) \/ RouteRefused(r) \/ CallBreaks(r) \/ \E p \in Provider : RouteTo(r, p) \/ DenyOpen(r, p)
      BY <1>2, <3>1 DEF Arrive, RouteRefused, CallBreaks, RouteTo, DenyOpen
    <3> QED BY <1>3, <1>4, <1>5, <1>6, <2>2, <3>1 DEF RequestStep
  <2> QED BY <1>8, <2>1, <2>2 DEF Next
<1> QED BY <1>7, <1>8

\* Types; and a circuit that is open knows when it may be tried again
\* (record_failure, before_call), so that no provider is shut out for good.
THEOREM CircuitTypes == Spec => []TypeOK
<1>1. Init => Turns /\ Circuits
  BY CircuitAssumption DEF Init, Turns, Circuits, Place
<1>2. RestInv => HealthTypes
  BY DEF RestInv
<1>3. HealthTypes /\ Turns /\ Circuits => TypeOK
  BY DEF HealthTypes, Turns, Circuits, TypeOK
<1>4. RestInv /\ Turns /\ Circuits /\ [Next]_vars => (RestInv /\ Turns /\ Circuits)'
  BY <1>2, RestNext, TurnsKept, CircuitsKept
<1> QED BY <1>1, <1>2, <1>3, <1>4, RestInit, PTL DEF Spec

=============================================================================
