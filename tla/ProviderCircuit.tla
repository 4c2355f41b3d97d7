-------------------------- MODULE ProviderCircuit --------------------------
(***************************************************************************)
(* Model providers behind circuit breakers (providers.py): concurrent      *)
(* requests of RoutingModelProvider.complete, the ProviderHealthManager    *)
(* they share, and the fallback from one provider to the next.             *)
(*                                                                         *)
(* Each operation of the manager runs under its lock and is one step.      *)
(* Between two operations of a request anything may happen: the route it   *)
(* was given, or the outcome it brings back, may be out of date.           *)
(***************************************************************************)
EXTENDS Integers, FiniteSets

CONSTANTS
    Provider,          \* registered providers
    Rank,              \* Rank[p]: place of p by (cost_rank, provider_id)
    Request,           \* requests of the behaviour
    Eligible,          \* Eligible[r]: providers that pass the fixed checks of
                       \* the route: approval, data policy, timeout class, cost
    Demanding,         \* requests that require the capability that can degrade
    FailureThreshold, RecoveryTimeout, SuccessThreshold,  \* CircuitBreakerPolicy
    MaximumAttempts,   \* maximum_attempts of the fallback
    MaxClock,          \* bound: time a behaviour spans
    MaxRestarts        \* bound: process restarts

ASSUME CircuitAssumption ==
    /\ Rank \in [Provider -> Nat]
    /\ \A p, q \in Provider : Rank[p] = Rank[q] => p = q
    /\ Eligible \in [Request -> SUBSET Provider]
    /\ Demanding \subseteq Request
    /\ FailureThreshold \in Nat \ {0}
    /\ RecoveryTimeout \in Nat \ {0}
    /\ SuccessThreshold \in Nat \ {0}
    /\ MaximumAttempts \in Nat \ {0}
    /\ MaxClock \in Nat
    /\ MaxRestarts \in Nat

VARIABLES
    stored,     \* a health_store_path was given: create_runtime_app gives none
    circuit,    \* circuit[p]: circuit_state, in the registry and any store
    failures,   \* consecutive_failures, up to FailureThreshold
    successes,  \* consecutive_successes, up to SuccessThreshold
    retryAt,    \* retry_at_epoch
    degraded,   \* degraded[p]: p has lost the capability
    now,        \* clock()
    pc,         \* pc[r]: where request r is
    choice,     \* choice[r]: provider_id of the current turn
    attempted,  \* FallbackStateMachine.attempted
    \* History, read by properties only:
    restarts,   \* restarts so far
    calls,      \* calls[r][p]: how often r called p
    streak,     \* failures recorded for p since its last recorded success, as
                \* far back as the store or the process reaches
    lastFailure,\* when the last failure of p was recorded
    unfit       \* unfit[r]: providers that were out of service while r ran

health == <<circuit, failures, successes, retryAt, degraded>>
fallback == <<choice, attempted>>
record == <<streak, lastFailure>>
vars == <<stored, health, now, pc, fallback, restarts, calls, record, unfit>>

CircuitState == {"closed", "open", "half_open"}
Never == -1
Nobody == "nobody"
Ended == {"served", "refused", "exhausted", "failed", "lost"}
Place == {"new", "refresh", "route", "admit", "calling"} \cup Ended
Active(r) == pc[r] \notin {"new"} \cup Ended

\* A failure an adapter reports: retryable, final, or of a capability.
Failure == {"retryable", "final", "capability"}

Init ==
    /\ stored \in BOOLEAN
    /\ circuit = [p \in Provider |-> "closed"]
    /\ failures = [p \in Provider |-> 0]
    /\ successes = [p \in Provider |-> 0]
    /\ retryAt = [p \in Provider |-> Never]
    /\ degraded = [p \in Provider |-> FALSE]
    /\ now = 0
    /\ pc = [r \in Request |-> "new"]
    /\ choice = [r \in Request |-> Nobody]
    /\ attempted = [r \in Request |-> {}]
    /\ restarts = 0
    /\ calls = [r \in Request |-> [p \in Provider |-> 0]]
    /\ streak = [p \in Provider |-> 0]
    /\ lastFailure = [p \in Provider |-> Never]
    /\ unfit = [r \in Request |-> {}]

-----------------------------------------------------------------------------
AtMost(n, bound) == IF n < bound THEN n ELSE bound

\* Mutated form: not yet at the very second of retry_at_epoch.
ExpiredAfter(p) == circuit[p] = "open" /\ retryAt[p] # Never /\ now > retryAt[p]
Expired(p) == circuit[p] = "open" /\ retryAt[p] # Never /\ now >= retryAt[p]

\* ProviderHealth.status.
Unavailable(p) == circuit[p] = "open"
Impaired(p) == ~Unavailable(p) /\ (circuit[p] = "half_open" \/ failures[p] > 0)

\* What PolicyProviderRouter.route chooses from: providers not yet attempted,
\* admitted by the fixed checks, available and with the capability.
Candidates(r) ==
    {p \in Eligible[r] \ attempted[r] :
        ~Unavailable(p) /\ ~(r \in Demanding /\ degraded[p])}

Preferred(p, S) ==
    /\ p \in S
    /\ \A q \in S : \/ ~Impaired(p) /\ Impaired(q)
                    \/ (Impaired(p) <=> Impaired(q)) /\ Rank[p] <= Rank[q]

Move(r, place) == pc' = [pc EXCEPT ![r] = place]

\* The head of the loop of complete, after a turn that served nobody.
NextTurn(r) ==
    Move(r, IF Cardinality(attempted[r]) >= MaximumAttempts THEN "exhausted" ELSE "refresh")

-----------------------------------------------------------------------------
Arrive(r) ==
    /\ pc[r] = "new"
    /\ Move(r, "refresh")
    /\ UNCHANGED <<health, now, fallback, restarts, calls, record>>

\* refresh_expired: every expired circuit becomes half open.
RefreshExpired(r) ==
    /\ pc[r] = "refresh"
    /\ circuit' = [p \in Provider |-> IF Expired(p) THEN "half_open" ELSE circuit[p]]
    /\ successes' = [p \in Provider |-> IF Expired(p) THEN 0 ELSE successes[p]]
    /\ Move(r, "route")
    /\ UNCHANGED <<failures, retryAt, degraded, now, fallback, restarts, calls, record>>

RouteTo(r, p) ==
    /\ pc[r] = "route"
    /\ Preferred(p, Candidates(r))
    /\ choice' = [choice EXCEPT ![r] = p]
    /\ attempted' = [attempted EXCEPT ![r] = @ \cup {p}]
    /\ Move(r, "admit")
    /\ UNCHANGED <<health, now, restarts, calls, record>>

RouteRefused(r) ==
    /\ pc[r] = "route"
    /\ Candidates(r) = {}
    /\ Move(r, "refused")
    /\ UNCHANGED <<health, now, fallback, restarts, calls, record>>

\* before_call on the health of this moment, not of the route.
MayProbe(p) == circuit[p] = "open" => retryAt[p] = Never \/ now >= retryAt[p]

HalfOpen(p) ==
    IF circuit[p] = "open"
    THEN /\ circuit' = [circuit EXCEPT ![p] = "half_open"]
         /\ successes' = [successes EXCEPT ![p] = 0]
    ELSE UNCHANGED <<circuit, successes>>

Called(counts, p) == [counts EXCEPT ![p] = @ + 1]

Admit(r, p) ==
    /\ pc[r] = "admit" /\ choice[r] = p
    /\ MayProbe(p)
    /\ ~(r \in Demanding /\ degraded[p])
    /\ HalfOpen(p)
    /\ calls' = [calls EXCEPT ![r] = Called(calls[r], p)]
    /\ Move(r, "calling")
    /\ UNCHANGED <<failures, retryAt, degraded, now, fallback, restarts, record>>

\* Mutated form: a denied request waits for the circuit instead of moving on.
DenyOpenWaits(r, p) ==
    /\ pc[r] = "admit" /\ choice[r] = p
    /\ ~MayProbe(p)
    /\ Move(r, "admit")
    /\ UNCHANGED <<health, now, fallback, restarts, calls, record>>

DenyOpen(r, p) ==
    /\ pc[r] = "admit" /\ choice[r] = p
    /\ ~MayProbe(p)
    /\ NextTurn(r)
    /\ UNCHANGED <<health, now, fallback, restarts, calls, record>>

\* The circuit has become half open even though the call is then denied.
DenyCapability(r, p) ==
    /\ pc[r] = "admit" /\ choice[r] = p
    /\ MayProbe(p)
    /\ r \in Demanding /\ degraded[p]
    /\ HalfOpen(p)
    /\ NextTurn(r)
    /\ UNCHANGED <<failures, retryAt, degraded, now, fallback, restarts, calls, record>>

-----------------------------------------------------------------------------
\* Whatever the circuit has become since the call began, a success below the
\* threshold keeps a half-open circuit, and any other closes the circuit.
ProbePassed(p) == circuit[p] = "half_open" /\ successes[p] + 1 < SuccessThreshold

CallSucceeds(r, p) ==
    /\ pc[r] = "calling" /\ choice[r] = p
    /\ successes' = [successes EXCEPT ![p] = AtMost(@ + 1, SuccessThreshold)]
    /\ IF ProbePassed(p) THEN UNCHANGED <<circuit, failures, retryAt, degraded>>
       ELSE /\ circuit' = [circuit EXCEPT ![p] = "closed"]
            /\ failures' = [failures EXCEPT ![p] = 0]
            /\ retryAt' = [retryAt EXCEPT ![p] = Never]
            /\ degraded' = [degraded EXCEPT ![p] = FALSE]
    /\ streak' = [streak EXCEPT ![p] = 0]
    /\ Move(r, "served")
    /\ UNCHANGED <<now, fallback, restarts, calls, lastFailure>>

ShouldOpen(p, kind) ==
    kind = "final" \/ circuit[p] = "half_open" \/ failures[p] + 1 >= FailureThreshold

RetryTime == now + RecoveryTimeout

\* record_failure closes an open circuit when the failure is late and does
\* not itself call for an open one.
CallFails(r, p, kind) ==
    /\ pc[r] = "calling" /\ choice[r] = p
    /\ failures' = [failures EXCEPT ![p] = AtMost(@ + 1, FailureThreshold)]
    /\ successes' = [successes EXCEPT ![p] = 0]
    /\ degraded' = [degraded EXCEPT ![p] = @ \/ (kind = "capability" /\ r \in Demanding)]
    /\ IF ShouldOpen(p, kind)
       THEN /\ circuit' = [circuit EXCEPT ![p] = "open"]
            /\ retryAt' = [retryAt EXCEPT ![p] = RetryTime]
       ELSE circuit' = [circuit EXCEPT ![p] = "closed"] /\ UNCHANGED retryAt
    /\ streak' = [streak EXCEPT ![p] = AtMost(@ + 1, FailureThreshold)]
    /\ lastFailure' = [lastFailure EXCEPT ![p] = now]
    /\ IF kind = "final" THEN Move(r, "failed") ELSE NextTurn(r)
    /\ UNCHANGED <<now, fallback, restarts, calls>>

\* An exception that is no ProviderError passes through; nothing is recorded.
CallBreaks(r) ==
    /\ pc[r] = "calling"
    /\ Move(r, "failed")
    /\ UNCHANGED <<health, now, fallback, restarts, calls, record>>

Tick ==
    /\ now < MaxClock
    /\ now' = now + 1
    /\ UNCHANGED <<health, pc, fallback, restarts, calls, record>>

\* A new process knows nothing of the providers and of their failures.
ForgetHealth ==
    /\ circuit' = [p \in Provider |-> "closed"]
    /\ failures' = [p \in Provider |-> 0]
    /\ successes' = [p \in Provider |-> 0]
    /\ retryAt' = [p \in Provider |-> Never]
    /\ degraded' = [p \in Provider |-> FALSE]

\* Mutated form: the store is not read back.
RestartUnread ==
    /\ restarts < MaxRestarts
    /\ restarts' = restarts + 1
    /\ pc' = [r \in Request |-> IF Active(r) THEN "lost" ELSE pc[r]]
    /\ ForgetHealth
    /\ IF stored THEN UNCHANGED streak ELSE streak' = [p \in Provider |-> 0]
    /\ UNCHANGED <<now, fallback, calls, lastFailure>>

\* The store, if there is one, is read back and published; requests and their
\* outcomes are lost, and without a store all that was known of the providers.
Restart ==
    /\ restarts < MaxRestarts
    /\ restarts' = restarts + 1
    /\ pc' = [r \in Request |-> IF Active(r) THEN "lost" ELSE pc[r]]
    /\ IF stored THEN UNCHANGED <<health, streak>>
       ELSE ForgetHealth /\ streak' = [p \in Provider |-> 0]
    /\ UNCHANGED <<now, fallback, calls, lastFailure>>

-----------------------------------------------------------------------------
OutOfService(r, p) ==
    \/ circuit[p] = "open" /\ now < retryAt[p]
    \/ r \in Demanding /\ degraded[p]

\* What every step does: it keeps the configuration and adds to the history.
Observe ==
    /\ stored' = stored
    /\ unfit' = [r \in Request |->
          IF Active(r) THEN unfit[r] \cup {p \in Provider : OutOfService(r, p)} ELSE unfit[r]]

RequestStep(r) ==
    \/ RefreshExpired(r) \/ RouteRefused(r) \/ CallBreaks(r)
    \/ \E p \in Provider :
          \/ RouteTo(r, p) \/ Admit(r, p) \/ DenyOpen(r, p) \/ DenyCapability(r, p)
          \/ CallSucceeds(r, p)
          \/ \E kind \in Failure : CallFails(r, p, kind)

Next ==
    /\ \/ \E r \in Request : Arrive(r) \/ RequestStep(r)
       \/ Tick
       \/ Restart
    /\ Observe

Spec == Init /\ [][Next]_vars

\* A request's thread is scheduled, and an adapter's timeouts make every call
\* of a provider return.
FairSpec == Spec /\ \A r \in Request : WF_vars(RequestStep(r) /\ Observe)

-----------------------------------------------------------------------------
\* Types; an open circuit always knows when it may be tried again, so that no
\* provider is shut out for good.
TypeOK ==
    /\ stored \in BOOLEAN
    /\ circuit \in [Provider -> CircuitState]
    /\ failures \in [Provider -> 0..FailureThreshold]
    /\ successes \in [Provider -> 0..SuccessThreshold]
    /\ retryAt \in [Provider -> Nat \cup {Never}]
    /\ degraded \in [Provider -> BOOLEAN]
    /\ now \in Nat
    /\ pc \in [Request -> Place]
    /\ choice \in [Request -> Provider \cup {Nobody}]
    /\ attempted \in [Request -> SUBSET Provider]
    /\ restarts \in Nat
    /\ calls \in [Request -> [Provider -> Nat]]
    /\ streak \in [Provider -> 0..FailureThreshold]
    /\ lastFailure \in [Provider -> Nat \cup {Never}]
    /\ unfit \in [Request -> SUBSET Provider]
    /\ \A p \in Provider : circuit[p] = "open" => retryAt[p] # Never

\* After FailureThreshold failures without a success in between, in whatever
\* order the calls began, a provider is left alone for the recovery timeout:
\* no request calls it, nor does one that was routed to it before.  With a store
\* a restart makes no difference; without one the failures of this process count.
RestsAfterFailures ==
    [][\A r \in Request, p \in Provider :
          calls'[r][p] > calls[r][p] /\ streak[p] >= FailureThreshold
          => now >= lastFailure[p] + RecoveryTimeout]_vars

\* FallbackStateMachine: a request calls distinct providers, at most
\* MaximumAttempts of them, whatever becomes of their circuits meanwhile.
FallbackIsBounded ==
    \A r \in Request :
        /\ \A p \in Provider : calls[r][p] <= 1
        /\ Cardinality({p \in Provider : calls[r][p] > 0}) <= MaximumAttempts

\* A request is refused only for cause: each eligible provider was called by
\* it, or was out of service at some moment of the request.  An expired
\* circuit is no cause.
RefusedForCause ==
    \A r \in Request : pc[r] = "refused" =>
        \A p \in Eligible[r] : calls[r][p] > 0 \/ p \in unfit[r]

\* Every request that arrived ends, served or not.
EveryRequestEnds == \A r \in Request : Active(r) ~> ~Active(r)

=============================================================================
