---------------------------- MODULE Publication -----------------------------
(***************************************************************************)
(* PublicationService (publication.py) with the local shadow adapter       *)
(* (platform_adapter.py).  All of its state is an append-only event log;   *)
(* an event whose idempotency key the service has seen is not appended     *)
(* again.  A service answers every question from the events it has loaded  *)
(* or appended itself, under its own lock, so that within a service the    *)
(* operations follow one another; several services over one root share     *)
(* nothing but the file.                                                   *)
(*                                                                         *)
(* One account of one platform.  An action is an idempotency key, of which *)
(* action_id is a hash.  A step is what happens between two writes.        *)
(***************************************************************************)
EXTENDS Integers, Sequences, FiniteSets

CONSTANTS
    Service,      \* PublicationService objects over one root
    Action,       \* idempotency keys of dispatch_shadow
    Candidate,    \* publication candidates
    CandidateOf,  \* CandidateOf[a]: the candidate action a submits
    Lease,        \* authorization leases
    ActiveAt,     \* ActiveAt[l]: the times at which l.is_active
    LeaseCap,     \* LeaseCap[l]: max_actions
    WindowLimit,  \* per_account_window_actions
    Window,       \* per_account_window_seconds
    MaxAttempts,  \* max_attempts_per_action
    MaxClock,     \* bound: time a behaviour spans
    MaxCrashes    \* bound: operations cut short

NoAction == "no action"

ASSUME PublicationAssumption ==
    /\ CandidateOf \in [Action -> Candidate]
    /\ ActiveAt \in [Lease -> SUBSET Nat]
    /\ LeaseCap \in [Lease -> Nat]
    /\ WindowLimit \in Nat /\ Window \in Nat
    /\ MaxAttempts \in Nat \ {0}
    /\ MaxClock \in Nat /\ MaxCrashes \in Nat
    /\ NoAction \notin Action

VARIABLES
    log,      \* events.jsonl
    seen,     \* seen[s]: _events of service s
    op,       \* op[s]: the operation that holds the lock of s
    facts,    \* actions bound in the economic ledger
    now,      \* the clock
    calls,    \* calls[a]: transport calls made for a
    direct,   \* actions called by the dispatch that created them alone
    crashes   \* operations cut short so far

history == <<calls, direct>>
vars == <<log, seen, op, facts, now, calls, direct, crashes>>

-----------------------------------------------------------------------------
\* Events.  `no` is the attempt number, `note` the lease or the verdict, `at`
\* the time of a receipt.
Event(kind, subject, no, note, at) ==
    [kind |-> kind, of |-> subject, no |-> no, note |-> note, at |-> at]
Created(a, l) == Event("action_created", a, 0, l, 0)
Attempt(a, n) == Event("action_attempt", a, n, "none", 0)
Checkpoint(a) == Event("action_checkpoint", a, 0, "none", 0)
Receipt(a, verdict) == Event("action_receipt", a, 0, verdict, now)
ActionWithdrawn(a) == Event("action_withdrawn", a, 0, "none", 0)
CandidateCreated(c) == Event("candidate_created", c, 0, "none", 0)
CandidateWithdrawn(c) == Event("candidate_withdrawn", c, 0, "none", 0)

\* The idempotency key.  The key of a checkpoint does not depend on the retry.
Key(e) == <<e.kind, e.of, e.no>>

Of(events, kind, x) == {i \in DOMAIN events : events[i].kind = kind /\ events[i].of = x}
Has(events, kind, x) == Of(events, kind, x) # {}
Attempts(events, a) == Cardinality(Of(events, "action_attempt", a))
Last(S) == CHOOSE i \in S : \A j \in S : j <= i
Verdict(events, a) ==
    LET R == Of(events, "action_receipt", a)
    IN  IF R = {} THEN "open" ELSE events[Last(R)].note

Ready(events, c) == Has(events, "candidate_created", c) /\ ~Has(events, "candidate_withdrawn", c)
Accepted(events) ==
    {i \in DOMAIN events : events[i].kind = "action_receipt" /\ events[i].note = "shadow_accepted"}

\* Mutated form: the first moment of the window is left out.
AcceptedAfter(events) == Cardinality({i \in Accepted(events) : events[i].at > now - Window})
AcceptedInWindow(events) == Cardinality({i \in Accepted(events) : events[i].at >= now - Window})

\* Mutated form: the lease counts actions that have a receipt.
LeaseReceipts(events, l) ==
    Cardinality({i \in DOMAIN events :
        /\ events[i].kind = "action_created" /\ events[i].note = l
        /\ Has(events, "action_receipt", events[i].of)})
LeaseActions(events, l) ==
    Cardinality({i \in DOMAIN events : events[i].kind = "action_created" /\ events[i].note = l})

\* _append_event: the key is looked up in memory, the line goes to the file.
Put(s, e) ==
    IF \E i \in DOMAIN seen[s] : Key(seen[s][i]) = Key(e)
    THEN UNCHANGED <<log, seen>>
    ELSE /\ log' = Append(log, e)
         /\ seen' = [seen EXCEPT ![s] = Append(seen[s], e)]

Idle == [step |-> "idle", action |-> NoAction, no |-> 0, verdict |-> "none"]
Doing(step, a, n, verdict) == [step |-> step, action |-> a, no |-> n, verdict |-> verdict]
Continue(s, step) == op' = [op EXCEPT ![s].step = step]
Return(s) == op' = [op EXCEPT ![s] = Idle]
Free(s) == op[s] = Idle

Init ==
    /\ log = <<>>
    /\ seen = [s \in Service |-> <<>>]
    /\ op = [s \in Service |-> Idle]
    /\ facts = {}
    /\ now = 0
    /\ calls = [a \in Action |-> 0]
    /\ direct = {}
    /\ crashes = 0

-----------------------------------------------------------------------------
CreateCandidate(s, c) ==
    /\ Free(s)
    /\ ~Has(seen[s], "candidate_created", c)
    /\ Put(s, CandidateCreated(c))
    /\ UNCHANGED <<op, facts, now, history, crashes>>

WithdrawCandidate(s, c) ==
    /\ Free(s)
    /\ Ready(seen[s], c)
    /\ Put(s, CandidateWithdrawn(c))
    /\ UNCHANGED <<op, facts, now, history, crashes>>

\* Allowed in every state of the action, even after its receipt.
WithdrawAction(s, a) ==
    /\ Free(s)
    /\ Has(seen[s], "action_created", a)
    /\ ~Has(seen[s], "action_withdrawn", a)
    /\ Put(s, ActionWithdrawn(a))
    /\ UNCHANGED <<op, facts, now, history, crashes>>

-----------------------------------------------------------------------------
\* The checks of validate that can change over time.
Valid(events, a, l) == now \in ActiveAt[l] /\ Ready(events, CandidateOf[a])

\* Mutated form: resume trusts the first validation.
ValidLease(events, a, l) == now \in ActiveAt[l]
\* dispatch_shadow has looked at the candidate before.
ValidOnResume(events, a, l) == Valid(events, a, l)

New(s, a) ==
    /\ Free(s)
    /\ ~Has(seen[s], "action_created", a)
    /\ Ready(seen[s], CandidateOf[a])

\* The rate limit and the lease cap are looked at here and nowhere else.
Dispatch(s, a, l) ==
    /\ New(s, a)
    /\ Valid(seen[s], a, l)
    /\ AcceptedInWindow(seen[s]) < WindowLimit
    /\ LeaseActions(seen[s], l) < LeaseCap[l]
    /\ Put(s, Created(a, l))
    /\ op' = [op EXCEPT ![s] = Doing("call", a, 1, "none")]
    /\ direct' = direct \cup {a}
    /\ UNCHANGED <<facts, now, calls, crashes>>

\* An invalid request is created and blocked, and counts under its lease.
DispatchBlocked(s, a, l) ==
    /\ New(s, a)
    /\ ~Valid(seen[s], a, l)
    /\ Put(s, Created(a, l))
    /\ op' = [op EXCEPT ![s] = Doing("receipt", a, 0, "blocked")]
    /\ UNCHANGED <<facts, now, history, crashes>>

\* Mutated form: one attempt too many.
MayRetryOnce(events, a) == Attempts(events, a) <= MaxAttempts
MayRetry(events, a) == Attempts(events, a) + 1 <= MaxAttempts

\* resume_action, and dispatch_shadow of a key that is known.  A withdrawn
\* action is not refused; a lease need not be the one of the first dispatch.
Resume(s, a, l) ==
    /\ Free(s)
    /\ Has(seen[s], "action_created", a)
    /\ ~Has(seen[s], "action_receipt", a)
    /\ MayRetry(seen[s], a)
    /\ op' = [op EXCEPT ![s] =
                IF ValidOnResume(seen[s], a, l)
                THEN Doing("call", a, Attempts(seen[s], a) + 1, "none")
                ELSE Doing("receipt", a, 0, "blocked")]
    /\ direct' = direct \ {a}
    /\ UNCHANGED <<log, seen, facts, now, calls, crashes>>

-----------------------------------------------------------------------------
\* transport.call; a transport may deny it by raising, which leaves no attempt.
Call(s, verdict) ==
    /\ op[s].step = "call"
    /\ calls' = [calls EXCEPT ![op[s].action] = @ + 1]
    /\ op' = [op EXCEPT ![s].step = IF verdict = "blocked" THEN "receipt" ELSE "attempt",
                        ![s].verdict = verdict]
    /\ UNCHANGED <<log, seen, facts, now, direct, crashes>>

RecordAttempt(s) ==
    /\ op[s].step = "attempt"
    /\ Put(s, Attempt(op[s].action, op[s].no))
    /\ Continue(s, IF op[s].verdict = "transient" THEN "checkpoint" ELSE "receipt")
    /\ UNCHANGED <<facts, now, history, crashes>>

RecordCheckpoint(s) ==
    /\ op[s].step = "checkpoint"
    /\ Put(s, Checkpoint(op[s].action))
    /\ Return(s)
    /\ UNCHANGED <<facts, now, history, crashes>>

\* Mutated form: every receipt is bound.
BindAnyReceipt(s) ==
    /\ op[s].step = "receipt"
    /\ Put(s, Receipt(op[s].action, op[s].verdict))
    /\ Continue(s, "bind")
    /\ UNCHANGED <<facts, now, history, crashes>>

RecordReceipt(s) ==
    /\ op[s].step = "receipt"
    /\ Put(s, Receipt(op[s].action, op[s].verdict))
    /\ IF op[s].verdict = "shadow_accepted" THEN Continue(s, "bind") ELSE Return(s)
    /\ UNCHANGED <<facts, now, history, crashes>>

BindEconomicPlatform(s) ==
    /\ op[s].step = "bind"
    /\ facts' = facts \cup {op[s].action}
    /\ Return(s)
    /\ UNCHANGED <<log, seen, now, history, crashes>>

-----------------------------------------------------------------------------
Tick ==
    /\ now < MaxClock
    /\ now' = now + 1
    /\ UNCHANGED <<log, seen, op, facts, history, crashes>>

\* A new object over the same root, as every request to the API makes one.
\* An operation it finds under way was cut short by a crash or by an
\* exception nobody caught.
Open(s) ==
    /\ ~Free(s) => crashes < MaxCrashes
    /\ crashes' = IF Free(s) THEN crashes ELSE crashes + 1
    /\ Return(s)
    /\ seen' = [seen EXCEPT ![s] = log]
    /\ UNCHANGED <<log, facts, now, history>>

Outcome == {"shadow_accepted", "shadow_rejected", "transient", "blocked"}

ServiceStep(s) ==
    \/ \E c \in Candidate : CreateCandidate(s, c) \/ WithdrawCandidate(s, c)
    \/ \E a \in Action : WithdrawAction(s, a)
    \/ \E a \in Action, l \in Lease :
          Dispatch(s, a, l) \/ DispatchBlocked(s, a, l) \/ Resume(s, a, l)
    \/ \E verdict \in Outcome : Call(s, verdict)
    \/ RecordAttempt(s) \/ RecordCheckpoint(s) \/ RecordReceipt(s)
    \/ BindEconomicPlatform(s)
    \/ Open(s)

Next == Tick \/ \E s \in Service : ServiceStep(s)

Spec == Init /\ [][Next]_vars

-----------------------------------------------------------------------------
EventKind ==
    {"action_created", "action_attempt", "action_checkpoint", "action_receipt",
     "action_withdrawn", "candidate_created", "candidate_withdrawn"}
Note == Lease \cup {"none", "shadow_accepted", "shadow_rejected", "blocked"}
EventSet ==
    [kind : EventKind, of : Action \cup Candidate, no : 0..MaxAttempts, note : Note,
     at : 0..MaxClock]
Operation ==
    [step : {"idle", "call", "attempt", "checkpoint", "receipt", "bind"},
     action : Action \cup {NoAction}, no : 0..MaxAttempts,
     verdict : Outcome \cup {"none"}]

\* Attempts are numbered within their budget.
TypeOK ==
    /\ log \in Seq(EventSet)
    /\ seen \in [Service -> Seq(EventSet)]
    /\ op \in [Service -> Operation]
    /\ facts \subseteq Action
    /\ now \in 0..MaxClock
    /\ calls \in [Action -> Nat]
    /\ direct \subseteq Action
    /\ crashes \in 0..MaxCrashes

\* An action is settled once, its verdict stays what it is, and a platform
\* fact exists only for an accepted one, whatever is replayed, resumed,
\* withdrawn or cut short (publication.py:3-5, 485).
Shadow == INSTANCE ShadowAction WITH
    verdict <- [a \in Action |-> Verdict(log, a)],
    facts <- facts
ImplementsShadowAction == Shadow!Spec

\* An action reaches the transport at most max_attempts_per_action times, and
\* once more for every operation that died before it recorded its attempt.
CallsBounded == \A a \in Action : calls[a] <= MaxAttempts + crashes

\* Among the receipts accepted within a window, those of actions that were
\* called by their own dispatch alone keep to the limit of the account: neither a
\* restart nor the clock lets one slip by (publication.py:542).
WindowRespected ==
    \A i \in Accepted(log) :
        Cardinality({j \in Accepted(log) :
            /\ log[j].of \in direct
            /\ log[j].at \in (log[i].at - Window)..log[i].at}) <= WindowLimit

\* A lease authorizes no more actions than its cap: of the actions created
\* under it, at most that many were called by their own dispatch alone.
LeaseRespected ==
    \A l \in Lease :
        Cardinality({i \in DOMAIN log :
            log[i].kind = "action_created" /\ log[i].note = l /\ log[i].of \in direct})
        <= LeaseCap[l]

\* The three budgets hold together: calls of an action, receipts of a window,
\* actions of a lease.
BudgetsRespected == CallsBounded /\ WindowRespected /\ LeaseRespected

\* No call is made for a candidate once it has been withdrawn, not even by
\* the resumption of an action from before.
NoCallOnceWithdrawn ==
    [][\A a \in Action :
          calls'[a] # calls[a] => ~Has(log, "candidate_withdrawn", CandidateOf[a])]_vars

\* Whatever services share the root, and whatever they have not read of each
\* other: a platform fact has an accepted receipt of its action on file.
FactsAreGrounded ==
    \A a \in facts : \E i \in Of(log, "action_receipt", a) : log[i].note = "shadow_accepted"

\* Whatever services share the root: what has been called or settled was created,
\* of a candidate that was, and no service calls against what it has read: the
\* action it calls has no receipt there and its candidate is not withdrawn.
CallsAreGrounded ==
    /\ \A a \in Action :
          calls[a] > 0 \/ Has(log, "action_receipt", a) =>
              /\ Has(log, "action_created", a)
              /\ Has(log, "candidate_created", CandidateOf[a])
    /\ \A s \in Service : op[s].step = "call" =>
          /\ Ready(seen[s], CandidateOf[op[s].action])
          /\ ~Has(seen[s], "action_receipt", op[s].action)

\* What leaves the pipeline, a call or a platform fact, rests on events that are
\* on file, however stale the copy of the events was on which it was decided.
EffectsAreGrounded == FactsAreGrounded /\ CallsAreGrounded

\* Every accepted action has its platform fact when no operation works on it:
\* the binding is to one economic fact per accepted action (publication.py:5).
AcceptedIsBound ==
    \A a \in Action :
        Verdict(log, a) = "shadow_accepted" /\ (\A s \in Service : op[s].action # a)
        => a \in facts
=============================================================================
