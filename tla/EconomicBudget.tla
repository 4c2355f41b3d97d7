--------------------------- MODULE EconomicBudget ---------------------------
(***************************************************************************)
(* EconomicBudgetTruth over an EconomicLedger (economic_ledger.py), driven *)
(* by the calls of GovernedDepartmentDagExecutor (governed_dag.py): every  *)
(* call of a DAG node reserves its estimate, executes, and commits the     *)
(* actual cost or releases the reservation.                                *)
(*                                                                         *)
(* A node's reservation id is a hash of task, category, amount and key, so *)
(* it is the node.  A ledger payload differs from an earlier one under the *)
(* same idempotency key only in its timestamp, which counts whole seconds. *)
(***************************************************************************)
EXTENDS Totals, FiniteSets

CONSTANTS
    Node,        \* DAG nodes that cost money
    MaxCalls,    \* bound: how often the DAG runner calls one node
    Category,    \* budget categories
    CategoryOf,  \* CategoryOf[n]: the budget_category of node n
    Cap,         \* Cap[c]: category_caps_fen
    Estimate,    \* Estimate[n]: estimate_cost_fen, the amount reserved
    Actual,      \* possible values of metrics.cost_fen
    Workers,     \* size of the thread pool that calls the executor
    MaxClock,    \* bound: seconds a behaviour spans
    MaxCrashes   \* bound: process restarts

Call == Node \X (1..MaxCalls)
NodeOf(k) == k[1]
NoCall == <<>>

Clock == 1..MaxClock
Absent == 0
HoldState == {"active", "committed", "released"}
Hold == {"none"} \cup HoldState

ASSUME BudgetAssumption ==
    /\ MaxCalls \in Nat \ {0} /\ Workers \in Nat \ {0} /\ MaxClock \in Nat \ {0}
    /\ MaxCrashes \in Nat
    /\ IsFiniteSet(Node) /\ Node # {}
    /\ CategoryOf \in [Node -> Category]
    /\ Cap \in [Category -> Nat]
    /\ Estimate \in [Node -> Nat]
    /\ Actual \subseteq Nat

VARIABLES
    entry,   \* entry[n][s]: timestamp of the ledger entry of n in state s
    latest,  \* latest[n]: state of n's last reservation entry in the ledger
    costs,   \* cost entries: node, actual cost, timestamp
    cache,   \* cache[n]: state of n in _reservations
    lock,    \* the call that holds _lock across two appends of commit
    now,     \* authoritative_timestamp
    pc,      \* pc[k]: where call k is
    seen,    \* seen[k]: cost entries read by the preflight of k
    outcome, \* outcome[k]: status and cost the executor returned
    dropped, \* calls whose result the DAG runner does not have and will not get,
             \* but for the last of a node, which it does not follow up
    \* History, read by properties only:
    reused,  \* nodes handed a reservation that was active no more
    crashes  \* crashes so far

ledger == <<entry, latest, costs>>
vars == <<ledger, cache, lock, now, pc, seen, outcome, dropped, reused, crashes>>

PC == {"new", "preflight", "reading", "allowed", "executing", "returned", "marked",
       "done", "blocked", "raised", "lost"}
Ended == {"done", "blocked", "raised", "lost"}
Running(k) == pc[k] \notin {"new"} \cup Ended

NoOutcome == [status |-> "none", cost |-> 0]
Outcome == [status : {"none", "completed", "blocked"}, cost : Actual \cup {0}]

Init ==
    /\ entry = [n \in Node |-> [s \in HoldState |-> Absent]]
    /\ latest = [n \in Node |-> "none"]
    /\ costs = {}
    /\ cache = [n \in Node |-> "none"]
    /\ lock = NoCall
    /\ now = 1
    /\ pc = [k \in Call |-> "new"]
    /\ seen = [k \in Call |-> {}]
    /\ outcome = [k \in Call |-> NoOutcome]
    /\ dropped = {}
    /\ reused = {}
    /\ crashes = 0

-----------------------------------------------------------------------------
CostOf == [e \in Node \X Nat \X Clock |-> e[2]]

SpentIn(cs, c) == Total(CostOf, {e \in cs : CategoryOf[e[1]] = c})
ReservedIn(c) == Total(Estimate, {n \in Node : latest[n] = "active" /\ CategoryOf[n] = c})
Spent(cs) == Total(CostOf, cs)
Reserved == Total(Estimate, {n \in Node : latest[n] = "active"})
\* EconomicBudgetPolicy.validate makes the operating cap the sum of the caps.
OperatingCap == Total(Cap, Category)

\* Mutated form: preflight forgets the cost entries.
AllowedByReservations(cs, c, amount) == ReservedIn(c) + amount <= Cap[c]

\* preflight: the cost entries are those read first, the reservations those
\* read after them.
Allowed(cs, c, amount) ==
    \/ amount = 0
    \/ /\ SpentIn(cs, c) + ReservedIn(c) + amount <= Cap[c]
       /\ Spent(cs) + Reserved + amount <= OperatingCap

\* EconomicLedger.append of a reservation entry in state s: accepted when the
\* key is new or the payload the same, which is to say of the same second.
Appendable(n, s) == entry[n][s] \in {Absent, now}

AppendHold(n, s) ==
    /\ entry' = [entry EXCEPT ![n][s] = now]
    /\ latest' = IF entry[n][s] = Absent THEN [latest EXCEPT ![n] = s] ELSE latest
    /\ cache' = [cache EXCEPT ![n] = s]

\* Mutated form: no release.
ReleaseNothing(n) == UNCHANGED <<entry, latest, cache>>

\* release, with the errors its callers swallow: a committed hold stays.
Release(n) ==
    IF cache[n] = "active" /\ Appendable(n, "released")
    THEN AppendHold(n, "released")
    ELSE UNCHANGED <<entry, latest, cache>>

Move(k, place) == pc' = [pc EXCEPT ![k] = place]

-----------------------------------------------------------------------------
\* The DAG runner calls a node again after an exception, and when it has no
\* result of the call before: the thread of that call may still be at work.
MayFollow(j) == pc[j] = "raised" \/ j \in dropped

BeginCall(k) ==
    /\ pc[k] = "new"
    /\ k[2] > 1 => MayFollow(<<k[1], k[2] - 1>>)
    /\ Cardinality({j \in Call : Running(j)}) < Workers
    /\ Move(k, "preflight")
    /\ UNCHANGED <<ledger, cache, lock, now, seen, outcome, dropped, reused, crashes>>

\* future.result times out; future.cancel does not stop a call that runs, and
\* the call keeps its thread of the pool.
TimeOut(k) ==
    /\ Running(k) /\ k[2] < MaxCalls
    /\ dropped' = dropped \cup {k}
    /\ UNCHANGED <<ledger, cache, lock, now, pc, seen, outcome, reused, crashes>>

ReadCosts(k) ==
    /\ pc[k] = "preflight"
    /\ seen' = [seen EXCEPT ![k] = costs]
    /\ Move(k, "reading")
    /\ UNCHANGED <<ledger, cache, lock, now, outcome, dropped, reused, crashes>>

\* The decision reads the reservations and holds no lock afterwards.
Decide(k) ==
    /\ pc[k] = "reading"
    /\ Move(k, IF Allowed(seen[k], CategoryOf[NodeOf(k)], Estimate[NodeOf(k)])
               THEN "allowed" ELSE "blocked")
    /\ seen' = [seen EXCEPT ![k] = {}]
    /\ UNCHANGED <<ledger, cache, lock, now, outcome, dropped, reused, crashes>>

Reserve(k) ==
    /\ pc[k] = "allowed"
    /\ lock = NoCall
    /\ IF Appendable(NodeOf(k), "active")
       THEN AppendHold(NodeOf(k), "active") /\ Move(k, "executing")
       ELSE UNCHANGED <<entry, latest, cache>> /\ Move(k, "blocked")
    /\ reused' = IF Appendable(NodeOf(k), "active") /\ latest[NodeOf(k)] \in {"committed", "released"}
                 THEN reused \cup {NodeOf(k)} ELSE reused
    /\ UNCHANGED <<costs, lock, now, seen, outcome, dropped, crashes>>

ExecutorReturns(k, status, cost) ==
    /\ pc[k] = "executing"
    /\ outcome' = [outcome EXCEPT ![k] = [status |-> status, cost |-> cost]]
    /\ Move(k, "returned")
    /\ UNCHANGED <<ledger, cache, lock, now, seen, dropped, reused, crashes>>

ExecutorRaises(k) ==
    /\ pc[k] = "executing"
    /\ lock = NoCall
    /\ Release(NodeOf(k))
    /\ Move(k, "raised")
    /\ UNCHANGED <<costs, lock, now, seen, outcome, dropped, reused, crashes>>

\* Under _lock, so the preflight of the excess sees no half-done commit.
MayCommit(k) ==
    LET n == NodeOf(k) IN
    /\ cache[n] = "active"
    /\ outcome[k].cost > Estimate[n] =>
          Allowed(costs, CategoryOf[n], outcome[k].cost - Estimate[n])
    /\ Appendable(n, "committed")

\* Mutated form: the two appends are not under one lock.
CommitMarkUnlocked(k) ==
    /\ pc[k] = "returned"
    /\ lock = NoCall
    /\ MayCommit(k)
    /\ AppendHold(NodeOf(k), "committed")
    /\ Move(k, "marked")
    /\ UNCHANGED <<costs, lock, now, seen, outcome, dropped, reused, crashes>>

\* The first append of commit.
CommitMark(k) ==
    /\ pc[k] = "returned"
    /\ lock = NoCall
    /\ MayCommit(k)
    /\ AppendHold(NodeOf(k), "committed")
    /\ lock' = k
    /\ Move(k, "marked")
    /\ UNCHANGED <<costs, now, seen, outcome, dropped, reused, crashes>>

\* A result that is not completed is released as well, which on a committed
\* reservation comes to nothing.
SettleAfterCommit(k) ==
    /\ lock' = NoCall
    /\ IF outcome[k].status = "completed"
       THEN UNCHANGED <<entry, latest, cache>> /\ Move(k, "done")
       ELSE Release(NodeOf(k)) /\ Move(k, "blocked")

\* The second append of commit.
CommitCost(k) ==
    /\ pc[k] = "marked"
    /\ costs' = costs \cup {<<NodeOf(k), outcome[k].cost, now>>}
    /\ SettleAfterCommit(k)
    /\ UNCHANGED <<now, seen, outcome, dropped, reused, crashes>>

\* commit raises; the finally clause releases unless the result is completed.
CommitFails(k) ==
    /\ pc[k] = "returned"
    /\ lock = NoCall
    /\ ~MayCommit(k)
    /\ IF outcome[k].status # "completed" THEN Release(NodeOf(k))
       ELSE UNCHANGED <<entry, latest, cache>>
    /\ Move(k, "raised")
    /\ UNCHANGED <<costs, lock, now, seen, outcome, dropped, reused, crashes>>

Tick ==
    /\ now < MaxClock
    /\ now' = now + 1
    /\ UNCHANGED <<ledger, cache, lock, pc, seen, outcome, dropped, reused, crashes>>

\* The process restarts: calls are lost, the cache is rebuilt from the ledger.
\* The checkpoint may be without a call that had ended, too.
Restart ==
    /\ crashes < MaxCrashes
    /\ crashes' = crashes + 1
    /\ pc' = [k \in Call |-> IF Running(k) THEN "lost" ELSE pc[k]]
    /\ cache' = latest
    /\ lock' = NoCall
    /\ seen' = [k \in Call |-> {}]
    /\ dropped' = {k \in Call : pc[k] # "new" /\ k[2] < MaxCalls}
    /\ UNCHANGED <<ledger, now, outcome, reused>>

CallStep(k) ==
    \/ BeginCall(k) \/ TimeOut(k) \/ ReadCosts(k) \/ Decide(k) \/ Reserve(k)
    \/ \E status \in {"completed", "blocked"}, cost \in Actual :
          ExecutorReturns(k, status, cost)
    \/ ExecutorRaises(k) \/ CommitMark(k) \/ CommitCost(k) \/ CommitFails(k)

Next == Tick \/ Restart \/ \E k \in Call : CallStep(k)

Spec == Init /\ [][Next]_vars

-----------------------------------------------------------------------------
TypeOK ==
    /\ entry \in [Node -> [HoldState -> Clock \cup {Absent}]]
    /\ latest \in [Node -> Hold]
    /\ costs \subseteq Node \X Nat \X Clock
    /\ cache \in [Node -> Hold]
    /\ lock \in Call \cup {NoCall}
    /\ now \in Clock
    /\ pc \in [Call -> PC]
    /\ \A k \in Call : seen[k] \subseteq costs
    /\ outcome \in [Call -> Outcome]
    /\ dropped \subseteq Call
    /\ reused \subseteq Node
    /\ crashes \in Nat

Load(c) == SpentIn(costs, c) + ReservedIn(c)

\* Spent plus reserved money stays under the cap of its category: a
\* reservation counts against the budget until it is committed or released
\* (economic_ledger.py:14).
WithinCaps == \A c \in Category : Load(c) <= Cap[c]

\* Preflight takes no lock, so a decision can be stale when its reservation
\* is appended; with as many workers, at most that many reservations less one
\* exceed a cap.  Excepted is what a retry spends that was handed, in the second of
\* its first call, the entry of a reservation since committed or released.
OverrunBounded ==
    \A c \in Category :
        Total(CostOf, {e \in costs : CategoryOf[e[1]] = c /\ e[1] \notin reused})
        + ReservedIn(c)
        <= Cap[c] + (Workers - 1) * Max({Estimate[n] : n \in Node})

\* While a process lives, no call of a node ends and leaves the node's
\* reservation active, unless it was completed at a cost above the estimate
\* and the excess was refused: only then is nothing released
\* (governed_dag.py:368).
NoLeakedHold ==
    \A n \in Node :
        /\ crashes = 0
        /\ \A i \in 1..MaxCalls : ~Running(<<n, i>>)
        /\ latest[n] = "active"
        => \E i \in 1..MaxCalls :
              /\ outcome[<<n, i>>].status = "completed"
              /\ outcome[<<n, i>>].cost > Estimate[n]

\* While a process lives, a committed reservation has its cost entry as soon
\* as commit has returned, and no other reservation has one.
CommittedIsCharged ==
    crashes = 0 =>
        \A n \in Node : lock = NoCall \/ NodeOf(lock) # n =>
            (entry[n]["committed"] # Absent <=> \E e \in costs : e[1] = n)
=============================================================================
