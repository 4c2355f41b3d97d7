----------------------------- MODULE DurableDag -----------------------------
(***************************************************************************)
(* DurableDagRunner.run (dag.py): one task is a DAG of nodes executed in   *)
(* batches by a pool of worker threads.  The runner keeps the task in      *)
(* memory (mem) and replaces an atomic checkpoint file (disk) at every     *)
(* _save; a crash loses the memory, the threads and every step taken since *)
(* the last _save.                                                         *)
(*                                                                         *)
(* A node is its position in the plan, so "plan order" is the order of the *)
(* numbers.  Results, errors and timestamps are left out.                  *)
(***************************************************************************)
EXTENDS Integers, FiniteSets

CONSTANTS
    NumNodes,       \* number of nodes in the plan
    Deps,           \* Deps[n]: the nodes n depends on
    MaxAttempts,    \* MaxAttempts[n]: DagNodeSpec.max_attempts
    Compensable,    \* nodes whose DagNodeSpec.compensation is not None
    MaxWorkers,     \* size of the thread pool and of a batch
    CompensateOnFailure,
    Outcomes,       \* what an executor call may come to
    Limits,         \* values of max_new_terminal_nodes; 0 stands for None
    CancelRequests, \* values of cancel_requested
    MaxCrashes      \* bound: how many crashes a behaviour may contain

Node == 1..NumNodes

NodeTerminal == {"completed", "failed", "blocked", "cancelled", "compensated"}
NodeStatus == {"waiting", "ready", "running"} \cup NodeTerminal
OkStatus == {"completed", "compensated"}
\* Mutated form: a blocked or cancelled dependency is not taken as bad.
BadStatusFailedOnly == {"failed"}
BadStatus == {"failed", "blocked", "cancelled"}
TaskTerminal == {"completed", "failed", "cancelled"}

ResultStatus == {"completed", "blocked", "failed", "cancelled"}
CallOutcome == ResultStatus \cup {"raised"}

\* validate_dag: the layers it peels off are a ranking of the nodes.
ValidPlan ==
    /\ NumNodes \in Nat \ {0}
    /\ Deps \in [Node -> SUBSET Node]
    /\ \E rank \in [Node -> Node] :
          \A n \in Node : \A d \in Deps[n] : rank[d] < rank[n]

ASSUME PlanAssumption == ValidPlan
ASSUME ParameterAssumption ==
    /\ MaxAttempts \in [Node -> Nat \ {0}]
    /\ Compensable \subseteq Node
    /\ MaxWorkers \in Nat \ {0}
    /\ CompensateOnFailure \in BOOLEAN
    /\ Outcomes \subseteq CallOutcome
    /\ Limits \subseteq Nat
    /\ CancelRequests \subseteq BOOLEAN
    /\ MaxCrashes \in Nat

VARIABLES
    disk,       \* the checkpoint file
    mem,        \* the state dictionary of the run in progress
    pc,         \* where that run is; "idle" when there is none
    todo,       \* nodes the loop at pc has still to visit
    batch,      \* ready_ids
    future,     \* future[n]: the current Future of node n
    abandoned,  \* calls of this pool whose Future was given up on
    newTerminal,\* new_terminal
    limit,      \* max_new_terminal_nodes of this run
    verdict,    \* the task status this run is about to write
    \* History, read by properties only:
    crashes,    \* crashes so far
    calls,      \* calls[n]: executor calls begun for n
    undos,      \* undos[n]: successful compensate calls for n
    undoFailed  \* nodes with a dag-compensation-failed event

run == <<mem, pc, todo, batch, future, abandoned, newTerminal, limit, verdict>>
history == <<crashes, calls, undos, undoFailed>>
vars == <<disk, run, history>>

PC == {"idle", "scan", "launch", "launched", "collect", "collected", "pause",
       "rescan", "undo", "undone", "close"}
FutureState == {"none", "queued", "running"} \cup CallOutcome

TaskRecord ==
    [status: {"absent", "running", "paused"} \cup TaskTerminal,
     node: [Node -> NodeStatus],
     attempts: [Node -> Nat]]

EmptyTask(s) ==
    [status |-> s, node |-> [n \in Node |-> "waiting"], attempts |-> [n \in Node |-> 0]]

NoFutures == [n \in Node |-> "none"]

Init ==
    /\ disk = EmptyTask("absent")
    /\ mem = EmptyTask("absent")
    /\ pc = "idle"
    /\ todo = {} /\ batch = {}
    /\ future = NoFutures /\ abandoned = {}
    /\ newTerminal = 0 /\ limit = 0
    /\ verdict = "none"
    /\ crashes = 0
    /\ calls = [n \in Node |-> 0]
    /\ undos = [n \in Node |-> 0]
    /\ undoFailed = {}

IsFirst(n, S) == n \in S /\ \A m \in S : n <= m
\* Mutated form: the rollback visits the plan forwards.
IsLastForwards(n, S) == IsFirst(n, S)
IsLast(n, S)  == n \in S /\ \A m \in S : m <= n

\* Changes of a task record.
SetNode(t, n, s) == [t EXCEPT !.node[n] = s]
SetStatus(t, s)  == [t EXCEPT !.status = s]
Attempt(t, n) ==
    [SetNode(t, n, "running") EXCEPT !.attempts[n] = @ + 1]

DepsOk(t, n)  == \A d \in Deps[n] : t.node[d] \in OkStatus
DepsBad(t, n) == \E d \in Deps[n] : t.node[d] \in BadStatus

-----------------------------------------------------------------------------
\* A checkpoint read back: what was running when it was written is ready again.
Interrupted(t) ==
    [t EXCEPT !.node = [n \in Node |->
        IF t.node[n] = "running" THEN "ready" ELSE t.node[n]]]

\* Mutated form: a restart begins the task anew.
LoadOrCreateAnew == EmptyTask("running")

LoadOrCreate ==
    IF disk.status = "absent" THEN EmptyTask("running") ELSE Interrupted(disk)

Cancelled(t) ==
    [t EXCEPT !.node = [n \in Node |->
        IF t.node[n] \in NodeTerminal THEN t.node[n] ELSE "cancelled"]]

\* run() up to its loop.  Only a new task is saved here.  A call on a task
\* with a final status returns at once and changes nothing.
StartRun(lim, cancel) ==
    /\ pc = "idle"
    /\ disk.status \notin TaskTerminal
    /\ disk' = IF disk.status = "absent" THEN LoadOrCreate ELSE disk
    /\ mem' = IF cancel THEN Cancelled(LoadOrCreate) ELSE LoadOrCreate
    /\ pc' = IF cancel THEN "undo" ELSE "scan"
    /\ verdict' = IF cancel THEN "cancelled" ELSE "none"
    /\ todo' = Node
    /\ limit' = lim
    /\ newTerminal' = 0
    /\ UNCHANGED <<batch, future, abandoned, history>>

\* Mutated form: one completed dependency is enough.
RefreshedByAny(n) ==
    IF /\ mem.node[n] \in {"waiting", "ready"}
       /\ Deps[n] = {} \/ \E d \in Deps[n] : mem.node[d] \in OkStatus
    THEN "ready" ELSE mem.node[n]

Refreshed(n) ==
    IF mem.node[n] \notin {"waiting", "ready"} THEN mem.node[n]
    ELSE IF DepsBad(mem, n) THEN "blocked"
    ELSE IF DepsOk(mem, n) THEN "ready"
    ELSE mem.node[n]

\* One turn of the loop of _refresh_readiness, in the main loop or after it.
RefreshNode(n) ==
    /\ pc \in {"scan", "rescan"}
    /\ IsFirst(n, todo)
    /\ mem' = SetNode(mem, n, Refreshed(n))
    /\ todo' = todo \ {n}
    /\ UNCHANGED <<disk, pc, batch, future, abandoned, newTerminal, limit, verdict, history>>

ReadyNodes == {n \in Node : mem.node[n] = "ready"}
ReadyIds == {n \in ReadyNodes : Cardinality({m \in ReadyNodes : m < n}) < MaxWorkers}

\* _save after the refresh, then the choice of a batch; with nothing ready the
\* loop ends, the pool is shut down and readiness is refreshed once more.
SelectBatch ==
    /\ pc = "scan" /\ todo = {}
    /\ disk' = mem
    /\ batch' = ReadyIds
    /\ IF ReadyIds = {}
       THEN pc' = "rescan" /\ todo' = Node
       ELSE pc' = "launch" /\ todo' = ReadyIds
    /\ UNCHANGED <<mem, future, abandoned, newTerminal, limit, verdict, history>>

LaunchNode(n) ==
    /\ pc = "launch"
    /\ IsFirst(n, todo)
    /\ mem' = Attempt(mem, n)
    /\ future' = [future EXCEPT ![n] = "queued"]
    /\ todo' = todo \ {n}
    /\ pc' = IF todo = {n} THEN "launched" ELSE "launch"
    /\ UNCHANGED <<disk, batch, abandoned, newTerminal, limit, verdict, history>>

\* _save after the submits: the calls may have begun before it.
SaveLaunched ==
    /\ pc = "launched"
    /\ disk' = mem
    /\ pc' = "collect"
    /\ todo' = batch
    /\ UNCHANGED <<mem, batch, future, abandoned, newTerminal, limit, verdict, history>>

-----------------------------------------------------------------------------
\* The pool: calls start in the order of submission, on at most MaxWorkers
\* threads, and a call nobody waits for any more keeps its thread.
Busy == Cardinality({n \in Node : future[n] = "running"}) + Cardinality(abandoned)

StartCall(n) ==
    /\ future[n] = "queued"
    /\ \A m \in batch : m < n => future[m] # "queued"
    /\ Busy < MaxWorkers
    /\ future' = [future EXCEPT ![n] = "running"]
    /\ calls' = [calls EXCEPT ![n] = @ + 1]
    /\ UNCHANGED <<disk, mem, pc, todo, batch, abandoned, newTerminal, limit, verdict,
                   crashes, undos, undoFailed>>

FinishCall(n, outcome) ==
    /\ future[n] = "running"
    /\ future' = [future EXCEPT ![n] = outcome]
    /\ UNCHANGED <<disk, mem, pc, todo, batch, abandoned, newTerminal, limit, verdict, history>>

FinishAbandoned(call) ==
    /\ abandoned' = abandoned \ {call}
    /\ UNCHANGED <<disk, mem, pc, todo, batch, future, newTerminal, limit, verdict, history>>

-----------------------------------------------------------------------------
\* A node with attempts left goes back to ready; the last attempt fails it.
\* Mutated form: one attempt too many.
AfterFailureOffByOne(n) == IF mem.attempts[n] <= MaxAttempts[n] THEN "ready" ELSE "failed"
AfterFailure(n) == IF mem.attempts[n] < MaxAttempts[n] THEN "ready" ELSE "failed"

\* The node's new status is in memory and its event in the ledger; the
\* checkpoint follows in SaveCollected.
Collect(n, status) ==
    /\ mem' = SetNode(mem, n, status)
    /\ newTerminal' = IF status = "ready" THEN newTerminal ELSE newTerminal + 1
    /\ pc' = "collected"

CollectResult(n) ==
    /\ pc = "collect" /\ IsFirst(n, todo)
    /\ future[n] \in ResultStatus
    /\ Collect(n, future[n])
    /\ UNCHANGED <<disk, todo, batch, future, abandoned, limit, verdict, history>>

CollectException(n) ==
    /\ pc = "collect" /\ IsFirst(n, todo)
    /\ future[n] = "raised"
    /\ Collect(n, AfterFailure(n))
    /\ UNCHANGED <<disk, todo, batch, future, abandoned, limit, verdict, history>>

\* Mutated form: the runner waits for a running call without a timeout.
CollectTimeoutQueuedOnly(n) ==
    /\ pc = "collect" /\ IsFirst(n, todo)
    /\ future[n] = "queued"
    /\ Collect(n, AfterFailure(n))
    /\ future' = [future EXCEPT ![n] = "none"]
    /\ UNCHANGED <<disk, todo, batch, abandoned, limit, verdict, history>>

\* future.cancel() removes a call still queued and cannot stop one that runs.
CollectTimeout(n) ==
    /\ pc = "collect" /\ IsFirst(n, todo)
    /\ future[n] \in {"queued", "running"}
    /\ Collect(n, AfterFailure(n))
    /\ abandoned' = IF future[n] = "running"
                    THEN abandoned \cup {<<n, mem.attempts[n]>>} ELSE abandoned
    /\ future' = [future EXCEPT ![n] = "none"]
    /\ UNCHANGED <<disk, todo, batch, limit, verdict, history>>

LimitReached == limit # 0 /\ newTerminal >= limit

SaveCollected(n) ==
    /\ pc = "collected" /\ IsFirst(n, todo)
    /\ disk' = mem
    /\ future' = [future EXCEPT ![n] = "none"]
    /\ IF todo # {n} THEN pc' = "collect" /\ todo' = todo \ {n}
       ELSE IF LimitReached THEN pc' = "pause" /\ todo' = {}
       ELSE pc' = "scan" /\ todo' = Node
    /\ UNCHANGED <<mem, batch, abandoned, newTerminal, limit, verdict, history>>

-----------------------------------------------------------------------------
\* A run returns: its last _save, and nothing of it is left in memory.
Return(t) ==
    /\ disk' = t
    /\ mem' = t
    /\ pc' = "idle"
    /\ todo' = {} /\ batch' = {}
    /\ future' = NoFutures /\ abandoned' = {}
    /\ newTerminal' = 0 /\ limit' = 0 /\ verdict' = "none"

PauseRun ==
    /\ pc = "pause"
    /\ Return(SetStatus(mem, "paused"))
    /\ UNCHANGED history

SomeNode(S) == \E n \in Node : mem.node[n] \in S

\* Mutated forms: the task takes over a node's status; a blocked node does not
\* fail the task.
VerdictFromNode ==
    IF SomeNode({"blocked"}) THEN "blocked" ELSE IF SomeNode({"failed"}) THEN "failed"
    ELSE "completed"
VerdictFailedOnly ==
    IF SomeNode({"failed"}) THEN "failed"
    ELSE IF SomeNode(NodeStatus \ NodeTerminal) THEN "paused"
    ELSE "completed"

Verdict ==
    IF SomeNode({"failed", "blocked"}) THEN "failed"
    ELSE IF SomeNode(NodeStatus \ NodeTerminal) THEN "paused"
    ELSE "completed"

Conclude ==
    /\ pc = "rescan" /\ todo = {}
    /\ verdict' = Verdict
    /\ IF Verdict = "failed" /\ CompensateOnFailure
       THEN pc' = "undo" /\ todo' = Node
       ELSE pc' = "close" /\ todo' = {}
    /\ UNCHANGED <<disk, mem, batch, future, abandoned, newTerminal, limit, history>>

\* _compensate visits the plan backwards.
MustUndo(n) == mem.node[n] = "completed" /\ n \in Compensable

SkipUndo(n) ==
    /\ pc = "undo" /\ IsLast(n, todo)
    /\ ~MustUndo(n)
    /\ todo' = todo \ {n}
    /\ UNCHANGED <<disk, mem, pc, batch, future, abandoned, newTerminal, limit, verdict, history>>

UndoNode(n) ==
    /\ pc = "undo" /\ IsLast(n, todo)
    /\ MustUndo(n)
    /\ mem' = SetNode(mem, n, "compensated")
    /\ undos' = [undos EXCEPT ![n] = @ + 1]
    /\ pc' = "undone"
    /\ UNCHANGED <<disk, todo, batch, future, abandoned, newTerminal, limit, verdict,
                   crashes, calls, undoFailed>>

\* Mutated form: the rollback stops at the first compensation that raises.
UndoFailsStops(n) ==
    /\ pc = "undo" /\ IsLast(n, todo)
    /\ MustUndo(n)
    /\ todo' = {}
    /\ undoFailed' = undoFailed \cup {n}
    /\ UNCHANGED <<disk, mem, pc, batch, future, abandoned, newTerminal, limit, verdict,
                   crashes, calls, undos>>

\* compensate raised: an event, no status change, no _save.
UndoFails(n) ==
    /\ pc = "undo" /\ IsLast(n, todo)
    /\ MustUndo(n)
    /\ todo' = todo \ {n}
    /\ undoFailed' = undoFailed \cup {n}
    /\ UNCHANGED <<disk, mem, pc, batch, future, abandoned, newTerminal, limit, verdict,
                   crashes, calls, undos>>

SaveUndone(n) ==
    /\ pc = "undone" /\ IsLast(n, todo)
    /\ disk' = mem
    /\ todo' = todo \ {n}
    /\ pc' = "undo"
    /\ UNCHANGED <<mem, batch, future, abandoned, newTerminal, limit, verdict, history>>

UndoEnds ==
    /\ pc = "undo" /\ todo = {}
    /\ pc' = "close"
    /\ UNCHANGED <<disk, mem, todo, batch, future, abandoned, newTerminal, limit, verdict, history>>

CloseRun ==
    /\ pc = "close"
    /\ Return(SetStatus(mem, verdict))
    /\ UNCHANGED history

\* The process dies: memory and threads go, the checkpoint stays.
Crash ==
    /\ pc # "idle"
    /\ crashes < MaxCrashes
    /\ crashes' = crashes + 1
    /\ Return(disk)
    /\ UNCHANGED <<calls, undos, undoFailed>>

-----------------------------------------------------------------------------
RunnerStep ==
    \/ SelectBatch \/ SaveLaunched \/ PauseRun \/ Conclude \/ UndoEnds \/ CloseRun
    \/ \E n \in Node :
          \/ RefreshNode(n) \/ LaunchNode(n)
          \/ CollectResult(n) \/ CollectException(n) \/ CollectTimeout(n) \/ SaveCollected(n)
          \/ SkipUndo(n) \/ UndoNode(n) \/ UndoFails(n) \/ SaveUndone(n)

PoolStep ==
    \/ \E n \in Node : StartCall(n)
    \/ \E n \in Node, outcome \in Outcomes : FinishCall(n, outcome)
    \/ \E call \in abandoned : FinishAbandoned(call)

Next ==
    \/ \E lim \in Limits, cancel \in CancelRequests : StartRun(lim, cancel)
    \/ RunnerStep
    \/ PoolStep
    \/ Crash

Spec == Init /\ [][Next]_vars

\* The runner's thread is in executor.compensate, which has no timeout.
Compensating == pc = "undo" /\ \E n \in Node : IsLast(n, todo) /\ MustUndo(n)

\* The runner's thread is scheduled; future.result(timeout) makes its wait for
\* a call finite.  Neither the pool nor an executor is assumed to make progress,
\* and compensate may never return.
FairSpec == Spec /\ WF_vars(RunnerStep /\ ~Compensating)

-----------------------------------------------------------------------------
TypeOK ==
    /\ disk \in TaskRecord
    /\ mem \in TaskRecord
    /\ pc \in PC
    /\ todo \subseteq Node
    /\ batch \subseteq Node
    /\ future \in [Node -> FutureState]
    /\ abandoned \subseteq Node \X Nat
    /\ newTerminal \in Nat
    /\ limit \in Nat
    /\ verdict \in {"none", "paused"} \cup TaskTerminal
    /\ crashes \in Nat
    /\ calls \in [Node -> Nat]
    /\ undos \in [Node -> Nat]
    /\ undoFailed \subseteq Node

\* A call of a node begins only when the checkpoint already holds all its
\* dependencies as completed: memory that a crash can take back never feeds a
\* node.  (The _save between _refresh_readiness and pool.submit.)
DependenciesFirst == \A n \in Node : calls[n] > 0 => DepsOk(disk, n)

\* Through crashes, resumes, retries and cancellation, what the checkpoint
\* holds as settled stays as it is; only completed work may be compensated.
SettledForever ==
    [][\A n \in Node : disk.node[n] \in NodeTerminal =>
          \/ disk'.node[n] = disk.node[n]
          \/ disk.node[n] = "completed" /\ disk'.node[n] = "compensated"]_vars

\* A crash gives a node at most one call beyond max_attempts, whether it hit
\* before or after the attempt was counted in the checkpoint.
AttemptBudget == \A n \in Node : calls[n] <= MaxAttempts[n] + crashes

\* A node is undone only after the nodes built on it, unless undoing one of
\* those has failed.
RollbackOrder ==
    [][\A n, m \in Node :
          /\ undos'[n] > undos[n]
          /\ n \in Deps[m]
          /\ m \in Compensable
          => mem.node[m] # "completed" \/ m \in undoFailed]_vars

\* A failed or cancelled task keeps completed work that could be undone only
\* where compensate raised, also when a crash interrupted the rollback.
RollbackComplete ==
    disk.status \in {"cancelled"} \cup (IF CompensateOnFailure THEN {"failed"} ELSE {})
    => \A n \in Compensable : disk.node[n] = "completed" => n \in undoFailed

\* A task with a final status has no node waiting, ready or running.
NoNodeLeftOpen ==
    disk.status \in TaskTerminal => \A n \in Node : disk.node[n] \in NodeTerminal

\* Where no node was cancelled, a task is reported completed only when every
\* node is, and failed only over a node that failed or was blocked.  One crash is
\* an exception: a task whose nodes are all completed is cancelled, the crash cuts
\* the rollback short, and a run without the cancellation then completes the task
\* over the nodes that were undone.
VerdictMatchesNodes ==
    (\A n \in Node : disk.node[n] # "cancelled") =>
        /\ disk.status = "completed" =>
              \A n \in Node : \/ disk.node[n] = "completed"
                              \/ disk.node[n] = "compensated" /\ crashes > 0
        /\ disk.status = "failed" => \E n \in Node : disk.node[n] \in {"failed", "blocked"}

\* The final status of a task is true of all its nodes: none is left open, the
\* verdict is theirs, and what was to be undone is.
VerdictIsTrue == NoNodeLeftOpen /\ VerdictMatchesNodes /\ RollbackComplete

\* A task needs finitely many runs: every run returns, even over executors that
\* hang in a call, and no task can be resumed for ever without a final status.
\* Only a compensate that never returns holds a run up for good.
EveryTaskSettles == <>[](pc = "idle" \/ Compensating)

\* The checkpoint implements the abstract task.
Task == INSTANCE DagTask WITH
    out <- [n \in Node |-> IF disk.node[n] \in NodeTerminal THEN disk.node[n] ELSE "pending"],
    verdict <- IF disk.status \in TaskTerminal THEN disk.status ELSE "open"

\* Every change of the checkpoint is a step of DagTask.
ImplementsDagTask == Task!Spec

=============================================================================
