-------------------------- MODULE DurableDagProofs --------------------------
(***************************************************************************)
(* Proofs about DurableDag for every plan, pool, retry policy and number   *)
(* of crashes.  The first part says what a call may rest on; the second    *)
(* what a task comes to: how often a node is called, what the final status *)
(* says of the nodes, in which order work is undone, and that the          *)
(* checkpoint implements DagTask.                                          *)
(***************************************************************************)
EXTENDS DurableDag, FiniteSetTheorems, TLAPS

\* Which words are statuses of what.
LEMMA Statuses ==
    /\ {"waiting", "ready", "running"} \subseteq NodeStatus
    /\ NodeTerminal \subseteq NodeStatus
    /\ ResultStatus \subseteq NodeTerminal
    /\ OkStatus \subseteq NodeTerminal
    /\ BadStatus \subseteq NodeTerminal
    /\ \A s \in {"waiting", "ready", "running"} : s \notin NodeTerminal
    /\ {"none", "queued", "running"} \cup CallOutcome = FutureState
    /\ ResultStatus \subseteq CallOutcome
    /\ "absent" \notin {"running", "paused"} \cup TaskTerminal
    /\ \A s \in {"failed", "completed", "compensated", "blocked", "cancelled"} :
          s \in NodeTerminal
  BY DEF NodeStatus, NodeTerminal, ResultStatus, OkStatus, BadStatus, FutureState,
         CallOutcome, TaskTerminal

\* The task record a run starts from, and what one turn of a loop does to it,
\* is a task record again.
LEMMA SetNodeType ==
    ASSUME NEW t \in TaskRecord, NEW n \in Node, NEW s \in NodeStatus
    PROVE  /\ SetNode(t, n, s) \in TaskRecord
           /\ SetNode(t, n, s).status = t.status
           /\ SetNode(t, n, s).attempts = t.attempts
           /\ \A m \in Node : SetNode(t, n, s).node[m] = IF m = n THEN s ELSE t.node[m]
  BY DEF TaskRecord, SetNode

LEMMA AttemptType ==
    ASSUME NEW t \in TaskRecord, NEW n \in Node
    PROVE  /\ Attempt(t, n) \in TaskRecord
           /\ Attempt(t, n).status = t.status
           /\ \A m \in Node : Attempt(t, n).node[m] = IF m = n THEN "running" ELSE t.node[m]
<1>1. ASSUME NEW u \in TaskRecord
      PROVE  /\ [u EXCEPT !.attempts[n] = @ + 1] \in TaskRecord
             /\ [u EXCEPT !.attempts[n] = @ + 1].status = u.status
             /\ [u EXCEPT !.attempts[n] = @ + 1].node = u.node
  <2>1. [u.attempts EXCEPT ![n] = u.attempts[n] + 1] \in [Node -> Nat]
    BY DEF TaskRecord
  <2>2. QED
    BY <2>1 DEF TaskRecord
<1> DEFINE v == SetNode(t, n, "running")
<1>2. /\ v \in TaskRecord /\ v.status = t.status
      /\ \A m \in Node : v.node[m] = IF m = n THEN "running" ELSE t.node[m]
  BY SetNodeType, Statuses
<1>3. Attempt(t, n) = [v EXCEPT !.attempts[n] = @ + 1]
  BY DEF Attempt
<1> HIDE DEF v
<1>4. QED
  BY <1>1, <1>2, <1>3

LEMMA StatusType ==
    ASSUME NEW t \in TaskRecord, NEW s \in {"running", "paused"} \cup TaskTerminal
    PROVE  /\ SetStatus(t, s) \in TaskRecord
           /\ SetStatus(t, s).status = s
           /\ SetStatus(t, s).node = t.node
  BY DEF TaskRecord, SetStatus

LEMMA LoadType ==
    ASSUME disk \in TaskRecord
    PROVE  /\ LoadOrCreate \in TaskRecord
           /\ LoadOrCreate.status # "absent"
           /\ Cancelled(LoadOrCreate) \in TaskRecord
           /\ Cancelled(LoadOrCreate).status = LoadOrCreate.status
  BY DEF LoadOrCreate, EmptyTask, Interrupted, Cancelled, TaskRecord, NodeStatus,
         NodeTerminal, TaskTerminal

-----------------------------------------------------------------------------
\* TypeOK is inductive once it says that a run in progress has a task with a
\* status, and that a run about to end knows which.
TypeInv ==
    /\ TypeOK
    /\ pc # "idle" => mem.status # "absent" /\ disk.status # "absent"
    /\ pc \in {"undo", "undone", "close"} => verdict # "none"

LEMMA TypeInit == Init => TypeInv
  BY PlanAssumption DEF Init, TypeInv, TypeOK, TaskRecord, EmptyTask, NoFutures,
                         NodeStatus, PC, FutureState

LEMMA VerdictType == Verdict \in {"failed", "paused", "completed"}
  BY DEF Verdict

LEMMA ReturnType ==
    ASSUME NEW t \in TaskRecord, Return(t)
    PROVE  /\ disk' = t /\ mem' = t /\ pc' = "idle" /\ todo' = {} /\ batch' = {}
           /\ future' \in [Node -> FutureState] /\ abandoned' = {}
           /\ newTerminal' \in Nat /\ limit' \in Nat /\ verdict' = "none"
           /\ \A n \in Node : future'[n] = "none"
  BY Statuses DEF Return, NoFutures

LEMMA TypeNext == TypeInv /\ [Next]_vars => TypeInv'
<1> SUFFICES ASSUME TypeInv, [Next]_vars PROVE TypeInv'
  OBVIOUS
<1> USE DEF TypeInv, TypeOK, PC, history
<1>0. CASE UNCHANGED vars
  BY <1>0 DEF vars, run
<1>1. ASSUME NEW lim \in Limits, NEW cancel \in CancelRequests, StartRun(lim, cancel)
      PROVE  TypeInv'
  <2>1. mem' \in TaskRecord /\ disk' \in TaskRecord
    BY <1>1, LoadType DEF StartRun
  <2>2. mem'.status # "absent" /\ disk'.status # "absent"
    BY <1>1, LoadType DEF StartRun
  <2>3. limit' \in Nat
    BY <1>1, ParameterAssumption DEF StartRun
  <2>4. verdict' = (IF cancel THEN "cancelled" ELSE "none")
        /\ pc' = (IF cancel THEN "undo" ELSE "scan")
    BY <1>1 DEF StartRun
  <2>5. QED
    BY <1>1, <2>1, <2>2, <2>3, <2>4 DEF StartRun, TaskTerminal
<1>2. ASSUME NEW n \in Node, RefreshNode(n) PROVE TypeInv'
  <2>1. Refreshed(n) \in NodeStatus
    BY <1>2, Statuses DEF Refreshed, TaskRecord, NodeTerminal
  <2>2. mem' \in TaskRecord /\ mem'.status = mem.status
    BY <1>2, <2>1, SetNodeType DEF RefreshNode
  <2>3. QED
    BY <1>2, <2>2 DEF RefreshNode
<1>3. CASE SelectBatch
  BY <1>3 DEF SelectBatch, ReadyIds, ReadyNodes
<1>4. ASSUME NEW n \in Node, LaunchNode(n) PROVE TypeInv'
  <2>1. mem' \in TaskRecord /\ mem'.status = mem.status
    BY <1>4, AttemptType DEF LaunchNode
  <2>2. QED
    BY <1>4, <2>1, Statuses DEF LaunchNode
<1>5. CASE SaveLaunched
  BY <1>5 DEF SaveLaunched
<1>6. ASSUME NEW n \in Node, StartCall(n) PROVE TypeInv'
  BY <1>6, Statuses DEF StartCall
<1>7. ASSUME NEW n \in Node, NEW outcome \in Outcomes, FinishCall(n, outcome) PROVE TypeInv'
  BY <1>7, ParameterAssumption, Statuses DEF FinishCall
<1>8. ASSUME NEW call \in abandoned, FinishAbandoned(call) PROVE TypeInv'
  BY <1>8 DEF FinishAbandoned
<1>9. ASSUME NEW n \in Node, NEW s \in NodeStatus, Collect(n, s)
      PROVE  mem' \in TaskRecord /\ mem'.status = mem.status /\ newTerminal' \in Nat
  BY <1>9, SetNodeType DEF Collect
<1>10. ASSUME NEW n \in Node, CollectResult(n) PROVE TypeInv'
  <2>1. future[n] \in NodeStatus
    BY <1>10, Statuses DEF CollectResult
  <2>2. mem' \in TaskRecord /\ mem'.status = mem.status /\ newTerminal' \in Nat
    BY <1>9, <1>10, <2>1 DEF CollectResult
  <2>3. QED
    BY <1>10, <2>2 DEF CollectResult, Collect
<1>11. ASSUME NEW n \in Node, CollectException(n) PROVE TypeInv'
  <2>1. AfterFailure(n) \in NodeStatus
    BY Statuses DEF AfterFailure
  <2>2. mem' \in TaskRecord /\ mem'.status = mem.status /\ newTerminal' \in Nat
    BY <1>9, <1>11, <2>1 DEF CollectException
  <2>3. QED
    BY <1>11, <2>2 DEF CollectException, Collect
<1>12. ASSUME NEW n \in Node, CollectTimeout(n) PROVE TypeInv'
  <2>1. AfterFailure(n) \in NodeStatus
    BY Statuses DEF AfterFailure
  <2>2. mem' \in TaskRecord /\ mem'.status = mem.status /\ newTerminal' \in Nat
    BY <1>9, <1>12, <2>1 DEF CollectTimeout
  <2>3. <<n, mem.attempts[n]>> \in Node \X Nat
    BY DEF TaskRecord
  <2>4. abandoned' \subseteq Node \X Nat
    BY <1>12, <2>3 DEF CollectTimeout
  <2>5. QED
    BY <1>12, <2>2, <2>4, Statuses DEF CollectTimeout, Collect
<1>13. ASSUME NEW n \in Node, SaveCollected(n) PROVE TypeInv'
  BY <1>13, Statuses DEF SaveCollected
<1>14. CASE PauseRun
  <2>1. SetStatus(mem, "paused") \in TaskRecord
    BY StatusType
  <2>2. QED
    BY <1>14, <2>1, ReturnType DEF PauseRun
<1>15. CASE Conclude
  BY <1>15, VerdictType, Statuses DEF Conclude, TaskTerminal
<1>16. ASSUME NEW n \in Node, SkipUndo(n) \/ UndoFails(n) \/ SaveUndone(n) PROVE TypeInv'
  BY <1>16 DEF SkipUndo, UndoFails, SaveUndone
<1>17. ASSUME NEW n \in Node, UndoNode(n) PROVE TypeInv'
  <2>1. "compensated" \in NodeStatus
    BY Statuses
  <2>2. mem' \in TaskRecord /\ mem'.status = mem.status
    BY <1>17, <2>1, SetNodeType DEF UndoNode
  <2>3. QED
    BY <1>17, <2>2 DEF UndoNode
<1>18. CASE UndoEnds
  BY <1>18 DEF UndoEnds
<1>19. CASE CloseRun
  <2>1. SetStatus(mem, verdict) \in TaskRecord
    BY <1>19, StatusType DEF CloseRun
  <2>2. QED
    BY <1>19, <2>1, ReturnType DEF CloseRun
<1>20. CASE Crash
  BY <1>20, ReturnType DEF Crash
<1>21. QED
  BY <1>0, <1>1, <1>2, <1>3, <1>4, <1>5, <1>6, <1>7, <1>8, <1>10, <1>11, <1>12, <1>13,
     <1>14, <1>15, <1>16, <1>17, <1>18, <1>19, <1>20
     DEF Next, RunnerStep, PoolStep

\* The runner keeps its state well formed in memory and in the checkpoint.
THEOREM TypeCorrect == Spec => []TypeOK
<1>1. TypeInv => TypeOK
  BY DEF TypeInv
<1>2. QED
  BY <1>1, TypeInit, TypeNext, PTL DEF Spec

-----------------------------------------------------------------------------
(***************************************************************************)
(* The safety invariant.  DependenciesFirst speaks of the checkpoint only; *)
(* it is kept because memory never falls behind the checkpoint (MemAhead), *)
(* because a node is ready only over good dependencies, in both copies     *)
(* (ActiveOnDeps), and because a batch is saved as ready before its calls  *)
(* are submitted (BatchState, CalledOnDeps).                               *)
(***************************************************************************)
Onward(a, b) == a \in NodeTerminal => b = a \/ (a = "completed" /\ b = "compensated")

MemAhead == \A n \in Node : Onward(disk.node[n], mem.node[n])

ActiveOnDeps(t) == \A n \in Node : t.node[n] \in {"ready", "running"} => DepsOk(t, n)

AbsentIsEmpty == disk.status = "absent" => \A n \in Node : disk.node[n] = "waiting"

BatchState ==
    /\ pc = "launch" => \A n \in todo : mem.node[n] = "ready"
    /\ pc = "launched" => todo = {}
    /\ pc \in {"launch", "launched"} => \A n \in batch \ todo : mem.node[n] = "running"
    /\ pc = "collect" => \A n \in todo : mem.node[n] = "running"
    /\ pc = "collected" => \A n \in todo : mem.node[n] = "running" \/ IsFirst(n, todo)

CalledOnDeps ==
    \A n \in Node :
        calls[n] > 0 \/ future[n] = "queued" \/ (pc = "launch" /\ n \in todo)
        => DepsOk(disk, n)

CoreInv ==
    /\ TypeInv
    /\ MemAhead /\ ActiveOnDeps(disk) /\ ActiveOnDeps(mem)
    /\ AbsentIsEmpty /\ BatchState /\ CalledOnDeps

\* Good dependencies stay good while statuses only move onward.
LEMMA OnwardDeps ==
    ASSUME NEW t, NEW u, \A d \in Node : Onward(t.node[d], u.node[d]),
           NEW n \in Node, DepsOk(t, n)
    PROVE  DepsOk(u, n)
  BY PlanAssumption, Statuses DEF DepsOk, Onward, OkStatus, ValidPlan

\* A change of one node in memory, where that node is not settled yet or is
\* being compensated.
LEMMA MemStep ==
    ASSUME CoreInv, NEW n \in Node, NEW s, disk' = disk,
           \A m \in Node : mem'.node[m] = IF m = n THEN s ELSE mem.node[m],
           Onward(mem.node[n], s),
           s \in {"ready", "running"} => DepsOk(mem, n)
    PROVE  MemAhead' /\ ActiveOnDeps(disk') /\ ActiveOnDeps(mem') /\ AbsentIsEmpty'
<1>1. \A m \in Node : Onward(mem.node[m], mem'.node[m])
  BY DEF Onward
<1>2. MemAhead'
  BY <1>1, Statuses DEF CoreInv, MemAhead, Onward
<1>3. ActiveOnDeps(mem')
  BY <1>1, OnwardDeps DEF CoreInv, ActiveOnDeps
<1>4. QED
  BY <1>2, <1>3 DEF CoreInv, AbsentIsEmpty

\* A save copies memory to the checkpoint.
LEMMA SaveStep ==
    ASSUME CoreInv, disk' = mem, mem' = mem, pc # "idle"
    PROVE  /\ MemAhead' /\ ActiveOnDeps(disk') /\ ActiveOnDeps(mem') /\ AbsentIsEmpty'
           /\ \A n \in Node : DepsOk(disk, n) => DepsOk(disk', n)
           /\ \A n \in Node : mem.node[n] \in {"ready", "running"} => DepsOk(disk', n)
  BY OnwardDeps DEF CoreInv, TypeInv, MemAhead, ActiveOnDeps, AbsentIsEmpty, Onward

LEMMA CoreInit == Init => CoreInv
  BY TypeInit, PlanAssumption
     DEF Init, CoreInv, MemAhead, ActiveOnDeps, AbsentIsEmpty, BatchState, CalledOnDeps,
         EmptyTask, NoFutures, Onward, NodeTerminal

LEMMA StartCore ==
    ASSUME CoreInv, NEW lim, NEW cancel, StartRun(lim, cancel)
    PROVE  /\ MemAhead' /\ ActiveOnDeps(disk') /\ ActiveOnDeps(mem') /\ AbsentIsEmpty'
           /\ \A n \in Node : DepsOk(disk, n) => DepsOk(disk', n)
<1> DEFINE t == LoadOrCreate
<1>1. /\ t.status # "absent"
      /\ \A n \in Node : t.node[n] = IF disk.node[n] = "running" THEN "ready" ELSE disk.node[n]
  BY LoadType DEF CoreInv, TypeInv, TypeOK, LoadOrCreate, EmptyTask, Interrupted, AbsentIsEmpty,
     TaskRecord
<1>2. \A n \in Node : Cancelled(t).node[n] =
        IF t.node[n] \in NodeTerminal THEN t.node[n] ELSE "cancelled"
  BY LoadType DEF CoreInv, TypeInv, TypeOK, Cancelled, TaskRecord
<1>3. /\ disk' = IF disk.status = "absent" THEN t ELSE disk
      /\ mem' = IF cancel THEN Cancelled(t) ELSE t
  BY DEF StartRun
<1> HIDE DEF t
<1>4. \A n \in Node : /\ DepsOk(disk, n) => DepsOk(t, n)
                      /\ t.node[n] \in {"ready", "running"} => DepsOk(disk, n)
                      /\ Onward(disk.node[n], t.node[n])
  <2>1. \A n \in Node : Onward(disk.node[n], t.node[n])
    BY <1>1, Statuses DEF Onward
  <2>2. QED
    BY <1>1, <2>1, OnwardDeps DEF CoreInv, ActiveOnDeps
<1>5. ActiveOnDeps(t)
  BY <1>4 DEF ActiveOnDeps
<1>6. \A n \in Node : /\ Onward(t.node[n], Cancelled(t).node[n])
                      /\ Onward(disk.node[n], Cancelled(t).node[n])
                      /\ Cancelled(t).node[n] \notin {"ready", "running"}
  BY <1>1, <1>2, Statuses DEF Onward
<1>7. ActiveOnDeps(Cancelled(t))
  BY <1>6 DEF ActiveOnDeps
<1>8. ActiveOnDeps(disk') /\ ActiveOnDeps(mem')
  BY <1>3, <1>5, <1>7 DEF CoreInv
<1>9. \A n \in Node : Onward(disk'.node[n], mem'.node[n])
  BY <1>3, <1>4, <1>6 DEF Onward
<1>10. QED
  BY <1>1, <1>3, <1>4, <1>8, <1>9 DEF MemAhead, AbsentIsEmpty, CoreInv

\* Returning a task whose nodes are those of memory or of the checkpoint.
LEMMA ReturnCore ==
    ASSUME CoreInv, pc # "idle", NEW t \in TaskRecord, t.status # "absent",
           t.node = mem.node \/ t.node = disk.node, Return(t), calls' = calls
    PROVE  /\ MemAhead' /\ ActiveOnDeps(disk') /\ ActiveOnDeps(mem') /\ AbsentIsEmpty'
           /\ BatchState' /\ CalledOnDeps'
<1>1. ActiveOnDeps(t)
  BY DEF CoreInv, ActiveOnDeps, DepsOk
<1>2. \A n \in Node : Onward(disk.node[n], t.node[n])
  BY DEF CoreInv, MemAhead, Onward
<1>3. \A n \in Node : DepsOk(disk, n) => DepsOk(t, n)
  BY <1>2, OnwardDeps
<1>4. QED
  BY <1>1, <1>3, ReturnType
     DEF CoreInv, MemAhead, AbsentIsEmpty, BatchState, CalledOnDeps, Onward

LEMMA CoreNext == CoreInv /\ [Next]_vars => CoreInv'
<1> SUFFICES ASSUME CoreInv, [Next]_vars PROVE CoreInv'
  OBVIOUS
<1>t. TypeInv /\ TypeInv'
  BY TypeNext DEF CoreInv
<1> USE DEF history
<1>0. CASE UNCHANGED vars
  BY <1>0, <1>t DEF vars, run, CoreInv, MemAhead, ActiveOnDeps, AbsentIsEmpty, BatchState,
                    CalledOnDeps, DepsOk, IsFirst
<1>1. ASSUME NEW lim \in Limits, NEW cancel \in CancelRequests, StartRun(lim, cancel)
      PROVE  CoreInv'
  <2>1. pc' \in {"scan", "undo"} /\ calls' = calls /\ future' = future
        /\ pc = "idle"
    BY <1>1 DEF StartRun
  <2>2. BatchState' /\ CalledOnDeps'
    BY <1>1, <2>1, StartCore DEF BatchState, CalledOnDeps, CoreInv
  <2>3. QED
    BY <1>1, <1>t, <2>2, StartCore DEF CoreInv
<1>2. ASSUME NEW n \in Node, RefreshNode(n) PROVE CoreInv'
  <2>1. Refreshed(n) \in NodeStatus
    BY <1>t, Statuses DEF Refreshed, TypeInv, TypeOK, TaskRecord, NodeTerminal
  <2>2. \A m \in Node : mem'.node[m] = IF m = n THEN Refreshed(n) ELSE mem.node[m]
    BY <1>2, <1>t, <2>1, SetNodeType DEF RefreshNode, TypeInv, TypeOK
  <2>3. /\ Onward(mem.node[n], Refreshed(n))
        /\ Refreshed(n) \in {"ready", "running"} => DepsOk(mem, n)
    BY Statuses DEF Refreshed, Onward, CoreInv, ActiveOnDeps
  <2>4. MemAhead' /\ ActiveOnDeps(disk') /\ ActiveOnDeps(mem') /\ AbsentIsEmpty'
    BY <1>2, <2>2, <2>3, MemStep DEF RefreshNode
  <2>5. BatchState' /\ CalledOnDeps'
    BY <1>2 DEF RefreshNode, BatchState, CalledOnDeps, CoreInv
  <2>6. QED
    BY <1>t, <2>4, <2>5 DEF CoreInv
<1>3. CASE SelectBatch
  <2>1. /\ MemAhead' /\ ActiveOnDeps(disk') /\ ActiveOnDeps(mem') /\ AbsentIsEmpty'
        /\ \A n \in Node : DepsOk(disk, n) => DepsOk(disk', n)
        /\ \A n \in Node : mem.node[n] \in {"ready", "running"} => DepsOk(disk', n)
    BY <1>3, SaveStep DEF SelectBatch
  <2>2. ReadyIds \subseteq Node /\ \A n \in ReadyIds : mem.node[n] = "ready"
    BY DEF ReadyIds, ReadyNodes
  <2>3. BatchState' /\ CalledOnDeps'
    BY <1>3, <2>1, <2>2 DEF SelectBatch, BatchState, CalledOnDeps, CoreInv
  <2>4. QED
    BY <1>t, <2>1, <2>3 DEF CoreInv
<1>4. ASSUME NEW n \in Node, LaunchNode(n) PROVE CoreInv'
  <2>1. \A m \in Node : mem'.node[m] = IF m = n THEN "running" ELSE mem.node[m]
    <3>1. mem \in TaskRecord /\ mem' = Attempt(mem, n)
      BY <1>4, <1>t DEF LaunchNode, TypeInv, TypeOK
    <3>2. QED
      BY <3>1, AttemptType
  <2>2. n \in todo /\ mem.node[n] = "ready" /\ DepsOk(mem, n) /\ DepsOk(disk, n)
    BY <1>4 DEF LaunchNode, IsFirst, CoreInv, BatchState, ActiveOnDeps, CalledOnDeps
  <2>3. Onward(mem.node[n], "running")
    BY <2>2, Statuses DEF Onward
  <2>4. MemAhead' /\ ActiveOnDeps(disk') /\ ActiveOnDeps(mem') /\ AbsentIsEmpty'
    BY <1>4, <2>1, <2>2, <2>3, MemStep DEF LaunchNode
  <2>5. BatchState'
    BY <1>4, <1>t, <2>1 DEF LaunchNode, BatchState, CoreInv, TypeInv, TypeOK
  <2>6. \A m \in Node : future'[m] = "queued" => m = n \/ future[m] = "queued"
    BY <1>4, <1>t DEF LaunchNode, TypeInv, TypeOK
  <2>7. CalledOnDeps'
    BY <1>4, <2>2, <2>6 DEF LaunchNode, CalledOnDeps, CoreInv
  <2>8. QED
    BY <1>t, <2>4, <2>5, <2>7 DEF CoreInv
<1>5. CASE SaveLaunched
  <2>1. /\ MemAhead' /\ ActiveOnDeps(disk') /\ ActiveOnDeps(mem') /\ AbsentIsEmpty'
        /\ \A n \in Node : DepsOk(disk, n) => DepsOk(disk', n)
    BY <1>5, SaveStep DEF SaveLaunched
  <2>2. BatchState' /\ CalledOnDeps'
    BY <1>5, <2>1 DEF SaveLaunched, BatchState, CalledOnDeps, CoreInv
  <2>3. QED
    BY <1>t, <2>1, <2>2 DEF CoreInv
<1>6. ASSUME NEW n \in Node, StartCall(n) PROVE CoreInv'
  <2>1. /\ disk' = disk /\ mem' = mem /\ pc' = pc /\ todo' = todo /\ batch' = batch
        /\ \A m \in Node : future'[m] = "queued" => future[m] = "queued"
        /\ \A m \in Node : calls'[m] > 0 => calls[m] > 0 \/ future[m] = "queued"
    BY <1>6, <1>t DEF StartCall, TypeInv, TypeOK
  <2>2. CalledOnDeps'
    BY <2>1 DEF CoreInv, CalledOnDeps
  <2>3. QED
    BY <1>t, <2>1, <2>2 DEF CoreInv, MemAhead, ActiveOnDeps, AbsentIsEmpty, BatchState
<1>7. ASSUME disk' = disk, mem' = mem, calls' = calls, batch' = batch,
             (pc' = pc /\ todo' = todo) \/ pc' \in {"scan", "rescan", "undo", "close"},
             \A m \in Node : future'[m] = "queued" => future[m] = "queued"
      PROVE  CoreInv'
  BY <1>7, <1>t DEF CoreInv, MemAhead, ActiveOnDeps, AbsentIsEmpty, BatchState, CalledOnDeps
<1>8. ASSUME NEW n \in Node, NEW outcome \in Outcomes, FinishCall(n, outcome) PROVE CoreInv'
  <2>1. \A m \in Node : future'[m] = "queued" => future[m] = "queued"
    BY <1>8, <1>t, ParameterAssumption
       DEF FinishCall, TypeInv, TypeOK, CallOutcome, ResultStatus
  <2>2. QED
    BY <1>7, <1>8, <2>1 DEF FinishCall
<1>9. ASSUME NEW call \in abandoned, FinishAbandoned(call) PROVE CoreInv'
  BY <1>7, <1>9 DEF FinishAbandoned
<1>10. ASSUME NEW n \in Node, NEW s \in NodeStatus, Collect(n, s), s # "running",
              pc = "collect", IsFirst(n, todo), disk' = disk, calls' = calls,
              todo' = todo, \A m \in Node : future'[m] = "queued" => future[m] = "queued"
       PROVE  CoreInv'
  <2>1. \A m \in Node : mem'.node[m] = IF m = n THEN s ELSE mem.node[m]
    BY <1>10, <1>t, SetNodeType DEF Collect, TypeInv, TypeOK
  <2>2. mem.node[n] = "running" /\ DepsOk(mem, n)
    BY <1>10 DEF IsFirst, CoreInv, BatchState, ActiveOnDeps
  <2>3. Onward(mem.node[n], s)
    BY <2>2, Statuses DEF Onward
  <2>4. MemAhead' /\ ActiveOnDeps(disk') /\ ActiveOnDeps(mem') /\ AbsentIsEmpty'
    BY <1>10, <2>1, <2>2, <2>3, MemStep
  <2>5. BatchState'
    BY <1>10, <1>t, <2>1 DEF Collect, BatchState, CoreInv, IsFirst, TypeInv, TypeOK
  <2>6. CalledOnDeps'
    BY <1>10 DEF Collect, CalledOnDeps, CoreInv
  <2>7. QED
    BY <1>t, <2>4, <2>5, <2>6 DEF CoreInv
<1>11. ASSUME NEW n \in Node, CollectResult(n) PROVE CoreInv'
  <2>1. future[n] \in NodeStatus /\ future[n] # "running"
    BY <1>11, Statuses DEF CollectResult
  <2>2. QED
    BY <1>10, <1>11, <2>1 DEF CollectResult
<1>12. ASSUME NEW n \in Node, CollectException(n) PROVE CoreInv'
  <2>1. AfterFailure(n) \in NodeStatus /\ AfterFailure(n) # "running"
    BY Statuses DEF AfterFailure
  <2>2. QED
    BY <1>10, <1>12, <2>1 DEF CollectException
<1>13. ASSUME NEW n \in Node, CollectTimeout(n) PROVE CoreInv'
  <2>1. AfterFailure(n) \in NodeStatus /\ AfterFailure(n) # "running"
    BY Statuses DEF AfterFailure
  <2>2. \A m \in Node : future'[m] = "queued" => future[m] = "queued"
    BY <1>13, <1>t DEF CollectTimeout, TypeInv, TypeOK
  <2>3. QED
    BY <1>10, <1>13, <2>1, <2>2 DEF CollectTimeout
<1>14. ASSUME NEW n \in Node, SaveCollected(n) PROVE CoreInv'
  <2>1. /\ MemAhead' /\ ActiveOnDeps(disk') /\ ActiveOnDeps(mem') /\ AbsentIsEmpty'
        /\ \A m \in Node : DepsOk(disk, m) => DepsOk(disk', m)
    BY <1>14, SaveStep DEF SaveCollected
  <2>2. \A m \in todo : m # n => mem.node[m] = "running"
    <3>1. ASSUME NEW m \in todo, IsFirst(m, todo) PROVE m = n
      BY <1>14, <1>t, <3>1, PlanAssumption
         DEF SaveCollected, IsFirst, TypeInv, TypeOK, Node, ValidPlan
    <3>2. QED
      BY <1>14, <3>1 DEF SaveCollected, CoreInv, BatchState
  <2>3. \A m \in Node : future'[m] = "queued" => future[m] = "queued"
    BY <1>14, <1>t DEF SaveCollected, TypeInv, TypeOK
  <2>4. BatchState'
    BY <1>14, <2>2 DEF SaveCollected, BatchState
  <2>5. CalledOnDeps'
    BY <1>14, <2>1, <2>3 DEF SaveCollected, CalledOnDeps, CoreInv
  <2>6. QED
    BY <1>t, <2>1, <2>4, <2>5 DEF CoreInv
<1>15. CASE PauseRun
  <2>1. SetStatus(mem, "paused") \in TaskRecord /\ SetStatus(mem, "paused").node = mem.node
        /\ SetStatus(mem, "paused").status = "paused"
    BY <1>t, StatusType DEF TypeInv, TypeOK
  <2>2. QED
    BY <1>15, <1>t, <2>1, ReturnCore DEF PauseRun, CoreInv
<1>16. CASE Conclude
  BY <1>7, <1>16 DEF Conclude
<1>17. ASSUME NEW n \in Node, SkipUndo(n) \/ UndoFails(n) PROVE CoreInv'
  BY <1>7, <1>17 DEF SkipUndo, UndoFails
<1>18. ASSUME NEW n \in Node, UndoNode(n) PROVE CoreInv'
  <2>1. "compensated" \in NodeStatus
    BY Statuses
  <2>2. \A m \in Node : mem'.node[m] = IF m = n THEN "compensated" ELSE mem.node[m]
    BY <1>18, <1>t, <2>1, SetNodeType DEF UndoNode, TypeInv, TypeOK
  <2>3. Onward(mem.node[n], "compensated")
    BY <1>18 DEF UndoNode, MustUndo, Onward
  <2>4. MemAhead' /\ ActiveOnDeps(disk') /\ ActiveOnDeps(mem') /\ AbsentIsEmpty'
    BY <1>18, <2>2, <2>3, MemStep DEF UndoNode
  <2>5. BatchState' /\ CalledOnDeps'
    BY <1>18 DEF UndoNode, BatchState, CalledOnDeps, CoreInv
  <2>6. QED
    BY <1>t, <2>4, <2>5 DEF CoreInv
<1>19. ASSUME NEW n \in Node, SaveUndone(n) PROVE CoreInv'
  <2>1. /\ MemAhead' /\ ActiveOnDeps(disk') /\ ActiveOnDeps(mem') /\ AbsentIsEmpty'
        /\ \A m \in Node : DepsOk(disk, m) => DepsOk(disk', m)
    BY <1>19, SaveStep DEF SaveUndone
  <2>2. BatchState' /\ CalledOnDeps'
    BY <1>19, <2>1 DEF SaveUndone, BatchState, CalledOnDeps, CoreInv
  <2>3. QED
    BY <1>t, <2>1, <2>2 DEF CoreInv
<1>20. CASE UndoEnds
  BY <1>7, <1>20 DEF UndoEnds
<1>21. CASE CloseRun
  <2>1. verdict \in {"running", "paused"} \cup TaskTerminal
    BY <1>21, <1>t DEF CloseRun, TypeInv, TypeOK
  <2>2. SetStatus(mem, verdict) \in TaskRecord /\ SetStatus(mem, verdict).node = mem.node
        /\ SetStatus(mem, verdict).status # "absent"
    BY <1>t, <2>1, StatusType, Statuses DEF TypeInv, TypeOK
  <2>3. QED
    BY <1>21, <1>t, <2>2, ReturnCore DEF CloseRun, CoreInv
<1>22. CASE Crash
  BY <1>22, <1>t, ReturnCore DEF Crash, CoreInv, TypeInv, TypeOK
<1>23. QED
  BY <1>0, <1>1, <1>2, <1>3, <1>4, <1>5, <1>6, <1>8, <1>9, <1>11, <1>12, <1>13, <1>14,
     <1>15, <1>16, <1>17, <1>18, <1>19, <1>20, <1>21, <1>22
     DEF Next, RunnerStep, PoolStep

LEMMA CoreCorrect == Spec => []CoreInv
  BY CoreInit, CoreNext, PTL DEF Spec

\* For every plan: an executor call begins only over dependencies the
\* checkpoint holds as completed, whatever crashes, retries and resumes.
THEOREM DependenciesFirstHolds == Spec => []DependenciesFirst
<1>1. CoreInv => DependenciesFirst
  BY DEF CoreInv, CalledOnDeps, DependenciesFirst
<1>2. QED
  BY <1>1, CoreCorrect, PTL

\* One step never unsettles what the checkpoint holds.
LEMMA SettledStep ==
    ASSUME CoreInv, [Next]_vars, NEW n \in Node, disk.node[n] \in NodeTerminal
    PROVE  \/ disk'.node[n] = disk.node[n]
           \/ disk.node[n] = "completed" /\ disk'.node[n] = "compensated"
<1>1. disk'.node[n] = disk.node[n] \/ disk'.node[n] = mem.node[n]
  <2>1. ASSUME NEW lim, NEW cancel, StartRun(lim, cancel) PROVE disk'.node[n] = disk.node[n]
    BY <2>1, Statuses DEF StartRun, CoreInv, AbsentIsEmpty
  <2>2. CASE PauseRun \/ CloseRun
    <3>1. verdict \in {"running", "paused"} \cup TaskTerminal \/ PauseRun
      BY <2>2 DEF CoreInv, TypeInv, TypeOK, CloseRun
    <3>2. QED
      BY <2>2, <3>1, StatusType DEF PauseRun, CloseRun, Return, CoreInv, TypeInv, TypeOK
  <2>3. CASE UNCHANGED vars
    BY <2>3 DEF vars
  <2>4. QED
    BY <2>1, <2>2, <2>3
       DEF Next, RunnerStep, PoolStep, RefreshNode, SelectBatch, LaunchNode, SaveLaunched,
           StartCall, FinishCall, FinishAbandoned, CollectResult, CollectException,
           CollectTimeout, SaveCollected, Conclude, SkipUndo, UndoNode, UndoFails,
           SaveUndone, UndoEnds, Crash, Return
<1>2. QED
  BY <1>1 DEF CoreInv, MemAhead, Onward

\* For every plan: a settled node of the checkpoint stays settled as it is, or
\* turns from completed to compensated.
THEOREM SettledForeverHolds == Spec => SettledForever
<1>1. CoreInv /\ [Next]_vars =>
        [\A n \in Node : disk.node[n] \in NodeTerminal =>
            \/ disk'.node[n] = disk.node[n]
            \/ disk.node[n] = "completed" /\ disk'.node[n] = "compensated"]_vars
  BY SettledStep
<1>2. QED
  BY <1>1, CoreCorrect, PTL DEF Spec, SettledForever

-----------------------------------------------------------------------------
\* A plan that lists a node after its dependencies.  _refresh_readiness makes one
\* pass in the order of the plan, so only then has it seen the dependencies of a
\* node when it comes to the node.
InOrder == \A n \in Node : \A d \in Deps[n] : d < n

-----------------------------------------------------------------------------
(***************************************************************************)
(* How often a node is called.  A call begun is an attempt counted in      *)
(* memory, or one a crash took back (CallsCounted); memory is at most one  *)
(* attempt ahead of the checkpoint, and only between a launch and its save *)
(* (CountedLate); a node that can still be launched has a call left        *)
(* (CallLeft), which after a retry is what AfterFailure has looked at.     *)
(***************************************************************************)
Queued(n) == IF future[n] = "queued" THEN 1 ELSE 0

CallsCounted == \A n \in Node : calls[n] + Queued(n) <= mem.attempts[n] + crashes

CountedLate ==
    \A n \in Node :
        \/ mem.attempts[n] = disk.attempts[n]
        \/ /\ pc \in {"launch", "launched"} /\ n \notin todo
           /\ mem.attempts[n] = disk.attempts[n] + 1

CallLeft ==
    \A n \in Node :
        IF mem.node[n] \in {"waiting", "ready"} \/ (pc = "idle" /\ mem.node[n] = "running")
        THEN calls[n] < MaxAttempts[n] + crashes
        ELSE calls[n] + Queued(n) <= MaxAttempts[n] + crashes

\* A running node is one of the batch, launched and not collected yet.
RunningInBatch ==
    /\ pc = "launch" => todo \subseteq batch
    /\ \A n \in Node : mem.node[n] = "running" =>
          \/ pc = "idle"
          \/ pc \in {"launch", "launched"} /\ n \in batch \ todo
          \/ pc = "collect" /\ n \in todo
          \/ pc = "collected" /\ n \in todo /\ ~IsFirst(n, todo)

QueuedIsRunning ==
    \A n \in Node : future[n] = "queued" => pc # "idle" /\ mem.node[n] = "running"

\* Between two runs memory is the checkpoint, and no task means no attempts.
IdleIsSaved ==
    /\ pc = "idle" => mem = disk
    /\ disk.status = "absent" => \A n \in Node : disk.attempts[n] = 0

BudgetInv ==
    /\ CallsCounted /\ CountedLate /\ CallLeft
    /\ RunningInBatch /\ QueuedIsRunning /\ IdleIsSaved


LEMMA BudgetInit == Init => BudgetInv
  BY ParameterAssumption
     DEF Init, EmptyTask, NoFutures, BudgetInv, CallsCounted, CountedLate, CallLeft,
         RunningInBatch, QueuedIsRunning, IdleIsSaved, Queued

\* A launch counts one attempt of one node.
LEMMA AttemptCounts ==
    ASSUME NEW t \in TaskRecord, NEW n \in Node
    PROVE  \A m \in Node :
              Attempt(t, n).attempts[m] = t.attempts[m] + (IF m = n THEN 1 ELSE 0)
<1> DEFINE v == SetNode(t, n, "running")
<1>1. v \in TaskRecord /\ v.attempts = t.attempts
  BY SetNodeType, Statuses
<1>2. Attempt(t, n) = [v EXCEPT !.attempts[n] = @ + 1]
  BY DEF Attempt
<1> HIDE DEF v
<1>3. Attempt(t, n).attempts = [v.attempts EXCEPT ![n] = v.attempts[n] + 1]
  BY <1>1, <1>2 DEF TaskRecord
<1>4. QED
  BY <1>1, <1>3 DEF TaskRecord

\* Steps that begin no call, count no attempt and make no node launchable.
LEMMA NoCallStep ==
    ASSUME TypeInv, TypeInv', BudgetInv, calls' = calls, crashes' = crashes,
           mem'.attempts = mem.attempts,
           \A m \in Node : future'[m] = "queued" => future[m] = "queued",
           \A m \in Node :
              mem'.node[m] \in {"waiting", "ready"} \/ (pc' = "idle" /\ mem'.node[m] = "running")
              => mem.node[m] \in {"waiting", "ready"} \/ calls[m] < MaxAttempts[m] + crashes
    PROVE  CallsCounted' /\ CallLeft'
<1>1. \A m \in Node : /\ calls[m] \in Nat /\ mem.attempts[m] \in Nat /\ MaxAttempts[m] \in Nat
                      /\ crashes \in Nat
  BY ParameterAssumption DEF TypeInv, TypeOK, TaskRecord
<1>2. \A m \in Node : calls[m] + Queued(m)' <= calls[m] + Queued(m)
  BY <1>1 DEF Queued
<1>3. \A m \in Node : Queued(m) \in {0, 1} /\ Queued(m)' \in {0, 1}
  BY DEF Queued
<1>4. CallsCounted'
  BY <1>1, <1>2, <1>3 DEF CallsCounted, BudgetInv
<1>5. CallLeft'
  <2> SUFFICES ASSUME NEW m \in Node
               PROVE  IF \/ mem'.node[m] \in {"waiting", "ready"}
                         \/ pc' = "idle" /\ mem'.node[m] = "running"
                      THEN calls[m] < MaxAttempts[m] + crashes
                      ELSE calls[m] + Queued(m)' <= MaxAttempts[m] + crashes
    BY DEF CallLeft
  <2>1. CASE mem'.node[m] \in {"waiting", "ready"} \/ (pc' = "idle" /\ mem'.node[m] = "running")
    BY <2>1 DEF CallLeft, BudgetInv
  <2>2. CASE ~(mem'.node[m] \in {"waiting", "ready"}
               \/ (pc' = "idle" /\ mem'.node[m] = "running"))
    <3>1. calls[m] + Queued(m) <= MaxAttempts[m] + crashes
      <4>1. CASE calls[m] < MaxAttempts[m] + crashes
        BY <4>1, <1>1, <1>3
      <4>2. CASE ~(calls[m] < MaxAttempts[m] + crashes)
        BY <4>2 DEF CallLeft, BudgetInv
      <4>3. QED
        BY <4>1, <4>2
    <3>2. QED
      BY <2>2, <3>1, <1>1, <1>2, <1>3
  <2>3. QED
    BY <2>1, <2>2
<1>6. QED
  BY <1>4, <1>5


LEMMA BudgetNext == CoreInv /\ BudgetInv /\ [Next]_vars => BudgetInv'
<1> SUFFICES ASSUME CoreInv, BudgetInv, [Next]_vars PROVE BudgetInv'
  OBVIOUS
<1>t. /\ TypeInv /\ TypeInv'
      /\ mem \in TaskRecord /\ disk \in TaskRecord
      /\ todo \subseteq Node /\ future \in [Node -> FutureState]
  BY TypeNext DEF CoreInv, TypeInv, TypeOK
<1> USE DEF history
<1>0. CASE UNCHANGED vars
  BY <1>0 DEF vars, run, BudgetInv, CallsCounted, CountedLate, CallLeft, RunningInBatch,
              QueuedIsRunning, IdleIsSaved, Queued, IsFirst
<1>1. ASSUME NEW lim \in Limits, NEW cancel \in CancelRequests, StartRun(lim, cancel)
      PROVE  BudgetInv'
  <2> DEFINE t == LoadOrCreate
  <2>1. /\ t.attempts = disk.attempts
        /\ \A n \in Node : t.node[n] = IF disk.node[n] = "running" THEN "ready" ELSE disk.node[n]
        /\ t.status # "absent"
    <3>1. disk.status = "absent" => disk.attempts = [n \in Node |-> 0]
      BY <1>t DEF BudgetInv, IdleIsSaved, TaskRecord
    <3>2. QED
      BY <1>t, <3>1, LoadType
         DEF LoadOrCreate, EmptyTask, Interrupted, TaskRecord, CoreInv, AbsentIsEmpty
  <2>2. t \in TaskRecord
    BY <1>t, LoadType
  <2>3. /\ Cancelled(t).attempts = t.attempts
        /\ \A n \in Node : Cancelled(t).node[n] \in NodeTerminal
    BY <2>2, Statuses DEF Cancelled, TaskRecord
  <2>4. /\ pc = "idle" /\ pc' \in {"scan", "undo"}
        /\ disk' = (IF disk.status = "absent" THEN t ELSE disk)
        /\ mem' = (IF cancel THEN Cancelled(t) ELSE t)
        /\ future' = future /\ calls' = calls /\ crashes' = crashes
    BY <1>1 DEF StartRun
  <2> HIDE DEF t
  <2>5. mem = disk
    BY <2>4 DEF BudgetInv, IdleIsSaved
  <2>6. \A n \in Node : mem'.node[n] = t.node[n] \/ mem'.node[n] \in NodeTerminal
    BY <2>3, <2>4
  <2>7. CallsCounted' /\ CallLeft'
    <3>1. mem'.attempts = mem.attempts
      BY <2>1, <2>3, <2>4, <2>5
    <3>2. ASSUME NEW m \in Node, mem'.node[m] \in {"waiting", "ready"}
          PROVE  mem.node[m] \in {"waiting", "ready"} \/ calls[m] < MaxAttempts[m] + crashes
      BY <2>1, <2>4, <2>5, <2>6, <3>2, Statuses DEF BudgetInv, CallLeft
    <3>3. QED
      BY <1>t, <2>4, <3>1, <3>2, NoCallStep
  <2>8. CountedLate' /\ IdleIsSaved'
    BY <2>1, <2>3, <2>4 DEF CountedLate, IdleIsSaved, BudgetInv
  <2>9. RunningInBatch' /\ QueuedIsRunning'
    BY <2>1, <2>4, <2>6, Statuses DEF RunningInBatch, QueuedIsRunning, BudgetInv
  <2>10. QED
    BY <2>7, <2>8, <2>9 DEF BudgetInv
<1>2. ASSUME NEW n \in Node, RefreshNode(n) PROVE BudgetInv'
  <2>1. Refreshed(n) \in NodeStatus /\ (Refreshed(n) \in {"waiting", "ready", "running"} =>
            mem.node[n] \in {"waiting", "ready"} \/ Refreshed(n) = mem.node[n])
    BY <1>t, Statuses DEF Refreshed, TaskRecord, NodeTerminal
  <2>2. /\ \A m \in Node : mem'.node[m] = IF m = n THEN Refreshed(n) ELSE mem.node[m]
        /\ mem'.attempts = mem.attempts /\ mem'.status = mem.status
    BY <1>2, <1>t, <2>1, SetNodeType DEF RefreshNode
  <2>3. \A m \in Node : mem'.node[m] = "running" <=> mem.node[m] = "running"
    BY <2>2, <2>1 DEF Refreshed
  <2>4. CallsCounted' /\ CallLeft'
    BY <1>2, <1>t, <2>1, <2>2, NoCallStep DEF RefreshNode
  <2>5. CountedLate' /\ IdleIsSaved' /\ RunningInBatch' /\ QueuedIsRunning'
    BY <1>2, <2>2, <2>3
       DEF RefreshNode, BudgetInv, CountedLate, IdleIsSaved, RunningInBatch, QueuedIsRunning
  <2>6. QED
    BY <2>4, <2>5 DEF BudgetInv
\* The checkpoint is written: nothing changes in memory.
<1>s. ASSUME disk' = mem, mem' = mem, calls' = calls, crashes' = crashes, pc # "idle",
             pc' # "idle", \A m \in Node : future'[m] = "queued" => future[m] = "queued"
      PROVE  /\ CallsCounted' /\ CallLeft' /\ CountedLate' /\ QueuedIsRunning' /\ IdleIsSaved'
  <2>1. mem.status # "absent"
    BY <1>s, <1>t DEF TypeInv
  <2>2. CallsCounted' /\ CallLeft'
    BY <1>s, <1>t, NoCallStep
  <2>3. QED
    BY <1>s, <2>1, <2>2 DEF BudgetInv, CountedLate, QueuedIsRunning, IdleIsSaved
<1>3. CASE SelectBatch
  <2>1. RunningInBatch' /\ pc # "idle" /\ pc' # "idle"
    BY <1>3 DEF SelectBatch, RunningInBatch, BudgetInv
  <2>2. QED
    BY <1>3, <1>s, <2>1 DEF SelectBatch, BudgetInv
<1>4. ASSUME NEW n \in Node, LaunchNode(n) PROVE BudgetInv'
  <2>1. /\ \A m \in Node : mem'.node[m] = IF m = n THEN "running" ELSE mem.node[m]
        /\ mem'.status = mem.status
        /\ \A m \in Node : mem'.attempts[m] = mem.attempts[m] + (IF m = n THEN 1 ELSE 0)
    <3>1. mem' = Attempt(mem, n)
      BY <1>4 DEF LaunchNode
    <3>2. QED
      BY <1>t, <3>1, AttemptType, AttemptCounts
  <2>2. n \in todo /\ n \in batch /\ mem.node[n] = "ready" /\ future[n] # "queued"
    BY <1>4 DEF LaunchNode, IsFirst, CoreInv, BatchState, BudgetInv, RunningInBatch, QueuedIsRunning
  <2>3. /\ calls' = calls /\ crashes' = crashes /\ disk' = disk /\ pc = "launch"
        /\ pc' = (IF todo = {n} THEN "launched" ELSE "launch")
        /\ todo' = todo \ {n} /\ batch' = batch
        /\ \A m \in Node : Queued(m)' = IF m = n THEN 1 ELSE Queued(m)
        /\ \A m \in Node : future'[m] = "queued" => m = n \/ future[m] = "queued"
    BY <1>4, <1>t DEF LaunchNode, Queued
  <2>n. \A m \in Node : /\ calls[m] \in Nat /\ mem.attempts[m] \in Nat /\ MaxAttempts[m] \in Nat
                        /\ crashes \in Nat /\ Queued(m) \in {0, 1}
    BY <1>t, ParameterAssumption DEF TypeInv, TypeOK, TaskRecord, Queued
  <2>q. Queued(n) = 0
    BY <2>2 DEF Queued
  <2>4. CallsCounted'
    <3> SUFFICES ASSUME NEW m \in Node
                 PROVE  calls[m] + Queued(m)' <= mem'.attempts[m] + crashes
      BY <2>3 DEF CallsCounted
    <3>1. calls[m] + Queued(m) <= mem.attempts[m] + crashes
      BY DEF BudgetInv, CallsCounted
    <3>2. CASE m = n
      BY <3>1, <3>2, <2>1, <2>3, <2>q, <2>n
    <3>3. CASE m # n
      <4>1. Queued(m)' = Queued(m) /\ mem'.attempts[m] = mem.attempts[m] + 0
        BY <3>3, <2>1, <2>3
      <4>2. QED
        BY <3>1, <4>1, <2>n
    <3>4. QED
      BY <3>2, <3>3
  <2>5. CallLeft'
    <3>1. calls[n] < MaxAttempts[n] + crashes
      BY <2>2 DEF BudgetInv, CallLeft
    <3>2. calls[n] + 1 <= MaxAttempts[n] + crashes
      BY <3>1, <2>n
    <3>3. QED
      BY <2>1, <2>3, <3>2 DEF BudgetInv, CallLeft
  <2>6. CountedLate'
    <3>1. mem.attempts[n] = disk.attempts[n]
      BY <2>2, <2>3 DEF BudgetInv, CountedLate
    <3>2. \A m \in Node : m # n => mem'.attempts[m] = mem.attempts[m]
      BY <2>1, <2>n
    <3>3. QED
      BY <2>1, <2>2, <2>3, <3>1, <3>2 DEF BudgetInv, CountedLate
  <2>7. RunningInBatch' /\ QueuedIsRunning' /\ IdleIsSaved'
    BY <2>1, <2>2, <2>3 DEF BudgetInv, RunningInBatch, QueuedIsRunning, IdleIsSaved
  <2>8. QED
    BY <2>4, <2>5, <2>6, <2>7 DEF BudgetInv
<1>5. CASE SaveLaunched
  <2>1. RunningInBatch' /\ pc # "idle" /\ pc' # "idle"
    BY <1>5 DEF SaveLaunched, RunningInBatch, BudgetInv
  <2>2. QED
    BY <1>5, <1>s, <2>1 DEF SaveLaunched, BudgetInv
<1>6. ASSUME NEW n \in Node, StartCall(n) PROVE BudgetInv'
  <2>1. /\ disk' = disk /\ mem' = mem /\ pc' = pc /\ todo' = todo /\ batch' = batch
        /\ crashes' = crashes /\ future[n] = "queued"
        /\ \A m \in Node : future'[m] = IF m = n THEN "running" ELSE future[m]
        /\ \A m \in Node : calls'[m] = calls[m] + (IF m = n THEN 1 ELSE 0)
    BY <1>6, <1>t DEF StartCall, TypeInv, TypeOK
  <2>2. \A m \in Node : /\ calls[m] \in Nat /\ calls'[m] \in Nat
                        /\ calls'[m] + Queued(m)' = calls[m] + Queued(m)
                        /\ m # n => calls'[m] = calls[m]
    BY <1>t, <2>1 DEF Queued, TypeInv, TypeOK
  <2>3. mem.node[n] = "running" /\ pc # "idle"
    BY <2>1 DEF BudgetInv, QueuedIsRunning
  <2>4. CallsCounted' /\ CallLeft'
    BY <2>1, <2>2, <2>3 DEF CallsCounted, CallLeft, BudgetInv
  <2>5. QED
    BY <2>1, <2>4
       DEF BudgetInv, CountedLate, IdleIsSaved, RunningInBatch, QueuedIsRunning, IsFirst
\* Steps of the pool and of the rollback's loop: the records stay.
<1>7. ASSUME disk' = disk, mem' = mem, calls' = calls, crashes' = crashes, batch' = batch,
             \/ pc' = pc /\ todo' = todo
             \/ pc \in {"rescan", "undo", "undone"} /\ pc' \in {"undo", "close"},
             \A m \in Node : future'[m] = "queued" => future[m] = "queued"
      PROVE  BudgetInv'
  <2>1. CallsCounted' /\ CallLeft'
    BY <1>7, <1>t, NoCallStep DEF BudgetInv, CallLeft
  <2>2. QED
    BY <1>7, <2>1
       DEF BudgetInv, CountedLate, IdleIsSaved, RunningInBatch, QueuedIsRunning, IsFirst
<1>8. ASSUME NEW n \in Node, NEW outcome \in Outcomes, FinishCall(n, outcome) PROVE BudgetInv'
  <2>1. \A m \in Node : future'[m] = "queued" => future[m] = "queued"
    BY <1>8, <1>t, ParameterAssumption DEF FinishCall, CallOutcome, ResultStatus
  <2>2. QED
    BY <1>7, <1>8, <2>1 DEF FinishCall
<1>9. ASSUME NEW call \in abandoned, FinishAbandoned(call) PROVE BudgetInv'
  BY <1>7, <1>9 DEF FinishAbandoned
<1>10. ASSUME NEW n \in Node, NEW s \in NodeStatus, Collect(n, s),
              s \in {"waiting", "ready"} => mem.attempts[n] < MaxAttempts[n], s # "running",
              pc = "collect", IsFirst(n, todo), disk' = disk, calls' = calls,
              crashes' = crashes, batch' = batch, todo' = todo,
              \A m \in Node : future'[m] = "queued" => future[m] = "queued" /\ m # n
       PROVE  BudgetInv'
  <2>1. /\ \A m \in Node : mem'.node[m] = IF m = n THEN s ELSE mem.node[m]
        /\ mem'.attempts = mem.attempts /\ pc' = "collected"
    BY <1>10, <1>t, SetNodeType DEF Collect
  <2>2. \A m \in Node : IsFirst(m, todo) => m = n
    BY <1>10, PlanAssumption DEF IsFirst, Node, ValidPlan
  <2>3. mem.attempts[n] < MaxAttempts[n] => calls[n] < MaxAttempts[n] + crashes
    <3>1. calls[n] + Queued(n) <= mem.attempts[n] + crashes /\ Queued(n) \in {0, 1}
      BY DEF BudgetInv, CallsCounted, Queued
    <3>2. /\ calls[n] \in Nat /\ mem.attempts[n] \in Nat /\ MaxAttempts[n] \in Nat
          /\ crashes \in Nat
      BY <1>t, ParameterAssumption DEF TypeInv, TypeOK, TaskRecord
    <3>3. QED
      BY <3>1, <3>2
  <2>4. CallsCounted' /\ CallLeft'
    BY <1>10, <1>t, <2>1, <2>3, NoCallStep
  <2>5. RunningInBatch' /\ QueuedIsRunning'
    BY <1>10, <2>1, <2>2 DEF BudgetInv, RunningInBatch, QueuedIsRunning
  <2>6. CountedLate' /\ IdleIsSaved'
    BY <1>10, <2>1 DEF BudgetInv, CountedLate, IdleIsSaved
  <2>7. QED
    BY <2>4, <2>5, <2>6 DEF BudgetInv
<1>11. ASSUME NEW n \in Node, CollectResult(n) PROVE BudgetInv'
  <2>1. future[n] \in NodeStatus /\ future[n] \notin {"waiting", "ready", "running"}
        /\ future[n] # "queued"
    BY <1>11, Statuses DEF CollectResult, ResultStatus
  <2>2. QED
    BY <1>10, <1>11, <2>1 DEF CollectResult
<1>a. \A n \in Node : /\ AfterFailure(n) \in NodeStatus /\ AfterFailure(n) # "running"
                      /\ AfterFailure(n) \in {"waiting", "ready"} => mem.attempts[n] < MaxAttempts[n]
  BY Statuses DEF AfterFailure
<1>12. ASSUME NEW n \in Node, CollectException(n) PROVE BudgetInv'
  BY <1>10, <1>12, <1>a DEF CollectException
<1>13. ASSUME NEW n \in Node, CollectTimeout(n) PROVE BudgetInv'
  <2>1. \A m \in Node : future'[m] = "queued" => future[m] = "queued" /\ m # n
    BY <1>13, <1>t DEF CollectTimeout
  <2>2. QED
    BY <1>10, <1>13, <1>a, <2>1 DEF CollectTimeout
<1>14. ASSUME NEW n \in Node, SaveCollected(n) PROVE BudgetInv'
  <2>1. \A m \in Node : future'[m] = "queued" => future[m] = "queued"
    BY <1>14, <1>t DEF SaveCollected
  <2>2. RunningInBatch'
    BY <1>14 DEF SaveCollected, BudgetInv, RunningInBatch
  <2>3. QED
    BY <1>14, <1>s, <2>1, <2>2 DEF SaveCollected, BudgetInv
\* A run ends with the nodes of memory, or in a crash with those of the checkpoint.
<1>15. ASSUME pc # "idle", NEW t \in TaskRecord, t.status # "absent", Return(t), calls' = calls,
              \/ /\ t.node = mem.node /\ t.attempts = mem.attempts /\ crashes' = crashes
                 /\ pc \in {"pause", "close"}
              \/ t = disk /\ crashes' = crashes + 1
       PROVE  BudgetInv'
  <2>1. /\ disk' = t /\ mem' = t /\ pc' = "idle" /\ \A n \in Node : future'[n] = "none"
    BY <1>15, ReturnType
  <2>2. \A n \in Node : Queued(n)' = 0
    BY <2>1 DEF Queued
  <2>3. CountedLate' /\ IdleIsSaved' /\ RunningInBatch' /\ QueuedIsRunning'
    BY <1>15, <2>1 DEF CountedLate, IdleIsSaved, RunningInBatch, QueuedIsRunning
  <2>4. \A n \in Node : /\ calls[n] \in Nat /\ mem.attempts[n] \in Nat /\ MaxAttempts[n] \in Nat
                        /\ disk.attempts[n] \in Nat /\ crashes \in Nat /\ Queued(n) \in {0, 1}
    BY <1>t, ParameterAssumption DEF TypeInv, TypeOK, TaskRecord, Queued
  <2>5. CASE crashes' = crashes /\ t.node = mem.node /\ t.attempts = mem.attempts
             /\ pc \in {"pause", "close"}
    <3>1. \A m \in Node : mem.node[m] # "running"
      BY <2>5 DEF BudgetInv, RunningInBatch
    <3>2. CallsCounted' /\ CallLeft'
      BY <1>15, <1>t, <2>1, <2>5, <3>1, NoCallStep
    <3>3. QED
      BY <2>3, <3>2 DEF BudgetInv
  <2>6. CASE crashes' = crashes + 1 /\ t = disk
    <3>1. ASSUME NEW n \in Node
          PROVE  /\ calls[n] <= disk.attempts[n] + crashes + 1
                 /\ calls[n] <= MaxAttempts[n] + crashes
      <4>1. calls[n] + Queued(n) <= mem.attempts[n] + crashes
        BY DEF BudgetInv, CallsCounted
      <4>2. mem.attempts[n] <= disk.attempts[n] + 1
        BY <2>4 DEF BudgetInv, CountedLate
      <4>3. \/ calls[n] < MaxAttempts[n] + crashes
            \/ calls[n] + Queued(n) <= MaxAttempts[n] + crashes
        BY DEF BudgetInv, CallLeft
      <4>4. QED
        BY <2>4, <4>1, <4>2, <4>3
    <3>2. CallsCounted'
      BY <1>15, <2>1, <2>2, <2>4, <2>6, <3>1 DEF CallsCounted
    <3>3. \A n \in Node : /\ calls[n] < MaxAttempts[n] + crashes'
                          /\ calls[n] + 0 <= MaxAttempts[n] + crashes'
      BY <2>4, <2>6, <3>1
    <3>4. CallLeft'
      BY <1>15, <2>2, <3>3 DEF CallLeft
    <3>5. QED
      BY <2>3, <3>2, <3>4 DEF BudgetInv
  <2>7. QED
    BY <1>15, <2>5, <2>6
<1>16. CASE PauseRun
  <2>1. /\ SetStatus(mem, "paused") \in TaskRecord /\ SetStatus(mem, "paused").node = mem.node
        /\ SetStatus(mem, "paused").status = "paused"
        /\ SetStatus(mem, "paused").attempts = mem.attempts
    BY <1>t, StatusType DEF SetStatus, TaskRecord
  <2>2. QED
    BY <1>15, <1>16, <2>1 DEF PauseRun
<1>17. CASE CloseRun
  <2>1. verdict \in {"running", "paused"} \cup TaskTerminal
    BY <1>17, <1>t DEF CloseRun, TypeInv, TypeOK
  <2>2. /\ SetStatus(mem, verdict) \in TaskRecord /\ SetStatus(mem, verdict).node = mem.node
        /\ SetStatus(mem, verdict).status # "absent"
        /\ SetStatus(mem, verdict).attempts = mem.attempts
    BY <1>t, <2>1, StatusType, Statuses DEF SetStatus, TaskRecord
  <2>3. QED
    BY <1>15, <1>17, <2>2 DEF CloseRun
<1>18. CASE Crash
  BY <1>15, <1>18, <1>t DEF Crash, TypeInv
<1>19. CASE Conclude
  BY <1>7, <1>19 DEF Conclude
<1>20. ASSUME NEW n \in Node, SkipUndo(n) \/ UndoFails(n) PROVE BudgetInv'
  <2>1. pc = "undo" /\ pc' = "undo"
    BY <1>20 DEF SkipUndo, UndoFails
  <2>2. QED
    BY <1>7, <1>20, <2>1 DEF SkipUndo, UndoFails
<1>21. CASE UndoEnds
  BY <1>7, <1>21 DEF UndoEnds
<1>22. ASSUME NEW n \in Node, UndoNode(n) PROVE BudgetInv'
  <2>1. "compensated" \in NodeStatus
    BY Statuses
  <2>2. /\ \A m \in Node : mem'.node[m] = IF m = n THEN "compensated" ELSE mem.node[m]
        /\ mem'.attempts = mem.attempts /\ mem.node[n] = "completed"
    BY <1>22, <1>t, <2>1, SetNodeType DEF UndoNode, MustUndo
  <2>3. CallsCounted' /\ CallLeft'
    BY <1>22, <1>t, <2>2, NoCallStep DEF UndoNode
  <2>4. QED
    BY <1>22, <2>2, <2>3
       DEF UndoNode, BudgetInv, CountedLate, IdleIsSaved, RunningInBatch, QueuedIsRunning
<1>23. ASSUME NEW n \in Node, SaveUndone(n) PROVE BudgetInv'
  <2>1. RunningInBatch' /\ pc # "idle" /\ pc' # "idle"
    BY <1>23 DEF SaveUndone, RunningInBatch, BudgetInv
  <2>2. QED
    BY <1>23, <1>s, <2>1 DEF SaveUndone, BudgetInv
<1>24. QED
  BY <1>0, <1>1, <1>2, <1>3, <1>4, <1>5, <1>6, <1>8, <1>9, <1>11, <1>12, <1>13, <1>14, <1>16,
     <1>17, <1>18, <1>19, <1>20, <1>21, <1>22, <1>23
     DEF Next, RunnerStep, PoolStep

LEMMA BudgetCorrect == Spec => []BudgetInv
  BY CoreCorrect, BudgetInit, BudgetNext, PTL DEF Spec

\* For every plan: a crash gives a node at most one call beyond its attempts,
\* wherever it falls between the launch, the save and the end of a call.
THEOREM AttemptBudgetHolds == Spec => []AttemptBudget
<1>1. TypeInv /\ BudgetInv => AttemptBudget
  <2> SUFFICES ASSUME TypeInv, BudgetInv, NEW n \in Node
               PROVE  calls[n] <= MaxAttempts[n] + crashes
    BY DEF AttemptBudget
  <2>1. /\ calls[n] \in Nat /\ MaxAttempts[n] \in Nat /\ crashes \in Nat
        /\ Queued(n) \in {0, 1}
    BY ParameterAssumption DEF TypeInv, TypeOK, Queued
  <2>2. \/ calls[n] < MaxAttempts[n] + crashes
        \/ calls[n] + Queued(n) <= MaxAttempts[n] + crashes
    BY DEF BudgetInv, CallLeft
  <2>3. QED
    BY <2>1, <2>2
<1>2. QED
  BY <1>1, CoreCorrect, BudgetCorrect, PTL DEF CoreInv

-----------------------------------------------------------------------------
(***************************************************************************)
(* What the final status says.  The pass of _refresh_readiness finds, in a *)
(* plan in order, a node to launch or leaves none open (ScanPass); so      *)
(* nothing is open where a run ends for good (EndSettled).                 *)
(***************************************************************************)
Settled(t) == \A n \in Node : t.node[n] \in NodeTerminal

Seen == Node \ todo
ReadySeen == {n \in Seen : mem.node[n] = "ready"}

ScanPass ==
    pc = "scan" =>
        /\ \A m \in Seen, n \in todo : m < n
        /\ \/ \A n \in Seen : mem.node[n] \in NodeTerminal
           \/ \E n \in Seen : IsFirst(n, ReadySeen)

EndSettled == pc \in {"rescan", "undo", "undone", "close"} => Settled(mem)

\* A task with a final status is not run.
OpenWhileRun ==
    pc # "idle" => disk.status \notin TaskTerminal /\ mem.status \notin TaskTerminal

\* What the run is about to write is true of its nodes.
VerdictOfMem ==
    /\ pc \in {"undo", "undone"} => verdict \in {"failed", "cancelled"}
    /\ pc \in {"undo", "undone", "close"} =>
          /\ verdict \in {"failed", "cancelled", "completed"}
          /\ verdict = "failed" => SomeNode({"failed", "blocked"})
          /\ verdict = "completed" => ~SomeNode({"failed", "blocked"})

\* Work is undone in a rollback only; what a crash leaves of one can be seen by
\* a later run.
UndoneInRollback ==
    \A n \in Node : mem.node[n] = "compensated" =>
        \/ crashes > 0
        \/ pc \in {"undo", "undone", "close"} /\ verdict \in {"failed", "cancelled"}
        \/ pc = "idle" /\ disk.status \in {"failed", "cancelled"}

UndoneWhenSettled(t) == (\E n \in Node : t.node[n] = "compensated") => Settled(t)

\* The statuses a task with a rollback ends in.
RolledBack == {"cancelled"} \cup (IF CompensateOnFailure THEN {"failed"} ELSE {})

\* The rollback has dealt with the nodes it has passed.
PassedIsUndone ==
    /\ pc \in {"undo", "undone"} =>
          \A n \in Compensable \ todo : mem.node[n] = "completed" => n \in undoFailed
    /\ pc = "undone" => \A n \in Node : IsLast(n, todo) =>
          mem.node[n] = "compensated" /\ disk.node[n] = "completed"
    /\ pc = "close" /\ verdict \in RolledBack =>
          \A n \in Compensable : mem.node[n] = "completed" => n \in undoFailed

-----------------------------------------------------------------------------
(***************************************************************************)
(* What memory holds beyond the checkpoint, and why the next save is one   *)
(* step of DagTask.                                                        *)
(***************************************************************************)
Saved(n) == mem.node[n] \in NodeTerminal => disk.node[n] = mem.node[n]

Unsaved(n) ==
    /\ disk.node[n] \notin NodeTerminal
    /\ \/ pc = "scan" /\ mem.node[n] = "blocked" /\ DepsBad(mem, n)
       \/ /\ pc = "collected" /\ IsFirst(n, todo) /\ DepsOk(disk, n)
          /\ mem.node[n] \in ResultStatus
       \/ /\ pc \in {"undo", "undone", "close"} /\ verdict = "cancelled"
          /\ mem.node[n] = "cancelled"

UndoUnsaved(n) ==
    /\ pc = "undone" /\ IsLast(n, todo)
    /\ mem.node[n] = "compensated" /\ disk.node[n] = "completed"

NextSave == \A n \in Node : Saved(n) \/ Unsaved(n) \/ UndoUnsaved(n)

VerdictInv ==
    /\ ScanPass /\ EndSettled /\ OpenWhileRun /\ VerdictOfMem
    /\ UndoneInRollback /\ UndoneWhenSettled(disk) /\ UndoneWhenSettled(mem)
    /\ PassedIsUndone /\ NextSave /\ VerdictIsTrue

-----------------------------------------------------------------------------
\* Every final status is good or bad, and a set of numbers has one first and one
\* last member at most.
LEMMA GoodOrBad == NodeTerminal = OkStatus \cup BadStatus
  BY DEF NodeTerminal, OkStatus, BadStatus

LEMMA OneEnd ==
    ASSUME NEW S \in SUBSET Node, NEW m \in Node, NEW n \in Node
    PROVE  /\ IsFirst(m, S) /\ IsFirst(n, S) => m = n
           /\ IsLast(m, S) /\ IsLast(n, S) => m = n
  BY PlanAssumption, SMTT(30) DEF IsFirst, IsLast, Node, ValidPlan

\* While a run is in progress the checkpoint has no final status to be true.
LEMMA OpenIsTrue ==
    ASSUME disk.status \notin TaskTerminal
    PROVE  VerdictIsTrue
  BY DEF VerdictIsTrue, NoNodeLeftOpen, VerdictMatchesNodes, RollbackComplete, TaskTerminal

LEMMA VerdictInit == Init => VerdictInv
  BY OpenIsTrue, Statuses
     DEF Init, EmptyTask, VerdictInv, ScanPass, EndSettled, OpenWhileRun, VerdictOfMem,
         UndoneInRollback, UndoneWhenSettled, PassedIsUndone, NextSave, Saved, TaskTerminal,
         NodeTerminal

\* Writing the checkpoint leaves nothing unsaved, in whatever loop it happens.
LEMMA SaveVerdict ==
    ASSUME VerdictInv, disk' = mem, mem' = mem, pc # "idle", pc' # "idle", crashes' = crashes,
           verdict' = verdict, pc \in {"undo", "undone", "close"} => pc' \in {"undo", "undone", "close"}
    PROVE  /\ OpenWhileRun' /\ UndoneInRollback' /\ UndoneWhenSettled(disk')
           /\ UndoneWhenSettled(mem') /\ NextSave' /\ VerdictIsTrue'
<1>1. disk'.status \notin TaskTerminal /\ mem'.status \notin TaskTerminal
  BY DEF VerdictInv, OpenWhileRun
<1>2. VerdictIsTrue'
  BY <1>1, OpenIsTrue
     DEF VerdictIsTrue, NoNodeLeftOpen, VerdictMatchesNodes, RollbackComplete, TaskTerminal
<1>3. QED
  BY <1>1, <1>2
     DEF VerdictInv, OpenWhileRun, UndoneInRollback, UndoneWhenSettled, Settled, NextSave, Saved

\* One turn of the pass of _refresh_readiness in a plan in order.
LEMMA RefreshPass ==
    ASSUME InOrder, CoreInv, BudgetInv, VerdictInv, NEW n \in Node, RefreshNode(n),
           \A m \in Node : mem'.node[m] = IF m = n THEN Refreshed(n) ELSE mem.node[m]
    PROVE  ScanPass' /\ EndSettled'
<1>t. todo \subseteq Node /\ mem \in TaskRecord
  BY DEF CoreInv, TypeInv, TypeOK
<1>1. CASE pc = "rescan"
  <2>1. Settled(mem)
    BY <1>1 DEF VerdictInv, EndSettled
  <2>2. \A m \in Node : mem'.node[m] = mem.node[m]
    BY <2>1, Statuses DEF Settled, Refreshed
  <2>3. QED
    BY <1>1, <2>1, <2>2 DEF RefreshNode, ScanPass, EndSettled, Settled
<1>2. CASE pc = "scan"
  <2>1. /\ pc' = "scan" /\ todo' = todo \ {n} /\ n \in todo /\ n \notin Seen
        /\ Seen' = Seen \cup {n} /\ Seen \subseteq Node
    BY <1>2, <1>t DEF RefreshNode, IsFirst, Seen
  <2>2. \A m \in Seen', k \in todo' : m < k
    <3>1. \A m \in Seen, k \in todo : m < k
      BY <1>2 DEF VerdictInv, ScanPass
    <3>2. \A k \in todo' : n < k
      BY <1>2, <1>t, <2>1, PlanAssumption DEF RefreshNode, IsFirst, Node, ValidPlan
    <3>3. QED
      BY <2>1, <3>1, <3>2
  <2>3. Deps[n] \subseteq Seen
    BY <1>2, <1>t, PlanAssumption DEF InOrder, RefreshNode, IsFirst, Seen, Node, ValidPlan
  <2>4. CASE \A m \in Seen : mem.node[m] \in NodeTerminal
    <3>1. mem.node[n] \in NodeTerminal \cup {"waiting", "ready"}
      BY <1>2, <1>t DEF BudgetInv, RunningInBatch, TaskRecord, NodeStatus
    <3>2. Refreshed(n) \in NodeTerminal \cup {"ready"}
      <4>1. DepsBad(mem, n) \/ DepsOk(mem, n)
        BY <2>3, <2>4, GoodOrBad DEF DepsBad, DepsOk
      <4>2. QED
        BY <3>1, <4>1, Statuses DEF Refreshed
    <3>3. CASE Refreshed(n) \in NodeTerminal
      BY <2>1, <2>2, <2>4, <3>3 DEF ScanPass, EndSettled
    <3>4. CASE Refreshed(n) = "ready"
      <4>1. ReadySeen' = {n}
        BY <2>1, <2>4, <3>4, Statuses DEF ReadySeen
      <4>2. IsFirst(n, ReadySeen')
        BY <4>1, PlanAssumption DEF IsFirst, Node, ValidPlan
      <4>3. QED
        BY <2>1, <2>2, <4>2 DEF ScanPass, EndSettled, IsFirst
    <3>5. QED
      BY <3>2, <3>3, <3>4
  <2>5. CASE \E k \in Seen : IsFirst(k, ReadySeen)
    <3>1. PICK k \in Seen : IsFirst(k, ReadySeen)
      BY <2>5
    <3>2. k \in ReadySeen' /\ ReadySeen' \subseteq ReadySeen \cup {n}
      BY <2>1, <3>1 DEF IsFirst, ReadySeen
    <3>3. k <= n
      BY <1>2, <1>t, <2>1, PlanAssumption
         DEF VerdictInv, ScanPass, Node, ValidPlan
    <3>4. IsFirst(k, ReadySeen')
      BY <3>1, <3>2, <3>3 DEF IsFirst
    <3>5. QED
      BY <2>1, <2>2, <3>4 DEF ScanPass, EndSettled, IsFirst
  <2>6. QED
    BY <1>2, <2>4, <2>5 DEF VerdictInv, ScanPass
<1>3. QED
  BY <1>1, <1>2 DEF RefreshNode

\* What the refresh has done to a node is kept for the save that follows it.
LEMMA RefreshSave ==
    ASSUME CoreInv, VerdictInv, NEW n \in Node, RefreshNode(n),
           \A m \in Node : mem'.node[m] = IF m = n THEN Refreshed(n) ELSE mem.node[m]
    PROVE  UndoneInRollback' /\ UndoneWhenSettled(mem') /\ NextSave'
<1>1. /\ disk' = disk /\ pc' = pc /\ verdict' = verdict /\ crashes' = crashes
      /\ pc \in {"scan", "rescan"}
  BY DEF RefreshNode, history
<1>2. \A m \in Node : mem.node[m] \in NodeTerminal => mem'.node[m] = mem.node[m]
  BY Statuses DEF Refreshed
<1>3. \A m \in Node : mem'.node[m] = "compensated" => mem.node[m] = "compensated"
  BY DEF Refreshed
<1>4. UndoneInRollback' /\ UndoneWhenSettled(mem')
  <2>1. UndoneWhenSettled(mem')
    BY <1>2, <1>3 DEF VerdictInv, UndoneWhenSettled, Settled
  <2>2. UndoneInRollback'
    BY <1>1, <1>3 DEF VerdictInv, UndoneInRollback
  <2>3. QED
    BY <2>1, <2>2
<1>5. \A m \in Node : DepsBad(mem, m) => DepsBad(mem', m)
  BY <1>2, PlanAssumption, GoodOrBad DEF DepsBad, ValidPlan
<1>6. NextSave'
  <2> SUFFICES ASSUME NEW m \in Node, mem'.node[m] \in NodeTerminal,
                      disk.node[m] # mem'.node[m]
               PROVE  Unsaved(m)'
    BY <1>1 DEF NextSave, Saved
  <2>1. CASE mem'.node[m] = mem.node[m]
    <3>1. Unsaved(m) /\ pc = "scan"
      BY <1>1, <2>1 DEF VerdictInv, NextSave, Saved, Unsaved, UndoUnsaved
    <3>2. QED
      BY <1>1, <1>5, <2>1, <3>1 DEF Unsaved
  <2>2. CASE mem'.node[m] # mem.node[m]
    <3>1. m = n /\ Refreshed(n) = "blocked" /\ DepsBad(mem, n) /\ mem.node[n] \notin NodeTerminal
      BY <2>2, Statuses DEF Refreshed
    <3>2. pc = "scan"
      BY <1>1, <3>1 DEF VerdictInv, EndSettled, Settled
    <3>3. disk.node[m] \notin NodeTerminal
      BY <3>1, Statuses DEF CoreInv, MemAhead, Onward
    <3>4. QED
      BY <1>1, <1>5, <3>1, <3>2, <3>3 DEF Unsaved
  <2>3. QED
    BY <2>1, <2>2
<1>7. QED
  BY <1>4, <1>6

\* Steps that leave memory, the checkpoint and the place of the run alone.
LEMMA PoolVerdict ==
    ASSUME VerdictInv, UNCHANGED <<disk, mem, pc, todo, verdict, crashes, undoFailed>>
    PROVE  VerdictInv'
  BY DEF VerdictInv, ScanPass, EndSettled, OpenWhileRun, VerdictOfMem, UndoneInRollback,
         UndoneWhenSettled, PassedIsUndone, NextSave, VerdictIsTrue, Settled, Seen, ReadySeen,
         SomeNode, Saved, Unsaved, UndoUnsaved, NoNodeLeftOpen, VerdictMatchesNodes,
         RollbackComplete, DepsBad, DepsOk, IsFirst, IsLast

LEMMA StartVerdict ==
    ASSUME CoreInv, BudgetInv, VerdictInv, NEW lim, NEW cancel \in BOOLEAN, StartRun(lim, cancel)
    PROVE  VerdictInv'
<1> DEFINE t == LoadOrCreate
<1>1. /\ t \in TaskRecord /\ t.status \notin TaskTerminal
      /\ \A n \in Node : t.node[n] = IF disk.node[n] = "running" THEN "ready" ELSE disk.node[n]
  <2>1. disk \in TaskRecord /\ disk.status \notin TaskTerminal
    BY DEF CoreInv, TypeInv, TypeOK, StartRun
  <2>2. QED
    BY <2>1, LoadType
       DEF LoadOrCreate, EmptyTask, Interrupted, TaskRecord, CoreInv, AbsentIsEmpty, TaskTerminal
<1>2. /\ Cancelled(t).status = t.status
      /\ \A n \in Node : Cancelled(t).node[n] =
            IF t.node[n] \in NodeTerminal THEN t.node[n] ELSE "cancelled"
  BY <1>1 DEF Cancelled, TaskRecord
<1>3. /\ disk' = (IF disk.status = "absent" THEN t ELSE disk)
      /\ mem' = (IF cancel THEN Cancelled(t) ELSE t)
      /\ pc' = (IF cancel THEN "undo" ELSE "scan")
      /\ verdict' = (IF cancel THEN "cancelled" ELSE "none")
      /\ todo' = Node /\ pc = "idle" /\ mem = disk /\ crashes' = crashes
      /\ disk.status \notin TaskTerminal
  BY DEF StartRun, BudgetInv, IdleIsSaved, history
<1> HIDE DEF t
<1>4. /\ OpenWhileRun' /\ VerdictOfMem' /\ VerdictIsTrue'
  <2>1. disk'.status \notin TaskTerminal /\ mem'.status \notin TaskTerminal
    BY <1>1, <1>2, <1>3
  <2>2. VerdictIsTrue'
    BY <2>1 DEF VerdictIsTrue, NoNodeLeftOpen, VerdictMatchesNodes, RollbackComplete, TaskTerminal
  <2>3. QED
    BY <1>3, <2>1, <2>2 DEF OpenWhileRun, VerdictOfMem
<1>5. ScanPass' /\ PassedIsUndone'
  <2>1. Seen' = {}
    BY <1>3 DEF Seen
  <2>2. QED
    BY <1>3, <2>1, ParameterAssumption DEF ScanPass, PassedIsUndone
<1>6. cancel => Settled(mem')
  BY <1>2, <1>3, Statuses DEF Settled
<1>7. EndSettled'
  BY <1>3, <1>6 DEF EndSettled
<1>8. \A n \in Node : /\ disk'.node[n] \in NodeTerminal <=> disk.node[n] \in NodeTerminal
                      /\ disk.node[n] \in NodeTerminal => disk'.node[n] = disk.node[n]
                      /\ disk.node[n] \in NodeTerminal => mem'.node[n] = disk.node[n]
                      /\ mem'.node[n] \in NodeTerminal => disk.node[n] \in NodeTerminal
                                                          \/ (cancel /\ mem'.node[n] = "cancelled")
                      /\ mem'.node[n] = "compensated" => disk.node[n] = "compensated"
  BY <1>1, <1>2, <1>3, Statuses
<1>9. UndoneInRollback'
  BY <1>3, <1>8 DEF UndoneInRollback, VerdictInv, TaskTerminal
<1>10. UndoneWhenSettled(disk') /\ UndoneWhenSettled(mem')
  <2>1. "compensated" \in NodeTerminal
    BY Statuses
  <2>2. QED
    BY <1>8, <2>1 DEF UndoneWhenSettled, VerdictInv, Settled
<1>11. NextSave'
  BY <1>3, <1>8 DEF NextSave, Saved, Unsaved
<1>12. QED
  BY <1>4, <1>5, <1>7, <1>9, <1>10, <1>11 DEF VerdictInv

\* A batch is chosen, or the pass has left no node open.
LEMMA SelectVerdict ==
    ASSUME CoreInv, VerdictInv, SelectBatch
    PROVE  VerdictInv'
<1>1. /\ pc = "scan" /\ todo = {} /\ disk' = mem /\ mem' = mem /\ crashes' = crashes
      /\ verdict' = verdict /\ pc' = (IF ReadyIds = {} THEN "rescan" ELSE "launch")
  BY DEF SelectBatch, history
<1>2. ReadyIds = {} => Settled(mem)
  <2>1. Seen = Node /\ ReadySeen = ReadyNodes
    BY <1>1 DEF Seen, ReadySeen, ReadyNodes
  <2>2. ASSUME NEW n \in Node, IsFirst(n, ReadyNodes) PROVE n \in ReadyIds
    <3>1. \A m \in ReadyNodes : m \in Int /\ n \in Int /\ ~(m < n)
      BY <2>2, PlanAssumption DEF IsFirst, ReadyNodes, Node, ValidPlan
    <3>2. {m \in ReadyNodes : m < n} = {}
      BY <3>1
    <3>3. Cardinality({m \in ReadyNodes : m < n}) = 0
      BY <3>2, FS_EmptySet
    <3>4. QED
      BY <2>2, <3>3, ParameterAssumption DEF ReadyIds, IsFirst
  <2>3. QED
    BY <1>1, <2>1, <2>2 DEF VerdictInv, ScanPass, Settled
<1>3. ScanPass' /\ EndSettled' /\ VerdictOfMem' /\ PassedIsUndone'
  BY <1>1, <1>2 DEF ScanPass, EndSettled, VerdictOfMem, PassedIsUndone, Settled
<1>4. QED
  BY <1>1, <1>3, SaveVerdict DEF VerdictInv

\* A collected node is saved next, on dependencies the checkpoint has already.
LEMMA CollectVerdict ==
    ASSUME CoreInv, VerdictInv, NEW n \in Node, NEW s \in ResultStatus \cup {"ready"},
           Collect(n, s), pc = "collect", IsFirst(n, todo), crashes' = crashes,
           disk' = disk, todo' = todo
    PROVE  VerdictInv'
<1>1. /\ \A m \in Node : mem'.node[m] = IF m = n THEN s ELSE mem.node[m]
      /\ mem'.status = mem.status /\ pc' = "collected"
  <2>1. s \in NodeStatus /\ mem \in TaskRecord
    BY Statuses DEF CoreInv, TypeInv, TypeOK
  <2>2. QED
    BY <2>1, SetNodeType DEF Collect
<1>2. mem.node[n] = "running" /\ DepsOk(mem, n)
  BY DEF IsFirst, CoreInv, BatchState, ActiveOnDeps
<1>3. mem.node[n] \notin NodeTerminal /\ disk.node[n] \notin NodeTerminal
  BY <1>2, Statuses DEF CoreInv, MemAhead, Onward
<1>4. \A m \in Node : Saved(m)
  BY DEF VerdictInv, NextSave, Unsaved, UndoUnsaved
<1>5. DepsOk(disk, n)
  BY <1>2, <1>4, PlanAssumption, Statuses DEF DepsOk, Saved, ValidPlan
<1>6. \A m \in Node : mem.node[m] # "compensated" /\ mem'.node[m] # "compensated"
  <2>1. \A m \in Node : mem.node[m] # "compensated"
    BY <1>3 DEF VerdictInv, UndoneWhenSettled, Settled
  <2>2. QED
    BY <1>1, <2>1 DEF ResultStatus
<1>7. NextSave'
  BY <1>1, <1>3, <1>4, <1>5 DEF NextSave, Saved, Unsaved, IsFirst, DepsOk, NodeTerminal
<1>8. VerdictIsTrue'
  BY OpenIsTrue
     DEF VerdictInv, OpenWhileRun, VerdictIsTrue, NoNodeLeftOpen, VerdictMatchesNodes,
         RollbackComplete, TaskTerminal
<1>9. QED
  BY <1>1, <1>6, <1>7, <1>8
     DEF VerdictInv, ScanPass, EndSettled, OpenWhileRun, VerdictOfMem, UndoneInRollback,
         UndoneWhenSettled, PassedIsUndone

\* The status the run ends with is that of the nodes memory has then.
LEMMA CloseVerdict ==
    ASSUME CoreInv, VerdictInv, CloseRun
    PROVE  VerdictInv'
<1> DEFINE t == SetStatus(mem, verdict)
<1>1. /\ pc = "close" /\ verdict \in {"failed", "cancelled", "completed"} /\ Settled(mem)
      /\ crashes' = crashes /\ undoFailed' = undoFailed
  BY DEF CloseRun, VerdictInv, VerdictOfMem, EndSettled, history
<1>2. t \in TaskRecord /\ t.status = verdict /\ t.node = mem.node
  BY <1>1, StatusType DEF CoreInv, TypeInv, TypeOK, TaskTerminal
<1>3. disk' = t /\ mem' = t /\ pc' = "idle"
  BY DEF CloseRun, Return
<1> HIDE DEF t
<1>4. NoNodeLeftOpen'
  BY <1>1, <1>2, <1>3 DEF NoNodeLeftOpen, Settled
<1>5. VerdictMatchesNodes'
  <2>1. ASSUME verdict = "completed", NEW n \in Node, mem.node[n] # "cancelled"
        PROVE  mem.node[n] = "completed" \/ (mem.node[n] = "compensated" /\ crashes > 0)
    <3>1. mem.node[n] \in {"completed", "compensated"}
      BY <1>1, <2>1 DEF Settled, VerdictInv, VerdictOfMem, SomeNode, NodeTerminal
    <3>2. QED
      BY <1>1, <2>1, <3>1 DEF VerdictInv, UndoneInRollback
  <2>2. verdict = "failed" => \E n \in Node : mem.node[n] \in {"failed", "blocked"}
    BY <1>1 DEF VerdictInv, VerdictOfMem, SomeNode
  <2>3. QED
    BY <1>1, <1>2, <1>3, <2>1, <2>2 DEF VerdictMatchesNodes
<1>6. RollbackComplete'
  BY <1>1, <1>2, <1>3 DEF RollbackComplete, VerdictInv, PassedIsUndone, RolledBack
<1>7. UndoneInRollback'
  BY <1>1, <1>2, <1>3 DEF VerdictInv, UndoneInRollback
<1>8. QED
  BY <1>1, <1>2, <1>3, <1>4, <1>5, <1>6, <1>7
     DEF VerdictInv, VerdictIsTrue, ScanPass, EndSettled, OpenWhileRun, VerdictOfMem,
         UndoneWhenSettled, Settled, PassedIsUndone, NextSave, Saved

LEMMA VerdictNext ==
    ASSUME InOrder
    PROVE  CoreInv /\ BudgetInv /\ VerdictInv /\ [Next]_vars => VerdictInv'
<1> SUFFICES ASSUME CoreInv, BudgetInv, VerdictInv, [Next]_vars PROVE VerdictInv'
  OBVIOUS
<1>t. TypeInv /\ mem \in TaskRecord /\ disk \in TaskRecord /\ todo \subseteq Node
  BY DEF CoreInv, TypeInv, TypeOK
<1>o. pc # "idle" => VerdictIsTrue /\ disk.status \notin TaskTerminal
  BY DEF VerdictInv, OpenWhileRun
<1> USE DEF history
<1>0. CASE UNCHANGED vars
  BY <1>0, PoolVerdict DEF vars, run
<1>1. ASSUME NEW lim \in Limits, NEW cancel \in CancelRequests, StartRun(lim, cancel)
      PROVE  VerdictInv'
  BY <1>1, StartVerdict, ParameterAssumption
<1>2. ASSUME NEW n \in Node, RefreshNode(n) PROVE VerdictInv'
  <2>1. Refreshed(n) \in NodeStatus
    BY <1>t, Statuses DEF Refreshed, TaskRecord, NodeTerminal
  <2>2. /\ \A m \in Node : mem'.node[m] = IF m = n THEN Refreshed(n) ELSE mem.node[m]
        /\ mem'.status = mem.status
    BY <1>2, <1>t, <2>1, SetNodeType DEF RefreshNode
  <2>3. ScanPass' /\ EndSettled' /\ UndoneInRollback' /\ UndoneWhenSettled(mem') /\ NextSave'
    BY <1>2, <2>2, RefreshPass, RefreshSave
  <2>4. OpenWhileRun' /\ VerdictOfMem' /\ UndoneWhenSettled(disk') /\ PassedIsUndone'
        /\ VerdictIsTrue'
    BY <1>2, <2>2
       DEF RefreshNode, VerdictInv, OpenWhileRun, VerdictOfMem, UndoneWhenSettled, Settled,
           PassedIsUndone, VerdictIsTrue, NoNodeLeftOpen, VerdictMatchesNodes, RollbackComplete
  <2>5. QED
    BY <2>3, <2>4 DEF VerdictInv
<1>3. CASE SelectBatch
  BY <1>3, SelectVerdict
<1>4. ASSUME NEW n \in Node, LaunchNode(n) PROVE VerdictInv'
  <2>1. /\ \A m \in Node : mem'.node[m] = IF m = n THEN "running" ELSE mem.node[m]
        /\ mem'.status = mem.status
    <3>1. mem' = Attempt(mem, n)
      BY <1>4 DEF LaunchNode
    <3>2. QED
      BY <1>t, <3>1, AttemptType
  <2>2. mem.node[n] = "ready" /\ pc = "launch" /\ pc' \in {"launch", "launched"}
    BY <1>4 DEF LaunchNode, IsFirst, CoreInv, BatchState
  <2>3. \A m \in Node : mem.node[m] # "compensated" /\ mem'.node[m] # "compensated"
    BY <2>1, <2>2, Statuses DEF VerdictInv, UndoneWhenSettled, Settled
  <2>4. NextSave'
    BY <1>4, <2>1, <2>2, Statuses
       DEF LaunchNode, VerdictInv, NextSave, Saved, Unsaved, UndoUnsaved
  <2>5. UndoneWhenSettled(disk') /\ VerdictIsTrue'
    BY <1>4, <1>o
       DEF LaunchNode, VerdictInv, UndoneWhenSettled, Settled, VerdictIsTrue, NoNodeLeftOpen,
           VerdictMatchesNodes, RollbackComplete
  <2>6. QED
    BY <1>4, <2>1, <2>2, <2>3, <2>4, <2>5
       DEF LaunchNode, VerdictInv, ScanPass, EndSettled, OpenWhileRun, VerdictOfMem,
           UndoneInRollback, UndoneWhenSettled, PassedIsUndone
<1>5. CASE SaveLaunched
  <2>1. pc = "launched" /\ pc' = "collect"
    BY <1>5 DEF SaveLaunched
  <2>2. ScanPass' /\ EndSettled' /\ VerdictOfMem' /\ PassedIsUndone'
    BY <2>1 DEF ScanPass, EndSettled, VerdictOfMem, PassedIsUndone
  <2>3. QED
    BY <1>5, <2>1, <2>2, SaveVerdict DEF SaveLaunched, VerdictInv
<1>6. ASSUME NEW n \in Node, StartCall(n) PROVE VerdictInv'
  BY <1>6, PoolVerdict DEF StartCall
<1>7. ASSUME NEW n \in Node, NEW outcome \in Outcomes, FinishCall(n, outcome) PROVE VerdictInv'
  BY <1>7, PoolVerdict DEF FinishCall
<1>8. ASSUME NEW call \in abandoned, FinishAbandoned(call) PROVE VerdictInv'
  BY <1>8, PoolVerdict DEF FinishAbandoned
<1>9. ASSUME NEW n \in Node, CollectResult(n) \/ CollectException(n) \/ CollectTimeout(n)
      PROVE  VerdictInv'
  <2>1. PICK s \in ResultStatus \cup {"ready"} : Collect(n, s)
    BY <1>9 DEF CollectResult, CollectException, CollectTimeout, AfterFailure, ResultStatus
  <2>2. QED
    BY <1>9, <2>1, CollectVerdict DEF CollectResult, CollectException, CollectTimeout
<1>10. ASSUME NEW n \in Node, SaveCollected(n) PROVE VerdictInv'
  <2>1. pc = "collected" /\ (pc' = "scan" => todo' = Node) /\ pc' \in {"collect", "pause", "scan"}
    BY <1>10 DEF SaveCollected
  <2>2. ScanPass' /\ EndSettled' /\ VerdictOfMem' /\ PassedIsUndone'
    BY <2>1 DEF ScanPass, EndSettled, VerdictOfMem, PassedIsUndone, Seen
  <2>3. QED
    BY <1>10, <2>1, <2>2, SaveVerdict DEF SaveCollected, VerdictInv
<1>11. CASE PauseRun
  <2>1. /\ SetStatus(mem, "paused").node = mem.node /\ SetStatus(mem, "paused").status = "paused"
    BY <1>t, StatusType
  <2>2. /\ disk' = SetStatus(mem, "paused") /\ mem' = disk' /\ pc' = "idle" /\ pc = "pause"
        /\ crashes' = crashes
    BY <1>11 DEF PauseRun, Return
  <2>3. VerdictIsTrue'
    BY <2>1, <2>2
       DEF VerdictIsTrue, NoNodeLeftOpen, VerdictMatchesNodes, RollbackComplete, TaskTerminal
  <2>4. QED
    BY <2>1, <2>2, <2>3
       DEF VerdictInv, ScanPass, EndSettled, OpenWhileRun, VerdictOfMem, UndoneInRollback,
           UndoneWhenSettled, Settled, PassedIsUndone, NextSave, Saved
<1>12. CASE CloseRun
  BY <1>12, CloseVerdict
<1>13. CASE Crash
  <2>1. disk' = disk /\ mem' = disk /\ pc' = "idle" /\ pc # "idle" /\ crashes' = crashes + 1
    BY <1>13 DEF Crash, Return
  <2>2. crashes' > 0
    BY <2>1, <1>t DEF TypeInv, TypeOK
  <2>3. VerdictIsTrue'
    BY <2>1, <1>o
       DEF VerdictIsTrue, NoNodeLeftOpen, VerdictMatchesNodes, RollbackComplete, TaskTerminal
  <2>4. QED
    BY <2>1, <2>2, <2>3
       DEF VerdictInv, ScanPass, EndSettled, OpenWhileRun, VerdictOfMem, UndoneInRollback,
           UndoneWhenSettled, Settled, PassedIsUndone, NextSave, Saved
<1>14. CASE Conclude
  <2>1. /\ pc = "rescan" /\ Settled(mem) /\ verdict' = Verdict
        /\ UNCHANGED <<disk, mem, crashes, undoFailed>>
        /\ pc' = (IF Verdict = "failed" /\ CompensateOnFailure THEN "undo" ELSE "close")
        /\ todo' = (IF Verdict = "failed" /\ CompensateOnFailure THEN Node ELSE {})
    BY <1>14 DEF Conclude, VerdictInv, EndSettled
  <2>2. /\ Verdict \in {"failed", "completed"}
        /\ Verdict = "failed" <=> SomeNode({"failed", "blocked"})
    BY <2>1 DEF Verdict, SomeNode, Settled
  <2>3. VerdictOfMem' /\ EndSettled' /\ ScanPass'
    BY <2>1, <2>2 DEF VerdictOfMem, EndSettled, ScanPass, SomeNode, Settled
  <2>4. PassedIsUndone'
    BY <2>1, <2>2, ParameterAssumption DEF PassedIsUndone, RolledBack
  <2>5. \A n \in Node : Saved(n)
    BY <2>1 DEF VerdictInv, NextSave, Unsaved, UndoUnsaved
  <2>6. NextSave' /\ UndoneInRollback' /\ OpenWhileRun'
    BY <2>1, <2>5 DEF NextSave, Saved, UndoneInRollback, VerdictInv, OpenWhileRun
  <2>7. UndoneWhenSettled(disk') /\ UndoneWhenSettled(mem') /\ VerdictIsTrue'
    BY <2>1
       DEF VerdictInv, UndoneWhenSettled, Settled, VerdictIsTrue, NoNodeLeftOpen,
           VerdictMatchesNodes, RollbackComplete
  <2>8. QED
    BY <2>3, <2>4, <2>6, <2>7 DEF VerdictInv
<1>15. ASSUME NEW n \in Node, SkipUndo(n) \/ UndoFails(n) PROVE VerdictInv'
  <2>1. /\ pc = "undo" /\ pc' = "undo" /\ UNCHANGED <<disk, mem, verdict, crashes>>
        /\ todo' = todo \ {n} /\ undoFailed \subseteq undoFailed'
        /\ n \in Compensable /\ mem.node[n] = "completed" => n \in undoFailed'
    BY <1>15 DEF SkipUndo, UndoFails, MustUndo
  <2>2. PassedIsUndone'
    BY <2>1 DEF PassedIsUndone, VerdictInv
  <2>3. VerdictIsTrue'
    BY <2>1, <1>o
       DEF VerdictIsTrue, NoNodeLeftOpen, VerdictMatchesNodes, RollbackComplete, TaskTerminal
  <2>4. ScanPass' /\ EndSettled' /\ OpenWhileRun' /\ VerdictOfMem' /\ UndoneInRollback'
    BY <2>1
       DEF VerdictInv, ScanPass, EndSettled, OpenWhileRun, VerdictOfMem, UndoneInRollback,
           Settled, SomeNode
  <2>5. NextSave' /\ UndoneWhenSettled(disk') /\ UndoneWhenSettled(mem')
    BY <2>1 DEF VerdictInv, NextSave, Saved, Unsaved, UndoUnsaved, UndoneWhenSettled, Settled
  <2>6. QED
    BY <2>2, <2>3, <2>4, <2>5 DEF VerdictInv
<1>16. ASSUME NEW n \in Node, UndoNode(n) PROVE VerdictInv'
  <2>1. "compensated" \in NodeStatus /\ "compensated" \in NodeTerminal
    BY Statuses
  <2>2. /\ \A m \in Node : mem'.node[m] = IF m = n THEN "compensated" ELSE mem.node[m]
        /\ mem'.status = mem.status /\ mem.node[n] = "completed"
    BY <1>16, <1>t, <2>1, SetNodeType DEF UndoNode, MustUndo
  <2>3. /\ pc = "undo" /\ pc' = "undone" /\ IsLast(n, todo)
        /\ UNCHANGED <<disk, todo, verdict, crashes, undoFailed>>
    BY <1>16 DEF UndoNode
  <2>4. Settled(mem) /\ Settled(mem')
    BY <2>1, <2>2, <2>3 DEF VerdictInv, EndSettled, Settled
  <2>5. VerdictOfMem'
    BY <2>2, <2>3 DEF VerdictInv, VerdictOfMem, SomeNode
  <2>6. PassedIsUndone'
    <3>1. \A m \in Node : IsLast(m, todo) => m = n
      BY <1>t, <2>3, OneEnd
    <3>2. disk.node[n] = "completed"
      BY <2>2, <2>3, Statuses DEF VerdictInv, NextSave, Saved, Unsaved, UndoUnsaved
    <3>3. QED
      BY <2>2, <2>3, <3>1, <3>2, ParameterAssumption DEF VerdictInv, PassedIsUndone, IsLast
  <2>7. NextSave'
    <3>1. disk.node[n] = "completed"
      BY <2>2, <2>3, Statuses DEF VerdictInv, NextSave, Saved, Unsaved, UndoUnsaved
    <3>2. UndoUnsaved(n)'
      BY <2>2, <2>3, <3>1 DEF UndoUnsaved, IsLast
    <3>3. ASSUME NEW m \in Node, m # n PROVE Saved(m)' \/ Unsaved(m)'
      BY <2>2, <2>3, <3>3 DEF VerdictInv, NextSave, Saved, Unsaved, UndoUnsaved
    <3>4. QED
      BY <3>2, <3>3 DEF NextSave
  <2>8. UndoneWhenSettled(disk') /\ VerdictIsTrue'
    BY <2>3, <1>o
       DEF VerdictInv, UndoneWhenSettled, Settled, VerdictIsTrue, NoNodeLeftOpen,
           VerdictMatchesNodes, RollbackComplete
  <2>9. QED
    BY <2>2, <2>3, <2>4, <2>5, <2>6, <2>7, <2>8
       DEF VerdictInv, ScanPass, EndSettled, OpenWhileRun, UndoneInRollback, UndoneWhenSettled,
           VerdictOfMem
<1>17. ASSUME NEW n \in Node, SaveUndone(n) PROVE VerdictInv'
  <2>1. /\ pc = "undone" /\ pc' = "undo" /\ IsLast(n, todo) /\ todo' = todo \ {n}
        /\ UNCHANGED <<mem, verdict, undoFailed, crashes>> /\ disk' = mem
    BY <1>17 DEF SaveUndone
  <2>2. PassedIsUndone'
    BY <2>1, ParameterAssumption DEF VerdictInv, PassedIsUndone, IsLast
  <2>3. ScanPass' /\ EndSettled' /\ VerdictOfMem'
    BY <2>1 DEF ScanPass, EndSettled, VerdictOfMem, VerdictInv, Settled, SomeNode
  <2>4. QED
    BY <2>1, <2>2, <2>3, SaveVerdict DEF VerdictInv
<1>18. CASE UndoEnds
  <2>1. /\ pc = "undo" /\ pc' = "close" /\ todo = {}
        /\ UNCHANGED <<disk, mem, todo, verdict, crashes, undoFailed>>
    BY <1>18 DEF UndoEnds
  <2>2. PassedIsUndone'
    BY <2>1 DEF PassedIsUndone, VerdictInv
  <2>3. VerdictIsTrue'
    BY <2>1, <1>o
       DEF VerdictIsTrue, NoNodeLeftOpen, VerdictMatchesNodes, RollbackComplete, TaskTerminal
  <2>4. ScanPass' /\ EndSettled' /\ OpenWhileRun' /\ VerdictOfMem' /\ UndoneInRollback'
    BY <2>1
       DEF VerdictInv, ScanPass, EndSettled, OpenWhileRun, VerdictOfMem, UndoneInRollback,
           Settled, SomeNode
  <2>5. NextSave' /\ UndoneWhenSettled(disk') /\ UndoneWhenSettled(mem')
    BY <2>1 DEF VerdictInv, NextSave, Saved, Unsaved, UndoUnsaved, UndoneWhenSettled, Settled
  <2>6. QED
    BY <2>2, <2>3, <2>4, <2>5 DEF VerdictInv
<1>19. QED
  BY <1>0, <1>1, <1>2, <1>3, <1>4, <1>5, <1>6, <1>7, <1>8, <1>9, <1>10, <1>11, <1>12, <1>13,
     <1>14, <1>15, <1>16, <1>17, <1>18
     DEF Next, RunnerStep, PoolStep

LEMMA VerdictCorrect ==
    ASSUME InOrder
    PROVE  Spec => []VerdictInv
<1>1. CoreInv /\ BudgetInv /\ VerdictInv /\ [Next]_vars => VerdictInv'
  BY VerdictNext
<1>2. QED
  BY <1>1, CoreCorrect, BudgetCorrect, VerdictInit, PTL DEF Spec

\* For every plan in order: the final status of a task leaves no node open, is
\* that of its nodes, and comes after the rollback it calls for.
THEOREM VerdictIsTrueHolds ==
    ASSUME InOrder
    PROVE  Spec => []VerdictIsTrue
<1>1. VerdictInv => VerdictIsTrue
  BY DEF VerdictInv
<1>2. QED
  BY <1>1, VerdictCorrect, PTL

\* For every plan in order: a node is undone after the nodes built on it.
THEOREM RollbackOrderHolds ==
    ASSUME InOrder
    PROVE  Spec => RollbackOrder
<1> DEFINE Step == \A n, m \in Node :
          /\ undos'[n] > undos[n]
          /\ n \in Deps[m]
          /\ m \in Compensable
          => mem.node[m] # "completed" \/ m \in undoFailed
<1>1. CoreInv /\ VerdictInv /\ [Next]_vars => [Step]_vars
  <2> SUFFICES ASSUME CoreInv, VerdictInv, [Next]_vars, NEW n \in Node, NEW m \in Node,
                      undos'[n] > undos[n], n \in Deps[m], m \in Compensable,
                      mem.node[m] = "completed"
               PROVE  m \in undoFailed
    OBVIOUS
  <2>1. undos \in [Node -> Nat] /\ todo \subseteq Node
    BY DEF CoreInv, TypeInv, TypeOK
  <2>2. UndoNode(n)
    <3>1. undos' # undos
      BY <2>1
    <3>2. ASSUME NEW k \in Node, UndoNode(k) PROVE k = n
      BY <2>1, <3>2 DEF UndoNode
    <3>3. QED
      BY <3>1, <3>2
         DEF Next, RunnerStep, PoolStep, vars, history, StartRun, RefreshNode, SelectBatch,
             LaunchNode, SaveLaunched, StartCall, FinishCall, FinishAbandoned, CollectResult,
             CollectException, CollectTimeout, SaveCollected, PauseRun, Conclude, SkipUndo,
             UndoFails, SaveUndone, UndoEnds, CloseRun, Crash
  <2>3. m \notin todo
    BY <2>1, <2>2, PlanAssumption DEF UndoNode, IsLast, InOrder, Node, ValidPlan
  <2>4. QED
    BY <2>2, <2>3 DEF UndoNode, VerdictInv, PassedIsUndone
<1>2. QED
  BY <1>1, CoreCorrect, VerdictCorrect, PTL DEF Spec, RollbackOrder

-----------------------------------------------------------------------------
(***************************************************************************)
(* The refinement.  Only a save changes what DagTask sees: the one after a *)
(* refresh skips the nodes it blocked, the one after a collected call      *)
(* settles a node, the one after an undo cancels what was open and undoes  *)
(* a node, and the last one writes the verdict.                            *)
(***************************************************************************)
OutOf(t) == [n \in Node |-> IF t.node[n] \in NodeTerminal THEN t.node[n] ELSE "pending"]
VerdictOf(t) == IF t.status \in TaskTerminal THEN t.status ELSE "open"

LEMMA TaskView ==
    /\ Task!Node = Node /\ Task!Bad = BadStatus
    /\ Task!Pending = {n \in Node : OutOf(disk)[n] = "pending"}
    /\ Task!CancelPending = [n \in Node |->
          IF n \in Task!Pending THEN "cancelled" ELSE OutOf(disk)[n]]
  BY DEF Task!Node, Node, Task!Bad, BadStatus, Task!Pending, Task!CancelPending, OutOf

\* A node is pending in DagTask until the checkpoint settles it.
LEMMA PendingIsOpen ==
    \A n \in Node : /\ OutOf(disk)[n] = "pending" <=> disk.node[n] \notin NodeTerminal
                    /\ disk.node[n] \in NodeTerminal => OutOf(disk)[n] = disk.node[n]
  BY DEF OutOf, NodeTerminal

LEMMA TaskInit == Init => Task!Init
  BY Statuses DEF Init, EmptyTask, Task!Init, Task!Node, Node, NodeTerminal, TaskTerminal

\* A step whose records show DagTask the same nodes and the same verdict.
LEMMA TaskStutter ==
    ASSUME \A n \in Node : \/ disk'.node[n] = disk.node[n]
                           \/ /\ disk'.node[n] \notin NodeTerminal
                              /\ disk.node[n] \notin NodeTerminal,
           \/ disk'.status = disk.status
           \/ disk'.status \notin TaskTerminal /\ disk.status \notin TaskTerminal
    PROVE  UNCHANGED Task!vars
<1>1. OutOf(disk') = OutOf(disk)
  BY DEF OutOf
<1>2. VerdictOf(disk') = VerdictOf(disk)
  BY DEF VerdictOf
<1>3. QED
  BY <1>1, <1>2 DEF Task!vars, OutOf, VerdictOf

LEMMA TaskSkip ==
    ASSUME CoreInv, VerdictInv, SelectBatch
    PROVE  \E S \in SUBSET Node : Task!Skip(S)
<1>0. PICK S \in SUBSET Node :
         \A n \in Node : n \in S <=> disk.node[n] \notin NodeTerminal
                                     /\ mem.node[n] \in NodeTerminal
  <2>1. {n \in Node : disk.node[n] \notin NodeTerminal /\ mem.node[n] \in NodeTerminal} \in SUBSET Node
    OBVIOUS
  <2>2. QED
    BY <2>1
<1>1. pc = "scan" /\ disk' = mem
  BY DEF SelectBatch
<1>2. disk.status \notin TaskTerminal /\ disk'.status \notin TaskTerminal
  BY <1>1 DEF VerdictInv, OpenWhileRun
<1>3. \A n \in Node : n \notin S => Saved(n) /\ Onward(disk.node[n], mem.node[n])
  BY <1>0, <1>1 DEF VerdictInv, NextSave, Unsaved, UndoUnsaved, CoreInv, MemAhead, Saved
<1>4. \A n \in S : mem.node[n] = "blocked" /\ DepsBad(mem, n)
  BY <1>0, <1>1 DEF VerdictInv, NextSave, Saved, Unsaved, UndoUnsaved
<1>5. OutOf(disk') = [n \in Node |-> IF n \in S THEN "blocked" ELSE OutOf(disk)[n]]
  <2>1. ASSUME NEW n \in Node, n \notin S PROVE OutOf(mem)[n] = OutOf(disk)[n]
    BY <2>1, <1>0, <1>3, Statuses DEF OutOf, Saved, Onward
  <2>2. ASSUME NEW n \in S PROVE OutOf(mem)[n] = "blocked"
    BY <2>2, <1>4 DEF OutOf, NodeTerminal
  <2>3. OutOf(mem) = [n \in Node |-> OutOf(mem)[n]]
    BY DEF OutOf
  <2>4. QED
    BY <1>1, <2>1, <2>2, <2>3
<1>6. S \subseteq Task!Pending
  BY <1>0, TaskView, PendingIsOpen
<1>7. \A n \in S : \E d \in Deps[n] : OutOf(disk')[d] \in BadStatus
  BY <1>1, <1>4, PlanAssumption, GoodOrBad DEF DepsBad, OutOf, ValidPlan
<1>8. Task!Skip(S)
  BY <1>2, <1>5, <1>6, <1>7, TaskView DEF Task!Skip, OutOf
<1>9. QED
  BY <1>8

LEMMA TaskSettle ==
    ASSUME CoreInv, VerdictInv, NEW n \in Node, SaveCollected(n)
    PROVE  \/ \E o \in Task!Outcome : Task!Settle(n, o)
           \/ UNCHANGED Task!vars
<1>1. pc = "collected" /\ IsFirst(n, todo) /\ disk' = mem /\ todo \subseteq Node
  BY DEF SaveCollected, CoreInv, TypeInv, TypeOK
<1>2. disk.status \notin TaskTerminal /\ disk'.status \notin TaskTerminal
  BY <1>1 DEF VerdictInv, OpenWhileRun
<1>3. \A m \in Node : m # n => Saved(m)
  BY <1>1, OneEnd DEF VerdictInv, NextSave, Unsaved, UndoUnsaved
<1>4. \A m \in Node : Saved(m) => \/ mem.node[m] = disk.node[m]
                                  \/ mem.node[m] \notin NodeTerminal /\ disk.node[m] \notin NodeTerminal
  BY Statuses DEF CoreInv, MemAhead, Onward, Saved
<1>5. CASE Saved(n)
  BY <1>1, <1>2, <1>3, <1>4, <1>5, TaskStutter
<1>6. CASE ~Saved(n)
  <2>1. /\ disk.node[n] \notin NodeTerminal /\ DepsOk(disk, n) /\ mem.node[n] \in ResultStatus
        /\ mem.node[n] \in NodeTerminal
    BY <1>1, <1>6 DEF VerdictInv, NextSave, Unsaved, UndoUnsaved, Saved
  <2>2. \A d \in Deps[n] : OutOf(disk)[d] = "completed"
    <3>1. \A d \in Node : disk.node[d] # "compensated"
      BY <2>1 DEF VerdictInv, UndoneWhenSettled, Settled
    <3>2. QED
      BY <2>1, <3>1, PlanAssumption, Statuses DEF DepsOk, OkStatus, OutOf, ValidPlan
  <2>3. OutOf(disk') = [OutOf(disk) EXCEPT ![n] = mem.node[n]]
    <3>1. \A m \in Node : m # n => OutOf(mem)[m] = OutOf(disk)[m]
      BY <1>3, <1>4 DEF OutOf
    <3>2. OutOf(mem)[n] = mem.node[n]
      BY <2>1 DEF OutOf
    <3>3. /\ OutOf(mem) = [m \in Node |-> OutOf(mem)[m]]
          /\ OutOf(disk) = [m \in Node |-> OutOf(disk)[m]]
      BY DEF OutOf
    <3>4. QED
      BY <1>1, <3>1, <3>2, <3>3
  <2>4. PICK o \in Task!Outcome : o = mem.node[n] /\ o \in {"completed"} \cup Task!Bad
    BY <2>1 DEF Task!Bad, Task!Outcome, ResultStatus
  <2>5. Task!Settle(n, o)
    BY <1>2, <2>1, <2>2, <2>3, <2>4, PendingIsOpen DEF Task!Settle, OutOf
  <2>6. QED
    BY <2>4, <2>5
<1>7. QED
  BY <1>5, <1>6

LEMMA TaskUndo ==
    ASSUME CoreInv, VerdictInv, NEW n \in Node, SaveUndone(n)
    PROVE  Task!CancelUndo(n)
<1>1. pc = "undone" /\ IsLast(n, todo) /\ disk' = mem /\ todo \subseteq Node
  BY DEF SaveUndone, CoreInv, TypeInv, TypeOK
<1>2. disk.status \notin TaskTerminal /\ disk'.status \notin TaskTerminal
  BY <1>1 DEF VerdictInv, OpenWhileRun
<1>3. mem.node[n] = "compensated" /\ disk.node[n] = "completed" /\ Settled(mem)
  BY <1>1 DEF VerdictInv, PassedIsUndone, EndSettled
<1>4. \A m \in Node : m # n => \/ disk.node[m] = mem.node[m]
                               \/ disk.node[m] \notin NodeTerminal /\ mem.node[m] = "cancelled"
  BY <1>1, <1>3, OneEnd DEF VerdictInv, NextSave, Saved, Unsaved, UndoUnsaved, Settled
<1>5. OutOf(disk') = [Task!CancelPending EXCEPT ![n] = "compensated"]
  <2>1. ASSUME NEW m \in Node, m # n PROVE OutOf(mem)[m] = Task!CancelPending[m]
    BY <2>1, <1>3, <1>4, TaskView, PendingIsOpen DEF OutOf, Settled
  <2>2. OutOf(mem)[n] = "compensated"
    BY <1>3 DEF OutOf, NodeTerminal
  <2>3. /\ OutOf(mem) = [m \in Node |-> OutOf(mem)[m]]
        /\ Task!CancelPending = [m \in Node |-> Task!CancelPending[m]]
    BY TaskView DEF OutOf
  <2>4. QED
    BY <1>1, <2>1, <2>2, <2>3
<1>6. OutOf(disk)[n] = "completed"
  BY <1>3, Statuses DEF OutOf
<1>7. QED
  BY <1>2, <1>5, <1>6 DEF Task!CancelUndo, OutOf

LEMMA TaskClose ==
    ASSUME CoreInv, VerdictInv, CloseRun
    PROVE  Task!Cancel \/ \E v \in {"completed", "failed"} : Task!Conclude(v)
<1> DEFINE t == SetStatus(mem, verdict)
<1>1. /\ pc = "close" /\ verdict \in {"failed", "cancelled", "completed"} /\ Settled(mem)
      /\ disk.status \notin TaskTerminal
  BY DEF CloseRun, VerdictInv, VerdictOfMem, EndSettled, OpenWhileRun
<1>2. t.status = verdict /\ t.node = mem.node
  BY <1>1, StatusType DEF CoreInv, TypeInv, TypeOK, TaskTerminal
<1>3. disk' = t
  BY DEF CloseRun, Return
<1> HIDE DEF t
<1>4. VerdictOf(disk') = verdict /\ OutOf(disk') = OutOf(mem)
  BY <1>1, <1>2, <1>3 DEF VerdictOf, OutOf, TaskTerminal
<1>5. \A n \in Node : \/ disk.node[n] = mem.node[n]
                      \/ /\ disk.node[n] \notin NodeTerminal /\ mem.node[n] = "cancelled"
                         /\ verdict = "cancelled"
  BY <1>1 DEF VerdictInv, NextSave, Saved, Unsaved, UndoUnsaved, Settled
<1>6. CASE verdict = "cancelled"
  <2>1. OutOf(mem) = Task!CancelPending
    <3>1. \A n \in Node : OutOf(mem)[n] = Task!CancelPending[n]
      BY <1>1, <1>5, TaskView, PendingIsOpen DEF OutOf, Settled
    <3>2. /\ OutOf(mem) = [m \in Node |-> OutOf(mem)[m]]
          /\ Task!CancelPending = [m \in Node |-> Task!CancelPending[m]]
      BY TaskView DEF OutOf
    <3>3. QED
      BY <3>1, <3>2
  <2>2. QED
    BY <1>4, <1>6, <2>1 DEF Task!Cancel, OutOf, VerdictOf
<1>7. CASE verdict # "cancelled"
  <2>1. \A n \in Node : disk.node[n] = mem.node[n] /\ disk.node[n] \in NodeTerminal
    BY <1>1, <1>5, <1>7 DEF Settled
  <2>2. OutOf(mem) = OutOf(disk)
    BY <2>1 DEF OutOf
  <2>3. Task!Pending = {}
    BY <2>1, TaskView, PendingIsOpen
  <2>4. verdict = IF \E n \in Task!Node : OutOf(disk)[n] \in {"failed", "blocked"}
                  THEN "failed" ELSE "completed"
    BY <1>1, <1>7, <2>1, TaskView, PendingIsOpen DEF VerdictInv, VerdictOfMem, SomeNode
  <2>5. PICK v \in {"completed", "failed"} : v = verdict
    BY <1>1, <1>7
  <2>6. Task!Conclude(v)
    BY <1>4, <2>2, <2>3, <2>4, <2>5 DEF Task!Conclude, OutOf, VerdictOf
  <2>7. QED
    BY <2>6
<1>8. QED
  BY <1>6, <1>7

\* Every step of the runner, its pool and a crash is one of DagTask or none.
LEMMA TaskNext ==
    CoreInv /\ BudgetInv /\ VerdictInv /\ [Next]_vars => [Task!Next]_Task!vars
<1> SUFFICES ASSUME CoreInv, BudgetInv, VerdictInv, [Next]_vars PROVE [Task!Next]_Task!vars
  OBVIOUS
<1>o. pc # "idle" => VerdictOf(disk) = "open"
  BY DEF VerdictInv, OpenWhileRun, VerdictOf
<1>s. disk' = disk => UNCHANGED Task!vars
  BY TaskStutter
<1>1. ASSUME NEW lim \in Limits, NEW cancel \in CancelRequests, StartRun(lim, cancel)
      PROVE  UNCHANGED Task!vars
  <2>1. CASE disk.status = "absent"
    <3>1. disk' = EmptyTask("running")
      BY <1>1, <2>1 DEF StartRun, LoadOrCreate
    <3>2. QED
      BY <2>1, <3>1, TaskStutter, Statuses
         DEF EmptyTask, CoreInv, AbsentIsEmpty, TaskTerminal, NodeTerminal
  <2>2. QED
    BY <1>1, <1>s, <2>1 DEF StartRun
<1>2. CASE SelectBatch
  <2>1. PICK S \in SUBSET Node : Task!Skip(S)
    BY <1>2, TaskSkip
  <2>2. QED
    BY <1>2, <1>o, <2>1, TaskView DEF SelectBatch, Task!Next, VerdictOf
<1>3. CASE SaveLaunched
  <2>1. /\ pc = "launched" /\ disk' = mem
        /\ disk.status \notin TaskTerminal /\ mem.status \notin TaskTerminal
    BY <1>3 DEF SaveLaunched, VerdictInv, OpenWhileRun
  <2>2. \A n \in Node : Saved(n)
    BY <2>1 DEF VerdictInv, NextSave, Unsaved, UndoUnsaved
  <2>3. \A n \in Node : mem.node[n] = disk.node[n]
                        \/ (mem.node[n] \notin NodeTerminal /\ disk.node[n] \notin NodeTerminal)
    BY <2>2, Statuses DEF CoreInv, MemAhead, Onward, Saved
  <2>4. QED
    BY <2>1, <2>3, TaskStutter
<1>4. ASSUME NEW n \in Node, SaveCollected(n) PROVE [Task!Next]_Task!vars
  <2>1. pc # "idle"
    BY <1>4 DEF SaveCollected
  <2>2. CASE UNCHANGED Task!vars
    BY <2>2
  <2>3. CASE \E o \in Task!Outcome : Task!Settle(n, o)
    BY <1>o, <2>1, <2>3, TaskView DEF Task!Next, VerdictOf
  <2>4. QED
    BY <1>4, <2>2, <2>3, TaskSettle
<1>5. CASE PauseRun
  <2>1. /\ pc = "pause" /\ disk' = SetStatus(mem, "paused") /\ disk.status \notin TaskTerminal
    BY <1>5 DEF PauseRun, Return, VerdictInv, OpenWhileRun
  <2>2. SetStatus(mem, "paused").node = mem.node /\ SetStatus(mem, "paused").status = "paused"
    BY StatusType DEF CoreInv, TypeInv, TypeOK
  <2>3. \A n \in Node : Saved(n)
    BY <2>1 DEF VerdictInv, NextSave, Unsaved, UndoUnsaved
  <2>4. \A n \in Node : mem.node[n] = disk.node[n]
                        \/ (mem.node[n] \notin NodeTerminal /\ disk.node[n] \notin NodeTerminal)
    BY <2>3, Statuses DEF CoreInv, MemAhead, Onward, Saved
  <2>5. QED
    BY <2>1, <2>2, <2>4, TaskStutter DEF TaskTerminal
<1>6. ASSUME NEW n \in Node, SaveUndone(n) PROVE [Task!Next]_Task!vars
  <2>1. pc # "idle"
    BY <1>6 DEF SaveUndone
  <2>2. Task!CancelUndo(n)
    BY <1>6, TaskUndo
  <2>3. QED
    BY <1>o, <2>1, <2>2, TaskView DEF Task!Next, VerdictOf
<1>7. CASE CloseRun
  <2>1. pc # "idle"
    BY <1>7 DEF CloseRun
  <2>2. Task!Cancel \/ \E v \in {"completed", "failed"} : Task!Conclude(v)
    BY <1>7, TaskClose
  <2>3. QED
    BY <1>o, <2>1, <2>2 DEF Task!Next, VerdictOf
<1>8. CASE UNCHANGED vars
  BY <1>8, <1>s DEF vars
<1>9. QED
  BY <1>1, <1>2, <1>3, <1>4, <1>5, <1>6, <1>7, <1>8, <1>s
     DEF Next, RunnerStep, PoolStep, RefreshNode, LaunchNode, StartCall, FinishCall,
         FinishAbandoned, CollectResult, CollectException, CollectTimeout, Conclude, SkipUndo,
         UndoNode, UndoFails, UndoEnds, Crash, Return

\* For every plan in order: the checkpoint behaves as DagTask, through crashes,
\* retries, pauses and rollbacks.
THEOREM ImplementsDagTaskHolds ==
    ASSUME InOrder
    PROVE  Spec => ImplementsDagTask
  BY TaskInit, TaskNext, CoreCorrect, BudgetCorrect, VerdictCorrect, PTL
     DEF Spec, Task!Spec, ImplementsDagTask

=============================================================================
