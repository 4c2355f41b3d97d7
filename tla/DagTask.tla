------------------------------ MODULE DagTask ------------------------------
(***************************************************************************)
(* What a durable DAG task promises to a reader of its checkpoint, with no *)
(* memory, pool, batch or crash in sight: a node settles once, and only on *)
(* top of completed dependencies; a node under a bad dependency is         *)
(* skipped; completed work is undone only when nothing is left to do; the  *)
(* verdict is given once.  DurableDag implements it for plans listed in    *)
(* dependency order.                                                       *)
(***************************************************************************)
EXTENDS Integers

CONSTANTS NumNodes, Deps

Node == 1..NumNodes
Bad == {"failed", "blocked", "cancelled"}
Outcome == {"pending", "completed", "compensated"} \cup Bad

VARIABLES
    out,     \* out[n]: what the checkpoint says became of node n
    verdict  \* "open" until the task has a final status

vars == <<out, verdict>>

Init ==
    /\ out = [n \in Node |-> "pending"]
    /\ verdict = "open"

Pending == {n \in Node : out[n] = "pending"}

Settle(n, o) ==
    /\ out[n] = "pending"
    /\ \A d \in Deps[n] : out[d] = "completed"
    /\ o \in {"completed"} \cup Bad
    /\ out' = [out EXCEPT ![n] = o]
    /\ UNCHANGED verdict

\* Several nodes at once: a chain under one bad node is skipped together.
Skip(S) ==
    /\ S \subseteq Pending
    /\ out' = [n \in Node |-> IF n \in S THEN "blocked" ELSE out[n]]
    /\ \A n \in S : \E d \in Deps[n] : out'[d] \in Bad
    /\ UNCHANGED verdict

Undo(n) ==
    /\ Pending = {}
    /\ \E m \in Node : out[m] \in Bad
    /\ out[n] = "completed"
    /\ out' = [out EXCEPT ![n] = "compensated"]
    /\ UNCHANGED verdict

CancelPending == [n \in Node |-> IF n \in Pending THEN "cancelled" ELSE out[n]]

\* The first undo of a cancelled task makes the cancellation durable too.
CancelUndo(n) ==
    /\ out[n] = "completed"
    /\ out' = [CancelPending EXCEPT ![n] = "compensated"]
    /\ UNCHANGED verdict

Cancel ==
    /\ out' = CancelPending
    /\ verdict' = "cancelled"

Conclude(v) ==
    /\ Pending = {}
    /\ v = IF \E n \in Node : out[n] \in {"failed", "blocked"} THEN "failed" ELSE "completed"
    /\ verdict' = v
    /\ UNCHANGED out

Next ==
    /\ verdict = "open"
    /\ \/ \E n \in Node : Undo(n) \/ CancelUndo(n) \/ \E o \in Outcome : Settle(n, o)
       \/ \E S \in SUBSET Node : Skip(S)
       \/ Cancel
       \/ \E v \in {"completed", "failed"} : Conclude(v)

Spec == Init /\ [][Next]_vars
=============================================================================
