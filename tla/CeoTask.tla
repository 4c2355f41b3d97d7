------------------------------ MODULE CeoTask ------------------------------
(***************************************************************************)
(* The life of one task id: RuntimeCommandGateway (ceo_api.py) accepts a   *)
(* command and runs it through GroupOrchestrator.run (orchestrator.py),    *)
(* which moves the executive task (executive.py) from state to state and   *)
(* persists each one, first as an event and then as a checkpoint.  The     *)
(* same task id may also reach the orchestrator from the command line and  *)
(* from a caller that resumes it.                                          *)
(*                                                                         *)
(* The DAG is one step here: DurableDag models what happens inside it.     *)
(***************************************************************************)
EXTENDS Integers, FiniteSets

CONSTANTS
    Submission,   \* commands for this task id that reach the gateway
    CliRun,       \* processes of `run-task --task-id`
    Resumption,   \* calls of run(resume=True)
    Hasty,        \* resumptions that do not wait for other runs to be over
    Pausing,      \* runs called with max_new_terminal_nodes
    MaxCrashes    \* bound: process crashes

Run == Submission \cup CliRun \cup Resumption

ASSUME TaskAssumption ==
    /\ Submission \cap CliRun = {}
    /\ Resumption \cap (Submission \cup CliRun) = {}
    /\ Hasty \subseteq Resumption
    /\ Pausing \subseteq Run \ Submission
    /\ MaxCrashes \in Nat

\* EXECUTIVE_STATES that end a task.
Final == {"human_report", "blocked", "failed"}

\* What _persist is called for.  A stage is a state of the task, or an event
\* that leaves the state as it is; FollowUp is the order of the stages in run,
\* where nothing has to be decided.
FollowUp ==
    [human_command     |-> "ceo_intake",
     ceo_intake        |-> "clarify_or_accept",
     clarify_or_accept |-> "decompose",
     decompose         |-> "route",
     route             |-> "execute",
     return            |-> "verify",
     verified          |-> "aggregate",
     aggregate         |-> "human_report"]
Stage == DOMAIN FollowUp \cup Final \cup {"execute", "paused", "verify"}
State ==
    {"human_command", "ceo_intake", "clarify_or_accept", "decompose", "route", "execute",
     "return", "verify", "aggregate"} \cup Final

StateOf(s) ==
    IF s = "verified" THEN "verify" ELSE IF s = "paused" THEN "execute" ELSE s

VARIABLES
    ledger,      \* stages that have an event in the task ledger
    checkpoint,  \* state in the task's checkpoint, "none" before the first
    dag,         \* outcome in the checkpoint of the DAG
    record,      \* the gateway's _records entry of the task
    company,     \* status of the task in the company event stream
    pc,          \* pc[r]: where run r is
    stage,       \* stage[r]: the stage r has reached in memory
    outcome,     \* outcome[r]: the DAG outcome r was given
    accepted,    \* accepted[r]: verdict of the acceptance validator
    \* History, read by properties only:
    crashes,     \* crashes so far
    executions   \* runs that have begun to execute the DAG

durable == <<ledger, checkpoint, dag, company>>
result == <<stage, outcome, accepted>>
vars == <<durable, record, pc, result, crashes, executions>>

Outcome == {"completed", "failed", "blocked"}
Place == {"new", "queued", "check", "persist", "write", "dag", "executing", "ended", "announce",
          "done", "rejected", "dead"}
Live(r) == pc[r] \notin {"new", "done", "rejected", "dead"}

Init ==
    /\ ledger = {}
    /\ checkpoint = "none"
    /\ dag = "none"
    /\ record = "none"
    /\ company = "none"
    /\ pc = [r \in Run |-> "new"]
    /\ stage = [r \in Run |-> "none"]
    /\ outcome = [r \in Run |-> "none"]
    /\ accepted = [r \in Run |-> FALSE]
    /\ crashes = 0
    /\ executions = {}

Move(r, place) == pc' = [pc EXCEPT ![r] = place]
Reach(r, s) == stage' = [stage EXCEPT ![r] = s]

-----------------------------------------------------------------------------
\* submit, under the gateway's lock.
\* Mutated form: a task counts as existing when it is finished.
ExistingFinal == checkpoint \in Final
Existing == checkpoint # "none" \/ ledger # {}

\* Mutated form: after a restart the gateway has not seen the task.
KnownInMemory == record # "none"
Known == record # "none" \/ Existing

Submit(r) ==
    /\ r \in Submission /\ pc[r] = "new"
    /\ IF Known
       THEN Move(r, "rejected") /\ UNCHANGED <<record, company>>
       ELSE Move(r, "queued") /\ record' = "accepted" /\ company' = "planning"
    /\ UNCHANGED <<ledger, checkpoint, dag, result, crashes, executions>>

\* The pool has one worker.
StartWork(r) ==
    /\ r \in Submission /\ pc[r] = "queued"
    /\ \A s \in Submission : pc[s] \in {"new", "queued", "done", "rejected", "dead"}
    /\ record' = "running"
    /\ company' = "planning"   \* working, then planning with routing.decided
    /\ Move(r, "check")
    /\ UNCHANGED <<ledger, checkpoint, dag, result, crashes, executions>>

StartCli(r) ==
    /\ r \in CliRun /\ pc[r] = "new"
    /\ Move(r, "check")
    /\ UNCHANGED <<durable, record, result, crashes, executions>>

\* Somebody resumes a task that a crash or a pause has left behind.  Nothing in
\* run makes a caller wait until the other runs of the task are over.
StartResumption(r) ==
    /\ r \in Resumption /\ pc[r] = "new"
    /\ ledger # {}
    /\ r \in Hasty \/ \A s \in Run : ~Live(s)
    /\ Move(r, "check")
    /\ UNCHANGED <<durable, record, result, crashes, executions>>

\* An exception: the gateway reports it, other callers see it themselves.
Raise(r) == Move(r, IF r \in Submission THEN "ended" ELSE "rejected")

\* The checks of run before it writes anything.  They refuse a task that exists,
\* and a command without an instruction, a capability of the graph, an acceptance
\* criterion or a plan that is a DAG, which submit has accepted.
CheckNew(r) ==
    /\ pc[r] = "check" /\ r \notin Resumption
    /\ \/ Raise(r) /\ Reach(r, "failed")
       \/ ~Existing /\ Move(r, "persist") /\ Reach(r, "human_command")
    /\ UNCHANGED <<durable, record, outcome, accepted, crashes, executions>>

\* A caller that resumes the task names the command it was given with.
\* Mutated form: only a run that was paused is resumed.
ResumablePaused == checkpoint = "execute" /\ "paused" \in ledger
Resumable == checkpoint = "execute"

CheckResumption(r) ==
    /\ pc[r] = "check" /\ r \in Resumption
    /\ IF Resumable
       THEN Move(r, "dag") /\ Reach(r, "execute")
       ELSE Raise(r) /\ UNCHANGED stage
    /\ UNCHANGED <<durable, record, outcome, accepted, crashes, executions>>

-----------------------------------------------------------------------------
\* The two halves of _persist.
\* Mutated form: the checkpoint is written first.
PersistEventLate(r) ==
    /\ pc[r] = "persist"
    /\ checkpoint' = StateOf(stage[r])
    /\ Move(r, "write")
    /\ UNCHANGED <<ledger, dag, company, record, result, crashes, executions>>

PersistEvent(r) ==
    /\ pc[r] = "persist"
    /\ ledger' = ledger \cup {stage[r]}
    /\ Move(r, "write")
    /\ UNCHANGED <<checkpoint, dag, company, record, result, crashes, executions>>

\* Where a run goes once a stage is persisted.
\* Mutated form: nodes that are not completed do not block the task.
VerifiedUnblocked(r) == accepted[r]
Verified(r) == outcome[r] = "completed" /\ accepted[r]

Successor(r) ==
    IF stage[r] = "verify" THEN IF Verified(r) THEN "verified" ELSE "blocked"
    ELSE FollowUp[stage[r]]

PersistCheckpoint(r) ==
    /\ pc[r] = "write"
    /\ checkpoint' = StateOf(stage[r])
    /\ IF stage[r] \in Final \cup {"paused"}
       THEN Move(r, "ended") /\ UNCHANGED stage
       ELSE IF stage[r] = "execute"
       THEN Move(r, "dag") /\ UNCHANGED stage
       ELSE Move(r, "persist") /\ Reach(r, Successor(r))
    /\ UNCHANGED <<ledger, dag, company, record, outcome, accepted, crashes, executions>>

\* Without an outcome in its checkpoint the DAG executes, alongside any other
\* run that executes it.
BeginDag(r) ==
    /\ pc[r] = "dag" /\ dag = "none"
    /\ executions' = executions \cup {r}
    /\ Move(r, "executing")
    /\ UNCHANGED <<durable, record, result, crashes>>

PauseDag(r) ==
    /\ pc[r] = "executing" /\ r \in Pausing
    /\ Move(r, "persist") /\ Reach(r, "paused")
    /\ UNCHANGED <<durable, record, outcome, accepted, crashes, executions>>

\* The DAG comes to an outcome, or has one from an earlier run.  A failed node
\* fails the task, a blocked one is left to the verification.
EndDag(r, o) ==
    /\ pc[r] = "executing" \/ (pc[r] = "dag" /\ dag = o)
    /\ dag' = o
    /\ outcome' = [outcome EXCEPT ![r] = o]
    /\ \E verdict \in BOOLEAN : accepted' = [accepted EXCEPT ![r] = verdict]
    /\ Move(r, "persist")
    /\ Reach(r, IF o = "failed" THEN "failed" ELSE "return")
    /\ UNCHANGED <<ledger, checkpoint, company, record, crashes, executions>>

-----------------------------------------------------------------------------
\* What _execute does with the result or the exception.
\* Mutated form: an exception leaves the record running.
RecordResultOnly(r) ==
    /\ pc[r] = "ended"
    /\ stage[r] # "failed"
    /\ record' = IF r \in Submission THEN stage[r] ELSE record
    /\ Move(r, IF r \in Submission THEN "announce" ELSE "done")
    /\ UNCHANGED <<durable, result, crashes, executions>>

RecordResult(r) ==
    /\ pc[r] = "ended"
    /\ record' = IF r \in Submission THEN stage[r] ELSE record
    /\ Move(r, IF r \in Submission THEN "announce" ELSE "done")
    /\ UNCHANGED <<durable, result, crashes, executions>>

TerminalStatus(s) == IF s \in {"blocked", "failed"} THEN s ELSE "completed"

Announce(r) ==
    /\ pc[r] = "announce"
    /\ company' = TerminalStatus(record)
    /\ Move(r, "done")
    /\ UNCHANGED <<ledger, checkpoint, dag, record, result, crashes, executions>>

\* The gateway's process and each command-line or resuming process can die.
Crash(dead) ==
    /\ \E r \in dead : Live(r)
    /\ crashes < MaxCrashes
    /\ crashes' = crashes + 1
    /\ pc' = [r \in Run |-> IF r \in dead /\ Live(r) THEN "dead" ELSE pc[r]]
    /\ record' = IF dead = Submission THEN "none" ELSE record
    /\ UNCHANGED <<durable, result, executions>>

RunStep(r) ==
    \/ StartWork(r) \/ CheckNew(r) \/ CheckResumption(r)
    \/ PersistEvent(r) \/ PersistCheckpoint(r)
    \/ BeginDag(r) \/ PauseDag(r)
    \/ \E o \in Outcome : EndDag(r, o)
    \/ RecordResult(r) \/ Announce(r)

Next ==
    \/ \E r \in Run : Submit(r) \/ StartCli(r) \/ StartResumption(r) \/ RunStep(r)
    \/ Crash(Submission)
    \/ \E r \in CliRun \cup Resumption : Crash({r})

Spec == Init /\ [][Next]_vars

\* Every thread is scheduled, and every DAG run returns (EveryTaskSettles of
\* DurableDag); an interrupted task is resumed while there is a caller for it.
FairSpec ==
    /\ Spec
    /\ \A r \in Run : WF_vars(RunStep(r))
    /\ \A r \in Resumption : WF_vars(StartResumption(r))

-----------------------------------------------------------------------------
TypeOK ==
    /\ ledger \subseteq Stage
    /\ checkpoint \in State \cup {"none"}
    /\ dag \in Outcome \cup {"none"}
    /\ record \in Stage \cup {"none", "accepted", "running"}
    /\ company \in {"none", "planning", "completed", "blocked", "failed"}
    /\ pc \in [Run -> Place]
    /\ stage \in [Run -> Stage \cup {"none"}]
    /\ outcome \in [Run -> Outcome \cup {"none"}]
    /\ accepted \in [Run -> BOOLEAN]
    /\ crashes \in Nat
    /\ executions \subseteq Run

\* The event of a state is on disk before the checkpoint says so: the ledger
\* explains every checkpoint a restart may find (the order in _persist).
LedgerExplainsCheckpoint ==
    checkpoint # "none" => \E s \in ledger : StateOf(s) = checkpoint

\* Runs follow one another: no command-line process and no impatient resumption
\* has come in beside the gateway.
OneAtATime == \A r \in CliRun \cup Hasty : pc[r] = "new"

\* Where runs follow one another:
\* a task is reported to the human as completed only over a DAG that completed
\* and results that passed the acceptance validator, also when another process
\* resumed it.
ReportIsEarned ==
    OneAtATime /\ checkpoint = "human_report" =>
        /\ dag = "completed"
        /\ \E r \in Run :
              stage[r] = "human_report" /\ outcome[r] = "completed" /\ accepted[r]

\* What the company event stream tells the human about the end of a task is
\* what the checkpoint says, and it stays so, where runs follow one another: only
\* a command that the checks of run refused fails without a checkpoint, and it
\* has left no event of a task either.
NothingBegun == checkpoint = "none" /\ ledger = {}
AnnouncedTruly ==
    OneAtATime =>
        /\ company = "completed" => checkpoint = "human_report"
        /\ company = "blocked" => checkpoint = "blocked"
        /\ company = "failed" => checkpoint = "failed" \/ NothingBegun

\* The three records of a task agree: the ledger explains the checkpoint, the
\* report in the checkpoint is earned, and the event stream announces it truly.
RecordsAgree == LedgerExplainsCheckpoint /\ ReportIsEarned /\ AnnouncedTruly

\* One command executes once: whatever is submitted again, before or after a
\* crash, only a resumption executes the same task again.
ExecutedOnce == OneAtATime => Cardinality(executions \ Resumption) <= 1

\* A command the gateway has accepted ends with a report to the human, whoever
\* else runs the task, unless a process crashes.
EveryCommandReported ==
    (\E r \in Submission : pc[r] = "queued")
        ~> crashes > 0 \/ company \in {"completed", "blocked", "failed"}

\* A task that a crash or a pause has left in execute is taken out of it by a
\* resumption, unless every caller that resumes it is cut short too.
InterruptedIsResumed ==
    checkpoint = "execute" ~>
        \/ checkpoint # "execute"
        \/ \A r \in Resumption : pc[r] = "dead" \/ stage[r] = "paused"

=============================================================================
