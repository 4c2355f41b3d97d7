---------------------------- MODULE NovelChapter ----------------------------
(***************************************************************************)
(* One chapter from request to accepted artifact (novel_mvp.py): submit    *)
(* and resume run four nodes in a chain (context, draft, quality,          *)
(* artifact) through the durable runner, keep a registry entry beside the  *)
(* spine, and register the accepted chapter with the spine and with the    *)
(* economic ledger, which refuses a known key with another payload         *)
(* (economic_ledger.py).  The process may die between any two writes.      *)
(*                                                                         *)
(* The chain leaves one node to run at a time, so a task is the number of  *)
(* its completed nodes and a flag for a failed one; DurableDag has the     *)
(* runner in full, StateSpine the spine.  Calls of submit and resume on    *)
(* one task do not overlap here, so a call is named by its task; calls on  *)
(* different tasks do overlap, and share the ledger.  The service has been *)
(* given an economic ledger; without one the artifact node ends after its  *)
(* evidence.                                                               *)
(***************************************************************************)
EXTENDS Naturals, Sequences, FiniteSets

CONSTANTS
    Task,        \* task ids, one chapter each, all of one work
    Shared,      \* tasks under one group root; any other has a root of its own
    EvidenceKind,\* what is registered beside an artifact: request, context, draft, quality
    Disturbed,   \* bound: tasks that are paused, and whose request file may be changed
    MaxSeconds,  \* bound: the clock, in seconds, ticks that often
    MaxFaults    \* bound: crashes and changes of request files

ASSUME ChapterAssumption ==
    /\ Shared \subseteq Task /\ Disturbed \subseteq Task /\ IsFiniteSet(EvidenceKind)
    /\ MaxSeconds \in Nat /\ MaxFaults \in Nat

None == 0
Chain == <<"novel-context", "novel-draft", "novel-quality", "novel-artifact">>
Final == {"completed", "failed"}

VARIABLES
    request,   \* request[t]: t's request file as it was submitted, another one that
               \* is valid too, or one that is not (or is gone)
    run,       \* run[t]: "unbound" if the spine has only the file of t's run, "bound" if
               \* the department and the task are bound to it
    registry,  \* registry[t]: the bookkeeping file of t; "open" is submitted or paused,
               \* "torn" a file that cannot be read
    disk,      \* disk[t]: t's checkpoint; "open" is running or paused
    store,     \* store[t]: the accepted contents registered for t, in order
    evidence,  \* evidence[t]: <<artifact, kind>> registered for t
    ledger,    \* the economic ledger: payload per idempotency key
    second,    \* authoritative_timestamp, which counts seconds
    at,        \* at[t]: where the call on t is
    mem,       \* mem[t]: the task state it works on
    tries,     \* contexts and drafts made for t, to tell one from another
    crashes,
    swapped    \* tasks whose request was changed while a call was on (history)

world == <<request, swapped>>
vars == <<world, run, registry, disk, store, evidence, ledger, second, at, mem, tries,
          crashes>>

NoDraft == [no |-> None, context |-> None, request |-> "submitted", sound |-> FALSE]
NewTask ==
    [status |-> "absent", done |-> 0, bad |-> FALSE,
     context |-> None, draft |-> NoDraft, artifact |-> None]
NoEntry == [status |-> "none", accepted |-> None]
TornEntry == [status |-> "torn", accepted |-> None]

Init ==
    /\ request = [t \in Task |-> "submitted"] /\ swapped = {}
    /\ run = [t \in Task |-> "none"]
    /\ registry = [t \in Task |-> NoEntry]
    /\ disk = [t \in Task |-> NewTask]
    /\ store = [t \in Task |-> <<>>]
    /\ evidence = [t \in Task |-> {}]
    /\ ledger = << >>
    /\ second = 0
    /\ at = [t \in Task |-> "idle"]
    /\ mem = [t \in Task |-> NewTask]
    /\ tries = [t \in Task |-> 0]
    /\ crashes = 0

-----------------------------------------------------------------------------
Go(t, step) == at' = [at EXCEPT ![t] = step]

\* validate_novel_mvp_request, of the file the reference names, each time it is
\* read.
Valid(t) == request[t] # "bad"

\* submit: refused when the request is not valid or the run's file exists.
Submit(t) ==
    /\ at[t] = "idle" /\ Valid(t) /\ run[t] = "none"
    /\ Go(t, "create")
    /\ UNCHANGED <<world, run, registry, disk, store, evidence, ledger, second, mem, tries, crashes>>

\* The department of the root names the run of another task.
BoundElsewhere(t) == t \in Shared /\ \E u \in Shared \ {t} : run[u] = "bound"

\* create_run writes the file of the run, and then registers the department, which
\* is refused when another run has it; the file stays.
CreateRun(t) ==
    /\ at[t] = "create"
    /\ run' = [run EXCEPT ![t] = "unbound"]
    /\ Go(t, IF BoundElsewhere(t) THEN "idle" ELSE "bind")
    /\ UNCHANGED <<world, registry, disk, store, evidence, ledger, second, mem, tries, crashes>>

\* The department file and register_task, unless submit, which registers the
\* department once more, now finds it bound by a call beside this one.
BindRun(t) ==
    /\ at[t] = "bind"
    /\ \/ Go(t, "registry") /\ run' = [run EXCEPT ![t] = "bound"]
       \/ BoundElsewhere(t) /\ Go(t, "idle") /\ UNCHANGED run
    /\ UNCHANGED <<world, registry, disk, store, evidence, ledger, second, mem, tries, crashes>>

SaveRegistry(t) ==
    /\ at[t] = "registry"
    /\ registry' = [registry EXCEPT ![t] = [status |-> "open", accepted |-> None]]
    /\ Go(t, "load")
    /\ UNCHANGED <<world, run, disk, store, evidence, ledger, second, mem, tries, crashes>>

-----------------------------------------------------------------------------
\* The runner over the four nodes.

\* Mutated form: a task that is not final is begun anew.
LoadedAnew(t) ==
    IF disk[t].status \in Final THEN disk[t] ELSE [NewTask EXCEPT !.status = "open"]
Loaded(t) ==
    IF disk[t].status = "absent" THEN [NewTask EXCEPT !.status = "open"] ELSE disk[t]

\* _load_or_create; a call on a task that is over goes no further.
Load(t) ==
    /\ disk' = [disk EXCEPT ![t] = Loaded(t)]
    /\ mem' = [mem EXCEPT ![t] = Loaded(t)]
    /\ Go(t, IF Loaded(t).status \in Final THEN "update" ELSE "loop")
    /\ UNCHANGED <<world, run, registry, store, evidence, ledger, second, tries, crashes>>

Start(t) == at[t] = "load" /\ Load(t)

\* Mutated form: resume takes any request that is valid.
SameAsValid(t) == Valid(t)
\* The hash of the request is the one submit put into the registry.
SameRequest(t) == request[t] = "submitted"

\* _load_registry finds nothing in a file that is not there or cannot be read.
Readable(t) == registry[t].status \notin {"none", "torn"}

\* resume: refused without a registry entry, and for a changed request.
Resume(t) ==
    /\ at[t] = "idle" /\ Readable(t)
    /\ SameRequest(t)
    /\ Load(t)

Turn(t, node) ==
    /\ at[t] = "loop" /\ ~mem[t].bad
    /\ mem[t].done < Len(Chain) /\ Chain[mem[t].done + 1] = node

\* _resolve_request: every node reads the request anew, and raises if it is not
\* valid; that it is the one submitted is not asked.
Reads(t, node) == Turn(t, node) /\ Valid(t)

\* The checkpoint after a node, and the pause when the caller's limit on
\* terminal nodes is reached, which can be at any of them.
Save(t, m) ==
    /\ mem' = [mem EXCEPT ![t] = m]
    /\ disk' = [disk EXCEPT ![t] = m]
    /\ \/ Go(t, "loop")
       \/ t \in Disturbed /\ Go(t, "update")

Completed(m) == [m EXCEPT !.done = @ + 1]
\* Blocked, or raised at its only attempt: what comes after it is blocked, and
\* the results of the nodes before it are kept but not read any more; here they
\* are forgotten, with their number, unless the artifact node may have cited them.
Broken(m) ==
    IF m.done < 3 THEN [NewTask EXCEPT !.status = m.status, !.bad = TRUE]
    ELSE [m EXCEPT !.bad = TRUE, !.artifact = None]

\* The first three nodes leave nothing behind but their result, so each is one
\* step with the checkpoint that follows it.

\* _run_context: the knowledge base answers, and what it answers may differ
\* from one query to the next; or it blocks.
RunContext(t) ==
    /\ Reads(t, "novel-context")
    /\ \/ /\ tries' = [tries EXCEPT ![t] = @ + 1]
          /\ Save(t, Completed([mem[t] EXCEPT !.context = tries'[t]]))
       \/ Save(t, Broken(mem[t])) /\ UNCHANGED tries
    /\ UNCHANGED <<world, run, registry, store, evidence, ledger, second, crashes>>

\* A draft of the provider: it names the context it was written from, and is
\* sound when its text passes every check of the request it was written for.
Draft(t, context, sound) ==
    [no |-> tries[t] + 1, context |-> context, request |-> request[t], sound |-> sound]
Drafts(t) ==
    {Draft(t, mem[t].context, TRUE), Draft(t, mem[t].context, FALSE), Draft(t, None, TRUE)}

\* _run_draft: an empty draft or one out of the length limits is blocked here.
RunDraft(t) ==
    /\ Reads(t, "novel-draft")
    /\ \/ /\ tries' = [tries EXCEPT ![t] = @ + 1]
          /\ \E d \in Drafts(t) : Save(t, Completed([mem[t] EXCEPT !.draft = d]))
       \/ Save(t, Broken(mem[t])) /\ UNCHANGED tries
    /\ UNCHANGED <<world, run, registry, store, evidence, ledger, second, crashes>>

\* Checks 1, 2 and 9: the draft names the context the task was given.  The hash
\* of the package is the same for every context of a task; the hashes of the
\* cited sources tell two contexts apart.
Bound(m) == m.draft.context = m.context
\* Checks 3 to 8, on the text, whose limits and terms are those of the request
\* there is now: another one may judge the text otherwise.
TextSound(t) ==
    IF mem[t].draft.request = request[t] THEN {mem[t].draft.sound} ELSE BOOLEAN

RunQuality(t) ==
    /\ Reads(t, "novel-quality")
    /\ \E sound \in TextSound(t) :
          Save(t, IF Bound(mem[t]) /\ sound THEN Completed(mem[t]) ELSE Broken(mem[t]))
    /\ UNCHANGED <<world, run, registry, store, evidence, ledger, second, tries, crashes>>

-----------------------------------------------------------------------------
\* _run_artifact, one write after the other.

\* The guard against a second accepted artifact looks for the schema of an
\* accepted artifact at the top of each stored file.  A file holds it deeper,
\* under payload and content: its own schema is that of a content record.
StoredSchema(content) == "content-record"
FindAccepted(t) ==
    {a \in DOMAIN store[t] : StoredSchema(store[t][a]) = "novel-accepted-artifact"}

\* The node's result is in memory, and its checkpoint still to come.
Finish(t, m) == mem' = [mem EXCEPT ![t] = m] /\ Go(t, "save")

RunArtifact(t) ==
    /\ Reads(t, "novel-artifact")
    /\ IF FindAccepted(t) # {}
       THEN Finish(t, Broken(mem[t])) /\ UNCHANGED store
       ELSE LET accepted == [draft |-> mem[t].draft, context |-> mem[t].context,
                             request |-> request[t]]
            IN  /\ store' = [store EXCEPT ![t] = Append(@, accepted)]
                /\ mem' = [mem EXCEPT ![t].artifact = Len(store'[t])]
                /\ Go(t, "evidence")
    /\ UNCHANGED <<world, run, registry, disk, evidence, ledger, second, tries, crashes>>

\* A node raises on a request that is not valid.
RaiseUnread(t) ==
    /\ \E i \in DOMAIN Chain : Turn(t, Chain[i])
    /\ ~Valid(t)
    /\ Finish(t, Broken(mem[t]))
    /\ UNCHANGED <<world, run, registry, disk, store, evidence, ledger, second, tries, crashes>>

\* Every write of the artifact node may raise.
Raise(t) ==
    /\ \/ Turn(t, "novel-artifact")
       \/ at[t] \in {"evidence", "work", "version", "zero", "platform"}
    /\ Finish(t, Broken(mem[t]))
    /\ UNCHANGED <<world, run, registry, disk, store, evidence, ledger, second, tries, crashes>>

Missing(t) == {k \in EvidenceKind : <<mem[t].artifact, k>> \notin evidence[t]}
\* The kinds come in a fixed order, which nothing can tell apart.
NextKind(t) == CHOOSE k \in Missing(t) : TRUE

\* Mutated form: the node returns when one kind is still to come.
RegisterThree(t) ==
    /\ at[t] = "evidence"
    /\ evidence' = [evidence EXCEPT ![t] = @ \cup {<<mem[t].artifact, NextKind(t)>>}]
    /\ Go(t, IF Cardinality(Missing(t)) > 2 THEN "evidence" ELSE "work")
    /\ UNCHANGED <<world, run, registry, disk, store, ledger, second, mem, tries, crashes>>

RegisterEvidence(t) ==
    /\ at[t] = "evidence"
    /\ evidence' = [evidence EXCEPT ![t] = @ \cup {<<mem[t].artifact, NextKind(t)>>}]
    /\ Go(t, IF Cardinality(Missing(t)) > 1 THEN "evidence" ELSE "work")
    /\ UNCHANGED <<world, run, registry, disk, store, ledger, second, mem, tries, crashes>>

\* EconomicLedger.append: a known key with an equal payload is a replay, with
\* another payload a conflict.
Known(key) == key \in DOMAIN ledger
\* Mutated form: the later fact replaces the earlier one.
ConflictsNever(key, payload) == FALSE
Conflicts(key, payload) == Known(key) /\ ledger[key] # payload
Written(key, payload) ==
    [k \in DOMAIN ledger \cup {key} |-> IF k = key THEN payload ELSE ledger[k]]

\* A payload carries the second it was made in, and so is never the same later.
WorkPayload(t)     == [chapter |-> t, second |-> second]
VersionPayload(t)  == [artifact |-> mem[t].artifact, second |-> second]
TimePayload        == [second |-> second]

\* One registration of the node, the step it leaves for, or its failure.
Registers(t, step, key, payload, next) ==
    /\ at[t] = step
    /\ IF Conflicts(key, payload)
       THEN Finish(t, Broken(mem[t])) /\ UNCHANGED ledger
       ELSE /\ ledger' = Written(key, payload)
            /\ IF next = "finished" THEN Finish(t, Completed(mem[t]))
               ELSE Go(t, next) /\ UNCHANGED mem
    /\ UNCHANGED <<world, run, registry, disk, store, evidence, second, tries, crashes>>

register_work(t) == Registers(t, "work", <<"work">>, WorkPayload(t), "version")
register_version(t) ==
    Registers(t, "version", <<"version", t>>, VersionPayload(t), "zero")
register_zero_cost(t) == Registers(t, "zero", <<"zero", t>>, TimePayload, "platform")
register_platform(t) == Registers(t, "platform", <<"platform">>, TimePayload, "finished")

-----------------------------------------------------------------------------
SaveNode(t) ==
    /\ at[t] = "save"
    /\ Save(t, mem[t])
    /\ UNCHANGED <<world, run, registry, store, evidence, ledger, second, tries, crashes>>

\* Mutated form: a node that is blocked does not fail the task.
VerdictOfDone(m) == "completed"
Verdict(m) == IF m.bad THEN "failed" ELSE "completed"

Conclude(t) ==
    /\ at[t] = "loop"
    /\ mem[t].bad \/ mem[t].done = Len(Chain)
    /\ mem' = [mem EXCEPT ![t].status = Verdict(mem[t])]
    /\ disk' = [disk EXCEPT ![t] = mem'[t]]
    /\ Go(t, "update")
    /\ UNCHANGED <<world, run, registry, store, evidence, ledger, second, tries, crashes>>

\* _update_registry_status, and the call returns.  The result of the artifact
\* node names an artifact only if that node completed.
Entry(t) ==
    [status |-> mem[t].status,
     accepted |-> IF mem[t].done = Len(Chain) THEN mem[t].artifact ELSE registry[t].accepted]

Return(t) ==
    /\ mem' = [mem EXCEPT ![t] = NewTask]
    /\ Go(t, "idle")
    /\ UNCHANGED <<world, run, disk, store, evidence, ledger, second, tries, crashes>>

\* Mutated form: a task found final is returned at once.
UpdateOnce(t) ==
    /\ at[t] = "update"
    /\ registry' = IF mem[t].bad THEN registry
                   ELSE [registry EXCEPT ![t] = Entry(t)]
    /\ Return(t)

UpdateRegistry(t) ==
    /\ at[t] = "update"
    /\ registry' = [registry EXCEPT ![t] = Entry(t)]
    /\ Return(t)

\* Seconds are only compared, so they count from the first fact.
Tick ==
    /\ second < MaxSeconds /\ ledger # << >>
    /\ second' = second + 1
    /\ UNCHANGED <<world, run, registry, disk, store, evidence, ledger, at, mem, tries, crashes>>

Faults == crashes + Cardinality({t \in Task : request[t] # "submitted"})

\* Somebody edits the file of a submitted request, which every later reading
\* finds; while no call is on, a valid file and an invalid one are refused alike,
\* and when the task is over nothing reads it but to refuse.
ChangeRequest(t) ==
    /\ t \in Disturbed /\ Faults < MaxFaults /\ request[t] = "submitted"
    /\ at[t] # "idle" \/ Readable(t)
    /\ disk[t].status \notin Final
    /\ \E other \in {"other"} \cup (IF at[t] = "idle" THEN {} ELSE {"bad"}) :
          request' = [request EXCEPT ![t] = other]
    /\ swapped' = IF at[t] = "idle" THEN swapped ELSE swapped \cup {t}
    /\ UNCHANGED <<run, registry, disk, store, evidence, ledger, second, at, mem, tries, crashes>>

\* The process dies, and starts again with what is on disk.  _save_registry
\* writes in place: a call that is at it may leave the file torn.
Crash ==
    /\ Faults < MaxFaults
    /\ \E T \in SUBSET {t \in Task : at[t] \in {"registry", "update"}} :
          registry' = [t \in Task |-> IF t \in T THEN TornEntry ELSE registry[t]]
    /\ \E t \in Task : at[t] # "idle"
    /\ crashes' = crashes + 1
    /\ at' = [t \in Task |-> "idle"]
    /\ mem' = [t \in Task |-> NewTask]
    /\ UNCHANGED <<world, run, disk, store, evidence, ledger, second, tries>>

Step(t) ==
    \/ CreateRun(t) \/ BindRun(t) \/ SaveRegistry(t)
    \/ Start(t) \/ RunContext(t) \/ RunDraft(t) \/ RunQuality(t)
    \/ RunArtifact(t) \/ RegisterEvidence(t)
    \/ register_work(t) \/ register_version(t) \/ register_zero_cost(t)
    \/ register_platform(t) \/ Raise(t) \/ RaiseUnread(t)
    \/ SaveNode(t) \/ Conclude(t) \/ UpdateRegistry(t)

Next ==
    \/ \E t \in Task : Submit(t) \/ Resume(t) \/ Step(t) \/ ChangeRequest(t)
    \/ Tick \/ Crash

Spec == Init /\ [][Next]_vars
\* A call goes on until it returns, and somebody resumes a task that is not
\* over.
FairSpec == Spec /\ \A t \in Task : WF_vars(Step(t) \/ Resume(t))

-----------------------------------------------------------------------------
\* export and restore into an empty root, of a run in any state: the files are
\* copied (StateSpine), and the registry is made from the accepted content
\* found first, which may be any of them.
Restored(t) ==
    IF store[t] = <<>> THEN {[dag |-> disk[t], registry |-> NoEntry]}
    ELSE {[dag |-> disk[t], registry |-> [status |-> "completed", accepted |-> a]] :
            a \in DOMAIN store[t]}

-----------------------------------------------------------------------------
TypeOK ==
    /\ request \in [Task -> {"submitted", "other", "bad"}] /\ swapped \subseteq Task
    /\ run \in [Task -> {"none", "unbound", "bound"}]
    /\ registry \in [Task -> [status: {"none", "torn", "open"} \cup Final, accepted: Nat]]
    /\ \A m \in {disk[t] : t \in Task} \cup {mem[t] : t \in Task} :
          /\ m.status \in {"absent", "open"} \cup Final
          /\ m.done \in 0..Len(Chain) /\ m.bad \in BOOLEAN
    /\ at \in [Task -> {"idle", "create", "bind", "registry", "load", "loop", "save",
                        "update", "evidence", "work", "version", "zero", "platform"}]
    /\ second \in 0..MaxSeconds /\ crashes \in 0..MaxFaults

\* Whatever was interrupted and run again: each accepted content of a task
\* cites the very draft and context its checkpoint holds, the draft was written
\* from that context, and, unless the request was changed under a running call,
\* it and its text are those of the request that was submitted.
AcceptedIsEarned ==
    \A t \in Task : \A a \in DOMAIN store[t] :
        LET cited == store[t][a]
        IN  /\ cited.draft = disk[t].draft /\ cited.context = disk[t].context
            /\ cited.draft.context = cited.context
            /\ t \in swapped \/ (cited.draft.sound /\ cited.request = "submitted")

\* Only a crash has a task accepted a second time.
AcceptedBounded == \A t \in Task : Len(store[t]) <= 1 + crashes

\* What a task has accepted is earned, and it was accepted once, or once more
\* for a crash.
AcceptedIsSound == AcceptedIsEarned /\ AcceptedBounded

\* A registry entry that says completed is true of everything it stands for:
\* the checkpoint, the accepted artifact, its evidence of every kind, and the
\* version in the ledger, which names that artifact and not an earlier one.
\* One that says failed is true of the checkpoint.
RegistryTruth ==
    \A t \in Task :
        /\ registry[t].status \in Final => disk[t].status = registry[t].status
        /\ registry[t].status = "completed" =>
              LET a == registry[t].accepted
              IN  /\ a \in DOMAIN store[t]
                  /\ \A k \in EvidenceKind : <<a, k>> \in evidence[t]
                  /\ {<<"work">>, <<"platform">>, <<"zero", t>>, <<"version", t>>}
                        \subseteq DOMAIN ledger
                  /\ ledger[<<"version", t>>].artifact = a

\* An economic fact stays what it was when it was first written, whichever
\* task or replay registers the key again.
FactsAreKept ==
    [][\A key \in DOMAIN ledger : key \in DOMAIN ledger' /\ ledger'[key] = ledger[key]]_ledger

\* Without a crash, the registry made from a restored export says of a
\* completed task what the registry says where it ran.
RestoredAgrees ==
    \A t \in Task : crashes = 0 /\ registry[t].status = "completed" =>
        \A r \in Restored(t) : r.registry = registry[t] /\ r.dag.status = "completed"

\* The registry tells the truth where a run was made and where it is restored.
RegistryIsTrue == RegistryTruth /\ RestoredAgrees

\* A task that got as far as the registry comes to an end, and the registry to
\* the verdict of its checkpoint, over crashes and pauses, as long as it is
\* resumed, and its request is what it was; unless a crash tears its registry
\* entry, for then submit and resume refuse it for ever.
EverySubmissionEnds ==
    \A t \in Task : Readable(t) ~>
        \/ disk[t].status \in Final /\ registry[t].status = disk[t].status
        \/ request[t] # "submitted"
        \/ registry[t].status = "torn"
=============================================================================
