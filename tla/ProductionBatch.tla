-------------------------- MODULE ProductionBatch --------------------------
(***************************************************************************)
(* NovelProductionBatchService (production_batch.py) on one batch: its     *)
(* slots are drafted in order, blocked ones are tried again, the accepted  *)
(* chapters are assembled into a release, and the release is published and *)
(* withdrawn.                                                              *)
(*                                                                         *)
(* The history is an append-only event log.  `disk` is what a replay of it *)
(* yields and `keys` the idempotency keys in it; `mem` is the state of the *)
(* service, which changes its own dictionaries beside appending events.    *)
(* All operations hold one lock; a step is what happens between two writes, *)
(* and a slot marked running or skipped under the lock is no step; only an  *)
(* exception that ends the operation leaves one marked.  A chapter run      *)
(* (novel_mvp.py) and a shadow dispatch (Publication) are one step with an  *)
(* outcome.  The state of the whole batch is left out: it is   *)
(* written for the reader and no operation looks at it.                     *)
(***************************************************************************)
EXTENDS Integers, Sequences, FiniteSets, FiniteSetsExt

CONSTANTS
    NumSlots,    \* chapter slots, in their order
    Required,    \* slots a release must have
    Reason,      \* reasons given for a revision
    MaxBlocks,   \* bound: drafts the quality gate refuses
    MaxClock,    \* bound: seconds a behaviour spans
    MaxCrashes   \* bound: operations cut short

Slot == 1..NumSlots
Time == 0..MaxClock
\* Runs of a slot: 0 is its own task, n the task of revision n.
Task == 0..(1 + MaxBlocks + MaxCrashes)
NoTask == -1

ASSUME BatchAssumption ==
    /\ NumSlots \in Nat \ {0}
    /\ Required \subseteq Slot
    /\ MaxBlocks \in Nat /\ MaxClock \in Nat /\ MaxCrashes \in Nat

VARIABLES
    mem,       \* _batches and _releases, for this batch
    disk,      \* the same, as replayed from events.jsonl
    keys,      \* idempotency keys of the events
    op,        \* the operation that holds the lock
    owed,      \* submit has returned the lock and not yet executed
    left,      \* slots an exception left running in memory, which no event says
    used,      \* chapter runs that exist in their work root
    facts,     \* chapter runs with an accepted version fact
    content,   \* content[s]: the run whose prose is in content.txt of s
    released,  \* released[r]: time of the release facts of r, NoTask if none
    settled,   \* releases whose dispatch has a receipt
    now,       \* _now, in seconds
    blocks,    \* drafts refused so far
    crashes    \* operations cut short so far

world == <<used, facts, content, released, settled>>
vars == <<mem, disk, keys, op, owed, left, world, now, blocks, crashes>>

-----------------------------------------------------------------------------
\* The state of a batch and the changes that both the service and the replay
\* of an event make to it.
Attempt(t, status) == [task |-> t, status |-> status]
FreshSlot == [state |-> "pending", attempts |-> <<>>, current |-> NoTask, accepted |-> NoTask]
NoRelease ==
    [status |-> "none", chapters |-> [s \in Slot |-> NoTask], published |-> "none"]
NoBatch ==
    [submitted |-> FALSE, slots |-> [s \in Slot |-> FreshSlot],
     releases |-> [r \in Time |-> NoRelease]]

WithAttempt(b, s, a) ==
    [b EXCEPT !.slots[s].attempts = Append(b.slots[s].attempts, a),
              !.slots[s].current = a.task]
WithSlot(b, s, state, accepted) ==
    [b EXCEPT !.slots[s].state = state,
              !.slots[s].accepted =
                 IF accepted = NoTask THEN b.slots[s].accepted ELSE accepted]
WithRelease(b, r, chapters) ==
    [b EXCEPT !.releases[r] = [status |-> "ready", chapters |-> chapters, published |-> "none"]]
Withdrawn(b, r) == [b EXCEPT !.releases[r].status = "withdrawn"]
Published(b, r, verdict) == [b EXCEPT !.releases[r].published = verdict]

Live(b) == {r \in Time : b.releases[r].status = "ready"}
AttemptNo(b, s) == Len(b.slots[s].attempts) + 1

\* _append_event: nothing happens when the key is known.
Put(key, replayed) ==
    IF key \in keys THEN UNCHANGED <<keys, disk>>
    ELSE keys' = keys \cup {key} /\ disk' = replayed

Idle ==
    [kind |-> "idle", step |-> "idle", slot |-> 0, task |-> NoTask, status |-> "none",
     reason |-> "none", release |-> 0]
Free == op = Idle
Step(step) == op' = [op EXCEPT !.step = step]
Return == op' = Idle

Init ==
    /\ mem = NoBatch
    /\ disk = NoBatch
    /\ keys = {}
    /\ op = Idle
    /\ owed = FALSE
    /\ left = {}
    /\ used = {}
    /\ facts = {}
    /\ content = [s \in Slot |-> NoTask]
    /\ released = [r \in Time |-> NoTask]
    /\ settled = {}
    /\ now = 0
    /\ blocks = 0
    /\ crashes = 0

-----------------------------------------------------------------------------
Submitted == [NoBatch EXCEPT !.submitted = TRUE]

Submit ==
    /\ Free
    /\ ~mem.submitted
    /\ mem' = Submitted
    /\ Put(<<"batch-submitted">>, Submitted)
    /\ owed' = TRUE
    /\ UNCHANGED <<op, left, world, now, blocks, crashes>>

\* Mutated form: what is blocked is never tried again.
SkippedForEver(kind, state) == state # "pending"
Skipped(kind, state) ==
    \/ state = "accepted"
    \/ kind = "execute" /\ state = "blocked"

ShownState(b, s) == IF s \in left THEN "running" ELSE b.slots[s].state

\* The walk over the slots goes on at the first slot from `first` on that is
\* not skipped, and is over when there is none.
Walk(b, kind, first) ==
    LET todo == {s \in first..NumSlots : ~Skipped(kind, ShownState(b, s))} IN
    op' = IF todo = {} THEN Idle
          ELSE LET s == Min(todo) IN
               [Idle EXCEPT !.kind = kind, !.step = "run", !.slot = s,
                            !.task = IF kind = "execute" THEN 0 ELSE AttemptNo(b, s)]

\* submit takes the lock a second time to execute the slots.
Execute ==
    /\ Free
    /\ owed
    /\ owed' = FALSE
    /\ Walk(mem, "execute", 1)
    /\ UNCHANGED <<mem, disk, keys, left, world, now, blocks, crashes>>

Resume ==
    /\ Free
    /\ mem.submitted
    /\ Walk(mem, "resume", 1)
    /\ UNCHANGED <<mem, disk, keys, owed, left, world, now, blocks, crashes>>

ReviseKey(s, reason) == <<"revise", s, reason>>

\* A known key is a replay, whatever became of the first revision.
Revise(s, reason) ==
    /\ Free
    /\ mem.submitted
    /\ ReviseKey(s, reason) \notin keys
    /\ ShownState(mem, s) = "blocked"
    /\ op' = [Idle EXCEPT !.kind = "revise", !.step = "run", !.slot = s, !.reason = reason,
                          !.task = AttemptNo(mem, s)]
    /\ UNCHANGED <<mem, disk, keys, owed, left, world, now, blocks, crashes>>

-----------------------------------------------------------------------------
ThisRun == <<op.slot, op.task>>
Ran(status) ==
    op' = [op EXCEPT !.status = status,
                     !.step = IF status = "accepted" THEN "facts"
                              ELSE IF op.kind = "revise" THEN "revised" ELSE "attempt"]

\* _run_slot_attempt in a work root of its own.
RunAccepted ==
    /\ op.step = "run"
    /\ ThisRun \notin used
    /\ used' = used \cup {ThisRun}
    /\ Ran("accepted")
    /\ UNCHANGED <<mem, disk, keys, owed, left, facts, content, released, settled, now, blocks, crashes>>

RunBlocked ==
    /\ op.step = "run"
    /\ ThisRun \notin used
    /\ blocks < MaxBlocks
    /\ blocks' = blocks + 1
    /\ used' = used \cup {ThisRun}
    /\ Ran("blocked")
    /\ UNCHANGED <<mem, disk, keys, owed, left, facts, content, released, settled, now, crashes>>

\* The run was left by an operation that was cut short: submit refuses it.
RunExists ==
    /\ op.step = "run"
    /\ ThisRun \in used
    /\ Ran("blocked")
    /\ UNCHANGED <<mem, disk, keys, owed, left, world, now, blocks, crashes>>

RegisterFacts ==
    /\ op.step = "facts"
    /\ facts' = facts \cup {ThisRun}
    /\ Step("content")
    /\ UNCHANGED <<mem, disk, keys, owed, left, used, content, released, settled, now, blocks, crashes>>

StoreContent ==
    /\ op.step = "content"
    /\ content' = [content EXCEPT ![op.slot] = op.task]
    /\ Step(IF op.kind = "revise" THEN "revised" ELSE "attempt")
    /\ UNCHANGED <<mem, disk, keys, owed, left, used, facts, released, settled, now, blocks, crashes>>

RecordRevision ==
    /\ op.step = "revised"
    /\ Put(ReviseKey(op.slot, op.reason), disk)
    /\ Step("attempt")
    /\ UNCHANGED <<mem, owed, left, world, now, blocks, crashes>>

\* Mutated form: one key for all attempts of a slot.
SlotKey(s, task) == <<"attempt", s>>
AttemptKey(s, task) == <<"attempt", s, task>>

RecordAttempt ==
    /\ op.step = "attempt"
    /\ LET a == Attempt(op.task, op.status) IN
       /\ mem' = WithAttempt(mem, op.slot, a)
       /\ Put(AttemptKey(op.slot, op.task), WithAttempt(disk, op.slot, a))
    /\ Step("state")
    /\ UNCHANGED <<owed, left, world, now, blocks, crashes>>

\* _persist_slot_state; its key names the second.
RecordSlotState ==
    /\ op.step = "state"
    /\ LET accepted == IF op.status = "accepted" THEN op.task ELSE NoTask IN
       /\ mem' = WithSlot(mem, op.slot, op.status, accepted)
       /\ Put(<<"slot-state", op.slot, op.status, now>>,
              WithSlot(disk, op.slot, op.status, mem'.slots[op.slot].accepted))
    /\ left' = left \ {op.slot}
    /\ IF op.kind = "revise" THEN Return ELSE Walk(mem', op.kind, op.slot + 1)
    /\ UNCHANGED <<owed, world, now, blocks, crashes>>

\* The tree cannot be copied, the ledger refuses a fact or the content cannot
\* be written: the exception ends the operation and the service lives on.
\* execute and resume leave the slot running, revise as it was.
DraftRaises ==
    /\ op.step \in {"run", "facts", "content"}
    /\ crashes < MaxCrashes
    /\ crashes' = crashes + 1
    /\ left' = IF op.kind = "revise" THEN left ELSE left \cup {op.slot}
    /\ Return
    /\ UNCHANGED <<mem, disk, keys, owed, world, now, blocks>>

-----------------------------------------------------------------------------
Chapters(b) ==
    [s \in Slot |-> IF b.slots[s].state = "accepted" THEN b.slots[s].current ELSE NoTask]

\* Mutated forms: the live release is not looked for; a slot that was never
\* drafted does not count as missing.
MayAssembleAgain(b) == \A s \in Required : b.slots[s].state = "accepted"
MayAssembleDrafted(b) ==
    /\ \A s \in Required : b.slots[s].state # "blocked"
    /\ Live(b) = {}
\* What assemble_release looks at before it writes anything.
MayAssemble(b) ==
    /\ \A s \in Required : b.slots[s].state = "accepted"
    /\ Live(b) = {}
Verified(chapters) ==
    \A s \in Slot : chapters[s] # NoTask =>
        /\ <<s, chapters[s]>> \in facts
        /\ content[s] = chapters[s]

\* The id of a release is a hash of the second it is made in.
Assemble ==
    /\ Free
    /\ mem.submitted
    /\ MayAssemble(mem)
    /\ Verified(Chapters(mem))
    /\ op' = [Idle EXCEPT !.kind = "assemble", !.step = "release facts", !.release = now]
    /\ UNCHANGED <<mem, disk, keys, owed, left, world, now, blocks, crashes>>

\* The book is written and its facts registered; the same id with another
\* second in its payload is a conflict, which ends the operation.
RegisterRelease ==
    /\ op.step = "release facts"
    /\ IF released[op.release] \in {NoTask, now}
       THEN released' = [released EXCEPT ![op.release] = now] /\ Step("assembled")
       ELSE UNCHANGED released /\ Return
    /\ UNCHANGED <<mem, disk, keys, owed, left, used, facts, content, settled, now, blocks, crashes>>

RecordRelease ==
    /\ op.step = "assembled"
    /\ mem' = WithRelease(mem, op.release, Chapters(mem))
    /\ Put(<<"release-assembled", op.release>>, WithRelease(disk, op.release, Chapters(mem)))
    /\ Return
    /\ UNCHANGED <<owed, left, world, now, blocks, crashes>>

Verdict == {"settled", "retry_wait"}

\* publish_release: the dispatch key is the release, so a settled dispatch is
\* answered with its receipt and one that waits is tried again.
Publish(r, verdict) ==
    /\ Free
    /\ mem.releases[r].status = "ready"
    /\ r \in settled => verdict = "settled"
    /\ settled' = IF verdict = "settled" THEN settled \cup {r} ELSE settled
    /\ op' = [Idle EXCEPT !.kind = "publish", !.step = "published", !.release = r,
                          !.status = verdict]
    /\ UNCHANGED <<mem, disk, keys, owed, left, used, facts, content, released, now, blocks, crashes>>

RecordPublished ==
    /\ op.step = "published"
    /\ mem' = Published(mem, op.release, op.status)
    /\ Put(<<"release-published", op.release>>, Published(disk, op.release, op.status))
    /\ Return
    /\ UNCHANGED <<owed, left, world, now, blocks, crashes>>

WithdrawRelease(r) ==
    /\ Free
    /\ mem.releases[r].status = "ready"
    /\ mem' = Withdrawn(mem, r)
    /\ Put(<<"release-withdrawn", r, now>>, Withdrawn(disk, r))
    /\ UNCHANGED <<op, owed, left, world, now, blocks, crashes>>

-----------------------------------------------------------------------------
Tick ==
    /\ now < MaxClock
    /\ now' = now + 1
    /\ UNCHANGED <<mem, disk, keys, op, owed, left, world, blocks, crashes>>

\* The process dies, in an operation or between two; another one replays the
\* log.
Crash ==
    /\ mem.submitted
    /\ crashes < MaxCrashes
    /\ crashes' = crashes + 1
    /\ mem' = disk
    /\ owed' = FALSE
    /\ left' = {}
    /\ Return
    /\ UNCHANGED <<disk, keys, world, now, blocks>>

OperationStep ==
    \/ Execute
    \/ RunAccepted \/ RunBlocked \/ RunExists
    \/ RegisterFacts \/ StoreContent
    \/ RecordRevision \/ RecordAttempt \/ RecordSlotState
    \/ RegisterRelease \/ RecordRelease \/ RecordPublished

Next ==
    \/ Submit \/ Resume \/ Assemble
    \/ \E s \in Slot, reason \in Reason : Revise(s, reason)
    \/ \E r \in Time : WithdrawRelease(r) \/ \E verdict \in Verdict : Publish(r, verdict)
    \/ OperationStep
    \/ DraftRaises
    \/ Tick \/ Crash

Spec == Init /\ [][Next]_vars

Complete(b) == \A s \in Required : b.slots[s].state = "accepted"

\* The batch is submitted and resumed until it is complete, and every
\* operation runs on; the quality gate refuses only MaxBlocks drafts.
FairSpec ==
    /\ Spec
    /\ WF_vars(OperationStep)
    /\ WF_vars(Submit)
    /\ SF_vars(Resume /\ ~Complete(mem))

-----------------------------------------------------------------------------
SlotState == {"pending", "accepted", "blocked"}
SlotRecord ==
    [state : SlotState, attempts : Seq([task : Task, status : {"accepted", "blocked"}]),
     current : Task \cup {NoTask}, accepted : Task \cup {NoTask}]
Release ==
    [status : {"none", "ready", "withdrawn"}, chapters : [Slot -> Task \cup {NoTask}],
     published : Verdict \cup {"none"}]
Batch ==
    [submitted : BOOLEAN, slots : [Slot -> SlotRecord], releases : [Time -> Release]]

TypeOK ==
    /\ mem \in Batch /\ disk \in Batch
    /\ op.slot \in 0..NumSlots /\ op.task \in Task \cup {NoTask} /\ op.release \in Time
    /\ owed \in BOOLEAN /\ left \subseteq Slot
    /\ used \subseteq Slot \X Task /\ facts \subseteq used
    /\ content \in [Slot -> Task \cup {NoTask}]
    /\ released \in [Time -> Time \cup {NoTask}]
    /\ settled \subseteq Time
    /\ now \in Time /\ blocks \in 0..MaxBlocks /\ crashes \in 0..MaxCrashes

\* The log is the authoritative history (production_batch.py:13): between
\* operations a restart would find every slot as the service knows it, but for
\* the mark of one that an exception left running.
SlotsAreReplayed == Free => mem.slots = disk.slots

\* Whatever crashes and withdrawals came before, a restart never finds two
\* live releases of the batch.
OneLiveRelease == Cardinality(Live(disk)) <= 1

\* The chapters of a live release are the accepted attempts of their slots,
\* passed the gate, have version facts and are what the content files hold;
\* no required chapter is missing.
ReleaseIsFaithful ==
    \A r \in Live(disk) : LET chapters == disk.releases[r].chapters IN
        /\ \A s \in Required : chapters[s] # NoTask
        /\ \A s \in Slot : chapters[s] # NoTask =>
              /\ disk.slots[s].state = "accepted" /\ disk.slots[s].accepted = chapters[s]
              /\ \E i \in DOMAIN disk.slots[s].attempts :
                    disk.slots[s].attempts[i] = Attempt(chapters[s], "accepted")
              /\ <<s, chapters[s]>> \in facts
              /\ content[s] = chapters[s]

\* A restart finds one live release at most, and it holds exactly the accepted
\* chapters.
ReleaseIsSound == OneLiveRelease /\ ReleaseIsFaithful

\* A batch that is resumed until it is complete gets there, whatever runs the
\* crashes left behind.
BatchCompletes == <>Complete(disk)
=============================================================================
