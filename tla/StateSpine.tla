----------------------------- MODULE StateSpine -----------------------------
(***************************************************************************)
(* The restart-safe state spine (state_spine.py): files are the truth, a   *)
(* SQLite database is an index derived from them.  Every operation writes  *)
(* its file first and its row second; every thread that works on a root    *)
(* has a spine of its own, and nothing serialises their steps.             *)
(*                                                                         *)
(* A writer creates a run and registers departments, tasks, events,        *)
(* checkpoints and artifacts.  A keeper opens, recovers, rebuilds, exports *)
(* and archives, and restores an export under another root.                *)
(***************************************************************************)
EXTENDS Naturals, Sequences, FiniteSets

CONSTANTS
    Run,            \* run ids
    Dept, Task,     \* department and task ids
    Artifact,       \* artifact ids, drawn at random: never drawn twice
    Writer, Keeper, \* threads with a spine of their own
    Owner,          \* Owner[t]: the one writer that executes task t
    None,           \* no run
    MaxEvents,      \* bound: events of a task
    MaxVersions,    \* bound: checkpoints of a task
    MaxFaults       \* bound: crashes and losses of the index

Member == Dept \cup Task
Actor == Writer \cup Keeper

ASSUME SpineAssumption ==
    /\ Dept \cap Task = {} /\ Writer \cap Keeper = {}
    /\ Owner \in [Task -> Writer]
    /\ None \notin Run
    /\ {MaxEvents, MaxVersions, MaxFaults} \subseteq Nat

VARIABLES
    runFile,     \* runFile[r]: status in runs/r.json, "none" if there is none
    memberFile,  \* memberFile[m]: the run a department or task file names
    events,      \* events[t]: length of the ledger of t
    checkpoint,  \* checkpoint[t]: version of the checkpoint file, 0 if none
    snapshot,    \* snapshot[t]: version whose hash the snapshot record holds
    store,       \* artifacts whose content is in the store
    record,      \* record[x]: the run the record file of artifact x names
    index,       \* rows of the database, one function per table
    archive,     \* archive[r]: what archives/r holds
    target,      \* target[r]: the root r is restored under: r's row and its files
    at,          \* at[p]: the next step of p's operation
    arg,         \* arg[p]: what the operation is about
    \* History, read by properties only:
    faults,      \* crashes and losses so far
    dirty,       \* a fault since the last rebuild
    torn,        \* tasks whose last checkpoint has lost its snapshot
    contested    \* departments that two threads have been registering at once

files == <<runFile, memberFile, events, checkpoint, snapshot, store, record>>
history == <<faults, dirty, torn, contested>>
vars == <<files, index, archive, target, at, arg, history>>

\* _SCHEMA_V1: the tables, empty.
EmptyIndex ==
    [runs      |-> [r \in Run |-> "none"],
     members   |-> [m \in Member |-> None],
     events    |-> [t \in Task |-> {}],
     snapshots |-> [t \in Task |-> 0],
     artifacts |-> [x \in Artifact |-> None]]

\* The files of a run that a writer may change after they are written.
Mutable == <<"ledger", "checkpoint", "snapshot">>
\* An export: the files whose copy differs from the hash in the manifest, the
\* artifact records and the contents it holds, and if it began in quiet (history).
NoExport == [state |-> "none", bad |-> {}, records |-> {}, contents |-> {}, quiet |-> FALSE]
EmptyTarget == [indexed |-> FALSE, files |-> {}]

NoArg == [run |-> None, id |-> None, seen |-> "none", digest |-> <<>>, todo |-> {},
          version |-> 0, bad |-> {}]

Init ==
    /\ runFile = [r \in Run |-> "none"]
    /\ memberFile = [m \in Member |-> None]
    /\ events = [t \in Task |-> 0]
    /\ checkpoint = [t \in Task |-> 0]
    /\ snapshot = [t \in Task |-> 0]
    /\ store = {}
    /\ record = [x \in Artifact |-> None]
    /\ index = EmptyIndex
    /\ archive = [r \in Run |-> NoExport]
    /\ target = [r \in Run |-> EmptyTarget]
    /\ at = [p \in Actor |-> "idle"]
    /\ arg = [p \in Actor |-> NoArg]
    /\ faults = 0 /\ dirty = FALSE /\ torn = {} /\ contested = {}

-----------------------------------------------------------------------------
Go(p, step) == at' = [at EXCEPT ![p] = step]
\* The operation of p is over, with its result or with an exception.
Done(p) ==
    /\ at' = [at EXCEPT ![p] = "idle"]
    /\ arg' = [arg EXCEPT ![p] = NoArg]
Begin(p, step, argument) ==
    /\ at[p] = "idle"
    /\ at' = [at EXCEPT ![p] = step]
    /\ arg' = [arg EXCEPT ![p] = argument]

run_exists(r) == runFile[r] # "none"
\* Asks the index only.
is_archived(r) == index.runs[r] = "archived"
Writable(r) == ~is_archived(r)

\* A row of any table but runs and events needs the row of its run: without it
\* the statement raises, after the file is on disk.
Parent(r) == index.runs[r] # "none"
IndexRow(p, table, key, value) ==
    IF Parent(arg[p].run)
    THEN index' = [index EXCEPT ![table][key] = value] /\ UNCHANGED dirty
    ELSE dirty' = TRUE /\ UNCHANGED index

Unmoved == UNCHANGED <<archive, target>>

\* create_run: the check, the file, the row, then each department.
CreateRun(p, r) ==
    /\ p \in Writer /\ ~run_exists(r)
    /\ Begin(p, "run file", [NoArg EXCEPT !.run = r, !.todo = Dept])
    /\ UNCHANGED <<files, index, history>> /\ Unmoved

WriteRunFile(p) ==
    /\ at[p] = "run file"
    /\ runFile' = [runFile EXCEPT ![arg[p].run] = "open"]
    /\ Go(p, "run row")
    /\ UNCHANGED <<memberFile, events, checkpoint, snapshot, store, record>>
    /\ UNCHANGED <<index, arg, history>> /\ Unmoved

IndexRun(p) ==
    /\ at[p] = "run row"
    /\ index' = [index EXCEPT !.runs[arg[p].run] = "open"]
    /\ IF arg[p].todo = {} THEN Done(p) ELSE Go(p, "departments") /\ UNCHANGED arg
    /\ UNCHANGED <<files, history>> /\ Unmoved

\* register_department and register_task, which differ in nothing else.
MayBind(r, m) ==
    /\ run_exists(r) /\ Writable(r)
    /\ memberFile[m] \in {r, None}

\* Some thread is about to write the file or the row of m.
Registering(m) == \E q \in Actor : at[q] \in {"member file", "member row"} /\ arg[q].id = m

NextDepartment(p) ==
    /\ at[p] = "departments"
    /\ \E d \in arg[p].todo :
          IF MayBind(arg[p].run, d)
          THEN /\ Go(p, "member file")
               /\ arg' = [arg EXCEPT ![p].id = d, ![p].todo = @ \ {d}]
               /\ contested' = IF Registering(d) THEN contested \cup {d} ELSE contested
          ELSE Done(p) /\ UNCHANGED contested
    /\ UNCHANGED <<files, index, faults, dirty, torn>> /\ Unmoved

RegisterTask(p, r, t) ==
    /\ p = Owner[t] /\ MayBind(r, t)
    /\ Begin(p, "member file", [NoArg EXCEPT !.run = r, !.id = t])
    /\ UNCHANGED <<files, index, history>> /\ Unmoved

WriteMemberFile(p) ==
    /\ at[p] = "member file"
    /\ memberFile' = [memberFile EXCEPT ![arg[p].id] = arg[p].run]
    /\ Go(p, "member row")
    /\ UNCHANGED <<runFile, events, checkpoint, snapshot, store, record>>
    /\ UNCHANGED <<index, arg, history>> /\ Unmoved

IndexMember(p) ==
    /\ at[p] = "member row"
    /\ IndexRow(p, "members", arg[p].id, arg[p].run)
    /\ IF Parent(arg[p].run) /\ arg[p].todo # {}
       THEN Go(p, "departments") /\ UNCHANGED arg
       ELSE Done(p)
    /\ UNCHANGED <<files, faults, torn, contested>> /\ Unmoved

\* StateSpineTaskLedger.append: the line, then its row.
Append_(p, t) ==
    /\ p = Owner[t] /\ memberFile[t] # None /\ Writable(memberFile[t])
    /\ events[t] < MaxEvents
    /\ Begin(p, "event line", [NoArg EXCEPT !.run = memberFile[t], !.id = t])
    /\ UNCHANGED <<files, index, history>> /\ Unmoved

\* Mutated form: the event is indexed before its line is written.
IndexEventFirst(p) ==
    /\ at[p] = "event line"
    /\ index' = [index EXCEPT !.events[arg[p].id] = @ \cup {events[arg[p].id] + 1}]
    /\ Go(p, "event row")
    /\ UNCHANGED <<files, arg, history>> /\ Unmoved

WriteEvent(p) ==
    /\ at[p] = "event line"
    /\ events' = [events EXCEPT ![arg[p].id] = @ + 1]
    /\ Go(p, "event row")
    /\ UNCHANGED <<runFile, memberFile, checkpoint, snapshot, store, record>>
    /\ UNCHANGED <<index, arg, history>> /\ Unmoved

IndexEvent(p) ==
    /\ at[p] = "event row"
    /\ index' = [index EXCEPT !.events[arg[p].id] = @ \cup {events[arg[p].id]}]
    /\ Done(p)
    /\ UNCHANGED <<files, history>> /\ Unmoved

\* write_checkpoint: the checkpoint, the record of its hash, the row.
WriteCheckpoint(p, t) ==
    /\ p = Owner[t] /\ memberFile[t] # None /\ Writable(memberFile[t])
    /\ checkpoint[t] < MaxVersions
    /\ Begin(p, "checkpoint file", [NoArg EXCEPT !.run = memberFile[t], !.id = t])
    /\ UNCHANGED <<files, index, history>> /\ Unmoved

ReplaceCheckpoint(p) ==
    /\ at[p] = "checkpoint file"
    /\ checkpoint' = [checkpoint EXCEPT ![arg[p].id] = @ + 1]
    /\ Go(p, "snapshot file")
    /\ UNCHANGED <<runFile, memberFile, events, snapshot, store, record>>
    /\ UNCHANGED <<index, arg, history>> /\ Unmoved

\* Mutated form: the hash is that of the checkpoint before.
WriteOldSnapshot(p) ==
    /\ at[p] = "snapshot file"
    /\ snapshot' = [snapshot EXCEPT ![arg[p].id] = checkpoint[arg[p].id] - 1]
    /\ torn' = torn \ {arg[p].id}
    /\ Go(p, "snapshot row")
    /\ UNCHANGED <<runFile, memberFile, events, checkpoint, store, record>>
    /\ UNCHANGED <<index, arg, faults, dirty, contested>> /\ Unmoved

WriteSnapshot(p) ==
    /\ at[p] = "snapshot file"
    /\ snapshot' = [snapshot EXCEPT ![arg[p].id] = checkpoint[arg[p].id]]
    /\ torn' = torn \ {arg[p].id}
    /\ Go(p, "snapshot row")
    /\ UNCHANGED <<runFile, memberFile, events, checkpoint, store, record>>
    /\ UNCHANGED <<index, arg, faults, dirty, contested>> /\ Unmoved

IndexSnapshot(p) ==
    /\ at[p] = "snapshot row"
    /\ IndexRow(p, "snapshots", arg[p].id, snapshot[arg[p].id])
    /\ Done(p)
    /\ UNCHANGED <<files, faults, torn, contested>> /\ Unmoved

\* _register_content: the content, the record, the row.
RegisterContent(p, r, x) ==
    /\ p \in Writer /\ Writable(r)
    /\ x \notin store /\ \A q \in Actor : arg[q].id # x
    /\ Begin(p, "content", [NoArg EXCEPT !.run = r, !.id = x])
    /\ UNCHANGED <<files, index, history>> /\ Unmoved

StoreContent(p) ==
    /\ at[p] = "content"
    /\ store' = store \cup {arg[p].id}
    /\ Go(p, "record file")
    /\ UNCHANGED <<runFile, memberFile, events, checkpoint, snapshot, record>>
    /\ UNCHANGED <<index, arg, history>> /\ Unmoved

WriteRecord(p) ==
    /\ at[p] = "record file"
    /\ record' = [record EXCEPT ![arg[p].id] = arg[p].run]
    /\ Go(p, "artifact row")
    /\ UNCHANGED <<runFile, memberFile, events, checkpoint, snapshot, store>>
    /\ UNCHANGED <<index, arg, history>> /\ Unmoved

IndexArtifact(p) ==
    /\ at[p] = "artifact row"
    /\ IndexRow(p, "artifacts", arg[p].id, arg[p].run)
    /\ Done(p)
    /\ UNCHANGED <<files, faults, torn, contested>> /\ Unmoved

-----------------------------------------------------------------------------
\* open_run reads the file and puts what it has read into the index; recover
\* goes on to compare checkpoints with snapshots and artifacts with their rows.
OpenRun(p, r, next) ==
    /\ run_exists(r)
    /\ Begin(p, next, [NoArg EXCEPT !.run = r, !.seen = runFile[r]])
    /\ UNCHANGED <<files, index, history>> /\ Unmoved

IndexOpened(p) ==
    /\ at[p] \in {"open", "recover"}
    /\ index' = [index EXCEPT !.runs[arg[p].run] = arg[p].seen]
    /\ IF at[p] = "open" THEN Done(p) ELSE Go(p, "list") /\ UNCHANGED arg
    /\ UNCHANGED <<files, history>> /\ Unmoved

TasksOf(r) == {t \in Task : memberFile[t] = r}
ContentOf(r) == {x \in Artifact : index.artifacts[x] = r}

\* recover compares each snapshot record with its checkpoint: it lists the
\* records, and for one after the other reads the record and hashes the
\* checkpoint, while writers go on.
ListSnapshots(p) ==
    /\ at[p] = "list"
    /\ arg' = [arg EXCEPT ![p].todo = {t \in TasksOf(arg[p].run) : snapshot[t] > 0}]
    /\ Go(p, "read")
    /\ UNCHANGED <<files, index, history>> /\ Unmoved

ReadSnapshot(p, t) ==
    /\ at[p] = "read" /\ t \in arg[p].todo
    /\ arg' = [arg EXCEPT ![p].id = t, ![p].version = snapshot[t], ![p].todo = @ \ {t}]
    /\ Go(p, "hash")
    /\ UNCHANGED <<files, index, history>> /\ Unmoved

HashCheckpoint(p) ==
    /\ at[p] = "hash"
    /\ arg' = IF checkpoint[arg[p].id] = arg[p].version
              THEN arg
              ELSE [arg EXCEPT ![p].bad = @ \cup {arg[p].id}]
    /\ Go(p, "read")
    /\ UNCHANGED <<files, index, history>> /\ Unmoved

\* Then it lists the artifacts by their rows and looks for their contents.
ListArtifacts(p) ==
    /\ at[p] = "read" /\ arg[p].todo = {}
    /\ arg' = [arg EXCEPT ![p].todo = ContentOf(arg[p].run)]
    /\ Go(p, "verdict")
    /\ UNCHANGED <<files, index, history>> /\ Unmoved

Compare(p) ==
    \/ ListSnapshots(p) \/ HashCheckpoint(p) \/ ListArtifacts(p)
    \/ \E t \in Task : ReadSnapshot(p, t)

Conclude(p) ==
    /\ at[p] = "verdict"
    /\ Go(p, IF arg[p].bad = {} /\ arg[p].todo \subseteq store
             THEN "recover-ok" ELSE "recover-failed")
    /\ UNCHANGED <<files, index, arg, history>> /\ Unmoved

Return(p) ==
    /\ at[p] \in {"recover-ok", "recover-failed"}
    /\ Done(p)
    /\ UNCHANGED <<files, index, history>> /\ Unmoved

\* rebuild: one transaction, which keeps every other row out.  A record whose
\* run has no file breaks it, and it is rolled back.
Orphans ==
    {m \in Member : memberFile[m] # None /\ ~run_exists(memberFile[m])}
        \cup {x \in Artifact : record[x] # None /\ ~run_exists(record[x])}
\* Mutated form: artifacts are not read again.
RebuiltWithoutArtifacts ==
    [runs |-> runFile, members |-> memberFile, events |-> [t \in Task |-> 1..events[t]],
     snapshots |-> snapshot, artifacts |-> index.artifacts]
Rebuilt ==
    [runs |-> runFile, members |-> memberFile, events |-> [t \in Task |-> 1..events[t]],
     snapshots |-> snapshot, artifacts |-> record]

RebuildIndex(p) ==
    /\ p \in Keeper /\ at[p] = "idle" /\ Orphans = {}
    /\ index' = Rebuilt
    /\ dirty' = FALSE
    /\ contested' = {m \in contested : Registering(m)}
    /\ UNCHANGED <<files, at, arg, faults, torn>> /\ Unmoved

-----------------------------------------------------------------------------
\* What a file of r that changes holds now.
FileValue(r, kind) ==
    CASE kind = "ledger"     -> [t \in TasksOf(r) |-> events[t]]
      [] kind = "checkpoint" -> [t \in TasksOf(r) |-> checkpoint[t]]
      [] kind = "snapshot"   -> [t \in TasksOf(r) |-> snapshot[t]]

Quiet == \A q \in Writer : at[q] = "idle"

\* export_run: _collect_run_files takes the records from the files and the
\* contents from the index; then each file is hashed, and copied.  archive_run
\* exports first and marks the run after.
Collect(p, r, archiving) ==
    /\ p \in Keeper /\ run_exists(r)
    /\ archiving = "archive" => ~is_archived(r)
    /\ archive[r].state # "whole"     \* bound: one whole export of a run
    /\ \A q \in Keeper : arg[q].run # r
    /\ Begin(p, "digest", [NoArg EXCEPT !.run = r, !.id = 1, !.seen = archiving])
    /\ archive' = [archive EXCEPT ![r] =
          [NoExport EXCEPT !.state = "partial",
                           !.records = {x \in Artifact : record[x] = r},
                           !.contents = ContentOf(r) \cap store,
                           !.quiet = Quiet /\ ~dirty]]
    /\ UNCHANGED <<files, index, target, history>>

Digest(p) ==
    /\ at[p] = "digest"
    /\ arg' = [arg EXCEPT ![p].digest = FileValue(arg[p].run, Mutable[arg[p].id])]
    /\ Go(p, "copy")
    /\ UNCHANGED <<files, index, history>> /\ Unmoved

\* The last copy is followed by the manifest.
Copy(p) ==
    /\ at[p] = "copy"
    /\ LET r == arg[p].run
           kind == Mutable[arg[p].id]
           last == arg[p].id = Len(Mutable)
           changed == IF FileValue(r, kind) = arg[p].digest THEN {} ELSE {kind}
       IN /\ archive' = [archive EXCEPT ![r].bad = @ \cup changed,
                                         ![r].state = IF last THEN "whole" ELSE @]
          /\ IF ~last
             THEN /\ Go(p, "digest")
                  /\ arg' = [arg EXCEPT ![p].id = arg[p].id + 1, ![p].digest = <<>>]
             ELSE IF arg[p].seen = "archive"
             THEN Go(p, "archived file") /\ arg' = [arg EXCEPT ![p].digest = <<>>]
             ELSE Done(p)
    /\ UNCHANGED <<files, index, target, history>>

MarkArchived(p) ==
    /\ at[p] = "archived file"
    /\ runFile' = [runFile EXCEPT ![arg[p].run] = "archived"]
    /\ Go(p, "archived row")
    /\ UNCHANGED <<memberFile, events, checkpoint, snapshot, store, record>>
    /\ UNCHANGED <<index, arg, history>> /\ Unmoved

IndexArchived(p) ==
    /\ at[p] = "archived row"
    /\ index' = [index EXCEPT !.runs[arg[p].run] = "archived"]
    /\ Done(p)
    /\ UNCHANGED <<files, history>> /\ Unmoved

\* Mutated form: the row of the restored run comes before its files.
RestoreIndexFirst(p, r) ==
    /\ p \in Keeper /\ archive[r].state = "whole"
    /\ ~target[r].indexed
    /\ at[p] = "idle" /\ Go(p, "restore")
    /\ arg' = [arg EXCEPT ![p] = [NoArg EXCEPT !.run = r, !.id = 1]]
    /\ target' = [target EXCEPT ![r].indexed = TRUE]
    /\ UNCHANGED <<files, index, archive, history>>

\* restore_run under another root: refused only if the index there has the run,
\* each file checked against its hash and put in place, the index built last;
\* whatever goes wrong, the files put in place are removed.
Restore(p, r) ==
    /\ p \in Keeper /\ archive[r].state = "whole"
    /\ ~target[r].indexed
    /\ Begin(p, "restore", [NoArg EXCEPT !.run = r, !.id = 1])
    /\ UNCHANGED <<files, index, history>> /\ Unmoved

HashHolds(r, kind) == kind \notin archive[r].bad

RestoreFile(p) ==
    /\ at[p] = "restore"
    /\ LET r == arg[p].run
           kind == Mutable[arg[p].id]
       IN IF ~HashHolds(r, kind)
          THEN target' = [target EXCEPT ![r].files = {}] /\ Done(p)
          ELSE /\ target' = [target EXCEPT ![r].files = @ \cup {kind}]
               /\ IF arg[p].id = Len(Mutable)
                  THEN Go(p, "restore rest") /\ UNCHANGED arg
                  ELSE arg' = [arg EXCEPT ![p].id = @ + 1] /\ UNCHANGED at
    /\ UNCHANGED <<files, index, archive, history>>

RestoreRest(p) ==
    /\ at[p] = "restore rest"
    /\ target' = [target EXCEPT ![arg[p].run].indexed = TRUE]
    /\ Done(p)
    /\ UNCHANGED <<files, index, archive, history>>

-----------------------------------------------------------------------------
\* A thread dies with its process, or the database is lost: both are what the
\* files are kept for.
Crash(p) ==
    /\ faults < MaxFaults /\ at[p] # "idle"
    /\ faults' = faults + 1
    /\ dirty' = TRUE
    /\ torn' = IF at[p] = "snapshot file" THEN torn \cup {arg[p].id} ELSE torn
    /\ Done(p)
    /\ UNCHANGED <<files, index, contested>> /\ Unmoved

LoseIndex ==
    /\ faults < MaxFaults /\ \A p \in Actor : at[p] = "idle"
    /\ faults' = faults + 1
    /\ index' = EmptyIndex
    /\ dirty' = TRUE
    /\ UNCHANGED <<files, at, arg, torn, contested>> /\ Unmoved

\* RegisterContent does not ask for the run; its callers register content on
\* runs they have created.
WriterStep(p) ==
    \/ \E r \in Run : CreateRun(p, r)
    \/ WriteRunFile(p) \/ IndexRun(p) \/ NextDepartment(p)
    \/ \E r \in Run, t \in Task : RegisterTask(p, r, t)
    \/ WriteMemberFile(p) \/ IndexMember(p)
    \/ \E t \in Task : Append_(p, t) \/ WriteCheckpoint(p, t)
    \/ WriteEvent(p) \/ IndexEvent(p)
    \/ ReplaceCheckpoint(p) \/ WriteSnapshot(p) \/ IndexSnapshot(p)
    \/ \E r \in {r \in Run : run_exists(r)}, x \in Artifact : RegisterContent(p, r, x)
    \/ StoreContent(p) \/ WriteRecord(p) \/ IndexArtifact(p)

KeeperStep(p) ==
    \/ RebuildIndex(p)
    \/ \E r \in Run, why \in {"export", "archive"} : Collect(p, r, why)
    \/ Digest(p) \/ Copy(p) \/ MarkArchived(p) \/ IndexArchived(p)
    \/ \E r \in Run : Restore(p, r)
    \/ RestoreFile(p) \/ RestoreRest(p)
    \/ Compare(p) \/ Conclude(p) \/ Return(p)

Next ==
    \/ \E p \in Writer : WriterStep(p)
    \/ \E p \in Keeper : KeeperStep(p)
    \/ \E p \in Writer, r \in Run : OpenRun(p, r, "open")
    \/ \E p \in Keeper, r \in Run : OpenRun(p, r, "recover")
    \/ \E p \in Actor : IndexOpened(p) \/ Crash(p)
    \/ LoseIndex

Spec == Init /\ [][Next]_vars

-----------------------------------------------------------------------------
TypeOK ==
    /\ runFile \in [Run -> {"none", "open", "archived"}]
    /\ memberFile \in [Member -> Run \cup {None}]
    /\ events \in [Task -> 0..MaxEvents]
    /\ checkpoint \in [Task -> 0..MaxVersions]
    /\ snapshot \in [Task -> 0..MaxVersions]
    /\ store \subseteq Artifact
    /\ record \in [Artifact -> Run \cup {None}]
    /\ DOMAIN index = DOMAIN EmptyIndex
    /\ target \in [Run -> [indexed : BOOLEAN, files : SUBSET {"ledger", "checkpoint", "snapshot"}]]
    /\ faults \in 0..MaxFaults /\ dirty \in BOOLEAN /\ torn \subseteq Task
    /\ contested \subseteq Dept

\* "SQLite is never the sole truth": whatever crashes, is lost or runs at the
\* same time, every row is backed by the file it was derived from, and the row
\* of an artifact by its content.  register_department looks before it writes and
\* keeps no lock, so a department that two threads have been registering at once
\* is excepted until the index is rebuilt.
FilesFirst ==
    /\ \A r \in Run : index.runs[r] # "none" => run_exists(r)
    /\ \A m \in Member \ contested :
          index.members[m] # None => index.members[m] = memberFile[m]
    /\ \A t \in Task :
          /\ index.events[t] \subseteq 1..events[t]
          /\ index.snapshots[t] <= snapshot[t]
          /\ snapshot[t] <= checkpoint[t]
    /\ \A x \in Artifact :
          index.artifacts[x] # None => index.artifacts[x] = record[x] /\ x \in store

\* Once nobody is in the middle of an operation, and nothing was lost since the
\* last rebuild, a query answers from the index what the files say, whatever
\* the operations of other threads and a rebuild did in between.  (Not so the
\* row of the run: archive_run writes its file before its row; nor that of a
\* department that two threads have been registering at once.)
QuietIndexAgrees ==
    (\A p \in Actor : at[p] = "idle") /\ ~dirty =>
        /\ \A m \in Member \ contested : index.members[m] = memberFile[m]
        /\ index.events = [t \in Task |-> 1..events[t]]
        /\ index.snapshots = snapshot
        /\ index.artifacts = record

\* recover, which takes no lock, accuses a checkpoint only if a crash lost its
\* snapshot, or its writer was at work: it has the snapshot still to write, or has
\* written a newer one since recover read it.  And it reports a run as failed
\* only for checkpoints: no row is without its content.
RecoverFailsForCause ==
    [][\A p \in Keeper :
          /\ at[p] = "hash" /\ at'[p] = "read" /\ arg'[p].bad # arg[p].bad =>
                LET t == arg[p].id
                IN  \/ t \in torn
                    \/ at[Owner[t]] = "snapshot file" /\ arg[Owner[t]].id = t
                    \/ snapshot[t] > arg[p].version
          /\ at[p] = "verdict" /\ at'[p] = "recover-failed" => arg[p].bad # {}]_vars

\* The index of the other root never shows a run of which a file is missing,
\* and without a crash nothing stays behind of a restore that failed, for one
\* when the export was taken beside a writer.
RestoreAllOrNothing ==
    \A r \in Run :
        /\ target[r].indexed => target[r].files = {Mutable[i] : i \in DOMAIN Mutable}
        /\ target[r].files # {} =>
              \/ target[r].indexed \/ faults > 0
              \/ \E p \in Keeper : arg[p].run = r /\ at[p] \in {"restore", "restore rest"}

\* An export taken while nobody writes, of a run whose index is in order, comes
\* back whole: each artifact record with its content.
RestoredIsWhole ==
    \A r \in Run : target[r].indexed /\ archive[r].quiet =>
        archive[r].records \subseteq archive[r].contents

\* A restore leaves a whole run under the other root, or nothing.
RestoreIsSound == RestoreAllOrNothing /\ RestoredIsWhole
=============================================================================
