-------------------------- MODULE StateSpineProofs --------------------------
(***************************************************************************)
(* Proofs about the state spine, for any number of runs, members,          *)
(* artifacts, writers and keepers: what the index says is backed by the    *)
(* files (FilesFirst) and agrees with them when all is quiet               *)
(* (QuietIndexAgrees), recovery accuses for cause (RecoverFailsForCause),  *)
(* and a restore is whole or nothing (RestoreIsSound).                     *)
(*                                                                         *)
(* Each table of the index is written by few steps, so there is one        *)
(* invariant per table: it says which row and file values a thread between *)
(* its two writes may rely on.                                             *)
(***************************************************************************)
EXTENDS StateSpine, TLAPS

\* Steps by what they write about.
RunSteps == {"run file", "run row", "departments"}
MemberSteps == {"member file", "member row"}
EventSteps == {"event line", "event row"}
CheckpointSteps == {"checkpoint file", "snapshot file", "snapshot row"}
TaskSteps == EventSteps \cup CheckpointSteps
ContentSteps == {"content", "record file", "artifact row"}
CopySteps == {"digest", "copy"}
ArchiveSteps == {"archived file", "archived row"}
RestoreSteps == {"restore", "restore rest"}
CompareSteps == {"list", "read", "hash"}
OpenSteps == {"open", "recover", "verdict", "recover-ok", "recover-failed"} \cup CompareSteps
WriterSteps == RunSteps \cup MemberSteps \cup TaskSteps \cup ContentSteps
KeeperSteps == CopySteps \cup ArchiveSteps \cup RestoreSteps
Steps == {"idle"} \cup WriterSteps \cup KeeperSteps \cup OpenSteps

Kinds == {"ledger", "checkpoint", "snapshot"}
Status == {"none", "open", "archived"}
Digests == {<<>>} \cup UNION {[T -> Nat] : T \in SUBSET Task}
Args == [run : Run \cup {None},
         id : Member \cup Artifact \cup 1..3 \cup {None},
         seen : Status \cup {"export", "archive"},
         digest : Digests,
         todo : SUBSET (Dept \cup Task \cup Artifact),
         version : Nat,
         bad : SUBSET Task]

FileTypes ==
    /\ runFile \in [Run -> Status]
    /\ memberFile \in [Member -> Run \cup {None}]
    /\ events \in [Task -> Nat]
    /\ checkpoint \in [Task -> Nat]
    /\ snapshot \in [Task -> Nat]
    /\ store \in SUBSET Artifact
    /\ record \in [Artifact -> Run \cup {None}]

Tables == [runs : [Run -> Status],
           members : [Member -> Run \cup {None}],
           events : [Task -> SUBSET Nat],
           snapshots : [Task -> Nat],
           artifacts : [Artifact -> Run \cup {None}]]

IndexTypes ==
    /\ index \in Tables
    /\ faults \in 0..MaxFaults /\ dirty \in BOOLEAN /\ torn \in SUBSET Task
    /\ contested \in SUBSET Dept

Exports == [state : {"none", "partial", "whole"},
            bad : SUBSET Kinds,
            records : SUBSET Artifact,
            contents : SUBSET Artifact,
            quiet : BOOLEAN]

ExportTypes ==
    /\ archive \in [Run -> Exports]
    /\ target \in [Run -> [indexed : BOOLEAN, files : SUBSET Kinds]]

\* What an operation of p knows of its argument a when it has reached step s.
Placed(p, s, a) ==
    /\ s # "idle" => a.run \in Run
    /\ s \in WriterSteps => p \in Writer
    /\ s \in KeeperSteps => p \in Keeper
    /\ s \in MemberSteps =>
          /\ a.id \in Member
          /\ a.id \in Task => p = Owner[a.id]
    /\ s \in TaskSteps => a.id \in Task /\ p = Owner[a.id]
    /\ s \in ContentSteps => a.id \in Artifact
    /\ s \in CopySteps \cup {"restore"} => a.id \in 1..3
    /\ s \in {"open", "recover"} => a.seen \in {"open", "archived"}
    /\ s \in RunSteps \cup MemberSteps => a.todo \in SUBSET Dept
    /\ s \in {"read", "hash"} => a.todo \in SUBSET Task
    /\ s = "hash" => a.id \in Task

PlaceTypes ==
    /\ at \in [Actor -> Steps]
    /\ arg \in [Actor -> Args]
    /\ \A p \in Actor : Placed(p, at[p], arg[p])

TypeInv == FileTypes /\ IndexTypes /\ ExportTypes /\ PlaceTypes

-----------------------------------------------------------------------------
LEMMA InitTypes == Init => TypeInv
  <1> SUFFICES ASSUME Init PROVE TypeInv
    OBVIOUS
  <1>1. FileTypes
    BY DEF Init, FileTypes, Status
  <1>2. IndexTypes
    <2>1. EmptyIndex \in Tables
      BY DEF EmptyIndex, Tables, Status
    <2>2. MaxFaults \in Nat
      BY SpineAssumption
    <2>3. faults \in 0..MaxFaults /\ torn \in SUBSET Task /\ contested \in SUBSET Dept
      BY <2>2 DEF Init
    <2>4. dirty \in BOOLEAN
      BY DEF Init
    <2> QED BY <2>1, <2>3, <2>4 DEF Init, IndexTypes
  <1>3. ExportTypes
    BY DEF Init, ExportTypes, Exports, NoExport, EmptyTarget
  <1>4. PlaceTypes
    <2>1. NoArg \in Args
      BY DEF NoArg, Args, Digests, Status
    <2> QED BY <2>1 DEF Init, PlaceTypes, Placed, Steps, WriterSteps, RunSteps, MemberSteps,
         TaskSteps, EventSteps, CheckpointSteps, ContentSteps, KeeperSteps, CopySteps,
         ArchiveSteps, RestoreSteps
  <1> QED BY <1>1, <1>2, <1>3, <1>4 DEF TypeInv

\* The files change one at a time, each by the step of that name.
LEMMA FileTypesStep == TypeInv /\ [Next]_vars => FileTypes'
  <1> SUFFICES ASSUME TypeInv, [Next]_vars PROVE FileTypes'
    OBVIOUS
  <1> USE DEF TypeInv, FileTypes, PlaceTypes, Placed
  <1>1. ASSUME NEW p \in Actor, WriteRunFile(p) \/ MarkArchived(p) PROVE FileTypes'
    BY <1>1 DEF WriteRunFile, MarkArchived, Status
  <1>2. ASSUME NEW p \in Actor, WriteMemberFile(p) PROVE FileTypes'
    BY <1>2 DEF WriteMemberFile, MemberSteps
  <1>3. ASSUME NEW p \in Actor, WriteEvent(p) \/ ReplaceCheckpoint(p) \/ WriteSnapshot(p)
        PROVE FileTypes'
    <2>1. arg[p].id \in Task
      BY <1>3 DEF WriteEvent, ReplaceCheckpoint, WriteSnapshot, TaskSteps, EventSteps, CheckpointSteps
    <2>2. CASE WriteEvent(p)
      <3>1. events' \in [Task -> Nat]
        <4> HIDE DEF TypeInv, PlaceTypes, Placed
        <4>1. events \in [Task -> Nat] /\ events' = [events EXCEPT ![arg[p].id] = @ + 1]
          BY <2>2 DEF TypeInv, WriteEvent
        <4> QED BY <2>1, <4>1
      <3> QED BY <2>2, <3>1 DEF WriteEvent
    <2>3. CASE ReplaceCheckpoint(p)
      <3>1. checkpoint' \in [Task -> Nat]
        <4> HIDE DEF TypeInv, PlaceTypes, Placed
        <4>1. checkpoint \in [Task -> Nat] /\ checkpoint' = [checkpoint EXCEPT ![arg[p].id] = @ + 1]
          BY <2>3 DEF TypeInv, ReplaceCheckpoint
        <4> QED BY <2>1, <4>1
      <3> QED BY <2>3, <3>1 DEF ReplaceCheckpoint
    <2>4. CASE WriteSnapshot(p)
      BY <2>1, <2>4 DEF WriteSnapshot
    <2> QED BY <1>3, <2>2, <2>3, <2>4
  <1>4. ASSUME NEW p \in Actor, StoreContent(p) \/ WriteRecord(p) PROVE FileTypes'
    BY <1>4 DEF StoreContent, WriteRecord, ContentSteps
  <1>5. ASSUME UNCHANGED files PROVE FileTypes'
    BY <1>5 DEF files
  <1> QED BY <1>1, <1>2, <1>3, <1>4, <1>5, ZenonT(30) DEF Next, WriterStep, KeeperStep, Actor, vars,
       CreateRun, IndexRun, NextDepartment, RegisterTask, IndexMember, Append_, IndexEvent,
       WriteCheckpoint, IndexSnapshot, RegisterContent, IndexArtifact, OpenRun, IndexOpened,
       Conclude, Return, RebuildIndex, Collect, Digest, Copy, IndexArchived, Restore,
       RestoreFile, RestoreRest, Crash, LoseIndex, Compare, ListSnapshots, ReadSnapshot,
       HashCheckpoint, ListArtifacts

\* A row of the type of its table leaves the index typed, the other tables as
\* they were.
LEMMA RunRow ==
    ASSUME NEW i \in Tables, NEW r \in Run, NEW v \in Status
    PROVE  LET j == [i EXCEPT !.runs[r] = v]
           IN  /\ j \in Tables
               /\ j.runs = [i.runs EXCEPT ![r] = v]
               /\ j.members = i.members /\ j.events = i.events
               /\ j.snapshots = i.snapshots /\ j.artifacts = i.artifacts
  BY DEF Tables, Status

LEMMA MemberRow ==
    ASSUME NEW i \in Tables, NEW m \in Member, NEW r \in Run
    PROVE  LET j == [i EXCEPT !.members[m] = r]
           IN  /\ j \in Tables
               /\ j.members = [i.members EXCEPT ![m] = r]
               /\ j.runs = i.runs /\ j.events = i.events
               /\ j.snapshots = i.snapshots /\ j.artifacts = i.artifacts
  BY DEF Tables

LEMMA EventRow ==
    ASSUME NEW i \in Tables, NEW t \in Task, NEW n \in Nat
    PROVE  LET j == [i EXCEPT !.events[t] = @ \cup {n}]
           IN  /\ j \in Tables
               /\ j.events = [i.events EXCEPT ![t] = i.events[t] \cup {n}]
               /\ j.runs = i.runs /\ j.members = i.members
               /\ j.snapshots = i.snapshots /\ j.artifacts = i.artifacts
  <1>1. i.events[t] \cup {n} \in SUBSET Nat
    BY DEF Tables
  <1>2. [i.events EXCEPT ![t] = i.events[t] \cup {n}] \in [Task -> SUBSET Nat]
    BY <1>1 DEF Tables
  <1> QED BY <1>2 DEF Tables

LEMMA SnapshotRow ==
    ASSUME NEW i \in Tables, NEW t \in Task, NEW n \in Nat
    PROVE  LET j == [i EXCEPT !.snapshots[t] = n]
           IN  /\ j \in Tables
               /\ j.snapshots = [i.snapshots EXCEPT ![t] = n]
               /\ j.runs = i.runs /\ j.members = i.members
               /\ j.events = i.events /\ j.artifacts = i.artifacts
  BY DEF Tables

LEMMA ArtifactRow ==
    ASSUME NEW i \in Tables, NEW x \in Artifact, NEW r \in Run
    PROVE  LET j == [i EXCEPT !.artifacts[x] = r]
           IN  /\ j \in Tables
               /\ j.artifacts = [i.artifacts EXCEPT ![x] = r]
               /\ j.runs = i.runs /\ j.members = i.members
               /\ j.events = i.events /\ j.snapshots = i.snapshots
  BY DEF Tables

\* What the step that indexes a member, a snapshot or an artifact leaves: its row,
\* or an index that is known to be behind.
LEMMA MemberIndexed ==
    ASSUME TypeInv, NEW p \in Actor, IndexMember(p)
    PROVE  \/ /\ Parent(arg[p].run) /\ UNCHANGED dirty
              /\ index' \in Tables
              /\ index'.members = [index.members EXCEPT ![arg[p].id] = arg[p].run]
              /\ index'.runs = index.runs /\ index'.events = index.events
              /\ index'.snapshots = index.snapshots /\ index'.artifacts = index.artifacts
           \/ dirty' = TRUE /\ UNCHANGED index
  <1>1. index \in Tables /\ arg[p].id \in Member /\ arg[p].run \in Run
    BY DEF TypeInv, FileTypes, IndexTypes, PlaceTypes, Placed, IndexMember, MemberSteps
  <1>2. \/ dirty' = TRUE /\ UNCHANGED index
        \/ /\ Parent(arg[p].run) /\ UNCHANGED dirty
           /\ index' = [index EXCEPT !.members[arg[p].id] = arg[p].run]
    BY DEF IndexMember, IndexRow
  <1>3. ASSUME index' = [index EXCEPT !.members[arg[p].id] = arg[p].run]
        PROVE  /\ index' \in Tables
               /\ index'.members = [index.members EXCEPT ![arg[p].id] = arg[p].run]
               /\ index'.runs = index.runs /\ index'.events = index.events
               /\ index'.snapshots = index.snapshots /\ index'.artifacts = index.artifacts
    BY <1>1, <1>3, MemberRow
  <1> QED BY <1>2, <1>3

LEMMA SnapshotIndexed ==
    ASSUME TypeInv, NEW p \in Actor, IndexSnapshot(p)
    PROVE  \/ /\ Parent(arg[p].run) /\ UNCHANGED dirty
              /\ index' \in Tables
              /\ index'.snapshots = [index.snapshots EXCEPT ![arg[p].id] = snapshot[arg[p].id]]
              /\ index'.runs = index.runs /\ index'.members = index.members
              /\ index'.events = index.events /\ index'.artifacts = index.artifacts
           \/ dirty' = TRUE /\ UNCHANGED index
  <1>1. index \in Tables /\ arg[p].id \in Task /\ snapshot[arg[p].id] \in Nat
    BY DEF TypeInv, FileTypes, IndexTypes, PlaceTypes, Placed, IndexSnapshot, TaskSteps, CheckpointSteps
  <1>2. \/ dirty' = TRUE /\ UNCHANGED index
        \/ /\ Parent(arg[p].run) /\ UNCHANGED dirty
           /\ index' = [index EXCEPT !.snapshots[arg[p].id] = snapshot[arg[p].id]]
    BY DEF IndexSnapshot, IndexRow
  <1>3. ASSUME index' = [index EXCEPT !.snapshots[arg[p].id] = snapshot[arg[p].id]]
        PROVE  /\ index' \in Tables
               /\ index'.snapshots = [index.snapshots EXCEPT ![arg[p].id] = snapshot[arg[p].id]]
               /\ index'.runs = index.runs /\ index'.members = index.members
               /\ index'.events = index.events /\ index'.artifacts = index.artifacts
    BY <1>1, <1>3, SnapshotRow
  <1> QED BY <1>2, <1>3

LEMMA ArtifactIndexed ==
    ASSUME TypeInv, NEW p \in Actor, IndexArtifact(p)
    PROVE  \/ /\ Parent(arg[p].run) /\ UNCHANGED dirty
              /\ index' \in Tables
              /\ index'.artifacts = [index.artifacts EXCEPT ![arg[p].id] = arg[p].run]
              /\ index'.runs = index.runs /\ index'.members = index.members
              /\ index'.events = index.events /\ index'.snapshots = index.snapshots
           \/ dirty' = TRUE /\ UNCHANGED index
  <1>1. index \in Tables /\ arg[p].id \in Artifact /\ arg[p].run \in Run
    BY DEF TypeInv, FileTypes, IndexTypes, PlaceTypes, Placed, IndexArtifact, ContentSteps
  <1>2. \/ dirty' = TRUE /\ UNCHANGED index
        \/ /\ Parent(arg[p].run) /\ UNCHANGED dirty
           /\ index' = [index EXCEPT !.artifacts[arg[p].id] = arg[p].run]
    BY DEF IndexArtifact, IndexRow
  <1>3. ASSUME index' = [index EXCEPT !.artifacts[arg[p].id] = arg[p].run]
        PROVE  /\ index' \in Tables
               /\ index'.artifacts = [index.artifacts EXCEPT ![arg[p].id] = arg[p].run]
               /\ index'.runs = index.runs /\ index'.members = index.members
               /\ index'.events = index.events /\ index'.snapshots = index.snapshots
    BY <1>1, <1>3, ArtifactRow
  <1> QED BY <1>2, <1>3

LEMMA EventIndexed ==
    ASSUME TypeInv, NEW p \in Actor, IndexEvent(p)
    PROVE  /\ index' \in Tables
           /\ index'.events = [index.events EXCEPT ![arg[p].id] =
                                  index.events[arg[p].id] \cup {events[arg[p].id]}]
           /\ index'.runs = index.runs /\ index'.members = index.members
           /\ index'.snapshots = index.snapshots /\ index'.artifacts = index.artifacts
  <1>1. index \in Tables /\ arg[p].id \in Task /\ events[arg[p].id] \in Nat
    BY DEF TypeInv, FileTypes, IndexTypes, PlaceTypes, Placed, IndexEvent, TaskSteps, EventSteps
  <1>2. index' = [index EXCEPT !.events[arg[p].id] = @ \cup {events[arg[p].id]}]
    BY DEF IndexEvent
  <1> QED BY <1>1, <1>2, EventRow

LEMMA RunIndexed ==
    ASSUME TypeInv, NEW p \in Actor, NEW v \in Status,
           at[p] # "idle", index' = [index EXCEPT !.runs[arg[p].run] = v]
    PROVE  /\ index' \in Tables
           /\ index'.runs = [index.runs EXCEPT ![arg[p].run] = v]
           /\ index'.members = index.members /\ index'.events = index.events
           /\ index'.snapshots = index.snapshots /\ index'.artifacts = index.artifacts
  <1>1. index \in Tables /\ arg[p].run \in Run
    BY DEF TypeInv, IndexTypes, PlaceTypes, Placed
  <1> QED BY <1>1, RunRow

LEMMA IndexTypesStep == TypeInv /\ [Next]_vars => IndexTypes'
  <1> SUFFICES ASSUME TypeInv, [Next]_vars PROVE IndexTypes'
    OBVIOUS
  <1>a. /\ index \in Tables /\ faults \in 0..MaxFaults /\ dirty \in BOOLEAN /\ torn \in SUBSET Task
        /\ contested \in SUBSET Dept
        /\ runFile \in [Run -> Status] /\ memberFile \in [Member -> Run \cup {None}]
        /\ events \in [Task -> Nat] /\ snapshot \in [Task -> Nat]
        /\ record \in [Artifact -> Run \cup {None}]
    BY DEF TypeInv, IndexTypes, FileTypes
  <1>b. MaxFaults \in Nat
    BY SpineAssumption
  <1>1. ASSUME NEW p \in Actor, IndexRun(p) \/ IndexArchived(p) PROVE IndexTypes'
    <2>1. arg[p].run \in Run
      BY <1>1 DEF TypeInv, PlaceTypes, Placed, IndexRun, IndexArchived
    <2>2. index' \in Tables
      <3>1. PICK v \in Status : index' = [index EXCEPT !.runs[arg[p].run] = v]
        BY <1>1 DEF IndexRun, IndexArchived, Status
      <3>2. at[p] # "idle"
        BY <1>1 DEF IndexRun, IndexArchived
      <3> QED BY <3>1, <3>2, RunIndexed
    <2> QED BY <1>a, <1>1, <2>2 DEF IndexRun, IndexArchived, history, IndexTypes
  <1>2. ASSUME NEW p \in Actor, IndexMember(p) PROVE IndexTypes'
    <2>1. index' \in Tables /\ dirty' \in BOOLEAN
      BY <1>2, <1>a, MemberIndexed
    <2> QED BY <1>a, <1>2, <2>1 DEF IndexMember, IndexTypes
  <1>3. ASSUME NEW p \in Actor, IndexEvent(p) PROVE IndexTypes'
    <2>1. arg[p].id \in Task
      BY <1>3 DEF TypeInv, PlaceTypes, Placed, IndexEvent, TaskSteps, EventSteps
    <2>2. index' \in Tables
      BY <1>3, <1>a, <2>1, EventRow DEF IndexEvent
    <2> QED BY <1>a, <1>3, <2>2 DEF IndexEvent, history, IndexTypes
  <1>4. ASSUME NEW p \in Actor, IndexSnapshot(p) PROVE IndexTypes'
    <2>1. index' \in Tables /\ dirty' \in BOOLEAN
      BY <1>4, <1>a, SnapshotIndexed
    <2> QED BY <1>a, <1>4, <2>1 DEF IndexSnapshot, IndexTypes
  <1>5. ASSUME NEW p \in Actor, IndexArtifact(p) PROVE IndexTypes'
    <2>1. index' \in Tables /\ dirty' \in BOOLEAN
      BY <1>5, <1>a, ArtifactIndexed
    <2> QED BY <1>a, <1>5, <2>1 DEF IndexArtifact, IndexTypes
  <1>6. ASSUME NEW p \in Actor, IndexOpened(p) PROVE IndexTypes'
    <2>1. arg[p].run \in Run /\ arg[p].seen \in Status
      BY <1>6 DEF TypeInv, PlaceTypes, Placed, IndexOpened, Status
    <2>2. index' \in Tables
      BY <1>6, <1>a, <2>1, RunRow DEF IndexOpened
    <2> QED BY <1>a, <1>6, <2>2 DEF IndexOpened, history, IndexTypes
  <1>7. ASSUME NEW p \in Actor, RebuildIndex(p) PROVE IndexTypes'
    <2>1. [t \in Task |-> 1..events[t]] \in [Task -> SUBSET Nat]
      BY <1>a
    <2>2. index' \in Tables
      BY <1>7, <1>a, <2>1 DEF RebuildIndex, Rebuilt, Tables
    <2>3. dirty' \in BOOLEAN
      BY <1>7 DEF RebuildIndex
    <2>4. contested' \in SUBSET Dept
      BY <1>7, <1>a DEF RebuildIndex
    <2> QED BY <1>a, <1>7, <2>2, <2>3, <2>4 DEF RebuildIndex, IndexTypes
  <1>8. ASSUME LoseIndex PROVE IndexTypes'
    <2>1. index' \in Tables
      BY <1>8 DEF LoseIndex, EmptyIndex, Tables, Status
    <2>2. faults' \in 0..MaxFaults
      BY <1>8, <1>a, <1>b DEF LoseIndex
    <2>3. dirty' \in BOOLEAN
      BY <1>8 DEF LoseIndex
    <2> QED BY <1>a, <1>8, <2>1, <2>2, <2>3 DEF LoseIndex, IndexTypes
  <1>9. ASSUME NEW p \in Actor, Crash(p) PROVE IndexTypes'
    <2>1. torn' \in SUBSET Task
      <3>1. at[p] = "snapshot file" => arg[p].id \in Task
        BY DEF TypeInv, PlaceTypes, Placed, TaskSteps, CheckpointSteps
      <3> QED BY <1>9, <1>a, <3>1 DEF Crash
    <2>2. faults' \in 0..MaxFaults
      <3>1. faults < MaxFaults /\ faults' = faults + 1
        BY <1>9 DEF Crash
      <3> QED BY <1>a, <1>b, <3>1
    <2>3. dirty' \in BOOLEAN
      BY <1>9 DEF Crash
    <2> QED BY <1>a, <1>9, <2>1, <2>2, <2>3 DEF Crash, IndexTypes
  <1>10. ASSUME NEW p \in Actor, WriteSnapshot(p) PROVE IndexTypes'
    BY <1>10, <1>a DEF WriteSnapshot, IndexTypes
  <1>11. ASSUME UNCHANGED <<index, history>> PROVE IndexTypes'
    BY <1>11, <1>a DEF history, IndexTypes
  <1>12. ASSUME NEW p \in Actor, NextDepartment(p) PROVE IndexTypes'
    <2>1. at[p] = "departments" /\ arg[p].todo \in SUBSET Dept
      BY <1>12 DEF NextDepartment, TypeInv, PlaceTypes, Placed, RunSteps
    <2>2. contested' \in SUBSET Dept
      BY <1>12, <2>1, <1>a DEF NextDepartment
    <2> QED BY <1>12, <1>a, <2>2 DEF NextDepartment, IndexTypes
  <1> QED BY <1>1, <1>2, <1>3, <1>4, <1>5, <1>6, <1>7, <1>8, <1>9, <1>10, <1>11, <1>12, ZenonT(30)
       DEF Next, WriterStep, KeeperStep, Actor, vars, Compare, ListSnapshots, ReadSnapshot,
       HashCheckpoint, ListArtifacts, CreateRun, WriteRunFile, RegisterTask, WriteMemberFile, Append_, WriteEvent,
       WriteCheckpoint, ReplaceCheckpoint, RegisterContent, StoreContent, WriteRecord, OpenRun,
       Conclude, Return, Collect, Digest, Copy, MarkArchived, Restore, RestoreFile, RestoreRest

\* One actor moves at a time.
LEMMA PlaceMoves ==
    ASSUME PlaceTypes, NEW p \in Actor, NEW s \in Steps, NEW a \in Args,
           at' = [at EXCEPT ![p] = s], arg' = [arg EXCEPT ![p] = a], Placed(p, s, a)
    PROVE  PlaceTypes'
  BY DEF PlaceTypes, Placed

LEMMA PlaceGoes ==
    ASSUME PlaceTypes, NEW p \in Actor, NEW s \in Steps,
           Go(p, s), UNCHANGED arg, Placed(p, s, arg[p])
    PROVE  PlaceTypes'
  <1>1. arg[p] \in Args /\ arg' = [arg EXCEPT ![p] = arg[p]]
    BY DEF PlaceTypes
  <1> QED BY <1>1, PlaceMoves DEF Go

LEMMA PlaceDone ==
    ASSUME PlaceTypes, NEW p \in Actor, Done(p)
    PROVE  PlaceTypes'
  <1>1. NoArg \in Args /\ Placed(p, "idle", NoArg)
    BY DEF NoArg, Args, Digests, Status, Placed, WriterSteps, RunSteps, MemberSteps,
       TaskSteps, EventSteps, CheckpointSteps, ContentSteps, KeeperSteps, CopySteps,
       ArchiveSteps, RestoreSteps
  <1> QED BY <1>1, PlaceMoves DEF Done, Steps

\* The arguments the operations begin with.
LEMMA Arguments ==
    /\ NoArg \in Args
    /\ \A r \in Run, d \in SUBSET Dept : [NoArg EXCEPT !.run = r, !.todo = d] \in Args
    /\ \A r \in Run, i \in Member \cup Artifact \cup 1..3 :
          [NoArg EXCEPT !.run = r, !.id = i] \in Args
    /\ \A r \in Run, e \in Status : [NoArg EXCEPT !.run = r, !.seen = e] \in Args
    /\ \A r \in Run, e \in {"export", "archive"} :
          [NoArg EXCEPT !.run = r, !.id = 1, !.seen = e] \in Args
  <1>1. <<>> \in Digests
    BY DEF Digests
  <1>2. NoArg \in Args
    BY <1>1 DEF NoArg, Args, Status
  <1>3. ASSUME NEW r \in Run, NEW d \in SUBSET Dept
        PROVE  [NoArg EXCEPT !.run = r, !.todo = d] \in Args
    BY <1>1 DEF NoArg, Args, Status
  <1>4. ASSUME NEW r \in Run, NEW i \in Member \cup Artifact \cup 1..3
        PROVE  [NoArg EXCEPT !.run = r, !.id = i] \in Args
    BY <1>1 DEF NoArg, Args, Status
  <1>5. ASSUME NEW r \in Run, NEW e \in Status
        PROVE  [NoArg EXCEPT !.run = r, !.seen = e] \in Args
    BY <1>1 DEF NoArg, Args, Status
  <1>6. ASSUME NEW r \in Run, NEW e \in {"export", "archive"}
        PROVE  [NoArg EXCEPT !.run = r, !.id = 1, !.seen = e] \in Args
    <2>1. 1 \in Member \cup Artifact \cup 1..3 \cup {None}
      OBVIOUS
    <2> QED BY <1>1, <2>1 DEF NoArg, Args
  <1> QED BY <1>2, <1>3, <1>4, <1>5, <1>6

LEMMA PlaceTypesStep == TypeInv /\ [Next]_vars => PlaceTypes'
  <1> SUFFICES ASSUME TypeInv, [Next]_vars PROVE PlaceTypes'
    OBVIOUS
  <1>a. FileTypes /\ PlaceTypes
    BY DEF TypeInv
  <1> USE DEF WriterSteps, KeeperSteps, Steps, RunSteps, MemberSteps, TaskSteps, EventSteps,
        CheckpointSteps, ContentSteps, CopySteps, ArchiveSteps, RestoreSteps, OpenSteps, CompareSteps
  <1>1. ASSUME NEW p \in Writer, NEW r \in Run, CreateRun(p, r) PROVE PlaceTypes'
    <2> DEFINE a == [NoArg EXCEPT !.run = r, !.todo = Dept]
    <2>1. a \in Args /\ a.run = r
      BY Arguments DEF NoArg
    <2>2. Placed(p, "run file", a)
      BY <2>1 DEF Placed
    <2> QED BY <1>1, <1>a, <2>1, <2>2, PlaceMoves DEF CreateRun, Begin, Actor
  <1>2. ASSUME NEW p \in Actor, NEW r \in Run, NEW next \in {"open", "recover"}, OpenRun(p, r, next)
        PROVE PlaceTypes'
    <2> DEFINE a == [NoArg EXCEPT !.run = r, !.seen = runFile[r]]
    <2>1. a \in Args /\ a.run = r /\ a.seen \in {"open", "archived"}
      BY <1>a, <1>2, Arguments DEF NoArg, OpenRun, run_exists, FileTypes, Status
    <2>2. Placed(p, next, a)
      BY <2>1 DEF Placed
    <2> QED BY <1>2, <1>a, <2>1, <2>2, PlaceMoves DEF OpenRun, Begin
  <1>3. ASSUME NEW p \in Writer, NEW r \in Run, NEW t \in Task, RegisterTask(p, r, t)
        PROVE PlaceTypes'
    <2> DEFINE a == [NoArg EXCEPT !.run = r, !.id = t]
    <2>1. a \in Args /\ a.run = r /\ a.id = t /\ a.todo = {}
      BY Arguments DEF NoArg, Member
    <2>2. Placed(p, "member file", a)
      BY <2>1, <1>3 DEF Placed, Member, RegisterTask
    <2> QED BY <1>3, <1>a, <2>1, <2>2, PlaceMoves DEF RegisterTask, Begin, Actor
  <1>4. ASSUME NEW p \in Writer, NEW t \in Task, Append_(p, t) \/ WriteCheckpoint(p, t)
        PROVE PlaceTypes'
    <2> DEFINE a == [NoArg EXCEPT !.run = memberFile[t], !.id = t]
    <2>1. a \in Args /\ a.run \in Run /\ a.id = t
      BY <1>4, <1>a, Arguments DEF NoArg, Member, Append_, WriteCheckpoint, FileTypes
    <2>2. Placed(p, "event line", a) /\ Placed(p, "checkpoint file", a)
      BY <2>1, <1>4 DEF Placed, Append_, WriteCheckpoint
    <2>3. CASE Append_(p, t)
      BY <2>3, <1>a, <2>1, <2>2, PlaceMoves DEF Append_, Begin, Actor
    <2>4. CASE WriteCheckpoint(p, t)
      BY <2>4, <1>a, <2>1, <2>2, PlaceMoves DEF WriteCheckpoint, Begin, Actor
    <2> QED BY <1>4, <2>3, <2>4
  <1>5. ASSUME NEW p \in Writer, NEW r \in Run, NEW x \in Artifact, RegisterContent(p, r, x)
        PROVE PlaceTypes'
    <2> DEFINE a == [NoArg EXCEPT !.run = r, !.id = x]
    <2>1. a \in Args /\ a.run = r /\ a.id = x
      BY Arguments DEF NoArg
    <2>2. Placed(p, "content", a)
      BY <2>1 DEF Placed
    <2> QED BY <1>5, <1>a, <2>1, <2>2, PlaceMoves DEF RegisterContent, Begin, Actor
  <1>6. ASSUME NEW p \in Keeper, NEW r \in Run, NEW why \in {"export", "archive"}, Collect(p, r, why)
        PROVE PlaceTypes'
    <2> DEFINE a == [NoArg EXCEPT !.run = r, !.id = 1, !.seen = why]
    <2>1. a \in Args /\ a.run = r /\ a.id = 1
      BY Arguments DEF NoArg
    <2>2. Placed(p, "digest", a)
      BY <2>1 DEF Placed
    <2> QED BY <1>6, <1>a, <2>1, <2>2, PlaceMoves DEF Collect, Begin, Actor
  <1>7. ASSUME NEW p \in Keeper, NEW r \in Run, Restore(p, r) PROVE PlaceTypes'
    <2> DEFINE a == [NoArg EXCEPT !.run = r, !.id = 1]
    <2>0. 1 \in Member \cup Artifact \cup 1..3
      OBVIOUS
    <2>1. a \in Args /\ a.run = r /\ a.id = 1
      BY <2>0, Arguments DEF NoArg
    <2>2. Placed(p, "restore", a)
      BY <2>1 DEF Placed
    <2> QED BY <1>7, <1>a, <2>1, <2>2, PlaceMoves DEF Restore, Begin, Actor
  <1>8. ASSUME NEW p \in Actor, Done(p) PROVE PlaceTypes'
    BY <1>8, <1>a, PlaceDone
  <1>9. ASSUME NEW p \in Actor, NEW s \in Steps, Go(p, s), UNCHANGED arg, Placed(p, s, arg[p])
        PROVE PlaceTypes'
    BY <1>9, <1>a, PlaceGoes
  <1>10. ASSUME NEW p \in Actor, Placed(p, at[p], arg[p]),
                \/ WriteRunFile(p) \/ IndexRun(p) \/ WriteMemberFile(p) \/ IndexMember(p)
                \/ WriteEvent(p) \/ IndexEvent(p)
        PROVE PlaceTypes'
    BY <1>8, <1>9, <1>10 DEF WriteRunFile, IndexRun, WriteMemberFile, IndexMember, WriteEvent,
       IndexEvent, Placed
  <1>11. ASSUME NEW p \in Actor, Placed(p, at[p], arg[p]),
                \/ ReplaceCheckpoint(p) \/ WriteSnapshot(p) \/ IndexSnapshot(p)
                \/ StoreContent(p) \/ WriteRecord(p) \/ IndexArtifact(p)
        PROVE PlaceTypes'
    BY <1>8, <1>9, <1>11 DEF ReplaceCheckpoint, WriteSnapshot, IndexSnapshot, StoreContent,
       WriteRecord, IndexArtifact, Placed
  <1>12. ASSUME NEW p \in Actor, Placed(p, at[p], arg[p]),
                \/ IndexOpened(p) \/ Return(p) \/ Crash(p)
                \/ MarkArchived(p) \/ IndexArchived(p) \/ RestoreRest(p)
        PROVE PlaceTypes'
    BY <1>8, <1>9, <1>12 DEF IndexOpened, Return, Crash, MarkArchived, IndexArchived,
       RestoreRest, Placed
  <1>13. ASSUME NEW p \in Actor, Placed(p, at[p], arg[p]), Conclude(p) PROVE PlaceTypes'
    BY <1>9, <1>13 DEF Conclude, Placed
  <1>14. ASSUME NEW p \in Actor, Placed(p, at[p], arg[p]), NextDepartment(p) PROVE PlaceTypes'
    <2>0. arg[p].todo \in SUBSET Dept
      BY <1>14 DEF NextDepartment, Placed, RunSteps
    <2>1. PICK d \in arg[p].todo :
             IF MayBind(arg[p].run, d)
             THEN /\ Go(p, "member file")
                  /\ arg' = [arg EXCEPT ![p].id = d, ![p].todo = @ \ {d}]
             ELSE Done(p)
      BY <1>14 DEF NextDepartment
    <2>2. CASE Done(p)
      BY <2>2, <1>8
    <2>3. CASE /\ Go(p, "member file")
               /\ arg' = [arg EXCEPT ![p].id = d, ![p].todo = @ \ {d}]
      <3> DEFINE a == [arg[p] EXCEPT !.id = d, !.todo = @ \ {d}]
      <3>1. arg[p] \in Args /\ d \in Dept /\ d \in Member /\ d \notin Task
        BY <1>a, <2>0, <2>1, SpineAssumption DEF PlaceTypes, Args, Member
      <3>2. a \in Args /\ a.run = arg[p].run /\ a.id = d /\ a.todo \in SUBSET Dept
        BY <2>0, <3>1 DEF Args
      <3>3. Placed(p, "member file", a)
        BY <1>14, <3>1, <3>2 DEF Placed, NextDepartment
      <3>4. arg' = [arg EXCEPT ![p] = a]
        BY <2>3
      <3> QED BY <1>a, <2>3, <3>2, <3>3, <3>4, PlaceMoves DEF Go
    <2> QED BY <2>1, <2>2, <2>3
  <1>15. ASSUME NEW p \in Actor, Placed(p, at[p], arg[p]), Digest(p) PROVE PlaceTypes'
    <2> DEFINE f == FileValue(arg[p].run, Mutable[arg[p].id])
               a == [arg[p] EXCEPT !.digest = f]
    <2>1. arg[p] \in Args /\ arg[p].id \in 1..3
      BY <1>a, <1>15 DEF PlaceTypes, Digest, Placed
    <2>2. TasksOf(arg[p].run) \in SUBSET Task
      BY DEF TasksOf
    <2>3. f \in [TasksOf(arg[p].run) -> Nat]
      BY <1>a, <2>1, <2>2 DEF FileValue, Mutable, FileTypes
    <2>4. f \in Digests
      BY <2>2, <2>3 DEF Digests
    <2>5. a \in Args /\ a.run = arg[p].run /\ a.id = arg[p].id
      BY <2>1, <2>4 DEF Args
    <2>6. Placed(p, "copy", a)
      BY <1>15, <2>1, <2>5 DEF Placed, Digest
    <2>7. arg' = [arg EXCEPT ![p] = a] /\ at' = [at EXCEPT ![p] = "copy"]
      BY <1>15 DEF Digest, Go
    <2> QED BY <1>a, <2>5, <2>6, <2>7, PlaceMoves
  <1>16. ASSUME NEW p \in Actor, Placed(p, at[p], arg[p]), Copy(p) PROVE PlaceTypes'
    <2> DEFINE a == [arg[p] EXCEPT !.digest = <<>>]
               b == [arg[p] EXCEPT !.id = arg[p].id + 1, !.digest = <<>>]
    <2>1. arg[p] \in Args /\ arg[p].id \in 1..3 /\ <<>> \in Digests
      BY <1>a, <1>16 DEF PlaceTypes, Copy, Placed, Digests
    <2>2. Len(Mutable) = 3
      BY DEF Mutable
    <2>3. \/ Done(p)
          \/ Go(p, "archived file") /\ arg' = [arg EXCEPT ![p] = a]
          \/ arg[p].id # 3 /\ Go(p, "digest") /\ arg' = [arg EXCEPT ![p] = b]
      BY <1>16, <2>2 DEF Copy
    <2>4. a \in Args /\ a.run = arg[p].run
      BY <2>1 DEF Args
    <2>5. Placed(p, "archived file", a)
      BY <1>16, <2>4 DEF Copy, Placed
    <2>6. ASSUME arg[p].id # 3
          PROVE  b \in Args /\ b.run = arg[p].run /\ b.id \in 1..3
      <3>1. arg[p].id + 1 \in 1..3
        BY <2>1, <2>6
      <3> QED BY <2>1, <3>1 DEF Args
    <2>7. ASSUME arg[p].id # 3
          PROVE  Placed(p, "digest", b)
      BY <1>16, <2>6, <2>7 DEF Copy, Placed
    <2> QED BY <1>8, <1>a, <2>3, <2>4, <2>5, <2>6, <2>7, PlaceMoves DEF Go
  <1>17. ASSUME NEW p \in Actor, Placed(p, at[p], arg[p]), RestoreFile(p) PROVE PlaceTypes'
    <2> DEFINE b == [arg[p] EXCEPT !.id = @ + 1]
    <2>1. arg[p] \in Args /\ arg[p].id \in 1..3
      BY <1>a, <1>17 DEF PlaceTypes, RestoreFile, Placed
    <2>2. Len(Mutable) = 3
      BY DEF Mutable
    <2>3. \/ Done(p)
          \/ Go(p, "restore rest") /\ UNCHANGED arg
          \/ arg[p].id # 3 /\ UNCHANGED at /\ arg' = [arg EXCEPT ![p] = b]
      BY <1>17, <2>2 DEF RestoreFile
    <2>4. Placed(p, "restore rest", arg[p])
      BY <1>17 DEF RestoreFile, Placed
    <2>5. ASSUME arg[p].id # 3
          PROVE  b \in Args /\ b.run = arg[p].run /\ b.id \in 1..3
      BY <2>1, <2>5 DEF Args
    <2>6. ASSUME arg[p].id # 3
          PROVE  Placed(p, at[p], b)
      BY <1>17, <2>5, <2>6 DEF RestoreFile, Placed
    <2>7. at[p] \in Steps /\ at = [at EXCEPT ![p] = at[p]]
      BY <1>a DEF PlaceTypes
    <2> QED BY <1>8, <1>9, <1>a, <2>3, <2>4, <2>5, <2>6, <2>7, PlaceMoves
  <1>20. ASSUME NEW p \in Actor, Placed(p, at[p], arg[p]), Compare(p) PROVE PlaceTypes'
    <2>1. arg[p] \in Args /\ arg[p].run \in Run
      BY <1>a, <1>20 DEF PlaceTypes, Compare, ListSnapshots, ReadSnapshot, HashCheckpoint,
         ListArtifacts, Placed
    <2>2. CASE ListSnapshots(p)
      <3> DEFINE todo == {t \in TasksOf(arg[p].run) : snapshot[t] > 0}
                 a == [arg[p] EXCEPT !.todo = todo]
      <3>1. todo \in SUBSET Task
        BY DEF TasksOf
      <3>2. a \in Args /\ a.run = arg[p].run /\ a.todo = todo
        <4> HIDE DEF todo
        <4> QED BY <2>1, <3>1 DEF Args
      <3>3. Placed(p, "read", a)
        <4> HIDE DEF a, todo
        <4> QED BY <2>1, <3>1, <3>2 DEF Placed
      <3> QED BY <1>a, <2>2, <3>2, <3>3, PlaceMoves DEF ListSnapshots, Go
    <2>3. ASSUME NEW t \in Task, ReadSnapshot(p, t) PROVE PlaceTypes'
      <3> DEFINE a == [arg[p] EXCEPT !.id = t, !.version = snapshot[t], !.todo = @ \ {t}]
      <3>1. snapshot[t] \in Nat /\ t \in Member /\ arg[p].todo \in SUBSET Task
        BY <1>a, <1>20, <2>3 DEF FileTypes, Member, ReadSnapshot, Placed
      <3>2. a \in Args /\ a.run = arg[p].run /\ a.id = t /\ a.todo \in SUBSET Task
        BY <2>1, <3>1 DEF Args
      <3>3. Placed(p, "hash", a)
        <4> HIDE DEF a
        <4> QED BY <2>1, <3>2 DEF Placed
      <3>4. arg' = [arg EXCEPT ![p] = a] /\ at' = [at EXCEPT ![p] = "hash"]
        BY <2>3 DEF ReadSnapshot, Go
      <3> QED BY <1>a, <3>2, <3>3, <3>4, PlaceMoves
    <2>4. CASE HashCheckpoint(p)
      <3> DEFINE a == [arg[p] EXCEPT !.bad = @ \cup {arg[p].id}]
      <3>1. arg[p].id \in Task /\ arg[p].todo \in SUBSET Task
        BY <1>20, <2>4 DEF HashCheckpoint, Placed
      <3>2. a \in Args /\ a.run = arg[p].run /\ a.todo = arg[p].todo
        BY <2>1, <3>1 DEF Args
      <3>3. Placed(p, "read", a) /\ Placed(p, "read", arg[p])
        <4> HIDE DEF a
        <4> QED BY <2>1, <3>1, <3>2 DEF Placed
      <3>4. arg' \in {arg, [arg EXCEPT ![p] = a]} /\ Go(p, "read")
        BY <2>4 DEF HashCheckpoint
      <3> QED BY <1>9, <1>a, <3>2, <3>3, <3>4, PlaceMoves DEF Go
    <2>5. CASE ListArtifacts(p)
      <3> DEFINE todo == ContentOf(arg[p].run)
                 a == [arg[p] EXCEPT !.todo = todo]
      <3>1. todo \in SUBSET Artifact
        BY DEF ContentOf
      <3>2. a \in Args /\ a.run = arg[p].run
        <4> HIDE DEF todo
        <4> QED BY <2>1, <3>1 DEF Args
      <3>3. Placed(p, "verdict", a)
        <4> HIDE DEF a, todo
        <4> QED BY <2>1, <3>2 DEF Placed
      <3> QED BY <1>a, <2>5, <3>2, <3>3, PlaceMoves DEF ListArtifacts, Go
    <2> QED BY <1>20, <2>2, <2>3, <2>4, <2>5 DEF Compare
  <1>18. ASSUME UNCHANGED <<at, arg>> PROVE PlaceTypes'
    BY <1>18, <1>a DEF PlaceTypes, Placed
  <1>19. \A p \in Actor : Placed(p, at[p], arg[p])
    BY <1>a DEF PlaceTypes
  <1> HIDE DEF WriterSteps, KeeperSteps, Steps, RunSteps, MemberSteps, TaskSteps, EventSteps,
        CheckpointSteps, ContentSteps, CopySteps, ArchiveSteps, RestoreSteps, OpenSteps, CompareSteps
  <1> QED BY <1>1, <1>2, <1>3, <1>4, <1>5, <1>6, <1>7, <1>10, <1>11, <1>12, <1>13, <1>14,
       <1>15, <1>16, <1>17, <1>18, <1>19, <1>20
       DEF Next, WriterStep, KeeperStep, Actor, vars, RebuildIndex, LoseIndex

LEMMA ExportTypesStep == TypeInv /\ [Next]_vars => ExportTypes'
  <1> SUFFICES ASSUME TypeInv, [Next]_vars PROVE ExportTypes'
    OBVIOUS
  <1>a. ExportTypes /\ PlaceTypes /\ IndexTypes
    BY DEF TypeInv
  <1>b. DOMAIN Mutable = 1..3 /\ \A i \in 1..3 : Mutable[i] \in Kinds
    BY DEF Mutable, Kinds
  <1>1. ASSUME NEW p \in Keeper, NEW r \in Run, NEW why \in {"export", "archive"}, Collect(p, r, why)
        PROVE ExportTypes'
    <2> DEFINE e == [NoExport EXCEPT !.state = "partial",
                           !.records = {x \in Artifact : record[x] = r},
                           !.contents = ContentOf(r) \cap store,
                           !.quiet = Quiet /\ ~dirty]
    <2>1. (Quiet /\ ~dirty) \in BOOLEAN
      BY DEF Quiet
    <2>2. ContentOf(r) \cap store \in SUBSET Artifact
      BY DEF ContentOf
    <2>3. e \in Exports
      BY <2>1, <2>2 DEF Exports, NoExport
    <2>4. archive' = [archive EXCEPT ![r] = e] /\ UNCHANGED target
      BY <1>1 DEF Collect
    <2> QED BY <1>a, <2>3, <2>4 DEF ExportTypes
  <1>2. ASSUME NEW p \in Actor, Copy(p) PROVE ExportTypes'
    <2> DEFINE r == arg[p].run
    <2>1. arg[p].id \in 1..3 /\ r \in Run
      BY <1>2, <1>a DEF Copy, PlaceTypes, Placed, CopySteps
    <2>2. Mutable[arg[p].id] \in Kinds
      BY <1>b, <2>1
    <2>3. PICK c \in SUBSET Kinds, st \in {"none", "partial", "whole"} :
             archive' = [archive EXCEPT ![r].bad = @ \cup c, ![r].state = st]
      <3> DEFINE c == IF FileValue(r, Mutable[arg[p].id]) = arg[p].digest THEN {} ELSE {Mutable[arg[p].id]}
                 st == IF arg[p].id = Len(Mutable) THEN "whole" ELSE archive[r].state
      <3>1. c \in SUBSET Kinds
        BY <2>2
      <3>2. archive[r].state \in {"none", "partial", "whole"}
        BY <1>a, <2>1 DEF ExportTypes, Exports
      <3>3. st \in {"none", "partial", "whole"}
        BY <3>2
      <3>4. archive' = [archive EXCEPT ![r].bad = @ \cup c, ![r].state = st]
        BY <1>2, <1>a, <2>1 DEF Copy, ExportTypes, Exports
      <3> QED BY <3>1, <3>3, <3>4
    <2> DEFINE e == [archive[r] EXCEPT !.bad = @ \cup c, !.state = st]
    <2>4. e \in Exports
      <3>1. archive[r] \in Exports
        BY <1>a, <2>1 DEF ExportTypes
      <3>2. archive[r].bad \cup c \in SUBSET Kinds
        BY <3>1 DEF Exports
      <3> QED BY <3>1, <3>2 DEF Exports
    <2>5. archive' = [archive EXCEPT ![r] = e]
      BY <2>3
    <2>6. UNCHANGED target
      BY <1>2 DEF Copy
    <2> QED BY <1>a, <2>4, <2>5, <2>6 DEF ExportTypes
  <1>3. ASSUME NEW p \in Actor, RestoreFile(p) PROVE ExportTypes'
    <2> DEFINE r == arg[p].run
    <2>1. arg[p].id \in 1..3 /\ r \in Run
      BY <1>3, <1>a DEF RestoreFile, PlaceTypes, Placed, CopySteps
    <2>2. Mutable[arg[p].id] \in Kinds
      BY <1>b, <2>1
    <2>3. PICK f \in SUBSET Kinds : target' = [target EXCEPT ![r].files = f]
      <3>1. target[r].files \cup {Mutable[arg[p].id]} \in SUBSET Kinds
        BY <1>a, <2>1, <2>2 DEF ExportTypes
      <3>2. \/ target' = [target EXCEPT ![r].files = {}]
            \/ target' = [target EXCEPT ![r].files = target[r].files \cup {Mutable[arg[p].id]}]
        BY <1>3 DEF RestoreFile
      <3> QED BY <3>1, <3>2
    <2> QED BY <1>3, <1>a, <2>1, <2>3 DEF ExportTypes, RestoreFile
  <1>4. ASSUME NEW p \in Actor, RestoreRest(p) PROVE ExportTypes'
    <2>1. arg[p].run \in Run
      BY <1>4, <1>a DEF RestoreRest, PlaceTypes, Placed
    <2> QED BY <1>4, <1>a, <2>1 DEF ExportTypes, RestoreRest
  <1>5. ASSUME UNCHANGED <<archive, target>> PROVE ExportTypes'
    BY <1>5, <1>a DEF ExportTypes
  <1> QED BY <1>1, <1>2, <1>3, <1>4, <1>5, ZenonT(30) DEF Next, WriterStep, KeeperStep, Actor, vars, Unmoved,
       CreateRun, WriteRunFile, IndexRun, NextDepartment, RegisterTask, WriteMemberFile, IndexMember,
       Append_, WriteEvent, IndexEvent, WriteCheckpoint, ReplaceCheckpoint, WriteSnapshot,
       IndexSnapshot, RegisterContent, StoreContent, WriteRecord, IndexArtifact, OpenRun,
       Compare, ListSnapshots, ReadSnapshot, HashCheckpoint, ListArtifacts,
       IndexOpened, Conclude, Return, RebuildIndex, Digest, MarkArchived, IndexArchived, Restore,
       Crash, LoseIndex

-----------------------------------------------------------------------------
(* The invariants, one per table.  The first conjunct of each says what a   *)
(* thread at step s with argument a relies on; the last what an index that  *)
(* nothing was lost from still lacks: the row some thread is about to write.*)

RunKnown(s, a) == s \in {"run row", "archived row", "open", "recover"} => run_exists(a.run)
RunInv ==
    /\ \A p \in Actor : RunKnown(at[p], arg[p])
    /\ \A r \in Run : index.runs[r] # "none" => run_exists(r)

MemberBound(s, a) ==
    a.id \notin contested =>
       /\ s = "member file" => memberFile[a.id] \in {a.run, None}
       /\ s = "member row" => memberFile[a.id] = a.run
MemberPending(m) == \E p \in Actor : at[p] = "member row" /\ arg[p].id = m
MemberInv ==
    /\ \A p \in Actor : MemberBound(at[p], arg[p])
    /\ \A p, q \in Actor :
          p # q /\ at[p] \in MemberSteps /\ at[q] \in MemberSteps /\ arg[p].id = arg[q].id
          => arg[p].id \in contested
    /\ \A m \in Member \ contested :
          index.members[m] # None => index.members[m] = memberFile[m]
    /\ \A m \in Member \ contested :
          dirty \/ index.members[m] = memberFile[m] \/ MemberPending(m)

\* A task is written by its owner alone.
Holds(t, s) == at[Owner[t]] = s /\ arg[Owner[t]].id = t

EventRoom(s, a) ==
    /\ s = "event line" => events[a.id] < MaxEvents
    /\ s = "event row" => events[a.id] >= 1
EventInv ==
    /\ \A p \in Actor : EventRoom(at[p], arg[p])
    /\ \A t \in Task : events[t] <= MaxEvents /\ index.events[t] \subseteq 1..events[t]
    /\ \A t \in Task :
          \/ dirty
          \/ index.events[t] = 1..events[t]
          \/ Holds(t, "event row") /\ 1..events[t] \subseteq index.events[t] \cup {events[t]}

VersionRoom(s, a) == s = "checkpoint file" => checkpoint[a.id] < MaxVersions
SnapshotInv ==
    /\ \A p \in Actor : VersionRoom(at[p], arg[p])
    /\ \A t \in Task : checkpoint[t] <= MaxVersions
    /\ \A t \in Task : index.snapshots[t] <= snapshot[t] /\ snapshot[t] <= checkpoint[t]
    /\ \A t \in Task : snapshot[t] = checkpoint[t] \/ t \in torn \/ Holds(t, "snapshot file")
    /\ \A t \in Task : dirty \/ index.snapshots[t] = snapshot[t] \/ Holds(t, "snapshot row")

ContentKept(s, a) ==
    /\ s = "content" => a.id \notin store
    /\ s = "record file" => a.id \in store /\ record[a.id] = None
    /\ s = "artifact row" => a.id \in store /\ record[a.id] = a.run
ArtifactPending(x) == \E p \in Writer : at[p] = "artifact row" /\ arg[p].id = x
ArtifactInv ==
    /\ \A p \in Actor : ContentKept(at[p], arg[p])
    /\ \A p, q \in Actor :
          p # q /\ at[p] \in ContentSteps /\ at[q] \in ContentSteps => arg[p].id # arg[q].id
    /\ \A x \in Artifact : record[x] # None => x \in store
    /\ \A x \in Artifact : index.artifacts[x] # None => index.artifacts[x] = record[x]
    /\ \A x \in Artifact : dirty \/ index.artifacts[x] = record[x] \/ ArtifactPending(x)

\* A copy is in nobody else's hands, and nobody restores from it; a restore has
\* found nothing wrong with the kinds before the one it has reached.
Transfer(s, a) ==
    /\ s \in CopySteps => archive[a.run].state = "partial"
    /\ s \in RestoreSteps => archive[a.run].state = "whole"
    /\ s = "restore" => \A i \in 1..3 : i < a.id => Mutable[i] \notin archive[a.run].bad
    /\ s = "restore" /\ archive[a.run].bad = {} =>
          \A i \in 1..3 : i < a.id => Mutable[i] \in target[a.run].files
    /\ s = "restore rest" => archive[a.run].bad = {} /\ target[a.run].files = Kinds
ExportInv ==
    /\ \A p \in Actor : Transfer(at[p], arg[p])
    /\ \A p, q \in Actor :
          p # q /\ at[p] \in CopySteps /\ at[q] \in CopySteps => arg[p].run # arg[q].run
    /\ \A r \in Run : archive[r].quiet => archive[r].records \subseteq archive[r].contents
    /\ \A r \in Run : target[r].indexed =>
          archive[r].state = "whole" /\ archive[r].bad = {} /\ target[r].files = Kinds
    /\ \A r \in Run : target[r].files # {} =>
          \/ target[r].indexed \/ faults > 0
          \/ \E p \in Keeper : arg[p].run = r /\ at[p] \in RestoreSteps

\* What recover has read is overtaken by later snapshots only, and contents stay.
RecoverKnows(s, a) ==
    /\ s = "hash" => a.version <= snapshot[a.id]
    /\ s = "verdict" => a.todo \subseteq store
RecoverInv == \A p \in Actor : RecoverKnows(at[p], arg[p])

LEMMA RunsIndexed ==
    ASSUME TypeInv, NEW p \in Actor, IndexRun(p) \/ IndexArchived(p) \/ IndexOpened(p)
    PROVE  /\ index' \in Tables
           /\ index'.members = index.members /\ index'.events = index.events
           /\ index'.snapshots = index.snapshots /\ index'.artifacts = index.artifacts
  <1>1. PICK v \in Status : index' = [index EXCEPT !.runs[arg[p].run] = v]
    BY DEF IndexRun, IndexArchived, IndexOpened, Status, TypeInv, PlaceTypes, Placed
  <1>2. at[p] # "idle"
    BY DEF IndexRun, IndexArchived, IndexOpened
  <1> QED BY <1>1, <1>2, RunIndexed

\* Only p moves.
Turn(p) == \A q \in Actor \ {p} : at'[q] = at[q] /\ arg'[q] = arg[q]

LEMMA Turns ==
    ASSUME TypeInv, NEW p \in Actor
    PROVE  /\ \A s, a : Begin(p, s, a) => Turn(p) /\ at[p] = "idle" /\ at'[p] = s /\ arg'[p] = a
           /\ \A s : Go(p, s) /\ UNCHANGED arg => Turn(p) /\ at'[p] = s /\ arg'[p] = arg[p]
           /\ Done(p) => Turn(p) /\ at'[p] = "idle"
  BY DEF TypeInv, PlaceTypes, Turn, Begin, Go, Done

\* The steps that keep an argument, or replace it, as they go on.
LEMMA LongTurns ==
    ASSUME TypeInv, NEW p \in Actor
    PROVE  /\ NextDepartment(p) => at[p] = "departments"
           /\ Digest(p) => at[p] = "digest"
           /\ Copy(p) => at[p] = "copy"
           /\ RestoreFile(p) => at[p] = "restore"
           /\ Compare(p) => /\ Turn(p) /\ at[p] \in {"list", "read", "hash"}
                            /\ at'[p] \in {"read", "hash", "verdict"} /\ at'[p] # "list"
           /\ NextDepartment(p) =>
                 Turn(p) /\ \/ at'[p] = "idle"
                            \/ at'[p] = "member file" /\ arg'[p].run = arg[p].run
                               /\ arg'[p].id \in Dept /\ MayBind(arg[p].run, arg'[p].id)
           /\ Digest(p) => /\ Turn(p) /\ at'[p] = "copy"
                           /\ arg'[p].run = arg[p].run /\ arg'[p].id = arg[p].id
           /\ Copy(p) =>
                 /\ Turn(p)
                 /\ \/ at'[p] = "idle"
                    \/ at'[p] = "archived file" /\ arg'[p].run = arg[p].run
                    \/ arg[p].id # 3 /\ at'[p] = "digest" /\ arg'[p].run = arg[p].run
           /\ RestoreFile(p) =>
                 /\ Turn(p)
                 /\ \/ at'[p] = "idle"
                    \/ at'[p] = "restore rest" /\ arg'[p].run = arg[p].run /\ arg[p].id = 3
                    \/ /\ at'[p] = "restore" /\ arg'[p].run = arg[p].run
                       /\ arg'[p].id = arg[p].id + 1
  <1>a. /\ at \in [Actor -> Steps] /\ arg \in [Actor -> Args] /\ arg[p] \in Args
        /\ Len(Mutable) = 3
    BY DEF TypeInv, PlaceTypes, Mutable
  <1>p. Placed(p, at[p], arg[p])
    BY DEF TypeInv, PlaceTypes
  <1>b. Done(p) => Turn(p) /\ at'[p] = "idle"
    BY Turns
  <1>1. ASSUME NextDepartment(p)
        PROVE  Turn(p) /\ \/ at'[p] = "idle"
                          \/ at'[p] = "member file" /\ arg'[p].run = arg[p].run
                             /\ arg'[p].id \in Dept /\ MayBind(arg[p].run, arg'[p].id)
    <2>0. arg[p].todo \in SUBSET Dept
      BY <1>1, <1>p DEF NextDepartment, Placed, RunSteps
    <2>1. PICK d \in arg[p].todo :
             IF MayBind(arg[p].run, d)
             THEN /\ Go(p, "member file")
                  /\ arg' = [arg EXCEPT ![p].id = d, ![p].todo = @ \ {d}]
             ELSE Done(p)
      BY <1>1 DEF NextDepartment
    <2>2. d \in Dept
      BY <2>0, <2>1
    <2>3. CASE MayBind(arg[p].run, d)
      <3> DEFINE a == [arg[p] EXCEPT !.id = d, !.todo = @ \ {d}]
      <3>0. arg' = [arg EXCEPT ![p] = a] /\ a.run = arg[p].run /\ a.id = d
        BY <1>a, <2>1, <2>3 DEF Args
      <3>1. at'[p] = "member file" /\ arg'[p].run = arg[p].run /\ arg'[p].id = d
        <4> HIDE DEF a
        <4> QED BY <1>a, <2>1, <2>3, <3>0 DEF Go
      <3>2. Turn(p)
        BY <1>a, <2>1, <2>3 DEF Go, Turn
      <3> QED BY <2>2, <2>3, <3>1, <3>2
    <2> QED BY <1>b, <2>1, <2>3
  <1>2. ASSUME Digest(p)
        PROVE  Turn(p) /\ at'[p] = "copy" /\ arg'[p].run = arg[p].run /\ arg'[p].id = arg[p].id
    BY <1>2, <1>a DEF Digest, Go, Turn, Args
  <1>3. ASSUME Copy(p)
        PROVE  /\ Turn(p)
               /\ \/ at'[p] = "idle"
                  \/ at'[p] = "archived file" /\ arg'[p].run = arg[p].run
                  \/ arg[p].id # 3 /\ at'[p] = "digest" /\ arg'[p].run = arg[p].run
    <2>1. CASE Done(p)
      BY <2>1, <1>b
    <2>2. CASE Go(p, "archived file") /\ arg' = [arg EXCEPT ![p].digest = <<>>]
      BY <2>2, <1>a DEF Go, Turn, Args
    <2>3. CASE /\ Go(p, "digest")
               /\ arg' = [arg EXCEPT ![p].id = arg[p].id + 1, ![p].digest = <<>>]
               /\ arg[p].id # 3
      BY <2>3, <1>a DEF Go, Turn, Args
    <2> QED BY <1>3, <1>a, <2>1, <2>2, <2>3 DEF Copy
  <1>4. ASSUME RestoreFile(p)
        PROVE  /\ Turn(p)
               /\ \/ at'[p] = "idle"
                  \/ at'[p] = "restore rest" /\ arg'[p].run = arg[p].run /\ arg[p].id = 3
                  \/ /\ at'[p] = "restore" /\ arg'[p].run = arg[p].run
                     /\ arg'[p].id = arg[p].id + 1
    <2>1. CASE Done(p)
      BY <2>1, <1>b
    <2>2. CASE arg[p].id = 3 /\ Go(p, "restore rest") /\ UNCHANGED arg
      BY <2>2, Turns
    <2>3. CASE arg' = [arg EXCEPT ![p].id = @ + 1] /\ UNCHANGED at
      BY <1>4, <2>3, <1>a DEF RestoreFile, Turn, Args
    <2> QED BY <1>4, <1>a, <2>1, <2>2, <2>3 DEF RestoreFile
  <1>5. /\ NextDepartment(p) => at[p] = "departments"
        /\ Digest(p) => at[p] = "digest"
        /\ Copy(p) => at[p] = "copy"
        /\ RestoreFile(p) => at[p] = "restore"
    BY DEF NextDepartment, Digest, Copy, RestoreFile
  <1>6. ASSUME Compare(p)
        PROVE  /\ Turn(p) /\ at[p] \in {"list", "read", "hash"}
               /\ at'[p] \in {"read", "hash", "verdict"} /\ at'[p] # "list"
    BY <1>6, <1>a DEF Compare, ListSnapshots, ReadSnapshot, HashCheckpoint, ListArtifacts, Go,
       Turn
  <1> QED BY <1>1, <1>2, <1>3, <1>4, <1>5, <1>6

\* Where each step takes its operation.
LEMMA Moves ==
    ASSUME TypeInv, NEW p \in Actor
    PROVE  /\ WriteRunFile(p) => Turn(p) /\ at[p] = "run file" /\ at'[p] = "run row" /\ arg'[p] = arg[p]
           /\ WriteMemberFile(p) => Turn(p) /\ at[p] = "member file" /\ at'[p] = "member row" /\ arg'[p] = arg[p]
           /\ WriteEvent(p) => Turn(p) /\ at[p] = "event line" /\ at'[p] = "event row" /\ arg'[p] = arg[p]
           /\ ReplaceCheckpoint(p) => Turn(p) /\ at[p] = "checkpoint file" /\ at'[p] = "snapshot file" /\ arg'[p] = arg[p]
           /\ WriteSnapshot(p) => Turn(p) /\ at[p] = "snapshot file" /\ at'[p] = "snapshot row" /\ arg'[p] = arg[p]
           /\ StoreContent(p) => Turn(p) /\ at[p] = "content" /\ at'[p] = "record file" /\ arg'[p] = arg[p]
           /\ WriteRecord(p) => Turn(p) /\ at[p] = "record file" /\ at'[p] = "artifact row" /\ arg'[p] = arg[p]
           /\ MarkArchived(p) => Turn(p) /\ at[p] = "archived file" /\ at'[p] = "archived row" /\ arg'[p] = arg[p]
           /\ IndexEvent(p) => Turn(p) /\ at[p] = "event row" /\ at'[p] = "idle"
           /\ IndexSnapshot(p) => Turn(p) /\ at[p] = "snapshot row" /\ at'[p] = "idle"
           /\ IndexArtifact(p) => Turn(p) /\ at[p] = "artifact row" /\ at'[p] = "idle"
           /\ IndexArchived(p) => Turn(p) /\ at[p] = "archived row" /\ at'[p] = "idle"
           /\ RestoreRest(p) => Turn(p) /\ at[p] = "restore rest" /\ at'[p] = "idle"
           /\ IndexRun(p) => Turn(p) /\ at[p] = "run row" /\ at'[p] \in {"idle", "departments"}
           /\ IndexMember(p) => Turn(p) /\ at[p] = "member row" /\ at'[p] \in {"idle", "departments"}
           /\ IndexOpened(p) => Turn(p) /\ at[p] \in {"open", "recover"} /\ at'[p] \in {"idle", "list"}
           /\ Conclude(p) => Turn(p) /\ at[p] = "verdict" /\ at'[p] \in {"recover-ok", "recover-failed"}
           /\ (Return(p) \/ Crash(p)) => Turn(p) /\ at'[p] = "idle"
  <1>a. at \in [Actor -> Steps] /\ arg \in [Actor -> Args]
    BY DEF TypeInv, PlaceTypes
  <1>1. ASSUME WriteRunFile(p) PROVE Turn(p) /\ at[p] = "run file" /\ at'[p] = "run row" /\ arg'[p] = arg[p]
    BY <1>1, <1>a DEF WriteRunFile, Go, Turn
  <1>2. ASSUME WriteMemberFile(p) PROVE Turn(p) /\ at[p] = "member file" /\ at'[p] = "member row" /\ arg'[p] = arg[p]
    BY <1>2, <1>a DEF WriteMemberFile, Go, Turn
  <1>3. ASSUME WriteEvent(p) PROVE Turn(p) /\ at[p] = "event line" /\ at'[p] = "event row" /\ arg'[p] = arg[p]
    BY <1>3, <1>a DEF WriteEvent, Go, Turn
  <1>4. ASSUME ReplaceCheckpoint(p) PROVE Turn(p) /\ at[p] = "checkpoint file" /\ at'[p] = "snapshot file" /\ arg'[p] = arg[p]
    BY <1>4, <1>a DEF ReplaceCheckpoint, Go, Turn
  <1>5. ASSUME WriteSnapshot(p) PROVE Turn(p) /\ at[p] = "snapshot file" /\ at'[p] = "snapshot row" /\ arg'[p] = arg[p]
    BY <1>5, <1>a DEF WriteSnapshot, Go, Turn
  <1>6. ASSUME StoreContent(p) PROVE Turn(p) /\ at[p] = "content" /\ at'[p] = "record file" /\ arg'[p] = arg[p]
    BY <1>6, <1>a DEF StoreContent, Go, Turn
  <1>7. ASSUME WriteRecord(p) PROVE Turn(p) /\ at[p] = "record file" /\ at'[p] = "artifact row" /\ arg'[p] = arg[p]
    BY <1>7, <1>a DEF WriteRecord, Go, Turn
  <1>8. ASSUME MarkArchived(p) PROVE Turn(p) /\ at[p] = "archived file" /\ at'[p] = "archived row" /\ arg'[p] = arg[p]
    BY <1>8, <1>a DEF MarkArchived, Go, Turn
  <1>9. ASSUME IndexEvent(p) PROVE Turn(p) /\ at[p] = "event row" /\ at'[p] = "idle"
    BY <1>9, <1>a DEF IndexEvent, Done, Turn
  <1>10. ASSUME IndexSnapshot(p) PROVE Turn(p) /\ at[p] = "snapshot row" /\ at'[p] = "idle"
    BY <1>10, <1>a DEF IndexSnapshot, Done, Turn
  <1>11. ASSUME IndexArtifact(p) PROVE Turn(p) /\ at[p] = "artifact row" /\ at'[p] = "idle"
    BY <1>11, <1>a DEF IndexArtifact, Done, Turn
  <1>12. ASSUME IndexArchived(p) PROVE Turn(p) /\ at[p] = "archived row" /\ at'[p] = "idle"
    BY <1>12, <1>a DEF IndexArchived, Done, Turn
  <1>13. ASSUME RestoreRest(p) PROVE Turn(p) /\ at[p] = "restore rest" /\ at'[p] = "idle"
    BY <1>13, <1>a DEF RestoreRest, Done, Turn
  <1>14. ASSUME IndexRun(p) PROVE Turn(p) /\ at[p] = "run row" /\ at'[p] \in {"idle", "departments"}
    BY <1>14, <1>a DEF IndexRun, Go, Done, Turn
  <1>15. ASSUME IndexMember(p) PROVE Turn(p) /\ at[p] = "member row" /\ at'[p] \in {"idle", "departments"}
    BY <1>15, <1>a DEF IndexMember, Go, Done, Turn
  <1>16. ASSUME IndexOpened(p) PROVE Turn(p) /\ at[p] \in {"open", "recover"} /\ at'[p] \in {"idle", "list"}
    BY <1>16, <1>a DEF IndexOpened, Go, Done, Turn
  <1>17. ASSUME Conclude(p) PROVE Turn(p) /\ at[p] = "verdict" /\ at'[p] \in {"recover-ok", "recover-failed"}
    BY <1>17, <1>a DEF Conclude, Go, Turn
  <1>18. ASSUME Return(p) \/ Crash(p) PROVE Turn(p) /\ at'[p] = "idle"
    BY <1>18, <1>a DEF Return, Crash, Done, Turn
  <1> QED BY <1>1, <1>2, <1>3, <1>4, <1>5, <1>6, <1>7, <1>8, <1>9, <1>10, <1>11, <1>12, <1>13, <1>14, <1>15, <1>16, <1>17, <1>18

\* Where each operation begins.
LEMMA Begins ==
    ASSUME TypeInv, NEW p \in Actor
    PROVE  /\ \A r \in Run : CreateRun(p, r) =>
                 Turn(p) /\ at[p] = "idle" /\ at'[p] = "run file" /\ arg'[p].run = r
           /\ \A r \in Run, t \in Task : RegisterTask(p, r, t) =>
                 Turn(p) /\ at[p] = "idle" /\ at'[p] = "member file" /\ arg'[p].run = r /\ arg'[p].id = t
           /\ \A t \in Task : Append_(p, t) =>
                 Turn(p) /\ at[p] = "idle" /\ at'[p] = "event line" /\ arg'[p].run = memberFile[t] /\ arg'[p].id = t
           /\ \A t \in Task : WriteCheckpoint(p, t) =>
                 Turn(p) /\ at[p] = "idle" /\ at'[p] = "checkpoint file" /\ arg'[p].run = memberFile[t] /\ arg'[p].id = t
           /\ \A r \in Run, x \in Artifact : RegisterContent(p, r, x) =>
                 Turn(p) /\ at[p] = "idle" /\ at'[p] = "content" /\ arg'[p].run = r /\ arg'[p].id = x
           /\ \A r \in Run, why \in {"export", "archive"} : Collect(p, r, why) =>
                 Turn(p) /\ at[p] = "idle" /\ at'[p] = "digest" /\ arg'[p].run = r /\ arg'[p].id = 1
           /\ \A r \in Run : Restore(p, r) =>
                 Turn(p) /\ at[p] = "idle" /\ at'[p] = "restore" /\ arg'[p].run = r /\ arg'[p].id = 1
           /\ \A r \in Run, next \in {"open", "recover"} : OpenRun(p, r, next) =>
                 Turn(p) /\ at[p] = "idle" /\ at'[p] = next /\ arg'[p].run = r
  <1>a. at \in [Actor -> Steps] /\ arg \in [Actor -> Args]
    BY DEF TypeInv, PlaceTypes
  <1>1. ASSUME NEW r \in Run, CreateRun(p, r)
        PROVE  Turn(p) /\ at[p] = "idle" /\ at'[p] = "run file" /\ arg'[p].run = r
    BY <1>1, <1>a DEF CreateRun, Begin, NoArg, Turn
  <1>2. ASSUME NEW r \in Run, NEW t \in Task, RegisterTask(p, r, t)
        PROVE  Turn(p) /\ at[p] = "idle" /\ at'[p] = "member file" /\ arg'[p].run = r /\ arg'[p].id = t
    BY <1>2, <1>a DEF RegisterTask, Begin, NoArg, Turn
  <1>3. ASSUME NEW t \in Task, Append_(p, t)
        PROVE  Turn(p) /\ at[p] = "idle" /\ at'[p] = "event line" /\ arg'[p].run = memberFile[t] /\ arg'[p].id = t
    BY <1>3, <1>a DEF Append_, Begin, NoArg, Turn
  <1>4. ASSUME NEW t \in Task, WriteCheckpoint(p, t)
        PROVE  Turn(p) /\ at[p] = "idle" /\ at'[p] = "checkpoint file" /\ arg'[p].run = memberFile[t] /\ arg'[p].id = t
    BY <1>4, <1>a DEF WriteCheckpoint, Begin, NoArg, Turn
  <1>5. ASSUME NEW r \in Run, NEW x \in Artifact, RegisterContent(p, r, x)
        PROVE  Turn(p) /\ at[p] = "idle" /\ at'[p] = "content" /\ arg'[p].run = r /\ arg'[p].id = x
    BY <1>5, <1>a DEF RegisterContent, Begin, NoArg, Turn
  <1>6. ASSUME NEW r \in Run, NEW why \in {"export", "archive"}, Collect(p, r, why)
        PROVE  Turn(p) /\ at[p] = "idle" /\ at'[p] = "digest" /\ arg'[p].run = r /\ arg'[p].id = 1
    BY <1>6, <1>a DEF Collect, Begin, NoArg, Turn
  <1>7. ASSUME NEW r \in Run, Restore(p, r)
        PROVE  Turn(p) /\ at[p] = "idle" /\ at'[p] = "restore" /\ arg'[p].run = r /\ arg'[p].id = 1
    BY <1>7, <1>a DEF Restore, Begin, NoArg, Turn
  <1>8. ASSUME NEW r \in Run, NEW next \in {"open", "recover"}, OpenRun(p, r, next)
        PROVE  Turn(p) /\ at[p] = "idle" /\ at'[p] = next /\ arg'[p].run = r
    BY <1>8, <1>a DEF OpenRun, Begin, NoArg, Turn
  <1> QED BY <1>1, <1>2, <1>3, <1>4, <1>5, <1>6, <1>7, <1>8

\* The row of a run is written from its file, or beside it.
LEMMA RunInvStep == TypeInv /\ RunInv /\ [Next]_vars => RunInv'
  <1> SUFFICES ASSUME TypeInv, RunInv, [Next]_vars PROVE RunInv'
    OBVIOUS
  <1>a. /\ runFile \in [Run -> Status] /\ index \in Tables
        /\ \A p \in Actor : at[p] # "idle" => arg[p].run \in Run
    BY DEF TypeInv, FileTypes, IndexTypes, PlaceTypes, Placed
  <1>b. /\ \A p \in Actor : RunKnown(at[p], arg[p])
        /\ \A r \in Run : index.runs[r] # "none" => run_exists(r)
    BY DEF RunInv
  <1> DEFINE Relies == {"run row", "archived row", "open", "recover"}
  <1>1. ASSUME NEW p \in Actor, Turn(p), at'[p] \notin Relies,
               UNCHANGED runFile, index'.runs = index.runs
        PROVE  RunInv'
    BY <1>1, <1>b DEF RunInv, RunKnown, run_exists, Turn
  <1>2. ASSUME NEW p \in Actor, Turn(p), at'[p] \in Relies => run_exists(arg'[p].run),
               NEW r \in Run, run_exists(r), NEW v \in Status,
               UNCHANGED runFile, index'.runs = [index.runs EXCEPT ![r] = v]
        PROVE  RunInv'
    <2>1. index.runs \in [Run -> Status]
      BY <1>a DEF Tables
    <2> QED BY <1>2, <1>b, <2>1 DEF RunInv, RunKnown, run_exists, Turn
  <1>3. ASSUME NEW p \in Actor, Turn(p), NEW r \in Run, NEW v \in {"open", "archived"},
               arg'[p].run = r, runFile' = [runFile EXCEPT ![r] = v], index'.runs = index.runs
        PROVE  RunInv'
    BY <1>3, <1>a, <1>b DEF RunInv, RunKnown, run_exists, Turn
  <1>4. ASSUME NEW p \in Actor, WriteRunFile(p) \/ MarkArchived(p) PROVE RunInv'
    BY <1>3, <1>4, <1>a, Moves DEF WriteRunFile, MarkArchived
  <1>5. ASSUME NEW p \in Actor, IndexRun(p) \/ IndexArchived(p) PROVE RunInv'
    <2>1. PICK v \in Status : index' = [index EXCEPT !.runs[arg[p].run] = v]
      BY <1>5 DEF IndexRun, IndexArchived, Status
    <2>2. arg[p].run \in Run /\ at[p] # "idle" /\ run_exists(arg[p].run) /\ UNCHANGED runFile
      BY <1>5, <1>a, <1>b DEF IndexRun, IndexArchived, RunKnown, files
    <2>3. index'.runs = [index.runs EXCEPT ![arg[p].run] = v]
      BY <2>1, <2>2, RunIndexed
    <2>4. Turn(p) /\ at'[p] \notin Relies
      BY <1>5, Moves
    <2> QED BY <1>2, <2>2, <2>3, <2>4
  <1>6. ASSUME NEW p \in Actor, IndexOpened(p) PROVE RunInv'
    <2>1. /\ arg[p].run \in Run /\ at[p] # "idle" /\ run_exists(arg[p].run)
          /\ UNCHANGED runFile /\ arg[p].seen \in Status
      BY <1>6, <1>a, <1>b DEF IndexOpened, RunKnown, files, TypeInv, PlaceTypes, Placed, Status
    <2>2. index'.runs = [index.runs EXCEPT ![arg[p].run] = arg[p].seen]
      BY <1>6, <2>1, RunIndexed DEF IndexOpened
    <2>3. Turn(p) /\ at'[p] \notin Relies
      BY <1>6, Moves
    <2> QED BY <1>2, <2>1, <2>2, <2>3
  <1>7. ASSUME NEW p \in Actor, NEW r \in Run, NEW next \in {"open", "recover"}, OpenRun(p, r, next)
        PROVE RunInv'
    <2>1. Turn(p) /\ arg'[p].run = r
      BY <1>7, Begins
    <2> QED BY <1>7, <2>1, <1>b DEF OpenRun, files, RunInv, RunKnown, run_exists, Turn
  <1>8. ASSUME NEW p \in Actor, RebuildIndex(p) PROVE RunInv'
    <2>1. index'.runs = runFile /\ UNCHANGED <<runFile, at, arg>>
      BY <1>8 DEF RebuildIndex, Rebuilt, files
    <2> QED BY <2>1, <1>b DEF RunInv, RunKnown, run_exists
  <1>9. ASSUME LoseIndex PROVE RunInv'
    <2>1. index'.runs = [r \in Run |-> "none"] /\ UNCHANGED <<runFile, at, arg>>
      BY <1>9 DEF LoseIndex, EmptyIndex, files
    <2> QED BY <2>1, <1>b DEF RunInv, RunKnown, run_exists
  <1>10. ASSUME NEW p \in Actor,
                \/ \E r \in Run : CreateRun(p, r) \/ Restore(p, r)
                \/ \E r \in Run, t \in Task : RegisterTask(p, r, t)
                \/ \E t \in Task : Append_(p, t) \/ WriteCheckpoint(p, t)
                \/ \E r \in Run, x \in Artifact : RegisterContent(p, r, x)
                \/ \E r \in Run, why \in {"export", "archive"} : Collect(p, r, why)
         PROVE  RunInv'
    <2>1. UNCHANGED <<runFile, index>>
      BY <1>10 DEF CreateRun, RegisterTask, Append_, WriteCheckpoint, RegisterContent,
         Collect, Restore, files
    <2>2. Turn(p) /\ at'[p] \notin Relies
      BY <1>10, Begins
    <2> QED BY <1>1, <2>1, <2>2
  <1>11. ASSUME NEW p \in Actor,
                NextDepartment(p) \/ Digest(p) \/ Copy(p) \/ RestoreFile(p) \/ Compare(p)
         PROVE  RunInv'
    <2>1. UNCHANGED <<runFile, index>>
      BY <1>11 DEF NextDepartment, Digest, Copy, RestoreFile, Compare, ListSnapshots, ReadSnapshot,
         HashCheckpoint, ListArtifacts, files
    <2> QED BY <1>1, <1>11, <2>1, LongTurns
  <1>12. ASSUME NEW p \in Actor,
                \/ WriteMemberFile(p) \/ WriteEvent(p) \/ ReplaceCheckpoint(p) \/ WriteSnapshot(p)
                \/ StoreContent(p) \/ WriteRecord(p) \/ Conclude(p)
                \/ Return(p) \/ Crash(p) \/ RestoreRest(p)
         PROVE  RunInv'
    <2>1. UNCHANGED <<runFile, index>>
      BY <1>12 DEF WriteMemberFile, WriteEvent, ReplaceCheckpoint, WriteSnapshot,
         StoreContent, WriteRecord, Conclude, Return, Crash, RestoreRest, files
    <2>2. Turn(p) /\ at'[p] \notin Relies
      BY <1>12, Moves
    <2> QED BY <1>1, <2>1, <2>2
  <1>13. ASSUME NEW p \in Actor,
                IndexMember(p) \/ IndexEvent(p) \/ IndexSnapshot(p) \/ IndexArtifact(p)
         PROVE  RunInv'
    <2>1. UNCHANGED runFile
      BY <1>13 DEF IndexMember, IndexEvent, IndexSnapshot, IndexArtifact, files
    <2>0. Turn(p) /\ at'[p] \notin Relies
      BY <1>13, Moves
    <2>2. index'.runs = index.runs
      BY <1>13, MemberIndexed, EventIndexed, SnapshotIndexed, ArtifactIndexed
    <2> QED BY <1>1, <2>0, <2>1, <2>2
  <1>14. ASSUME UNCHANGED vars PROVE RunInv'
    BY <1>14, <1>b DEF vars, files, RunInv, RunKnown, run_exists
  <1> QED BY <1>4, <1>5, <1>6, <1>7, <1>8, <1>9, <1>10, <1>11, <1>12, <1>13, <1>14
       DEF Next, WriterStep, KeeperStep, Actor

\* A member that no two threads have been registering at once is bound to the
\* run that the one thread saw it free for, or bound to.
LEMMA MemberInvStep == TypeInv /\ MemberInv /\ [Next]_vars => MemberInv'
  <1> SUFFICES ASSUME TypeInv, MemberInv, [Next]_vars PROVE MemberInv'
    OBVIOUS
  <1> DEFINE Mine == MemberSteps
  <1>a. /\ memberFile \in [Member -> Run \cup {None}]
        /\ index \in Tables /\ dirty \in BOOLEAN
        /\ \A p \in Actor : at[p] \in MemberSteps =>
              /\ p \in Writer /\ arg[p].run \in Run /\ arg[p].id \in Member
              /\ arg[p].id \in Task => p = Owner[arg[p].id]
    BY DEF TypeInv, FileTypes, IndexTypes, PlaceTypes, Placed, WriterSteps, MemberSteps
  <1>b. /\ \A p \in Actor : MemberBound(at[p], arg[p])
        /\ \A p, q \in Actor :
              p # q /\ at[p] \in MemberSteps /\ at[q] \in MemberSteps /\ arg[p].id = arg[q].id
              => arg[p].id \in contested
        /\ \A m \in Member \ contested :
              index.members[m] # None => index.members[m] = memberFile[m]
        /\ \A m \in Member \ contested :
              dirty \/ index.members[m] = memberFile[m] \/ MemberPending(m)
    BY DEF MemberInv
  <1>c. index.members \in [Member -> Run \cup {None}]
    BY <1>a DEF Tables
  <1>1. ASSUME NEW p \in Actor, Turn(p), at[p] \notin Mine, at'[p] \notin Mine,
               UNCHANGED <<memberFile, contested>>, index'.members = index.members,
               dirty' \in {dirty, TRUE}
        PROVE  MemberInv'
    <2>0. \A q \in Actor : at'[q] \in MemberSteps => at'[q] = at[q] /\ arg'[q] = arg[q]
      BY <1>1 DEF Turn
    <2>1. \A q \in Actor : MemberBound(at[q], arg[q])'
      BY <1>1, <1>b DEF Turn, MemberBound, MemberSteps
    <2>2. \A m \in Member : MemberPending(m) => MemberPending(m)'
      BY <1>1 DEF Turn, MemberPending, MemberSteps
    <2>3. \A m \in Member \ contested' :
             (dirty \/ index.members[m] = memberFile[m] \/ MemberPending(m))'
      <3>1. CASE dirty' = TRUE
        BY <3>1
      <3>2. CASE dirty' = dirty
        BY <3>2, <1>1, <1>b, <2>2
      <3> QED BY <1>1, <3>1, <3>2
    <2> QED BY <1>1, <1>b, <2>0, <2>1, <2>3 DEF MemberInv
  <1>2. ASSUME NEW p \in Actor, Turn(p), at[p] \notin Mine,
               at'[p] = "member file", MayBind(arg'[p].run, arg'[p].id),
               UNCHANGED <<memberFile, index, dirty>>, contested \subseteq contested',
               Registering(arg'[p].id) => arg'[p].id \in contested'
        PROVE  MemberInv'
    <2>1. \A q \in Actor : MemberBound(at[q], arg[q])'
      BY <1>2, <1>b DEF Turn, MemberBound, MayBind
    <2>3. ASSUME NEW q \in Actor, NEW k \in Actor, q # k, at'[q] \in MemberSteps,
                 at'[k] \in MemberSteps, arg'[q].id = arg'[k].id
          PROVE  arg'[q].id \in contested'
      <3>1. CASE q # p /\ k # p
        BY <1>2, <1>b, <2>3, <3>1 DEF Turn
      <3>2. CASE q = p
        <4>1. at[k] \in MemberSteps /\ arg[k].id = arg'[p].id
          BY <1>2, <2>3, <3>2 DEF Turn
        <4> QED BY <1>2, <3>2, <4>1 DEF Registering, MemberSteps
      <3>3. CASE k = p
        <4>1. at[q] \in MemberSteps /\ arg[q].id = arg'[p].id
          BY <1>2, <2>3, <3>3 DEF Turn
        <4> QED BY <1>2, <2>3, <3>3, <4>1 DEF Registering, MemberSteps
      <3> QED BY <3>1, <3>2, <3>3
    <2>2. \A m \in Member : MemberPending(m) => MemberPending(m)'
      BY <1>2 DEF Turn, MemberPending, MemberSteps
    <2> QED BY <1>2, <1>b, <2>1, <2>2, <2>3 DEF MemberInv
  <1>3. ASSUME NEW p \in Actor, NextDepartment(p) PROVE MemberInv'
    <2>1. UNCHANGED <<memberFile, index, dirty>>
      BY <1>3 DEF NextDepartment, files
    <2>2. Turn(p) /\ at[p] \notin Mine
      BY <1>3, LongTurns DEF MemberSteps
    <2>5. at \in [Actor -> Steps] /\ arg \in [Actor -> Args]
      BY DEF TypeInv, PlaceTypes
    <2>3. CASE at'[p] = "idle"
      <3>1. UNCHANGED contested
        BY <1>3, <2>3, <2>5 DEF NextDepartment, Go
      <3> QED BY <1>1, <2>1, <2>2, <2>3, <3>1 DEF MemberSteps
    <2>4. CASE at'[p] # "idle"
      <3>1. at'[p] = "member file" /\ MayBind(arg'[p].run, arg'[p].id)
        BY <1>3, <2>4, LongTurns
      <3>2. PICK d \in arg[p].todo :
               /\ arg' = [arg EXCEPT ![p].id = d, ![p].todo = @ \ {d}]
               /\ contested' = IF Registering(d) THEN contested \cup {d} ELSE contested
        BY <1>3, <2>4, <2>5 DEF NextDepartment, Done
      <3>3. arg'[p].id = d
        BY <2>5, <3>2 DEF Args
      <3>4. contested \subseteq contested' /\ (Registering(d) => d \in contested')
        BY <3>2
      <3>5. Registering(arg'[p].id) => arg'[p].id \in contested'
        BY <3>3, <3>4
      <3> QED BY <1>2, <2>1, <2>2, <3>1, <3>4, <3>5
    <2> QED BY <2>3, <2>4
  <1>4. ASSUME NEW p \in Actor, NEW r \in Run, NEW t \in Task, RegisterTask(p, r, t) PROVE MemberInv'
    <2>1. UNCHANGED <<memberFile, index, dirty, contested>> /\ MayBind(r, t)
      BY <1>4 DEF RegisterTask, files, history
    <2>2. Turn(p) /\ at[p] \notin Mine /\ at'[p] = "member file" /\ arg'[p].run = r /\ arg'[p].id = t
      BY <1>4, Begins DEF MemberSteps
    <2>3. ~Registering(t)
      <3>1. \A q \in Actor : at[q] \in MemberSteps /\ arg[q].id = t => q = p
        BY <1>4, <1>a DEF RegisterTask
      <3> QED BY <2>2, <3>1 DEF Registering, MemberSteps
    <2> QED BY <1>2, <2>1, <2>2, <2>3
  <1>5. ASSUME NEW p \in Actor, WriteMemberFile(p) PROVE MemberInv'
    <2> DEFINE m == arg[p].id
               r == arg[p].run
    <2>1. /\ Turn(p) /\ at[p] = "member file" /\ at'[p] = "member row" /\ arg'[p] = arg[p]
          /\ memberFile' = [memberFile EXCEPT ![m] = r] /\ UNCHANGED <<index, dirty, contested>>
      BY <1>5, Moves DEF WriteMemberFile, history
    <2>2. /\ p \in Writer /\ m \in Member /\ r \in Run
          /\ m \notin contested => memberFile[m] \in {r, None}
      BY <2>1, <1>a, <1>b DEF MemberSteps, MemberBound
    <2>6. \A q \in Actor : at'[q] \in MemberSteps => at[q] \in MemberSteps /\ arg'[q] = arg[q]
      BY <2>1 DEF Turn, MemberSteps
    <2>7. \A q, k \in Actor :
             q # k /\ at'[q] \in MemberSteps /\ at'[k] \in MemberSteps /\ arg'[q].id = arg'[k].id
             => arg'[q].id \in contested'
      BY <1>b, <2>1, <2>6
    <2>3. ASSUME NEW q \in Actor PROVE MemberBound(at[q], arg[q])'
      <3>1. CASE q = p
        BY <3>1, <2>1, <2>2, <1>a DEF MemberBound
      <3>2. CASE q # p /\ at[q] \in MemberSteps /\ arg[q].id = m
        <4>1. m \in contested
          BY <3>2, <2>1, <1>b DEF MemberSteps
        <4> QED BY <3>2, <4>1, <2>1 DEF MemberBound, Turn
      <3>3. CASE q # p /\ at[q] \in MemberSteps /\ arg[q].id # m
        BY <3>3, <2>1, <2>2, <1>a, <1>b DEF MemberBound, Turn
      <3>4. CASE q # p /\ at[q] \notin MemberSteps
        BY <3>4, <2>1 DEF MemberBound, Turn, MemberSteps
      <3> QED BY <3>1, <3>2, <3>3, <3>4
    <2>4. ASSUME NEW k \in Member \ contested, index'.members[k] # None
          PROVE  index'.members[k] = memberFile'[k]
      BY <2>1, <2>2, <2>4, <1>a, <1>b
    <2>5. ASSUME NEW k \in Member \ contested PROVE (dirty \/ index.members[k] = memberFile[k] \/ MemberPending(k))'
      <3>1. CASE k = m
        BY <3>1, <2>1 DEF MemberPending
      <3>2. CASE k # m
        <4>1. MemberPending(k) => MemberPending(k)'
          BY <2>1, <3>2 DEF MemberPending, Turn
        <4> QED BY <3>2, <4>1, <2>1, <1>a, <1>b
      <3> QED BY <3>1, <3>2
    <2> QED BY <2>1, <2>3, <2>4, <2>5, <2>7 DEF MemberInv
  <1>6. ASSUME NEW p \in Actor, IndexMember(p) PROVE MemberInv'
    <2> DEFINE m == arg[p].id
               r == arg[p].run
    <2>1. /\ Turn(p) /\ at[p] = "member row" /\ at'[p] \notin Mine
          /\ UNCHANGED <<memberFile, contested>>
      BY <1>6, Moves DEF IndexMember, files, MemberSteps
    <2>2. m \in Member /\ r \in Run /\ (m \notin contested => memberFile[m] = r)
      BY <2>1, <1>a, <1>b DEF MemberSteps, MemberBound
    <2>3. \A q \in Actor : MemberBound(at[q], arg[q])'
      BY <2>1, <1>b DEF Turn, MemberBound, MemberSteps
    <2>7. \A q, k \in Actor :
             q # k /\ at'[q] \in MemberSteps /\ at'[k] \in MemberSteps /\ arg'[q].id = arg'[k].id
             => arg'[q].id \in contested'
      BY <1>b, <2>1 DEF Turn
    <2>4. ASSUME NEW k \in Member, k # m PROVE MemberPending(k) => MemberPending(k)'
      BY <2>1, <2>4 DEF MemberPending, Turn
    <2>5. CASE dirty' = TRUE /\ UNCHANGED index
      BY <2>1, <2>3, <2>5, <2>7, <1>b DEF MemberInv
    <2>6. CASE UNCHANGED dirty /\ index'.members = [index.members EXCEPT ![m] = r]
      <3>1. ASSUME NEW k \in Member \ contested
            PROVE  /\ index'.members[k] # None => index'.members[k] = memberFile'[k]
                   /\ (dirty \/ index.members[k] = memberFile[k] \/ MemberPending(k))'
        BY <2>1, <2>2, <2>4, <2>6, <3>1, <1>b, <1>c
      <3> QED BY <2>1, <2>3, <2>7, <3>1 DEF MemberInv
    <2> QED BY <1>6, <2>5, <2>6, MemberIndexed
  <1>7. ASSUME NEW p \in Actor, RebuildIndex(p) PROVE MemberInv'
    <2>1. index'.members = memberFile /\ UNCHANGED <<memberFile, at, arg>>
      BY <1>7 DEF RebuildIndex, Rebuilt, files
    <2>2. contested' = {m \in contested : Registering(m)}
      BY <1>7 DEF RebuildIndex
    <2>3. \A q \in Actor : at[q] \in MemberSteps => Registering(arg[q].id)
      BY DEF Registering, MemberSteps
    <2>4. \A q \in Actor : MemberBound(at[q], arg[q])'
      BY <1>b, <2>1, <2>2, <2>3 DEF MemberBound, MemberSteps
    <2>5. \A q, k \in Actor :
             q # k /\ at'[q] \in MemberSteps /\ at'[k] \in MemberSteps /\ arg'[q].id = arg'[k].id
             => arg'[q].id \in contested'
      BY <1>b, <2>1, <2>2, <2>3
    <2> QED BY <2>1, <2>4, <2>5 DEF MemberInv
  <1>8. ASSUME LoseIndex PROVE MemberInv'
    <2>1. index'.members = [k \in Member |-> None] /\ dirty' = TRUE
          /\ UNCHANGED <<memberFile, contested, at, arg>>
      BY <1>8 DEF LoseIndex, EmptyIndex, files
    <2> QED BY <2>1, <1>b DEF MemberInv, MemberBound
  <1>9. ASSUME NEW p \in Actor, Return(p) \/ Crash(p) PROVE MemberInv'
    <2>1. Turn(p) /\ at'[p] = "idle" /\ UNCHANGED <<memberFile, index, contested>>
      BY <1>9, Moves DEF Return, Crash, files, history
    <2>4. \A q, k \in Actor :
             q # k /\ at'[q] \in MemberSteps /\ at'[k] \in MemberSteps /\ arg'[q].id = arg'[k].id
             => arg'[q].id \in contested'
      BY <1>b, <2>1 DEF Turn, MemberSteps
    <2>2. CASE Crash(p)
      <3>1. dirty' = TRUE
        BY <2>2 DEF Crash
      <3>2. \A q \in Actor : MemberBound(at[q], arg[q])'
        BY <2>1, <1>b DEF Turn, MemberBound
      <3> QED BY <3>1, <3>2, <2>1, <2>4, <1>b DEF MemberInv
    <2>3. CASE Return(p)
      <3>1. at[p] \notin Mine /\ UNCHANGED dirty
        BY <2>3 DEF Return, history, MemberSteps
      <3> QED BY <1>1, <2>1, <3>1 DEF MemberSteps
    <2> QED BY <1>9, <2>2, <2>3
  <1>10. ASSUME NEW p \in Actor,
                \/ \E r \in Run : CreateRun(p, r)
                \/ \E r \in Run : Restore(p, r)
                \/ \E t \in Task : Append_(p, t)
                \/ \E t \in Task : WriteCheckpoint(p, t)
                \/ \E r \in Run, x \in Artifact : RegisterContent(p, r, x)
                \/ \E r \in Run, why \in {"export", "archive"} : Collect(p, r, why)
                \/ \E r \in Run, next \in {"open", "recover"} : OpenRun(p, r, next)
         PROVE  MemberInv'
    <2>1. UNCHANGED <<memberFile, index, contested>> /\ dirty' \in {dirty, TRUE}
      BY <1>10 DEF CreateRun, Restore, Append_, WriteCheckpoint, RegisterContent, Collect,
         OpenRun, files, history, Unmoved
    <2>2. Turn(p) /\ at[p] \notin Mine /\ at'[p] \notin Mine
      BY <1>10, Begins, ZenonT(30) DEF MemberSteps
    <2> QED BY <1>1, <2>1, <2>2
  <1>11. ASSUME NEW p \in Actor,
                \/ Digest(p) \/ Copy(p) \/ RestoreFile(p) \/ Compare(p)
         PROVE  MemberInv'
    <2>1. UNCHANGED <<memberFile, index, contested>> /\ dirty' \in {dirty, TRUE}
      BY <1>11 DEF Digest, Copy, RestoreFile, Compare, ListSnapshots, ReadSnapshot, HashCheckpoint,
         ListArtifacts, files, history, Unmoved
    <2>2. Turn(p) /\ at[p] \notin Mine /\ at'[p] \notin Mine
      BY <1>11, LongTurns DEF MemberSteps
    <2> QED BY <1>1, <2>1, <2>2
  <1>12. ASSUME NEW p \in Actor,
                \/ WriteRunFile(p) \/ WriteEvent(p) \/ ReplaceCheckpoint(p) \/ WriteSnapshot(p)
                \/ StoreContent(p) \/ WriteRecord(p) \/ MarkArchived(p) \/ Conclude(p)
                \/ RestoreRest(p)
         PROVE  MemberInv'
    <2>1. UNCHANGED <<memberFile, index, contested>> /\ dirty' \in {dirty, TRUE}
      BY <1>12 DEF WriteRunFile, WriteEvent, ReplaceCheckpoint, WriteSnapshot, StoreContent,
         WriteRecord, MarkArchived, Conclude, RestoreRest, files, history, Unmoved
    <2>2. Turn(p) /\ at[p] \notin Mine /\ at'[p] \notin Mine
      BY <1>12, Moves DEF MemberSteps
    <2> QED BY <1>1, <2>1, <2>2
  <1>13. ASSUME NEW p \in Actor,
                \/ IndexEvent(p) \/ IndexSnapshot(p) \/ IndexArtifact(p) \/ IndexRun(p)
                \/ IndexArchived(p) \/ IndexOpened(p)
         PROVE  MemberInv'
    <2>1. UNCHANGED <<memberFile, contested>> /\ dirty' \in {dirty, TRUE}
      BY <1>13 DEF IndexEvent, IndexSnapshot, IndexArtifact, IndexRun, IndexArchived,
         IndexOpened, IndexRow, files, history, Unmoved
    <2>2. Turn(p) /\ at[p] \notin Mine /\ at'[p] \notin Mine
      BY <1>13, Moves DEF MemberSteps
    <2>3. index'.members = index.members
      BY <1>13, EventIndexed, SnapshotIndexed, ArtifactIndexed, RunsIndexed
    <2> QED BY <1>1, <2>1, <2>2, <2>3
  <1>14. ASSUME UNCHANGED vars PROVE MemberInv'
    BY <1>14, <1>b DEF vars, files, history, MemberInv, MemberBound, MemberPending
  <1> QED BY <1>3, <1>4, <1>5, <1>6, <1>7, <1>8, <1>9, <1>10, <1>11, <1>12, <1>13, <1>14
       DEF Next, WriterStep, KeeperStep, Actor

LEMMA EventInvStep == TypeInv /\ EventInv /\ [Next]_vars => EventInv'
  <1> SUFFICES ASSUME TypeInv, EventInv, [Next]_vars PROVE EventInv'
    OBVIOUS
  <1> DEFINE Mine == EventSteps
             Indexed(t) == \/ dirty
                           \/ index.events[t] = 1..events[t]
                           \/ Holds(t, "event row") /\ 1..events[t] \subseteq index.events[t] \cup {events[t]}
  <1>a. /\ events \in [Task -> Nat]
        /\ index \in Tables /\ dirty \in BOOLEAN
        /\ \A p \in Actor : at[p] \in EventSteps =>
              p \in Writer /\ arg[p].id \in Task /\ p = Owner[arg[p].id]
        /\ \A t \in Task : Owner[t] \in Actor
    BY SpineAssumption DEF TypeInv, FileTypes, IndexTypes, PlaceTypes, Placed, WriterSteps, TaskSteps,
       Actor
  <1>b. /\ \A p \in Actor : EventRoom(at[p], arg[p])
        /\ \A t \in Task : events[t] <= MaxEvents /\ index.events[t] \subseteq 1..events[t]
        /\ \A t \in Task : Indexed(t)
    BY DEF EventInv
  <1>c. index.events \in [Task -> SUBSET Nat] /\ MaxEvents \in Nat
    BY <1>a, SpineAssumption DEF Tables
  <1>1. ASSUME NEW p \in Actor, Turn(p), at[p] \notin Mine, at'[p] \notin Mine,
               UNCHANGED events, index'.events = index.events, dirty' \in {dirty, TRUE}
        PROVE  EventInv'
    <2>1. \A q \in Actor : EventRoom(at[q], arg[q])'
      BY <1>1, <1>b DEF Turn, EventRoom, EventSteps
    <2>2. \A t \in Task : Holds(t, "event row") => Holds(t, "event row")'
      BY <1>1, <1>a DEF Turn, Holds, EventSteps
    <2>3. \A t \in Task : Indexed(t)'
      <3>1. CASE dirty' = TRUE
        BY <3>1
      <3>2. CASE dirty' = dirty
        BY <3>2, <1>1, <1>b, <2>2
      <3> QED BY <1>1, <3>1, <3>2
    <2> QED BY <1>1, <1>b, <2>1, <2>3 DEF EventInv
  <1>4. ASSUME NEW p \in Actor, NEW t \in Task, Append_(p, t) PROVE EventInv'
    <2>0. UNCHANGED <<events, index, dirty>> /\ events[t] < MaxEvents
      BY <1>4 DEF Append_, files, history
    <2>1. /\ UNCHANGED <<events, index, dirty>> /\ events[t] < MaxEvents
          /\ Turn(p) /\ at[p] = "idle" /\ at'[p] = "event line" /\ arg'[p].id = t
      BY <2>0, <1>4, Begins
    <2>2. \A q \in Actor : EventRoom(at[q], arg[q])'
      BY <2>1, <1>b DEF Turn, EventRoom
    <2>3. \A k \in Task : Holds(k, "event row") => Holds(k, "event row")'
      BY <2>1, <1>a DEF Turn, Holds
    <2> QED BY <2>1, <1>b, <2>2, <2>3 DEF EventInv
  <1>5. ASSUME NEW p \in Actor, WriteEvent(p) PROVE EventInv'
    <2> DEFINE t == arg[p].id
    <2>1. /\ Turn(p) /\ at[p] = "event line" /\ at'[p] = "event row" /\ arg'[p] = arg[p]
          /\ events' = [events EXCEPT ![t] = @ + 1] /\ UNCHANGED <<index, dirty>>
      BY <1>5, Moves DEF WriteEvent, history
    <2>2. t \in Task /\ p = Owner[t] /\ events[t] < MaxEvents
      BY <2>1, <1>a, <1>b DEF EventSteps, EventRoom
    <2>3. events'[t] = events[t] + 1 /\ \A k \in Task \ {t} : events'[k] = events[k]
      BY <2>1, <2>2, <1>a
    <2>4. ASSUME NEW q \in Actor PROVE EventRoom(at[q], arg[q])'
      <3>1. CASE q = p
        <4>1. events[t] \in Nat /\ events'[t] >= 1
          BY <2>2, <2>3, <1>a
        <4>2. at'[q] = "event row" /\ arg'[q].id = t
          BY <3>1, <2>1
        <4> QED BY <4>1, <4>2 DEF EventRoom
      <3>2. CASE q # p
        <4>1. at[q] \in EventSteps => arg[q].id # t /\ arg[q].id \in Task
          BY <3>2, <2>2, <1>a
        <4> QED BY <3>2, <4>1, <2>1, <2>3, <1>b, ZenonT(30) DEF EventRoom, Turn, EventSteps
      <3> QED BY <3>1, <3>2
    <2>5. ASSUME NEW k \in Task
          PROVE  events'[k] <= MaxEvents /\ index'.events[k] \subseteq 1..events'[k]
      <3>1. /\ events[k] \in Nat /\ events[k] <= MaxEvents /\ index.events[k] \subseteq 1..events[k]
            /\ index' = index
        BY <1>a, <1>b, <2>1
      <3>2. CASE k = t
        <4>1. events'[k] = events[k] + 1 /\ events[k] < MaxEvents
          BY <3>2, <2>2, <2>3
        <4> QED BY <3>1, <4>1, <1>c
      <3>3. CASE k # t
        BY <3>1, <3>3, <2>3
      <3> QED BY <3>2, <3>3
    <2>6. ASSUME NEW k \in Task PROVE Indexed(k)'
      <3>1. CASE k = t
        <4>1. ~Holds(t, "event row")
          BY <2>1, <2>2 DEF Holds
        <4>2. Holds(t, "event row")'
          BY <2>1, <2>2 DEF Holds
        <4>3. 1..(events[t] + 1) \subseteq (1..events[t]) \cup {events[t] + 1}
          BY <2>2, <1>a
        <4> QED BY <3>1, <4>1, <4>2, <4>3, <2>1, <2>2, <2>3, <1>b
      <3>2. CASE k # t
        <4>1. Holds(k, "event row") => Holds(k, "event row")'
          BY <3>2, <2>1, <2>2, <1>a DEF Holds, Turn
        <4> QED BY <3>2, <4>1, <2>1, <2>3, <1>b
      <3> QED BY <3>1, <3>2
    <2> QED BY <2>4, <2>5, <2>6 DEF EventInv
  <1>6. ASSUME NEW p \in Actor, IndexEvent(p) PROVE EventInv'
    <2> DEFINE t == arg[p].id
    <2>1. /\ Turn(p) /\ at[p] = "event row" /\ at'[p] = "idle" /\ UNCHANGED <<events, dirty>>
      BY <1>6, Moves DEF IndexEvent, files, history
    <2>2. t \in Task /\ p = Owner[t] /\ events[t] >= 1
      BY <2>1, <1>a, <1>b DEF EventSteps, EventRoom
    <2>3. index'.events = [index.events EXCEPT ![t] = index.events[t] \cup {events[t]}]
      BY <1>6, EventIndexed
    <2>4. \A q \in Actor : EventRoom(at[q], arg[q])'
      BY <2>1, <1>b DEF Turn, EventRoom
    <2>5. ASSUME NEW k \in Task
          PROVE  /\ index'.events[k] \subseteq 1..events'[k]
                 /\ Indexed(k)'
      <3>1. CASE k = t
        <4>1. index'.events[t] = index.events[t] \cup {events[t]}
          BY <2>2, <2>3, <1>c
        <4>0. events[t] \in Nat /\ events[t] \in 1..events[t] /\ index.events[t] \subseteq 1..events[t]
          <5>1. events[t] \in Nat /\ events[t] >= 1 /\ index.events[t] \subseteq 1..events[t]
            BY <2>2, <1>a, <1>b
          <5>2. events[t] \in 1..events[t]
            BY <5>1
          <5> QED BY <5>1, <5>2
        <4>2. index.events[t] \cup {events[t]} = 1..events[t] \/ dirty
          <5>1. CASE dirty
            BY <5>1
          <5>2. CASE index.events[t] = 1..events[t]
            BY <5>2, <4>0
          <5>3. CASE 1..events[t] \subseteq index.events[t] \cup {events[t]}
            BY <5>3, <4>0
          <5> QED BY <5>1, <5>2, <5>3, <2>2, <1>b
        <4>3. index'.events[t] \subseteq 1..events[t]
          BY <4>0, <4>1
        <4> QED BY <3>1, <4>1, <4>2, <4>3, <2>1
      <3>2. CASE k # t
        <4>1. Holds(k, "event row") => Holds(k, "event row")'
          BY <3>2, <2>1, <2>2, <1>a DEF Holds, Turn
        <4>2. index'.events[k] = index.events[k]
          BY <3>2, <2>3, <1>c
        <4> QED BY <4>1, <4>2, <2>1, <1>b
      <3> QED BY <3>1, <3>2
    <2>6. \A k \in Task : events'[k] <= MaxEvents
      BY <2>1, <1>b
    <2> QED BY <2>4, <2>5, <2>6 DEF EventInv
  <1>7. ASSUME NEW p \in Actor, RebuildIndex(p) PROVE EventInv'
    <2>1. index'.events = [t \in Task |-> 1..events[t]] /\ UNCHANGED <<events, at, arg>>
      BY <1>7 DEF RebuildIndex, Rebuilt, files
    <2> QED BY <2>1, <1>b DEF EventInv, EventRoom
  <1>8. ASSUME LoseIndex PROVE EventInv'
    <2>1. index'.events = [t \in Task |-> {}] /\ dirty' = TRUE /\ UNCHANGED <<events, at, arg>>
      BY <1>8 DEF LoseIndex, EmptyIndex, files
    <2> QED BY <2>1, <1>b DEF EventInv, EventRoom
  <1>9. ASSUME NEW p \in Actor, Return(p) \/ Crash(p) PROVE EventInv'
    <2>1. Turn(p) /\ at'[p] = "idle" /\ UNCHANGED <<events, index>>
      BY <1>9, Moves DEF Return, Crash, files
    <2>2. CASE Crash(p)
      <3>1. dirty' = TRUE
        BY <2>2 DEF Crash
      <3>2. \A q \in Actor : EventRoom(at[q], arg[q])'
        BY <2>1, <1>b DEF Turn, EventRoom
      <3> QED BY <3>1, <3>2, <2>1, <1>b DEF EventInv
    <2>3. CASE Return(p)
      <3>1. at[p] \notin Mine /\ UNCHANGED dirty
        BY <2>3 DEF Return, history, EventSteps
      <3> QED BY <1>1, <2>1, <3>1 DEF EventSteps
    <2> QED BY <1>9, <2>2, <2>3
  <1>10. ASSUME NEW p \in Actor,
                \/ \E r \in Run : CreateRun(p, r)
                \/ \E r \in Run : Restore(p, r)
                \/ \E r \in Run, t \in Task : RegisterTask(p, r, t)
                \/ \E t \in Task : WriteCheckpoint(p, t)
                \/ \E r \in Run, x \in Artifact : RegisterContent(p, r, x)
                \/ \E r \in Run, why \in {"export", "archive"} : Collect(p, r, why)
                \/ \E r \in Run, next \in {"open", "recover"} : OpenRun(p, r, next)
         PROVE  EventInv'
    <2>1. UNCHANGED <<events, index>> /\ dirty' \in {dirty, TRUE}
      BY <1>10 DEF CreateRun, Restore, RegisterTask, WriteCheckpoint, RegisterContent, Collect,
         OpenRun, files, history, Unmoved
    <2>2. Turn(p) /\ at[p] \notin Mine /\ at'[p] \notin Mine
      BY <1>10, Begins, ZenonT(30) DEF EventSteps
    <2> QED BY <1>1, <2>1, <2>2
  <1>11. ASSUME NEW p \in Actor,
                \/ NextDepartment(p) \/ Digest(p) \/ Copy(p) \/ RestoreFile(p) \/ Compare(p)
         PROVE  EventInv'
    <2>1. UNCHANGED <<events, index>> /\ dirty' \in {dirty, TRUE}
      BY <1>11 DEF NextDepartment, Digest, Copy, RestoreFile, Compare, ListSnapshots, ReadSnapshot,
         HashCheckpoint, ListArtifacts, files,
         history, Unmoved
    <2>2. Turn(p) /\ at[p] \notin Mine /\ at'[p] \notin Mine
      BY <1>11, LongTurns DEF EventSteps
    <2> QED BY <1>1, <2>1, <2>2
  <1>12. ASSUME NEW p \in Actor,
                \/ WriteRunFile(p) \/ WriteMemberFile(p) \/ ReplaceCheckpoint(p) \/ WriteSnapshot(p)
                \/ StoreContent(p) \/ WriteRecord(p) \/ MarkArchived(p) \/ Conclude(p)
                \/ RestoreRest(p)
         PROVE  EventInv'
    <2>1. UNCHANGED <<events, index>> /\ dirty' \in {dirty, TRUE}
      BY <1>12 DEF WriteRunFile, WriteMemberFile, ReplaceCheckpoint, WriteSnapshot,
         StoreContent, WriteRecord, MarkArchived, Conclude, RestoreRest, files, history, Unmoved
    <2>2. Turn(p) /\ at[p] \notin Mine /\ at'[p] \notin Mine
      BY <1>12, Moves DEF EventSteps
    <2> QED BY <1>1, <2>1, <2>2
  <1>13. ASSUME NEW p \in Actor,
                \/ IndexMember(p) \/ IndexSnapshot(p) \/ IndexArtifact(p) \/ IndexRun(p)
                \/ IndexArchived(p) \/ IndexOpened(p)
         PROVE  EventInv'
    <2>1. UNCHANGED <<events>> /\ dirty' \in {dirty, TRUE}
      BY <1>13 DEF IndexMember, IndexSnapshot, IndexArtifact, IndexRun, IndexArchived,
         IndexOpened, IndexRow, files, history, Unmoved
    <2>2. Turn(p) /\ at[p] \notin Mine /\ at'[p] \notin Mine
      BY <1>13, Moves DEF EventSteps
    <2>3. index'.events = index.events
      BY <1>13, MemberIndexed, SnapshotIndexed, ArtifactIndexed, RunsIndexed
    <2> QED BY <1>1, <2>1, <2>2, <2>3
  <1>14. ASSUME UNCHANGED vars PROVE EventInv'
    BY <1>14, <1>b DEF vars, files, history, EventInv, EventRoom, Holds
  <1> QED BY <1>4, <1>5, <1>6, <1>7, <1>8, <1>9, <1>10, <1>11, <1>12, <1>13, <1>14
       DEF Next, WriterStep, KeeperStep, Actor

LEMMA SnapshotInvStep == TypeInv /\ SnapshotInv /\ [Next]_vars => SnapshotInv'
  <1> SUFFICES ASSUME TypeInv, SnapshotInv, [Next]_vars PROVE SnapshotInv'
    OBVIOUS
  <1> DEFINE Mine == CheckpointSteps
             Hashed(t) == snapshot[t] = checkpoint[t] \/ t \in torn \/ Holds(t, "snapshot file")
             Indexed(t) == dirty \/ index.snapshots[t] = snapshot[t] \/ Holds(t, "snapshot row")
  <1>a. /\ checkpoint \in [Task -> Nat] /\ snapshot \in [Task -> Nat]
        /\ index \in Tables /\ dirty \in BOOLEAN
        /\ \A p \in Actor : at[p] \in CheckpointSteps =>
              p \in Writer /\ arg[p].id \in Task /\ p = Owner[arg[p].id]
        /\ \A t \in Task : Owner[t] \in Actor
    BY SpineAssumption DEF TypeInv, FileTypes, IndexTypes, PlaceTypes, Placed, WriterSteps, TaskSteps,
       Actor
  <1>b. /\ \A p \in Actor : VersionRoom(at[p], arg[p])
        /\ \A t \in Task : checkpoint[t] <= MaxVersions
        /\ \A t \in Task : index.snapshots[t] <= snapshot[t] /\ snapshot[t] <= checkpoint[t]
        /\ \A t \in Task : Hashed(t)
        /\ \A t \in Task : Indexed(t)
    BY DEF SnapshotInv
  <1>c. index.snapshots \in [Task -> Nat] /\ MaxVersions \in Nat
    BY <1>a, SpineAssumption DEF Tables
  <1>1. ASSUME NEW p \in Actor, Turn(p), at[p] \notin Mine, at'[p] \notin Mine,
               UNCHANGED <<checkpoint, snapshot, torn>>, index'.snapshots = index.snapshots,
               dirty' \in {dirty, TRUE}
        PROVE  SnapshotInv'
    <2>1. \A q \in Actor : VersionRoom(at[q], arg[q])'
      BY <1>1, <1>b DEF Turn, VersionRoom, CheckpointSteps
    <2>2. \A t \in Task : /\ Holds(t, "snapshot file") => Holds(t, "snapshot file")'
                          /\ Holds(t, "snapshot row") => Holds(t, "snapshot row")'
      BY <1>1, <1>a DEF Turn, Holds, CheckpointSteps
    <2>3. \A t \in Task : Indexed(t)'
      <3>1. CASE dirty' = TRUE
        BY <3>1
      <3>2. CASE dirty' = dirty
        BY <3>2, <1>1, <1>b, <2>2
      <3> QED BY <1>1, <3>1, <3>2
    <2>4. \A t \in Task : Hashed(t)'
      BY <1>1, <1>b, <2>2
    <2> QED BY <1>1, <1>b, <2>1, <2>3, <2>4 DEF SnapshotInv
  <1>4. ASSUME NEW p \in Actor, NEW t \in Task, WriteCheckpoint(p, t) PROVE SnapshotInv'
    <2>0. UNCHANGED <<checkpoint, snapshot, index, dirty, torn>> /\ checkpoint[t] < MaxVersions
      BY <1>4 DEF WriteCheckpoint, files, history
    <2>1. Turn(p) /\ at[p] = "idle" /\ at'[p] = "checkpoint file" /\ arg'[p].id = t
      BY <1>4, Begins
    <2>2. \A q \in Actor : VersionRoom(at[q], arg[q])'
      BY <2>0, <2>1, <1>b DEF Turn, VersionRoom
    <2>3. \A k \in Task : /\ Holds(k, "snapshot file") => Holds(k, "snapshot file")'
                          /\ Holds(k, "snapshot row") => Holds(k, "snapshot row")'
      BY <2>1, <1>a DEF Turn, Holds
    <2> QED BY <2>0, <1>b, <2>2, <2>3 DEF SnapshotInv
  <1>5. ASSUME NEW p \in Actor, ReplaceCheckpoint(p) PROVE SnapshotInv'
    <2> DEFINE t == arg[p].id
    <2>1. /\ Turn(p) /\ at[p] = "checkpoint file" /\ at'[p] = "snapshot file" /\ arg'[p] = arg[p]
          /\ checkpoint' = [checkpoint EXCEPT ![t] = @ + 1]
          /\ UNCHANGED <<snapshot, index, dirty, torn>>
      BY <1>5, Moves DEF ReplaceCheckpoint, history
    <2>2. t \in Task /\ p = Owner[t] /\ checkpoint[t] < MaxVersions
      BY <2>1, <1>a, <1>b DEF CheckpointSteps, VersionRoom
    <2>3. checkpoint'[t] = checkpoint[t] + 1 /\ \A k \in Task \ {t} : checkpoint'[k] = checkpoint[k]
      BY <2>1, <2>2, <1>a
    <2>4. ASSUME NEW q \in Actor PROVE VersionRoom(at[q], arg[q])'
      <3>1. CASE q = p
        BY <3>1, <2>1 DEF VersionRoom
      <3>2. CASE q # p
        <4>1. at[q] \in CheckpointSteps => arg[q].id # t /\ arg[q].id \in Task
          BY <3>2, <2>2, <1>a
        <4>2. at'[q] = at[q] /\ arg'[q] = arg[q] /\ VersionRoom(at[q], arg[q])
          BY <3>2, <2>1, <1>b DEF Turn
        <4>3. at[q] = "checkpoint file" => arg[q].id \in Task \ {t}
          BY <4>1 DEF CheckpointSteps
        <4> QED BY <4>2, <4>3, <2>3 DEF VersionRoom
      <3> QED BY <3>1, <3>2
    <2>5. ASSUME NEW k \in Task
          PROVE  checkpoint'[k] <= MaxVersions /\ snapshot'[k] <= checkpoint'[k]
      <3>1. /\ checkpoint[k] \in Nat /\ snapshot[k] \in Nat
            /\ checkpoint[k] <= MaxVersions /\ snapshot[k] <= checkpoint[k]
        BY <1>a, <1>b
      <3>2. CASE k = t
        <4>1. checkpoint'[k] = checkpoint[k] + 1 /\ checkpoint[k] < MaxVersions /\ snapshot' = snapshot
          BY <3>2, <2>1, <2>2, <2>3
        <4> QED BY <3>1, <4>1, <1>c
      <3>3. CASE k # t
        BY <3>1, <3>3, <2>1, <2>3
      <3> QED BY <3>2, <3>3
    <2>6. ASSUME NEW k \in Task PROVE Hashed(k)' /\ Indexed(k)'
      <3>1. CASE k = t
        <4>1. ~Holds(t, "snapshot row")
          BY <2>1, <2>2 DEF Holds
        <4>2. Holds(t, "snapshot file")'
          BY <2>1, <2>2 DEF Holds
        <4> QED BY <3>1, <4>1, <4>2, <2>1, <2>2, <1>b
      <3>2. CASE k # t
        <4>1. /\ Holds(k, "snapshot file") => Holds(k, "snapshot file")'
              /\ Holds(k, "snapshot row") => Holds(k, "snapshot row")'
          BY <3>2, <2>1, <2>2, <1>a DEF Holds, Turn
        <4> QED BY <3>2, <4>1, <2>1, <2>3, <1>b
      <3> QED BY <3>1, <3>2
    <2>7. \A k \in Task : index'.snapshots[k] <= snapshot'[k]
      BY <2>1, <1>b
    <2> QED BY <2>4, <2>5, <2>6, <2>7 DEF SnapshotInv
  <1>6. ASSUME NEW p \in Actor, WriteSnapshot(p) PROVE SnapshotInv'
    <2> DEFINE t == arg[p].id
    <2>1. /\ Turn(p) /\ at[p] = "snapshot file" /\ at'[p] = "snapshot row" /\ arg'[p] = arg[p]
          /\ snapshot' = [snapshot EXCEPT ![t] = checkpoint[t]] /\ torn' = torn \ {t}
          /\ UNCHANGED <<checkpoint, index, dirty>>
      BY <1>6, Moves DEF WriteSnapshot
    <2>2. t \in Task /\ p = Owner[t]
      BY <2>1, <1>a DEF CheckpointSteps
    <2>3. snapshot'[t] = checkpoint[t] /\ \A k \in Task \ {t} : snapshot'[k] = snapshot[k]
      BY <2>1, <2>2, <1>a
    <2>4. \A q \in Actor : VersionRoom(at[q], arg[q])'
      BY <2>1, <1>b DEF Turn, VersionRoom
    <2>5. ASSUME NEW k \in Task
          PROVE  index'.snapshots[k] <= snapshot'[k] /\ snapshot'[k] <= checkpoint'[k]
      <3>1. /\ checkpoint[k] \in Nat /\ snapshot[k] \in Nat /\ index.snapshots[k] \in Nat
            /\ index.snapshots[k] <= snapshot[k] /\ snapshot[k] <= checkpoint[k]
            /\ index' = index /\ checkpoint' = checkpoint
        BY <1>a, <1>b, <1>c, <2>1
      <3>2. CASE k = t
        BY <3>1, <3>2, <2>3
      <3>3. CASE k # t
        BY <3>1, <3>3, <2>3
      <3> QED BY <3>2, <3>3
    <2>6. ASSUME NEW k \in Task PROVE Hashed(k)' /\ Indexed(k)'
      <3>1. CASE k = t
        <4>1. Holds(t, "snapshot row")'
          BY <2>1, <2>2 DEF Holds
        <4> QED BY <3>1, <4>1, <2>1, <2>3
      <3>2. CASE k # t
        <4>1. /\ Holds(k, "snapshot file") => Holds(k, "snapshot file")'
              /\ Holds(k, "snapshot row") => Holds(k, "snapshot row")'
          BY <3>2, <2>1, <2>2, <1>a DEF Holds, Turn
        <4> QED BY <3>2, <4>1, <2>1, <2>3, <1>b
      <3> QED BY <3>1, <3>2
    <2>7. \A k \in Task : checkpoint'[k] <= MaxVersions
      BY <2>1, <1>b
    <2> QED BY <2>4, <2>5, <2>6, <2>7 DEF SnapshotInv
  <1>7. ASSUME NEW p \in Actor, IndexSnapshot(p) PROVE SnapshotInv'
    <2> DEFINE t == arg[p].id
    <2>1. /\ Turn(p) /\ at[p] = "snapshot row" /\ at'[p] = "idle"
          /\ UNCHANGED <<checkpoint, snapshot, torn>>
      BY <1>7, Moves DEF IndexSnapshot, files
    <2>2. t \in Task /\ p = Owner[t] /\ snapshot[t] \in Nat
      BY <2>1, <1>a DEF CheckpointSteps
    <2>3. \/ UNCHANGED dirty /\ index'.snapshots = [index.snapshots EXCEPT ![t] = snapshot[t]]
          \/ dirty' = TRUE /\ UNCHANGED index
      BY <1>7, SnapshotIndexed
    <2>4. \A q \in Actor : VersionRoom(at[q], arg[q])'
      BY <2>1, <1>b DEF Turn, VersionRoom
    <2>5. ASSUME NEW k \in Task
          PROVE  index'.snapshots[k] <= snapshot'[k] /\ Hashed(k)' /\ Indexed(k)'
      <3>1. Holds(k, "snapshot file") => Holds(k, "snapshot file")'
        BY <2>1, <1>a DEF Holds, Turn
      <3>2. Hashed(k)'
        BY <3>1, <2>1, <1>b
      <3>3. CASE dirty' = TRUE /\ UNCHANGED index
        BY <3>2, <3>3, <2>1, <1>b
      <3>4. CASE UNCHANGED dirty /\ index'.snapshots = [index.snapshots EXCEPT ![t] = snapshot[t]]
        <4>1. CASE k = t
          <5>1. index'.snapshots[k] = snapshot'[k] /\ snapshot'[k] \in Nat
            BY <3>4, <4>1, <2>1, <2>2, <1>c
          <5>2. index'.snapshots[k] <= snapshot'[k]
            BY <5>1
          <5> QED BY <5>1, <5>2, <3>2
        <4>2. CASE k # t
          <5>1. Holds(k, "snapshot row") => Holds(k, "snapshot row")'
            BY <4>2, <2>1, <2>2, <1>a DEF Holds, Turn
          <5>2. index'.snapshots[k] = index.snapshots[k]
            BY <3>4, <4>2, <1>c
          <5> QED BY <5>1, <5>2, <3>2, <3>4, <2>1, <1>b
        <4> QED BY <4>1, <4>2
      <3> QED BY <2>3, <3>3, <3>4
    <2>6. \A k \in Task : checkpoint'[k] <= MaxVersions /\ snapshot'[k] <= checkpoint'[k]
      BY <2>1, <1>b
    <2> QED BY <2>4, <2>5, <2>6 DEF SnapshotInv
  <1>8. ASSUME (\E p \in Actor : RebuildIndex(p)) \/ LoseIndex PROVE SnapshotInv'
    <2>1. UNCHANGED <<checkpoint, snapshot, torn, at, arg>>
      BY <1>8 DEF RebuildIndex, LoseIndex, files
    <2>2. \/ index'.snapshots = snapshot
          \/ index'.snapshots = [t \in Task |-> 0] /\ dirty' = TRUE
      BY <1>8 DEF RebuildIndex, Rebuilt, LoseIndex, EmptyIndex
    <2>3. \A t \in Task : snapshot[t] \in Nat
      BY <1>a
    <2>4. \A t \in Task : index'.snapshots[t] <= snapshot[t]
      BY <2>2, <2>3
    <2>5. \A t \in Task : Indexed(t)'
      BY <2>1, <2>2
    <2>6. \A t \in Task : Hashed(t)'
      BY <2>1, <1>b DEF Holds
    <2> QED BY <2>1, <2>4, <2>5, <2>6, <1>b DEF SnapshotInv, VersionRoom
  <1>9. ASSUME NEW p \in Actor, Return(p) \/ Crash(p) PROVE SnapshotInv'
    <2>1. Turn(p) /\ at'[p] = "idle" /\ UNCHANGED <<checkpoint, snapshot, index>>
      BY <1>9, Moves DEF Return, Crash, files
    <2>2. CASE Crash(p)
      <3>1. /\ dirty' = TRUE
            /\ torn' = IF at[p] = "snapshot file" THEN torn \cup {arg[p].id} ELSE torn
        BY <2>2 DEF Crash
      <3>2. \A q \in Actor : VersionRoom(at[q], arg[q])'
        BY <2>1, <1>b DEF Turn, VersionRoom
      <3>3. ASSUME NEW t \in Task PROVE Hashed(t)'
        <4>1. CASE p = Owner[t] /\ Holds(t, "snapshot file")
          BY <3>1, <4>1 DEF Holds
        <4>2. CASE p # Owner[t]
          <5>1. Holds(t, "snapshot file") => Holds(t, "snapshot file")'
            BY <4>2, <2>1, <1>a DEF Holds, Turn
          <5>2. t \in torn => t \in torn'
            BY <3>1
          <5> QED BY <5>1, <5>2, <2>1, <1>b
        <4>3. CASE ~Holds(t, "snapshot file")
          BY <3>1, <4>3, <2>1, <1>b
        <4> QED BY <4>1, <4>2, <4>3
      <3> QED BY <3>1, <3>2, <3>3, <2>1, <1>b DEF SnapshotInv
    <2>3. CASE Return(p)
      <3>1. at[p] \notin Mine /\ UNCHANGED <<dirty, torn>>
        BY <2>3 DEF Return, history, CheckpointSteps
      <3> QED BY <1>1, <2>1, <3>1 DEF CheckpointSteps
    <2> QED BY <1>9, <2>2, <2>3
  <1>10. ASSUME NEW p \in Actor,
                \/ \E r \in Run : CreateRun(p, r)
                \/ \E r \in Run : Restore(p, r)
                \/ \E r \in Run, t \in Task : RegisterTask(p, r, t)
                \/ \E t \in Task : Append_(p, t)
                \/ \E r \in Run, x \in Artifact : RegisterContent(p, r, x)
                \/ \E r \in Run, why \in {"export", "archive"} : Collect(p, r, why)
                \/ \E r \in Run, next \in {"open", "recover"} : OpenRun(p, r, next)
         PROVE  SnapshotInv'
    <2>1. UNCHANGED <<checkpoint, snapshot, torn, index>> /\ dirty' \in {dirty, TRUE}
      BY <1>10 DEF CreateRun, Restore, RegisterTask, Append_, RegisterContent, Collect, OpenRun,
         files, history, Unmoved
    <2>2. Turn(p) /\ at[p] \notin Mine /\ at'[p] \notin Mine
      BY <1>10, Begins, ZenonT(30) DEF CheckpointSteps
    <2> QED BY <1>1, <2>1, <2>2
  <1>11. ASSUME NEW p \in Actor,
                \/ NextDepartment(p) \/ Digest(p) \/ Copy(p) \/ RestoreFile(p) \/ Compare(p)
         PROVE  SnapshotInv'
    <2>1. UNCHANGED <<checkpoint, snapshot, torn, index>> /\ dirty' \in {dirty, TRUE}
      BY <1>11 DEF NextDepartment, Digest, Copy, RestoreFile, Compare, ListSnapshots, ReadSnapshot,
         HashCheckpoint, ListArtifacts, files,
         history, Unmoved
    <2>2. Turn(p) /\ at[p] \notin Mine /\ at'[p] \notin Mine
      BY <1>11, LongTurns DEF CheckpointSteps
    <2> QED BY <1>1, <2>1, <2>2
  <1>12. ASSUME NEW p \in Actor,
                \/ WriteRunFile(p) \/ WriteMemberFile(p) \/ WriteEvent(p) \/ StoreContent(p)
                \/ WriteRecord(p) \/ MarkArchived(p) \/ Conclude(p) \/ RestoreRest(p)
         PROVE  SnapshotInv'
    <2>1. UNCHANGED <<checkpoint, snapshot, torn, index>> /\ dirty' \in {dirty, TRUE}
      BY <1>12 DEF WriteRunFile, WriteMemberFile, WriteEvent, StoreContent, WriteRecord,
         MarkArchived, Conclude, RestoreRest, files, history, Unmoved
    <2>2. Turn(p) /\ at[p] \notin Mine /\ at'[p] \notin Mine
      BY <1>12, Moves DEF CheckpointSteps
    <2> QED BY <1>1, <2>1, <2>2
  <1>13. ASSUME NEW p \in Actor,
                \/ IndexMember(p) \/ IndexEvent(p) \/ IndexArtifact(p) \/ IndexRun(p)
                \/ IndexArchived(p) \/ IndexOpened(p)
         PROVE  SnapshotInv'
    <2>1. UNCHANGED <<checkpoint, snapshot, torn>> /\ dirty' \in {dirty, TRUE}
      BY <1>13 DEF IndexMember, IndexEvent, IndexArtifact, IndexRun, IndexArchived, IndexOpened,
         IndexRow, files, history, Unmoved
    <2>2. Turn(p) /\ at[p] \notin Mine /\ at'[p] \notin Mine
      BY <1>13, Moves DEF CheckpointSteps
    <2>3. index'.snapshots = index.snapshots
      BY <1>13, MemberIndexed, EventIndexed, ArtifactIndexed, RunsIndexed
    <2> QED BY <1>1, <2>1, <2>2, <2>3
  <1>14. ASSUME UNCHANGED vars PROVE SnapshotInv'
    BY <1>14, <1>b DEF vars, files, history, SnapshotInv, VersionRoom, Holds
  <1> QED BY <1>4, <1>5, <1>6, <1>7, <1>8, <1>9, <1>10, <1>11, <1>12, <1>13, <1>14
       DEF Next, WriterStep, KeeperStep, Actor

LEMMA ArtifactInvStep == TypeInv /\ ArtifactInv /\ [Next]_vars => ArtifactInv'
  <1> SUFFICES ASSUME TypeInv, ArtifactInv, [Next]_vars PROVE ArtifactInv'
    OBVIOUS
  <1> DEFINE Mine == ContentSteps
             Apart == \A p, q \in Actor :
                         p # q /\ at[p] \in ContentSteps /\ at[q] \in ContentSteps
                            => arg[p].id # arg[q].id
             Backed(x) == /\ record[x] # None => x \in store
                          /\ index.artifacts[x] # None => index.artifacts[x] = record[x]
             Indexed(x) == dirty \/ index.artifacts[x] = record[x] \/ ArtifactPending(x)
  <1>a. /\ store \in SUBSET Artifact /\ record \in [Artifact -> Run \cup {None}]
        /\ index \in Tables /\ dirty \in BOOLEAN
        /\ \A p \in Actor : at[p] \in ContentSteps =>
              p \in Writer /\ arg[p].id \in Artifact /\ arg[p].run \in Run
        /\ \A p \in Writer : p \in Actor
    BY DEF TypeInv, FileTypes, IndexTypes, PlaceTypes, Placed, WriterSteps, ContentSteps, Actor
  <1>b. /\ \A p \in Actor : ContentKept(at[p], arg[p])
        /\ Apart
        /\ \A x \in Artifact : Backed(x)
        /\ \A x \in Artifact : Indexed(x)
    BY DEF ArtifactInv
  <1>c. index.artifacts \in [Artifact -> Run \cup {None}] /\ None \notin Run
    BY <1>a, SpineAssumption DEF Tables
  <1>d. ASSUME (\A p \in Actor : ContentKept(at[p], arg[p]))', Apart',
               \A x \in Artifact : Backed(x)', \A x \in Artifact : Indexed(x)'
        PROVE  ArtifactInv'
    BY <1>d DEF ArtifactInv
  <1>1. ASSUME NEW p \in Actor, Turn(p), at[p] \notin Mine, at'[p] \notin Mine,
               UNCHANGED <<store, record>>, index'.artifacts = index.artifacts,
               dirty' \in {dirty, TRUE}
        PROVE  ArtifactInv'
    <2>1. ASSUME NEW q \in Actor PROVE ContentKept(at[q], arg[q])'
      <3>1. CASE q = p
        BY <3>1, <1>1 DEF ContentKept, ContentSteps
      <3>2. CASE q # p
        <4>1. at'[q] = at[q] /\ arg'[q] = arg[q] /\ ContentKept(at[q], arg[q])
          BY <3>2, <1>1, <1>b DEF Turn
        <4> QED BY <1>1, <4>1 DEF ContentKept
      <3> QED BY <3>1, <3>2
    <2>2. Apart'
      BY <1>1, <1>b DEF Turn
    <2>3. \A x \in Artifact : ArtifactPending(x) => ArtifactPending(x)'
      BY <1>1, <1>a DEF Turn, ArtifactPending, ContentSteps
    <2>4. \A x \in Artifact : Indexed(x)'
      <3>1. CASE dirty' = TRUE
        BY <3>1
      <3>2. CASE dirty' = dirty
        BY <3>2, <1>1, <1>b, <2>3
      <3> QED BY <1>1, <3>1, <3>2
    <2>5. \A x \in Artifact : Backed(x)'
      BY <1>1, <1>b
    <2> QED BY <1>d, <2>1, <2>2, <2>4, <2>5
  <1>2. ASSUME NEW p \in Actor, Turn(p), at[p] \in Mine, arg'[p] = arg[p]
        PROVE  Apart'
    BY <1>2, <1>b DEF Turn
  <1>3. ASSUME NEW p \in Actor, Turn(p), at'[p] = "idle", UNCHANGED <<store, record>>
        PROVE  (\A q \in Actor : ContentKept(at[q], arg[q]))' /\ Apart'
    <2>1. ASSUME NEW q \in Actor PROVE ContentKept(at[q], arg[q])'
      <3>1. CASE q = p
        BY <3>1, <1>3 DEF ContentKept
      <3>2. CASE q # p
        BY <3>2, <1>3, <1>b DEF Turn, ContentKept
      <3> QED BY <3>1, <3>2
    <2>2. Apart'
      <3>1. "idle" \notin ContentSteps
        BY DEF ContentSteps
      <3> QED BY <3>1, <1>3, <1>b DEF Turn
    <2> QED BY <2>1, <2>2
  <1>4. ASSUME NEW p \in Actor, NEW r \in Run, NEW x \in Artifact, RegisterContent(p, r, x)
        PROVE  ArtifactInv'
    <2>0. /\ UNCHANGED <<store, record, index, dirty>> /\ x \notin store
          /\ \A q \in Actor : arg[q].id # x
      BY <1>4 DEF RegisterContent, files, history
    <2>1. Turn(p) /\ at[p] = "idle" /\ at'[p] = "content" /\ arg'[p].id = x
      BY <1>4, Begins
    <2>2. ASSUME NEW q \in Actor PROVE ContentKept(at[q], arg[q])'
      <3>1. CASE q = p
        BY <3>1, <2>0, <2>1 DEF ContentKept
      <3>2. CASE q # p
        <4>1. at'[q] = at[q] /\ arg'[q] = arg[q] /\ ContentKept(at[q], arg[q])
          BY <3>2, <2>1, <1>b DEF Turn
        <4>2. UNCHANGED <<store, record>>
          BY <2>0
        <4> QED BY <4>1, <4>2 DEF ContentKept
      <3> QED BY <3>1, <3>2
    <2>3. Apart'
      BY <2>0, <2>1, <1>b DEF Turn
    <2>4. \A y \in Artifact : ArtifactPending(y) => ArtifactPending(y)'
      BY <2>1, <1>a DEF Turn, ArtifactPending
    <2>5. \A y \in Artifact : Indexed(y)' /\ Backed(y)'
      BY <2>0, <2>4, <1>b
    <2> QED BY <1>d, <2>2, <2>3, <2>5
  <1>5. ASSUME NEW p \in Actor, StoreContent(p) PROVE ArtifactInv'
    <2> DEFINE x == arg[p].id
    <2>1. /\ Turn(p) /\ at[p] = "content" /\ at'[p] = "record file" /\ arg'[p] = arg[p]
          /\ store' = store \cup {x} /\ UNCHANGED <<record, index, dirty>>
      BY <1>5, Moves DEF StoreContent, history
    <2>2. x \in Artifact /\ x \notin store /\ record[x] = None
      <3>1. x \in Artifact /\ x \notin store
        BY <2>1, <1>a, <1>b DEF ContentSteps, ContentKept
      <3> QED BY <3>1, <1>b
    <2>3. ASSUME NEW q \in Actor PROVE ContentKept(at[q], arg[q])'
      <3>1. CASE q = p
        BY <3>1, <2>1, <2>2 DEF ContentKept
      <3>2. CASE q # p
        <4>1. at'[q] = at[q] /\ arg'[q] = arg[q] /\ ContentKept(at[q], arg[q])
          BY <3>2, <2>1, <1>b DEF Turn
        <4>2. at[q] = "content" => arg[q].id # x
          BY <3>2, <2>1, <1>b DEF ContentSteps
        <4> QED BY <4>1, <4>2, <2>1 DEF ContentKept
      <3> QED BY <3>1, <3>2
    <2>4. Apart'
      BY <1>2, <2>1 DEF ContentSteps
    <2>5. \A y \in Artifact : ArtifactPending(y) => ArtifactPending(y)'
      BY <2>1, <1>a DEF Turn, ArtifactPending
    <2>6. \A y \in Artifact : Indexed(y)' /\ Backed(y)'
      BY <2>1, <2>5, <1>b
    <2> QED BY <1>d, <2>3, <2>4, <2>6
  <1>6. ASSUME NEW p \in Actor, WriteRecord(p) PROVE ArtifactInv'
    <2> DEFINE x == arg[p].id
               r == arg[p].run
    <2>1. /\ Turn(p) /\ at[p] = "record file" /\ at'[p] = "artifact row" /\ arg'[p] = arg[p]
          /\ record' = [record EXCEPT ![x] = r] /\ UNCHANGED <<store, index, dirty>>
      BY <1>6, Moves DEF WriteRecord, history
    <2>2. p \in Writer /\ x \in Artifact /\ r \in Run /\ x \in store /\ record[x] = None
      BY <2>1, <1>a, <1>b DEF ContentSteps, ContentKept
    <2>3. record'[x] = r /\ \A y \in Artifact \ {x} : record'[y] = record[y]
      BY <2>1, <2>2, <1>a
    <2>4. ASSUME NEW q \in Actor PROVE ContentKept(at[q], arg[q])'
      <3>1. CASE q = p
        BY <3>1, <2>1, <2>2, <2>3 DEF ContentKept
      <3>2. CASE q # p
        <4>1. at'[q] = at[q] /\ arg'[q] = arg[q] /\ ContentKept(at[q], arg[q])
          BY <3>2, <2>1, <1>b DEF Turn
        <4>2. at[q] \in {"record file", "artifact row"} => arg[q].id \in Artifact \ {x}
          BY <3>2, <2>1, <1>a, <1>b DEF ContentSteps
        <4> QED BY <4>1, <4>2, <2>1, <2>3 DEF ContentKept
      <3> QED BY <3>1, <3>2
    <2>5. Apart'
      BY <1>2, <2>1 DEF ContentSteps
    <2>6. ASSUME NEW y \in Artifact PROVE Indexed(y)' /\ Backed(y)'
      <3>1. CASE y = x
        <4>1. ArtifactPending(y)'
          BY <3>1, <2>1, <2>2 DEF ArtifactPending
        <4>2. index'.artifacts[y] = None
          BY <3>1, <2>1, <2>2, <1>b, <1>c
        <4> QED BY <3>1, <4>1, <4>2, <2>1, <2>2
      <3>2. CASE y # x
        <4>1. ArtifactPending(y) => ArtifactPending(y)'
          BY <2>1, <3>2, <1>a DEF Turn, ArtifactPending
        <4> QED BY <3>2, <4>1, <2>1, <2>3, <1>b
      <3> QED BY <3>1, <3>2
    <2> QED BY <1>d, <2>4, <2>5, <2>6
  <1>7. ASSUME NEW p \in Actor, IndexArtifact(p) PROVE ArtifactInv'
    <2> DEFINE x == arg[p].id
               r == arg[p].run
    <2>1. /\ Turn(p) /\ at[p] = "artifact row" /\ at'[p] = "idle" /\ UNCHANGED <<store, record>>
      BY <1>7, Moves DEF IndexArtifact, files
    <2>2. x \in Artifact /\ r \in Run /\ record[x] = r
      BY <2>1, <1>a, <1>b DEF ContentSteps, ContentKept
    <2>3. \/ UNCHANGED dirty /\ index'.artifacts = [index.artifacts EXCEPT ![x] = r]
          \/ dirty' = TRUE /\ UNCHANGED index
      BY <1>7, ArtifactIndexed
    <2>4. (\A q \in Actor : ContentKept(at[q], arg[q]))' /\ Apart'
      BY <2>1, <1>3
    <2>5. ASSUME NEW y \in Artifact PROVE Indexed(y)' /\ Backed(y)'
      <3>1. CASE dirty' = TRUE /\ UNCHANGED index
        BY <3>1, <2>1, <1>b
      <3>2. CASE UNCHANGED dirty /\ index'.artifacts = [index.artifacts EXCEPT ![x] = r]
        <4>1. CASE y = x
          BY <3>2, <4>1, <2>1, <2>2, <1>b, <1>c
        <4>2. CASE y # x
          <5>1. ArtifactPending(y) => ArtifactPending(y)'
            BY <4>2, <2>1, <1>a DEF Turn, ArtifactPending
          <5>2. index'.artifacts[y] = index.artifacts[y]
            BY <3>2, <4>2, <1>c
          <5> QED BY <3>2, <5>1, <5>2, <2>1, <1>b
        <4> QED BY <4>1, <4>2
      <3> QED BY <2>3, <3>1, <3>2
    <2> QED BY <1>d, <2>4, <2>5
  <1>8. ASSUME (\E p \in Actor : RebuildIndex(p)) \/ LoseIndex PROVE ArtifactInv'
    <2>1. UNCHANGED <<store, record, at, arg>>
      BY <1>8 DEF RebuildIndex, LoseIndex, files
    <2>2. \/ index'.artifacts = record
          \/ index'.artifacts = [x \in Artifact |-> None] /\ dirty' = TRUE
      BY <1>8 DEF RebuildIndex, Rebuilt, LoseIndex, EmptyIndex
    <2>3. (\A q \in Actor : ContentKept(at[q], arg[q]))' /\ Apart'
      BY <2>1, <1>b DEF ContentKept
    <2>4. \A y \in Artifact : Indexed(y)' /\ Backed(y)'
      BY <2>1, <2>2, <1>b
    <2> QED BY <1>d, <2>3, <2>4
  <1>9. ASSUME NEW p \in Actor, Crash(p) PROVE ArtifactInv'
    <2>1. Turn(p) /\ at'[p] = "idle" /\ UNCHANGED <<store, record, index>> /\ dirty' = TRUE
      BY <1>9, Moves DEF Crash, files
    <2>2. (\A q \in Actor : ContentKept(at[q], arg[q]))' /\ Apart'
      BY <2>1, <1>3
    <2> QED BY <1>d, <2>1, <2>2, <1>b
  <1>10. ASSUME NEW p \in Actor, Return(p) PROVE ArtifactInv'
    <2>1. /\ Turn(p) /\ at[p] \notin Mine /\ at'[p] \notin Mine
          /\ UNCHANGED <<store, record, index, dirty>>
      BY <1>10, Moves DEF Return, files, history, ContentSteps
    <2> QED BY <1>1, <2>1
  <1>11. ASSUME NEW p \in Actor,
                \/ \E r \in Run : CreateRun(p, r)
                \/ \E r \in Run : Restore(p, r)
                \/ \E r \in Run, t \in Task : RegisterTask(p, r, t)
                \/ \E t \in Task : Append_(p, t)
                \/ \E t \in Task : WriteCheckpoint(p, t)
                \/ \E r \in Run, why \in {"export", "archive"} : Collect(p, r, why)
                \/ \E r \in Run, next \in {"open", "recover"} : OpenRun(p, r, next)
         PROVE  ArtifactInv'
    <2>1. UNCHANGED <<store, record, index>> /\ dirty' \in {dirty, TRUE}
      BY <1>11 DEF CreateRun, Restore, RegisterTask, Append_, WriteCheckpoint, Collect, OpenRun,
         files, history, Unmoved
    <2>2. Turn(p) /\ at[p] \notin Mine /\ at'[p] \notin Mine
      BY <1>11, Begins, ZenonT(30) DEF ContentSteps
    <2> QED BY <1>1, <2>1, <2>2
  <1>12. ASSUME NEW p \in Actor,
                \/ NextDepartment(p) \/ Digest(p) \/ Copy(p) \/ RestoreFile(p) \/ Compare(p)
         PROVE  ArtifactInv'
    <2>1. UNCHANGED <<store, record, index>> /\ dirty' \in {dirty, TRUE}
      BY <1>12 DEF NextDepartment, Digest, Copy, RestoreFile, Compare, ListSnapshots, ReadSnapshot,
         HashCheckpoint, ListArtifacts, files,
         history, Unmoved
    <2>2. Turn(p) /\ at[p] \notin Mine /\ at'[p] \notin Mine
      BY <1>12, LongTurns DEF ContentSteps
    <2> QED BY <1>1, <2>1, <2>2
  <1>13. ASSUME NEW p \in Actor,
                \/ WriteRunFile(p) \/ WriteMemberFile(p) \/ WriteEvent(p) \/ ReplaceCheckpoint(p)
                \/ WriteSnapshot(p) \/ MarkArchived(p) \/ Conclude(p) \/ RestoreRest(p)
         PROVE  ArtifactInv'
    <2>1. UNCHANGED <<store, record, index>> /\ dirty' \in {dirty, TRUE}
      BY <1>13 DEF WriteRunFile, WriteMemberFile, WriteEvent, ReplaceCheckpoint, WriteSnapshot,
         MarkArchived, Conclude, RestoreRest, files, history, Unmoved
    <2>2. Turn(p) /\ at[p] \notin Mine /\ at'[p] \notin Mine
      BY <1>13, Moves DEF ContentSteps
    <2> QED BY <1>1, <2>1, <2>2
  <1>14. ASSUME NEW p \in Actor,
                \/ IndexMember(p) \/ IndexEvent(p) \/ IndexSnapshot(p) \/ IndexRun(p)
                \/ IndexArchived(p) \/ IndexOpened(p)
         PROVE  ArtifactInv'
    <2>1. UNCHANGED <<store, record>> /\ dirty' \in {dirty, TRUE}
      BY <1>14 DEF IndexMember, IndexEvent, IndexSnapshot, IndexRun, IndexArchived, IndexOpened,
         IndexRow, files, history, Unmoved
    <2>2. Turn(p) /\ at[p] \notin Mine /\ at'[p] \notin Mine
      BY <1>14, Moves DEF ContentSteps
    <2>3. index'.artifacts = index.artifacts
      BY <1>14, MemberIndexed, EventIndexed, SnapshotIndexed, RunsIndexed
    <2> QED BY <1>1, <2>1, <2>2, <2>3
  <1>15. ASSUME UNCHANGED vars PROVE ArtifactInv'
    BY <1>15, <1>b DEF vars, files, history, ArtifactInv, ContentKept, ArtifactPending
  <1> QED BY <1>4, <1>5, <1>6, <1>7, <1>8, <1>9, <1>10, <1>11, <1>12, <1>13, <1>14, <1>15
       DEF Next, WriterStep, KeeperStep, Actor

LEMMA ExportInvStep == TypeInv /\ ArtifactInv /\ ExportInv /\ [Next]_vars => ExportInv'
  <1> SUFFICES ASSUME TypeInv, ArtifactInv, ExportInv, [Next]_vars PROVE ExportInv'
    OBVIOUS
  <1> DEFINE Mine == CopySteps \cup RestoreSteps
             Apart == \A p, q \in Actor :
                         p # q /\ at[p] \in CopySteps /\ at[q] \in CopySteps
                            => arg[p].run # arg[q].run
             Whole(r) == archive[r].quiet => archive[r].records \subseteq archive[r].contents
             Shown(r) == target[r].indexed =>
                            archive[r].state = "whole" /\ archive[r].bad = {} /\ target[r].files = Kinds
             Restoring(r) == \E p \in Keeper : arg[p].run = r /\ at[p] \in RestoreSteps
             Left(r) == target[r].files # {} =>
                           target[r].indexed \/ faults > 0 \/ Restoring(r)
  <1>a. /\ archive \in [Run -> Exports]
        /\ target \in [Run -> [indexed : BOOLEAN, files : SUBSET Kinds]]
        /\ \A p \in Actor : at[p] \in Mine => p \in Keeper /\ arg[p].run \in Run
        /\ \A p \in Actor : at[p] \in CopySteps \cup {"restore"} => arg[p].id \in 1..3
        /\ \A p \in Keeper : p \in Actor
        /\ faults \in Nat
    <2>1. faults \in Nat
      BY DEF TypeInv, IndexTypes
    <2> QED BY <2>1 DEF TypeInv, ExportTypes, PlaceTypes, Placed, KeeperSteps, CopySteps, RestoreSteps, Actor
  <1>b. /\ \A p \in Actor : Transfer(at[p], arg[p])
        /\ Apart
        /\ \A r \in Run : Whole(r) /\ Shown(r) /\ Left(r)
    BY DEF ExportInv
  <1>c. ASSUME (\A p \in Actor : Transfer(at[p], arg[p]))', Apart',
               \A r \in Run : (Whole(r) /\ Shown(r) /\ Left(r))'
        PROVE  ExportInv'
    BY <1>c DEF ExportInv
  <1>m. /\ Kinds = {Mutable[1], Mutable[2], Mutable[3]}
        /\ DOMAIN Mutable = 1..3 /\ Len(Mutable) = 3
        /\ \A i \in 1..3 : Mutable[i] \in Kinds
    BY DEF Kinds, Mutable
  <1>1. ASSUME NEW p \in Actor, Turn(p), at[p] \notin Mine, at'[p] \notin Mine,
               UNCHANGED <<archive, target>>, faults' = faults \/ faults' > 0
        PROVE  ExportInv'
    <2>1. ASSUME NEW q \in Actor PROVE Transfer(at[q], arg[q])'
      <3>1. CASE q = p
        BY <3>1, <1>1 DEF Transfer, CopySteps, RestoreSteps
      <3>2. CASE q # p
        <4>1. at'[q] = at[q] /\ arg'[q] = arg[q] /\ Transfer(at[q], arg[q])
          BY <3>2, <1>1, <1>b DEF Turn
        <4> QED BY <4>1, <1>1 DEF Transfer
      <3> QED BY <3>1, <3>2
    <2>2. Apart'
      BY <1>1, <1>b DEF Turn
    <2>3. ASSUME NEW r \in Run PROVE Restoring(r) => Restoring(r)'
      BY <1>1, <1>a DEF Turn
    <2>4. \A r \in Run : (Whole(r) /\ Shown(r) /\ Left(r))'
      BY <1>1, <1>b, <2>3
    <2> QED BY <1>c, <2>1, <2>2, <2>4
  <1>2. ASSUME NEW p \in Keeper, NEW r \in Run, NEW why \in {"export", "archive"}, Collect(p, r, why)
        PROVE  ExportInv'
    <2> DEFINE e == [NoExport EXCEPT !.state = "partial",
                           !.records = {x \in Artifact : record[x] = r},
                           !.contents = ContentOf(r) \cap store,
                           !.quiet = Quiet /\ ~dirty]
    <2>1. /\ archive' = [archive EXCEPT ![r] = e] /\ UNCHANGED <<target, faults>>
          /\ archive[r].state # "whole" /\ \A q \in Keeper : arg[q].run # r
      BY <1>2 DEF Collect, history
    <2>0. p \in Actor
      BY DEF Actor
    <2>2. p \in Actor /\ Turn(p) /\ at[p] = "idle" /\ at'[p] = "digest" /\ arg'[p].run = r /\ arg'[p].id = 1
      <3>1. at \in [Actor -> Steps] /\ arg \in [Actor -> Args]
        BY DEF TypeInv, PlaceTypes
      <3> QED BY <1>2, <2>0, <3>1 DEF Collect, Begin, NoArg, Turn
    <2>3. e.state = "partial" /\ archive'[r] = e /\ \A q \in Run \ {r} : archive'[q] = archive[q]
      BY <2>1, <1>a DEF NoExport
    <2>4. ASSUME NEW q \in Actor, q # p, at[q] \in Mine
          PROVE  arg[q].run \in Run \ {r} /\ archive'[arg[q].run] = archive[arg[q].run]
      <3>1. q \in Keeper /\ arg[q].run \in Run
        BY <2>4, <1>a
      <3> QED BY <3>1, <2>1, <2>3
    <2>5. ASSUME NEW q \in Actor PROVE Transfer(at[q], arg[q])'
      <3>1. CASE q = p
        BY <3>1, <2>2, <2>3 DEF Transfer, CopySteps, RestoreSteps
      <3>2. CASE q # p
        <4>1. at'[q] = at[q] /\ arg'[q] = arg[q] /\ Transfer(at[q], arg[q]) /\ target' = target
          BY <3>2, <2>1, <2>2, <1>b DEF Turn
        <4>2. at[q] \in Mine => archive'[arg[q].run] = archive[arg[q].run]
          BY <3>2, <2>4
        <4> QED BY <4>1, <4>2 DEF Transfer, CopySteps, RestoreSteps
      <3> QED BY <3>1, <3>2
    <2>6. Apart'
      <3>1. ASSUME NEW q \in Actor, q # p, at'[q] \in CopySteps PROVE arg'[q].run # r
        BY <3>1, <2>2, <2>4 DEF Turn
      <3> QED BY <3>1, <2>2, <1>b DEF Turn
    <2>7. Whole(r)'
      <3>1. SUFFICES ASSUME Quiet, ~dirty
                     PROVE  {x \in Artifact : record[x] = r} \subseteq ContentOf(r) \cap store
        BY <2>3, ZenonT(30) DEF NoExport
      <3>2. ASSUME NEW x \in Artifact, record[x] = r
            PROVE  x \in ContentOf(r) \cap store
        <4>1. x \in store
          BY <3>2, SpineAssumption DEF ArtifactInv
        <4>2. index.artifacts[x] = r
          BY <3>1, <3>2 DEF ArtifactInv, ArtifactPending, Quiet
        <4> QED BY <4>1, <4>2 DEF ContentOf
      <3> QED BY <3>2
    <2>8. ~target[r].indexed
      BY <2>1, <1>b
    <2>9. ASSUME NEW k \in Run PROVE (Whole(k) /\ Shown(k) /\ Left(k))'
      <3>1. Restoring(k) => Restoring(k)'
        BY <2>2, <1>a DEF Turn, RestoreSteps
      <3>2. CASE k = r
        BY <3>1, <3>2, <2>1, <2>7, <2>8, <1>b
      <3>3. CASE k # r
        BY <3>1, <3>3, <2>1, <2>3, <1>b
      <3> QED BY <3>2, <3>3
    <2> QED BY <1>c, <2>5, <2>6, <2>9
  <1>3. ASSUME NEW p \in Actor, Digest(p) PROVE ExportInv'
    <2>1. /\ Turn(p) /\ at[p] = "digest" /\ at'[p] = "copy" /\ arg'[p].run = arg[p].run
          /\ arg'[p].id = arg[p].id /\ UNCHANGED <<archive, target, faults>>
      BY <1>3, LongTurns DEF Digest, Unmoved, history
    <2>2. ASSUME NEW q \in Actor PROVE Transfer(at[q], arg[q])'
      <3>1. CASE q = p
        <4>1. archive[arg[p].run].state = "partial"
          BY <2>1, <1>b DEF Transfer, CopySteps
        <4>2. archive'[arg'[q].run].state = "partial" /\ at'[q] = "copy"
          BY <3>1, <4>1, <2>1
        <4> QED BY <4>2 DEF Transfer, RestoreSteps
      <3>2. CASE q # p
        <4>1. at'[q] = at[q] /\ arg'[q] = arg[q] /\ Transfer(at[q], arg[q])
          BY <3>2, <2>1, <1>b DEF Turn
        <4> QED BY <4>1, <2>1 DEF Transfer
      <3> QED BY <3>1, <3>2
    <2>3. Apart'
      <3>1. \A q \in Actor : /\ at'[q] \in CopySteps => at[q] \in CopySteps
                             /\ arg'[q].run = arg[q].run
        BY <2>1 DEF Turn, CopySteps
      <3> QED BY <3>1, <1>b
    <2>4. \A r \in Run : Restoring(r) => Restoring(r)'
      BY <2>1, <1>a DEF Turn, RestoreSteps
    <2>5. \A r \in Run : (Whole(r) /\ Shown(r) /\ Left(r))'
      BY <2>1, <2>4, <1>b
    <2> QED BY <1>c, <2>2, <2>3, <2>5
  <1>4. ASSUME NEW p \in Actor, Copy(p) PROVE ExportInv'
    <2> DEFINE r == arg[p].run
    <2>1. /\ Turn(p) /\ at[p] = "copy" /\ UNCHANGED <<target, faults>>
          /\ \/ at'[p] = "idle"
             \/ at'[p] = "archived file"
             \/ arg[p].id # 3 /\ at'[p] = "digest" /\ arg'[p].run = r
      BY <1>4, LongTurns DEF Copy, history
    <2>2. p \in Keeper /\ r \in Run /\ arg[p].id \in 1..3 /\ archive[r].state = "partial"
      BY <2>1, <1>a, <1>b DEF Transfer, CopySteps
    <2>3. /\ archive'[r].records = archive[r].records /\ archive'[r].contents = archive[r].contents
          /\ archive'[r].quiet = archive[r].quiet
          /\ arg[p].id # 3 => archive'[r].state = "partial"
          /\ \A k \in Run \ {r} : archive'[k] = archive[k]
      <3>1. PICK b, st : /\ archive' = [archive EXCEPT ![r].bad = @ \cup b, ![r].state = st]
                         /\ arg[p].id # 3 => st = archive[r].state
        <4> DEFINE b == IF FileValue(r, Mutable[arg[p].id]) = arg[p].digest THEN {} ELSE {Mutable[arg[p].id]}
                   st == IF arg[p].id = Len(Mutable) THEN "whole" ELSE archive[r].state
        <4>1. archive' = [archive EXCEPT ![r].bad = @ \cup b, ![r].state = st]
          BY <1>4, <1>a, <2>2 DEF Copy, Exports
        <4>2. arg[p].id # 3 => st = archive[r].state
          BY <1>m
        <4> HIDE DEF b, st
        <4> QED BY <4>1, <4>2
      <3> DEFINE e == [archive[r] EXCEPT !.bad = @ \cup b, !.state = st]
      <3>2. archive[r] \in Exports
        BY <2>2, <1>a
      <3>3. /\ e.records = archive[r].records /\ e.contents = archive[r].contents
            /\ e.quiet = archive[r].quiet /\ e.state = st
        BY <3>2 DEF Exports
      <3>4. archive' = [archive EXCEPT ![r] = e]
        BY <3>1
      <3>5. archive'[r] = e /\ \A k \in Run \ {r} : archive'[k] = archive[k]
        <4> HIDE DEF e
        <4> QED BY <3>4, <2>2, <1>a
      <3> QED BY <3>1, <3>3, <3>5, <2>2
    <2>4. ASSUME NEW q \in Actor, q # p, at[q] \in Mine
          PROVE  arg[q].run \in Run \ {r} /\ archive'[arg[q].run] = archive[arg[q].run]
      <3>1. arg[q].run \in Run /\ Transfer(at[q], arg[q])
        BY <2>4, <1>a, <1>b
      <3>2. CASE at[q] \in CopySteps
        <4>1. at[p] \in CopySteps
          BY <2>1 DEF CopySteps
        <4>2. arg[q].run # r
          BY <4>1, <3>2, <2>4, <1>b
        <4> QED BY <4>2, <3>1, <2>3
      <3>3. CASE at[q] \in RestoreSteps
        BY <3>1, <3>3, <2>2, <2>3 DEF Transfer
      <3> QED BY <2>4, <3>2, <3>3
    <2>5. ASSUME NEW q \in Actor PROVE Transfer(at[q], arg[q])'
      <3>1. CASE q = p
        BY <3>1, <2>1, <2>3 DEF Transfer, CopySteps, RestoreSteps
      <3>2. CASE q # p
        <4>1. at'[q] = at[q] /\ arg'[q] = arg[q] /\ Transfer(at[q], arg[q]) /\ target' = target
          BY <3>2, <2>1, <1>b DEF Turn
        <4>2. at[q] \in Mine => archive'[arg[q].run] = archive[arg[q].run]
          BY <3>2, <2>4
        <4> QED BY <4>1, <4>2 DEF Transfer, CopySteps, RestoreSteps
      <3> QED BY <3>1, <3>2
    <2>6. Apart'
      <3>1. \A q \in Actor : at'[q] \in CopySteps => at[q] \in CopySteps /\ arg'[q].run = arg[q].run
        BY <2>1 DEF Turn, CopySteps
      <3> QED BY <3>1, <1>b
    <2>7. ~target[r].indexed
      BY <2>2, <1>b
    <2>8. ASSUME NEW k \in Run PROVE (Whole(k) /\ Shown(k) /\ Left(k))'
      <3>1. Restoring(k) => Restoring(k)'
        BY <2>1, <1>a DEF Turn, RestoreSteps
      <3>2. CASE k = r
        <4>0. /\ archive'[k].records = archive[k].records /\ archive'[k].contents = archive[k].contents
              /\ archive'[k].quiet = archive[k].quiet
              /\ target'[k] = target[k] /\ ~target[k].indexed /\ faults' = faults
          BY <3>2, <2>1, <2>3, <2>7
        <4>1. Whole(k)'
          BY <4>0, <1>b
        <4>2. Shown(k)'
          BY <4>0
        <4>3. Left(k)'
          BY <3>1, <4>0, <1>b
        <4> QED BY <4>1, <4>2, <4>3
      <3>3. CASE k # r
        <4>1. archive'[k] = archive[k] /\ target' = target /\ faults' = faults
          BY <3>3, <2>1, <2>3
        <4> QED BY <3>1, <4>1, <1>b
      <3> QED BY <3>2, <3>3
    <2> QED BY <1>c, <2>5, <2>6, <2>8
  <1>5. ASSUME NEW p \in Actor, NEW r \in Run, Restore(p, r) PROVE ExportInv'
    <2>1. /\ UNCHANGED <<archive, target, faults>> /\ archive[r].state = "whole"
          /\ Turn(p) /\ at[p] = "idle" /\ at'[p] = "restore" /\ arg'[p].run = r /\ arg'[p].id = 1
      <3>1. UNCHANGED <<archive, target, faults>> /\ archive[r].state = "whole"
        BY <1>5 DEF Restore, Unmoved, history
      <3> QED BY <1>5, <3>1, Begins
    <2>2. ASSUME NEW q \in Actor PROVE Transfer(at[q], arg[q])'
      <3>1. CASE q = p
        BY <3>1, <2>1 DEF Transfer, CopySteps, RestoreSteps
      <3>2. CASE q # p
        <4>1. at'[q] = at[q] /\ arg'[q] = arg[q] /\ Transfer(at[q], arg[q])
          BY <3>2, <2>1, <1>b DEF Turn
        <4> QED BY <4>1, <2>1 DEF Transfer
      <3> QED BY <3>1, <3>2
    <2>3. Apart'
      BY <2>1, <1>b DEF Turn, CopySteps
    <2>4. \A k \in Run : Restoring(k) => Restoring(k)'
      BY <2>1, <1>a DEF Turn, RestoreSteps
    <2>5. \A k \in Run : (Whole(k) /\ Shown(k) /\ Left(k))'
      BY <2>1, <2>4, <1>b
    <2> QED BY <1>c, <2>2, <2>3, <2>5
  <1>6. ASSUME NEW p \in Actor, RestoreFile(p) PROVE ExportInv'
    <2> DEFINE r == arg[p].run
               kind == Mutable[arg[p].id]
    <2>1. /\ Turn(p) /\ at[p] = "restore" /\ UNCHANGED <<archive, faults>>
      BY <1>6, LongTurns DEF RestoreFile, history
    <2>2. /\ p \in Keeper /\ r \in Run /\ arg[p].id \in 1..3 /\ archive[r].state = "whole"
          /\ archive[r].bad \in SUBSET Kinds /\ target[r].files \in SUBSET Kinds /\ kind \in Kinds
      <3>1. p \in Keeper /\ r \in Run /\ arg[p].id \in 1..3 /\ archive[r].state = "whole"
        BY <2>1, <1>a, <1>b DEF Transfer, RestoreSteps, CopySteps
      <3> QED BY <3>1, <1>a, <1>m DEF Exports
    <2>a. Transfer("restore", arg[p])
      BY <2>1, <1>b
    <2>3. Apart'
      <3>1. \A q \in Actor : at'[q] \in CopySteps => at[q] \in CopySteps /\ arg'[q].run = arg[q].run
        BY <1>6, <2>1, LongTurns DEF Turn, CopySteps
      <3> QED BY <3>1, <1>b
    <2>4. CASE kind \in archive[r].bad
      <3>1. target' = [target EXCEPT ![r].files = {}] /\ Done(p)
        BY <1>6, <2>4 DEF RestoreFile, HashHolds
      <3>2. at'[p] = "idle"
        BY <3>1, Turns
      <3>3. /\ target'[r].files = {} /\ target'[r].indexed = target[r].indexed
            /\ \A k \in Run \ {r} : target'[k] = target[k]
        BY <3>1, <2>2, <1>a
      <3>4. ASSUME NEW q \in Actor PROVE Transfer(at[q], arg[q])'
        <4>1. CASE q = p
          BY <4>1, <3>2 DEF Transfer, CopySteps, RestoreSteps
        <4>2. CASE q # p
          <5>1. /\ at'[q] = at[q] /\ arg'[q] = arg[q] /\ Transfer(at[q], arg[q])
                /\ archive' = archive
            BY <4>2, <2>1, <1>b DEF Turn
          <5>2. at[q] \in Mine => arg[q].run \in Run
            BY <1>a
          <5>3. CASE arg[q].run = r
            BY <5>1, <5>3, <2>4 DEF Transfer
          <5>4. CASE at[q] \notin Mine
            BY <5>1, <5>4 DEF Transfer, CopySteps, RestoreSteps
          <5>5. CASE arg[q].run \in Run \ {r}
            BY <5>1, <5>5, <3>3 DEF Transfer
          <5> QED BY <5>2, <5>3, <5>4, <5>5
        <4> QED BY <4>1, <4>2
      <3>5. ASSUME NEW k \in Run PROVE (Whole(k) /\ Shown(k) /\ Left(k))'
        <4>1. CASE k = r
          BY <4>1, <3>3, <2>1, <2>4, <1>b
        <4>2. CASE k # r
          <5>1. Restoring(k) => Restoring(k)'
            BY <4>2, <2>1, <1>a DEF Turn
          <5> QED BY <4>2, <5>1, <3>3, <2>1, <1>b
        <4> QED BY <4>1, <4>2
      <3> QED BY <1>c, <2>3, <3>4, <3>5
    <2>5. CASE kind \notin archive[r].bad
      <3>1. target' = [target EXCEPT ![r].files = target[r].files \cup {kind}]
        BY <1>6, <2>2, <2>5, <1>a DEF RestoreFile, HashHolds
      <3>2. /\ target'[r].files = target[r].files \cup {kind}
            /\ target'[r].indexed = target[r].indexed
            /\ \A k \in Run \ {r} : target'[k] = target[k]
        BY <3>1, <2>2, <1>a
      <3>3. \/ at'[p] = "restore rest" /\ arg'[p].run = r /\ arg[p].id = 3
            \/ at'[p] = "restore" /\ arg'[p].run = r /\ arg'[p].id = arg[p].id + 1
        <4>1. \/ arg[p].id = 3 /\ Go(p, "restore rest") /\ UNCHANGED arg
              \/ UNCHANGED at /\ arg' = [arg EXCEPT ![p].id = @ + 1]
          BY <1>6, <2>5, <1>m DEF RestoreFile, HashHolds
        <4>2. CASE arg[p].id = 3 /\ Go(p, "restore rest") /\ UNCHANGED arg
          BY <4>2, Turns
        <4>3. CASE UNCHANGED at /\ arg' = [arg EXCEPT ![p].id = @ + 1]
          <5>1. arg \in [Actor -> Args] /\ arg[p] \in Args
            BY DEF TypeInv, PlaceTypes
          <5> QED BY <4>3, <5>1, <2>1 DEF Args
        <4> QED BY <4>1, <4>2, <4>3
      <3>4. ASSUME NEW q \in Actor PROVE Transfer(at[q], arg[q])'
        <4>1. CASE q = p /\ at'[p] = "restore"
          <5>1. arg'[p].run = r /\ arg'[p].id = arg[p].id + 1
            BY <4>1, <3>3
          <5>2. \A i \in 1..3 : i < arg'[p].id => i < arg[p].id \/ i = arg[p].id
            BY <5>1, <2>2
          <5>3. \A i \in 1..3 : i < arg'[p].id => Mutable[i] \notin archive[r].bad
            BY <5>2, <2>a, <2>5 DEF Transfer
          <5>4. archive[r].bad = {} => \A i \in 1..3 : i < arg'[p].id => Mutable[i] \in target'[r].files
            BY <5>2, <2>a, <3>2 DEF Transfer
          <5> QED BY <4>1, <5>1, <5>3, <5>4, <2>1, <2>2 DEF Transfer, CopySteps, RestoreSteps
        <4>2. CASE q = p /\ at'[p] = "restore rest"
          <5>1. arg'[p].run = r /\ arg[p].id = 3
            BY <4>2, <3>3
          <5>2. Mutable[1] \notin archive[r].bad /\ Mutable[2] \notin archive[r].bad
            BY <5>1, <2>a DEF Transfer
          <5>3. archive[r].bad = {}
            BY <5>1, <5>2, <2>2, <2>5, <1>m
          <5>4. Mutable[1] \in target[r].files /\ Mutable[2] \in target[r].files
            BY <5>1, <5>3, <2>a DEF Transfer
          <5>5. target'[r].files = Kinds
            BY <5>1, <5>4, <3>2, <2>2, <1>m
          <5> QED BY <4>2, <5>1, <5>3, <5>5, <2>1, <2>2 DEF Transfer, CopySteps, RestoreSteps
        <4>3. CASE q # p
          <5>1. /\ at'[q] = at[q] /\ arg'[q] = arg[q] /\ Transfer(at[q], arg[q])
                /\ archive' = archive
            BY <4>3, <2>1, <1>b DEF Turn
          <5>2. at[q] \in Mine => arg[q].run \in Run
            BY <1>a
          <5>3. CASE arg[q].run = r
            <6>1. target'[r].files = Kinds \/ target[r].files # Kinds
              BY <3>2, <2>2
            <6> QED BY <5>1, <5>3, <6>1, <3>2 DEF Transfer
          <5>4. CASE at[q] \notin Mine
            BY <5>1, <5>4 DEF Transfer, CopySteps, RestoreSteps
          <5>5. CASE arg[q].run \in Run \ {r}
            BY <5>1, <5>5, <3>2 DEF Transfer
          <5> QED BY <5>2, <5>3, <5>4, <5>5
        <4> QED BY <3>3, <4>1, <4>2, <4>3
      <3>5. ASSUME NEW k \in Run PROVE (Whole(k) /\ Shown(k) /\ Left(k))'
        <4>1. CASE k = r
          <5>0. /\ archive'[k] = archive[k] /\ target'[k].indexed = target[k].indexed
                /\ arg'[p].run = k /\ at'[p] \in RestoreSteps
            BY <4>1, <3>2, <3>3, <2>1 DEF RestoreSteps
          <5>1. Restoring(k)'
            BY <5>0, <2>2
          <5>2. target[k].files = Kinds => target'[k].files = Kinds
            BY <4>1, <3>2, <2>2
          <5>3. Whole(k)'
            BY <5>0, <1>b
          <5>4. Shown(k)'
            BY <5>0, <5>2, <1>b, ZenonT(30)
          <5>5. Left(k)'
            BY <5>1
          <5> QED BY <5>3, <5>4, <5>5
        <4>2. CASE k # r
          <5>1. Restoring(k) => Restoring(k)'
            BY <4>2, <2>1, <1>a DEF Turn
          <5> QED BY <4>2, <5>1, <3>2, <2>1, <1>b
        <4> QED BY <4>1, <4>2
      <3> QED BY <1>c, <2>3, <3>4, <3>5
    <2> QED BY <2>4, <2>5
  <1>7. ASSUME NEW p \in Actor, RestoreRest(p) PROVE ExportInv'
    <2> DEFINE r == arg[p].run
    <2>1. /\ Turn(p) /\ at[p] = "restore rest" /\ at'[p] = "idle" /\ UNCHANGED <<archive, faults>>
          /\ target' = [target EXCEPT ![r].indexed = TRUE]
      BY <1>7, Moves DEF RestoreRest, history
    <2>2. /\ r \in Run /\ archive[r].state = "whole" /\ archive[r].bad = {}
          /\ target[r].files = Kinds
      <3>1. Transfer(at[p], arg[p]) /\ at[p] = "restore rest"
        BY <2>1, <1>b
      <3>2. at[p] \in RestoreSteps
        BY <3>1 DEF RestoreSteps
      <3>3. r \in Run
        BY <3>2, <1>a
      <3> QED BY <3>1, <3>2, <3>3 DEF Transfer
    <2>3. /\ target'[r].indexed = TRUE
          /\ \A k \in Run : target'[k].files = target[k].files
          /\ \A k \in Run \ {r} : target'[k] = target[k]
      BY <2>1, <2>2, <1>a
    <2>4. ASSUME NEW q \in Actor PROVE Transfer(at[q], arg[q])'
      <3>1. CASE q = p
        BY <3>1, <2>1 DEF Transfer, CopySteps, RestoreSteps
      <3>2. CASE q # p
        <4>1. /\ at'[q] = at[q] /\ arg'[q] = arg[q] /\ Transfer(at[q], arg[q]) /\ archive' = archive
          BY <3>2, <2>1, <1>b DEF Turn
        <4>2. CASE at[q] \in Mine
          <5>1. target'[arg[q].run].files = target[arg[q].run].files
            BY <4>2, <2>3, <1>a
          <5> QED BY <4>1, <5>1 DEF Transfer
        <4>3. CASE at[q] \notin Mine
          BY <4>1, <4>3 DEF Transfer, CopySteps, RestoreSteps
        <4> QED BY <4>2, <4>3
      <3> QED BY <3>1, <3>2
    <2>5. Apart'
      <3>1. \A q \in Actor : at'[q] \in CopySteps => at[q] \in CopySteps /\ arg'[q].run = arg[q].run
        BY <2>1 DEF Turn, CopySteps
      <3> QED BY <3>1, <1>b
    <2>6. ASSUME NEW k \in Run PROVE (Whole(k) /\ Shown(k) /\ Left(k))'
      <3>1. CASE k = r
        <4>0. /\ archive'[k] = archive[k] /\ archive[k].state = "whole" /\ archive[k].bad = {}
              /\ target'[k].indexed = TRUE /\ target'[k].files = Kinds
          BY <3>1, <2>1, <2>2, <2>3
        <4>1. Whole(k)'
          BY <4>0, <1>b
        <4>2. Shown(k)'
          BY <4>0
        <4>3. Left(k)'
          BY <4>0
        <4> QED BY <4>1, <4>2, <4>3
      <3>2. CASE k # r
        <4>1. Restoring(k) => Restoring(k)'
          BY <3>2, <2>1, <1>a DEF Turn
        <4>2. target'[k] = target[k] /\ archive' = archive /\ faults' = faults
          BY <3>2, <2>1, <2>3
        <4> QED BY <4>1, <4>2, <1>b
      <3> QED BY <3>1, <3>2
    <2> QED BY <1>c, <2>4, <2>5, <2>6
  <1>8. ASSUME (\E p \in Actor : RebuildIndex(p)) \/ LoseIndex \/ UNCHANGED vars PROVE ExportInv'
    <2>1. UNCHANGED <<archive, target, at, arg>>
      BY <1>8 DEF RebuildIndex, LoseIndex, Unmoved, vars
    <2>2. faults' = faults \/ faults' > 0
      <3>1. faults' = faults \/ faults' = faults + 1
        BY <1>8 DEF RebuildIndex, LoseIndex, vars, history
      <3> QED BY <3>1, <1>a
    <2>3. (\A q \in Actor : Transfer(at[q], arg[q]))' /\ Apart'
      BY <2>1, <1>b, ZenonT(30) DEF Transfer
    <2>4. \A k \in Run : (Whole(k) /\ Shown(k) /\ Left(k))'
      BY <2>1, <2>2, <1>b
    <2> QED BY <1>c, <2>3, <2>4
  <1>9. ASSUME NEW p \in Actor, Crash(p) PROVE ExportInv'
    <2>1. Turn(p) /\ at'[p] = "idle" /\ UNCHANGED <<archive, target>>
      BY <1>9, Moves DEF Crash, Unmoved
    <2>2. faults' > 0
      <3>1. faults' = faults + 1
        BY <1>9 DEF Crash
      <3> QED BY <3>1, <1>a
    <2>3. ASSUME NEW q \in Actor PROVE Transfer(at[q], arg[q])'
      <3>1. CASE q = p
        BY <3>1, <2>1 DEF Transfer, CopySteps, RestoreSteps
      <3>2. CASE q # p
        <4>1. at'[q] = at[q] /\ arg'[q] = arg[q] /\ Transfer(at[q], arg[q])
          BY <3>2, <2>1, <1>b DEF Turn
        <4> QED BY <4>1, <2>1 DEF Transfer
      <3> QED BY <3>1, <3>2
    <2>4. Apart'
      <3>1. \A q \in Actor : at'[q] \in CopySteps => at[q] \in CopySteps /\ arg'[q].run = arg[q].run
        BY <2>1 DEF Turn, CopySteps
      <3> QED BY <3>1, <1>b
    <2>5. \A k \in Run : (Whole(k) /\ Shown(k) /\ Left(k))'
      BY <2>1, <2>2, <1>b
    <2> QED BY <1>c, <2>3, <2>4, <2>5
  <1>10. ASSUME NEW p \in Actor, Return(p) PROVE ExportInv'
    <2>1. /\ Turn(p) /\ at[p] \notin Mine /\ at'[p] \notin Mine
          /\ UNCHANGED <<archive, target, faults>>
      BY <1>10, Moves DEF Return, Unmoved, history, CopySteps, RestoreSteps
    <2> QED BY <1>1, <2>1
  <1>11. ASSUME NEW p \in Actor,
                \/ \E r \in Run : CreateRun(p, r)
                \/ \E r \in Run, t \in Task : RegisterTask(p, r, t)
                \/ \E t \in Task : Append_(p, t)
                \/ \E t \in Task : WriteCheckpoint(p, t)
                \/ \E r \in Run, x \in Artifact : RegisterContent(p, r, x)
                \/ \E r \in Run, next \in {"open", "recover"} : OpenRun(p, r, next)
         PROVE  ExportInv'
    <2>1. UNCHANGED <<archive, target, faults>>
      BY <1>11 DEF CreateRun, RegisterTask, Append_, WriteCheckpoint, RegisterContent, OpenRun,
         files, history, Unmoved
    <2>2. Turn(p) /\ at[p] \notin Mine /\ at'[p] \notin Mine
      BY <1>11, Begins DEF CopySteps, RestoreSteps
    <2> QED BY <1>1, <2>1, <2>2
  <1>12. ASSUME NEW p \in Actor,
                NextDepartment(p) \/ Compare(p)
         PROVE  ExportInv'
    <2>1. UNCHANGED <<archive, target, faults>>
      BY <1>12 DEF NextDepartment, Compare, ListSnapshots, ReadSnapshot, HashCheckpoint,
         ListArtifacts, files, history, Unmoved
    <2>2. Turn(p) /\ at[p] \notin Mine /\ at'[p] \notin Mine
      BY <1>12, LongTurns DEF CopySteps, RestoreSteps
    <2> QED BY <1>1, <2>1, <2>2
  <1>13. ASSUME NEW p \in Actor,
                \/ WriteRunFile(p) \/ WriteMemberFile(p) \/ WriteEvent(p) \/ ReplaceCheckpoint(p)
                \/ WriteSnapshot(p) \/ StoreContent(p) \/ WriteRecord(p) \/ MarkArchived(p)
                \/ Conclude(p)
         PROVE  ExportInv'
    <2>1. UNCHANGED <<archive, target, faults>>
      BY <1>13 DEF WriteRunFile, WriteMemberFile, WriteEvent, ReplaceCheckpoint, WriteSnapshot,
         StoreContent, WriteRecord, MarkArchived, Conclude, files, history, Unmoved
    <2>2. Turn(p) /\ at[p] \notin Mine /\ at'[p] \notin Mine
      BY <1>13, Moves DEF CopySteps, RestoreSteps
    <2> QED BY <1>1, <2>1, <2>2
  <1>14. ASSUME NEW p \in Actor,
                \/ IndexMember(p) \/ IndexEvent(p) \/ IndexSnapshot(p) \/ IndexArtifact(p)
                \/ IndexRun(p) \/ IndexArchived(p) \/ IndexOpened(p)
         PROVE  ExportInv'
    <2>1. UNCHANGED <<archive, target, faults>>
      BY <1>14 DEF IndexMember, IndexEvent, IndexSnapshot, IndexArtifact, IndexRun,
         IndexArchived, IndexOpened, IndexRow, files, history, Unmoved
    <2>2. Turn(p) /\ at[p] \notin Mine /\ at'[p] \notin Mine
      BY <1>14, Moves DEF CopySteps, RestoreSteps
    <2> QED BY <1>1, <2>1, <2>2
  <1> QED BY <1>2, <1>3, <1>4, <1>5, <1>6, <1>7, <1>8, <1>9, <1>10, <1>11, <1>12, <1>13, <1>14
       DEF Next, WriterStep, KeeperStep, Actor


-----------------------------------------------------------------------------
\* Only recover itself gets to its readings and to its verdict.
LEMMA OnlyRecover ==
    ASSUME TypeInv, [Next]_vars, NEW p \in Actor,
           at'[p] \in {"read", "hash", "verdict", "recover-failed"}
    PROVE  (at'[p] = at[p] /\ arg'[p] = arg[p]) \/ Compare(p) \/ Conclude(p)
  <1> DEFINE Same == at'[p] = at[p] /\ arg'[p] = arg[p]
  <1>a. \A q \in Actor : Turn(q) => q = p \/ Same
    BY DEF Turn
  <1>1. ASSUME NEW q \in Actor, Conclude(q) \/ Compare(q) PROVE Same \/ Compare(p) \/ Conclude(p)
    BY <1>1, <1>a, Moves, LongTurns
  <1>2. ASSUME NEW q \in Actor,
               \/ WriteRunFile(q) \/ WriteMemberFile(q) \/ WriteEvent(q) \/ ReplaceCheckpoint(q)
               \/ WriteSnapshot(q) \/ StoreContent(q) \/ WriteRecord(q) \/ MarkArchived(q)
        PROVE  Same
    BY <1>2, <1>a, Moves
  <1>3. ASSUME NEW q \in Actor,
               \/ IndexEvent(q) \/ IndexSnapshot(q) \/ IndexArtifact(q) \/ IndexArchived(q)
               \/ RestoreRest(q) \/ IndexRun(q) \/ IndexMember(q) \/ IndexOpened(q)
               \/ Return(q) \/ Crash(q)
        PROVE  Same
    BY <1>3, <1>a, Moves
  <1>4. ASSUME NEW q \in Actor, NextDepartment(q) \/ Digest(q) \/ Copy(q) \/ RestoreFile(q)
        PROVE  Same
    BY <1>4, <1>a, LongTurns
  <1>b. at \in [Actor -> Steps] /\ arg \in [Actor -> Args]
    BY DEF TypeInv, PlaceTypes
  <1>5. ASSUME NEW q \in Actor, Turn(q),
               at'[q] \notin {"read", "hash", "verdict", "recover-failed"}
        PROVE  Same
    BY <1>5, <1>a
  <1>6. ASSUME UNCHANGED <<at, arg>> PROVE Same
    BY <1>6
  <1>7. ASSUME NEW q \in Actor, NEW r \in Run,
               \/ CreateRun(q, r) \/ OpenRun(q, r, "open") \/ OpenRun(q, r, "recover")
               \/ Restore(q, r)
               \/ \E why \in {"export", "archive"} : Collect(q, r, why)
        PROVE  Same
    <2>1. CASE CreateRun(q, r)
      <3>1. Turn(q) /\ at'[q] = "run file"
        BY <1>b, <2>1 DEF CreateRun, Begin, Turn
      <3> QED BY <1>5, <3>1
    <2>2. CASE OpenRun(q, r, "open") \/ OpenRun(q, r, "recover")
      <3>1. Turn(q) /\ at'[q] \in {"open", "recover"}
        BY <1>b, <2>2 DEF OpenRun, Begin, Turn
      <3> QED BY <1>5, <3>1
    <2>3. CASE Restore(q, r)
      <3>1. Turn(q) /\ at'[q] = "restore"
        BY <1>b, <2>3 DEF Restore, Begin, Turn
      <3> QED BY <1>5, <3>1
    <2>4. CASE \E why \in {"export", "archive"} : Collect(q, r, why)
      <3>1. Turn(q) /\ at'[q] = "digest"
        BY <1>b, <2>4 DEF Collect, Begin, Turn
      <3> QED BY <1>5, <3>1
    <2> QED BY <1>7, <2>1, <2>2, <2>3, <2>4
  <1>8. ASSUME NEW q \in Actor, NEW t \in Task,
               \/ Append_(q, t) \/ WriteCheckpoint(q, t)
               \/ \E r \in Run : RegisterTask(q, r, t)
        PROVE  Same
    <2>1. CASE Append_(q, t)
      <3>1. Turn(q) /\ at'[q] = "event line"
        BY <1>b, <2>1 DEF Append_, Begin, Turn
      <3> QED BY <1>5, <3>1
    <2>2. CASE WriteCheckpoint(q, t)
      <3>1. Turn(q) /\ at'[q] = "checkpoint file"
        BY <1>b, <2>2 DEF WriteCheckpoint, Begin, Turn
      <3> QED BY <1>5, <3>1
    <2>3. CASE \E r \in Run : RegisterTask(q, r, t)
      <3>1. Turn(q) /\ at'[q] = "member file"
        BY <1>b, <2>3 DEF RegisterTask, Begin, Turn
      <3> QED BY <1>5, <3>1
    <2> QED BY <1>8, <2>1, <2>2, <2>3
  <1>9. ASSUME NEW q \in Actor, NEW r \in Run, NEW x \in Artifact, RegisterContent(q, r, x)
        PROVE  Same
    <2>1. Turn(q) /\ at'[q] = "content"
      BY <1>9, <1>b DEF RegisterContent, Begin, Turn
    <2> QED BY <1>5, <2>1
  <1>10. ASSUME (\E q \in Actor : RebuildIndex(q)) \/ LoseIndex \/ UNCHANGED vars PROVE Same
    BY <1>6, <1>10 DEF RebuildIndex, LoseIndex, vars
  <1> QED BY <1>1, <1>2, <1>3, <1>4, <1>7, <1>8, <1>9, <1>10
       DEF Next, WriterStep, KeeperStep, Actor

\* Snapshots only grow, and contents only come.
LEMMA Onwards ==
    ASSUME TypeInv, SnapshotInv, [Next]_vars
    PROVE  (\A t \in Task : snapshot[t] <= snapshot'[t]) /\ store \subseteq store'
  <1>a. snapshot \in [Task -> Nat] /\ checkpoint \in [Task -> Nat]
    BY DEF TypeInv, FileTypes
  <1>1. ASSUME NEW p \in Actor, WriteSnapshot(p)
        PROVE  (\A t \in Task : snapshot[t] <= snapshot'[t]) /\ UNCHANGED store
    <2>1. /\ snapshot' = [snapshot EXCEPT ![arg[p].id] = checkpoint[arg[p].id]]
          /\ UNCHANGED store
      BY <1>1 DEF WriteSnapshot
    <2>2. \A t \in Task : snapshot[t] <= checkpoint[t]
      BY DEF SnapshotInv
    <2> QED BY <1>a, <2>1, <2>2
  <1>2. ASSUME NEW p \in Actor, StoreContent(p)
        PROVE  UNCHANGED snapshot /\ store \subseteq store'
    BY <1>2 DEF StoreContent
  <1>3. ASSUME UNCHANGED snapshot PROVE \A t \in Task : snapshot[t] <= snapshot'[t]
    BY <1>3, <1>a
  <1>4. CASE UNCHANGED <<snapshot, store>>
    BY <1>3, <1>4
  <1> QED BY <1>1, <1>2, <1>3, <1>4, ZenonT(30) DEF Next, WriterStep, KeeperStep, Actor, vars, files,
       CreateRun, WriteRunFile, IndexRun, NextDepartment, RegisterTask, WriteMemberFile,
       IndexMember, Append_, WriteEvent, IndexEvent, WriteCheckpoint, ReplaceCheckpoint,
       IndexSnapshot, RegisterContent, WriteRecord, IndexArtifact, OpenRun, IndexOpened, Compare,
       ListSnapshots, ReadSnapshot, HashCheckpoint, ListArtifacts, Conclude, Return, RebuildIndex,
       Collect, Digest, Copy, MarkArchived, IndexArchived, Restore, RestoreFile, RestoreRest,
       Crash, LoseIndex

LEMMA RecoverInvStep ==
    TypeInv /\ SnapshotInv /\ ArtifactInv /\ RecoverInv /\ [Next]_vars => RecoverInv'
  <1> SUFFICES ASSUME TypeInv, SnapshotInv, ArtifactInv, RecoverInv, [Next]_vars, NEW p \in Actor
               PROVE  RecoverKnows(at[p], arg[p])'
    BY DEF RecoverInv
  <1>a. /\ snapshot \in [Task -> Nat] /\ snapshot' \in [Task -> Nat]
        /\ at \in [Actor -> Steps] /\ arg \in [Actor -> Args] /\ None \notin Run
        /\ Placed(p, at[p], arg[p])
    BY FileTypesStep, SpineAssumption DEF TypeInv, FileTypes, PlaceTypes
  <1>b. (\A t \in Task : snapshot[t] <= snapshot'[t]) /\ store \subseteq store'
    BY Onwards
  <1>1. CASE at'[p] = at[p] /\ arg'[p] = arg[p]
    <2>1. at[p] = "hash" => arg[p].id \in Task /\ arg[p].version \in Nat
      BY <1>a DEF Placed, Args
    <2>2. RecoverKnows(at[p], arg[p])
      BY DEF RecoverInv
    <2> QED BY <1>1, <1>a, <1>b, <2>1, <2>2 DEF RecoverKnows
  <1>2. CASE Compare(p)
    <2>1. CASE ListSnapshots(p) \/ HashCheckpoint(p)
      <3>1. at'[p] = "read"
        BY <1>a, <2>1 DEF ListSnapshots, HashCheckpoint, Go
      <3> QED BY <3>1 DEF RecoverKnows
    <2>2. ASSUME NEW t \in Task, ReadSnapshot(p, t) PROVE RecoverKnows(at[p], arg[p])'
      <3>1. at'[p] = "hash" /\ arg'[p].id = t /\ arg'[p].version = snapshot[t]
        BY <1>a, <2>2 DEF ReadSnapshot, Go, Args
      <3>2. UNCHANGED snapshot
        BY <2>2 DEF ReadSnapshot, files
      <3> QED BY <1>a, <3>1, <3>2 DEF RecoverKnows
    <2>3. CASE ListArtifacts(p)
      <3>1. at'[p] = "verdict" /\ arg'[p].todo = ContentOf(arg[p].run) /\ UNCHANGED store
        BY <1>a, <2>3 DEF ListArtifacts, Go, Args, files
      <3>2. arg[p].run \in Run
        BY <1>a, <2>3 DEF ListArtifacts, Placed
      <3>3. ContentOf(arg[p].run) \subseteq store
        BY <1>a, <3>2 DEF ArtifactInv, ContentOf
      <3> QED BY <3>1, <3>3 DEF RecoverKnows
    <2> QED BY <1>2, <2>1, <2>2, <2>3 DEF Compare
  <1>3. CASE at'[p] \notin {"hash", "verdict"}
    BY <1>3 DEF RecoverKnows
  <1>4. CASE Conclude(p)
    <2>1. at'[p] \in {"recover-ok", "recover-failed"}
      BY <1>4, Moves
    <2> QED BY <2>1 DEF RecoverKnows
  <1> QED BY <1>1, <1>2, <1>3, <1>4, OnlyRecover

-----------------------------------------------------------------------------
LEMMA InitInvs ==
    Init => /\ RunInv /\ MemberInv /\ EventInv /\ SnapshotInv /\ ArtifactInv /\ ExportInv
            /\ RecoverInv
  <1> SUFFICES ASSUME Init
               PROVE  /\ RunInv /\ MemberInv /\ EventInv /\ SnapshotInv /\ ArtifactInv
                      /\ ExportInv /\ RecoverInv
    OBVIOUS
  <1>1. /\ \A p \in Actor : at[p] = "idle"
        /\ \A m \in Member : memberFile[m] = None
        /\ \A t \in Task : events[t] = 0 /\ checkpoint[t] = 0 /\ snapshot[t] = 0
        /\ \A x \in Artifact : record[x] = None
        /\ \A r \in Run : archive[r] = NoExport /\ target[r] = EmptyTarget
    BY DEF Init
  <1>2. /\ \A r \in Run : index.runs[r] = "none"
        /\ \A m \in Member : index.members[m] = None
        /\ \A t \in Task : index.events[t] = {} /\ index.snapshots[t] = 0
        /\ \A x \in Artifact : index.artifacts[x] = None
    BY DEF Init, EmptyIndex
  <1>3. MaxEvents \in Nat /\ MaxVersions \in Nat
    BY SpineAssumption
  <1>4. RunInv
    BY <1>1, <1>2 DEF RunInv, RunKnown
  <1>5. MemberInv
    BY <1>1, <1>2 DEF MemberInv, MemberBound, MemberSteps
  <1>6. EventInv
    <2>1. 1..0 = {} /\ 0 <= MaxEvents
      BY <1>3
    <2>2. \A p \in Actor : EventRoom(at[p], arg[p])
      BY <1>1 DEF EventRoom
    <2>3. \A t \in Task : events[t] <= MaxEvents /\ index.events[t] \subseteq 1..events[t]
      BY <1>1, <1>2, <2>1
    <2>4. \A t \in Task : index.events[t] = 1..events[t]
      BY <1>1, <1>2, <2>1
    <2> QED BY <2>2, <2>3, <2>4 DEF EventInv
  <1>7. SnapshotInv
    <2>1. 0 <= MaxVersions /\ 0 <= 0
      BY <1>3
    <2>2. \A p \in Actor : VersionRoom(at[p], arg[p])
      BY <1>1 DEF VersionRoom
    <2>3. \A t \in Task : /\ checkpoint[t] <= MaxVersions
                          /\ index.snapshots[t] <= snapshot[t] /\ snapshot[t] <= checkpoint[t]
                          /\ snapshot[t] = checkpoint[t] /\ index.snapshots[t] = snapshot[t]
      BY <1>1, <1>2, <2>1
    <2> QED BY <2>2, <2>3 DEF SnapshotInv
  <1>8. ArtifactInv
    BY <1>1, <1>2 DEF ArtifactInv, ContentKept, ContentSteps
  <1>9. ExportInv
    <2>1. \A p \in Actor : Transfer(at[p], arg[p])
      BY <1>1 DEF Transfer, CopySteps, RestoreSteps
    <2>2. \A p, q \in Actor :
             p # q /\ at[p] \in CopySteps /\ at[q] \in CopySteps => arg[p].run # arg[q].run
      BY <1>1 DEF CopySteps
    <2>3. \A r \in Run : ~archive[r].quiet /\ ~target[r].indexed /\ target[r].files = {}
      BY <1>1 DEF NoExport, EmptyTarget
    <2> QED BY <2>1, <2>2, <2>3 DEF ExportInv
  <1>10. RecoverInv
    BY <1>1 DEF RecoverInv, RecoverKnows
  <1> QED BY <1>4, <1>5, <1>6, <1>7, <1>8, <1>9, <1>10

SpineInv ==
    /\ TypeInv /\ RunInv /\ MemberInv /\ EventInv /\ SnapshotInv /\ ArtifactInv /\ ExportInv
    /\ RecoverInv

LEMMA SpineAlways == Spec => []SpineInv
  <1>1. Init => SpineInv
    BY InitTypes, InitInvs DEF SpineInv
  <1>2. SpineInv /\ [Next]_vars => SpineInv'
    <2>1. TypeInv /\ [Next]_vars => TypeInv'
      BY FileTypesStep, IndexTypesStep, ExportTypesStep, PlaceTypesStep DEF TypeInv
    <2> QED BY <2>1, RunInvStep, MemberInvStep, EventInvStep, SnapshotInvStep, ArtifactInvStep,
         ExportInvStep, RecoverInvStep DEF SpineInv
  <1> QED BY <1>1, <1>2, PTL DEF Spec

\* Every row of the index is backed by the file it was derived from, and that of
\* an artifact by its content, whatever crashes, is lost or runs at the same time.
THEOREM FilesFirstHolds == Spec => []FilesFirst
  <1>1. SpineInv => FilesFirst
    <2> SUFFICES ASSUME SpineInv PROVE FilesFirst
      OBVIOUS
    <2>1. \A r \in Run : index.runs[r] # "none" => run_exists(r)
      BY DEF SpineInv, RunInv
    <2>2. \A m \in Member \ contested :
             index.members[m] # None => index.members[m] = memberFile[m]
      BY DEF SpineInv, MemberInv
    <2>3. \A t \in Task : /\ index.events[t] \subseteq 1..events[t]
                          /\ index.snapshots[t] <= snapshot[t]
                          /\ snapshot[t] <= checkpoint[t]
      BY DEF SpineInv, EventInv, SnapshotInv
    <2>4. \A x \in Artifact :
             index.artifacts[x] # None => index.artifacts[x] = record[x] /\ x \in store
      BY DEF SpineInv, ArtifactInv
    <2> QED BY <2>1, <2>2, <2>3, <2>4 DEF FilesFirst
  <1> QED BY <1>1, SpineAlways, PTL

\* When nobody is in the middle of an operation and nothing was lost since the
\* last rebuild, the index says of members, events, snapshots and artifacts what
\* the files say.
THEOREM QuietIndexAgreesHolds == Spec => []QuietIndexAgrees
  <1>1. SpineInv => QuietIndexAgrees
    <2> SUFFICES ASSUME SpineInv, \A p \in Actor : at[p] = "idle", ~dirty
                 PROVE  /\ \A m \in Member \ contested : index.members[m] = memberFile[m]
                        /\ index.events = [t \in Task |-> 1..events[t]]
                        /\ index.snapshots = snapshot
                        /\ index.artifacts = record
      BY DEF QuietIndexAgrees
    <2>a. /\ index.members \in [Member -> Run \cup {None}] /\ memberFile \in [Member -> Run \cup {None}]
          /\ index.events \in [Task -> SUBSET Nat]
          /\ index.snapshots \in [Task -> Nat] /\ snapshot \in [Task -> Nat]
          /\ index.artifacts \in [Artifact -> Run \cup {None}] /\ record \in [Artifact -> Run \cup {None}]
      BY DEF SpineInv, TypeInv, FileTypes, IndexTypes, Tables
    <2>b. \A t \in Task : Owner[t] \in Actor
      BY SpineAssumption DEF Actor
    <2>1. \A m \in Member \ contested : index.members[m] = memberFile[m]
      BY DEF SpineInv, MemberInv, MemberPending
    <2>2. index.events = [t \in Task |-> 1..events[t]]
      <3>1. \A t \in Task : index.events[t] = 1..events[t]
        BY <2>b DEF SpineInv, EventInv, Holds
      <3> QED BY <3>1, <2>a
    <2>3. index.snapshots = snapshot
      <3>1. \A t \in Task : index.snapshots[t] = snapshot[t]
        BY <2>b DEF SpineInv, SnapshotInv, Holds
      <3> QED BY <3>1, <2>a
    <2>4. index.artifacts = record
      <3>1. \A x \in Artifact : index.artifacts[x] = record[x]
        BY DEF SpineInv, ArtifactInv, ArtifactPending, Actor
      <3> QED BY <3>1, <2>a
    <2> QED BY <2>1, <2>2, <2>3, <2>4
  <1> QED BY <1>1, SpineAlways, PTL

\* A restore leaves a whole run under the other root, or nothing, and an export
\* taken in quiet comes back with the content of every artifact.
THEOREM RestoreIsSoundHolds == Spec => []RestoreIsSound
  <1>1. SpineInv => RestoreIsSound
    <2> SUFFICES ASSUME SpineInv PROVE RestoreIsSound
      OBVIOUS
    <2>1. {Mutable[i] : i \in DOMAIN Mutable} = Kinds
      <3>1. DOMAIN Mutable = 1..3 /\ 1..3 = {1, 2, 3}
        BY DEF Mutable
      <3> QED BY <3>1 DEF Mutable, Kinds
    <2>2. RestoreAllOrNothing
      BY <2>1 DEF SpineInv, ExportInv, RestoreAllOrNothing, RestoreSteps
    <2>3. RestoredIsWhole
      BY DEF SpineInv, ExportInv, RestoredIsWhole
    <2> QED BY <2>2, <2>3 DEF RestoreIsSound
  <1> QED BY <1>1, SpineAlways, PTL

\* recover accuses a checkpoint only if a crash lost its snapshot, its writer has
\* the snapshot still to write, or has written a newer one since recover read it;
\* and it fails a run for nothing but checkpoints: no row is without its content.
THEOREM RecoverFailsForCauseHolds == Spec => RecoverFailsForCause
  <1> DEFINE Cause(t, v) == \/ t \in torn
                            \/ at[Owner[t]] = "snapshot file" /\ arg[Owner[t]].id = t
                            \/ snapshot[t] > v
             ForCause == \A p \in Keeper :
                /\ at[p] = "hash" /\ at'[p] = "read" /\ arg'[p].bad # arg[p].bad =>
                      Cause(arg[p].id, arg[p].version)
                /\ at[p] = "verdict" /\ at'[p] = "recover-failed" => arg[p].bad # {}
  <1>1. SpineInv /\ [Next]_vars => ForCause
    <2> SUFFICES ASSUME SpineInv, [Next]_vars, NEW p \in Actor
                 PROVE  /\ at[p] = "hash" /\ at'[p] = "read" /\ arg'[p].bad # arg[p].bad =>
                              Cause(arg[p].id, arg[p].version)
                        /\ at[p] = "verdict" /\ at'[p] = "recover-failed" => arg[p].bad # {}
      BY DEF Actor
    <2>a. /\ at \in [Actor -> Steps] /\ arg \in [Actor -> Args] /\ Placed(p, at[p], arg[p])
          /\ snapshot \in [Task -> Nat] /\ checkpoint \in [Task -> Nat]
      BY DEF SpineInv, TypeInv, PlaceTypes, FileTypes
    <2>1. ASSUME at[p] = "hash", at'[p] = "read", arg'[p].bad # arg[p].bad
          PROVE  Cause(arg[p].id, arg[p].version)
      <3> DEFINE t == arg[p].id
                 v == arg[p].version
      <3>1. t \in Task /\ v \in Nat /\ v <= snapshot[t]
        BY <2>1, <2>a DEF Placed, Args, SpineInv, RecoverInv, RecoverKnows
      <3>2. Compare(p)
        BY <2>1, OnlyRecover, Moves DEF SpineInv
      <3>3. HashCheckpoint(p)
        BY <2>1, <3>2 DEF Compare, ListSnapshots, ReadSnapshot, ListArtifacts
      <3>4. checkpoint[t] # v
        BY <2>1, <3>3 DEF HashCheckpoint
      <3>5. snapshot[t] = checkpoint[t] \/ t \in torn \/ Holds(t, "snapshot file")
        BY <3>1 DEF SpineInv, SnapshotInv
      <3>6. CASE snapshot[t] = checkpoint[t]
        <4>1. snapshot[t] > v
          BY <2>a, <3>1, <3>4, <3>6
        <4> QED BY <4>1
      <3> QED BY <3>5, <3>6 DEF Holds
    <2>2. ASSUME at[p] = "verdict", at'[p] = "recover-failed" PROVE arg[p].bad # {}
      <3>1. Conclude(p)
        <4>1. ~Compare(p)
          BY <2>2, LongTurns DEF SpineInv
        <4> QED BY <2>2, <4>1, OnlyRecover DEF SpineInv
      <3>2. arg[p].todo \subseteq store
        BY <2>2 DEF SpineInv, RecoverInv, RecoverKnows
      <3> QED BY <2>2, <2>a, <3>1, <3>2 DEF Conclude, Go
    <2> QED BY <2>1, <2>2
  <1>2. SpineInv /\ [Next]_vars => [ForCause]_vars
    BY <1>1
  <1> QED BY <1>2, SpineAlways, PTL DEF Spec, RecoverFailsForCause
=============================================================================
