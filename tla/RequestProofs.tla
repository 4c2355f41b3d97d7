--------------------------- MODULE RequestProofs ----------------------------
(***************************************************************************)
(* Proofs about what the handlers of ceo_api.py start.  CeoTask: one task, *)
(* for every number of submissions, command-line processes, resumptions,   *)
(* pauses and crashes.  NovelOperations: the rolling production of a       *)
(* novel, for every size of its window, every number of advances, faults   *)
(* and ticks, and however many requests are served at once.                *)
(***************************************************************************)
EXTENDS CeoTask, NovelOperations, FiniteSetTheorems, TLAPS

-----------------------------------------------------------------------------
\* Between its checks and its last _persist a run may write to the task.
Inside == {"persist", "write", "dag", "executing"}

\* TypeOK is inductive once it says that a run that writes has a stage, and one
\* that has not begun to has none.
TypeInv ==
    /\ TypeOK
    /\ \A r \in Run :
          /\ pc[r] \in Inside \cup {"ended", "announce"} => stage[r] # "none"
          /\ pc[r] \in {"new", "queued", "check"} => stage[r] = "none"
          /\ stage[r] = "paused" => r \in Pausing

(***************************************************************************)
(* The ledger explains the checkpoint because the event of a stage is      *)
(* written first (EventFirst); a run that has come as far as the DAG has   *)
(* left events.                                                            *)
(***************************************************************************)
EventFirst ==
    /\ \A r \in Run : pc[r] = "write" => stage[r] \in ledger
    /\ \A r \in Run : pc[r] \in {"dag", "executing"} => ledger # {}
    /\ executions # {} => ledger # {}

\* What a run was given stays with it.
StageIsEarned ==
    \A r \in Run :
        stage[r] \in {"verified", "aggregate", "human_report"}
        => outcome[r] = "completed" /\ accepted[r]

(***************************************************************************)
(* Where runs follow one another, one run at most is live (OneLive); the   *)
(* gateway's record stands for its live command (LiveIsRecorded), which    *)
(* has found no task before it (FoundNone), while a resumption has         *)
(* (ResumedLater); so the DAG has one outcome (OneOutcome), a final        *)
(* checkpoint is final (FinalIsOver), and a command ends with the stage in *)
(* the checkpoint, or refused with nothing written (EndIsSaved).           *)
(***************************************************************************)
OneLive == \A r, s \in Run : Live(r) /\ Live(s) => r = s

LiveIsRecorded == \A r \in Submission : Live(r) => record # "none"

ResumedLater == \A r \in Resumption : Live(r) => ledger # {}

FoundNone == \A r \in Submission : pc[r] \in {"queued", "check"} => ~Existing

OneOutcome ==
    \A r \in Run : /\ outcome[r] # "none" => dag = outcome[r]
                   /\ pc[r] = "executing" => dag = "none"

FinalIsOver == checkpoint \in Final => \A r \in Run : pc[r] \notin Inside

EndIsSaved ==
    /\ \A r \in Submission : pc[r] \in {"ended", "announce"} =>
          /\ stage[r] \in Final
          /\ checkpoint = stage[r] \/ (stage[r] = "failed" /\ NothingBegun)
    /\ \A r \in Run : pc[r] = "announce" => r \in Submission /\ record = stage[r]

\* What an ended run has announced is withdrawn before a command writes.
Planned ==
    \A r \in Submission : pc[r] \in {"queued", "check"} \cup Inside => company = "planning"

ReportHasRun == checkpoint = "human_report" => \E r \in Run : stage[r] = "human_report"

OneExecution ==
    /\ \A r, s \in executions \ Resumption : r = s
    /\ \A r \in Submission : pc[r] \in Inside => executions \ Resumption \subseteq {r}

\* What holds whoever runs beside whom, and what holds where nobody does.
LedgerInv == EventFirst /\ LedgerExplainsCheckpoint /\ StageIsEarned
OneInv ==
    /\ OneLive /\ LiveIsRecorded /\ ResumedLater /\ FoundNone /\ OneOutcome
    /\ FinalIsOver /\ EndIsSaved /\ ReportHasRun /\ OneExecution
    /\ AnnouncedTruly /\ Planned
TaskInv == TypeInv /\ LedgerInv /\ (OneAtATime => OneInv)

-----------------------------------------------------------------------------
\* A run that moves, and one that reaches a stage.
LEMMA Moves ==
    ASSUME TypeInv, NEW r \in Run
    PROVE  /\ \A place : Move(r, place) =>
                \A s \in Run : pc'[s] = IF s = r THEN place ELSE pc[s]
           /\ \A place \in Place : Move(r, place) => pc' \in [Run -> Place]
           /\ \A x : Reach(r, x) =>
                \A s \in Run : stage'[s] = IF s = r THEN x ELSE stage[s]
           /\ \A x \in Stage : Reach(r, x) => stage' \in [Run -> Stage \cup {"none"}]
  BY DEF TypeInv, TypeOK, Move, Reach

LEMMA Stages ==
    /\ DOMAIN FollowUp \subseteq Stage
    /\ \A s \in DOMAIN FollowUp : FollowUp[s] \in Stage \ {"none", "paused"}
    /\ {"failed", "blocked", "return", "verified", "human_command", "execute", "paused"} \subseteq Stage
    /\ \A s \in Stage : StateOf(s) \in State
    /\ \A s \in Stage \ (Final \cup {"paused", "execute", "verify"}) : s \in DOMAIN FollowUp
    /\ "none" \notin Stage
    /\ \A s \in DOMAIN FollowUp : FollowUp[s] \in {"verified", "aggregate", "human_report"}
                                  => s \in {"verified", "aggregate"}
  BY DEF FollowUp, Stage, Final, StateOf, State

LEMMA Places ==
    /\ Inside \subseteq Place
    /\ \A r \in Run : Live(r) <=> pc[r] \notin {"new", "done", "rejected", "dead"}
    /\ \A r \in Run : pc[r] \in Inside \cup {"queued", "check", "ended", "announce"} => Live(r)
  BY DEF Inside, Place, Live

\* The next stage of a run is one that run persists.
LEMMA NextStage ==
    ASSUME TypeInv, NEW r \in Run, stage[r] \in Stage \ (Final \cup {"paused", "execute"})
    PROVE  /\ Successor(r) \in Stage \ {"none", "paused"}
           /\ Successor(r) \in {"verified", "aggregate", "human_report"} =>
                 \/ outcome[r] = "completed" /\ accepted[r]
                 \/ stage[r] \in {"verified", "aggregate"}
  BY Stages DEF Successor, Verified

LEMMA TypeInit == Init => TypeInv
  BY DEF Init, TypeInv, TypeOK, Inside, Place

LEMMA TypeNext == TypeInv /\ [Next]_vars => TypeInv'
<1> SUFFICES ASSUME TypeInv, [Next]_vars PROVE TypeInv'
  OBVIOUS
<1> USE DEF durable, result
<1>t. TypeOK
  BY DEF TypeInv
<1>0. CASE UNCHANGED vars
  BY <1>0 DEF vars, TypeInv, TypeOK
<1>1. ASSUME NEW r \in Run, Submit(r) \/ StartWork(r) \/ StartCli(r) \/ StartResumption(r)
      PROVE  TypeInv'
  <2>1. PICK place \in {"queued", "check", "rejected"} : Move(r, place)
    BY <1>1 DEF Submit, StartWork, StartCli, StartResumption
  <2>2. stage[r] = "none" /\ stage' = stage
    BY <1>1 DEF Submit, StartWork, StartCli, StartResumption, TypeInv
  <2>3. TypeOK'
    BY <1>1, <1>t, <2>1, Moves
       DEF Submit, StartWork, StartCli, StartResumption, TypeOK, Place
  <2>4. QED
    BY <2>1, <2>2, <2>3, Moves DEF TypeInv, Inside
<1>2. ASSUME NEW r \in Run, CheckNew(r) PROVE TypeInv'
  <2>1. CASE Raise(r) /\ Reach(r, "failed")
    <3>1. Reach(r, "failed") /\ Move(r, IF r \in Submission THEN "ended" ELSE "rejected")
      BY <2>1 DEF Raise
    <3>2. TypeOK'
      BY <1>2, <1>t, <3>1, Moves, Stages DEF CheckNew, TypeOK, Place
    <3>3. QED
      BY <1>2, <3>1, <3>2, Moves DEF TypeInv, Inside
  <2>2. CASE Move(r, "persist") /\ Reach(r, "human_command")
    <3>1. Reach(r, "human_command") /\ Move(r, "persist")
      BY <2>2
    <3>2. TypeOK'
      BY <1>2, <1>t, <3>1, Moves, Stages DEF CheckNew, TypeOK, Place
    <3>3. QED
      BY <3>1, <3>2, Moves DEF TypeInv, Inside
  <2>3. QED
    BY <1>2, <2>1, <2>2 DEF CheckNew
<1>3. ASSUME NEW r \in Run, CheckResumption(r) PROVE TypeInv'
  <2>1. CASE Resumable
    <3>1. Reach(r, "execute") /\ Move(r, "dag")
      BY <1>3, <2>1 DEF CheckResumption
    <3>2. TypeOK'
      BY <1>3, <1>t, <3>1, Moves, Stages DEF CheckResumption, TypeOK, Place
    <3>3. QED
      BY <3>1, <3>2, Moves DEF TypeInv, Inside
  <2>2. CASE ~Resumable
    <3>1. stage' = stage /\ Move(r, "rejected")
      BY <1>3, <2>2, TaskAssumption DEF CheckResumption, Raise
    <3>2. TypeOK'
      BY <1>3, <1>t, <3>1, Moves DEF CheckResumption, TypeOK, Place
    <3>3. QED
      BY <1>3, <3>1, <3>2, Moves DEF TypeInv, Inside
  <2>3. QED
    BY <2>1, <2>2
<1>4. ASSUME NEW r \in Run, PersistEvent(r) PROVE TypeInv'
  <2>1. stage[r] \in Stage
    BY <1>4, <1>t DEF PersistEvent, TypeInv, TypeOK, Inside
  <2>2. TypeOK'
    BY <1>4, <1>t, <2>1, Moves DEF PersistEvent, TypeOK, Place
  <2>3. QED
    BY <1>4, <2>1, <2>2, Moves, Stages DEF PersistEvent, TypeInv, Inside
<1>5. ASSUME NEW r \in Run, PersistCheckpoint(r) PROVE TypeInv'
  <2>1. stage[r] \in Stage /\ stage[r] # "none" /\ pc[r] = "write"
    BY <1>5, <1>t DEF PersistCheckpoint, TypeInv, TypeOK, Inside
  <2>2. StateOf(stage[r]) \in State
    BY <2>1, Stages
  <2>3. CASE stage' = stage
    <3>1. Move(r, "ended") \/ Move(r, "dag")
      BY <1>5, <2>3, <2>1, NextStage, Moves, Stages
         DEF PersistCheckpoint, Successor, FollowUp
    <3>2. TypeOK'
      BY <1>5, <1>t, <2>2, <2>3, <3>1, Moves DEF PersistCheckpoint, TypeOK, Place
    <3>3. QED
      BY <2>1, <2>3, <3>1, <3>2, Moves DEF TypeInv, Inside
  <2>4. CASE stage[r] \notin Final \cup {"paused", "execute"}
    <3>1. Reach(r, Successor(r)) /\ Move(r, "persist") /\ Successor(r) \in Stage \ {"none", "paused"}
      BY <1>5, <2>1, <2>4, NextStage DEF PersistCheckpoint
    <3>2. TypeOK'
      BY <1>5, <1>t, <2>2, <3>1, Moves DEF PersistCheckpoint, TypeOK, Place
    <3>3. QED
      BY <3>1, <3>2, Moves DEF TypeInv, Inside
  <2>5. QED
    BY <1>5, <2>3, <2>4 DEF PersistCheckpoint
<1>6. ASSUME NEW r \in Run, BeginDag(r) PROVE TypeInv'
  <2>1. TypeOK'
    BY <1>6, <1>t, Moves DEF BeginDag, TypeOK, Place
  <2>2. QED
    BY <1>6, <2>1, Moves DEF BeginDag, TypeInv, Inside
<1>7. ASSUME NEW r \in Run, PauseDag(r) PROVE TypeInv'
  <2>1. TypeOK'
    BY <1>7, <1>t, Moves, Stages DEF PauseDag, TypeOK, Place
  <2>2. QED
    BY <1>7, <2>1, Moves DEF PauseDag, TypeInv, Inside
<1>8. ASSUME NEW r \in Run, NEW o \in Outcome, EndDag(r, o) PROVE TypeInv'
  <2>1. TypeOK'
    BY <1>8, <1>t, Moves, Stages DEF EndDag, TypeOK, Place
  <2>2. QED
    BY <1>8, <2>1, Moves DEF EndDag, TypeInv, Inside
<1>9. ASSUME NEW r \in Run, RecordResult(r) PROVE TypeInv'
  <2>1. TypeOK'
    BY <1>9, <1>t, Moves DEF RecordResult, TypeOK, Place
  <2>2. QED
    BY <1>9, <2>1, Moves DEF RecordResult, TypeInv, Inside
<1>10. ASSUME NEW r \in Run, Announce(r) PROVE TypeInv'
  <2>1. TypeOK'
    BY <1>10, <1>t, Moves DEF Announce, TypeOK, Place, TerminalStatus
  <2>2. QED
    BY <1>10, <2>1, Moves DEF Announce, TypeInv, Inside
<1>11. ASSUME NEW dead \in SUBSET Run, Crash(dead) PROVE TypeInv'
  <2>1. TypeOK'
    BY <1>11, <1>t DEF Crash, TypeOK, Place
  <2>2. QED
    BY <1>11, <2>1 DEF Crash, TypeInv, Inside
<1>12. QED
  BY <1>0, <1>1, <1>2, <1>3, <1>4, <1>5, <1>6, <1>7, <1>8, <1>9, <1>10, <1>11
     DEF Next, RunStep, Run

-----------------------------------------------------------------------------
\* Steps that leave the stages, the ledger and the checkpoint alone and take no
\* run into a _persist.
LEMMA QuietLedger ==
    ASSUME LedgerInv, UNCHANGED <<ledger, checkpoint, executions, stage, outcome, accepted>>,
           \A r \in Run : /\ pc'[r] = "write" => pc[r] = "write"
                          /\ pc'[r] \in {"dag", "executing"} => pc[r] \in {"dag", "executing"}
    PROVE  LedgerInv'
  BY DEF LedgerInv, EventFirst, LedgerExplainsCheckpoint, StageIsEarned

LEMMA LedgerNext == TypeInv /\ LedgerInv /\ [Next]_vars => LedgerInv'
<1> SUFFICES ASSUME TypeInv, LedgerInv, [Next]_vars PROVE LedgerInv'
  OBVIOUS
<1> USE DEF durable, result
<1>0. CASE UNCHANGED vars
  BY <1>0, QuietLedger DEF vars
<1>1. ASSUME NEW r \in Run, Submit(r) \/ StartWork(r) \/ StartCli(r) \/ StartResumption(r)
      PROVE  LedgerInv'
  <2>1. PICK place \in {"queued", "check", "rejected"} : Move(r, place)
    BY <1>1 DEF Submit, StartWork, StartCli, StartResumption
  <2>2. QED
    BY <1>1, <2>1, Moves, QuietLedger DEF Submit, StartWork, StartCli, StartResumption
<1>2. ASSUME NEW r \in Run, CheckNew(r) PROVE LedgerInv'
  <2>1. /\ UNCHANGED <<ledger, checkpoint, executions, outcome, accepted>>
        /\ \E place \in {"persist", "ended", "rejected"} : Move(r, place)
        /\ \E x \in {"failed", "human_command"} : Reach(r, x)
    BY <1>2 DEF CheckNew, Raise
  <2>2. /\ \A q \in Run : pc'[q] \in {"write", "dag", "executing"} => pc'[q] = pc[q] /\ q # r
        /\ \A q \in Run : stage'[q] = stage[q] \/ stage'[q] \in {"failed", "human_command"}
        /\ \A q \in Run : q # r => stage'[q] = stage[q]
    BY <2>1, Moves
  <2>3. QED
    BY <2>1, <2>2 DEF LedgerInv, EventFirst, LedgerExplainsCheckpoint, StageIsEarned
<1>3. ASSUME NEW r \in Run, CheckResumption(r) PROVE LedgerInv'
  <2>1. CASE Resumable
    <3>1. /\ UNCHANGED <<ledger, checkpoint, executions, outcome, accepted>>
          /\ Move(r, "dag") /\ Reach(r, "execute")
      BY <1>3, <2>1 DEF CheckResumption
    <3>2. ledger # {}
      BY <2>1 DEF Resumable, LedgerInv, LedgerExplainsCheckpoint
    <3>3. QED
      BY <3>1, <3>2, Moves DEF LedgerInv, EventFirst, LedgerExplainsCheckpoint, StageIsEarned
  <2>2. CASE ~Resumable
    <3>1. PICK place \in {"ended", "rejected"} : Move(r, place)
      BY <1>3, <2>2 DEF CheckResumption, Raise
    <3>2. QED
      BY <1>3, <2>2, <3>1, Moves, QuietLedger DEF CheckResumption
  <2>3. QED
    BY <2>1, <2>2
<1>4. ASSUME NEW r \in Run, PersistEvent(r) PROVE LedgerInv'
  <2>1. /\ UNCHANGED <<checkpoint, executions, outcome, accepted, stage>>
        /\ ledger' = ledger \cup {stage[r]} /\ Move(r, "write")
    BY <1>4 DEF PersistEvent
  <2>2. QED
    BY <2>1, Moves DEF LedgerInv, EventFirst, LedgerExplainsCheckpoint, StageIsEarned
<1>5. ASSUME NEW r \in Run, PersistCheckpoint(r) PROVE LedgerInv'
  <2>1. /\ UNCHANGED <<ledger, executions, outcome, accepted>>
        /\ checkpoint' = StateOf(stage[r]) /\ pc[r] = "write" /\ stage[r] \in ledger
        /\ stage[r] \in Stage
    BY <1>5 DEF PersistCheckpoint, LedgerInv, EventFirst, TypeInv, TypeOK, Inside
  <2>2. LedgerExplainsCheckpoint'
    BY <2>1 DEF LedgerExplainsCheckpoint
  <2>3. CASE stage' = stage
    <3>1. Move(r, "ended") \/ Move(r, "dag") \/ Move(r, "persist")
      BY <1>5 DEF PersistCheckpoint
    <3>2. QED
      BY <2>1, <2>2, <2>3, <3>1, Moves DEF LedgerInv, EventFirst, StageIsEarned
  <2>4. CASE stage[r] \notin Final \cup {"paused", "execute"}
    <3>1. Move(r, "persist") /\ Reach(r, Successor(r))
      BY <1>5, <2>4 DEF PersistCheckpoint
    <3>2. /\ \A q \in Run : q # r => stage'[q] = stage[q]
          /\ stage'[r] = Successor(r)
      BY <3>1, Moves
    <3>3. StageIsEarned'
      BY <2>1, <2>4, <3>2, NextStage DEF LedgerInv, StageIsEarned
    <3>4. EventFirst'
      BY <2>1, <3>1, <3>2, Moves DEF LedgerInv, EventFirst
    <3>5. QED
      BY <2>2, <3>3, <3>4 DEF LedgerInv
  <2>5. QED
    BY <1>5, <2>3, <2>4 DEF PersistCheckpoint
<1>6. ASSUME NEW r \in Run, BeginDag(r) PROVE LedgerInv'
  BY <1>6, Moves DEF BeginDag, LedgerInv, EventFirst, LedgerExplainsCheckpoint, StageIsEarned
<1>7. ASSUME NEW r \in Run, PauseDag(r) PROVE LedgerInv'
  BY <1>7, Moves DEF PauseDag, LedgerInv, EventFirst, LedgerExplainsCheckpoint, StageIsEarned
<1>8. ASSUME NEW r \in Run, NEW o \in Outcome, EndDag(r, o) PROVE LedgerInv'
  <2>1. /\ UNCHANGED <<ledger, checkpoint, executions>>
        /\ Move(r, "persist") /\ Reach(r, IF o = "failed" THEN "failed" ELSE "return")
        /\ \A q \in Run : q # r => outcome'[q] = outcome[q] /\ accepted'[q] = accepted[q]
    BY <1>8 DEF EndDag, TypeInv, TypeOK
  <2>2. QED
    BY <2>1, Moves DEF LedgerInv, EventFirst, LedgerExplainsCheckpoint, StageIsEarned
<1>9. ASSUME NEW r \in Run, RecordResult(r) \/ Announce(r) PROVE LedgerInv'
  <2>1. PICK place \in {"announce", "done"} : Move(r, place)
    BY <1>9 DEF RecordResult, Announce
  <2>2. QED
    BY <1>9, <2>1, Moves, QuietLedger DEF RecordResult, Announce
<1>10. ASSUME NEW dead \in SUBSET Run, Crash(dead) PROVE LedgerInv'
  BY <1>10, QuietLedger DEF Crash
<1>11. QED
  BY <1>0, <1>1, <1>2, <1>3, <1>4, <1>5, <1>6, <1>7, <1>8, <1>9, <1>10
     DEF Next, RunStep, Run

-----------------------------------------------------------------------------
\* Once a process has come in beside the gateway it stays so.
LEMMA OneAtATimeBefore ==
    ASSUME TypeInv, [Next]_vars, OneAtATime'
    PROVE  OneAtATime
<1> SUFFICES ASSUME NEW q \in Run, pc'[q] = "new" PROVE pc[q] = "new"
  BY TaskAssumption DEF OneAtATime, Run
<1>1. ASSUME NEW r \in Run, NEW place, place # "new", Move(r, place) PROVE pc[q] = "new"
  BY <1>1, Moves
<1>2. ASSUME NEW dead \in SUBSET Run, Crash(dead) PROVE pc[q] = "new"
  BY <1>2 DEF Crash
<1>3. CASE UNCHANGED vars
  BY <1>3 DEF vars
<1>4. ASSUME NEW r \in Run, Submit(r) \/ StartCli(r) \/ StartResumption(r) \/ RunStep(r)
      PROVE  pc[q] = "new"
  BY <1>4, <1>1
     DEF Submit, StartCli, StartResumption, RunStep, StartWork, CheckNew, CheckResumption, Raise,
         PersistEvent, PersistCheckpoint, BeginDag, PauseDag, EndDag, RecordResult, Announce
<1>5. QED
  BY <1>2, <1>3, <1>4 DEF Next, Run

LEMMA OthersOver ==
    ASSUME OneLive, NEW r \in Run, Live(r)
    PROVE  \A q \in Run : q # r => pc[q] \in {"new", "done", "rejected", "dead"}
  BY DEF OneLive, Live

LEMMA OneInit == Init => OneInv
  BY DEF Init, OneInv, OneLive, LiveIsRecorded, ResumedLater, FoundNone, OneOutcome,
         FinalIsOver, EndIsSaved, ReportHasRun, OneExecution, AnnouncedTruly, Planned,
         NothingBegun, Inside, Live, Run, Final

LEMMA OneNext ==
    ASSUME TypeInv, LedgerInv, OneInv, [Next]_vars, OneAtATime, OneAtATime'
    PROVE  OneInv'
<1> USE DEF durable, result
<1>t. TypeOK /\ TypeInv' /\ LedgerInv'
  BY TypeNext, LedgerNext DEF TypeInv
<1>n. /\ \A r \in CliRun : pc[r] = "new" /\ pc'[r] = "new"
      /\ \A r \in Hasty : pc[r] = "new" /\ pc'[r] = "new"
  BY DEF OneAtATime
<1>r. /\ Submission \cap Resumption = {} /\ Submission \subseteq Run /\ Resumption \subseteq Run
      /\ \A r \in Submission : r \notin Pausing
      /\ \A r \in Run : r \in Submission \/ r \in Resumption \/ r \in CliRun
      /\ Hasty \subseteq Resumption /\ CliRun \subseteq Run
  BY TaskAssumption DEF Run
<1>0. CASE UNCHANGED vars
  BY <1>0 DEF vars, OneInv, OneLive, LiveIsRecorded, ResumedLater, FoundNone, OneOutcome,
              FinalIsOver, EndIsSaved, ReportHasRun, OneExecution, AnnouncedTruly, Planned, NothingBegun, Live, Existing
<1>c. \A r \in Run : pc[r] # "new" => r \in Submission \/ r \in Resumption
  BY <1>n, <1>r
\* A run that stops, or does not begin.
<1>q. ASSUME UNCHANGED <<durable, record, result, executions>>,
             \A q \in Run : pc'[q] = pc[q] \/ pc'[q] \in {"rejected", "dead", "done"}
      PROVE  OneInv'
  <2>1. \A q \in Run : /\ Live(q)' => Live(q)
                       /\ pc'[q] \in Inside \cup {"queued", "check", "ended", "announce"}
                          => pc'[q] = pc[q]
    BY <1>q DEF Live, Inside
  <2>2. OneLive' /\ LiveIsRecorded' /\ ResumedLater' /\ FoundNone'
    BY <1>r, <1>q, <2>1
       DEF OneInv, OneLive, LiveIsRecorded, ResumedLater, FoundNone, Existing
  <2>3. OneOutcome' /\ FinalIsOver' /\ EndIsSaved'
    BY <1>r, <1>q, <2>1 DEF OneInv, OneOutcome, FinalIsOver, EndIsSaved, NothingBegun, Inside
  <2>4. ReportHasRun' /\ OneExecution' /\ AnnouncedTruly' /\ Planned'
    BY <1>r, <1>q, <2>1 DEF OneInv, ReportHasRun, OneExecution, AnnouncedTruly, Planned, NothingBegun
  <2>5. QED
    BY <2>2, <2>3, <2>4 DEF OneInv
<1>1. ASSUME NEW r \in Run, Submit(r) PROVE OneInv'
  <2>1. CASE Known
    <3>1. UNCHANGED <<durable, record, result, executions>> /\ Move(r, "rejected")
      BY <1>1, <2>1 DEF Submit
    <3>2. QED
      BY <1>q, <3>1, Moves
  <2>2. CASE ~Known
    <3>1. /\ UNCHANGED <<ledger, checkpoint, dag, result, executions>>
          /\ record' = "accepted" /\ company' = "planning"
          /\ r \in Submission /\ record = "none" /\ ~Existing
      BY <1>1, <2>2 DEF Submit, Known
    <3>2. \A q \in Run : pc'[q] = IF q = r THEN "queued" ELSE pc[q]
      BY <1>1, <2>2, Moves DEF Submit
    <3>3. \A q \in Run : ~Live(q)
      BY <1>r, <1>n, <3>1 DEF OneInv, LiveIsRecorded, ResumedLater, Existing, Live
    <3>4. \A q \in Run : Live(q)' => q = r
      BY <3>2, <3>3 DEF Live
    <3>5. OneLive' /\ LiveIsRecorded' /\ ResumedLater'
      BY <1>r, <3>1, <3>4 DEF OneLive, LiveIsRecorded, ResumedLater
    <3>6. FoundNone' /\ OneOutcome' /\ FinalIsOver'
      BY <1>r, <3>1, <3>2, <3>3
         DEF FoundNone, OneInv, OneOutcome, FinalIsOver, Existing, Live, Inside
    <3>7. EndIsSaved' /\ ReportHasRun' /\ OneExecution' /\ AnnouncedTruly' /\ Planned'
      BY <1>r, <3>1, <3>2, <3>3
         DEF OneInv, EndIsSaved, ReportHasRun, OneExecution, AnnouncedTruly, Planned, NothingBegun, Live, Inside
    <3>8. QED
      BY <3>5, <3>6, <3>7 DEF OneInv
  <2>3. QED
    BY <2>1, <2>2
<1>2. ASSUME NEW r \in Run, StartWork(r) PROVE OneInv'
  <2>1. /\ UNCHANGED <<ledger, checkpoint, dag, result, executions>> /\ pc[r] = "queued"
        /\ record' = "running" /\ company' = "planning" /\ r \in Submission
        /\ \A q \in Run : pc'[q] = IF q = r THEN "check" ELSE pc[q]
    BY <1>2, Moves DEF StartWork
  <2>2. Live(r) /\ \A q \in Run : q # r => pc[q] \in {"new", "done", "rejected", "dead"}
    BY <2>1, OthersOver DEF OneInv, Live
  <2>3. OneLive' /\ LiveIsRecorded' /\ ResumedLater' /\ FoundNone'
    BY <1>r, <2>1, <2>2
       DEF OneInv, OneLive, LiveIsRecorded, ResumedLater, FoundNone, Existing, Live
  <2>4. OneOutcome' /\ FinalIsOver' /\ EndIsSaved' /\ ReportHasRun'
    BY <1>r, <2>1, <2>2 DEF OneInv, OneOutcome, FinalIsOver, EndIsSaved, ReportHasRun, Inside
  <2>5. OneExecution' /\ AnnouncedTruly' /\ Planned'
    BY <1>r, <2>1, <2>2 DEF OneInv, OneExecution, AnnouncedTruly, Planned, NothingBegun, Inside
  <2>6. QED
    BY <2>3, <2>4, <2>5 DEF OneInv
<1>3. ASSUME NEW r \in Run, StartCli(r) PROVE OneInv'
  <2>1. r \in CliRun /\ pc'[r] = "check"
    BY <1>3, Moves DEF StartCli
  <2>2. QED
    BY <1>n, <2>1
<1>4. ASSUME NEW r \in Run, StartResumption(r) PROVE OneInv'
  <2>1. /\ UNCHANGED <<durable, record, result, executions>> /\ ledger # {}
        /\ \A q \in Run : pc'[q] = IF q = r THEN "check" ELSE pc[q]
        /\ r \in Resumption
    BY <1>4, Moves DEF StartResumption
  <2>2. \A q \in Run : ~Live(q)
    BY <1>4, <1>n, <2>1 DEF StartResumption
  <2>3. OneLive' /\ LiveIsRecorded' /\ ResumedLater' /\ FoundNone'
    BY <1>r, <2>1, <2>2
       DEF OneInv, OneLive, LiveIsRecorded, ResumedLater, FoundNone, Existing, Live
  <2>4. OneOutcome' /\ FinalIsOver' /\ EndIsSaved' /\ ReportHasRun'
    BY <1>r, <2>1, <2>2 DEF OneInv, OneOutcome, FinalIsOver, EndIsSaved, ReportHasRun, Inside, Live
  <2>5. OneExecution' /\ AnnouncedTruly' /\ Planned'
    BY <1>r, <1>n, <2>1, <2>2 DEF OneInv, OneExecution, AnnouncedTruly, Planned, NothingBegun, Inside, Live
  <2>6. QED
    BY <2>3, <2>4, <2>5 DEF OneInv
<1>5. ASSUME NEW r \in Run, CheckNew(r) PROVE OneInv'
  <2>1. pc[r] = "check" /\ r \in Submission
    BY <1>5, <1>c DEF CheckNew
  <2>2. ~Existing
    BY <2>1 DEF OneInv, FoundNone
  <2>3. /\ UNCHANGED <<durable, record, outcome, accepted, executions>>
        /\ \E place \in {"persist", "ended"} :
              /\ \A q \in Run : pc'[q] = IF q = r THEN place ELSE pc[q]
              /\ place = "ended" => stage'[r] = "failed"
        /\ \A q \in Run : q # r => stage'[q] = stage[q]
        /\ stage'[r] \in {"human_command", "failed"}
    <3>1. CASE Raise(r) /\ Reach(r, "failed")
      BY <1>5, <2>1, <3>1, Moves DEF CheckNew, Raise
    <3>2. CASE Move(r, "persist") /\ Reach(r, "human_command")
      BY <1>5, <3>2, Moves DEF CheckNew
    <3>3. QED
      BY <1>5, <3>1, <3>2 DEF CheckNew
  <2>4. Live(r) /\ \A q \in Run : q # r => pc[q] \in {"new", "done", "rejected", "dead"}
    BY <2>1, OthersOver DEF OneInv, Live
  <2>5. executions = {} /\ checkpoint = "none" /\ ledger = {}
    BY <2>2 DEF Existing, LedgerInv, EventFirst
  <2>6. OneLive' /\ LiveIsRecorded' /\ ResumedLater' /\ FoundNone'
    BY <1>r, <2>1, <2>3, <2>4
       DEF OneInv, OneLive, LiveIsRecorded, ResumedLater, FoundNone, Existing, Live
  <2>7. OneOutcome' /\ FinalIsOver' /\ EndIsSaved' /\ ReportHasRun'
    BY <1>r, <2>1, <2>3, <2>4, <2>5
       DEF OneInv, OneOutcome, FinalIsOver, EndIsSaved, NothingBegun, ReportHasRun, Inside, Final
  <2>8. OneExecution' /\ AnnouncedTruly' /\ Planned'
    BY <1>r, <2>1, <2>3, <2>4, <2>5
       DEF OneInv, OneExecution, AnnouncedTruly, Planned, NothingBegun
  <2>9. QED
    BY <2>6, <2>7, <2>8 DEF OneInv
<1>6. ASSUME NEW r \in Run, CheckResumption(r) PROVE OneInv'
  <2>1. pc[r] = "check" /\ r \in Resumption /\ r \notin Submission
    BY <1>6, <1>r DEF CheckResumption
  <2>2. CASE ~Resumable
    <3>1. UNCHANGED <<durable, record, result, executions>> /\ Move(r, "rejected")
      BY <1>6, <2>1, <2>2 DEF CheckResumption, Raise
    <3>2. QED
      BY <1>q, <3>1, Moves
  <2>3. CASE Resumable
    <3>1. /\ UNCHANGED <<durable, record, outcome, accepted, executions>>
          /\ \A q \in Run : pc'[q] = IF q = r THEN "dag" ELSE pc[q]
          /\ \A q \in Run : stage'[q] = IF q = r THEN "execute" ELSE stage[q]
          /\ checkpoint = "execute"
      BY <1>6, <2>3, Moves DEF CheckResumption, Resumable
    <3>2. Live(r) /\ \A q \in Run : q # r => pc[q] \in {"new", "done", "rejected", "dead"}
      BY <2>1, OthersOver DEF OneInv, Live
    <3>3. OneLive' /\ LiveIsRecorded' /\ ResumedLater' /\ FoundNone'
      BY <1>r, <2>1, <3>1, <3>2
         DEF OneInv, OneLive, LiveIsRecorded, ResumedLater, FoundNone, Existing, Live
    <3>4. OneOutcome' /\ FinalIsOver' /\ EndIsSaved' /\ ReportHasRun'
      BY <1>r, <2>1, <3>1, <3>2
         DEF OneInv, OneOutcome, FinalIsOver, EndIsSaved, ReportHasRun, Inside, Final
    <3>5. OneExecution' /\ AnnouncedTruly' /\ Planned'
      BY <1>r, <2>1, <3>1, <3>2 DEF OneInv, OneExecution, AnnouncedTruly, Planned, NothingBegun, Inside
    <3>6. QED
      BY <3>3, <3>4, <3>5 DEF OneInv
  <2>4. QED
    BY <2>2, <2>3
<1>7. ASSUME NEW r \in Run, PersistEvent(r) PROVE OneInv'
  <2>1. /\ UNCHANGED <<checkpoint, dag, company, record, result, executions>>
        /\ ledger \subseteq ledger' /\ pc[r] = "persist"
        /\ \A q \in Run : pc'[q] = IF q = r THEN "write" ELSE pc[q]
    BY <1>7, Moves DEF PersistEvent
  <2>2. Live(r) /\ \A q \in Run : q # r => pc[q] \in {"new", "done", "rejected", "dead"}
    BY <2>1, OthersOver DEF OneInv, Live
  <2>3. OneLive' /\ LiveIsRecorded' /\ ResumedLater' /\ FoundNone'
    BY <1>r, <2>1, <2>2
       DEF OneInv, OneLive, LiveIsRecorded, ResumedLater, FoundNone, Existing, Live
  <2>4. OneOutcome' /\ FinalIsOver' /\ EndIsSaved' /\ ReportHasRun'
    BY <1>r, <2>1, <2>2 DEF OneInv, OneOutcome, FinalIsOver, EndIsSaved, NothingBegun, ReportHasRun, Inside
  <2>5. company = "planning" \/ ledger # {}
    BY <1>c, <2>1, <2>2 DEF OneInv, Planned, ResumedLater, Inside
  <2>6. AnnouncedTruly' /\ Planned'
    BY <1>r, <2>1, <2>2, <2>5 DEF OneInv, AnnouncedTruly, Planned, NothingBegun, Inside
  <2>7. OneExecution'
    BY <1>r, <2>1, <2>2 DEF OneInv, OneExecution, Inside
  <2>8. QED
    BY <2>3, <2>4, <2>6, <2>7 DEF OneInv
<1>8. ASSUME NEW r \in Run, PersistCheckpoint(r) PROVE OneInv'
  <2>1. /\ UNCHANGED <<ledger, dag, company, record, outcome, accepted, executions>>
        /\ pc[r] = "write" /\ checkpoint' = StateOf(stage[r]) /\ checkpoint \notin Final
    BY <1>8 DEF PersistCheckpoint, OneInv, FinalIsOver, Inside
  <2>2. /\ \A q \in Run : q # r => pc'[q] = pc[q] /\ stage'[q] = stage[q]
        /\ pc'[r] \in {"ended", "dag", "persist"}
        /\ stage[r] \in Final => pc'[r] = "ended"
        /\ pc'[r] = "ended" => stage[r] \in Final \cup {"paused"} /\ stage'[r] = stage[r]
    BY <1>8, Moves DEF PersistCheckpoint, TypeInv, TypeOK
  <2>3. Live(r) /\ \A q \in Run : q # r => pc[q] \in {"new", "done", "rejected", "dead"}
    BY <2>1, OthersOver DEF OneInv, Live
  <2>4. /\ StateOf(stage[r]) \in Final => stage[r] \in Final
        /\ stage[r] \in Final => StateOf(stage[r]) = stage[r]
    BY DEF StateOf, Final
  <2>5. OneLive' /\ LiveIsRecorded' /\ ResumedLater' /\ FoundNone'
    BY <1>r, <2>1, <2>2, <2>3
       DEF OneInv, OneLive, LiveIsRecorded, ResumedLater, FoundNone, Existing, Live
  <2>6. OneOutcome' /\ FinalIsOver'
    BY <2>1, <2>2, <2>3, <2>4 DEF OneInv, OneOutcome, FinalIsOver, Inside
  <2>7. EndIsSaved'
    <3>1. r \in Submission => stage[r] # "paused"
      BY <1>r DEF TypeInv
    <3>2. QED
      BY <1>r, <2>1, <2>2, <2>3, <2>4, <3>1 DEF EndIsSaved
  <2>8. ReportHasRun' /\ AnnouncedTruly' /\ Planned'
    <3>1. ledger # {}
      BY <2>1 DEF LedgerInv, EventFirst
    <3>2. QED
      BY <1>r, <2>1, <2>2, <2>3, <2>4, <3>1
         DEF OneInv, ReportHasRun, AnnouncedTruly, Planned, NothingBegun, Final, Inside
  <2>9. OneExecution'
    BY <1>r, <2>1, <2>2, <2>3 DEF OneInv, OneExecution, Inside
  <2>10. QED
    BY <2>5, <2>6, <2>7, <2>8, <2>9 DEF OneInv
<1>9. ASSUME NEW r \in Run, BeginDag(r) PROVE OneInv'
  <2>1. /\ UNCHANGED <<durable, record, result>> /\ pc[r] = "dag" /\ dag = "none"
        /\ executions' = executions \cup {r}
        /\ \A q \in Run : pc'[q] = IF q = r THEN "executing" ELSE pc[q]
    BY <1>9, Moves DEF BeginDag
  <2>2. Live(r) /\ \A q \in Run : q # r => pc[q] \in {"new", "done", "rejected", "dead"}
    BY <2>1, OthersOver DEF OneInv, Live
  <2>3. r \in Submission \/ r \in Resumption
    BY <1>c, <2>1
  <2>4. OneLive' /\ LiveIsRecorded' /\ ResumedLater' /\ FoundNone'
    BY <1>r, <2>1, <2>2
       DEF OneInv, OneLive, LiveIsRecorded, ResumedLater, FoundNone, Existing, Live
  <2>5. OneOutcome' /\ FinalIsOver' /\ EndIsSaved' /\ ReportHasRun' /\ AnnouncedTruly' /\ Planned'
    BY <1>r, <2>1, <2>2
       DEF OneInv, OneOutcome, FinalIsOver, EndIsSaved, ReportHasRun, AnnouncedTruly, Planned, NothingBegun, Inside
  <2>6. OneExecution'
    BY <1>r, <2>1, <2>2, <2>3 DEF OneInv, OneExecution, Inside
  <2>7. QED
    BY <2>4, <2>5, <2>6 DEF OneInv
<1>10. ASSUME NEW r \in Run, PauseDag(r) PROVE OneInv'
  <2>1. /\ UNCHANGED <<durable, record, outcome, accepted, executions>> /\ pc[r] = "executing"
        /\ \A q \in Run : pc'[q] = IF q = r THEN "persist" ELSE pc[q]
        /\ \A q \in Run : q # r => stage'[q] = stage[q]
        /\ checkpoint \notin Final
    BY <1>10, Moves DEF PauseDag, OneInv, FinalIsOver, Inside
  <2>2. Live(r) /\ \A q \in Run : q # r => pc[q] \in {"new", "done", "rejected", "dead"}
    BY <2>1, OthersOver DEF OneInv, Live
  <2>3. OneLive' /\ LiveIsRecorded' /\ ResumedLater' /\ FoundNone'
    BY <1>r, <2>1, <2>2
       DEF OneInv, OneLive, LiveIsRecorded, ResumedLater, FoundNone, Existing, Live
  <2>4. OneOutcome' /\ FinalIsOver' /\ EndIsSaved' /\ ReportHasRun' /\ AnnouncedTruly' /\ Planned'
    BY <1>r, <2>1, <2>2
       DEF OneInv, OneOutcome, FinalIsOver, EndIsSaved, ReportHasRun, AnnouncedTruly, Planned,
           NothingBegun, Final, Inside
  <2>5. OneExecution'
    BY <1>r, <2>1, <2>2 DEF OneInv, OneExecution, Inside
  <2>6. QED
    BY <2>3, <2>4, <2>5 DEF OneInv
<1>11. ASSUME NEW r \in Run, NEW o \in Outcome, EndDag(r, o) PROVE OneInv'
  <2>1. /\ UNCHANGED <<ledger, checkpoint, company, record, executions>>
        /\ pc[r] = "executing" \/ (pc[r] = "dag" /\ dag = o)
        /\ dag' = o /\ outcome'[r] = o
        /\ \A q \in Run : q # r => outcome'[q] = outcome[q]
        /\ \A q \in Run : pc'[q] = IF q = r THEN "persist" ELSE pc[q]
        /\ \A q \in Run : q # r => stage'[q] = stage[q]
    BY <1>11, Moves DEF EndDag, TypeInv, TypeOK
  <2>2. checkpoint \notin Final
    BY <2>1 DEF OneInv, FinalIsOver, Inside
  <2>3. Live(r) /\ \A q \in Run : q # r => pc[q] \in {"new", "done", "rejected", "dead"}
    BY <2>1, OthersOver DEF OneInv, Live
  <2>4. OneLive' /\ LiveIsRecorded' /\ ResumedLater' /\ FoundNone'
    BY <1>r, <2>1, <2>3
       DEF OneInv, OneLive, LiveIsRecorded, ResumedLater, FoundNone, Existing, Live
  <2>5. OneOutcome'
    BY <2>1, <2>3 DEF OneInv, OneOutcome
  <2>6. FinalIsOver' /\ EndIsSaved' /\ ReportHasRun' /\ AnnouncedTruly' /\ Planned'
    BY <1>r, <2>1, <2>2, <2>3
       DEF OneInv, FinalIsOver, EndIsSaved, ReportHasRun, AnnouncedTruly, Planned, NothingBegun,
           Final, Inside
  <2>7. OneExecution'
    BY <1>r, <2>1, <2>3 DEF OneInv, OneExecution, Inside
  <2>8. QED
    BY <2>4, <2>5, <2>6, <2>7 DEF OneInv
<1>12. ASSUME NEW r \in Run, RecordResult(r) PROVE OneInv'
  <2>1. /\ UNCHANGED <<durable, result, executions>> /\ pc[r] = "ended"
        /\ record' = IF r \in Submission THEN stage[r] ELSE record
        /\ \A q \in Run : pc'[q] = IF q = r THEN IF r \in Submission THEN "announce" ELSE "done"
                                   ELSE pc[q]
        /\ stage[r] # "none"
    BY <1>12, Moves DEF RecordResult, TypeInv, Inside
  <2>2. Live(r) /\ \A q \in Run : q # r => pc[q] \in {"new", "done", "rejected", "dead"}
    BY <2>1, OthersOver DEF OneInv, Live
  <2>3. OneLive' /\ LiveIsRecorded' /\ ResumedLater' /\ FoundNone'
    BY <1>r, <2>1, <2>2
       DEF OneInv, OneLive, LiveIsRecorded, ResumedLater, FoundNone, Existing, Live
  <2>4. OneOutcome' /\ FinalIsOver' /\ EndIsSaved' /\ ReportHasRun' /\ AnnouncedTruly' /\ Planned'
    BY <1>r, <2>1, <2>2
       DEF OneInv, OneOutcome, FinalIsOver, EndIsSaved, ReportHasRun, AnnouncedTruly, Planned, NothingBegun, Inside
  <2>5. OneExecution'
    BY <1>r, <2>1, <2>2 DEF OneInv, OneExecution, Inside
  <2>6. QED
    BY <2>3, <2>4, <2>5 DEF OneInv
<1>13. ASSUME NEW r \in Run, Announce(r) PROVE OneInv'
  <2>1. /\ UNCHANGED <<ledger, checkpoint, dag, record, result, executions>>
        /\ pc[r] = "announce" /\ company' = TerminalStatus(record)
        /\ \A q \in Run : pc'[q] = IF q = r THEN "done" ELSE pc[q]
    BY <1>13, Moves DEF Announce
  <2>2. Live(r) /\ \A q \in Run : q # r => pc[q] \in {"new", "done", "rejected", "dead"}
    BY <2>1, OthersOver DEF OneInv, Live
  <2>3. record \in Final /\ (checkpoint = record \/ (record = "failed" /\ NothingBegun))
    BY <2>1 DEF OneInv, EndIsSaved
  <2>4. OneLive' /\ LiveIsRecorded' /\ ResumedLater' /\ FoundNone'
    BY <1>r, <2>1, <2>2
       DEF OneInv, OneLive, LiveIsRecorded, ResumedLater, FoundNone, Existing, Live
  <2>5. OneOutcome' /\ FinalIsOver' /\ EndIsSaved' /\ ReportHasRun'
    BY <1>r, <2>1, <2>2
       DEF OneInv, OneOutcome, FinalIsOver, EndIsSaved, ReportHasRun, Inside
  <2>6. AnnouncedTruly' /\ Planned'
    BY <1>r, <2>1, <2>2, <2>3
       DEF AnnouncedTruly, Planned, NothingBegun, TerminalStatus, Final, Inside
  <2>7. OneExecution'
    BY <1>r, <2>1, <2>2 DEF OneInv, OneExecution, Inside
  <2>8. QED
    BY <2>4, <2>5, <2>6, <2>7 DEF OneInv
<1>14. ASSUME NEW dead \in SUBSET Run, Crash(dead) PROVE OneInv'
  <2>1. /\ UNCHANGED <<durable, result, executions>>
        /\ \A q \in Run : pc'[q] = IF q \in dead /\ Live(q) THEN "dead" ELSE pc[q]
        /\ record' = IF dead = Submission THEN "none" ELSE record
    BY <1>14 DEF Crash
  <2>2. \A q \in Run : Live(q)' => Live(q) /\ q \notin dead
    BY <2>1 DEF Live
  <2>3. OneLive' /\ LiveIsRecorded' /\ ResumedLater'
    BY <1>r, <2>1, <2>2 DEF OneInv, OneLive, LiveIsRecorded, ResumedLater
  <2>4. FoundNone' /\ OneOutcome' /\ FinalIsOver' /\ ReportHasRun' /\ AnnouncedTruly' /\ Planned' /\ OneExecution'
    BY <1>r, <2>1
       DEF OneInv, FoundNone, Existing, OneOutcome, FinalIsOver, ReportHasRun, AnnouncedTruly, Planned, NothingBegun,
           OneExecution, Inside
  <2>5. EndIsSaved'
    <3>1. \A q \in Run : pc'[q] \in {"ended", "announce"} => pc'[q] = pc[q] /\ q \notin dead
      BY <2>1 DEF Live
    <3>2. QED
      BY <1>r, <2>1, <3>1 DEF OneInv, EndIsSaved, NothingBegun
  <2>6. QED
    BY <2>3, <2>4, <2>5 DEF OneInv
<1>15. QED
  BY <1>0, <1>1, <1>2, <1>3, <1>4, <1>5, <1>6, <1>7, <1>8, <1>9, <1>10, <1>11, <1>12, <1>13, <1>14
     DEF Next, RunStep, Run

LEMMA TaskCorrect == Spec => []TaskInv
<1>1. Init => TaskInv
  <2>1. Init => LedgerInv
    BY DEF Init, LedgerInv, EventFirst, LedgerExplainsCheckpoint, StageIsEarned
  <2>2. QED
    BY <2>1, TypeInit, OneInit DEF TaskInv
<1>2. TaskInv /\ [Next]_vars => TaskInv'
  BY TypeNext, LedgerNext, OneNext, OneAtATimeBefore DEF TaskInv
<1>3. QED
  BY <1>1, <1>2, PTL DEF Spec

\* Whatever runs, crashes and resumes: the ledger explains the checkpoint; where
\* runs follow one another, a report is earned and what is announced is true.
THEOREM RecordsAgreeHolds == Spec => []RecordsAgree
<1>1. TaskInv => RecordsAgree
  <2> SUFFICES ASSUME TaskInv PROVE RecordsAgree
    OBVIOUS
  <2>1. ReportIsEarned
    <3> SUFFICES ASSUME OneAtATime, checkpoint = "human_report"
                 PROVE  /\ dag = "completed"
                        /\ \E r \in Run : /\ stage[r] = "human_report"
                                          /\ outcome[r] = "completed" /\ accepted[r]
      BY DEF ReportIsEarned
    <3>1. PICK r \in Run : stage[r] = "human_report"
      BY DEF TaskInv, OneInv, ReportHasRun
    <3>2. outcome[r] = "completed" /\ accepted[r]
      BY <3>1 DEF TaskInv, LedgerInv, StageIsEarned
    <3>3. dag = "completed"
      BY <3>2 DEF TaskInv, OneInv, OneOutcome
    <3>4. QED
      BY <3>1, <3>2, <3>3
  <2>2. LedgerExplainsCheckpoint /\ AnnouncedTruly
    BY DEF TaskInv, LedgerInv, OneInv, AnnouncedTruly
  <2>3. QED
    BY <2>1, <2>2 DEF RecordsAgree
<1>2. QED
  BY <1>1, TaskCorrect, PTL

\* Where runs follow one another, one submission at most executes the task,
\* however often it is submitted and wherever a crash falls.
THEOREM ExecutedOnceHolds == Spec => []ExecutedOnce
<1>1. TaskInv => ExecutedOnce
  <2> SUFFICES ASSUME TaskInv, OneAtATime PROVE Cardinality(executions \ Resumption) <= 1
    BY DEF ExecutedOnce
  <2> DEFINE E == executions \ Resumption
  <2>1. \A r, s \in E : r = s
    BY DEF TaskInv, OneInv, OneExecution
  <2>2. CASE E = {}
    BY <2>2, FS_EmptySet
  <2>3. CASE E # {}
    <3>1. PICK r : E = {r}
      BY <2>1, <2>3
    <3>2. QED
      BY <3>1, FS_Singleton, SMTT(30)
  <2>4. QED
    BY <2>2, <2>3
<1>2. QED
  BY <1>1, TaskCorrect, PTL

\* A task's records have their types: a run has a stage of the executive once it
\* writes, and nothing but submissions, processes and resumptions executes.
THEOREM TaskTypes == Spec => []TypeOK
  BY TaskCorrect, PTL DEF TaskInv, TypeInv

-----------------------------------------------------------------------------
(* The rolling production of a novel: windows and audits. *)

Entries == [chapter : Nat, bytes : Nat]
Trigger == {"initial-window", "steady-state", "explicit"}
Audits == [trigger : Trigger, window : SUBSET Nat]
Buffers == UNION {[S -> Nat] : S \in SUBSET Nat}
Ops ==
    [phase : {"none", "created", "proposals", "selected", "buffer", "confirmed", "rolling"},
     proposals : Nat, selection : Nat, buffer : Buffers, digest : Buffers,
     confirmed : BOOLEAN, canon : Seq(Entries), seq : Nat, audits : Seq(Audits)]
FactTypes == [bytes : Nat, second : Nat]

LEMMA WindowEnds ==
    ASSUME NEW a \in Nat, NEW b \in Nat, a <= b
    PROVE  First(a..b) = a /\ Last(a..b) = b
  <1>1. \A n \in a..b : (\A m \in a..b : n <= m) <=> n = a
    OBVIOUS
  <1>2. \A n \in a..b : (\A m \in a..b : m <= n) <=> n = b
    OBVIOUS
  <1> QED BY <1>1, <1>2 DEF First, Last

LEMMA BufferTypes ==
    /\ << >> \in Buffers /\ Seq(Nat) \subseteq Buffers
    /\ \A b \in Buffers : DOMAIN b \subseteq Nat /\ \A n \in DOMAIN b : b[n] \in Nat
  <1>1. ASSUME NEW b \in Seq(Nat) PROVE b \in Buffers
    <2>1. Len(b) \in Nat /\ b \in [1..Len(b) -> Nat] /\ 1..Len(b) \in SUBSET Nat
      OBVIOUS
    <2> QED BY <2>1 DEF Buffers
  <1>2. << >> \in Seq(Nat)
    OBVIOUS
  <1>3. \A b \in Buffers : DOMAIN b \subseteq Nat /\ \A n \in DOMAIN b : b[n] \in Nat
    BY DEF Buffers
  <1> QED BY <1>1, <1>2, <1>3

\* An audit of a window and one of the next chapter.
LEMMA AuditsBegin ==
    ASSUME NEW W, W = 1..WindowSize
    PROVE  AuditedUpTo(Append(<< >>, [trigger |-> "initial-window", window |-> W]), 0)
  <1> DEFINE e == [trigger |-> "initial-window", window |-> W]
             a == Append(<< >>, e)
  <1>1. DOMAIN a = {1} /\ a[1] = e /\ e.trigger = "initial-window" /\ e.window = W
    OBVIOUS
  <1> HIDE DEF a, e
  <1>2. AuditsBy(a, "initial-window") = {1} /\ AuditsBy(a, "steady-state") = {}
    BY <1>1 DEF AuditsBy
  <1>3. {{WindowSize + n} : n \in 1..0} = {}
    OBVIOUS
  <1>4. {a[i].window : i \in AuditsBy(a, "steady-state")} = {{WindowSize + n} : n \in 1..0}
    BY <1>2, <1>3
  <1>5. \E i \in DOMAIN a : AuditsBy(a, "initial-window") = {i} /\ a[i].window = 1..WindowSize
    BY <1>1, <1>2
  <1>6. AuditedUpTo(a, 0)
    BY <1>2, <1>4, <1>5 DEF AuditedUpTo
  <1> QED BY <1>6 DEF a, e

LEMMA AuditsOther ==
    ASSUME NEW a \in Seq(Audits), NEW k \in Nat, AuditedUpTo(a, k), NEW W \in SUBSET Nat
    PROVE  AuditedUpTo(Append(a, [trigger |-> "explicit", window |-> W]), k)
  <1> DEFINE e == [trigger |-> "explicit", window |-> W]
             b == Append(a, e)
  <1>1. /\ DOMAIN a = 1..Len(a) /\ Len(a) \in Nat /\ DOMAIN b = 1..(Len(a) + 1)
        /\ \A i \in DOMAIN a : b[i] = a[i] /\ i \in DOMAIN b
        /\ b[Len(a) + 1] = e
    OBVIOUS
  <1>2. e.trigger = "explicit"
    OBVIOUS
  <1> HIDE DEF b, e
  <1>3. ASSUME NEW t \in {"initial-window", "steady-state"}
        PROVE  AuditsBy(b, t) = AuditsBy(a, t)
    BY <1>1, <1>2 DEF AuditsBy
  <1>4. \A i \in AuditsBy(a, "steady-state") : b[i] = a[i]
    BY <1>1 DEF AuditsBy
  <1>5. {b[i].window : i \in AuditsBy(b, "steady-state")} = {a[i].window : i \in AuditsBy(a, "steady-state")}
    BY <1>3, <1>4
  <1>6. AuditedUpTo(b, k)
    <2>1. \E i \in DOMAIN b : AuditsBy(b, "initial-window") = {i} /\ b[i].window = 1..WindowSize
      BY <1>1, <1>3 DEF AuditedUpTo
    <2>2. {b[i].window : i \in AuditsBy(b, "steady-state")} = {{WindowSize + n} : n \in 1..k}
      BY <1>5 DEF AuditedUpTo
    <2>3. \A i, j \in AuditsBy(b, "steady-state") : \A n \in b[i].window, m \in b[j].window :
              i < j => n < m
      BY <1>3, <1>4 DEF AuditedUpTo
    <2> QED BY <2>1, <2>2, <2>3 DEF AuditedUpTo
  <1> QED BY <1>6 DEF b, e

LEMMA AuditsNext ==
    ASSUME NEW a \in Seq(Audits), NEW k \in Nat, AuditedUpTo(a, k), NEW next,
           next = WindowSize + k + 1
    PROVE  AuditedUpTo(Append(a, [trigger |-> "steady-state", window |-> {next}]), k + 1)
  <1> DEFINE e == [trigger |-> "steady-state", window |-> {next}]
             b == Append(a, e)
             last == Len(a) + 1
             old == AuditsBy(a, "steady-state")
  <1>1. /\ DOMAIN a = 1..Len(a) /\ Len(a) \in Nat /\ DOMAIN b = 1..last
        /\ \A i \in DOMAIN a : b[i] = a[i] /\ i \in DOMAIN b /\ i # last /\ i < last
        /\ b[last] = e
    OBVIOUS
  <1>2. e.trigger = "steady-state" /\ e.window = {next}
    OBVIOUS
  <1>3. WindowSize \in Nat /\ next \in Nat
    BY OperationsAssumption
  <1> HIDE DEF b, e
  <1>4. AuditsBy(b, "initial-window") = AuditsBy(a, "initial-window")
    BY <1>1, <1>2 DEF AuditsBy
  <1>5. AuditsBy(b, "steady-state") = old \cup {last} /\ \A i \in old : b[i] = a[i] /\ i < last /\ i \in Nat
    BY <1>1, <1>2 DEF AuditsBy
  <1>6. {a[i].window : i \in old} = {{WindowSize + n} : n \in 1..k}
    BY DEF AuditedUpTo
  <1>l. last \in Nat
    BY <1>1
  <1>10. \A i, j \in old : \A n \in a[i].window, m \in a[j].window : i < j => n < m
    BY DEF AuditedUpTo
  <1>12. \E i \in DOMAIN b : AuditsBy(b, "initial-window") = {i} /\ b[i].window = 1..WindowSize
    <2>1. \A i \in DOMAIN a : i \in DOMAIN b /\ b[i] = a[i]
      BY <1>1
    <2>2. \E i \in DOMAIN a : AuditsBy(a, "initial-window") = {i} /\ a[i].window = 1..WindowSize
      BY DEF AuditedUpTo
    <2> QED BY <1>4, <2>1, <2>2
  <1> HIDE DEF old, last
  <1>7. {b[i].window : i \in old \cup {last}} = {a[i].window : i \in old} \cup {{next}}
    <2>1. b[last].window = {next} /\ \A i \in old : b[i].window = a[i].window
      BY <1>1, <1>2, <1>5
    <2> QED BY ONLY <2>1
  <1>8. {{WindowSize + n} : n \in 1..(k + 1)} = {{WindowSize + n} : n \in 1..k} \cup {{next}}
    <2>1. 1..(k + 1) = (1..k) \cup {k + 1} /\ next = WindowSize + (k + 1)
      BY <1>3
    <2> QED BY <2>1
  <1>9. \A i \in old : \A n \in a[i].window : n < next
    <2> SUFFICES ASSUME NEW i \in old, NEW n \in a[i].window PROVE n < next
      OBVIOUS
    <2>1. PICK m \in 1..k : a[i].window = {WindowSize + m}
      BY <1>6
    <2> QED BY <1>3, <2>1
  <1>11. \A i, j \in old \cup {last} : \A n \in b[i].window, m \in b[j].window : i < j => n < m
    <2> SUFFICES ASSUME NEW i \in old \cup {last}, NEW j \in old \cup {last},
                        NEW n \in b[i].window, NEW m \in b[j].window, i < j
                 PROVE  n < m
      OBVIOUS
    <2>2. i \in old
      BY <1>5, <1>l
    <2>3. CASE j \in old
      BY <1>5, <1>10, <2>2, <2>3
    <2>4. CASE j = last
      BY <1>1, <1>2, <1>5, <1>9, <2>2, <2>4
    <2> QED BY <2>3, <2>4
  <1>13. AuditedUpTo(b, k + 1)
    <2>1. {b[i].window : i \in AuditsBy(b, "steady-state")} = {{WindowSize + n} : n \in 1..(k + 1)}
      BY <1>5, <1>6, <1>7, <1>8
    <2>2. \A i, j \in AuditsBy(b, "steady-state") : \A n \in b[i].window, m \in b[j].window :
             i < j => n < m
      BY <1>5, <1>11
    <2> QED BY <1>12, <2>1, <2>2 DEF AuditedUpTo
  <1> QED BY <1>13 DEF b, e

Steps ==
    {"idle", "proposals", "select", "buffer", "confirm", "produce", "review", "release", "store",
     "assemble", "slide"}
Copying == {"proposals", "select", "confirm", "produce", "review"}
Late == {"release", "store", "assemble", "slide"}
Writing == {"review"} \cup Late
Advancing == {"produce"} \cup Writing

OpsTypes ==
    /\ log \in Ops
    /\ content \in [Chapter -> Nat] /\ stored \in [Chapter -> Nat] /\ released \in [Chapter -> Nat]
    /\ registered \in [Chapter -> FactTypes] /\ second \in Nat
    /\ at \in [Call -> Steps] /\ mem \in [Call -> Ops] /\ fresh \in [Call -> Nat]
    /\ view \in [Call -> [Chapter -> FactTypes]]
    /\ moved \in Nat /\ drafts \in Nat /\ made \in [Chapter -> Nat] /\ faults \in Nat
    /\ tampered \subseteq Chapter /\ excused \in BOOLEAN

\* What the buffer, the canon and the audits of an operation are of one another.
Laid(op) ==
    /\ op.buffer # << >>
    /\ DOMAIN op.buffer = (op.seq + 1)..(op.seq + WindowSize)
    /\ Len(op.canon) = op.seq
    /\ \A i \in DOMAIN op.canon : op.canon[i].chapter = i
Unbegun(op) == op.seq = 0 /\ op.canon = << >> /\ op.audits = << >> /\ ~op.confirmed
Shaped(op) ==
    /\ op.phase = "none" => op = NoOp
    /\ op.buffer = << >> => Unbegun(op)
    /\ op.buffer # << >> => Laid(op) /\ op.digest = op.buffer /\ AuditedUpTo(op.audits, op.seq)

\* A request's own copy, which others know nothing of.
Own(c) ==
    /\ at[c] \in Copying => Shaped(mem[c])
    /\ at[c] = "buffer" =>
          mem[c].buffer \in Seq(Nat) /\ Len(mem[c].buffer) <= WindowSize /\ Unbegun(mem[c])
    /\ at[c] = "confirm" => mem[c].buffer # << >>
    /\ at[c] \in Advancing => mem[c].confirmed /\ mem[c].seq < MaxAdvances /\ Laid(mem[c])
    /\ at[c] \in Late => AuditedUpTo(mem[c].audits, mem[c].seq + 1)
EventInv == OpsTypes /\ Shaped(log) /\ \A c \in Call : Own(c)

LEMMA OpsEmpty == NoOp \in Ops /\ NewOp \in Ops /\ Shaped(NewOp) /\ Shaped(NoOp)
  <1>1. << >> \in Buffers /\ << >> \in Seq(Entries) /\ << >> \in Seq(Audits)
    BY BufferTypes
  <1>2. NoOp \in Ops /\ NewOp \in Ops
    BY <1>1 DEF NoOp, NewOp, Ops, None, NoDigest
  <1> QED BY <1>2 DEF NoOp, NewOp, Shaped, Unbegun

LEMMA Bounds == WindowSize \in Nat /\ WindowSize # 0 /\ MaxAdvances \in Nat
  BY OperationsAssumption

\* The oldest chapter of the buffer, and the next one to write.
LEMMA BufferEnds ==
    ASSUME NEW op \in Ops, Laid(op)
    PROVE  /\ Oldest(op) = op.seq + 1 /\ NextNumber(op) = op.seq + WindowSize + 1
           /\ op.seq + 1 \in DOMAIN op.buffer /\ NextNumber(op) \notin DOMAIN op.buffer
           /\ op.buffer[op.seq + 1] \in Nat /\ op.seq \in Nat
           /\ AuditedHash(op, op.seq + 1) = op.buffer[op.seq + 1]
           /\ op.seq < MaxAdvances => op.seq + 1 \in Chapter /\ op.seq + WindowSize + 1 \in Chapter
  <1>1. op.seq \in Nat
    BY DEF Ops
  <1>2. DOMAIN op.buffer = (op.seq + 1)..(op.seq + WindowSize)
    BY DEF Laid
  <1>3. op.seq + 1 \in Nat /\ op.seq + WindowSize \in Nat /\ op.seq + 1 <= op.seq + WindowSize
    BY <1>1, Bounds
  <1>4. Oldest(op) = op.seq + 1 /\ NextNumber(op) = op.seq + WindowSize + 1
    BY <1>2, <1>3, WindowEnds DEF Oldest, NextNumber, Window
  <1>5. op.seq + 1 \in DOMAIN op.buffer /\ op.seq + WindowSize + 1 \notin DOMAIN op.buffer
    BY <1>1, <1>2, Bounds
  <1>6. op.buffer[op.seq + 1] \in Nat
    BY <1>5, BufferTypes DEF Ops
  <1>7. op.seq < MaxAdvances => op.seq + 1 \in Chapter /\ op.seq + WindowSize + 1 \in Chapter
    BY <1>1, Bounds DEF Chapter
  <1> QED BY <1>1, <1>4, <1>5, <1>6, <1>7 DEF AuditedHash

\* The copy of a request that advances.
LEMMA Copies ==
    ASSUME EventInv, NEW c \in Call, at[c] \in Advancing
    PROVE  LET op == mem[c]
           IN  /\ op \in Ops /\ Laid(op) /\ op.confirmed /\ op.seq < MaxAdvances /\ op.seq \in Nat
               /\ Oldest(op) = op.seq + 1 /\ NextNumber(op) = op.seq + WindowSize + 1
               /\ op.seq + 1 \in Chapter /\ op.seq + WindowSize + 1 \in Chapter
               /\ op.seq + 1 \in DOMAIN op.buffer /\ op.seq + WindowSize + 1 \notin DOMAIN op.buffer
               /\ op.buffer[op.seq + 1] \in Nat
               /\ AuditedHash(op, op.seq + 1) = op.buffer[op.seq + 1]
  <1>1. mem[c] \in Ops /\ Own(c)
    BY DEF EventInv, OpsTypes
  <1>2. Laid(mem[c]) /\ mem[c].confirmed /\ mem[c].seq < MaxAdvances
    BY <1>1 DEF Own
  <1> QED BY <1>1, <1>2, BufferEnds

-----------------------------------------------------------------------------
\* A step of one request leaves the others their copies.
LEMMA OthersKept ==
    ASSUME NEW c \in Call, \A d \in Call : Own(d), Own(c)',
           \A d \in Call \ {c} : at'[d] = at[d] /\ mem'[d] = mem[d]
    PROVE  \A d \in Call : Own(d)'
  <1> SUFFICES ASSUME NEW d \in Call, d # c PROVE Own(d)'
    OBVIOUS
  <1> QED BY DEF Own

LEMMA Proceeds ==
    ASSUME OpsTypes, NEW c \in Call, NEW step \in Steps, Go(c, step)
    PROVE  at' \in [Call -> Steps] /\ at'[c] = step /\ \A d \in Call \ {c} : at'[d] = at[d]
  BY DEF OpsTypes, Go

\* A request that is over holds nothing.
LEMMA Closes ==
    ASSUME EventInv, NEW c \in Call, Close(c)
    PROVE  /\ at'[c] = "idle"
           /\ at' \in [Call -> Steps] /\ mem' \in [Call -> Ops] /\ fresh' \in [Call -> Nat]
           /\ view' \in [Call -> [Chapter -> FactTypes]]
           /\ \A d \in Call : Own(d)'
  <1>0. OpsTypes
    BY DEF EventInv
  <1>1. NoFact \in FactTypes /\ None \in Nat
    BY DEF NoFact, FactTypes, None
  <1>2. /\ Go(c, "idle") /\ mem' = [mem EXCEPT ![c] = NoOp]
        /\ fresh' = [fresh EXCEPT ![c] = None]
        /\ view' = [view EXCEPT ![c] = [n \in Chapter |-> NoFact]]
    BY DEF Close
  <1>3. /\ at' \in [Call -> Steps] /\ at'[c] = "idle"
        /\ \A d \in Call \ {c} : at'[d] = at[d] /\ mem'[d] = mem[d]
    BY <1>0, <1>2, Proceeds DEF OpsTypes, Steps
  <1>4. Own(c)'
    BY <1>3 DEF Own, Copying, Advancing, Writing, Late
  <1>5. mem' \in [Call -> Ops] /\ fresh' \in [Call -> Nat]
    BY <1>0, <1>1, <1>2, OpsEmpty DEF OpsTypes
  <1>6. view' \in [Call -> [Chapter -> FactTypes]]
    BY <1>0, <1>1, <1>2 DEF OpsTypes
  <1>7. \A d \in Call : Own(d)'
    BY <1>3, <1>4, OthersKept DEF EventInv
  <1> QED BY <1>3, <1>5, <1>6, <1>7

\* A process that dies takes every request with it.
LEMMA AllClose ==
    ASSUME OpsTypes, AllGone
    PROVE  /\ at' \in [Call -> Steps] /\ mem' \in [Call -> Ops] /\ fresh' \in [Call -> Nat]
           /\ view' \in [Call -> [Chapter -> FactTypes]]
           /\ faults' \in Nat /\ UNCHANGED <<moved, drafts, made, tampered, excused>>
           /\ \A d \in Call : Own(d)'
  <1>1. /\ faults' = faults + 1 /\ at' = [d \in Call |-> "idle"] /\ mem' = [d \in Call |-> NoOp]
        /\ fresh' = [d \in Call |-> None] /\ view' = [d \in Call |-> [n \in Chapter |-> NoFact]]
        /\ UNCHANGED <<moved, drafts, made, tampered, excused>>
    BY DEF AllGone
  <1>2. faults' \in Nat /\ NoFact \in FactTypes /\ None \in Nat
    BY <1>1 DEF OpsTypes, NoFact, FactTypes, None
  <1>3. at' \in [Call -> Steps] /\ mem' \in [Call -> Ops] /\ fresh' \in [Call -> Nat]
        /\ \A d \in Call : at'[d] = "idle"
    BY <1>1, <1>2, OpsEmpty DEF Steps
  <1>4. view' \in [Call -> [Chapter -> FactTypes]]
    BY <1>1, <1>2
  <1>5. \A d \in Call : Own(d)'
    BY <1>3 DEF Own, Copying, Advancing, Writing, Late
  <1> QED BY <1>1, <1>2, <1>3, <1>4, <1>5

LEMMA Persists ==
    ASSUME EventInv, NEW c \in Call, NEW key, NEW op \in Ops, Shaped(op), Persist(c, key, op)
    PROVE  EventInv'
  <1>0. OpsTypes /\ Shaped(log)
    BY DEF EventInv
  <1>1. /\ log' \in {log, op} /\ UNCHANGED <<content, registered, stored, released, second>>
        /\ (Close(c) /\ UNCHANGED history) \/ AllGone
    BY DEF Persist, Appended, HalfAppended, Recorded, Unreadable, store
  <1>2. log' \in Ops /\ Shaped(log)'
    BY <1>0, <1>1 DEF OpsTypes, Shaped, Laid, Unbegun
  <1>3. CASE Close(c) /\ UNCHANGED history
    <2>1. OpsTypes'
      BY <1>0, <1>1, <1>2, <1>3, Closes DEF OpsTypes, history
    <2> QED BY <1>2, <1>3, <2>1, Closes DEF EventInv
  <1>4. CASE AllGone
    <2>1. OpsTypes'
      BY <1>0, <1>1, <1>2, <1>4, AllClose DEF OpsTypes
    <2> QED BY <1>0, <1>2, <1>4, <2>1, AllClose DEF EventInv
  <1> QED BY <1>1, <1>3, <1>4

LEMMA Opens ==
    ASSUME EventInv, NEW c \in Call, NEW step \in Steps, Open(c, step),
           step \in {"proposals", "select"}
           \/ (step = "buffer" /\ log.buffer = << >>)
           \/ (step = "confirm" /\ log.buffer # << >>)
           \/ (step = "produce" /\ log.buffer # << >> /\ log.confirmed /\ log.seq < MaxAdvances)
    PROVE  EventInv'
  <1>0. OpsTypes /\ Shaped(log)
    BY DEF EventInv
  <1>1. /\ mem' = [mem EXCEPT ![c] = log] /\ view' = [view EXCEPT ![c] = registered]
        /\ Go(c, step)
        /\ UNCHANGED <<log, content, registered, stored, released, second, fresh, moved, drafts, made,
                       faults, tampered, excused>>
    BY DEF Open, events, store, history
  <1>2. /\ at' \in [Call -> Steps] /\ at'[c] = step
        /\ \A d \in Call \ {c} : at'[d] = at[d] /\ mem'[d] = mem[d]
    BY <1>0, <1>1, Proceeds DEF OpsTypes
  <1>3. mem' \in [Call -> Ops] /\ mem'[c] = log /\ view' \in [Call -> [Chapter -> FactTypes]]
    BY <1>0, <1>1 DEF OpsTypes
  <1>4. << >> \in Seq(Nat) /\ Len(<< >>) = 0 /\ 0 <= WindowSize
    BY Bounds
  <1>5. OpsTypes'
    BY <1>0, <1>1, <1>2, <1>3 DEF OpsTypes
  <1>6. Own(c)'
    BY <1>0, <1>2, <1>3, <1>4 DEF Own, Shaped, Copying, Advancing, Writing, Late
  <1>7. \A d \in Call : Own(d)'
    BY <1>2, <1>6, OthersKept DEF EventInv
  <1> QED BY <1>0, <1>1, <1>5, <1>7 DEF EventInv

LEMMA Produces ==
    ASSUME OpsTypes, NEW c \in Call, NEW n \in Nat, Produce(c, n)
    PROVE  /\ drafts' \in Nat /\ drafts' = drafts + 1
           /\ made' \in [Chapter -> Nat] /\ content' \in [Chapter -> Nat]
           /\ \A m \in Chapter : /\ content'[m] = IF m = n THEN drafts' ELSE content[m]
                                 /\ made'[m] = IF m = n THEN made[m] + 1 ELSE made[m]
           /\ UNCHANGED <<log, keys, registered, stored, released, second, view, moved, faults, tampered, excused>>
  <1>1. drafts \in Nat /\ made \in [Chapter -> Nat] /\ content \in [Chapter -> Nat]
    BY DEF OpsTypes
  <1>2. drafts' = drafts + 1 /\ made' = [made EXCEPT ![n] = @ + 1]
        /\ content' = [content EXCEPT ![n] = drafts + 1]
        /\ UNCHANGED <<log, keys, registered, stored, released, second, view, moved, faults, tampered, excused>>
    BY DEF Produce, events
  <1>3. content' \in [Chapter -> Nat]
        /\ \A m \in Chapter : content'[m] = IF m = n THEN drafts' ELSE content[m]
    <2>1. content' = [m \in Chapter |-> IF m = n THEN drafts' ELSE content[m]]
      BY <1>1, <1>2
    <2>2. drafts' \in Nat
      BY <1>1, <1>2
    <2> QED BY <1>1, <2>1, <2>2
  <1>4. made' \in [Chapter -> Nat]
        /\ \A m \in Chapter : made'[m] = IF m = n THEN made[m] + 1 ELSE made[m]
    <2>1. made' = [m \in Chapter |-> IF m = n THEN made[m] + 1 ELSE made[m]]
      BY <1>1, <1>2
    <2> QED BY <1>1, <2>1
  <1> QED BY <1>1, <1>2, <1>3, <1>4

\* The events of a request that has changed little of its copy.
LEMMA ProposeEvent ==
    ASSUME EventInv, NEW c \in Call, Propose(c)
    PROVE  EventInv'
  <1>0. mem[c] \in Ops /\ Shaped(mem[c])
    BY DEF EventInv, OpsTypes, Own, Copying, Propose
  <1> DEFINE base == IF mem[c].phase = "none" THEN NewOp ELSE mem[c]
             op == [base EXCEPT !.proposals = @ + 1, !.phase = "proposals"]
  <1>1. base \in Ops /\ Shaped(base)
    BY <1>0, OpsEmpty
  <1>2. Persist(c, <<"proposals">>, op)
    BY DEF Propose
  <1> HIDE DEF base
  <1>3. base.proposals + 1 \in Nat
    BY <1>1 DEF Ops
  <1>4. /\ op.phase # "none" /\ op.buffer = base.buffer /\ op.seq = base.seq
        /\ op.canon = base.canon /\ op.audits = base.audits /\ op.confirmed = base.confirmed
        /\ op.digest = base.digest
    BY <1>1 DEF Ops
  <1>5. op \in Ops
    BY <1>1, <1>3 DEF Ops
  <1> HIDE DEF op
  <1>6. Shaped(op)
    BY <1>1, <1>4 DEF Shaped, Laid, Unbegun
  <1> QED BY <1>2, <1>5, <1>6, Persists

LEMMA SelectEvent ==
    ASSUME EventInv, NEW c \in Call, NEW p \in Choice, Select(c, p)
    PROVE  EventInv'
  <1>0. mem[c] \in Ops /\ Shaped(mem[c])
    BY DEF EventInv, OpsTypes, Own, Copying, Select
  <1> DEFINE op == [mem[c] EXCEPT !.selection = p, !.phase = "selected"]
  <1>1. Persist(c, <<"select", p>>, op)
    BY DEF Select
  <1>2. /\ op \in Ops /\ op.phase # "none" /\ op.buffer = mem[c].buffer /\ op.seq = mem[c].seq
        /\ op.canon = mem[c].canon /\ op.audits = mem[c].audits /\ op.confirmed = mem[c].confirmed
        /\ op.digest = mem[c].digest
    BY <1>0, OperationsAssumption DEF Ops
  <1> HIDE DEF op
  <1>3. Shaped(op)
    BY <1>0, <1>2 DEF Shaped, Laid, Unbegun
  <1> QED BY <1>1, <1>2, <1>3, Persists

LEMMA ConfirmEvent ==
    ASSUME EventInv, NEW c \in Call, Confirm(c)
    PROVE  EventInv'
  <1>0. mem[c] \in Ops /\ Shaped(mem[c]) /\ mem[c].buffer # << >>
    BY DEF EventInv, OpsTypes, Own, Copying, Confirm
  <1> DEFINE op == [mem[c] EXCEPT !.confirmed = TRUE, !.phase = "confirmed"]
  <1>1. Persist(c, <<"confirm">>, op)
    BY DEF Confirm
  <1>2. /\ op \in Ops /\ op.phase # "none" /\ op.buffer = mem[c].buffer /\ op.seq = mem[c].seq
        /\ op.canon = mem[c].canon /\ op.audits = mem[c].audits /\ op.digest = mem[c].digest
    BY <1>0 DEF Ops
  <1> HIDE DEF op
  <1>3. Shaped(op)
    BY <1>0, <1>2 DEF Shaped, Laid
  <1> QED BY <1>1, <1>2, <1>3, Persists

\* The buffer is filled chapter by chapter, and audited once it is full.
LEMMA FillBufferStep ==
    ASSUME EventInv, NEW c \in Call, FillBuffer(c)
    PROVE  EventInv'
  <1>0. OpsTypes /\ Own(c) /\ mem[c] \in Ops /\ Shaped(log)
    BY DEF EventInv, OpsTypes
  <1> DEFINE b == Append(mem[c].buffer, drafts')
  <1>1. /\ at[c] = "buffer" /\ Len(mem[c].buffer) < WindowSize
        /\ Produce(c, Len(mem[c].buffer) + 1)
        /\ mem' = [mem EXCEPT ![c].buffer = b]
        /\ at' = at /\ fresh' = fresh
    BY DEF FillBuffer
  <1>2. mem[c].buffer \in Seq(Nat) /\ Len(mem[c].buffer) \in Nat /\ Unbegun(mem[c])
    BY <1>0, <1>1 DEF Own
  <1>3. Len(mem[c].buffer) + 1 \in Nat
    BY <1>2
  <1>4. /\ drafts' \in Nat /\ made' \in [Chapter -> Nat] /\ content' \in [Chapter -> Nat]
        /\ UNCHANGED <<log, registered, stored, released, second, view, moved, faults, tampered, excused>>
    BY <1>0, <1>1, <1>3, Produces
  <1>5. b \in Seq(Nat) /\ Len(b) <= WindowSize
    BY <1>1, <1>2, <1>4, Bounds
  <1>6. b \in Buffers
    BY <1>5, BufferTypes
  <1> HIDE DEF b
  <1>7. /\ mem' \in [Call -> Ops] /\ mem'[c] = [mem[c] EXCEPT !.buffer = b]
        /\ \A d \in Call \ {c} : mem'[d] = mem[d]
    <2>1. [mem[c] EXCEPT !.buffer = b] \in Ops
      BY <1>0, <1>6 DEF Ops
    <2> QED BY <1>0, <1>1, <2>1 DEF OpsTypes
  <1>8. mem'[c].buffer = b /\ Unbegun(mem'[c])
    BY <1>0, <1>2, <1>7 DEF Ops, Unbegun
  <1>9. Own(c)'
    BY <1>1, <1>5, <1>8 DEF Own, Unbegun, Copying, Advancing, Writing, Late
  <1>10. \A d \in Call : Own(d)'
    BY <1>1, <1>7, <1>9, OthersKept DEF EventInv
  <1>11. OpsTypes'
    BY <1>0, <1>1, <1>4, <1>7 DEF OpsTypes
  <1> QED BY <1>0, <1>4, <1>10, <1>11 DEF EventInv

LEMMA AuditBufferEvent ==
    ASSUME EventInv, NEW c \in Call, AuditBuffer(c)
    PROVE  EventInv'
  <1>0. OpsTypes /\ Own(c) /\ mem[c] \in Ops
    BY DEF EventInv, OpsTypes
  <1> DEFINE old == mem[c]
             e == [trigger |-> "initial-window", window |-> Window(old)]
             op == [[old EXCEPT !.audits = Append(@, e)]
                        EXCEPT !.digest = old.buffer, !.phase = "buffer"]
  <1>1. at[c] = "buffer" /\ Len(old.buffer) = WindowSize
    BY DEF AuditBuffer
  <1>2. Audited(old, "initial-window", Window(old)).buffer = old.buffer
    BY <1>0 DEF Audited, Ops
  <1>3. Persist(c, <<"init">>, op)
    BY <1>2 DEF AuditBuffer, Audited, DigestOf
  <1>4. old.buffer \in Seq(Nat) /\ old.seq = 0 /\ old.canon = << >> /\ old.audits = << >>
    BY <1>0, <1>1 DEF Own, Unbegun
  <1>5. DOMAIN old.buffer = 1..WindowSize /\ old.buffer # << >> /\ Window(old) = 1..WindowSize
        /\ Window(old) \in SUBSET Nat
    BY <1>1, <1>4, Bounds DEF Window
  <1>6. e \in Audits /\ Append(old.audits, e) \in Seq(Audits)
    <2>1. e \in Audits
      BY <1>5 DEF Audits, Trigger
    <2> HIDE DEF e
    <2> QED BY <1>0, <2>1 DEF Ops
  <1>7. /\ op \in Ops /\ op.phase # "none" /\ op.buffer = old.buffer /\ op.digest = old.buffer
        /\ op.seq = 0 /\ op.canon = << >> /\ op.audits = Append(<< >>, e)
    <2> HIDE DEF e
    <2> QED BY <1>0, <1>4, <1>6 DEF Ops
  <1>8. AuditedUpTo(Append(<< >>, e), 0)
    BY <1>5, AuditsBegin
  <1>9. Len(<< >>) = 0 /\ DOMAIN << >> = {}
    OBVIOUS
  <1> HIDE DEF op, e, old
  <1>10. Laid(op)
    <2>1. DOMAIN op.buffer = (op.seq + 1)..(op.seq + WindowSize)
      BY <1>5, <1>7, Bounds
    <2> QED BY <1>5, <1>7, <1>9, <2>1 DEF Laid
  <1>11. Shaped(op)
    BY <1>5, <1>7, <1>8, <1>10 DEF Shaped
  <1> QED BY <1>3, <1>7, <1>11, Persists

-----------------------------------------------------------------------------
\* The steps of an advance.
LEMMA WriteNextStep ==
    ASSUME EventInv, NEW c \in Call, WriteNext(c)
    PROVE  EventInv'
  <1>0. OpsTypes /\ Own(c) /\ Shaped(log)
    BY DEF EventInv
  <1>1. /\ at[c] = "produce" /\ Produce(c, NextNumber(mem[c]))
        /\ fresh' = [fresh EXCEPT ![c] = drafts'] /\ Go(c, "review") /\ mem' = mem
    BY DEF WriteNext
  <1>2. NextNumber(mem[c]) \in Nat
    BY <1>1, Copies DEF Chapter, Advancing
  <1>3. /\ drafts' \in Nat /\ made' \in [Chapter -> Nat] /\ content' \in [Chapter -> Nat]
        /\ UNCHANGED <<log, registered, stored, released, second, view, moved, faults, tampered, excused>>
    BY <1>0, <1>1, <1>2, Produces
  <1>4. /\ at' \in [Call -> Steps] /\ at'[c] = "review"
        /\ \A d \in Call \ {c} : at'[d] = at[d] /\ mem'[d] = mem[d]
    BY <1>0, <1>1, Proceeds DEF Steps
  <1>5. fresh' \in [Call -> Nat]
    BY <1>0, <1>1, <1>3 DEF OpsTypes
  <1>6. OpsTypes'
    BY <1>0, <1>1, <1>3, <1>4, <1>5 DEF OpsTypes
  <1>7. Own(c)'
    BY <1>0, <1>1, <1>4 DEF Own, Copying, Advancing, Writing, Late
  <1>8. \A d \in Call : Own(d)'
    BY <1>4, <1>7, OthersKept DEF EventInv
  <1> QED BY <1>0, <1>3, <1>6, <1>8 DEF EventInv

\* What a review adds to the audits of the copy.
LEMMA Reviews ==
    ASSUME EventInv, NEW c \in Call, Review(c)
    PROVE  /\ at[c] = "review" /\ Go(c, "release")
           /\ UNCHANGED <<log, content, registered, stored, released, second, fresh, view, moved, drafts,
                          made, faults, tampered, excused>>
           /\ \E audits \in Seq(Audits) :
                 /\ AuditedUpTo(audits, mem[c].seq + 1)
                 /\ mem' = [mem EXCEPT ![c] = [mem[c] EXCEPT !.audits = audits]]
  <1>0. mem[c] \in Ops /\ Own(c) /\ mem \in [Call -> Ops]
    BY DEF EventInv, OpsTypes
  <1>1. PICK forced \in BOOLEAN :
           mem' = [mem EXCEPT ![c] = Reviewed(mem[c], NextNumber(mem[c]), forced)]
    BY DEF Review, events
  <1>2. /\ at[c] = "review" /\ Go(c, "release")
        /\ UNCHANGED <<log, content, registered, stored, released, second, fresh, view, moved, drafts,
                       made, faults, tampered, excused>>
    BY DEF Review, events, store, history
  <1> DEFINE op == mem[c]
             next == NextNumber(op)
             e == [trigger |-> "steady-state", window |-> {next}]
             x == [trigger |-> "explicit", window |-> Window(op) \cup {next}]
             a == Append(op.audits, e)
             b == Append(a, x)
  <1>3. next = op.seq + WindowSize + 1 /\ op.seq \in Nat /\ next \in Nat
        /\ Window(op) \in SUBSET Nat
    <2>1. next \in Chapter /\ next = op.seq + WindowSize + 1 /\ op.seq \in Nat
      BY <1>2, Copies DEF Advancing, Writing
    <2>2. Window(op) \in SUBSET Nat
      BY <1>0, BufferTypes DEF Window, Ops
    <2> QED BY <2>1, <2>2 DEF Chapter
  <1>4. AuditedUpTo(op.audits, op.seq) /\ op.audits \in Seq(Audits)
    BY <1>0, <1>2 DEF Own, Shaped, Laid, Copying, Advancing, Writing, Ops
  <1>5. a \in Seq(Audits) /\ AuditedUpTo(a, op.seq + 1)
    <2>1. e \in Audits
      <3> HIDE DEF next
      <3> QED BY <1>3 DEF Audits, Trigger
    <2>2. next = WindowSize + op.seq + 1
      BY <1>3, Bounds
    <2>3. AuditedUpTo(a, op.seq + 1)
      <3> HIDE DEF next, op
      <3> QED BY <1>3, <1>4, <2>2, AuditsNext
    <2> HIDE DEF e
    <2> QED BY <1>4, <2>1, <2>3
  <1>6. b \in Seq(Audits) /\ AuditedUpTo(b, op.seq + 1)
    <2> HIDE DEF a, next, op
    <2>1. Window(op) \cup {next} \in SUBSET Nat /\ op.seq + 1 \in Nat
      BY <1>3
    <2>2. x \in Audits
      BY <2>1 DEF Audits, Trigger
    <2>3. b \in Seq(Audits)
      <3> HIDE DEF x
      <3> QED BY <1>5, <2>2
    <2> QED BY <1>5, <2>1, <2>3, AuditsOther
  <1>7. Reviewed(op, next, forced) = [op EXCEPT !.audits = IF forced THEN b ELSE a]
    BY <1>0 DEF Reviewed, Audited, Window, Ops
  <1> HIDE DEF e, x, a, b
  <1>8. (IF forced THEN b ELSE a) \in Seq(Audits) /\ AuditedUpTo(IF forced THEN b ELSE a, op.seq + 1)
    BY <1>5, <1>6
  <1>9. mem' = [mem EXCEPT ![c] = [op EXCEPT !.audits = IF forced THEN b ELSE a]]
    BY <1>1, <1>7
  <1> QED BY <1>2, <1>8, <1>9

LEMMA ReviewStep ==
    ASSUME EventInv, NEW c \in Call, Review(c)
    PROVE  EventInv'
  <1>0. OpsTypes /\ mem[c] \in Ops /\ Own(c) /\ Shaped(log)
    BY DEF EventInv, OpsTypes
  <1>1. /\ at[c] = "review" /\ Go(c, "release")
        /\ UNCHANGED <<log, content, registered, stored, released, second, fresh, view, moved, drafts,
                       made, faults, tampered, excused>>
    BY Reviews
  <1>2. PICK audits \in Seq(Audits) :
           /\ AuditedUpTo(audits, mem[c].seq + 1)
           /\ mem' = [mem EXCEPT ![c] = [mem[c] EXCEPT !.audits = audits]]
    BY Reviews
  <1>3. [mem[c] EXCEPT !.audits = audits] \in Ops
    BY <1>0 DEF Ops
  <1>4. /\ mem' \in [Call -> Ops] /\ mem'[c] = [mem[c] EXCEPT !.audits = audits]
        /\ \A d \in Call \ {c} : mem'[d] = mem[d]
    BY <1>0, <1>2, <1>3 DEF OpsTypes
  <1>5. /\ mem'[c].audits = audits /\ mem'[c].buffer = mem[c].buffer /\ mem'[c].seq = mem[c].seq
        /\ mem'[c].canon = mem[c].canon /\ mem'[c].confirmed = mem[c].confirmed
    BY <1>0, <1>4 DEF Ops
  <1>6. at' \in [Call -> Steps] /\ at'[c] = "release" /\ \A d \in Call \ {c} : at'[d] = at[d]
    BY <1>0, <1>1, Proceeds DEF Steps
  <1>7. OpsTypes'
    BY <1>0, <1>1, <1>4, <1>6 DEF OpsTypes
  <1>8. Own(c)'
    BY <1>0, <1>1, <1>2, <1>5, <1>6 DEF Own, Laid, Copying, Advancing, Writing, Late
  <1>9. \A d \in Call : Own(d)'
    BY <1>4, <1>6, <1>8, OthersKept DEF EventInv
  <1> QED BY <1>0, <1>1, <1>7, <1>9 DEF EventInv

\* A request goes from one step of the release to the next, with its copy.
LEMMA Releases ==
    ASSUME EventInv, NEW c \in Call, NEW step \in Late, at[c] \in Late,
           Go(c, step), UNCHANGED <<log, mem>>
    PROVE  at' \in [Call -> Steps] /\ at'[c] = step /\ \A d \in Call : Own(d)'
  <1>1. /\ at' \in [Call -> Steps] /\ at'[c] = step
        /\ \A d \in Call \ {c} : at'[d] = at[d] /\ mem'[d] = mem[d]
    BY Proceeds DEF EventInv, Late, Steps
  <1>2. Own(c)
    BY DEF EventInv
  <1>3. Own(c)'
    BY <1>1, <1>2 DEF Own, Copying, Advancing, Writing, Late
  <1>4. \A d \in Call : Own(d)'
    BY <1>1, <1>3, OthersKept DEF EventInv
  <1> QED BY <1>1, <1>4

LEMMA ReuseReleaseStep ==
    ASSUME EventInv, NEW c \in Call, ReuseRelease(c)
    PROVE  EventInv'
  <1>0. OpsTypes /\ Shaped(log)
    BY DEF EventInv
  <1>1. /\ at[c] = "release" /\ Go(c, "slide")
        /\ UNCHANGED <<log, content, registered, stored, released, second, mem, fresh, view, moved,
                       drafts, made, faults, tampered, excused>>
    BY DEF ReuseRelease, events, store, history
  <1>2. at' \in [Call -> Steps] /\ \A d \in Call : Own(d)'
    BY <1>1, Releases DEF Late
  <1>3. OpsTypes'
    BY <1>0, <1>1, <1>2 DEF OpsTypes
  <1> QED BY <1>0, <1>1, <1>2, <1>3 DEF EventInv

LEMMA RefusedStep ==
    ASSUME EventInv, NEW c \in Call, Refused(c)
    PROVE  EventInv'
  <1>0. OpsTypes /\ Shaped(log)
    BY DEF EventInv
  <1>1. /\ Close(c) /\ excused' = (excused \/ Stuck)
        /\ UNCHANGED <<log, content, registered, stored, released, second, moved, drafts, made,
                       faults, tampered>>
    BY DEF Refused, events, store
  <1>2. excused' \in BOOLEAN
    BY <1>1
  <1>3. OpsTypes'
    BY <1>0, <1>1, <1>2, Closes DEF OpsTypes
  <1> QED BY <1>0, <1>1, <1>3, Closes DEF EventInv

LEMMA RegisterVersionStep ==
    ASSUME EventInv, NEW c \in Call, RegisterVersion(c)
    PROVE  EventInv'
  <1>0. OpsTypes /\ Shaped(log)
    BY DEF EventInv
  <1> DEFINE n == Oldest(mem[c])
             fact == [bytes |-> AuditedHash(mem[c], n), second |-> second]
  <1>1. CASE /\ registered' = [registered EXCEPT ![n] = fact] /\ Go(c, "store")
             /\ UNCHANGED <<log, keys, content, stored, released, second>>
             /\ UNCHANGED <<mem, fresh, view, history>>
    <2>1. at[c] = "release"
      BY DEF RegisterVersion, events
    <2>2. at' \in [Call -> Steps] /\ \A d \in Call : Own(d)'
      BY <1>1, <2>1, Releases DEF Late
    <2>3. fact \in FactTypes
      BY <1>0, <2>1, Copies DEF OpsTypes, FactTypes, Advancing, Writing, Late
    <2> HIDE DEF fact, n
    <2>4. registered' \in [Chapter -> FactTypes]
      BY <1>0, <1>1, <2>3 DEF OpsTypes
    <2>5. OpsTypes'
      BY <1>0, <1>1, <2>2, <2>4 DEF OpsTypes, history
    <2> QED BY <1>0, <1>1, <2>2, <2>5 DEF EventInv
  <1>2. CASE Refused(c)
    BY <1>2, RefusedStep
  <1> QED BY <1>1, <1>2 DEF RegisterVersion, events

LEMMA StoreContentStep ==
    ASSUME EventInv, NEW c \in Call, StoreContent(c)
    PROVE  EventInv'
  <1>0. OpsTypes /\ Shaped(log)
    BY DEF EventInv
  <1>1. /\ at[c] = "store" /\ Go(c, "assemble")
        /\ stored' = [stored EXCEPT ![Oldest(mem[c])] = AuditedHash(mem[c], Oldest(mem[c]))]
        /\ UNCHANGED <<log, content, registered, released, second, mem, fresh, view, moved,
                       drafts, made, faults, tampered, excused>>
    BY DEF StoreContent, events, history
  <1>2. at' \in [Call -> Steps] /\ \A d \in Call : Own(d)'
    BY <1>1, Releases DEF Late
  <1>3. AuditedHash(mem[c], Oldest(mem[c])) \in Nat
    BY <1>1, Copies DEF Advancing, Writing, Late
  <1>4. stored' \in [Chapter -> Nat]
    BY <1>0, <1>1, <1>3 DEF OpsTypes
  <1>5. OpsTypes'
    BY <1>0, <1>1, <1>2, <1>4 DEF OpsTypes
  <1> QED BY <1>0, <1>1, <1>2, <1>5 DEF EventInv

LEMMA AssembleReleaseStep ==
    ASSUME EventInv, NEW c \in Call, AssembleRelease(c)
    PROVE  EventInv'
  <1>0. OpsTypes /\ Shaped(log)
    BY DEF EventInv
  <1>1. /\ at[c] = "assemble" /\ Go(c, "slide")
        /\ released' = [released EXCEPT ![Oldest(mem[c])] = stored[Oldest(mem[c])]]
        /\ UNCHANGED <<log, content, registered, stored, second, mem, fresh, view, moved,
                       drafts, made, faults, tampered, excused>>
    BY DEF AssembleRelease, events, history
  <1>2. at' \in [Call -> Steps] /\ \A d \in Call : Own(d)'
    BY <1>1, Releases DEF Late
  <1>3. stored[Oldest(mem[c])] \in Nat
    BY <1>0, <1>1, Copies DEF Advancing, Writing, Late, OpsTypes
  <1>4. released' \in [Chapter -> Nat]
    BY <1>0, <1>1, <1>3 DEF OpsTypes
  <1>5. OpsTypes'
    BY <1>0, <1>1, <1>2, <1>4 DEF OpsTypes
  <1> QED BY <1>0, <1>1, <1>2, <1>5 DEF EventInv

\* The operation an advance leaves behind.
Advanced(c) ==
    LET op == mem[c]
        slid == Slid(op.buffer, Oldest(op), NextNumber(op), fresh[c])
    IN  [op EXCEPT !.canon = Append(@, [chapter |-> Oldest(op), bytes |-> op.buffer[Oldest(op)]]),
                   !.buffer = slid, !.digest = DigestAfter(op, slid), !.seq = @ + 1,
                   !.phase = "rolling"]

LEMMA Slides ==
    ASSUME EventInv, NEW c \in Call, at[c] = "slide"
    PROVE  LET op == mem[c]
               new == Advanced(c)
               next == op.seq + WindowSize + 1
               entry == [chapter |-> op.seq + 1, bytes |-> op.buffer[op.seq + 1]]
           IN  /\ new \in Ops /\ new.seq = op.seq + 1 /\ new.phase # "none" /\ new.confirmed
               /\ new.canon = Append(op.canon, entry)
               /\ new.digest = new.buffer
               /\ DOMAIN new.buffer = (op.seq + 2)..next
               /\ \A n \in DOMAIN new.buffer :
                     new.buffer[n] = IF n = next THEN fresh[c] ELSE op.buffer[n]
               /\ \A n \in DOMAIN new.buffer : n # next => n \in DOMAIN op.buffer
               /\ new.audits = op.audits
  <1> DEFINE op == mem[c]
             oldest == Oldest(op)
             next == NextNumber(op)
             slid == Slid(op.buffer, oldest, next, fresh[c])
             entry == [chapter |-> oldest, bytes |-> op.buffer[oldest]]
             new == [op EXCEPT !.canon = Append(@, entry), !.buffer = slid,
                               !.digest = DigestAfter(op, slid), !.seq = @ + 1, !.phase = "rolling"]
  <1>2. Advanced(c) = new
    BY DEF Advanced
  <1>3. /\ op \in Ops /\ Laid(op) /\ op.confirmed /\ op.seq \in Nat
        /\ oldest = op.seq + 1 /\ next = op.seq + WindowSize + 1 /\ op.buffer[op.seq + 1] \in Nat
    BY Copies DEF Advancing, Writing, Late
  <1>4. DOMAIN op.buffer = (op.seq + 1)..(op.seq + WindowSize)
    BY <1>3 DEF Laid
  <1>5. fresh[c] \in Nat
    BY DEF EventInv, OpsTypes
  <1> HIDE DEF oldest, next, op
  <1>6. DOMAIN slid = (DOMAIN op.buffer \ {oldest}) \cup {next}
    BY DEF Slid
  <1>7. DOMAIN slid = (op.seq + 2)..(op.seq + WindowSize + 1)
    <2>1. ((op.seq + 1)..(op.seq + WindowSize) \ {op.seq + 1}) \cup {op.seq + WindowSize + 1}
            = (op.seq + 2)..(op.seq + WindowSize + 1)
      BY <1>3, Bounds
    <2> QED BY <1>3, <1>4, <1>6, <2>1
  <1>8. \A n \in DOMAIN slid : slid[n] = IF n = next THEN fresh[c] ELSE op.buffer[n]
    BY DEF Slid
  <1>9. \A n \in DOMAIN slid : n # next => n \in DOMAIN op.buffer
    <2> HIDE DEF slid
    <2> QED BY <1>6
  <1>10. slid \in Buffers
    <2>1. \A n \in DOMAIN slid : slid[n] \in Nat
      <3>1. \A n \in DOMAIN op.buffer : op.buffer[n] \in Nat
        BY <1>3, BufferTypes DEF Ops
      <3> HIDE DEF slid
      <3> QED BY <1>5, <1>8, <1>9, <3>1
    <2>2. slid = [n \in DOMAIN slid |-> slid[n]]
      BY DEF Slid
    <2>3. DOMAIN slid \subseteq Nat
      BY <1>3, <1>7, Bounds
    <2> HIDE DEF slid
    <2>4. slid \in [DOMAIN slid -> Nat]
      BY <2>1, <2>2
    <2> QED BY <2>3, <2>4 DEF Buffers
  <1>11. DigestAfter(op, slid) = slid
    BY DEF DigestAfter, DigestOf
  <1>12. entry \in Entries /\ entry = [chapter |-> op.seq + 1, bytes |-> op.buffer[op.seq + 1]]
    BY <1>3 DEF Entries
  <1> HIDE DEF slid, entry
  <1>13. Append(op.canon, entry) \in Seq(Entries) /\ op.seq + 1 \in Nat
    BY <1>3, <1>12 DEF Ops
  <1>14. new \in Ops
    BY <1>3, <1>10, <1>11, <1>13 DEF Ops
  <1>15. /\ new.seq = op.seq + 1 /\ new.phase = "rolling" /\ new.confirmed
         /\ new.canon = Append(op.canon, entry) /\ new.buffer = slid /\ new.digest = slid
         /\ new.audits = op.audits
    BY <1>3, <1>11 DEF Ops
  <1> HIDE DEF new
  <1> QED BY <1>2, <1>3, <1>7, <1>8, <1>9, <1>12, <1>14, <1>15 DEF op

LEMMA SlideBufferEvent ==
    ASSUME EventInv, NEW c \in Call, SlideBuffer(c)
    PROVE  EventInv'
  <1> DEFINE op == mem[c]
             new == Advanced(c)
             entry == [chapter |-> op.seq + 1, bytes |-> op.buffer[op.seq + 1]]
  <1>1. at[c] = "slide" /\ OpsTypes /\ Own(c) /\ Persist(c, AdvanceKey(op), new)
    BY DEF SlideBuffer, EventInv, Advanced
  <1>2. /\ AuditedUpTo(op.audits, op.seq + 1) /\ op.seq \in Nat /\ op.canon \in Seq(Entries)
        /\ Laid(op)
    BY <1>1 DEF Own, Advancing, Writing, Late, OpsTypes, Ops
  <1>3. /\ new \in Ops /\ new.seq = op.seq + 1 /\ new.phase # "none"
        /\ new.canon = Append(op.canon, entry) /\ new.digest = new.buffer
        /\ DOMAIN new.buffer = (op.seq + 2)..(op.seq + WindowSize + 1)
        /\ new.audits = op.audits
    BY <1>1, Slides
  <1>4. /\ Len(op.canon) = op.seq /\ \A i \in DOMAIN op.canon : op.canon[i].chapter = i
    BY <1>2 DEF Laid
  <1>5. entry.chapter = op.seq + 1
    OBVIOUS
  <1> HIDE DEF entry, op, new
  <1>6. /\ Len(new.canon) = new.seq
        /\ \A i \in DOMAIN new.canon : new.canon[i].chapter = i
    BY <1>2, <1>3, <1>4, <1>5
  <1>7. DOMAIN new.buffer = (new.seq + 1)..(new.seq + WindowSize)
    BY <1>2, <1>3, Bounds
  <1>8. new.buffer # << >>
    <2>1. op.seq + 2 \in DOMAIN new.buffer
      BY <1>2, <1>3, Bounds
    <2>2. DOMAIN << >> = {}
      OBVIOUS
    <2> QED BY <2>1, <2>2
  <1>9. Shaped(new)
    BY <1>2, <1>3, <1>6, <1>7, <1>8 DEF Shaped, Laid
  <1> QED BY <1>1, <1>3, <1>9, Persists

-----------------------------------------------------------------------------
LEMMA RequestStep ==
    ASSUME EventInv, NEW c \in Call, Request(c)
    PROVE  EventInv'
  <1>1. CASE RequestProposals(c)
    BY <1>1, Opens DEF RequestProposals, Steps
  <1>2. CASE SelectProposal(c)
    BY <1>2, Opens DEF SelectProposal, Steps
  <1>3. CASE InitializeBuffer(c)
    BY <1>3, Opens DEF InitializeBuffer, Steps
  <1>4. CASE ConfirmChapter1(c)
    BY <1>4, Opens DEF ConfirmChapter1, MayConfirm, Steps
  <1>5. CASE Advance(c)
    BY <1>5, Opens DEF Advance, MayAdvance, Steps
  <1> QED BY <1>1, <1>2, <1>3, <1>4, <1>5 DEF Request

\* A refused request leaves no trace.
LEMMA UnsuppliedStep ==
    ASSUME EventInv, NEW c \in Call, Unsupplied(c)
    PROVE  EventInv'
  <1>0. OpsTypes /\ Shaped(log)
    BY DEF EventInv
  <1>1. /\ Close(c)
        /\ UNCHANGED <<log, content, registered, stored, released, second, moved, drafts, made, faults,
                       tampered, excused>>
    BY DEF Unsupplied, events, store, history
  <1>2. OpsTypes'
    BY <1>0, <1>1, Closes DEF OpsTypes
  <1> QED BY <1>0, <1>1, <1>2, Closes DEF EventInv

LEMMA ServeStep ==
    ASSUME EventInv, NEW c \in Call, Serve(c)
    PROVE  EventInv'
  <1>1. CASE \/ Unsupplied(c) \/ Propose(c) \/ (\E p \in Choice : Select(c, p)) \/ Confirm(c)
             \/ FillBuffer(c) \/ AuditBuffer(c)
    BY <1>1, UnsuppliedStep, ProposeEvent, SelectEvent, ConfirmEvent, FillBufferStep, AuditBufferEvent
  <1>2. CASE WriteNext(c) \/ Review(c) \/ ReuseRelease(c) \/ RegisterVersion(c)
    BY <1>2, WriteNextStep, ReviewStep, ReuseReleaseStep, RegisterVersionStep
  <1>3. CASE StoreContent(c) \/ AssembleRelease(c) \/ SlideBuffer(c)
    BY <1>3, StoreContentStep, AssembleReleaseStep, SlideBufferEvent
  <1> QED BY <1>1, <1>2, <1>3 DEF Serve

LEMMA FailsStep ==
    ASSUME EventInv, NEW c \in Call, Fails(c)
    PROVE  EventInv'
  <1>0. OpsTypes /\ Shaped(log)
    BY DEF EventInv
  <1>1. /\ Close(c) /\ faults' = faults + 1
        /\ UNCHANGED <<log, content, registered, stored, released, second, moved, drafts, made,
                       tampered, excused>>
    BY DEF Fails, events, store
  <1>2. faults' \in Nat
    BY <1>0, <1>1 DEF OpsTypes
  <1>3. OpsTypes'
    BY <1>0, <1>1, <1>2, Closes DEF OpsTypes
  <1> QED BY <1>0, <1>1, <1>3, Closes DEF EventInv

LEMMA DiesStep ==
    ASSUME EventInv, Dies
    PROVE  EventInv'
  <1>0. OpsTypes /\ Shaped(log)
    BY DEF EventInv
  <1>1. AllGone /\ UNCHANGED <<log, content, registered, stored, released, second>>
    BY DEF Dies, events, store
  <1>2. OpsTypes'
    BY <1>0, <1>1, AllClose DEF OpsTypes
  <1> QED BY <1>0, <1>1, <1>2, AllClose DEF EventInv

\* What happens around the requests leaves the log and their copies alone.
LEMMA TamperStep ==
    ASSUME EventInv, NEW n \in Chapter, Tamper(n)
    PROVE  EventInv'
  <1>0. OpsTypes /\ Shaped(log)
    BY DEF EventInv
  <1>1. /\ faults' = faults + 1 /\ drafts' = drafts + 1
        /\ content' = [content EXCEPT ![n] = drafts + 1] /\ tampered' = tampered \cup {n}
        /\ UNCHANGED <<log, registered, stored, released, second, at, mem, fresh, view, moved, made,
                       excused>>
    BY DEF Tamper, events
  <1>2. faults' \in Nat /\ drafts' \in Nat /\ content' \in [Chapter -> Nat] /\ tampered' \subseteq Chapter
    BY <1>0, <1>1 DEF OpsTypes
  <1>3. OpsTypes'
    BY <1>0, <1>1, <1>2 DEF OpsTypes
  <1>4. \A d \in Call : Own(d)'
    BY <1>1 DEF EventInv, Own
  <1> QED BY <1>0, <1>1, <1>3, <1>4 DEF EventInv

LEMMA RestoreStep ==
    ASSUME EventInv, Restore
    PROVE  EventInv'
  <1>0. OpsTypes /\ Shaped(log)
    BY DEF EventInv
  <1>1. /\ faults' = faults + 1
        /\ registered' = [n \in Chapter |-> NoFact] /\ stored' = [n \in Chapter |-> None]
        /\ released' = [n \in Chapter |-> None] /\ moved' = Len(log.canon)
        /\ UNCHANGED <<log, content, second, at, mem, fresh, view, drafts, made, tampered, excused>>
    BY DEF Restore, events
  <1>2. NoFact \in FactTypes /\ None \in Nat /\ Len(log.canon) \in Nat /\ faults' \in Nat
    BY <1>0, <1>1 DEF OpsTypes, Ops, NoFact, FactTypes, None
  <1>3. /\ registered' \in [Chapter -> FactTypes] /\ stored' \in [Chapter -> Nat]
        /\ released' \in [Chapter -> Nat] /\ moved' \in Nat
    BY <1>1, <1>2
  <1>4. OpsTypes'
    BY <1>0, <1>1, <1>2, <1>3 DEF OpsTypes
  <1>5. \A d \in Call : Own(d)'
    BY <1>1 DEF EventInv, Own
  <1> QED BY <1>0, <1>1, <1>4, <1>5 DEF EventInv

LEMMA TickStep ==
    ASSUME EventInv, Tick
    PROVE  EventInv'
  <1>0. OpsTypes /\ Shaped(log)
    BY DEF EventInv
  <1>1. /\ second' = second + 1
        /\ UNCHANGED <<log, content, registered, stored, released, at, mem, fresh, view, moved, drafts,
                       made, faults, tampered, excused>>
    BY DEF Tick, events, store, history
  <1>2. second' \in Nat
    BY <1>0, <1>1 DEF OpsTypes
  <1>3. OpsTypes'
    BY <1>0, <1>1, <1>2 DEF OpsTypes
  <1>4. \A d \in Call : Own(d)'
    BY <1>1 DEF EventInv, Own
  <1> QED BY <1>0, <1>1, <1>3, <1>4 DEF EventInv

LEMMA EventStep == EventInv /\ [OperationsNext]_operationsVars => EventInv'
  <1> SUFFICES ASSUME EventInv, [OperationsNext]_operationsVars PROVE EventInv'
    OBVIOUS
  <1>1. CASE \E c \in Call : Request(c) \/ Serve(c) \/ ModelCallFails(c)
    BY <1>1, RequestStep, ServeStep, FailsStep DEF ModelCallFails
  <1>2. CASE \E n \in Chapter : Tamper(n)
    BY <1>2, TamperStep
  <1>3. CASE Tick \/ Dies \/ Restore
    BY <1>3, TickStep, DiesStep, RestoreStep
  <1>4. CASE UNCHANGED operationsVars
    <2>1. UNCHANGED <<log, content, registered, stored, released, second, at, mem, fresh, view, moved,
                      drafts, made, faults, tampered, excused>>
      BY <1>4 DEF operationsVars, events, store, history
    <2>2. \A d \in Call : Own(d)'
      BY <2>1 DEF EventInv, Own
    <2>3. OpsTypes'
      BY <2>1 DEF EventInv, OpsTypes
    <2> QED BY <2>1, <2>2, <2>3 DEF EventInv
  <1> QED BY <1>1, <1>2, <1>3, <1>4 DEF OperationsNext

LEMMA EventStart == OperationsInit => EventInv
  <1> SUFFICES ASSUME OperationsInit PROVE EventInv
    OBVIOUS
  <1>1. NoFact \in FactTypes /\ None \in Nat
    BY DEF NoFact, FactTypes, None
  <1>2. OpsTypes
    BY <1>1, OpsEmpty DEF OperationsInit, OpsTypes, Steps
  <1>3. \A c \in Call : Own(c)
    BY DEF OperationsInit, Own, Copying, Advancing, Writing, Late
  <1> QED BY <1>2, <1>3, OpsEmpty DEF OperationsInit, EventInv

\* However many requests are served at once, each on a copy of its own, every
\* event of the log is one whole operation: its buffer follows its canon, its
\* digest is the buffer's, and each of its chapters was audited once.
THEOREM EventsAreWholeHolds == OperationsSpec => []EventsAreWhole
  <1>1. EventInv => EventsAreWhole
    BY DEF EventInv, Shaped, Laid, EventsAreWhole, WindowFollowsCanon, AuditedOnce
  <1> QED BY <1>1, EventStart, EventStep, PTL DEF OperationsSpec

-----------------------------------------------------------------------------
(* The owner's confirmation comes first, however many requests are served at *)
(* once and whatever events they overwrite: a copy that is confirmed comes   *)
(* from an event that was, and only a confirmed copy releases.               *)
Asked == <<"confirm">> \in keys
ConfirmInv ==
    /\ log.confirmed => Asked
    /\ \A c \in Call : mem[c].confirmed => Asked
    /\ ConfirmedFirst

\* A step that makes no copy confirmed, and registers and releases nothing.
LEMMA ConfirmationKept ==
    ASSUME ConfirmInv, keys \subseteq keys',
           log'.confirmed => log.confirmed \/ Asked',
           \A c \in Call : mem'[c].confirmed => mem[c].confirmed \/ log.confirmed,
           \A n \in Chapter : registered'[n] \in {registered[n], NoFact}
                            /\ released'[n] \in {released[n], None}
    PROVE  ConfirmInv'
  BY DEF ConfirmInv, ConfirmedFirst, Asked

\* The copies of requests that end, and of processes that die.
LEMMA NoneConfirmed ==
    ASSUME EventInv, NEW c \in Call, Close(c) \/ AllGone
    PROVE  \A d \in Call : mem'[d].confirmed => mem[d].confirmed
  <1>1. ~NoOp.confirmed
    BY DEF NoOp
  <1>2. \A d \in Call : mem'[d] \in {mem[d], NoOp}
    BY DEF EventInv, OpsTypes, Close, AllGone
  <1> QED BY <1>1, <1>2

LEMMA ConfirmationPersists ==
    ASSUME EventInv, ConfirmInv, NEW c \in Call, NEW key, NEW op, Persist(c, key, op),
           op.confirmed => mem[c].confirmed \/ key = <<"confirm">>
    PROVE  ConfirmInv'
  <1>1. /\ (log' = log /\ keys' = keys) \/ (log' = op /\ keys' = keys \cup {key})
        /\ Close(c) \/ AllGone
        /\ UNCHANGED <<registered, released>>
    BY DEF Persist, Appended, HalfAppended, Recorded, Unreadable, store
  <1>2. log'.confirmed => log.confirmed \/ Asked'
    BY <1>1 DEF ConfirmInv, Asked
  <1> QED BY <1>1, <1>2, NoneConfirmed, ConfirmationKept

\* Handlers that write an event.
LEMMA ConfirmationWritten ==
    ASSUME EventInv, ConfirmInv, NEW c \in Call,
           \/ Propose(c) \/ (\E p \in Choice : Select(c, p)) \/ AuditBuffer(c)
           \/ Confirm(c) \/ SlideBuffer(c)
    PROVE  ConfirmInv'
  <1>1. mem[c] \in Ops
    BY DEF EventInv, OpsTypes
  <1>2. CASE Propose(c)
    BY <1>1, <1>2, ConfirmationPersists DEF Propose, Ops, NewOp, NoOp
  <1>3. CASE \E p \in Choice : Select(c, p)
    BY <1>1, <1>3, ConfirmationPersists DEF Select, Ops
  <1>4. CASE AuditBuffer(c)
    BY <1>1, <1>4, ConfirmationPersists DEF AuditBuffer, Audited, Ops
  <1>5. CASE Confirm(c)
    BY <1>5, ConfirmationPersists DEF Confirm
  <1>6. CASE SlideBuffer(c)
    BY <1>1, <1>6, ConfirmationPersists DEF SlideBuffer, Ops
  <1> QED BY <1>2, <1>3, <1>4, <1>5, <1>6

\* Handlers that work on their copy.
LEMMA ConfirmationCopied ==
    ASSUME EventInv, ConfirmInv, NEW c \in Call,
           FillBuffer(c) \/ WriteNext(c) \/ Review(c) \/ ReuseRelease(c) \/ StoreContent(c)
    PROVE  ConfirmInv'
  <1>1. mem[c] \in Ops /\ mem \in [Call -> Ops]
    BY DEF EventInv, OpsTypes
  <1>2. UNCHANGED <<log, keys, registered, released>>
    BY DEF FillBuffer, WriteNext, Produce, Review, ReuseRelease, StoreContent, events, store
  <1>3. \A d \in Call : mem'[d].confirmed => mem[d].confirmed
    <2>1. CASE FillBuffer(c)
      BY <1>1, <2>1 DEF FillBuffer, Ops
    <2>2. CASE Review(c)
      BY <1>1, <2>2 DEF Review, Reviewed, Audited, Ops
    <2>3. CASE WriteNext(c) \/ ReuseRelease(c) \/ StoreContent(c)
      BY <2>3 DEF WriteNext, ReuseRelease, StoreContent
    <2> QED BY <2>1, <2>2, <2>3
  <1> QED BY <1>2, <1>3, ConfirmationKept

\* Handlers that register and release: their copy is confirmed.
LEMMA ConfirmationNeeded ==
    ASSUME EventInv, ConfirmInv, NEW c \in Call, RegisterVersion(c) \/ AssembleRelease(c)
    PROVE  ConfirmInv'
  <1>1. mem[c].confirmed /\ Asked
    BY DEF RegisterVersion, AssembleRelease, EventInv, Own, Advancing, Writing, Late, ConfirmInv
  <1>2. UNCHANGED <<log, keys>>
    BY DEF RegisterVersion, AssembleRelease, Refused, events
  <1>3. \A d \in Call : mem'[d].confirmed => mem[d].confirmed
    BY NoneConfirmed DEF RegisterVersion, AssembleRelease, Refused
  <1> QED BY <1>1, <1>2, <1>3 DEF ConfirmInv, ConfirmedFirst, Asked

LEMMA ConfirmationStep == EventInv /\ ConfirmInv /\ [OperationsNext]_operationsVars => ConfirmInv'
  <1> SUFFICES ASSUME EventInv, ConfirmInv, [OperationsNext]_operationsVars PROVE ConfirmInv'
    OBVIOUS
  <1>1. ASSUME NEW c \in Call, Request(c) PROVE ConfirmInv'
    <2>1. \E step \in Steps : Open(c, step)
      BY <1>1 DEF Request, RequestProposals, SelectProposal, InitializeBuffer, ConfirmChapter1,
                 Advance, Steps
    <2>2. mem' = [mem EXCEPT ![c] = log] /\ UNCHANGED <<log, keys, registered, released>>
      BY <2>1 DEF Open, events, store
    <2>3. \A d \in Call : mem'[d].confirmed => mem[d].confirmed \/ log.confirmed
      BY <2>2 DEF EventInv, OpsTypes
    <2> QED BY <2>2, <2>3, ConfirmationKept
  <1>2. ASSUME NEW c \in Call, Fails(c) \/ Unsupplied(c) PROVE ConfirmInv'
    <2>1. Close(c) /\ UNCHANGED <<log, keys, registered, released>>
      BY <1>2 DEF Fails, Unsupplied, events, store
    <2> QED BY <2>1, NoneConfirmed, ConfirmationKept
  <1>3. ASSUME NEW c \in Call, Serve(c) PROVE ConfirmInv'
    BY <1>2, <1>3, ConfirmationWritten, ConfirmationCopied, ConfirmationNeeded DEF Serve
  <1>4. CASE \E n \in Chapter : Tamper(n)
    <2>1. UNCHANGED <<log, keys, registered, released, mem>>
      BY <1>4 DEF Tamper, events
    <2> QED BY <2>1, ConfirmationKept
  <1>5. CASE Tick \/ UNCHANGED operationsVars
    <2>1. UNCHANGED <<log, keys, registered, released, mem>>
      BY <1>5 DEF Tick, operationsVars, events, store
    <2> QED BY <2>1, ConfirmationKept
  <1>6. CASE Dies
    <2>1. UNCHANGED <<log, keys, registered, released>> /\ AllGone /\ \E c \in Call : TRUE
      BY <1>6 DEF Dies, events, store
    <2> QED BY <2>1, NoneConfirmed, ConfirmationKept
  <1>7. CASE Restore
    <2>1. /\ UNCHANGED <<log, keys, mem>> /\ registered' = [n \in Chapter |-> NoFact]
          /\ released' = [n \in Chapter |-> None]
      BY <1>7 DEF Restore, events
    <2> QED BY <2>1, ConfirmationKept
  <1> QED BY <1>1, <1>2, <1>3, <1>4, <1>5, <1>6, <1>7 DEF OperationsNext, ModelCallFails

LEMMA ConfirmationStart == OperationsInit => ConfirmInv
  BY DEF OperationsInit, ConfirmInv, ConfirmedFirst, NoOp

\* However many requests are served at once, each on a copy of its own, nothing
\* is registered or released before an owner's confirmation has its event.
THEOREM ConfirmedFirstHolds == OperationsSpec => []ConfirmedFirst
  <1>1. ConfirmInv => ConfirmedFirst
    BY DEF ConfirmInv
  <1> QED BY <1>1, EventStart, EventStep, ConfirmationStart, ConfirmationStep, PTL DEF OperationsSpec
=============================================================================
