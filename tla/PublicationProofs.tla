------------------------- MODULE PublicationProofs --------------------------
(***************************************************************************)
(* Proofs about Publication for every set of actions, candidates and       *)
(* leases, every cap, window and bound, and however many services share    *)
(* the root, each with the events it has read or appended itself.          *)
(***************************************************************************)
EXTENDS Publication, FiniteSetTheorems, TLAPS

Settled == {"shadow_accepted", "shadow_rejected", "blocked"}

\* Before the receipt of its action is written.
Working == {"call", "attempt", "checkpoint", "receipt"}

-----------------------------------------------------------------------------
\* TypeOK is inductive once an operation under way knows its action and, where
\* it comes to write a receipt, a verdict.
OperationIsMeant ==
    \A s \in Service :
        /\ op[s].step # "idle" => op[s].action \in Action
        /\ op[s].step = "receipt" => op[s].verdict \in Settled
        /\ op[s].step = "attempt" => op[s].verdict \in Settled \cup {"transient"}
TypeInv == TypeOK /\ OperationIsMeant

(***************************************************************************)
(* What a service has seen is on file.  In the file, and in what a service *)
(* has seen of it, an action has its candidate and a receipt its action;   *)
(* the operation of a service works on an action that, as far as the       *)
(* service has seen, was created and is open, and binds it when the file   *)
(* has it accepted.                                                        *)
(***************************************************************************)
Noted(events, kind, x, note) == \E i \in Of(events, kind, x) : events[i].note = note

SeenIsOnFile ==
    \A s \in Service : \A i \in DOMAIN seen[s] : \E j \in DOMAIN log : log[j] = seen[s][i]
ReceiptsFollow(events) ==
    \A a \in Action : Has(events, "action_receipt", a) => Has(events, "action_created", a)
CandidatesFirst ==
    \A a \in Action :
        Has(log, "action_created", a) => Has(log, "candidate_created", CandidateOf[a])
WorkIsGrounded(s) ==
    /\ op[s].step # "idle" => Has(seen[s], "action_created", op[s].action)
    /\ op[s].step \in Working => ~Has(seen[s], "action_receipt", op[s].action)
    /\ op[s].step = "bind" => Noted(log, "action_receipt", op[s].action, "shadow_accepted")
    /\ op[s].step = "call" => Ready(seen[s], CandidateOf[op[s].action])
GroundInv ==
    /\ SeenIsOnFile /\ ReceiptsFollow(log) /\ CandidatesFirst
    /\ \A s \in Service : ReceiptsFollow(seen[s]) /\ WorkIsGrounded(s)
    /\ \A a \in Action : calls[a] > 0 => Has(log, "action_created", a)
    /\ FactsAreGrounded

-----------------------------------------------------------------------------
\* Subsets of a finite set.
LEMMA Smaller ==
    ASSUME NEW S, IsFiniteSet(S), NEW T, T \subseteq S
    PROVE  /\ IsFiniteSet(T) /\ Cardinality(T) \in Nat /\ Cardinality(S) \in Nat
           /\ Cardinality(T) <= Cardinality(S)
  BY FS_Subset, FS_CardinalityType

\* A log and the log with one event more.
LEMMA Indices ==
    ASSUME NEW q \in Seq(EventSet)
    PROVE  /\ DOMAIN q \subseteq Nat /\ IsFiniteSet(DOMAIN q)
           /\ \A i \in DOMAIN q : q[i] \in EventSet
<1>1. Len(q) \in Nat /\ DOMAIN q = 1..Len(q)
  OBVIOUS
<1>2. IsFiniteSet(1..Len(q))
  BY <1>1, FS_Interval
<1>3. QED
  BY <1>1, <1>2

LEMMA Longer ==
    ASSUME NEW q \in Seq(EventSet), NEW e \in EventSet
    PROVE  /\ Append(q, e) \in Seq(EventSet)
           /\ DOMAIN Append(q, e) = DOMAIN q \cup {Len(q) + 1}
           /\ Len(q) + 1 \notin DOMAIN q
           /\ Append(q, e)[Len(q) + 1] = e
           /\ \A i \in DOMAIN q : Append(q, e)[i] = q[i]
  OBVIOUS

LEMMA OfLonger ==
    ASSUME NEW q \in Seq(EventSet), NEW e \in EventSet, NEW kind, NEW x
    PROVE  Of(Append(q, e), kind, x) =
             IF e.kind = kind /\ e.of = x THEN Of(q, kind, x) \cup {Len(q) + 1}
             ELSE Of(q, kind, x)
<1> DEFINE r == Append(q, e)
<1>1. /\ DOMAIN r = DOMAIN q \cup {Len(q) + 1}
      /\ r[Len(q) + 1] = e
      /\ \A i \in DOMAIN q : r[i] = q[i]
  BY Longer
<1> HIDE DEF r
<1>2. Of(r, kind, x) = IF e.kind = kind /\ e.of = x THEN Of(q, kind, x) \cup {Len(q) + 1}
                       ELSE Of(q, kind, x)
  BY <1>1 DEF Of
<1>3. QED
  BY <1>2 DEF r

LEMMA AttemptsType ==
    ASSUME NEW q \in Seq(EventSet), NEW a
    PROVE  IsFiniteSet(Of(q, "action_attempt", a)) /\ Attempts(q, a) \in Nat
<1>1. Of(q, "action_attempt", a) \subseteq DOMAIN q
  BY DEF Of
<1>2. QED
  BY <1>1, Indices, Smaller DEF Attempts

-----------------------------------------------------------------------------
\* The events are events.
LEMMA Events ==
    ASSUME TypeOK
    PROVE  /\ \A a \in Action, l \in Lease : Created(a, l) \in EventSet
           /\ \A a \in Action, n \in 0..MaxAttempts : Attempt(a, n) \in EventSet
           /\ \A a \in Action : Checkpoint(a) \in EventSet /\ ActionWithdrawn(a) \in EventSet
           /\ \A a \in Action, v \in Settled : Receipt(a, v) \in EventSet
           /\ \A c \in Candidate : /\ CandidateCreated(c) \in EventSet
                                   /\ CandidateWithdrawn(c) \in EventSet
  BY PublicationAssumption
     DEF TypeOK, Created, Attempt, Checkpoint, ActionWithdrawn, Receipt, CandidateCreated,
         CandidateWithdrawn, Event, EventSet, EventKind, Note, Settled

LEMMA PutType ==
    ASSUME TypeOK, NEW s \in Service, NEW e \in EventSet, Put(s, e)
    PROVE  log' \in Seq(EventSet) /\ seen' \in [Service -> Seq(EventSet)]
<1>1. CASE UNCHANGED <<log, seen>>
  BY <1>1 DEF TypeOK
<1>2. CASE log' = Append(log, e) /\ seen' = [seen EXCEPT ![s] = Append(seen[s], e)]
  <2>1. log \in Seq(EventSet) /\ seen[s] \in Seq(EventSet)
    BY DEF TypeOK
  <2>2. Append(log, e) \in Seq(EventSet) /\ Append(seen[s], e) \in Seq(EventSet)
    BY <2>1, Longer
  <2>3. QED
    BY <1>2, <2>2 DEF TypeOK
<1>3. QED
  BY <1>1, <1>2 DEF Put

LEMMA OperationType ==
    /\ Idle \in Operation
    /\ \A a \in Action : \A n \in 0..MaxAttempts :
          /\ Doing("call", a, n, "none") \in Operation
          /\ Doing("receipt", a, n, "blocked") \in Operation
<1>1. 0 \in 0..MaxAttempts
  BY PublicationAssumption
<1>2. QED
  BY <1>1 DEF Idle, Doing, Operation, Outcome

LEMMA TypeInit == Init => TypeInv
<1> SUFFICES ASSUME Init PROVE TypeInv
  OBVIOUS
<1>1. 0 \in 0..MaxClock /\ 0 \in 0..MaxCrashes
  BY PublicationAssumption
<1>2. log \in Seq(EventSet) /\ seen \in [Service -> Seq(EventSet)]
  BY DEF Init
<1>3. op \in [Service -> Operation]
  BY OperationType DEF Init
<1>4. TypeOK
  BY <1>1, <1>2, <1>3 DEF Init, TypeOK
<1>5. OperationIsMeant
  BY DEF Init, OperationIsMeant, Idle
<1>6. QED
  BY <1>4, <1>5 DEF TypeInv

\* A step of a service changes its own operation alone.
LEMMA Operates ==
    ASSUME TypeInv, NEW s \in Service, NEW w \in Operation,
           op' = [op EXCEPT ![s] = w],
           w.step # "idle" => w.action \in Action,
           w.step = "receipt" => w.verdict \in Settled,
           w.step = "attempt" => w.verdict \in Settled \cup {"transient"}
    PROVE  op' \in [Service -> Operation] /\ OperationIsMeant'
  BY DEF TypeInv, TypeOK, OperationIsMeant

LEMMA TypeNext == TypeInv /\ [Next]_vars => TypeInv'
<1> SUFFICES ASSUME TypeInv, [Next]_vars PROVE TypeInv'
  OBVIOUS
<1> USE DEF history
<1>t. TypeOK /\ OperationIsMeant
  BY DEF TypeInv
<1>o. \A t \in Service : op[t] \in Operation
  BY <1>t DEF TypeOK
<1>0. CASE UNCHANGED vars
  BY <1>0 DEF vars, TypeInv, TypeOK, OperationIsMeant
<1>1. CASE Tick
  <2>1. now' \in 0..MaxClock
    BY <1>t, <1>1, PublicationAssumption DEF Tick, TypeOK
  <2>2. QED
    BY <1>1, <2>1 DEF Tick, TypeInv, TypeOK, OperationIsMeant
\* An event of an operation that is over with it.
<1>e. ASSUME NEW s \in Service, NEW e \in EventSet, Put(s, e),
             UNCHANGED <<op, facts, now, history, crashes>>
      PROVE  TypeInv'
  <2>1. log' \in Seq(EventSet) /\ seen' \in [Service -> Seq(EventSet)]
    BY <1>t, <1>e, PutType
  <2>2. QED
    BY <1>e, <2>1 DEF TypeInv, TypeOK, OperationIsMeant
<1>2. ASSUME NEW s \in Service, NEW c \in Candidate,
             CreateCandidate(s, c) \/ WithdrawCandidate(s, c)
      PROVE  TypeInv'
  <2>1. PICK e \in EventSet : Put(s, e) /\ UNCHANGED <<op, facts, now, history, crashes>>
    BY <1>t, <1>2, Events DEF CreateCandidate, WithdrawCandidate
  <2>2. QED
    BY <1>e, <2>1
<1>3. ASSUME NEW s \in Service, NEW a \in Action, WithdrawAction(s, a) PROVE TypeInv'
  BY <1>t, <1>3, <1>e, Events DEF WithdrawAction
<1>4. ASSUME NEW s \in Service, NEW a \in Action, NEW l \in Lease,
             Dispatch(s, a, l) \/ DispatchBlocked(s, a, l)
      PROVE  TypeInv'
  <2>1. log' \in Seq(EventSet) /\ seen' \in [Service -> Seq(EventSet)]
    BY <1>t, <1>4, Events, PutType DEF Dispatch, DispatchBlocked
  <2>2. 0 \in 0..MaxAttempts /\ 1 \in 0..MaxAttempts
    BY PublicationAssumption
  <2>3. op' \in [Service -> Operation] /\ OperationIsMeant'
    <3>1. CASE Dispatch(s, a, l)
      BY <2>2, <3>1, Operates, OperationType DEF Dispatch, Doing
    <3>2. CASE DispatchBlocked(s, a, l)
      BY <2>2, <3>2, Operates, OperationType DEF DispatchBlocked, Doing, Settled
    <3>3. QED
      BY <1>4, <3>1, <3>2
  <2>4. QED
    BY <1>t, <1>4, <2>1, <2>3 DEF Dispatch, DispatchBlocked, TypeInv, TypeOK
<1>5. ASSUME NEW s \in Service, NEW a \in Action, NEW l \in Lease, Resume(s, a, l)
      PROVE  TypeInv'
  <2>1. Attempts(seen[s], a) \in Nat /\ Attempts(seen[s], a) + 1 <= MaxAttempts
    BY <1>t, <1>5, AttemptsType DEF Resume, MayRetry, TypeOK
  <2>2. Attempts(seen[s], a) + 1 \in 0..MaxAttempts /\ 0 \in 0..MaxAttempts
    BY <2>1, PublicationAssumption
  <2>3. op' \in [Service -> Operation] /\ OperationIsMeant'
    <3>1. CASE ValidOnResume(seen[s], a, l)
      BY <1>5, <2>2, <3>1, Operates, OperationType DEF Resume, Doing
    <3>2. CASE ~ValidOnResume(seen[s], a, l)
      BY <1>5, <2>2, <3>2, Operates, OperationType DEF Resume, Doing, Settled
    <3>3. QED
      BY <3>1, <3>2
  <2>4. QED
    BY <1>t, <1>5, <2>3 DEF Resume, TypeInv, TypeOK
<1>6. ASSUME NEW s \in Service, NEW verdict \in Outcome, Call(s, verdict) PROVE TypeInv'
  <2> DEFINE step == IF verdict = "blocked" THEN "receipt" ELSE "attempt"
             w == [op[s] EXCEPT !.step = step, !.verdict = verdict]
  <2>1. op' = [op EXCEPT ![s] = w] /\ step \in {"attempt", "receipt"}
    BY <1>6 DEF Call
  <2>s. (step = "receipt" <=> verdict = "blocked") /\ (step = "attempt" <=> verdict # "blocked")
    OBVIOUS
  <2> HIDE DEF step
  <2>2. w \in Operation /\ w.action = op[s].action /\ w.step = step /\ w.verdict = verdict
    BY <1>o, <2>1 DEF Operation, Outcome
  <2>3. op[s].action \in Action
    BY <1>t, <1>6 DEF Call, OperationIsMeant
  <2>5. verdict = "blocked" \/ verdict \in Settled \cup {"transient"}
    BY DEF Outcome, Settled
  <2> HIDE DEF w
  <2>6. op' \in [Service -> Operation] /\ OperationIsMeant'
    BY <2>1, <2>s, <2>2, <2>3, <2>5, Operates DEF Settled
  <2>7. calls' \in [Action -> Nat]
    <3>1. calls' = [calls EXCEPT ![op[s].action] = calls[op[s].action] + 1]
      BY <1>6 DEF Call
    <3>2. QED
      BY <1>t, <2>3, <3>1 DEF TypeOK
  <2>8. QED
    BY <1>t, <1>6, <2>6, <2>7 DEF Call, TypeInv, TypeOK
\* What a step of an operation writes, and where it goes on.
<1>w. ASSUME NEW s \in Service, NEW e \in EventSet, Put(s, e),
             NEW w \in Operation, op' = [op EXCEPT ![s] = w],
             w.step # "idle" => w.action \in Action,
             w.step = "receipt" => w.verdict \in Settled,
             w.step # "attempt",
             UNCHANGED <<facts, now, history, crashes>>
      PROVE  TypeInv'
  <2>1. log' \in Seq(EventSet) /\ seen' \in [Service -> Seq(EventSet)]
    BY <1>t, <1>w, PutType
  <2>2. op' \in [Service -> Operation] /\ OperationIsMeant'
    BY <1>w, Operates
  <2>3. QED
    BY <1>t, <1>w, <2>1, <2>2 DEF TypeInv, TypeOK
<1>7. ASSUME NEW s \in Service, RecordAttempt(s) PROVE TypeInv'
  <2> DEFINE step == IF op[s].verdict = "transient" THEN "checkpoint" ELSE "receipt"
             w == [op[s] EXCEPT !.step = step]
  <2>1. op' = [op EXCEPT ![s] = w] /\ step \in {"checkpoint", "receipt"}
    BY <1>7 DEF RecordAttempt, Continue
  <2>s. step = "receipt" <=> op[s].verdict # "transient"
    OBVIOUS
  <2> HIDE DEF step
  <2>2. w \in Operation /\ w.action = op[s].action /\ w.step = step /\ w.verdict = op[s].verdict
    BY <1>o, <2>1 DEF Operation, Outcome
  <2>3. op[s].action \in Action /\ op[s].no \in 0..MaxAttempts
        /\ op[s].verdict \in Settled \cup {"transient"}
    BY <1>t, <1>o, <1>7 DEF RecordAttempt, OperationIsMeant, Operation
  <2>4. Attempt(op[s].action, op[s].no) \in EventSet
    BY <1>t, <2>3, Events
  <2> HIDE DEF w
  <2>5. QED
    BY <1>7, <1>w, <2>1, <2>s, <2>2, <2>3, <2>4 DEF RecordAttempt
<1>8. ASSUME NEW s \in Service, RecordCheckpoint(s) PROVE TypeInv'
  <2>1. op[s].action \in Action
    BY <1>t, <1>8 DEF RecordCheckpoint, OperationIsMeant
  <2>2. Idle.step = "idle" /\ Idle \in Operation /\ op' = [op EXCEPT ![s] = Idle]
    BY <1>8, OperationType DEF Idle, RecordCheckpoint, Return
  <2>3. Checkpoint(op[s].action) \in EventSet
    BY <1>t, <2>1, Events
  <2>4. QED
    BY <1>8, <1>w, <2>2, <2>3 DEF RecordCheckpoint
<1>9. ASSUME NEW s \in Service, RecordReceipt(s) PROVE TypeInv'
  <2>1. op[s].action \in Action /\ op[s].verdict \in Settled
    BY <1>t, <1>9 DEF RecordReceipt, OperationIsMeant
  <2>2. Receipt(op[s].action, op[s].verdict) \in EventSet
    BY <1>t, <2>1, Events
  <2>3. CASE op[s].verdict = "shadow_accepted"
    <3> DEFINE w == [op[s] EXCEPT !.step = "bind"]
    <3>1. op' = [op EXCEPT ![s] = w]
      BY <1>9, <2>3 DEF RecordReceipt, Continue
    <3>2. w \in Operation /\ w.action = op[s].action /\ w.step = "bind"
      BY <1>o DEF Operation, Outcome
    <3> HIDE DEF w
    <3>3. QED
      BY <1>9, <1>w, <2>1, <2>2, <3>1, <3>2 DEF RecordReceipt
  <2>4. CASE op[s].verdict # "shadow_accepted"
    <3>1. Idle.step = "idle" /\ Idle \in Operation /\ op' = [op EXCEPT ![s] = Idle]
      BY <1>9, <2>4, OperationType DEF Idle, RecordReceipt, Return
    <3>2. QED
      BY <1>9, <1>w, <2>2, <3>1 DEF RecordReceipt
  <2>5. QED
    BY <2>3, <2>4
<1>10. ASSUME NEW s \in Service, BindEconomicPlatform(s) PROVE TypeInv'
  <2>1. op[s].action \in Action
    BY <1>t, <1>10 DEF BindEconomicPlatform, OperationIsMeant
  <2>2. Idle.step = "idle" /\ op' = [op EXCEPT ![s] = Idle]
    BY <1>10 DEF Idle, BindEconomicPlatform, Return
  <2>3. op' \in [Service -> Operation] /\ OperationIsMeant'
    BY <2>2, Operates, OperationType
  <2>4. QED
    BY <1>t, <1>10, <2>1, <2>3 DEF BindEconomicPlatform, TypeInv, TypeOK
<1>11. ASSUME NEW s \in Service, Open(s) PROVE TypeInv'
  <2>1. Idle.step = "idle" /\ op' = [op EXCEPT ![s] = Idle]
    BY <1>11 DEF Idle, Open, Return
  <2>2. op' \in [Service -> Operation] /\ OperationIsMeant'
    BY <2>1, Operates, OperationType
  <2>3. crashes' \in 0..MaxCrashes
    BY <1>t, <1>11, PublicationAssumption DEF Open, TypeOK
  <2>4. seen' \in [Service -> Seq(EventSet)]
    BY <1>t, <1>11 DEF Open, TypeOK
  <2>5. QED
    BY <1>t, <1>11, <2>2, <2>3, <2>4 DEF Open, TypeInv, TypeOK
<1>12. ASSUME NEW s \in Service, ServiceStep(s) PROVE TypeInv'
  BY <1>12, <1>2, <1>3, <1>4, <1>5, <1>6, <1>7, <1>8, <1>9, <1>10, <1>11 DEF ServiceStep
<1>13. QED
  BY <1>0, <1>1, <1>12 DEF Next

\* Every value the program keeps is one it can keep: attempts are numbered
\* within their budget and events are of the kinds publication.py writes,
\* however many services share the root.
THEOREM PublicationTypes == Spec => []TypeOK
<1>1. TypeInv => TypeOK
  BY DEF TypeInv
<1>2. QED
  BY TypeInit, TypeNext, <1>1, PTL DEF Spec

-----------------------------------------------------------------------------
\* What a longer log has.
LEMMA HasLonger ==
    ASSUME NEW q \in Seq(EventSet), NEW e \in EventSet
    PROVE  LET r == Append(q, e)
           IN  /\ \A kind, x : Has(r, kind, x) <=> Has(q, kind, x) \/ (kind = e.kind /\ x = e.of)
               /\ \A kind, x, note : Noted(q, kind, x, note) => Noted(r, kind, x, note)
               /\ Noted(r, e.kind, e.of, e.note)
<1> DEFINE r == Append(q, e)
<1>1. \A kind, x : Of(r, kind, x) = IF e.kind = kind /\ e.of = x THEN Of(q, kind, x) \cup {Len(q) + 1}
                                   ELSE Of(q, kind, x)
  BY OfLonger
<1>2. r[Len(q) + 1] = e /\ \A i \in DOMAIN q : r[i] = q[i]
  BY Longer
<1>3. \A kind, x : Of(q, kind, x) \subseteq DOMAIN q
  BY DEF Of
<1> HIDE DEF r
<1>4. \A kind, x : Has(r, kind, x) <=> Has(q, kind, x) \/ (kind = e.kind /\ x = e.of)
  BY <1>1 DEF Has
<1>5. \A kind, x, note : Noted(q, kind, x, note) => Noted(r, kind, x, note)
  BY <1>1, <1>2, <1>3 DEF Noted
<1>6. Noted(r, e.kind, e.of, e.note)
  BY <1>1, <1>2 DEF Noted
<1>7. QED
  BY <1>4, <1>5, <1>6 DEF r

LEMMA SeenOnFile ==
    ASSUME SeenIsOnFile, NEW s \in Service, NEW kind, NEW x, Has(seen[s], kind, x)
    PROVE  Has(log, kind, x)
  BY DEF SeenIsOnFile, Has, Of

\* An event is appended to the file unless the service has seen its key; the file
\* has it either way.
LEMMA Recorded ==
    ASSUME TypeOK, SeenIsOnFile, NEW s \in Service, NEW e \in EventSet, Put(s, e)
    PROVE  /\ SeenIsOnFile'
           /\ \A kind, x : Has(log', kind, x) <=> Has(log, kind, x) \/ (kind = e.kind /\ x = e.of)
           /\ \A kind, x : Has(seen'[s], kind, x) <=> Has(seen[s], kind, x) \/ (kind = e.kind /\ x = e.of)
           /\ \A t \in Service \ {s} : seen'[t] = seen[t]
           /\ \A kind, x, note : Noted(log, kind, x, note) => Noted(log', kind, x, note)
           /\ ~Has(seen[s], e.kind, e.of) => Noted(log', e.kind, e.of, e.note)
<1>t. log \in Seq(EventSet) /\ seen \in [Service -> Seq(EventSet)]
  BY DEF TypeOK
<1>1. CASE \E i \in DOMAIN seen[s] : Key(seen[s][i]) = Key(e)
  <2>1. UNCHANGED <<log, seen>>
    BY <1>1 DEF Put
  <2>2. Has(seen[s], e.kind, e.of)
    BY <1>1 DEF Key, Has, Of
  <2>3. Has(log, e.kind, e.of)
    BY <2>2, SeenOnFile
  <2>4. QED
    BY <2>1, <2>2, <2>3 DEF SeenIsOnFile
<1>2. CASE ~\E i \in DOMAIN seen[s] : Key(seen[s][i]) = Key(e)
  <2>1. log' = Append(log, e) /\ seen' = [seen EXCEPT ![s] = Append(seen[s], e)]
    BY <1>2 DEF Put
  <2>2. seen'[s] = Append(seen[s], e) /\ \A t \in Service \ {s} : seen'[t] = seen[t]
    BY <1>t, <2>1
  <2>3. /\ DOMAIN log' = DOMAIN log \cup {Len(log) + 1} /\ log'[Len(log) + 1] = e
        /\ \A i \in DOMAIN log : log'[i] = log[i]
    BY <1>t, <2>1, Longer
  <2>4. /\ DOMAIN seen'[s] = DOMAIN seen[s] \cup {Len(seen[s]) + 1}
        /\ seen'[s][Len(seen[s]) + 1] = e
        /\ \A i \in DOMAIN seen[s] : seen'[s][i] = seen[s][i]
    BY <1>t, <2>2, Longer
  <2>5. SeenIsOnFile'
    <3> SUFFICES ASSUME NEW t \in Service, NEW i \in DOMAIN seen'[t]
                 PROVE  \E j \in DOMAIN log' : log'[j] = seen'[t][i]
      BY DEF SeenIsOnFile
    <3>1. CASE t = s /\ i = Len(seen[s]) + 1
      BY <2>3, <2>4, <3>1
    <3>2. CASE ~(t = s /\ i = Len(seen[s]) + 1)
      <4>1. i \in DOMAIN seen[t] /\ seen'[t][i] = seen[t][i]
        BY <2>2, <2>4, <3>2
      <4>2. QED
        BY <2>3, <4>1 DEF SeenIsOnFile
    <3>3. QED
      BY <3>1, <3>2
  <2>6. QED
    BY <1>t, <2>1, <2>2, <2>5, HasLonger
<1>3. QED
  BY <1>1, <1>2

\* The operation of a service is not touched by what others append.
LEMMA OthersGrounded ==
    ASSUME NEW t \in Service, WorkIsGrounded(t), ReceiptsFollow(seen[t]),
           seen'[t] = seen[t], op'[t] = op[t],
           \A kind, x, note : Noted(log, kind, x, note) => Noted(log', kind, x, note)
    PROVE  WorkIsGrounded(t)' /\ ReceiptsFollow(seen[t])'
  BY DEF WorkIsGrounded, ReceiptsFollow

\* A step that appends an event.
LEMMA Writes ==
    ASSUME TypeOK, GroundInv, NEW s \in Service, NEW e \in EventSet, Put(s, e),
           e.kind = "action_receipt" => Has(seen[s], "action_created", e.of),
           e.kind = "action_created" =>
              \A a \in Action : a = e.of => Ready(seen[s], CandidateOf[a]),
           \A t \in Service \ {s} : op'[t] = op[t],
           WorkIsGrounded(s)',
           UNCHANGED <<facts, calls>>
    PROVE  GroundInv'
<1>1. /\ SeenIsOnFile /\ ReceiptsFollow(log) /\ CandidatesFirst /\ FactsAreGrounded
      /\ \A t \in Service : ReceiptsFollow(seen[t]) /\ WorkIsGrounded(t)
      /\ \A a \in Action : calls[a] > 0 => Has(log, "action_created", a)
  BY DEF GroundInv
<1>2. /\ SeenIsOnFile'
      /\ \A kind, x : Has(log', kind, x) <=> Has(log, kind, x) \/ (kind = e.kind /\ x = e.of)
      /\ \A kind, x : Has(seen'[s], kind, x) <=> Has(seen[s], kind, x) \/ (kind = e.kind /\ x = e.of)
      /\ \A t \in Service \ {s} : seen'[t] = seen[t]
      /\ \A kind, x, note : Noted(log, kind, x, note) => Noted(log', kind, x, note)
  BY <1>1, Recorded
<1>3. ReceiptsFollow(log)'
  <2>1. e.kind = "action_receipt" => Has(log, "action_created", e.of)
    BY <1>1, SeenOnFile
  <2>2. QED
    BY <1>1, <1>2, <2>1 DEF ReceiptsFollow
<1>4. ReceiptsFollow(seen[s])'
  BY <1>1, <1>2 DEF ReceiptsFollow
<1>5. CandidatesFirst'
  <2>1. e.kind = "action_created" =>
           \A a \in Action : a = e.of => Has(log, "candidate_created", CandidateOf[a])
    BY <1>1, SeenOnFile DEF Ready
  <2>2. QED
    BY <1>1, <1>2, <2>1 DEF CandidatesFirst
<1>6. \A t \in Service : ReceiptsFollow(seen[t])' /\ WorkIsGrounded(t)'
  BY <1>1, <1>2, <1>4, OthersGrounded
<1>7. FactsAreGrounded'
  <2>1. \A a \in facts : Noted(log, "action_receipt", a, "shadow_accepted")
    BY <1>1 DEF FactsAreGrounded, Noted
  <2>2. \A a \in facts' : Noted(log', "action_receipt", a, "shadow_accepted")
    BY <1>2, <2>1
  <2>3. QED
    BY <2>2 DEF FactsAreGrounded, Noted
<1>8. \A a \in Action : calls'[a] > 0 => Has(log', "action_created", a)
  BY <1>1, <1>2
<1>9. QED
  BY <1>2, <1>3, <1>5, <1>6, <1>7, <1>8 DEF GroundInv

LEMMA GroundInit == Init => GroundInv
<1> SUFFICES ASSUME Init PROVE GroundInv
  OBVIOUS
<1>1. /\ log = << >> /\ \A s \in Service : seen[s] = << >> /\ op[s].step = "idle"
      /\ \A a \in Action : ~(calls[a] > 0)
      /\ facts = {}
  BY DEF Init, Idle
<1>2. \A kind, x : ~Has(<< >>, kind, x)
  BY DEF Has, Of
<1>3. QED
  BY <1>1, <1>2
     DEF GroundInv, SeenIsOnFile, ReceiptsFollow, CandidatesFirst, WorkIsGrounded, Working, FactsAreGrounded

LEMMA GroundNext == TypeInv /\ GroundInv /\ [Next]_vars => GroundInv'
<1> SUFFICES ASSUME TypeInv, GroundInv, [Next]_vars PROVE GroundInv'
  OBVIOUS
<1> USE DEF history
<1>t. TypeOK /\ OperationIsMeant /\ op \in [Service -> Operation]
  BY DEF TypeInv, TypeOK
<1>g. /\ SeenIsOnFile /\ ReceiptsFollow(log) /\ CandidatesFirst /\ FactsAreGrounded
      /\ \A t \in Service : ReceiptsFollow(seen[t]) /\ WorkIsGrounded(t)
      /\ \A a \in Action : calls[a] > 0 => Has(log, "action_created", a)
  BY DEF GroundInv
<1>0. CASE UNCHANGED vars \/ Tick
  <2>1. UNCHANGED <<log, seen, op, facts, calls>>
    BY <1>0 DEF vars, Tick
  <2>2. QED
    BY <1>g, <2>1 DEF GroundInv, SeenIsOnFile, ReceiptsFollow, CandidatesFirst, WorkIsGrounded,
                      FactsAreGrounded, Noted
<1>1. ASSUME NEW s \in Service, NEW c \in Candidate,
             CreateCandidate(s, c) \/ WithdrawCandidate(s, c)
      PROVE  GroundInv'
  <2>1. PICK e \in EventSet : Put(s, e) /\ e.kind \in {"candidate_created", "candidate_withdrawn"}
    BY <1>t, <1>1, Events DEF CreateCandidate, WithdrawCandidate, CandidateCreated, CandidateWithdrawn, Event
  <2>2. op[s].step = "idle" /\ UNCHANGED <<op, facts, calls>>
    BY <1>1 DEF CreateCandidate, WithdrawCandidate, Free, Idle
  <2>3. WorkIsGrounded(s)'
    BY <2>2 DEF WorkIsGrounded, Working
  <2>4. QED
    BY <1>t, <2>1, <2>2, <2>3, Writes
<1>2. ASSUME NEW s \in Service, NEW a \in Action, WithdrawAction(s, a) PROVE GroundInv'
  <2>1. /\ Put(s, ActionWithdrawn(a)) /\ op[s].step = "idle" /\ UNCHANGED <<op, facts, calls>>
        /\ ActionWithdrawn(a) \in EventSet /\ ActionWithdrawn(a).kind = "action_withdrawn"
    BY <1>t, <1>2, Events DEF WithdrawAction, Free, Idle, ActionWithdrawn, Event
  <2>2. WorkIsGrounded(s)'
    BY <2>1 DEF WorkIsGrounded, Working
  <2>3. QED
    BY <1>t, <2>1, <2>2, Writes
<1>3. ASSUME NEW s \in Service, NEW a \in Action, NEW l \in Lease,
             Dispatch(s, a, l) \/ DispatchBlocked(s, a, l)
      PROVE  GroundInv'
  <2>1. /\ Put(s, Created(a, l)) /\ Created(a, l) \in EventSet
        /\ Created(a, l).kind = "action_created" /\ Created(a, l).of = a
        /\ Ready(seen[s], CandidateOf[a]) /\ ~Has(seen[s], "action_created", a)
        /\ UNCHANGED <<facts, calls>>
    BY <1>t, <1>3, Events DEF Dispatch, DispatchBlocked, New, Created, Event
  <2>2. /\ \A t \in Service \ {s} : op'[t] = op[t]
        /\ op'[s].step \in {"call", "receipt"} /\ op'[s].action = a
    BY <1>t, <1>3 DEF Dispatch, DispatchBlocked, Doing
  <2>3. /\ Has(seen'[s], "action_created", a) /\ ~Has(seen'[s], "action_receipt", a)
        /\ Ready(seen'[s], CandidateOf[a])
    BY <1>t, <1>g, <2>1, Recorded DEF ReceiptsFollow, Ready
  <2>4. WorkIsGrounded(s)'
    BY <2>2, <2>3 DEF WorkIsGrounded
  <2>5. QED
    BY <1>t, <2>1, <2>2, <2>4, Writes
\* Steps that append nothing.
<1>4. ASSUME NEW s \in Service, UNCHANGED <<log, seen>>,
             \A t \in Service \ {s} : op'[t] = op[t], WorkIsGrounded(s)',
             FactsAreGrounded', \A a \in Action : calls'[a] > 0 => Has(log, "action_created", a)
      PROVE  GroundInv'
  <2>1. \A t \in Service : ReceiptsFollow(seen[t])' /\ WorkIsGrounded(t)'
    BY <1>g, <1>4, OthersGrounded DEF ReceiptsFollow
  <2>2. SeenIsOnFile' /\ ReceiptsFollow(log)' /\ CandidatesFirst'
    BY <1>g, <1>4 DEF SeenIsOnFile, ReceiptsFollow, CandidatesFirst
  <2>3. QED
    BY <1>4, <2>1, <2>2 DEF GroundInv
<1>5. ASSUME NEW s \in Service, NEW a \in Action, NEW l \in Lease, Resume(s, a, l)
      PROVE  GroundInv'
  <2>1. /\ UNCHANGED <<log, seen, facts, calls>> /\ \A t \in Service \ {s} : op'[t] = op[t]
        /\ op'[s].step \in {"call", "receipt"} /\ op'[s].action = a
        /\ op'[s].step = "call" => Ready(seen[s], CandidateOf[a])
        /\ Has(seen[s], "action_created", a) /\ ~Has(seen[s], "action_receipt", a)
    BY <1>t, <1>5 DEF Resume, Doing, ValidOnResume, Valid
  <2>2. WorkIsGrounded(s)'
    BY <2>1 DEF WorkIsGrounded
  <2>3. FactsAreGrounded'
    BY <1>g, <2>1 DEF FactsAreGrounded
  <2>4. QED
    BY <1>g, <1>4, <2>1, <2>2, <2>3
<1>6. ASSUME NEW s \in Service, NEW verdict \in Outcome, Call(s, verdict) PROVE GroundInv'
  <2>1. /\ op[s].step = "call" /\ op[s].action \in Action
        /\ calls' = [calls EXCEPT ![op[s].action] = @ + 1]
        /\ UNCHANGED <<log, seen, facts>> /\ \A t \in Service \ {s} : op'[t] = op[t]
    BY <1>t, <1>6 DEF Call, OperationIsMeant
  <2>2. op'[s].step \in {"receipt", "attempt"} /\ op'[s].action = op[s].action
    BY <1>t, <1>6 DEF Call, Operation
  <2>3. Has(seen[s], "action_created", op[s].action) /\ ~Has(seen[s], "action_receipt", op[s].action)
    BY <1>g, <2>1 DEF WorkIsGrounded, Working
  <2>4. WorkIsGrounded(s)'
    BY <2>1, <2>2, <2>3 DEF WorkIsGrounded
  <2>5. \A a \in Action : calls'[a] > 0 => Has(log, "action_created", a)
    <3>1. Has(log, "action_created", op[s].action)
      BY <1>g, <2>3, SeenOnFile
    <3>2. \A a \in Action : a # op[s].action => calls'[a] = calls[a]
      BY <1>t, <2>1 DEF TypeOK
    <3>3. QED
      BY <1>g, <3>1, <3>2
  <2>6. FactsAreGrounded'
    BY <1>g, <2>1 DEF FactsAreGrounded
  <2>7. QED
    BY <1>4, <2>1, <2>4, <2>5, <2>6
<1>7. ASSUME NEW s \in Service, RecordAttempt(s) \/ RecordCheckpoint(s) PROVE GroundInv'
  <2>1. op[s].step \in Working /\ op[s].step # "idle" /\ op[s].action \in Action /\ op[s].no \in 0..MaxAttempts
    BY <1>t, <1>7 DEF RecordAttempt, RecordCheckpoint, Working, OperationIsMeant, Operation
  <2>2. PICK e \in EventSet : Put(s, e) /\ e.kind \in {"action_attempt", "action_checkpoint"}
    BY <1>t, <1>7, <2>1, Events DEF RecordAttempt, RecordCheckpoint, Attempt, Checkpoint, Event
  <2>3. /\ UNCHANGED <<facts, calls>> /\ \A t \in Service \ {s} : op'[t] = op[t]
        /\ \/ op'[s].step = "idle"
           \/ op'[s].step \in {"checkpoint", "receipt"} /\ op'[s].action = op[s].action
    BY <1>t, <1>7 DEF RecordAttempt, RecordCheckpoint, Continue, Return, Idle, Operation
  <2>4. Has(seen'[s], "action_created", op[s].action) /\ ~Has(seen'[s], "action_receipt", op[s].action)
    BY <1>t, <1>g, <2>1, <2>2, Recorded DEF WorkIsGrounded
  <2>5. WorkIsGrounded(s)'
    BY <2>3, <2>4 DEF WorkIsGrounded, Working
  <2>6. QED
    BY <1>t, <2>2, <2>3, <2>5, Writes
<1>8. ASSUME NEW s \in Service, RecordReceipt(s) PROVE GroundInv'
  <2> DEFINE e == Receipt(op[s].action, op[s].verdict)
  <2>1. /\ op[s].step = "receipt" /\ op[s].action \in Action /\ op[s].verdict \in Settled
        /\ Put(s, e) /\ UNCHANGED <<facts, calls>>
    BY <1>t, <1>8 DEF RecordReceipt, OperationIsMeant
  <2>2. /\ e \in EventSet /\ e.kind = "action_receipt" /\ e.of = op[s].action
        /\ e.note = op[s].verdict
    BY <1>t, <2>1, Events DEF Receipt, Event
  <2> HIDE DEF e
  <2>3. Has(seen[s], "action_created", op[s].action) /\ ~Has(seen[s], "action_receipt", op[s].action)
    BY <1>g, <2>1 DEF WorkIsGrounded, Working
  <2>4. /\ Noted(log', "action_receipt", op[s].action, op[s].verdict)
        /\ Has(seen'[s], "action_created", op[s].action)
    BY <1>t, <1>g, <2>1, <2>2, <2>3, Recorded
  <2>5. /\ \A t \in Service \ {s} : op'[t] = op[t]
        /\ \/ op'[s].step = "idle"
           \/ op'[s].step = "bind" /\ op'[s].action = op[s].action
                 /\ op[s].verdict = "shadow_accepted"
    BY <1>t, <1>8 DEF RecordReceipt, Continue, Return, Idle, Operation
  <2>6. WorkIsGrounded(s)'
    BY <2>4, <2>5 DEF WorkIsGrounded, Working
  <2>7. QED
    BY <1>t, <2>1, <2>2, <2>3, <2>5, <2>6, Writes
<1>9. ASSUME NEW s \in Service, BindEconomicPlatform(s) PROVE GroundInv'
  <2>1. /\ op[s].step = "bind" /\ facts' = facts \cup {op[s].action}
        /\ UNCHANGED <<log, seen, calls>> /\ op'[s].step = "idle"
        /\ \A t \in Service \ {s} : op'[t] = op[t]
    BY <1>t, <1>9 DEF BindEconomicPlatform, Return, Idle
  <2>2. FactsAreGrounded'
    BY <1>g, <2>1 DEF FactsAreGrounded, WorkIsGrounded, Noted
  <2>3. WorkIsGrounded(s)'
    BY <2>1 DEF WorkIsGrounded, Working
  <2>4. QED
    BY <1>g, <1>4, <2>1, <2>2, <2>3
<1>10. ASSUME NEW s \in Service, Open(s) PROVE GroundInv'
  <2>1. /\ UNCHANGED <<log, facts, calls>> /\ seen' = [seen EXCEPT ![s] = log]
        /\ op'[s].step = "idle" /\ \A t \in Service \ {s} : op'[t] = op[t]
    BY <1>t, <1>10 DEF Open, Return, Idle
  <2>2. seen'[s] = log /\ \A t \in Service \ {s} : seen'[t] = seen[t]
    BY <1>t, <2>1 DEF TypeOK
  <2>3. WorkIsGrounded(s)' /\ ReceiptsFollow(seen[s])'
    BY <1>g, <2>1, <2>2 DEF WorkIsGrounded, Working, ReceiptsFollow
  <2>4. \A t \in Service : ReceiptsFollow(seen[t])' /\ WorkIsGrounded(t)'
    BY <1>g, <2>1, <2>2, <2>3, OthersGrounded
  <2>5. SeenIsOnFile'
    BY <1>g, <2>1, <2>2 DEF SeenIsOnFile
  <2>6. ReceiptsFollow(log)' /\ CandidatesFirst' /\ FactsAreGrounded'
    BY <1>g, <2>1 DEF ReceiptsFollow, CandidatesFirst, FactsAreGrounded
  <2>7. QED
    BY <1>g, <2>1, <2>4, <2>5, <2>6 DEF GroundInv
<1>11. ASSUME NEW s \in Service, ServiceStep(s) PROVE GroundInv'
  BY <1>11, <1>1, <1>2, <1>3, <1>5, <1>6, <1>7, <1>8, <1>9, <1>10 DEF ServiceStep
<1>12. QED
  BY <1>0, <1>11 DEF Next

\* However many services share the root: an economic fact has an accepted receipt
\* of its action on file, whatever is cut short, resumed or withdrawn.
THEOREM FactsAreGroundedHolds == Spec => []FactsAreGrounded
<1>1. GroundInv => FactsAreGrounded
  BY DEF GroundInv
<1>2. QED
  BY <1>1, TypeInit, TypeNext, GroundInit, GroundNext, PTL DEF Spec

\* However many services share the root: nothing is called or settled that was not
\* created of a candidate on file, and no service calls for an action it has read
\* the receipt of, or for a candidate it has read the withdrawal of.
THEOREM CallsAreGroundedHolds == Spec => []CallsAreGrounded
<1>1. GroundInv => CallsAreGrounded
  <2> SUFFICES ASSUME GroundInv PROVE CallsAreGrounded
    OBVIOUS
  <2>1. \A a \in Action : calls[a] > 0 \/ Has(log, "action_receipt", a)
                         => Has(log, "action_created", a)
    BY DEF GroundInv, ReceiptsFollow
  <2>2. \A a \in Action : Has(log, "action_created", a) => Has(log, "candidate_created", CandidateOf[a])
    BY DEF GroundInv, CandidatesFirst
  <2>3. \A s \in Service : op[s].step = "call" =>
           Ready(seen[s], CandidateOf[op[s].action]) /\ ~Has(seen[s], "action_receipt", op[s].action)
    BY DEF GroundInv, WorkIsGrounded, Working
  <2>4. QED
    BY <2>1, <2>2, <2>3 DEF CallsAreGrounded
<1>2. QED
  BY <1>1, TypeInit, TypeNext, GroundInit, GroundNext, PTL DEF Spec

\* Both at once: however many services share the root without reading each other's
\* events, facts and calls rest on what is on file and on what their service read.
THEOREM EffectsAreGroundedHolds == Spec => []EffectsAreGrounded
<1>1. FactsAreGrounded /\ CallsAreGrounded => EffectsAreGrounded
  BY DEF EffectsAreGrounded
<1>2. QED
  BY <1>1, FactsAreGroundedHolds, CallsAreGroundedHolds, PTL
=============================================================================
