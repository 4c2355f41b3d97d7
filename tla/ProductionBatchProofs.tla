----------------------- MODULE ProductionBatchProofs -----------------------
(***************************************************************************)
(* Proofs about a production batch, for any number of slots, reasons,      *)
(* drafts that are refused or raise, seconds and crashes: a restart finds  *)
(* the slots as the service knows them (SlotsAreReplayed), and at most one *)
(* live release, which holds the accepted chapters (ReleaseIsSound).       *)
(*                                                                         *)
(* Events are dropped when their key is known, and some keys name only the *)
(* second.  The invariant says of each kind of key what the log already    *)
(* says when it is known, so that a dropped event would have changed       *)
(* nothing.                                                                *)
(***************************************************************************)
EXTENDS ProductionBatch, FiniteSetTheorems, WellFoundedInduction, TLAPS

Tasks == Nat \cup {NoTask}
Attempts == [task : Nat, status : {"accepted", "blocked"}]
Slots == [state : SlotState, attempts : Seq(Attempts), current : Tasks, accepted : Tasks]
Releases ==
    [status : {"none", "ready", "withdrawn"}, chapters : [Slot -> Tasks],
     published : Verdict \cup {"none"}]
Batches == [submitted : BOOLEAN, slots : [Slot -> Slots], releases : [Time -> Releases]]

Drafting == {"run", "facts", "content", "revised", "attempt"}
Steps == {"idle", "state", "release facts", "assembled", "published"} \cup Drafting
Kinds == {"idle", "execute", "resume", "revise", "assemble", "publish"}
Operations ==
    [kind : Kinds, step : Steps, slot : 0..NumSlots, task : Tasks,
     status : {"none", "accepted", "blocked"} \cup Verdict,
     reason : Reason \cup {"none"}, release : Time]

TypeInv ==
    /\ mem \in Batches /\ disk \in Batches /\ op \in Operations
    /\ owed \in BOOLEAN /\ now \in Time
    /\ content \in [Slot -> Tasks]

\* Every change of a slot is in the log at once, and before the submission there
\* is nothing in it.
SlotsAgree == mem.slots = disk.slots /\ mem.submitted = disk.submitted
NothingYet == ~mem.submitted => mem = NoBatch /\ keys = {} /\ op = Idle /\ ~owed

\* An accepted slot is the last attempt's, with its facts and its content.
Accepted(s) ==
    disk.slots[s].state = "accepted" =>
        /\ disk.slots[s].current \in Nat
        /\ disk.slots[s].accepted = disk.slots[s].current
        /\ \E i \in DOMAIN disk.slots[s].attempts :
              disk.slots[s].attempts[i] = Attempt(disk.slots[s].current, "accepted")
        /\ <<s, disk.slots[s].current>> \in facts
        /\ content[s] = disk.slots[s].current

\* What a known key says.  A second event under a slot's key finds the status it
\* carries, or an accepted slot, which no operation touches.
SlotKeys(s) ==
    /\ \A t \in Nat : AttemptKey(s, t) \in keys => t <= Len(disk.slots[s].attempts)
    /\ \A status \in {"accepted", "blocked"}, t \in Time :
          <<"slot-state", s, status, t>> \in keys =>
              disk.slots[s].state \in {status, "accepted"}
    /\ AttemptKey(s, 0) \in keys =>
          /\ ~owed
          /\ op.kind = "execute" =>
                s < op.slot \/ (s = op.slot /\ op.step = "state")
ReleaseKeys(r) ==
    /\ mem.releases[r].status = "ready" => <<"release-assembled", r>> \in keys
    /\ \A t \in Time : <<"release-withdrawn", r, t>> \in keys =>
          /\ <<"release-assembled", r>> \in keys
          /\ disk.releases[r].status # "ready"

\* The log may miss that a release is live, never that it is not.
LiveInMemory == \A r \in Time : disk.releases[r].status = "ready" => mem.releases[r].status = "ready"
Holds(r) ==
    /\ \A s \in Required : disk.releases[r].chapters[s] # NoTask
    /\ \A s \in Slot : disk.releases[r].chapters[s] # NoTask =>
          /\ disk.slots[s].state = "accepted"
          /\ disk.slots[s].accepted = disk.releases[r].chapters[s]
LiveHold ==
    /\ \A p, r \in Time :
          disk.releases[p].status = "ready" /\ disk.releases[r].status = "ready" => p = r
    /\ \A r \in Time : disk.releases[r].status = "ready" => Holds(r)

\* What the operation that holds the lock has done so far.
DraftOfSlot ==
    /\ op.kind = "execute" => ~owed
    /\ op.step \in Drafting \cup {"state"} =>
          /\ op.slot \in Slot /\ op.task \in Nat /\ mem.submitted
          /\ op.kind \in {"execute", "resume", "revise"}
          /\ disk.slots[op.slot].state # "accepted"
    /\ op.step \in Drafting =>
          op.task = IF op.kind = "execute" THEN 0 ELSE Len(disk.slots[op.slot].attempts) + 1
    /\ op.step \in {"facts", "content"} => op.status = "accepted"
    /\ op.step \in {"revised", "attempt", "state"} => op.status \in {"accepted", "blocked"}
    /\ op.step = "content" => ThisRun \in facts
    /\ op.step \in {"revised", "attempt", "state"} /\ op.status = "accepted" =>
          ThisRun \in facts /\ content[op.slot] = op.task
    /\ op.step = "state" =>
          /\ disk.slots[op.slot].current = op.task
          /\ \E i \in DOMAIN disk.slots[op.slot].attempts :
                disk.slots[op.slot].attempts[i] = Attempt(op.task, op.status)
ReleaseAtHand ==
    /\ op.step \in {"release facts", "assembled"} =>
          /\ \A s \in Required : disk.slots[s].state = "accepted"
          /\ \A r \in Time : mem.releases[r].status # "ready"
    /\ op.step = "published" => op.status \in Verdict
    /\ op.step = "idle" => op = Idle

BatchInv ==
    /\ TypeInv /\ SlotsAgree /\ NothingYet
    /\ \A s \in Slot : Accepted(s) /\ SlotKeys(s)
    /\ \A r \in Time : ReleaseKeys(r)
    /\ LiveInMemory /\ LiveHold /\ DraftOfSlot /\ ReleaseAtHand

\* What an exception left marked running is a slot that no draft was accepted for.
LeftInv == \A s \in left : s \in Slot /\ mem.slots[s].state # "accepted"

-----------------------------------------------------------------------------
\* The operators of the model.
LEMMA MinIsIn ==
    ASSUME NEW S \in SUBSET Nat, S # {}
    PROVE  Min(S) \in S
  <1> DEFINE R == OpToRel(<, Nat)
  <1>1. \A x, y \in Nat : <<y, x>> \in R <=> y < x
    BY DEF OpToRel
  <1>2. IsWellFoundedOn(R, Nat)
    BY NatLessThanWellFounded
  <1> HIDE DEF R
  <1>3. PICK x \in S : \A y \in S : ~(<<y, x>> \in R)
    BY <1>2, WFMin
  <1>4. \A y \in S : x =< y
    <2> TAKE y \in S
    <2>1. x \in Nat /\ y \in Nat /\ ~(<<y, x>> \in R)
      BY <1>3
    <2>2. ~(y < x)
      BY <1>1, <2>1
    <2> QED BY <2>1, <2>2
  <1> QED BY <1>3, <1>4 DEF Min

LEMMA IdleIs ==
    /\ Idle \in Operations /\ Idle.step = "idle" /\ Idle.kind = "idle"
    /\ 0 \in Time
  <1>1. 0 \in Time /\ NumSlots \in Nat
    BY BatchAssumption DEF Time
  <1> QED BY <1>1 DEF Idle, Operations, Kinds, Steps, Tasks, Verdict

LEMMA Appended ==
    ASSUME NEW S, NEW q \in Seq(S), NEW a \in S
    PROVE  /\ Len(Append(q, a)) = Len(q) + 1
           /\ Append(q, a)[Len(Append(q, a))] = a
           /\ Len(Append(q, a)) \in DOMAIN Append(q, a)
           /\ DOMAIN q \subseteq DOMAIN Append(q, a)
           /\ \A i \in DOMAIN q : Append(q, a)[i] = q[i]
  OBVIOUS

\* Keys of two kinds differ in their first word.
LEMMA KeyShapes ==
    /\ \A s, t, u, v : AttemptKey(s, t) = AttemptKey(u, v) => s = u /\ t = v
    /\ \A s, t, u, st, v : AttemptKey(s, t) # <<"slot-state", u, st, v>>
    /\ \A s, t, r : AttemptKey(s, t) # <<"release-assembled", r>>
    /\ \A s, t, r, v : AttemptKey(s, t) # <<"release-withdrawn", r, v>>
    /\ \A s, t, r : AttemptKey(s, t) # <<"release-published", r>>
    /\ \A s, t, u, w : AttemptKey(s, t) # ReviseKey(u, w)
    /\ \A s, t : AttemptKey(s, t) # <<"batch-submitted">>
  <1>1. \A s, t : AttemptKey(s, t)[1] = "attempt" /\ AttemptKey(s, t)[2] = s
                  /\ AttemptKey(s, t)[3] = t
    BY DEF AttemptKey
  <1>2. \A u, st, v : <<"slot-state", u, st, v>>[1] = "slot-state"
    OBVIOUS
  <1>3. \A r : <<"release-assembled", r>>[1] = "release-assembled"
    OBVIOUS
  <1>4. \A r, v : <<"release-withdrawn", r, v>>[1] = "release-withdrawn"
    OBVIOUS
  <1>5. \A r : <<"release-published", r>>[1] = "release-published"
    OBVIOUS
  <1>6. \A u, w : ReviseKey(u, w)[1] = "revise"
    BY DEF ReviseKey
  <1>7. <<"batch-submitted">>[1] = "batch-submitted"
    OBVIOUS
  <1>8. \A s, t, u, v : AttemptKey(s, t) = AttemptKey(u, v) => s = u /\ t = v
    BY <1>1
  <1>9. \A s, t, u, st, v : AttemptKey(s, t) # <<"slot-state", u, st, v>>
    BY <1>1, <1>2
  <1>10. \A s, t, r : AttemptKey(s, t) # <<"release-assembled", r>>
    BY <1>1, <1>3
  <1>11. \A s, t, r, v : AttemptKey(s, t) # <<"release-withdrawn", r, v>>
    BY <1>1, <1>4
  <1>12. \A s, t, r : AttemptKey(s, t) # <<"release-published", r>>
    BY <1>1, <1>5
  <1>13. \A s, t, u, w : AttemptKey(s, t) # ReviseKey(u, w)
    BY <1>1, <1>6
  <1>14. \A s, t : AttemptKey(s, t) # <<"batch-submitted">>
    BY <1>1, <1>7
  <1> QED BY <1>8, <1>9, <1>10, <1>11, <1>12, <1>13, <1>14

LEMMA Puts ==
    ASSUME NEW key, NEW replayed, Put(key, replayed)
    PROVE  /\ keys' = keys \cup {key}
           /\ key \in keys => disk' = disk
           /\ key \notin keys => disk' = replayed
  BY DEF Put

\* w is b but for slot s.
ButSlot(b, w, s) ==
    /\ w \in Batches /\ w.submitted = b.submitted /\ w.releases = b.releases
    /\ \A u \in Slot \ {s} : w.slots[u] = b.slots[u]
    /\ w.slots[s] \in Slots
HasAttempt(b, w, s, a) ==
    /\ w.slots[s].state = b.slots[s].state /\ w.slots[s].accepted = b.slots[s].accepted
    /\ w.slots[s].attempts = Append(b.slots[s].attempts, a)
    /\ w.slots[s].current = a.task
HasState(b, w, s, state, accepted) ==
    /\ w.slots[s].state = state
    /\ w.slots[s].accepted = IF accepted = NoTask THEN b.slots[s].accepted ELSE accepted
    /\ w.slots[s].attempts = b.slots[s].attempts /\ w.slots[s].current = b.slots[s].current

LEMMA AttemptMade ==
    ASSUME NEW b \in Batches, NEW s \in Slot, NEW a \in Attempts, NEW w,
           w = WithAttempt(b, s, a)
    PROVE  ButSlot(b, w, s) /\ HasAttempt(b, w, s, a)
  <1> DEFINE r == [b.slots[s] EXCEPT !.attempts = Append(b.slots[s].attempts, a),
                                     !.current = a.task]
  <1>1. /\ r \in Slots /\ r.state = b.slots[s].state /\ r.accepted = b.slots[s].accepted
        /\ r.attempts = Append(b.slots[s].attempts, a) /\ r.current = a.task
    <2>1. b.slots[s] \in Slots /\ a.task \in Tasks
      BY DEF Batches, Attempts, Tasks
    <2>2. Append(b.slots[s].attempts, a) \in Seq(Attempts)
      BY <2>1 DEF Slots
    <2> QED BY <2>1, <2>2 DEF Slots
  <1>2. w = [b EXCEPT !.slots = [b.slots EXCEPT ![s] = r]]
    BY DEF WithAttempt, Batches, Slots
  <1> HIDE DEF r
  <1>3. [b.slots EXCEPT ![s] = r] \in [Slot -> Slots]
    BY <1>1 DEF Batches
  <1>4. w.slots = [b.slots EXCEPT ![s] = r] /\ w.submitted = b.submitted /\ w.releases = b.releases
    BY <1>2 DEF Batches
  <1>5. w \in Batches
    BY <1>2, <1>3 DEF Batches
  <1>6. w.slots[s] = r /\ \A u \in Slot \ {s} : w.slots[u] = b.slots[u]
    BY <1>4 DEF Batches
  <1> QED BY <1>1, <1>4, <1>5, <1>6 DEF ButSlot, HasAttempt

LEMMA SlotMade ==
    ASSUME NEW b \in Batches, NEW s \in Slot, NEW state \in SlotState, NEW accepted \in Tasks,
           NEW w, w = WithSlot(b, s, state, accepted)
    PROVE  ButSlot(b, w, s) /\ HasState(b, w, s, state, accepted)
  <1> DEFINE x == IF accepted = NoTask THEN b.slots[s].accepted ELSE accepted
             r == [b.slots[s] EXCEPT !.state = state, !.accepted = x]
  <1>0. x \in Tasks
    BY DEF Batches, Slots
  <1>1. /\ r \in Slots /\ r.state = state /\ r.accepted = x
        /\ r.attempts = b.slots[s].attempts /\ r.current = b.slots[s].current
    <2> HIDE DEF x
    <2> QED BY <1>0 DEF Batches, Slots
  <1>2. w = [b EXCEPT !.slots = [b.slots EXCEPT ![s] = r]]
    BY DEF WithSlot, Batches, Slots
  <1> HIDE DEF r
  <1>3. [b.slots EXCEPT ![s] = r] \in [Slot -> Slots]
    BY <1>1 DEF Batches
  <1>4. w.slots = [b.slots EXCEPT ![s] = r] /\ w.submitted = b.submitted /\ w.releases = b.releases
    BY <1>2 DEF Batches
  <1>5. w \in Batches
    BY <1>2, <1>3 DEF Batches
  <1>6. w.slots[s] = r /\ \A u \in Slot \ {s} : w.slots[u] = b.slots[u]
    BY <1>4 DEF Batches
  <1> QED BY <1>1, <1>4, <1>5, <1>6 DEF ButSlot, HasState

\* Two slots are the same when their fields are.
LEMMA SlotsEqual ==
    ASSUME NEW x \in Slots, NEW y \in Slots, x.state = y.state, x.attempts = y.attempts,
           x.current = y.current, x.accepted = y.accepted
    PROVE  x = y
  BY DEF Slots

\* The same change of the same slots.
LEMMA SameChange ==
    ASSUME NEW b, NEW c, NEW w, NEW x, NEW s \in Slot, b.slots = c.slots,
           ButSlot(b, w, s), ButSlot(c, x, s),
           w.slots[s].state = x.slots[s].state, w.slots[s].attempts = x.slots[s].attempts,
           w.slots[s].current = x.slots[s].current, w.slots[s].accepted = x.slots[s].accepted
    PROVE  w.slots = x.slots
  <1>1. w.slots \in [Slot -> Slots] /\ x.slots \in [Slot -> Slots]
    BY DEF ButSlot, Batches
  <1>2. w.slots[s] = x.slots[s]
    BY SlotsEqual DEF ButSlot
  <1>3. \A u \in Slot : w.slots[u] = x.slots[u]
    BY <1>2 DEF ButSlot
  <1> QED BY <1>1, <1>3

\* w is b but for release r.
ButRelease(b, w, r) ==
    /\ w \in Batches /\ w.submitted = b.submitted /\ w.slots = b.slots
    /\ \A p \in Time \ {r} : w.releases[p] = b.releases[p]

HasRelease(b, w, r, new) == ButRelease(b, w, r) /\ w.releases[r] = new

LEMMA ReleaseMade ==
    ASSUME NEW b \in Batches, NEW r \in Time, NEW new \in Releases, NEW w,
           w = [b EXCEPT !.releases = [b.releases EXCEPT ![r] = new]]
    PROVE  HasRelease(b, w, r, new)
  <1>1. [b.releases EXCEPT ![r] = new] \in [Time -> Releases]
    BY DEF Batches
  <1>2. /\ w.releases = [b.releases EXCEPT ![r] = new]
        /\ w.submitted = b.submitted /\ w.slots = b.slots
    BY DEF Batches
  <1>3. w \in Batches
    BY <1>1 DEF Batches
  <1>4. w.releases[r] = new /\ \A p \in Time \ {r} : w.releases[p] = b.releases[p]
    BY <1>2 DEF Batches
  <1> QED BY <1>2, <1>3, <1>4 DEF HasRelease, ButRelease

\* The three changes of a release.
LEMMA Assembled ==
    ASSUME NEW b \in Batches, NEW r \in Time, NEW chapters \in [Slot -> Tasks], NEW w,
           w = WithRelease(b, r, chapters)
    PROVE  /\ ButRelease(b, w, r)
           /\ w.releases[r].status = "ready" /\ w.releases[r].chapters = chapters
  <1> DEFINE new == [status |-> "ready", chapters |-> chapters, published |-> "none"]
  <1>1. new \in Releases /\ new.status = "ready" /\ new.chapters = chapters
    BY DEF Releases
  <1>2. w = [b EXCEPT !.releases = [b.releases EXCEPT ![r] = new]]
    BY DEF WithRelease, Batches
  <1> HIDE DEF new
  <1>3. HasRelease(b, w, r, new)
    BY <1>1, <1>2, ReleaseMade
  <1> QED BY <1>1, <1>3 DEF HasRelease

LEMMA Taken ==
    ASSUME NEW b \in Batches, NEW r \in Time, NEW w, w = Withdrawn(b, r)
    PROVE  ButRelease(b, w, r) /\ w.releases[r].status = "withdrawn"
  <1> DEFINE new == [b.releases[r] EXCEPT !.status = "withdrawn"]
  <1>1. new \in Releases /\ new.status = "withdrawn"
    BY DEF Releases, Batches
  <1>2. w = [b EXCEPT !.releases = [b.releases EXCEPT ![r] = new]]
    BY DEF Withdrawn, Batches
  <1> HIDE DEF new
  <1>3. HasRelease(b, w, r, new)
    BY <1>1, <1>2, ReleaseMade
  <1> QED BY <1>1, <1>3 DEF HasRelease

LEMMA Shown ==
    ASSUME NEW b \in Batches, NEW r \in Time, NEW verdict \in Verdict, NEW w,
           w = Published(b, r, verdict)
    PROVE  /\ ButRelease(b, w, r)
           /\ w.releases[r].status = b.releases[r].status
           /\ w.releases[r].chapters = b.releases[r].chapters
  <1> DEFINE new == [b.releases[r] EXCEPT !.published = verdict]
  <1>1. /\ new \in Releases /\ new.status = b.releases[r].status
        /\ new.chapters = b.releases[r].chapters
    BY DEF Releases, Batches
  <1>2. w = [b EXCEPT !.releases = [b.releases EXCEPT ![r] = new]]
    BY DEF Published, Batches
  <1> HIDE DEF new
  <1>3. HasRelease(b, w, r, new)
    BY <1>1, <1>2, ReleaseMade
  <1> QED BY <1>1, <1>3 DEF HasRelease

\* A walk stops at a slot that is not accepted, or it is over.
LEMMA Walks ==
    ASSUME NEW b \in Batches, NEW kind \in {"execute", "resume"}, NEW first \in Nat \ {0},
           Walk(b, kind, first),
           \A s \in left : s >= first => b.slots[s].state # "accepted"
    PROVE  \/ op' = Idle
           \/ /\ op' \in Operations /\ op'.kind = kind /\ op'.step = "run"
              /\ op'.slot \in Slot /\ op'.slot >= first
              /\ b.slots[op'.slot].state # "accepted"
              /\ op'.task = IF kind = "execute" THEN 0 ELSE Len(b.slots[op'.slot].attempts) + 1
  <1> DEFINE todo == {s \in first..NumSlots : ~Skipped(kind, ShownState(b, s))}
             s == Min(todo)
             task == IF kind = "execute" THEN 0 ELSE AttemptNo(b, s)
             new == [Idle EXCEPT !.kind = kind, !.step = "run", !.slot = s, !.task = task]
  <1>1. CASE todo = {}
    BY <1>1 DEF Walk
  <1>2. CASE todo # {}
    <2>1. s \in todo
      <3>1. todo \in SUBSET Nat
        BY BatchAssumption
      <3> HIDE DEF todo
      <3> QED BY <1>2, <3>1, MinIsIn
    <2>2. op' = new
      BY <1>2 DEF Walk
    <2> HIDE DEF s
    <2>3. s \in Slot /\ s >= first /\ s \in 0..NumSlots /\ b.slots[s].state # "accepted"
      BY <2>1, BatchAssumption DEF Slot, Skipped, ShownState
    <2>4. task \in Nat /\ task = IF kind = "execute" THEN 0 ELSE Len(b.slots[s].attempts) + 1
      BY <2>3 DEF AttemptNo, Batches, Slots
    <2> HIDE DEF task
    <2>5. /\ new \in Operations /\ new.kind = kind /\ new.step = "run" /\ new.slot = s
          /\ new.task = task
      BY <2>3, <2>4, IdleIs DEF Operations, Kinds, Steps, Drafting, Tasks
    <2> HIDE DEF new
    <2> QED BY <2>2, <2>3, <2>4, <2>5
  <1> QED BY <1>1, <1>2

-----------------------------------------------------------------------------
\* The keys the invariant speaks of.
SameKeys ==
    /\ \A s \in Slot, t \in Nat : AttemptKey(s, t) \in keys' => AttemptKey(s, t) \in keys
    /\ \A s \in Slot, status \in {"accepted", "blocked"}, t \in Time :
          <<"slot-state", s, status, t>> \in keys' => <<"slot-state", s, status, t>> \in keys
    /\ \A r \in Time :
          <<"release-assembled", r>> \in keys' <=> <<"release-assembled", r>> \in keys
    /\ \A r \in Time, t \in Time :
          <<"release-withdrawn", r, t>> \in keys' => <<"release-withdrawn", r, t>> \in keys
\* The slots of which it was said that an attempt of submit is in the log.
Submitting ==
    \A s \in Slot : AttemptKey(s, 0) \in keys' =>
        /\ ~owed'
        /\ op'.kind = "execute" => s < op'.slot \/ (s = op'.slot /\ op'.step = "state")

\* A step that leaves the state of the batch alone: only what the operation has
\* done is to show.
LEMMA Quiet ==
    ASSUME BatchInv, mem' = mem, disk' = disk, SameKeys, op' \in Operations,
           owed' \in BOOLEAN, now' \in Time, content' \in [Slot -> Tasks],
           facts \subseteq facts',
           \A s \in Slot : disk.slots[s].state = "accepted" => content'[s] = content[s],
           mem.submitted \/ (keys' = keys /\ op' = op /\ owed' = owed),
           Submitting, DraftOfSlot', ReleaseAtHand'
    PROVE  BatchInv'
  <1>1. TypeInv'
    BY DEF BatchInv, TypeInv
  <1>2. SlotsAgree' /\ NothingYet'
    BY DEF BatchInv, SlotsAgree, NothingYet
  <1>3. ASSUME NEW s \in Slot PROVE Accepted(s)'
    BY <1>3 DEF BatchInv, Accepted
  <1>4. ASSUME NEW s \in Slot PROVE SlotKeys(s)'
    BY <1>4 DEF BatchInv, SlotKeys, SameKeys, Submitting
  <1>5. ASSUME NEW r \in Time PROVE ReleaseKeys(r)'
    BY <1>5 DEF BatchInv, ReleaseKeys, SameKeys
  <1>6. LiveInMemory' /\ LiveHold'
    BY DEF BatchInv, LiveInMemory, LiveHold, Holds
  <1> QED BY <1>1, <1>2, <1>3, <1>4, <1>5, <1>6 DEF BatchInv

LEMMA SameKeysKept == keys' = keys => SameKeys
  BY DEF SameKeys

\* Nothing happens, or a second passes.
LEMMA Stutter ==
    ASSUME BatchInv, now' \in Time,
           UNCHANGED <<mem, disk, keys, op, owed, world, blocks>>
    PROVE  BatchInv'
  <1>1. Submitting
    BY DEF BatchInv, Submitting, SlotKeys
  <1>2. DraftOfSlot' /\ ReleaseAtHand'
    BY DEF BatchInv, DraftOfSlot, ReleaseAtHand, ThisRun, world
  <1> QED BY <1>1, <1>2, SameKeysKept, Quiet DEF BatchInv, TypeInv, world

\* A walk over the slots begins.
LEMMA Walking ==
    ASSUME BatchInv, LeftInv, mem.submitted, NEW kind \in {"execute", "resume"}, Walk(mem, kind, 1),
           UNCHANGED <<mem, disk, keys, world, now>>, owed' \in BOOLEAN, owed' => owed,
           kind = "execute" => owed /\ ~owed'
    PROVE  BatchInv'
  <1>1. \/ op' = Idle
        \/ /\ op' \in Operations /\ op'.kind = kind /\ op'.step = "run"
           /\ op'.slot \in Slot /\ mem.slots[op'.slot].state # "accepted"
           /\ op'.task = IF kind = "execute" THEN 0 ELSE Len(mem.slots[op'.slot].attempts) + 1
    BY Walks DEF BatchInv, TypeInv, LeftInv
  <1>2. op' \in Operations
    BY <1>1, IdleIs
  <1>3. Submitting
    <2>1. ASSUME NEW s \in Slot, AttemptKey(s, 0) \in keys PROVE ~owed
      BY <2>1 DEF BatchInv, SlotKeys
    <2> QED BY <1>1, <2>1, IdleIs DEF Submitting
  <1>4. DraftOfSlot'
    <2>1. CASE op' = Idle
      BY <2>1, IdleIs DEF DraftOfSlot, Drafting
    <2>2. CASE op' # Idle
      <3>1. op'.task \in Nat
        BY <1>1, <2>2 DEF BatchInv, TypeInv, Batches, Slots
      <3> QED BY <1>1, <2>2, <3>1 DEF DraftOfSlot, Drafting, BatchInv, SlotsAgree
    <2> QED BY <2>1, <2>2
  <1>5. ReleaseAtHand'
    BY <1>1, IdleIs DEF ReleaseAtHand
  <1> QED BY <1>2, <1>3, <1>4, <1>5, SameKeysKept, Quiet DEF BatchInv, TypeInv, world

LEMMA ExecuteStep ==
    ASSUME BatchInv, LeftInv, Execute \/ Resume
    PROVE  BatchInv'
  <1>1. CASE Execute
    <2>1. mem.submitted
      BY <1>1 DEF Execute, BatchInv, NothingYet
    <2> QED BY <1>1, <2>1, Walking DEF Execute
  <1>2. CASE Resume
    BY <1>2, Walking DEF Resume, BatchInv, TypeInv
  <1> QED BY <1>1, <1>2

\* The operation at hand goes on to another step, or is over.
LEMMA OnStep ==
    ASSUME BatchInv, mem.submitted, op' \in Operations,
           UNCHANGED <<mem, disk, owed, now>>, SameKeys, content' \in [Slot -> Tasks],
           facts \subseteq facts',
           \A s \in Slot : disk.slots[s].state = "accepted" => content'[s] = content[s],
           \/ op'.kind # "execute"
           \/ op.kind = "execute" /\ op'.slot = op.slot /\ op.step # "state",
           DraftOfSlot', ReleaseAtHand'
    PROVE  BatchInv'
  <1>1. Submitting
    <2>1. ASSUME NEW s \in Slot, AttemptKey(s, 0) \in keys'
          PROVE  /\ ~owed
                 /\ op.kind = "execute" => s < op.slot \/ (s = op.slot /\ op.step = "state")
      <3>1. AttemptKey(s, 0) \in keys
        BY <2>1 DEF SameKeys
      <3> QED BY <3>1 DEF BatchInv, SlotKeys
    <2> QED BY <2>1 DEF Submitting
  <1> QED BY <1>1, Quiet DEF BatchInv, TypeInv

\* A record of the operation with another step.
LEMMA Stepped ==
    ASSUME op \in Operations, NEW step \in Steps, Step(step)
    PROVE  /\ op' \in Operations /\ op'.step = step /\ op'.kind = op.kind
           /\ op'.slot = op.slot /\ op'.task = op.task /\ op'.status = op.status
           /\ op'.release = op.release
  <1> DEFINE new == [op EXCEPT !.step = step]
  <1>1. /\ new \in Operations /\ new.step = step /\ new.kind = op.kind
        /\ new.slot = op.slot /\ new.task = op.task /\ new.status = op.status
        /\ new.release = op.release
    BY DEF Operations
  <1> QED BY <1>1 DEF Step

LEMMA Outcomes ==
    ASSUME op \in Operations, NEW status \in {"accepted", "blocked"}, Ran(status)
    PROVE  /\ op' \in Operations /\ op'.kind = op.kind
           /\ op'.slot = op.slot /\ op'.task = op.task /\ op'.status = status
           /\ op'.step \in {"facts", "revised", "attempt"}
           /\ status = "accepted" <=> op'.step = "facts"
  <1> DEFINE next == IF status = "accepted" THEN "facts"
                     ELSE IF op.kind = "revise" THEN "revised" ELSE "attempt"
             new == [op EXCEPT !.status = status, !.step = next]
  <1>1. next \in {"facts", "revised", "attempt"} /\ (status = "accepted" <=> next = "facts")
    OBVIOUS
  <1>2. next \in Steps
    BY <1>1 DEF Steps, Drafting
  <1>3. op' = new
    BY DEF Ran
  <1> HIDE DEF next
  <1>4. /\ new \in Operations /\ new.step = next /\ new.kind = op.kind
        /\ new.slot = op.slot /\ new.task = op.task /\ new.status = status
    BY <1>2 DEF Operations
  <1> QED BY <1>1, <1>3, <1>4

\* The steps that draft a slot, up to the event of the attempt.
LEMMA ReviseStep ==
    ASSUME BatchInv, NEW s \in Slot, NEW reason \in Reason, Revise(s, reason)
    PROVE  BatchInv'
  <1> DEFINE new == [Idle EXCEPT !.kind = "revise", !.step = "run", !.slot = s,
                                 !.reason = reason, !.task = AttemptNo(mem, s)]
  <1>1. /\ op' = new /\ mem.submitted /\ mem.slots[s].state = "blocked"
        /\ UNCHANGED <<mem, disk, keys, owed, world, now>>
    BY DEF Revise, ShownState
  <1>2. /\ AttemptNo(mem, s) \in Nat
        /\ AttemptNo(mem, s) = Len(disk.slots[s].attempts) + 1
    BY DEF AttemptNo, BatchInv, TypeInv, Batches, Slots, SlotsAgree
  <1>3. s \in 0..NumSlots
    BY BatchAssumption DEF Slot
  <1>4. /\ new \in Operations /\ new.kind = "revise" /\ new.step = "run" /\ new.slot = s
        /\ new.task = AttemptNo(mem, s)
    BY <1>2, <1>3, IdleIs DEF Operations, Kinds, Steps, Drafting, Tasks
  <1> HIDE DEF new
  <1>5. DraftOfSlot' /\ ReleaseAtHand'
    BY <1>1, <1>2, <1>4 DEF DraftOfSlot, ReleaseAtHand, Drafting, BatchInv, SlotsAgree
  <1> QED BY <1>1, <1>4, <1>5, SameKeysKept, OnStep DEF BatchInv, TypeInv, world

LEMMA RunStep ==
    ASSUME BatchInv, RunAccepted \/ RunBlocked \/ RunExists
    PROVE  BatchInv'
  <1>1. /\ op.step = "run"
        /\ UNCHANGED <<mem, disk, keys, owed, facts, content, now>>
        /\ \E status \in {"accepted", "blocked"} : Ran(status)
    BY DEF RunAccepted, RunBlocked, RunExists, world
  <1>2. PICK status \in {"accepted", "blocked"} : Ran(status)
    BY <1>1
  <1>3. /\ op' \in Operations /\ op'.kind = op.kind
        /\ op'.slot = op.slot /\ op'.task = op.task /\ op'.status = status
        /\ op'.step \in {"facts", "revised", "attempt"}
        /\ status = "accepted" <=> op'.step = "facts"
    BY <1>2, Outcomes DEF BatchInv, TypeInv
  <1>4. mem.submitted
    BY <1>1 DEF BatchInv, DraftOfSlot, Drafting
  <1>5. DraftOfSlot'
    BY <1>1, <1>3 DEF DraftOfSlot, Drafting, BatchInv, SlotsAgree
  <1>6. ReleaseAtHand'
    BY <1>3 DEF ReleaseAtHand
  <1> QED BY <1>1, <1>3, <1>4, <1>5, <1>6, SameKeysKept, OnStep DEF BatchInv, TypeInv

LEMMA RegisterFactsStep ==
    ASSUME BatchInv, RegisterFacts
    PROVE  BatchInv'
  <1>1. /\ op.step = "facts" /\ facts' = facts \cup {ThisRun} /\ Step("content")
        /\ UNCHANGED <<mem, disk, keys, owed, content, now>>
    BY DEF RegisterFacts
  <1>2. /\ op' \in Operations /\ op'.step = "content" /\ op'.kind = op.kind
        /\ op'.slot = op.slot /\ op'.task = op.task /\ op'.status = op.status
    BY <1>1, Stepped DEF BatchInv, TypeInv, Steps, Drafting
  <1>3. mem.submitted
    BY <1>1 DEF BatchInv, DraftOfSlot, Drafting
  <1>4. ThisRun' \in facts'
    BY <1>1, <1>2 DEF ThisRun
  <1>5. DraftOfSlot'
    BY <1>1, <1>2, <1>4 DEF DraftOfSlot, Drafting, BatchInv
  <1>6. ReleaseAtHand'
    BY <1>2 DEF ReleaseAtHand
  <1> QED BY <1>1, <1>2, <1>3, <1>5, <1>6, SameKeysKept, OnStep DEF BatchInv, TypeInv

LEMMA StoreContentStep ==
    ASSUME BatchInv, StoreContent
    PROVE  BatchInv'
  <1> DEFINE next == IF op.kind = "revise" THEN "revised" ELSE "attempt"
  <1>1. /\ op.step = "content" /\ content' = [content EXCEPT ![op.slot] = op.task]
        /\ Step(next) /\ UNCHANGED <<mem, disk, keys, owed, facts, now>>
    BY DEF StoreContent
  <1>2. next \in {"revised", "attempt"}
    OBVIOUS
  <1> HIDE DEF next
  <1>3. /\ op' \in Operations /\ op'.step = next /\ op'.kind = op.kind
        /\ op'.slot = op.slot /\ op'.task = op.task /\ op'.status = op.status
    BY <1>1, <1>2, Stepped DEF BatchInv, TypeInv, Steps, Drafting
  <1>4. /\ mem.submitted /\ op.slot \in Slot /\ op.task \in Nat /\ op.status = "accepted"
        /\ ThisRun \in facts /\ disk.slots[op.slot].state # "accepted"
    BY <1>1 DEF BatchInv, DraftOfSlot, Drafting
  <1>5. /\ content' \in [Slot -> Tasks] /\ content'[op.slot] = op.task
        /\ \A s \in Slot \ {op.slot} : content'[s] = content[s]
    BY <1>1, <1>4 DEF BatchInv, TypeInv, Tasks
  <1>6. ThisRun' \in facts'
    BY <1>1, <1>3, <1>4 DEF ThisRun
  <1>7. DraftOfSlot'
    BY <1>1, <1>2, <1>3, <1>4, <1>5, <1>6 DEF DraftOfSlot, Drafting, BatchInv
  <1>8. ReleaseAtHand'
    BY <1>2, <1>3 DEF ReleaseAtHand
  <1>9. \A s \in Slot : disk.slots[s].state = "accepted" => content'[s] = content[s]
    BY <1>4, <1>5
  <1> QED BY <1>1, <1>3, <1>4, <1>5, <1>7, <1>8, <1>9, SameKeysKept, OnStep

LEMMA RecordRevisionStep ==
    ASSUME BatchInv, RecordRevision
    PROVE  BatchInv'
  <1> DEFINE key == ReviseKey(op.slot, op.reason)
  <1>1. /\ op.step = "revised" /\ Put(key, disk) /\ Step("attempt")
        /\ UNCHANGED <<mem, owed, facts, content, now>>
    BY DEF RecordRevision, world
  <1>2. keys' = keys \cup {key} /\ disk' = disk
    BY <1>1, Puts
  <1>3. SameKeys
    <2>1. key[1] = "revise"
      BY DEF ReviseKey
    <2>2. \A s, t : AttemptKey(s, t) # key
      BY KeyShapes
    <2>3. \A s, st, t : <<"slot-state", s, st, t>> # key
      <3>1. \A s, st, t : <<"slot-state", s, st, t>>[1] = "slot-state"
        OBVIOUS
      <3> QED BY <2>1, <3>1
    <2>4. \A r : <<"release-assembled", r>> # key
      <3>1. \A r : <<"release-assembled", r>>[1] = "release-assembled"
        OBVIOUS
      <3> QED BY <2>1, <3>1
    <2>5. \A r, t : <<"release-withdrawn", r, t>> # key
      <3>1. \A r, t : <<"release-withdrawn", r, t>>[1] = "release-withdrawn"
        OBVIOUS
      <3> QED BY <2>1, <3>1
    <2> HIDE DEF key
    <2> QED BY <1>2, <2>2, <2>3, <2>4, <2>5 DEF SameKeys
  <1>4. /\ op' \in Operations /\ op'.step = "attempt" /\ op'.kind = op.kind
        /\ op'.slot = op.slot /\ op'.task = op.task /\ op'.status = op.status
    BY <1>1, Stepped DEF BatchInv, TypeInv, Steps, Drafting
  <1>5. mem.submitted
    BY <1>1 DEF BatchInv, DraftOfSlot, Drafting
  <1>6. DraftOfSlot'
    BY <1>1, <1>2, <1>4 DEF DraftOfSlot, Drafting, BatchInv, ThisRun
  <1>7. ReleaseAtHand'
    BY <1>4 DEF ReleaseAtHand
  <1> QED BY <1>1, <1>2, <1>3, <1>4, <1>5, <1>6, <1>7, OnStep DEF BatchInv, TypeInv

\* The operations that make and publish a release, before the event.
LEMMA AssembleStep ==
    ASSUME BatchInv, Assemble
    PROVE  BatchInv'
  <1> DEFINE new == [Idle EXCEPT !.kind = "assemble", !.step = "release facts", !.release = now]
  <1>1. /\ op' = new /\ mem.submitted /\ MayAssemble(mem)
        /\ UNCHANGED <<mem, disk, keys, owed, world, now>>
    BY DEF Assemble
  <1>2. new \in Operations /\ new.kind = "assemble" /\ new.step = "release facts"
    BY IdleIs DEF Operations, Kinds, Steps, BatchInv, TypeInv
  <1> HIDE DEF new
  <1>3. DraftOfSlot'
    BY <1>1, <1>2 DEF DraftOfSlot, Drafting
  <1>4. ReleaseAtHand'
    BY <1>1, <1>2 DEF ReleaseAtHand, MayAssemble, Live, BatchInv, SlotsAgree
  <1> QED BY <1>1, <1>2, <1>3, <1>4, SameKeysKept, OnStep DEF BatchInv, TypeInv, world

LEMMA RegisterReleaseStep ==
    ASSUME BatchInv, RegisterRelease
    PROVE  BatchInv'
  <1>1. /\ op.step = "release facts"
        /\ UNCHANGED <<mem, disk, keys, owed, facts, content, now>>
        /\ Step("assembled") \/ op' = Idle
    BY DEF RegisterRelease, Return
  <1>2. /\ op' \in Operations
        /\ \/ op'.step = "assembled" /\ op'.kind = op.kind /\ op'.slot = op.slot
           \/ op' = Idle /\ op'.step = "idle" /\ op'.kind = "idle"
    BY <1>1, Stepped, IdleIs DEF BatchInv, TypeInv, Steps
  <1>3. mem.submitted
    BY <1>1, IdleIs DEF BatchInv, NothingYet
  <1>4. DraftOfSlot'
    BY <1>1, <1>2 DEF DraftOfSlot, Drafting, BatchInv
  <1>5. ReleaseAtHand'
    BY <1>1, <1>2 DEF ReleaseAtHand, BatchInv
  <1> QED BY <1>1, <1>2, <1>3, <1>4, <1>5, SameKeysKept, OnStep DEF BatchInv, TypeInv

LEMMA PublishStep ==
    ASSUME BatchInv, NEW r \in Time, NEW verdict \in Verdict, Publish(r, verdict)
    PROVE  BatchInv'
  <1> DEFINE new == [Idle EXCEPT !.kind = "publish", !.step = "published", !.release = r,
                                 !.status = verdict]
  <1>1. /\ op' = new /\ mem.releases[r].status = "ready"
        /\ UNCHANGED <<mem, disk, keys, owed, facts, content, now>>
    BY DEF Publish
  <1>2. /\ new \in Operations /\ new.kind = "publish" /\ new.step = "published"
        /\ new.status = verdict
    BY IdleIs DEF Operations, Kinds, Steps
  <1> HIDE DEF new
  <1>3. mem.submitted
    BY <1>1 DEF BatchInv, NothingYet, NoBatch, NoRelease
  <1>4. DraftOfSlot'
    BY <1>1, <1>2 DEF DraftOfSlot, Drafting
  <1>5. ReleaseAtHand'
    BY <1>1, <1>2 DEF ReleaseAtHand
  <1> QED BY <1>1, <1>2, <1>3, <1>4, <1>5, SameKeysKept, OnStep DEF BatchInv, TypeInv

-----------------------------------------------------------------------------
\* The events.

LEMMA SubmitStep ==
    ASSUME BatchInv, Submit
    PROVE  BatchInv'
  <1>1. /\ mem = NoBatch /\ keys = {} /\ op = Idle /\ ~mem.submitted /\ mem' = Submitted
        /\ Put(<<"batch-submitted">>, Submitted) /\ owed' = TRUE
        /\ UNCHANGED <<op, facts, content, now>>
    BY DEF Submit, BatchInv, NothingYet, world
  <1>2. keys' = {<<"batch-submitted">>} /\ disk' = Submitted
    BY <1>1, Puts
  <1>3. /\ Submitted \in Batches /\ Submitted.submitted = TRUE
        /\ Submitted.slots = mem.slots /\ Submitted.releases = mem.releases
    <2>1. mem \in Batches
      BY DEF BatchInv, TypeInv
    <2> QED BY <1>1, <2>1 DEF Submitted, Batches
  <1>4. \A s \in Slot : mem.slots[s].state = "pending" /\ mem.slots[s].attempts = <<>>
    BY <1>1 DEF NoBatch, FreshSlot
  <1>5. \A r \in Time : mem.releases[r].status = "none"
    BY <1>1 DEF NoBatch, NoRelease
  <1>6. TypeInv'
    BY <1>1, <1>2, <1>3 DEF BatchInv, TypeInv
  <1>7. SlotsAgree' /\ NothingYet'
    BY <1>1, <1>2, <1>3 DEF SlotsAgree, NothingYet
  <1>8. ASSUME NEW s \in Slot PROVE Accepted(s)'
    BY <1>2, <1>3, <1>4, <1>8 DEF Accepted
  <1>9. ASSUME NEW s \in Slot PROVE SlotKeys(s)'
    <2>1. \A t : AttemptKey(s, t) \notin keys'
      BY <1>2, KeyShapes
    <2>2. \A status, t : <<"slot-state", s, status, t>> \notin keys'
      <3>1. \A status, t : <<"slot-state", s, status, t>>[1] = "slot-state"
        OBVIOUS
      <3>2. <<"batch-submitted">>[1] = "batch-submitted"
        OBVIOUS
      <3> QED BY <1>2, <3>1, <3>2
    <2> QED BY <2>1, <2>2 DEF SlotKeys
  <1>10. ASSUME NEW r \in Time PROVE ReleaseKeys(r)'
    <2>1. \A t : <<"release-withdrawn", r, t>> \notin keys'
      <3>1. \A t : <<"release-withdrawn", r, t>>[1] = "release-withdrawn"
        OBVIOUS
      <3>2. <<"batch-submitted">>[1] = "batch-submitted"
        OBVIOUS
      <3> QED BY <1>2, <3>1, <3>2
    <2> QED BY <1>1, <1>3, <1>5, <2>1 DEF ReleaseKeys
  <1>11. LiveInMemory' /\ LiveHold'
    BY <1>2, <1>3, <1>5 DEF LiveInMemory, LiveHold
  <1>12. DraftOfSlot' /\ ReleaseAtHand'
    BY <1>1, IdleIs DEF DraftOfSlot, ReleaseAtHand, Drafting
  <1> QED BY <1>6, <1>7, <1>8, <1>9, <1>10, <1>11, <1>12 DEF BatchInv

\* What an event that is not about a release leaves of the releases.
LEMMA ReleasesKept ==
    ASSUME BatchInv, mem'.releases = mem.releases, disk'.releases = disk.releases,
           \A s \in Slot : disk.slots[s].state = "accepted" =>
               /\ disk'.slots[s].state = "accepted"
               /\ disk'.slots[s].accepted = disk.slots[s].accepted,
           NEW key, keys' = keys \cup {key},
           \A r \in Time : /\ key # <<"release-assembled", r>>
                           /\ \A t \in Time : key # <<"release-withdrawn", r, t>>
    PROVE  (\A r \in Time : ReleaseKeys(r)') /\ LiveInMemory' /\ LiveHold'
  <1>1. ASSUME NEW r \in Time PROVE ReleaseKeys(r)'
    BY <1>1 DEF BatchInv, ReleaseKeys
  <1>2. LiveInMemory'
    BY DEF BatchInv, LiveInMemory
  <1>3. ASSUME NEW r \in Time, disk.releases[r].status = "ready" PROVE Holds(r)'
    BY <1>3 DEF BatchInv, LiveHold, Holds
  <1>4. LiveHold'
    BY <1>3 DEF BatchInv, LiveHold
  <1> QED BY <1>1, <1>2, <1>4

LEMMA RecordAttemptStep ==
    ASSUME BatchInv, RecordAttempt
    PROVE  BatchInv'
  <1> DEFINE a == Attempt(op.task, op.status)
             key == AttemptKey(op.slot, op.task)
  <1>1. /\ op.step = "attempt" /\ mem' = WithAttempt(mem, op.slot, a)
        /\ Put(key, WithAttempt(disk, op.slot, a)) /\ Step("state")
        /\ UNCHANGED <<owed, facts, content, now>>
    BY DEF RecordAttempt, world
  <1>2. /\ op.slot \in Slot /\ op.task \in Nat /\ mem.submitted
        /\ op.status \in {"accepted", "blocked"} /\ disk.slots[op.slot].state # "accepted"
        /\ op.task = IF op.kind = "execute" THEN 0 ELSE Len(disk.slots[op.slot].attempts) + 1
    BY <1>1 DEF BatchInv, DraftOfSlot, Drafting
  <1>3. /\ disk.slots[op.slot] \in Slots /\ disk.slots[op.slot].attempts \in Seq(Attempts)
        /\ Len(disk.slots[op.slot].attempts) \in Nat
    BY <1>2 DEF BatchInv, TypeInv, Batches, Slots
  <1>4. key \notin keys
    <2>1. CASE op.kind = "execute"
      <3>1. ~(op.slot < op.slot) /\ op.step # "state"
        BY <1>1, <1>2 DEF Slot
      <3> QED BY <1>2, <2>1, <3>1 DEF BatchInv, SlotKeys
    <2>2. CASE op.kind # "execute"
      <3>1. key \in keys => op.task <= Len(disk.slots[op.slot].attempts)
        BY <1>2 DEF BatchInv, SlotKeys
      <3>2. op.task = Len(disk.slots[op.slot].attempts) + 1
        BY <1>2, <2>2
      <3>3. \A n \in Nat : ~(n + 1 <= n)
        OBVIOUS
      <3> HIDE DEF key
      <3> QED BY <1>3, <3>1, <3>2, <3>3
    <2> QED BY <2>1, <2>2
  <1>5. keys' = keys \cup {key} /\ disk' = WithAttempt(disk, op.slot, a)
    BY <1>1, <1>4, Puts
  <1>6. a \in Attempts /\ a.task = op.task
    BY <1>2 DEF Attempts, Attempt
  <1>7. mem \in Batches /\ disk \in Batches /\ mem.slots = disk.slots /\ mem.submitted = disk.submitted
    BY DEF BatchInv, TypeInv, SlotsAgree
  <1> DEFINE new == disk'.slots[op.slot]
  <1> HIDE DEF a, key
  <1>8. ButSlot(mem, mem', op.slot) /\ HasAttempt(mem, mem', op.slot, a)
    BY <1>1, <1>2, <1>6, <1>7, AttemptMade
  <1>9. ButSlot(disk, disk', op.slot) /\ HasAttempt(disk, disk', op.slot, a)
    BY <1>2, <1>5, <1>6, <1>7, AttemptMade
  <1>10. /\ Len(new.attempts) = Len(disk.slots[op.slot].attempts) + 1
         /\ new.attempts[Len(new.attempts)] = a
         /\ Len(new.attempts) \in DOMAIN new.attempts
    <2>1. new.attempts = Append(disk.slots[op.slot].attempts, a)
      BY <1>9 DEF HasAttempt
    <2>2. disk.slots[op.slot].attempts \in Seq(Attempts) /\ a \in Attempts
      BY <1>3, <1>6
    <2> DEFINE q == disk.slots[op.slot].attempts
    <2>3. q \in Seq(Attempts)
      BY <2>2
    <2> HIDE DEF q
    <2>4. Len(Append(q, a)) = Len(q) + 1
      BY <2>2, <2>3, Appended
    <2>5. Append(q, a)[Len(Append(q, a))] = a
      BY <2>2, <2>3, Appended
    <2>6. Len(Append(q, a)) \in DOMAIN Append(q, a)
      BY <2>2, <2>3, Appended
    <2> QED BY <2>1, <2>4, <2>5, <2>6 DEF q
  <1>11. mem'.slots = disk'.slots
    <2>1. mem'.slots[op.slot].state = disk'.slots[op.slot].state
      BY <1>7, <1>8, <1>9 DEF HasAttempt
    <2>2. mem'.slots[op.slot].attempts = disk'.slots[op.slot].attempts
      BY <1>7, <1>8, <1>9 DEF HasAttempt
    <2>3. mem'.slots[op.slot].current = disk'.slots[op.slot].current
      BY <1>8, <1>9 DEF HasAttempt
    <2>4. mem'.slots[op.slot].accepted = disk'.slots[op.slot].accepted
      BY <1>7, <1>8, <1>9 DEF HasAttempt
    <2> QED BY <1>2, <1>7, <1>8, <1>9, <2>1, <2>2, <2>3, <2>4, SameChange
  <1>12. /\ op' \in Operations /\ op'.step = "state" /\ op'.kind = op.kind
         /\ op'.slot = op.slot /\ op'.task = op.task /\ op'.status = op.status
    BY <1>1, Stepped DEF BatchInv, TypeInv, Steps
  <1>13. TypeInv'
    BY <1>1, <1>8, <1>9, <1>12 DEF BatchInv, TypeInv, ButSlot
  <1>14. SlotsAgree' /\ NothingYet'
    BY <1>2, <1>7, <1>8, <1>9, <1>11 DEF ButSlot, SlotsAgree, NothingYet
  <1>15. ASSUME NEW s \in Slot PROVE Accepted(s)'
    <2>1. CASE s = op.slot
      BY <1>2, <1>9, <2>1 DEF HasAttempt, Accepted
    <2>2. CASE s # op.slot
      BY <1>1, <1>9, <1>15, <2>2 DEF ButSlot, Accepted, BatchInv
    <2> QED BY <2>1, <2>2
  <1>16. ASSUME NEW s \in Slot PROVE SlotKeys(s)'
    <2>1. ASSUME NEW t \in Nat, AttemptKey(s, t) \in keys'
          PROVE  t <= Len(disk'.slots[s].attempts)
      <3>1. CASE AttemptKey(s, t) \in keys
        <4>1. t <= Len(disk.slots[s].attempts)
          BY <1>16, <2>1, <3>1 DEF BatchInv, SlotKeys
        <4>2. CASE s = op.slot
          BY <1>3, <1>9, <1>10, <4>1, <4>2
        <4>3. CASE s # op.slot
          BY <1>9, <1>16, <4>1, <4>3 DEF ButSlot
        <4> QED BY <4>2, <4>3
      <3>2. CASE AttemptKey(s, t) = key
        <4>1. s = op.slot /\ t = op.task
          BY <3>2, KeyShapes DEF key
        <4>2. op.task <= Len(disk.slots[op.slot].attempts) + 1
          <5>1. op.task = 0 \/ op.task = Len(disk.slots[op.slot].attempts) + 1
            BY <1>2
          <5>2. Len(disk.slots[op.slot].attempts) \in Nat
            BY <1>3
          <5> QED BY <5>1, <5>2
        <4> QED BY <1>3, <1>9, <1>10, <4>1, <4>2
      <3> QED BY <1>5, <2>1, <3>1, <3>2
    <2>2. ASSUME NEW status \in {"accepted", "blocked"}, NEW t \in Time,
                 <<"slot-state", s, status, t>> \in keys'
          PROVE  disk'.slots[s].state \in {status, "accepted"}
      <3>1. <<"slot-state", s, status, t>> \in keys
        BY <1>5, <2>2, KeyShapes DEF key
      <3>2. disk.slots[s].state \in {status, "accepted"}
        BY <1>16, <3>1 DEF BatchInv, SlotKeys
      <3>3. disk'.slots[s].state = disk.slots[s].state
        BY <1>9, <1>16 DEF ButSlot, HasAttempt
      <3> QED BY <3>2, <3>3
    <2>3. ASSUME AttemptKey(s, 0) \in keys'
          PROVE  /\ ~owed'
                 /\ op'.kind = "execute" =>
                       s < op'.slot \/ (s = op'.slot /\ op'.step = "state")
      <3>1. CASE AttemptKey(s, 0) \in keys
        BY <1>1, <1>12, <1>16, <3>1 DEF BatchInv, SlotKeys
      <3>2. CASE AttemptKey(s, 0) = key
        <4>1. s = op.slot /\ op.task = 0
          BY <3>2, KeyShapes DEF key
        <4>2. op.kind = "execute"
          BY <1>2, <1>3, <4>1
        <4>3. ~owed
          BY <4>2 DEF BatchInv, DraftOfSlot
        <4> QED BY <1>1, <1>12, <4>1, <4>3
      <3> QED BY <1>5, <2>3, <3>1, <3>2
    <2> QED BY <2>1, <2>2, <2>3 DEF SlotKeys
  <1>17. (\A r \in Time : ReleaseKeys(r)') /\ LiveInMemory' /\ LiveHold'
    <2>1. \A r : key # <<"release-assembled", r>> /\ \A t : key # <<"release-withdrawn", r, t>>
      BY KeyShapes DEF key
    <2>2. \A s \in Slot : disk.slots[s].state = "accepted" => disk'.slots[s] = disk.slots[s]
      BY <1>2, <1>9 DEF ButSlot
    <2> QED BY <1>5, <1>8, <1>9, <2>1, <2>2, ReleasesKept DEF ButSlot
  <1>18. DraftOfSlot'
    <2>1. a = Attempt(op'.task, op'.status)
      BY <1>12 DEF a
    <2>2. \E i \in DOMAIN disk'.slots[op'.slot].attempts :
             disk'.slots[op'.slot].attempts[i] = Attempt(op'.task, op'.status)
      BY <1>9, <1>10, <1>12, <2>1
    <2>3. op.status = "accepted" => ThisRun' \in facts' /\ content'[op'.slot] = op'.task
      <3>1. op.status = "accepted" => ThisRun \in facts /\ content[op.slot] = op.task
        BY <1>1 DEF BatchInv, DraftOfSlot
      <3> QED BY <1>1, <1>12, <3>1 DEF ThisRun
    <2>4. /\ op.kind \in {"execute", "resume", "revise"} /\ (op.kind = "execute" => ~owed)
      BY <1>1 DEF BatchInv, DraftOfSlot, Drafting
    <2>5. disk'.slots[op'.slot].state # "accepted" /\ disk'.slots[op'.slot].current = op'.task
      BY <1>2, <1>6, <1>9, <1>12 DEF HasAttempt
    <2>6. mem'.submitted
      BY <1>2, <1>8 DEF ButSlot
    <2> QED BY <1>1, <1>2, <1>12, <2>2, <2>3, <2>4, <2>5, <2>6 DEF DraftOfSlot, Drafting
  <1>19. ReleaseAtHand'
    BY <1>12 DEF ReleaseAtHand
  <1> QED BY <1>13, <1>14, <1>15, <1>16, <1>17, <1>18, <1>19 DEF BatchInv

LEMMA RecordSlotStateStep ==
    ASSUME BatchInv, LeftInv, RecordSlotState
    PROVE  BatchInv'
  <1> DEFINE acc == IF op.status = "accepted" THEN op.task ELSE NoTask
             both == mem'.slots[op.slot].accepted
             key == <<"slot-state", op.slot, op.status, now>>
  <1>1. /\ op.step = "state" /\ mem' = WithSlot(mem, op.slot, op.status, acc)
        /\ Put(key, WithSlot(disk, op.slot, op.status, both))
        /\ UNCHANGED <<owed, facts, content, now>>
        /\ IF op.kind = "revise" THEN Return ELSE Walk(mem', op.kind, op.slot + 1)
    BY DEF RecordSlotState, world
  <1>2. /\ op.slot \in Slot /\ op.task \in Nat /\ mem.submitted
        /\ op.kind \in {"execute", "resume", "revise"}
        /\ op.status \in {"accepted", "blocked"} /\ disk.slots[op.slot].state # "accepted"
        /\ disk.slots[op.slot].current = op.task
        /\ op.status = "accepted" => ThisRun \in facts /\ content[op.slot] = op.task
        /\ op.kind = "execute" => ~owed
    BY <1>1 DEF BatchInv, DraftOfSlot, Drafting
  <1>3. /\ mem \in Batches /\ disk \in Batches /\ mem.slots = disk.slots
        /\ mem.submitted = disk.submitted /\ now \in Time
    BY DEF BatchInv, TypeInv, SlotsAgree
  <1>4. /\ acc \in Tasks /\ (acc = NoTask <=> op.status = "blocked")
        /\ op.status \in SlotState /\ (op.status = "accepted" => acc = op.task)
    BY <1>2 DEF Tasks, NoTask, SlotState
  <1>5. /\ keys' = keys \cup {key} /\ (key \in keys => disk' = disk)
        /\ (key \notin keys => disk' = WithSlot(disk, op.slot, op.status, both))
    BY <1>1, Puts
  <1> HIDE DEF acc
  <1>6. ButSlot(mem, mem', op.slot) /\ HasState(mem, mem', op.slot, op.status, acc)
    BY <1>1, <1>2, <1>3, <1>4, SlotMade
  <1>7. both = IF acc = NoTask THEN disk.slots[op.slot].accepted ELSE acc
    BY <1>3, <1>6 DEF HasState
  <1>8. both \in Tasks
    BY <1>6 DEF ButSlot, Slots
  <1> HIDE DEF both
  \* An event that is dropped would have said what the log says.
  <1>9. ButSlot(disk, disk', op.slot) /\ HasState(disk, disk', op.slot, op.status, acc)
    <2>1. CASE key \in keys
      <3>1. disk' = disk
        BY <1>5, <2>1
      <3>2. disk.slots[op.slot].state \in {op.status, "accepted"}
        BY <1>2, <1>3, <2>1 DEF BatchInv, SlotKeys
      <3>3. disk.slots[op.slot].state = "blocked" /\ op.status = "blocked" /\ acc = NoTask
        BY <1>2, <1>4, <3>2
      <3>4. ButSlot(disk, disk', op.slot)
        BY <1>2, <1>3, <3>1 DEF ButSlot, Batches
      <3>5. HasState(disk, disk', op.slot, op.status, acc)
        BY <3>1, <3>3 DEF HasState
      <3> QED BY <3>4, <3>5
    <2>2. CASE key \notin keys
      <3>1. disk' = WithSlot(disk, op.slot, op.status, both)
        BY <1>5, <2>2
      <3>2. ButSlot(disk, disk', op.slot) /\ HasState(disk, disk', op.slot, op.status, both)
        BY <1>2, <1>3, <1>4, <1>8, <3>1, SlotMade
      <3>3. HasState(disk, disk', op.slot, op.status, acc)
        BY <1>7, <3>2 DEF HasState
      <3> QED BY <3>2, <3>3
    <2> QED BY <2>1, <2>2
  <1>10. mem'.slots = disk'.slots
    <2>1. mem'.slots[op.slot].state = disk'.slots[op.slot].state
      BY <1>6, <1>9 DEF HasState
    <2>2. mem'.slots[op.slot].attempts = disk'.slots[op.slot].attempts
      BY <1>3, <1>6, <1>9 DEF HasState
    <2>3. mem'.slots[op.slot].current = disk'.slots[op.slot].current
      BY <1>3, <1>6, <1>9 DEF HasState
    <2>4. mem'.slots[op.slot].accepted = disk'.slots[op.slot].accepted
      BY <1>3, <1>6, <1>9 DEF HasState
    <2> QED BY <1>2, <1>3, <1>6, <1>9, <2>1, <2>2, <2>3, <2>4, SameChange
  <1>11. \/ op' = Idle
         \/ /\ op' \in Operations /\ op'.kind = op.kind /\ op'.step = "run"
            /\ op'.slot \in Slot /\ op'.slot >= op.slot + 1
            /\ mem'.slots[op'.slot].state # "accepted"
            /\ op'.task = IF op.kind = "execute" THEN 0 ELSE Len(mem'.slots[op'.slot].attempts) + 1
    <2>1. CASE op.kind = "revise"
      BY <1>1, <2>1 DEF Return
    <2>2. CASE op.kind \in {"execute", "resume"}
      <3>1. op.slot + 1 \in Nat \ {0} /\ mem' \in Batches /\ Walk(mem', op.kind, op.slot + 1)
        BY <1>1, <1>2, <1>6, <2>2 DEF Slot, ButSlot
      <3>2. ASSUME NEW s \in left, s >= op.slot + 1 PROVE mem'.slots[s].state # "accepted"
        <4>1. s \in Slot /\ s # op.slot /\ mem.slots[s].state # "accepted"
          BY <1>2, <3>2 DEF LeftInv, Slot
        <4> QED BY <1>6, <4>1 DEF ButSlot
      <3> QED BY <2>2, <3>1, <3>2, Walks
    <2> QED BY <1>2, <2>1, <2>2
  <1>12. op' \in Operations
    BY <1>11, IdleIs
  <1>13. TypeInv'
    BY <1>1, <1>6, <1>9, <1>12 DEF BatchInv, TypeInv, ButSlot
  <1>14. SlotsAgree' /\ NothingYet'
    BY <1>2, <1>3, <1>6, <1>9, <1>10 DEF ButSlot, SlotsAgree, NothingYet
  <1>15. ASSUME NEW s \in Slot PROVE Accepted(s)'
    <2>1. CASE s = op.slot
      <3>1. disk'.slots[s].state = "accepted" <=> op.status = "accepted"
        BY <1>9, <2>1 DEF HasState
      <3>2. /\ disk'.slots[s].current = op.task
            /\ disk'.slots[s].attempts = disk.slots[op.slot].attempts
        BY <1>2, <1>9, <2>1 DEF HasState
      <3>3. op.status = "accepted" => disk'.slots[s].accepted = op.task
        <4>1. op.status = "accepted" => acc = op.task /\ acc # NoTask
          BY <1>4
        <4> QED BY <1>9, <2>1, <4>1 DEF HasState
      <3>4. op.status = "accepted" =>
               \E i \in DOMAIN disk.slots[op.slot].attempts :
                  disk.slots[op.slot].attempts[i] = Attempt(op.task, "accepted")
        BY <1>1 DEF BatchInv, DraftOfSlot
      <3>5. op.status = "accepted" => <<s, op.task>> \in facts /\ content[s] = op.task
        BY <1>2, <2>1 DEF ThisRun
      <3>6. facts' = facts /\ content' = content /\ op.task \in Nat
        BY <1>1, <1>2
      <3> HIDE DEF acc
      <3> QED BY <3>1, <3>2, <3>3, <3>4, <3>5, <3>6 DEF Accepted
    <2>2. CASE s # op.slot
      BY <1>1, <1>9, <1>15, <2>2 DEF ButSlot, Accepted, BatchInv
    <2> QED BY <2>1, <2>2
  <1>16. ASSUME NEW s \in Slot PROVE SlotKeys(s)'
    <2>0. disk'.slots[s].attempts = disk.slots[s].attempts
      BY <1>9, <1>16 DEF ButSlot, HasState
    <2>1. \A t : AttemptKey(s, t) \in keys' => AttemptKey(s, t) \in keys
      BY <1>5, KeyShapes
    <2>2. \A t \in Nat : AttemptKey(s, t) \in keys' => t <= Len(disk'.slots[s].attempts)
      BY <1>16, <2>0, <2>1 DEF BatchInv, SlotKeys
    <2>3. ASSUME NEW status \in {"accepted", "blocked"}, NEW t \in Time,
                 <<"slot-state", s, status, t>> \in keys'
          PROVE  disk'.slots[s].state \in {status, "accepted"}
      <3>1. CASE <<"slot-state", s, status, t>> \in keys
        <4>1. disk.slots[s].state \in {status, "accepted"}
          BY <1>16, <3>1 DEF BatchInv, SlotKeys
        <4>2. CASE s = op.slot
          BY <1>2, <1>9, <4>1, <4>2 DEF HasState
        <4>3. CASE s # op.slot
          BY <1>9, <1>16, <4>1, <4>3 DEF ButSlot
        <4> QED BY <4>2, <4>3
      <3>2. CASE <<"slot-state", s, status, t>> = key
        BY <1>9, <3>2 DEF HasState
      <3> QED BY <1>5, <2>3, <3>1, <3>2
    <2>4. ASSUME AttemptKey(s, 0) \in keys'
          PROVE  /\ ~owed'
                 /\ op'.kind = "execute" =>
                       s < op'.slot \/ (s = op'.slot /\ op'.step = "state")
      <3>1. /\ ~owed
            /\ op.kind = "execute" => s < op.slot \/ s = op.slot
        BY <1>16, <2>1, <2>4 DEF BatchInv, SlotKeys
      <3>2. s \in Nat /\ op.slot \in Nat /\ (op' # Idle => op'.slot \in Nat)
        BY <1>2, <1>11, <1>16 DEF Slot
      <3>3. op'.kind = "execute" => op.kind = "execute" /\ op'.slot >= op.slot + 1 /\ op' # Idle
        BY <1>11, IdleIs
      <3> QED BY <1>1, <3>1, <3>2, <3>3
    <2> QED BY <2>2, <2>3, <2>4 DEF SlotKeys
  <1>17. (\A r \in Time : ReleaseKeys(r)') /\ LiveInMemory' /\ LiveHold'
    <2>1. \A r : key # <<"release-assembled", r>> /\ \A t : key # <<"release-withdrawn", r, t>>
      <3>1. key[1] = "slot-state"
        OBVIOUS
      <3>2. \A r : <<"release-assembled", r>>[1] = "release-assembled"
        OBVIOUS
      <3>3. \A r, t : <<"release-withdrawn", r, t>>[1] = "release-withdrawn"
        OBVIOUS
      <3> HIDE DEF key
      <3> QED BY <3>1, <3>2, <3>3
    <2>2. \A s \in Slot : disk.slots[s].state = "accepted" => disk'.slots[s] = disk.slots[s]
      BY <1>2, <1>9 DEF ButSlot
    <2>3. mem'.releases = mem.releases /\ disk'.releases = disk.releases
      BY <1>6, <1>9 DEF ButSlot
    <2> HIDE DEF key
    <2> QED BY <1>5, <2>1, <2>2, <2>3, ReleasesKept
  <1>18. DraftOfSlot'
    <2>1. CASE op' = Idle
      BY <2>1, IdleIs DEF DraftOfSlot, Drafting
    <2>2. CASE op' # Idle
      <3>1. op'.task \in Nat
        BY <1>6, <1>11, <2>2 DEF ButSlot, Batches, Slots
      <3>2. mem'.submitted
        BY <1>2, <1>6 DEF ButSlot
      <3> QED BY <1>1, <1>2, <1>10, <1>11, <2>2, <3>1, <3>2 DEF DraftOfSlot, Drafting
    <2> QED BY <2>1, <2>2
  <1>19. ReleaseAtHand'
    BY <1>11, IdleIs DEF ReleaseAtHand
  <1> QED BY <1>13, <1>14, <1>15, <1>16, <1>17, <1>18, <1>19 DEF BatchInv

\* An event of a release leaves the slots alone and ends its operation.
LEMMA SlotsKept ==
    ASSUME BatchInv, mem.submitted, NEW r \in Time, op' = Idle,
           UNCHANGED <<owed, facts, content, now>>,
           ButRelease(mem, mem', r), disk' = disk \/ ButRelease(disk, disk', r),
           NEW key, keys' = keys \cup {key},
           key[1] \in {"release-assembled", "release-published", "release-withdrawn"},
           \A p \in Time : ReleaseKeys(p)', LiveInMemory', LiveHold'
    PROVE  BatchInv'
  <1>1. mem' \in Batches /\ mem'.slots = mem.slots /\ mem'.submitted = mem.submitted
    BY DEF ButRelease
  <1>2. disk' \in Batches /\ disk'.slots = disk.slots /\ disk'.submitted = disk.submitted
    BY DEF ButRelease, BatchInv, TypeInv
  <1>3. TypeInv'
    BY <1>1, <1>2, IdleIs DEF BatchInv, TypeInv
  <1>4. SlotsAgree' /\ NothingYet'
    BY <1>1, <1>2 DEF BatchInv, SlotsAgree, NothingYet
  <1>5. ASSUME NEW s \in Slot PROVE Accepted(s)'
    BY <1>2, <1>5 DEF BatchInv, Accepted
  <1>6. ASSUME NEW s \in Slot PROVE SlotKeys(s)'
    <2>1. \A t : AttemptKey(s, t) # key
      <3>1. \A t : AttemptKey(s, t)[1] = "attempt"
        BY DEF AttemptKey
      <3> QED BY <3>1
    <2>2. \A status, t : <<"slot-state", s, status, t>> # key
      <3>1. \A status, t : <<"slot-state", s, status, t>>[1] = "slot-state"
        OBVIOUS
      <3> QED BY <3>1
    <2>3. SlotKeys(s)
      BY <1>6 DEF BatchInv
    <2>4. op'.kind # "execute"
      BY IdleIs
    <2> QED BY <1>2, <2>1, <2>2, <2>3, <2>4 DEF SlotKeys
  <1>7. DraftOfSlot' /\ ReleaseAtHand'
    BY IdleIs DEF DraftOfSlot, Drafting, ReleaseAtHand
  <1> QED BY <1>3, <1>4, <1>5, <1>6, <1>7 DEF BatchInv

\* Keys of releases differ in their first word and in the release.
LEMMA ReleaseKeyShapes ==
    /\ \A r : <<"release-assembled", r>>[1] = "release-assembled"
    /\ \A r : <<"release-published", r>>[1] = "release-published"
    /\ \A r, t : <<"release-withdrawn", r, t>>[1] = "release-withdrawn"
    /\ \A p, r : <<"release-assembled", p>> = <<"release-assembled", r>> => p = r
    /\ \A p, r, t, u :
          <<"release-withdrawn", p, t>> = <<"release-withdrawn", r, u>> => p = r
    /\ \A p, r, t : <<"release-assembled", p>> # <<"release-withdrawn", r, t>>
  <1>1. \A r : <<"release-assembled", r>>[1] = "release-assembled"
    OBVIOUS
  <1>2. \A r : <<"release-published", r>>[1] = "release-published"
    OBVIOUS
  <1>3. \A r, t : <<"release-withdrawn", r, t>>[1] = "release-withdrawn"
    OBVIOUS
  <1>4. \A p, r : <<"release-assembled", p>> = <<"release-assembled", r>> => p = r
    OBVIOUS
  <1>5. \A p, r, t, u : <<"release-withdrawn", p, t>> = <<"release-withdrawn", r, u>> => p = r
    OBVIOUS
  <1>6. \A p, r, t : <<"release-assembled", p>> # <<"release-withdrawn", r, t>>
    BY <1>1, <1>3
  <1> QED BY <1>1, <1>2, <1>3, <1>4, <1>5, <1>6

LEMMA RecordReleaseStep ==
    ASSUME BatchInv, RecordRelease
    PROVE  BatchInv'
  <1>0. PICK r \in Time : r = op.release
    BY DEF BatchInv, TypeInv, Operations
  <1> DEFINE chapters == Chapters(mem)
             key == <<"release-assembled", r>>
  <1>1. /\ op.step = "assembled" /\ mem' = WithRelease(mem, r, chapters)
        /\ Put(key, WithRelease(disk, r, chapters)) /\ op' = Idle
        /\ UNCHANGED <<owed, facts, content, now>>
    BY <1>0 DEF RecordRelease, Return, world
  <1>2. /\ mem \in Batches /\ disk \in Batches /\ mem.slots = disk.slots
        /\ \A p \in Time : mem.releases[p].status # "ready"
        /\ \A s \in Required : disk.slots[s].state = "accepted"
    BY <1>1 DEF BatchInv, TypeInv, SlotsAgree, ReleaseAtHand
  <1>3. mem.submitted
    BY <1>1, IdleIs DEF BatchInv, NothingYet
  <1>4. \A p \in Time : disk.releases[p].status # "ready"
    BY <1>2 DEF BatchInv, LiveInMemory
  <1>5. /\ chapters \in [Slot -> Tasks]
        /\ \A s \in Slot : chapters[s] =
              IF disk.slots[s].state = "accepted" THEN disk.slots[s].current ELSE NoTask
    BY <1>2 DEF Chapters, Batches, Slots, Tasks
  <1>6. keys' = keys \cup {key} /\ (key \in keys => disk' = disk)
        /\ (key \notin keys => disk' = WithRelease(disk, r, chapters))
    BY <1>1, Puts
  <1> HIDE DEF chapters, key
  <1>7. ButRelease(mem, mem', r)
    BY <1>1, <1>2, <1>5, Assembled
  <1>8. mem'.releases[r].status = "ready"
    BY <1>1, <1>2, <1>5, Assembled
  <1>9. ASSUME key \notin keys
        PROVE  /\ ButRelease(disk, disk', r)
               /\ disk'.releases[r].status = "ready" /\ disk'.releases[r].chapters = chapters
    BY <1>2, <1>5, <1>6, <1>9, Assembled
  <1>10. ASSUME NEW p \in Time PROVE ReleaseKeys(p)'
    <2>1. ASSUME mem'.releases[p].status = "ready" PROVE <<"release-assembled", p>> \in keys'
      <3>1. p = r
        BY <1>2, <1>7, <1>10, <2>1 DEF ButRelease
      <3> QED BY <1>6, <3>1 DEF key
    <2>2. ASSUME NEW t \in Time, <<"release-withdrawn", p, t>> \in keys'
          PROVE  <<"release-assembled", p>> \in keys' /\ disk'.releases[p].status # "ready"
      <3>1. <<"release-withdrawn", p, t>> \in keys
        BY <1>6, <2>2, ReleaseKeyShapes DEF key
      <3>2. <<"release-assembled", p>> \in keys
        BY <1>10, <3>1 DEF BatchInv, ReleaseKeys
      <3>3. CASE p = r
        <4>1. key \in keys
          BY <3>2, <3>3 DEF key
        <4> QED BY <1>4, <1>6, <1>10, <3>2, <4>1
      <3>4. CASE p # r
        <4>1. disk'.releases[p] = disk.releases[p]
          BY <1>6, <1>9, <1>10, <3>4 DEF ButRelease
        <4> QED BY <1>4, <1>6, <1>10, <3>2, <4>1
      <3> QED BY <1>6, <3>2, <3>3, <3>4
    <2> QED BY <2>1, <2>2 DEF ReleaseKeys
  <1>11. \A p \in Time : disk'.releases[p].status = "ready" => p = r /\ key \notin keys
    BY <1>4, <1>6, <1>9 DEF ButRelease
  <1>12. LiveInMemory'
    BY <1>8, <1>11 DEF LiveInMemory
  <1>13. ASSUME key \notin keys PROVE Holds(r)'
    <2>1. disk'.slots = disk.slots /\ disk'.releases[r].chapters = chapters
      BY <1>9, <1>13 DEF ButRelease
    <2>2. ASSUME NEW s \in Slot, disk.slots[s].state = "accepted"
          PROVE  chapters[s] # NoTask /\ disk.slots[s].accepted = chapters[s]
      <3>1. disk.slots[s].current \in Nat /\ disk.slots[s].accepted = disk.slots[s].current
        BY <2>2 DEF BatchInv, Accepted
      <3> QED BY <1>5, <2>2, <3>1 DEF NoTask
    <2>3. \A s \in Required : chapters[s] # NoTask
      BY <1>2, <2>2, BatchAssumption
    <2>4. ASSUME NEW s \in Slot, chapters[s] # NoTask
          PROVE  disk.slots[s].state = "accepted" /\ disk.slots[s].accepted = chapters[s]
      <3>1. disk.slots[s].state = "accepted"
        BY <1>5, <2>4
      <3> QED BY <2>2, <3>1
    <2>5. /\ \A s \in Required : disk'.releases[r].chapters[s] # NoTask
          /\ \A s \in Slot : disk'.releases[r].chapters[s] # NoTask =>
                /\ disk'.slots[s].state = "accepted"
                /\ disk'.slots[s].accepted = disk'.releases[r].chapters[s]
      BY <2>1, <2>3, <2>4
    <2> QED BY <2>5 DEF Holds
  <1>14. LiveHold'
    BY <1>11, <1>13 DEF LiveHold
  <1>15. key[1] = "release-assembled"
    BY ReleaseKeyShapes DEF key
  <1>16. disk' = disk \/ ButRelease(disk, disk', r)
    BY <1>6, <1>9
  <1> QED BY <1>1, <1>2, <1>3, <1>6, <1>7, <1>10, <1>12, <1>14, <1>15, <1>16, SlotsKept

LEMMA RecordPublishedStep ==
    ASSUME BatchInv, RecordPublished
    PROVE  BatchInv'
  <1>0. PICK r \in Time : r = op.release
    BY DEF BatchInv, TypeInv, Operations
  <1> DEFINE key == <<"release-published", r>>
  <1>1. /\ op.step = "published" /\ mem' = Published(mem, r, op.status)
        /\ Put(key, Published(disk, r, op.status)) /\ op' = Idle
        /\ UNCHANGED <<owed, facts, content, now>>
    BY <1>0 DEF RecordPublished, Return, world
  <1>2. mem \in Batches /\ disk \in Batches /\ op.status \in Verdict
    BY <1>1 DEF BatchInv, TypeInv, ReleaseAtHand
  <1>3. mem.submitted
    BY <1>1, IdleIs DEF BatchInv, NothingYet
  <1>4. keys' = keys \cup {key} /\ (disk' = disk \/ disk' = Published(disk, r, op.status))
    BY <1>1, Puts
  <1>5. key[1] = "release-published"
    BY ReleaseKeyShapes
  <1> HIDE DEF key
  <1>6. /\ ButRelease(mem, mem', r)
        /\ \A p \in Time : mem'.releases[p].status = mem.releases[p].status
    <2>1. ButRelease(mem, mem', r) /\ mem'.releases[r].status = mem.releases[r].status
      BY <1>1, <1>2, Shown
    <2> QED BY <2>1 DEF ButRelease
  <1>7. /\ disk' = disk \/ ButRelease(disk, disk', r)
        /\ disk'.slots = disk.slots
        /\ \A p \in Time : /\ disk'.releases[p].status = disk.releases[p].status
                            /\ disk'.releases[p].chapters = disk.releases[p].chapters
    <2>1. CASE disk' = disk
      BY <2>1
    <2>2. CASE disk' = Published(disk, r, op.status)
      <3>1. /\ ButRelease(disk, disk', r)
            /\ disk'.releases[r].status = disk.releases[r].status
            /\ disk'.releases[r].chapters = disk.releases[r].chapters
        BY <1>2, <2>2, Shown
      <3> QED BY <3>1 DEF ButRelease
    <2> QED BY <1>4, <2>1, <2>2
  <1>8. ASSUME NEW p \in Time PROVE ReleaseKeys(p)'
    <2>1. \A t : <<"release-withdrawn", p, t>> # key
      BY <1>5, ReleaseKeyShapes
    <2> QED BY <1>4, <1>6, <1>7, <1>8, <2>1 DEF BatchInv, ReleaseKeys
  <1>9. LiveInMemory'
    BY <1>6, <1>7 DEF BatchInv, LiveInMemory
  <1>10. LiveHold'
    BY <1>7 DEF BatchInv, LiveHold, Holds
  <1> QED BY <1>1, <1>2, <1>3, <1>4, <1>5, <1>6, <1>7, <1>8, <1>9, <1>10, SlotsKept

LEMMA WithdrawStep ==
    ASSUME BatchInv, NEW r \in Time, WithdrawRelease(r)
    PROVE  BatchInv'
  <1> DEFINE key == <<"release-withdrawn", r, now>>
  <1>1. /\ op = Idle /\ op' = op /\ mem.releases[r].status = "ready"
        /\ mem' = Withdrawn(mem, r) /\ Put(key, Withdrawn(disk, r))
        /\ UNCHANGED <<owed, facts, content, now>>
    BY DEF WithdrawRelease, Free, world
  <1>2. mem \in Batches /\ disk \in Batches /\ now \in Time
    BY DEF BatchInv, TypeInv
  <1>3. mem.submitted
    BY <1>1 DEF BatchInv, NothingYet, NoBatch, NoRelease
  <1>4. keys' = keys \cup {key} /\ (key \in keys => disk' = disk)
        /\ (key \notin keys => disk' = Withdrawn(disk, r))
    BY <1>1, Puts
  <1>5. key[1] = "release-withdrawn"
    BY ReleaseKeyShapes
  <1>6. <<"release-assembled", r>> \in keys
    BY <1>1 DEF BatchInv, ReleaseKeys
  <1>7. ButRelease(mem, mem', r) /\ mem'.releases[r].status = "withdrawn"
    BY <1>1, <1>2, Taken
  \* A second withdrawal in the same second is dropped: the log has the first.
  <1>8. disk' = disk \/ ButRelease(disk, disk', r)
    BY <1>2, <1>4, Taken
  <1>9. disk'.releases[r].status # "ready"
    <2>1. CASE key \in keys
      BY <1>2, <1>4, <2>1 DEF BatchInv, ReleaseKeys
    <2>2. CASE key \notin keys
      BY <1>2, <1>4, <2>2, Taken
    <2> QED BY <2>1, <2>2
  <1>10. \A p \in Time : p # r => disk'.releases[p] = disk.releases[p]
                                 /\ mem'.releases[p] = mem.releases[p]
    BY <1>7, <1>8 DEF ButRelease
  <1>11. \A p, t : <<"release-withdrawn", p, t>> = key => p = r
    BY ReleaseKeyShapes
  <1> HIDE DEF key
  <1>12. ASSUME NEW p \in Time PROVE ReleaseKeys(p)'
    <2>1. CASE p = r
      BY <1>4, <1>6, <1>7, <1>9, <2>1 DEF ReleaseKeys
    <2>2. CASE p # r
      BY <1>4, <1>10, <1>11, <1>12, <2>2 DEF BatchInv, ReleaseKeys
    <2> QED BY <2>1, <2>2
  <1>13. LiveInMemory'
    BY <1>9, <1>10 DEF BatchInv, LiveInMemory
  <1>14. LiveHold'
    <2>1. disk'.slots = disk.slots
      BY <1>8 DEF ButRelease
    <2> QED BY <1>9, <1>10, <2>1 DEF BatchInv, LiveHold, Holds
  <1> QED BY <1>1, <1>3, <1>4, <1>5, <1>7, <1>8, <1>12, <1>13, <1>14, SlotsKept

\* A draft that raises ends its operation and changes nothing that is on file.
LEMMA DraftRaisesStep ==
    ASSUME BatchInv, DraftRaises
    PROVE  BatchInv'
  <1>1. /\ op.step \in Drafting /\ op' = Idle
        /\ UNCHANGED <<mem, disk, keys, owed, facts, content, now>>
    BY DEF DraftRaises, Return, Drafting, world
  <1>2. mem.submitted
    BY <1>1 DEF BatchInv, DraftOfSlot
  <1>3. DraftOfSlot' /\ ReleaseAtHand'
    BY <1>1, IdleIs DEF DraftOfSlot, Drafting, ReleaseAtHand
  <1> QED BY <1>1, <1>2, <1>3, IdleIs, SameKeysKept, OnStep DEF BatchInv, TypeInv

\* What a restart replays: the slots are the log's, and so are the live releases.
LEMMA CrashStep ==
    ASSUME BatchInv, Crash
    PROVE  BatchInv'
  <1>1. /\ mem' = disk /\ op' = Idle /\ owed' = FALSE
        /\ UNCHANGED <<disk, keys, facts, content, now>>
    BY DEF Crash, Return, world
  <1>2. mem.submitted
    BY DEF Crash
  <1>3. TypeInv'
    BY <1>1, IdleIs DEF BatchInv, TypeInv
  <1>4. SlotsAgree' /\ NothingYet'
    BY <1>1, <1>2 DEF BatchInv, SlotsAgree, NothingYet
  <1>5. ASSUME NEW s \in Slot PROVE Accepted(s)'
    BY <1>1, <1>5 DEF BatchInv, Accepted
  <1>6. ASSUME NEW s \in Slot PROVE SlotKeys(s)'
    BY <1>1, <1>6, IdleIs DEF BatchInv, SlotKeys
  <1>7. ASSUME NEW r \in Time PROVE ReleaseKeys(r)'
    BY <1>1, <1>7 DEF BatchInv, ReleaseKeys, LiveInMemory
  <1>8. LiveInMemory' /\ LiveHold'
    BY <1>1 DEF BatchInv, LiveInMemory, LiveHold, Holds
  <1>9. DraftOfSlot' /\ ReleaseAtHand'
    BY <1>1, IdleIs DEF DraftOfSlot, Drafting, ReleaseAtHand
  <1> QED BY <1>3, <1>4, <1>5, <1>6, <1>7, <1>8, <1>9 DEF BatchInv

-----------------------------------------------------------------------------
LEMMA Initially == Init => BatchInv
  <1> SUFFICES ASSUME Init PROVE BatchInv
    OBVIOUS
  <1>1. FreshSlot \in Slots
    BY DEF FreshSlot, Slots, SlotState, Tasks
  <1>2. NoRelease \in Releases /\ NoRelease.status = "none"
    BY DEF NoRelease, Releases, Tasks
  <1>3. NoBatch \in Batches /\ ~NoBatch.submitted
    BY <1>1, <1>2 DEF NoBatch, Batches
  <1>4. /\ \A s \in Slot : NoBatch.slots[s].state = "pending"
        /\ \A r \in Time : NoBatch.releases[r].status = "none"
    BY <1>2 DEF NoBatch, FreshSlot
  <1>5. /\ mem = NoBatch /\ disk = NoBatch /\ keys = {} /\ op = Idle /\ owed = FALSE
        /\ now = 0 /\ content \in [Slot -> Tasks]
    BY DEF Init, Tasks
  <1>6. TypeInv
    BY <1>3, <1>5, IdleIs DEF TypeInv
  <1>7. SlotsAgree /\ NothingYet
    BY <1>5 DEF SlotsAgree, NothingYet
  <1>8. \A s \in Slot : Accepted(s) /\ SlotKeys(s)
    BY <1>4, <1>5 DEF Accepted, SlotKeys
  <1>9. (\A r \in Time : ReleaseKeys(r)) /\ LiveInMemory /\ LiveHold
    BY <1>4, <1>5 DEF ReleaseKeys, LiveInMemory, LiveHold
  <1>10. DraftOfSlot /\ ReleaseAtHand
    BY <1>5, IdleIs DEF DraftOfSlot, Drafting, ReleaseAtHand
  <1> QED BY <1>6, <1>7, <1>8, <1>9, <1>10 DEF BatchInv

LEMMA LeftKept ==
    ASSUME BatchInv, LeftInv, [Next]_vars
    PROVE  LeftInv'
  <1>1. /\ mem \in Batches /\ disk \in Batches /\ op \in Operations /\ mem.slots = disk.slots
        /\ ~mem.submitted => mem = NoBatch
    BY DEF BatchInv, TypeInv, SlotsAgree, NothingYet
  <1>2. CASE left' \subseteq left /\ mem'.slots = mem.slots
    BY <1>2 DEF LeftInv
  <1>3. CASE Submit
    <2>1. mem = NoBatch /\ mem' = Submitted /\ left' = left
      BY <1>1, <1>3 DEF Submit
    <2> QED BY <1>1, <1>2, <2>1 DEF Submitted, Batches
  <1>4. CASE RecordAttempt
    <2>1. /\ mem' = WithAttempt(mem, op.slot, Attempt(op.task, op.status)) /\ left' = left
          /\ op.slot \in Slot /\ op.task \in Nat /\ op.status \in {"accepted", "blocked"}
      BY <1>4 DEF RecordAttempt, BatchInv, DraftOfSlot, Drafting
    <2>2. Attempt(op.task, op.status) \in Attempts
      BY <2>1 DEF Attempt, Attempts
    <2>3. /\ ButSlot(mem, mem', op.slot)
          /\ HasAttempt(mem, mem', op.slot, Attempt(op.task, op.status))
      BY <1>1, <2>1, <2>2, AttemptMade
    <2> QED BY <2>1, <2>3 DEF LeftInv, ButSlot, HasAttempt
  <1>5. CASE RecordSlotState
    <2> DEFINE acc == IF op.status = "accepted" THEN op.task ELSE NoTask
    <2>1. /\ mem' = WithSlot(mem, op.slot, op.status, acc) /\ left' = left \ {op.slot}
          /\ op.slot \in Slot /\ op.task \in Nat /\ op.status \in {"accepted", "blocked"}
      BY <1>5 DEF RecordSlotState, BatchInv, DraftOfSlot, Drafting
    <2>2. acc \in Tasks /\ op.status \in SlotState
      BY <2>1 DEF Tasks, SlotState
    <2> HIDE DEF acc
    <2>3. ButSlot(mem, mem', op.slot)
      BY <1>1, <2>1, <2>2, SlotMade
    <2> QED BY <2>1, <2>3 DEF LeftInv, ButSlot
  <1>6. CASE DraftRaises
    <2>1. op.step \in Drafting /\ mem' = mem /\ left' \subseteq left \cup {op.slot}
      BY <1>6 DEF DraftRaises, Drafting
    <2>2. op.slot \in Slot /\ mem.slots[op.slot].state # "accepted"
      BY <1>1, <2>1 DEF BatchInv, DraftOfSlot
    <2> QED BY <2>1, <2>2 DEF LeftInv
  <1>7. CASE RecordRelease
    <2>1. mem' = WithRelease(mem, op.release, Chapters(mem)) /\ left' = left
      BY <1>7 DEF RecordRelease
    <2>2. mem'.slots = mem.slots
      BY <1>1, <2>1 DEF WithRelease, Batches
    <2> QED BY <1>2, <2>1, <2>2
  <1>8. CASE RecordPublished
    <2>1. mem' = Published(mem, op.release, op.status) /\ left' = left
      BY <1>8 DEF RecordPublished
    <2>2. mem'.slots = mem.slots
      BY <1>1, <2>1 DEF Published, Batches
    <2> QED BY <1>2, <2>1, <2>2
  <1>9. ASSUME NEW r \in Time, WithdrawRelease(r) PROVE LeftInv'
    <2>1. mem' = Withdrawn(mem, r) /\ left' = left
      BY <1>9 DEF WithdrawRelease
    <2>2. mem'.slots = mem.slots
      BY <1>1, <2>1 DEF Withdrawn, Batches
    <2> QED BY <1>2, <2>1, <2>2
  <1>10. CASE Crash
    BY <1>10 DEF Crash, LeftInv
  <1>11. CASE Execute \/ Resume \/ Assemble \/ Tick \/ UNCHANGED vars
    BY <1>2, <1>11 DEF Execute, Resume, Assemble, Tick, vars
  <1>12. ASSUME NEW s \in Slot, NEW reason \in Reason, Revise(s, reason) PROVE LeftInv'
    BY <1>2, <1>12 DEF Revise
  <1>13. ASSUME NEW r \in Time, NEW verdict \in Verdict, Publish(r, verdict) PROVE LeftInv'
    BY <1>2, <1>13 DEF Publish
  <1>14. CASE RunAccepted \/ RunBlocked \/ RunExists
    BY <1>2, <1>14 DEF RunAccepted, RunBlocked, RunExists
  <1>15. CASE RegisterFacts \/ StoreContent \/ RecordRevision \/ RegisterRelease
    BY <1>2, <1>15 DEF RegisterFacts, StoreContent, RecordRevision, RegisterRelease
  <1> QED BY <1>3, <1>4, <1>5, <1>6, <1>7, <1>8, <1>9, <1>10, <1>11, <1>12, <1>13, <1>14,
             <1>15 DEF Next, OperationStep

LEMMA BatchKept ==
    ASSUME BatchInv, LeftInv, [Next]_vars
    PROVE  BatchInv'
  <1>1. CASE Submit
    BY <1>1, SubmitStep
  <1>2. CASE Execute \/ Resume
    BY <1>2, ExecuteStep
  <1>3. ASSUME NEW s \in Slot, NEW reason \in Reason, Revise(s, reason) PROVE BatchInv'
    BY <1>3, ReviseStep
  <1>4. CASE RunAccepted \/ RunBlocked \/ RunExists
    BY <1>4, RunStep
  <1>5. CASE RegisterFacts
    BY <1>5, RegisterFactsStep
  <1>6. CASE StoreContent
    BY <1>6, StoreContentStep
  <1>7. CASE RecordRevision
    BY <1>7, RecordRevisionStep
  <1>8. CASE RecordAttempt
    BY <1>8, RecordAttemptStep
  <1>9. CASE RecordSlotState
    BY <1>9, RecordSlotStateStep
  <1>10. CASE Assemble
    BY <1>10, AssembleStep
  <1>11. CASE RegisterRelease
    BY <1>11, RegisterReleaseStep
  <1>12. CASE RecordRelease
    BY <1>12, RecordReleaseStep
  <1>13. ASSUME NEW r \in Time, NEW verdict \in Verdict, Publish(r, verdict) PROVE BatchInv'
    BY <1>13, PublishStep
  <1>14. CASE RecordPublished
    BY <1>14, RecordPublishedStep
  <1>15. ASSUME NEW r \in Time, WithdrawRelease(r) PROVE BatchInv'
    BY <1>15, WithdrawStep
  <1>16. CASE Tick
    <2>1. now' \in Time
      BY <1>16, BatchAssumption DEF Tick, BatchInv, TypeInv, Time
    <2> QED BY <1>16, <2>1, Stutter DEF Tick
  <1>17. CASE Crash
    BY <1>17, CrashStep
  <1>18. CASE UNCHANGED vars
    BY <1>18, Stutter DEF vars, BatchInv, TypeInv
  <1>19. CASE DraftRaises
    BY <1>19, DraftRaisesStep
  <1> QED BY <1>1, <1>2, <1>3, <1>4, <1>5, <1>6, <1>7, <1>8, <1>9, <1>10, <1>11, <1>12,
             <1>13, <1>14, <1>15, <1>16, <1>17, <1>18, <1>19 DEF Next, OperationStep

LEMMA Always == Spec => []BatchInv
  <1>1. Init => LeftInv
    BY DEF Init, LeftInv
  <1>2. BatchInv /\ LeftInv /\ [Next]_vars => BatchInv' /\ LeftInv'
    BY BatchKept, LeftKept
  <1> QED BY <1>1, <1>2, Initially, PTL DEF Spec

\* Between operations a restart would find every slot as the service knows it
\* but for a mark an exception left (production_batch.py, _append_event and
\* _replay), also where an event was
\* dropped because its key was known.
THEOREM SlotsAreReplayedHolds == Spec => []SlotsAreReplayed
  <1>1. BatchInv => SlotsAreReplayed
    BY DEF BatchInv, SlotsAgree, SlotsAreReplayed
  <1> QED BY <1>1, Always, PTL

\* A restart finds one live release at most, and its chapters are the accepted
\* attempts of their slots, with their facts and their content, no required
\* one missing (assemble_release, withdraw_release), whatever crashes,
\* revisions and withdrawals came before.
THEOREM ReleaseIsSoundHolds == Spec => []ReleaseIsSound
  <1>1. ASSUME BatchInv PROVE OneLiveRelease
    <2>1. CASE Live(disk) = {}
      <3>1. Cardinality(Live(disk)) = 0
        BY <2>1, FS_EmptySet
      <3> QED BY <3>1 DEF OneLiveRelease
    <2>2. CASE Live(disk) # {}
      <3>1. PICK r \in Time : disk.releases[r].status = "ready"
        BY <2>2 DEF Live
      <3>2. Live(disk) = {r}
        BY <1>1, <3>1 DEF Live, BatchInv, LiveHold
      <3>3. Cardinality({r}) = 1
        BY FS_Singleton
      <3> QED BY <3>2, <3>3 DEF OneLiveRelease
    <2> QED BY <2>1, <2>2
  <1>2. ASSUME BatchInv PROVE ReleaseIsFaithful
    <2>1. ASSUME NEW r \in Live(disk) PROVE Holds(r)
      BY <1>2, <2>1 DEF Live, BatchInv, LiveHold
    <2>2. \A s \in Slot : Accepted(s)
      BY <1>2 DEF BatchInv
    <2>3. ASSUME NEW r \in Live(disk)
          PROVE  \A s \in Required : disk.releases[r].chapters[s] # NoTask
      BY <2>1, <2>3 DEF Holds
    <2>4. ASSUME NEW r \in Live(disk), NEW s \in Slot, disk.releases[r].chapters[s] # NoTask
          PROVE  LET c == disk.releases[r].chapters[s] IN
                 /\ disk.slots[s].state = "accepted" /\ disk.slots[s].accepted = c
                 /\ \E i \in DOMAIN disk.slots[s].attempts :
                       disk.slots[s].attempts[i] = Attempt(c, "accepted")
                 /\ <<s, c>> \in facts /\ content[s] = c
      <3>1. disk.slots[s].state = "accepted"
            /\ disk.slots[s].accepted = disk.releases[r].chapters[s]
        BY <2>1, <2>4 DEF Holds
      <3>2. disk.slots[s].current = disk.releases[r].chapters[s]
        BY <2>2, <3>1 DEF Accepted
      <3> QED BY <2>2, <3>1, <3>2 DEF Accepted
    <2> QED BY <2>3, <2>4 DEF ReleaseIsFaithful
  <1> QED BY <1>1, <1>2, Always, PTL DEF ReleaseIsSound
=============================================================================
