--------------------------- MODULE NovelOperations ---------------------------
(***************************************************************************)
(* The rolling production of a novel (novel_operations.py): proposals, the *)
(* owner's selection, a buffer of audited chapters, the owner's            *)
(* confirmation of the first, and advances that each write one chapter,    *)
(* release the oldest as it was audited, and slide the buffer.             *)
(*                                                                         *)
(* Every request opens a service of its own (ceo_api.py), which replays    *)
(* the event log into a copy of the operation, works on the copy, and      *)
(* appends the whole copy as its last act.  The last event is the state.   *)
(* Releases go through the production batch and the economic ledger,       *)
(* which keep files of their own (production_batch.py).                    *)
(***************************************************************************)
EXTENDS Naturals, Sequences, FiniteSets

CONSTANTS
    Call,         \* threads that serve requests
    Choice,       \* indexes of the proposals of a set
    WindowSize,   \* chapters in the buffer (five in the code)
    MaxAdvances,  \* bound: advances
    MaxDrafts,    \* bound: drafts of a chapter before the owner stops asking
    MaxSeconds,   \* bound: ticks of the clock
    MaxFaults     \* bound: crashes, failed model calls, changed files

ASSUME OperationsAssumption ==
    /\ WindowSize \in Nat \ {0}
    /\ Choice \subseteq Nat \ {0}
    /\ {MaxAdvances, MaxDrafts, MaxSeconds, MaxFaults} \subseteq Nat

None == 0

\* Chapters that can come into being.
Chapter == 1..(WindowSize + MaxAdvances)

VARIABLES
    log,        \* payload of the last event: the operation, or NoOp
    keys,       \* idempotency keys of the events
    tail,       \* the end of the log: "ended" by a newline, "unended", or "torn",
                \* which no service can replay
    bare,       \* the root has none of the shared folder (restored without it)
    content,    \* content[n]: the bytes in chapters/n/content.txt
    registered, \* registered[n]: the version fact of n's release batch
    stored,     \* stored[n]: the bytes the batch of n stores
    released,   \* released[n]: the bytes of n's assembled release
    second,     \* authoritative_timestamp, which counts seconds
    at,         \* at[c]: where request c is
    mem,        \* mem[c]: its copy of the operation
    fresh,      \* fresh[c]: the chapter just written by c
    view,       \* view[c]: the version facts in c's copy of the ledger
    \* History, read by properties only:
    moved,      \* canon entries released under another root, from which the
                \* operation was restored
    drafts,     \* drafts written so far, to tell one from another
    made,       \* made[n]: drafts written for chapter n
    faults,     \* faults so far
    tampered,   \* chapters whose file was changed by someone else
    excused     \* an advance was refused that could not have ended

events == <<log, keys, tail>>
store == <<content, registered, stored, released, bare>>
history == <<moved, drafts, made, faults, tampered, excused>>
operationsVars == <<events, store, second, at, mem, fresh, view, history>>

NoDigest == << >>
NoOp ==
    [phase |-> "none", proposals |-> None, selection |-> None, buffer |-> << >>,
     digest |-> NoDigest, confirmed |-> FALSE, canon |-> << >>, seq |-> 0,
     audits |-> << >>]
\* _new_op
NewOp == [NoOp EXCEPT !.phase = "created"]
NoFact == [bytes |-> None, second |-> None]

OperationsInit ==
    /\ log = NoOp /\ keys = {} /\ tail = "ended" /\ bare = FALSE
    /\ content = [n \in Chapter |-> None]
    /\ registered = [n \in Chapter |-> NoFact]
    /\ stored = [n \in Chapter |-> None]
    /\ released = [n \in Chapter |-> None]
    /\ second = 0
    /\ at = [c \in Call |-> "idle"]
    /\ mem = [c \in Call |-> NoOp]
    /\ fresh = [c \in Call |-> None]
    /\ view = [c \in Call |-> registered]
    /\ moved = 0 /\ drafts = 0 /\ made = [n \in Chapter |-> 0]
    /\ faults = 0 /\ tampered = {} /\ excused = FALSE

-----------------------------------------------------------------------------
Go(c, step) == at' = [at EXCEPT ![c] = step]

\* A request opens its service: the log is replayed, the ledger is read.  A log
\* with a line that is no event is OP_STATE_CORRUPT, for this request and every
\* other.
Readable == tail # "torn"

Open(c, step) ==
    /\ at[c] = "idle" /\ Readable
    /\ mem' = [mem EXCEPT ![c] = log]
    /\ view' = [view EXCEPT ![c] = registered]
    /\ Go(c, step)
    /\ UNCHANGED <<events, store, second, fresh, history>>

\* The request is over, with its answer or with an error.
Close(c) ==
    /\ Go(c, "idle")
    /\ mem' = [mem EXCEPT ![c] = NoOp]
    /\ fresh' = [fresh EXCEPT ![c] = None]
    /\ view' = [view EXCEPT ![c] = [n \in Chapter |-> NoFact]]

\* The process dies, with every request in it.
AllGone ==
    /\ faults < MaxFaults
    /\ faults' = faults + 1
    /\ at' = [c \in Call |-> "idle"]
    /\ mem' = [c \in Call |-> NoOp]
    /\ fresh' = [c \in Call |-> None]
    /\ view' = [c \in Call |-> [n \in Chapter |-> NoFact]]
    /\ UNCHANGED <<moved, drafts, made, tampered, excused>>

Recorded(key, op) == log' = op /\ keys' = keys \cup {key}
Unreadable == tail' = "torn" /\ UNCHANGED <<log, keys>>

\* A line and its newline are appended.  After an event without one the two
\* lines are one, which is no event.
Appended(key, op) ==
    IF tail = "ended" THEN Recorded(key, op) /\ UNCHANGED tail ELSE Unreadable

\* The process dies in the append: all but the newline was written, or less.
HalfAppended(key, op) ==
    \/ tail = "ended" /\ Recorded(key, op) /\ tail' = "unended"
    \/ Unreadable

\* _append_event, with a key not known to this service, and the request is over.
Persist(c, key, op) ==
    /\ \/ Appended(key, op) /\ Close(c) /\ UNCHANGED history
       \/ HalfAppended(key, op) /\ AllGone
    /\ UNCHANGED <<store, second>>

\* A model call fails, or its answer is refused: no event is written.
Fails(c) ==
    /\ faults < MaxFaults
    /\ faults' = faults + 1
    /\ Close(c)
    /\ UNCHANGED <<events, store, second, moved, drafts, made, tampered, excused>>

-----------------------------------------------------------------------------
\* request_proposals: a set already there is returned; a new one takes a model
\* call, of which exactly three distinct proposals are accepted.
RequestProposals(c) ==
    /\ ~(<<"proposals">> \in keys /\ log.proposals # None)
    /\ Open(c, "proposals")

Propose(c) ==
    /\ at[c] = "proposals" /\ ~bare
    /\ LET op == IF mem[c].phase = "none" THEN NewOp ELSE mem[c]
       IN  Persist(c, <<"proposals">>,
                   [op EXCEPT !.proposals = @ + 1, !.phase = "proposals"])

\* select_proposal: one selection, for good; then the knowledge gate.
MaySelect(op) == op.proposals # None /\ op.selection = None

SelectProposal(c) == MaySelect(log) /\ Open(c, "select")

Select(c, p) ==
    /\ at[c] = "select" /\ ~bare
    /\ Persist(c, <<"select", p>>, [mem[c] EXCEPT !.selection = p, !.phase = "selected"])

-----------------------------------------------------------------------------
\* The knowledge gate reads the catalog of the shared folder, and a chapter is
\* drafted in a copy of that folder: without it proposals, selection, buffer and
\* advance raise before they write anything.
Unsupplied(c) ==
    /\ bare /\ at[c] \in {"proposals", "select", "buffer", "produce"}
    /\ Close(c)
    /\ UNCHANGED <<events, store, second, history>>

\* _produce_chapter: the draft runs through NovelChapter in a work root of its
\* own, and its text is written to the file of the chapter; or it is not
\* accepted, or the work root fails ten times over.
Produce(c, n) ==
    /\ drafts' = drafts + 1
    /\ made' = [made EXCEPT ![n] = @ + 1]
    /\ content' = [content EXCEPT ![n] = drafts + 1]
    /\ UNCHANGED <<events, registered, stored, released, bare, second, view, moved, faults>>
    /\ UNCHANGED <<tampered, excused>>

Window(op) == DOMAIN op.buffer
First(S) == CHOOSE n \in S : \A m \in S : n <= m
Last(S)  == CHOOSE n \in S : \A m \in S : m <= n

\* The digest of a window, from what was reviewed of its chapters.
DigestOf(buffer) == buffer

\* An audit of a window of chapters, by a model call.  Its verdict is recorded
\* and nothing asks for it.
Audited(op, trigger, window) ==
    [op EXCEPT !.audits = Append(@, [trigger |-> trigger, window |-> window])]

\* initialize_buffer: the chapters one after the other, one audit of them all.
InitializeBuffer(c) ==
    /\ log.selection # None /\ log.buffer = << >>
    /\ Open(c, "buffer")

FillBuffer(c) ==
    /\ at[c] = "buffer" /\ ~bare /\ Len(mem[c].buffer) < WindowSize
    /\ Produce(c, Len(mem[c].buffer) + 1)
    /\ mem' = [mem EXCEPT ![c].buffer = Append(@, drafts')]
    /\ UNCHANGED <<at, fresh>>

AuditBuffer(c) ==
    /\ at[c] = "buffer" /\ Len(mem[c].buffer) = WindowSize
    /\ LET op == Audited(mem[c], "initial-window", Window(mem[c]))
       IN  Persist(c, <<"init">>,
                   [op EXCEPT !.digest = DigestOf(op.buffer), !.phase = "buffer"])

\* confirm_chapter_1
MayConfirm(op) == op.buffer # << >> /\ ~op.confirmed

ConfirmChapter1(c) == MayConfirm(log) /\ Open(c, "confirm")

Confirm(c) ==
    /\ at[c] = "confirm"
    /\ Persist(c, <<"confirm">>, [mem[c] EXCEPT !.confirmed = TRUE, !.phase = "confirmed"])

-----------------------------------------------------------------------------
\* advance.  Its key is made of the operation's own count of advances.
AdvanceKey(op) == <<"advance", op.seq>>

\* Mutated form: an advance does not wait for the owner.
MayAdvanceUnasked(op) == op.buffer # << >>
MayAdvance(op) ==
    /\ op.buffer # << >> /\ op.confirmed
    /\ op.phase \in {"confirmed", "rolling"}

\* Mutated form: the newest chapter is written again.
NextIsLast(op) == Last(Window(op))
NextNumber(op) == Last(Window(op)) + 1
Oldest(op) == First(Window(op))

Advance(c) ==
    /\ AdvanceKey(log) \notin keys
    /\ MayAdvance(log) /\ log.seq < MaxAdvances
    /\ made[NextNumber(log)] < MaxDrafts
    /\ Open(c, "produce")

WriteNext(c) ==
    /\ at[c] = "produce" /\ ~bare
    /\ Produce(c, NextNumber(mem[c]))
    /\ fresh' = [fresh EXCEPT ![c] = drafts']
    /\ Go(c, "review")
    /\ UNCHANGED mem

\* The audit of the new chapter, its delta, and its review against the digest of
\* the window, or a review of the whole window when the request forces one,
\* which makes a digest of the window and the chapter.
Reviewed(op, n, forced) ==
    LET single == Audited(op, "steady-state", {n})
    IN  IF forced THEN Audited(single, "explicit", Window(op) \cup {n}) ELSE single

Review(c) ==
    /\ at[c] = "review"
    /\ \E forced \in BOOLEAN :
          mem' = [mem EXCEPT ![c] = Reviewed(mem[c], NextNumber(mem[c]), forced)]
    /\ Go(c, "release")
    /\ UNCHANGED <<events, store, second, fresh, view, history>>

\* Whatever audit and review decide, PASS or TARGETED_REVIEW, the oldest chapter
\* is released: _release_oldest takes its bytes from the file and its hash from
\* the buffer.

\* Mutated form: the hash is taken from the file as well.
HashFromFile(op, n) == content[n]
AuditedHash(op, n) == op.buffer[n]

\* The batch of the chapter and its release, if one was assembled before.
\* Mutated form: a release assembled before is not looked for.
ReusableNever(n) == FALSE
Reusable(n) == released[n] # None

ReuseRelease(c) ==
    /\ at[c] = "release" /\ Reusable(Oldest(mem[c]))
    /\ Go(c, "slide")
    /\ UNCHANGED <<events, store, second, mem, fresh, view, history>>

\* A version registered in an earlier second, and no release: the process died
\* between the two, and every later registration conflicts.
Orphaned(n) ==
    /\ registered[n] # NoFact /\ registered[n].second # second
    /\ released[n] = None

\* An advance can never end: the file it releases was changed, or the version
\* it registers was registered before.
Stuck == tampered # {} \/ \E n \in Chapter : Orphaned(n)

Refused(c) ==
    /\ Close(c)
    /\ excused' = (excused \/ Stuck)
    /\ UNCHANGED <<events, store, second, moved, drafts, made, faults, tampered>>

\* assemble_release_for_audited_chapter: the file must hash to the accepted
\* hash.  The version fact carries the second of its registration, so a second
\* registration conflicts unless it comes within the same one.
RegisterVersion(c) ==
    /\ at[c] = "release" /\ ~Reusable(Oldest(mem[c]))
    /\ LET n == Oldest(mem[c])
           fact == [bytes |-> AuditedHash(mem[c], n), second |-> second]
       IN  IF content[n] = AuditedHash(mem[c], n) /\ view[c][n] \in {NoFact, fact}
           THEN /\ registered' = [registered EXCEPT ![n] = fact]
                /\ Go(c, "store")
                /\ UNCHANGED <<events, content, stored, released, bare, second>>
                /\ UNCHANGED <<mem, fresh, view, history>>
           ELSE Refused(c)

\* The bytes are those read before the hash was checked.
StoreContent(c) ==
    /\ at[c] = "store"
    /\ LET n == Oldest(mem[c])
       IN  stored' = [stored EXCEPT ![n] = AuditedHash(mem[c], n)]
    /\ Go(c, "assemble")
    /\ UNCHANGED <<events, content, registered, released, bare, second, mem, fresh, view, history>>

\* assemble_release: the stored bytes against the accepted hash (ProductionBatch).
AssembleRelease(c) ==
    /\ at[c] = "assemble"
    /\ LET n == Oldest(mem[c])
       IN  released' = [released EXCEPT ![n] = stored[n]]
    /\ Go(c, "slide")
    /\ UNCHANGED <<events, content, registered, stored, bare, second, mem, fresh, view, history>>

Slid(buffer, oldest, next, bytes) ==
    [n \in (DOMAIN buffer \ {oldest}) \cup {next} |-> IF n = next THEN bytes ELSE buffer[n]]

\* Mutated form: the digest is made before the buffer slides.
DigestBefore(op, slid) == DigestOf(op.buffer)
DigestAfter(op, slid) == DigestOf(slid)

SlideBuffer(c) ==
    /\ at[c] = "slide"
    /\ LET op == mem[c]
           slid == Slid(op.buffer, Oldest(op), NextNumber(op), fresh[c])
       IN  Persist(c, AdvanceKey(op),
                   [op EXCEPT !.canon = Append(@, [chapter |-> Oldest(op), bytes |-> op.buffer[Oldest(op)]]),
                              !.buffer = slid, !.digest = DigestAfter(op, slid),
                              !.seq = @ + 1, !.phase = "rolling"])

-----------------------------------------------------------------------------
ModelCallFails(c) == at[c] \in {"proposals", "select", "buffer", "produce", "review"} /\ Fails(c)

\* The process dies between two writes.
Dies ==
    /\ \E c \in Call : at[c] # "idle"
    /\ AllGone
    /\ UNCHANGED <<events, store, second>>

\* Somebody edits the file of a chapter.
Tamper(n) ==
    /\ faults < MaxFaults /\ content[n] # None
    /\ faults' = faults + 1
    /\ drafts' = drafts + 1
    /\ content' = [content EXCEPT ![n] = drafts + 1]
    /\ tampered' = tampered \cup {n}
    /\ UNCHANGED <<events, registered, stored, released, bare, second, at, mem, fresh, view>>
    /\ UNCHANGED <<moved, made, excused>>

\* export and restore under another root, while no request is served: the event
\* log and the chapters' files are taken along, the batches with their releases,
\* the economic ledger and the shared folder are not; that folder is there if
\* somebody has put it there.
Restore ==
    /\ faults < MaxFaults /\ log # NoOp /\ Readable
    /\ \A c \in Call : at[c] = "idle"
    /\ faults' = faults + 1
    /\ registered' = [n \in Chapter |-> NoFact]
    /\ stored' = [n \in Chapter |-> None]
    /\ released' = [n \in Chapter |-> None]
    /\ moved' = Len(log.canon)
    /\ bare' \in BOOLEAN
    /\ UNCHANGED <<events, content, second, at, mem, fresh, view, drafts, made, tampered, excused>>

Tick ==
    /\ second < MaxSeconds
    /\ second' = second + 1
    /\ UNCHANGED <<events, store, at, mem, fresh, view, history>>

Request(c) ==
    \/ RequestProposals(c) \/ SelectProposal(c) \/ InitializeBuffer(c)
    \/ ConfirmChapter1(c) \/ Advance(c)
Serve(c) ==
    \/ Unsupplied(c) \/ Propose(c) \/ (\E p \in Choice : Select(c, p))
    \/ FillBuffer(c) \/ AuditBuffer(c) \/ Confirm(c)
    \/ WriteNext(c) \/ Review(c) \/ ReuseRelease(c) \/ RegisterVersion(c)
    \/ StoreContent(c) \/ AssembleRelease(c) \/ SlideBuffer(c)

OperationsNext ==
    \/ \E c \in Call : Request(c) \/ Serve(c) \/ ModelCallFails(c)
    \/ \E n \in Chapter : Tamper(n)
    \/ Tick \/ Dies \/ Restore

OperationsSpec == OperationsInit /\ [][OperationsNext]_operationsVars
\* A request is served to its end, and the owner goes on asking.
FairOperations == OperationsSpec /\ \A c \in Call : WF_operationsVars(Serve(c) \/ Request(c))

-----------------------------------------------------------------------------
OperationsTypeOK ==
    /\ log.phase \in {"none", "proposals", "selected", "buffer", "confirmed", "rolling"}
    /\ log.selection \in Choice \cup {None}
    /\ \A op \in {log} \cup {mem[c] : c \in Call} :
          DOMAIN op.buffer \subseteq Chapter /\ op.seq \in 0..MaxAdvances
    /\ \A f \in {content, stored, released} : f \in [Chapter -> 0..drafts]
    /\ at \in [Call -> {"idle", "proposals", "select", "buffer", "confirm", "produce",
                        "review", "release", "store", "assemble", "slide"}]
    /\ moved \in 0..MaxAdvances /\ bare \in BOOLEAN /\ tail \in {"ended", "unended", "torn"}
    /\ second \in 0..MaxSeconds /\ faults \in 0..MaxFaults /\ tampered \subseteq Chapter

\* The buffer is the WindowSize chapters that follow the canon, the canon is
\* every chapter before them in order, and the digest covers the buffer as it
\* is: each hash of it, and no other chapter.
WindowFollowsCanon ==
    log.buffer # << >> =>
        /\ DOMAIN log.buffer = (log.seq + 1)..(log.seq + WindowSize)
        /\ Len(log.canon) = log.seq
        /\ \A i \in DOMAIN log.canon : log.canon[i].chapter = i
        /\ log.digest = log.buffer

\* Whatever is written again after a crash or a failure, the file of a buffered
\* chapter still holds the bytes that were accepted, unless somebody else
\* changed it.
BufferIsOnFile ==
    \A n \in DOMAIN log.buffer \ tampered : content[n] = log.buffer[n]

\* Canon, buffer, digest and the chapter files are records of one window.
WindowIsTrue == WindowFollowsCanon /\ BufferIsOnFile

\* The bytes released are those that were audited: the hash in the canon, the
\* version fact in the ledger and the release agree, a changed file or not.  (Of
\* what was released before an export the restored root has the canon only.)
ReleasedAsAudited ==
    /\ \A i \in (moved + 1)..Len(log.canon) :
          LET entry == log.canon[i]
          IN  /\ released[entry.chapter] = entry.bytes
              /\ registered[entry.chapter].bytes = entry.bytes
    /\ \A n \in DOMAIN log.buffer : released[n] \in {None, log.buffer[n]}

\* "Full five-chapter audit EXACTLY ONCE (persist proof)" (novel_operations.py:11):
\* whatever crashed and was tried again, the operation lists one audit of the
\* first window, and one of each chapter after it.
AuditsBy(audits, trigger) == {i \in DOMAIN audits : audits[i].trigger = trigger}
\* One of the first window, and one of each of the next k chapters, in order.
AuditedUpTo(audits, k) ==
    LET steady == AuditsBy(audits, "steady-state")
    IN  /\ \E i \in DOMAIN audits :
              AuditsBy(audits, "initial-window") = {i} /\ audits[i].window = 1..WindowSize
        /\ {audits[i].window : i \in steady} = {{WindowSize + n} : n \in 1..k}
        /\ \A i, j \in steady : \A n \in audits[i].window, m \in audits[j].window :
              i < j => n < m
AuditedOnce == log.buffer # << >> => AuditedUpTo(log.audits, log.seq)

\* Every event is one whole operation, whatever requests are served at once and
\* whichever event comes last.
EventsAreWhole == WindowFollowsCanon /\ AuditedOnce

\* Nothing is registered or released before an owner's confirmation of the first
\* chapter has its event.
ConfirmedFirst ==
    (\E n \in Chapter : registered[n] # NoFact \/ released[n] # None) => <<"confirm">> \in keys

\* Nothing is released before the owner has confirmed the first chapter, and a
\* crash leaves at most one release that the canon does not list yet.
ReleasesAhead ==
    /\ ConfirmedFirst
    /\ {n \in Chapter : released[n] # None} \subseteq 1..(log.seq + 1)
    /\ (\E n \in Chapter : registered[n] # NoFact) => log.confirmed

\* Nothing is released but what the owner has asked for, each chapter was audited
\* once, and the bytes released are those audited.
ReleasesAreAudited == ReleasedAsAudited /\ AuditedOnce /\ ReleasesAhead

\* A chapter is drafted once, and once more for a fault at most, so long as the
\* advances are not stuck; then every retry drafts the next chapter again.
DraftedOnce == Stuck \/ excused \/ \A n \in Chapter : made[n] <= 1 + faults

\* The owner who goes on asking gets every chapter out, unless a release was
\* orphaned, a file was changed, a crash tore the log, or the operation was
\* restored under a root without the shared folder.
RollsOn == <>[](Len(log.canon) = MaxAdvances \/ Stuck \/ excused \/ ~Readable \/ bare)
=============================================================================
