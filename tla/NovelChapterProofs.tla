------------------------- MODULE NovelChapterProofs -------------------------
(***************************************************************************)
(* Proofs about a chapter from request to accepted artifact, for any tasks *)
(* and kinds of evidence, any number of crashes and of changed requests:   *)
(* what is accepted is earned (AcceptedIsSound), the registry tells the    *)
(* truth (RegistryIsTrue), and economic facts stay (FactsAreKept).         *)
(*                                                                         *)
(* Tasks share nothing but the ledger, which only grows, so the invariant  *)
(* is about one task: a step of another leaves it alone.                   *)
(***************************************************************************)
EXTENDS NovelChapter, FiniteSetTheorems, TLAPS

Writing == {"evidence", "work", "version", "zero", "platform"}
Steps == {"idle", "create", "bind", "registry", "load", "loop", "save", "update"} \cup Writing
Requests == {"submitted", "other", "bad"}
DraftsMade == [no : Nat, context : Nat, request : Requests, sound : BOOLEAN]
TaskStates == [status : {"absent", "open"} \cup Final, done : 0..4, bad : BOOLEAN,
               context : Nat, draft : DraftsMade, artifact : Nat]
Accepted == [draft : DraftsMade, context : Nat, request : Requests]
Entries == [status : {"none", "torn", "open"} \cup Final, accepted : Nat]

TypeInv ==
    /\ request \in [Task -> Requests] /\ swapped \in SUBSET Task
    /\ run \in [Task -> {"none", "unbound", "bound"}]
    /\ registry \in [Task -> Entries]
    /\ disk \in [Task -> TaskStates]
    /\ store \in [Task -> Seq(Accepted)]
    /\ evidence = [t \in Task |-> evidence[t]]
    /\ at \in [Task -> Steps]
    /\ mem \in [Task -> TaskStates]
    /\ tries \in [Task -> Nat]
    /\ crashes \in Nat

\* What a call works on is what its checkpoint holds, but for the result of the
\* artifact node.
Place(t) ==
    /\ disk[t].status = "absent" => disk[t] = NewTask
    /\ disk[t].status = "completed" => disk[t].done = 4
    /\ disk[t].done = 4 => ~disk[t].bad
    /\ at[t] \in {"loop", "update"} => mem[t] = disk[t] /\ disk[t].status # "absent"
    /\ at[t] \in {"loop", "save"} \cup Writing => disk[t].status = "open"
    /\ at[t] \in Writing =>
          /\ disk[t].done = 3 /\ ~disk[t].bad
          /\ mem[t] = [disk[t] EXCEPT !.artifact = Len(store[t])]
    /\ at[t] = "save" =>
          /\ mem[t].status = "open"
          /\ \/ mem[t].done = 0 /\ mem[t].bad /\ store[t] = <<>>
             \/ /\ mem[t].done \in {3, 4} /\ disk[t].done = 3 /\ mem[t].bad = (mem[t].done = 3)
                /\ mem[t].draft = disk[t].draft /\ mem[t].context = disk[t].context

\* A call reads the request that was submitted, unless it was changed under a call.
Asked(t) ==
    /\ registry[t].status # "none" \/ at[t] \notin {"idle", "create"} => run[t] # "none"
    /\ \/ t \in swapped
       \/ request[t] = "submitted"
       \/ at[t] = "idle" /\ registry[t].status # "none"

\* What the nodes up to the quality gate have found.
Found(t) ==
    /\ disk[t].done >= 2 => t \in swapped \/ disk[t].draft.request = "submitted"
    /\ disk[t].done >= 3 =>
          /\ disk[t].draft.context = disk[t].context
          /\ t \in swapped \/ disk[t].draft.sound

Earned(t) ==
    /\ store[t] # <<>> => disk[t].done >= 3
    /\ \A a \in DOMAIN store[t] :
          LET cited == store[t][a]
          IN  /\ cited.draft = disk[t].draft /\ cited.context = disk[t].context
              /\ cited.draft.context = cited.context
              /\ t \in swapped \/ (cited.draft.sound /\ cited.request = "submitted")

\* An artifact beyond the crashes is the last one: its node is at work or over.
Counted(t) ==
    \/ Len(store[t]) <= crashes
    \/ /\ Len(store[t]) <= crashes + 1
       /\ disk[t].bad \/ disk[t].done = 4 \/ at[t] \in {"save"} \cup Writing

\* What is to be registered for artifact a, in the order it is.
Evident(t, a) == \A k \in EvidenceKind : <<a, k>> \in evidence[t]
VersionFact(t, a) == <<"version", t>> \in DOMAIN ledger /\ ledger[<<"version", t>>].artifact = a
Registered(t, a) ==
    /\ a \in DOMAIN store[t] /\ Evident(t, a) /\ VersionFact(t, a)
    /\ {<<"work">>, <<"platform">>, <<"zero", t>>} \subseteq DOMAIN ledger

Cited(t) ==
    /\ at[t] \in Writing => mem[t].artifact \in DOMAIN store[t]
    /\ at[t] \in Writing \ {"evidence"} => Evident(t, mem[t].artifact)
    /\ at[t] \in {"version", "zero", "platform"} => <<"work">> \in DOMAIN ledger
    /\ at[t] \in {"zero", "platform"} => VersionFact(t, mem[t].artifact)
    /\ at[t] = "platform" => <<"zero", t>> \in DOMAIN ledger
    /\ at[t] = "save" /\ mem[t].done = 4 => Registered(t, mem[t].artifact)
    /\ disk[t].done = 4 => Registered(t, disk[t].artifact)

Told(t) ==
    /\ registry[t].status \in Final => disk[t].status = registry[t].status
    /\ registry[t].status = "completed" => Registered(t, registry[t].accepted)

TaskInv(t) ==
    Place(t) /\ Asked(t) /\ Found(t) /\ Earned(t) /\ Counted(t) /\ Cited(t) /\ Told(t)

-----------------------------------------------------------------------------
\* What a step of one task leaves of another, and what every step leaves.
Kept(t) ==
    /\ request'[t] = request[t] /\ (t \in swapped' <=> t \in swapped)
    /\ run'[t] = run[t] /\ registry'[t] = registry[t]
    /\ disk'[t] = disk[t] /\ store'[t] = store[t] /\ evidence'[t] = evidence[t]
    /\ at'[t] = at[t] /\ mem'[t] = mem[t]
Grows ==
    /\ DOMAIN ledger \subseteq DOMAIN ledger'
    /\ \A key \in DOMAIN ledger : ledger'[key] = ledger[key]
Around(t) == Grows /\ crashes' = crashes /\ \A u \in Task \ {t} : Kept(u)

\* A registered artifact stays so.
LEMMA RegisteredStays ==
    ASSUME NEW t \in Task, NEW a, Registered(t, a), Grows,
           DOMAIN store[t] \subseteq DOMAIN store'[t], evidence[t] \subseteq evidence'[t]
    PROVE  Registered(t, a)'
  <1>1. (a \in DOMAIN store[t])'
    BY DEF Registered
  <1>2. Evident(t, a)'
    BY DEF Registered, Evident
  <1>3. VersionFact(t, a)'
    BY DEF Registered, VersionFact, Grows
  <1>4. ({<<"work">>, <<"platform">>, <<"zero", t>>} \subseteq DOMAIN ledger)'
    BY DEF Registered, Grows
  <1> QED BY <1>1, <1>2, <1>3, <1>4 DEF Registered

LEMMA VersionStays ==
    ASSUME NEW t \in Task, NEW a, VersionFact(t, a), Grows
    PROVE  VersionFact(t, a)'
  BY DEF VersionFact, Grows

\* What another task's step keeps of this one.
LEMMA Frame ==
    ASSUME TypeInv, NEW t \in Task, TaskInv(t), Kept(t), Grows, crashes' = crashes
    PROVE  TaskInv(t)'
  <1>1. Place(t)'
    BY DEF TaskInv, Place, Kept
  <1>2. Asked(t)'
    BY DEF TaskInv, Asked, Kept
  <1>3. Found(t)'
    BY DEF TaskInv, Found, Kept
  <1>4. Earned(t)'
    BY DEF TaskInv, Earned, Kept
  <1>5. Counted(t)'
    BY DEF TaskInv, Counted, Kept
  <1>6. \A a : Registered(t, a) => Registered(t, a)'
    BY RegisteredStays DEF Kept
  <1>7. Cited(t)'
    <2>1. /\ at'[t] \in Writing => mem'[t].artifact \in DOMAIN store'[t]
          /\ at'[t] \in Writing \ {"evidence"} => Evident(t, mem[t].artifact)'
      BY DEF TaskInv, Cited, Kept, Evident
    <2>2. /\ at'[t] \in {"version", "zero", "platform"} => <<"work">> \in DOMAIN ledger'
          /\ at'[t] = "platform" => <<"zero", t>> \in DOMAIN ledger'
      BY DEF TaskInv, Cited, Kept, Grows
    <2>3. at'[t] \in {"zero", "platform"} => VersionFact(t, mem[t].artifact)'
      BY VersionStays DEF TaskInv, Cited, Kept, VersionFact
    <2>4. at'[t] = "save" /\ mem'[t].done = 4 => Registered(t, mem[t].artifact)'
      <3>1. SUFFICES ASSUME at[t] = "save", mem[t].done = 4
                     PROVE  Registered(t, mem[t].artifact)'
        BY DEF Kept
      <3>2. Registered(t, mem[t].artifact)
        BY <3>1 DEF TaskInv, Cited
      <3> QED BY <3>2, RegisteredStays DEF Kept, Registered, Evident, VersionFact
    <2>5. disk'[t].done = 4 => Registered(t, disk[t].artifact)'
      <3>1. SUFFICES ASSUME disk[t].done = 4
                     PROVE  Registered(t, disk[t].artifact)'
        BY DEF Kept
      <3>2. Registered(t, disk[t].artifact)
        BY <3>1 DEF TaskInv, Cited
      <3> QED BY <3>2, RegisteredStays DEF Kept, Registered, Evident, VersionFact
    <2> QED BY <2>1, <2>2, <2>3, <2>4, <2>5 DEF Cited
  <1>8. Told(t)'
    BY <1>6 DEF TaskInv, Told, Kept, Registered, Evident, VersionFact
  <1> QED BY <1>1, <1>2, <1>3, <1>4, <1>5, <1>7, <1>8 DEF TaskInv

-----------------------------------------------------------------------------
\* The task states the steps make.
LEMMA FreshIs ==
    /\ NoDraft \in DraftsMade
    /\ NewTask \in TaskStates /\ [NewTask EXCEPT !.status = "open"] \in TaskStates
    /\ NewTask.status = "absent" /\ NewTask.done = 0 /\ NewTask.bad = FALSE
    /\ [NewTask EXCEPT !.status = "open"].status = "open"
    /\ [NewTask EXCEPT !.status = "open"].done = 0
    /\ [NewTask EXCEPT !.status = "open"].bad = FALSE
  <1>1. NoDraft \in DraftsMade
    BY DEF NoDraft, None, DraftsMade, Requests
  <1>2. /\ NewTask \in TaskStates
        /\ NewTask.status = "absent" /\ NewTask.done = 0 /\ NewTask.bad = FALSE
    BY <1>1 DEF NewTask, None, TaskStates
  <1> DEFINE n == [NewTask EXCEPT !.status = "open"]
  <1>3. n \in TaskStates /\ n.status = "open" /\ n.done = 0 /\ n.bad = FALSE
    BY <1>2 DEF TaskStates
  <1> QED BY <1>1, <1>2, <1>3

LEMMA CompletedIs ==
    ASSUME NEW m \in TaskStates, m.done < 4
    PROVE  /\ Completed(m) \in TaskStates /\ Completed(m).status = m.status
           /\ Completed(m).done = m.done + 1 /\ Completed(m).bad = m.bad
           /\ Completed(m).draft = m.draft /\ Completed(m).context = m.context
           /\ Completed(m).artifact = m.artifact
  BY DEF Completed, TaskStates

LEMMA BrokenIs ==
    ASSUME NEW m \in TaskStates
    PROVE  /\ Broken(m) \in TaskStates /\ Broken(m).status = m.status /\ Broken(m).bad
           /\ m.done < 3 => Broken(m).done = 0
           /\ m.done >= 3 => /\ Broken(m).done = m.done /\ Broken(m).draft = m.draft
                             /\ Broken(m).context = m.context
  <1>1. CASE m.done < 3
    <2> DEFINE b == [NewTask EXCEPT !.status = m.status, !.bad = TRUE]
    <2>1. b \in TaskStates /\ b.status = m.status /\ b.bad /\ b.done = 0
      BY FreshIs DEF TaskStates
    <2>2. Broken(m) = b
      BY <1>1 DEF Broken
    <2> QED BY <1>1, <2>1, <2>2 DEF TaskStates
  <1>2. CASE ~(m.done < 3)
    <2> DEFINE b == [m EXCEPT !.bad = TRUE, !.artifact = None]
    <2>1. /\ b \in TaskStates /\ b.status = m.status /\ b.bad /\ b.done = m.done
          /\ b.draft = m.draft /\ b.context = m.context
      BY DEF None, TaskStates
    <2>2. Broken(m) = b
      BY <1>2 DEF Broken
    <2> QED BY <1>2, <2>1, <2>2 DEF TaskStates
  <1> QED BY <1>1, <1>2

\* The node whose turn it is tells how many are done.
LEMMA Turns ==
    ASSUME TypeInv, NEW t \in Task, TaskInv(t), NEW node, Turn(t, node)
    PROVE  /\ at[t] = "loop" /\ mem[t] = disk[t] /\ disk[t].status = "open"
           /\ ~disk[t].bad /\ disk[t].done \in 0..3 /\ disk[t] \in TaskStates
           /\ node = "novel-context" => disk[t].done = 0
           /\ node = "novel-draft" => disk[t].done = 1
           /\ node = "novel-quality" => disk[t].done = 2
           /\ node = "novel-artifact" => disk[t].done = 3
  <1>1. /\ at[t] = "loop" /\ ~mem[t].bad /\ mem[t].done < 4
        /\ Chain[mem[t].done + 1] = node
    BY DEF Turn, Chain
  <1>2. mem[t] = disk[t] /\ disk[t].status = "open" /\ disk[t] \in TaskStates
    BY <1>1 DEF TaskInv, Place, TypeInv
  <1>3. disk[t].done \in 0..3
    BY <1>1, <1>2 DEF TaskStates
  <1>4. \/ disk[t].done = 0 /\ node = "novel-context"
        \/ disk[t].done = 1 /\ node = "novel-draft"
        \/ disk[t].done = 2 /\ node = "novel-quality"
        \/ disk[t].done = 3 /\ node = "novel-artifact"
    BY <1>1, <1>2, <1>3 DEF Chain
  <1> QED BY <1>1, <1>2, <1>3, <1>4

LEMMA WrittenGrows ==
    ASSUME NEW key, NEW payload, ~Conflicts(key, payload), ledger' = Written(key, payload)
    PROVE  Grows /\ key \in DOMAIN ledger' /\ ledger'[key] = payload
  BY DEF Grows, Conflicts, Known, Written

-----------------------------------------------------------------------------
\* The checkpoint after one of the first three nodes: what it says of a task
\* that accepted nothing yet.
LEMMA Saved ==
    ASSUME TypeInv, NEW t \in Task, TaskInv(t), NEW m \in TaskStates,
           at[t] = "loop", disk[t].done < 3, Save(t, m), m.status = "open",
           m.done \in 0..3, m.done = 3 => ~m.bad,
           m.done >= 2 => t \in swapped \/ m.draft.request = "submitted",
           m.done >= 3 => m.draft.context = m.context /\ (t \in swapped \/ m.draft.sound),
           tries' \in [Task -> Nat],
           UNCHANGED <<world, run, registry, store, evidence, ledger, crashes>>
    PROVE  TypeInv' /\ TaskInv(t)' /\ Around(t)
  <1>1. /\ mem' \in [Task -> TaskStates] /\ disk' \in [Task -> TaskStates]
        /\ mem'[t] = m /\ disk'[t] = m /\ at'[t] \in {"loop", "update"}
        /\ at' \in [Task -> Steps]
        /\ \A u \in Task \ {t} : at'[u] = at[u] /\ mem'[u] = mem[u] /\ disk'[u] = disk[u]
    BY DEF Save, Go, TypeInv, Steps
  <1>2. store[t] = <<>> /\ disk[t].status = "open"
    <2>1. disk[t].done \in 0..4
      BY DEF TypeInv, TaskStates
    <2>2. store[t] = <<>>
      BY <2>1 DEF TaskInv, Earned
    <2>3. disk[t].status = "open"
      BY DEF TaskInv, Place
    <2> QED BY <2>2, <2>3
  <1>3. TypeInv'
    BY <1>1 DEF TypeInv, world
  <1>4. Around(t)
    BY <1>1 DEF Around, Grows, Kept, world
  <1>5. Place(t)'
    BY <1>1 DEF Place, Writing
  <1>6. Asked(t)'
    BY <1>1 DEF Asked, TaskInv, world
  <1>7. Found(t)'
    BY <1>1 DEF Found, world
  <1>8. Earned(t)'
    BY <1>1, <1>2 DEF Earned
  <1>9. Counted(t)'
    BY <1>1, <1>2 DEF Counted, TypeInv
  <1>10. Cited(t)'
    BY <1>1 DEF Cited, Writing
  <1>11. Told(t)'
    BY <1>2 DEF Told, TaskInv, Final
  <1> QED BY <1>3, <1>4, <1>5, <1>6, <1>7, <1>8, <1>9, <1>10, <1>11 DEF TaskInv

\* A node that breaks before anything is accepted.
LEMMA BrokenSaved ==
    ASSUME TypeInv, NEW t \in Task, TaskInv(t), at[t] = "loop", mem[t] = disk[t],
           disk[t].status = "open", disk[t].done < 3, Save(t, Broken(mem[t])),
           UNCHANGED tries,
           UNCHANGED <<world, run, registry, store, evidence, ledger, crashes>>
    PROVE  TypeInv' /\ TaskInv(t)' /\ Around(t)
  <1> DEFINE m == Broken(mem[t])
  <1>1. m \in TaskStates /\ m.status = "open" /\ m.done = 0
    BY BrokenIs DEF TypeInv
  <1>2. tries' \in [Task -> Nat]
    BY DEF TypeInv
  <1> HIDE DEF m
  <1>3. Save(t, m)
    BY DEF m
  <1> QED BY <1>1, <1>2, <1>3, Saved

LEMMA RunContextStep ==
    ASSUME TypeInv, NEW t \in Task, TaskInv(t), RunContext(t)
    PROVE  TypeInv' /\ TaskInv(t)' /\ Around(t)
  <1>1. /\ at[t] = "loop" /\ mem[t] = disk[t] /\ disk[t].status = "open" /\ disk[t].done = 0
        /\ disk[t].bad = FALSE /\ disk[t] \in TaskStates
    <2>1. Turn(t, "novel-context")
      BY DEF RunContext, Reads
    <2> QED BY <2>1, Turns DEF TypeInv, TaskStates
  <1>2. CASE /\ tries' = [tries EXCEPT ![t] = @ + 1]
             /\ Save(t, Completed([mem[t] EXCEPT !.context = tries'[t]]))
    <2> DEFINE c == [mem[t] EXCEPT !.context = tries'[t]]
               m == Completed(c)
    <2>1. tries' \in [Task -> Nat] /\ tries'[t] \in Nat
      BY <1>2 DEF TypeInv
    <2>2. c \in TaskStates /\ c.status = "open" /\ c.done = 0 /\ c.bad = FALSE
      BY <1>1, <2>1 DEF TaskStates
    <2>3. m \in TaskStates /\ m.status = "open" /\ m.done = 1
      <3> HIDE DEF c
      <3> QED BY <2>2, CompletedIs
    <2> HIDE DEF m
    <2>4. Save(t, m)
      BY <1>2 DEF m
    <2> QED BY <1>1, <2>1, <2>3, <2>4, Saved DEF RunContext
  <1>3. CASE Save(t, Broken(mem[t])) /\ UNCHANGED tries
    BY <1>1, <1>3, BrokenSaved DEF RunContext
  <1> QED BY <1>2, <1>3 DEF RunContext

LEMMA RunDraftStep ==
    ASSUME TypeInv, NEW t \in Task, TaskInv(t), RunDraft(t)
    PROVE  TypeInv' /\ TaskInv(t)' /\ Around(t)
  <1>1. /\ at[t] = "loop" /\ mem[t] = disk[t] /\ disk[t].status = "open" /\ disk[t].done = 1
        /\ disk[t].bad = FALSE /\ disk[t] \in TaskStates
    <2>1. Turn(t, "novel-draft")
      BY DEF RunDraft, Reads
    <2> QED BY <2>1, Turns DEF TypeInv, TaskStates
  <1>2. ASSUME NEW d \in Drafts(t), tries' = [tries EXCEPT ![t] = @ + 1],
               Save(t, Completed([mem[t] EXCEPT !.draft = d]))
        PROVE  TypeInv' /\ TaskInv(t)' /\ Around(t)
    <2> DEFINE c == [mem[t] EXCEPT !.draft = d]
               m == Completed(c)
    <2>1. tries' \in [Task -> Nat]
      BY <1>2 DEF TypeInv
    <2>2. d \in DraftsMade /\ d.request = request[t]
      <3>1. mem[t].context \in Nat /\ tries[t] + 1 \in Nat /\ request[t] \in Requests
        BY <1>1 DEF TypeInv, TaskStates
      <3>2. \A context \in Nat, sound \in BOOLEAN :
               /\ Draft(t, context, sound) \in DraftsMade
               /\ Draft(t, context, sound).request = request[t]
        BY <3>1 DEF Draft, DraftsMade
      <3>3. \E context \in Nat, sound \in BOOLEAN : d = Draft(t, context, sound)
        BY <3>1, None \in Nat DEF Drafts, None
      <3> QED BY <3>2, <3>3
    <2>3. t \in swapped \/ request[t] = "submitted"
      BY <1>1 DEF TaskInv, Asked
    <2>4. c \in TaskStates /\ c.status = "open" /\ c.done = 1 /\ c.bad = FALSE /\ c.draft = d
      BY <1>1, <2>2 DEF TaskStates
    <2>5. m \in TaskStates /\ m.status = "open" /\ m.done = 2 /\ m.draft = d
      <3> HIDE DEF c
      <3> QED BY <2>4, CompletedIs
    <2> HIDE DEF m
    <2>6. Save(t, m)
      BY <1>2 DEF m
    <2> QED BY <1>1, <2>1, <2>2, <2>3, <2>5, <2>6, Saved DEF RunDraft
  <1>3. CASE Save(t, Broken(mem[t])) /\ UNCHANGED tries
    BY <1>1, <1>3, BrokenSaved DEF RunDraft
  <1> QED BY <1>2, <1>3 DEF RunDraft

LEMMA RunQualityStep ==
    ASSUME TypeInv, NEW t \in Task, TaskInv(t), RunQuality(t)
    PROVE  TypeInv' /\ TaskInv(t)' /\ Around(t)
  <1>1. /\ at[t] = "loop" /\ mem[t] = disk[t] /\ disk[t].status = "open" /\ disk[t].done = 2
        /\ disk[t].bad = FALSE /\ disk[t] \in TaskStates
    <2>1. Turn(t, "novel-quality")
      BY DEF RunQuality, Reads
    <2> QED BY <2>1, Turns DEF TypeInv, TaskStates
  <1>2. PICK sound \in TextSound(t) :
            Save(t, IF Bound(mem[t]) /\ sound THEN Completed(mem[t]) ELSE Broken(mem[t]))
    BY DEF RunQuality
  <1>3. CASE Bound(mem[t]) /\ sound
    <2> DEFINE m == Completed(mem[t])
    <2>1. /\ m \in TaskStates /\ m.status = "open" /\ m.done = 3 /\ m.bad = FALSE
          /\ m.draft = disk[t].draft /\ m.context = disk[t].context
      BY <1>1, CompletedIs
    <2>2. t \in swapped \/ (request[t] = "submitted" /\ disk[t].draft.request = "submitted")
      BY <1>1 DEF TaskInv, Asked, Found
    <2>3. t \in swapped \/ disk[t].draft.sound
      BY <1>1, <1>3, <2>2 DEF TextSound
    <2>4. disk[t].draft.context = disk[t].context
      BY <1>1, <1>3 DEF Bound
    <2>5. tries' \in [Task -> Nat]
      BY DEF RunQuality, TypeInv
    <2> HIDE DEF m
    <2>6. Save(t, m)
      BY <1>2, <1>3 DEF m
    <2> QED BY <1>1, <2>1, <2>2, <2>3, <2>4, <2>5, <2>6, Saved DEF RunQuality
  <1>4. CASE ~(Bound(mem[t]) /\ sound)
    <2>1. Save(t, Broken(mem[t]))
      BY <1>2, <1>4
    <2> QED BY <1>1, <2>1, BrokenSaved DEF RunQuality
  <1> QED BY <1>3, <1>4

-----------------------------------------------------------------------------
\* The steps that leave disk, store, evidence and ledger alone.
LEMMA CallSteps ==
    ASSUME TypeInv, NEW t \in Task, TaskInv(t), Submit(t) \/ CreateRun(t) \/ BindRun(t) \/ SaveRegistry(t)
    PROVE  TypeInv' /\ TaskInv(t)' /\ Around(t)
  <1>0. /\ run \in [Task -> {"none", "unbound", "bound"}] /\ registry \in [Task -> Entries]
        /\ at \in [Task -> Steps]
        /\ [status |-> "open", accepted |-> None] \in Entries
        /\ {"idle", "create", "bind", "registry", "load"} \subseteq Steps
    BY DEF TypeInv, Steps, Entries, None
  <1>1. /\ UNCHANGED <<world, disk, store, evidence, ledger, mem, tries, crashes>>
        /\ run' \in [Task -> {"none", "unbound", "bound"}] /\ registry' \in [Task -> Entries]
        /\ at' \in [Task -> Steps]
        /\ \A u \in Task \ {t} : run'[u] = run[u] /\ registry'[u] = registry[u] /\ at'[u] = at[u]
    <2>1. CASE Submit(t)
      BY <1>0, <2>1 DEF Submit, Go
    <2>2. CASE CreateRun(t)
      BY <1>0, <2>2 DEF CreateRun, Go
    <2>3. CASE BindRun(t)
      BY <1>0, <2>3 DEF BindRun, Go
    <2>4. CASE SaveRegistry(t)
      BY <1>0, <2>4 DEF SaveRegistry, Go
    <2> QED BY <2>1, <2>2, <2>3, <2>4
  <1>2. \/ /\ at[t] = "idle" /\ run[t] = "none" /\ at'[t] = "create"
           /\ run'[t] = run[t] /\ registry'[t] = registry[t]
        \/ /\ at[t] \in {"create", "bind"} /\ at'[t] \in {"idle", "bind", "registry"}
           /\ run'[t] # "none" /\ registry'[t] = registry[t]
        \/ /\ at[t] = "registry" /\ at'[t] = "load"
           /\ run'[t] = run[t] /\ registry'[t].status = "open"
    BY DEF Submit, CreateRun, BindRun, SaveRegistry, Go, TypeInv, TaskInv, Asked
  <1>3. TypeInv'
    BY <1>1 DEF TypeInv, world
  <1>4. Around(t)
    BY <1>1 DEF Around, Grows, Kept, world
  <1>5. Place(t)'
    BY <1>1, <1>2 DEF Place, Writing, TaskInv
  <1>6. Asked(t)'
    BY <1>1, <1>2 DEF Asked, TaskInv, world
  <1>7. Found(t)' /\ Earned(t)' /\ Counted(t)'
    BY <1>1, <1>2 DEF Found, Earned, Counted, TaskInv, world, Writing
  <1>8. Cited(t)'
    BY <1>1, <1>2 DEF Cited, TaskInv, Writing, Registered, Evident, VersionFact
  <1>9. Told(t)'
    BY <1>1, <1>2 DEF Told, TaskInv, Registered, Evident, VersionFact, Final
  <1> QED BY <1>3, <1>4, <1>5, <1>6, <1>7, <1>8, <1>9 DEF TaskInv

LEMMA LoadStep ==
    ASSUME TypeInv, NEW t \in Task, TaskInv(t), Start(t) \/ Resume(t)
    PROVE  TypeInv' /\ TaskInv(t)' /\ Around(t)
  <1>1. /\ at[t] \in {"load", "idle"} /\ run[t] # "none" 
        /\ t \in swapped \/ request[t] = "submitted"
    BY DEF Start, Resume, Readable, SameRequest, TaskInv, Asked
  <1>2. Loaded(t) \in TaskStates /\ Loaded(t).status # "absent"
        /\ \/ Loaded(t) = disk[t] /\ disk[t].status # "absent"
           \/ /\ disk[t].status = "absent" /\ Loaded(t).status = "open"
              /\ Loaded(t).done = 0 /\ Loaded(t).bad = FALSE /\ disk[t] = NewTask
    BY FreshIs DEF Loaded, TypeInv, TaskInv, Place
  <1>3. /\ mem' \in [Task -> TaskStates] /\ disk' \in [Task -> TaskStates]
        /\ at' \in [Task -> Steps]
        /\ mem'[t] = disk'[t] /\ disk'[t] = Loaded(t)
        /\ at'[t] = IF Loaded(t).status \in Final THEN "update" ELSE "loop"
        /\ \A u \in Task \ {t} : at'[u] = at[u] /\ mem'[u] = mem[u] /\ disk'[u] = disk[u]
        /\ UNCHANGED <<world, run, registry, store, evidence, ledger, tries, crashes>>
    <2>1. /\ mem \in [Task -> TaskStates] /\ disk \in [Task -> TaskStates]
          /\ at \in [Task -> Steps] /\ {"update", "loop"} \subseteq Steps
      BY DEF TypeInv, Steps
    <2>2. Load(t)
      BY DEF Start, Resume
    <2> QED BY <1>2, <2>1, <2>2 DEF Load, Go
  <1>4. TypeInv'
    BY <1>3 DEF TypeInv, world
  <1>5. Around(t)
    BY <1>3 DEF Around, Grows, Kept, world
  <1>6. \/ disk'[t] = disk[t]
        \/ /\ disk[t].status = "absent" /\ disk'[t].status = "open" /\ disk'[t].done = 0
           /\ store[t] = <<>>
    <2>1. disk[t] = NewTask => store[t] = <<>>
      BY FreshIs DEF TaskInv, Earned
    <2> QED BY <1>2, <1>3, <2>1
  <1>7. at'[t] \in {"loop", "update"} /\ (at'[t] = "loop" => disk'[t].status = "open")
    BY <1>2, <1>3 DEF TaskStates, Final
  <1>8. Place(t)'
    BY <1>2, <1>3, <1>6, <1>7 DEF Place, Writing, TaskInv
  <1>9. Asked(t)'
    BY <1>1, <1>3 DEF Asked, TaskInv, world
  <1>10. Found(t)' /\ Earned(t)'
    BY <1>3, <1>6 DEF Found, Earned, TaskInv, world
  <1>11. Counted(t)'
    BY <1>1, <1>3, <1>6, <1>7 DEF Counted, TaskInv, Writing, TypeInv
  <1>12. Cited(t)'
    BY <1>3, <1>6, <1>7 DEF Cited, TaskInv, Writing, Registered, Evident, VersionFact
  <1>13. Told(t)'
    BY <1>3, <1>6 DEF Told, TaskInv, Registered, Evident, VersionFact, Final
  <1> QED BY <1>4, <1>5, <1>8, <1>9, <1>10, <1>11, <1>12, <1>13 DEF TaskInv

\* The artifact node at work: what a change of mem and at alone keeps.
LEMMA FinishStep ==
    ASSUME TypeInv, NEW t \in Task, TaskInv(t), at[t] = "loop" \/ at[t] \in Writing,
           at[t] = "loop" => mem[t].done < 4 /\ mem[t].bad = FALSE,
           Finish(t, Broken(mem[t])),
           UNCHANGED <<world, run, registry, disk, store, evidence, ledger, tries, crashes>>
    PROVE  TypeInv' /\ TaskInv(t)' /\ Around(t)
  <1>1. /\ disk[t] \in TaskStates /\ disk[t].status = "open" /\ mem[t].status = "open"
        /\ mem[t].draft = disk[t].draft /\ mem[t].context = disk[t].context
        /\ mem[t].done = disk[t].done /\ disk[t].done \in 0..3 /\ disk[t].bad = FALSE
    <2>1. disk[t] \in TaskStates /\ disk[t].status = "open"
      BY DEF TypeInv, TaskInv, Place
    <2>2. CASE at[t] = "loop"
      BY <2>1, <2>2 DEF TaskInv, Place, TaskStates
    <2>3. CASE at[t] \in Writing
      <3>1. disk[t].done = 3 /\ ~disk[t].bad /\ mem[t] = [disk[t] EXCEPT !.artifact = Len(store[t])]
        BY <2>3 DEF TaskInv, Place
      <3> QED BY <2>1, <3>1 DEF TaskStates
    <2> QED BY <2>2, <2>3
  <1> DEFINE m == Broken(mem[t])
  <1>2. /\ m \in TaskStates /\ m.status = "open" /\ m.bad
        /\ mem[t].done < 3 => m.done = 0
        /\ mem[t].done = 3 => /\ m.done = 3 /\ m.draft = disk[t].draft
                              /\ m.context = disk[t].context
    BY <1>1, BrokenIs DEF TypeInv
  <1> HIDE DEF m
  <1>3. /\ mem' \in [Task -> TaskStates] /\ mem'[t] = m
        /\ at' \in [Task -> Steps] /\ at'[t] = "save"
        /\ \A u \in Task \ {t} : at'[u] = at[u] /\ mem'[u] = mem[u]
    BY <1>2 DEF Finish, Go, TypeInv, Steps, m
  <1>4. disk[t].done < 3 => store[t] = <<>>
    BY <1>1 DEF TaskInv, Earned
  <1>5. TypeInv'
    BY <1>3 DEF TypeInv, world
  <1>6. Around(t)
    BY <1>3 DEF Around, Grows, Kept, world
  <1>7. Place(t)'
    <2>1. at'[t] = "save" =>
             /\ mem'[t].status = "open"
             /\ \/ mem'[t].done = 0 /\ mem'[t].bad /\ store'[t] = <<>>
                \/ /\ mem'[t].done \in {3, 4} /\ disk'[t].done = 3
                   /\ mem'[t].bad = (mem'[t].done = 3)
                   /\ mem'[t].draft = disk'[t].draft /\ mem'[t].context = disk'[t].context
      <3>1. CASE disk[t].done < 3
        BY <1>1, <1>2, <1>3, <1>4, <3>1
      <3>2. CASE disk[t].done = 3
        <4>1. m.bad = TRUE
          BY <1>2 DEF TaskStates
        <4> QED BY <1>1, <1>2, <1>3, <3>2, <4>1
      <3> QED BY <1>1, <3>1, <3>2
    <2> QED BY <1>1, <1>3, <2>1 DEF Place, Writing, TaskInv
  <1>8. Asked(t)'
    BY <1>3 DEF Asked, TaskInv, world, Writing
  <1>9. Found(t)' /\ Earned(t)'
    BY DEF Found, Earned, TaskInv, world
  <1>10. Counted(t)'
    BY <1>1, <1>3, <1>4 DEF Counted, TaskInv, Writing, TypeInv
  <1>11. Cited(t)'
    BY <1>1, <1>2, <1>3 DEF Cited, TaskInv, Writing, Registered, Evident, VersionFact
  <1>12. Told(t)'
    BY DEF Told, TaskInv, Registered, Evident, VersionFact, Final
  <1> QED BY <1>5, <1>6, <1>7, <1>8, <1>9, <1>10, <1>11, <1>12 DEF TaskInv

LEMMA Raises ==
    ASSUME TypeInv, NEW t \in Task, TaskInv(t), Raise(t) \/ RaiseUnread(t)
    PROVE  TypeInv' /\ TaskInv(t)' /\ Around(t)
  <1>1. /\ Finish(t, Broken(mem[t]))
        /\ UNCHANGED <<world, run, registry, disk, store, evidence, ledger, tries, crashes>>
    BY DEF Raise, RaiseUnread
  <1>2. \/ \E node : Turn(t, node)
        \/ at[t] \in Writing
    BY DEF Raise, RaiseUnread, Writing
  <1>3. at[t] = "loop" \/ at[t] \in Writing
    BY <1>2 DEF Turn
  <1>4. at[t] = "loop" => mem[t].done < 4 /\ mem[t].bad = FALSE
    <2>1. SUFFICES ASSUME at[t] = "loop"
                   PROVE  mem[t].done < 4 /\ mem[t].bad = FALSE
      OBVIOUS
    <2>2. PICK node : Turn(t, node)
      BY <1>2, <2>1 DEF Writing
    <2> QED BY <2>2, Turns DEF TaskStates
  <1> QED BY <1>1, <1>3, <1>4, FinishStep

LEMMA RunArtifactStep ==
    ASSUME TypeInv, NEW t \in Task, TaskInv(t), RunArtifact(t)
    PROVE  TypeInv' /\ TaskInv(t)' /\ Around(t)
  <1>1. /\ at[t] = "loop" /\ mem[t] = disk[t] /\ disk[t].status = "open" /\ disk[t].done = 3
        /\ disk[t].bad = FALSE /\ disk[t] \in TaskStates
    <2>1. Turn(t, "novel-artifact")
      BY DEF RunArtifact, Reads
    <2> QED BY <2>1, Turns DEF TypeInv, TaskStates
  <1>2. CASE Finish(t, Broken(mem[t])) /\ UNCHANGED store
    <2>1. UNCHANGED <<world, run, registry, disk, store, evidence, ledger, tries, crashes>>
      BY <1>2 DEF RunArtifact
    <2>2. mem[t].done < 4 /\ mem[t].bad = FALSE
      BY <1>1
    <2> QED BY <1>1, <1>2, <2>1, <2>2, FinishStep
  <1>3. CASE FindAccepted(t) = {}
    <2> DEFINE accepted == [draft |-> mem[t].draft, context |-> mem[t].context,
                            request |-> request[t]]
               m == [disk[t] EXCEPT !.artifact = Len(store'[t])]
    <2>1. /\ accepted \in Accepted
          /\ accepted.draft = disk[t].draft /\ accepted.context = disk[t].context
          /\ accepted.request = request[t]
      BY <1>1 DEF Accepted, TaskStates, TypeInv
    <2>2. store' = [store EXCEPT ![t] = Append(@, accepted)]
      BY <1>3 DEF RunArtifact
    <2> HIDE DEF accepted
    <2>3. /\ store' \in [Task -> Seq(Accepted)] /\ store'[t] = Append(store[t], accepted)
          /\ store'[t] \in Seq(Accepted) /\ store[t] \in Seq(Accepted)
          /\ Len(store[t]) \in Nat /\ Len(store'[t]) = Len(store[t]) + 1
          /\ \A a \in DOMAIN store[t] : store'[t][a] = store[t][a]
          /\ store'[t][Len(store'[t])] = accepted
          /\ DOMAIN store'[t] = DOMAIN store[t] \cup {Len(store'[t])}
          /\ \A u \in Task \ {t} : store'[u] = store[u]
      BY <2>1, <2>2 DEF TypeInv
    <2>4. m \in TaskStates /\ m.status = "open" /\ m.done = 3 /\ m.artifact = Len(store'[t])
      <3>1. Len(store'[t]) \in Nat
        BY <2>3
      <3> QED BY <1>1, <3>1 DEF TaskStates
    <2>5. /\ mem' \in [Task -> TaskStates] /\ mem'[t] = m
          /\ \A u \in Task \ {t} : mem'[u] = mem[u]
      <3>1. mem' = [mem EXCEPT ![t].artifact = Len(store'[t])]
        BY <1>3 DEF RunArtifact
      <3> QED BY <1>1, <2>4, <3>1 DEF TypeInv
    <2>6. /\ at' \in [Task -> Steps] /\ at'[t] = "evidence"
          /\ \A u \in Task \ {t} : at'[u] = at[u]
          /\ UNCHANGED <<world, run, registry, disk, evidence, ledger, tries, crashes>>
      BY <1>3 DEF RunArtifact, Go, TypeInv, Steps, Writing
    <2>7. t \in swapped \/ request[t] = "submitted"
      BY <1>1 DEF TaskInv, Asked
    <2>8. TypeInv'
      BY <2>3, <2>5, <2>6 DEF TypeInv, world
    <2>9. Around(t)
      BY <2>3, <2>5, <2>6 DEF Around, Grows, Kept, world
    <2>10. Place(t)'
      BY <1>1, <2>5, <2>6 DEF Place, Writing, TaskInv
    <2>11. Asked(t)'
      BY <1>1, <2>6, <2>7 DEF Asked, TaskInv, world
    <2>12. Found(t)'
      BY <2>6 DEF Found, TaskInv, world
    <2>13. Earned(t)'
      <3>1. /\ disk[t].draft.context = disk[t].context
            /\ t \in swapped \/ disk[t].draft.sound
        BY <1>1 DEF Found, TaskInv
      <3>2. ASSUME NEW a \in DOMAIN store'[t]
            PROVE  LET cited == store'[t][a]
                   IN  /\ cited.draft = disk[t].draft /\ cited.context = disk[t].context
                       /\ cited.draft.context = cited.context
                       /\ t \in swapped \/ (cited.draft.sound /\ cited.request = "submitted")
        <4>1. CASE a \in DOMAIN store[t]
          BY <2>3, <4>1 DEF Earned, TaskInv
        <4>2. CASE a = Len(store'[t])
          BY <2>1, <2>3, <2>7, <3>1, <4>2
        <4> QED BY <2>3, <4>1, <4>2
      <3> QED BY <1>1, <2>6, <3>2 DEF Earned, world
    <2>14. Counted(t)'
      BY <1>1, <2>3, <2>6 DEF Counted, TaskInv, Writing, TypeInv
    <2>15. Cited(t)'
      BY <1>1, <2>3, <2>4, <2>5, <2>6 DEF Cited, Writing
    <2>16. Told(t)'
      BY <1>1, <2>6 DEF Told, TaskInv, Final
    <2> QED BY <2>8, <2>9, <2>10, <2>11, <2>12, <2>13, <2>14, <2>15, <2>16 DEF TaskInv
  <1> QED BY <1>2, <1>3 DEF RunArtifact

\* The last kind of evidence comes when none other is missing.
LEMMA Evidences ==
    ASSUME NEW t \in Task, RegisterEvidence(t),
           Cardinality(Missing(t)) <= 1, evidence = [u \in Task |-> evidence[u]]
    PROVE  \A k \in EvidenceKind : <<mem[t].artifact, k>> \in evidence'[t]
  <1>1. IsFiniteSet(Missing(t)) /\ Cardinality(Missing(t)) \in Nat
    BY ChapterAssumption, FS_Subset, FS_CardinalityType DEF Missing
  <1>2. evidence'[t] = evidence[t] \cup {<<mem[t].artifact, NextKind(t)>>}
    BY DEF RegisterEvidence
  <1>3. CASE Cardinality(Missing(t)) = 0
    BY <1>1, <1>2, <1>3, FS_EmptySet DEF Missing
  <1>4. CASE Cardinality(Missing(t)) = 1
    <2>1. PICK k : Missing(t) = {k}
      BY <1>1, <1>4, FS_Singleton
    <2>2. NextKind(t) = k
      BY <2>1 DEF NextKind
    <2> QED BY <1>2, <2>1, <2>2 DEF Missing
  <1> QED BY <1>1, <1>3, <1>4

LEMMA RegisterEvidenceStep ==
    ASSUME TypeInv, NEW t \in Task, TaskInv(t), RegisterEvidence(t)
    PROVE  TypeInv' /\ TaskInv(t)' /\ Around(t)
  <1>1. /\ at[t] = "evidence" /\ mem'[t] = mem[t]
        /\ UNCHANGED <<world, run, registry, disk, store, ledger, mem, tries, crashes>>
        /\ at' \in [Task -> Steps] /\ at'[t] \in {"evidence", "work"}
        /\ \A u \in Task \ {t} : at'[u] = at[u]
    BY DEF RegisterEvidence, Go, TypeInv, Steps, Writing
  <1>2. /\ evidence' = [u \in Task |-> evidence'[u]]
        /\ evidence[t] \subseteq evidence'[t]
        /\ \A u \in Task \ {t} : evidence'[u] = evidence[u]
    BY DEF RegisterEvidence, TypeInv
  <1>3. at'[t] = "work" => Evident(t, mem[t].artifact)'
    <2>1. SUFFICES ASSUME at'[t] = "work"
                   PROVE  \A k \in EvidenceKind : <<mem'[t].artifact, k>> \in evidence'[t]
      BY DEF Evident
    <2>2. IsFiniteSet(Missing(t)) /\ Cardinality(Missing(t)) \in Nat
      BY ChapterAssumption, FS_Subset, FS_CardinalityType DEF Missing
    <2>3. ~(Cardinality(Missing(t)) > 1)
      BY <2>1 DEF RegisterEvidence, Go, TypeInv
    <2>4. evidence = [u \in Task |-> evidence[u]] /\ Cardinality(Missing(t)) <= 1
      BY <2>2, <2>3 DEF TypeInv
    <2>5. \A k \in EvidenceKind : <<mem[t].artifact, k>> \in evidence'[t]
      BY <2>4, Evidences
    <2> QED BY <1>1, <2>5
  <1>4. TypeInv'
    BY <1>1, <1>2 DEF TypeInv, world
  <1>5. Around(t)
    BY <1>1, <1>2 DEF Around, Grows, Kept, world
  <1>6. Place(t)' /\ Asked(t)' /\ Found(t)' /\ Earned(t)' /\ Counted(t)'
    BY <1>1 DEF Place, Asked, Found, Earned, Counted, TaskInv, world, Writing
  <1>7. Cited(t)'
    BY <1>1, <1>3 DEF Cited, TaskInv, Place, Writing
  <1>8. Told(t)'
    BY <1>1 DEF Told, TaskInv, Place, Writing, Final
  <1> QED BY <1>4, <1>5, <1>6, <1>7, <1>8 DEF TaskInv

-----------------------------------------------------------------------------
\* A registration that goes through, and leaves for another: what that one
\* relies on is all there is to show.
LEMMA Registered1 ==
    ASSUME TypeInv, NEW t \in Task, TaskInv(t), at[t] \in Writing,
           NEW next \in {"version", "zero", "platform"}, Grows, Go(t, next), UNCHANGED mem,
           UNCHANGED <<world, run, registry, disk, store, evidence, tries, crashes>>,
           Evident(t, mem[t].artifact), <<"work">> \in DOMAIN ledger',
           next \in {"zero", "platform"} => VersionFact(t, mem[t].artifact)',
           next = "platform" => <<"zero", t>> \in DOMAIN ledger'
    PROVE  TypeInv' /\ TaskInv(t)' /\ Around(t)
  <1>1. /\ at' \in [Task -> Steps] /\ at'[t] = next
        /\ \A u \in Task \ {t} : at'[u] = at[u]
    BY DEF Go, TypeInv, Steps, Writing
  <1>2. TypeInv'
    BY <1>1 DEF TypeInv, world
  <1>3. Around(t)
    BY <1>1 DEF Around, Kept, world
  <1>4. Place(t)' /\ Asked(t)' /\ Found(t)' /\ Earned(t)' /\ Counted(t)'
    BY <1>1 DEF Place, Asked, Found, Earned, Counted, TaskInv, world, Writing
  <1>5. Cited(t)'
    <2>1. disk'[t].done # 4
      BY DEF TaskInv, Place
    <2>2. mem'[t].artifact \in DOMAIN store'[t]
      BY DEF TaskInv, Cited
    <2>3. Evident(t, mem[t].artifact)'
      BY DEF Evident
    <2> QED BY <1>1, <2>1, <2>2, <2>3 DEF Cited, Writing
  <1>6. Told(t)'
    BY DEF Told, TaskInv, Place, Final
  <1> QED BY <1>2, <1>3, <1>4, <1>5, <1>6 DEF TaskInv

\* The last one, which leaves the node complete.
LEMMA Registered2 ==
    ASSUME TypeInv, NEW t \in Task, TaskInv(t), at[t] = "platform", Grows,
           Finish(t, Completed(mem[t])), <<"platform">> \in DOMAIN ledger',
           UNCHANGED <<world, run, registry, disk, store, evidence, tries, crashes>>
    PROVE  TypeInv' /\ TaskInv(t)' /\ Around(t)
  <1>1. /\ disk[t] \in TaskStates /\ disk[t].status = "open" /\ disk[t].done = 3
        /\ mem[t].status = "open" /\ mem[t].done = 3 /\ mem[t].bad = FALSE
        /\ mem[t].draft = disk[t].draft /\ mem[t].context = disk[t].context
    <2>1. /\ disk[t] \in TaskStates /\ disk[t].status = "open" /\ disk[t].done = 3
          /\ ~disk[t].bad /\ mem[t] = [disk[t] EXCEPT !.artifact = Len(store[t])]
      BY DEF TypeInv, TaskInv, Place, Writing
    <2> QED BY <2>1 DEF TaskStates
  <1> DEFINE m == Completed(mem[t])
  <1>2. /\ m \in TaskStates /\ m.status = "open" /\ m.done = 4 /\ m.bad = FALSE
        /\ m.draft = disk[t].draft /\ m.context = disk[t].context
        /\ m.artifact = mem[t].artifact
    BY <1>1, CompletedIs DEF TypeInv
  <1> HIDE DEF m
  <1>3. /\ mem' \in [Task -> TaskStates] /\ mem'[t] = m
        /\ at' \in [Task -> Steps] /\ at'[t] = "save"
        /\ \A u \in Task \ {t} : at'[u] = at[u] /\ mem'[u] = mem[u]
    BY <1>2 DEF Finish, Go, TypeInv, Steps, m
  <1>4. TypeInv'
    BY <1>3 DEF TypeInv, world
  <1>5. Around(t)
    BY <1>3 DEF Around, Kept, world
  <1>6. Place(t)'
    <2>1. /\ mem'[t].status = "open" /\ mem'[t].done = 4 /\ disk'[t].done = 3
          /\ mem'[t].draft = disk'[t].draft /\ mem'[t].context = disk'[t].context
      BY <1>1, <1>2, <1>3
    <2>2. mem'[t].bad = (mem'[t].done = 3)
      <3>1. mem'[t].bad = FALSE /\ (mem'[t].done = 3) = FALSE
        BY <1>2, <1>3
      <3> QED BY <3>1
    <2>3. disk'[t] = disk[t]
      OBVIOUS
    <2> QED BY <1>1, <1>3, <2>1, <2>2, <2>3 DEF Place, Writing, TaskInv
  <1>7. Asked(t)'
    BY <1>3 DEF Asked, TaskInv, world
  <1>8. Found(t)' /\ Earned(t)'
    BY DEF Found, Earned, TaskInv, world
  <1>9. Counted(t)'
    BY <1>1, <1>3 DEF Counted, TaskInv, Writing
  <1>10. Cited(t)'
    <2>1. /\ mem[t].artifact \in DOMAIN store'[t]
          /\ \A k \in EvidenceKind : <<mem[t].artifact, k>> \in evidence'[t]
      BY DEF TaskInv, Cited, Writing, Evident
    <2>2. {<<"work">>, <<"platform">>, <<"zero", t>>} \subseteq DOMAIN ledger'
      BY DEF TaskInv, Cited, Grows
    <2>3. <<"version", t>> \in DOMAIN ledger' /\ ledger'[<<"version", t>>].artifact = mem[t].artifact
      BY DEF TaskInv, Cited, Grows, VersionFact
    <2>4. Registered(t, mem[t].artifact)'
      BY <1>2, <1>3, <2>1, <2>2, <2>3 DEF Registered, Evident, VersionFact
    <2> QED BY <1>1, <1>3, <2>4 DEF Cited, Writing
  <1>11. Told(t)'
    BY <1>1 DEF Told, TaskInv, Final
  <1> QED BY <1>4, <1>5, <1>6, <1>7, <1>8, <1>9, <1>10, <1>11 DEF TaskInv

LEMMA RegistersStep ==
    ASSUME TypeInv, NEW t \in Task, TaskInv(t),
           \/ register_work(t) \/ register_version(t)
           \/ register_zero_cost(t) \/ register_platform(t)
    PROVE  TypeInv' /\ TaskInv(t)' /\ Around(t)
  <1> DEFINE Goal == TypeInv' /\ TaskInv(t)' /\ Around(t)
  <1>1. ASSUME NEW step \in Writing, NEW key, NEW payload, NEW next,
               Registers(t, step, key, payload, next), Conflicts(key, payload)
        PROVE  Goal
    <2>1. /\ at[t] \in Writing /\ at[t] # "loop" /\ Finish(t, Broken(mem[t]))
          /\ UNCHANGED <<world, run, registry, disk, store, evidence, ledger, tries, crashes>>
      BY <1>1 DEF Registers, Writing
    <2> QED BY <2>1, FinishStep
  <1>2. CASE register_work(t)
    <2> DEFINE key == <<"work">>
               payload == WorkPayload(t)
    <2> HIDE DEF payload
    <2>1. Registers(t, "work", key, payload, "version")
      BY <1>2 DEF register_work, payload
    <2>2. CASE ~Conflicts(key, payload)
      <3>1. Grows /\ key \in DOMAIN ledger'
        BY <2>1, <2>2, WrittenGrows DEF Registers
      <3>2. /\ at[t] = "work" /\ Go(t, "version") /\ UNCHANGED mem
            /\ UNCHANGED <<world, run, registry, disk, store, evidence, tries, crashes>>
        BY <2>1, <2>2 DEF Registers
      <3>3. at[t] \in Writing /\ Evident(t, mem[t].artifact)
        BY <3>2 DEF TaskInv, Cited, Writing
      <3> QED BY <3>1, <3>2, <3>3, Registered1
    <2> QED BY <1>1, <2>1, <2>2 DEF Writing
  <1>3. CASE register_version(t)
    <2> DEFINE key == <<"version", t>>
               payload == VersionPayload(t)
    <2>0. payload.artifact = mem[t].artifact
      BY DEF VersionPayload
    <2> HIDE DEF payload
    <2>1. Registers(t, "version", key, payload, "zero")
      BY <1>3 DEF register_version, payload
    <2>2. CASE ~Conflicts(key, payload)
      <3>1. Grows /\ key \in DOMAIN ledger' /\ ledger'[key] = payload
        BY <2>1, <2>2, WrittenGrows DEF Registers
      <3>2. /\ at[t] = "version" /\ Go(t, "zero") /\ UNCHANGED mem
            /\ UNCHANGED <<world, run, registry, disk, store, evidence, tries, crashes>>
        BY <2>1, <2>2 DEF Registers
      <3>3. /\ at[t] \in Writing /\ Evident(t, mem[t].artifact)
            /\ <<"work">> \in DOMAIN ledger
        BY <3>2 DEF TaskInv, Cited, Writing
      <3>4. <<"work">> \in DOMAIN ledger'
        BY <3>1, <3>3 DEF Grows
      <3>5. VersionFact(t, mem[t].artifact)'
        BY <2>0, <3>1, <3>2 DEF VersionFact
      <3> QED BY <3>1, <3>2, <3>3, <3>4, <3>5, Registered1
    <2> QED BY <1>1, <2>1, <2>2 DEF Writing
  <1>4. CASE register_zero_cost(t)
    <2> DEFINE key == <<"zero", t>>
               payload == TimePayload
    <2> HIDE DEF payload
    <2>1. Registers(t, "zero", key, payload, "platform")
      BY <1>4 DEF register_zero_cost, payload
    <2>2. CASE ~Conflicts(key, payload)
      <3>1. Grows /\ key \in DOMAIN ledger'
        BY <2>1, <2>2, WrittenGrows DEF Registers
      <3>2. /\ at[t] = "zero" /\ Go(t, "platform") /\ UNCHANGED mem
            /\ UNCHANGED <<world, run, registry, disk, store, evidence, tries, crashes>>
        BY <2>1, <2>2 DEF Registers
      <3>3. /\ at[t] \in Writing /\ Evident(t, mem[t].artifact)
            /\ <<"work">> \in DOMAIN ledger /\ VersionFact(t, mem[t].artifact)
        BY <3>2 DEF TaskInv, Cited, Writing
      <3>4. <<"work">> \in DOMAIN ledger'
        BY <3>1, <3>3 DEF Grows
      <3>5. VersionFact(t, mem[t].artifact)'
        BY <3>1, <3>2, <3>3 DEF VersionFact, Grows
      <3> QED BY <3>1, <3>2, <3>3, <3>4, <3>5, Registered1
    <2> QED BY <1>1, <2>1, <2>2 DEF Writing
  <1>5. CASE register_platform(t)
    <2> DEFINE key == <<"platform">>
               payload == TimePayload
    <2> HIDE DEF payload
    <2>1. Registers(t, "platform", key, payload, "finished")
      BY <1>5 DEF register_platform, payload
    <2>2. CASE ~Conflicts(key, payload)
      <3>1. Grows /\ key \in DOMAIN ledger'
        BY <2>1, <2>2, WrittenGrows DEF Registers
      <3>2. /\ at[t] = "platform" /\ Finish(t, Completed(mem[t]))
            /\ UNCHANGED <<world, run, registry, disk, store, evidence, tries, crashes>>
        BY <2>1, <2>2 DEF Registers
      <3> QED BY <3>1, <3>2, Registered2
    <2> QED BY <1>1, <2>1, <2>2 DEF Writing
  <1> QED BY <1>2, <1>3, <1>4, <1>5

-----------------------------------------------------------------------------
LEMMA SaveNodeStep ==
    ASSUME TypeInv, NEW t \in Task, TaskInv(t), SaveNode(t)
    PROVE  TypeInv' /\ TaskInv(t)' /\ Around(t)
  <1>1. /\ at[t] = "save" /\ disk[t].status = "open"
        /\ mem' = mem /\ disk'[t] = mem[t] /\ mem'[t] = mem[t]
        /\ mem' \in [Task -> TaskStates] /\ disk' \in [Task -> TaskStates]
        /\ at' \in [Task -> Steps] /\ at'[t] \in {"loop", "update"}
        /\ \A u \in Task \ {t} : at'[u] = at[u] /\ mem'[u] = mem[u] /\ disk'[u] = disk[u]
        /\ UNCHANGED <<world, run, registry, store, evidence, ledger, tries, crashes>>
    BY DEF SaveNode, Save, Go, TypeInv, Steps, TaskInv, Place
  <1>2. /\ mem[t].status = "open"
        /\ \/ mem[t].done = 0 /\ mem[t].bad /\ store[t] = <<>>
           \/ /\ mem[t].done \in {3, 4} /\ disk[t].done = 3 /\ mem[t].bad = (mem[t].done = 3)
              /\ mem[t].draft = disk[t].draft /\ mem[t].context = disk[t].context
    BY <1>1 DEF TaskInv, Place
  <1>3. mem[t].done = 4 => ~mem[t].bad
    <2>1. SUFFICES ASSUME mem[t].done = 4
                   PROVE  mem[t].bad = FALSE
      OBVIOUS
    <2>2. mem[t].bad = (mem[t].done = 3) /\ (mem[t].done = 3) = FALSE
      BY <1>2, <2>1
    <2> QED BY <2>2
  <1>4. mem[t].done = 3 => mem[t].bad
    BY <1>2
  <1>5. TypeInv'
    BY <1>1 DEF TypeInv, world
  <1>6. Around(t)
    BY <1>1 DEF Around, Grows, Kept, world
  <1>7. Place(t)'
    BY <1>1, <1>2, <1>3 DEF Place, Writing
  <1>8. Asked(t)'
    BY <1>1 DEF Asked, TaskInv, world
  <1>9. Found(t)'
    BY <1>1, <1>2 DEF Found, TaskInv, world
  <1>10. Earned(t)'
    BY <1>1, <1>2 DEF Earned, TaskInv, world
  <1>11. Counted(t)'
    <2>1. CASE store[t] = <<>>
      BY <1>1, <2>1 DEF Counted, TypeInv
    <2>2. CASE store[t] # <<>>
      <3>1. disk'[t].bad \/ disk'[t].done = 4
        BY <1>1, <1>2, <1>4, <2>2
      <3>2. Len(store[t]) <= crashes + 1
        BY DEF Counted, TaskInv, TypeInv
      <3> QED BY <1>1, <3>1, <3>2 DEF Counted
    <2> QED BY <2>1, <2>2
  <1>12. Cited(t)'
    BY <1>1, <1>2 DEF Cited, TaskInv, Writing, Registered, Evident, VersionFact
  <1>13. Told(t)'
    BY <1>1 DEF Told, TaskInv, Final
  <1> QED BY <1>5, <1>6, <1>7, <1>8, <1>9, <1>10, <1>11, <1>12, <1>13 DEF TaskInv

LEMMA ConcludeStep ==
    ASSUME TypeInv, NEW t \in Task, TaskInv(t), Conclude(t)
    PROVE  TypeInv' /\ TaskInv(t)' /\ Around(t)
  <1>1. /\ at[t] = "loop" /\ mem[t] = disk[t] /\ disk[t].status = "open"
        /\ disk[t] \in TaskStates
        /\ mem[t].bad \/ mem[t].done = 4
    BY DEF Conclude, TaskInv, Place, TypeInv, Chain
  <1> DEFINE m == [mem[t] EXCEPT !.status = Verdict(mem[t])]
  <1>2. /\ m \in TaskStates /\ m.status \in Final /\ m.done = disk[t].done
        /\ m.bad = disk[t].bad /\ m.draft = disk[t].draft /\ m.context = disk[t].context
        /\ m.artifact = disk[t].artifact /\ m.status = Verdict(disk[t])
    <2>1. Verdict(mem[t]) \in Final
      BY DEF Verdict, Final
    <2> QED BY <1>1, <2>1 DEF TaskStates
  <1>3. m.status = "completed" => disk[t].done = 4
    BY <1>1, <1>2 DEF Verdict
  <1> HIDE DEF m
  <1>4. /\ mem' \in [Task -> TaskStates] /\ disk' \in [Task -> TaskStates]
        /\ mem'[t] = m /\ disk'[t] = m
        /\ \A u \in Task \ {t} : mem'[u] = mem[u] /\ disk'[u] = disk[u]
    <2>1. mem' = [mem EXCEPT ![t].status = Verdict(mem[t])] /\ disk' = [disk EXCEPT ![t] = mem'[t]]
      BY DEF Conclude
    <2>2. mem'[t] = m /\ \A u \in Task \ {t} : mem'[u] = mem[u]
      BY <2>1 DEF TypeInv, m
    <2>3. mem' \in [Task -> TaskStates]
      BY <1>2, <2>1 DEF TypeInv, m
    <2> QED BY <1>2, <2>1, <2>2, <2>3 DEF TypeInv
  <1>5. /\ at' \in [Task -> Steps] /\ at'[t] = "update"
        /\ \A u \in Task \ {t} : at'[u] = at[u]
        /\ UNCHANGED <<world, run, registry, store, evidence, ledger, tries, crashes>>
    BY DEF Conclude, Go, TypeInv, Steps
  <1>6. TypeInv'
    BY <1>4, <1>5 DEF TypeInv, world
  <1>7. Around(t)
    BY <1>4, <1>5 DEF Around, Grows, Kept, world
  <1>8. Place(t)'
    BY <1>1, <1>2, <1>3, <1>4, <1>5 DEF Place, Writing, TaskInv, Final
  <1>9. Asked(t)'
    BY <1>1, <1>5 DEF Asked, TaskInv, world
  <1>10. Found(t)'
    BY <1>2, <1>4, <1>5 DEF Found, TaskInv, world
  <1>11. Earned(t)'
    BY <1>2, <1>4, <1>5 DEF Earned, TaskInv, world
  <1>12. Counted(t)'
    BY <1>1, <1>2, <1>4, <1>5 DEF Counted, TaskInv, Writing
  <1>13. Cited(t)'
    BY <1>1, <1>2, <1>4, <1>5 DEF Cited, TaskInv, Writing, Registered, Evident, VersionFact
  <1>14. Told(t)'
    BY <1>1, <1>5 DEF Told, TaskInv, Final
  <1> QED BY <1>6, <1>7, <1>8, <1>9, <1>10, <1>11, <1>12, <1>13, <1>14 DEF TaskInv

LEMMA UpdateRegistryStep ==
    ASSUME TypeInv, NEW t \in Task, TaskInv(t), UpdateRegistry(t)
    PROVE  TypeInv' /\ TaskInv(t)' /\ Around(t)
  <1>1. /\ at[t] = "update" /\ mem[t] = disk[t] /\ disk[t].status # "absent"
        /\ disk[t] \in TaskStates
        /\ disk[t].status = "completed" => disk[t].done = 4
    BY DEF UpdateRegistry, TaskInv, Place, TypeInv
  <1>2. /\ Entry(t) \in Entries /\ Entry(t).status = disk[t].status
        /\ disk[t].done = 4 => Entry(t).accepted = disk[t].artifact
    <2>1. registry[t] \in Entries
      BY DEF TypeInv
    <2>2. mem[t].status \in {"none", "open"} \cup Final
      BY <1>1 DEF TaskStates
    <2>3. (IF mem[t].done = Len(Chain) THEN mem[t].artifact ELSE registry[t].accepted) \in Nat
      BY <1>1, <2>1 DEF TaskStates, Entries
    <2>4. Len(Chain) = 4
      BY DEF Chain
    <2> QED BY <1>1, <2>2, <2>3, <2>4 DEF Entry, Entries
  <1>3. /\ registry' \in [Task -> Entries] /\ registry'[t] = Entry(t)
        /\ mem' \in [Task -> TaskStates] /\ at' \in [Task -> Steps] /\ at'[t] = "idle"
        /\ \A u \in Task \ {t} : registry'[u] = registry[u] /\ mem'[u] = mem[u] /\ at'[u] = at[u]
        /\ UNCHANGED <<world, run, disk, store, evidence, ledger, tries, crashes>>
    BY <1>2, FreshIs DEF UpdateRegistry, Return, Go, TypeInv, Steps
  <1>4. TypeInv'
    BY <1>3 DEF TypeInv, world
  <1>5. Around(t)
    BY <1>3 DEF Around, Grows, Kept, world
  <1>6. Place(t)'
    BY <1>3 DEF Place, Writing, TaskInv
  <1>7. Asked(t)'
    BY <1>1, <1>2, <1>3 DEF Asked, TaskInv, world, TaskStates, Final
  <1>8. Found(t)' /\ Earned(t)'
    BY <1>3 DEF Found, Earned, TaskInv, world
  <1>9. Counted(t)'
    BY <1>1, <1>3 DEF Counted, TaskInv, Writing
  <1>10. Cited(t)'
    BY <1>1, <1>3 DEF Cited, TaskInv, Writing, Registered, Evident, VersionFact
  <1>11. Told(t)'
    <2>1. registry'[t].status = "completed" => Registered(t, disk[t].artifact)
      BY <1>1, <1>2, <1>3 DEF Cited, TaskInv
    <2> QED BY <1>2, <1>3, <2>1, <1>1 DEF Told, Registered, Evident, VersionFact
  <1> QED BY <1>4, <1>5, <1>6, <1>7, <1>8, <1>9, <1>10, <1>11 DEF TaskInv

LEMMA ChangeRequestStep ==
    ASSUME TypeInv, NEW t \in Task, TaskInv(t), ChangeRequest(t)
    PROVE  TypeInv' /\ TaskInv(t)' /\ Around(t)
  <1>1. /\ at[t] # "idle" \/ registry[t].status # "none"
        /\ UNCHANGED <<run, registry, disk, store, evidence, ledger, at, mem, tries, crashes>>
        /\ swapped' = IF at[t] = "idle" THEN swapped ELSE swapped \cup {t}
    BY DEF ChangeRequest, Readable
  <1>2. /\ request' \in [Task -> Requests]
        /\ \A u \in Task \ {t} : request'[u] = request[u]
    <2>1. PICK other \in {"other", "bad"} : request' = [request EXCEPT ![t] = other]
      BY DEF ChangeRequest
    <2> QED BY <2>1 DEF TypeInv, Requests
  <1>3. /\ swapped' \in SUBSET Task /\ swapped \subseteq swapped'
        /\ \A u \in Task \ {t} : u \in swapped' <=> u \in swapped
    BY <1>1 DEF TypeInv
  <1>4. TypeInv'
    BY <1>1, <1>2, <1>3 DEF TypeInv
  <1>5. Around(t)
    BY <1>1, <1>2, <1>3 DEF Around, Grows, Kept
  <1>6. Place(t)' /\ Counted(t)'
    BY <1>1 DEF Place, Counted, TaskInv
  <1>7. Asked(t)'
    BY <1>1 DEF Asked, TaskInv
  <1>8. Found(t)'
    BY <1>1, <1>3 DEF Found, TaskInv
  <1>9. Earned(t)'
    BY <1>1, <1>3 DEF Earned, TaskInv
  <1>10. Cited(t)' /\ Told(t)'
    BY <1>1 DEF Cited, Told, TaskInv, Registered, Evident, VersionFact
  <1> QED BY <1>4, <1>5, <1>6, <1>7, <1>8, <1>9, <1>10 DEF TaskInv

LEMMA CrashStep ==
    ASSUME TypeInv, NEW t \in Task, TaskInv(t), Crash
    PROVE  TypeInv' /\ TaskInv(t)'
  <1>1. /\ crashes' = crashes + 1 /\ mem' = [u \in Task |-> NewTask]
        /\ at' = [u \in Task |-> "idle"]
        /\ UNCHANGED <<world, run, disk, store, evidence, ledger, tries>>
    BY DEF Crash
  <1>a. /\ registry' \in [Task -> Entries]
        /\ \/ registry'[t] = registry[t]
           \/ registry'[t].status = "torn" /\ at[t] \in {"registry", "update"}
    <2>1. PICK T \in SUBSET {u \in Task : at[u] \in {"registry", "update"}} :
             registry' = [u \in Task |-> IF u \in T THEN TornEntry ELSE registry[u]]
      BY DEF Crash
    <2>2. TornEntry \in Entries /\ TornEntry.status = "torn"
      BY DEF TornEntry, Entries, None
    <2> QED BY <2>1, <2>2 DEF TypeInv
  <1>2. TypeInv'
    BY <1>1, <1>a, FreshIs DEF TypeInv, world, Steps
  <1>3. at'[t] = "idle"
    BY <1>1
  <1>4. Place(t)'
    BY <1>1, <1>3 DEF Place, TaskInv, Writing
  <1>5. Asked(t)'
    BY <1>1, <1>3, <1>a DEF Asked, TaskInv, world
  <1>6. Found(t)' /\ Earned(t)'
    BY <1>1 DEF Found, Earned, TaskInv, world
  <1>7. Counted(t)'
    <2>1. Len(store[t]) <= crashes + 1 /\ Len(store[t]) \in Nat /\ crashes \in Nat
      BY DEF Counted, TaskInv, TypeInv
    <2> QED BY <1>1, <2>1 DEF Counted
  <1>8. Cited(t)'
    BY <1>1, <1>3 DEF Cited, TaskInv, Writing, Registered, Evident, VersionFact
  <1>9. Told(t)'
    BY <1>1, <1>a DEF Told, Final, TaskInv, Registered, Evident, VersionFact
  <1> QED BY <1>2, <1>4, <1>5, <1>6, <1>7, <1>8, <1>9 DEF TaskInv

-----------------------------------------------------------------------------
ChapterInv == TypeInv /\ \A t \in Task : TaskInv(t)

LEMMA Initially == Init => ChapterInv
  <1> SUFFICES ASSUME Init PROVE ChapterInv
    OBVIOUS
  <1>1. TypeInv
    <2>1. NoEntry \in Entries /\ <<>> \in Seq(Accepted)
      BY DEF NoEntry, None, Entries
    <2> QED BY <2>1, FreshIs DEF Init, TypeInv, Requests, Steps
  <1>2. ASSUME NEW t \in Task PROVE TaskInv(t)
    <2>1. /\ disk[t] = NewTask /\ at[t] = "idle" /\ registry[t].status = "none"
          /\ store[t] = <<>> /\ request[t] = "submitted" /\ crashes = 0
      BY <1>2 DEF Init, NoEntry
    <2>2. Place(t) /\ Asked(t) /\ Found(t) /\ Earned(t) /\ Counted(t)
      BY <2>1, FreshIs DEF Place, Asked, Found, Earned, Counted, Writing
    <2>3. Cited(t) /\ Told(t)
      BY <2>1, FreshIs DEF Cited, Told, Writing, Final
    <2> QED BY <2>2, <2>3 DEF TaskInv
  <1> QED BY <1>1, <1>2 DEF ChapterInv

\* One step per action; what it does to its own task is above, and to another
\* nothing.
LEMMA Inductive == ChapterInv /\ [Next]_vars => ChapterInv'
  <1> SUFFICES ASSUME ChapterInv, [Next]_vars PROVE ChapterInv'
    OBVIOUS
  <1>1. TypeInv /\ \A u \in Task : TaskInv(u)
    BY DEF ChapterInv
  <1>2. ASSUME NEW t \in Task, TypeInv', TaskInv(t)', Around(t)
        PROVE  ChapterInv'
    <2>1. ASSUME NEW u \in Task \ {t} PROVE TaskInv(u)'
      BY <1>1, <1>2, <2>1, Frame DEF Around
    <2> QED BY <1>2, <2>1 DEF ChapterInv
  <1>3. ASSUME NEW t \in Task, Submit(t) \/ CreateRun(t) \/ BindRun(t) \/ SaveRegistry(t) PROVE ChapterInv'
    BY <1>1, <1>2, <1>3, CallSteps
  <1>4. ASSUME NEW t \in Task, Start(t) \/ Resume(t) PROVE ChapterInv'
    BY <1>1, <1>2, <1>4, LoadStep
  <1>5. ASSUME NEW t \in Task, RunContext(t) PROVE ChapterInv'
    BY <1>1, <1>2, <1>5, RunContextStep
  <1>6. ASSUME NEW t \in Task, RunDraft(t) PROVE ChapterInv'
    BY <1>1, <1>2, <1>6, RunDraftStep
  <1>7. ASSUME NEW t \in Task, RunQuality(t) PROVE ChapterInv'
    BY <1>1, <1>2, <1>7, RunQualityStep
  <1>8. ASSUME NEW t \in Task, RunArtifact(t) PROVE ChapterInv'
    BY <1>1, <1>2, <1>8, RunArtifactStep
  <1>9. ASSUME NEW t \in Task, RegisterEvidence(t) PROVE ChapterInv'
    BY <1>1, <1>2, <1>9, RegisterEvidenceStep
  <1>10. ASSUME NEW t \in Task,
                \/ register_work(t) \/ register_version(t)
                \/ register_zero_cost(t) \/ register_platform(t)
         PROVE  ChapterInv'
    BY <1>1, <1>2, <1>10, RegistersStep
  <1>11. ASSUME NEW t \in Task, Raise(t) \/ RaiseUnread(t) PROVE ChapterInv'
    BY <1>1, <1>2, <1>11, Raises
  <1>12. ASSUME NEW t \in Task, SaveNode(t) PROVE ChapterInv'
    BY <1>1, <1>2, <1>12, SaveNodeStep
  <1>13. ASSUME NEW t \in Task, Conclude(t) PROVE ChapterInv'
    BY <1>1, <1>2, <1>13, ConcludeStep
  <1>14. ASSUME NEW t \in Task, UpdateRegistry(t) PROVE ChapterInv'
    BY <1>1, <1>2, <1>14, UpdateRegistryStep
  <1>15. ASSUME NEW t \in Task, ChangeRequest(t) PROVE ChapterInv'
    BY <1>1, <1>2, <1>15, ChangeRequestStep
  <1>16. CASE Crash
    <2>1. TypeInv'
      <3>1. PICK t \in Task : at[t] # "idle"
        BY <1>16 DEF Crash
      <3> QED BY <1>1, <1>16, CrashStep
    <2>2. ASSUME NEW u \in Task PROVE TaskInv(u)'
      BY <1>1, <1>16, CrashStep
    <2> QED BY <2>1, <2>2 DEF ChapterInv
  <1>17. CASE Tick \/ UNCHANGED vars
    <2>1. UNCHANGED <<world, run, registry, disk, store, evidence, ledger, at, mem, tries, crashes>>
      BY <1>17 DEF Tick, vars
    <2>2. TypeInv'
      BY <1>1, <2>1 DEF TypeInv, world
    <2>3. ASSUME NEW u \in Task PROVE TaskInv(u)'
      <3>1. Kept(u) /\ Grows
        BY <2>1 DEF Kept, Grows, world
      <3> QED BY <1>1, <2>1, <3>1, Frame
    <2> QED BY <2>2, <2>3 DEF ChapterInv
  <1> QED BY <1>3, <1>4, <1>5, <1>6, <1>7, <1>8, <1>9, <1>10, <1>11, <1>12, <1>13,
             <1>14, <1>15, <1>16, <1>17 DEF Next, Step

LEMMA ChapterInvariant == Spec => []ChapterInv
  BY Initially, Inductive, PTL DEF Spec

-----------------------------------------------------------------------------
LEMMA EarnedIsSound == ChapterInv => AcceptedIsSound
  <1> SUFFICES ASSUME ChapterInv PROVE AcceptedIsSound
    OBVIOUS
  <1>1. AcceptedIsEarned
    BY DEF ChapterInv, TaskInv, Earned, AcceptedIsEarned
  <1>2. AcceptedBounded
    <2>1. ASSUME NEW t \in Task PROVE Len(store[t]) <= 1 + crashes
      <3>1. Len(store[t]) \in Nat /\ crashes \in Nat
        BY DEF ChapterInv, TypeInv
      <3>2. Len(store[t]) <= crashes \/ Len(store[t]) <= crashes + 1
        BY DEF ChapterInv, TaskInv, Counted
      <3> QED BY <3>1, <3>2
    <2> QED BY <2>1 DEF AcceptedBounded
  <1> QED BY <1>1, <1>2 DEF AcceptedIsSound

LEMMA ToldIsTrue == ChapterInv => RegistryIsTrue
  <1> SUFFICES ASSUME ChapterInv PROVE RegistryIsTrue
    OBVIOUS
  <1>1. RegistryTruth
    BY DEF ChapterInv, TaskInv, Told, RegistryTruth, Registered, Evident, VersionFact
  <1>2. RestoredAgrees
    <2>1. SUFFICES ASSUME NEW t \in Task, crashes = 0, registry[t].status = "completed",
                          NEW r \in Restored(t)
                   PROVE  r.registry = registry[t] /\ r.dag.status = "completed"
      BY DEF RestoredAgrees
    <2>2. disk[t].status = "completed" /\ registry[t].accepted \in DOMAIN store[t]
      BY <2>1 DEF ChapterInv, TaskInv, Told, Registered, Final
    <2>3. store[t] \in Seq(Accepted) /\ Len(store[t]) \in Nat /\ registry[t] \in Entries
      BY DEF ChapterInv, TypeInv
    <2>4. Len(store[t]) <= 1
      BY <2>1, <2>3 DEF ChapterInv, TaskInv, Counted
    <2>5. \A a \in DOMAIN store[t] : a = registry[t].accepted
      BY <2>2, <2>3, <2>4
    <2>6. store[t] # <<>>
      BY <2>2
    <2>7. PICK a \in DOMAIN store[t] :
              r = [dag |-> disk[t], registry |-> [status |-> "completed", accepted |-> a]]
      BY <2>1, <2>6 DEF Restored
    <2>8. registry[t] = [status |-> "completed", accepted |-> registry[t].accepted]
      BY <2>1, <2>3 DEF Entries
    <2> QED BY <2>2, <2>5, <2>7, <2>8
  <1> QED BY <1>1, <1>2 DEF RegistryIsTrue

\* Only a registration writes to the ledger, and it only adds to it.
LEMMA LedgerGrows == Next => Grows \/ UNCHANGED ledger
  <1> SUFFICES ASSUME Next PROVE Grows \/ UNCHANGED ledger
    OBVIOUS
  <1>1. ASSUME NEW t \in Task, NEW step, NEW key, NEW payload, NEW next,
               Registers(t, step, key, payload, next)
        PROVE  Grows \/ UNCHANGED ledger
    BY <1>1, WrittenGrows DEF Registers
  <1>2. ASSUME NEW t \in Task, Submit(t) \/ Resume(t) \/ ChangeRequest(t)
        PROVE  UNCHANGED ledger
    BY <1>2 DEF Submit, Resume, Load, ChangeRequest
  <1>3. ASSUME NEW t \in Task, Step(t)
        PROVE  Grows \/ UNCHANGED ledger
    <2>1. CASE \/ CreateRun(t) \/ BindRun(t) \/ SaveRegistry(t) \/ Start(t)
      BY <2>1 DEF CreateRun, BindRun, SaveRegistry, Start, Load
    <2>2. CASE RunContext(t) \/ RunDraft(t) \/ RunQuality(t) \/ RunArtifact(t)
      BY <2>2 DEF RunContext, RunDraft, RunQuality, RunArtifact
    <2>3. CASE RegisterEvidence(t) \/ Raise(t) \/ RaiseUnread(t)
      BY <2>3 DEF RegisterEvidence, Raise, RaiseUnread
    <2>4. CASE SaveNode(t) \/ Conclude(t) \/ UpdateRegistry(t)
      BY <2>4 DEF SaveNode, Conclude, UpdateRegistry, Return
    <2>5. CASE register_work(t)
      BY <1>1, <2>5 DEF register_work
    <2>6. CASE register_version(t)
      BY <1>1, <2>6 DEF register_version
    <2>7. CASE register_zero_cost(t)
      BY <1>1, <2>7 DEF register_zero_cost
    <2>8. CASE register_platform(t)
      BY <1>1, <2>8 DEF register_platform
    <2> QED BY <1>3, <2>1, <2>2, <2>3, <2>4, <2>5, <2>6, <2>7, <2>8 DEF Step
  <1>4. CASE Tick \/ Crash
    BY <1>4 DEF Tick, Crash
  <1> QED BY <1>2, <1>3, <1>4 DEF Next

\* Every content a task has accepted cites the draft and the context of its
\* checkpoint, and passed the checks of the request that was submitted, unless
\* that was changed under a call; and there is one of them, or one more for each
\* crash (_run_quality, _run_artifact).
THEOREM AcceptedIsSoundHolds == Spec => []AcceptedIsSound
  BY ChapterInvariant, EarnedIsSound, PTL

\* A registry entry that is final agrees with the checkpoint, and one that says
\* completed names an artifact that is stored, with its evidence and its facts in
\* the ledger (_update_registry_status); without a crash a restored export says
\* the same (import_project).
THEOREM RegistryIsTrueHolds == Spec => []RegistryIsTrue
  BY ChapterInvariant, ToldIsTrue, PTL

\* A fact of the economic ledger is never replaced, whichever task registers its
\* key again (EconomicLedger.append).
THEOREM FactsAreKeptHolds == Spec => FactsAreKept
  <1>1. [Next]_vars =>
            [\A key \in DOMAIN ledger : key \in DOMAIN ledger' /\ ledger'[key] = ledger[key]]_ledger
    BY LedgerGrows DEF Grows, vars
  <1> QED BY <1>1, PTL DEF Spec, FactsAreKept
=============================================================================
