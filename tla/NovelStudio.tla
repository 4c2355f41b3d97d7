------------------------------ MODULE NovelStudio ------------------------------
(***************************************************************************)
(* One project of the novel studio (novel_studio.py): materials are        *)
(* registered and reviewed by a person, a seed is saved, and three         *)
(* workflows run over them: bootstrap, the assembly of the story bible,    *)
(* and the assembly of a chapter's context from the bible and the craft    *)
(* catalog (novel_knowledge.py).                                           *)
(*                                                                         *)
(* All of it runs on one event loop.  What does not await is not           *)
(* interrupted by other requests; a workflow awaits between any two of its *)
(* stages, and there everything else may happen.  Files are written in     *)
(* place (write_json), so a crash leaves the one being written unreadable. *)
(***************************************************************************)
EXTENDS Totals, FiniteSets

CONSTANTS
    Material,    \* materials that may be registered, all with a summary and known
                 \* rights: the approval of another is refused and changes nothing
    Craft,       \* assets of the shared craft catalog
    Tokens,      \* Tokens[s]: estimated_tokens of a snippet
    Budgets,     \* token budgets of chapter requests
    MaxPerKind,  \* max_results_per_kind
    BootRun, BibleRun, ContextRun,  \* runs of the three workflows
    Job,         \* job ids that chapter requests name
    MaxSeeds,    \* bound: seeds saved
    MaxDeaths    \* bound: crashes

Run == BootRun \cup BibleRun \cup ContextRun

ASSUME StudioAssumption ==
    /\ IsFiniteSet(Material) /\ IsFiniteSet(Craft)
    /\ \A id \in {"contract"} \cup Material \cup Craft : Tokens[id] \in Nat
    /\ MaxPerKind \in Nat \ {0} /\ Budgets \subseteq Nat
    /\ MaxSeeds \in Nat /\ MaxDeaths \in Nat
    /\ BootRun \cap BibleRun = {} /\ (BootRun \cup BibleRun) \cap ContextRun = {}
    \* Requests write files too, and are not runs.
    /\ {"nobody", "create", "request"} \cap Run = {}

VARIABLES
    project,    \* project.json: how many runs it counts; nothing reads its status
    catalog,    \* materials/catalog.json: which materials are registered, and approved;
                \* nothing tells a rejected one from one not reviewed yet
    seed,       \* story-bible/seed.json: which one, 0 for none
    current,    \* story-bible/current.json
    jobs,       \* jobs[j]: the context in chapter-jobs/j
    torn,       \* files that a crash has left unreadable
    busy,       \* the file the event loop writes next without awaiting, and for whom
    stage,      \* stage[r]: the stage run r comes to next
    mem,        \* mem[r]: what r holds in memory and in its own files, while it runs
    recorded,   \* runs with a run.json
    \* History, read by properties only:
    deaths,
    packaged    \* bibles that were written to current.json, each with the materials
                \* that were approved when its run began

files == <<project, catalog, seed, current, jobs, torn>>
past == <<deaths, packaged>>
studioVars == <<files, busy, stage, mem, recorded, past>>

Idle == [file |-> "none", by |-> "nobody"]
NoProject == [exists |-> FALSE, runs |-> 0, bibles |-> 0]
NoPart == [seed |-> 0, evidence |-> {}]
NoBible == [run |-> "none", sources |-> {}, contract |-> NoPart, baseline |-> 0]
NoContext ==
    [run |-> "none", bible |-> NoBible, budget |-> 0, offered |-> {}, selected |-> {}]
NoMem ==
    [runs |-> 0, reviewed |-> {}, seed |-> 0, sources |-> {}, contract |-> NoPart, baseline |-> 0,
     job |-> "none", budget |-> 0, bible |-> NoBible, assets |-> {}]

StudioInit ==
    /\ project = NoProject /\ seed = 0
    /\ catalog = [m \in Material |-> "absent"]
    /\ current = NoBible
    /\ jobs = [j \in Job |-> NoContext]
    /\ torn = {} /\ busy = Idle
    /\ stage = [r \in Run |-> "new"]
    /\ mem = [r \in Run |-> NoMem]
    /\ recorded = {}
    /\ deaths = 0 /\ packaged = {}

Quiet == busy = Idle
Readable(file) == file \notin torn
HasProject == project.exists /\ Readable("project")
Goes(r, to) == stage' = [stage EXCEPT ![r] = to]
\* A run that fails before it has written a bible leaves nothing that is read
\* again, and its name may stand for another run.
Failed(r) == IF stage[r] = "record" THEN "failed" ELSE "new"
Ends(r, how) == Goes(r, how) /\ mem' = [mem EXCEPT ![r] = NoMem]
Writes(file, by) == busy' = [file |-> file, by |-> by]

-----------------------------------------------------------------------------
\* Requests of the owner, each written in one piece.

Registered == {m \in Material : catalog[m] # "absent"}
Approved == {m \in Material : catalog[m] = "approved"}

\* create_project: refused when there is a project.json, readable or not.
CreateProject ==
    /\ Quiet /\ ~project.exists /\ Readable("project")
    /\ project' = [NoProject EXCEPT !.exists = TRUE]
    /\ Writes("catalog", "create")
    /\ UNCHANGED <<catalog, seed, current, jobs, torn, stage, mem, recorded, past>>

CreateCatalog ==
    /\ busy.file = "catalog"
    /\ busy' = Idle
    /\ UNCHANGED <<files, stage, mem, recorded, past>>

RegisterMaterial(m) ==
    /\ Quiet /\ HasProject /\ Readable("catalog")
    /\ catalog[m] = "absent"
    /\ catalog' = [catalog EXCEPT ![m] = "registered"]
    /\ Writes("project", "request")
    /\ UNCHANGED <<project, seed, current, jobs, torn, stage, mem, recorded, past>>

ReviewMaterial(m, decision) ==
    /\ Quiet /\ HasProject /\ Readable("catalog")
    /\ catalog[m] # "absent"
    /\ catalog' = [catalog EXCEPT ![m] = IF decision = "approved" THEN decision ELSE "registered"]
    /\ Writes("project", "request")
    /\ UNCHANGED <<project, seed, current, jobs, torn, stage, mem, recorded, past>>

SaveSeed ==
    /\ Quiet /\ HasProject /\ seed < MaxSeeds
    /\ seed' = seed + 1
    /\ torn' = torn \ {"seed"}
    /\ Writes("project", "request")
    /\ UNCHANGED <<project, catalog, current, jobs, stage, mem, recorded, past>>

-----------------------------------------------------------------------------
\* The workflows.  Each reads its inputs when it begins, or is refused.

Begin(r, holds, to) ==
    /\ stage[r] = "new" /\ Quiet /\ HasProject
    /\ mem' = [mem EXCEPT ![r] = holds]
    /\ Goes(r, to)
    /\ UNCHANGED <<files, busy, recorded, past>>

\* The four stages of bootstrap write files of the run that nothing reads again.
BeginBootstrap(r) ==
    /\ r \in BootRun
    /\ Begin(r, [NoMem EXCEPT !.runs = project.runs], "record")

\* Mutated form: every registered material is a source.
SourcesOfAll == Registered
Sources == Approved

BeginBible(r) ==
    /\ r \in BibleRun
    /\ seed # 0 /\ Readable("seed") /\ Readable("catalog")
    /\ Sources # {}
    /\ Begin(r, [NoMem EXCEPT !.reviewed = Approved, !.seed = seed, !.sources = Sources],
             "contract")

Evidence(r) == mem[r].sources

\* material-gate, whose file nothing reads again, and narrative-contract.
NarrativeContract(r) ==
    /\ stage[r] = "contract" /\ Quiet
    /\ mem' = [mem EXCEPT ![r].contract = [seed |-> mem[r].seed, evidence |-> Evidence(r)]]
    /\ Goes(r, "baseline")
    /\ UNCHANGED <<files, busy, recorded, past>>

\* Mutated form: the stage reads the seed that is there now.
InputsOfNow(r) == seed
Inputs(r) == mem[r].seed

ContinuityBaseline(r) ==
    /\ stage[r] = "baseline" /\ Quiet
    /\ mem' = [mem EXCEPT ![r].baseline = Inputs(r)]
    /\ Goes(r, "bible")
    /\ UNCHANGED <<files, busy, recorded, past>>

Bible(r) ==
    [run |-> r, sources |-> mem[r].sources, contract |-> mem[r].contract,
     baseline |-> mem[r].baseline]

\* story-bible-package: the current bible, whichever it was, is replaced.  Its
\* copy in story-bible/history is read by nobody.
PackageBible(r) ==
    /\ stage[r] = "bible" /\ Quiet
    /\ current' = Bible(r)
    /\ packaged' = packaged \cup {[bible |-> Bible(r), reviewed |-> mem[r].reviewed]}
    /\ torn' = torn \ {"bible"}
    /\ Goes(r, "record")
    /\ UNCHANGED <<project, catalog, seed, jobs, busy, mem, recorded, deaths>>

\* The end of bootstrap and of the bible: run.json, and then the project.
RecordRun(r) ==
    /\ stage[r] = "record" /\ Quiet /\ r \notin ContextRun
    /\ recorded' = recorded \cup {r}
    /\ Writes("project", r)
    /\ UNCHANGED <<files, stage, mem, past>>

\* Mutated form: the project is not read again.
ProjectOfBegin(by) == IF by \in BootRun THEN [project EXCEPT !.runs = mem[by].runs] ELSE project
ProjectNow(by) == project

ProjectAfter(by) ==
    LET p == ProjectNow(by)
    IN  [p EXCEPT !.runs = IF by \in Run THEN @ + 1 ELSE @,
                  !.bibles = IF by \in BibleRun THEN @ + 1 ELSE @]

UpdateProject ==
    /\ busy.file = "project"
    /\ project' = ProjectAfter(busy.by)
    /\ busy' = Idle
    /\ IF busy.by \in Run THEN Ends(busy.by, "done") ELSE UNCHANGED <<stage, mem>>
    /\ UNCHANGED <<catalog, seed, current, jobs, torn, recorded, past>>

-----------------------------------------------------------------------------
\* What a valid request for a chapter's context decides; the rest is text.
ContextRequest(j, budget) == [NoMem EXCEPT !.job = j, !.budget = budget]

\* That there is a bible is asked first; it is read two stages later.
BeginContext(r, j, budget) ==
    /\ r \in ContextRun
    /\ current # NoBible \/ "bible" \in torn
    /\ Begin(r, ContextRequest(j, budget), "query")

\* The craft catalog is whole, or is refused (Raise); it may be empty.
CraftCatalogs == {{}, Craft}
BibleReady == Readable("bible")

\* A query over no asset is blocked; the contract of a bible always has text.
Blocked(assets) == assets = {}
Queried(r, assets) == [mem[r] EXCEPT !.bible = current, !.assets = assets]

\* chapter-gate and knowledge-query.
KnowledgeQuery(r) ==
    /\ stage[r] = "query" /\ Quiet
    /\ \E assets \in CraftCatalogs :
          IF BibleReady /\ ~Blocked(assets)
          THEN mem' = [mem EXCEPT ![r] = Queried(r, assets)] /\ Goes(r, "trim")
          ELSE Ends(r, Failed(r))
    /\ UNCHANGED <<files, busy, recorded, past>>

\* The snippets: one for the contract of the bible, one for each of its sources,
\* one for each asset.
Anchor(id) == [kind |-> "story-anchor", id |-> id]
Technique(id) == [kind |-> "craft-technique", id |-> id]
Candidates(r) ==
    {Anchor("contract")} \cup {Anchor(m) : m \in mem[r].bible.sources}
        \cup {Technique(c) : c \in mem[r].assets}

\* _rank: by how many terms of the request a snippet matches, which can be any
\* order; of each kind the first MaxPerKind.
Orders(S) == {order \in [1 .. Cardinality(S) -> S] : S = {order[i] : i \in DOMAIN order}}
OfKind(order, i) == {j \in DOMAIN order : order[j].kind = order[i].kind}
Before(order, i) == {j \in OfKind(order, i) : j < i}
Ranked(order) == {i \in DOMAIN order : Cardinality(Before(order, i)) < MaxPerKind}
Offered(order) == {order[i] : i \in Ranked(order)}

Kind == {"story-anchor", "craft-technique"}
Snippet == {Anchor(id) : id \in {"contract"} \cup Material} \cup {Technique(c) : c \in Craft}
SnippetTokens == [s \in Snippet |-> Tokens[s.id]]
Cost(S) == Total(SnippetTokens, S)

\* The first of each kind.
Mandatory(order) == {order[i] : i \in {i \in DOMAIN order : Before(order, i) = {}}}

\* One more snippet, when it fits.
Tried(chosen, s, budget) ==
    IF s \notin chosen /\ Cost(chosen) + SnippetTokens[s] <= budget
    THEN chosen \cup {s} ELSE chosen

\* build_chapter_context: the first of each kind, and then each that fits.
\* Mutated form: the first of each kind are added last.
ChosenInOrder(order, budget) ==
    LET upto[i \in {0} \cup DOMAIN order] ==
            IF i = 0 THEN {}
            ELSE IF i \in Ranked(order) THEN Tried(upto[i - 1], order[i], budget)
            ELSE upto[i - 1]
    IN  Mandatory(order) \cup upto[Cardinality(DOMAIN order)]
Chosen(order, budget) ==
    LET upto[i \in {0} \cup DOMAIN order] ==
            IF i = 0 THEN Mandatory(order)
            ELSE IF i \in Ranked(order) THEN Tried(upto[i - 1], order[i], budget)
            ELSE upto[i - 1]
    IN  upto[Cardinality(DOMAIN order)]

\* Mutated form: the stage reads the bible again.
BibleOfNow(r) == current
\* What the message of the stage before carries.
BibleOfMessage(r) == mem[r].bible

\* What queries over a set of candidates can come to; a constant, so that TLC
\* finds it once.
Selection(S, budget, order) ==
    [candidates |-> S, budget |-> budget, enough |-> Cost(Mandatory(order)) <= budget,
     offered |-> Offered(order), selected |-> Chosen(order, budget)]
HasEachKind(S) == \A kind \in Kind : \E s \in S : s.kind = kind
Selections ==
    UNION {{Selection(S, budget, order) : order \in Orders(S)} :
              S \in {S \in SUBSET Snippet : HasEachKind(S)}, budget \in Budgets}

\* token-trim and context-package.
TrimContext(r) ==
    /\ stage[r] = "trim" /\ Quiet
    /\ \E o \in Selections :
          /\ o.candidates = Candidates(r) /\ o.budget = mem[r].budget
          /\ IF ~o.enough
             THEN Ends(r, Failed(r)) /\ UNCHANGED jobs
             ELSE /\ jobs' = [jobs EXCEPT ![mem[r].job] =
                                  [run |-> r, bible |-> BibleOfMessage(r), budget |-> o.budget,
                                   offered |-> o.offered, selected |-> o.selected]]
                  /\ Goes(r, "package") /\ UNCHANGED mem
    /\ UNCHANGED <<project, catalog, seed, current, torn, busy, recorded, past>>

RecordContext(r) ==
    /\ stage[r] = "package" /\ Quiet
    /\ recorded' = recorded \cup {r}
    /\ Ends(r, "done")
    /\ UNCHANGED <<files, busy, past>>

-----------------------------------------------------------------------------
Underway(r) == stage[r] \notin {"new", "done", "failed"}

\* Any stage of a workflow may raise.
Raise(r) ==
    /\ Underway(r) /\ Quiet
    /\ Ends(r, Failed(r))
    /\ UNCHANGED <<files, busy, recorded, past>>

\* The files that may be half written when the process dies; what else is
\* written at that time is read by nobody.
HalfWritten ==
    IF ~Quiet THEN {busy.file}
    ELSE IF ~project.exists THEN {"project"}
    ELSE IF ~HasProject THEN {}
    ELSE {"catalog", "seed"} \cup (IF \E r \in Run : stage[r] = "bible" THEN {"bible"} ELSE {})

\* The process dies with all its runs, which nothing takes up again.
Crash ==
    /\ deaths < MaxDeaths
    /\ deaths' = deaths + 1
    /\ torn' = torn \/ \E file \in HalfWritten : torn' = torn \cup {file}
    /\ busy' = Idle
    /\ stage' = [r \in Run |-> IF Underway(r) THEN Failed(r) ELSE stage[r]]
    /\ mem' = [r \in Run |-> NoMem]
    /\ UNCHANGED <<project, catalog, seed, current, jobs, recorded, packaged>>

Owner ==
    \/ CreateProject \/ SaveSeed
    \/ \E m \in Material :
          \/ RegisterMaterial(m)
          \/ \E decision \in {"approved", "rejected"} : ReviewMaterial(m, decision)
Start(r) ==
    \/ BeginBootstrap(r) \/ BeginBible(r)
    \/ \E j \in Job, budget \in Budgets : BeginContext(r, j, budget)
Finish == CreateCatalog \/ UpdateProject
Stage(r) ==
    \/ NarrativeContract(r) \/ ContinuityBaseline(r) \/ PackageBible(r) \/ RecordRun(r)
    \/ KnowledgeQuery(r) \/ TrimContext(r) \/ RecordContext(r)

StudioNext ==
    \/ Owner \/ Finish \/ Crash
    \/ \E r \in Run : Start(r) \/ Stage(r) \/ Raise(r)

StudioSpec == StudioInit /\ [][StudioNext]_studioVars

-----------------------------------------------------------------------------
Status == {"absent", "registered", "approved"}
Part == [seed : 0 .. MaxSeeds, evidence : SUBSET Material]
BibleType ==
    [run : BibleRun, sources : SUBSET Material, contract : Part, baseline : 0 .. MaxSeeds]
Bibles == {p.bible : p \in packaged}

\* What the files and the runs hold.
StudioTypeOK ==
    /\ project \in [exists : BOOLEAN, runs : Nat, bibles : Nat]
    /\ catalog \in [Material -> Status] /\ seed \in 0 .. MaxSeeds
    /\ current \in Bibles \cup {NoBible} /\ Bibles \subseteq BibleType
    /\ torn \subseteq {"project", "catalog", "seed", "bible"}
    /\ stage \in [Run -> {"new", "contract", "baseline", "bible", "query", "trim",
                          "package", "record", "done", "failed"}]
    /\ recorded \subseteq Run /\ deaths \in 0 .. MaxDeaths

\* A bible rests on at least one material, and every material it rests on was
\* approved by the reviewer when the run that assembled it began, whatever was
\* decided since (run_story_bible asks before it awaits the first stage).
BibleIsApproved ==
    \A p \in packaged : p.bible.sources # {} /\ p.bible.sources \subseteq p.reviewed

\* The parts of a bible are made in different stages, with other requests in
\* between; all of them are of one seed and of one set of sources.
BibleIsWhole ==
    \A b \in Bibles : b.contract = [seed |-> b.baseline, evidence |-> b.sources]

\* A bible is made of approved materials, and all its parts of the same inputs.
BibleIsSound == BibleIsApproved /\ BibleIsWhole

Pending == IF busy.file = "project" /\ busy.by \in Run THEN 1 ELSE 0
CountsUp(count, S) ==
    count <= Cardinality(S) /\ Cardinality(S) <= count + deaths + Pending

\* project.json counts the runs that have a run.json, although it is read when
\* a run begins and written when it ends, with other runs and requests in
\* between; only a crash between the two files loses one.
CountsAreTrue ==
    /\ CountsUp(project.runs, recorded \ ContextRun)
    /\ CountsUp(project.bibles, recorded \cap BibleRun)

Contexts == {jobs[j] : j \in Job} \ {NoContext}

\* A context is within its budget, has a snippet of each kind, and leaves none
\* out that would still fit, whatever the ranking (build_chapter_context).
ContextFits ==
    \A c \in Contexts :
        /\ c.selected \subseteq c.offered /\ Cost(c.selected) <= c.budget
        /\ HasEachKind(c.selected)
        /\ \A s \in c.offered \ c.selected : Cost(c.selected \cup {s}) > c.budget

\* The bible that a context cites is one that was assembled, and every source
\* that the context quotes is a source of that bible, also when the bible is
\* replaced between the query and the packaging.
ContextIsGrounded ==
    \A c \in Contexts :
        /\ c.bible \in Bibles
        /\ \A s \in c.offered :
              s.kind = "story-anchor" => s = Anchor("contract") \/ s.id \in c.bible.sources

\* A context is the best use of its budget and is grounded in one bible.
ContextIsSound == ContextFits /\ ContextIsGrounded
=============================================================================
