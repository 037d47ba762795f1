# codemason, in TLA+

Models of codemason and its build supervisor, the TLC runs that check them on
small instances, and theorems about them checked by TLAPS. Paths are relative to
the repository; `src/src/...` is the crate's source.

## 1. The system

`codemason run` is a one-shot agent: it loops between a language model and a set
of tools on one checkout, under a token budget and an iteration ceiling, and
commits what it did to a branch. `codemason-supervisor` builds something larger
from many such runs: it groups the files into partitions, shows a planner each
partition's surface, takes a plan of work items in levels, runs the items of a
level concurrently, merges their branches onto an integration branch, verifies
the merged tree by acceptance commands, and appends everything learned to a
memory file from which a killed or failed build is resumed.

| component | source | state it keeps | operations | what is hard |
|---|---|---|---|---|
| agent loop | `loop.rs`, `llm/mod.rs` | conversation, usage ledger, iteration and failure counters | check limits, request with retries, meter, answer tool calls | several limits and counters over one sequence of responses; a call is paid before it can be refused |
| level dispatch | `supervisor/execute.rs` | permits, one thread per item, results | acquire, run a process, release, join | interleavings, lost and spurious wakeups |
| item process | `supervisor/execute.rs` | a child, its two pipes, its end | spawn, drain, wait, read its report | full pipes; a signal, or a report from a process that never ended well |
| level integration | `supervisor/integrate.rs` | `Integration`: merged, conflicts, verifications, allowances | merge a level, record a verification, discard | order of the checks is the policy; two allowances; one branch of several failing |
| build driver | `bin/codemason-supervisor.rs` | level under way, report | load memory and plan, dispatch, collect, merge, verify, decide, accept | kills between any two effects; resume against a plan that may have changed |
| memory | `supervisor/memory.rs` | a JSON-lines file | append, read back, brief | torn lines, numbering read back and written again |
| planning | `supervisor/plan.rs`, `supervisor/mod.rs` | none | load or ask for a plan, repair and refuse it, walk its levels | levels must hold disjoint items; a plan may come from a file |
| run, repository side | `repo.rs`, `bin/codemason.rs` | branch, worktree, index, exit code | preflight, branch or worktree, commit, teardown, report | each git command failing; a user and other runs in the same clone |
| gating | `gating.rs`, `config.rs` | catalogue cache file | read the cache, fetch, fall back, write, decide | an unlocked file written by several processes; stale data |
| elision, cache breakpoints | `compact.rs`, `llm/cache.rs` | none | rewrite the request | the rewritten prefix must not change from one request to the next |
| file tools | `tools/mod.rs`, `tools/fs.rs`, `text.rs` | the checkout | parse arguments, read, write, list, outline | confinement, line endings and byte order marks there and back, paging |
| `run_command` | `tools/exec.rs` | a shell, its jobs, two readers, a capped buffer | spawn, read, poll, kill the tree, join | a deadline racing an exit; descendants that keep the pipes |
| searches | `tools/context.rs`, `engine/search.rs`, `engine/bm25.rs`, `engine/tokens.rs`, `tools/web.rs` | the chunks, `savings.jsonl` | tokenise, score, rank, cut, filter; ask a provider or a page, walk its answer | ranking against cutting; answers of an unknown shape; a silent provider |
| partitioning | `partition.rs` | none | find hubs, grow components, rank | hubs belong to nobody; order must be reproducible |
| surface | `surface.rs`, `engine/outline.rs` | none | spans, members, signatures, what is hidden | one scan of the braces for eight languages; omission must be said |
| index engine | `engine/` | an in-memory index | chunk files, resolve imports, build the graph, answer queries | hash order, cycles, imports that resolve two ways |
| event log, report, command line | `log.rs`, `report.rs`, `bin/*.rs` | a file | write lines | output |

The components call one another in one direction: driver → dispatch → (a process)
agent loop → tools; driver → integration → git and the acceptance command;
driver → memory. A run checks its model against the catalogue before it starts
and builds its index before it loops. Processes share three things only: the
memory file, the repository (its object store, and for runs in place its tree and
git index) and the catalogue cache; all three outlive the process.

What makes each component correct:

- agent loop: it stops within its budget and one call; it stops for the reason
  its exit code says; each tool call is answered once, in order; it ends.
- level dispatch: at most `max_concurrent` at once (one if zero), each item
  once, a return behind the last of them, each result its item's.
- item process: no report counts but one of a process that ended, none that was
  printed is lost, no full pipe holds both sides.
- level integration: a bounded number of verifications; fixing only while the
  error set shrinks; acceptance of the whole level or none; conflicts terminal.
- driver: acceptance only of what was verified as it stands; accepted work is
  neither lost nor paid for again; levels in order; a report that agrees with
  the disk; every item of an accepted build accepted.
- memory: a prefix of what was appended, in order, whatever is killed when.
- planning: no two items of a level of a planner's plan share a partition; a
  refusal has a cause; each item of the plan is run once, but for the levels an
  earlier start had recorded as accepted, which are not run again.
- repository side: nobody's edits are lost, an isolated run leaves the clone
  alone and its branch holds its own work only, the report names the commit.
- gating: a verdict rests on one catalogue the provider did serve at that
  address, however the cache file was torn or overwritten.
- elision and breakpoints: what was decided for an older message stays decided,
  the request stays a prefix of the one before or is elided as a whole.
- file tools: what was written is read; a refused call leaves no trace, a write
  that the system fails only one on its own path; a rewrite of what was read is the
  identity; pages add up; a listing is complete.
- `run_command`: the tail is kept, in order, cut only with a note; the tree is
  dead when a command timed out; a late command ends.
- searches: an identifier is found by each of its parts, more of the query is
  never worse, the savings recorded are of the results shown; of the web, the
  first hits are shown with their own words, and the call ends.
- partitioning: groups are exactly the components of the graph without hubs.
- surface: what is public is shown, whole or with a note that it is not.
- index engine: chunks tile the file, a type starts a chunk; impact is
  reachability; an orphan concerns nobody; file order loses no import.

## 2. Modules

| module | models | state and actions |
|---|---|---|
| `MeteredRun` | what a run promises whoever pays for it | `spent`, `calls`, `status`; `Pay`, `Fail`, `StopItself` |
| `AgentLoop` | `run` of `loop.rs`, `Client::complete`, `UsageLedger` | one action per branch of the loop: `StopOnBudget`, `StopOnCeiling`, `StartCall`; `Retry`, `CallFails`; `RespondUnmetered`, `RespondFinal`, `RespondCalls`; `NextCall`'s `RunTool`, `NameUnknown`, `RejectArguments` |
| `HardGate` | what dispatching a level promises | `active`, `outcome`, `returned`; `Begin`, `End`, `Return` |
| `DispatchGate` | `dispatch_level`, `Gate` | a program counter per thread, one action per critical section of the mutex: `Sleep`, `Take`, `Release`, plus `SpuriousWake`, `Spawn`, `Finish`, `Join` |
| `ItemProcess` | `dispatch_item`, its child and `read_report` | `process`, the pipes `out` and `err`, `status`, `result`; the child's `Process` and `ModelAnswers`, the supervisor's `Thread`, `Killed`, `OutputFails` |
| `IntegrationPolicy` | the value `Integration`, `is_converging`, `record_verification` | pure: `Decide` returns the `NextStep`, `Recorded` the new value |
| `LevelIntegration` | one level's integration for a caller that does what it is told | `MergeClean`, `MergeConflicts`, `MergesEnd`, `Verify`, `Fix`, `Rewrite`, `Fail` |
| `Build` | `run` and `collect_level` of the driver, resume, memory, integration branch | one action per effect a kill can separate from the next; an item is its position in the plan, `waiting` are those of the level not collected yet |
| `AppendLog` | what the memory promises | `log`, `recording`, `recorded`; `Begin`, `Keep`, `Return`, `CutShort` |
| `Memory` | `JsonlMemory` | the file as closed lines and the bytes behind the last newline; `Open`, `TerminateTornLine`, `Read`, `AppendFact`, `WriteByte`, `WriteNewline`, `Kill` |
| `Planning` | `load_plan`, `parse_plan`, `conflicting_partitions`, the walk of the levels and what of it a resume skips | `pc`, `answer`, `plan`, `running`, `ran`, the levels the memory records (`accepted`) and those it recorded when this start opened it (`done`); `LoadFile`, `Ask`, `Parse`, `SkipLevel`, `DispatchLevel`, `LevelEnds`, `Resume` and each failure |
| `RepositoryRun` | `run_cmd` and every git command of `repo.rs` | branches, trees, HEAD, what is staged, each run's `pc`, `commit`, `exit`; one action per command and one for its failure, `Edit`, `UserEdits`, `Kill` |
| `CatalogueGate` | `catalogue`, `check`, `models --check` | the cache file (absent, torn, whole), what the provider lists, each process's `pc` and verdict; `ReadCache`, `FetchLive`, `FallBack`, `Truncate`, `Write`, `Gate`, `Tick`, `Relist`, `Kill` |
| `FileTools` | `dispatch` and the file tools with `text.rs` | `disk`, `dirs`, `index`, `answer`; one action per tool and per dispatch error, and `WriteFails` for a write that passed every check and that the system fails |
| `CommandRun` | `run_command` | shell and background job, two pipes, two readers, the capped buffer, the deadline; `WriteChunk`, `StartJob`, `ShellExits`, `ReadChunk`, `ReaderEnds`, `DeadlinePasses` and the caller's steps |
| `Request` | `elide_stale_tool_results`, `apply_breakpoints` | `history` and the copy on the `wire`; `Send`, `Answer` |
| `Search` | `context_search`, `Bm25Index`, `split_identifier`, `save_search_stats` | query tokens to do, `scores`, `ranked`, `saved`; `Ask`, `ScoreToken`, `Rank`, `FilterLowScores` |
| `WebSearch` | `web_search`, both providers | `values` still to look at, `hits`, `outcome`; `Call`, `ProviderAnswers`, `Look`, `PageAnswers`, `RequestFails`, `TimesOut` |
| `ImportResolver` | `resolve_import`, `find_closest`, the C# `Resolver` | pure |
| `DependencyGraph` | `create_index_from_path`, `DependencyGraph::build` and its queries | which files have chunks, the files of the graph, blank ones among them, edges both ways, a query under way; `SkipFile`, `AddFile`, `ResolveDependencies`, `VisitImpact`, `VisitDot` |
| `Chunking` | `chunk_source` | boundaries, the group under way, chunks; `ByDefinitions`, `ByLines`, `Part`, `Join`, `Return` |
| `Partition` | `partition` | hubs, unseen files, stack, component; `FindHubs`, `Seed`, `Grow`, `Close`, `Rank` |
| `Surface` | `extract` and what it calls of `outline.rs` | the file and symbols to do, what is covered, the entries; `NextFile`, `Pass`, `Hide`, `Emit` |
| `GraphExamples`, `SurfaceExamples` | repositories for the runs | data |
| `Sorting` | `sort_by` and its kin, as used by `partition` and the plan | pure: the set of what a comparison allows |
| `*Proofs` | theorems of the module they extend | |
| `Recursion` | lemmas the proofs share: a set of numbers has a least one, induction over a set, what a recursively defined function satisfies | |
| `MC*` | instances for TLC | |

`Build` uses `IntegrationPolicy` as the driver does. It takes a dispatched level
as one step: `DispatchGate` opens that step up and is shown to implement
`HardGate`, which is what `Build` relies on (every item run once, the call
returning behind the last); what the thread of one item does is `ItemProcess`. A
run inside a level is `AgentLoop`, of which `Build` sees the exit code; around the
loop it is `CatalogueGate` and `RepositoryRun`, inside it `Request` and the tools.
`Build` appends a fact to the memory in one step: `Memory` opens that up, down to
the byte a kill cuts a write at, and is shown to implement `AppendLog`.

`MCSearches`, `MCCodemasonRun` and `MCPlanning` are sums: the variable `about`
says which of several components that share no state a behaviour is of, and the
others stand still. Their properties are conjunctions of the components' own
named ones, and the comment at each says what its parts are.

Modules also hold definitions next to the action they vary (`ReleaseTwice`,
`DecidePassFirst`, `RankAfterCutting`...). No specification uses them: each is the
bug one of the properties is there to catch, and `PROJECT.json` lists which, one
for each part of a conjunction that a hazard is behind.

## 3. Runs

| run | question | bounds |
|---|---|---|
| `agent_loop` | does a run keep its caps, its ledger and its protocol, and end? | two tools and an unknown one, four iterations, budget 5 against calls of up to 3, a cost cap; up to two calls in a turn |
| `dispatch_gate` | is the gate right in every interleaving? | four items, limits 0 to 3 |
| `level_integration` | does integration follow its policy against every verdict? | three branches in lists of up to two, two codes, up to three diagnostics, both allowances as in the code |
| `build` | do kills and resumes leave a build right? | two plans of two levels, one with two gates in a level and one with an ungated level that gives two items one id, with and without `--acceptance`; two starts |
| `memory` | do recorded facts survive kills, in order? | three facts of four bytes, two of them one character; two kills |
| `searches` | do searches find what there is? | index: 1 to 3 chunks of 4 kinds, 9 queries; web: 4 results of a cap of 4 |
| `codemason_run` | is anybody's work lost, is a gate passed on a catalogue nobody served, is a report believed that was not finished? Is what the model is told between two of its answers whole and true? | two runs in one section and a user in two, in a worktree, in place and dry; two processes, one address, two catalogues, a lifetime of 1 in a time of 2; pipes of 2 against 3 lines of diagnostics and a report of 3; files: 4 places, 5 bodies with and without a mark, a read cap of 2 and a listing of 3; commands: 4 chunks through pipes of 2 into a buffer of 2; requests: 4 turns of 4 kinds, 0 to 2 kept |
| `planning` | are chunks, graph, partitions and surface what the planner may rely on, and is what it answers checked? | sources of up to six pieces in seven shapes, length 4; listed repositories; every graph of up to four files under two settings; surfaces with caps of 11, 5, 5 and 4; plans of up to three items, levels 0 to 2, two partitions, three sets of model flags, two starts, each with a plan of its own |
| `transient_dropped` | is a provider error retried or escalated, as the comment says? No | as `build` |
| `replan_skips` | does a resume skip only what an earlier attempt got past? No | as `build` |
| `torn_character` | can the memory be read after any kill? No | as `memory` |
| `commit_fails` | does an isolated run's work outlive its tree? No | as `codemason_run` |

The exact values are in the `MC*.tla` and `.cfg` files. Why they are enough:

- Three threads are the least with a sleeper, a newcomer that steals its permit
  and a releaser; four allow two sleepers under a limit of two. Limits 0, 1 and
  2 are the floored one, the mutex and a proper semaphore. The safety
  properties are also proved for any number.
- Four iterations are one more than the limit of three on missing usage and
  rejected arguments: enough for a count to be interrupted and to start again.
- A level needs two error codes for one to come up while another goes away, and
  enough verifications to use up both allowances, which the code's own caps give.
- A line of four bytes can be cut before, inside and behind its one character of
  two bytes, and be whole without its newline; two kills can leave two torn lines
  in a row, and three facts leave one to be appended behind them.
- A build needs two levels for order and skipping, two items in one of them for
  one to fail beside the other, two gates for one to pass and the other not.
  With two starts every state of the disk a killed process can leave is resumed
  from once; nothing but the disk passes from a process to the next.
- Two runs that touch one section, and a user who may stage in it or beside it,
  are the least in which a commit can take what is not its own. Two processes
  around one file give every reader-against-writer overlap; two catalogues are
  one to serve and one to replace it; a lifetime of 1 in 2 is fresh, then stale.
- Pipes of 2 are shorter than what is written to them, so that every writer can
  be blocked on each of its streams; a buffer of 2 drops something of 4 chunks.
- Two starts of plans with levels 0 to 2 give a resume that skips the first level,
  a later one, all or none, under a plan that has the same items at them or others.
- Up to four files give every shape of component and hub the code tells apart: a
  chain, a star, a cycle, two components of equal and of unequal size.
- Six pieces are more than one chunk of length 4, with a type inside a type and a
  part longer than the length. The surface's caps are scaled down so that the
  listed files reach and pass each of them.

What each of the failing runs shows is in `PROJECT.json` under `findings`, with
the line that says otherwise.

### Divergences met while modelling

The models do what the code does in these places too; a doc or comment says
something else. They have no run of their own.

- Agent loop: `--budget-tokens 1` makes one call (`loop.rs:58`); `SPEC.md:541`
  says none. A call id used again in a later turn makes the placeholder name the
  earlier tool (`compact.rs:155`, comment at `compact.rs:36`). After empty tool
  results a cache marker lands on an assistant turn with calls
  (`llm/cache.rs:112`), which `llm/cache.rs:92` says are skipped. No read timeout
  bounds a silent provider (`llm/mod.rs:34`); `supervisor/execute.rs:34` takes a
  run as bounded from the inside.
- Integration: a new error code leads to a rewrite while one is left
  (`supervisor/integrate.rs:588`); line 346 says escalate at once. A level
  without gates is passed over and the build accepted
  (`bin/codemason-supervisor.rs:486`, against `supervisor/integrate.rs:57`).
- Planning: the planner's brief is rendered for the id `*`, which no attempt or
  error set has (`bin/codemason-supervisor.rs:627`, against 608 and 624). A plan
  from a file is not checked for conflicts (line 582, against
  `supervisor/mod.rs:59`), and no plan for items of one id
  (`supervisor/plan.rs:187`, against `supervisor/execute.rs:157`).
- Repository side: an index that cannot be built returns before the teardown
  (`bin/codemason.rs:161`, against 212). Whether there is anything to commit is
  asked of the whole index of git, so a run that changed nothing may commit what
  somebody staged elsewhere (`repo.rs:194`, against `SPEC.md:539`).
- Gating: a cached catalogue of any age stands in for a failed fetch
  (`gating.rs:154`, against `SPEC.md:308`; the comment at line 124 agrees with the
  code). Addresses that differ in punctuation share a file (`gating.rs:94`,
  against 122), so what a verdict rests on was served at an address of the same
  file (`SameFile` in `CatalogueIsGenuine` and `PassingMeansOffered`).
- Tools: `server &` is waited for without a deadline once the shell has gone
  (`tools/exec.rs:160`, against `SPEC.md:480`). A CRLF file written once without
  a break is an LF file from then on (`tools/fs.rs:104`, against `SPEC.md:67`).
  The outline is that of the run's start (`tools/context.rs:83`, against
  `tools/mod.rs:75`). A listing of a subdirectory ignores the ignore files above
  it (`tools/fs.rs:162`, against `tools/mod.rs:111`). A web answer's results are
  every object with an address, to any depth, not "the first array whose objects
  carry a URL-ish field" (`tools/web.rs:55`). DuckDuckGo's snippets are paired
  with links by number, so a link without one shifts the rest
  (`tools/web.rs:220`). `_name` is indexed under `_name` alone (`engine/tokens.rs:54`).
- Graph and partitions: ties are broken in hash order (`engine/graph.rs:1115`,
  against `partition.rs:6`). `../foo` never resolves (`engine/graph.rs:991`,
  against 988). A repository of hubs alone is reported as empty
  (`partition.rs:231`, against 80).
- Chunks and surface: a member behind a nested type is merged into its chunk
  (`engine/chunking.rs:290`, against 180). A hidden declaration without braces
  takes the next one with it (`surface.rs:290`, against 752). A `where` on a line
  of its own is cut off (`engine/outline.rs:151`, against `surface.rs:218`). The
  parameters of a wrapped `def` are dropped as its body (`surface.rs:726`,
  against 657).

Where one of these would break a property of the same module, the property or
the instance says so: the surfaces of `SurfaceExamples` hold hidden types that end
by their braces and signatures that close a parenthesis, `NoSharedPartition` is
about a planner's plan, `SnippetsAreTheirs` about pages with a snippet behind each
link, and hash orders are all tried, but need to agree only on whether an import
is found.

### Fairness

Weak fairness of the steps a process takes by itself, and of nothing else. In
`AgentLoop` and `LevelIntegration` this includes that the provider, the tools,
git and the acceptance command answer; the code sets no timeout on the provider
or on acceptance commands and so relies on it. In `ItemProcess` the model
answers, for the same reason. In `DispatchGate` each thread's own step is fair and
spurious wakeups are not. In `Build` the steps of a started process are fair;
starting, killing and repairing are not: nobody has to resume. In `RepositoryRun`
and `CatalogueGate` each process's next step is fair, its failing or succeeding
open; kills, users, the clock and the provider's listing are not. In `CommandRun`
the caller, its deadline and its readers are fair: no process has to write, read
or exit, so what ends a late command is the code. In `WebSearch` nobody has to
answer: the timeout is fair. The loops of the graph's walks and of the
partitioning are one thread's.

## 4. Proofs

Seven modules, each proved for every value of the constants under the named
assumption of the module it extends: names that differ (`UnknownTool`, `NoFact`),
numbers that are natural and sizes that are positive, plans that are sequences, as
many results as calls, entries of a catalogue that differ by their id, a walk that
comes by every file and calls that write to the locations of the model, and, in
`LevelIntegrationAssumption`, that a level is offered each branch once, which
`collect_level` sees to by naming a branch after its start, level and position.

- `AgentLoopProofs`. `LoopTypeCorrect`; `SpendIsBounded`, inductive with the
  facts that the ledger counts calls and that a call is under way only if the
  budget was not breached; `LoopImplementsContract`, step by step: the branches
  of the loop are `Pay`, `Fail`, `StopItself` or stutters of `MeteredRun`.
  `LogStaysFaithful` needs `LogInv`: the ledger is the sum over the log; the
  unmetered calls at its end are as many as the counter says, and one that was
  metered precedes them; and each turn that asks for calls is followed by their
  answers, in order, but for the one turn whose calls are pending. That every
  call is answered is not inductive alone: what is pending says which answers
  are still to come.
- `DispatchGateProofs`: typing and conservation of permits are inductive; that
  no wakeup is lost needs conservation (a release adds one permit and one woken
  thread, a take of a newcomer only lowers `free`). Result attribution needs that
  a thread past `running` has its outcome. `LevelIsAHardGate` follows: `Take` is
  `Begin` because the permits held are at least the processes running.
- `LevelIntegrationProofs`: typing; the cost invariant; that along a run of fix
  cycles each verification is smaller than the one before (induction along the
  run is avoided by stating the invariant for all pairs); that an accepted level
  is whole, from the invariant that merged, conflicts and queue together are
  what was offered; that conflicts are terminal. `MergesStayComplete` needs
  `MergeInv`: the queue is what is left of the branches offered, no branch is
  offered twice, and of those before it the ones not in conflict are merged.
- `BuildProofs`. `BuildInv` (the branch exists past the preparation, the tree is
  clean but between a conflict and its abort, the last accepted tree is a prefix
  of the branch, a level's `Integration` has no verification until it is
  decided) gives `AcceptedWorkIsKept`, `MergesAreFinished` and
  `RewriteIsNotTaken`. `AcceptedForGood` needs four more: `StateInv`, typing and
  that merged, conflicts and queue add up to what completed; `LevelsInv`, that
  what a process skips is what the memory accepted before it; `GateInv`, that the
  gates not left are passed on the tree as it is; `MergeInv`, that a verified run
  is waiting, queued, merged or in conflict. `HistoryStaysTrue` needs three
  besides: `FreshInv`, that no run a process has ahead was dispatched or merged
  before; `EscalationInv`, that a run to be escalated is waiting or has set the
  flag; `CountInv`, that the report's counts are those of the branch and the
  memory.
- `MemoryProofs`. `MemoryInv` says what a torn line is: while a fact is being
  appended, the bytes behind the last newline are what was written of it, and
  every fact in the file came before it. From it `LogStaysWhole` and, step by
  step, `FileImplementsLog`. What a reader makes of the file is a recursive
  function; its equations come from `Recursion`.
- `CodemasonRunProofs`. `RunsInv` is a conjunction of one invariant for each part
  of the sum, and a part that stands still satisfies its own. `ItemInv`: what was
  written is in a pipe or was read, and a status of the process's own is set
  behind its whole report. `GateInv`: what is in a whole file and what a process is
  about to write were served. `CloneInv`: a branch has one owner, the clone never
  has an isolated run's branch checked out, an isolated run's tree has it and
  nobody else's edits in it, and the run's own edit is in the tree, staged or on
  the branch according to where the run is. From them
  `WorkStaysSafe`, `GateStaysSound`, `ReportStaysBelieved` and, as an action
  property, `SharedStateStaysAlone`. `CommandInv`: a chunk that was written was
  read or is in its pipe, behind all that was read from it, the buffer is the end
  of what was read, and nobody lives to write to a pipe that nobody reads.
  `RequestInv`: each result in the conversation has its call before it, and the
  last request was made of a beginning of it. From these two `NothingStaysBack`,
  and, since the protected window never opens earlier in a longer conversation
  (`CutoffGrows`) and a result that has its call keeps its tool's name
  (`NameStays`), the action property `RequestsKeepTheirPrefix`.
  `FilesInv` has two halves: the directories on the way to what is there are
  there, and no file is ever lost; and the last answer is exact, so that only a
  write can make it false, and a write replaces it. Then `FilesStayExact` needs
  that a path looked up component by component ends where counting its components
  ends, or nowhere (`LookedUpIsCounted`, by induction over the path), which the
  assumption on the calls ties to the files of the model; that a location names
  itself; and what a walk finds (`FoundAre`). `WritesStayExact`, an action property,
  needs what adding and taking back carriage returns does to a text
  (`ShownIsPutBack`, `FeedsFollow`), and, for a write that is broken off, that
  whatever it leaves of its file begins like what it was to put there
  (`LeavingsAre`, `BrokenWrite`).
- `PlanningProofs`. `SplitStaysSound` rests on `PartInv`: every file is unseen, in
  the component being grown or in one closed component; no set of files that
  dependencies do not leave divides a component (so it is no larger than it must
  be), and none leaves a closed one (so it is no smaller). `Connected`, the
  reference, is a recursive function: that it gives the least such set takes a
  counting argument, that a set of `n` files cannot grow more than `n` times.
  `PlansStaySound` rests on `PlanInv`: a planner's plan is clean; what ran are
  whole levels in order, none of them accepted by an earlier start; what is left
  comes after and leaves out no level but those. That an accepted level is not run
  again, though the set of accepted levels grows while the set that is skipped was
  read once, needs that the two are the same until the walk starts and that of the
  levels left only those skipped are accepted (`LeftInv`).
  `ConflictsAreClashes` shows that the scan with its list of seen partitions
  finds a conflict exactly when two items of a level share a partition.
  `ChunksStaySound` rests on `ChunkInv`: the boundaries the loop is given tile the
  file, and one starts at each type another definition precedes (`Cuttable`;
  `KeptTile` is by induction over the definitions); the pieces cut so far are
  runs of consecutive boundaries, one alone if it is longer than desired, and
  each starts at a type or where it would not have fitted (`CutFrom`). It uses
  `SourcesAssumption`: a type shares its start with no other definition, and a
  blank file is never parsed.
  `GraphStaysSound` rests on `GraphInv`. `ReadInv`: a file read so far is in the
  graph as it was parsed, and has chunks unless it is blank. `BuiltInv`: an edge
  leads to another file, a C# file's edges are what its scope resolves to, and the
  reverse index lists the callers of a file, each once, whatever order the hash
  table was iterated in. `WalkInv`: what
  an impact has visited holds the callers of every file it is done with, and lies in
  every set that holds the asked file and the callers of its members; when the queue
  is empty, what was visited is therefore the least such set, cycles or not.
  `DrawnInv`: the drawing holds the edges into the files the walk is done with, each
  once. `Reaching`, the reference, iterates as often as there are files, which
  `ReachingIsLeast` shows to be enough by counting. That no order of the hash table
  loses an import needs that each step of `resolve_import` chooses from a set that
  does not depend on the order, and finds nothing only if that set is empty. It uses
  `GraphsAssumption`: repositories are finite, directories are lists of names, no
  file has the name that stands for none, and every namespace a C# file can bring
  into scope has its place in the alphabet.

The library's induction theorems take an operator as a parameter, which none of
the provers can instantiate. Where a proof needs induction (over a log, a file, a
graph, a plan) it is over a set of numbers, by `Recursion`: a set that holds 0
and the successor of each member leaves no least number out.

Out of the provers' reach is liveness (`RunReturns`, `LevelReturns`, `LevelEnds`,
`ProcessEnds`, `SearchReturns`, `EveryProcessEnds`, `LoopsEnd`,
`UnmeteredRunsEnd`), which is model-checked only. Not proved, and model-checked:
`SearchesFind`, whose sums are folds of the library, which are recursive operators,
and whose reference, `WordsOf`, is the vocabulary of its run; and `SurfaceIsSound`
of `MCPlanning`, which compares what is printed with the declarations its run gives
with each listing, and says nothing of other listings.

## 5. What is abstracted or left out

- Message texts, prompts, reasons, report fields: never a guard.
- In `AgentLoop` a tool is its `DispatchResult`; in `Build` a job is its exit
  code; a merge is clean, a conflict or an error; a verification is a verdict, a
  count and a set of codes.
- Token counts and costs are small naturals; in the code they are `u64` and
  `f64` sums of what the provider reports.
- `Build` starts a build once and resumes it after; another build has another
  id, memory and branch. It leaves out `--dry-run` and the contract fact of
  `load_plan`, which are in `Planning`. `Planning` in turn says of a level only that
  it ended, well or not, recorded as accepted or not. Both take the memory to hold
  no acceptance when a build first starts: `--memory` naming another build's file
  is left out, and so is an item of a plan whose id is `level-N`. The driver's
  Rewrite arm is left out because it cannot be taken, which `RewriteNotTaken`
  checks; `LevelIntegration` checks the policy behind it.
- `Memory` has one process at a time: nothing locks the file, and nothing but
  one supervisor with one build id writes it.
- `RepositoryRun`: an edit is who made it and in which section. A catalogue is a
  set of entries with what `check` looks at. The child of `ItemProcess` is its
  output and its end.
- `FileTools`: a file is a byte order mark and lines with their breaks; there are
  no symbolic links, and every file that is there can be read. The system may fail
  a write at each directory on its way, at opening the file, and behind each line,
  before its break or after it; that it is cut inside a line's text, a mark or a
  break of two bytes is left out. `CommandRun`: output is numbered chunks.
- `Request`: a text is short, long, elided or missing.
- `Search`: a name is a sequence of letters, digits and underscores; scores are
  whole thousandths from the code's formula; what a name is made of (`WordsOf`)
  is given, so that splitting is checked against its author. `WebSearch`: query
  strings, percent encoding and the regular expressions for markup are left out;
  an object is gone through by the order of its keys (`KeyRank`), for serde_json
  keeps them sorted where its `preserve_order` is not asked for, and `Cargo.toml:47`
  does not: first results means first in that order, not in the provider's.
- `Chunking` starts from the syntax nodes tree-sitter returns; `Surface` from
  tokens, with the declarations that are there given separately; `ImportResolver`
  from parsed imports. It compares paths as the code does, as texts: `Begins` and
  `Tails` say which names begin and end with others. Its closeness is in directories.

Not modelled: the embedding half of search (the encoder is always absent);
`engine/plan.rs`, `digest.rs`, `filter.rs`, `tree.rs` and the summary of
`stats.rs`, which neither program calls; the table of file types; command-line
parsing and error texts; reading `models.toml`; the writing of log and report
lines; the character budget of a brief, `evidence_lines` and `merge_order`.

## 6. Plan

Done, in this order: agent loop, dispatch gate, integration policy and level,
build driver, memory file; then the repository side, the catalogue, the item's
process, the tools and the request, the searches; then chunks, graph, partitions,
surface and planning.

Theorems left: `SurfaceIsSound`, once what a listing promises is stated for any
listing and not by the declarations the run is given; and `SearchesFind`, once its
vocabulary is stated likewise and its sums are recursive functions, as the paths and
the walk of `FileTools` and the filters of `ImportResolver` now are.
