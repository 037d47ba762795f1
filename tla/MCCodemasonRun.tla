---------------------------- MODULE MCCodemasonRun ---------------------------
(***************************************************************************)
(* `codemason run`: the clone with its worktrees (RepositoryRun), the      *)
(* catalogue's cache files (CatalogueGate), the pipes to the supervisor's  *)
(* thread that waits for a run (ItemProcess); and in a run, between two    *)
(* answers of the model, its calls that read, write and list files         *)
(* (FileTools) and run commands (CommandRun), and the next request, made   *)
(* of the conversation (Request).  The six share no state, so each         *)
(* behaviour is about one of them and the others stand still.              *)
(*                                                                         *)
(* Two runs of the same section, each started in every way, and a user at  *)
(* work in that section or in another; two processes and a provider that   *)
(* lists a model with tools and a router, or the model without tools, so   *)
(* that a catalogue can be overlaid by a shorter one; a repository with a  *)
(* root file, a directory with one and a file that may be created; answers *)
(* with one or two calls to two tools, under ids that may repeat.          *)
(***************************************************************************)
EXTENDS RepositoryRun, Integers, TLC

CONSTANTS
  Processes, Urls, KeyOf, Catalogues, Allowlist, Routers, MinContext, Ttl, Jobs, MaxTime, None, \* of CatalogueGate
  PipeSize, Diagnostics, ReportSize, MaxCalls,                                                  \* of ItemProcess
  FileLocs, Dirs0, Disks0, Indexed, Ignores, WalkOrder, Calls, Size, Markers, Nul, ReadCap,
  ListDefault, WriteMax,                                                                        \* of FileTools
  MaxChunks, Cap, Detaches,                                                                     \* of CommandRun
  Turns, MaxTurns, Keeps,                                                                       \* of Request
  r1, r2, s1, s2, u1, p1, p2, m1, m2

VARIABLES
  about,  \* "clone", "catalogue", "item", "files", "command" or "request"
  now, live, file, at, job, catalogue, verdict, served,
  process, calls, intended, logged, printed, status, out, err, got, result,
  dry, index, disk, dirs, answer,
  refuses, caller, alive, detached, late, written, pipe, reading, buffer, truncated, captured, outcome,
  keep, explicit, history, wire, pending

catalogueVars == <<now, live, file, at, job, catalogue, verdict, served>>
itemVars == <<process, calls, intended, logged, printed, status, out, err, got, result>>
fileVars == <<dry, index, disk, dirs, answer>>
commandVars ==
  <<refuses, caller, alive, detached, late, written, pipe, reading, buffer, truncated, captured, outcome>>
requestVars == <<keep, explicit, history, wire, pending>>
all == <<about, vars, catalogueVars, itemVars, fileVars, commandVars, requestVars>>

Gating == INSTANCE CatalogueGate WITH pc <- at, got <- catalogue
Item == INSTANCE ItemProcess
Tools == INSTANCE FileTools
Command == INSTANCE CommandRun WITH dry <- refuses, pc <- caller
Conversation == INSTANCE Request

ASSUME GatingAssumption == Gating!CatalogueAssumption
ASSUME ItemAssumption == Item!ProcessAssumption
ASSUME FilesAssumption == Tools!FileAssumption
ASSUME CommandsAssumption == Command!CommandAssumption
ASSUME RequestsAssumption == Conversation!RequestAssumption

\* What a part is when the behaviour is about another: its processes have ended.
NoRuns ==
  /\ mode = [r \in Runs |-> "dry"] /\ pc = [r \in Runs |-> "killed"]
  /\ branches = Only(Trunk, {}) /\ trees = Only(Main, [head |-> Trunk, unstaged |-> {}, staged |-> {}])
  /\ left = [r \in Runs |-> Unknown] /\ exit = [r \in Runs |-> Unknown]
  /\ commit = [r \in Runs |-> "none"] /\ holds = [r \in Runs |-> {}] /\ base = <<>> /\ made = {}
NoGating ==
  /\ now = 0 /\ at = [p \in Processes |-> "done"] /\ verdict = [p \in Processes |-> "none"] /\ served = {}
  /\ live = [u \in Urls |-> CHOOSE c \in Catalogues : TRUE] /\ file = [k \in Gating!Keys |-> Gating!Absent]
  /\ job = [p \in Processes |-> CHOOSE j \in Jobs : TRUE]
  /\ catalogue = [p \in Processes |-> [how |-> "nothing", entries |-> {}, at |-> 0]]
NoItem ==
  /\ process = "none" /\ calls = 0 /\ intended = 0 /\ logged = 0 /\ printed = 0 /\ status = Item!NoStatus
  /\ out = 0 /\ err = 0 /\ got = [out |-> 0, err |-> 0] /\ result = Item!Spawn
NoFiles ==
  /\ dry = FALSE /\ index = <<>> /\ disk = (CHOOSE d \in Disks0 : TRUE) /\ dirs = Dirs0
  /\ answer = [result |-> "none"]
NoCommand ==
  /\ refuses = FALSE /\ caller = "done" /\ alive = {} /\ detached = FALSE /\ late = FALSE /\ written = 0
  /\ pipe = [s \in Command!Streams |-> <<>>] /\ reading = {} /\ buffer = <<>> /\ truncated = FALSE
  /\ captured = <<>> /\ outcome = "none"
NoRequest ==
  /\ keep = (CHOOSE k \in Keeps : TRUE) /\ explicit = FALSE
  /\ history = <<Conversation!Said("system", "long"), Conversation!Said("user", "short")>>
  /\ wire = [messages |-> <<>>, marks |-> {}] /\ pending = FALSE

RunsInit ==
  \/ about = "clone" /\ Init /\ NoGating /\ NoItem /\ NoFiles /\ NoCommand /\ NoRequest
  \/ about = "catalogue" /\ Gating!Init /\ NoRuns /\ NoItem /\ NoFiles /\ NoCommand /\ NoRequest
  \/ about = "item" /\ Item!Init /\ NoRuns /\ NoGating /\ NoFiles /\ NoCommand /\ NoRequest
  \/ about = "files" /\ Tools!Init /\ NoRuns /\ NoGating /\ NoItem /\ NoCommand /\ NoRequest
  \/ about = "command" /\ Command!Init /\ NoRuns /\ NoGating /\ NoItem /\ NoFiles /\ NoRequest
  \/ about = "request" /\ Conversation!Init /\ NoRuns /\ NoGating /\ NoItem /\ NoFiles /\ NoCommand

OfRuns(A) ==
  about = "clone" /\ A /\ UNCHANGED <<about, catalogueVars, itemVars, fileVars, commandVars, requestVars>>
OfGating(A) ==
  about = "catalogue" /\ A /\ UNCHANGED <<about, vars, itemVars, fileVars, commandVars, requestVars>>
OfItem(A) ==
  about = "item" /\ A /\ UNCHANGED <<about, vars, catalogueVars, fileVars, commandVars, requestVars>>
OfFiles(A) ==
  about = "files" /\ A /\ UNCHANGED <<about, vars, catalogueVars, itemVars, commandVars, requestVars>>
OfCommand(A) ==
  about = "command" /\ A /\ UNCHANGED <<about, vars, catalogueVars, itemVars, fileVars, requestVars>>
OfRequest(A) ==
  about = "request" /\ A /\ UNCHANGED <<about, vars, catalogueVars, itemVars, fileVars, commandVars>>

RunsNext ==
  \/ OfRuns(Next) \/ OfGating(Gating!Next) \/ OfItem(Item!Next)
  \/ OfFiles(Tools!Next) \/ OfCommand(Command!Next) \/ OfRequest(Conversation!Next)

\* As in the modules; the model that an item calls answers.  A behaviour is about
\* one part, so that a condition may stand for a step of two of them.
RunsSpec ==
  /\ RunsInit /\ [][RunsNext]_all
  /\ \A r \in Runs : WF_all(OfRuns(RunStep(r)))
  /\ \A p \in Processes : WF_all(OfGating(Gating!Step(p)))
  /\ WF_all(OfItem(Item!Process) \/ OfCommand(Command!Caller))
  /\ WF_all(OfItem(Item!Thread) \/ OfCommand(Command!DeadlinePasses))
  /\ WF_all(OfItem(Item!ModelAnswers) \/ OfCommand(Command!Reader("out")))
  /\ WF_all(OfCommand(Command!Reader("err")))

----------------------------------------------------------------------------
MCSection == [r \in Runs |-> s1]
MCBranchOf == [r \in Runs |-> <<"codemason", r>>]

Entry(id, tools) == [id |-> id, tools |-> tools, context |-> 2]
MCCatalogues == {{Entry(m1, TRUE), Entry(m2, TRUE)}, {Entry(m1, FALSE)}}
MCJobs == {[url |-> u, id |-> id, allow |-> id # None] : u \in Urls, id \in {m1, m2, None}}
MCKeyOf == [u \in Urls |-> u]

Root == <<"a">>
Sub  == <<"d", "b">>
New  == <<"n", "e">>
Log  == <<".agent", "log">>
MCFileLocs == {Root, Sub, New, Log}
MCWalkOrder == <<Log, Root, Sub, New>>
MCDirs0 == {<<>>, <<"d">>, <<".agent">>}
MCIndexed == {Root, New}
MCIgnores == {<< <<>>, Sub >>}
MCSize == [x |-> 1, y |-> 1, rest |-> 2, nul |-> 1]

\* A last line without a break.
Open == -1
NoFile == [file |-> FALSE]
Bodies == {<<>>, << <<"x", 1>>, <<"y", 1>> >>, << <<"x", 1>>, <<"y", 0>>, <<"x", 0>> >>,
           << <<"x", 1>>, <<"y", 1>>, <<"x", 1>>, <<"y", Open>> >>}
File(bom, body) == [file |-> TRUE, bom |-> bom, body |-> body]
MCDisks0 ==
  {(Root :> File(bom, body)) @@ (Sub :> File(FALSE, << <<"nul", 0>> >>))
     @@ (New :> NoFile) @@ (Log :> File(FALSE, << <<"x", 0>> >>)) : bom \in BOOLEAN, body \in Bodies}

NewContents ==
  {<<>>, << <<"x", Open>> >>, << <<"rest", Open>> >>, << <<"x", 0>>, <<"x", 0>>, <<"x", 0>>, <<"x", 0>>, <<"x", 0>> >>}
  \union {<< <<"x", n>>, <<"y", n>> >> : n \in {0, 1}}

FileCall(tool, given, raw) == [tool |-> tool, raw |-> raw, given |-> given, null |-> FALSE]
Read(raw, from, to) ==
  [tool |-> "read_file", raw |-> raw, given |-> {"path"}, null |-> FALSE, from |-> from, to |-> to]
WriteOf(raw, content) ==
  [tool |-> "write_file", raw |-> raw, given |-> {"path", "content"}, null |-> FALSE, content |-> content]
List(raw, max, pattern) ==
  [tool |-> "list_files", raw |-> raw, given |-> {}, null |-> FALSE, max |-> max, pattern |-> pattern]
MCCalls ==
  {FileCall("edit_file", {}, <<>>), FileCall("write_file", {"path"}, Root), [List(Root, 0, FileLocs) EXCEPT !.null = TRUE]}
  \union {FileCall("run_command", {"command"}, <<>>), FileCall("web_search", {"query"}, <<>>)}
  \union {FileCall("context_search", {"query"}, p) : p \in {<<>>, Root}}
  \union {FileCall("context_outline", {"path"}, p) : p \in {Root, New, Sub}}
  \union {Read(Root, f, t) : f \in {-1, 2}, t \in {0, 3}}
  \union {Read(p, -1, 3) : p \in {New, Sub, <<"..", "a">>, <<"n", "..", "a">>}}
  \union {WriteOf(Root, b) : b \in NewContents}
  \union {WriteOf(p, << <<"x", Open>> >>) : p \in {<<"d", "..", "a">>, <<"n", "..", "a">>}}
  \union {WriteOf(p, << <<"rest", Open>> >>) : p \in {<<>>, <<"..", "a">>, <<"d">>, <<"a", "b">>, <<".", "n", "e">>}}
  \union {List(p, 0, FileLocs) : p \in {<<>>, <<"d">>, Root, <<"n">>}} \union {List(<<>>, 1, FileLocs)}

Called(id, tool) == [id |-> id, tool |-> tool]
MCTurns ==
  {[text |-> "none", calls |-> <<Called(i, "read_file")>>, results |-> <<"long">>] : i \in {"a", "b"}}
  \union {[text |-> "short", calls |-> <<Called("b", "read_file")>>, results |-> <<"none">>]}
  \union {[text |-> "long", calls |-> <<Called("a", "run_command"), Called("b", "read_file")>>,
           results |-> <<"long", "short">>]}

----------------------------------------------------------------------------
(* Properties: those of the six modules, a conjunction of theirs for each.   *)

\* Whatever order runs, a user, failures and kills come in: nobody's edit is
\* thrown away, an isolated branch holds its own run's work only, and what a run
\* reports is what its branch holds (repo.rs, bin/codemason.rs).
WorkIsSafe == TypeOK /\ NobodysWorkIsLost /\ IsolatedBranchHoldsOwnWork /\ ReportIsTrue

\* A model passes the gate on one whole catalogue which its provider served and
\* that offers it with tools, whatever other processes do to the cache file at
\* the same time or die over (gating.rs).
GateIsSound == Gating!TypeOK /\ Gating!CatalogueIsGenuine /\ Gating!PassingMeansOffered

\* The supervisor goes by how the process ended, not by what it printed before
\* it was killed, and takes no printed report for a failure (supervisor/execute.rs).
ReportIsBelieved == Item!TypeOK /\ Item!OnlyAnEndIsAnEnd /\ Item!NoReportIsLost

\* A file is what the calls say of it: a path reads what it wrote, pages miss
\* no line and repeat none, and a listing below its cap is complete (tools/fs.rs).
FilesAreExact == Tools!TypeOK /\ Tools!WrittenIsRead /\ Tools!PagesAddUp /\ Tools!ListingIsComplete

\* A write that is refused leaves no trace, and one that the system fails behind the
\* checks only directories on the way and a beginning of its file; one that puts back
\* what was shown changes nothing, and one of line feeds keeps the file's breaks and
\* byte order mark (tools/fs.rs).
WritesAreExact == Tools!RefusedLeavesNoTrace /\ Tools!RewriteIsIdentity /\ Tools!ConventionIsKept

\* A command's answer holds the end of all that its processes wrote, in order,
\* with what a killed one wrote last, and says when the beginning is missing; no
\* process of the group outlives an answer that reports its time (tools/exec.rs).
OutputIsKept ==
  Command!TypeOK /\ Command!TailIsKept /\ Command!NothingIsLost /\ Command!TreeIsDead

\* A request holds all that the user and the model said and the last results in
\* full; what could be cached lies before its last breakpoint (compact.rs,
\* llm/cache.rs).
RequestsAreWhole ==
  Conversation!TypeOK /\ Conversation!DecisionsAreKept /\ Conversation!NothingCacheableIsMissed

\* The model is told all there is to tell: both of these.
NothingIsKeptBack == OutputIsKept /\ RequestsAreWhole

\* With elision off a request is the beginning of the next one, and a text that
\* was elided once is never sent again (compact.rs, llm/cache.rs).
PrefixOrElided == Conversation!PrefixOrElided

\* An isolated run never touches the clone and a dry run nothing at all, and no
\* cache file, once whole, holds a catalogue nobody served (repo.rs, gating.rs).
SharedStateIsLeftAlone == IsolatedRunLeavesTheCloneAlone /\ Gating!FilesAreNeverMixed

\* Every run that is not killed exits, every gate comes to a verdict, the thread
\* that dispatched an item gets its result, however much the run writes to its
\* pipes, and a command found to be late is ended and answered, though its processes
\* write to full pipes and never exit, unless one has left the group
\* (bin/codemason.rs, gating.rs, supervisor/execute.rs, tools/exec.rs).
EveryProcessEnds ==
  /\ EveryRunExits /\ Gating!VerdictIsReached /\ Item!EveryDispatchReturns
  /\ Command!LateCommandsEnd
=============================================================================
