------------------------------ MODULE MCPlanning -----------------------------
(***************************************************************************)
(* From a repository to a plan: its files are cut into chunks (Chunking)   *)
(* and joined in a graph (DependencyGraph), the graph into partitions      *)
(* (Partition); what a file promises is printed (Surface) for a planner,   *)
(* whose answer becomes a plan and is walked (Planning).  Each is checked  *)
(* on inputs of its own: a behaviour is about one of them, and the others  *)
(* stand still.                                                            *)
(***************************************************************************)
EXTENDS Chunking, TLC

CONSTANTS
  Repos, LowerCase, RankOf, Begins, Tails, EntryPoints,           \* of DependencyGraph
  MaxFiles, Options,                                              \* of Partition
  Listings, Paths, NoPath, LowerOf, MaxSpan, MaxVerbatim, MaxSignature, MaxJoined,  \* of Surface
  Ids, Partitions, NoPart, ModelFlags, Levels0, MaxItems, MaxStarts \* of Planning

VARIABLES
  about,  \* "chunks", "graph", "partition", "surface" or "plan"
  repo, walked, files, chunked, order, reverse, pc, query,
  nodes, depends, opts, stage, hubs, unseen, stack, component, components, result,
  listing, path, file, todo, seen, coveredTo, surface,
  fromFile, contracts, models, dry, starts, noted, accepted, done, step, answer, asked, plan, left, running, ran

graphVars == <<repo, walked, files, chunked, order, reverse, pc, query>>
partVars == <<nodes, depends, opts, stage, hubs, unseen, stack, component, components, result>>
surfaceVars == <<listing, path, file, todo, seen, coveredTo, surface>>
planVars == <<fromFile, contracts, models, dry, starts, noted, accepted, done, step, answer, asked, plan, left, running, ran>>
all == <<about, vars, graphVars, partVars, surfaceVars, planVars>>

Graph == INSTANCE DependencyGraph
Partitioned == INSTANCE Partition WITH files <- nodes, pc <- stage, groups <- components
Shown == INSTANCE Surface WITH Repos <- Listings, repo <- listing
Plan == INSTANCE Planning WITH pc <- step

ASSUME GraphsAssumption == Graph!GraphAssumption
ASSUME PartsAssumption == Partitioned!PartitionAssumption /\ Plan!PlanningAssumption

\* What a part is when the behaviour is about another: done, with nothing in it.
Nothing == [lang |-> "text", size |-> 0, blank |-> TRUE, breaks |-> {}, nodes |-> <<>>]
NoChunks ==
  /\ source = Nothing /\ groups = <<>> /\ at = 0 /\ current = NoGroup /\ merged = <<>>
  /\ chunks = <<>> /\ phase = "done"
NoGraph ==
  /\ repo = (CHOOSE r \in Repos : TRUE) /\ walked = <<>> /\ files = <<>> /\ chunked = {} /\ order = <<>>
  /\ reverse = <<>> /\ pc = "failed" /\ query = Graph!NoQuery
NoPartition ==
  /\ nodes = {} /\ depends = <<>> /\ opts = (CHOOSE o \in Options : TRUE) /\ stage = "done" /\ hubs = {}
  /\ unseen = {} /\ stack = <<>> /\ component = {} /\ components = <<>> /\ result = [Partitioned!NoResult EXCEPT !.degrades = TRUE, !.reason = "empty"]
NoSurface ==
  /\ listing = <<>> /\ path = NoPath /\ file = 0 /\ todo = <<>> /\ seen = {} /\ coveredTo = 0 /\ surface = <<>>
NoPlan ==
  /\ fromFile = FALSE /\ contracts = FALSE /\ models = {} /\ dry = TRUE /\ starts = 1 /\ noted = 0 /\ accepted = {} /\ done = {} /\ step = "done"
  /\ answer = Plan!None /\ asked = Plan!NoModel /\ plan = <<>> /\ left = <<>> /\ running = {} /\ ran = <<>>

AllInit ==
  \/ about = "chunks" /\ Init /\ NoGraph /\ NoPartition /\ NoSurface /\ NoPlan
  \/ about = "graph" /\ Graph!Init /\ NoChunks /\ NoPartition /\ NoSurface /\ NoPlan
  \/ about = "partition" /\ Partitioned!Init /\ NoChunks /\ NoGraph /\ NoSurface /\ NoPlan
  \/ about = "surface" /\ Shown!Init /\ NoChunks /\ NoGraph /\ NoPartition /\ NoPlan
  \/ about = "plan" /\ Plan!Init /\ NoChunks /\ NoGraph /\ NoPartition /\ NoSurface

OfChunks(A) == about = "chunks" /\ A /\ UNCHANGED <<about, graphVars, partVars, surfaceVars, planVars>>
OfGraph(A) == about = "graph" /\ A /\ UNCHANGED <<about, vars, partVars, surfaceVars, planVars>>
OfPartition(A) == about = "partition" /\ A /\ UNCHANGED <<about, vars, graphVars, surfaceVars, planVars>>
OfSurface(A) == about = "surface" /\ A /\ UNCHANGED <<about, vars, graphVars, partVars, planVars>>
OfPlan(A) == about = "plan" /\ A /\ UNCHANGED <<about, vars, graphVars, partVars, surfaceVars>>

AllNext ==
  OfChunks(Next) \/ OfGraph(Graph!Next) \/ OfPartition(Partitioned!Next) \/ OfSurface(Shown!Next) \/ OfPlan(Plan!Next)

\* A partitioning and a walk of the graph are loops of one thread.
AllSpec ==
  /\ AllInit /\ [][AllNext]_all
  /\ WF_all(OfGraph(Graph!VisitImpact \/ Graph!VisitDot \/ Graph!Answered))
  /\ WF_all(OfPartition(Partitioned!Next))

----------------------------------------------------------------------------
(* The instances: files of up to six pieces for the chunks, every graph of *)
(* up to four files for the partitions, plans of up to three items at up   *)
(* to three levels; the others have modules of their own.                  *)
GraphData == INSTANCE GraphExamples
SurfaceData == INSTANCE SurfaceExamples

MCRepos == GraphData!MCRepos
MCLowerCase == GraphData!MCLowerCase
MCBegins == GraphData!MCBegins
MCTails == GraphData!MCTails
MCRankOf == GraphData!MCRankOf
MCEntryPoints == GraphData!MCEntryPoints
MCOptions == {[min |-> 3, num |-> 1, den |-> 10], [min |-> 1, num |-> 1, den |-> 2]}
MCListings == SurfaceData!MCRepos
MCPaths == SurfaceData!MCPaths
MCNoPath == SurfaceData!MCNoPath
MCLowerOf == SurfaceData!MCLowerOf

\* <<kind, depth>> in preorder, by language.
Shapes ==
  {<<"csharp", <<<<"using_directive", 0>>, <<"class_declaration", 0>>, <<"declaration_list", 1>>,
                 <<"method_declaration", 2>>, <<"method_declaration", 2>>>>>>,
   <<"csharp", <<<<"namespace_declaration", 0>>, <<"declaration_list", 1>>, <<"record_declaration", 2>>,
                 <<"enum_declaration", 2>>, <<"delegate_declaration", 2>>>>>>,
   <<"csharp", <<<<"class_declaration", 0>>, <<"declaration_list", 1>>, <<"method_declaration", 2>>,
                 <<"block", 3>>, <<"class_declaration", 0>>>>>>,
   <<"html", <<<<"doctype", 0>>, <<"element", 0>>, <<"start_tag", 1>>, <<"element", 1>>, <<"element", 2>>>>>>,
   <<"rust", <<<<"use_declaration", 0>>, <<"attribute_item", 0>>, <<"mod_item", 0>>,
               <<"declaration_list", 1>>, <<"function_item", 2>>>>>>,
   <<"python", <<<<"import_statement", 0>>, <<"expression_statement", 0>>, <<"call", 1>>>>>>,
   <<"text", <<>>>>}

Pieces == {<<1, FALSE>>, <<1, TRUE>>, <<2, TRUE>>}

Starts(text) == FoldLeft(LAMBDA acc, p : Append(acc, acc[Len(acc)] + p[1]), <<0>>, text)

\* The text before the first node is the first piece.
Source(lang, shape, text) ==
  LET offsets == Starts(text)
  IN [lang |-> lang,
      size |-> offsets[Len(offsets)],
      blank |-> Len(text) = 1,
      breaks |-> {offsets[i + 1] - 1 : i \in {j \in DOMAIN text : text[j][2]}},
      nodes |-> [i \in DOMAIN shape |-> [kind |-> shape[i][1], depth |-> shape[i][2], start |-> offsets[i + 1]]]]

SourcesOf(shapes) ==
  UNION {{Source(s[1], s[2], t) : t \in [1..(Len(s[2]) + 1) -> Pieces]} : s \in shapes}
  \cup UNION {{Source("text", <<>>, t) : t \in [1..n -> Pieces]} : n \in 1..4}

MCSources == SourcesOf(Shapes)

----------------------------------------------------------------------------
(* Properties: those of the five modules, a conjunction of theirs for each. *)

\* The chunks of a file tile it, types begin chunks of their own, a chunk is as
\* near the desired length as that allows and its line numbers hold its text
\* (engine/chunking.rs).
ChunksAreSound == TypeOK /\ ChunksTile /\ TypesStartChunks /\ NearDesiredLength /\ LinesHoldTheChunk

\* An import that resolves does so whatever the order of the hash tables, a C#
\* name is found in its scope; an impact is what reaches the file, its drawing
\* holds every edge once, and an orphan concerns nobody (engine/graph.rs,
\* engine/csharp.rs).
GraphIsSound ==
  /\ Graph!TypeOK /\ Graph!ImpactIsReachability /\ Graph!DotIsInduced /\ Graph!OrphansConcernNobody
  /\ Graph!OrderNeverLosesAnImport /\ Graph!ScopeDecides

\* Partitions are disjoint, hold every file and are joined by hubs only; they are
\* ranked, and no file is lost on the way (partition.rs).
PartitionIsSound ==
  Partitioned!TypeOK /\ Partitioned!NothingIsLost /\ Partitioned!Disjoint /\ Partitioned!Cohesive /\ Partitioned!Ranked

\* What is public is shown once, whole or with a note where something is left
\* out, and what a hidden type holds is not (surface.rs).
SurfaceIsSound ==
  /\ Shown!TypeOK /\ Shown!PublicIsShown /\ Shown!SignaturesAreWhole /\ Shown!MembersSurvive
  /\ Shown!NothingIsSilent /\ Shown!ShownOnce /\ Shown!HiddenStayHidden

\* A planner's plan never has two items at work on one partition, is refused for
\* that alone, and its walk dispatches every item once, level by level, but for
\* the levels an earlier start got accepted, which are not run again
\* (supervisor/plan.rs, bin/codemason-supervisor.rs).
PlanIsSound ==
  /\ Plan!TypeOK /\ Plan!NoSharedPartition /\ Plan!RefusalIsJust
  /\ Plan!EveryItemOnce /\ Plan!AcceptedIsNotRunAgain

\* An impact query is answered, cycles or not, and a partitioning ends
\* (engine/graph.rs, partition.rs).
LoopsEnd == Graph!QueriesEnd /\ Partitioned!Ends
=============================================================================
