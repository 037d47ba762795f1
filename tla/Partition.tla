------------------------------ MODULE Partition -----------------------------
(***************************************************************************)
(* Splitting a repository into groups of files that no two jobs share:     *)
(* src/src/partition.rs.  Files are numbered in the order of their names;  *)
(* the dependency graph is arbitrary but for what resolve_dependencies     *)
(* guarantees: an edge leads to another file of the graph.                 *)
(***************************************************************************)
EXTENDS Sorting, FiniteSetsExt, SequencesExt

CONSTANTS
  MaxFiles,  \* repositories of up to that many files
  Options    \* the options: [min, num, den] with a hub ratio of num/den

PartitionAssumption == MaxFiles \in Nat /\ Options \subseteq [min : Nat, num : Nat, den : Nat]

VARIABLES
  files,      \* the files of the graph
  depends,    \* file -> the files it depends on
  opts,       \* the options asked for
  pc,         \* "start", "seed", "grow", "done"
  hubs,       \* the files treated as hubs
  unseen,     \* files no component holds yet
  stack,      \* files of the component whose neighbours are to be looked at
  component,  \* the component being grown
  groups,     \* the components found, in the order they were closed
  result      \* the partitions and their statistics

vars == <<files, depends, opts, pc, hubs, unseen, stack, component, groups, result>>

NoResult == [partitions |-> <<>>, degrades |-> FALSE, reason |-> "none", parallelism |-> 0]

Dependents(f) == {g \in files : f \in depends[g]}

Init ==
  /\ files \in {1..n : n \in 0..MaxFiles}
  /\ depends \in {d \in [files -> SUBSET files] : \A f \in files : f \notin d[f]}
  /\ opts \in Options
  /\ pc = "start"
  /\ hubs = {} /\ unseen = {} /\ stack = <<>> /\ component = {} /\ groups = <<>>
  /\ result = NoResult

----------------------------------------------------------------------------

\* A repository without files is answered at once.
NoFiles ==
  /\ pc = "start"
  /\ files = {}
  /\ result' = [NoResult EXCEPT !.degrades = TRUE, !.reason = "empty"]
  /\ pc' = "done"
  /\ UNCHANGED <<files, depends, opts, hubs, unseen, stack, component, groups>>

\* A hub has enough dependents, and more than a share of the other files.
IsHub(f) ==
  LET d == Cardinality(Dependents(f))
  IN  /\ d >= opts.min
      /\ d * opts.den > opts.num * Max({Cardinality(files) - 1, 1})

FindHubs ==
  /\ pc = "start"
  /\ files # {}
  /\ hubs' = {f \in files : IsHub(f)}
  /\ unseen' = files \ hubs'
  /\ pc' = "seed"
  /\ UNCHANGED <<files, depends, opts, stack, component, groups, result>>

\* Only the files a file depends on.
NeighboursForward(f) == (depends[f] \ hubs) \ {f}

\* Dependencies in either direction, those of and on hubs left out.
Neighbours(f) == ((depends[f] \union Dependents(f)) \ hubs) \ {f}

\* A component starts at the first file not seen.
Seed ==
  /\ pc = "seed"
  /\ unseen # {}
  /\ LET first == Min(unseen)
     IN  /\ unseen' = unseen \ {first}
         /\ stack' = <<first>>
         /\ component' = {first}
  /\ pc' = "grow"
  /\ UNCHANGED <<files, depends, opts, hubs, groups, result>>

\* A neighbour that joins stays unseen.
GrowUnmarked ==
  /\ pc = "grow"
  /\ stack # <<>>
  /\ LET new == (Neighbours(Last(stack)) \intersect unseen) \ component
     IN  /\ \E pushed \in Ascending(new) : stack' = Front(stack) \o pushed
         /\ component' = component \union new
  /\ UNCHANGED <<files, depends, opts, pc, hubs, unseen, groups, result>>

\* A neighbour that joins is not looked at in turn.
GrowShallow ==
  /\ pc = "grow"
  /\ stack # <<>>
  /\ LET new == Neighbours(Last(stack)) \intersect unseen
     IN  unseen' = unseen \ new /\ component' = component \union new
  /\ stack' = Front(stack)
  /\ UNCHANGED <<files, depends, opts, pc, hubs, groups, result>>

\* The stack is never popped.
GrowStuck ==
  /\ pc = "grow"
  /\ stack # <<>>
  /\ LET new == Neighbours(Last(stack)) \intersect unseen
     IN  /\ unseen' = unseen \ new
         /\ \E pushed \in Ascending(new) : stack' = stack \o pushed
         /\ component' = component \union new
  /\ UNCHANGED <<files, depends, opts, pc, hubs, groups, result>>

\* The unseen neighbours of the file on top of the stack join, in order.
Grow ==
  /\ pc = "grow"
  /\ stack # <<>>
  /\ LET new == Neighbours(Last(stack)) \intersect unseen
     IN  /\ unseen' = unseen \ new
         /\ \E pushed \in Ascending(new) : stack' = Front(stack) \o pushed
         /\ component' = component \union new
  /\ UNCHANGED <<files, depends, opts, pc, hubs, groups, result>>

Close ==
  /\ pc = "grow"
  /\ stack = <<>>
  /\ groups' = Append(groups, component)
  /\ component' = {}
  /\ pc' = "seed"
  /\ UNCHANGED <<files, depends, opts, hubs, unseen, stack, result>>

\* Smallest first.
Smaller(a, b) == Cardinality(a) < Cardinality(b) \/ (Cardinality(a) = Cardinality(b) /\ Min(a) < Min(b))

Larger(a, b) ==
  \/ Cardinality(a) > Cardinality(b)
  \/ Cardinality(a) = Cardinality(b) /\ Min(a) < Min(b)

\* sort_by_key is stable, so hubs with as many dependents stay in name order.
HubFirst(a, b) ==
  LET da == Cardinality(Dependents(a)) db == Cardinality(Dependents(b))
  IN  da > db \/ (da = db /\ a < b)

\* Components are listed from the largest, then hubs from the most depended on.
Rank ==
  /\ pc = "seed"
  /\ unseen = {}
  /\ \E byRank \in Sorted(DOMAIN groups, LAMBDA i, j : Larger(groups[i], groups[j])),
        ranked \in Sorted(hubs, HubFirst) :
       LET jobs == Len(groups)
       IN  result' =
             [partitions |->
                [i \in 1..jobs |-> [kind |-> "component", files |-> groups[byRank[i]]]]
                \o [i \in 1..Len(ranked) |-> [kind |-> "hub", files |-> {ranked[i]}]],
              degrades |-> jobs <= 1,
              reason |-> CASE jobs = 0 -> "empty" [] jobs = 1 -> "coupled" [] OTHER -> "none",
              parallelism |-> jobs]
  /\ pc' = "done"
  /\ UNCHANGED <<files, depends, opts, hubs, unseen, stack, component, groups>>

Next == NoFiles \/ FindHubs \/ Seed \/ Grow \/ Close \/ Rank

Spec == Init /\ [][Next]_vars /\ WF_vars(Next)

----------------------------------------------------------------------------
(* Properties.                                                             *)

TypeOK ==
  /\ hubs \subseteq files
  /\ unseen \subseteq files \ hubs
  /\ component \subseteq files \ hubs
  /\ Range(stack) \subseteq component
  /\ Range(groups) \subseteq SUBSET files
  /\ pc \in {"start", "seed", "grow", "done"}

Joined(f, g) == g \in Neighbours(f)

\* The files reachable from f without passing a hub, by iteration.
Connected(f) ==
  LET after[n \in 0..MaxFiles] ==
        IF n = 0 THEN {f}
        ELSE after[n - 1] \union {g \in files \ hubs : \E h \in after[n - 1] : Joined(h, g)}
  IN  after[MaxFiles]

\* While components are grown, a file is unseen, in the component being grown or in
\* one that is closed, never in two, and only files on the stack may still have
\* unseen neighbours (the loop of partition).
NothingIsLost ==
  pc \in {"seed", "grow"} =>
    /\ \A f \in files \ hubs :
         Cardinality({i \in 1..Len(groups) : f \in groups[i]})
           + (IF f \in component THEN 1 ELSE 0) + (IF f \in unseen THEN 1 ELSE 0) = 1
    /\ \A f \in component \ Range(stack) : Neighbours(f) \subseteq component

\* Two partitions never share a file, and every file is in one: two concurrent jobs
\* are never assigned the same file, and none is left out.
Disjoint ==
  pc = "done" =>
    /\ \A i, j \in 1..Len(result.partitions) :
         i # j => result.partitions[i].files \intersect result.partitions[j].files = {}
    /\ UNION {p.files : p \in Range(result.partitions)} = files

\* A component is exactly the files connected without a hub, so no dependency
\* joins two partitions except through a hub, and none is larger than it must be.
Cohesive ==
  pc = "done" =>
    \A p \in Range(result.partitions) :
      IF p.kind = "component" THEN \A f \in p.files : p.files = Connected(f)
      ELSE \A f \in p.files : Cardinality(Dependents(f)) >= opts.min

\* The partitions are listed from the most important one, whatever the order in
\* which they were found, and say how many can run at once.
Ranked ==
  pc = "done" =>
    LET ps == result.partitions
    IN  /\ \A i, j \in 1..Len(ps) :
             i < j /\ ps[i].kind = ps[j].kind =>
               IF ps[i].kind = "component"
               THEN Cardinality(ps[i].files) >= Cardinality(ps[j].files)
               ELSE \A f \in ps[i].files, g \in ps[j].files :
                      Cardinality(Dependents(f)) >= Cardinality(Dependents(g))
        /\ result.parallelism = Cardinality({i \in 1..Len(ps) : ps[i].kind = "component"})
        /\ result.degrades <=> result.parallelism <= 1

\* The partitioning ends.
Ends == <>(pc = "done")
=============================================================================
