---------------------------- MODULE PlanningProofs ----------------------------
(***************************************************************************)
(* Theorems about the partitioning of a repository, about the plans made   *)
(* for it, about the chunks its files are cut into and about the graph of  *)
(* their dependencies, for any number of files, imports, options, items,   *)
(* levels and definitions.  Each has an inductive invariant of its own;    *)
(* while a behaviour is about another part it stands still in a state that *)
(* satisfies it.                                                           *)
(***************************************************************************)
EXTENDS MCPlanning, Sorting, Recursion, FiniteSetTheorems, SequenceTheorems

----------------------------------------------------------------------------
(* The partitioning.                                                       *)

Coupled(f) == Partitioned!Neighbours(f)
Plain == nodes \ hubs

\* A set of files that no dependency leaves, and one that no such set divides.
NoneLeaves(X) == \A f \in X : Coupled(f) \subseteq X
Undivided(C) == \A X \in SUBSET Plain : NoneLeaves(X) => C \subseteq X \/ C \cap X = {}

\* What the loop keeps: every file is in one of its places, what was closed is
\* closed, and nothing was put together that a dependency does not join.
GrowInv ==
  /\ unseen \cup component \cup UNION Range(components) = Plain
  /\ unseen \cap component = {}
  /\ \A i \in DOMAIN components :
       /\ components[i] \cap (unseen \cup component) = {}
       /\ NoneLeaves(components[i]) /\ Undivided(components[i])
  /\ \A i, j \in DOMAIN components : i # j => components[i] \cap components[j] = {}
  /\ Undivided(component)
  /\ \A f \in component \ Range(stack) : Coupled(f) \subseteq component

PartInv ==
  /\ nodes \in {1..n : n \in 0..MaxFiles}
  /\ depends \in [nodes -> SUBSET nodes]
  /\ hubs \subseteq nodes /\ unseen \subseteq Plain /\ component \subseteq Plain
  /\ stack \in Seq(component)
  /\ components \in Seq(SUBSET Plain)
  /\ stage \in {"start", "seed", "grow", "done"}
  /\ stage = "start" => component = {} /\ components = <<>> /\ stack = <<>>
  /\ stage \in {"seed", "grow"} => GrowInv /\ hubs = {f \in nodes : Partitioned!IsHub(f)}
  /\ stage = "seed" => component = {} /\ stack = <<>>
  /\ Partitioned!Disjoint /\ Partitioned!Cohesive /\ Partitioned!Ranked

----------------------------------------------------------------------------
(* The plan.                                                               *)

\* No two items of a level name a partition together.
Clean(items) ==
  \A i, j \in DOMAIN items :
    i # j /\ items[i].part = items[j].part /\ items[i].part # NoPart => items[i].level # items[j].level

\* What was dispatched are levels of the plan, whole and in order, and none that an
\* earlier start had recorded as accepted.
RanInv ==
  /\ ran \in Seq(SUBSET DOMAIN plan)
  /\ running = {} \/ (ran # <<>> /\ running = ran[Len(ran)])
  /\ \A k \in DOMAIN ran : \A i \in ran[k], j \in DOMAIN plan :
       j \in ran[k] <=> plan[j].level = plan[i].level
  /\ \A k, m \in DOMAIN ran : k < m => \A i \in ran[k], j \in ran[m] : plan[i].level < plan[j].level
  /\ \A k \in DOMAIN ran : \A i \in ran[k] : plan[i].level \notin done
  /\ \A i \in running : plan[i].level \notin accepted

\* What is left comes after it, in order, and leaves nothing out but what was
\* accepted before; and this start has accepted none of it yet.
LeftInv ==
  /\ left \in Seq(Nat)
  /\ \A m, n \in DOMAIN left : m < n => left[m] < left[n]
  /\ \A k \in DOMAIN ran : \A i \in ran[k], n \in DOMAIN left : plan[i].level < left[n]
  /\ \A j \in DOMAIN plan :
       \/ plan[j].level \in done
       \/ (\E k \in DOMAIN ran : j \in ran[k]) \/ (\E n \in DOMAIN left : left[n] = plan[j].level)
  /\ \A n \in DOMAIN left : left[n] \in accepted => left[n] \in done

PlanInv ==
  /\ starts \in Nat /\ noted \in Nat /\ noted <= starts
  /\ step \in {"load", "args"} => noted < starts
  /\ step \in {"load", "args", "creds", "choose", "ask", "parse", "planned", "walk", "stopped", "done"}
  /\ asked \in models \cup {Plan!NoModel}
  /\ step = "parse" => answer.items \in Plan!PlanSet
  /\ plan \in Plan!PlanSet
  /\ ~fromFile => Clean(plan) /\ \A i \in DOMAIN plan : plan[i].level >= 1
  /\ done \subseteq accepted /\ accepted \subseteq Levels0
  /\ step \notin {"walk", "stopped", "done"} => ran = <<>> /\ running = {} /\ accepted = done
  /\ RanInv
  /\ step = "walk" => LeftInv
  /\ step = "done" /\ ~dry => UNION Range(ran) = {i \in DOMAIN plan : plan[i].level \notin done}

----------------------------------------------------------------------------
(* Sorting and choosing the least.                                         *)

LEMMA LeastIsMember ==
  ASSUME NEW S \in SUBSET Nat, S # {}
  PROVE  Min(S) \in S /\ \A n \in S : Min(S) <= n
<1>1. \E m \in S : \A n \in S : m <= n
  BY LeastNumber
<1> QED
  BY <1>1 DEF Min

LEMMA AscendingListsAll ==
  ASSUME NEW S \in SUBSET Nat, IsFiniteSet(S), NEW s \in Ascending(S)
  PROVE  /\ s \in Seq(S) /\ Range(s) = S
         /\ \A m, n \in DOMAIN s : m < n => s[m] < s[n]
<1>1. Cardinality(S) \in Nat
  BY FS_CardinalityType
<1>2. s \in [1..Cardinality(S) -> S] /\ \A x \in S : \E i \in 1..Cardinality(S) : s[i] = x
  BY DEF Ascending, Sorted, Bijection, Surjection
<1>3. \A m, n \in 1..Cardinality(S) : m < n => s[m] < s[n]
  BY DEF Ascending, Sorted
<1>4. s \in Seq(S) /\ DOMAIN s = 1..Cardinality(S)
  BY <1>1, <1>2
<1>5. Range(s) = S
  BY <1>2, <1>4, Zenon DEF Range
<1> QED
  BY <1>3, <1>4, <1>5

\* The operators of the libraries are the same under each name they have here.
LEMMA SameOperators ==
  \A S :
    /\ Partitioned!Cardinality(S) = Cardinality(S) /\ Plan!Cardinality(S) = Cardinality(S)
    /\ Partitioned!Min(S) = Min(S) /\ Plan!Min(S) = Min(S)
    /\ Partitioned!Last(S) = Last(S) /\ Partitioned!Front(S) = Front(S)
    /\ Partitioned!Range(S) = Range(S) /\ Plan!Range(S) = Range(S)
BY DEF Partitioned!Cardinality, Plan!Cardinality, Cardinality, Partitioned!Min, Plan!Min, Min,
       Partitioned!Last, Last, Partitioned!Front, Front, Partitioned!Range, Plan!Range, Range

LEMMA SortingIsShared ==
  ASSUME NEW S, NEW s, s \in Partitioned!Ascending(S) \/ s \in Plan!Ascending(S)
  PROVE  s \in Ascending(S)
BY SameOperators, Zenon DEF Partitioned!Ascending, Partitioned!Sorted, Plan!Ascending, Plan!Sorted, Ascending, Sorted,
       Partitioned!Bijection, Plan!Bijection, Bijection, Partitioned!Injection, Plan!Injection, Injection,
       Partitioned!Surjection, Plan!Surjection, Surjection, Partitioned!IsInjective, Plan!IsInjective, IsInjective

LEMMA PushReplacesLast ==
  ASSUME NEW S, NEW s \in Seq(S), s # <<>>, NEW T, NEW t \in Seq(T)
  PROVE  /\ Last(s) \in Range(s)
         /\ Front(s) \o t \in Seq(S \cup T)
         /\ (Range(s) \ {Last(s)}) \cup Range(t) \subseteq Range(Front(s) \o t)
         /\ Range(Front(s) \o t) \subseteq Range(s) \cup Range(t)
<1> DEFINE n == Len(s) - 1
           f == Front(s)
<1>1. n \in Nat /\ n + 1 \in DOMAIN s /\ DOMAIN s = 1..(n + 1)
  OBVIOUS
<1>2. f \in Seq(S) /\ Len(f) = n /\ \A i \in 1..n : f[i] = s[i]
  <2>1. Len(s) \in Nat /\ 1 \in 1..(Len(s) + 1) /\ n \in (1 - 1)..Len(s)
    BY <1>1
  <2> QED
    BY <2>1, SubSeqProperties, <1>1 DEF Front
<1> HIDE DEF f, n
<1>3. f \in Seq(S \cup T) /\ t \in Seq(S \cup T)
  BY <1>2, SeqMonotonic
<1>4. /\ f \o t \in Seq(S \cup T) /\ Len(f \o t) = n + Len(t)
      /\ \A i \in 1..(n + Len(t)) : (f \o t)[i] = IF i <= n THEN s[i] ELSE t[i - n]
  BY <1>1, <1>2, <1>3, ConcatProperties
<1>5. Last(s) = s[n + 1]
  BY DEF Last, n
<1>6. Len(t) \in Nat /\ DOMAIN t = 1..Len(t)
  OBVIOUS
<1>7. DOMAIN (f \o t) = 1..(n + Len(t))
  BY <1>4
<1>8. ASSUME NEW x \in Range(s) \ {Last(s)} PROVE x \in Range(f \o t)
  <2>1. PICK i \in 1..(n + 1) : s[i] = x
    BY <1>1 DEF Range
  <2>2. i \in 1..n /\ i \in 1..(n + Len(t))
    BY <1>1, <1>5, <1>6, <1>8, <2>1
  <2>3. (f \o t)[i] = x
    BY <1>4, <2>1, <2>2
  <2> QED
    BY <1>7, <2>2, <2>3 DEF Range
<1>9. ASSUME NEW x \in Range(t) PROVE x \in Range(f \o t)
  <2>1. PICK i \in 1..Len(t) : t[i] = x
    BY <1>6, <1>9 DEF Range
  <2>2. n + i \in 1..(n + Len(t)) /\ ~(n + i <= n) /\ (n + i) - n = i
    BY <1>1, <1>6, <2>1
  <2>3. (f \o t)[n + i] = x
    BY <1>4, <2>1, <2>2
  <2> QED
    BY <1>7, <2>2, <2>3 DEF Range
<1>a. ASSUME NEW x \in Range(f \o t) PROVE x \in Range(s) \cup Range(t)
  <2>1. PICK i \in 1..(n + Len(t)) : (f \o t)[i] = x
    BY <1>7, <1>a DEF Range
  <2>2. CASE i <= n
    <3>1. i \in DOMAIN s /\ s[i] = x
      BY <1>1, <1>4, <2>1, <2>2
    <3> QED
      BY <3>1 DEF Range
  <2>3. CASE ~(i <= n)
    <3>1. i - n \in 1..Len(t)
      BY <1>1, <1>6, <2>1, <2>3
    <3>2. t[i - n] = x
      BY <1>4, <2>1, <2>3
    <3> QED
      BY <1>6, <3>1, <3>2 DEF Range
  <2> QED
    BY <2>2, <2>3
<1>b. Last(s) \in Range(s)
  BY <1>1, <1>5 DEF Range
<1> QED
  BY <1>4, <1>8, <1>9, <1>a, <1>b DEF f

----------------------------------------------------------------------------
(* Sets of files and the dependencies between them.                        *)

Shape == nodes \in {1..n : n \in 0..MaxFiles} /\ depends \in [nodes -> SUBSET nodes] /\ hubs \subseteq nodes

LEMMA CouplingIsMutual ==
  ASSUME Shape, NEW f \in Plain
  PROVE  /\ Coupled(f) \subseteq Plain
         /\ \A g \in Plain : g \in Coupled(f) => f \in Coupled(g)
BY DEF Shape, Plain, Coupled, Partitioned!Neighbours, Partitioned!Dependents

LEMMA NoneEnters ==
  ASSUME Shape, NEW X \in SUBSET Plain, NoneLeaves(X)
  PROVE  NoneLeaves(Plain \ X)
<1> SUFFICES ASSUME NEW f \in Plain \ X, NEW g \in Coupled(f) PROVE g \in Plain \ X
  BY DEF NoneLeaves
<1>1. g \in Plain /\ f \in Coupled(g)
  BY CouplingIsMutual
<1> QED
  BY <1>1 DEF NoneLeaves

\* What joins one member stays with all of them.
LEMMA UndividedGrows ==
  ASSUME Shape, NEW C \in SUBSET Plain, Undivided(C), NEW h \in C, NEW new \in SUBSET Coupled(h)
  PROVE  Undivided(C \cup new)
<1> SUFFICES ASSUME NEW X \in SUBSET Plain, NoneLeaves(X)
             PROVE  C \cup new \subseteq X \/ (C \cup new) \cap X = {}
  BY DEF Undivided
<1>1. CASE C \subseteq X
  BY <1>1 DEF NoneLeaves
<1>2. CASE C \cap X = {}
  <2>1. NoneLeaves(Plain \ X)
    BY NoneEnters
  <2>2. h \in Plain \ X
    BY <1>2
  <2> QED
    BY <1>2, <2>1, <2>2 DEF NoneLeaves
<1> QED
  BY <1>1, <1>2 DEF Undivided

----------------------------------------------------------------------------
(* The steps of the partitioning.                                          *)

SplitSoundly == Partitioned!Disjoint /\ Partitioned!Cohesive /\ Partitioned!Ranked
NothingToSplit ==
  /\ stage = "done" /\ nodes = {}
  /\ result = [Partitioned!NoResult EXCEPT !.degrades = TRUE, !.reason = "empty"]

LEMMA NothingIsSplitSoundly == NothingToSplit => SplitSoundly
<1> SUFFICES ASSUME NothingToSplit PROVE SplitSoundly
  OBVIOUS
<1>1. /\ result.partitions = <<>> /\ result.parallelism = 0 /\ result.degrades = TRUE
      /\ 1..Len(result.partitions) = {} /\ Range(result.partitions) = {}
  BY DEF NothingToSplit, Partitioned!NoResult, Range
<1>2. Cardinality({i \in 1..Len(result.partitions) : result.partitions[i].kind = "component"}) = 0
  BY <1>1, FS_EmptySet
<1>3. Partitioned!Disjoint
  BY <1>1, SameOperators DEF Partitioned!Disjoint, NothingToSplit
<1>4. Partitioned!Cohesive
  BY <1>1, SameOperators DEF Partitioned!Cohesive
<1>5. Partitioned!Ranked
  BY <1>1, <1>2, SameOperators DEF Partitioned!Ranked
<1> QED
  BY <1>3, <1>4, <1>5 DEF SplitSoundly

LEMMA UnfinishedIsSound ==
  stage # "done" => SplitSoundly
BY DEF SplitSoundly, Partitioned!Disjoint, Partitioned!Cohesive, Partitioned!Ranked

LEMMA PartInitial == Partitioned!Init => PartInv
BY UnfinishedIsSound DEF Partitioned!Init, PartInv, Plain, SplitSoundly

LEMMA ShapeHolds == PartInv => Shape
BY DEF PartInv, Shape

LEMMA FilesAreNumbers ==
  ASSUME PartsAssumption, Shape
  PROVE  nodes \in SUBSET Nat /\ IsFiniteSet(nodes) /\ Cardinality(nodes) <= MaxFiles /\ Cardinality(nodes) \in Nat
<1>1. PICK n \in 0..MaxFiles : nodes = 1..n
  BY DEF Shape
<1>2. n \in Nat /\ n <= MaxFiles
  BY DEF PartsAssumption, Partitioned!PartitionAssumption
<1>3. IsFiniteSet(1..n) /\ Cardinality(1..n) = n
  BY <1>2, FS_Interval
<1> QED
  BY <1>1, <1>2, <1>3

LEMMA GraphStays ==
  ASSUME UNCHANGED <<nodes, depends, opts, hubs>>
  PROVE  /\ \A f : Coupled(f)' = Coupled(f) /\ Partitioned!IsHub(f)' = Partitioned!IsHub(f)
         /\ \A X : NoneLeaves(X)' = NoneLeaves(X) /\ Undivided(X)' = Undivided(X)
         /\ Plain' = Plain
         /\ hubs = {f \in nodes : Partitioned!IsHub(f)} => hubs' = {f \in nodes' : Partitioned!IsHub(f)'}
<1>1. \A f : Coupled(f)' = Coupled(f) /\ Partitioned!IsHub(f)' = Partitioned!IsHub(f)
  BY DEF Coupled, Partitioned!Neighbours, Partitioned!Dependents, Partitioned!IsHub
<1>2. \A X : NoneLeaves(X)' = NoneLeaves(X)
  BY <1>1 DEF NoneLeaves
<1>3. \A X : Undivided(X)' = Undivided(X)
  BY <1>2 DEF Undivided, Plain
<1>4. Plain' = Plain
  BY DEF Plain
<1>5. {f \in nodes' : Partitioned!IsHub(f)'} = {f \in nodes : Partitioned!IsHub(f)}
  BY <1>1
<1> QED
  BY <1>1, <1>2, <1>3, <1>4, <1>5

LEMMA FindHubsStep == PartInv /\ Partitioned!FindHubs => PartInv'
<1> SUFFICES ASSUME PartInv, Partitioned!FindHubs PROVE PartInv'
  OBVIOUS
<1>1. /\ stage' = "seed" /\ nodes' = nodes /\ depends' = depends /\ opts' = opts
      /\ hubs' = {f \in nodes : Partitioned!IsHub(f)} /\ unseen' = nodes \ hubs'
      /\ component' = {} /\ components' = <<>> /\ stack' = <<>>
  BY DEF PartInv, Partitioned!FindHubs
<1>2. \A f : Partitioned!IsHub(f)' = Partitioned!IsHub(f)
  BY <1>1 DEF Partitioned!IsHub, Partitioned!Dependents
<1>3. hubs' = {f \in nodes : Partitioned!IsHub(f)'}
  BY <1>1, <1>2
<1>4. GrowInv'
  BY <1>1 DEF GrowInv, Plain, Undivided, Range
<1>5. (Partitioned!Disjoint /\ Partitioned!Cohesive /\ Partitioned!Ranked)'
  BY <1>1 DEF Partitioned!Disjoint, Partitioned!Cohesive, Partitioned!Ranked
<1> QED
  BY <1>1, <1>3, <1>4, <1>5 DEF PartInv, Plain

LEMMA SeedStep ==
  ASSUME PartsAssumption, PartInv, Partitioned!Seed
  PROVE  PartInv'
<1>1. /\ stage = "seed" /\ stage' = "grow" /\ component = {}
      /\ nodes' = nodes /\ depends' = depends /\ opts' = opts /\ hubs' = hubs /\ components' = components
  BY DEF PartInv, Partitioned!Seed
<1>2. PICK first : first = Min(unseen) /\ unseen' = unseen \ {first} /\ stack' = <<first>> /\ component' = {first}
  BY SameOperators DEF Partitioned!Seed
<1>3. first \in unseen
  <2>1. unseen \in SUBSET Nat /\ unseen # {}
    BY ShapeHolds, FilesAreNumbers DEF PartInv, Plain, Partitioned!Seed
  <2> QED
    BY <1>2, <2>1, LeastIsMember
<1>4. GrowInv /\ hubs = {f \in nodes : Partitioned!IsHub(f)}
  BY <1>1 DEF PartInv
<1>5. UNCHANGED <<nodes, depends, opts, hubs>>
  BY <1>1
<1>6. \A X : NoneLeaves(X)' = NoneLeaves(X) /\ Undivided(X)' = Undivided(X)
  BY <1>5, GraphStays
<1>7. Undivided({first})
  BY DEF Undivided
<1>8. Range(stack') = {first}
  BY <1>2 DEF Range
<1>9. GrowInv'
  <2>1. (unseen \cup component \cup UNION Range(components) = Plain)'
    BY <1>1, <1>2, <1>3, <1>4 DEF GrowInv, Plain
  <2>2. \A i \in DOMAIN components : components[i] \cap (unseen' \cup component') = {}
    BY <1>1, <1>2, <1>3, <1>4 DEF GrowInv
  <2> QED
    BY <1>1, <1>2, <1>4, <1>6, <1>7, <1>8, <2>1, <2>2 DEF GrowInv
<1>b. hubs' = {f \in nodes' : Partitioned!IsHub(f)'}
  BY <1>4, <1>5, GraphStays
<1>c. (Partitioned!Disjoint /\ Partitioned!Cohesive /\ Partitioned!Ranked)'
  BY <1>1 DEF Partitioned!Disjoint, Partitioned!Cohesive, Partitioned!Ranked
<1>d. unseen' \subseteq Plain' /\ component' \subseteq Plain' /\ stack' \in Seq(component')
  BY <1>1, <1>2, <1>3 DEF PartInv, Plain
<1> QED
  BY <1>1, <1>9, <1>b, <1>c, <1>d DEF PartInv, Plain

LEMMA GrowStep ==
  ASSUME PartsAssumption, PartInv, Partitioned!Grow
  PROVE  PartInv'
<1> DEFINE top == Last(stack)
           new == Coupled(top) \cap unseen
<1>1. /\ stage = "grow" /\ stage' = "grow" /\ stack # <<>>
      /\ nodes' = nodes /\ depends' = depends /\ opts' = opts /\ hubs' = hubs /\ components' = components
      /\ unseen' = unseen \ new /\ component' = component \cup new
  BY SameOperators DEF Partitioned!Grow, Coupled
<1>2. PICK pushed \in Ascending(new) : stack' = Front(stack) \o pushed
  BY SameOperators, SortingIsShared DEF Partitioned!Grow, Coupled
<1>3. GrowInv /\ hubs = {f \in nodes : Partitioned!IsHub(f)}
  BY <1>1 DEF PartInv
<1>4. Shape /\ unseen \subseteq Plain /\ component \subseteq Plain /\ stack \in Seq(component)
  BY ShapeHolds DEF PartInv
<1>5. pushed \in Seq(new) /\ Range(pushed) = new
  <2>1. new \in SUBSET Nat /\ IsFiniteSet(new)
    BY <1>4, FilesAreNumbers, FS_Subset DEF Plain
  <2> QED
    BY <1>2, <2>1, AscendingListsAll
<1>6. /\ top \in Range(stack)
      /\ stack' \in Seq(component')
      /\ (Range(stack) \ {top}) \cup new \subseteq Range(stack')
  BY <1>1, <1>2, <1>4, <1>5, PushReplacesLast
<1>7. top \in component
  BY <1>4, <1>6 DEF Range
<1> HIDE DEF top
<1>8. \A i \in DOMAIN components : components[i] \cap Coupled(top) = {}
  <2> SUFFICES ASSUME NEW i \in DOMAIN components, NEW g \in Coupled(top), g \in components[i] PROVE FALSE
    OBVIOUS
  <2>1. top \in Coupled(g)
    BY <1>4, <1>7, CouplingIsMutual
  <2> QED
    BY <1>3, <1>7, <2>1 DEF GrowInv, NoneLeaves
<1>9. Coupled(top) \subseteq component'
  <2>1. Coupled(top) \subseteq Plain
    BY <1>4, <1>7, CouplingIsMutual
  <2>2. Coupled(top) \subseteq unseen \cup component
    BY <1>3, <1>8, <2>1 DEF GrowInv, Range
  <2> QED
    BY <1>1, <2>2
<1>a. Undivided(component')
  BY <1>1, <1>3, <1>4, <1>7, UndividedGrows DEF GrowInv
<1>b. /\ \A X : NoneLeaves(X)' = NoneLeaves(X) /\ Undivided(X)' = Undivided(X)
      /\ \A f : Coupled(f)' = Coupled(f)
      /\ Plain' = Plain /\ hubs' = {f \in nodes' : Partitioned!IsHub(f)'}
  BY <1>1, <1>3, GraphStays
<1>c. \A f \in component' \ Range(stack') : Coupled(f) \subseteq component'
  <2> SUFFICES ASSUME NEW f \in component' \ Range(stack') PROVE Coupled(f) \subseteq component'
    OBVIOUS
  <2>1. CASE f = top
    BY <1>9, <2>1
  <2>2. CASE f # top
    <3>1. f \in component \ Range(stack)
      BY <1>1, <1>6, <2>2
    <3> QED
      BY <1>1, <1>3, <3>1 DEF GrowInv
  <2> QED
    BY <2>1, <2>2
<1>d. GrowInv'
  <2>1. unseen' \cup component' = unseen \cup component
    BY <1>1
  <2>2. unseen' \cap component' = {}
    BY <1>1, <1>3 DEF GrowInv
  <2>3. (unseen \cup component \cup UNION Range(components) = Plain)'
    BY <1>1, <1>3, <1>b, <2>1 DEF GrowInv
  <2> QED
    BY <1>1, <1>3, <1>a, <1>b, <1>c, <2>1, <2>2, <2>3 DEF GrowInv
<1>e. (Partitioned!Disjoint /\ Partitioned!Cohesive /\ Partitioned!Ranked)'
  BY <1>1 DEF Partitioned!Disjoint, Partitioned!Cohesive, Partitioned!Ranked
<1>f. unseen' \subseteq Plain' /\ component' \subseteq Plain'
  BY <1>1, <1>4, <1>b
<1> QED
  BY <1>1, <1>6, <1>b, <1>d, <1>e, <1>f DEF PartInv

LEMMA CloseStep ==
  ASSUME PartInv, Partitioned!Close
  PROVE  PartInv'
<1>1. /\ stage = "grow" /\ stage' = "seed" /\ stack = <<>> /\ stack' = <<>>
      /\ nodes' = nodes /\ depends' = depends /\ opts' = opts /\ hubs' = hubs
      /\ components' = Append(components, component) /\ component' = {} /\ unseen' = unseen
  BY DEF Partitioned!Close
<1>2. GrowInv /\ hubs = {f \in nodes : Partitioned!IsHub(f)}
  BY <1>1 DEF PartInv
<1>3. /\ \A X : NoneLeaves(X)' = NoneLeaves(X) /\ Undivided(X)' = Undivided(X)
      /\ Plain' = Plain /\ hubs' = {f \in nodes' : Partitioned!IsHub(f)'}
  BY <1>1, <1>2, GraphStays
<1>4. Range(stack) = {}
  BY <1>1 DEF Range
<1>5. NoneLeaves(component) /\ Undivided(component)
  BY <1>2, <1>4 DEF GrowInv, NoneLeaves
<1> DEFINE n == Len(components)
<1>6. /\ components \in Seq(SUBSET Plain) /\ component \in SUBSET Plain
      /\ n \in Nat /\ DOMAIN components = 1..n
  BY DEF PartInv
<1>7. /\ components' \in Seq(SUBSET Plain') /\ DOMAIN components' = 1..(n + 1)
      /\ \A i \in 1..n : components'[i] = components[i]
      /\ components'[n + 1] = component
  BY <1>1, <1>3, <1>6
<1> HIDE DEF n
<1>8. \A i \in 1..(n + 1) : i \in 1..n \/ i = n + 1
  BY <1>6
<1>9. UNION Range(components') = (UNION Range(components)) \cup component
  <2>1. \A i \in 1..n : i \in 1..(n + 1)
    BY <1>6
  <2>2. n + 1 \in 1..(n + 1)
    BY <1>6
  <2>3. Range(components') = Range(components) \cup {component}
    BY <1>6, <1>7, <1>8, <2>1, <2>2, Zenon DEF Range
  <2> QED
    BY <2>3
<1>a. GrowInv'
  <2>1. \A i \in 1..n : /\ components[i] \cap (unseen \cup component) = {}
                        /\ NoneLeaves(components[i]) /\ Undivided(components[i])
    BY <1>2, <1>6 DEF GrowInv
  <2>2. unseen \cap component = {} /\ unseen \cup component \cup UNION Range(components) = Plain
    BY <1>2 DEF GrowInv
  <2>3. \A i \in 1..(n + 1) :
          /\ components'[i] \cap unseen = {} /\ NoneLeaves(components'[i]) /\ Undivided(components'[i])
    BY <1>5, <1>7, <1>8, <2>1, <2>2
  <2>4. \A i, j \in 1..n : i # j => components[i] \cap components[j] = {}
    BY <1>2, <1>6 DEF GrowInv
  <2>5. \A i, j \in 1..(n + 1) : i # j => components'[i] \cap components'[j] = {}
    BY <1>7, <1>8, <2>1, <2>4
  <2>6. Undivided({})
    BY DEF Undivided
  <2> QED
    BY <1>1, <1>3, <1>7, <1>9, <2>2, <2>3, <2>5, <2>6 DEF GrowInv
<1>b. (Partitioned!Disjoint /\ Partitioned!Cohesive /\ Partitioned!Ranked)'
  BY <1>1 DEF Partitioned!Disjoint, Partitioned!Cohesive, Partitioned!Ranked
<1>c. unseen' \subseteq Plain' /\ component' \subseteq Plain' /\ stack' \in Seq(component')
  BY <1>1, <1>3 DEF PartInv
<1> QED
  BY <1>1, <1>3, <1>7, <1>a, <1>b, <1>c DEF PartInv

----------------------------------------------------------------------------
(* What is reached by iteration is what no dependency leaves.              *)

Joining(f, after) ==
  /\ after \in [0..MaxFiles -> SUBSET Plain]
  /\ after[0] = {f}
  /\ \A n \in 1..MaxFiles :
       after[n] = after[n - 1] \cup {g \in Plain : \E h \in after[n - 1] : g \in Coupled(h)}

LEMMA ConnectedIsJoined ==
  ASSUME PartsAssumption, NEW f \in Plain
  PROVE  \E after : Joining(f, after) /\ Partitioned!Connected(f) = after[MaxFiles]
<1> DEFINE N == MaxFiles
           More(S) == S \cup {g \in Plain : \E h \in S : g \in Coupled(h)}
           next == [e \in (1..N) \X SUBSET Plain |-> More(e[2])]
           Is(a) == a = [n \in 0..N |-> IF n = 0 THEN {f} ELSE More(a[n - 1])]
<1>1. N \in Nat /\ {f} \in SUBSET Plain
  BY DEF PartsAssumption, Partitioned!PartitionAssumption
<1>2. Step(next, N, SUBSET Plain)
  <2>1. \A S \in SUBSET Plain : More(S) \in SUBSET Plain
    OBVIOUS
  <2> HIDE DEF More
  <2> QED
    BY <2>1 DEF Step
<1>3. Partitioned!Connected(f) = (CHOOSE a : Is(a))[N]
  BY DEF Partitioned!Connected, Partitioned!Joined, Coupled, Plain
<1> HIDE DEF More
<1>4. PICK b : Iterates(b, N, SUBSET Plain, {f}, next)
  <2> HIDE DEF next, N
  <2> QED
    BY <1>1, <1>2, Recursion
<1>5. Is(b)
  <2>1. b \in [0..N -> SUBSET Plain] /\ b[0] = {f}
    BY <1>4 DEF Iterates
  <2>2. \A n \in 1..N : b[n] = More(b[n - 1])
    <3> SUFFICES ASSUME NEW n \in 1..N PROVE b[n] = More(b[n - 1])
      OBVIOUS
    <3>1. n - 1 \in 0..N
      BY <1>1
    <3>2. <<n, b[n - 1]>> \in (1..N) \X SUBSET Plain
      BY <2>1, <3>1
    <3>3. next[<<n, b[n - 1]>>] = More(b[n - 1])
      BY <3>2
    <3> QED
      BY <1>4, <3>3 DEF Iterates
  <2>3. b = [n \in 0..N |-> b[n]]
    BY <2>1
  <2>4. \A n \in 0..N : b[n] = IF n = 0 THEN {f} ELSE More(b[n - 1])
    BY <1>1, <2>1, <2>2
  <2> QED
    BY <2>3, <2>4, Zenon
<1> DEFINE a == CHOOSE c : Is(c)
<1>6. Is(a)
  BY <1>5
<1> HIDE DEF a
<1>7. \A n \in 0..N : a[n] = IF n = 0 THEN {f} ELSE More(a[n - 1])
  BY <1>6
<1>8. a[0] = {f} /\ \A n \in 1..N : a[n] = More(a[n - 1])
  BY <1>1, <1>7
<1>9. DOMAIN a = 0..N /\ a = [n \in 0..N |-> a[n]]
  BY <1>6
<1>a. \A n \in 0..N : a[n] \in SUBSET Plain
  <2> DEFINE I == {n \in Nat : n <= N => a[n] \in SUBSET Plain}
  <2>1. 0 \in I
    BY <1>1, <1>8
  <2>2. ASSUME NEW n \in I PROVE n + 1 \in I
    <3> SUFFICES ASSUME n + 1 <= N PROVE a[n + 1] \in SUBSET Plain
      BY <2>2
    <3>1. n + 1 \in 1..N /\ (n + 1) - 1 = n /\ a[n] \in SUBSET Plain
      BY <1>1, <2>2
    <3>2. a[n + 1] = More(a[n])
      BY <1>8, <3>1
    <3> QED
      BY <3>1, <3>2 DEF More
  <2> HIDE DEF I
  <2>3. I = Nat
    BY <2>1, <2>2, Induction DEF I
  <2> QED
    BY <1>1, <2>3 DEF I
<1>b. Joining(f, a)
  BY <1>8, <1>9, <1>a DEF Joining, More
<1> QED
  BY <1>3, <1>b DEF a

LEMMA ConnectedIsLeast ==
  ASSUME PartsAssumption, Shape, NEW f \in Plain
  PROVE  /\ f \in Partitioned!Connected(f)
         /\ Partitioned!Connected(f) \subseteq Plain
         /\ NoneLeaves(Partitioned!Connected(f))
         /\ \A X : f \in X /\ NoneLeaves(X) => Partitioned!Connected(f) \subseteq X
<1>1. PICK after : Joining(f, after) /\ Partitioned!Connected(f) = after[MaxFiles]
  BY ConnectedIsJoined
<1>2. MaxFiles \in Nat
  BY DEF PartsAssumption, Partitioned!PartitionAssumption
<1>3. \A n \in 0..MaxFiles : after[n] \subseteq Plain /\ IsFiniteSet(after[n]) /\ Cardinality(after[n]) \in Nat
  BY <1>1, FilesAreNumbers, FS_Subset, FS_CardinalityType DEF Joining, Plain
<1>4. \A n \in 1..MaxFiles : after[n - 1] \subseteq after[n]
  BY <1>1 DEF Joining
\* No iteration leads out of a set that none leaves.
<1>5. ASSUME NEW X, f \in X, NoneLeaves(X) PROVE \A n \in 0..MaxFiles : after[n] \subseteq X
  <2> DEFINE I == {n \in Nat : n <= MaxFiles => after[n] \subseteq X}
  <2>1. 0 \in I
    BY <1>1, <1>2, <1>5 DEF Joining
  <2>2. ASSUME NEW n \in I PROVE n + 1 \in I
    <3> SUFFICES ASSUME n + 1 <= MaxFiles PROVE after[n + 1] \subseteq X
      BY <2>2
    <3>1. n + 1 \in 1..MaxFiles /\ (n + 1) - 1 = n /\ after[n] \subseteq X
      BY <1>2, <2>2
    <3>2. after[n + 1] = after[n] \cup {g \in Plain : \E h \in after[n] : g \in Coupled(h)}
      BY <1>1, <3>1 DEF Joining
    <3> QED
      BY <1>5, <3>1, <3>2 DEF NoneLeaves
  <2> HIDE DEF I
  <2>3. I = Nat
    BY <2>1, <2>2, Induction DEF I
  <2> QED
    BY <2>3 DEF I
\* Each iteration adds a file, or there was none to be added.
<1>6. \A n \in 0..MaxFiles : f \in after[n] /\ (NoneLeaves(after[n]) \/ Cardinality(after[n]) >= n + 1)
  <2> DEFINE I == {n \in Nat : n <= MaxFiles =>
                     f \in after[n] /\ (NoneLeaves(after[n]) \/ Cardinality(after[n]) >= n + 1)}
  <2>1. 0 \in I
    <3>1. after[0] = {f} /\ Cardinality({f}) = 1
      BY <1>1, FS_Singleton DEF Joining
    <3> QED
      BY <3>1
  <2>2. ASSUME NEW n \in I PROVE n + 1 \in I
    <3> SUFFICES ASSUME n + 1 <= MaxFiles
                 PROVE  f \in after[n + 1] /\ (NoneLeaves(after[n + 1]) \/ Cardinality(after[n + 1]) >= (n + 1) + 1)
      BY <2>2
    <3>1. /\ n \in Nat /\ n \in 0..MaxFiles /\ n + 1 \in 0..MaxFiles /\ n + 1 \in 1..MaxFiles /\ (n + 1) - 1 = n
          /\ f \in after[n] /\ (NoneLeaves(after[n]) \/ Cardinality(after[n]) >= n + 1)
      BY <1>2, <2>2
    <3>2. after[n + 1] = after[n] \cup {g \in Plain : \E h \in after[n] : g \in Coupled(h)}
      BY <1>1, <3>1 DEF Joining
    <3>3. CASE NoneLeaves(after[n])
      <4>1. after[n + 1] = after[n]
        BY <3>2, <3>3 DEF NoneLeaves
      <4> QED
        BY <3>1, <3>3, <4>1
    <3>4. CASE ~NoneLeaves(after[n])
      <4>1. PICK h \in after[n] : \E g \in Coupled(h) : g \notin after[n]
        BY <3>4 DEF NoneLeaves
      <4>2. PICK g \in Coupled(h) : g \notin after[n]
        BY <4>1
      <4>3. g \in Plain
        BY <1>3, <3>1, <4>2, CouplingIsMutual
      <4>4. after[n] \cup {g} \subseteq after[n + 1]
        BY <3>2, <4>2, <4>3
      <4>5. Cardinality(after[n] \cup {g}) = Cardinality(after[n]) + 1
        BY <1>3, <3>1, <4>2, FS_AddElement
      <4>6. Cardinality(after[n] \cup {g}) <= Cardinality(after[n + 1])
        BY <1>3, <3>1, <4>4, FS_Subset
      <4>7. Cardinality(after[n + 1]) >= (n + 1) + 1
        BY <1>3, <3>1, <3>4, <4>5, <4>6
      <4> QED
        BY <3>1, <4>4, <4>7
    <3> QED
      BY <3>3, <3>4
  <2> HIDE DEF I
  <2>3. I = Nat
    BY <2>1, <2>2, Induction DEF I
  <2> QED
    BY <2>3 DEF I
<1>7. NoneLeaves(after[MaxFiles])
  <2>1. MaxFiles \in 0..MaxFiles
    BY <1>2
  <2>2. /\ IsFiniteSet(nodes) /\ after[MaxFiles] \subseteq nodes
        /\ Cardinality(nodes) <= MaxFiles /\ Cardinality(nodes) \in Nat
    BY <1>3, <2>1, FilesAreNumbers DEF Plain
  <2>3. Cardinality(after[MaxFiles]) <= Cardinality(nodes) /\ Cardinality(after[MaxFiles]) \in Nat
    BY <1>3, <2>1, <2>2, FS_Subset
  <2>4. ~(Cardinality(after[MaxFiles]) >= MaxFiles + 1)
    BY <1>2, <2>2, <2>3
  <2> QED
    BY <1>6, <2>1, <2>4
<1> QED
  BY <1>1, <1>2, <1>3, <1>5, <1>6, <1>7

----------------------------------------------------------------------------
(* What is returned.                                                       *)

\* The files of the groups in one order and those of the hubs in another.
Listed(ps, jobs, byRank, ranked) ==
  /\ Len(ps) = jobs + Cardinality(hubs)
  /\ \A i \in 1..jobs : ps[i] = [kind |-> "component", files |-> components[byRank[i]]]
  /\ \A i \in 1..Cardinality(hubs) : ps[jobs + i] = [kind |-> "hub", files |-> {ranked[i]}]

Ranking(jobs, byRank, ranked) ==
  /\ byRank \in [1..jobs -> 1..jobs]
  /\ \A i, j \in 1..jobs : byRank[i] = byRank[j] => i = j
  /\ \A k \in 1..jobs : \E i \in 1..jobs : byRank[i] = k
  /\ \A i, j \in 1..jobs : i < j => Partitioned!Larger(components[byRank[i]], components[byRank[j]])
  /\ ranked \in [1..Cardinality(hubs) -> hubs]
  /\ \A i, j \in 1..Cardinality(hubs) : ranked[i] = ranked[j] => i = j
  /\ \A f \in hubs : \E i \in 1..Cardinality(hubs) : ranked[i] = f
  /\ \A i, j \in 1..Cardinality(hubs) : i < j => Partitioned!HubFirst(ranked[i], ranked[j])

LEMMA RankIsListing ==
  ASSUME PartsAssumption, PartInv, Partitioned!Rank
  PROVE  /\ Cardinality(hubs) \in Nat /\ Len(components) \in Nat
         /\ \E byRank, ranked :
              /\ Ranking(Len(components), byRank, ranked)
              /\ Listed(result'.partitions, Len(components), byRank, ranked)
         /\ result'.parallelism = Len(components) /\ (result'.degrades <=> Len(components) <= 1)
         /\ result'.partitions \in Seq([kind : {"component", "hub"}, files : SUBSET nodes])
<1> DEFINE jobs == Len(components)
           c == Cardinality(hubs)
<1>1. jobs \in Nat /\ DOMAIN components = 1..jobs /\ Cardinality(1..jobs) = jobs
  <2>1. jobs \in Nat /\ DOMAIN components = 1..jobs
    BY DEF PartInv
  <2> HIDE DEF jobs
  <2>2. Cardinality(1..jobs) = IF 1 > jobs THEN 0 ELSE jobs - 1 + 1
    BY <2>1, FS_Interval
  <2> QED
    BY <2>1, <2>2
<1>2. c \in Nat
  <2>1. IsFiniteSet(hubs)
    BY ShapeHolds, FilesAreNumbers, FS_Subset DEF PartInv
  <2> QED
    BY <2>1, FS_CardinalityType
<1> DEFINE Of(byRank, ranked) ==
             [partitions |->
                [i \in 1..jobs |-> [kind |-> "component", files |-> components[byRank[i]]]]
                \o [i \in 1..Len(ranked) |-> [kind |-> "hub", files |-> {ranked[i]}]],
              degrades |-> jobs <= 1,
              reason |-> CASE jobs = 0 -> "empty" [] jobs = 1 -> "coupled" [] OTHER -> "none",
              parallelism |-> jobs]
           Orders == Partitioned!Sorted(DOMAIN components, LAMBDA i, j : Partitioned!Larger(components[i], components[j]))
           HubOrders == Partitioned!Sorted(hubs, Partitioned!HubFirst)
<1>3. \E byRank \in Orders : \E ranked \in HubOrders : result' = Of(byRank, ranked)
  BY Zenon DEF Partitioned!Rank
<1>4. \A byRank \in Orders :
        /\ byRank \in [1..jobs -> 1..jobs]
        /\ \A i, j \in 1..jobs : byRank[i] = byRank[j] => i = j
        /\ \A k \in 1..jobs : \E i \in 1..jobs : byRank[i] = k
        /\ \A i, j \in 1..jobs : i < j => Partitioned!Larger(components[byRank[i]], components[byRank[j]])
  <2> HIDE DEF jobs
  <2> SUFFICES ASSUME NEW byRank, byRank \in Orders
               PROVE  /\ byRank \in [1..jobs -> 1..jobs]
                      /\ \A i, j \in 1..jobs : byRank[i] = byRank[j] => i = j
                      /\ \A k \in 1..jobs : \E i \in 1..jobs : byRank[i] = k
                      /\ \A i, j \in 1..jobs : i < j => Partitioned!Larger(components[byRank[i]], components[byRank[j]])
    BY Zenon
  <2>1. Partitioned!Cardinality(DOMAIN components) = jobs
    BY <1>1, SameOperators, Zenon
  <2>2. /\ byRank \in Partitioned!Bijection(1..jobs, DOMAIN components)
        /\ \A i, j \in 1..jobs : i < j => Partitioned!Larger(components[byRank[i]], components[byRank[j]])
    BY <2>1, Zenon DEF Partitioned!Sorted
  <2> HIDE DEF Orders
  <2> QED
    BY <1>1, <2>2 DEF Partitioned!Bijection, Partitioned!Injection,
       Partitioned!Surjection, Partitioned!IsInjective
<1>5. \A ranked \in HubOrders :
        /\ ranked \in [1..c -> hubs]
        /\ \A i, j \in 1..c : ranked[i] = ranked[j] => i = j
        /\ \A f \in hubs : \E i \in 1..c : ranked[i] = f
        /\ \A i, j \in 1..c : i < j => Partitioned!HubFirst(ranked[i], ranked[j])
  BY <1>2, SameOperators DEF Partitioned!Sorted, Partitioned!Bijection, Partitioned!Injection,
     Partitioned!Surjection, Partitioned!IsInjective
<1>6. PICK byRank, ranked : Ranking(jobs, byRank, ranked) /\ result' = Of(byRank, ranked)
  <2> HIDE DEF Orders, HubOrders, Of, jobs, c
  <2> QED
    BY <1>3, <1>4, <1>5 DEF Ranking, c
<1>7. result'.parallelism = jobs /\ (result'.degrades <=> jobs <= 1)
  BY <1>6
<1> HIDE DEF Orders, HubOrders, jobs, c
<1> DEFINE P == [kind : {"component", "hub"}, files : SUBSET nodes]
           A == [i \in 1..jobs |-> [kind |-> "component", files |-> components[byRank[i]]]]
           B == [i \in 1..Len(ranked) |-> [kind |-> "hub", files |-> {ranked[i]}]]
<1>8. Len(ranked) = c
  BY <1>2, <1>6 DEF Ranking, c
<1>9. A \in Seq(P) /\ Len(A) = jobs /\ \A i \in 1..jobs : A[i] = [kind |-> "component", files |-> components[byRank[i]]]
  <2>1. \A i \in 1..jobs : components[byRank[i]] \in SUBSET nodes
    <3>1. components \in Seq(SUBSET Plain) /\ \A i \in 1..jobs : byRank[i] \in DOMAIN components
      BY <1>1, <1>6 DEF Ranking, PartInv
    <3> QED
      BY <3>1 DEF Plain
  <2>2. A \in [1..jobs -> P]
    BY <2>1
  <2> HIDE DEF P
  <2> QED
    BY <1>1, <2>2
<1>a. B \in Seq(P) /\ Len(B) = c /\ \A i \in 1..c : B[i] = [kind |-> "hub", files |-> {ranked[i]}]
  <2>1. \A i \in 1..c : {ranked[i]} \in SUBSET nodes
    BY <1>6 DEF Ranking, PartInv, c
  <2>2. B \in [1..c -> P]
    BY <1>8, <2>1
  <2> HIDE DEF P
  <2> QED
    BY <1>2, <1>8, <2>2
<1>b. result'.partitions = A \o B
  BY <1>6 DEF Of
<1> HIDE DEF A, B, P
<1>c. /\ A \o B \in Seq(P) /\ Len(A \o B) = jobs + c
      /\ \A i \in 1..(jobs + c) : (A \o B)[i] = IF i <= jobs THEN A[i] ELSE B[i - jobs]
  <2>1. /\ A \o B \in Seq(P) /\ Len(A \o B) = Len(A) + Len(B)
        /\ \A i \in 1..(Len(A) + Len(B)) : (A \o B)[i] = IF i <= Len(A) THEN A[i] ELSE B[i - Len(A)]
    <3>1. A \in Seq(P) /\ B \in Seq(P)
      BY <1>9, <1>a
    <3> QED
      BY <3>1, ConcatProperties
  <2> QED
    BY <1>9, <1>a, <2>1
<1>d. Listed(result'.partitions, jobs, byRank, ranked)
  <2>1. \A i \in 1..jobs : (A \o B)[i] = [kind |-> "component", files |-> components[byRank[i]]]
    BY <1>1, <1>2, <1>9, <1>c
  <2>2. ASSUME NEW i \in 1..c PROVE (A \o B)[jobs + i] = [kind |-> "hub", files |-> {ranked[i]}]
    <3>1. jobs + i \in 1..(jobs + c) /\ ~(jobs + i <= jobs) /\ (jobs + i) - jobs = i
      BY <1>1, <1>2
    <3> QED
      BY <1>a, <1>c, <3>1
  <2> QED
    BY <1>b, <1>c, <2>1, <2>2 DEF Listed, c
<1> QED
  BY <1>1, <1>2, <1>6, <1>b, <1>7, <1>c, <1>d DEF jobs, c, P

LEMMA RankStep ==
  ASSUME PartsAssumption, PartInv, Partitioned!Rank
  PROVE  PartInv'
<1> DEFINE jobs == Len(components)
           c == Cardinality(hubs)
           ps == result'.partitions
<1>1. /\ stage = "seed" /\ stage' = "done" /\ unseen = {} /\ component = {}
      /\ UNCHANGED <<nodes, depends, opts, hubs, unseen, stack, component, components>>
  BY Zenon DEF PartInv, Partitioned!Rank
<1>2. GrowInv /\ hubs = {f \in nodes : Partitioned!IsHub(f)} /\ Shape
  BY <1>1, ShapeHolds DEF PartInv
<1>3. /\ c \in Nat /\ jobs \in Nat
      /\ result'.parallelism = jobs /\ (result'.degrades <=> jobs <= 1)
      /\ ps \in Seq([kind : {"component", "hub"}, files : SUBSET nodes])
  BY RankIsListing
<1>4. PICK byRank, ranked : Ranking(jobs, byRank, ranked) /\ Listed(ps, jobs, byRank, ranked)
  BY RankIsListing
<1>5. /\ DOMAIN components = 1..jobs /\ components \in Seq(SUBSET Plain) /\ hubs \subseteq nodes
      /\ Plain = nodes \ hubs
  BY DEF PartInv, Plain
<1>6. \A k \in 1..jobs : components[k] \subseteq Plain /\ NoneLeaves(components[k]) /\ Undivided(components[k])
  BY <1>2, <1>5 DEF GrowInv
<1>7. \A k, m \in 1..jobs : k # m => components[k] \cap components[m] = {}
  BY <1>2, <1>5 DEF GrowInv
<1>8. UNION Range(components) = Plain
  BY <1>1, <1>2 DEF GrowInv
<1> HIDE DEF jobs, c, ps
<1>9. /\ Len(ps) = jobs + c /\ DOMAIN ps = 1..(jobs + c)
      /\ \A i \in 1..jobs : ps[i] = [kind |-> "component", files |-> components[byRank[i]]]
      /\ \A i \in 1..c : ps[jobs + i] = [kind |-> "hub", files |-> {ranked[i]}]
  BY <1>3, <1>4 DEF Listed, c
<1>a. /\ \A i \in 1..jobs : ps[i].kind = "component" /\ ps[i].files = components[byRank[i]] /\ byRank[i] \in 1..jobs
      /\ \A i \in 1..c : ps[jobs + i].kind = "hub" /\ ps[jobs + i].files = {ranked[i]} /\ ranked[i] \in hubs
  <2>1. (\A i \in 1..jobs : byRank[i] \in 1..jobs) /\ (\A i \in 1..c : ranked[i] \in hubs)
    BY <1>4 DEF Ranking, c
  <2>2. ASSUME NEW i \in 1..jobs PROVE ps[i].kind = "component" /\ ps[i].files = components[byRank[i]]
    <3>1. ps[i] = [kind |-> "component", files |-> components[byRank[i]]]
      BY <1>9, Zenon
    <3> QED
      BY <3>1
  <2>3. ASSUME NEW i \in 1..c PROVE ps[jobs + i].kind = "hub" /\ ps[jobs + i].files = {ranked[i]}
    <3>1. ps[jobs + i] = [kind |-> "hub", files |-> {ranked[i]}]
      BY <1>9, Zenon
    <3> QED
      BY <3>1
  <2> QED
    BY <2>1, <2>2, <2>3
<1>b. \A i \in 1..(jobs + c) : i \in 1..jobs \/ (i - jobs \in 1..c /\ i = jobs + (i - jobs) /\ i \notin 1..jobs)
  BY <1>3
<1>c. \A i \in 1..(jobs + c) : i \notin 1..jobs =>
        ps[i].kind = "hub" /\ ps[i].files = {ranked[i - jobs]} /\ ranked[i - jobs] \in hubs
  BY <1>a, <1>b
<1>d. Partitioned!Disjoint'
  <2>1. ASSUME NEW i \in 1..(jobs + c), NEW j \in 1..(jobs + c), i # j
        PROVE  ps[i].files \cap ps[j].files = {}
    <3>1. CASE i \in 1..jobs /\ j \in 1..jobs
      <4>1. byRank[i] # byRank[j]
        BY <1>4, <2>1, <3>1 DEF Ranking
      <4> QED
        BY <1>7, <1>a, <3>1, <4>1
    <3>2. CASE i \notin 1..jobs /\ j \notin 1..jobs
      <4>1. i - jobs # j - jobs
        BY <1>3, <2>1
      <4>2. ranked[i - jobs] # ranked[j - jobs]
        BY <1>4, <1>b, <3>2, <4>1 DEF Ranking, c
      <4> QED
        BY <1>c, <3>2, <4>2
    <3>3. CASE i \in 1..jobs /\ j \notin 1..jobs
      BY <1>5, <1>6, <1>a, <1>c, <3>3
    <3>4. CASE i \notin 1..jobs /\ j \in 1..jobs
      BY <1>5, <1>6, <1>a, <1>c, <3>4
    <3> QED
      BY <3>1, <3>2, <3>3, <3>4
  <2>2. \A i \in 1..(jobs + c) : ps[i].files \subseteq nodes
    BY <1>5, <1>6, <1>a, <1>c
  <2>3. ASSUME NEW f \in nodes PROVE \E i \in 1..(jobs + c) : f \in ps[i].files
    <3>1. CASE f \in hubs
      <4>1. PICK i \in 1..c : ranked[i] = f
        BY <1>4, <3>1 DEF Ranking, c
      <4>2. jobs + i \in 1..(jobs + c)
        BY <1>3
      <4> QED
        BY <1>a, <4>1, <4>2
    <3>2. CASE f \notin hubs
      <4>1. PICK k \in 1..jobs : f \in components[k]
        BY <1>5, <1>8, <3>2 DEF Range
      <4>2. PICK i \in 1..jobs : byRank[i] = k
        BY <1>4 DEF Ranking
      <4>3. i \in 1..(jobs + c)
        BY <1>3
      <4> QED
        BY <1>a, <4>1, <4>2, <4>3
    <3> QED
      BY <3>1, <3>2
  <2>4. Range(ps) = {ps[i] : i \in 1..(jobs + c)}
    BY <1>9 DEF Range
  <2>5. UNION {p.files : p \in Range(ps)} = nodes
    <3>1. ASSUME NEW p \in Range(ps) PROVE p.files \subseteq nodes
      BY <2>2, <2>4, <3>1
    <3>2. ASSUME NEW f \in nodes PROVE \E p \in Range(ps) : f \in p.files
      BY <2>3, <2>4
    <3> QED
      BY <3>1, <3>2
  <2> QED
    BY <1>1, <1>9, <2>1, <2>5, SameOperators DEF Partitioned!Disjoint, ps
<1>e. Partitioned!Cohesive'
  <2>1. \A f : Partitioned!Connected(f)' = Partitioned!Connected(f) /\ Partitioned!Dependents(f)' = Partitioned!Dependents(f)
    BY <1>1 DEF Partitioned!Connected, Partitioned!Joined, Partitioned!Neighbours, Partitioned!Dependents
  <2>2. ASSUME NEW i \in 1..jobs, NEW f \in ps[i].files PROVE ps[i].files = Partitioned!Connected(f)
    <3> DEFINE C == components[byRank[i]]
               D == Partitioned!Connected(f)
    <3>1. f \in C /\ ps[i].files = C /\ C \subseteq Plain /\ NoneLeaves(C) /\ Undivided(C)
      BY <1>6, <1>a, <2>2
    <3> HIDE DEF C
    <3>2. f \in D /\ D \subseteq Plain /\ NoneLeaves(D) /\ D \subseteq C
      BY <1>2, <3>1, ConnectedIsLeast
    <3> HIDE DEF D
    <3>3. C \subseteq D
      BY <3>1, <3>2 DEF Undivided
    <3> QED
      BY <3>1, <3>2, <3>3 DEF D
  <2>3. ASSUME NEW i \in 1..(jobs + c), i \notin 1..jobs, NEW f \in ps[i].files
        PROVE  Partitioned!Cardinality(Partitioned!Dependents(f)) >= opts.min
    <3>1. f \in hubs
      BY <1>c, <2>3
    <3> QED
      BY <1>2, <3>1 DEF Partitioned!IsHub
  <2>4. ASSUME NEW p \in Range(ps)
        PROVE  IF p.kind = "component" THEN \A f \in p.files : p.files = Partitioned!Connected(f)
               ELSE \A f \in p.files : Partitioned!Cardinality(Partitioned!Dependents(f)) >= opts.min
    <3>1. PICK i \in 1..(jobs + c) : p = ps[i]
      BY <1>9 DEF Range
    <3>2. CASE i \in 1..jobs
      BY <1>a, <2>2, <3>1, <3>2
    <3>3. CASE i \notin 1..jobs
      BY <1>c, <2>3, <3>1, <3>3
    <3> QED
      BY <3>2, <3>3
  <2> QED
    BY <1>1, <2>1, <2>4, SameOperators DEF Partitioned!Cohesive, ps
<1>f. Partitioned!Ranked'
  <2>1. ASSUME NEW i \in 1..(jobs + c), NEW j \in 1..(jobs + c), i < j, ps[i].kind = ps[j].kind
        PROVE  IF ps[i].kind = "component"
               THEN Partitioned!Cardinality(ps[i].files) >= Partitioned!Cardinality(ps[j].files)
               ELSE \A f \in ps[i].files, g \in ps[j].files :
                      Partitioned!Cardinality(Partitioned!Dependents(f))
                        >= Partitioned!Cardinality(Partitioned!Dependents(g))
    <3>1. CASE i \in 1..jobs
      <4>1. j \in 1..jobs
        BY <1>a, <1>c, <2>1, <3>1
      <4>2. Partitioned!Larger(components[byRank[i]], components[byRank[j]])
        BY <1>4, <2>1, <3>1, <4>1 DEF Ranking
      <4>3. Cardinality(components[byRank[i]]) \in Nat /\ Cardinality(components[byRank[j]]) \in Nat
        <5>1. IsFiniteSet(components[byRank[i]]) /\ IsFiniteSet(components[byRank[j]])
          BY <1>2, <1>5, <1>6, <1>a, <3>1, <4>1, FilesAreNumbers, FS_Subset
        <5> QED
          BY <5>1, FS_CardinalityType
      <4>4. Cardinality(components[byRank[i]]) >= Cardinality(components[byRank[j]])
        BY <4>2, <4>3, SameOperators DEF Partitioned!Larger
      <4> QED
        BY <1>a, <3>1, <4>1, <4>4, SameOperators
    <3>2. CASE i \notin 1..jobs
      <4>1. j \notin 1..jobs
        BY <1>a, <1>c, <2>1, <3>2
      <4>2. i - jobs \in 1..c /\ j - jobs \in 1..c /\ i - jobs < j - jobs
        BY <1>3, <1>b, <2>1, <3>2, <4>1
      <4> DEFINE f == ranked[i - jobs]
                 g == ranked[j - jobs]
      <4>3. Partitioned!HubFirst(f, g) /\ f \in hubs /\ g \in hubs
        BY <1>4, <4>2 DEF Ranking, c
      <4>4. ps[i].files = {f} /\ ps[j].files = {g} /\ ps[i].kind = "hub"
        BY <1>c, <3>2, <4>1
      <4> HIDE DEF f, g
      <4>5. Cardinality(Partitioned!Dependents(f)) \in Nat /\ Cardinality(Partitioned!Dependents(g)) \in Nat
        <5>1. IsFiniteSet(Partitioned!Dependents(f)) /\ IsFiniteSet(Partitioned!Dependents(g))
          BY <1>2, FilesAreNumbers, FS_Subset DEF Partitioned!Dependents
        <5> QED
          BY <5>1, FS_CardinalityType
      <4>6. Cardinality(Partitioned!Dependents(f)) >= Cardinality(Partitioned!Dependents(g))
        BY <4>3, <4>5, SameOperators DEF Partitioned!HubFirst
      <4> QED
        BY <4>4, <4>6, SameOperators
    <3> QED
      BY <3>1, <3>2
  <2>2. Cardinality({i \in 1..Len(ps) : ps[i].kind = "component"}) = jobs
    <3>1. {i \in 1..Len(ps) : ps[i].kind = "component"} = 1..jobs
      BY <1>3, <1>9, <1>a, <1>c
    <3>2. Cardinality(1..jobs) = IF 1 > jobs THEN 0 ELSE jobs - 1 + 1
      BY <1>3, FS_Interval
    <3>3. Cardinality(1..jobs) = jobs
      BY <1>3, <3>2
    <3> QED
      BY <3>1, <3>3
  <2>3. \A f : Partitioned!Dependents(f)' = Partitioned!Dependents(f)
    BY <1>1 DEF Partitioned!Dependents
  <2> QED
    BY <1>1, <1>3, <1>9, <2>1, <2>2, <2>3, SameOperators DEF Partitioned!Ranked, ps
<1> QED
  BY <1>1, <1>d, <1>e, <1>f DEF PartInv, Plain

LEMMA PartStandsStill == NoPartition => PartInv
<1> SUFFICES ASSUME NoPartition PROVE PartInv
  OBVIOUS
<1>1. SplitSoundly
  BY NothingIsSplitSoundly DEF NothingToSplit, NoPartition
<1> QED
  BY <1>1, PartsAssumption DEF NoPartition, PartInv, SplitSoundly, Plain, Partitioned!PartitionAssumption

LEMMA PartStep == PartInv /\ [Partitioned!Next]_partVars => PartInv'
<1> SUFFICES ASSUME PartInv, [Partitioned!Next]_partVars PROVE PartInv'
  OBVIOUS
<1> USE PartsAssumption
<1>1. CASE Partitioned!NoFiles
  <2>1. NothingToSplit' /\ UNCHANGED <<nodes, depends, hubs, unseen, stack, component, components>>
    BY <1>1 DEF Partitioned!NoFiles, NothingToSplit, Partitioned!NoResult
  <2>2. (NothingToSplit => SplitSoundly)'
    BY NothingIsSplitSoundly, PTL
  <2>3. stage' = "done"
    BY <1>1 DEF Partitioned!NoFiles
  <2> QED
    BY <2>1, <2>2, <2>3 DEF PartInv, SplitSoundly, Plain
<1>2. CASE Partitioned!FindHubs
  BY <1>2, FindHubsStep
<1>3. CASE Partitioned!Seed
  BY <1>3, SeedStep
<1>4. CASE Partitioned!Grow
  BY <1>4, GrowStep
<1>5. CASE Partitioned!Close
  BY <1>5, CloseStep
<1>6. CASE Partitioned!Rank
  BY <1>6, RankStep
<1>7. CASE UNCHANGED partVars
  <2>1. UNCHANGED <<nodes, depends, opts, stage, hubs, unseen, stack, component, components, result>>
    BY <1>7 DEF partVars
  <2>2. /\ \A f : Coupled(f)' = Coupled(f)
        /\ \A X : NoneLeaves(X)' = NoneLeaves(X) /\ Undivided(X)' = Undivided(X)
        /\ Plain' = Plain
        /\ hubs = {f \in nodes : Partitioned!IsHub(f)} => hubs' = {f \in nodes' : Partitioned!IsHub(f)'}
    BY <2>1, GraphStays
  <2>3. GrowInv => GrowInv'
    BY <2>1, <2>2 DEF GrowInv
  <2>4. Partitioned!Disjoint'
    BY <2>1 DEF PartInv, Partitioned!Disjoint
  <2>5. Partitioned!Ranked'
    <3>1. Partitioned!Ranked /\ \A f : Partitioned!Dependents(f)' = Partitioned!Dependents(f)
      BY <2>1 DEF PartInv, Partitioned!Dependents
    <3>2. result' = result /\ stage' = stage
      BY <2>1
    <3> QED
      BY <3>1, <3>2, Zenon DEF Partitioned!Ranked
  <2>6. Partitioned!Cohesive'
    <3>1. \A f : Partitioned!Connected(f)' = Partitioned!Connected(f) /\ Partitioned!Dependents(f)' = Partitioned!Dependents(f)
      BY <2>1 DEF Partitioned!Connected, Partitioned!Joined, Partitioned!Neighbours, Partitioned!Dependents
    <3> QED
      BY <2>1, <3>1 DEF PartInv, Partitioned!Cohesive
  <2> QED
    BY <2>1, <2>2, <2>3, <2>4, <2>5, <2>6 DEF PartInv
<1> QED
  BY <1>1, <1>2, <1>3, <1>4, <1>5, <1>6, <1>7 DEF Partitioned!Next

----------------------------------------------------------------------------
(* What the planner answered.                                              *)

LEMMA ItemsOfPlan ==
  ASSUME NEW items \in Plan!PlanSet
  PROVE  /\ items \in Seq(Plan!Item) /\ Len(items) \in Nat /\ DOMAIN items = 1..Len(items)
         /\ \A i \in DOMAIN items : items[i] \in Plan!Item
<1>1. PICK n \in 0..MaxItems : items \in [1..n -> Plan!Item]
  BY DEF Plan!PlanSet
<1>2. n \in Nat
  BY PartsAssumption DEF Plan!PlanningAssumption
<1> QED
  BY <1>1, <1>2

LEMMA Flooring ==
  ASSUME NEW items \in Plan!PlanSet
  PROVE  /\ Plan!Floored(items) \in Plan!PlanSet
         /\ DOMAIN Plan!Floored(items) = DOMAIN items
         /\ \A i \in DOMAIN items : Plan!Floored(items)[i].level >= 1
<1>1. ASSUME NEW l \in Levels0
      PROVE  Plan!Max({1, l}) \in Levels0 /\ Plan!Max({1, l}) >= 1
  <2>1. l \in Nat /\ 1 \in Levels0
    BY PartsAssumption DEF Plan!PlanningAssumption
  <2>2. \E x \in {1, l} : \A y \in {1, l} : x >= y
    BY <2>1
  <2>3. Plan!Max({1, l}) \in {1, l} /\ \A y \in {1, l} : Plan!Max({1, l}) >= y
    BY <2>2 DEF Plan!Max
  <2> QED
    BY <2>1, <2>3
<1>2. PICK n \in 0..MaxItems : items \in [1..n -> Plan!Item]
  BY DEF Plan!PlanSet
<1>3. ASSUME NEW i \in 1..n
      PROVE  /\ [items[i] EXCEPT !.level = Plan!Max({1, items[i].level})] \in Plan!Item
             /\ [items[i] EXCEPT !.level = Plan!Max({1, items[i].level})].level >= 1
  <2>1. items[i] \in Plan!Item
    BY <1>2
  <2>2. Plan!Max({1, items[i].level}) \in Levels0 /\ Plan!Max({1, items[i].level}) >= 1
    BY <1>1, <2>1 DEF Plan!Item
  <2> QED
    BY <2>1, <2>2 DEF Plan!Item
<1>4. Plan!Floored(items) = [i \in 1..n |-> [items[i] EXCEPT !.level = Plan!Max({1, items[i].level})]]
  BY <1>2 DEF Plan!Floored
<1>5. Plan!Floored(items) \in [1..n -> Plan!Item]
  BY <1>3, <1>4
<1>6. \A i \in 1..n : Plan!Floored(items)[i].level >= 1
  BY <1>3, <1>4
<1> QED
  BY <1>2, <1>5, <1>6 DEF Plan!PlanSet

PartIds == Partitions \cup {NoPart}
Looked == [seen : SUBSET PartIds, bad : SUBSET PartIds]
Look(items, some, n, acc) ==
  IF n \notin some \/ items[n].part = NoPart THEN acc
  ELSE IF items[n].part \in acc.seen THEN [acc EXCEPT !.bad = @ \union {items[n].part}]
  ELSE [acc EXCEPT !.seen = @ \union {items[n].part}]
Looking(items, some, met) ==
  /\ met \in [0..Len(items) -> Looked]
  /\ met[0] = [seen |-> {}, bad |-> {}]
  /\ \A n \in 1..Len(items) : met[n] = Look(items, some, n, met[n - 1])

LEMMA LookIsTyped ==
  ASSUME NEW items \in Seq(Plan!Item), NEW some, NEW n \in 1..Len(items), NEW acc \in Looked
  PROVE  Look(items, some, n, acc) \in Looked
<1>1. items[n].part \in PartIds
  <2>1. items[n] \in Plan!Item
    OBVIOUS
  <2> QED
    BY <2>1 DEF Plan!Item, PartIds
<1>2. CASE n \notin some \/ items[n].part = NoPart
  BY <1>2 DEF Look
<1>3. CASE ~(n \notin some \/ items[n].part = NoPart) /\ items[n].part \in acc.seen
  <2>1. Look(items, some, n, acc) = [acc EXCEPT !.bad = @ \union {items[n].part}]
    BY <1>3 DEF Look
  <2> QED
    BY <1>1, <1>3, <2>1 DEF Looked
<1>4. CASE ~(n \notin some \/ items[n].part = NoPart) /\ items[n].part \notin acc.seen
  <2>1. Look(items, some, n, acc) = [acc EXCEPT !.seen = @ \union {items[n].part}]
    BY <1>4 DEF Look
  <2> QED
    BY <1>1, <1>4, <2>1 DEF Looked
<1> QED
  BY <1>2, <1>3, <1>4

LEMMA MetAgainIsLooking ==
  ASSUME NEW items \in Plan!PlanSet, NEW some
  PROVE  \E met : Looking(items, some, met) /\ Plan!MetAgain(items, some) = met[Len(items)].bad
<1> DEFINE N == Len(items)
           start == [seen |-> {}, bad |-> {}]
           F(n, acc) == Look(items, some, n, acc)
           next == [e \in (1..N) \X Looked |-> F(e[1], e[2])]
           Is(a) == a = [n \in 0..N |-> IF n = 0 THEN start ELSE F(n, a[n - 1])]
<1>1. N \in Nat /\ items \in Seq(Plan!Item)
  BY ItemsOfPlan
<1>2. start \in Looked
  BY DEF Looked
<1>3. Plan!MetAgain(items, some) = (CHOOSE a : Is(a))[N].bad
  BY DEF Plan!MetAgain, Look
<1> HIDE DEF N
<1>4. \A n \in 1..N, acc \in Looked : F(n, acc) \in Looked
  BY <1>1, LookIsTyped DEF N
<1> HIDE DEF F, start
<1>5. Step(next, N, Looked)
  BY <1>4 DEF Step
<1>6. PICK b : Iterates(b, N, Looked, start, next)
  <2> HIDE DEF next
  <2> QED
    BY <1>1, <1>2, <1>5, Recursion
<1>7. b \in [0..N -> Looked] /\ b[0] = start
  BY <1>6 DEF Iterates
<1>8. \A n \in 1..N : b[n] = F(n, b[n - 1])
  <2> SUFFICES ASSUME NEW n \in 1..N PROVE b[n] = F(n, b[n - 1])
    OBVIOUS
  <2>1. n - 1 \in 0..N
    BY <1>1
  <2>2. <<n, b[n - 1]>> \in (1..N) \X Looked
    BY <1>7, <2>1
  <2>3. next[<<n, b[n - 1]>>] = F(n, b[n - 1])
    BY <2>2
  <2> QED
    BY <1>6, <2>3 DEF Iterates
<1>9. Is(b)
  <2>1. b = [n \in 0..N |-> b[n]]
    BY <1>7
  <2>2. \A n \in 0..N : b[n] = IF n = 0 THEN start ELSE F(n, b[n - 1])
    BY <1>1, <1>7, <1>8
  <2> QED
    BY <2>1, <2>2, Zenon
<1> DEFINE a == CHOOSE c : Is(c)
<1>a. Is(a)
  BY <1>9
<1> HIDE DEF a
<1>b. \A n \in 0..N : a[n] = IF n = 0 THEN start ELSE F(n, a[n - 1])
  BY <1>a
<1>c. a[0] = start /\ \A n \in 1..N : a[n] = F(n, a[n - 1])
  BY <1>1, <1>b
<1>d. DOMAIN a = 0..N /\ a = [n \in 0..N |-> a[n]]
  BY <1>a
<1>e. \A n \in 0..N : a[n] \in Looked
  <2> DEFINE I == {n \in Nat : n <= N => a[n] \in Looked}
  <2>1. 0 \in I
    BY <1>1, <1>2, <1>c
  <2>2. ASSUME NEW n \in I PROVE n + 1 \in I
    <3> SUFFICES ASSUME n + 1 <= N PROVE a[n + 1] \in Looked
      BY <2>2
    <3>1. n + 1 \in 1..N /\ (n + 1) - 1 = n /\ a[n] \in Looked
      BY <1>1, <2>2
    <3>2. a[n + 1] = F(n + 1, a[n])
      BY <1>c, <3>1
    <3> QED
      BY <1>4, <3>1, <3>2
  <2> HIDE DEF I
  <2>3. I = Nat
    BY <2>1, <2>2, Induction DEF I
  <2> QED
    BY <1>1, <2>3 DEF I
<1>f. Looking(items, some, a)
  BY <1>c, <1>d, <1>e DEF Looking, F, N, start
<1> QED
  BY <1>3, <1>f DEF a, N

\* What is seen are the partitions of the items looked at, and one is met again
\* when two of those items name it.
LEMMA MetAgainMeansTwice ==
  ASSUME NEW items \in Plan!PlanSet, NEW some
  PROVE  Plan!MetAgain(items, some) # {} <=>
           \E j \in DOMAIN items : \E i \in 1..(j - 1) :
             i \in some /\ j \in some /\ items[i].part = items[j].part /\ items[j].part # NoPart
<1> DEFINE N == Len(items)
           Twice(i, j) == i \in some /\ j \in some /\ items[i].part = items[j].part /\ items[j].part # NoPart
<1>1. N \in Nat /\ items \in Seq(Plan!Item) /\ DOMAIN items = 1..N
  BY ItemsOfPlan
<1>2. PICK met : Looking(items, some, met) /\ Plan!MetAgain(items, some) = met[N].bad
  BY MetAgainIsLooking
<1> DEFINE SeenIs(n) == \A p : p \in met[n].seen <=>
                          \E i \in 1..n : i \in some /\ items[i].part = p /\ p # NoPart
           BadIs(n) == met[n].bad # {} <=> \E j \in 1..n : \E i \in 1..(j - 1) : Twice(i, j)
           I == {n \in Nat : n <= N => SeenIs(n) /\ BadIs(n)}
<1>3. 0 \in I
  <2>1. met[0] = [seen |-> {}, bad |-> {}]
    BY <1>2 DEF Looking
  <2>2. met[0].seen = {} /\ met[0].bad = {}
    BY <2>1
  <2> QED
    BY <2>2
<1>4. ASSUME NEW n \in I PROVE n + 1 \in I
  <2> SUFFICES ASSUME n + 1 <= N PROVE SeenIs(n + 1) /\ BadIs(n + 1)
    BY <1>4, SMTT(30)
  <2> DEFINE m == n + 1
             part == items[m].part
  <2>1. n \in Nat /\ n \in 0..N /\ m \in 1..N /\ m - 1 = n /\ SeenIs(n) /\ BadIs(n)
    BY <1>1, <1>4
  <2>2. met[m] = Look(items, some, m, met[n]) /\ met[n] \in Looked
    <3> HIDE DEF m
    <3> QED
      BY <1>2, <2>1 DEF Looking, N
  <2>3. /\ m \in some /\ part # NoPart =>
             /\ met[m].bad = IF part \in met[n].seen THEN met[n].bad \cup {part} ELSE met[n].bad
             /\ met[m].seen = met[n].seen \cup {part}
        /\ m \notin some \/ part = NoPart => met[m] = met[n]
    <3> HIDE DEF m
    <3>1. CASE m \notin some \/ part = NoPart
      BY <2>2, <3>1 DEF Look
    <3>2. CASE ~(m \notin some \/ part = NoPart) /\ part \in met[n].seen
      BY <2>2, <3>2 DEF Look, Looked
    <3>3. CASE ~(m \notin some \/ part = NoPart) /\ part \notin met[n].seen
      BY <2>2, <3>3 DEF Look, Looked
    <3> QED
      BY <3>1, <3>2, <3>3
  <2>4. \A i : i \in 1..m <=> i \in 1..n \/ i = m
    BY <2>1
  <2>5. \A i \in 1..n : i # m
    BY <2>1
  <2> HIDE DEF m, part, SeenIs, BadIs, N
  <2>6. SeenIs(m)
    BY <2>1, <2>3, <2>4 DEF SeenIs, part
  <2>7. BadIs(m)
    <3>1. (\E j \in 1..m : \E i \in 1..(j - 1) : Twice(i, j))
            <=> (\E j \in 1..n : \E i \in 1..(j - 1) : Twice(i, j)) \/ (\E i \in 1..n : Twice(i, m))
      BY <2>1, <2>4
    <3>2. CASE m \in some /\ part # NoPart
      <4>1. (\E i \in 1..n : Twice(i, m)) <=> part \in met[n].seen
        BY <2>1, <3>2 DEF SeenIs, part
      <4> QED
        BY <2>1, <2>3, <3>1, <3>2, <4>1 DEF BadIs
    <3>3. CASE m \notin some \/ part = NoPart
      <4>1. ~\E i \in 1..n : Twice(i, m)
        BY <3>3 DEF part
      <4> QED
        BY <2>1, <2>3, <3>1, <3>3, <4>1 DEF BadIs
    <3> QED
      BY <3>2, <3>3
  <2> QED
    BY <2>6, <2>7 DEF m
<1> HIDE DEF I
<1>5. I = Nat
  BY <1>3, <1>4, Induction DEF I
<1>6. BadIs(N)
  BY <1>1, <1>5 DEF I
<1> QED
  BY <1>1, <1>2, <1>6

\* A plan has conflicts when, and only when, it is not clean.
LEMMA ConflictsAreClashes ==
  ASSUME NEW items \in Plan!PlanSet
  PROVE  /\ Plan!Conflicts(items) = {} <=> Clean(items)
         /\ Clean(items) <=>
              ~\E i, j \in DOMAIN items :
                 /\ i < j /\ items[i].part = items[j].part /\ items[i].part # NoPart
                 /\ items[i].level = items[j].level
<1> DEFINE Again(l) == Plan!MetAgain(items, Plan!ItemsAt(items, l))
           Clash(i, j) == /\ items[i].part = items[j].part /\ items[i].part # NoPart
                          /\ items[i].level = items[j].level
<1>1. Len(items) \in Nat /\ DOMAIN items = 1..Len(items)
  BY ItemsOfPlan
<1>2. \A j \in DOMAIN items : \A i \in 1..(j - 1) : i \in DOMAIN items /\ i < j
  BY <1>1
<1>3. \A i, j \in DOMAIN items : i < j => i \in 1..(j - 1)
  BY <1>1
<1>4. \A i, j \in DOMAIN items : i # j => i < j \/ j < i
  BY <1>1
<1>5. Clean(items) <=> ~\E i, j \in DOMAIN items : i < j /\ Clash(i, j)
  BY <1>1, <1>4 DEF Clean
<1>6. \A l : Again(l) # {} <=> \E i, j \in DOMAIN items : i < j /\ Clash(i, j) /\ items[i].level = l
  <2> SUFFICES ASSUME NEW l
               PROVE  Again(l) # {} <=> \E i, j \in DOMAIN items : i < j /\ Clash(i, j) /\ items[i].level = l
    OBVIOUS
  <2>1. Again(l) # {} <=>
           \E j \in DOMAIN items : \E i \in 1..(j - 1) :
             /\ i \in Plan!ItemsAt(items, l) /\ j \in Plan!ItemsAt(items, l)
             /\ items[i].part = items[j].part /\ items[j].part # NoPart
    BY MetAgainMeansTwice
  <2> HIDE DEF Again
  <2>2. ASSUME Again(l) # {} PROVE \E i, j \in DOMAIN items : i < j /\ Clash(i, j) /\ items[i].level = l
    BY <1>2, <2>1, <2>2 DEF Plan!ItemsAt
  <2>3. ASSUME NEW i \in DOMAIN items, NEW j \in DOMAIN items, i < j, Clash(i, j), items[i].level = l
        PROVE  Again(l) # {}
    BY <1>3, <2>1, <2>3 DEF Plan!ItemsAt
  <2> QED
    BY <2>2, <2>3
<1>7. Plan!Conflicts(items) = {} <=> \A l \in Plan!LevelsOf(items) : Again(l) = {}
  <2>1. Plan!Conflicts(items) = UNION {Again(l) : l \in Plan!LevelsOf(items)}
    BY DEF Plan!Conflicts
  <2> HIDE DEF Again
  <2> QED
    BY <2>1
<1> HIDE DEF Again, Clash
<1>8. (\A l \in Plan!LevelsOf(items) : Again(l) = {}) <=> ~\E i, j \in DOMAIN items : i < j /\ Clash(i, j)
  BY <1>6 DEF Plan!LevelsOf
<1> QED
  BY <1>5, <1>7, <1>8 DEF Clash

----------------------------------------------------------------------------
(* The steps of a plan's walk.                                             *)

walkVars == <<plan, left, running, ran, accepted, done>>

LEMMA NothingPlanned == <<>> \in Plan!PlanSet
<1>1. 0 \in 0..MaxItems
  BY PartsAssumption DEF Plan!PlanningAssumption
<1>2. <<>> \in [1..0 -> Plan!Item]
  OBVIOUS
<1> QED
  BY <1>1, <1>2 DEF Plan!PlanSet

LEMMA NothingRan == ran = <<>> /\ running = {} => RanInv
BY DEF RanInv

LEMMA WalkStays == UNCHANGED walkVars => (RanInv => RanInv') /\ (LeftInv => LeftInv')
BY DEF walkVars, RanInv, LeftInv

LEMMA PlanInitial == Plan!Init => PlanInv
<1> SUFFICES ASSUME Plan!Init PROVE PlanInv
  OBVIOUS
<1>1. RanInv /\ plan \in Plan!PlanSet
  BY NothingRan, NothingPlanned DEF Plan!Init
<1>2. Clean(plan) /\ \A i \in DOMAIN plan : plan[i].level >= 1
  BY DEF Plan!Init, Clean
<1> QED
  BY <1>1, <1>2 DEF Plan!Init, PlanInv

LEMMA PlanStandsStill == NoPlan => PlanInv
<1> SUFFICES ASSUME NoPlan PROVE PlanInv
  OBVIOUS
<1>1. RanInv /\ plan \in Plan!PlanSet
  BY NothingRan, NothingPlanned DEF NoPlan
<1>2. Clean(plan) /\ \A i \in DOMAIN plan : plan[i].level >= 1
  BY DEF NoPlan, Clean
<1> QED
  BY <1>1, <1>2 DEF NoPlan, PlanInv

LEMMA ModelIsNamed ==
  ASSUME NEW resumed \in BOOLEAN
  PROVE  Plan!ModelFor(resumed) \in models \cup {Plan!NoModel}
<1> DEFINE flags == IF resumed THEN <<"hard", "planner", "model">> ELSE <<"planner", "model">>
           named == {i \in DOMAIN flags : flags[i] \in models}
<1>1. Plan!ModelFor(resumed) = IF named = {} THEN Plan!NoModel ELSE flags[Min(named)]
  BY SameOperators DEF Plan!ModelFor
<1>2. named \subseteq Nat
  OBVIOUS
<1>3. named # {} => Min(named) \in named
  <2> HIDE DEF named
  <2> QED
    BY <1>2, LeastIsMember
<1> HIDE DEF flags
<1> QED
  BY <1>1, <1>3

LEMMA LoadFileStep == PlanInv /\ Plan!LoadFile => PlanInv'
<1> SUFFICES ASSUME PlanInv, Plan!LoadFile PROVE PlanInv'
  OBVIOUS
<1>1. (ran = <<>> /\ running = {} => RanInv)'
  BY NothingRan, PTL
<1>2. RanInv'
  BY <1>1 DEF PlanInv, Plan!LoadFile
<1> QED
  BY <1>2 DEF PlanInv, Plan!LoadFile, Plan!args, Plan!memory

\* A plan that is accepted has no conflicts, so it is clean.
LEMMA ParseStep == PlanInv /\ Plan!Parse => PlanInv'
<1> SUFFICES ASSUME PlanInv, Plan!Parse PROVE PlanInv'
  OBVIOUS
<1>1. (ran = <<>> /\ running = {} => RanInv)'
  BY NothingRan, PTL
<1>2. RanInv'
  BY <1>1 DEF PlanInv, Plan!Parse
<1> DEFINE items == Plan!Floored(answer.items)
<1>3. answer.items \in Plan!PlanSet /\ plan' = items /\ Plan!Conflicts(items) = {}
  BY DEF PlanInv, Plan!Parse, Plan!Refuses
<1>4. items \in Plan!PlanSet /\ \A i \in DOMAIN items : items[i].level >= 1
  BY <1>3, Flooring
<1> HIDE DEF items
<1>5. Clean(items)
  BY <1>3, <1>4, ConflictsAreClashes
<1>6. /\ plan' \in Plan!PlanSet /\ \A i \in DOMAIN plan' : plan'[i].level >= 1
      /\ Clean(plan)'
  BY <1>3, <1>4, <1>5 DEF Clean
<1> QED
  BY <1>2, <1>6 DEF PlanInv, Plan!Parse, Plan!args, Plan!memory

\* What is left to walk, when the walk starts, are all levels of the plan.
LEMMA StartStep == PlanInv /\ Plan!Start => PlanInv'
<1> SUFFICES ASSUME PlanInv, Plan!Start PROVE PlanInv'
  OBVIOUS
<1> DEFINE levels == Plan!LevelsOf(plan)
<1>1. plan \in Plan!PlanSet /\ ran = <<>> /\ running = {}
  BY DEF PlanInv, Plan!Start
<1>2. levels = {plan[i].level : i \in 1..Len(plan)} /\ Len(plan) \in Nat
  BY <1>1, ItemsOfPlan DEF Plan!LevelsOf
<1>3. levels \subseteq Nat
  BY <1>1, ItemsOfPlan, PartsAssumption DEF Plan!LevelsOf, Plan!Item, Plan!PlanningAssumption
<1>4. IsFiniteSet(levels)
  <2> DEFINE level == [i \in 1..Len(plan) |-> plan[i].level]
  <2>1. level \in Surjection(1..Len(plan), levels)
    BY <1>2 DEF Surjection
  <2>2. IsFiniteSet(1..Len(plan))
    BY <1>2, FS_Interval
  <2> HIDE DEF level, levels
  <2> QED
    BY <2>1, <2>2, FS_Surjection
<1>5. left' \in Ascending(levels)
  BY SortingIsShared DEF Plan!Start, Plan!Levels
<1>6. /\ left' \in Seq(levels) /\ Range(left') = levels
      /\ \A m, n \in DOMAIN left' : m < n => left'[m] < left'[n]
  <2> HIDE DEF levels
  <2> QED
    BY <1>3, <1>4, <1>5, AscendingListsAll
<1>7. \A j \in DOMAIN plan : \E n \in DOMAIN left' : left'[n] = plan[j].level
  BY <1>6 DEF Range, Plan!LevelsOf
<1>8. left' \in Seq(Nat)
  BY <1>3, <1>6, SeqMonotonic
<1>9. UNCHANGED <<plan, ran, running, accepted, done>> /\ accepted = done
  BY DEF PlanInv, Plan!Start, Plan!memory
<1>a. LeftInv'
  BY <1>1, <1>6, <1>7, <1>8, <1>9 DEF LeftInv
<1>b. RanInv'
  BY <1>9 DEF PlanInv, RanInv
<1> QED
  BY <1>a, <1>b DEF PlanInv, Plan!Start, Plan!args, Plan!memory

\* The lowest level left is dispatched, whole: it comes after all that ran.
LEMMA DispatchStep == PlanInv /\ Plan!DispatchLevel => PlanInv'
<1> SUFFICES ASSUME PlanInv, Plan!DispatchLevel PROVE PlanInv'
  OBVIOUS
<1>1. RanInv /\ LeftInv /\ plan \in Plan!PlanSet /\ done \subseteq accepted
  BY DEF PlanInv, Plan!DispatchLevel
<1> DEFINE r == Len(ran)
           l == left[1]
           now == {i \in DOMAIN plan : plan[i].level = l}
<1>2. /\ left # <<>> /\ left' = Tail(left) /\ running' = now /\ ran' = Append(ran, now)
      /\ UNCHANGED <<plan, accepted, done>> /\ l \notin done
  BY DEF Plan!DispatchLevel, Plan!ItemsAt, Plan!memory
<1>3. ran \in Seq(SUBSET DOMAIN plan) /\ left \in Seq(Nat)
  BY <1>1 DEF RanInv, LeftInv
<1>4. /\ r \in Nat /\ DOMAIN ran = 1..r
      /\ 1 \in DOMAIN left /\ l \in Nat
  BY <1>2, <1>3
<1>5. \A i \in DOMAIN plan : plan[i].level \in Nat
  BY <1>1, ItemsOfPlan, PartsAssumption DEF Plan!Item, Plan!PlanningAssumption
<1>6. now \subseteq DOMAIN plan
  OBVIOUS
<1>7. /\ ran' \in Seq(SUBSET DOMAIN plan) /\ Len(ran') = r + 1 /\ DOMAIN ran' = 1..(r + 1)
      /\ ran'[r + 1] = now /\ \A k \in 1..r : ran'[k] = ran[k]
  <2> HIDE DEF now
  <2> QED
    BY <1>2, <1>3, <1>4, <1>6
<1>8. /\ left' \in Seq(Nat) /\ DOMAIN left' = 1..(Len(left) - 1)
      /\ \A n \in DOMAIN left' : n + 1 \in DOMAIN left /\ 1 < n + 1 /\ left'[n] = left[n + 1]
  BY <1>2, <1>3
<1>9. \A k : k \in DOMAIN ran' <=> k \in 1..r \/ k = r + 1
  BY <1>4, <1>7
<1>a. \A i \in now : i \in DOMAIN plan /\ plan[i].level = l
  OBVIOUS
<1>b. \A k \in 1..r : ran[k] \subseteq DOMAIN plan
  BY <1>3, <1>4
<1>e. l \notin accepted
  BY <1>1, <1>2, <1>4 DEF LeftInv
<1> HIDE DEF now, l, r
<1>c. RanInv'
  <2>1. \A k \in DOMAIN ran' : \A i \in ran'[k], j \in DOMAIN plan :
           j \in ran'[k] <=> plan[j].level = plan[i].level
    <3> SUFFICES ASSUME NEW k \in DOMAIN ran', NEW i \in ran'[k], NEW j \in DOMAIN plan
                 PROVE  j \in ran'[k] <=> plan[j].level = plan[i].level
      OBVIOUS
    <3>1. CASE k \in 1..r
      BY <1>1, <1>4, <1>7, <3>1 DEF RanInv
    <3>2. CASE k = r + 1
      BY <1>7, <1>a, <3>2 DEF now
    <3> QED
      BY <1>9, <3>1, <3>2
  <2>2. \A k, m \in DOMAIN ran' : k < m => \A i \in ran'[k], j \in ran'[m] : plan[i].level < plan[j].level
    <3> SUFFICES ASSUME NEW k \in DOMAIN ran', NEW m \in DOMAIN ran', k < m, NEW i \in ran'[k], NEW j \in ran'[m]
                 PROVE  plan[i].level < plan[j].level
      OBVIOUS
    <3>1. k \in 1..r
      BY <1>4, <1>7
    <3>2. CASE m \in 1..r
      BY <1>1, <1>4, <1>7, <3>1, <3>2 DEF RanInv
    <3>3. CASE m = r + 1
      <4>1. i \in ran[k] /\ j \in now
        BY <1>7, <3>1, <3>3
      <4>2. plan[i].level < l
        BY <1>1, <1>4, <3>1, <4>1 DEF LeftInv, l
      <4> QED
        BY <1>a, <4>1, <4>2
    <3> QED
      BY <1>9, <3>2, <3>3
  <2>3. ran' # <<>> /\ running' = ran'[Len(ran')]
    BY <1>2, <1>4, <1>7
  <2>4. \A k \in DOMAIN ran' : \A i \in ran'[k] : plan[i].level \notin done
    BY <1>1, <1>2, <1>4, <1>7, <1>9, <1>a DEF RanInv
  <2>5. \A i \in running' : plan[i].level \notin accepted
    BY <1>2, <1>a, <1>e
  <2> QED
    BY <1>2, <1>7, <2>1, <2>2, <2>3, <2>4, <2>5 DEF RanInv
<1>d. LeftInv'
  <2>1. \A m, n \in DOMAIN left' : m < n => left'[m] < left'[n]
    <3> SUFFICES ASSUME NEW m \in DOMAIN left', NEW n \in DOMAIN left', m < n PROVE left'[m] < left'[n]
      OBVIOUS
    <3>1. m + 1 < n + 1
      BY <1>3, <1>8
    <3> QED
      BY <1>1, <1>8, <3>1 DEF LeftInv
  <2>2. \A k \in DOMAIN ran' : \A i \in ran'[k], n \in DOMAIN left' : plan[i].level < left'[n]
    <3> SUFFICES ASSUME NEW k \in DOMAIN ran', NEW i \in ran'[k], NEW n \in DOMAIN left'
                 PROVE  plan[i].level < left'[n]
      OBVIOUS
    <3>1. CASE k \in 1..r
      BY <1>1, <1>4, <1>7, <1>8, <3>1 DEF LeftInv
    <3>2. CASE k = r + 1
      <4>1. l < left[n + 1]
        BY <1>1, <1>4, <1>8 DEF LeftInv, l
      <4> QED
        BY <1>7, <1>8, <1>a, <3>2, <4>1
    <3> QED
      BY <1>9, <3>1, <3>2
  <2>3. \A j \in DOMAIN plan :
          \/ plan[j].level \in done
          \/ (\E k \in DOMAIN ran' : j \in ran'[k]) \/ (\E n \in DOMAIN left' : left'[n] = plan[j].level)
    <3> SUFFICES ASSUME NEW j \in DOMAIN plan, plan[j].level \notin done, ~\E k \in DOMAIN ran' : j \in ran'[k]
                 PROVE  \E n \in DOMAIN left' : left'[n] = plan[j].level
      OBVIOUS
    <3>1. j \notin now
      BY <1>7, <1>9
    <3>2. ~\E k \in DOMAIN ran : j \in ran[k]
      BY <1>4, <1>7, <1>9
    <3>3. PICK n \in DOMAIN left : left[n] = plan[j].level
      BY <1>1, <3>2 DEF LeftInv
    <3>4. n # 1
      BY <3>1, <3>3 DEF now, l
    <3>5. n - 1 \in DOMAIN left' /\ (n - 1) + 1 = n
      BY <1>3, <1>8, <3>4
    <3> QED
      BY <1>8, <3>3, <3>5
  <2>4. \A n \in DOMAIN left' : left'[n] \in accepted => left'[n] \in done
    BY <1>1, <1>8 DEF LeftInv
  <2> QED
    BY <1>2, <1>8, <2>1, <2>2, <2>3, <2>4 DEF LeftInv
<1> QED
  BY <1>2, <1>c, <1>d DEF PlanInv, Plan!DispatchLevel, Plan!args, Plan!memory

\* A level that is passed over was accepted before, so nothing is left out by it.
LEMMA SkipStep == PlanInv /\ Plan!SkipLevel => PlanInv'
<1> SUFFICES ASSUME PlanInv, Plan!SkipLevel PROVE PlanInv'
  OBVIOUS
<1>1. RanInv /\ LeftInv
  BY DEF PlanInv, Plan!SkipLevel
<1>2. /\ left # <<>> /\ left' = Tail(left) /\ left[1] \in done
      /\ UNCHANGED <<plan, running, ran, accepted, done>>
  BY DEF Plan!SkipLevel, Plan!memory
<1>3. left \in Seq(Nat)
  BY <1>1 DEF LeftInv
<1>4. /\ left' \in Seq(Nat) /\ DOMAIN left' = 1..(Len(left) - 1)
      /\ \A n \in DOMAIN left' : n + 1 \in DOMAIN left /\ left'[n] = left[n + 1]
      /\ \A n \in DOMAIN left : n # 1 => n - 1 \in DOMAIN left' /\ left'[n - 1] = left[n]
  BY <1>2, <1>3
<1>5. RanInv'
  BY <1>1, <1>2 DEF RanInv
<1>6. LeftInv'
  <2>1. \A m, n \in DOMAIN left' : m < n => left'[m] < left'[n]
    <3> SUFFICES ASSUME NEW m \in DOMAIN left', NEW n \in DOMAIN left', m < n PROVE left'[m] < left'[n]
      OBVIOUS
    <3>1. m + 1 < n + 1
      BY <1>3, <1>4
    <3> QED
      BY <1>1, <1>4, <3>1 DEF LeftInv
  <2>2. \A k \in DOMAIN ran : \A i \in ran[k], n \in DOMAIN left' : plan[i].level < left'[n]
    BY <1>1, <1>4 DEF LeftInv
  <2>3. \A j \in DOMAIN plan :
          \/ plan[j].level \in done
          \/ (\E k \in DOMAIN ran : j \in ran[k]) \/ (\E n \in DOMAIN left' : left'[n] = plan[j].level)
    <3> SUFFICES ASSUME NEW j \in DOMAIN plan, plan[j].level \notin done, ~\E k \in DOMAIN ran : j \in ran[k]
                 PROVE  \E n \in DOMAIN left' : left'[n] = plan[j].level
      OBVIOUS
    <3>1. PICK n \in DOMAIN left : left[n] = plan[j].level
      BY <1>1 DEF LeftInv
    <3>2. n # 1
      BY <1>2, <3>1
    <3> QED
      BY <1>4, <3>1, <3>2
  <2>4. \A n \in DOMAIN left' : left'[n] \in accepted => left'[n] \in done
    BY <1>1, <1>4 DEF LeftInv
  <2> QED
    BY <1>2, <1>4, <2>1, <2>2, <2>3, <2>4 DEF LeftInv
<1> QED
  BY <1>2, <1>5, <1>6 DEF PlanInv, Plan!SkipLevel, Plan!args, Plan!memory

\* What a level's end adds to what is accepted is behind the walk.
LEMMA LevelEndsStep == PlanInv /\ Plan!LevelEnds => PlanInv'
<1> SUFFICES ASSUME PlanInv, Plan!LevelEnds PROVE PlanInv'
  OBVIOUS
<1>1. RanInv /\ LeftInv /\ plan \in Plan!PlanSet /\ done \subseteq accepted /\ accepted \subseteq Levels0
  BY DEF PlanInv, Plan!LevelEnds
<1>2. /\ running # {} /\ running' = {} /\ step' \in {"walk", "stopped"}
      /\ UNCHANGED <<plan, left, ran, done>>
      /\ accepted' \in {accepted, accepted \cup {plan[i].level : i \in running}}
  BY DEF Plan!LevelEnds
<1>3. ran \in Seq(SUBSET DOMAIN plan) /\ ran # <<>> /\ running = ran[Len(ran)]
  BY <1>1, <1>2 DEF RanInv
<1>4. Len(ran) \in DOMAIN ran /\ running \subseteq DOMAIN plan
  BY <1>3
<1>5. \A i \in DOMAIN plan : plan[i].level \in Levels0 /\ plan[i].level \in Nat
  BY <1>1, ItemsOfPlan, PartsAssumption DEF Plan!Item, Plan!PlanningAssumption
<1>6. done \subseteq accepted' /\ accepted' \subseteq Levels0
  BY <1>1, <1>2, <1>4, <1>5
<1>7. RanInv'
  BY <1>1, <1>2 DEF RanInv
<1>8. \A n \in DOMAIN left : left[n] \in accepted' => left[n] \in done
  <2> SUFFICES ASSUME NEW n \in DOMAIN left, left[n] \in accepted' PROVE left[n] \in done
    OBVIOUS
  <2>1. left[n] \in Nat
    BY <1>1 DEF LeftInv
  <2>2. \A i \in running : plan[i].level < left[n]
    BY <1>1, <1>3, <1>4 DEF LeftInv
  <2>3. \A i \in running : plan[i].level # left[n]
    BY <1>4, <1>5, <2>1, <2>2
  <2>4. left[n] \in accepted
    BY <1>2, <2>3
  <2> QED
    BY <1>1, <2>4 DEF LeftInv
<1>9. LeftInv'
  BY <1>1, <1>2, <1>8 DEF LeftInv
<1> QED
  BY <1>2, <1>6, <1>7, <1>9 DEF PlanInv, Plan!LevelEnds, Plan!args

LEMMA PlanStep == PlanInv /\ [Plan!Next]_planVars => PlanInv'
<1> SUFFICES ASSUME PlanInv, [Plan!Next]_planVars PROVE PlanInv'
  OBVIOUS
<1> USE DEF Plan!args, Plan!memory, Plan!Stop, Plan!Goto
<1>1. CASE Plan!LoadFile
  BY <1>1, LoadFileStep
<1>2. CASE Plan!LoadFileFails
  BY <1>2, WalkStays DEF PlanInv, Plan!LoadFileFails, walkVars
<1>3. CASE Plan!LoadArgs
  BY <1>3, WalkStays DEF PlanInv, Plan!LoadArgs, walkVars
<1>4. CASE Plan!LoadArgsFails
  BY <1>4, WalkStays DEF PlanInv, Plan!LoadArgsFails, walkVars
<1>5. CASE Plan!NoteContracts
  <2>1. noted' \in Nat /\ noted' <= starts'
    BY <1>5 DEF PlanInv, Plan!NoteContracts
  <2> QED
    BY <1>5, <2>1, WalkStays DEF PlanInv, Plan!NoteContracts, walkVars
<1>6. CASE Plan!Credentials
  BY <1>6, WalkStays DEF PlanInv, Plan!Credentials, walkVars
<1>7. CASE Plan!CredentialsMissing
  BY <1>7, WalkStays DEF PlanInv, Plan!CredentialsMissing, walkVars
<1>8. CASE Plan!ChooseModel
  <2>1. asked' \in models' \cup {Plan!NoModel}
    <3> DEFINE resumed == starts > 1
    <3>1. resumed \in BOOLEAN
      BY DEF PlanInv
    <3>2. asked' \in {asked, Plan!ModelFor(resumed)} /\ models' = models
      BY <1>8 DEF Plan!ChooseModel
    <3> HIDE DEF resumed
    <3> QED
      BY <3>1, <3>2, ModelIsNamed DEF PlanInv
  <2>2. /\ step = "choose" /\ step' \in {"stopped", "ask"}
        /\ UNCHANGED <<fromFile, models, dry, starts, noted, accepted, done, plan, left, running, ran>>
    BY <1>8 DEF Plan!ChooseModel
  <2> QED
    BY <2>1, <2>2, WalkStays DEF PlanInv, walkVars
<1>9. CASE Plan!Ask
  <2>1. PICK wrap \in {"bare", "fence", "prose"}, items \in Plan!PlanSet :
           answer' = [wrap |-> wrap, items |-> items]
    BY <1>9, Zenon DEF Plan!Ask
  <2>2. answer'.items = items
    BY <2>1, Zenon
  <2> QED
    BY <1>9, <2>2, WalkStays, Zenon DEF PlanInv, Plan!Ask, walkVars
<1>a. CASE Plan!AskFails
  BY <1>a, WalkStays DEF PlanInv, Plan!AskFails, walkVars
<1>b. CASE Plan!Parse
  BY <1>b, ParseStep
<1>c. CASE Plan!ParseFails
  BY <1>c, WalkStays DEF PlanInv, Plan!ParseFails, walkVars
<1>d. CASE Plan!PrintPlan
  BY <1>d, WalkStays DEF PlanInv, Plan!PrintPlan, walkVars
<1>e. CASE Plan!Start
  BY <1>e, StartStep
<1>f. CASE Plan!DispatchLevel
  BY <1>f, DispatchStep
<1>g. CASE Plan!LevelEnds
  BY <1>g, LevelEndsStep
<1>k. CASE Plan!SkipLevel
  BY <1>k, SkipStep
<1>h. CASE Plan!Finish
  <2>1. \A j \in DOMAIN plan : plan[j].level \notin done => \E k \in DOMAIN ran : j \in ran[k]
    BY <1>h DEF PlanInv, Plan!Finish, LeftInv
  <2>2. \A k \in DOMAIN ran : ran[k] \subseteq DOMAIN plan /\ \A i \in ran[k] : plan[i].level \notin done
    BY DEF PlanInv, RanInv
  <2>3. UNION Range(ran) = {i \in DOMAIN plan : plan[i].level \notin done}
    BY <2>1, <2>2 DEF Range
  <2> QED
    BY <1>h, <2>3, WalkStays DEF PlanInv, Plan!Finish, walkVars, Range
<1>i. CASE Plan!Resume
  <2>1. (ran = <<>> /\ running = {} => RanInv)'
    BY NothingRan, PTL
  <2>2. plan' \in Plan!PlanSet /\ RanInv' /\ Clean(plan)' /\ \A i \in DOMAIN plan' : plan'[i].level >= 1
    BY <1>i, <2>1, NothingPlanned DEF Plan!Resume, Clean
  <2> QED
    BY <1>i, <2>2 DEF PlanInv, Plan!Resume
<1>j. CASE UNCHANGED planVars
  <2>1. UNCHANGED walkVars
    BY <1>j DEF planVars, walkVars
  <2> QED
    BY <1>j, <2>1, WalkStays DEF PlanInv, planVars, walkVars, Clean, Range
<1> QED
  BY <1>1, <1>2, <1>3, <1>4, <1>5, <1>6, <1>7, <1>8, <1>9, <1>a, <1>b, <1>c, <1>d, <1>e, <1>f,
     <1>g, <1>h, <1>i, <1>j, <1>k DEF Plan!Next

----------------------------------------------------------------------------
(* What the invariants say.                                                *)

LEMMA AtMostOne ==
  ASSUME NEW S, \A x, y \in S : x = y
  PROVE  Cardinality(S) \in {0, 1} /\ (S # {} => Cardinality(S) = 1)
<1>1. CASE S = {}
  BY <1>1, FS_EmptySet
<1>2. CASE S # {}
  <2>1. PICK x : S = {x}
    BY <1>2
  <2> QED
    BY <2>1, <1>2, FS_Singleton
<1> QED
  BY <1>1, <1>2

LEMMA NoneIsLost == PartInv => Partitioned!NothingIsLost
<1> SUFFICES ASSUME PartInv, stage \in {"seed", "grow"}
             PROVE  /\ \A f \in Plain :
                         Cardinality({i \in 1..Len(components) : f \in components[i]})
                           + (IF f \in component THEN 1 ELSE 0) + (IF f \in unseen THEN 1 ELSE 0) = 1
                    /\ \A f \in component \ Range(stack) : Coupled(f) \subseteq component
  BY SameOperators DEF Partitioned!NothingIsLost, Plain, Coupled
<1>1. GrowInv /\ components \in Seq(SUBSET Plain) /\ DOMAIN components = 1..Len(components)
  BY DEF PartInv
<1>2. ASSUME NEW f \in Plain
      PROVE  Cardinality({i \in 1..Len(components) : f \in components[i]})
               + (IF f \in component THEN 1 ELSE 0) + (IF f \in unseen THEN 1 ELSE 0) = 1
  <2> DEFINE in == {i \in 1..Len(components) : f \in components[i]}
  <2>1. \A i, j \in in : i = j
    BY <1>1 DEF GrowInv
  <2>2. in # {} => f \notin component /\ f \notin unseen
    BY <1>1 DEF GrowInv
  <2>3. in = {} => f \in component \/ f \in unseen
    BY <1>1 DEF GrowInv, Range
  <2>4. ~(f \in component /\ f \in unseen)
    BY <1>1 DEF GrowInv
  <2> HIDE DEF in
  <2>5. (in = {} => Cardinality(in) = 0) /\ (in # {} => Cardinality(in) = 1)
    BY <2>1, AtMostOne, FS_EmptySet
  <2>6. Cardinality(in) + (IF f \in component THEN 1 ELSE 0) + (IF f \in unseen THEN 1 ELSE 0) = 1
    BY <2>2, <2>3, <2>4, <2>5
  <2> QED
    BY <2>6 DEF in
<1> QED
  BY <1>1, <1>2 DEF GrowInv

LEMMA PartInvSuffices == PartInv => PartitionIsSound
<1> SUFFICES ASSUME PartInv PROVE PartitionIsSound
  OBVIOUS
<1>1. Range(stack) \subseteq component /\ Range(components) \subseteq SUBSET nodes
  BY DEF PartInv, Plain, Range
<1>2. Partitioned!TypeOK
  BY <1>1, SameOperators DEF PartInv, Partitioned!TypeOK, Plain
<1> QED
  BY <1>2, NoneIsLost DEF PartInv, PartitionIsSound

LEMMA PlanInvSuffices == PlanInv => PlanIsSound
<1> SUFFICES ASSUME PlanInv PROVE PlanIsSound
  OBVIOUS
<1>1. RanInv /\ plan \in Plan!PlanSet /\ ran \in Seq(SUBSET DOMAIN plan)
  BY DEF PlanInv, RanInv
<1>2. running \subseteq DOMAIN plan
  BY <1>1 DEF RanInv
<1>3. Plan!TypeOK
  BY <1>1, <1>2 DEF PlanInv, Plan!TypeOK
<1>4. \A i, j \in running : plan[i].level = plan[j].level
  <2>1. ran # <<>> => Len(ran) \in DOMAIN ran
    BY <1>1
  <2> QED
    BY <1>1, <1>2, <2>1 DEF RanInv
<1>5. Plan!NoSharedPartition
  BY <1>2, <1>4 DEF PlanInv, Clean, Plan!NoSharedPartition, Plan!Shared
<1>6. Plan!RefusalIsJust
  <2> SUFFICES ASSUME step = "parse" PROVE Plan!RefusalIsJust
    BY DEF Plan!RefusalIsJust
  <2> DEFINE items == Plan!Floored(answer.items)
  <2>1. answer.items \in Plan!PlanSet
    BY DEF PlanInv
  <2>2. items \in Plan!PlanSet /\ DOMAIN items = DOMAIN answer.items
    BY <2>1, Flooring
  <2>3. items \in Seq(Plan!Item) /\ answer.items \in Seq(Plan!Item)
    BY <2>1, <2>2, ItemsOfPlan
  <2> HIDE DEF items
  <2>4. items = <<>> <=> answer.items = <<>>
    BY <2>2, <2>3
  <2>5. Plan!Conflicts(items) = {} <=>
          ~\E i, j \in DOMAIN items :
             /\ i < j /\ items[i].part = items[j].part /\ items[i].part # NoPart
             /\ items[i].level = items[j].level
    BY <2>2, ConflictsAreClashes
  <2> QED
    BY <2>4, <2>5 DEF items, Plan!RefusalIsJust, Plan!Refuses, Plan!Unfenced
<1>7. \A k, m \in DOMAIN ran : \A i \in ran[k], j \in ran[m] : plan[i].level < plan[j].level <=> k < m
  <2> SUFFICES ASSUME NEW k \in DOMAIN ran, NEW m \in DOMAIN ran, NEW i \in ran[k], NEW j \in ran[m]
               PROVE  plan[i].level < plan[j].level <=> k < m
    OBVIOUS
  <2>1. k \in Nat /\ m \in Nat /\ i \in DOMAIN plan /\ j \in DOMAIN plan
    BY <1>1
  <2>2. plan[i].level \in Nat /\ plan[j].level \in Nat
    BY <1>1, <2>1, ItemsOfPlan, PartsAssumption DEF Plan!Item, Plan!PlanningAssumption
  <2>3. k < m => plan[i].level < plan[j].level
    BY <1>1 DEF RanInv
  <2>4. m < k => plan[j].level < plan[i].level
    BY <1>1 DEF RanInv
  <2>5. k = m => plan[j].level = plan[i].level
    BY <1>1, <2>1 DEF RanInv
  <2> QED
    BY <2>1, <2>2, <2>3, <2>4, <2>5
<1>8. \A i \in DOMAIN plan : Cardinality({k \in DOMAIN ran : i \in ran[k]}) <= 1
  <2> SUFFICES ASSUME NEW i \in DOMAIN plan PROVE Cardinality({k \in DOMAIN ran : i \in ran[k]}) <= 1
    OBVIOUS
  <2> DEFINE in == {k \in DOMAIN ran : i \in ran[k]}
  <2>1. \A k, m \in in : ~(k < m)
    <3>1. plan[i].level \in Nat
      BY <1>1, ItemsOfPlan, PartsAssumption DEF Plan!Item, Plan!PlanningAssumption
    <3> QED
      BY <1>7, <3>1
  <2>2. \A k, m \in in : k = m
    <3>1. in \subseteq Nat
      BY <1>1
    <3> HIDE DEF in
    <3> QED
      BY <2>1, <3>1
  <2> HIDE DEF in
  <2>3. Cardinality(in) <= 1
    BY <2>2, AtMostOne
  <2> QED
    BY <2>3 DEF in
<1>9. Plan!EveryItemOnce
  BY <1>7, <1>8, SameOperators DEF PlanInv, Plan!EveryItemOnce
<1>a. Plan!AcceptedIsNotRunAgain
  BY <1>1 DEF RanInv, Plan!AcceptedIsNotRunAgain
<1> QED
  BY <1>3, <1>5, <1>6, <1>9, <1>a DEF PlanIsSound

----------------------------------------------------------------------------
(* The chunks.                                                             *)

Bounds(s) == [start : 0..s.size, end : 0..s.size, barrier : BOOLEAN]

TypeIsBehind(s, i) ==
  /\ i \in Definitions(s) /\ IsBarrier(s.lang, s.nodes[i].kind)
  /\ \E j \in Definitions(s) : s.nodes[j].start < s.nodes[i].start

\* What the loop is given: boundaries that tile the file, one of which a type starts.
Cuttable(s, b) ==
  /\ b \in Seq(Bounds(s)) /\ b # <<>> /\ Tiling(b, 0, s.size)
  /\ \A i : TypeIsBehind(s, i) => \E g \in DOMAIN b : b[g].barrier /\ b[g].start = s.nodes[i].start

LEMMA DefinitionsInOrder ==
  ASSUME NEW s \in Sources, NEW ord \in InOrder(s)
  PROVE  /\ Len(ord) \in Nat /\ ord \in [1..Len(ord) -> Definitions(s)]
         /\ \A i \in Definitions(s) : \E n \in 1..Len(ord) : ord[n] = i
         /\ \A m, n \in 1..Len(ord) : m < n =>
              ord[m] # ord[n] /\ s.nodes[ord[m]].start <= s.nodes[ord[n]].start
         /\ \A i \in Definitions(s) : s.nodes[i].start \in 0..s.size
         /\ s.size \in Nat
<1> DEFINE D == Definitions(s)
           c == Cardinality(D)
<1>1. s.nodes \in Seq(Range(s.nodes)) /\ s.size \in Nat /\ \A i \in DOMAIN s.nodes : s.nodes[i].start \in 0..s.size
  BY SourcesAssumption
<1>2. D \subseteq 1..Len(s.nodes) /\ Len(s.nodes) \in Nat /\ DOMAIN s.nodes = 1..Len(s.nodes)
  BY <1>1 DEF Definitions
<1> HIDE DEF D
<1>3. IsFiniteSet(D)
  <2>1. IsFiniteSet(1..Len(s.nodes))
    BY <1>2, FS_Interval
  <2> QED
    BY <1>2, <2>1, FS_Subset
<1>4. c \in Nat
  BY <1>3, FS_CardinalityType
<1>5. /\ ord \in [1..c -> D] /\ \A i \in D : \E n \in 1..c : ord[n] = i
      /\ \A m, n \in 1..c : m < n =>
           \/ s.nodes[ord[m]].start < s.nodes[ord[n]].start
           \/ s.nodes[ord[m]].start = s.nodes[ord[n]].start /\ ord[m] < ord[n]
  BY DEF InOrder, Sorted, Bijection, Surjection, D
<1>6. Len(ord) = c
  BY <1>4, <1>5
<1>7. \A i \in D : s.nodes[i].start \in 0..s.size /\ i \in Nat
  BY <1>1, <1>2
<1>8. \A m, n \in 1..c : m < n => ord[m] # ord[n] /\ s.nodes[ord[m]].start <= s.nodes[ord[n]].start
  BY <1>1, <1>5, <1>7, SMTT(30)
<1> QED
  BY <1>1, <1>4, <1>5, <1>6, <1>7, <1>8 DEF D

\* One definition's boundary ends where the next one's starts.
LEMMA BoundariesMeet ==
  ASSUME NEW s \in Sources, NEW ord \in InOrder(s), NEW n \in 1..Len(ord)
  PROVE  /\ Whole(s, ord, n) \in Bounds(s)
         /\ Whole(s, ord, n).start <= Whole(s, ord, n).end
         /\ n = 1 => Whole(s, ord, n).start = 0
         /\ n # 1 => Whole(s, ord, n).start = s.nodes[ord[n]].start
                     /\ Whole(s, ord, n).start = Whole(s, ord, n - 1).end
         /\ n = Len(ord) => Whole(s, ord, n).end = s.size
         /\ n < Len(ord) => Whole(s, ord, n).end = s.nodes[ord[n + 1]].start
         /\ Whole(s, ord, n).barrier = IsBarrier(s.lang, s.nodes[ord[n]].kind)
<1> DEFINE N == Len(ord)
           At(m) == s.nodes[ord[m]].start
           to == IF n < N THEN At(n + 1) ELSE s.size
           is == IsBarrier(s.lang, s.nodes[ord[n]].kind)
<1>1. N \in Nat /\ s.size \in Nat /\ \A m \in 1..N : At(m) \in 0..s.size
  BY DefinitionsInOrder
<1>2. n < N => n + 1 \in 1..N /\ At(n) <= At(n + 1)
  BY <1>1, DefinitionsInOrder
<1>3. is \in BOOLEAN
  BY DEF IsBarrier
<1> HIDE DEF N, At, is
<1>4. to \in 0..s.size /\ At(n) <= to /\ At(n) \in 0..s.size
  BY <1>1, <1>2 DEF N
<1> HIDE DEF to
<1>5. Reach(s, ord, n) = [start |-> At(n), end |-> to, barrier |-> is]
  BY DEF Reach, At, to, is, N
<1>6. Whole(s, ord, n) = [start |-> IF n = 1 THEN 0 ELSE At(n), end |-> to, barrier |-> is]
  BY <1>5 DEF Whole
<1>7. n # 1 => Whole(s, ord, n - 1).end = At(n)
  <2> SUFFICES ASSUME n # 1 PROVE Whole(s, ord, n - 1).end = At(n)
    OBVIOUS
  <2>1. n - 1 < N /\ (n - 1) + 1 = n
    BY <1>1 DEF N
  <2>2. Reach(s, ord, n - 1).end = At(n)
    BY <2>1 DEF Reach, At, N
  <2>3. Whole(s, ord, n - 1).end = Reach(s, ord, n - 1).end
    BY DEF Whole, Reach
  <2> QED
    BY <2>2, <2>3
<1>8. Whole(s, ord, n) \in Bounds(s)
  BY <1>1, <1>3, <1>4, <1>6 DEF Bounds
<1>9. /\ Whole(s, ord, n).start = IF n = 1 THEN 0 ELSE At(n)
      /\ Whole(s, ord, n).end = to /\ Whole(s, ord, n).barrier = is
  BY <1>6
<1>a. 0 <= to
  BY <1>1, <1>4
<1> QED
  BY <1>4, <1>7, <1>8, <1>9, <1>a DEF At, to, is, N

\* Pushing the boundaries that are not empty, one definition after another.
Pushed(s, ord, n, kept) ==
  IF Whole(s, ord, n).start < Whole(s, ord, n).end THEN Append(kept, Whole(s, ord, n)) ELSE kept
Pushing(s, ord, pushed) ==
  /\ pushed \in [0..Len(ord) -> Seq(Bounds(s))]
  /\ pushed[0] = <<>>
  /\ \A n \in 1..Len(ord) : pushed[n] = Pushed(s, ord, n, pushed[n - 1])

LEMMA KeptIsPushing ==
  ASSUME NEW s \in Sources, NEW ord \in InOrder(s)
  PROVE  \E pushed : Pushing(s, ord, pushed) /\ Kept(s, ord) = pushed[Len(ord)]
<1> DEFINE N == Len(ord)
           B == Seq(Bounds(s))
           F(n, acc) == Pushed(s, ord, n, acc)
           next == [e \in (1..N) \X B |-> F(e[1], e[2])]
           Is(a) == a = [n \in 0..N |-> IF n = 0 THEN <<>> ELSE F(n, a[n - 1])]
<1>1. N \in Nat
  BY DefinitionsInOrder
<1>2. <<>> \in B
  OBVIOUS
<1>3. Kept(s, ord) = (CHOOSE a : Is(a))[N]
  BY DEF Kept, Pushed
<1>4. ASSUME NEW n \in 1..N, NEW acc \in B PROVE F(n, acc) \in B
  BY BoundariesMeet DEF Pushed
<1> HIDE DEF N, F, B
<1>5. Step(next, N, B)
  BY <1>4 DEF Step
<1>6. PICK b : Iterates(b, N, B, <<>>, next)
  <2> HIDE DEF next
  <2> QED
    BY <1>1, <1>2, <1>5, Recursion
<1>7. b \in [0..N -> B] /\ b[0] = <<>>
  BY <1>6 DEF Iterates
<1>8. \A n \in 1..N : b[n] = F(n, b[n - 1])
  <2> SUFFICES ASSUME NEW n \in 1..N PROVE b[n] = F(n, b[n - 1])
    OBVIOUS
  <2>1. n - 1 \in 0..N
    BY <1>1
  <2>2. <<n, b[n - 1]>> \in (1..N) \X B
    BY <1>7, <2>1
  <2>3. next[<<n, b[n - 1]>>] = F(n, b[n - 1])
    BY <2>2
  <2> QED
    BY <1>6, <2>3 DEF Iterates
<1>9. Is(b)
  <2>1. b = [n \in 0..N |-> b[n]]
    BY <1>7
  <2>2. \A n \in 0..N : b[n] = IF n = 0 THEN <<>> ELSE F(n, b[n - 1])
    BY <1>1, <1>7, <1>8
  <2> QED
    BY <2>1, <2>2, Zenon
<1> DEFINE a == CHOOSE c : Is(c)
<1>a. Is(a)
  BY <1>9
<1> HIDE DEF a
<1>b. \A n \in 0..N : a[n] = IF n = 0 THEN <<>> ELSE F(n, a[n - 1])
  BY <1>a
<1>c. a[0] = <<>> /\ \A n \in 1..N : a[n] = F(n, a[n - 1])
  BY <1>1, <1>b
<1>d. DOMAIN a = 0..N /\ a = [n \in 0..N |-> a[n]]
  BY <1>a
<1>e. \A n \in 0..N : a[n] \in B
  <2> DEFINE I == {n \in Nat : n <= N => a[n] \in B}
  <2>1. 0 \in I
    BY <1>1, <1>2, <1>c
  <2>2. ASSUME NEW n \in I PROVE n + 1 \in I
    <3> SUFFICES ASSUME n + 1 <= N PROVE a[n + 1] \in B
      BY <2>2
    <3>1. n + 1 \in 1..N /\ (n + 1) - 1 = n /\ a[n] \in B
      BY <1>1, <2>2
    <3>2. a[n + 1] = F(n + 1, a[n])
      BY <1>c, <3>1
    <3> QED
      BY <1>4, <3>1, <3>2
  <2> HIDE DEF I
  <2>3. I = Nat
    BY <2>1, <2>2, Induction DEF I
  <2> QED
    BY <1>1, <2>3 DEF I
<1>f. Pushing(s, ord, a)
  BY <1>c, <1>d, <1>e DEF Pushing, F, N, B
<1> QED
  BY <1>3, <1>f DEF a, N

\* Appending a piece to pieces that tile the file up to where it starts.
LEMMA TilingGrows ==
  ASSUME NEW s \in Sources, NEW b \in Seq(Bounds(s)), NEW g \in Bounds(s), g.start < g.end,
         b = <<>> => g.start = 0,
         b # <<>> => Tiling(b, 0, g.start)
  PROVE  Append(b, g) # <<>> /\ Tiling(Append(b, g), 0, g.end)
<1> DEFINE t == Append(b, g)
           n == Len(b)
<1>1. n \in Nat /\ DOMAIN b = 1..n
  OBVIOUS
<1>2. t \in Seq(Bounds(s)) /\ Len(t) = n + 1 /\ t[n + 1] = g /\ \A i \in 1..n : t[i] = b[i]
  OBVIOUS
<1>3. DOMAIN t = 1..(n + 1) /\ \A i : i \in 1..(n + 1) <=> i \in 1..n \/ i = n + 1
  BY <1>1, <1>2
<1> HIDE DEF t, n
<1>4. \A i \in DOMAIN t : t[i].start < t[i].end
  BY <1>1, <1>2, <1>3 DEF Tiling, n
<1>5. t[1].start = 0
  <2>1. CASE n = 0
    BY <1>2, <2>1 DEF n
  <2>2. CASE n # 0
    BY <1>1, <1>2, <2>2 DEF Tiling, n
  <2> QED
    BY <2>1, <2>2
<1>6. ASSUME NEW i \in 1..((n + 1) - 1) PROVE t[i].end = t[i + 1].start
  <2>1. i \in 1..n /\ b # <<>>
    BY <1>1, <1>6 DEF n
  <2>2. CASE i = n
    BY <1>2, <2>1, <2>2 DEF Tiling, n
  <2>3. CASE i # n
    <3>1. i \in 1..(n - 1) /\ i + 1 \in 1..n
      BY <1>1, <2>1, <2>3
    <3> QED
      BY <1>2, <2>1, <3>1 DEF Tiling, n
  <2> QED
    BY <2>2, <2>3
<1>7. t # <<>>
  BY <1>1, <1>2
<1>8. Tiling(t, 0, g.end)
  BY <1>2, <1>4, <1>5, <1>6 DEF Tiling
<1> QED
  BY <1>7, <1>8 DEF t

LEMMA KeptTile ==
  ASSUME NEW s \in Sources, NEW ord \in InOrder(s)
  PROVE  /\ Kept(s, ord) \in Seq(Bounds(s))
         /\ Kept(s, ord) # <<>> => Tiling(Kept(s, ord), 0, s.size)
         /\ \A m \in 1..Len(ord) : Whole(s, ord, m).start < Whole(s, ord, m).end =>
              \E k \in DOMAIN Kept(s, ord) : Kept(s, ord)[k] = Whole(s, ord, m)
<1> DEFINE N == Len(ord)
           W(m) == Whole(s, ord, m)
           To(n) == IF n = 0 THEN 0 ELSE W(n).end
<1>1. N \in Nat
  BY DefinitionsInOrder
<1>2. PICK pushed : Pushing(s, ord, pushed) /\ Kept(s, ord) = pushed[N]
  BY KeptIsPushing
<1> HIDE DEF W
<1>3. \A n \in 1..N : /\ W(n) \in Bounds(s) /\ W(n).start <= W(n).end
                      /\ W(n).start = To(n - 1)
                      /\ n = N => W(n).end = s.size
  BY <1>1, BoundariesMeet DEF W
<1> DEFINE Tiles(n) == /\ pushed[n] = <<>> => To(n) = 0
                       /\ pushed[n] # <<>> => Tiling(pushed[n], 0, To(n))
           Holds(n) == \A m \in 1..n : W(m).start < W(m).end =>
                         \E k \in DOMAIN pushed[n] : pushed[n][k] = W(m)
           I == {n \in Nat : n <= N => Tiles(n) /\ Holds(n)}
<1>4. 0 \in I
  BY <1>2 DEF Pushing
<1>5. ASSUME NEW n \in I PROVE n + 1 \in I
  <2> SUFFICES ASSUME n + 1 <= N PROVE Tiles(n + 1) /\ Holds(n + 1)
    BY <1>5
  <2> DEFINE m == n + 1
             b == pushed[n]
  <2>1. n \in Nat /\ n \in 0..N /\ m \in 1..N /\ m - 1 = n /\ m # 0 /\ Tiles(n) /\ Holds(n)
    BY <1>1, <1>5
  <2>2. b \in Seq(Bounds(s))
    BY <1>2, <2>1 DEF Pushing
  <2>3. pushed[m] = IF W(m).start < W(m).end THEN Append(b, W(m)) ELSE b
    <3> HIDE DEF m
    <3>1. pushed[m] = Pushed(s, ord, m, pushed[m - 1])
      BY <1>2, <2>1 DEF Pushing
    <3> QED
      BY <2>1, <3>1 DEF Pushed, W
  <2>4. W(m) \in Bounds(s) /\ W(m).start <= W(m).end /\ W(m).start = To(n) /\ To(m) = W(m).end
    <3> HIDE DEF m
    <3> QED
      BY <1>3, <2>1
  <2>5. \A i : i \in 1..m <=> i \in 1..n \/ i = m
    BY <2>1
  <2>6. W(m).start \in Int /\ W(m).end \in Int
    BY <2>4, DefinitionsInOrder DEF Bounds
  <2> HIDE DEF m, To
  <2>7. CASE W(m).start < W(m).end
    <3>1. pushed[m] = Append(b, W(m)) /\ b = pushed[n]
      BY <2>3, <2>7
    <3>2. b = <<>> => W(m).start = 0
      BY <2>1, <2>4
    <3>3. b # <<>> => Tiling(b, 0, W(m).start)
      BY <2>1, <2>4
    <3>4. Append(b, W(m)) # <<>> /\ Tiling(Append(b, W(m)), 0, W(m).end)
      BY <2>2, <2>4, <2>7, <3>2, <3>3, TilingGrows
    <3>5. Tiles(m)
      BY <2>4, <3>1, <3>4
    <3>6. /\ \A k \in DOMAIN b : k \in DOMAIN Append(b, W(m)) /\ Append(b, W(m))[k] = b[k]
          /\ Len(b) + 1 \in DOMAIN Append(b, W(m)) /\ Append(b, W(m))[Len(b) + 1] = W(m)
      BY <2>2
    <3>7. Holds(m)
      BY <2>1, <2>5, <3>1, <3>6
    <3> QED
      BY <3>5, <3>7 DEF m
  <2>8. CASE ~(W(m).start < W(m).end)
    <3>1. pushed[m] = pushed[n]
      BY <2>3, <2>8
    <3>2. To(m) = To(n)
      BY <2>4, <2>6, <2>8
    <3>3. Tiles(m)
      BY <2>1, <3>1, <3>2
    <3>4. Holds(m)
      BY <2>1, <2>5, <2>8, <3>1
    <3> QED
      BY <3>3, <3>4 DEF m
  <2> QED
    BY <2>7, <2>8
<1> HIDE DEF I
<1>6. I = Nat
  BY <1>4, <1>5, Induction DEF I
<1>7. Tiles(N) /\ Holds(N)
  BY <1>1, <1>6 DEF I
<1>8. pushed[N] \in Seq(Bounds(s))
  BY <1>1, <1>2 DEF Pushing
<1>9. N = 0 => pushed[N] = <<>>
  BY <1>2 DEF Pushing
<1>a. N # 0 => To(N) = s.size
  BY <1>1, <1>3
<1> QED
  BY <1>2, <1>7, <1>8, <1>9, <1>a DEF W

\* A type that another definition precedes has a boundary, and it is kept.
LEMMA TypesAreKept ==
  ASSUME NEW s \in Sources, NEW ord \in InOrder(s), NEW i, TypeIsBehind(s, i)
  PROVE  \E k \in DOMAIN Kept(s, ord) :
           Kept(s, ord)[k].barrier /\ Kept(s, ord)[k].start = s.nodes[i].start
<1> DEFINE N == Len(ord)
           At(j) == s.nodes[j].start
<1>1. i \in Definitions(s) /\ IsBarrier(s.lang, s.nodes[i].kind)
  BY DEF TypeIsBehind
<1>2. PICK j \in Definitions(s) : At(j) < At(i)
  BY DEF TypeIsBehind
<1>3. At(i) < s.size /\ \A k \in Definitions(s) \ {i} : At(k) # At(i)
  BY <1>1, SourcesAssumption
<1>4. /\ N \in Nat /\ ord \in [1..N -> Definitions(s)]
      /\ \A m, n \in 1..N : m < n => ord[m] # ord[n] /\ At(ord[m]) <= At(ord[n])
      /\ \A k \in Definitions(s) : At(k) \in 0..s.size
      /\ s.size \in Nat
  BY DefinitionsInOrder
<1>5. PICK m \in 1..N : ord[m] = i
  BY <1>1, DefinitionsInOrder
<1>6. PICK n \in 1..N : ord[n] = j
  BY DefinitionsInOrder
<1> HIDE DEF At, N
<1>7. m # 1
  <2> SUFFICES ASSUME m = 1 PROVE FALSE
    OBVIOUS
  <2>1. At(i) \in Int /\ At(j) \in Int
    BY <1>1, <1>4
  <2>2. n # 1
    BY <1>2, <1>5, <1>6, <2>1
  <2>3. m < n
    BY <1>4, <2>2
  <2> QED
    BY <1>2, <1>4, <1>5, <1>6, <2>1, <2>3
<1>8. m < N => m + 1 \in 1..N /\ At(i) < At(ord[m + 1])
  <2> SUFFICES ASSUME m < N PROVE m + 1 \in 1..N /\ At(i) < At(ord[m + 1])
    OBVIOUS
  <2>1. m + 1 \in 1..N /\ m < m + 1
    BY <1>4
  <2>2. ord[m + 1] \in Definitions(s) \ {i} /\ At(i) <= At(ord[m + 1])
    BY <1>4, <1>5, <2>1
  <2>3. At(i) \in Int /\ At(ord[m + 1]) \in Int /\ At(ord[m + 1]) # At(i)
    BY <1>1, <1>3, <1>4, <2>2
  <2> QED
    BY <2>1, <2>2, <2>3
<1> DEFINE w == Whole(s, ord, m)
<1>9. w.start = At(i) /\ w.barrier = TRUE
  BY <1>1, <1>5, <1>7, BoundariesMeet DEF At, N, IsBarrier
<1>a. m = N => w.end = s.size
  BY BoundariesMeet DEF N
<1>b. m < N => w.end = At(ord[m + 1])
  BY BoundariesMeet DEF N, At
<1>c. m = N \/ m < N
  BY <1>4
<1> HIDE DEF w
<1>d. w.start < w.end
  BY <1>3, <1>8, <1>9, <1>a, <1>b, <1>c
<1>e. \E k \in DOMAIN Kept(s, ord) : Kept(s, ord)[k] = w
  BY <1>d, KeptTile DEF w, N
<1> QED
  BY <1>9, <1>e DEF At

LEMMA DefinitionsAreCuttable ==
  ASSUME NEW s \in Sources, NEW b \in TreeBoundaries(s), b # <<>>
  PROVE  Cuttable(s, b)
<1>1. PICK ord \in InOrder(s) : b = Kept(s, ord)
  BY DEF TreeBoundaries
<1> QED
  BY <1>1, KeptTile, TypesAreKept DEF Cuttable

LEMMA LinesAreCuttable ==
  ASSUME NEW s \in Sources, ~s.blank, <<>> \in TreeBoundaries(s), NEW b \in LineBoundaries(s)
  PROVE  Cuttable(s, b)
<1> DEFINE S == LineStarts(s)
<1>1. s.size \in Nat /\ s.size > 0 /\ s.breaks \subseteq 0..(s.size - 1)
  BY SourcesAssumption
<1>2. S \subseteq 0..(s.size - 1) /\ 0 \in S
  BY <1>1 DEF LineStarts
<1>3. S \subseteq Nat /\ IsFiniteSet(S)
  <2> DEFINE offsets == 0..(s.size - 1)
  <2>1. IsFiniteSet(offsets)
    BY <1>1, FS_Interval
  <2>2. offsets \subseteq Nat /\ S \subseteq offsets
    BY <1>1, <1>2
  <2> HIDE DEF S, offsets
  <2> QED
    BY <2>1, <2>2, FS_Subset
<1>4. PICK st \in Ascending(S) : b = Lines(s, st)
  BY DEF LineBoundaries
<1> HIDE DEF S
<1>5. /\ st \in Seq(S) /\ Range(st) = S
      /\ \A m, n \in DOMAIN st : m < n => st[m] < st[n]
  BY <1>3, <1>4, AscendingListsAll
<1> DEFINE N == Len(st)
<1>6. N \in Nat /\ DOMAIN st = 1..N /\ \A n \in 1..N : st[n] \in 0..(s.size - 1)
  <2>1. N \in Nat /\ DOMAIN st = 1..N /\ \A n \in 1..N : st[n] \in S
    BY <1>5
  <2> QED
    BY <1>2, <2>1
<1>7. PICK z \in 1..N : st[z] = 0
  BY <1>2, <1>5, <1>6 DEF Range
<1>8. 1 \in 1..N /\ st[1] = 0
  <2>1. 1 \in 1..N
    BY <1>6, <1>7
  <2>2. z # 1 => st[1] < st[z]
    BY <1>5, <1>6, <2>1
  <2> QED
    BY <1>1, <1>6, <1>7, <2>1, <2>2
<1> HIDE DEF N
<1> DEFINE to(n) == IF n < N THEN st[n + 1] ELSE s.size
<1>9. \A n \in 1..N : to(n) \in 0..s.size /\ st[n] < to(n)
  <2> SUFFICES ASSUME NEW n \in 1..N PROVE to(n) \in 0..s.size /\ st[n] < to(n)
    OBVIOUS
  <2>1. CASE n < N
    <3>1. n + 1 \in 1..N /\ n < n + 1
      BY <1>6, <2>1
    <3>2. st[n] < st[n + 1]
      BY <1>5, <1>6, <3>1
    <3> QED
      BY <1>1, <1>6, <2>1, <3>1, <3>2
  <2>2. CASE ~(n < N)
    BY <1>1, <1>6, <2>2
  <2> QED
    BY <2>1, <2>2
<1>a. b = [n \in 1..N |-> [start |-> st[n], end |-> to(n), barrier |-> FALSE]]
  BY <1>4 DEF Lines, N
<1>b. \A n \in 1..N : n < N => n + 1 \in 1..N /\ to(n) = st[n + 1]
  BY <1>6
<1>c. to(N) = s.size
  BY <1>6
<1> HIDE DEF to
<1>d. \A n \in 1..N : [start |-> st[n], end |-> to(n), barrier |-> FALSE] \in Bounds(s)
  BY <1>1, <1>6, <1>9 DEF Bounds
<1>e. b \in Seq(Bounds(s)) /\ Len(b) = N /\ DOMAIN b = 1..N /\ b # <<>>
  <2>1. b \in [1..N -> Bounds(s)]
    BY <1>a, <1>d
  <2> QED
    BY <1>6, <1>8, <2>1
<1>f. \A n \in 1..N : b[n].start = st[n] /\ b[n].end = to(n)
  BY <1>a
<1>g. \A n \in 1..(N - 1) : n \in 1..N /\ n < N
  BY <1>6
<1>h. N \in 1..N
  BY <1>6, <1>8
<1>i. Tiling(b, 0, s.size)
  <2>1. b[1].start = 0 /\ b[Len(b)].end = s.size
    BY <1>8, <1>c, <1>e, <1>f, <1>h
  <2>2. \A n \in 1..(Len(b) - 1) : b[n].end = b[n + 1].start
    BY <1>b, <1>e, <1>f, <1>g
  <2>3. \A n \in DOMAIN b : b[n].start < b[n].end
    BY <1>9, <1>e, <1>f
  <2> QED
    BY <2>1, <2>2, <2>3 DEF Tiling
<1>j. ASSUME NEW i, TypeIsBehind(s, i) PROVE FALSE
  <2>1. PICK ord \in InOrder(s) : Kept(s, ord) = <<>>
    BY DEF TreeBoundaries
  <2> QED
    BY <1>j, <2>1, TypesAreKept
<1> QED
  BY <1>e, <1>i, <1>j DEF Cuttable

\* The boundaries from one position up to the next, from which the pieces were cut:
\* each is a run of them, one alone if it is longer than desired; a piece starts at a
\* type or where it and the piece before would not go together, and every type starts one.
Piece(s) == [start : 0..s.size, end : 0..s.size]
RunOf(b, from, pieces, c) ==
  /\ from[c] < from[c + 1]
  /\ pieces[c].start = b[from[c]].start /\ pieces[c].end = b[from[c + 1] - 1].end
  /\ pieces[c].end - pieces[c].start > Desired => from[c + 1] = from[c] + 1
CutFrom(b, from, pieces, upto) ==
  /\ from \in [1..(Len(pieces) + 1) -> 1..upto] /\ from[1] = 1 /\ from[Len(pieces) + 1] = upto
  /\ \A c \in 1..Len(pieces) : RunOf(b, from, pieces, c)
  /\ \A c \in 2..Len(pieces) : b[from[c]].barrier \/ b[from[c]].end - pieces[c - 1].start > Desired
  /\ \A g \in 2..(upto - 1) : b[g].barrier => \E c \in 1..Len(pieces) : from[c] = g
IsCut(s, b, pieces, upto) ==
  /\ upto \in 2..(Len(b) + 1)
  /\ pieces \in Seq(Piece(s)) /\ pieces # <<>>
  /\ \E from \in [1..(Len(pieces) + 1) -> 1..upto] : CutFrom(b, from, pieces, upto)

ChunkInv ==
  /\ phase \in {"read", "merge", "done"}
  /\ current \in [start : Int, end : Int, length : Int] /\ current.length = current.end - current.start
  /\ phase = "read" \/ (phase = "done" /\ source.blank) =>
       groups = <<>> /\ at = 0 /\ merged = <<>> /\ chunks = <<>>
  /\ phase = "done" /\ source.blank => source.nodes = <<>>
  /\ phase = "read" \/ ~source.blank => source \in Sources
  /\ phase = "merge" =>
       /\ ~source.blank /\ chunks = <<>>
       /\ Cuttable(source, groups) /\ merged \in Seq(Piece(source)) /\ IsCut(source, groups, Append(merged, Closed), at)
  /\ phase = "done" /\ ~source.blank =>
       /\ at = Len(groups) + 1
       /\ Cuttable(source, groups) /\ IsCut(source, groups, merged, at)
       /\ chunks = [n \in DOMAIN merged |-> Chunk(source, merged[n])]

LEMMA BoundsFollow ==
  ASSUME NEW s, s.size \in Nat, NEW b \in Seq(Bounds(s)), Tiling(b, 0, s.size)
  PROVE  \A i, j \in DOMAIN b : i < j => b[i].end <= b[j].start
<1> DEFINE I == {d \in Nat : \A i, j \in DOMAIN b : j = i + 1 + d => b[i].end <= b[j].start}
<1>1. /\ Len(b) \in Nat /\ DOMAIN b = 1..Len(b)
      /\ \A i \in DOMAIN b : b[i].start \in Nat /\ b[i].end \in Nat /\ b[i].start < b[i].end
      /\ \A i \in DOMAIN b : i + 1 \in DOMAIN b => b[i].end = b[i + 1].start
  <2>1. Len(b) \in Nat /\ DOMAIN b = 1..Len(b)
    OBVIOUS
  <2>2. \A i \in DOMAIN b : b[i] \in Bounds(s)
    OBVIOUS
  <2>3. \A i \in DOMAIN b : i + 1 \in DOMAIN b => i \in 1..(Len(b) - 1)
    BY <2>1
  <2> QED
    BY <2>1, <2>2, <2>3 DEF Tiling, Bounds
<1>2. 0 \in I
  BY <1>1
<1>3. ASSUME NEW d \in I PROVE d + 1 \in I
  <2> SUFFICES ASSUME NEW i \in DOMAIN b, NEW j \in DOMAIN b, j = i + 1 + (d + 1)
               PROVE  b[i].end <= b[j].start
    OBVIOUS
  <2>1. j - 1 \in DOMAIN b /\ j - 1 = i + 1 + d /\ (j - 1) + 1 = j
    BY <1>1
  <2>2. b[i].end <= b[j - 1].start
    BY <2>1
  <2>3. b[j - 1].end = b[j].start
    BY <1>1, <2>1
  <2> QED
    BY <1>1, <2>1, <2>2, <2>3, SMTT(30)
<1> HIDE DEF I
<1>4. I = Nat
  BY <1>2, <1>3, Induction DEF I
<1> SUFFICES ASSUME NEW i \in DOMAIN b, NEW j \in DOMAIN b, i < j PROVE b[i].end <= b[j].start
  OBVIOUS
<1>5. j - i - 1 \in Nat /\ j = i + 1 + (j - i - 1)
  BY <1>1
<1> QED
  BY <1>4, <1>5 DEF I

\* Cutting before the next boundary.
LEMMA CutGoesOn ==
  ASSUME NEW s, s.size \in Nat, NEW b, Cuttable(s, b), NEW pieces, NEW upto, IsCut(s, b, pieces, upto),
         upto <= Len(b),
         b[upto].barrier \/ b[upto].end - pieces[Len(pieces)].start > Desired
  PROVE  IsCut(s, b, Append(pieces, [start |-> b[upto].start, end |-> b[upto].end]), upto + 1)
<1> DEFINE n == Len(pieces)
           new == [start |-> b[upto].start, end |-> b[upto].end]
           q == Append(pieces, new)
<1>1. PICK from \in [1..(n + 1) -> 1..upto] : CutFrom(b, from, pieces, upto)
  BY DEF IsCut
<1> DEFINE f == [c \in 1..(n + 2) |-> IF c = n + 2 THEN upto + 1 ELSE from[c]]
<1>2. /\ b \in Seq(Bounds(s)) /\ Len(b) \in Nat /\ upto \in 2..Len(b)
      /\ pieces \in Seq(Piece(s)) /\ n \in Nat /\ n >= 1 /\ n \in 1..n
  BY DEF Cuttable, IsCut
<1>3. b[upto] \in Bounds(s) /\ new \in Piece(s)
  <2>1. b[upto] \in Bounds(s)
    BY <1>2
  <2> QED
    BY <2>1 DEF Bounds, Piece
<1> HIDE DEF new
<1>4. q \in Seq(Piece(s)) /\ q # <<>> /\ Len(q) = n + 1 /\ q[n + 1] = new /\ \A c \in 1..n : q[c] = pieces[c]
  BY <1>2, <1>3
<1> HIDE DEF q, n
<1>5. f \in [1..(n + 2) -> 1..(upto + 1)] /\ f[n + 2] = upto + 1 /\ \A c \in 1..(n + 1) : f[c] = from[c]
  <2>1. \A c \in 1..(n + 2) : f[c] \in 1..(upto + 1)
    <3>1. \A c \in 1..(n + 2) : c # n + 2 => c \in 1..(n + 1)
      BY <1>2
    <3>2. \A c \in 1..(n + 1) : from[c] \in 1..upto
      BY <1>1
    <3>3. 1..upto \subseteq 1..(upto + 1) /\ upto + 1 \in 1..(upto + 1)
      BY <1>2
    <3> QED
      BY <3>1, <3>2, <3>3
  <2>2. \A c \in 1..(n + 1) : c \in 1..(n + 2) /\ c # n + 2
    BY <1>2
  <2>3. n + 2 \in 1..(n + 2)
    BY <1>2
  <2> QED
    BY <2>1, <2>2, <2>3
<1> HIDE DEF f
<1>6. from[1] = 1 /\ from[n + 1] = upto /\ (\A c \in 1..n : RunOf(b, from, pieces, c))
      /\ (\A c \in 2..n : b[from[c]].barrier \/ b[from[c]].end - pieces[c - 1].start > Desired)
      /\ \A g \in 2..(upto - 1) : b[g].barrier => \E c \in 1..n : from[c] = g
  BY <1>1 DEF CutFrom, n
<1>7. ASSUME NEW c \in 1..(n + 1) PROVE RunOf(b, f, q, c)
  <2>1. CASE c \in 1..n
    <3>1. c + 1 \in 1..(n + 1) /\ c \in 1..(n + 1)
      BY <1>2, <2>1
    <3>2. f[c] = from[c] /\ f[c + 1] = from[c + 1] /\ q[c] = pieces[c]
      BY <1>4, <1>5, <2>1, <3>1
    <3> QED
      BY <1>6, <2>1, <3>2 DEF RunOf
  <2>2. CASE c = n + 1
    <3>1. f[c] = upto /\ f[c + 1] = upto + 1 /\ q[c] = new
      <4>1. n + 1 \in 1..(n + 1) /\ (n + 1) + 1 = n + 2
        BY <1>2, SMTT(30)
      <4> QED
        BY <1>4, <1>5, <1>6, <2>2, <4>1
    <3>2. f[c] < f[c + 1] /\ f[c + 1] - 1 = upto /\ f[c + 1] = f[c] + 1
      BY <1>2, <3>1
    <3> QED
      BY <3>1, <3>2 DEF RunOf, new
  <2> QED
    BY <1>2, <2>1, <2>2
<1>8. ASSUME NEW c \in 2..(n + 1)
      PROVE  b[f[c]].barrier \/ b[f[c]].end - q[c - 1].start > Desired
  <2>1. c \in 1..(n + 1) /\ c - 1 \in 1..n
    BY <1>2
  <2>2. f[c] = from[c] /\ q[c - 1] = pieces[c - 1]
    BY <1>4, <1>5, <2>1
  <2>3. CASE c \in 2..n
    BY <1>6, <2>2, <2>3
  <2>4. CASE c = n + 1
    <3>1. c - 1 = n /\ f[c] = upto
      BY <1>2, <1>6, <2>2, <2>4
    <3> QED
      BY <2>2, <3>1 DEF n
  <2> QED
    BY <1>2, <2>3, <2>4
<1>9. ASSUME NEW g \in 2..upto, b[g].barrier PROVE \E c \in 1..(n + 1) : f[c] = g
  <2>1. CASE g \in 2..(upto - 1)
    <3>1. PICK c \in 1..n : from[c] = g
      BY <1>6, <1>9, <2>1
    <3>2. c \in 1..(n + 1)
      BY <1>2
    <3> QED
      BY <1>5, <3>1, <3>2
  <2>2. CASE g = upto
    <3>1. n + 1 \in 1..(n + 1)
      BY <1>2
    <3> QED
      BY <1>5, <1>6, <2>2, <3>1
  <2> QED
    BY <1>2, <2>1, <2>2
<1>a. upto + 1 \in 2..(Len(b) + 1) /\ (upto + 1) - 1 = upto /\ Len(q) + 1 = n + 2 /\ 1 \in 1..(n + 1)
  BY <1>2, <1>4
<1>b. CutFrom(b, f, q, upto + 1)
  BY <1>4, <1>5, <1>6, <1>7, <1>8, <1>9, <1>a DEF CutFrom
<1> QED
  BY <1>4, <1>5, <1>a, <1>b DEF IsCut, q, new

\* Taking the next boundary into the last piece.
LEMMA CutWidens ==
  ASSUME NEW s, s.size \in Nat, NEW b, Cuttable(s, b), NEW before \in Seq(Piece(s)), NEW old \in Piece(s),
         NEW upto, IsCut(s, b, Append(before, old), upto), upto <= Len(b),
         ~b[upto].barrier, ~(b[upto].end - old.start > Desired)
  PROVE  IsCut(s, b, Append(before, [old EXCEPT !.end = b[upto].end]), upto + 1)
<1> DEFINE n == Len(before) + 1
           p == Append(before, old)
           new == [old EXCEPT !.end = b[upto].end]
           q == Append(before, new)
<1>1. /\ b \in Seq(Bounds(s)) /\ Len(b) \in Nat /\ upto \in 2..Len(b)
      /\ n \in Nat /\ n >= 1 /\ n \in 1..n
      /\ Len(p) = n /\ p[n] = old /\ \A c \in 1..(n - 1) : p[c] = before[c]
  BY DEF Cuttable, IsCut
<1>2. PICK from \in [1..(n + 1) -> 1..upto] : CutFrom(b, from, p, upto)
  BY <1>1 DEF IsCut
<1> DEFINE f == [c \in 1..(n + 1) |-> IF c = n + 1 THEN upto + 1 ELSE from[c]]
<1>3. new \in Piece(s) /\ new.start = old.start /\ new.end = b[upto].end
  <2>1. b[upto] \in Bounds(s)
    BY <1>1
  <2> QED
    BY <2>1 DEF Bounds, Piece
<1> HIDE DEF new
<1>4. /\ q \in Seq(Piece(s)) /\ q # <<>> /\ Len(q) = n /\ q[n] = new /\ \A c \in 1..(n - 1) : q[c] = before[c]
  BY <1>1, <1>3, SMTT(30)
<1> HIDE DEF p, q, n
<1>5. f \in [1..(n + 1) -> 1..(upto + 1)] /\ f[n + 1] = upto + 1 /\ \A c \in 1..n : f[c] = from[c]
  <2>1. \A c \in 1..(n + 1) : from[c] \in 1..upto
    BY <1>2
  <2>2. 1..upto \subseteq 1..(upto + 1) /\ upto + 1 \in 1..(upto + 1)
    BY <1>1
  <2>3. \A c \in 1..(n + 1) : f[c] \in 1..(upto + 1)
    BY <2>1, <2>2
  <2>4. \A c \in 1..n : c \in 1..(n + 1) /\ c # n + 1
    BY <1>1
  <2>5. n + 1 \in 1..(n + 1)
    BY <1>1
  <2> QED
    BY <2>3, <2>4, <2>5
<1> HIDE DEF f
<1>6. from[1] = 1 /\ from[n + 1] = upto /\ (\A c \in 1..n : RunOf(b, from, p, c))
      /\ (\A c \in 2..n : b[from[c]].barrier \/ b[from[c]].end - p[c - 1].start > Desired)
      /\ \A g \in 2..(upto - 1) : b[g].barrier => \E c \in 1..n : from[c] = g
  BY <1>1, <1>2 DEF CutFrom
<1>7. ASSUME NEW c \in 1..n PROVE RunOf(b, f, q, c)
  <2>1. CASE c \in 1..(n - 1)
    <3>1. c + 1 \in 1..n /\ c \in 1..n
      BY <1>1, <2>1
    <3>2. f[c] = from[c] /\ f[c + 1] = from[c + 1] /\ q[c] = p[c]
      BY <1>1, <1>4, <1>5, <2>1, <3>1
    <3> QED
      BY <1>6, <3>1, <3>2 DEF RunOf
  <2>2. CASE c = n
    <3>1. from[n] < upto /\ p[n].start = b[from[n]].start
      BY <1>1, <1>6 DEF RunOf
    <3>2. f[n] = from[n] /\ f[n + 1] = upto + 1 /\ from[n] \in 1..upto
      <4>1. n \in 1..(n + 1)
        BY <1>1
      <4> QED
        BY <1>1, <1>2, <1>5, <4>1
    <3>3. f[n] < f[n + 1] /\ f[n + 1] - 1 = upto
      BY <1>1, <3>1, <3>2
    <3>4. q[n].start = b[f[n]].start /\ q[n].end = b[upto].end /\ ~(q[n].end - q[n].start > Desired)
      BY <1>1, <1>3, <1>4, <3>1, <3>2
    <3> QED
      BY <2>2, <3>3, <3>4 DEF RunOf
  <2> QED
    BY <1>1, <2>1, <2>2
<1>8. ASSUME NEW c \in 2..n
      PROVE  b[f[c]].barrier \/ b[f[c]].end - q[c - 1].start > Desired
  <2>1. c \in 1..n /\ c - 1 \in 1..(n - 1)
    BY <1>1
  <2>2. f[c] = from[c] /\ q[c - 1] = p[c - 1]
    BY <1>1, <1>4, <1>5, <2>1
  <2> QED
    BY <1>6, <2>2
<1>9. ASSUME NEW g \in 2..upto, b[g].barrier PROVE \E c \in 1..n : f[c] = g
  <2>1. g \in 2..(upto - 1)
    <3>1. g # upto
      BY <1>9
    <3> QED
      BY <1>1, <3>1
  <2>2. PICK c \in 1..n : from[c] = g
    BY <1>6, <1>9, <2>1
  <2> QED
    BY <1>5, <2>2
<1>a. upto + 1 \in 2..(Len(b) + 1) /\ (upto + 1) - 1 = upto /\ Len(q) + 1 = n + 1 /\ 1 \in 1..n
  BY <1>1, <1>4
<1>b. CutFrom(b, f, q, upto + 1)
  BY <1>4, <1>5, <1>6, <1>7, <1>8, <1>9, <1>a DEF CutFrom
<1> QED
  BY <1>4, <1>5, <1>a, <1>b DEF IsCut, q, new

LEMMA ChunkInitial == Init => ChunkInv
BY DEF Init, ChunkInv, NoGroup

LEMMA ChunksStandStill == NoChunks => ChunkInv
BY DEF NoChunks, ChunkInv, NoGroup, Nothing

LEMMA SizeOfSource == ASSUME NEW s \in Sources PROVE s.size \in Nat
BY SourcesAssumption

\* The loop is entered with the first boundary in hand.
LEMMA GroupStep ==
  ASSUME ChunkInv, phase = "read", ~source.blank, NEW b, Cuttable(source, b), Group(b)
  PROVE  ChunkInv'
<1> DEFINE one == [start |-> b[1].start, end |-> b[1].end]
           from == [c \in 1..2 |-> c]
<1>1. source \in Sources /\ merged = <<>> /\ chunks = <<>> /\ source.size \in Nat
  BY SizeOfSource DEF ChunkInv
<1>2. b \in Seq(Bounds(source)) /\ Len(b) \in Nat /\ Len(b) >= 1 /\ b[1] \in Bounds(source)
  BY DEF Cuttable
<1>3. one \in Piece(source)
  BY <1>2 DEF Bounds, Piece
<1>4. merged' = <<>> /\ groups' = b /\ at' = 2 /\ phase' = "merge" /\ chunks' = <<>> /\ source' = source
      /\ current' = Open(b[1])
  BY <1>1 DEF Group
<1>5. Closed' = one
  BY <1>4 DEF Closed, Open
<1>6. Append(<<>>, one) \in Seq(Piece(source)) /\ Append(<<>>, one) # <<>> /\ Len(Append(<<>>, one)) = 1
      /\ Append(<<>>, one)[1] = one
  BY <1>3
<1>7. from \in [1..2 -> 1..2] /\ from[1] = 1 /\ from[2] = 2
  OBVIOUS
<1> HIDE DEF from
<1>8. CutFrom(b, from, Append(<<>>, one), 2)
  <2>1. ASSUME NEW c \in 1..1 PROVE RunOf(b, from, Append(<<>>, one), c)
    <3>1. c = 1 /\ from[c + 1] = 2 /\ from[c] = 1
      BY <1>7
    <3> QED
      BY <1>6, <3>1 DEF RunOf
  <2> QED
    BY <1>6, <1>7, <2>1 DEF CutFrom
<1>9. IsCut(source, b, Append(<<>>, one), 2)
  BY <1>2, <1>6, <1>7, <1>8 DEF IsCut
<1>a. current' \in [start : Int, end : Int, length : Int] /\ current'.length = current'.end - current'.start
  BY <1>1, <1>2, <1>4 DEF Open, Bounds
<1>b. Append(merged, Closed)' = Append(<<>>, one)
  BY <1>4, <1>5
<1> HIDE DEF one
<1>c. IsCut(source', groups', Append(merged, Closed)', at') /\ Cuttable(source', groups')
  BY <1>4, <1>9, <1>b
<1>d. merged' \in Seq(Piece(source'))
  BY <1>4
<1> QED
  BY <1>1, <1>4, <1>a, <1>c, <1>d DEF ChunkInv

LEMMA BoundsAreNumbers ==
  ASSUME NEW s, s.size \in Nat, NEW g \in Bounds(s)
  PROVE  g.start \in Int /\ g.end \in Int /\ g.barrier \in BOOLEAN
BY DEF Bounds

\* What the loop holds.
LEMMA InTheLoop ==
  ASSUME ChunkInv, phase = "merge"
  PROVE  /\ ~source.blank /\ source \in Sources /\ source.size \in Nat /\ chunks = <<>>
         /\ current \in [start : Int, end : Int, length : Int] /\ current.length = current.end - current.start
         /\ Cuttable(source, groups) /\ groups \in Seq(Bounds(source))
         /\ merged \in Seq(Piece(source)) /\ Closed \in Piece(source)
         /\ IsCut(source, groups, Append(merged, Closed), at)
         /\ at \in 2..(Len(groups) + 1) /\ Len(groups) \in Nat
         /\ at <= Len(groups) => current.end = groups[at].start
         /\ current.start \in Int /\ current.end \in Int
<1>1. /\ ~source.blank /\ source \in Sources /\ source.size \in Nat /\ chunks = <<>>
      /\ current \in [start : Int, end : Int, length : Int] /\ current.length = current.end - current.start
      /\ Cuttable(source, groups) /\ groups \in Seq(Bounds(source))
      /\ merged \in Seq(Piece(source))
      /\ IsCut(source, groups, Append(merged, Closed), at)
      /\ at \in 2..(Len(groups) + 1)
  BY SizeOfSource DEF ChunkInv, Cuttable, IsCut
<1> DEFINE p == Append(merged, Closed)
           n == Len(merged) + 1
<1>2. n \in Nat /\ n \in 1..n /\ Len(p) = n /\ p[n] = Closed
  BY <1>1
<1>3. p \in Seq(Piece(source))
  BY <1>1 DEF IsCut
<1>4. PICK from \in [1..(n + 1) -> 1..at] : CutFrom(groups, from, p, at)
  BY <1>1, <1>2 DEF IsCut
<1> HIDE DEF p, n
<1>5. Closed \in Piece(source)
  BY <1>2, <1>3
<1>6. from[n + 1] = at /\ p[n].end = groups[from[n + 1] - 1].end
  BY <1>2, <1>4 DEF CutFrom, RunOf
<1>7. current.end = groups[at - 1].end
  BY <1>2, <1>6 DEF Closed
<1>8. ASSUME at <= Len(groups) PROVE current.end = groups[at].start
  <2>1. at - 1 \in 1..(Len(groups) - 1) /\ (at - 1) + 1 = at
    BY <1>1, <1>8
  <2> QED
    BY <1>1, <1>7, <2>1 DEF Cuttable, Tiling
<1>9. current.start \in Int /\ current.end \in Int /\ Len(groups) \in Nat
  BY <1>1
<1> QED
  BY <1>1, <1>5, <1>8, <1>9

LEMMA PartingStep == ASSUME ChunkInv, Part PROVE ChunkInv'
<1> DEFINE p == Append(merged, Closed)
           g == groups[at]
           new == [start |-> g.start, end |-> g.end]
<1>1. phase = "merge" /\ at <= Len(groups) /\ Parted(g) /\ merged' = p /\ current' = Open(g) /\ at' = at + 1
      /\ UNCHANGED <<source, groups, chunks, phase>>
  BY DEF Part
<1>2. /\ ~source.blank /\ source \in Sources /\ source.size \in Nat /\ chunks = <<>>
      /\ current \in [start : Int, end : Int, length : Int] /\ current.length = current.end - current.start
      /\ Cuttable(source, groups) /\ groups \in Seq(Bounds(source))
      /\ merged \in Seq(Piece(source)) /\ Closed \in Piece(source)
      /\ IsCut(source, groups, p, at)
      /\ at \in 2..(Len(groups) + 1) /\ Len(groups) \in Nat
      /\ current.start \in Int /\ current.end \in Int /\ current.end = g.start
  BY <1>1, InTheLoop
<1>3. g \in Bounds(source) /\ g.start \in Int /\ g.end \in Int /\ g.barrier \in BOOLEAN
  <2>1. g \in Bounds(source)
    BY <1>1, <1>2
  <2> HIDE DEF g
  <2> QED
    BY <1>2, <2>1, BoundsAreNumbers
<1>4. g.barrier \/ g.end - p[Len(p)].start > Desired
  <2>1. p[Len(p)] = Closed
    BY <1>2
  <2> HIDE DEF g
  <2>2. g.barrier \/ current.length + g.end - g.start > Desired
    BY <1>1 DEF Parted
  <2>3. current.length + g.end - g.start = g.end - current.start
    BY <1>2, <1>3
  <2> QED
    BY <2>1, <2>2, <2>3 DEF Closed
<1>5. IsCut(source, groups, Append(p, new), at + 1)
  BY <1>1, <1>2, <1>4, CutGoesOn
<1>6. Append(merged, Closed)' = Append(p, new)
  BY <1>1 DEF Closed, Open
<1>7. p \in Seq(Piece(source))
  BY <1>2
<1> HIDE DEF p, new, g
<1>8. current' \in [start : Int, end : Int, length : Int] /\ current'.length = current'.end - current'.start
  <2>1. current' = [start |-> g.start, end |-> g.end, length |-> g.end - g.start]
    BY <1>1 DEF Open
  <2>2. g.end - g.start \in Int
    BY <1>3
  <2> QED
    BY <1>3, <2>1, <2>2
<1>9. IsCut(source', groups', Append(merged, Closed)', at') /\ Cuttable(source', groups') /\ merged' \in Seq(Piece(source'))
  BY <1>1, <1>2, <1>5, <1>6, <1>7
<1> QED
  BY <1>1, <1>2, <1>8, <1>9 DEF ChunkInv

LEMMA JoinStep == ASSUME ChunkInv, Join PROVE ChunkInv'
<1> DEFINE g == groups[at]
           new == [Closed EXCEPT !.end = g.end]
<1>1. phase = "merge" /\ at <= Len(groups) /\ ~Parted(g) /\ at' = at + 1
      /\ current' = [current EXCEPT !.end = g.end, !.length = @ + g.end - g.start]
      /\ UNCHANGED <<source, groups, merged, chunks, phase>>
  BY DEF Join
<1>2. /\ ~source.blank /\ source \in Sources /\ source.size \in Nat /\ chunks = <<>>
      /\ current \in [start : Int, end : Int, length : Int] /\ current.length = current.end - current.start
      /\ Cuttable(source, groups) /\ groups \in Seq(Bounds(source))
      /\ merged \in Seq(Piece(source)) /\ Closed \in Piece(source)
      /\ IsCut(source, groups, Append(merged, Closed), at)
      /\ at \in 2..(Len(groups) + 1) /\ Len(groups) \in Nat
      /\ current.start \in Int /\ current.end \in Int /\ current.end = g.start
  BY <1>1, InTheLoop
<1>3. g \in Bounds(source) /\ g.start \in Int /\ g.end \in Int /\ g.barrier \in BOOLEAN
  <2>1. g \in Bounds(source)
    BY <1>1, <1>2
  <2> HIDE DEF g
  <2> QED
    BY <1>2, <2>1, BoundsAreNumbers
<1>5. ~g.barrier /\ ~(g.end - Closed.start > Desired)
  <2> HIDE DEF g
  <2>1. ~g.barrier /\ ~(current.length + g.end - g.start > Desired)
    BY <1>1 DEF Parted
  <2>2. current.length + g.end - g.start = g.end - current.start
    BY <1>2, <1>3
  <2> QED
    BY <2>1, <2>2 DEF Closed
<1>6. IsCut(source, groups, Append(merged, new), at + 1)
  BY <1>1, <1>2, <1>5, CutWidens
<1>7. Closed' = new
  BY <1>1, <1>2 DEF Closed
<1>8. current' \in [start : Int, end : Int, length : Int] /\ current'.length = current'.end - current'.start
  <2> HIDE DEF g
  <2>0. current.length + g.end - g.start \in Int
    BY <1>2, <1>3
  <2>1. current' \in [start : Int, end : Int, length : Int]
    BY <1>1, <1>2, <1>3, <2>0
  <2>2. current'.start = current.start /\ current'.end = g.end /\ current'.length = current.length + g.end - g.start
    BY <1>1, <1>2
  <2>3. current.start \in Int /\ current.end \in Int
    BY <1>2
  <2> HIDE DEF Closed
  <2>4. current.end - current.start + g.end - g.start = g.end - current.start
    BY <1>2, <1>3, <2>3
  <2> QED
    BY <1>2, <2>1, <2>2, <2>4
<1>9. Append(merged, Closed)' = Append(merged, new)
  BY <1>1, <1>7
<1> HIDE DEF g, new
<1>a. IsCut(source', groups', Append(merged, Closed)', at') /\ Cuttable(source', groups') /\ merged' \in Seq(Piece(source'))
  BY <1>1, <1>2, <1>6, <1>9
<1> QED
  BY <1>1, <1>2, <1>8, <1>a DEF ChunkInv

LEMMA ChunkStep == ChunkInv /\ [Next]_vars => ChunkInv'
<1> SUFFICES ASSUME ChunkInv, [Next]_vars PROVE ChunkInv'
  OBVIOUS
<1>1. CASE Blank
  <2>1. source.nodes = <<>>
    BY <1>1, SourcesAssumption DEF Blank, ChunkInv
  <2> QED
    BY <1>1, <2>1 DEF Blank, ChunkInv
<1>2. CASE ByDefinitions
  <2>1. PICK b \in TreeBoundaries(source) : b # <<>> /\ Group(b)
    BY <1>2 DEF ByDefinitions
  <2>2. source \in Sources /\ phase = "read" /\ ~source.blank
    BY <1>2 DEF ByDefinitions, ChunkInv
  <2> QED
    BY <2>1, <2>2, DefinitionsAreCuttable, GroupStep
<1>3. CASE ByLines
  <2>1. PICK b \in LineBoundaries(source) : Group(b)
    BY <1>3 DEF ByLines
  <2>2. source \in Sources /\ phase = "read" /\ ~source.blank /\ <<>> \in TreeBoundaries(source)
    BY <1>3 DEF ByLines, ChunkInv
  <2> QED
    BY <2>1, <2>2, LinesAreCuttable, GroupStep
<1>4. CASE Part
  BY <1>4, PartingStep
<1>5. CASE Join
  BY <1>5, JoinStep
<1>6. CASE Return
  <2>1. phase = "merge" /\ at > Len(groups) /\ merged' = Append(merged, Closed)
        /\ chunks' = [n \in DOMAIN merged' |-> Chunk(source, merged'[n])] /\ phase' = "done"
        /\ UNCHANGED <<source, groups, at, current>>
    BY <1>6 DEF Return
  <2>2. /\ ~source.blank /\ source \in Sources
        /\ Cuttable(source, groups) /\ groups \in Seq(Bounds(source))
        /\ IsCut(source, groups, Append(merged, Closed), at)
        /\ at \in 2..(Len(groups) + 1)
    BY <2>1, InTheLoop
  <2>3. at = Len(groups) + 1
    BY <2>1, <2>2
  <2>4. IsCut(source', groups', merged', at') /\ Cuttable(source', groups')
    BY <2>1, <2>2
  <2>5. chunks' = [n \in DOMAIN merged' |-> Chunk(source', merged'[n])]
    BY <2>1
  <2> QED
    BY <2>1, <2>2, <2>3, <2>4, <2>5 DEF ChunkInv
<1>7. CASE UNCHANGED vars
  BY <1>7 DEF vars, ChunkInv, Closed
<1> QED
  BY <1>1, <1>2, <1>3, <1>4, <1>5, <1>6, <1>7 DEF Next

\* Where the pieces begin and end among the boundaries.
Laid(s, b, from, pieces) ==
  /\ b \in Seq(Bounds(s)) /\ Len(b) \in Nat /\ DOMAIN b = 1..Len(b)
  /\ Len(pieces) \in Nat /\ Len(pieces) >= 1 /\ DOMAIN pieces = 1..Len(pieces)
  /\ \A g \in DOMAIN b : b[g].start \in 0..s.size /\ b[g].end \in 0..s.size /\ b[g].start < b[g].end
  /\ \A g, h \in DOMAIN b : g < h => b[g].end <= b[h].start
  /\ \A c \in 1..Len(pieces) :
       /\ c + 1 \in 1..(Len(pieces) + 1)
       /\ from[c] \in DOMAIN b /\ from[c + 1] - 1 \in DOMAIN b /\ from[c] <= from[c + 1] - 1
       /\ pieces[c].start = b[from[c]].start /\ pieces[c].end = b[from[c + 1] - 1].end
       /\ pieces[c].start < pieces[c].end
       /\ pieces[c].start \in 0..s.size /\ pieces[c].end \in 0..s.size

LEMMA RunsOfCut ==
  ASSUME NEW s, s.size \in Nat, NEW b, Cuttable(s, b), NEW pieces, NEW upto, IsCut(s, b, pieces, upto),
         NEW from \in [1..(Len(pieces) + 1) -> 1..upto], CutFrom(b, from, pieces, upto)
  PROVE  Laid(s, b, from, pieces)
<1> DEFINE n == Len(pieces)
<1>1. /\ b \in Seq(Bounds(s)) /\ Len(b) \in Nat /\ DOMAIN b = 1..Len(b) /\ upto \in 2..(Len(b) + 1)
      /\ n \in Nat /\ n >= 1 /\ DOMAIN pieces = 1..n
  BY DEF Cuttable, IsCut
<1>2. \A g \in DOMAIN b : b[g].start \in 0..s.size /\ b[g].end \in 0..s.size /\ b[g].start < b[g].end
  <2>1. \A g \in DOMAIN b : b[g] \in Bounds(s)
    BY <1>1
  <2>2. \A g \in DOMAIN b : b[g].start < b[g].end
    BY DEF Cuttable, Tiling
  <2> QED
    BY <2>1, <2>2 DEF Bounds
<1>3. \A g, h \in DOMAIN b : g < h => b[g].end <= b[h].start
  <2>1. Tiling(b, 0, s.size)
    BY DEF Cuttable
  <2> QED
    BY <1>1, <2>1, BoundsFollow
<1>4. ASSUME NEW c \in 1..n
      PROVE  /\ c + 1 \in 1..(n + 1)
             /\ from[c] \in DOMAIN b /\ from[c + 1] - 1 \in DOMAIN b /\ from[c] <= from[c + 1] - 1
             /\ pieces[c].start = b[from[c]].start /\ pieces[c].end = b[from[c + 1] - 1].end
             /\ pieces[c].start < pieces[c].end
             /\ pieces[c].start \in 0..s.size /\ pieces[c].end \in 0..s.size
  <2>1. c \in 1..(n + 1) /\ c + 1 \in 1..(n + 1)
    BY <1>1
  <2>2. from[c] \in 1..upto /\ from[c + 1] \in 1..upto
    BY <2>1
  <2>3. /\ from[c] < from[c + 1]
        /\ pieces[c].start = b[from[c]].start /\ pieces[c].end = b[from[c + 1] - 1].end
    BY DEF CutFrom, RunOf
  <2> DEFINE i == from[c]
             j == from[c + 1] - 1
  <2>4. i \in DOMAIN b /\ j \in DOMAIN b /\ i <= j
    BY <1>1, <2>2, <2>3
  <2> HIDE DEF i, j
  <2>5. b[i].start < b[j].end /\ b[i].start \in 0..s.size /\ b[j].end \in 0..s.size
    <3>1. CASE i = j
      BY <1>2, <2>4, <3>1
    <3>2. CASE i # j
      <4>1. i < j
        BY <1>1, <2>4, <3>2
      <4>2. b[i].end <= b[j].start
        BY <1>3, <2>4, <4>1
      <4> QED
        BY <1>2, <2>4, <4>2, SMTT(30)
    <3> QED
      BY <3>1, <3>2
  <2> QED
    BY <2>1, <2>3, <2>4, <2>5 DEF i, j
<1> QED
  BY <1>1, <1>2, <1>3, <1>4 DEF Laid

LEMMA PiecesTile ==
  ASSUME NEW s, s.size \in Nat, NEW b, Cuttable(s, b), NEW pieces, NEW upto, IsCut(s, b, pieces, upto)
  PROVE  Tiling(pieces, 0, b[upto - 1].end)
<1> DEFINE n == Len(pieces)
<1>1. PICK from \in [1..(n + 1) -> 1..upto] : CutFrom(b, from, pieces, upto)
  BY DEF IsCut
<1>2. /\ Len(b) \in Nat /\ DOMAIN b = 1..Len(b)
      /\ n \in Nat /\ n >= 1 /\ DOMAIN pieces = 1..n
      /\ \A c \in 1..n :
              /\ from[c] \in DOMAIN b /\ from[c + 1] - 1 \in DOMAIN b
              /\ pieces[c].start = b[from[c]].start /\ pieces[c].end = b[from[c + 1] - 1].end
              /\ pieces[c].start < pieces[c].end
  <2>1. Laid(s, b, from, pieces)
    BY <1>1, RunsOfCut
  <2> QED
    BY <2>1 DEF Laid
<1> HIDE DEF n
<1>3. from[1] = 1 /\ from[n + 1] = upto
  BY <1>1 DEF CutFrom, n
<1>4. b[1].start = 0 /\ \A i \in 1..(Len(b) - 1) : b[i].end = b[i + 1].start
  BY DEF Cuttable, Tiling
<1>5. 1 \in 1..n /\ n \in 1..n
  BY <1>2
<1>6. pieces[1].start = 0 /\ pieces[n].end = b[upto - 1].end
  BY <1>2, <1>3, <1>4, <1>5
<1>7. ASSUME NEW c \in 1..(n - 1) PROVE pieces[c].end = pieces[c + 1].start
  <2>1. c \in 1..n /\ c + 1 \in 1..n
    BY <1>2
  <2> DEFINE j == from[c + 1]
  <2>2. pieces[c].end = b[j - 1].end /\ pieces[c + 1].start = b[j].start /\ j - 1 \in 1..Len(b) /\ j \in 1..Len(b)
    BY <1>2, <2>1
  <2> HIDE DEF j
  <2>3. j - 1 \in 1..(Len(b) - 1) /\ (j - 1) + 1 = j
    BY <1>2, <2>2
  <2>4. b[j - 1].end = b[(j - 1) + 1].start
    BY <1>4, <2>3
  <2> QED
    BY <2>2, <2>3, <2>4
<1> QED
  BY <1>2, <1>6, <1>7 DEF Tiling, n

LEMMA BreaksAreCounted ==
  ASSUME NEW s \in Sources
  PROVE  /\ \A o \in Int : BreaksBefore(s, o) \in Nat
         /\ \A o, p \in Int : o <= p => BreaksBefore(s, o) <= BreaksBefore(s, p)
         /\ \A o \in Int : BreaksBefore(s, o) <= BreaksBefore(s, o - 1) + 1
<1> DEFINE B(o) == {x \in s.breaks : x < o}
<1>1. s.size \in Nat /\ s.breaks \subseteq 0..(s.size - 1)
  BY SourcesAssumption
<1>2. \A x \in s.breaks : x \in Int
  BY <1>1
<1>3. IsFiniteSet(s.breaks)
  <2>1. IsFiniteSet(0..(s.size - 1))
    BY <1>1, FS_Interval
  <2> QED
    BY <1>1, <2>1, FS_Subset
<1>4. \A o : IsFiniteSet(B(o)) /\ Cardinality(B(o)) \in Nat
  <2> TAKE o
  <2>1. B(o) \subseteq s.breaks
    OBVIOUS
  <2> HIDE DEF B
  <2>2. IsFiniteSet(B(o))
    BY <1>3, <2>1, FS_Subset
  <2> QED
    BY <2>2, FS_CardinalityType
<1>5. ASSUME NEW o \in Int, NEW p \in Int, o <= p PROVE B(o) \subseteq B(p)
  BY <1>2, <1>5
<1>6. ASSUME NEW o \in Int PROVE B(o) \subseteq B(o - 1) \cup {o - 1}
  BY <1>2
<1> HIDE DEF B
<1>7. ASSUME NEW o \in Int, NEW p \in Int, o <= p PROVE Cardinality(B(o)) <= Cardinality(B(p))
  BY <1>4, <1>5, <1>7, FS_Subset
<1>8. ASSUME NEW o \in Int PROVE Cardinality(B(o)) <= Cardinality(B(o - 1)) + 1
  <2> DEFINE S == B(o - 1)
             more == S \cup {o - 1}
  <2>1. IsFiniteSet(S) /\ Cardinality(S) \in Nat
    BY <1>4
  <2> HIDE DEF S
  <2>2. IsFiniteSet(more) /\ (Cardinality(more) = Cardinality(S) \/ Cardinality(more) = Cardinality(S) + 1)
    BY <2>1, FS_AddElement
  <2>3. B(o) \subseteq more
    BY <1>6 DEF S
  <2> HIDE DEF more
  <2>4. Cardinality(B(o)) <= Cardinality(more)
    BY <2>2, <2>3, FS_Subset
  <2>5. Cardinality(B(o)) \in Nat
    BY <1>4
  <2>6. Cardinality(B(o)) <= Cardinality(S) + 1
    BY <2>1, <2>2, <2>4, <2>5
  <2> QED
    BY <2>6 DEF S
<1> QED
  BY <1>4, <1>7, <1>8 DEF BreaksBefore, B

\* The boundaries that lie in a piece are the ones it was cut from.
LEMMA WhatIsWithin ==
  ASSUME NEW s, s.size \in Nat, NEW b, NEW from, NEW pieces, Laid(s, b, from, pieces), NEW c \in DOMAIN pieces
  PROVE  {g \in DOMAIN b : pieces[c].start <= b[g].start /\ b[g].end <= pieces[c].end}
           = {g \in DOMAIN b : from[c] <= g /\ g <= from[c + 1] - 1}
<1> DEFINE i == from[c]
           j == from[c + 1] - 1
<1>1. /\ i \in DOMAIN b /\ j \in DOMAIN b /\ i <= j
      /\ pieces[c].start = b[i].start /\ pieces[c].end = b[j].end
      /\ DOMAIN b \subseteq Nat
      /\ \A g \in DOMAIN b : b[g].start \in Int /\ b[g].end \in Int /\ b[g].start < b[g].end
      /\ \A g, h \in DOMAIN b : g < h => b[g].end <= b[h].start
  BY SMTT(30) DEF Laid
<1> HIDE DEF i, j
<1>2. ASSUME NEW g \in DOMAIN b
      PROVE  b[i].start <= b[g].start /\ b[g].end <= b[j].end <=> i <= g /\ g <= j
  <2>1. i <= g => b[i].start <= b[g].start
    <3>1. CASE i = g
      BY <1>1, <3>1
    <3>2. CASE i < g
      <4>1. b[i].end <= b[g].start
        BY <1>1, <3>2
      <4> QED
        BY <1>1, <4>1
    <3> QED
      BY <1>1, <3>1, <3>2
  <2>2. ~(i <= g) => ~(b[i].start <= b[g].start)
    <3> SUFFICES ASSUME g < i PROVE ~(b[i].start <= b[g].start)
      BY <1>1
    <3>1. b[g].end <= b[i].start
      BY <1>1
    <3> QED
      BY <1>1, <3>1
  <2>3. g <= j => b[g].end <= b[j].end
    <3>1. CASE g = j
      BY <1>1, <3>1
    <3>2. CASE g < j
      <4>1. b[g].end <= b[j].start
        BY <1>1, <3>2
      <4> QED
        BY <1>1, <4>1
    <3> QED
      BY <1>1, <3>1, <3>2
  <2>4. ~(g <= j) => ~(b[g].end <= b[j].end)
    <3> SUFFICES ASSUME j < g PROVE ~(b[g].end <= b[j].end)
      BY <1>1
    <3>1. b[j].end <= b[g].start
      BY <1>1
    <3> QED
      BY <1>1, <3>1
  <2> QED
    BY <2>1, <2>2, <2>3, <2>4
<1> QED
  BY <1>1, <1>2 DEF i, j

\* What is left of a file that was cut.
LEMMA WhenDone ==
  ASSUME ChunkInv, phase = "done", ~source.blank
  PROVE  /\ source \in Sources /\ source.size \in Nat
         /\ Cuttable(source, groups) /\ IsCut(source, groups, merged, Len(groups) + 1)
         /\ DOMAIN chunks = DOMAIN merged
         /\ \A c \in DOMAIN merged : chunks[c].start = merged[c].start /\ chunks[c].end = merged[c].end
                                   /\ chunks[c] = Chunk(source, merged[c])
<1>1. source \in Sources /\ Cuttable(source, groups) /\ IsCut(source, groups, merged, Len(groups) + 1)
  BY DEF ChunkInv
<1>2. chunks = [n \in DOMAIN merged |-> Chunk(source, merged[n])]
  BY DEF ChunkInv
<1> QED
  BY <1>1, <1>2, SizeOfSource DEF Chunk

LEMMA NoneWhenBlank ==
  ASSUME ChunkInv, phase = "done" => source.blank
  PROVE  chunks = <<>> /\ DOMAIN chunks = {}
<1>1. chunks = <<>>
  BY DEF ChunkInv
<1> QED
  BY <1>1

LEMMA ChunksTileTheFile == ChunkInv => ChunksTile
<1> SUFFICES ASSUME ChunkInv PROVE ChunksTile
  OBVIOUS
<1>1. ASSUME phase = "merge" PROVE Tiling(Append(merged, Closed), 0, groups[at - 1].end)
  BY <1>1, InTheLoop, PiecesTile
<1>2. ASSUME phase = "done", ~source.blank PROVE Tiling(chunks, 0, source.size)
  <2>1. /\ source.size \in Nat /\ Cuttable(source, groups) /\ IsCut(source, groups, merged, Len(groups) + 1)
        /\ DOMAIN chunks = DOMAIN merged
        /\ \A c \in DOMAIN merged : chunks[c].start = merged[c].start /\ chunks[c].end = merged[c].end
        /\ chunks = [n \in DOMAIN merged |-> Chunk(source, merged[n])]
    BY <1>2, WhenDone DEF ChunkInv
  <2>2. Tiling(merged, 0, groups[(Len(groups) + 1) - 1].end)
    BY <2>1, PiecesTile
  <2>3. groups[(Len(groups) + 1) - 1].end = source.size
    <3>1. (Len(groups) + 1) - 1 = Len(groups)
      BY <2>1 DEF Cuttable
    <3> QED
      BY <2>1, <3>1 DEF Cuttable, Tiling
  <2>4. Len(merged) \in Nat /\ Len(merged) >= 1 /\ DOMAIN merged = 1..Len(merged)
    BY <2>1 DEF IsCut
  <2>5. Len(chunks) = Len(merged)
    BY <2>1, <2>4
  <2>6. 1 \in DOMAIN merged /\ Len(merged) \in DOMAIN merged
        /\ \A i \in 1..(Len(merged) - 1) : i \in DOMAIN merged /\ i + 1 \in DOMAIN merged
    BY <2>4
  <2> QED
    BY <2>1, <2>2, <2>3, <2>4, <2>5, <2>6 DEF Tiling
<1> QED
  BY <1>1, <1>2 DEF ChunksTile

LEMMA TypesAreStarts == ChunkInv => TypesStartChunks
<1> SUFFICES ASSUME ChunkInv, phase = "done", source.lang = "csharp", NEW i \in Definitions(source),
                    source.nodes[i].kind \in TypeKinds,
                    \E j \in Definitions(source) : source.nodes[j].start < source.nodes[i].start
             PROVE  \E c \in DOMAIN chunks : chunks[c].start = source.nodes[i].start
  BY DEF TypesStartChunks
<1>1. ~source.blank
  <2> SUFFICES ASSUME source.blank PROVE FALSE
    OBVIOUS
  <2>1. source.nodes = <<>>
    BY DEF ChunkInv
  <2> QED
    BY <2>1 DEF Definitions
<1>2. /\ source \in Sources /\ source.size \in Nat
      /\ Cuttable(source, groups) /\ IsCut(source, groups, merged, Len(groups) + 1)
      /\ DOMAIN chunks = DOMAIN merged
      /\ \A c \in DOMAIN merged : chunks[c].start = merged[c].start
  BY <1>1, WhenDone
<1>3. TypeIsBehind(source, i)
  BY DEF TypeIsBehind, IsBarrier
<1>4. PICK g \in DOMAIN groups : groups[g].barrier /\ groups[g].start = source.nodes[i].start
  BY <1>2, <1>3 DEF Cuttable
<1>5. groups[1].start = 0 /\ groups \in Seq(Bounds(source))
  BY <1>2 DEF Cuttable, Tiling
<1>6. PICK from \in [1..(Len(merged) + 1) -> 1..(Len(groups) + 1)] : CutFrom(groups, from, merged, Len(groups) + 1)
  BY <1>2 DEF IsCut
<1>7. g # 1
  <2> SUFFICES ASSUME g = 1 PROVE FALSE
    OBVIOUS
  <2>1. source.nodes[i].start = 0
    BY <1>4, <1>5
  <2>2. PICK j \in Definitions(source) : source.nodes[j].start < 0
    BY <2>1
  <2>3. j \in DOMAIN source.nodes
    <3>1. source.nodes \in Seq(Range(source.nodes))
      BY <1>2, SourcesAssumption
    <3> QED
      BY <3>1 DEF Definitions
  <2>4. source.nodes[j].start \in 0..source.size
    BY <1>2, <2>3, SourcesAssumption
  <2> QED
    BY <1>2, <2>2, <2>4
<1>8. g \in 2..((Len(groups) + 1) - 1)
  BY <1>5, <1>7
<1>9. PICK c \in 1..Len(merged) : from[c] = g
  BY <1>4, <1>6, <1>8 DEF CutFrom
<1>a. merged[c].start = groups[g].start /\ c \in DOMAIN merged
  <2>1. Laid(source, groups, from, merged)
    BY <1>2, <1>6, RunsOfCut
  <2> QED
    BY <1>2, <1>9, <2>1 DEF Laid
<1> QED
  BY <1>2, <1>4, <1>a

LEMMA LengthsAreNear == ChunkInv => NearDesiredLength
<1> SUFFICES ASSUME ChunkInv, phase = "done", NEW c \in DOMAIN chunks
             PROVE  LET within == {g \in DOMAIN groups : chunks[c].start <= groups[g].start /\ groups[g].end <= chunks[c].end}
                    IN /\ chunks[c].end - chunks[c].start > Desired => Cardinality(within) = 1
                       /\ c > 1 /\ ~groups[Min(within)].barrier
                          => groups[Min(within)].end - chunks[c - 1].start > Desired
  BY DEF NearDesiredLength
<1>1. ~source.blank
  BY NoneWhenBlank
<1>2. /\ source \in Sources /\ source.size \in Nat
      /\ Cuttable(source, groups) /\ IsCut(source, groups, merged, Len(groups) + 1)
      /\ DOMAIN chunks = DOMAIN merged
      /\ \A n \in DOMAIN merged : chunks[n].start = merged[n].start /\ chunks[n].end = merged[n].end
  BY <1>1, WhenDone
<1>3. PICK from \in [1..(Len(merged) + 1) -> 1..(Len(groups) + 1)] : CutFrom(groups, from, merged, Len(groups) + 1)
  BY <1>2 DEF IsCut
<1>4. Laid(source, groups, from, merged)
  BY <1>2, <1>3, RunsOfCut
<1> DEFINE within == {g \in DOMAIN groups : chunks[c].start <= groups[g].start /\ groups[g].end <= chunks[c].end}
           i == from[c]
           j == from[c + 1] - 1
<1>5. within = {g \in DOMAIN groups : i <= g /\ g <= j}
  <2>1. within = {g \in DOMAIN groups : merged[c].start <= groups[g].start /\ groups[g].end <= merged[c].end}
    BY <1>2
  <2> HIDE DEF within
  <2> QED
    BY <1>2, <1>4, <2>1, WhatIsWithin
<1>6. c \in 1..Len(merged) /\ Len(merged) \in Nat /\ DOMAIN merged = 1..Len(merged)
  BY <1>2, <1>4 DEF Laid
<1>7. i \in DOMAIN groups /\ j \in DOMAIN groups /\ i <= j /\ DOMAIN groups \subseteq Nat
  BY <1>4, <1>6 DEF Laid
<1>8. merged[c].end - merged[c].start > Desired => j = i
  <2>1. merged[c].end - merged[c].start > Desired => from[c + 1] = from[c] + 1
    BY <1>3, <1>6 DEF CutFrom, RunOf
  <2>2. from[c] \in Nat
    BY <1>7
  <2> QED
    BY <2>1, <2>2
<1>9. c > 1 => groups[i].barrier \/ groups[i].end - merged[c - 1].start > Desired
  <2>1. c > 1 => c \in 2..Len(merged)
    BY <1>6
  <2> QED
    BY <1>3, <2>1 DEF CutFrom
<1> HIDE DEF within, i, j
<1>a. Min(within) = i
  <2>1. i \in within /\ (\A g \in within : i <= g) /\ within \subseteq Nat
    BY <1>5, <1>7
  <2>2. \A m \in within : (\A g \in within : m <= g) => m = i
    BY <2>1
  <2> QED
    BY <2>1, <2>2 DEF Min
<1>b. chunks[c].end - chunks[c].start > Desired => Cardinality(within) = 1
  <2> SUFFICES ASSUME chunks[c].end - chunks[c].start > Desired PROVE Cardinality(within) = 1
    OBVIOUS
  <2>1. j = i
    BY <1>2, <1>8
  <2>2. within = {i}
    BY <1>5, <1>7, <2>1
  <2> QED
    BY <2>2, FS_Singleton
<1>c. c > 1 => chunks[c - 1].start = merged[c - 1].start
  <2>1. c > 1 => c - 1 \in DOMAIN merged
    BY <1>6
  <2> QED
    BY <1>2, <2>1
<1>d. c > 1 /\ ~groups[Min(within)].barrier => groups[Min(within)].end - chunks[c - 1].start > Desired
  BY <1>9, <1>a, <1>c
<1> QED
  BY <1>b, <1>d DEF within

\* A chunk's bounds and the lines it is said to hold.
LEMMA ChunkOfPiece ==
  ASSUME ChunkInv, NEW c \in DOMAIN chunks
  PROVE  /\ source \in Sources
         /\ chunks[c].start \in Int /\ chunks[c].end \in Int /\ chunks[c].start < chunks[c].end
         /\ chunks[c].first = BreaksBefore(source, chunks[c].start) + 1
         /\ chunks[c].last = BreaksBefore(source, chunks[c].end) + 1
<1>1. phase = "done" /\ ~source.blank
  BY NoneWhenBlank
<1>2. /\ source \in Sources /\ source.size \in Nat
      /\ Cuttable(source, groups) /\ IsCut(source, groups, merged, Len(groups) + 1)
      /\ c \in DOMAIN merged /\ chunks[c] = Chunk(source, merged[c])
  BY <1>1, WhenDone
<1>3. PICK from \in [1..(Len(merged) + 1) -> 1..(Len(groups) + 1)] : CutFrom(groups, from, merged, Len(groups) + 1)
  BY <1>2 DEF IsCut
<1>4. Laid(source, groups, from, merged)
  BY <1>2, <1>3, RunsOfCut
<1>5. merged[c].start \in Int /\ merged[c].end \in Int /\ merged[c].start < merged[c].end
  BY <1>2, <1>4, SMTT(30) DEF Laid
<1> QED
  BY <1>2, <1>5 DEF Chunk

LEMMA LinesAreHeld == ChunkInv => LinesHoldTheChunk
<1> SUFFICES ASSUME ChunkInv, NEW c \in DOMAIN chunks
             PROVE  /\ \A o \in chunks[c].start..(chunks[c].end - 1) :
                         BreaksBefore(source, o) + 1 \in chunks[c].first..chunks[c].last
                    /\ chunks[c].first = BreaksBefore(source, chunks[c].start) + 1
                    /\ chunks[c].last <= BreaksBefore(source, chunks[c].end - 1) + 1 + 1
  BY DEF LinesHoldTheChunk
<1> DEFINE a == chunks[c].start
           z == chunks[c].end
           L(o) == BreaksBefore(source, o)
<1>1. a \in Int /\ z \in Int /\ a < z /\ chunks[c].first = L(a) + 1 /\ chunks[c].last = L(z) + 1
  BY ChunkOfPiece
<1>2. /\ \A o \in Int : L(o) \in Nat
      /\ \A o, p \in Int : o <= p => L(o) <= L(p)
      /\ L(z) <= L(z - 1) + 1
  BY <1>1, ChunkOfPiece, BreaksAreCounted
<1> HIDE DEF a, z, L
<1>3. ASSUME NEW o \in a..(z - 1) PROVE L(o) + 1 \in (L(a) + 1)..(L(z) + 1)
  <2>1. o \in Int /\ a <= o /\ o <= z
    BY <1>1
  <2>2. L(a) <= L(o) /\ L(o) <= L(z) /\ L(a) \in Nat /\ L(o) \in Nat /\ L(z) \in Nat
    BY <1>1, <1>2, <2>1
  <2> QED
    BY <2>2
<1>4. L(z) + 1 <= L(z - 1) + 1 + 1
  <2>1. z - 1 \in Int
    BY <1>1
  <2>2. L(z) \in Nat /\ L(z - 1) \in Nat
    BY <1>1, <1>2, <2>1
  <2> QED
    BY <1>2, <2>2
<1> QED
  BY <1>1, <1>3, <1>4 DEF a, z, L

LEMMA ChunkInvSuffices == ChunkInv => ChunksAreSound
<1> SUFFICES ASSUME ChunkInv PROVE TypeOK
  BY ChunksTileTheFile, TypesAreStarts, LengthsAreNear, LinesAreHeld DEF ChunksAreSound
<1>1. at \in 0..(Len(groups) + 1) /\ \A g \in DOMAIN groups : {groups[g].start, groups[g].end} \subseteq Offsets
  <2>1. CASE phase = "merge" \/ (phase = "done" /\ ~source.blank)
    <3>1. source \in Sources /\ source.size \in Nat /\ groups \in Seq(Bounds(source)) /\ at \in 2..(Len(groups) + 1)
      BY <2>1, SizeOfSource DEF ChunkInv, Cuttable, IsCut
    <3>2. \A g \in DOMAIN groups : groups[g] \in Bounds(source)
      BY <3>1
    <3>3. at \in 0..(Len(groups) + 1)
      BY <3>1
    <3> QED
      BY <3>2, <3>3 DEF Bounds, Offsets
  <2>2. CASE ~(phase = "merge" \/ (phase = "done" /\ ~source.blank))
    <3>1. groups = <<>> /\ at = 0
      BY <2>2 DEF ChunkInv
    <3> QED
      BY <3>1
  <2> QED
    BY <2>1, <2>2
<1>2. ASSUME NEW c \in DOMAIN chunks PROVE 1 <= chunks[c].first /\ chunks[c].first <= chunks[c].last
  <2> DEFINE a == chunks[c].start
             z == chunks[c].end
             L(o) == BreaksBefore(source, o)
  <2>1. a \in Int /\ z \in Int /\ a < z /\ chunks[c].first = L(a) + 1 /\ chunks[c].last = L(z) + 1
    BY ChunkOfPiece
  <2>2. L(a) \in Nat /\ L(z) \in Nat /\ (a <= z => L(a) <= L(z))
    BY <2>1, ChunkOfPiece, BreaksAreCounted
  <2> HIDE DEF a, z, L
  <2> QED
    BY <2>1, <2>2
<1> QED
  BY <1>1, <1>2 DEF TypeOK, ChunkInv

----------------------------------------------------------------------------
(* The dependency graph.                                                   *)

LEMMA SameInGraph ==
  \A S : /\ Graph!Cardinality(S) = Cardinality(S) /\ Graph!Range(S) = Range(S)
         /\ Graph!IsInjective(S) <=> IsInjective(S)
  BY DEF Graph!Cardinality, Cardinality, Graph!Range, Range, Graph!IsInjective, IsInjective

\* A sequence and what it is made of.
LEMMA RangeIs ==
  ASSUME NEW S, NEW seq \in Seq(S)
  PROVE  /\ Len(seq) \in Nat /\ DOMAIN seq = 1..Len(seq)
         /\ Range(seq) = {seq[i] : i \in 1..Len(seq)} /\ Range(seq) \subseteq S
         /\ seq \in Seq(Range(seq))
         /\ seq = <<>> <=> Range(seq) = {}
         /\ Range(<<>>) = {}
<1>1. Len(seq) \in Nat /\ DOMAIN seq = 1..Len(seq) /\ \A i \in 1..Len(seq) : seq[i] \in S
  BY LenProperties, ElementOfSeq
<1>2. Range(seq) = {seq[i] : i \in 1..Len(seq)} /\ Range(seq) \subseteq S
  BY <1>1 DEF Range
<1>3. seq \in Seq(Range(seq))
  <2>1. seq \in [1..Len(seq) -> Range(seq)]
    BY <1>1, <1>2
  <2> QED
    BY <1>1, <2>1
<1>4. Range(<<>>) = {}
  BY DEF Range
<1>5. seq # <<>> => Range(seq) # {}
  <2>1. seq # <<>> => 1 \in 1..Len(seq)
    BY <1>1, EmptySeq
  <2> QED
    BY <1>2, <2>1
<1> QED
  BY <1>1, <1>2, <1>3, <1>4, <1>5

Keeping(w, S, seq, some) ==
  /\ w \in [0..Len(seq) -> Seq(S)]
  /\ w[0] = <<>>
  /\ \A n \in 1..Len(seq) :
       w[n] = IF seq[n] \in some THEN Append(w[n - 1], seq[n]) ELSE w[n - 1]
  /\ Graph!Kept(seq, some) = w[Len(seq)]

LEMMA KeptIs ==
  ASSUME NEW S, NEW seq \in Seq(S), NEW some
  PROVE  \E w : Keeping(w, S, seq, some)
<1> DEFINE N == Len(seq)
           P(n, locs) == IF seq[n] \in some THEN Append(locs, seq[n]) ELSE locs
           next == [x \in (1..N) \X Seq(S) |-> P(x[1], x[2])]
           u == CHOOSE kept : kept = [n \in 0..N |-> IF n = 0 THEN <<>> ELSE P(n, kept[n - 1])]
<1>1. N \in Nat /\ (\A n \in 1..N : seq[n] \in S) /\ <<>> \in Seq(S)
  BY LenProperties, ElementOfSeq, EmptySeq
<1>2. \A n \in 1..N, locs \in Seq(S) : P(n, locs) \in Seq(S)
  BY <1>1
<1>3. Graph!Kept(seq, some) = u[N]
  BY DEF Graph!Kept
<1> HIDE DEF P
<1>4. Step(next, N, Seq(S))
  BY <1>2 DEF Step
<1> HIDE DEF next
<1>5. PICK f : Iterates(f, N, Seq(S), <<>>, next)
  BY <1>1, <1>4, Recursion
<1>6. f \in [0..N -> Seq(S)] /\ f[0] = <<>> /\ \A n \in 1..N : f[n] = P(n, f[n - 1])
  <2>1. \A n \in 1..N : n - 1 \in 0..N
    BY <1>1
  <2>2. \A n \in 1..N : <<n, f[n - 1]>> \in (1..N) \X Seq(S)
    BY <1>5, <2>1 DEF Iterates
  <2>3. \A n \in 1..N : next[<<n, f[n - 1]>>] = P(n, f[n - 1])
    BY <2>2 DEF next
  <2> QED
    BY <1>5, <2>3 DEF Iterates
<1>7. f = [n \in 0..N |-> IF n = 0 THEN <<>> ELSE P(n, f[n - 1])]
  <2>1. f = [n \in 0..N |-> f[n]]
    BY <1>6
  <2>2. \A n \in 0..N : f[n] = IF n = 0 THEN <<>> ELSE P(n, f[n - 1])
    BY <1>1, <1>6
  <2> QED
    BY <2>1, <2>2, Zenon
<1>8. u = [n \in 0..N |-> IF n = 0 THEN <<>> ELSE P(n, u[n - 1])]
  BY <1>7, Zenon
<1> HIDE DEF u
<1>9. u[0] = <<>> /\ \A n \in 1..N : u[n] = P(n, u[n - 1])
  <2>1. \A n \in 0..N : u[n] = IF n = 0 THEN <<>> ELSE P(n, u[n - 1])
    BY <1>8, Zenon
  <2> QED
    BY <1>1, <2>1
<1>10. \A n \in 0..N : u[n] = f[n]
  <2>1. \A n \in 1..N : u[n - 1] = f[n - 1] => u[n] = f[n]
    BY <1>6, <1>9
  <2>2. u[0] = f[0]
    BY <1>6, <1>9
  <2> HIDE DEF N
  <2>3. Together(u, f, N)
    BY <2>1, <2>2 DEF Together
  <2> QED
    BY <1>1, <2>3, Lockstep
<1>11. u[N] = f[N]
  BY <1>1, <1>10
<1> QED
  BY <1>3, <1>6, <1>11 DEF P, Keeping

\* What is kept are the members of the set, in a sequence that repeats none if the
\* first one does not.
LEMMA KeptAre ==
  ASSUME NEW S, NEW seq \in Seq(S), NEW some
  PROVE  /\ Graph!Kept(seq, some) \in Seq(S)
         /\ Range(Graph!Kept(seq, some)) = Range(seq) \cap some
         /\ IsInjective(seq) => IsInjective(Graph!Kept(seq, some))
         /\ Graph!Kept(seq, some) = <<>> <=> Range(seq) \cap some = {}
<1> DEFINE N == Len(seq)
<1>1. N \in Nat /\ (\A n \in 1..N : seq[n] \in S) /\ DOMAIN seq = 1..N
  BY LenProperties, ElementOfSeq
<1>0. PICK w : Keeping(w, S, seq, some)
  BY KeptIs
<1>2. /\ w \in [0..N -> Seq(S)]
      /\ w[0] = <<>>
      /\ \A n \in 1..N : w[n] = IF seq[n] \in some THEN Append(w[n - 1], seq[n]) ELSE w[n - 1]
      /\ Graph!Kept(seq, some) = w[N]
  BY <1>0, Zenon DEF Keeping
<1> HIDE DEF N
<1> DEFINE From(n) == \A i \in 1..Len(w[n]) : \E m \in 1..n : w[n][i] = seq[m] /\ seq[m] \in some
           All(n) == \A m \in 1..n : seq[m] \in some => \E i \in 1..Len(w[n]) : w[n][i] = seq[m]
           Once(n) == \A i, j \in 1..Len(w[n]) : w[n][i] = w[n][j] => i = j
           I == {n \in Nat : n <= N => From(n) /\ All(n) /\ (IsInjective(seq) => Once(n))}
<1>3. 0 \in I
  <2>1. Len(w[0]) = 0 /\ 1..0 = {}
    BY <1>2
  <2> QED
    BY <2>1
<1>4. ASSUME NEW n \in I PROVE n + 1 \in I
  <2> SUFFICES ASSUME n + 1 <= N PROVE From(n + 1) /\ All(n + 1) /\ (IsInjective(seq) => Once(n + 1))
    OBVIOUS
  <2>1. /\ n \in Nat /\ n + 1 \in 1..N /\ (n + 1) - 1 = n /\ n \in 0..N
        /\ From(n) /\ All(n) /\ (IsInjective(seq) => Once(n))
    BY <1>1, <1>4
  <2>2. w[n + 1] = IF seq[n + 1] \in some THEN Append(w[n], seq[n + 1]) ELSE w[n]
    BY <1>2, <2>1
  <2>3. w[n] \in Seq(S) /\ Len(w[n]) \in Nat
    BY <1>2, <2>1, LenProperties
  <2>4. (\A m \in 1..(n + 1) : m \in 1..n \/ m = n + 1) /\ \A m \in 1..n : m \in 1..(n + 1) /\ m \in 1..N /\ m # n + 1
    BY <1>1, <2>1
  <2> HIDE DEF From, All, Once
  <2>5. CASE seq[n + 1] \in some
    <3> DEFINE L == Len(w[n])
    <3>1. /\ w[n + 1] = Append(w[n], seq[n + 1]) /\ Len(w[n + 1]) = L + 1
          /\ \A i \in 1..L : w[n + 1][i] = w[n][i]
          /\ w[n + 1][L + 1] = seq[n + 1]
      <4>1. seq[n + 1] \in S
        BY <1>1, <2>1
      <4> QED
        BY <2>2, <2>3, <2>5, <4>1, AppendProperties
    <3>2. (\A i \in 1..(L + 1) : i \in 1..L \/ i = L + 1) /\ L + 1 \in 1..(L + 1) /\ \A i \in 1..L : i \in 1..(L + 1)
      BY <2>3
    <3> HIDE DEF L
    <3>3. From(n + 1)
      <4> SUFFICES ASSUME NEW i \in 1..(L + 1)
                   PROVE  \E m \in 1..(n + 1) : w[n + 1][i] = seq[m] /\ seq[m] \in some
        BY <3>1, Zenon DEF From
      <4>1. CASE i = L + 1
        BY <2>1, <2>5, <3>1, <4>1
      <4>2. CASE i \in 1..L
        <5>1. PICK m \in 1..n : w[n][i] = seq[m] /\ seq[m] \in some
          BY <2>1, <4>2, Zenon DEF From, L
        <5> QED
          BY <2>4, <3>1, <4>2, <5>1
      <4> QED
        BY <3>2, <4>1, <4>2
    <3>4. All(n + 1)
      <4> SUFFICES ASSUME NEW m \in 1..(n + 1), seq[m] \in some
                   PROVE  \E i \in 1..(L + 1) : w[n + 1][i] = seq[m]
        BY <3>1, Zenon DEF All
      <4>1. CASE m = n + 1
        BY <3>1, <3>2, <4>1
      <4>2. CASE m \in 1..n
        <5>1. PICK i \in 1..L : w[n][i] = seq[m]
          BY <2>1, <4>2, Zenon DEF All, L
        <5> QED
          BY <3>1, <3>2, <5>1
      <4> QED
        BY <2>4, <4>1, <4>2
    <3>5. ASSUME IsInjective(seq) PROVE Once(n + 1)
      <4>1. \A i \in 1..L : w[n][i] # seq[n + 1]
        <5> SUFFICES ASSUME NEW i \in 1..L PROVE w[n][i] # seq[n + 1]
          OBVIOUS
        <5>1. PICK m \in 1..n : w[n][i] = seq[m]
          BY <2>1, Zenon DEF From, L
        <5>2. m # n + 1 /\ m \in DOMAIN seq /\ n + 1 \in DOMAIN seq
          BY <1>1, <2>1, <2>4
        <5> QED
          BY <3>5, <5>1, <5>2 DEF IsInjective
      <4>2. \A i, j \in 1..L : w[n][i] = w[n][j] => i = j
        BY <2>1, <3>5, Zenon DEF Once, L
      <4>3. \A i, j \in 1..(L + 1) : w[n + 1][i] = w[n + 1][j] => i = j
        BY <3>1, <3>2, <4>1, <4>2
      <4> QED
        BY <3>1, <4>3, Zenon DEF Once
    <3> QED
      BY <3>3, <3>4, <3>5
  <2>6. CASE seq[n + 1] \notin some
    <3>1. w[n + 1] = w[n]
      BY <2>2, <2>6
    <3> QED
      BY <2>1, <2>4, <2>6, <3>1, Zenon DEF From, All, Once
  <2> QED
    BY <2>5, <2>6
<1>5. From(N) /\ All(N) /\ (IsInjective(seq) => Once(N))
  <2> HIDE DEF From, All, Once
  <2>1. I = Nat
    BY <1>3, <1>4, Induction
  <2>2. N <= N
    BY <1>1
  <2>3. N \in I
    BY <1>1, <2>1, Zenon
  <2> QED
    BY <2>2, <2>3, Zenon
<1>6. Graph!Kept(seq, some) = w[N] /\ w[N] \in Seq(S)
  BY <1>1, <1>2
<1>7. DOMAIN w[N] = 1..Len(w[N])
  BY <1>6, LenProperties
<1>8. Range(w[N]) = Range(seq) \cap some
  <2>1. Range(w[N]) = {w[N][i] : i \in 1..Len(w[N])} /\ Range(seq) = {seq[m] : m \in 1..N}
    BY <1>1, <1>7 DEF Range
  <2>2. \A i \in 1..Len(w[N]) : \E m \in 1..N : w[N][i] = seq[m] /\ seq[m] \in some
    BY <1>5, Zenon
  <2>3. \A m \in 1..N : seq[m] \in some => \E i \in 1..Len(w[N]) : w[N][i] = seq[m]
    BY <1>5, Zenon
  <2>4. ASSUME NEW x \in Range(w[N]) PROVE x \in Range(seq) \cap some
    <3>1. PICK i \in 1..Len(w[N]) : x = w[N][i]
      BY <2>1
    <3> QED
      BY <2>1, <2>2, <3>1
  <2>5. ASSUME NEW x \in Range(seq) \cap some PROVE x \in Range(w[N])
    <3>1. PICK m \in 1..N : x = seq[m]
      BY <2>1
    <3> QED
      BY <2>1, <2>3, <3>1
  <2> QED
    BY <2>4, <2>5
<1>9. IsInjective(seq) => IsInjective(w[N])
  BY <1>5, <1>7 DEF IsInjective
<1> QED
  BY <1>6, <1>8, <1>9, RangeIs

LEMMA UpTo ==
  ASSUME NEW n \in Nat
  PROVE  IsFiniteSet(1..n) /\ Cardinality(1..n) = n
BY FS_Interval

LEMMA OrderIs ==
  ASSUME NEW D, IsFiniteSet(D), NEW o \in Graph!SetToSeqs(D)
  PROVE  o \in Seq(D) /\ Range(o) = D /\ IsInjective(o)
<1> DEFINE N == Cardinality(D)
<1>1. N \in Nat /\ IsFiniteSet(1..N) /\ Cardinality(1..N) = N
  BY FS_CardinalityType, FS_Interval
<1>2. o \in [1..N -> D] /\ \A i, j \in 1..N : i # j => o[i] # o[j]
  BY SameInGraph DEF Graph!SetToSeqs
<1> HIDE DEF N
<1>3. o \in Injection(1..N, D)
  BY <1>2 DEF Injection, IsInjective
<1>4. o \in Surjection(1..N, D)
  BY <1>1, <1>3, FS_Injection DEF N
<1>5. Range(o) = D
  BY <1>2, <1>4 DEF Surjection, Range
<1> QED
  BY <1>1, <1>2, <1>3, <1>5 DEF Injection

----------------------------------------------------------------------------
(* What an import is resolved to.                                          *)

\* One of a set, or no file when the set is empty.
Gives(x, T) == (T = {} /\ x = Graph!NoFile) \/ x \in T

LEMMA OrElseGives ==
  ASSUME NEW A, NEW B, Graph!NoFile \notin A, NEW a, NEW b, Gives(a, A), Gives(b, B)
  PROVE  Gives(Graph!OrElse(a, b), IF A # {} THEN A ELSE B)
  BY DEF Gives, Graph!OrElse

LEMMA FirstGives ==
  ASSUME NEW S, NEW paths \in Seq(S), NEW some
  PROVE  Gives(Graph!FirstOf(paths, some), Range(paths) \cap some)
<1> DEFINE found == Graph!Kept(paths, some)
<1>1. found \in Seq(S) /\ Range(found) = Range(paths) \cap some
  BY KeptAre
<1>2. found # <<>> => found[1] \in Range(found)
  <2>1. found # <<>> => 1 \in 1..Len(found)
    BY <1>1, EmptySeq
  <2> HIDE DEF found
  <2> QED
    BY <1>1, <2>1, RangeIs
<1>3. found = <<>> <=> Range(found) = {}
  BY <1>1, RangeIs
<1>4. Graph!FirstOf(paths, some) = IF found = <<>> THEN Graph!NoFile ELSE found[1]
  BY DEF Graph!FirstOf
<1> HIDE DEF found
<1> QED
  BY <1>1, <1>2, <1>3, <1>4 DEF Gives

\* However near the candidates are, one of them is nearest.
LEMMA ClosestGives ==
  ASSUME NEW S, NEW candidates \in Seq(S), NEW dir \in Seq(STRING)
  PROVE  Gives(Graph!FindClosest(candidates, dir), Range(candidates))
<1> DEFINE Near(p) == Graph!CommonPrefix(dir, Graph!Components(p))
           C == 1..Len(candidates)
           best == {i \in C : \A j \in C : Near(candidates[j]) <= Near(candidates[i])}
           last == CHOOSE i \in best : \A j \in best : j <= i
<1>1. Len(candidates) \in Nat /\ Range(candidates) = {candidates[i] : i \in C}
      /\ (candidates = <<>> <=> Range(candidates) = {})
  BY RangeIs
<1>2. Graph!FindClosest(candidates, dir) = IF candidates = <<>> THEN Graph!NoFile ELSE candidates[last]
  BY DEF Graph!FindClosest
<1>3. ASSUME NEW p PROVE Near(p) \in 0..Len(dir)
  <2> DEFINE common == {i \in 1..Len(dir) : Graph!IsPrefix(SubSeq(dir, 1, i), Graph!Components(p))}
  <2>1. Len(dir) \in Nat
    BY LenProperties
  <2>2. IsFiniteSet(1..Len(dir)) /\ Cardinality(1..Len(dir)) = Len(dir)
    BY <2>1, UpTo
  <2>3. IsFiniteSet(common) /\ Cardinality(common) <= Len(dir) /\ Cardinality(common) \in Nat
    BY <2>2, FS_Subset, FS_CardinalityType
  <2>4. Near(p) = Cardinality(common)
    BY SameInGraph DEF Graph!CommonPrefix
  <2> HIDE DEF common, Near
  <2> QED
    BY <2>1, <2>3, <2>4
<1> HIDE DEF Near
<1>4. ASSUME candidates # <<>> PROVE last \in C
  <2>1. C # {} /\ Len(dir) \in Nat
    BY <1>1, <1>4, EmptySeq, LenProperties
  <2>2. {Near(candidates[i]) : i \in C} \in SUBSET (0..Len(dir)) /\ {Near(candidates[i]) : i \in C} # {}
    BY <1>3, <2>1
  <2>3. PICK i \in C : \A j \in C : Near(candidates[j]) <= Near(candidates[i])
    <3>1. PICK n \in {Near(candidates[i]) : i \in C} : \A m \in {Near(candidates[i]) : i \in C} : m <= n
      BY <2>1, <2>2, GreatestNumber
    <3> QED
      BY <3>1
  <2>4. best # {} /\ best \in SUBSET (0..Len(candidates))
    BY <1>1, <2>3
  <2> HIDE DEF best
  <2>5. \E n \in best : \A m \in best : m <= n
    BY <1>1, <2>4, GreatestNumber
  <2>6. last \in best
    BY <2>5
  <2> QED
    BY <2>6 DEF best
<1> HIDE DEF last
<1> QED
  BY <1>1, <1>2, <1>4 DEF Gives

Stems(D, name) == {p \in D : Graph!Lower(p.stem) = Graph!Lower(name)}
Lists(o, D) == o \in Seq(D) /\ Range(o) = D

LEMMA StemsAre ==
  ASSUME NEW D, NEW o, Lists(o, D), NEW name
  PROVE  Graph!WithStem(name, o) \in Seq(D) /\ Range(Graph!WithStem(name, o)) = Stems(D, name)
<1>1. Graph!WithStem(name, o) = Graph!Kept(o, Stems(D, name))
  BY SameInGraph DEF Graph!WithStem, Stems, Lists
<1>2. D \cap Stems(D, name) = Stems(D, name) /\ o \in Seq(D) /\ Range(o) = D
  BY DEF Stems, Lists
<1>3. Graph!Kept(o, Stems(D, name)) \in Seq(D)
      /\ Range(Graph!Kept(o, Stems(D, name))) = Range(o) \cap Stems(D, name)
  BY <1>2, KeptAre
<1> QED
  BY <1>1, <1>2, <1>3

ModFiles(D, name, dir) ==
  LET next == {[dir |-> dir, stem |-> name, ext |-> "rs"], [dir |-> Append(dir, name), stem |-> "mod", ext |-> "rs"]}
  IN  IF D \cap next # {} THEN D \cap next ELSE Stems(D, name)

LEMMA ModGives ==
  ASSUME NEW D, Graph!NoFile \notin D, NEW o, Lists(o, D), NEW name, NEW dir \in Seq(STRING)
  PROVE  Gives(Graph!ResolveMod(name, dir, o), ModFiles(D, name, dir))
<1> DEFINE next == {[dir |-> dir, stem |-> name, ext |-> "rs"], [dir |-> Append(dir, name), stem |-> "mod", ext |-> "rs"]}
           a == Graph!FirstOf(o, next)
           b == Graph!FindClosest(Graph!WithStem(name, o), dir)
<1>1. Gives(a, D \cap next)
  BY FirstGives DEF Lists
<1>2. Gives(b, Stems(D, name))
  BY StemsAre, ClosestGives
<1>3. Graph!ResolveMod(name, dir, o) = Graph!OrElse(a, b)
  BY DEF Graph!ResolveMod
<1> HIDE DEF a, b
<1>4. ModFiles(D, name, dir) = IF D \cap next # {} THEN D \cap next ELSE Stems(D, name)
  BY DEF ModFiles
<1> HIDE DEF next
<1> DEFINE A == D \cap next
<1>5. Graph!NoFile \notin A /\ Gives(a, A) /\ ModFiles(D, name, dir) = IF A # {} THEN A ELSE Stems(D, name)
  BY <1>1, <1>4
<1> HIDE DEF A
<1>6. Gives(Graph!OrElse(a, b), IF A # {} THEN A ELSE Stems(D, name))
  BY <1>2, <1>5, OrElseGives
<1> QED
  BY <1>3, <1>5, <1>6

CrateFiles(D, segs) ==
  LET known == {i \in 1..Len(segs) : Stems(D, segs[i]) # {}}
  IN  IF known = {} THEN {} ELSE Stems(D, segs[CHOOSE i \in known : \A j \in known : j <= i])

LEMMA CrateGives ==
  ASSUME NEW D, NEW o, Lists(o, D), NEW segs, NEW dir \in Seq(STRING)
  PROVE  Gives(Graph!ResolveCrate(segs, dir, o), CrateFiles(D, segs))
<1> DEFINE known == {i \in 1..Len(segs) : Graph!WithStem(segs[i], o) # <<>>}
           i0 == CHOOSE i \in known : \A j \in known : j <= i
<1>1. \A name : Graph!WithStem(name, o) # <<>> <=> Stems(D, name) # {}
  BY StemsAre, RangeIs
<1> DEFINE stems == {i \in 1..Len(segs) : Stems(D, segs[i]) # {}}
<1>2. stems = known
  BY <1>1
<1>3. CrateFiles(D, segs) = IF known = {} THEN {} ELSE Stems(D, segs[i0])
  <2>1. CrateFiles(D, segs) =
          IF stems = {} THEN {} ELSE Stems(D, segs[CHOOSE i \in stems : \A j \in stems : j <= i])
    BY DEF CrateFiles
  <2> HIDE DEF stems, known
  <2> QED
    BY <1>2, <2>1, Zenon
<1>4. Graph!ResolveCrate(segs, dir, o) =
        IF known = {} THEN Graph!NoFile ELSE Graph!FindClosest(Graph!WithStem(segs[i0], o), dir)
  BY DEF Graph!ResolveCrate
<1> HIDE DEF known, i0
<1>5. Gives(Graph!FindClosest(Graph!WithStem(segs[i0], o), dir), Stems(D, segs[i0]))
  BY StemsAre, ClosestGives
<1> QED
  BY <1>3, <1>4, <1>5 DEF Gives

LEMMA SomeListed ==
  ASSUME NEW D, NEW o, Lists(o, D), NEW X \in SUBSET D
  PROVE  /\ Lists(Graph!Kept(o, X), X)
         /\ Gives(Graph!FirstOf(o, X), X)
<1>1. o \in Seq(D) /\ Range(o) = D /\ D \cap X = X
  BY DEF Lists
<1>2. Graph!Kept(o, X) \in Seq(D) /\ Range(Graph!Kept(o, X)) = Range(o) \cap X
  BY <1>1, KeptAre
<1>3. Graph!Kept(o, X) \in Seq(Range(Graph!Kept(o, X)))
  BY <1>2, RangeIs
<1>4. Gives(Graph!FirstOf(o, X), Range(o) \cap X)
  BY <1>1, FirstGives
<1> QED
  BY <1>1, <1>2, <1>3, <1>4 DEF Lists

LEMMA ClosestListed ==
  ASSUME NEW D, NEW o, Lists(o, D), NEW dir \in Seq(STRING)
  PROVE  Gives(Graph!FindClosest(o, dir), D) /\ (o = <<>> <=> D = {})
<1>1. o \in Seq(D) /\ Range(o) = D
  BY DEF Lists
<1> QED
  BY <1>1, ClosestGives, RangeIs

Spelled(T, stem) == {p \in T : p.stem = stem}

LEMMA SpelledGives ==
  ASSUME NEW D, NEW o, Lists(o, D), NEW dir \in Seq(STRING), NEW stem
  PROVE  Gives(Graph!FindClosestWithStem(o, dir, stem), IF Spelled(D, stem) # {} THEN Spelled(D, stem) ELSE D)
<1> DEFINE exact == Graph!Kept(o, Spelled(D, stem))
<1>1. Graph!FindClosestWithStem(o, dir, stem) = Graph!FindClosest(IF exact = <<>> THEN o ELSE exact, dir)
  BY SameInGraph DEF Graph!FindClosestWithStem, Spelled, Lists
<1>2. Lists(exact, Spelled(D, stem))
  BY SomeListed DEF Spelled
<1> HIDE DEF exact
<1>3. Gives(Graph!FindClosest(exact, dir), Spelled(D, stem)) /\ (exact = <<>> <=> Spelled(D, stem) = {})
  BY <1>2, ClosestListed
<1>4. Gives(Graph!FindClosest(o, dir), D)
  BY ClosestListed
<1> QED
  BY <1>1, <1>3, <1>4

LEMMA StemsListed ==
  ASSUME NEW D, NEW o, Lists(o, D), NEW name
  PROVE  Lists(Graph!WithStem(name, o), Stems(D, name))
<1>1. Graph!WithStem(name, o) \in Seq(D) /\ Range(Graph!WithStem(name, o)) = Stems(D, name)
  BY StemsAre
<1> QED
  BY <1>1, RangeIs DEF Lists

AliasFiles(D, segs) ==
  LET ends == {p \in D : Graph!PathEndsWith(Graph!Components(p), segs)}
      named == Stems(D, Graph!Last(segs))
      spelled == Spelled(named, Graph!Last(segs))
  IN  IF ends # {} THEN ends ELSE IF spelled # {} THEN spelled ELSE named

LEMMA AliasGives ==
  ASSUME NEW D, Graph!NoFile \notin D, NEW o, Lists(o, D), NEW segs, NEW dir \in Seq(STRING)
  PROVE  Gives(Graph!ResolveAlias(segs, dir, o), AliasFiles(D, segs))
<1> DEFINE ends == {p \in D : Graph!PathEndsWith(Graph!Components(p), segs)}
           named == Stems(D, Graph!Last(segs))
           spelled == Spelled(named, Graph!Last(segs))
           T == IF spelled # {} THEN spelled ELSE named
           a == Graph!FirstOf(o, ends)
           b == Graph!FindClosestWithStem(Graph!WithStem(Graph!Last(segs), o), dir, Graph!Last(segs))
<1>1. Graph!ResolveAlias(segs, dir, o) = Graph!OrElse(a, b)
  BY SameInGraph DEF Graph!ResolveAlias, Lists
<1>2. AliasFiles(D, segs) = IF ends # {} THEN ends ELSE T
  BY DEF AliasFiles
<1>3. ends \in SUBSET D /\ Graph!NoFile \notin ends
  OBVIOUS
<1>4. Lists(Graph!WithStem(Graph!Last(segs), o), named)
  BY StemsListed
<1>5. Gives(b, T)
  BY <1>4, SpelledGives
<1> HIDE DEF ends, named, spelled, T, b
<1>6. Gives(a, ends)
  BY <1>3, SomeListed
<1> HIDE DEF a
<1>7. Gives(Graph!OrElse(a, b), IF ends # {} THEN ends ELSE T)
  BY <1>3, <1>5, <1>6, OrElseGives
<1> QED
  BY <1>1, <1>2, <1>7

BelowFiles(D, segs, dir) ==
  LET base == dir \o segs
  IN  {p \in D : \/ Graph!Components(p) = base
                 \/ p.stem = "index" /\ Graph!PathBeginsWith(Graph!Components(p), base)}

LEMMA BelowGives ==
  ASSUME NEW D, NEW o, Lists(o, D), NEW segs, NEW dir
  PROVE  Gives(Graph!ResolveBelow(segs, dir, o), BelowFiles(D, segs, dir))
<1>1. Graph!ResolveBelow(segs, dir, o) = Graph!FirstOf(o, BelowFiles(D, segs, dir))
  BY SameInGraph DEF Graph!ResolveBelow, BelowFiles, Lists
<1>2. BelowFiles(D, segs, dir) \in SUBSET D
  BY DEF BelowFiles
<1> QED
  BY <1>1, <1>2, SomeListed

Holding(T, segs) == {p \in T : Graph!PathHolds(Append(Graph!Components(p), p.ext), segs)}
Packaged(T, package, g) == {p \in T : g[p].package = package}
Declarers(D, name, g) ==
  {p \in D : \E s \in Graph!Range(g[p].symbols) : Graph!Lower(s.name) = Graph!Lower(name)}

DottedFiles(D, segs, g) ==
  LET named == Stems(D, Graph!Last(segs))
      held == Holding(named, segs)
      near == Packaged(named, Graph!Front(segs), g)
  IN  IF held # {} THEN held
      ELSE IF near # {} THEN near ELSE Packaged(Declarers(D, Graph!Last(segs), g), Graph!Front(segs), g)

LEMMA PackagedGives ==
  ASSUME NEW D, NEW o, Lists(o, D), NEW package, NEW g, NEW dir \in Seq(STRING)
  PROVE  Gives(Graph!FindClosest(Graph!InPackage(o, package, g), dir), Packaged(D, package, g))
<1>1. Graph!InPackage(o, package, g) = Graph!Kept(o, Packaged(D, package, g))
  BY SameInGraph DEF Graph!InPackage, Packaged, Lists
<1>2. Packaged(D, package, g) \in SUBSET D
  BY DEF Packaged
<1>3. Lists(Graph!Kept(o, Packaged(D, package, g)), Packaged(D, package, g))
  BY <1>2, SomeListed
<1> QED
  BY <1>1, <1>3, ClosestListed

LEMMA DottedGives ==
  ASSUME NEW D, Graph!NoFile \notin D, NEW o, Lists(o, D), NEW segs, NEW dir \in Seq(STRING), NEW g
  PROVE  Gives(Graph!ResolveDotted(segs, g, dir, o), DottedFiles(D, segs, g))
<1> DEFINE named == Stems(D, Graph!Last(segs))
           list == Graph!WithStem(Graph!Last(segs), o)
           decls == Graph!WithSymbol(Graph!Last(segs), g, o)
           declare == Declarers(D, Graph!Last(segs), g)
           A == Holding(named, segs)
           B == Packaged(named, Graph!Front(segs), g)
           C == Packaged(declare, Graph!Front(segs), g)
           a == Graph!FirstOf(list, A)
           b == Graph!FindClosest(Graph!InPackage(list, Graph!Front(segs), g), dir)
           c == Graph!FindClosest(Graph!InPackage(decls, Graph!Front(segs), g), dir)
<1>1. Lists(list, named)
  BY StemsListed
<1>2. Lists(decls, declare)
  <2>1. decls = Graph!Kept(o, declare)
    BY SameInGraph DEF Graph!WithSymbol, Declarers, Lists
  <2>2. declare \in SUBSET D
    BY DEF Declarers
  <2> HIDE DEF decls, declare
  <2> QED
    BY <2>1, <2>2, SomeListed
<1>3. Graph!ResolveDotted(segs, g, dir, o) = Graph!OrElse(Graph!OrElse(a, b), c)
  <2>1. Graph!Range(list) = named
    BY <1>1, SameInGraph DEF Lists
  <2> QED
    BY <2>1 DEF Graph!ResolveDotted, Holding
<1>4. DottedFiles(D, segs, g) = IF A # {} THEN A ELSE IF B # {} THEN B ELSE C
  BY DEF DottedFiles
<1>5. A \in SUBSET named /\ B \in SUBSET named /\ named \in SUBSET D
  BY DEF Holding, Packaged, Stems
<1> HIDE DEF list, decls, declare, named
<1>6. Gives(b, B) /\ Gives(c, C)
  BY <1>1, <1>2, PackagedGives
<1> HIDE DEF A, B, C
<1>7. Gives(a, A)
  BY <1>1, <1>5, SomeListed
<1> HIDE DEF a, b, c
<1>8. Gives(Graph!OrElse(a, b), IF A # {} THEN A ELSE B)
  BY <1>5, <1>6, <1>7, OrElseGives
<1> DEFINE U == IF A # {} THEN A ELSE B
<1>9. Graph!NoFile \notin U /\ Gives(Graph!OrElse(a, b), U) /\ DottedFiles(D, segs, g) = IF U # {} THEN U ELSE C
  BY <1>4, <1>5, <1>8
<1> HIDE DEF U
<1>10. Gives(Graph!OrElse(Graph!OrElse(a, b), c), IF U # {} THEN U ELSE C)
  BY <1>6, <1>9, OrElseGives
<1> QED
  BY <1>3, <1>9, <1>10

PlainFiles(D, segs, dir) == {p \in Stems(D, Graph!Last(segs)) : p.dir = dir}

LEMMA PlainGives ==
  ASSUME NEW D, NEW o, Lists(o, D), NEW segs, NEW dir \in Seq(STRING)
  PROVE  Gives(Graph!ResolvePlain(segs, dir, o), PlainFiles(D, segs, dir))
<1> DEFINE list == Graph!WithStem(Graph!Last(segs), o)
           T == PlainFiles(D, segs, dir)
<1>1. Lists(list, Stems(D, Graph!Last(segs)))
  BY StemsListed
<1>2. Graph!ResolvePlain(segs, dir, o) = Graph!FindClosest(Graph!Kept(list, T), dir)
  BY <1>1, SameInGraph DEF Graph!ResolvePlain, Graph!FindSameDirectory, PlainFiles, Lists
<1>3. T \in SUBSET Stems(D, Graph!Last(segs))
  BY DEF PlainFiles
<1> HIDE DEF list, T
<1>4. Lists(Graph!Kept(list, T), T)
  BY <1>1, <1>3, SomeListed
<1>5. Gives(Graph!FindClosest(Graph!Kept(list, T), dir), T)
  BY <1>4, ClosestListed
<1> QED
  BY <1>2, <1>5 DEF T

\* What an import is resolved to, whatever the order of the hash tables, is one of
\* the files the names decide, or nothing when they decide none.
Candidates(imp, p, g, D) ==
  CASE imp.form = "mod"    -> ModFiles(D, imp.segs[1], p.dir)
    [] imp.form = "crate"  -> CrateFiles(D, imp.segs)
    [] imp.form = "alias"  -> AliasFiles(D, imp.segs)
    [] imp.form = "below"  -> BelowFiles(D, imp.segs, p.dir)
    [] imp.form = "above"  -> {}
    [] imp.form = "dotted" -> DottedFiles(D, imp.segs, g)
    [] OTHER               -> PlainFiles(D, imp.segs, p.dir)

LEMMA ImportGives ==
  ASSUME NEW D, Graph!NoFile \notin D, NEW o, Lists(o, D), NEW imp, NEW p, p.dir \in Seq(STRING), NEW g
  PROVE  /\ Gives(Graph!ResolveImport(imp, p, g, o), Candidates(imp, p, g, D))
         /\ Candidates(imp, p, g, D) \in SUBSET D
<1> DEFINE dir == p.dir
           segs == imp.segs
           x == Graph!ResolveImport(imp, p, g, o)
           T == Candidates(imp, p, g, D)
<1>1. dir \in Seq(STRING)
  OBVIOUS
<1> HIDE DEF dir, segs
<1>2. /\ Gives(Graph!ResolveMod(segs[1], dir, o), ModFiles(D, segs[1], dir))
      /\ Gives(Graph!ResolveCrate(segs, dir, o), CrateFiles(D, segs))
      /\ Gives(Graph!ResolveAlias(segs, dir, o), AliasFiles(D, segs))
      /\ Gives(Graph!ResolveBelow(segs, dir, o), BelowFiles(D, segs, dir))
      /\ Gives(Graph!ResolveAbove, {})
      /\ Gives(Graph!ResolveDotted(segs, g, dir, o), DottedFiles(D, segs, g))
      /\ Gives(Graph!ResolvePlain(segs, dir, o), PlainFiles(D, segs, dir))
  <2>1. Gives(Graph!ResolveMod(segs[1], dir, o), ModFiles(D, segs[1], dir))
    BY <1>1, ModGives
  <2>2. Gives(Graph!ResolveCrate(segs, dir, o), CrateFiles(D, segs))
    BY <1>1, CrateGives
  <2>3. Gives(Graph!ResolveAlias(segs, dir, o), AliasFiles(D, segs))
    BY <1>1, AliasGives
  <2>4. Gives(Graph!ResolveBelow(segs, dir, o), BelowFiles(D, segs, dir))
    BY <1>1, BelowGives
  <2>5. Gives(Graph!ResolveAbove, {})
    BY DEF Gives, Graph!ResolveAbove
  <2>6. Gives(Graph!ResolveDotted(segs, g, dir, o), DottedFiles(D, segs, g))
    BY <1>1, DottedGives
  <2>7. Gives(Graph!ResolvePlain(segs, dir, o), PlainFiles(D, segs, dir))
    BY <1>1, PlainGives
  <2> QED
    BY <2>1, <2>2, <2>3, <2>4, <2>5, <2>6, <2>7
<1>3. /\ ModFiles(D, segs[1], dir) \in SUBSET D /\ CrateFiles(D, segs) \in SUBSET D
      /\ AliasFiles(D, segs) \in SUBSET D /\ BelowFiles(D, segs, dir) \in SUBSET D
      /\ DottedFiles(D, segs, g) \in SUBSET D /\ PlainFiles(D, segs, dir) \in SUBSET D
  <2>1. \A name : Stems(D, name) \in SUBSET D
    BY DEF Stems
  <2>2. ModFiles(D, segs[1], dir) \in SUBSET D /\ CrateFiles(D, segs) \in SUBSET D
    BY <2>1 DEF ModFiles, CrateFiles
  <2>3. AliasFiles(D, segs) \in SUBSET D /\ BelowFiles(D, segs, dir) \in SUBSET D
    BY <2>1 DEF AliasFiles, Spelled, BelowFiles
  <2>4. DottedFiles(D, segs, g) \in SUBSET D /\ PlainFiles(D, segs, dir) \in SUBSET D
    <3>1. \A s, k : \A A \in SUBSET D : Holding(A, s) \in SUBSET D /\ Packaged(A, k, g) \in SUBSET D
      BY DEF Holding, Packaged
    <3>2. \A name : Declarers(D, name, g) \in SUBSET D
      BY DEF Declarers
    <3> QED
      BY <2>1, <3>1, <3>2 DEF DottedFiles, PlainFiles
  <2> QED
    BY <2>2, <2>3, <2>4
<1>4. x = CASE imp.form = "mod"    -> Graph!ResolveMod(segs[1], dir, o)
            [] imp.form = "crate"  -> Graph!ResolveCrate(segs, dir, o)
            [] imp.form = "alias"  -> Graph!ResolveAlias(segs, dir, o)
            [] imp.form = "below"  -> Graph!ResolveBelow(segs, dir, o)
            [] imp.form = "above"  -> Graph!ResolveAbove
            [] imp.form = "dotted" -> Graph!ResolveDotted(segs, g, dir, o)
            [] OTHER               -> Graph!ResolvePlain(segs, dir, o)
  BY DEF Graph!ResolveImport, dir, segs
<1>5. T = CASE imp.form = "mod"    -> ModFiles(D, segs[1], dir)
            [] imp.form = "crate"  -> CrateFiles(D, segs)
            [] imp.form = "alias"  -> AliasFiles(D, segs)
            [] imp.form = "below"  -> BelowFiles(D, segs, dir)
            [] imp.form = "above"  -> {}
            [] imp.form = "dotted" -> DottedFiles(D, segs, g)
            [] OTHER               -> PlainFiles(D, segs, dir)
  BY DEF Candidates, dir, segs
<1> HIDE DEF x, T
<1>6. Gives(x, T) /\ T \in SUBSET D
  BY <1>2, <1>3, <1>4, <1>5
<1> QED
  BY <1>6 DEF x, T

----------------------------------------------------------------------------
(* What a C# name is resolved to.                                          *)

\* Graphs that keep the same of every file but for what it depends on.
Alike(f, g) ==
  /\ DOMAIN f = DOMAIN g
  /\ \A p \in DOMAIN f : /\ f[p].lang = g[p].lang /\ f[p].package = g[p].package
                         /\ f[p].symbols = g[p].symbols /\ f[p].imports = g[p].imports

LEMMA LookedUpAlike ==
  ASSUME NEW f, NEW g, Alike(f, g)
  PROVE  /\ \A ns, name : Graph!Declaring(ns, name, f) = Graph!Declaring(ns, name, g)
         /\ \A name, scope : Graph!LookupInScope(name, scope, f) = Graph!LookupInScope(name, scope, g)
         /\ \A segs, scope : Graph!LookupQualified(segs, scope, f) = Graph!LookupQualified(segs, scope, g)
<1>1. ASSUME NEW ns, NEW name PROVE Graph!Declaring(ns, name, f) = Graph!Declaring(ns, name, g)
  BY DEF Alike, Graph!Declaring
<1>2. ASSUME NEW name, NEW scope
      PROVE  Graph!LookupInScope(name, scope, f) = Graph!LookupInScope(name, scope, g)
  <2>1. [ns \in scope |-> Graph!Declaring(ns, name, f)] = [ns \in scope |-> Graph!Declaring(ns, name, g)]
    BY <1>1
  <2> QED
    BY <2>1, Zenon DEF Graph!LookupInScope
<1>3. ASSUME NEW segs, NEW scope
      PROVE  Graph!LookupQualified(segs, scope, f) = Graph!LookupQualified(segs, scope, g)
  <2> DEFINE At(ns, h) == Graph!Declaring(ns \o Graph!Front(segs), Graph!Last(segs), h)
             W(h) == Graph!Declaring(Graph!Front(segs), Graph!Last(segs), h)
             F(h) == [ns \in scope \ {Graph!NoPackage} |-> At(ns, h)]
  <2>1. \A h : Graph!LookupQualified(segs, scope, h) = IF W(h) # {} THEN W(h) ELSE Graph!FirstDeclaring(F(h))
    BY DEF Graph!LookupQualified
  <2>2. W(f) = W(g) /\ \A ns : At(ns, f) = At(ns, g)
    BY <1>1
  <2> HIDE DEF W, At
  <2>3. F(f) = F(g)
    BY <2>2
  <2> HIDE DEF F
  <2> QED
    BY <2>1, <2>2, <2>3
<1> QED
  BY <1>1, <1>2, <1>3

LEMMA ScopedAlike ==
  ASSUME NEW f, NEW g, Alike(f, g), NEW p \in DOMAIN f
  PROVE  Graph!ScopeFor(f[p], f) = Graph!ScopeFor(g[p], g)
<1>1. f[p].package = g[p].package /\ f[p].imports = g[p].imports
  BY DEF Alike
<1>2. Graph!GlobalUsings(f) = Graph!GlobalUsings(g)
  <2> DEFINE G(h, q) == {imp.segs : imp \in {i \in h[q].imports : i.form = "gusing"}}
             C(h) == {q \in DOMAIN h : h[q].lang = "csharp"}
  <2>1. C(f) = C(g) /\ \A q \in C(f) : G(f, q) = G(g, q)
    BY DEF Alike
  <2>2. \A h : Graph!GlobalUsings(h) = UNION {G(h, q) : q \in C(h)}
    BY DEF Graph!GlobalUsings
  <2> HIDE DEF G, C
  <2>3. {G(f, q) : q \in C(f)} = {G(g, q) : q \in C(g)}
    BY <2>1
  <2> QED
    BY <2>2, <2>3
<1> QED
  BY <1>1, <1>2 DEF Graph!ScopeFor

\* What one reference of a C# file leads to.
Referred(imp, scope, g) ==
  CASE imp.form = "ref"  -> Graph!LookupInScope(imp.segs[1], scope, g)
    [] imp.form = "qref" -> Graph!LookupQualified(imp.segs, scope, g)
    [] OTHER -> {}

LEMMA TypesAre ==
  ASSUME NEW g, NEW p
  PROVE  \A q : q \in Graph!ResolveTypes(p, g)
                  <=> q # p /\ \E imp \in g[p].imports : q \in Referred(imp, Graph!ScopeFor(g[p], g), g)
<1> DEFINE types == UNION {Referred(imp, Graph!ScopeFor(g[p], g), g) : imp \in g[p].imports}
<1>1. Graph!ResolveTypes(p, g) = types \ {p}
  BY DEF Graph!ResolveTypes, Referred
<1>2. \A q : q \in types <=> \E imp \in g[p].imports : q \in Referred(imp, Graph!ScopeFor(g[p], g), g)
  OBVIOUS
<1> HIDE DEF types
<1> QED
  BY <1>1, <1>2

LEMMA TypesAlike ==
  ASSUME NEW f, NEW g, Alike(f, g), NEW p \in DOMAIN f
  PROVE  Graph!ResolveTypes(p, f) = Graph!ResolveTypes(p, g)
<1> DEFINE scope == Graph!ScopeFor(f[p], f)
<1>1. scope = Graph!ScopeFor(g[p], g) /\ f[p].imports = g[p].imports
  BY ScopedAlike DEF Alike
<1> HIDE DEF scope
<1>2. \A imp : Referred(imp, scope, f) = Referred(imp, scope, g)
  BY LookedUpAlike DEF Referred
<1>3. \A q : q \in Graph!ResolveTypes(p, f) <=> q # p /\ \E imp \in f[p].imports : q \in Referred(imp, scope, f)
  BY TypesAre DEF scope
<1>4. \A q : q \in Graph!ResolveTypes(p, g) <=> q # p /\ \E imp \in g[p].imports : q \in Referred(imp, scope, g)
  BY <1>1, TypesAre
<1>5. \A q : q \in Graph!ResolveTypes(p, f) <=> q \in Graph!ResolveTypes(p, g)
  BY <1>1, <1>2, <1>3, <1>4
<1>6. \A q : (q \in Graph!ResolveTypes(p, f) => q # p) /\ (q \in Graph!ResolveTypes(p, g) => q # p)
  BY <1>3, <1>4
<1> QED
  <2>1. Graph!ResolveTypes(p, f) = {q \in Graph!ResolveTypes(p, f) : TRUE}
    OBVIOUS
  <2> QED
    BY <1>5

Placed(S) == \A ns \in S : RankOf[ns] \in Nat

\* The first namespace of a scope that declares a name is one of those that do.
LEMMA FirstDeclares ==
  ASSUME NEW F, Placed(DOMAIN F)
  PROVE  /\ (\A ns \in DOMAIN F : F[ns] = {}) => Graph!FirstDeclaring(F) = {}
         /\ (\E ns \in DOMAIN F : F[ns] # {}) =>
              \E ns \in DOMAIN F : F[ns] # {} /\ Graph!FirstDeclaring(F) = F[ns]
<1> DEFINE hits == {ns \in DOMAIN F : F[ns] # {}}
           first == CHOOSE ns \in hits : \A other \in hits : RankOf[ns] <= RankOf[other]
<1>1. Graph!FirstDeclaring(F) = IF hits = {} THEN {} ELSE F[first]
  BY DEF Graph!FirstDeclaring
<1>2. ASSUME hits # {} PROVE first \in hits
  <2> DEFINE ranks == {RankOf[ns] : ns \in hits}
  <2>1. ranks \in SUBSET Nat /\ ranks # {}
    BY <1>2 DEF Placed
  <2>2. PICK n \in ranks : \A m \in ranks : n <= m
    <3> HIDE DEF ranks
    <3> QED
      BY <2>1, LeastNumber
  <2>3. PICK ns \in hits : n = RankOf[ns]
    BY <2>2
  <2>4. \A other \in hits : RankOf[ns] <= RankOf[other]
    BY <2>2, <2>3
  <2> HIDE DEF hits
  <2> QED
    BY <2>3, <2>4
<1> HIDE DEF first
<1> QED
  BY <1>1, <1>2

LEMMA FoundInScope ==
  ASSUME NEW g, NEW scope, Placed(scope), NEW name
  PROVE  /\ Graph!LookupInScope(name, scope, g) \subseteq DOMAIN g
         /\ \E ns : \A q \in Graph!LookupInScope(name, scope, g) : ns \in scope /\ g[q].package = ns
         /\ (\E ns \in scope : Graph!Declaring(ns, name, g) # {}) => Graph!LookupInScope(name, scope, g) # {}
<1> DEFINE F == [ns \in scope |-> Graph!Declaring(ns, name, g)]
           found == Graph!LookupInScope(name, scope, g)
<1>1. DOMAIN F = scope /\ \A ns \in scope : F[ns] = Graph!Declaring(ns, name, g)
  OBVIOUS
<1>2. found = Graph!FirstDeclaring(F)
  BY DEF Graph!LookupInScope
<1> HIDE DEF F, found
<1>3. found = {} \/ \E ns \in scope : F[ns] # {} /\ found = F[ns]
  BY <1>1, <1>2, FirstDeclares
<1>4. (\E ns \in scope : F[ns] # {}) => found # {}
  BY <1>1, <1>2, FirstDeclares
<1>5. \A ns \in scope : F[ns] \subseteq DOMAIN g /\ \A q \in F[ns] : g[q].package = ns
  BY <1>1 DEF Graph!Declaring
<1>6. found \subseteq DOMAIN g /\ \E ns : \A q \in found : ns \in scope /\ g[q].package = ns
  BY <1>3, <1>5
<1>7. (\E ns \in scope : Graph!Declaring(ns, name, g) # {}) => found # {}
  BY <1>1, <1>4
<1> QED
  BY <1>6, <1>7 DEF found

LEMMA QualifiedFound ==
  ASSUME NEW g, NEW scope, Placed(scope), NEW segs
  PROVE  Graph!LookupQualified(segs, scope, g) \subseteq DOMAIN g
<1> DEFINE F == [ns \in scope \ {Graph!NoPackage} |-> Graph!Declaring(ns \o Graph!Front(segs), Graph!Last(segs), g)]
           whole == Graph!Declaring(Graph!Front(segs), Graph!Last(segs), g)
<1>1. Graph!LookupQualified(segs, scope, g) = IF whole # {} THEN whole ELSE Graph!FirstDeclaring(F)
  BY DEF Graph!LookupQualified
<1>2. \A ns, name : Graph!Declaring(ns, name, g) \subseteq DOMAIN g
  BY DEF Graph!Declaring
<1>3. Placed(DOMAIN F) /\ whole \subseteq DOMAIN g /\ \A ns \in DOMAIN F : F[ns] \subseteq DOMAIN g
  BY <1>2 DEF Placed
<1> HIDE DEF F, whole
<1>4. Graph!FirstDeclaring(F) \subseteq DOMAIN g
  BY <1>3, FirstDeclares
<1> QED
  BY <1>1, <1>3, <1>4

LEMMA TypesFound ==
  ASSUME NEW g, NEW p, Placed(Graph!ScopeFor(g[p], g))
  PROVE  Graph!ResolveTypes(p, g) \subseteq DOMAIN g \ {p}
<1> DEFINE scope == Graph!ScopeFor(g[p], g)
<1>1. Placed(scope)
  OBVIOUS
<1> HIDE DEF scope
<1>2. \A imp : Referred(imp, scope, g) \subseteq DOMAIN g
  BY <1>1, FoundInScope, QualifiedFound DEF Referred
<1>3. \A q : q \in Graph!ResolveTypes(p, g) <=> q # p /\ \E imp \in g[p].imports : q \in Referred(imp, scope, g)
  BY TypesAre DEF scope
<1> QED
  BY <1>2, <1>3

----------------------------------------------------------------------------
(* The files that reach a file are the least set that no caller is outside *)
(* of.                                                                     *)

Callers(p) == {q \in DOMAIN files : p \in files[q].depends}
Returns(X) == \A c \in X : Callers(c) \subseteq X

Spreading(p, N, after) ==
  /\ after \in [0..N -> SUBSET DOMAIN files]
  /\ after[0] = {p}
  /\ \A n \in 1..N :
       after[n] = after[n - 1] \cup {q \in DOMAIN files : files[q].depends \cap after[n - 1] # {}}

LEMMA ReachingIsSpread ==
  ASSUME IsFiniteSet(DOMAIN files), NEW p \in DOMAIN files
  PROVE  \E after : /\ Spreading(p, Cardinality(DOMAIN files), after)
                    /\ Graph!Reaching(p) = after[Cardinality(DOMAIN files)]
<1> DEFINE D == DOMAIN files
           N == Cardinality(D)
           More(S) == S \cup {q \in D : files[q].depends \cap S # {}}
           next == [e \in (1..N) \X SUBSET D |-> More(e[2])]
           Is(a) == a = [n \in 0..N |-> IF n = 0 THEN {p} ELSE More(a[n - 1])]
<1>1. N \in Nat /\ {p} \in SUBSET D
  BY FS_CardinalityType
<1>2. Step(next, N, SUBSET D)
  <2>1. \A S \in SUBSET D : More(S) \in SUBSET D
    OBVIOUS
  <2> HIDE DEF More
  <2> QED
    BY <2>1 DEF Step
<1>3. Graph!Reaching(p) = (CHOOSE a : Is(a))[N]
  BY SameInGraph DEF Graph!Reaching
<1> HIDE DEF More
<1>4. PICK b : Iterates(b, N, SUBSET D, {p}, next)
  <2> HIDE DEF next, N
  <2> QED
    BY <1>1, <1>2, Recursion
<1> HIDE DEF N
<1>5. Is(b)
  <2>1. b \in [0..N -> SUBSET D] /\ b[0] = {p}
    BY <1>4 DEF Iterates
  <2>2. \A n \in 1..N : b[n] = More(b[n - 1])
    <3> SUFFICES ASSUME NEW n \in 1..N PROVE b[n] = More(b[n - 1])
      OBVIOUS
    <3>1. n - 1 \in 0..N
      BY <1>1
    <3>2. <<n, b[n - 1]>> \in (1..N) \X SUBSET D
      BY <2>1, <3>1
    <3>3. next[<<n, b[n - 1]>>] = More(b[n - 1])
      BY <3>2
    <3> QED
      BY <1>4, <3>3 DEF Iterates
  <2>3. b = [n \in 0..N |-> b[n]]
    BY <2>1
  <2>4. \A n \in 0..N : b[n] = IF n = 0 THEN {p} ELSE More(b[n - 1])
    BY <1>1, <2>1, <2>2
  <2> QED
    BY <2>3, <2>4, Zenon
<1> DEFINE a == CHOOSE c : Is(c)
<1>6. Is(a)
  BY <1>5
<1> HIDE DEF a
<1>7. \A n \in 0..N : a[n] = IF n = 0 THEN {p} ELSE More(a[n - 1])
  BY <1>6
<1>8. a[0] = b[0] /\ \A n \in 1..N : a[n] = More(a[n - 1]) /\ b[n] = More(b[n - 1])
  <2>1. \A n \in 0..N : b[n] = IF n = 0 THEN {p} ELSE More(b[n - 1])
    BY <1>5
  <2> QED
    BY <1>1, <1>7, <2>1
<1>9. \A n \in 0..N : a[n] = b[n]
  <2>1. Together(a, b, N)
    BY <1>8 DEF Together
  <2> QED
    BY <1>1, <2>1, Lockstep
<1>10. Spreading(p, N, b)
  <2>1. b \in [0..N -> SUBSET D] /\ b[0] = {p}
    BY <1>4 DEF Iterates
  <2> QED
    BY <1>8, <2>1 DEF Spreading, More
<1>11. Graph!Reaching(p) = b[N]
  <2>1. Graph!Reaching(p) = a[N]
    BY <1>3 DEF a
  <2> QED
    BY <1>1, <1>9, <2>1
<1> QED
  BY <1>10, <1>11 DEF N

LEMMA ReachingIsLeast ==
  ASSUME IsFiniteSet(DOMAIN files), NEW p \in DOMAIN files
  PROVE  /\ p \in Graph!Reaching(p)
         /\ Graph!Reaching(p) \subseteq DOMAIN files
         /\ Returns(Graph!Reaching(p))
         /\ \A X : p \in X /\ Returns(X) => Graph!Reaching(p) \subseteq X
<1> DEFINE D == DOMAIN files
           N == Cardinality(D)
<1>1. PICK after : Spreading(p, N, after) /\ Graph!Reaching(p) = after[N]
  BY ReachingIsSpread
<1>2. N \in Nat
  BY FS_CardinalityType
<1> HIDE DEF N
<1>3. /\ after \in [0..N -> SUBSET D]
      /\ after[0] = {p}
      /\ \A n \in 1..N : after[n] = after[n - 1] \cup {q \in D : files[q].depends \cap after[n - 1] # {}}
  BY <1>1 DEF Spreading
<1>4. \A n \in 0..N : after[n] \subseteq D /\ IsFiniteSet(after[n]) /\ Cardinality(after[n]) \in Nat
  BY <1>3, FS_Subset, FS_CardinalityType
\* No iteration leads out of a set that holds the callers of its members.
<1>5. ASSUME NEW X, p \in X, Returns(X) PROVE \A n \in 0..N : after[n] \subseteq X
  <2> DEFINE I == {n \in Nat : n <= N => after[n] \subseteq X}
  <2>1. 0 \in I
    BY <1>2, <1>3, <1>5
  <2>2. ASSUME NEW n \in I PROVE n + 1 \in I
    <3> SUFFICES ASSUME n + 1 <= N PROVE after[n + 1] \subseteq X
      BY <2>2
    <3>1. n + 1 \in 1..N /\ (n + 1) - 1 = n /\ after[n] \subseteq X
      BY <1>2, <2>2
    <3>2. after[n + 1] = after[n] \cup {q \in D : files[q].depends \cap after[n] # {}}
      BY <1>3, <3>1
    <3>3. {q \in D : files[q].depends \cap after[n] # {}} \subseteq X
      BY <1>5, <3>1 DEF Returns, Callers
    <3> QED
      BY <3>1, <3>2, <3>3
  <2> HIDE DEF I
  <2>3. I = Nat
    BY <2>1, <2>2, Induction DEF I
  <2> QED
    BY <2>3 DEF I
\* Each iteration adds a file, or there was none to be added.
<1>6. \A n \in 0..N : p \in after[n] /\ (Returns(after[n]) \/ Cardinality(after[n]) >= n + 1)
  <2> DEFINE I == {n \in Nat : n <= N => p \in after[n] /\ (Returns(after[n]) \/ Cardinality(after[n]) >= n + 1)}
  <2>1. 0 \in I
    <3>1. after[0] = {p} /\ Cardinality({p}) = 1
      BY <1>3, FS_Singleton
    <3> QED
      BY <3>1
  <2>2. ASSUME NEW n \in I PROVE n + 1 \in I
    <3> SUFFICES ASSUME n + 1 <= N
                 PROVE  p \in after[n + 1] /\ (Returns(after[n + 1]) \/ Cardinality(after[n + 1]) >= (n + 1) + 1)
      BY <2>2
    <3>1. /\ n \in Nat /\ n \in 0..N /\ n + 1 \in 0..N /\ n + 1 \in 1..N /\ (n + 1) - 1 = n
          /\ p \in after[n] /\ (Returns(after[n]) \/ Cardinality(after[n]) >= n + 1)
      BY <1>2, <2>2
    <3>2. after[n + 1] = after[n] \cup {q \in D : files[q].depends \cap after[n] # {}}
      BY <1>3, <3>1
    <3>3. CASE Returns(after[n])
      <4>1. {q \in D : files[q].depends \cap after[n] # {}} \subseteq after[n]
        BY <3>3 DEF Returns, Callers
      <4>2. after[n + 1] = after[n]
        BY <3>2, <4>1
      <4> QED
        BY <3>1, <3>3, <4>2
    <3>4. CASE ~Returns(after[n])
      <4>1. PICK c \in after[n] : \E q \in Callers(c) : q \notin after[n]
        BY <3>4 DEF Returns
      <4>2. PICK q \in D : q \notin after[n] /\ c \in files[q].depends
        BY <4>1 DEF Callers
      <4>4. after[n] \cup {q} \subseteq after[n + 1]
        BY <3>2, <4>2
      <4>5. Cardinality(after[n] \cup {q}) = Cardinality(after[n]) + 1
        BY <1>4, <3>1, <4>2, FS_AddElement
      <4>6. Cardinality(after[n] \cup {q}) <= Cardinality(after[n + 1])
        BY <1>4, <3>1, <4>4, FS_Subset
      <4>7. Cardinality(after[n + 1]) >= (n + 1) + 1
        BY <1>4, <3>1, <3>4, <4>5, <4>6
      <4> QED
        BY <3>1, <4>4, <4>7
    <3> QED
      BY <3>3, <3>4
  <2> HIDE DEF I
  <2>3. I = Nat
    BY <2>1, <2>2, Induction DEF I
  <2> QED
    BY <2>3 DEF I
<1>7. N \in 0..N
  BY <1>2
<1>8. Returns(after[N])
  <2>1. Cardinality(after[N]) <= N /\ Cardinality(after[N]) \in Nat
    BY <1>4, <1>7, FS_Subset DEF N
  <2>2. ~(Cardinality(after[N]) >= N + 1)
    BY <1>2, <2>1
  <2> QED
    BY <1>6, <1>7, <2>2
<1> QED
  BY <1>1, <1>4, <1>5, <1>6, <1>7, <1>8

----------------------------------------------------------------------------
(* The graph, from the walk of the repository to the answer of a query.    *)

\* What the loop keeps of the files it has read.
ReadInv ==
  /\ repo \in Repos /\ walked \in Seq(DOMAIN repo)
  /\ chunked \subseteq DOMAIN repo /\ DOMAIN files \subseteq DOMAIN repo
  /\ \A p \in chunked : ~repo[p].blank
  /\ \A p \in DOMAIN files : ~repo[p].blank => p \in chunked
  /\ \A p \in DOMAIN files :
       files[p] = [Graph!NodeOf(repo[p]) EXCEPT !.depends = files[p].depends]

\* The edges lead to other files, and the reverse index lists each of them once.
BuiltInv ==
  /\ order \in Graph!SetToSeqs(DOMAIN files)
  /\ \A p \in DOMAIN files :
       /\ files[p].depends \subseteq DOMAIN files \ {p}
       /\ files[p].lang = "csharp" => files[p].depends = Graph!ResolveTypes(p, files)
  /\ \A p : /\ Graph!Dependents(p) \in Seq(DOMAIN files)
            /\ IsInjective(Graph!Dependents(p))
            /\ Range(Graph!Dependents(p)) = Callers(p)

\* What a walk has visited reaches the file, and holds the callers of all it has
\* done with.
WalkInv ==
  /\ query.of \in query.visited
  /\ query.visited \subseteq DOMAIN files
  /\ query.queue \in Seq(query.visited) /\ IsInjective(query.queue)
  /\ \A c \in query.visited \ Range(query.queue) : Callers(c) \subseteq query.visited
  /\ \A X : query.of \in X /\ Returns(X) => query.visited \subseteq X

\* What is drawn are the edges into the files the walk has done with.
DrawnInv ==
  /\ query.edges \in Seq((DOMAIN files) \X (DOMAIN files)) /\ IsInjective(query.edges)
  /\ \A q, c : <<q, c>> \in Range(query.edges)
                 <=> c \in query.visited \ Range(query.queue) /\ q \in Callers(c)

GraphInv ==
  /\ ReadInv
  /\ pc \in {"reading", "resolving", "ready", "impact", "dot", "failed"}
  /\ query = [of |-> query.of, queue |-> query.queue, visited |-> query.visited, edges |-> query.edges]
  /\ pc \notin {"impact", "dot"} => query = Graph!NoQuery
  /\ pc \in {"reading", "resolving", "failed"} => \A p \in DOMAIN files : files[p].depends = {}
  /\ pc \in {"ready", "impact", "dot"} => BuiltInv
  /\ pc \in {"impact", "dot"} => WalkInv
  /\ pc = "dot" => DrawnInv

LEMMA FilesAreFinite ==
  ASSUME GraphsAssumption, ReadInv
  PROVE  /\ IsFiniteSet(DOMAIN files)
         /\ \A p \in DOMAIN files : p \in DOMAIN repo /\ p # Graph!NoFile /\ p.dir \in Seq(STRING)
<1>1. /\ repo \in Repos /\ DOMAIN files \subseteq DOMAIN repo
      /\ IsFiniteSet(DOMAIN repo) /\ Graph!NoFile \notin DOMAIN repo
      /\ \A p \in DOMAIN repo : p.dir \in Seq(STRING)
  BY DEF ReadInv, GraphsAssumption, Graph!GraphAssumption, Graph!IsFiniteSet, IsFiniteSet
<1>2. IsFiniteSet(DOMAIN files)
  BY <1>1, FS_Subset
<1> QED
  BY <1>1, <1>2

\* What is kept of a file.
LEMMA NodeIs ==
  ASSUME NEW src
  PROVE  LET n == Graph!NodeOf(src)
         IN  /\ n = [lang |-> src.lang, package |-> n.package, symbols |-> n.symbols, imports |-> n.imports,
                     depends |-> {}]
             /\ src.lang = "csharp" => n.package = Graph!CSharpNamespace(src) /\ n.imports = Graph!CSharpImports(src)
BY Zenon DEF Graph!NodeOf

LEMMA KeptOfFile ==
  ASSUME ReadInv, NEW p \in DOMAIN files
  PROVE  /\ files[p] = [lang |-> files[p].lang, package |-> files[p].package, symbols |-> files[p].symbols,
                        imports |-> files[p].imports, depends |-> files[p].depends]
         /\ files[p].lang = repo[p].lang
         /\ files[p].lang = "csharp" => files[p].package = Graph!CSharpNamespace(repo[p])
                                        /\ files[p].imports = Graph!CSharpImports(repo[p])
<1> DEFINE n == Graph!NodeOf(repo[p])
<1>1. files[p] = [n EXCEPT !.depends = files[p].depends]
  BY DEF ReadInv
<1>2. /\ n = [lang |-> repo[p].lang, package |-> n.package, symbols |-> n.symbols, imports |-> n.imports, depends |-> {}]
      /\ repo[p].lang = "csharp" => n.package = Graph!CSharpNamespace(repo[p]) /\ n.imports = Graph!CSharpImports(repo[p])
  BY NodeIs
<1> HIDE DEF n
<1>3. \A d : [n EXCEPT !.depends = d] = [lang |-> repo[p].lang, package |-> n.package, symbols |-> n.symbols,
                                          imports |-> n.imports, depends |-> d]
  BY <1>2
<1>4. files[p] = [lang |-> repo[p].lang, package |-> n.package, symbols |-> n.symbols,
                  imports |-> n.imports, depends |-> files[p].depends]
  BY <1>1, <1>3
<1>5. files[p].lang = repo[p].lang /\ files[p].package = n.package /\ files[p].symbols = n.symbols
      /\ files[p].imports = n.imports
  BY <1>4
<1> QED
  BY <1>2, <1>4, <1>5

\* Every namespace in the scope of a C# file has its place.
LEMMA ScopesArePlaced ==
  ASSUME GraphsAssumption, ReadInv, NEW p \in DOMAIN files, files[p].lang = "csharp"
  PROVE  Placed(Graph!ScopeFor(files[p], files))
<1>1. ASSUME NEW q \in DOMAIN files, files[q].lang = "csharp"
      PROVE  /\ \A i \in 0..Len(files[q].package) : RankOf[SubSeq(files[q].package, 1, i)] \in Nat
             /\ \A imp \in files[q].imports : imp.form \in {"using", "gusing"} => RankOf[imp.segs] \in Nat
  <2>1. q \in DOMAIN repo /\ repo \in Repos /\ repo[q].lang = "csharp"
        /\ files[q].package = Graph!CSharpNamespace(repo[q]) /\ files[q].imports = Graph!CSharpImports(repo[q])
    BY <1>1, KeptOfFile DEF ReadInv
  <2>2. \A ns \in Graph!Opened(repo[q]) : RankOf[ns] \in Nat
    BY <2>1 DEF GraphsAssumption, Graph!GraphAssumption
  <2>3. \A i \in 0..Len(files[q].package) : SubSeq(files[q].package, 1, i) \in Graph!Opened(repo[q])
    BY <2>1 DEF Graph!Opened
  <2>4. \A imp \in files[q].imports : imp.form \in {"using", "gusing"} => imp.segs \in Graph!Opened(repo[q])
    BY <2>1 DEF Graph!Opened
  <2> QED
    BY <2>2, <2>3, <2>4
<1>2. ASSUME NEW ns \in Graph!ScopeFor(files[p], files) PROVE RankOf[ns] \in Nat
  <2>1. \/ \E i \in 0..Len(files[p].package) : ns = SubSeq(files[p].package, 1, i)
        \/ \E imp \in files[p].imports : imp.form = "using" /\ ns = imp.segs
        \/ ns \in Graph!GlobalUsings(files)
    BY <1>2 DEF Graph!ScopeFor
  <2>2. ASSUME ns \in Graph!GlobalUsings(files) PROVE RankOf[ns] \in Nat
    <3>1. \E q \in DOMAIN files : files[q].lang = "csharp"
            /\ \E imp \in files[q].imports : imp.form = "gusing" /\ ns = imp.segs
      BY <2>2 DEF Graph!GlobalUsings
    <3> QED
      BY <1>1, <3>1
  <2> QED
    BY <1>1, <2>1, <2>2
<1> QED
  BY <1>2 DEF Placed

----------------------------------------------------------------------------
(* Sequences that repeat nothing.                                          *)

LEMMA JoinedOnce ==
  ASSUME NEW S, NEW a \in Seq(S), NEW b \in Seq(S)
  PROVE  /\ a \o b \in Seq(S)
         /\ Range(a \o b) = Range(a) \cup Range(b)
         /\ IsInjective(a) /\ IsInjective(b) /\ Range(a) \cap Range(b) = {} => IsInjective(a \o b)
<1> DEFINE c == a \o b
           M == Len(a)
           N == Len(b)
<1>1. M \in Nat /\ N \in Nat /\ DOMAIN a = 1..M /\ DOMAIN b = 1..N
  BY LenProperties
<1>2. /\ c \in Seq(S) /\ Len(c) = M + N
      /\ \A i \in 1..(M + N) : c[i] = IF i <= M THEN a[i] ELSE b[i - M]
  BY ConcatProperties
<1>3. DOMAIN c = 1..(M + N)
  BY <1>2, LenProperties
<1> HIDE DEF c, M, N
<1>4. \A i \in 1..(M + N) : (i \in 1..M /\ c[i] = a[i]) \/ (i - M \in 1..N /\ c[i] = b[i - M])
  <2> SUFFICES ASSUME NEW i \in 1..(M + N)
               PROVE  (i \in 1..M /\ c[i] = a[i]) \/ (i - M \in 1..N /\ c[i] = b[i - M])
    OBVIOUS
  <2>1. i <= M => i \in 1..M
    BY <1>1
  <2>2. ~(i <= M) => i - M \in 1..N
    BY <1>1
  <2> QED
    BY <1>2, <2>1, <2>2
<1>5. \A i \in 1..M : i \in 1..(M + N) /\ c[i] = a[i]
  <2>1. \A i \in 1..M : i \in 1..(M + N) /\ i <= M
    BY <1>1
  <2> QED
    BY <1>2, <2>1
<1>6. \A j \in 1..N : M + j \in 1..(M + N) /\ c[M + j] = b[j]
  <2>1. \A j \in 1..N : M + j \in 1..(M + N) /\ ~(M + j <= M) /\ (M + j) - M = j
    BY <1>1
  <2> QED
    BY <1>2, <2>1
<1>7. Range(a) = {a[i] : i \in 1..M} /\ Range(b) = {b[i] : i \in 1..N} /\ Range(c) = {c[i] : i \in 1..(M + N)}
  BY <1>1, <1>3 DEF Range
<1>8. Range(c) = Range(a) \cup Range(b)
  BY <1>4, <1>5, <1>6, <1>7, SMTT(30)
<1>9. ASSUME IsInjective(a), IsInjective(b), Range(a) \cap Range(b) = {} PROVE IsInjective(c)
  <2> SUFFICES ASSUME NEW i \in 1..(M + N), NEW j \in 1..(M + N), c[i] = c[j] PROVE i = j
    BY <1>3 DEF IsInjective
  <2>1. CASE i \in 1..M /\ c[i] = a[i] /\ j \in 1..M /\ c[j] = a[j]
    BY <1>1, <1>9, <2>1 DEF IsInjective
  <2>2. CASE i - M \in 1..N /\ c[i] = b[i - M] /\ j - M \in 1..N /\ c[j] = b[j - M]
    <3>1. i - M = j - M
      BY <1>1, <1>9, <2>2 DEF IsInjective
    <3> QED
      BY <1>1, <3>1
  <2>3. ~(i \in 1..M /\ c[i] = a[i] /\ j - M \in 1..N /\ c[j] = b[j - M])
    BY <1>7, <1>9
  <2>4. ~(j \in 1..M /\ c[j] = a[j] /\ i - M \in 1..N /\ c[i] = b[i - M])
    BY <1>7, <1>9
  <2> QED
    BY <1>4, <2>1, <2>2, <2>3, <2>4
<1> QED
  BY <1>2, <1>8, <1>9 DEF c

LEMMA TailOnce ==
  ASSUME NEW S, NEW a \in Seq(S), a # <<>>, IsInjective(a)
  PROVE  /\ Head(a) \in Range(a) /\ Tail(a) \in Seq(S)
         /\ IsInjective(Tail(a)) /\ Range(Tail(a)) = Range(a) \ {Head(a)}
<1> DEFINE b == Tail(a)
           N == Len(a)
<1>1. /\ N \in Nat /\ N >= 1 /\ DOMAIN a = 1..N
      /\ b \in Seq(S) /\ Len(b) = N - 1 /\ \A i \in 1..(N - 1) : b[i] = a[i + 1]
  BY EmptySeq, LenProperties, HeadTailProperties
<1>2. DOMAIN b = 1..(N - 1)
  BY <1>1, LenProperties
<1>3. Head(a) = a[1]
  OBVIOUS
<1> HIDE DEF b, N
<1>4. \A i \in 1..(N - 1) : i + 1 \in 1..N /\ i + 1 # 1
  BY <1>1
<1>5. \A j \in 1..N : j = 1 \/ (j - 1 \in 1..(N - 1) /\ (j - 1) + 1 = j)
  BY <1>1
<1>6. 1 \in 1..N
  BY <1>1
<1>7. \A i, j \in 1..N : a[i] = a[j] => i = j
  BY <1>1 DEF IsInjective
<1>8. Range(a) = {a[i] : i \in 1..N} /\ Range(b) = {b[i] : i \in 1..(N - 1)}
  BY <1>1, <1>2 DEF Range
<1>9. Range(b) = Range(a) \ {a[1]}
  <2>1. ASSUME NEW x \in Range(b) PROVE x \in Range(a) \ {a[1]}
    <3>1. PICK i \in 1..(N - 1) : x = a[i + 1]
      BY <1>1, <1>8
    <3> QED
      BY <1>4, <1>6, <1>7, <1>8, <3>1
  <2>2. ASSUME NEW x \in Range(a) \ {a[1]} PROVE x \in Range(b)
    <3>1. PICK j \in 1..N : x = a[j] /\ j # 1
      BY <1>8
    <3>2. b[j - 1] = a[j] /\ j - 1 \in 1..(N - 1)
      BY <1>1, <1>5, <3>1
    <3> QED
      BY <1>8, <3>1, <3>2
  <2> QED
    BY <2>1, <2>2
<1>10. IsInjective(b)
  <2> SUFFICES ASSUME NEW i \in 1..(N - 1), NEW j \in 1..(N - 1), b[i] = b[j] PROVE i = j
    BY <1>2 DEF IsInjective
  <2>1. i + 1 = j + 1
    BY <1>1, <1>4, <1>7
  <2> QED
    BY <1>1, <2>1
<1> QED
  BY <1>1, <1>3, <1>6, <1>8, <1>9, <1>10 DEF b

LEMMA NothingListed ==
  ASSUME NEW S
  PROVE  <<>> \in Seq(S) /\ Range(<<>>) = {} /\ IsInjective(<<>>)
BY DEF Range, IsInjective

LEMMA OneListed ==
  ASSUME NEW S, NEW x \in S
  PROVE  <<x>> \in Seq(S) /\ Range(<<x>>) = {x} /\ IsInjective(<<x>>)
BY DEF Range, IsInjective

LEMMA WalkLists ==
  ASSUME NEW S, IsFiniteSet(S)
  PROVE  Graph!SetToSeq(S) \in Seq(S)
<1> DEFINE N == Cardinality(S)
<1>1. N \in Nat /\ ExistsBijection(1..N, S)
  BY FS_CardinalityType
<1>2. Graph!SetToSeq(S) = CHOOSE f \in [1..N -> S] : IsInjective(f)
  BY SameInGraph, Zenon DEF Graph!SetToSeq
<1> HIDE DEF N
<1>3. PICK f \in [1..N -> S] : IsInjective(f)
  BY <1>1 DEF ExistsBijection, Bijection, Injection
<1>4. Graph!SetToSeq(S) \in [1..N -> S]
  BY <1>2, <1>3
<1> QED
  BY <1>1, <1>4

----------------------------------------------------------------------------
(* Its steps.                                                              *)

LEMMA NoQueryIs ==
  Graph!NoQuery = [of |-> Graph!NoQuery.of, queue |-> Graph!NoQuery.queue,
                   visited |-> Graph!NoQuery.visited, edges |-> Graph!NoQuery.edges]
BY DEF Graph!NoQuery

LEMMA GraphInitial == GraphsAssumption /\ Graph!Init => GraphInv
<1> SUFFICES ASSUME GraphsAssumption, Graph!Init PROVE GraphInv
  OBVIOUS
<1>1. /\ repo \in Repos /\ walked = Graph!SetToSeq(DOMAIN repo) /\ files = <<>> /\ chunked = {}
      /\ pc = "reading" /\ query = Graph!NoQuery /\ DOMAIN files = {}
  BY DEF Graph!Init, Graph!Walk
<1>2. IsFiniteSet(DOMAIN repo)
  BY <1>1 DEF GraphsAssumption, Graph!GraphAssumption, Graph!IsFiniteSet, IsFiniteSet
<1>3. walked \in Seq(DOMAIN repo)
  BY <1>1, <1>2, WalkLists
<1>4. ReadInv
  BY <1>1, <1>3 DEF ReadInv
<1> QED
  BY <1>1, <1>4, NoQueryIs DEF GraphInv

LEMMA GraphStandsStill == GraphsAssumption /\ NoGraph => GraphInv
<1> SUFFICES ASSUME GraphsAssumption, NoGraph PROVE GraphInv
  OBVIOUS
<1>1. /\ repo = (CHOOSE r \in Repos : TRUE) /\ walked = <<>> /\ files = <<>> /\ chunked = {}
      /\ pc = "failed" /\ query = Graph!NoQuery /\ DOMAIN files = {}
  BY DEF NoGraph
<1>2. Repos # {}
  BY DEF GraphsAssumption, Graph!GraphAssumption
<1>3. repo \in Repos
  BY <1>1, <1>2
<1>4. ReadInv
  BY <1>1, <1>3 DEF ReadInv
<1> QED
  BY <1>1, <1>4, NoQueryIs DEF GraphInv

LEMMA SkipFileStep == ASSUME GraphInv, Graph!SkipFile PROVE GraphInv'
<1>1. /\ pc = "reading" /\ walked # <<>> /\ walked' = Tail(walked)
      /\ repo' = repo /\ files' = files /\ chunked' = chunked /\ pc' = pc /\ query' = query
  BY DEF Graph!SkipFile
<1>2. ReadInv /\ ReadInv'
  <2>1. ReadInv
    BY DEF GraphInv
  <2>2. Tail(walked) \in Seq(DOMAIN repo)
    BY <1>1, <2>1, HeadTailProperties DEF ReadInv
  <2> QED
    BY <1>1, <2>1, <2>2 DEF ReadInv
<1> QED
  BY <1>1, <1>2 DEF GraphInv

LEMMA AddFileStep == ASSUME GraphInv, Graph!AddFile PROVE GraphInv'
<1> DEFINE p == Head(walked)
<1>1. /\ pc = "reading" /\ walked # <<>> /\ walked' = Tail(walked)
      /\ chunked' = IF repo[p].blank THEN chunked ELSE chunked \cup {p}
      /\ repo' = repo /\ pc' = pc /\ query' = query
      /\ \/ files' = files
         \/ files' = [q \in DOMAIN files \cup {p} |-> IF q = p THEN Graph!NodeOf(repo[p]) ELSE files[q]]
  BY DEF Graph!AddFile
<1>2. ReadInv
  BY DEF GraphInv
<1>3. p \in DOMAIN repo /\ Tail(walked) \in Seq(DOMAIN repo)
  BY <1>1, <1>2, HeadTailProperties DEF ReadInv
<1> HIDE DEF p
<1>4. /\ DOMAIN files' \subseteq DOMAIN files \cup {p}
      /\ \A q \in DOMAIN files' : files'[q] = Graph!NodeOf(repo[q]) \/ (q \in DOMAIN files /\ files'[q] = files[q])
  BY <1>1
<1>5. \A q : /\ Graph!NodeOf(repo[q]).depends = {}
             /\ Graph!NodeOf(repo[q]) = [Graph!NodeOf(repo[q]) EXCEPT !.depends = Graph!NodeOf(repo[q]).depends]
  <2> SUFFICES ASSUME NEW q
               PROVE  /\ Graph!NodeOf(repo[q]).depends = {}
                      /\ Graph!NodeOf(repo[q]) = [Graph!NodeOf(repo[q]) EXCEPT !.depends = Graph!NodeOf(repo[q]).depends]
    OBVIOUS
  <2> DEFINE n == Graph!NodeOf(repo[q])
  <2>1. n = [lang |-> repo[q].lang, package |-> n.package, symbols |-> n.symbols, imports |-> n.imports, depends |-> {}]
    BY NodeIs
  <2> HIDE DEF n
  <2>2. n.depends = {} /\ n = [n EXCEPT !.depends = n.depends]
    BY <2>1
  <2> QED
    BY <2>2 DEF n
<1>6. ReadInv'
  <2>1. \A q \in DOMAIN files' : files'[q] = [Graph!NodeOf(repo[q]) EXCEPT !.depends = files'[q].depends]
    <3> SUFFICES ASSUME NEW q \in DOMAIN files'
                 PROVE  files'[q] = [Graph!NodeOf(repo[q]) EXCEPT !.depends = files'[q].depends]
      OBVIOUS
    <3>1. CASE files'[q] = Graph!NodeOf(repo[q])
      BY <1>5, <3>1, Zenon
    <3>2. CASE q \in DOMAIN files /\ files'[q] = files[q]
      BY <1>2, <3>2, Zenon DEF ReadInv
    <3> QED
      BY <1>4, <3>1, <3>2
  <2>2. /\ repo' \in Repos /\ walked' \in Seq(DOMAIN repo')
        /\ chunked' \subseteq DOMAIN repo' /\ DOMAIN files' \subseteq DOMAIN repo'
    BY <1>1, <1>2, <1>3, <1>4 DEF ReadInv
  <2>3. /\ \A q \in chunked' : ~repo[q].blank
        /\ \A q \in DOMAIN files' : ~repo[q].blank => q \in chunked'
    BY <1>1, <1>2, <1>4 DEF ReadInv
  <2> QED
    BY <1>1, <2>1, <2>2, <2>3 DEF ReadInv
<1>7. \A q \in DOMAIN files' : files'[q].depends = {}
  BY <1>1, <1>4, <1>5 DEF GraphInv
<1> QED
  BY <1>1, <1>6, <1>7 DEF GraphInv

LEMMA AllReadStep == ASSUME GraphInv, Graph!AllRead PROVE GraphInv'
<1>1. /\ pc = "reading" /\ pc' \in {"failed", "resolving"}
      /\ repo' = repo /\ walked' = walked /\ files' = files /\ chunked' = chunked /\ query' = query
  BY DEF Graph!AllRead
<1>2. ReadInv'
  BY <1>1 DEF GraphInv, ReadInv
<1> QED
  BY <1>1, <1>2 DEF GraphInv

\* What a file is resolved to depend on are other files.
LEMMA DependsOnFiles ==
  ASSUME GraphsAssumption, ReadInv, NEW p \in DOMAIN files, NEW o \in Graph!SetToSeqs(DOMAIN files)
  PROVE  Graph!DependsOn(p, files, o) \subseteq DOMAIN files \ {p}
<1> DEFINE D == DOMAIN files
           leads(imp) == Graph!ResolveImport(imp, p, files, o)
<1>1. IsFiniteSet(D) /\ Graph!NoFile \notin D /\ p.dir \in Seq(STRING)
  BY FilesAreFinite
<1>2. CASE files[p].lang = "csharp"
  <2>1. Graph!ResolveTypes(p, files) \subseteq D \ {p}
    BY <1>2, ScopesArePlaced, TypesFound
  <2> QED
    BY <1>2, <2>1 DEF Graph!DependsOn
<1>3. CASE files[p].lang # "csharp"
  <2>1. Lists(o, D)
    BY <1>1, OrderIs DEF Lists
  <2>2. ASSUME NEW imp PROVE leads(imp) = Graph!NoFile \/ leads(imp) \in D
    <3>1. Gives(leads(imp), Candidates(imp, p, files, D)) /\ Candidates(imp, p, files, D) \in SUBSET D
      BY <1>1, <2>1, ImportGives
    <3> QED
      BY <3>1 DEF Gives
  <2>3. Graph!DependsOn(p, files, o) = {leads(imp) : imp \in files[p].imports} \ {Graph!NoFile, p}
    BY <1>3 DEF Graph!DependsOn
  <2> HIDE DEF leads, D
  <2>4. {leads(imp) : imp \in files[p].imports} \ {Graph!NoFile, p} \subseteq D \ {p}
    BY <2>2
  <2> QED
    BY <2>3, <2>4 DEF D
<1> QED
  BY <1>2, <1>3

LEMMA ResolveStep == ASSUME GraphsAssumption, GraphInv, Graph!ResolveDependencies PROVE GraphInv'
<1>1. PICK o \in Graph!SetToSeqs(DOMAIN files) :
        /\ order' = o
        /\ files' = [p \in DOMAIN files |->
                       [files[p] EXCEPT !.depends = [q \in DOMAIN files |-> Graph!DependsOn(q, files, o)][p]]]
        /\ reverse' = Graph!ReverseIndex([p \in DOMAIN files |-> Graph!DependsOn(p, files, o)], o)
  BY Zenon DEF Graph!ResolveDependencies
<1>2. pc = "resolving" /\ pc' = "ready" /\ UNCHANGED <<repo, walked, chunked, query>>
  BY DEF Graph!ResolveDependencies
<1> DEFINE D == DOMAIN files
           on(p) == Graph!DependsOn(p, files, o)
           depends0 == [p \in D |-> on(p)]
<1>3. ReadInv /\ IsFiniteSet(D) /\ query = Graph!NoQuery
  BY <1>2, FilesAreFinite DEF GraphInv
<1>4. \A p \in D : on(p) \subseteq D \ {p}
  BY <1>3, DependsOnFiles
<1>5. /\ DOMAIN files' = D
      /\ \A p \in D : files'[p] = [files[p] EXCEPT !.depends = on(p)]
  BY <1>1
<1>6. \A p \in D : /\ files'[p] = [files[p] EXCEPT !.depends = files'[p].depends]
                   /\ files'[p].depends = on(p)
                   /\ files'[p].lang = files[p].lang /\ files'[p].package = files[p].package
                   /\ files'[p].symbols = files[p].symbols /\ files'[p].imports = files[p].imports
  <2> SUFFICES ASSUME NEW p \in D
               PROVE  /\ files'[p] = [files[p] EXCEPT !.depends = files'[p].depends]
                      /\ files'[p].depends = on(p)
                      /\ files'[p].lang = files[p].lang /\ files'[p].package = files[p].package
                      /\ files'[p].symbols = files[p].symbols /\ files'[p].imports = files[p].imports
    OBVIOUS
  <2> DEFINE f == files[p]
             g == files'[p]
             d == on(p)
  <2>1. f = [lang |-> f.lang, package |-> f.package, symbols |-> f.symbols, imports |-> f.imports, depends |-> f.depends]
    BY <1>3, KeptOfFile
  <2>2. g = [f EXCEPT !.depends = d]
    BY <1>5
  <2> HIDE DEF f, g, d
  <2>3. /\ g = [f EXCEPT !.depends = g.depends] /\ g.depends = d
        /\ g.lang = f.lang /\ g.package = f.package /\ g.symbols = f.symbols /\ g.imports = f.imports
    BY <2>1, <2>2
  <2> QED
    BY <2>3 DEF f, g, d
<1> DEFINE h == files'
<1>7. Alike(files, h)
  BY <1>5, <1>6 DEF Alike
<1>8. \A p \in D : h[p].lang = "csharp" => h[p].depends = Graph!ResolveTypes(p, h)
  <2> SUFFICES ASSUME NEW p \in D, h[p].lang = "csharp" PROVE h[p].depends = Graph!ResolveTypes(p, h)
    OBVIOUS
  <2>1. on(p) = Graph!ResolveTypes(p, files)
    BY <1>6 DEF Graph!DependsOn
  <2>2. Graph!ResolveTypes(p, files) = Graph!ResolveTypes(p, h)
    BY <1>7, TypesAlike
  <2> QED
    BY <1>6, <2>1, <2>2
<1> DEFINE calls(p) == {q \in D : p \in on(q)}
<1>9. \A p : Callers(p)' = calls(p)
  BY <1>5, <1>6 DEF Callers
<1>10. ASSUME NEW p
       PROVE  /\ Graph!Dependents(p)' \in Seq(D)
              /\ IsInjective(Graph!Dependents(p)')
              /\ Range(Graph!Dependents(p)') = calls(p)
  <2> DEFINE some == {q \in DOMAIN depends0 : p \in depends0[q]}
  <2>1. some = calls(p) /\ some \subseteq D
    OBVIOUS
  <2>2. reverse' = [q \in UNION {depends0[r] : r \in DOMAIN depends0} |->
                      Graph!Kept(o, {r \in DOMAIN depends0 : q \in depends0[r]})]
    BY <1>1, Zenon DEF Graph!ReverseIndex
  <2>3. p \in DOMAIN reverse' => reverse'[p] = Graph!Kept(o, some)
    BY <2>2
  <2>4. p \notin DOMAIN reverse' => calls(p) = {}
    BY <2>2
  <2>5. Graph!Dependents(p)' = IF p \in DOMAIN reverse' THEN reverse'[p] ELSE <<>>
    BY DEF Graph!Dependents
  <2>6. o \in Seq(D) /\ Range(o) = D /\ IsInjective(o)
    BY <1>3, OrderIs
  <2> DEFINE X == calls(p)
  <2>7. some = X /\ X \subseteq D
    BY <2>1
  <2> HIDE DEF some, X, D
  <2>8. Graph!Kept(o, X) \in Seq(D) /\ IsInjective(Graph!Kept(o, X)) /\ Range(Graph!Kept(o, X)) = X
    <3>1. D \cap X = X
      BY <2>7
    <3> QED
      BY <2>6, <3>1, KeptAre
  <2>9. CASE p \in DOMAIN reverse'
    BY <2>3, <2>5, <2>7, <2>8, <2>9 DEF X
  <2>10. CASE p \notin DOMAIN reverse'
    BY <2>4, <2>5, <2>10, NothingListed DEF X
  <2> QED
    BY <2>9, <2>10
<1>11. ReadInv'
  <2>1. \A p \in D : files'[p] = [Graph!NodeOf(repo[p]) EXCEPT !.depends = files'[p].depends]
    <3> SUFFICES ASSUME NEW p \in D
                 PROVE  files'[p] = [Graph!NodeOf(repo[p]) EXCEPT !.depends = files'[p].depends]
      OBVIOUS
    <3> DEFINE n == Graph!NodeOf(repo[p])
               f == files[p]
               g == files'[p]
    <3>1. n = [lang |-> repo[p].lang, package |-> n.package, symbols |-> n.symbols, imports |-> n.imports, depends |-> {}]
      BY NodeIs
    <3>2. f = [n EXCEPT !.depends = f.depends]
      BY <1>3 DEF ReadInv
    <3>3. g = [f EXCEPT !.depends = g.depends]
      BY <1>6
    <3> HIDE DEF n, f, g
    <3>4. g = [n EXCEPT !.depends = g.depends]
      BY <3>1, <3>2, <3>3
    <3> QED
      BY <3>4 DEF n, g
  <2> QED
    BY <1>2, <1>3, <1>5, <2>1 DEF ReadInv
<1>12. BuiltInv'
  <2>1. order' \in Graph!SetToSeqs(DOMAIN h)
    BY <1>1, <1>5
  <2>2. \A p \in DOMAIN h : /\ h[p].depends \subseteq DOMAIN h \ {p}
                            /\ h[p].lang = "csharp" => h[p].depends = Graph!ResolveTypes(p, h)
    BY <1>4, <1>5, <1>6, <1>8
  <2>3. \A p : /\ Graph!Dependents(p)' \in Seq(DOMAIN h)
               /\ IsInjective(Graph!Dependents(p)')
               /\ Range(Graph!Dependents(p)') = Callers(p)'
    BY <1>5, <1>9, <1>10
  <2> QED
    BY <2>1, <2>2, <2>3 DEF BuiltInv
<1> QED
  BY <1>2, <1>3, <1>11, <1>12, NoQueryIs DEF GraphInv

LEMMA IndexStays ==
  ASSUME ReadInv, BuiltInv, UNCHANGED <<repo, walked, files, chunked, order, reverse>>
  PROVE  ReadInv' /\ BuiltInv'
  BY DEF ReadInv, BuiltInv, Callers, Graph!Dependents

LEMMA AskStep ==
  ASSUME GraphInv, NEW p \in DOMAIN files, NEW kind \in {"impact", "dot"}, Graph!Ask(p, kind)
  PROVE  GraphInv'
<1>1. /\ pc = "ready" /\ pc' = kind
      /\ query' = [of |-> p, queue |-> <<p>>, visited |-> {p}, edges |-> <<>>]
      /\ UNCHANGED <<repo, walked, files, chunked, order, reverse>>
  BY DEF Graph!Ask
<1>2. ReadInv' /\ BuiltInv'
  BY <1>1, IndexStays DEF GraphInv
<1>3. /\ query'.of = p /\ query'.queue = <<p>> /\ query'.visited = {p} /\ query'.edges = <<>> /\ DOMAIN files' = DOMAIN files
      /\ query' = [of |-> query'.of, queue |-> query'.queue, visited |-> query'.visited, edges |-> query'.edges]
  BY <1>1
<1>4. <<p>> \in Seq({p}) /\ IsInjective(<<p>>) /\ Range(<<p>>) = {p}
  BY OneListed
<1>5. WalkInv'
  BY <1>3, <1>4 DEF WalkInv
<1>6. DrawnInv'
  <2>1. <<>> \in Seq((DOMAIN files) \X (DOMAIN files)) /\ Range(<<>>) = {} /\ IsInjective(<<>>)
    BY NothingListed
  <2> QED
    BY <1>3, <1>4, <2>1 DEF DrawnInv
<1> QED
  BY <1>1, <1>2, <1>3, <1>5, <1>6 DEF GraphInv

LEMMA AnsweredStep == ASSUME GraphInv, Graph!Answered PROVE GraphInv'
<1>1. /\ pc \in {"impact", "dot"} /\ pc' = "ready" /\ query' = Graph!NoQuery
      /\ UNCHANGED <<repo, walked, files, chunked, order, reverse>>
  BY DEF Graph!Answered
<1>2. ReadInv' /\ BuiltInv'
  BY <1>1, IndexStays DEF GraphInv
<1> QED
  BY <1>1, <1>2, NoQueryIs DEF GraphInv

\* One turn of either walk: the callers of the first of the queue that are new to it.
Turn(new) ==
  /\ query.queue # <<>>
  /\ new = Graph!Kept(Graph!Dependents(Head(query.queue)), DOMAIN files \ query.visited)
  /\ query'.of = query.of /\ query'.queue = Tail(query.queue) \o new
  /\ query'.visited = query.visited \cup Graph!Range(new)
  /\ files' = files

LEMMA TurnStep ==
  ASSUME BuiltInv, WalkInv, NEW new, Turn(new)
  PROVE  /\ WalkInv'
         /\ Head(query.queue) \in Range(query.queue) /\ Head(query.queue) \in query.visited
         /\ query'.visited \ Range(query'.queue) = (query.visited \ Range(query.queue)) \cup {Head(query.queue)}
<1> DEFINE V == query.visited
           q == query.queue
           c == Head(q)
           deps == Graph!Dependents(c)
<1>1. /\ query.of \in V /\ V \subseteq DOMAIN files
      /\ q \in Seq(V) /\ IsInjective(q) /\ q # <<>>
      /\ \A d \in V \ Range(q) : Callers(d) \subseteq V
      /\ \A X : query.of \in X /\ Returns(X) => V \subseteq X
  BY DEF WalkInv, Turn
<1>2. /\ deps \in Seq(DOMAIN files) /\ IsInjective(deps) /\ Range(deps) = Callers(c)
      /\ Callers(c) \subseteq DOMAIN files
  BY DEF BuiltInv, Callers
<1>3. /\ new = Graph!Kept(deps, DOMAIN files \ V)
      /\ query'.of = query.of /\ query'.queue = Tail(q) \o new /\ query'.visited = V \cup Range(new) /\ files' = files
  BY SameInGraph DEF Turn
<1>4. /\ c \in Range(q) /\ Tail(q) \in Seq(V) /\ IsInjective(Tail(q)) /\ Range(Tail(q)) = Range(q) \ {c}
      /\ Range(q) \subseteq V
  <2> HIDE DEF V, q
  <2> QED
    BY <1>1, TailOnce, RangeIs
<1> HIDE DEF deps
<1>5. /\ new \in Seq(DOMAIN files) /\ IsInjective(new) /\ Range(new) = Callers(c) \ V
  <2>1. new \in Seq(DOMAIN files) /\ IsInjective(new) /\ Range(new) = Range(deps) \cap (DOMAIN files \ V)
    BY <1>2, <1>3, KeptAre
  <2>2. Callers(c) \cap (DOMAIN files \ V) = Callers(c) \ V
    BY <1>2
  <2> QED
    BY <1>2, <2>1, <2>2
<1> HIDE DEF c, q, V
<1> DEFINE W == V \cup Range(new)
           r == Tail(q) \o new
<1>6. /\ r \in Seq(W) /\ IsInjective(r) /\ Range(r) = (Range(q) \ {c}) \cup (Callers(c) \ V)
  <2>1. Tail(q) \in Seq(W)
    <3>1. Range(Tail(q)) \subseteq W /\ Tail(q) \in Seq(Range(Tail(q)))
      BY <1>4, RangeIs
    <3> QED
      BY <3>1
  <2>2. new \in Seq(W)
    <3>1. Range(new) \subseteq W /\ new \in Seq(Range(new))
      BY <1>5, RangeIs
    <3> QED
      BY <3>1
  <2>3. Range(Tail(q)) \cap Range(new) = {}
    BY <1>4, <1>5
  <2> HIDE DEF W
  <2>4. /\ Tail(q) \o new \in Seq(W) /\ IsInjective(Tail(q) \o new)
        /\ Range(Tail(q) \o new) = Range(Tail(q)) \cup Range(new)
    <3> DEFINE a == Tail(q)
    <3>1. a \in Seq(W) /\ new \in Seq(W) /\ IsInjective(a) /\ IsInjective(new) /\ Range(a) \cap Range(new) = {}
      BY <1>4, <1>5, <2>1, <2>2, <2>3
    <3> HIDE DEF a
    <3>2. /\ a \o new \in Seq(W) /\ IsInjective(a \o new) /\ Range(a \o new) = Range(a) \cup Range(new)
      BY <3>1, JoinedOnce
    <3> QED
      BY <3>2 DEF a
  <2> QED
    BY <1>4, <1>5, <2>4, SMTT(30)
<1>7. query'.visited = W /\ query'.queue = r /\ query'.of = query.of
  BY <1>3
<1>8. W = V \cup Callers(c)
  BY <1>5
<1>9. W \ Range(r) = (V \ Range(q)) \cup {c}
  BY <1>4, <1>6, <1>8
<1> HIDE DEF W, r
<1>10. \A d : Callers(d)' = Callers(d)
  BY <1>3 DEF Callers
<1>11. \A X : Returns(X)' <=> Returns(X)
  BY <1>10 DEF Returns
<1>12. \A d \in W \ Range(r) : Callers(d) \subseteq W
  BY <1>1, <1>8, <1>9
<1>13. ASSUME NEW X, query.of \in X, Returns(X) PROVE W \subseteq X
  <2>1. V \subseteq X /\ c \in X
    BY <1>1, <1>4, <1>13
  <2>2. Callers(c) \subseteq X
    BY <1>13, <2>1 DEF Returns
  <2> QED
    BY <1>8, <2>1, <2>2
<1>14. WalkInv'
  <2>1. query.of \in W /\ W \subseteq DOMAIN files'
    BY <1>1, <1>2, <1>3, <1>8
  <2> QED
    BY <1>6, <1>7, <1>10, <1>11, <1>12, <1>13, <2>1 DEF WalkInv
<1> QED
  BY <1>4, <1>7, <1>9, <1>14 DEF c, q, V

LEMMA VisitImpactStep == ASSUME GraphInv, Graph!VisitImpact PROVE GraphInv'
<1> DEFINE new == Graph!Kept(Graph!Dependents(Head(query.queue)), DOMAIN files \ query.visited)
<1>1. /\ pc = "impact" /\ query.queue # <<>> /\ pc' = pc
      /\ query' = [query EXCEPT !.queue = Tail(@) \o new, !.visited = @ \cup Graph!Range(new)]
      /\ UNCHANGED <<repo, walked, files, chunked, order, reverse>>
  BY DEF Graph!VisitImpact
<1>2. /\ ReadInv /\ BuiltInv /\ WalkInv
      /\ query = [of |-> query.of, queue |-> query.queue, visited |-> query.visited, edges |-> query.edges]
  BY <1>1 DEF GraphInv
<1> HIDE DEF new
<1>3. /\ query'.of = query.of /\ query'.queue = Tail(query.queue) \o new
      /\ query'.visited = query.visited \cup Graph!Range(new)
      /\ query' = [of |-> query'.of, queue |-> query'.queue, visited |-> query'.visited, edges |-> query'.edges]
  BY <1>1, <1>2
<1>4. Turn(new)
  BY <1>1, <1>3 DEF Turn, new
<1>5. ReadInv' /\ BuiltInv' /\ WalkInv'
  BY <1>1, <1>2, <1>4, IndexStays, TurnStep
<1> QED
  BY <1>1, <1>3, <1>5 DEF GraphInv

LEMMA VisitDotStep == ASSUME GraphInv, Graph!VisitDot PROVE GraphInv'
<1> DEFINE c == Head(query.queue)
           deps == Graph!Dependents(c)
           new == Graph!Kept(deps, DOMAIN files \ query.visited)
           drawn == [i \in 1..Len(deps) |-> <<deps[i], c>>]
           D == DOMAIN files
<1>1. /\ pc = "dot" /\ query.queue # <<>> /\ pc' = pc
      /\ query' = [query EXCEPT !.queue = Tail(@) \o new, !.visited = @ \cup Graph!Range(new), !.edges = @ \o drawn]
      /\ UNCHANGED <<repo, walked, files, chunked, order, reverse>>
  BY DEF Graph!VisitDot
<1>2. /\ ReadInv /\ BuiltInv /\ WalkInv /\ DrawnInv
      /\ query = [of |-> query.of, queue |-> query.queue, visited |-> query.visited, edges |-> query.edges]
  BY <1>1 DEF GraphInv
<1>3. deps \in Seq(D) /\ IsInjective(deps) /\ Range(deps) = Callers(c) /\ Callers(c) \subseteq D
  BY <1>2 DEF BuiltInv, Callers
<1> HIDE DEF new, drawn
<1>4. /\ query'.of = query.of /\ query'.queue = Tail(query.queue) \o new
      /\ query'.visited = query.visited \cup Graph!Range(new)
      /\ query'.edges = query.edges \o drawn
      /\ query' = [of |-> query'.of, queue |-> query'.queue, visited |-> query'.visited, edges |-> query'.edges]
  BY <1>1, <1>2
<1>5. Turn(new)
  BY <1>1, <1>4 DEF Turn, new
<1>6. /\ ReadInv' /\ BuiltInv' /\ WalkInv'
      /\ c \in Range(query.queue) /\ c \in query.visited
      /\ query'.visited \ Range(query'.queue) = (query.visited \ Range(query.queue)) \cup {c}
  <2>1. ReadInv' /\ BuiltInv'
    BY <1>1, <1>2, IndexStays
  <2> QED
    BY <1>2, <1>5, <2>1, TurnStep
<1>7. c \in D
  BY <1>2, <1>6 DEF WalkInv
<1> HIDE DEF c, deps
<1>8. /\ drawn \in Seq(D \X D) /\ IsInjective(drawn)
      /\ Range(drawn) = {<<d, c>> : d \in Callers(c)}
  <2> DEFINE N == Len(deps)
  <2>1. N \in Nat /\ DOMAIN deps = 1..N /\ (\A i \in 1..N : deps[i] \in D) /\ Range(deps) = {deps[i] : i \in 1..N}
    BY <1>3, LenProperties, ElementOfSeq, RangeIs
  <2>2. drawn = [i \in 1..N |-> <<deps[i], c>>]
    BY DEF drawn
  <2> HIDE DEF N
  <2>3. drawn \in [1..N -> D \X D] /\ DOMAIN drawn = 1..N /\ \A i \in 1..N : drawn[i] = <<deps[i], c>>
    BY <1>7, <2>1, <2>2
  <2>4. drawn \in Seq(D \X D)
    BY <2>1, <2>3
  <2>5. IsInjective(drawn)
    <3> SUFFICES ASSUME NEW i \in 1..N, NEW j \in 1..N, drawn[i] = drawn[j] PROVE i = j
      BY <2>3 DEF IsInjective
    <3>1. deps[i] = deps[j]
      BY <2>3
    <3> QED
      BY <1>3, <2>1, <3>1 DEF IsInjective
  <2>6. Range(drawn) = {drawn[i] : i \in 1..N}
    BY <2>3 DEF Range
  <2>7. {drawn[i] : i \in 1..N} = {<<d, c>> : d \in {deps[i] : i \in 1..N}}
    <3>1. ASSUME NEW x \in {drawn[i] : i \in 1..N} PROVE x \in {<<d, c>> : d \in {deps[i] : i \in 1..N}}
      BY <2>3
    <3>2. ASSUME NEW x \in {<<d, c>> : d \in {deps[i] : i \in 1..N}} PROVE x \in {drawn[i] : i \in 1..N}
      <4>1. PICK i \in 1..N : x = <<deps[i], c>>
        OBVIOUS
      <4> QED
        BY <2>3, <4>1
    <3> QED
      BY <3>1, <3>2
  <2> QED
    BY <1>3, <2>1, <2>4, <2>5, <2>6, <2>7
<1>9. /\ query.edges \in Seq(D \X D) /\ IsInjective(query.edges)
      /\ \A q, d : <<q, d>> \in Range(query.edges) <=> d \in query.visited \ Range(query.queue) /\ q \in Callers(d)
  BY <1>2 DEF DrawnInv
<1>10. Range(query.edges) \cap Range(drawn) = {}
  <2> SUFFICES ASSUME NEW d \in Callers(c) PROVE <<d, c>> \notin Range(query.edges)
    BY <1>8
  <2> QED
    BY <1>6, <1>9
<1>11. /\ query.edges \o drawn \in Seq(D \X D) /\ IsInjective(query.edges \o drawn)
       /\ Range(query.edges \o drawn) = Range(query.edges) \cup Range(drawn)
  <2> HIDE DEF D
  <2> QED
    BY <1>8, <1>9, <1>10, JoinedOnce
<1>12. DrawnInv'
  <2>1. \A d : Callers(d)' = Callers(d)
    BY <1>1 DEF Callers
  <2>2. ASSUME NEW q, NEW d
        PROVE  <<q, d>> \in Range(query.edges) \cup Range(drawn)
                 <=> d \in (query.visited \ Range(query.queue)) \cup {c} /\ q \in Callers(d)
    <3>1. <<q, d>> \in Range(drawn) <=> d = c /\ q \in Callers(c)
      BY <1>8
    <3> QED
      BY <1>9, <3>1
  <2>3. DOMAIN files' = D
    BY <1>1
  <2> QED
    BY <1>4, <1>6, <1>11, <2>1, <2>2, <2>3 DEF DrawnInv
<1> QED
  BY <1>1, <1>4, <1>6, <1>12 DEF GraphInv

LEMMA GraphStep == GraphsAssumption /\ GraphInv /\ [Graph!Next]_graphVars => GraphInv'
<1> SUFFICES ASSUME GraphsAssumption, GraphInv, [Graph!Next]_graphVars PROVE GraphInv'
  OBVIOUS
<1>1. CASE Graph!SkipFile
  BY <1>1, SkipFileStep
<1>2. CASE Graph!AddFile
  BY <1>2, AddFileStep
<1>3. CASE Graph!AllRead
  BY <1>3, AllReadStep
<1>4. CASE Graph!ResolveDependencies
  BY <1>4, ResolveStep
<1>5. CASE \E p \in DOMAIN files, kind \in {"impact", "dot"} : Graph!Ask(p, kind)
  BY <1>5, AskStep
<1>6. CASE Graph!VisitImpact
  BY <1>6, VisitImpactStep
<1>7. CASE Graph!VisitDot
  BY <1>7, VisitDotStep
<1>8. CASE Graph!Answered
  BY <1>8, AnsweredStep
<1>9. CASE UNCHANGED graphVars
  <2>1. UNCHANGED <<repo, walked, files, chunked, order, reverse>> /\ pc' = pc /\ query' = query
    BY <1>9 DEF graphVars
  <2>2. ReadInv'
    BY <2>1 DEF GraphInv, ReadInv
  <2>3. BuiltInv => BuiltInv'
    BY <2>1, IndexStays DEF GraphInv
  <2>4. (WalkInv => WalkInv') /\ (DrawnInv => DrawnInv')
    <3>1. \A p : Callers(p)' = Callers(p)
      BY <2>1 DEF Callers
    <3>2. \A X : Returns(X)' <=> Returns(X)
      BY <3>1 DEF Returns
    <3> QED
      BY <2>1, <3>1, <3>2 DEF WalkInv, DrawnInv
  <2> QED
    BY <2>1, <2>2, <2>3, <2>4 DEF GraphInv
<1> QED
  BY <1>1, <1>2, <1>3, <1>4, <1>5, <1>6, <1>7, <1>8, <1>9 DEF Graph!Next

----------------------------------------------------------------------------
(* What follows of its queries.                                            *)

LEMMA GraphIsTyped == GraphInv => Graph!TypeOK
<1> SUFFICES ASSUME GraphInv PROVE Graph!TypeOK
  OBVIOUS
<1>1. /\ repo \in Repos /\ chunked \subseteq DOMAIN repo /\ DOMAIN files \subseteq DOMAIN repo
      /\ \A p \in DOMAIN files : p \in chunked <=> ~repo[p].blank
  BY DEF GraphInv, ReadInv
<1>2. pc \in {"reading", "resolving", "ready", "impact", "dot", "failed"}
  BY DEF GraphInv
<1>3. \A p \in DOMAIN files : files[p].depends \subseteq DOMAIN files \ {p}
  <2>1. CASE pc \in {"reading", "resolving", "failed"}
    BY <2>1 DEF GraphInv
  <2>2. CASE pc \in {"ready", "impact", "dot"}
    BY <2>2 DEF GraphInv, BuiltInv
  <2> QED
    BY <1>2, <2>1, <2>2
<1>4. query.visited \subseteq DOMAIN files
  <2>1. CASE pc \in {"impact", "dot"}
    BY <2>1 DEF GraphInv, WalkInv
  <2>2. CASE pc \notin {"impact", "dot"}
    BY <2>2 DEF GraphInv, Graph!NoQuery
  <2> QED
    BY <2>1, <2>2
<1> QED
  BY <1>1, <1>2, <1>3, <1>4 DEF Graph!TypeOK

\* A walk that has nothing left to do has visited what reaches the file.
LEMMA WalkReaches ==
  ASSUME GraphsAssumption, GraphInv, pc \in {"impact", "dot"}, query.queue = <<>>
  PROVE  query.visited = Graph!Reaching(query.of)
<1>1. WalkInv /\ IsFiniteSet(DOMAIN files)
  BY FilesAreFinite DEF GraphInv
<1>2. /\ query.of \in query.visited /\ query.visited \subseteq DOMAIN files /\ query.of \in DOMAIN files
      /\ Returns(query.visited)
      /\ \A X : query.of \in X /\ Returns(X) => query.visited \subseteq X
  BY <1>1, NothingListed DEF WalkInv, Returns
<1>3. /\ query.of \in Graph!Reaching(query.of) /\ Returns(Graph!Reaching(query.of))
      /\ \A X : query.of \in X /\ Returns(X) => Graph!Reaching(query.of) \subseteq X
  BY <1>1, <1>2, ReachingIsLeast
<1> QED
  BY <1>2, <1>3

LEMMA ImpactReaches == GraphsAssumption /\ GraphInv => Graph!ImpactIsReachability
  BY WalkReaches DEF Graph!ImpactIsReachability, Graph!Impact

LEMMA DotInduces == GraphsAssumption /\ GraphInv => Graph!DotIsInduced
<1> SUFFICES ASSUME GraphsAssumption, GraphInv, pc = "dot", query.queue = <<>>
             PROVE  /\ Range(query.edges)
                         = {e \in (DOMAIN files) \X query.visited : e[2] \in files[e[1]].depends}
                    /\ IsInjective(query.edges)
                    /\ query.visited = Graph!Reaching(query.of)
  BY SameInGraph DEF Graph!DotIsInduced
<1> DEFINE D == DOMAIN files
           V == query.visited
<1>1. /\ query.edges \in Seq(D \X D) /\ IsInjective(query.edges)
      /\ \A q, c : <<q, c>> \in Range(query.edges) <=> c \in V /\ q \in Callers(c)
  BY NothingListed DEF GraphInv, DrawnInv
<1>2. Range(query.edges) \subseteq D \X D
  <2> HIDE DEF D
  <2> QED
    BY <1>1, RangeIs
<1>3. ASSUME NEW e \in Range(query.edges) PROVE e \in {x \in D \X V : x[2] \in files[x[1]].depends}
  <2>1. PICK q \in D, c \in D : e = <<q, c>>
    BY <1>2, <1>3
  <2>2. c \in V /\ q \in Callers(c)
    BY <1>1, <1>3, <2>1
  <2> QED
    BY <2>1, <2>2 DEF Callers
<1>4. ASSUME NEW e \in {x \in D \X V : x[2] \in files[x[1]].depends} PROVE e \in Range(query.edges)
  <2>1. PICK q \in D, c \in V : e = <<q, c>> /\ c \in files[q].depends
    BY <1>4
  <2> QED
    BY <1>1, <2>1 DEF Callers
<1>5. Range(query.edges) = {x \in D \X V : x[2] \in files[x[1]].depends}
  <2> HIDE DEF D, V
  <2> QED
    BY <1>3, <1>4
<1> QED
  BY <1>1, <1>5, WalkReaches

LEMMA OrphansAreAlone == GraphsAssumption /\ GraphInv => Graph!OrphansConcernNobody
<1> SUFFICES ASSUME GraphsAssumption, GraphInv, pc = "ready"
             PROVE  /\ Graph!Orphans = {p \in DOMAIN files : Graph!Reaching(p) = {p} /\ ~Graph!IsEntryPoint(p)}
                    /\ \A u \in Graph!UnusedSymbols : u[1] \in Graph!Orphans
  BY DEF Graph!OrphansConcernNobody
<1>1. ReadInv /\ BuiltInv /\ IsFiniteSet(DOMAIN files)
  BY FilesAreFinite DEF GraphInv
<1>2. ASSUME NEW p \in DOMAIN files PROVE Graph!Dependents(p) = <<>> <=> Graph!Reaching(p) = {p}
  <2>1. Graph!Dependents(p) = <<>> <=> Callers(p) = {}
    BY <1>1, RangeIs DEF BuiltInv
  <2>2. Callers(p) \subseteq DOMAIN files \ {p}
    BY <1>1 DEF BuiltInv, Callers
  <2>3. /\ p \in Graph!Reaching(p) /\ Returns(Graph!Reaching(p))
        /\ \A X : p \in X /\ Returns(X) => Graph!Reaching(p) \subseteq X
    BY <1>1, ReachingIsLeast
  <2>4. Callers(p) = {} => Graph!Reaching(p) = {p}
    <3>1. Callers(p) = {} => Returns({p})
      BY DEF Returns
    <3> QED
      BY <2>3, <3>1
  <2>5. Graph!Reaching(p) = {p} => Callers(p) = {}
    BY <2>2, <2>3 DEF Returns
  <2> QED
    BY <2>1, <2>4, <2>5
<1>3. Graph!Orphans = {p \in DOMAIN files : Graph!Reaching(p) = {p} /\ ~Graph!IsEntryPoint(p)}
  BY <1>2 DEF Graph!Orphans
<1>4. ASSUME NEW u \in Graph!UnusedSymbols PROVE u[1] \in Graph!Orphans
  <2>1. \E s : \E p \in DOMAIN files : u = <<p, s>> /\ ~Graph!IsEntryPoint(p) /\ Graph!Dependents(p) = <<>>
    BY <1>4 DEF Graph!UnusedSymbols
  <2> QED
    BY <2>1 DEF Graph!Orphans
<1> QED
  BY <1>3, <1>4

LEMMA NoOrderLoses == GraphsAssumption /\ GraphInv => Graph!OrderNeverLosesAnImport
<1> SUFFICES ASSUME GraphsAssumption, GraphInv, pc = "ready",
                    NEW p \in DOMAIN files, NEW hashed \in Graph!SetToSeqs(DOMAIN files), NEW imp
             PROVE  Graph!ResolveImport(imp, p, files, hashed) = Graph!NoFile
                      <=> Graph!ResolveImport(imp, p, files, order) = Graph!NoFile
  BY DEF Graph!OrderNeverLosesAnImport, Graph!Orders
<1> DEFINE D == DOMAIN files
<1>1. /\ IsFiniteSet(D) /\ Graph!NoFile \notin D /\ p.dir \in Seq(STRING)
      /\ order \in Graph!SetToSeqs(D)
  BY FilesAreFinite DEF GraphInv, BuiltInv
<1>2. Lists(hashed, D) /\ Lists(order, D)
  BY <1>1, OrderIs DEF Lists
<1> HIDE DEF D
<1>3. /\ Gives(Graph!ResolveImport(imp, p, files, hashed), Candidates(imp, p, files, D))
      /\ Gives(Graph!ResolveImport(imp, p, files, order), Candidates(imp, p, files, D))
      /\ Candidates(imp, p, files, D) \in SUBSET D
  BY <1>1, <1>2, ImportGives
<1> QED
  BY <1>1, <1>3 DEF Gives

LEMMA ScopesDecide == GraphsAssumption /\ GraphInv => Graph!ScopeDecides
<1> SUFFICES ASSUME GraphsAssumption, GraphInv, pc = "ready",
                    NEW p \in DOMAIN files, files[p].lang = "csharp", NEW imp \in files[p].imports, imp.form = "ref"
             PROVE  LET scope == Graph!ScopeFor(files[p], files)
                        found == Graph!LookupInScope(imp.segs[1], scope, files)
                    IN  /\ {files[q].package : q \in found} \subseteq scope
                        /\ Graph!Cardinality({files[q].package : q \in found}) <= 1
                        /\ (\E ns \in scope : Graph!Declaring(ns, imp.segs[1], files) # {}) => found # {}
                        /\ found \ {p} \subseteq files[p].depends
  BY Zenon DEF Graph!ScopeDecides
<1> DEFINE scope == Graph!ScopeFor(files[p], files)
           found == Graph!LookupInScope(imp.segs[1], scope, files)
<1>1. ReadInv /\ BuiltInv
  BY DEF GraphInv
<1>2. Placed(scope)
  BY <1>1, ScopesArePlaced
<1> HIDE DEF scope
<1>3. /\ found \subseteq DOMAIN files
      /\ \E ns : \A q \in found : ns \in scope /\ files[q].package = ns
      /\ (\E ns \in scope : Graph!Declaring(ns, imp.segs[1], files) # {}) => found # {}
  BY <1>2, FoundInScope
<1> HIDE DEF found
<1>4. PICK ns : \A q \in found : ns \in scope /\ files[q].package = ns
  BY <1>3
<1> DEFINE packages == {files[q].package : q \in found}
<1>5. packages = {} \/ (packages = {ns} /\ ns \in scope)
  BY <1>4
<1>6. packages \subseteq scope /\ Cardinality(packages) <= 1
  <2> HIDE DEF packages
  <2>1. Cardinality({}) = 0 /\ Cardinality({ns}) = 1
    BY FS_EmptySet, FS_Singleton
  <2> QED
    BY <1>5, <2>1
<1>7. found \ {p} \subseteq files[p].depends
  <2>1. files[p].depends = Graph!ResolveTypes(p, files)
    BY <1>1 DEF BuiltInv
  <2>2. found = Referred(imp, scope, files)
    BY DEF Referred, found
  <2>3. \A q : q # p /\ q \in Referred(imp, scope, files) => q \in Graph!ResolveTypes(p, files)
    BY TypesAre DEF scope
  <2> QED
    BY <2>1, <2>2, <2>3
<1>8. Graph!Cardinality(packages) = Cardinality(packages)
  BY SameInGraph
<1> QED
  BY <1>3, <1>6, <1>7, <1>8 DEF scope, found

LEMMA GraphInvSuffices == GraphsAssumption /\ GraphInv => GraphIsSound
  BY GraphIsTyped, ImpactReaches, DotInduces, OrphansAreAlone, NoOrderLoses, ScopesDecide DEF GraphIsSound

----------------------------------------------------------------------------
(* Either part moves, or another does and it stands still.                 *)

PartsInv == ChunkInv /\ GraphInv /\ PartInv /\ PlanInv

LEMMA PartsInitial == AllInit => PartsInv
BY GraphsAssumption, ChunkInitial, ChunksStandStill, GraphInitial, GraphStandsStill, PartInitial, PartStandsStill, PlanInitial, PlanStandsStill
   DEF AllInit, PartsInv

LEMMA PartsStep == PartsInv /\ [AllNext]_all => PartsInv'
<1> SUFFICES ASSUME PartsInv, [AllNext]_all PROVE PartsInv'
  OBVIOUS
<1>0. [Next]_vars
  BY DEF AllNext, OfChunks, OfGraph, OfPartition, OfSurface, OfPlan, all
<1>1. [Partitioned!Next]_partVars
  BY DEF AllNext, OfChunks, OfGraph, OfPartition, OfSurface, OfPlan, all
<1>2. [Plan!Next]_planVars
  BY DEF AllNext, OfChunks, OfGraph, OfPartition, OfSurface, OfPlan, all
<1>3. [Graph!Next]_graphVars
  BY DEF AllNext, OfChunks, OfGraph, OfPartition, OfSurface, OfPlan, all
<1> QED
  BY <1>0, <1>1, <1>2, <1>3, GraphsAssumption, ChunkStep, GraphStep, PartStep, PlanStep DEF PartsInv

LEMMA PartsStay == AllSpec => []PartsInv
BY PartsInitial, PartsStep, PTL DEF AllSpec

\* Whatever the repository, its imports and the order of the hash tables: a file of
\* the graph has been chunked unless it is blank, an import is resolved or not
\* whatever that order, a C# name is found in its scope, an impact is what reaches
\* the file and its drawing holds every edge once, cycles or not, and an orphan
\* concerns nobody (index_repo of create.rs, resolve_import, resolve_dependencies,
\* impact, impact_dot and orphans of engine/graph.rs, Resolver of engine/csharp.rs).
THEOREM GraphStaysSound == AllSpec => []GraphIsSound
<1>1. PartsInv => GraphIsSound
  BY GraphsAssumption, GraphInvSuffices DEF PartsInv
<1> QED
  BY <1>1, PartsStay, PTL

\* Whatever the repository and however many its files, no two partitions share a
\* file and none is left out; a component is exactly what dependencies join without
\* a hub, and the list starts with the largest (partition of partition.rs).
THEOREM SplitStaysSound == AllSpec => []PartitionIsSound
<1>1. PartsInv => PartitionIsSound
  BY PartInvSuffices DEF PartsInv
<1> QED
  BY <1>1, PartsStay, PTL

\* Whatever the planner answers, two items that run together never own one
\* partition, a plan is refused for a clash exactly when it has one, and the walk
\* dispatches every item once, level by level, but those of the levels an earlier
\* start had recorded as accepted, of which none is ever run again (parse_plan of
\* supervisor/plan.rs, conflicting_partitions of supervisor/mod.rs, accepted_levels
\* and the loop over the levels of bin/codemason-supervisor.rs).
THEOREM PlansStaySound == AllSpec => []PlanIsSound
<1>1. PartsInv => PlanIsSound
  BY PlanInvSuffices DEF PartsInv
<1> QED
  BY <1>1, PartsStay, PTL

\* Whatever the file, its definitions and its line feeds: the chunks tile it, every
\* type another definition precedes starts one, one is longer than desired or parted
\* from the one before only where it must be, and the lines it names hold its text
\* (chunk_with_tree_sitter, chunk_by_lines and merge_boundaries of engine/chunking.rs).
THEOREM ChunksStaySound == AllSpec => []ChunksAreSound
<1>1. PartsInv => ChunksAreSound
  BY ChunkInvSuffices DEF PartsInv
<1> QED
  BY <1>1, PartsStay, PTL
=============================================================================
