------------------------------ MODULE Planning ------------------------------
(***************************************************************************)
(* How a build gets its plan and walks it: src/src/supervisor/plan.rs, the *)
(* Plan of supervisor/mod.rs and load_plan of bin/codemason-supervisor.rs. *)
(* A plan comes from a file named on the command line or from a model's    *)
(* answer; both are a sequence of items, and the items of one level are    *)
(* dispatched together.  A build may be started again with --resume: it is *)
(* planned anew, and a level whose number the memory records as accepted   *)
(* is skipped, whatever items the new plan has at it.                      *)
(*                                                                         *)
(* What becomes of a dispatched level is the concern of Build.tla: here it *)
(* only ends, well or not, and recorded as accepted or not.                *)
(***************************************************************************)
EXTENDS Sorting, SequencesExt, FiniteSetsExt

CONSTANTS
  Ids,        \* item ids
  Partitions, \* partition ids
  NoPart,     \* an item that names none
  ModelFlags, \* the sets of model flags the build may be given, of "hard", "planner", "model"
  Levels0,    \* bound: levels an answer may name, 0 among them
  MaxItems,   \* bound: items of a plan
  MaxStarts   \* bound: how often the build is started

PlanningAssumption ==
  /\ Levels0 \subseteq Nat /\ {0, 1} \subseteq Levels0
  /\ ModelFlags \subseteq SUBSET {"hard", "planner", "model"}
  /\ MaxItems \in Nat /\ MaxStarts \in Nat

Item == [id : Ids, part : Partitions \union {NoPart}, level : Levels0]
PlanSet == UNION {[1..n -> Item] : n \in 0..MaxItems}

VARIABLES
  fromFile,  \* whether --plan names a file
  contracts, \* whether --contracts names a text that is not blank
  models,    \* the model flags given
  dry,       \* --dry-run
  starts,    \* how often the build was started
  noted,     \* contract facts in the memory
  accepted,  \* the levels the memory records as accepted
  done,      \* those it recorded when this start opened it
  pc,        \* "load", "args", "creds", "choose", "ask", "parse", "planned", "walk", "stopped", "done"
  answer,    \* the model's text: how it is wrapped, and the items in it
  asked,     \* the model that was asked
  plan,      \* the items, in order
  left,      \* levels still to walk, in order
  running,   \* positions of the items in flight
  ran        \* the sets of positions dispatched by this start, in order

args == <<fromFile, contracts, models, dry>>
memory == <<noted, accepted, done>>
vars == <<args, starts, memory, pc, answer, asked, plan, left, running, ran>>

None == [wrap |-> "none", items |-> <<>>]
NoModel == "no model"

Init ==
  /\ fromFile \in BOOLEAN /\ contracts \in BOOLEAN /\ dry \in BOOLEAN
  /\ models \in ModelFlags
  /\ starts = 1 /\ noted = 0 /\ accepted = {} /\ done = {}
  /\ pc = "load"
  /\ answer = None /\ asked = NoModel
  /\ plan = <<>> /\ left = <<>> /\ running = {} /\ ran = <<>>

Stop ==
  /\ pc' = "stopped"
  /\ UNCHANGED <<args, starts, memory, answer, asked, plan, left, running, ran>>

Goto(from, to) ==
  /\ pc = from /\ pc' = to
  /\ UNCHANGED <<args, starts, accepted, done, asked, plan, left, running, ran>>

----------------------------------------------------------------------------
(* Getting a plan.                                                         *)

\* The file is taken as it is.
LoadFile ==
  /\ pc = "load" /\ fromFile
  /\ plan' \in PlanSet
  /\ pc' = "planned"
  /\ UNCHANGED <<args, starts, memory, answer, asked, left, running, ran>>

LoadFileFails == pc = "load" /\ fromFile /\ Stop

\* The goal, the contracts and the partitions are read; any of them may fail.
LoadArgs == pc = "load" /\ ~fromFile /\ Goto("load", "args") /\ UNCHANGED <<noted, answer>>

LoadArgsFails == pc = "load" /\ ~fromFile /\ Stop

\* Contracts are noted in the memory before anything else can fail.
NoteContracts ==
  /\ Goto("args", "creds")
  /\ noted' = IF contracts THEN noted + 1 ELSE noted
  /\ UNCHANGED answer

Credentials == Goto("creds", "choose") /\ UNCHANGED <<noted, answer>>

CredentialsMissing == pc = "creds" /\ Stop

\* A build that is resumed is planned by the harder model, when there is one.
ModelFor(resumed) ==
  LET order == IF resumed THEN <<"hard", "planner", "model">> ELSE <<"planner", "model">>
      named == {i \in DOMAIN order : order[i] \in models}
  IN  IF named = {} THEN NoModel ELSE order[Min(named)]

ChooseModel ==
  /\ pc = "choose"
  /\ IF ModelFor(starts > 1) = NoModel
     THEN Stop
     ELSE /\ pc' = "ask" /\ asked' = ModelFor(starts > 1)
          /\ UNCHANGED <<args, starts, memory, answer, plan, left, running, ran>>

\* The call fails, or its message is empty.
AskFails == pc = "ask" /\ Stop

\* The answer is JSON, bare or in a fence that may not be closed, or prose around it.
Ask ==
  /\ Goto("ask", "parse")
  /\ \E wrap \in {"bare", "fence", "prose"}, items \in PlanSet :
       answer' = [wrap |-> wrap, items |-> items]
  /\ UNCHANGED noted

\* Fences are stripped, even one that is not closed; text around the JSON is not.
Unfenced(wrap) == wrap # "prose"

Floored(items) == [i \in DOMAIN items |-> [items[i] EXCEPT !.level = Max({1, items[i].level})]]

LevelsOf(items) == {items[i].level : i \in DOMAIN items}

\* Levels are taken as they come.
LevelsInOrder(items) == {[i \in DOMAIN items |-> items[i].level]}

\* levels: each once, in execution order.
Levels(items) == Ascending(LevelsOf(items))

ItemsAt(items, level) == {i \in DOMAIN items : items[i].level = level}

\* The partitions met again once they have been seen, those items looked at in
\* their order.
MetAgain(items, some) ==
  LET met[n \in 0..Len(items)] ==
        IF n = 0 THEN [seen |-> {}, bad |-> {}]
        ELSE LET p == items[n].part
                 acc == met[n - 1]
             IN  IF n \notin some \/ p = NoPart THEN acc
                 ELSE IF p \in acc.seen THEN [acc EXCEPT !.bad = @ \union {p}]
                 ELSE [acc EXCEPT !.seen = @ \union {p}]
  IN  met[Len(items)].bad

\* What has been seen is remembered from one level to the next.
ConflictsAcross(items) == MetAgain(items, DOMAIN items)

\* Only neighbours are compared.
ConflictsNearby(items) ==
  {items[i].part : i \in {i \in 1..Len(items) - 1 :
     items[i].part = items[i + 1].part /\ items[i].level = items[i + 1].level /\ items[i].part # NoPart}}

\* conflicting_partitions: what has been seen is forgotten at each level.
Conflicts(items) ==
  UNION {MetAgain(items, ItemsAt(items, level)) : level \in LevelsOf(items)}

Refuses(a) == ~Unfenced(a.wrap) \/ a.items = <<>> \/ Conflicts(Floored(a.items)) # {}

Parse ==
  /\ pc = "parse"
  /\ ~Refuses(answer)
  /\ plan' = Floored(answer.items)
  /\ pc' = "planned"
  /\ answer' = None
  /\ UNCHANGED <<args, starts, memory, asked, left, running, ran>>

ParseFails == pc = "parse" /\ Refuses(answer) /\ Stop

----------------------------------------------------------------------------
(* Walking it.                                                             *)

\* A dry run prints the plan and ends.
PrintPlan == pc = "planned" /\ dry /\ Goto("planned", "done") /\ UNCHANGED <<noted, answer>>

Start ==
  /\ pc = "planned" /\ ~dry
  /\ left' \in Levels(plan)
  /\ pc' = "walk"
  /\ UNCHANGED <<args, starts, memory, answer, asked, plan, running, ran>>

\* A level that is recorded as accepted is passed over.
SkipLevel ==
  /\ pc = "walk" /\ running = {} /\ left # <<>>
  /\ Head(left) \in done
  /\ left' = Tail(left)
  /\ UNCHANGED <<args, starts, memory, pc, answer, asked, plan, running, ran>>

DispatchLevel ==
  /\ pc = "walk" /\ running = {} /\ left # <<>>
  /\ Head(left) \notin done
  /\ running' = ItemsAt(plan, Head(left))
  /\ ran' = Append(ran, running')
  /\ left' = Tail(left)
  /\ UNCHANGED <<args, starts, memory, pc, answer, asked, plan>>

\* The level's jobs have all ended and its work is integrated, or is not.  One that
\* no acceptance command looks at is not recorded, and the build may be killed as
\* soon as another one is.
LevelEnds ==
  /\ pc = "walk" /\ running # {}
  /\ running' = {}
  /\ pc' \in {"walk", "stopped"}
  /\ accepted' \in {accepted, accepted \union {plan[i].level : i \in running}}
  /\ UNCHANGED <<args, starts, noted, done, answer, asked, plan, left, ran>>

Finish ==
  /\ pc = "walk" /\ running = {} /\ left = <<>>
  /\ Goto("walk", "done") /\ UNCHANGED <<noted, answer>>

\* A build that stopped is started again, and does not look at what is accepted.
ResumeForgetting ==
  /\ pc = "stopped" /\ starts < MaxStarts
  /\ pc' = "load" /\ starts' = starts + 1
  /\ answer' = None /\ asked' = NoModel
  /\ plan' = <<>> /\ left' = <<>> /\ running' = {} /\ ran' = <<>>
  /\ UNCHANGED <<args, memory>>

\* A build that stopped is started again; what is accepted is read once.
Resume ==
  /\ pc = "stopped" /\ starts < MaxStarts
  /\ pc' = "load" /\ starts' = starts + 1
  /\ done' = accepted
  /\ answer' = None /\ asked' = NoModel
  /\ plan' = <<>> /\ left' = <<>> /\ running' = {} /\ ran' = <<>>
  /\ UNCHANGED <<args, noted, accepted>>

Next ==
  \/ LoadFile \/ LoadFileFails \/ LoadArgs \/ LoadArgsFails \/ NoteContracts
  \/ Credentials \/ CredentialsMissing \/ ChooseModel \/ Ask \/ AskFails \/ Parse \/ ParseFails
  \/ PrintPlan \/ Start \/ SkipLevel \/ DispatchLevel \/ LevelEnds \/ Finish \/ Resume

Spec == Init /\ [][Next]_vars

----------------------------------------------------------------------------
(* Properties.                                                             *)

TypeOK ==
  /\ plan \in PlanSet
  /\ ~fromFile => \A i \in DOMAIN plan : plan[i].level >= 1
  /\ running \subseteq DOMAIN plan
  /\ noted <= starts /\ done \subseteq accepted /\ accepted \subseteq Levels0
  /\ asked \in models \union {NoModel}

\* Two items that run at the same time never own the same files, when the plan was
\* made by the planner.
Shared == \E i, j \in running : i # j /\ plan[i].part = plan[j].part /\ plan[i].part # NoPart
NoSharedPartition == ~fromFile => ~Shared

\* A plan is refused for a clash when and only when two items of one level name one
\* partition: neither a later level nor an item without a partition counts.
RefusalIsJust ==
  pc = "parse" =>
    LET items == Floored(answer.items)
    IN  Refuses(answer) <=>
          \/ answer.wrap = "prose" \/ items = <<>>
          \/ \E i, j \in DOMAIN items :
               /\ i < j /\ items[i].part = items[j].part /\ items[i].part # NoPart
               /\ items[i].level = items[j].level

\* An item of the plan is dispatched once at most, with all of its level and after
\* the levels before it; and a walk that ends has left none out but those of the
\* levels that an earlier start had recorded as accepted.
EveryItemOnce ==
  /\ \A i \in DOMAIN plan : Cardinality({k \in DOMAIN ran : i \in ran[k]}) <= 1
  /\ \A k, m \in DOMAIN ran : \A i \in ran[k], j \in ran[m] :
       plan[i].level < plan[j].level <=> k < m
  /\ pc = "done" /\ ~dry => UNION Range(ran) = {i \in DOMAIN plan : plan[i].level \notin done}

\* No level is run that the memory records as accepted, whichever start it was
\* accepted by and whatever the plan was then.
AcceptedIsNotRunAgain == \A i \in running : plan[i].level \notin accepted
=============================================================================
