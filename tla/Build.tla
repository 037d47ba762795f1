-------------------------------- MODULE Build --------------------------------
(***************************************************************************)
(* The build driver, bin/codemason-supervisor.rs: one process walks the    *)
(* plan's levels, and may be killed between any two of its steps and       *)
(* started again with --resume.  Two things outlive it: the memory file    *)
(* and the repository with its integration branch.                         *)
(*                                                                         *)
(* A step is one effect that a kill can separate from the next: an append  *)
(* to the memory, a git command, an acceptance command, a decision.        *)
(* Dispatching a level is one step here (DispatchGate.tla opens it up); a  *)
(* tree is the sequence of job branches merged on top of the base.  What   *)
(* jobs, merges and acceptance commands turn out to do is the environment. *)
(* An item is its position in the plan: nothing keeps a plan from giving   *)
(* two items one id.                                                       *)
(***************************************************************************)
EXTENDS IntegrationPolicy, FiniteSetsExt

CONSTANTS
  Plans,           \* plans the planner may return, or --plan may name
  Acceptances,     \* values --acceptance may have
  NoGate,          \* an item, or a command line, without one
  Exits,           \* exit codes of `codemason run`
  DispatchError,   \* an ExecError instead of an exit code
  Verdicts,        \* what one acceptance command may find
  BuildWide,       \* the item id of a fact that has none
  Planner,         \* the id the planner's brief is rendered for, "*"
  MaxStarts        \* bound: how often the build is started

ASSUME BuildAssumption ==
  /\ \A p \in Plans : p \in Seq(Range(p)) /\ \A i \in DOMAIN p : p[i].level \in Nat
  /\ Verdicts \subseteq Verifications
  /\ MaxStarts \in Nat

VARIABLES
  \* on disk
  memory,        \* facts, oldest first
  created,       \* whether the integration branch exists
  branch,        \* what the integration branch holds on top of the base
  tree,          \* "clean", or "merging" with a conflicted merge unaborted
  \* the process
  pc, plan, acceptance, done, left, executions, waiting, completed, escalate,
  integration, queue, gatesLeft, verification, report,
  \* history
  starts,        \* how often the build was started
  dispatches,    \* how often each run was dispatched
  passed,        \* gates passed on the tree as it is now
  acceptedTree,  \* the tree the last accepted level was accepted on
  brief          \* kinds of the facts the planner was last given

repoVars == <<created, branch, tree>>
disk == <<memory, repoVars>>
levelVars ==
  <<executions, waiting, completed, escalate, integration, queue, gatesLeft,
    verification>>
argVars == <<plan, acceptance, done>>
history == <<starts, dispatches, passed, acceptedTree, brief>>
vars == <<disk, pc, argVars, left, levelVars, report, history>>

-----------------------------------------------------------------------------
(* Facts and what is read back from them.                                  *)

LevelId(level) == <<"level", level>>
Attempt(id, cycle, exit, accepted) ==
  [kind |-> "attempt", id |-> id, cycle |-> cycle, exit |-> exit, accepted |-> accepted]
Errors(level, v) == [kind |-> "errors", id |-> LevelId(level), codes |-> v.codes]
Note(id) == [kind |-> "note", id |-> id]

Attempts(mem, id) == {i \in DOMAIN mem : mem[i].kind = "attempt" /\ mem[i].id = id}

PlanIds(p) == {p[i].id : i \in DOMAIN p}
Levels(p) == {p[i].level : i \in DOMAIN p}
AllLevels == UNION {Levels(p) : p \in Plans}
AllIds == UNION {PlanIds(p) : p \in Plans}
ItemsAt(p, level) == {i \in DOMAIN p : p[i].level = level}

\* A run of `codemason run` and the branch it leaves: the item it is for, and
\* the start of the build that dispatched it.
Positions == UNION {DOMAIN p : p \in Plans}
Work == [id : AllIds, item : Positions, start : 1..MaxStarts]

\* accepted_levels: the acceptance facts the loop itself writes.
AcceptedLevels(mem) ==
  {level \in AllLevels :
     \E i \in DOMAIN mem :
       mem[i].kind = "attempt" /\ mem[i].id = LevelId(level) /\ mem[i].accepted}

\* Fact::concerns: only the facts that name no item reach the planner's brief.
BriefFor(mem, id) == SelectSeq(mem, LAMBDA f : f.id \in {id, BuildWide})

Disposition(exit) ==
  CASE exit \in {0, 2, 3} -> "Verify"
    [] exit = 5 -> "RetryTransient"
    [] OTHER -> "Escalate"

\* --acceptance overrides; otherwise every distinct gate the level's items name.
Gates(p, level, global) ==
  IF global # NoGate THEN {global}
  ELSE {p[i].gate : i \in ItemsAt(p, level)} \ {NoGate}

-----------------------------------------------------------------------------
level == Min(left)
items == ItemsAt(plan, level)
Run(i) == [id |-> plan[i].id, item |-> i, start |-> starts]

NoReport == [levels_accepted |-> 0, merged |-> 0, outcome |-> "none"]
NoVerification == [passed |-> FALSE, count |-> 0, codes |-> {}]

Init ==
  /\ memory = <<>> /\ created = FALSE /\ branch = <<>> /\ tree = "clean"
  /\ pc = "idle"
  /\ plan = <<>> /\ acceptance = NoGate /\ done = {} /\ left = {}
  /\ executions = <<>> /\ waiting = {} /\ completed = <<>> /\ escalate = FALSE
  /\ integration = NewIntegration /\ queue = <<>> /\ gatesLeft = {}
  /\ verification = NoVerification
  /\ report = NoReport
  /\ starts = 0 /\ dispatches = [run \in Work |-> 0]
  /\ passed = {} /\ acceptedTree = <<>> /\ brief = {}

\* A process knows nothing of the levels of the process before it.
Forget ==
  /\ executions' = <<>> /\ waiting' = {} /\ completed' = <<>> /\ escalate' = FALSE
  /\ integration' = NewIntegration /\ queue' = <<>> /\ gatesLeft' = {}
  /\ verification' = NoVerification

Exit(outcome) ==
  /\ pc' = "exited"
  /\ report' = [report EXCEPT !.outcome = outcome]

-----------------------------------------------------------------------------
(* Starting, and starting again.                                           *)

\* The memory is opened and read, and a plan is loaded or made from it.
Start ==
  /\ pc \in {"idle", "exited", "killed"}
  /\ starts < MaxStarts
  /\ starts' = starts + 1
  /\ done' = AcceptedLevels(memory)
  /\ plan' \in Plans
  /\ acceptance' \in Acceptances
  /\ left' = Levels(plan')
  /\ brief' = {f.kind : f \in Range(BriefFor(memory, Planner))}
  /\ report' = NoReport
  /\ Forget
  /\ pc' = "prepare"
  /\ UNCHANGED <<disk, dispatches, passed, acceptedTree>>

PrepareAfresh ==
  /\ pc = "prepare"
  /\ created' = TRUE /\ branch' = <<>>
  /\ passed' = {}
  /\ pc' = "level"
  /\ UNCHANGED <<memory, tree, argVars, left, levelVars, report, starts, dispatches,
                 acceptedTree, brief>>

\* A resumed build goes on with the branch it has; a first start, or one after
\* a kill before there was a branch, creates it at the base.
Prepare ==
  /\ pc = "prepare"
  /\ tree = "clean"
  /\ created' = TRUE
  /\ branch' = IF created THEN branch ELSE <<>>
  /\ passed' = {}
  /\ pc' = "level"
  /\ UNCHANGED <<memory, tree, argVars, left, levelVars, report, starts, dispatches,
                 acceptedTree, brief>>

\* Checking out over an unfinished merge fails, and so may any checkout, a
\* merge that is no conflict, or an acceptance command that cannot be started:
\* main prints the error and exits, without a report.
Fail ==
  /\ pc \in {"prepare", "merge", "verify"}
  /\ Exit("failed")
  /\ UNCHANGED <<disk, argVars, left, levelVars, history>>

-----------------------------------------------------------------------------
(* One level: dispatch and collect.                                        *)

Skip ==
  /\ pc = "level" /\ left # {} /\ level \in done
  /\ left' = left \ {level}
  /\ report' = [report EXCEPT !.levels_accepted = @ + 1]
  /\ UNCHANGED <<disk, pc, argVars, levelVars, history>>

DispatchRegardless ==
  /\ pc = "level" /\ left # {}
  /\ executions' \in [items -> Exits \cup {DispatchError}]
  /\ dispatches' = [run \in Work |->
       dispatches[run] + (IF run \in {Run(i) : i \in items} THEN 1 ELSE 0)]
  /\ waiting' = items
  /\ completed' = <<>> /\ escalate' = FALSE
  /\ pc' = "collect"
  /\ UNCHANGED <<disk, argVars, left, integration, queue, gatesLeft, verification, report,
                 starts, passed, acceptedTree, brief>>

Dispatch ==
  /\ pc = "level" /\ left # {} /\ level \notin done
  /\ executions' \in [items -> Exits \cup {DispatchError}]
  /\ dispatches' = [run \in Work |->
       dispatches[run] + (IF run \in {Run(i) : i \in items} THEN 1 ELSE 0)]
  /\ waiting' = items
  /\ completed' = <<>> /\ escalate' = FALSE
  /\ pc' = "collect"
  /\ UNCHANGED <<disk, argVars, left, integration, queue, gatesLeft, verification, report,
                 starts, passed, acceptedTree, brief>>

CycleInThisProcess(id) == Cardinality(Attempts(memory, id)) + 2 - starts

Cycle(id) == Cardinality(Attempts(memory, id)) + 1

\* collect_level, one execution: record it, then look at its exit code.  The
\* driver never passes --dry-run, so a run that ends 0, 2 or 3 has its branch.
Collect ==
  /\ pc = "collect" /\ waiting # {}
  /\ LET item == Min(waiting)
         id == plan[item].id
         exit == executions[item]
     IN  /\ memory' = Append(memory, IF exit = DispatchError THEN Note(id)
                                     ELSE Attempt(id, Cycle(id), exit, FALSE))
         /\ escalate' = (escalate \/ exit = DispatchError \/ Disposition(exit) = "Escalate")
         /\ completed' = IF exit # DispatchError /\ Disposition(exit) = "Verify"
                         THEN Append(completed, Run(item)) ELSE completed
         /\ waiting' = waiting \ {item}
  /\ UNCHANGED <<repoVars, pc, argVars, left, executions, integration, queue, gatesLeft,
                 verification, report, history>>

CollectedCarryingOver ==
  /\ pc = "collect" /\ waiting = {} /\ ~escalate
  /\ integration' = Discarded(integration)
  /\ queue' = completed
  /\ pc' = "merge"
  /\ UNCHANGED <<disk, argVars, left, executions, waiting, completed, escalate, gatesLeft,
                 verification, report, history>>

CollectedAnyway ==
  /\ pc = "collect" /\ waiting = {}
  /\ integration' = NewIntegration
  /\ queue' = completed
  /\ pc' = "merge"
  /\ UNCHANGED <<disk, argVars, left, executions, waiting, completed, escalate, gatesLeft,
                 verification, report, history>>

CollectedIfAny ==
  /\ pc = "collect" /\ waiting = {} /\ ~escalate
  /\ completed # <<>>
  /\ integration' = NewIntegration
  /\ queue' = completed
  /\ pc' = "merge"
  /\ UNCHANGED <<disk, argVars, left, executions, waiting, completed, escalate, gatesLeft,
                 verification, report, history>>

Collected ==
  /\ pc = "collect" /\ waiting = {} /\ ~escalate
  /\ integration' = NewIntegration
  /\ queue' = completed
  /\ pc' = "merge"
  /\ UNCHANGED <<disk, argVars, left, executions, waiting, completed, escalate, gatesLeft,
                 verification, report, history>>

CollectedEscalates ==
  /\ pc = "collect" /\ waiting = {} /\ escalate
  /\ Exit("escalated")
  /\ UNCHANGED <<disk, argVars, left, levelVars, history>>

-----------------------------------------------------------------------------
(* One level: merge.                                                       *)

MergeBranch ==
  /\ pc = "merge" /\ queue # <<>>
  /\ branch' = Append(branch, Head(queue))
  /\ integration' = Merged(integration, Head(queue))
  /\ queue' = Tail(queue)
  /\ passed' = {}
  /\ UNCHANGED <<memory, created, tree, pc, argVars, left, executions, waiting, completed, escalate,
                 gatesLeft, verification, report, starts, dispatches, acceptedTree, brief>>

HitConflict ==
  /\ pc = "merge" /\ queue # <<>>
  /\ tree' = "merging"
  /\ pc' = "abort"
  /\ UNCHANGED <<memory, created, branch, argVars, left, levelVars, report, history>>

AbortForgetsTree ==
  /\ pc = "abort"
  /\ integration' = Conflicted(integration, Head(queue))
  /\ queue' = Tail(queue)
  /\ pc' = "merge"
  /\ UNCHANGED <<disk, argVars, left, executions, waiting, completed, escalate,
                 gatesLeft, verification, report, history>>

AbortMerge ==
  /\ pc = "abort"
  /\ tree' = "clean"
  /\ integration' = Conflicted(integration, Head(queue))
  /\ queue' = Tail(queue)
  /\ pc' = "merge"
  /\ UNCHANGED <<memory, created, branch, argVars, left, executions, waiting, completed, escalate,
                 gatesLeft, verification, report, history>>

EndMergeFirstGate ==
  /\ pc = "merge" /\ queue = <<>>
  /\ report' = [report EXCEPT !.merged =
                  @ + Len(completed) - Len(integration.conflicts)]
  /\ LET gates == Gates(plan, level, acceptance)
     IN  gatesLeft' = IF gates = {} THEN {} ELSE {Min(gates)}
  /\ pc' = IF gatesLeft' = {} THEN "ungated" ELSE "verify"
  /\ UNCHANGED <<disk, argVars, left, executions, waiting, completed, escalate, integration,
                 queue, verification, history>>

EndMerge ==
  /\ pc = "merge" /\ queue = <<>>
  /\ report' = [report EXCEPT !.merged =
                  @ + Len(completed) - Len(integration.conflicts)]
  /\ gatesLeft' = Gates(plan, level, acceptance)
  /\ pc' = IF gatesLeft' = {} THEN "ungated" ELSE "verify"
  /\ UNCHANGED <<disk, argVars, left, executions, waiting, completed, escalate, integration,
                 queue, verification, history>>

\* Nothing to verify with: noted, and on to the next level.
LeaveUngated ==
  /\ pc = "ungated"
  /\ memory' = Append(memory, Note(BuildWide))
  /\ left' = left \ {level}
  /\ pc' = "level"
  /\ UNCHANGED <<repoVars, argVars, levelVars, report, history>>

-----------------------------------------------------------------------------
(* One level: verify and decide.                                           *)

\* The gates in order, up to the first that does not pass.
RunGate(v) ==
  /\ pc = "verify"
  /\ LET gate == Min(gatesLeft)
     IN  /\ gatesLeft' = gatesLeft \ {gate}
         /\ passed' = IF v.passed THEN passed \cup {gate} ELSE passed
         /\ pc' = IF v.passed /\ gatesLeft' # {} THEN "verify" ELSE "record"
  /\ verification' = v
  /\ UNCHANGED <<disk, argVars, left, executions, waiting, completed, escalate, integration,
                 queue, report, starts, dispatches, acceptedTree, brief>>

RecordErrors ==
  /\ pc = "record"
  /\ memory' = Append(memory, Errors(level, verification))
  /\ pc' = "decide"
  /\ UNCHANGED <<repoVars, argVars, left, levelVars, report, history>>

CarryOn ==
  /\ pc = "decide"
  /\ integration' = Recorded(integration, verification)
  /\ CASE Decide(integration, verification) = "Accept" -> pc' = "accept" /\ UNCHANGED <<report, left>>
       [] Decide(integration, verification) = "Escalate" -> Exit("escalated") /\ UNCHANGED left
       [] OTHER -> pc' = "level" /\ left' = left \ {level} /\ UNCHANGED report
  /\ UNCHANGED <<disk, argVars, executions, waiting, completed, escalate, queue, gatesLeft,
                 verification, history>>

DispatchAgain ==
  /\ pc = "decide"
  /\ integration' = Recorded(integration, verification)
  /\ CASE Decide(integration, verification) = "Accept" -> pc' = "accept" /\ UNCHANGED report
       [] Decide(integration, verification) = "Escalate" -> Exit("escalated")
       [] OTHER -> pc' = "level" /\ UNCHANGED report
  /\ UNCHANGED <<disk, argVars, left, executions, waiting, completed, escalate, queue, gatesLeft,
                 verification, history>>

\* A fix is not authored by machine, so Redispatch ends the build as Escalate
\* does.  Integration is new in every process and a level is verified once in
\* it, so Decide never has a previous verification and never says Rewrite.
DecideLevel ==
  /\ pc = "decide"
  /\ integration' = Recorded(integration, verification)
  /\ IF Decide(integration, verification) = "Accept"
     THEN pc' = "accept" /\ UNCHANGED report
     ELSE Exit("escalated")
  /\ UNCHANGED <<disk, argVars, left, executions, waiting, completed, escalate, queue, gatesLeft,
                 verification, history>>

AcceptUncounted ==
  /\ pc = "accept"
  /\ memory' = Append(memory, Attempt(LevelId(level), 0, 0, TRUE))
  /\ acceptedTree' = branch
  /\ left' = left \ {level}
  /\ pc' = "level"
  /\ UNCHANGED <<repoVars, argVars, levelVars, report, starts, dispatches, passed, brief>>

Accept ==
  /\ pc = "accept"
  /\ memory' = Append(memory, Attempt(LevelId(level), 0, 0, TRUE))
  /\ acceptedTree' = branch
  /\ report' = [report EXCEPT !.levels_accepted = @ + 1]
  /\ left' = left \ {level}
  /\ pc' = "level"
  /\ UNCHANGED <<repoVars, argVars, levelVars, starts, dispatches, passed, brief>>

Finish ==
  /\ pc = "level" /\ left = {}
  /\ Exit("accepted")
  /\ UNCHANGED <<disk, argVars, left, levelVars, history>>

-----------------------------------------------------------------------------
\* The process is killed: what it held is gone, what is on disk stays.
Kill ==
  /\ pc \notin {"idle", "exited", "killed"}
  /\ pc' = "killed"
  /\ plan' = <<>> /\ acceptance' = NoGate /\ done' = {} /\ left' = {}
  /\ Forget
  /\ report' = NoReport
  /\ UNCHANGED <<disk, history>>

\* Someone aborts the merge a killed process left behind.
Repair ==
  /\ pc \in {"exited", "killed"} /\ tree = "merging"
  /\ tree' = "clean"
  /\ UNCHANGED <<memory, created, branch, pc, argVars, left, levelVars, report, history>>

Proceed ==
  \/ Prepare \/ Fail \/ Skip \/ Dispatch \/ Collect \/ Collected \/ CollectedEscalates
  \/ MergeBranch \/ HitConflict \/ AbortMerge \/ EndMerge \/ LeaveUngated
  \/ \E v \in Verdicts : RunGate(v)
  \/ RecordErrors \/ DecideLevel \/ Accept \/ Finish

Next == Start \/ Proceed \/ Kill \/ Repair

\* A started process keeps going until it exits or is killed: dispatches and
\* acceptance commands end.  Nobody has to start, kill or repair anything.
Spec == Init /\ [][Next]_vars /\ WF_vars(Proceed)

-----------------------------------------------------------------------------
(* Properties.                                                             *)

Outcomes == {"none", "accepted", "escalated", "failed"}

TypeOK ==
  /\ \A i \in DOMAIN memory : memory[i].kind \in {"attempt", "errors", "note"}
  /\ created \in BOOLEAN /\ branch \in Seq(Work)
  /\ tree \in {"clean", "merging"}
  /\ pc \in {"idle", "prepare", "level", "collect", "merge", "abort", "ungated",
             "verify", "record", "decide", "accept", "exited", "killed"}
  /\ plan \in Plans \cup {<<>>}
  /\ done \subseteq AllLevels /\ left \subseteq AllLevels
  /\ escalate \in BOOLEAN
  /\ report \in [levels_accepted : Nat, merged : Nat, outcome : Outcomes]
  /\ starts \in 0..MaxStarts

Running == pc \notin {"idle", "prepare", "exited", "killed"}
OnLevel == Running /\ pc # "level"
AcceptedNow == AcceptedLevels(memory)

\* A level enters the memory as accepted only when it earned it in this very
\* process: every gate it has passed on the tree as it stands, no gate before
\* the last merge counting; nothing conflicted; and every branch a job left
\* for merging is on that tree (the comment above the acceptance fact: "the
\* only thing entitled to say a level is done").
AcceptanceIsEarned ==
  [][AcceptedLevels(memory') # AcceptedNow =>
       /\ Gates(plan, level, acceptance) # {}
       /\ Gates(plan, level, acceptance) \subseteq passed
       /\ integration.conflicts = <<>> /\ tree = "clean"
       /\ \A i \in DOMAIN executions :
            (executions[i] # DispatchError /\ Disposition(executions[i]) = "Verify")
              => Contains(branch, Run(i))]_vars

\* No kill and no resume loses accepted work: the branch always begins with
\* the tree of the last accepted level (why resume checks the branch out
\* instead of recreating it).
AcceptedWorkStays ==
  acceptedTree # <<>> => created /\ IsPrefix(acceptedTree, branch)

\* A level on record as accepted is never paid for again, in this process or
\* in any that resumes it.
AcceptedNeverRedone ==
  [][dispatches' # dispatches => level \notin AcceptedNow]_vars

\* One process dispatches an item at most once: no path of the driver spends
\* twice on the same task (a fix is not authored, a retry is a human's).
OneDispatchPerStart == \A run \in Work : dispatches[run] <= 1

\* The hard gate between levels: whatever runs at a level, each earlier level
\* of the plan is on record as accepted, or had no gate to be accepted by.
LevelsInOrder ==
  OnLevel =>
    \A earlier \in Levels(plan) \ left :
      earlier \in AcceptedNow \/ Gates(plan, earlier, acceptance) = {}

\* A level with a job that has to be escalated merges nothing at all, however
\* its other jobs ended: the tree is left as the last level left it.
EscalationMergesNothing ==
  (\E i \in DOMAIN executions :
     executions[i] = DispatchError \/ Disposition(executions[i]) = "Escalate") =>
    \A i \in items : ~Contains(branch, Run(i))

\* What the report will say agrees with what is on disk: the levels counted
\* are those the memory holds as accepted, skipped ones included and ungated
\* ones not, and the merges counted are this process's merges on the branch.
ReportAgrees ==
  /\ Running => report.levels_accepted = Cardinality((Levels(plan) \ left) \cap AcceptedNow)
  /\ pc \in {"level", "ungated", "verify", "record", "decide", "accept"} =>
       report.merged = Cardinality({k \in DOMAIN branch : branch[k].start = starts})

\* Fix cycles are counted from the memory and not in the process, so over any
\* kills and resumes an item's attempts are numbered one by one.  (An item that
\* had the id level facts are filed under would share its numbers with them.)
AttemptsNumbered ==
  \A id \in AllIds \ {LevelId(lvl) : lvl \in AllLevels} : \A k \in Attempts(memory, id) :
    memory[k].cycle = Cardinality({j \in Attempts(memory, id) : j <= k})

\* Nothing is verified, decided or accepted on a half-merged tree.
NoVerdictWhileMerging == pc \in {"level", "collect", "merge", "verify", "accept"} => tree = "clean"

\* A level is verified at most once in a process, against an Integration that
\* knows of no other level: the Rewrite arm of the driver is never taken.
RewriteNotTaken == pc = "decide" => Decide(integration, verification) # "Rewrite"

\* The branch, the memory, the counters of the process and its report tell one
\* history of the build: the facts above at once.
HistoryAgrees ==
  /\ TypeOK /\ OneDispatchPerStart /\ LevelsInOrder /\ EscalationMergesNothing
  /\ ReportAgrees /\ AttemptsNumbered /\ NoVerdictWhileMerging

\* A level is accepted on its gates and its branches, and for good: both of
\* the action properties above.
AcceptedOnce == AcceptanceIsEarned /\ AcceptedNeverRedone

\* Every started process comes to an end.
ProcessEnds == []<>(pc \in {"idle", "exited", "killed"})

-----------------------------------------------------------------------------
(* What documents and comments say, and the driver does not do.            *)

\* supervisor/mod.rs, RetryTransient: "Retry the same dispatch after a
\* backoff, then escalate."  So no build is accepted while the last thing
\* known of one of its items is a provider error.
LastExit(id) == memory[Max(Attempts(memory, id))].exit
TransientIsNotDropped ==
  report.outcome = "accepted" =>
    \A id \in PlanIds(plan) :
      Attempts(memory, id) # {} => Disposition(LastExit(id)) # "RetryTransient"

\* "Levels an earlier attempt already got past" are skipped: so each item of
\* an accepted plan was dispatched at some time.
AcceptedMeansAllDispatched ==
  report.outcome = "accepted" => \A id \in PlanIds(plan) :
    \E run \in Work : run.id = id /\ dispatches[run] > 0
=============================================================================
