----------------------------- MODULE BuildProofs -----------------------------
(***************************************************************************)
(* Theorems about the build driver, Build.tla, for any plans, exit codes,  *)
(* verdicts, kills and number of starts: accepted work is kept and never   *)
(* redone, and the history of the build is one, whatever is killed when.   *)
(***************************************************************************)
EXTENDS Build, Recursion, FiniteSetTheorems, TLAPS

\* Where a process is that has its integration branch checked out.
OnBranch == {"level", "collect", "merge", "abort", "ungated", "verify", "record",
             "decide", "accept"}
WithLevel == {"merge", "abort", "ungated", "verify", "record", "decide"}

Sequences_ == \E S : branch \in Seq(S) /\ acceptedTree \in Seq(S)
PrefixKept == acceptedTree # <<>> => created /\ IsPrefix(acceptedTree, branch)
BranchThere == pc \in OnBranch => created
TreeClean == pc \in OnBranch \ {"abort"} => tree = "clean"
Unverified ==
  pc \in WithLevel =>
    \E merged, conflicts, fixes, rewrites, escalation :
      integration = Integration(merged, conflicts, <<>>, fixes, rewrites, escalation)

BuildInv == Sequences_ /\ PrefixKept /\ BranchThere /\ TreeClean /\ Unverified

-----------------------------------------------------------------------------
\* A sequence begins with what its prefix began with.
LEMMA AppendKeepsPrefix ==
  ASSUME NEW S, NEW s \in Seq(S), NEW t \in Seq(S), NEW e, IsPrefix(s, t)
  PROVE  IsPrefix(s, Append(t, e))
<1>1. Len(s) <= Len(t) /\ SubSeq(s, 1, Len(s)) = SubSeq(t, 1, Len(s))
  BY DEF IsPrefix
<1>2. t \in Seq(S \cup {e}) /\ e \in S \cup {e} /\ Append(t, e) \in Seq(S \cup {e})
  OBVIOUS
<1>3. Len(Append(t, e)) = Len(t) + 1 /\ Len(t) \in Nat /\ Len(s) \in Nat
  BY <1>2
<1>4. \A i \in 1..Len(t) : Append(t, e)[i] = t[i]
  BY <1>2
<1>5. SubSeq(Append(t, e), 1, Len(s)) = SubSeq(t, 1, Len(s))
  BY <1>1, <1>2, <1>3, <1>4
<1> QED BY <1>1, <1>3, <1>5 DEF IsPrefix

\* Every sequence is a prefix of itself.
LEMMA PrefixOfItself ==
  ASSUME NEW S, NEW s \in Seq(S)
  PROVE  IsPrefix(s, s)
BY DEF IsPrefix

LEMMA InitBuild == Init => BuildInv
<1> SUFFICES ASSUME Init PROVE BuildInv
  OBVIOUS
<1>1. Sequences_
  <2>1. branch \in Seq({}) /\ acceptedTree \in Seq({})
    BY DEF Init
  <2> QED BY <2>1 DEF Sequences_
<1>2. PrefixKept
  BY DEF Init, PrefixKept
<1>3. BranchThere /\ TreeClean /\ Unverified
  BY DEF Init, BranchThere, TreeClean, Unverified, OnBranch, WithLevel
<1> QED BY <1>1, <1>2, <1>3 DEF BuildInv

-----------------------------------------------------------------------------
(* The steps that leave the branch and the accepted tree alone, then the    *)
(* three that do not.                                                       *)

\* What a step has to do with the branch, if it touches neither it nor the
\* accepted tree.
LEMMA BranchUntouched ==
  ASSUME Sequences_, PrefixKept, UNCHANGED <<created, branch, acceptedTree>>
  PROVE  Sequences_' /\ PrefixKept'
BY DEF Sequences_, PrefixKept

LEMMA PrepareStep == ASSUME BuildInv, Prepare PROVE BuildInv'
<1>1. /\ created' = TRUE /\ branch' = (IF created THEN branch ELSE <<>>)
      /\ acceptedTree' = acceptedTree /\ pc' = "level" /\ tree' = tree /\ tree = "clean"
  BY DEF Prepare
<1>2. PICK S : branch \in Seq(S) /\ acceptedTree \in Seq(S)
  BY DEF BuildInv, Sequences_
<1>3. branch' \in Seq(S) /\ acceptedTree' \in Seq(S)
  BY <1>1, <1>2
<1>4. Sequences_'
  BY <1>3 DEF Sequences_
<1>5. PrefixKept'
  BY <1>1 DEF BuildInv, PrefixKept
<1>6. BranchThere' /\ TreeClean' /\ Unverified'
  BY <1>1 DEF BranchThere, TreeClean, Unverified, OnBranch, WithLevel
<1> QED BY <1>4, <1>5, <1>6 DEF BuildInv

LEMMA MergeStep == ASSUME BuildInv, MergeBranch PROVE BuildInv'
<1>1. /\ pc = "merge" /\ pc' = pc /\ created' = created /\ tree' = tree
      /\ branch' = Append(branch, Head(queue)) /\ acceptedTree' = acceptedTree
      /\ integration' = Merged(integration, Head(queue))
  BY DEF MergeBranch
<1>2. PICK S : branch \in Seq(S) /\ acceptedTree \in Seq(S)
  BY DEF BuildInv, Sequences_
<1>3. Sequences_'
  <2>1. branch' \in Seq(S \cup {Head(queue)}) /\ acceptedTree' \in Seq(S \cup {Head(queue)})
    BY <1>1, <1>2
  <2> QED BY <2>1 DEF Sequences_
<1>4. PrefixKept'
  <2> SUFFICES ASSUME acceptedTree' # <<>>
               PROVE  created' /\ IsPrefix(acceptedTree', branch')
    BY DEF PrefixKept
  <2>1. created /\ IsPrefix(acceptedTree, branch)
    BY <1>1 DEF BuildInv, PrefixKept
  <2> QED BY <1>1, <1>2, <2>1, AppendKeepsPrefix
<1>5. Unverified'
  <2>1. PICK merged, conflicts, fixes, rewrites, escalation :
          integration = Integration(merged, conflicts, <<>>, fixes, rewrites, escalation)
    BY <1>1 DEF BuildInv, Unverified, WithLevel
  <2>2. integration' =
          Integration(Append(merged, Head(queue)), conflicts,
                      <<>>, fixes, rewrites, escalation)
    BY <1>1, <2>1 DEF Merged, Integration
  <2> QED BY <2>2 DEF Unverified
<1>6. BranchThere' /\ TreeClean'
  BY <1>1 DEF BuildInv, BranchThere, TreeClean, OnBranch
<1> QED BY <1>3, <1>4, <1>5, <1>6 DEF BuildInv

LEMMA AcceptStep == ASSUME BuildInv, Accept PROVE BuildInv'
<1>1. /\ pc = "accept" /\ pc' = "level" /\ created' = created /\ tree' = tree
      /\ branch' = branch /\ acceptedTree' = branch
  BY DEF Accept, repoVars
<1>2. PICK S : branch \in Seq(S) /\ acceptedTree \in Seq(S)
  BY DEF BuildInv, Sequences_
<1>3. Sequences_'
  BY <1>1, <1>2 DEF Sequences_
<1>4. PrefixKept'
  BY <1>1, <1>2, PrefixOfItself DEF BuildInv, PrefixKept, BranchThere, OnBranch
<1>5. BranchThere' /\ TreeClean' /\ Unverified'
  BY <1>1 DEF BuildInv, BranchThere, TreeClean, Unverified, OnBranch, WithLevel
<1> QED BY <1>3, <1>4, <1>5 DEF BuildInv

LEMMA AbortStep == ASSUME BuildInv, AbortMerge PROVE BuildInv'
<1>1. /\ pc = "abort" /\ pc' = "merge" /\ tree' = "clean"
      /\ UNCHANGED <<created, branch, acceptedTree>>
      /\ integration' = Conflicted(integration, Head(queue))
  BY DEF AbortMerge, history
<1>2. Sequences_' /\ PrefixKept'
  BY <1>1, BranchUntouched DEF BuildInv
<1>3. Unverified'
  <2>1. PICK merged, conflicts, fixes, rewrites, escalation :
          integration = Integration(merged, conflicts, <<>>, fixes, rewrites, escalation)
    BY <1>1 DEF BuildInv, Unverified, WithLevel
  <2>2. integration' =
          Integration(merged, Append(conflicts, Head(queue)),
                      <<>>, fixes, rewrites, escalation)
    BY <1>1, <2>1 DEF Conflicted, Integration
  <2> QED BY <2>2 DEF Unverified
<1>4. BranchThere' /\ TreeClean'
  BY <1>1 DEF BuildInv, BranchThere, TreeClean, OnBranch
<1> QED BY <1>2, <1>3, <1>4 DEF BuildInv

LEMMA CollectedStep == ASSUME BuildInv, Collected PROVE BuildInv'
<1>1. /\ pc = "collect" /\ pc' = "merge" /\ integration' = NewIntegration
      /\ UNCHANGED <<created, branch, acceptedTree, tree>>
  BY DEF Collected, disk, repoVars, history
<1>2. Sequences_' /\ PrefixKept'
  BY <1>1, BranchUntouched DEF BuildInv
<1>3. BranchThere' /\ TreeClean' /\ Unverified'
  BY <1>1 DEF BuildInv, BranchThere, TreeClean, Unverified, OnBranch, WithLevel,
              NewIntegration, Integration
<1> QED BY <1>2, <1>3 DEF BuildInv

\* Every other step keeps the branch, the accepted tree and, unless the level
\* is left or begun anew, the Integration.
LEMMA OtherStep ==
  ASSUME BuildInv, UNCHANGED <<created, branch, acceptedTree>>,
         pc' \in OnBranch => pc \in OnBranch,
         pc' \in OnBranch \ {"abort"} => pc \in OnBranch \ {"abort"} /\ tree' = tree,
         pc' \in WithLevel => pc \in WithLevel /\ integration' = integration
  PROVE  BuildInv'
<1>1. Sequences_' /\ PrefixKept'
  BY BranchUntouched DEF BuildInv
<1>2. BranchThere' /\ TreeClean' /\ Unverified'
  BY DEF BuildInv, BranchThere, TreeClean, Unverified
<1> QED BY <1>1, <1>2 DEF BuildInv

LEMMA NextBuild == ASSUME BuildInv, [Next]_vars PROVE BuildInv'
<1> USE DEF disk, repoVars, levelVars, history, OnBranch, WithLevel, Exit
<1>1. CASE Start
  BY <1>1, OtherStep DEF Start
<1>2. CASE Prepare
  BY <1>2, PrepareStep
<1>3. CASE Fail
  BY <1>3, OtherStep DEF Fail
<1>4. CASE Skip
  BY <1>4, OtherStep DEF Skip
<1>5. CASE Dispatch
  BY <1>5, OtherStep DEF Dispatch
<1>6. CASE Collect
  BY <1>6, OtherStep DEF Collect
<1>7. CASE Collected
  BY <1>7, CollectedStep
<1>8. CASE CollectedEscalates
  BY <1>8, OtherStep DEF CollectedEscalates
<1>9. CASE MergeBranch
  BY <1>9, MergeStep
<1>10. CASE HitConflict
  BY <1>10, OtherStep DEF HitConflict
<1>11. CASE AbortMerge
  BY <1>11, AbortStep
<1>12. CASE EndMerge
  BY <1>12, OtherStep DEF EndMerge
<1>13. CASE LeaveUngated
  BY <1>13, OtherStep DEF LeaveUngated
<1>14. ASSUME NEW v \in Verdicts, RunGate(v) PROVE BuildInv'
  BY <1>14, OtherStep DEF RunGate
<1>15. CASE RecordErrors
  BY <1>15, OtherStep DEF RecordErrors
<1>16. CASE DecideLevel
  BY <1>16, OtherStep DEF DecideLevel
<1>17. CASE Accept
  BY <1>17, AcceptStep
<1>18. CASE Finish
  BY <1>18, OtherStep DEF Finish
<1>19. CASE Kill
  BY <1>19, OtherStep DEF Kill
<1>20. CASE Repair
  BY <1>20, OtherStep DEF Repair
<1>21. CASE UNCHANGED vars
  BY <1>21, OtherStep DEF vars
<1> QED
  BY <1>1, <1>2, <1>3, <1>4, <1>5, <1>6, <1>7, <1>8, <1>9, <1>10, <1>11, <1>12, <1>13,
     <1>14, <1>15, <1>16, <1>17, <1>18, <1>19, <1>20, <1>21 DEF Next, Proceed

THEOREM BuildInvariant == Spec => []BuildInv
<1>1. BuildInv /\ [Next]_vars => BuildInv'
  BY NextBuild
<1> QED BY InitBuild, <1>1, PTL DEF Spec

-----------------------------------------------------------------------------
\* No kill and no resume loses accepted work: whatever is killed when, the
\* integration branch begins with the tree of the last accepted level.
THEOREM AcceptedWorkIsKept == Spec => []AcceptedWorkStays
<1>1. BuildInv => AcceptedWorkStays
  BY DEF BuildInv, PrefixKept, AcceptedWorkStays
<1> QED BY BuildInvariant, <1>1, PTL

\* No level is dispatched, merged, verified or accepted on the half-merged
\* tree that a process killed inside a conflict leaves behind.
THEOREM MergesAreFinished == Spec => []NoVerdictWhileMerging
<1>1. BuildInv => NoVerdictWhileMerging
  BY DEF BuildInv, TreeClean, NoVerdictWhileMerging, OnBranch
<1> QED BY BuildInvariant, <1>1, PTL

\* The Rewrite arm of the driver is never taken: when a level is decided, its
\* Integration has no verification for the new one to differ from.
THEOREM RewriteIsNotTaken == Spec => []RewriteNotTaken
<1>1. BuildInv => RewriteNotTaken
  <2> SUFFICES ASSUME BuildInv, pc = "decide"
               PROVE  Decide(integration, verification) # "Rewrite"
    BY DEF RewriteNotTaken
  <2>1. integration.verifications = <<>>
    BY DEF BuildInv, Unverified, WithLevel, Integration
  <2> QED BY <2>1 DEF Decide, Shifted, Stalled
<1> QED BY BuildInvariant, <1>1, PTL

-----------------------------------------------------------------------------
(* What the memory holds of levels, and the shape of the state.             *)

USE BuildAssumption

MemoryIsLog == \E S : memory \in Seq(S)
Started == Running \/ pc = "prepare"

IntegrationInv ==
  \E merged, conflicts \in Seq(Work) :
    \E verifications, fixes, rewrites, escalation :
      integration =
        Integration(merged, conflicts, verifications, fixes, rewrites, escalation)

\* The branches a level brought are merged, in conflict or still to be merged.
Balance ==
  pc \in {"merge", "abort"} =>
    Len(completed) =
      Len(integration.merged) + Len(integration.conflicts) + Len(queue)

StateInv ==
  /\ TypeOK
  /\ MemoryIsLog
  /\ Started => plan \in Plans /\ starts \in 1..MaxStarts
  /\ left \subseteq Levels(plan)
  /\ OnLevel => left # {}
  /\ DOMAIN executions \subseteq DOMAIN plan /\ waiting \subseteq DOMAIN executions
  /\ completed \in Seq(Work) /\ queue \in Seq(Work)
  /\ pc = "abort" => queue # <<>>
  /\ IntegrationInv /\ Balance
  /\ dispatches \in [Work -> Nat]
  /\ verification.passed \in BOOLEAN

\* What adding a fact to a log does to it.
LEMMA Appended ==
  ASSUME NEW S, NEW log \in Seq(S), NEW f
  PROVE  /\ Append(log, f) \in Seq(S \cup {f})
         /\ Len(log) \in Nat /\ Len(Append(log, f)) = Len(log) + 1
         /\ DOMAIN log = 1..Len(log) /\ DOMAIN Append(log, f) = 1..(Len(log) + 1)
         /\ \A i \in 1..Len(log) : Append(log, f)[i] = log[i]
         /\ Append(log, f)[Len(log) + 1] = f
<1>1. log \in Seq(S \cup {f}) /\ f \in S \cup {f}
  OBVIOUS
<1> QED
  BY <1>1

\* The levels a fact accepts.
LevelsOf(f) ==
  {lvl \in AllLevels : f.kind = "attempt" /\ f.id = LevelId(lvl) /\ f.accepted}

LEMMA RecordGrows ==
  ASSUME NEW S, NEW log \in Seq(S), NEW f
  PROVE  AcceptedLevels(Append(log, f)) = AcceptedLevels(log) \cup LevelsOf(f)
<1> DEFINE longer == Append(log, f)
           Says(m, i, lvl) == m[i].kind = "attempt" /\ m[i].id = LevelId(lvl) /\ m[i].accepted
<1>1. /\ Len(log) \in Nat /\ DOMAIN log = 1..Len(log) /\ DOMAIN longer = 1..(Len(log) + 1)
      /\ \A i \in 1..Len(log) : longer[i] = log[i]
      /\ longer[Len(log) + 1] = f
  BY Appended
<1> HIDE DEF longer
<1>2. ASSUME NEW lvl PROVE (\E i \in DOMAIN longer : Says(longer, i, lvl))
                            <=> (\E i \in DOMAIN log : Says(log, i, lvl))
                                \/ (f.kind = "attempt" /\ f.id = LevelId(lvl) /\ f.accepted)
  BY <1>1
<1>3. AcceptedLevels(longer) = AcceptedLevels(log) \cup LevelsOf(f)
  BY <1>2, Zenon DEF AcceptedLevels, LevelsOf
<1> QED
  BY <1>3 DEF longer

LEMMA OnlyAcceptancesCount ==
  /\ \A id : LevelsOf(Note(id)) = {}
  /\ \A lvl, v : LevelsOf(Errors(lvl, v)) = {}
  /\ \A id, cycle, exit : LevelsOf(Attempt(id, cycle, exit, FALSE)) = {}
  /\ \A lvl \in AllLevels : LevelsOf(Attempt(LevelId(lvl), 0, 0, TRUE)) = {lvl}
<1>1. \A id : LevelsOf(Note(id)) = {}
  BY DEF LevelsOf, Note
<1>2. \A lvl, v : LevelsOf(Errors(lvl, v)) = {}
  BY DEF LevelsOf, Errors
<1>3. \A id, cycle, exit : LevelsOf(Attempt(id, cycle, exit, FALSE)) = {}
  BY DEF LevelsOf, Attempt
<1>4. \A lvl \in AllLevels : LevelsOf(Attempt(LevelId(lvl), 0, 0, TRUE)) = {lvl}
  BY DEF LevelsOf, Attempt, LevelId
<1> QED
  BY <1>1, <1>2, <1>3, <1>4

\* The level a process is at is one of those it has left.
LEMMA LevelIsLeast ==
  ASSUME StateInv, Started, left # {}
  PROVE  level \in left /\ level \in Levels(plan) /\ level \in AllLevels
<1>1. plan \in Plans /\ left \subseteq Levels(plan)
  BY DEF StateInv
<1>2. Levels(plan) \subseteq Nat /\ Levels(plan) \subseteq AllLevels
  BY <1>1 DEF Levels, AllLevels
<1>3. left \in SUBSET Nat
  BY <1>1, <1>2
<1>4. \E n \in left : \A m \in left : n <= m
  BY <1>3, LeastNumber
<1>5. level \in left
  BY <1>4 DEF level, Min
<1> QED
  BY <1>1, <1>2, <1>5

\* A run of an item of the plan is one the model counts.
LEMMA RunIsWork ==
  ASSUME StateInv, Started, NEW i \in DOMAIN plan
  PROVE  Run(i) \in Work /\ plan[i].level \in Levels(plan)
<1>1. plan \in Plans /\ starts \in 1..MaxStarts
  BY DEF StateInv
<1>2. i \in Positions /\ plan[i].id \in AllIds /\ plan[i].level \in Levels(plan)
  BY <1>1 DEF Positions, AllIds, PlanIds, Levels
<1> QED
  BY <1>1, <1>2 DEF Run, Work

LEMMA StateInit == Init => StateInv
<1> SUFFICES ASSUME Init PROVE StateInv
  OBVIOUS
<1>1. TypeOK
  <2>1. memory = <<>> /\ branch = <<>> /\ plan = <<>> /\ starts \in 0..MaxStarts
    BY DEF Init
  <2>2. report \in [levels_accepted : Nat, merged : Nat, outcome : Outcomes]
    BY DEF Init, NoReport, Outcomes
  <2>3. \A i \in DOMAIN memory : memory[i].kind \in {"attempt", "errors", "note"}
    BY <2>1
  <2>4. branch \in Seq(Work)
    BY <2>1
  <2>5. created \in BOOLEAN /\ tree \in {"clean", "merging"} /\ escalate \in BOOLEAN
        /\ pc = "idle" /\ done = {} /\ left = {}
    BY DEF Init
  <2> QED
    BY <2>1, <2>2, <2>3, <2>4, <2>5 DEF TypeOK
<1>2. MemoryIsLog
  <2>1. memory \in Seq({})
    BY DEF Init
  <2> QED
    BY <2>1 DEF MemoryIsLog
<1>3. IntegrationInv
  <2>1. integration = Integration(<<>>, <<>>, <<>>, 0, 0, FALSE) /\ <<>> \in Seq(Work)
    BY DEF Init, NewIntegration
  <2> QED
    BY <2>1 DEF IntegrationInv
<1>4. dispatches \in [Work -> Nat]
  BY DEF Init
<1>5. DOMAIN executions \subseteq DOMAIN plan /\ waiting \subseteq DOMAIN executions
  BY DEF Init
<1>6. completed \in Seq(Work) /\ queue \in Seq(Work)
  BY DEF Init
<1> QED
  BY <1>1, <1>2, <1>3, <1>4, <1>5, <1>6
     DEF StateInv, Started, Running, OnLevel, Init, NoVerification, Balance

\* What a step writes to the memory: a fact, or nothing, and the acceptance of
\* the level it is at, or of none.
Writes(f) == memory' = Append(memory, f)
Kinds == {"attempt", "errors", "note"}

LEMMA WriteStep ==
  ASSUME StateInv, NEW f, f.kind \in Kinds, Writes(f)
  PROVE  /\ MemoryIsLog' /\ (\A i \in DOMAIN memory' : memory'[i].kind \in Kinds)
         /\ AcceptedLevels(memory') = AcceptedLevels(memory) \cup LevelsOf(f)
<1>1. PICK S : memory \in Seq(S)
  BY DEF StateInv, MemoryIsLog
<1>2. /\ memory' \in Seq(S \cup {f}) /\ DOMAIN memory' = 1..(Len(memory) + 1)
      /\ DOMAIN memory = 1..Len(memory) /\ Len(memory) \in Nat
      /\ \A i \in 1..Len(memory) : memory'[i] = memory[i]
      /\ memory'[Len(memory) + 1] = f
  BY <1>1, Appended DEF Writes
<1>3. MemoryIsLog'
  BY <1>2 DEF MemoryIsLog
<1>4. \A i \in DOMAIN memory : memory[i].kind \in Kinds
  BY DEF StateInv, TypeOK, Kinds
<1>5. \A i \in DOMAIN memory' : memory'[i].kind \in Kinds
  BY <1>2, <1>4
<1>6. AcceptedLevels(memory') = AcceptedLevels(memory) \cup LevelsOf(f)
  BY <1>1, RecordGrows DEF Writes
<1> QED
  BY <1>3, <1>5, <1>6

LEMMA MemoryStep ==
  ASSUME StateInv, [Next]_vars
  PROVE  /\ MemoryIsLog' /\ (\A i \in DOMAIN memory' : memory'[i].kind \in Kinds)
         /\ \/ AcceptedNow' = AcceptedNow
            \/ Accept /\ AcceptedNow' = AcceptedNow \cup {level}
<1>1. CASE memory' = memory
  BY <1>1 DEF StateInv, MemoryIsLog, TypeOK, Kinds, AcceptedNow
<1>2. CASE Collect
  <2>1. PICK id, cycle, exit :
          Writes(Note(id)) \/ Writes(Attempt(id, cycle, exit, FALSE))
    BY <1>2 DEF Collect, Writes
  <2>2. Note(id).kind \in Kinds /\ Attempt(id, cycle, exit, FALSE).kind \in Kinds
    BY DEF Note, Attempt, Kinds
  <2>3. CASE Writes(Note(id))
    BY <2>2, <2>3, WriteStep, OnlyAcceptancesCount DEF AcceptedNow
  <2>4. CASE Writes(Attempt(id, cycle, exit, FALSE))
    BY <2>2, <2>4, WriteStep, OnlyAcceptancesCount DEF AcceptedNow
  <2> QED
    BY <2>1, <2>3, <2>4
<1>3. CASE LeaveUngated
  <2>1. Writes(Note(BuildWide)) /\ Note(BuildWide).kind \in Kinds
    BY <1>3 DEF LeaveUngated, Writes, Note, Kinds
  <2> QED
    BY <2>1, WriteStep, OnlyAcceptancesCount DEF AcceptedNow
<1>4. CASE RecordErrors
  <2>1. Writes(Errors(level, verification)) /\ Errors(level, verification).kind \in Kinds
    BY <1>4 DEF RecordErrors, Writes, Errors, Kinds
  <2> QED
    BY <2>1, WriteStep, OnlyAcceptancesCount DEF AcceptedNow
<1>5. CASE Accept
  <2>1. /\ Writes(Attempt(LevelId(level), 0, 0, TRUE))
        /\ Attempt(LevelId(level), 0, 0, TRUE).kind \in Kinds
    BY <1>5 DEF Accept, Writes, Attempt, Kinds
  <2>2. level \in AllLevels
    BY <1>5, LevelIsLeast DEF Accept, StateInv, OnLevel, Started, Running
  <2> QED
    BY <1>5, <2>1, <2>2, WriteStep, OnlyAcceptancesCount DEF AcceptedNow
<1>6. memory' = memory \/ Collect \/ LeaveUngated \/ RecordErrors \/ Accept
  BY DEF Next, Proceed, vars, disk, Start, Prepare, Fail, Skip, Dispatch, Collected,
         CollectedEscalates, MergeBranch, HitConflict, AbortMerge, EndMerge, RunGate,
         DecideLevel, Finish, Kill, Repair
<1> QED
  BY <1>1, <1>2, <1>3, <1>4, <1>5, <1>6

\* The item collected next is one that was dispatched.
LEMMA WaitingIsLeast ==
  ASSUME StateInv, Started, waiting # {}
  PROVE  Min(waiting) \in waiting /\ Min(waiting) \in DOMAIN plan
<1>1. plan \in Plans /\ waiting \subseteq DOMAIN plan
  BY DEF StateInv
<1>2. DOMAIN plan \subseteq Nat
  BY <1>1
<1>3. waiting \in SUBSET Nat
  BY <1>1, <1>2
<1>4. \E n \in waiting : \A m \in waiting : n <= m
  BY <1>3, LeastNumber
<1>5. Min(waiting) \in waiting
  BY <1>4 DEF Min
<1> QED
  BY <1>1, <1>5

\* All of StateInv but what it says of the memory.
Places == {"idle", "prepare", "level", "collect", "merge", "abort", "ungated",
           "verify", "record", "decide", "accept", "exited", "killed"}
DiskShape ==
  created \in BOOLEAN /\ branch \in Seq(Work) /\ tree \in {"clean", "merging"}
ProcessShape ==
  /\ pc \in Places
  /\ plan \in Plans \cup {<<>>}
  /\ done \subseteq AllLevels /\ left \subseteq AllLevels
  /\ starts \in 0..MaxStarts
  /\ Started => plan \in Plans /\ starts \in 1..MaxStarts
  /\ left \subseteq Levels(plan)
  /\ OnLevel => left # {}
LevelShape ==
  /\ escalate \in BOOLEAN
  /\ DOMAIN executions \subseteq DOMAIN plan /\ waiting \subseteq DOMAIN executions
  /\ completed \in Seq(Work) /\ queue \in Seq(Work)
  /\ pc = "abort" => queue # <<>>
  /\ verification.passed \in BOOLEAN
ReportShape == report \in [levels_accepted : Nat, merged : Nat, outcome : Outcomes]
DispatchShape == dispatches \in [Work -> Nat]

LEMMA Shapes ==
  StateInv <=> /\ MemoryIsLog /\ \A i \in DOMAIN memory : memory[i].kind \in Kinds
               /\ DiskShape /\ ProcessShape /\ LevelShape /\ ReportShape /\ DispatchShape
               /\ IntegrationInv /\ Balance
BY DEF StateInv, TypeOK, Kinds, DiskShape, ProcessShape, LevelShape, ReportShape,
       DispatchShape, Places

LEMMA NothingLeft ==
  /\ NoVerification.passed \in BOOLEAN /\ DOMAIN <<>> = {}
  /\ NoReport \in [levels_accepted : Nat, merged : Nat, outcome : Outcomes]
  /\ \A S : <<>> \in Seq(S)
BY DEF NoVerification, NoReport, Outcomes

LEMMA DiskShapeStep == ASSUME StateInv, [Next]_vars PROVE DiskShape'
<1> USE DEF disk, repoVars, levelVars, history, Exit, DiskShape
<1>1. DiskShape /\ queue \in Seq(Work)
  BY Shapes DEF LevelShape
<1>2. CASE Prepare
  BY <1>1, <1>2 DEF Prepare
<1>3. CASE MergeBranch
  BY <1>1, <1>3 DEF MergeBranch
<1>4. CASE UNCHANGED branch
  BY <1>1, <1>4 DEF Next, Proceed, vars, Start, Prepare, Fail, Skip, Dispatch, Collect,
     Collected, CollectedEscalates, MergeBranch, HitConflict, AbortMerge, EndMerge,
     LeaveUngated, RunGate, RecordErrors, DecideLevel, Accept, Finish, Kill, Repair
<1>5. Prepare \/ MergeBranch \/ UNCHANGED branch
  BY DEF Next, Proceed, vars, Start, Fail, Skip, Dispatch, Collect, Collected,
     CollectedEscalates, HitConflict, AbortMerge, EndMerge, LeaveUngated, RunGate,
     RecordErrors, DecideLevel, Accept, Finish, Kill, Repair
<1> QED
  BY <1>2, <1>3, <1>4, <1>5

LEMMA ProcessShapeStep == ASSUME StateInv, [Next]_vars PROVE ProcessShape'
<1> USE DEF disk, repoVars, levelVars, argVars, history, Exit, ProcessShape, Places,
            Started, OnLevel, Running
<1>1. ProcessShape
  BY Shapes
<1>2. CASE Start
  <2>1. plan' \in Plans /\ left' = Levels(plan') /\ starts' = starts + 1
        /\ starts < MaxStarts /\ done' = AcceptedLevels(memory) /\ pc' = "prepare"
    BY <1>2 DEF Start
  <2>2. left' \subseteq AllLevels /\ done' \subseteq AllLevels
    BY <2>1 DEF AllLevels, AcceptedLevels
  <2> QED
    BY <1>1, <2>1, <2>2
<1>3. CASE Kill
  BY <1>1, <1>3 DEF Kill
<1>4. CASE DecideLevel
  BY <1>1, <1>4 DEF DecideLevel
<1>5. ASSUME NEW v \in Verdicts, RunGate(v) PROVE ProcessShape'
  BY <1>1, <1>5 DEF RunGate
<1>6. CASE Skip \/ LeaveUngated \/ Accept
  BY <1>1, <1>6 DEF Skip, LeaveUngated, Accept
<1>7. CASE Prepare \/ Fail \/ Dispatch \/ Collect \/ Collected \/ CollectedEscalates
  BY <1>1, <1>7 DEF Prepare, Fail, Dispatch, Collect, Collected, CollectedEscalates
<1>8. CASE MergeBranch \/ HitConflict \/ AbortMerge \/ EndMerge
  BY <1>1, <1>8 DEF MergeBranch, HitConflict, AbortMerge, EndMerge
<1>9. CASE RecordErrors \/ Finish \/ Repair \/ UNCHANGED vars
  BY <1>1, <1>9 DEF RecordErrors, Finish, Repair, vars
<1> QED
  BY <1>2, <1>3, <1>4, <1>5, <1>6, <1>7, <1>8, <1>9 DEF Next, Proceed

LEMMA LevelShapeStep == ASSUME StateInv, [Next]_vars PROVE LevelShape'
<1> USE DEF disk, repoVars, levelVars, argVars, history, Exit, LevelShape
<1>1. LevelShape
  BY Shapes
<1>2. CASE Start \/ Kill
  BY <1>2, NothingLeft DEF Start, Kill, Forget
<1>3. CASE Dispatch
  BY <1>1, <1>3, NothingLeft DEF Dispatch, items, ItemsAt
<1>4. CASE Collect
  <2> DEFINE item == Min(waiting)
  <2>1. /\ escalate' \in BOOLEAN /\ pc' = "collect"
        /\ completed' = Append(completed, Run(item)) \/ completed' = completed
        /\ waiting' = waiting \ {item}
        /\ UNCHANGED <<plan, executions, queue, verification>>
    BY <1>1, <1>4 DEF Collect
  <2>2. item \in DOMAIN plan /\ Started
    BY <1>1, <1>4, WaitingIsLeast DEF Collect, Started, Running
  <2>3. Run(item) \in Work
    BY <2>2, RunIsWork
  <2> HIDE DEF item
  <2>4. completed' \in Seq(Work)
    BY <1>1, <2>1, <2>3
  <2>5. /\ DOMAIN executions' \subseteq DOMAIN plan' /\ waiting' \subseteq DOMAIN executions'
        /\ queue' \in Seq(Work) /\ verification'.passed \in BOOLEAN
    BY <1>1, <2>1
  <2> QED
    BY <2>1, <2>4, <2>5
<1>5. CASE Collected
  BY <1>1, <1>5 DEF Collected
<1>6. CASE MergeBranch \/ AbortMerge
  <2>1. /\ queue # <<>> /\ queue' = Tail(queue) /\ pc' = "merge"
        /\ UNCHANGED <<plan, executions, waiting, completed, escalate, verification>>
    BY <1>1, <1>6 DEF MergeBranch, AbortMerge
  <2>2. queue' \in Seq(Work)
    BY <1>1, <2>1
  <2> QED
    BY <1>1, <2>1, <2>2
<1>7. ASSUME NEW v \in Verdicts, RunGate(v) PROVE LevelShape'
  BY <1>1, <1>7 DEF RunGate, Verifications
<1> DEFINE Same == UNCHANGED <<plan, executions, waiting, completed, escalate, queue,
                                verification>>
<1>8. CASE Same /\ (pc' = "abort" => pc = "abort" \/ queue # <<>>)
  BY <1>1, <1>8
<1>9. \/ Start \/ Kill \/ Dispatch \/ Collect \/ Collected \/ MergeBranch \/ AbortMerge
      \/ (\E v \in Verdicts : RunGate(v))
      \/ Same /\ (pc' = "abort" => pc = "abort" \/ queue # <<>>)
  BY DEF Next, Proceed, vars, Prepare, Fail, Skip, CollectedEscalates, HitConflict,
     EndMerge, LeaveUngated, RecordErrors, DecideLevel, Accept, Finish, Repair
<1> QED
  BY <1>2, <1>3, <1>4, <1>5, <1>6, <1>7, <1>8, <1>9

\* What an Integration holds, and what is done to one.
Holds(i, merged, conflicts) ==
  \E verifications, fixes, rewrites, escalation :
    i = Integration(merged, conflicts, verifications, fixes, rewrites, escalation)

LEMMA Fields ==
  ASSUME NEW i, NEW merged, NEW conflicts, Holds(i, merged, conflicts)
  PROVE  /\ i.merged = merged /\ i.conflicts = conflicts
         /\ \A v : Holds(Recorded(i, v), merged, conflicts)
         /\ \A b : Holds(Merged(i, b), Append(merged, b), conflicts)
         /\ \A b : Holds(Conflicted(i, b), merged, Append(conflicts, b))
<1>1. PICK verifications, fixes, rewrites, escalation :
        i = Integration(merged, conflicts, verifications, fixes, rewrites, escalation)
  BY DEF Holds
<1>2. i.merged = merged /\ i.conflicts = conflicts
  BY <1>1 DEF Integration
<1>3. ASSUME NEW v PROVE Holds(Recorded(i, v), merged, conflicts)
  BY <1>2 DEF Holds, Recorded
<1>4. ASSUME NEW b PROVE Holds(Merged(i, b), Append(merged, b), conflicts)
  <2>1. Merged(i, b) =
          Integration(Append(merged, b), conflicts, verifications, fixes, rewrites,
                      escalation)
    <3>1. Merged(i, b) = [i EXCEPT !.merged = Append(merged, b)]
      BY <1>2 DEF Merged
    <3> QED
      BY <1>1, <3>1 DEF Integration
  <2> QED
    BY <2>1 DEF Holds
<1>5. ASSUME NEW b PROVE Holds(Conflicted(i, b), merged, Append(conflicts, b))
  <2>1. Conflicted(i, b) =
          Integration(merged, Append(conflicts, b), verifications, fixes, rewrites,
                      escalation)
    <3>1. Conflicted(i, b) = [i EXCEPT !.conflicts = Append(conflicts, b)]
      BY <1>2 DEF Conflicted
    <3> QED
      BY <1>1, <3>1 DEF Integration
  <2> QED
    BY <2>1 DEF Holds
<1> QED
  BY <1>2, <1>3, <1>4, <1>5

LEMMA NewHolds ==
  Holds(NewIntegration, <<>>, <<>>) /\ (\A S : <<>> \in Seq(S)) /\ Len(<<>>) = 0
<1>1. NewIntegration = Integration(<<>>, <<>>, <<>>, 0, 0, FALSE)
  BY DEF NewIntegration
<1>2. Holds(NewIntegration, <<>>, <<>>)
  BY <1>1, Zenon DEF Holds
<1>3. (\A S : <<>> \in Seq(S)) /\ Len(<<>>) = 0
  OBVIOUS
<1> QED
  BY <1>2, <1>3

\* What one step does to the Integration and to the branches to be merged.
BranchMerged ==
  /\ pc = "merge" /\ pc' = "merge" /\ queue # <<>> /\ queue' = Tail(queue)
  /\ integration' = Merged(integration, Head(queue)) /\ completed' = completed
BranchConflicted ==
  /\ pc = "abort" /\ pc' = "merge" /\ queue' = Tail(queue)
  /\ integration' = Conflicted(integration, Head(queue)) /\ completed' = completed
MergeBegun ==
  integration' = NewIntegration /\ queue' = completed /\ completed' = completed
LevelRecorded ==
  /\ \E v : integration' = Recorded(integration, v)
  /\ pc' \notin {"merge", "abort"}
IntegrationKept ==
  /\ integration' = integration
  /\ pc' \in {"merge", "abort"} =>
       pc \in {"merge", "abort"} /\ UNCHANGED <<completed, queue>>

LEMMA IntegrationCases ==
  ASSUME [Next]_vars
  PROVE  \/ Start \/ Kill \/ BranchMerged \/ BranchConflicted \/ MergeBegun
         \/ LevelRecorded \/ IntegrationKept
<1> USE DEF disk, repoVars, levelVars, argVars, history, Exit, BranchMerged,
            BranchConflicted, MergeBegun, LevelRecorded, IntegrationKept
<1>1. CASE MergeBranch
  BY <1>1 DEF MergeBranch
<1>2. CASE AbortMerge
  BY <1>2 DEF AbortMerge
<1>3. CASE Collected
  BY <1>3 DEF Collected
<1>4. CASE DecideLevel
  BY <1>4 DEF DecideLevel
<1>5. CASE Prepare \/ Fail \/ Skip \/ Dispatch \/ Collect \/ CollectedEscalates
  BY <1>5 DEF Prepare, Fail, Skip, Dispatch, Collect, CollectedEscalates
<1>6. ASSUME NEW v \in Verdicts, RunGate(v) PROVE IntegrationKept
  BY <1>6 DEF RunGate
<1>7. CASE HitConflict \/ EndMerge \/ LeaveUngated \/ RecordErrors
  BY <1>7 DEF HitConflict, EndMerge, LeaveUngated, RecordErrors
<1>8. CASE Accept \/ Finish \/ Repair \/ UNCHANGED vars
  BY <1>8 DEF Accept, Finish, Repair, vars
<1> QED
  BY <1>1, <1>2, <1>3, <1>4, <1>5, <1>6, <1>7, <1>8 DEF Next, Proceed

LEMMA IntegrationStep ==
  ASSUME StateInv, [Next]_vars
  PROVE  IntegrationInv' /\ Balance'
<1>1. PICK merged, conflicts \in Seq(Work) : Holds(integration, merged, conflicts)
  BY DEF StateInv, IntegrationInv, Holds
<1>2. integration.merged = merged /\ integration.conflicts = conflicts
  BY <1>1, Fields
<1>3. completed \in Seq(Work) /\ queue \in Seq(Work) /\ (pc = "abort" => queue # <<>>)
  BY DEF StateInv
<1>4. ASSUME NEW m \in Seq(Work), NEW c \in Seq(Work), Holds(integration', m, c),
             pc' \in {"merge", "abort"} => Len(completed') = Len(m) + Len(c) + Len(queue')
      PROVE  IntegrationInv' /\ Balance'
  <2>1. IntegrationInv'
    BY <1>4 DEF IntegrationInv, Holds
  <2>2. integration'.merged = m /\ integration'.conflicts = c
    BY <1>4, Fields
  <2> QED
    BY <1>4, <2>1, <2>2 DEF Balance
<1>5. CASE Start \/ Kill
  <2>1. integration' = NewIntegration /\ pc' \in {"prepare", "killed"}
    BY <1>5 DEF Start, Kill, Forget
  <2> QED
    BY <2>1, <1>4, NewHolds
<1>6. CASE MergeBegun
  <2>1. Len(completed') = Len(<<>>) + Len(<<>>) + Len(queue')
    BY <1>3, <1>6, NewHolds DEF MergeBegun
  <2> QED
    BY <1>4, <1>6, <2>1, NewHolds, Zenon DEF MergeBegun
<1>7. CASE BranchMerged
  <2>1. /\ Append(merged, Head(queue)) \in Seq(Work)
        /\ Len(Append(merged, Head(queue))) = Len(merged) + 1
        /\ Len(queue') = Len(queue) - 1 /\ Len(queue) \in Nat /\ Len(merged) \in Nat
        /\ Len(conflicts) \in Nat
    BY <1>3, <1>7 DEF BranchMerged
  <2>2. Len(completed') = Len(merged) + Len(conflicts) + Len(queue)
    BY <1>2, <1>7 DEF BranchMerged, StateInv, Balance
  <2>3. Len(completed') = Len(Append(merged, Head(queue))) + Len(conflicts) + Len(queue')
    BY <2>1, <2>2
  <2>4. Holds(integration', Append(merged, Head(queue)), conflicts)
    BY <1>1, <1>7, Fields DEF BranchMerged
  <2> QED
    BY <1>4, <2>1, <2>3, <2>4
<1>8. CASE BranchConflicted
  <2>1. /\ Append(conflicts, Head(queue)) \in Seq(Work)
        /\ Len(Append(conflicts, Head(queue))) = Len(conflicts) + 1
        /\ Len(queue') = Len(queue) - 1 /\ Len(queue) \in Nat /\ Len(merged) \in Nat
        /\ Len(conflicts) \in Nat
    BY <1>3, <1>8 DEF BranchConflicted
  <2>2. Len(completed') = Len(merged) + Len(conflicts) + Len(queue)
    BY <1>2, <1>8 DEF BranchConflicted, StateInv, Balance
  <2>3. Len(completed') = Len(merged) + Len(Append(conflicts, Head(queue))) + Len(queue')
    BY <2>1, <2>2
  <2>4. Holds(integration', merged, Append(conflicts, Head(queue)))
    BY <1>1, <1>8, Fields DEF BranchConflicted
  <2> QED
    BY <1>4, <2>1, <2>3, <2>4
<1>9. CASE LevelRecorded
  <2>1. Holds(integration', merged, conflicts)
    BY <1>1, <1>9, Fields DEF LevelRecorded
  <2> QED
    BY <1>4, <1>9, <2>1 DEF LevelRecorded
<1>10. CASE IntegrationKept
  <2>1. Holds(integration', merged, conflicts)
    BY <1>1, <1>10 DEF IntegrationKept
  <2>2. pc' \in {"merge", "abort"} =>
          Len(completed') = Len(merged) + Len(conflicts) + Len(queue')
    BY <1>2, <1>10 DEF IntegrationKept, StateInv, Balance
  <2> QED
    BY <1>4, <2>1, <2>2
<1> QED
  BY <1>5, <1>6, <1>7, <1>8, <1>9, <1>10, IntegrationCases

LEMMA ReportShapeStep == ASSUME StateInv, [Next]_vars PROVE ReportShape'
<1> USE DEF disk, repoVars, levelVars, argVars, history, Exit, ReportShape, Outcomes
<1>1. ReportShape
  BY Shapes
<1>2. CASE Start \/ Kill
  BY <1>2, NothingLeft DEF Start, Kill
<1>3. CASE EndMerge
  <2>1. PICK merged, conflicts \in Seq(Work) : Holds(integration, merged, conflicts)
    BY DEF StateInv, IntegrationInv, Holds
  <2>2. integration.merged = merged /\ integration.conflicts = conflicts
    BY <2>1, Fields
  <2>3. report' = [report EXCEPT !.merged = @ + Len(completed) - Len(conflicts)]
        /\ pc = "merge" /\ queue \in Seq(Work)
    BY <1>3, <2>2 DEF EndMerge, StateInv
  <2>4. Len(completed) = Len(merged) + Len(conflicts) + Len(queue)
    BY <2>2, <2>3 DEF StateInv, Balance
  <2>5. report.merged + Len(completed) - Len(conflicts) \in Nat
    <3>1. Len(merged) \in Nat /\ Len(conflicts) \in Nat /\ Len(queue) \in Nat
          /\ report.merged \in Nat
      BY <1>1, <2>3
    <3> QED
      BY <2>4, <3>1
  <2> QED
    BY <1>1, <2>3, <2>5
<1>4. CASE Skip \/ Accept
  <2>1. report' = [report EXCEPT !.levels_accepted = @ + 1]
    BY <1>4 DEF Skip, Accept
  <2> QED
    BY <1>1, <2>1, SMTT(30)
<1>5. \/ Start \/ Kill \/ EndMerge \/ Skip \/ Accept \/ UNCHANGED report
      \/ \E outcome \in Outcomes : Exit(outcome)
  BY DEF Next, Proceed, vars, Prepare, Fail, Dispatch, Collect, Collected,
     CollectedEscalates, MergeBranch, HitConflict, AbortMerge, LeaveUngated, RunGate,
     RecordErrors, DecideLevel, Finish, Repair
<1> QED
  BY <1>1, <1>2, <1>3, <1>4, <1>5

LEMMA DispatchShapeStep == ASSUME StateInv, [Next]_vars PROVE DispatchShape'
<1>1. DispatchShape
  BY Shapes
<1>2. CASE Dispatch
  BY <1>1, <1>2 DEF Dispatch, DispatchShape
<1>3. CASE UNCHANGED dispatches
  BY <1>1, <1>3 DEF DispatchShape
<1>4. Dispatch \/ UNCHANGED dispatches
  BY DEF Next, Proceed, vars, history, Start, Prepare, Fail, Skip, Collect, Collected,
     CollectedEscalates, MergeBranch, HitConflict, AbortMerge, EndMerge, LeaveUngated,
     RunGate, RecordErrors, DecideLevel, Accept, Finish, Kill, Repair
<1> QED
  BY <1>2, <1>3, <1>4

LEMMA StateStep == ASSUME StateInv, [Next]_vars PROVE StateInv'
<1>1. MemoryIsLog' /\ (\A i \in DOMAIN memory' : memory'[i].kind \in Kinds)
  BY MemoryStep
<1>2. DiskShape' /\ ProcessShape' /\ LevelShape'
  BY DiskShapeStep, ProcessShapeStep, LevelShapeStep
<1>3. ReportShape' /\ DispatchShape' /\ IntegrationInv' /\ Balance'
  BY ReportShapeStep, DispatchShapeStep, IntegrationStep
<1> QED
  BY <1>1, <1>2, <1>3
     DEF StateInv, TypeOK, Kinds, DiskShape, ProcessShape, LevelShape, ReportShape,
         DispatchShape, Places

-----------------------------------------------------------------------------
(* Which levels are accepted, gated, dispatched and counted.                *)

\* What a process skips is what the memory had accepted when it was started;
\* of the levels it has left nothing else is; and a level it is past is
\* accepted or ungated.
LevelsInv ==
  /\ Started => done \subseteq AcceptedNow /\ left \cap AcceptedNow \subseteq done
  /\ OnLevel => level \notin done
  /\ Started => \A earlier \in Levels(plan) \ left :
                  earlier \in AcceptedNow \/ Gates(plan, earlier, acceptance) = {}

Here == Gates(plan, level, acceptance)

\* The gates a level has passed on the tree as it is.
GateInv ==
  /\ pc = "ungated" => Here = {}
  /\ pc = "verify" => /\ gatesLeft # {} /\ gatesLeft \subseteq Here
                      /\ Here \ gatesLeft \subseteq passed
  /\ pc \in {"record", "decide"} /\ verification.passed => Here # {} /\ Here \subseteq passed
  /\ pc = "accept" => Here # {} /\ Here \subseteq passed /\ integration.conflicts = <<>>

\* A step that stays in the process, at its level and off the memory's record.
SameProcess == UNCHANGED <<plan, acceptance, done, starts>>
SameLevel == SameProcess /\ left' = left

LEMMA LevelIsSame ==
  ASSUME SameLevel
  PROVE  /\ level' = level /\ items' = items /\ Here' = Here
         /\ \A i : Run(i)' = Run(i)
BY DEF SameLevel, SameProcess, level, items, Here, Run

LEMMA LevelsInit == Init => LevelsInv
BY DEF Init, LevelsInv, Started, Running, OnLevel

LEMMA LevelsKept ==
  ASSUME LevelsInv, SameLevel, AcceptedNow' = AcceptedNow,
         Started' => Started, OnLevel' => OnLevel
  PROVE  LevelsInv'
BY LevelIsSame DEF LevelsInv, SameLevel, SameProcess

LEMMA LevelsStep ==
  ASSUME StateInv, LevelsInv, GateInv, [Next]_vars
  PROVE  LevelsInv'
<1> USE DEF Started, OnLevel, Running
<1> DEFINE Kept == AcceptedNow' = AcceptedNow
<1>1. Kept \/ (Accept /\ AcceptedNow' = AcceptedNow \cup {level})
  BY MemoryStep
<1>2. pc # "accept" => Kept
  BY <1>1 DEF Accept
<1> HIDE DEF Kept
<1>3. CASE Start
  <2>1. /\ done' = AcceptedNow /\ left' = Levels(plan') /\ pc' = "prepare" /\ Kept
    BY <1>2, <1>3 DEF Start, AcceptedNow
  <2> QED
    BY <2>1 DEF LevelsInv, Kept
<1>4. CASE Kill \/ Fail \/ CollectedEscalates \/ Finish
  BY <1>4 DEF Kill, Fail, CollectedEscalates, Finish, Exit, LevelsInv
<1>5. CASE Skip
  <2>1. /\ left' = left \ {level} /\ level \in done /\ pc = "level" /\ pc' = "level"
        /\ SameProcess /\ Kept
    BY <1>2, <1>5 DEF Skip, SameProcess, argVars, history
  <2> QED
    BY <2>1 DEF LevelsInv, SameProcess, Kept
<1>6. CASE LeaveUngated
  <2>1. /\ left' = left \ {level} /\ Here = {} /\ pc = "ungated" /\ pc' = "level"
        /\ SameProcess /\ Kept
    BY <1>2, <1>6 DEF LeaveUngated, SameProcess, argVars, history, GateInv
  <2> QED
    BY <2>1 DEF LevelsInv, SameProcess, Kept, Here
<1>7. CASE Accept
  <2>1. /\ left' = left \ {level} /\ pc = "accept" /\ pc' = "level" /\ SameProcess
    BY <1>7 DEF Accept, SameProcess, argVars, history
  <2>2. AcceptedNow' = AcceptedNow \cup {level}
    <3>1. Writes(Attempt(LevelId(level), 0, 0, TRUE))
          /\ Attempt(LevelId(level), 0, 0, TRUE).kind \in Kinds
      BY <1>7 DEF Accept, Writes, Attempt, Kinds
    <3>2. level \in AllLevels
      BY <2>1, LevelIsLeast DEF StateInv
    <3> QED
      BY <3>1, <3>2, WriteStep, OnlyAcceptancesCount DEF AcceptedNow
  <2> QED
    BY <2>1, <2>2 DEF LevelsInv, SameProcess
<1>8. CASE Dispatch
  <2>1. /\ pc = "level" /\ pc' = "collect" /\ level \notin done /\ SameLevel /\ Kept
    BY <1>2, <1>8 DEF Dispatch, SameLevel, SameProcess, argVars
  <2> QED
    BY <2>1, LevelIsSame DEF LevelsInv, SameLevel, SameProcess, Kept
<1>9. CASE Prepare \/ Collect \/ Collected \/ MergeBranch \/ HitConflict \/ AbortMerge \/ EndMerge
  <2>1. SameLevel /\ Kept /\ (Started' => Started) /\ (OnLevel' => OnLevel)
    BY <1>2, <1>9 DEF Prepare, Collect, Collected, MergeBranch, HitConflict, AbortMerge,
       EndMerge, SameLevel, SameProcess, argVars, history, levelVars
  <2> QED
    BY <2>1, LevelsKept DEF Kept
<1>10. ASSUME NEW v \in Verdicts, RunGate(v) PROVE LevelsInv'
  <2>1. SameLevel /\ Kept /\ (Started' => Started) /\ (OnLevel' => OnLevel)
    BY <1>2, <1>10 DEF RunGate, SameLevel, SameProcess, argVars, history
  <2> QED
    BY <2>1, LevelsKept DEF Kept
<1>11. CASE RecordErrors \/ DecideLevel
  <2>1. SameLevel /\ Kept /\ (Started' => Started) /\ (OnLevel' => OnLevel)
    BY <1>2, <1>11 DEF RecordErrors, DecideLevel, SameLevel, SameProcess, argVars, history,
       Exit
  <2> QED
    BY <2>1, LevelsKept DEF Kept
<1>12. CASE Repair \/ UNCHANGED vars
  <2>1. SameLevel /\ Kept /\ (Started' => Started) /\ (OnLevel' => OnLevel)
    BY <1>12 DEF Repair, vars, disk, SameLevel, SameProcess, argVars, history, Kept,
       AcceptedNow
  <2> QED
    BY <2>1, LevelsKept DEF Kept
<1> QED
  BY <1>3, <1>4, <1>5, <1>6, <1>7, <1>8, <1>9, <1>10, <1>11, <1>12 DEF Next, Proceed

LEMMA GatesInit == Init => GateInv
BY DEF Init, GateInv

LEMMA GatesStep ==
  ASSUME StateInv, GateInv, [Next]_vars
  PROVE  GateInv'
<1> DEFINE Off == pc' \notin {"ungated", "verify", "record", "decide", "accept"}
<1>1. CASE Off
  BY <1>1 DEF GateInv
<1>2. CASE EndMerge
  <2>1. SameLevel /\ gatesLeft' = Here
        /\ pc' = IF gatesLeft' = {} THEN "ungated" ELSE "verify"
    BY <1>2 DEF EndMerge, SameLevel, SameProcess, argVars, history, Here
  <2> QED
    BY <2>1, LevelIsSame DEF GateInv
<1>3. ASSUME NEW v \in Verdicts, RunGate(v) PROVE GateInv'
  <2> DEFINE gate == Min(gatesLeft)
  <2>1. /\ pc = "verify" /\ gatesLeft' = gatesLeft \ {gate} /\ SameLevel
        /\ passed' = (IF v.passed THEN passed \cup {gate} ELSE passed)
        /\ pc' = (IF v.passed /\ gatesLeft' # {} THEN "verify" ELSE "record")
        /\ verification' = v
    BY <1>3 DEF RunGate, SameLevel, SameProcess, argVars
  <2>2. gatesLeft # {} /\ gatesLeft \subseteq Here /\ Here \ gatesLeft \subseteq passed
    BY <2>1 DEF GateInv
  <2> HIDE DEF gate
  <2>3. Here' = Here
    BY <2>1, LevelIsSame
  <2> HIDE DEF gate
  <2>4. CASE v.passed /\ gatesLeft' # {}
    BY <2>1, <2>2, <2>3, <2>4 DEF GateInv
  <2>5. CASE v.passed /\ gatesLeft' = {}
    BY <2>1, <2>2, <2>3, <2>5 DEF GateInv
  <2>6. CASE ~v.passed
    BY <2>1, <2>6 DEF GateInv
  <2> QED
    BY <2>4, <2>5, <2>6
<1>4. CASE RecordErrors
  <2>1. /\ pc = "record" /\ pc' = "decide" /\ SameLevel
        /\ UNCHANGED <<verification, passed>>
    BY <1>4 DEF RecordErrors, SameLevel, SameProcess, argVars, history, levelVars
  <2> QED
    BY <2>1, LevelIsSame DEF GateInv
<1>5. CASE DecideLevel
  <2>1. /\ pc = "decide" /\ SameLevel /\ UNCHANGED <<verification, passed>>
        /\ integration' = Recorded(integration, verification)
        /\ \/ pc' = "accept" /\ Decide(integration, verification) = "Accept"
           \/ pc' = "exited"
    BY <1>5 DEF DecideLevel, SameLevel, SameProcess, argVars, history, Exit
  <2>2. CASE pc' = "exited"
    BY <2>2 DEF GateInv
  <2>3. CASE pc' = "accept" /\ Decide(integration, verification) = "Accept"
    <3>1. integration.conflicts = <<>> /\ verification.passed
      BY <2>3 DEF Decide, Shifted
    <3>2. integration'.conflicts = integration.conflicts
      BY <2>1 DEF Recorded, Integration
    <3> QED
      BY <2>1, <2>3, <3>1, <3>2, LevelIsSame DEF GateInv
  <2> QED
    BY <2>1, <2>2, <2>3
<1>6. CASE Repair \/ UNCHANGED vars
  <2>1. SameLevel /\ UNCHANGED <<pc, gatesLeft, passed, verification, integration>>
    BY <1>6 DEF Repair, vars, SameLevel, SameProcess, argVars, history, levelVars
  <2> QED
    BY <2>1, LevelIsSame DEF GateInv
<1>7. \/ Off \/ EndMerge \/ (\E v \in Verdicts : RunGate(v)) \/ RecordErrors \/ DecideLevel
      \/ Repair \/ UNCHANGED vars
  BY DEF Next, Proceed, Start, Prepare, Fail, Skip, Dispatch, Collect, Collected,
     CollectedEscalates, MergeBranch, HitConflict, AbortMerge, LeaveUngated, Accept,
     Finish, Kill, Exit
<1> QED
  BY <1>1, <1>2, <1>3, <1>4, <1>5, <1>6, <1>7

-----------------------------------------------------------------------------
(* What becomes of the branches a level's runs leave.                       *)

Verified(i) == executions[i] # DispatchError /\ Disposition(executions[i]) = "Verify"
AfterMerge == {"ungated", "verify", "record", "decide", "accept"}
TheseRuns == {Run(i) : i \in items}

\* Where the branch of a verified run is: on the integration branch, waiting to
\* be merged, or among the conflicts.
Accounted(r) ==
  Contains(branch, r) \/ Contains(queue, r) \/ Contains(integration.conflicts, r)

MergeInv ==
  /\ pc = "collect" =>
       /\ \A i \in DOMAIN executions :
            Verified(i) => i \in waiting \/ Contains(completed, Run(i))
       /\ completed \in Seq(TheseRuns) /\ DOMAIN executions \subseteq items
  /\ pc \in {"merge", "abort"} \cup AfterMerge =>
       /\ \A i \in DOMAIN executions : Verified(i) => Accounted(Run(i))
       /\ queue \in Seq(TheseRuns)
  /\ pc \in AfterMerge => queue = <<>>

LEMMA ContainsMore ==
  ASSUME NEW S, NEW s \in Seq(S), NEW e \in S
  PROVE  /\ Contains(Append(s, e), e)
         /\ \A r : Contains(Append(s, e), r) <=> Contains(s, r) \/ r = e
<1>1. /\ Len(s) \in Nat /\ Len(Append(s, e)) = Len(s) + 1
      /\ \A i \in 1..Len(s) : Append(s, e)[i] = s[i]
      /\ Append(s, e)[Len(s) + 1] = e
  OBVIOUS
<1>2. Contains(Append(s, e), e)
  BY <1>1 DEF Contains
<1>3. ASSUME NEW r PROVE Contains(Append(s, e), r) <=> Contains(s, r) \/ r = e
  BY <1>1 DEF Contains
<1> QED
  BY <1>2, <1>3

LEMMA ContainsLess ==
  ASSUME NEW S, NEW s \in Seq(S), s # <<>>, NEW r, Contains(s, r)
  PROVE  Contains(Tail(s), r) \/ r = Head(s)
<1>1. /\ Len(Tail(s)) = Len(s) - 1 /\ Len(s) \in Nat /\ Len(s) > 0
      /\ \A i \in 1..(Len(s) - 1) : Tail(s)[i] = s[i + 1]
      /\ Head(s) = s[1]
  OBVIOUS
<1>2. PICK i \in 1..Len(s) : s[i] = r
  BY DEF Contains
<1>3. CASE i = 1
  BY <1>1, <1>2, <1>3
<1>4. CASE i # 1
  <2>1. i - 1 \in 1..(Len(s) - 1) /\ Tail(s)[i - 1] = s[(i - 1) + 1] /\ (i - 1) + 1 = i
    BY <1>1, <1>4
  <2> QED
    BY <1>1, <1>2, <2>1 DEF Contains
<1> QED
  BY <1>3, <1>4

LEMMA MergeInit == Init => MergeInv
BY DEF Init, MergeInv, AfterMerge

LEMMA MergesStep ==
  ASSUME StateInv, MergeInv, [Next]_vars
  PROVE  MergeInv'
<1> DEFINE Off == pc' \notin {"collect", "merge", "abort"} \cup AfterMerge
<1>1. CASE Off
  BY <1>1 DEF MergeInv, AfterMerge
<1>2. CASE Dispatch
  <2>1. /\ pc' = "collect" /\ SameLevel /\ waiting' = items /\ completed' = <<>>
        /\ DOMAIN executions' = items
    BY <1>2 DEF Dispatch, SameLevel, SameProcess, argVars
  <2> QED
    BY <2>1, LevelIsSame, NothingLeft DEF MergeInv, AfterMerge
<1>3. CASE Collect
  <2> DEFINE item == Min(waiting)
  <2>1. /\ pc = "collect" /\ pc' = "collect" /\ waiting # {} /\ waiting' = waiting \ {item}
        /\ completed' = (IF Verified(item) THEN Append(completed, Run(item)) ELSE completed)
        /\ SameLevel /\ executions' = executions
    BY <1>3 DEF Collect, SameLevel, SameProcess, argVars, history, Verified
  <2>2. item \in waiting /\ item \in DOMAIN executions
    BY <2>1, WaitingIsLeast DEF Started, Running, StateInv
  <2>3. /\ \A i \in DOMAIN executions :
            Verified(i) => i \in waiting \/ Contains(completed, Run(i))
        /\ completed \in Seq(TheseRuns) /\ DOMAIN executions \subseteq items
    BY <2>1 DEF MergeInv
  <2>4. Run(item) \in TheseRuns
    BY <2>2, <2>3 DEF TheseRuns
  <2> HIDE DEF item
  <2>5. completed' \in Seq(TheseRuns)
    BY <2>1, <2>3, <2>4
  <2>6. \A i \in DOMAIN executions :
          Verified(i) => i \in waiting' \/ Contains(completed', Run(i))
    BY <2>1, <2>3, <2>4, ContainsMore
  <2>7. /\ \A i : Run(i)' = Run(i)
        /\ \A i : Verified(i)' <=> Verified(i)
        /\ TheseRuns' = TheseRuns /\ items' = items
    BY <2>1, LevelIsSame DEF Verified, TheseRuns
  <2>8. \A i \in DOMAIN executions' :
          Verified(i)' => i \in waiting' \/ Contains(completed', Run(i)')
    BY <2>1, <2>6, <2>7
  <2> QED
    BY <2>1, <2>3, <2>5, <2>7, <2>8 DEF MergeInv, AfterMerge
<1>4. CASE Collected
  <2>1. /\ pc = "collect" /\ pc' = "merge" /\ waiting = {} /\ queue' = completed
        /\ SameLevel /\ UNCHANGED <<executions, branch>>
    BY <1>4 DEF Collected, SameLevel, SameProcess, argVars, history, disk, repoVars
  <2>2. /\ \A i \in DOMAIN executions : Verified(i) => Contains(completed, Run(i))
        /\ completed \in Seq(TheseRuns)
    BY <2>1 DEF MergeInv
  <2>3. /\ \A i : Run(i)' = Run(i)
        /\ \A i : Verified(i)' <=> Verified(i)
        /\ TheseRuns' = TheseRuns
    BY <2>1, LevelIsSame DEF Verified, TheseRuns
  <2>4. \A i \in DOMAIN executions' : Verified(i)' => Contains(queue', Run(i)')
    BY <2>1, <2>2, <2>3
  <2>5. queue' \in Seq(TheseRuns')
    BY <2>1, <2>2, <2>3
  <2> QED
    BY <2>1, <2>4, <2>5 DEF MergeInv, AfterMerge, Accounted
<1>5. CASE MergeBranch \/ AbortMerge
  <2>1. /\ pc \in {"merge", "abort"} /\ pc' = "merge" /\ queue # <<>> /\ queue' = Tail(queue)
        /\ SameLevel /\ executions' = executions
    BY <1>5 DEF MergeBranch, AbortMerge, SameLevel, SameProcess, argVars, history, StateInv
  <2>2. /\ queue \in Seq(Work) /\ branch \in Seq(Work) /\ Head(queue) \in Work
        /\ \/ /\ branch' = Append(branch, Head(queue))
              /\ integration' = Merged(integration, Head(queue))
           \/ branch' = branch /\ integration' = Conflicted(integration, Head(queue))
    <3>1. queue \in Seq(Work) /\ branch \in Seq(Work)
      BY DEF StateInv, TypeOK
    <3> QED
      BY <1>5, <2>1, <3>1 DEF MergeBranch, AbortMerge
  <2>3. PICK merged, conflicts \in Seq(Work) : Holds(integration, merged, conflicts)
    BY DEF StateInv, IntegrationInv, Holds
  <2>4. /\ integration.conflicts \in Seq(Work)
        /\ \/ branch' = Append(branch, Head(queue))
              /\ integration'.conflicts = integration.conflicts
           \/ branch' = branch
              /\ integration'.conflicts = Append(integration.conflicts, Head(queue))
    <3>1. integration.conflicts = conflicts
      BY <2>3, Fields
    <3>2. CASE branch' = Append(branch, Head(queue))
               /\ integration' = Merged(integration, Head(queue))
      <4>1. Holds(integration', Append(merged, Head(queue)), conflicts)
        BY <2>3, <3>2, Fields
      <4> QED
        BY <3>1, <3>2, <4>1, Fields
    <3>3. CASE branch' = branch /\ integration' = Conflicted(integration, Head(queue))
      <4>1. Holds(integration', merged, Append(conflicts, Head(queue)))
        BY <2>3, <3>3, Fields
      <4> QED
        BY <3>1, <3>3, <4>1, Fields
    <3> QED
      BY <2>2, <3>2, <3>3
  <2>5. ASSUME NEW r, Accounted(r)
        PROVE  Contains(branch', r) \/ Contains(queue', r) \/ Contains(integration'.conflicts, r)
    <3> DEFINE more(s) == Append(s, Head(queue))
    <3>1. ASSUME NEW s \in Seq(Work)
          PROVE  Contains(more(s), Head(queue)) /\ (Contains(s, r) => Contains(more(s), r))
      BY <2>2, ContainsMore
    <3>2. CASE Contains(branch, r)
      BY <2>2, <2>4, <3>2, <3>1
    <3>3. CASE Contains(integration.conflicts, r)
      BY <2>2, <2>4, <3>3, <3>1
    <3>4. CASE Contains(queue, r)
      <4>1. Contains(queue', r) \/ r = Head(queue)
        BY <2>1, <2>2, <3>4, ContainsLess
      <4> QED
        BY <2>2, <2>4, <3>1, <4>1
    <3> QED
      BY <2>5, <3>2, <3>3, <3>4 DEF Accounted
  <2>6. /\ \A i : Run(i)' = Run(i)
        /\ \A i : Verified(i)' <=> Verified(i)
        /\ TheseRuns' = TheseRuns
    BY <2>1, LevelIsSame DEF Verified, TheseRuns
  <2>7. /\ \A i \in DOMAIN executions : Verified(i) => Accounted(Run(i))
        /\ queue \in Seq(TheseRuns)
    BY <2>1 DEF MergeInv
  <2>8. \A i \in DOMAIN executions' : Verified(i)' => Accounted(Run(i))'
    BY <2>1, <2>5, <2>6, <2>7 DEF Accounted
  <2>9. queue' \in Seq(TheseRuns')
    BY <2>1, <2>6, <2>7
  <2> QED
    BY <2>1, <2>8, <2>9 DEF MergeInv, AfterMerge
<1>6. ASSUME SameLevel, UNCHANGED <<executions, branch, queue>>,
             integration'.conflicts = integration.conflicts,
             pc \in {"merge", "abort"} \cup AfterMerge, pc' # "collect",
             pc' \in AfterMerge => queue = <<>>
      PROVE  MergeInv'
  <2>1. /\ \A i : Run(i)' = Run(i)
        /\ \A i : Verified(i)' <=> Verified(i)
        /\ TheseRuns' = TheseRuns
    BY <1>6, LevelIsSame DEF Verified, TheseRuns
  <2>2. /\ \A i \in DOMAIN executions : Verified(i) => Accounted(Run(i))
        /\ queue \in Seq(TheseRuns)
    BY <1>6 DEF MergeInv
  <2>3. \A i \in DOMAIN executions' : Verified(i)' => Accounted(Run(i))'
    BY <1>6, <2>1, <2>2 DEF Accounted
  <2> QED
    BY <1>6, <2>1, <2>2, <2>3 DEF MergeInv
<1>7. CASE HitConflict \/ EndMerge \/ RecordErrors
  BY <1>6, <1>7 DEF HitConflict, EndMerge, RecordErrors, SameLevel, SameProcess, argVars,
     history, levelVars, disk, repoVars, MergeInv, AfterMerge
<1>8. ASSUME NEW v \in Verdicts, RunGate(v) PROVE MergeInv'
  BY <1>6, <1>8 DEF RunGate, SameLevel, SameProcess, argVars, disk, repoVars, MergeInv,
     AfterMerge
<1>9. CASE DecideLevel
  <2>1. integration'.conflicts = integration.conflicts
    BY <1>9 DEF DecideLevel, Recorded, Integration
  <2> QED
    BY <1>1, <1>6, <1>9, <2>1 DEF DecideLevel, SameLevel, SameProcess, argVars, history, disk,
       repoVars, MergeInv, AfterMerge, Exit
<1>10. CASE Repair \/ UNCHANGED vars
  <2>1. SameLevel /\ UNCHANGED <<pc, executions, branch, queue, integration, waiting, completed>>
    BY <1>10 DEF Repair, vars, disk, repoVars, SameLevel, SameProcess, argVars, history,
       levelVars
  <2>2. /\ \A i : Run(i)' = Run(i)
        /\ \A i : Verified(i)' <=> Verified(i)
        /\ TheseRuns' = TheseRuns /\ items' = items
        /\ \A r : Accounted(r)' <=> Accounted(r)
    BY <2>1, LevelIsSame DEF Verified, TheseRuns, Accounted
  <2> QED
    BY <2>1, <2>2 DEF MergeInv
<1>11. \/ Off \/ Dispatch \/ Collect \/ Collected \/ MergeBranch \/ AbortMerge
       \/ HitConflict \/ EndMerge \/ RecordErrors \/ (\E v \in Verdicts : RunGate(v))
       \/ DecideLevel \/ Repair \/ UNCHANGED vars
  BY DEF Next, Proceed, Start, Prepare, Fail, Skip, CollectedEscalates,
     LeaveUngated, Accept, Finish, Kill, Exit, AfterMerge
<1> QED
  BY <1>1, <1>2, <1>3, <1>4, <1>5, <1>7, <1>8, <1>9, <1>10, <1>11

\* The inductive invariant of all these.
HistoryInv == BuildInv /\ StateInv /\ LevelsInv /\ GateInv /\ MergeInv

LEMMA HistoryInit == Init => HistoryInv
BY InitBuild, StateInit, LevelsInit, GatesInit, MergeInit DEF HistoryInv

LEMMA HistoryStep == HistoryInv /\ [Next]_vars => HistoryInv'
BY NextBuild, StateStep, LevelsStep, GatesStep, MergesStep DEF HistoryInv

THEOREM HistoryInvariant == Spec => []HistoryInv
BY HistoryInit, HistoryStep, PTL DEF Spec

\* A level is accepted on its gates, passed on the tree as it stands, with every
\* branch that its runs left on that tree, and is never paid for again.
THEOREM AcceptedForGood == Spec => AcceptedOnce
<1>1. ASSUME HistoryInv, [Next]_vars, AcceptedLevels(memory') # AcceptedNow
      PROVE  /\ Gates(plan, level, acceptance) # {}
             /\ Gates(plan, level, acceptance) \subseteq passed
             /\ integration.conflicts = <<>> /\ tree = "clean"
             /\ \A i \in DOMAIN executions :
                  (executions[i] # DispatchError /\ Disposition(executions[i]) = "Verify")
                    => Contains(branch, Run(i))
  <2>1. Accept
    BY <1>1, MemoryStep DEF HistoryInv, AcceptedNow
  <2>2. pc = "accept"
    BY <2>1 DEF Accept
  <2>3. Here # {} /\ Here \subseteq passed /\ integration.conflicts = <<>>
    BY <1>1, <2>2 DEF HistoryInv, GateInv
  <2>4. tree = "clean"
    BY <1>1, <2>2 DEF HistoryInv, BuildInv, TreeClean, OnBranch
  <2>5. \A r : ~Contains(<<>>, r)
    BY DEF Contains
  <2>6. \A i \in DOMAIN executions : Verified(i) => Contains(branch, Run(i))
    BY <1>1, <2>2, <2>3, <2>5 DEF HistoryInv, MergeInv, AfterMerge, Accounted
  <2> QED
    BY <2>3, <2>4, <2>6 DEF Here, Verified
<1>2. ASSUME HistoryInv, [Next]_vars, dispatches' # dispatches
      PROVE  level \notin AcceptedNow
  <2>1. Dispatch
    BY <1>2 DEF Next, Proceed, vars, history, Start, Prepare, Fail, Skip, Collect, Collected,
       CollectedEscalates, MergeBranch, HitConflict, AbortMerge, EndMerge, LeaveUngated,
       RunGate, RecordErrors, DecideLevel, Accept, Finish, Kill, Repair
  <2>2. Started /\ left # {} /\ level \notin done
    BY <2>1 DEF Dispatch, Started, Running
  <2>3. level \in left
    BY <1>2, <2>2, LevelIsLeast DEF HistoryInv
  <2> QED
    BY <1>2, <2>2, <2>3 DEF HistoryInv, LevelsInv
<1>3. HistoryInv /\ [Next]_vars =>
        /\ [AcceptedLevels(memory') # AcceptedNow =>
              /\ Gates(plan, level, acceptance) # {}
              /\ Gates(plan, level, acceptance) \subseteq passed
              /\ integration.conflicts = <<>> /\ tree = "clean"
              /\ \A i \in DOMAIN executions :
                   (executions[i] # DispatchError /\ Disposition(executions[i]) = "Verify")
                     => Contains(branch, Run(i))]_vars
        /\ [dispatches' # dispatches => level \notin AcceptedNow]_vars
  BY <1>1, <1>2
<1> QED
  BY <1>3, HistoryInvariant, PTL
     DEF Spec, AcceptedOnce, AcceptanceIsEarned, AcceptedNeverRedone

-----------------------------------------------------------------------------
(* How attempts are numbered.                                               *)

LevelIds == {LevelId(lvl) : lvl \in AllLevels}
Upto(log, id, k) == {j \in Attempts(log, id) : j <= k}
Numbered(log) ==
  \A id \in AllIds \ LevelIds : \A k \in Attempts(log, id) :
    log[k].cycle = Cardinality(Upto(log, id, k))

LEMMA NumberedIsProperty == AttemptsNumbered <=> Numbered(memory)
BY DEF AttemptsNumbered, Numbered, Upto, LevelIds

\* A fact that is no attempt at an item, or the next attempt at one.
InSequence(log, f) ==
  \/ f.kind # "attempt"
  \/ f.id \in LevelIds
  \/ f.cycle = Cardinality(Attempts(log, f.id)) + 1

LEMMA AttemptsAfter ==
  ASSUME NEW S, NEW log \in Seq(S), NEW f, NEW id
  PROVE  /\ IsFiniteSet(Attempts(log, id))
         /\ Attempts(log, id) \subseteq 1..Len(log)
         /\ Attempts(Append(log, f), id) =
              Attempts(log, id) \cup
                (IF f.kind = "attempt" /\ f.id = id THEN {Len(log) + 1} ELSE {})
<1> DEFINE longer == Append(log, f)
           n == Len(log)
<1>1. /\ n \in Nat /\ DOMAIN log = 1..n /\ DOMAIN longer = 1..(n + 1)
      /\ \A i \in 1..n : longer[i] = log[i]
      /\ longer[n + 1] = f
  BY Appended
<1> HIDE DEF longer, n
<1>2. Attempts(log, id) \subseteq 1..n
  BY <1>1 DEF Attempts
<1>3. IsFiniteSet(1..n)
  BY <1>1, FS_Interval
<1>4. IsFiniteSet(Attempts(log, id))
  BY <1>2, <1>3, FS_Subset
<1>5. ASSUME NEW i PROVE i \in Attempts(longer, id)
                          <=> \/ i \in Attempts(log, id)
                              \/ i = n + 1 /\ f.kind = "attempt" /\ f.id = id
  BY <1>1 DEF Attempts
<1>6. Attempts(longer, id) =
        Attempts(log, id) \cup (IF f.kind = "attempt" /\ f.id = id THEN {n + 1} ELSE {})
  BY <1>5
<1> QED
  BY <1>2, <1>4, <1>6 DEF longer, n

LEMMA NumbersGrow ==
  ASSUME NEW S, NEW log \in Seq(S), Numbered(log), NEW f, InSequence(log, f)
  PROVE  Numbered(Append(log, f))
<1> DEFINE longer == Append(log, f)
<1> SUFFICES ASSUME NEW id \in AllIds \ LevelIds, NEW k \in Attempts(longer, id)
             PROVE  longer[k].cycle = Cardinality(Upto(longer, id, k))
  BY DEF Numbered
<1>1. /\ Len(log) \in Nat
      /\ \A i \in 1..Len(log) : longer[i] = log[i]
      /\ longer[Len(log) + 1] = f
  BY Appended
<1>2. /\ IsFiniteSet(Attempts(log, id))
      /\ Attempts(log, id) \subseteq 1..Len(log)
      /\ Attempts(longer, id) =
           Attempts(log, id) \cup
             (IF f.kind = "attempt" /\ f.id = id THEN {Len(log) + 1} ELSE {})
  BY AttemptsAfter
<1> HIDE DEF longer
<1>3. CASE k \in Attempts(log, id)
  <2>1. Upto(longer, id, k) = Upto(log, id, k)
    BY <1>1, <1>2, <1>3 DEF Upto
  <2>2. longer[k] = log[k]
    BY <1>1, <1>2, <1>3
  <2> QED
    BY <1>3, <2>1, <2>2 DEF Numbered
<1>4. CASE k \notin Attempts(log, id)
  <2>1. k = Len(log) + 1 /\ f.kind = "attempt" /\ f.id = id
    BY <1>2, <1>4
  <2>2. Upto(longer, id, k) = Attempts(log, id) \cup {k}
    BY <1>1, <1>2, <2>1 DEF Upto
  <2>3. Cardinality(Attempts(log, id) \cup {k}) = Cardinality(Attempts(log, id)) + 1
    BY <1>2, <1>4, FS_AddElement
  <2>4. longer[k].cycle = Cardinality(Attempts(log, id)) + 1
    BY <1>1, <2>1 DEF InSequence
  <2> QED
    BY <2>2, <2>3, <2>4
<1> QED
  BY <1>3, <1>4

LEMMA NumbersInit == Init => AttemptsNumbered
BY DEF Init, AttemptsNumbered, Attempts

LEMMA NumbersStep ==
  ASSUME StateInv, AttemptsNumbered, [Next]_vars
  PROVE  AttemptsNumbered'
<1>1. memory' = memory \/ \E f : Writes(f) /\ InSequence(memory, f)
  <2>1. CASE Collect
    <3>1. PICK id, exit : Writes(Note(id)) \/ Writes(Attempt(id, Cycle(id), exit, FALSE))
      BY <2>1 DEF Collect, Writes
    <3>2. InSequence(memory, Note(id)) /\ InSequence(memory, Attempt(id, Cycle(id), exit, FALSE))
      BY DEF InSequence, Note, Attempt, Cycle
    <3> QED
      BY <3>1, <3>2
  <2>2. CASE LeaveUngated
    <3>1. Writes(Note(BuildWide)) /\ InSequence(memory, Note(BuildWide))
      BY <2>2 DEF LeaveUngated, Writes, InSequence, Note
    <3> QED
      BY <3>1
  <2>3. CASE RecordErrors
    <3>1. Writes(Errors(level, verification)) /\ InSequence(memory, Errors(level, verification))
      BY <2>3 DEF RecordErrors, Writes, InSequence, Errors
    <3> QED
      BY <3>1
  <2>4. CASE Accept
    <3> DEFINE f == Attempt(LevelId(level), 0, 0, TRUE)
    <3>1. level \in AllLevels
      BY <2>4, LevelIsLeast DEF Accept, StateInv, OnLevel, Started, Running
    <3>2. Writes(f) /\ f.id \in LevelIds
      BY <2>4, <3>1 DEF Accept, Writes, Attempt, LevelIds
    <3> QED
      BY <3>2 DEF InSequence
  <2>5. memory' = memory \/ Collect \/ LeaveUngated \/ RecordErrors \/ Accept
    BY DEF Next, Proceed, vars, disk, Start, Prepare, Fail, Skip, Dispatch, Collected,
           CollectedEscalates, MergeBranch, HitConflict, AbortMerge, EndMerge, RunGate,
           DecideLevel, Finish, Kill, Repair
  <2> QED
    BY <2>1, <2>2, <2>3, <2>4, <2>5
<1>2. CASE memory' = memory
  BY <1>2 DEF AttemptsNumbered
<1>3. ASSUME NEW f, Writes(f), InSequence(memory, f) PROVE AttemptsNumbered'
  <2>1. PICK S : memory \in Seq(S)
    BY DEF StateInv, MemoryIsLog
  <2>2. Numbered(memory)
    BY NumberedIsProperty
  <2>3. Numbered(memory')
    BY <1>3, <2>1, <2>2, NumbersGrow DEF Writes
  <2> QED
    BY <2>3 DEF AttemptsNumbered, Numbered, Upto, LevelIds
<1> QED
  BY <1>1, <1>2, <1>3

-----------------------------------------------------------------------------
(* Which runs were dispatched, and which of their branches are merged.      *)

\* The levels a process has yet to come to.
LevelsAhead == left \ (IF OnLevel THEN {level} ELSE {})

\* No run is dispatched or merged that a later process, or this one at a later
\* level, has to dispatch; and those being collected are not merged.
FreshInv ==
  /\ \A k \in DOMAIN branch : branch[k].start <= starts
  /\ pc = "prepare" => \A k \in DOMAIN branch : branch[k].start < starts
  /\ \A run \in Work : run.start > starts => dispatches[run] = 0
  /\ Started => \A i \in DOMAIN plan : plan[i].level \in LevelsAhead =>
                  dispatches[Run(i)] = 0 /\ ~Contains(branch, Run(i))
  /\ pc = "collect" => DOMAIN executions = items /\ \A i \in items : ~Contains(branch, Run(i))
  /\ OneDispatchPerStart

LEMMA FreshInit == Init => FreshInv
<1> SUFFICES ASSUME Init PROVE FreshInv
  OBVIOUS
<1>1. DOMAIN branch = {}
  BY NothingLeft DEF Init
<1>2. \A run \in Work : dispatches[run] = 0
  BY DEF Init
<1> QED
  BY <1>1, <1>2 DEF Init, FreshInv, OneDispatchPerStart, Started, Running

LEMMA FreshKept ==
  ASSUME FreshInv, UNCHANGED <<starts, dispatches, branch>>,
         Started' => Started /\ plan' = plan /\ LevelsAhead' \subseteq LevelsAhead,
         pc' = "prepare" => pc = "prepare",
         pc' = "collect" => pc = "collect" /\ UNCHANGED <<plan, left, executions>>
  PROVE  FreshInv'
<1>1. plan' = plan => \A i : Run(i)' = Run(i)
  BY DEF Run
<1>2. plan' = plan /\ left' = left => items' = items
  BY DEF items, level
<1> QED
  BY <1>1, <1>2 DEF FreshInv, OneDispatchPerStart

\* The levels ahead only become fewer, and not by staying where one is.
LEMMA AheadStep ==
  ASSUME StateInv, SameProcess, Started
  PROVE  /\ left' = left /\ (OnLevel \/ ~OnLevel') => LevelsAhead' \subseteq left
         /\ left' = left /\ (OnLevel => OnLevel') => LevelsAhead' \subseteq LevelsAhead
         /\ left' = left \ {level} /\ ~OnLevel' => LevelsAhead' \subseteq LevelsAhead
<1>1. left' = left => level' = level
  BY DEF level
<1> QED
  BY <1>1 DEF LevelsAhead

LEMMA RunsDiffer ==
  ASSUME NEW i, NEW j, Run(i) = Run(j)
  PROVE  i = j
BY DEF Run

LEMMA FreshStep ==
  ASSUME StateInv, MergeInv, FreshInv, [Next]_vars
  PROVE  FreshInv'
<1> USE DEF Started, OnLevel, Running
<1>1. CASE Start
  <2>1. /\ starts' = starts + 1 /\ plan' \in Plans /\ pc' = "prepare"
        /\ UNCHANGED <<branch, dispatches>> /\ starts \in 0..MaxStarts /\ starts < MaxStarts
        /\ branch \in Seq(Work)
    BY <1>1 DEF Start, disk, repoVars, StateInv, TypeOK
  <2>2. /\ \A k \in DOMAIN branch : branch[k].start \in Int /\ branch[k].start <= starts
        /\ \A run \in Work : run.start > starts => dispatches[run] = 0
        /\ OneDispatchPerStart
    <3>1. \A k \in DOMAIN branch : branch[k].start \in Int
      <4>1. \A k \in DOMAIN branch : branch[k] \in Work
        BY <2>1
      <4>2. \A run \in Work : run.start \in Int
        BY DEF Work
      <4> QED
        BY <4>1, <4>2
    <3> QED
      BY <3>1 DEF FreshInv
  <2>3. \A k \in DOMAIN branch : branch[k].start < starts'
    BY <2>1, <2>2
  <2>4. \A run \in Work : run.start > starts' => dispatches[run] = 0
    BY <2>1, <2>2 DEF Work
  <2>5. ASSUME NEW i \in DOMAIN plan' PROVE dispatches'[Run(i)'] = 0 /\ ~Contains(branch', Run(i)')
    <3>1. Run(i)' = [id |-> plan'[i].id, item |-> i, start |-> starts + 1]
      BY <2>1 DEF Run
    <3>2. i \in Positions /\ plan'[i].id \in AllIds
      BY <2>1 DEF Positions, AllIds, PlanIds
    <3>3. starts + 1 \in 1..MaxStarts /\ starts + 1 > starts
      BY <2>1
    <3> DEFINE r == [id |-> plan'[i].id, item |-> i, start |-> starts + 1]
    <3>4. r \in Work /\ r.start = starts + 1
      BY <3>2, <3>3 DEF Work
    <3>5. Run(i)' = r
      BY <3>1
    <3> HIDE DEF r
    <3>6. dispatches[r] = 0
      BY <2>2, <3>3, <3>4
    <3>7. ~Contains(branch, r)
      BY <2>1, <2>3, <3>4 DEF Contains
    <3> QED
      BY <2>1, <3>5, <3>6, <3>7
  <2> QED
    BY <2>1, <2>2, <2>3, <2>4, <2>5 DEF FreshInv, OneDispatchPerStart
<1>2. CASE Prepare
  <2>1. /\ pc = "prepare" /\ pc' = "level" /\ SameLevel /\ UNCHANGED dispatches
        /\ branch' = branch \/ branch' = <<>>
    BY <1>2 DEF Prepare, SameLevel, SameProcess, argVars
  <2>2. LevelsAhead' \subseteq LevelsAhead
    BY <2>1, AheadStep DEF SameLevel
  <2>3. DOMAIN branch' \subseteq DOMAIN branch /\ (\A r : Contains(branch', r) => Contains(branch, r))
        /\ \A k \in DOMAIN branch' : branch'[k] = branch[k]
    <3>1. DOMAIN <<>> = {} /\ \A r : ~Contains(<<>>, r)
      BY NothingLeft DEF Contains
    <3> QED
      BY <2>1, <3>1
  <2> QED
    BY <2>1, <2>2, <2>3, LevelIsSame DEF FreshInv, OneDispatchPerStart, SameLevel, SameProcess
<1>3. CASE Kill \/ Fail \/ CollectedEscalates \/ Finish
  BY <1>3, FreshKept DEF Kill, Fail, CollectedEscalates, Finish, Exit, disk, repoVars, history
<1>4. CASE Skip \/ LeaveUngated \/ Accept
  <2>1. /\ UNCHANGED <<dispatches, branch>> /\ SameProcess /\ left' = left \ {level}
        /\ Started /\ pc' = "level"
    BY <1>4 DEF Skip, LeaveUngated, Accept, disk, repoVars, history, argVars, SameProcess
  <2>2. LevelsAhead' \subseteq LevelsAhead
    BY <2>1, AheadStep
  <2> QED
    BY <2>1, <2>2, FreshKept DEF SameProcess
<1>5. CASE Dispatch
  <2>1. /\ pc = "level" /\ pc' = "collect" /\ SameLevel /\ branch' = branch /\ left # {}
        /\ DOMAIN executions' = items
        /\ dispatches' = [run \in Work |->
             dispatches[run] + (IF run \in {Run(i) : i \in items} THEN 1 ELSE 0)]
    BY <1>5 DEF Dispatch, SameLevel, SameProcess, argVars, disk, repoVars
  <2>2. LevelsAhead = left /\ LevelsAhead' = left \ {level} /\ level \in left
    BY <2>1, LevelIsSame, LevelIsLeast DEF LevelsAhead, SameLevel
  <2>3. \A i \in DOMAIN plan : plan[i].level \in left =>
          Run(i) \in Work /\ dispatches[Run(i)] = 0 /\ ~Contains(branch, Run(i))
    BY <2>1, <2>2, RunIsWork DEF FreshInv
  <2>4. \A i \in items : i \in DOMAIN plan /\ plan[i].level = level
    BY DEF items, ItemsAt
  <2>5. OneDispatchPerStart'
    <3>1. ASSUME NEW run \in Work PROVE dispatches'[run] <= 1
      <4>1. dispatches[run] \in Nat /\ dispatches[run] <= 1
        BY DEF StateInv, FreshInv, OneDispatchPerStart
      <4>2. run \in {Run(i) : i \in items} => dispatches[run] = 0
        BY <2>2, <2>3, <2>4
      <4> QED
        BY <2>1, <4>1, <4>2
    <3> QED
      BY <3>1 DEF OneDispatchPerStart
  <2>6. \A run \in Work : run.start > starts' => dispatches'[run] = 0
    <3>1. starts' = starts /\ starts \in Int
      BY <2>1 DEF SameLevel, SameProcess, StateInv
    <3>2. \A i : Run(i).start = starts
      BY DEF Run
    <3>3. \A run \in Work : run.start > starts =>
            run \notin {Run(i) : i \in items} /\ dispatches[run] = 0
      BY <3>1, <3>2 DEF FreshInv
    <3> QED
      BY <2>1, <3>1, <3>3
  <2>7. ASSUME NEW i \in DOMAIN plan, plan[i].level \in left \ {level}
        PROVE  dispatches'[Run(i)] = 0 /\ ~Contains(branch, Run(i))
    <3>1. Run(i) \in Work /\ dispatches[Run(i)] = 0 /\ ~Contains(branch, Run(i))
      BY <2>3, <2>7
    <3>2. Run(i) \notin {Run(j) : j \in items}
      BY <2>4, <2>7, RunsDiffer
    <3> QED
      BY <2>1, <3>1, <3>2
  <2>8. \A i \in items : ~Contains(branch, Run(i))
    BY <2>2, <2>3, <2>4
  <2>9. /\ plan' = plan /\ starts' = starts /\ items' = items /\ (\A i : Run(i)' = Run(i))
    BY <2>1, LevelIsSame DEF SameLevel, SameProcess
  <2> QED
    BY <2>1, <2>2, <2>5, <2>6, <2>7, <2>8, <2>9 DEF FreshInv
<1>6. CASE MergeBranch
  <2>1. /\ pc = "merge" /\ pc' = "merge" /\ SameLevel /\ dispatches' = dispatches
        /\ branch' = Append(branch, Head(queue)) /\ queue # <<>>
    BY <1>6 DEF MergeBranch, SameLevel, SameProcess, argVars
  <2>2. /\ branch \in Seq(Work) /\ queue \in Seq(Work) /\ queue \in Seq(TheseRuns)
    BY <2>1 DEF StateInv, TypeOK, MergeInv
  <2>3. Head(queue) \in Work /\ Head(queue) \in TheseRuns
    BY <2>1, <2>2
  <2>4. PICK m \in items : Head(queue) = Run(m)
    BY <2>3 DEF TheseRuns
  <2>5. m \in DOMAIN plan /\ plan[m].level = level /\ Run(m).start = starts /\ starts \in Int
    BY <2>1, <2>4 DEF items, ItemsAt, Run, StateInv
  <2>6. LevelsAhead = left \ {level} /\ LevelsAhead' \subseteq LevelsAhead
    BY <2>1, AheadStep DEF LevelsAhead, SameLevel
  <2>7. \A r : Contains(branch', r) => Contains(branch, r) \/ r = Run(m)
    BY <2>1, <2>2, <2>3, <2>4, ContainsMore
  <2>8. \A k \in DOMAIN branch' : branch'[k].start <= starts
    <3>1. /\ DOMAIN branch' = 1..(Len(branch) + 1) /\ DOMAIN branch = 1..Len(branch)
          /\ Len(branch) \in Nat /\ (\A k \in 1..Len(branch) : branch'[k] = branch[k])
          /\ branch'[Len(branch) + 1] = Run(m)
      BY <2>1, <2>2, <2>4, Appended
    <3>2. \A k \in 1..Len(branch) : branch[k].start <= starts
      BY <3>1 DEF FreshInv
    <3> QED
      BY <2>5, <3>1, <3>2
  <2>9. ASSUME NEW i \in DOMAIN plan, plan[i].level \in LevelsAhead
        PROVE  dispatches[Run(i)] = 0 /\ ~Contains(branch', Run(i))
    <3>1. dispatches[Run(i)] = 0 /\ ~Contains(branch, Run(i))
      BY <2>1, <2>9 DEF FreshInv
    <3>2. Run(i) # Run(m)
      BY <2>5, <2>6, <2>9, RunsDiffer
    <3> QED
      BY <2>7, <3>1, <3>2
  <2>10. plan' = plan /\ starts' = starts /\ \A i : Run(i)' = Run(i)
    BY <2>1, LevelIsSame DEF SameLevel, SameProcess
  <2>11. (\A run \in Work : run.start > starts => dispatches[run] = 0) /\ OneDispatchPerStart
    BY DEF FreshInv
  <2> QED
    BY <2>1, <2>6, <2>8, <2>9, <2>10, <2>11 DEF FreshInv, OneDispatchPerStart
<1>7. ASSUME SameLevel, UNCHANGED <<dispatches, branch>>, Started' => Started,
             Started' => (OnLevel <=> OnLevel'), pc' = "prepare" => pc = "prepare",
             pc' = "collect" => pc = "collect" /\ executions' = executions
      PROVE  FreshInv'
  <2>1. Started' => LevelsAhead' \subseteq LevelsAhead
    BY <1>7, LevelIsSame DEF LevelsAhead, SameLevel
  <2> HIDE DEF Started, OnLevel, Running
  <2> QED
    BY <1>7, <2>1, FreshKept DEF SameLevel, SameProcess
<1>8. CASE Collect \/ Collected \/ HitConflict \/ AbortMerge \/ EndMerge
  BY <1>7, <1>8 DEF Collect, Collected, HitConflict, AbortMerge, EndMerge, SameLevel,
     SameProcess, argVars, history, levelVars, disk, repoVars
<1>9. ASSUME NEW v \in Verdicts, RunGate(v) PROVE FreshInv'
  BY <1>7, <1>9 DEF RunGate, SameLevel, SameProcess, argVars, disk, repoVars
<1>10. CASE RecordErrors \/ DecideLevel \/ Repair \/ UNCHANGED vars
  BY <1>7, <1>10 DEF RecordErrors, DecideLevel, Repair, vars, SameLevel, SameProcess, argVars,
     history, levelVars, disk, repoVars, Exit
<1> QED
  BY <1>1, <1>2, <1>3, <1>4, <1>5, <1>6, <1>8, <1>9, <1>10 DEF Next, Proceed

-----------------------------------------------------------------------------
(* A level with a run to escalate.                                          *)

Escalating(i) ==
  executions[i] = DispatchError \/ Disposition(executions[i]) = "Escalate"
NoneEscalating == \A i \in DOMAIN executions : ~Escalating(i)

\* Every run to be escalated is yet to be collected, or has set the flag the
\* level is not merged under.
EscalationInv ==
  /\ pc = "collect" => \A i \in DOMAIN executions : Escalating(i) => i \in waiting \/ escalate
  /\ pc \in {"prepare", "killed"} => DOMAIN executions = {}
  /\ pc \in OnBranch \ {"collect"} => NoneEscalating
  /\ EscalationMergesNothing

LEMMA EscalationInit == Init => EscalationInv
BY NothingLeft DEF Init, EscalationInv, EscalationMergesNothing, OnBranch

LEMMA NoneIsKept ==
  ASSUME EscalationInv, NoneEscalating, executions' = executions, pc' \in OnBranch \cup {"exited"}
  PROVE  EscalationInv'
<1>1. NoneEscalating'
  BY DEF NoneEscalating, Escalating
<1> QED
  BY <1>1 DEF EscalationInv, NoneEscalating, Escalating, EscalationMergesNothing, OnBranch

LEMMA EscalationStep ==
  ASSUME StateInv, FreshInv, FreshInv', EscalationInv, [Next]_vars
  PROVE  EscalationInv'
<1>1. CASE Start \/ Kill
  <2>1. DOMAIN executions' = {} /\ pc' \in {"prepare", "killed"}
    BY <1>1, NothingLeft DEF Start, Kill, Forget
  <2> QED
    BY <2>1 DEF EscalationInv, EscalationMergesNothing, OnBranch
<1>2. CASE Dispatch
  <2>1. pc' = "collect" /\ waiting' = DOMAIN executions'
    BY <1>2 DEF Dispatch
  <2>2. \A i \in items' : ~Contains(branch', Run(i)')
    BY <2>1 DEF FreshInv
  <2> QED
    BY <2>1, <2>2 DEF EscalationInv, EscalationMergesNothing, OnBranch
<1>3. CASE Collect
  <2> DEFINE item == Min(waiting)
  <2>1. /\ pc = "collect" /\ pc' = "collect" /\ executions' = executions
        /\ waiting' = waiting \ {item}
        /\ escalate' = (escalate \/ Escalating(item))
    BY <1>3 DEF Collect, Escalating
  <2>2. \A i \in items' : ~Contains(branch', Run(i)')
    BY <2>1 DEF FreshInv
  <2>3. \A i \in DOMAIN executions : Escalating(i) => i \in waiting \/ escalate
    BY <2>1 DEF EscalationInv
  <2> HIDE DEF item
  <2>4. \A i \in DOMAIN executions : Escalating(i) => i \in waiting' \/ escalate'
    BY <2>1, <2>3
  <2>5. \A i : Escalating(i)' <=> Escalating(i)
    BY <2>1 DEF Escalating
  <2> QED
    BY <2>1, <2>2, <2>4, <2>5 DEF EscalationInv, EscalationMergesNothing, OnBranch
<1>4. CASE Collected
  <2>1. NoneEscalating /\ executions' = executions /\ pc' = "merge"
    BY <1>4 DEF Collected, EscalationInv, NoneEscalating
  <2> QED
    BY <2>1, NoneIsKept DEF OnBranch
<1>5. CASE CollectedEscalates
  <2>1. /\ pc = "collect" /\ pc' = "exited" /\ UNCHANGED <<plan, left, starts, branch>>
    BY <1>5 DEF CollectedEscalates, Exit, argVars, history, disk, repoVars
  <2>2. \A i \in items' : ~Contains(branch', Run(i)')
    BY <2>1 DEF FreshInv, items, level, Run
  <2> QED
    BY <2>1, <2>2 DEF EscalationInv, EscalationMergesNothing, OnBranch
<1>6. CASE Prepare
  <2>1. NoneEscalating /\ executions' = executions /\ pc' = "level"
    BY <1>6 DEF Prepare, EscalationInv, NoneEscalating, levelVars
  <2> QED
    BY <2>1, NoneIsKept DEF OnBranch
<1>7. CASE Fail
  <2>1. NoneEscalating /\ executions' = executions /\ pc' = "exited"
    BY <1>7 DEF Fail, Exit, EscalationInv, NoneEscalating, levelVars, OnBranch
  <2> QED
    BY <2>1, NoneIsKept DEF OnBranch
<1>8. ASSUME pc \in OnBranch \ {"collect"}, executions' = executions,
             pc' \in OnBranch \cup {"exited"}
      PROVE  EscalationInv'
  BY <1>8, NoneIsKept DEF EscalationInv
<1>9. CASE Skip \/ MergeBranch \/ HitConflict \/ AbortMerge \/ EndMerge \/ LeaveUngated
  BY <1>8, <1>9 DEF Skip, MergeBranch, HitConflict, AbortMerge, EndMerge, LeaveUngated,
     levelVars, OnBranch
<1>10. ASSUME NEW v \in Verdicts, RunGate(v) PROVE EscalationInv'
  BY <1>8, <1>10 DEF RunGate, OnBranch
<1>11. CASE RecordErrors \/ DecideLevel \/ Accept \/ Finish
  BY <1>8, <1>11 DEF RecordErrors, DecideLevel, Accept, Finish, Exit, levelVars, OnBranch
<1>12. CASE Repair \/ UNCHANGED vars
  <2>1. UNCHANGED <<pc, executions, waiting, escalate, plan, left, starts, branch>>
    BY <1>12 DEF Repair, vars, levelVars, argVars, history, disk, repoVars
  <2> QED
    BY <2>1 DEF EscalationInv, EscalationMergesNothing, NoneEscalating, Escalating, items,
       level, Run
<1> QED
  BY <1>1, <1>2, <1>3, <1>4, <1>5, <1>6, <1>7, <1>9, <1>10, <1>11, <1>12 DEF Next, Proceed

-----------------------------------------------------------------------------
(* What the report counts.                                                  *)

LevelsPast == (Levels(plan) \ left) \cap AcceptedNow
MergedIn(b, start) == {k \in DOMAIN b : b[k].start = start}

\* While a level is merged its merges are in the Integration alone.
CountInv ==
  /\ Started => report.levels_accepted = Cardinality(LevelsPast)
  /\ pc \in {"prepare", "level", "collect"} \cup AfterMerge =>
       report.merged = Cardinality(MergedIn(branch, starts))
  /\ pc \in {"merge", "abort"} =>
       report.merged + Len(integration.merged) = Cardinality(MergedIn(branch, starts))

LEMMA CountInit == Init => CountInv
BY DEF Init, CountInv, Started, Running, AfterMerge

LEMMA LevelsAreFinite ==
  ASSUME NEW p \in Plans
  PROVE  IsFiniteSet(Levels(p))
<1>1. p \in Seq(Range(p))
  OBVIOUS
<1>2. DOMAIN p = 1..Len(p) /\ Len(p) \in Nat
  BY <1>1
<1>3. IsFiniteSet(DOMAIN p)
  BY <1>2, FS_Interval
<1> DEFINE f == [i \in DOMAIN p |-> p[i].level]
<1>4. f \in Surjection(DOMAIN p, Levels(p))
  BY DEF Surjection, Levels
<1> QED
  BY <1>3, <1>4, FS_Surjection

LEMMA MergedGrows ==
  ASSUME NEW S, NEW b \in Seq(S), NEW r, NEW start
  PROVE  /\ IsFiniteSet(MergedIn(b, start))
         /\ Cardinality(MergedIn(b, start)) \in Nat
         /\ r.start = start => Cardinality(MergedIn(Append(b, r), start))
                                 = Cardinality(MergedIn(b, start)) + 1
<1> DEFINE longer == Append(b, r)
           n == Len(b)
<1>1. /\ n \in Nat /\ DOMAIN b = 1..n /\ DOMAIN longer = 1..(n + 1)
      /\ \A i \in 1..n : longer[i] = b[i]
      /\ longer[n + 1] = r
  BY Appended
<1> HIDE DEF longer, n
<1>2. MergedIn(b, start) \subseteq 1..n /\ IsFiniteSet(1..n)
  <2>1. IsFiniteSet(1..n)
    BY <1>1, FS_Interval
  <2> QED
    BY <1>1, <2>1 DEF MergedIn
<1>3. IsFiniteSet(MergedIn(b, start)) /\ Cardinality(MergedIn(b, start)) \in Nat
  BY <1>2, FS_Subset, FS_CardinalityType
<1>4. ASSUME r.start = start
      PROVE  Cardinality(MergedIn(longer, start)) = Cardinality(MergedIn(b, start)) + 1
  <2>1. MergedIn(longer, start) = MergedIn(b, start) \cup {n + 1}
    BY <1>1, <1>4 DEF MergedIn
  <2>2. n + 1 \notin MergedIn(b, start)
    BY <1>1, <1>2
  <2> QED
    BY <1>3, <2>1, <2>2, FS_AddElement
<1> QED
  BY <1>3, <1>4 DEF longer

LEMMA StartsAreNumbers ==
  ASSUME StateInv
  PROVE  \A k \in DOMAIN branch : branch[k].start \in Int
<1>1. \A k \in DOMAIN branch : branch[k] \in Work
  BY DEF StateInv, TypeOK
<1>2. \A run \in Work : run.start \in Int
  BY DEF Work
<1> QED
  BY <1>1, <1>2

LEMMA PastStep ==
  ASSUME StateInv, LevelsInv, GateInv, CountInv, [Next]_vars
  PROVE  Started' => report'.levels_accepted = Cardinality(LevelsPast')
<1> USE DEF Started, OnLevel, Running
<1> SUFFICES ASSUME Started' PROVE report'.levels_accepted = Cardinality(LevelsPast')
  OBVIOUS
<1> DEFINE Kept == AcceptedNow' = AcceptedNow
<1>1. Kept \/ (Accept /\ AcceptedNow' = AcceptedNow \cup {level})
  BY MemoryStep
<1>2. pc # "accept" => Kept
  BY <1>1 DEF Accept
<1>3. Started => /\ IsFiniteSet(LevelsPast)
                 /\ report.levels_accepted = Cardinality(LevelsPast)
  <2> SUFFICES ASSUME Started PROVE IsFiniteSet(LevelsPast)
    BY DEF CountInv
  <2>1. IsFiniteSet(Levels(plan)) /\ LevelsPast \subseteq Levels(plan)
    BY LevelsAreFinite DEF StateInv, LevelsPast
  <2> QED
    BY <2>1, FS_Subset
<1>4. report.levels_accepted \in Nat
  BY DEF StateInv, TypeOK
<1>5. CASE Start
  <2>1. left' = Levels(plan') /\ report'.levels_accepted = 0
    BY <1>5 DEF Start, NoReport
  <2>2. LevelsPast' = {}
    BY <2>1 DEF LevelsPast
  <2> QED
    BY <2>1, <2>2, FS_EmptySet
<1>6. CASE Skip \/ Accept
  <2>1. /\ pc \in {"level", "accept"} /\ left # {} /\ left' = left \ {level} /\ plan' = plan
        /\ report' = [report EXCEPT !.levels_accepted = @ + 1]
    BY <1>6 DEF Skip, Accept, argVars, StateInv
  <2>2. level \in left /\ level \in Levels(plan)
    BY <2>1, LevelIsLeast
  <2>3. AcceptedNow' = AcceptedNow \cup {level}
    <3>1. CASE Skip
      <4>1. level \in AcceptedNow /\ Kept
        BY <1>2, <3>1 DEF Skip, LevelsInv
      <4> QED
        BY <4>1
    <3>2. CASE Accept
      <4>1. Writes(Attempt(LevelId(level), 0, 0, TRUE))
            /\ Attempt(LevelId(level), 0, 0, TRUE).kind \in Kinds
        BY <3>2 DEF Accept, Writes, Attempt, Kinds
      <4>2. level \in AllLevels
        BY <2>1, LevelIsLeast
      <4> QED
        BY <4>1, <4>2, WriteStep, OnlyAcceptancesCount DEF AcceptedNow
    <3> QED
      BY <1>6, <3>1, <3>2
  <2>4. LevelsPast' = LevelsPast \cup {level} /\ level \notin LevelsPast
    BY <2>1, <2>2, <2>3 DEF LevelsPast
  <2>5. Cardinality(LevelsPast') = Cardinality(LevelsPast) + 1
    BY <1>3, <2>1, <2>4, FS_AddElement
  <2>6. report'.levels_accepted = report.levels_accepted + 1
    BY <1>4, <2>1 DEF StateInv, TypeOK
  <2> QED
    BY <1>3, <2>1, <2>5, <2>6
<1>7. CASE LeaveUngated
  <2>1. /\ pc = "ungated" /\ left # {} /\ left' = left \ {level} /\ plan' = plan
        /\ report' = report /\ Kept
    BY <1>2, <1>7 DEF LeaveUngated, argVars, StateInv
  <2>2. level \in left /\ level \notin AcceptedNow
    BY <2>1, LevelIsLeast DEF LevelsInv
  <2>3. LevelsPast' = LevelsPast
    BY <2>1, <2>2 DEF LevelsPast
  <2> QED
    BY <1>3, <2>1, <2>3
<1>8. ASSUME Kept, Started, UNCHANGED <<plan, left>>,
             report'.levels_accepted = report.levels_accepted
      PROVE  report'.levels_accepted = Cardinality(LevelsPast')
  <2>1. LevelsPast' = LevelsPast
    BY <1>8 DEF LevelsPast
  <2> QED
    BY <1>3, <1>8, <2>1
<1> HIDE DEF Kept
<1>9. CASE EndMerge
  <2>1. report'.levels_accepted = report.levels_accepted
    BY <1>9 DEF EndMerge, StateInv, TypeOK
  <2> QED
    BY <1>2, <1>8, <1>9, <2>1 DEF EndMerge, argVars
<1>10. CASE Prepare \/ Dispatch \/ Collect \/ Collected \/ MergeBranch \/ HitConflict \/ AbortMerge
  BY <1>2, <1>8, <1>10 DEF Prepare, Dispatch, Collect, Collected, MergeBranch, HitConflict,
     AbortMerge, argVars
<1>11. ASSUME NEW v \in Verdicts, RunGate(v)
       PROVE  report'.levels_accepted = Cardinality(LevelsPast')
  BY <1>2, <1>8, <1>11 DEF RunGate, argVars
<1>12. CASE RecordErrors \/ DecideLevel
  BY <1>2, <1>8, <1>12 DEF RecordErrors, DecideLevel, argVars, Exit
<1>13. CASE UNCHANGED vars
  <2>1. Kept /\ Started /\ UNCHANGED <<plan, left, report>>
    BY <1>13 DEF vars, disk, argVars, AcceptedNow, Kept
  <2> QED
    BY <1>8, <2>1
<1>14. CASE Repair \/ Kill \/ Fail \/ CollectedEscalates \/ Finish
  BY <1>14 DEF Repair, Kill, Fail, CollectedEscalates, Finish, Exit
<1> QED
  BY <1>5, <1>6, <1>7, <1>9, <1>10, <1>11, <1>12, <1>13, <1>14 DEF Next, Proceed

LEMMA MergedStep ==
  ASSUME StateInv, MergeInv, FreshInv, FreshInv', CountInv, [Next]_vars
  PROVE  /\ pc' \in {"prepare", "level", "collect"} \cup AfterMerge =>
              report'.merged = Cardinality(MergedIn(branch', starts'))
         /\ pc' \in {"merge", "abort"} =>
              report'.merged + Len(integration'.merged) =
                Cardinality(MergedIn(branch', starts'))
<1> DEFINE Goal == /\ pc' \in {"prepare", "level", "collect"} \cup AfterMerge =>
                        report'.merged = Cardinality(MergedIn(branch', starts'))
                   /\ pc' \in {"merge", "abort"} =>
                        report'.merged + Len(integration'.merged) =
                          Cardinality(MergedIn(branch', starts'))
<1> SUFFICES Goal
  OBVIOUS
<1> USE DEF AfterMerge
<1>1. report.merged \in Nat /\ starts \in Int /\ branch \in Seq(Work)
      /\ report \in [levels_accepted : Nat, merged : Nat, outcome : Outcomes]
  BY DEF StateInv, TypeOK
<1>2. PICK merged, conflicts \in Seq(Work) : Holds(integration, merged, conflicts)
  BY DEF StateInv, IntegrationInv, Holds
<1>3. /\ integration.merged = merged /\ integration.conflicts = conflicts
      /\ Len(merged) \in Nat /\ Len(conflicts) \in Nat
  BY <1>2, Fields
<1>4. CASE Start
  <2>1. pc' = "prepare" /\ report'.merged = 0
    BY <1>4 DEF Start, NoReport
  <2>2. \A k \in DOMAIN branch' : branch'[k].start < starts'
    BY <2>1 DEF FreshInv
  <2>3. \A k \in DOMAIN branch' : branch'[k].start # starts'
    <3>1. /\ \A k \in DOMAIN branch : branch[k].start \in Int
          /\ starts' \in Int /\ branch' = branch
      BY <1>1, <1>4, StartsAreNumbers DEF Start, disk, repoVars
    <3> QED
      BY <2>2, <3>1
  <2>4. MergedIn(branch', starts') = {}
    BY <2>3 DEF MergedIn
  <2> QED
    BY <2>1, <2>4, FS_EmptySet
<1>5. CASE Prepare
  <2>1. /\ pc = "prepare" /\ pc' = "level" /\ report' = report /\ starts' = starts
        /\ branch' = branch \/ branch' = <<>>
    BY <1>5 DEF Prepare
  <2>2. MergedIn(branch, starts) = {}
    <3>1. \A k \in DOMAIN branch : branch[k].start \in Int /\ branch[k].start < starts
      BY <2>1, StartsAreNumbers DEF FreshInv
    <3> QED
      BY <1>1, <3>1 DEF MergedIn
  <2>3. MergedIn(branch', starts') = {}
    BY <2>1, <2>2, NothingLeft DEF MergedIn
  <2> QED
    BY <2>1, <2>2, <2>3 DEF CountInv
<1>6. CASE Collected
  <2>1. /\ pc = "collect" /\ pc' = "merge" /\ integration' = NewIntegration
        /\ UNCHANGED <<report, branch, starts>>
    BY <1>6 DEF Collected, disk, repoVars, history
  <2>2. Len(integration'.merged) = 0
    BY <2>1, NewHolds, Fields
  <2> QED
    BY <1>1, <2>1, <2>2 DEF CountInv
<1>7. CASE MergeBranch
  <2>1. /\ pc = "merge" /\ pc' = "merge" /\ queue # <<>> /\ branch' = Append(branch, Head(queue))
        /\ integration' = Merged(integration, Head(queue)) /\ UNCHANGED <<report, starts>>
    BY <1>7 DEF MergeBranch
  <2>2. Head(queue).start = starts
    <3>1. Head(queue) \in TheseRuns
      BY <2>1 DEF MergeInv
    <3>2. PICK i \in items : Head(queue) = Run(i)
      BY <3>1 DEF TheseRuns
    <3> QED
      BY <3>2 DEF Run
  <2>3. Cardinality(MergedIn(branch', starts)) = Cardinality(MergedIn(branch, starts)) + 1
    BY <1>1, <2>1, <2>2, MergedGrows
  <2>4. Holds(integration', Append(merged, Head(queue)), conflicts)
    BY <1>2, <2>1, Fields
  <2>5. integration'.merged = Append(merged, Head(queue))
    BY <2>4, Fields
  <2>6. Len(Append(merged, Head(queue))) = Len(merged) + 1
    BY Appended
  <2>7. report.merged + Len(merged) = Cardinality(MergedIn(branch, starts))
    BY <1>3, <2>1 DEF CountInv
  <2>8. report.merged + (Len(merged) + 1) = Cardinality(MergedIn(branch, starts)) + 1
    BY <1>1, <1>3, <2>7
  <2> QED
    BY <2>1, <2>3, <2>5, <2>6, <2>8
<1>8. CASE AbortMerge
  <2>1. /\ pc = "abort" /\ pc' = "merge" /\ integration' = Conflicted(integration, Head(queue))
        /\ UNCHANGED <<report, branch, starts>>
    BY <1>8 DEF AbortMerge, history
  <2>2. Holds(integration', merged, Append(conflicts, Head(queue)))
    BY <1>2, <2>1, Fields
  <2>3. integration'.merged = merged
    BY <2>2, Fields
  <2> QED
    BY <1>3, <2>1, <2>3 DEF CountInv
<1>9. CASE EndMerge
  <2>1. /\ pc = "merge" /\ pc' \in AfterMerge /\ queue = <<>>
        /\ report' = [report EXCEPT !.merged = @ + Len(completed) - Len(integration.conflicts)]
        /\ UNCHANGED <<branch, starts>>
    BY <1>9 DEF EndMerge, disk, repoVars, history
  <2>2. Len(completed) = Len(merged) + Len(conflicts) + Len(queue) /\ Len(queue) = 0
    BY <1>3, <2>1, NewHolds DEF StateInv, Balance
  <2>3. report.merged + Len(merged) = Cardinality(MergedIn(branch, starts))
    BY <1>3, <2>1 DEF CountInv
  <2>4. report'.merged = report.merged + Len(completed) - Len(conflicts)
    BY <1>1, <1>3, <2>1
  <2>5. report'.merged = report.merged + Len(merged)
    BY <1>1, <1>3, <2>2, <2>4
  <2> QED
    BY <2>1, <2>3, <2>5
<1>10. ASSUME UNCHANGED <<branch, starts, integration>>, report'.merged = report.merged,
              pc' \in {"merge", "abort"} => pc \in {"merge", "abort"},
              pc' \in {"prepare", "level", "collect"} \cup AfterMerge =>
                pc \in {"prepare", "level", "collect"} \cup AfterMerge
       PROVE  Goal
  BY <1>10 DEF CountInv
<1>11. CASE Skip \/ Accept
  <2>1. report'.merged = report.merged
    BY <1>1, <1>11 DEF Skip, Accept
  <2> QED
    BY <1>10, <1>11, <2>1 DEF Skip, Accept, disk, repoVars, levelVars, history
<1>12. CASE Dispatch \/ Collect \/ HitConflict \/ LeaveUngated \/ RecordErrors
  BY <1>10, <1>12 DEF Dispatch, Collect, HitConflict, LeaveUngated, RecordErrors, disk,
     repoVars, levelVars, history
<1>13. ASSUME NEW v \in Verdicts, RunGate(v) PROVE Goal
  BY <1>10, <1>13 DEF RunGate, disk, repoVars
<1>14. CASE DecideLevel
  <2>1. pc = "decide" /\ UNCHANGED <<branch, starts>>
        /\ ((pc' = "accept" /\ report' = report) \/ pc' = "exited")
    BY <1>14 DEF DecideLevel, Exit, disk, repoVars, history
  <2> QED
    BY <2>1 DEF CountInv
<1>15. CASE Repair \/ Kill \/ Fail \/ CollectedEscalates \/ Finish
  BY <1>15 DEF Repair, Kill, Fail, CollectedEscalates, Finish, Exit
<1>16. CASE UNCHANGED vars
  BY <1>10, <1>16 DEF vars, disk, repoVars, levelVars, history
<1> QED
  BY <1>4, <1>5, <1>6, <1>7, <1>8, <1>9, <1>11, <1>12, <1>13, <1>14, <1>15, <1>16
     DEF Next, Proceed

LEMMA CountStep ==
  ASSUME StateInv, LevelsInv, GateInv, MergeInv, FreshInv, FreshInv', CountInv, [Next]_vars
  PROVE  CountInv'
BY PastStep, MergedStep DEF CountInv

-----------------------------------------------------------------------------
AccountInv ==
  HistoryInv /\ FreshInv /\ EscalationInv /\ CountInv /\ AttemptsNumbered

LEMMA AccountInit == Init => AccountInv
BY HistoryInit, FreshInit, EscalationInit, CountInit, NumbersInit DEF AccountInv

LEMMA AccountStep == AccountInv /\ [Next]_vars => AccountInv'
<1> SUFFICES ASSUME AccountInv, [Next]_vars PROVE AccountInv'
  OBVIOUS
<1>1. HistoryInv' /\ FreshInv'
  BY HistoryStep, FreshStep DEF AccountInv, HistoryInv
<1>2. EscalationInv' /\ CountInv' /\ AttemptsNumbered'
  BY <1>1, EscalationStep, CountStep, NumbersStep DEF AccountInv, HistoryInv
<1> QED
  BY <1>1, <1>2 DEF AccountInv

\* The branch, the memory, the process's counters and its report tell one
\* history of the build, however often it is killed and started again: no run
\* is dispatched twice, levels go in order, a level to be escalated merges
\* nothing, the report counts what is on disk, and attempts are numbered on.
THEOREM HistoryStaysTrue == Spec => []HistoryAgrees
<1>1. Spec => []AccountInv
  BY AccountInit, AccountStep, PTL DEF Spec
<1>2. AccountInv => HistoryAgrees
  <2> SUFFICES ASSUME AccountInv PROVE HistoryAgrees
    OBVIOUS
  <2>1. TypeOK /\ OneDispatchPerStart /\ EscalationMergesNothing /\ AttemptsNumbered
    BY DEF AccountInv, HistoryInv, StateInv, FreshInv, EscalationInv
  <2>2. LevelsInOrder
    BY DEF AccountInv, HistoryInv, LevelsInv, LevelsInOrder, Started, OnLevel
  <2>3. ReportAgrees
    BY DEF AccountInv, CountInv, ReportAgrees, LevelsPast, MergedIn, Started, AfterMerge
  <2>4. NoVerdictWhileMerging
    BY DEF AccountInv, HistoryInv, BuildInv, TreeClean, NoVerdictWhileMerging, OnBranch
  <2> QED
    BY <2>1, <2>2, <2>3, <2>4 DEF HistoryAgrees
<1> QED
  BY <1>1, <1>2, PTL
=============================================================================
