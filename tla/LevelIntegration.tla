--------------------------- MODULE LevelIntegration ---------------------------
(***************************************************************************)
(* One level's integration, supervisor/integrate.rs, for a caller that     *)
(* does what it is told: merge the level's branches, verify, and on each   *)
(* decision fix and verify again, discard and merge a rewrite, or stop.    *)
(* (What the build driver makes of a decision is Build.tla.)  Git and the  *)
(* acceptance command are the environment: a merge succeeds, conflicts or  *)
(* fails outright, and a verification may find anything.                   *)
(***************************************************************************)
EXTENDS IntegrationPolicy

CONSTANTS
  Branches,       \* branches completed items may have left
  BranchLists     \* the lists merge_level may be given

\* A run names its branch after itself, so no list holds a branch twice.
ASSUME LevelIntegrationAssumption ==
  BranchLists \subseteq {list \in Seq(Branches) : IsInjective(list)}

VARIABLES
  pc,            \* "merge", "verify", "work" (fix or rewrite under way),
                 \* "accepted", "escalated", or "failed" on an IntegrateError
  integration,   \* the level's Integration
  queue,         \* branches merge_level still has to attempt
  offered,       \* history: branches handed over since the last discard
  decisions      \* history: the decision of each verification

vars == <<pc, integration, queue, offered, decisions>>

TypeOK ==
  /\ pc \in {"merge", "verify", "work", "accepted", "escalated", "failed"}
  /\ integration \in
       [merged : Seq(Branches), conflicts : Seq(Branches),
        verifications : Seq(Verifications), fix_cycles_used : 0..MAX_FIX_CYCLES,
        rewrites_used : 0..MAX_REWRITES, escalation : BOOLEAN]
  /\ queue \in Seq(Branches) /\ offered \in Seq(Branches)
  /\ decisions \in Seq(NextSteps)

Init ==
  /\ pc = "merge"
  /\ integration = NewIntegration
  /\ queue \in BranchLists
  /\ offered = queue
  /\ decisions = <<>>

-----------------------------------------------------------------------------
MergeClean ==
  /\ pc = "merge" /\ queue # <<>>
  /\ integration' = Merged(integration, Head(queue))
  /\ queue' = Tail(queue)
  /\ UNCHANGED <<pc, offered, decisions>>

MergeStopsAtConflict ==
  /\ pc = "merge" /\ queue # <<>>
  /\ integration' = Conflicted(integration, Head(queue))
  /\ queue' = <<>>
  /\ UNCHANGED <<pc, offered, decisions>>

\* The conflicting merge is aborted and the branches behind it still tried.
MergeConflicts ==
  /\ pc = "merge" /\ queue # <<>>
  /\ integration' = Conflicted(integration, Head(queue))
  /\ queue' = Tail(queue)
  /\ UNCHANGED <<pc, offered, decisions>>

\* The checkout fails, or a merge with no unmerged path, or the acceptance
\* command cannot start.
Fail ==
  /\ pc \in {"merge", "verify"}
  /\ pc = "merge" => queue # <<>> \/ queue = offered
  /\ pc' = "failed"
  /\ UNCHANGED <<integration, queue, offered, decisions>>

MergesEndIfAny ==
  /\ pc = "merge" /\ queue = <<>>
  /\ integration.merged # <<>>
  /\ pc' = "verify"
  /\ UNCHANGED <<integration, queue, offered, decisions>>

\* merge_level returns, also when it was given nothing or merged nothing.
MergesEnd ==
  /\ pc = "merge" /\ queue = <<>>
  /\ pc' = "verify"
  /\ UNCHANGED <<integration, queue, offered, decisions>>

Verify(v) ==
  LET step == Decide(integration, v)
  IN  /\ pc = "verify"
      /\ integration' = Recorded(integration, v)
      /\ decisions' = Append(decisions, step)
      /\ pc' = CASE step = "Accept" -> "accepted"
                 [] step = "Escalate" -> "escalated"
                 [] OTHER -> "work"
      /\ UNCHANGED <<queue, offered>>

\* Fix tasks were dispatched; their branches come on top of what is merged.
\* No two dispatches share a branch either.
Fix(branches) ==
  /\ pc = "work" /\ Last(decisions) = "Redispatch"
  /\ Range(branches) \cap Range(offered) = {}
  /\ queue' = branches
  /\ offered' = offered \o branches
  /\ pc' = "merge"
  /\ UNCHANGED <<integration, decisions>>

\* The level's work is dropped and the rewritten branches merged instead.
Rewrite(branches) ==
  /\ pc = "work" /\ Last(decisions) = "Rewrite"
  /\ integration' = Discarded(integration)
  /\ queue' = branches
  /\ offered' = branches
  /\ pc' = "merge"
  /\ UNCHANGED decisions

Next ==
  \/ MergeClean
  \/ MergeConflicts
  \/ Fail
  \/ MergesEnd
  \/ \E v \in Verifications : Verify(v)
  \/ \E branches \in BranchLists : Fix(branches) \/ Rewrite(branches)

\* Every git command, acceptance command and dispatched job ends:
\* run_acceptance has no timeout and relies on it.
Spec == Init /\ [][Next]_vars /\ WF_vars(Next)

-----------------------------------------------------------------------------
(* Properties.                                                             *)

\* What a level can cost: each verification but the last one spends a fix
\* cycle or a rewrite, and of those there are only so many (MAX_FIX_CYCLES,
\* MAX_REWRITES); neither allowance is spent on the other's failure.
Ended == pc \in {"accepted", "escalated"}
CostBounded ==
  /\ Len(decisions) = integration.fix_cycles_used + integration.rewrites_used
                        + (IF Ended THEN 1 ELSE 0)
  /\ Len(decisions) <= 1 + MAX_FIX_CYCLES + MAX_REWRITES

\* Fixing goes on only while the error set shrinks: over a run of verifications
\* each of which earned a fix cycle, the count falls every time and no code
\* ever comes back or comes up (is_converging).
FixesShrink ==
  LET vs == integration.verifications
  IN  \A j, k \in DOMAIN decisions :
        (j < k /\ \A m \in j..k : decisions[m] = "Redispatch")
          => vs[k].count < vs[j].count /\ vs[k].codes \subseteq vs[j].codes

\* A level is accepted only whole: the gate passed, every branch handed over
\* since the last discard is merged, none conflicted and nobody was called.
AcceptedMeansWhole ==
  pc = "accepted" =>
    /\ Last(integration.verifications).passed
    /\ integration.merged = offered
    /\ ~integration.escalation

\* merge_level attempts every branch, in order, conflicts or not: a verified
\* tree holds all that was offered but what git could not merge.
MergedInOrder ==
  \A i, j \in DOMAIN integration.merged, p, q \in DOMAIN offered :
    (i < j /\ integration.merged[i] = offered[p] /\ integration.merged[j] = offered[q])
      => p < q
EveryBranchAttempted ==
  pc \in {"verify", "work", "accepted", "escalated"} =>
    /\ Range(integration.merged) = Range(offered) \ Range(integration.conflicts)
    /\ MergedInOrder

\* The record of merges is of its type and leaves no branch out.
MergesAreComplete == TypeOK /\ EveryBranchAttempted

\* A conflict is terminal: no fix cycle and no rewrite is ever bought with one
\* on record, so discard_merges never forgets one.
ConflictIsTerminal ==
  [][integration.conflicts # <<>> =>
       /\ pc' # "work"
       /\ IsPrefix(integration.conflicts, integration'.conflicts)]_vars

\* The level comes to an end whatever the gate keeps finding.
LevelEnds == <>(pc \in {"accepted", "escalated", "failed"})
=============================================================================
