-------------------------- MODULE IntegrationPolicy --------------------------
(***************************************************************************)
(* supervisor/integrate.rs: the value Integration, and the policy of       *)
(* record_verification that decides what happens to a level next.  Pure:   *)
(* LevelIntegration.tla and Build.tla drive it.                            *)
(*                                                                         *)
(* A verification is what one acceptance run leaves: whether the command   *)
(* passed, how many distinct diagnostic lines it printed and the set of    *)
(* their codes.  Command text, output and prose reasons are left out.      *)
(***************************************************************************)
EXTENDS Integers, Sequences, SequencesExt

CONSTANTS
  MAX_FIX_CYCLES,
  MAX_REWRITES,
  Codes,            \* error codes a log may carry
  MaxErrors         \* the most diagnostics one log may carry

ASSUME IntegrationPolicyAssumption ==
  MAX_FIX_CYCLES \in Nat /\ MAX_REWRITES \in Nat /\ MaxErrors \in Nat

\* scan_errors: a counted line contributes a code, the generic one if no other
\* is found in it, so the count is zero exactly when the set is empty.  A log
\* with diagnostics may still pass, and one without may fail.
Verifications ==
  {v \in [passed : BOOLEAN, count : 0..MaxErrors, codes : SUBSET Codes] :
     v.count = 0 <=> v.codes = {}}

Integration(merged, conflicts, verifications, fixes, rewrites, escalated) ==
  [merged |-> merged, conflicts |-> conflicts, verifications |-> verifications,
   fix_cycles_used |-> fixes, rewrites_used |-> rewrites, escalation |-> escalated]

NewIntegration == Integration(<<>>, <<>>, <<>>, 0, 0, FALSE)

Novel(previous, current) == current.codes \ previous.codes

IsConvergingByCount(previous, current) == current.count < previous.count

\* A new code is a change of shape; otherwise the count has to fall.
IsConverging(previous, current) ==
  Novel(previous, current) = {} /\ current.count < previous.count

\* The shape is compared with the last verification, whatever was done since.
Stalled(i, v) == i.verifications # <<>> /\ ~IsConverging(Last(i.verifications), v)
Shifted(i, v) == Stalled(i, v) /\ Novel(Last(i.verifications), v) # {}

NextSteps == {"Accept", "Redispatch", "Rewrite", "Escalate"}

DecidePassFirst(i, v) ==
  CASE v.passed -> "Accept"
    [] i.conflicts # <<>> -> "Escalate"
    [] Shifted(i, v) -> IF i.rewrites_used >= MAX_REWRITES THEN "Escalate" ELSE "Rewrite"
    [] Stalled(i, v) -> "Escalate"
    [] i.fix_cycles_used >= MAX_FIX_CYCLES -> "Escalate"
    [] OTHER -> "Redispatch"

DecideConflictsLast(i, v) ==
  CASE v.passed /\ i.conflicts = <<>> -> "Accept"
    [] Shifted(i, v) -> IF i.rewrites_used >= MAX_REWRITES THEN "Escalate" ELSE "Rewrite"
    [] Stalled(i, v) \/ i.conflicts # <<>> -> "Escalate"
    [] i.fix_cycles_used >= MAX_FIX_CYCLES -> "Escalate"
    [] OTHER -> "Redispatch"

DecideOneRewriteMore(i, v) ==
  IF i.conflicts # <<>> THEN "Escalate"
  ELSE IF v.passed THEN "Accept"
  ELSE IF Shifted(i, v)
       THEN IF i.rewrites_used > MAX_REWRITES THEN "Escalate" ELSE "Rewrite"
  ELSE IF Stalled(i, v) \/ i.fix_cycles_used >= MAX_FIX_CYCLES THEN "Escalate"
  ELSE "Redispatch"

\* record_verification: the order of the checks is the policy.
Decide(i, v) ==
  IF i.conflicts # <<>> THEN "Escalate"
  ELSE IF v.passed THEN "Accept"
  ELSE IF Shifted(i, v)
       THEN IF i.rewrites_used >= MAX_REWRITES THEN "Escalate" ELSE "Rewrite"
  ELSE IF Stalled(i, v) \/ i.fix_cycles_used >= MAX_FIX_CYCLES THEN "Escalate"
  ELSE "Redispatch"

Recorded(i, v) ==
  LET step == Decide(i, v)
      one(s) == IF step = s THEN 1 ELSE 0
  IN  Integration(i.merged, i.conflicts, Append(i.verifications, v),
                  i.fix_cycles_used + one("Redispatch"),
                  i.rewrites_used + one("Rewrite"),
                  i.escalation \/ step = "Escalate")

\* merge_level, one branch: merged, or recorded as a conflict and aborted.
Merged(i, branch) == [i EXCEPT !.merged = Append(@, branch)]
Conflicted(i, branch) == [i EXCEPT !.conflicts = Append(@, branch)]

\* discard_merges: the verification history is kept.
Discarded(i) == [i EXCEPT !.merged = <<>>, !.conflicts = <<>>]
=============================================================================
