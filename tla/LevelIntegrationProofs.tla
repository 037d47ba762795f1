----------------------- MODULE LevelIntegrationProofs -----------------------
(***************************************************************************)
(* Theorems about one level's integration, for any caps, any error codes   *)
(* and any number of branches and verifications.                           *)
(***************************************************************************)
EXTENDS LevelIntegration, TLAPS

USE IntegrationPolicyAssumption, LevelIntegrationAssumption

-----------------------------------------------------------------------------
(* What record_verification does to the Integration.                       *)

IntegrationType ==
  [merged : Seq(Branches), conflicts : Seq(Branches),
   verifications : Seq(Verifications), fix_cycles_used : 0..MAX_FIX_CYCLES,
   rewrites_used : 0..MAX_REWRITES, escalation : BOOLEAN]

\* A decision that buys something keeps within its cap, and is never taken
\* with a conflict on record; Redispatch follows only a shrunk error set.
LEMMA DecideSound ==
  ASSUME NEW i \in IntegrationType, NEW v \in Verifications
  PROVE  /\ Decide(i, v) \in NextSteps
         /\ Decide(i, v) = "Redispatch" =>
              /\ i.fix_cycles_used < MAX_FIX_CYCLES
              /\ i.conflicts = <<>>
              /\ i.verifications # <<>> => IsConverging(Last(i.verifications), v)
         /\ Decide(i, v) = "Rewrite" =>
              i.rewrites_used < MAX_REWRITES /\ i.conflicts = <<>>
         /\ Decide(i, v) = "Accept" => v.passed /\ i.conflicts = <<>>
  BY DEF IntegrationType, Decide, NextSteps, Shifted, Stalled, IsConverging

LEMMA RecordedSound ==
  ASSUME NEW i \in IntegrationType, NEW v \in Verifications
  PROVE  LET r == Recorded(i, v)
             step == Decide(i, v)
         IN  /\ r \in IntegrationType
             /\ r.merged = i.merged /\ r.conflicts = i.conflicts
             /\ r.verifications = Append(i.verifications, v)
             /\ r.fix_cycles_used =
                  i.fix_cycles_used + (IF step = "Redispatch" THEN 1 ELSE 0)
             /\ r.rewrites_used =
                  i.rewrites_used + (IF step = "Rewrite" THEN 1 ELSE 0)
             /\ r.escalation = (i.escalation \/ step = "Escalate")
<1> DEFINE step == Decide(i, v)
           fixes == i.fix_cycles_used + (IF step = "Redispatch" THEN 1 ELSE 0)
           rewrites == i.rewrites_used + (IF step = "Rewrite" THEN 1 ELSE 0)
<1>1. Recorded(i, v) =
        [merged |-> i.merged, conflicts |-> i.conflicts,
         verifications |-> Append(i.verifications, v),
         fix_cycles_used |-> fixes, rewrites_used |-> rewrites,
         escalation |-> (i.escalation \/ step = "Escalate")]
  BY DEF Recorded, Integration
<1>2. fixes \in 0..MAX_FIX_CYCLES /\ rewrites \in 0..MAX_REWRITES
  BY DecideSound DEF IntegrationType
<1>3. Append(i.verifications, v) \in Seq(Verifications)
  BY DEF IntegrationType
<1> HIDE DEF step, fixes, rewrites
<1>4. Recorded(i, v) \in IntegrationType
  BY <1>1, <1>2, <1>3 DEF IntegrationType
<1> QED
  BY <1>1, <1>4 DEF step, fixes, rewrites

-----------------------------------------------------------------------------
(* The invariant: a decision per verification, the allowances add up, and  *)
(* while nothing has conflicted the offered branches are the merged ones   *)
(* and those still queued.                                                 *)

LevelInv ==
  /\ TypeOK
  /\ CostBounded
  /\ FixesShrink
  /\ AcceptedMeansWhole
  /\ Len(integration.verifications) = Len(decisions)
  /\ pc \notin {"merge", "failed"} => queue = <<>>
  /\ pc \in {"merge", "verify", "work"} => ~integration.escalation
  /\ pc = "work" => decisions # <<>> /\ Last(decisions) \in {"Redispatch", "Rewrite"}
  /\ pc = "work" => integration.conflicts = <<>>
  /\ integration.conflicts = <<>> => offered = integration.merged \o queue

LEMMA LevelInitial == Init => LevelInv
<1> SUFFICES ASSUME Init PROVE LevelInv
  OBVIOUS
<1>1. /\ integration.merged = <<>> /\ integration.conflicts = <<>>
      /\ integration.verifications = <<>> /\ integration.fix_cycles_used = 0
      /\ integration.rewrites_used = 0 /\ integration.escalation = FALSE
      /\ TypeOK
  BY DEF Init, NewIntegration, Integration, TypeOK
<1>2. queue \in Seq(Branches) /\ offered = queue /\ decisions = <<>> /\ pc = "merge"
  BY DEF Init
<1>3. offered = integration.merged \o queue
  BY <1>1, <1>2
<1>4. CostBounded /\ FixesShrink /\ AcceptedMeansWhole
  BY <1>1, <1>2 DEF CostBounded, Ended, FixesShrink, AcceptedMeansWhole
<1> QED
  BY <1>1, <1>2, <1>3, <1>4 DEF LevelInv

LEMMA TakeHead ==
  ASSUME NEW s \in Seq(Branches), NEW q \in Seq(Branches), q # <<>>
  PROVE  s \o q = Append(s, Head(q)) \o Tail(q)
  OBVIOUS

\* Steps that only merge, or only stop, leave the history alone.
LEMMA SameHistory ==
  ASSUME LevelInv, pc' \notin {"accepted", "escalated"}, ~Ended,
         decisions' = decisions,
         integration'.verifications = integration.verifications,
         integration'.fix_cycles_used = integration.fix_cycles_used,
         integration'.rewrites_used = integration.rewrites_used
  PROVE  CostBounded' /\ FixesShrink' /\ AcceptedMeansWhole'
<1>1. ~Ended'
  BY DEF Ended
<1>2. CostBounded'
  BY <1>1 DEF LevelInv, CostBounded
<1>3. FixesShrink'
  BY DEF LevelInv, FixesShrink
<1> QED
  BY <1>1, <1>2, <1>3 DEF AcceptedMeansWhole, Ended

LEMMA LevelStep == LevelInv /\ [Next]_vars => LevelInv'
<1> SUFFICES ASSUME LevelInv, [Next]_vars PROVE LevelInv'
  OBVIOUS
<1>0. integration \in IntegrationType /\ queue \in Seq(Branches) /\ offered \in Seq(Branches)
  BY DEF LevelInv, TypeOK, IntegrationType
<1>1. CASE MergeClean
  <2>1. Head(queue) \in Branches /\ Tail(queue) \in Seq(Branches)
    BY <1>0, <1>1 DEF MergeClean
  <2>2. integration' =
          [merged |-> Append(integration.merged, Head(queue)),
           conflicts |-> integration.conflicts,
           verifications |-> integration.verifications,
           fix_cycles_used |-> integration.fix_cycles_used,
           rewrites_used |-> integration.rewrites_used,
           escalation |-> integration.escalation]
    BY <1>0, <1>1 DEF MergeClean, Merged, IntegrationType
  <2>3. /\ integration' \in IntegrationType
        /\ integration'.merged = Append(integration.merged, Head(queue))
        /\ integration'.verifications = integration.verifications
        /\ integration'.fix_cycles_used = integration.fix_cycles_used
        /\ integration'.rewrites_used = integration.rewrites_used
        /\ integration'.conflicts = integration.conflicts
        /\ integration'.escalation = integration.escalation
    <3>1. Append(integration.merged, Head(queue)) \in Seq(Branches)
      BY <1>0, <2>1 DEF IntegrationType
    <3>2. integration' \in IntegrationType
      BY <1>0, <2>2, <3>1 DEF IntegrationType
    <3> QED
      BY <2>2, <3>1, <3>2
  <2>4. integration'.conflicts = <<>> => offered' = integration'.merged \o queue'
    <3>1. integration.merged \in Seq(Branches)
      BY <1>0 DEF IntegrationType
    <3>2. integration.merged \o queue = Append(integration.merged, Head(queue)) \o Tail(queue)
      BY <1>0, <1>1, <3>1, TakeHead DEF MergeClean
    <3> QED
      BY <1>1, <2>3, <3>2 DEF MergeClean, LevelInv
  <2>5. CostBounded' /\ FixesShrink' /\ AcceptedMeansWhole'
    BY <1>1, <2>3, SameHistory DEF MergeClean, Ended
  <2> QED
    BY <1>1, <2>1, <2>3, <2>4, <2>5 DEF MergeClean, LevelInv, TypeOK, IntegrationType
<1>2. CASE MergeConflicts
  <2>1. Head(queue) \in Branches /\ Tail(queue) \in Seq(Branches)
    BY <1>0, <1>2 DEF MergeConflicts
  <2>2. integration' =
          [merged |-> integration.merged,
           conflicts |-> Append(integration.conflicts, Head(queue)),
           verifications |-> integration.verifications,
           fix_cycles_used |-> integration.fix_cycles_used,
           rewrites_used |-> integration.rewrites_used,
           escalation |-> integration.escalation]
    BY <1>0, <1>2 DEF MergeConflicts, Conflicted, IntegrationType
  <2>3. /\ integration' \in IntegrationType
        /\ integration'.conflicts # <<>>
        /\ integration'.verifications = integration.verifications
        /\ integration'.fix_cycles_used = integration.fix_cycles_used
        /\ integration'.rewrites_used = integration.rewrites_used
        /\ integration'.merged = integration.merged
        /\ integration'.escalation = integration.escalation
    <3>1. /\ Append(integration.conflicts, Head(queue)) \in Seq(Branches)
          /\ Append(integration.conflicts, Head(queue)) # <<>>
      <4>1. integration.conflicts \in Seq(Branches)
        BY <1>0 DEF IntegrationType
      <4>2. /\ Append(integration.conflicts, Head(queue)) \in Seq(Branches)
            /\ Len(Append(integration.conflicts, Head(queue))) = Len(integration.conflicts) + 1
            /\ Len(integration.conflicts) \in Nat
        BY <2>1, <4>1
      <4>3. Append(integration.conflicts, Head(queue)) # <<>>
        BY <4>2
      <4> QED
        BY <4>2, <4>3
    <3>2. integration' \in IntegrationType
      BY <1>0, <2>2, <3>1 DEF IntegrationType
    <3> QED
      BY <2>2, <3>1, <3>2
  <2>4. CostBounded' /\ FixesShrink' /\ AcceptedMeansWhole'
    BY <1>2, <2>3, SameHistory DEF MergeConflicts, Ended
  <2> QED
    BY <1>2, <2>1, <2>3, <2>4 DEF MergeConflicts, LevelInv, TypeOK, IntegrationType
<1>3. CASE Fail
  <2>1. CostBounded' /\ FixesShrink' /\ AcceptedMeansWhole'
    BY <1>3, SameHistory DEF Fail, Ended
  <2> QED
    BY <1>3, <2>1 DEF Fail, LevelInv, TypeOK
<1>4. CASE MergesEnd
  <2>1. CostBounded' /\ FixesShrink' /\ AcceptedMeansWhole'
    BY <1>4, SameHistory DEF MergesEnd, Ended
  <2> QED
    BY <1>4, <2>1 DEF MergesEnd, LevelInv, TypeOK
<1>5. ASSUME NEW v \in Verifications, Verify(v) PROVE LevelInv'
  <2> DEFINE step == Decide(integration, v)
  <2>1. /\ pc = "verify" /\ integration' = Recorded(integration, v)
        /\ decisions' = Append(decisions, step)
        /\ pc' = CASE step = "Accept" -> "accepted"
                   [] step = "Escalate" -> "escalated"
                   [] OTHER -> "work"
        /\ queue' = queue /\ offered' = offered
    BY <1>5 DEF Verify
  <2>2. /\ step \in NextSteps
        /\ step = "Redispatch" =>
             /\ integration.fix_cycles_used < MAX_FIX_CYCLES
             /\ integration.conflicts = <<>>
             /\ integration.verifications # <<>> =>
                  IsConverging(Last(integration.verifications), v)
        /\ step = "Rewrite" =>
             integration.rewrites_used < MAX_REWRITES /\ integration.conflicts = <<>>
        /\ step = "Accept" => v.passed /\ integration.conflicts = <<>>
    BY <1>0, DecideSound
  <2>3. /\ integration' \in IntegrationType
        /\ integration'.merged = integration.merged
        /\ integration'.conflicts = integration.conflicts
        /\ integration'.verifications = Append(integration.verifications, v)
        /\ integration'.fix_cycles_used =
             integration.fix_cycles_used + (IF step = "Redispatch" THEN 1 ELSE 0)
        /\ integration'.rewrites_used =
             integration.rewrites_used + (IF step = "Rewrite" THEN 1 ELSE 0)
        /\ integration'.escalation = (integration.escalation \/ step = "Escalate")
    BY <1>0, <2>1, RecordedSound
  <2> HIDE DEF step
  <2>4. /\ decisions \in Seq(NextSteps) /\ integration.verifications \in Seq(Verifications)
        /\ Len(integration.verifications) = Len(decisions)
    BY DEF LevelInv, TypeOK
  <2>5. decisions' \in Seq(NextSteps) /\ Len(decisions') = Len(decisions) + 1
    BY <2>1, <2>2, <2>4
  <2>6. Len(integration'.verifications) = Len(decisions')
    BY <2>3, <2>4, <2>5
  <2>7. TypeOK'
    <3>1. pc' \in {"accepted", "escalated", "work"}
      BY <2>1
    <3>2. queue' \in Seq(Branches) /\ offered' \in Seq(Branches)
      BY <1>0, <2>1
    <3> QED
      BY <2>3, <2>5, <3>1, <3>2 DEF TypeOK, IntegrationType
  <2>8. CostBounded'
    <3>1. Len(decisions) = integration.fix_cycles_used + integration.rewrites_used
      BY <1>0, <2>1 DEF LevelInv, CostBounded, Ended, IntegrationType
    <3>2. Len(decisions') = integration'.fix_cycles_used + integration'.rewrites_used
                             + (IF step \in {"Accept", "Escalate"} THEN 1 ELSE 0)
      <4>1. integration.fix_cycles_used \in Int /\ integration.rewrites_used \in Int
        BY <1>0 DEF IntegrationType
      <4>2. /\ integration'.fix_cycles_used =
                 integration.fix_cycles_used + (IF step = "Redispatch" THEN 1 ELSE 0)
            /\ integration'.rewrites_used =
                 integration.rewrites_used + (IF step = "Rewrite" THEN 1 ELSE 0)
        BY <2>3
      <4>3. step \in {"Accept", "Redispatch", "Rewrite", "Escalate"}
        BY <2>2 DEF NextSteps
      <4> QED
        BY <2>5, <3>1, <4>1, <4>2, <4>3
    <3>3. Ended' <=> step \in {"Accept", "Escalate"}
      BY <2>1, <2>2 DEF Ended, NextSteps
    <3>4. /\ integration'.fix_cycles_used \in 0..MAX_FIX_CYCLES
          /\ integration'.rewrites_used \in 0..MAX_REWRITES
      BY <2>3 DEF IntegrationType
    <3> QED
      BY <3>2, <3>3, <3>4 DEF CostBounded
  <2>9. FixesShrink'
    <3> DEFINE vs == integration.verifications
               n == Len(decisions) + 1
    <3>1. DOMAIN decisions = 1..Len(decisions) /\ DOMAIN decisions' = 1..n
      BY <2>4, <2>5
    <3>2. /\ \A m \in 1..Len(decisions) :
               decisions'[m] = decisions[m] /\ integration'.verifications[m] = vs[m]
          /\ decisions'[n] = step /\ integration'.verifications[n] = v
      BY <2>1, <2>3, <2>4
    <3>3. \A m \in 1..Len(decisions) : vs[m] \in Verifications
      BY <2>4
    <3> SUFFICES ASSUME NEW j \in 1..n, NEW k \in 1..n, j < k,
                        \A m \in j..k : decisions'[m] = "Redispatch"
                 PROVE  /\ integration'.verifications[k].count < integration'.verifications[j].count
                        /\ integration'.verifications[k].codes \subseteq integration'.verifications[j].codes
      BY <3>1 DEF FixesShrink
    <3>4. Len(decisions) \in Nat
      BY <2>4
    <3>5. \A p, q \in 1..Len(decisions) :
            (p < q /\ \A m \in p..q : decisions[m] = "Redispatch")
              => vs[q].count < vs[p].count /\ vs[q].codes \subseteq vs[p].codes
      BY <3>1 DEF LevelInv, FixesShrink
    <3>6. CASE k \in 1..Len(decisions)
      <4>1. \A m \in j..k : m \in 1..Len(decisions) /\ decisions[m] = "Redispatch"
        BY <3>2, <3>4, <3>6
      <4>2. j \in 1..Len(decisions)
        BY <3>4, <3>6
      <4> QED
        BY <3>2, <3>5, <3>6, <4>1, <4>2
    <3>7. CASE k = n
      <4>1. j \in 1..Len(decisions) /\ Len(decisions) \in 1..Len(decisions)
        BY <3>4, <3>7
      <4>2. step = "Redispatch"
        BY <3>2, <3>4, <3>7
      <4>3. IsConverging(vs[Len(decisions)], v)
        BY <2>2, <2>4, <4>1, <4>2 DEF Last
      <4>4. v.count < vs[Len(decisions)].count /\ v.codes \subseteq vs[Len(decisions)].codes
        BY <4>3 DEF IsConverging, Novel
      <4>5. CASE j = Len(decisions)
        BY <3>2, <3>7, <4>1, <4>4, <4>5
      <4>6. CASE j < Len(decisions)
        <5>1. \A m \in j..Len(decisions) : decisions[m] = "Redispatch"
          BY <3>2, <3>4, <3>7, <4>1
        <5>2. /\ vs[Len(decisions)].count < vs[j].count
              /\ vs[Len(decisions)].codes \subseteq vs[j].codes
          BY <3>5, <4>1, <4>6, <5>1
        <5>3. v.count \in Int /\ vs[Len(decisions)].count \in Int /\ vs[j].count \in Int
          BY <3>3, <4>1 DEF Verifications
        <5> QED
          BY <3>2, <3>7, <4>1, <4>4, <5>2, <5>3
      <4> QED
        BY <3>4, <4>1, <4>5, <4>6
    <3> QED
      BY <3>4, <3>6, <3>7
  <2>10. queue = <<>> /\ ~integration.escalation
    BY <2>1 DEF LevelInv
  <2>11. integration.conflicts = <<>> => offered = integration.merged
    <3>1. integration.merged \o <<>> = integration.merged
      BY <1>0 DEF IntegrationType
    <3> QED
      BY <2>10, <3>1 DEF LevelInv
  <2>12. AcceptedMeansWhole'
    <3>1. SUFFICES ASSUME pc' = "accepted" PROVE AcceptedMeansWhole'
      BY DEF AcceptedMeansWhole
    <3>2. step = "Accept"
      BY <2>1, <2>2, <3>1 DEF NextSteps
    <3>3. Last(integration'.verifications) = v
      BY <2>3, <2>4 DEF Last
    <3> QED
      BY <2>1, <2>2, <2>3, <2>10, <2>11, <3>2, <3>3 DEF AcceptedMeansWhole
  <2>13. pc' = "work" => /\ decisions' # <<>>
                         /\ Last(decisions') \in {"Redispatch", "Rewrite"}
                         /\ integration'.conflicts = <<>>
                         /\ ~integration'.escalation
    <3>1. Last(decisions') = step
      BY <2>1, <2>4 DEF Last
    <3>2. pc' = "work" => step \in {"Redispatch", "Rewrite"}
      BY <2>1, <2>2 DEF NextSteps
    <3>3. decisions' # <<>>
      BY <2>1, <2>4
    <3>4. pc' = "work" => integration'.conflicts = <<>>
      BY <2>2, <2>3, <3>2
    <3>5. pc' = "work" => ~integration'.escalation
      BY <2>3, <2>10, <3>2
    <3> QED
      BY <3>1, <3>2, <3>3, <3>4, <3>5
  <2>14. pc' \in {"accepted", "escalated", "work"}
    BY <2>1
  <2>15. integration'.conflicts = <<>> => offered' = integration'.merged \o queue'
    BY <2>1, <2>3 DEF LevelInv
  <2> QED
    BY <2>1, <2>6, <2>7, <2>8, <2>9, <2>10, <2>12, <2>13, <2>14, <2>15 DEF LevelInv
<1>6. ASSUME NEW branches \in BranchLists, Fix(branches) PROVE LevelInv'
  <2>1. branches \in Seq(Branches)
    OBVIOUS
  <2>2. CostBounded' /\ FixesShrink' /\ AcceptedMeansWhole'
    BY <1>6, SameHistory DEF Fix, Ended
  <2>3. offered' = integration'.merged \o queue'
    <3>1. offered = integration.merged \o <<>>
      BY <1>6 DEF Fix, LevelInv
    <3>2. offered = integration.merged
      BY <1>0, <3>1 DEF IntegrationType
    <3> QED
      BY <1>6, <3>2 DEF Fix
  <2>4. offered' \in Seq(Branches)
    BY <1>0, <1>6, <2>1 DEF Fix
  <2> QED
    BY <1>6, <2>1, <2>2, <2>3, <2>4 DEF Fix, LevelInv, TypeOK
<1>7. ASSUME NEW branches \in BranchLists, Rewrite(branches) PROVE LevelInv'
  <2>1. branches \in Seq(Branches)
    OBVIOUS
  <2>2. integration' =
          [merged |-> <<>>,
           conflicts |-> <<>>,
           verifications |-> integration.verifications,
           fix_cycles_used |-> integration.fix_cycles_used,
           rewrites_used |-> integration.rewrites_used,
           escalation |-> integration.escalation]
    BY <1>0, <1>7 DEF Rewrite, Discarded, IntegrationType
  <2>3. /\ integration' \in IntegrationType
        /\ integration'.merged = <<>>
        /\ integration'.verifications = integration.verifications
        /\ integration'.fix_cycles_used = integration.fix_cycles_used
        /\ integration'.rewrites_used = integration.rewrites_used
        /\ integration'.escalation = integration.escalation
    <3>1. <<>> \in Seq(Branches)
      BY <1>0, <2>1 DEF IntegrationType
    <3>2. integration' \in IntegrationType
      BY <1>0, <2>2, <3>1 DEF IntegrationType
    <3> QED
      BY <2>2, <3>1, <3>2
  <2>4. CostBounded' /\ FixesShrink' /\ AcceptedMeansWhole'
    BY <1>7, <2>3, SameHistory DEF Rewrite, Ended
  <2>5. offered' = integration'.merged \o queue'
    BY <1>7, <2>1, <2>3 DEF Rewrite
  <2> QED
    BY <1>7, <2>1, <2>3, <2>4, <2>5 DEF Rewrite, LevelInv, TypeOK, IntegrationType
<1>8. CASE UNCHANGED vars
  BY <1>8 DEF vars, LevelInv, TypeOK, CostBounded, Ended, FixesShrink, AcceptedMeansWhole
<1> QED
  BY <1>1, <1>2, <1>3, <1>4, <1>5, <1>6, <1>7, <1>8 DEF Next

LEMMA LevelInvariant == Spec => []LevelInv
  BY LevelInitial, LevelStep, PTL DEF Spec

\* Type correctness, with both counters within their caps, whatever is verified.
THEOREM LevelTypeCorrect == Spec => []TypeOK
<1>1. LevelInv => TypeOK
  BY DEF LevelInv
<1> QED
  BY <1>1, LevelInvariant, PTL

\* A level is verified at most 1 + MAX_FIX_CYCLES + MAX_REWRITES times.
THEOREM LevelCostBounded == Spec => []CostBounded
<1>1. LevelInv => CostBounded
  BY DEF LevelInv
<1> QED
  BY <1>1, LevelInvariant, PTL

\* Consecutive fix cycles are bought only by an error set that shrinks.
THEOREM FixingShrinks == Spec => []FixesShrink
<1>1. LevelInv => FixesShrink
  BY DEF LevelInv
<1> QED
  BY <1>1, LevelInvariant, PTL

\* No level is accepted with a branch of it missing or a gate unpassed.
THEOREM AcceptanceIsWhole == Spec => []AcceptedMeansWhole
<1>1. LevelInv => AcceptedMeansWhole
  BY DEF LevelInv
<1> QED
  BY <1>1, LevelInvariant, PTL

\* A conflict, once recorded, is never bought off and never forgotten.
THEOREM ConflictsAreTerminal == Spec => ConflictIsTerminal
<1>1. LevelInv /\ [Next]_vars =>
        [integration.conflicts # <<>> =>
           /\ pc' # "work"
           /\ IsPrefix(integration.conflicts, integration'.conflicts)]_vars
  <2> SUFFICES ASSUME LevelInv, Next, integration.conflicts # <<>>
               PROVE  /\ pc' # "work"
                      /\ IsPrefix(integration.conflicts, integration'.conflicts)
    BY DEF vars
  <2>0. integration \in IntegrationType /\ pc # "work"
    BY DEF LevelInv, TypeOK, IntegrationType
  <2>1. pc' # "work"
    <3>1. ASSUME NEW v \in Verifications, Verify(v) PROVE pc' # "work"
      <4>1. Decide(integration, v) = "Escalate"
        BY DEF Decide
      <4> QED
        BY <3>1, <4>1 DEF Verify
    <3> QED
      BY <2>0, <3>1 DEF Next, MergeClean, MergeConflicts, Fail, MergesEnd, Fix, Rewrite
  <2>2. \/ integration'.conflicts = integration.conflicts
        \/ /\ integration'.conflicts = Append(integration.conflicts, Head(queue))
           /\ queue # <<>>
    <3>1. CASE MergeClean
      BY <2>0, <3>1 DEF MergeClean, Merged, IntegrationType
    <3>2. CASE MergeConflicts
      BY <2>0, <3>2 DEF MergeConflicts, Conflicted, IntegrationType
    <3>3. ASSUME NEW v \in Verifications, Verify(v)
          PROVE  integration'.conflicts = integration.conflicts
      BY <2>0, <3>3, RecordedSound DEF Verify
    <3> QED
      BY <2>0, <3>1, <3>2, <3>3 DEF Next, Fail, MergesEnd, Fix, Rewrite
  <2>3. IsPrefix(integration.conflicts, integration'.conflicts)
    BY <2>0, <2>2, SMTT(30) DEF IsPrefix, IntegrationType
  <2> QED
    BY <2>1, <2>3
<1> QED
  BY <1>1, LevelInvariant, PTL DEF Spec, ConflictIsTerminal

-----------------------------------------------------------------------------
(* Merging attempts every branch.                                          *)

Done == Len(offered) - Len(queue)
DoneOf(list, n) == {list[p] : p \in 1..n}

\* The queue is what is left of the offered branches, no branch of which is
\* offered twice; of those before it, the ones that are not recorded as
\* conflicts are merged, in order.
MergeInv ==
  /\ Done \in Nat
  /\ \A k \in 1..Len(queue) : queue[k] = offered[Done + k]
  /\ IsInjective(offered)
  /\ Range(integration.conflicts) \subseteq DoneOf(offered, Done)
  /\ Range(integration.merged) = DoneOf(offered, Done) \ Range(integration.conflicts)
  /\ MergedInOrder

LEMMA RangeOfAppend ==
  ASSUME NEW S, NEW s \in Seq(S), NEW x \in S
  PROVE  Range(Append(s, x)) = Range(s) \cup {x}
<1>1. /\ Len(s) \in Nat /\ DOMAIN s = 1..Len(s) /\ DOMAIN Append(s, x) = 1..(Len(s) + 1)
      /\ \A i \in 1..Len(s) : Append(s, x)[i] = s[i]
      /\ Append(s, x)[Len(s) + 1] = x
  OBVIOUS
<1>2. \A i : i \in 1..(Len(s) + 1) <=> i \in 1..Len(s) \/ i = Len(s) + 1
  BY <1>1
<1> QED
  BY <1>1, <1>2 DEF Range

LEMMA MergeInitial == Init => MergeInv
<1> SUFFICES ASSUME Init PROVE MergeInv
  OBVIOUS
<1>1. /\ integration.merged = <<>> /\ integration.conflicts = <<>>
      /\ queue \in Seq(Branches) /\ IsInjective(queue) /\ offered = queue
  BY DEF Init, NewIntegration, Integration
<1>2. Done = 0 /\ Len(queue) \in Nat
  BY <1>1 DEF Done
<1>3. Range(integration.merged) = {} /\ Range(integration.conflicts) = {}
  BY <1>1 DEF Range
<1>4. DoneOf(offered, 0) = {}
  BY DEF DoneOf
<1>5. MergedInOrder
  BY <1>1 DEF MergedInOrder
<1> QED
  BY <1>1, <1>2, <1>3, <1>4, <1>5 DEF MergeInv

\* The head of the queue is the first offered branch not attempted yet.
LEMMA NextBranch ==
  ASSUME LevelInv, MergeInv, queue # <<>>, queue' = Tail(queue), offered' = offered
  PROVE  /\ Done' = Done + 1 /\ Done + 1 \in 1..Len(offered)
         /\ Head(queue) = offered[Done + 1]
         /\ \A k \in 1..Len(queue') : queue'[k] = offered[(Done + 1) + k]
         /\ DoneOf(offered, Done + 1) = DoneOf(offered, Done) \cup {Head(queue)}
         /\ Head(queue) \notin DoneOf(offered, Done)
<1>1. /\ queue \in Seq(Branches) /\ Len(queue) \in Nat \ {0} /\ Len(queue') = Len(queue) - 1
      /\ Head(queue) = queue[1] /\ \A k \in 1..(Len(queue) - 1) : queue'[k] = queue[k + 1]
      /\ offered \in Seq(Branches) /\ Len(offered) \in Nat
  BY DEF LevelInv, TypeOK
<1>2. PICK n : n = Done
  OBVIOUS
<1>3. n \in Nat /\ n = Len(offered) - Len(queue)
  BY <1>2 DEF MergeInv, Done
<1>4. n + 1 \in 1..Len(offered)
  BY <1>1, <1>3
<1>5. Done' = n + 1
  BY <1>1, <1>3 DEF Done
<1>6. \A k \in 1..Len(queue) : queue[k] = offered[n + k]
  BY <1>2 DEF MergeInv
<1>7. Head(queue) = offered[n + 1]
  BY <1>1, <1>6
<1>8. ASSUME NEW k \in 1..Len(queue') PROVE queue'[k] = offered[(n + 1) + k]
  <2>1. k \in 1..(Len(queue) - 1) /\ k + 1 \in 1..Len(queue) /\ n + (k + 1) = (n + 1) + k
    BY <1>1, <1>3
  <2> QED
    BY <1>1, <1>6, <2>1
<1>9. \A p : p \in 1..(n + 1) <=> p \in 1..n \/ p = n + 1
  BY <1>3
<1>10. DoneOf(offered, n + 1) = DoneOf(offered, n) \cup {Head(queue)}
  BY <1>7, <1>9 DEF DoneOf
<1>11. Head(queue) \notin DoneOf(offered, n)
  <2> SUFFICES ASSUME NEW p \in 1..n, offered[p] = offered[n + 1] PROVE FALSE
    BY <1>7 DEF DoneOf
  <2>1. p \in DOMAIN offered /\ n + 1 \in DOMAIN offered /\ p # n + 1
    BY <1>1, <1>3, <1>4
  <2> QED
    BY <2>1 DEF MergeInv, IsInjective
<1> QED
  BY <1>2, <1>4, <1>5, <1>7, <1>8, <1>10, <1>11

\* A branch merged behind those attempted before it keeps the order.
LEMMA OrderKept ==
  ASSUME LevelInv, MergeInv, queue # <<>>, queue' = Tail(queue), offered' = offered,
         integration'.merged = Append(integration.merged, Head(queue))
  PROVE  MergedInOrder'
<1> DEFINE m == integration.merged
<1>1. PICK n : n = Done
  OBVIOUS
<1>2. /\ n \in Nat /\ Head(queue) = offered[n + 1] /\ n + 1 \in 1..Len(offered)
      /\ Head(queue) \notin DoneOf(offered, n)
  BY <1>1, NextBranch DEF MergeInv
<1>3. /\ m \in Seq(Branches) /\ offered \in Seq(Branches) /\ Len(offered) \in Nat
      /\ Head(queue) \in Branches
  BY DEF LevelInv, TypeOK
<1>4. /\ Len(m) \in Nat /\ DOMAIN m = 1..Len(m) /\ DOMAIN integration'.merged = 1..(Len(m) + 1)
      /\ \A i \in 1..Len(m) : integration'.merged[i] = m[i]
      /\ integration'.merged[Len(m) + 1] = Head(queue)
  BY <1>3
<1>5. IsInjective(offered) /\ DOMAIN offered = 1..Len(offered)
  BY <1>3 DEF MergeInv
<1>6. \A i \in 1..Len(m) : \E p \in 1..n : m[i] = offered[p]
  <2>1. Range(m) \subseteq DoneOf(offered, n)
    BY <1>1 DEF MergeInv
  <2> QED
    BY <1>4, <2>1 DEF Range, DoneOf
<1>7. \A i, j \in 1..Len(m), p, q \in DOMAIN offered :
         (i < j /\ m[i] = offered[p] /\ m[j] = offered[q]) => p < q
  BY <1>4 DEF MergeInv, MergedInOrder
<1> HIDE DEF m
<1> SUFFICES ASSUME NEW i \in 1..(Len(m) + 1), NEW j \in 1..(Len(m) + 1),
                    NEW p \in DOMAIN offered, NEW q \in DOMAIN offered,
                    i < j, integration'.merged[i] = offered[p], integration'.merged[j] = offered[q]
             PROVE  p < q
  BY <1>4 DEF MergedInOrder
<1>8. i \in 1..Len(m) /\ m[i] = offered[p]
  BY <1>4
<1>9. CASE j \in 1..Len(m)
  BY <1>4, <1>7, <1>8, <1>9
<1>10. CASE j = Len(m) + 1
  <2>1. offered[q] = offered[n + 1]
    BY <1>2, <1>4, <1>10
  <2>2. q = n + 1
    BY <1>2, <1>5, <2>1 DEF IsInjective
  <2>3. PICK r \in 1..n : m[i] = offered[r]
    BY <1>6, <1>8
  <2>4. r \in DOMAIN offered
    BY <1>2, <1>3, <1>5, <2>3
  <2>5. p = r
    BY <1>5, <1>8, <2>3, <2>4 DEF IsInjective
  <2> QED
    BY <1>2, <2>2, <2>5
<1> QED
  BY <1>4, <1>9, <1>10

LEMMA MergeStep == LevelInv /\ LevelInv' /\ MergeInv /\ [Next]_vars => MergeInv'
<1> SUFFICES ASSUME LevelInv, LevelInv', MergeInv, [Next]_vars PROVE MergeInv'
  OBVIOUS
<1>0. /\ integration \in IntegrationType /\ queue \in Seq(Branches) /\ offered \in Seq(Branches)
      /\ integration.merged \in Seq(Branches) /\ integration.conflicts \in Seq(Branches)
  BY DEF LevelInv, TypeOK, IntegrationType
<1>1. CASE MergeClean
  <2>1. /\ queue # <<>> /\ queue' = Tail(queue) /\ offered' = offered
        /\ integration'.merged = Append(integration.merged, Head(queue))
        /\ integration'.conflicts = integration.conflicts
    BY <1>0, <1>1 DEF MergeClean, Merged, IntegrationType
  <2>2. PICK n : n = Done
    OBVIOUS
  <2>3. /\ Done' = n + 1 /\ n \in Nat /\ n + 1 \in Nat
        /\ \A k \in 1..Len(queue') : queue'[k] = offered[(n + 1) + k]
        /\ DoneOf(offered, n + 1) = DoneOf(offered, n) \cup {Head(queue)}
        /\ Head(queue) \notin DoneOf(offered, n)
    BY <2>1, <2>2, NextBranch DEF MergeInv
  <2>4. Head(queue) \in Branches
    BY <1>0, <2>1
  <2>5. Range(integration'.merged) = Range(integration.merged) \cup {Head(queue)}
    BY <1>0, <2>1, <2>4, RangeOfAppend
  <2>6. /\ Range(integration.conflicts) \subseteq DoneOf(offered, n)
        /\ Range(integration.merged) = DoneOf(offered, n) \ Range(integration.conflicts)
        /\ IsInjective(offered)
    BY <2>2 DEF MergeInv
  <2>7. MergedInOrder'
    BY <2>1, OrderKept
  <2>8. /\ Range(integration'.conflicts) \subseteq DoneOf(offered, n + 1)
        /\ Range(integration'.merged) = DoneOf(offered, n + 1) \ Range(integration'.conflicts)
    BY <2>1, <2>3, <2>5, <2>6
  <2> QED
    BY <2>1, <2>3, <2>6, <2>7, <2>8 DEF MergeInv
<1>2. CASE MergeConflicts
  <2>1. /\ queue # <<>> /\ queue' = Tail(queue) /\ offered' = offered
        /\ integration'.merged = integration.merged
        /\ integration'.conflicts = Append(integration.conflicts, Head(queue))
    BY <1>0, <1>2 DEF MergeConflicts, Conflicted, IntegrationType
  <2>2. PICK n : n = Done
    OBVIOUS
  <2>3. /\ Done' = n + 1 /\ n \in Nat /\ n + 1 \in Nat
        /\ \A k \in 1..Len(queue') : queue'[k] = offered[(n + 1) + k]
        /\ DoneOf(offered, n + 1) = DoneOf(offered, n) \cup {Head(queue)}
        /\ Head(queue) \notin DoneOf(offered, n)
    BY <2>1, <2>2, NextBranch DEF MergeInv
  <2>4. Head(queue) \in Branches
    BY <1>0, <2>1
  <2>5. Range(integration'.conflicts) = Range(integration.conflicts) \cup {Head(queue)}
    BY <1>0, <2>1, <2>4, RangeOfAppend
  <2>6. /\ Range(integration.conflicts) \subseteq DoneOf(offered, n)
        /\ Range(integration.merged) = DoneOf(offered, n) \ Range(integration.conflicts)
        /\ IsInjective(offered) /\ MergedInOrder
    BY <2>2 DEF MergeInv
  <2>7. MergedInOrder'
    BY <2>1, <2>6 DEF MergedInOrder
  <2>8. /\ Range(integration'.conflicts) \subseteq DoneOf(offered, n + 1)
        /\ Range(integration'.merged) = DoneOf(offered, n + 1) \ Range(integration'.conflicts)
    BY <2>1, <2>3, <2>5, <2>6
  <2> QED
    BY <2>1, <2>3, <2>6, <2>7, <2>8 DEF MergeInv
<1>3. ASSUME queue' = queue, offered' = offered, integration'.merged = integration.merged,
             integration'.conflicts = integration.conflicts
      PROVE  MergeInv'
  BY <1>3 DEF MergeInv, MergedInOrder, Done
<1>4. CASE Fail \/ MergesEnd \/ UNCHANGED vars
  BY <1>3, <1>4 DEF Fail, MergesEnd, vars
<1>5. ASSUME NEW v \in Verifications, Verify(v) PROVE MergeInv'
  BY <1>0, <1>3, <1>5, RecordedSound DEF Verify
<1>6. ASSUME NEW branches \in BranchLists, Fix(branches) PROVE MergeInv'
  <2>1. /\ branches \in Seq(Branches) /\ IsInjective(branches)
        /\ Range(branches) \cap Range(offered) = {}
        /\ queue' = branches /\ offered' = offered \o branches /\ integration' = integration
        /\ queue = <<>>
    BY <1>6 DEF Fix, LevelInv
  <2>2. PICK n : n = Len(offered)
    OBVIOUS
  <2>3. /\ n \in Nat /\ Len(branches) \in Nat /\ Len(offered') = n + Len(branches)
        /\ \A p \in 1..n : offered'[p] = offered[p]
        /\ \A k \in 1..Len(branches) : offered'[n + k] = branches[k]
        /\ DOMAIN offered = 1..n /\ DOMAIN branches = 1..Len(branches)
        /\ DOMAIN offered' = 1..(n + Len(branches))
    BY <1>0, <2>1, <2>2
  <2>4. Done = n /\ Done' = n
    BY <2>1, <2>2, <2>3 DEF Done
  <2>5. DoneOf(offered', n) = DoneOf(offered, n)
    BY <2>3 DEF DoneOf
  <2>6. \A p \in 1..(n + Len(branches)) :
          \/ p \in 1..n /\ offered'[p] = offered[p]
          \/ p - n \in 1..Len(branches) /\ offered'[p] = branches[p - n]
    <3> SUFFICES ASSUME NEW p \in 1..(n + Len(branches)), p \notin 1..n
                 PROVE  p - n \in 1..Len(branches) /\ offered'[p] = branches[p - n]
      BY <2>3
    <3>1. p - n \in 1..Len(branches) /\ n + (p - n) = p
      BY <2>3
    <3> QED
      BY <2>3, <3>1
  <2>7. \A p \in 1..n, k \in 1..Len(branches) : offered[p] # branches[k]
    BY <2>1, <2>3 DEF Range
  <2>8. IsInjective(offered) /\ MergedInOrder
    BY DEF MergeInv
  <2>9. IsInjective(offered')
    <3> SUFFICES ASSUME NEW p \in 1..(n + Len(branches)), NEW q \in 1..(n + Len(branches)),
                        offered'[p] = offered'[q]
                 PROVE  p = q
      BY <2>3 DEF IsInjective
    <3>1. CASE p \in 1..n /\ q \in 1..n
      BY <2>3, <2>8, <3>1 DEF IsInjective
    <3>2. CASE p \notin 1..n /\ q \notin 1..n
      <4>1. /\ p - n \in 1..Len(branches) /\ q - n \in 1..Len(branches)
            /\ branches[p - n] = branches[q - n]
        BY <2>6, <3>2
      <4>2. p - n = q - n
        BY <2>1, <2>3, <4>1 DEF IsInjective
      <4> QED
        BY <2>3, <4>2
    <3>3. CASE p \in 1..n /\ q \notin 1..n
      <4>1. q - n \in 1..Len(branches) /\ offered'[q] = branches[q - n]
        BY <2>6, <3>3
      <4>2. offered'[p] = offered[p]
        BY <2>3, <3>3
      <4>3. offered[p] # branches[q - n]
        BY <2>7, <3>3, <4>1
      <4> QED
        BY <4>1, <4>2, <4>3
    <3>4. CASE p \notin 1..n /\ q \in 1..n
      <4>1. p - n \in 1..Len(branches) /\ offered'[p] = branches[p - n]
        BY <2>6, <3>4
      <4>2. offered'[q] = offered[q]
        BY <2>3, <3>4
      <4>3. offered[q] # branches[p - n]
        BY <2>7, <3>4, <4>1
      <4> QED
        BY <4>1, <4>2, <4>3
    <3> QED
      BY <3>1, <3>2, <3>3, <3>4
  <2>10. \A i \in DOMAIN integration.merged : \E p \in 1..n : integration.merged[i] = offered[p]
    <3>1. Range(integration.merged) \subseteq DoneOf(offered, n)
      BY <2>4 DEF MergeInv
    <3> QED
      BY <3>1 DEF Range, DoneOf
  <2>11. \A i \in DOMAIN integration.merged, p \in DOMAIN offered' :
            integration.merged[i] = offered'[p] => p \in DOMAIN offered /\ offered'[p] = offered[p]
    BY <2>3, <2>6, <2>7, <2>10
  <2>12. MergedInOrder'
    BY <2>1, <2>8, <2>11 DEF MergedInOrder
  <2> QED
    BY <2>1, <2>3, <2>4, <2>5, <2>9, <2>12 DEF MergeInv
<1>7. ASSUME NEW branches \in BranchLists, Rewrite(branches) PROVE MergeInv'
  <2>1. /\ branches \in Seq(Branches) /\ IsInjective(branches)
        /\ queue' = branches /\ offered' = branches
        /\ integration'.merged = <<>> /\ integration'.conflicts = <<>>
    BY <1>0, <1>7 DEF Rewrite, Discarded, IntegrationType
  <2>2. Done' = 0 /\ Len(branches) \in Nat
    BY <2>1 DEF Done
  <2>3. Range(integration'.merged) = {} /\ Range(integration'.conflicts) = {}
    BY <2>1 DEF Range
  <2>4. DoneOf(offered', 0) = {}
    BY DEF DoneOf
  <2>5. MergedInOrder'
    BY <2>1 DEF MergedInOrder
  <2> QED
    BY <2>1, <2>2, <2>3, <2>4, <2>5 DEF MergeInv
<1> QED
  BY <1>1, <1>2, <1>4, <1>5, <1>6, <1>7 DEF Next

\* However many cycles it takes and whatever conflicts, a verified tree holds,
\* in order, every branch handed over that git could merge (merge_level).
THEOREM MergesStayComplete == Spec => []MergesAreComplete
<1>1. LevelInv /\ MergeInv => MergesAreComplete
  <2> SUFFICES ASSUME LevelInv, MergeInv PROVE MergesAreComplete
    OBVIOUS
  <2>1. ASSUME pc \in {"verify", "work", "accepted", "escalated"}
        PROVE  Range(integration.merged) = Range(offered) \ Range(integration.conflicts)
    <3>1. queue = <<>> /\ offered \in Seq(Branches)
      BY <2>1 DEF LevelInv, TypeOK
    <3>2. Done = Len(offered)
      BY <3>1 DEF Done
    <3>3. Range(offered) = DoneOf(offered, Len(offered))
      BY <3>1 DEF Range, DoneOf
    <3> QED
      BY <3>2, <3>3 DEF MergeInv
  <2> QED
    BY <2>1 DEF MergesAreComplete, EveryBranchAttempted, LevelInv, MergeInv
<1>2. LevelInv /\ [Next]_vars => LevelInv'
  BY LevelStep
<1> QED
  BY LevelInitial, MergeInitial, <1>1, <1>2, MergeStep, PTL DEF Spec
=============================================================================
