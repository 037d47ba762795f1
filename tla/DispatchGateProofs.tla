-------------------------- MODULE DispatchGateProofs --------------------------
(***************************************************************************)
(* Theorems about the dispatch gate, for any number of items and any       *)
(* configured limit.                                                       *)
(***************************************************************************)
EXTENDS DispatchGate, FiniteSetTheorems, TLAPS

USE DispatchGateAssumption DEF Items

\* Cardinalities of sets of items, as used below.
LEMMA ItemSets ==
  ASSUME NEW S \in SUBSET Items
  PROVE  /\ IsFiniteSet(S) /\ Cardinality(S) \in Nat
         /\ \A T \in SUBSET S : Cardinality(T) <= Cardinality(S)
         /\ \A x \in Items \ S : Cardinality(S \cup {x}) = Cardinality(S) + 1
         /\ \A x \in S : Cardinality(S \ {x}) = Cardinality(S) - 1
<1>1. IsFiniteSet(Items)
  BY FS_Interval
<1>2. IsFiniteSet(S)
  BY <1>1, FS_Subset
<1>3. Cardinality(S) \in Nat
  BY <1>2, FS_CardinalityType
<1>4. \A T \in SUBSET S : Cardinality(T) <= Cardinality(S)
  BY <1>2, FS_Subset
<1>5. \A x \in Items \ S : Cardinality(S \cup {x}) = Cardinality(S) + 1
  BY <1>2, FS_AddElement
<1>6. \A x \in S : Cardinality(S \ {x}) = Cardinality(S) - 1
  BY <1>2, FS_RemoveElement
<1> QED
  BY <1>2, <1>3, <1>4, <1>5, <1>6

\* The threads not yet spawned are the last ones; an item has an outcome from
\* the end of its dispatch on; and what has been joined is a prefix of the
\* level, finished and labelled as it should be.
GateInv ==
  /\ TypeOK
  /\ \A i \in Items : thread[i] = "unborn" <=> i > spawned
  /\ \A i \in Items : outcome[i] # NoOutcome <=> thread[i] \in {"release", "finished"}
  /\ Len(executions) <= ItemCount
  /\ \A k \in 1..Len(executions) :
       thread[k] = "finished" /\ executions[k] = [item_id |-> k, result |-> outcome[k]]
  /\ PermitsConserved
  /\ NoLostWakeup

LEMMA GateInitial == Init => GateInv
<1> SUFFICES ASSUME Init PROVE GateInv
  OBVIOUS
<1>1. At("waiting") = {} /\ Holding = {}
  BY DEF Init, At, Holding
<1>2. PermitsConserved /\ NoLostWakeup
  BY <1>1, FS_EmptySet DEF Init, PermitsConserved, NoLostWakeup, Permits
<1> QED
  BY <1>2 DEF Init, GateInv, TypeOK, Permits, ThreadStates

\* What is left to check of a step once it is known to change no Holding,
\* waiting or woken thread and no permit.
LEMMA SameSets ==
  ASSUME GateInv, UNCHANGED <<max_concurrent, free, Holding, At("waiting"), At("woken")>>
  PROVE  PermitsConserved' /\ NoLostWakeup'
  BY DEF GateInv, PermitsConserved, NoLostWakeup, Permits

LEMMA GateStep == GateInv /\ [Next]_vars => GateInv'
<1> SUFFICES ASSUME GateInv, [Next]_vars PROVE GateInv'
  OBVIOUS
<1> USE DEF ThreadStates
<1>a. /\ Holding \in SUBSET Items /\ At("waiting") \in SUBSET Items
      /\ At("woken") \in SUBSET Items
  BY DEF Holding, At
<1>1. CASE Spawn
  <2>1. spawned + 1 \in Items /\ thread[spawned + 1] = "unborn"
    BY <1>1 DEF Spawn, GateInv, TypeOK
  <2>2. UNCHANGED <<Holding, At("waiting"), At("woken")>>
    BY <1>1, <2>1 DEF Spawn, Go, GateInv, TypeOK, Holding, At
  <2>3. PermitsConserved' /\ NoLostWakeup'
    BY <1>1, <2>2, SameSets DEF Spawn
  <2> QED
    BY <1>1, <2>1, <2>3 DEF Spawn, Go, GateInv, TypeOK
<1>2. CASE Join
  <2>1. UNCHANGED <<Holding, At("waiting"), At("woken")>>
    BY <1>2 DEF Join, Holding, At
  <2>2. PermitsConserved' /\ NoLostWakeup'
    BY <1>2, <2>1, SameSets DEF Join
  <2>3. /\ Len(executions) + 1 \in Items
        /\ outcome[Len(executions) + 1] \in Outcomes
    BY <1>2 DEF Join, GateInv, TypeOK
  <2>4. /\ executions' \in Seq([item_id : Items, result : Outcomes])
        /\ Len(executions') = Len(executions) + 1
        /\ executions'[Len(executions) + 1] =
             [item_id |-> Len(executions) + 1, result |-> outcome[Len(executions) + 1]]
        /\ \A k \in 1..Len(executions) : executions'[k] = executions[k]
    BY <1>2, <2>3 DEF Join, Joined, GateInv, TypeOK
  <2> QED
    BY <1>2, <2>2, <2>3, <2>4 DEF Join, GateInv, TypeOK
<1>3. ASSUME NEW i \in Items, Sleep(i) PROVE GateInv'
  <2>1. UNCHANGED Holding
    BY <1>3 DEF Sleep, Go, GateInv, TypeOK, Holding, At
  <2>2. At("woken")' \in SUBSET Items
    BY DEF At
  <2>3. PermitsConserved'
    BY <1>3, <2>1 DEF Sleep, GateInv, PermitsConserved, Permits
  <2>4. NoLostWakeup'
    BY <1>3, <2>2, ItemSets DEF Sleep, NoLostWakeup
  <2> QED
    BY <1>3, <2>3, <2>4 DEF Sleep, Go, GateInv, TypeOK
<1>4. ASSUME NEW i \in Items, Take(i) PROVE GateInv'
  <2>1. i \notin Holding /\ Holding' = Holding \cup {i}
    BY <1>4 DEF Take, Go, GateInv, TypeOK, Holding, At
  <2>2. UNCHANGED At("waiting") /\ At("woken")' = At("woken") \ {i}
    BY <1>4 DEF Take, Go, GateInv, TypeOK, At
  <2>3. Cardinality(Holding') = Cardinality(Holding) + 1 /\ Cardinality(Holding) \in Nat
    BY <1>a, <2>1, ItemSets
  <2>4. PermitsConserved'
    BY <1>4, <2>3 DEF Take, GateInv, TypeOK, PermitsConserved, Permits
  <2>5. /\ Cardinality(At("woken")) \in Nat
        /\ Cardinality(At("woken")') >= Cardinality(At("woken")) - 1
    <3>1. CASE i \in At("woken")
      BY <1>a, <2>2, <3>1, ItemSets
    <3>2. CASE i \notin At("woken")
      <4>1. At("woken")' = At("woken")
        BY <2>2, <3>2
      <4> QED
        BY <1>a, <4>1, ItemSets
    <3> QED
      BY <3>1, <3>2
  <2>6. Cardinality(At("woken")') \in Nat
    <3>1. At("woken")' \in SUBSET Items
      BY DEF At
    <3> QED
      BY <3>1, ItemSets
  <2>7. NoLostWakeup'
    BY <1>4, <2>2, <2>5, <2>6 DEF Take, GateInv, TypeOK, NoLostWakeup
  <2> QED
    BY <1>4, <2>4, <2>7 DEF Take, Go, GateInv, TypeOK
<1>5. ASSUME NEW i \in Items, Finish(i) PROVE GateInv'
  <2>1. UNCHANGED <<Holding, At("waiting"), At("woken")>>
    BY <1>5 DEF Finish, Go, GateInv, TypeOK, Holding, At
  <2>2. PermitsConserved' /\ NoLostWakeup'
    BY <1>5, <2>1, SameSets DEF Finish
  <2>3. PICK o \in Outcomes : outcome' = [outcome EXCEPT ![i] = o]
    BY <1>5 DEF Finish
  <2>4. thread[i] = "running" /\ thread' = [thread EXCEPT ![i] = "release"]
    BY <1>5 DEF Finish, Go
  <2>5. \A j \in Items : outcome'[j] # NoOutcome <=> thread'[j] \in {"release", "finished"}
    BY <2>3, <2>4 DEF GateInv, TypeOK
  <2>6. /\ outcome' \in [Items -> Outcomes \cup {NoOutcome}]
        /\ thread' \in [Items -> ThreadStates]
        /\ \A j \in Items : thread'[j] = "unborn" <=> j > spawned
    BY <2>3, <2>4 DEF GateInv, TypeOK
  <2>7. \A k \in 1..Len(executions) : k \in Items /\ k # i
    <3>1. Len(executions) \in Nat /\ Len(executions) <= ItemCount
      BY DEF GateInv, TypeOK
    <3>2. \A k \in 1..Len(executions) : thread[k] = "finished"
      BY DEF GateInv
    <3>3. \A k \in 1..Len(executions) : k # i
      BY <2>4, <3>2
    <3> QED
      BY <3>1, <3>3
  <2>8. \A k \in 1..Len(executions) : outcome'[k] = outcome[k] /\ thread'[k] = thread[k]
    BY <2>3, <2>4, <2>7 DEF GateInv, TypeOK
  <2> QED
    BY <1>5, <2>2, <2>5, <2>6, <2>8 DEF Finish, GateInv, TypeOK
<1>6. ASSUME NEW i \in Items, Release(i) PROVE GateInv'
  <2>1. Holding' = Holding \ {i} /\ i \in Holding
    BY <1>6 DEF Release, Go, GateInv, TypeOK, Holding, At
  <2>2. Cardinality(Holding') = Cardinality(Holding) - 1 /\ Cardinality(Holding) \in Nat
    BY <1>a, <2>1, ItemSets
  <2>3. PermitsConserved'
    BY <1>6, <2>2 DEF Release, GateInv, TypeOK, PermitsConserved, Permits
  <2>4. NoLostWakeup'
    <3>1. CASE At("waiting") = {}
      <4>1. At("waiting")' = {}
        BY <1>6, <3>1 DEF Release, Go, GateInv, TypeOK, At
      <4> QED
        BY <4>1 DEF NoLostWakeup
    <3>2. CASE At("waiting") # {}
      <4>1. PICK w \in At("waiting") :
              thread' = [thread EXCEPT ![i] = "finished", ![w] = "woken"]
        BY <1>6, <3>2 DEF Release
      <4>2. w \in Items \ At("woken") /\ At("woken")' = At("woken") \cup {w}
        BY <1>6, <4>1 DEF Release, GateInv, TypeOK, At
      <4>3. /\ Cardinality(At("woken")') = Cardinality(At("woken")) + 1
            /\ Cardinality(At("woken")) \in Nat
        BY <1>a, <4>2, ItemSets
      <4>4. free <= Cardinality(At("woken"))
        BY <3>2 DEF GateInv, NoLostWakeup
      <4> QED
        BY <1>6, <4>3, <4>4 DEF Release, GateInv, TypeOK, NoLostWakeup
    <3> QED
      BY <3>1, <3>2
  <2>5. \E w \in Items :
          /\ w = i \/ thread[w] = "waiting"
          /\ thread' = [j \in Items |-> IF j = i THEN "finished"
                                        ELSE IF j = w THEN "woken" ELSE thread[j]]
    BY <1>6, SMTT(30) DEF Release, Go, GateInv, TypeOK, At
  <2> QED
    BY <1>6, <2>3, <2>4, <2>5, SMTT(30) DEF Release, GateInv, TypeOK
<1>7. ASSUME NEW i \in Items, SpuriousWake(i) PROVE GateInv'
  <2>1. UNCHANGED Holding
    BY <1>7 DEF SpuriousWake, Go, GateInv, TypeOK, Holding, At
  <2>2. /\ i \in Items \ At("woken") /\ i \in At("waiting")
        /\ At("woken")' = At("woken") \cup {i}
    BY <1>7 DEF SpuriousWake, Go, GateInv, TypeOK, At
  <2>3. /\ Cardinality(At("woken")') = Cardinality(At("woken")) + 1
        /\ Cardinality(At("woken")) \in Nat
    BY <1>a, <2>2, ItemSets
  <2>4. NoLostWakeup'
    BY <1>7, <2>2, <2>3 DEF SpuriousWake, GateInv, TypeOK, NoLostWakeup
  <2>5. PermitsConserved'
    BY <1>7, <2>1 DEF SpuriousWake, GateInv, PermitsConserved, Permits
  <2> QED
    BY <1>7, <2>4, <2>5 DEF SpuriousWake, Go, GateInv, TypeOK
<1>8. CASE UNCHANGED vars
  <2>1. UNCHANGED <<Holding, At("waiting"), At("woken")>>
    BY <1>8 DEF vars, Holding, At
  <2>2. PermitsConserved' /\ NoLostWakeup'
    BY <1>8, <2>1, SameSets DEF vars
  <2> QED
    BY <1>8, <2>2 DEF vars, GateInv, TypeOK
<1> QED
  BY <1>1, <1>2, <1>3, <1>4, <1>5, <1>6, <1>7, <1>8 DEF Next, Step

LEMMA GateInvariant == Spec => []GateInv
<1>1. Init => GateInv
  BY GateInitial
<1>2. GateInv /\ [Next]_vars => GateInv'
  BY GateStep
<1> QED
  BY <1>1, <1>2, PTL DEF Spec

\* Type correctness, for any number of items and any configured limit.
THEOREM GateTypeCorrect == Spec => []TypeOK
<1>1. GateInv => TypeOK
  BY DEF GateInv
<1> QED
  BY <1>1, GateInvariant, PTL

\* A permit is never lost and never made (Gate::acquire, Gate::release).
THEOREM PermitsAreConserved == Spec => []PermitsConserved
<1>1. GateInv => PermitsConserved
  BY DEF GateInv
<1> QED
  BY <1>1, GateInvariant, PTL

\* notify_one per release is enough: no thread sleeps while a permit is free
\* that nobody awake is on the way to take.
THEOREM NoWakeupIsLost == Spec => []NoLostWakeup
<1>1. GateInv => NoLostWakeup
  BY DEF GateInv
<1> QED
  BY <1>1, GateInvariant, PTL

\* Results come back in the order of the items, each its own item's, and only
\* when every process of the level has ended (dispatch_level's join loop).
THEOREM ResultsAreAttributed == Spec => []ResultsAttributed
<1>1. ASSUME GateInv PROVE ResultsAttributed
  <2>1. DOMAIN executions = 1..Len(executions)
    BY <1>1 DEF GateInv, TypeOK
  <2>2. Returned => \A i \in Items : thread[i] = "finished"
    BY <1>1 DEF GateInv, Returned
  <2> QED
    BY <1>1, <2>1, <2>2 DEF GateInv, ResultsAttributed
<1> QED
  BY <1>1, GateInvariant, PTL

\* The instance brings its own copy of the standard operator.
LEMMA SameCardinality == \A S : Level!Cardinality(S) = Cardinality(S)
  BY DEF Level!Cardinality, Cardinality

\* dispatch_level is the hard gate between levels that its doc says it is.
THEOREM LevelIsAHardGate == Spec => ImplementsHardGate
<1>1. Init => Level!GateInit
  BY DEF Init, Level!GateInit, At, Permits, Returned
<1>2. GateInv /\ [Next]_vars => [Level!GateNext]_Level!gateVars
  <2> SUFFICES ASSUME GateInv, [Next]_vars PROVE [Level!GateNext]_Level!gateVars
    OBVIOUS
  <2> USE DEF ThreadStates
  <2>1. CASE Spawn
    <3>1. spawned + 1 \in Items /\ thread[spawned + 1] = "unborn"
      BY <2>1 DEF Spawn, GateInv, TypeOK
    <3>2. UNCHANGED Level!gateVars
      BY <2>1, <3>1 DEF Spawn, Go, GateInv, TypeOK, At, Permits, Returned, Level!gateVars
    <3> QED
      BY <3>2
  <2>2. CASE Join
    <3>1. Len(executions') = Len(executions) + 1
      BY <2>2 DEF Join, GateInv, TypeOK
    <3>2. UNCHANGED <<Permits, At("running"), outcome>>
      BY <2>2 DEF Join, At, Permits
    <3>3. CASE Returned'
      <4>1. \A j \in Items : thread[j] = "finished"
        <5>1. Len(executions) + 1 = ItemCount /\ Len(executions) \in Nat
          BY <3>1, <3>3 DEF Returned, GateInv, TypeOK
        <5>2. thread[Len(executions) + 1] = "finished"
          BY <2>2 DEF Join
        <5>3. \A j \in 1..Len(executions) : thread[j] = "finished"
          BY DEF GateInv
        <5> QED
          BY <5>1, <5>2, <5>3
      <4>2. At("running") = {} /\ \A j \in Items : outcome[j] # NoOutcome
        BY <4>1 DEF At, GateInv
      <4>3. Level!Return
        BY <3>2, <3>3, <4>2 DEF Level!Return
      <4> QED
        BY <4>3 DEF Level!GateNext
    <3>4. CASE ~Returned'
      <4>1. ~Returned
        BY <2>2 DEF Join, Returned, GateInv, TypeOK
      <4>2. UNCHANGED Level!gateVars
        BY <3>2, <3>4, <4>1 DEF Level!gateVars, Returned
      <4> QED
        BY <4>2
    <3> QED
      BY <3>3, <3>4
  <2>3. ASSUME NEW i \in Items, Sleep(i) \/ SpuriousWake(i)
        PROVE  UNCHANGED Level!gateVars
    BY <2>3 DEF Sleep, SpuriousWake, Go, GateInv, TypeOK, At, Permits, Returned, Level!gateVars
  <2>4. ASSUME NEW i \in Items, Take(i) PROVE Level!Begin(i)
    <3>1. i \notin At("running") /\ At("running")' = At("running") \cup {i}
      BY <2>4 DEF Take, Go, GateInv, TypeOK, At
    <3>2. Cardinality(At("running")) < Permits
      <4>1. Holding \in SUBSET Items /\ At("running") \in SUBSET Holding
        BY DEF Holding, At
      <4>2. /\ Cardinality(At("running")) <= Cardinality(Holding)
            /\ Cardinality(Holding) \in Nat
        BY <4>1, ItemSets
      <4>3. At("running") \in SUBSET Items
        BY DEF At
      <4>4. Cardinality(At("running")) \in Nat
        BY <4>3, ItemSets
      <4>5. Permits \in Nat /\ free \in Nat /\ free > 0
        BY <2>4 DEF Take, GateInv, TypeOK, Permits
      <4>6. free + Cardinality(Holding) = Permits
        BY DEF GateInv, PermitsConserved
      <4> QED
        BY <4>2, <4>4, <4>5, <4>6
    <3>3. outcome[i] = NoOutcome
      BY <2>4 DEF Take, GateInv
    <3>4. Permits' = Permits /\ outcome' = outcome
      BY <2>4 DEF Take, Permits
    <3>5. Returned' = Returned
      BY <2>4 DEF Take, Returned
    <3>6. UNCHANGED <<Permits, outcome, Returned>>
      BY <3>4, <3>5
    <3> QED
      BY <3>1, <3>2, <3>3, <3>6, SameCardinality DEF Level!Begin
  <2>5. ASSUME NEW i \in Items, Finish(i) PROVE Level!End(i)
    <3>1. i \in At("running") /\ At("running")' = At("running") \ {i}
      BY <2>5 DEF Finish, Go, GateInv, TypeOK, At
    <3>2. UNCHANGED <<Permits, Returned>>
      BY <2>5 DEF Finish, Permits, Returned
    <3> QED
      BY <2>5, <3>1, <3>2 DEF Finish, Level!End
  <2>6. ASSUME NEW i \in Items, Release(i) PROVE UNCHANGED Level!gateVars
    <3>1. UNCHANGED At("running")
      BY <2>6 DEF Release, Go, GateInv, TypeOK, At
    <3> QED
      BY <2>6, <3>1 DEF Release, Permits, Returned, Level!gateVars
  <2>7. CASE UNCHANGED vars
    BY <2>7 DEF vars, At, Permits, Returned, Level!gateVars
  <2> QED
    BY <2>1, <2>2, <2>3, <2>4, <2>5, <2>6, <2>7 DEF Next, Step, Level!GateNext
<1> QED
  BY <1>1, <1>2, GateInvariant, PTL DEF Spec, ImplementsHardGate, Level!GateSpec
=============================================================================
