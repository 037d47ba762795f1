--------------------------- MODULE AgentLoopProofs ---------------------------
(***************************************************************************)
(* Theorems about the agent loop, for every budget, ceiling, tool set and  *)
(* provider.                                                               *)
(***************************************************************************)
EXTENDS AgentLoop, Recursion, FiniteSetTheorems, TLAPS

USE AgentLoopAssumption

\* A call is in flight or was given up, so it is counted and not metered.
Unmetered == pc = "request" \/ exit \in {"RequestFailed", "Exhausted"}

LoopInv ==
  /\ TypeOK
  /\ pc = "done" <=> exit # "running"
  /\ pc = "calls" => pending # <<>>
  /\ pc # "done" => /\ missingUsage < CONSECUTIVE_FAILURE_LIMIT
                    /\ \A n \in Names : parseFailures[n] < CONSECUTIVE_FAILURE_LIMIT
  /\ iterations = Len(llmCalls) + (IF Unmetered THEN 1 ELSE 0)
  /\ pc = "request" => ~BudgetBreached
  /\ SpendBounded

LEMMA LoopInit == Init => LoopInv
  BY DEF Init, LoopInv, TypeOK, Unmetered, SpendBounded, Names, Message, System, User

LEMMA LoopStep == LoopInv /\ [Next]_vars => LoopInv'
<1> SUFFICES ASSUME LoopInv, [Next]_vars PROVE LoopInv'
  OBVIOUS
<1>1. CASE StopOnBudget
  BY <1>1 DEF LoopInv, TypeOK, StopOnBudget, Return, Unmetered, SpendBounded, Exits
<1>2. CASE StopOnCeiling
  BY <1>2 DEF LoopInv, TypeOK, StopOnCeiling, Return, Unmetered, SpendBounded, Exits
<1>3. CASE StartCall
  BY <1>3 DEF LoopInv, TypeOK, StartCall, Unmetered, SpendBounded, BudgetBreached
<1>4. CASE Retry
  BY <1>4 DEF LoopInv, TypeOK, Retry, Unmetered, SpendBounded, BudgetBreached
<1>5. ASSUME NEW reason \in {"RequestFailed", "Exhausted"}, CallFails(reason)
      PROVE  LoopInv'
  BY <1>5 DEF LoopInv, TypeOK, CallFails, Return, Unmetered, SpendBounded, Exits, ProviderReasons
<1>6. ASSUME NEW usage \in Usages \cup {NoUsage}, Meter(usage)
      PROVE  /\ ledger' \in [tokens : Nat, cost : Nat, missing : Nat]
             /\ llmCalls' \in Seq(Usages \cup {NoUsage})
             /\ Len(llmCalls') = Len(llmCalls) + 1
             /\ SpendBounded'
             /\ missingUsage' \in 0..CONSECUTIVE_FAILURE_LIMIT
             /\ iterations' = Len(llmCalls')
             /\ iterations' \in 0..MaxIterations /\ attempt' \in 0..MAX_ATTEMPTS
             /\ parseFailures' = parseFailures
  <2>1. ledger' \in [tokens : Nat, cost : Nat, missing : Nat]
        /\ ledger'.tokens <= ledger.tokens + MaxCallTokens
    <3>1. ledger \in [tokens : Nat, cost : Nat, missing : Nat] /\ ledger' = Record(usage)
      BY <1>6 DEF Meter, LoopInv, TypeOK
    <3>2. CASE usage = NoUsage
      BY <3>1, <3>2, SMTT(30) DEF Record
    <3>3. CASE usage # NoUsage
      <4>1. usage \in [tokens : 0..MaxCallTokens, cost : Nat]
        BY <3>3
      <4>2. usage.tokens \in 0..MaxCallTokens /\ usage.cost \in Nat
        BY <4>1
      <4>3. ledger' = [ledger EXCEPT !.tokens = ledger.tokens + usage.tokens,
                                     !.cost = ledger.cost + usage.cost]
        BY <3>1, <3>3 DEF Record
      <4>4. ledger' = [tokens |-> ledger.tokens + usage.tokens,
                       cost |-> ledger.cost + usage.cost, missing |-> ledger.missing]
        BY <3>1, <4>3
      <4> QED
        BY <3>1, <4>2, <4>4, SMTT(30)
    <3> QED
      BY <3>2, <3>3
  <2>2. llmCalls' \in Seq(Usages \cup {NoUsage}) /\ Len(llmCalls') = Len(llmCalls) + 1
    BY <1>6 DEF Meter, LoopInv, TypeOK
  <2>3. ledger.tokens < BudgetTokens /\ BudgetTokens # 0
    BY <1>6 DEF Meter, LoopInv, TypeOK, BudgetBreached
  <2>4. SpendBounded'
    BY <2>1, <2>3, SMTT(30) DEF SpendBounded, LoopInv, TypeOK
  <2>5. missingUsage' \in 0..CONSECUTIVE_FAILURE_LIMIT
    BY <1>6 DEF Meter, MissingAfter, LoopInv, TypeOK
  <2> QED
    BY <1>6, <2>1, <2>2, <2>4, <2>5 DEF Meter, LoopInv, TypeOK, Unmetered
<1>7. ASSUME NEW usage \in Usages \cup {NoUsage}, RespondUnmetered(usage)
      PROVE  LoopInv'
  <2>1. Meter(usage)
    BY <1>7 DEF RespondUnmetered
  <2> QED
    BY <1>7, <2>1, <1>6
    DEF RespondUnmetered, Return, LoopInv, TypeOK, Unmetered, Exits, ProviderReasons, Meter
<1>8. ASSUME NEW usage \in Usages \cup {NoUsage}, RespondFinal(usage)
      PROVE  LoopInv'
  <2>1. Meter(usage)
    BY <1>8 DEF RespondFinal
  <2>2. history' \in Seq(Message)
    <3>1. Assistant(<<>>) \in Message
      BY DEF Assistant, Message
    <3> QED
      BY <1>8, <3>1 DEF RespondFinal, LoopInv, TypeOK
  <2> QED
    BY <1>8, <2>1, <2>2, <1>6
    DEF RespondFinal, Return, LoopInv, TypeOK, Unmetered, Exits, ProviderReasons, Meter
<1>9. ASSUME NEW usage \in Usages \cup {NoUsage}, NEW calls \in CallLists,
             RespondCalls(usage, calls)
      PROVE  LoopInv'
  <2>1. Meter(usage)
    BY <1>9 DEF RespondCalls
  <2>2. history' \in Seq(Message) /\ pending' \in Seq(Names) /\ pending' # <<>>
    <3>1. Assistant(calls) \in Message
      BY DEF Assistant, Message
    <3> QED
      BY <1>9, <3>1 DEF RespondCalls, LoopInv, TypeOK
  <2>3. missingUsage' < CONSECUTIVE_FAILURE_LIMIT
    BY <1>9 DEF RespondCalls, Meter
  <2> QED
    BY <1>9, <2>1, <2>2, <2>3, <1>6
    DEF RespondCalls, LoopInv, TypeOK, Unmetered, Meter
<1>10. ASSUME pc = "calls", NEW result \in Results, Answer(Head(pending), result)
       PROVE  /\ history' \in Seq(Message)
              /\ pending' \in Seq(Names)
              /\ pending' = Tail(pending)
              /\ Head(pending) \in Names
  <2>1. Head(pending) \in Names /\ Tail(pending) \in Seq(Names)
    BY <1>10 DEF LoopInv, TypeOK
  <2>2. ToolResult(Head(pending), result) \in Message
    BY <2>1 DEF ToolResult, Message
  <2> QED
    BY <1>10, <2>1, <2>2 DEF Answer, LoopInv, TypeOK
<1>11. CASE RunTool
  <2>1. Answer(Head(pending), "ran") /\ pc = "calls"
    BY <1>11 DEF RunTool
  <2>2. "ran" \in Results
    BY DEF Results
  <2>3. parseFailures' \in [Names -> 0..CONSECUTIVE_FAILURE_LIMIT]
        /\ \A n \in Names : parseFailures'[n] < CONSECUTIVE_FAILURE_LIMIT
    <3>1. parseFailures' = [parseFailures EXCEPT ![Head(pending)] = 0]
      BY <1>11 DEF RunTool
    <3> QED
      BY <2>1, <3>1, SMTT(30) DEF LoopInv, TypeOK
  <2>4. /\ pending' \in Seq(Names) /\ history' \in Seq(Message)
        /\ pc' \in {"loop", "calls"} /\ (pc' = "calls" => pending' # <<>>)
    BY <1>11, <2>1, <2>2, <1>10 DEF RunTool, NextCall
  <2> QED
    BY <1>11, <2>1, <2>3, <2>4
    DEF RunTool, NextCall, LoopInv, TypeOK, Unmetered, SpendBounded
<1>12. CASE NameUnknown
  <2>1. Answer(Head(pending), "unknown") /\ pc = "calls"
    BY <1>12 DEF NameUnknown
  <2>2. "unknown" \in Results
    BY DEF Results
  <2> QED
    BY <1>12, <2>1, <2>2, <1>10
    DEF NameUnknown, NextCall, LoopInv, TypeOK, Unmetered, SpendBounded
<1>13. CASE RejectArguments
  <2>1. Answer(Head(pending), "bad") /\ pc = "calls"
    BY <1>13 DEF RejectArguments
  <2>2. "bad" \in Results
    BY DEF Results
  <2>3. parseFailures' \in [Names -> 0..CONSECUTIVE_FAILURE_LIMIT]
    <3>1. /\ parseFailures' = [parseFailures EXCEPT ![Head(pending)] = parseFailures[Head(pending)] + 1]
          /\ Head(pending) \in Names
      BY <1>13, <2>1, <2>2, <1>10 DEF RejectArguments
    <3>2. /\ parseFailures \in [Names -> 0..CONSECUTIVE_FAILURE_LIMIT]
          /\ parseFailures[Head(pending)] < CONSECUTIVE_FAILURE_LIMIT
      BY <2>1, <3>1 DEF LoopInv, TypeOK
    <3>3. parseFailures[Head(pending)] + 1 \in 0..CONSECUTIVE_FAILURE_LIMIT
      BY <3>1, <3>2
    <3> QED
      BY <3>1, <3>2, <3>3
  <2>4. CASE parseFailures'[Head(pending)] >= CONSECUTIVE_FAILURE_LIMIT
    <3>1. pending' \in Seq(Names) /\ history' \in Seq(Message)
      BY <2>1, <2>2, <1>10
    <3>2. pc' = "done" /\ exit' = "BadArguments"
      BY <1>13, <2>4 DEF RejectArguments, Return
    <3>3. /\ UNCHANGED <<iterations, attempt, ledger, missingUsage, llmCalls>>
          /\ pc = "calls" /\ exit = "running"
      BY <1>13 DEF RejectArguments, LoopInv, TypeOK
    <3>4. TypeOK'
      BY <2>3, <3>1, <3>2, <3>3 DEF LoopInv, TypeOK, Exits, ProviderReasons
    <3>5. ~Unmetered /\ ~Unmetered'
      BY <3>2, <3>3 DEF Unmetered
    <3> QED
      BY <3>2, <3>3, <3>4, <3>5 DEF LoopInv, SpendBounded
  <2>5. CASE ~(parseFailures'[Head(pending)] >= CONSECUTIVE_FAILURE_LIMIT)
    <3>1. \A n \in Names : parseFailures'[n] < CONSECUTIVE_FAILURE_LIMIT
      BY <1>13, <2>1, <2>2, <2>3, <2>5, <1>10, SMTT(30) DEF RejectArguments, LoopInv, TypeOK
    <3> QED
      BY <1>13, <2>1, <2>2, <2>3, <2>5, <3>1, <1>10
      DEF RejectArguments, NextCall, LoopInv, TypeOK, Unmetered, SpendBounded
  <2> QED
    BY <2>4, <2>5
<1>14. CASE UNCHANGED vars
  BY <1>14 DEF vars, LoopInv, TypeOK, Unmetered, SpendBounded, BudgetBreached
<1> QED
  BY <1>1, <1>2, <1>3, <1>4, <1>5, <1>7, <1>8, <1>9, <1>11, <1>12, <1>13, <1>14 DEF Next

-----------------------------------------------------------------------------
\* TypeOK holds in every reachable state of every loop (loop.rs, run).
THEOREM LoopTypeCorrect == Spec => []TypeOK
<1>1. LoopInv => TypeOK
  BY DEF LoopInv
<1> QED
  BY LoopInit, LoopStep, <1>1, PTL DEF Spec

\* Whatever a provider reports and however often it is retried, a run never
\* spends a whole call more than its token budget, and nothing under a budget
\* of zero (loop.rs, budget_breached and its place before the call).
THEOREM SpendIsBounded == Spec => []SpendBounded
<1>1. LoopInv => SpendBounded
  BY DEF LoopInv
<1> QED
  BY LoopInit, LoopStep, <1>1, PTL DEF Spec

-----------------------------------------------------------------------------
(* The loop implements the contract of a metered run.                      *)

LEMMA ContractInit == Init => Contract!RunInit
  BY DEF Init, Contract!RunInit, LoopExit, ProviderReasons

LEMMA ContractStep ==
  LoopInv /\ LoopInv' /\ [Next]_vars => [Contract!RunNext]_(Contract!runVars)
<1> SUFFICES ASSUME LoopInv, LoopInv', [Next]_vars
             PROVE  Contract!RunNext \/ UNCHANGED Contract!runVars
  OBVIOUS
<1> USE DEF LoopExit, ProviderReasons, Contract!runVars
<1>1. ASSUME NEW usage \in Usages \cup {NoUsage}, Meter(usage),
             LoopExit(exit') \in {"running", "Completed", "ProviderError"}
      PROVE  Contract!RunNext
  <2>1. /\ exit = "running"
        /\ ledger.tokens < BudgetTokens
        /\ Len(llmCalls) < MaxIterations
    <3>1. pc = "request"
      BY <1>1 DEF Meter
    <3>2. exit = "running" /\ ~BudgetBreached
      BY <3>1 DEF LoopInv
    <3>3. ledger.tokens < BudgetTokens
      BY <3>2, SMTT(30) DEF BudgetBreached, LoopInv, TypeOK
    <3>4. iterations = Len(llmCalls) + 1 /\ iterations \in 0..MaxIterations
      BY <3>1 DEF LoopInv, TypeOK, Unmetered
    <3>5. Len(llmCalls) \in Nat
      BY DEF LoopInv, TypeOK
    <3> QED
      BY <3>2, <3>3, <3>4, <3>5
  <2>2. Len(llmCalls') = Len(llmCalls) + 1
    BY <1>1 DEF Meter, LoopInv, TypeOK
  <2>3. PICK tokens \in 0..MaxCallTokens : ledger'.tokens = ledger.tokens + tokens
    <3>1. ledger \in [tokens : Nat, cost : Nat, missing : Nat] /\ ledger' = Record(usage)
      BY <1>1 DEF Meter, LoopInv, TypeOK
    <3>2. CASE usage = NoUsage
      <4>1. ledger'.tokens = ledger.tokens + 0
        BY <3>1, <3>2 DEF Record
      <4> QED
        BY <4>1
    <3>3. CASE usage # NoUsage
      <4>1. usage.tokens \in 0..MaxCallTokens
        BY <3>3
      <4>2. ledger'.tokens = ledger.tokens + usage.tokens
        BY <3>1, <3>3 DEF Record
      <4> QED
        BY <4>1, <4>2
    <3> QED
      BY <3>2, <3>3
  <2>4. Contract!Pay(tokens)
    BY <1>1, <2>1, <2>2, <2>3 DEF Contract!Pay
  <2> QED
    BY <2>4 DEF Contract!RunNext
<1>2. CASE StopOnBudget
  BY <1>2 DEF StopOnBudget, Return, LoopInv, Contract!RunNext, Contract!StopItself
<1>3. CASE StopOnCeiling
  <2>1. iterations = Len(llmCalls)
    BY <1>3 DEF StopOnCeiling, LoopInv, Unmetered
  <2>2. /\ exit = "running" /\ exit' = "MaxIterationsExceeded"
        /\ UNCHANGED <<ledger, llmCalls>>
    BY <1>3 DEF StopOnCeiling, Return, LoopInv
  <2>3. ledger.tokens < BudgetTokens /\ Len(llmCalls) >= MaxIterations
    BY <1>3, <2>1 DEF StopOnCeiling, BudgetBreached, LoopInv, TypeOK
  <2> QED
    BY <2>2, <2>3 DEF Contract!RunNext, Contract!StopItself
<1>4. CASE StartCall \/ Retry
  BY <1>4 DEF StartCall, Retry
<1>5. ASSUME NEW reason \in {"RequestFailed", "Exhausted"}, CallFails(reason)
      PROVE  Contract!RunNext
  BY <1>5 DEF CallFails, Return, LoopInv, Contract!RunNext, Contract!Fail
<1>6. ASSUME NEW usage \in Usages \cup {NoUsage}, RespondUnmetered(usage)
      PROVE  Contract!RunNext
  BY <1>1, <1>6 DEF RespondUnmetered, Return
<1>7. ASSUME NEW usage \in Usages \cup {NoUsage}, RespondFinal(usage)
      PROVE  Contract!RunNext
  BY <1>1, <1>7 DEF RespondFinal, Return
<1>8. ASSUME NEW usage \in Usages \cup {NoUsage}, NEW calls \in CallLists,
             RespondCalls(usage, calls)
      PROVE  Contract!RunNext
  <2>1. Meter(usage) /\ exit' = "running"
    BY <1>8 DEF RespondCalls, Meter, LoopInv
  <2> QED
    BY <1>1, <2>1
<1>9. CASE RunTool \/ NameUnknown
  BY <1>9 DEF RunTool, NameUnknown, NextCall
<1>10. CASE RejectArguments
  <2>1. UNCHANGED <<ledger, llmCalls>> /\ pc = "calls" /\ exit = "running"
    BY <1>10 DEF RejectArguments, LoopInv
  <2>2. exit' \in {"running", "BadArguments"}
    BY <1>10, <2>1 DEF RejectArguments, Return, NextCall
  <2> QED
    BY <2>1, <2>2 DEF Contract!RunNext, Contract!Fail
<1>11. CASE UNCHANGED vars
  BY <1>11 DEF vars
<1> QED
  BY <1>2, <1>3, <1>4, <1>5, <1>6, <1>7, <1>8, <1>9, <1>10, <1>11 DEF Next

\* Every run of the loop is a run of MeteredRun: it pays only below the cap and
\* below the ceiling, and reports the limit it is really at (loop.rs, run).
THEOREM LoopImplementsContract == Spec => ImplementsContract
<1>1. LoopInv /\ [Next]_vars => LoopInv'
  BY LoopStep
<1> QED
  BY LoopInit, ContractInit, <1>1, ContractStep, PTL
  DEF Spec, ImplementsContract, Contract!RunSpec

-----------------------------------------------------------------------------
(* Sums.                                                                   *)

HIDE AgentLoopAssumption

Totals(amounts) ==
  CHOOSE upto : upto = [n \in 0..Len(amounts) |-> IF n = 0 THEN 0 ELSE upto[n - 1] + amounts[n]]

LEMMA TotalsAre ==
  ASSUME NEW amounts \in Seq(Nat)
  PROVE  /\ Total(amounts) = Totals(amounts)[Len(amounts)]
         /\ Totals(amounts)[0] = 0
         /\ \A n \in 1..Len(amounts) : Totals(amounts)[n] = Totals(amounts)[n - 1] + amounts[n]
         /\ \A n \in 0..Len(amounts) : Totals(amounts)[n] \in Nat
<1> DEFINE N == Len(amounts)
           step == [x \in (1..N) \X Nat |-> x[2] + amounts[x[1]]]
           Is(upto) == upto = [n \in 0..N |-> IF n = 0 THEN 0 ELSE upto[n - 1] + amounts[n]]
<1>1. N \in Nat /\ \A n \in 1..N : amounts[n] \in Nat
  OBVIOUS
<1>2. Step(step, N, Nat)
  BY <1>1 DEF Step
<1> HIDE DEF step
<1>3. PICK f : Iterates(f, N, Nat, 0, step)
  BY <1>1, <1>2, Recursion
<1>4. f \in [0..N -> Nat] /\ f[0] = 0 /\ \A n \in 1..N : f[n] = step[<<n, f[n - 1]>>]
  BY <1>3 DEF Iterates
<1>5. \A n \in 1..N : f[n] = f[n - 1] + amounts[n]
  <2> SUFFICES ASSUME NEW n \in 1..N PROVE f[n] = f[n - 1] + amounts[n]
    OBVIOUS
  <2>1. n - 1 \in 0..N
    BY <1>1
  <2>2. f[n - 1] \in Nat
    BY <1>4, <2>1
  <2>3. <<n, f[n - 1]>> \in (1..N) \X Nat
    BY <2>2
  <2>4. step[<<n, f[n - 1]>>] = f[n - 1] + amounts[n]
    BY <2>3 DEF step
  <2> QED
    BY <1>4, <2>4
<1>6. Is(f)
  <2>1. f = [n \in 0..N |-> f[n]]
    BY <1>4
  <2>2. \A n \in 0..N : f[n] = IF n = 0 THEN 0 ELSE f[n - 1] + amounts[n]
    BY <1>1, <1>4, <1>5
  <2> QED
    BY <2>1, <2>2, Zenon
<1> DEFINE u == Totals(amounts)
<1>7. Is(u)
  BY <1>6 DEF Totals
<1> HIDE DEF u
<1>8. u[0] = 0 /\ \A n \in 1..N : u[n] = u[n - 1] + amounts[n]
  <2>1. \A n \in 0..N : u[n] = IF n = 0 THEN 0 ELSE u[n - 1] + amounts[n]
    BY <1>7, Zenon
  <2>2. 0 \in 0..N /\ \A n \in 1..N : n \in 0..N /\ n # 0
    BY <1>1
  <2> QED
    BY <2>1, <2>2
<1>9. \A n \in 0..N : u[n] \in Nat
  <2> DEFINE I == {n \in Nat : n <= N => u[n] \in Nat}
  <2>1. 0 \in I
    BY <1>8
  <2>2. ASSUME NEW n \in I PROVE n + 1 \in I
    <3> SUFFICES ASSUME n + 1 <= N PROVE u[n + 1] \in Nat
      BY <2>2
    <3>1. n + 1 \in 1..N /\ (n + 1) - 1 = n /\ u[n] \in Nat
      BY <1>1, <2>2
    <3> QED
      BY <1>1, <1>8, <3>1, SMTT(30)
  <2>3. I = Nat
    BY <2>1, <2>2, Induction
  <2> QED
    BY <1>1, <2>3
<1>10. Total(amounts) = u[N]
  BY DEF Total, Totals, u
<1> QED
  BY <1>8, <1>9, <1>10 DEF u

LEMMA TotalOfNone == Total(<<>>) = 0
<1>1. <<>> \in Seq(Nat) /\ Len(<<>>) = 0
  OBVIOUS
<1>2. Total(<<>>) = Totals(<<>>)[Len(<<>>)] /\ Totals(<<>>)[0] = 0
  BY <1>1, TotalsAre
<1> QED
  BY <1>1, <1>2

\* One more amount is added to the total.
LEMMA TotalGrows ==
  ASSUME NEW amounts \in Seq(Nat), NEW amount \in Nat
  PROVE  Total(Append(amounts, amount)) = Total(amounts) + amount
<1> DEFINE more == Append(amounts, amount)
           u == Totals(amounts)
           w == Totals(more)
           N == Len(amounts)
<1>1. /\ more \in Seq(Nat) /\ Len(more) = N + 1 /\ more[N + 1] = amount /\ N \in Nat
      /\ \A n \in 1..N : more[n] = amounts[n]
  OBVIOUS
<1>2. /\ Total(amounts) = u[N] /\ u[0] = 0
      /\ \A n \in 1..N : u[n] = u[n - 1] + amounts[n]
  BY TotalsAre
<1>3. /\ Total(more) = w[N + 1] /\ w[0] = 0
      /\ \A n \in 1..(N + 1) : w[n] = w[n - 1] + more[n]
  BY <1>1, TotalsAre
<1> HIDE DEF more, u, w, N
<1>4. w[N] = u[N]
  <2> DEFINE I == {n \in Nat : n <= N => w[n] = u[n]}
  <2>1. 0 \in I
    BY <1>2, <1>3
  <2>2. ASSUME NEW n \in I PROVE n + 1 \in I
    <3> SUFFICES ASSUME n + 1 <= N PROVE w[n + 1] = u[n + 1]
      BY <2>2
    <3>1. n + 1 \in 1..N /\ n + 1 \in 1..(N + 1) /\ (n + 1) - 1 = n /\ w[n] = u[n]
      BY <1>1, <2>2
    <3> QED
      BY <1>1, <1>2, <1>3, <3>1
  <2>3. I = Nat
    BY <2>1, <2>2, Induction
  <2> QED
    BY <1>1, <2>3
<1>5. N + 1 \in 1..(N + 1) /\ (N + 1) - 1 = N
  BY <1>1
<1>6. w[N + 1] = u[N] + amount
  BY <1>1, <1>3, <1>4, <1>5
<1> QED
  BY <1>2, <1>3, <1>6 DEF more

-----------------------------------------------------------------------------
(* The run log: what is metered, and the runs of responses without usage.  *)

Records == Usages \cup {NoUsage}

Each(f, s) == [i \in DOMAIN s |-> f[s[i]]]

LEMMA AmountsGrow ==
  ASSUME NEW S, NEW f \in [S -> Nat], NEW s \in Seq(S), NEW v \in S
  PROVE  Total(Each(f, Append(s, v))) = Total(Each(f, s)) + f[v]
<1> USE DEF Each
<1> DEFINE old == Each(f, s)
           new == Each(f, Append(s, v))
<1>1. old \in Seq(Nat) /\ Len(old) = Len(s)
  OBVIOUS
<1>2. new = Append(old, f[v])
  <2>1. /\ new \in Seq(Nat) /\ Len(new) = Len(s) + 1
        /\ \A i \in 1..Len(s) : new[i] = f[s[i]]
        /\ new[Len(s) + 1] = f[v]
    OBVIOUS
  <2>2. /\ Append(old, f[v]) \in Seq(Nat) /\ Len(Append(old, f[v])) = Len(s) + 1
        /\ \A i \in 1..Len(s) : Append(old, f[v])[i] = f[s[i]]
        /\ Append(old, f[v])[Len(s) + 1] = f[v]
    BY <1>1
  <2> HIDE DEF old, new
  <2>3. \A i \in 1..(Len(s) + 1) : new[i] = Append(old, f[v])[i]
    BY <2>1, <2>2, SMTT(30)
  <2> QED
    BY <2>1, <2>2, <2>3, SMTT(30)
<1> HIDE DEF old, new
<1>3. Total(new) = Total(old) + f[v]
  BY <1>1, <1>2, TotalGrows
<1> QED
  BY <1>3 DEF old, new

LEMMA LedgerStep ==
  ASSUME LoopInv, LedgerMatchesLog, NEW usage \in Records, Meter(usage)
  PROVE  LedgerMatchesLog'
<1>1. /\ llmCalls \in Seq(Records) /\ llmCalls' = Append(llmCalls, usage)
      /\ ledger \in [tokens : Nat, cost : Nat, missing : Nat] /\ ledger' = Record(usage)
  BY DEF LoopInv, TypeOK, Meter, Records
<1>2. /\ ledger'.tokens = ledger.tokens + TokensOf(usage)
      /\ ledger'.cost = ledger.cost + CostOf(usage)
      /\ ledger'.missing = ledger.missing + (IF usage = NoUsage THEN 1 ELSE 0)
  <2>1. CASE usage = NoUsage
    BY <1>1, <2>1 DEF Record, TokensOf, CostOf
  <2>2. CASE usage # NoUsage
    BY <1>1, <2>2 DEF Record, TokensOf, CostOf
  <2> QED
    BY <2>1, <2>2
<1>3. Total([i \in DOMAIN llmCalls' |-> TokensOf(llmCalls'[i])])
        = Total([i \in DOMAIN llmCalls |-> TokensOf(llmCalls[i])]) + TokensOf(usage)
  <2> DEFINE f == [r \in Records |-> TokensOf(r)]
  <2>1. f \in [Records -> Nat]
    BY AgentLoopAssumption DEF Records, TokensOf
  <2>2. f[usage] = TokensOf(usage)
    OBVIOUS
  <2>3. Each(f, llmCalls) = [i \in DOMAIN llmCalls |-> TokensOf(llmCalls[i])]
    BY <1>1 DEF Each
  <2>4. \A i \in DOMAIN Append(llmCalls, usage) : Append(llmCalls, usage)[i] \in Records
    BY <1>1
  <2>5. Each(f, Append(llmCalls, usage))
          = [i \in DOMAIN Append(llmCalls, usage) |-> TokensOf(Append(llmCalls, usage)[i])]
    BY <2>4 DEF Each
  <2> HIDE DEF f
  <2>6. Total(Each(f, Append(llmCalls, usage))) = Total(Each(f, llmCalls)) + f[usage]
    BY <1>1, <2>1, AmountsGrow
  <2> QED
    BY <1>1, <2>2, <2>3, <2>5, <2>6, Zenon
<1>4. Total([i \in DOMAIN llmCalls' |-> CostOf(llmCalls'[i])])
        = Total([i \in DOMAIN llmCalls |-> CostOf(llmCalls[i])]) + CostOf(usage)
  <2> DEFINE f == [r \in Records |-> CostOf(r)]
  <2>1. f \in [Records -> Nat]
    BY AgentLoopAssumption DEF Records, CostOf
  <2>2. f[usage] = CostOf(usage)
    OBVIOUS
  <2>3. Each(f, llmCalls) = [i \in DOMAIN llmCalls |-> CostOf(llmCalls[i])]
    BY <1>1 DEF Each
  <2>4. \A i \in DOMAIN Append(llmCalls, usage) : Append(llmCalls, usage)[i] \in Records
    BY <1>1
  <2>5. Each(f, Append(llmCalls, usage))
          = [i \in DOMAIN Append(llmCalls, usage) |-> CostOf(Append(llmCalls, usage)[i])]
    BY <2>4 DEF Each
  <2> HIDE DEF f
  <2>6. Total(Each(f, Append(llmCalls, usage))) = Total(Each(f, llmCalls)) + f[usage]
    BY <1>1, <2>1, AmountsGrow
  <2> QED
    BY <1>1, <2>2, <2>3, <2>5, <2>6, Zenon
<1>5. Cardinality({i \in DOMAIN llmCalls' : llmCalls'[i] = NoUsage})
        = Cardinality({i \in DOMAIN llmCalls : llmCalls[i] = NoUsage})
            + (IF usage = NoUsage THEN 1 ELSE 0)
  <2> DEFINE old == {i \in DOMAIN llmCalls : llmCalls[i] = NoUsage}
             new == {i \in DOMAIN llmCalls' : llmCalls'[i] = NoUsage}
             n == Len(llmCalls)
  <2>1. IsFiniteSet(old) /\ n + 1 \notin old
    <3>1. n \in Nat /\ old \subseteq 1..n /\ n + 1 \notin 1..n
      BY <1>1
    <3>2. IsFiniteSet(1..n)
      BY <3>1, FS_Interval
    <3> HIDE DEF old, n
    <3> QED
      BY <3>1, <3>2, FS_Subset
  <2>2. /\ DOMAIN llmCalls' = 1..(n + 1) /\ DOMAIN llmCalls = 1..n /\ n \in Nat
        /\ \A i \in 1..n : llmCalls'[i] = llmCalls[i]
        /\ llmCalls'[n + 1] = usage
    BY <1>1
  <2>3. new = IF usage = NoUsage THEN old \cup {n + 1} ELSE old
    <3>1. \A i : i \in 1..(n + 1) <=> i \in 1..n \/ i = n + 1
      BY <2>2
    <3> QED
      BY <2>2, <3>1
  <2> HIDE DEF old, new
  <2>4. Cardinality(old) \in Nat /\ Cardinality(old \cup {n + 1}) = Cardinality(old) + 1
    BY <2>1, FS_AddElement, FS_CardinalityType
  <2>5. Cardinality(new) = Cardinality(old) + (IF usage = NoUsage THEN 1 ELSE 0)
    BY <2>3, <2>4
  <2> QED
    BY <2>5 DEF old, new
<1> QED
  BY <1>2, <1>3, <1>4, <1>5 DEF LedgerMatchesLog

\* missingUsage is the length of the run of responses without usage that the
\* log ends in, and the limit of them is what ends a run.
MissingInv ==
  /\ missingUsage <= Len(llmCalls)
  /\ \A i \in (Len(llmCalls) - missingUsage + 1)..Len(llmCalls) : llmCalls[i] = NoUsage
  /\ missingUsage < Len(llmCalls) => llmCalls[Len(llmCalls) - missingUsage] # NoUsage
  /\ exit = "UsageMissing" <=> missingUsage = CONSECUTIVE_FAILURE_LIMIT

LEMMA MissingIsTail == LoopInv /\ MissingInv => UnmeteredRunsEnd
<1> SUFFICES ASSUME LoopInv, MissingInv PROVE UnmeteredRunsEnd
  OBVIOUS
<1> DEFINE n == Len(llmCalls)
           limit == CONSECUTIVE_FAILURE_LIMIT
<1>1. n \in Nat /\ missingUsage \in 0..limit /\ limit \in Nat
  BY AgentLoopAssumption DEF LoopInv, TypeOK
<1>2. ASSUME missingUsage = limit PROVE limit \in UnmeteredTail
  BY <1>1, <1>2 DEF MissingInv, UnmeteredTail
<1>3. ASSUME limit \in UnmeteredTail PROVE missingUsage = limit
  <2> SUFFICES ASSUME missingUsage < limit PROVE FALSE
    BY <1>1
  <2>1. limit <= n /\ \A i \in (n - limit + 1)..n : llmCalls[i] = NoUsage
    BY <1>1, <1>3 DEF UnmeteredTail
  <2>2. n - missingUsage \in (n - limit + 1)..n
    BY <1>1, <2>1
  <2> QED
    BY <1>1, <2>1, <2>2 DEF MissingInv
<1> QED
  BY <1>2, <1>3 DEF MissingInv, UnmeteredRunsEnd

LEMMA MissingStep ==
  ASSUME LoopInv, MissingInv, NEW usage \in Records, Meter(usage),
         exit' = "UsageMissing" <=> MissingAfter(usage) >= CONSECUTIVE_FAILURE_LIMIT
  PROVE  MissingInv'
<1> DEFINE n == Len(llmCalls)
<1>1. /\ n \in Nat /\ Len(llmCalls') = n + 1
      /\ \A i \in 1..n : llmCalls'[i] = llmCalls[i]
      /\ llmCalls'[n + 1] = usage
      /\ missingUsage \in Nat /\ missingUsage < CONSECUTIVE_FAILURE_LIMIT
      /\ missingUsage' = MissingAfter(usage)
  BY DEF LoopInv, TypeOK, Meter, Records
<1> HIDE DEF n
<1>2. exit' = "UsageMissing" <=> missingUsage' = CONSECUTIVE_FAILURE_LIMIT
  BY <1>1, AgentLoopAssumption DEF MissingAfter
<1>3. CASE usage = NoUsage
  <2>1. missingUsage' = missingUsage + 1 /\ missingUsage <= n
    BY <1>1, <1>3 DEF MissingAfter, MissingInv, n
  <2>2. \A i \in ((n + 1) - (missingUsage + 1) + 1)..(n + 1) : llmCalls'[i] = NoUsage
    <3> SUFFICES ASSUME NEW i \in ((n + 1) - (missingUsage + 1) + 1)..(n + 1)
                 PROVE  llmCalls'[i] = NoUsage
      OBVIOUS
    <3>1. CASE i = n + 1
      BY <1>1, <1>3, <3>1
    <3>2. CASE i # n + 1
      <4>1. i \in 1..n /\ i \in (n - missingUsage + 1)..n
        BY <1>1, <2>1, <3>2
      <4> QED
        BY <1>1, <4>1 DEF MissingInv, n
    <3> QED
      BY <3>1, <3>2
  <2>3. ASSUME missingUsage + 1 < n + 1
        PROVE  llmCalls'[(n + 1) - (missingUsage + 1)] # NoUsage
    <3>1. (n + 1) - (missingUsage + 1) = n - missingUsage /\ n - missingUsage \in 1..n
      BY <1>1, <2>3
    <3> QED
      BY <1>1, <2>3, <3>1 DEF MissingInv, n
  <2> QED
    BY <1>1, <1>2, <2>1, <2>2, <2>3 DEF MissingInv
<1>4. CASE usage # NoUsage
  <2>1. missingUsage' = 0
    BY <1>1, <1>4 DEF MissingAfter
  <2> QED
    BY <1>1, <1>2, <1>4, <2>1 DEF MissingInv
<1> QED
  BY <1>3, <1>4

-----------------------------------------------------------------------------
(* The conversation: every turn's calls are answered, in order.            *)

Asks(i) == history[i].role = "assistant"

\* The turn that message i opened is being answered: the answers so far stand
\* behind it, and pending holds the calls still to be answered.
Answering(i) ==
  LET calls == history[i].calls
      answered == Len(history) - i
  IN  /\ Asks(i)
      /\ Len(pending) = Len(calls) - answered
      /\ \A k \in DOMAIN calls :
           IF k <= answered
           THEN history[i + k].role = "tool" /\ history[i + k].name = calls[k]
           ELSE pending[k - answered] = calls[k]

ConversationInv ==
  /\ pc \in {"loop", "request"} => \A i \in DOMAIN history : Asks(i) => AnsweredFrom(i)
  /\ pc = "calls" =>
       \E i \in DOMAIN history :
         /\ Answering(i)
         /\ \A j \in DOMAIN history : j < i /\ Asks(j) => AnsweredFrom(j)

Says(message) == history \in Seq(Message) /\ message \in Message /\ history' = Append(history, message)

LEMMA Messages ==
  ASSUME NEW i \in DOMAIN history, history \in Seq(Message)
  PROVE  /\ i \in 1..Len(history) /\ Len(history) \in Nat
         /\ Asks(i) => history[i].calls \in Seq(Names)
<1>1. history[i] \in Message
  OBVIOUS
<1> QED
  BY <1>1 DEF Message, Asks

LEMMA Said ==
  ASSUME NEW message, Says(message)
  PROVE  /\ Len(history) \in Nat /\ Len(history') = Len(history) + 1
         /\ DOMAIN history = 1..Len(history) /\ DOMAIN history' = 1..(Len(history) + 1)
         /\ \A i \in 1..Len(history) : history'[i] = history[i]
         /\ history'[Len(history) + 1] = message
  BY DEF Says

\* A turn that was answered stays so, whatever is said next, unless the next
\* message is one more tool message directly behind its answers.
LEMMA AnsweredStays ==
  ASSUME NEW message, Says(message), NEW j \in DOMAIN history, Asks(j), AnsweredFrom(j),
         j + Len(history[j].calls) = Len(history) => message.role # "tool"
  PROVE  AnsweredFrom(j)' /\ Asks(j)'
<1>1. /\ history[j].calls \in Seq(Names) /\ history \in Seq(Message)
      /\ history'[j] = history[j] /\ j \in 1..Len(history)
      /\ Len(history) \in Nat /\ Len(history') = Len(history) + 1
  BY Messages, Said DEF Says
<1> DEFINE calls == history[j].calls
<1>2. /\ Len(calls) \in Nat /\ DOMAIN calls = 1..Len(calls) /\ calls = history'[j].calls
      /\ j + Len(calls) <= Len(history)
      /\ \A k \in DOMAIN calls : history[j + k].role = "tool" /\ history[j + k].name = calls[k]
      /\ j + Len(calls) < Len(history) => history[j + Len(calls) + 1].role # "tool"
  BY <1>1 DEF AnsweredFrom
<1> DEFINE n == Len(calls)
           h == Len(history)
<1>a. n \in Nat /\ h \in Nat /\ j \in 1..h /\ j + n <= h /\ DOMAIN calls = 1..n
  BY <1>1, <1>2
<1> HIDE DEF calls, n, h
<1>3. ASSUME NEW k \in DOMAIN calls
      PROVE  history'[j + k].role = "tool" /\ history'[j + k].name = calls[k]
  <2>1. j + k \in 1..h
    BY <1>a, <1>3
  <2> QED
    BY <1>2, <2>1, Said DEF h
<1>4. history'[j + Len(calls) + 1].role # "tool"
  <2>1. CASE j + Len(calls) = Len(history)
    BY <2>1, <1>2, Said DEF calls
  <2>2. CASE j + Len(calls) # Len(history)
    <3>1. j + n < h
      BY <1>a, <2>2, SMTT(30) DEF n, h
    <3>2. j + n + 1 \in 1..h
      BY <1>a, <3>1
    <3>3. history'[j + n + 1] = history[j + n + 1]
      BY <3>2, Said DEF h
    <3> QED
      BY <1>2, <3>1, <3>3 DEF n, h
  <2> QED
    BY <2>1, <2>2
<1>5. j + Len(calls) <= Len(history')
  BY <1>2, Said
<1> QED
  BY <1>1, <1>2, <1>3, <1>4, <1>5 DEF AnsweredFrom, Asks

\* The provider's answer opens a turn (loop.rs, Message::assistant).
LEMMA TurnOpens ==
  ASSUME LoopInv, ConversationInv, NEW calls \in CallLists, pc = "request",
         history' = Append(history, Assistant(calls)), pending' = calls
  PROVE  \E i \in DOMAIN history' :
           /\ Answering(i)'
           /\ \A j \in DOMAIN history' : j < i /\ Asks(j)' => AnsweredFrom(j)'
<1>1. Says(Assistant(calls)) /\ calls \in Seq(Names)
  BY AgentLoopAssumption DEF LoopInv, TypeOK, Says, Message, Assistant
<1>0. PICK i : i = Len(history) + 1
  OBVIOUS
<1>2. i \in DOMAIN history' /\ history'[i] = Assistant(calls) /\ Len(history') = i /\ i \in Nat
  BY <1>0, <1>1, Said
<1>3. Answering(i)'
  <2>1. history'[i].calls = calls /\ history'[i].role = "assistant"
    BY <1>2 DEF Assistant
  <2>2. Len(history') - i = 0 /\ \A k \in DOMAIN calls : ~(k <= 0) /\ k - 0 = k
    BY <1>1, <1>2
  <2>3. Len(calls) - 0 = Len(calls)
    BY <1>1
  <2> QED
    BY <1>1, <2>1, <2>2, <2>3 DEF Answering, Asks
<1>4. ASSUME NEW j \in DOMAIN history', j < i, Asks(j)' PROVE AnsweredFrom(j)'
  <2>1. j \in DOMAIN history /\ history'[j] = history[j]
    BY <1>0, <1>1, <1>4, Said
  <2>2. Asks(j) /\ AnsweredFrom(j)
    BY <1>4, <2>1 DEF Asks, ConversationInv
  <2>3. Assistant(calls).role # "tool"
    BY DEF Assistant
  <2> QED
    BY <1>1, <2>1, <2>2, <2>3, AnsweredStays
<1>5. \A j \in DOMAIN history' : j < i /\ Asks(j)' => AnsweredFrom(j)'
  BY <1>4
<1> QED
  BY <1>2, <1>3, <1>5

\* One call is answered: the turn goes on with the rest, or is over.
LEMMA TurnGoesOn ==
  ASSUME LoopInv, ConversationInv, pc = "calls", NEW result \in Results,
         Answer(Head(pending), result), NextCall
  PROVE  ConversationInv'
<1> DEFINE message == ToolResult(Head(pending), result)
<1>1. /\ pending \in Seq(Names) /\ pending # <<>> /\ pending' = Tail(pending)
      /\ history \in Seq(Message)
  BY DEF LoopInv, TypeOK, Answer
<1>2. Says(message)
  <2>1. Head(pending) \in Names
    BY <1>1
  <2> QED
    BY <1>1, <2>1 DEF Answer, Says, ToolResult, Message
<1>3. message.role = "tool" /\ message.name = pending[1]
  BY <1>1 DEF ToolResult
<1> HIDE DEF message
<1>4. PICK i \in DOMAIN history :
         /\ Answering(i)
         /\ \A j \in DOMAIN history : j < i /\ Asks(j) => AnsweredFrom(j)
  BY DEF ConversationInv
<1> DEFINE calls == history[i].calls
           answered == Len(history) - i
<1>5. /\ calls \in Seq(Names) /\ Len(calls) \in Nat /\ DOMAIN calls = 1..Len(calls)
      /\ i \in 1..Len(history) /\ Len(history) \in Nat /\ answered \in Nat
      /\ Len(pending) \in Nat /\ Len(pending) = Len(calls) - answered /\ Len(pending) # 0
      /\ Asks(i)
  BY <1>1, <1>4, Messages, SMTT(30) DEF Answering
<1>6. \A k \in DOMAIN calls :
        IF k <= answered
        THEN history[i + k].role = "tool" /\ history[i + k].name = calls[k]
        ELSE pending[k - answered] = calls[k]
  BY <1>4 DEF Answering
<1>7. /\ history'[i] = history[i] /\ Asks(i)'
      /\ i \in DOMAIN history' /\ Len(history') = Len(history) + 1
  BY <1>2, <1>5, Said, SMTT(30) DEF Asks
<1> DEFINE n == Len(calls)
           h == Len(history)
<1>a. /\ n \in Nat /\ h \in Nat /\ i \in 1..h /\ answered \in Nat /\ answered = h - i
      /\ DOMAIN calls = 1..n /\ DOMAIN history = 1..h
      /\ DOMAIN history' = 1..(h + 1) /\ Len(history') = h + 1
  BY <1>2, <1>5, <1>7, Said
<1>c. i \in Int /\ h \in Int /\ answered \in Int /\ answered = h - i
  BY <1>a
<1>b. Len(pending) \in Nat /\ Len(pending) = n - answered /\ Len(pending) # 0
  BY <1>5
<1> HIDE DEF calls, answered, n, h
<1>8. \A k \in DOMAIN calls : k <= answered + 1 =>
         history'[i + k].role = "tool" /\ history'[i + k].name = calls[k]
  <2> SUFFICES ASSUME NEW k \in DOMAIN calls, k <= answered + 1
               PROVE  history'[i + k].role = "tool" /\ history'[i + k].name = calls[k]
    OBVIOUS
  <2>1. CASE k <= answered
    <3>1. i + k \in 1..h
      BY <1>a, <2>1
    <3>2. history'[i + k] = history[i + k]
      BY <1>2, <3>1, Said DEF h
    <3> QED
      BY <1>6, <2>1, <3>2
  <2>2. CASE k = answered + 1
    <3>1. i + k = h + 1 /\ k - answered = 1 /\ ~(k <= answered)
      BY <1>c, <2>2
    <3>2. pending[1] = calls[k]
      BY <1>6, <3>1
    <3>3. history'[i + k] = message
      BY <1>2, <3>1, Said DEF h
    <3> QED
      BY <1>3, <3>2, <3>3
  <2> QED
    BY <1>a, <2>1, <2>2
<1>9. ASSUME NEW j \in DOMAIN history', j < i, Asks(j)' PROVE AnsweredFrom(j)'
  <2>0. j \in 1..h /\ j \in Nat
    BY <1>a, <1>9
  <2>1. j \in DOMAIN history /\ history'[j] = history[j] /\ j \in Nat
    BY <1>2, <1>a, <2>0, Said DEF h
  <2>2. Asks(j) /\ AnsweredFrom(j)
    BY <1>4, <1>9, <2>1 DEF Asks
  <2>3. history[j].calls \in Seq(Names)
    BY <1>1, <2>1, <2>2, Messages
  <2> DEFINE m == Len(history[j].calls)
  <2>a. m \in Nat /\ DOMAIN history[j].calls = 1..m
    BY <2>3, SMTT(30)
  <2> HIDE DEF m
  <2>4. j + m < i
    <3> SUFFICES ASSUME j + m >= i PROVE FALSE
      BY <1>a, <2>0, <2>a
    <3>1. i - j \in 1..m /\ j + (i - j) = i
      BY <1>a, <1>9, <2>0, <2>a
    <3>2. history[j + (i - j)].role = "tool"
      BY <2>2, <2>a, <3>1 DEF AnsweredFrom
    <3> QED
      BY <1>5, <3>1, <3>2, Zenon DEF Asks
  <2>5. j + m # h
    BY <1>a, <2>0, <2>a, <2>4
  <2>6. j + Len(history[j].calls) # Len(history)
    BY <2>5 DEF m, h
  <2> QED
    BY <1>2, <2>1, <2>2, <2>6, AnsweredStays
<1>10. CASE Tail(pending) = <<>>
  <2>1. pc' = "loop"
    BY <1>10 DEF NextCall
  <2>2. Len(pending) = 1
    <3>1. Len(Tail(pending)) = Len(pending) - 1
      BY <1>1
    <3>2. Len(<<>>) = 0
      OBVIOUS
    <3> QED
      BY <1>b, <1>10, <3>1, <3>2
  <2>3. n = answered + 1 /\ i + n = Len(history')
    <3>1. n = answered + 1
      <4>1. n \in Int
        BY <1>a
      <4>2. n - answered = 1
        BY <1>b, <2>2, Zenon
      <4> QED
        BY <1>c, <4>1, <4>2
    <3>2. i + n = h + 1
      BY <1>c, <3>1
    <3> QED
      BY <1>a, <3>1, <3>2
  <2>4. AnsweredFrom(i)'
    <3>1. calls = history'[i].calls
      BY <1>7 DEF calls
    <3>2. \A k \in DOMAIN calls : history'[i + k].role = "tool" /\ history'[i + k].name = calls[k]
      <4>1. \A k \in DOMAIN calls : k <= answered + 1
        BY <1>a, <2>3
      <4> QED
        BY <1>8, <4>1
    <3>3. i + Len(calls) <= Len(history') /\ ~(i + Len(calls) < Len(history'))
      BY <1>a, <2>3 DEF n
    <3> QED
      BY <3>1, <3>2, <3>3 DEF AnsweredFrom
  <2>5. ASSUME NEW j \in DOMAIN history', Asks(j)' PROVE AnsweredFrom(j)'
    <3>1. CASE j < i
      BY <1>9, <2>5, <3>1
    <3>2. CASE j = i
      BY <2>4, <3>2
    <3>3. CASE j > i
      <4>1. j - i \in DOMAIN calls /\ i + (j - i) = j /\ j - i <= answered + 1
        BY <1>a, <2>3, <2>5, <3>3, SMTT(30)
      <4>2. history'[j].role = "tool"
        BY <1>8, <4>1
      <4> QED
        BY <2>5, <4>2 DEF Asks
    <3> QED
      BY <1>a, <2>5, <3>1, <3>2, <3>3
  <2> QED
    BY <2>1, <2>5 DEF ConversationInv
<1>11. CASE Tail(pending) # <<>>
  <2>1. pc' = "calls"
    BY <1>11 DEF NextCall
  <2>2. /\ Len(pending') = Len(pending) - 1
        /\ \A k \in 1..(Len(pending) - 1) : pending'[k] = pending[k + 1]
    BY <1>1
  <2>3. Len(history') - i = answered + 1
    BY <1>a
  <2>4. Len(pending') = Len(calls) - (answered + 1)
    BY <1>a, <1>b, <2>2 DEF n
  <2>5. ASSUME NEW k \in DOMAIN calls, ~(k <= answered + 1)
        PROVE  pending'[k - (answered + 1)] = calls[k]
    <3>1. k \in Int /\ k <= n /\ n \in Int
      BY <1>a
    <3>2. Len(pending) - 1 = n - (answered + 1)
      BY <1>a, <1>b
    <3> DEFINE d == k - (answered + 1)
    <3>3. d \in 1..(n - (answered + 1)) /\ d + 1 = k - answered /\ ~(k <= answered)
      BY <1>c, <2>5, <3>1
    <3> HIDE DEF d
    <3>4. pending'[d] = pending[d + 1]
      BY <2>2, <3>2, <3>3
    <3>5. pending'[d] = calls[k]
      BY <1>6, <3>3, <3>4
    <3> QED
      BY <3>5 DEF d
  <2>6. Answering(i)'
    <3>1. calls = history'[i].calls
      BY <1>7 DEF calls
    <3> HIDE DEF answered
    <3> QED
      BY <1>7, <1>8, <2>3, <2>4, <2>5, <3>1 DEF Answering
  <2> QED
    BY <1>7, <1>9, <2>1, <2>6 DEF ConversationInv
<1> QED
  BY <1>10, <1>11

-----------------------------------------------------------------------------
(* The failure counts.                                                     *)

LEMMA RejectedAre ==
  ASSUME NEW name, history \in Seq(Message)
  PROVE  /\ IsFiniteSet(RejectedSinceRan(name))
         /\ RejectedSinceRan(name) \subseteq 1..Len(history)
         /\ Len(history) + 1 \notin RejectedSinceRan(name)
<1>1. Len(history) \in Nat /\ RejectedSinceRan(name) \subseteq 1..Len(history)
  BY DEF RejectedSinceRan
<1>2. IsFiniteSet(1..Len(history))
  BY <1>1, FS_Interval
<1>3. IsFiniteSet(RejectedSinceRan(name))
  BY <1>1, <1>2, FS_Subset
<1> QED
  BY <1>1, <1>3

\* What one more message does to the rejected calls of a tool.
LEMMA RejectedStep ==
  ASSUME NEW message, Says(message), NEW name
  PROVE  /\ (\A result \in {"bad", "ran"} : message # ToolResult(name, result)) =>
              RejectedSinceRan(name)' = RejectedSinceRan(name)
         /\ message = ToolResult(name, "ran") => RejectedSinceRan(name)' = {}
         /\ message = ToolResult(name, "bad") =>
              RejectedSinceRan(name)' = RejectedSinceRan(name) \cup {Len(history) + 1}
<1>0. PICK h : h = Len(history)
  OBVIOUS
<1>1. /\ h \in Nat /\ DOMAIN history = 1..h /\ DOMAIN history' = 1..(h + 1)
      /\ \A i \in 1..h : history'[i] = history[i]
      /\ history'[h + 1] = message
      /\ message \in Message
  BY <1>0, Said DEF Says
<1>2. \A i : i \in 1..(h + 1) <=> i \in 1..h \/ i = h + 1
  BY <1>1
<1>3. \A i \in 1..h : i < h + 1 /\ ~(h + 1 < i)
  BY <1>1
<1>4. \A i \in 1..h, result \in {"bad", "ran"} : IsResult(i, name, result)' <=> IsResult(i, name, result)
  BY <1>1 DEF IsResult
<1>5. ASSUME NEW result \in {"bad", "ran"}
      PROVE  IsResult(h + 1, name, result)' <=> message = ToolResult(name, result)
  <2>1. message.role = "tool" => message = [role |-> "tool", name |-> message.name, result |-> message.result]
    BY <1>1 DEF Message
  <2>2. (history'[h + 1].role = "tool" /\ history'[h + 1].name = name /\ history'[h + 1].result = result)
          <=> message = ToolResult(name, result)
    BY <1>1, <2>1 DEF ToolResult
  <2> QED
    BY <1>1, <2>2 DEF IsResult
<1>6. RejectedSinceRan(name)' =
        {i \in 1..(h + 1) :
           IsResult(i, name, "bad")' /\ \A j \in 1..(h + 1) : IsResult(j, name, "ran")' => j < i}
  BY <1>1 DEF RejectedSinceRan
<1>7. RejectedSinceRan(name) =
        {i \in 1..h : IsResult(i, name, "bad") /\ \A j \in 1..h : IsResult(j, name, "ran") => j < i}
  BY <1>1 DEF RejectedSinceRan
<1> DEFINE S == RejectedSinceRan(name)'
           R == RejectedSinceRan(name)
<1> HIDE DEF S, R
<1>8. ASSUME message # ToolResult(name, "ran"), NEW i \in 1..h
      PROVE  i \in S <=> i \in R
  BY <1>2, <1>4, <1>5, <1>6, <1>7, <1>8 DEF S, R
<1>9. \A i : (i \in S => i \in 1..(h + 1)) /\ (i \in R => i \in 1..h)
  BY <1>6, <1>7 DEF S, R
<1>10. ASSUME \A result \in {"bad", "ran"} : message # ToolResult(name, result)
       PROVE  S = R
  <2>1. h + 1 \notin S
    BY <1>5, <1>6, <1>10 DEF S
  <2> QED
    BY <1>2, <1>8, <1>9, <1>10, <2>1
<1>11. ASSUME message = ToolResult(name, "ran") PROVE S = {}
  <2>1. IsResult(h + 1, name, "ran")' /\ ~IsResult(h + 1, name, "bad")'
    BY <1>5, <1>11 DEF ToolResult
  <2>2. h + 1 \notin S
    BY <1>6, <2>1 DEF S
  <2>3. \A i \in 1..h : i \notin S
    BY <1>2, <1>3, <1>6, <2>1 DEF S
  <2> QED
    BY <1>2, <1>9, <2>2, <2>3
<1>12. ASSUME message = ToolResult(name, "bad") PROVE S = R \cup {h + 1}
  <2>1. IsResult(h + 1, name, "bad")' /\ ~IsResult(h + 1, name, "ran")'
    BY <1>5, <1>12 DEF ToolResult
  <2>2. h + 1 \in S
    BY <1>1, <1>2, <1>3, <1>6, <2>1 DEF S
  <2>3. message # ToolResult(name, "ran")
    BY <1>12 DEF ToolResult
  <2> QED
    BY <1>2, <1>8, <1>9, <2>2, <2>3
<1> QED
  BY <1>0, <1>10, <1>11, <1>12 DEF S, R

\* A message that is no result of a tool leaves every count right.
LEMMA CountsKept ==
  ASSUME FailuresAreConsecutive, NEW message, Says(message), UNCHANGED parseFailures,
         \A name \in Tools, result \in {"bad", "ran"} : message # ToolResult(name, result)
  PROVE  FailuresAreConsecutive'
<1>1. ASSUME NEW name \in Tools PROVE RejectedSinceRan(name)' = RejectedSinceRan(name)
  BY RejectedStep
<1>2. \A name \in Tools : Cardinality(RejectedSinceRan(name))' = Cardinality(RejectedSinceRan(name))
  BY <1>1
<1> QED
  BY <1>2 DEF FailuresAreConsecutive

\* A result of one tool leaves the counts of the others right.
LEMMA CountsOfOthers ==
  ASSUME FailuresAreConsecutive, NEW name \in Tools, NEW result \in {"bad", "ran"},
         Says(ToolResult(name, result)), NEW count,
         parseFailures \in [Names -> Int],
         parseFailures' = [parseFailures EXCEPT ![name] = count],
         count = Cardinality(RejectedSinceRan(name)')
  PROVE  FailuresAreConsecutive'
<1> SUFFICES ASSUME NEW other \in Tools
             PROVE  parseFailures'[other] = Cardinality(RejectedSinceRan(other)')
  BY DEF FailuresAreConsecutive
<1>1. name \in Names /\ other \in Names
  BY DEF Names
<1>2. CASE other = name
  BY <1>1, <1>2
<1>3. CASE other # name
  <2>1. \A outcome \in {"bad", "ran"} : ToolResult(name, result) # ToolResult(other, outcome)
    BY <1>3 DEF ToolResult
  <2>2. RejectedSinceRan(other)' = RejectedSinceRan(other)
    BY <2>1, RejectedStep
  <2>3. parseFailures'[other] = parseFailures[other]
    BY <1>1, <1>3
  <2>4. parseFailures[other] = Cardinality(RejectedSinceRan(other))
    BY DEF FailuresAreConsecutive
  <2> QED
    BY <2>2, <2>3, <2>4
<1> QED
  BY <1>2, <1>3

-----------------------------------------------------------------------------
(* The story the log, the conversation and the counters tell.              *)

LogInv == LedgerMatchesLog /\ MissingInv /\ ConversationInv /\ FailuresAreConsecutive

LEMMA LogInit == Init => LogInv
<1> SUFFICES ASSUME Init PROVE LogInv
  OBVIOUS
<1>1. LedgerMatchesLog
  <2>1. llmCalls = <<>> /\ ledger = [tokens |-> 0, cost |-> 0, missing |-> 0]
    BY DEF Init
  <2>2. /\ [i \in DOMAIN llmCalls |-> TokensOf(llmCalls[i])] = <<>>
        /\ [i \in DOMAIN llmCalls |-> CostOf(llmCalls[i])] = <<>>
        /\ {i \in DOMAIN llmCalls : llmCalls[i] = NoUsage} = {}
    BY <2>1
  <2>3. Cardinality({}) = 0
    BY FS_EmptySet
  <2> QED
    BY <2>1, <2>2, <2>3, TotalOfNone DEF LedgerMatchesLog
<1>2. MissingInv
  BY AgentLoopAssumption DEF Init, MissingInv
<1>3. \A i \in DOMAIN history : i \in {1, 2} /\ history[i].role \in {"system", "user"}
  BY DEF Init, System, User
<1>4. ConversationInv
  BY <1>3 DEF Init, ConversationInv, Asks
<1>5. FailuresAreConsecutive
  <2> SUFFICES ASSUME NEW name \in Tools
               PROVE  parseFailures[name] = Cardinality(RejectedSinceRan(name))
    BY DEF FailuresAreConsecutive
  <2>1. RejectedSinceRan(name) = {}
    BY <1>3 DEF RejectedSinceRan, IsResult
  <2>2. parseFailures[name] = 0
    BY DEF Init, Names
  <2> QED
    BY <2>1, <2>2, FS_EmptySet
<1> QED
  BY <1>1, <1>2, <1>4, <1>5 DEF LogInv

MetersNothing ==
  /\ ledger' = ledger /\ llmCalls' = llmCalls /\ missingUsage' = missingUsage
  /\ exit' = exit \/ (exit' # "UsageMissing" /\ exit = "running")
SaysNothing ==
  /\ history' = history /\ parseFailures' = parseFailures
  /\ pc' = "done" \/ (pc \in {"loop", "request"} /\ pc' \in {"loop", "request"})

\* A step that meters nothing leaves the log and what is derived from it alone.
LEMMA Unlogged ==
  ASSUME LogInv, MetersNothing
  PROVE  LedgerMatchesLog' /\ MissingInv'
<1> USE DEF MetersNothing
<1>1. LedgerMatchesLog'
  BY DEF LogInv, LedgerMatchesLog
<1>2. exit' = "UsageMissing" <=> exit = "UsageMissing"
  OBVIOUS
<1> QED
  BY <1>1, <1>2 DEF LogInv, MissingInv

\* A step that says nothing leaves the conversation and its counts alone.
LEMMA Unsaid ==
  ASSUME LogInv, SaysNothing
  PROVE  ConversationInv' /\ FailuresAreConsecutive'
<1> USE DEF SaysNothing
<1>1. ConversationInv'
  BY DEF LogInv, ConversationInv, Asks, AnsweredFrom
<1>2. FailuresAreConsecutive'
  BY DEF LogInv, FailuresAreConsecutive, RejectedSinceRan, IsResult
<1> QED
  BY <1>1, <1>2

LEMMA LogStep == LoopInv /\ LogInv /\ [Next]_vars => LogInv'
<1> SUFFICES ASSUME LoopInv, LogInv, [Next]_vars PROVE LogInv'
  OBVIOUS
<1> USE DEF LogInv
<1>1. CASE StopOnBudget
  <2>1. MetersNothing /\ SaysNothing
    BY <1>1 DEF MetersNothing, SaysNothing, StopOnBudget, Return, LoopInv
  <2> QED
    BY <2>1, Unlogged, Unsaid
<1>2. CASE StopOnCeiling
  <2>1. MetersNothing /\ SaysNothing
    BY <1>2 DEF MetersNothing, SaysNothing, StopOnCeiling, Return, LoopInv
  <2> QED
    BY <2>1, Unlogged, Unsaid
<1>3. CASE StartCall
  <2>1. MetersNothing /\ SaysNothing
    BY <1>3 DEF MetersNothing, SaysNothing, StartCall
  <2> QED
    BY <2>1, Unlogged, Unsaid
<1>4. CASE Retry
  <2>1. MetersNothing /\ SaysNothing
    BY <1>4 DEF MetersNothing, SaysNothing, Retry
  <2> QED
    BY <2>1, Unlogged, Unsaid
<1>5. ASSUME NEW reason \in {"RequestFailed", "Exhausted"}, CallFails(reason)
      PROVE  LogInv'
  <2>1. MetersNothing /\ SaysNothing
    BY <1>5 DEF MetersNothing, SaysNothing, CallFails, Return, LoopInv
  <2> QED
    BY <2>1, Unlogged, Unsaid
<1>6. ASSUME NEW usage \in Usages \cup {NoUsage}, RespondUnmetered(usage)
      PROVE  LogInv'
  <2>1. Meter(usage) /\ usage \in Records
    BY <1>6 DEF RespondUnmetered, Records
  <2>2. LedgerMatchesLog' /\ MissingInv'
    BY <1>6, <2>1, LedgerStep, MissingStep DEF RespondUnmetered, Return
  <2>3. ConversationInv' /\ FailuresAreConsecutive'
    <3>1. SaysNothing
      BY <1>6, <2>1 DEF SaysNothing, RespondUnmetered, Return, Meter
    <3> QED
      BY <3>1, Unsaid
  <2> QED
    BY <2>2, <2>3
<1>7. ASSUME NEW usage \in Usages \cup {NoUsage}, RespondFinal(usage)
      PROVE  LogInv'
  <2>1. Meter(usage) /\ usage \in Records
    BY <1>7 DEF RespondFinal, Records
  <2>2. MissingAfter(usage) \in Int /\ MissingAfter(usage) < CONSECUTIVE_FAILURE_LIMIT
    BY <1>7 DEF RespondFinal, MissingAfter, LoopInv, TypeOK
  <2>3. LedgerMatchesLog' /\ MissingInv'
    BY <1>7, <2>1, <2>2, AgentLoopAssumption, LedgerStep, MissingStep DEF RespondFinal, Return
  <2>4. ConversationInv'
    BY <1>7 DEF RespondFinal, Return, ConversationInv
  <2>5. FailuresAreConsecutive'
    <3>1. Says(Assistant(<<>>))
      BY <1>7 DEF RespondFinal, Says, Assistant, Message, LoopInv, TypeOK
    <3>2. \A name \in Tools, result \in {"bad", "ran"} : Assistant(<<>>) # ToolResult(name, result)
      BY DEF Assistant, ToolResult
    <3> QED
      BY <2>1, <3>1, <3>2, CountsKept DEF Meter
  <2> QED
    BY <2>3, <2>4, <2>5
<1>8. ASSUME NEW usage \in Usages \cup {NoUsage}, NEW calls \in CallLists,
             RespondCalls(usage, calls)
      PROVE  LogInv'
  <2>1. Meter(usage) /\ usage \in Records /\ pc = "request" /\ exit' = "running"
    BY <1>8 DEF RespondCalls, Records, Meter, LoopInv
  <2>2. MissingAfter(usage) \in Int /\ MissingAfter(usage) < CONSECUTIVE_FAILURE_LIMIT
    BY <1>8 DEF RespondCalls, MissingAfter, LoopInv, TypeOK
  <2>3. LedgerMatchesLog' /\ MissingInv'
    BY <2>1, <2>2, AgentLoopAssumption, LedgerStep, MissingStep
  <2>4. history' = Append(history, Assistant(calls)) /\ pending' = calls /\ pc' = "calls"
    BY <1>8 DEF RespondCalls
  <2>5. ConversationInv'
    BY <2>1, <2>4, TurnOpens DEF ConversationInv
  <2>6. FailuresAreConsecutive'
    <3>1. Says(Assistant(calls))
      BY <2>4, AgentLoopAssumption DEF Says, Assistant, Message, LoopInv, TypeOK
    <3>2. \A name \in Tools, result \in {"bad", "ran"} : Assistant(calls) # ToolResult(name, result)
      BY DEF Assistant, ToolResult
    <3> QED
      BY <2>1, <3>1, <3>2, CountsKept DEF Meter
  <2> QED
    BY <2>3, <2>5, <2>6
<1>9. ASSUME pc = "calls", NEW result \in Results, Answer(Head(pending), result)
      PROVE  Head(pending) \in Names /\ Says(ToolResult(Head(pending), result))
  <2>1. Head(pending) \in Names
    BY <1>9 DEF LoopInv, TypeOK
  <2> QED
    BY <1>9, <2>1 DEF Answer, Says, ToolResult, Message, LoopInv, TypeOK
<1>10. parseFailures \in [Names -> Int] /\ \A name \in Tools : name \in Names
  BY AgentLoopAssumption DEF LoopInv, TypeOK, Names
<1>11. CASE RunTool
  <2>1. pc = "calls" /\ Answer(Head(pending), "ran") /\ "ran" \in Results /\ Head(pending) \in Tools
    BY <1>11 DEF RunTool, Results
  <2>2. LedgerMatchesLog' /\ MissingInv'
    <3>1. MetersNothing
      BY <1>11 DEF MetersNothing, RunTool, NextCall
    <3> QED
      BY <3>1, Unlogged
  <2>3. ConversationInv'
    BY <1>11, <2>1, TurnGoesOn DEF RunTool
  <2>4. FailuresAreConsecutive'
    <3>1. PICK name \in Tools : name = Head(pending)
      BY <2>1
    <3>2. Says(ToolResult(name, "ran"))
      BY <1>9, <2>1, <3>1
    <3>3. RejectedSinceRan(name)' = {}
      BY <3>2, RejectedStep
    <3>4. Cardinality(RejectedSinceRan(name)') = 0
      BY <3>3, FS_EmptySet
    <3>5. parseFailures' = [parseFailures EXCEPT ![name] = 0]
      BY <1>11, <3>1 DEF RunTool
    <3> QED
      BY <1>10, <3>2, <3>4, <3>5, CountsOfOthers
  <2> QED
    BY <2>2, <2>3, <2>4
<1>12. CASE NameUnknown
  <2>1. pc = "calls" /\ Answer(Head(pending), "unknown") /\ "unknown" \in Results /\ Head(pending) \notin Tools
    BY <1>12 DEF NameUnknown, Results
  <2>2. LedgerMatchesLog' /\ MissingInv'
    <3>1. MetersNothing
      BY <1>12 DEF MetersNothing, NameUnknown, NextCall
    <3> QED
      BY <3>1, Unlogged
  <2>3. ConversationInv'
    BY <1>12, <2>1, TurnGoesOn DEF NameUnknown
  <2>4. FailuresAreConsecutive'
    <3>1. Says(ToolResult(Head(pending), "unknown"))
      BY <1>9, <2>1
    <3>2. \A name \in Tools, result \in {"bad", "ran"} :
             ToolResult(Head(pending), "unknown") # ToolResult(name, result)
      BY DEF ToolResult
    <3> QED
      BY <1>12, <3>1, <3>2, CountsKept DEF NameUnknown
  <2> QED
    BY <2>2, <2>3, <2>4
<1>13. CASE RejectArguments
  <2>1. pc = "calls" /\ Answer(Head(pending), "bad") /\ "bad" \in Results /\ Head(pending) \in Tools
    BY <1>13 DEF RejectArguments, Results
  <2>2. Return("BadArguments") \/ NextCall
    BY <1>13 DEF RejectArguments
  <2>3. LedgerMatchesLog' /\ MissingInv'
    <3>1. MetersNothing
      BY <1>13, <2>1, <2>2 DEF MetersNothing, RejectArguments, NextCall, Return, LoopInv
    <3> QED
      BY <3>1, Unlogged
  <2>4. ConversationInv'
    BY <2>1, <2>2, TurnGoesOn DEF Return, ConversationInv
  <2>5. FailuresAreConsecutive'
    <3>1. PICK name \in Tools : name = Head(pending)
      BY <2>1
    <3>2. Says(ToolResult(name, "bad"))
      BY <1>9, <2>1, <3>1
    <3>3. RejectedSinceRan(name)' = RejectedSinceRan(name) \cup {Len(history) + 1}
      BY <3>2, RejectedStep
    <3>4. Cardinality(RejectedSinceRan(name)') = Cardinality(RejectedSinceRan(name)) + 1
      BY <3>3, RejectedAre, FS_AddElement DEF LoopInv, TypeOK
    <3>5. parseFailures[name] + 1 = Cardinality(RejectedSinceRan(name)')
      BY <3>4 DEF FailuresAreConsecutive
    <3>6. parseFailures' = [parseFailures EXCEPT ![name] = parseFailures[name] + 1]
      BY <1>13, <3>1 DEF RejectArguments
    <3> QED
      BY <1>10, <3>2, <3>5, <3>6, CountsOfOthers
  <2> QED
    BY <2>3, <2>4, <2>5
<1>14. CASE UNCHANGED vars
  <2>1. LedgerMatchesLog' /\ MissingInv'
    <3>1. MetersNothing
      BY <1>14 DEF MetersNothing, vars
    <3> QED
      BY <3>1, Unlogged
  <2>2. ConversationInv'
    BY <1>14 DEF vars, ConversationInv, Asks, AnsweredFrom, Answering
  <2>3. FailuresAreConsecutive'
    BY <1>14 DEF vars, FailuresAreConsecutive, RejectedSinceRan, IsResult
  <2> QED
    BY <2>1, <2>2, <2>3
<1> QED
  BY <1>1, <1>2, <1>3, <1>4, <1>5, <1>6, <1>7, <1>8, <1>11, <1>12, <1>13, <1>14 DEF Next

\* Whatever the provider answers and whatever the tools make of it, the ledger
\* says what the LLM_CALL events say, every request is sent with each earlier
\* call answered, a tool's failure count is the calls of it that were rejected
\* since it last ran, and a run ends for want of usage exactly when the last
\* responses had none (loop.rs, run; llm/mod.rs, UsageLedger).
THEOREM LogStaysFaithful == Spec => []LogIsFaithful
<1>1. LoopInv /\ LogInv => LogIsFaithful
  BY MissingIsTail DEF LogInv, ConversationInv, LogIsFaithful, EveryCallAnswered, Asks
<1>2. LoopInv /\ LogInv /\ [Next]_vars => (LoopInv /\ LogInv)'
  BY LoopStep, LogStep
<1> QED
  BY LoopInit, LogInit, <1>1, <1>2, PTL DEF Spec
=============================================================================
