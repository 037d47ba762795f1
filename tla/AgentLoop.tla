------------------------------ MODULE AgentLoop ------------------------------
(***************************************************************************)
(* The agent loop of `codemason run`: src/loop.rs, with the retries of     *)
(* llm::Client::complete and the UsageLedger of src/llm/mod.rs.            *)
(*                                                                         *)
(* One thread alternates between the provider and the tools.  What the     *)
(* provider answers (a status, a usage record or none, a list of tool      *)
(* calls) and what a tool does with its arguments are inputs; everything   *)
(* the loop decides from them is here.  Abstracted: message text, tool     *)
(* effects, backoff durations, stale-result elision (it rewrites the text  *)
(* that is sent and never `history`).                                      *)
(***************************************************************************)
EXTENDS Integers, Sequences, FiniteSets

CONSTANTS
  Tools,                      \* tool names in the registry
  UnknownTool,                \* a name the registry does not hold
  Usages,                     \* usage records a provider may report
  NoUsage,                    \* a response that carries none
  CallLists,                  \* tool-call lists a response may carry
  MaxIterations,              \* LoopConfig.max_iterations
  BudgetTokens,               \* LoopConfig.budget_tokens
  BudgetCost, NoCap,          \* LoopConfig.budget_usd, NoCap for None
  MaxCallTokens,              \* the largest usage in Usages
  CONSECUTIVE_FAILURE_LIMIT,
  MAX_ATTEMPTS

Names == Tools \cup {UnknownTool}

ASSUME AgentLoopAssumption ==
  /\ UnknownTool \notin Tools
  /\ Usages \subseteq [tokens : 0..MaxCallTokens, cost : Nat]
  /\ NoUsage \notin Usages
  /\ CallLists \subseteq Seq(Names)
  /\ MaxIterations \in Nat /\ BudgetTokens \in Nat /\ MaxCallTokens \in Nat
  /\ BudgetCost # NoCap => BudgetCost \in Int
  /\ CONSECUTIVE_FAILURE_LIMIT \in Nat \ {0}
  /\ MAX_ATTEMPTS \in Nat \ {0}

VARIABLES
  pc,             \* "loop" top of the loop, "request" in complete(),
                  \* "calls" answering a turn's tool calls, "done" returned
  exit,           \* why run() returned, "running" until then
  iterations,
  attempt,        \* HTTP attempts of the current complete()
  ledger,         \* UsageLedger of the run's one model
  missingUsage,   \* consecutive_missing_usage
  parseFailures,  \* parse_failures, 0 where the map has no entry
  history,        \* the conversation
  pending,        \* this turn's tool calls still to be answered
  llmCalls        \* the usage field of every LLM_CALL event, in order

vars == <<pc, exit, iterations, attempt, ledger, missingUsage, parseFailures,
          history, pending, llmCalls>>

-----------------------------------------------------------------------------
System == [role |-> "system"]
User == [role |-> "user"]
Assistant(calls) == [role |-> "assistant", calls |-> calls]
ToolResult(name, result) == [role |-> "tool", name |-> name, result |-> result]

Results == {"ran", "unknown", "bad"}

Message ==
       [role : {"system", "user"}]
  \cup [role : {"assistant"}, calls : Seq(Names)]
  \cup [role : {"tool"}, name : Names, result : Results]

\* Each reason for returning, and the LoopExit variant it is reported as.
ProviderReasons == {"RequestFailed", "Exhausted", "UsageMissing", "BadArguments"}
Exits == {"Completed", "BudgetExceeded", "MaxIterationsExceeded"} \cup ProviderReasons
LoopExit(e) == IF e \in ProviderReasons THEN "ProviderError" ELSE e

TypeOK ==
  /\ pc \in {"loop", "request", "calls", "done"}
  /\ exit \in {"running"} \cup Exits
  /\ iterations \in 0..MaxIterations
  /\ attempt \in 0..MAX_ATTEMPTS
  /\ ledger \in [tokens : Nat, cost : Nat, missing : Nat]
  /\ missingUsage \in 0..CONSECUTIVE_FAILURE_LIMIT
  /\ parseFailures \in [Names -> 0..CONSECUTIVE_FAILURE_LIMIT]
  /\ history \in Seq(Message)
  /\ pending \in Seq(Names)
  /\ llmCalls \in Seq(Usages \cup {NoUsage})

Init ==
  /\ pc = "loop"
  /\ exit = "running"
  /\ iterations = 0
  /\ attempt = 0
  /\ ledger = [tokens |-> 0, cost |-> 0, missing |-> 0]
  /\ missingUsage = 0
  /\ parseFailures = [n \in Names |-> 0]
  /\ history = <<System, User>>
  /\ pending = <<>>
  /\ llmCalls = <<>>

Return(reason) == pc' = "done" /\ exit' = reason

-----------------------------------------------------------------------------
(* The top of the loop: budget first, then the ceiling, then a call.       *)

BudgetBreachedPastTheCap ==
  \/ BudgetTokens = 0
  \/ BudgetCost # NoCap /\ (BudgetCost <= 0 \/ ledger.cost >= BudgetCost)
  \/ ledger.tokens > BudgetTokens

BudgetBreached ==
  \/ BudgetTokens = 0
  \/ BudgetCost # NoCap /\ (BudgetCost <= 0 \/ ledger.cost >= BudgetCost)
  \/ ledger.tokens >= BudgetTokens

StopOnBudget ==
  /\ pc = "loop"
  /\ BudgetBreached
  /\ Return("BudgetExceeded")
  /\ UNCHANGED <<iterations, attempt, ledger, missingUsage, parseFailures,
                 history, pending, llmCalls>>

StopOnCeilingFirst ==
  /\ pc = "loop"
  /\ iterations >= MaxIterations
  /\ Return("MaxIterationsExceeded")
  /\ UNCHANGED <<iterations, attempt, ledger, missingUsage, parseFailures,
                 history, pending, llmCalls>>

StopOnCeiling ==
  /\ pc = "loop"
  /\ ~BudgetBreached
  /\ iterations >= MaxIterations
  /\ Return("MaxIterationsExceeded")
  /\ UNCHANGED <<iterations, attempt, ledger, missingUsage, parseFailures,
                 history, pending, llmCalls>>

StartCall ==
  /\ pc = "loop"
  /\ ~BudgetBreached
  /\ iterations < MaxIterations
  /\ iterations' = iterations + 1
  /\ attempt' = 1
  /\ pc' = "request"
  /\ UNCHANGED <<exit, ledger, missingUsage, parseFailures, history, pending, llmCalls>>

-----------------------------------------------------------------------------
(* Client::complete.  Only 429 and 5xx are retried.                        *)

RetryOnceMore ==
  /\ pc = "request"
  /\ attempt <= MAX_ATTEMPTS
  /\ attempt' = attempt + 1
  /\ UNCHANGED <<pc, exit, iterations, ledger, missingUsage, parseFailures,
                 history, pending, llmCalls>>

RetryForever ==
  /\ pc = "request"
  /\ attempt' = IF attempt < MAX_ATTEMPTS THEN attempt + 1 ELSE 1
  /\ UNCHANGED <<pc, exit, iterations, ledger, missingUsage, parseFailures,
                 history, pending, llmCalls>>

Retry ==
  /\ pc = "request"
  /\ attempt < MAX_ATTEMPTS
  /\ attempt' = attempt + 1
  /\ UNCHANGED <<pc, exit, iterations, ledger, missingUsage, parseFailures,
                 history, pending, llmCalls>>

\* The last attempt's retryable status, or on any attempt a status that is
\* not retryable, a transport error, an unparsable body or no choices.
CallFails(reason) ==
  /\ pc = "request"
  /\ reason = "Exhausted" => attempt >= MAX_ATTEMPTS
  /\ Return(reason)
  /\ UNCHANGED <<iterations, attempt, ledger, missingUsage, parseFailures,
                 history, pending, llmCalls>>

-----------------------------------------------------------------------------
(* A response: metered before anything else is looked at.                  *)

RecordLatest(usage) ==
  IF usage = NoUsage
  THEN [ledger EXCEPT !.missing = @ + 1]
  ELSE [ledger EXCEPT !.tokens = usage.tokens, !.cost = usage.cost]

Record(usage) ==
  IF usage = NoUsage
  THEN [ledger EXCEPT !.missing = @ + 1]
  ELSE [ledger EXCEPT !.tokens = @ + usage.tokens, !.cost = @ + usage.cost]

MissingAfterCumulative(usage) ==
  IF usage = NoUsage THEN missingUsage + 1 ELSE missingUsage

MissingAfter(usage) == IF usage = NoUsage THEN missingUsage + 1 ELSE 0

Meter(usage) ==
  /\ pc = "request"
  /\ ledger' = Record(usage)
  /\ missingUsage' = MissingAfter(usage)
  /\ llmCalls' = Append(llmCalls, usage)
  /\ UNCHANGED <<iterations, attempt, parseFailures>>

RespondUnmetered(usage) ==
  /\ Meter(usage)
  /\ MissingAfter(usage) >= CONSECUTIVE_FAILURE_LIMIT
  /\ Return("UsageMissing")
  /\ UNCHANGED <<history, pending>>

RespondFinal(usage) ==
  /\ Meter(usage)
  /\ MissingAfter(usage) < CONSECUTIVE_FAILURE_LIMIT
  /\ history' = Append(history, Assistant(<<>>))
  /\ Return("Completed")
  /\ UNCHANGED pending

RespondCalls(usage, calls) ==
  /\ Meter(usage)
  /\ MissingAfter(usage) < CONSECUTIVE_FAILURE_LIMIT
  /\ calls # <<>>
  /\ history' = Append(history, Assistant(calls))
  /\ pending' = calls
  /\ pc' = "calls"
  /\ UNCHANGED exit

-----------------------------------------------------------------------------
(* The turn's tool calls, answered in order.                               *)

AnswerKeepingQuiet(name, result) ==
  /\ history' = IF result = "unknown" THEN history
                ELSE Append(history, ToolResult(name, result))
  /\ pending' = Tail(pending)

Answer(name, result) ==
  /\ history' = Append(history, ToolResult(name, result))
  /\ pending' = Tail(pending)

NextCall ==
  /\ pc' = IF Tail(pending) = <<>> THEN "loop" ELSE "calls"
  /\ UNCHANGED exit

RunToolForgetful ==
  /\ pc = "calls"
  /\ Head(pending) \in Tools
  /\ Answer(Head(pending), "ran")
  /\ UNCHANGED parseFailures
  /\ NextCall
  /\ UNCHANGED <<iterations, attempt, ledger, missingUsage, llmCalls>>

\* DispatchResult::Ran, whether the tool succeeded or returned an error text.
RunTool ==
  /\ pc = "calls"
  /\ Head(pending) \in Tools
  /\ Answer(Head(pending), "ran")
  /\ parseFailures' = [parseFailures EXCEPT ![Head(pending)] = 0]
  /\ NextCall
  /\ UNCHANGED <<iterations, attempt, ledger, missingUsage, llmCalls>>

NameUnknown ==
  /\ pc = "calls"
  /\ Head(pending) \notin Tools
  /\ Answer(Head(pending), "unknown")
  /\ NextCall
  /\ UNCHANGED <<iterations, attempt, ledger, missingUsage, parseFailures, llmCalls>>

\* The answer is pushed before the limit is looked at; at the limit run()
\* returns from inside the turn and the calls behind this one stay unanswered.
RejectArguments ==
  /\ pc = "calls"
  /\ Head(pending) \in Tools
  /\ Answer(Head(pending), "bad")
  /\ parseFailures' = [parseFailures EXCEPT ![Head(pending)] = @ + 1]
  /\ IF parseFailures'[Head(pending)] >= CONSECUTIVE_FAILURE_LIMIT
     THEN Return("BadArguments")
     ELSE NextCall
  /\ UNCHANGED <<iterations, attempt, ledger, missingUsage, llmCalls>>

-----------------------------------------------------------------------------
Next ==
  \/ StopOnBudget
  \/ StopOnCeiling
  \/ StartCall
  \/ Retry
  \/ \E reason \in {"RequestFailed", "Exhausted"} : CallFails(reason)
  \/ \E usage \in Usages \cup {NoUsage} :
       \/ RespondUnmetered(usage)
       \/ RespondFinal(usage)
       \/ \E calls \in CallLists : RespondCalls(usage, calls)
  \/ RunTool
  \/ NameUnknown
  \/ RejectArguments

\* The process runs until run() returns, and the provider answers or refuses
\* every HTTP request it is sent (src/llm/mod.rs sets no read timeout, so a
\* provider that never answers is outside this specification).
Spec == Init /\ [][Next]_vars /\ WF_vars(Next)

-----------------------------------------------------------------------------
(* Properties.                                                             *)

\* What has been paid for passes the token cap by less than one call, and
\* nothing at all is paid for under a cap of zero: the check before a call
\* (loop.rs, budget_breached) is the only thing that bounds spending, retries
\* and unmetered responses included.
SpendBounded ==
  /\ ledger.tokens = 0 \/ ledger.tokens < BudgetTokens + MaxCallTokens
  /\ BudgetTokens = 0 => llmCalls = <<>>

Total(amounts) ==
  LET upto[n \in 0..Len(amounts)] == IF n = 0 THEN 0 ELSE upto[n - 1] + amounts[n]
  IN  upto[Len(amounts)]
TokensOf(usage) == IF usage = NoUsage THEN 0 ELSE usage.tokens
CostOf(usage) == IF usage = NoUsage THEN 0 ELSE usage.cost

\* The ledger that the budget check and the report read says what the
\* LLM_CALL events say: the sums of what they report and the number of them
\* that report nothing.
LedgerMatchesLog ==
  /\ ledger.tokens = Total([i \in DOMAIN llmCalls |-> TokensOf(llmCalls[i])])
  /\ ledger.cost = Total([i \in DOMAIN llmCalls |-> CostOf(llmCalls[i])])
  /\ ledger.missing = Cardinality({i \in DOMAIN llmCalls : llmCalls[i] = NoUsage})

\* A request is only ever sent with every earlier tool call answered by one
\* tool message of its own, in the order of the calls, directly behind the
\* assistant message that made them (an OpenAI-compatible endpoint refuses
\* anything else).
AnsweredFrom(i) ==
  LET calls == history[i].calls
  IN  /\ i + Len(calls) <= Len(history)
      /\ \A k \in DOMAIN calls : history[i + k].role = "tool" /\ history[i + k].name = calls[k]
      /\ i + Len(calls) < Len(history) => history[i + Len(calls) + 1].role # "tool"
EveryCallAnswered ==
  pc = "request" =>
    \A i \in DOMAIN history : history[i].role = "assistant" => AnsweredFrom(i)

\* A tool's failure count is the number of its calls rejected since it last
\* ran, over the whole conversation: calls of other tools in between, and
\* turns in between, neither reset it nor count.
IsResult(i, name, result) ==
  history[i].role = "tool" /\ history[i].name = name /\ history[i].result = result
RejectedSinceRan(name) ==
  {i \in DOMAIN history :
     IsResult(i, name, "bad") /\ \A j \in DOMAIN history : IsResult(j, name, "ran") => j < i}
FailuresAreConsecutive ==
  \A name \in Tools : parseFailures[name] = Cardinality(RejectedSinceRan(name))

\* A run is ended for want of usage data exactly when its latest responses,
\* as many as the limit and no fewer, all came without it; any metered
\* response in between starts the count again.
UnmeteredTail ==
  {n \in 0..Len(llmCalls) :
     \A i \in (Len(llmCalls) - n + 1)..Len(llmCalls) : llmCalls[i] = NoUsage}
UnmeteredRunsEnd ==
  exit = "UsageMissing" <=> CONSECUTIVE_FAILURE_LIMIT \in UnmeteredTail

\* What the run log, the conversation and the counters say is one story: the
\* four facts above at once.
LogIsFaithful == LedgerMatchesLog /\ EveryCallAnswered /\ FailuresAreConsecutive /\ UnmeteredRunsEnd

\* run() returns: no answer of the provider's or the model's keeps it going.
RunReturns == <>(pc = "done")

\* The loop implements the contract of a metered run.
Contract ==
  INSTANCE MeteredRun WITH
    MaxCalls <- MaxIterations,
    Budget <- BudgetTokens,
    spent <- ledger.tokens,
    calls <- Len(llmCalls),
    status <- LoopExit(exit)
ImplementsContract == Contract!RunSpec
=============================================================================
