----------------------------- MODULE MeteredRun -----------------------------
(***************************************************************************)
(* What one `codemason run` promises whoever pays for it, and nothing      *)
(* about how: a run is a sequence of paid calls under a token cap and a    *)
(* call ceiling, and it stops for exactly one of four reasons.  The agent  *)
(* loop (AgentLoop.tla, src/loop.rs) is shown to implement this module.    *)
(***************************************************************************)
EXTENDS Integers

CONSTANTS
  MaxCalls,        \* the iteration ceiling
  Budget,          \* the token cap
  MaxCallTokens    \* the most one call can report

VARIABLES
  spent,           \* tokens paid for so far
  calls,           \* calls answered so far
  status           \* "running", or the LoopExit variant the run ended with

runVars == <<spent, calls, status>>

RunInit == spent = 0 /\ calls = 0 /\ status = "running"

\* One paid call.  It is only made below the cap and below the ceiling, and it
\* may be the last one: the answer can complete the run or condemn it.
Pay(tokens) ==
  /\ status = "running"
  /\ spent < Budget
  /\ calls < MaxCalls
  /\ spent' = spent + tokens
  /\ calls' = calls + 1
  /\ status' \in {"running", "Completed", "ProviderError"}

\* The provider, or the model's malformed calls, end the run unpaid.
Fail ==
  /\ status = "running"
  /\ status' = "ProviderError"
  /\ UNCHANGED <<spent, calls>>

\* The run stops itself, whichever limit it is at.  A cost cap may stop it
\* below the token cap, so the budget stop does not mention `spent`.
StopItself ==
  /\ status = "running"
  /\ status' \in {"BudgetExceeded", "MaxIterationsExceeded"}
  /\ status' = "MaxIterationsExceeded" => spent < Budget /\ calls >= MaxCalls
  /\ UNCHANGED <<spent, calls>>

RunNext ==
  \/ \E tokens \in 0..MaxCallTokens : Pay(tokens)
  \/ Fail
  \/ StopItself

RunSpec == RunInit /\ [][RunNext]_runVars
=============================================================================
