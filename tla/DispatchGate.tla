---------------------------- MODULE DispatchGate ----------------------------
(***************************************************************************)
(* supervisor/execute.rs: dispatch_level, and the Gate (a mutex and a      *)
(* condition variable) that bounds how many `codemason` processes run at   *)
(* once.  One thread per item of the level; the main thread spawns them in *)
(* order and joins them in order.                                          *)
(*                                                                         *)
(* A critical section of the mutex is one step.  Condvar::wait gives the   *)
(* mutex up and sleeps; a notified thread is "woken" until it holds the    *)
(* mutex again, and in between any other thread may take the permit it was *)
(* woken for.  std allows wait() to return with no notify at all.          *)
(*                                                                         *)
(* dispatch_item cannot panic (every failure of it is an ExecError), so no *)
(* thread dies between acquire() and release().                            *)
(***************************************************************************)
EXTENDS Integers, Sequences, FiniteSets

CONSTANTS
  ItemCount,    \* items of the level
  Configured,   \* values --max-concurrent may have, zero included
  Outcomes,     \* what dispatch_item may return
  NoOutcome

Items == 1..ItemCount

ASSUME DispatchGateAssumption ==
  /\ ItemCount \in Nat \ {0}
  /\ Configured \subseteq Nat
  /\ NoOutcome \notin Outcomes

VARIABLES
  max_concurrent,   \* DispatchConfig.max_concurrent
  free,             \* Gate.free
  thread,           \* where each item's thread is
  outcome,          \* what its dispatch_item returned
  spawned,          \* how many threads the main thread has spawned
  executions        \* what the main thread has joined so far

vars == <<max_concurrent, free, thread, outcome, spawned, executions>>

\* "acquire" about to lock; "waiting" asleep in Condvar::wait; "woken" awake
\* there, about to lock again; "running" its process exists; "release" about
\* to lock to give the permit back; "finished".
ThreadStates ==
  {"unborn", "acquire", "waiting", "woken", "running", "release", "finished"}

At(state) == {i \in Items : thread[i] = state}
Holding == At("running") \cup At("release")
PermitsUnfloored == max_concurrent

\* Gate::new: a limit of zero is treated as one.
Permits == IF max_concurrent = 0 THEN 1 ELSE max_concurrent

TypeOK ==
  /\ max_concurrent \in Configured
  /\ free \in Nat
  /\ thread \in [Items -> ThreadStates]
  /\ outcome \in [Items -> Outcomes \cup {NoOutcome}]
  /\ spawned \in 0..ItemCount
  /\ executions \in Seq([item_id : Items, result : Outcomes])

Init ==
  /\ max_concurrent \in Configured
  /\ free = Permits
  /\ thread = [i \in Items |-> "unborn"]
  /\ outcome = [i \in Items |-> NoOutcome]
  /\ spawned = 0
  /\ executions = <<>>

-----------------------------------------------------------------------------
Go(i, state) == thread' = [thread EXCEPT ![i] = state]

Spawn ==
  /\ spawned < ItemCount
  /\ spawned' = spawned + 1
  /\ Go(spawned', "acquire")
  /\ UNCHANGED <<max_concurrent, free, outcome, executions>>

\* Gate::acquire with no permit free: on entry, or on waking too late.
Sleep(i) ==
  /\ thread[i] \in {"acquire", "woken"}
  /\ free = 0
  /\ Go(i, "waiting")
  /\ UNCHANGED <<max_concurrent, free, outcome, spawned, executions>>

\* Without the loop around wait(): whoever wakes proceeds.
TakeOnWaking(i) ==
  /\ thread[i] = "woken" \/ (thread[i] = "acquire" /\ free > 0)
  /\ free' = IF free = 0 THEN 0 ELSE free - 1
  /\ Go(i, "running")
  /\ UNCHANGED <<max_concurrent, outcome, spawned, executions>>

Take(i) ==
  /\ thread[i] \in {"acquire", "woken"}
  /\ free > 0
  /\ free' = free - 1
  /\ Go(i, "running")
  /\ UNCHANGED <<max_concurrent, outcome, spawned, executions>>

SpuriousWake(i) ==
  /\ thread[i] = "waiting"
  /\ Go(i, "woken")
  /\ UNCHANGED <<max_concurrent, free, outcome, spawned, executions>>

\* dispatch_item returns: the process ended and its report was read, or not.
Finish(i) ==
  /\ thread[i] = "running"
  /\ Go(i, "release")
  /\ \E o \in Outcomes : outcome' = [outcome EXCEPT ![i] = o]
  /\ UNCHANGED <<max_concurrent, free, spawned, executions>>

\* notify_one lost: the permit comes back and nobody is told.
ReleaseQuietly(i) ==
  /\ thread[i] = "release"
  /\ free' = free + 1
  /\ Go(i, "finished")
  /\ UNCHANGED <<max_concurrent, outcome, spawned, executions>>

\* Releasing from both the thread and a guard's drop.
ReleaseTwice(i) ==
  /\ thread[i] = "release"
  /\ free' = free + 2
  /\ Go(i, "finished")
  /\ UNCHANGED <<max_concurrent, outcome, spawned, executions>>

\* Gate::release, and the end of the thread.  notify_one wakes one sleeper of
\* the system's choosing, and is lost when nobody sleeps.
Release(i) ==
  /\ thread[i] = "release"
  /\ free' = free + 1
  /\ IF At("waiting") = {}
     THEN Go(i, "finished")
     ELSE \E w \in At("waiting") :
            thread' = [thread EXCEPT ![i] = "finished", ![w] = "woken"]
  /\ UNCHANGED <<max_concurrent, outcome, spawned, executions>>

Joined(i) == [item_id |-> Len(executions) + 1, result |-> outcome[i]]

\* Collecting a result as soon as there is one, without joining its thread.
JoinEarly ==
  /\ spawned = ItemCount
  /\ Len(executions) < ItemCount
  /\ outcome[Len(executions) + 1] # NoOutcome
  /\ executions' = Append(executions, Joined(Len(executions) + 1))
  /\ UNCHANGED <<max_concurrent, free, thread, outcome, spawned>>

\* The handles are joined in the order of the items, after the last spawn.
Join ==
  /\ spawned = ItemCount
  /\ Len(executions) < ItemCount
  /\ thread[Len(executions) + 1] = "finished"
  /\ executions' = Append(executions, Joined(Len(executions) + 1))
  /\ UNCHANGED <<max_concurrent, free, thread, outcome, spawned>>

Step(i) == Sleep(i) \/ Take(i) \/ Finish(i) \/ Release(i)

Next == Spawn \/ Join \/ \E i \in Items : Step(i) \/ SpuriousWake(i)

\* The scheduler runs every thread that can move, and every child process
\* ends: execute.rs sets no timeout because a run is bounded from the inside.
\* Nothing is assumed of spurious wakeups.
Fairness == WF_vars(Spawn) /\ WF_vars(Join) /\ \A i \in Items : WF_vars(Step(i))

Spec == Init /\ [][Next]_vars /\ Fairness

-----------------------------------------------------------------------------
(* Properties.                                                             *)

Returned == Len(executions) = ItemCount

\* A permit is free or held by exactly one item: none is lost, none is made,
\* whatever is woken or stolen in between.
PermitsConserved == free + Cardinality(Holding) = Permits

\* No lost wakeup: while anyone sleeps, no more permits are free than there
\* are threads already awake to take them.  (Gate::release notifies one
\* thread per permit; a permit a newcomer steals needs no second notify.)
NoLostWakeup == At("waiting") # {} => free <= Cardinality(At("woken"))

\* Every result is its own item's, in the order the items were given and
\* whatever order they completed in; and when the level has returned, no
\* process of it is left.
ResultsAttributed ==
  /\ \A k \in DOMAIN executions :
       executions[k] = [item_id |-> k, result |-> outcome[k]]
  /\ Returned => \A i \in Items : thread[i] = "finished"

\* dispatch_level returns: no interleaving leaves a thread asleep for good.
LevelReturns == <>Returned

\* The level behaves as the hard gate it is documented to be: at most Permits
\* processes at once, each item exactly once, and a return behind them all.
Level ==
  INSTANCE HardGate WITH
    Jobs <- Items,
    limit <- Permits,
    active <- At("running"),
    returned <- Returned
ImplementsHardGate == Level!GateSpec
=============================================================================
