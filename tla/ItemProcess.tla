----------------------------- MODULE ItemProcess -----------------------------
(***************************************************************************)
(* One item as one `codemason run` process, and the thread that waits for  *)
(* it: dispatch_item and read_report of src/src/supervisor/execute.rs.     *)
(* DispatchGate has this as the one step from a permit to a result.        *)
(*                                                                         *)
(* The two meet in the process's exit status and in two pipes, of which    *)
(* the operating system holds PipeSize pieces each; a process that writes  *)
(* to a full pipe waits.  The process itself is external here: it asks its *)
(* model, writes diagnostics, prints one report and ends; it may be killed *)
(* or panic.                                                               *)
(***************************************************************************)
EXTENDS Integers, FiniteSets

CONSTANTS
  PipeSize,     \* what a pipe holds
  Diagnostics,  \* the pieces of stderr a run may write
  ReportSize,   \* the pieces of the report
  MaxCalls      \* --max-iterations

ProcessAssumption ==
  PipeSize \in Nat \ {0} /\ Diagnostics \in Nat /\ ReportSize \in Nat \ {0} /\ MaxCalls \in Nat \ {0}

VARIABLES
  process,  \* what the process does: "none", "working", "waiting" for its model, "printing", "ended"
  calls,    \* its calls to the model
  intended, \* the exit code it stops with and puts into its report
  logged,   \* pieces of stderr it wrote
  printed,  \* pieces of the report it wrote
  status,   \* what the operating system has of its end
  out, err, \* pieces in the two pipes
  got,      \* pieces the thread has read of each
  result    \* what dispatch_item returns

vars == <<process, calls, intended, logged, printed, status, out, err, got, result>>

Pending == [kind |-> "none"]
Spawn == [kind |-> "spawn"]
Output == [kind |-> "output"]
Unreadable == [kind |-> "unreadable"]
Report(code) == [kind |-> "report", code |-> code]

Signal == 1000   \* ended by a signal: status.code() is None
Panic == 101
Stops == {0, 1, 2, 3, 4, 5}
NoStatus == -2

Alive == process \in {"working", "waiting", "printing"}

----------------------------------------------------------------------------
(* The process.                                                            *)

Init ==
  /\ process = "none" /\ calls = 0 /\ intended = 0 /\ logged = 0 /\ printed = 0
  /\ status = NoStatus
  /\ out = 0 /\ err = 0 /\ got = [out |-> 0, err |-> 0]
  /\ result = Pending

Log ==
  /\ process = "working"
  /\ logged < Diagnostics /\ err < PipeSize
  /\ logged' = logged + 1 /\ err' = err + 1
  /\ UNCHANGED <<process, calls, intended, printed, status, out, got, result>>

\* A full pipe: what a run has to say it says before it goes on.
Blocked == logged < Diagnostics /\ err = PipeSize

AskModel ==
  /\ process = "working" /\ ~Blocked
  /\ calls < MaxCalls
  /\ process' = "waiting" /\ calls' = calls + 1
  /\ UNCHANGED <<intended, logged, printed, status, out, err, got, result>>

\* The connection has no read timeout.
ModelAnswers ==
  /\ process = "waiting"
  /\ process' = "working"
  /\ UNCHANGED <<calls, intended, logged, printed, status, out, err, got, result>>

\* A run may stop at any turn, and does when it has had its calls.
Stop ==
  /\ process = "working" /\ ~Blocked
  /\ \E code \in Stops : intended' = code
  /\ process' = "printing"
  /\ UNCHANGED <<calls, logged, printed, status, out, err, got, result>>

PrintReport ==
  /\ process = "printing"
  /\ printed < ReportSize /\ out < PipeSize
  /\ printed' = printed + 1 /\ out' = out + 1
  /\ UNCHANGED <<process, calls, intended, logged, status, err, got, result>>

Exit ==
  /\ process = "printing" /\ printed = ReportSize
  /\ process' = "ended" /\ status' = intended
  /\ UNCHANGED <<calls, intended, logged, printed, out, err, got, result>>

Killed ==
  /\ Alive
  /\ process' = "ended"
  /\ \E s \in {Signal, Panic} : status' = s
  /\ UNCHANGED <<calls, intended, logged, printed, out, err, got, result>>

----------------------------------------------------------------------------
(* The thread.                                                             *)

SpawnChild ==
  /\ process = "none" /\ result = Pending
  /\ process' = "working"
  /\ UNCHANGED <<calls, intended, logged, printed, status, out, err, got, result>>

SpawnFails ==
  /\ process = "none" /\ result = Pending
  /\ result' = Spawn
  /\ UNCHANGED <<process, calls, intended, logged, printed, status, out, err, got>>

\* stderr waits until stdout has ended.
OneAfterTheOther == process = "ended" /\ out = 0

\* wait_with_output reads whichever pipe has something.
Readable == process # "none" /\ result = Pending

ReadOut ==
  /\ process # "none" /\ result = Pending
  /\ out > 0
  /\ out' = out - 1 /\ got' = [got EXCEPT !.out = @ + 1]
  /\ UNCHANGED <<process, calls, intended, logged, printed, status, err, result>>

ReadErr ==
  /\ Readable
  /\ err > 0
  /\ err' = err - 1 /\ got' = [got EXCEPT !.err = @ + 1]
  /\ UNCHANGED <<process, calls, intended, logged, printed, status, out, result>>

\* What was there when the process ended is not waited for.
EndedOnly == process = "ended"

AtEnd == process = "ended" /\ out = 0 /\ err = 0

ExitCode == IF status = Signal THEN -1 ELSE status

\* The report's own field is taken.
ReportAsPrinted == IF got.out = ReportSize THEN Report(intended) ELSE Unreadable

\* Of two exit codes that differ, the operating system's.
ReadReport == IF got.out = ReportSize THEN Report(ExitCode) ELSE Unreadable

Return ==
  /\ result = Pending /\ AtEnd
  /\ result' = ReadReport
  /\ UNCHANGED <<process, calls, intended, logged, printed, status, out, err, got>>

\* Reading or waiting fails; the process is left to itself.
OutputFails ==
  /\ process # "none" /\ result = Pending
  /\ result' = Output
  /\ UNCHANGED <<process, calls, intended, logged, printed, status, out, err, got>>

----------------------------------------------------------------------------
Process == Log \/ AskModel \/ Stop \/ PrintReport \/ Exit
Thread == SpawnChild \/ SpawnFails \/ ReadOut \/ ReadErr \/ Return

Terminated == result # Pending /\ UNCHANGED vars

Next == Process \/ ModelAnswers \/ Killed \/ Thread \/ OutputFails \/ Terminated

\* A process that can go on does, a thread that has something to read reads it,
\* and the model answers: nothing bounds the wait for it, the supervisor takes
\* a run to be bounded from the inside (execute.rs:34).
Spec ==
  /\ Init /\ [][Next]_vars
  /\ WF_vars(Process) /\ WF_vars(Thread) /\ WF_vars(ModelAnswers)

----------------------------------------------------------------------------
(* Properties.                                                             *)

\* Nothing is read that was not written, and pipes hold what they can.
TypeOK ==
  /\ process \in {"none", "working", "waiting", "printing", "ended"}
  /\ calls \in 0..MaxCalls /\ intended \in Stops
  /\ out \in 0..PipeSize /\ err \in 0..PipeSize
  /\ got.out + out = printed /\ got.err + err = logged
  /\ printed <= ReportSize /\ logged <= Diagnostics
  /\ result.kind \in {"report", "unreadable"} => process = "ended"

Verifies(r) == r.kind = "report" /\ r.code \in {0, 2, 3}

\* An item goes on to its acceptance command only if its process ended by
\* itself with a code that says so: not when it was killed after the report
\* was out, whatever code the report holds (execute.rs:263).
OnlyAnEndIsAnEnd == Verifies(result) => status \in {0, 2, 3} /\ status = intended

\* A report that was printed in full is never taken for a dispatch failure,
\* which would discard a commit and pay for it again (execute.rs:27).
NoReportIsLost ==
  result = Unreadable => printed < ReportSize

\* Every dispatch returns: neither side waits for the other for good, however
\* much a run has to say (execute.rs:313).
EveryDispatchReturns == <>(result # Pending)
=============================================================================
