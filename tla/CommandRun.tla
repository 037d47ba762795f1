------------------------------ MODULE CommandRun ----------------------------
(***************************************************************************)
(* The run_command tool: src/src/tools/exec.rs.  A shell is started in a   *)
(* process group of its own with two pipes; a thread per pipe reads it     *)
(* into a shared buffer that keeps the last bytes only; the caller polls   *)
(* for the shell's exit until a deadline, kills the group when it passes,  *)
(* and joins the readers before it returns.                                *)
(*                                                                         *)
(* A pipe holds up to PipeSize chunks and blocks its writers when full.  A *)
(* command may start one process in the background, which stays in the     *)
(* group or leaves it, and which holds the pipes open while it lives.      *)
(***************************************************************************)
EXTENDS Naturals, FiniteSets, Sequences

CONSTANTS
  MaxChunks,  \* bound: chunks a command writes
  PipeSize,   \* chunks a pipe holds
  Cap,        \* OUTPUT_CAP_BYTES, in chunks
  Detaches    \* whether a background process may leave the group

Streams == {"out", "err"}

CommandAssumption == PipeSize \in Nat /\ Cap \in Nat

VARIABLES
  dry,        \* --dry-run
  pc,         \* the caller: "start", "poll", "kill", "reap", "join", "done"
  alive,      \* the processes that live, of "shell", "job"
  detached,   \* the background process has left the group
  late,       \* the deadline has passed
  written,    \* number of chunks written so far
  pipe,       \* stream -> chunks in the pipe
  reading,    \* the streams whose reader thread runs
  buffer,     \* what the shared buffer holds
  truncated,  \* it has dropped something
  captured,   \* everything any reader has pushed, in order
  outcome     \* "none", "refused", "ok", "error"

vars == <<dry, pc, alive, detached, late, written, pipe, reading, buffer, truncated,
          captured, outcome>>

Init ==
  /\ dry \in BOOLEAN
  /\ pc = "start"
  /\ alive = {} /\ detached = FALSE /\ late = FALSE
  /\ written = 0
  /\ pipe = [s \in Streams |-> <<>>]
  /\ reading = {}
  /\ buffer = <<>> /\ truncated = FALSE /\ captured = <<>>
  /\ outcome = "none"

----------------------------------------------------------------------------
(* The command.                                                            *)

\* A process that lives writes to one of the pipes, unless that pipe is full.
WriteChunk ==
  /\ alive # {}
  /\ written < MaxChunks
  /\ \E s \in Streams :
       /\ Len(pipe[s]) < PipeSize
       /\ pipe' = [pipe EXCEPT ![s] = Append(@, <<s, written>>)]
  /\ written' = written + 1
  /\ UNCHANGED <<dry, pc, alive, detached, late, reading, buffer, truncated, captured, outcome>>

\* The shell leaves a process in the background, with its pipes.
StartJob ==
  /\ "shell" \in alive
  /\ "job" \notin alive
  /\ ~detached
  /\ written = 0
  /\ alive' = alive \union {"job"}
  /\ detached' \in {FALSE, Detaches}
  /\ UNCHANGED <<dry, pc, late, written, pipe, reading, buffer, truncated, captured, outcome>>

ShellExits ==
  /\ "shell" \in alive
  /\ alive' = alive \ {"shell"}
  /\ UNCHANGED <<dry, pc, detached, late, written, pipe, reading, buffer, truncated, captured, outcome>>

JobExits ==
  /\ "job" \in alive
  /\ alive' = alive \ {"job"}
  /\ UNCHANGED <<dry, pc, detached, late, written, pipe, reading, buffer, truncated, captured, outcome>>

----------------------------------------------------------------------------
(* The readers.                                                            *)

\* The beginning is kept.
KeepFirst(chunks) == IF Len(chunks) > Cap THEN SubSeq(chunks, 1, Cap) ELSE chunks

KeepLast(chunks) ==
  IF Len(chunks) > Cap THEN SubSeq(chunks, Len(chunks) - Cap + 1, Len(chunks)) ELSE chunks

\* One read takes whatever the pipe holds and pushes it under the lock.
ReadChunk(s) ==
  /\ s \in reading
  /\ pipe[s] # <<>>
  /\ \E n \in 1..Len(pipe[s]) :
       LET pushed == buffer \o SubSeq(pipe[s], 1, n)
       IN  /\ pipe' = [pipe EXCEPT ![s] = SubSeq(@, n + 1, Len(@))]
           /\ buffer' = KeepLast(pushed)
           /\ truncated' = (truncated \/ Len(pushed) > Cap)
           /\ captured' = captured \o SubSeq(pipe[s], 1, n)
  /\ UNCHANGED <<dry, pc, alive, detached, late, written, reading, outcome>>

\* The end of a pipe is read once it is empty and nothing can write to it.
ReaderEnds(s) ==
  /\ s \in reading
  /\ pipe[s] = <<>>
  /\ alive = {}
  /\ reading' = reading \ {s}
  /\ UNCHANGED <<dry, pc, alive, detached, late, written, pipe, buffer, truncated, captured, outcome>>

\* The thread of a pipe.
Reader(s) == ReadChunk(s) \/ ReaderEnds(s)

----------------------------------------------------------------------------
(* The caller.                                                             *)

\* A dry run executes nothing.
Refuse ==
  /\ pc = "start"
  /\ dry
  /\ pc' = "done"
  /\ outcome' = "refused"
  /\ UNCHANGED <<dry, alive, detached, late, written, pipe, reading, buffer, truncated, captured>>

\* The command is blank, or its shell cannot be started.
SpawnFails ==
  /\ pc = "start"
  /\ ~dry
  /\ pc' = "done"
  /\ outcome' = "error"
  /\ UNCHANGED <<dry, alive, detached, late, written, pipe, reading, buffer, truncated, captured>>

Spawn ==
  /\ pc = "start"
  /\ ~dry
  /\ alive' = {"shell"}
  /\ reading' = Streams
  /\ pc' = "poll"
  /\ UNCHANGED <<dry, detached, late, written, pipe, buffer, truncated, captured, outcome>>

\* The requested seconds, 120 when there are none, 900 at most, have passed.
DeadlinePasses ==
  /\ pc = "poll"
  /\ ~late
  /\ late' = TRUE
  /\ UNCHANGED <<dry, pc, alive, detached, written, pipe, reading, buffer, truncated, captured, outcome>>

\* The exit of the shell is looked for before the clock is.
PollExited ==
  /\ pc = "poll"
  /\ "shell" \notin alive
  /\ pc' = "join"
  /\ outcome' = "ok"
  /\ UNCHANGED <<dry, alive, detached, late, written, pipe, reading, buffer, truncated, captured>>

PollTimedOut ==
  /\ pc = "poll"
  /\ "shell" \in alive
  /\ late
  /\ pc' = "kill"
  /\ UNCHANGED <<dry, alive, detached, late, written, pipe, reading, buffer, truncated, captured, outcome>>

\* Only the shell is killed.
KillShell ==
  /\ pc = "kill"
  /\ alive' = alive \ {"shell"}
  /\ pc' = "reap"
  /\ outcome' = "error"
  /\ UNCHANGED <<dry, detached, late, written, pipe, reading, buffer, truncated, captured>>

\* The kill does not reach the shell.
KillNothing ==
  /\ pc = "kill"
  /\ pc' = "reap"
  /\ outcome' = "error"
  /\ UNCHANGED <<dry, alive, detached, late, written, pipe, reading, buffer, truncated, captured>>

\* SIGTERM, then SIGKILL, to the whole group; what has left it lives on.
KillTree ==
  /\ pc = "kill"
  /\ alive' = IF detached THEN alive \ {"shell"} ELSE {}
  /\ pc' = "reap"
  /\ outcome' = "error"
  /\ UNCHANGED <<dry, detached, late, written, pipe, reading, buffer, truncated, captured>>

Reap ==
  /\ pc = "reap"
  /\ "shell" \notin alive
  /\ pc' = "join"
  /\ UNCHANGED <<dry, alive, detached, late, written, pipe, reading, buffer, truncated, captured, outcome>>

\* The answer is made up without waiting for the readers.
JoinNothing ==
  /\ pc = "join"
  /\ pc' = "done"
  /\ reading' = {}
  /\ UNCHANGED <<dry, alive, detached, late, written, pipe, buffer, truncated, captured, outcome>>

Join ==
  /\ pc = "join"
  /\ reading = {}
  /\ pc' = "done"
  /\ UNCHANGED <<dry, alive, detached, late, written, pipe, reading, buffer, truncated, captured, outcome>>

Caller == Refuse \/ SpawnFails \/ Spawn \/ PollExited \/ PollTimedOut \/ KillTree \/ Reap \/ Join

Next ==
  \/ WriteChunk \/ StartJob \/ ShellExits \/ JobExits
  \/ \E s \in Streams : Reader(s)
  \/ DeadlinePasses \/ Caller

\* The threads run and time passes; no process need ever exit by itself.
Spec ==
  /\ Init /\ [][Next]_vars
  /\ WF_vars(Caller) /\ WF_vars(DeadlinePasses)
  /\ \A s \in Streams : WF_vars(Reader(s))

----------------------------------------------------------------------------
(* Properties.                                                             *)

TypeOK ==
  /\ alive \subseteq {"shell", "job"}
  /\ reading \subseteq Streams
  /\ \A s \in Streams : Len(pipe[s]) <= PipeSize
  /\ Len(buffer) <= Cap
  /\ pc \in {"start", "poll", "kill", "reap", "join", "done"}
  /\ outcome \in {"none", "refused", "ok", "error"}

\* The buffer is the end of what was read, says so when something is missing from
\* its beginning, and what was read from one pipe is what was written to it, in
\* order, with nothing lost in between (CapturedOutput).
TailIsKept ==
  /\ Len(buffer) <= Len(captured)
  /\ buffer = SubSeq(captured, Len(captured) - Len(buffer) + 1, Len(captured))
  /\ truncated <=> Len(captured) > Len(buffer)
  /\ \A i, j \in 1..Len(captured) :
       i < j /\ captured[i][1] = captured[j][1] => captured[i][2] < captured[j][2]

\* Every answer to a command that was run holds, up to the cap, all that its
\* processes ever wrote, the last words of a killed command included.
NothingIsLost ==
  pc = "done" /\ reading = {} => Len(captured) = written

\* Nothing that the command started still runs when an error is reported for its
\* time, as long as it stayed in the group.
TreeIsDead ==
  pc \in {"join", "done"} /\ outcome = "error" => alive = {} \/ detached

\* A command found to be late is ended and answered, though its processes write to
\* full pipes and never exit, unless one has left the group.
LateCommandsEnd == pc = "kill" ~> (pc = "done" \/ detached)
=============================================================================
