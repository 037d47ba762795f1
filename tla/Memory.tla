------------------------------- MODULE Memory -------------------------------
(***************************************************************************)
(* supervisor/memory.rs: JsonlMemory, one JSON object per line in a file   *)
(* that is only ever appended to, by a supervisor that may be killed with  *)
(* a line half written and resumed later.                                  *)
(*                                                                         *)
(* A fact's line is Width bytes, of which CharStart is the first of the    *)
(* two bytes of a character that is not ASCII (serde_json does not escape  *)
(* one; an item id or a child's stderr may hold one).  The file is its     *)
(* lines ended by a newline and the bytes behind the last newline.         *)
(* A kill can separate any two bytes of a write.                           *)
(***************************************************************************)
EXTENDS Integers, Sequences, SequencesExt

CONSTANTS
  Facts,       \* facts the build may record, each at most once (they carry `ts`)
  NoFact,
  Width,
  CharStart,
  MaxKills     \* bound: how often the supervisor is killed

ASSUME MemoryAssumption ==
  /\ NoFact \notin Facts
  /\ Width \in Nat \ {0} /\ CharStart \in 1..(Width - 1)
  /\ MaxKills \in Nat

VARIABLES
  lines,      \* the file up to its last newline, a sequence of lines
  tail,       \* the bytes behind it
  store,      \* "closed", "opening" the file, "opened" but not yet read,
              \* "ready", "appending", or "failed" to read it
  fact,       \* the fact being appended
  unwritten,  \* what of its line is not written yet
  seen,       \* what all() last returned
  appended,   \* history: facts whose append() returned
  begun,      \* history: facts given to append(), in order
  kills

file == <<lines, tail>>
vars == <<lines, tail, store, fact, unwritten, seen, appended, begun, kills>>

Bytes == Facts \X (1..Width)
Line(f) == [at \in 1..Width |-> <<f, at>>]

\* A line that is a fact's whole line parses; any other is skipped.
Parses(line) == \E f \in Facts : line = Line(f)
FactOf(line) == line[1][1]
Parsed(some) ==
  LET upto[n \in 0..Len(some)] ==
        IF n = 0 THEN <<>>
        ELSE IF Parses(some[n]) THEN Append(upto[n - 1], FactOf(some[n])) ELSE upto[n - 1]
  IN  upto[Len(some)]
Content == Append(lines, tail)

\* read_to_string wants the whole file to be UTF-8: no line may end inside a
\* character, or go on behind the first half of one with something else.
EndsInCharacter(line) ==
  \E i \in DOMAIN line :
    /\ line[i][2] = CharStart
    /\ i = Len(line) \/ line[i + 1] # <<line[i][1], CharStart + 1>>
Utf8 == \A i \in DOMAIN Content : ~EndsInCharacter(Content[i])

Init ==
  /\ lines = <<>> /\ tail = <<>>
  /\ store = "closed"
  /\ fact = NoFact /\ unwritten = <<>>
  /\ seen = <<>>
  /\ appended = {} /\ begun = <<>>
  /\ kills = 0

-----------------------------------------------------------------------------
Open ==
  /\ store = "closed"
  /\ store' = "opening"
  /\ UNCHANGED <<file, fact, unwritten, seen, appended, begun, kills>>

LeaveTornLine ==
  /\ store = "opening"
  /\ store' = "opened"
  /\ UNCHANGED <<file, fact, unwritten, seen, appended, begun, kills>>

\* A file that does not end in a newline gets one before anything else.
TerminateTornLine ==
  /\ store = "opening"
  /\ IF tail = <<>> THEN UNCHANGED file
     ELSE lines' = Append(lines, tail) /\ tail' = <<>>
  /\ store' = "opened"
  /\ UNCHANGED <<fact, unwritten, seen, appended, begun, kills>>

\* all(): a resume reads the accepted levels first, and each append of an
\* attempt reads the attempts before it.
Read ==
  /\ store \in {"opened", "ready"}
  /\ IF Utf8
     THEN store' = "ready" /\ seen' = Parsed(Content)
     ELSE store' = "failed" /\ UNCHANGED seen
  /\ UNCHANGED <<file, fact, unwritten, appended, begun, kills>>

AppendFact(f) ==
  /\ store = "ready"
  /\ ~Contains(begun, f)
  /\ store' = "appending"
  /\ fact' = f
  /\ unwritten' = Line(f)
  /\ begun' = Append(begun, f)
  /\ UNCHANGED <<file, seen, appended, kills>>

WriteByte ==
  /\ store = "appending" /\ unwritten # <<>>
  /\ tail' = Append(tail, Head(unwritten))
  /\ unwritten' = Tail(unwritten)
  /\ UNCHANGED <<lines, store, fact, seen, appended, begun, kills>>

NewlineFirst ==
  /\ store = "appending"
  /\ lines' = Append(lines, tail)
  /\ tail' = <<>>
  /\ store' = "ready"
  /\ appended' = appended \cup {fact}
  /\ fact' = NoFact
  /\ UNCHANGED <<unwritten, seen, begun, kills>>

\* The newline is the last byte; with it flushed, append() returns.
WriteNewline ==
  /\ store = "appending" /\ unwritten = <<>>
  /\ lines' = Append(lines, tail)
  /\ tail' = <<>>
  /\ store' = "ready"
  /\ appended' = appended \cup {fact}
  /\ fact' = NoFact
  /\ UNCHANGED <<unwritten, seen, begun, kills>>

\* Killed, or out of disk space and exiting on the error.
Kill ==
  /\ store \notin {"closed", "failed"}
  /\ kills < MaxKills
  /\ kills' = kills + 1
  /\ store' = "closed"
  /\ fact' = NoFact /\ unwritten' = <<>> /\ seen' = <<>>
  /\ UNCHANGED <<file, appended, begun>>

Next ==
  \/ Open \/ TerminateTornLine \/ Read \/ WriteByte \/ WriteNewline \/ Kill
  \/ \E f \in Facts : AppendFact(f)

Spec == Init /\ [][Next]_vars

-----------------------------------------------------------------------------
(* Properties.                                                             *)

TypeOK ==
  /\ lines \in Seq(Seq(Bytes))
  /\ tail \in Seq(Bytes) /\ Len(tail) + Len(unwritten) <= Width
  /\ store \in {"closed", "opening", "opened", "ready", "appending", "failed"}
  /\ fact \in Facts \cup {NoFact}
  /\ unwritten \in Seq(Bytes)
  /\ seen \in Seq(Facts) /\ begun \in Seq(Facts)
  /\ appended \subseteq Facts
  /\ kills \in 0..MaxKills

\* A fact whose append returned is in the file for good, each fact at most
\* once and all in the order they were appended, whatever torn lines kills
\* left between them: a torn line must not take the next fact with it (the
\* comment on terminate_torn_line).
AppendedSurvives ==
  LET kept == Parsed(Content)
  IN  /\ appended \subseteq Range(kept)
      /\ Range(kept) \subseteq Range(begun) /\ IsInjective(begun)
      /\ \A i, j \in DOMAIN kept : i < j =>
           \E m, n \in DOMAIN begun : m < n /\ begun[m] = kept[i] /\ begun[n] = kept[j]

\* The type invariant and the survival of facts at once.
LogSurvives == TypeOK /\ AppendedSurvives

\* The file implements an append-only log; a fact is in the log from the last
\* byte of its JSON on, its newline or the kill coming after.
Log == INSTANCE AppendLog WITH
         log <- Parsed(Content), recording <- fact, recorded <- appended
ImplementsLog == Log!LogSpec

\* The comment on read_with_skipped: "A line is skipped rather than fatal";
\* after whatever kill, the memory can be read.
TornLineIsSkipped == store # "failed"
=============================================================================
