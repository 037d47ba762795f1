------------------------------ MODULE AppendLog ------------------------------
(***************************************************************************)
(* What the supervisor's memory promises: facts are kept in the order they *)
(* were recorded, one recorded is never lost, and of one whose recording   *)
(* was cut short either all is kept or nothing.  Memory.tla is shown to    *)
(* implement it.                                                           *)
(***************************************************************************)
EXTENDS Naturals, Sequences

CONSTANTS Facts, NoFact

VARIABLES
  log,        \* the facts kept, oldest first
  recording,  \* the fact being recorded, NoFact between two
  recorded    \* facts whose recording has returned

logVars == <<log, recording, recorded>>

LogInit == log = <<>> /\ recording = NoFact /\ recorded = {}

Begin(f) ==
  /\ recording = NoFact
  /\ recording' = f
  /\ UNCHANGED <<log, recorded>>

Keep ==
  /\ recording # NoFact
  /\ log' = Append(log, recording)
  /\ UNCHANGED <<recording, recorded>>

Return ==
  /\ log # <<>> /\ recording = log[Len(log)]
  /\ recorded' = recorded \cup {recording}
  /\ recording' = NoFact
  /\ UNCHANGED log

CutShort ==
  /\ recording' = NoFact
  /\ UNCHANGED <<log, recorded>>

LogNext == (\E f \in Facts : Begin(f)) \/ Keep \/ Return \/ CutShort

LogSpec == LogInit /\ [][LogNext]_logVars
=============================================================================
