------------------------------- MODULE Request ------------------------------
(***************************************************************************)
(* What goes on the wire of a conversation: elision of stale tool results  *)
(* (src/src/compact.rs), prompt-cache breakpoints (src/src/llm/cache.rs)   *)
(* and the request built from both (src/src/loop.rs, src/src/llm/mod.rs).  *)
(*                                                                         *)
(* A message is [role, text, calls, id].  Of a text only its size counts:  *)
(* none, short, or long enough to be worth eliding; the provider chooses   *)
(* the ids of the calls it makes, and may repeat them.  A message on the   *)
(* wire also says whether it is a placeholder, for which tool, and whether *)
(* it carries a cache breakpoint.                                          *)
(***************************************************************************)
EXTENDS Naturals, SequencesExt, FiniteSetsExt

CONSTANTS
  Turns,     \* what the model may answer: [text, calls, results]
  MaxTurns,  \* the turns of a run
  Keeps      \* the values of --keep-recent-turns

\* The sizes of texts that are not elided.
Texts == {"none", "short", "long"}

\* Each call of an answer gets its result.
RequestAssumption ==
  /\ Keeps # {} /\ Keeps \subseteq Nat
  /\ \A t \in Turns :
       /\ t.text \in Texts
       /\ t.calls \in Seq(Range(t.calls))
       /\ \A i \in 1..Len(t.calls) : t.results[i] \in Texts

VARIABLES
  keep,      \* keep_recent_turns
  explicit,  \* needs_explicit_breakpoints(model)
  history,   \* the run's own record of the conversation
  wire,      \* the messages of the last request
  pending    \* the conversation has grown since the last request

vars == <<keep, explicit, history, wire, pending>>

\* The roles of messages; content None and Some("") are both no text.
Said(role, text) == [role |-> role, text |-> text, calls |-> <<>>, id |-> "", of |-> ""]

Positions(messages, role) == {i \in 1..Len(messages) : messages[i].role = role}

----------------------------------------------------------------------------
(* Eliding.                                                                *)

\* The first call of that id in the conversation names the tool.
ToolNameFor(messages, id) ==
  LET Named(i) == {j \in DOMAIN messages[i].calls : messages[i].calls[j].id = id}
      naming == {i \in 1..Len(messages) : Named(i) # {}}
  IN  IF naming = {} THEN "tool"
      ELSE messages[Min(naming)].calls[Min(Named(Min(naming)))].tool

\* The assistant message that opens the protected window: the last from which on
\* there are keep turns.  Nothing is stale when elision is off or there are not
\* more turns than that.
Cutoff(messages) ==
  LET turns == Positions(messages, "assistant")
  IN  IF keep = 0 \/ Cardinality(turns) <= keep THEN 1
      ELSE Max({i \in turns : Cardinality({j \in turns : j >= i}) >= keep})

IsStale(messages, i) ==
  i < Cutoff(messages) /\ messages[i].role = "tool" /\ messages[i].text = "long"

\* Eliding what the assistant said as well.
ElideAnyRole(messages) ==
  [i \in 1..Len(messages) |->
     IF i < Cutoff(messages) /\ messages[i].text = "long"
     THEN [messages[i] EXCEPT !.text = "elided"] ELSE messages[i]]

\* Eliding the results of the last turn that has become stale only.
ElideNewlyStale(messages) ==
  [i \in 1..Len(messages) |->
     IF IsStale(messages, i) /\ ~\E j \in Positions(messages, "assistant") : i < j /\ j < Cutoff(messages)
     THEN [messages[i] EXCEPT !.text = "elided", !.of = ToolNameFor(messages, messages[i].id)]
     ELSE messages[i]]

\* The result stays under its id; its text is a placeholder for a tool.
Elide(messages) ==
  [i \in 1..Len(messages) |->
     IF IsStale(messages, i)
     THEN [messages[i] EXCEPT !.text = "elided", !.of = ToolNameFor(messages, messages[i].id)]
     ELSE messages[i]]

----------------------------------------------------------------------------
(* Breakpoints.                                                            *)

\* A marker needs a text to sit on.
CanMark(m) == m.text # "none"

\* The second marker only ever on the last message.
BreakpointsAtTheEnd(messages) ==
  {i \in {Min({2, Len(messages)}), Len(messages)} : CanMark(messages[i])}

\* One at the end of the stable prefix, one on the last message after it that
\* can hold one; positions that cannot hold theirs get none.
Breakpoints(messages) ==
  LET prefix == Min({2, Len(messages)})
      later == {i \in prefix + 1..Len(messages) : CanMark(messages[i])}
  IN  {i \in {prefix} : CanMark(messages[i])} \union (IF later = {} THEN {} ELSE {Max(later)})

----------------------------------------------------------------------------
(* The run.                                                                *)

Init ==
  /\ keep \in Keeps
  /\ explicit \in BOOLEAN
  /\ history = <<Said("system", "long"), Said("user", "short")>>
  /\ wire = [messages |-> <<>>, marks |-> {}]
  /\ pending = TRUE

\* A request is made from a copy of the history, which it never changes.
Send ==
  /\ pending
  /\ LET sent == Elide(history)
     IN  wire' = [messages |-> sent, marks |-> IF explicit THEN Breakpoints(sent) ELSE {}]
  /\ pending' = FALSE
  /\ UNCHANGED <<keep, explicit, history>>

\* The answer and the results of its calls join the history before the next call.
Answer ==
  /\ ~pending
  /\ Cardinality(Positions(history, "assistant")) < MaxTurns
  /\ \E t \in Turns :
       history' = history
         \o <<[Said("assistant", t.text) EXCEPT !.calls = t.calls]>>
         \o [i \in 1..Len(t.calls) |-> [Said("tool", t.results[i]) EXCEPT !.id = t.calls[i].id]]
  /\ pending' = TRUE
  /\ UNCHANGED <<keep, explicit, wire>>

Next == Send \/ Answer

Spec == Init /\ [][Next]_vars

----------------------------------------------------------------------------
(* Properties.                                                             *)

TypeOK ==
  /\ keep \in Keeps
  /\ \A i \in 1..Len(wire.messages) :
       wire.messages[i].text \in Texts \union {"elided"}
  /\ wire.marks \subseteq 1..Len(wire.messages)
  /\ Cardinality(wire.marks) <= 4

\* A request says everything the history does, in the same order, except the texts
\* of tool results; whatever the assistant and the user said, and the results of the
\* last keep turns, are sent in full (compact.rs).
DecisionsAreKept ==
  wire.messages # <<>> =>
    LET sent == wire.messages
        turns == Cardinality(Positions(sent, "assistant"))
        After(i) == Cardinality({j \in Positions(sent, "assistant") : j > i})
    IN  /\ IsPrefix([i \in 1..Len(sent) |-> <<sent[i].role, sent[i].calls, sent[i].id>>],
                    [i \in 1..Len(history) |-> <<history[i].role, history[i].calls, history[i].id>>])
        /\ \A i \in 1..Len(sent) :
             sent[i].text # history[i].text =>
               history[i].role = "tool" /\ keep > 0 /\ After(i) >= keep

\* With elision off a request is the beginning of the next one, which is what lets
\* the provider serve it from its cache; with elision on, a text that was elided
\* once is never sent again (compact.rs, cache.rs).
PrefixOrElided ==
  [][/\ keep = 0 => IsPrefix(wire.messages, wire'.messages)
     /\ \A i \in 1..Len(wire.messages) :
          wire.messages[i].text = "elided" => wire'.messages[i] = wire.messages[i]]_wire

\* When breakpoints are needed, nothing that could be cached lies behind the last
\* one, and the prefix of system prompt and task ends in one (cache.rs).
NothingCacheableIsMissed ==
  explicit /\ wire.messages # <<>> =>
    /\ 2 \in wire.marks
    /\ \A i \in 1..Len(wire.messages) :
         wire.messages[i].text # "none" => i <= Max(wire.marks)
=============================================================================
