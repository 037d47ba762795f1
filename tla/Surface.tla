------------------------------- MODULE Surface -------------------------------
(***************************************************************************)
(* The contract surface of a repository, `codemason index --surface`:      *)
(* src/src/surface.rs, with the signatures of src/src/engine/outline.rs.   *)
(*                                                                         *)
(* A line is its indentation and its tokens; a string, a character or a    *)
(* lifetime is one token like any word, and a comment or a block comment   *)
(* begins and ends with tokens of its own.  A file carries, beside its     *)
(* lines and the symbols the dependency graph has of it, `decls`: what its *)
(* author declared, which no code sees and the properties compare with.    *)
(***************************************************************************)
EXTENDS Integers, FiniteSets, SequencesExt, FiniteSetsExt

CONSTANTS
  Repos,         \* sequences of [path, language, lines, symbols, decls]
  Paths,         \* what --surface-path may be
  NoPath,
  LowerOf,       \* component of a path -> the component in lower case
  MaxSpan,       \* MAX_SPAN_LINES
  MaxVerbatim,   \* MAX_VERBATIM_LINES
  MaxSignature,  \* MAX_SIGNATURE_LINES
  MaxJoined      \* the lines collect_signature joins

VARIABLES
  repo, path,
  file,       \* the file the loop is at, 0 before the first
  todo,       \* its symbols to come, by line
  seen,       \* its symbols so far
  coveredTo,  \* covered_to
  surface     \* what is to be printed, in order

vars == <<repo, path, file, todo, seen, coveredTo, surface>>

----------------------------------------------------------------------------
(* Lines.                                                                  *)

IsBlank(line) == line.toks = <<>>
Has(line, token) == \E i \in DOMAIN line.toks : line.toks[i] = token
LastOf(toks) == IF toks = <<>> THEN "" ELSE toks[Len(toks)]
Opening == {"(", "["}
Closing == {")", "]"}

ParenDepth(toks) ==
  Cardinality({i \in DOMAIN toks : toks[i] \in Opening})
  - Cardinality({i \in DOMAIN toks : toks[i] \in Closing})

IsData(kind) == kind \in {"enum", "struct", "record", "type"}

IsContainer(kind) ==
  kind \in {"class", "interface", "trait", "impl", "object", "protocol", "extension", "namespace", "module"}

ByIndentation(language) == language \in {"python", "ruby"}

Modifiers ==
  {"pub", "public", "private", "protected", "internal", "export", "default", "declare", "static",
   "abstract", "sealed", "virtual", "override", "async", "final", "partial", "readonly", "const",
   "extern", "unsafe", "open", "lateinit", "inline", "suspend", "mutating", "new"}

\* Those of the whole line, accessors among them.
AllModifiers(line) == Modifiers \cap ToSet(line.toks)

LeadingModifiers(line) ==
  {line.toks[i] : i \in {j \in DOMAIN line.toks : \A k \in 1..j : line.toks[k] \in Modifiers}}

ExportedByList(f, name) ==
  \E i \in DOMAIN f.lines : ~IsBlank(f.lines[i]) /\ f.lines[i].toks[1] = "export" /\ Has(f.lines[i], name)

\* `quiet` is of a name that begins with an underscore or a small letter.
IsPublic(f, symbol) ==
  LET modifiers == LeadingModifiers(f.lines[symbol.line])
  IN CASE f.language = "rust" -> symbol.kind = "impl" \/ "pub" \in modifiers
       [] f.language \in {"python", "go"} -> ~symbol.quiet
       [] f.language \in {"javascript", "typescript"} ->
            "export" \in modifiers \/ ExportedByList(f, symbol.name)
       [] OTHER -> "private" \notin modifiers

----------------------------------------------------------------------------
(* Spans.                                                                  *)

Scan == [depth |-> 0, comment |-> FALSE, opened |-> FALSE, finished |-> FALSE, left |-> FALSE]

\* `left`: the rest of the line is not looked at.
ScanToken(s, token) ==
  CASE s.left -> s
    [] s.comment -> [s EXCEPT !.comment = token # "*/"]
    [] token \in {"//", "#"} -> [s EXCEPT !.left = TRUE]
    [] token = "/*" -> [s EXCEPT !.comment = TRUE]
    [] token = "{" -> [s EXCEPT !.depth = @ + 1, !.opened = TRUE]
    [] token = "}" ->
         LET over == s.opened /\ s.depth <= 1
         IN [s EXCEPT !.depth = @ - 1, !.finished = @ \/ over, !.left = over]
    [] token = ";" /\ ~s.opened /\ s.depth <= 0 -> [s EXCEPT !.finished = TRUE, !.left = TRUE]
    [] OTHER -> s

\* The scan after each line from `start`; its value at start - 1 is before it.
ScanFrom(lines, start) ==
  LET scan[i \in (start - 1)..Len(lines)] ==
        IF i < start THEN Scan
        ELSE FoldLeft(ScanToken, [scan[i - 1] EXCEPT !.left = FALSE, !.finished = FALSE], lines[i].toks)
  IN scan

BracedSpan(lines, start) ==
  LET scan == ScanFrom(lines, start)
      finished == {i \in start..Len(lines) : scan[i].finished}
      limit == start + MaxSpan
  IN IF \E i \in finished : i < limit THEN [end |-> Min(finished), capped |-> FALSE]
     ELSE IF limit <= Len(lines) THEN [end |-> limit - 1, capped |-> TRUE]
     ELSE [end |-> Len(lines), capped |-> FALSE]

IndentedSpan(lines, start) ==
  LET limit == Min({start + MaxSpan, Len(lines) + 1})
      stops == {i \in (start + 1)..(limit - 1) : ~IsBlank(lines[i]) /\ lines[i].indent <= lines[start].indent}
      before == IF stops = {} THEN limit ELSE Min(stops)
  IN [end |-> Max({start} \cup {i \in (start + 1)..(before - 1) : ~IsBlank(lines[i])}),
      capped |-> stops = {} /\ start + MaxSpan <= Len(lines)]

SpanOf(lines, start, language) ==
  IF ByIndentation(language) THEN IndentedSpan(lines, start) ELSE BracedSpan(lines, start)

----------------------------------------------------------------------------
(* The member declarations of a long container.                            *)

\* The lines of the container alone.
OwnLines(lines, start, end) ==
  LET scan == ScanFrom(lines, start) IN {i \in start..end : scan[i - 1].depth <= 0}

BracedMembers(lines, start, end) ==
  LET scan == ScanFrom(lines, start) IN {i \in start..end : scan[i - 1].depth <= 1}

IndentedMembers(lines, start, end) ==
  LET indents == {lines[i].indent : i \in {j \in (start + 1)..end : ~IsBlank(lines[j])}}
      member == IF indents = {} THEN lines[start].indent ELSE Min(indents)
  IN {start} \cup {i \in start..end : lines[i].indent <= member}

Members(f, start, end) ==
  IF ByIndentation(f.language) THEN IndentedMembers(f.lines, start, end)
  ELSE BracedMembers(f.lines, start, end)

----------------------------------------------------------------------------
(* Signatures.                                                             *)

IsComment(line) == ~IsBlank(line) /\ line.toks[1] \in {"//", "/*", "*", "#"}

SignatureWords ==
  {"fn", "function", "def", "class", "struct", "enum", "trait", "impl", "interface", "type", "mod",
   "func", "fun", "namespace", "package", "protocol", "record", "typedef", "module", "defmodule", "object"}

SignatureModifiers ==
  {"pub", "export", "default", "public", "private", "protected", "static", "abstract", "final", "async",
   "const", "unsafe", "extern"}

\* Modifiers, then a word that defines; the arrow functions are left out.
IsDefinitionLine(line) ==
  \E i \in DOMAIN line.toks :
     /\ line.toks[i] \in SignatureWords
     /\ \A j \in 1..(i - 1) : line.toks[j] \in SignatureModifiers

Unopened(toks) == SubSeq(toks, 1, Max({0} \cup {i \in DOMAIN toks : toks[i] # "{"}))

\* One line of collect_signature; `n` counts the lines taken.
Collect(acc, line) ==
  IF acc.done \/ acc.n = MaxJoined THEN acc
  ELSE LET joined == acc.toks \o line.toks
           closed == ParenDepth(joined) <= 0
           ended == LastOf(line.toks) \in {"{", ";", "=>", ":"} \/ Has(line, "=>")
       IN [toks |-> joined, n |-> acc.n + 1,
           done |-> closed /\ (ended \/ (acc.n > 0 /\ LastOf(joined) # ","))]

NoSignature == <<>>

\* extract_signature: the first definition, or the first line of code.
ExtractSignature(window) ==
  LET code == {i \in DOMAIN window : ~IsBlank(window[i]) /\ ~IsComment(window[i])}
      definitions == {i \in code : IsDefinitionLine(window[i])}
  IN IF code = {} THEN NoSignature
     ELSE IF definitions = {} THEN Unopened(window[Min(code)].toks)
     ELSE Unopened(FoldLeft(Collect, [toks |-> <<>>, n |-> 0, done |-> FALSE],
                            SubSeq(window, Min(definitions), Len(window))).toks)

IsWellFormed(toks) ==
  /\ \A i \in DOMAIN toks : ParenDepth(SubSeq(toks, 1, i)) >= 0
  /\ ParenDepth(toks) = 0
  /\ LastOf(toks) \notin {"", ",", "(", "[", "]", "{", "=", "+", "&", "|", ".", "<", "-", "*", "..."}
       \/ \E i \in DOMAIN toks : toks[i] = "=>"

Continues(toks) == LastOf(toks) \in {",", "(", "[", "=", "+", "&", "|", ".", "<", "-"}

\* One line of join_declaration.
Join(acc, line) ==
  IF acc.done THEN acc
  ELSE LET stops == {i \in DOMAIN line.toks :
                       /\ line.toks[i] \in {"{", ";"}
                       /\ acc.depth + ParenDepth(SubSeq(line.toks, 1, i)) <= 0}
           piece == IF stops = {} THEN line.toks ELSE SubSeq(line.toks, 1, Min(stops) - 1)
           depth == acc.depth + ParenDepth(piece)
       IN [toks |-> acc.toks \o piece, depth |-> depth,
           done |-> stops # {} \/ (depth <= 0 /\ ~Continues(piece))]

JoinDeclaration(lines, start) ==
  LET joined == FoldLeft(Join, [toks |-> <<>>, depth |-> 0, done |-> FALSE],
                         SubSeq(lines, start, Min({start + MaxSignature - 1, Len(lines)})))
  IN IF joined.done \/ start + MaxSignature > Len(lines) THEN joined.toks ELSE NoSignature

\* Whatever it is the signature of.
FitsAny(toks, name) == toks # NoSignature /\ IsWellFormed(toks)

Fits(toks, name) == (\E i \in DOMAIN toks : toks[i] = name) /\ IsWellFormed(toks)

SignatureAt(lines, start, name) ==
  LET extracted == ExtractSignature(SubSeq(lines, start, Min({start + MaxSignature - 1, Len(lines)})))
      joined == JoinDeclaration(lines, start)
  IN IF Fits(extracted, name) THEN extracted
     ELSE IF Fits(joined, name) THEN joined
     ELSE NoSignature

----------------------------------------------------------------------------
(* A symbol as it is printed: `kept` are the lines printed as they are,    *)
(* `marked` the lines a note is printed after, `end` the last line it      *)
(* answers for.                                                            *)

Rendered(form, kept, signature, marked, shortened, end, whole) ==
  [form |-> form, kept |-> kept, signature |-> signature, marked |-> marked,
   shortened |-> shortened, end |-> end, whole |-> whole]

AsSignature(start, signature) == Rendered("signature", {}, signature, {}, FALSE, start, FALSE)

AsCapped(start, end) == Rendered("span", start..end, NoSignature, {end}, TRUE, end, FALSE)

AsSpan(start, end) == Rendered("span", start..end, NoSignature, {}, FALSE, end, TRUE)

\* One note, where the members end.
MembersNotedOnce(f, start, end) ==
  LET kept == Members(f, start, end)
      dropped == {i \in (start..end) \ kept : ~IsBlank(f.lines[i])}
  IN Rendered("members", kept, NoSignature, {end}, dropped # {}, end, FALSE)

\* A note for every run of dropped lines, before the next line that is kept.
AsMembers(f, start, end) ==
  LET kept == Members(f, start, end)
      dropped == {i \in (start..end) \ kept : ~IsBlank(f.lines[i])}
      runs == {i \in dropped : i = end \/ \E j \in (i + 1)..end : j \in kept /\ ((i + 1)..(j - 1)) \cap dropped = {}}
  IN Rendered("members", kept, NoSignature, runs, dropped # {}, end, FALSE)

RenderSymbol(f, symbol) ==
  LET start == symbol.line
      signature == SignatureAt(f.lines, start, symbol.name)
      span == SpanOf(f.lines, start, f.language)
  IN IF ~IsData(symbol.kind) /\ ~IsContainer(symbol.kind) /\ signature # NoSignature
     THEN AsSignature(start, signature)
     ELSE IF span.capped THEN AsCapped(start, span.end)
     ELSE IF IsData(symbol.kind) \/ span.end - start + 1 <= MaxVerbatim THEN AsSpan(start, span.end)
     ELSE AsMembers(f, start, span.end)

----------------------------------------------------------------------------
(* The loops.                                                              *)

Lowered(p) == [i \in DOMAIN p |-> LowerOf[p[i]]]

IsUnder(p, prefix) == IsPrefix(Lowered(prefix), Lowered(p))

Init ==
  /\ repo \in Repos
  /\ path \in Paths \cup {NoPath}
  /\ file = 0 /\ todo = <<>> /\ seen = {} /\ coveredTo = 0 /\ surface = <<>>

Listed(f) == path = NoPath \/ IsUnder(f.path, path)

\* extract goes to the next file; one that is not asked for has nothing to do.
NextFile ==
  /\ todo = <<>> /\ file < Len(repo)
  /\ file' = file + 1
  /\ todo' = IF Listed(repo[file']) THEN SortSeq(repo[file'].symbols, LAMBDA s, t : s.line < t.line) ELSE <<>>
  /\ seen' = {} /\ coveredTo' = 0
  /\ UNCHANGED <<repo, path, surface>>

Take ==
  /\ todo # <<>>
  /\ todo' = Tail(todo)
  /\ seen' = seen \cup {Head(todo)}
  /\ UNCHANGED <<repo, path, file>>

Passed ==
  \/ Head(todo) \in seen
  \/ Head(todo).line <= coveredTo
  \/ Head(todo).line \notin DOMAIN repo[file].lines

Pass ==
  /\ Take /\ Passed
  /\ UNCHANGED <<coveredTo, surface>>

\* The members of what is hidden are looked at one by one.
HiddenAlone(f, symbol) == coveredTo

\* Where the symbols that go with a hidden one end.
HiddenTo(f, symbol) ==
  IF IsData(symbol.kind) \/ IsContainer(symbol.kind)
  THEN SpanOf(f.lines, symbol.line, f.language).end
  ELSE coveredTo

Hide ==
  /\ Take /\ ~Passed
  /\ ~IsPublic(repo[file], Head(todo))
  /\ coveredTo' = HiddenTo(repo[file], Head(todo))
  /\ UNCHANGED surface

\* Members are printed again.
CoverNothing(r) == coveredTo

\* Only what was printed whole covers the symbols inside it.
Covered(r) == IF r.whole THEN r.end ELSE coveredTo

Emit ==
  /\ Take /\ ~Passed
  /\ IsPublic(repo[file], Head(todo))
  /\ LET r == RenderSymbol(repo[file], Head(todo))
     IN /\ coveredTo' = Covered(r)
        /\ surface' = Append(surface, [file |-> file, symbol |-> Head(todo)] @@ r)

Next == NextFile \/ Pass \/ Hide \/ Emit

Spec == Init /\ [][Next]_vars

Done == file = Len(repo) /\ todo = <<>>

----------------------------------------------------------------------------
(* Properties.                                                             *)

Lines(f) == DOMAIN repo[f].lines

\* No line is asked for that a file does not have: the code would end with a
\* panic (surface.rs:522), also where the braces of a file do not balance.
TypeOK ==
  /\ file > 0 => coveredTo \in {0} \cup Lines(file)
  /\ \A i \in DOMAIN surface :
        surface[i].kept \cup surface[i].marked \cup {surface[i].end} \subseteq Lines(surface[i].file)

Entries(f) == {i \in DOMAIN surface : surface[i].file = f}

\* The entries that print the declaration d of file f under its own name.
EntriesOf(f, d) == {i \in Entries(f) : surface[i].symbol.line = d.line}

ListedFiles == {f \in 1..Len(repo) : Listed(repo[f])}

\* surface.rs:752: the surface "errs towards including".  What is public and
\* in no hidden type is printed, alone or in the text of what holds it.
PublicIsShown ==
  Done => \A f \in ListedFiles : \A d \in repo[f].decls :
            d.public => \E i \in Entries(f) : surface[i].symbol.line = d.line \/ d.line \in surface[i].kept

\* surface.rs:218: "Declarations are complete".  What is printed for a
\* function begins with its whole declaration.
SignaturesAreWhole ==
  \A f \in ListedFiles : \A d \in repo[f].decls : \A i \in EntriesOf(f, d) :
    surface[i].form = "signature" => IsPrefix(d.signature, surface[i].signature)

\* surface.rs:657: a "member's own declaration always survives" when a long
\* container is cut.
MembersSurvive ==
  \A f \in ListedFiles : \A d \in repo[f].decls : \A i \in EntriesOf(f, d) :
    surface[i].form = "members" => d.parts \subseteq surface[i].kept

\* A line of a type that is left out is counted in `shortened` and there is
\* a note where it was, before anything that follows it (surface.rs:125).
NothingIsSilent ==
  \A f \in ListedFiles : \A d \in repo[f].decls : \A i \in EntriesOf(f, d) :
    surface[i].form # "signature" =>
      \A n \in {m \in d.line..d.last : ~IsBlank(repo[f].lines[m])} \ surface[i].kept :
         /\ surface[i].shortened
         /\ \E m \in surface[i].marked :
              \/ m >= n /\ surface[i].kept \cap (n..m) = {}
              \/ n > surface[i].end /\ m = surface[i].end

\* A member that stands in the text of its type is not printed again
\* (surface.rs:261).
ShownOnce ==
  \A i, j \in DOMAIN surface :
    i < j /\ surface[i].file = surface[j].file /\ surface[i].form = "span" /\ ~surface[i].shortened
      => surface[j].symbol.line \notin surface[i].kept

\* What a hidden type holds is no part of the surface, public or not
\* (surface.rs:288).
HiddenStayHidden ==
  \A f \in ListedFiles : \A d \in repo[f].decls :
    ~d.public => \A i \in Entries(f) : surface[i].symbol.line \notin d.line..d.last
=============================================================================
