------------------------------ MODULE Chunking ------------------------------
(***************************************************************************)
(* How the index engine cuts a source file into chunks:                    *)
(* src/src/engine/chunking.rs.                                             *)
(*                                                                         *)
(* A source is a length, the offsets of its line feeds and the nodes the   *)
(* parser finds in it, in preorder: a node is its kind, its depth below    *)
(* the root and the offset it starts at (where a node ends, the code       *)
(* records and does not use).  The merge loop is taken one group at a      *)
(* time.                                                                   *)
(***************************************************************************)
EXTENDS Integers, Sorting, SequencesExt, FiniteSetsExt

CONSTANTS
  Sources,  \* [lang, size, breaks, blank, nodes]
  Desired   \* DESIRED_CHUNK_LENGTH_CHARS

ASSUME DesiredAssumption == Desired \in Nat \ {0}

VARIABLES
  source,   \* the file
  groups,   \* the boundaries that are to be merged
  at,       \* the group the loop is at
  current,  \* current_start, current_end, current_length
  merged,   \* the boundaries merged so far
  chunks,   \* what is returned
  phase

vars == <<source, groups, at, current, merged, chunks, phase>>

----------------------------------------------------------------------------
(* The tree.                                                               *)

TypeKinds ==
  {"class_declaration", "interface_declaration", "record_declaration",
   "record_struct_declaration", "struct_declaration", "enum_declaration"}

\* By language; a language without an entry has no definitions.
DefinitionKinds ==
  [rust |-> {"function_item", "impl_item", "struct_item", "enum_item", "trait_item", "mod_item",
             "const_item", "static_item", "type_item", "macro_definition", "attribute_item"},
   python |-> {"function_definition", "class_definition", "decorated_definition"},
   javascript |-> {"function_declaration", "class_declaration", "export_statement",
                   "lexical_declaration", "variable_declaration"},
   typescript |-> {"function_declaration", "class_declaration", "interface_declaration",
                   "type_alias_declaration", "enum_declaration", "export_statement",
                   "lexical_declaration", "variable_declaration"},
   go |-> {"function_declaration", "method_declaration", "type_declaration"},
   java |-> {"class_declaration", "method_declaration", "interface_declaration",
             "enum_declaration", "constructor_declaration", "record_declaration"},
   c |-> {"function_definition", "struct_specifier", "enum_specifier", "declaration"},
   cpp |-> {"function_definition", "class_specifier", "struct_specifier", "enum_specifier",
            "declaration", "namespace_definition", "template_declaration"},
   kotlin |-> {"class_declaration", "object_declaration", "function_declaration",
               "property_declaration", "type_alias", "companion_object", "secondary_constructor"},
   ruby |-> {"method", "singleton_method", "class", "module", "singleton_class", "assignment"},
   php |-> {"function_definition", "method_declaration", "class_declaration",
            "interface_declaration", "trait_declaration", "enum_declaration", "namespace_definition"},
   swift |-> {"function_declaration", "class_declaration", "protocol_declaration",
              "extension_declaration", "enum_declaration", "struct_declaration",
              "property_declaration", "typealias_declaration"},
   csharp |-> TypeKinds \cup {"delegate_declaration", "method_declaration",
                              "constructor_declaration", "property_declaration"},
   html |-> {"element", "script_element", "style_element", "doctype"},
   css |-> {"rule_set", "media_statement", "keyframes_statement", "supports_statement",
            "import_statement", "charset_statement", "at_rule"}]

IsDefinition(lang, kind) == lang \in DOMAIN DefinitionKinds /\ kind \in DefinitionKinds[lang]

IsBarrier(lang, kind) == lang = "csharp" /\ kind \in TypeKinds

IsContainer(kind) ==
  kind \in {"namespace_declaration", "file_scoped_namespace_declaration", "declaration_list"}

\* Whether the children of a node that is reached are looked at.
Descends(lang, kind) ==
  IsContainer(kind) \/ IsBarrier(lang, kind) \/ (lang = "html" /\ IsDefinition(lang, kind))

Ancestors(nodes, i) ==
  {j \in 1..(i - 1) : \A k \in (j + 1)..i : nodes[k].depth > nodes[j].depth}

\* The nodes collect_definitions pushes, as positions in the preorder.
Definitions(s) ==
  {i \in 1..Len(s.nodes) :
     /\ ~IsContainer(s.nodes[i].kind)
     /\ IsDefinition(s.lang, s.nodes[i].kind)
     /\ \A a \in Ancestors(s.nodes, i) : Descends(s.lang, s.nodes[a].kind)}

\* Line feeds and nodes lie in the file, a file that is not blank has a length and one
\* that is is never parsed, and no other definition starts where a type does: its
\* own are behind its name.
ASSUME SourcesAssumption ==
  \A s \in Sources :
    /\ s.size \in Nat /\ s.blank \in BOOLEAN
    /\ ~s.blank => s.size > 0
    /\ s.blank => s.nodes = <<>>
    /\ s.breaks \subseteq 0..(s.size - 1)
    /\ \A i \in DOMAIN s.nodes : s.nodes[i].start \in 0..s.size
    /\ s.nodes \in Seq(Range(s.nodes))
    /\ \A i \in Definitions(s) : IsBarrier(s.lang, s.nodes[i].kind) =>
         /\ s.nodes[i].start < s.size
         /\ \A j \in Definitions(s) \ {i} : s.nodes[j].start # s.nodes[i].start

\* sort_by_key: definitions that start together stay in preorder.
InOrder(s) ==
  Sorted(Definitions(s), LAMBDA i, j :
    \/ s.nodes[i].start < s.nodes[j].start
    \/ s.nodes[i].start = s.nodes[j].start /\ i < j)

\* From where a definition starts to where the next one does.
Reach(s, order, n) ==
  [start |-> s.nodes[order[n]].start,
   end |-> IF n < Len(order) THEN s.nodes[order[n + 1]].start ELSE s.size,
   barrier |-> IsBarrier(s.lang, s.nodes[order[n]].kind)]

\* The first boundary starts where its definition does.
WithoutLeading(s) ==
  {[n \in 1..Len(order) |-> Reach(s, order, n)] : order \in InOrder(s)}

\* What precedes the first definition goes with it.
Whole(s, order, n) == IF n = 1 THEN [Reach(s, order, 1) EXCEPT !.start = 0] ELSE Reach(s, order, n)

\* One boundary for each definition, those that are empty left out.
Kept(s, order) ==
  LET pushed[n \in 0..Len(order)] ==
        IF n = 0 THEN <<>>
        ELSE LET b == Whole(s, order, n)
             IN  IF b.start < b.end THEN Append(pushed[n - 1], b) ELSE pushed[n - 1]
  IN  pushed[Len(order)]

TreeBoundaries(s) == {Kept(s, order) : order \in InOrder(s)}

\* The fallback: a line each.
LineStarts(s) == {0} \cup {b + 1 : b \in s.breaks \ {s.size - 1}}
Lines(s, starts) ==
  [n \in 1..Len(starts) |->
     [start |-> starts[n],
      end |-> IF n < Len(starts) THEN starts[n + 1] ELSE s.size,
      barrier |-> FALSE]]
LineBoundaries(s) == {Lines(s, starts) : starts \in Ascending(LineStarts(s))}

----------------------------------------------------------------------------
(* The lines a chunk is said to hold.                                      *)

BreaksBefore(s, offset) == Cardinality({b \in s.breaks : b < offset})

\* The last line is the number of line feeds, as if each chunk ended with one.
EndAsCounted(s, b) ==
  [start |-> b.start, end |-> b.end,
   first |-> BreaksBefore(s, b.start) + 1, last |-> Max({BreaksBefore(s, b.start) + 1, BreaksBefore(s, b.end)})]

Chunk(s, b) ==
  [start |-> b.start, end |-> b.end,
   first |-> BreaksBefore(s, b.start) + 1, last |-> BreaksBefore(s, b.end) + 1]

----------------------------------------------------------------------------
(* The loop.                                                               *)

NoGroup == [start |-> 0, end |-> 0, length |-> 0]

Init ==
  /\ source \in Sources
  /\ groups = <<>> /\ at = 0 /\ current = NoGroup /\ merged = <<>> /\ chunks = <<>>
  /\ phase = "read"

Blank ==
  /\ phase = "read" /\ source.blank
  /\ phase' = "done"
  /\ UNCHANGED <<source, groups, at, current, merged, chunks>>

Open(g) == [start |-> g.start, end |-> g.end, length |-> g.end - g.start]

Group(boundaries) ==
  /\ groups' = boundaries
  /\ current' = Open(boundaries[1])
  /\ at' = 2
  /\ phase' = "merge"
  /\ UNCHANGED <<source, merged, chunks>>

ByDefinitions ==
  /\ phase = "read" /\ ~source.blank
  /\ \E boundaries \in TreeBoundaries(source) : boundaries # <<>> /\ Group(boundaries)

ByLines ==
  /\ phase = "read" /\ ~source.blank
  /\ <<>> \in TreeBoundaries(source)
  /\ \E boundaries \in LineBoundaries(source) : Group(boundaries)

\* The length alone decides.
PartedByLength(g) == current.length + g.end - g.start > Desired

\* What is held is measured, and what would be added is not.
PartedLate(g) == g.barrier \/ current.length > Desired

Parted(g) == g.barrier \/ current.length + g.end - g.start > Desired

Closed == [start |-> current.start, end |-> current.end]

Part ==
  /\ phase = "merge" /\ at <= Len(groups)
  /\ Parted(groups[at])
  /\ merged' = Append(merged, Closed)
  /\ current' = Open(groups[at])
  /\ at' = at + 1
  /\ UNCHANGED <<source, groups, chunks, phase>>

Join ==
  /\ phase = "merge" /\ at <= Len(groups)
  /\ ~Parted(groups[at])
  /\ current' = [current EXCEPT !.end = groups[at].end,
                                !.length = @ + groups[at].end - groups[at].start]
  /\ at' = at + 1
  /\ UNCHANGED <<source, groups, merged, chunks, phase>>

Return ==
  /\ phase = "merge" /\ at > Len(groups)
  /\ merged' = Append(merged, Closed)
  /\ chunks' = [n \in DOMAIN merged' |-> Chunk(source, merged'[n])]
  /\ phase' = "done"
  /\ UNCHANGED <<source, groups, at, current>>

Next == Blank \/ ByDefinitions \/ ByLines \/ Part \/ Join \/ Return

Spec == Init /\ [][Next]_vars

----------------------------------------------------------------------------
(* Properties.                                                             *)

Offsets == 0..source.size

\* Every boundary lies in the file, lines are counted from one, and the loop
\* stays within its groups (chunking.rs:277, 352).
TypeOK ==
  /\ phase \in {"read", "merge", "done"}
  /\ at \in 0..(Len(groups) + 1)
  /\ \A i \in DOMAIN groups : {groups[i].start, groups[i].end} \subseteq Offsets
  /\ current.length = current.end - current.start
  /\ \A i \in DOMAIN chunks : 1 <= chunks[i].first /\ chunks[i].first <= chunks[i].last

Tiling(pieces, from, to) ==
  /\ pieces[1].start = from /\ pieces[Len(pieces)].end = to
  /\ \A i \in 1..(Len(pieces) - 1) : pieces[i].end = pieces[i + 1].start
  /\ \A i \in DOMAIN pieces : pieces[i].start < pieces[i].end

\* No byte of a file is in two chunks and none is in no chunk, whatever the
\* tree looks like: what is not in a chunk cannot be found (chunking.rs:277).
ChunksTile ==
  /\ phase = "merge" => Tiling(Append(merged, Closed), 0, groups[at - 1].end)
  /\ phase = "done" /\ ~source.blank => Tiling(chunks, 0, source.size)

\* A type declaration, however deep in namespaces and types, starts a chunk
\* of its own; only the first takes what precedes it along (chunking.rs:184).
TypesStartChunks ==
  phase = "done" /\ source.lang = "csharp" =>
    LET defs == Definitions(source) IN
    \A i \in defs :
      /\ source.nodes[i].kind \in TypeKinds
      /\ \E j \in defs : source.nodes[j].start < source.nodes[i].start
      => \E c \in DOMAIN chunks : chunks[c].start = source.nodes[i].start

\* A chunk is longer than desired only if it is one declaration or one line
\* that cannot be cut, and two neighbours that would fit in one chunk are two
\* because a type starts there (chunking.rs:290).
NearDesiredLength ==
  phase = "done" =>
    \A c \in DOMAIN chunks :
      LET within == {g \in DOMAIN groups : chunks[c].start <= groups[g].start /\ groups[g].end <= chunks[c].end}
      IN /\ chunks[c].end - chunks[c].start > Desired => Cardinality(within) = 1
         /\ c > 1 /\ ~groups[Min(within)].barrier
            => groups[Min(within)].end - chunks[c - 1].start > Desired

\* Reading the lines a chunk names gives the whole of its text, and at most
\* the line after it (chunking.rs:355; tools/fs.rs reads by these numbers).
LinesHoldTheChunk ==
  \A c \in DOMAIN chunks :
    LET LineOf(offset) == BreaksBefore(source, offset) + 1
    IN /\ \A o \in chunks[c].start..(chunks[c].end - 1) : LineOf(o) \in chunks[c].first..chunks[c].last
       /\ chunks[c].first = LineOf(chunks[c].start)
       /\ chunks[c].last <= LineOf(chunks[c].end - 1) + 1
=============================================================================
