--------------------------- MODULE DependencyGraph --------------------------
(***************************************************************************)
(* The dependency graph of an index: src/src/engine/graph.rs with the loop *)
(* that fills it, src/src/engine/index/create.rs.                          *)
(*                                                                         *)
(* The walked files are read one by one; a file that is gone, too large or *)
(* not text is skipped.  What add_file keeps of a parsed file is computed  *)
(* from its syntax tree, here the sequence `items` of its nodes:           *)
(* [kind, depth, name] and, for one that imports, [imp].  A blank file has *)
(* no chunks but is a file of the graph all the same.  resolve_dependen-   *)
(* cies then turns the imports into edges with hash tables whose order     *)
(* nobody controls, and the queries walk the reverse index.                *)
(***************************************************************************)
EXTENDS ImportResolver

CONSTANTS
  Repos,       \* the repositories: functions from walked path to source
  EntryPoints  \* the names ENTRY_POINT_NAMES lists that occur, as <<stem, ext>>

VARIABLES
  repo,      \* the repository on disk
  walked,    \* the paths walk_files returned and the loop has yet to read
  files,     \* the graph's files: path -> node
  chunked,   \* the files the index holds chunks of
  order,     \* the order in which this process iterates its hash tables
  reverse,   \* the reverse index: path -> sequence of the files that import it
  pc,        \* "reading", "resolving", "ready", "impact", "dot", "failed"
  query      \* the walk of an impact query: [of, queue, visited, edges]

vars == <<repo, walked, files, chunked, order, reverse, pc, query>>

Walk == SetToSeq(DOMAIN repo)
NoQuery == [of |-> NoFile, queue |-> <<>>, visited |-> {}, edges |-> <<>>]

----------------------------------------------------------------------------
(* What is kept of a parsed file.                                          *)

\* The languages get_language has a grammar for, of those the walker names.
Parsed == {"rust", "python", "javascript", "typescript", "go", "java", "c", "cpp",
           "csharp", "kotlin", "ruby", "php", "swift"}

\* The nodes that declare a symbol, by language.  All but C# are read at the top
\* level only; an export or a decorator stands for what it wraps.
SymbolKinds ==
  LET script == {"function", "class", "interface", "type_alias", "enum", "const"}
  IN  [rust       |-> {"function", "struct", "enum", "trait", "impl", "module", "const",
                       "static", "type_alias", "macro"},
       python     |-> {"function", "class"},
       javascript |-> script,
       typescript |-> script,
       go         |-> {"function", "method", "type"},
       java       |-> {"class", "interface", "enum", "method", "record"},
       c          |-> {"function"},
       cpp        |-> {"function", "class", "struct", "namespace"},
       kotlin     |-> {"class", "object", "function", "property", "type_alias"},
       ruby       |-> {"method", "singleton_method", "class", "module"},
       php        |-> {"function", "method", "class", "interface", "trait", "enum"},
       swift      |-> {"function", "class", "struct", "protocol", "enum", "extension",
                       "type_alias"}]

ExtractSymbols(src) ==
  SelectSeq(src.items, LAMBDA i : i.depth = 0 /\ i.kind \in SymbolKinds[src.lang])

\* Ruby and PHP import files by calls; a bare require names a gem and is no import.
RequireKinds ==
  [ruby |-> {"require_relative", "load"},
   php  |-> {"require", "require_once", "include", "include_once"}]

\* The nodes that import, by language; a mod with a body imports nothing.
ImportKinds ==
  [l \in Parsed \ {"csharp"} |->
     CASE l = "rust" -> {"use", "mod"}
       [] l = "python" -> {"import", "import_from"}
       [] l \in {"c", "cpp"} -> {"include"}
       [] l = "ruby" -> RequireKinds.ruby
       [] l = "php" -> RequireKinds.php \union {"namespace_use"}
       [] OTHER -> {"import"}]

ExtractImports(src) ==
  {i.imp : i \in {j \in Range(src.items) : j.depth = 0 /\ j.kind \in ImportKinds[src.lang]}}

ExtractPackage(src) ==
  LET packages == SelectSeq(src.items, LAMBDA i : i.depth = 0 /\ i.kind = "package")
  IN  IF src.lang \in {"java", "kotlin"} /\ packages # <<>> THEN packages[1].imp.segs ELSE NoPackage

\* C# declares, names types and opens namespaces at any depth; of several
\* namespaces the first is kept.
CSharpSymbols(src) ==
  SelectSeq(src.items, LAMBDA i : i.kind \in TypeKinds \union {"method", "constructor", "property"})

CSharpImports(src) ==
  {i.imp : i \in {j \in Range(src.items) : j.kind \in {"using", "gusing", "ref", "qref"}}}

CSharpNamespace(src) ==
  LET namespaces == SelectSeq(src.items, LAMBDA i : i.kind = "namespace")
  IN  IF namespaces = <<>> THEN NoPackage ELSE namespaces[1].imp.segs

NodeOf(src) ==
  IF src.lang = "csharp"
  THEN [lang |-> src.lang, package |-> CSharpNamespace(src),
        symbols |-> CSharpSymbols(src), imports |-> CSharpImports(src), depends |-> {}]
  ELSE [lang |-> src.lang, package |-> ExtractPackage(src),
        symbols |-> ExtractSymbols(src), imports |-> ExtractImports(src), depends |-> {}]

----------------------------------------------------------------------------
(* Building the index.                                                     *)

\* The namespaces a C# file brings into scope: its own, those around it and its usings.
Opened(src) ==
  {SubSeq(CSharpNamespace(src), 1, i) : i \in 0..Len(CSharpNamespace(src))}
    \union {i.segs : i \in {j \in CSharpImports(src) : j.form \in {"using", "gusing"}}}

\* Directories are named, no file has the name of none, and every namespace that
\* can be in scope has its place in the alphabet.
GraphAssumption ==
  /\ Repos # {}
  /\ \A r \in Repos :
       /\ IsFiniteSet(DOMAIN r) /\ NoFile \notin DOMAIN r
       /\ \A p \in DOMAIN r :
            /\ p.dir \in Seq(STRING)
            /\ r[p].lang = "csharp" => \A ns \in Opened(r[p]) : RankOf[ns] \in Nat

Init ==
  /\ repo \in Repos
  /\ walked = Walk
  /\ files = <<>>
  /\ chunked = {}
  /\ order = <<>>
  /\ reverse = <<>>
  /\ pc = "reading"
  /\ query = NoQuery

\* The file is gone, over a megabyte or not UTF-8 by the time it is read.
SkipFile ==
  /\ pc = "reading"
  /\ walked # <<>>
  /\ walked' = Tail(walked)
  /\ UNCHANGED <<repo, files, chunked, order, reverse, pc, query>>

\* The file is chunked, unless it is blank, and kept in the graph, blank or not,
\* when its language has a grammar.
AddFile ==
  /\ pc = "reading"
  /\ walked # <<>>
  /\ LET p == Head(walked)
     IN  /\ chunked' = IF repo[p].blank THEN chunked ELSE chunked \union {p}
         /\ files' = IF repo[p].lang \in Parsed
                     THEN [q \in DOMAIN files \union {p} |->
                             IF q = p THEN NodeOf(repo[p]) ELSE files[q]]
                     ELSE files
  /\ walked' = Tail(walked)
  /\ UNCHANGED <<repo, order, reverse, pc, query>>

AllRead ==
  /\ pc = "reading"
  /\ walked = <<>>
  /\ pc' = IF chunked = {} THEN "failed" ELSE "resolving"
  /\ UNCHANGED <<repo, walked, files, chunked, order, reverse, query>>

\* Dependencies that keep a file's import of itself.
DependsOnItself(p, nodes, hashed) ==
  IF nodes[p].lang = "csharp"
  THEN ResolveTypes(p, nodes)
  ELSE {ResolveImport(imp, p, nodes, hashed) : imp \in nodes[p].imports} \ {NoFile}

\* What a file depends on when the hash tables are iterated in that order.
DependsOn(p, nodes, hashed) ==
  IF nodes[p].lang = "csharp"
  THEN ResolveTypes(p, nodes)
  ELSE {ResolveImport(imp, p, nodes, hashed) : imp \in nodes[p].imports} \ {NoFile, p}

\* The reverse index of a graph whose files are iterated in that order.
ReverseIndex(depends, hashed) ==
  [p \in UNION {depends[q] : q \in DOMAIN depends} |->
     Kept(hashed, {q \in DOMAIN depends : p \in depends[q]})]

ResolveDependencies ==
  /\ pc = "resolving"
  /\ \E hashed \in SetToSeqs(DOMAIN files) :
       /\ order' = hashed
       /\ LET depends == [p \in DOMAIN files |-> DependsOn(p, files, hashed)]
          IN  /\ files' = [p \in DOMAIN files |-> [files[p] EXCEPT !.depends = depends[p]]]
              /\ reverse' = ReverseIndex(depends, hashed)
  /\ pc' = "ready"
  /\ UNCHANGED <<repo, walked, chunked, query>>

----------------------------------------------------------------------------
(* Queries.                                                                *)

Dependents(p) == IF p \in DOMAIN reverse THEN reverse[p] ELSE <<>>

IsEntryPoint(p) == <<p.stem, p.ext>> \in EntryPoints

Orphans == {p \in DOMAIN files : ~IsEntryPoint(p) /\ Dependents(p) = <<>>}

\* The names imports end in, as written and in lower case.
ImportedNames ==
  LET last == {Last(imp.segs) : imp \in UNION {files[p].imports : p \in DOMAIN files}}
  IN  last \union {Lower(n) : n \in last}

\* The name of every symbol of every file.
Declarations ==
  FlattenSeq([i \in 1..Len(order) |->
    [j \in 1..Len(files[order[i]].symbols) |-> files[order[i]].symbols[j].name]])

\* A symbol is unused when it is declared once, no import ends in its name, no
\* other line of its file holds it and nothing depends on its file.
UnusedSymbols ==
  LET Unused(p, s) ==
        /\ s.name \notin {"main", "new", "default", "lib"}
        /\ {s.name, Lower(s.name)} \intersect ImportedNames = {}
        /\ Len(SelectSeq(Declarations, LAMBDA n : n = s.name)) = 1
        /\ ~IsEntryPoint(p)
        /\ s.name \notin repo[p].mentions
        /\ Dependents(p) = <<>>
  IN  UNION {{<<p, s>> : s \in {t \in Range(files[p].symbols) : Unused(p, t)}} : p \in DOMAIN files}

Ask(p, kind) ==
  /\ pc = "ready"
  /\ pc' = kind
  /\ query' = [of |-> p, queue |-> <<p>>, visited |-> {p}, edges |-> <<>>]
  /\ UNCHANGED <<repo, walked, files, chunked, order, reverse>>

\* A walk that stops at the direct dependents.
VisitImpactOnce ==
  /\ pc = "impact"
  /\ query.queue # <<>>
  /\ query' = [query EXCEPT !.queue = <<>>, !.visited = @ \union Range(Dependents(query.of))]
  /\ UNCHANGED <<repo, walked, files, chunked, order, reverse, pc>>

\* A walk that forgets what it has visited.
VisitImpactForgetful ==
  /\ pc = "impact"
  /\ query.queue # <<>>
  /\ query' = [query EXCEPT !.queue = Tail(@) \o Dependents(Head(query.queue))]
  /\ UNCHANGED <<repo, walked, files, chunked, order, reverse, pc>>

\* One turn of the loop of impact: the dependents not yet visited are queued.
VisitImpact ==
  /\ pc = "impact"
  /\ query.queue # <<>>
  /\ LET new == Kept(Dependents(Head(query.queue)), DOMAIN files \ query.visited)
     IN  query' = [query EXCEPT !.queue = Tail(@) \o new, !.visited = @ \union Range(new)]
  /\ UNCHANGED <<repo, walked, files, chunked, order, reverse, pc>>

\* The files an impact query answers with.
Impact == query.visited \ {query.of}

\* A drawing of the edges along which the walk found a file.
VisitDotTree ==
  /\ pc = "dot"
  /\ query.queue # <<>>
  /\ LET current == Head(query.queue)
         new == Kept(Dependents(current), DOMAIN files \ query.visited)
     IN  query' = [query EXCEPT !.queue = Tail(@) \o new, !.visited = @ \union Range(new),
                                !.edges = @ \o [i \in 1..Len(new) |-> <<new[i], current>>]]
  /\ UNCHANGED <<repo, walked, files, chunked, order, reverse, pc>>

\* One turn of the loop of impact_dot: every dependent is an edge, drawn once.
VisitDot ==
  /\ pc = "dot"
  /\ query.queue # <<>>
  /\ LET current == Head(query.queue)
         deps == Dependents(current)
         new == Kept(deps, DOMAIN files \ query.visited)
     IN  query' = [query EXCEPT !.queue = Tail(@) \o new, !.visited = @ \union Range(new),
                                !.edges = @ \o [i \in 1..Len(deps) |-> <<deps[i], current>>]]
  /\ UNCHANGED <<repo, walked, files, chunked, order, reverse, pc>>

Answered ==
  /\ pc \in {"impact", "dot"}
  /\ query.queue = <<>>
  /\ pc' = "ready"
  /\ query' = NoQuery
  /\ UNCHANGED <<repo, walked, files, chunked, order, reverse>>

Next ==
  \/ SkipFile \/ AddFile \/ AllRead \/ ResolveDependencies
  \/ \E p \in DOMAIN files, kind \in {"impact", "dot"} : Ask(p, kind)
  \/ VisitImpact \/ VisitDot \/ Answered

Spec == Init /\ [][Next]_vars /\ WF_vars(VisitImpact \/ VisitDot \/ Answered)

----------------------------------------------------------------------------
(* Properties.                                                             *)

Orders == SetToSeqs(DOMAIN files)

\* The types of the variables: every edge leads to another file of the graph.
TypeOK ==
  /\ repo \in Repos
  /\ chunked \subseteq DOMAIN repo /\ DOMAIN files \subseteq DOMAIN repo
  /\ \A p \in DOMAIN files : p \in chunked <=> ~repo[p].blank
  /\ \A p \in DOMAIN files : files[p].depends \subseteq DOMAIN files \ {p}
  /\ pc \in {"reading", "resolving", "ready", "impact", "dot", "failed"}
  /\ query.visited \subseteq DOMAIN files

\* The files that reach p along dependencies, p included, by iteration.
Reaching(p) ==
  LET after[n \in 0..Cardinality(DOMAIN files)] ==
        IF n = 0 THEN {p}
        ELSE after[n - 1] \union {q \in DOMAIN files : files[q].depends \intersect after[n - 1] # {}}
  IN  after[Cardinality(DOMAIN files)]

\* An impact query answers with exactly the files that depend on the file, how-
\* ever far away, and never with the file itself, cycles or not (graph.rs impact).
ImpactIsReachability ==
  pc = "impact" /\ query.queue = <<>> => Impact = Reaching(query.of) \ {query.of}

\* The drawing of an impact holds every dependency between the files it is about
\* exactly once, the edges that close a cycle included (graph.rs impact_dot).
DotIsInduced ==
  pc = "dot" /\ query.queue = <<>> =>
    /\ Range(query.edges) = {e \in (DOMAIN files) \X query.visited : e[2] \in files[e[1]].depends}
    /\ IsInjective(query.edges)
    /\ query.visited = Reaching(query.of)

\* Changing an orphan concerns nobody, a file that concerns nobody is reported as
\* an orphan unless it is an entry point, and a symbol reported as unused lies in
\* an orphan (graph.rs orphans, unused_symbols).
OrphansConcernNobody ==
  pc = "ready" =>
    /\ Orphans = {p \in DOMAIN files : Reaching(p) = {p} /\ ~IsEntryPoint(p)}
    /\ \A u \in UnusedSymbols : u[1] \in Orphans

\* The iteration order of the hash tables may choose between files, but never
\* decides whether an import is resolved at all (graph.rs resolve_import).
OrderNeverLosesAnImport ==
  pc = "ready" =>
    \A p \in DOMAIN files, hashed \in Orders : \A imp \in files[p].imports :
      files[p].lang # "csharp" =>
        ((ResolveImport(imp, p, files, hashed) = NoFile)
           <=> (ResolveImport(imp, p, files, order) = NoFile))

\* A type named in C# is found when a namespace in scope declares it, and then in
\* files that all declare it in one namespace of the scope, whatever other types
\* of that name exist (csharp.rs Resolver).
ScopeDecides ==
  pc = "ready" =>
    \A p \in {q \in DOMAIN files : files[q].lang = "csharp"} :
      \A imp \in {i \in files[p].imports : i.form = "ref"} :
        LET scope == ScopeFor(files[p], files)
            found == LookupInScope(imp.segs[1], scope, files)
        IN  /\ {files[q].package : q \in found} \subseteq scope
            /\ Cardinality({files[q].package : q \in found}) <= 1
            /\ (\E ns \in scope : Declaring(ns, imp.segs[1], files) # {}) => found # {}
            /\ found \ {p} \subseteq files[p].depends

\* A query is answered, cycles or not: the walk marks what it has visited.
QueriesEnd == pc \in {"impact", "dot"} ~> pc = "ready"
=============================================================================
