--------------------------- MODULE ImportResolver ---------------------------
(***************************************************************************)
(* How an import found in a source file is resolved to a file of the       *)
(* repository: src/src/engine/graph.rs (resolve_import and its helpers)    *)
(* and src/src/engine/csharp.rs (Resolver).                                *)
(*                                                                         *)
(* A path is a record [dir, stem, ext] whose dir is the sequence of its    *)
(* directories.  A node is what add_file keeps of a file: its language,    *)
(* package, symbols and imports.  An import is [form, segs]: the form      *)
(* resolve_import tells from the first characters of the text, and the     *)
(* names between the separators.  The tables of a DependencyGraph are hash *)
(* maps: `order` is the order this process happens to iterate them in.     *)
(*                                                                         *)
(* The code measures closeness in characters; here it is measured in       *)
(* directories, which orders paths the same way when no directory's name   *)
(* begins like another's.                                                  *)
(***************************************************************************)
EXTENDS Naturals, FiniteSets, SequencesExt

CONSTANTS
  LowerCase,  \* names that are not in lower case -> the name in lower case
  RankOf,     \* the place of a namespace in alphabetical order
  Begins,     \* the pairs <<a, b>> of different names such that b begins with a
  Tails       \* the pairs <<a, b>> of different names such that b ends with a

NoPackage == <<>>
NoFile == [dir |-> <<>>, stem |-> "", ext |-> ""]

Lower(n) == IF n \in DOMAIN LowerCase THEN LowerCase[n] ELSE n

\* A path without its extension, as the sequence of its components.
Components(p) == Append(p.dir, p.stem)

\* Paths are compared as texts: a name at the edge of one may be a part of the
\* name it stands against.
IsHead(a, b) == a = b \/ <<a, b>> \in Begins
IsTail(a, b) == a = b \/ <<a, b>> \in Tails

PathEndsWith(path, segs) ==
  LET skipped == Len(path) - Len(segs)
  IN  /\ skipped >= 0
      /\ IsTail(segs[1], path[skipped + 1])
      /\ \A i \in 2..Len(segs) : path[skipped + i] = segs[i]

PathBeginsWith(path, segs) ==
  /\ Len(segs) <= Len(path)
  /\ IsHead(Last(segs), path[Len(segs)])
  /\ \A i \in 1..Len(segs) - 1 : path[i] = segs[i]

\* At least two names.
PathHolds(path, segs) ==
  \E skipped \in 0..Len(path) - Len(segs) :
    /\ IsTail(segs[1], path[skipped + 1])
    /\ IsHead(Last(segs), path[skipped + Len(segs)])
    /\ \A i \in 2..Len(segs) - 1 : path[skipped + i] = segs[i]

\* What a set holds of a sequence, in the order of the sequence.
Kept(seq, S) ==
  LET kept[n \in 0..Len(seq)] ==
        IF n = 0 THEN <<>>
        ELSE IF seq[n] \in S THEN Append(kept[n - 1], seq[n]) ELSE kept[n - 1]
  IN  kept[Len(seq)]

CommonPrefix(a, b) == Cardinality({i \in 1..Len(a) : IsPrefix(SubSeq(a, 1, i), b)})

----------------------------------------------------------------------------
(* Choosing among candidates, listed in hash order.                        *)

\* Iterator::max_by returns the last of the greatest elements.
FindClosest(candidates, dir) ==
  IF candidates = <<>> THEN NoFile
  ELSE LET Closeness(p) == CommonPrefix(dir, Components(p))
           best == {i \in 1..Len(candidates) :
                      \A j \in 1..Len(candidates) :
                        Closeness(candidates[j]) <= Closeness(candidates[i])}
       IN  candidates[CHOOSE i \in best : \A j \in best : j <= i]

FindClosestWithStem(candidates, dir, stem) ==
  LET exact == Kept(candidates, {p \in Range(candidates) : p.stem = stem})
  IN  FindClosest(IF exact = <<>> THEN candidates ELSE exact, dir)

FindSameDirectory(candidates, dir) ==
  FindClosest(Kept(candidates, {p \in Range(candidates) : p.dir = dir}), dir)

\* The first path of a set, in hash order.
FirstOf(paths, S) ==
  LET found == Kept(paths, S) IN IF found = <<>> THEN NoFile ELSE found[1]

\* The first of several ways to resolve an import that leads to a file.
OrElse(first, second) == IF first = NoFile THEN second ELSE first

----------------------------------------------------------------------------
(* The indexes, and one operator per form of import.                       *)

WithStem(name, order) == Kept(order, {p \in Range(order) : Lower(p.stem) = Lower(name)})

\* The code lists a file once for each of its symbols of that name, one behind the
\* other, which is the same to FindClosest.
WithSymbol(name, nodes, order) ==
  Kept(order, {p \in Range(order) : \E s \in Range(nodes[p].symbols) : Lower(s.name) = Lower(name)})

InPackage(paths, package, nodes) ==
  Kept(paths, {p \in Range(paths) : nodes[p].package = package})

\* mod foo;  is foo.rs or foo/mod.rs next to the file, or the closest foo.
ResolveMod(name, dir, order) ==
  LET next == {[dir |-> dir, stem |-> name, ext |-> "rs"],
               [dir |-> Append(dir, name), stem |-> "mod", ext |-> "rs"]}
  IN  OrElse(FirstOf(order, next),
             FindClosest(WithStem(name, order), dir))

\* use crate::a::b;  is the closest file named like the last segment that
\* names any file.
ResolveCrate(segs, dir, order) ==
  LET known == {i \in 1..Len(segs) : WithStem(segs[i], order) # <<>>}
  IN  IF known = {} THEN NoFile
      ELSE FindClosest(WithStem(segs[CHOOSE i \in known : \A j \in known : j <= i],
                                order), dir)

\* import "@/a/b"  is the first path that ends so, or the closest b.
ResolveAlias(segs, dir, order) ==
  OrElse(FirstOf(order, {p \in Range(order) : PathEndsWith(Components(p), segs)}),
         FindClosestWithStem(WithStem(Last(segs), order), dir, Last(segs)))

\* import "./a"  is the first path that is dir/a but for its extension, or that
\* of an index file and begins with dir/a.
ResolveBelow(segs, dir, order) ==
  LET base == dir \o segs
  IN  FirstOf(order, {p \in Range(order) : \/ Components(p) = base
                                           \/ p.stem = "index" /\ PathBeginsWith(Components(p), base)})

\* import "../a": every point becomes a slash, so the text is joined as an
\* absolute path and equals no path of the repository.
ResolveAbove == NoFile

\* A dotted import that gives up at the first file of that name.
ResolveDottedFirst(segs, nodes, dir, order) ==
  LET named == WithStem(Last(segs), order)
  IN  IF named # <<>> /\ named[1].dir # dir THEN NoFile ELSE FindClosest(named, dir)

\* import a.b.c  is a file whose path holds a/b/c, or the closest file named c
\* of package a.b, or the closest file of package a.b that declares c.
ResolveDotted(segs, nodes, dir, order) ==
  LET named == WithStem(Last(segs), order)
      held  == {p \in Range(named) : PathHolds(Append(Components(p), p.ext), segs)}
  IN  OrElse(OrElse(FirstOf(named, held),
                    FindClosest(InPackage(named, Front(segs), nodes), dir)),
             FindClosest(InPackage(WithSymbol(Last(segs), nodes, order),
                                   Front(segs), nodes), dir))

\* Anything else is a file named like the last segment in the same directory.
ResolvePlain(segs, dir, order) ==
  FindSameDirectory(WithStem(Last(segs), order), dir)

ResolveImport(imp, p, nodes, order) ==
  CASE imp.form = "mod"    -> ResolveMod(imp.segs[1], p.dir, order)
    [] imp.form = "crate"  -> ResolveCrate(imp.segs, p.dir, order)
    [] imp.form = "alias"  -> ResolveAlias(imp.segs, p.dir, order)
    [] imp.form = "below"  -> ResolveBelow(imp.segs, p.dir, order)
    [] imp.form = "above"  -> ResolveAbove
    [] imp.form = "dotted" -> ResolveDotted(imp.segs, nodes, p.dir, order)
    [] OTHER               -> ResolvePlain(imp.segs, p.dir, order)

----------------------------------------------------------------------------
(* C#: usings contribute scope and type references are looked up in it.    *)

TypeKinds == {"class", "interface", "record", "struct", "enum"}

\* The files that declare a type, keyed by namespace and name.  The table is
\* the same in every order but for the order of the files of a partial type.
Declaring(namespace, name, nodes) ==
  {p \in DOMAIN nodes :
     /\ nodes[p].lang = "csharp"
     /\ nodes[p].package = namespace
     /\ \E i \in 1..Len(nodes[p].symbols) :
          nodes[p].symbols[i].name = name /\ nodes[p].symbols[i].kind \in TypeKinds}

GlobalUsings(nodes) ==
  UNION {{imp.segs : imp \in {i \in nodes[p].imports : i.form = "gusing"}} :
           p \in {q \in DOMAIN nodes : nodes[q].lang = "csharp"}}

\* The global namespace, the file's own and its ancestors, and its usings.
ScopeFor(node, nodes) ==
  {SubSeq(node.package, 1, i) : i \in 0..Len(node.package)}
    \union {imp.segs : imp \in {i \in node.imports : i.form = "using"}}
    \union GlobalUsings(nodes)

\* The scope is tried in alphabetical order, and the first namespace that
\* declares the name decides.
FirstDeclaring(filesOf) ==
  LET hits == {ns \in DOMAIN filesOf : filesOf[ns] # {}}
  IN  IF hits = {} THEN {}
      ELSE filesOf[CHOOSE ns \in hits : \A other \in hits : RankOf[ns] <= RankOf[other]]

\* Type names looked up wherever they are declared.
LookupAnywhere(name, scope, nodes) ==
  UNION {Declaring(nodes[p].package, name, nodes) : p \in DOMAIN nodes}

LookupInScope(name, scope, nodes) ==
  FirstDeclaring([ns \in scope |-> Declaring(ns, name, nodes)])

LookupQualified(segs, scope, nodes) ==
  LET whole == Declaring(Front(segs), Last(segs), nodes)
  IN  IF whole # {} THEN whole
      ELSE FirstDeclaring([ns \in scope \ {NoPackage} |->
                             Declaring(ns \o Front(segs), Last(segs), nodes)])

ResolveTypes(p, nodes) ==
  LET scope == ScopeFor(nodes[p], nodes)
      Files(imp) == CASE imp.form = "ref"  -> LookupInScope(imp.segs[1], scope, nodes)
                      [] imp.form = "qref" -> LookupQualified(imp.segs, scope, nodes)
                      [] OTHER -> {}
  IN  (UNION {Files(imp) : imp \in nodes[p].imports}) \ {p}
=============================================================================
