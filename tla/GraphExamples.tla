--------------------------- MODULE GraphExamples --------------------------
(* Small repositories for DependencyGraph, whose imports vary.             *)
EXTENDS Naturals, TLC

Path(dir, stem, ext) == [dir |-> dir, stem |-> stem, ext |-> ext]
Source(lang, items) == [lang |-> lang, items |-> items, mentions |-> {}, blank |-> FALSE]
Blank(lang) == [Source(lang, <<>>) EXCEPT !.blank = TRUE]
Decl(kind, name) == [kind |-> kind, depth |-> 0, name |-> name]
Imp(kind, form, segs) ==
  [kind |-> kind, depth |-> 0, name |-> "", imp |-> [form |-> form, segs |-> segs]]

\* Rust: two files named a in different directories, and a directory module.
RustUses == {Imp("mod", "mod", <<"a">>), Imp("use", "crate", <<"a", "X">>),
             Imp("use", "crate", <<"b">>), Imp("mod", "mod", <<"b">>)}
RustRepos ==
  {(Path(<<"s">>, "lib", "rs") :> Source("rust", <<i>>)
    @@ Path(<<"s">>, "a", "rs") :> Source("rust", <<Decl("struct", "X"), j>>)
    @@ Path(<<"t">>, "a", "rs") :> Source("rust", <<Decl("function", "Y"), k>>)
    @@ Path(<<"s", "b">>, "mod", "rs") :> Source("rust", <<Imp("use", "crate", <<"a">>)>>)) :
     i \in RustUses, j \in RustUses, k \in {Imp("use", "crate", <<"a">>), Imp("mod", "mod", <<"b">>)}}

\* TypeScript: two files of one name, a directory whose name begins with it and
\* ends with that of an alias, and a blank file that is no TypeScript.
ScriptImports == {Imp("import", "below", <<"f">>), Imp("import", "alias", <<"F">>),
                  Imp("import", "alias", <<"s", "g">>), Imp("import", "alias", <<"x", "index">>)}
ScriptRepos ==
  {(Path(<<"s">>, "f", "ts") :> Source("typescript", <<i, Imp("import", "below", <<"g">>)>>)
    @@ Path(<<"s">>, "g", "ts") :> Source("typescript", <<j>>)
    @@ Path(<<"s", "fx">>, "index", "ts") :> Source("typescript", <<k>>)
    @@ Path(<<"t">>, "f", "py") :> Blank("python")) :
     i \in ScriptImports, j \in ScriptImports, k \in {Imp("import", "above", <<"g">>)}}

\* Java, Ruby and a language without a grammar: packages, names and symbols, and a
\* directory whose name ends with a package's.
DottedImports == {Imp("import", "dotted", <<"p", "Ord">>), Imp("import", "dotted", <<"p", "Aux">>),
                  Imp("require_relative", "plain", <<"a">>)}
DottedRepos ==
  {(Path(<<"m">>, "Ord", "java") :> Source("java", <<Imp("package", "name", <<"p">>), Decl("class", "Ord"), Decl("class", "Aux"), i>>)
    @@ Path(<<k.in>>, "Ord", "java") :> Source("java", <<Imp("package", "name", <<"p">>), Decl("class", "Aux"), j>>)
    @@ Path(<<"m">>, "a", "rb") :> Source("ruby", <<Decl("method", "run"), k.imp>>)
    @@ Path(<<"m">>, "a", "lua") :> Source("lua", <<>>)
    @@ Path(<<"m">>, "a", "c") :> Source("c", <<Decl("function", "aid")>>)) :
     i \in DottedImports, j \in DottedImports,
     k \in {[in |-> "n", imp |-> Imp("import", "dotted", <<"p", "Aux">>)],
            [in |-> "np", imp |-> Imp("require_relative", "plain", <<"a">>)]}}

\* C#: two types of one name, a partial type, ancestors and global usings.
Nested(kind, name) == [kind |-> kind, depth |-> 2, name |-> name]
SharpImports == {Imp("using", "using", <<"B">>), Imp("gusing", "gusing", <<"A">>),
                 Imp("qref", "qref", <<"A", "Order">>)}
SharpRepos ==
  {(Path(<<>>, "one", "cs") :> Source("csharp", <<Imp("namespace", "name", <<"A">>), Nested("class", "Order"), i>>)
    @@ Path(<<>>, "two", "cs") :> Source("csharp", <<Imp("namespace", "name", <<"B">>), Nested("class", "Order"), Nested("method", "Ship")>>)
    @@ Path(<<>>, "three", "cs") :> Source("csharp", <<Imp("namespace", "name", <<"A", "C">>), Imp("ref", "ref", <<"Order">>), Imp("ref", "ref", <<"Ship">>), j>>)
    @@ Path(<<>>, "four", "cs") :> Source("csharp", <<Imp("ref", "ref", <<"Order">>), k>>)) :
     i \in SharpImports, j \in SharpImports, k \in {Imp("using", "using", <<"B">>)}}

MCRepos == RustRepos \union ScriptRepos \union DottedRepos \union SharpRepos
MCLowerCase == [n \in {"Ord", "Aux", "F", "X", "Y", "Order", "Ship"} |->
                  CASE n = "Ord" -> "ord" [] n = "Aux" -> "aux" [] n = "F" -> "f"
                    [] n = "X" -> "x" [] n = "Y" -> "y" [] n = "Order" -> "order" [] OTHER -> "ship"]
MCBegins == {<<"f", "fx">>}
MCTails == {<<"x", "fx">>, <<"p", "np">>}
MCRankOf == <<>> :> 0 @@ <<"A">> :> 1 @@ <<"A", "C">> :> 2 @@ <<"B">> :> 3
MCEntryPoints == {<<"lib", "rs">>, <<"mod", "rs">>, <<"index", "ts">>}
=============================================================================
