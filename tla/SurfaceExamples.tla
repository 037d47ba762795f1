--------------------------- MODULE SurfaceExamples ---------------------------
(***************************************************************************)
(* Repositories for Surface.  A file is a sequence of blocks, each a       *)
(* declaration with its lines, its symbols and what was declared; offsets  *)
(* in a block count from one.  Hidden types end where their braces or      *)
(* their semicolon do and long signatures close a parenthesis.             *)
(***************************************************************************)
EXTENDS Integers, SequencesExt

L(indent, toks) == [indent |-> indent, toks |-> toks]
S(kind, name, at, quiet) == [kind |-> kind, name |-> name, line |-> at, quiet |-> quiet]
D(at, last, parts, signature, public) ==
  [line |-> at, last |-> last, parts |-> parts, signature |-> signature, public |-> public]
B(lines, symbols, decls) == [lines |-> lines, symbols |-> symbols, decls |-> decls]

ShortClass ==
  B(<<L(0, <<"public", "class", "A", "{">>), L(4, <<"public", "int", "P", "{", "get", ";", "private", "set", ";", "}">>),
      L(0, <<"}">>)>>,
    <<S("property", "P", 2, FALSE), S("class", "A", 1, FALSE)>>,
    {D(1, 3, 1..3, <<>>, TRUE), D(2, 2, {2}, <<"public", "int", "P">>, TRUE)})

LongClass ==
  B(<<L(0, <<"public", "class", "B", "{">>), L(4, <<"public", "int", "F", "{", "get", ";", "private", "set", ";", "}">>),
      L(4, <<"public", "void", "M", "(">>), L(8, <<"int", "x", ")", "{">>), L(8, <<"if", "(", "x", ")", "{">>),
      L(12, <<"y", ";">>), L(8, <<"}">>), L(4, <<"}">>), L(4, <<"public", "class", "K", "{", "}">>), L(0, <<"}">>)>>,
    <<S("class", "B", 1, FALSE), S("property", "F", 2, FALSE), S("method", "M", 3, FALSE), S("class", "K", 9, FALSE)>>,
    {D(1, 10, {1, 2, 3, 4, 9, 10}, <<>>, TRUE), D(2, 2, {2}, <<"public", "int", "F">>, TRUE),
     D(3, 8, {3, 4}, <<"public", "void", "M", "(", "int", "x", ")">>, TRUE), D(9, 9, {9}, <<>>, TRUE)})

HugeClass ==
  B(<<L(0, <<"public", "class", "H", "{">>), L(4, <<"public", "void", "V", "(">>), L(8, <<"int", "x", ")", ";">>),
      L(4, <<"public", "class", "Y", "{", "}">>)>>
      \o [i \in 1..7 |-> L(4, <<"z", ";">>)]
      \o <<L(4, <<"public", "int", "G", "{", "get", ";", "private", "set", ";", "}">>), L(0, <<"}">>)>>,
    <<S("class", "H", 1, FALSE), S("method", "V", 2, FALSE), S("class", "Y", 4, FALSE), S("property", "G", 12, FALSE)>>,
    {D(1, 13, 1..13, <<>>, TRUE), D(2, 3, {2, 3}, <<"public", "void", "V", "(", "int", "x", ")">>, TRUE),
     D(4, 4, {4}, <<>>, TRUE), D(12, 12, {12}, <<"public", "int", "G">>, TRUE)})

HiddenClass ==
  B(<<L(0, <<"private", "class", "C", "{">>), L(4, <<"public", "void", "Q", "(", ")", "{", "}">>), L(0, <<"}">>)>>,
    <<S("class", "C", 1, FALSE), S("method", "Q", 2, FALSE)>>, {D(1, 3, 1..3, <<>>, FALSE)})

Record ==
  B(<<L(0, <<"public", "record", "R", "(">>), L(4, <<"int", "/*", "}", "*/", "x">>), L(4, <<")", ";", "//", "}">>)>>,
    <<S("record", "R", 1, FALSE)>>, {D(1, 3, 1..3, <<>>, TRUE)})

CSharp == {ShortClass, LongClass, HugeClass, HiddenClass, Record}

RustFunction ==
  B(<<L(0, <<"pub", "fn", "f", "(">>), L(4, <<"x", ":", "u8", ",">>), L(0, <<")", "->", "u8", "{">>), L(4, <<"x">>), L(0, <<"}">>)>>,
    <<S("function", "f", 1, FALSE)>>, {D(1, 5, 1..3, <<"pub", "fn", "f", "(", "x", ":", "u8", ",", ")", "->", "u8">>, TRUE)})

RustHidden ==
  B(<<L(0, <<"struct", "S", ";">>), L(0, <<"fn", "g", "(", ")", "{", "}">>)>>,
    <<S("struct", "S", 1, FALSE), S("function", "g", 2, FALSE)>>, {D(1, 1, {1}, <<>>, FALSE), D(2, 2, {2}, <<>>, FALSE)})

RustImpl ==
  B(<<L(0, <<"#", "[", "cfg", "]">>), L(0, <<"impl", "S", "{">>), L(4, <<"pub", "fn", "m", "(", "&", "self", ")", "{">>),
      L(8, <<"{">>), L(12, <<"a">>), L(8, <<"}">>), L(4, <<"}">>), L(0, <<"}">>)>>,
    <<S("impl", "S", 2, FALSE)>>, {D(2, 8, {2, 3, 8}, <<>>, TRUE)})

Rust == {RustFunction, RustHidden, RustImpl}

PythonClass ==
  B(<<L(0, <<"class", "C", ":">>), L(4, <<"def", "m", "(", "self", ")", ":">>), L(8, <<"a">>), L(0, <<>>), L(8, <<"b">>),
      L(4, <<"def", "n", "(", "self", ")", ":">>), L(8, <<"c">>)>>,
    <<S("class", "C", 1, FALSE)>>, {D(1, 7, {1, 2, 6}, <<>>, TRUE)})

PythonFunction ==
  B(<<L(0, <<"def", "h", "(", "a", ",">>), L(6, <<"b", ")", ":">>), L(4, <<"pass">>)>>,
    <<S("function", "h", 1, FALSE)>>, {D(1, 3, {1, 2}, <<"def", "h", "(", "a", ",", "b", ")", ":">>, TRUE)})

PythonHidden ==
  B(<<L(0, <<"class", "_P", ":">>), L(4, <<"x">>)>>, <<S("class", "_P", 1, TRUE)>>, {D(1, 2, {1, 2}, <<>>, FALSE)})

Python == {PythonClass, PythonFunction, PythonHidden}

GoStruct ==
  B(<<L(0, <<"type", "T", "struct", "{">>), L(4, <<"x", "int">>), L(0, <<"}">>)>>,
    <<S("type", "T", 1, FALSE)>>, {D(1, 3, 1..3, <<>>, TRUE)})

GoFunc ==
  B(<<L(0, <<"func", "F", "(", ")", "int", "{">>), L(4, <<"return">>), L(0, <<"}">>)>>,
    <<S("function", "F", 1, FALSE)>>, {D(1, 3, {1}, <<"func", "F", "(", ")", "int">>, TRUE)})

Go == {GoStruct, GoFunc}

TypeScript ==
  {B(<<L(0, <<"function", "g", "(", ")", "{">>), L(4, <<"a">>), L(0, <<"}">>), L(0, <<"export", "{", "g", "}">>)>>,
     <<S("function", "g", 1, FALSE)>>, {D(1, 3, {1}, <<"function", "g", "(", ")">>, TRUE)}),
   B(<<L(0, <<"export", "type", "U", "=", "{">>), L(4, <<"a">>), L(0, <<"}">>)>>,
     <<S("type_alias", "U", 1, FALSE)>>, {D(1, 3, 1..3, <<>>, TRUE)}),
   B(<<L(0, <<"interface", "J", "{">>), L(4, <<"a">>), L(0, <<"}">>)>>,
     <<S("interface", "J", 1, FALSE)>>, {D(1, 3, 1..3, <<>>, FALSE)})}

\* A type whose end is missing.
Kotlin ==
  {B(<<L(0, <<"class", "K">>)>>, <<S("class", "K", 1, FALSE)>>, {D(1, 1, {1}, <<>>, TRUE)}),
   B(<<L(0, <<"object", "O", "{">>), L(4, <<"a">>)>>, <<S("object", "O", 1, FALSE)>>, {D(1, 2, {1, 2}, <<>>, TRUE)})}

----------------------------------------------------------------------------
Before(blocks, n) == FoldLeft(LAMBDA sum, b : sum + Len(b.lines), 0, SubSeq(blocks, 1, n - 1))

Symbols(blocks, n) ==
  [i \in DOMAIN blocks[n].symbols |-> [blocks[n].symbols[i] EXCEPT !.line = @ + Before(blocks, n)]]

Decls(blocks, n) ==
  {[d EXCEPT !.line = @ + Before(blocks, n), !.last = @ + Before(blocks, n),
             !.parts = {p + Before(blocks, n) : p \in @}] : d \in blocks[n].decls}

File(p, language, blocks) ==
  [path |-> p, language |-> language,
   lines |-> FoldLeft(LAMBDA acc, b : acc \o b.lines, <<>>, blocks),
   symbols |-> FoldLeft(LAMBDA acc, n : acc \o Symbols(blocks, n), <<>>, [n \in DOMAIN blocks |-> n]),
   decls |-> UNION {Decls(blocks, n) : n \in DOMAIN blocks}]

Upto(n, blocks) == UNION {[1..m -> blocks] : m \in 1..n}

FilesOf(language, blocks, n) == {File(<<"src", "a">>, language, bs) : bs \in Upto(n, blocks)}

\* Two files in one run, the second elsewhere, and a file of no symbols.
Pairs ==
  {<<File(<<"Src", "a">>, "csharp", <<a>>), File(<<"lib">>, "text", <<>>), File(<<"lib", "b">>, "rust", <<b>>)>> :
     a \in CSharp, b \in Rust}

MCRepos ==
  Pairs \cup
  {<<f>> : f \in FilesOf("csharp", CSharp, 2) \cup FilesOf("rust", Rust, 3) \cup FilesOf("python", Python, 2)
                 \cup FilesOf("go", Go, 2) \cup FilesOf("typescript", TypeScript, 2) \cup FilesOf("kotlin", Kotlin, 2)}


MCPaths == {<<"src">>, <<"lib">>, <<>>}
MCNoPath == <<"no path">>
MCLowerOf == [c \in {"src", "Src", "a", "b", "lib"} |-> IF c = "Src" THEN "src" ELSE c]
=============================================================================
