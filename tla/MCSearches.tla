----------------------------- MODULE MCSearches ------------------------------
(***************************************************************************)
(* What the model searches: the index (Search) and the web (WebSearch).    *)
(* They share no state, so each behaviour is about one of them and the     *)
(* other stands still.                                                     *)
(***************************************************************************)
EXTENDS Search, TLC

CONSTANTS
  Answers, KeyRank, Pages, MaxValues, Addresses, Asked, ResultsCap, Results \* of WebSearch

VARIABLES
  about,  \* "index" or "web"
  set, blank, asked, step, body, values, hits, outcome

webVars == <<set, blank, asked, step, body, values, hits, outcome>>
all == <<about, vars, webVars>>

Web == INSTANCE WebSearch WITH todo <- values

ASSUME IndexAssumption == SearchAssumption
ASSUME WebAssumption == Web!AnswersAssumption

\* What a part is when the behaviour is about the other.
NoSearch ==
  /\ corpus = <<>> /\ query = <<>> /\ max = 0 /\ todo = <<>> /\ scores = <<>> /\ ranked = <<>> /\ saved = <<>>
  /\ searching = "refused"
NoWeb ==
  /\ set = {} /\ blank = TRUE /\ asked = 0 /\ step = "done" /\ body = Web!NoBody /\ values = <<>> /\ hits = <<>>
  /\ outcome = "error"

SearchesInit ==
  \/ about = "index" /\ Init /\ NoWeb
  \/ about = "web" /\ Web!Init /\ NoSearch

OfIndex(A) == about = "index" /\ A /\ UNCHANGED <<about, webVars>>
OfWeb(A) == about = "web" /\ A /\ UNCHANGED <<about, vars>>

SearchesNext == OfIndex(Next) \/ OfWeb(Web!Next)

\* As in WebSearch: its thread runs and time passes.
SearchesSpec ==
  /\ SearchesInit /\ [][SearchesNext]_all
  /\ WF_all(OfWeb(Web!Call)) /\ WF_all(OfWeb(Web!TimesOut)) /\ WF_all(OfWeb(Web!Look)) /\ WF_all(OfWeb(Web!Format))

----------------------------------------------------------------------------
\* Names in every style, chunks that hold them once, twice and in a long text,
\* and queries for them and for their words.
Chunk(stem, above, text) == [stem |-> stem, dirs |-> above, text |-> text]
Camel == <<"x", "Y">>
Acronym == <<"X", "Y", "z">>
Snake == <<"x", "_", "y">>
Z == <<"z">>
MCLowerOf == [X |-> "x", Y |-> "y"]
MCWordsOf ==
  (Camel :> {<<"x">>, <<"y">>}) @@ (Acronym :> {<<"x">>, <<"y", "z">>}) @@ (Snake :> {<<"x">>, <<"y">>})
    @@ (Z :> {}) @@ (<<"x", "1">> :> {<<"x">>})
MCIdf == <<<<288>>, <<693, 182>>, <<981, 470, 134>>>>
Chunks ==
  {Chunk(Z, <<>>, <<Camel, Z>>), Chunk(<<"a">>, <<Z>>, <<Acronym, Acronym, Camel>>),
   Chunk(Snake, <<>>, <<Z, Z, Z, Z, Camel, Z>>), Chunk(<<"a">>, <<Camel, <<"a">>, <<"b">>, Z>>, <<<<"1", "x">>, <<"x", "1">>>>)}
MCCorpora == UNION {[1..n -> Chunks] : n \in 1..3}
MCQueries ==
  {<<>>, <<<<"1">>>>, <<<<"y">>>>, <<Camel>>, <<<<"y", "z">>>>, <<Acronym>>, <<Z, <<"x">>>>, <<Snake>>, <<<<"x", "1">>, Z>>}

\* Answers in the shapes of several providers: hits in an array or one in
\* another, of which the one written last is gone through first, keys in any
\* order, an address that is none, a list without any.
Text(t) == [is |-> "string", text |-> t, parts |-> <<>>]
Node(kind, keys, below) ==
  [is |-> kind, text |-> "", parts |-> [i \in DOMAIN keys |-> [key |-> keys[i], value |-> below[i]]]]
List3(below) == Node("array", [i \in DOMAIN below |-> ""], below)
Result(u, t) == Node("object", <<"title", "url", "description">>, <<Text(t), Text(u), Text(t)>>)
Linked(u, t) == Node("object", <<"link", "snippet", "rank">>, <<Text(u), Text(t), [Text("") EXCEPT !.is = "number"]>>)
Nested(u, v) ==
  Node("object", <<"url", "profile", "name">>, <<Text(u), Node("object", <<"url">>, <<Text(v)>>), Text("n")>>)
Several ==
  {<<>>, <<Result("h1", "s1"), Linked("h2", "s2"), Result("h3", "s3")>>,
   <<Nested("h1", "h2"), Result("h3", "s3")>>, <<Result("ftp", "s1"), Linked("h2", "s2")>>}
MCAnswers ==
  {Node("object", <<"web", "results">>, <<Node("object", <<"results">>, <<List3(a)>>), List3(b)>>) : a, b \in Several}
MCKeyRank ==
  [description |-> 1, link |-> 2, name |-> 3, profile |-> 4, rank |-> 5, results |-> 6, snippet |-> 7, title |-> 8,
   url |-> 9, web |-> 10]
Row(kind, u) == [is |-> kind, of |-> u, text |-> kind \o u]
MCPages ==
  {<<>>, <<Row("link", "h1"), Row("snippet", "h1"), Row("link", "h2"), Row("snippet", "h2"), Row("link", "h3"), Row("snippet", "h3")>>,
   <<Row("link", "h1"), Row("link", "h2"), Row("snippet", "h2")>>}

----------------------------------------------------------------------------
(* Properties: those of the two modules, a conjunction of theirs.          *)

\* What is searched for is found, in the index under a name and its words and
\* the more of it the earlier, on the web from the beginning of what a provider
\* answered and each with its own text (engine/search.rs, tools/web.rs).
SearchesFind ==
  /\ TypeOK /\ NamesAreFound /\ MoreIsBetter /\ SavingsAreReal
  /\ Web!TypeOK /\ Web!FirstAreShown /\ Web!SnippetsAreTheirs

\* A search of the web returns, whoever answers or does not (tools/web.rs).
SearchReturns == Web!SearchReturns
=============================================================================
