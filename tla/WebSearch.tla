----------------------------- MODULE WebSearch -----------------------------
(***************************************************************************)
(* The web_search tool: src/src/tools/web.rs.  One request to a configured *)
(* provider, whose JSON is read whatever its shape, or without one to      *)
(* DuckDuckGo, whose page is read as links and snippets.  Both answer what *)
(* they like, or not at all: a request has a timeout.                      *)
(*                                                                         *)
(* A JSON value is [is, text, parts]: a string has a text, an array and an *)
(* object have parts, each [key, value].  A parsed object holds a key once *)
(* and is gone through in the byte order of its keys, however the provider *)
(* wrote it: serde_json's map is a sorted one unless its preserve_order is *)
(* asked for, and src/Cargo.toml does not.  A page is a sequence of [is,   *)
(* of, text]: the links and snippets the two expressions find, and of      *)
(* which result they are.                                                  *)
(***************************************************************************)
EXTENDS Naturals, SequencesExt, FiniteSetsExt

CONSTANTS
  Answers,    \* the JSON values a provider may answer
  KeyRank,    \* key -> its place in the byte order of the keys
  Pages,      \* the pages DuckDuckGo may answer
  MaxValues,  \* bound: the values in an answer
  Addresses,  \* the texts that begin with http
  Asked,      \* max_results, negative ones being 0 here
  ResultsCap, \* MAX_RESULTS_CAP
  Results     \* DEFAULT_MAX_RESULTS

VARIABLES
  set,     \* the environment variables that are set: "url", "key"
  blank,   \* the query is blank
  asked,   \* max_results
  step,    \* "called", "waiting", "reading" or "done"
  body,    \* what was answered
  todo,    \* values that extract_hits is still to look at
  hits,
  outcome  \* "none", "ok" or "error"

vars == <<set, blank, asked, step, body, todo, hits, outcome>>

NoBody == [is |-> "none", text |-> "", parts |-> <<>>]
NoPage == <<>>

Limit == IF asked = 0 THEN Results ELSE Min({asked, ResultsCap})

Init ==
  /\ set \in SUBSET {"url", "key"} /\ blank \in BOOLEAN /\ asked \in Asked
  /\ step = "called" /\ body = NoBody /\ todo = <<>> /\ hits = <<>> /\ outcome = "none"

Configured == set = {"url", "key"}

Return(result) == step' = "done" /\ outcome' = result

Call ==
  /\ step = "called"
  /\ IF blank THEN Return("error") ELSE step' = "waiting" /\ UNCHANGED outcome
  /\ UNCHANGED <<set, blank, asked, body, todo, hits>>

\* A status that is no success, a body that cannot be read or is not JSON.
RequestFails ==
  /\ step = "waiting" /\ Return("error")
  /\ UNCHANGED <<set, blank, asked, body, todo, hits>>

TimesOutConnecting ==
  /\ step = "waiting" /\ ~Configured /\ Return("error")
  /\ UNCHANGED <<set, blank, asked, body, todo, hits>>

\* TIMEOUT_SECONDS after the request was sent, its body included.
TimesOut ==
  /\ step = "waiting" /\ Return("error")
  /\ UNCHANGED <<set, blank, asked, body, todo, hits>>

----------------------------------------------------------------------------
(* A configured provider.                                                  *)

\* The text of the first of the keys under which there is a string.
Pick(value, keys, default) ==
  LET Under(k) == {p \in ToSet(value.parts) : p.key = k /\ p.value.is = "string"}
      found == SelectSeq(keys, LAMBDA k : Under(k) # {})
  IN IF found = <<>> THEN default ELSE (CHOOSE p \in Under(found[1]) : TRUE).value.text

IsHit(value) ==
  value.is = "object" /\ Pick(value, <<"url", "link", "href">>, "") \in Addresses

HitOf(value) ==
  [title |-> Pick(value, <<"title", "name", "heading">>, ""),
   url |-> Pick(value, <<"url", "link", "href">>, ""),
   snippet |-> Pick(value, <<"description", "snippet", "content", "text", "excerpt">>, "")]

ProviderAnswers ==
  /\ step = "waiting" /\ Configured
  /\ body' \in Answers /\ todo' = <<body'>> /\ step' = "reading"
  /\ UNCHANGED <<set, blank, asked, hits, outcome>>

\* What an object or array holds, in the order in which it is gone through.
Below(value) ==
  LET parts == IF value.is = "object"
               THEN SortSeq(value.parts, LAMBDA p, q : KeyRank[p.key] < KeyRank[q.key])
               ELSE value.parts
  IN [i \in DOMAIN parts |-> parts[i].value]

\* What a value holds comes after all that is behind it.
BehindAll(value, rest) == rest \o Below(value)

\* What a value holds comes before what is behind it.
Behind(value, rest) == Below(value) \o rest

Look ==
  /\ step = "reading" /\ todo # <<>>
  /\ LET value == Head(todo)
     IN /\ hits' = IF IsHit(value) THEN Append(hits, HitOf(value)) ELSE hits
        /\ todo' = IF Len(hits') >= Limit THEN <<>> ELSE Behind(value, Tail(todo))
  /\ UNCHANGED <<set, blank, asked, step, body, outcome>>

Format ==
  /\ step = "reading" /\ todo = <<>> /\ Return("ok")
  /\ UNCHANGED <<set, blank, asked, body, todo, hits>>

----------------------------------------------------------------------------
(* DuckDuckGo.                                                             *)

Rows(page, is) == SelectSeq(page, LAMBDA row : row.is = is)

PageHitsAll(page) ==
  LET links == Rows(page, "link")
  IN [k \in 1..Min({ResultsCap, Len(links)}) |->
        [title |-> links[k].text, url |-> links[k].of, snippet |-> ""]]

\* The first links, each with the snippet of its number on the page.
PageHits(page) ==
  LET links == Rows(page, "link")
      snippets == Rows(page, "snippet")
  IN [k \in 1..Min({Limit, Len(links)}) |->
        [title |-> links[k].text, url |-> links[k].of,
         snippet |-> IF k \in DOMAIN snippets THEN snippets[k].text ELSE ""]]

\* A page without links, such as a challenge, is an error.
PageAnswers ==
  /\ step = "waiting" /\ ~Configured
  /\ \E page \in Pages :
       /\ hits' = PageHits(page)
       /\ body' = [is |-> "page", text |-> "", parts |-> page]
  /\ Return(IF hits' = <<>> THEN "error" ELSE "ok")
  /\ UNCHANGED <<set, blank, asked, todo>>

Next ==
  Call \/ RequestFails \/ TimesOut \/ ProviderAnswers \/ Look \/ Format \/ PageAnswers

\* The tool goes on by itself, and time passes; nobody has to answer.
Spec == Init /\ [][Next]_vars /\ WF_vars(Call) /\ WF_vars(TimesOut) /\ WF_vars(Look) /\ WF_vars(Format)

----------------------------------------------------------------------------
(* Properties.                                                             *)

TypeOK ==
  /\ step \in {"called", "waiting", "reading", "done"}
  /\ outcome # "none" <=> step = "done"
  /\ Len(hits) <= Limit /\ Limit \in 1..ResultsCap

\* A value and all it holds, each followed by what it holds itself.
Within(value) ==
  FoldLeft(LAMBDA all, n : IF n > Len(all) THEN all
                           ELSE SubSeq(all, 1, n) \o Below(all[n]) \o SubSeq(all, n + 1, Len(all)),
           <<value>>, [n \in 1..MaxValues |-> n])

\* An object of an answer has a key once, and every key has its place.
AnswersAssumption ==
  \A answer \in Answers : \A value \in ToSet(Within(answer)) :
    value.is = "object" =>
      /\ \A i, j \in DOMAIN value.parts : i # j => value.parts[i].key # value.parts[j].key
      /\ \A i \in DOMAIN value.parts : value.parts[i].key \in DOMAIN KeyRank
      /\ \A k, l \in DOMAIN KeyRank : k # l => KeyRank[k] # KeyRank[l]

\* What a provider answered is shown from the beginning, lists in their order and
\* the members of an object in that of their keys, as many as were asked for and
\* each with its own title and snippet: no result is left out before another.
FirstAreShown ==
  step = "done" /\ outcome = "ok" /\ Configured =>
    LET results == SelectSeq(Within(body), IsHit)
    IN /\ hits = [k \in 1..Min({Limit, Len(results)}) |-> HitOf(results[k])]

\* On a page whose links all have a snippet behind them a link is shown with its
\* own; and there is always something to show.
SnippetsAreTheirs ==
  step = "done" /\ outcome = "ok" /\ ~Configured =>
    /\ hits # <<>>
    /\ LET page == body.parts
       IN (\A i \in DOMAIN page : page[i].is = "link" =>
             i < Len(page) /\ page[i + 1].is = "snippet" /\ page[i + 1].of = page[i].of)
          /\ (\A i \in DOMAIN page : page[i].is = "snippet" =>
             i > 1 /\ page[i - 1].is = "link")
          => \A k \in DOMAIN hits : \E i \in DOMAIN page :
               page[i].is = "snippet" /\ page[i].of = hits[k].url /\ page[i].text = hits[k].snippet

\* A search returns, whoever answers or does not.
SearchReturns == <>(step = "done")
=============================================================================
