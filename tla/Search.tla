------------------------------- MODULE Search -------------------------------
(***************************************************************************)
(* context_search: how a query is matched with the chunks of the index and *)
(* ranked (src/src/engine/tokens.rs, bm25.rs, search.rs, index/mod.rs; no  *)
(* encoder is ever given, so search_hybrid is not reached).                *)
(*                                                                         *)
(* A text is the sequence of its runs of letters, digits and underscores,  *)
(* each a sequence of characters; a chunk is its file's stem and directo-  *)
(* ries and its text.  A score, a 32-bit float in the code, is the same    *)
(* fraction in fixed point.                                                *)
(***************************************************************************)
EXTENDS Naturals, FiniteSets, SequencesExt, FiniteSetsExt

CONSTANTS
  Corpora,       \* what an index may hold: sequences of [stem, dirs, text]
  Queries,       \* texts
  Maxes,         \* max_results, negative ones being 0 here
  DefaultMax,    \* DEFAULT_MAX_RESULTS
  LowerOf,       \* upper-case letter -> the lower-case one
  Digits,
  Idf,           \* Idf[n][df]: ln((n - df + 1/2) / (df + 1/2) + 1), in fixed point
  Unit           \* the fixed point of a term's share

SearchAssumption ==
  /\ \A n \in DOMAIN Idf : \A df \in 1..n :
       Idf[n][df] > 0 /\ (df > 1 => Idf[n][df] < Idf[n][df - 1])
  /\ \A corpus \in Corpora : Len(corpus) \in DOMAIN Idf

VARIABLES
  corpus, query, max,
  todo,     \* tokens of the query that are to be scored
  scores,   \* chunk -> score
  ranked,   \* the chunks found, best first
  saved,    \* the records added to savings.jsonl
  searching \* "asked", "scoring", "filtering", "found" or "refused"

vars == <<corpus, query, max, todo, scores, ranked, saved, searching>>

----------------------------------------------------------------------------
(* Tokens.                                                                 *)

IsUpper(c)      == c \in DOMAIN LowerOf
IsAlphabetic(c) == c \notin Digits \cup {"_"}
IsLower(c)      == IsAlphabetic(c) /\ ~IsUpper(c)
Lowered(w)      == [i \in DOMAIN w |-> IF IsUpper(w[i]) THEN LowerOf[w[i]] ELSE w[i]]

SplitsAtHumps(w, i) ==
  \/ IsLower(w[i - 1]) /\ IsUpper(w[i])
  \/ IsAlphabetic(w[i - 1]) /\ w[i] \in Digits
  \/ w[i - 1] \in Digits /\ IsAlphabetic(w[i])

\* A part begins at i: at a hump, behind an acronym, or where digits meet letters.
Splits(w, i) ==
  \/ IsLower(w[i - 1]) /\ IsUpper(w[i])
  \/ i < Len(w) /\ IsUpper(w[i - 1]) /\ IsUpper(w[i]) /\ IsLower(w[i + 1])
  \/ IsAlphabetic(w[i - 1]) /\ w[i] \in Digits
  \/ w[i - 1] \in Digits /\ IsAlphabetic(w[i])

\* The parts of w that begin at `starts`, each up to the next index in `stops`.
PartsAt(w, starts, stops) ==
  LET order == SetToSortSeq(starts, LAMBDA i, j : i < j)
      End(i) == Min({j \in stops : j > i}) - 1
  IN [k \in DOMAIN order |-> SubSeq(w, order[k], End(order[k]))]

SplitCamelCase(w) ==
  LET starts == {1} \cup {i \in 2..Len(w) : Splits(w, i)}
  IN PartsAt(w, starts, starts \cup {Len(w) + 1})

SplitSnakeCase(w) ==
  LET bars == {i \in DOMAIN w : w[i] = "_"}
      starts == {i \in DOMAIN w \ bars : i = 1 \/ i - 1 \in bars}
  IN PartsAt(w, starts, bars \cup {Len(w) + 1})

SplitIdentifier(w) ==
  LET parts == IF \E i \in DOMAIN w : w[i] = "_" THEN SplitSnakeCase(Lowered(w)) ELSE SplitCamelCase(w)
      lowered == [k \in DOMAIN parts |-> Lowered(parts[k])]
  IN IF Len(parts) >= 2 THEN <<Lowered(w)>> \o lowered ELSE <<Lowered(w)>>

\* A token does not begin with a digit.
Identifier(w) ==
  LET letters == {i \in DOMAIN w : w[i] \notin Digits}
  IN IF letters = {} THEN <<>> ELSE SubSeq(w, Min(letters), Len(w))

Tokenize(text) ==
  FoldLeft(LAMBDA tokens, w : IF Identifier(w) = <<>> THEN tokens
                              ELSE tokens \o SplitIdentifier(Identifier(w)), <<>>, text)

----------------------------------------------------------------------------
(* The index.                                                              *)

FileOf(chunk) == <<chunk.dirs, chunk.stem>>

SumOver(Value(_), S) == FoldSet(LAMBDA i, sum : Value(i) + sum, 0, S)

\* The size of a chunk, and of the file it was cut from.
Chars(i) == Len(corpus[i].text)
FileChars(file) == SumOver(LAMBDA i : Chars(i), {i \in DOMAIN corpus : FileOf(corpus[i]) = file})

EnrichForBm25(chunk) ==
  LET n == Len(chunk.dirs)
  IN chunk.text \o <<chunk.stem, chunk.stem>> \o SubSeq(chunk.dirs, IF n > 3 THEN n - 2 ELSE 1, n)

Documents == [i \in DOMAIN corpus |-> Tokenize(EnrichForBm25(corpus[i]))]

Frequency(document, t) == Cardinality({k \in DOMAIN document : document[k] = t})

ShareUnnormalised(documents, t) ==
  [i \in DOMAIN documents |-> Len(documents[i]) * Frequency(documents[i], t)]

\* What one token adds to the score of each chunk that holds it.
Share(documents, t) ==
  LET n     == Len(documents)
      df    == Cardinality({i \in DOMAIN documents : Frequency(documents[i], t) > 0})
      total == FoldLeft(LAMBDA sum, d : sum + Len(d), 0, documents)
  IN [i \in DOMAIN documents |->
        LET tf == Frequency(documents[i], t)
        IN IF tf = 0 THEN 0
           ELSE Idf[n][df] *
                  ((20 * tf * total * Unit) \div (8 * tf * total + 3 * total + 9 * Len(documents[i]) * n))]

----------------------------------------------------------------------------
TopK == IF max = 0 THEN DefaultMax ELSE max

Init ==
  /\ corpus \in Corpora /\ query \in Queries /\ max \in Maxes
  /\ todo = <<>> /\ scores = [i \in DOMAIN corpus |-> 0] /\ ranked = <<>>
  /\ searching = "asked" /\ saved = <<>>

SaveFinds(results) ==
  LET files == {FileOf(corpus[i]) : i \in ToSet(results)}
  IN saved' = IF results = <<>> THEN saved
              ELSE Append(saved, [results |-> Len(results), snippet |-> SumOver(Chars, ToSet(results)),
                                  file |-> SumOver(FileChars, files)])

\* What the results spare the model of reading their files.
SaveSearchStats(results) ==
  LET files == {FileOf(corpus[i]) : i \in ToSet(results)}
  IN saved' = Append(saved, [results |-> Len(results), snippet |-> SumOver(Chars, ToSet(results)),
                             file |-> SumOver(FileChars, files)])

Ask ==
  /\ searching = "asked"
  /\ todo' = Tokenize(query)
  /\ searching' = IF query = <<>> THEN "refused" ELSE IF todo' = <<>> THEN "found" ELSE "scoring"
  /\ IF searching' = "found" THEN SaveSearchStats(<<>>) ELSE UNCHANGED saved
  /\ UNCHANGED <<corpus, query, max, scores, ranked>>

ScoreToken ==
  /\ searching = "scoring" /\ todo # <<>>
  /\ LET share == Share(Documents, Head(todo))
     IN scores' = [i \in DOMAIN corpus |-> scores[i] + share[i]]
  /\ todo' = Tail(todo)
  /\ UNCHANGED <<corpus, query, max, ranked, saved, searching>>

RankAfterCutting ==
  /\ searching = "scoring" /\ todo = <<>>
  /\ LET Before(i, j) == scores[i] > scores[j] \/ (scores[i] = scores[j] /\ i < j)
         first == SelectSeq([i \in DOMAIN corpus |-> i], LAMBDA i : scores[i] > 0)
     IN ranked' = SetToSortSeq(ToSet(SubSeq(first, 1, Min({TopK, Len(first)}))), Before)
  /\ searching' = "filtering"
  /\ UNCHANGED <<corpus, query, max, todo, scores, saved>>

\* A stable sort of the chunks in the order of the index.
Rank ==
  /\ searching = "scoring" /\ todo = <<>>
  /\ LET Before(i, j) == scores[i] > scores[j] \/ (scores[i] = scores[j] /\ i < j)
         order == SetToSortSeq({i \in DOMAIN corpus : scores[i] > 0}, Before)
     IN ranked' = SubSeq(order, 1, Min({TopK, Len(order)}))
  /\ searching' = "filtering"
  /\ UNCHANGED <<corpus, query, max, todo, scores, saved>>

\* MIN_SCORE_RATIO is 0.12.
NotLow(i, best) == 100 * scores[i] >= 12 * scores[best]

FilterLowScores ==
  /\ searching = "filtering"
  /\ ranked' = IF Len(ranked) <= 1 THEN ranked ELSE SelectSeq(ranked, LAMBDA i : NotLow(i, ranked[1]))
  /\ searching' = "found" /\ SaveSearchStats(ranked')
  /\ UNCHANGED <<corpus, query, max, todo, scores>>

Next == Ask \/ ScoreToken \/ Rank \/ FilterLowScores

Spec == Init /\ [][Next]_vars

----------------------------------------------------------------------------
(* Properties.                                                             *)

CONSTANT WordsOf  \* identifier -> the words its author made it of, for the properties

Answered == searching = "found"

\* The chunks found are chunks, each once, best first and the earlier one first
\* of two that are equal.
TypeOK ==
  /\ searching \in {"asked", "scoring", "filtering", "found", "refused"}
  /\ ToSet(ranked) \subseteq DOMAIN corpus /\ Len(ranked) <= TopK
  /\ \A k, l \in DOMAIN ranked : k < l =>
       \/ scores[ranked[k]] > scores[ranked[l]]
       \/ scores[ranked[k]] = scores[ranked[l]] /\ ranked[k] < ranked[l]

Holds(chunk, w) == w \in ToSet(chunk.text) \cup {chunk.stem}

\* A chunk that holds a name is found by the name in any case and by each of the
\* words it is made of, unless as many as were asked for score at least as high
\* or it scores under the ratio of the best.
NamesAreFound ==
  Answered =>
    \A i \in DOMAIN corpus \ ToSet(ranked) :
      \A w \in {w \in DOMAIN WordsOf : Holds(corpus[i], w)}, q \in ToSet(query) :
        Lowered(q) \in {Lowered(w)} \cup WordsOf[w] =>
          \/ Len(ranked) = TopK /\ \A k \in DOMAIN ranked : scores[ranked[k]] >= scores[i]
          \/ scores[i] > 0 /\ ranked # <<>> /\ ~NotLow(i, ranked[1])

\* Of two chunks of one length the one that holds every token of the query at
\* least as often comes first or equals the other; and what holds none of them is
\* not found.
MoreIsBetter ==
  Answered =>
    LET documents == Documents
        tokens == ToSet(Tokenize(query))
    IN /\ \A i \in ToSet(ranked) : \E t \in tokens : Frequency(documents[i], t) > 0
       /\ \A i, j \in DOMAIN corpus :
            /\ Len(documents[i]) <= Len(documents[j])
            /\ \A t \in tokens : Frequency(documents[i], t) >= Frequency(documents[j], t)
            => scores[i] >= scores[j]

\* A search is on record once, with no more text shown than its files hold.
SavingsAreReal ==
  /\ Len(saved) = IF Answered THEN 1 ELSE 0
  /\ Answered => saved[1].results = Len(ranked) /\ saved[1].snippet <= saved[1].file
=============================================================================
