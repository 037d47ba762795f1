SPECIFICATION SearchesSpec
CONSTANTS
  Corpora <- MCCorpora
  Queries <- MCQueries
  Maxes = {0, 1, 2}
  DefaultMax = 3
  LowerOf <- MCLowerOf
  Digits = {"1"}
  Idf <- MCIdf
  Unit = 1000
  WordsOf <- MCWordsOf
  Answers <- MCAnswers
  KeyRank <- MCKeyRank
  Pages <- MCPages
  MaxValues = 40
  Addresses = {"h1", "h2", "h3"}
  Asked = {0, 1, 2, 9}
  ResultsCap = 4
  Results = 3
INVARIANT SearchesFind
PROPERTY SearchReturns
\* a search ends
CHECK_DEADLOCK FALSE
