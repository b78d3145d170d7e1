SPECIFICATION BuilderSpec
CONSTANTS
  Tokens <- MCTokens
  Reduced <- MCReduced
  Hash <- MCHash
  Number <- MCNumber
  BlankWords <- MCBlankWords
  Vocabularies <- MCVocabularies
  Documents <- MCDocuments
  Corpora <- MCCorpora
  MaxBagCalls = 5
  Terms <- MCTerms
  Texts <- MCTexts
  TextCorpora <- MCTextCorpora
  MaxTfidfCalls = 4
  r1 = r1
  Roots = {r1}
  MaxStages = 5
  MaxRemovals = 2
CHECK_DEADLOCK FALSE
INVARIANT BowValueOfWord
