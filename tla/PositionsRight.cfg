CONSTANTS
  Width = 4
  Word = 8
  Aid = {0, 7, 79}
  Pos = {0, 8, 79}
  Category = {0, 3}
  MaxEntries = 4
  Parsed = {0, 7}
  Letter = {"a", "1", "u", "p", "s", "m"}
  Follow <- MCFollow
  Trail = {"x", "y"}
  Alphanumeric <- MCAlphanumeric
  Entity <- MCEntity
  Heading <- MCHeading
  TrivialWords <- MCTrivialWords
  Token <- MCToken
  MaxTokens = 4
SPECIFICATION IndexingSpec
INVARIANTS PositionsRight
CHECK_DEADLOCK FALSE
