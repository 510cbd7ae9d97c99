CONSTANTS
  Alphabet <- AlphabetDef
  NameChars = {"E", "e", "s", "x"}
  MaxLen = 7
SPECIFICATION Spec
INVARIANTS
  QuotesKept
  WritesBack
  EachFound
CHECK_DEADLOCK FALSE
