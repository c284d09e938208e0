SPECIFICATION Spec
CONSTANTS
  Runes <- AllRunes
  Word = {"x", "w", "1"}
  Digits = {"1"}
  Wide = {"w"}
  Texts <- Scripts
CHECK_DEADLOCK FALSE
INVARIANTS TypeOK SplitsAsTheServerReads NothingLeftBehind
