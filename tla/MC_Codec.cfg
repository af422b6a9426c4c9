SPECIFICATION Spec
CONSTANTS
  Base = 17
  U16 = 2
  U32 = 3
  U64 = 4
  HASH_SIZE = 2
  PUBLIC_KEY_SIZE = 2
  COMPACT_SIGNATURE_SIZE = 2
  Raw <- MCRaw
  Built <- MCBuilt
  ScidLists <- MCScidLists
  Texts <- MCTexts
  StreamRaw <- MCStreamRaw
  Added <- MCAdded
INVARIANTS
  UnderstoodAsMeant
  AnswersFit
  RelayedVerbatim
  SignaturesCoverWire
  StreamsCanonical
