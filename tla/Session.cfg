CONSTANTS
  Word = Word
  Nil = Nil
  MAX_CONTENT_SIZE = 13
  Command <- MCCommand
  Version <- MCVersion
  Size <- MCSize
SPECIFICATION Spec
INVARIANTS TypeOK InStep OwnReplies RoundTrip
CHECK_DEADLOCK FALSE
