\* Two properties, the first with texts of up to three tokens.
SPECIFICATION Spec
CONSTANTS
  Alphabet <- MCAlphabet
  MaxLen <- MCMaxLen
  Ints <- MCInts
  Numbers <- MCNumbers
  Customs <- MCCustoms
  Keys <- MCKeys
INVARIANTS
  RoundTrip
  PythonReadsSame
CHECK_DEADLOCK FALSE
