SPECIFICATION Spec
CONSTANTS
  None = None
  Nul = Nul
  Blank = Blank
  x = x
  MaxText = 2
  Handles = {a, b}
  Texts <- ShortTexts
  MaxLen = 4
INVARIANTS
  BufferFits
  AnswersRight
PROPERTIES
  ImplementsText
