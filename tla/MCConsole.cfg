CONSTANTS
  Width = 3
  Height = 2
  TabStop = 2
  Byte = 6
  blank = blank
  letter = letter
  none = none
  Glyphs <- MCGlyphs
  Blank = blank
  NoValue = none
SPECIFICATION TextSpec
INVARIANTS
  TypeOK
  CursorOnScreen
  TextShown
PROPERTIES
  CursorRecovers
