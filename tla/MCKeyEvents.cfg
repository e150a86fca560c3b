SPECIFICATION EventsFairSpec
CONSTANTS
  Keys <- MCKeys
  N = 3
  Patient = TRUE
INVARIANTS
  TypeOK
  ModifiersFollowKeys
PROPERTY ReportsKeysInOrder
