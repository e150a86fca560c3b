SPECIFICATION Spec
CONSTANTS
  Keys <- MCAltKeys
  N = 4
  Patient = TRUE
INVARIANT ModifiersFollowKeys
