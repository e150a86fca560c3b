SPECIFICATION Spec
CONSTANTS
  Keys <- MCLossKeys
  N = 1
  Patient = FALSE
INVARIANT Resyncs
