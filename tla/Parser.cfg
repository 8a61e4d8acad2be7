SPECIFICATION Spec
CONSTANTS
  Names <- MCNames
  Literals <- MCLiterals
  BaseTypes <- MCBaseTypes
  Chained = 5
INVARIANTS
  RoundTrip
  UnbalancedRefused
  ValueKept
CHECK_DEADLOCK FALSE
