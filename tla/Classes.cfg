\* A program that terminates stops.
SPECIFICATION Spec
CHECK_DEADLOCK FALSE
CONSTANTS
  None = None
  Order <- MCOrder
  Units <- MCUnits
INVARIANTS
  DispatchRight
  BodiesInPlace
