SPECIFICATION Spec
CONSTANTS
  FieldsPerFlush = 2
  MaxIndexRK = 3
  MaxStack = 16
  MaxVars = 7
  MaxUpvalues = 3
  MaxTagLoop = 4
  Collation <- MCCollation
  StackSize = 60
  Programs <- MCPrograms
INVARIANTS TypeOK TopIsTheFrames CodeChecks RefusesExactly OpenIsActive
PROPERTIES SameOutcome StatementsAreHooked

CHECK_DEADLOCK FALSE
