SPECIFICATION Spec
CONSTANTS
  Threads = {main, co1, co2}
  Main = main
  MaxCCalls = 3
  ExtraCCalls = 2
  MaxCalls = 8
  BasicCiSize = 3
  Repertoires <- MCRepertoires
INVARIANTS TypeOK JumpsGoToTheInnermost CountersFitTheStack StatusIsRight
PROPERTIES IsCoroutines
SYMMETRY Symmetry
CHECK_DEADLOCK FALSE
