SPECIFICATION Spec
CONSTANTS
  Main = Main
  Globals = Globals
  o1 = o1
  o2 = o2
  o3 = o3
  Nil = Nil
  Number = Number
  Slots <- MCSlots
  Registers <- MCRegisters
  Texts <- MCTexts
  Repertoires <- MCRepertoires
  Captured = {1}
  MaxEntries = 1
  SweepMax = 1
INVARIANTS TypeOK NothingDangles BlackToWhite OneList DoomedAreFreed
PROPERTIES FinalizedOnce WeakEntriesKept
CHECK_DEADLOCK FALSE
