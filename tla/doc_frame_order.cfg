SPECIFICATION Spec
CONSTANTS
  Readers = {"view"}
  Stacks <- MCStacks
  GlobalLists <- MCGlobalLists
  Temporaries = {FALSE}
  MaxStops = 2
INVARIANTS IdsCountFromTheOldest
