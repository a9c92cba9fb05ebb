SPECIFICATION Spec
CONSTANTS
  Readers = {"view", "hover"}
  Stacks <- MCTwoStacks
  GlobalLists <- MCNoGlobals
  Temporaries = {FALSE}
  MaxStops = 2
INVARIANTS VariablesAreCurrent
