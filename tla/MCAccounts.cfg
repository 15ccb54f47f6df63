CONSTANTS
  h1 = h1  h2 = h2
  Handlers <- MCHandlers
  LockAfter = 2
  MaxSecond = 2
  MaxResets = 1
  MaxFaults = 1
SPECIFICATION Spec
SYMMETRY Symmetry
INVARIANTS GuessesBounded LoginMethodKept DeletionEndsSessions ErasedStaysErased
