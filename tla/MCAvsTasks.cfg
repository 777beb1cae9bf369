CONSTANTS
  o1 = o1
  o2 = o2
  c1 = c1
  c2 = c2
  w = w
  Operators = {o1, o2}
  Clients = {c1, c2}
  Admins = {o1}
  OwnerOf <- MCOwnerOf
  Zero = Zero
  maxTaskLifetimeS = 1
  maxTaskCreationDelayS = 0
  MaxSignatures = 2
  MaxTime = 1
  MaxChanges = 3
SYMMETRY Symmetry
SPECIFICATION MCSpec
INVARIANTS
  SoundCompletion
  PickedDistinct
CHECK_DEADLOCK FALSE
