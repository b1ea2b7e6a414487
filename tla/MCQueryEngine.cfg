SPECIFICATION Spec
CONSTANTS
  x = x
  y = y
  parity = parity
  gate = gate
  join = join
  Present = Present
  Absent = Absent
  NoSlot = NoSlot
  None = None
  Input <- MCInput
  Query <- MCQuery
  Val <- MCVal
  Hashed = {x, y, parity, gate}
  Hash <- MCHash
  Point <- MCPoint
  Entry <- MCEntry
  Code <- MCCode
  Jump <- MCJump
  Owner <- MCOwner
  Rank <- MCRank
  Eval <- MCEval
  MaxRev = 3
  MaxDead = 2
INVARIANTS
  TypeOK
  Consistent
  NoRedundantRun
  GetIsFromScratch
  RunsOnlyDemanded
  PanicsOnlyIfStuck
  IInv
  StampOrder
PROPERTIES
  StableWithinRevision
  GetTerminates
