SPECIFICATION FrontSpec
CONSTANTS
  Present = Present
  Absent = Absent
  NoSlot = NoSlot
  None = None
  Input <- FrontInput
  Query <- FrontQuery
  Val <- FrontVal
  Hashed <- FrontHashed
  Hash <- FrontHash
  Point <- FrontPoint
  Entry <- FrontEntry
  Code <- FrontCode
  Jump <- FrontJump
  Owner <- FrontOwner
  Rank <- FrontRank
  Pulled <- MCPulled
  MaxRev = 6
  MaxDead = 0
INVARIANT DiagnosticsAreCurrent
