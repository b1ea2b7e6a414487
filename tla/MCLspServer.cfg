SPECIFICATION Spec
CONSTANTS
  a = a
  b = b
  atest = atest
  untitled = untitled
  pkg = pkg
  n = n
  NoFile = NoFile
  Unreadable = Unreadable
  NoDoc = NoDoc
  Unset = Unset
  NoIndex = NoIndex
  File <- MCFile
  Scratch = {untitled}
  TestFile = {atest}
  Dir = {pkg}
  DirOf <- MCDirOf
  Cwd = pkg
  Before <- MCBefore
  Text <- MCText
  Name = {n}
  Declares <- MCDeclares
  Uses <- MCUses
  InitialDisk <- MCDisk
  MaxDiskWrites = 1
INVARIANTS
  HeldErrorsShown
  EngineSeesBuffers
  OnePackageView
  IndexShowsBuffers
  IInv
CHECK_DEADLOCK FALSE
