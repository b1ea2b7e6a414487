CONSTANTS
    w1 = w1
    w2 = w2
    tA = tA
    tB = tB
    tC = tC
    outer = outer
    inner = inner
    pipe = pipe
    Task = {tA, tB, tC}
    Root = Root
    Worker = {w1, w2}
    Elastic = {e1, e2}
    Main = Main
    Group = {outer, inner}
    Chan = {pipe}
    NoGroup = NoGroup
    NoTask = NoTask
    DequeCap = 1
    Loads <- AllLoads
SPECIFICATION Spec
INVARIANTS
    TypeOK
    ScopeWaits
    OwnGroup
    HandlesPinned
    OnePlace
    IInv
    GroupInv
PROPERTY Drains
