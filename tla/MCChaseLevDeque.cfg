\* Two thieves against the owner on a ring of two slots: four items, so the
\* ring wraps while a thief is between its reads and its compare-and-swap.
CONSTANTS
    Task = {t1, t2, t3, t4}
    Thief = {s1, s2}
    Owner = Owner
    Inject = Inject
    Nobody = Nobody
    NoTask = NoTask
    Cap = 2
SPECIFICATION Spec
INVARIANT IInv
PROPERTY ImplementsWorkDeque
SYMMETRY Perms
