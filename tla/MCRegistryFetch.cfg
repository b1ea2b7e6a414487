\* Two uploads of one version, two client processes, one server crash.
CONSTANTS
    v1 = v1
    Publisher = {p1, p2}
    Version = {v1}
    VerOf <- MCVerOf
    NoFile = NoFile
    Nobody = Nobody
    MaxCrashes = 1
    Client = {c1, c2}
    Miss = Miss
    Blank = Blank
    Garbled = Garbled
    Unlinked = Unlinked
    Partial = Partial
SPECIFICATION Spec
SYMMETRY Perms
INVARIANT FetchedIsWhole
