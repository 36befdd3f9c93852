\* Two builds of one plan over one cache; a tool changes and an entry is damaged.
SPECIFICATION Spec
CONSTANTS
    b1 = b1
    b2 = b2
    d1 = d1
    d2 = d2
    root = root
    left = left
    right = right
    top = top
    t1 = t1
    t2 = t2
    v1 = v1
    v2 = v2
    Builds = {b1, b2}
    Dirs = {d1, d2}
    NoDir = NoDir
    Nodes = {root, left}
    Deps <- Chain
    Order <- ChainOrder
    Optional = {left}
    Tools = {t1, t2}
    Broken = Broken
    Values = {v1, v2}
    NoValue = NoValue
    NoKey = NoKey
    MaxFaults = 1
    MaxChanges = 1
    MaxDamage = 1
CONSTRAINT AtMostTwo
SYMMETRY Symmetry
INVARIANTS
    TypeOK
    CacheSound
    ManifestIsDerivation
    StatusTrue
    RecordedIsCached
    ManifestIsOwn
