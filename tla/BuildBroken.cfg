\* A tool breaks between two nodes.
SPECIFICATION Spec
CONSTANTS
    b1 = b1
    b2 = b2
    d1 = d1
    d2 = d2
    root = root
    left = left
    right = right
    top = top
    t1 = t1
    t2 = t2
    v1 = v1
    v2 = v2
    Builds = {b1}
    Dirs = {d1}
    NoDir = NoDir
    Nodes = {root, left, top, right}
    Deps <- Branches
    Order <- BranchesOrder
    Optional = {}
    Tools = {t1}
    Broken = Broken
    Values = {v1}
    NoValue = NoValue
    NoKey = NoKey
    MaxFaults = 0
    MaxChanges = 1
    MaxDamage = 0
PROPERTY
    ExceptionFailsNode
