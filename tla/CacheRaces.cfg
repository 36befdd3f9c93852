\* Three builds race to load and commit one key while its entry is removed or rots.
SPECIFICATION Spec
CONSTANTS
    b1 = b1
    b2 = b2
    b3 = b3
    k1 = k1
    k2 = k2
    v1 = v1
    v2 = v2
    Clients = {b1, b2, b3}
    Keys = {k1}
    Values = {v1, v2}
    NoValue = NoValue
    Garbage = Garbage
    MaxCalls = 3
    MaxFaults = 1
    MaxDamage = 2
INVARIANTS
    TypeOK
    OneCreator
    NoHalfEntry
PROPERTY
    ContractSpec
