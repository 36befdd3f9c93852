\* One normal gate after the first release, and a decision accepted meanwhile.
SPECIFICATION GateSpec
CONSTANTS
    Releases = {1, 2}
    MaxChanges = 1
    MaxGates = 1
    MaxBreaks = 0
PROPERTY EvidenceIsCurrent
CHECK_DEADLOCK FALSE
