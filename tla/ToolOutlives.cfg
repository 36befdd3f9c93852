\* A tool that times out and has a descendant that need not end.
SPECIFICATION FairToolSpec
CONSTANTS
    Cap = 1
    Block = 1
    MaxBytes = 1
    MaxInterrupts = 0
PROPERTY TimeoutEndsNode
CHECK_DEADLOCK FALSE
