\* Two processes over one channel, projects that differ and a candidate that is rewritten.
SPECIFICATION FairSpec
CONSTANTS
    p1 = p1
    p2 = p2
    m1 = m1
    m2 = m2
    m3 = m3
    w1 = w1
    w2 = w2
    w3 = w3
    r1 = r1
    r2 = r2
    c1 = c1
    c2 = c2
    alpha = alpha
    beta = beta
    Procs = {p1, p2}
    Channels = {c1}
    Manifests = {m1, m3}
    Projects = {alpha, beta}
    ProjectOf <- TwoProjects
    Paths = {w1}
    InitialAt <- FirstAt
    ReceiptPaths = {r1}
    Operations = {"review", "accept", "legacy"}
    NoManifest = NoManifest
    NoProc = NoProc
    NoJob = NoJob
    MaxOps = 3
    MaxFaults = 1
    MaxEdits = 1
INVARIANTS
    ChannelKeepsProject
    UnlockedChannelVerifies
PROPERTIES
    NoFalseAlarm
    CommandsEnd
