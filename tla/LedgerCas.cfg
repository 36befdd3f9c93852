\* Two processes over two channels that share a review path: reviews and accepts that race, with one fault.
SPECIFICATION Spec
CONSTANTS
    p1 = p1
    p2 = p2
    m1 = m1
    m2 = m2
    m3 = m3
    w1 = w1
    w2 = w2
    w3 = w3
    r1 = r1
    r2 = r2
    c1 = c1
    c2 = c2
    alpha = alpha
    beta = beta
    Procs = {p1, p2}
    Channels = {c1, c2}
    Manifests = {m1, m2}
    Projects = {alpha}
    ProjectOf <- OneProject
    Paths = {w1, w2}
    InitialAt <- FirstAt
    ReceiptPaths = {r1}
    Operations = {"review", "accept", "legacy", "check", "verify"}
    NoManifest = NoManifest
    NoProc = NoProc
    NoJob = NoJob
    MaxOps = 3
    MaxFaults = 1
    MaxEdits = 0
SYMMETRY Symmetry
INVARIANTS
    TypeOK
    ChannelsChained
    DecisionsBound
    ReceiptConsumedOnce
    ReviewsNamedByContent
PROPERTIES
    AnswersHold
    AcceptedSpec
