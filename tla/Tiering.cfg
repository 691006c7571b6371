SPECIFICATION FairSpec
CONSTANTS
    Users = {u1, u2}
    Docs = {d1, d2}
    None = None
    Evaluators = {e1, e2}
    PromoteThreshold = 2
    DemoteThreshold = 1
    WindowLength = 1
    Retention = 2
    TopN = 1
    Suites <- SmallSuites
INVARIANTS CopiesFaithful
PROPERTIES CountsDecide StaleCopiesGo
