SPECIFICATION MCSpec
CONSTANTS
    Keys = {k1, k2}
    Vals = {v1, v2}
    Lengths = {40, 60, 180}
    Pointers = {p1, p2, p3}
    LupPointers = {"p53", "p128"}
    Length <- MCLength
    NoPointer = "none"
    MissAddresses = {"none", "p53", "p128"}
    FifoDepth = 2
    MaxAsked = 2
INVARIANTS ReplyFollowsAnswer BoxesAccountedFor NothingLeftBehind
PROPERTIES LookupAnswered IsService RequestAcknowledged
VIEW MCView
