\* The completion FIFO is scaled down with its margin of five words kept:
\* the threshold is CplDepth - 5.
SPECIFICATION Spec
CONSTANTS
    NumPhysFunc = 2
    CplDepth = 6
    ProgFullThresh = 1
    PldIdMod = 7
INVARIANTS NoInterleaving CompletionNeverLost CompletionsInOrder
PROPERTY ArbiterContract
VIEW LiveState
