SPECIFICATION MCSpec
CONSTANTS
    NumPhysFunc = 2
    Qid = {0, 1, 2}
    q_base <- MCBase
    num_q <- MCNum
    Tags = 3
    Setups <- MCStalling
INVARIANT QidRealigned
