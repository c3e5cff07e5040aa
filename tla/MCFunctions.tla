----------------------------- MODULE MCFunctions -----------------------------
(***************************************************************************)
(* The two directions between host and functions, side by side, of which a *)
(* behaviour moves one: QdmaH2C on two functions, the first with two       *)
(* queues, the second with one; and QdmaFunctionRx with a buffer that      *)
(* covers the queue ID's latency for a receiver that never stalls, and     *)
(* with smaller ones for one that does.                                    *)
(***************************************************************************)
EXTENDS QdmaH2C, TLC

CONSTANTS Tags, Setups

VARIABLES
    part,
    setup, rxFilled, rxAxis, s1_state, eth_payload, eth_payload_valid, ip4, hash_result,
    qid_din, buf_fifo, qid_fifo, tag, open      \* of QdmaFunctionRx

Rx == INSTANCE QdmaFunctionRx WITH filled <- rxFilled, axis <- rxAxis
ASSUME Rx!RxAssumption

MCBase == (0 :> 0) @@ (1 :> 2)
MCNum == (0 :> 2) @@ (1 :> 1)

Setup(depth, stalls) == [BufDepth |-> depth, QidDepth |-> depth, stalls |-> stalls]
MCSetups == {Setup(7, FALSE), Setup(2, TRUE)}
MCStalling == {Setup(6, TRUE)}

rxVars == <<setup, rxFilled, rxAxis, s1_state, eth_payload, eth_payload_valid, ip4, hash_result,
            qid_din, buf_fifo, qid_fifo, tag, open>>
MCVars == <<vars, part, rxVars>>

MCInit ==
    /\ Init /\ Rx!Init
    /\ \/ part = "h2c" /\ setup = CHOOSE s \in Setups : TRUE
       \/ part = "rx" /\ axis.qid = 0

H2C(A) == part = "h2c" /\ A /\ UNCHANGED <<part, rxVars>>
Receives(A) == part = "rx" /\ A /\ UNCHANGED <<part, vars>>

MCNext == H2C(Next) \/ Receives(Rx!Next)

\* The fairness of LiveSpec and of Rx!LiveSpec.
MCFairness ==
    /\ \A i \in Func : []<><<H2C(Ready(i))>>_MCVars \/ []<>~ENABLED <<H2C(Pause)>>_MCVars
    /\ []<><<Receives(Rx!Cycle(TRUE))>>_MCVars \/ []<>~ENABLED <<Receives(Rx!Pause)>>_MCVars

MCSpec == MCInit /\ [][MCNext]_MCVars /\ MCFairness

\* Those of QdmaFunctionRx, NeverStalls with the type invariants of both.
QidOfPacket == Rx!QidOfPacket
QidRealigned == Rx!QidRealigned
NeverStalls == TypeOK /\ Rx!TypeOK /\ Rx!NeverStalls
BeatLeaves == part = "rx" /\ buf_fifo # <<>> ~> Rx!m_axis_c2h_tvalid
=============================================================================
