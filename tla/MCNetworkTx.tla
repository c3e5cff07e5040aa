---------------------------- MODULE MCNetworkTx ----------------------------
(* NetworkTx with a node that is known, one that is not, and a node behind a *)
(* gateway that is not known either; words of four units, so that a payload  *)
(* of one unit is a frame of one word and one of four units a frame of two.  *)
EXTENDS NetworkTx

MCAddress == {"a", "b"}
MCTruncated == [ip \in MCAddress |-> ip]
\* The same nodes when the last octet of b's address is 128 or more.
MCTruncatedB == [MCTruncated EXCEPT !["b"] = "a"]
ASSUME ArpAssumption

MCDatagram == {[to |-> "a", units |-> 1], [to |-> "b", units |-> 1],
               [to |-> "far", units |-> 3]}
MCArpFrame == {Frame("REQUEST", "b", "me"), Frame("REQUEST", "a", "b"), Frame("REPLY", "b", "me")}

StreamNames ==
    {"txMeta", "txData", "ipTxMeta", "udpTxMeta", "tx_shift2udp", "udpTxData",
     "tx_shift2ipv4", "ipTxData", "buffer0", "buffer1", "buffer2", "buffer3", "buffer4",
     "subSum", "checksum", "header", "ethernet", "tx",
     "macIpEncode_req", "macIpEncode_rsp", "arpDataIn", "arpDataOut", "arpReplyMeta",
     "arpRequestMeta", "arpTableInsert", "macLookup_req", "macLookup_resp",
     "macUpdate_req", "macUpdate_resp"}
MCDepth == [f \in StreamNames |-> IF f = "macUpdate_resp" THEN 3 ELSE 1]

\* LiveSpec: the steps that leave sent and arpIn alone are those of Progress.
MCSpec ==
    Spec /\ ([]<><<UNCHANGED <<sent, arpIn>>>>_vars \/ []<>~ENABLED <<Progress>>_vars)
=============================================================================
