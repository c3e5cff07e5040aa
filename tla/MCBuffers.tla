------------------------------ MODULE MCBuffers ------------------------------
(***************************************************************************)
(* The two packet buffers of the card, side by side, of which a behaviour  *)
(* moves one: the receive adapter behind the CMAC (PacketAdapterRx) and    *)
(* the way of the host's replies to the network (Transfer).                *)
(***************************************************************************)
EXTENDS PacketAdapterRx

CONSTANTS TransferDepth, TransferBeats, TransferSizes

VARIABLE part

Reply == INSTANCE Transfer WITH
            Depth <- TransferDepth, MaxBeats <- TransferBeats, SizeFifoCap <- TransferSizes
ASSUME ReplyAssumption == Reply!BufferAssumption

MCVars == <<vars, part>>

MCInit ==
    \/ part = "adapter" /\ Init
    \/ part = "transfer" /\ Reply!Init /\ pkt_acc = 0 /\ pkt_size = 0

Transfers(A) == part = "transfer" /\ A /\ UNCHANGED <<pkt_acc, pkt_size, part>>

MCNext ==
    \/ part = "adapter" /\ Next /\ UNCHANGED part
    \/ Transfers(Reply!Next)

\* The fairness of Reply!LiveSpec.
MCFairness ==
    []<><<Transfers(Reply!Cycle(TRUE))>>_MCVars \/ []<>~ENABLED <<Transfers(Reply!Pause)>>_MCVars

MCSpec == MCInit /\ [][MCNext]_MCVars /\ MCFairness

\* IsPacketQueue of both.
EveryPacketWhole ==
    /\ part = "adapter" => Queue!Init
    /\ part = "transfer" => Reply!Queue!Init
    /\ [][ /\ part = "adapter" => [Queue!Next]_(Queue!vars)
           /\ part = "transfer" => [Reply!Queue!Next]_(Reply!Queue!vars) ]_MCVars

\* The receive adapter's.
AdapterRecvIsDelivered ==
    [][part = "adapter" => CountedIsDelivered]_MCVars
AdapterSizeIsOwn == part = "adapter" => SizeIsOwn

\* Transfer's; CountsAgree of both, with the type invariants of both.
ReplySizeIsOwn == part = "transfer" => Reply!SizeIsOwn
CountsAgree == IF part = "transfer" THEN Reply!TypeOK /\ Reply!CountsAgree
               ELSE TypeOK /\ Buf!CountsAgree
PacketAppears == part = "transfer" /\ Reply!Buf!Line # <<>> ~> Reply!Buf!m_axis_tvalid
RoomAgain == part = "transfer" /\ Reply!Buf!ram_full ~> Reply!Buf!s_axis_tready
=============================================================================
