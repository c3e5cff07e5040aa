--------------------------- MODULE MCProcessStack ---------------------------
(***************************************************************************)
(* process_stack's two ways through the card, side by side, of which a     *)
(* behaviour moves one: UpdatePath with values of one beat, of two, and of *)
(* three boxes; LookupPath with values that fit the first beat exactly and *)
(* values whose last 11 bytes need a beat but no word.                     *)
(***************************************************************************)
EXTENDS UpdatePath, TLC

CONSTANTS FifoDepth, LupPointers, Length, MissAddresses, MaxAsked

VARIABLES
    part,
    asked, offered, lupParser, fifo_peer_request, lupHash, fifo_lup_rsp, split, reply, bram,
    slice, received, lupTable, strayed      \* of LookupPath

Lup == INSTANCE LookupPath WITH
          Pointers <- LupPointers, parser <- lupParser, hash <- lupHash, table <- lupTable
ASSUME LookupAssumption == Lup!LookupPathAssumption

MCLength == ("p53" :> 53) @@ ("p128" :> 128)

lupVars == <<asked, offered, lupParser, fifo_peer_request, lupHash, fifo_lup_rsp, split, reply,
             bram, slice, received, lupTable, strayed>>
MCVars == <<vars, part, lupVars>>

MCInit == Init /\ Lup!Init /\ part \in {"lookup", "update"}

Updates(A) == part = "update" /\ A /\ UNCHANGED <<part, lupVars>>
Looks(A) == part = "lookup" /\ A /\ UNCHANGED <<part, vars>>

MCNext == Updates(Next) \/ Looks(Lup!Next)

\* The fairness of LiveSpec and of Lup!LiveSpec.
MCFairness == WF_MCVars(Updates(Pause) \/ Looks(Lup!Pause))

MCSpec == MCInit /\ [][MCNext]_MCVars /\ MCFairness

MCView == IF part = "update" THEN <<part, LiveState>> ELSE <<part, Lup!LiveState>>

\* LookupPath's ReplyNamesLookup, ReplyIsAnswer and NothingLeft: the first of every
\* reply, the others until a miss comes with the address of a box.
ReplyFollowsAnswer ==
    part = "lookup" => Lup!ReplyNamesLookup /\ Lup!ReplyIsAnswer /\ Lup!NothingLeft
LookupAnswered == Lup!LookupAnswered
=============================================================================
