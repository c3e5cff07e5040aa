----------------------------- MODULE PacketQueue -----------------------------
(***************************************************************************)
(* What a packet buffer promises: a packet reaches the output whole, when  *)
(* none of its beats met a drop, and otherwise none of it does.            *)
(*                                                                         *)
(* In one clock cycle a beat may be offered at the input, and a beat may   *)
(* leave the line of those that will be delivered.  A packet joins the     *)
(* line with its last beat, and it does so as all the beats that were      *)
(* offered since the packet before it ended.  Once it is to be dropped it  *)
(* stays so until its last beat has been taken.                            *)
(***************************************************************************)
EXTENDS Integers, Sequences

CONSTANTS Beat, Last(_)     \* Last(b): b ends a packet

VARIABLES
    offer,      \* the beat at the input, if any: a sequence of at most one
    ready,      \* it is taken in this cycle
    drop,       \* its packet is to be dropped
    came,       \* the beats of that packet that were at the input before it
    doomed,     \* its packet was to be dropped in an earlier cycle
    line        \* the beats that will be delivered, in their order

vars == <<offer, ready, drop, came, doomed, line>>

Offers == {<<>>} \cup {<<b>> : b \in Beat}

\* What the world does at the input is its own affair.
Inputs == offer \in Offers /\ ready \in BOOLEAN /\ drop \in BOOLEAN

Init == Inputs /\ came = <<>> /\ doomed = FALSE /\ line = <<>>

Dropped == drop \/ doomed

\* Beat b is no longer at the input.
Passed(b) == came' = IF Last(b) THEN <<>> ELSE Append(came, b)

-----------------------------------------------------------------------------
(* What may happen at the input; `joining' is what joins the line. *)

Idle(joining) ==
    /\ offer = <<>>
    /\ came' = came /\ doomed' = Dropped
    /\ joining = <<>>

Extend(b, joining) ==
    /\ offer = <<b>> /\ ready /\ ~Dropped /\ ~Last(b)
    /\ Passed(b) /\ doomed' = FALSE
    /\ joining = <<>>

Complete(b, joining) ==
    /\ offer = <<b>> /\ ready /\ ~Dropped /\ Last(b)
    /\ Passed(b) /\ doomed' = FALSE
    /\ joining = Append(came, b)

Discard(b, joining) ==
    /\ offer = <<b>> /\ ready /\ Dropped
    /\ Passed(b) /\ doomed' = ~Last(b)
    /\ joining = <<>>

\* A beat that is not taken is offered again, or it is lost.  Only a packet
\* that is to be dropped may lose one; when that is its last beat, nobody sees
\* where it ended, and the packet after it is dropped with it.
Held(b, joining) ==
    /\ offer = <<b>> /\ ~ready
    /\ offer' = offer /\ came' = came /\ doomed' = Dropped
    /\ joining = <<>>

Lost(b, joining) ==
    /\ offer = <<b>> /\ ~ready /\ Dropped
    /\ Passed(b) /\ doomed' = TRUE
    /\ joining = <<>>

Input(joining) ==
    \/ Idle(joining)
    \/ \E b \in Beat : \/ Extend(b, joining) \/ Complete(b, joining) \/ Discard(b, joining)
                       \/ Held(b, joining) \/ Lost(b, joining)

-----------------------------------------------------------------------------

\* The beats that joined are the ones the new line has and the old had not.
Stay ==
    LET joining == SubSeq(line', Len(line) + 1, Len(line'))
    IN  line' = line \o joining /\ Input(joining)

Leave ==
    /\ line # <<>>
    /\ LET joining == SubSeq(line', Len(line), Len(line'))
       IN  line' = Tail(line) \o joining /\ Input(joining)

Next == Inputs' /\ (Stay \/ Leave)

Spec == Init /\ [][Next]_vars
=============================================================================
