----------------------------- MODULE StreamQueue -----------------------------
(***************************************************************************)
(* What every buffer on an AXI stream promises: the beats that leave it    *)
(* are the beats that entered it, once each and in order, and it never     *)
(* holds more than Capacity of them.  In one clock cycle a beat may enter, *)
(* a beat may leave, or both.                                              *)
(***************************************************************************)
EXTENDS Integers, Sequences

CONSTANTS Beat, Capacity

VARIABLE q          \* the beats inside, oldest first

Init == q = <<>>

Enter(b) ==
    /\ Len(q) < Capacity
    /\ q' = Append(q, b)

Exit ==
    /\ q # <<>>
    /\ q' = Tail(q)

EnterAndExit(b) ==
    /\ q # <<>>
    /\ q' = Append(Tail(q), b)

Next == \/ \E b \in Beat : Enter(b) \/ EnterAndExit(b)
        \/ Exit

Spec == Init /\ [][Next]_q
=============================================================================
