---------------------------- MODULE UpdateService ----------------------------
(***************************************************************************)
(* What the card promises the host for updates: requests are served one at *)
(* a time; each takes effect in one step, and only then is it answered.    *)
(* From that step on the card has for the key the value of the insert, all *)
(* of it, or nothing after a delete.                                       *)
(***************************************************************************)
CONSTANTS
    Key, Value,
    Absent          \* no value

VARIABLES
    content,        \* the value of each key
    pending         \* <<>>, or the request and whether it has taken effect

vars == <<content, pending>>

Request == [op : {"insert"}, key : Key, value : Value] \cup [op : {"delete"}, key : Key]

Effect(request) == IF request.op = "insert" THEN request.value ELSE Absent

Init ==
    /\ content = [k \in Key |-> Absent]
    /\ pending = <<>>

Ask(request) ==
    /\ pending = <<>>
    /\ pending' = <<request, "asked">>
    /\ UNCHANGED content

Serve ==
    /\ pending # <<>> /\ pending[2] = "asked"
    /\ content' = [content EXCEPT ![pending[1].key] = Effect(pending[1])]
    /\ pending' = <<pending[1], "served">>

Answer ==
    /\ pending # <<>> /\ pending[2] = "served"
    /\ pending' = <<>>
    /\ UNCHANGED content

Next == (\E request \in Request : Ask(request)) \/ Serve \/ Answer

Spec == Init /\ [][Next]_vars
=============================================================================
