----------------------------- MODULE FairArbiter -----------------------------
(***************************************************************************)
(* What rr_arbiter.sv promises in its header comment, with none of its     *)
(* registers: one resource, requests served first come first served, ties  *)
(* broken in favour of the least recently used channel, and a grant that   *)
(* is kept until the owner finishes.                                       *)
(***************************************************************************)
EXTENDS Integers, Sequences

CONSTANT N,             \* number of channels
         NoOwner        \* the resource is free

Channel == 0..(N - 1)

VARIABLES
    line,       \* unfinished requests: a sequence of sets of channels, one
                \* set per clock cycle in which requests arrived
    owner,      \* the channel that has the resource, or NoOwner
    recency     \* recency[k], k in Channel: the least recently used first

vars == <<line, owner, recency>>

Waiting == UNION {line[i] : i \in 1..Len(line)}

\* Position of the least recently used channel of a set.
Oldest(S) ==
    CHOOSE k \in Channel :
        recency[k] \in S /\ \A j \in Channel : recency[j] \in S => k <= j

MoveToBack(k) ==
    [j \in Channel |->
        IF j < k THEN recency[j]
        ELSE IF j + 1 \in Channel THEN recency[j + 1] ELSE recency[k]]

Arrive(new) == IF new = {} THEN line ELSE Append(line, new)

Leave(l, c) ==
    IF l[1] = {c} THEN Tail(l) ELSE [l EXCEPT ![1] = @ \ {c}]

Init ==
    /\ line = <<>>
    /\ owner = NoOwner
    /\ recency \in {f \in [Channel -> Channel] : \A c \in Channel : \E k \in Channel : f[k] = c}

\* One clock cycle while the resource is free: requests arrive, one of the
\* earliest group takes the resource, and may give it back at once.
Take(new, done) ==
    LET l == Arrive(new)
        k == Oldest(l[1])
    IN  /\ owner = NoOwner
        /\ l # <<>>
        /\ recency' = MoveToBack(k)
        /\ owner' = IF done THEN NoOwner ELSE recency[k]
        /\ line' = IF done THEN Leave(l, recency[k]) ELSE l

\* One clock cycle while the resource is taken.
Keep(new, done) ==
    LET l == Arrive(new)
    IN  /\ owner # NoOwner
        /\ owner' = IF done THEN NoOwner ELSE owner
        /\ line' = IF done THEN Leave(l, owner) ELSE l
        /\ UNCHANGED recency

Next ==
    \E new \in SUBSET (Channel \ Waiting), done \in BOOLEAN :
        Take(new, done) \/ Keep(new, done)

Spec == Init /\ [][Next]_vars
=============================================================================
