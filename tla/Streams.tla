------------------------------ MODULE Streams ------------------------------
(***************************************************************************)
(* What the kernels of plugin_src/ip_hls are written in: processes that    *)
(* run for ever side by side (HLS DATAFLOW, disable_start_propagation) and *)
(* talk through hls::streams, FIFOs of a depth fixed by a pragma.  One     *)
(* step of a specification is one call of one process: it is stalled until *)
(* every stream it reads has something and every stream it writes has room.*)
(*                                                                         *)
(* A word of a data stream holds up to W units of the frame it is part of. *)
(* A header is one unit: at DATA_WIDTH 512 the Ethernet, IP and UDP        *)
(* headers together (42 bytes) are shorter than a word (64 bytes).         *)
(***************************************************************************)
EXTENDS Integers, Sequences, SequencesExt, TLC

CONSTANTS
    Depth,          \* the depth of every stream, a function on the streams' names
    W               \* units in a word, at least 2

VARIABLES
    chan,           \* what is in each stream
    static          \* the static variables of the processes, by name

Empty(names) == [f \in names |-> <<>>]

CanRead(f) == chan[f] # <<>>

\* One call: the heads of the streams in reads go, and writes, a function on
\* some of the streams, arrives.  A stream is a FIFO: room is what it has now.
Call(reads, writes) ==
    /\ \A f \in reads : CanRead(f)
    /\ \A f \in DOMAIN writes : Len(chan[f]) < Depth[f]
    /\ chan' = [f \in DOMAIN chan |->
                  (IF f \in reads THEN Tail(chan[f]) ELSE chan[f])
                  \o (IF f \in DOMAIN writes THEN <<writes[f]>> ELSE <<>>)]

Nothing == <<>>     \* the function that writes no stream
To(f, word, cond) == IF cond THEN f :> word ELSE Nothing

Word(units, last) == [units |-> units, last |-> last]

\* The units of a word that a length leaves valid.
LenToKeep(word, length) ==
    [word EXCEPT !.units = SubSeq(@, 1, IF length < Len(@) THEN length ELSE Len(@))]

\* The words of a packet: full ones and a last one, which may be empty.
Words(units) ==
    LET n == IF units = <<>> THEN 1 ELSE (Len(units) + W - 1) \div W
    IN  [i \in 1..n |-> Word(SubSeq(units, (i - 1) * W + 1,
                                    IF i < n THEN i * W ELSE Len(units)), i = n)]

-----------------------------------------------------------------------------
(* Realigning: a packet loses its first unit, and each word is made of the   *)
(* rest of the word before and of the first unit of this one.                *)

NoWord == [prev |-> <<>>, rest |-> FALSE]

Joined(prev, word) == Word(Tail(prev) \o SubSeq(word.units, 1, 1), Len(word.units) <= 1)
Rest(prev) == Word(Tail(prev), TRUE)

RightShift(p, in, out) ==
    \/ /\ ~static[p].rest /\ CanRead(in)
       /\ LET word == Head(chan[in])
              first == static[p].prev = <<>>
              sent == Joined(static[p].prev, word)
          IN  /\ Call({in}, To(out, sent, ~first))
              /\ static' = [static EXCEPT ![p] =
                              IF word.last /\ ~first /\ sent.last THEN NoWord
                              ELSE [prev |-> word.units, rest |-> word.last]]
    \/ /\ static[p].rest
       /\ Call({}, out :> Rest(static[p].prev))
       /\ static' = [static EXCEPT ![p] = NoWord]

-----------------------------------------------------------------------------
(* And the other way round: room for one unit is made in front of a packet.  *)

Hole == [is |-> "hole"]
Carried(prev) == IF prev = <<>> THEN <<Hole>> ELSE SubSeq(prev, W, Len(prev))
Pushed(prev, word) ==
    LET fits == Len(word.units) < W
    IN  Word(Carried(prev) \o SubSeq(word.units, 1, IF fits THEN Len(word.units) ELSE W - 1),
             word.last /\ fits)

LeftShift(p, in, out) ==
    \/ /\ ~static[p].rest /\ CanRead(in)
       /\ LET word == Head(chan[in])
              sent == Pushed(static[p].prev, word)
          IN  /\ Call({in}, out :> sent)
              /\ static' = [static EXCEPT ![p] =
                              IF sent.last THEN NoWord
                              ELSE [prev |-> word.units, rest |-> word.last]]
    \/ /\ static[p].rest
       /\ Call({}, out :> Word(Carried(static[p].prev), TRUE))
       /\ static' = [static EXCEPT ![p] = NoWord]
=============================================================================
