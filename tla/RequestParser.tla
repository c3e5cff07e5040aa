---------------------------- MODULE RequestParser ----------------------------
(***************************************************************************)
(* plugin_src/source/request_parser.sv: takes a request apart into its     *)
(* key, its meta data, the words of its value and the size to allocate.    *)
(* The registers are a record, and ParserStep is what one edge of clk      *)
(* makes of them.                                                          *)
(*                                                                         *)
(* A value is known by its name and by the beats it is put together from:  *)
(* beat n of the packet that carries val holds the part <<val, n>>.  A     *)
(* word of the value has 40 bytes of one beat and 24 of the next.  Only    *)
(* the first beat of a packet has a head; to look for one in another beat  *)
(* is an error that TLC reports.                                           *)
(*                                                                         *)
(* Definitions named Fault... are deliberate mistakes for mutation runs.   *)
(***************************************************************************)
EXTENDS Integers, Sequences

None == [none |-> TRUE]         \* no beat, no request
Nothing == <<>>                 \* the half of a word that no beat has filled

KeepOfWord == 24                \* bytes of a beat that complete a word, 64'hFF_FFFF
BytesInFirst == 40              \* value bytes of the first beat, 320 bits

ParserReset ==
    [state |-> "ST_IDLE", opcode |-> 0, inready |-> FALSE, force_throw |-> FALSE,
     throw_length_left |-> 0, value_data_buf |-> Nothing, value_last_buf |-> FALSE,
     key |-> None, key_valid |-> FALSE, meta |-> None, meta_valid |-> FALSE,
     value |-> <<Nothing, Nothing>>, value_valid |-> FALSE, malloc_valid |-> FALSE]

Part(beat) == <<beat.val, beat.part>>

\* The four outputs' ready signals are a record.
outready(r) == r.meta /\ r.key /\ r.value
readyfornew(r) == outready(r) /\ r.malloc
s_axis_tready(p, r) == p.state # "ST_IDLE" /\ ((p.inready /\ outready(r)) \/ p.force_throw)
Accepts(p, beat, r) == beat # None /\ s_axis_tready(p, r)

Handshakes(p, r) ==
    [p EXCEPT !.meta_valid = @ /\ ~r.meta, !.malloc_valid = @ /\ ~r.malloc,
              !.key_valid = @ /\ ~r.key, !.value_valid = @ /\ ~r.value]

\* A request that finds an output busy is thrown away.
ParserIdle(p, beat, r) ==
    IF beat = None THEN p
    ELSE IF readyfornew(r)
    THEN [p EXCEPT !.opcode = beat.head.op, !.inready = TRUE, !.value_last_buf = FALSE,
                   !.state = "ST_DATA_FETCH"]
    ELSE [p EXCEPT !.force_throw = TRUE, !.throw_length_left = beat.head.len + 8, !.state = "ST_DROP"]

FaultHasValue(p) == p.opcode \in {0, 1}
HasValue(p) == p.opcode = 1

FirstPart(p, beat) == [p EXCEPT !.state = "ST_VALUE", !.value_data_buf = Part(beat)]
OnlyWord(p, beat) ==
    [p EXCEPT !.state = "ST_IDLE", !.value = <<Part(beat), Nothing>>, !.value_valid = TRUE]

DataFetch(p, beat) ==
    LET q == [p EXCEPT !.meta = [op |-> p.opcode, len |-> beat.head.len], !.meta_valid = TRUE,
                       !.malloc_valid = (p.opcode = 1), !.key = beat.head.key, !.key_valid = TRUE]
    IN  IF ~HasValue(p) THEN [q EXCEPT !.state = "ST_IDLE"]
        ELSE IF beat.head.len > BytesInFirst THEN FirstPart(q, beat)
        ELSE OnlyWord(q, beat)

Finish(p) == [p EXCEPT !.state = "ST_IDLE", !.inready = FALSE]

\* A last beat with more bytes than the word needs leaves a rest, for which
\* the parser accepts another beat.
TakeValue(p, beat) ==
    IF p.value_last_buf
    THEN Finish([p EXCEPT !.value = <<p.value_data_buf, Nothing>>, !.value_valid = TRUE,
                          !.value_last_buf = FALSE])
    ELSE LET q == [p EXCEPT !.value = <<p.value_data_buf, Part(beat)>>, !.value_valid = TRUE,
                            !.value_data_buf = Part(beat)]
         IN  IF beat.last /\ beat.keep > KeepOfWord THEN [q EXCEPT !.value_last_buf = TRUE]
             ELSE IF beat.last /\ beat.keep < KeepOfWord THEN Finish(q)
             ELSE q

\* (The counter's last step, below zero, is never looked at.)
Drop(p) ==
    IF p.throw_length_left = 0
    THEN [Finish(p) EXCEPT !.force_throw = FALSE]
    ELSE [p EXCEPT !.throw_length_left = @ - 1]

\* A word of the value stays valid for one cycle in ST_VALUE, taken or not.
ParserStep(p, beat, r) ==
    LET q == Handshakes(p, r)
        accepts == Accepts(p, beat, r)
    IN  CASE p.state = "ST_IDLE" -> ParserIdle(q, beat, r)
          [] p.state = "ST_DATA_FETCH" -> IF accepts THEN DataFetch(q, beat) ELSE q
          [] p.state = "ST_VALUE" ->
               IF accepts THEN TakeValue(q, beat) ELSE [q EXCEPT !.value_valid = FALSE]
          [] p.state = "ST_DROP" -> IF accepts THEN Drop(q) ELSE q
=============================================================================
