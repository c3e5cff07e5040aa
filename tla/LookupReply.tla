----------------------------- MODULE LookupReply -----------------------------
(***************************************************************************)
(* The two ends of a lookup's answer: plugin_src/source/                   *)
(* hb_lup_rep_parser.sv splits the hash table's answer into what the reply *)
(* says and the address of the value, and lkp_rep_parser.sv joins the      *)
(* words of the value behind the header again.  The registers of each are  *)
(* a record, and the ...Step functions are what one edge of clk makes of   *)
(* them.                                                                   *)
(*                                                                         *)
(* The header has 11 bytes, so that a beat of the reply begins with the    *)
(* last 11 bytes of one word of the value (or the header) and goes on with *)
(* the first 53 of the next.                                               *)
(*                                                                         *)
(* Definitions named Fault... are deliberate mistakes for mutation runs.   *)
(***************************************************************************)
EXTENDS Integers, Sequences, RequestParser

-----------------------------------------------------------------------------
(* hb_lup_rep_parser.sv *)

SplitReset == [key |-> None, hit |-> FALSE, result_valid |-> FALSE, addr |-> None, addr_valid |-> FALSE]

FaultSplitReady(s, result_ready, addr_ready) == ~s.result_valid \/ result_ready
s_axis_lup_rsp_ready(s, result_ready, addr_ready) ==
    (~s.result_valid \/ result_ready) /\ (~s.addr_valid \/ addr_ready)

SplitHandshakes(s, result_ready, addr_ready) ==
    [s EXCEPT !.result_valid = @ /\ ~result_ready, !.addr_valid = @ /\ ~addr_ready]

\* The address goes to the memory whether or not the lookup was a hit.
SplitStep(s, answer, result_ready, addr_ready) ==
    IF answer # None /\ s_axis_lup_rsp_ready(s, result_ready, addr_ready)
    THEN [key |-> answer.key, hit |-> answer.hit, result_valid |-> TRUE,
          addr |-> answer.pointer, addr_valid |-> TRUE]
    ELSE SplitHandshakes(s, result_ready, addr_ready)

-----------------------------------------------------------------------------
(* lkp_rep_parser.sv *)

HEADER_BYTES == 11

ReplyReset ==
    [state |-> "ST_IDLE", meta_key_r |-> None, packet_buffer |-> Nothing, bytes_left |-> 0,
     tvalid |-> FALSE, low |-> Nothing, high |-> Nothing, keep |-> 0, tlast |-> FALSE, size |-> 0]

header(key, len, hit) == <<key, len, hit>>

FaultNeedsWord(left) == left >= HEADER_BYTES
NeedsWord(left) == left > HEADER_BYTES

OutFree(r, tready) == ~r.tvalid \/ tready
s_axis_meta_ready(r, tready) == r.state = "ST_IDLE" /\ OutFree(r, tready)
s_axis_ram_ready(r, tready) ==
    /\ r.state = "ST_WAIT_FIRST" \/ (r.state = "ST_SEND" /\ NeedsWord(r.bytes_left))
    /\ OutFree(r, tready)

\* A beat for the output; word is Nothing where the beat ends before it.
Show(q, low, word, keep, last) ==
    [q EXCEPT !.tvalid = TRUE, !.low = low, !.high = word, !.keep = keep, !.tlast = last,
              !.state = IF last THEN "ST_IDLE" ELSE "ST_SEND"]

Capped(bytes) == IF bytes >= 64 THEN 64 ELSE bytes

\* Of a lookup that misses the reply is the header alone; no word is taken.
TakeMeta(q, meta) ==
    IF meta.hit THEN [q EXCEPT !.meta_key_r = meta.key, !.state = "ST_WAIT_FIRST"]
    ELSE [Show(q, header(meta.key, 0, FALSE), Nothing, HEADER_BYTES, TRUE)
            EXCEPT !.meta_key_r = meta.key, !.size = HEADER_BYTES]

FirstBeat(q, word) ==
    LET total == HEADER_BYTES + word.len
    IN  [Show(q, header(q.meta_key_r, word.len, TRUE), word.part, Capped(total), total <= 64)
           EXCEPT !.size = total, !.packet_buffer = word.part,
                  !.bytes_left = IF total > 64 THEN word.len - (64 - HEADER_BYTES) ELSE 0]

RestOfWord(q) == [Show(q, q.packet_buffer, Nothing, q.bytes_left, TRUE) EXCEPT !.bytes_left = 0]

NextBeatOf(q, word) ==
    LET left == q.bytes_left
    IN  [Show(q, q.packet_buffer, word.part, Capped(left), left <= 64)
           EXCEPT !.bytes_left = left - Capped(left), !.packet_buffer = word.part]

SendStep(q, word) ==
    IF q.bytes_left = 0 THEN [q EXCEPT !.state = "ST_IDLE"]
    ELSE IF ~NeedsWord(q.bytes_left) THEN RestOfWord(q)
    ELSE IF word # None THEN NextBeatOf(q, word)
    ELSE q

\* tlast lasts one cycle, taken or not.
ReplyStep(r, meta, word, tready) ==
    LET q == [r EXCEPT !.tvalid = @ /\ ~tready, !.tlast = FALSE]
    IN  IF ~OutFree(r, tready) THEN q
        ELSE CASE r.state = "ST_IDLE" -> IF meta # None THEN TakeMeta(q, meta) ELSE q
               [] r.state = "ST_WAIT_FIRST" -> IF word # None THEN FirstBeat(q, word) ELSE q
               [] r.state = "ST_SEND" -> SendStep(q, word)
=============================================================================
