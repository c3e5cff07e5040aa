------------------------------ MODULE FrontEnd ------------------------------
(***************************************************************************)
(* plugin_src/source/front_end_transit.sv: joins what the request parser   *)
(* found in a request with the allocator's pointer and sends the key to    *)
(* the hash table and the value to the storage.  It waits for nothing: the *)
(* value's first word and the pointer must be there two cycles after the   *)
(* meta data.                                                              *)
(*                                                                         *)
(* The registers are a record, and FrontEndStep is what one edge of clk    *)
(* makes of them.  Definitions named Fault... are deliberate mistakes for  *)
(* mutation runs.                                                          *)
(***************************************************************************)
EXTENDS RequestParser

FrontEndReset ==
    [state |-> "ST_IDLE", insert_wait_counter |-> 0, value_box_number |-> 0, value_len_byte |-> 0,
     key_valid_buffer |-> FALSE, launch_state |-> "ST_LAUNCH_IDLE", launch_on |-> FALSE,
     value_box_number_launcher |-> 0, alloc_pointer_buffer |-> None, fifo_value_ready |-> FALSE,
     value |-> None, value_valid |-> FALSE, key |-> None, key_valid |-> FALSE, alloc_busy |-> FALSE]

\* One box holds 64 bytes.
Boxes(len) == (len + 63) \div 64

\* n - 1 > 0 for an unsigned n.
More(n) == n # 1

\* The words after the first carry the pointer and no length.
NextWord(g, f, words, ready) ==
    [g EXCEPT !.value_box_number_launcher = (f.value_box_number_launcher - 1) % 2^16,
              !.value_valid = words # <<>>,
              !.value = [pointer |-> f.alloc_pointer_buffer, len |-> 0,
                         word |-> IF words = <<>> THEN None ELSE Head(words)],
              !.fifo_value_ready = ready]

\* In the functions below g holds what earlier assignments of the cycle have
\* made of the registers f.
Launcher(g, f, words, ready) ==
    IF f.launch_state = "ST_LAUNCH_IDLE"
    THEN IF f.launch_on THEN [g EXCEPT !.launch_state = "ST_LAUNCH_BEGIN", !.launch_on = FALSE] ELSE g
    ELSE IF More(f.value_box_number_launcher) THEN NextWord(g, f, words, ready)
    ELSE [g EXCEPT !.launch_state = "ST_LAUNCH_IDLE", !.fifo_value_ready = FALSE]

BeginInsert(g, f, p) ==
    [g EXCEPT !.state = "ST_INSERT_BEGIN", !.value_box_number = Boxes(p.meta.len),
              !.key_valid_buffer = p.key_valid, !.insert_wait_counter = (f.insert_wait_counter + 1) % 16,
              !.value_len_byte = p.meta.len]

SendDelete(g, p) ==
    [g EXCEPT !.value_valid = FALSE, !.key_valid = p.key_valid,
              !.key = [op |-> "KV_DELETE", key |-> p.key], !.fifo_value_ready = FALSE]

FrontEndIdle(g, f, p) ==
    IF ~p.meta_valid THEN g
    ELSE IF p.meta.op = 1 THEN BeginInsert(g, f, p)
    ELSE SendDelete(g, p)

FaultWait == 1
Wait == 2

\* The key is the one in the parser's register now, not the one that came
\* with the meta data.
SendInsert(g, f, p, words, alloc, ready) ==
    [g EXCEPT !.insert_wait_counter = 0,
              !.value_valid = words # <<>> /\ alloc.valid,
              !.value = [pointer |-> alloc.pointer, len |-> f.value_len_byte,
                         word |-> IF words = <<>> THEN None ELSE Head(words)],
              !.alloc_pointer_buffer = alloc.pointer,
              !.fifo_value_ready = ready,
              !.key_valid = alloc.valid /\ f.key_valid_buffer,
              !.key = [op |-> "KV_INSERT", key |-> p.key, value |-> alloc.pointer],
              !.value_box_number_launcher = f.value_box_number,
              !.state = "ST_IDLE"]

FaultWaitInsert(g, f, ready) ==
    [g EXCEPT !.launch_on = @ \/ f.insert_wait_counter = 1,
              !.insert_wait_counter = (f.insert_wait_counter + 1) % 16]
WaitInsert(g, f, ready) ==
    [g EXCEPT !.launch_on = @ \/ f.insert_wait_counter = 1,
              !.fifo_value_ready =
                  IF f.insert_wait_counter = 1 /\ More(f.value_box_number) THEN ready ELSE @,
              !.insert_wait_counter = (f.insert_wait_counter + 1) % 16]

InsertBegin(g, f, p, words, alloc, ready) ==
    IF f.insert_wait_counter = Wait THEN SendInsert(g, f, p, words, alloc, ready)
    ELSE WaitInsert(g, f, ready)

\* One request at a time waits for the allocator.
parser_to_allocator_ready(f, req_ready) == ~f.alloc_busy /\ req_ready
alloc_ready(f, value_ready, key_ready) == value_ready /\ key_ready /\ f.alloc_busy
AllocBusy(f, p, alloc, value_ready, key_ready) ==
    IF p.malloc_valid /\ parser_to_allocator_ready(f, alloc.req_ready) THEN TRUE
    ELSE f.alloc_busy /\ ~(alloc.valid /\ alloc_ready(f, value_ready, key_ready))

\* p: the parser's registers; words: the value FIFO; alloc: the allocator's
\* answer.
FrontEndStep(f, p, words, alloc, value_ready, key_ready) ==
    LET sent == [f EXCEPT !.key_valid = @ /\ ~key_ready, !.value_valid = @ /\ ~value_ready,
                          !.alloc_busy = AllocBusy(f, p, alloc, value_ready, key_ready)]
        g == Launcher(sent, f, words, value_ready)
    IN  IF f.state = "ST_IDLE" THEN FrontEndIdle(g, f, p)
        ELSE InsertBegin(g, f, p, words, alloc, value_ready)
=============================================================================
