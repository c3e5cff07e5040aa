----------------------------- MODULE UpdatePath -----------------------------
(***************************************************************************)
(* The way of an update through the card: the host's packet, request       *)
(* parser and front end (transmission_subsystem.sv), the FIFOs for keys    *)
(* and values, hb_upd_controller.sv and the hash table                     *)
(* (hashtable_subsystem.sv), the value memory (storage_subsystem.sv), the  *)
(* way of freed pointers back to the allocator, and the acknowledgement.   *)
(* process_stack.sv joins them.  One step is one edge of the 250 MHz       *)
(* clock.                                                                  *)
(*                                                                         *)
(* Parts that have modules of their own appear as what those show of them: *)
(* FIFOs are sequences (SyncFifo), the allocator gives out a box that is   *)
(* free two cycles after the request (Alloc), and the hash table is a map  *)
(* for keys that are inserted when absent and for which it has room        *)
(* (KVStore).                                                              *)
(*                                                                         *)
(* The host is that of software/: it sends a request and waits for the     *)
(* acknowledgement.  It inserts absent keys while boxes are free, with     *)
(* values whose packets the request parser takes apart without a rest.     *)
(*                                                                         *)
(* Definitions named Fault... are deliberate mistakes for mutation runs.   *)
(***************************************************************************)
EXTENDS FrontEnd, FiniteSets

CONSTANTS
    Keys, Vals,
    Lengths,        \* the bytes of a value
    Pointers,       \* the boxes the allocator has
    NoPointer

ASSUME UpdatePathAssumption ==
    /\ Lengths \subseteq {n \in 1..512 : n <= BytesInFirst \/ n % 64 > BytesInFirst}
    /\ NoPointer \notin Pointers

VARIABLES
    request,        \* the host's request, until it is acknowledged
    sending,        \* the beats of its packet that are still to be accepted
    parser, fe,     \* registers of request_parser.sv and front_end_transit.sv
    fifo_value,     \* FIFO_DEPTH 4
    alloc,          \* the allocator: free boxes, request at work, answer
    fifo_pointer,   \* FIFO_DEPTH 4
    fifo_store_key, fifo_store_value,   \* FIFO_DEPTH 8
    upd,            \* registers of hb_upd_controller.sv
    hash,           \* hash_table_ip: the request it has read, the answer it offers
    table,          \* the pointer of each key
    memory          \* bram_storage: length and words behind a pointer

vars == <<request, sending, parser, fe, fifo_value, alloc, fifo_pointer, fifo_store_key,
          fifo_store_value, upd, hash, table, memory>>

-----------------------------------------------------------------------------
(* Ready signals *)

value_ready == Len(fifo_value) < 4
store_value_ready == Len(fifo_store_value) < 8
store_key_ready == Len(fifo_store_key) < 8
malloc_ready == parser_to_allocator_ready(fe, alloc.req_ready)
parser_ready == [meta |-> TRUE, key |-> store_key_ready, value |-> value_ready, malloc |-> malloc_ready]
free_pointer_ready == Len(fifo_pointer) < 4
udp_req_ready == hash.request = None

\* The answer of the hash table is taken by both of its readers at once.
udp_res_ready(ack_ready) == free_pointer_ready /\ ack_ready
TakesAnswer(ack_ready) == hash.answer # None /\ udp_res_ready(ack_ready)

Put(valid, data) == IF valid THEN <<data>> ELSE <<>>
Rest(queue, take) == IF take /\ queue # <<>> THEN Tail(queue) ELSE queue

-----------------------------------------------------------------------------
(* The host *)

\* The head has 16 bytes, the key 8.
Beats(len) == 1 + ((len + 23) \div 64)
BytesInLast(len) == (24 + len) - 64 * (Beats(len) - 1)
Packet(r) ==
    [n \in 1..Beats(r.len) |->
        [head |-> IF n = 1 THEN [op |-> r.op, key |-> r.key, len |-> r.len] ELSE None,
         val |-> r.val, part |-> n, last |-> n = Beats(r.len),
         keep |-> IF n = Beats(r.len) THEN BytesInLast(r.len) ELSE 64]]

\* The beats of a packet follow one another without a gap.
Beat == IF sending = <<>> THEN None ELSE Head(sending)

Requests ==
    [op : {0}, key : Keys, val : {None}, len : {0}]
    \cup {r \in [op : {1}, key : Keys, val : Vals, len : Lengths] :
            table[r.key] = NoPointer /\ alloc.free # {}}

Ask ==
    /\ request = None
    /\ \E r \in Requests : request' = r /\ sending' = Packet(r)
KeepAsking(ack_ready) ==
    /\ request' = IF upd.ack_valid /\ ack_ready THEN None ELSE request
    /\ sending' = Rest(sending, Accepts(parser, Beat, parser_ready))
HostStep(ack_ready) == Ask \/ KeepAsking(ack_ready)

-----------------------------------------------------------------------------
(* Transmission subsystem *)

ParserClock == parser' = ParserStep(parser, Beat, parser_ready)

FrontEndClock ==
    fe' = FrontEndStep(fe, parser, fifo_value, alloc, store_value_ready, store_key_ready)

\* The allocator answers with some free box; a freed one takes a while.
Allocates == alloc.deciding /\ alloc_ready(fe, store_value_ready, store_key_ready)
AnswerValid ==
    alloc.valid /\ ~alloc_ready(fe, store_value_ready, store_key_ready)
AllocClock(free_taken) ==
    LET back == IF free_taken /\ fifo_pointer # <<>> THEN {Head(fifo_pointer)} ELSE {}
        asked == parser.malloc_valid /\ malloc_ready
    IN  IF Allocates
        THEN \E pointer \in alloc.free :
               alloc' = [free |-> (alloc.free \ {pointer}) \cup back, deciding |-> FALSE,
                         req_ready |-> TRUE, valid |-> TRUE, pointer |-> pointer]
        ELSE alloc' = [alloc EXCEPT !.free = @ \cup back, !.deciding = @ \/ asked,
                                    !.req_ready = @ /\ ~asked, !.valid = AnswerValid]

FifoClock(free_taken) ==
    /\ fifo_value' = Rest(fifo_value, fe.fifo_value_ready)
                     \o Put(parser.value_valid /\ value_ready, parser.value)
    /\ fifo_pointer' = Rest(fifo_pointer, free_taken)
                       \o Put(upd.free_valid /\ free_pointer_ready, upd.free)
    /\ fifo_store_key' = Rest(fifo_store_key, udp_req_ready)
                         \o Put(fe.key_valid /\ store_key_ready, fe.key)
    /\ fifo_store_value' = Rest(fifo_store_value, TRUE)
                           \o Put(fe.value_valid /\ store_value_ready, fe.value)

-----------------------------------------------------------------------------
(* Hash table subsystem *)

FaultFrees(answer) == answer.success
Frees(answer) == answer.op = "KV_DELETE" /\ answer.success

UpdClock(ack_ready) ==
    LET begin == udp_req_ready /\ fifo_store_key # <<>>
        takes == TakesAnswer(ack_ready)
        frees == takes /\ Frees(hash.answer)
    IN  upd' = [req |-> IF begin THEN Head(fifo_store_key) ELSE upd.req,
                req_valid |-> begin \/ (upd.req_valid /\ ~udp_req_ready),
                free |-> IF frees THEN hash.answer.value ELSE upd.free,
                free_valid |-> frees \/ (upd.free_valid /\ ~free_pointer_ready),
                ack |-> IF takes THEN [key |-> hash.answer.key, success |-> hash.answer.success]
                        ELSE upd.ack,
                ack_valid |-> takes \/ (upd.ack_valid /\ ~ack_ready)]

\* The kernel reads a request, serves it once there is no lookup to serve
\* first, and offers the answer until it is taken.
ReadRequest(ack_ready) ==
    /\ hash' = [request |-> IF udp_req_ready /\ upd.req_valid THEN upd.req ELSE hash.request,
                answer |-> IF TakesAnswer(ack_ready) THEN None ELSE hash.answer]
    /\ UNCHANGED table
ServeInsert ==
    /\ hash.request # None /\ hash.answer = None /\ hash.request.op = "KV_INSERT"
    /\ table' = [table EXCEPT ![hash.request.key] = hash.request.value]
    /\ hash' = [request |-> None,
                answer |-> [op |-> "KV_INSERT", key |-> hash.request.key,
                            value |-> hash.request.value, success |-> TRUE]]
ServeDelete ==
    /\ hash.request # None /\ hash.answer = None /\ hash.request.op = "KV_DELETE"
    /\ table' = [table EXCEPT ![hash.request.key] = NoPointer]
    /\ hash' = [request |-> None,
                answer |-> [op |-> "KV_DELETE", key |-> hash.request.key,
                            value |-> table[hash.request.key],
                            success |-> table[hash.request.key] # NoPointer]]

HashClock(ack_ready, serve) ==
    IF serve /\ hash.request # None /\ hash.answer = None
    THEN ServeInsert \/ ServeDelete
    ELSE ReadRequest(ack_ready)

-----------------------------------------------------------------------------
(* Storage subsystem: a word with a length begins a value, one without     *)
(* goes behind the words that are there.                                   *)

MemoryClock ==
    memory' = IF fifo_store_value = <<>> THEN memory
              ELSE LET v == Head(fifo_store_value)
                       old == memory[v.pointer]
                   IN  [memory EXCEPT ![v.pointer] =
                          IF v.len # 0 THEN [len |-> v.len, words |-> <<v.word>>]
                          ELSE [old EXCEPT !.words = Append(@, v.word)]]

-----------------------------------------------------------------------------

Clock(ack_ready, serve, free_taken) ==
    /\ HostStep(ack_ready)
    /\ ParserClock
    /\ FrontEndClock
    /\ AllocClock(free_taken)
    /\ FifoClock(free_taken)
    /\ UpdClock(ack_ready)
    /\ HashClock(ack_ready, serve)
    /\ MemoryClock

Init ==
    /\ request = None /\ sending = <<>>
    /\ parser = ParserReset /\ fe = FrontEndReset
    /\ fifo_value = <<>> /\ fifo_pointer = <<>>
    /\ fifo_store_key = <<>> /\ fifo_store_value = <<>>
    /\ alloc = [free |-> Pointers, deciding |-> FALSE, req_ready |-> TRUE, valid |-> FALSE,
                pointer |-> NoPointer]
    /\ upd = [req |-> None, req_valid |-> FALSE, free |-> NoPointer, free_valid |-> FALSE,
              ack |-> None, ack_valid |-> FALSE]
    /\ hash = [request |-> None, answer |-> None]
    /\ table = [k \in Keys |-> NoPointer]
    /\ memory = [p \in Pointers |-> [len |-> 0, words |-> <<>>]]

Next == \E ack_ready, serve, free_taken \in BOOLEAN : Clock(ack_ready, serve, free_taken)

Spec == Init /\ [][Next]_vars

\* The clock runs, lookups pause again and again, and the acknowledgements
\* leave the card again and again.  The host need not ask for anything.
Pause == KeepAsking(TRUE) /\ Clock(TRUE, TRUE, TRUE)
LiveSpec == Spec /\ WF_vars(Pause)

-----------------------------------------------------------------------------
(* Properties *)

\* The words that the beats of a value make: 40 bytes of one beat, 24 of the
\* next.
Words(r) ==
    IF r.len <= BytesInFirst THEN << <<<<r.val, 1>>, Nothing>> >>
    ELSE [n \in 1..(Beats(r.len) - 1) |-> <<<<r.val, n>>, <<r.val, n + 1>>>>]
Stored(r) == [len |-> r.len, words |-> Words(r)]

Value == {Stored(r) : r \in [val : Vals, len : Lengths]}

Content == [k \in Keys |-> IF table[k] = NoPointer THEN None ELSE memory[table[k]]]
Served == hash.answer # None \/ upd.ack_valid
AskedOf(r) == IF r.op = 1 THEN [op |-> "insert", key |-> r.key, value |-> Stored(r)]
              ELSE [op |-> "delete", key |-> r.key]
Pending ==
    IF request = None THEN <<>> ELSE <<AskedOf(request), IF Served THEN "served" ELSE "asked">>

\* The update path is the service that UpdateService describes: a request
\* takes effect in one step, when the hash table serves it, with the value of
\* its own packet, complete, and is acknowledged after that.  (Key and value
\* take different ways; the value must be there first.)
Service == INSTANCE UpdateService WITH
    Key <- Keys, Value <- Value, Absent <- None, content <- Content, pending <- Pending
IsService == Service!Spec

\* Where a box can be: free, answered, with the front end, on its way to the
\* hash table, in the table, or on its way back.
KeyPointer(valid, key) == IF valid /\ key.op = "KV_INSERT" THEN {key.value} ELSE {}
Places == <<
    alloc.free,
    IF alloc.valid THEN {alloc.pointer} ELSE {},
    KeyPointer(fe.key_valid, fe.key),
    {fifo_store_key[n].value : n \in {n \in 1..Len(fifo_store_key) : fifo_store_key[n].op = "KV_INSERT"}},
    KeyPointer(upd.req_valid, upd.req),
    KeyPointer(hash.request # None, hash.request),
    {table[k] : k \in Keys} \ {NoPointer},
    IF hash.answer # None /\ Frees(hash.answer) THEN {hash.answer.value} ELSE {},
    IF upd.free_valid THEN {upd.free} ELSE {},
    {fifo_pointer[n] : n \in 1..Len(fifo_pointer)} >>

\* No box is lost, and none is in two places, so that it could be given to
\* two keys.
BoxesAccountedFor ==
    /\ UNION {Places[n] : n \in DOMAIN Places} = Pointers
    /\ \A m, n \in DOMAIN Places : m # n => Places[m] \cap Places[n] = {}

\* A request leaves nothing behind that the next one could take for its own:
\* no word in the value FIFO, no box without a key, no launcher at work.
NothingLeftBehind ==
    request = None =>
        /\ parser.state = "ST_IDLE" /\ fifo_value = <<>> /\ fifo_store_value = <<>>
        /\ fe.state = "ST_IDLE" /\ fe.launch_state = "ST_LAUNCH_IDLE"
        /\ ~fe.launch_on /\ ~fe.fifo_value_ready
        /\ ~fe.alloc_busy /\ ~alloc.valid

\* Every request is acknowledged.
RequestAcknowledged == request # None ~> request = None

\* What the next states depend on: registers that are written before they are
\* read, and boxes that are not in use, are left out.
LiveParser ==
    [parser EXCEPT
        !.opcode = IF parser.state = "ST_DATA_FETCH" THEN @ ELSE 0,
        !.inready = @ /\ parser.state # "ST_IDLE",
        !.value_data_buf = IF parser.state = "ST_VALUE" THEN @ ELSE Nothing,
        !.meta = IF parser.meta_valid THEN @ ELSE None,
        !.key = IF parser.key_valid \/ fe.state # "ST_IDLE" THEN @ ELSE None,
        !.value = IF parser.value_valid THEN @ ELSE <<Nothing, Nothing>>]
LiveFrontEnd ==
    LET inserts == fe.state # "ST_IDLE"
        launches == fe.launch_on \/ fe.launch_state # "ST_LAUNCH_IDLE"
    IN  [fe EXCEPT
            !.value_box_number = IF inserts THEN @ ELSE 0,
            !.value_len_byte = IF inserts THEN @ ELSE 0,
            !.key_valid_buffer = @ /\ inserts,
            !.value_box_number_launcher = IF launches THEN @ ELSE 0,
            !.alloc_pointer_buffer = IF launches THEN @ ELSE None,
            !.value = IF fe.value_valid THEN @ ELSE None,
            !.key = IF fe.key_valid THEN @ ELSE None]
LiveUpd ==
    [upd EXCEPT !.req = IF upd.req_valid THEN @ ELSE None,
                !.free = IF upd.free_valid THEN @ ELSE NoPointer,
                !.ack = IF upd.ack_valid THEN @ ELSE None]
LiveState ==
    <<request, sending, LiveParser, LiveFrontEnd, fifo_value,
      [alloc EXCEPT !.pointer = IF alloc.valid THEN @ ELSE NoPointer], fifo_pointer,
      fifo_store_key, fifo_store_value, LiveUpd, hash, table,
      [p \in Pointers |->
          IF p \in Places[1] \cup Places[8] \cup Places[9] \cup Places[10] THEN None ELSE memory[p]]>>
=============================================================================
