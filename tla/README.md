# Verification of the OpenNIC key-value SmartNIC

The repository holds the design of an FPGA network card: the OpenNIC shell
(`src/Project/src`, SystemVerilog), which joins a host behind a QDMA PCIe core
to 100 Gb/s Ethernet ports, and a plug-in (`src/Project/plugin_src`) that keeps
a key-value store on the card.  Peers on the network look values up with UDP
requests and the card answers without the host; the host inserts and deletes.
Beside it (`plugin_src/ip_hls`) are the C++ kernels of a UDP/IP stack.

This directory holds TLA+ models of that design, the TLC configurations that
check them, and theorems about them with proofs that TLAPS checks.  All models
are written from the source: one step of a model of SystemVerilog is one edge
of the clock of the code it models, every register is a variable, and every
output that the code computes from registers and inputs is an operator.  Where
the code is a high-level-synthesis kernel (C++), one step is one call of one
process.

Paths below are relative to `src/Project/`.

## Reading order

1. `RRArbiter`, then `FairArbiter`, the promise it keeps, and `RRArbiterProofs`.
2. `QdmaC2H`, which uses the arbiter, and `QdmaC2HProofs`.
3. `PacketBuffer` with `PacketQueue` and `PacketBufferProofs`, then its two users `Transfer`
   and `PacketAdapterRx`, and `MCBuffersProofs` about both.
4. `RequestParser`, `FrontEnd` and `UpdatePath` with `UpdateService`, the way
   of an update through the card; `Alloc` and `HashTable` with `KVStore` and
   `StorageProofs` are the two large parts it uses.
5. `LookupReply` and `LookupPath`, the way of a lookup.
6. `QdmaH2C`, `QdmaFunctionRx`, `SyncFifo`.
7. `Streams`, what the kernels of the network stack are written in; `IpHandler`,
   `UdpIpRx` and `NetworkRx`, the way in; `UdpIpTx`, `ArpServer`, `MacIpEncode` and
   `NetworkTx`, the way out; `IcmpServer` on its own, and
   `Checksum` with `NetworkProofs`.

## Part 1. Inventory

### 1.1 The system

```
 host ── QDMA ── qdma_subsystem_h2c ──> function i ──> packet_adapter_tx ──> CMAC
            │                                │  box_250mhz (p2p_250mhz)        │
            │                                │  process_stack: key-value store │
            └── qdma_subsystem_c2h <── function i <── packet_adapter_rx <──────┘
                                                 box_322mhz (p2p_322mhz)
                                                 transfer, network_stack
```

Interface 0 carries the key-value store.  At 250 MHz `p2p_250mhz.sv` puts
`process_stack` between the host's function 0 and the adapter: updates come
from the host, lookups and replies go to and come from the adapter.  At
322 MHz `p2p_322mhz.sv` puts `transfer` and the UDP/IP stack between adapter and
CMAC.  Interface 1 is passed through.  Stages talk through AXI4-Stream
(tvalid/tready, a beat is transferred when both are up); between them are
FIFOs, register slices and clock crossings.  Software reaches registers over
AXI-Lite.

Concurrency is everywhere: every register of every module moves at every
edge of its clock, on what all the others showed before it.  The hard
behaviours are of that kind: two state machines that see each other's old
state, data and their description (size, queue ID, metadata, pointer) that
travel through different queues, a queue at its limit, a drop half-way through
a packet, and stages that wait for a fixed number of cycles rather than for
a handshake.

### 1.2 Components

"Modelled" means that every operation that changes state is in a model; the
file list of each is in `PROJECT.json`.

**Host side**

| Component | State | Operations | Hard behaviour | What makes it correct |
|---|---|---|---|---|
| `utility/rr_arbiter.sv` (modelled) | pending batch, arrival queue, priority rotation, granted | accept requests, queue late ones, grant, finish | arrivals in the cycle of a finish; wrapping pointers; starvation | nothing lost, nothing granted twice, first come first served, everybody served |
| `qdma_subsystem_c2h.sv` (modelled) | functions inside a packet, output slice, packet id, completion FIFO | select the granted function, send, complete | grant moving inside a packet, `prog_full` two cycles late | packets not interleaved, completions neither lost nor reordered |
| `qdma_subsystem_h2c.sv` and the functions' transmit half (modelled) | per function: started, matched, slice | match the queue ID of a first beat, take the packet | shared `tready`, stale matching | only the owner takes, whole packets in order, no blocking |
| `qdma_subsystem_function.sv`, receive half, `qdma_subsystem_hash.sv` (hash arithmetic left out) | beat buffer, queue-ID FIFO, hash pipeline | buffer beats, compute the queue ID from two beats, realign | beats and IDs in two FIFOs; state that reads `tlast` without a beat | the ID of a packet is its own, the buffer covers the latency |
| QDMA wrapper, registers, address maps (not modelled) | vendor core; register files | – | – | the configuration they hold is a parameter of the models |

**Buffers and adapters**

| Component | State | Operations | Hard behaviour | What makes it correct |
|---|---|---|---|---|
| `utility/axi_stream_register_slice.sv` (modelled, both modes) | one or two beats | take, show | arrival in the cycle of a stall | a queue of one or two beats |
| `utility/axi_stream_packet_buffer.sv`, `axi_stream_size_counter.sv` (modelled, common clock) | circular RAM, checkpoint, occupancy, drop state, size FIFO | write, checkpoint, drop and rewind, read whole packets | drop, fetch and rewind in one cycle; full and empty look alike; sizes in another queue | packets whole or not at all, in order, with their own size, never stuck |
| `plugin_src/source/transfer.sv` (stream) | slice, buffer, metadata FIFO | forward or drop a reply | metadata of a dropped reply stay | as above |
| `packet_adapter/packet_adapter_rx.sv` (receive clock domain) | slice, buffer, events | drop errors and overflows, count | the CMAC cannot be stopped | whole packets; what is counted is delivered |
| `packet_adapter_tx.sv`, `axi_stream_packet_fifo.sv` (not modelled) | packet FIFO, drop state | drop by destination, let out complete packets | a packet longer than the FIFO | as above; planned |
| `utility/level_trigger_cdc.sv` (not modelled) | crossing FIFO | pass events to another clock | overflow loses events (`src_miss` unconnected) | every event arrives once; needs a rate relation |
| `plugin_src/source/fifo.sv` (modelled) | memory, two pointers with a lap bit | push, pop | full and empty have equal addresses | a bounded queue |

**Key-value store**

| Component | State | Operations | Hard behaviour | What makes it correct |
|---|---|---|---|---|
| `request_parser.sv` (modelled) | state, opcode, half a word | take a request apart, drop | rests of words, drops counted in the wrong unit | key, metadata and words are those of one packet |
| `front_end_transit.sv` (modelled) | insert state, launcher, allocator handshake | insert, delete, launch words | fixed waits instead of handshakes | key, pointer and value of one request stay together |
| `alloc.sv`, `pick8_indices16.sv` (modelled) | per class: bit map, two half caches, free ring, refill state | allocate, free, refill, recycle | refill against use of the cache, ring overflow, a word at work as a copy | no box given out twice, boxes in use marked, always answered |
| `hash_table.cpp` (modelled) | cuckoo tables, victim counter | lookup, insert with evictions, delete | chains of evictions, failing inserts, duplicate keys | a map; what is evicted is found again |
| `hb_upd_controller.sv` (modelled) | request, freed pointer, acknowledgement | pass a request, answer, free | two readers of one answer | each answer is acknowledged, its box freed, once |
| `transmission_`, `hashtable_`, `storage_subsystem.sv`, `process_stack.sv` (both paths composed, each on its own) | the FIFOs between them | wiring | key and value take different ways | an update is atomic; boxes are conserved |
| `hb_lup_rep_parser.sv`, `lkp_rep_parser.sv` (modelled) | pointer, answer; reply state, rest of a word, bytes left | split the answer, join header and value | key, hit and value take different ways; a beat straddles two words | a reply carries the value of its key and leaves nothing behind |
| `bram_storage`, `host_ack_parser` | – | – | not in the repository; external where a model needs them | – |
| `ram.sv`, `uram512.sv`, `launcher.sv` (not modelled) | – | – | instantiated by test benches or nowhere | – |

**Network stack** (C++ kernels, `plugin_src/ip_hls`)

Each kernel is a set of processes that run for ever side by side and are joined by
streams.  A packet's words go through one chain of streams, and what is found
out about it (protocol, length, verdict, address, checksum) through others, to meet
again further on.

| Component | State | Operations | Hard behaviour | What makes it correct |
|---|---|---|---|---|
| `ip_handler` (modelled) | a state machine per process, streams | sort frames by Ethernet type and protocol, strip the Ethernet header, check, drop, cut padding | the verdict on a packet arrives apart from its words | each port receives its packets, whole, in order and no others |
| `ipv4`, `udp`, `udp_stack` (modelled) | likewise | strip or add headers, filter ports, metadata beside the words | metadata and words in two streams; drops in between | the n-th metadata belong to the n-th payload |
| `mac_ip_encode`, `ethernet_frame_padding` (modelled) | likewise | ask for the next hop, checksum, Ethernet header, padding | next hop unknown: a packet, its header and its checksum are in three streams | frames whole, each with headers of its own |
| `arp_server` (modelled) | state of the MAC table's user, streams | answer queries, learn, look up, broadcast requests; the table itself is an external core behind `rtlMacLookup` and `rtlMacUpdate` | one state for lookups and updates | a query is answered to who asked, a lookup always |
| `icmp_server` (modelled) | packet buffer, checksums, one output for two kinds of answer | answer echo requests, report unwanted datagrams | the verdict comes behind the last word; two sources of checksums | answers whole, with their own checksum, in the end |

**Control and the rest** (not modelled)

| Component | State | Note |
|---|---|---|
| `axi_lite_register.sv`, `axi_lite_slave.sv` | write and read machines with one shared address and acknowledge | planned; the machines can disturb each other |
| `generic_reset.sv`, `system_config_register.v` | reset requests, shift registers, done bits | planned: a reset requested is eventually done, once |
| `system_config`, `cms_subsystem`, `cmac_subsystem`, `open_nic_shell`, boxes, `p2p_*` | wiring around vendor cores | read for the compositions |
| box registers, time evaluators | counters | 64-bit values read in two halves |
| `crc32.v` | none | a function of the data |
| host and peer software (`software/`) | – | its send-then-wait loop is the host of `UpdatePath` |
| test benches, scripts, board files, constraints | – | read for inputs and parameters |

### 1.3 Hazards

`PROJECT.json` lists what can go wrong in this code that a test would hardly
reach, each at its line, with the property that would notice.  Hazards without a
property are of three kinds: the code does not keep the promise outside the
assumptions stated below (updates behind a stream of lookups, requests during the
allocator's start-up, long last beats, replies of the MAC table nobody reads),
nothing in the repository says what the right behaviour is (metadata of a dropped
reply), or it is a matter of numbers TLC cannot count up to (the 20-bit sum of
`icmp_server.cpp:174`).

## Part 2. The models

### 2.1 How a module corresponds to the code

* A register is a variable with its name in the code.  An N-bit vector of flags
  is the set of the channels or functions whose bit is 1; a FIFO that is read
  only between its pointers is a sequence; parts whose registers are many
  (`RequestParser`, `FrontEnd`, `Alloc`'s `refill` and `recycle`) are records.
* A combinational signal is an operator with its name in the code, so that the
  order of evaluation inside a cycle is that of the code: `Clock` of a module
  reads old registers, and every conjunct writes one `always` block's registers.
* Inputs of a cycle are parameters of `Clock`; a composed module passes the
  outputs of one part as the inputs of the next.
* A kernel of the network stack is a function `static` of its processes' static
  variables, by their names in the code, and a function `chan` from the names of
  its streams to what is in them.  A process reads and writes in one call what
  its pipeline reads and writes for one word (`Streams`, `Call`): it waits until
  all of it can be done, as a stalled pipeline stage does.
* Data is what the properties tell apart: a packet's beat is its position, its
  `tlast` and its owner, a value is a name and the beats it was made from.
* Definitions named `Fault...` are deliberate mistakes a property must notice.
  No specification uses them.

Beside each definition's name, `PROJECT.json` ("map") holds the file and lines
it was written from.

### 2.2 Modules

| Module | Models | State | Actions |
|---|---|---|---|
| `FairArbiter` | abstract: first come first served, least recently used first, kept until finished | line of groups, owner, recency | `Take`, `Keep` |
| `RRArbiter` | `utility/rr_arbiter.sv` and the environment of its header comment | the registers, and `outstanding`: requests without a `fin` | `QueueStep`, `QueuedStep`, `Rest`, `Start`, `StartAndFinish`, `Finish`, `Hold` |
| `ForwardSlice`, `FullSlice` | the two modes of `axi_stream_register_slice.sv` | beats held | `Clock` |
| `StreamQueue` | abstract: a bounded queue with one end moving at each side per cycle | line | one step |
| `QdmaC2H` | `qdma_subsystem_c2h.sv` with arbiter and slice composed; QDMA core and functions as environment | `processing`, slice, packet id, completion FIFO, its `prog_full` pipeline | `ProcessingStep`, `SliceStep`, `PldIdStep`, `CplFifoStep` under `Clock` of the arbiter |
| `QdmaH2C` | `qdma_subsystem_h2c.sv` with the transmit half of every function | slice, started, matched, the functions' slices | `StartedStep`, `MatchedStep`, `SlicesStep` |
| `QdmaFunctionRx` | receive half of `qdma_subsystem_function.sv` with `qdma_subsystem_hash.sv` | slice, hash state machine and pipeline, two FIFOs | `S1Idle`, `S1More`, `S1Pass`, pipeline, FIFO steps |
| `PacketBuffer` | `axi_stream_packet_buffer.sv`, `axi_stream_size_counter.sv` | pointers, occupancy, drop state, sizes, read pipeline | one conjunct per `always` block |
| `PacketQueue` | abstract: packets whole when no beat met a drop, else not at all | beat offered, taken, dropped; beats that came before it, doomed, line | `Idle`, `Extend`, `Complete`, `Discard`, `Held`, `Lost`, with or without a leaving beat |
| `Transfer` | `transfer.sv`: slice and buffer, drop when full | both | `Clock` |
| `PacketAdapterRx` | `packet_adapter_rx.sv`: slice, buffer, size counter, events | all | `Clock` |
| `SyncFifo` | `plugin_src/source/fifo.sv` | memory, two pointers | push, pop, both |
| `KVStore` | abstract: values per key, with what a failed insert may lose | values, answers | `InsertOK`, `InsertFails`, `Delete`, `Lookup` |
| `HashTable` | `hash_table.cpp`: one call of the kernel is one step | tables, `victimBit`, counters, requests, answers | `Lookup`, `Insert`, `Remove` |
| `Alloc` | `alloc.sv`, with the client `front_end_transit.sv` and the hash table are to it | per class cache, bit map, rings, both state machines | `AllocIdle` … `DecideWait`, `FreeBegin`, `FreeDecide`, `RefillState`, `RecycleStep` |
| `RequestParser` | `request_parser.sv` as a function from registers and inputs to registers | a record | `ParserStep` |
| `FrontEnd` | `front_end_transit.sv`, likewise | a record | `FrontEndStep` |
| `UpdatePath` | parser, front end, `hb_upd_controller.sv` and the FIFOs of the three subsystems, with the host, the allocator and the table as what their own modules show of them | all | `Clock` with one conjunct per part |
| `LookupReply` | `hb_lup_rep_parser.sv` and `lkp_rep_parser.sv` as functions from registers and inputs to registers | two records | `SplitStep`, `ReplyStep` |
| `LookupPath` | the peers' parser and FIFO, the answer FIFO and the two parsers of the reply, with the peers, the table, the value memory and the register slice behind it as what they show of themselves | all, and the lookups under way with their answers | `Clock` with one conjunct per part |
| `UpdateService` | abstract: one request at a time takes effect in one step, then is answered | content, pending request | `Ask`, `Serve`, `Answer` |
| `Streams` | what an HLS kernel is made of: streams with a depth, calls, words and the shifters of `axi_utils.hpp` (external) | `chan`, `static` | `Call` |
| `IpHandler` | `ip_handler.cpp` and the network in front of it | `sent`, `wire` | one per process, `IpHandlerStep` |
| `UdpIpRx`, `UdpIpTx` | the two directions of `ipv4.cpp`, `udp.cpp`, joined as in `udp_stack.sv` | `sent`, what the user has still to hand over | one per process |
| `ArpServer` | `arp_server.cpp` with the MAC table (external) and the network's queries | table, frames in and out | one per process |
| `MacIpEncode` | `mac_ip_encode.cpp`, `ethernet_frame_padding.cpp` | – | one per process |
| `IcmpServer` | `icmp_server.cpp` and its three sources of packets | packets in, words out | one per state of each process |
| `NetworkRx` | `IpHandler` with `UdpIpRx`, and what each port has delivered | `out` | the parts' and `Deliver` |
| `NetworkTx` | `UdpIpTx`, `MacIpEncode` and `ArpServer`, and what has left | `out` | the parts' and `Leave` |
| `Checksum` | the arithmetic of the header and ICMP checksums | – | – |

Modules named `MC...` give values to constants that are functions, and in some
cases a `VIEW`.  A view leaves out registers whose content is overwritten before
it is read; each is defined, with its reason, beside the properties.  It is
sound because the next states and all properties of the run depend on the view
alone.

Most `MC...` modules hold two or three systems that have nothing to do with each
other, side by side: a variable `part` says in the initial state which of them a
behaviour moves, and the others keep their initial state.  The states of such a run
are the sum of its parts' (the initial states of the resting parts do not multiply
them).  A property of one part is stated for the behaviours that move it; where the
name differs from that in the part's own module, the `MC...` module says which it is.

How the compositions hang together:

```
RRArbiter  ──implements── FairArbiter          PacketBuffer ──implements── PacketQueue
    │ INSTANCE                                      │ INSTANCE (fed by what its users offer)
 QdmaC2H ──implements── RRArbiter!Spec          Transfer, PacketAdapterRx
    │ INSTANCE ForwardSlice                         │ INSTANCE ForwardSlice
 QdmaH2C ── ForwardSlice, FullSlice as a queue of two (ProcessStackProofs)
 QdmaFunctionRx ── FullSlice ──implements── StreamQueue ──implemented by── SyncFifo
 UpdatePath ── RequestParser, FrontEnd (EXTENDS); FIFOs as sequences (ProcessStackProofs),
     table as a map (HashTable implements KVStore), allocator that answers in
     two cycles with a free box (Alloc: AnswerOnTime, NoDoubleAlloc)
     ──implements── UpdateService
 LookupPath ── RequestParser, LookupReply (EXTENDS); FIFOs as sequences (ProcessStackProofs),
     table as a map (HashTable implements KVStore) that updates change; what they make
     of it is seen when the next lookup is read
 Streams ── IpHandler ── UdpIpRx ── NetworkRx           Streams ── IcmpServer
         └─ UdpIpTx, ArpServer ── MacIpEncode ── NetworkTx           (EXTENDS)
```

## Part 3. What TLC checks

### 3.1 Runs

| Run | Question | Instance |
|---|---|---|
| `arbiter` | Does every request get exactly one turn, in the order the header comment promises? | 4 channels, any arrivals, any `ready` |
| `c2h` | Do the functions drive the arbiter as it needs, and are packets and completions kept in order? | 2 functions, completion FIFO of 6 words with the code's margin of 5 below full |
| `buffers` | Replies: what does a drop leave behind in the buffer? Receive adapter: the same where the sender cannot be stopped; are the counters right? | `Transfer`: RAM of 4 beats, packets of at most 3; `PacketAdapterRx`: RAM of 2, packets of at most 2, with and without error |
| `adapter_rx_size` | Does a received packet leave with its own size? | the same; **violated**, see 3.4 |
| `functions` | From the host: does each packet reach the owner of its queue, whole, without blocking the others for good? To the host: does a packet leave with its own queue ID, and is the buffer deep enough? | `QdmaH2C`: 2 functions with 2 and 1 queues; `QdmaFunctionRx`: buffer of 7 beats without stalls, of 2 with stalls; 3 packet tags |
| `function_rx_stall` | The latter with a receiver that stalls | buffer of 6 beats; **violated**, see 3.4 |
| `storage` | Is the cuckoo table a map, whatever is evicted? Is a box given out twice, or an answer late? | `HashTable`: 3 keys in 3 tables of 2, 4 rounds of eviction, keys that collide in some tables; `Alloc`: 2 classes, caches of 4, bit maps of 2 and 1 words of 4 bits |
| `process_stack` | Is an update atomic, are boxes conserved, does a request leave a trace? Does every reply name its lookup, is it what the table had for its key, beat for beat, and does it come? | `UpdatePath`: 2 keys, 2 values, 3 boxes, values of 1, 2 and 4 beats; `LookupPath`: 2 keys, 2 lookups under way, FIFOs of 2, values of 53 and 128 bytes, the address of a miss none or any of the boxes |
| `network_rx` | Does each port deliver the packets it is for? Are echo requests answered, whole and in the end? Are the checksums right? | `NetworkRx`: 3 frames of 11 kinds, 13 units in words of 4; `IcmpServer`: 3 packets of 6 kinds, buffer of 4 words; `Checksum`: lanes of 2 bits, 8 to a word, headers of 3 and 4 32-bit words |
| `icmp_long` | Is every valid echo request forwarded? | a request one word longer than the buffer; **violated**, see 3.4 |
| `network_tx` | Are frames whole and of one datagram each when hops are unknown, and is the network asked for those? | 2 datagrams to 3 nodes, 1 ARP frame of 3 kinds |
| `arp_address` | Is a query answered to who asked? | a node whose last octet is 128 or more; **violated**, see 3.4 |

**Why these bounds.** Every component keeps a bounded number of registers, so
that the runs explore all behaviours of the instance, of any length; what is
bounded is the width.  Four channels are the least at which a queue entry can
hold two requests behind two others and pointers wrap more than once.  Two
functions suffice for interleaving; their packets have any length.  The RAM of
`transfer` is one beat larger than the longest packet, so that a packet can
meet a full buffer at each of its beats, both pointers lap each other and two
packets can wait; with packets as long as the RAM (`PacketAdapterRx`) the buffer is
full with a partial packet as well.  The hash table has six slots for three
keys and fails inserts, since positions collide and values of a key pile up; an
eviction chain of four rounds visits every table and returns.  The allocator's
first class is deep enough to use up both halves of its cache, reach the second
word of its bit map and come back to the first, and to overflow its ring.  The
lengths of `UpdatePath` make a value of one word in one beat, of one word in
two beats, and of three words in four beats: the shortest for which launcher
and allocator overlap in each way.  Those of `LookupPath` make, behind the 11
bytes of the header, a reply of one full beat, and one of three beats in which a full
beat is made of two words and the last holds only the rest of a word.  Two
lookups under way overlap in every stage of the path; the third waits until
the first reply has left.

Frames of `NetworkRx` have one, two and three words; three of them, of which each
may be dropped for another reason, are a packet with a verdict under way while
one before is being dropped and one behind is being read.  Most streams hold one
word, fewer than in the code: except where a process takes what comes first (the
ARP server, `insertChecksum`) what a stream carries does not depend on its depth,
and the shortest streams wait for each other most.  Streams of depth 2 (`Streams2`)
are those beside which a shorter one would stop the path: a verdict is made from the
words that wait for it.  In `NetworkTx` the two datagrams can go to a node that is
known, to one that is asked for, and through the gateway, in any order.  The words
of `Checksum` have equal last two lanes, which shortens the run; the lanes of
the header are free.  That two bits to a lane stand for sixteen is not left to the run:
`EveryChecksumRight` is proved for every width and every word.

A type invariant is checked where it says something the stronger properties do not:
it is part of `CountsAgree` (buffers), `NeverStalls` (functions) and `NoDoubleAlloc`
(allocator) of the `MC...` modules.

**Bounds, by name.** `MaxBeats` (beats of a packet), `SizeFifoCap` (words of
the size FIFO), `LupCap` and `UpdCap` (requests waiting at the hash table),
`CountMod` (width of the failure counter, 2^16 in the code), `PldIdMod` (width of
the packet id), `Tags` (packets told apart; a tag is reused only after it has
left both FIFOs), `MaxHeld` (boxes in use per class), and the `Depth`s of
memories and FIFOs (`FifoDepth`, 8 in the code), `MaxAsked` (lookups under way),
`MaxFrames`, `MaxUnits`, `MaxPackets`, `MaxDatagrams`, `MaxArp` (what the network and
the users send in a behaviour, the only histories that are not cyclic), `PackageBuffer`
(64 words in the code), `Base` (values of a checksum lane, 2^16) and `Lanes` (32).

### 3.2 Assumptions about the environment

* **Arbiter**: a channel keeps its request up until its `fin`, and `fin` comes with
  the grant (header comment of `rr_arbiter.sv`).  `QdmaC2H` shows, and
  `QdmaC2HProofs` proves, that the functions do.  N is a power of two; see 3.5.
* **QdmaH2C**: the driver gives functions disjoint ranges of queues and sends
  to no other queue.
* **PacketBuffer**: packets no longer than the RAM (`PKT_CAP` ≥ 1).  The size FIFO
  is as deep as the vendor macro really is, at least the packets the RAM and
  the read pipeline can hold.
* **Alloc**: requests begin after start-up and leave the refill time to finish
  (a host that waits for each acknowledgement is slower); a class makes no
  request after a free has overflowed its ring; the next box to be freed is the
  lowest or highest in use.  The block RAM shows the addressed word when the
  code's read states take it.
* **UpdatePath**: the host is that of `software/test_files/host_side/
  dpdk_rtt_updates.c`: one request, then it waits for the acknowledgement.  It
  inserts keys that are absent while boxes are free, its packets have no gap
  between beats, and a value has at most 40 bytes or leaves more than 40 in its
  last 64 (otherwise the parser waits for one beat too many).  The value memory
  always takes a word.  Lookups only delay updates.  The table shows a
  request nine cycles after it was sent at the earliest, the acknowledgement leaves after
  eleven, and word k of its value is in the memory after k + 6.  With values of more
  than three words (168 bytes) the table can show a value whose last word is not there yet
  (`IsService` fails), with more than five the acknowledgement can overtake a word
  (`NothingLeftBehind` fails).
* **LookupPath**: the peers together have no more lookups under way than the
  peer FIFO has words, since a request that finds it full is thrown away (3.5).
  The client of `software/test_files/client_side/rtt_udp.c` has one.  Its packet has
  one beat.  The address that the table sends for a miss is any
  (`MissAddresses`): the code leaves it uninitialized, so that the memory may answer
  with the words of a box that nobody takes.  `strayed` remembers, for the properties
  only, that this has happened.  `ReplyNamesLookup` and most of `NothingLeft` hold all the same;
  `ReplyIsAnswer` and `LookupAnswered` promise a value's words, and that the reply comes, until it
  happens, and 3.5 says what happens then.  The network takes a reply's last beat at once, as in
  `sim/process_stack_tb.sv:78`; other beats wait as long as it likes.  A
  box of the memory is not filled anew while a reply with its value is under
  way.  The memory takes an address when it has sent all words of the last.
* **Network stack**: frames are whole, IPv4 headers have no options (the comment at
  `ipv4.hpp:235` says the code works without only; with options the length's
  process runs on without its word, line 240), lengths are those of the
  packet.  The 512-bit instances are modelled, in which all headers fit the first
  word; the narrower ones take several.  The users of the ports and the network take what
  is there.  The user of `UdpIpTx` sends words and metadata of the same datagrams, in
  any order of the two.  The MAC table answers each request in order; the ARP server's
  update replies have room (3.5).  `network_stack`, which `p2p_322mhz.sv` instantiates,
  is not in the repository: the kernels are joined by their interfaces' names, and
  `IcmpServer` on its own has packets of any kind at its three inputs.

### 3.3 Fairness

Fairness is stated only where a property needs it, and never forces anybody to
send.

* *Clocked streams* (`Transfer`, `QdmaH2C`, `QdmaFunctionRx`) and the allocator: the clock runs and the
  receiver is ready again and again (`[]<><<Cycle(TRUE)>>`), or a cycle without
  input changes nothing again and again.  The second disjunct admits behaviours
  that end because nobody sends.  The clock is the hardware's; a receiver that
  is never ready again would block any stream.
* *Arbiter*: weak fairness of the clock, strong fairness of "the owner finishes":
  `ready` and a last beat keep coming until they meet.  Strong, because `ready`
  is outside the arbiter and may fall in each cycle in which the last beat is
  offered.  Nothing is assumed of the other channels: they may ask for ever.
* *UpdatePath*: weak fairness of a cycle in which lookups pause, freed boxes are
  taken and the acknowledgement leaves.  The hash table serves lookups first
  (`hash_table.cpp:215`), so that without a pause no update is served.
* *LookupPath*: weak fairness of a cycle in which table and memory work, the
  network is ready and nobody asks.  The kernel and the memory are pipelines
  that always move; the peers may ask in all other cycles.
* *Network stack*: weak fairness of `Progress`, the steps of all processes, the rest of
  a frame that has begun, and the takers of what is delivered.  The processes run for
  ever.  No call of one takes away what another could do, except where a process
  chooses between inputs, so that one fairness for all of them is enough.  New frames,
  datagrams and ARP answers need not come.  The `MC...` modules write this fairness as
  `[]<><<UNCHANGED sent>>_v \/ []<>~ENABLED <<Progress>>_v`: the steps that leave the
  history of what is sent alone are just those of `Progress`, and TLC evaluates the
  first form much faster (`LongSpec`, for `icmp_long`, keeps the second).

### 3.4 Where code and documentation disagree

* `adapter_rx_size`: `dropped` in `axi_stream_packet_buffer.sv:149` looks at
  `drop_in_prog`, which is not yet set when a packet is dropped in the cycle of
  its `tlast`.  The packet's size enters the size FIFO although its data are
  rewound, and every later packet leaves with the size of an earlier one.
  The header comment allows drops in that cycle, and `packet_adapter_rx.sv`
  drops erroneous packets in just that cycle.  `transfer` drops only while the
  buffer refuses beats, and there the sizes are right (`ReplySizeIsOwn`).
* `function_rx_stall`: `S_S1_MORE` in `qdma_subsystem_hash.sv` leaves for the
  next state without waiting for the second beat.  When that beat is stalled and
  is the packet's last, it is hashed again as a packet of its own; one queue ID
  too many, and all later ones are off by one.
* `icmp_long`: the dropper of `icmp_server.cpp` waits for the bit of a package before it
  takes its first word from `packageBuffer1`, and the bit is written after the last word.
  A package longer than the buffer (64 words) is neither forwarded nor dropped, and
  no request after it is answered.
* `arp_address`: `arp_server.cpp:73` keeps `data(62, 32)`, 31 of the 32 bits of the
  sender's address.  A sender whose last octet is 128 or more is answered to,
  and entered into the table as, another one.

### 3.5 Seen while modelling, outside the assumptions

These follow from the code, and the assumptions of 3.2 keep them out of the
passing runs.

* With N = 3 the arbiter's pointers count to four and its memory has three words;
  the fourth write is lost with its requests.  `open_nic_shell.sv:187` accepts
  three functions.
* `packet_adapter_rx`: a `tlast` that meets a full buffer is counted neither as
  received nor as dropped, and its packet takes the next one with it.
* `alloc`: a request during start-up is acknowledged and lost; after a free has
  overflowed the ring, or when requests outrun the refill, a box is given
  out twice; a value longer than 512 bytes gets a box of 512 (line 138).
* `front_end_transit`: it looks for the allocator's answer in exactly one cycle.
  A late answer loses the insert and its box and leaves a word in the value FIFO.
  A gap between the first two beats stores the key without its value.  A second
  request right behind takes the key of the first's register.  A value of length 0
  starts the launcher with a count that wraps.
* `request_parser`: a request that finds an output busy is thrown away, and the
  number of beats thrown is the number of bytes plus eight; a value whose
  last beat has 24 bytes or more swallows the next packet's first beat.
* A key inserted twice keeps its first box for ever (`dpdk_rtt_updates.c` inserts
  one key over and over); so does an insert that fails.
* Lookup path: a miss still addresses the memory, with an address that
  `hash_table.cpp:64` leaves uninitialized.  If the memory answers, the word stays
  in the register slice and becomes the value of the next hit, or the words stop the memory: without
  `~strayed` the run finds `ReplyIsAnswer` and `LookupAnswered` violated.  Keys, hits and misses and their
  order stay right (`ReplyNamesLookup`).  `lkp_rep_parser.sv:98`
  clears `tlast` while the last beat waits: without the network that takes it at
  once `ReplyFollowsAnswer` fails.
* `p2p_322mhz.sv:520` takes the size of a reply together with the metadata of its
  request, which may be asked for before the reply exists; a reply dropped in
  `transfer` leaves its metadata behind.
* `axi_lite_register.sv`: the address of a read is that of the write while a write
  is anywhere between address and response; the comment at 187 mentions only
  simultaneous requests.
* `axi_stream_packet_fifo`: a packet longer than the FIFO waits for ever.
* `level_trigger_cdc.sv:100`: events faster than the destination clock overflow the
  crossing FIFO; `src_miss`, which says so, is connected nowhere.
* `arp_server.cpp:246`: when an update and a lookup are there in the same call both are sent
  to the table and only the lookup is remembered.  The update's reply is never read,
  or for the next update's; replies pile up until the table has no room for more.
  `EverythingHandled` leaves that stream out.
* `icmp_server.cpp:174`: the checksum of a message is summed up in 20 bits without folding,
  four lanes a word; five words can carry out of it.

### 3.6 Mutants

For every property of a passing run `PROJECT.json` names a definition and a
plausible mistake in it (`Fault...`) that makes TLC find the property violated
under the same configuration.  Examples: the drop and the read of a cycle counted
separately (`FaultDataCntStep`), the checkpoint that moves with a dropped packet's
`tlast`, `prog_full` ignored, a matched flag that does not last, an eviction
written to the victim's old position, a first fill that forgets to mark the bit
map, an insert that does not wait for the allocator, a sum whose carry is not added
again, a verdict read anew at each word.

## Part 4. What is proved

TLAPS proves the following for every value of the constants that satisfies the
modules' assumptions.

| Theorem | Says | Argument |
|---|---|---|
| `SyncFifoIsQueue` | The pointer-and-lap FIFO implements the bounded queue, for every depth and word set. It has no run of its own. | `SyncFifoTypeOK`, then lemmas on how the mapped sequence changes with each pointer; step simulation. |
| `FullSliceIsQueue` | The fully registered slice implements the two-beat queue. | Type correctness, then each of the slice's cases is a step or a stutter of `StreamQueue`. |
| `ArbiterTypeOK`, `ArbiterLosesNothing`, `ArbiterGrantsOnce` | Registers in range; an unfinished request is pending or queued; never held twice. | The inductive invariant `IInv`, below. |
| `ArbiterFirstComeFirstServed` | The arbiter, memory, pointers and priority logic, implements `FairArbiter`: groups in the order of their arrival, and within a group the channel that was served longest ago. | The same invariant, and the line of waiting groups; below. |
| `C2HArbiterContract` | The card-to-host logic, for any number of functions, implements the arbiter's specification, environment included. | Step simulation; `processing` is the arbiter's `outstanding`, and a function that offers a beat keeps it. |
| `C2HNoInterleaving` | The core never sees another function's beat inside a packet. | `OwnerSendsPacket`: an open packet belongs to the function that has the grant or to the beat in the slice. |
| `C2HCompletionNeverLost` | No completion is written to a full FIFO, if its depth is at least `ProgFullThresh + 3`. | `CompletionMargin`, below. |
| `C2HCompletionsInOrder` | Completions are queued in the order of their packets with consecutive ids, for any range of the ids and the same depths of the FIFO. | A pop and a push each keep the order (`PopKeepsOrder`, `PushKeepsOrder`); `ModuloShift` for ids that wrap. |
| `H2COnlyOwnerTakes` | Only the owner of a queue takes a beat. | `PacketInFlight`: a function has started and matched exactly while the host is between its first and last beat. |
| `H2CWholePackets` | A function sees a first beat exactly when outside a packet. | The same invariant. |
| `H2CInOrder`, `H2CTypeOK` | What a function's slice holds continues as on the wire: a packet begins where the last one ended and keeps its queue. | `SlicesInOrder`: the last beat held and `h2c_started` agree, beside `PacketInFlight`. |
| `FunctionsNeverStall` | With FIFOs of seven words or more, a receiver that never stalls never makes the receive path stall. The code has 32. | `RxInv`, below. |
| `FunctionsQidOfPacket` | Under the same condition every packet leaves with its own queue ID. | `RxInv`, below. |
| `BuffersCountsAgree` | The four measures of what the reply buffer and the receive adapter's buffer hold agree, whatever is dropped, for every depth and every packet length that fits. | `BuffersInv`, below. |
| `BuffersKeepPacketsWhole` | Both buffers implement `PacketQueue`, fed with the beats at their input: a packet none of whose beats met a drop is delivered as it came, and of any other nothing is. | `BuffersInv` and a step simulation, below. |
| `AdapterCountsDelivered` | The receive adapter counts a packet as received exactly when it completes in the queue. | `BuffersInv` and the lemma of the step simulation that says which packets join. |
| `ReplyKeepsItsSize` | A reply leaves with its own size, whatever was dropped, if the size FIFO has two words more than the RAM has beats. | Sizes waiting and packets waiting match one to one; below. |
| `UpdateBoxesAccountedFor` | Of the boxes of the value memory none is lost and none is in two places, for every number of boxes, keys and values and every length the host may send. | The age of a request, below. |
| `UpdateLeavesNothingBehind` | An acknowledged update has left nothing behind for the next, if values have at most five words. | The same invariant, below. |
| `UpdateIsService` | `UpdatePath` implements `UpdateService` for every number of boxes, keys and values, if values have at most three words. | The same invariant with the words in the memory, and a step simulation, below. |
| `LookupRepliesFollow` | Replies go out in the order of the lookups, each with its key and what the table found, and a miss with its whole reply, whatever address the table sends with a miss. Until one is that of a box, each beat is the next one of the answer to the oldest lookup, and nothing is left when all are answered. For every set of keys, boxes and lengths and every FIFO depth. | `LookupInv`, below. |
| `EveryHeaderAgrees` | The header check accepts the headers that are right in ones' complement, no others, and what the transmit path stamps, for every header and lanes of any width. | `FoldedAlike`, below. |
| `EveryChecksumRight` | The same, and the correction of a reply's checksum, as the run states it. | With `EveryReplyRight`; below. |
| `HashTableInPlace` | Every entry sits where its own table's hash puts it, for every hash, number of tables and rounds. | `TableInv`, below. |
| `HashTableIsStore` | The cuckoo table implements the key-value store `KVStore`: what it answers, and that a failed insert costs at most one value. | `TableInv`, and a lemma per request; below. |
| `StorageNoDoubleAlloc` | A box of the value memory is in one place: the one that is offered is not in use, not being freed, not in the ring of freed boxes; every register keeps its range. | `BoxesInv`: `Apart`, below. |
| `StorageUseIsMarked` | The bit map, or the copy of the word at work, knows every box in use. | `BoxesInv`: `Marks` and `Return`, below. |
| `StorageAnswerOnTime` | When the front end looks for an answer the cache holds a box for it. | `BoxesInv`: `Turn`, below. |

**The arbiter's invariant.**  `NoLostRequest` alone is not inductive: a write
to a full queue is dropped with its requests, so that one has to know the queue is
never full when something must enter.  `IInv` therefore joins it with
`OneTurnEach` (`queued` is exactly what is unfinished, the entries of the queue are
disjoint from one another and from `pending`), `QueueWellFormed` (the write
pointer is `q_cnt` words behind the read pointer and no entry is empty),
`OwnerIsPending` (while the resource is taken, its owner is one pending channel) and
`EveryChannelRanked` (the priority rotation still names every channel, so that a
non-empty set of requests has a winner).  A full queue would need N disjoint
non-empty sets and leave no channel for the request that finds it full; the
pigeonhole lemma `NeverFull` excludes it.
`PtrMod = N`, that the channel count is a power of two, is a hypothesis
of the theorems and not an assumption of the module, because the code does not
require it: without it the theorems are false (3.5).

**First come, first served.**  `FairArbiter` keeps one line of groups; the arbiter keeps
the group that is served in `pending` and the others in a memory that wraps.  `Line`
is the one written with the other, and `LineShape` says that it is a sequence of
non-empty sets whose union is what is unfinished.  A cycle first adds the new group
(`LineAfterArrivals`: to the queue, or straight to `pending` when nothing waits) and then
moves the line (`LineMoves`: nothing, the head shrinks, or the next entry becomes the
head).  `WinnerIsOldest` shows that the bit trick on the rotated requests picks the
channel the abstract arbiter picks, and `ClockIsFair` puts a step of the one under a step of
the other.

**The completions' margin.**  `prog_full` stops the arbiter two cycles after the FIFO
has reached its threshold.  `CompletionMargin` counts the words in the FIFO and the
beat in the slice together, for each of the four values of `prog_full` and the stage
before it: at most three above the threshold, two as long as the arbiter is not stopped,
and the FIFO alone at the threshold as long as it has not been seen to reach it.
That the slice takes no beat once the arbiter is stopped comes from `OwnerSendsPacket`.
The code leaves five words.

**The host-to-card invariant.**  `h2c_started` is updated by what a function
takes, `h2c_matched` by what it matched, and `inside` is the host's view one beat
ahead, with the slice between them.  `PacketInFlight` ties the three: what
the slice holds is the continuation of what the functions have begun, and what
the host sends next continues what the slice holds.

**The queue ID's latency.**  A packet's queue ID is computed in five stages while
its beats go on into the buffer, and nothing but the depth of the FIFOs pairs the two.
`QidAt` lists the IDs under way, those in the FIFO first and then one for each stage that is
valid, the last stage first.  `RxInv` says there is a numbering of the buffered
beats, one number to a packet (`Numbered`), under which each beat's packet is
the one its ID was computed from (`Realigned`) and no ID is later than its stage
allows (`Timely`): an ID that has passed s stages has at most s beats
behind its packet's first one.  So at most six beats are in the buffer, and six
IDs in the FIFO, and the invariant restores itself.  With six words the path does stall: TLC
finds it at once, so that seven is the least depth.  The hypothesis `Covered` asks this depth of the
set-ups whose receiver never stalls and of no others.

**The packet buffers.**  `PacketBufferProofs` is about one cycle of the buffer between any two
neighbours that keep `InputOK`: the beat offered is the next of its packet, and no packet is
longer than `MaxBeats`.  `BufferInv` is preserved by such a cycle.  It joins the types, the
agreement of the counts (`Occupancy`), that no beat since the checkpoint is a packet's last
(`OpenPacket`) and that the size counter is at the same beat (`Sizing`).  The bound on the length
is needed: a packet of exactly the buffer's depth must end with the beat that fills it,
or reader and writer meet with the buffer full and nothing to fetch.

*Packets whole.*  What the RAM holds is read off as a sequence (`Contents`); a
lemma per part says how a cycle changes it: what can be fetched (`FetchableStep`), what is being
received (`BuildingStep`), and the two registers behind the RAM (`RegWords`).
`LineStep` puts these together as the line of `PacketQueue`.  The queue is tied to what is offered:
its `offer`, `ready` and `drop` are the signals at the buffer's input, `came` is how far the sender is in
its packet, beats that were refused included, and `doomed` is `drop_in_prog`.  So a packet
may join the line only as every beat that was offered since the last one ended, and once it is
to be dropped it stays so until its last beat is taken.  That the buffer has of the packet being received
just its first beats, without a gap (`OpenPacket`), is what makes the two agree (`BuildingOpens`).
`AdapterQueueStep` and `ReplyQueueStep` in `MCBuffersProofs` name the queue's
step for each combination of beat, room and drop.  In the adapter a beat that the buffer does not take is
lost (`Lost`); when that is the last one of its packet, `drop_in_prog` stays and the next packet goes
with it, which `PacketQueue` allows and 3.5 lists.

*Sizes.*  `SizeIsOwn` says that there are as many sizes waiting as packet ends in the line, and
that the k-th is the length of the packet with the k-th end.  The lemmas on `PacketEnds` say what a leaving beat and a
joining packet do to those ends.  A reply's size is not dropped because
the FIFO of sizes has room (`RoomForSize`): each size stands for a packet of
at least a beat, in the RAM or in the two registers.  Hence the hypothesis
`TransferSizes >= TransferDepth + 2`: the code asks for `C_SIZE_FIFO_DEPTH` words, the RAM's depth
for packets of 64 bytes, and the vendor macro in "fwft" mode holds two more.  With one less TLC
finds a reply with another's size.

`MCBuffersProofs` shows that both users keep `InputOK`.  `BuffersInv` follows the packet's position
through the sender, the slice and the buffer; in the adapter, whose sender is never stopped, the
size counter runs on over packets that are dropped (`AdapterCounts`).

**The hash table.**  Both theorems rest on what an insert's rounds do.  `PlaceKeeps`:
writing an entry to its own position in a table leaves every entry in place and loses
only the one that was there.  `RoundKeeps`: so a round of the loop keeps the set
of what the tables and the entry still in hand hold together.  `LoopKeeps` carries this
from round to round: what a round keeps, any number of rounds keeps.  The loop is a
recursive function; its induction is made on a set of numbers (`SetInduction`, from the
well-foundedness of the naturals), and that the function exists is proved the same
way (`LoopExists`).  After the last round a successful insert has no entry in hand,
and one that gives up has dropped just the last one, which may be its own.  A delete finds all
entries of its key because they are in place (`MatchesAreValues`, `RemoveKeeps`).
The inductive invariant `TableInv` adds the types of the tables, of `victimBit` and of the
requests that wait.

**The allocator's boxes.**  The three theorems hold for every number of classes, every cache and
every bit map that `AllocAssumption` allows: the cache is even, of four words or more and no longer than a word of
the bit map, a word is a whole number of half caches, and each class has a word at least (in
the code 16, 512 and four classes, alloc.sv:31-34).  They rest on one invariant,
`BoxesInv`.  Its types and the client's state aside it is made once per class (`Sound`), and its
parts need each other.

`Apart` lists the seven places a box can be: in use, offered, being freed, in the ring, in the
ring of boxes that go back to the bit map, under way there, and in a slot of the cache not handed
out yet.  They are disjoint, and no box is twice in one of them.  A request, a free, a refill and
a return each move a box from one place to the next (`ApartMoves`), and only the refill brings
new ones.  What it brings was unmarked, and every box of the seven places is marked (`Marks`, `FreshMoves`),
unless the return has just cleared it.

`Marks` is not about the bit map alone.  The refill works on a copy of a word, and the return of a
box reads, changes and writes a word in three cycles of its own.  `Return` says which
of the two machines may hold which word at which stage: when the return has taken a
word the refill does not write it, and if it is the word at work, the refill is about to read it
again or is told by `hit`.

`Turn` says which half of the cache the refill is at, from the counter of what was handed out and the ready
bits, for as long as nothing has overflowed.  It needs that a search finds a whole half or
nothing.  That is `Shape`: until a box goes back to the bit map, the bits that
are set in a word are the first ones, a multiple of the half cache many (`SearchFindsHalf`).  With the
pace of the requests (`Paced`: the next one leaves the refill the cycles it needs) the half that is
next is full when the counter gets there, and this is `AnswerOnTime`.  After an overflow bits come back one by
one, a search may find less than half a cache, and none of this is left.  `NoDoubleAlloc`
and `UseIsMarked` do not need it: they go on for frees and returns, which is why `Apart`, `Return` and
`Marks` stand outside the condition.

**The age of an update.**  Between the host and the hash table an update meets nobody else and
no queue on its way ever fills (`NothingWaits`), so that the cycles since the host sent it, its
age, say where its beats, its key, its box and the words of its value are, and what is in every register that
someone reads.  `ProcessStackProofs` states this once per part (`ParserAt`, `AllocAt`,
`FrontEndAt`, `LauncherAt` and so on; `Ages` is their conjunction) and proves that a cycle makes
every part one older (`CycleSteps`).  Only from the table on do others decide how long
a step takes: there the invariant says in which order things happen (`TableAt`).  A value
has an age of its own, because its words may still be moving when the next request begins
(`Together`).

`BoxesInv` adds where the boxes are.  The box of an insert is with the one part its age
names (`Held`), so that all boxes are divided into five sets (`Partition`): free, held, in the table, freed, and
waiting to go back.  A cycle moves a box from one to another; `BoxesMove` is
the set arithmetic of all those moves at once, and `TableStays`, `TableTakes` and `TableServes` say
which of them happen.  That an insert does not overwrite a box in the table comes from the host, which
inserts absent keys (`KeyIsAbsent`).  `PlaceOfBox` finds the five sets in the ten places of
`BoxesAccountedFor`.  `NothingLeftBehind` follows from the ages alone: when a request is gone it is at least
as old as the fastest way through the table allows.

The refinement needs one more part: `MemoryAt` says how many words of a value are in
the memory at each age (`MemorySteps`: a cycle writes the next one, in its place, and nothing
into a box in the table).  `Content` pairs the keys in the table with the values in their boxes.
While the table waits, `Content` stays the same: words are only written into a box that is not in the
table.  The cycle in which the table takes the key is `Serve` (`WaitIsService`),
the acknowledgement is `Answer`, a host's request is `Ask` (`AskIsService`), everything else a
stutter.  `Serve` needs that all words are there when the key is, and the two
have come different ways: that is where the hypothesis of three words is used.  It is
needed.  With values of four words and the table at the fastest pace that the model lets it
have, TLC finds a state in which the table shows the key and the last word is still
on its way.

**The line of the lookups.**  Nothing on the way of a lookup overtakes or is dropped, so the lookups under
way are a line.  `ToReply`, `ToSplit`, `ToAnswers` and so on say how many of them, from the oldest on,
have come to each place or passed it; `Line` says that each place holds the lookup
whose turn it is, and `PlacesMove` and `LineStep` that a cycle in which any of the places moves keeps
this.  Since the peers have at most `MaxAsked` lookups under way and the FIFO of their
requests has as many words, the parser throws none away (`RoomForKeys`, `PeersParser`).

The words of the values take a way of their own, and nothing but their order tells the reply which
are its own.  `WordsInOrder` says that what lies between the memory and the reply
is the rest of the value being sent and, behind it, the value of the answer that
`hb_lup_rep_parser.sv` has just sent on, if there is one.  It holds because `s_axis_lup_rsp_ready` lets an
answer pass only when the pointer of the last one has been taken, and because the reply takes
exactly as many words as its value has (`RestMoves`): behind the first one it takes a word only while
more than 11 bytes are left (`NeedsWord`); the last 11 or fewer are in the word that it holds, because the header
has pushed every word on by as many bytes.  `Replies` says for each state of `lkp_rep_parser.sv` which beat of the reply
it is at and how many bytes it counts as left.

The code sends the address of a miss to the memory too, and does not initialize it; a word that comes back stands
in the line of words with no reply to take it.  The invariant is therefore in two parts.  Types,
`Line`, `PeersParser` and `Headers` hold whatever the address is: `Headers` says what the registers of
`lkp_rep_parser.sv` and the first beat owe to the answer alone, the words being any words of any
length, and that is enough for the line to keep its order.  `Replies` and `WordsInOrder` are added until a miss comes with
the address of a box (`strayed`).  Together they are inductive (`LookupInv`).

`ProcessStackProofs` also holds the two theorems about queues, on which the models
rest that take FIFOs and slices for sequences.

**Checksums.**  TLC computes with lanes of two bits; the theorem is for lanes of any width.  `Alike`
says that two sums differ by a multiple of `Base - 1` and that neither is nothing alone.
Adding two lanes with the carry brought around (`PlusValue`, `AlikePlus`) is alike to adding them, so the
lanes of a word add up alike to those of its folded half (`HalfPrefix`, by
induction on the lanes; `HalfAlike`), and so down to the last one (`FoldedAlike`).
A sum is then right exactly if the last lane is all ones (`RightFolds`).  What the
transmit path puts in is a lane more (`LaneMore`), just what is missing to all ones
(`FinalIsRight`).  For a reply `ReplyValue` computes what the three steps in 17 bits
come to: the type is added to the checksum, and the carry brought around.  `Total` is a recursive function;
that it exists and grows lane by lane is proved as for the loop of the hash
table (`TotalsExist`, `TotalsAgree`, `TotalGrows`).

**What stays with TLC.**  Liveness and everything with `ENABLED`
(`EveryRequestServed`, `PacketAppears`, `RoomAgain`, `BeatTaken`, `BeatLeaves`,
`NobodyWaits`, `RequestAcknowledged`, `LookupAnswered`, `EveryFrame`,
`EveryoneAnswered`, `EverythingHandled`) is beyond the proof
system.  Three properties of the network stack (`FramesRight`, `EveryPort`, `AnswersWhole`) are
model-checked only: each ties a dozen or more processes, and what every stream between them holds, to
sequences laid end to end over all frames (`FlattenSeq`, a fold), about which
a proof needs an induction of its own at every step.

## Part 5. Plan

Done: the card's data path on the host side, the buffers, the two ways through the
key-value store, each on its own, and the kernels of the network stack.  Next, in this
order:

1. **Replies and requesters.**  The pairing of replies with the UDP metadata of
   their requests (`transfer`'s metadata FIFO, `p2p_322mhz.sv:512`), behind
   `LookupPath`; updates and lookups in one composition, so that a box may be
   freed and filled while a reply with its value is under way.
2. **Control plane.**  `axi_lite_register.sv` (two machines, one address) against an
   abstract register bank; `generic_reset.sv` with `system_config_register.v`:
   a reset asked for is done once and reported.
3. **Transmit side.**  `packet_adapter_tx.sv` with `axi_stream_packet_fifo.sv`
   against `PacketQueue`; `level_trigger_cdc.sv` with a bound on the rates.
4. **Proofs.**  `FramesRight`: for each process of `NetworkTx`, what it has put out as a
   function of what it has taken, and the frames as their composition.

### Not modelled

* `axi_lite_register`, `axi_lite_slave`, `generic_reset`, `system_config_register`,
  `packet_adapter_tx`, `axi_stream_packet_fifo`: on the plan above.
* `level_trigger_cdc`: drains a vendor's asynchronous FIFO at once; what it promises
  depends on the ratio of two clocks, which no source fixes.
* The other half of `packet_adapter_rx` (event crossings), of `transfer` (metadata
  FIFO, which does not meet the stream inside the module) and of the independent-clock
  `axi_stream_packet_buffer`: vendor FIFOs.
* In the network stack: `generate_ethernet` (commented out), `generate_ipv4`, the generic
  `drop_optional_ip_header` and `compute_ipv4_checksum` (called nowhere in this build), the
  widths other than 512 bits, and `network_stack` itself, which is not in the repository.
* `crc32` and the Toeplitz hash: functions of the data that no control depends on.
* Wiring of vendor cores (QDMA, CMAC, system configuration, CMS), address maps, boxes and
  plug-ins: no state, or state behind the register files above.
* Test benches, scripts, constraints, `ram`, `uram512`, `launcher`: not part of the design.

## Part 6. Running

```
tlc -workers 2 -config RRArbiter.cfg RRArbiter.tla     # and likewise for each run
tlapm RRArbiterProofs.tla                              # and each *Proofs.tla
```

Each run ends within three minutes on two workers.  Modules with theorems:
`RRArbiterProofs`, `QdmaC2HProofs`, `FunctionsProofs`, `ProcessStackProofs`, `StorageProofs`,
`PacketBufferProofs` (lemmas only), `MCBuffersProofs`, `NetworkProofs`.
