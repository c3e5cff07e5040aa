--------------------------- MODULE ProcessStackProofs ---------------------------
(***************************************************************************)
(* The two ways through process_stack, for every set of keys, boxes and    *)
(* lengths, and the two buffers its models, and others, use as queues.     *)
(*                                                                         *)
(* A lookup never passes another one: the places from the parser of the    *)
(* peers to the reply are a line, and how many lookups have come to each   *)
(* place says which of them it holds.  The words of the values stand in a  *)
(* line of their own, from bram_storage to lkp_rep_parser.sv, and that the *)
(* two lines keep step is what makes a reply show the value of its key.    *)
(*                                                                         *)
(* From the request of an update to the hash table the card never waits,   *)
(* so that a request's age in cycles tells where its parts are; the words  *)
(* of a value may still be on their way when its request is acknowledged.  *)
(***************************************************************************)
EXTENDS MCProcessStack, SequenceTheorems, TLAPS

-----------------------------------------------------------------------------
(* Lookups.  An answer as the table gives it: the pointer of a hit is a box.  *)

Asker == Keys \ {None}
Address == LupPointers \cup {NoPointer}
Answer == {a \in [key : Asker, hit : BOOLEAN, pointer : Address] : a.hit <=> a.pointer # NoPointer}
\* What the card is sent for it: a miss may come with the address of a box.
SentAnswer ==
    {a \in [key : Asker, hit : BOOLEAN, pointer : Address] : a.hit => a.pointer # NoPointer}
\* A word of a value, with the length of the value.
ValueLengths == {Length[p] : p \in LupPointers}
MemoryWord == [len : ValueLengths, part : LupPointers \X Nat]

\* The reply, or the part of it, that lkp_rep_parser.sv is at.
Busy == reply.state # "ST_IDLE" \/ reply.tvalid
HasResult == split.result_valid
HasAnswer == lupHash.answer # None
HasRequest == lupHash.request # None
HasKey == lupParser.key_valid

\* How many lookups, from the oldest on, have come to each place or passed it.
One(b) == IF b THEN 1 ELSE 0
ToReply == One(Busy)
ToSplit == ToReply + One(HasResult)
ToAnswers == ToSplit + Len(fifo_lup_rsp)
ToServed == ToAnswers + One(HasAnswer)
ToTable == ToServed + One(HasRequest)
ToPeers == ToTable + Len(fifo_peer_request)
ToParser == ToPeers + One(HasKey)
All == ToParser + One(offered # None)

ReplyFields == DOMAIN Lup!ReplyReset
SplitFields == DOMAIN Lup!SplitReset
LupParserFields == DOMAIN ParserReset

LookupTypes ==
    /\ asked \in Seq([key : Asker, answer : Answer \cup {None}])
    /\ fifo_lup_rsp \in Seq(SentAnswer) /\ fifo_peer_request \in Seq(Asker)
    /\ lupHash \in [request : Asker \cup {None}, answer : SentAnswer \cup {None}]
    /\ lupTable \in [Keys -> Address] /\ strayed \in BOOLEAN
    /\ DOMAIN lupParser = LupParserFields
    /\ lupParser.key_valid \in BOOLEAN
    /\ DOMAIN split = SplitFields
    /\ split.result_valid \in BOOLEAN /\ split.addr_valid \in BOOLEAN
    /\ split.addr_valid => split.addr \in Address
    /\ DOMAIN reply = ReplyFields
    /\ reply.state \in {"ST_IDLE", "ST_WAIT_FIRST", "ST_SEND"} /\ reply.tvalid \in BOOLEAN
    /\ received \in Nat
    /\ slice \in Seq(MemoryWord)
    /\ bram \in Seq(MemoryWord)

\* The answer b to the lookup as the card is sent it: a.
Tells(a, b) == a.key = b.key /\ a.hit = b.hit /\ (~strayed => a = b)

\* Each place holds the lookup whose turn it is.
Line ==
    /\ Len(asked) = All /\ All <= MaxAsked
    /\ \A n \in 1..All : asked[n].answer # None <=> n <= ToServed
    /\ \A n \in 1..ToServed : asked[n].answer.key = asked[n].key
    /\ HasResult => /\ split.key = asked[ToSplit].answer.key
                    /\ split.hit = asked[ToSplit].answer.hit
    /\ \A n \in 1..Len(fifo_lup_rsp) : Tells(fifo_lup_rsp[n], asked[ToSplit + n].answer)
    /\ HasAnswer => Tells(lupHash.answer, asked[ToServed].answer)
    /\ HasRequest => lupHash.request = asked[ToTable].key
    /\ \A n \in 1..Len(fifo_peer_request) : fifo_peer_request[n] = asked[ToTable + n].key
    /\ HasKey => lupParser.key = asked[ToParser].key
    /\ offered # None => offered = Lup!Packet(asked[All].key)

\* The parser of the peers has at most one request in hand, and throws none away.
PeersParser ==
    /\ lupParser.state \in {"ST_IDLE", "ST_DATA_FETCH"} /\ ~lupParser.force_throw
    /\ lupParser.state = "ST_DATA_FETCH" =>
         offered # None /\ lupParser.inready /\ lupParser.opcode = 0

\* What the reply to this answer has come to.
Bytes(a) == 11 + Length[a.pointer]
BeatNumber == received + One(reply.tvalid)
LastBeat(a) == ((IF a.hit THEN Bytes(a) ELSE 11) + 63) \div 64
WordCount(p) == Len(Lup!Words(p))
ReplyAt(a) ==
    /\ a # None
    /\ reply.state = "ST_WAIT_FIRST" =>
         a.hit /\ ~reply.tvalid /\ received = 0 /\ reply.meta_key_r = a.key
    /\ reply.state = "ST_SEND" =>
         /\ a.hit /\ BeatNumber \in 1..(LastBeat(a) - 1)
         /\ reply.bytes_left = Bytes(a) - 64 * BeatNumber
         /\ reply.packet_buffer = <<a.pointer, BeatNumber>> /\ reply.size = Bytes(a)
    /\ reply.state = "ST_IDLE" => BeatNumber = LastBeat(a)
    /\ reply.tvalid => /\ BeatNumber \in DOMAIN Lup!ReplyTo(a)
                       /\ Lup!Shown = Lup!ReplyTo(a)[BeatNumber]
Replies == Busy => ReplyAt(asked[1].answer)

\* What does not depend on the words that the memory sends: where the registers are, and
\* what the reply begins with.
HeaderAt(a) ==
    /\ reply.state = "ST_WAIT_FIRST" =>
         a.hit /\ ~reply.tvalid /\ received = 0 /\ reply.meta_key_r = a.key
    /\ reply.state = "ST_SEND" =>
         /\ a.hit /\ (received # 0 \/ reply.tvalid) /\ reply.bytes_left \in Nat \ {0}
         /\ reply.tvalid => reply.tlast = FALSE
    /\ reply.state = "ST_IDLE" => reply.tvalid /\ reply.tlast = TRUE
    /\ a.hit /\ reply.tvalid /\ received = 0 =>
         \E len \in ValueLengths : reply.low = <<a.key, len, TRUE>>
    /\ ~a.hit => /\ received = 0 /\ reply.high = Nothing /\ reply.keep = 11 /\ reply.size = 11
                 /\ reply.low = <<a.key, 0, FALSE>>
Headers ==
    /\ Busy => HeaderAt(asked[1].answer)
    /\ ~Busy => received = 0

\* The words between the memory and the reply are the rest of the value that
\* is being sent, and the value of the answer behind it.
Ahead == slice \o bram \o (IF split.addr_valid THEN Lup!Words(split.addr) ELSE <<>>)
WordsTaken == IF reply.state = "ST_WAIT_FIRST" THEN 0 ELSE BeatNumber
RestWords ==
    IF reply.state = "ST_IDLE" THEN <<>>
    ELSE SubSeq(Lup!Words(asked[1].answer.pointer), WordsTaken + 1,
                WordCount(asked[1].answer.pointer))
NextWords == IF HasResult THEN Lup!Words(asked[ToSplit].answer.pointer) ELSE <<>>
WordsInOrder == Ahead = RestWords \o NextWords

LookupInv ==
    LookupTypes /\ Line /\ PeersParser /\ Headers /\ (~strayed => Replies /\ WordsInOrder)

-----------------------------------------------------------------------------
(* Operators *)

LEMMA AnswersAreSome ==
  /\ \A a \in Answer \cup SentAnswer : a # None
  /\ \A v \in MemoryWord : v # None
<1>1. DOMAIN None = {"none"}
  BY DEF None
<1>2. ASSUME NEW a \in Answer \cup SentAnswer PROVE a # None
  <2>1. DOMAIN a = {"key", "hit", "pointer"}
    BY DEF Answer, SentAnswer
  <2>2. QED
    BY <1>1, <2>1
<1>3. ASSUME NEW v \in MemoryWord PROVE v # None
  <2>1. DOMAIN v = {"len", "part"}
    BY DEF MemoryWord
  <2>2. QED
    BY <1>1, <2>1
<1>4. QED
  BY <1>2, <1>3

\* What leaves and enters a queue in one cycle.
Moved(q, take, valid, data) == Lup!Rest(q, take) \o Lup!Put(valid, data)
Gone(q, take) == One(take /\ q # <<>>)

LEMMA QueueMoves ==
  ASSUME NEW S, NEW q \in Seq(S), NEW take, NEW valid, NEW data, valid => data \in S
  PROVE  /\ Moved(q, take, valid, data) \in Seq(S)
         /\ Gone(q, take) \in {0, 1} /\ Gone(q, take) <= Len(q)
         /\ Len(Moved(q, take, valid, data)) = Len(q) - Gone(q, take) + One(valid)
         /\ \A n \in 1..(Len(q) - Gone(q, take)) :
              Moved(q, take, valid, data)[n] = q[n + Gone(q, take)]
         /\ valid => Moved(q, take, valid, data)[Len(Moved(q, take, valid, data))] = data
<1>1. PICK new, d : new = Lup!Rest(q, take) \o Lup!Put(valid, data) /\ d = One(take /\ q # <<>>)
  OBVIOUS
<1> SUFFICES /\ new \in Seq(S)
             /\ d \in {0, 1} /\ d <= Len(q)
             /\ Len(new) = Len(q) - d + One(valid)
             /\ \A n \in 1..(Len(q) - d) : new[n] = q[n + d]
             /\ valid => new[Len(new)] = data
  BY <1>1 DEF Moved, Gone
<1>2. PICK left : left = Lup!Rest(q, take)
  OBVIOUS
<1>3. /\ left \in Seq(S) /\ Len(left) = Len(q) - d /\ d \in {0, 1} /\ d <= Len(q)
      /\ \A n \in 1..(Len(q) - d) : left[n] = q[n + d]
  <2>1. CASE take /\ q # <<>>
    <3>1. left = Tail(q) /\ d = 1
      BY <1>1, <1>2, <2>1 DEF Lup!Rest, One
    <3>2. QED
      BY <2>1, <3>1, HeadTailProperties
  <2>2. CASE ~(take /\ q # <<>>)
    <3>1. left = q /\ d = 0
      BY <1>1, <1>2, <2>2 DEF Lup!Rest, One
    <3>2. QED
      BY <3>1, LenProperties
  <2>3. QED
    BY <2>1, <2>2
<1>4. CASE valid
  <2>1. new = left \o <<data>> /\ One(valid) = 1
    BY <1>1, <1>2, <1>4 DEF Lup!Put, One
  <2>2. data \in S
    BY <1>4
  <2>3. new = Append(left, data)
    BY <1>3, <2>1, <2>2, AppendIsConcat
  <2>4. PICK m : m = Len(left) /\ m \in Nat
    BY <1>3
  <2>5. /\ new \in Seq(S) /\ Len(new) = m + 1
        /\ \A n \in 1..m : new[n] = left[n]
        /\ new[m + 1] = data
    BY <1>3, <2>2, <2>3, <2>4, AppendProperties
  <2>6. new[Len(new)] = data
    BY <2>5
  <2>7. PICK k : k = Len(q) /\ k \in Nat
    OBVIOUS
  <2>8. Len(new) = k - d + 1 /\ m = k - d
    BY <1>3, <2>4, <2>5, <2>7
  <2>9. QED
    BY <1>3, <2>1, <2>4, <2>5, <2>6, <2>7, <2>8
<1>5. CASE ~valid
  <2>1. new = left \o <<>> /\ One(valid) = 0
    BY <1>1, <1>2, <1>5 DEF Lup!Put, One
  <2>2. QED
    BY <1>3, <1>5, <2>1
<1>6. QED
  BY <1>4, <1>5

LEMMA LengthsAreNat ==
  ValueLengths \subseteq Nat
BY LookupAssumption DEF ValueLengths, Lup!LookupPathAssumption

\* The words of a value.
LEMMA WordsOfBox ==
  ASSUME NEW p \in Address
  PROVE  /\ Lup!Words(p) \in Seq(MemoryWord)
         /\ WordCount(p) \in Nat
         /\ p = NoPointer => Lup!Words(p) = <<>> /\ WordCount(p) = 0
         /\ p # NoPointer =>
              /\ Length[p] \in Nat \ {0} /\ WordCount(p) \in Nat \ {0}
              /\ 64 * (WordCount(p) - 1) < Length[p] /\ Length[p] <= 64 * WordCount(p)
              /\ WordCount(p) = (Length[p] + 63) \div 64
              /\ \A n \in 1..WordCount(p) :
                   Lup!Words(p)[n] = [len |-> Length[p], part |-> <<p, n>>]
<1>1. CASE p = NoPointer
  <2>1. Lup!Words(p) = <<>>
    BY <1>1 DEF Lup!Words
  <2>2. QED
    BY <1>1, <2>1 DEF WordCount
<1>2. CASE p # NoPointer
  <2>1. p \in LupPointers /\ Length[p] \in Nat \ {0}
    BY <1>2, LookupAssumption DEF Address, Lup!LookupPathAssumption
  <2>2. PICK len, n : len = Length[p] /\ n = (Length[p] + 63) \div 64
    OBVIOUS
  <2>3. n \in Nat \ {0} /\ 64 * (n - 1) < len /\ len <= 64 * n /\ len \in Nat
    BY <2>1, <2>2
  <2>4. Lup!Words(p) = [k \in 1..n |-> [len |-> len, part |-> <<p, k>>]]
    BY <1>2, <2>2 DEF Lup!Words
  <2>5. Lup!Words(p) \in Seq(MemoryWord) /\ Len(Lup!Words(p)) = n
    <3>1. len \in ValueLengths
      BY <2>1, <2>2 DEF ValueLengths
    <3>2. ASSUME NEW k \in 1..n PROVE [len |-> len, part |-> <<p, k>>] \in MemoryWord
      BY <2>1, <2>3, <3>1 DEF MemoryWord
    <3>3. QED
      BY <2>3, <2>4, <3>2
  <2>6. QED
    BY <1>2, <2>1, <2>2, <2>3, <2>4, <2>5 DEF WordCount
<1>3. QED
  BY <1>1, <1>2

-----------------------------------------------------------------------------
(* lkp_rep_parser.sv: what one cycle makes of its registers.                *)

OutFree(tready) == ~reply.tvalid \/ tready
Word == Head(slice)

LEMMA MetaAndWord ==
  ASSUME LookupTypes
  PROVE  /\ HasResult => /\ Lup!Meta = [key |-> split.key, hit |-> split.hit]
                         /\ Lup!Meta # Lup!None
         /\ ~HasResult => Lup!Meta = Lup!None
         /\ slice # <<>> => /\ Lup!First(slice) = Word /\ Lup!First(slice) # Lup!None
                            /\ Word \in MemoryWord
         /\ slice = <<>> => Lup!First(slice) = Lup!None
<1>1. [key |-> split.key, hit |-> split.hit] # Lup!None
  <2>1. DOMAIN [key |-> split.key, hit |-> split.hit] = {"key", "hit"}
    OBVIOUS
  <2>2. DOMAIN Lup!None = {"none"}
    BY DEF Lup!None
  <2>3. QED
    BY <2>1, <2>2
<1>2. ASSUME slice # <<>>
      PROVE  Word \in MemoryWord /\ Word # Lup!None
  <2>1. Word \in MemoryWord
    BY <1>2, HeadTailProperties DEF LookupTypes, Word
  <2>2. Word # None
    BY <2>1, AnswersAreSome
  <2>3. Lup!None = None
    BY DEF Lup!None, None
  <2>4. QED
    BY <2>1, <2>2, <2>3
<1>3. QED
  BY <1>1, <1>2 DEF HasResult, Lup!Meta, Lup!First, Word

LEMMA ReplyWaits ==
  ASSUME LookupTypes, NEW tready \in BOOLEAN, Lup!ReplyClock(tready), ~OutFree(tready)
  PROVE  /\ DOMAIN reply' = ReplyFields
         /\ reply'.tvalid = TRUE /\ reply'.tlast = FALSE
         /\ reply'.state = reply.state /\ reply'.meta_key_r = reply.meta_key_r
         /\ reply'.packet_buffer = reply.packet_buffer /\ reply'.bytes_left = reply.bytes_left
         /\ reply'.low = reply.low /\ reply'.high = reply.high /\ reply'.keep = reply.keep
         /\ reply'.size = reply.size
<1>1. reply' = [reply EXCEPT !.tvalid = @ /\ ~tready, !.tlast = FALSE]
  BY DEF Lup!ReplyClock, Lup!ReplyStep, Lup!OutFree, OutFree
<1>2. DOMAIN reply = {"state", "meta_key_r", "packet_buffer", "bytes_left", "tvalid", "low",
                      "high", "keep", "tlast", "size"}
  BY DEF LookupTypes, ReplyFields, Lup!ReplyReset
<1>3. (reply.tvalid /\ ~tready) = TRUE
  BY DEF OutFree, LookupTypes
<1>4. QED
  BY <1>1, <1>2, <1>3 DEF LookupTypes

LEMMA ReplyFrees ==
  ASSUME LookupTypes, NEW tready \in BOOLEAN, Lup!ReplyClock(tready), OutFree(tready),
         NEW q, q = [reply EXCEPT !.tvalid = FALSE, !.tlast = FALSE]
  PROVE  /\ DOMAIN q = ReplyFields
         /\ q.tvalid = FALSE /\ q.tlast = FALSE
         /\ q.state = reply.state /\ q.meta_key_r = reply.meta_key_r
         /\ q.packet_buffer = reply.packet_buffer /\ q.bytes_left = reply.bytes_left
         /\ q.low = reply.low /\ q.high = reply.high /\ q.keep = reply.keep
         /\ q.size = reply.size
         /\ reply.state = "ST_IDLE" =>
              reply' = IF HasResult THEN Lup!TakeMeta(q, Lup!Meta) ELSE q
         /\ reply.state = "ST_WAIT_FIRST" =>
              reply' = IF slice # <<>> THEN Lup!FirstBeat(q, Word) ELSE q
         /\ reply.state = "ST_SEND" =>
              reply' = IF reply.bytes_left = 0 THEN [q EXCEPT !.state = "ST_IDLE"]
                       ELSE IF ~Lup!NeedsWord(reply.bytes_left) THEN Lup!RestOfWord(q)
                       ELSE IF slice # <<>> THEN Lup!NextBeatOf(q, Word) ELSE q
<1>1. DOMAIN reply = {"state", "meta_key_r", "packet_buffer", "bytes_left", "tvalid", "low",
                      "high", "keep", "tlast", "size"}
  BY DEF LookupTypes, ReplyFields, Lup!ReplyReset
<1>2. (reply.tvalid /\ ~tready) = FALSE
  BY DEF OutFree, LookupTypes
<1>3. q = [reply EXCEPT !.tvalid = @ /\ ~tready, !.tlast = FALSE]
  BY <1>2
<1>4. /\ DOMAIN q = ReplyFields
      /\ q.tvalid = FALSE /\ q.tlast = FALSE
      /\ q.state = reply.state /\ q.meta_key_r = reply.meta_key_r
      /\ q.packet_buffer = reply.packet_buffer /\ q.bytes_left = reply.bytes_left
      /\ q.low = reply.low /\ q.high = reply.high /\ q.keep = reply.keep
      /\ q.size = reply.size
  BY <1>1 DEF LookupTypes
<1>5. Lup!OutFree(reply, tready)
  BY DEF Lup!OutFree, OutFree
<1>6. reply' = CASE reply.state = "ST_IDLE" ->
                      IF Lup!Meta # Lup!None THEN Lup!TakeMeta(q, Lup!Meta) ELSE q
                 [] reply.state = "ST_WAIT_FIRST" ->
                      IF Lup!First(slice) # Lup!None THEN Lup!FirstBeat(q, Lup!First(slice)) ELSE q
                 [] reply.state = "ST_SEND" -> Lup!SendStep(q, Lup!First(slice))
  BY <1>3, <1>5 DEF Lup!ReplyClock, Lup!ReplyStep
<1>7. reply.state = "ST_IDLE" => reply' = IF HasResult THEN Lup!TakeMeta(q, Lup!Meta) ELSE q
  BY <1>6, MetaAndWord
<1>8. reply.state = "ST_WAIT_FIRST" =>
        reply' = IF slice # <<>> THEN Lup!FirstBeat(q, Word) ELSE q
  BY <1>6, MetaAndWord
<1>9. reply.state = "ST_SEND" => reply' = Lup!SendStep(q, Lup!First(slice))
  BY <1>6
<1>10. Lup!SendStep(q, Lup!First(slice)) =
         IF reply.bytes_left = 0 THEN [q EXCEPT !.state = "ST_IDLE"]
         ELSE IF ~Lup!NeedsWord(reply.bytes_left) THEN Lup!RestOfWord(q)
         ELSE IF slice # <<>> THEN Lup!NextBeatOf(q, Word) ELSE q
  BY <1>4, MetaAndWord DEF Lup!SendStep
<1>11. QED
  BY <1>4, <1>7, <1>8, <1>9, <1>10

LEMMA ReplyFromIdle ==
  ASSUME LookupTypes, NEW tready \in BOOLEAN, Lup!ReplyClock(tready), OutFree(tready),
         reply.state = "ST_IDLE"
  PROVE  /\ DOMAIN reply' = ReplyFields
         /\ ~HasResult => reply'.state = "ST_IDLE" /\ reply'.tvalid = FALSE
         /\ HasResult /\ split.hit =>
              /\ reply'.state = "ST_WAIT_FIRST" /\ reply'.tvalid = FALSE
              /\ reply'.meta_key_r = split.key
         /\ HasResult /\ ~split.hit =>
              /\ reply'.state = "ST_IDLE" /\ reply'.tvalid = TRUE /\ reply'.tlast = TRUE
              /\ reply'.low = <<split.key, 0, FALSE>> /\ reply'.high = Nothing
              /\ reply'.keep = 11 /\ reply'.size = 11
<1>1. PICK q : q = [reply EXCEPT !.tvalid = FALSE, !.tlast = FALSE]
  OBVIOUS
<1>2. /\ DOMAIN q = {"state", "meta_key_r", "packet_buffer", "bytes_left", "tvalid", "low",
                     "high", "keep", "tlast", "size"}
      /\ q.tvalid = FALSE /\ q.state = "ST_IDLE"
  BY <1>1, ReplyFrees DEF ReplyFields, Lup!ReplyReset
<1>3. reply' = IF HasResult THEN Lup!TakeMeta(q, Lup!Meta) ELSE q
  BY <1>1, ReplyFrees
<1>4. DOMAIN q = ReplyFields
  BY <1>2 DEF ReplyFields, Lup!ReplyReset
<1>5. ASSUME HasResult
      PROVE  \E m : m.key = split.key /\ m.hit = split.hit /\ reply' = Lup!TakeMeta(q, m)
  BY <1>3, <1>5, MetaAndWord
<1>6. CASE ~HasResult
  BY <1>2, <1>3, <1>4, <1>6
<1>7. CASE HasResult /\ split.hit
  <2>1. PICK m : m.key = split.key /\ m.hit = split.hit /\ reply' = Lup!TakeMeta(q, m)
    BY <1>7, <1>5
  <2>2. reply' = [q EXCEPT !.meta_key_r = split.key, !.state = "ST_WAIT_FIRST"]
    BY <1>7, <2>1 DEF Lup!TakeMeta
  <2>3. QED
    BY <1>2, <1>4, <1>7, <2>2
<1>8. CASE HasResult /\ ~split.hit
  <2>1. PICK m : m.key = split.key /\ m.hit = split.hit /\ reply' = Lup!TakeMeta(q, m)
    BY <1>8, <1>5
  <2>2. reply' = [Lup!Show(q, <<split.key, 0, FALSE>>, Nothing, 11, TRUE)
                    EXCEPT !.meta_key_r = split.key, !.size = 11]
    BY <1>8, <2>1
    DEF Lup!TakeMeta, Lup!header, Lup!HEADER_BYTES, Lup!Nothing, Nothing
  <2>3. PICK s : s = Lup!Show(q, <<split.key, 0, FALSE>>, Nothing, 11, TRUE)
    OBVIOUS
  <2>4. s = [q EXCEPT !.tvalid = TRUE, !.low = <<split.key, 0, FALSE>>, !.high = Nothing,
                      !.keep = 11, !.tlast = TRUE, !.state = "ST_IDLE"]
    BY <2>3 DEF Lup!Show
  <2>5. /\ DOMAIN s = DOMAIN q /\ s.tvalid = TRUE /\ s.low = <<split.key, 0, FALSE>>
        /\ s.high = Nothing /\ s.keep = 11 /\ s.tlast = TRUE /\ s.state = "ST_IDLE"
    BY <1>2, <2>4
  <2>6. reply' = [s EXCEPT !.meta_key_r = split.key, !.size = 11]
    BY <2>2, <2>3
  <2>7. QED
    BY <1>2, <1>4, <1>8, <2>5, <2>6
<1>9. QED
  BY <1>6, <1>7, <1>8

LEMMA ReplyFromWait ==
  ASSUME LookupTypes, NEW tready \in BOOLEAN, Lup!ReplyClock(tready), OutFree(tready),
         reply.state = "ST_WAIT_FIRST"
  PROVE  /\ DOMAIN reply' = ReplyFields
         /\ slice = <<>> => /\ reply'.state = "ST_WAIT_FIRST" /\ reply'.tvalid = FALSE
                            /\ reply'.meta_key_r = reply.meta_key_r
         /\ slice # <<>> =>
              /\ reply'.tvalid = TRUE
              /\ 11 + Word.len <= 64 => reply'.tlast = TRUE
              /\ 11 + Word.len > 64 => reply'.tlast = FALSE
              /\ reply'.state = IF 11 + Word.len <= 64 THEN "ST_IDLE" ELSE "ST_SEND"
              /\ reply'.low = <<reply.meta_key_r, Word.len, TRUE>> /\ reply'.high = Word.part
              /\ reply'.keep = IF 11 + Word.len <= 64 THEN 11 + Word.len ELSE 64
              /\ reply'.size = 11 + Word.len /\ reply'.packet_buffer = Word.part
              /\ reply'.bytes_left = IF 11 + Word.len > 64 THEN 11 + Word.len - 64 ELSE 0
<1>1. PICK q : q = [reply EXCEPT !.tvalid = FALSE, !.tlast = FALSE]
  OBVIOUS
<1>2. /\ DOMAIN q = ReplyFields
      /\ q.tvalid = FALSE /\ q.state = "ST_WAIT_FIRST" /\ q.meta_key_r = reply.meta_key_r
      /\ reply' = IF slice # <<>> THEN Lup!FirstBeat(q, Word) ELSE q
  BY <1>1, ReplyFrees
<1>3. CASE slice = <<>>
  BY <1>2, <1>3
<1>4. CASE slice # <<>>
  <2>1. PICK len, word : len = Word.len /\ len \in Nat /\ word = Word.part
    BY <1>4, MetaAndWord, LengthsAreNat DEF MemoryWord
  <2>2. PICK last : last = (11 + len <= 64)
    OBVIOUS
  <2>3. /\ last \in BOOLEAN
        /\ 11 + len <= 64 => last = TRUE
        /\ ~(11 + len <= 64) => last = FALSE
    <3>1. CASE 11 + len <= 64
      <4>1. (11 + len <= 64) = TRUE
        BY <3>1
      <4>2. last = TRUE
        BY <2>2, <4>1, Zenon
      <4>3. QED
        BY <3>1, <4>2
    <3>2. CASE ~(11 + len <= 64)
      <4>1. (11 + len <= 64) = FALSE
        BY <3>2
      <4>2. last = FALSE
        BY <2>2, <4>1, Zenon
      <4>3. QED
        BY <3>2, <4>2
    <3>3. QED
      BY <3>1, <3>2
  <2>4. PICK s : s = Lup!Show(q, <<q.meta_key_r, len, TRUE>>, word, Lup!Capped(11 + len), last)
    OBVIOUS
  <2>5. reply' = [s EXCEPT !.size = 11 + len, !.packet_buffer = word,
                           !.bytes_left = IF 11 + len > 64 THEN len - (64 - 11) ELSE 0]
    BY <1>2, <1>4, <2>1, <2>2, <2>4 DEF Lup!FirstBeat, Lup!header, Lup!HEADER_BYTES
  <2>6. /\ DOMAIN s = {"state", "meta_key_r", "packet_buffer", "bytes_left", "tvalid", "low",
                       "high", "keep", "tlast", "size"}
        /\ s.tvalid = TRUE /\ s.low = <<q.meta_key_r, len, TRUE>> /\ s.high = word
        /\ s.keep = Lup!Capped(11 + len) /\ s.tlast = last
        /\ s.state = IF last THEN "ST_IDLE" ELSE "ST_SEND"
    <3>1. PICK state : state = IF last THEN "ST_IDLE" ELSE "ST_SEND"
      OBVIOUS
    <3>2. PICK low, keep : low = <<q.meta_key_r, len, TRUE>> /\ keep = Lup!Capped(11 + len)
      OBVIOUS
    <3>3. s = [q EXCEPT !.tvalid = TRUE, !.low = low, !.high = word, !.keep = keep,
                        !.tlast = last, !.state = state]
      BY <2>4, <3>1, <3>2 DEF Lup!Show
    <3>4. DOMAIN q = {"state", "meta_key_r", "packet_buffer", "bytes_left", "tvalid", "low",
                      "high", "keep", "tlast", "size"}
      BY <1>2 DEF ReplyFields, Lup!ReplyReset
    <3>5. QED
      BY <3>1, <3>2, <3>3, <3>4
  <2>7. Lup!Capped(11 + len) = IF 11 + len <= 64 THEN 11 + len ELSE 64
    BY <2>1 DEF Lup!Capped
  <2>8. /\ DOMAIN reply' = DOMAIN s /\ reply'.tvalid = s.tvalid /\ reply'.tlast = s.tlast
        /\ reply'.state = s.state /\ reply'.low = s.low /\ reply'.high = s.high
        /\ reply'.keep = s.keep /\ reply'.size = 11 + len /\ reply'.packet_buffer = word
        /\ reply'.bytes_left = IF 11 + len > 64 THEN len - (64 - 11) ELSE 0
    BY <2>5, <2>6
  <2>9. reply'.bytes_left = IF 11 + len > 64 THEN 11 + len - 64 ELSE 0
    BY <2>1, <2>8
  <2>10. DOMAIN s = ReplyFields
    BY <2>6 DEF ReplyFields, Lup!ReplyReset
  <2>11. QED
    <3>1. 11 + len > 64 <=> ~(11 + len <= 64)
      BY <2>1
    <3>2. reply'.state = IF 11 + len <= 64 THEN "ST_IDLE" ELSE "ST_SEND"
      BY <2>6, <2>8, <2>3
    <3>3. /\ reply'.tvalid = TRUE /\ reply'.tlast = last
          /\ reply'.low = <<reply.meta_key_r, len, TRUE>> /\ reply'.high = word
          /\ reply'.size = 11 + len /\ reply'.packet_buffer = word
          /\ DOMAIN reply' = ReplyFields
      BY <1>2, <2>6, <2>8, <2>10
    <3>4. reply'.keep = IF 11 + len <= 64 THEN 11 + len ELSE 64
      BY <2>6, <2>7, <2>8
    <3>5. QED
      BY <1>4, <2>1, <2>9, <2>3, <3>1, <3>2, <3>3, <3>4
<1>5. QED
  BY <1>3, <1>4

LEMMA ReplyFromSend ==
  ASSUME LookupTypes, NEW tready \in BOOLEAN, Lup!ReplyClock(tready), OutFree(tready),
         reply.state = "ST_SEND", NEW left \in Nat \ {0}, reply.bytes_left = left
  PROVE  /\ DOMAIN reply' = ReplyFields /\ reply'.size = reply.size
         /\ left <= 11 =>
              /\ reply'.state = "ST_IDLE" /\ reply'.tvalid = TRUE /\ reply'.tlast = TRUE
              /\ reply'.low = reply.packet_buffer /\ reply'.high = Nothing
              /\ reply'.keep = left
         /\ left > 11 /\ slice = <<>> =>
              /\ reply'.state = "ST_SEND" /\ reply'.tvalid = FALSE
              /\ reply'.packet_buffer = reply.packet_buffer /\ reply'.bytes_left = left
         /\ left > 11 /\ slice # <<>> =>
              /\ reply'.tvalid = TRUE
              /\ (left <= 64 => reply'.tlast = TRUE) /\ (left > 64 => reply'.tlast = FALSE)
              /\ reply'.state = IF left <= 64 THEN "ST_IDLE" ELSE "ST_SEND"
              /\ reply'.low = reply.packet_buffer /\ reply'.high = Word.part
              /\ reply'.keep = IF left <= 64 THEN left ELSE 64
              /\ reply'.packet_buffer = Word.part
              /\ reply'.bytes_left = left - IF left <= 64 THEN left ELSE 64
<1>1. PICK q : q = [reply EXCEPT !.tvalid = FALSE, !.tlast = FALSE]
  OBVIOUS
<1>2. /\ DOMAIN q = ReplyFields
      /\ q.tvalid = FALSE /\ q.state = "ST_SEND" /\ q.packet_buffer = reply.packet_buffer
      /\ q.bytes_left = left /\ q.size = reply.size
      /\ reply' = IF reply.bytes_left = 0 THEN [q EXCEPT !.state = "ST_IDLE"]
                  ELSE IF ~Lup!NeedsWord(reply.bytes_left) THEN Lup!RestOfWord(q)
                  ELSE IF slice # <<>> THEN Lup!NextBeatOf(q, Word) ELSE q
  BY <1>1, ReplyFrees
<1>3. Lup!NeedsWord(reply.bytes_left) <=> left > 11
  BY DEF Lup!NeedsWord, Lup!HEADER_BYTES
<1>4. CASE left > 11 /\ slice = <<>>
  BY <1>2, <1>3, <1>4
<1>5. CASE left <= 11
  <2>1. reply' = [Lup!Show(q, q.packet_buffer, Nothing, left, TRUE) EXCEPT !.bytes_left = 0]
    BY <1>2, <1>3, <1>5 DEF Lup!RestOfWord, Lup!Nothing, Nothing
  <2>2. PICK s : s = Lup!Show(q, q.packet_buffer, Nothing, left, TRUE)
    OBVIOUS
  <2>3. /\ DOMAIN s = {"state", "meta_key_r", "packet_buffer", "bytes_left", "tvalid", "low",
                       "high", "keep", "tlast", "size"}
        /\ s.tvalid = TRUE /\ s.low = q.packet_buffer /\ s.high = Nothing
        /\ s.keep = left /\ s.tlast = TRUE /\ s.state = "ST_IDLE" /\ s.size = q.size
    <3>1. PICK state : state = IF TRUE THEN "ST_IDLE" ELSE "ST_SEND"
      OBVIOUS
    <3>2. PICK low, keep : low = q.packet_buffer /\ keep = left
      OBVIOUS
    <3>3. s = [q EXCEPT !.tvalid = TRUE, !.low = low, !.high = Nothing, !.keep = keep,
                        !.tlast = TRUE, !.state = state]
      BY <2>2, <3>1, <3>2 DEF Lup!Show
    <3>4. DOMAIN q = {"state", "meta_key_r", "packet_buffer", "bytes_left", "tvalid", "low",
                      "high", "keep", "tlast", "size"}
      BY <1>2 DEF ReplyFields, Lup!ReplyReset
    <3>5. QED
      BY <3>1, <3>2, <3>3, <3>4
  <2>4. DOMAIN s = ReplyFields
    BY <2>3 DEF ReplyFields, Lup!ReplyReset
  <2>5. reply' = [s EXCEPT !.bytes_left = 0]
    BY <2>1, <2>2
  <2>6. QED
    BY <1>2, <1>5, <2>3, <2>4, <2>5
<1>6. CASE left > 11 /\ slice # <<>>
  <2>1. PICK word : word = Word.part
    OBVIOUS
  <2>2. PICK last : last = (left <= 64)
    OBVIOUS
  <2>3. /\ last \in BOOLEAN
        /\ left <= 64 => last = TRUE
        /\ ~(left <= 64) => last = FALSE
    <3>1. CASE left <= 64
      <4>1. (left <= 64) = TRUE
        BY <3>1
      <4>2. last = TRUE
        BY <2>2, <4>1, Zenon
      <4>3. QED
        BY <3>1, <4>2
    <3>2. CASE ~(left <= 64)
      <4>1. (left <= 64) = FALSE
        BY <3>2
      <4>2. last = FALSE
        BY <2>2, <4>1, Zenon
      <4>3. QED
        BY <3>2, <4>2
    <3>3. QED
      BY <3>1, <3>2
  <2>4. PICK s : s = Lup!Show(q, q.packet_buffer, word, Lup!Capped(left), last)
    OBVIOUS
  <2>5. reply' = [s EXCEPT !.bytes_left = left - Lup!Capped(left), !.packet_buffer = word]
    BY <1>2, <1>3, <1>6, <2>1, <2>2, <2>4 DEF Lup!NextBeatOf
  <2>6. /\ DOMAIN s = {"state", "meta_key_r", "packet_buffer", "bytes_left", "tvalid", "low",
                       "high", "keep", "tlast", "size"}
        /\ s.tvalid = TRUE /\ s.low = q.packet_buffer /\ s.high = word
        /\ s.keep = Lup!Capped(left) /\ s.tlast = last
        /\ s.state = IF last THEN "ST_IDLE" ELSE "ST_SEND"
        /\ s.size = q.size
    <3>1. PICK state : state = IF last THEN "ST_IDLE" ELSE "ST_SEND"
      OBVIOUS
    <3>2. PICK low, keep : low = q.packet_buffer /\ keep = Lup!Capped(left)
      OBVIOUS
    <3>3. s = [q EXCEPT !.tvalid = TRUE, !.low = low, !.high = word, !.keep = keep,
                        !.tlast = last, !.state = state]
      BY <2>4, <3>1, <3>2 DEF Lup!Show
    <3>4. DOMAIN q = {"state", "meta_key_r", "packet_buffer", "bytes_left", "tvalid", "low",
                      "high", "keep", "tlast", "size"}
      BY <1>2 DEF ReplyFields, Lup!ReplyReset
    <3>5. QED
      BY <3>1, <3>2, <3>3, <3>4
  <2>7. Lup!Capped(left) = IF left <= 64 THEN left ELSE 64
    BY DEF Lup!Capped
  <2>8. /\ DOMAIN reply' = DOMAIN s /\ reply'.tvalid = s.tvalid /\ reply'.tlast = s.tlast
        /\ reply'.state = s.state /\ reply'.low = s.low /\ reply'.high = s.high
        /\ reply'.keep = s.keep /\ reply'.size = s.size /\ reply'.packet_buffer = word
        /\ reply'.bytes_left = left - Lup!Capped(left)
    BY <2>5, <2>6
  <2>9. DOMAIN s = ReplyFields
    BY <2>6 DEF ReplyFields, Lup!ReplyReset
  <2>10. QED
    <3>1. /\ left > 64 <=> ~(left <= 64)
          /\ ~(left <= 11)
      BY <1>6
    <3>2. PICK keep : keep = IF left <= 64 THEN left ELSE 64
      OBVIOUS
    <3>3. /\ reply'.state = (IF last THEN "ST_IDLE" ELSE "ST_SEND") /\ reply'.tlast = last
          /\ reply'.keep = keep /\ reply'.bytes_left = left - keep
          /\ reply'.tvalid = TRUE /\ reply'.low = reply.packet_buffer /\ reply'.high = word
          /\ reply'.packet_buffer = word /\ reply'.size = reply.size
          /\ DOMAIN reply' = ReplyFields
      BY <1>2, <2>6, <2>7, <2>8, <2>9, <3>2
    <3>4. reply'.state = IF left <= 64 THEN "ST_IDLE" ELSE "ST_SEND"
      BY <2>3, <3>3
    <3>5. QED
      BY <1>6, <2>1, <2>3, <3>1, <3>2, <3>3, <3>4
<1>7. left <= 11 \/ left > 11
  OBVIOUS
<1>8. ~(left <= 11 /\ left > 11)
  OBVIOUS
<1>9. QED
  BY <1>4, <1>5, <1>6, <1>7, <1>8

-----------------------------------------------------------------------------
(* A cycle, and what moves from one place to the next in it.                *)

LookStep(key, now, tready, serve, works) ==
    /\ key \in {None} \cup (IF Lup!MayAsk THEN Keys ELSE {})
    /\ now \in Lup!Updated
    /\ tready \in BOOLEAN /\ serve \in BOOLEAN /\ works \in BOOLEAN
    /\ Lup!Clock(key, now, tready, serve, works)

Leaves(tready) == reply.tvalid /\ tready /\ reply.tlast
TakesMeta(tready) == HasResult /\ reply.state = "ST_IDLE" /\ OutFree(tready)
SplitTakes(tready, works) ==
    /\ fifo_lup_rsp # <<>>
    /\ ~HasResult \/ (reply.state = "ST_IDLE" /\ OutFree(tready))
    /\ ~split.addr_valid \/ (works /\ bram = <<>>)
StoresAnswer == HasAnswer /\ Len(fifo_lup_rsp) < FifoDepth
LookServes(serve) == serve /\ HasRequest /\ ~HasAnswer
LookReads == ~HasRequest /\ fifo_peer_request # <<>>
PeerTaken == lupParser.state = "ST_DATA_FETCH"
NewAnswer == Lup!AnswerTo(lupHash.request, lupTable[lupHash.request])

LEMMA LookSteps ==
  ASSUME Lup!Next
  PROVE  \E key, now, tready, serve, works : LookStep(key, now, tready, serve, works)
<1>1. Lup!None = None
  BY DEF Lup!None, None
<1>2. PICK key \in {Lup!None} \cup (IF Lup!MayAsk THEN Keys ELSE {}),
           now \in Lup!Updated,
           tready \in (IF reply.tvalid THEN BOOLEAN ELSE {TRUE}),
           serve \in (IF Lup!MayServe THEN BOOLEAN ELSE {TRUE}),
           works \in (IF bram # <<>> \/ split.addr_valid THEN BOOLEAN ELSE {TRUE}) :
             Lup!Clock(key, now, tready, serve, works)
  BY DEF Lup!Next
<1>3. tready \in BOOLEAN /\ serve \in BOOLEAN /\ works \in BOOLEAN
  OBVIOUS
<1>4. LookStep(key, now, tready, serve, works)
  BY <1>1, <1>2, <1>3 DEF LookStep
<1>5. QED
  BY <1>4

\* Numbers of what is there.
LEMMA PlaceCounts ==
  ASSUME LookupTypes
  PROVE  /\ ToReply \in {0, 1} /\ ToSplit \in ToReply..(ToReply + 1)
         /\ Len(fifo_lup_rsp) \in Nat /\ ToAnswers = ToSplit + Len(fifo_lup_rsp)
         /\ ToServed \in ToAnswers..(ToAnswers + 1) /\ ToTable \in ToServed..(ToServed + 1)
         /\ Len(fifo_peer_request) \in Nat /\ ToPeers = ToTable + Len(fifo_peer_request)
         /\ ToParser \in ToPeers..(ToPeers + 1) /\ All \in ToParser..(ToParser + 1)
<1>1. Len(fifo_lup_rsp) \in Nat /\ Len(fifo_peer_request) \in Nat
  BY DEF LookupTypes
<1>2. \A b : One(b) \in {0, 1}
  BY DEF One
<1>3. ToReply \in {0, 1}
  BY <1>2 DEF ToReply
<1>4. ToSplit \in ToReply..(ToReply + 1)
  BY <1>2, <1>3 DEF ToSplit
<1>5. ToAnswers = ToSplit + Len(fifo_lup_rsp) /\ ToAnswers \in Nat
  BY <1>1, <1>3, <1>4 DEF ToAnswers
<1>6. ToServed \in ToAnswers..(ToAnswers + 1)
  BY <1>2, <1>5 DEF ToServed
<1>7. ToTable \in ToServed..(ToServed + 1)
  BY <1>2, <1>5, <1>6 DEF ToTable
<1>8. ToPeers = ToTable + Len(fifo_peer_request) /\ ToPeers \in Nat
  BY <1>1, <1>5, <1>6, <1>7 DEF ToPeers
<1>9. ToParser \in ToPeers..(ToPeers + 1)
  BY <1>2, <1>8 DEF ToParser
<1>10. All \in ToParser..(ToParser + 1)
  BY <1>2, <1>8, <1>9 DEF All
<1>11. QED
  BY <1>1, <1>3, <1>4, <1>5, <1>6, <1>7, <1>8, <1>9, <1>10

LEMMA NewAnswerIsAnswer ==
  ASSUME LookupTypes, HasRequest
  PROVE  NewAnswer \in Answer /\ NewAnswer.key = lupHash.request
<1>1. PICK k : k = lupHash.request /\ k \in Asker
  BY DEF LookupTypes, HasRequest
<1>2. PICK p : p = lupTable[k] /\ p \in Address
  BY <1>1 DEF LookupTypes, Asker
<1>3. NewAnswer = [key |-> k, hit |-> p # NoPointer, pointer |-> p]
  BY <1>1, <1>2 DEF NewAnswer, Lup!AnswerTo, Lup!Hit
<1>4. PICK h \in BOOLEAN : h = (p # NoPointer)
  OBVIOUS
<1>5. NewAnswer = [key |-> k, hit |-> h, pointer |-> p]
  BY <1>3, <1>4
<1>6. QED
  BY <1>1, <1>2, <1>4, <1>5 DEF Answer

\* The list of the lookups under way: the first leaves, one is served, one is new.
StillAsked(serve, d) ==
    \A n \in 1..(All - d) :
        /\ asked'[n].key = asked[n + d].key
        /\ ~(LookServes(serve) /\ n + d = ToServed + 1) => asked'[n].answer = asked[n + d].answer
        /\ LookServes(serve) /\ n + d = ToServed + 1 => asked'[n].answer = NewAnswer

LEMMA AskedMoves ==
  ASSUME LookupTypes, Line, NEW key, NEW now, NEW tready, NEW serve, NEW works,
         LookStep(key, now, tready, serve, works),
         NEW d, d = One(Leaves(tready))
  PROVE  /\ d \in {0, 1} /\ d <= All
         /\ asked' \in Seq([key : Asker, answer : Answer \cup {None}])
         /\ Len(asked') = All - d + One(key # None)
         /\ StillAsked(serve, d)
         /\ key # None => asked'[Len(asked')] = [key |-> key, answer |-> None]
<1> DEFINE Lookup == [key : Asker, answer : Answer \cup {None}]
<1>1. Lup!None = None
  BY DEF Lup!None, None
<1>2. key # None => key \in Asker
  BY DEF LookStep, Asker
<1>3. PICK noted : noted = Lup!Noted(serve)
  OBVIOUS
<1>4. LookServes(serve) => \A n \in 1..All :
        (n \in Lup!Unserved /\ \A m \in Lup!Unserved : n <= m) <=> n = ToServed + 1
  <2>1. SUFFICES ASSUME LookServes(serve), NEW n \in 1..All
                 PROVE  (n \in Lup!Unserved /\ \A m \in Lup!Unserved : n <= m)
                        <=> n = ToServed + 1
    OBVIOUS
  <2>2. PICK s, a : s = ToServed /\ a = All /\ s \in Nat /\ a \in Nat
    <3>1. PICK rp, sp, an, sv, tb, pe, pa, al, la, lr :
            /\ rp = ToReply /\ sp = ToSplit /\ an = ToAnswers /\ sv = ToServed /\ tb = ToTable
            /\ pe = ToPeers /\ pa = ToParser /\ al = All
            /\ la = Len(fifo_lup_rsp) /\ lr = Len(fifo_peer_request)
      OBVIOUS
    <3>2. /\ rp \in {0, 1} /\ sp \in rp..(rp + 1) /\ la \in Nat /\ an = sp + la
          /\ sv \in an..(an + 1) /\ tb \in sv..(sv + 1) /\ lr \in Nat /\ pe = tb + lr
          /\ pa \in pe..(pe + 1) /\ al \in pa..(pa + 1)
      BY <3>1, PlaceCounts
    <3>3. sv \in Nat /\ al \in Nat
      BY <3>2
    <3>4. QED
      BY <3>1, <3>3
  <2>3. \A m : m \in Lup!Unserved <=> m \in 1..a /\ m > s
    BY <1>1, <2>2 DEF Lup!Unserved, Line
  <2>4. s + 1 <= a
    <3>1. ToTable = ToServed + 1
      BY <2>1 DEF LookServes, ToTable, One
    <3>2. QED
      BY <2>2, <3>1, PlaceCounts
  <2>5. QED
    BY <2>2, <2>3, <2>4
<1>5. Lup!Serves(serve) <=> LookServes(serve)
  BY <1>1 DEF Lup!Serves, LookServes, Lup!MayServe, HasRequest, HasAnswer
<1>6. /\ noted \in Seq(Lookup) /\ Len(noted) = All
      /\ \A n \in 1..All :
           /\ noted[n].key = asked[n].key
           /\ ~(LookServes(serve) /\ n = ToServed + 1) => noted[n].answer = asked[n].answer
           /\ LookServes(serve) /\ n = ToServed + 1 => noted[n].answer = NewAnswer
  <2>1. PICK a : a = All /\ a \in Nat /\ a = Len(asked)
    BY PlaceCounts DEF Line
  <2>2. \A n \in 1..a : asked[n] \in Lookup
    <3>1. asked \in Seq(Lookup)
      BY DEF LookupTypes
    <3>2. QED
      BY <2>1, <3>1, ElementOfSeq
  <2>3. noted = [n \in 1..a |->
                   IF Lup!Serves(serve) /\ n \in Lup!Unserved /\ \A m \in Lup!Unserved : n <= m
                   THEN [asked[n] EXCEPT !.answer = NewAnswer] ELSE asked[n]]
    BY <1>3, <2>1 DEF Lup!Noted, NewAnswer
  <2>4. noted = [n \in 1..a |-> IF LookServes(serve) /\ n = ToServed + 1
                                THEN [asked[n] EXCEPT !.answer = NewAnswer] ELSE asked[n]]
    BY <1>4, <1>5, <2>1, <2>3
  <2>5. LookServes(serve) => NewAnswer \in Answer
    BY NewAnswerIsAnswer DEF LookServes
  <2>6. ASSUME NEW n \in 1..a
        PROVE  /\ noted[n] \in Lookup
               /\ noted[n].key = asked[n].key
               /\ ~(LookServes(serve) /\ n = ToServed + 1) => noted[n].answer = asked[n].answer
               /\ LookServes(serve) /\ n = ToServed + 1 => noted[n].answer = NewAnswer
    <3>1. PICK l : l = asked[n] /\ l \in Lookup
      BY <2>2
    <3>2. CASE LookServes(serve) /\ n = ToServed + 1
      <4>1. noted[n] = [l EXCEPT !.answer = NewAnswer]
        BY <2>4, <3>1, <3>2
      <4>2. QED
        BY <2>5, <3>1, <3>2, <4>1
    <3>3. CASE ~(LookServes(serve) /\ n = ToServed + 1)
      <4>1. noted[n] = l
        BY <2>4, <3>1, <3>3
      <4>2. QED
        BY <3>1, <3>3, <4>1
    <3>4. QED
      BY <3>2, <3>3
  <2>7. noted \in Seq(Lookup) /\ Len(noted) = a
    BY <2>1, <2>4, <2>6
  <2>8. QED
    BY <2>1, <2>6, <2>7
<1>7. asked' = Lup!Rest(noted, Leaves(tready))
               \o Lup!Put(key # None, [key |-> key, answer |-> None])
  BY <1>1, <1>3 DEF LookStep, Lup!Clock, Lup!PeerStep, Lup!Answered, Lup!ReplyLeaves, Leaves,
                    Lup!Put, Lup!AskedWith
<1>8. Leaves(tready) => noted # <<>>
  <2>1. Leaves(tready) => ToReply = 1
    BY DEF Leaves, ToReply, One, Busy
  <2>2. Leaves(tready) => All >= 1
    BY <2>1, PlaceCounts
  <2>3. QED
    BY <1>6, <2>2
<1>9. d = One(Leaves(tready) /\ noted # <<>>)
  BY <1>8 DEF One
<1>10. PICK take : take = Leaves(tready)
  OBVIOUS
<1>11. PICK valid : valid = (key # None)
  OBVIOUS
<1>12. PICK data : data = [key |-> key, answer |-> None]
  OBVIOUS
<1>13. valid => data \in Lookup
  BY <1>2, <1>11, <1>12
<1> HIDE DEF Lookup
<1>14. /\ asked' \in Seq(Lookup) /\ d <= Len(noted)
       /\ Len(asked') = Len(noted) - d + One(valid)
       /\ \A n \in 1..(Len(noted) - d) : asked'[n] = noted[n + d]
       /\ valid => asked'[Len(asked')] = data
  <2>1. asked' = Moved(noted, take, valid, data) /\ d = Gone(noted, take)
    BY <1>7, <1>9, <1>10, <1>11, <1>12 DEF Moved, Gone
  <2>2. noted \in Seq(Lookup)
    BY <1>6
  <2>3. QED
    BY <1>13, <2>1, <2>2, QueueMoves
<1>15. d \in {0, 1}
  BY DEF One
<1>16. ASSUME NEW n \in 1..(All - d)
       PROVE  n + d \in 1..All /\ asked'[n] = noted[n + d]
  <2>1. PICK a : a = All /\ a \in Nat
    BY PlaceCounts
  <2>2. QED
    BY <1>6, <1>14, <1>15, <2>1
<1>17. ASSUME NEW n \in 1..(All - d)
       PROVE  /\ asked'[n].key = asked[n + d].key
              /\ ~(LookServes(serve) /\ n + d = ToServed + 1) =>
                   asked'[n].answer = asked[n + d].answer
              /\ LookServes(serve) /\ n + d = ToServed + 1 => asked'[n].answer = NewAnswer
  <2>1. PICK m : m = n + d /\ m \in 1..All /\ asked'[n] = noted[m]
    BY <1>16
  <2>2. QED
    BY <1>6, <2>1
<1>18. d <= All /\ Len(asked') = All - d + One(key # None)
  BY <1>6, <1>11, <1>14
<1>19. key # None => asked'[Len(asked')] = [key |-> key, answer |-> None]
  BY <1>11, <1>12, <1>14
<1>20. asked' \in Seq([key : Asker, answer : Answer \cup {None}])
  BY <1>14 DEF Lookup
<1>21. StillAsked(serve, d)
  BY <1>17 DEF StillAsked
<1>22. QED
  BY <1>15, <1>18, <1>19, <1>20, <1>21

\* While lookups are few the peers' FIFO has room.
LEMMA RoomForKeys ==
  ASSUME LookupTypes, Line, HasKey \/ offered # None
  PROVE  Len(fifo_peer_request) < FifoDepth
<1>1. PICK n, d, t, p, a, m : /\ n = Len(fifo_peer_request) /\ d = FifoDepth /\ t = ToTable
                              /\ p = ToPeers /\ a = All /\ m = MaxAsked
  OBVIOUS
<1>2. /\ n \in Nat /\ t \in Nat /\ p = t + n /\ a \in Nat /\ d \in Nat /\ m \in 1..d /\ a <= m
  BY <1>1, PlaceCounts, LookupAssumption DEF Line, Lup!LookupPathAssumption
<1>3. a >= p + 1
  <2>1. CASE HasKey
    <3>1. ToParser = ToPeers + 1
      BY <2>1 DEF ToParser, One
    <3>2. QED
      BY <1>1, <3>1, PlaceCounts
  <2>2. CASE offered # None
    <3>1. All = ToParser + 1
      BY <2>2 DEF All, One
    <3>2. QED
      BY <1>1, <3>1, PlaceCounts
  <2>3. QED
    BY <2>1, <2>2
<1>4. QED
  BY <1>1, <1>2, <1>3

LEMMA SameOne ==
  ASSUME NEW a, NEW b, a <=> b
  PROVE  One(a) = One(b)
BY DEF One

\* The two FIFOs.
LEMMA AnswersMove ==
  ASSUME LookupTypes, NEW key, NEW now, NEW tready, NEW serve, NEW works,
         LookStep(key, now, tready, serve, works),
         NEW p, p = One(SplitTakes(tready, works))
  PROVE  /\ fifo_lup_rsp' \in Seq(SentAnswer)
         /\ p \in {0, 1} /\ p <= Len(fifo_lup_rsp)
         /\ Len(fifo_lup_rsp') = Len(fifo_lup_rsp) - p + One(StoresAnswer)
         /\ \A n \in 1..(Len(fifo_lup_rsp) - p) : fifo_lup_rsp'[n] = fifo_lup_rsp[n + p]
         /\ StoresAnswer => fifo_lup_rsp'[Len(fifo_lup_rsp')] = lupHash.answer
<1>1. Lup!None = None
  BY DEF Lup!None, None
<1>2. PICK take, valid, data :
        /\ take = Lup!rsp_ready(tready, works) /\ data = lupHash.answer
        /\ valid = (lupHash.answer # Lup!None /\ Lup!lup_res_ready)
  OBVIOUS
<1>3. fifo_lup_rsp' = Moved(fifo_lup_rsp, take, valid, data)
  BY <1>2 DEF LookStep, Lup!Clock, Lup!FifoClock, Moved
<1>4. valid <=> StoresAnswer
  BY <1>1, <1>2 DEF StoresAnswer, HasAnswer, Lup!lup_res_ready
<1>5. StoresAnswer => data \in SentAnswer
  BY <1>2 DEF StoresAnswer, HasAnswer, LookupTypes
<1>6. (take /\ fifo_lup_rsp # <<>>) <=> SplitTakes(tready, works)
  BY <1>2 DEF SplitTakes, HasResult, OutFree, Lup!rsp_ready, Lup!s_axis_lup_rsp_ready,
              Lup!meta_ready, Lup!addr_ready, Lup!s_axis_meta_ready, Lup!OutFree
<1>7. Gone(fifo_lup_rsp, take) = p
  BY <1>6 DEF Gone, One
<1>8. One(valid) = One(StoresAnswer)
  BY <1>4 DEF One
<1>9. fifo_lup_rsp \in Seq(SentAnswer)
  BY DEF LookupTypes
<1>10. valid => data \in SentAnswer
  BY <1>4, <1>5
<1>11. /\ Moved(fifo_lup_rsp, take, valid, data) \in Seq(SentAnswer)
       /\ p \in {0, 1} /\ p <= Len(fifo_lup_rsp)
       /\ Len(Moved(fifo_lup_rsp, take, valid, data)) = Len(fifo_lup_rsp) - p + One(valid)
       /\ \A n \in 1..(Len(fifo_lup_rsp) - p) :
            Moved(fifo_lup_rsp, take, valid, data)[n] = fifo_lup_rsp[n + p]
       /\ valid => Moved(fifo_lup_rsp, take, valid, data)
                     [Len(Moved(fifo_lup_rsp, take, valid, data))] = data
  BY <1>7, <1>9, <1>10, QueueMoves
<1>12. QED
  BY <1>2, <1>3, <1>4, <1>8, <1>11

LEMMA RequestsMove ==
  ASSUME LookupTypes, Line, NEW key, NEW now, NEW tready, NEW serve, NEW works,
         LookStep(key, now, tready, serve, works),
         HasKey => lupParser.key \in Asker,
         NEW p, p = One(LookReads)
  PROVE  /\ fifo_peer_request' \in Seq(Asker)
         /\ p \in {0, 1} /\ p <= Len(fifo_peer_request)
         /\ Len(fifo_peer_request') = Len(fifo_peer_request) - p + One(HasKey)
         /\ \A n \in 1..(Len(fifo_peer_request) - p) :
              fifo_peer_request'[n] = fifo_peer_request[n + p]
         /\ HasKey => fifo_peer_request'[Len(fifo_peer_request')] = lupParser.key
<1>1. Lup!None = None
  BY DEF Lup!None, None
<1>2. PICK take, valid, data :
        /\ take = Lup!lup_req_ready /\ data = lupParser.key
        /\ valid = (lupParser.key_valid /\ Lup!key_ready)
  OBVIOUS
<1>3. fifo_peer_request' = Moved(fifo_peer_request, take, valid, data)
  BY <1>2 DEF LookStep, Lup!Clock, Lup!FifoClock, Moved
<1>4. valid <=> HasKey
  BY <1>2, RoomForKeys DEF HasKey, Lup!key_ready
<1>5. (take /\ fifo_peer_request # <<>>) <=> LookReads
  BY <1>1, <1>2 DEF LookReads, HasRequest, Lup!lup_req_ready
<1>6. Gone(fifo_peer_request, take) = p
  BY <1>5 DEF Gone, One
<1>7. One(valid) = One(HasKey)
  BY <1>4 DEF One
<1>8. fifo_peer_request \in Seq(Asker)
  BY DEF LookupTypes
<1>9. valid => data \in Asker
  BY <1>2, <1>4
<1>10. /\ Moved(fifo_peer_request, take, valid, data) \in Seq(Asker)
       /\ p \in {0, 1} /\ p <= Len(fifo_peer_request)
       /\ Len(Moved(fifo_peer_request, take, valid, data))
            = Len(fifo_peer_request) - p + One(valid)
       /\ \A n \in 1..(Len(fifo_peer_request) - p) :
            Moved(fifo_peer_request, take, valid, data)[n] = fifo_peer_request[n + p]
       /\ valid => Moved(fifo_peer_request, take, valid, data)
                     [Len(Moved(fifo_peer_request, take, valid, data))] = data
  <2>1. PICK q, S : q = fifo_peer_request /\ S = Asker /\ q \in Seq(S) /\ (valid => data \in S)
    BY <1>8, <1>9
  <2>2. QED
    BY <1>6, <2>1, QueueMoves
<1>11. QED
  BY <1>2, <1>3, <1>4, <1>7, <1>10

LEMMA TableMoves ==
  ASSUME LookupTypes, NEW key, NEW now, NEW tready, NEW serve, NEW works,
         LookStep(key, now, tready, serve, works)
  PROVE  /\ lupHash' \in [request : Asker \cup {None}, answer : SentAnswer \cup {None}]
         /\ HasRequest' <=> LookReads \/ (HasRequest /\ ~LookServes(serve))
         /\ LookReads => lupHash'.request = Head(fifo_peer_request)
         /\ HasRequest /\ ~LookServes(serve) => lupHash'.request = lupHash.request
         /\ HasAnswer' <=> LookServes(serve) \/ (HasAnswer /\ ~StoresAnswer)
         /\ LookServes(serve) => /\ lupHash'.answer.key = NewAnswer.key
                                 /\ lupHash'.answer.hit = NewAnswer.hit
                                 /\ ~strayed' => lupHash'.answer = NewAnswer
         /\ HasAnswer /\ ~StoresAnswer => lupHash'.answer = lupHash.answer
         /\ lupTable' \in [Keys -> Address]
         /\ strayed' \in BOOLEAN /\ (strayed => strayed')
<1>1. Lup!None = None
  BY DEF Lup!None, None
<1>2. Lup!Serves(serve) <=> LookServes(serve)
  BY <1>1 DEF Lup!Serves, LookServes, Lup!MayServe, HasRequest, HasAnswer
<1>3. Lup!HashClock(serve, now)
  BY DEF LookStep, Lup!Clock
<1>4. fifo_peer_request # <<>> =>
        Head(fifo_peer_request) \in Asker /\ Head(fifo_peer_request) # None
  BY HeadTailProperties DEF LookupTypes, Asker
<1>5. CASE Lup!ServeLookup(serve)
  <2>1. LookServes(serve)
    BY <1>2, <1>5 DEF Lup!ServeLookup
  <2>2. PICK k : k = lupHash.request /\ k \in Asker
    BY <2>1 DEF LookServes, HasRequest, LookupTypes
  <2>3. PICK p : p = lupTable[k] /\ p \in Address
    BY <2>2 DEF LookupTypes, Asker
  <2>4. PICK pointer \in IF Lup!Hit(lupHash.request) THEN {lupTable[lupHash.request]}
                                                     ELSE MissAddresses :
          /\ lupHash' = [request |-> Lup!None, answer |-> Lup!AnswerTo(lupHash.request, pointer)]
          /\ strayed' = (strayed \/ Lup!Astray(lupHash.request, pointer))
    BY <1>5 DEF Lup!ServeLookup
  <2>5. PICK h \in BOOLEAN : h = (p # NoPointer)
    OBVIOUS
  <2>6. PICK sent : /\ sent = [key |-> k, hit |-> h, pointer |-> pointer]
                    /\ lupHash' = [request |-> None, answer |-> sent]
    BY <1>1, <2>2, <2>3, <2>4, <2>5 DEF Lup!AnswerTo, Lup!Hit
  <2>7. pointer \in Address /\ (h => pointer = p)
    BY <2>2, <2>3, <2>4, <2>5, LookupAssumption DEF Lup!Hit, Address, Lup!LookupPathAssumption
  <2>8. sent \in SentAnswer /\ sent # None
    <3>1. sent \in SentAnswer
      BY <2>2, <2>5, <2>6, <2>7 DEF SentAnswer
    <3>2. QED
      BY <3>1, AnswersAreSome
  <2>9. NewAnswer = [key |-> k, hit |-> h, pointer |-> p]
    BY <2>2, <2>3, <2>5 DEF NewAnswer, Lup!AnswerTo, Lup!Hit
  <2>10. ~strayed' => pointer = p
    BY <2>2, <2>3, <2>4, <2>5, <2>7 DEF Lup!Astray, Lup!Hit
  <2>11. /\ sent.key = NewAnswer.key /\ sent.hit = NewAnswer.hit
         /\ ~strayed' => sent = NewAnswer
    BY <2>6, <2>9, <2>10
  <2>12. strayed' \in BOOLEAN /\ (strayed => strayed')
    BY <2>4
  <2>13. ~LookReads /\ ~StoresAnswer
    BY <2>1 DEF LookServes, LookReads, StoresAnswer
  <2>14. lupTable' = lupTable
    BY <1>5 DEF Lup!ServeLookup
  <2>15. ~HasRequest' /\ HasAnswer'
    BY <2>6, <2>8 DEF HasRequest, HasAnswer
  <2>16. lupHash' \in [request : Asker \cup {None}, answer : SentAnswer \cup {None}]
         /\ lupHash'.answer = sent
    BY <2>6, <2>8
  <2>17. ~HasAnswer
    BY <2>1 DEF LookServes
  <2>18. lupTable' \in [Keys -> Address]
    BY <2>14 DEF LookupTypes
  <2>19. /\ lupHash'.answer.key = NewAnswer.key /\ lupHash'.answer.hit = NewAnswer.hit
         /\ ~strayed' => lupHash'.answer = NewAnswer
    BY <2>11, <2>16
  <2>20. QED
    BY <2>1, <2>13, <2>15, <2>16, <2>17, <2>18, <2>12, <2>19
<1>6. CASE Lup!ReadLookup(serve, now)
  <2>1. ~LookServes(serve)
    BY <1>2, <1>6 DEF Lup!ReadLookup
  <2>2. PICK req, ans :
          /\ req = (IF Lup!lup_req_ready THEN Lup!First(fifo_peer_request)
                                         ELSE lupHash.request)
          /\ ans = (IF Lup!lup_res_ready THEN Lup!None ELSE lupHash.answer)
    OBVIOUS
  <2>3. lupHash' = [request |-> req, answer |-> ans]
    BY <1>6, <2>2 DEF Lup!ReadLookup
  <2>4. lupHash.request \in Asker \cup {None} /\ lupHash.answer \in SentAnswer \cup {None}
    BY DEF LookupTypes
  <2>5. /\ req \in Asker \cup {None}
        /\ LookReads => req = Head(fifo_peer_request) /\ req # None
        /\ HasRequest => req = lupHash.request
        /\ ~LookReads /\ ~HasRequest => req = None
    BY <1>1, <1>4, <2>2, <2>4 DEF LookReads, HasRequest, Lup!lup_req_ready, Lup!First
  <2>6. /\ ans \in SentAnswer \cup {None}
        /\ HasAnswer /\ ~StoresAnswer => ans = lupHash.answer
        /\ ~HasAnswer \/ StoresAnswer => ans = None
    BY <1>1, <2>2, <2>4 DEF StoresAnswer, HasAnswer, Lup!lup_res_ready
  <2>7. lupTable' \in [Keys -> Address]
    <3>1. now = lupTable \/ now \in Lup!Tables
      BY DEF LookStep, Lup!Updated
    <3>2. lupTable' = now
      BY <1>6 DEF Lup!ReadLookup
    <3>3. QED
      BY <3>1, <3>2 DEF LookupTypes, Lup!Tables, Address
  <2>8. lupHash' \in [request : Asker \cup {None}, answer : SentAnswer \cup {None}]
        /\ lupHash'.request = req /\ lupHash'.answer = ans
    BY <2>3, <2>5, <2>6
  <2>9. /\ HasRequest' <=> req # None
        /\ HasAnswer' <=> ans # None
    BY <2>8 DEF HasRequest, HasAnswer
  <2>10. HasRequest <=> lupHash.request # None
    BY DEF HasRequest
  <2>11. HasAnswer <=> lupHash.answer # None
    BY DEF HasAnswer
  <2>12. HasRequest' <=> LookReads \/ HasRequest
    BY <2>5, <2>9, <2>10
  <2>13. HasAnswer' <=> HasAnswer /\ ~StoresAnswer
    BY <2>6, <2>9, <2>11
  <2>14. strayed' = strayed
    BY <1>6 DEF Lup!ReadLookup
  <2>15. QED
    BY <2>1, <2>5, <2>6, <2>7, <2>8, <2>12, <2>13, <2>14 DEF LookupTypes
<1>7. QED
  BY <1>3, <1>5, <1>6 DEF Lup!HashClock

\* hb_lup_rep_parser.sv.
AddressTaken(works) == split.addr_valid /\ works /\ bram = <<>>

LEMMA SplitMoves ==
  ASSUME LookupTypes, NEW key, NEW now, NEW tready, NEW serve, NEW works,
         LookStep(key, now, tready, serve, works)
  PROVE  /\ DOMAIN split' = SplitFields
         /\ split'.result_valid \in BOOLEAN /\ split'.addr_valid \in BOOLEAN
         /\ HasResult' <=> SplitTakes(tready, works) \/ (HasResult /\ ~TakesMeta(tready))
         /\ SplitTakes(tready, works) =>
              /\ split'.key = Head(fifo_lup_rsp).key /\ split'.hit = Head(fifo_lup_rsp).hit
              /\ split'.addr = Head(fifo_lup_rsp).pointer /\ split'.addr_valid = TRUE
         /\ ~SplitTakes(tready, works) =>
              /\ split'.key = split.key /\ split'.hit = split.hit /\ split'.addr = split.addr
              /\ split'.addr_valid <=> split.addr_valid /\ ~AddressTaken(works)
<1>1. Lup!None = None
  BY DEF Lup!None, None
<1>2. DOMAIN split = {"key", "hit", "result_valid", "addr", "addr_valid"}
  BY DEF LookupTypes, SplitFields, Lup!SplitReset
<1>3. PICK a, m, r : /\ a = Lup!First(fifo_lup_rsp)
                     /\ m = Lup!meta_ready(tready) /\ r = Lup!addr_ready(works)
  OBVIOUS
<1>4. split' = IF a # None /\ Lup!s_axis_lup_rsp_ready(split, m, r)
               THEN [key |-> a.key, hit |-> a.hit, result_valid |-> TRUE,
                     addr |-> a.pointer, addr_valid |-> TRUE]
               ELSE [split EXCEPT !.result_valid = @ /\ ~m, !.addr_valid = @ /\ ~r]
  BY <1>1, <1>3 DEF LookStep, Lup!Clock, Lup!SplitClock, Lup!SplitStep, Lup!SplitHandshakes
<1>5. /\ a # None <=> fifo_lup_rsp # <<>>
      /\ fifo_lup_rsp # <<>> => a = Head(fifo_lup_rsp)
  <2>1. fifo_lup_rsp # <<>> => Head(fifo_lup_rsp) \in SentAnswer
    BY HeadTailProperties DEF LookupTypes
  <2>2. QED
    BY <1>1, <1>3, <2>1, AnswersAreSome DEF Lup!First
<1>6. /\ m <=> reply.state = "ST_IDLE" /\ OutFree(tready)
      /\ r <=> works /\ bram = <<>>
  BY <1>3 DEF OutFree, Lup!meta_ready, Lup!addr_ready, Lup!s_axis_meta_ready, Lup!OutFree
<1>7. a # None /\ Lup!s_axis_lup_rsp_ready(split, m, r) <=> SplitTakes(tready, works)
  BY <1>5, <1>6 DEF SplitTakes, HasResult, Lup!s_axis_lup_rsp_ready
<1>8. CASE SplitTakes(tready, works)
  <2>1. split' = [key |-> a.key, hit |-> a.hit, result_valid |-> TRUE,
                  addr |-> a.pointer, addr_valid |-> TRUE]
    BY <1>4, <1>7, <1>8
  <2>2. a = Head(fifo_lup_rsp)
    BY <1>5, <1>8 DEF SplitTakes
  <2>3. DOMAIN split' = {"key", "hit", "result_valid", "addr", "addr_valid"}
    BY <2>1
  <2>4. DOMAIN split' = SplitFields
    BY <2>3 DEF SplitFields, Lup!SplitReset
  <2>5. QED
    BY <1>8, <2>1, <2>2, <2>4 DEF HasResult
<1>9. CASE ~SplitTakes(tready, works)
  <2>1. split' = [split EXCEPT !.result_valid = @ /\ ~m, !.addr_valid = @ /\ ~r]
    BY <1>4, <1>7, <1>9
  <2>2. PICK v \in BOOLEAN, w \in BOOLEAN : /\ v = (split.result_valid /\ ~m)
                                            /\ w = (split.addr_valid /\ ~r)
    OBVIOUS
  <2>3. split' = [split EXCEPT !.result_valid = v, !.addr_valid = w]
    BY <2>1, <2>2
  <2>4. /\ DOMAIN split' = DOMAIN split /\ split'.result_valid = v /\ split'.addr_valid = w
        /\ split'.key = split.key /\ split'.hit = split.hit /\ split'.addr = split.addr
    BY <1>2, <2>3
  <2>5. HasResult' <=> HasResult /\ ~TakesMeta(tready)
    BY <1>6, <2>2, <2>4 DEF HasResult, TakesMeta
  <2>6. split'.addr_valid <=> split.addr_valid /\ ~AddressTaken(works)
    BY <1>6, <2>2, <2>4 DEF AddressTaken
  <2>7. QED
    BY <1>9, <2>2, <2>4, <2>5, <2>6 DEF LookupTypes
<1>10. QED
  BY <1>8, <1>9

\* request_parser.sv with the peers' packets, which have one beat and no value.
LEMMA PeersMove ==
  ASSUME LookupTypes, Line, PeersParser, NEW key, NEW now, NEW tready, NEW serve, NEW works,
         LookStep(key, now, tready, serve, works)
  PROVE  /\ PeersParser'
         /\ DOMAIN lupParser' = LupParserFields /\ lupParser'.key_valid \in BOOLEAN
         /\ HasKey' <=> PeerTaken
         /\ PeerTaken => offered # None /\ lupParser'.key = asked[All].key
         /\ offered' = IF key # None THEN Lup!Packet(key) ELSE IF PeerTaken THEN None ELSE offered
         /\ key # None => key \in Asker /\ All < MaxAsked /\ (offered = None \/ PeerTaken)
<1>1. Lup!None = None
  BY DEF Lup!None, None
<1>2. DOMAIN lupParser = {"state", "opcode", "inready", "force_throw", "throw_length_left",
         "value_data_buf", "value_last_buf", "key", "key_valid", "meta", "meta_valid", "value",
         "value_valid", "malloc_valid"}
  BY DEF LookupTypes, LupParserFields, ParserReset
<1>3. PICK b : b = offered
  OBVIOUS
<1>4. PICK r : r = Lup!parser_ready
  OBVIOUS
<1>5. r.meta = TRUE /\ r.value = TRUE /\ r.malloc = TRUE
  BY <1>4 DEF Lup!parser_ready
<1>6. HasKey \/ b # None => r.key = TRUE
  <2>1. r.key = (Len(fifo_peer_request) < FifoDepth)
    BY <1>4 DEF Lup!parser_ready, Lup!key_ready
  <2>2. HasKey \/ b # None => Len(fifo_peer_request) < FifoDepth
    BY <1>3, RoomForKeys
  <2>3. QED
    BY <2>1, <2>2
<1>7. b # None => b = Lup!Packet(asked[All].key)
  BY <1>3 DEF Line
<1>8. b # None => b.head.op = 0 /\ b.head.key = asked[All].key
  BY <1>7 DEF Lup!Packet
<1>9. Lup!Taken <=> PeerTaken
  <2>1. Lup!Taken <=> b # None /\ lupParser.state # "ST_IDLE"
                        /\ \/ lupParser.inready /\ r.meta /\ r.key /\ r.value
                           \/ lupParser.force_throw
    BY <1>1, <1>3, <1>4
    DEF Lup!Taken, Lup!Accepts, Lup!s_axis_tready, Lup!outready
  <2>2. QED
    BY <1>3, <1>5, <1>6, <2>1 DEF PeersParser, PeerTaken
<1>10. PICK q : q = Lup!Handshakes(lupParser, r)
  OBVIOUS
<1>11. /\ DOMAIN q = DOMAIN lupParser /\ q.state = lupParser.state /\ q.opcode = lupParser.opcode
       /\ q.inready = lupParser.inready /\ q.force_throw = lupParser.force_throw
       /\ q.key = lupParser.key /\ q.key_valid = FALSE
  <2>1. PICK m, a, k, v : q = [lupParser EXCEPT !.meta_valid = m, !.malloc_valid = a,
                                                !.key_valid = k, !.value_valid = v]
                          /\ k = (lupParser.key_valid /\ ~r.key)
    BY <1>10 DEF Lup!Handshakes
  <2>2. k = FALSE
    BY <1>6, <2>1 DEF HasKey
  <2>3. QED
    BY <1>2, <2>1, <2>2
<1>12. lupParser' = Lup!ParserStep(lupParser, b, r)
  BY <1>3, <1>4 DEF LookStep, Lup!Clock, Lup!ParserClock
<1>13. CASE lupParser.state = "ST_IDLE" /\ b = None
  <2>1. lupParser' = q
    BY <1>1, <1>10, <1>12, <1>13 DEF Lup!ParserStep, Lup!ParserIdle
  <2>2. ~PeerTaken /\ ~HasKey'
    BY <1>11, <1>13, <2>1 DEF PeerTaken, HasKey
  <2>3. QED
    BY <1>1, <1>3, <1>9, <1>11, <1>13, <2>1, <2>2
    DEF PeersParser, LookupTypes, LookStep, Lup!Clock, Lup!PeerStep, Lup!MayAsk, Line, Asker
<1>14. CASE lupParser.state = "ST_IDLE" /\ b # None
  <2>1. Lup!readyfornew(r)
    BY <1>5, <1>6, <1>14 DEF Lup!readyfornew, Lup!outready
  <2>2. lupParser' = [q EXCEPT !.opcode = b.head.op, !.inready = TRUE, !.value_last_buf = FALSE,
                               !.state = "ST_DATA_FETCH"]
    BY <1>1, <1>10, <1>12, <1>14, <2>1 DEF Lup!ParserStep, Lup!ParserIdle
  <2>3. /\ DOMAIN lupParser' = DOMAIN lupParser /\ lupParser'.state = "ST_DATA_FETCH"
        /\ lupParser'.inready = TRUE /\ lupParser'.opcode = 0
        /\ lupParser'.force_throw = lupParser.force_throw /\ lupParser'.key_valid = FALSE
    BY <1>2, <1>8, <1>11, <1>14, <2>2
  <2>4. ~PeerTaken /\ ~HasKey'
    BY <1>14, <2>3 DEF PeerTaken, HasKey
  <2>5. key = None
    BY <1>1, <1>3, <1>9, <1>14, <2>4 DEF LookStep, Lup!MayAsk
  <2>6. offered' = offered
    BY <1>1, <1>9, <2>4, <2>5 DEF LookStep, Lup!Clock, Lup!PeerStep
  <2>7. QED
    BY <1>3, <1>14, <2>3, <2>4, <2>5, <2>6 DEF PeersParser, LookupTypes
<1>15. CASE lupParser.state = "ST_DATA_FETCH"
  <2>1. b # None /\ Lup!Accepts(lupParser, b, r)
    <3>1. Lup!Taken /\ b # None
      BY <1>3, <1>9, <1>15 DEF PeerTaken, PeersParser
    <3>2. QED
      BY <1>3, <1>4, <3>1 DEF Lup!Taken
  <2>2. lupParser' = Lup!DataFetch(q, b)
    BY <1>10, <1>12, <1>15, <2>1 DEF Lup!ParserStep
  <2>3. PICK m, a : lupParser' = [[q EXCEPT !.meta = m, !.meta_valid = TRUE, !.malloc_valid = a,
                                            !.key = b.head.key, !.key_valid = TRUE]
                                    EXCEPT !.state = "ST_IDLE"]
    <3>1. PICK m, a : /\ m = [op |-> q.opcode, len |-> b.head.len] /\ a = (q.opcode = 1)
      OBVIOUS
    <3>2. PICK p : p = [q EXCEPT !.meta = m, !.meta_valid = TRUE, !.malloc_valid = a,
                                 !.key = b.head.key, !.key_valid = TRUE]
      OBVIOUS
    <3>3. ~Lup!HasValue(q)
      BY <1>11, <1>15 DEF Lup!HasValue, PeersParser
    <3>4. lupParser' = [p EXCEPT !.state = "ST_IDLE"]
      BY <2>2, <3>1, <3>2, <3>3 DEF Lup!DataFetch
    <3>5. QED
      BY <3>2, <3>4
  <2>4. /\ DOMAIN lupParser' = DOMAIN lupParser /\ lupParser'.state = "ST_IDLE"
        /\ lupParser'.force_throw = lupParser.force_throw /\ lupParser'.key_valid = TRUE
        /\ lupParser'.key = asked[All].key
    BY <1>2, <1>8, <1>11, <2>1, <2>3
  <2>5. PeerTaken /\ HasKey'
    BY <1>15, <2>4 DEF PeerTaken, HasKey
  <2>6. QED
    BY <1>1, <1>3, <1>9, <2>1, <2>4, <2>5
    DEF PeersParser, LookupTypes, LookStep, Lup!Clock, Lup!PeerStep, Lup!MayAsk, Line, Asker
<1>16. QED
  BY <1>3, <1>13, <1>14, <1>15 DEF PeersParser

-----------------------------------------------------------------------------
(* The reply.                                                               *)

Size(a) == IF a.hit THEN Bytes(a) ELSE 11
LowOf(a, n) ==
    IF n = 1 THEN <<a.key, IF a.hit THEN Length[a.pointer] ELSE 0, a.hit>> ELSE <<a.pointer, n - 1>>
HighOf(a, n) == IF n <= WordCount(a.pointer) THEN <<a.pointer, n>> ELSE Nothing
KeepOf(a, n) == IF n = LastBeat(a) THEN Size(a) - 64 * (LastBeat(a) - 1) ELSE 64

LEMMA ReplySizes ==
  ASSUME NEW a \in Answer
  PROVE  /\ LastBeat(a) \in Nat \ {0} /\ Size(a) \in Nat
         /\ 64 * (LastBeat(a) - 1) < Size(a) /\ Size(a) <= 64 * LastBeat(a)
         /\ WordCount(a.pointer) \in Nat
         /\ WordCount(a.pointer) <= LastBeat(a) /\ LastBeat(a) <= WordCount(a.pointer) + 1
         /\ a.hit => /\ Size(a) = Bytes(a) /\ Bytes(a) = 11 + Length[a.pointer]
                     /\ Length[a.pointer] \in Nat \ {0} /\ WordCount(a.pointer) # 0
                     /\ a.pointer # NoPointer
                     /\ 64 * (WordCount(a.pointer) - 1) < Length[a.pointer]
                     /\ Length[a.pointer] <= 64 * WordCount(a.pointer)
         /\ ~a.hit => Size(a) = 11 /\ LastBeat(a) = 1 /\ a.pointer = NoPointer
                      /\ WordCount(a.pointer) = 0
<1>1. PICK p : p = a.pointer /\ p \in Address /\ (a.hit <=> p # NoPointer)
  BY DEF Answer
<1>2. CASE a.hit
  <2>1. PICK len, n, s, b : /\ len = Length[p] /\ n = WordCount(p) /\ s = Size(a)
                            /\ b = LastBeat(a)
    OBVIOUS
  <2>2. /\ len \in Nat \ {0} /\ n \in Nat \ {0} /\ 64 * (n - 1) < len /\ len <= 64 * n
    BY <1>1, <1>2, <2>1, WordsOfBox
  <2>3. s = 11 + len /\ b = (s + 63) \div 64
    BY <1>1, <1>2, <2>1 DEF Size, Bytes, LastBeat
  <2>4. /\ b \in Nat \ {0} /\ 64 * (b - 1) < s /\ s <= 64 * b
    BY <2>2, <2>3
  <2>5. n <= b /\ b <= n + 1
    BY <2>2, <2>3, <2>4
  <2>6. QED
    BY <1>1, <1>2, <2>1, <2>2, <2>3, <2>4, <2>5 DEF Bytes
<1>3. CASE ~a.hit
  <2>1. Size(a) = 11 /\ LastBeat(a) = (11 + 63) \div 64
    BY <1>3 DEF Size, LastBeat
  <2>2. LastBeat(a) = 1
    BY <2>1
  <2>3. p = NoPointer /\ WordCount(p) = 0
    BY <1>1, <1>3, WordsOfBox
  <2>4. QED
    BY <1>1, <1>3, <2>1, <2>2, <2>3
<1>4. QED
  BY <1>2, <1>3

LEMMA ReplyBeats ==
  ASSUME NEW a \in Answer
  PROVE  /\ DOMAIN Lup!ReplyTo(a) = 1..LastBeat(a)
         /\ \A n \in 1..LastBeat(a) :
              Lup!ReplyTo(a)[n] = [low |-> LowOf(a, n), high |-> HighOf(a, n),
                                   keep |-> KeepOf(a, n), tlast |-> n = LastBeat(a),
                                   size |-> Size(a)]
<1>1. PICK p, len, total, last, words :
        /\ p = a.pointer /\ len = (IF a.hit THEN Length[a.pointer] ELSE 0) /\ total = 11 + len
        /\ last = (total + 63) \div 64 /\ words = (len + 63) \div 64
  OBVIOUS
<1>2. total = Size(a) /\ last = LastBeat(a)
  BY <1>1 DEF Size, Bytes, LastBeat
<1>3. words = WordCount(p)
  <2>1. p \in Address /\ (a.hit <=> p # NoPointer)
    BY <1>1 DEF Answer
  <2>2. CASE a.hit
    BY <1>1, <2>1, <2>2, WordsOfBox
  <2>3. CASE ~a.hit
    <3>1. words = 0
      BY <1>1, <2>3
    <3>2. QED
      BY <1>1, <2>1, <2>3, <3>1, WordsOfBox
  <2>4. QED
    BY <2>2, <2>3
<1>4. Lup!ReplyTo(a) =
        [n \in 1..last |->
           [low  |-> IF n = 1 THEN <<a.key, len, a.hit>> ELSE <<p, n - 1>>,
            high |-> IF n <= words THEN <<p, n>> ELSE Nothing,
            keep |-> IF n = last THEN total - 64 * (last - 1) ELSE 64,
            tlast |-> n = last, size |-> total]]
  BY <1>1 DEF Lup!ReplyTo, Lup!HEADER_BYTES, Lup!header, Lup!Nothing, Nothing
<1>5. \A n \in 1..last : /\ LowOf(a, n) = IF n = 1 THEN <<a.key, len, a.hit>> ELSE <<p, n - 1>>
                         /\ HighOf(a, n) = IF n <= words THEN <<p, n>> ELSE Nothing
                         /\ KeepOf(a, n) = IF n = last THEN total - 64 * (last - 1) ELSE 64
  BY <1>1, <1>2, <1>3 DEF LowOf, HighOf, KeepOf
<1>6. QED
  BY <1>2, <1>4, <1>5

\* What shows the n-th beat of the reply to a.
ShowsBeat(a, n) ==
    /\ n \in 1..LastBeat(a)
    /\ reply.low = LowOf(a, n) /\ reply.high = HighOf(a, n) /\ reply.keep = KeepOf(a, n)
    /\ n = LastBeat(a) => reply.tlast = TRUE
    /\ n # LastBeat(a) => reply.tlast = FALSE
    /\ reply.size = Size(a)

LEMMA ShownBeat ==
  ASSUME NEW a \in Answer, NEW n
  PROVE  ShowsBeat(a, n)
         <=> n \in DOMAIN Lup!ReplyTo(a) /\ Lup!Shown = Lup!ReplyTo(a)[n]
<1>1. DOMAIN Lup!ReplyTo(a) = 1..LastBeat(a)
  BY ReplyBeats
<1>2. SUFFICES ASSUME n \in 1..LastBeat(a)
               PROVE  ShowsBeat(a, n) <=> Lup!Shown = Lup!ReplyTo(a)[n]
  BY <1>1 DEF ShowsBeat
<1>3. PICK t : t = (n = LastBeat(a))
  OBVIOUS
<1>4. (n = LastBeat(a) => t = TRUE) /\ (n # LastBeat(a) => t = FALSE)
  BY <1>3
<1>5. PICK low, high, keep, size : /\ low = LowOf(a, n) /\ high = HighOf(a, n)
                                   /\ keep = KeepOf(a, n) /\ size = Size(a)
  OBVIOUS
<1>6. Lup!ReplyTo(a)[n] = [low |-> low, high |-> high, keep |-> keep, tlast |-> t, size |-> size]
  BY <1>2, <1>3, <1>5, ReplyBeats
<1>7. Lup!Shown = [low |-> reply.low, high |-> reply.high, keep |-> reply.keep,
                   tlast |-> reply.tlast, size |-> reply.size]
  BY DEF Lup!Shown
<1>8. Lup!Shown = Lup!ReplyTo(a)[n]
      <=> /\ reply.low = low /\ reply.high = high /\ reply.keep = keep
          /\ reply.tlast = t /\ reply.size = size
  BY <1>6, <1>7
<1>9. QED
  BY <1>2, <1>4, <1>5, <1>8 DEF ShowsBeat

LEMMA ShownBeatNext ==
  ASSUME NEW a \in Answer, NEW n, ShowsBeat(a, n)'
  PROVE  n \in DOMAIN Lup!ReplyTo(a) /\ Lup!Shown' = Lup!ReplyTo(a)[n]
<1>1. DOMAIN Lup!ReplyTo(a) = 1..LastBeat(a)
  BY ReplyBeats
<1>2. n \in 1..LastBeat(a)
  BY DEF ShowsBeat
<1>3. PICK t : t = (n = LastBeat(a))
  OBVIOUS
<1>4. (n = LastBeat(a) => t = TRUE) /\ (n # LastBeat(a) => t = FALSE)
  BY <1>3
<1>5. PICK low, high, keep, size : /\ low = LowOf(a, n) /\ high = HighOf(a, n)
                                   /\ keep = KeepOf(a, n) /\ size = Size(a)
  OBVIOUS
<1>6. Lup!ReplyTo(a)[n] = [low |-> low, high |-> high, keep |-> keep, tlast |-> t, size |-> size]
  BY <1>2, <1>3, <1>5, ReplyBeats
<1>7. Lup!Shown' = [low |-> reply'.low, high |-> reply'.high, keep |-> reply'.keep,
                    tlast |-> reply'.tlast, size |-> reply'.size]
  BY DEF Lup!Shown
<1>8. /\ reply'.low = low /\ reply'.high = high /\ reply'.keep = keep
      /\ reply'.tlast = t /\ reply'.size = size
  BY <1>4, <1>5 DEF ShowsBeat
<1>9. Lup!Shown' = [low |-> low, high |-> high, keep |-> keep, tlast |-> t, size |-> size]
  BY <1>7, <1>8
<1>10. QED
  BY <1>1, <1>2, <1>6, <1>9

Current == asked[1].answer

LEMMA CurrentIsAnswer ==
  ASSUME LookupTypes, Line, Busy
  PROVE  Current \in Answer /\ ToReply = 1 /\ All \in Nat \ {0}
<1>1. ToReply = 1
  BY DEF ToReply, One
<1>2. PICK t, s, n : t = ToReply /\ s = ToServed /\ n = All
  OBVIOUS
<1>3. s \in Nat /\ n \in Nat /\ 1 <= s /\ 1 <= n
  BY <1>1, <1>2, PlaceCounts
<1>4. 1 \in 1..Len(asked) /\ 1 \in 1..All
  BY <1>2, <1>3 DEF Line
<1>5. asked[1] \in [key : Asker, answer : Answer \cup {None}]
  BY <1>4, ElementOfSeq DEF LookupTypes
<1>6. asked[1].answer # None
  BY <1>2, <1>3, <1>4 DEF Line
<1>7. QED
  BY <1>1, <1>2, <1>3, <1>5, <1>6 DEF Current

\* Where the reply is.
LEMMA ReplyNow ==
  ASSUME LookupTypes, Line, Replies, Busy
  PROVE  /\ BeatNumber \in Nat
         /\ reply.tvalid => ShowsBeat(Current, BeatNumber)
         /\ reply.state = "ST_IDLE" =>
              reply.tvalid /\ BeatNumber = LastBeat(Current) /\ reply.tlast = TRUE
         /\ reply.state = "ST_WAIT_FIRST" =>
              /\ Current.hit /\ ~reply.tvalid /\ received = 0 /\ BeatNumber = 0
              /\ reply.meta_key_r = Current.key
         /\ reply.state = "ST_SEND" =>
              /\ Current.hit /\ BeatNumber \in 1..(LastBeat(Current) - 1)
              /\ reply.bytes_left \in Nat \ {0}
              /\ reply.bytes_left = Bytes(Current) - 64 * BeatNumber
              /\ BeatNumber <= WordCount(Current.pointer)
              /\ reply.bytes_left > 11 <=> BeatNumber < WordCount(Current.pointer)
              /\ reply.packet_buffer = <<Current.pointer, BeatNumber>>
              /\ reply.size = Bytes(Current)
              /\ reply.tvalid => reply.tlast = FALSE
<1>1. Current \in Answer
  BY CurrentIsAnswer
<1>2. ReplyAt(Current)
  BY DEF Replies, Current
<1>3. BeatNumber \in Nat
  BY DEF BeatNumber, One, LookupTypes
<1>4. reply.tvalid => ShowsBeat(Current, BeatNumber)
  BY <1>1, <1>2, ShownBeat DEF ReplyAt
<1>5. reply.state = "ST_IDLE" =>
        reply.tvalid /\ BeatNumber = LastBeat(Current) /\ reply.tlast = TRUE
  BY <1>2, <1>4 DEF ReplyAt, Busy, ShowsBeat
<1>6. reply.state = "ST_WAIT_FIRST" =>
        /\ Current.hit /\ ~reply.tvalid /\ received = 0 /\ BeatNumber = 0
        /\ reply.meta_key_r = Current.key
  BY <1>2 DEF ReplyAt, BeatNumber, One
<1>7. ASSUME reply.state = "ST_SEND"
      PROVE  /\ Current.hit /\ BeatNumber \in 1..(LastBeat(Current) - 1)
             /\ reply.bytes_left \in Nat \ {0}
             /\ reply.bytes_left = Bytes(Current) - 64 * BeatNumber
             /\ BeatNumber <= WordCount(Current.pointer)
             /\ reply.bytes_left > 11 <=> BeatNumber < WordCount(Current.pointer)
             /\ reply.packet_buffer = <<Current.pointer, BeatNumber>>
             /\ reply.size = Bytes(Current)
             /\ reply.tvalid => reply.tlast = FALSE
  <2>1. /\ Current.hit /\ BeatNumber \in 1..(LastBeat(Current) - 1)
        /\ reply.bytes_left = Bytes(Current) - 64 * BeatNumber
        /\ reply.packet_buffer = <<Current.pointer, BeatNumber>>
        /\ reply.size = Bytes(Current)
    BY <1>2, <1>7 DEF ReplyAt
  <2>2. PICK l, b, t, len, w, left :
          /\ l = LastBeat(Current) /\ b = BeatNumber /\ t = Bytes(Current)
          /\ len = Length[Current.pointer] /\ w = WordCount(Current.pointer)
          /\ left = reply.bytes_left
    OBVIOUS
  <2>3. /\ l \in Nat \ {0} /\ t = 11 + len /\ len \in Nat \ {0} /\ w \in Nat
        /\ 64 * (l - 1) < t /\ 64 * (w - 1) < len /\ len <= 64 * w /\ l <= w + 1
        /\ b \in 1..(l - 1) /\ left = t - 64 * b
    BY <1>1, <2>1, <2>2, ReplySizes
  <2>4. left \in Nat \ {0} /\ b <= w /\ b # l
    BY <2>3
  <2>5. left > 11 <=> b < w
    BY <2>3
  <2>6. reply.tvalid => reply.tlast = FALSE
    BY <1>4, <2>2, <2>4 DEF ShowsBeat
  <2>7. QED
    BY <2>1, <2>2, <2>4, <2>5, <2>6
<1>8. QED
  BY <1>3, <1>4, <1>5, <1>6, <1>7

-----------------------------------------------------------------------------
(* What leaves the card.                                                    *)

LEMMA ReplyLeavesCard ==
  ASSUME LookupTypes, Headers,
         NEW key, NEW now, NEW tready, NEW serve, NEW works,
         LookStep(key, now, tready, serve, works)
  PROVE  /\ Leaves(tready) <=> reply.state = "ST_IDLE" /\ reply.tvalid /\ tready
         /\ Leaves(tready) => received' = 0
         /\ ~Leaves(tready) /\ reply.tvalid /\ tready => received' = received + 1
         /\ ~Leaves(tready) /\ ~(reply.tvalid /\ tready) => received' = received
         /\ reply.tvalid /\ ~tready => ~reply.tlast
         /\ received' \in Nat
<1>1. Leaves(tready) => reply.state = "ST_IDLE"
  <2>1. SUFFICES ASSUME Leaves(tready), reply.state # "ST_IDLE"
                 PROVE  FALSE
    OBVIOUS
  <2>2. Busy /\ reply.tvalid /\ reply.tlast
    BY <2>1 DEF Leaves, Busy
  <2>3. reply.state \in {"ST_WAIT_FIRST", "ST_SEND"}
    BY <2>1 DEF LookupTypes
  <2>4. QED
    BY <2>1, <2>2, <2>3 DEF Headers, HeaderAt
<1>2. reply.state = "ST_IDLE" /\ reply.tvalid => reply.tlast
  <2>1. SUFFICES ASSUME reply.state = "ST_IDLE", reply.tvalid
                 PROVE  reply.tlast
    OBVIOUS
  <2>2. Busy
    BY <2>1 DEF Busy
  <2>3. QED
    BY <2>1, <2>2 DEF Headers, HeaderAt
<1>3. Leaves(tready) <=> reply.state = "ST_IDLE" /\ reply.tvalid /\ tready
  BY <1>1, <1>2 DEF Leaves
<1>4. /\ reply.tvalid /\ reply.tlast => tready
      /\ received' = IF Leaves(tready) THEN 0
                     ELSE IF reply.tvalid /\ tready THEN received + 1 ELSE received
  BY DEF LookStep, Lup!Clock, Lup!PeerStep, Lup!Answered, Lup!ReplyLeaves, Leaves
<1>5. received' \in Nat
  BY <1>4 DEF LookupTypes
<1>6. QED
  BY <1>3, <1>4, <1>5

-----------------------------------------------------------------------------
(* The words.                                                               *)

Addressed == IF split.addr_valid THEN Lup!Words(split.addr) ELSE <<>>

LEMMA AheadIsWords ==
  ASSUME LookupTypes
  PROVE  /\ slice \in Seq(MemoryWord) /\ bram \in Seq(MemoryWord)
         /\ Addressed \in Seq(MemoryWord) /\ Ahead = (slice \o bram) \o Addressed
         /\ Ahead \in Seq(MemoryWord)
<1>1. slice \in Seq(MemoryWord) /\ bram \in Seq(MemoryWord)
  BY DEF LookupTypes, MemoryWord
<1>2. Addressed \in Seq(MemoryWord)
  <2>1. CASE split.addr_valid
    <3>1. split.addr \in Address
      BY <2>1 DEF LookupTypes
    <3>2. QED
      BY <2>1, <3>1, WordsOfBox DEF Addressed, MemoryWord
  <2>2. CASE ~split.addr_valid
    BY <2>2, EmptySeq DEF Addressed
  <2>3. QED
    BY <2>1, <2>2
<1>3. Ahead = (slice \o bram) \o Addressed
  BY DEF Ahead, Addressed
<1>4. slice \o bram \in Seq(MemoryWord)
  BY <1>1, ConcatProperties
<1>5. QED
  BY <1>1, <1>2, <1>3, <1>4, ConcatProperties

LEMMA HeadOfConcat ==
  ASSUME NEW S, NEW s \in Seq(S), NEW t \in Seq(S), s # <<>>
  PROVE  /\ s \o t # <<>> /\ Head(s \o t) = Head(s) /\ Tail(s \o t) = Tail(s) \o t
         /\ Head(s) = s[1]
<1>1. PICK m, n : m = Len(s) /\ n = Len(t) /\ m \in Nat \ {0} /\ n \in Nat
  BY EmptySeq, LenProperties
<1>2. PICK st : st = s \o t
  OBVIOUS
<1>3. /\ st \in Seq(S) /\ Len(st) = m + n
      /\ \A i \in 1..(m + n) : st[i] = IF i <= m THEN s[i] ELSE t[i - m]
  BY <1>1, <1>2, ConcatProperties
<1>4. st # <<>>
  BY <1>1, <1>3
<1>5. Head(s) = s[1] /\ Head(st) = st[1]
  OBVIOUS
<1>6. st[1] = s[1]
  BY <1>1, <1>3
<1>7. PICK u, v : u = Tail(s) /\ v = Tail(st)
  OBVIOUS
<1>8. u \in Seq(S) /\ Len(u) = m - 1 /\ \A i \in 1..(m - 1) : u[i] = s[i + 1]
  BY <1>1, <1>7, HeadTailProperties
<1>9. v \in Seq(S) /\ Len(v) = m + n - 1 /\ \A i \in 1..(m + n - 1) : v[i] = st[i + 1]
  BY <1>1, <1>3, <1>4, <1>7, HeadTailProperties
<1>10. PICK w : w = u \o t
  OBVIOUS
<1>11. /\ w \in Seq(S) /\ Len(w) = m - 1 + n
       /\ \A i \in 1..(m - 1 + n) : w[i] = IF i <= m - 1 THEN u[i] ELSE t[i - (m - 1)]
  <2>1. PICK k : k = Len(u) /\ k = m - 1 /\ k \in Nat
    BY <1>1, <1>8
  <2>2. /\ w \in Seq(S) /\ Len(w) = k + n
        /\ \A i \in 1..(k + n) : w[i] = IF i <= k THEN u[i] ELSE t[i - k]
    <3>1. u \in Seq(S) /\ k = Len(u) /\ n = Len(t)
      BY <1>1, <1>8, <2>1
    <3>2. QED
      BY <1>10, <3>1, ConcatProperties
  <2>3. QED
    BY <2>1, <2>2
<1>12. ASSUME NEW i \in 1..(m + n - 1)
       PROVE  v[i] = w[i]
  <2>1. PICK j : j = i + 1 /\ j \in 1..(m + n) /\ j - m = i - (m - 1) /\ (j <= m <=> i <= m - 1)
    BY <1>1
  <2>2. v[i] = IF j <= m THEN s[j] ELSE t[j - m]
    BY <1>3, <1>9, <2>1
  <2>3. w[i] = IF i <= m - 1 THEN u[i] ELSE t[i - (m - 1)]
    BY <1>1, <1>11
  <2>4. i <= m - 1 => u[i] = s[j]
    BY <1>1, <1>8, <2>1
  <2>5. QED
    BY <2>1, <2>2, <2>3, <2>4
<1>13. v = w
  <2>1. Len(v) = Len(w) /\ \A i \in 1..Len(v) : v[i] = w[i]
    BY <1>1, <1>9, <1>11, <1>12
  <2>2. QED
    BY <1>9, <1>11, <2>1, SeqEqual
<1>14. QED
  BY <1>2, <1>4, <1>5, <1>6, <1>7, <1>10, <1>13

\* The rest of a value.
From(p, t) == SubSeq(Lup!Words(p), t + 1, WordCount(p))

LEMMA WordsFrom ==
  ASSUME NEW p \in Address, NEW t \in Nat
  PROVE  /\ From(p, t) \in Seq(MemoryWord)
         /\ t >= WordCount(p) => From(p, t) = <<>>
         /\ t < WordCount(p) =>
              /\ From(p, t) # <<>>
              /\ Head(From(p, t)) = [len |-> Length[p], part |-> <<p, t + 1>>]
              /\ Tail(From(p, t)) = From(p, t + 1)
              /\ p # NoPointer
         /\ From(p, 0) = Lup!Words(p)
<1>1. PICK w, n : w = Lup!Words(p) /\ n = WordCount(p)
  OBVIOUS
<1>2. w \in Seq(MemoryWord) /\ n = Len(w) /\ n \in Nat
  BY <1>1, WordsOfBox DEF MemoryWord, WordCount
<1>3. \A k \in Nat : From(p, k) = SubSeq(w, k + 1, n)
  BY <1>1 DEF From
<1>4. ASSUME t >= n PROVE From(p, t) = <<>>
  BY <1>2, <1>3, <1>4, SubSeqEmpty
<1>5. ASSUME t < n
      PROVE  /\ From(p, t) # <<>> /\ From(p, t) \in Seq(MemoryWord)
             /\ Head(From(p, t)) = [len |-> Length[p], part |-> <<p, t + 1>>]
             /\ Tail(From(p, t)) = From(p, t + 1)
             /\ p # NoPointer
  <2>1. PICK m : m = t + 1 /\ m \in 1..Len(w) /\ m \in Int /\ n \in m..Len(w) /\ n \in Int
    BY <1>2, <1>5
  <2>2. Head(SubSeq(w, m, n)) = w[m] /\ Tail(SubSeq(w, m, n)) = SubSeq(w, m + 1, n)
    BY <1>2, <2>1, HeadTailOfSubSeq
  <2>3. p # NoPointer
    BY <1>1, <1>5, WordsOfBox
  <2>4. w[m] = [len |-> Length[p], part |-> <<p, m>>]
    BY <1>1, <1>2, <2>1, <2>3, WordsOfBox
  <2>5. \A i \in m..n : w[i] \in MemoryWord
    BY <1>2, <2>1, ElementOfSeq
  <2>6. SubSeq(w, m, n) \in Seq(MemoryWord) /\ Len(SubSeq(w, m, n)) = n - m + 1
    BY <1>2, <2>1, <2>5, SubSeqProperties
  <2>7. SubSeq(w, m, n) # <<>>
    <3>1. PICK f : f = SubSeq(w, m, n)
      OBVIOUS
    <3>2. Len(f) # 0
      BY <1>2, <2>1, <2>6, <3>1
    <3>3. QED
      BY <3>1, <3>2, EmptySeq
  <2>8. From(p, t) = SubSeq(w, m, n) /\ From(p, t + 1) = SubSeq(w, m + 1, n)
    BY <1>1, <2>1 DEF From
  <2>9. QED
    BY <2>1, <2>2, <2>3, <2>4, <2>6, <2>7, <2>8
<1>6. From(p, 0) = Lup!Words(p)
  <2>1. From(p, 0) = SubSeq(w, 1, n)
    BY <1>1 DEF From
  <2>2. QED
    BY <1>1, <1>2, <2>1, SubSeqFull
<1>7. From(p, t) \in Seq(MemoryWord)
  <2>1. <<>> \in Seq(MemoryWord)
    BY EmptySeq
  <2>2. t >= n \/ t < n
    BY <1>2
  <2>3. QED
    BY <1>4, <1>5, <2>1, <2>2
<1>8. QED
  BY <1>1, <1>2, <1>4, <1>5, <1>6, <1>7

TakesWord(tready) == slice # <<>> /\ Lup!ram_ready(tready)

\* How many words of the value the reply has taken.
LEMMA WordsNow ==
  ASSUME LookupTypes, Line, Replies
  PROVE  /\ reply.state = "ST_IDLE" => RestWords = <<>>
         /\ reply.state # "ST_IDLE" =>
              /\ Current \in Answer /\ Current.pointer \in Address
              /\ WordsTaken \in Nat /\ WordsTaken = BeatNumber
              /\ WordsTaken <= WordCount(Current.pointer)
              /\ RestWords = From(Current.pointer, WordsTaken)
              /\ reply.state = "ST_WAIT_FIRST" => WordsTaken < WordCount(Current.pointer)
         /\ RestWords \in Seq(MemoryWord)
<1>1. CASE reply.state = "ST_IDLE"
  BY <1>1, EmptySeq DEF RestWords
<1>2. CASE reply.state # "ST_IDLE"
  <2>1. Busy /\ Current \in Answer
    BY <1>2, CurrentIsAnswer DEF Busy
  <2>2. Current.pointer \in Address
    BY <2>1 DEF Answer
  <2>3. RestWords = From(Current.pointer, WordsTaken)
    BY <1>2 DEF RestWords, From, Current
  <2>4. WordsTaken = BeatNumber /\ BeatNumber \in Nat
    BY <2>1, ReplyNow DEF WordsTaken
  <2>5. PICK w : w = WordCount(Current.pointer) /\ w \in Nat
    BY <2>2, WordsOfBox
  <2>6. CASE reply.state = "ST_WAIT_FIRST"
    <3>1. BeatNumber = 0 /\ Current.hit
      BY <2>1, <2>6, ReplyNow
    <3>2. w # 0
      BY <2>1, <2>5, <3>1, ReplySizes
    <3>3. QED
      BY <1>2, <2>1, <2>2, <2>3, <2>4, <2>5, <3>1, <3>2, WordsFrom
  <2>7. CASE reply.state = "ST_SEND"
    <3>1. BeatNumber <= w
      BY <2>1, <2>5, <2>7, ReplyNow
    <3>2. QED
      BY <1>2, <2>1, <2>2, <2>3, <2>4, <2>5, <2>7, <3>1, WordsFrom
  <2>8. QED
    BY <1>2, <2>6, <2>7 DEF LookupTypes
<1>3. QED
  BY <1>1, <1>2

LEMMA NextAreWords ==
  ASSUME LookupTypes, Line
  PROVE  NextWords \in Seq(MemoryWord)
<1>1. CASE HasResult
  <2>1. PICK n, s, t : n = ToSplit /\ s = ToServed /\ t = All
    OBVIOUS
  <2>2. n \in 1..s /\ s \in Nat /\ n \in 1..t /\ t = Len(asked)
    <3>1. ToSplit = ToReply + 1
      BY <1>1 DEF ToSplit, One
    <3>2. PICK rp, an, tb, pe, pa, la, lr :
            /\ rp = ToReply /\ an = ToAnswers /\ tb = ToTable /\ pe = ToPeers /\ pa = ToParser
            /\ la = Len(fifo_lup_rsp) /\ lr = Len(fifo_peer_request)
      OBVIOUS
    <3>3. /\ rp \in {0, 1} /\ n = rp + 1 /\ la \in Nat /\ an = n + la /\ s \in an..(an + 1)
          /\ tb \in s..(s + 1) /\ lr \in Nat /\ pe = tb + lr /\ pa \in pe..(pe + 1)
          /\ t \in pa..(pa + 1)
      BY <2>1, <3>1, <3>2, PlaceCounts
    <3>4. t = Len(asked)
      BY <2>1 DEF Line
    <3>5. n \in 1..s /\ s \in Nat /\ n \in 1..t
      BY <3>3
    <3>6. QED
      BY <3>4, <3>5
  <2>3. asked[n] \in [key : Asker, answer : Answer \cup {None}]
    BY <2>2, ElementOfSeq DEF LookupTypes
  <2>4. asked[n].answer \in Answer
    BY <2>1, <2>2, <2>3 DEF Line
  <2>5. asked[n].answer.pointer \in Address
    BY <2>4 DEF Answer
  <2>6. QED
    BY <1>1, <2>1, <2>5, WordsOfBox DEF NextWords, MemoryWord
<1>2. CASE ~HasResult
  BY <1>2, EmptySeq DEF NextWords
<1>3. QED
  BY <1>1, <1>2

\* The word that the reply takes is the next one of its value.
LEMMA HeadWord ==
  ASSUME LookupTypes, Line, Replies, WordsInOrder, NEW tready, TakesWord(tready)
  PROVE  /\ reply.state # "ST_IDLE" /\ WordsTaken < WordCount(Current.pointer)
         /\ Word = [len |-> Length[Current.pointer], part |-> <<Current.pointer, WordsTaken + 1>>]
<1>1. /\ slice # <<>>
      /\ reply.state = "ST_WAIT_FIRST" \/ (reply.state = "ST_SEND" /\ reply.bytes_left > 11)
  BY DEF TakesWord, Lup!ram_ready, Lup!s_axis_ram_ready, Lup!NeedsWord, Lup!HEADER_BYTES
<1>2. reply.state # "ST_IDLE" /\ Busy
  BY <1>1 DEF Busy
<1>3. PICK p, t : p = Current.pointer /\ t = WordsTaken
  OBVIOUS
<1>4. p \in Address /\ t \in Nat /\ RestWords = From(p, t) /\ t = BeatNumber
  BY <1>2, <1>3, WordsNow
<1>5. t < WordCount(p)
  BY <1>1, <1>2, <1>3, <1>4, WordsNow, ReplyNow
<1>6. /\ From(p, t) # <<>> /\ From(p, t) \in Seq(MemoryWord)
      /\ Head(From(p, t)) = [len |-> Length[p], part |-> <<p, t + 1>>]
  BY <1>4, <1>5, WordsFrom
<1>7. Head(Ahead) = Head(RestWords)
  BY <1>4, <1>6, NextAreWords, HeadOfConcat DEF WordsInOrder
<1>8. Head(Ahead) = Head(slice)
  <2>1. slice \o bram # <<>> /\ Head(slice \o bram) = Head(slice)
    BY <1>1, AheadIsWords, HeadOfConcat
  <2>2. slice \o bram \in Seq(MemoryWord)
    BY AheadIsWords, ConcatProperties
  <2>3. QED
    BY <2>1, <2>2, AheadIsWords, HeadOfConcat
<1>9. QED
  BY <1>2, <1>3, <1>4, <1>5, <1>6, <1>7, <1>8 DEF Word
-----------------------------------------------------------------------------
(* A cycle of the reply.                                                    *)

LEMMA BusyMoves ==
  ASSUME LookupTypes, Headers,
         NEW key, NEW now, NEW tready, NEW serve, NEW works,
         LookStep(key, now, tready, serve, works)
  PROVE  /\ DOMAIN reply' = ReplyFields
         /\ reply'.state \in {"ST_IDLE", "ST_WAIT_FIRST", "ST_SEND"} /\ reply'.tvalid \in BOOLEAN
         /\ Busy' <=> TakesMeta(tready) \/ (Busy /\ ~Leaves(tready))
         /\ TakesMeta(tready) /\ Busy => Leaves(tready)
         /\ ~Busy' => received' = 0
<1>1. tready \in BOOLEAN /\ Lup!ReplyClock(tready)
  BY DEF LookStep, Lup!Clock
<1>2. CASE ~OutFree(tready)
  <2>1. reply'.state = reply.state /\ reply'.tvalid = TRUE /\ DOMAIN reply' = ReplyFields
    BY <1>1, <1>2, ReplyWaits
  <2>2. Busy /\ ~Leaves(tready) /\ ~TakesMeta(tready) /\ Busy'
    BY <1>2, <2>1 DEF OutFree, Busy, Leaves, TakesMeta
  <2>3. QED
    BY <2>1, <2>2 DEF LookupTypes
<1>3. CASE OutFree(tready) /\ reply.state = "ST_IDLE"
  <2>1. /\ DOMAIN reply' = ReplyFields
        /\ ~HasResult => reply'.state = "ST_IDLE" /\ reply'.tvalid = FALSE
        /\ HasResult /\ split.hit => reply'.state = "ST_WAIT_FIRST" /\ reply'.tvalid = FALSE
        /\ HasResult /\ ~split.hit => reply'.state = "ST_IDLE" /\ reply'.tvalid = TRUE
    BY <1>1, <1>3, ReplyFromIdle
  <2>2. TakesMeta(tready) <=> HasResult
    BY <1>3 DEF TakesMeta
  <2>3. Busy <=> Leaves(tready)
    BY <1>3, ReplyLeavesCard DEF Busy, OutFree
  <2>4. Busy' <=> HasResult
    BY <2>1 DEF Busy
  <2>5. received' = 0
    <3>1. CASE Busy
      BY <2>3, <3>1, ReplyLeavesCard
    <3>2. CASE ~Busy
      BY <2>3, <3>2, ReplyLeavesCard DEF Headers, Busy
    <3>3. QED
      BY <3>1, <3>2
  <2>6. QED
    BY <2>1, <2>2, <2>3, <2>4, <2>5
<1>4. CASE OutFree(tready) /\ reply.state = "ST_WAIT_FIRST"
  <2>1. /\ DOMAIN reply' = ReplyFields
        /\ slice = <<>> => reply'.state = "ST_WAIT_FIRST" /\ reply'.tvalid = FALSE
        /\ slice # <<>> => /\ reply'.tvalid = TRUE
                           /\ reply'.state \in {"ST_IDLE", "ST_SEND"}
    BY <1>1, <1>4, ReplyFromWait
  <2>2. Busy /\ ~Leaves(tready) /\ ~TakesMeta(tready)
    BY <1>4, ReplyLeavesCard DEF Busy, TakesMeta
  <2>3. Busy'
    BY <2>1 DEF Busy
  <2>4. QED
    BY <2>1, <2>2, <2>3
<1>5. CASE OutFree(tready) /\ reply.state = "ST_SEND"
  <2>1. Busy /\ ~Leaves(tready) /\ ~TakesMeta(tready)
    BY <1>5, ReplyLeavesCard DEF Busy, TakesMeta
  <2>2. PICK left : left = reply.bytes_left /\ left \in Nat \ {0}
    BY <1>5, <2>1 DEF Headers, HeaderAt
  <2>3. /\ DOMAIN reply' = ReplyFields
        /\ left <= 11 => reply'.state = "ST_IDLE" /\ reply'.tvalid = TRUE
        /\ left > 11 /\ slice = <<>> => reply'.state = "ST_SEND" /\ reply'.tvalid = FALSE
        /\ left > 11 /\ slice # <<>> =>
             reply'.tvalid = TRUE /\ reply'.state \in {"ST_IDLE", "ST_SEND"}
    BY <1>1, <1>5, <2>2, ReplyFromSend
  <2>4. left <= 11 \/ left > 11
    BY <2>2
  <2>5. Busy' /\ reply'.tvalid \in BOOLEAN /\ reply'.state \in {"ST_IDLE", "ST_SEND"}
    BY <2>3, <2>4 DEF Busy
  <2>6. QED
    BY <2>1, <2>3, <2>5
<1>6. QED
  BY <1>2, <1>3, <1>4, <1>5 DEF LookupTypes

\* What holds of the reply after the cycle, for the answer that it is then sent for.
LEMMA ReplyAtNext ==
  ASSUME NEW a \in Answer, NEW n \in Nat, n = BeatNumber',
         reply'.state = "ST_WAIT_FIRST" =>
           a.hit /\ ~reply'.tvalid /\ received' = 0 /\ reply'.meta_key_r = a.key,
         reply'.state = "ST_SEND" =>
           /\ a.hit /\ n \in 1..(LastBeat(a) - 1)
           /\ reply'.bytes_left = Bytes(a) - 64 * n
           /\ reply'.packet_buffer = <<a.pointer, n>> /\ reply'.size = Bytes(a),
         reply'.state = "ST_IDLE" => n = LastBeat(a),
         reply'.tvalid => ShowsBeat(a, n)'
  PROVE  ReplyAt(a)'
<1>1. a # None
  BY AnswersAreSome
<1>2. reply'.tvalid => n \in DOMAIN Lup!ReplyTo(a) /\ Lup!Shown' = Lup!ReplyTo(a)[n]
  BY ShownBeatNext
<1>3. QED
  BY <1>1, <1>2 DEF ReplyAt

LEMMA ReplyMoves ==
  ASSUME LookupTypes, Line, Headers, Replies, WordsInOrder,
         NEW key, NEW now, NEW tready, NEW serve, NEW works,
         LookStep(key, now, tready, serve, works),
         NEW a \in Answer, Busy',
         Busy /\ ~Leaves(tready) => a = Current,
         TakesMeta(tready) => a.key = split.key /\ a.hit = split.hit
  PROVE  ReplyAt(a)'
<1>1. tready \in BOOLEAN /\ Lup!ReplyClock(tready)
  BY DEF LookStep, Lup!Clock
<1>2. PICK n, b : n = BeatNumber' /\ b = BeatNumber
  OBVIOUS
<1>3. /\ n = received' + One(reply'.tvalid) /\ b = received + One(reply.tvalid)
      /\ n \in Nat /\ b \in Nat /\ received \in Nat /\ received' \in Nat
  <2>1. received' \in Nat /\ received \in Nat
    BY ReplyLeavesCard DEF LookupTypes
  <2>2. BeatNumber = received + One(reply.tvalid)
    BY DEF BeatNumber
  <2>3. BeatNumber' = received' + One(reply'.tvalid)
    BY DEF BeatNumber, One
  <2>4. PICK x, y : x = One(reply.tvalid) /\ y = One(reply'.tvalid)
    OBVIOUS
  <2>5. x \in {0, 1} /\ y \in {0, 1}
    BY <2>4 DEF One
  <2>6. n = received' + y /\ b = received + x
    BY <1>2, <2>2, <2>3, <2>4
  <2>7. n \in Nat /\ b \in Nat
    <3>1. PICK i, j : i = received' /\ j = received /\ i \in Nat /\ j \in Nat
      BY <2>1
    <3>2. n = i + y /\ b = j + x
      BY <2>6, <3>1
    <3>3. (y = 0 \/ y = 1) /\ (x = 0 \/ x = 1)
      BY <2>5
    <3>4. n = i \/ n = i + 1
      BY <3>1, <3>2, <3>3
    <3>5. b = j \/ b = j + 1
      BY <3>1, <3>2, <3>3
    <3>6. QED
      BY <3>1, <3>4, <3>5
  <2>8. QED
    BY <2>1, <2>4, <2>6, <2>7
<1>4. PICK l : l = LastBeat(a) /\ l \in Nat \ {0}
  BY ReplySizes
<1>5. CASE ~OutFree(tready)
  <2>1. Busy /\ ~Leaves(tready) /\ reply.tvalid /\ ~tready
    BY <1>1, <1>5 DEF OutFree, Busy, Leaves
  <2>2. a = Current
    BY <2>1
  <2>3. /\ reply'.tvalid = TRUE /\ reply'.tlast = FALSE
        /\ reply'.state = reply.state /\ reply'.meta_key_r = reply.meta_key_r
        /\ reply'.packet_buffer = reply.packet_buffer /\ reply'.bytes_left = reply.bytes_left
        /\ reply'.low = reply.low /\ reply'.high = reply.high /\ reply'.keep = reply.keep
        /\ reply'.size = reply.size
    BY <1>1, <1>5, ReplyWaits
  <2>4. received' = received /\ ~reply.tlast
    BY <2>1, ReplyLeavesCard
  <2>5. n = b
    BY <1>3, <2>1, <2>3, <2>4 DEF One
  <2>6. reply.state = "ST_SEND"
    BY <2>1, <2>4, ReplyNow DEF LookupTypes
  <2>7. ShowsBeat(a, b)
    BY <1>2, <2>1, <2>2, ReplyNow
  <2>8. ShowsBeat(a, n)'
    BY <2>3, <2>4, <2>5, <2>7 DEF ShowsBeat
  <2>9. QED
    BY <1>2, <1>3, <2>1, <2>2, <2>3, <2>5, <2>6, <2>8, ReplyNow, ReplyAtNext
<1>6. CASE OutFree(tready) /\ reply.state = "ST_IDLE"
  <2>1. ~(Busy /\ ~Leaves(tready))
    BY <1>6, ReplyLeavesCard DEF Busy, OutFree
  <2>2. TakesMeta(tready) /\ HasResult
    BY <2>1, BusyMoves DEF TakesMeta
  <2>3. a.key = split.key /\ a.hit = split.hit
    BY <2>2
  <2>4. received' = 0
    <3>1. CASE Busy
      BY <2>1, <3>1, ReplyLeavesCard
    <3>2. CASE ~Busy
      BY <3>2, ReplyLeavesCard DEF Headers, Busy
    <3>3. QED
      BY <3>1, <3>2
  <2>5. CASE split.hit
    <3>1. reply'.state = "ST_WAIT_FIRST" /\ reply'.tvalid = FALSE /\ reply'.meta_key_r = split.key
      BY <1>1, <1>6, <2>2, <2>5, ReplyFromIdle
    <3>2. QED
      BY <1>2, <1>3, <2>3, <2>4, <2>5, <3>1, ReplyAtNext
  <2>6. CASE ~split.hit
    <3>1. /\ reply'.state = "ST_IDLE" /\ reply'.tvalid = TRUE /\ reply'.tlast = TRUE
          /\ reply'.low = <<split.key, 0, FALSE>> /\ reply'.high = Nothing
          /\ reply'.keep = 11 /\ reply'.size = 11
      BY <1>1, <1>6, <2>2, <2>6, ReplyFromIdle
    <3>2. n = 1
      BY <1>3, <2>4, <3>1 DEF One
    <3>3. ~a.hit /\ a.hit = FALSE
      BY <2>3, <2>6 DEF Answer
    <3>4. /\ l = 1 /\ Size(a) = 11 /\ WordCount(a.pointer) = 0
      BY <1>4, <3>3, ReplySizes
    <3>5. LowOf(a, 1) = <<a.key, 0, FALSE>> /\ HighOf(a, 1) = Nothing /\ KeepOf(a, 1) = 11
      <4>1. LowOf(a, 1) = <<a.key, 0, FALSE>>
        BY <3>3 DEF LowOf
      <4>2. HighOf(a, 1) = Nothing
        BY <3>4 DEF HighOf
      <4>3. KeepOf(a, 1) = 11
        BY <1>4, <3>4 DEF KeepOf
      <4>4. QED
        BY <4>1, <4>2, <4>3
    <3>6. ShowsBeat(a, 1)'
      <4>1. /\ reply'.low = LowOf(a, 1) /\ reply'.high = HighOf(a, 1)
            /\ reply'.keep = KeepOf(a, 1) /\ reply'.size = Size(a)
        BY <2>3, <3>1, <3>4, <3>5
      <4>2. 1 = LastBeat(a) /\ reply'.tlast = TRUE
        BY <1>4, <3>1, <3>4
      <4>3. QED
        BY <4>1, <4>2 DEF ShowsBeat
    <3>7. QED
      BY <1>2, <1>3, <1>4, <3>1, <3>2, <3>4, <3>6, ReplyAtNext
  <2>7. QED
    BY <2>5, <2>6
<1>7. CASE OutFree(tready) /\ reply.state = "ST_WAIT_FIRST"
  <2>1. Busy /\ ~Leaves(tready)
    BY <1>7, ReplyLeavesCard DEF Busy
  <2>2. a = Current
    BY <2>1
  <2>3. /\ a.hit /\ ~reply.tvalid /\ received = 0 /\ b = 0 /\ reply.meta_key_r = a.key
    BY <1>2, <1>7, <2>1, <2>2, ReplyNow
  <2>4. received' = 0
    BY <2>1, <2>3, ReplyLeavesCard
  <2>5. CASE slice = <<>>
    <3>1. /\ reply'.state = "ST_WAIT_FIRST" /\ reply'.tvalid = FALSE
          /\ reply'.meta_key_r = reply.meta_key_r
      BY <1>1, <1>7, <2>5, ReplyFromWait
    <3>2. QED
      BY <1>2, <1>3, <2>3, <2>4, <3>1, ReplyAtNext
  <2>6. CASE slice # <<>>
    <3>1. TakesWord(tready)
      BY <1>7, <2>6 DEF TakesWord, Lup!ram_ready, Lup!s_axis_ram_ready, OutFree, Lup!OutFree
    <3>2. PICK p, len, w, t : /\ p = a.pointer /\ len = Length[p] /\ w = WordCount(p)
                              /\ t = Bytes(a)
      OBVIOUS
    <3>3. WordsTaken = 0
      BY <1>7 DEF WordsTaken
    <3>4. Word = [len |-> len, part |-> <<p, 1>>]
      BY <2>2, <3>1, <3>2, <3>3, HeadWord
    <3>5. /\ t = 11 + len /\ len \in Nat \ {0} /\ w \in Nat \ {0} /\ Size(a) = t
          /\ 64 * (l - 1) < t /\ t <= 64 * l
      BY <1>4, <2>3, <3>2, ReplySizes
    <3>6. /\ reply'.tvalid = TRUE
          /\ t <= 64 => reply'.tlast = TRUE
          /\ t > 64 => reply'.tlast = FALSE
          /\ reply'.state = IF t <= 64 THEN "ST_IDLE" ELSE "ST_SEND"
          /\ reply'.low = <<a.key, len, TRUE>> /\ reply'.high = <<p, 1>>
          /\ reply'.keep = IF t <= 64 THEN t ELSE 64
          /\ reply'.size = t /\ reply'.packet_buffer = <<p, 1>>
          /\ reply'.bytes_left = IF t > 64 THEN t - 64 ELSE 0
      <4>1. Word.len = len /\ Word.part = <<p, 1>> /\ 11 + Word.len = t
        BY <3>4, <3>5
      <4>2. PICK word, part1 : word = Word.len /\ part1 = Word.part
        OBVIOUS
      <4>3. /\ reply'.tvalid = TRUE
            /\ 11 + word <= 64 => reply'.tlast = TRUE
            /\ 11 + word > 64 => reply'.tlast = FALSE
            /\ reply'.state = IF 11 + word <= 64 THEN "ST_IDLE" ELSE "ST_SEND"
            /\ reply'.low = <<reply.meta_key_r, word, TRUE>> /\ reply'.high = part1
            /\ reply'.keep = IF 11 + word <= 64 THEN 11 + word ELSE 64
            /\ reply'.size = 11 + word /\ reply'.packet_buffer = part1
            /\ reply'.bytes_left = IF 11 + word > 64 THEN 11 + word - 64 ELSE 0
        BY <1>1, <1>7, <2>6, <4>2, ReplyFromWait
      <4>4. word = len /\ part1 = <<p, 1>> /\ 11 + word = t
        BY <4>1, <4>2
      <4>5. /\ reply'.tvalid = TRUE
            /\ t <= 64 => reply'.tlast = TRUE
            /\ t > 64 => reply'.tlast = FALSE
        BY <4>3, <4>4
      <4>6. /\ reply'.low = <<a.key, len, TRUE>> /\ reply'.high = <<p, 1>>
            /\ reply'.packet_buffer = <<p, 1>>
        BY <2>3, <4>3, <4>4
      <4>7. /\ reply'.state = IF t <= 64 THEN "ST_IDLE" ELSE "ST_SEND"
            /\ reply'.keep = IF t <= 64 THEN t ELSE 64
            /\ reply'.size = t
            /\ reply'.bytes_left = IF t > 64 THEN t - 64 ELSE 0
        <5>1. reply'.state = IF t <= 64 THEN "ST_IDLE" ELSE "ST_SEND"
          BY <4>3, <4>4
        <5>2. reply'.keep = (IF t <= 64 THEN t ELSE 64) /\ reply'.size = t
          BY <4>3, <4>4
        <5>3. reply'.bytes_left = IF t > 64 THEN t - 64 ELSE 0
          BY <3>5, <4>3, <4>4
        <5>4. QED
          BY <5>1, <5>2, <5>3
      <4>8. QED
        BY <4>5, <4>6, <4>7
    <3>7. n = 1
      BY <1>3, <2>4, <3>6 DEF One
    <3>8. t <= 64 <=> l = 1
      BY <1>4, <3>5
    <3>9. a.hit = TRUE
      BY <2>3 DEF Answer
    <3>10. /\ LowOf(a, 1) = <<a.key, len, TRUE>> /\ HighOf(a, 1) = <<p, 1>>
           /\ KeepOf(a, 1) = IF l = 1 THEN t ELSE 64
      <4>1. LowOf(a, 1) = <<a.key, len, TRUE>>
        BY <3>2, <3>9 DEF LowOf
      <4>2. HighOf(a, 1) = <<p, 1>>
        BY <3>2, <3>5 DEF HighOf
      <4>3. KeepOf(a, 1) = IF l = 1 THEN t ELSE 64
        BY <1>4, <3>5 DEF KeepOf
      <4>4. QED
        BY <4>1, <4>2, <4>3
    <3>11. /\ l = 1 => reply'.tlast = TRUE /\ reply'.keep = t /\ reply'.state = "ST_IDLE"
           /\ l # 1 => /\ reply'.tlast = FALSE /\ reply'.keep = 64 /\ reply'.state = "ST_SEND"
                       /\ reply'.bytes_left = t - 64 /\ 1 \in 1..(l - 1)
      BY <1>4, <3>5, <3>6, <3>8
    <3>12. ShowsBeat(a, 1)'
      <4>1. /\ reply'.low = LowOf(a, 1) /\ reply'.high = HighOf(a, 1)
            /\ reply'.keep = KeepOf(a, 1) /\ reply'.size = Size(a)
        BY <3>5, <3>6, <3>10, <3>11
      <4>2. /\ 1 \in 1..LastBeat(a)
            /\ 1 = LastBeat(a) => reply'.tlast = TRUE
            /\ 1 # LastBeat(a) => reply'.tlast = FALSE
        BY <1>4, <3>11
      <4>3. QED
        BY <4>1, <4>2 DEF ShowsBeat
    <3>13. QED
      <4>1. /\ 1 = BeatNumber' /\ 1 \in Nat
            /\ reply'.state # "ST_WAIT_FIRST"
            /\ reply'.state = "ST_SEND" =>
                 /\ a.hit /\ 1 \in 1..(LastBeat(a) - 1)
                 /\ reply'.bytes_left = Bytes(a) - 64 * 1
                 /\ reply'.packet_buffer = <<a.pointer, 1>> /\ reply'.size = Bytes(a)
            /\ reply'.state = "ST_IDLE" => 1 = LastBeat(a)
        BY <1>2, <1>4, <2>3, <3>2, <3>5, <3>6, <3>7, <3>11
      <4>2. QED
        BY <3>12, <4>1, ReplyAtNext
  <2>7. QED
    BY <2>5, <2>6
<1>8. CASE OutFree(tready) /\ reply.state = "ST_SEND"
  <2>1. Busy /\ ~Leaves(tready)
    BY <1>8, ReplyLeavesCard DEF Busy
  <2>2. a = Current
    BY <2>1
  <2>3. PICK p, len, w, t, left :
          /\ p = a.pointer /\ len = Length[p] /\ w = WordCount(p) /\ t = Bytes(a)
          /\ left = reply.bytes_left
    OBVIOUS
  <2>4. /\ a.hit /\ b \in 1..(l - 1) /\ left \in Nat \ {0} /\ left = t - 64 * b
        /\ b <= w /\ (left > 11 <=> b < w)
        /\ reply.packet_buffer = <<p, b>> /\ reply.size = t
    BY <1>2, <1>4, <1>8, <2>1, <2>2, <2>3, ReplyNow
  <2>5. /\ t = 11 + len /\ len \in Nat \ {0} /\ w \in Nat \ {0} /\ Size(a) = t
        /\ 64 * (l - 1) < t /\ t <= 64 * l
    BY <1>4, <2>3, <2>4, ReplySizes
  <2>6. received' = b
    BY <1>3, <1>8, <2>1, ReplyLeavesCard DEF OutFree, One
  <2>7. PICK c : c = b + 1 /\ c \in Nat \ {0, 1} /\ c \in 1..l
    BY <1>3, <1>4, <2>4
  <2>8. LowOf(a, c) = <<p, b>>
    BY <1>3, <2>3, <2>7 DEF LowOf
  <2>9. CASE left <= 11
    <3>1. /\ reply'.state = "ST_IDLE" /\ reply'.tvalid = TRUE /\ reply'.tlast = TRUE
          /\ reply'.low = <<p, b>> /\ reply'.high = Nothing
          /\ reply'.keep = left /\ reply'.size = t
      BY <1>1, <1>8, <2>3, <2>4, <2>9, ReplyFromSend
    <3>2. n = c
      BY <1>3, <2>6, <2>7, <3>1 DEF One
    <3>3. c = l
      <4>1. t <= 64 * b + 11 /\ 64 * (l - 1) < t /\ b <= l - 1
        BY <1>3, <1>4, <2>4, <2>5, <2>9
      <4>2. b = l - 1
        BY <1>3, <1>4, <2>5, <4>1
      <4>3. QED
        BY <1>3, <1>4, <2>7, <4>2
    <3>4. HighOf(a, c) = Nothing
      <4>1. ~(c <= w)
        BY <1>3, <2>4, <2>5, <2>7, <2>9
      <4>2. QED
        BY <2>3, <4>1 DEF HighOf
    <3>5. KeepOf(a, c) = left
      <4>1. KeepOf(a, c) = t - 64 * (l - 1)
        BY <1>4, <2>5, <3>3 DEF KeepOf
      <4>2. QED
        BY <1>3, <1>4, <2>4, <2>7, <3>3, <4>1
    <3>6. ShowsBeat(a, c)'
      <4>1. /\ reply'.low = LowOf(a, c) /\ reply'.high = HighOf(a, c)
            /\ reply'.keep = KeepOf(a, c) /\ reply'.size = Size(a)
        BY <2>5, <2>8, <3>1, <3>4, <3>5
      <4>2. c \in 1..LastBeat(a) /\ c = LastBeat(a) /\ reply'.tlast = TRUE
        BY <1>4, <2>7, <3>1, <3>3
      <4>3. QED
        BY <4>1, <4>2 DEF ShowsBeat
    <3>7. QED
      BY <1>2, <1>3, <1>4, <3>1, <3>2, <3>3, <3>6, ReplyAtNext
  <2>10. CASE left > 11 /\ slice = <<>>
    <3>1. /\ reply'.state = "ST_SEND" /\ reply'.tvalid = FALSE
          /\ reply'.packet_buffer = reply.packet_buffer /\ reply'.bytes_left = left
          /\ reply'.size = t
      BY <1>1, <1>8, <2>3, <2>4, <2>10, ReplyFromSend
    <3>2. n = b
      BY <1>3, <2>6, <3>1 DEF One
    <3>3. QED
      BY <1>2, <1>3, <1>4, <2>3, <2>4, <3>1, <3>2, ReplyAtNext
  <2>11. CASE left > 11 /\ slice # <<>>
    <3>1. TakesWord(tready)
      BY <1>8, <2>3, <2>11
      DEF TakesWord, Lup!ram_ready, Lup!s_axis_ram_ready, OutFree, Lup!OutFree, Lup!NeedsWord,
          Lup!HEADER_BYTES
    <3>2. WordsTaken = b
      BY <1>2, <1>8 DEF WordsTaken
    <3>3. Word.part = <<p, c>>
      BY <2>2, <2>3, <2>7, <3>1, <3>2, HeadWord
    <3>4. /\ reply'.tvalid = TRUE
          /\ (left <= 64 => reply'.tlast = TRUE) /\ (left > 64 => reply'.tlast = FALSE)
          /\ reply'.state = IF left <= 64 THEN "ST_IDLE" ELSE "ST_SEND"
          /\ reply'.low = <<p, b>> /\ reply'.high = <<p, c>>
          /\ reply'.keep = IF left <= 64 THEN left ELSE 64
          /\ reply'.packet_buffer = <<p, c>> /\ reply'.size = t
          /\ reply'.bytes_left = left - IF left <= 64 THEN left ELSE 64
      BY <1>1, <1>8, <2>3, <2>4, <2>11, <3>3, ReplyFromSend
    <3>5. n = c
      BY <1>3, <2>6, <2>7, <3>4 DEF One
    <3>6. left <= 64 <=> c = l
      BY <1>3, <1>4, <2>4, <2>5, <2>7
    <3>7. HighOf(a, c) = <<p, c>>
      <4>1. c <= w
        BY <1>3, <2>4, <2>5, <2>7, <2>11
      <4>2. QED
        BY <2>3, <4>1 DEF HighOf
    <3>8. KeepOf(a, c) = IF left <= 64 THEN left ELSE 64
      <4>1. KeepOf(a, c) = IF c = l THEN t - 64 * (l - 1) ELSE 64
        BY <1>4, <2>5 DEF KeepOf
      <4>2. c = l => t - 64 * (l - 1) = left
        BY <1>3, <1>4, <2>4, <2>5, <2>7
      <4>3. QED
        BY <3>6, <4>1, <4>2
    <3>9. /\ c = l => reply'.tlast = TRUE /\ reply'.state = "ST_IDLE"
          /\ c # l => /\ reply'.tlast = FALSE /\ reply'.state = "ST_SEND"
                      /\ reply'.bytes_left = left - 64 /\ c \in 1..(l - 1)
                      /\ left - 64 = t - 64 * c
      <4>1. c = l => reply'.tlast = TRUE /\ reply'.state = "ST_IDLE"
        BY <3>4, <3>6
      <4>2. c # l => left > 64 /\ ~(left <= 64) /\ c \in 1..(l - 1)
        BY <1>4, <2>4, <2>7, <3>6
      <4>3. left - 64 = t - 64 * c
        BY <1>3, <2>4, <2>5, <2>7
      <4>4. QED
        BY <3>4, <4>1, <4>2, <4>3
    <3>10. ShowsBeat(a, c)'
      <4>1. /\ reply'.low = LowOf(a, c) /\ reply'.high = HighOf(a, c)
            /\ reply'.keep = KeepOf(a, c) /\ reply'.size = Size(a)
        BY <2>5, <2>8, <3>4, <3>7, <3>8
      <4>2. /\ c \in 1..LastBeat(a)
            /\ c = LastBeat(a) => reply'.tlast = TRUE
            /\ c # LastBeat(a) => reply'.tlast = FALSE
        BY <1>4, <2>7, <3>9
      <4>3. QED
        BY <4>1, <4>2 DEF ShowsBeat
    <3>11. QED
      <4>1. /\ c = BeatNumber' /\ c \in Nat
            /\ reply'.state # "ST_WAIT_FIRST"
            /\ reply'.state = "ST_SEND" =>
                 /\ a.hit /\ c \in 1..(LastBeat(a) - 1)
                 /\ reply'.bytes_left = Bytes(a) - 64 * c
                 /\ reply'.packet_buffer = <<a.pointer, c>> /\ reply'.size = Bytes(a)
            /\ reply'.state = "ST_IDLE" => c = LastBeat(a)
        BY <1>2, <1>4, <2>3, <2>4, <2>7, <3>4, <3>5, <3>9
      <4>2. QED
        BY <3>10, <4>1, ReplyAtNext
  <2>12. left <= 11 \/ left > 11
    BY <2>4
  <2>13. QED
    BY <2>9, <2>10, <2>11, <2>12
<1>9. QED
  BY <1>5, <1>6, <1>7, <1>8 DEF LookupTypes

-----------------------------------------------------------------------------
(* The places after a cycle.                                                *)

LEMMA KeyIsAsker ==
  ASSUME LookupTypes, Line
  PROVE  /\ HasKey => lupParser.key \in Asker
         /\ \A n \in 1..All : asked[n].key \in Asker
<1>1. PICK n, p : n = All /\ p = ToParser
  OBVIOUS
<1>2. n \in Nat /\ n = Len(asked) /\ p \in Nat /\ p <= n
  BY <1>1, PlaceCounts DEF Line
<1>3. \A i \in 1..n : asked[i] \in [key : Asker, answer : Answer \cup {None}]
  BY <1>2, ElementOfSeq DEF LookupTypes
<1>4. \A i \in 1..n : asked[i].key \in Asker
  BY <1>3
<1>5. HasKey => p \in 1..n
  <2>1. HasKey => ToParser = ToPeers + 1
    BY DEF ToParser, One
  <2>2. HasKey => p >= 1
    BY <1>1, <2>1, PlaceCounts
  <2>3. QED
    BY <1>2, <2>2
<1>6. HasKey => lupParser.key = asked[p].key
  BY <1>1 DEF Line
<1>7. QED
  BY <1>1, <1>4, <1>5, <1>6

LEMMA PlacesMove ==
  ASSUME LookupTypes, Line, PeersParser, Headers,
         NEW key, NEW now, NEW tready, NEW serve, NEW works,
         LookStep(key, now, tready, serve, works),
         NEW d, d = One(Leaves(tready))
  PROVE  /\ d \in {0, 1}
         /\ ToReply' = ToReply - d + One(TakesMeta(tready))
         /\ ToSplit' = ToSplit - d + One(SplitTakes(tready, works))
         /\ ToAnswers' = ToAnswers - d + One(StoresAnswer)
         /\ ToServed' = ToServed - d + One(LookServes(serve))
         /\ ToTable' = ToTable - d + One(LookReads)
         /\ ToPeers' = ToPeers - d + One(HasKey)
         /\ ToParser' = ToParser - d + One(PeerTaken)
         /\ All' = All - d + One(key # None)
<1>1. \A b : One(b) \in {0, 1}
  BY DEF One
<1>2. One(Busy') = One(Busy) - d + One(TakesMeta(tready))
  <2>1. /\ Busy' <=> TakesMeta(tready) \/ (Busy /\ ~Leaves(tready))
        /\ TakesMeta(tready) /\ Busy => Leaves(tready)
    BY BusyMoves
  <2>2. Leaves(tready) => Busy
    BY DEF Leaves, Busy
  <2>3. QED
    BY <2>1, <2>2 DEF One
<1>3. One(HasResult') = One(HasResult) - One(TakesMeta(tready)) + One(SplitTakes(tready, works))
  <2>1. HasResult' <=> SplitTakes(tready, works) \/ (HasResult /\ ~TakesMeta(tready))
    BY SplitMoves
  <2>2. /\ TakesMeta(tready) => HasResult
        /\ SplitTakes(tready, works) /\ HasResult => TakesMeta(tready)
    BY DEF TakesMeta, SplitTakes
  <2>3. QED
    BY <2>1, <2>2 DEF One
<1>4. /\ Len(fifo_lup_rsp') = Len(fifo_lup_rsp) - One(SplitTakes(tready, works)) + One(StoresAnswer)
      /\ Len(fifo_lup_rsp') \in Nat
  <2>1. PICK p : p = One(SplitTakes(tready, works))
    OBVIOUS
  <2>2. Len(fifo_lup_rsp') = Len(fifo_lup_rsp) - p + One(StoresAnswer)
        /\ fifo_lup_rsp' \in Seq(SentAnswer)
    BY <2>1, AnswersMove
  <2>3. QED
    BY <2>1, <2>2, LenProperties
<1>5. One(HasAnswer') = One(HasAnswer) - One(StoresAnswer) + One(LookServes(serve))
  <2>1. HasAnswer' <=> LookServes(serve) \/ (HasAnswer /\ ~StoresAnswer)
    BY TableMoves
  <2>2. /\ StoresAnswer => HasAnswer
        /\ LookServes(serve) => ~HasAnswer
    BY DEF StoresAnswer, LookServes
  <2>3. QED
    BY <2>1, <2>2 DEF One
<1>6. One(HasRequest') = One(HasRequest) - One(LookServes(serve)) + One(LookReads)
  <2>1. HasRequest' <=> LookReads \/ (HasRequest /\ ~LookServes(serve))
    BY TableMoves
  <2>2. /\ LookServes(serve) => HasRequest
        /\ LookReads => ~HasRequest
    BY DEF LookReads, LookServes
  <2>3. QED
    BY <2>1, <2>2 DEF One
<1>7. /\ Len(fifo_peer_request') = Len(fifo_peer_request) - One(LookReads) + One(HasKey)
      /\ Len(fifo_peer_request') \in Nat
  <2>1. PICK p : p = One(LookReads)
    OBVIOUS
  <2>2. Len(fifo_peer_request') = Len(fifo_peer_request) - p + One(HasKey)
        /\ fifo_peer_request' \in Seq(Asker)
    BY <2>1, RequestsMove, KeyIsAsker
  <2>3. QED
    BY <2>1, <2>2, LenProperties
<1>8. One(HasKey') = One(PeerTaken)
  <2>1. HasKey' <=> PeerTaken
    BY PeersMove
  <2>2. QED
    BY <2>1 DEF One
<1>9. One(offered' # None) = One(offered # None) - One(PeerTaken) + One(key # None)
  <2>1. /\ PeerTaken => offered # None
        /\ offered' = IF key # None THEN Lup!Packet(key) ELSE IF PeerTaken THEN None ELSE offered
        /\ key # None => offered = None \/ PeerTaken
    BY PeersMove
  <2>2. Lup!Packet(key) # None
    <3>1. PICK q : q = Lup!Packet(key)
      OBVIOUS
    <3>2. DOMAIN q = {"head", "val", "part", "last", "keep"}
      BY <3>1 DEF Lup!Packet
    <3>3. DOMAIN None = {"none"}
      BY DEF None
    <3>4. QED
      BY <3>1, <3>2, <3>3
  <2>3. (offered' # None) <=> key # None \/ (offered # None /\ ~PeerTaken)
    BY <2>1, <2>2
  <2>4. QED
    BY <2>1, <2>3 DEF One
<1>10. Len(fifo_lup_rsp) \in Nat /\ Len(fifo_peer_request) \in Nat
  BY PlaceCounts
<1>11. d \in {0, 1}
  BY <1>1
<1>12. ToReply' = ToReply - d + One(TakesMeta(tready))
  BY <1>2 DEF ToReply
<1>13. ToSplit' = ToSplit - d + One(SplitTakes(tready, works))
  BY <1>1, <1>3, <1>11, <1>12 DEF ToSplit, ToReply
<1>14. ToAnswers' = ToAnswers - d + One(StoresAnswer)
  <2>1. ToAnswers' = ToSplit' + Len(fifo_lup_rsp')
    BY DEF ToAnswers
  <2>2. ToAnswers = ToSplit + Len(fifo_lup_rsp) /\ ToSplit \in Nat
    BY PlaceCounts
  <2>3. PICK l, n, p, q : /\ l = Len(fifo_lup_rsp) /\ n = Len(fifo_lup_rsp')
                          /\ p = One(SplitTakes(tready, works)) /\ q = One(StoresAnswer)
    OBVIOUS
  <2>4. n = l - p + q /\ ToSplit' = ToSplit - d + p /\ p \in {0, 1} /\ q \in {0, 1}
    BY <1>1, <1>4, <1>13, <2>3
  <2>5. ToAnswers' = ToSplit' + n /\ ToAnswers = ToSplit + l /\ l \in Nat
    BY <1>10, <2>1, <2>2, <2>3
  <2>6. ToAnswers' = ToAnswers - d + q
    <3>1. PICK x, s, y, a : /\ x = ToSplit' /\ s = ToSplit /\ y = ToAnswers' /\ a = ToAnswers
                            /\ s \in Nat
      BY <2>2
    <3>2. x = s - d + p /\ y = x + n /\ a = s + l
      BY <2>4, <2>5, <3>1
    <3>3. y = a - d + q
      BY <1>11, <2>4, <2>5, <3>1, <3>2
    <3>4. QED
      BY <3>1, <3>3
  <2>7. QED
    BY <2>3, <2>6
<1>15. ToServed' = ToServed - d + One(LookServes(serve))
  <2>1. ToServed' = ToAnswers' + One(HasAnswer')
    BY DEF ToServed
  <2>2. ToServed = ToAnswers + One(HasAnswer) /\ ToAnswers \in Nat
    BY PlaceCounts DEF ToServed
  <2>3. QED
    BY <1>1, <1>5, <1>11, <1>14, <2>1, <2>2
<1>16. ToTable' = ToTable - d + One(LookReads)
  <2>1. ToTable' = ToServed' + One(HasRequest')
    BY DEF ToTable
  <2>2. ToTable = ToServed + One(HasRequest) /\ ToServed \in Nat
    BY PlaceCounts DEF ToTable
  <2>3. QED
    BY <1>1, <1>6, <1>11, <1>15, <2>1, <2>2
<1>17. ToPeers' = ToPeers - d + One(HasKey)
  <2>1. ToPeers' = ToTable' + Len(fifo_peer_request')
    BY DEF ToPeers
  <2>2. ToPeers = ToTable + Len(fifo_peer_request) /\ ToTable \in Nat
    BY PlaceCounts
  <2>3. PICK l, n, p, q : /\ l = Len(fifo_peer_request) /\ n = Len(fifo_peer_request')
                          /\ p = One(LookReads) /\ q = One(HasKey)
    OBVIOUS
  <2>4. n = l - p + q /\ ToTable' = ToTable - d + p /\ p \in {0, 1} /\ q \in {0, 1}
    BY <1>1, <1>7, <1>16, <2>3
  <2>5. ToPeers' = ToTable' + n /\ ToPeers = ToTable + l /\ l \in Nat
    BY <1>10, <2>1, <2>2, <2>3
  <2>6. ToPeers' = ToPeers - d + q
    <3>1. PICK x, s, y, a : x = ToTable' /\ s = ToTable /\ y = ToPeers' /\ a = ToPeers /\ s \in Nat
      BY <2>2
    <3>2. x = s - d + p /\ y = x + n /\ a = s + l
      BY <2>4, <2>5, <3>1
    <3>3. y = a - d + q
      BY <1>11, <2>4, <2>5, <3>1, <3>2
    <3>4. QED
      BY <3>1, <3>3
  <2>7. QED
    BY <2>3, <2>6
<1>18. ToParser' = ToParser - d + One(PeerTaken)
  <2>1. ToParser' = ToPeers' + One(HasKey')
    BY DEF ToParser
  <2>2. ToParser = ToPeers + One(HasKey) /\ ToPeers \in Nat
    BY PlaceCounts DEF ToParser
  <2>3. QED
    BY <1>1, <1>8, <1>11, <1>17, <2>1, <2>2
<1>19. All' = All - d + One(key # None)
  <2>1. All' = ToParser' + One(offered' # None)
    BY DEF All
  <2>2. All = ToParser + One(offered # None) /\ ToParser \in Nat
    BY PlaceCounts DEF All
  <2>3. QED
    BY <1>1, <1>9, <1>11, <1>18, <2>1, <2>2
<1>20. QED
  BY <1>11, <1>12, <1>13, <1>14, <1>15, <1>16, <1>17, <1>18, <1>19
LEMMA AskedKept ==
  ASSUME LookupTypes, Line, NEW key, NEW now, NEW tready, NEW serve, NEW works,
         LookStep(key, now, tready, serve, works),
         NEW d, d = One(Leaves(tready))
  PROVE  /\ d \in {0, 1} /\ d <= ToReply
         /\ \A m \in 1..ToServed : m > d => asked'[m - d].answer = asked[m].answer
         /\ \A m \in 1..All : m > d /\ ~(LookServes(serve) /\ m = ToServed + 1) =>
                               asked'[m - d].answer = asked[m].answer
         /\ \A m \in 1..All : m > d => asked'[m - d].key = asked[m].key
         /\ LookServes(serve) =>
              /\ asked'[ToServed + 1 - d].answer = NewAnswer
              /\ asked'[ToServed + 1 - d].key = NewAnswer.key
              /\ ToTable = ToServed + 1
<1>1. d \in {0, 1} /\ d <= ToReply
  <2>1. Leaves(tready) => Busy
    BY DEF Leaves, Busy
  <2>2. QED
    BY <2>1 DEF One, ToReply
<1>2. PICK s, n, f : s = ToServed /\ n = All /\ f = ToTable
  OBVIOUS
<1>3. s \in Nat /\ n \in Nat /\ f \in s..(s + 1) /\ f <= n /\ d <= s
  BY <1>1, <1>2, PlaceCounts
<1>4. \A i \in 1..(n - d) :
        /\ asked'[i].key = asked[i + d].key
        /\ ~(LookServes(serve) /\ i + d = s + 1) => asked'[i].answer = asked[i + d].answer
        /\ LookServes(serve) /\ i + d = s + 1 => asked'[i].answer = NewAnswer
  <2>1. \A i \in 1..(All - d) :
          /\ asked'[i].key = asked[i + d].key
          /\ ~(LookServes(serve) /\ i + d = ToServed + 1) =>
               asked'[i].answer = asked[i + d].answer
          /\ LookServes(serve) /\ i + d = ToServed + 1 => asked'[i].answer = NewAnswer
    <3>1. StillAsked(serve, d)
      BY AskedMoves
    <3>2. QED
      BY <3>1 DEF StillAsked
  <2>2. QED
    BY <1>2, <2>1
<1>5. ASSUME NEW m \in 1..n, m > d
      PROVE  /\ asked'[m - d].key = asked[m].key
             /\ ~(LookServes(serve) /\ m = s + 1) => asked'[m - d].answer = asked[m].answer
             /\ LookServes(serve) /\ m = s + 1 => asked'[m - d].answer = NewAnswer
  <2>1. PICK i : i = m - d /\ i \in 1..(n - d) /\ i + d = m
    BY <1>1, <1>3, <1>5
  <2>2. QED
    BY <1>3, <1>4, <2>1
<1>6. LookServes(serve) => f = s + 1 /\ lupHash.request = asked[f].key
  BY <1>2 DEF LookServes, ToTable, One, Line
<1>7. LookServes(serve) => NewAnswer.key = lupHash.request
  BY NewAnswerIsAnswer DEF LookServes
<1>8. ASSUME LookServes(serve)
      PROVE  /\ asked'[s + 1 - d].answer = NewAnswer /\ asked'[s + 1 - d].key = NewAnswer.key
             /\ ToTable = s + 1
  <2>1. PICK m, i : /\ m = s + 1 /\ m \in 1..n /\ m > d /\ m = f
                    /\ i = m - d /\ i = s + 1 - d
    BY <1>1, <1>3, <1>6, <1>8
  <2>2. asked'[i].answer = NewAnswer /\ asked'[i].key = asked[f].key
    BY <1>5, <1>8, <2>1
  <2>3. QED
    BY <1>2, <1>6, <1>7, <1>8, <2>1, <2>2
<1>9. \A m \in 1..s : m > d => asked'[m - d].answer = asked[m].answer
  BY <1>3, <1>5
<1>10. \A m \in 1..n : m > d => asked'[m - d].key = asked[m].key
  BY <1>5
<1>11. \A m \in 1..n : m > d /\ ~(LookServes(serve) /\ m = s + 1) =>
                        asked'[m - d].answer = asked[m].answer
  BY <1>5
<1>12. QED
  BY <1>1, <1>2, <1>8, <1>9, <1>10, <1>11

LEMMA LineStep ==
  ASSUME LookupTypes, Line, PeersParser, Headers,
         NEW key, NEW now, NEW tready, NEW serve, NEW works,
         LookStep(key, now, tready, serve, works)
  PROVE  Line'
<1>1. PICK d : d = One(Leaves(tready))
  OBVIOUS
<1>2. PICK rp, sp, an, sv, tb, pe, pa, al :
        /\ rp = ToReply /\ sp = ToSplit /\ an = ToAnswers /\ sv = ToServed /\ tb = ToTable
        /\ pe = ToPeers /\ pa = ToParser /\ al = All
  OBVIOUS
<1>3. PICK la, lr : la = Len(fifo_lup_rsp) /\ lr = Len(fifo_peer_request)
  OBVIOUS
<1>4. /\ rp \in {0, 1} /\ sp \in rp..(rp + 1) /\ la \in Nat /\ an = sp + la
      /\ sv \in an..(an + 1) /\ tb \in sv..(sv + 1) /\ lr \in Nat /\ pe = tb + lr
      /\ pa \in pe..(pe + 1) /\ al \in pa..(pa + 1)
  BY <1>2, <1>3, PlaceCounts
<1>5. PICK tm, st, sa, ls, rd, hk, pt, nk :
        /\ tm = One(TakesMeta(tready)) /\ st = One(SplitTakes(tready, works))
        /\ sa = One(StoresAnswer) /\ ls = One(LookServes(serve)) /\ rd = One(LookReads)
        /\ hk = One(HasKey) /\ pt = One(PeerTaken) /\ nk = One(key # None)
  OBVIOUS
<1>6. /\ tm \in {0, 1} /\ st \in {0, 1} /\ sa \in {0, 1} /\ ls \in {0, 1} /\ rd \in {0, 1}
      /\ hk \in {0, 1} /\ pt \in {0, 1} /\ nk \in {0, 1}
  BY <1>5 DEF One
<1>7. /\ ToReply' = rp - d + tm /\ ToSplit' = sp - d + st /\ ToAnswers' = an - d + sa
      /\ ToServed' = sv - d + ls /\ ToTable' = tb - d + rd /\ ToPeers' = pe - d + hk
      /\ ToParser' = pa - d + pt /\ All' = al - d + nk
  BY <1>1, <1>2, <1>5, PlacesMove
<1>8. /\ d \in {0, 1} /\ d <= rp
      /\ \A m \in 1..sv : m > d => asked'[m - d].answer = asked[m].answer
      /\ \A m \in 1..al : m > d /\ ~(LookServes(serve) /\ m = sv + 1) =>
                            asked'[m - d].answer = asked[m].answer
      /\ \A m \in 1..al : m > d => asked'[m - d].key = asked[m].key
      /\ LookServes(serve) =>
           /\ asked'[sv + 1 - d].answer = NewAnswer
           /\ asked'[sv + 1 - d].key = NewAnswer.key
           /\ tb = sv + 1
  BY <1>1, <1>2, AskedKept
<1>9. /\ Len(asked) = al /\ al <= MaxAsked
      /\ \A n \in 1..al : asked[n].answer # None <=> n <= sv
      /\ \A n \in 1..sv : asked[n].answer.key = asked[n].key
      /\ HasResult => split.key = asked[sp].answer.key /\ split.hit = asked[sp].answer.hit
      /\ \A n \in 1..la : Tells(fifo_lup_rsp[n], asked[sp + n].answer)
      /\ HasAnswer => Tells(lupHash.answer, asked[sv].answer)
      /\ HasRequest => lupHash.request = asked[tb].key
      /\ \A n \in 1..lr : fifo_peer_request[n] = asked[tb + n].key
      /\ HasKey => lupParser.key = asked[pa].key
      /\ offered # None => offered = Lup!Packet(asked[al].key)
  BY <1>2, <1>3 DEF Line
<1>10. /\ HasResult => sp = rp + 1
       /\ HasAnswer => sv = an + 1
       /\ HasRequest => tb = sv + 1
       /\ HasKey => pa = pe + 1
       /\ offered # None => al = pa + 1
  BY <1>2 DEF ToSplit, ToServed, ToTable, ToParser, All, One
<1>11. /\ Len(asked') = al - d + nk
       /\ key # None => asked'[Len(asked')] = [key |-> key, answer |-> None]
  BY <1>1, <1>2, <1>5, AskedMoves
<1>12. LookServes(serve) => ls = 1 /\ NewAnswer # None
  BY <1>5, NewAnswerIsAnswer, AnswersAreSome DEF One, LookServes
<1>13. Len(asked') = All' /\ All' <= MaxAsked
  <2>1. key # None => al < MaxAsked
    BY <1>2, PeersMove
  <2>2. (nk = 1 => key # None) /\ MaxAsked \in Nat
    BY <1>5, LookupAssumption DEF One, Lup!LookupPathAssumption
  <2>3. Len(asked') = All'
    BY <1>7, <1>11
  <2>4. PICK a, m : a = All' /\ m = MaxAsked
    OBVIOUS
  <2>5. a = al - d + nk /\ m \in Nat /\ al <= m /\ (nk = 1 => al < m)
    BY <1>7, <1>9, <2>1, <2>2, <2>4
  <2>6. a <= m
    BY <1>4, <1>6, <1>8, <2>5
  <2>7. QED
    BY <2>3, <2>4, <2>6
<1>14. ASSUME NEW n \in 1..All'
       PROVE  asked'[n].answer # None <=> n <= ToServed'
  <2>1. PICK m : m = n + d /\ n = m - d /\ m > d /\ m \in Nat
    BY <1>8
  <2>2. CASE m <= sv
    <3>1. m \in 1..sv /\ m \in 1..al
      BY <1>4, <1>8, <2>1, <2>2
    <3>2. asked'[n].answer = asked[m].answer /\ asked[m].answer # None
      BY <1>8, <1>9, <2>1, <2>2, <3>1
    <3>3. n <= ToServed'
      BY <1>4, <1>6, <1>7, <1>8, <2>1, <2>2
    <3>4. QED
      BY <3>2, <3>3
  <2>3. CASE m > sv /\ LookServes(serve) /\ m = sv + 1
    <3>1. asked'[n].answer = NewAnswer
      <4>1. n = sv + 1 - d
        BY <1>4, <1>8, <2>1, <2>3
      <4>2. QED
        BY <1>8, <2>3, <4>1
    <3>2. n <= ToServed'
      BY <1>4, <1>7, <1>8, <1>12, <2>1, <2>3
    <3>3. QED
      BY <1>12, <2>3, <3>1, <3>2
  <2>4. CASE m > sv /\ ~(LookServes(serve) /\ m = sv + 1)
    <3>1. ~(n <= ToServed')
      <4>1. ls = 1 => m # sv + 1
        BY <1>5, <2>4 DEF One
      <4>2. PICK s : s = ToServed' /\ s = sv - d + ls
        BY <1>7
      <4>3. m >= sv + 1 /\ (ls = 1 => m >= sv + 2)
        BY <1>4, <2>1, <2>4, <4>1
      <4>4. ~(n <= s)
        BY <1>4, <1>6, <1>8, <2>1, <4>2, <4>3
      <4>5. QED
        BY <4>2, <4>4
    <3>2. CASE m <= al
      <4>1. m \in 1..al /\ ~(m <= sv)
        BY <1>4, <1>8, <2>1, <2>4, <3>2
      <4>2. asked'[n].answer = asked[m].answer
        BY <1>8, <2>1, <2>4, <4>1
      <4>3. asked[m].answer = None
        BY <1>9, <4>1
      <4>4. QED
        BY <2>1, <3>1, <4>2, <4>3
    <3>3. CASE ~(m <= al)
      <4>1. PICK a : a = All' /\ a = al - d + nk /\ a = Len(asked') /\ n \in 1..a
        BY <1>7, <1>11
      <4>2. n = Len(asked') /\ nk = 1
        BY <1>4, <1>6, <1>8, <2>1, <3>3, <4>1
      <4>3. key # None
        BY <1>5, <4>2 DEF One
      <4>4. asked'[n].answer = None
        BY <1>11, <4>2, <4>3
      <4>5. QED
        BY <3>1, <4>4
    <3>4. QED
      BY <3>2, <3>3
  <2>5. m <= sv \/ m > sv
    BY <1>4, <2>1
  <2>6. QED
    BY <2>2, <2>3, <2>4, <2>5
<1>15. ASSUME NEW n \in 1..ToServed'
       PROVE  asked'[n].answer.key = asked'[n].key
  <2>1. PICK m : m = n + d /\ n = m - d /\ m > d /\ m \in Nat
    BY <1>8
  <2>2. CASE m <= sv
    <3>1. m \in 1..sv /\ m \in 1..al
      BY <1>4, <1>8, <2>1, <2>2
    <3>2. asked'[n].answer = asked[m].answer /\ asked'[n].key = asked[m].key
      BY <1>8, <2>1, <3>1
    <3>3. QED
      BY <1>9, <3>1, <3>2
  <2>3. CASE m > sv
    <3>1. PICK s1 : s1 = ToServed' /\ s1 = sv - d + ls /\ n \in 1..s1
      BY <1>7
    <3>2. ls = 1 /\ m = sv + 1
      BY <1>4, <1>6, <1>8, <2>1, <2>3, <3>1
    <3>3. LookServes(serve)
      BY <1>5, <3>2 DEF One
    <3>4. n = sv + 1 - d
      BY <1>4, <1>8, <2>1, <3>2
    <3>5. QED
      BY <1>8, <3>3, <3>4
  <2>4. QED
    BY <1>4, <2>1, <2>2, <2>3
\* An answer that has been served, and a key, a step further on.
<1>16. ASSUME NEW i \in Int, NEW m \in 1..sv, i = m - d, i >= 1
       PROVE  asked'[i].answer = asked[m].answer
  <2>1. m > d
    BY <1>8, <1>16
  <2>2. QED
    BY <1>8, <1>16, <2>1
<1>17. ASSUME NEW i \in Int, NEW m \in 1..al, i = m - d, i >= 1
       PROVE  asked'[i].key = asked[m].key
  <2>1. m > d
    BY <1>8, <1>17
  <2>2. QED
    BY <1>8, <1>17, <2>1
<1>18. ~strayed' => ~strayed
  BY TableMoves
<1>19. ASSUME HasResult'
       PROVE  /\ split'.key = asked'[ToSplit'].answer.key
              /\ split'.hit = asked'[ToSplit'].answer.hit
  <2>1. ToSplit' = ToReply' + 1
    BY <1>19 DEF ToSplit, One
  <2>2. PICK i, m : i = ToSplit' /\ m = sp + st /\ i \in Int /\ m \in Nat /\ i = m - d /\ i >= 1
    BY <1>4, <1>6, <1>7, <1>8, <2>1
  <2>3. CASE SplitTakes(tready, works)
    <3>1. /\ split'.key = Head(fifo_lup_rsp).key /\ split'.hit = Head(fifo_lup_rsp).hit
          /\ fifo_lup_rsp # <<>>
      BY <2>3, SplitMoves DEF SplitTakes
    <3>2. Head(fifo_lup_rsp) = fifo_lup_rsp[1]
      OBVIOUS
    <3>3. la >= 1
      BY <1>3, <1>4, <3>1, EmptySeq DEF LookupTypes
    <3>4. m = sp + 1 /\ m \in 1..sv
      BY <1>4, <1>5, <2>2, <2>3, <3>3 DEF One
    <3>5. Tells(fifo_lup_rsp[1], asked[m].answer)
      <4>1. 1 \in 1..la
        BY <1>4, <3>3
      <4>2. Tells(fifo_lup_rsp[1], asked[sp + 1].answer)
        BY <1>2, <1>3, <4>1 DEF Line
      <4>3. QED
        BY <3>4, <4>2
    <3>6. QED
      BY <1>16, <2>2, <3>1, <3>2, <3>4, <3>5 DEF Tells
  <2>4. CASE ~SplitTakes(tready, works)
    <3>1. /\ split'.key = split.key /\ split'.hit = split.hit /\ HasResult
      BY <1>19, <2>4, SplitMoves
    <3>2. m = sp /\ m \in 1..sv
      BY <1>4, <1>5, <1>10, <2>2, <2>4, <3>1 DEF One
    <3>3. QED
      BY <1>9, <1>16, <2>2, <3>1, <3>2
  <2>5. QED
    BY <2>3, <2>4
<1>20. ASSUME NEW n \in 1..Len(fifo_lup_rsp')
       PROVE  Tells(fifo_lup_rsp[n], asked[ToSplit + n].answer)'
  <2>1. /\ Len(fifo_lup_rsp') = la - st + sa
        /\ \A k \in 1..(la - st) : fifo_lup_rsp'[k] = fifo_lup_rsp[k + st]
        /\ StoresAnswer => fifo_lup_rsp'[Len(fifo_lup_rsp')] = lupHash.answer
        /\ st <= la
    BY <1>3, <1>5, AnswersMove
  <2>2. PICK i, m : i = ToSplit' + n /\ m = sp + st + n /\ i \in Int /\ m \in Nat /\ i = m - d
                    /\ i >= 1
    <3>1. ToSplit' \in Nat
      BY <1>4, <1>6, <1>7, <1>8
    <3>2. QED
      BY <1>4, <1>6, <1>7, <1>8, <3>1
  <2>3. CASE n <= la - st
    <3>1. PICK k : k = n + st /\ k \in 1..la /\ n \in 1..(la - st) /\ m = sp + k /\ m \in 1..sv
      BY <1>4, <1>6, <2>1, <2>2, <2>3
    <3>2. Tells(fifo_lup_rsp'[n], asked[m].answer)
      BY <1>9, <2>1, <3>1
    <3>3. asked'[i].answer = asked[m].answer
      BY <1>16, <2>2, <3>1
    <3>4. QED
      BY <1>18, <2>2, <3>2, <3>3 DEF Tells
  <2>4. CASE n > la - st
    <3>1. sa = 1 /\ n = Len(fifo_lup_rsp') /\ n = la - st + 1
      BY <1>4, <1>6, <2>1, <2>4
    <3>2. StoresAnswer /\ HasAnswer
      BY <1>5, <3>1 DEF One, StoresAnswer
    <3>3. m = sv /\ m \in 1..sv
      BY <1>4, <1>6, <1>10, <2>2, <3>1, <3>2
    <3>4. Tells(fifo_lup_rsp'[n], asked[m].answer)
      BY <1>9, <2>1, <3>1, <3>2, <3>3
    <3>5. asked'[i].answer = asked[m].answer
      BY <1>16, <2>2, <3>3
    <3>6. QED
      BY <1>18, <2>2, <3>4, <3>5 DEF Tells
  <2>5. QED
    BY <1>4, <1>6, <2>3, <2>4
<1>21. ASSUME HasAnswer'
       PROVE  Tells(lupHash.answer, asked[ToServed].answer)'
  <2>1. ToServed' = ToAnswers' + 1
    BY <1>21 DEF ToServed, One
  <2>2. PICK i, m : i = ToServed' /\ m = sv + ls /\ i \in Int /\ m \in Nat /\ i = m - d /\ i >= 1
    BY <1>4, <1>6, <1>7, <1>8, <2>1
  <2>3. CASE LookServes(serve)
    <3>1. /\ lupHash'.answer.key = NewAnswer.key /\ lupHash'.answer.hit = NewAnswer.hit
          /\ ~strayed' => lupHash'.answer = NewAnswer
      BY <2>3, TableMoves
    <3>2. i = sv + 1 - d
      BY <1>4, <1>8, <1>12, <2>2, <2>3
    <3>3. asked'[i].answer = NewAnswer
      BY <1>8, <2>3, <3>2
    <3>4. QED
      BY <2>2, <3>1, <3>3 DEF Tells
  <2>4. CASE ~LookServes(serve)
    <3>1. HasAnswer /\ ~StoresAnswer
      BY <1>21, <2>4, TableMoves
    <3>2. lupHash'.answer = lupHash.answer
      BY <3>1, TableMoves
    <3>3. m = sv /\ m \in 1..sv
      BY <1>4, <1>5, <1>10, <2>2, <2>4, <3>1 DEF One
    <3>4. Tells(lupHash.answer, asked[sv].answer) /\ asked'[i].answer = asked[sv].answer
      BY <1>9, <1>16, <2>2, <3>1, <3>3
    <3>5. QED
      BY <1>18, <2>2, <3>2, <3>4 DEF Tells
  <2>5. QED
    BY <2>3, <2>4
<1>22. ASSUME HasRequest'
       PROVE  lupHash'.request = asked'[ToTable'].key
  <2>1. ToTable' = ToServed' + 1
    BY <1>22 DEF ToTable, One
  <2>2. PICK i, m : i = ToTable' /\ m = tb + rd /\ i \in Int /\ m \in Nat /\ i = m - d /\ i >= 1
    BY <1>4, <1>6, <1>7, <1>8, <2>1
  <2>3. CASE LookReads
    <3>1. lupHash'.request = Head(fifo_peer_request) /\ fifo_peer_request # <<>>
      BY <2>3, TableMoves DEF LookReads
    <3>2. Head(fifo_peer_request) = fifo_peer_request[1]
      OBVIOUS
    <3>3. lr >= 1
      BY <1>3, <1>4, <3>1, EmptySeq DEF LookupTypes
    <3>4. m = tb + 1 /\ m \in 1..al
      BY <1>4, <1>5, <2>2, <2>3, <3>3 DEF One
    <3>5. fifo_peer_request[1] = asked[m].key
      BY <1>4, <1>9, <3>3, <3>4
    <3>6. QED
      BY <1>17, <2>2, <3>1, <3>2, <3>4, <3>5
  <2>4. CASE ~LookReads
    <3>1. HasRequest /\ ~LookServes(serve)
      BY <1>22, <2>4, TableMoves
    <3>2. lupHash'.request = lupHash.request
      BY <3>1, TableMoves
    <3>3. m = tb /\ m \in 1..al
      BY <1>4, <1>5, <1>10, <2>2, <2>4, <3>1 DEF One
    <3>4. QED
      BY <1>9, <1>17, <2>2, <3>1, <3>2, <3>3
  <2>5. QED
    BY <2>3, <2>4
<1>23. ASSUME NEW n \in 1..Len(fifo_peer_request')
       PROVE  fifo_peer_request'[n] = asked'[ToTable' + n].key
  <2>1. /\ Len(fifo_peer_request') = lr - rd + hk
        /\ \A k \in 1..(lr - rd) : fifo_peer_request'[k] = fifo_peer_request[k + rd]
        /\ HasKey => fifo_peer_request'[Len(fifo_peer_request')] = lupParser.key
        /\ rd <= lr
    BY <1>3, <1>5, RequestsMove, KeyIsAsker
  <2>2. PICK i, m : i = ToTable' + n /\ m = tb + rd + n /\ i \in Int /\ m \in Nat /\ i = m - d
                    /\ i >= 1
    <3>1. ToTable' \in Nat
      BY <1>4, <1>6, <1>7, <1>8
    <3>2. QED
      BY <1>4, <1>6, <1>7, <1>8, <3>1
  <2>3. CASE n <= lr - rd
    <3>1. PICK k : k = n + rd /\ k \in 1..lr /\ n \in 1..(lr - rd) /\ m = tb + k /\ m \in 1..al
      BY <1>4, <1>6, <2>1, <2>2, <2>3
    <3>2. fifo_peer_request'[n] = asked[m].key
      BY <1>9, <2>1, <3>1
    <3>3. QED
      BY <1>17, <2>2, <3>1, <3>2
  <2>4. CASE n > lr - rd
    <3>1. hk = 1 /\ n = Len(fifo_peer_request') /\ n = lr - rd + 1
      BY <1>4, <1>6, <2>1, <2>4
    <3>2. HasKey
      BY <1>5, <3>1 DEF One
    <3>3. m = pa /\ m \in 1..al
      BY <1>4, <1>6, <1>10, <2>2, <3>1, <3>2
    <3>4. fifo_peer_request'[n] = asked[m].key
      BY <1>9, <2>1, <3>1, <3>2, <3>3
    <3>5. QED
      BY <1>17, <2>2, <3>3, <3>4
  <2>5. QED
    BY <1>4, <1>6, <2>3, <2>4
<1>24. ASSUME HasKey'
       PROVE  lupParser'.key = asked'[ToParser'].key
  <2>1. PeerTaken /\ offered # None /\ lupParser'.key = asked[al].key
    BY <1>2, <1>24, PeersMove
  <2>2. ToParser' = ToPeers' + 1
    BY <1>24 DEF ToParser, One
  <2>3. PICK i : i = ToParser' /\ i = al - d /\ i \in Int /\ i >= 1 /\ al \in 1..al
    <3>1. pt = 1 /\ al = pa + 1
      BY <1>5, <1>10, <2>1 DEF One
    <3>2. PICK i : i = ToParser' /\ i = pa - d + pt /\ i = pe - d + hk + 1
      BY <1>7, <2>2
    <3>3. i = al - d /\ i \in Int /\ i >= 1 /\ al \in 1..al
      BY <1>4, <1>6, <1>8, <3>1, <3>2
    <3>4. QED
      BY <3>2, <3>3
  <2>4. QED
    BY <1>17, <2>1, <2>3
<1>25. ASSUME offered' # None
       PROVE  offered' = Lup!Packet(asked'[All'].key)
  <2>1. offered' = IF key # None THEN Lup!Packet(key) ELSE IF PeerTaken THEN None ELSE offered
    BY PeersMove
  <2>2. CASE key # None
    <3>1. asked'[All'].key = key
      BY <1>11, <1>13, <2>2
    <3>2. QED
      BY <2>1, <2>2, <3>1
  <2>3. CASE key = None
    <3>1. offered' = offered /\ offered # None
      BY <1>25, <2>1, <2>3
    <3>2. PICK i : i = All' /\ i = al - d /\ i \in Int /\ i >= 1 /\ al \in 1..al
      <4>1. nk = 0 /\ All' = ToParser' + 1
        BY <1>5, <1>25, <2>3 DEF One, All
      <4>2. QED
        BY <1>4, <1>6, <1>7, <1>8, <4>1
    <3>3. QED
      BY <1>9, <1>17, <3>1, <3>2
  <2>4. QED
    BY <2>2, <2>3
<1>26. QED
  BY <1>13, <1>14, <1>15, <1>19, <1>20, <1>21, <1>22, <1>23, <1>24, <1>25 DEF Line
-----------------------------------------------------------------------------
(* The words after a cycle.                                                 *)

NewWords(tready, works) ==
    IF SplitTakes(tready, works) THEN Lup!Words(Head(fifo_lup_rsp).pointer) ELSE <<>>
StillAhead(tready) == IF TakesWord(tready) THEN Tail(Ahead) ELSE Ahead

LEMMA HeadAndTail ==
  ASSUME NEW S, NEW s \in Seq(S), s # <<>>
  PROVE  /\ Head(s) \in S /\ Tail(s) \in Seq(S) /\ <<Head(s)>> \in Seq(S)
         /\ <<Head(s)>> \o Tail(s) = s
<1>1. PICK n : n = Len(s) /\ n \in Nat \ {0}
  BY EmptySeq
<1>2. Head(s) \in S /\ Tail(s) \in Seq(S)
  BY HeadTailProperties
<1>3. <<Head(s)>> \in Seq(S)
  BY <1>2
<1>4. 1 \in 1..Len(s) /\ n \in 1..Len(s)
  BY <1>1
<1>5. SubSeq(s, 1, n) = <<s[1]>> \o SubSeq(s, 1 + 1, n)
  BY <1>1, <1>4, SubSeqRecursiveFirst
<1>6. SubSeq(s, 1, n) = s
  BY <1>1, SubSeqFull
<1>7. Tail(s) = SubSeq(s, 2, n)
  BY <1>1, TailIsSubSeq
<1>8. s[1] = Head(s) /\ 1 + 1 = 2
  OBVIOUS
<1>9. QED
  BY <1>2, <1>3, <1>5, <1>6, <1>7, <1>8

LEMMA NewAreWords ==
  ASSUME LookupTypes, NEW tready, NEW works
  PROVE  NewWords(tready, works) \in Seq(MemoryWord)
<1>1. CASE SplitTakes(tready, works)
  <2>1. fifo_lup_rsp # <<>> /\ fifo_lup_rsp \in Seq(SentAnswer)
    BY <1>1 DEF SplitTakes, LookupTypes
  <2>2. Head(fifo_lup_rsp) \in SentAnswer
    BY <2>1, HeadTailProperties
  <2>3. Head(fifo_lup_rsp).pointer \in Address
    BY <2>2 DEF SentAnswer
  <2>4. QED
    BY <1>1, <2>3, WordsOfBox DEF NewWords, MemoryWord
<1>2. CASE ~SplitTakes(tready, works)
  BY <1>2, EmptySeq DEF NewWords
<1>3. QED
  BY <1>1, <1>2

LEMMA AheadMoves ==
  ASSUME LookupTypes, NEW key, NEW now, NEW tready, NEW serve, NEW works,
         LookStep(key, now, tready, serve, works)
  PROVE  /\ slice' \in Seq(MemoryWord) /\ bram' \in Seq(MemoryWord)
         /\ Ahead' = StillAhead(tready) \o NewWords(tready, works)
         /\ StillAhead(tready) \in Seq(MemoryWord)
<1>1. PICK s, b, a, w, S : /\ s = Lup!Rest(slice, Lup!ram_ready(tready)) /\ b = bram
                           /\ a = Addressed /\ w = NewWords(tready, works) /\ S = MemoryWord
  OBVIOUS
<1>2. /\ slice \in Seq(S) /\ b \in Seq(S) /\ a \in Seq(S) /\ w \in Seq(S)
      /\ Ahead = (slice \o b) \o a
  BY <1>1, AheadIsWords, NewAreWords
<1>3. s = IF TakesWord(tready) THEN Tail(slice) ELSE slice
  BY <1>1 DEF Lup!Rest, TakesWord
<1>4. s \in Seq(S)
  <2>1. TakesWord(tready) => slice # <<>>
    BY DEF TakesWord
  <2>2. QED
    BY <1>2, <1>3, <2>1, HeadTailProperties
<1>5. slice \o b \in Seq(S) /\ s \o b \in Seq(S) /\ (s \o b) \o a \in Seq(S) /\ a \o w \in Seq(S)
  <2>1. slice \o b \in Seq(S) /\ s \o b \in Seq(S) /\ a \o w \in Seq(S)
    BY <1>2, <1>4, ConcatProperties
  <2>2. QED
    BY <1>2, <2>1, ConcatProperties
<1>6. (s \o b) \o a = StillAhead(tready)
  <2>1. CASE TakesWord(tready)
    <3>1. slice # <<>> /\ s = Tail(slice)
      BY <1>3, <2>1 DEF TakesWord
    <3>2. slice \o b # <<>> /\ Tail(slice \o b) = s \o b
      BY <1>2, <3>1, HeadOfConcat
    <3>3. Tail((slice \o b) \o a) = Tail(slice \o b) \o a
      BY <1>2, <1>5, <3>2, HeadOfConcat
    <3>4. QED
      BY <1>2, <2>1, <3>2, <3>3 DEF StillAhead
  <2>2. CASE ~TakesWord(tready)
    BY <1>2, <1>3, <2>2 DEF StillAhead
  <2>3. QED
    BY <2>1, <2>2
<1>7. /\ slice' = s \o (IF b # <<>> /\ works /\ Lup!slice_ready THEN <<Head(b)>> ELSE <<>>)
      /\ bram' = IF b # <<>> THEN Lup!Rest(b, works /\ Lup!slice_ready)
                 ELSE IF AddressTaken(works) THEN a ELSE <<>>
  BY <1>1 DEF LookStep, Lup!Clock, Lup!SliceClock, Lup!BramClock, Lup!addr_ready, AddressTaken,
              Addressed
<1>8. /\ SplitTakes(tready, works) => Addressed' = w /\ (a = <<>> \/ AddressTaken(works))
      /\ ~SplitTakes(tready, works) =>
           /\ w = <<>>
           /\ Addressed' = IF AddressTaken(works) THEN <<>> ELSE a
  <2>1. CASE SplitTakes(tready, works)
    <3>1. split'.addr = Head(fifo_lup_rsp).pointer /\ split'.addr_valid = TRUE
      BY <2>1, SplitMoves
    <3>2. Addressed' = w
      BY <1>1, <2>1, <3>1 DEF Addressed, NewWords
    <3>3. ~split.addr_valid \/ AddressTaken(works)
      BY <2>1 DEF SplitTakes, AddressTaken
    <3>4. QED
      BY <1>1, <2>1, <3>2, <3>3 DEF Addressed
  <2>2. CASE ~SplitTakes(tready, works)
    <3>1. /\ split'.addr = split.addr
          /\ split'.addr_valid <=> split.addr_valid /\ ~AddressTaken(works)
      BY <2>2, SplitMoves
    <3>2. AddressTaken(works) => split.addr_valid
      BY DEF AddressTaken
    <3>3. QED
      BY <1>1, <2>2, <3>1, <3>2 DEF Addressed, NewWords
  <2>3. QED
    BY <2>1, <2>2
<1>9. AddressTaken(works) => b = <<>>
  BY <1>1 DEF AddressTaken
<1>10. Ahead' = (slice' \o bram') \o Addressed'
  BY DEF Ahead, Addressed
<1>11. slice' \in Seq(S) /\ bram' \in Seq(S)
       /\ slice' \o bram' = IF AddressTaken(works) THEN s \o a ELSE s \o b
  <2>1. CASE b # <<>> /\ works /\ Lup!slice_ready
    <3>1. slice' = s \o <<Head(b)>> /\ bram' = Tail(b)
      BY <1>7, <2>1 DEF Lup!Rest
    <3>2. <<Head(b)>> \in Seq(S) /\ Tail(b) \in Seq(S) /\ <<Head(b)>> \o Tail(b) = b
      BY <1>2, <2>1, HeadAndTail
    <3>3. s \o <<Head(b)>> \in Seq(S)
      BY <1>4, <3>2, ConcatProperties
    <3>4. (s \o <<Head(b)>>) \o Tail(b) = s \o (<<Head(b)>> \o Tail(b))
      BY <1>4, <3>2, ConcatAssociative
    <3>5. QED
      BY <1>9, <2>1, <3>1, <3>2, <3>3, <3>4
  <2>2. CASE b # <<>> /\ ~(works /\ Lup!slice_ready)
    <3>1. slice' = s \o <<>> /\ bram' = b
      BY <1>7, <2>2 DEF Lup!Rest
    <3>2. s \o <<>> = s
      BY <1>4, ConcatEmptySeq
    <3>3. QED
      BY <1>2, <1>4, <1>9, <2>2, <3>1, <3>2
  <2>3. CASE b = <<>>
    <3>1. slice' = s \o <<>> /\ bram' = IF AddressTaken(works) THEN a ELSE <<>>
      BY <1>7, <2>3
    <3>2. s \o <<>> = s
      BY <1>4, ConcatEmptySeq
    <3>3. QED
      BY <1>2, <1>4, <2>3, <3>1, <3>2
  <2>4. QED
    BY <2>1, <2>2, <2>3
<1>12. Ahead' = ((s \o b) \o a) \o w
  <2>1. CASE AddressTaken(works)
    <3>1. Addressed' = w /\ b = <<>>
      BY <1>8, <1>9, <2>1
    <3>2. s \o b = s
      BY <1>4, <3>1, ConcatEmptySeq
    <3>3. QED
      BY <1>10, <1>11, <2>1, <3>1, <3>2
  <2>2. CASE ~AddressTaken(works)
    <3>1. Addressed' = a \o w
      <4>1. a \o <<>> = a /\ <<>> \o w = w
        BY <1>2, ConcatEmptySeq
      <4>2. QED
        BY <1>8, <2>2, <4>1
    <3>2. (s \o b) \o (a \o w) = ((s \o b) \o a) \o w
      <4>1. PICK x : x = s \o b /\ x \in Seq(S)
        BY <1>5
      <4>2. x \in Seq(S) /\ a \in Seq(S) /\ w \in Seq(S)
        BY <1>2, <4>1
      <4>3. (x \o a) \o w = x \o (a \o w)
        BY ONLY <4>2, ConcatAssociative
      <4>4. QED
        BY <4>1, <4>3
    <3>3. QED
      BY <1>10, <1>11, <2>2, <3>1, <3>2
  <2>3. QED
    BY <2>1, <2>2
<1>13. QED
  BY <1>1, <1>5, <1>6, <1>11, <1>12

LEMMA TypesStep ==
  ASSUME LookupTypes, Line, PeersParser, Headers,
         NEW key, NEW now, NEW tready, NEW serve, NEW works,
         LookStep(key, now, tready, serve, works)
  PROVE  LookupTypes'
<1>1. PICK d, p, r : /\ d = One(Leaves(tready)) /\ p = One(SplitTakes(tready, works))
                     /\ r = One(LookReads)
  OBVIOUS
<1>2. asked' \in Seq([key : Asker, answer : Answer \cup {None}])
  BY <1>1, AskedMoves
<1>3. fifo_lup_rsp' \in Seq(SentAnswer)
  BY <1>1, AnswersMove
<1>4. fifo_peer_request' \in Seq(Asker)
  BY <1>1, RequestsMove, KeyIsAsker
<1>5. /\ lupHash' \in [request : Asker \cup {None}, answer : SentAnswer \cup {None}]
      /\ lupTable' \in [Keys -> Address] /\ strayed' \in BOOLEAN
  BY TableMoves
<1>6. DOMAIN lupParser' = LupParserFields /\ lupParser'.key_valid \in BOOLEAN
  BY PeersMove
<1>7. /\ DOMAIN split' = SplitFields
      /\ split'.result_valid \in BOOLEAN /\ split'.addr_valid \in BOOLEAN
      /\ split'.addr_valid => split'.addr \in Address
  <2>1. CASE SplitTakes(tready, works)
    <3>1. fifo_lup_rsp # <<>> /\ fifo_lup_rsp \in Seq(SentAnswer)
      BY <2>1 DEF SplitTakes, LookupTypes
    <3>2. Head(fifo_lup_rsp) \in SentAnswer
      BY <3>1, HeadTailProperties
    <3>3. Head(fifo_lup_rsp).pointer \in Address
      BY <3>2 DEF SentAnswer
    <3>4. QED
      BY <2>1, <3>3, SplitMoves
  <2>2. CASE ~SplitTakes(tready, works)
    BY <2>2, SplitMoves DEF LookupTypes
  <2>3. QED
    BY <2>1, <2>2
<1>8. /\ DOMAIN reply' = ReplyFields
      /\ reply'.state \in {"ST_IDLE", "ST_WAIT_FIRST", "ST_SEND"} /\ reply'.tvalid \in BOOLEAN
  BY BusyMoves
<1>9. received' \in Nat
  BY ReplyLeavesCard
<1>10. /\ slice' \in Seq(MemoryWord)
       /\ bram' \in Seq(MemoryWord)
  BY AheadMoves DEF MemoryWord
<1>11. /\ ReplyFields' = ReplyFields /\ SplitFields' = SplitFields
       /\ LupParserFields' = LupParserFields
  BY DEF ReplyFields, SplitFields, LupParserFields
<1>12. QED
  BY <1>2, <1>3, <1>4, <1>5, <1>6, <1>7, <1>8, <1>9, <1>10, <1>11 DEF LookupTypes
-----------------------------------------------------------------------------
(* The reply and its words after a cycle.                                   *)

\* The oldest lookup after a cycle that leaves one for the reply.
LEMMA FirstNext ==
  ASSUME LookupTypes, Line, PeersParser, Headers,
         NEW key, NEW now, NEW tready, NEW serve, NEW works,
         LookStep(key, now, tready, serve, works), Busy'
  PROVE  /\ Current' \in Answer
         /\ Busy /\ ~Leaves(tready) => Current' = Current
         /\ TakesMeta(tready) =>
              /\ HasResult /\ asked[ToSplit].answer \in Answer
              /\ Current' = asked[ToSplit].answer
<1>1. PICK d, rp, sp, sv, al : /\ d = One(Leaves(tready)) /\ rp = ToReply /\ sp = ToSplit
                               /\ sv = ToServed /\ al = All
  OBVIOUS
<1>2. /\ rp \in {0, 1} /\ sp \in rp..(rp + 1) /\ sv \in Nat /\ sp <= sv /\ al \in Nat /\ sv <= al
  BY <1>1, PlaceCounts
<1>3. /\ d \in {0, 1} /\ d <= rp
      /\ \A m \in 1..sv : m > d => asked'[m - d].answer = asked[m].answer
  BY <1>1, AskedKept
<1>4. \A m \in 1..sv : asked[m].answer \in Answer
  <2>1. SUFFICES ASSUME NEW m \in 1..sv PROVE asked[m].answer \in Answer
    OBVIOUS
  <2>2. m \in 1..al /\ m \in 1..Len(asked) /\ m <= sv
    BY <1>1, <1>2 DEF Line
  <2>3. asked[m] \in [key : Asker, answer : Answer \cup {None}]
    BY <2>2, ElementOfSeq DEF LookupTypes
  <2>4. asked[m].answer # None
    BY <1>1, <2>2 DEF Line
  <2>5. QED
    BY <2>3, <2>4
<1>5. ASSUME Busy, ~Leaves(tready)
      PROVE  Current' = Current /\ Current \in Answer
  <2>1. rp = 1 /\ d = 0
    BY <1>1, <1>5 DEF ToReply, One
  <2>2. 1 \in 1..sv /\ 1 > d /\ 1 - d = 1
    BY <1>2, <2>1
  <2>3. asked'[1 - d].answer = asked[1].answer
    BY <1>3, <2>2
  <2>4. QED
    BY <1>4, <2>2, <2>3 DEF Current
<1>6. ASSUME TakesMeta(tready)
      PROVE  /\ HasResult /\ asked[sp].answer \in Answer
             /\ Current' = asked[sp].answer
  <2>1. HasResult /\ sp = rp + 1
    BY <1>1, <1>6 DEF TakesMeta, ToSplit, One
  <2>2. rp = d
    <3>1. Busy <=> Leaves(tready)
      BY <1>6, BusyMoves DEF Leaves, Busy
    <3>2. QED
      BY <1>1, <3>1 DEF ToReply, One
  <2>3. sp \in 1..sv /\ sp > d /\ sp - d = 1
    BY <1>2, <1>3, <2>1, <2>2
  <2>4. asked'[1].answer = asked[sp].answer
    BY <1>3, <2>3
  <2>5. QED
    BY <1>4, <2>1, <2>3, <2>4 DEF Current
<1>7. TakesMeta(tready) \/ (Busy /\ ~Leaves(tready))
  BY BusyMoves
<1>8. QED
  BY <1>1, <1>5, <1>6, <1>7

LEMMA HeaderMoves ==
  ASSUME LookupTypes, Headers,
         NEW key, NEW now, NEW tready, NEW serve, NEW works,
         LookStep(key, now, tready, serve, works),
         NEW a \in Answer, Busy',
         Busy /\ ~Leaves(tready) => a = Current,
         TakesMeta(tready) => a.key = split.key /\ a.hit = split.hit
  PROVE  HeaderAt(a)'
<1>1. tready \in BOOLEAN /\ Lup!ReplyClock(tready)
  BY DEF LookStep, Lup!Clock
<1>2. Busy /\ ~Leaves(tready) => HeaderAt(a)
  BY DEF Headers, Current
<1>3. received \in Nat /\ received' \in Nat
  BY ReplyLeavesCard DEF LookupTypes
<1>4. CASE ~OutFree(tready)
  <2>1. Busy /\ ~Leaves(tready) /\ reply.tvalid /\ ~tready
    BY <1>1, <1>4 DEF OutFree, Busy, Leaves
  <2>2. received' = received /\ ~reply.tlast
    BY <2>1, ReplyLeavesCard
  <2>3. reply.state = "ST_SEND" /\ HeaderAt(a)
    BY <1>2, <2>1, <2>2 DEF HeaderAt, LookupTypes
  <2>4. /\ reply'.tvalid = TRUE /\ reply'.tlast = FALSE
        /\ reply'.state = reply.state /\ reply'.bytes_left = reply.bytes_left
        /\ reply'.low = reply.low
    BY <1>1, <1>4, ReplyWaits
  <2>5. QED
    BY <2>1, <2>2, <2>3, <2>4 DEF HeaderAt
<1>5. CASE OutFree(tready) /\ reply.state = "ST_IDLE"
  <2>1. ~(Busy /\ ~Leaves(tready))
    BY <1>5, ReplyLeavesCard DEF Busy, OutFree
  <2>2. TakesMeta(tready) /\ HasResult
    BY <2>1, BusyMoves DEF TakesMeta
  <2>3. a.key = split.key /\ a.hit = split.hit /\ a.hit \in BOOLEAN
    BY <2>2 DEF Answer
  <2>4. received' = 0
    <3>1. CASE Busy
      BY <2>1, <3>1, ReplyLeavesCard
    <3>2. CASE ~Busy
      BY <3>2, ReplyLeavesCard DEF Headers, Busy
    <3>3. QED
      BY <3>1, <3>2
  <2>5. CASE split.hit
    <3>1. reply'.state = "ST_WAIT_FIRST" /\ reply'.tvalid = FALSE /\ reply'.meta_key_r = split.key
      BY <1>1, <1>5, <2>2, <2>5, ReplyFromIdle
    <3>2. QED
      BY <2>3, <2>4, <2>5, <3>1 DEF HeaderAt
  <2>6. CASE ~split.hit
    <3>1. /\ reply'.state = "ST_IDLE" /\ reply'.tvalid = TRUE /\ reply'.tlast = TRUE
          /\ reply'.low = <<split.key, 0, FALSE>> /\ reply'.high = Nothing
          /\ reply'.keep = 11 /\ reply'.size = 11
      BY <1>1, <1>5, <2>2, <2>6, ReplyFromIdle
    <3>2. QED
      BY <2>3, <2>4, <2>6, <3>1 DEF HeaderAt
  <2>7. QED
    BY <2>5, <2>6
<1>6. CASE OutFree(tready) /\ reply.state = "ST_WAIT_FIRST"
  <2>1. Busy /\ ~Leaves(tready)
    BY <1>6, ReplyLeavesCard DEF Busy
  <2>2. a.hit /\ ~reply.tvalid /\ received = 0 /\ reply.meta_key_r = a.key
    BY <1>2, <1>6, <2>1 DEF HeaderAt
  <2>3. received' = 0
    BY <2>1, <2>2, ReplyLeavesCard
  <2>4. CASE slice = <<>>
    <3>1. /\ reply'.state = "ST_WAIT_FIRST" /\ reply'.tvalid = FALSE
          /\ reply'.meta_key_r = reply.meta_key_r
      BY <1>1, <1>6, <2>4, ReplyFromWait
    <3>2. QED
      BY <2>2, <2>3, <3>1 DEF HeaderAt
  <2>5. CASE slice # <<>>
    <3>1. PICK len \in ValueLengths : len = Word.len
      BY <2>5, MetaAndWord DEF MemoryWord
    <3>2. len \in Nat
      BY LengthsAreNat
    <3>3. /\ reply'.tvalid = TRUE
          /\ 11 + len <= 64 => reply'.tlast = TRUE
          /\ 11 + len > 64 => reply'.tlast = FALSE
          /\ reply'.state = IF 11 + len <= 64 THEN "ST_IDLE" ELSE "ST_SEND"
          /\ reply'.low = <<a.key, len, TRUE>>
          /\ reply'.bytes_left = IF 11 + len > 64 THEN 11 + len - 64 ELSE 0
      BY <1>1, <1>6, <2>2, <2>5, <3>1, ReplyFromWait
    <3>4. \E l \in ValueLengths : reply'.low = <<a.key, l, TRUE>>
      BY <3>3
    <3>5. /\ reply'.state = "ST_IDLE" => reply'.tlast = TRUE
          /\ reply'.state = "ST_SEND" =>
               reply'.tlast = FALSE /\ reply'.bytes_left \in Nat \ {0}
          /\ reply'.state \in {"ST_IDLE", "ST_SEND"}
      BY <3>2, <3>3
    <3>6. QED
      BY <2>2, <2>3, <3>3, <3>4, <3>5 DEF HeaderAt
  <2>6. QED
    BY <2>4, <2>5
<1>7. CASE OutFree(tready) /\ reply.state = "ST_SEND"
  <2>1. Busy /\ ~Leaves(tready)
    BY <1>7, ReplyLeavesCard DEF Busy
  <2>2. PICK left : left = reply.bytes_left
    OBVIOUS
  <2>3. a.hit /\ (received # 0 \/ reply.tvalid) /\ left \in Nat \ {0}
    BY <1>2, <1>7, <2>1, <2>2 DEF HeaderAt
  <2>4. received' # 0
    <3>1. CASE reply.tvalid
      <4>1. received' = received + 1
        BY <1>7, <2>1, <3>1, ReplyLeavesCard DEF OutFree
      <4>2. QED
        BY <1>3, <4>1
    <3>2. CASE ~reply.tvalid
      BY <2>1, <2>3, <3>2, ReplyLeavesCard
    <3>3. QED
      BY <3>1, <3>2
  <2>5. CASE left <= 11
    <3>1. reply'.state = "ST_IDLE" /\ reply'.tvalid = TRUE /\ reply'.tlast = TRUE
      BY <1>1, <1>7, <2>2, <2>3, <2>5, ReplyFromSend
    <3>2. QED
      BY <2>3, <2>4, <3>1 DEF HeaderAt
  <2>6. CASE left > 11 /\ slice = <<>>
    <3>1. reply'.state = "ST_SEND" /\ reply'.tvalid = FALSE /\ reply'.bytes_left = left
      BY <1>1, <1>7, <2>2, <2>3, <2>6, ReplyFromSend
    <3>2. QED
      BY <2>3, <2>4, <3>1 DEF HeaderAt
  <2>7. CASE left > 11 /\ slice # <<>>
    <3>1. /\ reply'.tvalid = TRUE
          /\ (left <= 64 => reply'.tlast = TRUE) /\ (left > 64 => reply'.tlast = FALSE)
          /\ reply'.state = IF left <= 64 THEN "ST_IDLE" ELSE "ST_SEND"
          /\ reply'.bytes_left = left - IF left <= 64 THEN left ELSE 64
      BY <1>1, <1>7, <2>2, <2>3, <2>7, ReplyFromSend
    <3>2. /\ reply'.state = "ST_IDLE" => reply'.tlast = TRUE
          /\ reply'.state = "ST_SEND" =>
               reply'.tlast = FALSE /\ reply'.bytes_left \in Nat \ {0}
          /\ reply'.state \in {"ST_IDLE", "ST_SEND"}
      BY <2>3, <3>1
    <3>3. QED
      BY <2>3, <2>4, <3>1, <3>2 DEF HeaderAt
  <2>8. left <= 11 \/ left > 11
    BY <2>3
  <2>9. QED
    BY <2>5, <2>6, <2>7, <2>8
<1>8. QED
  BY <1>4, <1>5, <1>6, <1>7 DEF LookupTypes

LEMMA HeadersStep ==
  ASSUME LookupTypes, Line, PeersParser, Headers,
         NEW key, NEW now, NEW tready, NEW serve, NEW works,
         LookStep(key, now, tready, serve, works)
  PROVE  Headers'
<1>1. ~Busy' => received' = 0
  BY BusyMoves
<1>2. ASSUME Busy' PROVE HeaderAt(asked[1].answer)'
  <2>1. PICK a : a = Current' /\ a \in Answer
    BY <1>2, FirstNext
  <2>2. Busy /\ ~Leaves(tready) => a = Current
    BY <1>2, <2>1, FirstNext
  <2>3. TakesMeta(tready) => a.key = split.key /\ a.hit = split.hit
    BY <1>2, <2>1, FirstNext DEF Line
  <2>4. HeaderAt(a)'
    BY <1>2, <2>1, <2>2, <2>3, HeaderMoves
  <2>5. a = asked'[1].answer
    BY <2>1 DEF Current
  <2>6. QED
    BY <2>4, <2>5 DEF HeaderAt
<1>3. QED
  BY <1>1, <1>2 DEF Headers

LEMMA RepliesStep ==
  ASSUME LookupTypes, Line, PeersParser, Headers, Replies, WordsInOrder,
         NEW key, NEW now, NEW tready, NEW serve, NEW works,
         LookStep(key, now, tready, serve, works)
  PROVE  Replies'
<1>1. ASSUME Busy' PROVE ReplyAt(asked[1].answer)'
  <2>1. PICK a : a = Current' /\ a \in Answer
    BY <1>1, FirstNext
  <2>2. Busy /\ ~Leaves(tready) => a = Current
    BY <1>1, <2>1, FirstNext
  <2>3. TakesMeta(tready) => a.key = split.key /\ a.hit = split.hit
    BY <1>1, <2>1, FirstNext DEF Line
  <2>4. ReplyAt(a)'
    BY <1>1, <2>1, <2>2, <2>3, ReplyMoves
  <2>5. a = asked'[1].answer
    BY <2>1 DEF Current
  <2>6. QED
    BY <2>4, <2>5 DEF ReplyAt
<1>2. QED
  BY <1>1 DEF Replies

\* The words that a reply has still to take.
LEMMA BusyWords ==
  LookupTypes /\ Line /\ Replies /\ Busy =>
    /\ Current.pointer \in Address /\ WordsTaken \in Nat
    /\ RestWords = From(Current.pointer, WordsTaken)
<1>1. SUFFICES ASSUME LookupTypes, Line, Replies, Busy
               PROVE  /\ Current.pointer \in Address /\ WordsTaken \in Nat
                      /\ RestWords = From(Current.pointer, WordsTaken)
  OBVIOUS
<1>2. CASE reply.state = "ST_IDLE"
  <2>1. Current \in Answer /\ BeatNumber = LastBeat(Current) /\ WordsTaken = BeatNumber
    BY <1>1, <1>2, CurrentIsAnswer, ReplyNow DEF WordsTaken
  <2>2. /\ LastBeat(Current) \in Nat /\ WordCount(Current.pointer) \in Nat
        /\ WordCount(Current.pointer) <= LastBeat(Current)
    BY <2>1, ReplySizes
  <2>3. Current.pointer \in Address
    BY <2>1 DEF Answer
  <2>4. From(Current.pointer, WordsTaken) = <<>>
    BY <2>1, <2>2, <2>3, WordsFrom
  <2>5. QED
    BY <1>2, <2>1, <2>2, <2>3, <2>4 DEF RestWords
<1>3. CASE reply.state # "ST_IDLE"
  BY <1>1, <1>3, WordsNow
<1>4. QED
  BY <1>2, <1>3
LEMMA TakenMoves ==
  ASSUME LookupTypes, Line, Headers, Replies, WordsInOrder,
         NEW key, NEW now, NEW tready, NEW serve, NEW works,
         LookStep(key, now, tready, serve, works), Busy, ~Leaves(tready)
  PROVE  /\ TakesWord(tready) => WordsTaken' = WordsTaken + 1
         /\ ~TakesWord(tready) =>
              \/ WordsTaken' = WordsTaken
              \/ WordsTaken >= WordCount(Current.pointer) /\ WordsTaken' = WordsTaken + 1
<1>1. tready \in BOOLEAN /\ Lup!ReplyClock(tready)
  BY DEF LookStep, Lup!Clock
<1>2. /\ TakesWord(tready) => OutFree(tready) /\ slice # <<>>
      /\ TakesWord(tready) => /\ reply.state # "ST_IDLE"
                              /\ reply.state = "ST_SEND" => reply.bytes_left > 11
      /\ OutFree(tready) /\ slice # <<>> /\ reply.state = "ST_WAIT_FIRST" => TakesWord(tready)
      /\ OutFree(tready) /\ slice # <<>> /\ reply.state = "ST_SEND" /\ reply.bytes_left > 11 =>
           TakesWord(tready)
  BY DEF TakesWord, OutFree, Lup!ram_ready, Lup!s_axis_ram_ready, Lup!OutFree, Lup!NeedsWord,
         Lup!HEADER_BYTES
<1>3. PICK t, n : t = WordsTaken /\ n = WordsTaken'
  OBVIOUS
<1>4. /\ BeatNumber = received + One(reply.tvalid) /\ BeatNumber' = received' + One(reply'.tvalid)
      /\ received \in Nat
  BY DEF BeatNumber, LookupTypes
<1>5. /\ t = IF reply.state = "ST_WAIT_FIRST" THEN 0 ELSE BeatNumber
      /\ n = IF reply'.state = "ST_WAIT_FIRST" THEN 0 ELSE BeatNumber'
  BY <1>3 DEF WordsTaken
<1>6. CASE ~OutFree(tready)
  <2>1. reply.tvalid /\ ~tready /\ reply'.state = reply.state /\ reply'.tvalid = TRUE
    BY <1>1, <1>6, ReplyWaits DEF OutFree
  <2>2. received' = received
    BY <2>1, ReplyLeavesCard
  <2>3. t = n /\ ~TakesWord(tready)
    BY <1>2, <1>4, <1>5, <1>6, <2>1, <2>2 DEF One
  <2>4. QED
    BY <1>3, <2>3
<1>7. CASE OutFree(tready) /\ reply.state = "ST_IDLE"
  BY <1>7, ReplyLeavesCard DEF Busy, OutFree
<1>8. CASE OutFree(tready) /\ reply.state = "ST_WAIT_FIRST"
  <2>1. t = 0 /\ received' = 0
    BY <1>5, <1>8, ReplyNow, ReplyLeavesCard
  <2>2. CASE slice = <<>>
    <3>1. reply'.state = "ST_WAIT_FIRST"
      BY <1>1, <1>8, <2>2, ReplyFromWait
    <3>2. QED
      BY <1>2, <1>3, <1>5, <2>1, <2>2, <3>1
  <2>3. CASE slice # <<>>
    <3>1. reply'.state # "ST_WAIT_FIRST" /\ reply'.tvalid = TRUE
      BY <1>1, <1>8, <2>3, ReplyFromWait
    <3>2. n = 1
      BY <1>4, <1>5, <2>1, <3>1 DEF One
    <3>3. QED
      BY <1>2, <1>3, <1>8, <2>1, <2>3, <3>2
  <2>4. QED
    BY <2>2, <2>3
<1>9. CASE OutFree(tready) /\ reply.state = "ST_SEND"
  <2>1. PICK left, b : left = reply.bytes_left /\ b = BeatNumber /\ left \in Nat \ {0} /\ b \in Nat
                       /\ (left > 11 <=> b < WordCount(Current.pointer))
    BY <1>9, ReplyNow
  <2>2. t = b
    BY <1>5, <1>9, <2>1
  <2>3. received' = b
    BY <1>4, <1>9, <2>1, ReplyLeavesCard DEF OutFree, One
  <2>4. CASE left <= 11
    <3>1. reply'.state = "ST_IDLE" /\ reply'.tvalid = TRUE
      BY <1>1, <1>9, <2>1, <2>4, ReplyFromSend
    <3>2. n = b + 1
      BY <1>4, <1>5, <2>3, <3>1 DEF One
    <3>3. b >= WordCount(Current.pointer)
      <4>1. Current.pointer \in Address
        BY CurrentIsAnswer DEF Answer
      <4>2. WordCount(Current.pointer) \in Nat
        BY <4>1, WordsOfBox
      <4>3. QED
        BY <2>1, <2>4, <4>2
    <3>4. ~TakesWord(tready)
      BY <1>2, <1>9, <2>1, <2>4
    <3>5. QED
      BY <1>3, <2>2, <3>2, <3>3, <3>4
  <2>5. CASE left > 11 /\ slice = <<>>
    <3>1. reply'.state = "ST_SEND" /\ reply'.tvalid = FALSE
      BY <1>1, <1>9, <2>1, <2>5, ReplyFromSend
    <3>2. n = b
      BY <1>4, <1>5, <2>1, <2>3, <3>1 DEF One
    <3>3. QED
      BY <1>2, <1>3, <2>2, <2>5, <3>2
  <2>6. CASE left > 11 /\ slice # <<>>
    <3>1. reply'.state # "ST_WAIT_FIRST" /\ reply'.tvalid = TRUE
      BY <1>1, <1>9, <2>1, <2>6, ReplyFromSend
    <3>2. n = b + 1
      BY <1>4, <1>5, <2>3, <3>1 DEF One
    <3>3. QED
      BY <1>2, <1>3, <1>9, <2>1, <2>2, <2>6, <3>2
  <2>7. QED
    BY <2>1, <2>4, <2>5, <2>6
<1>10. QED
  BY <1>6, <1>7, <1>8, <1>9 DEF LookupTypes

LEMMA RestMoves ==
  ASSUME LookupTypes, Line, PeersParser, Headers, Replies, WordsInOrder,
         NEW key, NEW now, NEW tready, NEW serve, NEW works,
         LookStep(key, now, tready, serve, works)
  PROVE  /\ TakesMeta(tready) =>
              RestWords = <<>> /\ ~TakesWord(tready) /\ RestWords' = NextWords
         /\ ~TakesMeta(tready) =>
              RestWords' = IF TakesWord(tready) THEN Tail(RestWords) ELSE RestWords
         /\ TakesWord(tready) => RestWords # <<>>
<1>1. LookupTypes' /\ Line' /\ Replies'
  BY TypesStep, LineStep, RepliesStep
<1>2. (LookupTypes /\ Line /\ Replies /\ Busy =>
         /\ Current.pointer \in Address /\ WordsTaken \in Nat
         /\ RestWords = From(Current.pointer, WordsTaken))'
  BY BusyWords, PTL
<1>3. Busy' => /\ Current'.pointer \in Address /\ WordsTaken' \in Nat
               /\ RestWords' = From(Current'.pointer, WordsTaken')
  BY <1>1, <1>2 DEF From, WordCount
<1>4. TakesWord(tready) => reply.state # "ST_IDLE"
  BY HeadWord
<1>5. ASSUME TakesMeta(tready)
      PROVE  RestWords = <<>> /\ ~TakesWord(tready) /\ RestWords' = NextWords
  <2>1. reply.state = "ST_IDLE" /\ HasResult /\ OutFree(tready)
    BY <1>5 DEF TakesMeta
  <2>2. RestWords = <<>> /\ ~TakesWord(tready)
    BY <1>4, <2>1 DEF RestWords
  <2>3. Busy'
    BY <1>5, BusyMoves
  <2>4. PICK a : a = Current' /\ a \in Answer /\ a = asked[ToSplit].answer
    BY <1>5, <2>3, FirstNext
  <2>5. a.hit = split.hit /\ a.pointer \in Address
    BY <2>1, <2>4 DEF Line, Answer
  <2>6. NextWords = Lup!Words(a.pointer)
    BY <2>1, <2>4 DEF NextWords
  <2>7. tready \in BOOLEAN /\ Lup!ReplyClock(tready)
    BY DEF LookStep, Lup!Clock
  <2>8. CASE split.hit
    <3>1. reply'.state = "ST_WAIT_FIRST"
      BY <2>1, <2>7, <2>8, ReplyFromIdle
    <3>2. WordsTaken' = 0
      BY <3>1 DEF WordsTaken
    <3>3. RestWords' = From(a.pointer, 0)
      BY <1>3, <2>3, <2>4, <3>2
    <3>4. QED
      BY <2>2, <2>5, <2>6, <3>3, WordsFrom
  <2>9. CASE ~split.hit
    <3>1. reply'.state = "ST_IDLE"
      BY <2>1, <2>7, <2>9, ReplyFromIdle
    <3>2. RestWords' = <<>>
      BY <3>1 DEF RestWords
    <3>3. a.pointer = NoPointer
      BY <2>4, <2>5, <2>9, ReplySizes
    <3>4. Lup!Words(a.pointer) = <<>>
      BY <2>5, <3>3, WordsOfBox
    <3>5. QED
      BY <2>2, <2>6, <3>2, <3>4
  <2>10. QED
    BY <2>8, <2>9
<1>6. TakesWord(tready) => RestWords # <<>>
  <2>1. SUFFICES ASSUME TakesWord(tready) PROVE RestWords # <<>>
    OBVIOUS
  <2>2. Busy /\ WordsTaken < WordCount(Current.pointer)
    BY <1>4, <2>1, HeadWord DEF Busy
  <2>3. QED
    BY <2>2, BusyWords, WordsFrom
<1>7. ASSUME ~TakesMeta(tready), Busy, ~Leaves(tready)
      PROVE  RestWords' = IF TakesWord(tready) THEN Tail(RestWords) ELSE RestWords
  <2>1. Busy'
    BY <1>7, BusyMoves
  <2>2. PICK p, t, n : p = Current.pointer /\ t = WordsTaken /\ n = WordsTaken'
    OBVIOUS
  <2>3. Current' = Current
    BY <1>7, <2>1, FirstNext
  <2>4. /\ p \in Address /\ t \in Nat /\ n \in Nat
        /\ RestWords = From(p, t) /\ RestWords' = From(p, n)
    BY <1>3, <1>7, <2>1, <2>2, <2>3, BusyWords
  <2>5. /\ TakesWord(tready) => n = t + 1
        /\ ~TakesWord(tready) => n = t \/ (t >= WordCount(p) /\ n = t + 1)
    BY <1>7, <2>2, TakenMoves
  <2>6. CASE TakesWord(tready)
    <3>1. t < WordCount(p)
      BY <2>2, <2>6, HeadWord
    <3>2. QED
      BY <2>4, <2>5, <2>6, <3>1, WordsFrom
  <2>7. CASE ~TakesWord(tready) /\ n = t
    BY <2>4, <2>7
  <2>8. CASE ~TakesWord(tready) /\ t >= WordCount(p) /\ n = t + 1
    <3>1. WordCount(p) \in Nat
      BY <2>4, WordsOfBox
    <3>2. n >= WordCount(p)
      BY <2>4, <2>8, <3>1
    <3>3. From(p, t) = <<>> /\ From(p, n) = <<>>
      BY <2>4, <2>8, <3>2, WordsFrom
    <3>4. QED
      BY <2>4, <2>8, <3>3
  <2>9. QED
    BY <2>5, <2>6, <2>7, <2>8
<1>8. ASSUME ~TakesMeta(tready), ~(Busy /\ ~Leaves(tready))
      PROVE  RestWords' = IF TakesWord(tready) THEN Tail(RestWords) ELSE RestWords
  <2>1. reply.state = "ST_IDLE"
    BY <1>8, ReplyLeavesCard DEF Busy
  <2>2. reply'.state = "ST_IDLE"
    BY <1>8, BusyMoves DEF Busy
  <2>3. RestWords = <<>> /\ RestWords' = <<>> /\ ~TakesWord(tready)
    BY <1>4, <2>1, <2>2 DEF RestWords
  <2>4. QED
    BY <2>3
<1>9. QED
  BY <1>5, <1>6, <1>7, <1>8

LEMMA NextMoves ==
  ASSUME LookupTypes, Line, PeersParser, Headers, ~strayed,
         NEW key, NEW now, NEW tready, NEW serve, NEW works,
         LookStep(key, now, tready, serve, works)
  PROVE  NextWords' = IF TakesMeta(tready) \/ ~HasResult THEN NewWords(tready, works)
                      ELSE NextWords
<1>1. PICK d, rp, sp, sv, la : /\ d = One(Leaves(tready)) /\ rp = ToReply /\ sp = ToSplit
                               /\ sv = ToServed /\ la = Len(fifo_lup_rsp)
  OBVIOUS
<1>2. /\ rp \in {0, 1} /\ sp \in rp..(rp + 1) /\ sv \in Nat /\ la \in Nat /\ sp + la <= sv
  BY <1>1, PlaceCounts
<1>3. /\ d \in {0, 1} /\ d <= rp
      /\ \A m \in 1..sv : m > d => asked'[m - d].answer = asked[m].answer
  BY <1>1, AskedKept
<1>4. ToSplit' = sp - d + One(SplitTakes(tready, works))
  BY <1>1, PlacesMove
<1>5. CASE SplitTakes(tready, works)
  <2>1. HasResult' /\ (TakesMeta(tready) \/ ~HasResult)
    BY <1>5, SplitMoves DEF SplitTakes, TakesMeta
  <2>2. PICK m : m = sp + 1 /\ ToSplit' = m - d /\ m > d /\ m \in Nat
    BY <1>2, <1>3, <1>4, <1>5 DEF One
  <2>3. fifo_lup_rsp # <<>>
    BY <1>5 DEF SplitTakes
  <2>4. la >= 1
    BY <1>1, <1>2, <2>3, EmptySeq DEF LookupTypes
  <2>5. m \in 1..sv /\ 1 \in 1..la
    BY <1>2, <2>2, <2>4
  <2>6. asked'[ToSplit'].answer = asked[m].answer
    BY <1>3, <2>2, <2>5
  <2>7. fifo_lup_rsp[1] = asked[m].answer
    BY <1>1, <2>2, <2>5 DEF Line, Tells
  <2>8. Head(fifo_lup_rsp) = fifo_lup_rsp[1]
    OBVIOUS
  <2>9. NextWords' = Lup!Words(asked'[ToSplit'].answer.pointer)
    BY <2>1 DEF NextWords
  <2>10. QED
    BY <1>5, <2>1, <2>6, <2>7, <2>8, <2>9 DEF NewWords
<1>6. CASE ~SplitTakes(tready, works) /\ HasResult /\ ~TakesMeta(tready)
  <2>1. HasResult'
    BY <1>6, SplitMoves
  <2>2. sp = rp + 1
    BY <1>1, <1>6 DEF ToSplit, One
  <2>3. ToSplit' = sp - d /\ sp > d /\ sp \in 1..sv
    BY <1>2, <1>3, <1>4, <1>6, <2>2 DEF One
  <2>4. asked'[ToSplit'].answer = asked[sp].answer
    BY <1>3, <2>3
  <2>5. NextWords' = Lup!Words(asked'[ToSplit'].answer.pointer)
    BY <2>1 DEF NextWords
  <2>6. QED
    BY <1>1, <1>6, <2>4, <2>5 DEF NextWords
<1>7. CASE ~SplitTakes(tready, works) /\ (TakesMeta(tready) \/ ~HasResult)
  <2>1. ~HasResult'
    BY <1>7, SplitMoves
  <2>2. QED
    BY <1>7, <2>1 DEF NextWords, NewWords
<1>8. QED
  BY <1>5, <1>6, <1>7

LEMMA WordsStep ==
  ASSUME LookupTypes, Line, PeersParser, Headers, ~strayed, Replies, WordsInOrder,
         NEW key, NEW now, NEW tready, NEW serve, NEW works,
         LookStep(key, now, tready, serve, works)
  PROVE  WordsInOrder'
<1>1. PICK r, n, w, S : /\ r = RestWords /\ n = NextWords /\ w = NewWords(tready, works)
                        /\ S = MemoryWord
  OBVIOUS
<1>2. r \in Seq(S) /\ n \in Seq(S) /\ w \in Seq(S)
  BY <1>1, WordsNow, NextAreWords, NewAreWords
<1>3. Ahead = r \o n
  BY <1>1 DEF WordsInOrder
<1>4. Ahead' = StillAhead(tready) \o w
  BY <1>1, AheadMoves
<1>5. CASE TakesMeta(tready)
  <2>1. r = <<>> /\ ~TakesWord(tready) /\ RestWords' = n /\ NextWords' = w
    BY <1>1, <1>5, RestMoves, NextMoves
  <2>2. <<>> \o n = n
    BY <1>2, ConcatEmptySeq
  <2>3. Ahead' = n \o w
    BY <1>3, <1>4, <2>1, <2>2 DEF StillAhead
  <2>4. QED
    BY <2>1, <2>3 DEF WordsInOrder
<1>6. CASE ~TakesMeta(tready)
  <2>1. PICK s : s = IF TakesWord(tready) THEN Tail(r) ELSE r
    OBVIOUS
  <2>2. RestWords' = s /\ (TakesWord(tready) => r # <<>>)
    BY <1>1, <1>6, <2>1, RestMoves
  <2>3. StillAhead(tready) = s \o n /\ s \in Seq(S)
    <3>1. CASE TakesWord(tready)
      <4>1. Tail(r \o n) = Tail(r) \o n /\ Tail(r) \in Seq(S)
        BY <1>2, <2>2, <3>1, HeadOfConcat, HeadTailProperties
      <4>2. QED
        BY <1>3, <2>1, <3>1, <4>1 DEF StillAhead
    <3>2. CASE ~TakesWord(tready)
      BY <1>2, <1>3, <2>1, <3>2 DEF StillAhead
    <3>3. QED
      BY <3>1, <3>2
  <2>4. n \o w = NextWords'
    <3>1. CASE HasResult
      <4>1. NextWords' = n
        BY <1>1, <1>6, <3>1, NextMoves
      <4>2. ~SplitTakes(tready, works)
        BY <1>6, <3>1 DEF SplitTakes, TakesMeta
      <4>3. w = <<>>
        BY <1>1, <4>2 DEF NewWords
      <4>4. QED
        BY <1>2, <4>1, <4>3, ConcatEmptySeq
    <3>2. CASE ~HasResult
      <4>1. NextWords' = w /\ n = <<>>
        BY <1>1, <3>2, NextMoves DEF NextWords
      <4>2. QED
        BY <1>2, <4>1, ConcatEmptySeq
    <3>3. QED
      BY <3>1, <3>2
  <2>5. (s \o n) \o w = s \o (n \o w)
    BY <1>2, <2>3, ConcatAssociative
  <2>6. QED
    BY <1>4, <2>2, <2>3, <2>4, <2>5 DEF WordsInOrder
<1>7. QED
  BY <1>5, <1>6
-----------------------------------------------------------------------------
(* The theorem.                                                             *)

LEMMA LookupInitially ==
  ASSUME Lup!Init
  PROVE  LookupInv
<1>1. /\ asked = <<>> /\ offered = None /\ received = 0
      /\ lupParser = Lup!ParserReset /\ split = Lup!SplitReset /\ reply = Lup!ReplyReset
      /\ fifo_peer_request = <<>> /\ fifo_lup_rsp = <<>> /\ slice = <<>> /\ bram = <<>>
      /\ lupHash = [request |-> None, answer |-> None]
      /\ lupTable = [k \in Keys |-> NoPointer] /\ strayed = FALSE
  BY DEF Lup!Init, Lup!None, None
<1>2. Lup!ParserReset = ParserReset
  BY DEF Lup!ParserReset, ParserReset, Lup!None, None, Lup!Nothing, Nothing
<1>3. /\ lupParser.state = "ST_IDLE" /\ lupParser.force_throw = FALSE
      /\ lupParser.key_valid = FALSE /\ DOMAIN lupParser = LupParserFields
  BY <1>1, <1>2 DEF ParserReset, LupParserFields
<1>4. split.result_valid = FALSE /\ split.addr_valid = FALSE /\ DOMAIN split = SplitFields
  BY <1>1 DEF Lup!SplitReset, SplitFields
<1>5. reply.state = "ST_IDLE" /\ reply.tvalid = FALSE /\ DOMAIN reply = ReplyFields
  BY <1>1 DEF Lup!ReplyReset, ReplyFields
<1>6. LookupTypes
  BY <1>1, <1>3, <1>4, <1>5, EmptySeq DEF LookupTypes, Address
<1>7. ~Busy /\ ~HasResult /\ ~HasAnswer /\ ~HasRequest /\ ~HasKey
  BY <1>1, <1>3, <1>4, <1>5 DEF Busy, HasResult, HasAnswer, HasRequest, HasKey
<1>8. Len(fifo_lup_rsp) = 0 /\ Len(fifo_peer_request) = 0 /\ Len(asked) = 0
  BY <1>1, EmptySeq
<1>9. All = 0 /\ ToServed = 0
  BY <1>1, <1>7, <1>8
  DEF All, ToParser, ToPeers, ToTable, ToServed, ToAnswers, ToSplit, ToReply, One
<1>10. Line
  BY <1>1, <1>7, <1>8, <1>9, LookupAssumption DEF Line, Lup!LookupPathAssumption
<1>11. PeersParser
  BY <1>3 DEF PeersParser
<1>12. Headers /\ Replies
  BY <1>1, <1>7 DEF Headers, Replies
<1>13. WordsInOrder
  <2>1. Ahead = (<<>> \o <<>>) \o <<>>
    BY <1>1, <1>4 DEF Ahead
  <2>2. RestWords = <<>> /\ NextWords = <<>>
    BY <1>5, <1>7 DEF RestWords, NextWords
  <2>3. <<>> \o <<>> = <<>>
    BY EmptySeq, ConcatEmptySeq
  <2>4. QED
    BY <2>1, <2>2, <2>3 DEF WordsInOrder
<1>14. QED
  BY <1>6, <1>10, <1>11, <1>12, <1>13 DEF LookupInv

LEMMA LookupStays ==
  ASSUME LookupInv, UNCHANGED lupVars
  PROVE  LookupInv'
<1>1. /\ asked' = asked /\ offered' = offered /\ lupParser' = lupParser
      /\ fifo_peer_request' = fifo_peer_request /\ lupHash' = lupHash
      /\ fifo_lup_rsp' = fifo_lup_rsp /\ split' = split /\ reply' = reply /\ bram' = bram
      /\ slice' = slice /\ received' = received /\ lupTable' = lupTable /\ strayed' = strayed
  BY DEF lupVars
<1>2. LookupTypes'
  BY <1>1 DEF LookupInv, LookupTypes, ReplyFields, SplitFields, LupParserFields
<1>3. /\ Busy' = Busy /\ HasResult' = HasResult /\ HasAnswer' = HasAnswer
      /\ HasRequest' = HasRequest /\ HasKey' = HasKey
  BY <1>1 DEF Busy, HasResult, HasAnswer, HasRequest, HasKey
<1>4. /\ ToReply' = ToReply /\ ToSplit' = ToSplit /\ ToAnswers' = ToAnswers
      /\ ToServed' = ToServed /\ ToTable' = ToTable /\ ToPeers' = ToPeers
      /\ ToParser' = ToParser /\ All' = All
  BY <1>1, <1>3 DEF ToReply, ToSplit, ToAnswers, ToServed, ToTable, ToPeers, ToParser, All
<1>5. Line'
  BY <1>1, <1>3, <1>4 DEF LookupInv, Line, Tells
<1>6. PeersParser'
  BY <1>1 DEF LookupInv, PeersParser
<1>7. BeatNumber' = BeatNumber /\ Lup!Shown' = Lup!Shown
  BY <1>1 DEF BeatNumber, Lup!Shown
<1>8. Headers' /\ (~strayed' => Replies')
  BY <1>1, <1>3, <1>7 DEF LookupInv, Headers, HeaderAt, Replies, ReplyAt
<1>9. ~strayed' => WordsInOrder'
  BY <1>1, <1>3, <1>4, <1>7
  DEF LookupInv, WordsInOrder, Ahead, RestWords, NextWords, WordsTaken
<1>10. QED
  BY <1>2, <1>5, <1>6, <1>8, <1>9 DEF LookupInv

LEMMA LookupNext ==
  ASSUME LookupInv, Lup!Next
  PROVE  LookupInv'
<1>1. PICK key, now, tready, serve, works : LookStep(key, now, tready, serve, works)
  BY LookSteps
<1>2. LookupTypes /\ Line /\ PeersParser /\ Headers /\ (~strayed => Replies /\ WordsInOrder)
  BY DEF LookupInv
<1>3. LookupTypes' /\ Line' /\ PeersParser' /\ Headers'
  BY <1>1, <1>2, TypesStep, LineStep, PeersMove, HeadersStep
<1>4. ~strayed' => ~strayed
  BY <1>1, <1>2, TableMoves
<1>5. ~strayed' => Replies' /\ WordsInOrder'
  BY <1>1, <1>2, <1>4, RepliesStep, WordsStep
<1>6. QED
  BY <1>3, <1>5 DEF LookupInv

LEMMA LookupShows ==
  ASSUME LookupInv
  PROVE  Lup!ReplyNamesLookup /\ Lup!ReplyIsAnswer /\ Lup!NothingLeft
<1>1. /\ LookupTypes /\ Line /\ PeersParser /\ Headers
      /\ ~strayed => Replies /\ WordsInOrder
  BY DEF LookupInv
<1>2. Lup!ReplyIsAnswer
  <2>1. SUFFICES ASSUME reply.tvalid, ~strayed
                 PROVE  /\ asked # <<>> /\ asked[1].answer # Lup!None
                        /\ received + 1 \in DOMAIN Lup!ReplyTo(asked[1].answer)
                        /\ Lup!Shown = Lup!ReplyTo(asked[1].answer)[received + 1]
    BY DEF Lup!ReplyIsAnswer
  <2>2. Busy
    BY <2>1 DEF Busy
  <2>3. ReplyAt(asked[1].answer)
    BY <1>1, <2>1, <2>2 DEF Replies
  <2>4. BeatNumber = received + 1
    BY <2>1 DEF BeatNumber, One
  <2>5. asked # <<>>
    <3>1. Len(asked) \in Nat \ {0}
      BY <1>1, <2>2, CurrentIsAnswer DEF Line
    <3>2. QED
      BY <3>1, EmptySeq
  <2>6. Lup!None = None
    BY DEF Lup!None, None
  <2>7. QED
    BY <2>1, <2>3, <2>4, <2>5, <2>6 DEF ReplyAt
<1>3. Lup!NothingLeft
  <2>1. SUFFICES ASSUME asked = <<>>
                 PROVE  /\ lupParser.state # "ST_DROP" /\ ~lupParser.key_valid
                        /\ fifo_peer_request = <<>> /\ fifo_lup_rsp = <<>>
                        /\ lupHash = [request |-> Lup!None, answer |-> Lup!None]
                        /\ ~split.result_valid /\ reply.state = "ST_IDLE" /\ ~reply.tvalid
                        /\ ~strayed => /\ slice = <<>> /\ bram = <<>>
                                       /\ split.addr_valid => split.addr = NoPointer
    BY DEF Lup!NothingLeft
  <2>2. PICK r, s, n, a, t, m, p, k :
          /\ r = ToReply /\ s = ToSplit /\ n = Len(fifo_lup_rsp) /\ a = ToServed
          /\ t = ToTable /\ m = Len(fifo_peer_request) /\ p = ToParser /\ k = All
    OBVIOUS
  <2>3. k = 0
    BY <1>1, <2>1, <2>2, EmptySeq DEF Line
  <2>4. /\ r = 0 /\ s = 0 /\ n = 0 /\ a = 0 /\ t = 0 /\ m = 0 /\ p = 0
        /\ ToAnswers = 0 /\ ToPeers = 0
    <3>1. /\ r \in {0, 1} /\ s \in r..(r + 1) /\ n \in Nat /\ ToAnswers = s + n
          /\ a \in ToAnswers..(ToAnswers + 1) /\ t \in a..(a + 1) /\ m \in Nat
          /\ ToPeers = t + m /\ p \in ToPeers..(ToPeers + 1) /\ k \in p..(p + 1)
      BY <1>1, <2>2, PlaceCounts
    <3>2. QED
      BY <2>3, <3>1
  <2>5. ~Busy /\ ~HasResult /\ ~HasAnswer /\ ~HasRequest /\ ~HasKey
    <3>1. One(Busy) = 0 /\ One(HasResult) = 0
      BY <2>2, <2>4 DEF ToReply, ToSplit, One
    <3>2. One(HasAnswer) = 0 /\ One(HasRequest) = 0 /\ One(HasKey) = 0
      BY <2>2, <2>4 DEF ToServed, ToTable, ToParser, One
    <3>3. QED
      BY <3>1, <3>2 DEF One
  <2>6. fifo_peer_request = <<>> /\ fifo_lup_rsp = <<>>
    BY <1>1, <2>2, <2>4, EmptySeq DEF LookupTypes
  <2>7. ASSUME ~strayed PROVE slice = <<>> /\ bram = <<>> /\ Addressed = <<>>
    <3>1. RestWords = <<>> /\ NextWords = <<>>
      BY <2>5 DEF RestWords, NextWords, Busy
    <3>2. Ahead = <<>>
      <4>1. <<>> \o <<>> = <<>>
        BY EmptySeq, ConcatEmptySeq
      <4>2. QED
        BY <1>1, <2>7, <3>1, <4>1 DEF WordsInOrder
    <3>3. /\ slice \in Seq(MemoryWord) /\ bram \in Seq(MemoryWord)
          /\ Addressed \in Seq(MemoryWord) /\ (slice \o bram) \o Addressed = <<>>
      BY <1>1, <3>2, AheadIsWords
    <3>4. PICK q : q = slice \o bram /\ q \in Seq(MemoryWord)
      BY <3>3, ConcatProperties
    <3>5. q = <<>> /\ Addressed = <<>>
      BY <3>3, <3>4, ConcatEqualIffEmpty
    <3>6. slice \o bram = <<>> /\ slice \in Seq(MemoryWord) /\ bram \in Seq(MemoryWord)
      BY <3>3, <3>4, <3>5
    <3>7. slice = <<>> /\ bram = <<>>
      BY <3>6, ConcatEqualIffEmpty
    <3>8. QED
      BY <3>5, <3>7
  <2>8. ~strayed /\ split.addr_valid => split.addr = NoPointer
    <3>1. SUFFICES ASSUME ~strayed, split.addr_valid, split.addr # NoPointer PROVE FALSE
      OBVIOUS
    <3>2. split.addr \in Address
      BY <1>1, <3>1 DEF LookupTypes
    <3>3. Lup!Words(split.addr) = <<>>
      BY <2>7, <3>1 DEF Addressed
    <3>4. WordCount(split.addr) = 0
      BY <3>3, EmptySeq DEF WordCount
    <3>5. QED
      BY <3>1, <3>2, <3>4, WordsOfBox
  <2>9. lupHash = [request |-> Lup!None, answer |-> Lup!None]
    BY <1>1, <2>5 DEF LookupTypes, HasRequest, HasAnswer, Lup!None, None
  <2>10. QED
    BY <1>1, <2>5, <2>6, <2>7, <2>8, <2>9 DEF PeersParser, HasKey, HasResult, Busy, LookupTypes
<1>4. Lup!ReplyNamesLookup
  <2>1. SUFFICES ASSUME reply.tvalid
                 PROVE  /\ asked # <<>> /\ Current # Lup!None
                        /\ IF Current.hit
                           THEN received = 0 =>
                                  \E len \in {Length[p] : p \in LupPointers} :
                                    reply.low = Lup!header(Current.key, len, TRUE)
                           ELSE received = 0 /\ Lup!Shown = Lup!ReplyTo(Current)[1]
    BY DEF Lup!ReplyNamesLookup, Current
  <2>2. Busy
    BY <2>1 DEF Busy
  <2>3. HeaderAt(Current) /\ Current \in Answer
    BY <1>1, <2>2, CurrentIsAnswer DEF Headers, Current
  <2>4. asked # <<>> /\ Current # Lup!None
    <3>1. Len(asked) \in Nat \ {0}
      BY <1>1, <2>2, CurrentIsAnswer DEF Line
    <3>2. Lup!None = None
      BY DEF Lup!None, None
    <3>3. QED
      BY <2>3, <3>1, <3>2, AnswersAreSome, EmptySeq
  <2>5. CASE Current.hit
    BY <2>1, <2>3, <2>4, <2>5 DEF HeaderAt, ValueLengths, Lup!header
  <2>6. CASE ~Current.hit
    <3>1. received = 0 /\ reply.state = "ST_IDLE" /\ reply.tlast = TRUE
      BY <1>1, <2>3, <2>6 DEF HeaderAt, LookupTypes
    <3>2. /\ LastBeat(Current) = 1 /\ Size(Current) = 11
          /\ WordCount(Current.pointer) = 0 /\ Current.hit = FALSE
      BY <2>3, <2>6, ReplySizes DEF Answer
    <3>3. /\ LowOf(Current, 1) = <<Current.key, 0, FALSE>> /\ HighOf(Current, 1) = Nothing
          /\ KeepOf(Current, 1) = 11
      <4>1. LowOf(Current, 1) = <<Current.key, 0, FALSE>>
        BY <3>2 DEF LowOf
      <4>2. HighOf(Current, 1) = Nothing
        BY <3>2 DEF HighOf
      <4>3. KeepOf(Current, 1) = 11 - 64 * (1 - 1)
        BY <3>2 DEF KeepOf
      <4>4. KeepOf(Current, 1) = 11
        BY <4>3
      <4>5. QED
        BY <4>1, <4>2, <4>4
    <3>4. ShowsBeat(Current, 1)
      <4>1. /\ reply.high = Nothing /\ reply.keep = 11 /\ reply.size = 11
            /\ reply.low = <<Current.key, 0, FALSE>>
        BY <2>3, <2>6 DEF HeaderAt
      <4>2. 1 \in 1..LastBeat(Current)
        BY <3>2
      <4>3. QED
        BY <3>1, <3>2, <3>3, <4>1, <4>2 DEF ShowsBeat
    <3>5. QED
      BY <2>3, <2>4, <2>6, <3>1, <3>4, ShownBeat
  <2>7. QED
    BY <2>5, <2>6
<1>5. QED
  BY <1>2, <1>3, <1>4

\* Whatever the table sends along with a miss, replies go out in the order of the
\* lookups, and each begins with its key and with what was found for it.  Until a miss
\* comes with the address of a box, each beat that lkp_rep_parser.sv shows is the next one
\* of the reply to the oldest lookup, whatever its length and however the memory and
\* the peers keep it waiting, and when every lookup is answered the pipeline is empty.
THEOREM LookupRepliesFollow == MCSpec => []ReplyFollowsAnswer
<1>1. MCInit => LookupInv
  BY LookupInitially DEF MCInit
<1>2. LookupInv /\ [MCNext]_MCVars => LookupInv'
  <2>1. SUFFICES ASSUME LookupInv, [MCNext]_MCVars PROVE LookupInv'
    OBVIOUS
  <2>2. Lup!Next \/ UNCHANGED lupVars
    BY <2>1 DEF MCNext, Updates, Looks, MCVars
  <2>3. QED
    BY <2>1, <2>2, LookupNext, LookupStays
<1>3. LookupInv => ReplyFollowsAnswer
  BY LookupShows DEF ReplyFollowsAnswer
<1>4. QED
  BY <1>1, <1>2, <1>3, PTL DEF MCSpec

-----------------------------------------------------------------------------
(* The buffers, for every set of words: the models take the FIFOs of the     *)
(* key-value pipeline, and the fully registered slices, for queues.          *)

CONSTANT Data

VARIABLES
    filled, axis,           \* of the slice
    mem, wr_ptr, rd_ptr     \* of the FIFO

Slice == INSTANCE FullSlice WITH Beat <- Data
Fifo == INSTANCE SyncFifo

-----------------------------------------------------------------------------
(* The fully registered slice.                                             *)

\* `filled' only takes the three values the case statement handles.
THEOREM FullSliceTypeOK == Slice!Spec => []Slice!TypeOK
<1>1. Slice!Init => Slice!TypeOK
  BY DEF Slice!Init, Slice!TypeOK
<1>2. Slice!TypeOK /\ [Slice!Next]_(Slice!vars) => Slice!TypeOK'
  BY DEF Slice!TypeOK, Slice!vars, Slice!Next, Slice!Clock, Slice!FillFirst,
       Slice!PassOn, Slice!FillSecond, Slice!Drain, Slice!Shift, Slice!Stall
<1>3. QED
  BY <1>1, <1>2, PTL DEF Slice!Spec

\* The beats in the two registers, oldest first, behave as the queue.
THEOREM FullSliceIsQueue == Slice!Spec => Slice!IsQueue
<1> DEFINE q == IF filled = 0 THEN <<>>
                ELSE IF filled = 1 THEN <<axis[0]>> ELSE <<axis[0], axis[1]>>
<1>1. Slice!Init => Slice!Queue!Init
  BY DEF Slice!Init, Slice!Queue!Init
<1>2. Slice!TypeOK /\ [Slice!Next]_(Slice!vars) => [Slice!Queue!Next]_q
  <2> SUFFICES ASSUME Slice!TypeOK, [Slice!Next]_(Slice!vars)
               PROVE  Slice!Queue!Next \/ q' = q
    BY DEF Slice!Queue!Next
  <2> USE DEF Slice!TypeOK, Slice!Queue!Next, Slice!Queue!Enter,
            Slice!Queue!EnterAndExit, Slice!Queue!Exit
  <2>1. ASSUME NEW s_tvalid \in BOOLEAN, NEW beat \in Data, Slice!FillFirst(s_tvalid, beat)
        PROVE  Slice!Queue!Enter(beat)
    BY <2>1 DEF Slice!FillFirst
  <2>2. ASSUME NEW s_tvalid \in BOOLEAN, NEW beat \in Data, NEW m_tready \in BOOLEAN,
               Slice!PassOn(s_tvalid, beat, m_tready)
        PROVE  Slice!Queue!EnterAndExit(beat)
    BY <2>2 DEF Slice!PassOn
  <2>3. ASSUME NEW s_tvalid \in BOOLEAN, NEW beat \in Data, NEW m_tready \in BOOLEAN,
               Slice!FillSecond(s_tvalid, beat, m_tready)
        PROVE  Slice!Queue!Enter(beat)
    BY <2>3 DEF Slice!FillSecond
  <2>4. ASSUME NEW s_tvalid \in BOOLEAN, NEW m_tready \in BOOLEAN, Slice!Drain(s_tvalid, m_tready)
        PROVE  Slice!Queue!Exit
    BY <2>4 DEF Slice!Drain
  <2>5. ASSUME NEW m_tready \in BOOLEAN, Slice!Shift(m_tready)
        PROVE  Slice!Queue!Exit
    BY <2>5 DEF Slice!Shift
  <2>6. ASSUME UNCHANGED Slice!vars
        PROVE  q' = q
    BY <2>6 DEF Slice!vars
  <2>7. QED
    BY <2>1, <2>2, <2>3, <2>4, <2>5, <2>6 DEF Slice!Next, Slice!Clock, Slice!Stall
<1>3. QED
  BY <1>1, <1>2, FullSliceTypeOK, PTL DEF Slice!Spec, Slice!IsQueue, Slice!Queue!Spec

-----------------------------------------------------------------------------
(* The FIFO.                                                               *)

USE DEF Fifo!FifoAssumption, Fifo!Ptr, Fifo!Addr

\* The pointers address the memory, and full and empty mean what they say.
LEMMA PointersAgree ==
  ASSUME Fifo!FifoAssumption, Fifo!TypeOK
  PROVE  /\ Fifo!Count \in 0..FifoDepth
         /\ \A p \in Fifo!Ptr : Fifo!Idx(p) \in Fifo!Addr
         /\ Fifo!empty <=> Fifo!Count = 0
         /\ Fifo!full <=> Fifo!Count = FifoDepth
  BY DEF Fifo!TypeOK, Fifo!Count, Fifo!Idx, Fifo!Lap, Fifo!empty, Fifo!full

\* What the FIFO holds is a sequence of words, one for each pointer step.
OneWordPerStep ==
    /\ Fifo!Contents \in Seq(Data)
    /\ Len(Fifo!Contents) = Fifo!Count
    /\ \A k \in 1..Fifo!Count : Fifo!Contents[k] = Fifo!At(k - 1)

LEMMA ContentsType ==
  ASSUME Fifo!FifoAssumption, Fifo!TypeOK
  PROVE  OneWordPerStep
<1>1. \A k \in 1..Fifo!Count : Fifo!At(k - 1) \in Data
  BY PointersAgree DEF Fifo!TypeOK, Fifo!At, Fifo!Idx
<1>2. QED
  BY <1>1, PointersAgree DEF Fifo!Contents, OneWordPerStep

\* The words in the FIFO after a push, a pop, or both.
LEMMA PushOnly ==
  ASSUME Fifo!FifoAssumption, Fifo!TypeOK, NEW data \in Data,
         Fifo!Push(TRUE, data), UNCHANGED rd_ptr
  PROVE  Fifo!TypeOK' /\ Fifo!Queue!Enter(data)
<1> USE DEF Fifo!Push, Fifo!s_axis_ready
<1>1. mem' \in [Fifo!Addr -> Data] /\ wr_ptr' \in Fifo!Ptr /\ Fifo!Count < FifoDepth
  BY PointersAgree DEF Fifo!TypeOK, Fifo!Inc
<1>2. Fifo!Count' = Fifo!Count + 1
  BY <1>1 DEF Fifo!TypeOK, Fifo!Count, Fifo!Inc
<1>3. Fifo!TypeOK'
  <2>1. Fifo!Count' <= FifoDepth
    BY <1>1, <1>2, PointersAgree
  <2>2. QED
    BY <1>1, <2>1 DEF Fifo!TypeOK
<1>4. ASSUME NEW k \in 0..(Fifo!Count - 1)
      PROVE  Fifo!At(k)' = Fifo!At(k)
  BY <1>1 DEF Fifo!TypeOK, Fifo!Count, Fifo!At, Fifo!Idx
<1>5. ASSUME NEW k \in Nat, k = Fifo!Count
      PROVE  Fifo!At(k)' = data
  BY <1>1, <1>5 DEF Fifo!TypeOK, Fifo!Count, Fifo!At, Fifo!Idx
<1>6. OneWordPerStep'
  BY <1>3, ContentsType, PTL
<1>7. Fifo!Contents' = Append(Fifo!Contents, data)
  <2>1. \A i \in 1..Len(Fifo!Contents') : Fifo!Contents'[i] = Append(Fifo!Contents, data)[i]
    BY <1>2, <1>4, <1>5, <1>6, ContentsType, AppendProperties, PointersAgree DEF OneWordPerStep
  <2>2. QED
    BY <1>2, <1>6, <2>1, ContentsType, AppendProperties, SeqEqual, PointersAgree DEF OneWordPerStep
<1>8. QED
  BY <1>1, <1>3, <1>7, ContentsType DEF OneWordPerStep, Fifo!Queue!Enter

LEMMA PopOnly ==
  ASSUME Fifo!FifoAssumption, Fifo!TypeOK, Fifo!Pop(TRUE), UNCHANGED <<mem, wr_ptr>>
  PROVE  Fifo!TypeOK' /\ Fifo!Queue!Exit
<1> USE DEF Fifo!Pop, Fifo!m_axis_valid
<1>1. rd_ptr' \in Fifo!Ptr /\ Fifo!Count > 0
  BY PointersAgree DEF Fifo!TypeOK, Fifo!Inc
<1>2. Fifo!Count' = Fifo!Count - 1
  BY <1>1 DEF Fifo!TypeOK, Fifo!Count, Fifo!Inc
<1>3. Fifo!TypeOK'
  <2>1. Fifo!Count' <= FifoDepth
    BY <1>1, <1>2, PointersAgree
  <2>2. QED
    BY <1>1, <2>1 DEF Fifo!TypeOK
<1>4. ASSUME NEW k \in 0..(Fifo!Count - 2)
      PROVE  Fifo!At(k)' = Fifo!At(k + 1)
  BY <1>1 DEF Fifo!TypeOK, Fifo!Count, Fifo!At, Fifo!Idx, Fifo!Inc
<1>5. OneWordPerStep'
  BY <1>3, ContentsType, PTL
<1>6. Fifo!Contents # <<>>
  BY <1>1, ContentsType DEF OneWordPerStep
<1>7. Fifo!Contents' = Tail(Fifo!Contents)
  <2>1. Len(Fifo!Contents') = Fifo!Count - 1 /\ Fifo!Count \in Nat
    BY <1>2, <1>5, PointersAgree DEF OneWordPerStep
  <2>2. ASSUME NEW i \in 1..(Fifo!Count - 1)
        PROVE  Fifo!Contents'[i] = Tail(Fifo!Contents)[i]
    <3>1. Fifo!Contents'[i] = Fifo!At(i - 1)' /\ Fifo!At(i - 1)' = Fifo!At(i)
      BY <1>2, <1>4, <1>5, <2>1 DEF OneWordPerStep
    <3>2. Tail(Fifo!Contents)[i] = Fifo!Contents[i + 1] /\ Fifo!Contents[i + 1] = Fifo!At(i)
      BY <1>6, <2>1, ContentsType, HeadTailProperties DEF OneWordPerStep
    <3>3. QED
      BY <3>1, <3>2
  <2>3. /\ Tail(Fifo!Contents) \in Seq(Data) /\ Len(Tail(Fifo!Contents)) = Fifo!Count - 1
        /\ Fifo!Contents' \in Seq(Data)
    BY <1>5, <1>6, ContentsType, HeadTailProperties DEF OneWordPerStep
  <2>4. \A i \in 1..Len(Fifo!Contents') : Fifo!Contents'[i] = Tail(Fifo!Contents)[i]
    BY <2>1, <2>2
  <2>5. QED
    BY <2>1, <2>3, <2>4, SeqEqual
<1>8. QED
  BY <1>3, <1>6, <1>7 DEF Fifo!Queue!Exit

LEMMA PushAndPop ==
  ASSUME Fifo!FifoAssumption, Fifo!TypeOK, NEW data \in Data, Fifo!Push(TRUE, data), Fifo!Pop(TRUE)
  PROVE  Fifo!TypeOK' /\ Fifo!Queue!EnterAndExit(data)
<1> USE DEF Fifo!Push, Fifo!Pop, Fifo!s_axis_ready, Fifo!m_axis_valid
<1>1. /\ mem' \in [Fifo!Addr -> Data] /\ wr_ptr' \in Fifo!Ptr /\ rd_ptr' \in Fifo!Ptr
      /\ Fifo!Count < FifoDepth /\ Fifo!Count > 0
  BY PointersAgree DEF Fifo!TypeOK, Fifo!Inc
<1>2. Fifo!Count' = Fifo!Count
  BY <1>1 DEF Fifo!TypeOK, Fifo!Count, Fifo!Inc
<1>3. Fifo!TypeOK'
  <2>1. Fifo!Count' <= FifoDepth
    BY <1>1, <1>2, PointersAgree
  <2>2. QED
    BY <1>1, <2>1 DEF Fifo!TypeOK
<1>4. ASSUME NEW k \in 0..(Fifo!Count - 2)
      PROVE  Fifo!At(k)' = Fifo!At(k + 1)
  BY <1>1 DEF Fifo!TypeOK, Fifo!Count, Fifo!At, Fifo!Idx, Fifo!Inc
<1>5. ASSUME NEW k \in Nat, k = Fifo!Count - 1
      PROVE  Fifo!At(k)' = data
  BY <1>1, <1>5 DEF Fifo!TypeOK, Fifo!Count, Fifo!At, Fifo!Idx, Fifo!Inc
<1>6. OneWordPerStep'
  BY <1>3, ContentsType, PTL
<1>7. Fifo!Contents # <<>>
  BY <1>1, ContentsType DEF OneWordPerStep
<1>8. Fifo!Contents' = Append(Tail(Fifo!Contents), data)
  <2> DEFINE t == Tail(Fifo!Contents)
  <2>1. /\ t \in Seq(Data) /\ Len(t) = Fifo!Count - 1
        /\ \A i \in 1..(Fifo!Count - 1) : t[i] = Fifo!At(i)
    BY <1>7, ContentsType, HeadTailProperties, PointersAgree DEF OneWordPerStep
  <2> HIDE DEF t
  <2>2. Append(t, data) \in Seq(Data) /\ Len(Append(t, data)) = Fifo!Count
    <3>1. Append(t, data) \in Seq(Data) /\ Len(Append(t, data)) = Len(t) + 1
      BY <2>1, AppendProperties
    <3>2. QED
      BY <2>1, <3>1, PointersAgree
  <2>3. ASSUME NEW i \in 1..Fifo!Count
        PROVE  Fifo!Contents'[i] = Append(t, data)[i]
    <3>1. Fifo!Contents'[i] = Fifo!At(i - 1)'
      BY <1>2, <1>6 DEF OneWordPerStep
    <3>2. CASE i = Fifo!Count
      BY <1>5, <2>1, <3>1, <3>2, PointersAgree
    <3>3. CASE i # Fifo!Count
      <4>1. i - 1 \in 0..(Fifo!Count - 2) /\ i \in 1..(Fifo!Count - 1)
        BY <3>3, PointersAgree
      <4>2. Fifo!Contents'[i] = Fifo!At(i)
        BY <1>4, <3>1, <4>1
      <4>3. QED
        BY <2>1, <4>1, <4>2, AppendProperties
    <3>4. QED
      BY <3>2, <3>3
  <2>4. QED
    BY <1>2, <1>6, <2>2, <2>3, SeqEqual, PointersAgree DEF OneWordPerStep, t
<1>9. QED
  BY <1>3, <1>7, <1>8 DEF Fifo!Queue!EnterAndExit

-----------------------------------------------------------------------------

\* Every clock edge is a step of the queue or leaves it alone.
LEMMA ClockIsQueueStep ==
  ASSUME Fifo!FifoAssumption, Fifo!TypeOK, [Fifo!Next]_(Fifo!vars)
  PROVE  Fifo!TypeOK' /\ [Fifo!Queue!Next]_(Fifo!Contents)
<1>1. CASE UNCHANGED Fifo!vars
  <2>1. Fifo!TypeOK' /\ UNCHANGED Fifo!Contents
    BY <1>1 DEF Fifo!vars, Fifo!TypeOK, Fifo!Count, Fifo!Contents, Fifo!At, Fifo!Idx
  <2>2. QED
    BY <2>1
<1>2. ASSUME NEW valid \in BOOLEAN, NEW ready \in BOOLEAN, NEW data \in Data,
             Fifo!Clock(valid, data, ready)
      PROVE  Fifo!TypeOK' /\ [Fifo!Queue!Next]_(Fifo!Contents)
  <2>1. CASE Fifo!Push(valid, data) /\ Fifo!Pop(ready)
    BY <2>1, PushAndPop DEF Fifo!Push, Fifo!Pop, Fifo!Queue!Next
  <2>2. CASE Fifo!Push(valid, data) /\ Fifo!NoPop(ready)
    BY <2>2, PushOnly DEF Fifo!Push, Fifo!NoPop, Fifo!Queue!Next
  <2>3. CASE Fifo!NoPush(valid) /\ Fifo!Pop(ready)
    BY <2>3, PopOnly DEF Fifo!NoPush, Fifo!Pop, Fifo!Queue!Next
  <2>4. CASE Fifo!NoPush(valid) /\ Fifo!NoPop(ready)
    <3>1. Fifo!TypeOK' /\ UNCHANGED Fifo!Contents
      BY <2>4 DEF Fifo!NoPush, Fifo!NoPop, Fifo!TypeOK, Fifo!Count, Fifo!Contents, Fifo!At, Fifo!Idx
    <3>2. QED
      BY <3>1
  <2>5. QED
    BY <1>2, <2>1, <2>2, <2>3, <2>4 DEF Fifo!Clock
<1>3. QED
  BY <1>1, <1>2 DEF Fifo!Next

\* The pointers stay in range and never run more than a memory apart.
THEOREM SyncFifoTypeOK ==
  ASSUME Fifo!FifoAssumption
  PROVE  Fifo!Spec => []Fifo!TypeOK
<1>1. Fifo!Init => Fifo!TypeOK
  BY DEF Fifo!Init, Fifo!TypeOK, Fifo!Count
<1>2. Fifo!TypeOK /\ [Fifo!Next]_(Fifo!vars) => Fifo!TypeOK'
  BY ClockIsQueueStep
<1>3. QED
  BY <1>1, <1>2, PTL DEF Fifo!Spec

\* The words between the pointers behave as the bounded queue.
THEOREM SyncFifoIsQueue ==
  ASSUME Fifo!FifoAssumption
  PROVE  Fifo!Spec => Fifo!IsQueue
<1>1. Fifo!Init => Fifo!Queue!Init
  BY DEF Fifo!Init, Fifo!Queue!Init, Fifo!Contents, Fifo!Count
<1>2. Fifo!TypeOK /\ [Fifo!Next]_(Fifo!vars) => [Fifo!Queue!Next]_(Fifo!Contents)
  BY ClockIsQueueStep
<1>3. QED
  BY <1>1, <1>2, SyncFifoTypeOK, PTL DEF Fifo!Spec, Fifo!IsQueue, Fifo!Queue!Spec

-----------------------------------------------------------------------------
(* Updates. *)

\* A request, and the word of a value that starts its words off.
AnyRequest ==
    [op : {0}, key : Keys \cup {None}, val : {None}, len : {0}]
    \cup [op : {1}, key : Keys, val : Vals, len : Lengths]
Insert(r) == r.op = 1

FitLength == {n \in 1..512 : n <= BytesInFirst \/ n % 64 > BytesInFirst}
Source == [val : Vals \cup {None}, len : FitLength]

-----------------------------------------------------------------------------
(* Where the parts of a request are.  n is the age of the request r, m that *)
(* of the value of v, ptr the box of the latest insert.                     *)

ParserFields == DOMAIN ParserReset
FrontEndFields == DOMAIN FrontEndReset

\* The beats from the i-th on.
Left(r, i) == [k \in 1..(Beats(r.len) - i + 1) |-> Packet(r)[k + i - 1]]

ParserAt(r, n) ==
    /\ DOMAIN parser = ParserFields
    /\ parser.state = IF n = 1 THEN "ST_DATA_FETCH"
                      ELSE IF Insert(r) /\ n \in 2..Beats(r.len) THEN "ST_VALUE" ELSE "ST_IDLE"
    /\ n \in 1..Beats(r.len) => parser.inready /\ ~parser.value_last_buf
    /\ ~parser.force_throw
    /\ n = 1 => parser.opcode = r.op
    /\ Insert(r) /\ n \in 2..Beats(r.len) => parser.value_data_buf = <<r.val, n - 1>>
    /\ parser.meta_valid <=> (n = 2)
    /\ parser.key_valid <=> (n = 2)
    /\ parser.malloc_valid <=> (n = 2 /\ Insert(r))
    /\ n = 2 => parser.meta = [op |-> r.op, len |-> r.len]
    /\ n >= 2 => parser.key = r.key

SendingAt(r, n) == sending = Left(r, IF n = 0 THEN 1 ELSE n)

AllocAt(r, n, ptr) ==
    /\ DOMAIN alloc = {"free", "deciding", "req_ready", "valid", "pointer"}
    /\ alloc.deciding <=> (Insert(r) /\ n = 3)
    /\ alloc.req_ready <=> ~(Insert(r) /\ n = 3)
    /\ alloc.valid <=> (Insert(r) /\ n = 4)
    /\ Insert(r) /\ n = 4 => alloc.pointer = ptr
    /\ Insert(r) /\ n >= 4 => ptr \in Pointers

\* The age at which the front end sends the key, and the key it sends.
KeyAge(r) == IF Insert(r) THEN 5 ELSE 3
Sent(r, ptr) ==
    IF Insert(r) THEN [op |-> "KV_INSERT", key |-> r.key, value |-> ptr]
    ELSE [op |-> "KV_DELETE", key |-> r.key]

FrontEndAt(r, n, ptr) ==
    /\ DOMAIN fe = FrontEndFields
    /\ fe.state = IF Insert(r) /\ n \in {3, 4} THEN "ST_INSERT_BEGIN" ELSE "ST_IDLE"
    /\ fe.insert_wait_counter = IF Insert(r) /\ n \in {3, 4} THEN n - 2 ELSE 0
    /\ Insert(r) /\ n \in {3, 4} =>
         /\ fe.value_box_number = Boxes(r.len)
         /\ fe.value_len_byte = r.len
         /\ fe.key_valid_buffer
    /\ fe.alloc_busy <=> (Insert(r) /\ n \in {3, 4})
    /\ fe.key_valid <=> (n = KeyAge(r))
    /\ n = KeyAge(r) => fe.key = Sent(r, ptr)

\* The age at which the parser has the first word of a value.
FirstAge(v) == IF Beats(v.len) = 1 THEN 2 ELSE 3

WordAt(v, m) ==
    /\ parser.value_valid <=> (m \in FirstAge(v)..(FirstAge(v) + Boxes(v.len) - 1))
    /\ parser.value_valid => parser.value = Words(v)[m - FirstAge(v) + 1]
FifoAt(v, m) ==
    fifo_value = IF m \in (FirstAge(v) + 1)..(IF Boxes(v.len) = 1 THEN 5 ELSE Boxes(v.len) + 3)
                 THEN <<Words(v)[IF Boxes(v.len) = 1 THEN 1 ELSE m - 3]>> ELSE <<>>

LauncherAt(v, m, ptr) ==
    /\ fe.launch_on <=> (m = 4)
    /\ fe.launch_state = IF m \in 5..(Boxes(v.len) + 4) THEN "ST_LAUNCH_BEGIN" ELSE "ST_LAUNCH_IDLE"
    /\ m \in 5..(Boxes(v.len) + 4) =>
         /\ fe.value_box_number_launcher = Boxes(v.len) + 5 - m
         /\ fe.alloc_pointer_buffer = ptr
         /\ fe.value = [pointer |-> ptr, len |-> IF m = 5 THEN v.len ELSE 0,
            word |-> Words(v)[m - 4]]
    /\ fe.value_valid <=> (m \in 5..(Boxes(v.len) + 4))
    /\ fe.fifo_value_ready <=> (m \in 5..(Boxes(v.len) + 4) \/ (m = 4 /\ Boxes(v.len) # 1))

StoreAt(v, m, ptr) ==
    /\ fifo_store_value =
         IF m \in 6..(Boxes(v.len) + 5)
         THEN << [pointer |-> ptr, len |-> IF m = 6 THEN v.len ELSE 0, word |-> Words(v)[m - 5]] >>
         ELSE <<>>

\* Between the front end and the hash table.
KeyAt(r, n, ptr) ==
    /\ fifo_store_key = IF n = KeyAge(r) + 1 THEN <<Sent(r, ptr)>> ELSE <<>>
    /\ upd.req_valid <=> (n = KeyAge(r) + 2)
    /\ n = KeyAge(r) + 2 => upd.req = Sent(r, ptr)

Deleted(r, answer) ==
    /\ answer = [op |-> "KV_DELETE", key |-> r.key, value |-> answer.value,
                 success |-> answer.value # NoPointer]
    /\ answer.value \in Pointers \cup {NoPointer}
Inserted(r, ptr) == [op |-> "KV_INSERT", key |-> r.key, value |-> ptr, success |-> TRUE]

\* In the hash table and behind it.
Waits == hash.request # None
Answers == hash.answer # None
TableAt(r, n, ptr) ==
    /\ hash = [request |-> hash.request, answer |-> hash.answer]
    /\ DOMAIN upd = {"req", "req_valid", "free", "free_valid", "ack", "ack_valid"}
    /\ Waits => n >= KeyAge(r) + 3 /\ hash.request = Sent(r, ptr) /\ ~Answers
    /\ Answers => /\ n >= KeyAge(r) + 4
                  /\ IF Insert(r) THEN hash.answer = Inserted(r, ptr) ELSE Deleted(r, hash.answer)
    /\ upd.ack_valid => n >= KeyAge(r) + 5 /\ ~Waits /\ ~Answers

RequestAt(r, n) ==
    /\ request # None => request = r /\ r.key \in Keys
    /\ request # None /\ n >= KeyAge(r) + 3 => Waits \/ Answers \/ upd.ack_valid
    /\ request = None => n >= KeyAge(r) + 6 /\ ~Waits /\ ~Answers /\ ~upd.ack_valid

\* A value belongs to the request from its second cycle on; any other has
\* been under way for so long that nothing of it is left.
Together(r, n, v, m) ==
    IF Insert(r) /\ n >= 2 THEN m = n /\ v.val = r.val /\ v.len = r.len ELSE m >= 12 + n

PathAt(r, n, v, m, ptr) ==
    /\ ParserAt(r, n) /\ SendingAt(r, n) /\ AllocAt(r, n, ptr) /\ FrontEndAt(r, n, ptr)
    /\ WordAt(v, m) /\ FifoAt(v, m) /\ LauncherAt(v, m, ptr) /\ StoreAt(v, m, ptr)
    /\ KeyAt(r, n, ptr) /\ TableAt(r, n, ptr) /\ RequestAt(r, n) /\ Together(r, n, v, m)

\* What the places of a box hold.
BoxTypes ==
    /\ alloc.free \subseteq Pointers
    /\ upd.free_valid => upd.free \in Pointers
    /\ fifo_pointer \in Seq(Pointers)
    /\ table \in [Keys -> Pointers \cup {NoPointer}]

-----------------------------------------------------------------------------
(* Lengths, and the beats of a packet *)

HIDE DEF Fifo!FifoAssumption, Fifo!Ptr, Fifo!Addr
USE UpdatePathAssumption

\* The words of a value are one less than its packet's beats, unless it fits
\* the first beat; the last beat never has a rest.
LEMMA LengthsFit ==
  ASSUME NEW len \in FitLength
  PROVE  /\ Boxes(len) \in 1..8 /\ Beats(len) \in 1..9
         /\ len <= 40 => Beats(len) = 1 /\ Boxes(len) = 1
         /\ len > 40 => /\ Beats(len) = Boxes(len) + 1
                        /\ (24 + len) - 64 * (Beats(len) - 1) < KeepOfWord
BY DEF Boxes, Beats, BytesInFirst, FitLength, KeepOfWord

LEMMA RequestFits ==
  ASSUME NEW r \in AnyRequest
  PROVE  /\ r.op \in {0, 1} /\ Beats(r.len) \in 1..9
         /\ Insert(r) => r.len \in FitLength /\ r.val \in Vals /\ r.key \in Keys
         /\ ~Insert(r) => r.op = 0 /\ r.len = 0 /\ Beats(r.len) = 1
         /\ r.op = IF Insert(r) THEN 1 ELSE 0
         /\ KeyAge(r) = IF Insert(r) THEN 5 ELSE 3
<1>1. CASE Insert(r)
  <2>1. r.op = 1 /\ r.len \in Lengths /\ r.val \in Vals /\ r.key \in Keys
    BY <1>1 DEF AnyRequest, Insert
  <2>2. r.len \in FitLength
    BY <2>1 DEF UpdatePathAssumption, FitLength
  <2>3. QED
    BY <1>1, <2>1, <2>2, LengthsFit DEF Insert, KeyAge
<1>2. CASE ~Insert(r)
  <2>1. r.op = 0 /\ r.len = 0
    BY <1>2 DEF AnyRequest, Insert
  <2>2. Beats(0) = 1
    BY DEF Beats
  <2>3. QED
    BY <1>2, <2>1, <2>2 DEF Insert, KeyAge
<1>3. QED
  BY <1>1, <1>2

LEMMA BeatsLeft ==
  ASSUME NEW r \in AnyRequest, NEW i \in Nat, i >= 1
  PROVE  /\ i > Beats(r.len) => Left(r, i) = <<>>
         /\ i <= Beats(r.len) => /\ Left(r, i) # <<>>
                                 /\ Head(Left(r, i)) = Packet(r)[i]
                                 /\ Tail(Left(r, i)) = Left(r, i + 1)
<1> DEFINE b == Beats(r.len)
           s == Left(r, i)
<1>1. b \in Nat
  BY RequestFits
<1>2. s = [k \in 1..(b - i + 1) |-> Packet(r)[k + i - 1]]
  BY DEF Left
<1>3. Left(r, i + 1) = [k \in 1..(b - i) |-> Packet(r)[k + i]]
  BY <1>1 DEF Left
<1> HIDE DEF b, s
<1>4. CASE i > b
  <2>1. s = <<>>
    BY <1>1, <1>2, <1>4
  <2>2. QED
    BY <1>1, <1>4, <2>1 DEF b, s
<1>5. CASE i <= b
  <2>1. /\ s \in Seq({Packet(r)[k] : k \in 1..b}) /\ Len(s) = b - i + 1
        /\ \A k \in 1..(b - i + 1) : s[k] = Packet(r)[k + i - 1]
    BY <1>1, <1>2, <1>5
  <2>2. s # <<>> /\ Head(s) = s[1]
    BY <1>1, <1>5, <2>1, EmptySeq, HeadTailProperties
  <2>3. /\ Tail(s) \in Seq({Packet(r)[k] : k \in 1..b}) /\ Len(Tail(s)) = b - i
        /\ \A k \in 1..(b - i) : Tail(s)[k] = Packet(r)[k + i]
    <3>1. Tail(s) \in Seq({Packet(r)[k] : k \in 1..b}) /\ Len(Tail(s)) = b - i
      BY <1>1, <1>5, <2>1, <2>2, HeadTailProperties
    <3>2. ASSUME NEW k \in 1..(b - i)
          PROVE  Tail(s)[k] = Packet(r)[k + i]
      <4>1. Tail(s)[k] = s[k + 1]
        BY <1>1, <1>5, <2>1, <2>2, <3>1, HeadTailProperties
      <4>2. QED
        BY <1>1, <1>5, <2>1, <4>1
    <3>3. QED
      BY <3>1, <3>2
  <2>4. /\ Left(r, i + 1) \in Seq({Packet(r)[k] : k \in 1..b}) /\ Len(Left(r, i + 1)) = b - i
        /\ \A k \in 1..(b - i) : Left(r, i + 1)[k] = Packet(r)[k + i]
    <3>1. PICK t : t = Left(r, i + 1)
      OBVIOUS
    <3>2. \A k \in 1..(b - i) : k + i \in 1..b
      BY <1>1, <1>5
    <3>3. t \in Seq({Packet(r)[k] : k \in 1..b}) /\ Len(t) = b - i
      <4>1. t \in [1..(b - i) -> {Packet(r)[k] : k \in 1..b}]
        BY <1>3, <3>1, <3>2
      <4>2. b - i \in Nat
        BY <1>1, <1>5
      <4>3. QED
        BY <4>1, <4>2
    <3>4. \A k \in 1..(b - i) : t[k] = Packet(r)[k + i]
      BY <1>3, <3>1
    <3>5. QED
      BY <3>1, <3>3, <3>4
  <2>5. Tail(s) = Left(r, i + 1)
    BY <1>1, <1>5, <2>3, <2>4, SeqEqual
  <2>6. s[1] = Packet(r)[i]
    BY <1>1, <1>5, <2>1
  <2>7. QED
    BY <1>1, <1>5, <2>2, <2>5, <2>6 DEF b, s
<1>6. QED
  BY <1>1, <1>4, <1>5 DEF b

\* What the parser sees of the i-th beat.
LEMMA BeatOf ==
  ASSUME NEW r \in AnyRequest, NEW i \in Nat, 1 <= i, i <= Beats(r.len)
  PROVE  /\ Packet(r)[i] # None
         /\ i = 1 => Packet(r)[i].head = [op |-> r.op, key |-> r.key, len |-> r.len]
         /\ Part(Packet(r)[i]) = <<r.val, i>>
         /\ Packet(r)[i].last <=> (i = Beats(r.len))
         /\ Insert(r) /\ r.len > 40 /\ i = Beats(r.len) => ~(Packet(r)[i].keep > KeepOfWord)
         /\ Insert(r) /\ r.len > 40 /\ i = Beats(r.len) => Packet(r)[i].keep < KeepOfWord
<1> DEFINE beat == Packet(r)[i]
<1>1. Beats(r.len) \in Nat
  BY RequestFits
<1>2. beat = [head |-> IF i = 1 THEN [op |-> r.op, key |-> r.key, len |-> r.len] ELSE None,
              val |-> r.val, part |-> i, last |-> i = Beats(r.len),
              keep |-> IF i = Beats(r.len) THEN BytesInLast(r.len) ELSE 64]
  BY <1>1 DEF Packet
<1> HIDE DEF beat
<1>3. beat # None
  <2>1. "head" \in DOMAIN beat /\ "head" \notin DOMAIN None
    BY <1>2 DEF None
  <2>2. QED
    BY <2>1
<1>4. Insert(r) /\ r.len > 40 /\ i = Beats(r.len)
        => beat.keep < KeepOfWord /\ ~(beat.keep > KeepOfWord)
  <2> SUFFICES ASSUME Insert(r), r.len > 40, i = Beats(r.len)
               PROVE  beat.keep < KeepOfWord /\ ~(beat.keep > KeepOfWord)
    OBVIOUS
  <2>1. r.len \in FitLength /\ r.len \in Int
    BY RequestFits DEF FitLength
  <2>2. r.len \in Int /\ BytesInLast(r.len) < KeepOfWord
    BY <2>1, LengthsFit DEF BytesInLast
  <2>3. BytesInLast(r.len) \in Int
    BY <1>1, <2>2 DEF BytesInLast
  <2>4. beat.keep = BytesInLast(r.len)
    BY <1>2
  <2>5. QED
    BY <2>2, <2>3, <2>4 DEF KeepOfWord
<1>5. beat.last <=> (i = Beats(r.len))
  BY <1>2
<1>6. /\ i = 1 => beat.head = [op |-> r.op, key |-> r.key, len |-> r.len]
      /\ Part(beat) = <<r.val, i>>
  BY <1>2 DEF Part
<1>7. QED
  BY <1>3, <1>4, <1>5, <1>6 DEF beat

-----------------------------------------------------------------------------
(* The request parser *)

Ages(r, n, v, m, ptr) ==
    /\ r \in AnyRequest /\ n \in Nat /\ v \in Source /\ m \in Nat
    /\ ptr \in Pointers \cup {NoPointer}
    /\ PathAt(r, n, v, m, ptr)

LEMMA SourceFits ==
  ASSUME NEW v \in Source
  PROVE  /\ v.len \in FitLength /\ Boxes(v.len) \in 1..8 /\ FirstAge(v) \in {2, 3}
         /\ FirstAge(v) = 2 => v.len <= 40 /\ Boxes(v.len) = 1
         /\ v.len <= 40 => FirstAge(v) = 2
         /\ v.len > 40 => Beats(v.len) = Boxes(v.len) + 1
<1>1. v.len \in FitLength
  BY DEF Source
<1>2. v.len \in 1..512
  BY <1>1 DEF FitLength
<1>3. /\ Boxes(v.len) \in 1..8 /\ Beats(v.len) \in 1..9
      /\ v.len <= 40 => Beats(v.len) = 1 /\ Boxes(v.len) = 1
      /\ v.len > 40 => Beats(v.len) = Boxes(v.len) + 1
  BY <1>1, LengthsFit
<1>4. QED
  BY <1>1, <1>2, <1>3 DEF FirstAge

\* No queue before the hash table ever holds more than one entry.
LEMMA NothingWaits ==
  ASSUME NEW r, NEW n, NEW v, NEW m, NEW ptr, Ages(r, n, v, m, ptr)
  PROVE  /\ value_ready /\ store_key_ready /\ store_value_ready
         /\ (malloc_ready <=> ~(Insert(r) /\ n \in {3, 4}))
         /\ outready(parser_ready)
<1>1. Len(fifo_value) <= 1 /\ Len(fifo_store_key) <= 1 /\ Len(fifo_store_value) <= 1
  BY DEF Ages, PathAt, FifoAt, StoreAt, KeyAt
<1>2. malloc_ready <=> ~(Insert(r) /\ n \in {3, 4})
  BY DEF Ages, PathAt, AllocAt, FrontEndAt, malloc_ready, parser_to_allocator_ready
<1>3. value_ready /\ store_key_ready /\ store_value_ready
  <2>1. Len(fifo_value) \in Nat /\ Len(fifo_store_key) \in Nat /\ Len(fifo_store_value) \in Nat
    BY DEF Ages, PathAt, FifoAt, StoreAt, KeyAt
  <2>2. QED
    BY <1>1, <2>1 DEF value_ready, store_key_ready, store_value_ready
<1>4. QED
  BY <1>2, <1>3 DEF outready, parser_ready

\* The beat at the parser.
LEMMA BeatNow ==
  ASSUME NEW r, NEW n, NEW v, NEW m, NEW ptr, Ages(r, n, v, m, ptr)
  PROVE  /\ n = 0 => Beat = Packet(r)[1]
         /\ n \in 1..Beats(r.len) => Beat = Packet(r)[n]
         /\ n > Beats(r.len) => Beat = None
<1>1. r \in AnyRequest /\ n \in Nat /\ Beats(r.len) \in 1..9 /\ SendingAt(r, n)
  BY RequestFits DEF Ages, PathAt
<1>2. n = 0 => sending = Left(r, 1)
  BY <1>1 DEF SendingAt
<1>3. n > 0 => sending = Left(r, n)
  BY <1>1 DEF SendingAt
<1>4. CASE n = 0
  <2>1. Left(r, 1) # <<>> /\ Head(Left(r, 1)) = Packet(r)[1]
    BY <1>1, BeatsLeft
  <2>2. QED
    BY <1>1, <1>2, <1>4, <2>1 DEF Beat
<1>5. CASE n > 0
  <2>1. n > Beats(r.len) => Left(r, n) = <<>>
    BY <1>1, <1>5, BeatsLeft
  <2>2. n <= Beats(r.len) => Left(r, n) # <<>> /\ Head(Left(r, n)) = Packet(r)[n]
    BY <1>1, <1>5, BeatsLeft
  <2>3. QED
    BY <1>1, <1>3, <1>5, <2>1, <2>2 DEF Beat
<1>6. QED
  BY <1>1, <1>4, <1>5

\* A word, a key, meta data and a size are taken in the cycle they are there.
LEMMA OutputsTaken ==
  ASSUME NEW p, DOMAIN p = ParserFields, NEW r, r.meta, r.key, r.value
  PROVE  LET q == Handshakes(p, r)
         IN  /\ DOMAIN q = ParserFields
             /\ ~q.meta_valid /\ ~q.key_valid /\ ~q.value_valid
             /\ q.malloc_valid <=> p.malloc_valid /\ ~r.malloc
             /\ q.state = p.state /\ q.opcode = p.opcode /\ q.inready = p.inready
             /\ q.force_throw = p.force_throw /\ q.value_data_buf = p.value_data_buf
             /\ q.value_last_buf = p.value_last_buf /\ q.key = p.key /\ q.meta = p.meta
             /\ q.value = p.value
<1> DEFINE q == Handshakes(p, r)
<1>1. DOMAIN q = ParserFields
  BY DEF Handshakes
<1>2. \A f \in ParserFields :
        f \notin {"meta_valid", "malloc_valid", "key_valid", "value_valid"} => q[f] = p[f]
  BY DEF Handshakes
<1>3. /\ ~q.meta_valid /\ ~q.key_valid /\ ~q.value_valid
      /\ q.malloc_valid <=> p.malloc_valid /\ ~r.malloc
  <2>1. {"meta_valid", "key_valid", "value_valid", "malloc_valid"} \subseteq ParserFields
    BY DEF ParserFields, ParserReset
  <2>2. ~q.meta_valid
    BY <2>1 DEF Handshakes
  <2>3. ~q.key_valid
    BY <2>1 DEF Handshakes
  <2>4. ~q.value_valid
    BY <2>1 DEF Handshakes
  <2>5. q.malloc_valid <=> p.malloc_valid /\ ~r.malloc
    BY <2>1 DEF Handshakes
  <2>6. QED
    BY <2>2, <2>3, <2>4, <2>5
<1> HIDE DEF q
<1>4. QED
  BY <1>1, <1>2, <1>3 DEF q, ParserFields, ParserReset

LEMMA ParserBegins ==
  ASSUME NEW r, NEW n, NEW v, NEW m, NEW ptr, Ages(r, n, v, m, ptr), ParserClock, n = 0
  PROVE  ParserAt(r, 1)' /\ ~parser'.value_valid
<1> DEFINE beat == Packet(r)[1]
           q == Handshakes(parser, parser_ready)
<1>1. /\ r \in AnyRequest /\ ParserAt(r, 0) /\ Beats(r.len) \in 1..9
  BY RequestFits DEF Ages, PathAt
<1>2. Beat = beat
  BY BeatNow
<1>3. beat # None /\ beat.head = [op |-> r.op, key |-> r.key, len |-> r.len]
  BY <1>1, BeatOf
<1>4. /\ outready(parser_ready) /\ readyfornew(parser_ready)
      /\ parser_ready.value /\ parser_ready.key /\ parser_ready.meta
  BY NothingWaits DEF readyfornew, parser_ready, outready
<1>5. /\ parser.state = "ST_IDLE" /\ DOMAIN parser = ParserFields
      /\ ~parser.malloc_valid /\ ~parser.force_throw
  BY <1>1 DEF ParserAt
<1>6. parser' = [q EXCEPT !.opcode = r.op, !.inready = TRUE, !.value_last_buf = FALSE,
                          !.state = "ST_DATA_FETCH"]
  BY <1>2, <1>3, <1>4, <1>5 DEF ParserClock, ParserStep, ParserIdle
<1>7. /\ DOMAIN q = ParserFields /\ ~q.meta_valid /\ ~q.key_valid /\ ~q.value_valid
      /\ ~q.malloc_valid /\ ~q.force_throw
  BY <1>4, <1>5, OutputsTaken
<1> HIDE DEF beat, q
<1>8. /\ DOMAIN parser' = ParserFields
      /\ parser'.state = "ST_DATA_FETCH" /\ parser'.inready /\ ~parser'.value_last_buf
      /\ parser'.opcode = r.op /\ ~parser'.force_throw
      /\ ~parser'.meta_valid /\ ~parser'.key_valid /\ ~parser'.malloc_valid
      /\ ~parser'.value_valid
  BY <1>6, <1>7 DEF ParserFields, ParserReset
<1>9. QED
  BY <1>1, <1>8 DEF ParserAt

\* The value that a request brings.
ValueOf(r) == [val |-> r.val, len |-> r.len]

LEMMA ValueOfIsSource ==
  ASSUME NEW r \in AnyRequest, Insert(r)
  PROVE  /\ ValueOf(r) \in Source /\ ValueOf(r).val = r.val /\ ValueOf(r).len = r.len
BY RequestFits DEF ValueOf, Source

LEMMA WordsOf ==
  ASSUME NEW v \in Source
  PROVE  /\ v.len <= 40 => Words(v)[1] = <<<<v.val, 1>>, Nothing>>
         /\ v.len > 40
            => \A k \in 1..Boxes(v.len) : Words(v)[k] = <<<<v.val, k>>, <<v.val, k + 1>>>>
<1>1. v.len \in FitLength /\ v.len \in Nat
  BY DEF Source, FitLength
<1>2. CASE v.len <= 40
  BY <1>1, <1>2 DEF Words, BytesInFirst
<1>3. CASE v.len > 40
  <2>1. Beats(v.len) - 1 = Boxes(v.len)
    BY <1>1, <1>3, LengthsFit
  <2>2. ~(v.len <= BytesInFirst)
    BY <1>1, <1>3 DEF BytesInFirst
  <2>3. Words(v) = [k \in 1..Boxes(v.len) |-> <<<<v.val, k>>, <<v.val, k + 1>>>>]
    BY <2>1, <2>2 DEF Words
  <2>4. QED
    BY <1>1, <1>3, <2>3
<1>4. QED
  BY <1>1, <1>2, <1>3

LEMMA ParserFetches ==
  ASSUME NEW r, NEW n, NEW v, NEW m, NEW ptr, Ages(r, n, v, m, ptr), ParserClock, n = 1
  PROVE  /\ ParserAt(r, 2)'
         /\ IF Insert(r) THEN WordAt(ValueOf(r), 2)' ELSE ~parser'.value_valid
<1> DEFINE beat == Packet(r)[1]
           q == Handshakes(parser, parser_ready)
           fetched == [q EXCEPT
             !.meta = [op |-> q.opcode, len |-> beat.head.len], !.meta_valid = TRUE,
             !.malloc_valid = (q.opcode = 1), !.key = beat.head.key, !.key_valid = TRUE]
<1>1. /\ r \in AnyRequest /\ ParserAt(r, 1) /\ Beats(r.len) \in 1..9
      /\ r.op = IF Insert(r) THEN 1 ELSE 0
  BY RequestFits DEF Ages, PathAt
<1>2. Beat = beat
  BY <1>1, BeatNow
<1>3. /\ beat # None /\ beat.head = [op |-> r.op, key |-> r.key, len |-> r.len]
      /\ Part(beat) = <<r.val, 1>>
  BY <1>1, BeatOf
<1>4. /\ outready(parser_ready)
      /\ parser_ready.value /\ parser_ready.key /\ parser_ready.meta
  BY NothingWaits DEF outready
<1>5. /\ parser.state = "ST_DATA_FETCH" /\ DOMAIN parser = ParserFields
      /\ parser.inready /\ ~parser.value_last_buf /\ ~parser.force_throw /\ parser.opcode = r.op
  BY <1>1 DEF ParserAt
<1>6. Accepts(parser, Beat, parser_ready)
  BY <1>2, <1>3, <1>4, <1>5 DEF Accepts, s_axis_tready
<1>7. parser' = DataFetch(q, beat)
  BY <1>2, <1>5, <1>6 DEF ParserClock, ParserStep
<1>8. parser' = IF ~Insert(r) THEN [fetched EXCEPT !.state = "ST_IDLE"]
                ELSE IF r.len > 40 THEN FirstPart(fetched, beat) ELSE OnlyWord(fetched, beat)
  <2>1. q.opcode = r.op
    BY <1>4, <1>5, OutputsTaken
  <2>2. HasValue(q) <=> Insert(r)
    BY <2>1 DEF HasValue, Insert
  <2>3. beat.head.len = r.len
    BY <1>3
  <2>4. QED
    BY <1>7, <2>2, <2>3 DEF DataFetch, BytesInFirst
<1>9. /\ DOMAIN q = ParserFields /\ ~q.value_valid /\ ~q.force_throw
      /\ q.opcode = r.op /\ q.inready /\ ~q.value_last_buf
  BY <1>4, <1>5, OutputsTaken
<1> HIDE DEF q
<1>10. /\ DOMAIN fetched = ParserFields /\ ~fetched.value_valid /\ ~fetched.force_throw
       /\ fetched.inready /\ ~fetched.value_last_buf
       /\ fetched.meta_valid /\ fetched.key_valid /\ (fetched.malloc_valid <=> Insert(r))
       /\ fetched.meta = [op |-> r.op, len |-> r.len] /\ fetched.key = r.key
  <2>1. DOMAIN fetched = ParserFields
    BY <1>9
  <2>2. \A f \in ParserFields :
          f \notin {"meta", "meta_valid", "malloc_valid", "key", "key_valid"} => fetched[f] = q[f]
    BY <1>9
  <2>3. /\ fetched.meta = [op |-> q.opcode, len |-> beat.head.len] /\ fetched.meta_valid
        /\ fetched.key = beat.head.key /\ fetched.key_valid
    BY <1>9 DEF ParserFields, ParserReset
  <2>4. fetched.malloc_valid = (q.opcode = 1)
    BY <1>9 DEF ParserFields, ParserReset
  <2>5. beat.head.len = r.len /\ beat.head.key = r.key
    BY <1>3
  <2> HIDE DEF fetched, beat
  <2>6. fetched.malloc_valid <=> Insert(r)
    BY <1>9, <2>4 DEF Insert
  <2>7. /\ ~fetched.value_valid /\ ~fetched.force_throw /\ fetched.inready
           /\ ~fetched.value_last_buf
    BY <1>9, <2>2 DEF ParserFields, ParserReset
  <2>8. fetched.meta = [op |-> r.op, len |-> r.len]
    BY <1>9, <2>3, <2>5
  <2>9. QED
    BY <2>1, <2>3, <2>5, <2>6, <2>7, <2>8
<1> HIDE DEF fetched, beat
<1>11. CASE ~Insert(r)
  <2>1. /\ DOMAIN parser' = ParserFields /\ ~parser'.value_valid /\ ~parser'.force_throw
        /\ parser'.state = "ST_IDLE"
        /\ parser'.meta_valid /\ parser'.key_valid /\ ~parser'.malloc_valid
        /\ parser'.meta = [op |-> r.op, len |-> r.len] /\ parser'.key = r.key
    BY <1>8, <1>10, <1>11 DEF ParserFields, ParserReset
  <2>2. Beats(r.len) = 1
    BY <1>1, <1>11, RequestFits
  <2>3. QED
    BY <1>11, <2>1, <2>2 DEF ParserAt
<1>12. CASE Insert(r) /\ r.len > 40
  <2>1. /\ DOMAIN parser' = ParserFields /\ ~parser'.value_valid /\ ~parser'.force_throw
        /\ parser'.state = "ST_VALUE" /\ parser'.inready /\ ~parser'.value_last_buf
        /\ parser'.value_data_buf = <<r.val, 1>>
        /\ parser'.meta_valid /\ parser'.key_valid /\ parser'.malloc_valid
        /\ parser'.meta = [op |-> r.op, len |-> r.len] /\ parser'.key = r.key
    BY <1>3, <1>8, <1>10, <1>12 DEF ParserFields, ParserReset, FirstPart
  <2>2. /\ ValueOf(r) \in Source /\ ValueOf(r).len = r.len /\ r.len \in FitLength
        /\ FirstAge(ValueOf(r)) \in {2, 3} /\ (FirstAge(ValueOf(r)) = 2 => r.len <= 40)
        /\ Boxes(r.len) \in 1..8 /\ Beats(r.len) = Boxes(r.len) + 1
    BY <1>1, <1>12, RequestFits, ValueOfIsSource, SourceFits
  <2>3. /\ Beats(r.len) >= 2 /\ FirstAge(ValueOf(r)) = 3
    BY <1>12, <2>2 DEF FitLength
  <2>4. ParserAt(r, 2)'
    BY <1>1, <1>12, <2>1, <2>3 DEF ParserAt
  <2>5. WordAt(ValueOf(r), 2)'
    BY <2>1, <2>2, <2>3 DEF WordAt
  <2>6. QED
    BY <1>12, <2>4, <2>5
<1>13. CASE Insert(r) /\ ~(r.len > 40)
  <2>1. /\ DOMAIN parser' = ParserFields /\ parser'.value_valid /\ ~parser'.force_throw
        /\ parser'.state = "ST_IDLE" /\ parser'.value = <<<<r.val, 1>>, Nothing>>
        /\ parser'.meta_valid /\ parser'.key_valid /\ parser'.malloc_valid
        /\ parser'.meta = [op |-> r.op, len |-> r.len] /\ parser'.key = r.key
    BY <1>3, <1>8, <1>10, <1>13 DEF ParserFields, ParserReset, OnlyWord
  <2>2. /\ ValueOf(r) \in Source /\ ValueOf(r).val = r.val /\ ValueOf(r).len = r.len
        /\ r.len \in FitLength
    BY <1>1, <1>13, RequestFits, ValueOfIsSource
  <2>3. r.len <= 40
    BY <1>13, <2>2 DEF FitLength
  <2>4. FirstAge(ValueOf(r)) = 2 /\ Boxes(ValueOf(r).len) = 1 /\ Beats(r.len) = 1
        /\ Words(ValueOf(r))[1] = <<<<r.val, 1>>, Nothing>>
    BY <2>2, <2>3, SourceFits, LengthsFit, WordsOf
  <2>5. ParserAt(r, 2)'
    BY <1>13, <2>1, <2>4 DEF ParserAt
  <2>6. WordAt(ValueOf(r), 2)'
    BY <2>1, <2>4 DEF WordAt
  <2>7. QED
    BY <1>13, <2>5, <2>6
<1>14. QED
  BY <1>11, <1>12, <1>13

LEMMA ParserTakes ==
  ASSUME NEW r, NEW n, NEW v, NEW m, NEW ptr, Ages(r, n, v, m, ptr), ParserClock,
         Insert(r), n \in 2..Beats(r.len)
  PROVE  /\ ParserAt(r, n + 1)'
         /\ WordAt(v, m + 1)'
<1> DEFINE beat == Packet(r)[n]
           q == Handshakes(parser, parser_ready)
           took == [q EXCEPT !.value = <<q.value_data_buf, <<r.val, n>>>>, !.value_valid = TRUE,
                             !.value_data_buf = <<r.val, n>>]
<1>1. /\ r \in AnyRequest /\ v \in Source /\ n \in Nat /\ m = n /\ v.val = r.val /\ v.len = r.len
      /\ ParserAt(r, n) /\ Beats(r.len) \in 1..9 /\ r.len \in FitLength
  BY RequestFits DEF Ages, PathAt, Together
<1>2. /\ r.len > 40 /\ Beats(r.len) = Boxes(r.len) + 1 /\ FirstAge(v) = 3 /\ Boxes(r.len) \in 1..8
  BY <1>1, LengthsFit DEF FirstAge, FitLength
<1>3. /\ Beat = beat /\ n \in 1..Beats(r.len)
  BY <1>1, BeatNow
<1>4. /\ beat # None /\ Part(beat) = <<r.val, n>>
      /\ beat.last <=> (n = Beats(r.len))
      /\ n = Beats(r.len) => beat.keep < KeepOfWord /\ ~(beat.keep > KeepOfWord)
  <2>1. r \in AnyRequest /\ n \in Nat /\ 1 <= n /\ n <= Beats(r.len)
    BY <1>1, <1>3
  <2>2. beat # None
    BY <2>1, BeatOf
  <2>3. Part(beat) = <<r.val, n>>
    BY <2>1, BeatOf
  <2>4. beat.last <=> (n = Beats(r.len))
    BY <2>1, BeatOf
  <2>5. n = Beats(r.len) => beat.keep < KeepOfWord
    BY <1>2, <2>1, BeatOf
  <2>6. n = Beats(r.len) => ~(beat.keep > KeepOfWord)
    BY <1>2, <2>1, BeatOf
  <2>7. QED
    BY <2>2, <2>3, <2>4, <2>5, <2>6
<1>5. /\ outready(parser_ready)
      /\ parser_ready.value /\ parser_ready.key /\ parser_ready.meta
  BY NothingWaits DEF outready
<1>6. /\ parser.state = "ST_VALUE" /\ DOMAIN parser = ParserFields
      /\ parser.inready /\ ~parser.value_last_buf /\ ~parser.force_throw
      /\ parser.value_data_buf = <<r.val, n - 1>> /\ parser.key = r.key
      /\ parser.malloc_valid => parser_ready.malloc
  <2>1. parser.malloc_valid => n = 2
    BY <1>1 DEF ParserAt
  <2>2. n = 2 => malloc_ready
    BY <1>1, NothingWaits
  <2>3. parser_ready.malloc = malloc_ready
    BY DEF parser_ready
  <2>4. QED
    BY <1>1, <1>3, <2>1, <2>2, <2>3 DEF ParserAt
<1>7. Accepts(parser, Beat, parser_ready)
  BY <1>3, <1>4, <1>5, <1>6 DEF Accepts, s_axis_tready
<1>8. parser' = TakeValue(q, beat)
  BY <1>3, <1>6, <1>7 DEF ParserClock, ParserStep
<1>9. /\ DOMAIN q = ParserFields /\ ~q.meta_valid /\ ~q.key_valid /\ ~q.malloc_valid
         /\ ~q.force_throw
      /\ q.state = "ST_VALUE" /\ q.inready /\ ~q.value_last_buf
      /\ q.value_data_buf = <<r.val, n - 1>> /\ q.key = r.key
  BY <1>5, <1>6, OutputsTaken
<1>10. parser' = IF n = Beats(r.len)
                 THEN [took EXCEPT !.state = "ST_IDLE", !.inready = FALSE] ELSE took
  <2>1. Part(beat) = <<r.val, n>>
    BY <1>4
  <2>2. ~q.value_last_buf
    BY <1>9
  <2> HIDE DEF q, beat
  <2>3. CASE n = Beats(r.len)
    <3>1. beat.last /\ beat.keep < KeepOfWord /\ ~(beat.keep > KeepOfWord)
      BY <1>4, <2>3
    <3>2. QED
      BY <1>8, <2>1, <2>2, <2>3, <3>1 DEF TakeValue, Finish
  <2>4. CASE n # Beats(r.len)
    <3>1. ~beat.last
      BY <1>4, <2>4
    <3>2. QED
      BY <1>8, <2>1, <2>2, <2>4, <3>1 DEF TakeValue
  <2>5. QED
    BY <2>3, <2>4
<1> HIDE DEF beat, q
<1>11. /\ DOMAIN took = ParserFields /\ took.value_valid
       /\ took.value = <<<<r.val, n - 1>>, <<r.val, n>>>> /\ took.value_data_buf = <<r.val, n>>
       /\ \A f \in ParserFields : f \notin {"value", "value_valid", "value_data_buf"}
          => took[f] = q[f]
  <2>1. took.value = <<<<r.val, n - 1>>, <<r.val, n>>>>
    BY <1>9 DEF ParserFields, ParserReset
  <2>2. took.value_valid /\ took.value_data_buf = <<r.val, n>>
    BY <1>9 DEF ParserFields, ParserReset
  <2>3. QED
    BY <1>9, <2>1, <2>2
<1> HIDE DEF took
<1>12. /\ DOMAIN parser' = ParserFields /\ parser'.value_valid
       /\ parser'.value = <<<<r.val, n - 1>>, <<r.val, n>>>>
          /\ parser'.value_data_buf = <<r.val, n>>
       /\ parser'.state = IF n = Beats(r.len) THEN "ST_IDLE" ELSE "ST_VALUE"
       /\ n # Beats(r.len) => parser'.inready
       /\ ~parser'.value_last_buf /\ ~parser'.force_throw
       /\ ~parser'.meta_valid /\ ~parser'.key_valid /\ ~parser'.malloc_valid
       /\ parser'.key = r.key
  <2>1. \A f \in ParserFields : f \notin {"state", "inready"} => parser'[f] = took[f]
    BY <1>10, <1>11
  <2>2. DOMAIN parser' = ParserFields
    BY <1>10, <1>11
  <2>3. /\ parser'.state = IF n = Beats(r.len) THEN "ST_IDLE" ELSE "ST_VALUE"
        /\ n # Beats(r.len) => parser'.inready
    BY <1>9, <1>10, <1>11 DEF ParserFields, ParserReset
  <2>4. QED
    BY <1>9, <1>11, <2>1, <2>2, <2>3 DEF ParserFields, ParserReset
<1>13. ParserAt(r, n + 1)'
  <2>1. /\ n + 1 >= 3 /\ (n + 1 \in 2..Beats(r.len) <=> n # Beats(r.len))
        /\ (n + 1 \in 1..Beats(r.len) => n # Beats(r.len)) /\ (n + 1) - 1 = n
    BY <1>1
  <2>2. QED
    BY <1>12, <2>1 DEF ParserAt
<1>14. WordAt(v, m + 1)'
  <2>1. /\ m + 1 \in FirstAge(v)..(FirstAge(v) + Boxes(v.len) - 1)
        /\ m + 1 - FirstAge(v) + 1 = n - 1 /\ n - 1 \in 1..Boxes(v.len)
    <3>1. /\ n \in 2..(Boxes(v.len) + 1) /\ Boxes(v.len) \in 1..8 /\ m = n
          /\ FirstAge(v) = 3
      BY <1>1, <1>2
    <3> HIDE UpdatePathAssumption
    <3>2. QED
      BY <3>1
  <2>2. Words(v)[n - 1] = <<<<v.val, n - 1>>, <<v.val, (n - 1) + 1>>>>
    BY <1>1, <1>2, <2>1, WordsOf
  <2>3. (n - 1) + 1 = n
    BY <1>1
  <2>4. parser'.value = Words(v)[n - 1]
    BY <1>1, <1>12, <2>2, <2>3
  <2>5. parser'.value = Words(v)[m + 1 - FirstAge(v) + 1]
    BY <2>1, <2>4
  <2>6. QED
    BY <1>1, <1>2, <1>12, <2>1, <2>5 DEF WordAt
<1>15. QED
  BY <1>13, <1>14

\* Once its packet is through, the parser is idle.
LEMMA ParserRests ==
  ASSUME NEW r, NEW n, NEW v, NEW m, NEW ptr, Ages(r, n, v, m, ptr), ParserClock,
         n >= 2, ~(Insert(r) /\ n \in 2..Beats(r.len))
  PROVE  /\ ParserAt(r, n + 1)'
         /\ ~parser'.value_valid
         /\ \A r2 \in AnyRequest : ParserAt(r2, 0)'
<1> DEFINE q == Handshakes(parser, parser_ready)
<1>1. /\ r \in AnyRequest /\ n \in Nat /\ ParserAt(r, n) /\ Beats(r.len) \in 1..9
      /\ ~Insert(r) => Beats(r.len) = 1
  BY RequestFits DEF Ages, PathAt
<1>2. Beat = None
  BY <1>1, BeatNow
<1>3. /\ parser.state = "ST_IDLE" /\ DOMAIN parser = ParserFields
      /\ ~parser.force_throw /\ parser.key = r.key
      /\ parser_ready.value /\ parser_ready.key /\ parser_ready.meta
      /\ parser.malloc_valid => parser_ready.malloc
  <2>1. parser.malloc_valid => n = 2
    BY <1>1 DEF ParserAt
  <2>2. n = 2 => malloc_ready
    BY <1>1, NothingWaits
  <2>3. /\ parser_ready.malloc = malloc_ready
        /\ parser_ready.value /\ parser_ready.key /\ parser_ready.meta
    BY NothingWaits DEF parser_ready, outready
  <2>4. QED
    BY <1>1, <2>1, <2>2, <2>3 DEF ParserAt
<1>4. parser' = q
  BY <1>2, <1>3 DEF ParserClock, ParserStep, ParserIdle
<1>5. /\ DOMAIN q = ParserFields /\ ~q.meta_valid /\ ~q.key_valid /\ ~q.value_valid
         /\ ~q.malloc_valid
      /\ ~q.force_throw /\ q.state = "ST_IDLE" /\ q.key = r.key
  BY <1>3, OutputsTaken
<1> HIDE DEF q
<1>6. ParserAt(r, n + 1)'
  <2>1. /\ n + 1 > 2 /\ ~(Insert(r) /\ n + 1 \in 2..Beats(r.len)) /\ n + 1 \notin 1..Beats(r.len)
    BY <1>1
  <2>2. QED
    BY <1>4, <1>5, <2>1 DEF ParserAt
<1>7. ASSUME NEW r2 \in AnyRequest
      PROVE  ParserAt(r2, 0)'
  <2>1. 0 \notin 1..Beats(r2.len) /\ 0 \notin 2..Beats(r2.len)
    BY RequestFits
  <2>2. QED
    BY <1>4, <1>5, <2>1 DEF ParserAt
<1>8. QED
  BY <1>4, <1>5, <1>6, <1>7

\* What the age and the origin of the value are in the next cycle.
NextValue(r, n, v) == IF Insert(r) /\ n = 1 THEN ValueOf(r) ELSE v
NextAge(r, n, m) == IF Insert(r) /\ n = 1 THEN 2 ELSE m + 1

LEMMA ParserSteps ==
  ASSUME NEW r, NEW n, NEW v, NEW m, NEW ptr, Ages(r, n, v, m, ptr), ParserClock
  PROVE  /\ ParserAt(r, n + 1)'
         /\ WordAt(NextValue(r, n, v), NextAge(r, n, m))'
<1> DEFINE w == NextValue(r, n, v)
           a == NextAge(r, n, m)
<1>1. /\ r \in AnyRequest /\ n \in Nat /\ m \in Nat /\ v \in Source /\ Together(r, n, v, m)
      /\ Beats(r.len) \in 1..9 /\ (~Insert(r) => Beats(r.len) = 1)
  BY RequestFits DEF Ages, PathAt
\* Where the words of the last value are through.
<1>2. ASSUME ~parser'.value_valid, w = v,
         a > 12 \/ (n > Beats(r.len) /\ a = n + 1 /\ v.len = r.len /\ Insert(r))
      PROVE  WordAt(w, a)'
  <2>1. /\ v.len \in FitLength /\ Boxes(v.len) \in 1..8 /\ FirstAge(v) \in {2, 3}
        /\ FirstAge(v) = 2 => Boxes(v.len) = 1 /\ Beats(v.len) = 1
        /\ FirstAge(v) = 3 => Beats(v.len) = Boxes(v.len) + 1
    <3>1. /\ v.len \in FitLength /\ Boxes(v.len) \in 1..8 /\ FirstAge(v) \in {2, 3}
          /\ FirstAge(v) = 2 => v.len <= 40 /\ Boxes(v.len) = 1
          /\ v.len <= 40 => FirstAge(v) = 2
          /\ v.len > 40 => Beats(v.len) = Boxes(v.len) + 1
      BY <1>1, SourceFits
    <3>2. v.len <= 40 \/ v.len > 40
      BY <3>1 DEF FitLength
    <3>3. FirstAge(v) = 2 => Beats(v.len) = 1
      BY DEF FirstAge
    <3>4. QED
      BY <3>1, <3>2, <3>3
  <2>2. a \in Nat
    BY <1>1 DEF NextAge
  <2>3. a \notin FirstAge(v)..(FirstAge(v) + Boxes(v.len) - 1)
    BY <1>1, <1>2, <2>1, <2>2
  <2> HIDE DEF a
  <2>4. WordAt(v, a)'
    BY <1>2, <2>3 DEF WordAt
  <2>5. QED
    BY <1>2, <2>4
<1>3. CASE n = 0
  <2>1. ParserAt(r, n + 1)' /\ ~parser'.value_valid
    <3>1. ParserAt(r, 1)' /\ ~parser'.value_valid
      BY <1>3, ParserBegins
    <3>2. n + 1 = 1
      BY <1>3
    <3>3. QED
      BY <3>1, <3>2
  <2>2. w = v /\ a > 12
    BY <1>1, <1>3 DEF NextValue, NextAge, Together
  <2>3. QED
    BY <1>2, <2>1, <2>2
<1>4. CASE n = 1
  <2>1. ParserAt(r, 2)' /\ IF Insert(r) THEN WordAt(ValueOf(r), 2)' ELSE ~parser'.value_valid
    BY <1>4, ParserFetches
  <2>2. n + 1 = 2
    BY <1>4
  <2>3. ParserAt(r, n + 1)'
    BY <2>1, <2>2
  <2>4. CASE Insert(r)
    <3>1. w = ValueOf(r) /\ a = 2
      BY <1>4, <2>4 DEF NextValue, NextAge
    <3>2. QED
      BY <2>1, <2>3, <2>4, <3>1
  <2>5. CASE ~Insert(r)
    <3>1. w = v /\ a > 12
      BY <1>1, <1>4, <2>5 DEF NextValue, NextAge, Together
    <3>2. QED
      BY <1>2, <2>1, <2>3, <2>5, <3>1
  <2>6. QED
    BY <2>4, <2>5
<1>5. CASE Insert(r) /\ n \in 2..Beats(r.len)
  <2>1. ParserAt(r, n + 1)' /\ WordAt(v, m + 1)'
    BY <1>5, ParserTakes
  <2>2. w = v /\ a = m + 1
    BY <1>1, <1>5 DEF NextValue, NextAge
  <2>3. QED
    BY <2>1, <2>2
<1>6. CASE n >= 2 /\ ~(Insert(r) /\ n \in 2..Beats(r.len))
  <2>1. ParserAt(r, n + 1)' /\ ~parser'.value_valid
    BY <1>6, ParserRests
  <2>2. w = v /\ a = m + 1
    BY <1>1, <1>6 DEF NextValue, NextAge
  <2>3. a > 12 \/ (n > Beats(r.len) /\ a = n + 1 /\ v.len = r.len /\ Insert(r))
    BY <1>1, <1>6, <2>2 DEF Together
  <2>4. QED
    BY <1>2, <2>1, <2>2, <2>3
<1>7. QED
  BY <1>1, <1>3, <1>4, <1>5, <1>6

LEMMA PacketIsLeft ==
  ASSUME NEW r \in AnyRequest
  PROVE  Left(r, 1) = Packet(r)
<1>1. Beats(r.len) \in Nat
  BY RequestFits
<1>2. Beats(r.len) - 1 + 1 = Beats(r.len) /\ \A k \in 1..Beats(r.len) : k + 1 - 1 = k
  BY <1>1
<1>3. Left(r, 1) = [k \in 1..Beats(r.len) |-> Packet(r)[k]]
  BY <1>2 DEF Left
<1>4. QED
  BY <1>3 DEF Packet

\* The packet goes out without a gap.
LEMMA SendingSteps ==
  ASSUME NEW r, NEW n, NEW v, NEW m, NEW ptr, Ages(r, n, v, m, ptr),
         sending' = Rest(sending, Accepts(parser, Beat, parser_ready))
  PROVE  SendingAt(r, n + 1)'
<1>1. /\ r \in AnyRequest /\ n \in Nat /\ SendingAt(r, n) /\ ParserAt(r, n)
      /\ Beats(r.len) \in 1..9 /\ (~Insert(r) => Beats(r.len) = 1)
  BY RequestFits DEF Ages, PathAt
<1>2. n + 1 \in Nat /\ n + 1 # 0
  BY <1>1
<1>3. CASE n = 0
  <2>1. ~Accepts(parser, Beat, parser_ready)
    BY <1>1, <1>3 DEF ParserAt, Accepts, s_axis_tready
  <2>2. sending' = Left(r, n + 1)
    <3>1. sending' = sending
      BY <2>1 DEF Rest
    <3>2. n + 1 = 1
      BY <1>3
    <3>3. QED
      BY <1>1, <1>3, <3>1, <3>2 DEF SendingAt
  <2>3. QED
    BY <1>2, <2>2 DEF SendingAt
<1>4. CASE n \in 1..Beats(r.len)
  <2>1. Beat = Packet(r)[n]
    BY <1>1, <1>4, BeatNow
  <2>2. Packet(r)[n] # None
    <3>1. r \in AnyRequest /\ n \in Nat /\ 1 <= n /\ n <= Beats(r.len)
      BY <1>1, <1>4
    <3>2. QED
      BY <3>1, BeatOf
  <2>3. parser.state # "ST_IDLE" /\ parser.inready
    BY <1>1, <1>4 DEF ParserAt
  <2>4. outready(parser_ready)
    BY NothingWaits
  <2>5. Accepts(parser, Beat, parser_ready)
    BY <2>1, <2>2, <2>3, <2>4 DEF Accepts, s_axis_tready
  <2>6. sending = Left(r, n)
    BY <1>1, <1>4 DEF SendingAt
  <2>7. Left(r, n) # <<>> /\ Tail(Left(r, n)) = Left(r, n + 1)
    BY <1>1, <1>4, BeatsLeft
  <2>8. sending' = Left(r, n + 1)
    BY <2>5, <2>6, <2>7 DEF Rest
  <2>9. QED
    BY <1>2, <2>8 DEF SendingAt
<1>5. CASE n > Beats(r.len)
  <2>1. sending = Left(r, n)
    BY <1>1, <1>5 DEF SendingAt
  <2>2. Left(r, n) = <<>> /\ Left(r, n + 1) = <<>>
    BY <1>1, <1>5, BeatsLeft
  <2>3. sending' = <<>>
    BY <2>1, <2>2 DEF Rest
  <2>4. QED
    BY <1>2, <2>2, <2>3 DEF SendingAt
<1>6. QED
  BY <1>1, <1>3, <1>4, <1>5

-----------------------------------------------------------------------------
(* The allocator *)

Back(free_taken) == IF free_taken /\ fifo_pointer # <<>> THEN {Head(fifo_pointer)} ELSE {}
AllocFields == {"free", "deciding", "req_ready", "valid", "pointer"}

\* The box of the latest insert, in the next cycle.
NextBox(r, n, ptr) == IF Insert(r) /\ n = 3 THEN alloc'.pointer ELSE ptr

LEMMA AllocSteps ==
  ASSUME NEW r, NEW n, NEW v, NEW m, NEW ptr, Ages(r, n, v, m, ptr), NEW free_taken,
         AllocClock(free_taken), alloc.free \subseteq Pointers
  PROVE  /\ DOMAIN alloc' = AllocFields
         /\ alloc'.deciding <=> (Insert(r) /\ n = 2)
         /\ alloc'.req_ready <=> ~(Insert(r) /\ n = 2)
         /\ alloc'.valid <=> (Insert(r) /\ n = 3)
         /\ Insert(r) /\ n = 3 => /\ alloc'.pointer \in alloc.free
                                  /\ alloc'.free = (alloc.free \ {alloc'.pointer}) \cup Back(free_taken)
         /\ ~(Insert(r) /\ n = 3) => alloc'.free = alloc.free \cup Back(free_taken)
         /\ Insert(r) /\ n >= 3 => NextBox(r, n, ptr) \in Pointers
         /\ NextBox(r, n, ptr) \in Pointers \cup {NoPointer}
<1>1. /\ r \in AnyRequest /\ n \in Nat /\ ParserAt(r, n) /\ AllocAt(r, n, ptr)
         /\ FrontEndAt(r, n, ptr)
      /\ ptr \in Pointers \cup {NoPointer}
  BY DEF Ages, PathAt
<1>2. store_value_ready /\ store_key_ready /\ (malloc_ready <=> ~(Insert(r) /\ n \in {3, 4}))
  BY NothingWaits
<1>3. alloc_ready(fe, store_value_ready, store_key_ready) <=> (Insert(r) /\ n \in {3, 4})
  BY <1>1, <1>2 DEF alloc_ready, FrontEndAt
<1>4. /\ (parser.malloc_valid /\ malloc_ready) <=> (Insert(r) /\ n = 2)
      /\ Allocates <=> (Insert(r) /\ n = 3)
      /\ ~AnswerValid
  <2>1. (parser.malloc_valid /\ malloc_ready) <=> (Insert(r) /\ n = 2)
    BY <1>1, <1>2 DEF ParserAt
  <2>2. Allocates <=> (Insert(r) /\ n = 3)
    BY <1>1, <1>3 DEF AllocAt, Allocates
  <2>3. ~AnswerValid
    BY <1>1, <1>3 DEF AllocAt, AnswerValid
  <2>4. QED
    BY <2>1, <2>2, <2>3
<1>5. CASE Insert(r) /\ n = 3
  <2>1. PICK pointer \in alloc.free :
          alloc' = [free |-> (alloc.free \ {pointer}) \cup Back(free_taken), deciding |-> FALSE,
                    req_ready |-> TRUE, valid |-> TRUE, pointer |-> pointer]
    BY <1>4, <1>5 DEF AllocClock, Back
  <2>2. /\ DOMAIN alloc' = AllocFields /\ ~alloc'.deciding /\ alloc'.req_ready /\ alloc'.valid
        /\ alloc'.pointer = pointer
        /\ alloc'.free = (alloc.free \ {pointer}) \cup Back(free_taken)
    BY <2>1 DEF AllocFields
  <2>3. NextBox(r, n, ptr) = pointer
    BY <1>5, <2>2 DEF NextBox
  <2>4. QED
    BY <1>5, <2>2, <2>3
<1>6. CASE ~(Insert(r) /\ n = 3)
  <2>1. alloc' = [alloc EXCEPT !.free = @ \cup Back(free_taken),
                               !.deciding = @ \/ (parser.malloc_valid /\ malloc_ready),
                               !.req_ready = @ /\ ~(parser.malloc_valid /\ malloc_ready),
                               !.valid = AnswerValid]
    BY <1>4, <1>6 DEF AllocClock, Back
  <2>2. DOMAIN alloc = AllocFields
    BY <1>1 DEF AllocAt, AllocFields
  <2>3. /\ DOMAIN alloc' = AllocFields
        /\ alloc'.free = alloc.free \cup Back(free_taken)
        /\ alloc'.deciding <=> (alloc.deciding \/ (parser.malloc_valid /\ malloc_ready))
        /\ alloc'.req_ready <=> (alloc.req_ready /\ ~(parser.malloc_valid /\ malloc_ready))
        /\ ~alloc'.valid
    <3>1. PICK demand, back : /\ demand = (parser.malloc_valid /\ malloc_ready)
                             /\ back = Back(free_taken)
      OBVIOUS
    <3>2. alloc' = [alloc EXCEPT !.free = @ \cup back, !.deciding = @ \/ demand,
                                 !.req_ready = @ /\ ~demand, !.valid = AnswerValid]
      BY <2>1, <3>1
    <3>3. DOMAIN alloc' = AllocFields /\ alloc'.free = alloc.free \cup back
      BY <2>2, <3>2 DEF AllocFields
    <3>4. alloc'.deciding <=> (alloc.deciding \/ demand)
      BY <2>2, <3>2 DEF AllocFields
    <3>5. alloc'.req_ready <=> (alloc.req_ready /\ ~demand)
      BY <2>2, <3>2 DEF AllocFields
    <3>6. ~alloc'.valid
      BY <1>4, <2>2, <3>2 DEF AllocFields
    <3>7. QED
      BY <3>1, <3>3, <3>4, <3>5, <3>6
  <2>4. alloc'.deciding <=> (Insert(r) /\ n = 2)
    BY <1>1, <1>4, <1>6, <2>3 DEF AllocAt
  <2>5. alloc'.req_ready <=> ~(Insert(r) /\ n = 2)
    BY <1>1, <1>4, <1>6, <2>3 DEF AllocAt
  <2>6. NextBox(r, n, ptr) = ptr /\ (Insert(r) /\ n >= 3 => ptr \in Pointers)
    BY <1>1, <1>6 DEF NextBox, AllocAt
  <2>7. QED
    BY <1>1, <1>6, <2>3, <2>4, <2>5, <2>6
<1>7. QED
  BY <1>5, <1>6

-----------------------------------------------------------------------------
(* The front end *)

\* What has been taken off its hands before it does anything.
HandedOn(s, r, n) ==
    /\ DOMAIN s = FrontEndFields /\ ~s.key_valid /\ ~s.value_valid
    /\ s.alloc_busy <=> (Insert(r) /\ n + 1 \in {3, 4})
    /\ \A f \in FrontEndFields : f \notin {"key_valid", "value_valid", "alloc_busy"} => s[f] = fe[f]

FrontEndFrom(s) ==
    fe' = IF fe.state = "ST_IDLE"
          THEN FrontEndIdle(Launcher(s, fe, fifo_value, store_value_ready), fe, parser)
          ELSE InsertBegin(Launcher(s, fe, fifo_value, store_value_ready), fe, parser, fifo_value,
                           alloc, store_value_ready)

LEMMA FrontEndBegins ==
  ASSUME NEW r, NEW n, NEW v, NEW m, NEW ptr, Ages(r, n, v, m, ptr), FrontEndClock
  PROVE  \E s : HandedOn(s, r, n) /\ FrontEndFrom(s)
<1> DEFINE busy == AllocBusy(fe, parser, alloc, store_value_ready, store_key_ready)
           s == [fe EXCEPT !.key_valid = @ /\ ~store_key_ready,
                        !.value_valid = @ /\ ~store_value_ready,
                        !.alloc_busy = busy]
<1>1. /\ r \in AnyRequest /\ n \in Nat /\ ParserAt(r, n) /\ AllocAt(r, n, ptr)
         /\ FrontEndAt(r, n, ptr)
  BY DEF Ages, PathAt
<1>2. store_value_ready /\ store_key_ready
  BY NothingWaits
<1>3. busy <=> (Insert(r) /\ n + 1 \in {3, 4})
  BY <1>1, <1>2
     DEF AllocBusy, parser_to_allocator_ready, alloc_ready, ParserAt, AllocAt, FrontEndAt
<1>4. FrontEndFrom(s)
  BY DEF FrontEndClock, FrontEndStep, FrontEndFrom
<1> HIDE DEF busy
<1>5. DOMAIN fe = FrontEndFields
  BY <1>1 DEF FrontEndAt
<1>6. HandedOn(s, r, n)
  <2>1. DOMAIN s = FrontEndFields
    BY <1>5
  <2>2. \A f \in FrontEndFields : f \notin {"key_valid", "value_valid", "alloc_busy"}
           => s[f] = fe[f]
    BY <1>5
  <2>3. ~s.key_valid /\ ~s.value_valid
    BY <1>2, <1>5 DEF FrontEndFields, FrontEndReset
  <2>4. s.alloc_busy <=> busy
    BY <1>5 DEF FrontEndFields, FrontEndReset
  <2> HIDE DEF s
  <2>5. QED
    BY <1>3, <2>1, <2>2, <2>3, <2>4 DEF HandedOn
<1>7. QED
  BY <1>4, <1>6

\* The launcher has nothing to do.
LauncherQuiet(f) ==
    ~f.launch_on /\ f.launch_state = "ST_LAUNCH_IDLE" /\ ~f.value_valid /\ ~f.fifo_value_ready

LEMMA InsertBegins ==
  ASSUME NEW r, NEW n, NEW v, NEW m, NEW ptr, Ages(r, n, v, m, ptr), FrontEndClock,
         Insert(r), n = 2, NEW np
  PROVE  FrontEndAt(r, 3, np)' /\ LauncherAt(v, 3, np)'
<1>1. /\ r \in AnyRequest /\ ParserAt(r, 2) /\ FrontEndAt(r, 2, ptr) /\ LauncherAt(v, 2, ptr)
      /\ v \in Source /\ Boxes(v.len) \in 1..8
  BY SourceFits DEF Ages, PathAt, Together
<1>2. PICK s : HandedOn(s, r, 2) /\ FrontEndFrom(s)
  BY FrontEndBegins
<1>3. /\ fe.state = "ST_IDLE" /\ fe.launch_state = "ST_LAUNCH_IDLE" /\ ~fe.launch_on
      /\ fe.insert_wait_counter = 0 /\ ~fe.fifo_value_ready
      /\ parser.meta_valid /\ parser.meta = [op |-> r.op, len |-> r.len] /\ parser.key_valid
  BY <1>1 DEF ParserAt, FrontEndAt, LauncherAt
<1>4. fe' = BeginInsert(s, fe, parser)
  BY <1>2, <1>3 DEF FrontEndFrom, Launcher, FrontEndIdle, Insert
<1>5. fe' = [s EXCEPT !.state = "ST_INSERT_BEGIN", !.value_box_number = Boxes(r.len),
                      !.key_valid_buffer = parser.key_valid, !.insert_wait_counter = 1,
                      !.value_len_byte = r.len]
  BY <1>3, <1>4 DEF BeginInsert
<1>6. /\ DOMAIN s = FrontEndFields /\ ~s.key_valid /\ ~s.value_valid /\ s.alloc_busy
      /\ \A f \in FrontEndFields : f \notin {"key_valid", "value_valid", "alloc_busy"}
         => s[f] = fe[f]
  BY <1>2 DEF HandedOn
<1>7. /\ DOMAIN fe' = FrontEndFields
      /\ \A f \in FrontEndFields : f \notin {"state", "value_box_number", "key_valid_buffer",
                                             "insert_wait_counter", "value_len_byte"}
              => fe'[f] = s[f]
  BY <1>5, <1>6
<1>8. /\ fe'.state = "ST_INSERT_BEGIN" /\ fe'.value_box_number = Boxes(r.len)
         /\ fe'.key_valid_buffer
      /\ fe'.insert_wait_counter = 1 /\ fe'.value_len_byte = r.len
  BY <1>3, <1>5, <1>6 DEF FrontEndFields, FrontEndReset
<1>9. ~fe'.key_valid /\ fe'.alloc_busy /\ LauncherQuiet(fe')
  BY <1>3, <1>6, <1>7 DEF FrontEndFields, FrontEndReset, LauncherQuiet
<1>10. FrontEndAt(r, 3, np)'
  BY <1>1, <1>7, <1>8, <1>9 DEF FrontEndAt, KeyAge
<1>11. LauncherAt(v, 3, np)'
  BY <1>1, <1>9 DEF LauncherAt, LauncherQuiet
<1>12. QED
  BY <1>10, <1>11

LEMMA InsertWaits ==
  ASSUME NEW r, NEW n, NEW v, NEW m, NEW ptr, Ages(r, n, v, m, ptr), FrontEndClock,
         Insert(r), n = 3, NEW np
  PROVE  FrontEndAt(r, 4, np)' /\ LauncherAt(v, 4, np)'
<1>1. /\ r \in AnyRequest /\ FrontEndAt(r, 3, ptr) /\ LauncherAt(v, 3, ptr)
      /\ v \in Source /\ Boxes(v.len) \in 1..8 /\ v.len = r.len
  BY SourceFits DEF Ages, PathAt, Together
<1>2. PICK s : HandedOn(s, r, 3) /\ FrontEndFrom(s)
  BY FrontEndBegins
<1>3. /\ fe.state = "ST_INSERT_BEGIN" /\ fe.launch_state = "ST_LAUNCH_IDLE" /\ ~fe.launch_on
      /\ fe.insert_wait_counter = 1 /\ ~fe.fifo_value_ready
      /\ fe.value_box_number = Boxes(r.len) /\ fe.value_len_byte = r.len /\ fe.key_valid_buffer
  BY <1>1 DEF FrontEndAt, LauncherAt
<1>4. fe' = WaitInsert(s, fe, store_value_ready)
  BY <1>2, <1>3 DEF FrontEndFrom, Launcher, InsertBegin, Wait
<1>5. fe' = [s EXCEPT !.launch_on = @ \/ fe.insert_wait_counter = 1,
                      !.fifo_value_ready = IF More(Boxes(r.len)) THEN store_value_ready ELSE @,
                      !.insert_wait_counter = 2]
  BY <1>3, <1>4 DEF WaitInsert
<1>6. /\ DOMAIN s = FrontEndFields /\ ~s.key_valid /\ ~s.value_valid /\ s.alloc_busy
      /\ \A f \in FrontEndFields : f \notin {"key_valid", "value_valid", "alloc_busy"}
         => s[f] = fe[f]
  BY <1>2 DEF HandedOn
<1>7. /\ DOMAIN fe' = FrontEndFields
      /\ \A f \in FrontEndFields : f \notin {"launch_on", "fifo_value_ready", "insert_wait_counter"}
            => fe'[f] = s[f]
  BY <1>5, <1>6
<1>8. /\ fe'.launch_on /\ fe'.insert_wait_counter = 2
      /\ fe'.fifo_value_ready <=> (Boxes(r.len) # 1)
  <2>1. store_value_ready
    BY NothingWaits
  <2>2. fe'.launch_on /\ fe'.insert_wait_counter = 2
    BY <1>3, <1>5, <1>6 DEF FrontEndFields, FrontEndReset
  <2>3. fe'.fifo_value_ready
           <=> IF More(Boxes(r.len)) THEN store_value_ready ELSE s.fifo_value_ready
    BY <1>5, <1>6 DEF FrontEndFields, FrontEndReset
  <2>4. ~s.fifo_value_ready
    BY <1>3, <1>6 DEF FrontEndFields, FrontEndReset
  <2>5. QED
    BY <2>1, <2>2, <2>3, <2>4 DEF More
<1>9. /\ ~fe'.key_valid /\ fe'.alloc_busy /\ ~fe'.value_valid /\ fe'.launch_state = "ST_LAUNCH_IDLE"
      /\ fe'.state = "ST_INSERT_BEGIN" /\ fe'.value_box_number = Boxes(r.len)
      /\ fe'.value_len_byte = r.len /\ fe'.key_valid_buffer
  BY <1>3, <1>6, <1>7 DEF FrontEndFields, FrontEndReset
<1>10. FrontEndAt(r, 4, np)'
  BY <1>1, <1>7, <1>8, <1>9 DEF FrontEndAt, KeyAge
<1>11. LauncherAt(v, 4, np)'
  BY <1>1, <1>8, <1>9 DEF LauncherAt
<1>12. QED
  BY <1>10, <1>11

LEMMA InsertSends ==
  ASSUME NEW r, NEW n, NEW v, NEW m, NEW ptr, Ages(r, n, v, m, ptr), FrontEndClock,
         Insert(r), n = 4
  PROVE  FrontEndAt(r, 5, ptr)' /\ LauncherAt(v, 5, ptr)'
<1>1. /\ r \in AnyRequest /\ ParserAt(r, 4) /\ FrontEndAt(r, 4, ptr) /\ LauncherAt(v, 4, ptr)
      /\ AllocAt(r, 4, ptr) /\ FifoAt(v, 4) /\ FirstAge(v) \in {2, 3}
      /\ v \in Source /\ Boxes(v.len) \in 1..8 /\ v.len = r.len
  BY SourceFits DEF Ages, PathAt, Together
<1>2. PICK s : HandedOn(s, r, 4) /\ FrontEndFrom(s)
  BY FrontEndBegins
<1>3. /\ fe.state = "ST_INSERT_BEGIN" /\ fe.launch_state = "ST_LAUNCH_IDLE" /\ fe.launch_on
      /\ fe.insert_wait_counter = 2
      /\ fe.value_box_number = Boxes(r.len) /\ fe.value_len_byte = r.len /\ fe.key_valid_buffer
      /\ parser.key = r.key /\ alloc.valid /\ alloc.pointer = ptr /\ store_value_ready
  BY <1>1, NothingWaits DEF FrontEndAt, LauncherAt, ParserAt, AllocAt
<1>4. fifo_value # <<>> /\ Head(fifo_value) = Words(v)[1]
  <2>1. 4 \in (FirstAge(v) + 1)..(IF Boxes(v.len) = 1 THEN 5 ELSE Boxes(v.len) + 3)
    BY <1>1
  <2>2. fifo_value = <<Words(v)[IF Boxes(v.len) = 1 THEN 1 ELSE 1]>>
    BY <1>1, <2>1 DEF FifoAt
  <2>3. QED
    BY <2>2
<1> DEFINE g == [s EXCEPT !.launch_state = "ST_LAUNCH_BEGIN", !.launch_on = FALSE]
           value == [pointer |-> ptr, len |-> r.len, word |-> Words(v)[1]]
           key == [op |-> "KV_INSERT", key |-> r.key, value |-> ptr]
<1>5. fe' = SendInsert(g, fe, parser, fifo_value, alloc, store_value_ready)
  BY <1>2, <1>3 DEF FrontEndFrom, Launcher, InsertBegin, Wait
<1>6. fe' = [g EXCEPT !.insert_wait_counter = 0,
                      !.value_valid = fifo_value # <<>> /\ alloc.valid,
                      !.value = value,
                      !.alloc_pointer_buffer = ptr,
                      !.fifo_value_ready = store_value_ready,
                      !.key_valid = alloc.valid /\ fe.key_valid_buffer,
                      !.key = key,
                      !.value_box_number_launcher = Boxes(r.len),
                      !.state = "ST_IDLE"]
  BY <1>3, <1>4, <1>5 DEF SendInsert
<1>7. /\ DOMAIN s = FrontEndFields /\ ~s.alloc_busy
      /\ \A f \in FrontEndFields : f \notin {"key_valid", "value_valid", "alloc_busy"}
         => s[f] = fe[f]
  BY <1>2 DEF HandedOn
<1>8. /\ DOMAIN g = FrontEndFields /\ g.launch_state = "ST_LAUNCH_BEGIN" /\ ~g.launch_on
      /\ ~g.alloc_busy
  BY <1>7 DEF FrontEndFields, FrontEndReset
<1> HIDE DEF g
<1>9. /\ DOMAIN fe' = FrontEndFields
      /\ fe'.launch_state = "ST_LAUNCH_BEGIN" /\ ~fe'.launch_on /\ ~fe'.alloc_busy
      /\ fe'.insert_wait_counter = 0 /\ fe'.state = "ST_IDLE"
      /\ fe'.value_box_number_launcher = Boxes(r.len) /\ fe'.alloc_pointer_buffer = ptr
  <2> HIDE DEF value, key
  <2>1. DOMAIN fe' = FrontEndFields
    BY <1>6, <1>8
  <2>2. /\ fe'.launch_state = g.launch_state /\ fe'.launch_on = g.launch_on
        /\ fe'.alloc_busy = g.alloc_busy
    BY <1>6, <1>8 DEF FrontEndFields, FrontEndReset
  <2>3. fe'.insert_wait_counter = 0 /\ fe'.state = "ST_IDLE"
    BY <1>6, <1>8 DEF FrontEndFields, FrontEndReset
  <2>4. fe'.value_box_number_launcher = Boxes(r.len) /\ fe'.alloc_pointer_buffer = ptr
    BY <1>6, <1>8 DEF FrontEndFields, FrontEndReset
  <2>5. QED
    BY <1>8, <2>1, <2>2, <2>3, <2>4
<1>10. fe'.value = value /\ fe'.key = key
  BY <1>6, <1>8 DEF FrontEndFields, FrontEndReset
<1>11. fe'.value_valid /\ fe'.fifo_value_ready /\ fe'.key_valid
  <2> HIDE DEF value, key
  <2>1. fe'.value_valid
    BY <1>3, <1>4, <1>6, <1>8 DEF FrontEndFields, FrontEndReset
  <2>2. fe'.fifo_value_ready
    BY <1>3, <1>6, <1>8 DEF FrontEndFields, FrontEndReset
  <2>3. fe'.key_valid
    BY <1>3, <1>6, <1>8 DEF FrontEndFields, FrontEndReset
  <2>4. QED
    BY <2>1, <2>2, <2>3
<1>12. FrontEndAt(r, 5, ptr)'
  BY <1>1, <1>9, <1>10, <1>11 DEF FrontEndAt, KeyAge, Sent
<1>13. LauncherAt(v, 5, ptr)'
  BY <1>1, <1>9, <1>10, <1>11 DEF LauncherAt
<1>14. QED
  BY <1>12, <1>13

LEMMA DeleteSends ==
  ASSUME NEW r, NEW n, NEW v, NEW m, NEW ptr, Ages(r, n, v, m, ptr), FrontEndClock,
         ~Insert(r), n = 2
  PROVE  FrontEndAt(r, 3, ptr)' /\ LauncherQuiet(fe')
<1>1. /\ r \in AnyRequest /\ r.op = 0 /\ ParserAt(r, 2) /\ FrontEndAt(r, 2, ptr)
         /\ LauncherAt(v, m, ptr)
      /\ m \in Nat /\ m >= 14 /\ v \in Source /\ Boxes(v.len) \in 1..8
  BY SourceFits, RequestFits DEF Ages, PathAt, Together
<1>2. PICK s : HandedOn(s, r, 2) /\ FrontEndFrom(s)
  BY FrontEndBegins
<1>3. /\ fe.state = "ST_IDLE" /\ LauncherQuiet(fe) /\ fe.insert_wait_counter = 0
      /\ parser.meta_valid /\ parser.meta = [op |-> r.op, len |-> r.len] /\ parser.key_valid
      /\ parser.key = r.key
  BY <1>1 DEF ParserAt, FrontEndAt, LauncherAt, LauncherQuiet
<1>4. fe' = SendDelete(s, parser)
  BY <1>1, <1>2, <1>3 DEF FrontEndFrom, Launcher, FrontEndIdle, LauncherQuiet
<1>5. fe' = [s EXCEPT !.value_valid = FALSE, !.key_valid = parser.key_valid,
                      !.key = [op |-> "KV_DELETE", key |-> r.key], !.fifo_value_ready = FALSE]
  BY <1>3, <1>4 DEF SendDelete
<1>6. /\ DOMAIN s = FrontEndFields /\ ~s.alloc_busy
      /\ \A f \in FrontEndFields : f \notin {"key_valid", "value_valid", "alloc_busy"}
         => s[f] = fe[f]
  BY <1>1, <1>2 DEF HandedOn
<1>7. /\ DOMAIN fe' = FrontEndFields
      /\ \A f \in FrontEndFields : f \notin {"value_valid", "key_valid", "key", "fifo_value_ready"}
            => fe'[f] = s[f]
  BY <1>5, <1>6
<1>8. /\ fe'.key_valid /\ fe'.key = [op |-> "KV_DELETE", key |-> r.key]
      /\ ~fe'.value_valid /\ ~fe'.fifo_value_ready
  BY <1>3, <1>5, <1>6 DEF FrontEndFields, FrontEndReset
<1>9. /\ fe'.state = "ST_IDLE" /\ fe'.insert_wait_counter = 0 /\ ~fe'.alloc_busy
      /\ LauncherQuiet(fe')
  BY <1>3, <1>6, <1>7, <1>8 DEF FrontEndFields, FrontEndReset, LauncherQuiet
<1>10. FrontEndAt(r, 3, ptr)'
  BY <1>1, <1>7, <1>8, <1>9 DEF FrontEndAt, KeyAge, Sent
<1>11. QED
  BY <1>9, <1>10

LEMMA LauncherSteps ==
  ASSUME NEW r, NEW n, NEW v, NEW m, NEW ptr, Ages(r, n, v, m, ptr), m >= 5,
         NEW s, HandedOn(s, r, n), fe' = Launcher(s, fe, fifo_value, store_value_ready)
  PROVE  /\ DOMAIN fe' = FrontEndFields
         /\ LauncherAt(v, m + 1, ptr)'
         /\ m >= 12 => LauncherQuiet(fe')
         /\ fe'.state = fe.state /\ fe'.insert_wait_counter = fe.insert_wait_counter
         /\ ~fe'.key_valid
         /\ fe'.alloc_busy <=> (Insert(r) /\ n + 1 \in {3, 4})
<1>1. /\ r \in AnyRequest /\ n \in Nat /\ LauncherAt(v, m, ptr) /\ FifoAt(v, m)
      /\ m \in Nat /\ v \in Source /\ Boxes(v.len) \in 1..8 /\ FirstAge(v) \in {2, 3}
  BY SourceFits DEF Ages, PathAt
<1>2. /\ DOMAIN s = FrontEndFields /\ ~s.key_valid /\ ~s.value_valid
      /\ s.alloc_busy <=> (Insert(r) /\ n + 1 \in {3, 4})
      /\ \A f \in FrontEndFields : f \notin {"key_valid", "value_valid", "alloc_busy"}
         => s[f] = fe[f]
  BY DEF HandedOn
<1>3. /\ s.state = fe.state /\ s.insert_wait_counter = fe.insert_wait_counter
      /\ ~s.launch_on /\ ~fe.launch_on /\ s.launch_state = fe.launch_state
      /\ s.fifo_value_ready = fe.fifo_value_ready
      /\ s.alloc_pointer_buffer = fe.alloc_pointer_buffer
      /\ s.value_box_number_launcher = fe.value_box_number_launcher
  BY <1>1, <1>2 DEF FrontEndFields, FrontEndReset, LauncherAt
<1>4. CASE m \in 5..(Boxes(v.len) + 3)
  <2> DEFINE k == Boxes(v.len) + 5 - m
             value == [pointer |-> ptr, len |-> 0, word |-> Words(v)[m - 3]]
  <2>1. /\ fe.launch_state = "ST_LAUNCH_BEGIN" /\ fe.value_box_number_launcher = k
        /\ fe.alloc_pointer_buffer = ptr /\ k \in 2..8 /\ k # 1 /\ Boxes(v.len) # 1
    BY <1>1, <1>4 DEF LauncherAt
  <2>2. fifo_value # <<>> /\ Head(fifo_value) = Words(v)[m - 3]
    <3>1. m \in (FirstAge(v) + 1)..(IF Boxes(v.len) = 1 THEN 5 ELSE Boxes(v.len) + 3)
      BY <1>1, <1>4, <2>1
    <3>2. fifo_value = <<Words(v)[m - 3]>>
      BY <1>1, <2>1, <3>1 DEF FifoAt
    <3>3. QED
      BY <3>2
  <2>3. (k - 1) % 2^16 = k - 1
    BY <2>1
  <2> HIDE DEF k
  <2>4. fe' = [s EXCEPT !.value_box_number_launcher = k - 1,
                        !.value_valid = fifo_value # <<>>,
                        !.value = value,
                        !.fifo_value_ready = store_value_ready]
    BY <2>1, <2>2, <2>3 DEF Launcher, More, NextWord
  <2>5. /\ DOMAIN fe' = FrontEndFields
        /\ \A f \in FrontEndFields : f \notin {"value_box_number_launcher", "value_valid", "value",
                                               "fifo_value_ready"} => fe'[f] = s[f]
    BY <1>2, <2>4
  <2>6. /\ fe'.value_box_number_launcher = k - 1 /\ fe'.value = value
        /\ fe'.value_valid /\ fe'.fifo_value_ready
    <3>1. store_value_ready
      BY NothingWaits
    <3>2. fe'.value_box_number_launcher = k - 1
      BY <1>2, <2>4 DEF FrontEndFields, FrontEndReset
    <3> HIDE DEF value
    <3>3. fe'.value_valid /\ fe'.fifo_value_ready
      <4>1. fifo_value # <<>>
        BY <2>2
      <4>2. fe'.value_valid
        BY <1>2, <2>4, <4>1 DEF FrontEndFields, FrontEndReset
      <4>3. fe'.fifo_value_ready
        BY <1>2, <2>4, <3>1 DEF FrontEndFields, FrontEndReset
      <4>4. QED
        BY <4>2, <4>3
    <3>4. fe'.value = value
      BY <1>2, <2>4 DEF FrontEndFields, FrontEndReset
    <3>5. QED
      BY <3>2, <3>3, <3>4
  <2>7. /\ ~fe'.launch_on /\ fe'.launch_state = "ST_LAUNCH_BEGIN" /\ fe'.alloc_pointer_buffer = ptr
        /\ fe'.state = s.state /\ fe'.insert_wait_counter = s.insert_wait_counter
        /\ fe'.key_valid = s.key_valid /\ fe'.alloc_busy = s.alloc_busy
    BY <1>3, <2>1, <2>5 DEF FrontEndFields, FrontEndReset
  <2>8. LauncherAt(v, m + 1, ptr)'
    <3>1. /\ m + 1 \in 5..(Boxes(v.len) + 4) /\ m + 1 # 4 /\ m + 1 # 5 /\ m + 1 - 4 = m - 3
          /\ Boxes(v.len) + 5 - (m + 1) = k - 1
      BY <1>1, <1>4 DEF k
    <3>2. fe'.value = [pointer |-> ptr, len |-> IF m + 1 = 5 THEN v.len ELSE 0,
                       word |-> Words(v)[m + 1 - 4]]
      BY <2>6, <3>1
    <3> HIDE DEF value
    <3>3. QED
      BY <1>1, <2>6, <2>7, <3>1, <3>2 DEF LauncherAt
  <2>9. QED
    BY <1>1, <1>2, <1>3, <1>4, <2>5, <2>7, <2>8
<1>5. CASE m = Boxes(v.len) + 4
  <2>1. fe.launch_state = "ST_LAUNCH_BEGIN" /\ fe.value_box_number_launcher = 1
    <3>1. m \in 5..(Boxes(v.len) + 4) /\ Boxes(v.len) + 5 - m = 1
      BY <1>1, <1>5
    <3>2. QED
      BY <1>1, <3>1 DEF LauncherAt
  <2>2. fe' = [s EXCEPT !.launch_state = "ST_LAUNCH_IDLE", !.fifo_value_ready = FALSE]
    BY <2>1 DEF Launcher, More
  <2>3. /\ DOMAIN fe' = FrontEndFields
        /\ \A f \in FrontEndFields : f \notin {"launch_state", "fifo_value_ready"} => fe'[f] = s[f]
    BY <1>2, <2>2
  <2>4. fe'.launch_state = "ST_LAUNCH_IDLE" /\ ~fe'.fifo_value_ready
    BY <1>2, <2>2 DEF FrontEndFields, FrontEndReset
  <2>5. /\ LauncherQuiet(fe') /\ fe'.state = fe.state
        /\ fe'.insert_wait_counter = fe.insert_wait_counter
        /\ ~fe'.key_valid /\ fe'.alloc_busy = s.alloc_busy
    BY <1>2, <1>3, <2>3, <2>4 DEF FrontEndFields, FrontEndReset, LauncherQuiet
  <2>6. LauncherAt(v, m + 1, ptr)'
    <3>1. m + 1 \notin 5..(Boxes(v.len) + 4) /\ m + 1 # 4
      BY <1>1, <1>5
    <3>2. QED
      BY <2>5, <3>1 DEF LauncherAt, LauncherQuiet
  <2>7. QED
    BY <1>2, <2>3, <2>5, <2>6
<1>6. CASE m > Boxes(v.len) + 4
  <2>1. m \notin 5..(Boxes(v.len) + 4) /\ m # 4
    BY <1>1, <1>6
  <2>2. fe.launch_state = "ST_LAUNCH_IDLE" /\ ~fe.fifo_value_ready
    BY <1>1, <2>1 DEF LauncherAt
  <2>3. fe' = s
    BY <1>3, <2>2 DEF Launcher
  <2>4. LauncherQuiet(fe')
    BY <1>2, <1>3, <2>2, <2>3 DEF LauncherQuiet
  <2>5. LauncherAt(v, m + 1, ptr)'
    <3>1. m + 1 \notin 5..(Boxes(v.len) + 4) /\ m + 1 # 4
      BY <1>1, <1>6
    <3>2. QED
      BY <2>4, <3>1 DEF LauncherAt, LauncherQuiet
  <2>6. QED
    BY <1>2, <1>3, <2>3, <2>4, <2>5
<1>7. QED
  BY <1>1, <1>4, <1>5, <1>6

LEMMA FrontEndRests ==
  ASSUME NEW r, NEW n, NEW v, NEW m, NEW ptr, Ages(r, n, v, m, ptr), FrontEndClock,
         n # 2, ~(Insert(r) /\ n \in {3, 4})
  PROVE  /\ FrontEndAt(r, n + 1, ptr)' /\ LauncherAt(v, m + 1, ptr)'
         /\ m >= 12 => LauncherQuiet(fe')
         /\ n >= 6 => \A r2 \in AnyRequest : \A p : FrontEndAt(r2, 0, p)'
<1>1. /\ r \in AnyRequest /\ n \in Nat /\ ParserAt(r, n) /\ FrontEndAt(r, n, ptr) /\ m \in Nat
         /\ m >= 5
      /\ KeyAge(r) = IF Insert(r) THEN 5 ELSE 3
  BY RequestFits DEF Ages, PathAt, Together
<1>2. PICK s : HandedOn(s, r, n) /\ FrontEndFrom(s)
  BY FrontEndBegins
<1>3. fe.state = "ST_IDLE" /\ fe.insert_wait_counter = 0 /\ ~parser.meta_valid
  BY <1>1 DEF ParserAt, FrontEndAt
<1>4. fe' = Launcher(s, fe, fifo_value, store_value_ready)
  BY <1>2, <1>3 DEF FrontEndFrom, FrontEndIdle
<1>5. /\ DOMAIN fe' = FrontEndFields /\ LauncherAt(v, m + 1, ptr)'
         /\ (m >= 12 => LauncherQuiet(fe'))
      /\ fe'.state = "ST_IDLE" /\ fe'.insert_wait_counter = 0 /\ ~fe'.key_valid
      /\ ~fe'.alloc_busy
  BY <1>1, <1>2, <1>3, <1>4, LauncherSteps
<1>6. FrontEndAt(r, n + 1, ptr)'
  <2>1. n + 1 # KeyAge(r) /\ ~(Insert(r) /\ n + 1 \in {3, 4})
    BY <1>1
  <2>2. QED
    BY <1>5, <2>1 DEF FrontEndAt
<1>7. ASSUME NEW r2 \in AnyRequest, NEW p
      PROVE  FrontEndAt(r2, 0, p)'
  <2>1. 0 # KeyAge(r2)
    BY DEF KeyAge
  <2>2. QED
    BY <1>5, <2>1 DEF FrontEndAt
<1>8. QED
  BY <1>5, <1>6, <1>7

LEMMA FrontEndSteps ==
  ASSUME NEW r, NEW n, NEW v, NEW m, NEW ptr, Ages(r, n, v, m, ptr), FrontEndClock,
         NEW np, (Insert(r) /\ n = 3) \/ np = ptr
  PROVE  /\ FrontEndAt(r, n + 1, np)'
         /\ LauncherAt(NextValue(r, n, v), NextAge(r, n, m), np)'
         /\ n >= 6 => \A r2 \in AnyRequest : FrontEndAt(r2, 0, np)'
<1>1. /\ r \in AnyRequest /\ n \in Nat /\ m \in Nat /\ v \in Source /\ Together(r, n, v, m)
      /\ Boxes(v.len) \in 1..8
  BY SourceFits DEF Ages, PathAt
<1>2. CASE Insert(r) /\ n = 2
  <2>1. FrontEndAt(r, 3, np)' /\ LauncherAt(v, 3, np)'
    BY <1>2, InsertBegins
  <2>2. n + 1 = 3 /\ NextValue(r, n, v) = v /\ NextAge(r, n, m) = 3
    BY <1>1, <1>2 DEF NextValue, NextAge, Together
  <2>3. QED
    BY <1>2, <2>1, <2>2
<1>3. CASE Insert(r) /\ n = 3
  <2>1. FrontEndAt(r, 4, np)' /\ LauncherAt(v, 4, np)'
    BY <1>3, InsertWaits
  <2>2. n + 1 = 4 /\ NextValue(r, n, v) = v /\ NextAge(r, n, m) = 4
    BY <1>1, <1>3 DEF NextValue, NextAge, Together
  <2>3. QED
    BY <1>3, <2>1, <2>2
<1>4. CASE Insert(r) /\ n = 4
  <2>1. FrontEndAt(r, 5, np)' /\ LauncherAt(v, 5, np)'
    BY <1>4, InsertSends
  <2>2. n + 1 = 5 /\ NextValue(r, n, v) = v /\ NextAge(r, n, m) = 5
    BY <1>1, <1>4 DEF NextValue, NextAge, Together
  <2>3. QED
    BY <1>4, <2>1, <2>2
<1>5. CASE ~Insert(r) /\ n = 2
  <2>1. FrontEndAt(r, 3, np)' /\ LauncherQuiet(fe')
    BY <1>5, DeleteSends
  <2>2. n + 1 = 3 /\ NextValue(r, n, v) = v /\ NextAge(r, n, m) = m + 1 /\ m + 1 > 12
    BY <1>1, <1>5 DEF NextValue, NextAge, Together
  <2>3. LauncherAt(v, m + 1, np)'
    <3>1. m + 1 \notin 5..(Boxes(v.len) + 4) /\ m + 1 # 4
      BY <1>1, <2>2
    <3>2. QED
      BY <2>1, <3>1 DEF LauncherAt, LauncherQuiet
  <2>4. QED
    BY <1>5, <2>1, <2>2, <2>3
<1>6. CASE n # 2 /\ ~(Insert(r) /\ n \in {3, 4})
  <2>1. np = ptr
    BY <1>6
  <2>2. /\ FrontEndAt(r, n + 1, np)' /\ LauncherAt(v, m + 1, np)' /\ (m >= 12 => LauncherQuiet(fe'))
        /\ n >= 6 => \A r2 \in AnyRequest : FrontEndAt(r2, 0, np)'
    BY <1>6, <2>1, FrontEndRests
  <2>3. CASE Insert(r) /\ n = 1
    <3>1. LauncherQuiet(fe')
      BY <1>1, <2>2, <2>3 DEF Together
    <3>2. LauncherAt(ValueOf(r), 2, np)'
      BY <3>1 DEF LauncherAt, LauncherQuiet
    <3>3. NextValue(r, n, v) = ValueOf(r) /\ NextAge(r, n, m) = 2
      BY <2>3 DEF NextValue, NextAge
    <3>4. QED
      BY <2>2, <3>2, <3>3
  <2>4. CASE ~(Insert(r) /\ n = 1)
    <3>1. NextValue(r, n, v) = v /\ NextAge(r, n, m) = m + 1
      BY <2>4 DEF NextValue, NextAge
    <3>2. QED
      BY <2>2, <3>1
  <2>5. QED
    BY <2>3, <2>4
<1>7. QED
  BY <1>1, <1>2, <1>3, <1>4, <1>5, <1>6

-----------------------------------------------------------------------------
(* The queues *)

LEMMA QueueOfOne ==
  ASSUME NEW x
  PROVE  /\ Rest(<<x>>, TRUE) = <<>> /\ Rest(<<x>>, FALSE) = <<x>>
         /\ Rest(<<>>, TRUE) = <<>> /\ Rest(<<>>, FALSE) = <<>>
         /\ Put(TRUE, x) = <<x>> /\ Put(FALSE, x) = <<>>
         /\ <<x>> \o <<>> = <<x>> /\ <<>> \o <<x>> = <<x>> /\ <<>> \o <<>> = <<>>
BY DEF Rest, Put

\* A word is in the value FIFO until the launcher takes it.
LEMMA ValueFifoSteps ==
  ASSUME NEW r, NEW n, NEW v, NEW m, NEW ptr, Ages(r, n, v, m, ptr),
         fifo_value' = Rest(fifo_value, fe.fifo_value_ready)
                       \o Put(parser.value_valid /\ value_ready, parser.value)
  PROVE  FifoAt(NextValue(r, n, v), NextAge(r, n, m))'
<1> DEFINE B == Boxes(v.len)
           F == FirstAge(v)
<1>1. /\ r \in AnyRequest /\ n \in Nat /\ m \in Nat /\ v \in Source /\ Together(r, n, v, m)
      /\ WordAt(v, m) /\ FifoAt(v, m) /\ LauncherAt(v, m, ptr) /\ value_ready
      /\ B \in 1..8 /\ F \in {2, 3} /\ (F = 2 => B = 1)
  <2>1. /\ r \in AnyRequest /\ n \in Nat /\ m \in Nat /\ v \in Source /\ Together(r, n, v, m)
        /\ WordAt(v, m) /\ FifoAt(v, m) /\ LauncherAt(v, m, ptr)
    BY DEF Ages, PathAt
  <2>2. value_ready
    BY NothingWaits
  <2>3. B \in 1..8 /\ F \in {2, 3} /\ (F = 2 => B = 1)
    BY <2>1, SourceFits
  <2>4. QED
    BY <2>1, <2>2, <2>3
<1> DEFINE there == m \in (F + 1)..(IF B = 1 THEN 5 ELSE B + 3)
           comes == m \in F..(F + B - 1)
           goes == m \in 5..(B + 4) \/ (m = 4 /\ B # 1)
<1>2. /\ fifo_value = IF there THEN <<Words(v)[IF B = 1 THEN 1 ELSE m - 3]>> ELSE <<>>
      /\ parser.value_valid <=> comes
      /\ comes => parser.value = Words(v)[m - F + 1]
      /\ fe.fifo_value_ready <=> goes
  BY <1>1 DEF FifoAt, WordAt, LauncherAt
<1>3. /\ Rest(fifo_value, fe.fifo_value_ready) =
           IF there /\ ~goes THEN <<Words(v)[IF B = 1 THEN 1 ELSE m - 3]>> ELSE <<>>
      /\ Put(parser.value_valid /\ value_ready, parser.value) =
           IF comes THEN <<Words(v)[m - F + 1]>> ELSE <<>>
  <2> HIDE DEF there, comes, goes
  <2>1. QED
    BY <1>1, <1>2, QueueOfOne DEF Rest, Put
<1>4. fifo_value' = IF comes THEN <<Words(v)[m - F + 1]>>
                    ELSE IF there /\ ~goes THEN <<Words(v)[IF B = 1 THEN 1 ELSE m - 3]>> ELSE <<>>
  <2>1. ~(comes /\ there /\ ~goes)
    BY <1>1
  <2> HIDE DEF there, comes, goes
  <2>2. QED
    BY <1>3, <2>1, QueueOfOne
<1>5. CASE Insert(r) /\ n = 1
  <2>1. fifo_value' = <<>>
    <3>1. ~comes /\ ~there
      BY <1>1, <1>5 DEF Together
    <3>2. QED
      BY <1>4, <3>1
  <2>2. ValueOf(r) \in Source /\ FirstAge(ValueOf(r)) \in {2, 3}
    BY <1>1, <1>5, ValueOfIsSource, SourceFits
  <2>3. FifoAt(ValueOf(r), 2)'
    <3>1. 2 \notin (FirstAge(ValueOf(r)) + 1)
                   ..(IF Boxes(ValueOf(r).len) = 1 THEN 5 ELSE Boxes(ValueOf(r).len) + 3)
      BY <2>2
    <3>2. QED
      BY <2>1, <3>1 DEF FifoAt
  <2>4. QED
    BY <1>5, <2>3 DEF NextValue, NextAge
<1>6. CASE ~(Insert(r) /\ n = 1)
  <2>1. fifo_value' = IF m + 1 \in (F + 1)..(IF B = 1 THEN 5 ELSE B + 3)
                      THEN <<Words(v)[IF B = 1 THEN 1 ELSE (m + 1) - 3]>> ELSE <<>>
    <3>1. CASE comes
      <4>1. /\ m + 1 \in (F + 1)..(IF B = 1 THEN 5 ELSE B + 3)
            /\ m - F + 1 = IF B = 1 THEN 1 ELSE (m + 1) - 3
        BY <1>1, <3>1
      <4>2. QED
        BY <1>4, <3>1, <4>1
    <3>2. CASE ~comes /\ there /\ ~goes
      <4>1. B = 1 /\ m + 1 \in (F + 1)..5
        BY <1>1, <3>2
      <4>2. QED
        BY <1>4, <3>2, <4>1
    <3>3. CASE ~comes /\ ~(there /\ ~goes)
      <4>1. m + 1 \notin (F + 1)..(IF B = 1 THEN 5 ELSE B + 3)
        BY <1>1, <3>3
      <4>2. QED
        BY <1>4, <3>3, <4>1
    <3>4. QED
      BY <3>1, <3>2, <3>3
  <2>2. FifoAt(v, m + 1)'
    BY <2>1 DEF FifoAt
  <2>3. QED
    BY <1>6, <2>2 DEF NextValue, NextAge
<1>7. QED
  BY <1>5, <1>6

LEMMA StoreSteps ==
  ASSUME NEW r, NEW n, NEW v, NEW m, NEW ptr, Ages(r, n, v, m, ptr),
         fifo_store_value' = Rest(fifo_store_value, TRUE)
                             \o Put(fe.value_valid /\ store_value_ready, fe.value),
         NEW np, (Insert(r) /\ n = 3) \/ np = ptr
  PROVE  StoreAt(NextValue(r, n, v), NextAge(r, n, m), np)'
<1> DEFINE B == Boxes(v.len)
           w == NextValue(r, n, v)
           a == NextAge(r, n, m)
           word == [pointer |-> ptr, len |-> IF m = 5 THEN v.len ELSE 0, word |-> Words(v)[m - 4]]
<1>1. /\ r \in AnyRequest /\ n \in Nat /\ m \in Nat /\ v \in Source /\ Together(r, n, v, m)
      /\ StoreAt(v, m, ptr) /\ LauncherAt(v, m, ptr) /\ store_value_ready
      /\ B \in 1..8
  BY SourceFits, NothingWaits DEF Ages, PathAt
<1>2. fifo_store_value' = Put(fe.value_valid /\ store_value_ready, fe.value)
  <2>1. Rest(fifo_store_value, TRUE) = <<>>
    BY <1>1, QueueOfOne DEF StoreAt
  <2>2. \A b \in BOOLEAN : \A x : <<>> \o Put(b, x) = Put(b, x)
    BY QueueOfOne DEF Put
  <2>3. (fe.value_valid /\ store_value_ready) \in BOOLEAN
    OBVIOUS
  <2>4. QED
    BY <2>1, <2>2, <2>3
<1>3. fifo_store_value' = IF m \in 5..(B + 4) THEN <<word>> ELSE <<>>
  <2>1. fe.value_valid <=> m \in 5..(B + 4)
    BY <1>1 DEF LauncherAt
  <2>2. m \in 5..(B + 4) => fe.value = word
    BY <1>1 DEF LauncherAt
  <2> HIDE DEF word, B
  <2>3. CASE m \in 5..(B + 4)
    <3>1. fe.value_valid /\ store_value_ready
      BY <1>1, <2>1, <2>3
    <3>2. \A x : Put(TRUE, x) = <<x>>
      BY DEF Put
    <3>3. fifo_store_value' = <<fe.value>>
      BY <1>2, <3>1, <3>2
    <3>4. QED
      BY <2>2, <2>3, <3>3
  <2>4. CASE m \notin 5..(B + 4)
    <3>1. ~ (fe.value_valid /\ store_value_ready)
      BY <2>1, <2>4
    <3>2. \A x : Put(FALSE, x) = <<>>
      BY DEF Put
    <3>3. fifo_store_value' = <<>>
      BY <1>2, <3>1, <3>2
    <3>4. QED
      BY <2>4, <3>3
  <2>5. QED
    BY <2>3, <2>4
<1>4. CASE m \in 5..(B + 4)
  <2>1. np = ptr /\ w = v /\ a = m + 1
    BY <1>1, <1>4 DEF Together, NextValue, NextAge
  <2>2. ASSUME NEW c \in Nat, c = m + 1
        PROVE  StoreAt(v, c, ptr)'
    <3>1. /\ c \in 6..(B + 5) /\ (c = 6 <=> m = 5) /\ c - 5 = m - 4
      BY <1>1, <1>4, <2>2
    <3>2. word = [pointer |-> ptr, len |-> IF c = 6 THEN v.len ELSE 0, word |-> Words(v)[c - 5]]
      BY <3>1
    <3> HIDE DEF word
    <3>3. fifo_store_value' =
            << [pointer |-> ptr, len |-> IF c = 6 THEN v.len ELSE 0, word |-> Words(v)[c - 5]] >>
      BY <1>3, <1>4, <3>2
    <3>4. QED
      BY <3>1, <3>3 DEF StoreAt
  <2>3. QED
    BY <1>1, <2>1, <2>2
<1>5. CASE m \notin 5..(B + 4)
  <2>1. fifo_store_value' = <<>>
    BY <1>3, <1>5
  <2>2. a \notin 6..(Boxes(w.len) + 5)
    <3>1. CASE Insert(r) /\ n = 1
      BY <3>1 DEF NextAge
    <3>2. CASE ~(Insert(r) /\ n = 1)
      <4>1. a = m + 1 /\ w = v
        BY <3>2 DEF NextAge, NextValue
      <4>2. QED
        BY <1>1, <1>5, <4>1
    <3>3. QED
      BY <3>1, <3>2
  <2> HIDE DEF w, a
  <2>3. StoreAt(w, a, np)'
    BY <2>1, <2>2 DEF StoreAt
  <2>4. QED
    BY <2>3 DEF w, a
<1>6. QED
  BY <1>4, <1>5

\* How old a request is at least when the hash table reads its key.
LEMMA TableWaits ==
  ASSUME NEW r, NEW n, NEW v, NEW m, NEW ptr, Ages(r, n, v, m, ptr)
  PROVE  /\ n < KeyAge(r) + 3 => udp_req_ready
         /\ udp_req_ready <=> ~Waits
         /\ KeyAge(r) = IF Insert(r) THEN 5 ELSE 3
BY RequestFits DEF Ages, PathAt, TableAt, Waits, udp_req_ready, KeyAge

LEMMA KeySteps ==
  ASSUME NEW r, NEW n, NEW v, NEW m, NEW ptr, Ages(r, n, v, m, ptr), NEW ack_ready,
         fifo_store_key' = Rest(fifo_store_key, udp_req_ready)
                           \o Put(fe.key_valid /\ store_key_ready, fe.key),
         UpdClock(ack_ready),
         NEW np, (Insert(r) /\ n = 3) \/ np = ptr
  PROVE  KeyAt(r, n + 1, np)'
<1> DEFINE K == KeyAge(r)
           S == Sent(r, ptr)
<1>1. /\ r \in AnyRequest /\ n \in Nat /\ KeyAt(r, n, ptr) /\ FrontEndAt(r, n, ptr)
         /\ store_key_ready
      /\ K = IF Insert(r) THEN 5 ELSE 3
  BY TableWaits, NothingWaits DEF Ages, PathAt
<1>2. n < K + 3 => udp_req_ready
  BY TableWaits
<1>3. /\ fifo_store_key = IF n = K + 1 THEN <<S>> ELSE <<>>
      /\ fe.key_valid <=> (n = K)
      /\ n = K => fe.key = S
      /\ upd.req_valid <=> (n = K + 2)
  BY <1>1 DEF KeyAt, FrontEndAt
<1>4. fifo_store_key' = IF n = K THEN <<S>> ELSE <<>>
  <2>1. Rest(fifo_store_key, udp_req_ready) = <<>>
    <3>1. CASE n = K + 1
      <4>1. udp_req_ready /\ fifo_store_key = <<S>>
        BY <1>1, <1>2, <1>3, <3>1
      <4> HIDE DEF S
      <4>2. QED
        BY <4>1, QueueOfOne DEF Rest
    <3>2. CASE n # K + 1
      <4>1. fifo_store_key = <<>>
        BY <1>3, <3>2
      <4>2. QED
        BY <4>1 DEF Rest
    <3>3. QED
      BY <3>1, <3>2
  <2>2. Put(fe.key_valid /\ store_key_ready, fe.key) = IF n = K THEN <<S>> ELSE <<>>
    <3> HIDE DEF S
    <3>1. QED
      BY <1>1, <1>3 DEF Put
  <2> HIDE DEF S
  <2>3. QED
    BY <2>1, <2>2, QueueOfOne
<1>5. /\ upd'.req_valid <=> (n = K + 1)
      /\ n = K + 1 => upd'.req = S
  <2>1. /\ upd'.req = IF udp_req_ready /\ fifo_store_key # <<>>
                      THEN Head(fifo_store_key) ELSE upd.req
        /\ upd'.req_valid <=> (\/ udp_req_ready /\ fifo_store_key # <<>>
                               \/ upd.req_valid /\ ~udp_req_ready)
    BY DEF UpdClock
  <2> HIDE DEF S
  <2>2. fifo_store_key # <<>> <=> n = K + 1
    BY <1>3
  <2>3. n = K + 1 => Head(fifo_store_key) = S
    BY <1>3
  <2>4. n \in {K + 1, K + 2} => udp_req_ready
    BY <1>1, <1>2
  <2>5. upd'.req_valid <=> (n = K + 1)
    BY <1>1, <1>3, <2>1, <2>2, <2>4
  <2>6. n = K + 1 => upd'.req = S
    BY <2>1, <2>2, <2>3, <2>4
  <2>7. QED
    BY <2>5, <2>6
<1>6. n >= K => Sent(r, np) = S
  BY <1>1 DEF Sent
<1> HIDE DEF S
<1>7. /\ (n + 1 = KeyAge(r) + 1 <=> n = K) /\ (n + 1 = KeyAge(r) + 2 <=> n = K + 1)
      /\ (n = K \/ n = K + 1 => n >= K)
  BY <1>1
<1>8. QED
  BY <1>4, <1>5, <1>6, <1>7 DEF KeyAt

-----------------------------------------------------------------------------
(* The hash table: what a cycle does to a request that it has, or gets. *)

Reads(r, n, ptr) ==
    /\ n = KeyAge(r) + 2 /\ ~Waits /\ ~Answers
    /\ hash' = [request |-> Sent(r, ptr), answer |-> None] /\ table' = table
Serves(r, n, ptr) ==
    /\ Waits /\ n >= KeyAge(r) + 3 /\ r.key \in Keys
    /\ hash.request = Sent(r, ptr)
    /\ table' = [table EXCEPT ![r.key] = IF Insert(r) THEN ptr ELSE NoPointer]
    /\ hash' = [request |-> None,
                answer |-> IF Insert(r) THEN Inserted(r, ptr)
                           ELSE [op |-> "KV_DELETE", key |-> r.key, value |-> table[r.key],
                                 success |-> table[r.key] # NoPointer]]
TakenNow(r, n) ==
    /\ Answers /\ ~Waits /\ n >= KeyAge(r) + 4
    /\ hash' = [request |-> None, answer |-> None] /\ table' = table
Stays(n, r) ==
    /\ n # KeyAge(r) + 2
    /\ hash' = hash /\ table' = table

LEMMA SentIsSome ==
  ASSUME NEW r, NEW ptr
  PROVE  Sent(r, ptr) # None
<1>1. "op" \in DOMAIN Sent(r, ptr) /\ "op" \notin DOMAIN None
  BY DEF Sent, None
<1>2. QED
  BY <1>1

LEMMA AnswerIsSome ==
  ASSUME NEW r, NEW ptr, NEW value
  PROVE  /\ Inserted(r, ptr) # None
         /\ [op |-> "KV_DELETE", key |-> r.key, value |-> value,
            success |-> value # NoPointer] # None
<1>1. "op" \in DOMAIN Inserted(r, ptr) /\ "op" \notin DOMAIN None
  BY DEF Inserted, None
<1> DEFINE a == [op |-> "KV_DELETE", key |-> r.key, value |-> value, success |-> value # NoPointer]
<1>2. "op" \in DOMAIN a
  OBVIOUS
<1>3. QED
  BY <1>1, <1>2

LEMMA HashMoves ==
  ASSUME NEW r, NEW n, NEW v, NEW m, NEW ptr, Ages(r, n, v, m, ptr), NEW ack_ready, NEW serve,
         HashClock(ack_ready, serve)
  PROVE  \/ ~TakesAnswer(ack_ready) /\ (Reads(r, n, ptr) \/ Serves(r, n, ptr) \/ Stays(n, r))
         \/ TakesAnswer(ack_ready) /\ TakenNow(r, n)
<1> DEFINE K == KeyAge(r)
<1>1. /\ r \in AnyRequest /\ n \in Nat /\ KeyAt(r, n, ptr) /\ TableAt(r, n, ptr) /\ RequestAt(r, n)
      /\ (udp_req_ready <=> ~Waits) /\ K = IF Insert(r) THEN 5 ELSE 3
  BY TableWaits DEF Ages, PathAt
<1>2. /\ hash = [request |-> hash.request, answer |-> hash.answer]
      /\ Waits => n >= K + 3 /\ hash.request = Sent(r, ptr) /\ ~Answers
      /\ Answers => n >= K + 4
      /\ TakesAnswer(ack_ready) => Answers
      /\ upd.req_valid <=> (n = K + 2)
      /\ n = K + 2 => upd.req = Sent(r, ptr)
      /\ Waits => r.key \in Keys
  BY <1>1 DEF TableAt, KeyAt, RequestAt, TakesAnswer, Answers
<1>3. CASE serve /\ hash.request # None /\ hash.answer = None
  <2>1. (ServeInsert \/ ServeDelete) /\ Waits /\ ~Answers /\ ~TakesAnswer(ack_ready)
    BY <1>2, <1>3 DEF HashClock, Waits, Answers
  <2>2. hash.request = Sent(r, ptr) /\ r.key \in Keys /\ n >= K + 3
    BY <1>2, <2>1
  <2>3. CASE Insert(r)
    <3>1. hash.request = [op |-> "KV_INSERT", key |-> r.key, value |-> ptr]
      BY <2>2, <2>3 DEF Sent
    <3>2. hash.request.op = "KV_INSERT" /\ hash.request.key = r.key /\ hash.request.value = ptr
      BY <3>1
    <3>3. ServeInsert
      BY <2>1, <3>2 DEF ServeDelete
    <3>4. Serves(r, n, ptr)
      BY <2>1, <2>2, <2>3, <3>2, <3>3 DEF ServeInsert, Serves, Inserted
    <3>5. QED
      BY <2>1, <3>4
  <2>4. CASE ~Insert(r)
    <3>1. hash.request = [op |-> "KV_DELETE", key |-> r.key]
      BY <2>2, <2>4 DEF Sent
    <3>2. hash.request.op = "KV_DELETE" /\ hash.request.key = r.key
      BY <3>1
    <3>3. ServeDelete
      BY <2>1, <3>2 DEF ServeInsert
    <3>4. Serves(r, n, ptr)
      BY <2>1, <2>2, <2>4, <3>2, <3>3 DEF ServeDelete, Serves
    <3>5. QED
      BY <2>1, <3>4
  <2>5. QED
    BY <2>3, <2>4
<1>4. CASE ~(serve /\ hash.request # None /\ hash.answer = None)
  <2>1. ReadRequest(ack_ready)
    BY <1>4 DEF HashClock
  <2>2. /\ table' = table
        /\ hash' = [request |-> IF udp_req_ready /\ upd.req_valid THEN upd.req ELSE hash.request,
                    answer |-> IF TakesAnswer(ack_ready) THEN None ELSE hash.answer]
    BY <2>1 DEF ReadRequest
  <2>3. CASE n = K + 2
    <3>1. ~Waits /\ ~Answers /\ ~TakesAnswer(ack_ready) /\ hash.answer = None
      BY <1>1, <1>2, <2>3 DEF Answers
    <3>2. hash' = [request |-> Sent(r, ptr), answer |-> None]
      BY <1>1, <1>2, <2>2, <2>3, <3>1
    <3>3. QED
      BY <2>2, <2>3, <3>1, <3>2 DEF Reads
  <2>4. CASE n # K + 2
    <3>1. hash' = [request |-> hash.request,
             answer |-> IF TakesAnswer(ack_ready) THEN None ELSE hash.answer]
      BY <1>2, <2>2, <2>4
    <3>2. CASE TakesAnswer(ack_ready)
      <4>1. Answers /\ ~Waits /\ n >= K + 4 /\ hash.request = None
        BY <1>2, <3>2 DEF Waits
      <4>2. QED
        BY <2>2, <3>1, <3>2, <4>1 DEF TakenNow
    <3>3. CASE ~TakesAnswer(ack_ready)
      <4>1. hash' = hash
        BY <1>2, <3>1, <3>3
      <4>2. QED
        BY <2>2, <2>4, <3>3, <4>1 DEF Stays
    <3>4. QED
      BY <3>2, <3>3
  <2>5. QED
    BY <2>3, <2>4
<1>5. QED
  BY <1>3, <1>4

LEMMA TableSteps ==
  ASSUME NEW r, NEW n, NEW v, NEW m, NEW ptr, Ages(r, n, v, m, ptr), NEW ack_ready, NEW serve,
         HashClock(ack_ready, serve), UpdClock(ack_ready), BoxTypes,
         NEW np, (Insert(r) /\ n = 3) \/ np = ptr
  PROVE  TableAt(r, n + 1, np)'
<1> DEFINE K == KeyAge(r)
           S == Sent(r, ptr)
<1>1. /\ r \in AnyRequest /\ n \in Nat /\ TableAt(r, n, ptr)
      /\ K = IF Insert(r) THEN 5 ELSE 3
  BY TableWaits DEF Ages, PathAt
<1>2. /\ DOMAIN upd' = {"req", "req_valid", "free", "free_valid", "ack", "ack_valid"}
      /\ upd'.ack_valid <=> (TakesAnswer(ack_ready) \/ (upd.ack_valid /\ ~ack_ready))
  BY DEF UpdClock
<1>3. /\ hash = [request |-> hash.request, answer |-> hash.answer]
      /\ Waits => n >= K + 3 /\ hash.request = S /\ ~Answers
      /\ Answers => /\ n >= K + 4
                    /\ IF Insert(r) THEN hash.answer = Inserted(r, ptr) ELSE Deleted(r, hash.answer)
      /\ upd.ack_valid => n >= K + 5 /\ ~Waits /\ ~Answers
  BY <1>1 DEF TableAt
<1>4. n >= K + 2 => Sent(r, np) = S /\ Inserted(r, np) = Inserted(r, ptr)
  BY <1>1 DEF Sent
<1> HIDE DEF S
<1>5. CASE ~TakesAnswer(ack_ready) /\ Reads(r, n, ptr)
  <2>1. /\ n = K + 2 /\ ~Answers /\ ~Waits
        /\ hash' = [request |-> S, answer |-> None]
    BY <1>5 DEF Reads, S
  <2>2. ~upd'.ack_valid
    BY <1>1, <1>2, <1>3, <1>5, <2>1
  <2>3. hash'.request = S /\ hash'.answer = None
           /\ hash' = [request |-> hash'.request, answer |-> hash'.answer]
    BY <2>1
  <2>4. n + 1 >= K + 3 /\ S = Sent(r, np)
    BY <1>1, <1>4, <2>1
  <2>5. QED
    BY <1>2, <2>2, <2>3, <2>4 DEF TableAt, Waits, Answers
<1>6. CASE ~TakesAnswer(ack_ready) /\ Serves(r, n, ptr)
  <2> DEFINE d == [op |-> "KV_DELETE", key |-> r.key, value |-> table[r.key],
                   success |-> table[r.key] # NoPointer]
  <2>1. /\ Waits /\ n >= K + 3 /\ r.key \in Keys
        /\ hash' = [request |-> None, answer |-> IF Insert(r) THEN Inserted(r, ptr) ELSE d]
    BY <1>6 DEF Serves
  <2>2. /\ hash'.request = None /\ hash'.answer = IF Insert(r) THEN Inserted(r, np) ELSE d
        /\ hash' = [request |-> hash'.request, answer |-> hash'.answer]
    BY <1>1, <1>4, <2>1
  <2>3. ~upd'.ack_valid
    BY <1>2, <1>3, <1>6, <2>1
  <2>4. table[r.key] \in Pointers \cup {NoPointer}
    BY <2>1 DEF BoxTypes
  <2>5. /\ d = [op |-> "KV_DELETE", key |-> r.key, value |-> d.value,
           success |-> d.value # NoPointer]
        /\ d.value \in Pointers \cup {NoPointer}
    BY <2>4
  <2> HIDE DEF d
  <2>6. IF Insert(r) THEN hash'.answer = Inserted(r, np) ELSE Deleted(r, hash'.answer)
    BY <2>2, <2>5 DEF Deleted
  <2>7. n + 1 >= K + 4
    BY <1>1, <2>1
  <2>8. (IF Insert(r) THEN hash.answer = Inserted(r, np) ELSE Deleted(r, hash.answer))'
    BY <2>6 DEF Deleted
  <2>9. QED
    BY <1>2, <2>2, <2>3, <2>7, <2>8 DEF TableAt, Waits
<1>7. CASE ~TakesAnswer(ack_ready) /\ Stays(n, r)
  <2>1. hash' = hash
    BY <1>7 DEF Stays
  <2>2. upd'.ack_valid <=> (upd.ack_valid /\ ~ack_ready)
    BY <1>2, <1>7
  <2>3. (Waits' <=> Waits) /\ (Answers' <=> Answers)
    BY <2>1 DEF Waits, Answers
  <2>4. Waits' => n + 1 >= K + 3 /\ hash'.request = Sent(r, np) /\ ~Answers'
    BY <1>1, <1>3, <1>4, <2>1, <2>3
  <2>5. Answers' => n + 1 >= K + 4 /\ (IF Insert(r) THEN hash'.answer = Inserted(r, np)
                                       ELSE Deleted(r, hash'.answer))
    BY <1>1, <1>3, <1>4, <2>1, <2>3
  <2>6. upd'.ack_valid => n + 1 >= K + 5 /\ ~Waits' /\ ~Answers'
    BY <1>1, <1>3, <2>2, <2>3
  <2>7. hash' = [request |-> hash'.request, answer |-> hash'.answer]
    BY <1>3, <2>1
  <2>8. Deleted(r, hash'.answer) = Deleted(r, hash.answer)'
    BY DEF Deleted
  <2>9. QED
    BY <1>2, <2>4, <2>5, <2>6, <2>7, <2>8 DEF TableAt
<1>8. CASE TakesAnswer(ack_ready) /\ TakenNow(r, n)
  <2>1. /\ n >= K + 4 /\ hash' = [request |-> None, answer |-> None]
    BY <1>8 DEF TakenNow
  <2>2. /\ hash'.request = None /\ hash'.answer = None
        /\ hash' = [request |-> hash'.request, answer |-> hash'.answer]
    BY <2>1
  <2>3. n + 1 >= K + 5
    BY <1>1, <2>1
  <2>4. QED
    BY <1>2, <2>2, <2>3 DEF TableAt, Waits, Answers
<1>9. QED
  BY <1>5, <1>6, <1>7, <1>8, HashMoves

\* A request is acknowledged once, when nothing of it is left in the hash table.
LEMMA RequestSteps ==
  ASSUME NEW r, NEW n, NEW v, NEW m, NEW ptr, Ages(r, n, v, m, ptr), NEW ack_ready, NEW serve,
         HashClock(ack_ready, serve), UpdClock(ack_ready),
         request' = IF upd.ack_valid /\ ack_ready THEN None ELSE request
  PROVE  RequestAt(r, n + 1)'
<1> DEFINE K == KeyAge(r)
<1>1. /\ r \in AnyRequest /\ n \in Nat /\ TableAt(r, n, ptr) /\ RequestAt(r, n)
      /\ K = IF Insert(r) THEN 5 ELSE 3
  BY TableWaits DEF Ages, PathAt
<1>2. upd'.ack_valid <=> (TakesAnswer(ack_ready) \/ (upd.ack_valid /\ ~ack_ready))
  BY DEF UpdClock
<1>3. /\ Waits => n >= K + 3 /\ ~Answers
      /\ Answers => n >= K + 4
      /\ upd.ack_valid => n >= K + 5 /\ ~Waits /\ ~Answers
      /\ TakesAnswer(ack_ready) => Answers
  BY <1>1 DEF TableAt, TakesAnswer, Answers
<1>4. /\ request # None => request = r /\ r.key \in Keys
      /\ request # None /\ n >= K + 3 => Waits \/ Answers \/ upd.ack_valid
      /\ request = None => n >= K + 6 /\ ~Waits /\ ~Answers /\ ~upd.ack_valid
  BY <1>1 DEF RequestAt
\* What the hash table has afterwards.
<1>5. \/ /\ ~TakesAnswer(ack_ready) /\ n = K + 2 /\ ~Waits /\ ~Answers /\ Waits'
      \/ /\ ~TakesAnswer(ack_ready) /\ Waits /\ n >= K + 3 /\ ~Waits' /\ Answers'
      \/ /\ ~TakesAnswer(ack_ready) /\ n # K + 2 /\ (Waits' <=> Waits) /\ (Answers' <=> Answers)
      \/ /\ TakesAnswer(ack_ready) /\ Answers /\ ~Waits /\ ~Waits' /\ ~Answers'
  <2>1. CASE Reads(r, n, ptr)
    BY <2>1, <1>3, SentIsSome DEF Reads, Waits, Answers
  <2>2. CASE ~TakesAnswer(ack_ready) /\ Serves(r, n, ptr)
    <3>1. Waits /\ n >= K + 3 /\ hash'.request = None
      BY <2>2 DEF Serves
    <3>2. hash'.answer # None
      BY <2>2, AnswerIsSome DEF Serves
    <3>3. QED
      BY <2>2, <3>1, <3>2 DEF Waits, Answers
  <2>3. CASE ~TakesAnswer(ack_ready) /\ Stays(n, r)
    BY <2>3 DEF Stays, Waits, Answers
  <2>4. CASE TakesAnswer(ack_ready) /\ TakenNow(r, n)
    BY <2>4 DEF TakenNow, Waits, Answers
  <2>5. QED
    BY <2>1, <2>2, <2>3, <2>4, HashMoves
<1>6. /\ n + 1 >= K + 3 <=> n >= K + 2
      /\ n >= K + 2 <=> (n = K + 2 \/ n >= K + 3)
      /\ n >= K + 5 => n + 1 >= K + 6 /\ n # K + 2
      /\ n >= K + 6 => n + 1 >= K + 6 /\ n # K + 2 /\ n >= K + 5
  BY <1>1
<1>7. request' # None => request' = r /\ r.key \in Keys
  BY <1>4
<1>8. request' # None /\ n + 1 >= K + 3 => Waits' \/ Answers' \/ upd'.ack_valid
  BY <1>2, <1>3, <1>4, <1>5, <1>6
<1>9. request' = None => n + 1 >= K + 6 /\ ~Waits' /\ ~Answers' /\ ~upd'.ack_valid
  BY <1>2, <1>3, <1>4, <1>5, <1>6
<1>10. QED
  BY <1>7, <1>8, <1>9 DEF RequestAt

-----------------------------------------------------------------------------
(* A cycle in which the host waits, and one in which it asks *)

LEMMA ValueSteps ==
  ASSUME NEW r, NEW n, NEW v, NEW m, NEW ptr, Ages(r, n, v, m, ptr)
  PROVE  /\ NextValue(r, n, v) \in Source /\ NextAge(r, n, m) \in Nat
         /\ Together(r, n + 1, NextValue(r, n, v), NextAge(r, n, m))
<1>1. /\ r \in AnyRequest /\ n \in Nat /\ m \in Nat /\ v \in Source /\ Together(r, n, v, m)
  BY DEF Ages, PathAt
<1>2. CASE Insert(r) /\ n = 1
  <2>1. ValueOf(r) \in Source /\ ValueOf(r).val = r.val /\ ValueOf(r).len = r.len
    BY <1>1, <1>2, ValueOfIsSource
  <2>2. QED
    BY <1>2, <2>1 DEF NextValue, NextAge, Together
<1>3. CASE ~(Insert(r) /\ n = 1)
  <2>1. Insert(r) /\ n + 1 >= 2 => n = 0 \/ n >= 2
    BY <1>1, <1>3
  <2>2. n = 0 => ~(n + 1 >= 2) /\ m + 1 >= 12 + (n + 1)
    BY <1>1 DEF Together
  <2>3. QED
    BY <1>1, <1>3, <2>1, <2>2 DEF NextValue, NextAge, Together
<1>4. QED
  BY <1>2, <1>3

LEMMA CycleSteps ==
  ASSUME NEW r, NEW n, NEW v, NEW m, NEW ptr, Ages(r, n, v, m, ptr), BoxTypes,
         NEW ack_ready, NEW serve, NEW free_taken, Clock(ack_ready, serve, free_taken),
         NEW np, np = NextBox(r, n, ptr)
  PROVE  LET w == NextValue(r, n, v)
             a == NextAge(r, n, m)
         IN  /\ ParserAt(r, n + 1)' /\ AllocAt(r, n + 1, np)' /\ FrontEndAt(r, n + 1, np)'
             /\ WordAt(w, a)' /\ FifoAt(w, a)' /\ LauncherAt(w, a, np)' /\ StoreAt(w, a, np)'
             /\ KeyAt(r, n + 1, np)' /\ TableAt(r, n + 1, np)'
             /\ np \in Pointers \cup {NoPointer}
<1>1. /\ ParserClock /\ FrontEndClock /\ AllocClock(free_taken) /\ FifoClock(free_taken)
      /\ UpdClock(ack_ready) /\ HashClock(ack_ready, serve)
  BY DEF Clock
<1>2. (Insert(r) /\ n = 3) \/ np = ptr
  BY DEF NextBox
<1>3. n \in Nat /\ alloc.free \subseteq Pointers
  BY DEF Ages, BoxTypes
<1>4. ParserAt(r, n + 1)' /\ WordAt(NextValue(r, n, v), NextAge(r, n, m))'
  BY <1>1, ParserSteps
<1>5. FrontEndAt(r, n + 1, np)' /\ LauncherAt(NextValue(r, n, v), NextAge(r, n, m), np)'
  BY <1>1, <1>2, FrontEndSteps
<1>6. FifoAt(NextValue(r, n, v), NextAge(r, n, m))'
  BY <1>1, ValueFifoSteps DEF FifoClock
<1>7. StoreAt(NextValue(r, n, v), NextAge(r, n, m), np)'
  BY <1>1, <1>2, StoreSteps DEF FifoClock
<1>8. KeyAt(r, n + 1, np)'
  BY <1>1, <1>2, KeySteps DEF FifoClock
<1>9. TableAt(r, n + 1, np)'
  BY <1>1, <1>2, TableSteps
<1>10. AllocAt(r, n + 1, np)' /\ np \in Pointers \cup {NoPointer}
  <2>1. /\ DOMAIN alloc' = AllocFields
        /\ alloc'.deciding <=> (Insert(r) /\ n = 2)
        /\ alloc'.req_ready <=> ~(Insert(r) /\ n = 2)
        /\ alloc'.valid <=> (Insert(r) /\ n = 3)
        /\ Insert(r) /\ n >= 3 => np \in Pointers
        /\ np \in Pointers \cup {NoPointer}
    BY <1>1, <1>3, AllocSteps
  <2>2. (n + 1 = 3 <=> n = 2) /\ (n + 1 = 4 <=> n = 3) /\ (n + 1 >= 4 <=> n >= 3)
    BY <1>3
  <2>3. Insert(r) /\ n = 3 => alloc'.pointer = np
    BY DEF NextBox
  <2>4. AllocAt(r, n + 1, np)'
    BY <2>1, <2>2, <2>3 DEF AllocAt, AllocFields
  <2>5. QED
    BY <2>1, <2>4
<1>11. QED
  BY <1>4, <1>5, <1>6, <1>7, <1>8, <1>9, <1>10

LEMMA HostWaits ==
  ASSUME NEW r, NEW n, NEW v, NEW m, NEW ptr, Ages(r, n, v, m, ptr), BoxTypes,
         NEW ack_ready, NEW serve, NEW free_taken, Clock(ack_ready, serve, free_taken),
         KeepAsking(ack_ready), NEW np, np = NextBox(r, n, ptr)
  PROVE  Ages(r, n + 1, NextValue(r, n, v), NextAge(r, n, m), np)'
<1>1. /\ r \in AnyRequest /\ n + 1 \in Nat
      /\ UpdClock(ack_ready) /\ HashClock(ack_ready, serve)
  BY DEF Ages, Clock
<1>2. SendingAt(r, n + 1)' /\ RequestAt(r, n + 1)'
  BY <1>1, SendingSteps, RequestSteps DEF KeepAsking
<1>3. PICK w, a : w = NextValue(r, n, v) /\ a = NextAge(r, n, m)
  OBVIOUS
<1>4. w \in Source /\ a \in Nat /\ Together(r, n + 1, w, a)
  BY <1>3, ValueSteps
<1>5. /\ np \in Pointers \cup {NoPointer}
      /\ ParserAt(r, n + 1)' /\ AllocAt(r, n + 1, np)' /\ FrontEndAt(r, n + 1, np)'
      /\ WordAt(w, a)' /\ FifoAt(w, a)' /\ LauncherAt(w, a, np)' /\ StoreAt(w, a, np)'
      /\ KeyAt(r, n + 1, np)' /\ TableAt(r, n + 1, np)'
  BY <1>3, CycleSteps
<1>6. QED
  BY <1>1, <1>2, <1>3, <1>4, <1>5 DEF Ages, PathAt

LEMMA HostAsks ==
  ASSUME NEW r, NEW n, NEW v, NEW m, NEW ptr, Ages(r, n, v, m, ptr), BoxTypes,
         NEW ack_ready, NEW serve, NEW free_taken, Clock(ack_ready, serve, free_taken),
         Ask
  PROVE  /\ n >= 9 /\ (Insert(r) => n >= 11)
         /\ \E r2 \in AnyRequest :
              /\ Ages(r2, 0, v, m + 1, ptr)'
              /\ ~Waits' /\ ~Answers'
              /\ Insert(r2) => table'[r2.key] = NoPointer
<1>1. /\ r \in AnyRequest /\ n \in Nat /\ m \in Nat /\ v \in Source /\ Together(r, n, v, m)
      /\ RequestAt(r, n) /\ KeyAge(r) = IF Insert(r) THEN 5 ELSE 3
      /\ Beats(r.len) \in 1..9 /\ request = None
  BY RequestFits DEF Ages, PathAt, Ask
<1>2. n >= 9 /\ (Insert(r) => n >= 11) /\ m >= 11 /\ n > KeyAge(r) + 5
  BY <1>1 DEF RequestAt, Together
<1>3. PICK r2 \in Requests : request' = r2 /\ sending' = Packet(r2)
  BY DEF Ask
<1>4. r2 \in AnyRequest /\ r2.key \in Keys /\ r2 # None
  <2>1. r2 \in [op : {0}, key : Keys, val : {None}, len : {0}]
          \/ r2 \in [op : {1}, key : Keys, val : Vals, len : Lengths]
    BY <1>3 DEF Requests
  <2>2. "op" \in DOMAIN r2 /\ "op" \notin DOMAIN None
    BY <2>1 DEF None
  <2>3. QED
    BY <2>1, <2>2 DEF AnyRequest
<1>5. ptr = NextBox(r, n, ptr)
  BY <1>2 DEF NextBox
<1>6. NextValue(r, n, v) = v /\ NextAge(r, n, m) = m + 1
  BY <1>2 DEF NextValue, NextAge
<1>7. /\ AllocAt(r, n + 1, ptr)' /\ KeyAt(r, n + 1, ptr)'
      /\ WordAt(v, m + 1)' /\ FifoAt(v, m + 1)' /\ LauncherAt(v, m + 1, ptr)'
         /\ StoreAt(v, m + 1, ptr)'
      /\ ptr \in Pointers \cup {NoPointer}
  <2>1. /\ WordAt(NextValue(r, n, v), NextAge(r, n, m))'
        /\ FifoAt(NextValue(r, n, v), NextAge(r, n, m))'
        /\ LauncherAt(NextValue(r, n, v), NextAge(r, n, m), ptr)'
        /\ StoreAt(NextValue(r, n, v), NextAge(r, n, m), ptr)'
    BY <1>5, CycleSteps
  <2>2. /\ AllocAt(r, n + 1, ptr)' /\ KeyAt(r, n + 1, ptr)'
        /\ ptr \in Pointers \cup {NoPointer}
    BY <1>5, CycleSteps
  <2>3. QED
    BY <1>6, <2>1, <2>2
<1>8. ParserAt(r2, 0)'
  <2>1. n >= 2 /\ ~(Insert(r) /\ n \in 2..Beats(r.len))
    BY <1>1, <1>2
  <2>2. QED
    BY <1>4, <2>1, ParserRests DEF Clock
<1>9. FrontEndAt(r2, 0, ptr)'
  <2>1. n >= 6
    BY <1>1, <1>2
  <2>2. QED
    BY <1>4, <2>1, FrontEndSteps DEF Clock
<1>10. SendingAt(r2, 0)'
  <2>1. Left(r2, 1) = Packet(r2)
    BY <1>4, PacketIsLeft
  <2>2. QED
    BY <1>3, <2>1 DEF SendingAt
<1>11. AllocAt(r2, 0, ptr)'
  <2>1. ~(Insert(r) /\ n + 1 = 3) /\ ~(Insert(r) /\ n + 1 = 4)
    BY <1>1, <1>2
  <2>2. QED
    BY <1>7, <2>1 DEF AllocAt
<1>12. KeyAt(r2, 0, ptr)'
  <2>1. n + 1 # KeyAge(r) + 1 /\ n + 1 # KeyAge(r) + 2
    BY <1>1, <1>2
  <2>2. 0 # KeyAge(r2) + 1 /\ 0 # KeyAge(r2) + 2
    BY DEF KeyAge
  <2>3. QED
    BY <1>7, <2>1, <2>2 DEF KeyAt
<1>13. /\ ~Waits' /\ ~Answers' /\ ~upd'.ack_valid /\ table' = table
       /\ hash' = [request |-> hash'.request, answer |-> hash'.answer]
       /\ DOMAIN upd' = {"req", "req_valid", "free", "free_valid", "ack", "ack_valid"}
  <2>1. ~Waits /\ ~Answers /\ ~upd.ack_valid
    BY <1>1 DEF RequestAt
  <2>2. n # KeyAge(r) + 2 /\ ~TakesAnswer(ack_ready)
    BY <1>1, <1>2, <2>1 DEF TakesAnswer, Answers
  <2>3. hash' = hash /\ table' = table
    BY <2>1, <2>2, HashMoves DEF Clock, Reads, Serves, Stays
  <2>4. hash = [request |-> hash.request, answer |-> hash.answer]
    BY DEF Ages, PathAt, TableAt
  <2>5. /\ upd'.ack_valid <=> (TakesAnswer(ack_ready) \/ (upd.ack_valid /\ ~ack_ready))
        /\ DOMAIN upd' = {"req", "req_valid", "free", "free_valid", "ack", "ack_valid"}
    BY DEF Clock, UpdClock
  <2>6. QED
    BY <2>1, <2>2, <2>3, <2>4, <2>5 DEF Waits, Answers
<1>14. TableAt(r2, 0, ptr)' /\ RequestAt(r2, 0)'
  <2>1. ~(0 >= KeyAge(r2) + 3)
    BY DEF KeyAge
  <2>2. request' = r2 /\ r2.key \in Keys /\ r2 # None
    BY <1>3, <1>4
  <2>3. QED
    BY <1>13, <2>1, <2>2 DEF TableAt, RequestAt
<1>15. Together(r2, 0, v, m + 1)
  BY <1>1, <1>2 DEF Together
<1>16. Insert(r2) => table'[r2.key] = NoPointer
  BY <1>3, <1>13 DEF Requests, Insert
<1>17. Ages(r2, 0, v, m + 1, ptr)'
  BY <1>1, <1>4, <1>7, <1>8, <1>9, <1>10, <1>11, <1>12, <1>14, <1>15 DEF Ages, PathAt
<1>18. QED
  BY <1>2, <1>4, <1>13, <1>16, <1>17

-----------------------------------------------------------------------------
(* Boxes: each is with the allocator, held by the request under way, in the *)
(* table, freed, or in the queue back to the allocator.                     *)

Held(r, n, ptr) ==
    IF Insert(r) THEN IF n \in 4..7 \/ Waits THEN {ptr} ELSE {}
    ELSE IF Answers /\ hash.answer.value # NoPointer THEN {hash.answer.value} ELSE {}
InTable == {table[k] : k \in Keys} \ {NoPointer}
Freed == IF upd.free_valid THEN {upd.free} ELSE {}
Queued == {fifo_pointer[i] : i \in 1..Len(fifo_pointer)}

Partition(F, H, T, U, Q) ==
    /\ F \cup H \cup T \cup U \cup Q = Pointers
    /\ F \cap H = {} /\ F \cap T = {} /\ F \cap U = {} /\ F \cap Q = {}
    /\ H \cap T = {} /\ H \cap U = {} /\ H \cap Q = {}
    /\ T \cap U = {} /\ T \cap Q = {} /\ U \cap Q = {}

OneKeyEach == \A k, l \in Keys : table[k] = table[l] /\ table[k] # NoPointer => k = l
OnePlaceEach == \A i, j \in 1..Len(fifo_pointer) : fifo_pointer[i] = fifo_pointer[j] => i = j

\* The host inserts absent keys only.
KeyIsAbsent(r, n) == Insert(r) /\ (n < KeyAge(r) + 3 \/ Waits) => table[r.key] = NoPointer

BoxesAt(r, n, ptr) ==
    /\ Partition(alloc.free, Held(r, n, ptr), InTable, Freed, Queued)
    /\ OneKeyEach /\ OnePlaceEach
    /\ KeyIsAbsent(r, n)

\* A box that leaves one of the places turns up in the next one.
LEMMA BoxesMove ==
  ASSUME NEW F, NEW H, NEW T, NEW U, NEW Q, Partition(F, H, T, U, Q),
         NEW a \in SUBSET F, NEW h \in SUBSET H, NEW g \in SUBSET H, h \cap g = {},
         NEW t \in SUBSET T, NEW u \in SUBSET U, NEW q \in SUBSET Q
  PROVE  Partition((F \ a) \cup q, (H \ (h \cup g)) \cup a \cup t, (T \ t) \cup h,
                   (U \ u) \cup g, (Q \ q) \cup u)
<1> DEFINE F2 == (F \ a) \cup q
           H2 == (H \ (h \cup g)) \cup a \cup t
           T2 == (T \ t) \cup h
           U2 == (U \ u) \cup g
           Q2 == (Q \ q) \cup u
<1>1. \A p : /\ p \in Pointers <=> p \in F \/ p \in H \/ p \in T \/ p \in U \/ p \in Q
             /\ ~(p \in F /\ p \in H) /\ ~(p \in F /\ p \in T) /\ ~(p \in F /\ p \in U)
             /\ ~(p \in F /\ p \in Q) /\ ~(p \in H /\ p \in T) /\ ~(p \in H /\ p \in U)
             /\ ~(p \in H /\ p \in Q) /\ ~(p \in T /\ p \in U) /\ ~(p \in T /\ p \in Q)
             /\ ~(p \in U /\ p \in Q)
  BY DEF Partition
<1>2. \A p : /\ p \in a => p \in F
             /\ p \in h => p \in H
             /\ p \in g => p \in H
             /\ p \in t => p \in T
             /\ p \in u => p \in U
             /\ p \in q => p \in Q
             /\ ~(p \in h /\ p \in g)
  OBVIOUS
<1>3. \A p : /\ p \in F2 <=> (p \in F /\ p \notin a) \/ p \in q
             /\ p \in H2 <=> (p \in H /\ p \notin h /\ p \notin g) \/ p \in a \/ p \in t
             /\ p \in T2 <=> (p \in T /\ p \notin t) \/ p \in h
             /\ p \in U2 <=> (p \in U /\ p \notin u) \/ p \in g
             /\ p \in Q2 <=> (p \in Q /\ p \notin q) \/ p \in u
  OBVIOUS
<1> HIDE DEF F2, H2, T2, U2, Q2
<1>4. \A p : p \in Pointers <=> p \in F2 \/ p \in H2 \/ p \in T2 \/ p \in U2 \/ p \in Q2
  BY <1>1, <1>2, <1>3
<1>5. \A p : /\ ~(p \in F2 /\ p \in H2) /\ ~(p \in F2 /\ p \in T2) /\ ~(p \in F2 /\ p \in U2)
             /\ ~(p \in F2 /\ p \in Q2) /\ ~(p \in H2 /\ p \in T2) /\ ~(p \in H2 /\ p \in U2)
             /\ ~(p \in H2 /\ p \in Q2) /\ ~(p \in T2 /\ p \in U2) /\ ~(p \in T2 /\ p \in Q2)
             /\ ~(p \in U2 /\ p \in Q2)
  BY <1>1, <1>2, <1>3
<1>6. Partition(F2, H2, T2, U2, Q2)
  BY <1>4, <1>5 DEF Partition
<1>7. QED
  BY <1>6 DEF F2, H2, T2, U2, Q2

\* The queue of freed boxes: its head may go, and one box may join.
Of(w) == {w[i] : i \in 1..Len(w)}
Distinct(w) == \A i, j \in 1..Len(w) : w[i] = w[j] => i = j

LEMMA HeadGoes ==
  ASSUME NEW s \in Seq(Pointers), s # <<>>, Distinct(s)
  PROVE  /\ Tail(s) \in Seq(Pointers) /\ Distinct(Tail(s))
         /\ Of(Tail(s)) = Of(s) \ {Head(s)} /\ Head(s) \in Of(s)
<1> DEFINE y == Tail(s)
<1>1. /\ Len(s) \in Nat /\ Len(s) >= 1 /\ Head(s) = s[1]
      /\ y \in Seq(Pointers) /\ Len(y) = Len(s) - 1
      /\ \A i \in 1..(Len(s) - 1) : y[i] = s[i + 1]
  BY EmptySeq, HeadTailProperties
<1> HIDE DEF y
<1>2. Distinct(y)
  BY <1>1 DEF Distinct
<1>3. ASSUME NEW x \in Of(y)
      PROVE  x \in Of(s) /\ x # s[1]
  <2>1. PICK i \in 1..(Len(s) - 1) : x = s[i + 1]
    BY <1>1 DEF Of
  <2>2. i + 1 \in 1..Len(s) /\ i + 1 # 1 /\ 1 \in 1..Len(s)
    BY <1>1
  <2>3. s[i + 1] # s[1]
    BY <2>2 DEF Distinct
  <2>4. QED
    BY <2>1, <2>2, <2>3 DEF Of
<1>4. ASSUME NEW x \in Of(s), x # s[1]
      PROVE  x \in Of(y)
  <2>1. PICK i \in 1..Len(s) : x = s[i]
    BY DEF Of
  <2>2. i # 1 /\ i - 1 \in 1..(Len(s) - 1) /\ (i - 1) + 1 = i
    BY <1>1, <1>4, <2>1
  <2>3. y[i - 1] = x /\ i - 1 \in 1..Len(y)
    BY <1>1, <2>1, <2>2
  <2>4. QED
    BY <2>3 DEF Of
<1>5. s[1] \in Of(s)
  BY <1>1 DEF Of
<1>6. Of(y) = Of(s) \ {Head(s)}
  BY <1>1, <1>3, <1>4
<1>7. QED
  BY <1>1, <1>2, <1>5, <1>6 DEF y

LEMMA OneJoins ==
  ASSUME NEW y \in Seq(Pointers), Distinct(y), NEW p \in Pointers, p \notin Of(y)
  PROVE  LET z == y \o <<p>>
         IN  z \in Seq(Pointers) /\ Distinct(z) /\ Of(z) = Of(y) \cup {p}
<1> DEFINE z == y \o <<p>>
<1>1. z = Append(y, p)
  BY AppendIsConcat
<1>2. /\ z \in Seq(Pointers) /\ Len(z) = Len(y) + 1 /\ Len(y) \in Nat
      /\ (\A i \in 1..Len(y) : z[i] = y[i]) /\ z[Len(y) + 1] = p
  BY <1>1, AppendProperties
<1> HIDE DEF z
<1>3. ASSUME NEW i \in 1..Len(z)
      PROVE  (i \in 1..Len(y) /\ z[i] = y[i] /\ y[i] \in Of(y)) \/ (i = Len(y) + 1 /\ z[i] = p)
  BY <1>2 DEF Of
<1>4. Distinct(z)
  <2>1. ASSUME NEW i \in 1..Len(z), NEW j \in 1..Len(z), z[i] = z[j]
        PROVE  i = j
    BY <1>3, <2>1 DEF Distinct
  <2>2. QED
    BY <2>1 DEF Distinct
<1>5. \A x \in Of(y) : x \in Of(z)
  <2>1. ASSUME NEW i \in 1..Len(y)
        PROVE  y[i] \in Of(z)
    <3>1. i \in 1..Len(z) /\ z[i] = y[i]
      BY <1>2
    <3>2. QED
      BY <3>1 DEF Of
  <2>2. QED
    BY <2>1 DEF Of
<1>6. p \in Of(z)
  <2>1. Len(y) + 1 \in 1..Len(z)
    BY <1>2
  <2>2. QED
    BY <1>2, <2>1 DEF Of
<1>7. \A x \in Of(z) : x \in Of(y) \cup {p}
  BY <1>3 DEF Of
<1>8. QED
  BY <1>2, <1>4, <1>5, <1>6, <1>7 DEF z

UpdateGone(s, take) == IF take /\ s # <<>> THEN {Head(s)} ELSE {}

LEMMA UpdateQueueMoves ==
  ASSUME NEW s \in Seq(Pointers), Distinct(s),
         NEW take \in BOOLEAN, NEW join \in BOOLEAN, NEW p,
         join => p \in Pointers /\ p \notin Of(s)
  PROVE  /\ Rest(s, take) \o Put(join, p) \in Seq(Pointers)
         /\ Distinct(Rest(s, take) \o Put(join, p))
         /\ Of(Rest(s, take) \o Put(join, p)) =
              (Of(s) \ UpdateGone(s, take)) \cup (IF join THEN {p} ELSE {})
         /\ UpdateGone(s, take) \in SUBSET Of(s)
<1> DEFINE z == Rest(s, take) \o Put(join, p)
           q == UpdateGone(s, take)
<1>1. PICK y : y = Rest(s, take)
  OBVIOUS
<1>2. y \in Seq(Pointers) /\ Distinct(y) /\ Of(y) = Of(s) \ q /\ q \in SUBSET Of(s)
  <2>1. CASE take /\ s # <<>>
    <3>1. y = Tail(s) /\ q = {Head(s)}
      BY <1>1, <2>1 DEF Rest, UpdateGone
    <3>2. /\ Tail(s) \in Seq(Pointers) /\ Distinct(Tail(s))
          /\ Of(Tail(s)) = Of(s) \ {Head(s)} /\ Head(s) \in Of(s)
      BY <2>1, HeadGoes
    <3>3. QED
      BY <3>1, <3>2
  <2>2. CASE ~(take /\ s # <<>>)
    <3>1. y = s /\ q = {}
      BY <1>1, <2>2 DEF Rest, UpdateGone
    <3>2. QED
      BY <3>1
  <2>3. QED
    BY <2>1, <2>2
<1> HIDE DEF q
<1>3. ASSUME join
      PROVE  z \in Seq(Pointers) /\ Distinct(z) /\ Of(z) = (Of(s) \ q) \cup {p}
  <2>1. z = y \o <<p>>
    BY <1>1, <1>3 DEF Put
  <2> HIDE DEF z
  <2>2. p \in Pointers /\ p \notin Of(y)
    BY <1>2, <1>3
  <2>3. z \in Seq(Pointers) /\ Distinct(z) /\ Of(z) = Of(y) \cup {p}
    BY <1>2, <2>1, <2>2, OneJoins
  <2>4. QED
    BY <1>2, <2>3
<1>4. ASSUME ~join
      PROVE  z \in Seq(Pointers) /\ Distinct(z) /\ Of(z) = Of(s) \ q
  <2>1. z = y \o <<>>
    BY <1>1, <1>4 DEF Put
  <2> HIDE DEF z
  <2>2. z = y
    BY <1>2, <2>1, ConcatEmptySeq
  <2>3. QED
    BY <1>2, <2>2
<1> HIDE DEF z
<1>5. /\ z \in Seq(Pointers) /\ Distinct(z)
      /\ Of(z) = (Of(s) \ q) \cup (IF join THEN {p} ELSE {})
  BY <1>3, <1>4
<1>6. QED
  BY <1>2, <1>5 DEF q, z

\* What the hash table does to the boxes that are held and to those in it: h
\* goes into the table, t comes out of it, g is given back.
UpdateTableMoves(r, n, ptr, np, ack_ready, h, t, g) ==
    /\ h \subseteq Held(r, n, ptr) /\ g \subseteq Held(r, n, ptr) /\ h \cap g = {}
    /\ t \subseteq InTable
    /\ Held(r, n + 1, np)' =
         (Held(r, n, ptr) \ (h \cup g)) \cup (IF Insert(r) /\ n = 3 THEN {np} ELSE {}) \cup t
    /\ InTable' = (InTable \ t) \cup h
    /\ g = IF TakesAnswer(ack_ready) /\ Frees(hash.answer) THEN {hash.answer.value} ELSE {}
    /\ table' \in [Keys -> Pointers \cup {NoPointer}]
    /\ OneKeyEach' /\ KeyIsAbsent(r, n + 1)'

LEMMA TableUnchanged ==
  ASSUME table' = table
  PROVE  InTable' = InTable /\ (OneKeyEach' <=> OneKeyEach)
BY DEF InTable, OneKeyEach

LEMMA TableStays ==
  ASSUME NEW r, NEW n, NEW v, NEW m, NEW ptr, Ages(r, n, v, m, ptr), NEW ack_ready,
         BoxTypes, BoxesAt(r, n, ptr),
         NEW np, (Insert(r) /\ n = 3) \/ np = ptr,
         ~TakesAnswer(ack_ready), Reads(r, n, ptr) \/ Stays(n, r)
  PROVE  UpdateTableMoves(r, n, ptr, np, ack_ready, {}, {}, {})
<1> DEFINE K == KeyAge(r)
<1>1. /\ n \in Nat /\ TableAt(r, n, ptr) /\ K = IF Insert(r) THEN 5 ELSE 3
      /\ (Waits => n >= K + 3) /\ (Answers => n >= K + 4)
  BY TableWaits DEF Ages, PathAt, TableAt
<1>2. table' = table
  BY DEF Reads, Stays
<1>3. InTable' = InTable /\ OneKeyEach' /\ table' \in [Keys -> Pointers \cup {NoPointer}]
  BY <1>2, TableUnchanged DEF BoxesAt, BoxTypes
<1>4. KeyIsAbsent(r, n + 1)'
  <2>1. (n + 1 < K + 3 \/ Waits') => (n < K + 3 \/ Waits)
    BY <1>1 DEF Reads, Stays, Waits
  <2>2. KeyIsAbsent(r, n)
    BY DEF BoxesAt
  <2>3. QED
    BY <1>2, <2>1, <2>2 DEF KeyIsAbsent
<1>5. Held(r, n + 1, np)' = Held(r, n, ptr) \cup (IF Insert(r) /\ n = 3 THEN {np} ELSE {})
  <2>1. CASE Insert(r)
    <3>1. Held(r, n + 1, np)' = IF n + 1 \in 4..7 \/ Waits' THEN {np} ELSE {}
      BY <2>1 DEF Held
    <3>2. Held(r, n, ptr) = IF n \in 4..7 \/ Waits THEN {ptr} ELSE {}
      BY <2>1 DEF Held
    <3>3. CASE n = 3
      <4>1. n + 1 \in 4..7 /\ ~(n \in 4..7 \/ Waits)
        BY <1>1, <2>1, <3>3
      <4>2. QED
        BY <2>1, <3>1, <3>2, <3>3, <4>1
    <3>4. CASE n # 3
      <4>1. (n + 1 \in 4..7 \/ Waits') <=> (n \in 4..7 \/ Waits)
        <5>1. CASE Reads(r, n, ptr)
          <6>1. n = 7 /\ Waits'
            BY <1>1, <2>1, <5>1, SentIsSome DEF Reads, Waits
          <6>2. QED
            BY <6>1
        <5>2. CASE Stays(n, r)
          <6>1. n # 7 /\ (Waits' <=> Waits)
            BY <1>1, <2>1, <5>2 DEF Stays, Waits
          <6>2. QED
            BY <1>1, <3>4, <6>1
        <5>3. QED
          BY <5>1, <5>2
      <4>2. np = ptr
        BY <3>4
      <4>3. QED
        BY <3>1, <3>2, <3>4, <4>1, <4>2
    <3>5. QED
      BY <3>3, <3>4
  <2>2. CASE ~Insert(r)
    <3>1. Answers' <=> Answers
      BY DEF Reads, Stays, Answers
    <3>2. Answers => hash'.answer = hash.answer
      BY DEF Reads, Stays, Answers
    <3>3. QED
      BY <2>2, <3>1, <3>2 DEF Held
  <2>3. QED
    BY <2>1, <2>2
<1>6. QED
  BY <1>3, <1>4, <1>5 DEF UpdateTableMoves

LEMMA TableTakes ==
  ASSUME NEW r, NEW n, NEW v, NEW m, NEW ptr, Ages(r, n, v, m, ptr), NEW ack_ready,
         BoxTypes, BoxesAt(r, n, ptr),
         NEW np, (Insert(r) /\ n = 3) \/ np = ptr,
         TakesAnswer(ack_ready), TakenNow(r, n)
  PROVE  UpdateTableMoves(r, n, ptr, np, ack_ready, {}, {}, Held(r, n, ptr))
<1> DEFINE K == KeyAge(r)
<1>1. /\ n \in Nat /\ TableAt(r, n, ptr) /\ K = IF Insert(r) THEN 5 ELSE 3
  BY TableWaits DEF Ages, PathAt
<1>2. /\ Answers /\ ~Waits /\ n >= K + 4 /\ table' = table
      /\ hash' = [request |-> None, answer |-> None]
      /\ IF Insert(r) THEN hash.answer = Inserted(r, ptr) ELSE Deleted(r, hash.answer)
  BY <1>1 DEF TakenNow, TableAt
<1>3. InTable' = InTable /\ OneKeyEach' /\ table' \in [Keys -> Pointers \cup {NoPointer}]
  BY <1>2, TableUnchanged DEF BoxesAt, BoxTypes
<1>4. ~Waits' /\ ~Answers'
  BY <1>2 DEF Waits, Answers
<1>5. KeyIsAbsent(r, n + 1)'
  <2>1. ~(n + 1 < K + 3)
    BY <1>1, <1>2
  <2>2. QED
    BY <1>4, <2>1 DEF KeyIsAbsent
<1>6. Held(r, n + 1, np)' = {} /\ ~(Insert(r) /\ n = 3)
  <2>1. Insert(r) => n + 1 \notin 4..7 /\ n # 3
    BY <1>1, <1>2
  <2>2. QED
    BY <1>4, <2>1 DEF Held
<1>7. Held(r, n, ptr) = IF Frees(hash.answer) THEN {hash.answer.value} ELSE {}
  <2>1. CASE Insert(r)
    <3>1. hash.answer.op = "KV_INSERT"
      BY <1>2, <2>1 DEF Inserted
    <3>2. n \notin 4..7
      BY <1>1, <1>2, <2>1
    <3>3. QED
      BY <1>2, <2>1, <3>1, <3>2 DEF Held, Frees
  <2>2. CASE ~Insert(r)
    <3>1. /\ hash.answer.op = "KV_DELETE"
          /\ hash.answer.success <=> (hash.answer.value # NoPointer)
      <4>1. PICK x, y : x = hash.answer.value /\ y = hash.answer
        OBVIOUS
      <4>2. y = [op |-> "KV_DELETE", key |-> r.key, value |-> x, success |-> x # NoPointer]
        BY <1>2, <2>2, <4>1 DEF Deleted
      <4>3. y.op = "KV_DELETE" /\ (y.success <=> x # NoPointer)
        BY <4>2
      <4>4. QED
        BY <4>1, <4>3
    <3>2. QED
      BY <1>2, <2>2, <3>1 DEF Held, Frees
  <2>3. QED
    BY <2>1, <2>2
<1>8. QED
  BY <1>3, <1>5, <1>6, <1>7 DEF UpdateTableMoves

LEMMA TableServes ==
  ASSUME NEW r, NEW n, NEW v, NEW m, NEW ptr, Ages(r, n, v, m, ptr), NEW ack_ready,
         BoxTypes, BoxesAt(r, n, ptr),
         NEW np, (Insert(r) /\ n = 3) \/ np = ptr,
         ~TakesAnswer(ack_ready), Serves(r, n, ptr)
  PROVE  \E h, t : UpdateTableMoves(r, n, ptr, np, ack_ready, h, t, {})
<1> DEFINE K == KeyAge(r)
           old == table[r.key]
<1>1. /\ n \in Nat /\ TableAt(r, n, ptr) /\ K = IF Insert(r) THEN 5 ELSE 3
      /\ Insert(r) /\ n >= 4 => ptr \in Pointers
  BY TableWaits DEF Ages, PathAt, AllocAt
<1>2. /\ Waits /\ n >= K + 3 /\ r.key \in Keys /\ ~Answers
      /\ table' = [table EXCEPT ![r.key] = IF Insert(r) THEN ptr ELSE NoPointer]
      /\ hash'.request = None
  BY <1>1 DEF Serves, TableAt
<1>3. /\ ~Waits' /\ ~(n + 1 < K + 3) /\ table \in [Keys -> Pointers \cup {NoPointer}]
      /\ OneKeyEach /\ old \in Pointers \cup {NoPointer}
  BY <1>1, <1>2 DEF Waits, BoxTypes, BoxesAt
<1>4. KeyIsAbsent(r, n + 1)'
  BY <1>3 DEF KeyIsAbsent
<1>5. NoPointer \notin Pointers
  OBVIOUS
<1>6. CASE Insert(r)
  <2>1. /\ ptr \in Pointers /\ old = NoPointer /\ ~(n + 1 \in 4..7) /\ n # 3
    BY <1>1, <1>2, <1>6 DEF BoxesAt, KeyIsAbsent
  <2>2. Held(r, n, ptr) = {ptr} /\ Held(r, n + 1, np)' = {}
    BY <1>2, <1>3, <1>6, <2>1 DEF Held
  <2>3. ptr \notin InTable
    BY <2>2 DEF BoxesAt, Partition
  <2>4. /\ DOMAIN table' = Keys /\ table'[r.key] = ptr
        /\ \A k \in Keys : k # r.key => table'[k] = table[k]
        /\ table' \in [Keys -> Pointers \cup {NoPointer}]
    BY <1>2, <1>3, <1>6, <2>1
  <2>5. InTable' = InTable \cup {ptr}
    <3>1. ASSUME NEW x \in InTable'
          PROVE  x \in InTable \cup {ptr}
      <4>1. PICK k \in Keys : x = table'[k] /\ x # NoPointer
        BY DEF InTable
      <4>2. QED
        BY <2>4, <4>1 DEF InTable
    <3>2. ASSUME NEW x \in InTable
          PROVE  x \in InTable'
      <4>1. PICK k \in Keys : x = table[k] /\ x # NoPointer
        BY DEF InTable
      <4>2. k # r.key
        BY <2>1, <4>1
      <4>3. QED
        BY <2>4, <4>1, <4>2 DEF InTable
    <3>3. ptr \in InTable'
      BY <1>2, <1>5, <2>1, <2>4 DEF InTable
    <3>4. QED
      BY <3>1, <3>2, <3>3
  <2>6. OneKeyEach'
    <3>1. ASSUME NEW k \in Keys, NEW l \in Keys, table'[k] = table'[l], table'[k] # NoPointer
          PROVE  k = l
      <4>1. \A x \in Keys : x # r.key => table[x] # ptr
        BY <1>5, <2>1, <2>3 DEF InTable
      <4>2. QED
        BY <1>3, <2>4, <3>1, <4>1 DEF OneKeyEach
    <3>2. QED
      BY <3>1 DEF OneKeyEach
  <2>7. UpdateTableMoves(r, n, ptr, np, ack_ready, {ptr}, {}, {})
    BY <1>4, <1>6, <2>1, <2>2, <2>4, <2>5, <2>6 DEF UpdateTableMoves
  <2>8. QED
    BY <2>7
<1>7. CASE ~Insert(r)
  <2> DEFINE t == IF old # NoPointer THEN {old} ELSE {}
  <2>1. /\ hash'.answer = [op |-> "KV_DELETE", key |-> r.key, value |-> old,
           success |-> old # NoPointer]
        /\ hash'.answer.value = old
    BY <1>7 DEF Serves
  <2>2. hash'.answer # None
    BY <2>1, AnswerIsSome
  <2>3. Held(r, n, ptr) = {} /\ Held(r, n + 1, np)' = t
    BY <1>2, <1>7, <2>1, <2>2 DEF Held, Answers
  <2>4. /\ DOMAIN table' = Keys /\ table'[r.key] = NoPointer
        /\ \A k \in Keys : k # r.key => table'[k] = table[k]
        /\ table' \in [Keys -> Pointers \cup {NoPointer}]
    BY <1>2, <1>3, <1>7
  <2>5. InTable' = InTable \ t
    <3>1. ASSUME NEW x \in InTable'
          PROVE  x \in InTable /\ x \notin t
      <4>1. PICK k \in Keys : x = table'[k] /\ x # NoPointer
        BY DEF InTable
      <4>2. k # r.key /\ x = table[k]
        BY <2>4, <4>1
      <4>3. x # old
        BY <1>2, <1>3, <4>1, <4>2 DEF OneKeyEach
      <4>4. QED
        BY <4>1, <4>2, <4>3 DEF InTable
    <3>2. ASSUME NEW x \in InTable, x \notin t
          PROVE  x \in InTable'
      <4>1. PICK k \in Keys : x = table[k] /\ x # NoPointer
        BY DEF InTable
      <4>2. k # r.key
        BY <3>2, <4>1
      <4>3. QED
        BY <2>4, <4>1, <4>2 DEF InTable
    <3>3. QED
      BY <3>1, <3>2
  <2>6. OneKeyEach'
    BY <1>3, <2>4 DEF OneKeyEach
  <2>7. t \subseteq InTable
    BY <1>2 DEF InTable
  <2> HIDE DEF t
  <2>8. UpdateTableMoves(r, n, ptr, np, ack_ready, {}, t, {})
    BY <1>4, <1>7, <2>3, <2>4, <2>5, <2>6, <2>7 DEF UpdateTableMoves
  <2>9. QED
    BY <2>8
<1>8. QED
  BY <1>6, <1>7

LEMMA FreedMoves ==
  ASSUME NEW ack_ready, UpdClock(ack_ready), NEW g,
         g = IF TakesAnswer(ack_ready) /\ Frees(hash.answer) THEN {hash.answer.value} ELSE {}
  PROVE  /\ Freed' = (Freed \ (IF free_pointer_ready THEN Freed ELSE {})) \cup g
         /\ upd'.free_valid => upd'.free \in Freed' /\ Freed' = {upd'.free}
<1> DEFINE frees == TakesAnswer(ack_ready) /\ Frees(hash.answer)
<1>1. /\ upd'.free = IF frees THEN hash.answer.value ELSE upd.free
      /\ upd'.free_valid <=> (frees \/ (upd.free_valid /\ ~free_pointer_ready))
  BY DEF UpdClock
<1>2. frees => free_pointer_ready
  BY DEF TakesAnswer, udp_res_ready
<1>3. g = IF frees THEN {hash.answer.value} ELSE {}
  OBVIOUS
<1> HIDE DEF frees
<1>4. Freed' = IF upd'.free_valid THEN {upd'.free} ELSE {}
  BY DEF Freed
<1>5. CASE frees
  BY <1>1, <1>2, <1>3, <1>4, <1>5
<1>6. CASE ~frees
  <2>1. g = {} /\ upd'.free = upd.free
    BY <1>1, <1>3, <1>6
  <2>2. upd'.free_valid <=> (upd.free_valid /\ ~free_pointer_ready)
    BY <1>1, <1>6
  <2>3. QED
    BY <1>4, <2>1, <2>2 DEF Freed
<1>7. QED
  BY <1>5, <1>6

LEMMA TableSometimesMoves ==
  ASSUME NEW r, NEW n, NEW v, NEW m, NEW ptr, Ages(r, n, v, m, ptr), NEW ack_ready, NEW serve,
         HashClock(ack_ready, serve), BoxTypes, BoxesAt(r, n, ptr),
         NEW np, (Insert(r) /\ n = 3) \/ np = ptr
  PROVE  \E h, t, g : UpdateTableMoves(r, n, ptr, np, ack_ready, h, t, g)
<1>1. CASE ~TakesAnswer(ack_ready) /\ (Reads(r, n, ptr) \/ Stays(n, r))
  <2>1. UpdateTableMoves(r, n, ptr, np, ack_ready, {}, {}, {})
    BY <1>1, TableStays
  <2>2. QED
    BY <2>1
<1>2. CASE ~TakesAnswer(ack_ready) /\ Serves(r, n, ptr)
  <2>1. \E h, t : UpdateTableMoves(r, n, ptr, np, ack_ready, h, t, {})
    BY <1>2, TableServes
  <2>2. QED
    BY <2>1
<1>3. CASE TakesAnswer(ack_ready) /\ TakenNow(r, n)
  <2>1. UpdateTableMoves(r, n, ptr, np, ack_ready, {}, {}, Held(r, n, ptr))
    BY <1>3, TableTakes
  <2>2. QED
    BY <2>1
<1>4. QED
  BY <1>1, <1>2, <1>3, HashMoves

LEMMA BoxesStep ==
  ASSUME NEW r, NEW n, NEW v, NEW m, NEW ptr, Ages(r, n, v, m, ptr), BoxTypes, BoxesAt(r, n, ptr),
         NEW ack_ready, NEW serve, NEW free_taken \in BOOLEAN, Clock(ack_ready, serve, free_taken),
         NEW np, np = NextBox(r, n, ptr)
  PROVE  BoxTypes' /\ BoxesAt(r, n + 1, np)'
<1> DEFINE H == Held(r, n, ptr)
           a == IF Insert(r) /\ n = 3 THEN {np} ELSE {}
           q == IF free_taken /\ fifo_pointer # <<>> THEN {Head(fifo_pointer)} ELSE {}
           u == IF free_pointer_ready THEN Freed ELSE {}
           join == upd.free_valid /\ free_pointer_ready
<1>1. /\ AllocClock(free_taken) /\ UpdClock(ack_ready) /\ HashClock(ack_ready, serve)
      /\ fifo_pointer' = Rest(fifo_pointer, free_taken) \o Put(join, upd.free)
  BY DEF Clock, FifoClock
<1>2. /\ alloc.free \subseteq Pointers
      /\ upd.free_valid => upd.free \in Pointers
      /\ fifo_pointer \in Seq(Pointers)
  BY DEF BoxTypes
<1>3. Partition(alloc.free, H, InTable, Freed, Queued) /\ OnePlaceEach
  BY DEF BoxesAt
<1>4. (Insert(r) /\ n = 3) \/ np = ptr
  BY DEF NextBox
<1>5. PICK h, t, g : UpdateTableMoves(r, n, ptr, np, ack_ready, h, t, g)
  BY <1>1, <1>4, TableSometimesMoves
<1>6. alloc'.free = (alloc.free \ a) \cup q /\ a \in SUBSET alloc.free
  <2>1. /\ Insert(r) /\ n = 3 => /\ np \in alloc.free
                                 /\ alloc'.free = (alloc.free \ {np}) \cup q
        /\ ~(Insert(r) /\ n = 3) => alloc'.free = alloc.free \cup q
    BY <1>1, <1>2, AllocSteps DEF NextBox, Back
  <2> HIDE DEF q
  <2>2. QED
    BY <2>1
<1>7. /\ Freed' = (Freed \ u) \cup g
      /\ upd'.free_valid => Freed' = {upd'.free}
  <2>1. g = IF TakesAnswer(ack_ready) /\ Frees(hash.answer) THEN {hash.answer.value} ELSE {}
    BY <1>5 DEF UpdateTableMoves
  <2>2. QED
    BY <1>1, <2>1, FreedMoves
<1>8. /\ fifo_pointer' \in Seq(Pointers) /\ OnePlaceEach'
      /\ Queued' = (Queued \ q) \cup u
      /\ q \in SUBSET Queued
  <2>1. join => upd.free \in Pointers /\ upd.free \notin Of(fifo_pointer)
    BY <1>2, <1>3 DEF Partition, Freed, Queued, Of
  <2>2. u = IF join THEN {upd.free} ELSE {}
    BY DEF Freed
  <2>3. Distinct(fifo_pointer) /\ (OnePlaceEach' <=> Distinct(fifo_pointer'))
    BY <1>3 DEF OnePlaceEach, Distinct
  <2>4. PICK s, z, p, b : s = fifo_pointer /\ z = fifo_pointer' /\ p = upd.free /\ b = join
    OBVIOUS
  <2>5. /\ b \in BOOLEAN /\ z = Rest(s, free_taken) \o Put(b, p)
        /\ q = UpdateGone(s, free_taken)
    BY <1>1, <2>4 DEF UpdateGone
  <2> HIDE DEF join, u, q
  <2>6. s \in Seq(Pointers) /\ Distinct(s) /\ (b => p \in Pointers /\ p \notin Of(s))
    BY <1>2, <2>1, <2>3, <2>4
  <2>7. /\ z \in Seq(Pointers) /\ Distinct(z)
        /\ Of(z) = (Of(s) \ q) \cup (IF b THEN {p} ELSE {})
        /\ q \in SUBSET Of(s)
    BY <2>5, <2>6, UpdateQueueMoves
  <2>8. /\ fifo_pointer' \in Seq(Pointers)
        /\ Distinct(fifo_pointer')
        /\ Of(fifo_pointer') = (Of(fifo_pointer) \ q) \cup (IF join THEN {upd.free} ELSE {})
        /\ q \in SUBSET Of(fifo_pointer)
    BY <2>4, <2>7
  <2>9. OnePlaceEach'
    BY <2>3, <2>8
  <2>10. Queued = Of(fifo_pointer) /\ Queued' = Of(fifo_pointer')
    BY DEF Queued, Of
  <2>11. QED
    BY <2>2, <2>8, <2>9, <2>10
<1>9. /\ h \in SUBSET H /\ g \in SUBSET H /\ h \cap g = {} /\ t \in SUBSET InTable
      /\ Held(r, n + 1, np)' = (H \ (h \cup g)) \cup a \cup t
      /\ InTable' = (InTable \ t) \cup h
      /\ table' \in [Keys -> Pointers \cup {NoPointer}]
      /\ OneKeyEach' /\ KeyIsAbsent(r, n + 1)'
  BY <1>5 DEF UpdateTableMoves
<1>10. u \in SUBSET Freed
  OBVIOUS
<1> HIDE DEF H, a, q, u, join
<1>11. Partition(alloc.free, Held(r, n + 1, np), InTable, Freed, Queued)'
  <2>1. Partition((alloc.free \ a) \cup q, (H \ (h \cup g)) \cup a \cup t, (InTable \ t) \cup h,
                  (Freed \ u) \cup g, (Queued \ q) \cup u)
    BY <1>3, <1>6, <1>8, <1>9, <1>10, BoxesMove
  <2>2. Partition(alloc'.free, Held(r, n + 1, np)', InTable', Freed', Queued')
    BY <1>6, <1>7, <1>8, <1>9, <2>1
  <2>3. QED
    BY <2>2 DEF Partition
<1>12. BoxesAt(r, n + 1, np)'
  BY <1>8, <1>9, <1>11 DEF BoxesAt
<1>13. alloc'.free \subseteq Pointers /\ Freed' \subseteq Pointers
  BY <1>11 DEF Partition
<1>14. BoxTypes'
  BY <1>7, <1>8, <1>9, <1>13 DEF BoxTypes
<1>15. QED
  BY <1>12, <1>14

-----------------------------------------------------------------------------
(* The invariant *)

BoxesInv ==
    /\ BoxTypes
    /\ \E r, n, v, m, ptr : Ages(r, n, v, m, ptr) /\ BoxesAt(r, n, ptr)

LEMMA BoxesInit ==
  ASSUME Init
  PROVE  /\ BoxTypes
         /\ \E r, n, v, m, ptr : /\ Ages(r, n, v, m, ptr) /\ BoxesAt(r, n, ptr)
                                 /\ ~Insert(r) /\ Boxes(v.len) <= 3
<1> DEFINE r == [op |-> 0, key |-> None, val |-> None, len |-> 0]
           v == [val |-> None, len |-> 1]
<1>1. r \in AnyRequest /\ v \in Source /\ ~Insert(r) /\ r.key = None /\ r.len = 0 /\ v.len = 1
         /\ KeyAge(r) = 3
  BY DEF AnyRequest, Source, FitLength, Insert, KeyAge, BytesInFirst
<1>2. Beats(r.len) = 1 /\ Boxes(v.len) = 1 /\ FirstAge(v) = 2
  BY <1>1 DEF Beats, Boxes, FirstAge
<1> HIDE DEF r, v
<1>3. ParserAt(r, 9)
  BY <1>1, <1>2 DEF Init, ParserAt, ParserReset, ParserFields
<1>4. SendingAt(r, 9)
  <2>1. Left(r, 9) = <<>>
    BY <1>1, <1>2, BeatsLeft
  <2>2. QED
    BY <2>1 DEF Init, SendingAt
<1>5. AllocAt(r, 9, NoPointer)
  BY <1>1 DEF Init, AllocAt
<1>6. FrontEndAt(r, 9, NoPointer)
  BY <1>1 DEF Init, FrontEndAt, FrontEndReset, FrontEndFields
<1>7. WordAt(v, 21) /\ FifoAt(v, 21)
  BY <1>2 DEF Init, WordAt, ParserReset, FifoAt
<1>8. LauncherAt(v, 21, NoPointer) /\ StoreAt(v, 21, NoPointer)
  BY <1>2 DEF Init, LauncherAt, FrontEndReset, StoreAt
<1>9. KeyAt(r, 9, NoPointer)
  BY <1>1 DEF Init, KeyAt
<1>10. TableAt(r, 9, NoPointer) /\ RequestAt(r, 9)
  BY <1>1 DEF Init, TableAt, RequestAt, Waits, Answers
<1>11. Together(r, 9, v, 21)
  BY <1>1 DEF Together
<1>12. Ages(r, 9, v, 21, NoPointer)
  BY <1>1, <1>3, <1>4, <1>5, <1>6, <1>7, <1>8, <1>9, <1>10, <1>11 DEF Ages, PathAt
<1>13. BoxTypes
  <2>1. fifo_pointer \in Seq(Pointers) /\ table \in [Keys -> Pointers \cup {NoPointer}]
    BY DEF Init
  <2>2. alloc.free = Pointers /\ ~upd.free_valid
    BY DEF Init
  <2>3. QED
    BY <2>1, <2>2 DEF BoxTypes
<1>14. BoxesAt(r, 9, NoPointer)
  <2>1. Held(r, 9, NoPointer) = {}
    BY <1>1 DEF Init, Held, Answers
  <2>2. InTable = {} /\ OneKeyEach
    BY DEF Init, InTable, OneKeyEach
  <2>3. Freed = {} /\ alloc.free = Pointers
    BY DEF Init, Freed
  <2>4. Queued = {} /\ OnePlaceEach
    BY DEF Init, Queued, OnePlaceEach
  <2>5. QED
    BY <1>1, <2>1, <2>2, <2>3, <2>4 DEF BoxesAt, Partition, KeyIsAbsent
<1>15. QED
  BY <1>1, <1>2, <1>12, <1>13, <1>14

\* A cycle in which the host waits, and one in which it asks.
LEMMA BoxesMoveOn ==
  ASSUME NEW r, NEW n, NEW v, NEW m, NEW ptr, Ages(r, n, v, m, ptr), BoxesAt(r, n, ptr), BoxTypes,
         NEW ack_ready, NEW serve, NEW free_taken \in BOOLEAN, Clock(ack_ready, serve, free_taken),
         NEW np, np = NextBox(r, n, ptr)
  PROVE  /\ BoxTypes'
         /\ KeepAsking(ack_ready) => /\ Ages(r, n + 1, NextValue(r, n, v), NextAge(r, n, m), np)'
                                     /\ BoxesAt(r, n + 1, np)'
         /\ Ask => \E r2 \in AnyRequest : Ages(r2, 0, v, m + 1, ptr)' /\ BoxesAt(r2, 0, ptr)'
<1>1. BoxTypes' /\ BoxesAt(r, n + 1, np)'
  BY BoxesStep
<1>2. ASSUME KeepAsking(ack_ready)
      PROVE  Ages(r, n + 1, NextValue(r, n, v), NextAge(r, n, m), np)'
  BY <1>2, HostWaits
<1>3. ASSUME Ask
      PROVE  \E r2 \in AnyRequest : Ages(r2, 0, v, m + 1, ptr)' /\ BoxesAt(r2, 0, ptr)'
  <2>1. n >= 9 /\ (Insert(r) => n >= 11) /\ n \in Nat
    BY <1>3, HostAsks DEF Ages
  <2>2. PICK r2 \in AnyRequest : /\ Ages(r2, 0, v, m + 1, ptr)'
                                 /\ ~Waits' /\ ~Answers'
                                 /\ Insert(r2) => table'[r2.key] = NoPointer
    BY <1>3, HostAsks
  <2>3. Held(r2, 0, ptr)' = {} /\ Held(r, n + 1, np)' = {}
    <3>1. n + 1 \notin 4..7
      BY <2>1
    <3>2. QED
      BY <2>2, <3>1 DEF Held
  <2>4. KeyIsAbsent(r2, 0)'
    BY <2>2 DEF KeyIsAbsent
  <2>5. Partition(alloc'.free, Held(r, n + 1, np)', InTable', Freed', Queued')
    BY <1>1 DEF BoxesAt, Partition
  <2>6. Partition(alloc.free, Held(r2, 0, ptr), InTable, Freed, Queued)'
    BY <2>3, <2>5 DEF Partition
  <2>7. BoxesAt(r2, 0, ptr)'
    BY <1>1, <2>4, <2>6 DEF BoxesAt
  <2>8. QED
    BY <2>2, <2>7
<1>4. QED
  BY <1>1, <1>2, <1>3

LEMMA BoxesStutter ==
  ASSUME NEW r, NEW n, NEW v, NEW m, NEW ptr, Ages(r, n, v, m, ptr), BoxesAt(r, n, ptr), BoxTypes,
         vars' = vars
  PROVE  BoxTypes' /\ Ages(r, n, v, m, ptr)' /\ BoxesAt(r, n, ptr)'
<1>1. Ages(r, n, v, m, ptr)'
  BY DEF vars, Ages, PathAt, ParserAt, SendingAt, AllocAt, FrontEndAt, WordAt, FifoAt,
     LauncherAt, StoreAt, KeyAt, TableAt, RequestAt, Waits, Answers, Deleted
<1>2. alloc' = alloc /\ upd' = upd /\ hash' = hash /\ table' = table /\ fifo_pointer' = fifo_pointer
  BY DEF vars
<1>3. /\ Held(r, n, ptr)' = Held(r, n, ptr) /\ InTable' = InTable
      /\ Freed' = Freed /\ Queued' = Queued
  BY <1>2 DEF Held, InTable, Freed, Queued, Waits, Answers
<1>4. Partition(alloc.free, Held(r, n, ptr), InTable, Freed, Queued)'
  BY <1>2, <1>3 DEF BoxesAt, Partition
<1>5. OneKeyEach' /\ OnePlaceEach' /\ KeyIsAbsent(r, n)'
  BY <1>2 DEF BoxesAt, OneKeyEach, OnePlaceEach, KeyIsAbsent, Waits
<1>6. BoxTypes'
  BY <1>2 DEF BoxTypes
<1>7. QED
  BY <1>1, <1>4, <1>5, <1>6 DEF BoxesAt

LEMMA BoxesNext ==
  ASSUME BoxesInv, [Next]_vars
  PROVE  BoxesInv'
<1>1. PICK r, n, v, m, ptr : Ages(r, n, v, m, ptr) /\ BoxesAt(r, n, ptr)
  BY DEF BoxesInv
<1>2. BoxTypes
  BY DEF BoxesInv
<1>3. CASE Next
  <2>1. PICK ack_ready \in BOOLEAN, serve \in BOOLEAN, free_taken \in BOOLEAN :
          Clock(ack_ready, serve, free_taken)
    BY <1>3 DEF Next
  <2>2. PICK np : np = NextBox(r, n, ptr)
    OBVIOUS
  <2>3. /\ BoxTypes'
        /\ KeepAsking(ack_ready) => /\ Ages(r, n + 1, NextValue(r, n, v), NextAge(r, n, m), np)'
                                    /\ BoxesAt(r, n + 1, np)'
        /\ Ask => \E r2 \in AnyRequest : Ages(r2, 0, v, m + 1, ptr)' /\ BoxesAt(r2, 0, ptr)'
    BY <1>1, <1>2, <2>1, <2>2, BoxesMoveOn
  <2>4. CASE KeepAsking(ack_ready)
    BY <2>3, <2>4 DEF BoxesInv
  <2>5. CASE Ask
    BY <2>3, <2>5 DEF BoxesInv
  <2>6. QED
    BY <2>1, <2>4, <2>5 DEF Clock, HostStep
<1>4. CASE vars' = vars
  BY <1>1, <1>2, <1>4, BoxesStutter DEF BoxesInv
<1>5. QED
  BY <1>3, <1>4

\* Where among the places a held box is.
Holder(r, n) ==
    IF ~Insert(r) THEN 8
    ELSE IF n = 4 THEN 2 ELSE IF n = 5 THEN 3 ELSE IF n = 6 THEN 4 ELSE IF n = 7 THEN 5 ELSE 6

\* Of the registers and queues between the allocator and the table, the one an
\* age names holds the box: the fact of PlaceOfBox for an insertion, in isolation.
LEMMA OneHolds ==
  ASSUME NEW P, NEW n, NEW A, NEW W, NEW k, NEW H, NEW Z,
         P[2] = IF n = 4 THEN A ELSE Z, P[3] = IF n = 5 THEN A ELSE Z,
         P[4] = IF n = 6 THEN A ELSE Z, P[5] = IF n = 7 THEN A ELSE Z,
         P[6] = W, P[8] = Z, 
         k = (IF n = 4 THEN 2 ELSE IF n = 5 THEN 3 ELSE IF n = 6 THEN 4
              ELSE IF n = 7 THEN 5 ELSE 6),
         n = 4 \/ n = 5 \/ n = 6 \/ n = 7 => H = A /\ W = Z,
         n # 4 /\ n # 5 /\ n # 6 /\ n # 7 => H = W,
         NEW i \in {2, 3, 4, 5, 6, 8}
  PROVE  P[i] = IF i = k THEN H ELSE Z
<1>1. CASE n = 4
  BY <1>1
<1>2. CASE n = 5
  BY <1>2
<1>3. CASE n = 6
  BY <1>3
<1>4. CASE n = 7
  BY <1>4
<1>5. CASE n # 4 /\ n # 5 /\ n # 6 /\ n # 7
  BY <1>5
<1>6. QED
  BY <1>1, <1>2, <1>3, <1>4, <1>5

LEMMA PlaceOfBox ==
  ASSUME NEW r, NEW n, NEW v, NEW m, NEW ptr, Ages(r, n, v, m, ptr)
  PROVE  /\ DOMAIN Places = 1..10
         /\ Places[1] = alloc.free /\ Places[7] = InTable
         /\ Places[9] = Freed /\ Places[10] = Queued
         /\ Holder(r, n) \in {2, 3, 4, 5, 6, 8}
         /\ \A i \in {2, 3, 4, 5, 6, 8} :
              Places[i] = IF i = Holder(r, n) THEN Held(r, n, ptr) ELSE {}
<1> DEFINE K == KeyAge(r)
<1>1. /\ n \in Nat /\ AllocAt(r, n, ptr) /\ FrontEndAt(r, n, ptr) /\ KeyAt(r, n, ptr)
      /\ TableAt(r, n, ptr) /\ K = IF Insert(r) THEN 5 ELSE 3
  BY TableWaits DEF Ages, PathAt
<1>2. Holder(r, n) \in {2, 3, 4, 5, 6, 8}
  BY DEF Holder
<1>3. /\ Sent(r, ptr).op = IF Insert(r) THEN "KV_INSERT" ELSE "KV_DELETE"
      /\ Insert(r) => Sent(r, ptr).value = ptr
  BY DEF Sent
<1>4. \A b \in BOOLEAN : KeyPointer(b, Sent(r, ptr)) = IF b /\ Insert(r) THEN {ptr} ELSE {}
  BY <1>3 DEF KeyPointer
<1>5. Places[2] = IF Insert(r) /\ n = 4 THEN {ptr} ELSE {}
  BY <1>1 DEF Places, AllocAt
<1>6. Places[3] = IF Insert(r) /\ n = 5 THEN {ptr} ELSE {}
  <2>1. Places[3] = KeyPointer(fe.key_valid, fe.key)
    BY DEF Places
  <2>2. fe.key_valid <=> n = K
    BY <1>1 DEF FrontEndAt
  <2>3. CASE n = K
    <3>1. fe.key = Sent(r, ptr)
      BY <1>1, <2>3 DEF FrontEndAt
    <3>2. PICK k : k = Sent(r, ptr)
      OBVIOUS
    <3>3. Places[3] = IF k.op = "KV_INSERT" THEN {k.value} ELSE {}
      BY <2>1, <2>2, <2>3, <3>1, <3>2 DEF KeyPointer
    <3>4. Places[3] = IF Insert(r) THEN {ptr} ELSE {}
      BY <1>3, <3>2, <3>3
    <3>5. QED
      BY <1>1, <2>3, <3>4
  <2>4. CASE n # K
    <3>1. Places[3] = {}
      BY <2>1, <2>2, <2>4 DEF KeyPointer
    <3>2. QED
      BY <1>1, <2>4, <3>1
  <2>5. QED
    BY <2>3, <2>4
<1>7. Places[4] = IF Insert(r) /\ n = 6 THEN {ptr} ELSE {}
  <2>1. Places[4] = {fifo_store_key[i].value :
                       i \in {j \in 1..Len(fifo_store_key) : fifo_store_key[j].op = "KV_INSERT"}}
    BY DEF Places
  <2>2. CASE n = K + 1
    <3>1. Len(fifo_store_key) = 1 /\ fifo_store_key[1] = Sent(r, ptr)
      BY <1>1, <2>2 DEF KeyAt
    <3>2. CASE Insert(r)
      <4>1. {j \in 1..Len(fifo_store_key) : fifo_store_key[j].op = "KV_INSERT"} = {1}
        BY <1>3, <3>1, <3>2
      <4>2. Places[4] = {ptr}
        BY <1>3, <2>1, <3>1, <3>2, <4>1
      <4>3. QED
        BY <1>1, <2>2, <3>2, <4>2
    <3>3. CASE ~Insert(r)
      <4>1. {j \in 1..Len(fifo_store_key) : fifo_store_key[j].op = "KV_INSERT"} = {}
        BY <1>3, <3>1, <3>3
      <4>2. QED
        BY <2>1, <3>3, <4>1
    <3>4. QED
      BY <3>2, <3>3
  <2>3. CASE n # K + 1
    <3>1. Len(fifo_store_key) = 0
      BY <1>1, <2>3 DEF KeyAt
    <3>2. {j \in 1..Len(fifo_store_key) : fifo_store_key[j].op = "KV_INSERT"} = {}
      BY <3>1
    <3>3. Places[4] = {}
      BY <2>1, <3>2
    <3>4. QED
      BY <1>1, <2>3, <3>3
  <2>4. QED
    BY <2>2, <2>3
<1>8. Places[5] = IF Insert(r) /\ n = 7 THEN {ptr} ELSE {}
  <2>1. Places[5] = KeyPointer(upd.req_valid, upd.req)
    BY DEF Places
  <2>2. upd.req_valid <=> n = K + 2
    BY <1>1 DEF KeyAt
  <2>3. CASE n = K + 2
    <3>1. upd.req = Sent(r, ptr)
      BY <1>1, <2>3 DEF KeyAt
    <3>2. PICK k : k = Sent(r, ptr)
      OBVIOUS
    <3>3. Places[5] = IF k.op = "KV_INSERT" THEN {k.value} ELSE {}
      BY <2>1, <2>2, <2>3, <3>1, <3>2 DEF KeyPointer
    <3>4. Places[5] = IF Insert(r) THEN {ptr} ELSE {}
      BY <1>3, <3>2, <3>3
    <3>5. QED
      BY <1>1, <2>3, <3>4
  <2>4. CASE n # K + 2
    <3>1. Places[5] = {}
      BY <2>1, <2>2, <2>4 DEF KeyPointer
    <3>2. QED
      BY <1>1, <2>4, <3>1
  <2>5. QED
    BY <2>3, <2>4
<1>9. Places[6] = IF Insert(r) /\ Waits THEN {ptr} ELSE {}
  <2>1. Places[6] = KeyPointer(hash.request # None, hash.request)
    BY DEF Places
  <2>2. Waits => hash.request = Sent(r, ptr)
    BY <1>1 DEF TableAt
  <2>3. PICK k : k = Sent(r, ptr)
    OBVIOUS
  <2>4. Places[6] = IF Waits /\ k.op = "KV_INSERT" THEN {k.value} ELSE {}
    BY <2>1, <2>2, <2>3 DEF KeyPointer, Waits
  <2>5. QED
    BY <1>3, <2>3, <2>4
<1>10. Places[8] = IF ~Insert(r) /\ Answers /\ hash.answer.value # NoPointer
                   THEN {hash.answer.value} ELSE {}
  <2>1. Places[8] = IF hash.answer # None /\ Frees(hash.answer) THEN {hash.answer.value} ELSE {}
    BY DEF Places
  <2>2. Answers => (Frees(hash.answer) <=> (~Insert(r) /\ hash.answer.value # NoPointer))
    <3>1. PICK x, y : x = hash.answer.value /\ y = hash.answer
      OBVIOUS
    <3>2. CASE Answers /\ Insert(r)
      <4>1. y = Inserted(r, ptr)
        BY <1>1, <3>1, <3>2 DEF TableAt
      <4>2. y.op = "KV_INSERT"
        BY <4>1 DEF Inserted
      <4>3. QED
        BY <3>1, <3>2, <4>2 DEF Frees
    <3>3. CASE Answers /\ ~Insert(r)
      <4>1. y = [op |-> "KV_DELETE", key |-> r.key, value |-> x, success |-> x # NoPointer]
        BY <1>1, <3>1, <3>3 DEF TableAt, Deleted
      <4>2. y.op = "KV_DELETE" /\ (y.success <=> x # NoPointer)
        BY <4>1
      <4>3. QED
        BY <3>1, <3>3, <4>2 DEF Frees
    <3>4. QED
      BY <3>2, <3>3
  <2>3. QED
    BY <2>1, <2>2 DEF Answers
<1>11. Held(r, n, ptr) = IF Insert(r) THEN IF n \in 4..7 \/ Waits THEN {ptr} ELSE {}
                         ELSE IF Answers /\ hash.answer.value # NoPointer
                              THEN {hash.answer.value} ELSE {}
  BY DEF Held
<1>12. Waits /\ Insert(r) => n >= 8
  BY <1>1 DEF TableAt
<1>13. ASSUME NEW i \in {2, 3, 4, 5, 6, 8}
       PROVE  Places[i] = IF i = Holder(r, n) THEN Held(r, n, ptr) ELSE {}
  <2> HIDE DEF Places
  <2>1. CASE Insert(r)
    <3>1. Held(r, n, ptr) = IF n \in 4..7 \/ Waits THEN {ptr} ELSE {}
      BY <1>11, <2>1
    <3>2. PICK P, k, H, W : P = Places /\ k = Holder(r, n) /\ H = Held(r, n, ptr)
             /\ W = (IF Waits THEN {ptr} ELSE {})
      OBVIOUS
    <3>3. /\ P[2] = IF n = 4 THEN {ptr} ELSE {}
          /\ P[3] = IF n = 5 THEN {ptr} ELSE {}
          /\ P[4] = IF n = 6 THEN {ptr} ELSE {}
          /\ P[5] = IF n = 7 THEN {ptr} ELSE {}
          /\ P[6] = W
          /\ P[8] = {}
      BY <1>5, <1>6, <1>7, <1>8, <1>9, <1>10, <2>1, <3>2
    <3>4. k = IF n = 4 THEN 2 ELSE IF n = 5 THEN 3 ELSE IF n = 6 THEN 4 ELSE IF n = 7 THEN 5 ELSE 6
      BY <2>1, <3>2 DEF Holder
    <3>5. n = 4 \/ n = 5 \/ n = 6 \/ n = 7 => H = {ptr} /\ W = {}
      BY <1>12, <2>1, <3>1, <3>2
    <3>6. n # 4 /\ n # 5 /\ n # 6 /\ n # 7 => H = W
      <4>1. ASSUME n # 4, n # 5, n # 6, n # 7
            PROVE  n \notin 4..7
        BY <4>1
      <4>2. QED
        BY <3>1, <3>2, <4>1
    <3>7. P[i] = IF i = k THEN H ELSE {}
      <4>1. PICK A, Z : A = {ptr} /\ Z = {}
        OBVIOUS
      <4>2. /\ P[2] = IF n = 4 THEN A ELSE Z
            /\ P[3] = IF n = 5 THEN A ELSE Z
            /\ P[4] = IF n = 6 THEN A ELSE Z
            /\ P[5] = IF n = 7 THEN A ELSE Z
            /\ P[6] = W
            /\ P[8] = Z
        BY <3>3, <4>1
      <4>3. n = 4 \/ n = 5 \/ n = 6 \/ n = 7 => H = A /\ W = Z
        BY <3>5, <4>1
      <4>4. P[i] = IF i = k THEN H ELSE Z
        BY <3>4, <3>6, <4>2, <4>3, OneHolds
      <4>5. QED
        BY <4>1, <4>4
    <3>8. QED
      BY <3>2, <3>7
  <2>2. CASE ~Insert(r)
    <3>1. Holder(r, n) = 8
      BY <2>2 DEF Holder
    <3>2. i # 8 => Places[i] = {}
      BY <1>5, <1>6, <1>7, <1>8, <1>9, <2>2
    <3>3. Places[8] = Held(r, n, ptr)
      BY <1>10, <1>11, <2>2
    <3>4. QED
      BY <3>1, <3>2, <3>3
  <2>3. QED
    BY <2>1, <2>2
<1>14. /\ DOMAIN Places = 1..10
       /\ Places[1] = alloc.free /\ Places[7] = InTable
       /\ Places[9] = Freed /\ Places[10] = Queued
  BY DEF Places, InTable, Freed, Queued
<1>15. QED
  BY <1>2, <1>13, <1>14

LEMMA BoxesAreAccountedFor ==
  ASSUME BoxesInv
  PROVE  BoxesAccountedFor
<1>1. PICK r, n, v, m, ptr : Ages(r, n, v, m, ptr) /\ BoxesAt(r, n, ptr)
  BY DEF BoxesInv
<1>2. PICK H, T, U, Q, F, k : /\ H = Held(r, n, ptr) /\ T = InTable /\ U = Freed /\ Q = Queued
                              /\ F = alloc.free /\ k = Holder(r, n)
  OBVIOUS
<1>3. Partition(F, H, T, U, Q)
  BY <1>1, <1>2 DEF BoxesAt
<1>4. /\ DOMAIN Places = 1..10
      /\ Places[1] = F /\ Places[7] = T /\ Places[9] = U /\ Places[10] = Q
      /\ k \in {2, 3, 4, 5, 6, 8}
      /\ \A i \in {2, 3, 4, 5, 6, 8} : Places[i] = IF i = k THEN H ELSE {}
  BY <1>1, <1>2, PlaceOfBox
<1>5. ASSUME NEW i \in 1..10, NEW p \in Places[i]
      PROVE  \/ i = 1 /\ p \in F
             \/ i = k /\ p \in H
             \/ i = 7 /\ p \in T
             \/ i = 9 /\ p \in U
             \/ i = 10 /\ p \in Q
  <2>1. i \in {2, 3, 4, 5, 6, 8} \/ i = 1 \/ i = 7 \/ i = 9 \/ i = 10
    OBVIOUS
  <2>2. QED
    BY <1>4, <2>1
<1>6. \A i, j \in 1..10 : i # j => Places[i] \cap Places[j] = {}
  <2> SUFFICES ASSUME NEW i \in 1..10, NEW j \in 1..10, i # j, NEW p, p \in Places[i],
         p \in Places[j]
               PROVE  FALSE
    OBVIOUS
  <2>1. \/ i = 1 /\ p \in F
        \/ i = k /\ p \in H
        \/ i = 7 /\ p \in T
        \/ i = 9 /\ p \in U
        \/ i = 10 /\ p \in Q
    BY <1>5
  <2>2. \/ j = 1 /\ p \in F
        \/ j = k /\ p \in H
        \/ j = 7 /\ p \in T
        \/ j = 9 /\ p \in U
        \/ j = 10 /\ p \in Q
    BY <1>5
  <2>3. QED
    BY <1>3, <2>1, <2>2 DEF Partition
<1>7. \A p : p \in UNION {Places[i] : i \in 1..10} <=> p \in Pointers
  <2>1. ASSUME NEW p \in UNION {Places[i] : i \in 1..10}
        PROVE  p \in Pointers
    <3>1. PICK i \in 1..10 : p \in Places[i]
      BY <2>1
    <3>2. QED
      BY <1>3, <1>5, <3>1 DEF Partition
  <2>2. ASSUME NEW p \in Pointers
        PROVE  \E i \in 1..10 : p \in Places[i]
    <3>1. p \in F \/ p \in H \/ p \in T \/ p \in U \/ p \in Q
      BY <1>3 DEF Partition
    <3>2. k \in 1..10 /\ Places[k] = H
      BY <1>4
    <3>3. QED
      BY <1>4, <3>1, <3>2
  <2>3. QED
    BY <2>1, <2>2
<1>8. QED
  BY <1>4, <1>6, <1>7 DEF BoxesAccountedFor

\* BoxesAccountedFor, for any number of boxes, keys and values of every length
\* that the host may send (hb_upd_controller.sv, transmission_subsystem.sv):
\* no box is lost on the way of an update or back, and none is given to two.
THEOREM UpdateBoxesAccountedFor ==
  Spec => []BoxesAccountedFor
<1>1. Init => BoxesInv
  BY BoxesInit DEF BoxesInv
<1>2. BoxesInv /\ [Next]_vars => BoxesInv'
  BY BoxesNext
<1>3. BoxesInv => BoxesAccountedFor
  BY BoxesAreAccountedFor
<1>4. QED
  BY <1>1, <1>2, <1>3, PTL DEF Spec

\* No value is of more than n words: n boxes of 64 bytes hold it.
WordsAtMost(n) == \A len \in Lengths : Boxes(len) <= n

LEMMA RequestIsGone ==
  ASSUME BoxesInv, WordsAtMost(5), request = None
  PROVE  /\ parser.state = "ST_IDLE" /\ fifo_value = <<>> /\ fifo_store_value = <<>>
         /\ fe.state = "ST_IDLE" /\ fe.launch_state = "ST_LAUNCH_IDLE"
         /\ ~fe.launch_on /\ ~fe.fifo_value_ready
         /\ ~fe.alloc_busy /\ ~alloc.valid
<1>1. PICK r, n, v, m, ptr : Ages(r, n, v, m, ptr)
  BY DEF BoxesInv
<1>2. /\ r \in AnyRequest /\ n \in Nat /\ v \in Source /\ m \in Nat
      /\ ParserAt(r, n) /\ AllocAt(r, n, ptr) /\ FrontEndAt(r, n, ptr)
      /\ FifoAt(v, m) /\ LauncherAt(v, m, ptr) /\ StoreAt(v, m, ptr)
      /\ RequestAt(r, n) /\ Together(r, n, v, m)
  BY <1>1 DEF Ages, PathAt
<1>3. n >= KeyAge(r) + 6
  BY <1>2 DEF RequestAt
<1>4. PICK b, w : b = Beats(r.len) /\ w = Boxes(v.len)
  OBVIOUS
<1>5. b \in 1..9 /\ w \in 1..8
  BY <1>2, <1>4, RequestFits, SourceFits, LengthsFit
<1>6. Insert(r) => n >= 11 /\ m = n /\ w <= 5 /\ b <= 6
  <2> SUFFICES ASSUME Insert(r) PROVE n >= 11 /\ m = n /\ w <= 5 /\ b <= 6
    OBVIOUS
  <2>1. n >= 11
    BY <1>2, <1>3 DEF KeyAge
  <2>2. m = n /\ v.len = r.len
    BY <1>2, <2>1 DEF Together
  <2>3. r.len \in Lengths
    BY <1>2 DEF AnyRequest, Insert
  <2>4. w <= 5
    BY <1>4, <2>2, <2>3 DEF WordsAtMost
  <2>5. b <= w + 1
    <3>1. v.len \in FitLength /\ b = Beats(v.len)
      BY <1>2, <1>4, <2>2, SourceFits
    <3>2. v.len <= 40 \/ v.len > 40
      BY <3>1 DEF FitLength
    <3>3. QED
      BY <1>4, <1>5, <3>1, <3>2, LengthsFit
  <2>6. QED
    BY <1>5, <2>1, <2>2, <2>4, <2>5
<1>7. ~Insert(r) => n >= 9 /\ m >= 21
  BY <1>2, <1>3 DEF KeyAge, Together
<1>8. n >= 9
  BY <1>2, <1>6, <1>7
<1>9. m > w + 5 /\ m > 5
  BY <1>2, <1>5, <1>6, <1>7
<1>10. parser.state = "ST_IDLE"
  <2>1. ~(Insert(r) /\ n \in 2..b)
    BY <1>2, <1>5, <1>6
  <2>2. QED
    BY <1>2, <1>4, <1>8, <2>1 DEF ParserAt
<1>11. fe.state = "ST_IDLE" /\ ~fe.alloc_busy /\ ~alloc.valid
  BY <1>2, <1>8 DEF FrontEndAt, AllocAt
<1>12. fifo_value = <<>>
  <2>1. m \notin (FirstAge(v) + 1)..(IF w = 1 THEN 5 ELSE w + 3)
    BY <1>2, <1>5, <1>9 DEF FirstAge
  <2>2. QED
    BY <1>2, <1>4, <2>1 DEF FifoAt
<1>13. fifo_store_value = <<>>
  <2>1. m \notin 6..(w + 5)
    BY <1>2, <1>5, <1>9
  <2>2. QED
    BY <1>2, <1>4, <2>1 DEF StoreAt
<1>14. fe.launch_state = "ST_LAUNCH_IDLE" /\ ~fe.launch_on /\ ~fe.fifo_value_ready
  <2>1. m \notin 5..(w + 4) /\ m # 4
    BY <1>2, <1>5, <1>9
  <2>2. QED
    BY <1>2, <1>4, <2>1 DEF LauncherAt
<1>15. QED
  BY <1>10, <1>11, <1>12, <1>13, <1>14

\* NothingLeftBehind, for values of up to five words (front_end_transit.sv):
\* when a request is acknowledged, no word, state or signal of it is left for
\* the next one to take up.  The acknowledgement may come eleven cycles after
\* the request, and the sixth word is still on its way then.
THEOREM UpdateLeavesNothingBehind ==
  ASSUME WordsAtMost(5)
  PROVE  Spec => []NothingLeftBehind
<1>1. Init => BoxesInv
  BY BoxesInit DEF BoxesInv
<1>2. BoxesInv /\ [Next]_vars => BoxesInv'
  BY BoxesNext
<1>3. BoxesInv => NothingLeftBehind
  BY RequestIsGone DEF NothingLeftBehind
<1>4. QED
  BY <1>1, <1>2, <1>3, PTL DEF Spec

-----------------------------------------------------------------------------
(* The service: what the memory has of a value, and what the table shows of *)
(* the memory.                                                              *)

FirstWords(v, k) == [i \in 1..k |-> Words(v)[i]]

\* The words of a value that are in the memory at its age m >= 7.
Written(v, m) == IF m - 6 <= Boxes(v.len) THEN m - 6 ELSE Boxes(v.len)

MemoryAt(r, n, v, m, ptr) ==
    /\ memory = [p \in Pointers |-> memory[p]]
    /\ Insert(r) /\ n >= 7 =>
         memory[ptr] = [len |-> v.len, words |-> FirstWords(v, Written(v, m))]

LEMMA AllWords ==
  ASSUME NEW v \in Source
  PROVE  Words(v) = FirstWords(v, Boxes(v.len))
<1>1. v.len \in FitLength /\ v.len \in Nat
  BY DEF Source, FitLength
<1>2. CASE v.len <= 40
  <2>1. Words(v) = << <<<<v.val, 1>>, Nothing>> >> /\ Boxes(v.len) = 1
    BY <1>1, <1>2, LengthsFit DEF Words, BytesInFirst
  <2>2. PICK x : x = <<<<v.val, 1>>, Nothing>>
    OBVIOUS
  <2>3. Words(v) = [i \in 1..1 |-> x]
    BY <2>1, <2>2
  <2>4. QED
    BY <2>1, <2>3 DEF FirstWords
<1>3. CASE v.len > 40
  <2>1. Beats(v.len) - 1 = Boxes(v.len)
    BY <1>1, <1>3, LengthsFit
  <2>2. ~(v.len <= BytesInFirst)
    BY <1>1, <1>3 DEF BytesInFirst
  <2>3. Words(v) = [k \in 1..Boxes(v.len) |-> <<<<v.val, k>>, <<v.val, k + 1>>>>]
    BY <2>1, <2>2 DEF Words
  <2>4. QED
    BY <2>3 DEF FirstWords
<1>4. QED
  BY <1>1, <1>2, <1>3

LEMMA OneMoreWord ==
  ASSUME NEW v, NEW k \in Nat
  PROVE  /\ Append(FirstWords(v, k), Words(v)[k + 1]) = FirstWords(v, k + 1)
         /\ FirstWords(v, 1) = <<Words(v)[1]>>
<1>1. PICK w : w = [i \in 1..(k + 1) |-> Words(v)[i]]
  OBVIOUS
<1>2. FirstWords(v, k) = [i \in 1..k |-> w[i]] /\ w[k + 1] = Words(v)[k + 1]
  BY <1>1 DEF FirstWords
<1>3. PICK W : W = {w[i] : i \in 1..(k + 1)}
  OBVIOUS
<1>4. PICK s : s = [i \in 1..k |-> w[i]]
  OBVIOUS
<1>5. s \in Seq(W) /\ Len(s) = k /\ w[k + 1] \in W
  BY <1>3, <1>4
<1>6. w \in Seq(W) /\ Len(w) = k + 1
  BY <1>1, <1>3
<1>7. PICK t : t = Append(s, w[k + 1])
  OBVIOUS
<1>8. /\ t \in Seq(W) /\ Len(t) = k + 1
      /\ \A i \in 1..k : t[i] = s[i]
      /\ t[k + 1] = w[k + 1]
  BY <1>5, <1>7, AppendProperties
<1>9. \A i \in 1..(k + 1) : t[i] = w[i]
  BY <1>4, <1>8
<1>10. t = w
  BY <1>6, <1>8, <1>9, SeqEqual
<1>11. FirstWords(v, 1) = <<Words(v)[1]>>
  BY DEF FirstWords
<1>12. QED
  BY <1>1, <1>2, <1>4, <1>7, <1>10, <1>11 DEF FirstWords

\* What a cycle does to the memory.
LEMMA MemoryMoves ==
  ASSUME NEW r, NEW n, NEW v, NEW m, NEW ptr, Ages(r, n, v, m, ptr), MemoryClock
  PROVE  /\ m \notin 6..(Boxes(v.len) + 5) => memory' = memory
         /\ m = 6 => memory' = [memory EXCEPT ![ptr] = [len |-> v.len, words |-> <<Words(v)[1]>>]]
         /\ m \in 7..(Boxes(v.len) + 5) =>
              memory' = [memory EXCEPT ![ptr] =
                           [memory[ptr] EXCEPT !.words = Append(@, Words(v)[m - 5])]]
<1>1. /\ v \in Source /\ m \in Nat /\ StoreAt(v, m, ptr) /\ v.len \in FitLength
      /\ Boxes(v.len) \in 1..8
  BY SourceFits DEF Ages, PathAt
<1>2. v.len # 0
  BY <1>1 DEF FitLength
<1>3. CASE m \notin 6..(Boxes(v.len) + 5)
  <2>1. fifo_store_value = <<>>
    BY <1>1, <1>3 DEF StoreAt
  <2>2. memory' = memory
    BY <2>1 DEF MemoryClock
  <2>3. m # 6 /\ m \notin 7..(Boxes(v.len) + 5)
    BY <1>1, <1>3
  <2>4. QED
    BY <2>2, <2>3
<1>4. CASE m \in 6..(Boxes(v.len) + 5)
  <2>1. PICK w, x, h : /\ w = Words(v)[m - 5] /\ x = (IF m = 6 THEN v.len ELSE 0)
                       /\ h = [pointer |-> ptr, len |-> x, word |-> w]
    OBVIOUS
  <2>2. fifo_store_value = <<h>>
    BY <1>1, <1>4, <2>1 DEF StoreAt
  <2>3. memory' = [memory EXCEPT ![ptr] =
                     IF x # 0 THEN [len |-> x, words |-> <<w>>]
                     ELSE [memory[ptr] EXCEPT !.words = Append(@, w)]]
    <3>1. fifo_store_value # <<>> /\ Head(fifo_store_value) = h
      BY <2>2
    <3>2. h.pointer = ptr /\ h.len = x /\ h.word = w
      BY <2>1
    <3>3. QED
      BY <3>1, <3>2 DEF MemoryClock
  <2>4. CASE m = 6
    <3>1. x = v.len /\ w = Words(v)[1] /\ x # 0
      BY <1>2, <2>1, <2>4
    <3>2. memory' = [memory EXCEPT ![ptr] = [len |-> v.len, words |-> <<Words(v)[1]>>]]
      BY <2>3, <3>1
    <3>3. m \notin 7..(Boxes(v.len) + 5)
      BY <2>4
    <3>4. QED
      BY <1>4, <3>2, <3>3
  <2>5. CASE m # 6
    <3>1. x = 0 /\ m \in 7..(Boxes(v.len) + 5)
      BY <1>1, <1>4, <2>1, <2>5
    <3>2. QED
      BY <2>1, <2>3, <2>5, <3>1
  <2>6. QED
    BY <2>4, <2>5
<1>5. m = 6 => m \in 6..(Boxes(v.len) + 5)
  BY <1>1
<1>6. QED
  BY <1>1, <1>3, <1>4, <1>5

LEMMA MemorySteps ==
  ASSUME NEW r, NEW n, NEW v, NEW m, NEW ptr, Ages(r, n, v, m, ptr), MemoryClock,
         MemoryAt(r, n, v, m, ptr), NEW np, np = NextBox(r, n, ptr)
  PROVE  MemoryAt(r, n + 1, NextValue(r, n, v), NextAge(r, n, m), np)'
<1> DEFINE B == Boxes(v.len)
<1>1. /\ r \in AnyRequest /\ n \in Nat /\ m \in Nat /\ v \in Source /\ B \in 1..8
      /\ Together(r, n, v, m) /\ AllocAt(r, n, ptr)
  BY SourceFits DEF Ages, PathAt
<1>2. memory = [p \in Pointers |-> memory[p]]
  BY DEF MemoryAt
<1>3. memory' = [p \in Pointers |-> memory'[p]]
  <2>1. m \in Nat /\ (m \notin 6..(B + 5) \/ m = 6 \/ m \in 7..(B + 5))
    BY <1>1
  <2>2. \/ memory' = memory
        \/ \E x : memory' = [memory EXCEPT ![ptr] = x]
    BY <2>1, MemoryMoves
  <2>3. CASE memory' = memory
    BY <1>2, <2>3
  <2>4. CASE \E x : memory' = [memory EXCEPT ![ptr] = x]
    <3>1. PICK x : memory' = [memory EXCEPT ![ptr] = x]
      BY <2>4
    <3>2. DOMAIN memory' = Pointers
      BY <1>2, <3>1
    <3>3. QED
      BY <3>1, <3>2
  <2>5. QED
    BY <2>2, <2>3, <2>4
<1>4. ASSUME Insert(r), n + 1 >= 7
      PROVE  /\ NextValue(r, n, v) = v /\ NextAge(r, n, m) = m + 1 /\ np = ptr
             /\ memory'[ptr] = [len |-> v.len, words |-> FirstWords(v, Written(v, m + 1))]
  <2>1. n \in Nat /\ n >= 6 /\ m = n
    BY <1>1, <1>4 DEF Together
  <2>2. NextValue(r, n, v) = v /\ NextAge(r, n, m) = m + 1 /\ np = ptr
    BY <2>1 DEF NextValue, NextAge, NextBox
  <2>3. \A x : memory' = [memory EXCEPT ![ptr] = x] => memory'[ptr] = x
    <3>1. ptr \in Pointers
      BY <1>1, <1>4, <2>1 DEF AllocAt
    <3>2. QED
      BY <1>2, <3>1
  <2>4. CASE m = 6
    <3>1. memory'[ptr] = [len |-> v.len, words |-> <<Words(v)[1]>>]
      <4>1. PICK x : x = [len |-> v.len, words |-> <<Words(v)[1]>>]
        OBVIOUS
      <4>2. memory' = [memory EXCEPT ![ptr] = x]
        BY <2>4, <4>1, MemoryMoves
      <4>3. QED
        BY <2>3, <4>1, <4>2
    <3>2. Written(v, m + 1) = 1
      BY <1>1, <2>4 DEF Written
    <3>3. FirstWords(v, 1) = <<Words(v)[1]>>
      BY OneMoreWord
    <3>4. QED
      BY <2>2, <3>1, <3>2, <3>3
  <2>5. CASE m \in 7..(B + 5)
    <3>1. PICK k, x : k = m - 6 /\ x = Words(v)[m - 5]
      OBVIOUS
    <3>2. Written(v, m) = k /\ Written(v, m + 1) = k + 1 /\ k \in Nat /\ x = Words(v)[k + 1]
      BY <1>1, <2>5, <3>1 DEF Written
    <3>3. memory[ptr] = [len |-> v.len, words |-> FirstWords(v, k)]
      BY <1>4, <2>1, <2>5, <3>2 DEF MemoryAt
    <3>4. memory'[ptr] = [memory[ptr] EXCEPT !.words = Append(@, x)]
      <4>1. PICK y : y = [memory[ptr] EXCEPT !.words = Append(@, x)]
        OBVIOUS
      <4>2. memory' = [memory EXCEPT ![ptr] = y]
        BY <2>5, <3>1, <4>1, MemoryMoves
      <4>3. QED
        BY <2>3, <4>1, <4>2
    <3>5. PICK f, g : f = FirstWords(v, k) /\ g = FirstWords(v, k + 1)
      OBVIOUS
    <3>6. Append(f, x) = g
      <4>1. Append(FirstWords(v, k), Words(v)[k + 1]) = FirstWords(v, k + 1)
        <5>1. k \in Nat
          BY <3>2
        <5>2. QED
          BY <5>1, OneMoreWord, Zenon
      <4>2. QED
        BY <3>2, <3>5, <4>1
    <3>7. memory'[ptr] = [len |-> v.len, words |-> g]
      BY <3>3, <3>4, <3>5, <3>6
    <3>8. QED
      BY <2>2, <3>2, <3>5, <3>7
  <2>6. CASE m > B + 5
    <3>1. Written(v, m) = B /\ Written(v, m + 1) = B
      BY <1>1, <2>6 DEF Written
    <3>2. memory' = memory
      BY <1>1, <2>6, MemoryMoves
    <3>3. n >= 7
      BY <1>1, <2>1, <2>6
    <3>4. QED
      BY <1>4, <2>2, <3>1, <3>2, <3>3 DEF MemoryAt
  <2>7. QED
    BY <1>1, <2>1, <2>4, <2>5, <2>6
<1>5. QED
  BY <1>3, <1>4 DEF MemoryAt

\* A value of up to three words is in the memory when the table has its key.
LEMMA MemoryKeeps ==
  ASSUME NEW r, NEW n, NEW v, NEW m, NEW ptr, Ages(r, n, v, m, ptr), MemoryClock,
         Boxes(v.len) <= 3
  PROVE  \/ memory' = memory
         \/ /\ Insert(r) /\ n \in 6..8 /\ ptr \in Held(r, n, ptr)
            /\ \E x : memory' = [memory EXCEPT ![ptr] = x]
<1>1. /\ r \in AnyRequest /\ n \in Nat /\ m \in Nat /\ v \in Source /\ Boxes(v.len) \in 1..8
      /\ Together(r, n, v, m) /\ RequestAt(r, n) /\ TableAt(r, n, ptr)
  BY SourceFits DEF Ages, PathAt
<1>2. CASE m \notin 6..(Boxes(v.len) + 5)
  BY <1>2, MemoryMoves
<1>3. CASE m \in 6..(Boxes(v.len) + 5)
  <2>1. Insert(r) /\ n \in 6..8
    BY <1>1, <1>3 DEF Together
  <2>2. \E x : memory' = [memory EXCEPT ![ptr] = x]
    BY <1>1, <1>3, MemoryMoves
  <2>3. n = 8 => Waits
    <3>1. n = 8 => KeyAge(r) = 5 /\ request # None
      BY <1>1, <2>1 DEF KeyAge, RequestAt
    <3>2. n = 8 => ~Answers /\ ~upd.ack_valid
      BY <1>1, <3>1 DEF TableAt
    <3>3. QED
      BY <1>1, <3>1, <3>2 DEF RequestAt
  <2>4. ptr \in Held(r, n, ptr)
    BY <2>1, <2>3 DEF Held
  <2>5. QED
    BY <2>1, <2>2, <2>4
<1>4. QED
  BY <1>2, <1>3

\* What the table shows of the memory, when no key changes its box and when one does.
LEMMA ContentOf ==
  ASSUME NEW r, NEW n, NEW v, NEW m, NEW ptr, Ages(r, n, v, m, ptr), BoxesAt(r, n, ptr),
         BoxTypes, MemoryClock, MemoryAt(r, n, v, m, ptr), Boxes(v.len) <= 3
  PROVE  \A k \in Keys : table[k] # NoPointer => memory'[table[k]] = memory[table[k]]
<1>1. CASE memory' = memory
  BY <1>1
<1>2. CASE \E x : memory' = [memory EXCEPT ![ptr] = x] /\ ptr \in Held(r, n, ptr)
  <2>1. PICK x : memory' = [memory EXCEPT ![ptr] = x]
    BY <1>2
  <2>2. ASSUME NEW k \in Keys, table[k] # NoPointer
        PROVE  memory'[table[k]] = memory[table[k]]
    <3>1. table[k] \in InTable /\ table[k] \in Pointers
      BY <2>2 DEF InTable, BoxTypes
    <3>2. ptr \notin InTable
      BY <1>2 DEF BoxesAt, Partition
    <3>3. table[k] # ptr
      BY <3>1, <3>2
    <3>4. memory = [p \in Pointers |-> memory[p]]
      BY DEF MemoryAt
    <3>5. QED
      BY <2>1, <3>1, <3>3, <3>4
  <2>3. QED
    BY <2>2
<1>3. QED
  BY <1>1, <1>2, MemoryKeeps

LEMMA ContentStays ==
  ASSUME NEW r, NEW n, NEW v, NEW m, NEW ptr, Ages(r, n, v, m, ptr), BoxesAt(r, n, ptr),
         BoxTypes, MemoryClock, MemoryAt(r, n, v, m, ptr), Boxes(v.len) <= 3, table' = table
  PROVE  Content' = Content
BY ContentOf DEF Content

LEMMA StoredIs ==
  ASSUME NEW r \in AnyRequest, Insert(r), NEW v \in Source, v.val = r.val, v.len = r.len
  PROVE  Stored(r) = [len |-> v.len, words |-> FirstWords(v, Boxes(v.len))]
<1>1. Words(r) = Words(v)
  BY DEF Words
<1>2. QED
  BY <1>1, AllWords DEF Stored

LEMMA ContentServed ==
  ASSUME NEW r, NEW n, NEW v, NEW m, NEW ptr, Ages(r, n, v, m, ptr), BoxesAt(r, n, ptr),
         BoxTypes, MemoryClock, MemoryAt(r, n, v, m, ptr), Boxes(v.len) <= 3,
         Serves(r, n, ptr)
  PROVE  /\ r.key \in Keys
         /\ Content' = [Content EXCEPT ![r.key] = IF Insert(r) THEN Stored(r) ELSE None]
<1>1. /\ r \in AnyRequest /\ n \in Nat /\ m \in Nat /\ v \in Source /\ Boxes(v.len) \in 1..8
      /\ Together(r, n, v, m) /\ AllocAt(r, n, ptr)
      /\ KeyAge(r) = IF Insert(r) THEN 5 ELSE 3
  BY SourceFits, RequestFits DEF Ages, PathAt
<1>2. /\ r.key \in Keys /\ n >= KeyAge(r) + 3
      /\ table' = [table EXCEPT ![r.key] = IF Insert(r) THEN ptr ELSE NoPointer]
  BY DEF Serves
<1>3. table \in [Keys -> Pointers \cup {NoPointer}]
  BY DEF BoxTypes
<1>4. ASSUME Insert(r)
      PROVE  ptr # NoPointer /\ memory'[ptr] = Stored(r)
  <2>1. n >= 8 /\ m = n /\ v.val = r.val /\ v.len = r.len
    BY <1>1, <1>2, <1>4 DEF Together
  <2>2. NextValue(r, n, v) = v /\ NextAge(r, n, m) = m + 1 /\ ptr = NextBox(r, n, ptr)
    BY <1>1, <2>1 DEF NextValue, NextAge, NextBox
  <2>3. MemoryAt(r, n + 1, NextValue(r, n, v), NextAge(r, n, m), ptr)'
    BY <2>2, MemorySteps
  <2>4. MemoryAt(r, n + 1, v, m + 1, ptr)'
    BY <2>2, <2>3
  <2>5. memory'[ptr] = [len |-> v.len, words |-> FirstWords(v, Written(v, m + 1))]
    BY <1>1, <1>4, <2>1, <2>4 DEF MemoryAt
  <2>6. Written(v, m + 1) = Boxes(v.len)
    BY <1>1, <2>1 DEF Written
  <2>7. Stored(r) = [len |-> v.len, words |-> FirstWords(v, Boxes(v.len))]
    BY <1>1, <1>4, <2>1, StoredIs
  <2>8. ptr # NoPointer
    BY <1>1, <1>4, <2>1 DEF AllocAt
  <2>9. QED
    BY <2>5, <2>6, <2>7, <2>8
<1>5. ASSUME NEW k \in Keys
      PROVE  Content'[k] = IF k = r.key THEN IF Insert(r) THEN Stored(r) ELSE None ELSE Content[k]
  <2>1. CASE k = r.key
    <3>1. table'[k] = IF Insert(r) THEN ptr ELSE NoPointer
      BY <1>2, <1>3, <2>1
    <3>2. QED
      BY <1>4, <2>1, <3>1 DEF Content
  <2>2. CASE k # r.key
    <3>1. table'[k] = table[k]
      BY <1>2, <1>3, <2>2
    <3>2. table[k] # NoPointer => memory'[table[k]] = memory[table[k]]
      BY ContentOf
    <3>3. QED
      BY <2>2, <3>1, <3>2 DEF Content
  <2>3. QED
    BY <2>1, <2>2
<1>6. PICK C, D, x : C = Content /\ D = Content' /\ x = (IF Insert(r) THEN Stored(r) ELSE None)
  OBVIOUS
<1>7. C = [k \in Keys |-> C[k]] /\ D = [k \in Keys |-> D[k]]
  BY <1>6 DEF Content
<1>8. \A k \in Keys : D[k] = IF k = r.key THEN x ELSE C[k]
  BY <1>5, <1>6
<1>9. D = [C EXCEPT ![r.key] = x]
  BY <1>7, <1>8
<1>10. QED
  BY <1>2, <1>6, <1>9

\* A cycle in which the host waits is a step of the service or none.
LEMMA WaitIsService ==
  ASSUME NEW r, NEW n, NEW v, NEW m, NEW ptr, Ages(r, n, v, m, ptr), BoxesAt(r, n, ptr),
         BoxTypes, MemoryAt(r, n, v, m, ptr), Boxes(v.len) <= 3,
         NEW ack_ready, NEW serve, NEW free_taken, Clock(ack_ready, serve, free_taken),
         KeepAsking(ack_ready)
  PROVE  Service!Serve \/ Service!Answer \/ (Content' = Content /\ Pending' = Pending)
<1>1. /\ r \in AnyRequest /\ n \in Nat /\ TableAt(r, n, ptr) /\ RequestAt(r, n)
      /\ KeyAge(r) = IF Insert(r) THEN 5 ELSE 3
  BY RequestFits DEF Ages, PathAt
<1>2. /\ MemoryClock /\ HashClock(ack_ready, serve)
      /\ request' = IF upd.ack_valid /\ ack_ready THEN None ELSE request
      /\ upd'.ack_valid <=> (TakesAnswer(ack_ready) \/ (upd.ack_valid /\ ~ack_ready))
  BY DEF Clock, KeepAsking, UpdClock
<1>3. \/ ~TakesAnswer(ack_ready) /\ (Reads(r, n, ptr) \/ Serves(r, n, ptr) \/ Stays(n, r))
      \/ TakesAnswer(ack_ready) /\ TakenNow(r, n)
  BY <1>2, HashMoves
<1>4. CASE ~TakesAnswer(ack_ready) /\ Serves(r, n, ptr)
  <2>1. ~upd.ack_valid /\ ~Answers /\ Waits
    BY <1>1, <1>4 DEF Serves, TableAt
  <2>2. request # None /\ request = r /\ request' = r
    BY <1>1, <1>2, <2>1 DEF RequestAt
  <2>3. ~Served /\ Served'
    <3>1. Answers'
      BY <1>1, <1>4, AnswerIsSome DEF Serves, Answers
    <3>2. QED
      BY <2>1, <3>1 DEF Served, Answers
  <2>4. PICK x, c : x = AskedOf(r) /\ c = (IF Insert(r) THEN Stored(r) ELSE None)
    OBVIOUS
  <2>5. Pending = <<x, "asked">> /\ Pending' = <<x, "served">>
    BY <2>2, <2>3, <2>4 DEF Pending
  <2>6. x.key = r.key /\ Service!Effect(x) = c
    BY <2>4 DEF AskedOf, Service!Effect, Insert
  <2>7. Content' = [Content EXCEPT ![r.key] = c]
    BY <1>2, <1>4, <2>4, ContentServed
  <2>8. QED
    BY <2>5, <2>6, <2>7 DEF Service!Serve
<1>5. CASE ~(~TakesAnswer(ack_ready) /\ Serves(r, n, ptr))
  <2>1. table' = table
    BY <1>3, <1>5 DEF Reads, Stays, TakenNow
  <2>2. Content' = Content
    BY <1>2, <2>1, ContentStays
  <2>3. CASE upd.ack_valid /\ ack_ready
    <3>1. request # None /\ request' = None
      BY <1>1, <1>2, <2>3 DEF RequestAt
    <3>2. Served
      BY <2>3 DEF Served
    <3>3. PICK x : x = AskedOf(request)
      OBVIOUS
    <3>4. Pending = <<x, "served">> /\ Pending' = <<>>
      BY <3>1, <3>2, <3>3 DEF Pending
    <3>5. QED
      BY <2>2, <3>4 DEF Service!Answer
  <2>4. CASE ~(upd.ack_valid /\ ack_ready)
    <3>1. request' = request
      BY <1>2, <2>4
    <3>2. Served' <=> Served
      <4>1. CASE TakesAnswer(ack_ready)
        BY <1>2, <4>1 DEF TakesAnswer, Served
      <4>2. CASE ~TakesAnswer(ack_ready) /\ Reads(r, n, ptr)
        BY <1>2, <2>4, <4>2 DEF Reads, Served, Answers
      <4>3. CASE ~TakesAnswer(ack_ready) /\ Stays(n, r)
        BY <1>2, <2>4, <4>3 DEF Stays, Served
      <4>4. QED
        BY <1>3, <1>5, <4>1, <4>2, <4>3
    <3>3. Pending' = Pending
      BY <3>1, <3>2 DEF Pending
    <3>4. QED
      BY <2>2, <3>3
  <2>5. QED
    BY <2>3, <2>4
<1>6. QED
  BY <1>4, <1>5

LEMMA AskIsService ==
  ASSUME NEW r, NEW n, NEW v, NEW m, NEW ptr, Ages(r, n, v, m, ptr), BoxesAt(r, n, ptr),
         BoxTypes, MemoryAt(r, n, v, m, ptr), Boxes(v.len) <= 3,
         NEW ack_ready, NEW serve, NEW free_taken, Clock(ack_ready, serve, free_taken),
         Ask
  PROVE  \E wish \in Service!Request : Service!Ask(wish)
<1>1. RequestAt(r, n) /\ TableAt(r, n, ptr) /\ n \in Nat
  BY DEF Ages, PathAt
<1>2. request = None /\ ~Waits /\ ~Answers /\ ~upd.ack_valid
  BY <1>1 DEF Ask, RequestAt
<1>3. MemoryClock /\ HashClock(ack_ready, serve)
  BY DEF Clock
<1>4. ~TakesAnswer(ack_ready)
  BY <1>2 DEF TakesAnswer, Answers
<1>5. table' = table
  <2>1. Reads(r, n, ptr) \/ Serves(r, n, ptr) \/ Stays(n, r)
    BY <1>3, <1>4, HashMoves
  <2>2. QED
    BY <1>2, <2>1 DEF Reads, Serves, Stays
<1>6. Content' = Content
  BY <1>3, <1>5, ContentStays
<1>7. PICK r2 \in Requests : request' = r2
  BY DEF Ask
<1>8. ~Served'
  <2>1. ~Answers'
    BY HostAsks
  <2>2. ~upd'.ack_valid
    BY <1>2, <1>4 DEF Clock, UpdClock
  <2>3. QED
    BY <2>1, <2>2 DEF Served, Answers
<1>9. r2 # None
  <2>1. r2 \in [op : {0}, key : Keys, val : {None}, len : {0}]
          \/ r2 \in [op : {1}, key : Keys, val : Vals, len : Lengths]
    BY <1>7 DEF Requests
  <2>2. "op" \in DOMAIN r2 /\ "op" \notin DOMAIN None
    BY <2>1 DEF None
  <2>3. QED
    BY <2>2
<1>10. Pending = <<>> /\ Pending' = <<AskedOf(r2), "asked">>
  BY <1>2, <1>7, <1>8, <1>9 DEF Pending
<1>11. AskedOf(r2) \in Service!Request
  <2>1. CASE r2.op = 1
    <3>1. r2.key \in Keys /\ r2.val \in Vals /\ r2.len \in Lengths
      BY <1>7, <2>1 DEF Requests
    <3>2. PICK q \in [val : Vals, len : Lengths] : q = [val |-> r2.val, len |-> r2.len]
      BY <3>1
    <3>3. Stored(q) = Stored(r2)
      BY <3>2 DEF Stored, Words
    <3>4. Stored(r2) \in Value
      BY <3>2, <3>3 DEF Value
    <3>5. QED
      BY <2>1, <3>1, <3>4 DEF AskedOf, Service!Request
  <2>2. CASE r2.op # 1
    BY <1>7, <2>2 DEF AskedOf, Service!Request, Requests
  <2>3. QED
    BY <2>1, <2>2
<1>12. QED
  BY <1>6, <1>10, <1>11 DEF Service!Ask

ServiceInv ==
    /\ BoxTypes
    /\ \E r, n, v, m, ptr : /\ Ages(r, n, v, m, ptr) /\ BoxesAt(r, n, ptr)
                            /\ MemoryAt(r, n, v, m, ptr) /\ Boxes(v.len) <= 3

LEMMA ServiceInit ==
  ASSUME Init
  PROVE  ServiceInv /\ Service!Init
<1>1. PICK r, n, v, m, ptr : /\ Ages(r, n, v, m, ptr) /\ BoxesAt(r, n, ptr)
                             /\ ~Insert(r) /\ Boxes(v.len) <= 3
  BY BoxesInit
<1>2. BoxTypes
  BY BoxesInit
<1>3. MemoryAt(r, n, v, m, ptr)
  BY <1>1 DEF MemoryAt, Init
<1>4. Content = [k \in Keys |-> None] /\ Pending = <<>>
  BY DEF Init, Content, Pending
<1>5. QED
  BY <1>1, <1>2, <1>3, <1>4 DEF ServiceInv, Service!Init

LEMMA ServiceNext ==
  ASSUME ServiceInv, [Next]_vars, WordsAtMost(3)
  PROVE  ServiceInv' /\ [Service!Next]_Service!vars
<1>1. PICK r, n, v, m, ptr : /\ Ages(r, n, v, m, ptr) /\ BoxesAt(r, n, ptr)
                             /\ MemoryAt(r, n, v, m, ptr) /\ Boxes(v.len) <= 3
  BY DEF ServiceInv
<1>2. BoxTypes
  BY DEF ServiceInv
<1>3. CASE Next
  <2>1. PICK ack_ready \in BOOLEAN, serve \in BOOLEAN, free_taken \in BOOLEAN :
          Clock(ack_ready, serve, free_taken)
    BY <1>3 DEF Next
  <2>2. MemoryClock
    BY <2>1 DEF Clock
  <2>3. PICK np, w, a : np = NextBox(r, n, ptr) /\ w = NextValue(r, n, v) /\ a = NextAge(r, n, m)
    OBVIOUS
  <2>4. /\ BoxTypes'
        /\ KeepAsking(ack_ready) => Ages(r, n + 1, w, a, np)' /\ BoxesAt(r, n + 1, np)'
        /\ Ask => \E r2 \in AnyRequest : Ages(r2, 0, v, m + 1, ptr)' /\ BoxesAt(r2, 0, ptr)'
    BY <1>1, <1>2, <2>1, <2>3, BoxesMoveOn
  <2>5. MemoryAt(r, n + 1, w, a, np)'
    BY <1>1, <2>2, <2>3, MemorySteps
  <2>6. CASE KeepAsking(ack_ready)
    <3>1. Boxes(w.len) <= 3
      <4>1. CASE Insert(r) /\ n = 1
        <5>1. r.len \in Lengths
          BY <1>1, <4>1 DEF Ages, AnyRequest, Insert
        <5>2. w.len = r.len
          BY <2>3, <4>1 DEF NextValue, ValueOf
        <5>3. QED
          BY <5>1, <5>2 DEF WordsAtMost
      <4>2. CASE ~(Insert(r) /\ n = 1)
        BY <1>1, <2>3, <4>2 DEF NextValue
      <4>3. QED
        BY <4>1, <4>2
    <3>2. ServiceInv'
      BY <2>4, <2>5, <2>6, <3>1 DEF ServiceInv
    <3>3. Service!Serve \/ Service!Answer \/ (Content' = Content /\ Pending' = Pending)
      BY <1>1, <1>2, <2>1, <2>6, WaitIsService
    <3>4. QED
      BY <3>2, <3>3 DEF Service!Next, Service!vars
  <2>7. CASE Ask
    <3>1. PICK r2 \in AnyRequest : Ages(r2, 0, v, m + 1, ptr)' /\ BoxesAt(r2, 0, ptr)'
      BY <2>4, <2>7
    <3>2. MemoryAt(r2, 0, v, m + 1, ptr)'
      BY <2>5 DEF MemoryAt
    <3>3. ServiceInv'
      BY <1>1, <2>4, <3>1, <3>2 DEF ServiceInv
    <3>4. \E wish \in Service!Request : Service!Ask(wish)
      BY <1>1, <1>2, <2>1, <2>7, AskIsService
    <3>5. QED
      BY <3>3, <3>4 DEF Service!Next
  <2>8. QED
    BY <2>1, <2>6, <2>7 DEF Clock, HostStep
<1>4. CASE vars' = vars
  <2>1. BoxTypes' /\ Ages(r, n, v, m, ptr)' /\ BoxesAt(r, n, ptr)'
    BY <1>1, <1>2, <1>4, BoxesStutter
  <2>2. MemoryAt(r, n, v, m, ptr)'
    BY <1>1, <1>4 DEF MemoryAt, vars
  <2>3. Content' = Content /\ Pending' = Pending
    BY <1>4 DEF vars, Content, Pending, Served
  <2>4. QED
    BY <1>1, <2>1, <2>2, <2>3 DEF ServiceInv, Service!vars
<1>5. QED
  BY <1>3, <1>4

\* IsService, for values of up to three words, any number of boxes, and any
\* pace of the table (process_stack.sv): key and value take different ways, and
\* when the table shows the key, the memory has all of the value.  Longer
\* values can still be on their way then.
THEOREM UpdateIsService ==
  ASSUME WordsAtMost(3)
  PROVE  Spec => IsService
<1>1. Init => ServiceInv /\ Service!Init
  BY ServiceInit
<1>2. ServiceInv /\ [Next]_vars => ServiceInv' /\ [Service!Next]_Service!vars
  BY ServiceNext
<1>3. QED
  BY <1>1, <1>2, PTL DEF Spec, IsService, Service!Spec
=============================================================================
