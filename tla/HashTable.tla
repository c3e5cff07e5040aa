------------------------------ MODULE HashTable ------------------------------
(***************************************************************************)
(* plugin_src/ip_hls/hash_table/hash_table.cpp: a cuckoo hash table with   *)
(* NUM_TABLES tables, kept in the card's memory.  One call of the kernel   *)
(* serves at most one request and is one step.                             *)
(*                                                                         *)
(* The tabulation hash is a constant function.  Requests carry no source   *)
(* field: the kernel copies it to the answer.                              *)
(*                                                                         *)
(* Definitions named Fault... are deliberate mistakes for mutation runs.   *)
(***************************************************************************)
EXTENDS Integers, Sequences

CONSTANTS
    Keys,
    Values,         \* numbers: a failed delete answers 0
    NumTables,      \* NUM_TABLES
    TableSize,      \* TABLE_SIZE
    MaxTrials,      \* MAX_TRIALS
    Hash,           \* Hash[i][key], table i's position for the key
    CountMod,       \* 2^16, the width of the failure counter
    LupCap, UpdCap  \* bounds on the requests that wait

Table == 0..(NumTables - 1)
Pos == 0..(TableSize - 1)

ASSUME HashTableAssumption ==
    /\ NumTables \in Nat \ {0, 1} /\ TableSize \in Nat \ {0} /\ MaxTrials \in Nat \ {0}
    /\ Hash \in [Table -> [Keys -> Pos]]
    /\ Values \subseteq Nat /\ CountMod \in Nat \ {0}
    /\ LupCap \in Nat /\ UpdCap \in Nat

Invalid == [valid |-> FALSE]
Entry == [valid : {TRUE}, key : Keys, value : Values]
NoAnswer == [op |-> "none"]     \* the answer streams before the first answer
UpdReq == [op : {"KV_INSERT"}, key : Keys, value : Values] \cup [op : {"KV_DELETE"}, key : Keys]

VARIABLES
    cuckooTables,
    victimBit,                  \* static: it keeps its value between calls
    insertFailureCounter, regInsertFailureCount,
    s_axis_lup_req, s_axis_upd_req,     \* the requests that wait
    m_axis_lup_rsp, m_axis_upd_rsp      \* the last answers

vars == <<cuckooTables, victimBit, insertFailureCounter, regInsertFailureCount,
          s_axis_lup_req, s_axis_upd_req, m_axis_lup_rsp, m_axis_upd_rsp>>

-----------------------------------------------------------------------------
(* One request *)

\* The tables that hold the key, each looked at in the key's own position.
Holds(t, i, key) == t[i][Hash[i][key]] # Invalid /\ t[i][Hash[i][key]].key = key
Matches(t, key) == {i \in Table : Holds(t, i, key)}

\* The loops over the tables keep the last slot they find.
LastOf(S) == CHOOSE i \in S : \A j \in S : j <= i

lookup(t, key) ==
    LET S == Matches(t, key)
    IN  IF S = {} THEN [op |-> "lookup", key |-> key, hit |-> FALSE]
        ELSE [op |-> "lookup", key |-> key, hit |-> TRUE, value |-> t[LastOf(S)][Hash[LastOf(S)][key]].value]

\* A round of the insert loop: r.tables and r.entry are the tables and the
\* entry still to be placed, r.success says that there is none.
FreeTables(t, key) == {i \in Table : t[i][Hash[i][key]] = Invalid}

VictimPos(r) == (Hash[r.victimIdx][r.entry.key] % (NumTables - 1)) + r.victimBit

FaultPlace(r, i) == [r.tables EXCEPT ![i][Hash[r.victimIdx][r.entry.key]] = r.entry]
Place(r, i) == [r.tables EXCEPT ![i][Hash[i][r.entry.key]] = r.entry]

FaultTrial(r) ==
    LET free == FreeTables(r.tables, r.entry.key)
        pos == IF free # {} THEN LastOf(free) ELSE VictimPos(r)
    IN  [r EXCEPT !.tables = Place(r, pos), !.victimBit = 1 - r.victimBit, !.success = TRUE]
Trial(r) ==
    LET free == FreeTables(r.tables, r.entry.key)
        pos == VictimPos(r)
        bit == 1 - r.victimBit
    IN  IF free # {}
        THEN [r EXCEPT !.tables = Place(r, LastOf(free)), !.victimBit = bit, !.success = TRUE]
        ELSE [r EXCEPT !.tables = Place(r, pos),
                       !.entry = r.tables[pos][Hash[pos][r.entry.key]],
                       !.victimIdx = (@ + 1) % NumTables,
                       !.victimBit = bit]

\* The insert loop, from its state before the first round to its end
Round(r) == IF r.success THEN r ELSE Trial(r)
InsertLoop(r0) ==
    LET after[j \in 0..MaxTrials] == IF j = 0 THEN r0 ELSE Round(after[j - 1])
    IN  after[MaxTrials]

insert(key, value) ==
    InsertLoop([tables |-> cuckooTables, entry |-> [valid |-> TRUE, key |-> key, value |-> value],
                victimIdx |-> 0, victimBit |-> victimBit, success |-> FALSE])

-----------------------------------------------------------------------------
(* The kernel *)

Lookup ==
    /\ s_axis_lup_req # <<>>
    /\ s_axis_lup_req' = Tail(s_axis_lup_req)
    /\ m_axis_lup_rsp' = lookup(cuckooTables, Head(s_axis_lup_req))
    /\ UNCHANGED <<cuckooTables, victimBit, insertFailureCounter, regInsertFailureCount,
                   s_axis_upd_req, m_axis_upd_rsp>>

\* Updates wait while there are lookups.
Update(op) ==
    /\ s_axis_lup_req = <<>>
    /\ s_axis_upd_req # <<>>
    /\ s_axis_upd_req[1].op = op
    /\ s_axis_upd_req' = Tail(s_axis_upd_req)
    /\ UNCHANGED <<s_axis_lup_req, m_axis_lup_rsp>>

Insert ==
    /\ Update("KV_INSERT")
    /\ LET request == s_axis_upd_req[1]
           r == insert(request.key, request.value)
       IN  /\ cuckooTables' = r.tables
           /\ victimBit' = r.victimBit
           /\ insertFailureCounter' =
                IF r.success THEN insertFailureCounter ELSE (insertFailureCounter + 1) % CountMod
           /\ m_axis_upd_rsp' = [op |-> "KV_INSERT", key |-> request.key, value |-> request.value,
                                 success |-> r.success]
    /\ regInsertFailureCount' = insertFailureCounter
Remove ==
    /\ Update("KV_DELETE")
    /\ LET key == s_axis_upd_req[1].key
           S == Matches(cuckooTables, key)
       IN  /\ cuckooTables' = [i \in Table |->
                IF i \in S THEN [cuckooTables[i] EXCEPT ![Hash[i][key]] = Invalid] ELSE cuckooTables[i]]
           /\ m_axis_upd_rsp' =
                [op |-> "KV_DELETE", key |-> key, success |-> S # {},
                 value |-> IF S = {} THEN 0 ELSE cuckooTables[LastOf(S)][Hash[LastOf(S)][key]].value]
    /\ UNCHANGED <<victimBit, insertFailureCounter, regInsertFailureCount>>

hash_table_core == Lookup \/ Insert \/ Remove

-----------------------------------------------------------------------------
(* The clients *)

SendLookup(key) ==
    /\ Len(s_axis_lup_req) < LupCap
    /\ s_axis_lup_req' = Append(s_axis_lup_req, key)
    /\ UNCHANGED <<cuckooTables, victimBit, insertFailureCounter, regInsertFailureCount,
                   s_axis_upd_req, m_axis_lup_rsp, m_axis_upd_rsp>>
SendUpdate(request) ==
    /\ Len(s_axis_upd_req) < UpdCap
    /\ s_axis_upd_req' = Append(s_axis_upd_req, request)
    /\ UNCHANGED <<cuckooTables, victimBit, insertFailureCounter, regInsertFailureCount,
                   s_axis_lup_req, m_axis_lup_rsp, m_axis_upd_rsp>>

Init ==
    /\ cuckooTables = [i \in Table |-> [p \in Pos |-> Invalid]]
    /\ victimBit = 0 /\ insertFailureCounter = 0 /\ regInsertFailureCount = 0
    /\ s_axis_lup_req = <<>> /\ s_axis_upd_req = <<>>
    /\ m_axis_lup_rsp = NoAnswer /\ m_axis_upd_rsp = NoAnswer

Next ==
    \/ hash_table_core
    \/ \E key \in Keys : SendLookup(key)
    \/ \E request \in UpdReq : SendUpdate(request)

Spec == Init /\ [][Next]_vars

-----------------------------------------------------------------------------
(* Properties *)

Stored == {cuckooTables[i][p] : i \in Table, p \in Pos} \ {Invalid}

\* Every entry sits in the position its own table's hash gives its key,
\* however often evictions have moved it; otherwise no lookup would find it
\* and no delete would remove it.
InPlace ==
    \A i \in Table, p \in Pos :
      cuckooTables[i][p] # Invalid => Hash[i][cuckooTables[i][p].key] = p

\* The tables are a key-value store: a successful insert is found by every
\* later lookup, whatever evictions other inserts cause; a delete removes
\* every copy of its key; nothing is lost but one value in a failed insert.
Store == INSTANCE KVStore WITH
    stored <- [key \in Keys |-> {e.value : e \in {s \in Stored : s.key = key}}],
    failures <- insertFailureCounter,
    upd_rsp <- m_axis_upd_rsp, lup_rsp <- m_axis_lup_rsp
IsStore == Store!Spec
=============================================================================
