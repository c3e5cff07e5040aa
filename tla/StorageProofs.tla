---------------------------- MODULE StorageProofs ----------------------------
(***************************************************************************)
(* The hash table, for every number of tables, positions and rounds and    *)
(* every hash: evictions move entries to positions that are theirs, and    *)
(* the tables are a key-value store.                                       *)
(*                                                                         *)
(* The allocator, for every number of classes, cache, bit map and client:  *)
(* a box is in one place, the bit map knows those in use, and a request    *)
(* never finds both ring and cache empty.                                  *)
(***************************************************************************)
EXTENDS MCStorage, WellFoundedInduction, FiniteSetTheorems, SequenceTheorems, TLAPS

USE HashTableAssumption DEF Table, Pos

-----------------------------------------------------------------------------
(* Induction, for sets of numbers *)

Less == {pair \in Nat \X Nat : pair[1] < pair[2]}

LEMMA SetInduction ==
  ASSUME NEW S, 0 \in S, \A n \in Nat : n \in S => n + 1 \in S
  PROVE  Nat \subseteq S
<1> DEFINE T == Nat \ S
<1>1. SUFFICES ASSUME T # {}
               PROVE  FALSE
  OBVIOUS
<1>2. IsWellFoundedOn(Less, Nat)
  BY NatLessThanWellFounded DEF OpToRel, Less
<1>3. T \subseteq Nat
  OBVIOUS
<1>4. PICK x \in T : \A y \in T : <<y, x>> \notin Less
  <2> HIDE DEF T
  <2>1. QED
    BY <1>1, <1>2, <1>3, WFMin
<1>5. x \in Nat /\ x # 0 /\ x - 1 \in Nat
  BY <1>3, <1>4
<1>6. <<x - 1, x>> \in Less
  BY <1>5 DEF Less
<1>7. x - 1 \in S
  BY <1>4, <1>5, <1>6
<1>8. (x - 1) + 1 \in S
  BY <1>5, <1>7
<1>9. QED
  BY <1>4, <1>5, <1>8

\* The last table of a set of tables is one of them.
LEMMA LastIsMember ==
  ASSUME NEW S \in SUBSET Table, S # {}
  PROVE  LastOf(S) \in S /\ \A j \in S : j <= LastOf(S)
<1> DEFINE Bounded == {n \in Nat : (\E i \in S : i > n) \/ \E i \in S : \A j \in S : j <= i}
<1>1. 0 \in Bounded
  <2>1. PICK i \in S : TRUE
    OBVIOUS
  <2>2. i > 0 \/ i = 0
    BY <2>1
  <2>3. CASE \A j \in S : ~(j > 0)
    <3>1. \A j \in S : j <= i
      BY <2>2, <2>3
    <3>2. QED
      BY <3>1
  <2>4. QED
    BY <2>3
<1>2. ASSUME NEW n \in Nat, n \in Bounded
      PROVE  n + 1 \in Bounded
  <2>1. SUFFICES ASSUME \A i \in S : ~(i > n + 1), \E i \in S : i > n
                 PROVE  \E i \in S : \A j \in S : j <= i
    BY <1>2
  <2>2. PICK i \in S : i > n
    BY <2>1
  <2>3. \A j \in S : j <= i
    BY <2>1, <2>2
  <2>4. QED
    BY <2>3
<1>3. NumTables \in Bounded
  <2> HIDE DEF Bounded
  <2>1. Nat \subseteq Bounded
    BY <1>1, <1>2, SetInduction
  <2>2. QED
    BY <2>1
<1>4. \A i \in S : ~(i > NumTables)
  OBVIOUS
<1>5. \E i \in S : \A j \in S : j <= i
  BY <1>3, <1>4
<1>6. QED
  BY <1>5 DEF LastOf

-----------------------------------------------------------------------------
(* The insert loop is what it says: r0, and a round after each other *)

Rounds(r0, g, n) == g = [j \in 0..n |-> IF j = 0 THEN r0 ELSE Round(g[j - 1])]

LEMMA LoopExists ==
  ASSUME NEW r0, NEW n \in Nat
  PROVE  \E g : Rounds(r0, g, n)
<1> DEFINE S == {m \in Nat : \E g : Rounds(r0, g, m)}
<1>1. 0 \in S
  <2>1. Rounds(r0, [j \in 0..0 |-> r0], 0)
    BY DEF Rounds
  <2>2. QED
    BY <2>1
<1>2. ASSUME NEW m \in Nat, m \in S
      PROVE  m + 1 \in S
  <2>1. PICK g : Rounds(r0, g, m)
    BY <1>2
  <2> DEFINE h == [j \in 0..(m + 1) |-> IF j = 0 THEN r0 ELSE Round(g[j - 1])]
  <2>2. \A j \in 0..m : h[j] = g[j]
    BY <2>1 DEF Rounds
  <2>3. \A j \in 0..(m + 1) : j # 0 => j - 1 \in 0..m
    OBVIOUS
  <2>4. \A j \in 0..(m + 1) : j # 0 => h[j - 1] = g[j - 1]
    BY <2>2, <2>3
  <2>5. \A j \in 0..(m + 1) : (IF j = 0 THEN r0 ELSE Round(g[j - 1])) = (IF j = 0 THEN r0 ELSE Round(h[j - 1]))
    <3> HIDE DEF h
    <3>1. QED
      BY <2>4
  <2>6. h = [j \in 0..(m + 1) |-> IF j = 0 THEN r0 ELSE Round(h[j - 1])]
    <3> DEFINE G(j) == IF j = 0 THEN r0 ELSE Round(g[j - 1])
               H(j) == IF j = 0 THEN r0 ELSE Round(h[j - 1])
    <3>1. h = [j \in 0..(m + 1) |-> G(j)] /\ \A j \in 0..(m + 1) : G(j) = H(j)
      BY <2>5
    <3> HIDE DEF h, G, H
    <3>2. h = [j \in 0..(m + 1) |-> H(j)]
      BY <3>1
    <3>3. QED
      BY <3>2 DEF H
  <2>7. Rounds(r0, h, m + 1)
    BY <2>6 DEF Rounds
  <2>8. QED
    <3> HIDE DEF h
    <3>1. QED
      BY <2>7
<1>3. Nat \subseteq S
  <2> HIDE DEF S
  <2>1. QED
    BY <1>1, <1>2, SetInduction
<1>4. QED
  BY <1>3

\* What holds of the state before the loop and is kept by a round holds at its end.
LEMMA LoopKeeps ==
  ASSUME NEW Good, NEW r0 \in Good, \A r \in Good : Round(r) \in Good
  PROVE  InsertLoop(r0) \in Good
<1> DEFINE after == CHOOSE g : g = [j \in 0..MaxTrials |-> IF j = 0 THEN r0 ELSE Round(g[j - 1])]
           S == {m \in Nat : m <= MaxTrials => after[m] \in Good}
<1>1. after = [j \in 0..MaxTrials |-> IF j = 0 THEN r0 ELSE Round(after[j - 1])]
  <2>1. after = CHOOSE g : Rounds(r0, g, MaxTrials)
    BY DEF Rounds
  <2>2. \E g : Rounds(r0, g, MaxTrials)
    BY LoopExists
  <2> HIDE DEF after
  <2>3. Rounds(r0, after, MaxTrials)
    BY <2>1, <2>2
  <2>4. QED
    BY <2>3 DEF Rounds
<1>2. InsertLoop(r0) = after[MaxTrials]
  BY DEF InsertLoop
<1> HIDE DEF after
<1>3. 0 \in S
  BY <1>1
<1>4. ASSUME NEW m \in Nat, m \in S
      PROVE  m + 1 \in S
  <2>1. SUFFICES ASSUME m + 1 <= MaxTrials
                 PROVE  after[m + 1] \in Good
    OBVIOUS
  <2>2. after[m] \in Good
    BY <1>4, <2>1
  <2>3. after[m + 1] = Round(after[m])
    <3>1. m + 1 \in 0..MaxTrials /\ m + 1 # 0 /\ (m + 1) - 1 = m
      BY <2>1
    <3>2. QED
      BY <1>1, <3>1
  <2>4. QED
    BY <2>2, <2>3
<1>5. MaxTrials \in S
  <2> HIDE DEF S
  <2>1. Nat \subseteq S
    BY <1>3, <1>4, SetInduction
  <2>2. QED
    BY <2>1
<1>6. QED
  BY <1>2, <1>5

-----------------------------------------------------------------------------
(* A round *)

Slot == Entry \cup {Invalid}
Tables == [Table -> [Pos -> Slot]]

Placed(t) == \A i \in Table, p \in Pos : t[i][p] # Invalid => Hash[i][t[i][p].key] = p
Content(t) == {t[i][p] : i \in Table, p \in Pos} \ {Invalid}

RoundState ==
    {r \in [tables : Tables, entry : Entry, victimIdx : Table, victimBit : {0, 1}, success : BOOLEAN] :
        Placed(r.tables)}

LEMMA EntryIsValid == Invalid \notin Entry
  BY DEF Entry, Invalid

LEMMA PosOfKey ==
  ASSUME NEW i \in Table, NEW e \in Entry
  PROVE  e.key \in Keys /\ Hash[i][e.key] \in Pos
<1>1. e.key \in Keys
  BY DEF Entry
<1>2. QED
  BY <1>1

LEMMA InContent ==
  ASSUME NEW t, NEW x
  PROVE  x \in Content(t) <=> x # Invalid /\ \E i \in Table, p \in Pos : t[i][p] = x
  BY DEF Content

LEMMA PlaceKeeps ==
  ASSUME NEW r \in RoundState, NEW i \in Table
  PROVE  LET p == Hash[i][r.entry.key]
             old == r.tables[i][p]
         IN  /\ Place(r, i) \in Tables /\ Placed(Place(r, i))
             /\ old \in Slot
             /\ Content(Place(r, i)) \cup ({old} \ {Invalid}) = Content(r.tables) \cup {r.entry}
<1> DEFINE p == Hash[i][r.entry.key]
           t == r.tables
           u == Place(r, i)
<1>1. t \in Tables /\ Placed(t) /\ r.entry \in Entry
  BY DEF RoundState
<1>2. p \in Pos /\ r.entry.key \in Keys
  BY <1>1, PosOfKey
<1>3. u = [t EXCEPT ![i] = [t[i] EXCEPT ![p] = r.entry]]
  BY DEF Place
<1> HIDE DEF u
<1>4. u \in Tables
  BY <1>1, <1>2, <1>3 DEF Tables, Slot
<1>5. u[i][p] = r.entry
  BY <1>1, <1>2, <1>3 DEF Tables
<1>6. \A j \in Table, q \in Pos : j # i \/ q # p => u[j][q] = t[j][q]
  BY <1>1, <1>2, <1>3 DEF Tables
<1>7. r.entry # Invalid
  BY <1>1, EntryIsValid
<1> HIDE DEF t
<1>8. Placed(u)
  <2>1. SUFFICES ASSUME NEW j \in Table, NEW q \in Pos, u[j][q] # Invalid
                 PROVE  Hash[j][u[j][q].key] = q
    BY DEF Placed
  <2>2. CASE j = i /\ q = p
    BY <1>5, <2>2
  <2>3. CASE j # i \/ q # p
    <3>1. u[j][q] = t[j][q]
      BY <1>6, <2>3
    <3>2. QED
      BY <1>1, <2>1, <3>1 DEF Placed
  <2>4. QED
    BY <2>2, <2>3
<1> HIDE DEF p
<1>9. Content(u) \cup ({t[i][p]} \ {Invalid}) = Content(t) \cup {r.entry}
  <2>1. ASSUME NEW x, x \in Content(u)
        PROVE  x \in Content(t) \/ x = r.entry
    <3>1. PICK j \in Table, q \in Pos : u[j][q] = x /\ x # Invalid
      BY <2>1, InContent
    <3>2. CASE j = i /\ q = p
      BY <1>5, <3>1, <3>2
    <3>3. CASE j # i \/ q # p
      BY <1>6, <3>1, <3>3, InContent
    <3>4. QED
      BY <3>2, <3>3
  <2>2. ASSUME NEW x, x \in Content(t)
        PROVE  x \in Content(u) \/ (x = t[i][p] /\ x # Invalid)
    <3>1. PICK j \in Table, q \in Pos : t[j][q] = x /\ x # Invalid
      BY <2>2, InContent
    <3>2. CASE j = i /\ q = p
      BY <3>1, <3>2
    <3>3. CASE j # i \/ q # p
      BY <1>6, <3>1, <3>3, InContent
    <3>4. QED
      BY <3>2, <3>3
  <2>3. r.entry \in Content(u)
    BY <1>2, <1>5, <1>7, InContent
  <2>4. t[i][p] # Invalid => t[i][p] \in Content(t)
    BY <1>2, InContent
  <2>5. QED
    BY <2>1, <2>2, <2>3, <2>4
<1>10. t[i][p] \in Slot
  BY <1>1, <1>2 DEF Tables
<1>11. QED
  BY <1>4, <1>8, <1>9, <1>10 DEF p, t, u

LEMMA VictimIsTable ==
  ASSUME NEW r \in RoundState
  PROVE  VictimPos(r) \in Table /\ (r.victimIdx + 1) % NumTables \in Table
<1>1. /\ r.victimIdx \in Table /\ r.victimBit \in {0, 1} /\ r.entry \in Entry
  BY DEF RoundState
<1>2. Hash[r.victimIdx][r.entry.key] \in Nat
  BY <1>1, PosOfKey
<1>3. NumTables - 1 \in Nat \ {0}
  OBVIOUS
<1>4. Hash[r.victimIdx][r.entry.key] % (NumTables - 1) \in 0..((NumTables - 1) - 1)
  BY <1>2, <1>3
<1>5. QED
  BY <1>1, <1>4 DEF VictimPos

\* A round loses nothing: what the tables and the entry still to be placed
\* hold together stays the same.
Pending(r) == IF r.success THEN {} ELSE {r.entry}
Loop(C) == {r \in RoundState : Content(r.tables) \cup Pending(r) = C}

LEMMA RoundKeeps ==
  ASSUME NEW C, NEW r \in Loop(C)
  PROVE  Round(r) \in Loop(C)
<1>1. CASE r.success
  BY <1>1 DEF Round
<1>2. CASE ~r.success
  <2> DEFINE free == FreeTables(r.tables, r.entry.key)
             last == LastOf(free)
             pos == VictimPos(r)
             slot(i) == r.tables[i][Hash[i][r.entry.key]]
  <2>1. /\ r \in RoundState /\ Content(r.tables) \cup {r.entry} = C
        /\ r \in [tables : Tables, entry : Entry, victimIdx : Table, victimBit : {0, 1}, success : BOOLEAN]
        /\ 1 - r.victimBit \in {0, 1}
    BY <1>2 DEF Loop, Pending, RoundState
  <2>2. free \in SUBSET Table /\ \A i \in Table : i \in free <=> slot(i) = Invalid
    BY DEF FreeTables
  <2>3. Round(r) = Trial(r)
    BY <1>2 DEF Round
  <2>4. CASE free # {}
    <3>1. last \in Table /\ slot(last) = Invalid
      <4> HIDE DEF free
      <4>1. last \in free
        BY <2>2, <2>4, LastIsMember
      <4>2. QED
        BY <2>2, <4>1
    <3> DEFINE u == Place(r, last)
               b == 1 - r.victimBit
    <3>2. u \in Tables /\ Placed(u) /\ Content(u) = Content(r.tables) \cup {r.entry}
      <4> HIDE DEF last
      <4>1. /\ u \in Tables /\ Placed(u)
            /\ Content(u) \cup ({slot(last)} \ {Invalid}) = Content(r.tables) \cup {r.entry}
        BY <2>1, <3>1, PlaceKeeps
      <4>2. QED
        BY <3>1, <4>1
    <3>3. Trial(r) = [r EXCEPT !.tables = u, !.victimBit = b, !.success = TRUE]
      BY <2>4 DEF Trial
    <3> HIDE DEF u, b, last, free
    <3>4. /\ Trial(r).tables = u /\ Trial(r).success = TRUE
          /\ Trial(r) \in [tables : Tables, entry : Entry, victimIdx : Table, victimBit : {0, 1}, success : BOOLEAN]
      BY <2>1, <3>2, <3>3 DEF b
    <3>5. QED
      BY <2>1, <2>3, <3>2, <3>4 DEF Loop, RoundState, Pending
  <2>5. CASE free = {}
    <3>1. pos \in Table /\ slot(pos) # Invalid /\ (r.victimIdx + 1) % NumTables \in Table
      <4> HIDE DEF free
      <4>1. QED
        BY <2>1, <2>2, <2>5, VictimIsTable
    <3> DEFINE u == Place(r, pos)
               e == slot(pos)
               b == 1 - r.victimBit
               v == (r.victimIdx + 1) % NumTables
    <3>2. /\ u \in Tables /\ Placed(u) /\ e \in Entry
          /\ Content(u) \cup {e} = Content(r.tables) \cup {r.entry}
      <4> HIDE DEF pos
      <4>1. /\ u \in Tables /\ Placed(u) /\ e \in Slot
            /\ Content(u) \cup ({e} \ {Invalid}) = Content(r.tables) \cup {r.entry}
        BY <2>1, <3>1, PlaceKeeps
      <4>2. QED
        BY <3>1, <4>1 DEF Slot
    <3>3. Trial(r) = [r EXCEPT !.tables = u, !.entry = e, !.victimIdx = v, !.victimBit = b]
      BY <2>5 DEF Trial
    <3>4. b \in {0, 1} /\ v \in Table
      BY <2>1, <3>1
    <3> HIDE DEF u, b, e, v, pos, free
    <3>5. /\ Trial(r).tables = u /\ Trial(r).entry = e /\ Trial(r).success = r.success
          /\ Trial(r) \in [tables : Tables, entry : Entry, victimIdx : Table, victimBit : {0, 1}, success : BOOLEAN]
      BY <2>1, <3>2, <3>3, <3>4
    <3>6. QED
      BY <1>2, <2>1, <2>3, <3>2, <3>5 DEF Loop, RoundState, Pending
  <2>6. QED
    BY <2>4, <2>5
<1>3. QED
  BY <1>1, <1>2

\* What an insert leaves behind: every entry in its place, and all the entries
\* there were with the new one, except one if it gives up.
LEMMA InsertKeeps ==
  ASSUME cuckooTables \in Tables, Placed(cuckooTables), victimBit \in {0, 1},
         NEW key \in Keys, NEW value \in Values
  PROVE  insert(key, value)
            \in Loop(Content(cuckooTables) \cup {[valid |-> TRUE, key |-> key, value |-> value]})
<1> DEFINE e == [valid |-> TRUE, key |-> key, value |-> value]
           r0 == [tables |-> cuckooTables, entry |-> e, victimIdx |-> 0, victimBit |-> victimBit,
                  success |-> FALSE]
           D == Content(cuckooTables) \cup {e}
<1>1. e \in Entry /\ 0 \in Table
  BY DEF Entry
<1> HIDE DEF e
<1>2. r0 \in Loop(D)
  BY <1>1 DEF Loop, RoundState, Pending
<1> HIDE DEF r0, D
<1>3. InsertLoop(r0) \in Loop(D)
  BY <1>2, RoundKeeps, LoopKeeps
<1>4. QED
  BY <1>3 DEF insert, r0, D, e

-----------------------------------------------------------------------------
(* The specification *)

TableInv ==
    /\ cuckooTables \in Tables /\ Placed(cuckooTables)
    /\ victimBit \in {0, 1}
    /\ s_axis_upd_req \in Seq(UpdReq)
    /\ s_axis_lup_req \in Seq(Keys)

LEMMA UpdateRequest ==
  ASSUME TableInv, NEW op, Update(op)
  PROVE  /\ s_axis_upd_req[1] \in UpdReq /\ s_axis_upd_req[1].op = op
         /\ s_axis_upd_req' \in Seq(UpdReq) /\ s_axis_lup_req' \in Seq(Keys)
  BY DEF TableInv, Update

LEMMA RequestKey ==
  ASSUME NEW request \in UpdReq
  PROVE  request.key \in Keys /\ (request.op = "KV_INSERT" => request.value \in Values)
  BY DEF UpdReq

\* What a delete does to the tables
Removed(t, key) ==
    [i \in Table |-> IF i \in Matches(t, key) THEN [t[i] EXCEPT ![Hash[i][key]] = Invalid] ELSE t[i]]

LEMMA RemoveKeeps ==
  ASSUME NEW t \in Tables, Placed(t), NEW key \in Keys
  PROVE  /\ Removed(t, key) \in Tables /\ Placed(Removed(t, key))
         /\ Content(Removed(t, key)) = {e \in Content(t) : e.key # key}
<1> DEFINE u == Removed(t, key)
<1>1. \A i \in Table : Hash[i][key] \in Pos
  OBVIOUS
<1>2. u \in Tables
  BY <1>1 DEF Removed, Tables, Slot
<1>3. \A i \in Table, p \in Pos :
        u[i][p] = IF i \in Matches(t, key) /\ p = Hash[i][key] THEN Invalid ELSE t[i][p]
  BY <1>1 DEF Removed, Tables
<1>4. \A i \in Table, p \in Pos :
        t[i][p] # Invalid /\ t[i][p].key = key <=> i \in Matches(t, key) /\ p = Hash[i][key]
  BY <1>1 DEF Placed, Matches, Holds
<1> HIDE DEF u
<1>5. Placed(u)
  <2>1. SUFFICES ASSUME NEW i \in Table, NEW p \in Pos, u[i][p] # Invalid
                 PROVE  Hash[i][u[i][p].key] = p
    BY DEF Placed
  <2>2. u[i][p] = t[i][p]
    BY <1>3, <2>1
  <2>3. QED
    BY <2>1, <2>2 DEF Placed
<1>6. ASSUME NEW x
      PROVE  x \in Content(u) <=> x \in Content(t) /\ x.key # key
  <2>1. ASSUME x \in Content(u)
        PROVE  x \in Content(t) /\ x.key # key
    <3>1. PICK i \in Table, p \in Pos : u[i][p] = x /\ x # Invalid
      BY <2>1, InContent
    <3>2. t[i][p] = x /\ x.key # key
      BY <1>3, <1>4, <3>1
    <3>3. QED
      BY <3>1, <3>2, InContent
  <2>2. ASSUME x \in Content(t), x.key # key
        PROVE  x \in Content(u)
    <3>1. PICK i \in Table, p \in Pos : t[i][p] = x /\ x # Invalid
      <4>1. x \in Content(t)
        BY <2>2
      <4>2. QED
        BY ONLY <4>1, InContent
    <3>2. u[i][p] = x
      BY <1>3, <1>4, <2>2, <3>1
    <3>3. QED
      BY <3>1, <3>2, InContent
  <2>3. QED
    BY <2>1, <2>2
<1>7. QED
  BY <1>2, <1>5, <1>6 DEF u

LEMMA TableInvHolds == Spec => []TableInv
<1>1. Init => TableInv
  BY DEF Init, TableInv, Tables, Slot, Placed
<1>2. TableInv /\ [Next]_vars => TableInv'
  <2> SUFFICES ASSUME TableInv, [Next]_vars
               PROVE  TableInv'
    OBVIOUS
  <2>1. CASE Lookup
    BY <2>1 DEF Lookup, TableInv, Tables, Placed
  <2>2. CASE Insert
    <3> DEFINE request == s_axis_upd_req[1]
               r == insert(request.key, request.value)
    <3>1. /\ request \in UpdReq /\ request.op = "KV_INSERT"
          /\ s_axis_upd_req' \in Seq(UpdReq) /\ s_axis_lup_req' \in Seq(Keys)
      <4>1. Update("KV_INSERT")
        BY <2>2 DEF Insert
      <4>2. QED
        BY <4>1, UpdateRequest
    <3>2. cuckooTables' = r.tables /\ victimBit' = r.victimBit
      BY <2>2 DEF Insert
    <3>3. request.key \in Keys /\ request.value \in Values
      BY <3>1, RequestKey
    <3> HIDE DEF request
    <3>4. r \in RoundState
      BY <3>3, InsertKeeps DEF TableInv, Loop
    <3> HIDE DEF r
    <3>5. r.tables \in Tables /\ Placed(r.tables) /\ r.victimBit \in {0, 1}
      BY <3>4 DEF RoundState
    <3>6. QED
      BY <3>1, <3>2, <3>5 DEF TableInv
  <2>3. CASE Remove
    <3>1. /\ s_axis_upd_req[1] \in UpdReq
          /\ s_axis_upd_req' \in Seq(UpdReq) /\ s_axis_lup_req' \in Seq(Keys)
      <4>1. Update("KV_DELETE")
        BY <2>3 DEF Remove
      <4>2. QED
        BY <4>1, UpdateRequest
    <3> DEFINE key == s_axis_upd_req[1].key
    <3>2. cuckooTables' = Removed(cuckooTables, key) /\ victimBit' = victimBit
      BY <2>3 DEF Remove, Removed
    <3>3. key \in Keys
      BY <3>1, RequestKey
    <3> HIDE DEF key
    <3>4. Removed(cuckooTables, key) \in Tables /\ Placed(Removed(cuckooTables, key))
      BY <3>3, RemoveKeeps DEF TableInv
    <3>5. QED
      BY <3>1, <3>2, <3>4 DEF TableInv
  <2>4. ASSUME NEW key \in Keys, SendLookup(key)
        PROVE  TableInv'
    BY <2>4 DEF SendLookup, TableInv, Tables, Placed
  <2>5. ASSUME NEW request \in UpdReq, SendUpdate(request)
        PROVE  TableInv'
    BY <2>5 DEF SendUpdate, TableInv, Tables, Placed
  <2>6. CASE UNCHANGED vars
    BY <2>6 DEF vars, TableInv, Tables, Placed
  <2>7. QED
    BY <2>1, <2>2, <2>3, <2>4, <2>5, <2>6 DEF Next, hash_table_core
<1>3. QED
  BY <1>1, <1>2, PTL DEF Spec

\* However many inserts have moved an entry, it sits where its own table's
\* hash puts it, hash_table.cpp:131-153.
THEOREM HashTableInPlace == Spec => []InPlace
<1>1. TableInv => InPlace
  BY DEF TableInv, Placed, InPlace
<1>2. QED
  BY <1>1, TableInvHolds, PTL

-----------------------------------------------------------------------------
(* The tables as a key-value store *)

\* The values of each key in a set of entries
ValuesOf(C) == [key \in Keys |-> {e.value : e \in {s \in C : s.key = key}}]

LEMMA InValuesOf ==
  ASSUME NEW C \in SUBSET Entry, NEW key \in Keys, NEW v
  PROVE  v \in ValuesOf(C)[key] <=> \E e \in C : e.key = key /\ e.value = v
  BY DEF ValuesOf

LEMMA SameEntry ==
  ASSUME NEW e \in Entry, NEW f \in Entry, e.key = f.key, e.value = f.value
  PROVE  e = f
<1>1. ASSUME NEW g \in Entry
      PROVE  g = [valid |-> TRUE, key |-> g.key, value |-> g.value]
  BY DEF Entry
<1>2. e = [valid |-> TRUE, key |-> e.key, value |-> e.value]
  BY <1>1
<1>3. f = [valid |-> TRUE, key |-> f.key, value |-> f.value]
  BY <1>1
<1>4. QED
  BY <1>2, <1>3

LEMMA ValuesAreFunctions ==
  ASSUME NEW C, NEW g, g = [k \in Keys |-> g[k]],
         \A k \in Keys : ValuesOf(C)[k] = g[k]
  PROVE  ValuesOf(C) = g
  BY DEF ValuesOf

LEMMA ValuesWith ==
  ASSUME NEW C \in SUBSET Entry, NEW e \in Entry
  PROVE  ValuesOf(C \cup {e}) = [ValuesOf(C) EXCEPT ![e.key] = @ \cup {e.value}]
<1> DEFINE g == [ValuesOf(C) EXCEPT ![e.key] = @ \cup {e.value}]
           D == C \cup {e}
<1>1. D \in SUBSET Entry
  OBVIOUS
<1>2. e.key \in Keys
  BY DEF Entry
<1>3. g = [k \in Keys |-> g[k]]
  BY <1>2 DEF ValuesOf
<1>4. /\ g[e.key] = ValuesOf(C)[e.key] \cup {e.value}
      /\ \A k \in Keys : k # e.key => g[k] = ValuesOf(C)[k]
  BY <1>2 DEF ValuesOf
<1> HIDE DEF g
<1>5. ASSUME NEW k \in Keys
      PROVE  ValuesOf(D)[k] = g[k]
  <2>1. ASSUME NEW v
        PROVE  v \in ValuesOf(D)[k] <=> v \in g[k]
    <3>1. v \in ValuesOf(D)[k] <=> \E f \in D : f.key = k /\ f.value = v
      <4> HIDE DEF D
      <4>1. QED
        BY <1>1, InValuesOf
    <3>2. v \in ValuesOf(C)[k] <=> \E f \in C : f.key = k /\ f.value = v
      BY InValuesOf
    <3>3. v \in g[k] <=> v \in ValuesOf(C)[k] \/ (k = e.key /\ v = e.value)
      BY <1>4
    <3>4. QED
      BY <3>1, <3>2, <3>3
  <2>2. QED
    BY <2>1
<1>6. QED
  <2> HIDE DEF D
  <2>1. ValuesOf(D) = g
    BY <1>3, <1>5, ValuesAreFunctions
  <2>2. QED
    BY <2>1 DEF g, D

LEMMA ValuesWithout ==
  ASSUME NEW C \in SUBSET Entry, NEW e \in Entry
  PROVE  ValuesOf(C \ {e}) = [ValuesOf(C) EXCEPT ![e.key] = @ \ {e.value}]
<1> DEFINE g == [ValuesOf(C) EXCEPT ![e.key] = @ \ {e.value}]
           D == C \ {e}
<1>1. D \in SUBSET Entry
  OBVIOUS
<1>2. e.key \in Keys
  BY DEF Entry
<1>3. g = [k \in Keys |-> g[k]]
  BY <1>2 DEF ValuesOf
<1>4. /\ g[e.key] = ValuesOf(C)[e.key] \ {e.value}
      /\ \A k \in Keys : k # e.key => g[k] = ValuesOf(C)[k]
  BY <1>2 DEF ValuesOf
<1> HIDE DEF g
<1>5. ASSUME NEW k \in Keys
      PROVE  ValuesOf(D)[k] = g[k]
  <2>1. ASSUME NEW v
        PROVE  v \in ValuesOf(D)[k] <=> v \in g[k]
    <3>1. v \in ValuesOf(D)[k] <=> \E f \in D : f.key = k /\ f.value = v
      <4> HIDE DEF D
      <4>1. QED
        BY <1>1, InValuesOf
    <3>2. v \in ValuesOf(C)[k] <=> \E f \in C : f.key = k /\ f.value = v
      BY InValuesOf
    <3>3. v \in g[k] <=> v \in ValuesOf(C)[k] /\ ~(k = e.key /\ v = e.value)
      BY <1>4
    <3>4. \A f \in C : f.key = e.key /\ f.value = e.value => f = e
      BY SameEntry
    <3>5. QED
      BY <3>1, <3>2, <3>3, <3>4
  <2>2. QED
    BY <2>1
<1>6. QED
  <2> HIDE DEF D
  <2>1. ValuesOf(D) = g
    BY <1>3, <1>5, ValuesAreFunctions
  <2>2. QED
    BY <2>1 DEF g, D

LEMMA ValuesRemoved ==
  ASSUME NEW C \in SUBSET Entry, NEW key \in Keys
  PROVE  ValuesOf({e \in C : e.key # key}) = [ValuesOf(C) EXCEPT ![key] = {}]
<1> DEFINE g == [ValuesOf(C) EXCEPT ![key] = {}]
           D == {e \in C : e.key # key}
<1>1. D \in SUBSET Entry
  OBVIOUS
<1>2. /\ g = [k \in Keys |-> g[k]]
      /\ g[key] = {}
      /\ \A k \in Keys : k # key => g[k] = ValuesOf(C)[k]
  BY DEF ValuesOf
<1> HIDE DEF g
<1>3. ASSUME NEW k \in Keys
      PROVE  ValuesOf(D)[k] = g[k]
  <2>1. ASSUME NEW v
        PROVE  v \in ValuesOf(D)[k] <=> v \in g[k]
    <3>1. v \in ValuesOf(D)[k] <=> \E f \in D : f.key = k /\ f.value = v
      <4> HIDE DEF D
      <4>1. QED
        BY SMTT(30), <1>1, InValuesOf
    <3>2. v \in ValuesOf(C)[k] <=> \E f \in C : f.key = k /\ f.value = v
      BY InValuesOf
    <3>3. v \in g[k] <=> v \in ValuesOf(C)[k] /\ k # key
      BY <1>2
    <3>4. QED
      BY <3>1, <3>2, <3>3
  <2>2. QED
    BY <2>1
<1>4. QED
  <2> HIDE DEF D
  <2>1. ValuesOf(D) = g
    BY <1>2, <1>3, ValuesAreFunctions
  <2>2. QED
    BY <2>1 DEF g, D

LEMMA ContentIsEntries ==
  ASSUME NEW t \in Tables
  PROVE  Content(t) \in SUBSET Entry
  BY DEF Content, Tables, Slot

\* A key's matches are its values, and the answer is one of them.
LEMMA MatchesAreValues ==
  ASSUME NEW t \in Tables, Placed(t), NEW key \in Keys
  PROVE  LET S == Matches(t, key)
             i == LastOf(S)
         IN  /\ S = {} <=> ValuesOf(Content(t))[key] = {}
             /\ S # {} => t[i][Hash[i][key]].value \in ValuesOf(Content(t))[key]
<1> DEFINE S == Matches(t, key)
<1>1. Content(t) \in SUBSET Entry /\ S \in SUBSET Table
  BY ContentIsEntries DEF Matches
<1>2. ASSUME NEW i \in S
      PROVE  t[i][Hash[i][key]].value \in ValuesOf(Content(t))[key]
  <2>1. i \in Table /\ Hash[i][key] \in Pos
    BY <1>1
  <2>2. t[i][Hash[i][key]] # Invalid /\ t[i][Hash[i][key]].key = key
    BY <1>2 DEF Matches, Holds
  <2>3. t[i][Hash[i][key]] \in Content(t)
    BY <2>1, <2>2, InContent
  <2>4. QED
    BY <1>1, <2>2, <2>3, InValuesOf
<1>3. ASSUME NEW v \in ValuesOf(Content(t))[key]
      PROVE  S # {}
  <2>1. PICK e \in Content(t) : e.key = key
    BY <1>1, InValuesOf
  <2>2. PICK i \in Table, p \in Pos : t[i][p] = e /\ e # Invalid
    BY SMTT(30), InContent
  <2>3. Hash[i][key] = p
    BY <2>1, <2>2 DEF Placed
  <2>4. i \in S
    BY <2>1, <2>2, <2>3 DEF Matches, Holds
  <2>5. QED
    BY <2>4
<1> HIDE DEF S
<1>4. S # {} => LastOf(S) \in S
  BY <1>1, LastIsMember
<1>5. QED
  BY <1>2, <1>3, <1>4 DEF S

-----------------------------------------------------------------------------
(* Every step of the kernel is a step of the store or leaves it alone *)

V == ValuesOf(Content(cuckooTables))

LEMMA StoredIsV ==
  V = [key \in Keys |-> {e.value : e \in {s \in Stored : s.key = key}}]
BY DEF V, ValuesOf, Stored, Content

LEMMA InitIsStore == Init => Store!Init
<1> SUFFICES ASSUME Init
             PROVE  Store!Init
  OBVIOUS
<1>1. Stored = {}
  BY DEF Init, Stored
<1>2. \A key \in Keys : {e.value : e \in {s \in Stored : s.key = key}} = {}
  BY <1>1
<1>3. insertFailureCounter = 0
  BY DEF Init
<1>4. QED
  BY <1>2, <1>3 DEF Store!Init

LEMMA LookupIsStore ==
  ASSUME TableInv, Lookup
  PROVE  \E key \in Keys : Store!Lookup(key)
<1> DEFINE key == Head(s_axis_lup_req)
           S == Matches(cuckooTables, key)
           i == LastOf(S)
           w == cuckooTables[i][Hash[i][key]].value
<1>1. key \in Keys
  BY DEF TableInv, Lookup
<1>2. m_axis_lup_rsp' = lookup(cuckooTables, key)
      /\ UNCHANGED <<cuckooTables, insertFailureCounter, m_axis_upd_rsp>>
  BY DEF Lookup
<1>3. m_axis_lup_rsp' = IF S = {} THEN [op |-> "lookup", key |-> key, hit |-> FALSE]
                        ELSE [op |-> "lookup", key |-> key, hit |-> TRUE, value |-> w]
  <2> HIDE DEF key
  <2>1. QED
    BY <1>2 DEF lookup
<1>4. (S = {} <=> V[key] = {}) /\ (S # {} => w \in V[key])
  <2> HIDE DEF key
  <2>1. QED
    BY <1>1, MatchesAreValues DEF V, TableInv
<1> HIDE DEF key, S, w
<1>5. m_axis_lup_rsp' \in (IF V[key] = {} THEN {[op |-> "lookup", key |-> key, hit |-> FALSE]}
                           ELSE {[op |-> "lookup", key |-> key, hit |-> TRUE, value |-> v] : v \in V[key]})
  BY <1>3, <1>4
<1>6. V' = V
  BY <1>2 DEF V
<1>7. Store!Lookup(key)
  <2>1. m_axis_lup_rsp' \in Store!LookupAnswers(key)
    BY <1>5, StoredIsV DEF Store!LookupAnswers
  <2>2. UNCHANGED <<[k \in Keys |-> {e.value : e \in {s \in Stored : s.key = k}}],
                    insertFailureCounter, m_axis_upd_rsp>>
    BY <1>2 DEF Stored
  <2>3. QED
    BY <2>1, <2>2 DEF Store!Lookup
<1>8. QED
  BY <1>1, <1>7

LEMMA RemoveIsStore ==
  ASSUME TableInv, Remove
  PROVE  \E key \in Keys : Store!Delete(key)
<1> DEFINE key == s_axis_upd_req[1].key
           S == Matches(cuckooTables, key)
           i == LastOf(S)
           w == cuckooTables[i][Hash[i][key]].value
<1>1. key \in Keys
  <2>1. Update("KV_DELETE")
    BY DEF Remove
  <2>2. s_axis_upd_req[1] \in UpdReq
    BY <2>1, UpdateRequest
  <2>3. QED
    BY <2>2, RequestKey
<1>2. /\ cuckooTables' = Removed(cuckooTables, key)
      /\ m_axis_upd_rsp' = [op |-> "KV_DELETE", key |-> key, success |-> S # {},
                            value |-> IF S = {} THEN 0 ELSE w]
      /\ UNCHANGED <<insertFailureCounter, m_axis_lup_rsp>>
  BY DEF Remove, Update, Removed
<1> HIDE DEF key
<1>3. (S = {} <=> V[key] = {}) /\ (S # {} => w \in V[key])
  BY <1>1, MatchesAreValues DEF V, TableInv
<1>4. V' = [V EXCEPT ![key] = {}]
  <2>1. Content(Removed(cuckooTables, key)) = {e \in Content(cuckooTables) : e.key # key}
    BY <1>1, RemoveKeeps DEF TableInv
  <2>2. Content(cuckooTables) \in SUBSET Entry
    BY ContentIsEntries DEF TableInv
  <2>3. V' = ValuesOf(Content(Removed(cuckooTables, key)))
    BY <1>2 DEF V
  <2>4. QED
    BY <1>1, <2>1, <2>2, <2>3, ValuesRemoved DEF V
<1> HIDE DEF S, w
<1>5. m_axis_upd_rsp' \in
        (IF V[key] = {} THEN {[op |-> "KV_DELETE", key |-> key, value |-> 0, success |-> FALSE]}
         ELSE {[op |-> "KV_DELETE", key |-> key, value |-> v, success |-> TRUE] : v \in V[key]})
  <2>1. CASE S = {}
    BY <1>2, <1>3, <2>1
  <2>2. CASE S # {}
    <3>1. m_axis_upd_rsp' = [op |-> "KV_DELETE", key |-> key, value |-> w, success |-> TRUE]
      BY <1>2, <2>2
    <3>2. QED
      BY <1>3, <2>2, <3>1
  <2>3. QED
    BY <2>1, <2>2
<1>6. Store!Delete(key)
  <2>1. m_axis_upd_rsp' \in Store!DeleteAnswers(key)
    BY <1>5, StoredIsV DEF Store!DeleteAnswers
  <2>2. V' = [k \in Keys |-> {e.value : e \in {s \in Stored : s.key = k}}]'
    BY DEF V, ValuesOf, Stored, Content
  <2>3. QED
    BY <1>2, <1>4, <2>1, <2>2, StoredIsV DEF Store!Delete
<1>7. QED
  BY <1>1, <1>6

LEMMA InsertIsStore ==
  ASSUME TableInv, Insert
  PROVE  \E key \in Keys, value \in Values : Store!InsertOK(key, value) \/ Store!InsertFails(key, value)
<1>1. PICK key \in Keys, value \in Values :
        s_axis_upd_req[1].key = key /\ s_axis_upd_req[1].value = value
  <2>1. Update("KV_INSERT")
    BY DEF Insert
  <2>2. s_axis_upd_req[1] \in UpdReq /\ s_axis_upd_req[1].op = "KV_INSERT"
    BY <2>1, UpdateRequest
  <2>3. QED
    BY <2>2, RequestKey
<1> DEFINE e == [valid |-> TRUE, key |-> key, value |-> value]
           C == Content(cuckooTables)
           r == insert(key, value)
           answer(success) == [op |-> "KV_INSERT", key |-> key, value |-> value, success |-> success]
           W == [V EXCEPT ![key] = @ \cup {value}]
<1>2. /\ cuckooTables' = r.tables
      /\ insertFailureCounter' = IF r.success THEN insertFailureCounter
                                 ELSE (insertFailureCounter + 1) % CountMod
      /\ m_axis_upd_rsp' = answer(r.success)
      /\ UNCHANGED m_axis_lup_rsp
  BY <1>1 DEF Insert, Update
<1>3. r \in Loop(C \cup {e})
  BY <1>1, InsertKeeps DEF TableInv
<1>4. C \in SUBSET Entry /\ e \in Entry /\ e.key = key /\ e.value = value
  BY <1>1, ContentIsEntries DEF TableInv, Entry
<1> HIDE DEF e, C, r
<1>5. ValuesOf(C \cup {e}) = W
  BY <1>4, ValuesWith DEF V, C
<1>6. V' = ValuesOf(Content(r.tables))
  BY <1>2 DEF V
<1>7. /\ r \in RoundState /\ Content(r.tables) \cup Pending(r) = C \cup {e}
      /\ r.entry \in Entry /\ r.success \in BOOLEAN
  BY <1>3 DEF Loop, RoundState
<1>8. /\ V = [k \in Keys |-> {s.value : s \in {s \in Stored : s.key = k}}]
      /\ V' = [k \in Keys |-> {s.value : s \in {s \in Stored : s.key = k}}]'
  BY DEF V, ValuesOf, Stored, Content
<1> HIDE DEF W, answer
<1>9. ASSUME r.success
      PROVE  Store!InsertOK(key, value)
  <2>1. V' = W
    BY <1>5, <1>6, <1>7, <1>9 DEF Pending
  <2>2. m_axis_upd_rsp' = answer(TRUE) /\ insertFailureCounter' = insertFailureCounter
    BY <1>2, <1>7, <1>9
  <2>3. QED
    BY <1>2, <1>8, <2>1, <2>2 DEF Store!InsertOK, Store!With, W, answer
<1>10. ASSUME ~r.success
       PROVE  Store!InsertFails(key, value)
  <2>1. Content(r.tables) \cup {r.entry} = C \cup {e}
    BY <1>7, <1>10 DEF Pending
  <2>2. m_axis_upd_rsp' = answer(FALSE)
        /\ insertFailureCounter' = (insertFailureCounter + 1) % CountMod
    BY <1>2, <1>7, <1>10
  <2>3. V' = W \/ \E k \in Keys, v \in Values : V' = [W EXCEPT ![k] = @ \ {v}]
    <3>1. CASE r.entry \in Content(r.tables)
      <4>1. Content(r.tables) = C \cup {e}
        BY <2>1, <3>1
      <4>2. QED
        BY <1>5, <1>6, <4>1
    <3>2. CASE r.entry \notin Content(r.tables)
      <4>1. Content(r.tables) = (C \cup {e}) \ {r.entry}
        BY <2>1, <3>2
      <4>2. C \cup {e} \in SUBSET Entry
        BY <1>4
      <4>3. ValuesOf((C \cup {e}) \ {r.entry}) = [W EXCEPT ![r.entry.key] = @ \ {r.entry.value}]
        <5> DEFINE D == C \cup {e}
        <5>1. D \in SUBSET Entry /\ ValuesOf(D) = W
          BY <1>5, <4>2
        <5> HIDE DEF D
        <5>2. ValuesOf(D \ {r.entry}) = [W EXCEPT ![r.entry.key] = @ \ {r.entry.value}]
          BY <1>7, <5>1, ValuesWithout
        <5>3. QED
          BY <5>2 DEF D
      <4>4. r.entry.key \in Keys /\ r.entry.value \in Values
        BY <1>7 DEF Entry
      <4>5. QED
        BY <1>6, <4>1, <4>3, <4>4
    <3>3. QED
      BY <3>1, <3>2
  <2>4. QED
    BY <1>2, <1>8, <2>2, <2>3 DEF Store!InsertFails, Store!With, W, answer
<1>11. Store!InsertOK(key, value) \/ Store!InsertFails(key, value)
  BY <1>7, <1>9, <1>10
<1>12. QED
  BY <1>11

\* The tables are the key-value store of KVStore, whatever the evictions do
\* and whenever the insert loop gives up, hash_table.cpp:56-235.
THEOREM HashTableIsStore == Spec => IsStore
<1>1. Init => Store!Init
  BY InitIsStore
<1>2. TableInv /\ [Next]_vars => [Store!Next]_Store!vars
  <2> SUFFICES ASSUME TableInv, [Next]_vars
               PROVE  Store!Next \/ UNCHANGED Store!vars
    OBVIOUS
  <2>1. CASE Lookup
    BY <2>1, LookupIsStore DEF Store!Next
  <2>2. CASE Insert
    BY <2>2, InsertIsStore DEF Store!Next
  <2>3. CASE Remove
    BY <2>3, RemoveIsStore DEF Store!Next
  <2>4. ASSUME UNCHANGED <<cuckooTables, insertFailureCounter, m_axis_upd_rsp, m_axis_lup_rsp>>
        PROVE  UNCHANGED Store!vars
    BY <2>4 DEF Store!vars, Stored
  <2>5. ASSUME NEW key \in Keys, SendLookup(key)
        PROVE  UNCHANGED Store!vars
    BY <2>4, <2>5 DEF SendLookup
  <2>6. ASSUME NEW request \in UpdReq, SendUpdate(request)
        PROVE  UNCHANGED Store!vars
    BY <2>4, <2>6 DEF SendUpdate
  <2>7. CASE UNCHANGED vars
    BY <2>4, <2>7 DEF vars
  <2>8. QED
    BY <2>1, <2>2, <2>3, <2>5, <2>6, <2>7 DEF Next, hash_table_core
<1>3. QED
  BY <1>1, <1>2, TableInvHolds, PTL DEF Spec, IsStore, Store!Spec

HIDE HashTableAssumption DEF Table, Pos

-----------------------------------------------------------------------------
(* The allocator: its sizes *)

Half == Boxes!Half
Slots == 0..(CacheDepth - 1)
Class == Boxes!Class
Index(c) == Boxes!Index(c)
Words(c) == 0..(Boxes!BRAM_DEPTH(c) - 1)
PointerTo(c, i) == Boxes!PointerTo(c, i)

\* Where a window may begin, and the shapes that a word has until pointers
\* come back to the bit map: some halves of a cache, from bit 0 on.
Multiple == {k * Half : k \in Nat}
Begun(bits) == \E n \in Multiple : n <= MemoryWidth /\ bits = 0..(n - 1)

LEMMA SizesFit ==
  /\ ClassCount \in Nat \ {0} /\ MemoryWidth \in Nat /\ Depth \in Nat /\ CacheDepth \in Nat
  /\ Half \in Nat /\ Half >= 2 /\ CacheDepth = 2 * Half /\ CacheDepth <= MemoryWidth
  /\ Class = 0..(ClassCount - 1) /\ Boxes!Bit = 0..(MemoryWidth - 1)
BY BoxesAssumption DEF Boxes!AllocAssumption, Half, Boxes!Half, Class, Boxes!Class, Boxes!Bit

LEMMA ClassFits ==
  ASSUME NEW c \in Class
  PROVE  /\ 2^c \in Nat \ {0} /\ Boxes!BRAM_DEPTH(c) \in Nat \ {0}
         /\ 2^c * Boxes!BRAM_DEPTH(c) <= Depth
         /\ Index(c) = 0..(MemoryWidth * Boxes!BRAM_DEPTH(c) - 1)
<1>1. 2^c \in 1..Depth /\ Depth \in Nat
  BY BoxesAssumption DEF Boxes!AllocAssumption, Class
<1>2. PICK s : s = 2^c
  OBVIOUS
<1>3. s \in Nat \ {0} /\ s <= Depth
  BY <1>1, <1>2
<1>4. PICK q : q = Depth \div s
  OBVIOUS
<1>5. q \in Nat /\ s * q <= Depth /\ Depth < s * q + s
  BY <1>1, <1>3, <1>4
<1>6. q # 0
  <2>1. s * 0 = 0
    BY <1>3
  <2>2. QED
    BY <1>1, <1>3, <1>5, <2>1
<1>7. QED
  BY <1>2, <1>3, <1>4, <1>5, <1>6 DEF Boxes!BRAM_DEPTH, Index, Boxes!Index

LEMMA MultipleFits ==
  /\ 0 \in Multiple /\ MemoryWidth \in Multiple /\ Half \in Multiple /\ CacheDepth \in Multiple
  /\ Multiple \subseteq Nat
  /\ \A x \in Multiple : x + Half \in Multiple
  /\ \A x, y \in Multiple : x < y => x + Half <= y
<1>1. Half \in Nat /\ Half >= 2 /\ MemoryWidth \in Nat /\ CacheDepth = 2 * Half
  BY SizesFit
<1>2. MemoryWidth \in Multiple
  <2>1. MemoryWidth % Half = 0
    BY BoxesAssumption DEF Boxes!AllocAssumption, Half
  <2>2. MemoryWidth = (MemoryWidth \div Half) * Half + (MemoryWidth % Half)
    BY <1>1
  <2>3. MemoryWidth \div Half \in Nat
    BY <1>1
  <2>4. PICK k \in Nat : k = MemoryWidth \div Half
    BY <2>3
  <2>5. MemoryWidth = k * Half
    BY <1>1, <2>1, <2>2, <2>4
  <2>6. QED
    BY <2>5 DEF Multiple
<1>3. 0 \in Multiple /\ Half \in Multiple /\ CacheDepth \in Multiple
  <2>1. 0 = 0 * Half /\ Half = 1 * Half /\ CacheDepth = 2 * Half
    BY <1>1
  <2>2. QED
    BY <2>1 DEF Multiple
<1>4. Multiple \subseteq Nat
  BY <1>1 DEF Multiple
<1>5. ASSUME NEW x \in Multiple
      PROVE  x + Half \in Multiple
  <2>1. PICK k \in Nat : x = k * Half
    BY DEF Multiple
  <2>2. x + Half = (k + 1) * Half
    BY <1>1, <2>1
  <2>3. QED
    BY <2>2 DEF Multiple
<1>6. ASSUME NEW x \in Multiple, NEW y \in Multiple, x < y
      PROVE  x + Half <= y
  <2>1. PICK j \in Nat, k \in Nat : x = j * Half /\ y = k * Half
    BY DEF Multiple
  <2>2. j < k
    BY <1>1, <1>6, <2>1
  <2>3. j * Half + Half <= k * Half
    BY <1>1, <2>2
  <2>4. QED
    BY <2>1, <2>3
<1>7. QED
  BY <1>2, <1>3, <1>4, <1>5, <1>6

\* A word and a bit for every index, and back.
LEMMA IndexFits ==
  ASSUME NEW c \in Class
  PROVE  /\ \A i \in Index(c) : /\ i \div MemoryWidth \in Words(c)
                                /\ i % MemoryWidth \in Boxes!Bit
                                /\ i = (i \div MemoryWidth) * MemoryWidth + (i % MemoryWidth)
         /\ \A w \in Words(c), b \in Boxes!Bit :
              /\ b + w * MemoryWidth \in Index(c)
              /\ (b + w * MemoryWidth) \div MemoryWidth = w
              /\ (b + w * MemoryWidth) % MemoryWidth = b
<1>1. PICK D, W : D = Boxes!BRAM_DEPTH(c) /\ W = MemoryWidth
  OBVIOUS
<1>2. D \in Nat \ {0} /\ W \in Nat \ {0} /\ Index(c) = 0..(W * D - 1) /\ Words(c) = 0..(D - 1)
      /\ Boxes!Bit = 0..(W - 1)
  BY <1>1, ClassFits, SizesFit DEF Words
<1>3. ASSUME NEW i \in Index(c)
      PROVE  i \div W \in 0..(D - 1) /\ i % W \in 0..(W - 1) /\ i = (i \div W) * W + (i % W)
  <2>1. i \in Nat /\ i < W * D
    BY <1>2
  <2>2. PICK q : q = i \div W
    OBVIOUS
  <2>3. q \in Nat /\ q * W <= i
    BY <1>2, <2>1, <2>2
  <2>4. q < D
    <3>1. SUFFICES ASSUME D <= q
                   PROVE  FALSE
      BY <1>2, <2>3
    <3>2. D * W <= q * W
      BY <1>2, <2>3, <3>1
    <3>3. QED
      BY <1>2, <2>1, <2>3, <3>2
  <2>5. i % W \in 0..(W - 1) /\ i = (i \div W) * W + (i % W)
    BY <1>2, <2>1
  <2>6. QED
    BY <1>2, <2>2, <2>3, <2>4, <2>5
<1>4. ASSUME NEW w \in 0..(D - 1), NEW b \in 0..(W - 1)
      PROVE  /\ b + w * W \in Index(c)
             /\ (b + w * W) \div W = w
             /\ (b + w * W) % W = b
  <2>1. w * W + W <= D * W
    BY <1>2
  <2>2. w * W \in Nat /\ b + w * W \in Nat /\ D * W = W * D
    BY <1>2
  <2>3. b + w * W \in Index(c)
    BY <1>2, <2>1, <2>2
  <2>4. (b + w * W) \div W = w /\ (b + w * W) % W = b
    BY <1>2
  <2>5. QED
    BY <2>3, <2>4
<1>5. ASSUME NEW i \in Index(c)
      PROVE  /\ i \div MemoryWidth \in Words(c)
             /\ i % MemoryWidth \in Boxes!Bit
             /\ i = (i \div MemoryWidth) * MemoryWidth + (i % MemoryWidth)
  BY <1>1, <1>2, <1>3
<1>6. ASSUME NEW w \in Words(c), NEW b \in Boxes!Bit
      PROVE  /\ b + w * MemoryWidth \in Index(c)
             /\ (b + w * MemoryWidth) \div MemoryWidth = w
             /\ (b + w * MemoryWidth) % MemoryWidth = b
  BY <1>1, <1>2, <1>4
<1>7. QED
  BY <1>5, <1>6

LEMMA PointerFits ==
  ASSUME NEW c \in Class, NEW i \in Index(c)
  PROVE  /\ PointerTo(c, i) \in Boxes!Pointer
         /\ Boxes!ClassOf(PointerTo(c, i)) = c
         /\ Boxes!IndexOf(PointerTo(c, i)) = i
<1>1. PICK s, D, K, W : s = 2^c /\ D = Boxes!BRAM_DEPTH(c) /\ K = MemoryWidth * Depth
               /\ W = MemoryWidth
  OBVIOUS
<1>2. /\ s \in Nat \ {0} /\ D \in Nat \ {0} /\ W \in Nat \ {0} /\ Depth \in Nat /\ s * D <= Depth
      /\ i \in Nat /\ i < W * D /\ c \in Nat /\ c < ClassCount /\ ClassCount \in Nat /\ K \in Nat
      /\ K = W * Depth
  <2>1. /\ s \in Nat \ {0} /\ D \in Nat \ {0} /\ Depth \in Nat /\ s * D <= Depth
        /\ W \in Nat /\ W # 0 /\ Index(c) = 0..(W * D - 1)
    BY <1>1, ClassFits, SizesFit
  <2>2. i \in Nat /\ i < W * D
    BY <2>1
  <2>3. c \in Nat /\ c < ClassCount /\ ClassCount \in Nat
    BY SizesFit
  <2>4. K = W * Depth /\ K \in Nat
    BY <1>1, <2>1
  <2>5. QED
    BY <2>1, <2>2, <2>3, <2>4
<1>3. s * i < K
  <2>1. s * i + s <= s * (W * D)
    BY <1>2
  <2>2. s * (W * D) = W * (s * D) /\ W * (s * D) <= W * Depth
    BY <1>2
  <2>3. s * i \in Nat /\ s * (W * D) \in Nat
    BY <1>2
  <2>4. QED
    BY <1>2, <2>1, <2>2, <2>3
<1>4. PICK x, p, base : x = s * i /\ p = PointerTo(c, i) /\ base = c * K
  OBVIOUS
<1>5. x \in Nat /\ x < K /\ base \in Nat /\ K # 0
  BY <1>2, <1>3, <1>4
<1>6. p = x + base /\ Boxes!CLASS_BASE(c) = base
  BY <1>1, <1>2, <1>4 DEF PointerTo, Boxes!PointerTo, Boxes!neededsize, Boxes!CLASS_BASE
<1>7. Boxes!ClassOf(p) = c
  <2>1. (x + c * K) \div K = c
    BY <1>2, <1>5
  <2>2. QED
    BY <1>1, <1>4, <1>6, <2>1 DEF Boxes!ClassOf
<1>8. Boxes!IndexOf(p) = i
  <2>1. Boxes!IndexOf(p) = (p - base) \div s
    BY <1>1, <1>6, <1>7 DEF Boxes!IndexOf, Boxes!neededsize
  <2>2. p - base = s * i
    BY <1>4, <1>5, <1>6
  <2>3. (0 + i * s) \div s = i
    BY <1>2
  <2>4. 0 + i * s = s * i
    BY <1>2
  <2>5. QED
    BY <2>1, <2>2, <2>3, <2>4
<1>9. p \in Boxes!Pointer
  <2>1. base + K <= ClassCount * K
    BY <1>2, <1>4
  <2>2. ClassCount * MemoryWidth * Depth = ClassCount * K
    BY <1>1, <1>2
  <2>3. ClassCount * K \in Nat
    BY <1>2
  <2>4. p \in Nat /\ p < ClassCount * K
    <3>1. PICK top : top = ClassCount * K
      OBVIOUS
    <3>2. base + K <= top /\ top \in Nat /\ K \in Nat
      BY <1>2, <2>1, <2>3, <3>1
    <3>3. p \in Nat /\ p < top
      BY <1>5, <1>6, <3>2
    <3>4. QED
      BY <3>1, <3>3
  <2>5. Boxes!Pointer = 0..(ClassCount * K - 1)
    BY <2>2 DEF Boxes!Pointer
  <2>6. QED
    BY <2>3, <2>4, <2>5
<1>10. QED
  BY <1>4, <1>7, <1>8, <1>9

-----------------------------------------------------------------------------
(* The search for free bits in a window *)

LEMMA LeastExists ==
  ASSUME NEW W \in SUBSET Nat, W # {}
  PROVE  \E x \in W : \A y \in W : x <= y
<1>1. IsWellFoundedOn(Less, Nat)
  BY NatLessThanWellFounded DEF OpToRel, Less
<1>2. PICK x \in W : \A y \in W : <<y, x>> \notin Less
  BY <1>1, WFMin
<1>3. \A y \in W : ~(y < x)
  BY <1>2 DEF Less
<1>4. QED
  BY <1>3

\* The numbers of a set below one of its numbers, and the number that has k of
\* the set below it.
Below(W, b) == {a \in W : a < b}
Nth(W, k) == CHOOSE b \in W : Cardinality(Below(W, b)) = k

LEMMA NthExists ==
  ASSUME NEW W \in SUBSET Nat, IsFiniteSet(W)
  PROVE  \A k \in Nat : k < Cardinality(W) => \E b \in W : Cardinality(Below(W, b)) = k
<1> DEFINE S == {k \in Nat : k < Cardinality(W) => \E b \in W : Cardinality(Below(W, b)) = k}
<1>1. 0 \in S
  <2>1. SUFFICES ASSUME 0 < Cardinality(W)
                 PROVE  \E b \in W : Cardinality(Below(W, b)) = 0
    OBVIOUS
  <2>2. W # {}
    BY <2>1, FS_EmptySet
  <2>3. PICK x \in W : \A y \in W : x <= y
    BY <2>2, LeastExists
  <2>4. Below(W, x) = {}
    <3>1. \A a \in W : ~(a < x)
      BY <2>3
    <3>2. QED
      BY <3>1 DEF Below
  <2>5. QED
    BY <2>4, FS_EmptySet
<1>2. ASSUME NEW k \in Nat, k \in S
      PROVE  k + 1 \in S
  <2>1. SUFFICES ASSUME k + 1 < Cardinality(W)
                 PROVE  \E b \in W : Cardinality(Below(W, b)) = k + 1
    OBVIOUS
  <2>2. Cardinality(W) \in Nat
    BY FS_CardinalityType
  <2>3. PICK b \in W : Cardinality(Below(W, b)) = k
    BY <1>2, <2>1, <2>2
  <2>4. PICK L : L = Below(W, b) \cup {b}
    OBVIOUS
  <2>5. Below(W, b) \subseteq W /\ b \notin Below(W, b) /\ IsFiniteSet(Below(W, b))
    <3>1. Below(W, b) \subseteq W /\ b \notin Below(W, b)
      BY DEF Below
    <3>2. QED
      BY <3>1, FS_Subset
  <2>6. Cardinality(L) = k + 1 /\ L \subseteq W
    BY <2>3, <2>4, <2>5, FS_AddElement
  <2>7. W \ L # {}
    <3>1. W # L
      BY <2>1, <2>2, <2>6
    <3>2. QED
      BY <2>6, <3>1
  <2>8. PICK x \in W \ L : \A y \in W \ L : x <= y
    <3>1. W \ L \in SUBSET Nat
      OBVIOUS
    <3>2. QED
      BY <2>7, <3>1, LeastExists
  <2>9. Below(W, x) = L
    <3>1. \A a \in W : a \in L <=> a < b \/ a = b
      BY <2>4 DEF Below
    <3>2. b < x
      BY <2>8, <3>1
    <3>3. \A a \in W : a < x <=> a \in L
      BY <2>8, <3>1, <3>2
    <3>4. QED
      BY <2>6, <3>3 DEF Below
  <2>10. QED
    BY <2>6, <2>8, <2>9
<1>3. Nat \subseteq S
  <2> HIDE DEF S
  <2>1. QED
    BY <1>1, <1>2, SetInduction
<1>4. QED
  BY <1>3

LEMMA SameCardinality == \A S : Boxes!Cardinality(S) = Cardinality(S)
BY DEF Boxes!Cardinality, Cardinality

\* The bits that a search finds are bits of the word that were free, no two
\* the same.
LEMMA FreeBitsFit ==
  ASSUME NEW r, r.exe_ptr \in Nat
  PROVE  /\ Cardinality(Boxes!Window(r)) \in Nat
         /\ Boxes!cnt(r) \in 0..Half /\ Boxes!cnt(r) <= Cardinality(Boxes!Window(r))
         /\ \A k \in 0..(Boxes!cnt(r) - 1) :
              Boxes!FreeBit(r, k) \in Boxes!Bit /\ Boxes!FreeBit(r, k) \notin r.buf
         /\ \A j, k \in 0..(Boxes!cnt(r) - 1) :
              Boxes!FreeBit(r, j) = Boxes!FreeBit(r, k) => j = k
<1>1. PICK W : W = Boxes!Window(r)
  OBVIOUS
<1>2. W \subseteq Boxes!Bit /\ W \cap r.buf = {} /\ W \in SUBSET Nat
  BY <1>1, SizesFit DEF Boxes!Window
<1>3. IsFiniteSet(W) /\ Cardinality(W) \in Nat
  <2>1. IsFiniteSet(Boxes!Bit)
    BY SizesFit, FS_Interval
  <2>2. QED
    BY <1>2, <2>1, FS_Subset, FS_CardinalityType
<1>4. Boxes!cnt(r) = IF Cardinality(W) < Half THEN Cardinality(W) ELSE Half
  <2>1. Boxes!cnt(r) = IF Cardinality(Boxes!Window(r)) < Boxes!Half
                       THEN Cardinality(Boxes!Window(r)) ELSE Boxes!Half
    BY SameCardinality DEF Boxes!cnt
  <2>2. QED
    BY <1>1, <2>1 DEF Half
<1>5. \A k : Boxes!FreeBit(r, k) = Nth(W, k)
  <2>1. \A k : Boxes!FreeBit(r, k) = Nth(Boxes!Window(r), k)
    BY SameCardinality DEF Boxes!FreeBit, Nth, Below
  <2>2. QED
    BY <1>1, <2>1
<1>6. ASSUME NEW k \in 0..(Boxes!cnt(r) - 1)
      PROVE  Nth(W, k) \in W /\ Cardinality(Below(W, Nth(W, k))) = k
  <2>1. k \in Nat /\ k < Cardinality(W)
    BY <1>3, <1>4, SizesFit
  <2>2. \E b \in W : Cardinality(Below(W, b)) = k
    BY <1>2, <1>3, <2>1, NthExists
  <2>3. QED
    BY <2>2 DEF Nth
<1>7. Boxes!cnt(r) \in 0..Half /\ Boxes!cnt(r) <= Cardinality(W)
  BY <1>3, <1>4, SizesFit
<1>8. ASSUME NEW j \in 0..(Boxes!cnt(r) - 1), NEW k \in 0..(Boxes!cnt(r) - 1), Nth(W, j) = Nth(W, k)
      PROVE  j = k
  BY <1>6, <1>8
<1>9. QED
  BY <1>1, <1>2, <1>3, <1>5, <1>6, <1>7, <1>8

LEMMA NextWindow ==
  ASSUME NEW x \in Multiple, x < MemoryWidth
  PROVE  /\ (x + Half) % MemoryWidth \in Multiple
         /\ (x + Half) % MemoryWidth < MemoryWidth
         /\ (x + Half) % MemoryWidth = IF x + Half = MemoryWidth THEN 0 ELSE x + Half
<1>1. /\ x \in Nat /\ x + Half \in Multiple /\ x + Half <= MemoryWidth /\ 0 \in Multiple
      /\ Half \in Nat /\ MemoryWidth \in Nat /\ MemoryWidth > 0
  BY MultipleFits, SizesFit
<1>2. CASE x + Half = MemoryWidth
  <2>1. MemoryWidth % MemoryWidth = 0
    BY <1>1
  <2>2. QED
    BY <1>1, <1>2, <2>1
<1>3. CASE x + Half < MemoryWidth
  <2>1. (x + Half) % MemoryWidth = x + Half
    BY <1>1, <1>3
  <2>2. QED
    BY <1>1, <1>3, <2>1
<1>4. QED
  BY <1>1, <1>2, <1>3

\* In a word of which the bits from n on are free, a search finds the next
\* half of a cache, or none if the window is full.
LEMMA SearchOfBegun ==
  ASSUME NEW r, r.exe_ptr \in Multiple, r.exe_ptr < MemoryWidth,
         NEW n \in Multiple, n <= MemoryWidth, r.exe_ptr <= n, r.buf = 0..(n - 1)
  PROVE  /\ Boxes!cnt(r) \in {0, Half}
         /\ Boxes!cnt(r) = 0 => (r.exe_ptr + Half) % MemoryWidth <= n
         /\ Boxes!cnt(r) = Half =>
              /\ n + Half <= MemoryWidth
              /\ (r.exe_ptr + Half) % MemoryWidth <= n + Half
              /\ \A k \in 0..(Half - 1) : Boxes!FreeBit(r, k) = n + k
<1>1. PICK e, W : e = r.exe_ptr /\ W = Boxes!Window(r)
  OBVIOUS
<1>2. /\ e \in Multiple /\ e \in Nat /\ e < MemoryWidth /\ n \in Nat /\ MemoryWidth \in Nat
      /\ Half \in Nat
      /\ Half >= 2 /\ CacheDepth = 2 * Half /\ e + Half \in Multiple /\ e + CacheDepth \in Multiple
      /\ MemoryWidth \in Multiple /\ e + Half <= MemoryWidth
  <2>1. e \in Multiple /\ e + Half \in Multiple
    BY <1>1, MultipleFits
  <2>2. (e + Half) + Half \in Multiple
    BY <2>1, MultipleFits
  <2>3. /\ e \in Nat /\ e < MemoryWidth /\ n \in Nat /\ MemoryWidth \in Nat /\ Half \in Nat
        /\ Half >= 2 /\ CacheDepth = 2 * Half /\ MemoryWidth \in Multiple
    BY <1>1, <2>1, MultipleFits, SizesFit
  <2>4. e + Half <= MemoryWidth
    BY <2>1, <2>3, MultipleFits
  <2>5. e + CacheDepth = (e + Half) + Half
    BY <2>3
  <2>6. QED
    BY <2>1, <2>2, <2>3, <2>4, <2>5
<1>3. PICK top : top = IF e + CacheDepth <= MemoryWidth THEN e + CacheDepth ELSE MemoryWidth
  OBVIOUS
<1>4. top \in Multiple /\ top \in Nat /\ top <= MemoryWidth /\ e + Half <= top
  <2>1. CASE e + CacheDepth <= MemoryWidth
    <3>1. top = e + CacheDepth
      BY <1>3, <2>1
    <3>2. top \in Nat /\ e + Half <= top
      BY <1>2, <3>1
    <3>3. QED
      BY <1>2, <2>1, <3>1, <3>2
  <2>2. CASE ~(e + CacheDepth <= MemoryWidth)
    BY <1>2, <1>3, <2>2
  <2>3. QED
    BY <2>1, <2>2
<1>5. W = n..(top - 1)
  <2>1. W = {b \in e..(e + CacheDepth - 1) : b < MemoryWidth /\ b \notin 0..(n - 1)}
    BY <1>1 DEF Boxes!Window
  <2>2. \A b : b \in e..(e + CacheDepth - 1) /\ b < MemoryWidth <=> b \in e..(top - 1)
    BY <1>2, <1>3
  <2>3. \A b : b \in e..(top - 1) /\ b \notin 0..(n - 1) <=> b \in n..(top - 1)
    <3>1. e <= n
      BY <1>1
    <3>2. QED
      BY <1>2, <1>4, <3>1
  <2>4. QED
    BY <2>1, <2>2, <2>3
<1>6. Cardinality(W) = IF n > top - 1 THEN 0 ELSE top - 1 - n + 1
  BY <1>2, <1>4, <1>5, FS_Interval
<1>7. Boxes!cnt(r) = IF Cardinality(W) < Half THEN Cardinality(W) ELSE Half
  <2>1. Boxes!cnt(r) = IF Cardinality(Boxes!Window(r)) < Boxes!Half
                       THEN Cardinality(Boxes!Window(r)) ELSE Boxes!Half
    BY SameCardinality DEF Boxes!cnt
  <2>2. QED
    BY <1>1, <2>1 DEF Half
<1>8. (e + Half) % MemoryWidth = IF e + Half = MemoryWidth THEN 0 ELSE e + Half
  BY <1>2, NextWindow
<1>9. CASE n >= top
  <2>1. Boxes!cnt(r) = 0
    BY <1>2, <1>4, <1>6, <1>7, <1>9
  <2>2. (e + Half) % MemoryWidth <= n
    BY <1>2, <1>4, <1>8, <1>9
  <2>3. QED
    BY <1>1, <1>2, <2>1, <2>2
<1>10. CASE n < top
  <2>1. n + Half <= top
    BY <1>4, <1>10, MultipleFits
  <2>2. Boxes!cnt(r) = Half
    BY <1>2, <1>4, <1>6, <1>7, <1>10, <2>1
  <2>3. (e + Half) % MemoryWidth <= n + Half
    <3>1. e <= n
      BY <1>1
    <3>2. QED
      BY <1>2, <1>8, <3>1
  <2>4. ASSUME NEW k \in 0..(Half - 1)
        PROVE  Boxes!FreeBit(r, k) = n + k
    <3>1. \A b \in W : Cardinality(Below(W, b)) = b - n
      <4>1. TAKE b \in W
      <4>2. b \in Nat /\ n <= b /\ b < top
        BY <1>2, <1>4, <1>5
      <4>3. Below(W, b) = n..(b - 1)
        BY <1>2, <1>4, <1>5, <4>2 DEF Below
      <4>4. Cardinality(n..(b - 1)) = IF n > b - 1 THEN 0 ELSE (b - 1) - n + 1
        BY <1>2, <4>2, FS_Interval
      <4>5. QED
        BY <1>2, <4>2, <4>3, <4>4
    <3>2. n + k \in W /\ (n + k) - n = k
      BY <1>2, <1>4, <1>5, <2>1
    <3>3. Boxes!FreeBit(r, k) = Nth(W, k)
      <4>1. Boxes!FreeBit(r, k) = Nth(Boxes!Window(r), k)
        BY SameCardinality DEF Boxes!FreeBit, Nth, Below
      <4>2. QED
        BY <1>1, <4>1
    <3>4. Nth(W, k) \in W /\ Cardinality(Below(W, Nth(W, k))) = k
      BY <3>1, <3>2 DEF Nth
    <3>5. PICK b \in W : b = Nth(W, k)
      BY <3>4
    <3>6. b - n = k /\ b \in Nat
      BY <1>2, <1>5, <3>1, <3>4, <3>5
    <3>7. QED
      BY <1>2, <3>3, <3>5, <3>6
  <2>5. QED
    BY <1>1, <1>2, <1>4, <2>1, <2>2, <2>3, <2>4
<1>11. QED
  BY <1>2, <1>4, <1>9, <1>10

-----------------------------------------------------------------------------
(* The state of the allocator: types, and what the client keeps to *)

RefillStates ==
    {"ST_CLEAR_BIT_MAP", "ST_ALLOC_RECYCLE_IDLE", "ST_ALLOC_RECYCLE_BEGIN", "ST_ALLOC_RECYCLE_EXE",
     "ST_ALLOC_RECYCLE_EXE_WRITE_BACK", "ST_ALLOC_RECYCLE_EXE_READ",
         "ST_ALLOC_RECYCLE_EXE_READ_GET"}
RecycleStates ==
    {"ST_FREE_RECYCLE_BEGIN", "ST_FREE_RECYCLE_DECIDE_READ", "ST_FREE_RECYCLE_WRITE_BUF",
     "ST_FREE_RECYCLE_WRITE_BACK"}
Refills(c) ==
    [state: RefillStates, clear_counter: Nat, addr_counter: Words(c), back: BOOLEAN, got: Slots,
     not_first: BOOLEAN, exe_ptr: Boxes!Bit, buf: SUBSET Boxes!Bit, cache: [Slots -> Index(c)],
     front_ready: BOOLEAN, back_ready: BOOLEAN, ready: BOOLEAN, has_recycled: BOOLEAN,
     addra: Nat, dina: SUBSET Boxes!Bit, wea: BOOLEAN]
Recycles(c) ==
    [state: RecycleStates, pointer: Index(c), buf: SUBSET Boxes!Bit, addrb: Words(c),
     dinb: SUBSET Boxes!Bit, web: BOOLEAN, hit: BOOLEAN, bit: Boxes!Bit]

IsBox(p) == \E c \in Class : \E i \in Index(c) : p = PointerTo(c, i)
Idle(c) == recycle[c].state = "ST_FREE_RECYCLE_BEGIN" /\ ~recycle[c].hit /\ ~recycle[c].web

ClassTypes(c) ==
    /\ refill[c] \in Refills(c) /\ recycle[c] \in Recycles(c)
    /\ DOMAIN bram[c] = Words(c) /\ \A w \in Words(c) : bram[c][w] \subseteq Boxes!Bit
    /\ cache_counter_alloc[c] \in Slots /\ clear_has_recycled[c] \in BOOLEAN
    /\ free_ring[c] \in Seq(Index(c)) /\ Len(free_ring[c]) < CacheDepth
    /\ recycle_ring[c] \in Seq(Index(c)) /\ Len(recycle_ring[c]) < CacheDepth

Types ==
    /\ alloc_state \in {"ST_ALLOC_IDLE", "ST_ALLOC_BEGIN", "ST_ALLOC_DECIDE"}
    /\ free_state \in {"ST_FREE_BEGIN", "ST_FREE_DECIDE_QUEUE"}
    /\ in_class \in Class /\ req_ready \in BOOLEAN /\ alloc_valid \in BOOLEAN
    /\ free_ready \in BOOLEAN /\ alloc_busy \in BOOLEAN
    /\ alloc_pointer \in Boxes!Pointer /\ free_pointer_buf \in Boxes!Pointer
    /\ cache_counter_alloc = [c \in Class |-> cache_counter_alloc[c]]
    /\ \A p \in held : IsBox(p)
    /\ alloc_valid => IsBox(alloc_pointer)
    /\ Boxes!Deciding => IsBox(free_pointer_buf)
    /\ \A c \in Class : ClassTypes(c)

\* The client waits for an answer before it asks again, and for the end of
\* start-up before it asks at all.
Client ==
    /\ req_ready <=> alloc_state # "ST_ALLOC_DECIDE"
    /\ alloc_valid => alloc_busy
    /\ alloc_state = "ST_ALLOC_DECIDE" => alloc_busy /\ ~alloc_valid
    /\ free_ready <=> ~Boxes!Deciding
    /\ \A c \in Class : clear_has_recycled[c] => alloc_valid
    /\ alloc_state # "ST_ALLOC_IDLE" => \A c \in Class : refill[c].ready
    /\ alloc_state = "ST_ALLOC_IDLE" =>
         /\ ~alloc_valid /\ ~Boxes!Deciding /\ held = {} /\ overflowed = {}
         /\ \A c \in Class : /\ free_ring[c] = <<>> /\ recycle_ring[c] = <<>> /\ Idle(c)
                             /\ cache_counter_alloc[c] = 0 /\ ~clear_has_recycled[c]

-----------------------------------------------------------------------------
(* A cycle, and what it does for a class *)

Step(request, rdy, free) ==
    /\ Boxes!Clock(request, rdy, free)
    /\ request \in Boxes!Requests /\ rdy \in BOOLEAN /\ free \in Boxes!Frees

\* A box leaves the ring, or the cache, for the output register.
Reuses(c, rdy) == Boxes!FromRing(rdy) /\ in_class = c
Delivers(c, rdy) == Boxes!FromCache(rdy) /\ in_class = c
Accepts(c, request) ==
    alloc_state = "ST_ALLOC_BEGIN" /\ request # Boxes!None /\ req_ready /\ request.class = c
Waits(c) == alloc_state = "ST_ALLOC_DECIDE" /\ in_class = c
\* A free comes in, or goes to one of the rings.
Frees(free) == free # Boxes!None /\ free_ready

LEMMA RequestFits ==
  ASSUME NEW request \in Boxes!Requests, request # Boxes!None
  PROVE  /\ request.class \in Class /\ alloc_state # "ST_ALLOC_IDLE" /\ ~alloc_busy
         /\ Boxes!Quiet(request.class) /\ request.class \notin overflowed
<1>1. PICK S : S = {c \in Boxes!Class :
                      /\ alloc_state # "ST_ALLOC_IDLE" /\ ~alloc_busy
                      /\ Boxes!Quiet(c) /\ c \notin overflowed
                      /\ Boxes!Cardinality({p \in held : Boxes!ClassOf(p) = c}) < MaxHeld[c]}
  OBVIOUS
<1>2. request \in {[class |-> c] : c \in S}
  BY <1>1 DEF Boxes!Requests
<1>3. request.class \in S
  BY <1>2
<1>4. QED
  BY <1>1, <1>3 DEF Class

LEMMA AllocMoves ==
  ASSUME Types, Client, NEW request, NEW rdy, NEW free, Step(request, rdy, free)
  PROVE  /\ in_class' \in Class
         /\ alloc_state' \in {"ST_ALLOC_IDLE", "ST_ALLOC_BEGIN", "ST_ALLOC_DECIDE"}
         /\ req_ready' \in BOOLEAN /\ (req_ready' <=> alloc_state' # "ST_ALLOC_DECIDE")
         /\ alloc_valid' \in BOOLEAN
         /\ alloc_valid' <=> (alloc_valid /\ ~rdy) \/ Boxes!FromRing(rdy) \/ Boxes!FromCache(rdy)
         /\ Boxes!FromRing(rdy) => alloc_pointer' = PointerTo(in_class, Head(free_ring[in_class]))
         /\ Boxes!FromCache(rdy) =>
              alloc_pointer' = PointerTo(in_class, refill[in_class].cache[cache_counter_alloc[in_class]])
         /\ ~Boxes!FromRing(rdy) /\ ~Boxes!FromCache(rdy) =>
              alloc_pointer' = IF Boxes!Taken(rdy) THEN 0 ELSE alloc_pointer
         /\ \A c \in Class :
              /\ Delivers(c, rdy) => cache_counter_alloc'[c] = (cache_counter_alloc[c] + 1) % CacheDepth
              /\ ~Delivers(c, rdy) => cache_counter_alloc'[c] = cache_counter_alloc[c]
              /\ clear_has_recycled'[c] \in BOOLEAN
              /\ clear_has_recycled'[c] <=> Delivers(c, rdy)
         /\ cache_counter_alloc' = [c \in Class |-> cache_counter_alloc'[c]]
         /\ \A c \in Class : Waits(c)' <=> Accepts(c, request)
                               \/ (Waits(c) /\ ~Boxes!FromRing(rdy) /\ ~Boxes!FromCache(rdy))
         /\ alloc_state' = "ST_ALLOC_IDLE" <=>
              alloc_state = "ST_ALLOC_IDLE" /\ ~ \A c \in Class : refill[c].ready
         /\ alloc_state' = "ST_ALLOC_DECIDE" => \E c \in Class : Waits(c)'
<1>1. Boxes!AllocStep(request, rdy) /\ rdy \in BOOLEAN /\ request \in Boxes!Requests
  BY DEF Step, Boxes!Clock
<1>2. /\ in_class \in Class /\ alloc_valid \in BOOLEAN /\ req_ready \in BOOLEAN
      /\ cache_counter_alloc = [c \in Class |-> cache_counter_alloc[c]]
      /\ req_ready <=> alloc_state # "ST_ALLOC_DECIDE"
      /\ alloc_state = "ST_ALLOC_DECIDE" => ~alloc_valid
  BY DEF Types, Client
<1>3. request # Boxes!None => request.class \in Class
  BY <1>1, RequestFits
<1> USE DEF Waits, Accepts, Delivers, PointerTo, Class
<1>4. CASE Boxes!AllocIdle(rdy)
  BY <1>1, <1>2, <1>4 DEF Boxes!AllocIdle, Boxes!KeepAnswer, Boxes!FromRing, Boxes!FromCache,
                          Boxes!Taken
<1>5. CASE Boxes!AllocBegin(request, rdy)
  BY <1>1, <1>2, <1>3, <1>5 DEF Boxes!AllocBegin, Boxes!KeepAnswer, Boxes!FromRing, Boxes!FromCache,
                          Boxes!Taken
<1>6. CASE Boxes!DecideRing(rdy)
  BY <1>1, <1>2, <1>6 DEF Boxes!DecideRing, Boxes!Answer, Boxes!FromRing, Boxes!FromCache,
                          Boxes!Taken
<1>7. CASE Boxes!DecideCache(rdy)
  BY <1>1, <1>2, <1>7 DEF Boxes!DecideCache, Boxes!Answer, Boxes!FromRing, Boxes!FromCache,
                          Boxes!Taken
<1>8. CASE Boxes!DecideWait(rdy)
  BY <1>1, <1>2, <1>8 DEF Boxes!DecideWait, Boxes!KeepAnswer, Boxes!FromRing, Boxes!FromCache,
                          Boxes!Taken
<1>9. QED
  BY <1>1, <1>4, <1>5, <1>6, <1>7, <1>8 DEF Boxes!AllocStep

LEMMA FreeFits ==
  ASSUME NEW free \in Boxes!Frees, free # Boxes!None
  PROVE  free.pointer \in held
<1>1. PICK S : S = {p \in held : (\A q \in held : q <= p) \/ (\A q \in held : p <= q)}
  OBVIOUS
<1>2. free \in {[pointer |-> p] : p \in S}
  BY <1>1 DEF Boxes!Frees
<1>3. free.pointer \in S
  BY <1>2
<1>4. QED
  BY <1>1, <1>3

LEMMA FreeMoves ==
  ASSUME Types, Client, NEW request, NEW rdy, NEW free, Step(request, rdy, free)
  PROVE  /\ free_state' \in {"ST_FREE_BEGIN", "ST_FREE_DECIDE_QUEUE"}
         /\ free_ready' \in BOOLEAN /\ (free_ready' <=> ~Boxes!Deciding')
         /\ Frees(free) => /\ free.pointer \in held /\ ~Boxes!Deciding
                           /\ free_pointer_buf' = free.pointer
         /\ ~Frees(free) => free_pointer_buf' = free_pointer_buf
         /\ Boxes!Deciding' <=> Frees(free) \/ (Boxes!Deciding /\ ~Boxes!ToRing /\ ~Boxes!ToRecycle)
         /\ Boxes!ToRing \/ Boxes!ToRecycle => Boxes!Deciding
<1>1. Boxes!FreeStep(free) /\ free \in Boxes!Frees
  BY DEF Step, Boxes!Clock
<1>2. free # Boxes!None => free.pointer \in held
  BY <1>1, FreeFits
<1>3. /\ free_state \in {"ST_FREE_BEGIN", "ST_FREE_DECIDE_QUEUE"} /\ free_ready \in BOOLEAN
      /\ free_ready <=> ~Boxes!Deciding
  BY DEF Types, Client
<1>4. CASE Boxes!FreeBegin(free)
  BY <1>2, <1>3, <1>4 DEF Boxes!FreeBegin, Boxes!Deciding, Frees, Boxes!ToRing, Boxes!ToRecycle
<1>5. CASE Boxes!FreeDecide
  BY <1>2, <1>3, <1>5 DEF Boxes!FreeDecide, Boxes!Deciding, Frees, Boxes!ToRing, Boxes!ToRecycle
<1>6. QED
  BY <1>1, <1>4, <1>5 DEF Boxes!FreeStep

LEMMA ClientMoves ==
  ASSUME NEW request, NEW rdy, NEW free, Step(request, rdy, free)
  PROVE  /\ held' = (held \cup (IF Boxes!Taken(rdy) THEN {alloc_pointer} ELSE {}))
                    \ (IF Frees(free) THEN {free.pointer} ELSE {})
         /\ alloc_busy' = IF request # Boxes!None /\ req_ready THEN TRUE
                          ELSE alloc_busy /\ ~Boxes!Taken(rdy)
         /\ overflowed' = overflowed \cup (IF Boxes!ToRecycle THEN {Boxes!free_class} ELSE {})
BY DEF Step, Boxes!Clock, Boxes!ClientStep, Frees

-----------------------------------------------------------------------------
(* Rings *)

Elements(s) == {s[k] : k \in 1..Len(s)}
Distinct(s) == \A j, k \in 1..Len(s) : s[j] = s[k] => j = k

LEMMA RingPops ==
  ASSUME NEW S, NEW s \in Seq(S), s # <<>>
  PROVE  /\ Tail(s) \in Seq(S) /\ Len(Tail(s)) = Len(s) - 1 /\ Head(s) \in S
         /\ Head(s) \in Elements(s)
         /\ Distinct(s) => /\ Elements(Tail(s)) = Elements(s) \ {Head(s)}
                           /\ Distinct(Tail(s))
<1>1. PICK t, n : t = Tail(s) /\ n = Len(s)
  OBVIOUS
<1>2. /\ t \in Seq(S) /\ n \in Nat /\ n >= 1 /\ Len(t) = n - 1 /\ Head(s) = s[1] /\ Head(s) \in S
      /\ \A k \in 1..(n - 1) : t[k] = s[k + 1]
  BY <1>1, HeadTailProperties, EmptySeq
<1>3. Head(s) \in Elements(s)
  BY <1>1, <1>2 DEF Elements
<1>4. ASSUME Distinct(s)
      PROVE  Elements(t) = Elements(s) \ {Head(s)} /\ Distinct(t)
  <2>1. \A x \in Elements(t) : x \in Elements(s) \ {s[1]}
    <3>1. TAKE x \in Elements(t)
    <3>2. PICK k \in 1..(n - 1) : x = t[k]
      BY <1>2 DEF Elements
    <3>3. k + 1 \in 1..n /\ x = s[k + 1] /\ 1 \in 1..n /\ k + 1 # 1
      BY <1>2, <3>2
    <3>4. QED
      BY <1>1, <1>4, <3>3 DEF Elements, Distinct
  <2>2. \A x \in Elements(s) \ {s[1]} : x \in Elements(t)
    <3>1. TAKE x \in Elements(s) \ {s[1]}
    <3>2. PICK k \in 1..n : x = s[k]
      BY <1>1 DEF Elements
    <3>3. k # 1
      BY <3>1, <3>2
    <3>4. k - 1 \in 1..(n - 1) /\ (k - 1) + 1 = k
      BY <1>2, <3>3
    <3>5. x = t[k - 1]
      BY <1>2, <3>2, <3>4
    <3>6. QED
      BY <1>2, <3>4, <3>5 DEF Elements
  <2>3. Distinct(t)
    <3>1. SUFFICES ASSUME NEW j \in 1..(n - 1), NEW k \in 1..(n - 1), t[j] = t[k]
                   PROVE  j = k
      BY <1>2 DEF Distinct
    <3>2. s[j + 1] = s[k + 1] /\ j + 1 \in 1..n /\ k + 1 \in 1..n
      BY <1>2, <3>1
    <3>3. j + 1 = k + 1
      BY <1>1, <1>4, <3>2 DEF Distinct
    <3>4. QED
      BY <3>3
  <2>4. QED
    BY <1>2, <2>1, <2>2, <2>3
<1>5. QED
  BY <1>1, <1>2, <1>3, <1>4

LEMMA RingPushes ==
  ASSUME NEW S, NEW s \in Seq(S), NEW x \in S
  PROVE  /\ s \o <<x>> \in Seq(S) /\ Len(s \o <<x>>) = Len(s) + 1
         /\ Elements(s \o <<x>>) = Elements(s) \cup {x}
         /\ Distinct(s) /\ x \notin Elements(s) => Distinct(s \o <<x>>)
<1>1. PICK t, n : t = Append(s, x) /\ n = Len(s)
  OBVIOUS
<1>2. /\ t = s \o <<x>> /\ t \in Seq(S) /\ n \in Nat /\ Len(t) = n + 1
      /\ \A k \in 1..n : t[k] = s[k]
      /\ t[n + 1] = x
  BY <1>1, AppendProperties, AppendIsConcat
<1>3. \A k \in 1..(n + 1) : k \in 1..n \/ k = n + 1
  BY <1>2
<1>4. Elements(t) = Elements(s) \cup {x}
  <2>1. \A y : (\E k \in 1..(n + 1) : y = t[k]) <=> (\E k \in 1..n : y = s[k]) \/ y = x
    <3>1. n + 1 \in 1..(n + 1) /\ 1..n \subseteq 1..(n + 1)
      BY <1>2
    <3>2. QED
      BY <1>2, <1>3, <3>1
  <2>2. QED
    BY <1>1, <1>2, <2>1 DEF Elements
<1>5. ASSUME Distinct(s), x \notin Elements(s)
      PROVE  Distinct(t)
  <2>1. SUFFICES ASSUME NEW j \in 1..(n + 1), NEW k \in 1..(n + 1), t[j] = t[k]
                 PROVE  j = k
    BY <1>2 DEF Distinct
  <2>2. \A i \in 1..n : t[i] # x
    BY <1>1, <1>2, <1>5 DEF Elements
  <2>3. QED
    BY <1>1, <1>2, <1>3, <1>5, <2>1, <2>2 DEF Distinct
<1>6. QED
  BY <1>1, <1>2, <1>4, <1>5

\* Both ends of a ring at once.
Turned(s, pop, push, x) == (IF pop THEN Tail(s) ELSE s) \o (IF push THEN <<x>> ELSE <<>>)
Leaving(s, pop) == IF pop THEN {Head(s)} ELSE {}
Joining(push, x) == IF push THEN {x} ELSE {}

LEMMA RingMoves ==
  ASSUME NEW S, NEW s \in Seq(S), Distinct(s), NEW pop \in BOOLEAN, pop => s # <<>>,
         NEW push \in BOOLEAN, NEW x, push => x \in S /\ x \notin Elements(s),
         NEW t, t = Turned(s, pop, push, x)
  PROVE  /\ t \in Seq(S) /\ Distinct(t)
         /\ Elements(t) = (Elements(s) \ Leaving(s, pop)) \cup Joining(push, x)
         /\ Len(t) <= Len(s) + 1
         /\ ~push => Len(t) <= Len(s)
         /\ ~pop /\ ~push => t = s
<1>1. PICK u, out : u = (IF pop THEN Tail(s) ELSE s) /\ out = Leaving(s, pop)
  OBVIOUS
<1>2. /\ u \in Seq(S) /\ Distinct(u) /\ Elements(u) = Elements(s) \ out
      /\ Len(u) \in Nat /\ Len(s) \in Nat /\ Len(u) <= Len(s)
      /\ ~pop => u = s
  <2>1. CASE pop
    <3>1. u = Tail(s) /\ out = {Head(s)} /\ s # <<>>
      BY <1>1, <2>1 DEF Leaving
    <3>2. /\ u \in Seq(S) /\ Distinct(u) /\ Elements(u) = Elements(s) \ out
          /\ Len(u) = Len(s) - 1
      BY <3>1, RingPops
    <3>3. Len(u) \in Nat /\ Len(s) \in Nat
      BY <3>2, LenProperties
    <3>4. QED
      BY <2>1, <3>2, <3>3
  <2>2. CASE ~pop
    <3>1. u = s /\ out = {}
      BY <1>1, <2>2 DEF Leaving
    <3>2. Len(s) \in Nat
      BY LenProperties
    <3>3. QED
      BY <3>1, <3>2
  <2>3. QED
    BY <2>1, <2>2
<1>3. CASE push
  <2>1. t = u \o <<x>> /\ x \notin Elements(u) /\ x \in S
    BY <1>1, <1>2, <1>3 DEF Turned
  <2>2. /\ u \o <<x>> \in Seq(S) /\ Len(u \o <<x>>) = Len(u) + 1
        /\ Elements(u \o <<x>>) = Elements(u) \cup {x}
        /\ Distinct(u \o <<x>>)
    BY <1>2, <2>1, RingPushes
  <2>3. /\ t \in Seq(S) /\ Distinct(t) /\ Elements(t) = (Elements(s) \ out) \cup {x}
        /\ Len(t) = Len(u) + 1
    BY <1>2, <2>1, <2>2
  <2>4. Len(t) <= Len(s) + 1
    <3>1. PICK m, n, l : m = Len(u) /\ n = Len(s) /\ l = Len(t)
      OBVIOUS
    <3>2. m \in Nat /\ n \in Nat /\ m <= n /\ l = m + 1
      BY <1>2, <2>3, <3>1
    <3>3. l <= n + 1
      BY <3>2
    <3>4. QED
      BY <3>1, <3>3
  <2>5. QED
    BY <1>1, <1>3, <2>3, <2>4 DEF Joining
<1>4. CASE ~push
  <2>1. t = u
    BY <1>1, <1>2, <1>4, ConcatEmptySeq DEF Turned
  <2>2. Elements(t) = (Elements(s) \ out) \cup {}
    BY <1>2, <2>1
  <2>3. Len(t) <= Len(s) /\ Len(t) <= Len(s) + 1
    <3>1. PICK n, l : n = Len(s) /\ l = Len(t)
      OBVIOUS
    <3>2. n \in Nat /\ l \in Nat /\ l <= n
      BY <1>2, <2>1, <3>1
    <3>3. l <= n + 1
      BY <3>2
    <3>4. QED
      BY <3>1, <3>2, <3>3
  <2>4. QED
    BY <1>1, <1>2, <1>4, <2>1, <2>2, <2>3 DEF Joining
<1>5. QED
  BY <1>3, <1>4

-----------------------------------------------------------------------------
(* The places of a box *)

Started(c) == refill[c].state \notin {"ST_CLEAR_BIT_MAP", "ST_ALLOC_RECYCLE_IDLE"}
Refilling(c) == Started(c) /\ refill[c].state # "ST_ALLOC_RECYCLE_BEGIN"
Full(c) == c \in overflowed
Paused(c) == cache_counter_alloc[c] = CacheDepth - 1

\* The half that was just used up has been filled.
Renewed(c) == refill[c].has_recycled /\ ~clear_has_recycled[c]

\* The slots of the cache that may still be handed out.
Unused(c) ==
    {j \in Slots :
       /\ Started(c) /\ ~Full(c)
       /\ IF Refilling(c)
          THEN IF refill[c].back THEN j < Half + refill[c].got \/ (Paused(c) /\ j = CacheDepth - 1)
                                 ELSE j >= Half \/ j < refill[c].got
          ELSE IF cache_counter_alloc[c] < Half THEN j >= cache_counter_alloc[c]
          ELSE IF cache_counter_alloc[c] = Half /\ ~Renewed(c) THEN j >= Half
          ELSE j < Half \/ j >= cache_counter_alloc[c]}

Held(c) == {i \in Index(c) : PointerTo(c, i) \in held}
Offered(c) == {i \in Index(c) : alloc_valid /\ alloc_pointer = PointerTo(c, i)}
Freed(c) == {i \in Index(c) : Boxes!Deciding /\ free_pointer_buf = PointerTo(c, i)}
Waiting(c) == Elements(free_ring[c])
Recycled(c) == Elements(recycle_ring[c])
AtWork(c) == IF Idle(c) THEN {} ELSE {recycle[c].pointer}
Fresh(c) == {refill[c].cache[j] : j \in Unused(c)}
NoneTwice(c) == \A j, k \in Unused(c) : refill[c].cache[j] = refill[c].cache[k] => j = k
Known(c) ==
    Held(c) \cup Offered(c) \cup Freed(c) \cup Waiting(c) \cup Recycled(c) \cup AtWork(c) \cup Fresh(c)

\* The boxes that a cycle moves.
TakenNow(c, rdy) == IF Boxes!Taken(rdy) THEN Offered(c) ELSE {}
FreedNow(c, free) == IF Frees(free) THEN {i \in Index(c) : PointerTo(c, i) = free.pointer} ELSE {}
ReusedNow(c, rdy) == IF Reuses(c, rdy) THEN {Head(free_ring[c])} ELSE {}
NewNow(c, rdy) == IF Delivers(c, rdy) THEN {refill[c].cache[cache_counter_alloc[c]]} ELSE {}
RingNow(c) == IF Boxes!ToRing THEN Freed(c) ELSE {}
RecycleNow(c) == IF Boxes!ToRecycle THEN Freed(c) ELSE {}
PoppedNow(c) == IF Boxes!Pops(c) THEN {Head(recycle_ring[c])} ELSE {}
ReturnedNow(c) == IF recycle[c].state = "ST_FREE_RECYCLE_BEGIN" THEN AtWork(c) ELSE {}

LEMMA SamePointer ==
  ASSUME NEW c \in Class, NEW d \in Class, NEW i \in Index(c), NEW j \in Index(d)
  PROVE  PointerTo(c, i) = PointerTo(d, j) <=> c = d /\ i = j
BY PointerFits

LEMMA HeldMoves ==
  ASSUME NEW request, NEW rdy, NEW free, Step(request, rdy, free), NEW c \in Class
  PROVE  /\ Held(c)' = (Held(c) \cup TakenNow(c, rdy)) \ FreedNow(c, free)
         /\ TakenNow(c, rdy) \subseteq Offered(c) /\ FreedNow(c, free) \subseteq Held(c)
<1>1. held' = (held \cup (IF Boxes!Taken(rdy) THEN {alloc_pointer} ELSE {}))
                    \ (IF Frees(free) THEN {free.pointer} ELSE {})
  BY ClientMoves
<1>2. Frees(free) => free.pointer \in held
  <2>1. free \in Boxes!Frees
    BY DEF Step
  <2>2. QED
    BY <2>1, FreeFits DEF Frees
<1>3. ASSUME NEW i \in Index(c)
      PROVE  /\ PointerTo(c, i) \in held' <=>
                  (PointerTo(c, i) \in held \/ i \in TakenNow(c, rdy)) /\ i \notin FreedNow(c, free)
             /\ i \in FreedNow(c, free) => PointerTo(c, i) \in held
  BY <1>1, <1>2 DEF TakenNow, FreedNow, Offered, Boxes!Taken
<1>4. Held(c)' = {i \in Index(c) : PointerTo(c, i) \in held'}
  BY DEF Held, Index, PointerTo, Boxes!Index, Boxes!PointerTo
<1>5. /\ TakenNow(c, rdy) \subseteq Offered(c) /\ Offered(c) \subseteq Index(c)
      /\ FreedNow(c, free) \subseteq Index(c) /\ Held(c) \subseteq Index(c)
  BY DEF TakenNow, FreedNow, Offered, Held
<1>6. QED
  BY <1>3, <1>4, <1>5 DEF Held

LEMMA OfferedMoves ==
  ASSUME Types, Client, NEW request, NEW rdy, NEW free, Step(request, rdy, free), NEW c \in Class
  PROVE  /\ Offered(c)' = (Offered(c) \ TakenNow(c, rdy)) \cup (ReusedNow(c, rdy) \cup NewNow(c, rdy))
         /\ Boxes!FromRing(rdy) \/ Boxes!FromCache(rdy) => Offered(c) = {}
<1>1. Offered(c)' = {i \in Index(c) : alloc_valid' /\ alloc_pointer' = PointerTo(c, i)}
  BY DEF Offered, Index, PointerTo, Boxes!Index, Boxes!PointerTo
<1>2. /\ alloc_valid' <=> (alloc_valid /\ ~rdy) \/ Boxes!FromRing(rdy) \/ Boxes!FromCache(rdy)
      /\ Boxes!FromRing(rdy) => alloc_pointer' = PointerTo(in_class, Head(free_ring[in_class]))
      /\ Boxes!FromCache(rdy) =>
           alloc_pointer' = PointerTo(in_class, refill[in_class].cache[cache_counter_alloc[in_class]])
      /\ ~Boxes!FromRing(rdy) /\ ~Boxes!FromCache(rdy) =>
           alloc_pointer' = IF Boxes!Taken(rdy) THEN 0 ELSE alloc_pointer
  BY AllocMoves
<1>3. Boxes!FromRing(rdy) \/ Boxes!FromCache(rdy) => Offered(c) = {} /\ ~alloc_valid
  BY DEF Boxes!FromRing, Boxes!FromCache, Client, Offered
<1>4. in_class \in Class /\ ClassTypes(in_class)
  BY DEF Types
<1>5. CASE Boxes!FromRing(rdy)
  <2>1. PICK h : h = Head(free_ring[in_class])
    OBVIOUS
  <2>2. h \in Index(in_class)
    <3>1. free_ring[in_class] \in Seq(Index(in_class)) /\ free_ring[in_class] # <<>>
      BY <1>4, <1>5 DEF ClassTypes, Boxes!FromRing
    <3>2. QED
      BY <2>1, <3>1, HeadTailProperties
  <2>3. \A i \in Index(c) : alloc_pointer' = PointerTo(c, i) <=> c = in_class /\ i = h
    BY <1>2, <1>4, <1>5, <2>1, <2>2, SamePointer
  <2>4. ~Boxes!FromCache(rdy)
    BY <1>5 DEF Boxes!FromRing, Boxes!FromCache
  <2>5. ReusedNow(c, rdy) = (IF c = in_class THEN {h} ELSE {}) /\ NewNow(c, rdy) = {}
    BY <1>5, <2>1, <2>4 DEF ReusedNow, NewNow, Reuses, Delivers
  <2>6. Offered(c)' = IF c = in_class THEN {h} ELSE {}
    BY <1>1, <1>2, <1>5, <2>2, <2>3
  <2>7. QED
    BY <1>3, <1>5, <2>5, <2>6
<1>6. CASE Boxes!FromCache(rdy)
  <2>1. PICK h : h = refill[in_class].cache[cache_counter_alloc[in_class]]
    OBVIOUS
  <2>2. h \in Index(in_class)
    BY <1>4, <2>1 DEF ClassTypes, Refills
  <2>3. \A i \in Index(c) : alloc_pointer' = PointerTo(c, i) <=> c = in_class /\ i = h
    BY <1>2, <1>4, <1>6, <2>1, <2>2, SamePointer
  <2>4. ~Boxes!FromRing(rdy)
    BY <1>6 DEF Boxes!FromRing, Boxes!FromCache
  <2>5. NewNow(c, rdy) = (IF c = in_class THEN {h} ELSE {}) /\ ReusedNow(c, rdy) = {}
    BY <1>6, <2>1, <2>4 DEF ReusedNow, NewNow, Reuses, Delivers
  <2>6. Offered(c)' = IF c = in_class THEN {h} ELSE {}
    BY <1>1, <1>2, <1>6, <2>2, <2>3
  <2>7. QED
    BY <1>3, <1>6, <2>5, <2>6
<1>7. CASE ~Boxes!FromRing(rdy) /\ ~Boxes!FromCache(rdy)
  <2>1. ReusedNow(c, rdy) = {} /\ NewNow(c, rdy) = {}
    BY <1>7 DEF ReusedNow, NewNow, Reuses, Delivers
  <2>2. Offered(c)' = IF Boxes!Taken(rdy) THEN {} ELSE Offered(c)
    BY <1>1, <1>2, <1>7 DEF Boxes!Taken, Offered
  <2>3. QED
    BY <1>7, <2>1, <2>2 DEF TakenNow
<1>8. QED
  BY <1>5, <1>6, <1>7

LEMMA FreedIs ==
  ASSUME Types, Boxes!Deciding
  PROVE  /\ Boxes!free_class \in Class
         /\ Boxes!IndexOf(free_pointer_buf) \in Index(Boxes!free_class)
         /\ \A c \in Class : Freed(c) = IF c = Boxes!free_class
                                        THEN {Boxes!IndexOf(free_pointer_buf)} ELSE {}
<1>1. PICK d \in Class : \E i \in Index(d) : free_pointer_buf = PointerTo(d, i)
  BY DEF Types, IsBox
<1>2. PICK i \in Index(d) : free_pointer_buf = PointerTo(d, i)
  BY <1>1
<1>3. Boxes!free_class = d /\ Boxes!IndexOf(free_pointer_buf) = i
  BY <1>2, PointerFits DEF Boxes!free_class
<1>4. ASSUME NEW c \in Class
      PROVE  Freed(c) = IF c = d THEN {i} ELSE {}
  <2>1. \A j \in Index(c) : j \in Freed(c) <=> c = d /\ j = i
    BY <1>2, SamePointer DEF Freed
  <2>2. Freed(c) \subseteq Index(c)
    BY DEF Freed
  <2>3. QED
    BY <2>1, <2>2
<1>5. QED
  BY <1>3, <1>4

LEMMA FreedMoves ==
  ASSUME Types, Client, NEW request, NEW rdy, NEW free, Step(request, rdy, free), NEW c \in Class
  PROVE  /\ Freed(c)' = (Freed(c) \ (RingNow(c) \cup RecycleNow(c))) \cup FreedNow(c, free)
         /\ RingNow(c) \subseteq Freed(c) /\ RecycleNow(c) \subseteq Freed(c)
         /\ RingNow(c) \cap RecycleNow(c) = {}
<1>1. Freed(c)' = {i \in Index(c) : Boxes!Deciding' /\ free_pointer_buf' = PointerTo(c, i)}
  BY DEF Freed, Index, PointerTo, Boxes!Index, Boxes!PointerTo
<1>2. /\ Frees(free) => ~Boxes!Deciding /\ free_pointer_buf' = free.pointer
      /\ ~Frees(free) => free_pointer_buf' = free_pointer_buf
      /\ Boxes!Deciding' <=> Frees(free) \/ (Boxes!Deciding /\ ~Boxes!ToRing /\ ~Boxes!ToRecycle)
      /\ Boxes!ToRing \/ Boxes!ToRecycle => Boxes!Deciding
  BY FreeMoves
<1>3. ~Boxes!ToRing \/ ~Boxes!ToRecycle
  BY DEF Boxes!ToRecycle
<1>4. ASSUME NEW i \in Index(c)
      PROVE  /\ i \in Freed(c)' <=> Boxes!Deciding' /\ free_pointer_buf' = PointerTo(c, i)
             /\ i \in Freed(c) <=> Boxes!Deciding /\ free_pointer_buf = PointerTo(c, i)
             /\ i \in FreedNow(c, free) <=> Frees(free) /\ PointerTo(c, i) = free.pointer
  BY <1>1 DEF Freed, FreedNow
<1>5. Freed(c)' \subseteq Index(c) /\ Freed(c) \subseteq Index(c)
          /\ FreedNow(c, free) \subseteq Index(c)
  BY <1>1 DEF Freed, FreedNow
<1>6. CASE Boxes!ToRing \/ Boxes!ToRecycle
  <2>1. RingNow(c) \cup RecycleNow(c) = Freed(c)
    BY <1>6 DEF RingNow, RecycleNow
  <2>2. Freed(c)' = {} /\ FreedNow(c, free) = {}
    BY <1>2, <1>4, <1>5, <1>6
  <2>3. QED
    BY <1>3, <2>1, <2>2 DEF RingNow, RecycleNow
<1>7. CASE ~Boxes!ToRing /\ ~Boxes!ToRecycle
  <2>1. RingNow(c) = {} /\ RecycleNow(c) = {}
    BY <1>7 DEF RingNow, RecycleNow
  <2>2. \A i \in Index(c) : i \in Freed(c)' <=> i \in Freed(c) \/ i \in FreedNow(c, free)
    BY <1>2, <1>4, <1>7
  <2>3. QED
    BY <1>5, <2>1, <2>2
<1>8. QED
  BY <1>6, <1>7

LEMMA WaitingMoves ==
  ASSUME Types, NEW request, NEW rdy, NEW free, Step(request, rdy, free), NEW c \in Class,
         Distinct(free_ring[c]), Freed(c) \cap Waiting(c) = {}
  PROVE  /\ Waiting(c)' = (Waiting(c) \ ReusedNow(c, rdy)) \cup RingNow(c)
         /\ ReusedNow(c, rdy) \subseteq Waiting(c)
         /\ free_ring'[c] \in Seq(Index(c)) /\ Distinct(free_ring'[c])
         /\ Len(free_ring'[c]) < CacheDepth
         /\ ~Reuses(c, rdy) /\ free_ring[c] # <<>> => free_ring'[c] # <<>>
<1>1. PICK s, t, pop, push, x : /\ s = free_ring[c] /\ t = free_ring'[c]
                                /\ pop = (Boxes!FromRing(rdy) /\ c = in_class)
                                /\ push = (Boxes!ToRing /\ c = Boxes!free_class)
                                /\ x = Boxes!IndexOf(free_pointer_buf)
  OBVIOUS
<1>2. /\ s \in Seq(Index(c)) /\ Distinct(s) /\ Len(s) < CacheDepth /\ Len(s) \in Nat
      /\ pop \in BOOLEAN /\ push \in BOOLEAN
  <2>1. s \in Seq(Index(c)) /\ Len(s) < CacheDepth
    BY <1>1 DEF Types, ClassTypes
  <2>2. Len(s) \in Nat
    BY <2>1, LenProperties
  <2>3. QED
    BY <1>1, <2>1, <2>2
<1>3. pop => s # <<>>
  BY <1>1 DEF Boxes!FromRing
<1>4. push => x \in Index(c) /\ x \notin Elements(s) /\ Len(s) < CacheDepth - 1
  <2>1. SUFFICES ASSUME push
                 PROVE  x \in Index(c) /\ x \notin Elements(s) /\ Len(s) < CacheDepth - 1
    OBVIOUS
  <2>2. Boxes!ToRing /\ c = Boxes!free_class /\ Boxes!Deciding
    BY <1>1, <2>1 DEF Boxes!ToRing
  <2>3. x \in Index(c) /\ Freed(c) = {x}
    BY <1>1, <2>2, FreedIs
  <2>4. QED
    BY <1>1, <2>2, <2>3 DEF Waiting, Boxes!ToRing
<1>5. t = Turned(s, pop, push, x)
  <2>1. free_ring'[c] =
             (IF Boxes!FromRing(rdy) /\ c = in_class THEN Tail(free_ring[c]) ELSE free_ring[c])
             \o (IF Boxes!ToRing /\ c = Boxes!free_class
                 THEN <<Boxes!IndexOf(free_pointer_buf)>> ELSE <<>>)
    BY DEF Step, Boxes!Clock, Boxes!RingStep, Class
  <2>2. QED
    BY <1>1, <2>1 DEF Turned
<1>6. /\ t \in Seq(Index(c)) /\ Distinct(t) /\ Len(t) <= Len(s) + 1
      /\ ~push => Len(t) <= Len(s)
      /\ Elements(t) = (Elements(s) \ Leaving(s, pop)) \cup Joining(push, x)
  BY <1>2, <1>3, <1>4, <1>5, RingMoves
<1>7. Len(t) < CacheDepth
  <2>1. Len(t) \in Nat
    BY <1>6, LenProperties
  <2>2. PICK m, n : m = Len(s) /\ n = Len(t)
    OBVIOUS
  <2>3. /\ m \in Nat /\ n \in Nat /\ CacheDepth \in Nat /\ m < CacheDepth
        /\ push => m < CacheDepth - 1
        /\ n <= m + 1 /\ (~push => n <= m)
    BY <1>2, <1>4, <1>6, <2>1, <2>2, SizesFit
  <2>4. n < CacheDepth
    BY <1>2, <2>3
  <2>5. QED
    BY <2>2, <2>4
<1>8. Joining(push, x) = RingNow(c)
  <2>1. CASE Boxes!ToRing
    <3>1. Freed(c) = IF c = Boxes!free_class THEN {x} ELSE {}
      BY <1>1, <2>1, FreedIs DEF Boxes!ToRing
    <3>2. QED
      BY <1>1, <2>1, <3>1 DEF RingNow, Joining
  <2>2. CASE ~Boxes!ToRing
    BY <1>1, <2>2 DEF RingNow, Joining
  <2>3. QED
    BY <2>1, <2>2
<1>9. Leaving(s, pop) = ReusedNow(c, rdy)
  BY <1>1 DEF ReusedNow, Reuses, Leaving
<1>10. ReusedNow(c, rdy) \subseteq Elements(s)
  BY <1>2, <1>3, <1>9, RingPops DEF Leaving
<1>11. ~pop /\ s # <<>> => t # <<>>
  <2>1. SUFFICES ASSUME ~pop, s # <<>>, t = <<>>
                 PROVE  FALSE
    OBVIOUS
  <2>2. Elements(s) \subseteq Elements(t)
    BY <1>6, <2>1 DEF Leaving
  <2>3. Elements(t) = {}
    BY <2>1 DEF Elements
  <2>4. Head(s) \in Elements(s)
    BY <1>2, <2>1, RingPops
  <2>5. QED
    BY <2>2, <2>3, <2>4
<1>12. Waiting(c)' = Elements(t)
  BY <1>1 DEF Waiting, Elements
<1>13. QED
  BY <1>1, <1>6, <1>7, <1>8, <1>9, <1>10, <1>11, <1>12 DEF Waiting, Reuses

LEMMA RecycledMoves ==
  ASSUME Types, NEW request, NEW rdy, NEW free, Step(request, rdy, free), NEW c \in Class,
         Distinct(recycle_ring[c]), Freed(c) \cap Recycled(c) = {}
  PROVE  /\ Recycled(c)' = (Recycled(c) \ PoppedNow(c)) \cup RecycleNow(c)
         /\ PoppedNow(c) \subseteq Recycled(c)
         /\ recycle_ring'[c] \in Seq(Index(c)) /\ Distinct(recycle_ring'[c])
         /\ Len(recycle_ring'[c]) < CacheDepth
         /\ recycle_ring[c] = <<>> /\ ~(Boxes!ToRecycle /\ c = Boxes!free_class) =>
              recycle_ring'[c] = <<>>
<1>1. PICK s, t, pop, push, x : /\ s = recycle_ring[c] /\ t = recycle_ring'[c]
                                /\ pop = Boxes!Pops(c)
                                /\ push = (Boxes!ToRecycle /\ c = Boxes!free_class)
                                /\ x = Boxes!IndexOf(free_pointer_buf)
  OBVIOUS
<1>2. /\ s \in Seq(Index(c)) /\ Distinct(s) /\ Len(s) < CacheDepth /\ Len(s) \in Nat
      /\ pop \in BOOLEAN /\ push \in BOOLEAN
  <2>1. s \in Seq(Index(c)) /\ Len(s) < CacheDepth
    BY <1>1 DEF Types, ClassTypes
  <2>2. Len(s) \in Nat
    BY <2>1, LenProperties
  <2>3. pop \in BOOLEAN
    BY <1>1 DEF Boxes!Pops
  <2>4. QED
    BY <1>1, <2>1, <2>2, <2>3
<1>3. pop => s # <<>>
  BY <1>1 DEF Boxes!Pops
<1>4. push => x \in Index(c) /\ x \notin Elements(s) /\ Len(s) < CacheDepth - 1
  <2>1. SUFFICES ASSUME push
                 PROVE  x \in Index(c) /\ x \notin Elements(s) /\ Len(s) < CacheDepth - 1
    OBVIOUS
  <2>2. Boxes!ToRecycle /\ c = Boxes!free_class /\ Boxes!Deciding
    BY <1>1, <2>1 DEF Boxes!ToRecycle
  <2>3. x \in Index(c) /\ Freed(c) = {x}
    BY <1>1, <2>2, FreedIs
  <2>4. QED
    BY <1>1, <2>2, <2>3 DEF Recycled, Boxes!ToRecycle
<1>5. t = Turned(s, pop, push, x)
  <2>1. recycle_ring'[c] =
             (IF Boxes!Pops(c) THEN Tail(recycle_ring[c]) ELSE recycle_ring[c])
             \o (IF Boxes!ToRecycle /\ c = Boxes!free_class
                 THEN <<Boxes!IndexOf(free_pointer_buf)>> ELSE <<>>)
    BY DEF Step, Boxes!Clock, Boxes!RingStep, Class
  <2>2. QED
    BY <1>1, <2>1 DEF Turned
<1>6. /\ t \in Seq(Index(c)) /\ Distinct(t) /\ Len(t) <= Len(s) + 1
      /\ ~push => Len(t) <= Len(s)
      /\ Elements(t) = (Elements(s) \ Leaving(s, pop)) \cup Joining(push, x)
      /\ ~pop /\ ~push => t = s
  BY <1>2, <1>3, <1>4, <1>5, RingMoves
<1>7. Len(t) < CacheDepth
  <2>1. Len(t) \in Nat
    BY <1>6, LenProperties
  <2>2. PICK m, n : m = Len(s) /\ n = Len(t)
    OBVIOUS
  <2>3. /\ m \in Nat /\ n \in Nat /\ CacheDepth \in Nat /\ m < CacheDepth
        /\ push => m < CacheDepth - 1
        /\ n <= m + 1 /\ (~push => n <= m)
    BY <1>2, <1>4, <1>6, <2>1, <2>2, SizesFit
  <2>4. n < CacheDepth
    BY <1>2, <2>3
  <2>5. QED
    BY <2>2, <2>4
<1>8. Joining(push, x) = RecycleNow(c)
  <2>1. CASE Boxes!ToRecycle
    <3>1. Freed(c) = IF c = Boxes!free_class THEN {x} ELSE {}
      BY <1>1, <2>1, FreedIs DEF Boxes!ToRecycle
    <3>2. QED
      BY <1>1, <2>1, <3>1 DEF RecycleNow, Joining
  <2>2. CASE ~Boxes!ToRecycle
    BY <1>1, <2>2 DEF RecycleNow, Joining
  <2>3. QED
    BY <2>1, <2>2
<1>9. Leaving(s, pop) = PoppedNow(c)
  BY <1>1 DEF PoppedNow, Leaving
<1>10. PoppedNow(c) \subseteq Elements(s)
  BY <1>2, <1>3, <1>9, RingPops DEF Leaving
<1>11. Recycled(c)' = Elements(t)
  BY <1>1 DEF Recycled, Elements
<1>12. QED
  BY <1>1, <1>3, <1>6, <1>7, <1>8, <1>9, <1>10, <1>11 DEF Recycled

\* The process that returns pointers to the bit map.
LEMMA RecycleMoves ==
  ASSUME Types, NEW request, NEW rdy, NEW free, Step(request, rdy, free), NEW c \in Class,
         NEW f, f = recycle[c], NEW g, g = recycle'[c]
  PROVE  /\ g \in Recycles(c)
         /\ f.state = "ST_FREE_RECYCLE_BEGIN" /\ ~Boxes!Pops(c) =>
              g.state = "ST_FREE_RECYCLE_BEGIN" /\ ~g.hit /\ ~g.web
         /\ Boxes!Pops(c) => /\ g.state = "ST_FREE_RECYCLE_DECIDE_READ" /\ ~g.hit /\ ~g.web
                             /\ g.pointer = Head(recycle_ring[c])
         /\ f.state = "ST_FREE_RECYCLE_DECIDE_READ" =>
              /\ g.pointer = f.pointer /\ g.web = f.web
              /\ f.pointer \div MemoryWidth = refill[c].addr_counter =>
                   /\ g.hit /\ g.bit = f.pointer % MemoryWidth
                   /\ g.state = "ST_FREE_RECYCLE_BEGIN"
              /\ f.pointer \div MemoryWidth # refill[c].addr_counter =>
                   /\ ~g.hit /\ g.addrb = f.pointer \div MemoryWidth
                   /\ g.state = "ST_FREE_RECYCLE_WRITE_BUF"
         /\ f.state = "ST_FREE_RECYCLE_WRITE_BUF" =>
              /\ g.pointer = f.pointer /\ g.web = f.web /\ ~g.hit /\ g.addrb = f.addrb
              /\ g.buf = bram[c][f.addrb] /\ g.state = "ST_FREE_RECYCLE_WRITE_BACK"
         /\ f.state = "ST_FREE_RECYCLE_WRITE_BACK" =>
              /\ g.pointer = f.pointer /\ g.web /\ ~g.hit /\ g.addrb = f.addrb
              /\ g.dinb = f.buf \ {f.pointer % MemoryWidth} /\ g.state = "ST_FREE_RECYCLE_BEGIN"
<1>1. PICK h : h = [f EXCEPT !.hit = FALSE]
  OBVIOUS
<1>2. f \in Recycles(c) /\ \A w \in Words(c) : bram[c][w] \subseteq Boxes!Bit
  BY DEF Types, ClassTypes
<1>3. /\ h \in Recycles(c) /\ h.state = f.state /\ h.pointer = f.pointer /\ h.buf = f.buf
      /\ h.addrb = f.addrb /\ h.dinb = f.dinb /\ h.web = f.web /\ h.hit = FALSE /\ h.bit = f.bit
  BY <1>1, <1>2 DEF Recycles
<1>4. g = CASE h.state = "ST_FREE_RECYCLE_BEGIN"       -> Boxes!RecycleBegin(c, h)
            [] h.state = "ST_FREE_RECYCLE_DECIDE_READ" -> Boxes!RecycleRead(c, h)
            [] h.state = "ST_FREE_RECYCLE_WRITE_BUF"   -> Boxes!RecycleBuf(c, h)
            [] h.state = "ST_FREE_RECYCLE_WRITE_BACK"  -> Boxes!RecycleWrite(h)
  BY <1>1 DEF Step, Boxes!Clock, Boxes!RecycleStep, Class
<1>5. CASE h.state = "ST_FREE_RECYCLE_BEGIN"
  <2>1. g = Boxes!RecycleBegin(c, h)
    BY <1>4, <1>5
  <2>2. recycle_ring[c] # <<>> => Head(recycle_ring[c]) \in Index(c)
    <3>1. recycle_ring[c] \in Seq(Index(c))
      BY DEF Types, ClassTypes
    <3>2. QED
      BY <3>1, HeadTailProperties
  <2>3. Boxes!Pops(c) <=> recycle_ring[c] # <<>>
    BY <1>3, <1>5 DEF Boxes!Pops
  <2>4. CASE recycle_ring[c] = <<>>
    <3>1. g = [h EXCEPT !.web = FALSE]
      BY <2>1, <2>4 DEF Boxes!RecycleBegin
    <3>2. QED
      BY <1>3, <1>5, <2>3, <2>4, <3>1 DEF Recycles
  <2>5. CASE recycle_ring[c] # <<>>
    <3>1. PICK x : x = Head(recycle_ring[c])
      OBVIOUS
    <3>2. g = [h EXCEPT !.web = FALSE, !.pointer = x, !.state = "ST_FREE_RECYCLE_DECIDE_READ"]
      BY <2>1, <2>5, <3>1 DEF Boxes!RecycleBegin
    <3>3. QED
      BY <1>3, <1>5, <2>2, <2>3, <2>5, <3>1, <3>2 DEF Recycles, RecycleStates
  <2>6. QED
    BY <2>4, <2>5
<1>6. CASE h.state = "ST_FREE_RECYCLE_DECIDE_READ"
  <2>1. g = Boxes!RecycleRead(c, h)
    BY <1>4, <1>6
  <2>2. PICK w, b : w = f.pointer \div MemoryWidth /\ b = f.pointer % MemoryWidth
    OBVIOUS
  <2>3. w \in Words(c) /\ b \in Boxes!Bit
    <3>1. f.pointer \in Index(c)
      BY <1>2 DEF Recycles
    <3>2. QED
      BY <2>2, <3>1, IndexFits
  <2>4. g = IF w = refill[c].addr_counter
            THEN [h EXCEPT !.hit = TRUE, !.bit = b, !.state = "ST_FREE_RECYCLE_BEGIN"]
            ELSE [h EXCEPT !.addrb = w, !.state = "ST_FREE_RECYCLE_WRITE_BUF"]
    BY <1>3, <2>1, <2>2 DEF Boxes!RecycleRead
  <2>5. ~Boxes!Pops(c)
    BY <1>3, <1>6 DEF Boxes!Pops
  <2>6. CASE w = refill[c].addr_counter
    BY <1>3, <1>6, <2>2, <2>3, <2>4, <2>5, <2>6 DEF Recycles, RecycleStates
  <2>7. CASE w # refill[c].addr_counter
    BY <1>3, <1>6, <2>2, <2>3, <2>4, <2>5, <2>7 DEF Recycles, RecycleStates
  <2>8. QED
    BY <2>6, <2>7
<1>7. CASE h.state = "ST_FREE_RECYCLE_WRITE_BUF"
  <2>1. PICK x : x = bram[c][f.addrb]
    OBVIOUS
  <2>2. x \subseteq Boxes!Bit
    BY <1>2, <2>1 DEF Recycles
  <2>3. g = [h EXCEPT !.buf = x, !.state = "ST_FREE_RECYCLE_WRITE_BACK"]
    BY <1>3, <1>4, <1>7, <2>1 DEF Boxes!RecycleBuf
  <2>4. ~Boxes!Pops(c)
    BY <1>3, <1>7 DEF Boxes!Pops
  <2>5. QED
    BY <1>3, <1>7, <2>1, <2>2, <2>3, <2>4 DEF Recycles, RecycleStates
<1>8. CASE h.state = "ST_FREE_RECYCLE_WRITE_BACK"
  <2>1. PICK x : x = f.buf \ {f.pointer % MemoryWidth}
    OBVIOUS
  <2>2. x \subseteq Boxes!Bit
    BY <1>2, <2>1 DEF Recycles
  <2>3. g = [h EXCEPT !.web = TRUE, !.dinb = x, !.state = "ST_FREE_RECYCLE_BEGIN"]
    BY <1>3, <1>4, <1>8, <2>1 DEF Boxes!RecycleWrite
  <2>4. ~Boxes!Pops(c)
    BY <1>3, <1>8 DEF Boxes!Pops
  <2>5. QED
    BY <1>3, <1>8, <2>1, <2>2, <2>3, <2>4 DEF Recycles, RecycleStates
<1>9. QED
  BY <1>3, <1>5, <1>6, <1>7, <1>8 DEF Recycles, RecycleStates

LEMMA AtWorkMoves ==
  ASSUME Types, NEW request, NEW rdy, NEW free, Step(request, rdy, free), NEW c \in Class
  PROVE  /\ AtWork(c)' = (AtWork(c) \ ReturnedNow(c)) \cup PoppedNow(c)
         /\ ReturnedNow(c) \subseteq AtWork(c)
         /\ Idle(c) /\ recycle_ring[c] = <<>> => Idle(c)'
<1>1. PICK f, g : f = recycle[c] /\ g = recycle'[c]
  OBVIOUS
<1>2. f \in Recycles(c)
  BY <1>1 DEF Types, ClassTypes
<1>3. /\ f.state = "ST_FREE_RECYCLE_BEGIN" /\ ~Boxes!Pops(c) =>
           g.state = "ST_FREE_RECYCLE_BEGIN" /\ ~g.hit /\ ~g.web
      /\ Boxes!Pops(c) => g.state = "ST_FREE_RECYCLE_DECIDE_READ" /\ g.pointer = Head(recycle_ring[c])
      /\ f.state # "ST_FREE_RECYCLE_BEGIN" =>
           g.pointer = f.pointer /\ (g.state # "ST_FREE_RECYCLE_BEGIN" \/ g.hit \/ g.web)
  BY <1>1, <1>2, RecycleMoves DEF Recycles, RecycleStates
<1>4. Boxes!Pops(c) <=> f.state = "ST_FREE_RECYCLE_BEGIN" /\ recycle_ring[c] # <<>>
  BY <1>1 DEF Boxes!Pops
<1>5. Idle(c)' <=> g.state = "ST_FREE_RECYCLE_BEGIN" /\ ~g.hit /\ ~g.web
  BY <1>1 DEF Idle
<1>6. AtWork(c)' = IF Idle(c)' THEN {} ELSE {g.pointer}
  BY <1>1 DEF AtWork
<1>7. CASE f.state = "ST_FREE_RECYCLE_BEGIN"
  <2>1. ReturnedNow(c) = AtWork(c)
    BY <1>1, <1>7 DEF ReturnedNow
  <2>2. AtWork(c)' = PoppedNow(c)
    BY <1>3, <1>4, <1>5, <1>6, <1>7 DEF PoppedNow
  <2>3. QED
    BY <1>3, <1>4, <1>5, <1>7, <2>1, <2>2
<1>8. CASE f.state # "ST_FREE_RECYCLE_BEGIN"
  <2>1. ReturnedNow(c) = {} /\ PoppedNow(c) = {} /\ AtWork(c) = {f.pointer} /\ ~Idle(c)
    BY <1>1, <1>4, <1>8 DEF ReturnedNow, PoppedNow, AtWork, Idle
  <2>2. AtWork(c)' = {f.pointer}
    BY <1>3, <1>5, <1>6, <1>8
  <2>3. QED
    BY <2>1, <2>2
<1>9. QED
  BY <1>7, <1>8

-----------------------------------------------------------------------------
(* The process that refills the cache *)

AfterHit(c, bits) == IF recycle[c].hit THEN bits \ {recycle[c].bit} ELSE bits

\* The registers of a class with has_recycled as the case statement finds it.
Current(c) == [refill[c] EXCEPT !.has_recycled = @ /\ ~clear_has_recycled[c]]

LEMMA CurrentIs ==
  ASSUME Types, NEW c \in Class, NEW q, q = Current(c)
  PROVE  /\ q \in Refills(c) /\ q.state = refill[c].state
         /\ q.clear_counter = refill[c].clear_counter
         /\ q.addr_counter = refill[c].addr_counter /\ q.back = refill[c].back
         /\ q.got = refill[c].got /\ q.not_first = refill[c].not_first
         /\ q.exe_ptr = refill[c].exe_ptr /\ q.buf = refill[c].buf /\ q.cache = refill[c].cache
         /\ q.front_ready = refill[c].front_ready /\ q.back_ready = refill[c].back_ready
         /\ q.ready = refill[c].ready /\ q.addra = refill[c].addra /\ q.dina = refill[c].dina
         /\ q.wea = refill[c].wea
         /\ q.has_recycled <=> Renewed(c)
<1>1. refill[c] \in Refills(c)
  BY DEF Types, ClassTypes
<1>2. q = [refill[c] EXCEPT !.has_recycled = refill[c].has_recycled /\ ~clear_has_recycled[c]]
  BY DEF Current
<1>3. PICK r, b : r = refill[c] /\ b = (r.has_recycled /\ ~clear_has_recycled[c])
  OBVIOUS
<1>4. q = [r EXCEPT !.has_recycled = b] /\ b \in BOOLEAN /\ r \in Refills(c)
  BY <1>1, <1>2, <1>3
<1>5. /\ q \in Refills(c) /\ q.state = r.state /\ q.clear_counter = r.clear_counter
      /\ q.addr_counter = r.addr_counter /\ q.back = r.back
      /\ q.got = r.got /\ q.not_first = r.not_first
      /\ q.exe_ptr = r.exe_ptr /\ q.buf = r.buf /\ q.cache = r.cache
      /\ q.front_ready = r.front_ready /\ q.back_ready = r.back_ready
      /\ q.ready = r.ready /\ q.addra = r.addra /\ q.dina = r.dina
      /\ q.wea = r.wea
      /\ q.has_recycled <=> b
  BY <1>4 DEF Refills
<1>6. QED
  BY <1>3, <1>5 DEF Renewed

\* What a state of the process makes of its registers, and the bit of a freed
\* pointer.
LEMMA RefillIs ==
  ASSUME Types, NEW request, NEW rdy, NEW free, Step(request, rdy, free), NEW c \in Class,
         NEW n, n = Boxes!RefillState(c, Current(c)), n \in Refills(c),
         NEW g, g = refill'[c]
  PROVE  /\ g \in Refills(c) /\ g.state = n.state /\ g.clear_counter = n.clear_counter
         /\ g.addr_counter = n.addr_counter /\ g.back = n.back /\ g.got = n.got
         /\ g.not_first = n.not_first /\ g.exe_ptr = n.exe_ptr
         /\ g.buf = AfterHit(c, n.buf)
         /\ g.cache = n.cache /\ g.front_ready = n.front_ready /\ g.back_ready = n.back_ready
         /\ g.ready = n.ready /\ g.has_recycled = n.has_recycled
         /\ g.addra = n.addra /\ g.dina = n.dina /\ g.wea = n.wea
<1>1. g = [n EXCEPT !.buf = IF recycle[c].hit THEN n.buf \ {recycle[c].bit} ELSE n.buf]
  BY DEF Step, Boxes!Clock, Boxes!RefillStep, Current, Class
<1>2. PICK b : b = AfterHit(c, n.buf)
  OBVIOUS
<1>3. g = [n EXCEPT !.buf = b]
  BY <1>1, <1>2 DEF AfterHit
<1>4. n.buf \subseteq Boxes!Bit
  BY DEF Refills
<1>5. b \subseteq Boxes!Bit
  BY <1>2, <1>4 DEF AfterHit
<1>6. QED
  BY <1>2, <1>3, <1>5 DEF Refills

LEMMA ClearMoves ==
  ASSUME Types, NEW request, NEW rdy, NEW free, Step(request, rdy, free), NEW c \in Class,
         refill[c].state = "ST_CLEAR_BIT_MAP", NEW r, r = refill[c], NEW g, g = refill'[c]
  PROVE  /\ g \in Refills(c) /\ g.state \in {"ST_CLEAR_BIT_MAP", "ST_ALLOC_RECYCLE_IDLE"}
         /\ g.wea => g.state = "ST_CLEAR_BIT_MAP" /\ g.dina = {}
         /\ g.addr_counter = r.addr_counter /\ g.exe_ptr = r.exe_ptr /\ g.got = r.got
         /\ g.buf = AfterHit(c, r.buf) /\ g.ready = r.ready /\ g.not_first = r.not_first
<1>1. PICK q, n : q = Current(c) /\ n = Boxes!RefillState(c, Current(c))
  OBVIOUS
<1>2. /\ q \in Refills(c) /\ q.state = "ST_CLEAR_BIT_MAP" /\ q.addr_counter = r.addr_counter
      /\ q.exe_ptr = r.exe_ptr /\ q.got = r.got /\ q.buf = r.buf /\ q.ready = r.ready
      /\ q.not_first = r.not_first /\ q.clear_counter = r.clear_counter
  BY <1>1, CurrentIs
<1>3. n = IF r.clear_counter < Boxes!BRAM_DEPTH(c)
          THEN [q EXCEPT !.clear_counter = q.clear_counter + 1, !.addra = q.clear_counter,
                         !.dina = {}, !.wea = TRUE]
          ELSE [q EXCEPT !.clear_counter = 0, !.wea = FALSE, !.state = "ST_ALLOC_RECYCLE_IDLE"]
  BY <1>1, <1>2 DEF Boxes!RefillState, Boxes!ClearBitMap
<1>4. /\ n \in Refills(c) /\ n.state \in {"ST_CLEAR_BIT_MAP", "ST_ALLOC_RECYCLE_IDLE"}
      /\ n.wea => n.state = "ST_CLEAR_BIT_MAP" /\ n.dina = {}
      /\ n.addr_counter = r.addr_counter /\ n.exe_ptr = r.exe_ptr /\ n.got = r.got
      /\ n.buf = r.buf /\ n.ready = r.ready /\ n.not_first = r.not_first
  <2>1. CASE r.clear_counter < Boxes!BRAM_DEPTH(c)
    <3>1. PICK k : k = q.clear_counter
      OBVIOUS
    <3>2. k \in Nat /\ k + 1 \in Nat
      BY <1>2, <3>1 DEF Refills
    <3>3. n = [q EXCEPT !.clear_counter = k + 1, !.addra = k, !.dina = {}, !.wea = TRUE]
      BY <1>3, <2>1, <3>1
    <3>4. QED
      BY <1>2, <3>2, <3>3 DEF Refills
  <2>2. CASE ~(r.clear_counter < Boxes!BRAM_DEPTH(c))
    <3>1. n = [q EXCEPT !.clear_counter = 0, !.wea = FALSE, !.state = "ST_ALLOC_RECYCLE_IDLE"]
      BY <1>3, <2>2
    <3>2. QED
      BY <1>2, <3>1 DEF Refills, RefillStates
  <2>3. QED
    BY <2>1, <2>2
<1>5. QED
  BY <1>1, <1>4, RefillIs

LEMMA FirstFillMoves ==
  ASSUME Types, NEW request, NEW rdy, NEW free, Step(request, rdy, free), NEW c \in Class,
         refill[c].state = "ST_ALLOC_RECYCLE_IDLE", NEW r, r = refill[c], NEW g, g = refill'[c],
         r.exe_ptr = 0, r.buf = {}
  PROVE  /\ g \in Refills(c) /\ g.state = "ST_ALLOC_RECYCLE_BEGIN"
         /\ g.exe_ptr = Half % MemoryWidth
         /\ g.buf = AfterHit(c, Slots) /\ g.ready /\ g.front_ready /\ g.back_ready
         /\ \A j \in Slots : g.cache[j] = j
         /\ g.addr_counter = r.addr_counter /\ g.got = r.got /\ g.wea = r.wea /\ g.dina = r.dina
<1>1. PICK q, n : q = Current(c) /\ n = Boxes!RefillState(c, Current(c))
  OBVIOUS
<1>2. /\ q \in Refills(c) /\ q.state = "ST_ALLOC_RECYCLE_IDLE" /\ q.addr_counter = r.addr_counter
      /\ q.exe_ptr = 0 /\ q.got = r.got /\ q.buf = {} /\ q.wea = r.wea /\ q.dina = r.dina
  BY <1>1, CurrentIs
<1>3. PICK s, e, b : s = [j \in Slots |-> j] /\ e = (0 + Half) % MemoryWidth /\ b = {} \cup Slots
  OBVIOUS
<1>4. n = [q EXCEPT !.cache = s, !.buf = b, !.front_ready = TRUE, !.back_ready = TRUE, !.ready = TRUE,
                    !.exe_ptr = e, !.state = "ST_ALLOC_RECYCLE_BEGIN"]
  BY <1>1, <1>2, <1>3 DEF Boxes!RefillState, Boxes!FirstFill, Slots, Half
<1>5. /\ s \in [Slots -> Index(c)] /\ e \in Boxes!Bit /\ b \subseteq Boxes!Bit /\ b = Slots
      /\ e = Half % MemoryWidth
  <2>1. Half \in Nat /\ MemoryWidth \in Nat \ {0} /\ CacheDepth <= MemoryWidth /\ CacheDepth \in Nat
    BY SizesFit
  <2>2. PICK D : D = Boxes!BRAM_DEPTH(c)
    OBVIOUS
  <2>3. D \in Nat \ {0} /\ Index(c) = 0..(MemoryWidth * D - 1)
    BY <2>2, ClassFits
  <2>4. MemoryWidth <= MemoryWidth * D
    BY <2>1, <2>3
  <2>5. Slots \subseteq Index(c) /\ Slots \subseteq Boxes!Bit
    <3>1. PICK m : m = MemoryWidth * D
      OBVIOUS
    <3>2. m \in Nat /\ MemoryWidth <= m
      BY <2>1, <2>3, <2>4, <3>1
    <3>3. QED
      BY <2>1, <2>3, <3>1, <3>2, SizesFit DEF Slots
  <2>6. e \in Boxes!Bit /\ 0 + Half = Half
    BY <1>3, <2>1, SizesFit
  <2>7. QED
    BY <1>3, <2>5, <2>6
<1>6. /\ n \in Refills(c) /\ n.state = "ST_ALLOC_RECYCLE_BEGIN" /\ n.exe_ptr = Half % MemoryWidth
      /\ n.buf = Slots /\ n.ready /\ n.front_ready /\ n.back_ready /\ n.cache = s
      /\ n.addr_counter = r.addr_counter /\ n.got = r.got /\ n.wea = r.wea /\ n.dina = r.dina
  BY <1>2, <1>4, <1>5 DEF Refills, RefillStates
<1>7. n \in Refills(c)
  BY <1>6
<1>8. /\ g \in Refills(c) /\ g.state = n.state /\ g.exe_ptr = n.exe_ptr
      /\ g.buf = AfterHit(c, n.buf)
      /\ g.ready = n.ready /\ g.front_ready = n.front_ready /\ g.back_ready = n.back_ready
      /\ g.cache = n.cache /\ g.addr_counter = n.addr_counter /\ g.got = n.got /\ g.wea = n.wea
      /\ g.dina = n.dina
  BY <1>1, <1>7, RefillIs
<1>9. \A j \in Slots : s[j] = j
  BY <1>3
<1>10. QED
  BY <1>6, <1>8, <1>9

\* The process waits for the half of the cache that is handed out to be used up.
LEMMA BeginMoves ==
  ASSUME Types, NEW request, NEW rdy, NEW free, Step(request, rdy, free), NEW c \in Class,
         refill[c].state = "ST_ALLOC_RECYCLE_BEGIN", NEW r, r = refill[c], NEW g, g = refill'[c],
         NEW m, m = cache_counter_alloc[c]
  PROVE  /\ g \in Refills(c) /\ ~g.wea /\ (g.has_recycled <=> Renewed(c))
         /\ g.addr_counter = r.addr_counter /\ g.exe_ptr = r.exe_ptr /\ g.got = r.got
         /\ g.buf = AfterHit(c, r.buf) /\ g.cache = r.cache
         /\ g.ready = r.ready /\ g.front_ready = r.front_ready /\ g.back_ready = r.back_ready
         /\ m \in {Half, CacheDepth - 1} /\ ~r.has_recycled =>
              g.state = "ST_ALLOC_RECYCLE_EXE" /\ (g.back <=> m = CacheDepth - 1)
         /\ ~(m \in {Half, CacheDepth - 1} /\ ~r.has_recycled) =>
              g.state = "ST_ALLOC_RECYCLE_BEGIN" /\ g.back = r.back
<1>1. PICK q, n : q = Current(c) /\ n = Boxes!RefillState(c, Current(c))
  OBVIOUS
<1>2. /\ q \in Refills(c) /\ q.state = "ST_ALLOC_RECYCLE_BEGIN" /\ q.addr_counter = r.addr_counter
      /\ q.exe_ptr = r.exe_ptr /\ q.got = r.got /\ q.buf = r.buf /\ q.cache = r.cache
      /\ q.ready = r.ready /\ q.front_ready = r.front_ready /\ q.back_ready = r.back_ready
      /\ q.back = r.back /\ (q.has_recycled <=> Renewed(c))
  BY <1>1, CurrentIs
<1>3. PICK begin : begin = (m \in {Half, CacheDepth - 1} /\ ~r.has_recycled)
  OBVIOUS
<1>4. PICK b, s : /\ b = (IF begin THEN m = CacheDepth - 1 ELSE q.back)
                  /\ s = (IF begin THEN "ST_ALLOC_RECYCLE_EXE" ELSE q.state)
  OBVIOUS
<1>5. n = [q EXCEPT !.wea = FALSE, !.back = b, !.state = s]
  BY <1>1, <1>2, <1>3, <1>4 DEF Boxes!RefillState, Boxes!RefillBegin, Half
<1>6. b \in BOOLEAN /\ s \in RefillStates
  BY <1>2, <1>3, <1>4 DEF Refills, RefillStates
<1>7. /\ n \in Refills(c) /\ ~n.wea /\ n.has_recycled = q.has_recycled
      /\ n.addr_counter = q.addr_counter /\ n.exe_ptr = q.exe_ptr /\ n.got = q.got
      /\ n.buf = q.buf /\ n.cache = q.cache
      /\ n.ready = q.ready /\ n.front_ready = q.front_ready /\ n.back_ready = q.back_ready
      /\ n.state = s /\ n.back = b
  BY <1>2, <1>5, <1>6 DEF Refills
<1>8. /\ g \in Refills(c) /\ g.wea = n.wea /\ g.has_recycled = n.has_recycled
      /\ g.addr_counter = n.addr_counter /\ g.exe_ptr = n.exe_ptr /\ g.got = n.got
      /\ g.buf = AfterHit(c, n.buf) /\ g.cache = n.cache
      /\ g.ready = n.ready /\ g.front_ready = n.front_ready /\ g.back_ready = n.back_ready
      /\ g.state = n.state /\ g.back = n.back
  BY <1>1, <1>7, RefillIs
<1>9. /\ begin => g.state = "ST_ALLOC_RECYCLE_EXE" /\ (g.back <=> m = CacheDepth - 1)
      /\ ~begin => g.state = "ST_ALLOC_RECYCLE_BEGIN" /\ g.back = r.back
  BY <1>2, <1>4, <1>7, <1>8
<1>10. ~g.wea /\ (g.has_recycled <=> Renewed(c)) /\ g.buf = AfterHit(c, r.buf)
  BY <1>2, <1>7, <1>8
<1>11. /\ g \in Refills(c)
       /\ g.addr_counter = r.addr_counter /\ g.exe_ptr = r.exe_ptr /\ g.got = r.got
       /\ g.cache = r.cache
       /\ g.ready = r.ready /\ g.front_ready = r.front_ready /\ g.back_ready = r.back_ready
  BY <1>2, <1>7, <1>8
<1>12. QED
  BY <1>3, <1>9, <1>10, <1>11

\* The refill pauses, ends, leaves the word, or searches a window.
Ends(c) == ~Paused(c) /\ refill[c].got >= Half
Leaves(c) == ~Paused(c) /\ ~Ends(c) /\ refill[c].exe_ptr = 0 /\ refill[c].not_first
Searches(c) == ~Paused(c) /\ ~Ends(c) /\ ~Leaves(c)

LEMMA ExeIs ==
  ASSUME Types, NEW c \in Class, refill[c].state = "ST_ALLOC_RECYCLE_EXE", NEW q, q = Current(c),
         NEW n, n = Boxes!RefillState(c, Current(c))
  PROVE  /\ Paused(c) => n = q
         /\ Ends(c) => n = Boxes!RefillDone(q)
         /\ Leaves(c) => n = Boxes!EndOfWord(q)
         /\ Searches(c) => n = Boxes!Fill(q)
<1>1. /\ q.state = "ST_ALLOC_RECYCLE_EXE" /\ q.got = refill[c].got /\ q.exe_ptr = refill[c].exe_ptr
      /\ q.not_first = refill[c].not_first
  BY CurrentIs
<1>2. n = Boxes!Exe(q, cache_counter_alloc[c])
  BY <1>1 DEF Boxes!RefillState
<1>3. QED
  BY <1>1, <1>2 DEF Boxes!Exe, Half, Paused, Ends, Leaves, Searches

LEMMA PausedMoves ==
  ASSUME Types, NEW request, NEW rdy, NEW free, Step(request, rdy, free), NEW c \in Class,
         refill[c].state = "ST_ALLOC_RECYCLE_EXE", Paused(c),
         NEW r, r = refill[c], NEW g, g = refill'[c]
  PROVE  /\ g \in Refills(c) /\ g.wea = r.wea /\ g.state = r.state
         /\ g.addr_counter = r.addr_counter /\ g.exe_ptr = r.exe_ptr /\ g.got = r.got
         /\ g.buf = AfterHit(c, r.buf) /\ g.cache = r.cache /\ g.back = r.back
         /\ g.ready = r.ready /\ g.front_ready = r.front_ready /\ g.back_ready = r.back_ready
<1>1. PICK q, n : q = Current(c) /\ n = Boxes!RefillState(c, Current(c))
  OBVIOUS
<1>2. /\ q \in Refills(c) /\ q.state = r.state /\ q.addr_counter = r.addr_counter /\ q.wea = r.wea
      /\ q.exe_ptr = r.exe_ptr /\ q.got = r.got /\ q.buf = r.buf /\ q.cache = r.cache
      /\ q.ready = r.ready /\ q.front_ready = r.front_ready /\ q.back_ready = r.back_ready
      /\ q.back = r.back
  BY <1>1, CurrentIs
<1>3. n = q
  BY <1>1, ExeIs
<1>4. n \in Refills(c)
  BY <1>2, <1>3
<1>5. /\ g \in Refills(c) /\ g.wea = n.wea /\ g.state = n.state
      /\ g.addr_counter = n.addr_counter /\ g.exe_ptr = n.exe_ptr /\ g.got = n.got
      /\ g.buf = AfterHit(c, n.buf) /\ g.cache = n.cache /\ g.back = n.back
      /\ g.ready = n.ready /\ g.front_ready = n.front_ready /\ g.back_ready = n.back_ready
  BY <1>1, <1>4, RefillIs
<1>6. QED
  BY <1>2, <1>3, <1>5

LEMMA EndsMoves ==
  ASSUME Types, NEW request, NEW rdy, NEW free, Step(request, rdy, free), NEW c \in Class,
         refill[c].state = "ST_ALLOC_RECYCLE_EXE", Ends(c),
         NEW r, r = refill[c], NEW g, g = refill'[c]
  PROVE  /\ g \in Refills(c) /\ g.wea = r.wea /\ g.state = "ST_ALLOC_RECYCLE_BEGIN"
         /\ g.addr_counter = r.addr_counter /\ g.exe_ptr = r.exe_ptr /\ g.got = 0 /\ g.has_recycled
         /\ g.buf = AfterHit(c, r.buf) /\ g.cache = r.cache /\ g.back = r.back /\ g.ready = r.ready
         /\ IF r.back THEN g.back_ready /\ g.front_ready = r.front_ready
                      ELSE g.front_ready /\ g.back_ready = r.back_ready
<1>1. PICK q, n : q = Current(c) /\ n = Boxes!RefillState(c, Current(c))
  OBVIOUS
<1>2. /\ q \in Refills(c) /\ q.addr_counter = r.addr_counter /\ q.wea = r.wea
      /\ q.exe_ptr = r.exe_ptr /\ q.got = r.got /\ q.buf = r.buf /\ q.cache = r.cache
      /\ q.ready = r.ready /\ q.front_ready = r.front_ready /\ q.back_ready = r.back_ready
      /\ q.back = r.back
  BY <1>1, CurrentIs
<1>3. PICK h : h = Boxes!HalfReady(q, TRUE)
  OBVIOUS
<1>4. h = IF q.back THEN [q EXCEPT !.back_ready = TRUE] ELSE [q EXCEPT !.front_ready = TRUE]
  BY <1>3 DEF Boxes!HalfReady
<1>5. /\ h \in Refills(c) /\ h.addr_counter = q.addr_counter /\ h.wea = q.wea
      /\ h.exe_ptr = q.exe_ptr /\ h.got = q.got /\ h.buf = q.buf /\ h.cache = q.cache
      /\ h.ready = q.ready /\ h.back = q.back
      /\ IF q.back THEN h.back_ready /\ h.front_ready = q.front_ready
                   ELSE h.front_ready /\ h.back_ready = q.back_ready
  <2>1. CASE q.back
    BY <1>2, <1>4, <2>1 DEF Refills
  <2>2. CASE ~q.back
    BY <1>2, <1>4, <2>2 DEF Refills
  <2>3. QED
    BY <2>1, <2>2
<1>6. n = [h EXCEPT !.has_recycled = TRUE, !.got = 0, !.state = "ST_ALLOC_RECYCLE_BEGIN"]
  BY <1>1, <1>3, ExeIs DEF Boxes!RefillDone
<1>7. 0 \in Slots
  BY SizesFit DEF Slots
<1>8. /\ n \in Refills(c) /\ n.addr_counter = h.addr_counter /\ n.wea = h.wea
      /\ n.exe_ptr = h.exe_ptr /\ n.got = 0 /\ n.buf = h.buf /\ n.cache = h.cache
      /\ n.ready = h.ready /\ n.back = h.back /\ n.front_ready = h.front_ready
      /\ n.back_ready = h.back_ready /\ n.has_recycled /\ n.state = "ST_ALLOC_RECYCLE_BEGIN"
  BY <1>5, <1>6, <1>7 DEF Refills, RefillStates
<1>11. n \in Refills(c)
  BY <1>8
<1>9. /\ g \in Refills(c) /\ g.addr_counter = n.addr_counter /\ g.wea = n.wea
      /\ g.exe_ptr = n.exe_ptr /\ g.got = n.got /\ g.buf = AfterHit(c, n.buf) /\ g.cache = n.cache
      /\ g.ready = n.ready /\ g.back = n.back /\ g.front_ready = n.front_ready
      /\ g.back_ready = n.back_ready /\ g.has_recycled = n.has_recycled /\ g.state = n.state
  BY <1>1, <1>11, RefillIs
<1>10. QED
  BY <1>2, <1>5, <1>8, <1>9

LEMMA LeavesMoves ==
  ASSUME Types, NEW request, NEW rdy, NEW free, Step(request, rdy, free), NEW c \in Class,
         refill[c].state = "ST_ALLOC_RECYCLE_EXE", Leaves(c),
         NEW r, r = refill[c], NEW g, g = refill'[c]
  PROVE  /\ g \in Refills(c) /\ g.wea = r.wea /\ g.state = "ST_ALLOC_RECYCLE_EXE_WRITE_BACK"
         /\ g.addr_counter = r.addr_counter /\ g.exe_ptr = 0 /\ g.got = r.got
         /\ g.buf = AfterHit(c, r.buf) /\ g.cache = r.cache /\ g.back = r.back /\ g.ready = r.ready
         /\ IF r.back THEN g.front_ready = r.front_ready ELSE g.back_ready = r.back_ready
<1>1. PICK q, n : q = Current(c) /\ n = Boxes!RefillState(c, Current(c))
  OBVIOUS
<1>2. /\ q \in Refills(c) /\ q.addr_counter = r.addr_counter /\ q.wea = r.wea
      /\ q.got = r.got /\ q.buf = r.buf /\ q.cache = r.cache
      /\ q.ready = r.ready /\ q.front_ready = r.front_ready /\ q.back_ready = r.back_ready
      /\ q.back = r.back
  BY <1>1, CurrentIs
<1>3. PICK h : h = Boxes!HalfReady(q, FALSE)
  OBVIOUS
<1>4. h = IF q.back THEN [q EXCEPT !.back_ready = FALSE] ELSE [q EXCEPT !.front_ready = FALSE]
  BY <1>3 DEF Boxes!HalfReady
<1>5. /\ h \in Refills(c) /\ h.addr_counter = q.addr_counter /\ h.wea = q.wea
      /\ h.got = q.got /\ h.buf = q.buf /\ h.cache = q.cache /\ h.ready = q.ready /\ h.back = q.back
      /\ IF q.back THEN h.front_ready = q.front_ready ELSE h.back_ready = q.back_ready
  <2>1. CASE q.back
    BY <1>2, <1>4, <2>1 DEF Refills
  <2>2. CASE ~q.back
    BY <1>2, <1>4, <2>2 DEF Refills
  <2>3. QED
    BY <2>1, <2>2
<1>6. n = [h EXCEPT !.state = "ST_ALLOC_RECYCLE_EXE_WRITE_BACK", !.exe_ptr = 0, !.not_first = FALSE]
  BY <1>1, <1>3, ExeIs DEF Boxes!EndOfWord
<1>7. 0 \in Boxes!Bit
  BY SizesFit
<1>8. /\ n \in Refills(c) /\ n.addr_counter = h.addr_counter /\ n.wea = h.wea
      /\ n.exe_ptr = 0 /\ n.got = h.got /\ n.buf = h.buf /\ n.cache = h.cache
      /\ n.ready = h.ready /\ n.back = h.back /\ n.front_ready = h.front_ready
      /\ n.back_ready = h.back_ready /\ n.state = "ST_ALLOC_RECYCLE_EXE_WRITE_BACK"
  BY <1>5, <1>6, <1>7 DEF Refills, RefillStates
<1>9. n \in Refills(c)
  BY <1>8
<1>10. /\ g \in Refills(c) /\ g.addr_counter = n.addr_counter /\ g.wea = n.wea
      /\ g.exe_ptr = n.exe_ptr /\ g.got = n.got /\ g.buf = AfterHit(c, n.buf) /\ g.cache = n.cache
      /\ g.ready = n.ready /\ g.back = n.back /\ g.front_ready = n.front_ready
      /\ g.back_ready = n.back_ready /\ g.state = n.state
  BY <1>1, <1>9, RefillIs
<1>11. QED
  BY <1>2, <1>5, <1>8, <1>10

\* The word goes back to the bit map, and the next one is read.
LEMMA WriteBackMoves ==
  ASSUME Types, NEW request, NEW rdy, NEW free, Step(request, rdy, free), NEW c \in Class,
         refill[c].state = "ST_ALLOC_RECYCLE_EXE_WRITE_BACK",
         NEW r, r = refill[c], NEW g, g = refill'[c]
  PROVE  /\ g \in Refills(c) /\ g.state = "ST_ALLOC_RECYCLE_EXE_READ"
         /\ g.wea /\ g.addra = r.addr_counter /\ g.dina = r.buf
         /\ g.exe_ptr = r.exe_ptr /\ g.got = r.got /\ g.cache = r.cache /\ g.back = r.back
         /\ g.ready = r.ready /\ g.front_ready = r.front_ready /\ g.back_ready = r.back_ready
<1>1. PICK q, n : q = Current(c) /\ n = Boxes!RefillState(c, Current(c))
  OBVIOUS
<1>2. /\ q \in Refills(c) /\ q.state = "ST_ALLOC_RECYCLE_EXE_WRITE_BACK"
      /\ q.addr_counter = r.addr_counter /\ q.buf = r.buf
      /\ q.exe_ptr = r.exe_ptr /\ q.got = r.got /\ q.cache = r.cache /\ q.back = r.back
      /\ q.ready = r.ready /\ q.front_ready = r.front_ready /\ q.back_ready = r.back_ready
  BY <1>1, CurrentIs
<1>3. PICK k, a : k = q.addr_counter /\ a = (q.addr_counter + 1) % Boxes!BRAM_DEPTH(c)
  OBVIOUS
<1>4. k \in Words(c) /\ k \in Nat /\ a \in Words(c)
  <2>1. PICK D : D = Boxes!BRAM_DEPTH(c)
    OBVIOUS
  <2>2. D \in Nat \ {0} /\ Words(c) = 0..(D - 1)
    BY <2>1, ClassFits DEF Words
  <2>3. k \in Words(c)
    BY <1>2, <1>3 DEF Refills
  <2>4. k \in Nat /\ a = (k + 1) % D
    BY <1>3, <2>1, <2>2, <2>3
  <2>5. QED
    BY <2>2, <2>3, <2>4
<1>5. n = [q EXCEPT !.wea = TRUE, !.addra = k, !.dina = q.buf, !.addr_counter = a,
                    !.state = "ST_ALLOC_RECYCLE_EXE_READ"]
  BY <1>1, <1>2, <1>3 DEF Boxes!RefillState, Boxes!WriteBack
<1>6. /\ n \in Refills(c) /\ n.state = "ST_ALLOC_RECYCLE_EXE_READ"
      /\ n.wea /\ n.addra = k /\ n.dina = q.buf
      /\ n.exe_ptr = q.exe_ptr /\ n.got = q.got /\ n.cache = q.cache /\ n.back = q.back
      /\ n.ready = q.ready /\ n.front_ready = q.front_ready /\ n.back_ready = q.back_ready
  BY <1>2, <1>4, <1>5 DEF Refills, RefillStates
<1>7. n \in Refills(c)
  BY <1>6
<1>8. /\ g \in Refills(c) /\ g.state = n.state
      /\ g.wea = n.wea /\ g.addra = n.addra /\ g.dina = n.dina
      /\ g.exe_ptr = n.exe_ptr /\ g.got = n.got /\ g.cache = n.cache /\ g.back = n.back
      /\ g.ready = n.ready /\ g.front_ready = n.front_ready /\ g.back_ready = n.back_ready
  BY <1>1, <1>7, RefillIs
<1>9. QED
  BY <1>2, <1>3, <1>6, <1>8

LEMMA ReadMoves ==
  ASSUME Types, NEW request, NEW rdy, NEW free, Step(request, rdy, free), NEW c \in Class,
         refill[c].state = "ST_ALLOC_RECYCLE_EXE_READ", NEW r, r = refill[c], NEW g, g = refill'[c]
  PROVE  /\ g \in Refills(c) /\ g.state = "ST_ALLOC_RECYCLE_EXE_READ_GET"
         /\ ~g.wea /\ g.addra = r.addr_counter /\ g.addr_counter = r.addr_counter
         /\ g.exe_ptr = r.exe_ptr /\ g.got = r.got /\ g.cache = r.cache /\ g.back = r.back
         /\ g.ready = r.ready /\ g.front_ready = r.front_ready /\ g.back_ready = r.back_ready
<1>1. PICK q, n : q = Current(c) /\ n = Boxes!RefillState(c, Current(c))
  OBVIOUS
<1>2. /\ q \in Refills(c) /\ q.state = "ST_ALLOC_RECYCLE_EXE_READ"
      /\ q.addr_counter = r.addr_counter
      /\ q.exe_ptr = r.exe_ptr /\ q.got = r.got /\ q.cache = r.cache /\ q.back = r.back
      /\ q.ready = r.ready /\ q.front_ready = r.front_ready /\ q.back_ready = r.back_ready
  BY <1>1, CurrentIs
<1>3. PICK k : k = q.addr_counter
  OBVIOUS
<1>4. k \in Nat
  BY <1>2, <1>3 DEF Refills, Words
<1>5. n = [q EXCEPT !.wea = FALSE, !.addra = k, !.state = "ST_ALLOC_RECYCLE_EXE_READ_GET"]
  BY <1>1, <1>2, <1>3 DEF Boxes!RefillState, Boxes!ExeRead
<1>6. /\ n \in Refills(c) /\ n.state = "ST_ALLOC_RECYCLE_EXE_READ_GET"
      /\ ~n.wea /\ n.addra = k /\ n.addr_counter = k
      /\ n.exe_ptr = q.exe_ptr /\ n.got = q.got /\ n.cache = q.cache /\ n.back = q.back
      /\ n.ready = q.ready /\ n.front_ready = q.front_ready /\ n.back_ready = q.back_ready
  BY <1>2, <1>3, <1>4, <1>5 DEF Refills, RefillStates
<1>7. n \in Refills(c)
  BY <1>6
<1>8. /\ g \in Refills(c) /\ g.state = n.state
      /\ g.wea = n.wea /\ g.addra = n.addra /\ g.addr_counter = n.addr_counter
      /\ g.exe_ptr = n.exe_ptr /\ g.got = n.got /\ g.cache = n.cache /\ g.back = n.back
      /\ g.ready = n.ready /\ g.front_ready = n.front_ready /\ g.back_ready = n.back_ready
  BY <1>1, <1>7, RefillIs
<1>9. QED
  BY <1>2, <1>3, <1>6, <1>8

LEMMA GetMoves ==
  ASSUME Types, NEW request, NEW rdy, NEW free, Step(request, rdy, free), NEW c \in Class,
         refill[c].state = "ST_ALLOC_RECYCLE_EXE_READ_GET",
         NEW r, r = refill[c], NEW g, g = refill'[c], r.addra = r.addr_counter
  PROVE  /\ g \in Refills(c) /\ g.state = "ST_ALLOC_RECYCLE_EXE"
         /\ g.wea = r.wea /\ g.addr_counter = r.addr_counter
         /\ g.buf = AfterHit(c, bram[c][r.addr_counter])
         /\ g.exe_ptr = r.exe_ptr /\ g.got = r.got /\ g.cache = r.cache /\ g.back = r.back
         /\ g.ready = r.ready /\ g.front_ready = r.front_ready /\ g.back_ready = r.back_ready
<1>1. PICK q, n : q = Current(c) /\ n = Boxes!RefillState(c, Current(c))
  OBVIOUS
<1>2. /\ q \in Refills(c) /\ q.state = "ST_ALLOC_RECYCLE_EXE_READ_GET"
      /\ q.addr_counter = r.addr_counter /\ q.addra = r.addra /\ q.wea = r.wea
      /\ q.exe_ptr = r.exe_ptr /\ q.got = r.got /\ q.cache = r.cache /\ q.back = r.back
      /\ q.ready = r.ready /\ q.front_ready = r.front_ready /\ q.back_ready = r.back_ready
  BY <1>1, CurrentIs
<1>3. PICK b : b = bram[c][r.addr_counter]
  OBVIOUS
<1>4. b \subseteq Boxes!Bit
  <2>1. r.addr_counter \in Words(c)
    BY <1>2 DEF Refills
  <2>2. QED
    BY <1>3, <2>1 DEF Types, ClassTypes
<1>5. n = [q EXCEPT !.buf = b, !.state = "ST_ALLOC_RECYCLE_EXE"]
  BY <1>1, <1>2, <1>3 DEF Boxes!RefillState, Boxes!ExeReadGet
<1>6. /\ n \in Refills(c) /\ n.state = "ST_ALLOC_RECYCLE_EXE" /\ n.buf = b
      /\ n.wea = q.wea /\ n.addr_counter = q.addr_counter
      /\ n.exe_ptr = q.exe_ptr /\ n.got = q.got /\ n.cache = q.cache /\ n.back = q.back
      /\ n.ready = q.ready /\ n.front_ready = q.front_ready /\ n.back_ready = q.back_ready
  BY <1>2, <1>4, <1>5 DEF Refills, RefillStates
<1>7. n \in Refills(c)
  BY <1>6
<1>8. /\ g \in Refills(c) /\ g.state = n.state /\ g.buf = AfterHit(c, n.buf)
      /\ g.wea = n.wea /\ g.addr_counter = n.addr_counter
      /\ g.exe_ptr = n.exe_ptr /\ g.got = n.got /\ g.cache = n.cache /\ g.back = n.back
      /\ g.ready = n.ready /\ g.front_ready = n.front_ready /\ g.back_ready = n.back_ready
  BY <1>1, <1>7, RefillIs
<1>9. QED
  BY <1>2, <1>3, <1>6, <1>8

\* The first slot that a search fills, and the box whose bit it finds k-th.
First(c) == IF refill[c].back THEN Half ELSE 0
Find(c, k) == Boxes!FreeBit(Current(c), k) + refill[c].addr_counter * MemoryWidth

Count(c) == Boxes!cnt(Current(c))
Limit(c) == Boxes!limit(Current(c))
FoundBits(c) == {Boxes!FreeBit(Current(c), k) : k \in 0..(Limit(c) - 1)}
Searched(c) == refill[c].buf \cup FoundBits(c)
Filled(c) == First(c)..(First(c) + Limit(c) - 1)
Fills(c, cache) ==
    \A j \in Slots : cache[j] = IF j \in Filled(c) THEN Find(c, j - First(c)) ELSE refill[c].cache[j]
NextPtr(c) == IF refill[c].got + Count(c) > Half THEN refill[c].exe_ptr
              ELSE (refill[c].exe_ptr + Half) % MemoryWidth

LEMMA SearchFits ==
  ASSUME Types, NEW c \in Class, NEW q, q = Current(c), q.got < Half
  PROVE  /\ Boxes!cnt(q) \in 0..Half /\ Boxes!limit(q) \in Nat /\ Boxes!limit(q) <= Boxes!cnt(q)
         /\ q.got = 0 => Boxes!limit(q) = Boxes!cnt(q)
         /\ q.got + Boxes!cnt(q) \in Slots
         /\ \A k \in 0..(Boxes!limit(q) - 1) :
              /\ Boxes!FreeBit(q, k) \in Boxes!Bit /\ Boxes!FreeBit(q, k) \notin refill[c].buf
              /\ Find(c, k) \in Index(c)
              /\ Find(c, k) \div MemoryWidth = refill[c].addr_counter
              /\ Find(c, k) % MemoryWidth = Boxes!FreeBit(q, k)
         /\ \A j, k \in 0..(Boxes!limit(q) - 1) : Find(c, j) = Find(c, k) => j = k
<1>1. q \in Refills(c) /\ q.buf = refill[c].buf /\ q.addr_counter = refill[c].addr_counter
  BY CurrentIs
<1>2. q.got \in Nat /\ q.exe_ptr \in Nat /\ q.addr_counter \in Words(c)
  BY <1>1, SizesFit DEF Refills, Slots
<1>3. /\ Boxes!cnt(q) \in 0..Half
      /\ \A k \in 0..(Boxes!cnt(q) - 1) :
              Boxes!FreeBit(q, k) \in Boxes!Bit /\ Boxes!FreeBit(q, k) \notin q.buf
      /\ \A j, k \in 0..(Boxes!cnt(q) - 1) :
              Boxes!FreeBit(q, j) = Boxes!FreeBit(q, k) => j = k
  BY <1>2, FreeBitsFit
<1>4. PICK t, l, x : t = Boxes!cnt(q) /\ l = Boxes!limit(q) /\ x = q.got
  OBVIOUS
<1>5. l = IF t + x > Half THEN Half - x ELSE t
  BY <1>4 DEF Boxes!limit, Half
<1>6. t \in 0..Half /\ x \in Nat /\ x < Half /\ Half \in Nat
  BY <1>2, <1>3, <1>4, SizesFit
<1>7. l \in Nat /\ l <= t /\ (x = 0 => l = t) /\ x + t \in Slots
  BY <1>5, <1>6, SizesFit DEF Slots
<1>8. ASSUME NEW k \in 0..(l - 1)
      PROVE  /\ Boxes!FreeBit(q, k) \in Boxes!Bit /\ Boxes!FreeBit(q, k) \notin refill[c].buf
             /\ Find(c, k) \in Index(c)
             /\ Find(c, k) \div MemoryWidth = refill[c].addr_counter
             /\ Find(c, k) % MemoryWidth = Boxes!FreeBit(q, k)
  <2>1. k \in 0..(Boxes!cnt(q) - 1)
    BY <1>4, <1>6, <1>7
  <2>2. PICK b, w : b = Boxes!FreeBit(q, k) /\ w = refill[c].addr_counter
    OBVIOUS
  <2>3. b \in Boxes!Bit /\ b \notin refill[c].buf /\ w \in Words(c)
    BY <1>1, <1>2, <1>3, <2>1, <2>2
  <2>4. Find(c, k) = b + w * MemoryWidth
    BY <2>2 DEF Find
  <2>5. QED
    BY <2>2, <2>3, <2>4, IndexFits
<1>9. ASSUME NEW j \in 0..(l - 1), NEW k \in 0..(l - 1), Find(c, j) = Find(c, k)
      PROVE  j = k
  <2>1. j \in 0..(Boxes!cnt(q) - 1) /\ k \in 0..(Boxes!cnt(q) - 1)
    BY <1>4, <1>6, <1>7
  <2>2. Boxes!FreeBit(q, j) = Boxes!FreeBit(q, k)
    BY <1>8, <1>9
  <2>3. QED
    BY <1>3, <2>1, <2>2
<1>10. QED
  BY <1>3, <1>4, <1>7, <1>8, <1>9

LEMMA SearchMoves ==
  ASSUME Types, NEW request, NEW rdy, NEW free, Step(request, rdy, free), NEW c \in Class,
         refill[c].state = "ST_ALLOC_RECYCLE_EXE", Searches(c),
         NEW r, r = refill[c], NEW g, g = refill'[c]
  PROVE  /\ g \in Refills(c) /\ g.wea = r.wea /\ g.state = "ST_ALLOC_RECYCLE_EXE"
         /\ g.addr_counter = r.addr_counter /\ g.back = r.back /\ g.ready = r.ready
         /\ (r.back => g.front_ready = r.front_ready) /\ (~r.back => g.back_ready = r.back_ready)
         /\ g.got = r.got + Count(c) /\ g.exe_ptr = NextPtr(c)
         /\ g.buf = AfterHit(c, Searched(c))
         /\ Fills(c, g.cache)
<1>1. PICK n, q : n = Boxes!RefillState(c, Current(c)) /\ q = Current(c)
  OBVIOUS
<1>2. /\ q \in Refills(c) /\ q.addr_counter = r.addr_counter /\ q.wea = r.wea
      /\ q.got = r.got /\ q.buf = r.buf /\ q.cache = r.cache /\ q.exe_ptr = r.exe_ptr
      /\ q.ready = r.ready /\ q.front_ready = r.front_ready /\ q.back_ready = r.back_ready
      /\ q.back = r.back /\ q.state = "ST_ALLOC_RECYCLE_EXE"
  BY <1>1, CurrentIs
<1>3. PICK h : h = Boxes!HalfReady(q, FALSE)
  OBVIOUS
<1>4. h = IF q.back THEN [q EXCEPT !.back_ready = FALSE] ELSE [q EXCEPT !.front_ready = FALSE]
  BY <1>3 DEF Boxes!HalfReady
<1>5. /\ h \in Refills(c) /\ h.addr_counter = q.addr_counter /\ h.wea = q.wea
      /\ h.exe_ptr = q.exe_ptr
      /\ h.got = q.got /\ h.buf = q.buf /\ h.cache = q.cache /\ h.ready = q.ready /\ h.back = q.back
      /\ h.state = q.state
      /\ IF q.back THEN h.front_ready = q.front_ready ELSE h.back_ready = q.back_ready
  <2>1. CASE q.back
    BY <1>2, <1>4, <2>1 DEF Refills
  <2>2. CASE ~q.back
    BY <1>2, <1>4, <2>2 DEF Refills
  <2>3. QED
    BY <2>1, <2>2
<1>6. PICK t, l, x, first : /\ t = Boxes!cnt(q) /\ l = Boxes!limit(q) /\ x = r.got
                            /\ first = First(c)
  OBVIOUS
<1>7. r.got \in Nat /\ r.got < Half
  <2>1. r.got \in Nat
    BY <1>2 DEF Refills, Slots
  <2>2. ~(r.got >= Half)
    BY DEF Searches, Ends, Leaves
  <2>3. QED
    BY <2>1, <2>2, SizesFit
<1>8. PICK s, b, e : /\ s = [j \in 0..(CacheDepth - 1) |->
                               IF j \in first..(first + l - 1)
                               THEN Boxes!FreeBit(q, j - first) + q.addr_counter * MemoryWidth
                               ELSE h.cache[j]]
                     /\ b = h.buf \cup {Boxes!FreeBit(q, k) : k \in 0..(l - 1)}
                     /\ e = IF q.got + t > Half THEN h.exe_ptr ELSE (h.exe_ptr + Half) % MemoryWidth
  OBVIOUS
<1>9. n = [h EXCEPT !.not_first = TRUE, !.cache = s, !.buf = b, !.exe_ptr = e, !.got = h.got + t]
  <2>1. first = IF q.back THEN Half ELSE 0
    BY <1>2, <1>6 DEF First
  <2>2. n = Boxes!Fill(q)
    BY <1>1, ExeIs
  <2>3. QED
    BY <1>3, <1>6, <1>8, <2>1, <2>2 DEF Boxes!Fill, Half
<1>10. /\ t \in 0..Half /\ l \in Nat /\ l <= t /\ x + t \in Slots
       /\ \A k \in 0..(l - 1) : Boxes!FreeBit(q, k) \in Boxes!Bit /\ Find(c, k) \in Index(c)
  <2>1. q.got < Half
    BY <1>2, <1>7
  <2>2. QED
    BY <1>1, <1>2, <1>6, <2>1, SearchFits
<1>11. b \subseteq Boxes!Bit
  <2>1. h.buf \subseteq Boxes!Bit
    BY <1>5 DEF Refills
  <2>2. QED
    BY <1>8, <1>10, <2>1
<1>12. e \in Boxes!Bit
  <2>1. h.exe_ptr \in Boxes!Bit
    BY <1>5 DEF Refills
  <2>2. PICK y : y = h.exe_ptr
    OBVIOUS
  <2>3. y \in Boxes!Bit /\ (y + Half) % MemoryWidth \in Boxes!Bit
    BY <2>1, <2>2, SizesFit
  <2>4. e = y \/ e = (y + Half) % MemoryWidth
    BY <1>8, <2>2
  <2>5. QED
    BY <2>3, <2>4
<1>13. \A j \in Slots : s[j] = IF j \in first..(first + l - 1) THEN Find(c, j - first) ELSE r.cache[j]
  BY <1>1, <1>2, <1>5, <1>8 DEF Slots, Find
<1>14. s \in [Slots -> Index(c)]
  <2>1. ASSUME NEW j \in Slots
        PROVE  s[j] \in Index(c)
    <3>1. CASE j \in first..(first + l - 1)
      <4>1. first \in Nat
        BY <1>6, SizesFit DEF First
      <4>2. j - first \in 0..(l - 1)
        BY <1>10, <3>1, <4>1
      <4>3. QED
        BY <1>10, <1>13, <3>1, <4>2
    <3>2. CASE j \notin first..(first + l - 1)
      BY <1>2, <1>13, <3>2 DEF Refills
    <3>3. QED
      BY <3>1, <3>2
  <2>2. s = [j \in Slots |-> s[j]]
    BY <1>8 DEF Slots
  <2>3. QED
    BY <2>1, <2>2
<1>15. h.got + t \in Slots
  BY <1>2, <1>5, <1>6, <1>10
<1>16. PICK y : y = h.got + t
  OBVIOUS
<1>17. /\ n \in Refills(c) /\ n.wea = h.wea /\ n.state = h.state
       /\ n.addr_counter = h.addr_counter /\ n.back = h.back /\ n.ready = h.ready
       /\ n.front_ready = h.front_ready /\ n.back_ready = h.back_ready
       /\ n.got = y /\ n.exe_ptr = e /\ n.buf = b /\ n.cache = s
  BY <1>5, <1>9, <1>11, <1>12, <1>14, <1>15, <1>16 DEF Refills
<1>18. n \in Refills(c)
  BY <1>17
<1>19. /\ g \in Refills(c) /\ g.wea = n.wea /\ g.state = n.state
       /\ g.addr_counter = n.addr_counter /\ g.back = n.back /\ g.ready = n.ready
       /\ g.front_ready = n.front_ready /\ g.back_ready = n.back_ready
       /\ g.got = n.got /\ g.exe_ptr = n.exe_ptr /\ g.buf = AfterHit(c, n.buf) /\ g.cache = n.cache
  BY <1>1, <1>18, RefillIs
<1>20. /\ g \in Refills(c) /\ g.wea = r.wea /\ g.state = "ST_ALLOC_RECYCLE_EXE"
       /\ g.addr_counter = r.addr_counter /\ g.back = r.back /\ g.ready = r.ready
       /\ IF r.back THEN g.front_ready = r.front_ready ELSE g.back_ready = r.back_ready
  BY <1>2, <1>5, <1>17, <1>19
<1>21. /\ g.got = r.got + Count(c) /\ g.buf = AfterHit(c, b) /\ g.cache = s /\ g.exe_ptr = e
  BY <1>1, <1>2, <1>5, <1>6, <1>16, <1>17, <1>19 DEF Count
<1>22. b = Searched(c)
  BY <1>1, <1>2, <1>5, <1>6, <1>8 DEF Searched, FoundBits, Limit
<1>23. e = NextPtr(c)
  BY <1>1, <1>2, <1>5, <1>6, <1>8 DEF NextPtr, Count
<1>24. Filled(c) = first..(first + l - 1)
  BY <1>1, <1>6 DEF Filled, Limit
<1>25. QED
  <2>1. Fills(c, s)
    BY <1>6, <1>13, <1>24 DEF Fills
  <2>2. QED
    BY <1>20, <1>21, <1>22, <1>23, <2>1

-----------------------------------------------------------------------------
(* The pace of requests, and whose turn it is *)

\* A request waits only while the refill rests, and behind a free that did not
\* fit the ring only if the ring can answer it.
Paced(c) ==
    /\ refill[c].ready <=> Started(c)
    /\ Waits(c) => Boxes!Quiet(c)
    /\ Waits(c) /\ Full(c) => free_ring[c] # <<>>

\* Until a free of the class did not fit the ring, a refill has found none or
\* all of a half, and the half it does not fill may be handed out.
Turn(c) ==
    /\ refill[c].got \in {0, Half}
    /\ ~Refilling(c) => refill[c].got = 0
    /\ Refilling(c) =>
         IF refill[c].back THEN cache_counter_alloc[c] \in {0, CacheDepth - 1}
                           ELSE cache_counter_alloc[c] = Half
    /\ Refilling(c) /\ Paused(c) =>
         refill[c].state = "ST_ALLOC_RECYCLE_EXE" /\ refill[c].got = 0 /\ refill[c].back_ready
    /\ Refilling(c) => IF refill[c].back THEN refill[c].front_ready ELSE refill[c].back_ready
    /\ Started(c) /\ ~Refilling(c) => refill[c].front_ready /\ refill[c].back_ready
    /\ Started(c) /\ ~Refilling(c) /\ Paused(c) => ~Renewed(c)

LEMMA DeliversFits ==
  ASSUME Types, Client, NEW c \in Class, Paced(c), NEW rdy, Delivers(c, rdy)
  PROVE  /\ ~Full(c) /\ Started(c) /\ Waits(c) /\ free_ring[c] = <<>>
         /\ ~clear_has_recycled[c] /\ Boxes!Quiet(c) /\ Boxes!SlotReady(c)
<1>1. alloc_state = "ST_ALLOC_DECIDE" /\ in_class = c /\ free_ring[c] = <<>> /\ Boxes!SlotReady(c)
  BY DEF Delivers, Boxes!FromCache
<1>2. Waits(c) /\ ~clear_has_recycled[c] /\ refill[c].ready
  BY <1>1 DEF Waits, Client
<1>3. QED
  BY <1>1, <1>2 DEF Paced

LEMMA FullMoves ==
  ASSUME NEW request, NEW rdy, NEW free, Step(request, rdy, free), NEW c \in Class
  PROVE  Full(c)' <=> Full(c) \/ (Boxes!ToRecycle /\ c = Boxes!free_class)
BY ClientMoves DEF Full

\* The counter of slots moves with a delivery alone, and not past a half that
\* has to be filled.
LEMMA CounterMoves ==
  ASSUME Types, Client, NEW request, NEW rdy, NEW free, Step(request, rdy, free), NEW c \in Class,
         Paced(c), NEW m, m = cache_counter_alloc[c], NEW k, k = cache_counter_alloc'[c]
  PROVE  /\ m \in Slots /\ k \in Slots /\ (clear_has_recycled'[c] <=> Delivers(c, rdy))
         /\ ~Delivers(c, rdy) => k = m
         /\ Delivers(c, rdy) => k = IF m = CacheDepth - 1 THEN 0 ELSE m + 1
         /\ Delivers(c, rdy) =>
              \/ refill[c].state = "ST_ALLOC_RECYCLE_EXE" /\ m = CacheDepth - 1
              \/ /\ refill[c].state = "ST_ALLOC_RECYCLE_BEGIN"
                 /\ m \in {Half, CacheDepth - 1} => refill[c].has_recycled /\ Renewed(c)
<1>1. m \in Slots
  BY DEF Types, ClassTypes
<1>2. /\ Delivers(c, rdy) => k = (m + 1) % CacheDepth
      /\ ~Delivers(c, rdy) => k = m
      /\ clear_has_recycled'[c] <=> Delivers(c, rdy)
  BY AllocMoves
<1>3. (m + 1) % CacheDepth = IF m = CacheDepth - 1 THEN 0 ELSE m + 1
  <2>1. m \in 0..(CacheDepth - 1) /\ CacheDepth \in Nat \ {0}
    BY <1>1, SizesFit DEF Slots
  <2>2. CacheDepth % CacheDepth = 0
    BY <2>1
  <2>3. CASE m = CacheDepth - 1
    <3>1. m + 1 = CacheDepth
      BY <2>1, <2>3
    <3>2. QED
      BY <2>2, <2>3, <3>1
  <2>4. CASE m # CacheDepth - 1
    BY <2>1, <2>4
  <2>5. QED
    BY <2>3, <2>4
<1>4. k \in Slots
  <2>1. m \in 0..(CacheDepth - 1) /\ CacheDepth \in Nat \ {0}
    BY <1>1, SizesFit DEF Slots
  <2>2. k \in {0, m} \/ (k = m + 1 /\ m # CacheDepth - 1)
    BY <1>2, <1>3
  <2>3. QED
    BY <2>1, <2>2 DEF Slots
<1>5. ASSUME Delivers(c, rdy)
      PROVE  \/ refill[c].state = "ST_ALLOC_RECYCLE_EXE" /\ m = CacheDepth - 1
             \/ /\ refill[c].state = "ST_ALLOC_RECYCLE_BEGIN"
                /\ m \in {Half, CacheDepth - 1} => refill[c].has_recycled /\ Renewed(c)
  BY <1>5, DeliversFits DEF Boxes!Quiet, Renewed, Half
<1>6. QED
  BY <1>1, <1>2, <1>3, <1>4, <1>5

-----------------------------------------------------------------------------
(* The bit map, until a free of the class did not fit the ring *)

Loading(c) == refill[c].state \in {"ST_ALLOC_RECYCLE_EXE_READ", "ST_ALLOC_RECYCLE_EXE_READ_GET"}

Registers(c) ==
    /\ ~Started(c) => /\ refill[c].buf = {} /\ refill[c].addr_counter = 0
                      /\ refill[c].exe_ptr = 0 /\ refill[c].got = 0
    /\ refill[c].wea => refill[c].state \in {"ST_CLEAR_BIT_MAP", "ST_ALLOC_RECYCLE_EXE_READ"}
    /\ refill[c].state = "ST_ALLOC_RECYCLE_EXE_READ_GET" =>
         refill[c].addra = refill[c].addr_counter
    /\ Loading(c) \/ refill[c].state = "ST_ALLOC_RECYCLE_EXE_WRITE_BACK" => refill[c].exe_ptr = 0

\* The word at work has its first n bits set, and is searched from a bit below.
BegunTo(c, n) == n <= MemoryWidth /\ refill[c].buf = 0..(n - 1) /\ refill[c].exe_ptr <= n

Shape(c) ==
    /\ refill[c].exe_ptr \in Multiple
    /\ \A w \in Words(c) : Begun(bram[c][w])
    /\ refill[c].wea => Begun(refill[c].dina)
    /\ ~Loading(c) => \E n \in Multiple : BegunTo(c, n)

\* A search finds a whole half, or nothing.
LEMMA SearchFindsHalf ==
  ASSUME Types, NEW c \in Class, refill[c].state = "ST_ALLOC_RECYCLE_EXE", Searches(c),
         Turn(c), Shape(c)
  PROVE  /\ refill[c].got = 0 /\ NextPtr(c) \in Multiple /\ Count(c) \in {0, Half}
         /\ Limit(c) = Count(c)
         /\ \E n \in Multiple :
              /\ n \in Nat /\ BegunTo(c, n)
              /\ n + Count(c) \in Multiple /\ n + Count(c) <= MemoryWidth
              /\ NextPtr(c) <= n + Count(c)
              /\ FoundBits(c) = n..(n + Count(c) - 1)
<1>1. PICK q, e : q = Current(c) /\ e = (refill[c].exe_ptr + Half) % MemoryWidth
  OBVIOUS
<1>11. /\ q \in Refills(c) /\ q.exe_ptr = refill[c].exe_ptr /\ q.buf = refill[c].buf
       /\ q.got = refill[c].got
  BY <1>1, CurrentIs
<1>2. refill[c].got = 0
  <2>1. refill[c].got \in {0, Half} /\ ~(refill[c].got >= Half)
    BY DEF Turn, Searches, Ends, Leaves
  <2>2. QED
    BY <2>1, SizesFit
<1>3. PICK n \in Multiple : BegunTo(c, n)
  BY DEF Shape, Loading
<1>4. /\ q.exe_ptr \in Multiple /\ q.exe_ptr < MemoryWidth /\ n <= MemoryWidth /\ q.exe_ptr <= n
      /\ q.buf = 0..(n - 1)
  <2>1. q.exe_ptr \in Boxes!Bit
    BY <1>11 DEF Refills
  <2>2. QED
    BY <1>3, <1>11, <2>1, SizesFit DEF Shape, BegunTo
<1>5. PICK t : t = Boxes!cnt(q)
  OBVIOUS
<1>6. /\ t \in {0, Half}
      /\ t = 0 => e <= n
      /\ t = Half =>
              /\ n + Half <= MemoryWidth
              /\ e <= n + Half
              /\ \A k \in 0..(Half - 1) : Boxes!FreeBit(q, k) = n + k
  BY <1>1, <1>4, <1>5, <1>11, SearchOfBegun
<1>7. e \in Multiple
  BY <1>1, <1>4, <1>11, NextWindow
<1>8. Boxes!limit(q) = t
  <2>1. q.got = 0 /\ q.got < Half
    BY <1>2, <1>11, SizesFit
  <2>2. QED
    BY <1>1, <1>5, <2>1, SearchFits
<1>9. n \in Nat /\ n + Half \in Multiple /\ Half \in Nat
  BY MultipleFits, SizesFit
<1>10. Count(c) = t /\ Limit(c) = t /\ NextPtr(c) = e
  <2>1. Count(c) = t /\ Limit(c) = t
    BY <1>1, <1>5, <1>8 DEF Count, Limit
  <2>2. ~(refill[c].got + t > Half)
    BY <1>2, <1>6, <1>9
  <2>3. QED
    BY <1>1, <2>1, <2>2 DEF NextPtr
<1>12. FoundBits(c) = n..(n + t - 1)
  <2>1. FoundBits(c) = {Boxes!FreeBit(q, k) : k \in 0..(t - 1)}
    BY <1>1, <1>10 DEF FoundBits
  <2>2. CASE t = 0
    BY <1>9, <2>1, <2>2
  <2>3. CASE t = Half
    <3>1. \A k \in 0..(t - 1) : Boxes!FreeBit(q, k) = n + k
      BY <1>6, <2>3
    <3>2. FoundBits(c) = {n + k : k \in 0..(t - 1)}
      BY <2>1, <3>1
    <3>3. \A x \in n..(n + t - 1) : x - n \in 0..(t - 1) /\ x = n + (x - n)
      BY <1>9, <2>3
    <3>4. \A k \in 0..(t - 1) : n + k \in n..(n + t - 1)
      BY <1>9, <2>3
    <3>5. QED
      BY <3>2, <3>3, <3>4
  <2>4. QED
    BY <1>6, <2>2, <2>3
<1>13. n + t \in Multiple /\ n + t <= MemoryWidth /\ e <= n + t
  <2>1. n + 0 = n /\ n <= MemoryWidth
    BY <1>4, <1>9
  <2>2. QED
    BY <1>6, <1>9, <2>1
<1>14. QED
  BY <1>2, <1>3, <1>6, <1>7, <1>9, <1>10, <1>12, <1>13

LEMMA BramMoves ==
  ASSUME Types, NEW request, NEW rdy, NEW free, Step(request, rdy, free), NEW c \in Class
  PROVE  /\ DOMAIN bram'[c] = Words(c)
         /\ \A w \in Words(c) :
              /\ recycle[c].web /\ recycle[c].addrb = w => bram'[c][w] = recycle[c].dinb
              /\ ~(recycle[c].web /\ recycle[c].addrb = w) =>
                   bram'[c][w] = IF refill[c].wea /\ refill[c].addra = w THEN refill[c].dina
                                 ELSE bram[c][w]
<1>1. DOMAIN bram[c] = Words(c)
  BY DEF Types, ClassTypes
<1>2. bram'[c] = [w \in DOMAIN bram[c] |->
        IF recycle[c].web /\ recycle[c].addrb = w THEN recycle[c].dinb
        ELSE IF refill[c].wea /\ refill[c].addra = w THEN refill[c].dina
        ELSE bram[c][w]]
  BY DEF Step, Boxes!Clock, Boxes!BramStep, Class
<1>3. QED
  BY <1>1, <1>2

LEMMA StateIs ==
  ASSUME Types, NEW c \in Class
  PROVE  refill[c] \in Refills(c) /\ refill[c].state \in RefillStates /\ recycle[c] \in Recycles(c)
BY DEF Types, ClassTypes, Refills

LEMMA TurnMoves ==
  ASSUME Types, Client, NEW request, NEW rdy, NEW free, Step(request, rdy, free), NEW c \in Class,
         Paced(c), Registers(c), Turn(c), Shape(c)
  PROVE  Turn(c)'
<1>1. PICK r, g, m, k : r = refill[c] /\ g = refill'[c] /\ m = cache_counter_alloc[c]
               /\ k = cache_counter_alloc'[c]
  OBVIOUS
<1>2. /\ m \in Slots /\ k \in Slots /\ (clear_has_recycled'[c] <=> Delivers(c, rdy))
      /\ ~Delivers(c, rdy) => k = m
      /\ Delivers(c, rdy) => k = IF m = CacheDepth - 1 THEN 0 ELSE m + 1
      /\ Delivers(c, rdy) =>
              \/ r.state = "ST_ALLOC_RECYCLE_EXE" /\ m = CacheDepth - 1
              \/ /\ r.state = "ST_ALLOC_RECYCLE_BEGIN"
                 /\ m \in {Half, CacheDepth - 1} => r.has_recycled /\ Renewed(c)
  BY <1>1, CounterMoves
<1>3. r \in Refills(c) /\ r.state \in RefillStates
  BY <1>1, StateIs
<1>4. Half \in Nat /\ Half >= 2 /\ CacheDepth = 2 * Half
  BY SizesFit
<1>5. /\ Started(c)' <=> g.state \notin {"ST_CLEAR_BIT_MAP", "ST_ALLOC_RECYCLE_IDLE"}
      /\ Refilling(c)' <=> Started(c)' /\ g.state # "ST_ALLOC_RECYCLE_BEGIN"
      /\ Paused(c)' <=> k = CacheDepth - 1
      /\ Renewed(c)' <=> g.has_recycled /\ ~Delivers(c, rdy)
  BY <1>1, <1>2 DEF Started, Refilling, Paused, Renewed
<1>6. /\ Started(c) <=> r.state \notin {"ST_CLEAR_BIT_MAP", "ST_ALLOC_RECYCLE_IDLE"}
      /\ Refilling(c) <=> Started(c) /\ r.state # "ST_ALLOC_RECYCLE_BEGIN"
      /\ Paused(c) <=> m = CacheDepth - 1
  BY <1>1 DEF Started, Refilling, Paused
<1>7. SUFFICES
        /\ g.got \in {0, Half}
        /\ ~Refilling(c)' => g.got = 0
        /\ Refilling(c)' => IF g.back THEN k \in {0, CacheDepth - 1} ELSE k = Half
        /\ Refilling(c)' /\ Paused(c)' => g.state = "ST_ALLOC_RECYCLE_EXE" /\ g.got = 0 /\ g.back_ready
        /\ Refilling(c)' => IF g.back THEN g.front_ready ELSE g.back_ready
        /\ Started(c)' /\ ~Refilling(c)' => g.front_ready /\ g.back_ready
        /\ Started(c)' /\ ~Refilling(c)' /\ Paused(c)' => ~Renewed(c)'
  BY <1>1 DEF Turn
<1>8. /\ r.got \in {0, Half}
      /\ ~Refilling(c) => r.got = 0
      /\ Refilling(c) => IF r.back THEN m \in {0, CacheDepth - 1} ELSE m = Half
      /\ Refilling(c) /\ Paused(c) => r.state = "ST_ALLOC_RECYCLE_EXE" /\ r.got = 0 /\ r.back_ready
      /\ Refilling(c) => IF r.back THEN r.front_ready ELSE r.back_ready
      /\ Started(c) /\ ~Refilling(c) => r.front_ready /\ r.back_ready
      /\ Started(c) /\ ~Refilling(c) /\ Paused(c) => ~Renewed(c)
  BY <1>1 DEF Turn
<1>9. Renewed(c) => r.has_recycled
  BY <1>1 DEF Renewed
<1>10. CASE r.state = "ST_CLEAR_BIT_MAP"
  <2>1. g.state \in {"ST_CLEAR_BIT_MAP", "ST_ALLOC_RECYCLE_IDLE"} /\ g.got = r.got
    BY <1>1, <1>10, ClearMoves
  <2>2. QED
    BY <1>5, <1>6, <1>8, <1>10, <2>1
<1>11. CASE r.state = "ST_ALLOC_RECYCLE_IDLE"
  <2>1. r.exe_ptr = 0 /\ r.buf = {}
    BY <1>1, <1>6, <1>11 DEF Registers
  <2>2. g.state = "ST_ALLOC_RECYCLE_BEGIN" /\ g.front_ready /\ g.back_ready /\ g.got = r.got
    <3>1. refill[c].state = "ST_ALLOC_RECYCLE_IDLE"
      BY <1>1, <1>11
    <3>2. refill[c].exe_ptr = 0 /\ refill[c].buf = {}
      BY <1>1, <2>1
    <3>3. refill'[c].state = "ST_ALLOC_RECYCLE_BEGIN" /\ refill'[c].front_ready
              /\ refill'[c].back_ready
      BY <3>1, <3>2, FirstFillMoves
    <3>4. refill'[c].got = refill[c].got
      BY <3>1, <3>2, FirstFillMoves
    <3>5. QED
      BY <1>1, <3>3, <3>4
  <2>3. m = 0
    BY <1>1, <1>6, <1>11 DEF Paced, Client
  <2>4. k = 0
    BY <1>2, <1>11, <2>3
  <2>5. QED
    BY <1>4, <1>5, <1>6, <1>8, <1>11, <2>2, <2>4
<1>12. CASE r.state = "ST_ALLOC_RECYCLE_BEGIN"
  <2>1. /\ (g.has_recycled <=> Renewed(c)) /\ g.got = r.got
        /\ g.front_ready = r.front_ready /\ g.back_ready = r.back_ready
        /\ m \in {Half, CacheDepth - 1} /\ ~r.has_recycled =>
              g.state = "ST_ALLOC_RECYCLE_EXE" /\ (g.back <=> m = CacheDepth - 1)
        /\ ~(m \in {Half, CacheDepth - 1} /\ ~r.has_recycled) =>
              g.state = "ST_ALLOC_RECYCLE_BEGIN" /\ g.back = r.back
    BY <1>1, <1>12, BeginMoves
  <2>2. CASE m \in {Half, CacheDepth - 1} /\ ~r.has_recycled
    <3>1. ~Delivers(c, rdy) /\ k = m
      BY <1>2, <1>12, <2>2
    <3>2. QED
      BY <1>4, <1>5, <1>6, <1>8, <1>12, <2>1, <2>2, <3>1
  <2>3. CASE ~(m \in {Half, CacheDepth - 1} /\ ~r.has_recycled)
    <3>1. k = CacheDepth - 1 /\ ~Delivers(c, rdy) => ~Renewed(c)
      BY <1>2, <1>6, <1>8, <1>12
    <3>2. QED
      BY <1>5, <1>6, <1>8, <1>12, <2>1, <2>3, <3>1
  <2>4. QED
    BY <2>2, <2>3
<1>13. CASE r.state = "ST_ALLOC_RECYCLE_EXE" /\ Paused(c)
  <2>1. /\ g.state = r.state /\ g.got = r.got /\ g.back = r.back
        /\ g.front_ready = r.front_ready /\ g.back_ready = r.back_ready
    BY <1>1, <1>13, PausedMoves
  <2>2. k \in {0, CacheDepth - 1} /\ r.back
    BY <1>2, <1>4, <1>6, <1>8, <1>13
  <2>3. QED
    BY <1>4, <1>5, <1>6, <1>8, <1>13, <2>1, <2>2
<1>14. ASSUME r.state \notin {"ST_CLEAR_BIT_MAP", "ST_ALLOC_RECYCLE_IDLE", "ST_ALLOC_RECYCLE_BEGIN"},
              ~Paused(c)
       PROVE  ~Delivers(c, rdy) /\ k = m /\ ~Paused(c)' /\ Refilling(c) /\ Started(c)
  BY <1>2, <1>5, <1>6, <1>14
<1>15. CASE r.state = "ST_ALLOC_RECYCLE_EXE" /\ Ends(c)
  <2>1. ~Paused(c)
    BY <1>15 DEF Ends
  <2>2. /\ g.state = "ST_ALLOC_RECYCLE_BEGIN" /\ g.got = 0
        /\ IF r.back THEN g.back_ready /\ g.front_ready = r.front_ready
                      ELSE g.front_ready /\ g.back_ready = r.back_ready
    BY <1>1, <1>15, EndsMoves
  <2>3. QED
    BY <1>5, <1>8, <1>14, <1>15, <2>1, <2>2
<1>16. CASE r.state = "ST_ALLOC_RECYCLE_EXE" /\ Leaves(c)
  <2>1. ~Paused(c)
    BY <1>16 DEF Leaves
  <2>2. /\ g.state = "ST_ALLOC_RECYCLE_EXE_WRITE_BACK" /\ g.got = r.got /\ g.back = r.back
        /\ IF r.back THEN g.front_ready = r.front_ready ELSE g.back_ready = r.back_ready
    BY <1>1, <1>16, LeavesMoves
  <2>3. QED
    BY <1>5, <1>8, <1>14, <1>16, <2>1, <2>2
<1>17. CASE r.state = "ST_ALLOC_RECYCLE_EXE" /\ Searches(c)
  <2>1. ~Paused(c)
    BY <1>17 DEF Searches
  <2>2. /\ g.state = "ST_ALLOC_RECYCLE_EXE" /\ g.back = r.back
        /\ IF r.back THEN g.front_ready = r.front_ready ELSE g.back_ready = r.back_ready
        /\ g.got = r.got + Count(c)
    <3>2. refill[c].state = "ST_ALLOC_RECYCLE_EXE" /\ Searches(c)
      BY <1>1, <1>17
    <3>3. /\ g.state = "ST_ALLOC_RECYCLE_EXE" /\ g.back = r.back
          /\ IF r.back THEN g.front_ready = r.front_ready ELSE g.back_ready = r.back_ready
          /\ g.got = r.got + Count(c)
      BY <1>1, <3>2, SearchMoves
    <3>4. QED
      BY <3>3
  <2>3. r.got = 0 /\ Count(c) \in {0, Half}
    BY <1>1, <1>17, SearchFindsHalf
  <2>4. g.got \in {0, Half}
    BY <1>4, <2>2, <2>3
  <2>5. QED
    BY <1>5, <1>8, <1>14, <1>17, <2>1, <2>2, <2>4
<1>18. CASE r.state \in {"ST_ALLOC_RECYCLE_EXE_WRITE_BACK", "ST_ALLOC_RECYCLE_EXE_READ",
                         "ST_ALLOC_RECYCLE_EXE_READ_GET"}
  <2>1. /\ g.got = r.got /\ g.back = r.back
        /\ g.front_ready = r.front_ready /\ g.back_ready = r.back_ready
        /\ g.state \in {"ST_ALLOC_RECYCLE_EXE", "ST_ALLOC_RECYCLE_EXE_READ",
                        "ST_ALLOC_RECYCLE_EXE_READ_GET"}
    <3>1. r.state = "ST_ALLOC_RECYCLE_EXE_READ_GET" => r.addra = r.addr_counter
      BY <1>1 DEF Registers
    <3>2. QED
      BY <1>1, <1>18, <3>1, WriteBackMoves, ReadMoves, GetMoves
  <2>2. ~Paused(c)
    BY <1>6, <1>8, <1>18
  <2>3. QED
    BY <1>5, <1>8, <1>14, <1>18, <2>1, <2>2
<1>19. Paused(c) \/ Ends(c) \/ Leaves(c) \/ Searches(c)
  BY DEF Searches
<1>20. QED
  BY <1>3, <1>10, <1>11, <1>12, <1>13, <1>15, <1>16, <1>17, <1>18, <1>19 DEF RefillStates

LEMMA RegistersMoves ==
  ASSUME Types, NEW request, NEW rdy, NEW free, Step(request, rdy, free), NEW c \in Class,
             Registers(c)
  PROVE  Registers(c)'
<1>1. PICK r, g : r = refill[c] /\ g = refill'[c]
  OBVIOUS
<1>2. r.state \in RefillStates
  BY <1>1, StateIs
<1>3. /\ Started(c)' <=> g.state \notin {"ST_CLEAR_BIT_MAP", "ST_ALLOC_RECYCLE_IDLE"}
      /\ Loading(c)' <=> g.state \in {"ST_ALLOC_RECYCLE_EXE_READ", "ST_ALLOC_RECYCLE_EXE_READ_GET"}
      /\ Started(c) <=> r.state \notin {"ST_CLEAR_BIT_MAP", "ST_ALLOC_RECYCLE_IDLE"}
      /\ Loading(c) <=> r.state \in {"ST_ALLOC_RECYCLE_EXE_READ", "ST_ALLOC_RECYCLE_EXE_READ_GET"}
  BY <1>1 DEF Started, Loading
<1>4. SUFFICES
        /\ ~Started(c)' => g.buf = {} /\ g.addr_counter = 0 /\ g.exe_ptr = 0 /\ g.got = 0
        /\ g.wea => g.state \in {"ST_CLEAR_BIT_MAP", "ST_ALLOC_RECYCLE_EXE_READ"}
        /\ g.state = "ST_ALLOC_RECYCLE_EXE_READ_GET" => g.addra = g.addr_counter
        /\ Loading(c)' \/ g.state = "ST_ALLOC_RECYCLE_EXE_WRITE_BACK" => g.exe_ptr = 0
  BY <1>1 DEF Registers
<1>5. /\ ~Started(c) => r.buf = {} /\ r.addr_counter = 0 /\ r.exe_ptr = 0 /\ r.got = 0
      /\ r.wea => r.state \in {"ST_CLEAR_BIT_MAP", "ST_ALLOC_RECYCLE_EXE_READ"}
      /\ r.state = "ST_ALLOC_RECYCLE_EXE_READ_GET" => r.addra = r.addr_counter
      /\ Loading(c) \/ r.state = "ST_ALLOC_RECYCLE_EXE_WRITE_BACK" => r.exe_ptr = 0
  BY <1>1 DEF Registers
<1>6. CASE r.state = "ST_CLEAR_BIT_MAP"
  <2>1. /\ g.state \in {"ST_CLEAR_BIT_MAP", "ST_ALLOC_RECYCLE_IDLE"}
        /\ g.wea => g.state = "ST_CLEAR_BIT_MAP"
        /\ g.addr_counter = r.addr_counter /\ g.exe_ptr = r.exe_ptr /\ g.got = r.got
        /\ g.buf = AfterHit(c, r.buf)
    BY <1>1, <1>6, ClearMoves
  <2>2. AfterHit(c, {}) = {}
    BY DEF AfterHit
  <2>3. QED
    BY <1>3, <1>5, <1>6, <2>1, <2>2
<1>7. CASE r.state = "ST_ALLOC_RECYCLE_IDLE"
  <2>1. g.state = "ST_ALLOC_RECYCLE_BEGIN" /\ g.wea = r.wea
    BY <1>1, <1>3, <1>5, <1>7, FirstFillMoves
  <2>2. QED
    BY <1>3, <1>5, <1>7, <2>1
<1>8. CASE r.state = "ST_ALLOC_RECYCLE_BEGIN"
  <2>1. g.state \in {"ST_ALLOC_RECYCLE_BEGIN", "ST_ALLOC_RECYCLE_EXE"} /\ ~g.wea
    BY <1>1, <1>8, BeginMoves
  <2>2. QED
    BY <1>3, <2>1
<1>9. CASE r.state = "ST_ALLOC_RECYCLE_EXE"
  <2>1. /\ g.wea = r.wea
        /\ \/ g.state \in {"ST_ALLOC_RECYCLE_BEGIN", "ST_ALLOC_RECYCLE_EXE"}
           \/ g.state = "ST_ALLOC_RECYCLE_EXE_WRITE_BACK" /\ g.exe_ptr = 0
    <3>1. CASE Paused(c)
      BY <1>1, <1>9, <3>1, PausedMoves
    <3>2. CASE Ends(c)
      BY <1>1, <1>9, <3>2, EndsMoves
    <3>3. CASE Leaves(c)
      BY <1>1, <1>9, <3>3, LeavesMoves
    <3>4. CASE Searches(c)
      BY <1>1, <1>9, <3>4, SearchMoves
    <3>5. QED
      BY <3>1, <3>2, <3>3, <3>4 DEF Searches
  <2>2. QED
    BY <1>3, <1>5, <1>9, <2>1
<1>10. CASE r.state = "ST_ALLOC_RECYCLE_EXE_WRITE_BACK"
  <2>1. g.state = "ST_ALLOC_RECYCLE_EXE_READ" /\ g.exe_ptr = r.exe_ptr
    BY <1>1, <1>10, WriteBackMoves
  <2>2. QED
    BY <1>3, <1>5, <1>10, <2>1
<1>11. CASE r.state = "ST_ALLOC_RECYCLE_EXE_READ"
  <2>1. /\ g.state = "ST_ALLOC_RECYCLE_EXE_READ_GET" /\ g.exe_ptr = r.exe_ptr /\ ~g.wea
        /\ g.addra = r.addr_counter /\ g.addr_counter = r.addr_counter
    BY <1>1, <1>11, ReadMoves
  <2>2. QED
    BY <1>3, <1>5, <1>11, <2>1
<1>12. CASE r.state = "ST_ALLOC_RECYCLE_EXE_READ_GET"
  <2>1. g.state = "ST_ALLOC_RECYCLE_EXE" /\ g.wea = r.wea
    BY <1>1, <1>5, <1>12, GetMoves
  <2>2. QED
    BY <1>3, <1>5, <1>12, <2>1
<1>13. QED
  BY <1>2, <1>6, <1>7, <1>8, <1>9, <1>10, <1>11, <1>12 DEF RefillStates

LEMMA ShapeMoves ==
  ASSUME Types, NEW request, NEW rdy, NEW free, Step(request, rdy, free), NEW c \in Class,
         Registers(c), Turn(c), Shape(c), Idle(c)
  PROVE  Shape(c)'
<1>1. PICK r, g : r = refill[c] /\ g = refill'[c]
  OBVIOUS
<1>2. r.state \in RefillStates /\ r.addr_counter \in Words(c)
  BY <1>1, StateIs DEF Refills
<1>3. /\ Started(c) <=> r.state \notin {"ST_CLEAR_BIT_MAP", "ST_ALLOC_RECYCLE_IDLE"}
      /\ Loading(c)' <=> g.state \in {"ST_ALLOC_RECYCLE_EXE_READ", "ST_ALLOC_RECYCLE_EXE_READ_GET"}
      /\ Loading(c) <=> r.state \in {"ST_ALLOC_RECYCLE_EXE_READ", "ST_ALLOC_RECYCLE_EXE_READ_GET"}
  BY <1>1 DEF Started, Loading
<1>4. /\ r.exe_ptr \in Multiple
      /\ r.wea => Begun(r.dina)
      /\ ~Loading(c) => \E n \in Multiple : BegunTo(c, n)
  BY <1>1 DEF Shape
<1>5. /\ ~Started(c) => r.buf = {} /\ r.exe_ptr = 0
      /\ r.wea => r.state \in {"ST_CLEAR_BIT_MAP", "ST_ALLOC_RECYCLE_EXE_READ"}
      /\ r.state = "ST_ALLOC_RECYCLE_EXE_READ_GET" => r.addra = r.addr_counter
      /\ Loading(c) \/ r.state = "ST_ALLOC_RECYCLE_EXE_WRITE_BACK" => r.exe_ptr = 0
  BY <1>1 DEF Registers
<1>6. \A b : AfterHit(c, b) = b
  BY DEF AfterHit, Idle
<1>7. \A n : BegunTo(c, n) <=> n <= MemoryWidth /\ r.buf = 0..(n - 1) /\ r.exe_ptr <= n
  BY <1>1 DEF BegunTo
<1>8. \A w \in Words(c) : Begun(bram'[c][w])
  <2>1. TAKE w \in Words(c)
  <2>2. ~recycle[c].web
    BY DEF Idle
  <2>3. bram'[c][w] = IF r.wea /\ r.addra = w THEN r.dina ELSE bram[c][w]
    BY <1>1, <2>2, BramMoves
  <2>4. Begun(bram[c][w])
    BY DEF Shape
  <2>5. CASE r.wea /\ r.addra = w
    BY <1>4, <2>3, <2>5
  <2>6. CASE ~(r.wea /\ r.addra = w)
    BY <2>3, <2>4, <2>6
  <2>7. QED
    BY <2>5, <2>6
<1>9. SUFFICES
        /\ g.exe_ptr \in Multiple
        /\ g.wea => Begun(g.dina)
        /\ ~Loading(c)' => \E n \in Multiple : n <= MemoryWidth /\ g.buf = 0..(n - 1) /\ g.exe_ptr <= n
  <2>1. Words(c)' = Words(c)
    BY DEF Words, Boxes!BRAM_DEPTH
  <2>2. \A w \in Words(c) : Begun(bram[c][w])'
    BY <1>8 DEF Begun
  <2>3. (\A w \in Words(c) : Begun(bram[c][w]))'
    BY <2>1, <2>2
  <2>4. (\E n \in Multiple : BegunTo(c, n))' <=>
          \E n \in Multiple : n <= MemoryWidth /\ g.buf = 0..(n - 1) /\ g.exe_ptr <= n
    BY <1>1 DEF BegunTo
  <2>5. QED
    BY <1>1, <1>9, <2>3, <2>4 DEF Shape
<1>10. 0 \in Multiple /\ MemoryWidth \in Nat /\ 0..(0 - 1) = {}
  BY MultipleFits, SizesFit
<1>11. ASSUME g.buf = r.buf, g.exe_ptr = r.exe_ptr, ~Loading(c)
       PROVE  /\ g.exe_ptr \in Multiple
              /\ \E n \in Multiple : n <= MemoryWidth /\ g.buf = 0..(n - 1) /\ g.exe_ptr <= n
  BY <1>4, <1>7, <1>11
<1>12. CASE r.state = "ST_CLEAR_BIT_MAP"
  <2>1. /\ g.wea => g.dina = {}
        /\ g.exe_ptr = r.exe_ptr /\ g.buf = AfterHit(c, r.buf)
    BY <1>1, <1>12, ClearMoves
  <2>2. Begun({})
    BY <1>10 DEF Begun
  <2>3. ~Loading(c) /\ g.buf = r.buf
    BY <1>3, <1>6, <1>12, <2>1
  <2>4. QED
    BY <1>11, <2>1, <2>2, <2>3
<1>13. CASE r.state = "ST_ALLOC_RECYCLE_IDLE"
  <2>1. /\ g.exe_ptr = Half % MemoryWidth /\ g.buf = AfterHit(c, Slots) /\ g.wea = r.wea
    BY <1>1, <1>3, <1>5, <1>13, FirstFillMoves
  <2>2. ~r.wea /\ ~g.wea
    BY <1>5, <1>13, <2>1
  <2>3. /\ CacheDepth \in Multiple /\ CacheDepth <= MemoryWidth /\ Half \in Multiple
        /\ Half \in Nat /\ Half < CacheDepth /\ CacheDepth \in Nat /\ Half % MemoryWidth = Half
    <3>1. /\ CacheDepth \in Multiple /\ CacheDepth <= MemoryWidth /\ Half \in Multiple
          /\ Half \in Nat /\ Half < CacheDepth /\ CacheDepth \in Nat /\ MemoryWidth \in Nat
      BY MultipleFits, SizesFit
    <3>2. QED
      BY <3>1
  <2>4. g.buf = 0..(CacheDepth - 1)
    BY <1>6, <2>1 DEF Slots
  <2>5. QED
    BY <2>1, <2>2, <2>3, <2>4
<1>14. CASE r.state = "ST_ALLOC_RECYCLE_BEGIN"
  <2>1. g.exe_ptr = r.exe_ptr /\ g.buf = AfterHit(c, r.buf) /\ ~g.wea
    BY <1>1, <1>14, BeginMoves
  <2>2. ~Loading(c) /\ g.buf = r.buf
    BY <1>3, <1>6, <1>14, <2>1
  <2>3. QED
    BY <1>11, <2>1, <2>2
<1>15. CASE r.state = "ST_ALLOC_RECYCLE_EXE" /\ (Paused(c) \/ Ends(c))
  <2>1. g.exe_ptr = r.exe_ptr /\ g.buf = AfterHit(c, r.buf) /\ g.wea = r.wea
    BY <1>1, <1>15, PausedMoves, EndsMoves
  <2>2. ~Loading(c) /\ ~g.wea /\ g.buf = r.buf
    BY <1>3, <1>5, <1>6, <1>15, <2>1
  <2>3. QED
    BY <1>11, <2>1, <2>2
<1>16. CASE r.state = "ST_ALLOC_RECYCLE_EXE" /\ Leaves(c)
  <2>1. g.exe_ptr = 0 /\ g.buf = AfterHit(c, r.buf) /\ g.wea = r.wea
    BY <1>1, <1>16, LeavesMoves
  <2>2. r.exe_ptr = 0
    BY <1>1, <1>16 DEF Leaves
  <2>3. ~Loading(c) /\ ~g.wea /\ g.buf = r.buf
    BY <1>3, <1>5, <1>6, <1>16, <2>1
  <2>4. QED
    BY <1>11, <2>1, <2>2, <2>3
<1>17. CASE r.state = "ST_ALLOC_RECYCLE_EXE" /\ Searches(c)
  <2>1. g.exe_ptr = NextPtr(c) /\ g.buf = AfterHit(c, Searched(c)) /\ g.wea = r.wea
    BY <1>1, <1>17, SearchMoves
  <2>2. PICK t : t = Count(c)
    OBVIOUS
  <2>3. /\ NextPtr(c) \in Multiple /\ t \in {0, Half}
        /\ \E n \in Multiple :
              /\ n \in Nat /\ BegunTo(c, n)
              /\ n + t \in Multiple /\ n + t <= MemoryWidth /\ NextPtr(c) <= n + t
              /\ FoundBits(c) = n..(n + t - 1)
    BY <1>1, <1>17, <2>2, SearchFindsHalf
  <2>4. PICK n \in Multiple :
              /\ n \in Nat /\ BegunTo(c, n)
              /\ n + t \in Multiple /\ n + t <= MemoryWidth /\ NextPtr(c) <= n + t
              /\ FoundBits(c) = n..(n + t - 1)
    BY <2>3
  <2>5. PICK x : x = n + t
    OBVIOUS
  <2>6. Searched(c) = 0..(x - 1)
    <3>1. Searched(c) = 0..(n - 1) \cup n..(n + t - 1)
      BY <1>1, <1>7, <2>4 DEF Searched
    <3>2. t \in Nat
      BY <2>3, SizesFit
    <3>3. \A i : i \in 0..(n - 1) \/ i \in n..(n + t - 1) <=> i \in 0..(x - 1)
      BY <2>4, <2>5, <3>2
    <3>4. QED
      BY <3>1, <3>3
  <2>7. ~g.wea /\ g.buf = 0..(x - 1)
    BY <1>5, <1>6, <1>17, <2>1, <2>6
  <2>8. QED
    BY <2>1, <2>3, <2>4, <2>5, <2>7
<1>18. CASE r.state = "ST_ALLOC_RECYCLE_EXE_WRITE_BACK"
  <2>1. g.state = "ST_ALLOC_RECYCLE_EXE_READ" /\ g.dina = r.buf /\ g.exe_ptr = r.exe_ptr
    BY <1>1, <1>18, WriteBackMoves
  <2>2. Loading(c)'
    BY <1>3, <2>1
  <2>3. Begun(r.buf)
    BY <1>3, <1>4, <1>7, <1>18 DEF Begun
  <2>4. QED
    BY <1>4, <2>1, <2>2, <2>3
<1>19. CASE r.state = "ST_ALLOC_RECYCLE_EXE_READ"
  <2>1. g.state = "ST_ALLOC_RECYCLE_EXE_READ_GET" /\ g.exe_ptr = r.exe_ptr /\ ~g.wea
    BY <1>1, <1>19, ReadMoves
  <2>2. QED
    BY <1>3, <1>4, <2>1
<1>20. CASE r.state = "ST_ALLOC_RECYCLE_EXE_READ_GET"
  <2>1. g.buf = AfterHit(c, bram[c][r.addr_counter]) /\ g.exe_ptr = r.exe_ptr /\ g.wea = r.wea
    BY <1>1, <1>5, <1>20, GetMoves
  <2>2. g.buf = bram[c][r.addr_counter] /\ ~g.wea /\ g.exe_ptr = 0
    BY <1>3, <1>5, <1>6, <1>20, <2>1
  <2>3. Begun(g.buf)
    BY <1>2, <2>2 DEF Shape
  <2>4. PICK n \in Multiple : n <= MemoryWidth /\ g.buf = 0..(n - 1)
    BY <2>3 DEF Begun
  <2>5. 0 <= n
    BY MultipleFits
  <2>6. QED
    BY <1>10, <2>2, <2>4, <2>5
<1>21. Paused(c) \/ Ends(c) \/ Leaves(c) \/ Searches(c)
  BY DEF Searches
<1>22. QED
  BY <1>2, <1>12, <1>13, <1>14, <1>15, <1>16, <1>17, <1>18, <1>19, <1>20, <1>21 DEF RefillStates

LEMMA PacedMoves ==
  ASSUME Types, Client, NEW request, NEW rdy, NEW free, Step(request, rdy, free), NEW c \in Class,
         Paced(c), Registers(c), ~Reuses(c, rdy) /\ free_ring[c] # <<>> => free_ring'[c] # <<>>
  PROVE  Paced(c)'
<1>1. PICK r, g, m, k : r = refill[c] /\ g = refill'[c] /\ m = cache_counter_alloc[c]
               /\ k = cache_counter_alloc'[c]
  OBVIOUS
<1>2. r.state \in RefillStates
  BY <1>1, StateIs
<1>3. /\ Started(c)' <=> g.state \notin {"ST_CLEAR_BIT_MAP", "ST_ALLOC_RECYCLE_IDLE"}
      /\ Started(c) <=> r.state \notin {"ST_CLEAR_BIT_MAP", "ST_ALLOC_RECYCLE_IDLE"}
      /\ r.ready <=> Started(c)
      /\ r.state = "ST_ALLOC_RECYCLE_EXE_READ_GET" => r.addra = r.addr_counter
      /\ ~Started(c) => r.buf = {} /\ r.exe_ptr = 0
  BY <1>1 DEF Started, Paced, Registers
<1>4. g.ready <=> Started(c)'
  <2>1. CASE r.state = "ST_CLEAR_BIT_MAP"
    <3>1. g.state \in {"ST_CLEAR_BIT_MAP", "ST_ALLOC_RECYCLE_IDLE"} /\ g.ready = r.ready
      BY <1>1, <2>1, ClearMoves
    <3>2. QED
      BY <1>3, <2>1, <3>1
  <2>2. CASE r.state = "ST_ALLOC_RECYCLE_IDLE"
    <3>1. g.state = "ST_ALLOC_RECYCLE_BEGIN" /\ g.ready
      BY <1>1, <1>3, <2>2, FirstFillMoves
    <3>2. QED
      BY <1>3, <3>1
  <2>3. CASE r.state \in {"ST_ALLOC_RECYCLE_BEGIN", "ST_ALLOC_RECYCLE_EXE"}
    <3>1. /\ g.ready = r.ready
          /\ g.state \in {"ST_ALLOC_RECYCLE_BEGIN", "ST_ALLOC_RECYCLE_EXE",
                          "ST_ALLOC_RECYCLE_EXE_WRITE_BACK"}
      <4>1. CASE r.state = "ST_ALLOC_RECYCLE_BEGIN"
        BY <1>1, <4>1, BeginMoves
      <4>2. CASE r.state = "ST_ALLOC_RECYCLE_EXE" /\ (Paused(c) \/ Ends(c))
        BY <1>1, <4>2, PausedMoves, EndsMoves
      <4>3. CASE r.state = "ST_ALLOC_RECYCLE_EXE" /\ Leaves(c)
        BY <1>1, <4>3, LeavesMoves
      <4>4. CASE r.state = "ST_ALLOC_RECYCLE_EXE" /\ Searches(c)
        BY <1>1, <4>4, SearchMoves
      <4>5. QED
        BY <2>3, <4>1, <4>2, <4>3, <4>4 DEF Searches
    <3>2. QED
      BY <1>3, <2>3, <3>1
  <2>4. CASE r.state \in {"ST_ALLOC_RECYCLE_EXE_WRITE_BACK", "ST_ALLOC_RECYCLE_EXE_READ",
                         "ST_ALLOC_RECYCLE_EXE_READ_GET"}
    <3>1. /\ g.ready = r.ready
          /\ g.state \in {"ST_ALLOC_RECYCLE_EXE", "ST_ALLOC_RECYCLE_EXE_READ",
                          "ST_ALLOC_RECYCLE_EXE_READ_GET"}
      BY <1>1, <1>3, <2>4, WriteBackMoves, ReadMoves, GetMoves
    <3>2. QED
      BY <1>3, <2>4, <3>1
  <2>5. QED
    BY <1>2, <2>1, <2>2, <2>3, <2>4 DEF RefillStates
<1>5. ASSUME Waits(c)'
      PROVE  /\ Boxes!Quiet(c) /\ ~clear_has_recycled[c] /\ ~Delivers(c, rdy) /\ ~Reuses(c, rdy)
             /\ Full(c) => free_ring[c] # <<>>
  <2>1. Accepts(c, request) \/ (Waits(c) /\ ~Boxes!FromRing(rdy) /\ ~Boxes!FromCache(rdy))
    BY <1>5, AllocMoves
  <2>2. CASE Accepts(c, request)
    <3>1. request \in Boxes!Requests
      BY DEF Step
    <3>2. Boxes!Quiet(c) /\ ~alloc_busy /\ c \notin overflowed
      BY <2>2, <3>1, RequestFits DEF Accepts
    <3>3. ~clear_has_recycled[c]
      BY <3>2 DEF Client
    <3>4. ~Boxes!FromRing(rdy) /\ ~Boxes!FromCache(rdy)
      BY <2>2 DEF Accepts, Boxes!FromRing, Boxes!FromCache
    <3>5. QED
      BY <3>2, <3>3, <3>4 DEF Delivers, Reuses, Full
  <2>3. CASE Waits(c) /\ ~Boxes!FromRing(rdy) /\ ~Boxes!FromCache(rdy)
    <3>1. ~clear_has_recycled[c]
      BY <2>3 DEF Client, Waits
    <3>2. QED
      BY <2>3, <3>1 DEF Delivers, Reuses, Paced
  <2>4. QED
    BY <2>1, <2>2, <2>3
<1>6. ASSUME Waits(c)'
      PROVE  Boxes!Quiet(c)'
  <2>1. Boxes!Quiet(c)' <=> \/ g.state = "ST_ALLOC_RECYCLE_BEGIN" /\ (k \in {Half, CacheDepth - 1} => g.has_recycled)
                            \/ g.state = "ST_ALLOC_RECYCLE_EXE" /\ k = CacheDepth - 1
    BY <1>1 DEF Boxes!Quiet, Half, Boxes!Half
  <2>2. \/ r.state = "ST_ALLOC_RECYCLE_BEGIN" /\ (m \in {Half, CacheDepth - 1} => r.has_recycled)
        \/ r.state = "ST_ALLOC_RECYCLE_EXE" /\ m = CacheDepth - 1
    BY <1>1, <1>5, <1>6 DEF Boxes!Quiet, Half, Boxes!Half
  <2>3. k = m
    BY <1>1, <1>5, <1>6, CounterMoves
  <2>4. CASE r.state = "ST_ALLOC_RECYCLE_BEGIN" /\ (m \in {Half, CacheDepth - 1} => r.has_recycled)
    <3>1. /\ g.has_recycled <=> Renewed(c)
          /\ g.state = "ST_ALLOC_RECYCLE_BEGIN"
      BY <1>1, <2>4, BeginMoves
    <3>2. Renewed(c) <=> r.has_recycled
      BY <1>1, <1>5, <1>6 DEF Renewed
    <3>3. QED
      BY <2>1, <2>3, <2>4, <3>1, <3>2
  <2>5. CASE r.state = "ST_ALLOC_RECYCLE_EXE" /\ m = CacheDepth - 1
    <3>1. Paused(c)
      BY <1>1, <2>5 DEF Paused
    <3>2. g.state = r.state
      BY <1>1, <2>5, <3>1, PausedMoves
    <3>3. QED
      BY <2>1, <2>3, <2>5, <3>2
  <2>6. QED
    BY <2>2, <2>4, <2>5
<1>7. ASSUME Waits(c)', Full(c)'
      PROVE  free_ring'[c] # <<>>
  <2>1. Full(c) \/ (Boxes!ToRecycle /\ c = Boxes!free_class)
    BY <1>7, FullMoves
  <2>2. free_ring[c] # <<>>
    <3>1. CASE Full(c)
      BY <1>5, <1>7, <3>1
    <3>2. CASE Boxes!ToRecycle /\ c = Boxes!free_class
      <4>1. ~(Len(free_ring[c]) < CacheDepth - 1)
        BY <3>2 DEF Boxes!ToRecycle, Boxes!ToRing
      <4>2. CacheDepth - 1 > 0
        BY SizesFit
      <4>3. ~(0 < CacheDepth - 1) \/ Len(free_ring[c]) # 0
        BY <4>1, <4>2
      <4>4. QED
        BY <4>2, <4>3, EmptySeq
    <3>3. QED
      BY <2>1, <3>1, <3>2
  <2>3. QED
    BY <1>5, <1>7, <2>2
<1>8. QED
  BY <1>1, <1>4, <1>6, <1>7 DEF Paced

-----------------------------------------------------------------------------
(* What a cycle does to the slots of the cache that may be handed out *)

LEMMA UnusedHas ==
  ASSUME NEW c \in Class, NEW r, r = refill[c], NEW m, m = cache_counter_alloc[c]
  PROVE  /\ Unused(c) \subseteq Slots
         /\ ~Started(c) \/ Full(c) => Unused(c) = {}
         /\ \A j \in Slots :
              /\ Started(c) /\ ~Full(c) /\ Refilling(c) /\ r.back =>
                   (j \in Unused(c) <=> j < Half + r.got \/ (m = CacheDepth - 1 /\ j = CacheDepth - 1))
              /\ Started(c) /\ ~Full(c) /\ Refilling(c) /\ ~r.back =>
                   (j \in Unused(c) <=> j >= Half \/ j < r.got)
              /\ Started(c) /\ ~Full(c) /\ ~Refilling(c) =>
                   (j \in Unused(c) <=> IF m < Half THEN j >= m
                                        ELSE IF m = Half /\ ~Renewed(c) THEN j >= Half
                                        ELSE j < Half \/ j >= m)
BY DEF Unused, Paused

LEMMA DeliversUnused ==
  ASSUME Types, Client, NEW request, NEW rdy, NEW free, Step(request, rdy, free), NEW c \in Class,
         Paced(c), ~Full(c) => Turn(c), Delivers(c, rdy)
  PROVE  /\ cache_counter_alloc[c] \in Unused(c)
         /\ NewNow(c, rdy) = {refill[c].cache[cache_counter_alloc[c]]}
         /\ NewNow(c, rdy) \subseteq Fresh(c)
<1>1. PICK r, m : r = refill[c] /\ m = cache_counter_alloc[c]
  OBVIOUS
<1>2. Started(c) /\ ~Full(c) /\ m \in Slots
  BY <1>1, DeliversFits, CounterMoves
<1>3. \/ r.state = "ST_ALLOC_RECYCLE_EXE" /\ m = CacheDepth - 1
      \/ /\ r.state = "ST_ALLOC_RECYCLE_BEGIN"
         /\ m \in {Half, CacheDepth - 1} => r.has_recycled /\ Renewed(c)
  BY <1>1, CounterMoves
<1>4. Half \in Nat /\ Half >= 2 /\ CacheDepth = 2 * Half
  BY SizesFit
<1>5. m \in Unused(c)
  <2>1. CASE r.state = "ST_ALLOC_RECYCLE_EXE" /\ m = CacheDepth - 1
    <3>1. Refilling(c) /\ r.back
      BY <1>1, <1>2, <1>4, <2>1 DEF Refilling, Turn
    <3>2. QED
      BY <1>1, <1>2, <2>1, <3>1, UnusedHas
  <2>2. CASE /\ r.state = "ST_ALLOC_RECYCLE_BEGIN"
             /\ m \in {Half, CacheDepth - 1} => r.has_recycled /\ Renewed(c)
    <3>1. ~Refilling(c)
      BY <1>1, <2>2 DEF Refilling
    <3>2. QED
      BY <1>1, <1>2, <1>4, <2>2, <3>1, UnusedHas DEF Slots
  <2>3. QED
    BY <1>3, <2>1, <2>2
<1>6. QED
  BY <1>1, <1>5 DEF NewNow, Fresh

LEMMA UnusedNext ==
  ASSUME NEW c \in Class, NEW g, g = refill'[c], NEW k, k = cache_counter_alloc'[c]
  PROVE  /\ Unused(c)' \subseteq Slots
         /\ ~Started(c)' \/ Full(c)' => Unused(c)' = {}
         /\ \A j \in Slots :
              /\ Started(c)' /\ ~Full(c)' /\ Refilling(c)' /\ g.back =>
                   (j \in Unused(c)' <=> j < Half + g.got \/ (k = CacheDepth - 1 /\ j = CacheDepth - 1))
              /\ Started(c)' /\ ~Full(c)' /\ Refilling(c)' /\ ~g.back =>
                   (j \in Unused(c)' <=> j >= Half \/ j < g.got)
              /\ Started(c)' /\ ~Full(c)' /\ ~Refilling(c)' =>
                   (j \in Unused(c)' <=> IF k < Half THEN j >= k
                                         ELSE IF k = Half /\ ~Renewed(c)' THEN j >= Half
                                         ELSE j < Half \/ j >= k)
<1>1. Unused(c)' =
    {j \in Slots :
       /\ Started(c)' /\ ~Full(c)'
       /\ IF Refilling(c)'
          THEN IF refill'[c].back THEN j < Half + refill'[c].got \/ (Paused(c)' /\ j = CacheDepth - 1)
                                  ELSE j >= Half \/ j < refill'[c].got
          ELSE IF cache_counter_alloc'[c] < Half THEN j >= cache_counter_alloc'[c]
          ELSE IF cache_counter_alloc'[c] = Half /\ ~Renewed(c)' THEN j >= Half
          ELSE j < Half \/ j >= cache_counter_alloc'[c]}
  BY DEF Unused, Half, Boxes!Half, Slots
<1>2. Paused(c)' <=> k = CacheDepth - 1
  BY DEF Paused
<1>3. QED
  BY <1>1, <1>2

\* Outside a search, slots are only used up.
LEMMA UnusedMoves ==
  ASSUME Types, Client, NEW request, NEW rdy, NEW free, Step(request, rdy, free), NEW c \in Class,
         Paced(c), Registers(c), Turn(c), ~Full(c)', refill[c].state # "ST_ALLOC_RECYCLE_IDLE",
         ~(refill[c].state = "ST_ALLOC_RECYCLE_EXE" /\ Searches(c))
  PROVE  \A j \in Unused(c)' : /\ j \in Unused(c) /\ refill'[c].cache[j] = refill[c].cache[j]
                               /\ Delivers(c, rdy) => j # cache_counter_alloc[c]
<1>1. PICK r, g, m, k : r = refill[c] /\ g = refill'[c] /\ m = cache_counter_alloc[c]
               /\ k = cache_counter_alloc'[c]
  OBVIOUS
<1>2. /\ m \in Slots /\ k \in Slots /\ (clear_has_recycled'[c] <=> Delivers(c, rdy))
      /\ ~Delivers(c, rdy) => k = m
      /\ Delivers(c, rdy) => k = IF m = CacheDepth - 1 THEN 0 ELSE m + 1
      /\ Delivers(c, rdy) =>
              \/ r.state = "ST_ALLOC_RECYCLE_EXE" /\ m = CacheDepth - 1
              \/ /\ r.state = "ST_ALLOC_RECYCLE_BEGIN"
                 /\ m \in {Half, CacheDepth - 1} => r.has_recycled /\ Renewed(c)
  BY <1>1, CounterMoves
<1>3. r \in Refills(c) /\ r.state \in RefillStates
  BY <1>1, StateIs
<1>4. Half \in Nat /\ Half >= 2 /\ CacheDepth = 2 * Half /\ Slots = 0..(CacheDepth - 1)
  BY SizesFit DEF Slots
<1>5. /\ Started(c)' <=> g.state \notin {"ST_CLEAR_BIT_MAP", "ST_ALLOC_RECYCLE_IDLE"}
      /\ Refilling(c)' <=> Started(c)' /\ g.state # "ST_ALLOC_RECYCLE_BEGIN"
      /\ Renewed(c)' <=> g.has_recycled /\ ~Delivers(c, rdy)
  BY <1>1, <1>2 DEF Started, Refilling, Renewed
<1>6. /\ Started(c) <=> r.state \notin {"ST_CLEAR_BIT_MAP", "ST_ALLOC_RECYCLE_IDLE"}
      /\ Refilling(c) <=> Started(c) /\ r.state # "ST_ALLOC_RECYCLE_BEGIN"
      /\ Paused(c) <=> m = CacheDepth - 1
      /\ ~Full(c)
  BY <1>1, FullMoves DEF Started, Refilling, Paused
<1>7. /\ r.got \in {0, Half}
      /\ ~Refilling(c) => r.got = 0
      /\ Refilling(c) => IF r.back THEN m \in {0, CacheDepth - 1} ELSE m = Half
      /\ Refilling(c) /\ Paused(c) => r.state = "ST_ALLOC_RECYCLE_EXE" /\ r.got = 0
      /\ Started(c) /\ ~Refilling(c) /\ Paused(c) => ~Renewed(c)
      /\ Renewed(c) => r.has_recycled
  BY <1>1 DEF Turn, Renewed
<1>8. /\ Unused(c)' \subseteq Slots /\ (~Started(c)' => Unused(c)' = {})
      /\ \A j \in Slots :
              /\ Started(c)' /\ Refilling(c)' /\ g.back =>
                   (j \in Unused(c)' <=> j < Half + g.got \/ (k = CacheDepth - 1 /\ j = CacheDepth - 1))
              /\ Started(c)' /\ Refilling(c)' /\ ~g.back =>
                   (j \in Unused(c)' <=> j >= Half \/ j < g.got)
              /\ Started(c)' /\ ~Refilling(c)' =>
                   (j \in Unused(c)' <=> IF k < Half THEN j >= k
                                         ELSE IF k = Half /\ ~Renewed(c)' THEN j >= Half
                                         ELSE j < Half \/ j >= k)
  BY <1>1, UnusedNext
<1>9. \A j \in Slots :
              /\ Started(c) /\ Refilling(c) /\ r.back =>
                   (j \in Unused(c) <=> j < Half + r.got \/ (m = CacheDepth - 1 /\ j = CacheDepth - 1))
              /\ Started(c) /\ Refilling(c) /\ ~r.back =>
                   (j \in Unused(c) <=> j >= Half \/ j < r.got)
              /\ Started(c) /\ ~Refilling(c) =>
                   (j \in Unused(c) <=> IF m < Half THEN j >= m
                                        ELSE IF m = Half /\ ~Renewed(c) THEN j >= Half
                                        ELSE j < Half \/ j >= m)
  BY <1>1, <1>6, UnusedHas
<1>10. SUFFICES /\ Unused(c)' # {} => g.cache = r.cache
                /\ \A j \in Unused(c)' : j \in Unused(c) /\ (Delivers(c, rdy) => j # m)
  BY <1>1
<1>11. CASE r.state = "ST_CLEAR_BIT_MAP"
  <2>1. g.state \in {"ST_CLEAR_BIT_MAP", "ST_ALLOC_RECYCLE_IDLE"}
    BY <1>1, <1>11, ClearMoves
  <2>2. Unused(c)' = {}
    BY <1>5, <1>8, <2>1
  <2>3. QED
    BY <2>2
<1>12. CASE r.state = "ST_ALLOC_RECYCLE_BEGIN"
  <2>1. /\ (g.has_recycled <=> Renewed(c)) /\ g.got = r.got /\ g.cache = r.cache
        /\ m \in {Half, CacheDepth - 1} /\ ~r.has_recycled =>
              g.state = "ST_ALLOC_RECYCLE_EXE" /\ (g.back <=> m = CacheDepth - 1)
        /\ ~(m \in {Half, CacheDepth - 1} /\ ~r.has_recycled) =>
              g.state = "ST_ALLOC_RECYCLE_BEGIN" /\ g.back = r.back
    BY <1>1, <1>12, BeginMoves
  <2>2. CASE m \in {Half, CacheDepth - 1} /\ ~r.has_recycled
    <3>1. ~Delivers(c, rdy) /\ k = m /\ ~Renewed(c)
      BY <1>2, <1>7, <1>12, <2>2
    <3>2. Started(c)' /\ Refilling(c)' /\ Started(c) /\ ~Refilling(c) /\ g.got = 0
      BY <1>5, <1>6, <1>7, <1>12, <2>1, <2>2
    <3>3. CASE m = Half
      BY <1>2, <1>4, <1>8, <1>9, <2>1, <2>2, <3>1, <3>2, <3>3
    <3>4. CASE m = CacheDepth - 1
      BY <1>2, <1>4, <1>8, <1>9, <2>1, <2>2, <3>1, <3>2, <3>4
    <3>5. QED
      BY <2>2, <3>3, <3>4
  <2>3. CASE ~(m \in {Half, CacheDepth - 1} /\ ~r.has_recycled)
    <3>1. Started(c)' /\ ~Refilling(c)' /\ Started(c) /\ ~Refilling(c)
      BY <1>5, <1>6, <1>12, <2>1, <2>3
    <3>2. CASE Delivers(c, rdy)
      <4>1. m # CacheDepth - 1 /\ k = m + 1 /\ ~Renewed(c)' /\ (m = Half => Renewed(c))
        BY <1>2, <1>5, <1>6, <1>7, <1>12, <3>1, <3>2
      <4>2. QED
        BY <1>2, <1>4, <1>8, <1>9, <2>1, <3>1, <4>1
    <3>3. CASE ~Delivers(c, rdy)
      <4>1. k = m /\ (Renewed(c)' <=> Renewed(c))
        BY <1>2, <1>5, <2>1, <3>3
      <4>2. QED
        BY <1>8, <1>9, <2>1, <3>1, <3>3, <4>1
    <3>4. QED
      BY <3>2, <3>3
  <2>4. QED
    BY <2>2, <2>3
<1>13. CASE r.state = "ST_ALLOC_RECYCLE_EXE" /\ Paused(c)
  <2>1. g.state = r.state /\ g.got = r.got /\ g.back = r.back /\ g.cache = r.cache
    BY <1>1, <1>13, PausedMoves
  <2>2. k \in {0, CacheDepth - 1} /\ r.back /\ r.got = 0 /\ m = CacheDepth - 1
    BY <1>2, <1>4, <1>6, <1>7, <1>13
  <2>3. Started(c)' /\ Refilling(c)' /\ Started(c) /\ Refilling(c)
    BY <1>5, <1>6, <1>13, <2>1
  <2>4. Delivers(c, rdy) => k = 0
    BY <1>2, <2>2
  <2>5. QED
    BY <1>4, <1>8, <1>9, <2>1, <2>2, <2>3, <2>4
<1>14. ASSUME r.state \notin {"ST_CLEAR_BIT_MAP", "ST_ALLOC_RECYCLE_IDLE", "ST_ALLOC_RECYCLE_BEGIN"},
              ~Paused(c)
       PROVE  ~Delivers(c, rdy) /\ k = m /\ m # CacheDepth - 1 /\ Refilling(c) /\ Started(c)
  BY <1>2, <1>6, <1>14
<1>15. CASE r.state = "ST_ALLOC_RECYCLE_EXE" /\ Ends(c)
  <2>1. ~Paused(c) /\ r.got >= Half
    BY <1>1, <1>15 DEF Ends
  <2>2. g.state = "ST_ALLOC_RECYCLE_BEGIN" /\ g.cache = r.cache /\ g.has_recycled
    BY <1>1, <1>15, EndsMoves
  <2>3. ~Delivers(c, rdy) /\ k = m /\ m # CacheDepth - 1 /\ Refilling(c) /\ Started(c)
    BY <1>14, <1>15, <2>1
  <2>4. Started(c)' /\ ~Refilling(c)' /\ Renewed(c)' /\ r.got = Half
    BY <1>4, <1>5, <1>7, <2>1, <2>2, <2>3
  <2>5. CASE r.back
    BY <1>4, <1>7, <1>8, <1>9, <2>2, <2>3, <2>4, <2>5
  <2>6. CASE ~r.back
    BY <1>4, <1>7, <1>8, <1>9, <2>2, <2>3, <2>4, <2>6
  <2>7. QED
    BY <2>5, <2>6
<1>16. CASE \/ r.state = "ST_ALLOC_RECYCLE_EXE" /\ Leaves(c)
            \/ r.state \in {"ST_ALLOC_RECYCLE_EXE_WRITE_BACK", "ST_ALLOC_RECYCLE_EXE_READ",
                            "ST_ALLOC_RECYCLE_EXE_READ_GET"}
  <2>1. ~Paused(c)
    BY <1>6, <1>7, <1>16 DEF Leaves
  <2>2. /\ g.got = r.got /\ g.back = r.back /\ g.cache = r.cache
        /\ g.state \in {"ST_ALLOC_RECYCLE_EXE", "ST_ALLOC_RECYCLE_EXE_READ",
                        "ST_ALLOC_RECYCLE_EXE_READ_GET", "ST_ALLOC_RECYCLE_EXE_WRITE_BACK"}
    <3>1. r.state = "ST_ALLOC_RECYCLE_EXE_READ_GET" => r.addra = r.addr_counter
      BY <1>1 DEF Registers
    <3>2. QED
      BY <1>1, <1>16, <3>1, LeavesMoves, WriteBackMoves, ReadMoves, GetMoves
  <2>3. ~Delivers(c, rdy) /\ k = m /\ m # CacheDepth - 1 /\ Refilling(c) /\ Started(c)
    BY <1>14, <1>16, <2>1
  <2>4. Started(c)' /\ Refilling(c)'
    BY <1>5, <2>2
  <2>5. CASE r.back
    BY <1>8, <1>9, <2>2, <2>3, <2>4, <2>5
  <2>6. CASE ~r.back
    BY <1>8, <1>9, <2>2, <2>3, <2>4, <2>6
  <2>7. QED
    BY <2>5, <2>6
<1>17. Paused(c) \/ Ends(c) \/ Leaves(c) \/ Searches(c)
  BY DEF Searches
<1>18. QED
  BY <1>1, <1>3, <1>11, <1>12, <1>13, <1>15, <1>16, <1>17 DEF RefillStates

\* A search adds the slots of the half that it fills.
LEMMA UnusedGrows ==
  ASSUME Types, Client, NEW request, NEW rdy, NEW free, Step(request, rdy, free), NEW c \in Class,
         Paced(c), Turn(c), Shape(c), ~Full(c)', refill[c].state = "ST_ALLOC_RECYCLE_EXE",
             Searches(c)
  PROVE  /\ Unused(c)' \subseteq Unused(c) \cup Filled(c) /\ Unused(c) \cap Filled(c) = {}
         /\ ~Delivers(c, rdy)
<1>1. PICK r, g, m, k, t : /\ r = refill[c] /\ g = refill'[c] /\ t = Count(c)
                           /\ m = cache_counter_alloc[c] /\ k = cache_counter_alloc'[c]
  OBVIOUS
<1>2. /\ m # CacheDepth - 1 /\ m \in Slots /\ ~Delivers(c, rdy) /\ k = m
  <2>1. m # CacheDepth - 1
    BY <1>1 DEF Searches, Paused
  <2>2. r.state # "ST_ALLOC_RECYCLE_BEGIN"
    BY <1>1
  <2>3. QED
    BY <1>1, <2>1, <2>2, CounterMoves
<1>3. r.got = 0 /\ t \in {0, Half} /\ Limit(c) = t
  BY <1>1, SearchFindsHalf
<1>4. g.got = r.got + t /\ g.back = r.back /\ g.state = "ST_ALLOC_RECYCLE_EXE"
  BY <1>1, SearchMoves
<1>5. Half \in Nat /\ Half >= 2 /\ CacheDepth = 2 * Half /\ Slots = 0..(CacheDepth - 1)
  BY SizesFit DEF Slots
<1>6. Started(c) /\ Refilling(c) /\ ~Full(c) /\ Started(c)' /\ Refilling(c)'
  BY <1>1, <1>4, FullMoves DEF Started, Refilling
<1>7. g.got = t
  BY <1>3, <1>4, <1>5
<1>8. Unused(c) \subseteq Slots /\ Unused(c)' \subseteq Slots
  BY UnusedHas, UnusedNext
<1>9. CASE r.back
  <2>1. Filled(c) = Half..(Half + t - 1)
    BY <1>1, <1>3, <1>9 DEF Filled, First
  <2>2. \A j \in Slots : j \in Unused(c) <=> j < Half + 0
    BY <1>1, <1>2, <1>3, <1>6, <1>9, UnusedHas
  <2>3. \A j \in Slots : j \in Unused(c)' <=> j < Half + t
    <3>1. g.back
      BY <1>4, <1>9
    <3>2. QED
      BY <1>1, <1>2, <1>6, <1>7, <3>1, UnusedNext
  <2>4. QED
    BY <1>2, <1>3, <1>5, <1>8, <2>1, <2>2, <2>3
<1>10. CASE ~r.back
  <2>1. Filled(c) = 0..(t - 1)
    BY <1>1, <1>3, <1>5, <1>10 DEF Filled, First
  <2>2. \A j \in Slots : j \in Unused(c) <=> j >= Half \/ j < 0
    BY <1>1, <1>3, <1>6, <1>10, UnusedHas
  <2>3. \A j \in Slots : j \in Unused(c)' <=> j >= Half \/ j < t
    <3>1. ~g.back
      BY <1>4, <1>10
    <3>2. QED
      BY <1>1, <1>6, <1>7, <3>1, UnusedNext
  <2>4. QED
    BY <1>2, <1>3, <1>5, <1>8, <2>1, <2>2, <2>3
<1>11. QED
  BY <1>9, <1>10

\* The boxes that the refill takes from the bit map.
FoundNow(c) ==
    IF Full(c) THEN {}
    ELSE IF refill[c].state = "ST_ALLOC_RECYCLE_IDLE" THEN Slots
    ELSE IF refill[c].state = "ST_ALLOC_RECYCLE_EXE" /\ Searches(c)
    THEN {Find(c, k) : k \in 0..(Limit(c) - 1)}
    ELSE {}

\* Their bits were not set, and are.
LEMMA FoundFits ==
  ASSUME Types, NEW request, NEW rdy, NEW free, Step(request, rdy, free), NEW c \in Class,
         Registers(c), ~Full(c) => Turn(c) /\ Shape(c) /\ Idle(c), NEW i \in FoundNow(c)
  PROVE  /\ ~Full(c) /\ refill[c].state \in {"ST_ALLOC_RECYCLE_IDLE", "ST_ALLOC_RECYCLE_EXE"}
         /\ i \in Index(c) /\ i \div MemoryWidth = refill[c].addr_counter
         /\ i % MemoryWidth \notin refill[c].buf /\ i % MemoryWidth \in refill'[c].buf
         /\ refill'[c].state \in {"ST_ALLOC_RECYCLE_BEGIN", "ST_ALLOC_RECYCLE_EXE"}
         /\ refill'[c].addr_counter = refill[c].addr_counter /\ ~refill'[c].wea
<1>1. PICK r, g : r = refill[c] /\ g = refill'[c]
  OBVIOUS
<1>2. /\ ~Full(c) /\ Turn(c) /\ Shape(c) /\ Idle(c)
      /\ r.state = "ST_ALLOC_RECYCLE_IDLE" \/ (r.state = "ST_ALLOC_RECYCLE_EXE" /\ Searches(c))
  BY <1>1 DEF FoundNow
<1>3. \A b : AfterHit(c, b) = b
  BY <1>2 DEF AfterHit, Idle
<1>4. ~r.wea
  BY <1>1, <1>2 DEF Registers
<1>5. CASE r.state = "ST_ALLOC_RECYCLE_IDLE"
  <2>1. r.buf = {} /\ r.addr_counter = 0 /\ r.exe_ptr = 0
    BY <1>1, <1>5 DEF Registers, Started
  <2>2. /\ g.buf = AfterHit(c, Slots) /\ g.state = "ST_ALLOC_RECYCLE_BEGIN"
        /\ g.addr_counter = r.addr_counter /\ g.wea = r.wea
    BY <1>1, <1>5, <2>1, FirstFillMoves
  <2>3. g.buf = Slots
    BY <1>3, <2>2
  <2>4. i \in Slots
    BY <1>1, <1>2, <1>5 DEF FoundNow
  <2>5. i \in Boxes!Bit /\ 0 \in Words(c) /\ i \in Nat
    <3>1. CacheDepth \in Nat /\ CacheDepth <= MemoryWidth /\ MemoryWidth \in Nat
      BY SizesFit
    <3>2. Boxes!BRAM_DEPTH(c) \in Nat \ {0}
      BY ClassFits
    <3>3. i \in Boxes!Bit /\ i \in Nat
      BY <2>4, <3>1, SizesFit DEF Slots
    <3>4. QED
      BY <3>2, <3>3 DEF Words
  <2>6. i + 0 * MemoryWidth = i
    BY <2>5, SizesFit
  <2>7. i \in Index(c) /\ i \div MemoryWidth = 0 /\ i % MemoryWidth = i
    <3>1. /\ i + 0 * MemoryWidth \in Index(c) /\ (i + 0 * MemoryWidth) \div MemoryWidth = 0
          /\ (i + 0 * MemoryWidth) % MemoryWidth = i
      BY <2>5, IndexFits
    <3>2. QED
      BY <2>6, <3>1
  <2>8. QED
    BY <1>1, <1>2, <1>4, <1>5, <2>1, <2>2, <2>3, <2>4, <2>7
<1>6. CASE r.state = "ST_ALLOC_RECYCLE_EXE" /\ Searches(c)
  <2>1. PICK k \in 0..(Limit(c) - 1) : i = Find(c, k)
    BY <1>1, <1>2, <1>6 DEF FoundNow
  <2>2. PICK q : q = Current(c)
    OBVIOUS
  <2>3. q.got < Half
    <3>1. r.got = 0
      BY <1>1, <1>2, <1>6, SearchFindsHalf
    <3>2. q.got = r.got
      BY <1>1, <2>2, CurrentIs
    <3>3. QED
      BY <3>1, <3>2, SizesFit
  <2>4. k \in 0..(Boxes!limit(q) - 1)
    BY <2>1, <2>2 DEF Limit
  <2>5. /\ Boxes!FreeBit(q, k) \notin refill[c].buf
        /\ i \in Index(c) /\ i \div MemoryWidth = refill[c].addr_counter
        /\ i % MemoryWidth = Boxes!FreeBit(q, k)
    BY <2>1, <2>2, <2>3, <2>4, SearchFits
  <2>6. Boxes!FreeBit(q, k) \in FoundBits(c)
    BY <2>1, <2>2 DEF FoundBits
  <2>7. /\ g.buf = AfterHit(c, Searched(c)) /\ g.state = "ST_ALLOC_RECYCLE_EXE"
        /\ g.addr_counter = r.addr_counter /\ g.wea = r.wea
    BY <1>1, <1>6, SearchMoves
  <2>8. Boxes!FreeBit(q, k) \in g.buf
    BY <1>3, <2>6, <2>7 DEF Searched
  <2>9. QED
    BY <1>1, <1>2, <1>4, <1>6, <2>5, <2>7, <2>8
<1>7. QED
  BY <1>2, <1>5, <1>6

\* The bit map as Alloc!UseIsMarked sees it knows every box of a class.
Marks(c) == \A i \in Known(c) : i % MemoryWidth \in Boxes!Marked(c, i \div MemoryWidth)

LEMMA FoundUnknown ==
  ASSUME Types, NEW request, NEW rdy, NEW free, Step(request, rdy, free), NEW c \in Class,
         Registers(c), ~Full(c) => Turn(c) /\ Shape(c) /\ Idle(c), Marks(c)
  PROVE  FoundNow(c) \cap Known(c) = {}
<1>1. SUFFICES ASSUME NEW i \in FoundNow(c), i \in Known(c)
               PROVE  FALSE
  OBVIOUS
<1>2. /\ refill[c].state \in {"ST_ALLOC_RECYCLE_IDLE", "ST_ALLOC_RECYCLE_EXE"}
      /\ i \div MemoryWidth = refill[c].addr_counter /\ i % MemoryWidth \notin refill[c].buf
  BY FoundFits
<1>3. ~refill[c].wea
  BY <1>2 DEF Registers
<1>4. Boxes!Marked(c, i \div MemoryWidth) = refill[c].buf
  BY <1>2, <1>3 DEF Boxes!Marked
<1>5. QED
  BY <1>1, <1>2, <1>4 DEF Marks

\* A cycle takes boxes from the cache and adds those of a search.
LEMMA FreshMoves ==
  ASSUME Types, Client, NEW request, NEW rdy, NEW free, Step(request, rdy, free), NEW c \in Class,
         Paced(c), Registers(c), ~Full(c) => Turn(c) /\ Shape(c) /\ Idle(c), Marks(c), NoneTwice(c)
  PROVE  /\ Fresh(c)' \subseteq (Fresh(c) \ NewNow(c, rdy)) \cup FoundNow(c)
         /\ NewNow(c, rdy) \subseteq Fresh(c) /\ NoneTwice(c)'
         /\ Delivers(c, rdy) => NewNow(c, rdy) = {refill[c].cache[cache_counter_alloc[c]]}
<1>1. PICK r, g, m : r = refill[c] /\ g = refill'[c] /\ m = cache_counter_alloc[c]
  OBVIOUS
<1>2. /\ Fresh(c)' = {g.cache[j] : j \in Unused(c)'}
      /\ Fresh(c) = {r.cache[j] : j \in Unused(c)}
      /\ NoneTwice(c)' <=> \A j, k \in Unused(c)' : g.cache[j] = g.cache[k] => j = k
      /\ \A j, k \in Unused(c) : r.cache[j] = r.cache[k] => j = k
      /\ Unused(c) \subseteq Slots /\ Unused(c)' \subseteq Slots
      /\ ~Started(c) => Unused(c) = {}
      /\ ~Started(c)' \/ Full(c)' => Unused(c)' = {}
  BY <1>1, UnusedHas, UnusedNext DEF Fresh, NoneTwice
<1>3. /\ Delivers(c, rdy) => /\ m \in Unused(c) /\ NewNow(c, rdy) = {r.cache[m]}
                             /\ NewNow(c, rdy) \subseteq Fresh(c) /\ Started(c)
      /\ ~Delivers(c, rdy) => NewNow(c, rdy) = {}
  BY <1>1, DeliversUnused, DeliversFits DEF NewNow
<1>4. SUFFICES /\ \A j \in Unused(c)' : g.cache[j] \in (Fresh(c) \ NewNow(c, rdy)) \cup FoundNow(c)
               /\ \A j, k \in Unused(c)' : g.cache[j] = g.cache[k] => j = k
  BY <1>1, <1>2, <1>3
<1>5. CASE Full(c)'
  BY <1>2, <1>5
<1>6. ~Full(c)' => ~Full(c) /\ Turn(c) /\ Shape(c) /\ Idle(c)
  BY FullMoves
<1>7. CASE ~Full(c)' /\ r.state = "ST_ALLOC_RECYCLE_IDLE"
  <2>1. r.exe_ptr = 0 /\ r.buf = {} /\ ~Started(c)
    BY <1>1, <1>7 DEF Registers, Started
  <2>2. \A j \in Slots : g.cache[j] = j
    BY <1>1, <1>7, <2>1, FirstFillMoves
  <2>3. FoundNow(c) = Slots
    BY <1>1, <1>6, <1>7 DEF FoundNow
  <2>4. QED
    BY <1>2, <2>2, <2>3
<1>8. CASE ~Full(c)' /\ r.state = "ST_ALLOC_RECYCLE_EXE" /\ Searches(c)
  <2>1. /\ Unused(c)' \subseteq Unused(c) \cup Filled(c) /\ Unused(c) \cap Filled(c) = {}
        /\ ~Delivers(c, rdy)
    BY <1>1, <1>6, <1>8, UnusedGrows
  <2>2. PICK q, l, first : q = Current(c) /\ l = Limit(c) /\ first = First(c)
    OBVIOUS
  <2>3. q.got < Half /\ l = Boxes!limit(q)
    <3>1. r.got = 0
      BY <1>1, <1>6, <1>8, SearchFindsHalf
    <3>2. q.got = r.got
      BY <1>1, <2>2, CurrentIs
    <3>3. QED
      BY <2>2, <3>1, <3>2, SizesFit DEF Limit
  <2>4. /\ l \in Nat /\ first \in Nat
        /\ \A j, k \in 0..(l - 1) : Find(c, j) = Find(c, k) => j = k
    <3>1. /\ Boxes!limit(q) \in Nat
          /\ \A j, k \in 0..(Boxes!limit(q) - 1) : Find(c, j) = Find(c, k) => j = k
      BY <2>2, <2>3, SearchFits
    <3>2. QED
      BY <2>2, <2>3, <3>1, SizesFit DEF First
  <2>5. FoundNow(c) = {Find(c, k) : k \in 0..(l - 1)}
    BY <1>1, <1>6, <1>8, <2>2 DEF FoundNow
  <2>6. Filled(c) = first..(first + l - 1)
    BY <2>2 DEF Filled
  <2>7. \A j \in Slots : /\ j \in Filled(c) => g.cache[j] = Find(c, j - first)
                         /\ j \notin Filled(c) => g.cache[j] = r.cache[j]
    <3>1. Fills(c, g.cache)
      BY <1>1, <1>8, SearchMoves
    <3>2. QED
      BY <1>1, <2>2, <3>1 DEF Fills
  <2>8. \A j \in Filled(c) : j - first \in 0..(l - 1)
    BY <2>4, <2>6
  <2>9. ASSUME NEW j \in Unused(c)'
        PROVE  /\ j \in Filled(c) => g.cache[j] \in FoundNow(c)
               /\ j \notin Filled(c) => j \in Unused(c) /\ g.cache[j] = r.cache[j] /\ g.cache[j] \in Fresh(c)
    BY <1>2, <2>1, <2>5, <2>7, <2>8, <2>9
  <2>10. FoundNow(c) \cap Fresh(c) = {}
    BY FoundUnknown DEF Known
  <2>11. ASSUME NEW j \in Unused(c)', NEW k \in Unused(c)', g.cache[j] = g.cache[k]
         PROVE  j = k
    <3>1. CASE j \in Filled(c) /\ k \in Filled(c)
      <4>1. Find(c, j - first) = Find(c, k - first)
        BY <1>2, <2>7, <2>11, <3>1
      <4>2. j - first = k - first
        BY <2>4, <2>8, <3>1, <4>1
      <4>3. j \in Int /\ k \in Int
        BY <2>4, <2>6, <3>1
      <4>4. QED
        BY <2>4, <4>2, <4>3
    <3>2. CASE j \notin Filled(c) /\ k \notin Filled(c)
      BY <1>2, <2>9, <2>11, <3>2
    <3>3. CASE (j \in Filled(c)) # (k \in Filled(c))
      BY <2>9, <2>10, <2>11, <3>3
    <3>4. QED
      BY <3>1, <3>2, <3>3
  <2>12. QED
    BY <1>3, <2>1, <2>9, <2>11
<1>9. CASE /\ ~Full(c)' /\ r.state # "ST_ALLOC_RECYCLE_IDLE"
           /\ ~(r.state = "ST_ALLOC_RECYCLE_EXE" /\ Searches(c))
  <2>1. \A j \in Unused(c)' : /\ j \in Unused(c) /\ g.cache[j] = r.cache[j]
                              /\ Delivers(c, rdy) => j # m
    BY <1>1, <1>6, <1>9, UnusedMoves
  <2>2. \A j \in Unused(c)' : g.cache[j] \in Fresh(c) \ NewNow(c, rdy)
    BY <1>2, <1>3, <2>1
  <2>3. QED
    BY <1>2, <2>1, <2>2
<1>10. QED
  BY <1>5, <1>7, <1>8, <1>9

-----------------------------------------------------------------------------
(* A box is in one place *)

Separate(H, O, Z, W, R, A, N) ==
    /\ H \cap (O \cup Z \cup W \cup R \cup A \cup N) = {}
    /\ O \cap (Z \cup W \cup R \cup A \cup N) = {}
    /\ Z \cap (W \cup R \cup A \cup N) = {}
    /\ W \cap (R \cup A \cup N) = {}
    /\ R \cap (A \cup N) = {}
    /\ A \cap N = {}

Apart(c) ==
    /\ Separate(Held(c), Offered(c), Freed(c), Waiting(c), Recycled(c), AtWork(c), Fresh(c))
    /\ Distinct(free_ring[c]) /\ Distinct(recycle_ring[c]) /\ NoneTwice(c)
    /\ Known(c) \subseteq Index(c)

LEMMA ApartMoves ==
  ASSUME Types, Client, NEW request, NEW rdy, NEW free, Step(request, rdy, free), NEW c \in Class,
         Paced(c), Registers(c), ~Full(c) => Turn(c) /\ Shape(c) /\ Idle(c), Marks(c), Apart(c),
         ~Full(c) => recycle_ring[c] = <<>>
  PROVE  /\ Apart(c)'
         /\ Known(c)' \subseteq (Known(c) \ ReturnedNow(c)) \cup FoundNow(c)
         /\ free_ring'[c] \in Seq(Index(c)) /\ Len(free_ring'[c]) < CacheDepth
         /\ recycle_ring'[c] \in Seq(Index(c)) /\ Len(recycle_ring'[c]) < CacheDepth
         /\ ~Reuses(c, rdy) /\ free_ring[c] # <<>> => free_ring'[c] # <<>>
         /\ ~Full(c)' => Idle(c)' /\ recycle_ring'[c] = <<>>
<1>1. /\ Separate(Held(c), Offered(c), Freed(c), Waiting(c), Recycled(c), AtWork(c), Fresh(c))
      /\ Distinct(free_ring[c]) /\ Distinct(recycle_ring[c]) /\ NoneTwice(c)
      /\ Known(c) \subseteq Index(c)
  BY DEF Apart
<1>2. Freed(c) \cap Waiting(c) = {} /\ Freed(c) \cap Recycled(c) = {}
  BY <1>1 DEF Separate
<1>3. /\ Held(c)' = (Held(c) \cup TakenNow(c, rdy)) \ FreedNow(c, free)
      /\ TakenNow(c, rdy) \subseteq Offered(c) /\ FreedNow(c, free) \subseteq Held(c)
  BY HeldMoves
<1>4. Offered(c)' = (Offered(c) \ TakenNow(c, rdy)) \cup (ReusedNow(c, rdy) \cup NewNow(c, rdy))
  BY OfferedMoves
<1>5. /\ Freed(c)' = (Freed(c) \ (RingNow(c) \cup RecycleNow(c))) \cup FreedNow(c, free)
      /\ RingNow(c) \subseteq Freed(c) /\ RecycleNow(c) \subseteq Freed(c)
      /\ RingNow(c) \cap RecycleNow(c) = {}
  BY FreedMoves
<1>6. /\ Waiting(c)' = (Waiting(c) \ ReusedNow(c, rdy)) \cup RingNow(c)
      /\ ReusedNow(c, rdy) \subseteq Waiting(c)
      /\ free_ring'[c] \in Seq(Index(c)) /\ Distinct(free_ring'[c])
      /\ Len(free_ring'[c]) < CacheDepth
      /\ ~Reuses(c, rdy) /\ free_ring[c] # <<>> => free_ring'[c] # <<>>
  BY <1>1, <1>2, WaitingMoves
<1>7. /\ Recycled(c)' = (Recycled(c) \ PoppedNow(c)) \cup RecycleNow(c)
      /\ PoppedNow(c) \subseteq Recycled(c)
      /\ recycle_ring'[c] \in Seq(Index(c)) /\ Distinct(recycle_ring'[c])
      /\ Len(recycle_ring'[c]) < CacheDepth
      /\ recycle_ring[c] = <<>> /\ ~(Boxes!ToRecycle /\ c = Boxes!free_class) =>
           recycle_ring'[c] = <<>>
  BY <1>1, <1>2, RecycledMoves
<1>8. /\ AtWork(c)' = (AtWork(c) \ ReturnedNow(c)) \cup PoppedNow(c)
      /\ ReturnedNow(c) \subseteq AtWork(c)
      /\ Idle(c) /\ recycle_ring[c] = <<>> => Idle(c)'
  BY AtWorkMoves
<1>9. /\ Fresh(c)' \subseteq (Fresh(c) \ NewNow(c, rdy)) \cup FoundNow(c)
      /\ NewNow(c, rdy) \subseteq Fresh(c) /\ NoneTwice(c)'
  BY <1>1, FreshMoves
<1>10. FoundNow(c) \cap Known(c) = {} /\ FoundNow(c) \subseteq Index(c)
  BY FoundUnknown, FoundFits
<1>11. /\ Separate(Held(c)', Offered(c)', Freed(c)', Waiting(c)', Recycled(c)', AtWork(c)', Fresh(c)')
       /\ Held(c)' \cup Offered(c)' \cup Freed(c)' \cup Waiting(c)' \cup Recycled(c)' \cup AtWork(c)'
            \cup Fresh(c)' \subseteq (Known(c) \ ReturnedNow(c)) \cup FoundNow(c)
  <2>1. PICK H, O, Z, W, R, A, N : /\ H = Held(c) /\ O = Offered(c) /\ Z = Freed(c)
                 /\ W = Waiting(c)
                                   /\ R = Recycled(c) /\ A = AtWork(c) /\ N = Fresh(c)
    OBVIOUS
  <2>2. PICK t, f, u, n, g, y, p, q, F :
          /\ t = TakenNow(c, rdy) /\ f = FreedNow(c, free) /\ u = ReusedNow(c, rdy)
          /\ n = NewNow(c, rdy) /\ g = RingNow(c) /\ y = RecycleNow(c) /\ p = PoppedNow(c)
          /\ q = ReturnedNow(c) /\ F = FoundNow(c)
    OBVIOUS
  <2>3. PICK H2, O2, Z2, W2, R2, A2, N2 :
          /\ H2 = Held(c)' /\ O2 = Offered(c)' /\ Z2 = Freed(c)' /\ W2 = Waiting(c)'
          /\ R2 = Recycled(c)' /\ A2 = AtWork(c)' /\ N2 = Fresh(c)'
    OBVIOUS
  <2>4. Known(c) = H \cup O \cup Z \cup W \cup R \cup A \cup N
    BY <2>1 DEF Known
  <2>5. /\ Separate(H, O, Z, W, R, A, N)
        /\ t \subseteq O /\ f \subseteq H /\ u \subseteq W /\ n \subseteq N /\ g \subseteq Z
        /\ y \subseteq Z /\ g \cap y = {} /\ p \subseteq R /\ q \subseteq A
        /\ F \cap (H \cup O \cup Z \cup W \cup R \cup A \cup N) = {}
    BY <1>1, <1>3, <1>5, <1>6, <1>7, <1>8, <1>9, <1>10, <2>1, <2>2, <2>4
  <2>6. /\ H2 = (H \cup t) \ f
        /\ O2 = (O \ t) \cup (u \cup n)
        /\ Z2 = (Z \ (g \cup y)) \cup f
        /\ W2 = (W \ u) \cup g
        /\ R2 = (R \ p) \cup y
        /\ A2 = (A \ q) \cup p
        /\ N2 \subseteq (N \ n) \cup F
    BY <1>3, <1>4, <1>5, <1>6, <1>7, <1>8, <1>9, <2>1, <2>2, <2>3
  <2>7. /\ Separate(H2, O2, Z2, W2, R2, A2, N2)
        /\ H2 \cup O2 \cup Z2 \cup W2 \cup R2 \cup A2 \cup N2 \subseteq
              ((H \cup O \cup Z \cup W \cup R \cup A \cup N) \ q) \cup F
    <3>1. ASSUME NEW x
          PROVE  /\ x \in H => ~(x \in O \/ x \in Z \/ x \in W \/ x \in R \/ x \in A \/ x \in N)
                 /\ x \in O => ~(x \in Z \/ x \in W \/ x \in R \/ x \in A \/ x \in N)
                 /\ x \in Z => ~(x \in W \/ x \in R \/ x \in A \/ x \in N)
                 /\ x \in W => ~(x \in R \/ x \in A \/ x \in N)
                 /\ x \in R => ~(x \in A \/ x \in N)
                 /\ x \in A => ~(x \in N)
                 /\ (x \in t => x \in O) /\ (x \in f => x \in H) /\ (x \in u => x \in W)
                 /\ (x \in n => x \in N) /\ (x \in g => x \in Z) /\ (x \in y => x \in Z)
                 /\ ~(x \in g /\ x \in y) /\ (x \in p => x \in R) /\ (x \in q => x \in A)
                 /\ x \in F => ~(x \in H \/ x \in O \/ x \in Z \/ x \in W \/ x \in R \/ x \in A \/ x \in N)
      BY <2>5 DEF Separate
    <3>2. ASSUME NEW x
          PROVE  /\ x \in H2 <=> (x \in H \/ x \in t) /\ x \notin f
                 /\ x \in O2 <=> (x \in O /\ x \notin t) \/ x \in u \/ x \in n
                 /\ x \in Z2 <=> (x \in Z /\ x \notin g /\ x \notin y) \/ x \in f
                 /\ x \in W2 <=> (x \in W /\ x \notin u) \/ x \in g
                 /\ x \in R2 <=> (x \in R /\ x \notin p) \/ x \in y
                 /\ x \in A2 <=> (x \in A /\ x \notin q) \/ x \in p
                 /\ x \in N2 => (x \in N /\ x \notin n) \/ x \in F
      BY <2>6
    <3>3. ASSUME NEW x
          PROVE  /\ x \in H2 => ~(x \in O2 \/ x \in Z2 \/ x \in W2 \/ x \in R2 \/ x \in A2 \/ x \in N2)
                 /\ x \in O2 => ~(x \in Z2 \/ x \in W2 \/ x \in R2 \/ x \in A2 \/ x \in N2)
                 /\ x \in Z2 => ~(x \in W2 \/ x \in R2 \/ x \in A2 \/ x \in N2)
                 /\ x \in W2 => ~(x \in R2 \/ x \in A2 \/ x \in N2)
                 /\ x \in R2 => ~(x \in A2 \/ x \in N2)
                 /\ x \in A2 => ~(x \in N2)
      BY <3>1, <3>2
    <3>4. ASSUME NEW x,
                 x \in H2 \/ x \in O2 \/ x \in Z2 \/ x \in W2 \/ x \in R2 \/ x \in A2 \/ x \in N2
          PROVE  \/ x \in F
                 \/ /\ x \in H \/ x \in O \/ x \in Z \/ x \in W \/ x \in R \/ x \in A \/ x \in N
                    /\ x \notin q
      BY <3>1, <3>2, <3>4
    <3>5. Separate(H2, O2, Z2, W2, R2, A2, N2)
      BY <3>3 DEF Separate
    <3>6. QED
      BY <3>4, <3>5
  <2>8. QED
    BY <2>2, <2>3, <2>4, <2>7
<1>12. Known(c)' \subseteq (Known(c) \ ReturnedNow(c)) \cup FoundNow(c)
  BY <1>11 DEF Known
<1>13. Known(c)' \subseteq Index(c)'
  BY <1>1, <1>10, <1>12 DEF Index, Boxes!Index
<1>14. Apart(c)'
  BY <1>6, <1>7, <1>9, <1>11, <1>13 DEF Apart
<1>15. ~Full(c)' => Idle(c)' /\ recycle_ring'[c] = <<>>
  BY <1>7, <1>8, FullMoves
<1>16. QED
  BY <1>6, <1>7, <1>12, <1>14, <1>15

-----------------------------------------------------------------------------
(* The return of a pointer to the bit map *)

\* Which word the refill works on.
LEMMA WordMoves ==
  ASSUME Types, NEW request, NEW rdy, NEW free, Step(request, rdy, free), NEW c \in Class,
         Registers(c), NEW r, r = refill[c], NEW g, g = refill'[c]
  PROVE  /\ r.state # "ST_ALLOC_RECYCLE_EXE_WRITE_BACK" => g.addr_counter = r.addr_counter
         /\ r.state = "ST_ALLOC_RECYCLE_EXE_WRITE_BACK" =>
              g.state = "ST_ALLOC_RECYCLE_EXE_READ" /\ g.wea /\ g.addra = r.addr_counter
         /\ r.state = "ST_ALLOC_RECYCLE_EXE_READ" => g.state = "ST_ALLOC_RECYCLE_EXE_READ_GET"
         /\ Started(c) => Started(c)' /\ (g.wea => r.state = "ST_ALLOC_RECYCLE_EXE_WRITE_BACK")
<1>1. r.state \in RefillStates
  BY StateIs
<1>2. /\ ~Started(c) => r.exe_ptr = 0 /\ r.buf = {}
      /\ r.wea => r.state \in {"ST_CLEAR_BIT_MAP", "ST_ALLOC_RECYCLE_EXE_READ"}
      /\ r.state = "ST_ALLOC_RECYCLE_EXE_READ_GET" => r.addra = r.addr_counter
      /\ Started(c) <=> r.state \notin {"ST_CLEAR_BIT_MAP", "ST_ALLOC_RECYCLE_IDLE"}
      /\ Started(c)' <=> g.state \notin {"ST_CLEAR_BIT_MAP", "ST_ALLOC_RECYCLE_IDLE"}
  BY DEF Registers, Started
<1>3. CASE r.state = "ST_CLEAR_BIT_MAP"
  <2>1. g.addr_counter = r.addr_counter
    BY <1>3, ClearMoves
  <2>2. QED
    BY <1>2, <1>3, <2>1
<1>4. CASE r.state = "ST_ALLOC_RECYCLE_IDLE"
  <2>1. r.exe_ptr = 0 /\ r.buf = {}
    BY <1>2, <1>4
  <2>2. g.addr_counter = r.addr_counter
    BY <1>4, <2>1, FirstFillMoves
  <2>3. QED
    BY <1>2, <1>4, <2>2
<1>5. CASE r.state = "ST_ALLOC_RECYCLE_BEGIN"
  <2>1. /\ g.addr_counter = r.addr_counter /\ ~g.wea
        /\ g.state \in {"ST_ALLOC_RECYCLE_BEGIN", "ST_ALLOC_RECYCLE_EXE"}
    BY <1>5, BeginMoves
  <2>2. QED
    BY <1>2, <1>5, <2>1
<1>6. CASE r.state = "ST_ALLOC_RECYCLE_EXE"
  <2>1. /\ g.addr_counter = r.addr_counter /\ g.wea = r.wea
        /\ g.state \in {"ST_ALLOC_RECYCLE_BEGIN", "ST_ALLOC_RECYCLE_EXE",
                        "ST_ALLOC_RECYCLE_EXE_WRITE_BACK"}
    <3>1. CASE Paused(c)
      BY <1>6, <3>1, PausedMoves
    <3>2. CASE Ends(c)
      BY <1>6, <3>2, EndsMoves
    <3>3. CASE Leaves(c)
      BY <1>6, <3>3, LeavesMoves
    <3>4. CASE Searches(c)
      BY <1>6, <3>4, SearchMoves
    <3>5. QED
      BY <3>1, <3>2, <3>3, <3>4 DEF Searches
  <2>2. QED
    BY <1>2, <1>6, <2>1
<1>7. CASE r.state = "ST_ALLOC_RECYCLE_EXE_WRITE_BACK"
  <2>1. g.state = "ST_ALLOC_RECYCLE_EXE_READ" /\ g.wea /\ g.addra = r.addr_counter
    BY <1>7, WriteBackMoves
  <2>2. QED
    BY <1>2, <1>7, <2>1
<1>8. CASE r.state = "ST_ALLOC_RECYCLE_EXE_READ"
  <2>1. g.state = "ST_ALLOC_RECYCLE_EXE_READ_GET" /\ ~g.wea /\ g.addr_counter = r.addr_counter
    BY <1>8, ReadMoves
  <2>2. QED
    BY <1>2, <1>8, <2>1
<1>9. CASE r.state = "ST_ALLOC_RECYCLE_EXE_READ_GET"
  <2>1. g.state = "ST_ALLOC_RECYCLE_EXE" /\ g.wea = r.wea /\ g.addr_counter = r.addr_counter
    BY <1>2, <1>9, GetMoves
  <2>2. QED
    BY <1>2, <1>9, <2>1
<1>10. QED
  BY <1>1, <1>3, <1>4, <1>5, <1>6, <1>7, <1>8, <1>9 DEF RefillStates

\* A pointer is marked in the word that the refill works on, if that is still
\* its word, and in the block RAM otherwise; the refill does not write that
\* word while the pointer is on its way.
Return(c) ==
    /\ recycle[c].state # "ST_FREE_RECYCLE_BEGIN" => Started(c)
    /\ recycle[c].hit \/ recycle[c].web => recycle[c].state = "ST_FREE_RECYCLE_BEGIN"
    /\ recycle[c].hit =>
         /\ recycle[c].bit = recycle[c].pointer % MemoryWidth
         /\ \/ recycle[c].pointer \div MemoryWidth = refill[c].addr_counter
            \/ refill[c].state = "ST_ALLOC_RECYCLE_EXE_READ"
    /\ \/ recycle[c].state \in {"ST_FREE_RECYCLE_WRITE_BUF", "ST_FREE_RECYCLE_WRITE_BACK"}
       \/ recycle[c].web
       => /\ recycle[c].addrb = recycle[c].pointer \div MemoryWidth
          /\ refill[c].wea => refill[c].addra # recycle[c].addrb
    /\ recycle[c].state = "ST_FREE_RECYCLE_WRITE_BUF" /\ recycle[c].addrb = refill[c].addr_counter =>
         refill[c].state = "ST_ALLOC_RECYCLE_EXE_READ"
    /\ recycle[c].state = "ST_FREE_RECYCLE_WRITE_BACK" /\ recycle[c].addrb = refill[c].addr_counter =>
         Loading(c)
    /\ recycle[c].state = "ST_FREE_RECYCLE_WRITE_BACK" =>
         \A i \in Known(c) : i \div MemoryWidth = recycle[c].addrb =>
            i % MemoryWidth \in recycle[c].buf
    /\ recycle[c].web =>
         \A i \in Known(c) : i \div MemoryWidth = recycle[c].addrb /\ i # recycle[c].pointer =>
            i % MemoryWidth \in recycle[c].dinb

LEMMA ReturnMoves ==
  ASSUME Types, Client, NEW request, NEW rdy, NEW free, Step(request, rdy, free), NEW c \in Class,
         Paced(c), Registers(c), ~Full(c) => Idle(c) /\ recycle_ring[c] = <<>>,
         Known(c)' \subseteq (Known(c) \ ReturnedNow(c)) \cup FoundNow(c),
             Known(c) \subseteq Index(c),
         Full(c) => FoundNow(c) = {}, Marks(c), Return(c)
  PROVE  Return(c)'
<1>1. PICK r, g, f, h : r = refill[c] /\ g = refill'[c] /\ f = recycle[c] /\ h = recycle'[c]
  OBVIOUS
<1>2. f \in Recycles(c) /\ f.state \in RecycleStates
  BY <1>1, StateIs DEF Recycles
<1>3. Boxes!Pops(c) <=> f.state = "ST_FREE_RECYCLE_BEGIN" /\ recycle_ring[c] # <<>>
  BY <1>1 DEF Boxes!Pops
<1>4. /\ r.state # "ST_ALLOC_RECYCLE_EXE_WRITE_BACK" => g.addr_counter = r.addr_counter
      /\ r.state = "ST_ALLOC_RECYCLE_EXE_WRITE_BACK" =>
           g.state = "ST_ALLOC_RECYCLE_EXE_READ" /\ g.wea /\ g.addra = r.addr_counter
      /\ r.state = "ST_ALLOC_RECYCLE_EXE_READ" => g.state = "ST_ALLOC_RECYCLE_EXE_READ_GET"
      /\ Started(c) => Started(c)' /\ (g.wea => r.state = "ST_ALLOC_RECYCLE_EXE_WRITE_BACK")
  BY <1>1, WordMoves
<1>5. /\ Loading(c)' <=> g.state \in {"ST_ALLOC_RECYCLE_EXE_READ", "ST_ALLOC_RECYCLE_EXE_READ_GET"}
      /\ Loading(c) <=> r.state \in {"ST_ALLOC_RECYCLE_EXE_READ", "ST_ALLOC_RECYCLE_EXE_READ_GET"}
  BY <1>1 DEF Loading
<1>6. /\ f.state # "ST_FREE_RECYCLE_BEGIN" => Started(c)
      /\ f.hit \/ f.web => f.state = "ST_FREE_RECYCLE_BEGIN"
      /\ f.state \in {"ST_FREE_RECYCLE_WRITE_BUF", "ST_FREE_RECYCLE_WRITE_BACK"} =>
            f.addrb = f.pointer \div MemoryWidth /\ (r.wea => r.addra # f.addrb)
      /\ f.state = "ST_FREE_RECYCLE_WRITE_BUF" /\ f.addrb = r.addr_counter =>
            r.state = "ST_ALLOC_RECYCLE_EXE_READ"
      /\ f.state = "ST_FREE_RECYCLE_WRITE_BACK" /\ f.addrb = r.addr_counter => Loading(c)
      /\ f.state = "ST_FREE_RECYCLE_WRITE_BACK" =>
            \A i \in Known(c) : i \div MemoryWidth = f.addrb => i % MemoryWidth \in f.buf
  BY <1>1 DEF Return
<1>7. SUFFICES
        /\ h.state # "ST_FREE_RECYCLE_BEGIN" => Started(c)'
        /\ h.hit \/ h.web => h.state = "ST_FREE_RECYCLE_BEGIN"
        /\ h.hit => /\ h.bit = h.pointer % MemoryWidth
                    /\ \/ h.pointer \div MemoryWidth = g.addr_counter
                       \/ g.state = "ST_ALLOC_RECYCLE_EXE_READ"
        /\ h.state \in {"ST_FREE_RECYCLE_WRITE_BUF", "ST_FREE_RECYCLE_WRITE_BACK"} \/ h.web =>
             h.addrb = h.pointer \div MemoryWidth /\ (g.wea => g.addra # h.addrb)
        /\ h.state = "ST_FREE_RECYCLE_WRITE_BUF" /\ h.addrb = g.addr_counter =>
             g.state = "ST_ALLOC_RECYCLE_EXE_READ"
        /\ h.state = "ST_FREE_RECYCLE_WRITE_BACK" /\ h.addrb = g.addr_counter => Loading(c)'
        /\ h.state = "ST_FREE_RECYCLE_WRITE_BACK" =>
             \A i \in Known(c)' : i \div MemoryWidth = h.addrb => i % MemoryWidth \in h.buf
        /\ h.web => \A i \in Known(c)' : i \div MemoryWidth = h.addrb /\ i # h.pointer =>
                                         i % MemoryWidth \in h.dinb
  BY <1>1 DEF Return
<1>8. ASSUME f.state # "ST_FREE_RECYCLE_BEGIN"
      PROVE  Known(c)' \subseteq Known(c)
  <2>1. Full(c)
    BY <1>1, <1>8 DEF Idle
  <2>2. QED
    BY <2>1
<1>9. CASE f.state = "ST_FREE_RECYCLE_BEGIN" /\ ~Boxes!Pops(c)
  <2>1. h.state = "ST_FREE_RECYCLE_BEGIN" /\ ~h.hit /\ ~h.web
    BY <1>1, <1>9, RecycleMoves
  <2>2. QED
    BY <2>1
<1>10. CASE Boxes!Pops(c)
  <2>1. h.state = "ST_FREE_RECYCLE_DECIDE_READ" /\ ~h.hit /\ ~h.web
    BY <1>1, <1>10, RecycleMoves
  <2>2. Started(c)
    <3>1. Full(c) /\ Full(c) = (c \in overflowed)
      BY <1>3, <1>10 DEF Full
    <3>2. alloc_state # "ST_ALLOC_IDLE"
      BY <3>1 DEF Client
    <3>3. QED
      BY <3>2 DEF Client, Paced
  <2>3. QED
    BY <1>4, <2>1, <2>2
<1>11. CASE f.state = "ST_FREE_RECYCLE_DECIDE_READ"
  <2>1. ~f.web /\ Started(c)
    BY <1>6, <1>11
  <2>2. CASE f.pointer \div MemoryWidth = r.addr_counter
    <3>1. /\ h.hit /\ h.bit = f.pointer % MemoryWidth /\ h.pointer = f.pointer /\ h.web = f.web
          /\ h.state = "ST_FREE_RECYCLE_BEGIN"
      BY <1>1, <1>11, <2>2, RecycleMoves
    <3>2. QED
      BY <1>4, <2>1, <2>2, <3>1
  <2>3. CASE f.pointer \div MemoryWidth # r.addr_counter
    <3>1. /\ ~h.hit /\ h.addrb = f.pointer \div MemoryWidth /\ h.pointer = f.pointer
          /\ h.web = f.web
          /\ h.state = "ST_FREE_RECYCLE_WRITE_BUF"
      BY <1>1, <1>11, <2>3, RecycleMoves
    <3>2. QED
      BY <1>4, <2>1, <2>3, <3>1
  <2>4. QED
    BY <2>2, <2>3
<1>12. CASE f.state = "ST_FREE_RECYCLE_WRITE_BUF"
  <2>1. /\ h.pointer = f.pointer /\ h.web = f.web /\ ~h.hit /\ h.addrb = f.addrb
        /\ h.buf = bram[c][f.addrb] /\ h.state = "ST_FREE_RECYCLE_WRITE_BACK"
    BY <1>1, <1>12, RecycleMoves
  <2>2. /\ ~f.web /\ Started(c) /\ f.addrb = f.pointer \div MemoryWidth /\ (r.wea => r.addra # f.addrb)
        /\ f.addrb = r.addr_counter => r.state = "ST_ALLOC_RECYCLE_EXE_READ"
    BY <1>6, <1>12
  <2>3. Boxes!Marked(c, f.addrb) = bram[c][f.addrb]
    BY <1>1, <2>2 DEF Boxes!Marked
  <2>4. \A i \in Known(c)' : i \div MemoryWidth = h.addrb => i % MemoryWidth \in h.buf
    BY <1>8, <1>12, <2>1, <2>3 DEF Marks
  <2>5. h.addrb = g.addr_counter => Loading(c)'
    BY <1>4, <1>5, <2>1, <2>2
  <2>6. g.wea => g.addra # h.addrb
    BY <1>4, <2>1, <2>2
  <2>7. QED
    BY <1>4, <2>1, <2>2, <2>4, <2>5, <2>6
<1>13. CASE f.state = "ST_FREE_RECYCLE_WRITE_BACK"
  <2>1. /\ h.pointer = f.pointer /\ h.web /\ ~h.hit /\ h.addrb = f.addrb
        /\ h.dinb = f.buf \ {f.pointer % MemoryWidth} /\ h.state = "ST_FREE_RECYCLE_BEGIN"
    BY <1>1, <1>13, RecycleMoves
  <2>2. /\ Started(c) /\ f.addrb = f.pointer \div MemoryWidth
        /\ f.addrb = r.addr_counter => Loading(c)
        /\ \A i \in Known(c) : i \div MemoryWidth = f.addrb => i % MemoryWidth \in f.buf
    BY <1>6, <1>13
  <2>3. g.wea => g.addra # h.addrb
    BY <1>4, <1>5, <2>1, <2>2
  <2>4. ASSUME NEW i \in Known(c)', i \div MemoryWidth = h.addrb, i # h.pointer
        PROVE  i % MemoryWidth \in h.dinb
    <3>1. i \in Known(c) /\ i \in Index(c) /\ f.pointer \in Index(c)
      BY <1>2, <1>8, <1>13 DEF Recycles
    <3>2. /\ i = (i \div MemoryWidth) * MemoryWidth + (i % MemoryWidth)
          /\ f.pointer = (f.pointer \div MemoryWidth) * MemoryWidth + (f.pointer % MemoryWidth)
      BY <3>1, IndexFits
    <3>3. i % MemoryWidth # f.pointer % MemoryWidth
      BY <2>1, <2>2, <2>4, <3>2
    <3>4. QED
      BY <2>1, <2>2, <2>4, <3>1, <3>3
  <2>5. QED
    BY <2>1, <2>2, <2>3, <2>4
<1>14. QED
  BY <1>2, <1>9, <1>10, <1>11, <1>12, <1>13 DEF RecycleStates

\* There are no boxes before the end of start-up.
LEMMA NoneKnownBefore ==
  ASSUME Client, NEW c \in Class, Paced(c), ~Started(c)
  PROVE  Known(c) = {}
<1>1. alloc_state = "ST_ALLOC_IDLE"
  BY DEF Client, Paced
<1>2. /\ ~alloc_valid /\ ~Boxes!Deciding /\ held = {}
      /\ free_ring[c] = <<>> /\ recycle_ring[c] = <<>> /\ Idle(c)
  BY <1>1 DEF Client
<1>3. Held(c) = {} /\ Offered(c) = {} /\ Freed(c) = {} /\ AtWork(c) = {}
  BY <1>2 DEF Held, Offered, Freed, AtWork
<1>4. Waiting(c) = {} /\ Recycled(c) = {}
  <2>1. Elements(<<>>) = {}
    BY DEF Elements
  <2>2. QED
    BY <1>2, <2>1 DEF Waiting, Recycled
<1>5. Fresh(c) = {}
  <2>1. Unused(c) = {}
    BY UnusedHas
  <2>2. QED
    BY <2>1 DEF Fresh
<1>6. QED
  BY <1>3, <1>4, <1>5 DEF Known

\* What the registers and the block RAM show of a box after the cycle.
LEMMA BitStays ==
  ASSUME Types, NEW request, NEW rdy, NEW free, Step(request, rdy, free), NEW c \in Class,
         Started(c), Registers(c), Return(c), Marks(c), Known(c) \subseteq Index(c),
         NEW i \in Known(c), i \notin ReturnedNow(c), NEW r, r = refill[c],
         NEW w, w = i \div MemoryWidth, NEW b, b = i % MemoryWidth
  PROVE  /\ w \in Words(c)
         /\ w # r.addr_counter \/ Loading(c) => b \in bram'[c][w]
         /\ w = r.addr_counter /\ ~Loading(c) => b \in r.buf
         /\ w = r.addr_counter /\ Loading(c) /\ ~r.wea => b \in bram[c][w]
         /\ \A bits : w = r.addr_counter /\ r.state # "ST_ALLOC_RECYCLE_EXE_READ" /\ b \in bits =>
              b \in AfterHit(c, bits)
<1>1. PICK f : f = recycle[c]
  OBVIOUS
<1>2. f \in Recycles(c) /\ i \in Index(c)
  BY <1>1, StateIs
<1>3. /\ f.hit \/ f.web => f.state = "ST_FREE_RECYCLE_BEGIN"
      /\ f.hit => /\ f.bit = f.pointer % MemoryWidth
                  /\ \/ f.pointer \div MemoryWidth = r.addr_counter
                     \/ r.state = "ST_ALLOC_RECYCLE_EXE_READ"
      /\ f.web =>
           \A j \in Known(c) : j \div MemoryWidth = f.addrb /\ j # f.pointer =>
                               j % MemoryWidth \in f.dinb
  BY <1>1 DEF Return
<1>4. f.hit \/ f.web => i # f.pointer
  BY <1>1, <1>3 DEF ReturnedNow, AtWork, Idle
<1>5. w \in Words(c)
  BY <1>2, IndexFits
<1>6. /\ f.web /\ f.addrb = w => bram'[c][w] = f.dinb
      /\ ~(f.web /\ f.addrb = w) =>
           bram'[c][w] = IF r.wea /\ r.addra = w THEN r.dina ELSE bram[c][w]
  BY <1>1, <1>5, BramMoves
<1>7. /\ b \in IF r.wea /\ r.addra = w THEN r.dina
               ELSE IF w = r.addr_counter /\ ~Loading(c) THEN r.buf ELSE bram[c][w]
  BY DEF Marks, Boxes!Marked, Loading
<1>8. r.wea => Loading(c)
  BY DEF Registers, Loading, Started
<1>9. f.web /\ f.addrb = w => b \in f.dinb
  BY <1>3, <1>4
<1>10. ASSUME f.hit, w = r.addr_counter, r.state # "ST_ALLOC_RECYCLE_EXE_READ"
       PROVE  b # f.bit
  <2>1. f.pointer \in Index(c) /\ f.pointer \div MemoryWidth = w /\ f.bit = f.pointer % MemoryWidth
    BY <1>2, <1>3, <1>10 DEF Recycles
  <2>2. /\ i = (i \div MemoryWidth) * MemoryWidth + (i % MemoryWidth)
        /\ f.pointer = (f.pointer \div MemoryWidth) * MemoryWidth + (f.pointer % MemoryWidth)
    BY <1>2, <2>1, IndexFits
  <2>3. QED
    BY <1>4, <1>10, <2>1, <2>2
<1>11. \A bits : w = r.addr_counter /\ r.state # "ST_ALLOC_RECYCLE_EXE_READ" /\ b \in bits =>
              b \in AfterHit(c, bits)
  BY <1>1, <1>10 DEF AfterHit
<1>12. QED
  BY <1>5, <1>6, <1>7, <1>8, <1>9, <1>11

LEMMA MarksMoves ==
  ASSUME Types, Client, NEW request, NEW rdy, NEW free, Step(request, rdy, free), NEW c \in Class,
         Paced(c), Registers(c), ~Full(c) => Turn(c) /\ Shape(c) /\ Idle(c), Return(c), Marks(c),
         Known(c) \subseteq Index(c), Known(c)' \subseteq (Known(c) \ ReturnedNow(c)) \cup FoundNow(c)
  PROVE  Marks(c)'
<1>1. PICK r, g : r = refill[c] /\ g = refill'[c]
  OBVIOUS
<1>2. SUFFICES ASSUME NEW i \in Known(c)', NEW w, w = i \div MemoryWidth, NEW b, b = i % MemoryWidth
               PROVE  b \in Boxes!Marked(c, w)'
  BY DEF Marks
<1>3. Boxes!Marked(c, w)' = IF g.wea /\ g.addra = w THEN g.dina
                            ELSE IF w = g.addr_counter /\ g.state \notin
                              {"ST_ALLOC_RECYCLE_EXE_READ", "ST_ALLOC_RECYCLE_EXE_READ_GET"}
                                  THEN g.buf
                            ELSE bram'[c][w]
  BY <1>1 DEF Boxes!Marked
<1>4. CASE i \in FoundNow(c)
  <2>1. /\ w = r.addr_counter /\ b \in g.buf /\ ~g.wea /\ g.addr_counter = r.addr_counter
        /\ g.state \in {"ST_ALLOC_RECYCLE_BEGIN", "ST_ALLOC_RECYCLE_EXE"}
    BY <1>1, <1>2, <1>4, FoundFits
  <2>2. QED
    BY <1>3, <2>1
<1>5. CASE i \notin FoundNow(c)
  <2>1. i \in Known(c) /\ i \notin ReturnedNow(c)
    BY <1>5
  <2>2. Started(c)
    BY <2>1, NoneKnownBefore
  <2>3. /\ w # r.addr_counter \/ Loading(c) => b \in bram'[c][w]
        /\ w = r.addr_counter /\ ~Loading(c) => b \in r.buf
        /\ w = r.addr_counter /\ Loading(c) /\ ~r.wea => b \in bram[c][w]
        /\ \A bits : w = r.addr_counter /\ r.state # "ST_ALLOC_RECYCLE_EXE_READ" /\ b \in bits =>
              b \in AfterHit(c, bits)
    BY <1>1, <1>2, <2>1, <2>2, BitStays
  <2>4. /\ r.state \in RefillStates
        /\ r.state \notin {"ST_CLEAR_BIT_MAP", "ST_ALLOC_RECYCLE_IDLE"}
        /\ r.wea => r.state = "ST_ALLOC_RECYCLE_EXE_READ"
        /\ r.state = "ST_ALLOC_RECYCLE_EXE_READ_GET" => r.addra = r.addr_counter
        /\ Loading(c) <=> r.state \in {"ST_ALLOC_RECYCLE_EXE_READ", "ST_ALLOC_RECYCLE_EXE_READ_GET"}
    BY <1>1, <2>2, StateIs DEF Started, Registers, Loading
  <2>5. CASE r.state \in {"ST_ALLOC_RECYCLE_BEGIN", "ST_ALLOC_RECYCLE_EXE"}
    <3>1. /\ g.addr_counter = r.addr_counter /\ ~g.wea
          /\ g.state \in {"ST_ALLOC_RECYCLE_BEGIN", "ST_ALLOC_RECYCLE_EXE",
                          "ST_ALLOC_RECYCLE_EXE_WRITE_BACK"}
          /\ AfterHit(c, r.buf) \subseteq g.buf
      <4>1. CASE r.state = "ST_ALLOC_RECYCLE_BEGIN"
        BY <1>1, <4>1, BeginMoves
      <4>2. CASE r.state = "ST_ALLOC_RECYCLE_EXE" /\ Paused(c)
        BY <1>1, <2>4, <4>2, PausedMoves
      <4>3. CASE r.state = "ST_ALLOC_RECYCLE_EXE" /\ Ends(c)
        BY <1>1, <2>4, <4>3, EndsMoves
      <4>4. CASE r.state = "ST_ALLOC_RECYCLE_EXE" /\ Leaves(c)
        BY <1>1, <2>4, <4>4, LeavesMoves
      <4>5. CASE r.state = "ST_ALLOC_RECYCLE_EXE" /\ Searches(c)
        <5>1. /\ g.wea = r.wea /\ g.state = "ST_ALLOC_RECYCLE_EXE"
              /\ g.addr_counter = r.addr_counter /\ g.buf = AfterHit(c, Searched(c))
          BY <1>1, <4>5, SearchMoves
        <5>2. AfterHit(c, r.buf) \subseteq AfterHit(c, Searched(c))
          BY <1>1 DEF AfterHit, Searched
        <5>3. QED
          BY <2>4, <4>5, <5>1, <5>2
      <4>6. QED
        BY <2>5, <4>1, <4>2, <4>3, <4>4, <4>5 DEF Searches
    <3>2. ~Loading(c)
      BY <2>4, <2>5
    <3>3. CASE w = r.addr_counter
      <4>1. b \in g.buf
        BY <2>3, <2>5, <3>1, <3>2, <3>3
      <4>2. QED
        BY <1>3, <3>1, <3>3, <4>1
    <3>4. CASE w # r.addr_counter
      BY <1>3, <2>3, <3>1, <3>4
    <3>5. QED
      BY <3>3, <3>4
  <2>6. CASE r.state = "ST_ALLOC_RECYCLE_EXE_WRITE_BACK"
    <3>1. g.state = "ST_ALLOC_RECYCLE_EXE_READ" /\ g.wea /\ g.addra = r.addr_counter
              /\ g.dina = r.buf
      BY <1>1, <2>6, WriteBackMoves
    <3>2. QED
      BY <1>3, <2>3, <2>4, <2>6, <3>1
  <2>7. CASE r.state = "ST_ALLOC_RECYCLE_EXE_READ"
    <3>1. g.state = "ST_ALLOC_RECYCLE_EXE_READ_GET" /\ ~g.wea
      BY <1>1, <2>7, ReadMoves
    <3>2. QED
      BY <1>3, <2>3, <2>4, <2>7, <3>1
  <2>8. CASE r.state = "ST_ALLOC_RECYCLE_EXE_READ_GET"
    <3>1. /\ g.state = "ST_ALLOC_RECYCLE_EXE" /\ g.wea = r.wea /\ g.addr_counter = r.addr_counter
          /\ g.buf = AfterHit(c, bram[c][r.addr_counter])
      BY <1>1, <2>4, <2>8, GetMoves
    <3>2. ~r.wea /\ Loading(c)
      BY <2>4, <2>8
    <3>3. w = r.addr_counter => b \in g.buf
      BY <2>3, <2>8, <3>1, <3>2
    <3>4. QED
      BY <1>3, <2>3, <3>1, <3>2, <3>3
  <2>9. QED
    BY <2>4, <2>5, <2>6, <2>7, <2>8 DEF RefillStates
<1>6. QED
  BY <1>4, <1>5

-----------------------------------------------------------------------------
(* Types, and the client *)

LEMMA RefillFits ==
  ASSUME Types, NEW request, NEW rdy, NEW free, Step(request, rdy, free), NEW c \in Class,
             Registers(c)
  PROVE  refill'[c] \in Refills(c)
<1>1. PICK r : r = refill[c]
  OBVIOUS
<1>2. r.state \in RefillStates
  BY <1>1, StateIs
<1>3. /\ ~Started(c) => r.exe_ptr = 0 /\ r.buf = {}
      /\ r.state = "ST_ALLOC_RECYCLE_EXE_READ_GET" => r.addra = r.addr_counter
      /\ Started(c) <=> r.state \notin {"ST_CLEAR_BIT_MAP", "ST_ALLOC_RECYCLE_IDLE"}
  BY <1>1 DEF Registers, Started
<1>4. CASE r.state = "ST_CLEAR_BIT_MAP"
  BY <1>1, <1>4, ClearMoves
<1>5. CASE r.state = "ST_ALLOC_RECYCLE_IDLE"
  <2>1. r.exe_ptr = 0 /\ r.buf = {}
    BY <1>3, <1>5
  <2>2. QED
    BY <1>1, <1>5, <2>1, FirstFillMoves
<1>6. CASE r.state = "ST_ALLOC_RECYCLE_BEGIN"
  BY <1>1, <1>6, BeginMoves
<1>7. CASE r.state = "ST_ALLOC_RECYCLE_EXE"
  <2>1. CASE Paused(c)
    BY <1>1, <1>7, <2>1, PausedMoves
  <2>2. CASE Ends(c)
    BY <1>1, <1>7, <2>2, EndsMoves
  <2>3. CASE Leaves(c)
    BY <1>1, <1>7, <2>3, LeavesMoves
  <2>4. CASE Searches(c)
    BY <1>1, <1>7, <2>4, SearchMoves
  <2>5. QED
    BY <2>1, <2>2, <2>3, <2>4 DEF Searches
<1>8. CASE r.state = "ST_ALLOC_RECYCLE_EXE_WRITE_BACK"
  BY <1>1, <1>8, WriteBackMoves
<1>9. CASE r.state = "ST_ALLOC_RECYCLE_EXE_READ"
  BY <1>1, <1>9, ReadMoves
<1>10. CASE r.state = "ST_ALLOC_RECYCLE_EXE_READ_GET"
  BY <1>1, <1>3, <1>10, GetMoves
<1>11. QED
  BY <1>2, <1>4, <1>5, <1>6, <1>7, <1>8, <1>9, <1>10 DEF RefillStates

LEMMA BramFits ==
  ASSUME Types, NEW request, NEW rdy, NEW free, Step(request, rdy, free), NEW c \in Class
  PROVE  DOMAIN bram'[c] = Words(c) /\ \A w \in Words(c) : bram'[c][w] \subseteq Boxes!Bit
<1>1. PICK r, f : r = refill[c] /\ f = recycle[c]
  OBVIOUS
<1>2. r \in Refills(c) /\ f \in Recycles(c) /\ \A w \in Words(c) : bram[c][w] \subseteq Boxes!Bit
  BY <1>1 DEF Types, ClassTypes
<1>3. r.dina \subseteq Boxes!Bit /\ f.dinb \subseteq Boxes!Bit
  BY <1>2 DEF Refills, Recycles
<1>4. /\ DOMAIN bram'[c] = Words(c)
      /\ \A w \in Words(c) :
           /\ f.web /\ f.addrb = w => bram'[c][w] = f.dinb
           /\ ~(f.web /\ f.addrb = w) =>
                bram'[c][w] = IF r.wea /\ r.addra = w THEN r.dina ELSE bram[c][w]
  BY <1>1, BramMoves
<1>5. QED
  BY <1>2, <1>3, <1>4

LEMMA SamePrimed ==
  ASSUME NEW c \in Class
  PROVE  /\ Refills(c)' = Refills(c) /\ Recycles(c)' = Recycles(c) /\ Words(c)' = Words(c)
         /\ Index(c)' = Index(c) /\ Slots' = Slots /\ Boxes!Bit' = Boxes!Bit
BY DEF Refills, Recycles, RefillStates, RecycleStates, Words, Index, Slots, Boxes!Index, Boxes!Bit,
       Boxes!BRAM_DEPTH

LEMMA ClassTypesMoves ==
  ASSUME Types, Client, NEW request, NEW rdy, NEW free, Step(request, rdy, free), NEW c \in Class,
         Paced(c), Registers(c),
         free_ring'[c] \in Seq(Index(c)), Len(free_ring'[c]) < CacheDepth,
         recycle_ring'[c] \in Seq(Index(c)), Len(recycle_ring'[c]) < CacheDepth
  PROVE  ClassTypes(c)'
<1>1. refill'[c] \in Refills(c)'
  BY RefillFits, SamePrimed
<1>2. recycle'[c] \in Recycles(c)'
  BY RecycleMoves, SamePrimed
<1>3. DOMAIN bram'[c] = Words(c)' /\ \A w \in Words(c)' : bram'[c][w] \subseteq Boxes!Bit'
  BY BramFits, SamePrimed
<1>4. cache_counter_alloc'[c] \in Slots' /\ clear_has_recycled'[c] \in BOOLEAN
  <2>1. cache_counter_alloc'[c] \in Slots
    BY CounterMoves
  <2>2. clear_has_recycled'[c] \in BOOLEAN
    BY AllocMoves
  <2>3. QED
    BY <2>1, <2>2, SamePrimed
<1>5. free_ring'[c] \in Seq(Index(c)') /\ recycle_ring'[c] \in Seq(Index(c)')
  BY SamePrimed
<1>6. QED
  BY <1>1, <1>2, <1>3, <1>4, <1>5 DEF ClassTypes

LEMMA BoxIsPointer ==
  ASSUME NEW p, IsBox(p)
  PROVE  p \in Boxes!Pointer
BY PointerFits DEF IsBox

LEMMA TypesMoves ==
  ASSUME Types, Client, NEW request, NEW rdy, NEW free, Step(request, rdy, free),
         \A c \in Class : ClassTypes(c)', \A c \in Class : Paced(c)
  PROVE  Types'
<1>1. /\ in_class' \in Class
      /\ alloc_state' \in {"ST_ALLOC_IDLE", "ST_ALLOC_BEGIN", "ST_ALLOC_DECIDE"}
      /\ req_ready' \in BOOLEAN /\ alloc_valid' \in BOOLEAN
      /\ alloc_valid' <=> (alloc_valid /\ ~rdy) \/ Boxes!FromRing(rdy) \/ Boxes!FromCache(rdy)
      /\ Boxes!FromRing(rdy) => alloc_pointer' = PointerTo(in_class, Head(free_ring[in_class]))
      /\ Boxes!FromCache(rdy) =>
           alloc_pointer' = PointerTo(in_class, refill[in_class].cache[cache_counter_alloc[in_class]])
      /\ ~Boxes!FromRing(rdy) /\ ~Boxes!FromCache(rdy) =>
           alloc_pointer' = IF Boxes!Taken(rdy) THEN 0 ELSE alloc_pointer
      /\ cache_counter_alloc' = [c \in Class |-> cache_counter_alloc'[c]]
  BY AllocMoves
<1>2. /\ free_state' \in {"ST_FREE_BEGIN", "ST_FREE_DECIDE_QUEUE"} /\ free_ready' \in BOOLEAN
      /\ Frees(free) => free.pointer \in held /\ free_pointer_buf' = free.pointer
      /\ ~Frees(free) => free_pointer_buf' = free_pointer_buf
      /\ Boxes!Deciding' => Frees(free) \/ Boxes!Deciding
  BY FreeMoves
<1>3. /\ held' \subseteq held \cup (IF Boxes!Taken(rdy) THEN {alloc_pointer} ELSE {})
      /\ alloc_busy' \in BOOLEAN
  <2>1. /\ held' = (held \cup (IF Boxes!Taken(rdy) THEN {alloc_pointer} ELSE {}))
                    \ (IF Frees(free) THEN {free.pointer} ELSE {})
        /\ alloc_busy' = IF request # Boxes!None /\ req_ready THEN TRUE
                         ELSE alloc_busy /\ ~Boxes!Taken(rdy)
    BY ClientMoves
  <2>2. QED
    BY <2>1
<1>4. /\ alloc_pointer \in Boxes!Pointer /\ free_pointer_buf \in Boxes!Pointer
      /\ \A p \in held : IsBox(p)
      /\ alloc_valid => IsBox(alloc_pointer)
      /\ Boxes!Deciding => IsBox(free_pointer_buf)
      /\ in_class \in Class
  BY DEF Types
<1>5. Boxes!FromRing(rdy) \/ Boxes!FromCache(rdy) => IsBox(alloc_pointer')
  <2>1. CASE Boxes!FromRing(rdy)
    <3>1. free_ring[in_class] # <<>> /\ free_ring[in_class] \in Seq(Index(in_class))
      BY <1>4, <2>1 DEF Boxes!FromRing, Types, ClassTypes
    <3>2. Head(free_ring[in_class]) \in Index(in_class)
      BY <3>1, HeadTailProperties
    <3>3. QED
      BY <1>1, <1>4, <2>1, <3>2 DEF IsBox
  <2>2. CASE Boxes!FromCache(rdy)
    <3>1. refill[in_class] \in Refills(in_class) /\ cache_counter_alloc[in_class] \in Slots
      BY <1>4 DEF Types, ClassTypes
    <3>2. refill[in_class].cache[cache_counter_alloc[in_class]] \in Index(in_class)
      BY <3>1 DEF Refills
    <3>3. QED
      BY <1>1, <1>4, <2>2, <3>2 DEF IsBox
  <2>3. QED
    BY <2>1, <2>2
<1>6. alloc_valid' => IsBox(alloc_pointer')
  BY <1>1, <1>4, <1>5 DEF Boxes!Taken
<1>7. \A p \in held' : IsBox(p)
  BY <1>3, <1>4 DEF Boxes!Taken
<1>8. Boxes!Deciding' => IsBox(free_pointer_buf')
  BY <1>2, <1>4
<1>9. alloc_pointer' \in Boxes!Pointer
  <2>1. 0 \in Boxes!Pointer
    <3>1. PICK x, y : x = ClassCount * MemoryWidth /\ y = ClassCount * MemoryWidth * Depth
      OBVIOUS
    <3>2. x \in Int /\ y = x * Depth
      BY <3>1, SizesFit
    <3>3. y \in Int
      BY <3>2, SizesFit
    <3>4. alloc_pointer \in 0..(y - 1) /\ Boxes!Pointer = 0..(y - 1)
      BY <1>4, <3>1 DEF Boxes!Pointer
    <3>5. QED
      BY <3>3, <3>4
  <2>2. QED
    BY <1>1, <1>4, <1>5, <2>1, BoxIsPointer
<1>10. free_pointer_buf' \in Boxes!Pointer
  BY <1>2, <1>4, BoxIsPointer
<1>11. \A p : IsBox(p)' <=> IsBox(p)
  BY SamePrimed DEF IsBox, PointerTo, Boxes!PointerTo, Class, Boxes!Class
<1>12. Boxes!Pointer' = Boxes!Pointer /\ Class' = Class
  BY DEF Boxes!Pointer, Class, Boxes!Class
<1>13. QED
  BY <1>1, <1>2, <1>3, <1>6, <1>7, <1>8, <1>9, <1>10, <1>11, <1>12 DEF Types

LEMMA ClientKeeps ==
  ASSUME Types, Client, NEW request, NEW rdy, NEW free, Step(request, rdy, free),
         \A c \in Class : Paced(c) /\ Registers(c),
         \A c \in Class : /\ Paced(c)' /\ free_ring'[c] \in Seq(Index(c))
                          /\ Distinct(free_ring[c]) /\ Freed(c) \cap Waiting(c) = {}
                          /\ Distinct(recycle_ring[c]) /\ Freed(c) \cap Recycled(c) = {}
  PROVE  Client'
<1>1. /\ req_ready' <=> alloc_state' # "ST_ALLOC_DECIDE"
      /\ alloc_valid' <=> (alloc_valid /\ ~rdy) \/ Boxes!FromRing(rdy) \/ Boxes!FromCache(rdy)
      /\ \A c \in Class :
           /\ ~Delivers(c, rdy) => cache_counter_alloc'[c] = cache_counter_alloc[c]
           /\ clear_has_recycled'[c] \in BOOLEAN
           /\ clear_has_recycled'[c] <=> Delivers(c, rdy)
      /\ \A c \in Class : Waits(c)' <=> Accepts(c, request)
                            \/ (Waits(c) /\ ~Boxes!FromRing(rdy) /\ ~Boxes!FromCache(rdy))
      /\ alloc_state' = "ST_ALLOC_IDLE" <=>
           alloc_state = "ST_ALLOC_IDLE" /\ ~ \A c \in Class : refill[c].ready
      /\ alloc_state' = "ST_ALLOC_DECIDE" => \E c \in Class : Waits(c)'
  BY AllocMoves
<1>2. /\ free_ready' <=> ~Boxes!Deciding'
      /\ Frees(free) => free.pointer \in held
      /\ Boxes!Deciding' => Frees(free) \/ Boxes!Deciding
      /\ Boxes!ToRing \/ Boxes!ToRecycle => Boxes!Deciding
  BY FreeMoves
<1>3. /\ held' = (held \cup (IF Boxes!Taken(rdy) THEN {alloc_pointer} ELSE {}))
                    \ (IF Frees(free) THEN {free.pointer} ELSE {})
      /\ alloc_busy' = IF request # Boxes!None /\ req_ready THEN TRUE
                       ELSE alloc_busy /\ ~Boxes!Taken(rdy)
      /\ overflowed' = overflowed \cup (IF Boxes!ToRecycle THEN {Boxes!free_class} ELSE {})
  BY ClientMoves
<1>4. /\ req_ready <=> alloc_state # "ST_ALLOC_DECIDE"
      /\ alloc_valid => alloc_busy
      /\ alloc_state = "ST_ALLOC_DECIDE" => alloc_busy /\ ~alloc_valid
      /\ alloc_state # "ST_ALLOC_IDLE" => \A c \in Class : refill[c].ready
      /\ alloc_state = "ST_ALLOC_IDLE" =>
           /\ ~alloc_valid /\ ~Boxes!Deciding /\ held = {} /\ overflowed = {}
           /\ \A c \in Class : /\ free_ring[c] = <<>> /\ recycle_ring[c] = <<>> /\ Idle(c)
                               /\ cache_counter_alloc[c] = 0 /\ ~clear_has_recycled[c]
  BY DEF Client
<1>5. /\ rdy \in BOOLEAN /\ request \in Boxes!Requests /\ Class' = Class
      /\ Boxes!FromRing(rdy) \/ Boxes!FromCache(rdy) => alloc_state = "ST_ALLOC_DECIDE"
  BY DEF Step, Boxes!FromRing, Boxes!FromCache, Class, Boxes!Class
<1>6. alloc_valid' => alloc_busy'
  BY <1>1, <1>3, <1>4, <1>5 DEF Boxes!Taken
<1>7. alloc_state' = "ST_ALLOC_DECIDE" => alloc_busy' /\ ~alloc_valid'
  <2>1. ASSUME NEW c \in Class, Accepts(c, request)
        PROVE  alloc_busy' /\ ~alloc_valid'
    <3>1. request # Boxes!None /\ req_ready /\ alloc_state = "ST_ALLOC_BEGIN"
      BY <2>1 DEF Accepts
    <3>2. ~alloc_busy
      BY <1>5, <3>1, RequestFits
    <3>3. QED
      BY <1>1, <1>3, <1>4, <1>5, <3>1, <3>2
  <2>2. ASSUME NEW c \in Class, Waits(c), ~Boxes!FromRing(rdy), ~Boxes!FromCache(rdy)
        PROVE  alloc_busy' /\ ~alloc_valid'
    BY <1>1, <1>3, <1>4, <2>2 DEF Waits, Boxes!Taken
  <2>3. QED
    BY <1>1, <2>1, <2>2
<1>8. \A c \in Class : clear_has_recycled'[c] => alloc_valid'
  BY <1>1 DEF Delivers
<1>9. alloc_state' # "ST_ALLOC_IDLE" => \A c \in Class : refill'[c].ready
  <2>1. ASSUME NEW c \in Class, refill[c].ready
        PROVE  refill'[c].ready
    <3>1. Started(c) /\ Registers(c)
      BY <2>1 DEF Paced
    <3>2. Started(c)'
      BY <3>1, WordMoves
    <3>3. Paced(c)'
      OBVIOUS
    <3>4. QED
      BY <3>2, <3>3 DEF Paced
  <2>2. QED
    BY <1>1, <1>4, <2>1
<1>10. ASSUME alloc_state' = "ST_ALLOC_IDLE"
       PROVE  /\ ~alloc_valid' /\ ~Boxes!Deciding' /\ held' = {} /\ overflowed' = {}
              /\ \A c \in Class : /\ free_ring'[c] = <<>> /\ recycle_ring'[c] = <<>> /\ Idle(c)'
                                  /\ cache_counter_alloc'[c] = 0 /\ ~clear_has_recycled'[c]
  <2>1. /\ alloc_state = "ST_ALLOC_IDLE" /\ ~alloc_valid /\ ~Boxes!Deciding /\ held = {}
        /\ overflowed = {} /\ ~Frees(free) /\ ~Boxes!ToRing /\ ~Boxes!ToRecycle
    BY <1>1, <1>2, <1>4, <1>10
  <2>2. ~Boxes!FromRing(rdy) /\ ~Boxes!FromCache(rdy) /\ ~Boxes!Taken(rdy)
    BY <1>5, <2>1 DEF Boxes!Taken
  <2>3. ~alloc_valid' /\ ~Boxes!Deciding' /\ held' = {} /\ overflowed' = {}
    BY <1>1, <1>2, <1>3, <2>1, <2>2
  <2>4. ASSUME NEW c \in Class
        PROVE  /\ free_ring'[c] = <<>> /\ recycle_ring'[c] = <<>> /\ Idle(c)'
               /\ cache_counter_alloc'[c] = 0 /\ ~clear_has_recycled'[c]
    <3>1. free_ring[c] = <<>> /\ recycle_ring[c] = <<>> /\ Idle(c) /\ cache_counter_alloc[c] = 0
      BY <1>4, <2>1
    <3>2. recycle_ring'[c] = <<>>
      BY <2>1, <3>1, RecycledMoves
    <3>3. Idle(c)'
      BY <3>1, AtWorkMoves
    <3>4. cache_counter_alloc'[c] = 0 /\ ~clear_has_recycled'[c]
      BY <1>1, <2>2, <3>1 DEF Delivers
    <3>5. free_ring'[c] = <<>>
      <4>1. Waiting(c)' \subseteq Waiting(c) \cup RingNow(c)
        <5>1. Waiting(c)' = (Waiting(c) \ ReusedNow(c, rdy)) \cup RingNow(c)
          BY WaitingMoves
        <5>2. QED
          BY <5>1
      <4>2. RingNow(c) = {}
        BY <2>1 DEF RingNow
      <4>3. PICK s : s = free_ring'[c]
        OBVIOUS
      <4>4. Elements(s) = {}
        <5>1. Elements(<<>>) = {}
          BY DEF Elements
        <5>2. Waiting(c) = {}
          BY <3>1, <5>1 DEF Waiting
        <5>3. Waiting(c)' = Elements(s)
          BY <4>3 DEF Waiting, Elements
        <5>4. QED
          BY <4>1, <4>2, <5>2, <5>3
      <4>5. s \in Seq(Index(c)) /\ Len(s) \in Nat
        BY <4>3, LenProperties
      <4>6. Len(s) = 0
        <5>1. \A k \in 1..Len(s) : s[k] \in Elements(s)
          BY DEF Elements
        <5>2. PICK n : n = Len(s)
          OBVIOUS
        <5>3. n \in Nat /\ \A k \in 1..n : FALSE
          BY <4>4, <4>5, <5>1, <5>2
        <5>4. QED
          BY <5>2, <5>3
      <4>7. QED
        BY <4>3, <4>5, <4>6, EmptySeq
    <3>6. QED
      BY <3>2, <3>3, <3>4, <3>5
  <2>5. QED
    BY <2>3, <2>4
<1>11. QED
  BY <1>1, <1>2, <1>5, <1>6, <1>7, <1>8, <1>9, <1>10 DEF Client

-----------------------------------------------------------------------------
(* The invariant *)

\* Of a class: until a free does not fit its ring, nothing goes back to the bit
\* map, and the set bits of each word come first.
Sound(c) ==
    /\ Paced(c) /\ Registers(c)
    /\ ~Full(c) => Turn(c) /\ Shape(c) /\ Idle(c) /\ recycle_ring[c] = <<>>
    /\ Apart(c) /\ Return(c) /\ Marks(c)

BoxesInv == Types /\ Client /\ \A c \in Class : Sound(c)

LEMMA InvMoves ==
  ASSUME BoxesInv, NEW request, NEW rdy, NEW free, Step(request, rdy, free)
  PROVE  BoxesInv'
<1>1. Types /\ Client /\ \A c \in Class : Sound(c)
  BY DEF BoxesInv
<1>2. ASSUME NEW c \in Class
      PROVE  /\ Sound(c)' /\ ClassTypes(c)' /\ free_ring'[c] \in Seq(Index(c))
             /\ Distinct(free_ring[c]) /\ Freed(c) \cap Waiting(c) = {}
             /\ Distinct(recycle_ring[c]) /\ Freed(c) \cap Recycled(c) = {}
  <2>1. /\ Paced(c) /\ Registers(c)
        /\ ~Full(c) => Turn(c) /\ Shape(c) /\ Idle(c) /\ recycle_ring[c] = <<>>
        /\ Apart(c) /\ Return(c) /\ Marks(c)
    BY <1>1 DEF Sound
  <2>2. /\ Apart(c)'
        /\ Known(c)' \subseteq (Known(c) \ ReturnedNow(c)) \cup FoundNow(c)
        /\ free_ring'[c] \in Seq(Index(c)) /\ Len(free_ring'[c]) < CacheDepth
        /\ recycle_ring'[c] \in Seq(Index(c)) /\ Len(recycle_ring'[c]) < CacheDepth
        /\ ~Reuses(c, rdy) /\ free_ring[c] # <<>> => free_ring'[c] # <<>>
        /\ ~Full(c)' => Idle(c)' /\ recycle_ring'[c] = <<>>
    BY <1>1, <2>1, ApartMoves
  <2>3. Paced(c)'
    BY <1>1, <2>1, <2>2, PacedMoves
  <2>4. Registers(c)'
    BY <1>1, <2>1, RegistersMoves
  <2>5. ~Full(c)' => Turn(c)' /\ Shape(c)'
    <3>1. ~Full(c)' => ~Full(c)
      BY FullMoves
    <3>2. QED
      BY <1>1, <2>1, <3>1, TurnMoves, ShapeMoves
  <2>6. Known(c) \subseteq Index(c) /\ (Full(c) => FoundNow(c) = {})
    BY <2>1 DEF Apart, FoundNow
  <2>7. Return(c)'
    BY <1>1, <2>1, <2>2, <2>6, ReturnMoves
  <2>8. Marks(c)'
    BY <1>1, <2>1, <2>2, <2>6, MarksMoves
  <2>9. ClassTypes(c)'
    BY <1>1, <2>1, <2>2, ClassTypesMoves
  <2>10. Sound(c)'
    BY <2>2, <2>3, <2>4, <2>5, <2>7, <2>8 DEF Sound
  <2>11. /\ Distinct(free_ring[c]) /\ Freed(c) \cap Waiting(c) = {}
         /\ Distinct(recycle_ring[c]) /\ Freed(c) \cap Recycled(c) = {}
    BY <2>1 DEF Apart, Separate
  <2>12. QED
    BY <2>2, <2>9, <2>10, <2>11
<1>3. \A c \in Class : Paced(c) /\ Registers(c) /\ Paced(c)'
  BY <1>1, <1>2 DEF Sound
<1>4. Types'
  BY <1>1, <1>2, <1>3, TypesMoves
<1>5. Client'
  BY <1>1, <1>2, <1>3, ClientKeeps
<1>6. Class' = Class
  BY DEF Class, Boxes!Class
<1>7. QED
  BY <1>2, <1>4, <1>5, <1>6 DEF BoxesInv

LEMMA InvAtFirst ==
  ASSUME Boxes!Init
  PROVE  BoxesInv
<1>1. /\ alloc_state = "ST_ALLOC_IDLE" /\ in_class = 0 /\ req_ready = TRUE
      /\ alloc_valid = FALSE /\ alloc_pointer = 0
      /\ cache_counter_alloc = [c \in Class |-> 0]
      /\ clear_has_recycled = [c \in Class |-> FALSE]
      /\ free_state = "ST_FREE_BEGIN" /\ free_ready = TRUE /\ free_pointer_buf = 0
      /\ free_ring = [c \in Class |-> <<>>] /\ recycle_ring = [c \in Class |-> <<>>]
      /\ alloc_busy = FALSE /\ held = {} /\ overflowed = {}
  BY DEF Boxes!Init, Class
<1>2. ~Boxes!Deciding
  BY <1>1 DEF Boxes!Deciding
<1>3. 0 \in Class /\ 0 \in Slots /\ 0 \in Boxes!Bit /\ 0 \in Nat
  BY SizesFit DEF Slots
<1>4. ASSUME NEW c \in Class
      PROVE  0 \in Index(c) /\ 0 \in Words(c)
  <2>1. PICK D : D = Boxes!BRAM_DEPTH(c)
    OBVIOUS
  <2>2. D \in Nat \ {0}
    BY <2>1, ClassFits
  <2>3. 0 \in Words(c)
    BY <2>1, <2>2 DEF Words
  <2>4. 0 + 0 * MemoryWidth \in Index(c)
    BY <1>3, <2>3, IndexFits
  <2>5. 0 + 0 * MemoryWidth = 0
    BY SizesFit
  <2>6. QED
    BY <2>3, <2>4, <2>5
<1>5. ASSUME NEW c \in Class, NEW r, r = refill[c], NEW f, f = recycle[c]
      PROVE  /\ r \in Refills(c) /\ r.state = "ST_CLEAR_BIT_MAP" /\ r.buf = {} /\ r.addr_counter = 0
             /\ r.exe_ptr = 0 /\ r.got = 0 /\ ~r.wea /\ ~r.ready
             /\ f \in Recycles(c) /\ f.state = "ST_FREE_RECYCLE_BEGIN" /\ ~f.hit /\ ~f.web
             /\ bram[c] = [w \in Words(c) |-> {}]
  <2>1. PICK s : s = [j \in Slots |-> 0]
    OBVIOUS
  <2>2. r = [state |-> "ST_CLEAR_BIT_MAP", clear_counter |-> 0, addr_counter |-> 0, back |-> FALSE,
             got |-> 0, not_first |-> FALSE, exe_ptr |-> 0, buf |-> {}, cache |-> s,
             front_ready |-> FALSE, back_ready |-> FALSE,
             ready |-> FALSE, has_recycled |-> FALSE, addra |-> 0, dina |-> {}, wea |-> FALSE]
    BY <1>5, <2>1 DEF Boxes!Init, Class, Slots
  <2>3. f = [state |-> "ST_FREE_RECYCLE_BEGIN", pointer |-> 0, buf |-> {}, addrb |-> 0, dinb |-> {},
             web |-> FALSE, hit |-> FALSE, bit |-> 0]
    BY <1>5 DEF Boxes!Init, Class
  <2>4. bram[c] = [w \in Words(c) |-> {}]
    BY DEF Boxes!Init, Class, Words
  <2>5. s \in [Slots -> Index(c)] /\ 0 \in Words(c) /\ 0 \in Index(c)
    BY <1>4, <2>1
  <2>6. r \in Refills(c)
    BY <1>3, <2>2, <2>5 DEF Refills, RefillStates
  <2>7. f \in Recycles(c)
    BY <1>3, <2>3, <2>5 DEF Recycles, RecycleStates
  <2>8. QED
    BY <2>2, <2>3, <2>4, <2>6, <2>7
<1>6. ASSUME NEW c \in Class
      PROVE  /\ ClassTypes(c) /\ Sound(c) /\ ~refill[c].ready /\ free_ring[c] = <<>>
             /\ recycle_ring[c] = <<>> /\ Idle(c) /\ cache_counter_alloc[c] = 0
             /\ clear_has_recycled[c] = FALSE
  <2>1. PICK r, f : r = refill[c] /\ f = recycle[c]
    OBVIOUS
  <2>2. /\ r \in Refills(c) /\ r.state = "ST_CLEAR_BIT_MAP" /\ r.buf = {} /\ r.addr_counter = 0
        /\ r.exe_ptr = 0 /\ r.got = 0 /\ ~r.wea /\ ~r.ready
        /\ f \in Recycles(c) /\ f.state = "ST_FREE_RECYCLE_BEGIN" /\ ~f.hit /\ ~f.web
        /\ bram[c] = [w \in Words(c) |-> {}]
    BY <1>5, <2>1
  <2>3. /\ free_ring[c] = <<>> /\ recycle_ring[c] = <<>> /\ cache_counter_alloc[c] = 0
        /\ clear_has_recycled[c] = FALSE /\ Idle(c)
    BY <1>1, <2>1, <2>2 DEF Idle
  <2>4. ClassTypes(c)
    <3>1. <<>> \in Seq(Index(c)) /\ Len(<<>>) = 0 /\ 0 < CacheDepth
      BY SizesFit, EmptySeq
    <3>2. DOMAIN bram[c] = Words(c) /\ \A w \in Words(c) : bram[c][w] \subseteq Boxes!Bit
      BY <2>2
    <3>3. QED
      BY <1>3, <2>1, <2>2, <2>3, <3>1, <3>2 DEF ClassTypes
  <2>5. ~Started(c) /\ ~Refilling(c) /\ ~Loading(c) /\ ~Waits(c)
    BY <1>1, <2>1, <2>2 DEF Started, Refilling, Loading, Waits
  <2>6. Paced(c)
    BY <2>1, <2>2, <2>5 DEF Paced
  <2>7. Registers(c)
    BY <2>1, <2>2, <2>5 DEF Registers
  <2>8. Turn(c)
    BY <2>1, <2>2, <2>5 DEF Turn
  <2>9. Shape(c)
    <3>1. 0 \in Multiple /\ 0 <= MemoryWidth /\ 0..(0 - 1) = {}
      BY MultipleFits, SizesFit
    <3>2. Begun({})
      BY <3>1 DEF Begun
    <3>3. BegunTo(c, 0)
      BY <2>1, <2>2, <3>1 DEF BegunTo
    <3>4. QED
      BY <2>1, <2>2, <3>1, <3>2, <3>3 DEF Shape
  <2>10. Return(c)
    BY <2>1, <2>2 DEF Return
  <2>11. Known(c) = {}
    <3>1. /\ Held(c) = {} /\ Offered(c) = {} /\ Freed(c) = {} /\ AtWork(c) = {}
      BY <1>1, <1>2, <2>3 DEF Held, Offered, Freed, AtWork
    <3>2. Elements(<<>>) = {}
      BY DEF Elements
    <3>3. Waiting(c) = {} /\ Recycled(c) = {}
      BY <2>3, <3>2 DEF Waiting, Recycled
    <3>4. Unused(c) = {}
      BY <2>5, UnusedHas
    <3>5. Fresh(c) = {}
      BY <3>4 DEF Fresh
    <3>6. QED
      BY <3>1, <3>3, <3>5 DEF Known
  <2>12. Marks(c)
    BY <2>11 DEF Marks
  <2>13. Apart(c)
    <3>1. Separate(Held(c), Offered(c), Freed(c), Waiting(c), Recycled(c), AtWork(c), Fresh(c))
      BY <2>11 DEF Separate, Known
    <3>2. Distinct(<<>>)
      BY DEF Distinct
    <3>3. Unused(c) = {}
      BY <2>5, UnusedHas
    <3>4. QED
      BY <2>3, <2>11, <3>1, <3>2, <3>3 DEF Apart, NoneTwice
  <2>14. QED
    BY <2>1, <2>2, <2>3, <2>4, <2>6, <2>7, <2>8, <2>9, <2>10, <2>12, <2>13 DEF Sound
<1>7. Client
  BY <1>1, <1>2, <1>6 DEF Client
<1>8. 0 \in Boxes!Pointer
  <2>1. PointerTo(0, 0) \in Boxes!Pointer
    BY <1>3, <1>4, PointerFits
  <2>2. PointerTo(0, 0) = 0
    <3>1. 0 * MemoryWidth * Depth = 0 /\ 2^0 * 0 = 0
      BY SizesFit
    <3>2. QED
      BY <3>1 DEF PointerTo, Boxes!PointerTo, Boxes!neededsize, Boxes!CLASS_BASE
  <2>3. QED
    BY <2>1, <2>2
<1>9. Types
  BY <1>1, <1>2, <1>3, <1>6, <1>8 DEF Types
<1>10. QED
  BY <1>6, <1>7, <1>9 DEF BoxesInv

LEMMA InvNoDouble ==
  ASSUME BoxesInv
  PROVE  Boxes!TypeOK /\ Boxes!NoDoubleAlloc
<1>1. Types /\ \A c \in Class : Sound(c)
  BY DEF BoxesInv
<1>2. Boxes!TypeOK
  <2>1. /\ in_class \in Boxes!Class /\ req_ready \in BOOLEAN /\ alloc_valid \in BOOLEAN
        /\ alloc_pointer \in Boxes!Pointer /\ free_pointer_buf \in Boxes!Pointer
        /\ held \subseteq Boxes!Pointer
    BY <1>1, BoxIsPointer DEF Types, Class
  <2>2. ASSUME NEW c \in Class
        PROVE  /\ cache_counter_alloc[c] \in 0..(CacheDepth - 1)
               /\ free_ring[c] \in Seq(Boxes!Index(c)) /\ Len(free_ring[c]) < CacheDepth
               /\ recycle_ring[c] \in Seq(Boxes!Index(c)) /\ Len(recycle_ring[c]) < CacheDepth
               /\ refill[c].exe_ptr \in Boxes!Bit /\ refill[c].buf \subseteq Boxes!Bit
               /\ refill[c].got < 2 * Boxes!Half
               /\ refill[c].cache \in [0..(CacheDepth - 1) -> Boxes!Index(c)]
    <3>1. /\ refill[c] \in Refills(c) /\ cache_counter_alloc[c] \in Slots
          /\ free_ring[c] \in Seq(Index(c)) /\ Len(free_ring[c]) < CacheDepth
          /\ recycle_ring[c] \in Seq(Index(c)) /\ Len(recycle_ring[c]) < CacheDepth
      BY <1>1 DEF Types, ClassTypes
    <3>2. /\ refill[c].exe_ptr \in Boxes!Bit /\ refill[c].buf \subseteq Boxes!Bit
          /\ refill[c].got \in Slots /\ refill[c].cache \in [Slots -> Index(c)]
      BY <3>1 DEF Refills
    <3>3. Slots = 0..(CacheDepth - 1) /\ CacheDepth = 2 * Boxes!Half /\ CacheDepth \in Nat
      BY SizesFit DEF Slots, Half
    <3>4. QED
      BY <3>1, <3>2, <3>3 DEF Index
  <2>3. QED
    BY <2>1, <2>2 DEF Boxes!TypeOK, Class
<1>3. Boxes!NoDoubleAlloc
  <2>1. SUFFICES ASSUME alloc_valid
                 PROVE  /\ alloc_pointer \notin held
                        /\ Boxes!Deciding => alloc_pointer # free_pointer_buf
                        /\ \A k \in 1..Len(free_ring[Boxes!ClassOf(alloc_pointer)]) :
                             alloc_pointer # Boxes!PointerTo(Boxes!ClassOf(alloc_pointer),
                                               free_ring[Boxes!ClassOf(alloc_pointer)][k])
    BY DEF Boxes!NoDoubleAlloc
  <2>2. PICK c \in Class : \E i \in Index(c) : alloc_pointer = PointerTo(c, i)
    BY <1>1, <2>1 DEF Types, IsBox
  <2>3. PICK i \in Index(c) : alloc_pointer = PointerTo(c, i)
    BY <2>2
  <2>4. i \in Offered(c) /\ Boxes!ClassOf(alloc_pointer) = c
    BY <2>1, <2>3, PointerFits DEF Offered
  <2>5. i \notin Held(c) /\ i \notin Freed(c) /\ i \notin Waiting(c) /\ Known(c) \subseteq Index(c)
    BY <1>1, <2>4 DEF Sound, Apart, Separate
  <2>6. alloc_pointer \notin held
    BY <2>3, <2>5 DEF Held
  <2>7. Boxes!Deciding => alloc_pointer # free_pointer_buf
    BY <2>3, <2>5 DEF Freed
  <2>8. ASSUME NEW k \in 1..Len(free_ring[c])
        PROVE  alloc_pointer # Boxes!PointerTo(c, free_ring[c][k])
    <3>1. free_ring[c][k] \in Waiting(c)
      BY DEF Waiting, Elements
    <3>2. free_ring[c][k] \in Index(c)
      BY <2>5, <3>1 DEF Known
    <3>3. QED
      BY <2>3, <2>5, <3>1, <3>2, SamePointer DEF PointerTo
  <2>9. QED
    BY <2>4, <2>6, <2>7, <2>8
<1>4. QED
  BY <1>2, <1>3

LEMMA InvUseIsMarked ==
  ASSUME BoxesInv
  PROVE  Boxes!UseIsMarked
<1>1. Types /\ \A c \in Class : Sound(c)
  BY DEF BoxesInv
<1>2. SUFFICES ASSUME NEW c \in Class, NEW p \in Boxes!InUse(c), Boxes!ClassOf(p) = c
               PROVE  Boxes!IndexOf(p) % MemoryWidth \in
                        Boxes!Marked(c, Boxes!IndexOf(p) \div MemoryWidth)
  BY DEF Boxes!UseIsMarked, Class
<1>3. Known(c) \subseteq Index(c) /\ Marks(c)
  BY <1>1 DEF Sound, Apart
<1>4. \/ p \in held
      \/ alloc_valid /\ p = alloc_pointer
      \/ Boxes!Deciding /\ p = free_pointer_buf
      \/ \E k \in 1..Len(free_ring[c]) : p = PointerTo(c, free_ring[c][k])
  BY DEF Boxes!InUse, PointerTo
<1>5. Boxes!IndexOf(p) \in Known(c)
  <2>1. CASE \/ p \in held
             \/ alloc_valid /\ p = alloc_pointer
             \/ Boxes!Deciding /\ p = free_pointer_buf
    <3>1. IsBox(p)
      BY <1>1, <2>1 DEF Types
    <3>2. PICK d \in Class : \E i \in Index(d) : p = PointerTo(d, i)
      BY <3>1 DEF IsBox
    <3>3. PICK i \in Index(d) : p = PointerTo(d, i)
      BY <3>2
    <3>4. d = c /\ Boxes!IndexOf(p) = i
      BY <1>2, <3>3, PointerFits
    <3>5. i \in Held(c) \/ i \in Offered(c) \/ i \in Freed(c)
      BY <2>1, <3>3, <3>4 DEF Held, Offered, Freed
    <3>6. QED
      BY <3>4, <3>5 DEF Known
  <2>2. CASE \E k \in 1..Len(free_ring[c]) : p = PointerTo(c, free_ring[c][k])
    <3>1. PICK k \in 1..Len(free_ring[c]) : p = PointerTo(c, free_ring[c][k])
      BY <2>2
    <3>2. free_ring[c][k] \in Known(c)
      BY DEF Known, Waiting, Elements
    <3>3. QED
      BY <1>3, <3>1, <3>2, PointerFits
  <2>3. QED
    BY <1>4, <2>1, <2>2
<1>6. QED
  BY <1>3, <1>5 DEF Marks

LEMMA InvAnswerOnTime ==
  ASSUME BoxesInv
  PROVE  Boxes!AnswerOnTime
<1>1. SUFFICES ASSUME alloc_state = "ST_ALLOC_DECIDE", free_ring[in_class] = <<>>
               PROVE  Boxes!SlotReady(in_class)
  BY DEF Boxes!AnswerOnTime
<1>2. PICK c : c = in_class
  OBVIOUS
<1>3. c \in Class /\ Sound(c) /\ refill[c].ready /\ Waits(c)
  BY <1>1, <1>2 DEF BoxesInv, Types, Client, Waits
<1>4. Paced(c) /\ Started(c) /\ Boxes!Quiet(c) /\ ~Full(c) /\ Turn(c)
  BY <1>1, <1>2, <1>3 DEF Sound, Paced
<1>5. Half \in Nat /\ Half >= 2 /\ CacheDepth = 2 * Half
  BY SizesFit
<1>6. CASE refill[c].state = "ST_ALLOC_RECYCLE_BEGIN"
  <2>1. ~Refilling(c)
    BY <1>6 DEF Refilling
  <2>2. refill[c].front_ready /\ refill[c].back_ready
    BY <1>4, <2>1 DEF Turn
  <2>3. QED
    BY <1>2, <2>2 DEF Boxes!SlotReady
<1>7. CASE refill[c].state = "ST_ALLOC_RECYCLE_EXE" /\ cache_counter_alloc[c] = CacheDepth - 1
  <2>1. Refilling(c) /\ Paused(c)
    BY <1>4, <1>7 DEF Refilling, Paused
  <2>2. refill[c].back_ready
    BY <1>4, <2>1 DEF Turn
  <2>3. ~(cache_counter_alloc[c] < Boxes!Half)
    BY <1>5, <1>7 DEF Half
  <2>4. QED
    BY <1>2, <2>2, <2>3 DEF Boxes!SlotReady
<1>8. QED
  BY <1>4, <1>6, <1>7 DEF Boxes!Quiet

LEMMA InvUnchanged ==
  ASSUME UNCHANGED allocVars
  PROVE  BoxesInv' = BoxesInv
<1> USE DEF allocVars, Class, Boxes!Class
<1>1. ASSUME NEW c
      PROVE  /\ Started(c)' = Started(c) /\ Refilling(c)' = Refilling(c) /\ Full(c)' = Full(c)
             /\ Paused(c)' = Paused(c) /\ Renewed(c)' = Renewed(c) /\ Idle(c)' = Idle(c)
             /\ Loading(c)' = Loading(c) /\ Boxes!Deciding' = Boxes!Deciding
             /\ Waits(c)' = Waits(c) /\ Boxes!Quiet(c)' = Boxes!Quiet(c)
  BY DEF Started, Refilling, Full, Paused, Renewed, Idle, Loading, Boxes!Deciding, Waits,
         Boxes!Quiet, Boxes!Half
<1>2. ASSUME NEW c
      PROVE  Unused(c)' = Unused(c)
  BY <1>1 DEF Unused, Slots, Half, Boxes!Half
<1>3. ASSUME NEW c
      PROVE  Known(c)' = Known(c) /\ Separate(Held(c), Offered(c), Freed(c), Waiting(c),
                                              Recycled(c), AtWork(c), Fresh(c))'
               = Separate(Held(c), Offered(c), Freed(c), Waiting(c), Recycled(c), AtWork(c), Fresh(c))
  <2>1. /\ Held(c)' = Held(c) /\ Offered(c)' = Offered(c) /\ Freed(c)' = Freed(c)
        /\ AtWork(c)' = AtWork(c)
    BY <1>1 DEF Held, Offered, Freed, AtWork, Index, PointerTo
  <2>2. Waiting(c)' = Waiting(c) /\ Recycled(c)' = Recycled(c)
    BY DEF Waiting, Recycled, Elements
  <2>3. Fresh(c)' = Fresh(c)
    BY <1>2 DEF Fresh
  <2>4. QED
    BY <2>1, <2>2, <2>3 DEF Known, Separate
<1>4. ASSUME NEW c
      PROVE  Apart(c)' = Apart(c)
  BY <1>2, <1>3 DEF Apart, NoneTwice, Distinct, Index
<1>5. ASSUME NEW c
      PROVE  Paced(c)' = Paced(c) /\ Registers(c)' = Registers(c)
  BY <1>1 DEF Paced, Registers
<1>6. ASSUME NEW c
      PROVE  Turn(c)' = Turn(c)
  BY <1>1 DEF Turn, Half
<1>7. ASSUME NEW c
      PROVE  Shape(c)' = Shape(c)
  BY <1>1 DEF Shape, BegunTo, Begun, Multiple, Words
<1>8. ASSUME NEW c
      PROVE  Marks(c)' = Marks(c) /\ Return(c)' = Return(c)
  BY <1>1, <1>3 DEF Marks, Return, Boxes!Marked
<1>9. \A c : Sound(c)' = Sound(c)
  BY <1>1, <1>4, <1>5, <1>6, <1>7, <1>8 DEF Sound
<1>10. Types' = Types
  <2>1. \A p : IsBox(p)' = IsBox(p)
    BY DEF IsBox, Index, PointerTo
  <2>2. ASSUME NEW c
        PROVE  ClassTypes(c)' = ClassTypes(c)
    BY DEF ClassTypes, Refills, Recycles, Words, Index, Slots
  <2>3. Boxes!Pointer' = Boxes!Pointer
    BY DEF Boxes!Pointer
  <2>4. QED
    BY <1>1, <2>1, <2>2, <2>3 DEF Types
<1>11. Client' = Client
  BY <1>1 DEF Client
<1>12. QED
  BY <1>9, <1>10, <1>11 DEF BoxesInv

LEMMA PartOfBoxes ==
  ASSUME part = "boxes" => BoxesInv, [MCNext]_MCVars
  PROVE  (part = "boxes" => BoxesInv)'
<1>1. SUFFICES ASSUME part' = "boxes"
               PROVE  BoxesInv'
  OBVIOUS
<1>2. CASE Allocates(Boxes!Next)
  <2>1. BoxesInv /\ Boxes!Next
    BY <1>2 DEF Allocates
  <2>2. PICK ready \in BOOLEAN : Boxes!Cycle(ready)
    BY <2>1 DEF Boxes!Next
  <2>3. PICK request \in Boxes!Requests, free \in Boxes!Frees :
          Boxes!Clock(request, ready /\ alloc_busy, free)
    BY <2>2 DEF Boxes!Cycle
  <2>4. (ready /\ alloc_busy) \in BOOLEAN
    OBVIOUS
  <2>5. Step(request, ready /\ alloc_busy, free)
    BY <2>3, <2>4 DEF Step
  <2>6. QED
    BY <2>1, <2>5, InvMoves
<1>3. CASE UNCHANGED MCVars
  <2>1. UNCHANGED <<part, allocVars>> /\ BoxesInv
    BY <1>1, <1>3 DEF MCVars
  <2>2. BoxesInv' = BoxesInv
    BY <2>1, InvUnchanged
  <2>3. QED
    BY <2>1, <2>2
<1>4. CASE part = "table" /\ Next /\ UNCHANGED <<part, allocVars>>
  BY <1>1, <1>4
<1>5. QED
  BY <1>2, <1>3, <1>4 DEF MCNext

\* A box of the value memory is in one place only: the box that is offered is
\* not in use, not being freed and not in the ring of freed boxes (alloc.sv);
\* and every register keeps its range.
THEOREM StorageNoDoubleAlloc == MCSpec => []NoDoubleAlloc
<1>1. MCInit => (part = "boxes" => BoxesInv)
  BY InvAtFirst DEF MCInit
<1>2. (part = "boxes" => BoxesInv) /\ [MCNext]_MCVars => (part = "boxes" => BoxesInv)'
  BY PartOfBoxes
<1>3. (part = "boxes" => BoxesInv) => NoDoubleAlloc
  BY InvNoDouble DEF NoDoubleAlloc
<1>4. QED
  BY <1>1, <1>2, <1>3, PTL DEF MCSpec

\* The bit map knows every box in use (alloc.sv), so that no later pass of the
\* refill finds it free.
THEOREM StorageUseIsMarked == MCSpec => []UseIsMarked
<1>1. MCInit => (part = "boxes" => BoxesInv)
  BY InvAtFirst DEF MCInit
<1>2. (part = "boxes" => BoxesInv) /\ [MCNext]_MCVars => (part = "boxes" => BoxesInv)'
  BY PartOfBoxes
<1>3. (part = "boxes" => BoxesInv) => UseIsMarked
  BY InvUseIsMarked DEF UseIsMarked
<1>4. QED
  BY <1>1, <1>2, <1>3, PTL DEF MCSpec

\* The answer to a request is there when front_end_transit.sv looks for it.
THEOREM StorageAnswerOnTime == MCSpec => []AnswerOnTime
<1>1. MCInit => (part = "boxes" => BoxesInv)
  BY InvAtFirst DEF MCInit
<1>2. (part = "boxes" => BoxesInv) /\ [MCNext]_MCVars => (part = "boxes" => BoxesInv)'
  BY PartOfBoxes
<1>3. (part = "boxes" => BoxesInv) => AnswerOnTime
  BY InvAnswerOnTime DEF AnswerOnTime
<1>4. QED
  BY <1>1, <1>2, <1>3, PTL DEF MCSpec
=============================================================================
