------------------------------ MODULE KVStore ------------------------------
(***************************************************************************)
(* What the hash table of the card promises its clients: a store of values *)
(* per key.  It is weaker than a map in two ways the code accepts.  An     *)
(* insert does not replace: a key inserted twice has both values until it  *)
(* is deleted, and a lookup answers with either.  An insert that fails may *)
(* have stored its value all the same, at the price of one stored value,   *)
(* of any key.                                                             *)
(***************************************************************************)
EXTENDS Integers

CONSTANTS Keys, Values, CountMod        \* CountMod: 2^16

VARIABLES
    stored,             \* the values of each key
    failures,           \* the number of failed inserts, modulo CountMod
    upd_rsp, lup_rsp    \* the last answers

vars == <<stored, failures, upd_rsp, lup_rsp>>

With(key, value) == [stored EXCEPT ![key] = @ \cup {value}]

InsertOK(key, value) ==
    /\ stored' = With(key, value)
    /\ upd_rsp' = [op |-> "KV_INSERT", key |-> key, value |-> value, success |-> TRUE]
    /\ UNCHANGED <<failures, lup_rsp>>

InsertFails(key, value) ==
    /\ \/ stored' = With(key, value)
       \/ \E k \in Keys, v \in Values : stored' = [With(key, value) EXCEPT ![k] = @ \ {v}]
    /\ upd_rsp' = [op |-> "KV_INSERT", key |-> key, value |-> value, success |-> FALSE]
    /\ failures' = (failures + 1) % CountMod
    /\ UNCHANGED lup_rsp

DeleteAnswers(key) ==
    IF stored[key] = {} THEN {[op |-> "KV_DELETE", key |-> key, value |-> 0, success |-> FALSE]}
    ELSE {[op |-> "KV_DELETE", key |-> key, value |-> v, success |-> TRUE] : v \in stored[key]}
Delete(key) ==
    /\ stored' = [stored EXCEPT ![key] = {}]
    /\ upd_rsp' \in DeleteAnswers(key)
    /\ UNCHANGED <<failures, lup_rsp>>

LookupAnswers(key) ==
    IF stored[key] = {} THEN {[op |-> "lookup", key |-> key, hit |-> FALSE]}
    ELSE {[op |-> "lookup", key |-> key, hit |-> TRUE, value |-> v] : v \in stored[key]}
Lookup(key) ==
    /\ lup_rsp' \in LookupAnswers(key)
    /\ UNCHANGED <<stored, failures, upd_rsp>>

Init == stored = [k \in Keys |-> {}] /\ failures = 0

Next ==
    \/ \E key \in Keys, value \in Values : InsertOK(key, value) \/ InsertFails(key, value)
    \/ \E key \in Keys : Delete(key)
    \/ \E key \in Keys : Lookup(key)

Spec == Init /\ [][Next]_vars
=============================================================================
