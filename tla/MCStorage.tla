------------------------------ MODULE MCStorage ------------------------------
(***************************************************************************)
(* The hash table and the allocator of the value memory, side by side, of  *)
(* which a behaviour moves one: HashTable with three tables of two         *)
(* positions and keys that collide in some tables and not in others; Alloc *)
(* with two classes and a cache of four pointers, one class used heavily   *)
(* enough to reach the second word of its bit map.                         *)
(***************************************************************************)
EXTENDS HashTable, TLC

CONSTANTS ClassCount, CacheDepth, MemoryWidth, Depth, MaxHeld

VARIABLES
    part,
    alloc_state, in_class, req_ready, alloc_valid, alloc_pointer, cache_counter_alloc,
    clear_has_recycled, free_state, free_ready, free_pointer_buf, free_ring, recycle_ring,
    refill, recycle, bram, alloc_busy, held, overflowed     \* of Alloc

Boxes == INSTANCE Alloc
ASSUME BoxesAssumption == Boxes!AllocAssumption

MCKeys == {"k1", "k2", "k3"}
MCHash == (0 :> ("k1" :> 0 @@ "k2" :> 0 @@ "k3" :> 1)) @@ (1 :> ("k1" :> 1 @@ "k2" :> 0 @@ "k3" :> 1))
          @@ (2 :> ("k1" :> 1 @@ "k2" :> 1 @@ "k3" :> 1))
MCHeld == (0 :> 5) @@ (1 :> 1)

allocVars ==
    <<alloc_state, in_class, req_ready, alloc_valid, alloc_pointer, cache_counter_alloc,
      clear_has_recycled, free_state, free_ready, free_pointer_buf, free_ring, recycle_ring,
      refill, recycle, bram, alloc_busy, held, overflowed>>
MCVars == <<vars, part, allocVars>>

MCInit == Init /\ Boxes!Init /\ part \in {"table", "boxes"}

Allocates(A) == part = "boxes" /\ A /\ UNCHANGED <<part, vars>>

MCNext ==
    \/ part = "table" /\ Next /\ UNCHANGED <<part, allocVars>>
    \/ Allocates(Boxes!Next)

\* The fairness of Boxes!LiveSpec.
MCFairness ==
    []<><<Allocates(Boxes!Cycle(TRUE))>>_MCVars \/ []<>~ENABLED <<Allocates(Boxes!Pause)>>_MCVars

MCSpec == MCInit /\ [][MCNext]_MCVars /\ MCFairness

MCView == <<part, vars, IF part = "boxes" THEN Boxes!LiveState ELSE <<>>>>

\* Those of Alloc, NoDoubleAlloc with the type invariant.
NoDoubleAlloc == part = "boxes" => Boxes!TypeOK /\ Boxes!NoDoubleAlloc
UseIsMarked == part = "boxes" => Boxes!UseIsMarked
AnswerOnTime == part = "boxes" => Boxes!AnswerOnTime
\* Its RequestAnswered and FreeTaken.
NobodyWaits ==
    /\ part = "boxes" /\ alloc_busy ~> ~alloc_busy
    /\ []<>(part = "boxes" => free_ready)
=============================================================================
