SPECIFICATION LiveSpec
CONSTANT N = 4
INVARIANTS NoLostRequest OneTurnEach
PROPERTIES FirstComeFirstServed EveryRequestServed
VIEW LiveState
