----------------------------- MODULE MCPrograms -----------------------------
(* The programs whose profiles TLC explores. *)
EXTENDS ProfilerTimes

CONSTANTS f1, f2, f3, main, each, foo

InMethod(k) == [method |-> k, kind |-> "method"]
InBlock(k)  == [method |-> k, kind |-> "block"]

(* f1 has the given stack; other fibers run a block of main. *)
HomeOf(stack) == [f \in Fibers |-> IF f = f1 THEN stack ELSE <<InBlock(main)>>]

(* f1 is in foo, called by main. *)
HomeDeep == HomeOf(<<InMethod(main), InMethod(foo)>>)

(* f1 is in main and nothing below it on the stack is modelled. *)
HomeMain == HomeOf(<<InMethod(main)>>)
=============================================================================
