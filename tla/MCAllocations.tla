--------------------------- MODULE MCAllocations ----------------------------
(* A file with main on its first line, then foo and bar, which call down   *)
(* the file, into themselves and into C. An object made by a block of main *)
(* or foo that bar runs is on a line above bar, but in bar's file.         *)
EXTENDS AllocationCounts, TLC

CONSTANTS main, foo, bar, each, rb, p1, p2

SourceFile ==
  (main :> [file |-> rb, first |-> 1, body |-> {}, calls |-> {foo}])
    @@ (foo :> [file |-> rb, first |-> 4, body |-> {5}, calls |-> {bar, each}])
    @@ (bar :> [file |-> rb, first |-> 7, body |-> {8}, calls |-> {bar}])

HomeMain == <<main>>

(* The slots of two classes, one after the other on a page of the heap.    *)
Slots == {40, 80}

Interchangeable == Permutations(Profiles)
=============================================================================
