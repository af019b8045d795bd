------------------------------ MODULE GrowStack ------------------------------
(***************************************************************************)
(* The growing arrays under a fiber's stack of frames (prof_stack_t) and   *)
(* under a method's list of call trees (prof_call_trees_t). Both keep      *)
(* pointers to the start, the end and the next free element of a block of  *)
(* memory, and when it is full let realloc move it to one twice as large.  *)
(*                                                                         *)
(* A pointer is a block and a place in it; elements are read and written   *)
(* through pointers only, and a write outside of allocated memory is lost. *)
(***************************************************************************)
EXTENDS Integers, Sequences

CONSTANTS
  Stacks,         \* arrays of frames
  Lists,          \* arrays of call trees
  Blocks,         \* places memory can be allocated at
  Value,          \* what an element can hold
  Garbage,        \* the contents of memory not written to
  InitialSize,    \* the size of a new array
  MaxLength       \* bound: how many elements an array can hold

Arrays == Stacks \cup Lists
Cell == Value \cup {Garbage}

ASSUME GrowStackAssumption ==
  /\ Stacks \cap Lists = {}
  /\ Garbage \notin Value
  /\ InitialSize \in Nat \ {0}

VARIABLES
  memory,         \* block -> its elements, none where nothing is allocated
  array           \* the arrays that exist: name -> start, end and ptr

vars == <<memory, array>>

-----------------------------------------------------------------------------
(* Memory. *)

Pointer == [block : Blocks, at : Nat]
Array == [start : Pointer, end : Pointer, ptr : Pointer]

To(b, i) == [block |-> b, at |-> i]
Plus(p, n) == To(p.block, p.at + n)

Unused == {b \in Blocks : memory[b] = <<>>}
Unwritten(n) == [i \in 1..n |-> Garbage]

(* The block that realloc returns may be the one it is given. *)
Realloc(b, c, size) ==
  [d \in Blocks |->
     IF d = c THEN memory[b] \o Unwritten(size - Len(memory[b]))
     ELSE IF d = b THEN <<>> ELSE memory[d]]

Store(mem, p, v) ==
  IF p.at + 1 \in DOMAIN mem[p.block]
  THEN [mem EXCEPT ![p.block][p.at + 1] = v]
  ELSE mem

-----------------------------------------------------------------------------
(* The operations. A result is memory and the array's pointers.            *)

Size(a) == a.end.at - a.start.at
Length(a) == a.ptr.at - a.start.at

(* Mutant: ptr and end still point into the memory that was moved. *)
StalePointers(a, b) == [a EXCEPT !.start = To(b, 0)]

(* Memory just got moved, reset pointers. *)
ResetPointers(a, b) ==
  [start |-> To(b, 0), ptr |-> To(b, Length(a)), end |-> To(b, 2 * Size(a))]

(* Mutant: full one element too late. *)
VerifiedTooLate(s) ==
  LET a == array[s] IN
  IF a.ptr.at <= a.end.at
  THEN {[mem |-> memory, arr |-> a]}
  ELSE {[mem |-> Realloc(a.start.block, b, 2 * Size(a)), arr |-> ResetPointers(a, b)] :
          b \in Unused \cup {a.start.block}}

prof_stack_verify_size(s) ==
  LET a == array[s] IN
  IF a.ptr # a.end
  THEN {[mem |-> memory, arr |-> a]}
  ELSE {[mem |-> Realloc(a.start.block, b, 2 * Size(a)), arr |-> ResetPointers(a, b)] :
          b \in Unused \cup {a.start.block}}

(* The frame before ptr, or before the last, is written to if there is one. *)
StoreLast(mem, a, v) == IF a.ptr = a.start THEN mem ELSE Store(mem, Plus(a.ptr, -1), v)

Create(s) ==
  /\ s \notin DOMAIN array
  /\ \E b \in Unused :
       /\ memory' = [memory EXCEPT ![b] = Unwritten(InitialSize)]
       /\ array' = [t \in DOMAIN array \cup {s} |->
                      IF t = s THEN [start |-> To(b, 0), end |-> To(b, InitialSize),
                                     ptr |-> To(b, 0)]
                      ELSE array[t]]

(* Mutant: the new frame is written to after ptr has moved on. *)
PushPastPtr(s, v, w) ==
  /\ s \in DOMAIN array \cap Stacks /\ Length(array[s]) < MaxLength
  /\ \E r \in prof_stack_verify_size(s) :
       /\ memory' = Store(StoreLast(r.mem, r.arr, w), Plus(r.arr.ptr, 1), v)
       /\ array' = [array EXCEPT ![s] = [r.arr EXCEPT !.ptr = Plus(r.arr.ptr, 1)]]

(* A frame is pushed; the frame below it may be unpaused. *)
prof_frame_push(s, v, w) ==
  /\ s \in DOMAIN array \cap Stacks /\ Length(array[s]) < MaxLength
  /\ \E r \in prof_stack_verify_size(s) :
       /\ memory' = Store(StoreLast(r.mem, r.arr, w), r.arr.ptr, v)
       /\ array' = [array EXCEPT ![s] = [r.arr EXCEPT !.ptr = Plus(r.arr.ptr, 1)]]

(* A call tree is added to the list of its method. *)
prof_add_call_tree(s, v) ==
  /\ s \in DOMAIN array \cap Lists /\ Length(array[s]) < MaxLength
  /\ \E r \in prof_stack_verify_size(s) :
       /\ memory' = Store(r.mem, r.arr.ptr, v)
       /\ array' = [array EXCEPT ![s] = [r.arr EXCEPT !.ptr = Plus(r.arr.ptr, 1)]]

(* Mutant: ptr is moved below start. *)
PopUnchecked(s, w) ==
  /\ s \in DOMAIN array \cap Stacks
  /\ LET a == [array[s] EXCEPT !.ptr = Plus(array[s].ptr, -1)] IN
       /\ memory' = StoreLast(memory, a, w)
       /\ array' = [array EXCEPT ![s] = a]

(* A frame is popped, its times are added to the one below it. *)
prof_frame_pop(s, w) ==
  /\ s \in DOMAIN array \cap Stacks /\ array[s].ptr # array[s].start
  /\ LET a == [array[s] EXCEPT !.ptr = Plus(array[s].ptr, -1)] IN
       /\ memory' = StoreLast(memory, a, w)
       /\ array' = [array EXCEPT ![s] = a]

(* The top frame is paused, unpaused or charged with a time. *)
prof_frame_current(s, w) ==
  /\ s \in DOMAIN array \cap Stacks
  /\ memory' = StoreLast(memory, array[s], w)
  /\ UNCHANGED array

prof_stack_free(s) ==
  /\ s \in DOMAIN array \cap Stacks
  /\ memory' = [memory EXCEPT ![array[s].start.block] = <<>>]
  /\ array' = [t \in DOMAIN array \ {s} |-> array[t]]

(* The list goes, the memory of its elements stays. *)
prof_call_trees_free(s) ==
  /\ s \in DOMAIN array \cap Lists
  /\ array' = [t \in DOMAIN array \ {s} |-> array[t]]
  /\ UNCHANGED memory

Init ==
  /\ memory = [b \in Blocks |-> <<>>]
  /\ array = <<>>

Next ==
  \E s \in Arrays :
    \/ Create(s)
    \/ prof_stack_free(s)
    \/ prof_call_trees_free(s)
    \/ \E v \in Value : \/ prof_add_call_tree(s, v)
                        \/ prof_frame_pop(s, v)
                        \/ prof_frame_current(s, v)
    \/ \E v, w \in Value : prof_frame_push(s, v, w)

Spec == Init /\ [][Next]_vars

-----------------------------------------------------------------------------
(* Properties. *)

(* Type invariant. *)
TypeOK ==
  /\ memory \in [Blocks -> Seq(Cell)]
  /\ DOMAIN array \subseteq Arrays
  /\ array \in [DOMAIN array -> Array]

(* The three pointers of an array are in one block, which is exactly as     *)
(* large as they say, and belongs to no other array                         *)
(* (rp_stack.c:41-54, rp_call_trees.c:134-141).                             *)
Fits(mem, a) ==
  /\ a.start.at = 0
  /\ a.ptr.block = a.start.block /\ a.end.block = a.start.block
  /\ a.ptr.at <= a.end.at /\ a.end.at > 0
  /\ a.end.at = Len(mem[a.start.block])

PointersFit ==
  \A s \in DOMAIN array :
    /\ Fits(memory, array[s])
    /\ \A t \in DOMAIN array \ {s} : array[t].start.block # array[s].start.block

(* The elements up to ptr have been written to. *)
Elements(mem, a) == [i \in 1..Length(a) |-> mem[a.start.block][i]]

ElementsWritten ==
  \A s \in DOMAIN array : Elements(memory, array[s]) \in Seq(Value)

(* Every array is a sequence, wherever its memory moves and whatever is    *)
(* written through pointers into it (rp_stack.c, rp_call_trees.c:132-144).  *)
Contents == [s \in DOMAIN array |-> Elements(memory, array[s])]

Abs == INSTANCE FrameSequences WITH seqs <- Contents

ImplementsSequences == Abs!Spec
=============================================================================
