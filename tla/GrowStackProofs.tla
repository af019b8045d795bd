--------------------------- MODULE GrowStackProofs ---------------------------
(***************************************************************************)
(* The growing arrays of GrowStack are sequences: proofs of its type       *)
(* invariant, of what its pointers point to, and of the refinement.        *)
(***************************************************************************)
EXTENDS GrowStack, TLAPS

Memory == [Blocks -> Seq(Cell)]

(* What holds between two operations. *)
GInv == TypeOK /\ PointersFit /\ ElementsWritten

-----------------------------------------------------------------------------
(* Writing through a pointer.                                              *)

(* A write keeps types and lengths and touches one block. *)
LEMMA StoreKeeps ==
  ASSUME NEW mem \in Memory, NEW b \in Blocks, NEW i \in Int, NEW v \in Cell
  PROVE  /\ Store(mem, To(b, i), v) \in Memory
         /\ \A d \in Blocks : Len(Store(mem, To(b, i), v)[d]) = Len(mem[d])
         /\ \A d \in Blocks \ {b} : Store(mem, To(b, i), v)[d] = mem[d]
         /\ \A j \in 1..Len(mem[b]) :
              Store(mem, To(b, i), v)[b][j] = IF j = i + 1 THEN v ELSE mem[b][j]
<1>1. CASE i + 1 \in DOMAIN mem[b]
  <2> DEFINE seq == [mem[b] EXCEPT ![i + 1] = v]
  <2>1. mem[b] \in Seq(Cell)
    BY DEF Memory
  <2>2. seq \in Seq(Cell) /\ Len(seq) = Len(mem[b])
    BY <1>1, <2>1
  <2>3. \A j \in 1..Len(mem[b]) : seq[j] = IF j = i + 1 THEN v ELSE mem[b][j]
    BY <1>1, <2>1
  <2>4. Store(mem, To(b, i), v) = [mem EXCEPT ![b] = seq]
    BY <1>1 DEF Store, To
  <2> HIDE DEF seq
  <2> QED
    BY <2>2, <2>3, <2>4 DEF Memory
<1>2. CASE i + 1 \notin DOMAIN mem[b]
  <2>1. Store(mem, To(b, i), v) = mem
    BY <1>2 DEF Store, To
  <2>2. mem[b] \in Seq(Cell)
    BY DEF Memory
  <2>3. \A j \in 1..Len(mem[b]) : j # i + 1
    BY <1>2, <2>2
  <2> QED
    BY <2>1, <2>3
<1> QED
  BY <1>1, <1>2

(* Writing to the last element of an array writes to the last element of   *)
(* its sequence.                                                           *)
LEMMA StoreLastElements ==
  ASSUME NEW mem \in Memory, NEW a \in Array, Fits(mem, a), NEW w \in Value
  PROVE  /\ StoreLast(mem, a, w) \in Memory
         /\ Fits(StoreLast(mem, a, w), a)
         /\ \A d \in Blocks \ {a.start.block} : StoreLast(mem, a, w)[d] = mem[d]
         /\ Elements(StoreLast(mem, a, w), a) = Abs!LastSet(Elements(mem, a), w)
<1> DEFINE b == a.start.block
           n == a.ptr.at
<1>1. /\ b \in Blocks /\ n \in Nat /\ a.ptr = To(b, n) /\ a.start = To(b, 0)
      /\ Length(a) = n /\ n <= Len(mem[b]) /\ mem[b] \in Seq(Cell)
  BY DEF Array, Pointer, Fits, To, Length, Memory
<1>2. CASE n = 0
  <2>1. StoreLast(mem, a, w) = mem
    BY <1>1, <1>2 DEF StoreLast
  <2>2. Elements(mem, a) = <<>>
    BY <1>1, <1>2 DEF Elements
  <2> QED
    BY <2>1, <2>2 DEF Abs!LastSet
<1>3. CASE n # 0
  <2>1. StoreLast(mem, a, w) = Store(mem, To(b, n - 1), w)
    BY <1>1, <1>3 DEF StoreLast, Plus, To
  <2> DEFINE m == StoreLast(mem, a, w)
  <2>2. w \in Cell /\ n - 1 \in Int
    BY <1>1 DEF Cell
  <2>3. /\ m \in Memory
        /\ \A d \in Blocks : Len(m[d]) = Len(mem[d])
        /\ \A d \in Blocks \ {b} : m[d] = mem[d]
        /\ \A j \in 1..Len(mem[b]) : m[b][j] = IF j = (n - 1) + 1 THEN w ELSE mem[b][j]
    BY <1>1, <2>1, <2>2, StoreKeeps
  <2>4. Fits(m, a)
    BY <1>1, <2>3 DEF Fits
  <2> DEFINE seq == Elements(mem, a)
  <2> HIDE DEF m, b, n
  <2>5. /\ seq = [i \in 1..n |-> mem[b][i]]
        /\ Elements(m, a) = [i \in 1..n |-> m[b][i]]
    BY <1>1 DEF Elements, b
  <2>6. seq # <<>> /\ Len(seq) = n /\ seq \in Seq(Cell)
    BY <1>1, <1>3, <2>5
  <2>7. \A i \in 1..n : m[b][i] = IF i = n THEN w ELSE mem[b][i]
    BY <1>1, <2>3
  <2>8. [seq EXCEPT ![n] = w] = [i \in 1..n |-> IF i = n THEN w ELSE mem[b][i]]
    BY <1>1, <2>5
  <2>9. Elements(m, a) = [seq EXCEPT ![n] = w]
    BY <2>5, <2>7, <2>8
  <2> QED
    BY <2>3, <2>4, <2>6, <2>9 DEF Abs!LastSet, m, b
<1> QED
  BY <1>2, <1>3

(* Writing to the element at ptr and moving ptr on appends to the sequence. *)
LEMMA StoreNextElements ==
  ASSUME NEW mem \in Memory, NEW a \in Array, Fits(mem, a), NEW v \in Value,
         a.ptr.at < a.end.at
  PROVE  LET m == Store(mem, a.ptr, v)
             next == [a EXCEPT !.ptr = Plus(a.ptr, 1)]
         IN /\ m \in Memory /\ next \in Array
            /\ Fits(m, next)
            /\ \A d \in Blocks \ {a.start.block} : m[d] = mem[d]
            /\ Elements(m, next) = Append(Elements(mem, a), v)
<1> DEFINE b == a.start.block
           n == a.ptr.at
           m == Store(mem, a.ptr, v)
           next == [a EXCEPT !.ptr = Plus(a.ptr, 1)]
<1>1. /\ b \in Blocks /\ n \in Nat /\ a.ptr = To(b, n) /\ a.start = To(b, 0)
      /\ Length(a) = n /\ n < Len(mem[b]) /\ mem[b] \in Seq(Cell)
  BY DEF Array, Pointer, Fits, To, Length, Memory
<1>2. /\ next \in Array /\ next.ptr = To(b, n + 1) /\ next.start = a.start
      /\ next.end = a.end /\ Length(next) = n + 1
  BY <1>1 DEF Array, Pointer, To, Plus, Length
<1>3. v \in Cell /\ n \in Int
  BY <1>1 DEF Cell
<1>4. /\ m \in Memory
      /\ \A d \in Blocks : Len(m[d]) = Len(mem[d])
      /\ \A d \in Blocks \ {b} : m[d] = mem[d]
      /\ \A j \in 1..Len(mem[b]) : m[b][j] = IF j = n + 1 THEN v ELSE mem[b][j]
  BY <1>1, <1>3, StoreKeeps
<1>5. Fits(m, next)
  BY <1>1, <1>2, <1>4 DEF Fits, To
<1>6. Elements(m, next) = Append(Elements(mem, a), v)
  <2> HIDE DEF m
  <2>1. Elements(m, next) = [i \in 1..(n + 1) |-> m[b][i]]
    BY <1>2 DEF Elements
  <2>2. Elements(mem, a) = [i \in 1..n |-> mem[b][i]]
    BY <1>1 DEF Elements
  <2>3. Append(Elements(mem, a), v) =
          [i \in 1..(n + 1) |-> IF i = n + 1 THEN v ELSE mem[b][i]]
    BY <1>1, <2>2
  <2>4. \A i \in 1..(n + 1) : m[b][i] = IF i = n + 1 THEN v ELSE mem[b][i]
    BY <1>1, <1>4
  <2> QED
    BY <2>1, <2>3, <2>4
<1> QED
  BY <1>2, <1>4, <1>5, <1>6

-----------------------------------------------------------------------------
(* Making room and replacing an array.                                     *)

(* A sequence followed by one as long. *)
LEMMA TwiceAsLong ==
  ASSUME NEW p \in Seq(Cell), NEW q \in Seq(Cell), NEW n \in Nat, Len(p) = n, Len(q) = n
  PROVE  /\ p \o q \in Seq(Cell) /\ Len(p \o q) = 2 * n
         /\ \A i \in 1..n : (p \o q)[i] = p[i]
OBVIOUS

(* After the size was verified there is room for an element, the elements  *)
(* are the same, and no other array is touched.                            *)
LEMMA VerifyMakesRoom ==
  ASSUME GInv, NEW s \in DOMAIN array, NEW r \in prof_stack_verify_size(s)
  PROVE  /\ r.mem \in Memory /\ r.arr \in Array
         /\ Fits(r.mem, r.arr) /\ r.arr.ptr.at < r.arr.end.at
         /\ Elements(r.mem, r.arr) = Elements(memory, array[s])
         /\ \A t \in DOMAIN array \ {s} :
              /\ array[t].start.block # r.arr.start.block
              /\ r.mem[array[t].start.block] = memory[array[t].start.block]
<1> DEFINE a == array[s]
           b == a.start.block
           n == a.ptr.at
           size == a.end.at
<1>1. /\ a \in Array /\ Fits(memory, a) /\ memory \in Memory
      /\ \A t \in DOMAIN array : array[t] \in Array /\ Fits(memory, array[t])
      /\ \A t \in DOMAIN array \ {s} : array[t].start.block # b
  BY DEF GInv, TypeOK, PointersFit, Memory
<1>2. /\ b \in Blocks /\ n \in Nat /\ size \in Nat /\ a.ptr = To(b, n)
      /\ a.start = To(b, 0) /\ a.end = To(b, size)
      /\ Length(a) = n /\ Size(a) = size /\ size > 0 /\ n <= size
      /\ size = Len(memory[b]) /\ memory[b] \in Seq(Cell)
  BY <1>1 DEF Array, Pointer, Fits, To, Length, Size, Memory
<1>3. CASE a.ptr # a.end
  <2>1. r.mem = memory /\ r.arr = a
    BY <1>3 DEF prof_stack_verify_size
  <2>2. n # size
    BY <1>2, <1>3
  <2> QED
    BY <1>1, <1>2, <2>1, <2>2
<1>4. CASE a.ptr = a.end
  <2>1. PICK c \in Unused \cup {b} :
          r = [mem |-> Realloc(b, c, 2 * Size(a)), arr |-> ResetPointers(a, c)]
    BY <1>4 DEF prof_stack_verify_size
  <2> DEFINE m == r.mem
             seq == memory[b] \o Unwritten(size)
  <2>2. c \in Blocks /\ (c # b => memory[c] = <<>>)
    BY <1>2, <2>1 DEF Unused
  <2>3. n = size
    BY <1>2, <1>4 DEF To
  <2>4. m = [d \in Blocks |-> IF d = c THEN seq ELSE IF d = b THEN <<>> ELSE memory[d]]
    BY <1>2, <2>1 DEF Realloc
  <2>5. /\ r.arr.start = To(c, 0) /\ r.arr.ptr = To(c, n) /\ r.arr.end = To(c, 2 * size)
        /\ r.arr \in Array
    <3>1. r.arr = [start |-> To(c, 0), ptr |-> To(c, n), end |-> To(c, 2 * size)]
      BY <1>2, <2>1 DEF ResetPointers
    <3>2. n \in Nat /\ 2 * size \in Nat
      BY <1>2
    <3>3. To(c, 0) \in Pointer /\ To(c, n) \in Pointer /\ To(c, 2 * size) \in Pointer
      BY <2>2, <3>2 DEF Pointer, To
    <3> QED
      BY <3>1, <3>3 DEF Array
  <2>6. Unwritten(size) \in Seq(Cell) /\ Len(Unwritten(size)) = size
    BY <1>2 DEF Unwritten, Cell
  <2>7. /\ seq \in Seq(Cell) /\ Len(seq) = 2 * size
        /\ \A i \in 1..size : seq[i] = memory[b][i]
    BY <1>2, <2>6, TwiceAsLong
  <2> HIDE DEF seq, m
  <2>8. m \in Memory /\ m[c] = seq
    BY <1>1, <2>2, <2>4, <2>7 DEF Memory
  <2>9. Fits(m, r.arr)
    <3>1. /\ r.arr.start.at = 0 /\ r.arr.start.block = c
          /\ r.arr.ptr.at = n /\ r.arr.ptr.block = c
          /\ r.arr.end.at = 2 * size /\ r.arr.end.block = c
      BY <2>5 DEF To
    <3>2. n <= 2 * size /\ 2 * size > 0
      BY <1>2
    <3> QED
      BY <2>7, <2>8, <3>1, <3>2 DEF Fits
  <2>10. Elements(m, r.arr) = Elements(memory, a)
    <3>1. Length(r.arr) = n
      BY <1>2, <2>5 DEF Length, To
    <3>2. Elements(m, r.arr) = [i \in 1..n |-> seq[i]]
      BY <2>5, <2>8, <3>1 DEF Elements, To
    <3>3. Elements(memory, a) = [i \in 1..n |-> memory[b][i]]
      BY <1>2 DEF Elements
    <3> QED
      BY <2>3, <2>7, <3>2, <3>3
  <2>11. ASSUME NEW t \in DOMAIN array \ {s}
         PROVE  /\ array[t].start.block # c
                /\ m[array[t].start.block] = memory[array[t].start.block]
    <3>1. /\ array[t].start.block \in Blocks /\ array[t].start.block # b
          /\ Len(memory[array[t].start.block]) > 0
      BY <1>1 DEF Array, Pointer, Fits
    <3>2. array[t].start.block # c
      BY <2>2, <3>1
    <3> QED
      BY <2>4, <3>1, <3>2
  <2>12. r.arr.ptr.at < r.arr.end.at
    BY <1>2, <2>3, <2>5 DEF To
  <2>13. r.arr.start.block = c
    BY <2>5 DEF To
  <2> QED
    BY <2>5, <2>8, <2>9, <2>10, <2>11, <2>12, <2>13 DEF m
<1> QED
  BY <1>3, <1>4

(* An array is replaced by one in memory that no other array uses. *)
LEMMA Replaced ==
  ASSUME GInv, NEW s \in DOMAIN array, NEW mem \in Memory, NEW a \in Array,
         Fits(mem, a), Elements(mem, a) \in Seq(Value),
         \A t \in DOMAIN array \ {s} :
           /\ array[t].start.block # a.start.block
           /\ mem[array[t].start.block] = memory[array[t].start.block],
         memory' = mem, array' = [array EXCEPT ![s] = a]
  PROVE  GInv' /\ Contents' = [Contents EXCEPT ![s] = Elements(mem, a)]
<1>1. /\ DOMAIN array' = DOMAIN array /\ array'[s] = a
      /\ \A t \in DOMAIN array \ {s} : array'[t] = array[t]
  OBVIOUS
<1>2. \A t \in DOMAIN array \ {s} :
        Fits(mem, array[t]) /\ Elements(mem, array[t]) = Elements(memory, array[t])
  BY DEF GInv, PointersFit, Fits, Elements
<1>3. TypeOK'
  BY <1>1 DEF GInv, TypeOK, Memory
<1>4. PointersFit'
  BY <1>1, <1>2 DEF GInv, PointersFit
<1>5. ElementsWritten'
  BY <1>1, <1>2 DEF GInv, ElementsWritten
<1>6. Contents' = [t \in DOMAIN array |-> IF t = s THEN Elements(mem, a) ELSE Elements(memory, array[t])]
  BY <1>1, <1>2 DEF Contents
<1>7. [Contents EXCEPT ![s] = Elements(mem, a)] =
        [t \in DOMAIN array |-> IF t = s THEN Elements(mem, a) ELSE Elements(memory, array[t])]
  BY DEF Contents
<1> QED
  BY <1>3, <1>4, <1>5, <1>6, <1>7 DEF GInv

(* An array goes, the memory of the others stays. *)
LEMMA Dropped ==
  ASSUME GInv, NEW s \in DOMAIN array, NEW mem \in Memory,
         \A t \in DOMAIN array \ {s} :
           mem[array[t].start.block] = memory[array[t].start.block],
         memory' = mem, array' = [t \in DOMAIN array \ {s} |-> array[t]]
  PROVE  GInv' /\ Contents' = [t \in DOMAIN Contents \ {s} |-> Contents[t]]
<1>1. /\ DOMAIN array' = DOMAIN array \ {s}
      /\ \A t \in DOMAIN array \ {s} : array'[t] = array[t]
  OBVIOUS
<1>2. \A t \in DOMAIN array \ {s} :
        Fits(mem, array[t]) /\ Elements(mem, array[t]) = Elements(memory, array[t])
  BY DEF GInv, PointersFit, Fits, Elements
<1>3. TypeOK'
  BY <1>1 DEF GInv, TypeOK, Memory
<1>4. PointersFit'
  BY <1>1, <1>2 DEF GInv, PointersFit
<1>5. ElementsWritten'
  BY <1>1, <1>2 DEF GInv, ElementsWritten
<1>6. Contents' = [t \in DOMAIN array \ {s} |-> Elements(memory, array[t])]
  BY <1>1, <1>2 DEF Contents
<1>7. [t \in DOMAIN Contents \ {s} |-> Contents[t]] =
        [t \in DOMAIN array \ {s} |-> Elements(memory, array[t])]
  BY DEF Contents
<1> QED
  BY <1>3, <1>4, <1>5, <1>6, <1>7 DEF GInv

-----------------------------------------------------------------------------
(* Each operation keeps GInv and is the operation on sequences.            *)

(* What GInv says of one array. *)
LEMMA OneArray ==
  ASSUME GInv, NEW s \in DOMAIN array
  PROVE  /\ memory \in Memory /\ array[s] \in Array /\ Fits(memory, array[s])
         /\ Elements(memory, array[s]) \in Seq(Value)
         /\ s \in DOMAIN Contents /\ Contents[s] = Elements(memory, array[s])
         /\ \A t \in DOMAIN array \ {s} : array[t].start.block # array[s].start.block
         /\ \A t \in DOMAIN array : array[t].start.block \in Blocks
  BY DEF GInv, TypeOK, PointersFit, ElementsWritten, Contents, Memory, Array, Pointer

(* What LastSet makes of a sequence of values. *)
LEMMA LastSetType ==
  ASSUME NEW seq \in Seq(Value), NEW w \in Value
  PROVE  Abs!LastSet(seq, w) \in Seq(Value)
  BY DEF Abs!LastSet

(* A new array is a new empty sequence (prof_stack_create). *)
LEMMA CreateStep ==
  ASSUME GInv, NEW s \in Arrays, Create(s)
  PROVE  GInv' /\ Abs!Create(s)
<1>1. PICK b \in Unused :
        /\ memory' = [memory EXCEPT ![b] = Unwritten(InitialSize)]
        /\ array' = [t \in DOMAIN array \cup {s} |->
                       IF t = s THEN [start |-> To(b, 0), end |-> To(b, InitialSize),
                                      ptr |-> To(b, 0)]
                       ELSE array[t]]
  BY DEF Create
<1>2. b \in Blocks /\ memory[b] = <<>> /\ s \notin DOMAIN array /\ memory \in Memory
  BY DEF Unused, Create, GInv, TypeOK, Memory
<1>3. InitialSize \in Nat /\ InitialSize > 0
  BY GrowStackAssumption
<1>4. /\ Unwritten(InitialSize) \in Seq(Cell) /\ Len(Unwritten(InitialSize)) = InitialSize
  BY <1>3 DEF Unwritten, Cell
<1> DEFINE a == [start |-> To(b, 0), end |-> To(b, InitialSize), ptr |-> To(b, 0)]
<1>5. /\ a \in Array /\ a.start.block = b /\ a.ptr.block = b /\ a.end.block = b
      /\ a.start.at = 0 /\ a.ptr.at = 0 /\ a.end.at = InitialSize /\ Length(a) = 0
  BY <1>2, <1>3 DEF Array, Pointer, To, Length
<1>6. /\ memory' \in Memory /\ memory'[b] = Unwritten(InitialSize)
      /\ \A d \in Blocks \ {b} : memory'[d] = memory[d]
  BY <1>1, <1>2, <1>4 DEF Memory
<1>7. /\ DOMAIN array' = DOMAIN array \cup {s} /\ array'[s] = a
      /\ \A t \in DOMAIN array : array'[t] = array[t]
      /\ array' = [t \in DOMAIN array' |-> array'[t]]
  BY <1>1, <1>2
<1> HIDE DEF a
<1>8. Fits(memory', a) /\ Elements(memory', a) = <<>>
  BY <1>3, <1>4, <1>5, <1>6 DEF Fits, Elements
<1>9. ASSUME NEW t \in DOMAIN array
      PROVE  /\ array[t] \in Array /\ array[t].start.block # b
             /\ Fits(memory', array[t])
             /\ Elements(memory', array[t]) = Elements(memory, array[t])
  <2>1. /\ array[t] \in Array /\ array[t].start.block \in Blocks
        /\ Len(memory[array[t].start.block]) > 0 /\ Fits(memory, array[t])
    BY OneArray DEF Fits
  <2>2. array[t].start.block # b
    BY <1>2, <2>1
  <2> QED
    BY <1>6, <2>1, <2>2 DEF Fits, Elements
<1>10. TypeOK'
  BY <1>5, <1>6, <1>7, <1>9 DEF GInv, TypeOK, Memory
<1>11. PointersFit'
  BY <1>5, <1>7, <1>8, <1>9 DEF GInv, PointersFit
<1>12. ElementsWritten'
  <2>1. \A t \in DOMAIN array : Elements(memory', array'[t]) \in Seq(Value)
    BY <1>7, <1>9 DEF GInv, ElementsWritten
  <2>2. Elements(memory', array'[s]) \in Seq(Value)
    <3>1. <<>> \in Seq(Value)
      OBVIOUS
    <3> QED
      BY <1>7, <1>8, <3>1
  <2>3. \A t \in DOMAIN array' : Elements(memory', array'[t]) \in Seq(Value)
    BY <1>7, <2>1, <2>2
  <2> QED
    BY <2>3 DEF ElementsWritten
<1>13. Contents' = [t \in DOMAIN Contents \cup {s} |-> IF t = s THEN <<>> ELSE Contents[t]]
  BY <1>2, <1>7, <1>8, <1>9 DEF Contents
<1>14. s \notin DOMAIN Contents
  BY <1>2 DEF Contents
<1> QED
  BY <1>10, <1>11, <1>12, <1>13, <1>14 DEF GInv, Abs!Create

(* Pushing a frame, whether or not memory moves, appends to its sequence
   (prof_frame_push). *)
LEMMA PushStep ==
  ASSUME GInv, NEW s \in Arrays, NEW v \in Value, NEW w \in Value, prof_frame_push(s, v, w)
  PROVE  GInv' /\ Abs!Push(s, v)
<1>1. s \in DOMAIN array
  BY DEF prof_frame_push
<1>2. PICK r \in prof_stack_verify_size(s) :
        /\ memory' = Store(StoreLast(r.mem, r.arr, w), r.arr.ptr, v)
        /\ array' = [array EXCEPT ![s] = [r.arr EXCEPT !.ptr = Plus(r.arr.ptr, 1)]]
  BY DEF prof_frame_push
<1> DEFINE m == StoreLast(r.mem, r.arr, w)
           n == Store(m, r.arr.ptr, v)
           a == [r.arr EXCEPT !.ptr = Plus(r.arr.ptr, 1)]
           b == r.arr.start.block
<1>3. /\ r.mem \in Memory /\ r.arr \in Array
      /\ Fits(r.mem, r.arr) /\ r.arr.ptr.at < r.arr.end.at
      /\ Elements(r.mem, r.arr) = Contents[s]
      /\ \A t \in DOMAIN array \ {s} :
           /\ array[t].start.block # b
           /\ r.mem[array[t].start.block] = memory[array[t].start.block]
  BY <1>1, VerifyMakesRoom, OneArray
<1>4. /\ m \in Memory /\ Fits(m, r.arr)
      /\ \A d \in Blocks \ {b} : m[d] = r.mem[d]
      /\ Elements(m, r.arr) = Abs!LastSet(Contents[s], w)
  BY <1>3, StoreLastElements
<1>5. /\ n \in Memory /\ a \in Array /\ Fits(n, a)
      /\ \A d \in Blocks \ {b} : n[d] = m[d]
      /\ Elements(n, a) = Append(Elements(m, r.arr), v)
  BY <1>3, <1>4, StoreNextElements
<1>6. a.start.block = b
  BY <1>3 DEF Array
<1> HIDE DEF m, n, a
<1>7. Elements(n, a) \in Seq(Value)
  <2>1. Contents[s] \in Seq(Value)
    BY <1>1, OneArray
  <2>2. Elements(m, r.arr) \in Seq(Value)
    BY <1>4, <2>1, LastSetType
  <2> QED
    BY <1>5, <2>2
<1>8. \A t \in DOMAIN array \ {s} :
        /\ array[t].start.block # a.start.block
        /\ n[array[t].start.block] = memory[array[t].start.block]
  BY <1>1, <1>3, <1>4, <1>5, <1>6, OneArray
<1>9. memory' = n /\ array' = [array EXCEPT ![s] = a]
  BY <1>2 DEF m, n, a
<1> HIDE DEF b
<1>10. GInv' /\ Contents' = [Contents EXCEPT ![s] = Elements(n, a)]
  <2>1. n \in Memory /\ a \in Array /\ Fits(n, a)
    BY <1>5
  <2> QED
    BY <1>1, <1>7, <1>8, <1>9, <2>1, Replaced
<1>11. s \in DOMAIN Contents
  BY <1>1, OneArray
<1> QED
  BY <1>4, <1>5, <1>10, <1>11 DEF Abs!Push

(* So does adding a call tree (prof_add_call_tree). *)
LEMMA AddStep ==
  ASSUME GInv, NEW s \in Arrays, NEW v \in Value, prof_add_call_tree(s, v)
  PROVE  GInv' /\ Abs!Push(s, v)
<1>1. s \in DOMAIN array
  BY DEF prof_add_call_tree
<1>2. PICK r \in prof_stack_verify_size(s) :
        /\ memory' = Store(r.mem, r.arr.ptr, v)
        /\ array' = [array EXCEPT ![s] = [r.arr EXCEPT !.ptr = Plus(r.arr.ptr, 1)]]
  BY DEF prof_add_call_tree
<1> DEFINE n == Store(r.mem, r.arr.ptr, v)
           a == [r.arr EXCEPT !.ptr = Plus(r.arr.ptr, 1)]
           b == r.arr.start.block
           seq == Contents[s]
<1>3. /\ r.mem \in Memory /\ r.arr \in Array
      /\ Fits(r.mem, r.arr) /\ r.arr.ptr.at < r.arr.end.at
      /\ Elements(r.mem, r.arr) = seq
      /\ \A t \in DOMAIN array \ {s} :
           /\ array[t].start.block # b
           /\ r.mem[array[t].start.block] = memory[array[t].start.block]
  BY <1>1, VerifyMakesRoom, OneArray
<1>4. /\ n \in Memory /\ a \in Array /\ Fits(n, a)
      /\ \A d \in Blocks \ {b} : n[d] = r.mem[d]
      /\ Elements(n, a) = Append(seq, v)
  BY <1>3, StoreNextElements
<1>5. a.start.block = b
  BY <1>3 DEF Array
<1>6. seq \in Seq(Value) /\ s \in DOMAIN Contents
  BY <1>1, OneArray
<1>7. Elements(n, a) \in Seq(Value)
  BY <1>4, <1>6
<1>8. \A t \in DOMAIN array \ {s} :
        /\ array[t].start.block # a.start.block
        /\ n[array[t].start.block] = memory[array[t].start.block]
  BY <1>1, <1>3, <1>4, <1>5, OneArray
<1>9. memory' = n /\ array' = [array EXCEPT ![s] = a]
  BY <1>2
<1> HIDE DEF n, a, b, seq
<1>10. GInv' /\ Contents' = [Contents EXCEPT ![s] = Elements(n, a)]
  <2>1. n \in Memory /\ a \in Array /\ Fits(n, a)
    BY <1>4
  <2> QED
    BY <1>1, <1>7, <1>8, <1>9, <2>1, Replaced
<1>11. \E w \in Value : Abs!LastSet(seq, w) = seq
  <2>1. CASE seq = <<>>
    BY <2>1 DEF Abs!LastSet
  <2>2. CASE seq # <<>>
    <3>1. seq[Len(seq)] \in Value /\ [seq EXCEPT ![Len(seq)] = seq[Len(seq)]] = seq
      BY <1>6, <2>2
    <3> QED
      BY <2>2, <3>1 DEF Abs!LastSet
  <2> QED
    BY <2>1, <2>2
<1> QED
  BY <1>4, <1>6, <1>10, <1>11 DEF Abs!Push, seq

(* Popping a frame drops the last element and may change the one below it
   (prof_frame_pop). *)
LEMMA PopStep ==
  ASSUME GInv, NEW s \in Arrays, NEW w \in Value, prof_frame_pop(s, w)
  PROVE  GInv' /\ Abs!Pop(s)
<1> DEFINE o == array[s]
           a == [o EXCEPT !.ptr = Plus(o.ptr, -1)]
           m == StoreLast(memory, a, w)
           b == o.start.block
           n == o.ptr.at
           seq == Contents[s]
<1>1. /\ s \in DOMAIN array /\ o.ptr # o.start
      /\ memory' = m /\ array' = [array EXCEPT ![s] = a]
  BY DEF prof_frame_pop
<1>2. /\ memory \in Memory /\ o \in Array /\ Fits(memory, o)
      /\ seq = Elements(memory, o) /\ seq \in Seq(Value) /\ s \in DOMAIN Contents
      /\ \A t \in DOMAIN array \ {s} : array[t].start.block # b
      /\ \A t \in DOMAIN array : array[t].start.block \in Blocks
  BY <1>1, OneArray
<1>3. /\ b \in Blocks /\ n \in Nat /\ n > 0 /\ o.ptr = To(b, n) /\ o.start = To(b, 0)
      /\ Length(o) = n
  BY <1>1, <1>2 DEF Array, Pointer, Fits, To, Length
<1>4. /\ a.start = o.start /\ a.end = o.end /\ a.ptr = To(b, n - 1) /\ a \in Array
      /\ Length(a) = n - 1
  BY <1>2, <1>3 DEF Array, Pointer, To, Plus, Length
<1> HIDE DEF a
<1>5. Fits(memory, a)
  BY <1>2, <1>3, <1>4 DEF Fits, To
<1>6. Elements(memory, a) = Abs!FrontOf(seq)
  <2>1. Elements(memory, a) = [i \in 1..(n - 1) |-> memory[b][i]]
    BY <1>4 DEF Elements
  <2>2. seq = [i \in 1..n |-> memory[b][i]]
    BY <1>2, <1>3 DEF Elements
  <2>3. Len(seq) = n
    BY <1>3, <2>2
  <2>4. SubSeq(seq, 1, n - 1) = [i \in 1..(n - 1) |-> seq[i]]
    BY <1>2, <1>3, <2>3
  <2>5. Elements(memory, a) = [i \in 1..(n - 1) |-> seq[i]]
    BY <1>3, <2>1, <2>2
  <2> HIDE DEF o, b, n, seq, m
  <2> QED
    BY <2>3, <2>4, <2>5 DEF Abs!FrontOf
<1>7. /\ m \in Memory /\ Fits(m, a)
      /\ \A d \in Blocks \ {a.start.block} : m[d] = memory[d]
      /\ Elements(m, a) = Abs!LastSet(Abs!FrontOf(seq), w)
  BY <1>2, <1>4, <1>5, <1>6, StoreLastElements
<1>8. seq # <<>> /\ Abs!FrontOf(seq) \in Seq(Value)
  <2>1. Len(seq) = n
    BY <1>2, <1>3 DEF Elements
  <2> QED
    BY <1>2, <1>3, <2>1 DEF Abs!FrontOf
<1>9. Elements(m, a) \in Seq(Value)
  BY <1>7, <1>8, LastSetType
<1>10. \A t \in DOMAIN array \ {s} :
         /\ array[t].start.block # a.start.block
         /\ m[array[t].start.block] = memory[array[t].start.block]
  BY <1>2, <1>4, <1>7
<1> HIDE DEF m, o, b, n, seq
<1>11. GInv' /\ Contents' = [Contents EXCEPT ![s] = Elements(m, a)]
  BY <1>1, <1>4, <1>7, <1>9, <1>10, Replaced
<1> QED
  BY <1>2, <1>7, <1>8, <1>11 DEF Abs!Pop, seq

(* A write to the top frame changes the last element (prof_frame_current). *)
LEMMA CurrentStep ==
  ASSUME GInv, NEW s \in Arrays, NEW w \in Value, prof_frame_current(s, w)
  PROVE  GInv' /\ Abs!Touch(s)
<1> DEFINE a == array[s]
           m == StoreLast(memory, a, w)
<1>1. s \in DOMAIN array /\ memory' = m /\ array' = array
  BY DEF prof_frame_current
<1>2. /\ memory \in Memory /\ a \in Array /\ Fits(memory, a)
      /\ Contents[s] = Elements(memory, a) /\ Contents[s] \in Seq(Value)
      /\ s \in DOMAIN Contents
      /\ \A t \in DOMAIN array \ {s} : array[t].start.block # a.start.block
      /\ \A t \in DOMAIN array : array[t].start.block \in Blocks
  BY <1>1, OneArray
<1>3. /\ m \in Memory /\ Fits(m, a)
      /\ \A d \in Blocks \ {a.start.block} : m[d] = memory[d]
      /\ Elements(m, a) = Abs!LastSet(Contents[s], w)
  BY <1>2, StoreLastElements
<1>4. Elements(m, a) \in Seq(Value)
  BY <1>2, <1>3, LastSetType
<1>5. array' = [array EXCEPT ![s] = a]
  BY <1>1 DEF GInv, TypeOK
<1> HIDE DEF m, a
<1>6. GInv' /\ Contents' = [Contents EXCEPT ![s] = Elements(m, a)]
  <2>1. s \in DOMAIN array /\ memory' = m
    BY <1>1
  <2>2. m \in Memory /\ a \in Array /\ Fits(m, a)
    BY <1>2, <1>3
  <2>3. \A t \in DOMAIN array \ {s} :
          /\ array[t].start.block # a.start.block
          /\ m[array[t].start.block] = memory[array[t].start.block]
    BY <1>2, <1>3
  <2> QED
    BY <1>4, <1>5, <2>1, <2>2, <2>3, Replaced
<1> QED
  BY <1>2, <1>3, <1>6 DEF Abs!Touch

(* An array that is freed is gone, and the others are as they were
   (prof_stack_free, prof_call_trees_free). *)
LEMMA FreeStep ==
  ASSUME GInv, NEW s \in Arrays, prof_stack_free(s) \/ prof_call_trees_free(s)
  PROVE  GInv' /\ Abs!Free(s)
<1>1. /\ s \in DOMAIN array /\ array' = [t \in DOMAIN array \ {s} |-> array[t]]
      /\ \/ memory' = memory
         \/ memory' = [memory EXCEPT ![array[s].start.block] = <<>>]
  BY DEF prof_stack_free, prof_call_trees_free
<1>2. /\ memory \in Memory /\ s \in DOMAIN Contents
      /\ \A t \in DOMAIN array \ {s} : array[t].start.block # array[s].start.block
      /\ \A t \in DOMAIN array : array[t].start.block \in Blocks
  BY <1>1, OneArray
<1>3. <<>> \in Seq(Cell)
  OBVIOUS
<1>4. /\ memory' \in Memory
      /\ \A t \in DOMAIN array \ {s} :
           memory'[array[t].start.block] = memory[array[t].start.block]
  BY <1>1, <1>2, <1>3 DEF Memory
<1>5. GInv' /\ Contents' = [t \in DOMAIN Contents \ {s} |-> Contents[t]]
  BY <1>1, <1>4, Dropped
<1> QED
  BY <1>2, <1>5 DEF Abs!Free

-----------------------------------------------------------------------------
(* Theorems.                                                               *)

(* A step keeps GInv and is a step on sequences, or none. *)
LEMMA StepImplements ==
  ASSUME GInv, [Next]_vars
  PROVE  GInv' /\ [Abs!Next]_Contents
<1>1. CASE UNCHANGED vars
  BY <1>1 DEF vars, GInv, TypeOK, PointersFit, ElementsWritten, Contents, Fits, Elements
<1>2. CASE Next
  <2>1. PICK s \in Arrays :
          \/ Create(s) \/ prof_stack_free(s) \/ prof_call_trees_free(s)
          \/ \E v \in Value : \/ prof_add_call_tree(s, v)
                              \/ prof_frame_pop(s, v)
                              \/ prof_frame_current(s, v)
          \/ \E v, w \in Value : prof_frame_push(s, v, w)
    BY <1>2 DEF Next
  <2>2. CASE Create(s)
    BY <2>2, CreateStep DEF Abs!Next
  <2>3. CASE prof_stack_free(s) \/ prof_call_trees_free(s)
    BY <2>3, FreeStep DEF Abs!Next
  <2>4. ASSUME NEW v \in Value, prof_add_call_tree(s, v)
        PROVE  GInv' /\ [Abs!Next]_Contents
    BY <2>4, AddStep DEF Abs!Next
  <2>5. ASSUME NEW v \in Value, prof_frame_pop(s, v)
        PROVE  GInv' /\ [Abs!Next]_Contents
    BY <2>5, PopStep DEF Abs!Next
  <2>6. ASSUME NEW v \in Value, prof_frame_current(s, v)
        PROVE  GInv' /\ [Abs!Next]_Contents
    BY <2>6, CurrentStep DEF Abs!Next
  <2>7. ASSUME NEW v \in Value, NEW w \in Value, prof_frame_push(s, v, w)
        PROVE  GInv' /\ [Abs!Next]_Contents
    BY <2>7, PushStep DEF Abs!Next
  <2> QED
    BY <2>1, <2>2, <2>3, <2>4, <2>5, <2>6, <2>7
<1> QED
  BY <1>1, <1>2

(* At first there are no arrays and no sequences. *)
LEMMA InitGrown == ASSUME Init PROVE GInv /\ Abs!Init
<1>1. DOMAIN array = {} /\ array \in [DOMAIN array -> Array] /\ <<>> \in Seq(Cell)
  BY DEF Init
<1>2. memory \in [Blocks -> Seq(Cell)]
  BY <1>1 DEF Init
<1>3. Contents = <<>>
  BY <1>1 DEF Contents
<1> QED
  BY <1>1, <1>2, <1>3 DEF GInv, TypeOK, PointersFit, ElementsWritten, Abs!Init

(* Types, pointers that fit their memory, and written elements: always, for *)
(* every initial size, number of arrays and place that memory moves to      *)
(* (prof_stack_verify_size, prof_add_call_tree).                            *)
THEOREM ArraysFit == Spec => [](TypeOK /\ PointersFit /\ ElementsWritten)
<1>1. Init => GInv
  BY InitGrown
<1>2. GInv /\ [Next]_vars => GInv'
  BY StepImplements
<1>3. Spec => []GInv
  BY <1>1, <1>2, PTL DEF Spec
<1> QED
  BY <1>3, PTL DEF GInv

(* Every variable of the growing arrays keeps its type: no pointer goes     *)
(* below the start of its block (prof_stack_pop, rp_stack.c:65).             *)
COROLLARY ArraysAreTyped == Spec => []TypeOK
<1> QED
  BY ArraysFit, PTL

(* Whatever is read below ptr has been written, also in an array that has   *)
(* moved (rp_stack.c:41-54, rp_call_trees.c:132-144).                       *)
COROLLARY ElementsAlwaysWritten == Spec => []ElementsWritten
<1> QED
  BY ArraysFit, PTL

(* The growing arrays implement sequences (rp_stack.c:10-72). *)
THEOREM ArraysAreSequences == Spec => ImplementsSequences
<1>1. Init => GInv /\ Abs!Init
  BY InitGrown
<1>2. GInv /\ [Next]_vars => GInv' /\ [Abs!Next]_Contents
  BY StepImplements
<1>3. Spec => Abs!Init /\ [][Abs!Next]_Contents
  BY <1>1, <1>2, PTL DEF Spec
<1> QED
  BY <1>3 DEF ImplementsSequences, Abs!Spec
=============================================================================
