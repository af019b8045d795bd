--------------------------- MODULE FrameSequences ---------------------------
(***************************************************************************)
(* What the growing arrays of ruby-prof promise: each is a sequence, to    *)
(* which elements are added and from which they are taken at one end.      *)
(***************************************************************************)
EXTENDS Sequences, Integers

CONSTANTS
  Arrays,         \* names of arrays: stacks of frames, lists of call trees
  Value           \* what an element can hold

VARIABLE seqs     \* the sequence of each array that exists

(* An operation can leave a new value in the element at the end. *)
LastSet(seq, v) == IF seq = <<>> THEN seq ELSE [seq EXCEPT ![Len(seq)] = v]
FrontOf(seq) == SubSeq(seq, 1, Len(seq) - 1)

Create(s) ==
  /\ s \notin DOMAIN seqs
  /\ seqs' = [t \in DOMAIN seqs \cup {s} |-> IF t = s THEN <<>> ELSE seqs[t]]

(* The element at the end, which may have changed, is followed by v. *)
Push(s, v) ==
  /\ s \in DOMAIN seqs
  /\ \E w \in Value : seqs' = [seqs EXCEPT ![s] = Append(LastSet(seqs[s], w), v)]

Pop(s) ==
  /\ s \in DOMAIN seqs /\ seqs[s] # <<>>
  /\ \E w \in Value : seqs' = [seqs EXCEPT ![s] = LastSet(FrontOf(seqs[s]), w)]

Touch(s) ==
  /\ s \in DOMAIN seqs
  /\ \E w \in Value : seqs' = [seqs EXCEPT ![s] = LastSet(seqs[s], w)]

Free(s) ==
  /\ s \in DOMAIN seqs
  /\ seqs' = [t \in DOMAIN seqs \ {s} |-> seqs[t]]

Init == seqs = <<>>

Next == \E s \in Arrays :
          \/ Create(s) \/ Pop(s) \/ Touch(s) \/ Free(s)
          \/ \E v \in Value : Push(s, v)

Spec == Init /\ [][Next]_seqs
=============================================================================
