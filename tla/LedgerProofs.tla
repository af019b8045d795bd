---------------------------- MODULE LedgerProofs ----------------------------
(***************************************************************************)
(* A profile that is never paused implements TimeLedger. A fiber that is   *)
(* not running is looked at as if it took over at that very moment: in its *)
(* record the wait of the top frame is then complete, so that one formula  *)
(* says what the frames of any fiber have to charge. Time charges the top  *)
(* node of each fiber (TimeCharges); what the hook, a switch or a stop do  *)
(* at a reading moves charges from frames to nodes and creates none        *)
(* (Booked, BookedKept).                                                   *)
(***************************************************************************)
EXTENDS CallTreeProofs, LifecycleProofs, ProfilerLedger

-----------------------------------------------------------------------------
(* What is charged to the nodes of the fiber that is running.              *)

(* Up to when frame i has been running its own code, at the reading m, and *)
(* so what it will leave in its node when it is popped.                    *)
RanUntil(t, i, m) == IF i # Len(t.stack) THEN t.stack[i + 1].start_time ELSE m

OwnSelf(t, i, m) ==
  RanUntil(t, i, m)
    - t.stack[i].start_time - t.stack[i].child_time - t.stack[i].wait_time

Selfs(t, n, m) == [i \in FramesOf(t, n) |-> OwnSelf(t, i, m)]
Waits(t, n) == [i \in FramesOf(t, n) |-> t.stack[i].wait_time]

SelfOf(t, n, m) == t.nodes[n].self_time + SumFunction(Selfs(t, n, m))
WaitOf(t, n) == t.nodes[n].wait_time + SumFunction(Waits(t, n))

(* These are integers, and sums of finitely many.                          *)
LEMMA BooksTyped ==
  ASSUME NEW t \in Thread, NEW m \in Nat
  PROVE  /\ \A i \in Frames(t) : OwnSelf(t, i, m) \in Int /\ t.stack[i].wait_time \in Int
         /\ \A n : /\ IsFiniteSet(FramesOf(t, n))
                   /\ Selfs(t, n, m) \in [FramesOf(t, n) -> Int]
                   /\ Waits(t, n) \in [FramesOf(t, n) -> Int]
                   /\ SumFunction(Selfs(t, n, m)) \in Int
                   /\ SumFunction(Waits(t, n)) \in Int
                   /\ FramesOf(t, n) = {} => /\ SumFunction(Selfs(t, n, m)) = 0
                                             /\ SumFunction(Waits(t, n)) = 0
<1>1. /\ Frames(t) = 1 .. Len(t.stack) /\ Len(t.stack) \in Nat
      /\ \A i \in Frames(t) : t.stack[i] \in Frame
  BY NodesAre
<1>2. \A i \in Frames(t) :
        /\ t.stack[i].start_time \in Int /\ t.stack[i].switch_time \in Int
        /\ t.stack[i].wait_time \in Int /\ t.stack[i].child_time \in Int
  BY <1>1 DEF Frame
<1>3. ASSUME NEW i \in Frames(t)
      PROVE  OwnSelf(t, i, m) \in Int /\ t.stack[i].wait_time \in Int
  <2>1. RanUntil(t, i, m) \in Int
    <3>1. CASE i # Len(t.stack)
      <4>1. i + 1 \in Frames(t)
        BY <1>1, <3>1
      <4> QED BY <1>2, <3>1, <4>1 DEF RanUntil
    <3>2. CASE i = Len(t.stack)
      BY <3>2 DEF RanUntil
    <3> QED BY <3>1, <3>2
  <2> QED BY <1>2, <2>1 DEF OwnSelf
<1>4. ASSUME NEW n
      PROVE  /\ IsFiniteSet(FramesOf(t, n))
             /\ Selfs(t, n, m) \in [FramesOf(t, n) -> Int]
             /\ Waits(t, n) \in [FramesOf(t, n) -> Int]
  <2>1. IsFiniteSet(FramesOf(t, n))
    BY BalanceTyped
  <2>2. \A i \in FramesOf(t, n) : i \in Frames(t)
    BY DEF FramesOf
  <2> QED BY <1>3, <2>1, <2>2 DEF Selfs, Waits
<1>5. ASSUME NEW n
      PROVE  /\ SumFunction(Selfs(t, n, m)) \in Int
             /\ FramesOf(t, n) = {} => SumFunction(Selfs(t, n, m)) = 0
  BY <1>4, SumType
<1>6. ASSUME NEW n
      PROVE  /\ SumFunction(Waits(t, n)) \in Int
             /\ FramesOf(t, n) = {} => SumFunction(Waits(t, n)) = 0
  BY <1>4, SumType
<1> QED BY <1>3, <1>4, <1>5, <1>6

(* One more frame, on a stack whose frames have what they had, adds what   *)
(* is its own to what the frames of its node have.                         *)
LEMMA OneFrameMore ==
  ASSUME NEW t \in Thread, NEW u \in Thread, NEW n, StackPushed(u, t, n), NEW m \in Nat,
         \A i \in Frames(t) : /\ OwnSelf(u, i, m) = OwnSelf(t, i, m)
                              /\ u.stack[i].wait_time = t.stack[i].wait_time
  PROVE  \A x :
           /\ SumFunction(Selfs(u, x, m))
                = SumFunction(Selfs(t, x, m))
                    + (IF x = n THEN OwnSelf(u, Len(u.stack), m) ELSE 0)
           /\ SumFunction(Waits(u, x))
                = SumFunction(Waits(t, x))
                    + (IF x = n THEN u.stack[Len(u.stack)].wait_time ELSE 0)
<1> DEFINE N == Len(t.stack)
<1>1. /\ N \in Nat /\ Len(u.stack) = N + 1
      /\ Frames(t) = 1 .. N /\ Frames(u) = 1 .. N + 1
      /\ \A i \in Frames(t) : u.stack[i].call_tree = t.stack[i].call_tree
      /\ u.stack[N + 1].call_tree = n
  BY NodesAre DEF StackPushed
<1> HIDE DEF N
<1>2. ASSUME NEW x
      PROVE  /\ SumFunction(Selfs(u, x, m))
                  = SumFunction(Selfs(t, x, m))
                      + (IF x = n THEN OwnSelf(u, Len(u.stack), m) ELSE 0)
             /\ SumFunction(Waits(u, x))
                  = SumFunction(Waits(t, x))
                      + (IF x = n THEN u.stack[Len(u.stack)].wait_time ELSE 0)
  <2>1. /\ IsFiniteSet(FramesOf(t, x))
        /\ Selfs(t, x, m) \in [FramesOf(t, x) -> Int]
        /\ Waits(t, x) \in [FramesOf(t, x) -> Int]
        /\ Selfs(u, x, m) \in [FramesOf(u, x) -> Int]
        /\ Waits(u, x) \in [FramesOf(u, x) -> Int]
        /\ SumFunction(Selfs(t, x, m)) \in Int
        /\ SumFunction(Waits(t, x)) \in Int
    BY BooksTyped
  <2>2. \A i \in FramesOf(t, x) : i \in Frames(t)
    BY DEF FramesOf
  <2>3. CASE x # n
    <3>1. FramesOf(u, x) = FramesOf(t, x)
      BY <1>1, <2>3 DEF FramesOf
    <3>2. Selfs(u, x, m) = Selfs(t, x, m)
          /\ Waits(u, x) = Waits(t, x)
      BY <2>2, <3>1 DEF Selfs, Waits
    <3> DEFINE a == SumFunction(Selfs(t, x, m))
               b == SumFunction(Waits(t, x))
    <3>3. a \in Int /\ b \in Int
      BY <2>1
    <3>4. SumFunction(Selfs(u, x, m)) = a /\ SumFunction(Waits(u, x)) = b
      BY <3>2
    <3> HIDE DEF a, b
    <3>5. a = a + 0 /\ b = b + 0
      BY <3>3
    <3>6. /\ SumFunction(Selfs(u, x, m))
               = a + (IF x = n THEN OwnSelf(u, Len(u.stack), m) ELSE 0)
          /\ SumFunction(Waits(u, x))
               = b + (IF x = n THEN u.stack[Len(u.stack)].wait_time ELSE 0)
      BY <2>3, <3>4, <3>5
    <3> QED BY <3>6 DEF a, b
  <2>4. CASE x = n
    <3>1. FramesOf(u, x) = FramesOf(t, x) \cup {N + 1} /\ N + 1 \notin FramesOf(t, x)
      BY <1>1, <2>4 DEF FramesOf
    <3>2. AddedAt(Selfs(u, x, m), Selfs(t, x, m), FramesOf(t, x), N + 1)
      <4>1. \A i \in FramesOf(t, x) : Selfs(u, x, m)[i] = Selfs(t, x, m)[i]
        BY <2>2, <3>1 DEF Selfs
      <4> QED BY <2>1, <3>1, <4>1 DEF AddedAt
    <3>3. AddedAt(Waits(u, x), Waits(t, x), FramesOf(t, x), N + 1)
      <4>1. \A i \in FramesOf(t, x) : Waits(u, x)[i] = Waits(t, x)[i]
        BY <2>2, <3>1 DEF Waits
      <4> QED BY <2>1, <3>1, <4>1 DEF AddedAt
    <3>4. /\ Selfs(u, x, m)[N + 1] = OwnSelf(u, N + 1, m)
          /\ Waits(u, x)[N + 1] = u.stack[N + 1].wait_time
      BY <3>1 DEF Selfs, Waits
    <3> DEFINE gs == Selfs(u, x, m)
               fs == Selfs(t, x, m)
               gw == Waits(u, x)
               fw == Waits(t, x)
    <3>5. AddedAt(gs, fs, FramesOf(t, x), N + 1) /\ AddedAt(gw, fw, FramesOf(t, x), N + 1)
      BY <3>2, <3>3
    <3> HIDE DEF gs, fs, gw, fw
    <3>6. SumFunction(gs) = SumFunction(fs) + gs[N + 1]
      BY <3>5, SumAdded
    <3>7. SumFunction(gw) = SumFunction(fw) + gw[N + 1]
      BY <3>5, SumAdded
    <3> QED BY <1>1, <2>4, <3>4, <3>6, <3>7 DEF gs, fs, gw, fw
  <2> QED BY <2>3, <2>4
<1> QED BY <1>2

-----------------------------------------------------------------------------
(* Records with given charges.                                             *)

(* No frame has been paused. *)
Undead(t, m) == \A i \in Frames(t) : DeadAt(t.stack[i], m) = 0

(* The nodes in the domain of v have what v and w say; the others are new. *)
Charged(t, v, w, m) ==
  /\ DOMAIN v \subseteq Nodes(t)
  /\ \A n \in Nodes(t) :
       IF n \in DOMAIN v THEN SelfOf(t, n, m) = v[n] /\ WaitOf(t, n) = w[n]
       ELSE SelfOf(t, n, m) = 0 /\ WaitOf(t, n) >= 0

Booked(v, w, m) == {t \in Balanced(m) : Undead(t, m) /\ Charged(t, v, w, m)}

(* u has charged what t has, and its new nodes nothing but a wait.         *)
SameBooks(u, t, m) ==
  /\ Nodes(t) \subseteq Nodes(u)
  /\ \A n \in Nodes(t) : SelfOf(u, n, m) = SelfOf(t, n, m) /\ WaitOf(u, n) = WaitOf(t, n)
  /\ \A n \in Nodes(u) \ Nodes(t) : SelfOf(u, n, m) = 0 /\ WaitOf(u, n) >= 0

(* Then it is booked as t is. *)
LEMMA BookedStays ==
  ASSUME NEW v, NEW w, NEW m, NEW t \in Booked(v, w, m),
         NEW u \in Balanced(m), Undead(u, m), SameBooks(u, t, m)
  PROVE  u \in Booked(v, w, m)
<1>1. Charged(t, v, w, m)
  BY DEF Booked
<1>2. Charged(u, v, w, m)
  BY <1>1 DEF Charged, SameBooks
<1> QED BY <1>2 DEF Booked

(* The same frames and the same times of the nodes. *)
LEMMA SameFramesBooks ==
  ASSUME NEW t \in Thread, NEW u \in Thread, u.stack = t.stack, NEW m
  PROVE  \A n \in Nodes(t) : SameMeasure(u.nodes[n], t.nodes[n]) =>
           SelfOf(u, n, m) = SelfOf(t, n, m) /\ WaitOf(u, n) = WaitOf(t, n)
<1>1. SUFFICES ASSUME NEW n \in Nodes(t), SameMeasure(u.nodes[n], t.nodes[n])
               PROVE  SelfOf(u, n, m) = SelfOf(t, n, m) /\ WaitOf(u, n) = WaitOf(t, n)
  OBVIOUS
<1>2. FramesOf(u, n) = FramesOf(t, n)
  BY DEF FramesOf, Frames
<1>3. \A i : OwnSelf(u, i, m) = OwnSelf(t, i, m)
  BY DEF OwnSelf, RanUntil
<1>4. Selfs(u, n, m) = Selfs(t, n, m) /\ Waits(u, n) = Waits(t, n)
  BY <1>2, <1>3 DEF Selfs, Waits
<1> QED BY <1>1, <1>4 DEF SelfOf, WaitOf, SameMeasure

(* A frame that has just started has nothing to charge.                    *)
LEMMA PushBooks ==
  ASSUME NEW m \in Nat, NEW t \in Thread, NEW u, NEW n \in Nodes(t), PushedAt(u, t, n, m),
         Undead(t, m)
  PROVE  SameBooks(u, t, m) /\ Undead(u, m)
<1> DEFINE N == Len(t.stack)
<1>1. /\ u \in Thread /\ SameTree(u, t) /\ StackPushed(u, t, n)
      /\ \A i \in Frames(t) : SameTimes(u.stack[i], t.stack[i], m)
      /\ StartsAt(u.stack[Len(u.stack)], m)
      /\ \A i \in Nodes(t) :
           u.nodes[i] = IF i = n THEN Visited(t.nodes[i]) ELSE t.nodes[i]
  BY DEF PushedAt, PushedOn
<1>2. /\ N \in Nat /\ Frames(t) = 1 .. N /\ Frames(u) = 1 .. N + 1
      /\ Len(u.stack) = N + 1 /\ Nodes(u) = Nodes(t)
  BY <1>1, NodesAre DEF SameTree, StackPushed
<1> HIDE DEF N
<1>3. \A i \in Frames(t) : /\ t.stack[i] \in Frame
                           /\ t.stack[i].start_time \in Int /\ t.stack[i].child_time \in Int
                           /\ t.stack[i].wait_time \in Int
  <2>1. \A i \in Frames(t) : t.stack[i] \in Frame
    BY NodesAre
  <2> QED BY <2>1 DEF Frame
<1>4. \A i \in Frames(t) : /\ u.stack[i].start_time = t.stack[i].start_time
                           /\ u.stack[i].child_time = t.stack[i].child_time
                           /\ u.stack[i].wait_time = t.stack[i].wait_time
                           /\ DeadAt(u.stack[i], m) = DeadAt(t.stack[i], m)
  BY <1>1 DEF SameTimes
<1>5. /\ u.stack[N + 1].start_time = m /\ u.stack[N + 1].child_time = 0
      /\ u.stack[N + 1].wait_time = 0 /\ DeadAt(u.stack[N + 1], m) = 0
  BY <1>1, <1>2 DEF StartsAt
<1>6. ASSUME NEW i \in Frames(t) PROVE OwnSelf(u, i, m) = OwnSelf(t, i, m)
  <2>1. RanUntil(u, i, m) = RanUntil(t, i, m)
    <3>1. CASE i = N
      BY <1>2, <1>5, <3>1 DEF RanUntil, N
    <3>2. CASE i # N
      <4>1. i + 1 \in Frames(t) /\ i # N + 1
        BY <1>2, <3>2
      <4> QED BY <1>2, <1>4, <3>2, <4>1 DEF RanUntil, N
    <3> QED BY <3>1, <3>2
  <2> QED BY <1>4, <2>1 DEF OwnSelf
<1>7. OwnSelf(u, Len(u.stack), m) = 0
  <2>1. OwnSelf(u, Len(u.stack), m) = m - m - 0 - 0
    BY <1>2, <1>5 DEF OwnSelf, RanUntil
  <2> QED BY <2>1
<1>8. u.stack[Len(u.stack)].wait_time = 0
  BY <1>2, <1>5
<1>9. ASSUME NEW x \in Nodes(t)
      PROVE  SelfOf(u, x, m) = SelfOf(t, x, m) /\ WaitOf(u, x) = WaitOf(t, x)
  <2>1. /\ SumFunction(Selfs(t, x, m)) \in Int /\ SumFunction(Waits(t, x)) \in Int
    BY BooksTyped
  <2>2. /\ SumFunction(Selfs(u, x, m))
             = SumFunction(Selfs(t, x, m))
                 + (IF x = n THEN OwnSelf(u, Len(u.stack), m) ELSE 0)
        /\ SumFunction(Waits(u, x))
             = SumFunction(Waits(t, x))
                 + (IF x = n THEN u.stack[Len(u.stack)].wait_time ELSE 0)
    BY <1>1, <1>4, <1>6, OneFrameMore
  <2>3. /\ SumFunction(Selfs(u, x, m)) = SumFunction(Selfs(t, x, m))
        /\ SumFunction(Waits(u, x)) = SumFunction(Waits(t, x))
    BY <1>7, <1>8, <2>1, <2>2
  <2>4. /\ u.nodes[x].self_time = t.nodes[x].self_time
        /\ u.nodes[x].wait_time = t.nodes[x].wait_time
    <3>1. t.nodes[x] \in Node
      BY NodesAre
    <3>2. u.nodes[x] = Visited(t.nodes[x]) \/ u.nodes[x] = t.nodes[x]
      BY <1>1
    <3> QED BY <3>1, <3>2 DEF Visited, Node
  <2> QED BY <2>3, <2>4 DEF SelfOf, WaitOf
<1>10. SameBooks(u, t, m)
  BY <1>2, <1>9 DEF SameBooks
<1>11. Undead(u, m)
  <2>1. \A i \in Frames(u) : i \in Frames(t) \/ i = N + 1
    BY <1>2
  <2> QED BY <1>4, <1>5, <2>1 DEF Undead
<1> QED BY <1>10, <1>11

(* A pop moves what the frame has to charge into its node, and keeps what  *)
(* its parent frame has: its child_time gets what its own time gets more.  *)
LEMMA PopBooks ==
  ASSUME NEW m \in Nat, NEW t \in Thread, NEW u, NEW n \in Nodes(t), t.stack # <<>>,
         PoppedAt(u, t, n, m), Undead(t, m)
  PROVE  SameBooks(u, t, m) /\ Undead(u, m)
<1> DEFINE N     == Len(t.stack)
           top   == t.stack[N]
           dead  == DeadAt(top, m)
           total == m - top.start_time - dead
           self  == total - top.child_time - top.wait_time
<1>1. /\ u \in Thread /\ SameTree(u, t) /\ StackPushed(t, u, n)
      /\ \A i \in Frames(u) :
           u.stack[i] = IF i = Len(u.stack) THEN Credited(t.stack[i], total, dead)
                        ELSE t.stack[i]
      /\ \A i \in Nodes(t) :
           u.nodes[i] = IF i = n THEN Left(t.nodes[i], total, self, top.wait_time)
                        ELSE t.nodes[i]
  BY DEF PoppedAt
<1>2. /\ N \in Nat /\ N >= 1 /\ Len(u.stack) = N - 1
      /\ Frames(t) = 1 .. N /\ Frames(u) = 1 .. N - 1 /\ Nodes(u) = Nodes(t)
  <2>1. Len(t.stack) = Len(u.stack) + 1 /\ Len(u.stack) \in Nat
    BY <1>1, NodesAre DEF StackPushed
  <2> QED BY <1>1, <2>1, NodesAre DEF SameTree
<1>3. \A i \in Frames(t) : /\ t.stack[i] \in Frame
                           /\ t.stack[i].start_time \in Int /\ t.stack[i].child_time \in Int
                           /\ t.stack[i].wait_time \in Int /\ t.stack[i].dead_time \in Int
                           /\ t.stack[i].pause_time \in Int
  <2>1. \A i \in Frames(t) : t.stack[i] \in Frame
    BY NodesAre
  <2> QED BY <2>1 DEF Frame
<1>4. N \in Frames(t) /\ dead = 0
  BY <1>2 DEF Undead
<1>5. top.start_time \in Int /\ top.child_time \in Int /\ top.wait_time \in Int
  BY <1>3, <1>4
<1>6. total = m - top.start_time /\ total \in Int
  <2>1. total = m - top.start_time - 0
    BY <1>4
  <2> HIDE DEF total, top
  <2> QED BY <1>5, <2>1
<1>7. self = m - top.start_time - top.child_time - top.wait_time /\ self \in Int
  <2> HIDE DEF total, top
  <2> QED BY <1>5, <1>6
<1> HIDE DEF total, self, dead, top
<1>8. \A i \in Frames(u) :
        /\ i \in Frames(t)
        /\ u.stack[i].start_time = t.stack[i].start_time
        /\ u.stack[i].wait_time = t.stack[i].wait_time
        /\ u.stack[i].child_time = t.stack[i].child_time + (IF i = N - 1 THEN total ELSE 0)
        /\ DeadAt(u.stack[i], m) = 0
  <2>1. SUFFICES ASSUME NEW i \in Frames(u)
                 PROVE  /\ i \in Frames(t)
                        /\ u.stack[i].start_time = t.stack[i].start_time
                        /\ u.stack[i].wait_time = t.stack[i].wait_time
                        /\ u.stack[i].child_time
                             = t.stack[i].child_time + (IF i = N - 1 THEN total ELSE 0)
                        /\ DeadAt(u.stack[i], m) = 0
    OBVIOUS
  <2>2. i \in Frames(t)
    BY <1>2
  <2>3. /\ t.stack[i] \in Frame /\ t.stack[i].child_time \in Int
        /\ t.stack[i].dead_time \in Int /\ DeadAt(t.stack[i], m) = 0
    BY <1>3, <2>2 DEF Undead
  <2>4. CASE i = N - 1
    <3> DEFINE fr == t.stack[i]
               new == Credited(fr, total, dead)
    <3>1. u.stack[i] = new
      BY <1>1, <1>2, <2>4
    <3>2. fr \in Frame
      BY <2>3
    <3> HIDE DEF fr
    <3>3. /\ new.start_time = fr.start_time /\ new.wait_time = fr.wait_time
          /\ new.child_time = fr.child_time + total /\ new.dead_time = fr.dead_time + dead
          /\ new.pause_time = fr.pause_time
      BY <3>2 DEF Credited, Frame
    <3> HIDE DEF new
    <3>4. new.dead_time = fr.dead_time
      BY <1>4, <2>3, <3>3 DEF fr
    <3>5. DeadAt(new, m) = DeadAt(fr, m)
      BY <3>3, <3>4 DEF DeadAt, Paused
    <3> QED BY <2>2, <2>3, <2>4, <3>1, <3>3, <3>5 DEF fr
  <2>5. CASE i # N - 1
    <3>1. u.stack[i] = t.stack[i]
      BY <1>1, <1>2, <2>5
    <3> QED BY <2>2, <2>3, <2>5, <3>1
  <2> QED BY <2>4, <2>5
<1>9. ASSUME NEW i \in Frames(u) PROVE OwnSelf(t, i, m) = OwnSelf(u, i, m)
  <2>1. CASE i = N - 1
    <3> DEFINE a == t.stack[i].start_time
               b == t.stack[i].child_time
               c == t.stack[i].wait_time
               d == top.start_time
    <3>1. a \in Int /\ b \in Int /\ c \in Int /\ d \in Int
      BY <1>3, <1>5, <1>8
    <3>2. OwnSelf(t, i, m) = d - a - b - c
      BY <1>2, <2>1 DEF OwnSelf, RanUntil, top, N
    <3>3. OwnSelf(u, i, m) = m - a - (b + total) - c
      BY <1>2, <1>8, <2>1 DEF OwnSelf, RanUntil
    <3>4. total = m - d
      BY <1>6
    <3> HIDE DEF a, b, c, d
    <3> QED BY <3>1, <3>2, <3>3, <3>4
  <2>2. CASE i # N - 1
    <3>1. i + 1 \in Frames(u) /\ i # N
      BY <1>2, <2>2
    <3>2. RanUntil(t, i, m) = RanUntil(u, i, m)
      BY <1>2, <1>8, <2>2, <3>1 DEF RanUntil, N
    <3>3. u.stack[i].child_time = t.stack[i].child_time
      BY <1>3, <1>8, <2>2
    <3> QED BY <1>8, <3>2, <3>3 DEF OwnSelf
  <2> QED BY <2>1, <2>2
<1>10. OwnSelf(t, Len(t.stack), m) = self
  BY <1>7 DEF OwnSelf, RanUntil, top, N
<1>11. ASSUME NEW x \in Nodes(t)
       PROVE  SelfOf(u, x, m) = SelfOf(t, x, m) /\ WaitOf(u, x) = WaitOf(t, x)
  <2>1. /\ SumFunction(Selfs(u, x, m)) \in Int /\ SumFunction(Waits(u, x)) \in Int
    BY <1>1, BooksTyped
  <2>2. /\ SumFunction(Selfs(t, x, m))
             = SumFunction(Selfs(u, x, m))
                 + (IF x = n THEN OwnSelf(t, Len(t.stack), m) ELSE 0)
        /\ SumFunction(Waits(t, x))
             = SumFunction(Waits(u, x))
                 + (IF x = n THEN t.stack[Len(t.stack)].wait_time ELSE 0)
    BY <1>1, <1>8, <1>9, OneFrameMore
  <2>3. t.nodes[x] \in Node /\ t.nodes[x].self_time \in Int /\ t.nodes[x].wait_time \in Int
    <3>1. t.nodes[x] \in Node
      BY NodesAre
    <3> QED BY <3>1 DEF Node
  <2> DEFINE a == t.nodes[x].self_time
             b == t.nodes[x].wait_time
             c == SumFunction(Selfs(u, x, m))
             d == SumFunction(Waits(u, x))
             w == top.wait_time
  <2>4. a \in Int /\ b \in Int /\ c \in Int /\ d \in Int /\ w \in Int
    BY <1>5, <2>1, <2>3
  <2>5. CASE x = n
    <3>1. u.nodes[x] = Left(t.nodes[x], total, self, w)
      BY <1>1, <2>5
    <3>2. u.nodes[x].self_time = a + self /\ u.nodes[x].wait_time = b + w
      BY <2>3, <3>1 DEF Left, Node
    <3>3. SelfOf(u, x, m) = (a + self) + c /\ WaitOf(u, x) = (b + w) + d
      BY <3>2 DEF SelfOf, WaitOf
    <3>4. SelfOf(t, x, m) = a + (c + self) /\ WaitOf(t, x) = b + (d + w)
      BY <1>10, <2>2, <2>5 DEF SelfOf, WaitOf, top, N
    <3> HIDE DEF a, b, c, d, w
    <3>5. (a + self) + c = a + (c + self) /\ (b + w) + d = b + (d + w)
      BY <1>7, <2>4
    <3> QED BY <3>3, <3>4, <3>5
  <2>6. CASE x # n
    <3>1. u.nodes[x] = t.nodes[x]
      BY <1>1, <2>6
    <3>2. SumFunction(Selfs(t, x, m)) = c + 0 /\ SumFunction(Waits(t, x)) = d + 0
      BY <2>2, <2>6
    <3>3. SumFunction(Selfs(t, x, m)) = c /\ SumFunction(Waits(t, x)) = d
      BY <2>1, <3>2
    <3> QED BY <3>1, <3>3 DEF SelfOf, WaitOf
  <2> QED BY <2>5, <2>6
<1>12. SameBooks(u, t, m)
  BY <1>2, <1>11 DEF SameBooks
<1>13. Undead(u, m)
  BY <1>8 DEF Undead
<1> QED BY <1>12, <1>13

(* A new node has no frame, and no wait but the one it has taken over.     *)
LEMMA GrowBooks ==
  ASSUME NEW m \in Nat, NEW t, ThreadOK(t), NEW u, ThreadOK(u), NEW k \in Keys,
         Grown(u, t, k), WaitsPositive(u, m), Undead(t, m)
  PROVE  SameBooks(u, t, m) /\ Undead(u, m)
<1> DEFINE x == Len(t.nodes) + 1
<1>1. /\ t \in Thread /\ u \in Thread /\ u.stack = t.stack
      /\ Nodes(u) = Nodes(t) \cup {x} /\ x \notin Nodes(t)
      /\ u.nodes[x].self_time = 0
      /\ \A i \in Nodes(t) : SameMeasure(u.nodes[i], t.nodes[i])
  BY DEF ThreadOK, Grown
<1>2. FramesOf(u, x) = {}
  BY GrownFrames
<1> HIDE DEF x
<1>3. SelfOf(u, x, m) = 0
  <2>1. SumFunction(Selfs(u, x, m)) = 0
    BY <1>1, <1>2, BooksTyped
  <2> QED BY <1>1, <2>1 DEF SelfOf
<1>4. WaitOf(u, x) >= 0
  <2>1. SumFunction(Waits(u, x)) = 0
    BY <1>1, <1>2, BooksTyped
  <2>2. u.nodes[x].wait_time >= 0 /\ u.nodes[x].wait_time \in Int
    <3>1. u.nodes[x] \in Node /\ x \in Nodes(u)
      BY <1>1, NodesAre
    <3> QED BY <3>1 DEF WaitsPositive, Node
  <2> QED BY <2>1, <2>2 DEF WaitOf
<1>5. \A n \in Nodes(t) : SelfOf(u, n, m) = SelfOf(t, n, m) /\ WaitOf(u, n) = WaitOf(t, n)
  BY <1>1, SameFramesBooks
<1>6. Undead(u, m)
  BY <1>1 DEF Undead, Frames
<1> QED BY <1>1, <1>3, <1>4, <1>5, <1>6 DEF SameBooks

(* So whatever the hook does with the record of the running fiber at m, it *)
(* charges nothing.                                                        *)
LEMMA BookedKept ==
  ASSUME NEW v, NEW w, NEW m \in Nat
  PROVE  KeptRunning(Booked(v, w, m), m)
<1> DEFINE S == Booked(v, w, m)
<1>1. \A t \in S : /\ t \in Balanced(m) /\ t \in Thread /\ ThreadOK(t) /\ Undead(t, m)
  BY DEF Booked, Balanced, Counted
<1>2. KeptAt(Balanced(m), m)
  BY BalancedKept
<1>3. KeptRunning(Balanced(m), m)
  BY <1>2, KeptAtIsKeptRunning
<1>4. \A t \in S, u \in Balanced(m) : Undead(u, m) /\ SameBooks(u, t, m) => u \in S
  BY BookedStays
<1>5. \A u \in Balanced(m) : WaitsPositive(u, m)
  BY DEF Balanced
<1> HIDE DEF S
<1>6. KeptBelow(S)
  <2>1. SUFFICES ASSUME NEW t \in S, NEW u \in Thread, NEW k \in Keys, ThreadOK(u),
                        t.stack # <<>>, t.method_table[k].created,
                        GrownBelow(u, t, k, Last(t.stack).call_tree)
                 PROVE  u \in S
    BY DEF KeptBelow
  <2>2. u \in Balanced(m)
    BY <1>1, <1>3, <2>1 DEF KeptRunning, KeptBelow
  <2>3. Grown(u, t, k)
    BY <2>1 DEF GrownBelow
  <2>4. SameBooks(u, t, m) /\ Undead(u, m)
    BY <1>1, <1>5, <2>1, <2>2, <2>3, GrowBooks
  <2> QED BY <1>4, <2>2, <2>4
<1>7. KeptAbove(S)
  <2>1. SUFFICES ASSUME NEW t \in S, NEW u \in Thread, NEW k \in Keys, ThreadOK(u),
                        t.stack = <<>>, t.method_table[k].created, GrownAbove(u, t, k)
                 PROVE  u \in S
    BY DEF KeptAbove
  <2>2. u \in Balanced(m)
    BY <1>1, <1>3, <2>1 DEF KeptRunning, KeptAbove
  <2>3. Grown(u, t, k)
    BY <2>1 DEF GrownAbove
  <2>4. SameBooks(u, t, m) /\ Undead(u, m)
    BY <1>1, <1>5, <2>1, <2>2, <2>3, GrowBooks
  <2> QED BY <1>4, <2>2, <2>4
<1>8. ASSUME NEW t \in S, NEW u \in Thread, ThreadOK(u), Alike(u, t), u.stack = t.stack
      PROVE  u \in S
  <2>1. u \in Balanced(m)
    BY <1>1, <1>3, <1>8 DEF KeptRunning
  <2>2. Nodes(u) = Nodes(t) /\ \A n \in Nodes(t) : SameMeasure(u.nodes[n], t.nodes[n])
    BY <1>8 DEF Alike, Nodes, SameMeasure
  <2>3. SameBooks(u, t, m)
    BY <1>1, <1>8, <2>2, SameFramesBooks DEF SameBooks
  <2>4. Undead(u, m)
    BY <1>1, <1>8 DEF Undead, Frames
  <2> QED BY <1>4, <2>1, <2>3, <2>4
<1>9. ASSUME NEW t \in S, NEW u \in Thread, NEW n \in Nodes(t), ThreadOK(u),
             Reachable(t, n), PushedAt(u, t, n, m)
      PROVE  u \in S
  <2>1. u \in Balanced(m)
    BY <1>1, <1>3, <1>9 DEF KeptRunning
  <2>2. SameBooks(u, t, m) /\ Undead(u, m)
    BY <1>1, <1>9, PushBooks
  <2> QED BY <1>4, <2>1, <2>2
<1>10. ASSUME NEW t \in S, NEW u \in Thread, NEW n \in Nodes(t), ThreadOK(u),
              t.stack # <<>>, PoppedAt(u, t, n, m)
       PROVE  u \in S
  <2>1. u \in Balanced(m)
    BY <1>1, <1>3, <1>10 DEF KeptRunning
  <2>2. SameBooks(u, t, m) /\ Undead(u, m)
    BY <1>1, <1>10, PopBooks
  <2> QED BY <1>4, <2>1, <2>2
<1>11. KeptRunning(S, m)
  BY <1>1, <1>6, <1>7, <1>8, <1>9, <1>10 DEF KeptRunning
<1> QED BY <1>11 DEF S

-----------------------------------------------------------------------------
(* Taking turns.                                                           *)

(* The record of fiber g as it would be if g took over at the reading m    *)
(* from fiber l.                                                           *)
Current(tbl, g, l, m) == IF g = l THEN tbl[g] ELSE SwitchIn(tbl[g], m)

(* What SwitchIn changes: the wait time of the top frame. *)
LEMMA SwitchedIn ==
  ASSUME NEW t, ThreadOK(t), NEW m \in Nat
  PROVE  LET u == SwitchIn(t, m) IN
         /\ u \in Thread /\ ThreadOK(u) /\ AlikeAt(u, t, m)
         /\ u.nodes = t.nodes /\ Nodes(u) = Nodes(t)
         /\ Len(u.stack) = Len(t.stack) /\ Frames(u) = Frames(t)
         /\ \A n : FramesOf(u, n) = FramesOf(t, n)
         /\ \A i \in Frames(t) :
              /\ u.stack[i].start_time = t.stack[i].start_time
              /\ u.stack[i].child_time = t.stack[i].child_time
              /\ u.stack[i].wait_time
                   = t.stack[i].wait_time
                       + (IF i = Len(t.stack) THEN m - t.stack[i].switch_time ELSE 0)
              /\ DeadAt(u.stack[i], m) = DeadAt(t.stack[i], m)
<1> DEFINE u == SwitchIn(t, m)
           top == prof_frame_current(t)
<1>1. t \in Thread /\ t.stack \in Seq(Frame) /\ Frames(t) = 1 .. Len(t.stack)
  BY NodesAre DEF ThreadOK
<1>2. ThreadOK(u) /\ AlikeAt(u, t, m)
  BY SwitchOK, SwitchStep
<1>3. /\ u \in Thread /\ u.nodes = t.nodes /\ Nodes(u) = Nodes(t)
      /\ Len(u.stack) = Len(t.stack)
      /\ \A i \in 1 .. Len(t.stack) : u.stack[i].call_tree = t.stack[i].call_tree
      /\ \A i \in Frames(t) : DeadAt(u.stack[i], m) = DeadAt(t.stack[i], m)
  BY <1>2 DEF AlikeAt, Alike, Nodes, Touched, SameTimes, Switched
<1>4. Frames(u) = Frames(t)
  BY <1>1, <1>3, NodesAre
<1>5. \A n : FramesOf(u, n) = FramesOf(t, n)
  BY <1>1, <1>3, <1>4 DEF FramesOf
<1>6. ASSUME NEW i \in Frames(t)
      PROVE  /\ u.stack[i].start_time = t.stack[i].start_time
             /\ u.stack[i].child_time = t.stack[i].child_time
             /\ u.stack[i].wait_time
                  = t.stack[i].wait_time
                      + (IF i = Len(t.stack) THEN m - t.stack[i].switch_time ELSE 0)
  <2>1. t.stack # <<>>
    BY <1>1
  <2>2. top \in Frame /\ top = t.stack[Len(t.stack)]
    BY <1>1, <2>1, LastType DEF prof_frame_current
  <2> DEFINE fr == Resumed(top, m)
  <2>3. fr \in Frame
    BY <2>2, ResumedType
  <2>4. /\ fr.start_time = top.start_time /\ fr.child_time = top.child_time
        /\ fr.wait_time = top.wait_time + (m - top.switch_time)
    BY <2>2 DEF Resumed, Frame
  <2> HIDE DEF fr, top
  <2>5. u.stack = SetLast(t.stack, fr)
    BY <1>1, <2>1 DEF SwitchIn, SetCurrent, Thread, fr, top
  <2>6. u.stack[i] = IF i = Len(t.stack) THEN fr ELSE t.stack[i]
    <3>1. \A j \in 1 .. Len(t.stack) :
            SetLast(t.stack, fr)[j] = IF j = Len(t.stack) THEN fr ELSE t.stack[j]
      BY <1>1, <2>1, <2>3, SetLastType
    <3> QED BY <1>1, <2>5, <3>1
  <2>7. t.stack[i].wait_time \in Int
    <3>1. t.stack[i] \in Frame
      BY NodesAre, <1>1
    <3> QED BY <3>1 DEF Frame
  <2>8. CASE i = Len(t.stack)
    BY <2>2, <2>4, <2>6, <2>8
  <2>9. CASE i # Len(t.stack)
    BY <2>6, <2>7, <2>9
  <2> QED BY <2>8, <2>9
<1> QED BY <1>2, <1>3, <1>4, <1>5, <1>6

(* c has the frames that fiber g, of record t, would have at m: what they  *)
(* charge node n with, in the words of the ledger.                         *)
InTurn(c, t, n, g, l, m) ==
  /\ c \in Thread /\ ThreadOK(c) /\ Nodes(c) = Nodes(t)
  /\ \A i : FramesOf(c, i) = FramesOf(t, i)
  /\ \A i \in FramesOf(t, n) :
       /\ OwnSelf(c, i, m)
            = (IF i # Len(t.stack) THEN t.stack[i + 1].start_time
               ELSE IF g = l THEN m ELSE t.stack[i].switch_time)
              - t.stack[i].start_time - t.stack[i].child_time - t.stack[i].wait_time
       /\ c.stack[i].wait_time
            = t.stack[i].wait_time
              + IF i = Len(t.stack) /\ g # l THEN m - t.stack[i].switch_time ELSE 0
  /\ c.nodes[n].self_time = t.nodes[n].self_time
  /\ c.nodes[n].wait_time = t.nodes[n].wait_time

(* The record that takes over is such a c. *)
LEMMA CurrentBooks ==
  ASSUME NEW tbl, NEW g, ThreadOK(tbl[g]), NEW l, NEW m \in Nat, NEW n \in Nodes(tbl[g])
  PROVE  InTurn(Current(tbl, g, l, m), tbl[g], n, g, l, m)
<1> DEFINE t == tbl[g]
           c == Current(tbl, g, l, m)
<1>1. t \in Thread /\ ThreadOK(t) /\ Frames(t) = 1 .. Len(t.stack) /\ Len(t.stack) \in Nat
  BY NodesAre DEF ThreadOK
<1>2. \A i \in Frames(t) : /\ t.stack[i].start_time \in Int /\ t.stack[i].child_time \in Int
                           /\ t.stack[i].wait_time \in Int /\ t.stack[i].switch_time \in Int
  <2>1. \A i \in Frames(t) : t.stack[i] \in Frame
    BY <1>1, NodesAre
  <2> QED BY <2>1 DEF Frame
<1>3. \A i \in FramesOf(t, n) : i \in Frames(t)
  BY DEF FramesOf
<1>4. CASE g = l
  <2>1. c = t
    BY <1>4 DEF Current
  <2> HIDE DEF t, c
  <2>2. \A i \in FramesOf(t, n) :
          /\ OwnSelf(t, i, m)
               = (IF i # Len(t.stack) THEN t.stack[i + 1].start_time
                  ELSE IF g = l THEN m ELSE t.stack[i].switch_time)
                 - t.stack[i].start_time - t.stack[i].child_time - t.stack[i].wait_time
          /\ t.stack[i].wait_time
               = t.stack[i].wait_time
                 + IF i = Len(t.stack) /\ g # l THEN m - t.stack[i].switch_time ELSE 0
    BY <1>2, <1>3, <1>4 DEF OwnSelf, RanUntil
  <2> QED BY <1>1, <2>1, <2>2 DEF t, c, InTurn
<1>5. CASE g # l
  <2>1. c = SwitchIn(t, m)
    BY <1>5 DEF Current
  <2> HIDE DEF t, c
  <2>2. /\ c \in Thread /\ ThreadOK(c)
        /\ c.nodes = t.nodes /\ Nodes(c) = Nodes(t)
        /\ Len(c.stack) = Len(t.stack)
        /\ \A i : FramesOf(c, i) = FramesOf(t, i)
        /\ \A i \in Frames(t) :
              /\ c.stack[i].start_time = t.stack[i].start_time
              /\ c.stack[i].child_time = t.stack[i].child_time
              /\ c.stack[i].wait_time
                   = t.stack[i].wait_time
                       + (IF i = Len(t.stack) THEN m - t.stack[i].switch_time ELSE 0)
    BY <1>1, <2>1, SwitchedIn
  <2>3. ASSUME NEW i \in FramesOf(t, n)
        PROVE  /\ OwnSelf(c, i, m)
                    = (IF i # Len(t.stack) THEN t.stack[i + 1].start_time
                       ELSE IF g = l THEN m ELSE t.stack[i].switch_time)
                      - t.stack[i].start_time - t.stack[i].child_time - t.stack[i].wait_time
               /\ c.stack[i].wait_time
                    = t.stack[i].wait_time
                      + IF i = Len(t.stack) /\ g # l THEN m - t.stack[i].switch_time ELSE 0
    <3>1. i \in Frames(t)
      BY <1>3
    <3> DEFINE a == t.stack[i].start_time
               b == t.stack[i].child_time
               w == t.stack[i].wait_time
               s == t.stack[i].switch_time
    <3>2. a \in Int /\ b \in Int /\ w \in Int /\ s \in Int
      BY <1>2, <3>1
    <3>3. CASE i = Len(t.stack)
      <4>1. c.stack[i].wait_time = w + (m - s)
        BY <2>2, <3>1, <3>3
      <4>2. OwnSelf(c, i, m) = m - a - b - (w + (m - s))
        BY <2>2, <3>1, <3>3, <4>1 DEF OwnSelf, RanUntil
      <4> HIDE DEF a, b, w, s
      <4>3. m - a - b - (w + (m - s)) = s - a - b - w
        BY <3>2
      <4> QED BY <1>5, <3>3, <4>1, <4>2, <4>3 DEF a, b, w, s
    <3>4. CASE i # Len(t.stack)
      <4>1. i + 1 \in Frames(t)
        BY <1>1, <3>1, <3>4
      <4>2. c.stack[i].wait_time = w + 0
        BY <2>2, <3>1, <3>4
      <4>3. w + 0 = w
        BY <3>2
      <4>4. OwnSelf(c, i, m) = t.stack[i + 1].start_time - a - b - w
        BY <2>2, <3>1, <3>4, <4>1, <4>2, <4>3 DEF OwnSelf, RanUntil
      <4> QED BY <3>4, <4>2, <4>4
    <3> QED BY <3>3, <3>4
  <2> QED BY <1>1, <2>2, <2>3 DEF t, c, InTurn
<1> QED BY <1>4, <1>5

(* What the nodes of fiber g have been charged at m, when l is running.    *)
SelfBook(tbl, g, l, m) == [n \in Nodes(tbl[g]) |-> SelfOf(Current(tbl, g, l, m), n, m)]
WaitBook(tbl, g, l, m) == [n \in Nodes(tbl[g]) |-> WaitOf(Current(tbl, g, l, m), n)]

(* In the words of the profiler's ledger. *)
OpenSelfBook(tbl, g, l, m) ==
  LET t == tbl[g] IN
  [n \in Nodes(t) |->
     t.nodes[n].self_time
       + SumFunction([i \in FramesOf(t, n) |->
           (IF i # Len(t.stack) THEN t.stack[i + 1].start_time
            ELSE IF g = l THEN m ELSE t.stack[i].switch_time)
             - t.stack[i].start_time - t.stack[i].child_time - t.stack[i].wait_time])]

OpenWaitBook(tbl, g, l, m) ==
  LET t == tbl[g] IN
  [n \in Nodes(t) |->
     t.nodes[n].wait_time
       + SumFunction([i \in FramesOf(t, n) |->
           t.stack[i].wait_time
             + IF i = Len(t.stack) /\ g # l THEN m - t.stack[i].switch_time ELSE 0])]

(* The two say the same. *)
LEMMA OpenBooks ==
  ASSUME NEW tbl, NEW g, ThreadOK(tbl[g]), NEW l, NEW m \in Nat
  PROVE  /\ SelfBook(tbl, g, l, m) = OpenSelfBook(tbl, g, l, m)
         /\ WaitBook(tbl, g, l, m) = OpenWaitBook(tbl, g, l, m)
<1> DEFINE t == tbl[g]
           c == Current(tbl, g, l, m)
           open(n) == [i \in FramesOf(t, n) |->
                         (IF i # Len(t.stack) THEN t.stack[i + 1].start_time
                          ELSE IF g = l THEN m ELSE t.stack[i].switch_time)
                           - t.stack[i].start_time - t.stack[i].child_time
                           - t.stack[i].wait_time]
           wait(n) == [i \in FramesOf(t, n) |->
                         t.stack[i].wait_time
                           + IF i = Len(t.stack) /\ g # l THEN m - t.stack[i].switch_time
                             ELSE 0]
<1>1. ASSUME NEW n \in Nodes(t)
      PROVE  /\ SelfOf(c, n, m) = t.nodes[n].self_time + SumFunction(open(n))
             /\ WaitOf(c, n) = t.nodes[n].wait_time + SumFunction(wait(n))
  <2>1. /\ \A i : FramesOf(c, i) = FramesOf(t, i)
        /\ \A i \in FramesOf(t, n) : /\ OwnSelf(c, i, m) = open(n)[i]
                                     /\ c.stack[i].wait_time = wait(n)[i]
        /\ c.nodes[n].self_time = t.nodes[n].self_time
        /\ c.nodes[n].wait_time = t.nodes[n].wait_time
    <3>1. InTurn(c, t, n, g, l, m)
      BY CurrentBooks
    <3> HIDE DEF c, t
    <3> QED BY <3>1 DEF InTurn
  <2> HIDE DEF c
  <2>2. Selfs(c, n, m) = open(n)
    BY <2>1 DEF Selfs
  <2>3. Waits(c, n) = wait(n)
    BY <2>1 DEF Waits
  <2> HIDE DEF open, wait
  <2> QED BY <2>1, <2>2, <2>3 DEF SelfOf, WaitOf
<1> HIDE DEF open, wait, c
<1>2. SelfBook(tbl, g, l, m) = [n \in Nodes(t) |-> t.nodes[n].self_time + SumFunction(open(n))]
  BY <1>1 DEF SelfBook, c
<1>3. WaitBook(tbl, g, l, m) = [n \in Nodes(t) |-> t.nodes[n].wait_time + SumFunction(wait(n))]
  BY <1>1 DEF WaitBook, c
<1> QED BY <1>2, <1>3 DEF OpenSelfBook, OpenWaitBook, open, wait

(* From m to k the top node of fiber g is charged: self time if it is      *)
(* running, wait time if it is not.                                        *)
TimeOnTop(tbl, g, l, m, k, n) ==
  LET onTop == Len(tbl[g].stack) \in FramesOf(tbl[g], n) IN
  /\ SelfBook(tbl, g, l, k)[n]
       = SelfBook(tbl, g, l, m)[n] + (IF onTop /\ g = l THEN k - m ELSE 0)
  /\ WaitBook(tbl, g, l, k)[n]
       = WaitBook(tbl, g, l, m)[n] + (IF onTop /\ g # l THEN k - m ELSE 0)

(* This is all that the passing of time does. *)
LEMMA TimeCharges ==
  ASSUME NEW tbl, NEW g, ThreadOK(tbl[g]), NEW l, NEW m \in Nat, NEW k \in Nat,
         NEW n \in Nodes(tbl[g])
  PROVE  TimeOnTop(tbl, g, l, m, k, n)
<1> DEFINE t == tbl[g]
           c == Current(tbl, g, l, m)
           d == Current(tbl, g, l, k)
           N == Len(t.stack)
           self == IF g = l THEN k - m ELSE 0
           wait == IF g = l THEN 0 ELSE k - m
<1>1. InTurn(c, t, n, g, l, m) /\ InTurn(d, t, n, g, l, k)
  BY CurrentBooks
<1>2. /\ self \in Int /\ wait \in Int
      /\ t.nodes[n].self_time \in Int /\ t.nodes[n].wait_time \in Int
  <2>1. t.nodes[n] \in Node
    BY NodesAre DEF ThreadOK
  <2> QED BY <2>1 DEF Node
<1>3. ASSUME NEW i \in FramesOf(t, n)
      PROVE  /\ OwnSelf(d, i, k) = OwnSelf(c, i, m) + (IF i = N THEN self ELSE 0)
             /\ d.stack[i].wait_time = c.stack[i].wait_time + (IF i = N THEN wait ELSE 0)
  <2> DEFINE x == t.stack[i].start_time
             y == t.stack[i].child_time
             w == t.stack[i].wait_time
             s == t.stack[i].switch_time
             z == t.stack[i + 1].start_time
  <2>1. x \in Int /\ y \in Int /\ w \in Int /\ s \in Int /\ (i # N => z \in Int)
    <3>1. /\ i \in Frames(t) /\ Frames(t) = 1 .. N /\ N \in Nat
          /\ \A j \in Frames(t) : t.stack[j] \in Frame
      BY NodesAre DEF FramesOf, ThreadOK
    <3>2. i # N => i + 1 \in Frames(t)
      BY <3>1
    <3>3. \A j \in Frames(t) :
            /\ t.stack[j].start_time \in Int /\ t.stack[j].child_time \in Int
            /\ t.stack[j].wait_time \in Int /\ t.stack[j].switch_time \in Int
      BY <3>1 DEF Frame
    <3> QED BY <3>1, <3>2, <3>3
  <2>2. /\ OwnSelf(c, i, m) = (IF i # N THEN z ELSE IF g = l THEN m ELSE s) - x - y - w
        /\ c.stack[i].wait_time = w + IF i = N /\ g # l THEN m - s ELSE 0
    BY <1>1 DEF InTurn
  <2>3. /\ OwnSelf(d, i, k) = (IF i # N THEN z ELSE IF g = l THEN k ELSE s) - x - y - w
        /\ d.stack[i].wait_time = w + IF i = N /\ g # l THEN k - s ELSE 0
    BY <1>1 DEF InTurn
  <2> HIDE DEF x, y, w, s, z, c, d, N
  <2>4. CASE i # N
    BY <2>1, <2>2, <2>3, <2>4
  <2>5. CASE i = N /\ g = l
    BY <2>1, <2>2, <2>3, <2>5
  <2>6. CASE i = N /\ g # l
    BY <2>1, <2>2, <2>3, <2>6
  <2> QED BY <2>4, <2>5, <2>6
<1> HIDE DEF c, d, self, wait
<1> DEFINE F == FramesOf(t, n)
           fs == Selfs(c, n, m)
           gs == Selfs(d, n, k)
           fw == Waits(c, n)
           gw == Waits(d, n)
<1>4. /\ IsFiniteSet(F)
      /\ fs \in [F -> Int] /\ gs \in [F -> Int] /\ fw \in [F -> Int] /\ gw \in [F -> Int]
      /\ SumFunction(fs) \in Int /\ SumFunction(fw) \in Int
  BY <1>1, BooksTyped DEF InTurn
<1>5. \A i \in F : /\ gs[i] = fs[i] + (IF i = N THEN self ELSE 0)
                   /\ gw[i] = fw[i] + (IF i = N THEN wait ELSE 0)
  BY <1>1, <1>3 DEF InTurn, Selfs, Waits
<1>6. MovedAt(gs, fs, F, N, self) /\ MovedAt(gw, fw, F, N, wait)
  <2> HIDE DEF F, fs, gs, fw, gw, N
  <2> QED BY <1>2, <1>4, <1>5 DEF MovedAt
<1>7. /\ SelfOf(c, n, m) = t.nodes[n].self_time + SumFunction(fs)
      /\ SelfOf(d, n, k) = t.nodes[n].self_time + SumFunction(gs)
      /\ WaitOf(c, n) = t.nodes[n].wait_time + SumFunction(fw)
      /\ WaitOf(d, n) = t.nodes[n].wait_time + SumFunction(gw)
  BY <1>1 DEF InTurn, SelfOf, WaitOf
<1> HIDE DEF F, fs, gs, fw, gw, N
<1>8. /\ SumFunction(gs) = SumFunction(fs) + (IF N \in F THEN self ELSE 0)
      /\ SumFunction(gw) = SumFunction(fw) + (IF N \in F THEN wait ELSE 0)
  BY <1>6, SumMoved
<1>9. /\ SelfOf(d, n, k) = SelfOf(c, n, m) + (IF N \in F THEN self ELSE 0)
      /\ WaitOf(d, n) = WaitOf(c, n) + (IF N \in F THEN wait ELSE 0)
  BY <1>2, <1>4, <1>7, <1>8
<1>10. /\ SelfBook(tbl, g, l, m)[n] = SelfOf(c, n, m)
       /\ SelfBook(tbl, g, l, k)[n] = SelfOf(d, n, k)
       /\ WaitBook(tbl, g, l, m)[n] = WaitOf(c, n)
       /\ WaitBook(tbl, g, l, k)[n] = WaitOf(d, n)
  BY DEF SelfBook, WaitBook, c, d
<1>11. /\ (IF N \in F THEN self ELSE 0) = IF N \in F /\ g = l THEN k - m ELSE 0
       /\ (IF N \in F THEN wait ELSE 0) = IF N \in F /\ g # l THEN k - m ELSE 0
  BY DEF self, wait
<1> QED BY <1>9, <1>10, <1>11 DEF N, F, TimeOnTop

(* A record that has never been paused charges what its own books say.     *)
Clean(t) == \A i \in Frames(t) : t.stack[i].dead_time = 0 /\ ~Paused(t.stack[i])

(* At any reading. *)
LEMMA CurrentIsBooked ==
  ASSUME NEW tbl, NEW g, NEW l, NEW m \in Nat, tbl[g] \in Balanced(m), Clean(tbl[g])
  PROVE  Current(tbl, g, l, m) \in Booked(SelfBook(tbl, g, l, m), WaitBook(tbl, g, l, m), m)
<1> DEFINE t == tbl[g]
           c == Current(tbl, g, l, m)
<1>1. ThreadOK(t) /\ t \in Thread
  BY DEF Balanced, Counted
<1>2. Undead(t, m)
  BY DEF Clean, Undead, DeadAt
<1>3. c \in Balanced(m) /\ Nodes(c) = Nodes(t) /\ Undead(c, m)
  <2>1. CASE g = l
    BY <1>2, <2>1 DEF Current
  <2>2. CASE g # l
    <3>1. c = SwitchIn(t, m)
      BY <2>2 DEF Current
    <3> HIDE DEF c, t
    <3>2. /\ ThreadOK(c) /\ AlikeAt(c, t, m) /\ Nodes(c) = Nodes(t) /\ Frames(c) = Frames(t)
          /\ \A i \in Frames(t) : DeadAt(c.stack[i], m) = DeadAt(t.stack[i], m)
      BY <1>1, <3>1, SwitchedIn
    <3>3. c \in Balanced(m)
      <4>1. t \in Balanced(m)
        BY DEF t
      <4> QED BY <3>2, <4>1, AlikeBalanced
    <3>4. Undead(c, m)
      BY <1>2, <3>2 DEF Undead
    <3> QED BY <3>2, <3>3, <3>4
  <2> QED BY <2>1, <2>2
<1>4. Charged(c, SelfBook(tbl, g, l, m), WaitBook(tbl, g, l, m), m)
  <2>1. /\ DOMAIN SelfBook(tbl, g, l, m) = Nodes(t)
        /\ \A n \in Nodes(t) : /\ SelfBook(tbl, g, l, m)[n] = SelfOf(c, n, m)
                               /\ WaitBook(tbl, g, l, m)[n] = WaitOf(c, n)
    BY DEF SelfBook, WaitBook
  <2> HIDE DEF c, t
  <2> QED BY <1>3, <2>1 DEF Charged
<1> HIDE DEF c
<1>5. c \in Booked(SelfBook(tbl, g, l, m), WaitBook(tbl, g, l, m), m)
  BY <1>3, <1>4 DEF Booked
<1> QED BY <1>5 DEF c

(* A new record has nothing to charge. *)
LEMMA NewBooked ==
  ASSUME NEW m, NEW trace \in BOOLEAN
  PROVE  thread_data_create(trace) \in Booked(<<>>, <<>>, m)
<1> DEFINE t == thread_data_create(trace)
<1>1. t \in Balanced(m)
  BY NewBalanced
<1>2. t.nodes = <<>> /\ t.stack = <<>>
  BY DEF thread_data_create
<1> HIDE DEF t
<1>3. Nodes(t) = {} /\ Frames(t) = {}
  BY <1>2 DEF Nodes, Frames
<1>4. Undead(t, m) /\ Charged(t, <<>>, <<>>, m)
  BY <1>3 DEF Undead, Charged
<1> QED BY <1>1, <1>4 DEF Booked, t

(* A fiber that is left at m and taken up at m has not waited. *)
LEMMA SwitchOutBooked ==
  ASSUME NEW v, NEW w, NEW m \in Nat, NEW t \in Booked(v, w, m)
  PROVE  SwitchIn(SwitchOut(t, m), m) \in Booked(v, w, m)
<1> DEFINE u == SwitchOut(t, m)
           c == SwitchIn(u, m)
<1>1. t \in Balanced(m) /\ t \in Thread /\ ThreadOK(t) /\ Undead(t, m)
  BY DEF Booked, Balanced, Counted
<1>2. /\ t.stack \in Seq(Frame) /\ Frames(t) = 1 .. Len(t.stack)
      /\ \A i \in Frames(t) : t.stack[i] \in Frame
  BY <1>1, NodesAre
<1>3. ThreadOK(u) /\ AlikeAt(u, t, m)
  BY <1>1, SwitchOK, SwitchStep
<1>4. /\ u \in Thread /\ u.nodes = t.nodes /\ Len(u.stack) = Len(t.stack)
      /\ Frames(u) = Frames(t)
      /\ \A i \in Frames(t) : u.stack[i].call_tree = t.stack[i].call_tree
      /\ \A i \in Frames(t) : DeadAt(u.stack[i], m) = DeadAt(t.stack[i], m)
  BY <1>2, <1>3, NodesAre DEF AlikeAt, Alike, Touched, SameTimes, Switched
<1>5. ASSUME NEW i \in Frames(t)
      PROVE  /\ u.stack[i].start_time = t.stack[i].start_time
             /\ u.stack[i].child_time = t.stack[i].child_time
             /\ u.stack[i].wait_time = t.stack[i].wait_time
             /\ i = Len(t.stack) => u.stack[i].switch_time = m
  <2> DEFINE top == prof_frame_current(t)
             fr == [top EXCEPT !.switch_time = m]
  <2>1. t.stack # <<>>
    BY <1>2
  <2>2. top \in Frame /\ top = t.stack[Len(t.stack)]
    BY <1>2, <2>1, LastType DEF prof_frame_current
  <2>3. fr \in Frame
    BY <2>2 DEF Frame
  <2>4. /\ fr.start_time = top.start_time /\ fr.child_time = top.child_time
        /\ fr.wait_time = top.wait_time /\ fr.switch_time = m
    BY <2>2 DEF Frame
  <2> HIDE DEF fr, top
  <2>5. u.stack = SetLast(t.stack, fr)
    BY <1>1, <2>1 DEF SwitchOut, SetCurrent, Thread, fr, top
  <2>6. \A j \in 1 .. Len(t.stack) :
          SetLast(t.stack, fr)[j] = IF j = Len(t.stack) THEN fr ELSE t.stack[j]
    BY <1>2, <2>1, <2>3, SetLastType
  <2>7. u.stack[i] = IF i = Len(t.stack) THEN fr ELSE t.stack[i]
    BY <1>2, <2>5, <2>6
  <2> QED BY <2>2, <2>4, <2>7
<1> HIDE DEF u
<1>6. /\ c \in Thread /\ ThreadOK(c) /\ AlikeAt(c, u, m)
      /\ c.nodes = u.nodes /\ Nodes(c) = Nodes(u)
      /\ Len(c.stack) = Len(u.stack) /\ Frames(c) = Frames(u)
      /\ \A n : FramesOf(c, n) = FramesOf(u, n)
      /\ \A i \in Frames(u) :
           /\ c.stack[i].start_time = u.stack[i].start_time
           /\ c.stack[i].child_time = u.stack[i].child_time
           /\ c.stack[i].wait_time
                = u.stack[i].wait_time
                    + (IF i = Len(u.stack) THEN m - u.stack[i].switch_time ELSE 0)
           /\ DeadAt(c.stack[i], m) = DeadAt(u.stack[i], m)
  BY <1>3, SwitchedIn
<1>7. c \in Balanced(m)
  <2>1. u \in Balanced(m)
    BY <1>1, <1>3, AlikeBalanced
  <2> HIDE DEF c
  <2> QED BY <1>6, <2>1, AlikeBalanced
<1> HIDE DEF c
<1>8. ASSUME NEW i \in Frames(t)
      PROVE  /\ c.stack[i].start_time = t.stack[i].start_time
             /\ c.stack[i].child_time = t.stack[i].child_time
             /\ c.stack[i].wait_time = t.stack[i].wait_time
  <2>1. t.stack[i].wait_time \in Int
    BY <1>2 DEF Frame
  <2>2. c.stack[i].wait_time
          = t.stack[i].wait_time + (IF i = Len(t.stack) THEN m - m ELSE 0)
    BY <1>4, <1>5, <1>6
  <2> QED BY <1>4, <1>5, <1>6, <2>1, <2>2
<1>9. Undead(c, m)
  BY <1>1, <1>4, <1>6 DEF Undead
<1>10. Nodes(c) = Nodes(t) /\ c.nodes = t.nodes
  BY <1>4, <1>6 DEF Nodes
<1>11. ASSUME NEW n \in Nodes(t)
       PROVE  SelfOf(c, n, m) = SelfOf(t, n, m) /\ WaitOf(c, n) = WaitOf(t, n)
  <2>1. FramesOf(c, n) = FramesOf(t, n) /\ \A i \in FramesOf(t, n) : i \in Frames(t)
    <3>1. FramesOf(u, n) = FramesOf(t, n)
      BY <1>4 DEF FramesOf
    <3>2. FramesOf(c, n) = FramesOf(u, n)
      BY <1>6
    <3>3. \A i \in FramesOf(t, n) : i \in Frames(t)
      BY DEF FramesOf
    <3> QED BY <3>1, <3>2, <3>3
  <2>2. \A i \in FramesOf(t, n) : OwnSelf(c, i, m) = OwnSelf(t, i, m)
    <3>1. ASSUME NEW i \in Frames(t) PROVE RanUntil(c, i, m) = RanUntil(t, i, m)
      <4>1. i # Len(t.stack) => i + 1 \in Frames(t)
        BY <1>1, <1>2, NodesAre
      <4> QED BY <1>4, <1>6, <1>8, <4>1 DEF RanUntil
    <3> QED BY <1>8, <2>1, <3>1 DEF OwnSelf
  <2>3. Selfs(c, n, m) = Selfs(t, n, m) /\ Waits(c, n) = Waits(t, n)
    BY <1>8, <2>1, <2>2 DEF Selfs, Waits
  <2> QED BY <1>10, <2>3 DEF SelfOf, WaitOf
<1>12. SameBooks(c, t, m)
  BY <1>10, <1>11 DEF SameBooks
<1>13. c \in Booked(v, w, m)
  BY <1>7, <1>9, <1>12, BookedStays
<1> QED BY <1>13 DEF c, u

-----------------------------------------------------------------------------
(* The ledger of the profile.                                              *)

(* What the books of fiber g have come to at the reading m.                *)
SelfDue(g, m) == IF g \in DOMAIN threads THEN SelfBook(threads, g, last, m) ELSE <<>>
WaitDue(g, m) == IF g \in DOMAIN threads THEN WaitBook(threads, g, last, m) ELSE <<>>

(* A table in which every fiber has that, with fiber l running.            *)
TableBooked(tbl, l, m) ==
  /\ DOMAIN threads \subseteq DOMAIN tbl
  /\ \A g \in DOMAIN tbl : Current(tbl, g, l, m) \in Booked(SelfDue(g, m), WaitDue(g, m), m)

(* A fiber that joins the table has nothing to charge. *)
LEMMA InsertBooked ==
  ASSUME NEW l, NEW m, TableBooked(threads, l, m), NEW f \in Fibers \ DOMAIN threads
  PROVE  TableBooked(threads_table_insert(threads, f), l, m)
<1> DEFINE u == threads_table_insert(threads, f)
           new == thread_data_create(f \notin Untraced)
<1>1. /\ DOMAIN u = DOMAIN threads \cup {f} /\ u[f] = new
      /\ \A g \in DOMAIN threads : u[g] = threads[g]
  BY DEF threads_table_insert
<1>2. Current(u, f, l, m) = new
  <2>1. new.stack = <<>>
    BY DEF thread_data_create
  <2>2. SwitchIn(new, m) = new
    BY <2>1, EmptyIsLeftAlone
  <2> HIDE DEF u, new
  <2> QED BY <1>1, <2>2 DEF Current
<1>3. new \in Booked(<<>>, <<>>, m)
  <2>1. (f \notin Untraced) \in BOOLEAN
    OBVIOUS
  <2> QED BY <2>1, NewBooked
<1>4. SelfDue(f, m) = <<>> /\ WaitDue(f, m) = <<>>
  BY DEF SelfDue, WaitDue
<1> HIDE DEF u, new
<1>5. \A g \in DOMAIN threads : Current(u, g, l, m) = Current(threads, g, l, m)
  BY <1>1 DEF Current
<1>6. TableBooked(u, l, m)
  BY <1>1, <1>2, <1>3, <1>4, <1>5 DEF TableBooked
<1> QED BY <1>6 DEF u

(* At a switch the fiber that takes over has its wait, and the one that is *)
(* left begins one.                                                        *)
LEMMA CheckFiberBooked ==
  ASSUME IInv, running, NEW m \in Nat, TableBooked(threads, last, m), NEW f \in Fibers
  PROVE  TableBooked(check_fiber(f, m), f, m) /\ f \in DOMAIN check_fiber(f, m)
<1>1. f \in DOMAIN check_fiber(f, m)
  BY CheckFiberOK
<1>2. CASE last = f
  BY <1>1, <1>2 DEF check_fiber
<1>3. CASE last # f
  <2> DEFINE tbl == threads_table_fetch(threads, f)
             u == switch_thread(tbl, f, last, m)
  <2>1. check_fiber(f, m) = u
    BY <1>3 DEF check_fiber
  <2>2. TableBooked(tbl, last, m)
    BY InsertBooked DEF threads_table_fetch
  <2>3. f \in DOMAIN tbl /\ last \in DOMAIN tbl
    BY DEF threads_table_fetch, threads_table_insert, IInv, LastIsKnown
  <2> HIDE DEF tbl
  <2>4. /\ DOMAIN u = DOMAIN tbl
        /\ u[f] = SwitchIn(tbl[f], m) /\ u[last] = SwitchOut(tbl[last], m)
        /\ \A g \in DOMAIN tbl : g # f /\ g # last => u[g] = tbl[g]
    BY <1>3, <2>3 DEF switch_thread
  <2> HIDE DEF u
  <2>5. ASSUME NEW g \in DOMAIN tbl
        PROVE  Current(u, g, f, m) \in Booked(SelfDue(g, m), WaitDue(g, m), m)
    <3>1. Current(tbl, g, last, m) \in Booked(SelfDue(g, m), WaitDue(g, m), m)
      BY <2>2 DEF TableBooked
    <3>2. CASE g = f
      <4>1. Current(u, g, f, m) = Current(tbl, g, last, m)
        BY <1>3, <2>4, <3>2 DEF Current
      <4> QED BY <3>1, <4>1
    <3>3. CASE g = last
      <4>1. Current(u, g, f, m) = SwitchIn(SwitchOut(tbl[g], m), m)
        BY <1>3, <2>4, <3>3 DEF Current
      <4>2. tbl[g] \in Booked(SelfDue(g, m), WaitDue(g, m), m)
        BY <3>1, <3>3 DEF Current
      <4> QED BY <4>1, <4>2, SwitchOutBooked
    <3>4. CASE g # f /\ g # last
      <4>1. Current(u, g, f, m) = Current(tbl, g, last, m)
        BY <2>4, <3>4 DEF Current
      <4> QED BY <3>1, <4>1
    <3> QED BY <3>2, <3>3, <3>4
  <2> QED BY <1>1, <2>1, <2>2, <2>4, <2>5 DEF TableBooked
<1> QED BY <1>2, <1>3

(* An event of the running fiber charges nothing else. *)
LEMMA HookBooked ==
  ASSUME IInv, running, NEW m \in Nat, TableBooked(threads, last, m), NEW f \in Fibers,
         NEW k \in Methods, NEW event \in {"line", "call", "return"},
         prof_event_hook(f, event, k, m)
  PROVE  TableBooked(threads', last', m)
<1> DEFINE tbl == check_fiber(f, m)
           t == Handle(event, tbl[f], k, m)
<1>1. TableBooked(tbl, f, m) /\ f \in DOMAIN tbl
  BY CheckFiberBooked
<1>2. last' = f /\ threads' = IF tbl[f].trace THEN [tbl EXCEPT ![f] = t] ELSE tbl
  BY DEF prof_event_hook
<1>3. paused \in BOOLEAN
  BY DEF IInv, TypeOK
<1> HIDE DEF tbl
<1>4. tbl[f] \in Booked(SelfDue(f, m), WaitDue(f, m), m)
  BY <1>1 DEF TableBooked, Current
<1>5. t \in Booked(SelfDue(f, m), WaitDue(f, m), m)
  <2> DEFINE S == Booked(SelfDue(f, m), WaitDue(f, m), m)
  <2>1. KeptRunning(S, m)
    BY BookedKept
  <2> HIDE DEF S
  <2>2. tbl[f] \in S
    BY <1>4 DEF S
  <2>3. t \in S
    BY <1>3, <2>1, <2>2, HandleKept
  <2> QED BY <2>3 DEF S
<1> HIDE DEF t
<1>6. CASE threads' = tbl
  BY <1>1, <1>2, <1>6
<1>7. CASE threads' = [tbl EXCEPT ![f] = t]
  <2>1. ASSUME NEW g \in DOMAIN tbl
        PROVE  Current(threads', g, f, m) \in Booked(SelfDue(g, m), WaitDue(g, m), m)
    <3>1. CASE g = f
      BY <1>1, <1>5, <1>7, <3>1 DEF Current
    <3>2. CASE g # f
      BY <1>1, <1>7, <3>2 DEF Current, TableBooked
    <3> QED BY <3>1, <3>2
  <2>2. DOMAIN threads' = DOMAIN tbl
    BY <1>7
  <2> QED BY <1>1, <1>2, <2>1, <2>2 DEF TableBooked
<1> QED BY <1>2, <1>6, <1>7

(* A stop closes the books: every fiber takes over and is emptied.         *)
LEMMA StopBooked ==
  ASSUME NEW tbl, NEW l, NEW m \in Nat, TableBooked(tbl, l, m), prof_stop(tbl, l, m)
  PROVE  TableBooked(threads', last', m)
<1>1. threads' = [h \in DOMAIN tbl |-> pop_frames(tbl[h], h # l, m)]
  BY DEF prof_stop
<1>2. ASSUME NEW g \in DOMAIN tbl
      PROVE  Current(threads', g, last', m) \in Booked(SelfDue(g, m), WaitDue(g, m), m)
  <2> DEFINE c == Current(tbl, g, l, m)
             u == PopAll(c, m)
             S == Booked(SelfDue(g, m), WaitDue(g, m), m)
  <2>1. c \in S /\ KeptRunning(S, m)
    BY BookedKept DEF TableBooked
  <2>2. threads'[g] = u
    BY <1>1 DEF pop_frames, Current
  <2>3. ThreadOK(c)
    BY <2>1 DEF Booked, Balanced, Counted
  <2> HIDE DEF c, S
  <2>4. u \in S
    BY <2>1, PopAllKept
  <2>5. u.stack = <<>>
    BY <2>3, PopAllOK
  <2> HIDE DEF u
  <2>6. SwitchIn(u, m) = u
    BY <2>5, EmptyIsLeftAlone
  <2>7. Current(threads', g, last', m) = u
    BY <2>2, <2>6 DEF Current
  <2> QED BY <2>4, <2>7 DEF S
<1>3. DOMAIN threads' = DOMAIN tbl
  BY <1>1
<1> QED BY <1>2, <1>3 DEF TableBooked

-----------------------------------------------------------------------------
(* From the books to the ledger.                                           *)

(* The books of a fiber are the entries of the ledger, before a step and   *)
(* after it.                                                               *)
LEMMA BooksAreLedger ==
  ASSUME IInv, IInv', NEW f
  PROVE  /\ f \in DOMAIN threads =>
              /\ SelfLedger(f) = SelfBook(threads, f, last, now)
              /\ WaitLedger(f) = WaitBook(threads, f, last, now)
         /\ f \in DOMAIN threads' =>
              /\ SelfLedger(f)' = SelfBook(threads', f, last', now')
              /\ WaitLedger(f)' = WaitBook(threads', f, last', now')
<1>1. now \in Nat /\ now' \in Nat
  BY ProfilerAssumption DEF IInv, TypeOK
<1>2. ASSUME f \in DOMAIN threads
      PROVE  /\ SelfLedger(f) = SelfBook(threads, f, last, now)
             /\ WaitLedger(f) = WaitBook(threads, f, last, now)
  <2>1. ThreadOK(threads[f])
    BY <1>2 DEF IInv, TableOK
  <2>2. /\ SelfLedger(f) = OpenSelfBook(threads, f, last, now)
        /\ WaitLedger(f) = OpenWaitBook(threads, f, last, now)
    BY <1>2 DEF SelfLedger, WaitLedger, OpenSelf, OpenWait, SelfUntil, IsTop,
                OpenSelfBook, OpenWaitBook
  <2> QED BY <1>1, <2>1, <2>2, OpenBooks
<1>3. ASSUME f \in DOMAIN threads'
      PROVE  /\ SelfLedger(f)' = SelfBook(threads', f, last', now')
             /\ WaitLedger(f)' = WaitBook(threads', f, last', now')
  <2>1. ThreadOK(threads'[f])
    BY <1>3 DEF IInv, TableOK
  <2>2. /\ SelfLedger(f)' = OpenSelfBook(threads', f, last', now')
        /\ WaitLedger(f)' = OpenWaitBook(threads', f, last', now')
    BY <1>3 DEF SelfLedger, WaitLedger, OpenSelf, OpenWait, SelfUntil, IsTop,
                OpenSelfBook, OpenWaitBook
  <2> QED BY <1>1, <2>1, <2>2, OpenBooks
<1> QED BY <1>2, <1>3

(* The node on top is the one whose frame is.                              *)
LEMMA TopNodeIs ==
  ASSUME IInv, NEW f \in DOMAIN threads, NEW n \in Nodes(threads[f])
  PROVE  n = TopNode(f) <=> Len(threads[f].stack) \in FramesOf(threads[f], n)
<1> DEFINE t == threads[f]
<1>1. ThreadOK(t) /\ t \in Thread
  BY DEF IInv, TableOK, ThreadOK
<1>2. /\ Nodes(t) = 1 .. Len(t.nodes) /\ Frames(t) = 1 .. Len(t.stack)
      /\ t.stack \in Seq(Frame)
  BY <1>1, NodesAre
<1>3. CASE t.stack = <<>>
  <2>1. TopNode(f) = 0
    BY <1>3 DEF TopNode
  <2>2. n # 0 /\ Len(t.stack) = 0
    BY <1>2, <1>3
  <2> QED BY <1>2, <2>1, <2>2 DEF FramesOf
<1>4. CASE t.stack # <<>>
  <2>1. Len(t.stack) \in Frames(t)
    BY <1>1, <1>4, TopFrameNode
  <2>2. TopNode(f) = t.stack[Len(t.stack)].call_tree
    BY <1>4 DEF TopNode, prof_frame_current, Last
  <2> QED BY <2>1, <2>2 DEF FramesOf
<1> QED BY <1>3, <1>4

(* A step that leaves every fiber with what its books have come to by then *)
(* charges what has passed to the top nodes, and nothing else.             *)
LEMMA StepCharges ==
  ASSUME IInv, IInv', NEW m \in Nat, m = now', TableBooked(threads', last', m),
         NEW f \in Fibers
  PROVE  Ledger!Charge(f)
<1> DEFINE v == SelfDue(f, m)
           w == WaitDue(f, m)
           c == Current(threads', f, last', m)
<1>1. ASSUME f \in DOMAIN threads'
      PROVE  /\ DOMAIN SelfLedger(f)' = Nodes(c) /\ DOMAIN WaitLedger(f)' = Nodes(c)
             /\ \A n \in Nodes(c) : /\ SelfLedger(f)'[n] = SelfOf(c, n, m)
                                    /\ WaitLedger(f)'[n] = WaitOf(c, n)
             /\ Charged(c, v, w, m)
  <2>1. c \in Booked(v, w, m)
    BY <1>1 DEF TableBooked
  <2>2. ThreadOK(threads'[f])
    BY <1>1 DEF IInv, TableOK
  <2>3. Nodes(c) = Nodes(threads'[f])
    <3>1. CASE f = last'
      BY <3>1 DEF Current
    <3>2. CASE f # last'
      BY <2>2, <3>2, SwitchedIn DEF Current
    <3> QED BY <3>1, <3>2
  <2>4. /\ SelfLedger(f)' = SelfBook(threads', f, last', m)
        /\ WaitLedger(f)' = WaitBook(threads', f, last', m)
    BY <1>1, BooksAreLedger
  <2> QED BY <2>1, <2>3, <2>4 DEF Booked, SelfBook, WaitBook
<1>2. CASE f \notin DOMAIN threads
  <2>1. v = <<>> /\ w = <<>> /\ SelfLedger(f) = <<>> /\ WaitLedger(f) = <<>>
    BY <1>2 DEF SelfDue, WaitDue, SelfLedger, WaitLedger
  <2>2. CASE f \notin DOMAIN threads'
    <3>1. SelfLedger(f)' = <<>> /\ WaitLedger(f)' = <<>>
      BY <2>2 DEF SelfLedger, WaitLedger
    <3> QED BY <2>1, <3>1 DEF Ledger!Charge
  <2>3. CASE f \in DOMAIN threads'
    <3>1. \A n \in Nodes(c) : SelfOf(c, n, m) = 0 /\ WaitOf(c, n) >= 0
      BY <1>1, <2>1, <2>3 DEF Charged
    <3> HIDE DEF c
    <3> QED BY <1>1, <2>1, <2>3, <3>1 DEF Ledger!Charge
  <2> QED BY <2>2, <2>3
<1>3. CASE f \in DOMAIN threads
  <2> DEFINE t == threads[f]
             S == SelfLedger(f)
             W == WaitLedger(f)
  <2>1. ThreadOK(t) /\ f \in DOMAIN threads' /\ now \in Nat
    BY <1>3, ProfilerAssumption DEF IInv, TypeOK, TableOK, TableBooked
  <2>2. /\ S = SelfBook(threads, f, last, now) /\ W = WaitBook(threads, f, last, now)
        /\ v = SelfBook(threads, f, last, m) /\ w = WaitBook(threads, f, last, m)
    BY <1>3, BooksAreLedger DEF SelfDue, WaitDue
  <2>3. DOMAIN S = Nodes(t) /\ DOMAIN v = Nodes(t)
    BY <2>2 DEF SelfBook
  <2>4. ASSUME NEW n \in Nodes(t)
        PROVE  /\ v[n] = S[n] + (IF f = last
                                 THEN IF n = TopNode(f) THEN m - now ELSE 0
                                 ELSE 0)
               /\ w[n] = W[n] + (IF f = last THEN 0
                                 ELSE IF n = TopNode(f) THEN m - now ELSE 0)
    <3> DEFINE onTop == Len(t.stack) \in FramesOf(t, n)
    <3>1. n = TopNode(f) <=> onTop
      BY <1>3, TopNodeIs
    <3>2. /\ v[n] = S[n] + (IF onTop /\ f = last THEN m - now ELSE 0)
          /\ w[n] = W[n] + (IF onTop /\ f # last THEN m - now ELSE 0)
      <4>1. /\ SelfBook(threads, f, last, m)[n]
                 = SelfBook(threads, f, last, now)[n]
                     + (IF onTop /\ f = last THEN m - now ELSE 0)
            /\ WaitBook(threads, f, last, m)[n]
                 = WaitBook(threads, f, last, now)[n]
                     + (IF onTop /\ f # last THEN m - now ELSE 0)
        <5>1. TimeOnTop(threads, f, last, now, m, n)
          BY <2>1, TimeCharges
        <5> QED BY <5>1 DEF TimeOnTop
      <4> QED BY <2>2, <4>1
    <3> HIDE DEF onTop, v, w, S, W
    <3> QED BY <3>1, <3>2
  <2>5. /\ Nodes(t) \subseteq Nodes(c)
        /\ \A n \in Nodes(c) :
             IF n \in Nodes(t) THEN SelfOf(c, n, m) = v[n] /\ WaitOf(c, n) = w[n]
             ELSE SelfOf(c, n, m) = 0 /\ WaitOf(c, n) >= 0
    BY <1>1, <2>1, <2>3 DEF Charged
  <2> HIDE DEF c, v, w, t
  <2> QED BY <1>1, <2>1, <2>3, <2>4, <2>5 DEF Ledger!Charge, Ledger!Elapsed, S, W
<1> QED BY <1>2, <1>3

-----------------------------------------------------------------------------
(* A profile that is never paused.                                         *)

(* The program calls neither pause nor resume, and is in no resume block.  *)
NeverPaused ==
  /\ "pause" \notin Uses
  /\ "resume block" \notin Uses
  /\ \A f \in Fibers : \A i \in 1 .. Len(Home[f]) : Home[f][i].kind # "resumed"

Unresumed(stack) == \A i \in 1 .. Len(stack) : stack[i].kind # "resumed"

NotPaused ==
  /\ ~paused
  /\ ~crashed
  /\ ~running => last = NoFiber
  /\ \A f \in Fibers : Unresumed(rstack[f])

LedgerInv ==
  /\ MarksInv
  /\ NotPaused
  /\ TableIn(Balanced(now), threads)
  /\ \A g \in DOMAIN threads : Clean(threads[g])

(* Calls and returns leave no entry of a resume block behind.              *)
LEMMA PushUnresumed ==
  ASSUME rstack \in [Fibers -> Seq(Entry)], NotPaused, NEW f \in Fibers, NEW k \in Methods,
         NEW kind \in {"method", "block", "profiled"}, Push(f, k, kind)
  PROVE  \A g \in Fibers : Unresumed(rstack'[g])
<1> DEFINE e == [method |-> k, kind |-> kind]
<1>1. rstack' = [rstack EXCEPT ![f] = Append(rstack[f], e)]
  BY DEF Push
<1>2. e \in Entry /\ e.kind # "resumed"
  BY DEF Entry, BlockKinds
<1> HIDE DEF e
<1>3. rstack[f] \in Seq(Entry) /\ Unresumed(rstack[f])
  BY DEF NotPaused
<1>4. Unresumed(Append(rstack[f], e))
  BY <1>2, <1>3 DEF Unresumed
<1> QED BY <1>1, <1>4 DEF NotPaused

(* A return pops an entry. *)
LEMMA PopUnresumed ==
  ASSUME rstack \in [Fibers -> Seq(Entry)], NotPaused, NEW f \in Fibers, rstack[f] # <<>>,
         Pop(f)
  PROVE  \A g \in Fibers : Unresumed(rstack'[g])
<1>1. rstack' = [rstack EXCEPT ![f] = SubSeq(rstack[f], 1, Len(rstack[f]) - 1)]
  BY DEF Pop
<1>2. rstack[f] \in Seq(Entry) /\ Unresumed(rstack[f])
  BY DEF NotPaused
<1>3. Unresumed(SubSeq(rstack[f], 1, Len(rstack[f]) - 1))
  BY <1>2 DEF Unresumed
<1> QED BY <1>1, <1>3 DEF NotPaused

(* At the next reading every fiber has what its books have come to.        *)
LEMMA TimeBooked ==
  ASSUME LedgerInv, NEW m \in Nat, now <= m
  PROVE  TableBooked(threads, last, m)
<1>1. now \in Nat
  BY ProfilerAssumption DEF LedgerInv, MarksInv, IdleInv, IInv, TypeOK
<1>2. ASSUME NEW g \in DOMAIN threads
      PROVE  Current(threads, g, last, m) \in Booked(SelfDue(g, m), WaitDue(g, m), m)
  <2>1. threads[g] \in Balanced(m) /\ Clean(threads[g])
    BY <1>1, LaterBalanced DEF LedgerInv, TableIn
  <2>2. /\ SelfDue(g, m) = SelfBook(threads, g, last, m)
        /\ WaitDue(g, m) = WaitBook(threads, g, last, m)
    BY DEF SelfDue, WaitDue
  <2> QED BY <2>1, <2>2, CurrentIsBooked
<1> QED BY <1>2 DEF TableBooked

(* What the program sees of the profile keeps the books. *)
LEMMA ObserveBooked ==
  ASSUME LedgerInv, NEW f \in Fibers, NEW event \in {"line", "call", "return"},
         NEW k \in Methods, Observe(f, event, k), NEW m \in Nat, m = now', now <= m
  PROVE  /\ UNCHANGED profile \/ TableBooked(threads', last', m)
         /\ ~paused' /\ ~crashed' /\ (~running' => last' = NoFiber)
<1>1. ~paused /\ ~crashed /\ (~running => last = NoFiber) /\ IInv
  BY DEF LedgerInv, NotPaused, MarksInv, IdleInv
<1>2. CASE UNCHANGED profile
  BY <1>1, <1>2 DEF profile
<1>3. CASE running /\ \E l \in Readings : prof_event_hook(f, event, k, l)
  <2>1. prof_event_hook(f, event, k, m)
    BY <1>3 DEF prof_event_hook
  <2>2. TableBooked(threads', last', m)
    BY <1>1, <1>3, <2>1, TimeBooked, HookBooked
  <2> QED BY <1>1, <1>3, <2>1, <2>2 DEF prof_event_hook
<1> QED BY <1>2, <1>3 DEF Observe

(* Every step starts a profile, leaves the profile alone or keeps the      *)
(* books at the next reading.                                              *)
LEMMA NextBooked ==
  ASSUME NeverPaused, LedgerInv, [Next]_vars, NEW m \in Nat, m = now', now <= m
  PROVE  /\ NotPaused'
         /\ \/ UNCHANGED profile
            \/ ~running /\ \E f \in Fibers : prof_start(f)
            \/ TableBooked(threads', last', m)
<1> DEFINE booked == \/ UNCHANGED profile
                     \/ ~running /\ \E f \in Fibers : prof_start(f)
                     \/ TableBooked(threads', last', m)
           calm == ~paused' /\ ~crashed' /\ (~running' => last' = NoFiber)
           unresumed == \A g \in Fibers : Unresumed(rstack'[g])
<1>1. /\ ~paused /\ ~crashed /\ (~running => last = NoFiber) /\ IInv /\ NotPaused
      /\ rstack \in [Fibers -> Seq(Entry)]
      /\ \A g \in Fibers : Unresumed(rstack[g])
  BY DEF LedgerInv, NotPaused, MarksInv, IdleInv, IInv, TypeOK
<1>2. ASSUME UNCHANGED profile PROVE booked /\ calm
  BY <1>1, <1>2 DEF profile
<1>3. ASSUME NEW f \in Fibers, rstack[f] # <<>> PROVE Top(f).method \in Methods
  BY <1>1, <1>3, TopTyped
<1>4. ASSUME UNCHANGED rstack PROVE unresumed
  BY <1>1, <1>4
<1>5. ASSUME NEW f \in Fibers, prof_start(f) PROVE booked /\ calm
  BY <1>1, <1>5 DEF prof_start
<1>6. ASSUME NEW tbl, NEW l, TableBooked(tbl, l, m), prof_stop(tbl, l, m)
      PROVE  booked /\ calm
  BY <1>1, <1>6, StopBooked DEF prof_stop
<1>7. CASE UNCHANGED vars
  BY <1>2, <1>4, <1>7 DEF vars, profile, NotPaused
<1>8. ASSUME NEW f \in Fibers, NEW k \in Methods, Call(f, k)
      PROVE  booked /\ calm /\ unresumed
  BY <1>1, <1>8, ObserveBooked, PushUnresumed DEF Call
<1>9. ASSUME NEW f \in Fibers, NEW k \in Methods, Yield(f, k)
      PROVE  booked /\ calm /\ unresumed
  BY <1>1, <1>2, <1>9, PushUnresumed DEF Yield
<1>10. ASSUME NEW f \in Fibers, EndYield(f) PROVE booked /\ calm /\ unresumed
  BY <1>1, <1>2, <1>10, PopUnresumed DEF EndYield, CanRun
<1>11. ASSUME NEW f \in Fibers, Return(f) PROVE booked /\ calm /\ unresumed
  BY <1>1, <1>3, <1>11, ObserveBooked, PopUnresumed DEF Return, CanRun
<1>12. ASSUME NEW f \in Fibers, Line(f) PROVE booked /\ calm /\ unresumed
  BY <1>1, <1>3, <1>4, <1>12, ObserveBooked DEF Line, InRuby, CanRun
<1>13. ASSUME NEW f \in Fibers, Start(f) PROVE booked /\ calm /\ unresumed
  BY <1>4, <1>5, <1>13 DEF Start
<1>14. ASSUME NEW f \in Fibers, Stop(f) PROVE booked /\ calm /\ unresumed
  <2>1. running /\ prof_stop(check_fiber(f, m), f, m) /\ UNCHANGED rstack
    BY <1>14 DEF Stop
  <2>2. TableBooked(check_fiber(f, m), f, m)
    BY <1>1, <2>1, TimeBooked, CheckFiberBooked
  <2> QED BY <1>4, <1>6, <2>1, <2>2
<1>15. ASSUME NEW f \in Fibers, ProfileBlock(f) PROVE booked /\ calm /\ unresumed
  <2>1. Top(f).method \in Methods
    BY <1>3, <1>15 DEF ProfileBlock, InRuby, CanRun
  <2>2. prof_start(f) /\ Push(f, Top(f).method, "profiled")
    BY <1>15 DEF ProfileBlock
  <2> QED BY <1>1, <1>5, <2>1, <2>2, PushUnresumed
<1>16. ASSUME NEW f \in Fibers, EndProfileBlock(f) PROVE booked /\ calm /\ unresumed
  <2>1. Pop(f) /\ rstack[f] # <<>>
    BY <1>16 DEF EndProfileBlock, CanRun
  <2>2. UNCHANGED profile \/ prof_stop(threads, last, m)
    BY <1>16 DEF EndProfileBlock
  <2>3. booked /\ calm
    BY <1>2, <1>6, <2>2, TimeBooked
  <2> QED BY <1>1, <2>1, <2>3, PopUnresumed
<1>17. ASSUME NEW f \in Fibers
       PROVE  ~Pause(f) /\ ~Resume(f) /\ ~ResumeBlock(f) /\ ~EndResumeBlock(f)
  <2>1. ~Pause(f) /\ ~Resume(f) /\ ~ResumeBlock(f)
    BY DEF NeverPaused, Pause, Resume, ResumeBlock
  <2>2. ASSUME rstack[f] # <<>> PROVE Top(f).kind # "resumed"
    BY <1>1, <2>2 DEF Top, Last, Unresumed
  <2> QED BY <2>1, <2>2 DEF EndResumeBlock, CanRun
<1>18. CASE Next
  <2>1. booked /\ calm /\ unresumed
    <3> HIDE DEF booked, calm, unresumed
    <3> QED BY <1>8, <1>9, <1>10, <1>11, <1>12, <1>13, <1>14, <1>15, <1>16, <1>17, <1>18
            DEF Next
  <2> QED BY <2>1 DEF NotPaused
<1> QED BY <1>7, <1>18

(* A record that owes nothing to a pause, and carries no mark of one, has  *)
(* not been paused.                                                        *)
LEMMA BookedIsClean ==
  ASSUME NEW tbl, NEW g, ThreadOK(tbl[g]), NEW l, NEW m \in Nat, NEW v, NEW w,
         Current(tbl, g, l, m) \in Booked(v, w, m), Marked(tbl[g].stack, FALSE)
  PROVE  Clean(tbl[g])
<1> DEFINE t == tbl[g]
           c == Current(tbl, g, l, m)
<1>1. Undead(c, m)
  BY DEF Booked
<1>2. Frames(t) = 1 .. Len(t.stack)
  BY NodesAre DEF ThreadOK
<1>3. \A i \in Frames(t) : DeadAt(t.stack[i], m) = 0
  <2>1. CASE g = l
    BY <1>1, <2>1 DEF Current, Undead
  <2>2. CASE g # l
    <3>1. Frames(c) = Frames(t)
          /\ \A i \in Frames(t) : DeadAt(c.stack[i], m) = DeadAt(t.stack[i], m)
      BY <2>2, SwitchedIn DEF Current
    <3> HIDE DEF c, t
    <3> QED BY <1>1, <3>1 DEF Undead
  <2> QED BY <2>1, <2>2
<1>4. \A i \in Frames(t) : ~Paused(t.stack[i])
  BY <1>2 DEF Marked
<1>5. ASSUME NEW i \in Frames(t) PROVE t.stack[i].dead_time = 0
  <2>1. t.stack[i].dead_time \in Int
    <3>1. t.stack[i] \in Frame
      BY NodesAre DEF ThreadOK
    <3> QED BY <3>1 DEF Frame
  <2>2. t.stack[i].dead_time + 0 = 0
    BY <1>3, <1>4 DEF DeadAt
  <2> QED BY <2>1, <2>2
<1> QED BY <1>4, <1>5 DEF Clean

(* The invariant holds of every step: what has been charged says what a    *)
(* record has, but that it has not been paused must not be forgotten.      *)
LEMMA NextLedgerInv ==
  ASSUME NeverPaused, LedgerInv, [Next]_vars
  PROVE  LedgerInv'
<1>1. MarksInv'
  BY NextOK, NextIdle, NextMarked DEF LedgerInv, MarksInv, IdleInv
<1>2. IInv /\ IInv' /\ now \in Nat /\ now' \in Nat /\ now <= now'
  BY <1>1, NextReading DEF LedgerInv, MarksInv, IdleInv
<1>3. PICK m \in Nat : m = now'
  BY <1>2
<1>4. TableIn(Balanced(now'), threads')
  <2>1. TableIn(Balanced(m), threads)
    BY <1>2, <1>3, LaterBalanced DEF LedgerInv, TableIn
  <2>2. TableIn(Balanced(m), threads')
    BY <1>2, <1>3, <2>1, BalancedKept, NextKept
  <2> QED BY <1>3, <2>2
<1>5. /\ NotPaused'
      /\ \/ UNCHANGED profile
         \/ ~running /\ \E f \in Fibers : prof_start(f)
         \/ TableBooked(threads', last', m)
  BY <1>2, <1>3, NextBooked
<1>6. ASSUME NEW g \in DOMAIN threads' PROVE Clean(threads'[g])
  <2>1. CASE UNCHANGED profile
    BY <1>6, <2>1 DEF profile, LedgerInv
  <2>2. CASE \E f \in Fibers : prof_start(f)
    <3>1. PICK f \in Fibers : threads' = threads_table_insert(threads, f)
      BY <2>2 DEF prof_start
    <3>2. \/ g \in DOMAIN threads /\ threads'[g] = threads[g]
          \/ threads'[g] = thread_data_create(f \notin Untraced)
      BY <1>6, <3>1 DEF threads_table_insert
    <3>3. Clean(thread_data_create(f \notin Untraced))
      BY DEF Clean, Frames, thread_data_create
    <3> QED BY <3>2, <3>3 DEF LedgerInv
  <2>3. CASE TableBooked(threads', last', m)
    <3>1. ThreadOK(threads'[g])
      BY <1>2, <1>6 DEF IInv, TableOK
    <3>2. Marked(threads'[g].stack, FALSE)
      BY <1>1, <1>5, <1>6 DEF MarksInv, MarksOK, MarkedTable, NotPaused, Marked
    <3>3. Current(threads', g, last', m) \in Booked(SelfDue(g, m), WaitDue(g, m), m)
      BY <1>6, <2>3 DEF TableBooked
    <3> QED BY <3>1, <3>2, <3>3, BookedIsClean
  <2> QED BY <1>5, <2>1, <2>2, <2>3
<1>7. \A g \in DOMAIN threads' : Clean(threads'[g])
  BY <1>6
<1>8. TableIn(Balanced(now), threads)'
  BY <1>4 DEF TableIn, Balanced
<1>9. (\A g \in DOMAIN threads : Clean(threads[g]))'
  BY <1>7 DEF Clean
<1> QED BY <1>1, <1>5, <1>8, <1>9 DEF LedgerInv

(* A start is a new profile of its fiber: its entry begins anew, and the   *)
(* fibers that were waiting still are.                                     *)
LEMMA StartResets ==
  ASSUME LedgerInv, IInv', ~running, NEW f \in Fibers, prof_start(f)
  PROVE  Ledger!Reset(f)
<1> DEFINE new == thread_data_create(f \notin Untraced)
<1>1. /\ IInv /\ last = NoFiber /\ last' = f /\ now' = now
      /\ threads' = threads_table_insert(threads, f)
      /\ NoFiber \notin Fibers
  BY ProfilerAssumption DEF LedgerInv, MarksInv, IdleInv, NotPaused, prof_start
<1>2. /\ DOMAIN threads' = DOMAIN threads \cup {f} /\ threads'[f] = new
      /\ \A g \in DOMAIN threads : g # f => threads'[g] = threads[g]
  BY <1>1 DEF threads_table_insert
<1>3. /\ SelfLedger(f)' = <<>> /\ WaitLedger(f)' = <<>> /\ TopNode(f)' = 0
  <2>1. new.nodes = <<>> /\ new.stack = <<>>
    BY DEF thread_data_create
  <2> HIDE DEF new
  <2>2. Nodes(threads'[f]) = {} /\ f \in DOMAIN threads' /\ threads'[f].stack = <<>>
    BY <1>2, <2>1 DEF Nodes
  <2>3. TopNode(f)' = 0
    BY <2>2 DEF TopNode
  <2>4. /\ SelfLedger(f)' = SelfBook(threads', f, last', now')
        /\ WaitLedger(f)' = WaitBook(threads', f, last', now')
    BY <1>1, <2>2, BooksAreLedger
  <2>5. /\ SelfBook(threads', f, last', now') = <<>>
        /\ WaitBook(threads', f, last', now') = <<>>
    BY <2>2 DEF SelfBook, WaitBook
  <2> QED BY <2>3, <2>4, <2>5
<1> HIDE DEF new
<1>4. ASSUME NEW g \in Fibers, g # f
      PROVE  /\ SelfLedger(g)' = SelfLedger(g) /\ WaitLedger(g)' = WaitLedger(g)
             /\ TopNode(g)' = TopNode(g)
  <2>1. CASE g \notin DOMAIN threads
    BY <1>2, <1>4, <2>1 DEF SelfLedger, WaitLedger, TopNode
  <2>2. CASE g \in DOMAIN threads
    <3>1. threads'[g] = threads[g] /\ g \in DOMAIN threads'
      BY <1>2, <1>4, <2>2
    <3>2. Current(threads', g, last', now') = Current(threads, g, last, now)
      BY <1>1, <1>4, <3>1 DEF Current
    <3>3. /\ SelfBook(threads', g, last', now') = SelfBook(threads, g, last, now)
          /\ WaitBook(threads', g, last', now') = WaitBook(threads, g, last, now)
      BY <1>1, <3>1, <3>2 DEF SelfBook, WaitBook
    <3>4. TopNode(g)' = TopNode(g)
      BY <2>2, <3>1 DEF TopNode
    <3> QED BY <1>1, <2>2, <3>1, <3>3, <3>4, BooksAreLedger
  <2> QED BY <2>1, <2>2
<1> QED BY <1>1, <1>3, <1>4 DEF Ledger!Reset

(* Every step of the profiler is a step of the ledger or none. *)
LEMMA NextLedger ==
  ASSUME NeverPaused, LedgerInv, LedgerInv', [Next]_vars
  PROVE  [Ledger!Next]_(Ledger!ledger)
<1>1. IInv /\ IInv' /\ now \in Nat /\ now' \in Nat /\ now <= now'
  BY NextReading DEF LedgerInv, MarksInv, IdleInv
<1>2. PICK m \in Nat : m = now'
  BY <1>1
<1>3. \/ UNCHANGED profile
      \/ ~running /\ \E f \in Fibers : prof_start(f)
      \/ TableBooked(threads', last', m)
  BY <1>1, <1>2, NextBooked
<1>4. CASE UNCHANGED profile
  <2>1. \A f : /\ SelfLedger(f)' = SelfLedger(f) /\ WaitLedger(f)' = WaitLedger(f)
               /\ TopNode(f)' = TopNode(f)
    BY <1>4 DEF profile, SelfLedger, WaitLedger, TopNode, OpenSelf, OpenWait, SelfUntil
  <2>2. now' = now /\ last' = last
    BY <1>4 DEF profile
  <2> QED BY <2>1, <2>2 DEF Ledger!ledger
<1>5. CASE ~running /\ \E f \in Fibers : prof_start(f)
  BY <1>1, <1>5, StartResets DEF Ledger!Next
<1>6. CASE TableBooked(threads', last', m)
  <2>1. \A f \in Fibers : Ledger!Charge(f)
    BY <1>1, <1>2, <1>6, StepCharges
  <2>2. ASSUME NEW f \in Fibers
        PROVE  TopNode(f)' = 0 \/ TopNode(f)' \in DOMAIN SelfLedger(f)'
    <3>1. CASE f \notin DOMAIN threads' \/ threads'[f].stack = <<>>
      BY <3>1 DEF TopNode
    <3>2. CASE f \in DOMAIN threads' /\ threads'[f].stack # <<>>
      <4>1. TopNode(f)' = Last(threads'[f].stack).call_tree
        BY <3>2 DEF TopNode, prof_frame_current
      <4>2. ThreadOK(threads'[f])
        BY <1>1, <3>2 DEF IInv, TableOK
      <4>3. DOMAIN SelfLedger(f)' = Nodes(threads'[f])
        BY <3>2 DEF SelfLedger
      <4> QED BY <3>2, <4>1, <4>2, <4>3, TopFrameNode
    <3> QED BY <3>1, <3>2
  <2>3. last' \in Fibers \cup {NoFiber} /\ now' >= now
    BY <1>1 DEF IInv, TypeOK
  <2>4. Ledger!Read
    BY <2>1, <2>2, <2>3 DEF Ledger!Read
  <2> QED BY <2>4 DEF Ledger!Next
<1> QED BY <1>3, <1>4, <1>5, <1>6

(* An allocated profile has an empty ledger. *)
LEMMA InitLedger ==
  ASSUME NeverPaused, Init
  PROVE  LedgerInv /\ Ledger!Init
<1>1. IInv /\ DOMAIN threads = {}
  BY InitOK DEF Init
<1>2. MarksInv
  BY <1>1 DEF MarksInv, IdleInv, IdleOK, UntracedIdle, AllIdle, MarksOK, MarkedTable
<1>3. NotPaused
  BY DEF NotPaused, NeverPaused, Unresumed, Init
<1>4. LedgerInv
  BY <1>1, <1>2, <1>3 DEF LedgerInv, TableIn
<1>5. \A f : SelfLedger(f) = <<>> /\ WaitLedger(f) = <<>> /\ TopNode(f) = 0
  BY <1>1 DEF SelfLedger, WaitLedger, TopNode
<1>6. now = 0 /\ last = NoFiber
  BY DEF Init
<1> QED BY <1>4, <1>5, <1>6 DEF Ledger!Init

(* However calls nest and fibers take turns, wherever the profile starts   *)
(* and stops, as long as nobody pauses it: with every reading of the clock *)
(* the time since the last one is the self time of the node on top of the  *)
(* running fiber and the wait time of the node on top of every other one,  *)
(* and no time is ever charged elsewhere, twice or later changed. The      *)
(* profiler gets there lazily, by what it adds at pops and at switches.    *)
THEOREM LedgerIsKept ==
  ASSUME NeverPaused
  PROVE  Spec => ImplementsLedger
<1>1. Init => LedgerInv /\ Ledger!Init
  BY InitLedger
<1>2. LedgerInv /\ [Next]_vars => LedgerInv'
  BY NextLedgerInv
<1>3. LedgerInv /\ LedgerInv' /\ [Next]_vars => [Ledger!Next]_(Ledger!ledger)
  BY NextLedger
<1> QED BY <1>1, <1>2, <1>3, PTL DEF Spec, ImplementsLedger, Ledger!Spec

-----------------------------------------------------------------------------
(* What the root has measured, its frame included if it is on the stack.   *)

RootTotal(t, m) ==
  IF t.call_tree = NULL THEN 0
  ELSE t.nodes[t.call_tree].total_time
         + (IF t.stack = <<>> THEN 0 ELSE m - t.stack[1].start_time)

(* The threads that have not been paused and whose root has measured N.    *)
RootMeasures(m, N) == {t \in Counted : Undead(t, m) /\ RootTotal(t, m) = N}

(* A node is on the stack once. *)
LEMMA NodeOnce ==
  ASSUME NEW t \in Counted, NEW i \in Frames(t), NEW j \in Frames(t),
         t.stack[i].call_tree = t.stack[j].call_tree
  PROVE  /\ i = j
         /\ t.nodes[t.stack[i].call_tree].visits = 1
<1> DEFINE n == t.stack[i].call_tree
           F == FramesOf(t, n)
<1>1. /\ t \in Thread /\ n \in Nodes(t) /\ Frames(t) = 1 .. Len(t.stack) /\ Len(t.stack) \in Nat
      /\ Cardinality(F) = t.nodes[n].visits /\ t.nodes[n].visits <= 1
  BY NodesAre DEF Counted, ThreadOK, RootPath, VisitsMatch
<1>2. i \in F /\ j \in F /\ F \subseteq 1 .. Len(t.stack)
  BY <1>1 DEF FramesOf
<1>3. IsFiniteSet(F)
  BY <1>1, <1>2, OneMore
<1> HIDE DEF F, n
<1>4. Cardinality(F) \in Nat /\ Cardinality(F) # 0
  <2>1. Cardinality(F) \in Nat
    BY <1>3, FS_CardinalityType
  <2>2. Cardinality(F) # 0
    BY <1>2, <1>3, FS_EmptySet
  <2> QED BY <2>1, <2>2
<1>5. i = j
  BY <1>1, <1>2, <1>3, AtMostOne
<1> QED BY <1>1, <1>4, <1>5 DEF n

(* A push does not touch the root's total; its own frame starts at zero.   *)
LEMMA PushRootTotal ==
  ASSUME NEW m \in Nat, NEW t \in Counted, NEW u, NEW n \in Nodes(t),
         PushedAt(u, t, n, m)
  PROVE  RootTotal(u, m) = RootTotal(t, m)
<1>1. t \in Thread /\ RootedTree(t)
  BY DEF Counted, ThreadOK
<1>2. /\ u \in Thread /\ SameTree(u, t) /\ StackPushed(u, t, n)
      /\ \A i \in Frames(t) : SameTimes(u.stack[i], t.stack[i], m)
      /\ StartsAt(u.stack[Len(u.stack)], m)
      /\ \A i \in Nodes(t) :
           u.nodes[i] = IF i = n THEN Visited(t.nodes[i]) ELSE t.nodes[i]
  BY DEF PushedAt, PushedOn
<1> DEFINE r == t.call_tree
           N == Len(t.stack)
<1>3. u.call_tree = r /\ r \in Nodes(t) /\ r # NULL /\ t.nodes[r] \in Node
      /\ t.nodes[r].total_time \in Int
  <2>1. u.call_tree = r /\ r \in Nodes(t) /\ r # NULL /\ t.nodes[r] \in Node
    BY <1>1, <1>2, NodesAre DEF RootedTree, SameTree, NULL
  <2> QED BY <2>1 DEF Node
<1>4. u.nodes[r].total_time = t.nodes[r].total_time
  BY <1>2, <1>3 DEF Visited, Node
<1>5. /\ N \in Nat /\ Len(u.stack) = N + 1 /\ Frames(t) = 1 .. N
      /\ t.stack = <<>> <=> N = 0
      /\ u.stack # <<>>
  BY <1>1, <1>2, NodesAre DEF StackPushed
<1>6. CASE N = 0
  <2>1. u.stack[1].start_time = m
    BY <1>2, <1>5, <1>6 DEF StartsAt
  <2> HIDE DEF r, N
  <2>2. RootTotal(t, m) = t.nodes[r].total_time + 0
    BY <1>3, <1>5, <1>6 DEF RootTotal, r
  <2>3. RootTotal(u, m) = t.nodes[r].total_time + (m - m)
    BY <1>3, <1>4, <1>5, <2>1 DEF RootTotal, r
  <2> QED BY <1>3, <2>2, <2>3
<1>7. CASE N # 0
  <2>1. 1 \in Frames(t)
    BY <1>5, <1>7
  <2>2. u.stack[1].start_time = t.stack[1].start_time
    BY <1>2, <2>1 DEF SameTimes
  <2> QED BY <1>3, <1>4, <1>5, <1>7, <2>2 DEF RootTotal
<1> QED BY <1>6, <1>7

(* The pop of its frame moves the time of that frame into its total. *)
LEMMA PopRootTotal ==
  ASSUME NEW m \in Nat, NEW t \in Counted, NEW u, NEW n \in Nodes(t), t.stack # <<>>,
         PoppedAt(u, t, n, m), Undead(t, m)
  PROVE  RootTotal(u, m) = RootTotal(t, m)
<1> DEFINE r     == t.call_tree
           N     == Len(t.stack)
           top   == t.stack[N]
           dead  == DeadAt(top, m)
           total == m - top.start_time - dead
           self  == total - top.child_time - top.wait_time
<1>1. t \in Thread /\ RootedTree(t) /\ RootPath(t)
  BY DEF Counted, ThreadOK
<1>2. /\ u \in Thread /\ SameTree(u, t) /\ StackPushed(t, u, n)
      /\ \A i \in Frames(u) :
           u.stack[i] = IF i = Len(u.stack) THEN Credited(t.stack[i], total, dead)
                        ELSE t.stack[i]
      /\ \A i \in Nodes(t) :
           u.nodes[i] = IF i = n THEN Left(t.nodes[i], total, self, top.wait_time)
                        ELSE t.nodes[i]
  BY DEF PoppedAt
<1>3. /\ N \in Nat /\ N >= 1 /\ Len(u.stack) = N - 1
      /\ Frames(t) = 1 .. N /\ Frames(u) = 1 .. N - 1
      /\ u.stack = <<>> <=> N = 1
  <2>1. Len(t.stack) = Len(u.stack) + 1 /\ Len(u.stack) \in Nat
    BY <1>2, NodesAre DEF StackPushed
  <2> QED BY <1>1, <1>2, <2>1, NodesAre
<1>4. /\ u.call_tree = r /\ r \in Nodes(t) /\ r # NULL /\ t.nodes[r] \in Node
      /\ t.nodes[r].total_time \in Int
      /\ t.stack[1].call_tree = r /\ t.stack[1] \in Frame /\ t.stack[1].start_time \in Int
  <2>1. u.call_tree = r /\ r \in Nodes(t) /\ r # NULL /\ t.nodes[r] \in Node
    BY <1>1, <1>2, NodesAre DEF RootedTree, SameTree, NULL
  <2>2. 1 \in Frames(t)
    BY <1>3
  <2>3. t.stack[1].call_tree = r /\ t.stack[1] \in Frame
    BY <1>1, <2>2, NodesAre DEF RootPath
  <2>4. t.nodes[r].total_time \in Int
    BY <2>1 DEF Node
  <2>5. t.stack[1].start_time \in Int
    BY <2>3 DEF Frame
  <2> QED BY <2>1, <2>3, <2>4, <2>5
<1>5. N \in Frames(t) /\ 1 \in Frames(t) /\ t.stack[N].call_tree = n /\ dead = 0
  BY <1>2, <1>3 DEF StackPushed, Undead
<1>6. CASE N = 1
  <2>1. n = r /\ t.nodes[r].visits = 1
    BY <1>4, <1>5, <1>6, NodeOnce
  <2>2. total = m - t.stack[1].start_time
    <3>1. total = m - t.stack[1].start_time - 0
      BY <1>5, <1>6
    <3> HIDE DEF total
    <3> QED BY <1>4, <3>1
  <2>3. u.nodes[r].total_time = t.nodes[r].total_time + total
    <3> HIDE DEF total, self, top
    <3> QED BY <1>2, <1>4, <2>1 DEF Left, Node
  <2> HIDE DEF total, r, N
  <2>4. RootTotal(t, m) = t.nodes[r].total_time + (m - t.stack[1].start_time)
    BY <1>4 DEF RootTotal, r
  <2>5. RootTotal(u, m) = u.nodes[r].total_time + 0
    BY <1>3, <1>4, <1>6 DEF RootTotal, r
  <2> QED BY <1>4, <2>2, <2>3, <2>4, <2>5
<1>7. CASE N # 1
  <2>1. n # r
    BY <1>4, <1>5, <1>7, NodeOnce
  <2>2. u.nodes[r].total_time = t.nodes[r].total_time
    BY <1>2, <1>4, <2>1
  <2>3. u.stack[1].start_time = t.stack[1].start_time
    <3>1. 1 \in Frames(u)
      BY <1>3, <1>7
    <3> HIDE DEF total, dead
    <3> QED BY <1>2, <1>4, <3>1 DEF Credited, Frame
  <2>4. u.stack # <<>>
    BY <1>3, <1>7
  <2> QED BY <1>4, <2>2, <2>3, <2>4 DEF RootTotal
<1> QED BY <1>6, <1>7

(* What the hook does at the reading m changes nothing of it.              *)
LEMMA RootMeasuresKept ==
  ASSUME NEW m \in Nat, NEW N
  PROVE  KeptRunning(RootMeasures(m, N), m)
<1> DEFINE S == RootMeasures(m, N)
<1>1. KeptRunning(Counted, m)
  <2>1. Kept(Counted)
    BY CountedKept
  <2>2. KeptAt(Counted, m)
    BY <2>1, KeptIsKeptAt
  <2> QED BY <2>2, KeptAtIsKeptRunning
<1>2. \A t \in S : /\ t \in Counted /\ t \in Thread /\ ThreadOK(t)
                   /\ Undead(t, m) /\ RootTotal(t, m) = N
  BY DEF RootMeasures, Counted
<1>3. \A u \in Counted : Undead(u, m) /\ RootTotal(u, m) = N => u \in S
  BY DEF RootMeasures
<1> HIDE DEF S
<1>4. ASSUME NEW t \in S, NEW u \in Thread, u.stack = t.stack PROVE Undead(u, m)
  BY <1>2, <1>4 DEF Undead, Frames
<1>5. KeptBelow(S)
  <2>1. ASSUME NEW t \in S, NEW u \in Thread, NEW k \in Keys,
               ThreadOK(u), t.stack # <<>>, t.method_table[k].created,
               GrownBelow(u, t, k, Last(t.stack).call_tree)
        PROVE  u \in S
    <3>1. u \in Counted
      BY <1>1, <1>2, <2>1 DEF KeptRunning, KeptBelow
    <3>2. /\ u.stack = t.stack /\ u.call_tree = t.call_tree
          /\ \A i \in Nodes(t) : u.nodes[i].total_time = t.nodes[i].total_time
      BY <2>1 DEF GrownBelow, Grown, SameMeasure
    <3>3. t.call_tree # NULL => t.call_tree \in Nodes(t)
      BY <1>2, NodesAre DEF ThreadOK, RootedTree
    <3>4. RootTotal(u, m) = RootTotal(t, m)
      BY <3>2, <3>3 DEF RootTotal
    <3> QED BY <1>2, <1>3, <1>4, <3>1, <3>2, <3>4
  <2> QED BY <2>1 DEF KeptBelow
<1>6. KeptAbove(S)
  <2>1. ASSUME NEW t \in S, NEW u \in Thread, NEW k \in Keys,
               ThreadOK(u), t.stack = <<>>, t.method_table[k].created, GrownAbove(u, t, k)
        PROVE  u \in S
    <3>1. u \in Counted
      BY <1>1, <1>2, <2>1 DEF KeptRunning, KeptAbove
    <3> DEFINE n == Len(t.nodes) + 1
               r == t.call_tree
    <3>2. /\ u.stack = t.stack /\ u.call_tree = n
          /\ u.nodes[n].total_time = IF r = NULL THEN 0 ELSE t.nodes[r].total_time
      BY <2>1 DEF GrownAbove, Grown
    <3>3. n # NULL
      BY <1>2, NodesAre DEF NULL
    <3>4. r # NULL => t.nodes[r].total_time \in Int
      <4>1. ASSUME r # NULL PROVE t.nodes[r] \in Node
        BY <1>2, <4>1, NodesAre DEF ThreadOK, RootedTree
      <4> QED BY <4>1 DEF Node
    <3> HIDE DEF n
    <3>5. RootTotal(u, m) = RootTotal(t, m)
      BY <2>1, <3>2, <3>3, <3>4 DEF RootTotal
    <3> QED BY <1>2, <1>3, <1>4, <3>1, <3>2, <3>5
  <2> QED BY <2>1 DEF KeptAbove
<1>7. ASSUME NEW t \in S, NEW u \in Thread, ThreadOK(u), Alike(u, t), u.stack = t.stack
      PROVE  u \in S
  <2>1. u \in Counted
    BY <1>1, <1>2, <1>7 DEF KeptRunning
  <2>2. RootTotal(u, m) = RootTotal(t, m)
    BY <1>7 DEF Alike, RootTotal
  <2> QED BY <1>2, <1>3, <1>4, <1>7, <2>1, <2>2
<1>8. ASSUME NEW t \in S, NEW u \in Thread, NEW n \in Nodes(t),
             ThreadOK(u), Reachable(t, n), PushedAt(u, t, n, m)
      PROVE  u \in S
  <2>1. u \in Counted
    BY <1>1, <1>2, <1>8 DEF KeptRunning
  <2>2. Undead(u, m)
    BY <1>2, <1>8, PushBooks
  <2>3. RootTotal(u, m) = RootTotal(t, m)
    BY <1>2, <1>8, PushRootTotal
  <2> QED BY <1>2, <1>3, <2>1, <2>2, <2>3
<1>9. ASSUME NEW t \in S, NEW u \in Thread, NEW n \in Nodes(t),
             ThreadOK(u), t.stack # <<>>, PoppedAt(u, t, n, m)
      PROVE  u \in S
  <2>1. u \in Counted
    BY <1>1, <1>2, <1>9 DEF KeptRunning
  <2>2. Undead(u, m)
    BY <1>2, <1>9, PopBooks
  <2>3. RootTotal(u, m) = RootTotal(t, m)
    BY <1>2, <1>9, PopRootTotal
  <2> QED BY <1>2, <1>3, <2>1, <2>2, <2>3
<1>10. KeptRunning(S, m)
  BY <1>2, <1>5, <1>6, <1>7, <1>8, <1>9 DEF KeptRunning
<1> QED BY <1>10 DEF S

(* The longer the stack is not empty, the more has the root measured.      *)
LEMMA RootMeasuresLater ==
  ASSUME NEW m \in Nat, NEW d \in Nat, NEW N \in Int, NEW t \in RootMeasures(m, N),
         Marked(t.stack, FALSE)
  PROVE  t \in RootMeasures(m + d, N + (IF t.stack # <<>> THEN d ELSE 0))
<1>1. /\ t \in Counted /\ t \in Thread /\ RootedTree(t) /\ Undead(t, m)
      /\ RootTotal(t, m) = N
      /\ Frames(t) = 1 .. Len(t.stack) /\ Len(t.stack) \in Nat
  BY NodesAre DEF RootMeasures, Counted, ThreadOK
<1>2. Undead(t, m + d)
  BY <1>1 DEF Undead, DeadAt, Marked
<1>3. CASE t.stack = <<>>
  <2>1. RootTotal(t, m + d) = N
    BY <1>1, <1>3 DEF RootTotal
  <2> QED BY <1>1, <1>2, <1>3, <2>1 DEF RootMeasures
<1>4. CASE t.stack # <<>>
  <2> DEFINE r == t.call_tree
             a == t.nodes[r].total_time
             b == t.stack[1].start_time
  <2>1. 1 \in Frames(t) /\ t.stack[1] \in Frame /\ r \in Nodes(t) /\ r # NULL
        /\ t.nodes[r] \in Node
    <3>1. 1 \in Frames(t)
      BY <1>1, <1>4
    <3>2. t.stack[1] \in Frame
      BY <1>1, <3>1, NodesAre
    <3>3. t.stack[1].call_tree = r /\ t.stack[1].call_tree \in Nodes(t)
      BY <1>1, <3>1 DEF Counted, ThreadOK, RootPath
    <3> QED BY <1>1, <3>1, <3>2, <3>3, NodesAre DEF NULL
  <2>2. a \in Int /\ b \in Int
    BY <2>1 DEF Node, Frame
  <2>3. /\ RootTotal(t, m) = a + (m - b)
        /\ RootTotal(t, m + d) = a + ((m + d) - b)
    BY <1>4, <2>1 DEF RootTotal
  <2> HIDE DEF a, b
  <2>4. RootTotal(t, m + d) = N + d
    BY <1>1, <2>2, <2>3
  <2> QED BY <1>1, <1>2, <1>4, <2>4 DEF RootMeasures
<1> QED BY <1>3, <1>4

(* A new thread has measured nothing. *)
LEMMA NewRootMeasures ==
  ASSUME NEW trace \in BOOLEAN, NEW m
  PROVE  thread_data_create(trace) \in RootMeasures(m, 0)
<1> DEFINE t == thread_data_create(trace)
<1>1. t \in Counted
  BY NewCounted
<1>2. t.stack = <<>> /\ t.call_tree = NULL
  BY DEF thread_data_create
<1> HIDE DEF t
<1>3. Undead(t, m) /\ RootTotal(t, m) = 0
  BY <1>2 DEF Undead, Frames, RootTotal
<1> QED BY <1>1, <1>3 DEF RootMeasures, t
=============================================================================
