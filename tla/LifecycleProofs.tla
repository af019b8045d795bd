-------------------------- MODULE LifecycleProofs ---------------------------
(***************************************************************************)
(* What starting, pausing, switching and stopping leave behind. No frame   *)
(* is left when the profile has stopped, and none ever appears for a fiber *)
(* that is not traced: that fiber keeps its trace flag, which the hook     *)
(* tests, and its empty stack, and a stop empties the others. Of the       *)
(* frames of a paused profile only the top one is marked, and none is      *)
(* marked when it runs. What is left out of the time of a frame has passed *)
(* while the profile was paused. And the frames of a fiber mirror the      *)
(* stack of the program, of which the profiler is told calls and returns   *)
(* only, and not all of them.                                              *)
(***************************************************************************)
EXTENDS ProfilerProofs, PauseAudit, StackAudit

(* The threads of untraced fibers are as thread_data_create left them.     *)
UntracedIdle(tbl) ==
  \A f \in DOMAIN tbl \cap Untraced : ~tbl[f].trace /\ tbl[f].stack = <<>>

AllIdle(tbl) == \A f \in DOMAIN tbl : tbl[f].stack = <<>>

IdleOK == UntracedIdle(threads) /\ (~running => AllIdle(threads))

IdleInv == IInv /\ IdleOK

-----------------------------------------------------------------------------
(* A new thread is idle, and traced only if its fiber is. *)
LEMMA InsertIdle ==
  ASSUME NEW tbl, UntracedIdle(tbl), NEW f \in Fibers
  PROVE  UntracedIdle(threads_table_insert(tbl, f))
<1> DEFINE t == thread_data_create(f \notin Untraced)
           new == threads_table_insert(tbl, f)
<1>1. t.trace = (f \notin Untraced) /\ t.stack = <<>>
  BY DEF thread_data_create
<1> HIDE DEF t
<1>2. /\ DOMAIN new = DOMAIN tbl \cup {f}
      /\ \A g \in DOMAIN new : new[g] = IF g = f THEN t ELSE tbl[g]
  BY DEF threads_table_insert, t
<1> HIDE DEF new
<1>3. ASSUME NEW g \in DOMAIN new \cap Untraced
      PROVE  ~new[g].trace /\ new[g].stack = <<>>
  <2>1. CASE g = f
    BY <1>1, <1>2, <1>3, <2>1
  <2>2. CASE g # f
    BY <1>2, <1>3, <2>2 DEF UntracedIdle
  <2> QED BY <2>1, <2>2
<1>4. UntracedIdle(new)
  BY <1>3 DEF UntracedIdle
<1> QED BY <1>4 DEF new

(* Switching and pausing look for a top frame first.                       *)
LEMMA EmptyIsLeftAlone ==
  ASSUME NEW t, t.stack = <<>>, NEW m
  PROVE  SwitchIn(t, m) = t /\ SwitchOut(t, m) = t /\ pause_thread(t, m) = t
BY DEF SwitchIn, SwitchOut, pause_thread

(* Finding the fiber of an event, and switching to it, gives no frame to   *)
(* an untraced fiber.                                                      *)
LEMMA CheckFiberIdle ==
  ASSUME UntracedIdle(threads), NEW f \in Fibers, NEW m
  PROVE  UntracedIdle(check_fiber(f, m))
<1>1. CASE last = f
  BY <1>1 DEF check_fiber
<1>2. CASE last # f
  <2> DEFINE tbl == threads_table_fetch(threads, f)
             u == switch_thread(tbl, f, last, m)
  <2>1. UntracedIdle(tbl)
    BY InsertIdle DEF threads_table_fetch
  <2>2. check_fiber(f, m) = u
    BY <1>2 DEF check_fiber
  <2> HIDE DEF tbl
  <2>3. /\ DOMAIN u = DOMAIN tbl
        /\ \A g \in DOMAIN tbl : \/ u[g] = tbl[g]
                                 \/ u[g] = SwitchIn(tbl[g], m)
                                 \/ u[g] = SwitchOut(tbl[g], m)
    BY <1>2 DEF switch_thread
  <2> HIDE DEF u
  <2>4. ASSUME NEW g \in DOMAIN u \cap Untraced PROVE u[g] = tbl[g]
    <3>1. tbl[g].stack = <<>>
      BY <2>1, <2>3, <2>4 DEF UntracedIdle
    <3> QED BY <2>3, <2>4, <3>1, EmptyIsLeftAlone
  <2>5. UntracedIdle(u)
    BY <2>1, <2>3, <2>4 DEF UntracedIdle
  <2> QED BY <2>2, <2>5
<1> QED BY <1>1, <1>2

(* An event is handled only for a traced fiber. *)
LEMMA ObserveIdle ==
  ASSUME IdleInv, NEW f \in Fibers, NEW k \in Methods, NEW event, Observe(f, event, k)
  PROVE  IdleOK'
<1>1. CASE UNCHANGED profile
  BY <1>1 DEF profile, IdleInv, IdleOK
<1>2. ASSUME running, NEW m \in Readings, prof_event_hook(f, event, k, m) PROVE IdleOK'
  <2> DEFINE tbl == check_fiber(f, m)
             t == Handle(event, tbl[f], k, m)
  <2>1. UntracedIdle(tbl)
    BY CheckFiberIdle DEF IdleInv, IdleOK
  <2>2. /\ threads' = IF tbl[f].trace THEN [tbl EXCEPT ![f] = t] ELSE tbl
        /\ running'
    BY <1>2 DEF prof_event_hook
  <2> HIDE DEF tbl, t
  <2>3. CASE tbl[f].trace
    <3>1. /\ DOMAIN threads' = DOMAIN tbl
          /\ \A g \in DOMAIN tbl : g # f => threads'[g] = tbl[g]
      BY <2>2, <2>3
    <3>2. f \notin DOMAIN tbl \cap Untraced
      BY <2>1, <2>3 DEF UntracedIdle
    <3> QED BY <2>1, <2>2, <3>1, <3>2 DEF UntracedIdle, IdleOK
  <2>4. CASE ~tbl[f].trace
    BY <2>1, <2>2, <2>4 DEF UntracedIdle, IdleOK
  <2> QED BY <2>3, <2>4
<1> QED BY <1>1, <1>2 DEF Observe

(* A start adds an idle thread. *)
LEMMA StartIdle ==
  ASSUME IdleInv, NEW f \in Fibers, prof_start(f)
  PROVE  IdleOK'
<1> DEFINE new == threads_table_insert(threads, f)
<1>1. UntracedIdle(new)
  BY InsertIdle DEF IdleInv, IdleOK
<1>2. threads' = new /\ running'
  BY DEF prof_start
<1> HIDE DEF new
<1> QED BY <1>1, <1>2 DEF IdleOK, UntracedIdle

(* A pause marks top frames only. *)
LEMMA PauseIdle ==
  ASSUME running, NEW tbl, UntracedIdle(tbl), NEW m, prof_pause(tbl, m)
  PROVE  IdleOK'
<1>1. threads' = (IF paused THEN tbl ELSE [g \in DOMAIN tbl |-> pause_thread(tbl[g], m)])
      /\ running'
  BY DEF prof_pause
<1>2. DOMAIN threads' = DOMAIN tbl
  BY <1>1
<1>3. ASSUME NEW g \in DOMAIN tbl \cap Untraced PROVE threads'[g] = tbl[g]
  <2>1. pause_thread(tbl[g], m) = tbl[g]
    BY <1>3, EmptyIsLeftAlone DEF UntracedIdle
  <2> QED BY <1>1, <2>1
<1> QED BY <1>1, <1>2, <1>3 DEF IdleOK, UntracedIdle

(* A resume changes stacks only if none is empty, and then no fiber of the *)
(* table is untraced.                                                      *)
LEMMA ResumeIdle ==
  ASSUME running, NEW tbl, UntracedIdle(tbl), NEW m, prof_resume(tbl, m)
  PROVE  IdleOK'
<1>1. running'
  BY DEF prof_resume
<1>2. CASE threads' = tbl
  BY <1>1, <1>2 DEF IdleOK, UntracedIdle
<1>3. CASE /\ threads' = [g \in DOMAIN tbl |-> unpause_thread(tbl[g], m)]
           /\ \A g \in DOMAIN tbl : tbl[g].stack # <<>>
  <2>1. DOMAIN threads' \cap Untraced = {}
    BY <1>3 DEF UntracedIdle
  <2> QED BY <1>1, <2>1 DEF IdleOK, UntracedIdle
<1> QED BY <1>2, <1>3 DEF prof_resume

(* A stop empties all stacks, and finds those of untraced fibers empty.    *)
LEMMA StopIdle ==
  ASSUME NEW tbl, TableOK(tbl), UntracedIdle(tbl), NEW g, NEW m \in Nat,
         prof_stop(tbl, g, m)
  PROVE  IdleOK'
<1>1. threads' = [h \in DOMAIN tbl |-> pop_frames(tbl[h], h # g, m)]
  BY DEF prof_stop
<1>2. ASSUME NEW h \in DOMAIN tbl
      PROVE  LET t == pop_frames(tbl[h], h # g, m)
             IN  t.stack = <<>> /\ (tbl[h].stack = <<>> => t = tbl[h])
  <2> DEFINE t == IF h # g THEN SwitchIn(tbl[h], m) ELSE tbl[h]
  <2>1. ThreadOK(SwitchIn(tbl[h], m)) /\ ThreadOK(tbl[h])
    BY <1>2, SwitchOK DEF TableOK
  <2>2. ThreadOK(t)
    BY <2>1
  <2>3. tbl[h].stack = <<>> => t = tbl[h]
    BY EmptyIsLeftAlone
  <2> HIDE DEF t
  <2>4. /\ PopAll(t, m).stack = <<>>
        /\ t.stack = <<>> => PopAll(t, m) = t
    BY <2>2, PopAllOK
  <2>5. pop_frames(tbl[h], h # g, m) = PopAll(t, m)
    BY DEF pop_frames, t
  <2> QED BY <2>3, <2>4, <2>5
<1>3. AllIdle(threads')
  BY <1>1, <1>2 DEF AllIdle
<1>4. UntracedIdle(threads')
  BY <1>1, <1>2 DEF UntracedIdle
<1> QED BY <1>3, <1>4 DEF IdleOK, AllIdle, UntracedIdle

-----------------------------------------------------------------------------
(* Every step preserves the invariant: one step per action that calls into *)
(* the profile.                                                            *)
LEMMA NextIdle ==
  ASSUME IdleInv, [Next]_vars
  PROVE  IdleOK'
<1>1. ASSUME UNCHANGED profile PROVE IdleOK'
  BY <1>1 DEF profile, IdleInv, IdleOK
<1>2. rstack \in [Fibers -> Seq(Entry)] /\ TableOK(threads) /\ UntracedIdle(threads)
  BY DEF IdleInv, IdleOK, IInv, TypeOK
<1>3. ASSUME NEW f \in Fibers, rstack[f] # <<>> PROVE Top(f).method \in Methods
  BY <1>2, <1>3, TopTyped
<1>4. ASSUME NEW f \in Fibers, NEW m \in Readings
      PROVE  m \in Nat /\ UntracedIdle(check_fiber(f, m))
  <2>1. m \in Nat
    BY ReadingsAre, ProfilerAssumption DEF IdleInv, IInv
  <2> QED BY <1>2, <2>1, CheckFiberIdle
<1>5. CASE UNCHANGED vars
  BY <1>1, <1>5 DEF vars, profile
<1>6. ASSUME NEW f \in Fibers, NEW k \in Methods, Call(f, k) PROVE IdleOK'
  BY <1>6, ObserveIdle DEF Call
<1>7. ASSUME NEW f \in Fibers, Return(f) \/ Line(f) PROVE IdleOK'
  <2>1. PICK event \in {"return", "line"} : Observe(f, event, Top(f).method)
    BY <1>7 DEF Return, Line
  <2>2. rstack[f] # <<>>
    BY <1>7 DEF Return, Line, InRuby, CanRun
  <2> QED BY <1>3, <2>1, <2>2, ObserveIdle
<1>8. ASSUME NEW f \in Fibers, NEW k \in Methods, Yield(f, k) PROVE IdleOK'
  BY <1>1, <1>8 DEF Yield
<1>9. ASSUME NEW f \in Fibers, EndYield(f) PROVE IdleOK'
  BY <1>1, <1>9 DEF EndYield
<1>10. ASSUME NEW f \in Fibers, Start(f) \/ ProfileBlock(f) PROVE IdleOK'
  BY <1>10, StartIdle DEF Start, ProfileBlock
<1>11. ASSUME NEW f \in Fibers, Pause(f) PROVE IdleOK'
  BY <1>4, <1>11, PauseIdle DEF Pause
<1>12. ASSUME NEW f \in Fibers, Resume(f) \/ ResumeBlock(f) PROVE IdleOK'
  BY <1>4, <1>12, ResumeIdle DEF Resume, ResumeBlock
<1>13. ASSUME NEW f \in Fibers, Stop(f) PROVE IdleOK'
  <2>1. running
    BY <1>13 DEF Stop
  <2>2. PICK m \in Readings : prof_stop(check_fiber(f, m), f, m)
    BY <1>13 DEF Stop
  <2>3. TableOK(check_fiber(f, m))
    BY <1>4, <2>1, CheckFiberOK DEF IdleInv
  <2> QED BY <1>4, <2>2, <2>3, StopIdle
<1>14. ASSUME NEW f \in Fibers, EndProfileBlock(f) PROVE IdleOK'
  <2>1. CASE running
    <3>1. PICK m \in Readings : prof_stop(threads, last, m)
      BY <1>14, <2>1 DEF EndProfileBlock
    <3> QED BY <1>2, <1>4, <1>14, <3>1, StopIdle
  <2>2. CASE ~running
    BY <1>1, <1>14, <2>2 DEF EndProfileBlock
  <2> QED BY <2>1, <2>2
<1>15. ASSUME NEW f \in Fibers, EndResumeBlock(f) PROVE IdleOK'
  <2>1. CASE running
    BY <1>2, <1>15, <2>1, PauseIdle DEF EndResumeBlock
  <2>2. CASE ~running
    BY <1>1, <1>15, <2>2 DEF EndResumeBlock
  <2> QED BY <2>1, <2>2
<1> QED BY <1>5, <1>6, <1>7, <1>8, <1>9, <1>10, <1>11, <1>12, <1>13, <1>14, <1>15
        DEF Next

(* However fibers are interleaved, and whenever the profile is started,    *)
(* paused, resumed and stopped, from within a block or not: once it has    *)
(* stopped no fiber has a frame, and an untraced fiber never has one.      *)
THEOREM StoppedStaysIdle == Spec => []StoppedIsIdle
<1>1. Init => IdleInv
  <2>1. SUFFICES ASSUME Init PROVE IdleOK
    BY InitOK DEF IdleInv
  <2>2. DOMAIN threads = {}
    BY <2>1 DEF Init
  <2> QED BY <2>2 DEF IdleOK, UntracedIdle, AllIdle
<1>2. IdleInv /\ [Next]_vars => IdleInv'
  <2>1. SUFFICES ASSUME IdleInv, [Next]_vars PROVE IdleInv'
    OBVIOUS
  <2>2. IInv'
    BY <2>1, NextOK DEF IdleInv
  <2> QED BY <2>1, <2>2, NextIdle DEF IdleInv
<1>3. IdleInv => StoppedIsIdle
  <2>1. SUFFICES ASSUME IdleInv, NEW f \in DOMAIN threads, ~running \/ f \in Untraced
                 PROVE  threads[f].stack = <<>>
    BY DEF StoppedIsIdle
  <2> QED BY <2>1 DEF IdleInv, IdleOK, UntracedIdle, AllIdle
<1> QED BY <1>1, <1>2, <1>3, PTL DEF Spec

-----------------------------------------------------------------------------
(* Pause marks. *)

(* Only the top frame may be marked, and only if p.                        *)
Marked(stack, p) ==
  \A i \in 1 .. Len(stack) : Paused(stack[i]) => p /\ i = Len(stack)

Unmarked(stack) == \A i \in 1 .. Len(stack) : ~Paused(stack[i])

(* Replacing the top frame leaves the marks below it as they were: none.   *)
LEMMA TopReplaced ==
  ASSUME NEW stack \in Seq(Frame), stack # <<>>, NEW p, Marked(stack, p),
         NEW fr \in Frame, NEW q, Paused(fr) => q
  PROVE  Marked(SetLast(stack, fr), q)
<1> DEFINE s == SetLast(stack, fr)
<1>1. /\ Len(s) = Len(stack)
      /\ \A i \in 1 .. Len(stack) : s[i] = IF i = Len(stack) THEN fr ELSE stack[i]
  BY SetLastType
<1> HIDE DEF s
<1>2. ASSUME NEW i \in 1 .. Len(s), Paused(s[i]) PROVE q /\ i = Len(s)
  BY <1>1, <1>2 DEF Marked
<1>3. Marked(s, q)
  BY <1>2 DEF Marked
<1> QED BY <1>3 DEF s

(* The new frame and its parent, which prof_frame_push unpauses. *)
LEMMA PushMarked ==
  ASSUME NEW t \in Thread, NEW n \in Nodes(t), NEW m \in Nat, NEW q \in BOOLEAN,
         NEW p, q => p, Marked(t.stack, p)
  PROVE  Marked(prof_frame_push(t, n, m, q).stack, p)
<1> DEFINE new == NewFrame(n, m)
           frame == IF q THEN prof_frame_pause(new, m) ELSE new
           rest == UnpauseParent(t.stack, m)
           u == prof_frame_push(t, n, m, q)
<1>1. t.stack \in Seq(Frame) /\ n \in Nat
  BY NodesAre
<1>2. frame \in Frame
  BY <1>1, NewFrameType, PauseType
<1>3. Paused(frame) => q
  BY DEF NewFrame, Paused
<1>4. rest \in Seq(Frame) /\ Len(rest) = Len(t.stack)
  BY <1>1, UnpauseParentType
<1>5. Unmarked(rest)
  <2>1. CASE t.stack = <<>>
    BY <2>1 DEF UnpauseParent, Unmarked
  <2>2. CASE t.stack # <<>>
    <3> DEFINE top == prof_frame_unpause(Last(t.stack), m)
    <3>1. Last(t.stack) \in Frame
      BY <1>1, <2>2, LastType
    <3>2. top \in Frame
      BY <3>1, UnpauseType
    <3>3. ~Paused(top)
      BY <3>1 DEF prof_frame_unpause, Paused, Frame
    <3> HIDE DEF top
    <3>4. Marked(SetLast(t.stack, top), FALSE)
      BY <1>1, <2>2, <3>2, <3>3, TopReplaced
    <3> QED BY <2>2, <3>4 DEF UnpauseParent, Marked, Unmarked, top
  <2> QED BY <2>1, <2>2
<1>6. u.stack = Append(rest, frame)
  BY DEF prof_frame_push, Thread
<1> HIDE DEF u, rest, frame
<1>7. \A i \in 1 .. Len(u.stack) :
        u.stack[i] = IF i = Len(u.stack) THEN frame ELSE rest[i]
  BY <1>2, <1>4, <1>6
<1>8. ASSUME NEW i \in 1 .. Len(u.stack), Paused(u.stack[i])
      PROVE  p /\ i = Len(u.stack)
  <2>1. CASE i = Len(u.stack)
    BY <1>3, <1>7, <1>8, <2>1
  <2>2. CASE i # Len(u.stack)
    <3>1. i \in 1 .. Len(rest)
      BY <1>2, <1>4, <1>6, <2>2
    <3> QED BY <1>5, <1>7, <1>8, <2>2, <3>1 DEF Unmarked
  <2> QED BY <2>1, <2>2
<1>9. Marked(u.stack, p)
  BY <1>8 DEF Marked
<1> QED BY <1>9 DEF u

(* A pop uncovers a frame that was below the top, so an unmarked one.      *)
LEMMA PopMarked ==
  ASSUME NEW t, ThreadOK(t), NEW m \in Nat, NEW p, Marked(t.stack, p)
  PROVE  Marked(prof_frame_pop(t, m).stack, p)
<1>1. CASE t.stack = <<>>
  BY <1>1 DEF prof_frame_pop
<1>2. CASE t.stack # <<>>
  <2> DEFINE frame == prof_frame_unpause(Last(t.stack), m)
             total == m - frame.start_time - frame.dead_time
             rest  == SubSeq(t.stack, 1, Len(t.stack) - 1)
             stack == CreditParent(rest, total, frame.dead_time)
             u == prof_frame_pop(t, m)
  <2>1. t \in Thread /\ t.stack \in Seq(Frame)
    BY NodesAre DEF ThreadOK
  <2>2. frame \in Frame
    BY <1>2, <2>1, LastType, UnpauseType
  <2>3. u.stack = stack
    BY <1>2, <2>1 DEF prof_frame_pop, Thread
  <2> HIDE DEF frame, u
  <2>4. total \in Int /\ frame.dead_time \in Int
    BY <2>2 DEF Frame
  <2> HIDE DEF total
  <2>5. /\ rest \in Seq(Frame)
        /\ Len(rest) = Len(t.stack) - 1
        /\ \A i \in 1 .. Len(rest) : rest[i] = t.stack[i]
    BY <1>2, <2>1
  <2> HIDE DEF rest
  <2>6. Unmarked(rest)
    BY <2>1, <2>5 DEF Marked, Unmarked
  <2>7. Marked(stack, p)
    <3>1. CASE rest = <<>>
      BY <3>1 DEF CreditParent, Marked
    <3>2. CASE rest # <<>>
      <4> DEFINE top == Credited(Last(rest), total, frame.dead_time)
      <4>1. Last(rest) \in Frame /\ ~Paused(Last(rest))
        BY <2>5, <2>6, <3>2, LastType DEF Unmarked
      <4>2. top \in Frame
        BY <2>4, <4>1, CreditedType
      <4>3. ~Paused(top)
        BY <4>1 DEF Credited, Paused, Frame
      <4> HIDE DEF top
      <4>4. Marked(SetLast(rest, top), p)
        BY <2>5, <2>6, <3>2, <4>2, <4>3, TopReplaced DEF Marked, Unmarked
      <4> QED BY <3>2, <4>4 DEF CreditParent, top
    <3> QED BY <3>1, <3>2
  <2> QED BY <2>3, <2>7 DEF u
<1> QED BY <1>1, <1>2

(* Switching between fibers does not touch the marks, and pausing and      *)
(* resuming mark and unmark a top frame.                                   *)
LEMMA SwitchMarked ==
  ASSUME NEW t, ThreadOK(t), NEW m \in Nat, NEW p, Marked(t.stack, p)
  PROVE  /\ Marked(SwitchIn(t, m).stack, p) /\ Marked(SwitchOut(t, m).stack, p)
         /\ Marked(pause_thread(t, m).stack, TRUE)
         /\ t.stack # <<>> => Marked(unpause_thread(t, m).stack, FALSE)
<1> DEFINE top == prof_frame_current(t)
<1>1. t \in Thread /\ t.stack \in Seq(Frame)
  BY NodesAre DEF ThreadOK
<1>2. CASE t.stack = <<>>
  BY <1>2 DEF SwitchIn, SwitchOut, pause_thread, Marked
<1>3. CASE t.stack # <<>>
  <2>1. top \in Frame /\ (Paused(top) => p)
    BY <1>1, <1>3, LastType DEF prof_frame_current, Marked
  <2> HIDE DEF top
  <2>2. ASSUME NEW fr \in Frame, NEW q, Paused(fr) => q
        PROVE  Marked(SetCurrent(t, fr).stack, q)
    <3>1. SetCurrent(t, fr).stack = SetLast(t.stack, fr)
      BY <1>1 DEF SetCurrent, Thread
    <3> QED BY <1>1, <1>3, <2>2, <3>1, TopReplaced
  <2>3. Resumed(top, m) \in Frame /\ (Paused(Resumed(top, m)) => p)
    <3>1. Resumed(top, m).pause_time = top.pause_time
      BY <2>1 DEF Resumed, Frame
    <3> QED BY <2>1, <3>1, ResumedType DEF Paused
  <2>4. /\ [top EXCEPT !.switch_time = m] \in Frame
        /\ Paused([top EXCEPT !.switch_time = m]) => p
    BY <2>1 DEF Frame, Paused
  <2>5. prof_frame_pause(top, m) \in Frame
    BY <2>1, PauseType
  <2>6. prof_frame_unpause(top, m) \in Frame /\ ~Paused(prof_frame_unpause(top, m))
    <3>1. ~Paused(prof_frame_unpause(top, m))
      BY <2>1 DEF prof_frame_unpause, Paused, Frame
    <3> QED BY <2>1, <3>1, UnpauseType
  <2>7. Marked(SetCurrent(t, Resumed(top, m)).stack, p)
    BY <2>2, <2>3
  <2>8. Marked(SetCurrent(t, [top EXCEPT !.switch_time = m]).stack, p)
    BY <2>2, <2>4
  <2>9. Marked(SetCurrent(t, prof_frame_pause(top, m)).stack, TRUE)
    BY <2>2, <2>5
  <2>10. Marked(SetCurrent(t, prof_frame_unpause(top, m)).stack, FALSE)
    BY <2>2, <2>6
  <2> QED BY <1>3, <2>7, <2>8, <2>9, <2>10
          DEF SwitchIn, SwitchOut, pause_thread, unpause_thread, top
<1> QED BY <1>2, <1>3

-----------------------------------------------------------------------------
(* A new node leaves the frames alone, so every event only pushes and pops.*)
LEMMA CallChildMarked ==
  ASSUME NEW t, ThreadOK(t), t.stack # <<>>,
         NEW k \in Keys, NEW m \in Nat, paused \in BOOLEAN, Marked(t.stack, paused),
         LET top == Last(t.stack).call_tree
         IN  \/ t.nodes[top].children[k] = NULL
             \/ t.nodes[top].method = InsertedParent /\ Len(t.stack) = 1
  PROVE  Marked(CallChild(t, k, Last(t.stack).call_tree, m).stack, paused)
<1> DEFINE top == Last(t.stack).call_tree
           c == prof_call_tree_create(t, k, top)
           n == NewestNode(c)
           a == prof_call_tree_add_child(c, top, n)
<1>1. ThreadOK(a) /\ a.stack = t.stack /\ NewestNode(a) = n /\ n \in Nodes(a)
  BY NewChildOK
<1>2. CallChild(t, k, top, m) = prof_frame_push(a, n, m, paused)
  BY <1>1 DEF CallChild
<1> HIDE DEF a, n
<1>3. Marked(prof_frame_push(a, n, m, paused).stack, paused)
  BY <1>1, PushMarked DEF ThreadOK
<1> QED BY <1>2, <1>3

(* The first frame of a thread is marked only if the profile is paused. *)
LEMMA FirstFrameMarked ==
  ASSUME NEW t, ThreadOK(t), t.stack = <<>>, t.call_tree = NULL,
         NEW k \in Keys, NEW m \in Nat, paused \in BOOLEAN
  PROVE  Marked(FirstFrame(t, k, m).stack, paused)
<1> DEFINE c == prof_call_tree_create(t, k, NULL)
           n == NewestNode(c)
           d == [c EXCEPT !.call_tree = n]
<1>1. ThreadOK(d) /\ n \in Nodes(d) /\ GrownAbove(d, t, k)
  BY FirstTree, GrowFirst
<1>2. FirstFrame(t, k, m) = prof_frame_push(d, n, m, paused)
  BY DEF FirstFrame
<1> HIDE DEF d, n
<1>3. d.stack = <<>>
  BY <1>1 DEF GrownAbove, Grown
<1>4. Marked(d.stack, paused)
  BY <1>3 DEF Marked
<1>5. Marked(prof_frame_push(d, n, m, paused).stack, paused)
  BY <1>1, <1>4, PushMarked DEF ThreadOK
<1> QED BY <1>2, <1>5

(* prof_frame_unshift pushes a frame without a mark, whatever pause is on. *)
LEMMA ClimbMarked ==
  ASSUME NEW t, ThreadOK(t), t.stack = <<>>, t.call_tree # NULL,
         NEW k \in Keys, NEW m \in Nat, NEW p
  PROVE  Marked(Climb(t, k, m).stack, p)
<1> DEFINE n == Len(t.nodes) + 1
<1>1. PICK v \in Thread :
        /\ GrownAbove(v, t, k)
        /\ n \in Nodes(v)
        /\ Climb(t, k, m) = prof_frame_push(v, n, m, FALSE)
  BY ClimbStep
<1> HIDE DEF n
<1>2. v.stack = <<>>
  BY <1>1 DEF GrownAbove, Grown
<1>3. Marked(v.stack, p)
  BY <1>2 DEF Marked
<1>4. Marked(prof_frame_push(v, n, m, FALSE).stack, p)
  BY <1>1, <1>3, PushMarked
<1> QED BY <1>1, <1>4

(* The hook. *)
LEMMA LineEventMarked ==
  ASSUME NEW t, ThreadOK(t), NEW k \in Keys, NEW m \in Nat, paused \in BOOLEAN,
         Marked(t.stack, paused)
  PROVE  Marked(LineEvent(t, k, m).stack, paused)
<1> DEFINE u == create_method(t, k)
<1>1. ThreadOK(u) /\ u.stack = t.stack /\ u.call_tree = t.call_tree
  BY CreateMethodOK
<1> HIDE DEF u
<1>2. CASE t.stack # <<>>
  BY <1>2 DEF LineEvent
<1>3. CASE t.stack = <<>> /\ t.call_tree = NULL
  <2>1. Marked(FirstFrame(u, k, m).stack, paused)
    BY <1>1, <1>3, FirstFrameMarked
  <2> QED BY <1>3, <2>1 DEF LineEvent, u
<1>4. CASE t.stack = <<>> /\ t.call_tree # NULL
  <2>1. Marked(Climb(u, k, m).stack, paused)
    BY <1>1, <1>4, ClimbMarked
  <2> QED BY <1>4, <2>1 DEF LineEvent, u
<1> QED BY <1>2, <1>3, <1>4

(* A call unpauses the frame below the new one; a climb is followed by     *)
(* a push, so the unmarked dummy frame ends up below it.                   *)
LEMMA CallEventMarked ==
  ASSUME NEW t, ThreadOK(t), NEW k \in Keys, NEW m \in Nat, paused \in BOOLEAN,
         Marked(t.stack, paused)
  PROVE  Marked(CallEvent(t, k, m).stack, paused)
<1> DEFINE u == create_method(t, k)
<1>1. ThreadOK(u) /\ u.stack = t.stack /\ u.call_tree = t.call_tree
  BY CreateMethodOK
<1> HIDE DEF u
<1>2. CASE t.stack # <<>>
  <2> DEFINE top == Last(u.stack).call_tree
             child == u.nodes[top].children[k]
  <2>1. u.stack # <<>> /\ top \in Nodes(u)
    BY <1>1, <1>2, TopFrameNode
  <2>2. CASE child = NULL
    <3>1. Marked(CallChild(u, k, top, m).stack, paused)
      BY <1>1, <2>1, <2>2, CallChildMarked
    <3> QED BY <1>2, <2>2, <3>1 DEF CallEvent, CallFromFrame, prof_frame_current, u
  <2>3. CASE child # NULL
    <3>1. child \in Nodes(u)
      BY <1>1, <2>1, <2>3 DEF ThreadOK, RootedTree, LinkedNode
    <3> HIDE DEF child
    <3>2. Marked(prof_frame_push(u, child, m, paused).stack, paused)
      BY <1>1, <3>1, PushMarked DEF ThreadOK
    <3> QED BY <1>2, <2>3, <3>2 DEF CallEvent, CallFromFrame, prof_frame_current, child, u
  <2> QED BY <2>2, <2>3
<1>3. CASE t.stack = <<>> /\ t.call_tree = NULL
  <2>1. Marked(FirstFrame(u, k, m).stack, paused)
    BY <1>1, <1>3, FirstFrameMarked
  <2> QED BY <1>3, <2>1 DEF CallEvent, u
<1>4. CASE t.stack = <<>> /\ t.call_tree # NULL
  <2> DEFINE v == create_method(u, InsertedParent)
             w == Climb(v, InsertedParent, m)
  <2>1. InsertedParent \in Keys
    BY DEF Keys
  <2>2. ThreadOK(v) /\ v.stack = <<>> /\ v.call_tree # NULL
    BY <1>1, <1>4, <2>1, CreateMethodOK
  <2> HIDE DEF v
  <2>3. /\ ThreadOK(w)
        /\ Len(w.stack) = 1
        /\ Last(w.stack).call_tree = w.call_tree
        /\ KeyOf(w, w.call_tree) = InsertedParent
    BY <2>1, <2>2, ClimbOK
  <2>4. Marked(w.stack, paused)
    BY <2>1, <2>2, ClimbMarked
  <2> HIDE DEF w
  <2>5. w.stack # <<>> /\ w.nodes[w.call_tree].method = InsertedParent
    BY <2>3 DEF KeyOf
  <2>6. Marked(CallChild(w, k, w.call_tree, m).stack, paused)
    BY <2>3, <2>4, <2>5, CallChildMarked
  <2> QED BY <1>4, <2>6 DEF CallEvent, CallAboveRoot, u, v, w
<1> QED BY <1>2, <1>3, <1>4

(* So every event leaves at most the top frame marked. *)
LEMMA HandleMarked ==
  ASSUME NEW t, ThreadOK(t), NEW k \in Methods, NEW m \in Nat, paused \in BOOLEAN,
         Marked(t.stack, paused), NEW event \in {"line", "call", "return"}
  PROVE  Marked(Handle(event, t, k, m).stack, paused)
<1>1. k \in Keys
  BY DEF Keys
<1>2. Marked(ReturnEvent(t, k, m).stack, paused)
  <2> DEFINE u == create_method(t, k)
  <2>1. ThreadOK(u) /\ Marked(u.stack, paused)
    BY <1>1, CreateMethodOK
  <2> HIDE DEF u
  <2>2. Marked(prof_frame_pop(u, m).stack, paused)
    BY <2>1, PopMarked
  <2> QED BY <2>2 DEF ReturnEvent, u
<1>3. Marked(LineEvent(t, k, m).stack, paused) /\ Marked(CallEvent(t, k, m).stack, paused)
  BY <1>1, LineEventMarked, CallEventMarked
<1> QED BY <1>2, <1>3 DEF Handle

-----------------------------------------------------------------------------
(* The threads table. *)

MarkedTable(tbl, p) == \A f \in DOMAIN tbl : Marked(tbl[f].stack, p)

MarksOK == ~crashed => MarkedTable(threads, paused)

MarksInv == IdleInv /\ MarksOK

(* No frame, no mark. *)
LEMMA IdleUnmarked ==
  ASSUME NEW stack, stack = <<>>, NEW p
  PROVE  Marked(stack, p)
BY DEF Marked

(* A thread joins the table without frames. *)
LEMMA InsertMarked ==
  ASSUME NEW tbl, NEW p, MarkedTable(tbl, p), NEW f \in Fibers
  PROVE  MarkedTable(threads_table_insert(tbl, f), p)
<1>1. thread_data_create(f \notin Untraced).stack = <<>>
  BY DEF thread_data_create
<1>2. Marked(thread_data_create(f \notin Untraced).stack, p)
  BY <1>1, IdleUnmarked
<1> QED BY <1>2 DEF MarkedTable, threads_table_insert

(* A switch touches switch_time and wait_time, never a mark. *)
LEMMA CheckFiberMarked ==
  ASSUME IInv, running, NEW p, MarkedTable(threads, p), NEW f \in Fibers, NEW m \in Nat
  PROVE  MarkedTable(check_fiber(f, m), p)
<1>1. CASE last = f
  BY <1>1 DEF check_fiber
<1>2. CASE last # f
  <2> DEFINE tbl == threads_table_fetch(threads, f)
             u == switch_thread(tbl, f, last, m)
  <2>1. MarkedTable(tbl, p)
    BY InsertMarked DEF threads_table_fetch
  <2>2. TableOK(tbl)
    BY InsertOK DEF threads_table_fetch, IInv
  <2>3. check_fiber(f, m) = u
    BY <1>2 DEF check_fiber
  <2> HIDE DEF tbl
  <2>4. /\ DOMAIN u = DOMAIN tbl
        /\ \A g \in DOMAIN tbl : \/ u[g] = tbl[g]
                                 \/ u[g] = SwitchIn(tbl[g], m)
                                 \/ u[g] = SwitchOut(tbl[g], m)
    BY <1>2 DEF switch_thread
  <2> HIDE DEF u
  <2>5. ASSUME NEW g \in DOMAIN tbl PROVE Marked(u[g].stack, p)
    <3>1. ThreadOK(tbl[g]) /\ Marked(tbl[g].stack, p)
      BY <2>1, <2>2, <2>5 DEF TableOK, MarkedTable
    <3>2. Marked(SwitchIn(tbl[g], m).stack, p) /\ Marked(SwitchOut(tbl[g], m).stack, p)
      BY <3>1, SwitchMarked
    <3> QED BY <2>4, <2>5, <3>1, <3>2
  <2> QED BY <2>3, <2>4, <2>5 DEF MarkedTable
<1> QED BY <1>1, <1>2

(* An event that is recorded, of a traced fiber, and one that is not. *)
LEMMA ObserveMarked ==
  ASSUME IInv, MarkedTable(threads, paused), NEW f \in Fibers, NEW k \in Methods,
         NEW event \in {"line", "call", "return"}, Observe(f, event, k)
  PROVE  MarkedTable(threads', paused')
<1>1. CASE UNCHANGED profile
  BY <1>1 DEF profile
<1>2. ASSUME running, NEW m \in Readings, prof_event_hook(f, event, k, m)
      PROVE  MarkedTable(threads', paused')
  <2> DEFINE tbl == check_fiber(f, m)
             t == Handle(event, tbl[f], k, m)
  <2>1. m \in Nat /\ paused \in BOOLEAN
    BY ReadingsAre, ProfilerAssumption DEF IInv, TypeOK
  <2>2. MarkedTable(tbl, paused)
    BY <1>2, <2>1, CheckFiberMarked
  <2>3. TableOK(tbl) /\ f \in DOMAIN tbl
    BY <1>2, <2>1, CheckFiberOK
  <2>4. /\ threads' = IF tbl[f].trace THEN [tbl EXCEPT ![f] = t] ELSE tbl
        /\ paused' = paused
    BY <1>2 DEF prof_event_hook
  <2> HIDE DEF tbl
  <2>5. Marked(t.stack, paused)
    BY <2>1, <2>2, <2>3, HandleMarked DEF MarkedTable, TableOK
  <2> HIDE DEF t
  <2> QED BY <2>2, <2>3, <2>4, <2>5 DEF MarkedTable
<1> QED BY <1>1, <1>2 DEF Observe

(* A pause marks every top frame, a resume unmarks every one; a second     *)
(* pause or resume finds them so.                                          *)
LEMMA PauseMarked ==
  ASSUME NEW tbl, TableOK(tbl), paused \in BOOLEAN, MarkedTable(tbl, paused), NEW m \in Nat,
         prof_pause(tbl, m)
  PROVE  MarkedTable(threads', paused')
<1>1. paused' = TRUE
  BY DEF prof_pause
<1>2. CASE paused /\ threads' = tbl
  BY <1>1, <1>2
<1>3. CASE threads' = [g \in DOMAIN tbl |-> pause_thread(tbl[g], m)]
  <2>1. \A g \in DOMAIN tbl : Marked(pause_thread(tbl[g], m).stack, TRUE)
    BY SwitchMarked DEF TableOK, MarkedTable
  <2> QED BY <1>1, <1>3, <2>1 DEF MarkedTable
<1> QED BY <1>2, <1>3 DEF prof_pause

(* A resume that every stack survives takes all marks away. *)
LEMMA ResumeMarked ==
  ASSUME NEW tbl, TableOK(tbl), paused \in BOOLEAN, MarkedTable(tbl, paused), NEW m \in Nat,
         prof_resume(tbl, m), ~crashed'
  PROVE  MarkedTable(threads', paused')
<1>1. paused' = FALSE
  BY DEF prof_resume
<1>2. CASE ~paused /\ threads' = tbl
  BY <1>1, <1>2
<1>3. CASE /\ threads' = [g \in DOMAIN tbl |-> unpause_thread(tbl[g], m)]
           /\ \A g \in DOMAIN tbl : tbl[g].stack # <<>>
  <2>1. \A g \in DOMAIN tbl : Marked(unpause_thread(tbl[g], m).stack, FALSE)
    BY <1>3, SwitchMarked DEF TableOK, MarkedTable
  <2> QED BY <1>1, <1>3, <2>1 DEF MarkedTable
<1> QED BY <1>2, <1>3 DEF prof_resume

(* Every step keeps the marks in place: one step per action. A start finds *)
(* no frame, a stop leaves none.                                           *)
LEMMA NextMarked ==
  ASSUME MarksInv, [Next]_vars
  PROVE  MarksOK'
<1>1. ASSUME UNCHANGED profile PROVE MarksOK'
  BY <1>1 DEF profile, MarksInv, MarksOK
<1>2. /\ IInv /\ IdleOK /\ TableOK(threads)
      /\ rstack \in [Fibers -> Seq(Entry)]
      /\ paused \in BOOLEAN
  BY DEF MarksInv, IdleInv, IInv, TypeOK
<1>3. ASSUME NEW f \in Fibers, rstack[f] # <<>> PROVE Top(f).method \in Methods
  BY <1>2, <1>3, TopTyped
<1>4. ASSUME NEW m \in Readings PROVE m \in Nat
  BY <1>2, ReadingsAre, ProfilerAssumption DEF IInv
<1>5. CASE UNCHANGED vars
  BY <1>1, <1>5 DEF vars, profile
<1>6. ASSUME NEW f \in Fibers, CanRun(f) PROVE MarkedTable(threads, paused)
  BY <1>6 DEF CanRun, MarksInv, MarksOK
<1>7. ASSUME NEW f \in Fibers, CanRun(f), running, NEW m \in Readings
      PROVE  TableOK(check_fiber(f, m)) /\ MarkedTable(check_fiber(f, m), paused)
  BY <1>2, <1>4, <1>6, <1>7, CheckFiberOK, CheckFiberMarked
<1>8. ASSUME AllIdle(threads') PROVE MarksOK'
  BY <1>8, IdleUnmarked DEF AllIdle, MarksOK, MarkedTable
<1>9. ASSUME NEW f \in Fibers, NEW k \in Methods, Call(f, k) PROVE MarksOK'
  BY <1>2, <1>6, <1>9, ObserveMarked DEF Call, CanPush, MarksOK
<1>10. ASSUME NEW f \in Fibers, Return(f) \/ Line(f) PROVE MarksOK'
  <2>1. PICK event \in {"return", "line"} : Observe(f, event, Top(f).method)
    BY <1>10 DEF Return, Line
  <2>2. CanRun(f) /\ rstack[f] # <<>>
    BY <1>10 DEF Return, Line, InRuby, CanRun
  <2> QED BY <1>2, <1>3, <1>6, <2>1, <2>2, ObserveMarked DEF MarksOK
<1>11. ASSUME NEW f \in Fibers, NEW k \in Methods, Yield(f, k) PROVE MarksOK'
  BY <1>1, <1>11 DEF Yield
<1>12. ASSUME NEW f \in Fibers, EndYield(f) PROVE MarksOK'
  BY <1>1, <1>12 DEF EndYield
<1>13. ASSUME NEW f \in Fibers, Start(f) \/ ProfileBlock(f) PROVE MarksOK'
  <2>1. ~running /\ threads' = threads_table_insert(threads, f)
    BY <1>13 DEF Start, ProfileBlock, prof_start
  <2>2. MarkedTable(threads, paused')
    BY <1>2, <2>1, IdleUnmarked DEF IdleOK, AllIdle, MarkedTable
  <2> QED BY <2>1, <2>2, InsertMarked DEF MarksOK
<1>14. ASSUME NEW f \in Fibers, Pause(f) PROVE MarksOK'
  <2>1. running /\ CanRun(f)
    BY <1>14 DEF Pause, InRuby
  <2>2. PICK m \in Readings : prof_pause(check_fiber(f, m), m)
    BY <1>14 DEF Pause
  <2> QED BY <1>2, <1>4, <1>7, <2>1, <2>2, PauseMarked DEF MarksOK
<1>15. ASSUME NEW f \in Fibers, Resume(f) \/ ResumeBlock(f) PROVE MarksOK'
  <2>1. running /\ CanRun(f)
    BY <1>15 DEF Resume, ResumeBlock, InRuby
  <2>2. PICK m \in Readings : prof_resume(check_fiber(f, m), m)
    BY <1>15 DEF Resume, ResumeBlock
  <2> QED BY <1>2, <1>4, <1>7, <2>1, <2>2, ResumeMarked DEF MarksOK
<1>16. ASSUME NEW f \in Fibers, NEW tbl, TableOK(tbl), UntracedIdle(tbl), NEW g,
             NEW m \in Readings, prof_stop(tbl, g, m)
       PROVE  MarksOK'
  <2>1. IdleOK' /\ running' = FALSE
    BY <1>4, <1>16, StopIdle DEF prof_stop
  <2> QED BY <1>8, <2>1 DEF IdleOK, AllIdle
<1>17. ASSUME NEW f \in Fibers, Stop(f) PROVE MarksOK'
  <2>1. running /\ CanRun(f)
    BY <1>17 DEF Stop, InRuby
  <2>2. PICK m \in Readings : prof_stop(check_fiber(f, m), f, m)
    BY <1>17 DEF Stop
  <2>3. UntracedIdle(check_fiber(f, m))
    BY <1>2, <1>4, CheckFiberIdle DEF IdleOK
  <2> QED BY <1>7, <1>16, <2>1, <2>2, <2>3
<1>18. ASSUME NEW f \in Fibers, EndProfileBlock(f) PROVE MarksOK'
  <2>1. UNCHANGED profile \/ \E m \in Readings : prof_stop(threads, last, m)
    BY <1>18 DEF EndProfileBlock
  <2>2. UntracedIdle(threads)
    BY <1>2 DEF IdleOK
  <2> QED BY <1>1, <1>2, <1>16, <2>1, <2>2
<1>19. ASSUME NEW f \in Fibers, EndResumeBlock(f) PROVE MarksOK'
  <2>1. UNCHANGED profile \/ \E m \in Readings : prof_pause(threads, m)
    BY <1>19 DEF EndResumeBlock
  <2>2. MarkedTable(threads, paused)
    BY <1>6, <1>19 DEF EndResumeBlock
  <2> QED BY <1>1, <1>2, <1>4, <2>1, <2>2, PauseMarked DEF MarksOK
<1> QED BY <1>5, <1>9, <1>10, <1>11, <1>12, <1>13, <1>14, <1>15, <1>17, <1>18, <1>19
        DEF Next

(* Whatever pauses, resumes, fiber switches and calls do to each other: a  *)
(* frame that carries a pause mark is on top of its fiber's stack and the  *)
(* profile is paused, so prof_frame_unpause will find the mark in time.    *)
THEOREM PauseMarksStayOnTop == Spec => []PauseMarksOnTop
<1>1. Init => MarksInv
  <2>1. SUFFICES ASSUME Init PROVE MarksInv
    OBVIOUS
  <2>2. IInv
    BY <2>1, InitOK
  <2>3. DOMAIN threads = {}
    BY <2>1 DEF Init
  <2>4. IdleOK
    BY <2>3 DEF IdleOK, UntracedIdle, AllIdle
  <2> QED BY <2>2, <2>3, <2>4 DEF MarksInv, IdleInv, MarksOK, MarkedTable
<1>2. MarksInv /\ [Next]_vars => MarksInv'
  <2>1. SUFFICES ASSUME MarksInv, [Next]_vars PROVE MarksInv'
    OBVIOUS
  <2>2. IInv'
    BY <2>1, NextOK DEF MarksInv, IdleInv
  <2> QED BY <2>1, <2>2, NextIdle, NextMarked DEF MarksInv, IdleInv
<1>3. MarksInv => PauseMarksOnTop
  <2>1. SUFFICES ASSUME MarksInv, ~crashed, NEW f \in DOMAIN threads
                 PROVE  \A i \in Frames(threads[f]) : Paused(threads[f].stack[i]) =>
                           paused /\ i = Len(threads[f].stack)
    BY DEF PauseMarksOnTop
  <2>2. threads[f] \in Thread
    BY <2>1 DEF MarksInv, IdleInv, IInv, TypeOK
  <2>3. Frames(threads[f]) = 1 .. Len(threads[f].stack)
    BY <2>2, NodesAre
  <2> QED BY <2>1, <2>3 DEF MarksInv, MarksOK, MarkedTable, Marked
<1> QED BY <1>1, <1>2, <1>3, PTL DEF Spec

-----------------------------------------------------------------------------
(* Live time. *)

(* The dead times of frame i and of those above it, whose dead times it    *)
(* will be handed, at the reading m.                                       *)
Deads(t, i, m) == [j \in i .. Len(t.stack) |-> DeadAt(t.stack[j], m)]

(* The units of U after the reading s.                                     *)
Since(U, s) == {x \in U : x > s}

(* They are no more than what has passed of U since the frame began.       *)
Live(t, m, U) ==
  \A i \in Frames(t) :
    /\ t.stack[i].start_time <= m
    /\ SumFunction(Deads(t, i, m)) <= Cardinality(Since(U, t.stack[i].start_time))

Lively(m, U) == {t \in Thread : ThreadOK(t) /\ Live(t, m, U)}

(* The sum is over finitely many integers. *)
LEMMA DeadsTyped ==
  ASSUME NEW t \in Thread, NEW i \in Frames(t), NEW m \in Nat
  PROVE  /\ IsFiniteSet(i .. Len(t.stack))
         /\ Deads(t, i, m) \in [i .. Len(t.stack) -> Int]
         /\ SumFunction(Deads(t, i, m)) \in Int
         /\ t.stack[i].start_time \in Nat
         /\ Len(t.stack) \in i .. Len(t.stack)
         /\ \A j \in i .. Len(t.stack) : j \in Frames(t)
<1>1. /\ Frames(t) = 1 .. Len(t.stack) /\ Len(t.stack) \in Nat
      /\ \A j \in Frames(t) : t.stack[j] \in Frame
  BY NodesAre
<1>2. \A j \in i .. Len(t.stack) : j \in Frames(t)
  BY <1>1
<1>3. IsFiniteSet(i .. Len(t.stack))
  BY <1>1, FS_Interval
<1>4. \A j \in i .. Len(t.stack) : DeadAt(t.stack[j], m) \in Int
  <2>1. SUFFICES ASSUME NEW j \in i .. Len(t.stack) PROVE DeadAt(t.stack[j], m) \in Int
    OBVIOUS
  <2>2. t.stack[j].dead_time \in Int /\ t.stack[j].pause_time \in Int
    BY <1>1, <1>2 DEF Frame
  <2> QED BY <2>2 DEF DeadAt
<1>5. Deads(t, i, m) \in [i .. Len(t.stack) -> Int]
  BY <1>4 DEF Deads
<1>6. SumFunction(Deads(t, i, m)) \in Int
  BY <1>3, <1>5, SumType
<1>7. t.stack[i].start_time \in Nat
  BY <1>1 DEF Frame
<1>8. Len(t.stack) \in i .. Len(t.stack)
  BY <1>1
<1> QED BY <1>2, <1>3, <1>5, <1>6, <1>7, <1>8

(* A switch or a pause at m changes no dead time at m. *)
LEMMA AlikeLively ==
  ASSUME NEW m \in Nat, NEW U, NEW t \in Lively(m, U), NEW u, ThreadOK(u),
         AlikeAt(u, t, m)
  PROVE  u \in Lively(m, U)
<1>1. t \in Thread /\ u \in Thread /\ Live(t, m, U)
  BY DEF Lively, ThreadOK
<1>2. /\ Len(u.stack) = Len(t.stack)
      /\ \A i \in Frames(t) : /\ u.stack[i].start_time = t.stack[i].start_time
                              /\ DeadAt(u.stack[i], m) = DeadAt(t.stack[i], m)
  BY DEF AlikeAt, Alike, Touched, SameTimes, Switched
<1>3. Frames(t) = 1 .. Len(t.stack) /\ Frames(u) = Frames(t)
  BY <1>1, <1>2, NodesAre
<1>4. ASSUME NEW i \in Frames(t) PROVE Deads(u, i, m) = Deads(t, i, m)
  <2>1. \A j \in i .. Len(t.stack) : j \in Frames(t)
    BY <1>1, DeadsTyped
  <2> QED BY <1>2, <2>1 DEF Deads
<1>5. Live(u, m, U)
  BY <1>1, <1>2, <1>3, <1>4 DEF Live
<1> QED BY <1>1, <1>5 DEF Lively

(* A new frame has no dead time. *)
LEMMA PushLively ==
  ASSUME NEW m \in Nat, NEW U, IsFiniteSet(U), NEW t \in Lively(m, U),
         NEW u, ThreadOK(u), NEW n, PushedAt(u, t, n, m)
  PROVE  u \in Lively(m, U)
<1> DEFINE N == Len(t.stack)
<1>1. t \in Thread /\ u \in Thread /\ Live(t, m, U)
  BY DEF Lively, ThreadOK
<1>2. /\ Len(u.stack) = N + 1 /\ N \in Nat
      /\ Frames(t) = 1 .. N /\ Frames(u) = 1 .. N + 1
  BY <1>1, NodesAre DEF PushedAt, PushedOn, StackPushed
<1>3. /\ \A i \in Frames(t) : /\ u.stack[i].start_time = t.stack[i].start_time
                              /\ DeadAt(u.stack[i], m) = DeadAt(t.stack[i], m)
      /\ u.stack[N + 1].start_time = m /\ DeadAt(u.stack[N + 1], m) = 0
  BY <1>2 DEF PushedAt, SameTimes, StartsAt
<1>4. N = Len(t.stack)
  OBVIOUS
<1> HIDE DEF N
<1>5. ASSUME NEW i \in Frames(t) PROVE SumFunction(Deads(u, i, m)) = SumFunction(Deads(t, i, m))
  <2>1. /\ IsFiniteSet(i .. N) /\ Deads(t, i, m) \in [i .. N -> Int]
        /\ SumFunction(Deads(t, i, m)) \in Int
        /\ \A j \in i .. N : j \in Frames(t)
    BY <1>1, <1>4, DeadsTyped
  <2>2. i .. N + 1 = (i .. N) \cup {N + 1} /\ N + 1 \notin i .. N /\ i \in Frames(u)
    BY <1>2
  <2>3. Deads(u, i, m) \in [(i .. N) \cup {N + 1} -> Int]
    BY <1>1, <1>2, <2>2, DeadsTyped
  <2>4. /\ \A j \in i .. N : Deads(u, i, m)[j] = Deads(t, i, m)[j]
        /\ Deads(u, i, m)[N + 1] = 0
    BY <1>2, <1>3, <1>4, <2>1, <2>2 DEF Deads
  <2>5. AddedAt(Deads(u, i, m), Deads(t, i, m), i .. N, N + 1)
    BY <2>1, <2>2, <2>3, <2>4 DEF AddedAt
  <2> QED BY <2>1, <2>4, <2>5, SumAdded
<1>6. SumFunction(Deads(u, N + 1, m)) = 0
  <2>1. N + 1 \in Frames(u) /\ N + 1 .. N + 1 = {N + 1}
    BY <1>2
  <2>2. Deads(u, N + 1, m) \in [{N + 1} -> Int]
    BY <1>1, <1>2, <2>1, DeadsTyped
  <2>3. Deads(u, N + 1, m)[N + 1] = 0
    BY <1>2, <1>3, <2>1 DEF Deads
  <2> QED BY <2>2, <2>3, SumOfOne
<1>7. ASSUME NEW i \in Frames(u)
      PROVE  /\ u.stack[i].start_time <= m
             /\ SumFunction(Deads(u, i, m)) <= Cardinality(Since(U, u.stack[i].start_time))
  <2>1. CASE i \in Frames(t)
    BY <1>1, <1>3, <1>5, <2>1 DEF Live
  <2>2. CASE i = N + 1
    <3>1. Since(U, m) \in SUBSET U
      BY DEF Since
    <3>2. IsFiniteSet(Since(U, m))
      BY <3>1, FS_Subset
    <3>3. Cardinality(Since(U, m)) \in Nat
      BY <3>2, FS_CardinalityType
    <3> QED BY <1>3, <1>6, <2>2, <3>3
  <2> QED BY <1>2, <2>1, <2>2
<1>8. Live(u, m, U)
  BY <1>7 DEF Live
<1> QED BY <1>1, <1>8 DEF Lively

(* A popped frame hands its dead time to its parent frame.                 *)
LEMMA PopLively ==
  ASSUME NEW m \in Nat, NEW U, NEW t \in Lively(m, U), NEW u, ThreadOK(u),
         NEW n, PoppedAt(u, t, n, m)
  PROVE  u \in Lively(m, U)
<1> DEFINE N == Len(u.stack)
           top   == t.stack[Len(t.stack)]
           dead  == DeadAt(top, m)
           total == m - top.start_time - dead
<1>1. t \in Thread /\ u \in Thread /\ Live(t, m, U)
  BY DEF Lively, ThreadOK
<1>2. /\ Len(t.stack) = N + 1 /\ N \in Nat
      /\ Frames(u) = 1 .. N /\ Frames(t) = 1 .. N + 1
  BY <1>1, NodesAre DEF PoppedAt, StackPushed
<1>3. \A i \in Frames(u) :
        u.stack[i] = IF i = N THEN Credited(t.stack[i], total, dead) ELSE t.stack[i]
  BY DEF PoppedAt
<1>4. /\ dead = DeadAt(t.stack[N + 1], m)
      /\ N = Len(u.stack)
  BY <1>2
<1>5. dead \in Int /\ \A i \in Frames(t) : /\ t.stack[i] \in Frame
                                           /\ DeadAt(t.stack[i], m) \in Int
  <2>1. \A i \in Frames(t) : t.stack[i] \in Frame
    BY <1>1, NodesAre
  <2>2. \A i \in Frames(t) : t.stack[i].dead_time \in Int /\ t.stack[i].pause_time \in Int
    BY <2>1 DEF Frame
  <2>3. \A i \in Frames(t) : DeadAt(t.stack[i], m) \in Int
    BY <2>2 DEF DeadAt
  <2>4. N + 1 \in Frames(t)
    BY <1>2
  <2> HIDE DEF dead, N
  <2> QED BY <1>4, <2>1, <2>3, <2>4
<1> HIDE DEF N, top, dead, total
<1>6. ASSUME NEW i \in Frames(u)
      PROVE  /\ i \in Frames(t)
             /\ u.stack[i].start_time = t.stack[i].start_time
             /\ DeadAt(u.stack[i], m) = DeadAt(t.stack[i], m) + (IF i = N THEN dead ELSE 0)
  <2>1. i \in Frames(t)
    BY <1>2
  <2>2. t.stack[i] \in Frame /\ DeadAt(t.stack[i], m) \in Int
    BY <1>5, <2>1
  <2>3. u.stack[i] = IF i = N THEN Credited(t.stack[i], total, dead) ELSE t.stack[i]
    BY <1>3
  <2>4. CASE i = N
    <3>1. /\ u.stack[i].start_time = t.stack[i].start_time
          /\ u.stack[i].pause_time = t.stack[i].pause_time
          /\ u.stack[i].dead_time = t.stack[i].dead_time + dead
      BY <2>2, <2>3, <2>4 DEF Credited, Frame
    <3>2. t.stack[i].dead_time \in Int /\ t.stack[i].pause_time \in Int
      BY <2>2 DEF Frame
    <3> DEFINE pause == IF Paused(t.stack[i]) THEN m - t.stack[i].pause_time ELSE 0
    <3>3. pause \in Int
      BY <3>2
    <3>4. DeadAt(t.stack[i], m) = t.stack[i].dead_time + pause
      BY DEF DeadAt
    <3>5. DeadAt(u.stack[i], m) = (t.stack[i].dead_time + dead) + pause
      BY <3>1 DEF DeadAt, Paused
    <3> HIDE DEF pause
    <3>6. (t.stack[i].dead_time + dead) + pause = (t.stack[i].dead_time + pause) + dead
      BY <1>5, <3>2, <3>3
    <3> QED BY <2>1, <2>4, <3>1, <3>4, <3>5, <3>6
  <2>5. CASE i # N
    BY <2>1, <2>2, <2>3, <2>5
  <2> QED BY <2>4, <2>5
<1>7. ASSUME NEW i \in Frames(u) PROVE SumFunction(Deads(u, i, m)) = SumFunction(Deads(t, i, m))
  <2> DEFINE g == [j \in i .. N |-> DeadAt(t.stack[j], m)]
  <2>1. /\ IsFiniteSet(i .. N) /\ Deads(u, i, m) \in [i .. N -> Int]
        /\ \A j \in i .. N : j \in Frames(u)
        /\ N \in i .. N
    BY <1>1, <1>4, DeadsTyped
  <2>2. g \in [i .. N -> Int]
    BY <1>5, <1>6, <2>1
  <2>3. \A j \in i .. N : Deads(u, i, m)[j] = g[j] + (IF j = N THEN dead ELSE 0)
    BY <1>4, <1>6, <2>1 DEF Deads
  <2>4. \A j \in i .. N : Deads(t, i, m)[j] = g[j]
    BY <1>2 DEF Deads
  <2>5. i .. N + 1 = (i .. N) \cup {N + 1} /\ N + 1 \notin i .. N /\ i \in Frames(t)
    BY <1>2
  <2>6. Deads(t, i, m) \in [(i .. N) \cup {N + 1} -> Int]
    BY <1>1, <1>2, <2>5, DeadsTyped
  <2>7. Deads(t, i, m)[N + 1] = dead
    BY <1>2, <1>4, <2>5 DEF Deads
  <2> HIDE DEF g
  <2>8. SumFunction(Deads(u, i, m)) = SumFunction(g) + dead
    <3>1. MovedAt(Deads(u, i, m), g, i .. N, N, dead)
      BY <1>5, <2>1, <2>2, <2>3 DEF MovedAt
    <3>2. SumFunction(Deads(u, i, m)) = SumFunction(g) + (IF N \in i .. N THEN dead ELSE 0)
      BY <3>1, SumMoved
    <3> QED BY <2>1, <3>2
  <2>9. SumFunction(Deads(t, i, m)) = SumFunction(g) + dead
    <3>1. AddedAt(Deads(t, i, m), g, i .. N, N + 1)
      BY <2>1, <2>2, <2>4, <2>5, <2>6 DEF AddedAt
    <3> QED BY <2>7, <3>1, SumAdded
  <2> QED BY <2>8, <2>9
<1>8. Live(u, m, U)
  BY <1>1, <1>6, <1>7 DEF Live
<1> QED BY <1>1, <1>8 DEF Lively

(* So whatever is done at m keeps the dead times at m within U. *)
LEMMA LivelyKept ==
  ASSUME NEW m \in Nat, NEW U, IsFiniteSet(U)
  PROVE  KeptAt(Lively(m, U), m)
<1> DEFINE S == Lively(m, U)
<1>1. \A t \in S : ThreadOK(t)
  BY DEF Lively
<1>2. ASSUME NEW trace \in BOOLEAN PROVE thread_data_create(trace) \in S
  <2> DEFINE t == thread_data_create(trace)
  <2>1. ThreadOK(t) /\ t \in Thread
    BY NewThreadOK DEF ThreadOK
  <2>2. Frames(t) = {}
    BY DEF thread_data_create, Frames
  <2> HIDE DEF t
  <2> QED BY <2>1, <2>2 DEF Lively, Live, t
<1>3. ASSUME NEW t \in S, NEW u \in Thread, ThreadOK(u), u.stack = t.stack PROVE u \in S
  BY <1>3 DEF Lively, Live, Deads, Frames
<1>4. KeptBelow(S) /\ KeptAbove(S)
  BY <1>3 DEF KeptBelow, KeptAbove, GrownBelow, GrownAbove, Grown
<1>5. KeptGrowing(S)
  BY <1>1, <1>2, <1>4 DEF KeptGrowing
<1>6. \A t \in S, u \in Thread : ThreadOK(u) /\ AlikeAt(u, t, m) => u \in S
  BY AlikeLively
<1>7. \A t \in S, u \in Thread : \A n \in Nodes(t) :
        ThreadOK(u) /\ Reachable(t, n) /\ PushedAt(u, t, n, m) => u \in S
  BY PushLively
<1>8. \A t \in S, u \in Thread : \A n \in Nodes(t) :
        ThreadOK(u) /\ t.stack # <<>> /\ PoppedAt(u, t, n, m) => u \in S
  BY PopLively
<1> HIDE DEF S
<1>9. KeptAt(S, m)
  BY <1>5, <1>6, <1>7, <1>8 DEF KeptAt
<1> QED BY <1>9 DEF S

(* While the profile is paused the top frame, which is marked, collects    *)
(* dead time unit by unit; while it runs no frame is marked.               *)
LEMMA TimePasses ==
  ASSUME NEW m \in Nat, NEW l \in Nat, m <= l, NEW U \in SUBSET (1 .. m),
         NEW p \in BOOLEAN, NEW t \in Lively(m, U), Marked(t.stack, p)
  PROVE  t \in Lively(l, U \cup IF p THEN (m + 1) .. l ELSE {})
<1> DEFINE N == Len(t.stack)
           V == U \cup IF p THEN (m + 1) .. l ELSE {}
<1>1. t \in Thread /\ ThreadOK(t) /\ Live(t, m, U)
  BY DEF Lively
<1>2. /\ N \in Nat /\ Frames(t) = 1 .. N
      /\ \A j \in Frames(t) : t.stack[j] \in Frame
  BY <1>1, NodesAre
<1>3. IsFiniteSet(1 .. m) /\ IsFiniteSet((m + 1) .. l)
      /\ Cardinality((m + 1) .. l) = l - m
  <2>1. m + 1 \in Int /\ l \in Int /\ 1 \in Int /\ m \in Int
    OBVIOUS
  <2>2. /\ IsFiniteSet((m + 1) .. l)
        /\ Cardinality((m + 1) .. l) = IF m + 1 > l THEN 0 ELSE l - (m + 1) + 1
    BY <2>1, FS_Interval
  <2>3. IsFiniteSet(1 .. m)
    BY <2>1, FS_Interval
  <2>4. (IF m + 1 > l THEN 0 ELSE l - (m + 1) + 1) = l - m
    OBVIOUS
  <2> QED BY <2>2, <2>3, <2>4
<1>4. IsFiniteSet(U)
  BY <1>3, FS_Subset
<1> HIDE DEF N
<1>5. ASSUME NEW s \in Nat, s <= m
      PROVE  /\ Cardinality(Since(U, s)) \in Nat
             /\ Cardinality(Since(V, s))
                  = Cardinality(Since(U, s)) + (IF p THEN l - m ELSE 0)
  <2>1. Since(U, s) \in SUBSET U
    BY DEF Since
  <2>2. IsFiniteSet(Since(U, s))
    BY <1>4, <2>1, FS_Subset
  <2>3. Cardinality(Since(U, s)) \in Nat
    BY <2>2, FS_CardinalityType
  <2>4. CASE ~p
    <3>1. V = U
      BY <2>4
    <3> QED BY <2>3, <2>4, <3>1
  <2>5. CASE p
    <3>1. Since(V, s) = Since(U, s) \cup ((m + 1) .. l)
      BY <1>5, <2>5 DEF Since
    <3>2. Since(U, s) \cap ((m + 1) .. l) = {}
      BY DEF Since
    <3>3. Cardinality(Since(U, s) \cap ((m + 1) .. l)) = 0
      BY <3>2, FS_EmptySet
    <3>4. Cardinality(Since(V, s))
            = Cardinality(Since(U, s)) + Cardinality((m + 1) .. l)
                - Cardinality(Since(U, s) \cap ((m + 1) .. l))
      BY <1>3, <2>2, <3>1, FS_Union
    <3> QED BY <1>3, <2>3, <2>5, <3>3, <3>4
  <2> QED BY <2>4, <2>5, <2>3
<1> HIDE DEF V
<1> DEFINE more == IF N \in Frames(t) /\ Paused(t.stack[N]) THEN l - m ELSE 0
<1>6. /\ more \in Int /\ more <= (IF p THEN l - m ELSE 0)
      /\ \A j \in Frames(t) : DeadAt(t.stack[j], l)
                                = DeadAt(t.stack[j], m) + (IF j = N THEN more ELSE 0)
  <2>1. more \in Int /\ more <= (IF p THEN l - m ELSE 0)
    <3>1. N \in Frames(t) /\ Paused(t.stack[N]) => p
      BY <1>2 DEF Marked, N
    <3> QED BY <3>1
  <2>2. ASSUME NEW j \in Frames(t)
        PROVE  DeadAt(t.stack[j], l) = DeadAt(t.stack[j], m) + (IF j = N THEN more ELSE 0)
    <3>1. t.stack[j].dead_time \in Int /\ t.stack[j].pause_time \in Int
      BY <1>2 DEF Frame
    <3>2. CASE Paused(t.stack[j])
      <4>1. j = N
        BY <1>2, <3>2 DEF Marked, N
      <4>2. more = l - m
        BY <3>2, <4>1
      <4>3. /\ DeadAt(t.stack[j], l) = t.stack[j].dead_time + (l - t.stack[j].pause_time)
            /\ DeadAt(t.stack[j], m) = t.stack[j].dead_time + (m - t.stack[j].pause_time)
        BY <3>2 DEF DeadAt
      <4> HIDE DEF more
      <4> QED BY <3>1, <4>1, <4>2, <4>3
    <3>3. CASE ~Paused(t.stack[j])
      <4>1. j = N => more = 0
        BY <3>3
      <4>2. /\ DeadAt(t.stack[j], l) = t.stack[j].dead_time + 0
            /\ DeadAt(t.stack[j], m) = t.stack[j].dead_time + 0
        BY <3>3 DEF DeadAt
      <4> HIDE DEF more
      <4> QED BY <3>1, <4>1, <4>2
    <3> QED BY <3>2, <3>3
  <2> QED BY <2>1, <2>2
<1> HIDE DEF more
<1>7. ASSUME NEW i \in Frames(t)
      PROVE  /\ t.stack[i].start_time <= l
             /\ SumFunction(Deads(t, i, l)) <= Cardinality(Since(V, t.stack[i].start_time))
  <2>1. /\ IsFiniteSet(i .. N)
        /\ Deads(t, i, m) \in [i .. N -> Int] /\ Deads(t, i, l) \in [i .. N -> Int]
        /\ SumFunction(Deads(t, i, m)) \in Int
        /\ t.stack[i].start_time \in Nat
        /\ N \in i .. N /\ \A j \in i .. N : j \in Frames(t)
    BY <1>1, DeadsTyped DEF N
  <2>2. \A j \in i .. N :
          Deads(t, i, l)[j] = Deads(t, i, m)[j] + (IF j = N THEN more ELSE 0)
    BY <1>6, <2>1 DEF Deads, N
  <2>3. MovedAt(Deads(t, i, l), Deads(t, i, m), i .. N, N, more)
    BY <1>6, <2>1, <2>2 DEF MovedAt
  <2>4. SumFunction(Deads(t, i, l))
          = SumFunction(Deads(t, i, m)) + (IF N \in i .. N THEN more ELSE 0)
    BY <2>3, SumMoved
  <2>5. SumFunction(Deads(t, i, l)) = SumFunction(Deads(t, i, m)) + more
    BY <2>1, <2>4
  <2>6. /\ t.stack[i].start_time <= m
        /\ SumFunction(Deads(t, i, m)) <= Cardinality(Since(U, t.stack[i].start_time))
    BY <1>1 DEF Live
  <2>7. /\ Cardinality(Since(U, t.stack[i].start_time)) \in Nat
        /\ Cardinality(Since(V, t.stack[i].start_time))
             = Cardinality(Since(U, t.stack[i].start_time)) + (IF p THEN l - m ELSE 0)
    BY <1>5, <2>1, <2>6
  <2> QED BY <1>6, <2>1, <2>5, <2>6, <2>7
<1>8. Live(t, l, V)
  BY <1>7 DEF Live
<1> QED BY <1>1, <1>8 DEF Lively, V

(* What the audit adds up is the sum of the dead times, the top frame's    *)
(* pause included: no other frame has one.                                 *)
LEMMA DeadTimeIs ==
  ASSUME NEW t \in Thread, now \in Nat, NEW p, Marked(t.stack, p), NEW i \in Frames(t)
  PROVE  DeadTime(t, i) = SumFunction(Deads(t, i, now))
<1> DEFINE N == Len(t.stack)
           top == t.stack[N]
           pause == IF Paused(top) THEN now - top.pause_time ELSE 0
           f == [j \in i .. N |-> t.stack[j].dead_time]
<1>1. /\ Frames(t) = 1 .. N /\ N \in Nat
      /\ \A j \in Frames(t) : t.stack[j] \in Frame
  BY NodesAre
<1>2. \A j \in Frames(t) : t.stack[j].dead_time \in Int /\ t.stack[j].pause_time \in Int
  BY <1>1 DEF Frame
<1>3. /\ IsFiniteSet(i .. N) /\ Deads(t, i, now) \in [i .. N -> Int]
      /\ N \in i .. N /\ \A j \in i .. N : j \in Frames(t)
  BY DeadsTyped
<1>4. f \in [i .. N -> Int]
  BY <1>2, <1>3
<1>5. DeadTime(t, i) = SumFunction(f) + pause
  BY DEF DeadTime, Last
<1> HIDE DEF N
<1>6. pause \in Int
  BY <1>2, <1>3
<1>7. ASSUME NEW j \in i .. N
      PROVE  Deads(t, i, now)[j] = f[j] + (IF j = N THEN pause ELSE 0)
  <2>1. /\ Deads(t, i, now)[j] = DeadAt(t.stack[j], now)
        /\ f[j] = t.stack[j].dead_time /\ t.stack[j].dead_time \in Int
    BY <1>2, <1>3 DEF Deads, N
  <2>2. Paused(t.stack[j]) => j = N
    BY <1>1, <1>3 DEF Marked, N
  <2>3. DeadAt(t.stack[j], now) = t.stack[j].dead_time + (IF j = N THEN pause ELSE 0)
    BY <2>2 DEF DeadAt
  <2> QED BY <2>1, <2>3
<1> HIDE DEF f, pause
<1>8. MovedAt(Deads(t, i, now), f, i .. N, N, pause)
  BY <1>3, <1>4, <1>6, <1>7 DEF MovedAt
<1>9. SumFunction(Deads(t, i, now)) = SumFunction(f) + (IF N \in i .. N THEN pause ELSE 0)
  BY <1>8, SumMoved
<1> QED BY <1>3, <1>5, <1>9

-----------------------------------------------------------------------------
(* The audited profile. *)

LiveOK ==
  /\ pausedUnits \in SUBSET (1 .. now)
  /\ ~crashed => TableIn(Lively(now, pausedUnits), threads)

(* A process that has crashed takes no step. *)
LEMMA CrashIsTheEnd ==
  ASSUME crashed, [Next]_vars
  PROVE  crashed'
<1>1. ASSUME NEW f \in Fibers PROVE ~CanRun(f) /\ ~CanPush(f) /\ ~InRuby(f)
  BY DEF CanRun, CanPush, InRuby
<1>2. CASE Next
  BY <1>1, <1>2 DEF Next, Call, Yield, Return, Line, EndYield, Start, Pause, Resume, Stop,
     ProfileBlock, EndProfileBlock, ResumeBlock, EndResumeBlock
<1>3. CASE UNCHANGED vars
  <2>1. crashed' = crashed
    BY <1>3 DEF vars, profile
  <2> QED BY <2>1
<1> QED BY <1>2, <1>3

(* First time passes, paused or not, then the step is taken. *)
LEMMA NextLive ==
  ASSUME MarksInv, LiveOK, [AuditNext]_<<vars, pausedUnits>>
  PROVE  LiveOK'
<1> DEFINE units == IF paused THEN (now + 1) .. now' ELSE {}
<1>1. IInv /\ MarksOK /\ paused \in BOOLEAN
  BY DEF MarksInv, IdleInv, IInv, TypeOK
<1>2. [Next]_vars
  BY DEF AuditNext
<1>3. now \in Nat /\ now' \in Nat /\ now <= now'
  BY <1>1, <1>2, NextReading
<1>4. pausedUnits' = pausedUnits \cup units
  <2>1. CASE AuditNext
    BY <2>1 DEF AuditNext
  <2>2. CASE UNCHANGED <<vars, pausedUnits>>
    <3>1. now' = now /\ pausedUnits' = pausedUnits
      BY <2>2 DEF vars, profile
    <3>2. units = {}
      BY <1>3, <3>1
    <3> QED BY <3>1, <3>2
  <2> QED BY <2>1, <2>2
<1>5. pausedUnits' \in SUBSET (1 .. now')
  BY <1>3, <1>4 DEF LiveOK
<1>6. ASSUME ~crashed' PROVE TableIn(Lively(now', pausedUnits'), threads')
  <2>1. ~crashed
    BY <1>2, <1>6, CrashIsTheEnd
  <2>2. PICK m \in Nat : m = now'
    BY <1>3
  <2>3. PICK n \in Nat : n = now
    BY <1>3
  <2>4. PICK U \in SUBSET (1 .. n) : U = pausedUnits
    BY <2>3 DEF LiveOK
  <2>5. PICK p \in BOOLEAN : p = paused
    BY <1>1
  <2> DEFINE V == U \cup IF p THEN (n + 1) .. m ELSE {}
  <2>6. V = pausedUnits'
    BY <1>4, <2>2, <2>3, <2>4, <2>5
  <2>7. IsFiniteSet(V)
    <3>1. m \in Int /\ 1 \in Int /\ V \in SUBSET (1 .. m)
      BY <1>3, <2>2, <2>3
    <3>2. IsFiniteSet(1 .. m)
      BY <3>1, FS_Interval
    <3> HIDE DEF V
    <3> QED BY <3>1, <3>2, FS_Subset
  <2>8. ASSUME NEW f \in DOMAIN threads PROVE threads[f] \in Lively(m, V)
    <3>1. threads[f] \in Lively(n, U)
      BY <2>1, <2>3, <2>4 DEF LiveOK, TableIn
    <3>2. Marked(threads[f].stack, p)
      BY <1>1, <2>1, <2>5 DEF MarksOK, MarkedTable
    <3>3. n <= m
      BY <1>3, <2>2, <2>3
    <3> QED BY <3>1, <3>2, <3>3, TimePasses
  <2>9. TableIn(Lively(m, V), threads)
    BY <2>8 DEF TableIn
  <2> HIDE DEF V
  <2>10. KeptAt(Lively(m, V), m)
    BY <2>7, LivelyKept
  <2>11. TableIn(Lively(m, V), threads')
    BY <1>1, <1>2, <2>2, <2>9, <2>10, NextKept
  <2> QED BY <2>2, <2>6, <2>11
<1>7. ~crashed' => TableIn(Lively(now, pausedUnits), threads)'
  BY <1>6 DEF TableIn, Lively
<1> QED BY <1>5, <1>7 DEF LiveOK

(* However often the profile is paused and resumed, and whatever is pushed,*)
(* popped and switched meanwhile: what a frame leaves out as dead time is  *)
(* not more than the time the profile was paused since the frame began, so *)
(* a pause never makes live time disappear and no total gets negative.     *)
THEOREM LiveTimeAlwaysKept == AuditSpec => []LiveTimeIsKept
<1>1. AuditInit => MarksInv /\ LiveOK
  <2>1. SUFFICES ASSUME AuditInit PROVE MarksInv /\ LiveOK
    OBVIOUS
  <2>2. IInv /\ DOMAIN threads = {} /\ pausedUnits = {}
    BY <2>1, InitOK DEF AuditInit, Init
  <2> QED BY <2>2 DEF MarksInv, IdleInv, IdleOK, UntracedIdle, AllIdle, MarksOK,
             MarkedTable, LiveOK, TableIn
<1>2. MarksInv /\ LiveOK /\ [AuditNext]_<<vars, pausedUnits>> => (MarksInv /\ LiveOK)'
  <2>1. SUFFICES ASSUME MarksInv, LiveOK, [AuditNext]_<<vars, pausedUnits>>
                 PROVE  (MarksInv /\ LiveOK)'
    OBVIOUS
  <2>2. [Next]_vars
    BY <2>1 DEF AuditNext
  <2>3. IInv'
    BY <2>1, <2>2, NextOK DEF MarksInv, IdleInv
  <2>4. MarksInv'
    BY <2>1, <2>2, <2>3, NextIdle, NextMarked DEF MarksInv, IdleInv
  <2> QED BY <2>1, <2>4, NextLive
<1>3. MarksInv /\ LiveOK => LiveTimeIsKept
  <2>1. SUFFICES ASSUME MarksInv, LiveOK, ~crashed, NEW f \in DOMAIN threads,
                        NEW i \in Frames(threads[f])
                 PROVE  DeadTime(threads[f], i)
                          <= Cardinality(PausedSince(threads[f].stack[i].start_time))
    BY DEF LiveTimeIsKept
  <2>2. PICK t \in Thread : t = threads[f]
    BY <2>1 DEF MarksInv, IdleInv, IInv, TypeOK
  <2>3. now \in Nat
    <3>1. IInv
      BY <2>1 DEF MarksInv, IdleInv
    <3> QED BY <3>1, ProfilerAssumption DEF IInv, TypeOK
  <2>4. Marked(t.stack, paused)
    BY <2>1, <2>2 DEF MarksInv, MarksOK, MarkedTable
  <2>5. Live(t, now, pausedUnits)
    BY <2>1, <2>2 DEF LiveOK, TableIn, Lively
  <2>6. PICK p \in BOOLEAN : Marked(t.stack, p)
    <3>1. paused \in BOOLEAN
      BY <2>1 DEF MarksInv, IdleInv, IInv, TypeOK
    <3> QED BY <2>4, <3>1
  <2>7. DeadTime(t, i) = SumFunction(Deads(t, i, now))
    BY <2>1, <2>2, <2>3, <2>6, DeadTimeIs
  <2>8. Since(pausedUnits, t.stack[i].start_time) = PausedSince(t.stack[i].start_time)
    BY DEF Since, PausedSince
  <2> QED BY <2>1, <2>2, <2>5, <2>7, <2>8 DEF Live
<1> QED BY <1>1, <1>2, <1>3, PTL DEF AuditSpec

-----------------------------------------------------------------------------
(* The frames of a fiber against the program's own stack. What an event    *)
(* does is said of the keys of the frames alone; Mirrors relates those to  *)
(* the stack, and every step of the program keeps it.                      *)

(* How many calls above entry j of a stack the hook would be told of.      *)
CountAbove(r, j) == Cardinality(VisibleAbove(r, j))

(* A call adds one above every entry below it, if the hook is told of it.  *)
LEMMA CountsAppend ==
  ASSUME NEW r \in Seq(Entry), NEW e \in Entry
  PROVE  /\ Append(r, e) \in Seq(Entry)
         /\ Len(Append(r, e)) = Len(r) + 1
         /\ Len(r) \in Nat
         /\ \A j \in 1 .. Len(r) : Append(r, e)[j] = r[j]
         /\ Append(r, e)[Len(r) + 1] = e
         /\ \A j \in 0 .. Len(r) :
              /\ CountAbove(r, j) \in Nat
              /\ CountAbove(Append(r, e), j)
                   = CountAbove(r, j) + (IF IsVisible(e) THEN 1 ELSE 0)
         /\ CountAbove(Append(r, e), Len(r) + 1) = 0
<1> DEFINE s == Append(r, e)
           l == Len(r)
<1>1. /\ s \in Seq(Entry) /\ Len(s) = l + 1 /\ l \in Nat
      /\ \A j \in 1 .. l : s[j] = r[j]
      /\ s[l + 1] = e
  OBVIOUS
<1> HIDE DEF s
<1>2. ASSUME NEW j \in 0 .. l
      PROVE  /\ CountAbove(r, j) \in Nat
             /\ CountAbove(s, j) = CountAbove(r, j) + (IF IsVisible(e) THEN 1 ELSE 0)
  <2> DEFINE A == VisibleAbove(r, j)
  <2>1. IsFiniteSet(A) /\ A \subseteq 1 .. l
    <3>1. A \subseteq 1 .. l
      BY <1>1, <1>2 DEF VisibleAbove
    <3>2. IsFiniteSet(1 .. l)
      BY <1>1, FS_Interval
    <3> HIDE DEF A
    <3> QED BY <3>1, <3>2, FS_Subset
  <2>2. Cardinality(A) \in Nat
    <3> HIDE DEF A
    <3> QED BY <2>1, FS_CardinalityType
  <2>3. l + 1 \notin A
    <3> HIDE DEF A
    <3> QED BY <1>1, <2>1
  <2>4. VisibleAbove(s, j) = IF IsVisible(e) THEN A \cup {l + 1} ELSE A
    <3>1. ASSUME NEW x \in Int
          PROVE  x \in VisibleAbove(s, j) <=>
                   x \in A \/ (x = l + 1 /\ IsVisible(e))
      <4>1. CASE x = l + 1
        BY <1>1, <1>2, <4>1 DEF VisibleAbove
      <4>2. CASE x # l + 1
        <5>1. x \in j + 1 .. l + 1 <=> x \in j + 1 .. l
          BY <1>1, <1>2, <4>2
        <5>2. x \in j + 1 .. l => s[x] = r[x]
          BY <1>1, <1>2
        <5> QED BY <1>1, <4>2, <5>1, <5>2 DEF VisibleAbove
      <4> QED BY <4>1, <4>2
    <3>2. VisibleAbove(s, j) \subseteq Int /\ A \subseteq Int
      BY DEF VisibleAbove
    <3>3. l + 1 \in Int
      BY <1>1
    <3> HIDE DEF A
    <3> QED BY <3>1, <3>2, <3>3
  <2>5. Cardinality(A \cup {l + 1}) = Cardinality(A) + 1
    <3> HIDE DEF A
    <3> QED BY <2>1, <2>3, FS_AddElement
  <2> HIDE DEF A
  <2>6. CASE IsVisible(e)
    BY <2>2, <2>4, <2>5, <2>6 DEF CountAbove, A
  <2>7. CASE ~IsVisible(e)
    BY <2>2, <2>4, <2>7 DEF CountAbove, A
  <2> QED BY <2>6, <2>7
<1>3. CountAbove(s, l + 1) = 0
  <2>1. VisibleAbove(s, l + 1) = {}
    BY <1>1 DEF VisibleAbove
  <2> QED BY <2>1, FS_EmptySet DEF CountAbove
<1> QED BY <1>1, <1>2, <1>3 DEF s

(* keys, the methods of the frames of a fiber, mirror its stack r, of      *)
(* which the hook has been told s calls. A frame that is none of these     *)
(* stands for the dummy or for a method that is open below them.           *)
Mirrors(keys, r, s) ==
  /\ Len(keys) \in {s, s + 1}
  /\ s <= CountAbove(r, 0)
  /\ \A j \in 1 .. Len(r) :
       IsVisible(r[j]) /\ CountAbove(r, j) < s
         => keys[Len(keys) - CountAbove(r, j)] = r[j].method
  /\ Len(keys) > s =>
       \/ keys[1] = InsertedParent
       \/ /\ keys[1] \notin Excluded
          /\ \E j \in 1 .. Len(r) : r[j].method = keys[1] /\ CountAbove(r, j) >= s

(* Nothing seen, nothing to mirror. *)
LEMMA NoneMirrored ==
  ASSUME NEW r \in Seq(Entry)
  PROVE  /\ \A j \in 0 .. Len(r) : CountAbove(r, j) \in Nat
         /\ Mirrors(<<>>, r, 0)
<1>1. \A j \in 0 .. Len(r) : CountAbove(r, j) \in Nat
  <2>1. CASE Entry = {}
    <3>1. r = <<>>
      BY <2>1
    <3>2. VisibleAbove(r, 0) = {}
      BY <3>1 DEF VisibleAbove
    <3> QED BY <3>1, <3>2, FS_EmptySet DEF CountAbove
  <2>2. CASE Entry # {}
    BY <2>2, CountsAppend
  <2> QED BY <2>1, <2>2
<1>2. /\ 0 <= CountAbove(r, 0)
      /\ \A j \in 1 .. Len(r) : ~(CountAbove(r, j) < 0)
  BY <1>1
<1> QED BY <1>1, <1>2 DEF Mirrors

(* A call the hook is told of. *)
LEMMA CallMirrored ==
  ASSUME NEW r \in Seq(Entry), NEW e \in Entry, IsVisible(e), NEW s \in Nat,
         NEW keys \in Seq(Keys), Mirrors(keys, r, s)
  PROVE  Mirrors(Append(keys, e.method), Append(r, e), s + 1)
<1> DEFINE n == Append(keys, e.method)
           q == Append(r, e)
           l == Len(r)
           d == Len(keys)
<1>1. e.method \in Keys
  BY DEF Entry, Keys
<1>2. /\ Len(n) = d + 1 /\ d \in Nat
      /\ \A i \in 1 .. d : n[i] = keys[i]
      /\ n[d + 1] = e.method
  BY <1>1
<1>3. /\ Len(q) = l + 1 /\ l \in Nat
      /\ \A j \in 1 .. l : q[j] = r[j]
      /\ q[l + 1] = e
      /\ \A j \in 0 .. l : /\ CountAbove(r, j) \in Nat
                           /\ CountAbove(q, j) = CountAbove(r, j) + 1
      /\ CountAbove(q, l + 1) = 0
  BY CountsAppend
<1> HIDE DEF n, q
<1>4. d \in {s, s + 1} /\ s <= CountAbove(r, 0)
  BY DEF Mirrors
<1>5. Len(n) \in {s + 1, s + 1 + 1} /\ s + 1 <= CountAbove(q, 0)
  BY <1>2, <1>3, <1>4
<1>6. ASSUME NEW j \in 1 .. Len(q), IsVisible(q[j]), CountAbove(q, j) < s + 1
      PROVE  n[Len(n) - CountAbove(q, j)] = q[j].method
  <2>1. CASE j = l + 1
    BY <1>2, <1>3, <2>1
  <2>2. CASE j \in 1 .. l
    <3> DEFINE c == CountAbove(r, j)
    <3>1. c \in Nat /\ CountAbove(q, j) = c + 1 /\ q[j] = r[j]
      BY <1>3, <2>2
    <3>2. c < s /\ IsVisible(r[j])
      BY <1>6, <3>1
    <3>3. keys[d - c] = r[j].method
      BY <2>2, <3>2 DEF Mirrors
    <3> HIDE DEF c
    <3>4. d - c \in 1 .. d /\ Len(n) - (c + 1) = d - c
      BY <1>2, <1>4, <3>1, <3>2
    <3> QED BY <1>2, <3>1, <3>3, <3>4
  <2> QED BY <1>3, <2>1, <2>2
<1>7. ASSUME Len(n) > s + 1
      PROVE  \/ n[1] = InsertedParent
             \/ /\ n[1] \notin Excluded
                /\ \E j \in 1 .. Len(q) : q[j].method = n[1] /\ CountAbove(q, j) >= s + 1
  <2>1. d > s /\ n[1] = keys[1]
    BY <1>2, <1>4, <1>7
  <2>2. CASE keys[1] = InsertedParent
    BY <2>1, <2>2
  <2>3. ASSUME keys[1] \notin Excluded,
               NEW j \in 1 .. l, r[j].method = keys[1], CountAbove(r, j) >= s
        PROVE  /\ n[1] \notin Excluded
               /\ \E i \in 1 .. Len(q) : q[i].method = n[1] /\ CountAbove(q, i) >= s + 1
    <3>1. j \in 1 .. Len(q) /\ j \in 0 .. l
      BY <1>3, <2>3
    <3>2. q[j].method = n[1] /\ CountAbove(q, j) >= s + 1
      BY <1>3, <2>1, <2>3, <3>1
    <3> QED BY <2>1, <2>3, <3>1, <3>2
  <2> QED BY <2>1, <2>2, <2>3 DEF Mirrors
<1>8. Mirrors(n, q, s + 1)
  BY <1>5, <1>6, <1>7 DEF Mirrors
<1> QED BY <1>8 DEF n, q

(* The dummy that a climb puts below the frame of a call.                  *)
LEMMA DummyMirrored ==
  ASSUME NEW r \in Seq(Entry), NEW s \in Nat, Mirrors(<<>>, r, s)
  PROVE  s = 0 /\ Mirrors(<<InsertedParent>>, r, s)
<1>1. s = 0
  BY DEF Mirrors
<1>2. /\ 0 <= CountAbove(r, 0)
      /\ \A j \in 1 .. Len(r) : ~(CountAbove(r, j) < 0)
  BY NoneMirrored
<1> QED BY <1>1, <1>2 DEF Mirrors

(* A line of a method that is entered unseen. *)
LEMMA LineMirrored ==
  ASSUME NEW r \in Seq(Entry), r # <<>>, NEW s \in Nat, Mirrors(<<>>, r, s),
         Last(r).method \notin Excluded
  PROVE  Mirrors(<<Last(r).method>>, r, s)
<1>1. s = 0
  BY DEF Mirrors
<1>2. /\ 0 <= CountAbove(r, 0)
      /\ \A j \in 1 .. Len(r) : CountAbove(r, j) >= 0 /\ ~(CountAbove(r, j) < 0)
  BY NoneMirrored
<1>3. Len(r) \in 1 .. Len(r) /\ Last(r) = r[Len(r)]
  BY DEF Last
<1> DEFINE keys == <<Last(r).method>>
<1>4. Len(keys) = 1 /\ keys[1] = Last(r).method
  OBVIOUS
<1> HIDE DEF keys
<1>5. /\ keys[1] \notin Excluded
      /\ \E j \in 1 .. Len(r) : r[j].method = keys[1] /\ CountAbove(r, j) >= s
  BY <1>1, <1>2, <1>3, <1>4
<1>6. Mirrors(keys, r, s)
  BY <1>1, <1>2, <1>4, <1>5 DEF Mirrors
<1> QED BY <1>6 DEF keys

(* What the hook is not told of. *)
LEMMA UnseenMirrored ==
  ASSUME NEW r \in Seq(Entry), NEW e \in Entry, ~IsVisible(e), NEW s \in Nat, NEW keys
  PROVE  /\ Mirrors(keys, r, s) => Mirrors(keys, Append(r, e), s)
         /\ Mirrors(keys, Append(r, e), s)
              /\ (\/ e.method \in Excluded
                  \/ \E i \in 1 .. Len(r) : r[i].method = e.method)
            => Mirrors(keys, r, s)
<1> DEFINE q == Append(r, e)
           l == Len(r)
<1>1. /\ Len(q) = l + 1 /\ l \in Nat
      /\ \A j \in 1 .. l : q[j] = r[j]
      /\ q[l + 1] = e
      /\ \A j \in 0 .. l : /\ CountAbove(r, j) \in Nat
                           /\ CountAbove(q, j) = CountAbove(r, j)
      /\ CountAbove(q, l + 1) = 0
  BY CountsAppend
<1> HIDE DEF q
<1>2. \A j \in 1 .. l : j \in 1 .. Len(q) /\ j \in 0 .. l
  BY <1>1
<1>3. 0 \in 0 .. l /\ \A j \in 1 .. Len(q) : j = l + 1 \/ j \in 1 .. l
  BY <1>1
<1>4. ASSUME Mirrors(keys, r, s) PROVE Mirrors(keys, q, s)
  <2>1. Len(keys) \in {s, s + 1} /\ s <= CountAbove(q, 0)
    BY <1>1, <1>3, <1>4 DEF Mirrors
  <2>2. ASSUME NEW j \in 1 .. Len(q), IsVisible(q[j]), CountAbove(q, j) < s
        PROVE  keys[Len(keys) - CountAbove(q, j)] = q[j].method
    BY <1>1, <1>2, <1>3, <1>4, <2>2 DEF Mirrors
  <2>3. ASSUME Len(keys) > s
        PROVE  \/ keys[1] = InsertedParent
               \/ /\ keys[1] \notin Excluded
                  /\ \E j \in 1 .. Len(q) : q[j].method = keys[1] /\ CountAbove(q, j) >= s
    BY <1>1, <1>2, <1>4, <2>3 DEF Mirrors
  <2> QED BY <2>1, <2>2, <2>3 DEF Mirrors
<1>5. ASSUME Mirrors(keys, q, s),
             e.method \in Excluded \/ \E i \in 1 .. Len(r) : r[i].method = e.method
      PROVE  Mirrors(keys, r, s)
  <2>1. Len(keys) \in {s, s + 1} /\ s <= CountAbove(r, 0)
    BY <1>1, <1>3, <1>5 DEF Mirrors
  <2>2. ASSUME NEW j \in 1 .. Len(r), IsVisible(r[j]), CountAbove(r, j) < s
        PROVE  keys[Len(keys) - CountAbove(r, j)] = r[j].method
    BY <1>1, <1>2, <1>5, <2>2 DEF Mirrors
  <2>3. ASSUME Len(keys) > s, keys[1] # InsertedParent
        PROVE  /\ keys[1] \notin Excluded
               /\ \E j \in 1 .. Len(r) : r[j].method = keys[1] /\ CountAbove(r, j) >= s
    <3>1. PICK j \in 1 .. Len(q) : q[j].method = keys[1] /\ CountAbove(q, j) >= s
      BY <1>5, <2>3 DEF Mirrors
    <3>2. keys[1] \notin Excluded
      BY <1>5, <2>3 DEF Mirrors
    <3>3. CASE j \in 1 .. l
      BY <1>1, <1>2, <3>1, <3>2, <3>3
    <3>4. CASE j = l + 1
      <4>1. e.method = keys[1] /\ s = 0
        BY <1>1, <3>1, <3>4
      <4>2. PICK i \in 1 .. Len(r) : r[i].method = e.method
        BY <1>5, <3>2, <4>1
      <4>3. CountAbove(r, i) >= s
        BY <1>1, <1>2, <4>1
      <4> QED BY <3>2, <4>1, <4>2, <4>3
    <3> QED BY <1>3, <3>3, <3>4
  <2> QED BY <2>1, <2>2, <2>3 DEF Mirrors
<1> QED BY <1>4, <1>5 DEF q

(* The return of a call the hook was told of, or would have been.          *)
LEMMA ReturnMirrored ==
  ASSUME NEW r \in Seq(Entry), NEW e \in Entry, IsVisible(e), NEW s \in Nat,
         NEW old \in Seq(Keys), NEW keys \in Seq(Keys), Returned(keys, old),
         Mirrors(old, Append(r, e), s)
  PROVE  Mirrors(keys, r, IF s > 0 THEN s - 1 ELSE s)
<1> DEFINE q == Append(r, e)
           l == Len(r)
           d == Len(keys)
<1>1. /\ Len(q) = l + 1 /\ l \in Nat
      /\ \A j \in 1 .. l : q[j] = r[j]
      /\ q[l + 1] = e
      /\ \A j \in 0 .. l : /\ CountAbove(r, j) \in Nat
                           /\ CountAbove(q, j) = CountAbove(r, j) + 1
      /\ CountAbove(q, l + 1) = 0
  BY CountsAppend
<1> HIDE DEF q
<1>2. Mirrors(old, q, s) /\ Len(old) \in {s, s + 1} /\ s <= CountAbove(q, 0)
  BY DEF q, Mirrors
<1>3. CASE s = 0
  <2>1. keys = <<>>
    <3>1. CASE old = <<>>
      BY <3>1 DEF Returned
    <3>2. CASE old # <<>>
      <4>1. Len(old) = d + 1 /\ d \in Nat
        BY <3>2 DEF Returned
      <4> QED BY <1>2, <1>3, <4>1
    <3> QED BY <3>1, <3>2
  <2> QED BY <1>3, <2>1, NoneMirrored
<1>4. CASE s > 0
  <2>1. old # <<>>
    BY <1>2, <1>4
  <2>2. PICK k \in Keys : old = Append(keys, k)
    BY <2>1 DEF Returned
  <2>3. Len(old) = d + 1 /\ d \in Nat /\ \A i \in 1 .. d : old[i] = keys[i]
    BY <2>2
  <2>4. d \in {s - 1, s - 1 + 1} /\ s - 1 <= CountAbove(r, 0)
    BY <1>1, <1>2, <1>4, <2>3
  <2>5. ASSUME NEW j \in 1 .. l, IsVisible(r[j]), CountAbove(r, j) < s - 1
        PROVE  keys[d - CountAbove(r, j)] = r[j].method
    <3> DEFINE c == CountAbove(r, j)
    <3>1. c \in Nat /\ CountAbove(q, j) = c + 1 /\ q[j] = r[j] /\ j \in 1 .. Len(q)
      BY <1>1, <2>5
    <3>2. c + 1 < s /\ IsVisible(q[j])
      BY <1>4, <2>5, <3>1
    <3>3. old[Len(old) - (c + 1)] = r[j].method
      BY <1>2, <3>1, <3>2 DEF Mirrors
    <3> HIDE DEF c
    <3>4. d - c \in 1 .. d /\ Len(old) - (c + 1) = d - c
      BY <2>3, <2>4, <3>1, <3>2
    <3>5. keys[d - c] = r[j].method
      BY <2>3, <3>3, <3>4
    <3> QED BY <3>5 DEF c
  <2>6. ASSUME d > s - 1, keys[1] # InsertedParent
        PROVE  /\ keys[1] \notin Excluded
               /\ \E j \in 1 .. l : r[j].method = keys[1] /\ CountAbove(r, j) >= s - 1
    <3>1. Len(old) > s /\ old[1] = keys[1]
      BY <1>2, <1>4, <2>3, <2>6
    <3>2. PICK j \in 1 .. Len(q) : q[j].method = keys[1] /\ CountAbove(q, j) >= s
      BY <1>2, <2>6, <3>1 DEF Mirrors
    <3>3. keys[1] \notin Excluded
      BY <1>2, <2>6, <3>1 DEF Mirrors
    <3>4. j \in 1 .. l
      BY <1>1, <1>4, <3>2
    <3>5. r[j].method = keys[1] /\ CountAbove(r, j) >= s - 1
      BY <1>1, <1>4, <3>2, <3>4
    <3> QED BY <3>3, <3>4, <3>5
  <2>7. Mirrors(keys, r, s - 1)
    BY <2>4, <2>5, <2>6 DEF Mirrors
  <2> QED BY <1>4, <2>7
<1> QED BY <1>3, <1>4

-----------------------------------------------------------------------------
(* The keys of the fibers, and their trace flags. *)

FiberKeys(tbl, f) == IF f \in DOMAIN tbl THEN KeysOf(tbl[f]) ELSE <<>>

SameKeys(new, old) == \A f \in Fibers : FiberKeys(new, f) = FiberKeys(old, f)

(* Exactly the untraced fibers have no trace flag. *)
TraceFlags(tbl) == \A f \in DOMAIN tbl : tbl[f].trace = (f \notin Untraced)

(* A new thread has no frame. *)
LEMMA InsertKeys ==
  ASSUME NEW tbl, TraceFlags(tbl), NEW f \in Fibers
  PROVE  /\ TraceFlags(threads_table_insert(tbl, f))
         /\ \A g \in Fibers : FiberKeys(threads_table_insert(tbl, f), g)
                                = IF g = f THEN <<>> ELSE FiberKeys(tbl, g)
<1> DEFINE t == thread_data_create(f \notin Untraced)
           new == threads_table_insert(tbl, f)
<1>1. t.stack = <<>> /\ t.trace = (f \notin Untraced)
  BY DEF thread_data_create
<1>2. KeysOf(t) = <<>>
  <2>1. ThreadOK(t)
    BY NewThreadOK
  <2> HIDE DEF t
  <2> QED BY <1>1, <2>1, KeysTyped
<1> HIDE DEF t
<1>3. /\ DOMAIN new = DOMAIN tbl \cup {f}
      /\ \A g \in DOMAIN new : new[g] = IF g = f THEN t ELSE tbl[g]
  BY DEF threads_table_insert, t
<1> HIDE DEF new
<1>4. TraceFlags(new)
  BY <1>1, <1>3 DEF TraceFlags
<1>5. \A g \in Fibers : FiberKeys(new, g) = IF g = f THEN <<>> ELSE FiberKeys(tbl, g)
  BY <1>2, <1>3 DEF FiberKeys
<1> QED BY <1>4, <1>5 DEF new

(* Switches and pauses bring no frame and take none. *)
LEMMA SwitchKeys ==
  ASSUME NEW t, ThreadOK(t), NEW m \in Nat
  PROVE  /\ HasKeys(SwitchIn(t, m), t, KeysOf(t))
         /\ HasKeys(SwitchOut(t, m), t, KeysOf(t))
         /\ HasKeys(pause_thread(t, m), t, KeysOf(t))
         /\ t.stack # <<>> => HasKeys(unpause_thread(t, m), t, KeysOf(t))
<1>1. /\ SwitchIn(t, m).trace = t.trace
      /\ SwitchOut(t, m).trace = t.trace
      /\ pause_thread(t, m).trace = t.trace
      /\ unpause_thread(t, m).trace = t.trace
  BY TraceKept DEF ThreadOK
<1>2. ASSUME NEW u, ThreadOK(u), AlikeAt(u, t, m), u.trace = t.trace
      PROVE  HasKeys(u, t, KeysOf(t))
  BY <1>2, AlikeKeys DEF AlikeAt, HasKeys
<1> QED BY <1>1, <1>2, SwitchOK, PauseOK, SwitchStep

(* A table of threads with the flags and the keys of another.              *)
LEMMA TableKeys ==
  ASSUME NEW new, NEW old, TraceFlags(old), DOMAIN new = DOMAIN old,
         \A g \in DOMAIN old : HasKeys(new[g], old[g], KeysOf(old[g]))
  PROVE  TraceFlags(new) /\ SameKeys(new, old)
BY DEF TraceFlags, SameKeys, FiberKeys, HasKeys

(* check_fiber makes threads and switches them: the frames stay. *)
LEMMA CheckFiberKeys ==
  ASSUME IInv, running, TraceFlags(threads), NEW f \in Fibers, NEW m \in Nat
  PROVE  TraceFlags(check_fiber(f, m)) /\ SameKeys(check_fiber(f, m), threads)
<1>1. CASE last = f
  BY <1>1 DEF check_fiber, SameKeys
<1>2. CASE last # f
  <2> DEFINE tbl == threads_table_fetch(threads, f)
             u == switch_thread(tbl, f, last, m)
  <2>1. TableOK(tbl)
    BY InsertOK DEF threads_table_fetch, IInv
  <2>2. TraceFlags(tbl) /\ SameKeys(tbl, threads)
    <3>1. CASE f \in DOMAIN threads
      BY <3>1 DEF threads_table_fetch, SameKeys
    <3>2. CASE f \notin DOMAIN threads
      <4>1. FiberKeys(threads, f) = <<>> /\ tbl = threads_table_insert(threads, f)
        BY <3>2 DEF FiberKeys, threads_table_fetch
      <4> QED BY <4>1, InsertKeys DEF SameKeys
    <3> QED BY <3>1, <3>2
  <2>3. check_fiber(f, m) = u
    BY <1>2 DEF check_fiber
  <2> HIDE DEF tbl
  <2>4. /\ DOMAIN u = DOMAIN tbl
        /\ \A g \in DOMAIN tbl : \/ u[g] = tbl[g]
                                 \/ u[g] = SwitchIn(tbl[g], m)
                                 \/ u[g] = SwitchOut(tbl[g], m)
    BY <1>2 DEF switch_thread
  <2> HIDE DEF u
  <2>5. ASSUME NEW g \in DOMAIN tbl PROVE HasKeys(u[g], tbl[g], KeysOf(tbl[g]))
    <3>1. ThreadOK(tbl[g])
      BY <2>1, <2>5 DEF TableOK
    <3>2. HasKeys(tbl[g], tbl[g], KeysOf(tbl[g]))
      BY <3>1 DEF HasKeys
    <3> QED BY <2>4, <2>5, <3>1, <3>2, SwitchKeys
  <2>6. TraceFlags(u) /\ SameKeys(u, tbl)
    BY <2>2, <2>4, <2>5, TableKeys
  <2> QED BY <2>2, <2>3, <2>6 DEF SameKeys
<1> QED BY <1>1, <1>2

(* So do they in a pause and in a resume. *)
LEMMA PauseKeys ==
  ASSUME NEW tbl, TableOK(tbl), TraceFlags(tbl), NEW m \in Nat,
         prof_pause(tbl, m) \/ prof_resume(tbl, m)
  PROVE  TraceFlags(threads') /\ SameKeys(threads', tbl)
<1>1. CASE threads' = tbl
  BY <1>1 DEF SameKeys
<1>2. CASE threads' = [g \in DOMAIN tbl |-> pause_thread(tbl[g], m)]
  <2>1. \A g \in DOMAIN tbl : HasKeys(threads'[g], tbl[g], KeysOf(tbl[g]))
    BY <1>2, SwitchKeys DEF TableOK
  <2> QED BY <1>2, <2>1, TableKeys
<1>3. CASE /\ threads' = [g \in DOMAIN tbl |-> unpause_thread(tbl[g], m)]
           /\ \A g \in DOMAIN tbl : tbl[g].stack # <<>>
  <2>1. \A g \in DOMAIN tbl : HasKeys(threads'[g], tbl[g], KeysOf(tbl[g]))
    BY <1>3, SwitchKeys DEF TableOK
  <2> QED BY <1>3, <2>1, TableKeys
<1> QED BY <1>1, <1>2, <1>3 DEF prof_pause, prof_resume

(* A stop keeps the flags.                                                 *)
LEMMA StopFlags ==
  ASSUME NEW tbl, TableOK(tbl), TraceFlags(tbl), NEW g, NEW m \in Nat,
         prof_stop(tbl, g, m)
  PROVE  TraceFlags(threads')
<1>1. threads' = [h \in DOMAIN tbl |-> pop_frames(tbl[h], h # g, m)]
  BY DEF prof_stop
<1>2. ASSUME NEW t, ThreadOK(t) PROVE PopAll(t, m).trace = t.trace
  <2>1. PICK popped : /\ popped[0] = t
                      /\ \A i \in Nat : popped[i + 1] = prof_frame_pop(popped[i], m)
                      /\ PopAll(t, m) = popped[Len(t.stack)]
    BY <1>2, PopAllIterates
  <2> DEFINE B == {i \in Nat : ThreadOK(popped[i]) /\ popped[i].trace = t.trace}
  <2>2. \A i \in Nat : i \in B
    <3>1. 0 \in B
      BY <1>2, <2>1
    <3>2. ASSUME NEW i \in Nat, i \in B PROVE i + 1 \in B
      <4>1. popped[i + 1] = prof_frame_pop(popped[i], m)
        BY <2>1
      <4>2. ThreadOK(popped[i]) /\ popped[i].trace = t.trace
        BY <3>2
      <4>3. HasKeys(prof_frame_pop(popped[i], m), popped[i],
                    KeysOf(prof_frame_pop(popped[i], m)))
        BY <4>2, PopKeys
      <4> QED BY <4>1, <4>2, <4>3 DEF HasKeys
    <3> HIDE DEF B
    <3> QED BY <3>1, <3>2, NatInd
  <2>3. Len(t.stack) \in Nat
    BY <1>2, NodesAre DEF ThreadOK
  <2> QED BY <2>1, <2>2, <2>3
<1>3. ASSUME NEW h \in DOMAIN tbl
      PROVE  pop_frames(tbl[h], h # g, m).trace = tbl[h].trace
  <2>1. ThreadOK(tbl[h])
    BY <1>3 DEF TableOK
  <2>2. ThreadOK(SwitchIn(tbl[h], m)) /\ SwitchIn(tbl[h], m).trace = tbl[h].trace
    BY <2>1, SwitchKeys DEF HasKeys
  <2> QED BY <1>2, <2>1, <2>2 DEF pop_frames
<1> QED BY <1>1, <1>3 DEF TraceFlags

(* An event changes the frames of its fiber only, if it is traced.         *)
LEMMA HookKeys ==
  ASSUME IInv, running, TraceFlags(threads), NEW f \in Fibers, NEW k \in Methods,
         NEW event \in {"line", "call", "return"}, NEW m \in Nat,
         prof_event_hook(f, event, k, m)
  PROVE  /\ TraceFlags(threads')
         /\ \A g \in Fibers \ {f} : FiberKeys(threads', g) = FiberKeys(threads, g)
         /\ IF f \in Untraced THEN FiberKeys(threads', f) = FiberKeys(threads, f)
            ELSE Handled(FiberKeys(threads', f), FiberKeys(threads, f), event, k)
<1> DEFINE tbl == check_fiber(f, m)
           t == Handle(event, tbl[f], k, m)
<1>1. paused \in BOOLEAN
  BY DEF IInv, TypeOK
<1>2. TraceFlags(tbl) /\ SameKeys(tbl, threads) /\ TableOK(tbl) /\ f \in DOMAIN tbl
  BY CheckFiberKeys, CheckFiberOK
<1>3. threads' = IF tbl[f].trace THEN [tbl EXCEPT ![f] = t] ELSE tbl
  BY DEF prof_event_hook
<1> HIDE DEF tbl
<1>4. ThreadOK(tbl[f])
  BY <1>2 DEF TableOK
<1>5. t.trace = tbl[f].trace /\ Handled(KeysOf(t), KeysOf(tbl[f]), event, k)
  BY <1>1, <1>4, HandleKeys DEF HasKeys
<1> HIDE DEF t
<1>6. CASE f \in Untraced
  <2>1. threads' = tbl
    BY <1>2, <1>3, <1>6 DEF TraceFlags
  <2> QED BY <1>2, <1>6, <2>1 DEF SameKeys
<1>7. CASE f \notin Untraced
  <2>1. threads' = [tbl EXCEPT ![f] = t]
    BY <1>2, <1>3, <1>7 DEF TraceFlags
  <2>2. /\ DOMAIN threads' = DOMAIN tbl
        /\ threads'[f] = t
        /\ \A g \in DOMAIN tbl : g # f => threads'[g] = tbl[g]
    BY <1>2, <2>1
  <2>3. TraceFlags(threads')
    BY <1>2, <1>5, <2>2 DEF TraceFlags
  <2>4. \A g \in Fibers \ {f} : FiberKeys(threads', g) = FiberKeys(threads, g)
    BY <1>2, <2>2 DEF SameKeys, FiberKeys
  <2>5. FiberKeys(threads', f) = KeysOf(t) /\ FiberKeys(threads, f) = KeysOf(tbl[f])
    BY <1>2, <2>2 DEF SameKeys, FiberKeys
  <2> QED BY <1>5, <1>7, <2>3, <2>4, <2>5
<1> QED BY <1>6, <1>7

-----------------------------------------------------------------------------
(* The stacks of the program. *)

(* A stack without its top entry. *)
LEMMA Popped ==
  ASSUME NEW r \in Seq(Entry), r # <<>>
  PROVE  LET rest == SubSeq(r, 1, Len(r) - 1)
         IN  /\ rest \in Seq(Entry) /\ Last(r) \in Entry
             /\ r = Append(rest, Last(r))
             /\ Len(r) > 1 => rest # <<>>
<1> DEFINE rest == SubSeq(r, 1, Len(r) - 1)
<1>1. Len(r) \in Nat /\ Len(r) >= 1
  BY EmptySeq
<1>2. /\ rest \in Seq(Entry) /\ Len(rest) = Len(r) - 1
      /\ \A i \in 1 .. Len(r) - 1 : rest[i] = r[i]
  <2>1. rest \in Seq(Entry)
    OBVIOUS
  <2>2. rest = [i \in 1 .. Len(r) - 1 |-> r[i]]
    BY <1>1
  <2> HIDE DEF rest
  <2>3. Len(rest) = Len(r) - 1
    <3>1. DOMAIN rest = 1 .. Len(rest) /\ Len(rest) \in Nat
      BY <2>1
    <3>2. DOMAIN rest = 1 .. Len(r) - 1
      BY <2>2
    <3> QED BY <1>1, <3>1, <3>2
  <2>4. \A i \in 1 .. Len(r) - 1 : rest[i] = r[i]
    BY <1>1, <2>2
  <2> QED BY <2>1, <2>3, <2>4
<1>3. Last(r) \in Entry /\ Last(r) = r[Len(r)]
  BY <1>1 DEF Last
<1> HIDE DEF rest
<1>4. Len(r) = Len(rest) + 1 /\ \A i \in 1 .. Len(rest) : r[i] = rest[i]
  BY <1>1, <1>2
<1>5. r = Append(rest, Last(r))
  BY <1>2, <1>3, <1>4, AppendIs
<1>6. Len(r) > 1 => rest # <<>>
  BY <1>1, <1>2, EmptySeq
<1> QED BY <1>2, <1>3, <1>5, <1>6 DEF rest

(* A block is a block of a method that is open below it, but for the first *)
(* entry of a stack, which may be that of a new fiber.                     *)
Entered(r) ==
  \A i \in 1 .. Len(r) :
    \/ r[i].kind = "method"
    \/ i = 1 /\ r[i].kind = "block"
    \/ \E l \in 1 .. i - 1 : r[l].method = r[i].method

(* The program begins like that. *)
HomeEntered == \A f \in Fibers : Entered(Home[f])

(* What an entry on top has to be, for the stack to stay that way. *)
LEMMA EnteredAppend ==
  ASSUME NEW r \in Seq(Entry), NEW e \in Entry
  PROVE  Entered(Append(r, e)) <=>
           /\ Entered(r)
           /\ \/ e.kind = "method"
              \/ r = <<>> /\ e.kind = "block"
              \/ \E l \in 1 .. Len(r) : r[l].method = e.method
<1> DEFINE q == Append(r, e)
<1>1. /\ Len(q) = Len(r) + 1 /\ Len(r) \in Nat
      /\ \A j \in 1 .. Len(r) : q[j] = r[j]
      /\ q[Len(r) + 1] = e
  BY CountsAppend
<1>2. r = <<>> <=> Len(r) = 0
  BY EmptySeq
<1> HIDE DEF q
<1> DEFINE At(s, i) == \/ s[i].kind = "method"
                       \/ i = 1 /\ s[i].kind = "block"
                       \/ \E l \in 1 .. i - 1 : s[l].method = s[i].method
<1>3. \A i \in 1 .. Len(r) : At(q, i) <=> At(r, i)
  <2> SUFFICES ASSUME NEW i \in 1 .. Len(r) PROVE At(q, i) <=> At(r, i)
    OBVIOUS
  <2>1. \A l \in 1 .. i - 1 : q[l] = r[l]
    BY <1>1
  <2>2. q[i] = r[i]
    BY <1>1
  <2> QED BY <2>1, <2>2
<1>4. At(q, Len(r) + 1) <=>
        \/ e.kind = "method"
        \/ r = <<>> /\ e.kind = "block"
        \/ \E l \in 1 .. Len(r) : r[l].method = e.method
  <2>1. (Len(r) + 1) - 1 = Len(r) /\ (Len(r) + 1 = 1 <=> r = <<>>)
    BY <1>1, <1>2
  <2>2. \A l \in 1 .. Len(r) : q[l] = r[l]
    BY <1>1
  <2> QED BY <1>1, <2>1, <2>2
<1>5. /\ Entered(q) <=> \A i \in 1 .. Len(q) : At(q, i)
      /\ Entered(r) <=> \A i \in 1 .. Len(r) : At(r, i)
  BY DEF Entered
<1>6. \A i \in 1 .. Len(q) : i \in 1 .. Len(r) \/ i = Len(r) + 1
  BY <1>1
<1>7. Len(r) + 1 \in 1 .. Len(q) /\ \A i \in 1 .. Len(r) : i \in 1 .. Len(q)
  BY <1>1
<1> HIDE DEF At
<1> QED BY <1>3, <1>4, <1>5, <1>6, <1>7 DEF q

(* How seen follows the stack. *)
LEMMA SeenIs ==
  ASSUME NEW r \in Seq(Entry), NEW e \in Entry, NEW s \in Nat
  PROVE  /\ SeenAfter(s, r, r) = s
         /\ SeenAfter(s, r, Append(r, e)) = IF IsVisible(e) THEN s + 1 ELSE s
         /\ SeenAfter(s, Append(r, e), r) = IF IsVisible(e) /\ s > 0 THEN s - 1 ELSE s
<1> DEFINE q == Append(r, e)
<1>1. Len(q) = Len(r) + 1 /\ Len(r) \in Nat /\ q[Len(r) + 1] = e
  BY CountsAppend
<1> HIDE DEF q
<1>2. Last(q) = e
  BY <1>1 DEF Last
<1>3. ~(Len(r) > Len(r)) /\ ~(Len(r) < Len(r)) /\ Len(q) > Len(r) /\ ~(Len(q) < Len(r))
      /\ Len(r) < Len(q) /\ ~(Len(r) > Len(q))
  BY <1>1
<1>4. SeenAfter(s, r, r) = s
  BY <1>3 DEF SeenAfter
<1>5. SeenAfter(s, r, q) = IF IsVisible(e) THEN s + 1 ELSE s
  BY <1>2, <1>3 DEF SeenAfter
<1>6. SeenAfter(s, q, r) = IF IsVisible(e) /\ s > 0 THEN s - 1 ELSE s
  BY <1>2, <1>3 DEF SeenAfter
<1> QED BY <1>4, <1>5, <1>6 DEF q

-----------------------------------------------------------------------------
(* The invariant. *)

(* The frames of fiber f, if it has a thread at all, against its stack.    *)
FiberMirrors(f) == Mirrors(FiberKeys(threads, f), rstack[f], seen[f])

MirrorOK ==
  /\ seen \in [Fibers -> Nat]
  /\ \A f \in Fibers : Entered(rstack[f])
  /\ TraceFlags(threads)
  /\ running => \A f \in Fibers : FiberMirrors(f)

MirrorInv == IdleInv /\ MirrorOK

(* What Call pushes.                                                       *)
CallEntry(k) == [method |-> k, kind |-> "method"]

(* What a step does to the stack of a traced fiber and to its frames.      *)
StepOf(f, new, old) ==
  LET r == rstack[f]
      q == rstack'[f]
  IN  \/ q = r /\ new = old
      \/ q = r /\ r # <<>> /\ Handled(new, old, "line", Last(r).method)
      \/ \E k \in Methods : q = Append(r, CallEntry(k)) /\ Handled(new, old, "call", k)
      \/ \E e \in Entry : /\ e.kind = "method"
                          /\ r = Append(q, e)
                          /\ Handled(new, old, "return", e.method)
      \/ \E e \in Entry : e.kind # "method" /\ q = Append(r, e) /\ new = old
      \/ \E e \in Entry : /\ e.kind # "method"
                          /\ e.kind = "block" => q # <<>>
                          /\ r = Append(q, e)
                          /\ new = old

(* It keeps the mirror.                                                    *)
LEMMA TracedStep ==
  ASSUME NEW f \in Fibers, NEW new \in Seq(Keys), NEW old \in Seq(Keys),
         rstack[f] \in Seq(Entry), rstack'[f] \in Seq(Entry), Entered(rstack[f]),
         seen[f] \in Nat, Mirrors(old, rstack[f], seen[f]), StepOf(f, new, old)
  PROVE  Mirrors(new, rstack'[f], SeenAfter(seen[f], rstack[f], rstack'[f]))
<1> DEFINE r == rstack[f]
           q == rstack'[f]
           s == seen[f]
<1> HIDE DEF r, q, s
<1>0. /\ r \in Seq(Entry) /\ q \in Seq(Entry) /\ Entered(r) /\ s \in Nat
      /\ Mirrors(old, r, s)
  BY DEF r, q, s
<1>1. ASSUME q = r, new = old PROVE Mirrors(new, q, SeenAfter(s, r, q))
  <2>1. SeenAfter(s, r, r) = s
    <3>1. ~(Len(r) > Len(r)) /\ ~(Len(r) < Len(r))
      BY <1>0
    <3> QED BY <3>1 DEF SeenAfter
  <2> QED BY <1>0, <1>1, <2>1
<1>2. ASSUME q = r, r # <<>>, Handled(new, old, "line", Last(r).method)
      PROVE  Mirrors(new, q, SeenAfter(s, r, q))
  <2>1. CASE new = old
    BY <1>1, <1>2, <2>1
  <2>2. CASE new # old
    <3>1. Last(r).method \notin Excluded /\ old = <<>> /\ new = <<Last(r).method>>
      BY <1>2, <2>2 DEF Handled, Lined
    <3>2. Mirrors(new, r, s)
      BY <1>0, <1>2, <3>1, LineMirrored
    <3>3. SeenAfter(s, r, r) = s
      BY <1>0, <1>2, Popped, SeenIs
    <3> QED BY <1>2, <3>2, <3>3
  <2> QED BY <2>1, <2>2
<1>3. ASSUME NEW k \in Methods, q = Append(r, CallEntry(k)), Handled(new, old, "call", k)
      PROVE  Mirrors(new, q, SeenAfter(s, r, q))
  <2> DEFINE e == CallEntry(k)
  <2>1. e \in Entry /\ e.method = k /\ e.kind = "method"
    BY DEF CallEntry, Entry
  <2> HIDE DEF e
  <2>2. IsVisible(e) <=> k \notin Excluded
    BY <2>1 DEF IsVisible
  <2>3. SeenAfter(s, r, Append(r, e)) = IF IsVisible(e) THEN s + 1 ELSE s
    BY <1>0, <2>1, SeenIs
  <2>4. CASE k \in Excluded
    <3>1. new = old /\ ~IsVisible(e)
      BY <1>3, <2>2, <2>4 DEF Handled
    <3>2. Mirrors(old, Append(r, e), s)
      BY <1>0, <2>1, <3>1, UnseenMirrored
    <3> QED BY <1>3, <2>3, <3>1, <3>2 DEF e
  <2>5. CASE k \notin Excluded
    <3>1. Called(new, old, k) /\ IsVisible(e)
      BY <1>3, <2>2, <2>5 DEF Handled
    <3>2. CASE new = Append(old, k)
      <4>1. Mirrors(Append(old, e.method), Append(r, e), s + 1)
        BY <1>0, <2>1, <3>1, CallMirrored
      <4> QED BY <1>3, <2>1, <2>3, <3>1, <3>2, <4>1 DEF e
    <3>3. CASE old = <<>> /\ new = Append(<<InsertedParent>>, k)
      <4>1. Mirrors(<<InsertedParent>>, r, s)
        BY <1>0, <3>3, DummyMirrored
      <4>2. <<InsertedParent>> \in Seq(Keys)
        BY DEF Keys
      <4>3. Mirrors(Append(<<InsertedParent>>, e.method), Append(r, e), s + 1)
        BY <1>0, <2>1, <3>1, <4>1, <4>2, CallMirrored
      <4> QED BY <1>3, <2>1, <2>3, <3>1, <3>3, <4>3 DEF e
    <3> QED BY <3>1, <3>2, <3>3 DEF Called
  <2> QED BY <2>4, <2>5
<1>4. ASSUME NEW e \in Entry, e.kind = "method", r = Append(q, e),
             Handled(new, old, "return", e.method)
      PROVE  Mirrors(new, q, SeenAfter(s, r, q))
  <2>1. IsVisible(e) <=> e.method \notin Excluded
    BY <1>4 DEF IsVisible
  <2>2. SeenAfter(s, r, q) = IF IsVisible(e) /\ s > 0 THEN s - 1 ELSE s
    BY <1>0, <1>4, SeenIs
  <2>3. Mirrors(old, Append(q, e), s)
    BY <1>0, <1>4
  <2>4. CASE e.method \in Excluded
    <3>1. new = old /\ ~IsVisible(e)
      BY <1>4, <2>1, <2>4 DEF Handled
    <3>2. Mirrors(old, q, s)
      BY <1>0, <2>3, <2>4, <3>1, UnseenMirrored
    <3> QED BY <2>2, <3>1, <3>2
  <2>5. CASE e.method \notin Excluded
    <3>1. Returned(new, old) /\ IsVisible(e)
      BY <1>4, <2>1, <2>5 DEF Handled
    <3>2. Mirrors(new, q, IF s > 0 THEN s - 1 ELSE s)
      BY <1>0, <2>3, <3>1, ReturnMirrored
    <3> QED BY <2>2, <3>1, <3>2
  <2> QED BY <2>4, <2>5
<1>5. ASSUME NEW e \in Entry, e.kind # "method", q = Append(r, e), new = old
      PROVE  Mirrors(new, q, SeenAfter(s, r, q))
  <2>1. ~IsVisible(e)
    BY <1>5 DEF IsVisible
  <2>2. SeenAfter(s, r, q) = s
    BY <1>0, <1>5, <2>1, SeenIs
  <2>3. Mirrors(old, Append(r, e), s)
    BY <1>0, <2>1, UnseenMirrored
  <2> QED BY <1>5, <2>2, <2>3
<1>6. ASSUME NEW e \in Entry, e.kind # "method", e.kind = "block" => q # <<>>,
             r = Append(q, e), new = old
      PROVE  Mirrors(new, q, SeenAfter(s, r, q))
  <2>1. ~IsVisible(e)
    BY <1>6 DEF IsVisible
  <2>2. SeenAfter(s, r, q) = s
    BY <1>0, <1>6, <2>1, SeenIs
  <2>3. \E l \in 1 .. Len(q) : q[l].method = e.method
    BY <1>0, <1>6, EnteredAppend
  <2>4. Mirrors(old, Append(q, e), s)
    BY <1>0, <1>6
  <2>5. Mirrors(old, q, s)
    BY <1>0, <2>1, <2>3, <2>4, UnseenMirrored
  <2> QED BY <1>6, <2>2, <2>5
<1> QED BY <1>1, <1>2, <1>3, <1>4, <1>5, <1>6 DEF StepOf, r, q, s

(* So does a step of which an untraced fiber records nothing.              *)
LEMMA FiberStep ==
  ASSUME MirrorInv, IInv', StackAuditNext, running, running', NEW f \in Fibers,
         IF f \in Untraced THEN FiberKeys(threads', f) = FiberKeys(threads, f)
         ELSE StepOf(f, FiberKeys(threads', f), FiberKeys(threads, f))
  PROVE  FiberMirrors(f)'
<1> DEFINE new == FiberKeys(threads', f)
           old == FiberKeys(threads, f)
<1>1. /\ rstack[f] \in Seq(Entry) /\ rstack'[f] \in Seq(Entry)
      /\ Entered(rstack[f]) /\ seen[f] \in Nat
      /\ Mirrors(old, rstack[f], seen[f])
  BY DEF MirrorInv, MirrorOK, IdleInv, IInv, TypeOK, FiberMirrors
<1>2. seen'[f] = IF f \notin Untraced THEN SeenAfter(seen[f], rstack[f], rstack'[f]) ELSE 0
  BY DEF StackAuditNext
<1>3. new \in Seq(Keys) /\ old \in Seq(Keys)
  <2>1. TableOK(threads) /\ TableOK(threads')
    BY DEF MirrorInv, IdleInv, IInv
  <2>2. \A t : ThreadOK(t) => KeysOf(t) \in Seq(Keys)
    BY KeysTyped
  <2>3. <<>> \in Seq(Keys)
    OBVIOUS
  <2> QED BY <2>1, <2>2, <2>3 DEF FiberKeys, TableOK
<1>4. CASE f \in Untraced
  <2>1. old = <<>>
    <3>1. CASE f \in DOMAIN threads
      <4>1. threads[f].stack = <<>> /\ ThreadOK(threads[f])
        BY <1>4, <3>1 DEF MirrorInv, IdleInv, IdleOK, UntracedIdle, IInv, TableOK
      <4> QED BY <3>1, <4>1, KeysTyped DEF FiberKeys
    <3>2. CASE f \notin DOMAIN threads
      BY <3>2 DEF FiberKeys
    <3> QED BY <3>1, <3>2
  <2> HIDE DEF old, new
  <2>2. new = <<>> /\ seen'[f] = 0
    BY <1>2, <1>4, <2>1 DEF new, old
  <2>3. Mirrors(<<>>, rstack'[f], 0)
    BY <1>1, NoneMirrored
  <2> QED BY <2>2, <2>3 DEF FiberMirrors, new
<1>5. CASE f \notin Untraced
  <2>1. StepOf(f, new, old)
    BY <1>5
  <2> HIDE DEF old, new
  <2>2. Mirrors(new, rstack'[f], SeenAfter(seen[f], rstack[f], rstack'[f]))
    BY <1>1, <1>3, <2>1, TracedStep
  <2> QED BY <1>2, <1>5, <2>2 DEF FiberMirrors, new
<1> QED BY <1>4, <1>5

(* What the steps of a running profile do to the frames of the fibers.     *)
KeysStep ==
  \A f \in Fibers :
    IF f \in Untraced THEN FiberKeys(threads', f) = FiberKeys(threads, f)
    ELSE StepOf(f, FiberKeys(threads', f), FiberKeys(threads, f))

(* The other fibers are where they were.                                   *)
LEMMA OneFiberSteps ==
  ASSUME NEW f \in Fibers,
         \A g \in Fibers \ {f} : /\ rstack'[g] = rstack[g]
                                 /\ FiberKeys(threads', g) = FiberKeys(threads, g),
         IF f \in Untraced THEN FiberKeys(threads', f) = FiberKeys(threads, f)
         ELSE StepOf(f, FiberKeys(threads', f), FiberKeys(threads, f))
  PROVE  KeysStep
<1>1. ASSUME NEW g \in Fibers, g # f
      PROVE  /\ FiberKeys(threads', g) = FiberKeys(threads, g)
             /\ StepOf(g, FiberKeys(threads', g), FiberKeys(threads, g))
  BY <1>1 DEF StepOf
<1> QED BY <1>1 DEF KeysStep

(* A step that is no event, whatever it does to the stack of the fiber.    *)
LEMMA NoEventSteps ==
  ASSUME NEW f \in Fibers, rstack[f] \in Seq(Entry), rstack'[f] \in Seq(Entry),
         SameKeys(threads', threads),
         \A g \in Fibers \ {f} : rstack'[g] = rstack[g],
         \/ rstack'[f] = rstack[f]
         \/ \E e \in Entry : e.kind # "method" /\ rstack'[f] = Append(rstack[f], e)
         \/ \E e \in Entry : /\ e.kind # "method"
                             /\ e.kind = "block" => rstack'[f] # <<>>
                             /\ rstack[f] = Append(rstack'[f], e)
  PROVE  KeysStep
<1>1. StepOf(f, FiberKeys(threads', f), FiberKeys(threads, f))
  BY DEF SameKeys, StepOf
<1> QED BY <1>1, OneFiberSteps DEF SameKeys

(* A push, seen from the stack.                                            *)
LEMMA TopPushed ==
  ASSUME rstack \in [Fibers -> Seq(Entry)], NEW f \in Fibers, NEW k \in Methods,
         NEW kind \in BlockKinds \cup {"method"}, Push(f, k, kind)
  PROVE  LET e == [method |-> k, kind |-> kind]
         IN  /\ e \in Entry /\ e.method = k /\ e.kind = kind
             /\ rstack'[f] = Append(rstack[f], e)
             /\ rstack'[f] \in Seq(Entry)
             /\ \A g \in Fibers \ {f} : rstack'[g] = rstack[g]
<1> DEFINE e == [method |-> k, kind |-> kind]
<1>1. e \in Entry /\ e.method = k /\ e.kind = kind
  BY DEF Entry
<1>2. rstack' = [rstack EXCEPT ![f] = Append(rstack[f], e)]
  BY DEF Push
<1> HIDE DEF e
<1>3. rstack'[f] = Append(rstack[f], e) /\ \A g \in Fibers \ {f} : rstack'[g] = rstack[g]
  BY <1>2
<1>4. Append(rstack[f], e) \in Seq(Entry)
  BY <1>1
<1> QED BY <1>1, <1>3, <1>4 DEF e

(* A pop, seen from the stack.                                             *)
LEMMA TopPopped ==
  ASSUME rstack \in [Fibers -> Seq(Entry)], NEW f \in Fibers, rstack[f] # <<>>, Pop(f)
  PROVE  /\ Top(f) \in Entry
         /\ rstack[f] = Append(rstack'[f], Top(f))
         /\ rstack'[f] \in Seq(Entry)
         /\ Len(rstack[f]) > 1 => rstack'[f] # <<>>
         /\ \A g \in Fibers \ {f} : rstack'[g] = rstack[g]
<1>1. rstack' = [rstack EXCEPT ![f] = SubSeq(rstack[f], 1, Len(rstack[f]) - 1)]
  BY DEF Pop
<1>2. /\ rstack'[f] = SubSeq(rstack[f], 1, Len(rstack[f]) - 1)
      /\ \A g \in Fibers \ {f} : rstack'[g] = rstack[g]
  BY <1>1
<1>3. rstack[f] \in Seq(Entry)
  OBVIOUS
<1> QED BY <1>2, <1>3, Popped DEF Top

(* Entering a block is a step that is no event, if the frames stay.        *)
LEMMA BlockSteps ==
  ASSUME rstack \in [Fibers -> Seq(Entry)], NEW f \in Fibers, NEW k \in Methods,
         NEW kind \in BlockKinds, Push(f, k, kind), SameKeys(threads', threads)
  PROVE  KeysStep
<1> DEFINE e == [method |-> k, kind |-> kind]
<1>1. /\ e \in Entry /\ e.kind = kind
      /\ rstack'[f] = Append(rstack[f], e) /\ rstack'[f] \in Seq(Entry)
      /\ \A g \in Fibers \ {f} : rstack'[g] = rstack[g]
  BY TopPushed
<1>2. kind # "method"
  BY DEF BlockKinds
<1> HIDE DEF e
<1>3. \E x \in Entry : x.kind # "method" /\ rstack'[f] = Append(rstack[f], x)
  BY <1>1, <1>2
<1> QED BY <1>1, <1>3, NoEventSteps

(* Every action of a running profile that stays running, one by one. *)
LEMMA RunningSteps ==
  ASSUME MirrorInv, Next, running, running'
  PROVE  KeysStep
<1>1. IInv /\ TraceFlags(threads) /\ TableOK(threads)
  BY DEF MirrorInv, MirrorOK, IdleInv, IInv
<1>2. rstack \in [Fibers -> Seq(Entry)]
  BY <1>1 DEF IInv, TypeOK
<1>3. ASSUME NEW m \in Readings PROVE m \in Nat
  BY <1>1, <1>3, ReadingsAre, ProfilerAssumption DEF IInv
<1>4. ASSUME NEW f \in Fibers, NEW k \in Methods, Call(f, k) PROVE KeysStep
  <2>1. Push(f, k, "method")
    BY <1>4 DEF Call
  <2>2. PICK m \in Readings : prof_event_hook(f, "call", k, m)
    BY <1>4 DEF Call, Observe
  <2>3. /\ \A g \in Fibers \ {f} : FiberKeys(threads', g) = FiberKeys(threads, g)
        /\ IF f \in Untraced THEN FiberKeys(threads', f) = FiberKeys(threads, f)
           ELSE Handled(FiberKeys(threads', f), FiberKeys(threads, f), "call", k)
    BY <1>1, <1>3, <2>2, HookKeys
  <2>4. /\ rstack'[f] = Append(rstack[f], CallEntry(k))
        /\ \A g \in Fibers \ {f} : rstack'[g] = rstack[g]
    BY <1>2, <2>1, TopPushed DEF CallEntry
  <2> QED BY <2>3, <2>4, OneFiberSteps DEF StepOf
<1>5. ASSUME NEW f \in Fibers, Return(f) PROVE KeysStep
  <2>1. rstack[f] # <<>> /\ Top(f).kind = "method" /\ Pop(f)
    BY <1>5 DEF Return, CanRun
  <2>2. PICK m \in Readings : prof_event_hook(f, "return", Top(f).method, m)
    BY <1>5 DEF Return, Observe
  <2>3. Top(f).method \in Methods
    BY <1>2, <2>1, TopTyped
  <2>4. /\ \A g \in Fibers \ {f} : FiberKeys(threads', g) = FiberKeys(threads, g)
        /\ IF f \in Untraced THEN FiberKeys(threads', f) = FiberKeys(threads, f)
           ELSE Handled(FiberKeys(threads', f), FiberKeys(threads, f),
                        "return", Top(f).method)
    BY <1>1, <1>3, <2>2, <2>3, HookKeys
  <2>5. /\ Top(f) \in Entry /\ rstack[f] = Append(rstack'[f], Top(f))
        /\ \A g \in Fibers \ {f} : rstack'[g] = rstack[g]
    BY <1>2, <2>1, TopPopped
  <2> QED BY <2>1, <2>4, <2>5, OneFiberSteps DEF StepOf
<1>6. ASSUME NEW f \in Fibers, Line(f) PROVE KeysStep
  <2>1. rstack[f] # <<>> /\ rstack' = rstack
    BY <1>6 DEF Line, InRuby, CanRun
  <2>2. PICK m \in Readings : prof_event_hook(f, "line", Top(f).method, m)
    BY <1>6 DEF Line, Observe
  <2>3. Top(f).method \in Methods
    BY <1>2, <2>1, TopTyped
  <2>4. /\ \A g \in Fibers \ {f} : FiberKeys(threads', g) = FiberKeys(threads, g)
        /\ IF f \in Untraced THEN FiberKeys(threads', f) = FiberKeys(threads, f)
           ELSE Handled(FiberKeys(threads', f), FiberKeys(threads, f),
                        "line", Last(rstack[f]).method)
    BY <1>1, <1>3, <2>2, <2>3, HookKeys DEF Top
  <2> QED BY <2>1, <2>4, OneFiberSteps DEF StepOf
<1>7. SameKeys(threads, threads)
  BY DEF SameKeys
<1>8. ASSUME NEW f \in Fibers, NEW k \in Methods, Yield(f, k) PROVE KeysStep
  <2>1. Push(f, k, "block") /\ threads' = threads
    BY <1>8 DEF Yield, profile
  <2>2. "block" \in BlockKinds
    BY DEF BlockKinds
  <2> QED BY <1>2, <1>7, <2>1, <2>2, BlockSteps
<1>9. ASSUME NEW f \in Fibers, EndYield(f) PROVE KeysStep
  <2>1. /\ rstack[f] # <<>> /\ Pop(f) /\ threads' = threads
        /\ Len(rstack[f]) > 1 /\ Top(f).kind = "block"
    BY <1>9 DEF EndYield, CanRun, profile
  <2>2. "block" # "method"
    OBVIOUS
  <2>3. /\ rstack[f] \in Seq(Entry) /\ rstack'[f] \in Seq(Entry)
        /\ Top(f) \in Entry /\ rstack'[f] # <<>>
        /\ rstack[f] = Append(rstack'[f], Top(f))
        /\ \A g \in Fibers \ {f} : rstack'[g] = rstack[g]
    BY <1>2, <2>1, TopPopped
  <2> QED BY <1>7, <2>1, <2>2, <2>3, NoEventSteps
<1>10. ASSUME NEW f \in Fibers, Start(f) \/ ProfileBlock(f) PROVE KeysStep
  BY <1>10 DEF Start, ProfileBlock, prof_start
<1>11. ASSUME NEW f \in Fibers, NEW m \in Readings,
              prof_pause(check_fiber(f, m), m) \/ prof_resume(check_fiber(f, m), m)
       PROVE  SameKeys(threads', threads)
  <2>1. m \in Nat
    BY <1>3
  <2>2. TraceFlags(check_fiber(f, m)) /\ SameKeys(check_fiber(f, m), threads)
    BY <1>1, <2>1, CheckFiberKeys
  <2>3. TableOK(check_fiber(f, m))
    BY <1>1, <2>1, CheckFiberOK
  <2>4. SameKeys(threads', check_fiber(f, m))
    BY <1>11, <2>1, <2>2, <2>3, PauseKeys
  <2> QED BY <2>2, <2>4 DEF SameKeys
<1>12. ASSUME NEW f \in Fibers, Pause(f) \/ Resume(f) PROVE KeysStep
  <2>1. PICK m \in Readings :
          prof_pause(check_fiber(f, m), m) \/ prof_resume(check_fiber(f, m), m)
    BY <1>12 DEF Pause, Resume
  <2>2. rstack' = rstack
    BY <1>12 DEF Pause, Resume
  <2> QED BY <1>2, <1>11, <2>1, <2>2, NoEventSteps
<1>13. ASSUME NEW f \in Fibers, Stop(f) \/ EndProfileBlock(f) PROVE KeysStep
  BY <1>13 DEF Stop, EndProfileBlock, prof_stop
<1>14. ASSUME NEW f \in Fibers, ResumeBlock(f) PROVE KeysStep
  <2>1. PICK m \in Readings : prof_resume(check_fiber(f, m), m)
    BY <1>14 DEF ResumeBlock
  <2>2. rstack' = rstack \/ Push(f, Top(f).method, "resumed")
    BY <1>14 DEF ResumeBlock
  <2>3. rstack[f] # <<>>
    BY <1>14 DEF ResumeBlock, CanPush, CanRun
  <2>4. Top(f).method \in Methods
    BY <1>2, <2>3, TopTyped
  <2>5. "resumed" \in BlockKinds
    BY DEF BlockKinds
  <2>6. SameKeys(threads', threads)
    BY <1>11, <2>1
  <2>7. CASE rstack' = rstack
    BY <1>2, <2>6, <2>7, NoEventSteps
  <2>8. CASE Push(f, Top(f).method, "resumed")
    BY <1>2, <2>4, <2>5, <2>6, <2>8, BlockSteps
  <2> QED BY <2>2, <2>7, <2>8
<1>15. ASSUME NEW f \in Fibers, EndResumeBlock(f) PROVE KeysStep
  <2>1. rstack[f] # <<>> /\ Pop(f) /\ Top(f).kind = "resumed"
    BY <1>15 DEF EndResumeBlock, CanRun
  <2>2. PICK m \in Readings : prof_pause(threads, m)
    BY <1>15 DEF EndResumeBlock
  <2>3. SameKeys(threads', threads)
    BY <1>1, <1>3, <2>2, PauseKeys
  <2>4. "resumed" # "method" /\ "resumed" # "block"
    OBVIOUS
  <2>5. /\ rstack[f] \in Seq(Entry) /\ rstack'[f] \in Seq(Entry)
        /\ Top(f) \in Entry /\ rstack[f] = Append(rstack'[f], Top(f))
        /\ \A g \in Fibers \ {f} : rstack'[g] = rstack[g]
    BY <1>2, <2>1, TopPopped
  <2> QED BY <2>1, <2>3, <2>4, <2>5, NoEventSteps
<1> QED BY <1>4, <1>5, <1>6, <1>8, <1>9, <1>10, <1>12, <1>13, <1>14, <1>15 DEF Next

(* The trace flag of a thread is set when it is made, and kept.            *)
LEMMA NextFlags ==
  ASSUME IInv, TraceFlags(threads), Next
  PROVE  TraceFlags(threads')
<1>1. TableOK(threads) /\ rstack \in [Fibers -> Seq(Entry)]
  BY DEF IInv, TypeOK
<1>2. ASSUME NEW m \in Readings PROVE m \in Nat
  BY <1>2, ReadingsAre, ProfilerAssumption DEF IInv
<1>3. ASSUME threads' = threads PROVE TraceFlags(threads')
  BY <1>3
<1>4. ASSUME NEW f \in Fibers, NEW k \in Methods,
             NEW event \in {"line", "call", "return"}, Observe(f, event, k)
      PROVE  TraceFlags(threads')
  <2>1. CASE running
    <3>1. PICK m \in Readings : prof_event_hook(f, event, k, m)
      BY <1>4, <2>1 DEF Observe
    <3> QED BY <1>2, <2>1, <3>1, HookKeys
  <2>2. CASE ~running
    BY <1>3, <1>4, <2>2 DEF Observe, profile
  <2> QED BY <2>1, <2>2
<1>5. ASSUME NEW f \in Fibers, rstack[f] # <<>> PROVE Top(f).method \in Methods
  BY <1>1, <1>5, TopTyped
<1>6. ASSUME NEW f \in Fibers, NEW k \in Methods, Call(f, k) \/ Yield(f, k)
      PROVE  TraceFlags(threads')
  BY <1>3, <1>4, <1>6 DEF Call, Yield, profile
<1>7. ASSUME NEW f \in Fibers, Return(f) \/ Line(f) PROVE TraceFlags(threads')
  BY <1>4, <1>5, <1>7 DEF Return, Line, InRuby, CanRun
<1>8. ASSUME NEW f \in Fibers, EndYield(f) PROVE TraceFlags(threads')
  BY <1>3, <1>8 DEF EndYield, profile
<1>9. ASSUME NEW f \in Fibers, Start(f) \/ ProfileBlock(f) PROVE TraceFlags(threads')
  <2>1. threads' = threads_table_insert(threads, f)
    BY <1>9 DEF Start, ProfileBlock, prof_start
  <2> QED BY <2>1, InsertKeys
<1>10. ASSUME NEW f \in Fibers, NEW m \in Readings, running
       PROVE  TraceFlags(check_fiber(f, m)) /\ TableOK(check_fiber(f, m)) /\ m \in Nat
  <2>1. m \in Nat
    BY <1>2
  <2> QED BY <1>10, <2>1, CheckFiberKeys, CheckFiberOK
<1>11. ASSUME NEW f \in Fibers, Pause(f) \/ Resume(f) \/ ResumeBlock(f)
       PROVE  TraceFlags(threads')
  <2>1. running
    BY <1>11 DEF Pause, Resume, ResumeBlock
  <2>2. PICK m \in Readings :
          prof_pause(check_fiber(f, m), m) \/ prof_resume(check_fiber(f, m), m)
    BY <1>11 DEF Pause, Resume, ResumeBlock
  <2> QED BY <1>10, <2>1, <2>2, PauseKeys
<1>12. ASSUME NEW f \in Fibers, Stop(f) PROVE TraceFlags(threads')
  <2>1. running
    BY <1>12 DEF Stop
  <2>2. PICK m \in Readings : prof_stop(check_fiber(f, m), f, m)
    BY <1>12 DEF Stop
  <2> QED BY <1>10, <2>1, <2>2, StopFlags
<1>13. ASSUME NEW f \in Fibers, EndProfileBlock(f) PROVE TraceFlags(threads')
  <2>1. CASE running
    <3>1. PICK m \in Readings : prof_stop(threads, last, m)
      BY <1>13, <2>1 DEF EndProfileBlock
    <3> QED BY <1>1, <1>2, <3>1, StopFlags
  <2>2. CASE ~running
    BY <1>3, <1>13, <2>2 DEF EndProfileBlock, profile
  <2> QED BY <2>1, <2>2
<1>14. ASSUME NEW f \in Fibers, EndResumeBlock(f) PROVE TraceFlags(threads')
  <2>1. CASE running
    <3>1. PICK m \in Readings : prof_pause(threads, m)
      BY <1>14, <2>1 DEF EndResumeBlock
    <3> QED BY <1>1, <1>2, <3>1, PauseKeys
  <2>2. CASE ~running
    BY <1>3, <1>14, <2>2 DEF EndResumeBlock, profile
  <2> QED BY <2>1, <2>2
<1> QED BY <1>6, <1>7, <1>8, <1>9, <1>11, <1>12, <1>13, <1>14 DEF Next

(* A block is entered from its method, or from the method that profiles    *)
(* it.                                                                     *)
LEMMA NextEntered ==
  ASSUME rstack \in [Fibers -> Seq(Entry)], \A f \in Fibers : Entered(rstack[f]), Next
  PROVE  \A f \in Fibers : Entered(rstack'[f])
<1> DEFINE Goal == \A f \in Fibers : Entered(rstack'[f])
<1>1. ASSUME rstack' = rstack PROVE Goal
  BY <1>1
<1>2. ASSUME NEW f \in Fibers, NEW k \in Methods,
             NEW kind \in BlockKinds \cup {"method"}, Push(f, k, kind),
             \/ kind = "method"
             \/ \E l \in 1 .. Len(rstack[f]) : rstack[f][l].method = k
      PROVE  Goal
  <2> DEFINE e == [method |-> k, kind |-> kind]
  <2>1. /\ e \in Entry /\ e.method = k /\ e.kind = kind
        /\ rstack'[f] = Append(rstack[f], e)
        /\ \A g \in Fibers \ {f} : rstack'[g] = rstack[g]
    BY <1>2, TopPushed
  <2> HIDE DEF e
  <2>2. rstack[f] \in Seq(Entry) /\ Entered(rstack[f])
    OBVIOUS
  <2>3. Entered(Append(rstack[f], e))
    BY <1>2, <2>1, <2>2, EnteredAppend
  <2> QED BY <2>1, <2>3
<1>3. ASSUME NEW f \in Fibers, rstack[f] # <<>>, Pop(f) PROVE Goal
  <2>1. /\ Top(f) \in Entry /\ rstack'[f] \in Seq(Entry)
        /\ rstack[f] = Append(rstack'[f], Top(f))
        /\ \A g \in Fibers \ {f} : rstack'[g] = rstack[g]
    BY <1>3, TopPopped
  <2>2. Entered(Append(rstack'[f], Top(f)))
    BY <2>1
  <2>3. Entered(rstack'[f])
    BY <2>1, <2>2, EnteredAppend
  <2> QED BY <2>1, <2>3
<1>4. "block" \in BlockKinds /\ "profiled" \in BlockKinds /\ "resumed" \in BlockKinds
  BY DEF BlockKinds
<1>5. ASSUME NEW f \in Fibers, rstack[f] # <<>>
      PROVE  /\ Top(f).method \in Methods
             /\ \E l \in 1 .. Len(rstack[f]) : rstack[f][l].method = Top(f).method
  <2>1. Len(rstack[f]) \in 1 .. Len(rstack[f])
    <3>1. rstack[f] \in Seq(Entry)
      OBVIOUS
    <3>2. Len(rstack[f]) \in Nat /\ Len(rstack[f]) # 0
      BY <1>5, <3>1, EmptySeq
    <3> QED BY <3>2
  <2> QED BY <1>5, <2>1, TopTyped DEF Top, Last
<1> HIDE DEF Goal
<1>6. ASSUME NEW f \in Fibers, NEW k \in Methods, Call(f, k) PROVE Goal
  BY <1>2, <1>6 DEF Call
<1>7. ASSUME NEW f \in Fibers, NEW k \in Methods, Yield(f, k) PROVE Goal
  <2>1. Push(f, k, "block")
    BY <1>7 DEF Yield
  <2>2. PICK i \in 1 .. Len(rstack[f]) - 1 : rstack[f][i].method = k
    BY <1>7 DEF Yield
  <2>3. i \in 1 .. Len(rstack[f])
    <3>1. rstack[f] \in Seq(Entry)
      OBVIOUS
    <3>2. Len(rstack[f]) \in Nat
      BY <3>1
    <3> QED BY <3>2
  <2> QED BY <1>2, <1>4, <2>1, <2>2, <2>3
<1>8. ASSUME NEW f \in Fibers,
             \/ Line(f) \/ Start(f) \/ Pause(f) \/ Resume(f) \/ Stop(f)
      PROVE  Goal
  BY <1>1, <1>8 DEF Line, Start, Pause, Resume, Stop
<1>9. ASSUME NEW f \in Fibers,
             \/ Return(f) \/ EndYield(f) \/ EndProfileBlock(f) \/ EndResumeBlock(f)
      PROVE  Goal
  BY <1>3, <1>9 DEF Return, EndYield, EndProfileBlock, EndResumeBlock, CanRun
<1>10. ASSUME NEW f \in Fibers, ProfileBlock(f) PROVE Goal
  <2>1. Push(f, Top(f).method, "profiled") /\ rstack[f] # <<>>
    BY <1>10 DEF ProfileBlock, CanPush, CanRun
  <2> QED BY <1>2, <1>4, <1>5, <2>1
<1>11. ASSUME NEW f \in Fibers, ResumeBlock(f) PROVE Goal
  <2>1. rstack' = rstack \/ Push(f, Top(f).method, "resumed")
    BY <1>11 DEF ResumeBlock
  <2>2. rstack[f] # <<>>
    BY <1>11 DEF ResumeBlock, CanPush, CanRun
  <2> QED BY <1>1, <1>2, <1>4, <1>5, <2>1, <2>2
<1> QED BY <1>6, <1>7, <1>8, <1>9, <1>10, <1>11 DEF Next, Goal

(* A start finds no frame, and nobody has told of a call yet.              *)
LEMMA StartMirrors ==
  ASSUME MirrorInv, StackAuditNext, ~running, running', NEW f \in Fibers
  PROVE  FiberMirrors(f)'
<1>1. PICK g \in Fibers : threads' = threads_table_insert(threads, g)
  <2>1. PICK h \in Fibers : Start(h) \/ ProfileBlock(h)
    BY DEF StackAuditNext, Next, Call, Yield, Return, Line, Observe, EndYield, Pause, Resume,
           Stop, EndProfileBlock, ResumeBlock, EndResumeBlock, profile
  <2> QED BY <2>1 DEF Start, ProfileBlock, prof_start
<1>2. \A h \in DOMAIN threads : threads[h].stack = <<>> /\ ThreadOK(threads[h])
  BY DEF MirrorInv, IdleInv, IdleOK, AllIdle, IInv, TableOK
<1>3. FiberKeys(threads, f) = <<>>
  BY <1>2, KeysTyped DEF FiberKeys
<1>4. FiberKeys(threads', f) = <<>>
  BY <1>1, <1>3, InsertKeys DEF MirrorInv, MirrorOK
<1>5. seen'[f] = 0
  BY DEF StackAuditNext
<1>6. rstack'[f] \in Seq(Entry)
  <2>1. IInv'
    BY NextOK DEF MirrorInv, IdleInv, StackAuditNext
  <2> QED BY <2>1 DEF IInv, TypeOK
<1>7. Mirrors(<<>>, rstack'[f], 0)
  BY <1>6, NoneMirrored
<1> QED BY <1>4, <1>5, <1>7 DEF FiberMirrors

(* What is seen of a stack is counted in natural numbers.                  *)
LEMMA SeenTyped ==
  ASSUME seen \in [Fibers -> Nat], StackAuditNext
  PROVE  seen' \in [Fibers -> Nat]
<1>1. ASSUME NEW count \in Nat, NEW old, NEW new PROVE SeenAfter(count, old, new) \in Nat
  BY DEF SeenAfter
<1>2. ASSUME NEW f \in Fibers
      PROVE  (IF running /\ running' /\ f \notin Untraced
              THEN SeenAfter(seen[f], rstack[f], rstack'[f]) ELSE 0) \in Nat
  BY <1>1
<1> QED BY <1>2 DEF StackAuditNext

(* One step of the program and of the profiler. *)
LEMMA NextMirrors ==
  ASSUME MirrorInv, StackAuditNext
  PROVE  MirrorOK'
<1>1. IInv /\ Next /\ rstack \in [Fibers -> Seq(Entry)] /\ IInv'
  <2>1. IInv /\ Next
    BY DEF MirrorInv, IdleInv, StackAuditNext
  <2> QED BY <2>1, NextOK DEF IInv, TypeOK
<1>2. seen' \in [Fibers -> Nat]
  BY SeenTyped DEF MirrorInv, MirrorOK
<1>3. \A f \in Fibers : Entered(rstack'[f])
  BY <1>1, NextEntered DEF MirrorInv, MirrorOK
<1>4. TraceFlags(threads')
  BY <1>1, NextFlags DEF MirrorInv, MirrorOK
<1>5. ASSUME running', NEW f \in Fibers PROVE FiberMirrors(f)'
  <2>1. CASE running
    <3>1. KeysStep
      BY <1>1, <1>5, <2>1, RunningSteps
    <3> QED BY <1>1, <1>5, <2>1, <3>1, FiberStep DEF KeysStep
  <2>2. CASE ~running
    BY <1>5, <2>2, StartMirrors
  <2> QED BY <2>1, <2>2
<1> QED BY <1>2, <1>3, <1>4, <1>5 DEF MirrorOK

(* The mirror, in the words of the property. *)
LEMMA MirrorIs ==
  ASSUME MirrorInv
  PROVE  StackMirrorsProgram
<1> SUFFICES ASSUME running, NEW f \in DOMAIN threads
             PROVE  LET t == threads[f]
                        stack == rstack[f]
                        depth == Len(t.stack)
                        above(j) == Cardinality(VisibleAbove(stack, j))
                    IN  /\ depth \in {seen[f], seen[f] + 1}
                        /\ seen[f] <= above(0)
                        /\ \A j \in DOMAIN stack :
                             IsVisible(stack[j]) /\ above(j) < seen[f]
                               => FrameKey(t, depth - above(j)) = stack[j].method
                        /\ depth > seen[f] => FrameKey(t, 1) \in
                             {InsertedParent} \cup {stack[j].method : j \in DOMAIN stack}
  BY DEF StackMirrorsProgram
<1> DEFINE t == threads[f]
           stack == rstack[f]
           keys == KeysOf(t)
           s == seen[f]
<1>1. f \in Fibers /\ ThreadOK(t) /\ stack \in Seq(Entry) /\ s \in Nat
  BY DEF MirrorInv, MirrorOK, IdleInv, IInv, TypeOK, TableOK
<1>2. Mirrors(keys, stack, s)
  BY <1>1 DEF MirrorInv, MirrorOK, FiberMirrors, FiberKeys
<1> HIDE DEF t, stack, s
<1>3. /\ Len(keys) = Len(t.stack) /\ Len(t.stack) \in Nat
      /\ \A i \in 1 .. Len(t.stack) : keys[i] = FrameKey(t, i)
  BY <1>1, KeysTyped
<1> HIDE DEF keys
<1>4. DOMAIN stack = 1 .. Len(stack) /\ \A j \in 0 .. Len(stack) : CountAbove(stack, j) \in Nat
  BY <1>1, NoneMirrored
<1>5. Len(t.stack) \in {s, s + 1} /\ s <= CountAbove(stack, 0)
  BY <1>2, <1>3 DEF Mirrors
<1>6. ASSUME NEW j \in DOMAIN stack, IsVisible(stack[j]), CountAbove(stack, j) < s
      PROVE  FrameKey(t, Len(t.stack) - CountAbove(stack, j)) = stack[j].method
  <2>1. j \in 1 .. Len(stack) /\ CountAbove(stack, j) \in Nat
    BY <1>1, <1>4
  <2>2. keys[Len(t.stack) - CountAbove(stack, j)] = stack[j].method
    BY <1>2, <1>3, <1>6, <2>1 DEF Mirrors
  <2>3. Len(t.stack) - CountAbove(stack, j) \in 1 .. Len(t.stack)
    BY <1>1, <1>3, <1>5, <1>6, <2>1
  <2> QED BY <1>3, <2>2, <2>3
<1>7. ASSUME Len(t.stack) > s
      PROVE  FrameKey(t, 1) \in {InsertedParent} \cup {stack[j].method : j \in DOMAIN stack}
  <2>1. keys[1] = FrameKey(t, 1)
    BY <1>1, <1>3, <1>5, <1>7
  <2>2. keys[1] = InsertedParent \/ \E j \in 1 .. Len(stack) : stack[j].method = keys[1]
    BY <1>2, <1>3, <1>7 DEF Mirrors
  <2> QED BY <1>4, <2>1, <2>2
<1> QED BY <1>5, <1>6, <1>7 DEF CountAbove, t, stack, s

(* A running profile has a frame for every call it was told of that is     *)
(* still open, in the order of the program's stack, and below them at most *)
(* one, for a caller; whatever blocks are entered, methods excluded, and   *)
(* profiles started, paused and stopped in between.                        *)
THEOREM StackAlwaysMirrors ==
  ASSUME HomeEntered
  PROVE  StackAuditSpec => []StackMirrorsProgram
<1>1. StackAuditInit => MirrorInv
  <2>1. SUFFICES ASSUME StackAuditInit PROVE IdleOK /\ MirrorOK
    BY InitOK DEF MirrorInv, IdleInv, StackAuditInit
  <2>2. DOMAIN threads = {} /\ ~running
    BY <2>1 DEF StackAuditInit, Init
  <2>3. IdleOK
    BY <2>2 DEF IdleOK, UntracedIdle, AllIdle
  <2>4. seen \in [Fibers -> Nat] /\ \A f \in Fibers : Entered(rstack[f])
    BY <2>1 DEF StackAuditInit, Init, HomeEntered
  <2> QED BY <2>2, <2>3, <2>4 DEF MirrorOK, TraceFlags
<1>2. MirrorInv /\ [StackAuditNext]_<<vars, seen>> => MirrorInv'
  <2>1. SUFFICES ASSUME MirrorInv, [StackAuditNext]_<<vars, seen>> PROVE MirrorInv'
    OBVIOUS
  <2>2. CASE StackAuditNext
    <3>1. IInv' /\ IdleOK'
      BY <2>1, <2>2, NextOK, NextIdle DEF MirrorInv, IdleInv, StackAuditNext
    <3>2. MirrorOK'
      BY <2>1, <2>2, NextMirrors
    <3> QED BY <3>1, <3>2 DEF MirrorInv, IdleInv
  <2>3. CASE UNCHANGED <<vars, seen>>
    <3>1. IInv' /\ IdleOK'
      BY <2>1, <2>3, NextOK, NextIdle DEF MirrorInv, IdleInv
    <3>2. MirrorOK'
      BY <2>1, <2>3 DEF MirrorInv, MirrorOK, FiberMirrors, vars, profile
    <3> QED BY <3>1, <3>2 DEF MirrorInv, IdleInv
  <2> QED BY <2>1, <2>2, <2>3
<1>3. MirrorInv => StackMirrorsProgram
  BY MirrorIs
<1> QED BY <1>1, <1>2, <1>3, PTL DEF StackAuditSpec

=============================================================================
