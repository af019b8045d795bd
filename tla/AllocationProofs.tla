------------------------- MODULE AllocationProofs --------------------------
(***************************************************************************)
(* The properties of AllocationCounts, for every program, all classes and  *)
(* places, and any number of profiles that run at the same time. What the  *)
(* other modules prove of the hook holds of each of them, for Allocations  *)
(* handles events with the operators of Profiler. The inductive invariant  *)
(* is AllocInv, with one more for each property: NoneOvercounted compares  *)
(* the tables of all methods with the objects made, AloneInv the times of  *)
(* the root, open or closed, with the counter, FramesInv the frames of a   *)
(* profile with the program's own stack, and CountedInv the table of each  *)
(* method with the objects that it made.                                   *)
(***************************************************************************)
EXTENDS AllocationCounts, SequenceTheorems, LoopsAndSums

(* What is proved of the hook in the other modules, for a profile that is  *)
(* running and not paused.                                                 *)
H == INSTANCE LedgerProofs WITH
  Fibers <- {}, NoFiber <- NULL, Excluded <- {}, Untraced <- {},
  Uses <- {}, Ticks <- {}, MaxTime <- 0, Home <- <<>>,
  now <- counter, running <- TRUE, paused <- FALSE, last <- NULL,
  threads <- <<>>, crashed <- FALSE, pausedUnits <- {}, seen <- <<>>

(* The hook of Allocations and the one the lemmas are about are the same   *)
(* operator by operator: both are those of Profiler.                       *)
LEMMA SamePush ==
  \A t, n, m, p : H!prof_frame_push(t, n, m, p) = Hook!prof_frame_push(t, n, m, p)
BY DEF H!prof_frame_push, Hook!prof_frame_push, H!UnpauseParent,
   Hook!UnpauseParent, H!SetLast, Hook!SetLast, H!Last, Hook!Last,
   H!prof_frame_unpause, Hook!prof_frame_unpause, H!prof_frame_pause,
   Hook!prof_frame_pause, H!Paused, Hook!Paused, H!NewFrame, Hook!NewFrame,
   H!Visited, Hook!Visited, H!VisitedMethod, Hook!VisitedMethod, H!MethodOf,
   Hook!MethodOf, H!KeyOf, Hook!KeyOf

(* So a node is created alike ... *)
LEMMA SameCreate ==
  \A t, k, parent : H!prof_call_tree_create(t, k, parent) = Hook!prof_call_tree_create(t, k, parent)
BY DEF H!prof_call_tree_create, Hook!prof_call_tree_create, H!NewNode,
   Hook!NewNode, H!Keys, Hook!Keys, H!NULL, Hook!NULL

(* ... and put below another ... *)
LEMMA SameAddChild ==
  \A t, n, c : H!prof_call_tree_add_child(t, n, c) = Hook!prof_call_tree_add_child(t, n, c)
BY DEF H!prof_call_tree_add_child, Hook!prof_call_tree_add_child

(* ... or above the root, ... *)
LEMMA SameAddParent ==
  \A t, n, c : H!prof_call_tree_add_parent(t, n, c) = Hook!prof_call_tree_add_parent(t, n, c)
BY SameAddChild DEF H!prof_call_tree_add_parent,
   Hook!prof_call_tree_add_parent

(* ... which gets the times of the old root, ... *)
LEMMA SameTakeOver ==
  \A node, root : H!TakeOver(node, root) = Hook!TakeOver(node, root)
BY DEF H!TakeOver, Hook!TakeOver

(* ... as does its method, ... *)
LEMMA SameTakeOverMethod ==
  \A method, root : H!TakeOverMethod(method, root) = Hook!TakeOverMethod(method, root)
BY DEF H!TakeOverMethod, Hook!TakeOverMethod

(* ... and a first frame. *)
LEMMA SameUnshift ==
  \A t, n, r, m : H!prof_frame_unshift(t, n, r, m) = Hook!prof_frame_unshift(t, n, r, m)
<1> SUFFICES ASSUME NEW t, NEW n, NEW r, NEW m
             PROVE  H!prof_frame_unshift(t, n, r, m) = Hook!prof_frame_unshift(t, n, r, m)
  OBVIOUS
<1> DEFINE u == [t EXCEPT
                   !.nodes[n] = H!TakeOver(t.nodes[n], t.nodes[r]),
                   !.method_table[H!KeyOf(t, n)] =
                     H!TakeOverMethod(H!MethodOf(t, n), t.nodes[r])]
           v == [t EXCEPT
                   !.nodes[n] = Hook!TakeOver(t.nodes[n], t.nodes[r]),
                   !.method_table[Hook!KeyOf(t, n)] =
                     Hook!TakeOverMethod(Hook!MethodOf(t, n), t.nodes[r])]
<1>1. u = v
  BY SameTakeOver, SameTakeOverMethod, Zenon DEF H!KeyOf, Hook!KeyOf, H!MethodOf,
     Hook!MethodOf
<1>2. /\ H!prof_frame_unshift(t, n, r, m) = H!prof_frame_push(u, n, m, FALSE)
      /\ Hook!prof_frame_unshift(t, n, r, m) = Hook!prof_frame_push(v, n, m, FALSE)
  BY DEF H!prof_frame_unshift, Hook!prof_frame_unshift
<1> HIDE DEF u, v
<1> QED BY <1>1, <1>2, SamePush

(* Methods are created alike. *)
LEMMA SameCreateMethod ==
  \A t, k : H!create_method(t, k) = Hook!create_method(t, k)
BY DEF H!create_method, Hook!create_method

(* So the hook climbs above the root alike, ... *)
LEMMA SameClimb ==
  \A t, k, m : H!Climb(t, k, m) = Hook!Climb(t, k, m)
BY SameUnshift, SameCreate, SameAddParent DEF H!Climb, Hook!Climb,
   H!NewestNode, Hook!NewestNode, H!NULL, Hook!NULL

(* ... and begins a stack. *)
LEMMA SameFirstFrame ==
  \A t, k, m : H!FirstFrame(t, k, m) = Hook!FirstFrame(t, k, m)
BY SamePush, SameCreate DEF H!FirstFrame, Hook!FirstFrame, H!NewestNode,
   Hook!NewestNode, H!NULL, Hook!NULL

(* A call finds or makes the node of its method alike, ... *)
LEMMA SameCallChild ==
  \A t, k, n, m : H!CallChild(t, k, n, m) = Hook!CallChild(t, k, n, m)
BY SamePush, SameCreate, SameAddChild DEF H!CallChild, Hook!CallChild,
   H!NewestNode, Hook!NewestNode

(* ... from a frame ... *)
LEMMA SameCallFromFrame ==
  \A t, k, m : H!CallFromFrame(t, k, m) = Hook!CallFromFrame(t, k, m)
BY SamePush, SameCallChild DEF H!CallFromFrame, Hook!CallFromFrame,
   H!prof_frame_current, Hook!prof_frame_current, H!Last, Hook!Last, H!NULL,
   Hook!NULL

(* ... or without one. *)
LEMMA SameCallAboveRoot ==
  \A t, k, m : H!CallAboveRoot(t, k, m) = Hook!CallAboveRoot(t, k, m)
BY SameClimb, SameCallChild, SameCreateMethod DEF H!CallAboveRoot,
   Hook!CallAboveRoot

(* So the three kinds of events do the same: calls, ... *)
LEMMA SameCall ==
  \A t, k, m : H!CallEvent(t, k, m) = Hook!CallEvent(t, k, m)
BY SameCreateMethod, SameCallFromFrame, SameFirstFrame, SameCallAboveRoot
   DEF H!CallEvent, Hook!CallEvent, H!NULL, Hook!NULL

(* ... lines, ... *)
LEMMA SameLine ==
  \A t, k, m : H!LineEvent(t, k, m) = Hook!LineEvent(t, k, m)
BY SameCreateMethod, SameFirstFrame, SameClimb DEF H!LineEvent,
   Hook!LineEvent, H!NULL, Hook!NULL

(* ... and returns, which pop a frame, ... *)
LEMMA SamePop ==
  \A t, m : H!prof_frame_pop(t, m) = Hook!prof_frame_pop(t, m)
BY DEF H!prof_frame_pop, Hook!prof_frame_pop, H!CreditParent,
   Hook!CreditParent, H!Credited, Hook!Credited, H!Left, Hook!Left, H!MethodOf,
   Hook!MethodOf, H!KeyOf, Hook!KeyOf, H!prof_frame_unpause,
   Hook!prof_frame_unpause, H!Paused, Hook!Paused, H!Last, Hook!Last,
   H!SetLast, Hook!SetLast

(* ... after creating their method. *)
LEMMA SameReturn ==
  \A t, k, m : H!ReturnEvent(t, k, m) = Hook!ReturnEvent(t, k, m)
BY SamePop, SameCreateMethod DEF H!ReturnEvent, Hook!ReturnEvent

(* The types, and the thread that is new. *)
LEMMA SameOperators ==
  /\ H!Keys = Keys
  /\ H!Thread = Thread
  /\ H!NULL = NULL
  /\ \A trace : H!thread_data_create(trace) = thread_data_create(trace)
  /\ \A t, k : Hook!create_method(t, k) = H!create_method(t, k)
<1>1. H!Keys = Keys
  BY DEF H!Keys, Keys
<1>2. H!Thread = Thread
  BY DEF H!Keys, Keys, H!Thread, Thread, H!Frame, Frame, H!Node, Node, H!Method,
     Method
<1>3. H!NULL = NULL
  BY DEF H!NULL, NULL
<1>4. \A trace : H!thread_data_create(trace) = thread_data_create(trace)
  BY DEF H!NULL, NULL, H!Keys, Keys, H!thread_data_create, thread_data_create,
     H!NoMethod, NoMethod
<1> QED BY <1>1, <1>2, <1>3, <1>4, SameCreateMethod

(* And the operators that Allocations has from ThreadData itself. *)
LEMMA SamePopOwn == \A t, m : H!prof_frame_pop(t, m) = prof_frame_pop(t, m)
BY DEF H!prof_frame_pop, prof_frame_pop, H!CreditParent, CreditParent,
   H!Credited, Credited, H!Left, Left, H!MethodOf, MethodOf, H!KeyOf, KeyOf,
      H!prof_frame_unpause, prof_frame_unpause, H!Paused, Paused, H!Last, Last,
         H!SetLast, SetLast

(* So profiles stop alike. *)
LEMMA SamePopAll == \A t, m : H!PopAll(t, m) = PopAll(t, m)
BY SamePopOwn DEF H!PopAll, PopAll

-----------------------------------------------------------------------------
(* What the hook does to the record of a thread. *)

(* The assumptions of Profiler hold for the hook of this module. *)
LEMMA HookAssumption ==
  /\ /\ NULL \notin {}
     /\ CMethods \subseteq Methods
     /\ {} \subseteq Methods
     /\ {} \subseteq {}
     /\ <<>> \in [{} -> Seq(H!Entry)]
     /\ {} \subseteq Nat
     /\ 0 \in Nat
     /\ MaxDepth \in Nat
  /\ InsertedParent \notin Methods
BY AllocationsAssumption, InsertedParentAssumption DEF AllocationsAssumption

(* What is kept by pushes, pops and new call trees is kept by the hook. *)
LEMMA HookKept ==
  ASSUME NEW S, NEW m \in Nat, H!KeptRunning(S, m), NEW t \in S, NEW k \in Keys
  PROVE  /\ Hook!CallEvent(t, k, m) \in S
         /\ Hook!LineEvent(t, k, m) \in S
         /\ Hook!ReturnEvent(t, k, m) \in S
         /\ PopAll(t, m) \in S
         /\ H!create_method(t, k) \in S
<1>1. FALSE \in BOOLEAN /\ k \in H!Keys
  BY SameOperators
<1>2. H!CallEvent(t, k, m) \in S
  BY <1>1, HookAssumption, H!CallEventKept DEF H!CallEventKept
<1>3. H!LineEvent(t, k, m) \in S
  BY <1>1, HookAssumption, H!LineEventKept DEF H!LineEventKept
<1>4. H!create_method(t, k) \in S
  BY <1>1, HookAssumption, H!CreateMethodKept DEF H!CreateMethodKept
<1>5. H!prof_frame_pop(H!create_method(t, k), m) \in S
  BY <1>4, HookAssumption, H!PopKept DEF H!PopKept
<1>6. H!PopAll(t, m) \in S
  BY HookAssumption, H!PopAllKept DEF H!PopAllKept
<1>7. H!ReturnEvent(t, k, m) = H!prof_frame_pop(H!create_method(t, k), m)
  BY DEF H!ReturnEvent
<1> QED BY <1>2, <1>3, <1>4, <1>5, <1>6, <1>7, SameCall, SameLine, SameReturn, SamePopAll

(* The methods in C stay created. *)
WithMethods(C) ==
  {t \in H!Thread : H!ThreadOK(t) /\ \A k \in C : t.method_table[k].created}

(* Nothing that is done to a method undoes its creation. *)
LEMMA MethodRecords ==
  ASSUME NEW method \in H!Method, method.created, NEW total, NEW self, NEW wait
  PROVE  /\ H!VisitedMethod(method).created
         /\ H!Left(method, total, self, wait).created
BY DEF H!Method, H!VisitedMethod, H!Visited, H!Left

(* Created methods are kept by all the hook does. *)
LEMMA WithMethodsKept ==
  ASSUME NEW C \in SUBSET Keys, NEW m \in Nat
  PROVE  H!KeptRunning(WithMethods(C), m)
<1> DEFINE S == WithMethods(C)
<1>1. \A t \in S : /\ H!ThreadOK(t)
                   /\ \A k \in C : /\ k \in H!Keys
                                   /\ t.method_table[k] \in H!Method
                                   /\ t.method_table[k].created
  BY SameOperators DEF WithMethods, H!Thread
<1>2. \A u \in H!Thread : H!ThreadOK(u) /\ (\A k \in C : u.method_table[k].created) => u \in S
  BY DEF WithMethods
<1> HIDE DEF S
<1>3. ASSUME NEW t \in S, NEW u \in H!Thread, NEW k \in H!Keys,
             H!ThreadOK(u), H!Grown(u, t, k)
      PROVE  u \in S
  <2>1. \A j \in C : u.method_table[j].created
    BY <1>1, <1>3 DEF H!Grown
  <2> QED BY <1>2, <1>3, <2>1
<1>4. H!KeptBelow(S) /\ H!KeptAbove(S)
  BY <1>3 DEF H!KeptBelow, H!GrownBelow, H!KeptAbove, H!GrownAbove
<1>5. \A t \in S, u \in H!Thread :
        H!ThreadOK(u) /\ H!Alike(u, t) /\ u.stack = t.stack => u \in S
  BY <1>1, <1>2 DEF H!Alike
<1>6. \A t \in S, u \in H!Thread : \A n \in H!Nodes(t) :
        H!ThreadOK(u) /\ H!Reachable(t, n) /\ H!PushedAt(u, t, n, m) => u \in S
  BY <1>1, <1>2, MethodRecords DEF H!PushedAt, H!PushedOn
<1>7. \A t \in S, u \in H!Thread : \A n \in H!Nodes(t) :
        H!ThreadOK(u) /\ t.stack # <<>> /\ H!PoppedAt(u, t, n, m) => u \in S
  BY <1>1, <1>2, MethodRecords DEF H!PoppedAt
<1> QED BY <1>1, <1>3, <1>4, <1>5, <1>6, <1>7 DEF H!KeptRunning, S

(* What is always so of a thread: its record is well formed, its visits    *)
(* are counted, and no frame is marked as paused.                          *)
ThreadFine(t) ==
  H!ThreadOK(t) /\ t \in H!Counted /\ H!Marked(t.stack, FALSE)

(* The method that an event names is created first, if at all, so that the *)
(* rest finds it created.                                                  *)
LEMMA CreatedFirst ==
  ASSUME NEW t, H!ThreadOK(t), NEW k \in Keys, NEW m
  PROVE  LET u == H!create_method(t, k)
         IN  /\ H!ThreadOK(u) /\ u.method_table[k].created
             /\ H!CallEvent(u, k, m) = H!CallEvent(t, k, m)
             /\ H!ReturnEvent(u, k, m) = H!ReturnEvent(t, k, m)
             /\ t.stack = <<>> => H!LineEvent(u, k, m) = H!LineEvent(t, k, m)
<1> DEFINE u == H!create_method(t, k)
<1>1. k \in H!Keys
  BY SameOperators
<1>2. /\ H!ThreadOK(u) /\ u.stack = t.stack /\ u.call_tree = t.call_tree
      /\ u.method_table[k].created
  <2>1. H!ThreadOK(u) /\ u.stack = t.stack /\ u.call_tree = t.call_tree
    BY <1>1, HookAssumption, H!CreateMethodOK DEF H!CreateMethodOK
  <2>2. u.method_table[k].created
    BY <1>1, HookAssumption, H!CreateMethodStep DEF H!CreateMethodStep
  <2> QED BY <2>1, <2>2
<1>3. H!create_method(u, k) = u
  <2> HIDE DEF u
  <2>1. /\ u \in H!Thread /\ u.method_table \in [H!Keys -> H!Method]
        /\ u.method_table[k] \in H!Method
        /\ u.method_table[k].created = TRUE
    <3>1. u \in H!Thread
      BY <1>2 DEF H!ThreadOK
    <3>2. u.method_table[k] \in H!Method /\ u.method_table \in [H!Keys -> H!Method]
      BY <1>1, <3>1 DEF H!Thread
    <3>3. u.method_table[k].created \in BOOLEAN
      BY <3>2 DEF H!Method
    <3> QED BY <1>2, <3>1, <3>2, <3>3
  <2> DEFINE method == u.method_table[k]
  <2>2. [method EXCEPT !.created = TRUE] = method
    BY <2>1 DEF H!Method
  <2>3. [u.method_table EXCEPT ![k] = method] = u.method_table
    BY <1>1, <2>1
  <2>4. [u EXCEPT !.method_table = u.method_table] = u
    BY <2>1 DEF H!Thread
  <2> QED BY <2>2, <2>3, <2>4 DEF H!create_method
<1> HIDE DEF u
<1>4. H!CallEvent(u, k, m) = H!CallEvent(t, k, m)
  BY <1>2, <1>3 DEF H!CallEvent, u
<1>5. H!ReturnEvent(u, k, m) = H!ReturnEvent(t, k, m)
  BY <1>3 DEF H!ReturnEvent, u
<1>6. t.stack = <<>> => H!LineEvent(u, k, m) = H!LineEvent(t, k, m)
  BY <1>2, <1>3 DEF H!LineEvent, u
<1> QED BY <1>2, <1>4, <1>5, <1>6 DEF u

(* The events keep it so. *)
LEMMA EventFine ==
  ASSUME NEW t, ThreadFine(t), NEW k \in Keys, NEW m \in Nat,
         NEW u \in {Hook!CallEvent(t, k, m), Hook!ReturnEvent(t, k, m),
                    Hook!LineEvent(t, k, m)}
  PROVE  /\ ThreadFine(u)
         /\ \A j \in Keys : t.method_table[j].created => u.method_table[j].created
<1>1. k \in H!Keys /\ FALSE \in BOOLEAN /\ H!ThreadOK(t) /\ H!Marked(t.stack, FALSE)
  BY SameOperators DEF ThreadFine
<1>2. u \in H!Counted
  <2>1. H!KeptRunning(H!Counted, m)
    <3>1. H!Kept(H!Counted)
      BY HookAssumption, H!CountedKept DEF H!CountedKept
    <3>2. H!KeptAt(H!Counted, m)
      BY <3>1, HookAssumption, H!KeptIsKeptAt DEF H!KeptIsKeptAt
    <3> QED BY <3>2, HookAssumption, H!KeptAtIsKeptRunning DEF H!KeptAtIsKeptRunning
  <2>2. t \in H!Counted
    BY DEF ThreadFine
  <2> QED BY <2>1, <2>2, HookKept
<1>3. H!ThreadOK(u)
  BY <1>2 DEF H!Counted
<1>4. H!Marked(u.stack, FALSE)
  <2>1. H!Marked(H!CallEvent(t, k, m).stack, FALSE)
    BY <1>1, HookAssumption, H!CallEventMarked DEF H!CallEventMarked
  <2>2. H!Marked(H!LineEvent(t, k, m).stack, FALSE)
    BY <1>1, HookAssumption, H!LineEventMarked DEF H!LineEventMarked
  <2>3. H!Marked(H!ReturnEvent(t, k, m).stack, FALSE)
    <3> DEFINE v == H!create_method(t, k)
    <3>1. H!ThreadOK(v) /\ v.stack = t.stack
      BY <1>1, HookAssumption, H!CreateMethodOK DEF H!CreateMethodOK
    <3> HIDE DEF v
    <3>2. H!Marked(H!prof_frame_pop(v, m).stack, FALSE)
      BY <1>1, <3>1, HookAssumption, H!PopMarked DEF H!PopMarked
    <3> QED BY <3>2 DEF H!ReturnEvent, v
  <2> QED BY <2>1, <2>2, <2>3, SameCall, SameLine, SameReturn
<1>5. \A j \in Keys : t.method_table[j].created => u.method_table[j].created
  <2> DEFINE C == {j \in Keys : t.method_table[j].created}
  <2>1. t \in WithMethods(C)
    BY <1>1 DEF WithMethods, H!ThreadOK
  <2>2. C \in SUBSET Keys
    OBVIOUS
  <2>3. \A j \in Keys : t.method_table[j].created => j \in C
    OBVIOUS
  <2> HIDE DEF C
  <2>4. H!KeptRunning(WithMethods(C), m)
    BY <2>2, WithMethodsKept
  <2>5. u \in WithMethods(C)
    BY <2>1, <2>4, HookKept
  <2> QED BY <2>3, <2>5 DEF WithMethods
<1> QED BY <1>2, <1>3, <1>4, <1>5 DEF ThreadFine

(* And they create the method they name. *)
LEMMA EventCreates ==
  ASSUME NEW t, ThreadFine(t), NEW k \in Keys, NEW m \in Nat
  PROVE  /\ Hook!CallEvent(t, k, m).method_table[k].created
         /\ Hook!ReturnEvent(t, k, m).method_table[k].created
         /\ t.stack = <<>> => Hook!LineEvent(t, k, m).method_table[k].created
<1> DEFINE v == H!create_method(t, k)
<1>1. /\ H!ThreadOK(v) /\ v.method_table[k].created
      /\ Hook!CallEvent(t, k, m) = Hook!CallEvent(v, k, m)
      /\ Hook!ReturnEvent(t, k, m) = Hook!ReturnEvent(v, k, m)
      /\ t.stack = <<>> => Hook!LineEvent(t, k, m) = Hook!LineEvent(v, k, m)
  BY CreatedFirst, SameCall, SameLine, SameReturn DEF ThreadFine
<1> HIDE DEF v
<1>2. v \in WithMethods({k})
  BY <1>1 DEF WithMethods, H!ThreadOK
<1>3. H!KeptRunning(WithMethods({k}), m)
  BY WithMethodsKept
<1>4. /\ Hook!CallEvent(v, k, m) \in WithMethods({k})
      /\ Hook!ReturnEvent(v, k, m) \in WithMethods({k})
      /\ Hook!LineEvent(v, k, m) \in WithMethods({k})
  BY <1>2, <1>3, HookKept
<1> QED BY <1>1, <1>4 DEF WithMethods

(* So does emptying the stack, which names no method. *)
LEMMA PopAllFine ==
  ASSUME NEW t, ThreadFine(t), NEW m \in Nat
  PROVE  /\ ThreadFine(PopAll(t, m)) /\ PopAll(t, m).stack = <<>>
         /\ \A j \in Keys : t.method_table[j].created =>
              PopAll(t, m).method_table[j].created
<1> DEFINE u == PopAll(t, m)
           C == {j \in Keys : t.method_table[j].created}
<1>1. H!ThreadOK(t) /\ t \in H!Counted
  BY DEF ThreadFine
<1>2. InsertedParent \in Keys
  BY DEF Keys
<1>3. u.stack = <<>> /\ H!ThreadOK(u)
  BY <1>1, SamePopAll, HookAssumption, H!PopAllOK DEF H!PopAllOK
<1>4. u \in H!Counted
  <2>1. H!Kept(H!Counted)
    BY HookAssumption, H!CountedKept DEF H!CountedKept
  <2>2. H!KeptAt(H!Counted, m)
    BY <2>1, HookAssumption, H!KeptIsKeptAt DEF H!KeptIsKeptAt
  <2>3. H!KeptRunning(H!Counted, m)
    BY <2>2, HookAssumption, H!KeptAtIsKeptRunning DEF H!KeptAtIsKeptRunning
  <2> QED BY <1>1, <1>2, <2>3, HookKept
<1>5. H!Marked(u.stack, FALSE)
  BY <1>3 DEF H!Marked
<1>6. u \in WithMethods(C)
  <2>1. t \in WithMethods(C)
    BY <1>1 DEF WithMethods, H!ThreadOK
  <2>2. C \in SUBSET Keys
    OBVIOUS
  <2> HIDE DEF C, u
  <2>3. H!KeptRunning(WithMethods(C), m)
    BY <2>2, WithMethodsKept
  <2> QED BY <1>2, <2>1, <2>3, HookKept DEF u
<1> QED BY <1>3, <1>4, <1>5, <1>6 DEF ThreadFine, WithMethods

(* A new thread is fine. *)
LEMMA NewFine ==
  /\ ThreadFine(thread_data_create(TRUE))
  /\ thread_data_create(TRUE).stack = <<>>
  /\ thread_data_create(TRUE).call_tree = NULL
  /\ \A k \in Keys : ~thread_data_create(TRUE).method_table[k].created
<1> DEFINE t == thread_data_create(TRUE)
<1>1. t.stack = <<>> /\ t.call_tree = NULL /\ \A k \in Keys : ~t.method_table[k].created
  BY DEF thread_data_create, NoMethod
<1>2. TRUE \in BOOLEAN
  OBVIOUS
<1>3. t \in H!Counted
  BY <1>2, SameOperators, HookAssumption, H!NewCounted DEF H!NewCounted
<1>4. H!ThreadOK(t)
  BY <1>3 DEF H!Counted
<1>5. H!Marked(t.stack, FALSE)
  <2> HIDE DEF t
  <2> QED BY <1>1 DEF H!Marked
<1> QED BY <1>1, <1>3, <1>4, <1>5 DEF ThreadFine

-----------------------------------------------------------------------------
(* The stack of the program, and where it is. *)

StackEntry == [method : Methods, block : BOOLEAN, line : Nat, told : SUBSET Profiles]

EntryOK(e) ==
  /\ e.block => e.method \in RubyMethods
  /\ e.method \in RubyMethods =>
       e.line \in Sources[e.method].body \cup {Sources[e.method].first}

StackOK(r) ==
  /\ r \in Seq(StackEntry)
  /\ r # <<>>
  /\ \A i \in 1 .. Len(r) : EntryOK(r[i])
  /\ r[1].method \in RubyMethods /\ ~r[1].block

(* A set of positions that is not empty has a topmost one. *)
LEMMA TopmostExists ==
  ASSUME NEW n \in Nat, NEW S, S \subseteq 1 .. n, S # {}
  PROVE  \E i \in S : \A j \in S : j <= i
<1> DEFINE P == {m \in Nat : \A T : T \subseteq 1 .. m /\ T # {} =>
                               \E i \in T : \A j \in T : j <= i}
<1>1. \A m \in Nat : m \in P
  <2>1. 0 \in P
    OBVIOUS
  <2>2. ASSUME NEW m \in Nat, m \in P PROVE m + 1 \in P
    <3>1. SUFFICES ASSUME NEW T, T \subseteq 1 .. m + 1, T # {}
                   PROVE  \E i \in T : \A j \in T : j <= i
      OBVIOUS
    <3>2. CASE m + 1 \in T
      BY <3>1, <3>2
    <3>3. CASE m + 1 \notin T
      <4>1. T \subseteq 1 .. m
        BY <3>1, <3>3
      <4> QED BY <2>2, <3>1, <4>1
    <3> QED BY <3>2, <3>3
  <2> HIDE DEF P
  <2> QED BY <2>1, <2>2, NatInd
<1> QED BY <1>1

(* What the locations are. *)
LEMMA LocationsAre ==
  /\ \A k \in RubyMethods :
       \A line \in Sources[k].body \cup {Sources[k].first} :
         /\ At(Sources[k].file, line) \in Locations
         /\ line \in Nat /\ line >= Sources[k].first
  /\ \A loc \in Locations :
       /\ loc = At(loc.file, loc.line)
       /\ loc.line \in Nat
       /\ loc.file # NoFile
  /\ Nowhere.file = NoFile /\ Nowhere \notin Locations
<1>1. ASSUME NEW k \in RubyMethods,
             NEW line \in Sources[k].body \cup {Sources[k].first}
      PROVE  /\ At(Sources[k].file, line) \in Locations
             /\ line \in Nat /\ line >= Sources[k].first
  BY AllocationsAssumption DEF AllocationsAssumption, Locations
<1>2. ASSUME NEW loc \in Locations
      PROVE  loc = At(loc.file, loc.line) /\ loc.line \in Nat /\ loc.file # NoFile
  <2>1. PICK k \in RubyMethods :
          \E line \in Sources[k].body \cup {Sources[k].first} :
            loc = At(Sources[k].file, line)
    BY DEF Locations
  <2>2. PICK line \in Sources[k].body \cup {Sources[k].first} :
          loc = At(Sources[k].file, line)
    BY <2>1
  <2>3. loc.file = Sources[k].file /\ loc.line = line
    BY <2>2 DEF At
  <2>4. Sources[k].file # NoFile
    BY AllocationsAssumption DEF AllocationsAssumption, Files
  <2> QED BY <1>1, <2>2, <2>3, <2>4
<1>3. Nowhere.file = NoFile
  BY DEF Nowhere, At
<1> QED BY <1>1, <1>2, <1>3

(* The method k, if it is in Ruby, has code at loc. *)
CodeAt(k, loc) ==
  k \in RubyMethods => loc.file = Sources[k].file /\ loc.line >= Sources[k].first

(* The topmost activation in Ruby, and the place it is at. *)
LEMMA TopRubyIs ==
  ASSUME NEW r, StackOK(r)
  PROVE  /\ Here(r) \in Locations
         /\ CodeAt(TopRuby(r).method, Here(r))
         /\ \E i \in 1 .. Len(r) :
              /\ TopRuby(r) = r[i] /\ r[i].method \in RubyMethods
              /\ \A j \in 1 .. Len(r) : r[j].method \in RubyMethods => j <= i
<1> DEFINE ruby == {i \in DOMAIN r : r[i].block \/ r[i].method \in RubyMethods}
           top == CHOOSE i \in ruby : \A j \in ruby : j <= i
<1>1. Len(r) \in Nat /\ DOMAIN r = 1 .. Len(r) /\ Len(r) >= 1
  BY DEF StackOK
<1>2. \A i \in 1 .. Len(r) : i \in ruby <=> r[i].method \in RubyMethods
  BY <1>1 DEF StackOK, EntryOK
<1>3. ruby \subseteq 1 .. Len(r)
  BY <1>1
<1>4. 1 \in ruby
  BY <1>1, <1>2 DEF StackOK
<1>5. TopRuby(r) = r[top]
  BY DEF TopRuby
<1> HIDE DEF ruby
<1>6. top \in ruby /\ \A j \in ruby : j <= top
  <2>1. \E i \in ruby : \A j \in ruby : j <= i
    BY <1>1, <1>3, <1>4, TopmostExists
  <2> QED BY <2>1
<1> HIDE DEF top
<1>7. /\ top \in 1 .. Len(r) /\ r[top].method \in RubyMethods
      /\ \A j \in 1 .. Len(r) : r[j].method \in RubyMethods => j <= top
  BY <1>2, <1>3, <1>6
<1> DEFINE k == r[top].method
           line == r[top].line
<1>8. line \in Sources[k].body \cup {Sources[k].first} /\ k \in RubyMethods
  BY <1>7 DEF StackOK, EntryOK
<1>9. Here(r) = At(Sources[k].file, line)
  BY <1>5 DEF Here
<1> HIDE DEF k, line
<1>10. Here(r) \in Locations /\ line >= Sources[k].first
  BY <1>8, <1>9, LocationsAre
<1>11. CodeAt(k, Here(r))
  BY <1>9, <1>10 DEF CodeAt, At
<1> QED BY <1>5, <1>7, <1>10, <1>11 DEF k

-----------------------------------------------------------------------------
(* The record of a profile. *)

(* An entry of the table of a method whose code is in file.                *)
EntryFits(key, entry, file) ==
  /\ entry \in Allocation
  /\ key = allocations_key(entry.klass, entry.source_line)
  /\ At(file, entry.source_line) \in Locations

TableFits(table, file) == \A key \in DOMAIN table : EntryFits(key, table[key], file)

ProfileOK(prof) ==
  /\ DOMAIN prof = {"status", "thread", "source", "allocations"}
  /\ prof.status \in {"new", "running", "stopped"}
  /\ ThreadFine(prof.thread)
  /\ prof.source \in [Keys -> Locations \cup {Nowhere}]
  /\ prof.source[InsertedParent] = Nowhere
  /\ DOMAIN prof.allocations = Keys
  /\ \A k \in Keys :
       /\ ~prof.thread.method_table[k].created => prof.source[k] = Nowhere
       /\ prof.source[k] # Nowhere => CodeAt(k, prof.source[k])
       /\ TableFits(prof.allocations[k], prof.source[k].file)

(* A method that no event has named has no allocations. *)
LEMMA UnnamedIsEmpty ==
  ASSUME NEW prof, ProfileOK(prof), NEW k \in Keys, prof.source[k].file = NoFile
  PROVE  DOMAIN prof.allocations[k] = {}
<1> SUFFICES ASSUME NEW key \in DOMAIN prof.allocations[k] PROVE FALSE
  OBVIOUS
<1> DEFINE loc == At(NoFile, prof.allocations[k][key].source_line)
<1>1. loc \in Locations
  BY DEF ProfileOK, TableFits, EntryFits
<1>2. loc.file = NoFile
  BY DEF At
<1> HIDE DEF loc
<1> QED BY <1>1, <1>2, LocationsAre

(* The first event that names a method records a place, and only that.     *)
LEMMA CheckMethodIs ==
  ASSUME NEW prof, ProfileOK(prof), NEW k \in Methods, NEW loc \in Locations,
         NEW event
  PROVE  LET checked == check_method(prof, k, event, loc)
         IN  /\ DOMAIN checked = DOMAIN prof
             /\ checked.status = prof.status
             /\ checked.thread = prof.thread
             /\ checked.allocations = prof.allocations
             /\ checked.source \in [Keys -> Locations \cup {Nowhere}]
             /\ \A j \in Keys : checked.source[j] =
                  IF j = k /\ ~prof.thread.method_table[k].created
                  THEN SourceOf(k, event, loc) ELSE prof.source[j]
<1>1. k \in Keys
  BY DEF Keys
<1>2. SourceOf(k, event, loc) \in Locations \cup {Nowhere}
  BY DEF SourceOf
<1>3. /\ DOMAIN prof = {"status", "thread", "source", "allocations"}
      /\ prof.source \in [Keys -> Locations \cup {Nowhere}]
  BY DEF ProfileOK
<1> DEFINE place == SourceOf(k, event, loc)
<1>4. [prof.source EXCEPT ![k] = place] \in [Keys -> Locations \cup {Nowhere}]
  BY <1>1, <1>2, <1>3
<1> HIDE DEF place
<1>5. CASE prof.thread.method_table[k].created
  BY <1>3, <1>5 DEF check_method
<1>6. CASE ~prof.thread.method_table[k].created
  <2> DEFINE checked == [prof EXCEPT !.source = [prof.source EXCEPT ![k] = place]]
  <2>1. check_method(prof, k, event, loc) = checked
    BY <1>6 DEF check_method, place
  <2>2. /\ DOMAIN checked = DOMAIN prof /\ checked.status = prof.status
        /\ checked.thread = prof.thread /\ checked.allocations = prof.allocations
        /\ checked.source = [prof.source EXCEPT ![k] = place]
    BY <1>3
  <2> HIDE DEF checked
  <2>3. \A j \in Keys : checked.source[j] = IF j = k THEN place ELSE prof.source[j]
    BY <1>1, <1>3, <2>2
  <2> QED BY <1>4, <1>6, <2>1, <2>2, <2>3 DEF place
<1> QED BY <1>5, <1>6

(* What an event may change: a place is recorded for a method that had no  *)
(* allocations, and never changed.                                         *)
SourcesKept(new, old) ==
  /\ new.status = old.status
  /\ new.allocations = old.allocations
  /\ \A j \in Keys :
       /\ old.thread.method_table[j].created =>
            new.thread.method_table[j].created /\ new.source[j] = old.source[j]
       /\ new.source[j] = old.source[j] \/ DOMAIN old.allocations[j] = {}

(* The event of a method whose code is at loc. *)
LEMMA EventKeepsProfile ==
  ASSUME NEW prof, ProfileOK(prof), NEW event \in {"call", "return", "line"},
         NEW k \in Methods, NEW loc \in Locations, CodeAt(k, loc), NEW m \in Nat
  PROVE  LET new == prof_event_hook(prof, event, k, loc, m)
         IN  /\ ProfileOK(new)
             /\ SourcesKept(new, prof)
             /\ \A j \in Keys : new.source[j] = prof.source[j]
                             \/ (j = k /\ new.source[k] = SourceOf(k, event, loc))
             /\ event # "line" => new.thread.method_table[k].created
             /\ new.thread = CASE event = "call" -> Hook!CallEvent(prof.thread, k, m)
                               [] event = "return" -> Hook!ReturnEvent(prof.thread, k, m)
                               [] event = "line" -> Hook!LineEvent(prof.thread, k, m)
<1> DEFINE t == prof.thread
           checked == check_method(prof, k, event, loc)
           u == CASE event = "call"   -> Hook!CallEvent(t, k, m)
                  [] event = "return" -> Hook!ReturnEvent(t, k, m)
                  [] event = "line"   -> Hook!LineEvent(t, k, m)
           new == prof_event_hook(prof, event, k, loc, m)
           Kept(n, v) ==
             /\ ProfileOK(n)
             /\ SourcesKept(n, prof)
             /\ \A j \in Keys : n.source[j] = prof.source[j]
                             \/ (j = k /\ n.source[k] = SourceOf(k, event, loc))
             /\ event # "line" => n.thread.method_table[k].created
             /\ n.thread = v
<1>1. k \in Keys /\ ThreadFine(t)
  BY DEF Keys, ProfileOK
<1>2. u \in {Hook!CallEvent(t, k, m), Hook!ReturnEvent(t, k, m), Hook!LineEvent(t, k, m)}
  OBVIOUS
<1>3. ASSUME event = "line", t.stack # <<>> PROVE Kept(new, u)
  <2>1. Hook!LineEvent(t, k, m) = t
    BY <1>3 DEF Hook!LineEvent
  <2>2. new = prof /\ u = t
    BY <1>3, <2>1 DEF prof_event_hook
  <2> HIDE DEF new, u
  <2>3. /\ ProfileOK(new)
        /\ SourcesKept(new, prof)
        /\ \A j \in Keys : new.source[j] = prof.source[j]
        /\ new.thread = u
    BY <2>2 DEF SourcesKept
  <2> QED BY <1>3, <2>3
<1>4. ASSUME ~(event = "line" /\ t.stack # <<>>) PROVE Kept(new, u)
  <2>1. new = [checked EXCEPT !.thread = u]
    BY <1>4 DEF prof_event_hook
  <2>2. u.method_table[k].created
    BY <1>1, <1>4, EventCreates
  <2>3. /\ ThreadFine(u)
        /\ \A j \in Keys : t.method_table[j].created => u.method_table[j].created
    BY <1>1, <1>2, EventFine
  <2>4. /\ DOMAIN checked = {"status", "thread", "source", "allocations"}
        /\ checked.status = prof.status
        /\ checked.allocations = prof.allocations
        /\ checked.source \in [Keys -> Locations \cup {Nowhere}]
        /\ \A j \in Keys : checked.source[j] =
             IF j = k /\ ~t.method_table[k].created
             THEN SourceOf(k, event, loc) ELSE prof.source[j]
    BY CheckMethodIs DEF ProfileOK
  <2> HIDE DEF checked, u, new
  <2>5. /\ DOMAIN new = {"status", "thread", "source", "allocations"}
        /\ new.status = prof.status /\ new.allocations = prof.allocations
        /\ new.source = checked.source /\ new.thread = u
    BY <2>1, <2>4
  <2>6. /\ SourceOf(k, event, loc) = Nowhere \/ SourceOf(k, event, loc) = loc
        /\ k # InsertedParent
    BY InsertedParentAssumption DEF SourceOf
  <2>7. ASSUME NEW j \in Keys
        PROVE  /\ new.source[j] = prof.source[j] \/ DOMAIN prof.allocations[j] = {}
               /\ t.method_table[j].created => new.source[j] = prof.source[j]
               /\ ~new.thread.method_table[j].created => new.source[j] = Nowhere
               /\ new.source[j] # Nowhere => CodeAt(j, new.source[j])
               /\ TableFits(prof.allocations[j], new.source[j].file)
    <3>1. CASE j = k /\ ~t.method_table[k].created
      <4>1. prof.source[j] = Nowhere
        BY <2>7, <3>1 DEF ProfileOK
      <4>2. DOMAIN prof.allocations[j] = {}
        BY <4>1, UnnamedIsEmpty, LocationsAre
      <4> QED BY <2>2, <2>4, <2>5, <2>6, <3>1, <4>2 DEF TableFits
    <3>2. CASE ~(j = k /\ ~t.method_table[k].created)
      <4>1. new.source[j] = prof.source[j]
        BY <2>4, <2>5, <3>2
      <4> QED BY <2>3, <2>5, <2>7, <4>1 DEF ProfileOK
    <3> QED BY <3>1, <3>2
  <2>8. ProfileOK(new)
    <3>1. InsertedParent \in Keys /\ new.source[InsertedParent] = Nowhere
      BY <2>4, <2>5, <2>6 DEF ProfileOK, Keys
    <3> QED BY <2>3, <2>4, <2>5, <2>7, <3>1 DEF ProfileOK
  <2>9. SourcesKept(new, prof)
    BY <2>3, <2>5, <2>7 DEF SourcesKept
  <2>10. \A j \in Keys : new.source[j] = prof.source[j]
                      \/ (j = k /\ new.source[k] = SourceOf(k, event, loc))
    BY <2>4, <2>5
  <2>11. new.thread.method_table[k].created
    BY <2>2, <2>5
  <2> QED BY <2>5, <2>8, <2>9, <2>10, <2>11
<1> HIDE DEF new, u
<1> QED BY <1>3, <1>4 DEF new, u

-----------------------------------------------------------------------------
(* An object is charged. *)

(* The frames of a profile are searched from the top. *)
LEMMA FoundIs ==
  ASSUME NEW prof, ProfileOK(prof), NEW loc \in Locations
  PROVE  LET k == prof_find_method(prof, loc)
             keys == H!KeysOf(prof.thread)
         IN  /\ keys \in Seq(Keys)
             /\ Len(keys) = Len(prof.thread.stack)
             /\ keys = <<>> <=> prof.thread.stack = <<>>
             /\ k # NULL =>
                  /\ k \in Keys /\ prof.source[k].file = loc.file
                  /\ CouldHold(prof, k, loc)
                  /\ \E i \in 1 .. Len(keys) :
                       /\ keys[i] = k
                       /\ \A j \in 1 .. Len(keys) : CouldHold(prof, keys[j], loc) => j <= i
             /\ \A i \in 1 .. Len(keys) : CouldHold(prof, keys[i], loc) => k # NULL
<1> DEFINE t == prof.thread
           keys == H!KeysOf(t)
           found == {i \in DOMAIN t.stack : CouldHold(prof, FrameMethod(prof, i), loc)}
           top == CHOOSE i \in found : \A j \in found : j <= i
           k == prof_find_method(prof, loc)
<1>1. H!ThreadOK(t)
  BY DEF ProfileOK, ThreadFine
<1>2. /\ keys \in Seq(Keys) /\ Len(keys) = Len(t.stack) /\ Len(t.stack) \in Nat
      /\ keys = <<>> <=> t.stack = <<>>
      /\ \A i \in 1 .. Len(t.stack) : keys[i] = H!FrameKey(t, i)
  BY <1>1, SameOperators, HookAssumption, H!KeysTyped DEF H!KeysTyped
<1>3. DOMAIN t.stack = 1 .. Len(t.stack)
  BY <1>1 DEF H!ThreadOK, H!Thread
<1>4. \A i \in 1 .. Len(keys) : FrameMethod(prof, i) = keys[i] /\ keys[i] \in Keys
  <2>1. \A i : FrameMethod(prof, i) = H!FrameKey(t, i)
    BY DEF FrameMethod, H!FrameKey, KeyOf, H!KeyOf
  <2> HIDE DEF keys, t
  <2>2. \A i \in 1 .. Len(keys) : keys[i] \in Keys
    BY <1>2
  <2> QED BY <1>2, <2>1, <2>2
<1>5. k = IF found = {} THEN NULL ELSE FrameMethod(prof, top)
  BY DEF prof_find_method
<1> HIDE DEF keys, k
<1>6. \A i \in 1 .. Len(keys) : i \in found <=> CouldHold(prof, keys[i], loc)
  BY <1>2, <1>3, <1>4
<1>7. found \subseteq 1 .. Len(keys)
  BY <1>2, <1>3
<1> HIDE DEF found
<1>8. CASE found = {}
  BY <1>2, <1>5, <1>6, <1>8 DEF k, keys
<1>9. CASE found # {}
  <2>1. top \in found /\ \A j \in found : j <= top
    <3>1. \E i \in found : \A j \in found : j <= i
      BY <1>2, <1>7, <1>9, TopmostExists
    <3> QED BY <3>1
  <2> HIDE DEF top
  <2>2. top \in 1 .. Len(keys) /\ k = keys[top] /\ k \in Keys
    BY <1>4, <1>5, <1>7, <1>9, <2>1
  <2>3. k # NULL
    BY <2>2, AllocationsAssumption DEF AllocationsAssumption
  <2>4. prof.source[k].file = loc.file /\ CouldHold(prof, k, loc)
    BY <1>6, <2>1, <2>2 DEF CouldHold
  <2>5. \A j \in 1 .. Len(keys) : CouldHold(prof, keys[j], loc) => j <= top
    BY <1>6, <2>1
  <2> QED BY <1>2, <2>2, <2>3, <2>4, <2>5 DEF k, keys
<1> QED BY <1>8, <1>9

(* The entry of a class and a line is found, or made, and counts one more. *)
LEMMA IncrementIs ==
  ASSUME NEW table, NEW file, TableFits(table, file), NEW c \in Classes, NEW line \in Nat,
         At(file, line) \in Locations
  PROVE  LET new == prof_allocate_increment(table, c, line)
             key == allocations_key(c, line)
         IN  /\ DOMAIN new = DOMAIN table \cup {key}
             /\ TableFits(new, file)
             /\ new[key].count = (IF key \in DOMAIN table THEN table[key].count ELSE 0) + 1
             /\ \A j \in DOMAIN table : j # key => new[j] = table[j]
             /\ KeysDiffer =>
                  /\ new[key].klass = c /\ new[key].source_line = line
                  /\ key \in DOMAIN table =>
                       table[key].klass = c /\ table[key].source_line = line
<1> DEFINE key == allocations_key(c, line)
           old == IF key \in DOMAIN table THEN table[key]
                  ELSE [klass |-> c, source_line |-> line, count |-> 0]
           more == [old EXCEPT !.count = old.count + 1]
           new == [j \in DOMAIN table \cup {key} |-> IF j = key THEN more ELSE table[j]]
<1>1. prof_allocate_increment(table, c, line) = new
  BY DEF prof_allocate_increment
<1>2. ASSUME KeysDiffer, key \in DOMAIN table
      PROVE  table[key].klass = c /\ table[key].source_line = line
  <2> DEFINE d == table[key].klass
             l == table[key].source_line
  <2>1. d \in Classes /\ allocations_key(c, line) = allocations_key(d, l)
        /\ At(file, l) \in Locations
    BY <1>2 DEF TableFits, EntryFits, Allocation
  <2>2. At(file, line).line = line /\ At(file, l).line = l
    BY DEF At
  <2> HIDE DEF d, l
  <2>3. line \in {loc.line : loc \in Locations} /\ l \in {loc.line : loc \in Locations}
    BY <2>1, <2>2
  <2>4. c = d /\ line = l
    BY <1>2, <2>1, <2>3 DEF KeysDiffer
  <2> QED BY <2>4 DEF d, l
<1>3. /\ EntryFits(key, old, file)
      /\ old.count = (IF key \in DOMAIN table THEN table[key].count ELSE 0)
      /\ KeysDiffer => old.klass = c /\ old.source_line = line
  <2>1. CASE key \in DOMAIN table
    BY <1>2, <2>1 DEF TableFits
  <2>2. CASE key \notin DOMAIN table
    BY <2>2 DEF EntryFits, Allocation
  <2> QED BY <2>1, <2>2
<1> HIDE DEF old
<1>4. /\ EntryFits(key, more, file)
      /\ more.klass = old.klass /\ more.source_line = old.source_line
      /\ more.count = old.count + 1
  BY <1>3 DEF EntryFits, Allocation
<1> HIDE DEF more, key
<1>5. /\ DOMAIN new = DOMAIN table \cup {key}
      /\ new[key] = more
      /\ \A j \in DOMAIN table : j # key => new[j] = table[j]
  OBVIOUS
<1> HIDE DEF new
<1>6. TableFits(new, file)
  BY <1>4, <1>5 DEF TableFits
<1> QED BY <1>1, <1>2, <1>3, <1>4, <1>5, <1>6 DEF key

(* How many objects a profile has charged to a method: Charged.            *)
ChargedIn(prof, k, c, loc) ==
  LET table == prof.allocations[k]
      key == allocations_key(c, loc.line)
  IN  IF prof.source[k].file = loc.file /\ key \in DOMAIN table
         /\ table[key].klass = c /\ table[key].source_line = loc.line
      THEN table[key].count ELSE 0

(* Charged is about the record of a profile. *)
LEMMA ChargedIs ==
  \A p, k, c, loc : Charged(p, k, c, loc) = ChargedIn(profiles[p], k, c, loc)
BY DEF Charged, ChargedIn

(* It is a number. *)
LEMMA ChargedType ==
  ASSUME NEW prof, ProfileOK(prof), NEW k \in Keys, NEW c, NEW loc
  PROVE  ChargedIn(prof, k, c, loc) \in Nat
BY DEF ProfileOK, TableFits, EntryFits, Allocation, ChargedIn

(* An event charges nothing and discharges nothing. *)
LEMMA EventCharges ==
  ASSUME NEW prof, NEW new, SourcesKept(new, prof), NEW k \in Keys, NEW c, NEW loc
  PROVE  ChargedIn(new, k, c, loc) = ChargedIn(prof, k, c, loc)
<1>1. CASE new.source[k] = prof.source[k]
  BY <1>1 DEF SourcesKept, ChargedIn
<1>2. CASE new.source[k] # prof.source[k]
  <2>1. DOMAIN prof.allocations[k] = {} /\ new.allocations = prof.allocations
    BY <1>2 DEF SourcesKept
  <2> QED BY <2>1 DEF ChargedIn
<1> QED BY <1>1, <1>2

(* An object is charged to one method, or to none, as one of its class and *)
(* its place: what is found under its key is, if keys differ.              *)
LEMMA ObjectCharged ==
  ASSUME NEW prof, ProfileOK(prof), NEW c \in Classes, NEW loc \in Locations
  PROVE  LET new == NewObject(prof, c, loc)
             k == prof_find_method(prof, loc)
         IN  /\ ProfileOK(new)
             /\ new.status = prof.status /\ new.thread = prof.thread
             /\ new.source = prof.source
             /\ KeysDiffer => \A j \in Keys, d \in Classes, at \in Locations :
                  ChargedIn(new, j, d, at)
                    = ChargedIn(prof, j, d, at)
                        + (IF j = k /\ d = c /\ at = loc THEN 1 ELSE 0)
<1> DEFINE new == NewObject(prof, c, loc)
           k == prof_find_method(prof, loc)
           old == prof.allocations[k]
           table == prof_allocate_increment(old, c, loc.line)
           key == allocations_key(c, loc.line)
<1>1. c # Imemo
  BY AllocationsAssumption DEF AllocationsAssumption
<1>2. CASE k = NULL
  <2>1. new = prof
    BY <1>2 DEF NewObject
  <2>2. \A j \in Keys : j # k
    BY <1>2, AllocationsAssumption DEF AllocationsAssumption
  <2>3. \A j \in Keys, d \in Classes, at \in Locations : ChargedIn(prof, j, d, at) \in Nat
    BY ChargedType
  <2> HIDE DEF new, k
  <2> QED BY <2>1, <2>2, <2>3 DEF new, k
<1>3. CASE k # NULL
  <2>1. k \in Keys /\ prof.source[k].file = loc.file
    BY <1>3, FoundIs
  <2>2. new = [prof EXCEPT !.allocations = [prof.allocations EXCEPT ![k] = table]]
    BY <1>1, <1>3 DEF NewObject
  <2> HIDE DEF new, k, table
  <2>3. /\ DOMAIN prof = {"status", "thread", "source", "allocations"}
        /\ DOMAIN prof.allocations = Keys
        /\ TableFits(old, loc.file)
    BY <2>1 DEF ProfileOK
  <2>4. /\ DOMAIN new = DOMAIN prof
        /\ new.status = prof.status /\ new.thread = prof.thread /\ new.source = prof.source
        /\ DOMAIN new.allocations = Keys
        /\ \A j \in Keys : new.allocations[j] = IF j = k THEN table ELSE prof.allocations[j]
    BY <2>1, <2>2, <2>3
  <2>5. loc.line \in Nat /\ At(loc.file, loc.line) = loc
    BY LocationsAre
  <2>6. /\ DOMAIN table = DOMAIN old \cup {key}
        /\ TableFits(table, loc.file)
        /\ table[key].count = (IF key \in DOMAIN old THEN old[key].count ELSE 0) + 1
        /\ \A j \in DOMAIN old : j # key => table[j] = old[j]
        /\ KeysDiffer =>
             /\ table[key].klass = c /\ table[key].source_line = loc.line
             /\ key \in DOMAIN old => old[key].klass = c /\ old[key].source_line = loc.line
    <3>1. At(loc.file, loc.line) \in Locations
      BY <2>5
    <3> HIDE DEF old
    <3> QED BY <2>3, <2>5, <3>1, IncrementIs DEF table
  <2>7. ProfileOK(new)
    BY <2>1, <2>4, <2>6 DEF ProfileOK
  <2>8. ASSUME KeysDiffer, NEW j \in Keys, NEW d \in Classes, NEW at \in Locations
        PROVE  ChargedIn(new, j, d, at)
                 = ChargedIn(prof, j, d, at)
                     + (IF j = k /\ d = c /\ at = loc THEN 1 ELSE 0)
    <3>1. ChargedIn(prof, j, d, at) \in Nat
      BY ChargedType
    <3>2. CASE j # k
      <4>1. ChargedIn(new, j, d, at) = ChargedIn(prof, j, d, at)
        BY <2>4, <3>2 DEF ChargedIn
      <4> QED BY <3>1, <3>2, <4>1
    <3>3. CASE j = k /\ at.file # loc.file
      <4>1. ChargedIn(new, j, d, at) = 0 /\ ChargedIn(prof, j, d, at) = 0 /\ at # loc
        BY <2>1, <2>4, <3>3 DEF ChargedIn
      <4> QED BY <4>1
    <3>4. CASE j = k /\ d = c /\ at = loc
      <4>1. ChargedIn(new, j, d, at) = table[key].count
        BY <2>1, <2>4, <2>6, <2>8, <3>4 DEF ChargedIn
      <4>2. ChargedIn(prof, j, d, at) = IF key \in DOMAIN old THEN old[key].count ELSE 0
        BY <2>1, <2>6, <2>8, <3>4 DEF ChargedIn
      <4> QED BY <2>6, <3>4, <4>1, <4>2
    <3>5. CASE j = k /\ at.file = loc.file /\ ~(d = c /\ at = loc)
      <4>1. ~(d = c /\ at.line = loc.line)
        <5>1. at = At(at.file, at.line)
          BY LocationsAre
        <5> QED BY <2>5, <3>5, <5>1
      <4>2. allocations_key(d, at.line) # key
        BY <2>8, <4>1 DEF KeysDiffer
      <4>3. ChargedIn(new, j, d, at) = ChargedIn(prof, j, d, at)
        BY <2>1, <2>4, <2>6, <3>5, <4>2 DEF ChargedIn
      <4> QED BY <3>1, <3>5, <4>3
    <3> QED BY <3>2, <3>3, <3>4, <3>5
  <2> HIDE DEF key
  <2> QED BY <2>4, <2>7, <2>8 DEF new, k
<1> QED BY <1>2, <1>3

-----------------------------------------------------------------------------
(* The steps of the program. *)

(* A stack with an entry more ... *)
LEMMA PushedStack ==
  ASSUME NEW r, StackOK(r), NEW e \in StackEntry, EntryOK(e)
  PROVE  /\ StackOK(Append(r, e))
         /\ Len(Append(r, e)) = Len(r) + 1 /\ Len(r) \in Nat /\ Len(r) >= 1
         /\ \A i \in 1 .. Len(r) : Append(r, e)[i] = r[i]
         /\ Append(r, e)[Len(r) + 1] = e
<1> DEFINE s == Append(r, e)
<1>1. /\ r \in Seq(StackEntry) /\ Len(r) \in Nat /\ Len(r) >= 1
      /\ \A i \in 1 .. Len(r) : EntryOK(r[i])
      /\ r[1].method \in RubyMethods /\ ~r[1].block
  BY DEF StackOK
<1>2. /\ s \in Seq(StackEntry) /\ s # <<>> /\ Len(s) = Len(r) + 1
      /\ \A i \in 1 .. Len(r) : s[i] = r[i]
      /\ s[Len(r) + 1] = e
  BY <1>1
<1> HIDE DEF s
<1>3. \A i \in 1 .. Len(s) : EntryOK(s[i])
  <2>1. \A i \in 1 .. Len(s) : i \in 1 .. Len(r) \/ i = Len(r) + 1
    BY <1>1, <1>2
  <2> QED BY <1>1, <1>2, <2>1
<1>4. s[1] = r[1]
  BY <1>1, <1>2
<1>5. StackOK(s)
  BY <1>1, <1>2, <1>3, <1>4 DEF StackOK
<1> QED BY <1>1, <1>2, <1>5 DEF s

(* ... or less, or with another line on top, is as well formed. *)
LEMMA PoppedStack ==
  ASSUME NEW r, StackOK(r), Len(r) > 1
  PROVE  LET s == SubSeq(r, 1, Len(r) - 1)
         IN  /\ StackOK(s)
             /\ Len(s) = Len(r) - 1 /\ Len(r) \in Nat
             /\ \A i \in 1 .. Len(s) : s[i] = r[i]
<1> DEFINE s == SubSeq(r, 1, Len(r) - 1)
<1>1. /\ r \in Seq(StackEntry) /\ Len(r) \in Nat
      /\ \A i \in 1 .. Len(r) : EntryOK(r[i])
      /\ r[1].method \in RubyMethods /\ ~r[1].block
  BY DEF StackOK
<1>2. /\ s \in Seq(StackEntry) /\ Len(s) = Len(r) - 1
      /\ \A i \in 1 .. Len(s) : s[i] = r[i]
  BY <1>1
<1> HIDE DEF s
<1>3. StackOK(s)
  <2>1. s # <<>> /\ s[1] = r[1] /\ \A i \in 1 .. Len(s) : i \in 1 .. Len(r)
    BY <1>1, <1>2
  <2> QED BY <1>1, <1>2, <2>1 DEF StackOK
<1> QED BY <1>1, <1>2, <1>3 DEF s

(* The line of the topmost activation changes, within its method. *)
LEMMA StackWithLine ==
  ASSUME NEW r, StackOK(r), Last(r).method \in RubyMethods,
         NEW line \in Sources[Last(r).method].body
  PROVE  LET s == [r EXCEPT ![Len(r)].line = line]
         IN  /\ StackOK(s)
             /\ Len(s) = Len(r) /\ Len(r) \in Nat
             /\ \A i \in 1 .. Len(r) : /\ s[i].method = r[i].method
                                       /\ s[i].block = r[i].block
                                       /\ s[i].told = r[i].told
<1> DEFINE e == r[Len(r)]
           f == [e EXCEPT !.line = line]
           s == [r EXCEPT ![Len(r)] = f]
<1>1. /\ r \in Seq(StackEntry) /\ Len(r) \in Nat /\ Len(r) \in 1 .. Len(r)
      /\ \A i \in 1 .. Len(r) : EntryOK(r[i])
      /\ r[1].method \in RubyMethods /\ ~r[1].block
  BY DEF StackOK
<1>2. e \in StackEntry /\ e.method \in RubyMethods /\ line \in Sources[e.method].body
      /\ line \in Nat
  <2>1. e.method \in RubyMethods /\ line \in Sources[e.method].body
    BY DEF Last
  <2> QED BY <1>1, <2>1, LocationsAre
<1> HIDE DEF e
<1>3. /\ f \in StackEntry /\ f.method = e.method /\ f.block = e.block /\ f.told = e.told
      /\ EntryOK(f)
  <2>1. f \in StackEntry /\ f.method = e.method /\ f.block = e.block /\ f.told = e.told
        /\ f.line = line
    BY <1>2 DEF StackEntry
  <2> QED BY <1>2, <2>1 DEF EntryOK
<1> HIDE DEF f
<1>4. /\ s \in Seq(StackEntry) /\ Len(s) = Len(r)
      /\ \A i \in 1 .. Len(r) : s[i] = IF i = Len(r) THEN f ELSE r[i]
  BY <1>1, <1>3
<1>5. [r EXCEPT ![Len(r)].line = line] = s
  BY DEF f, e
<1> HIDE DEF s
<1>6. \A i \in 1 .. Len(r) : /\ s[i].method = r[i].method
                             /\ s[i].block = r[i].block
                             /\ s[i].told = r[i].told
                             /\ EntryOK(s[i])
  BY <1>1, <1>3, <1>4 DEF e
<1>7. StackOK(s)
  <2>1. 1 \in 1 .. Len(r) /\ s # <<>>
    BY <1>1, <1>4
  <2> QED BY <1>1, <1>4, <1>6, <2>1 DEF StackOK
<1> QED BY <1>1, <1>4, <1>5, <1>6, <1>7

(* The objects that have been made, and how many of each. *)
MadeOK(count) ==
  IsFiniteSet(DOMAIN count) /\ count \in [DOMAIN count -> Nat \ {0}]

AllocInv ==
  /\ StackOK(rstack)
  /\ steps \in 0 .. MaxSteps
  /\ counter \in Nat
  /\ alone \subseteq AllocationMode
  /\ DOMAIN made = Profiles /\ DOMAIN profiles = Profiles
  /\ \A p \in Profiles : ProfileOK(profiles[p]) /\ MadeOK(made[p])

(* An event that the running profiles are told of. *)
Event(event, k, loc) ==
  /\ k \in Methods /\ loc \in Locations /\ CodeAt(k, loc)
  /\ Observe(event, k, loc)
  /\ UNCHANGED <<made, alone, counter>>

(* A call is an event of the method called, at its first line if it is Ruby. *)
LEMMA CallIsEvent ==
  ASSUME StackOK(rstack), NEW k \in Methods, Call(k)
  PROVE  \E e \in StackEntry :
           /\ EntryOK(e) /\ e.method = k /\ ~e.block /\ e.told = Running
           /\ rstack' = Append(rstack, e)
           /\ StackOK(rstack')
           /\ Event("call", k, Here(rstack'))
<1> DEFINE line == IF k \in CMethods THEN 0 ELSE Sources[k].first
           e == Entry(k, FALSE, line, Running)
<1>1. rstack' = Append(rstack, e) /\ Observe("call", k, Here(rstack'))
      /\ UNCHANGED <<made, alone, counter>>
  BY DEF Call, Push
<1>2. e \in StackEntry /\ EntryOK(e) /\ e.method = k /\ ~e.block /\ e.told = Running
  <2>1. line \in Nat /\ (k \in RubyMethods => line = Sources[k].first)
    BY LocationsAre DEF RubyMethods
  <2>2. Running \in SUBSET Profiles
    BY DEF Running
  <2> HIDE DEF line
  <2> QED BY <2>1, <2>2 DEF Entry, StackEntry, EntryOK
<1> HIDE DEF e
<1>3. /\ StackOK(rstack')
      /\ Len(rstack') = Len(rstack) + 1 /\ Len(rstack) \in Nat
      /\ rstack'[Len(rstack) + 1] = e
  BY <1>1, <1>2, PushedStack
<1> DEFINE r == rstack'
<1> HIDE DEF r
<1>4. /\ Here(r) \in Locations /\ CodeAt(TopRuby(r).method, Here(r))
      /\ \E i \in 1 .. Len(r) :
           /\ TopRuby(r) = r[i]
           /\ \A j \in 1 .. Len(r) : r[j].method \in RubyMethods => j <= i
  BY <1>3, TopRubyIs DEF r
<1>5. CodeAt(k, Here(r))
  <2>1. CASE k \in RubyMethods
    <3>1. Len(r) \in 1 .. Len(r) /\ r[Len(r)].method = k
      BY <1>2, <1>3 DEF r
    <3>2. TopRuby(r) = r[Len(r)]
      BY <1>4, <2>1, <3>1
    <3> QED BY <1>4, <3>1, <3>2
  <2>2. CASE k \notin RubyMethods
    BY <2>2 DEF CodeAt
  <2> QED BY <2>1, <2>2
<1>6. e \in StackEntry /\ Event("call", k, Here(rstack'))
  BY <1>1, <1>2, <1>4, <1>5 DEF Event, r
<1> QED BY <1>1, <1>2, <1>3, <1>6

(* A return is an event of the topmost method. *)
LEMMA ReturnIsEvent ==
  ASSUME StackOK(rstack), Return
  PROVE  /\ Len(rstack) > 1 /\ ~Last(rstack).block
         /\ rstack' = SubSeq(rstack, 1, Len(rstack) - 1)
         /\ StackOK(rstack')
         /\ Event("return", Last(rstack).method, Here(rstack))
<1> DEFINE k == Last(rstack).method
           r == rstack
<1>1. /\ Len(r) > 1 /\ ~Last(r).block
      /\ r' = SubSeq(r, 1, Len(r) - 1)
      /\ Observe("return", k, Here(r))
      /\ UNCHANGED <<made, alone, counter>>
  BY DEF Return, Top, Pop
<1>2. StackOK(r')
  BY <1>1, PoppedStack
<1>3. /\ Here(r) \in Locations /\ CodeAt(TopRuby(r).method, Here(r))
      /\ \E i \in 1 .. Len(r) :
           /\ TopRuby(r) = r[i]
           /\ \A j \in 1 .. Len(r) : r[j].method \in RubyMethods => j <= i
  BY TopRubyIs
<1>4. Len(r) \in 1 .. Len(r) /\ r[Len(r)].method = k /\ k \in Methods
  <2>1. Len(r) \in 1 .. Len(r) /\ r \in Seq(StackEntry)
    BY <1>1 DEF StackOK
  <2>2. r[Len(r)] \in StackEntry
    BY <2>1
  <2> QED BY <2>1, <2>2 DEF Last, StackEntry
<1>5. CodeAt(k, Here(r))
  <2>1. CASE k \in RubyMethods
    <3>1. TopRuby(r) = r[Len(r)]
      BY <1>3, <1>4, <2>1
    <3> QED BY <1>3, <1>4, <3>1
  <2>2. CASE k \notin RubyMethods
    BY <2>2 DEF CodeAt
  <2> QED BY <2>1, <2>2
<1> QED BY <1>1, <1>2, <1>3, <1>4, <1>5 DEF Event

(* A line is an event of the topmost method, in Ruby. *)
LEMMA LineIsEvent ==
  ASSUME StackOK(rstack), NEW line, Line(line)
  PROVE  /\ Last(rstack).method \in RubyMethods
         /\ line \in Sources[Last(rstack).method].body
         /\ rstack' = [rstack EXCEPT ![Len(rstack)].line = line]
         /\ StackOK(rstack')
         /\ Event("line", Last(rstack).method, At(Sources[Last(rstack).method].file, line))
<1> DEFINE k == Last(rstack).method
<1>1. /\ Last(rstack).block \/ k \in RubyMethods
      /\ line \in Sources[k].body
      /\ rstack' = [rstack EXCEPT ![Len(rstack)].line = line]
      /\ Observe("line", k, At(Sources[k].file, line))
      /\ UNCHANGED <<made, alone, counter>>
  BY DEF Line, InRuby, Top
<1>2. k \in RubyMethods
  BY <1>1 DEF StackOK, Last, EntryOK
<1>3. StackOK(rstack')
  BY <1>1, <1>2, StackWithLine
<1>4. At(Sources[k].file, line) \in Locations /\ line >= Sources[k].first
  BY <1>1, <1>2, LocationsAre
<1>5. CodeAt(k, At(Sources[k].file, line)) /\ k \in Methods
  BY <1>2, <1>4 DEF CodeAt, At, RubyMethods
<1> QED BY <1>1, <1>2, <1>3, <1>4, <1>5 DEF Event

(* A block that begins is no event. *)
LEMMA YieldIs ==
  ASSUME StackOK(rstack), NEW i \in DOMAIN rstack, Yield(i)
  PROVE  LET e == [rstack[i] EXCEPT !.block = TRUE]
         IN  /\ e \in StackEntry /\ EntryOK(e)
             /\ e.block /\ e.method = rstack[i].method /\ e.told = rstack[i].told
             /\ i \in 1 .. Len(rstack)
             /\ rstack' = Append(rstack, e)
             /\ StackOK(rstack')
             /\ UNCHANGED <<made, alone, counter, profiles>>
<1> DEFINE e == [rstack[i] EXCEPT !.block = TRUE]
<1>1. /\ rstack' = Append(rstack, e) /\ rstack[i].method \in RubyMethods
      /\ UNCHANGED <<made, alone, counter, profiles>>
  BY DEF Yield, Push
<1>2. i \in 1 .. Len(rstack) /\ rstack[i] \in StackEntry /\ EntryOK(rstack[i])
  BY DEF StackOK
<1>3. /\ e \in StackEntry
      /\ e.block /\ e.method = rstack[i].method /\ e.told = rstack[i].told
      /\ e.line = rstack[i].line
  BY <1>2 DEF StackEntry
<1> HIDE DEF e
<1>4. EntryOK(e)
  <2>1. e.method \in RubyMethods
    BY <1>1, <1>3
  <2>2. e.line \in Sources[e.method].body \cup {Sources[e.method].first}
    BY <1>1, <1>2, <1>3 DEF EntryOK
  <2> QED BY <2>1, <2>2 DEF EntryOK
<1>5. StackOK(rstack')
  BY <1>1, <1>3, <1>4, PushedStack
<1> QED BY <1>1, <1>2, <1>3, <1>4, <1>5 DEF e

(* Nor is one that ends. *)
LEMMA EndYieldIs ==
  ASSUME StackOK(rstack), EndYield
  PROVE  /\ Len(rstack) > 1 /\ Last(rstack).block
         /\ rstack' = SubSeq(rstack, 1, Len(rstack) - 1)
         /\ StackOK(rstack')
         /\ UNCHANGED <<made, alone, counter, profiles>>
<1>1. /\ Last(rstack).block /\ rstack' = SubSeq(rstack, 1, Len(rstack) - 1)
      /\ UNCHANGED <<made, alone, counter, profiles>>
  BY DEF EndYield, Top, Pop
<1>2. Len(rstack) > 1
  <2> DEFINE n == Len(rstack)
  <2>1. n \in Nat /\ n # 0
    BY DEF StackOK
  <2>2. n # 1
    BY <1>1 DEF Last, StackOK
  <2> HIDE DEF n
  <2>3. n > 1
    BY <2>1, <2>2
  <2> QED BY <2>3 DEF n
<1>3. StackOK(rstack')
  BY <1>1, <1>2, PoppedStack
<1> QED BY <1>1, <1>2, <1>3

(* What a step is. *)
EventStep ==
  \E event \in {"call", "return", "line"} : \E k \in Methods : \E loc \in Locations :
    Event(event, k, loc)

(* Every step is an event, an allocation, a start, a stop, or none of a    *)
(* profile's business.                                                     *)
LEMMA StepIs ==
  ASSUME AllocInv, Next
  PROVE  /\ StackOK(rstack')
         /\ steps' \in 0 .. MaxSteps
         /\ \/ EventStep
            \/ UNCHANGED <<made, alone, counter, profiles>>
            \/ \E c \in Classes \cup {Imemo} : Allocate(c)
            \/ \E p \in Profiles : Start(p)
            \/ \E p \in Profiles : Stop(p)
<1> DEFINE Shape ==
      /\ StackOK(rstack')
      /\ steps' \in 0 .. MaxSteps
      /\ \/ EventStep
         \/ UNCHANGED <<made, alone, counter, profiles>>
         \/ \E c \in Classes \cup {Imemo} : Allocate(c)
         \/ \E p \in Profiles : Start(p)
         \/ \E p \in Profiles : Stop(p)
<1>1. StackOK(rstack) /\ steps \in 0 .. MaxSteps /\ MaxSteps \in Nat
  BY AllocationsAssumption DEF AllocInv, AllocationsAssumption
<1>2. Step => steps' \in 0 .. MaxSteps
  BY <1>1 DEF Step
<1>3. ASSUME NEW k \in Methods, Call(k) PROVE Shape
  <2>1. StackOK(rstack') /\ Event("call", k, Here(rstack'))
    BY <1>1, <1>3, CallIsEvent
  <2>2. steps' \in 0 .. MaxSteps
    BY <1>2, <1>3 DEF Call
  <2>3. EventStep
    BY <2>1 DEF EventStep, Event
  <2> QED BY <2>1, <2>2, <2>3
<1>4. ASSUME Return PROVE Shape
  <2>1. StackOK(rstack') /\ Event("return", Last(rstack).method, Here(rstack))
    BY <1>1, <1>4, ReturnIsEvent
  <2>2. steps' \in 0 .. MaxSteps
    BY <1>1, <1>4 DEF Return
  <2>3. EventStep
    BY <2>1 DEF EventStep, Event
  <2> QED BY <2>1, <2>2, <2>3
<1>5. ASSUME NEW line, Line(line) PROVE Shape
  <2>1. /\ StackOK(rstack')
        /\ Event("line", Last(rstack).method, At(Sources[Last(rstack).method].file, line))
    BY <1>1, <1>5, LineIsEvent
  <2>2. steps' \in 0 .. MaxSteps
    BY <1>1, <1>5 DEF Line
  <2>3. EventStep
    BY <2>1 DEF EventStep, Event
  <2> QED BY <2>1, <2>2, <2>3
<1>6. ASSUME NEW i \in DOMAIN rstack, Yield(i) PROVE Shape
  <2>1. StackOK(rstack') /\ UNCHANGED <<made, alone, counter, profiles>>
    BY <1>1, <1>6, YieldIs
  <2>2. steps' \in 0 .. MaxSteps
    BY <1>2, <1>6 DEF Yield
  <2> QED BY <2>1, <2>2
<1>7. ASSUME EndYield PROVE Shape
  <2>1. StackOK(rstack') /\ UNCHANGED <<made, alone, counter, profiles>>
    BY <1>1, <1>7, EndYieldIs
  <2>2. steps' \in 0 .. MaxSteps
    BY <1>1, <1>7 DEF EndYield
  <2> QED BY <2>1, <2>2
<1>8. ASSUME NEW c \in Classes \cup {Imemo}, Allocate(c) PROVE Shape
  <2>1. rstack' = rstack /\ steps' \in 0 .. MaxSteps
    BY <1>2, <1>8 DEF Allocate
  <2> QED BY <1>1, <1>8, <2>1
<1>9. ASSUME NEW p \in Profiles, Start(p) \/ Stop(p) PROVE Shape
  <2>1. rstack' = rstack /\ steps' = steps
    BY <1>9 DEF Start, Stop
  <2> QED BY <1>1, <1>9, <2>1
<1> HIDE DEF Shape
<1>10. Shape
  BY <1>3, <1>4, <1>5, <1>6, <1>7, <1>8, <1>9 DEF Next
<1> QED BY <1>10 DEF Shape

(* What it makes of a profile that runs. *)
LEMMA EventIs ==
  ASSUME AllocInv, NEW event \in {"call", "return", "line"},
         NEW k \in Methods, NEW loc \in Locations, Event(event, k, loc),
         NEW p \in Profiles
  PROVE  /\ p \in Running => profiles'[p] =
              prof_event_hook(profiles[p], event, k, loc, prof_measure(p))
         /\ p \notin Running => profiles'[p] = profiles[p]
         /\ prof_measure(p) \in Nat
         /\ CodeAt(k, loc)
         /\ ProfileOK(profiles[p])
         /\ ProfileOK(profiles'[p]) /\ SourcesKept(profiles'[p], profiles[p])
         /\ DOMAIN profiles' = Profiles
         /\ UNCHANGED <<made, alone, counter>>
<1>1. /\ CodeAt(k, loc) /\ prof_measure(p) \in Nat /\ ProfileOK(profiles[p])
      /\ UNCHANGED <<made, alone, counter>>
  BY DEF Event, prof_measure, AllocInv
<1> DEFINE new == prof_event_hook(profiles[p], event, k, loc, prof_measure(p))
<1>2. /\ p \in Running => profiles'[p] = new
      /\ p \notin Running => profiles'[p] = profiles[p]
      /\ DOMAIN profiles' = Profiles
  BY DEF Event, Observe
<1>3. ProfileOK(new) /\ SourcesKept(new, profiles[p])
  BY <1>1, EventKeepsProfile
<1> HIDE DEF new
<1>4. SourcesKept(profiles[p], profiles[p])
  BY DEF SourcesKept
<1> QED BY <1>1, <1>2, <1>3, <1>4 DEF new

(* What an allocation makes of the profiles and the history. *)
LEMMA AllocateIs ==
  ASSUME AllocInv, NEW c \in Classes \cup {Imemo}, Allocate(c), NEW p \in Profiles
  PROVE  /\ p \in Listening => profiles'[p] = NewObject(profiles[p], c, Here(rstack))
         /\ p \notin Listening => profiles'[p] = profiles[p]
         /\ made'[p] =
              IF c # Imemo /\ p \in Running /\ profiles[p].thread.stack # <<>>
              THEN OneMore(made[p], Object(p, c, rstack)) ELSE made[p]
         /\ Here(rstack) \in Locations
         /\ DOMAIN profiles' = Profiles /\ DOMAIN made' = Profiles
         /\ rstack' = rstack /\ alone' = alone
         /\ ProfileOK(profiles[p]) /\ MadeOK(made[p])
         /\ ProfileOK(profiles'[p])
         /\ profiles'[p].thread = profiles[p].thread
         /\ profiles'[p].status = profiles[p].status
         /\ profiles'[p].source = profiles[p].source
<1>1. /\ p \in Listening => profiles'[p] = NewObject(profiles[p], c, Here(rstack))
      /\ p \notin Listening => profiles'[p] = profiles[p]
      /\ DOMAIN profiles' = Profiles
      /\ rstack' = rstack /\ alone' = alone
  BY DEF Allocate
<1>2. /\ made'[p] =
           IF c # Imemo /\ p \in Running /\ profiles[p].thread.stack # <<>>
           THEN OneMore(made[p], Object(p, c, rstack)) ELSE made[p]
      /\ DOMAIN made' = Profiles
  BY DEF Allocate
<1>3. Here(rstack) \in Locations
  BY TopRubyIs DEF AllocInv
<1>4. ProfileOK(profiles[p]) /\ MadeOK(made[p])
  BY DEF AllocInv
<1>5. CASE p \in Listening /\ c # Imemo
  <2> DEFINE new == NewObject(profiles[p], c, Here(rstack))
  <2>1. /\ ProfileOK(new) /\ new.thread = profiles[p].thread
        /\ new.status = profiles[p].status /\ new.source = profiles[p].source
    BY <1>3, <1>4, <1>5, ObjectCharged
  <2> HIDE DEF new
  <2> QED BY <1>1, <1>2, <1>3, <1>4, <1>5, <2>1 DEF new
<1>6. CASE ~(p \in Listening /\ c # Imemo)
  <2>1. profiles'[p] = profiles[p]
    BY <1>1, <1>6 DEF NewObject
  <2> QED BY <1>1, <1>2, <1>3, <1>4, <2>1
<1> QED BY <1>5, <1>6

(* There is one more of an object. *)
LEMMA OneMoreIs ==
  ASSUME NEW count, MadeOK(count), NEW o
  PROVE  LET new == OneMore(count, o)
         IN  /\ MadeOK(new)
             /\ DOMAIN new = DOMAIN count \cup {o}
             /\ new[o] = (IF o \in DOMAIN count THEN count[o] ELSE 0) + 1
             /\ \A x \in DOMAIN count : x # o => new[x] = count[x]
<1> DEFINE new == OneMore(count, o)
           D == DOMAIN count
<1>1. IsFiniteSet(D) /\ \A x \in D : count[x] \in Nat \ {0}
  BY DEF MadeOK
<1>2. /\ new = [x \in D \cup {o} |-> (IF x \in D THEN count[x] ELSE 0) + (IF x = o THEN 1 ELSE 0)]
  BY DEF OneMore
<1>3. IsFiniteSet(D \cup {o})
  BY <1>1, FS_AddElement
<1> HIDE DEF D, new
<1>4. /\ DOMAIN new = D \cup {o} /\ new[o] = (IF o \in D THEN count[o] ELSE 0) + 1
      /\ \A x \in D : x # o => new[x] = count[x]
  BY <1>1, <1>2
<1>5. new \in [D \cup {o} -> Nat \ {0}]
  <2>1. \A x \in D \cup {o} : new[x] \in Nat \ {0}
    BY <1>1, <1>4
  <2> QED BY <1>2, <2>1
<1>6. MadeOK(new)
  BY <1>3, <1>4, <1>5 DEF MadeOK
<1> QED BY <1>4, <1>6 DEF D, new

(* A profile begins with nothing. *)
LEMMA NewProfileOK ==
  ASSUME NEW status \in {"new", "running", "stopped"}
  PROVE  /\ ProfileOK(NewProfile(status))
         /\ NewProfile(status).status = status
         /\ NewProfile(status).thread = thread_data_create(TRUE)
         /\ \A k \in Keys : NewProfile(status).source[k] = Nowhere
         /\ \A k \in Keys : DOMAIN NewProfile(status).allocations[k] = {}
<1> DEFINE prof == NewProfile(status)
<1>1. /\ DOMAIN prof = {"status", "thread", "source", "allocations"}
      /\ prof.status = status /\ prof.thread = thread_data_create(TRUE)
      /\ prof.source = [k \in Keys |-> Nowhere]
      /\ prof.allocations = [k \in Keys |-> NoTable]
  BY DEF NewProfile
<1> HIDE DEF prof
<1>2. \A k \in Keys : prof.source[k] = Nowhere /\ DOMAIN prof.allocations[k] = {}
  BY <1>1 DEF NoTable
<1>3. /\ prof.source \in [Keys -> Locations \cup {Nowhere}]
      /\ InsertedParent \in Keys
  BY <1>1 DEF Keys
<1>4. ThreadFine(prof.thread)
  BY <1>1, NewFine
<1>5. ProfileOK(prof)
  BY <1>1, <1>2, <1>3, <1>4 DEF ProfileOK, TableFits
<1> QED BY <1>1, <1>2, <1>5 DEF prof

(* A profile starts, or stops. *)
LEMMA StartIs ==
  ASSUME AllocInv, NEW p \in Profiles, Start(p)
  PROVE  /\ profiles[p].status = "new"
         /\ profiles'[p] = NewProfile("running")
         /\ ProfileOK(profiles'[p])
         /\ \A q \in Profiles : q # p => profiles'[q] = profiles[q]
         /\ DOMAIN profiles' = Profiles
         /\ alone' = AloneAfterStart(p)
         /\ UNCHANGED <<rstack, made, counter>>
<1>1. /\ profiles[p].status = "new"
      /\ profiles' = [profiles EXCEPT ![p] = NewProfile("running")]
      /\ alone' = AloneAfterStart(p)
      /\ UNCHANGED <<rstack, made, counter>>
  BY DEF Start
<1>2. /\ profiles'[p] = NewProfile("running")
      /\ \A q \in Profiles : q # p => profiles'[q] = profiles[q]
      /\ DOMAIN profiles' = Profiles
  BY <1>1 DEF AllocInv
<1>3. ProfileOK(NewProfile("running"))
  BY NewProfileOK
<1> QED BY <1>1, <1>2, <1>3

(* A profile stops: its frames are popped. *)
LEMMA StopIs ==
  ASSUME AllocInv, NEW p \in Profiles, Stop(p)
  PROVE  /\ p \in Running
         /\ profiles'[p] = [profiles[p] EXCEPT !.status = "stopped",
                              !.thread = PopAll(@, prof_measure(p))]
         /\ ProfileOK(profiles'[p])
         /\ profiles'[p].status = "stopped"
         /\ profiles'[p].source = profiles[p].source
         /\ profiles'[p].allocations = profiles[p].allocations
         /\ profiles'[p].thread = PopAll(profiles[p].thread, prof_measure(p))
         /\ \A j \in Keys : profiles[p].thread.method_table[j].created =>
              profiles'[p].thread.method_table[j].created
         /\ profiles'[p].thread.stack = <<>>
         /\ \A q \in Profiles : q # p => profiles'[q] = profiles[q]
         /\ DOMAIN profiles' = Profiles
         /\ UNCHANGED <<rstack, made, alone, counter>>
<1> DEFINE prof == profiles[p]
           m == prof_measure(p)
           u == PopAll(prof.thread, m)
           new == [prof EXCEPT !.status = "stopped", !.thread = u]
<1>1. /\ p \in Running
      /\ profiles' = [profiles EXCEPT ![p].status = "stopped",
                                      ![p].thread = PopAll(@, m)]
      /\ UNCHANGED <<rstack, made, alone, counter>>
  BY DEF Stop
<1>2. ProfileOK(prof) /\ m \in Nat /\ DOMAIN profiles = Profiles
  BY DEF AllocInv, prof_measure
<1>3. /\ ThreadFine(u) /\ u.stack = <<>>
      /\ \A j \in Keys : prof.thread.method_table[j].created => u.method_table[j].created
  BY <1>2, PopAllFine DEF ProfileOK
<1> HIDE DEF m
<1>4. profiles' = [profiles EXCEPT ![p] = new]
  BY <1>1, <1>2, Zenon DEF ProfileOK
<1>5. /\ profiles'[p] = new
      /\ \A q \in Profiles : q # p => profiles'[q] = profiles[q]
      /\ DOMAIN profiles' = Profiles
  BY <1>2, <1>4
<1> HIDE DEF u
<1>6. /\ DOMAIN new = DOMAIN prof
      /\ new.status = "stopped" /\ new.thread = u
      /\ new.source = prof.source /\ new.allocations = prof.allocations
  BY <1>2 DEF ProfileOK
<1>7. ProfileOK(new)
  BY <1>2, <1>3, <1>6 DEF ProfileOK
<1> QED BY <1>1, <1>3, <1>5, <1>6, <1>7 DEF u, m

-----------------------------------------------------------------------------
(* The types. *)

(* The invariant holds at the beginning ... *)
LEMMA AllocInvInit ==
  ASSUME Init
  PROVE  AllocInv
<1>1. StackOK(rstack)
  <2>1. /\ Home \in Seq(RubyMethods) /\ Home # <<>>
        /\ rstack = [i \in DOMAIN Home |-> Entry(Home[i], FALSE, Sources[Home[i]].first, {})]
    BY AllocationsAssumption DEF AllocationsAssumption, Init
  <2>2. /\ Len(Home) \in Nat /\ DOMAIN Home = 1 .. Len(Home) /\ Len(Home) >= 1
        /\ \A i \in 1 .. Len(Home) : Home[i] \in RubyMethods
    BY <2>1
  <2>3. \A k \in RubyMethods :
          LET e == Entry(k, FALSE, Sources[k].first, {})
          IN  e \in StackEntry /\ EntryOK(e) /\ e.method = k /\ ~e.block
    <3>1. ASSUME NEW k \in RubyMethods
          PROVE  LET e == Entry(k, FALSE, Sources[k].first, {})
                 IN  e \in StackEntry /\ EntryOK(e) /\ e.method = k /\ ~e.block
      <4>1. Sources[k].first \in Nat /\ k \in Methods
        BY AllocationsAssumption DEF AllocationsAssumption, RubyMethods
      <4> QED BY <4>1 DEF Entry, StackEntry, EntryOK
    <3> QED BY <3>1
  <2>4. DOMAIN rstack = 1 .. Len(Home)
    BY <2>1, <2>2
  <2>5. \A i \in 1 .. Len(Home) :
          /\ rstack[i] \in StackEntry /\ EntryOK(rstack[i])
          /\ rstack[i].method \in RubyMethods /\ ~rstack[i].block
    BY <2>1, <2>2, <2>3
  <2>6. rstack \in [1 .. Len(Home) -> StackEntry]
    BY <2>1, <2>2, <2>5
  <2>7. rstack \in Seq(StackEntry) /\ Len(rstack) = Len(Home)
    BY <2>2, <2>6
  <2> QED BY <2>2, <2>5, <2>7 DEF StackOK
<1>2. \A p \in Profiles : ProfileOK(profiles[p]) /\ MadeOK(made[p])
  <2>1. ProfileOK(NewProfile("new"))
    BY NewProfileOK
  <2>2. MadeOK([o \in {} |-> 0])
    <3>1. IsFiniteSet({})
      BY FS_EmptySet
    <3> QED BY <3>1 DEF MadeOK
  <2> QED BY <2>1, <2>2 DEF Init
<1>3. /\ steps \in 0 .. MaxSteps /\ counter \in Nat /\ alone \subseteq AllocationMode
      /\ DOMAIN made = Profiles /\ DOMAIN profiles = Profiles
  BY AllocationsAssumption DEF Init, AllocationsAssumption
<1> QED BY <1>1, <1>2, <1>3 DEF AllocInv

(* ... and after each step ... *)
LEMMA AllocInvNext ==
  ASSUME AllocInv, [Next]_vars
  PROVE  AllocInv'
<1>1. CASE UNCHANGED vars
  BY <1>1 DEF vars, AllocInv
<1>2. CASE Next
  <2>1. StackOK(rstack') /\ steps' \in 0 .. MaxSteps
    BY <1>2, StepIs
  <2> DEFINE Rest ==
        /\ counter' \in Nat
        /\ alone' \subseteq AllocationMode
        /\ DOMAIN made' = Profiles /\ DOMAIN profiles' = Profiles
        /\ \A p \in Profiles : ProfileOK(profiles'[p]) /\ MadeOK(made'[p])
  <2>2. /\ counter \in Nat /\ alone \subseteq AllocationMode
        /\ DOMAIN made = Profiles /\ DOMAIN profiles = Profiles
        /\ \A p \in Profiles : ProfileOK(profiles[p]) /\ MadeOK(made[p])
    BY DEF AllocInv
  <2>3. CASE EventStep
    <3>1. PICK event \in {"call", "return", "line"} : \E k \in Methods : \E loc \in Locations :
            Event(event, k, loc)
      BY <2>3 DEF EventStep
    <3>2. PICK k \in Methods : \E loc \in Locations : Event(event, k, loc)
      BY <3>1
    <3>3. PICK loc \in Locations : Event(event, k, loc)
      BY <3>2
    <3>4. \A p \in Profiles : ProfileOK(profiles'[p])
      BY <3>3, EventIs
    <3>5. DOMAIN profiles' = Profiles /\ UNCHANGED <<made, alone, counter>>
      BY <3>3 DEF Event, Observe
    <3>6. Rest
      BY <2>2, <3>4, <3>5
    <3> QED BY <2>1, <3>6 DEF AllocInv
  <2>4. CASE UNCHANGED <<made, alone, counter, profiles>>
    BY <2>1, <2>2, <2>4 DEF AllocInv
  <2>5. ASSUME NEW c \in Classes \cup {Imemo}, Allocate(c) PROVE Rest
    <3>1. /\ alone' = alone
          /\ counter' = measure_allocations(c, Cardinality(Listening \cap AllocationMode))
          /\ DOMAIN profiles' = Profiles /\ DOMAIN made' = Profiles
      BY <2>5 DEF Allocate
    <3>2. counter' \in Nat
      <4>1. IsFiniteSet(Listening \cap AllocationMode)
        <5>1. IsFiniteSet(Profiles) /\ Listening \cap AllocationMode \subseteq Profiles
          BY AllocationsAssumption DEF AllocationsAssumption
        <5> QED BY <5>1, FS_Subset
      <4>2. Cardinality(Listening \cap AllocationMode) \in Nat
        BY <4>1, FS_CardinalityType
      <4> QED BY <2>2, <3>1, <4>2 DEF measure_allocations
    <3>3. ASSUME NEW p \in Profiles PROVE ProfileOK(profiles'[p]) /\ MadeOK(made'[p])
      <4>1. /\ ProfileOK(profiles'[p]) /\ MadeOK(made[p])
            /\ \/ made'[p] = made[p]
               \/ made'[p] = OneMore(made[p], Object(p, c, rstack))
        BY <2>5, AllocateIs
      <4>2. MadeOK(OneMore(made[p], Object(p, c, rstack)))
        BY <4>1, OneMoreIs
      <4> QED BY <4>1, <4>2
    <3> QED BY <2>2, <3>1, <3>2, <3>3
  <2>6. ASSUME NEW p \in Profiles, Start(p) PROVE Rest
    <3>1. /\ ProfileOK(profiles'[p])
          /\ \A q \in Profiles : q # p => profiles'[q] = profiles[q]
          /\ DOMAIN profiles' = Profiles
          /\ alone' = AloneAfterStart(p)
          /\ made' = made /\ counter' = counter
      BY <2>6, StartIs
    <3>2. alone' \subseteq AllocationMode
      BY <2>2, <3>1 DEF AloneAfterStart
    <3> QED BY <2>2, <3>1, <3>2
  <2>7. ASSUME NEW p \in Profiles, Stop(p) PROVE Rest
    <3>1. /\ ProfileOK(profiles'[p])
          /\ \A q \in Profiles : q # p => profiles'[q] = profiles[q]
          /\ DOMAIN profiles' = Profiles
          /\ UNCHANGED <<made, alone, counter>>
      BY <2>7, StopIs
    <3> QED BY <2>2, <3>1
  <2>8. Rest => AllocInv'
    BY <2>1 DEF AllocInv
  <2> HIDE DEF Rest
  <2> QED BY <1>2, <2>3, <2>4, <2>5, <2>6, <2>7, <2>8, StepIs
<1> QED BY <1>1, <1>2

(* ... and says that types are right. *)
LEMMA AllocInvTyped ==
  ASSUME AllocInv
  PROVE  TypeOK
<1>1. /\ rstack \in Seq([method : Methods, block : BOOLEAN, line : Nat,
                         told : SUBSET Profiles])
      /\ steps \in 0 .. MaxSteps
      /\ \A p \in Profiles : made[p] \in [DOMAIN made[p] -> Nat \ {0}]
      /\ alone \subseteq AllocationMode
      /\ counter \in Nat
  BY DEF AllocInv, StackOK, StackEntry, MadeOK
<1>2. ASSUME NEW p \in Profiles
      PROVE  /\ profiles[p].status \in {"new", "running", "stopped"}
             /\ profiles[p].thread \in Thread
             /\ profiles[p].source \in [Keys -> Locations \cup {Nowhere}]
             /\ \A k \in Keys : LET table == profiles[p].allocations[k] IN
                  \A key \in DOMAIN table : key \in Nat /\ table[key] \in Allocation
  <2>1. ProfileOK(profiles[p])
    BY DEF AllocInv
  <2>2. profiles[p].thread \in Thread
    BY <2>1, SameOperators DEF ProfileOK, ThreadFine, H!ThreadOK
  <2>3. ASSUME NEW k \in Keys, NEW key \in DOMAIN profiles[p].allocations[k]
        PROVE  key \in Nat /\ profiles[p].allocations[k][key] \in Allocation
    <3> DEFINE entry == profiles[p].allocations[k][key]
    <3>1. entry \in Allocation /\ key = allocations_key(entry.klass, entry.source_line)
      BY <2>1 DEF ProfileOK, TableFits, EntryFits
    <3> HIDE DEF entry
    <3>2. entry.klass \in Nat /\ entry.source_line \in Nat
      BY <3>1, AllocationsAssumption DEF Allocation, AllocationsAssumption
    <3>3. key \in Nat
      BY <3>1, <3>2 DEF allocations_key
    <3> QED BY <3>1, <3>3 DEF entry
  <2> QED BY <2>1, <2>2, <2>3 DEF ProfileOK
<1> QED BY <1>1, <1>2 DEF TypeOK

(* Every variable of the allocations has its type, and every entry of a    *)
(* table of allocations is under the key of its class and its line, in the *)
(* table of a method whose file has such a line (rp_allocation.c).         *)
THEOREM AllocationsTyped == Spec => []TypeOK
<1>1. Init => AllocInv
  BY AllocInvInit
<1>2. AllocInv /\ [Next]_vars => AllocInv'
  BY AllocInvNext
<1>3. AllocInv => TypeOK
  BY AllocInvTyped
<1> QED BY <1>1, <1>2, <1>3, PTL DEF Spec

-----------------------------------------------------------------------------
(* No object is counted twice. *)

(* Sums over the methods are finite. *)
LEMMA KeysFinite == IsFiniteSet(Keys)
<1>1. IsFiniteSet(Methods)
  BY AllocationsAssumption DEF AllocationsAssumption
<1> QED BY <1>1, FS_AddElement DEF Keys

(* The objects of a history that are of class c and made at loc. *)
MadeIn(count, c, loc) ==
  LET objects == {o \in DOMAIN count : o.klass = c /\ o.loc = loc}
  IN  SumFunction([o \in objects |-> count[o]])

(* One more of them counts once. *)
LEMMA MadeOneMore ==
  ASSUME NEW count, MadeOK(count), NEW o, NEW c, NEW loc
  PROVE  /\ MadeIn(count, c, loc) \in Int
         /\ MadeIn(OneMore(count, o), c, loc)
              = MadeIn(count, c, loc) + (IF o.klass = c /\ o.loc = loc THEN 1 ELSE 0)
<1> DEFINE more == OneMore(count, o)
           S == {x \in DOMAIN count : x.klass = c /\ x.loc = loc}
           T == {x \in DOMAIN more : x.klass = c /\ x.loc = loc}
           f == [x \in S |-> count[x]]
           g == [x \in T |-> more[x]]
           Fits == o.klass = c /\ o.loc = loc
<1>1. /\ DOMAIN more = DOMAIN count \cup {o}
      /\ more[o] = (IF o \in DOMAIN count THEN count[o] ELSE 0) + 1
      /\ \A x \in DOMAIN count : x # o => more[x] = count[x]
  BY OneMoreIs
<1>2. MadeIn(count, c, loc) = SumFunction(f) /\ MadeIn(more, c, loc) = SumFunction(g)
  BY DEF MadeIn
<1>3. /\ IsFiniteSet(S) /\ f \in [S -> Int]
      /\ \A x \in S : f[x] = count[x] /\ f[x] \in Nat /\ x \in DOMAIN count
  <2>1. IsFiniteSet(DOMAIN count) /\ \A x \in DOMAIN count : count[x] \in Nat
    BY DEF MadeOK
  <2>2. IsFiniteSet(S)
    BY <2>1, FS_Subset
  <2> QED BY <2>1, <2>2
<1>4. SumFunction(f) \in Int
  BY <1>3, SumType
<1>5. /\ T = IF Fits THEN S \cup {o} ELSE S
      /\ \A x \in T : g[x] = more[x]
      /\ o \in S <=> Fits /\ o \in DOMAIN count
      /\ DOMAIN g = T /\ g = [x \in T |-> g[x]]
  BY <1>1
<1> HIDE DEF more, S, T, f, g
<1>6. CASE ~Fits
  <2>1. T = S /\ \A x \in S : g[x] = f[x]
    BY <1>1, <1>3, <1>5, <1>6
  <2>2. g = f
    BY <1>3, <1>5, <2>1
  <2> QED BY <1>2, <1>4, <1>6, <2>2 DEF more
<1>7. CASE Fits /\ o \in DOMAIN count
  <2>1. T = S /\ o \in S /\ \A x \in S : g[x] = f[x] + (IF x = o THEN 1 ELSE 0)
    BY <1>1, <1>3, <1>5, <1>7
  <2>2. g \in [S -> Int]
    <3>1. \A x \in S : g[x] \in Int
      BY <1>3, <2>1
    <3> QED BY <1>5, <2>1, <3>1
  <2>3. MovedAt(g, f, S, o, 1)
    BY <1>3, <2>1, <2>2 DEF MovedAt
  <2>4. SumFunction(g) = SumFunction(f) + 1
    BY <2>1, <2>3, SumMoved
  <2> QED BY <1>2, <1>4, <1>7, <2>4 DEF more
<1>8. CASE Fits /\ o \notin DOMAIN count
  <2>1. T = S \cup {o} /\ o \notin S /\ g[o] = 1 /\ \A x \in S : g[x] = f[x]
    BY <1>1, <1>3, <1>5, <1>8
  <2>2. g \in [S \cup {o} -> Int]
    <3>1. \A x \in S \cup {o} : g[x] \in Int
      BY <1>3, <2>1
    <3> QED BY <1>5, <2>1, <3>1
  <2>3. AddedAt(g, f, S, o)
    BY <1>3, <2>1, <2>2 DEF AddedAt
  <2>4. SumFunction(g) = SumFunction(f) + 1
    BY <2>1, <2>3, SumAdded
  <2> QED BY <1>2, <1>4, <1>8, <2>4 DEF more
<1> QED BY <1>2, <1>4, <1>6, <1>7, <1>8 DEF more

(* How many objects a profile has charged, to whatever method. *)
ChargedSum(prof, c, loc) ==
  SumFunction([j \in Keys |-> ChargedIn(prof, j, c, loc)])

(* A profile has charged no more objects than there were. *)
NotOver(prof, count) ==
  \A c \in Classes, loc \in Locations : ChargedSum(prof, c, loc) <= MadeIn(count, c, loc)

(* It is a natural number. *)
LEMMA ChargedSumIs ==
  ASSUME NEW prof, ProfileOK(prof), NEW c, NEW loc
  PROVE  /\ ChargedSum(prof, c, loc) \in Int
         /\ [j \in Keys |-> ChargedIn(prof, j, c, loc)] \in [Keys -> Int]
<1>1. [j \in Keys |-> ChargedIn(prof, j, c, loc)] \in [Keys -> Int]
  <2>1. \A j \in Keys : ChargedIn(prof, j, c, loc) \in Int
    BY ChargedType
  <2> QED BY <2>1
<1> QED BY <1>1, KeysFinite, SumType DEF ChargedSum

(* It depends on what is charged to each method. *)
LEMMA ChargedSumSame ==
  ASSUME NEW prof, NEW new, \A c, loc : \A j \in Keys :
           ChargedIn(new, j, c, loc) = ChargedIn(prof, j, c, loc)
  PROVE  \A c, loc : ChargedSum(new, c, loc) = ChargedSum(prof, c, loc)
BY DEF ChargedSum

(* An object is charged once, if at all. *)
LEMMA ObjectAddsOne ==
  ASSUME KeysDiffer, NEW prof, ProfileOK(prof), NEW c \in Classes, NEW loc \in Locations,
         NEW d \in Classes, NEW at \in Locations
  PROVE  ChargedSum(NewObject(prof, c, loc), d, at) = ChargedSum(prof, d, at)
           + (IF prof_find_method(prof, loc) \in Keys /\ d = c /\ at = loc THEN 1 ELSE 0)
<1> DEFINE new == NewObject(prof, c, loc)
           k == prof_find_method(prof, loc)
           one == IF d = c /\ at = loc THEN 1 ELSE 0
           f == [j \in Keys |-> ChargedIn(prof, j, d, at)]
           g == [j \in Keys |-> ChargedIn(new, j, d, at)]
<1>1. /\ ProfileOK(new)
      /\ \A j \in Keys : ChargedIn(new, j, d, at) = ChargedIn(prof, j, d, at)
                           + (IF j = k /\ d = c /\ at = loc THEN 1 ELSE 0)
  BY ObjectCharged
<1> HIDE DEF new, k
<1>2. f \in [Keys -> Int] /\ g \in [Keys -> Int]
  <2>1. f \in [Keys -> Int]
    BY ChargedSumIs
  <2>2. g \in [Keys -> Int]
    BY <1>1, ChargedSumIs
  <2> QED BY <2>1, <2>2
<1>3. \A j \in Keys : g[j] = f[j] + (IF j = k THEN one ELSE 0)
  BY <1>1
<1>4. one \in Int
  OBVIOUS
<1>5. SumFunction(f) = ChargedSum(prof, d, at) /\ SumFunction(g) = ChargedSum(new, d, at)
  BY DEF ChargedSum
<1> HIDE DEF f, g, one
<1>6. SumFunction(g) = SumFunction(f) + (IF k \in Keys THEN one ELSE 0)
  BY <1>2, <1>3, <1>4, KeysFinite, SumMoved DEF MovedAt
<1> QED BY <1>5, <1>6 DEF one, new, k

(* A profile without allocations has charged none. *)
LEMMA NothingCharged ==
  ASSUME NEW prof, \A k \in Keys : DOMAIN prof.allocations[k] = {}, NEW c, NEW loc
  PROVE  ChargedSum(prof, c, loc) = 0
<1> DEFINE f == [j \in Keys |-> ChargedIn(prof, j, c, loc)]
<1>1. \A j \in Keys : f[j] = 0
  BY DEF ChargedIn
<1>2. f \in [Keys -> Int]
  BY <1>1
<1>3. ChargedSum(prof, c, loc) = SumFunction(f)
  BY DEF ChargedSum
<1> HIDE DEF f
<1> QED BY <1>1, <1>2, <1>3, KeysFinite, SumOfZeros

(* A new profile has not charged too many. *)
LEMMA NotOverInit ==
  ASSUME NEW prof, \A k \in Keys : DOMAIN prof.allocations[k] = {},
         NEW count, DOMAIN count = {}
  PROVE  NotOver(prof, count)
<1>1. SUFFICES ASSUME NEW c \in Classes, NEW loc \in Locations
               PROVE  ChargedSum(prof, c, loc) <= MadeIn(count, c, loc)
  BY DEF NotOver
<1>2. ChargedSum(prof, c, loc) = 0
  BY NothingCharged
<1>3. MadeIn(count, c, loc) = 0
  <2> DEFINE S == {o \in DOMAIN count : o.klass = c /\ o.loc = loc}
             f == [o \in S |-> count[o]]
  <2>1. S = {} /\ f \in [S -> Int] /\ IsFiniteSet(S)
    BY FS_EmptySet
  <2>2. MadeIn(count, c, loc) = SumFunction(f)
    BY DEF MadeIn
  <2> HIDE DEF S, f
  <2> QED BY <2>1, <2>2, SumType
<1> QED BY <1>2, <1>3

(* No object is made before the eyes of a profile that has not started. *)
Unstarted == \A p \in Profiles : profiles[p].status = "new" => DOMAIN made[p] = {}

(* No profile that was started is new again, and no other makes objects. *)
LEMMA StatusKept ==
  ASSUME AllocInv, [Next]_vars, NEW p \in Profiles, profiles'[p].status = "new"
  PROVE  profiles[p].status = "new" /\ made'[p] = made[p]
<1>1. CASE UNCHANGED vars
  BY <1>1 DEF vars
<1>2. CASE Next
  <2>1. CASE EventStep
    <3>1. PICK event \in {"call", "return", "line"} : \E k \in Methods : \E loc \in Locations :
            Event(event, k, loc)
      BY <2>1 DEF EventStep
    <3>2. PICK k \in Methods : \E loc \in Locations : Event(event, k, loc)
      BY <3>1
    <3>3. PICK loc \in Locations : Event(event, k, loc)
      BY <3>2
    <3>4. SourcesKept(profiles'[p], profiles[p]) /\ made' = made
      BY <3>3, EventIs
    <3> QED BY <3>4 DEF SourcesKept
  <2>2. CASE UNCHANGED <<made, alone, counter, profiles>>
    BY <2>2
  <2>3. ASSUME NEW c \in Classes \cup {Imemo}, Allocate(c)
        PROVE  profiles[p].status = "new" /\ made'[p] = made[p]
    <3>1. /\ profiles'[p].status = profiles[p].status
          /\ p \notin Running => made'[p] = made[p]
      BY <2>3, AllocateIs
    <3> QED BY <3>1 DEF Running
  <2>4. ASSUME NEW q \in Profiles, Start(q)
        PROVE  profiles[p].status = "new" /\ made'[p] = made[p]
    <3>1. /\ profiles'[q] = NewProfile("running") /\ profiles[q].status = "new"
          /\ \A r \in Profiles : r # q => profiles'[r] = profiles[r]
          /\ made' = made
      BY <2>4, StartIs
    <3> QED BY <3>1
  <2>5. ASSUME NEW q \in Profiles, Stop(q)
        PROVE  profiles[p].status = "new" /\ made'[p] = made[p]
    <3>1. /\ profiles'[q].status = "stopped"
          /\ \A r \in Profiles : r # q => profiles'[r] = profiles[r]
          /\ made' = made
      BY <2>5, StopIs
    <3> QED BY <3>1
  <2> QED BY <1>2, <2>1, <2>2, <2>3, <2>4, <2>5, StepIs
<1> QED BY <1>1, <1>2

(* A profile that is new has no objects. *)
LEMMA UnstartedNext ==
  ASSUME AllocInv, Unstarted, [Next]_vars
  PROVE  Unstarted'
BY StatusKept DEF Unstarted

NoneOvercounted == \A p \in Profiles : NotOver(profiles[p], made[p])

(* Steps do not charge an object twice ... *)
LEMMA NoneOvercountedNext ==
  ASSUME KeysDiffer, AllocInv, Unstarted, NoneOvercounted, [Next]_vars
  PROVE  NoneOvercounted'
<1>1. SUFFICES ASSUME NEW p \in Profiles PROVE NotOver(profiles'[p], made'[p])
  BY DEF NoneOvercounted
<1>2. NotOver(profiles[p], made[p]) /\ ProfileOK(profiles[p]) /\ MadeOK(made[p])
  BY DEF NoneOvercounted, AllocInv
<1>3. CASE UNCHANGED vars
  BY <1>2, <1>3 DEF vars
<1>4. ASSUME made' = made,
             \A j \in Keys : \A c, loc :
               ChargedIn(profiles'[p], j, c, loc) = ChargedIn(profiles[p], j, c, loc)
      PROVE  NotOver(profiles'[p], made'[p])
  <2>1. \A c, loc : ChargedSum(profiles'[p], c, loc) = ChargedSum(profiles[p], c, loc)
    BY <1>4, ChargedSumSame
  <2> QED BY <1>2, <1>4, <2>1 DEF NotOver
<1>5. CASE Next
  <2>1. CASE EventStep
    <3>1. PICK event \in {"call", "return", "line"} : \E k \in Methods : \E loc \in Locations :
            Event(event, k, loc)
      BY <2>1 DEF EventStep
    <3>2. PICK k \in Methods : \E loc \in Locations : Event(event, k, loc)
      BY <3>1
    <3>3. PICK loc \in Locations : Event(event, k, loc)
      BY <3>2
    <3>4. SourcesKept(profiles'[p], profiles[p]) /\ made' = made
      BY <3>3, EventIs
    <3> QED BY <1>4, <3>4, EventCharges
  <2>2. CASE UNCHANGED <<made, alone, counter, profiles>>
    BY <1>2, <2>2
  <2>3. ASSUME NEW c \in Classes \cup {Imemo}, Allocate(c)
        PROVE  NotOver(profiles'[p], made'[p])
    <3> DEFINE loc == Here(rstack)
               o == Object(p, c, rstack)
               k == prof_find_method(profiles[p], loc)
               t == profiles[p].thread
    <3>1. /\ p \in Listening => profiles'[p] = NewObject(profiles[p], c, loc)
          /\ p \notin Listening => profiles'[p] = profiles[p]
          /\ made'[p] = IF c # Imemo /\ p \in Running /\ t.stack # <<>>
                        THEN OneMore(made[p], o) ELSE made[p]
          /\ loc \in Locations
      BY <2>3, AllocateIs
    <3>2. o.klass = c /\ o.loc = loc
      BY DEF Object
    <3> HIDE DEF o, loc
    <3>3. ASSUME NEW d \in Classes, NEW at \in Locations
          PROVE  ChargedSum(profiles'[p], d, at) <= MadeIn(made'[p], d, at)
      <4>1. /\ ChargedSum(profiles[p], d, at) <= MadeIn(made[p], d, at)
            /\ ChargedSum(profiles[p], d, at) \in Int
            /\ MadeIn(made[p], d, at) \in Int
            /\ MadeIn(OneMore(made[p], o), d, at)
                 = MadeIn(made[p], d, at) + (IF c = d /\ loc = at THEN 1 ELSE 0)
        BY <1>2, <3>2, ChargedSumIs, MadeOneMore DEF NotOver
      <4>2. CASE p \in Listening /\ c # Imemo /\ k \in Keys
        <5>1. ChargedSum(profiles'[p], d, at)
                = ChargedSum(profiles[p], d, at) + (IF d = c /\ at = loc THEN 1 ELSE 0)
          BY <1>2, <3>1, <4>2, ObjectAddsOne
        <5>2. p \in Running /\ t.stack # <<>>
          <6>1. k # NULL
            BY <4>2, AllocationsAssumption DEF AllocationsAssumption
          <6>2. H!KeysOf(t) \in Seq(Keys) /\ \E i \in 1 .. Len(H!KeysOf(t)) : TRUE
            BY <1>2, <3>1, <6>1, FoundIs
          <6>3. H!KeysOf(t) # <<>>
            BY <6>2
          <6> QED BY <1>2, <3>1, <4>2, <6>3, FoundIs DEF Listening
        <5> QED BY <3>1, <4>1, <4>2, <5>1, <5>2
      <4>3. CASE ~(p \in Listening /\ c # Imemo /\ k \in Keys)
        <5>1. ChargedSum(profiles'[p], d, at) = ChargedSum(profiles[p], d, at)
          <6>1. k \in Keys \/ k = NULL
            BY <1>2, <3>1, FoundIs
          <6>2. profiles'[p] = profiles[p]
            BY <3>1, <4>3, <6>1 DEF NewObject
          <6> QED BY <6>2
        <5>2. MadeIn(made'[p], d, at) >= MadeIn(made[p], d, at)
          BY <3>1, <4>1
        <5> HIDE DEF k
        <5>3. MadeIn(made'[p], d, at) \in Int
          BY <3>1, <4>1
        <5> QED BY <4>1, <5>1, <5>2, <5>3
      <4> QED BY <4>2, <4>3
    <3> QED BY <3>3 DEF NotOver
  <2>4. ASSUME NEW q \in Profiles, Start(q) PROVE NotOver(profiles'[p], made'[p])
    <3>1. /\ profiles'[q] = NewProfile("running")
          /\ \A r \in Profiles : r # q => profiles'[r] = profiles[r]
          /\ made' = made
      BY <2>4, StartIs
    <3>2. CASE p # q
      BY <1>2, <3>1, <3>2
    <3>3. CASE p = q
      <4>1. ProfileOK(profiles'[p]) /\ \A k \in Keys : DOMAIN profiles'[p].allocations[k] = {}
        BY <3>1, <3>3, NewProfileOK
      <4>2. DOMAIN made[p] = {}
        BY <2>4, <3>3, StartIs DEF Unstarted
      <4> QED BY <3>1, <4>1, <4>2, NotOverInit
    <3> QED BY <3>2, <3>3
  <2>5. ASSUME NEW q \in Profiles, Stop(q) PROVE NotOver(profiles'[p], made'[p])
    <3>1. /\ profiles'[q].source = profiles[q].source
          /\ profiles'[q].allocations = profiles[q].allocations
          /\ \A r \in Profiles : r # q => profiles'[r] = profiles[r]
          /\ made' = made
      BY <2>5, StopIs
    <3>2. \A j \in Keys : \A c, loc :
            ChargedIn(profiles'[p], j, c, loc) = ChargedIn(profiles[p], j, c, loc)
      <4>1. profiles'[p].source = profiles[p].source
            /\ profiles'[p].allocations = profiles[p].allocations
        BY <3>1
      <4> QED BY <4>1 DEF ChargedIn
    <3> QED BY <1>4, <3>1, <3>2
  <2> QED BY <1>5, <2>1, <2>2, <2>3, <2>4, <2>5, StepIs
<1> QED BY <1>3, <1>5

(* ... which is what NeverOvercounted says. *)
LEMMA NoneOvercountedIs ==
  ASSUME AllocInv, NoneOvercounted
  PROVE  NeverOvercounted
<1>1. SUFFICES ASSUME NEW p \in Profiles, NEW k \in Keys,
                      NEW key \in DOMAIN profiles[p].allocations[k]
      PROVE  LET table == profiles[p].allocations[k]
                 c == table[key].klass
                 loc == At(profiles[p].source[k].file, table[key].source_line)
             IN  SumFunction([j \in Keys |-> Charged(p, j, c, loc)]) <= MadeAt(p, c, loc)
  BY DEF NeverOvercounted
<1> DEFINE entry == profiles[p].allocations[k][key]
           c == entry.klass
           loc == At(profiles[p].source[k].file, entry.source_line)
<1>2. c \in Classes /\ loc \in Locations
  BY DEF AllocInv, ProfileOK, TableFits, EntryFits, Allocation
<1> HIDE DEF entry, loc
<1>3. ChargedSum(profiles[p], c, loc) <= MadeIn(made[p], c, loc)
  BY <1>2 DEF NoneOvercounted, NotOver
<1>4. MadeIn(made[p], c, loc) = MadeAt(p, c, loc)
  BY DEF MadeIn, MadeAt
<1>5. [j \in Keys |-> Charged(p, j, c, loc)] = [j \in Keys |-> ChargedIn(profiles[p], j, c, loc)]
  BY ChargedIs
<1>6. SumFunction([j \in Keys |-> Charged(p, j, c, loc)]) <= MadeAt(p, c, loc)
  BY <1>3, <1>4, <1>5 DEF ChargedSum
<1> QED BY <1>6 DEF entry, loc

(* As long as the keys of two pairs of a class and a line differ, what a   *)
(* profile has charged to all methods for a class and a place is no more   *)
(* than the objects of that class made there (rp_allocation.c:30,          *)
(* rp_profile.c:319).                                                      *)
THEOREM NeverOvercountedAlways ==
  ASSUME KeysDiffer
  PROVE  Spec => []NeverOvercounted
<1>1. Init => AllocInv /\ Unstarted /\ NoneOvercounted
  <2>1. ASSUME Init PROVE Unstarted /\ NoneOvercounted
    <3>1. Unstarted
      BY <2>1 DEF Init, Unstarted
    <3>2. ASSUME NEW p \in Profiles PROVE NotOver(profiles[p], made[p])
      <4>1. profiles[p] = NewProfile("new") /\ DOMAIN made[p] = {}
        BY <2>1 DEF Init
      <4> QED BY <4>1, NewProfileOK, NotOverInit
    <3> QED BY <3>1, <3>2 DEF NoneOvercounted
  <2> QED BY <2>1, AllocInvInit
<1>2. AllocInv /\ Unstarted /\ NoneOvercounted /\ [Next]_vars
        => AllocInv' /\ Unstarted' /\ NoneOvercounted'
  BY AllocInvNext, UnstartedNext, NoneOvercountedNext
<1>3. AllocInv /\ NoneOvercounted => NeverOvercounted
  BY NoneOvercountedIs
<1> QED BY <1>1, <1>2, <1>3, PTL DEF Spec

-----------------------------------------------------------------------------
(* What a profile that ran alone has measured. *)

(* The objects of a history, and one more. *)
LEMMA MadeSum ==
  ASSUME NEW count, MadeOK(count), NEW o
  PROVE  /\ SumFunction(count) \in Int
         /\ SumFunction(OneMore(count, o)) = SumFunction(count) + 1
         /\ DOMAIN count = {} => SumFunction(count) = 0
<1> DEFINE S == DOMAIN count
           g == OneMore(count, o)
<1>1. /\ IsFiniteSet(S) /\ count \in [S -> Int]
      /\ \A x \in S : count[x] \in Nat
  BY DEF MadeOK
<1>2. /\ SumFunction(count) \in Int
      /\ S = {} => SumFunction(count) = 0
  <2> HIDE DEF S
  <2> QED BY <1>1, SumType
<1>3. /\ DOMAIN g = S \cup {o}
      /\ g[o] = (IF o \in S THEN count[o] ELSE 0) + 1
      /\ \A x \in S : x # o => g[x] = count[x]
      /\ g \in [DOMAIN g -> Nat \ {0}]
  BY OneMoreIs DEF MadeOK
<1> HIDE DEF S, g
<1>4. CASE o \in S
  <2>1. DOMAIN g = S /\ \A x \in S : g[x] = count[x] + (IF x = o THEN 1 ELSE 0)
    BY <1>1, <1>3, <1>4
  <2>2. MovedAt(g, count, S, o, 1)
    BY <1>1, <1>3, <2>1 DEF MovedAt
  <2>3. SumFunction(g) = SumFunction(count) + 1
    BY <1>4, <2>2, SumMoved
  <2> QED BY <1>2, <2>3 DEF g, S
<1>5. CASE o \notin S
  <2>1. g[o] = 1 /\ \A x \in S : g[x] = count[x]
    BY <1>1, <1>3, <1>5
  <2>2. AddedAt(g, count, S, o)
    BY <1>1, <1>3, <1>5, <2>1 DEF AddedAt
  <2>3. SumFunction(g) = SumFunction(count) + 1
    BY <2>1, <2>2, SumAdded
  <2> QED BY <1>2, <2>3 DEF g, S
<1> QED BY <1>4, <1>5

(* A profile that is alone while it runs has measured the objects made     *)
(* since its root was called, and so it has when it has stopped.           *)
AloneOne(p) ==
  /\ p \in Running => Running \cap AllocationMode = {p}
  /\ p \notin Running => profiles[p].thread.stack = <<>>
  /\ profiles[p].thread \in H!RootMeasures(counter, SumFunction(made[p]))

AloneInv == \A p \in alone : AloneOne(p)

(* An event adds nothing to what the root has measured. *)
LEMMA AloneEvent ==
  ASSUME AllocInv, NEW event \in {"call", "return", "line"},
         NEW k \in Methods, NEW loc \in Locations, Event(event, k, loc),
         NEW p \in alone, AloneOne(p)
  PROVE  AloneOne(p)'
<1> DEFINE N == SumFunction(made[p])
           t == profiles[p].thread
           S == H!RootMeasures(counter, N)
<1>1. /\ p \in Profiles /\ p \in AllocationMode /\ counter \in Nat /\ k \in Keys
      /\ ProfileOK(profiles[p]) /\ CodeAt(k, loc)
      /\ UNCHANGED <<made, alone, counter>>
  BY AllocationsAssumption DEF AllocInv, AllocationsAssumption, Event, Keys
<1>2. prof_measure(p) = counter
  BY <1>1 DEF prof_measure
<1>3. Running' = Running
  <2>1. ASSUME NEW q \in Profiles PROVE profiles'[q].status = profiles[q].status
    BY EventIs DEF SourcesKept
  <2> QED BY <2>1 DEF Running
<1>4. t \in S
  BY DEF AloneOne
<1>5. CASE p \notin Running
  <2>1. profiles'[p] = profiles[p]
    BY <1>1, <1>5, EventIs
  <2> QED BY <1>1, <1>3, <1>5, <2>1 DEF AloneOne
<1>6. CASE p \in Running
  <2>1. H!KeptRunning(S, counter)
    BY <1>1, HookAssumption, H!RootMeasuresKept DEF H!RootMeasuresKept
  <2> HIDE DEF S
  <2>2. profiles'[p] = prof_event_hook(profiles[p], event, k, loc, counter)
    BY <1>1, <1>2, <1>6, EventIs
  <2>3. profiles'[p].thread = CASE event = "call" -> Hook!CallEvent(t, k, counter)
                                [] event = "return" -> Hook!ReturnEvent(t, k, counter)
                                [] event = "line" -> Hook!LineEvent(t, k, counter)
    BY <1>1, <2>2, EventKeepsProfile
  <2> HIDE DEF t
  <2>4. /\ Hook!CallEvent(t, k, counter) \in S
        /\ Hook!ReturnEvent(t, k, counter) \in S
        /\ Hook!LineEvent(t, k, counter) \in S
    BY <1>1, <1>4, <2>1, HookKept
  <2>5. profiles'[p].thread \in S
    BY <2>3, <2>4
  <2> QED BY <1>1, <1>3, <1>6, <2>5 DEF AloneOne, S
<1> QED BY <1>5, <1>6

(* An object adds one to the counter, and one to the objects. *)
LEMMA AloneAllocate ==
  ASSUME AllocInv, NEW c \in Classes \cup {Imemo}, Allocate(c), NEW p \in alone, AloneOne(p)
  PROVE  AloneOne(p)'
<1> DEFINE N == SumFunction(made[p])
           t == profiles[p].thread
           n == Cardinality(Listening \cap AllocationMode)
<1>1. /\ p \in Profiles /\ p \in AllocationMode /\ counter \in Nat
      /\ ProfileOK(profiles[p]) /\ MadeOK(made[p])
  BY AllocationsAssumption DEF AllocInv, AllocationsAssumption
<1>2. /\ made'[p] = IF c # Imemo /\ p \in Running /\ t.stack # <<>>
                    THEN OneMore(made[p], Object(p, c, rstack)) ELSE made[p]
      /\ profiles'[p].thread = t
      /\ counter' = IF c = Imemo THEN counter ELSE counter + n
  <2>1. counter' = IF c = Imemo THEN counter ELSE counter + n
    BY DEF Allocate, measure_allocations
  <2> QED BY <1>1, <2>1, AllocateIs
<1>3. Running' = Running
  <2>1. ASSUME NEW q \in Profiles PROVE profiles'[q].status = profiles[q].status
    BY AllocateIs
  <2> QED BY <2>1 DEF Running
<1>4. /\ t \in H!RootMeasures(counter, N)
      /\ p \in Running => Running \cap AllocationMode = {p}
      /\ p \notin Running => t.stack = <<>>
  BY DEF AloneOne
<1>5. N \in Int /\ SumFunction(OneMore(made[p], Object(p, c, rstack))) = N + 1
  BY <1>1, MadeSum
<1>6. n \in Nat /\ (p \in Running => n = 1)
  <2>1. IsFiniteSet(Listening \cap AllocationMode)
    <3>1. IsFiniteSet(Profiles) /\ Listening \cap AllocationMode \subseteq Profiles
      BY AllocationsAssumption DEF AllocationsAssumption
    <3> QED BY <3>1, FS_Subset
  <2>2. n \in Nat
    BY <2>1, FS_CardinalityType
  <2>3. ASSUME p \in Running PROVE n = 1
    <3>1. Listening \cap AllocationMode = {p}
      BY <1>4, <2>3 DEF Listening, track_allocations
    <3> QED BY <3>1, FS_Singleton
  <2> QED BY <2>2, <2>3
<1>7. H!Marked(t.stack, FALSE)
  BY <1>1 DEF ProfileOK, ThreadFine
<1> DEFINE one == IF t.stack # <<>> THEN n ELSE 0
<1>8. t \in H!RootMeasures(counter + n, N + one)
  <2> HIDE DEF n, t, N
  <2> QED BY <1>1, <1>4, <1>5, <1>6, <1>7, HookAssumption, H!RootMeasuresLater
        DEF H!RootMeasuresLater
<1>9. CASE c = Imemo
  BY <1>2, <1>3, <1>4, <1>9 DEF AloneOne
<1>10. CASE c # Imemo
  <2>1. SumFunction(made'[p]) = N + one
    <3>1. CASE t.stack = <<>>
      BY <1>2, <1>5, <3>1
    <3>2. CASE t.stack # <<>>
      BY <1>2, <1>4, <1>5, <1>6, <1>10, <3>2
    <3> QED BY <3>1, <3>2
  <2> HIDE DEF n, one, N, t
  <2> QED BY <1>2, <1>3, <1>4, <1>8, <1>10, <2>1 DEF AloneOne, t
<1> QED BY <1>9, <1>10

(* A profile that is alone stays exact. *)
LEMMA AloneInvNext ==
  ASSUME AllocInv, Unstarted, AloneInv, [Next]_vars
  PROVE  AloneInv'
<1>1. SUFFICES ASSUME NEW p \in alone' PROVE AloneOne(p)'
  BY DEF AloneInv
<1>2. \A q \in alone : AloneOne(q)
  BY DEF AloneInv
<1>3. /\ counter \in Nat /\ alone \subseteq AllocationMode /\ AllocationMode \subseteq Profiles
      /\ \A q \in Profiles : ProfileOK(profiles[q]) /\ MadeOK(made[q])
  BY AllocationsAssumption DEF AllocInv, AllocationsAssumption
<1>4. ASSUME UNCHANGED <<made, alone, counter, profiles>> PROVE AloneOne(p)'
  <2>1. AloneOne(p) /\ Running' = Running
    BY <1>2, <1>4 DEF Running
  <2> QED BY <1>4, <2>1 DEF AloneOne
<1>5. CASE UNCHANGED vars
  BY <1>4, <1>5 DEF vars
<1>6. CASE Next
  <2>1. CASE EventStep
    <3>1. PICK event \in {"call", "return", "line"} : \E k \in Methods : \E loc \in Locations :
            Event(event, k, loc)
      BY <2>1 DEF EventStep
    <3>2. PICK k \in Methods : \E loc \in Locations : Event(event, k, loc)
      BY <3>1
    <3>3. PICK loc \in Locations : Event(event, k, loc)
      BY <3>2
    <3>4. p \in alone /\ AloneOne(p)
      BY <1>2, <3>3 DEF Event
    <3> QED BY <3>3, <3>4, AloneEvent
  <2>2. ASSUME NEW c \in Classes \cup {Imemo}, Allocate(c) PROVE AloneOne(p)'
    <3>1. p \in alone /\ AloneOne(p)
      BY <1>2, <2>2 DEF Allocate
    <3> QED BY <2>2, <3>1, AloneAllocate
  <2>3. ASSUME NEW q \in Profiles, Start(q) PROVE AloneOne(p)'
    <3>1. /\ profiles[q].status = "new"
          /\ profiles'[q] = NewProfile("running")
          /\ \A r \in Profiles : r # q => profiles'[r] = profiles[r]
          /\ alone' = AloneAfterStart(q)
          /\ made' = made /\ counter' = counter
      BY <2>3, StartIs
    <3>2. Running' = Running \cup {q}
      BY <3>1, NewProfileOK DEF Running
    <3>3. CASE p = q
      <4>1. q \in AllocationMode /\ Running \cap AllocationMode = {}
        BY <1>3, <3>1, <3>3 DEF AloneAfterStart
      <4>2. Running' \cap AllocationMode = {p}
        BY <3>2, <3>3, <4>1
      <4>3. SumFunction(made[p]) = 0
        BY <1>3, <3>1, <3>3, MadeSum DEF Unstarted
      <4>4. profiles'[p].thread = thread_data_create(TRUE)
        BY <3>1, <3>3, NewProfileOK
      <4>5. thread_data_create(TRUE) \in H!RootMeasures(counter, 0)
        <5>1. TRUE \in BOOLEAN
          OBVIOUS
        <5>2. H!thread_data_create(TRUE) \in H!RootMeasures(counter, 0)
          BY <5>1, HookAssumption, H!NewRootMeasures DEF H!NewRootMeasures
        <5> QED BY <5>2, SameOperators
      <4> QED BY <3>1, <3>2, <3>3, <4>2, <4>3, <4>4, <4>5 DEF AloneOne
    <3>4. CASE p # q
      <4>1. p \in alone /\ (q \in AllocationMode => p \notin Running)
        BY <1>3, <3>1, <3>4 DEF AloneAfterStart
      <4>2. AloneOne(p) /\ profiles'[p] = profiles[p]
        BY <1>2, <1>3, <3>1, <3>4, <4>1
      <4>3. p \in Running' =>
              p \in Running /\ Running' \cap AllocationMode = Running \cap AllocationMode
        BY <3>2, <3>4, <4>1
      <4>4. p \notin Running' => p \notin Running
        BY <3>2
      <4> QED BY <3>1, <4>2, <4>3, <4>4 DEF AloneOne
    <3> QED BY <3>3, <3>4
  <2>4. ASSUME NEW q \in Profiles, Stop(q) PROVE AloneOne(p)'
    <3>1. /\ q \in Running
          /\ profiles'[q].status = "stopped"
          /\ profiles'[q].thread = PopAll(profiles[q].thread, prof_measure(q))
          /\ profiles'[q].thread.stack = <<>>
          /\ \A r \in Profiles : r # q => profiles'[r] = profiles[r]
          /\ UNCHANGED <<made, alone, counter>>
      BY <2>4, StopIs
    <3>2. Running' = Running \ {q}
      BY <3>1 DEF Running
    <3>3. p \in alone /\ AloneOne(p)
      BY <1>2, <3>1
    <3>4. CASE p # q
      <4>1. profiles'[p] = profiles[p]
        BY <1>3, <3>1, <3>3, <3>4
      <4>2. p \in Running' => p \in Running /\ Running' \cap AllocationMode = {p}
        BY <3>2, <3>3, <3>4 DEF AloneOne
      <4>3. p \notin Running' => p \notin Running
        BY <3>2, <3>4
      <4> QED BY <3>1, <3>3, <4>1, <4>2, <4>3 DEF AloneOne
    <3>5. CASE p = q
      <4> DEFINE S == H!RootMeasures(counter, SumFunction(made[p]))
                 t == profiles[p].thread
      <4>1. t \in S
        BY <3>3 DEF AloneOne
      <4>2. H!KeptRunning(S, counter)
        BY <1>3, HookAssumption, H!RootMeasuresKept DEF H!RootMeasuresKept
      <4>3. prof_measure(p) = counter /\ InsertedParent \in Keys
        BY <1>3, <3>3 DEF prof_measure, Keys
      <4> HIDE DEF S, t
      <4>4. PopAll(t, counter) \in S
        BY <1>3, <4>1, <4>2, <4>3, HookKept
      <4>5. profiles'[p].thread \in S
        BY <3>1, <3>5, <4>3, <4>4 DEF t
      <4> QED BY <3>1, <3>2, <3>5, <4>5 DEF AloneOne, S
    <3> QED BY <3>4, <3>5
  <2> QED BY <1>4, <1>6, <2>1, <2>2, <2>3, <2>4, StepIs
<1> QED BY <1>5, <1>6

(* When it stops, the root has its total. *)
LEMMA AloneIs ==
  ASSUME AllocInv, AloneInv
  PROVE  AloneMeasuresExactly
<1>1. SUFFICES ASSUME NEW p \in alone \ Running, profiles[p].thread.call_tree # NULL
      PROVE  LET t == profiles[p].thread IN
             t.nodes[t.call_tree].total_time = SumFunction(made[p])
  BY DEF AloneMeasuresExactly
<1> DEFINE t == profiles[p].thread
           a == t.nodes[t.call_tree].total_time
           N == SumFunction(made[p])
<1>2. t.stack = <<>> /\ t \in H!RootMeasures(counter, N)
  BY DEF AloneInv, AloneOne
<1>3. H!RootTotal(t, counter) = N /\ t \in H!Counted
  BY <1>2 DEF H!RootMeasures
<1> HIDE DEF N
<1>4. N = a + 0
  BY <1>1, <1>2, <1>3, SameOperators DEF H!RootTotal
<1>5. a \in Int
  <2>1. t \in H!Thread /\ H!RootedTree(t)
    BY <1>3 DEF H!Counted, H!ThreadOK
  <2> HIDE DEF t
  <2>2. H!Nodes(t) = 1 .. Len(t.nodes) /\ t.nodes \in Seq(H!Node)
        /\ \A n \in H!Nodes(t) : t.nodes[n] \in H!Node
    BY <2>1, HookAssumption, H!NodesAre DEF H!NodesAre
  <2>3. t.call_tree \in H!Nodes(t)
    BY <1>1, <2>1, SameOperators DEF H!RootedTree, t
  <2>4. t.nodes[t.call_tree] \in H!Node
    BY <2>2, <2>3
  <2> QED BY <2>4 DEF H!Node
<1> HIDE DEF a
<1>6. a = N
  BY <1>4, <1>5
<1> QED BY <1>6 DEF a, N

(* The counter of allocations belongs to the process, and every profile    *)
(* that measures allocations advances it (rp_measure_allocations.c:12).    *)
(* Yet a profile that ran without another such profile has measured just   *)
(* the objects made under its root.                                        *)
THEOREM AloneMeasuresExactlyAlways == Spec => []AloneMeasuresExactly
<1>1. Init => AllocInv /\ Unstarted /\ AloneInv
  BY AllocInvInit DEF Init, Unstarted, AloneInv
<1>2. AllocInv /\ Unstarted /\ AloneInv /\ [Next]_vars
        => AllocInv' /\ Unstarted' /\ AloneInv'
  BY AllocInvNext, UnstartedNext, AloneInvNext
<1>3. AllocInv /\ AloneInv => AloneMeasuresExactly
  BY AloneIs
<1> QED BY <1>1, <1>2, <1>3, PTL DEF Spec

-----------------------------------------------------------------------------
(* Where objects are charged. The frames of a profile stand for the calls  *)
(* on the program's stack that it has been told of.                        *)

(* A call, not a block, that the profile p has been told of. *)
Visible(r, p, j) == ~r[j].block /\ p \in r[j].told

(* The keys of the frames are the methods of these calls, in their order:  *)
(* frame i is the call at pos[i]. A frame at 0 is not for any call. It can *)
(* only be the first one.                                                  *)
Mirrors(keys, r, p, pos) ==
  /\ pos \in [1 .. Len(keys) -> 0 .. Len(r)]
  /\ \A i, j \in 1 .. Len(keys) : i < j => pos[i] < pos[j]
  /\ \A i \in 1 .. Len(keys) :
       pos[i] > 0 => Visible(r, p, pos[i]) /\ r[pos[i]].method = keys[i]
  /\ \A j \in 1 .. Len(r) : Visible(r, p, j) => \E i \in 1 .. Len(keys) : pos[i] = j

Mirrored(keys, r, p) == \E pos : Mirrors(keys, r, p, pos)

(* A profile that has been told of a call is told of all calls above it. *)
ToldAbove(r, p) ==
  \A i, j \in 1 .. Len(r) : i < j /\ Visible(r, p, i) /\ ~r[j].block => Visible(r, p, j)

(* A block is above a call of its method that is told to the same profiles. *)
BlocksInMethods(r) ==
  \A j \in 1 .. Len(r) : r[j].block =>
    \E i \in 1 .. Len(r) :
      i < j /\ ~r[i].block /\ r[i].method = r[j].method /\ r[i].told = r[j].told

(* The entries of s up to n are those of r, but for lines. *)
SameCalls(s, r, n) ==
  \A i \in 1 .. n :
    s[i].method = r[i].method /\ s[i].block = r[i].block /\ s[i].told = r[i].told

(* A call that is told has a frame on top. *)
LEMMA MirrorsPush ==
  ASSUME NEW keys \in Seq(Keys), NEW k \in Keys, NEW p,
         NEW r, NEW s, Len(r) \in Nat, Len(s) = Len(r) + 1, SameCalls(s, r, Len(r)),
         Visible(s, p, Len(s)), s[Len(s)].method = k, Mirrored(keys, r, p)
  PROVE  Mirrored(Append(keys, k), s, p)
<1> DEFINE n == Len(r)
           l == Len(keys)
           ks == Append(keys, k)
<1>1. PICK pos : Mirrors(keys, r, p, pos)
  BY DEF Mirrored
<1> DEFINE q == [i \in 1 .. l + 1 |-> IF i \in 1 .. l THEN pos[i] ELSE n + 1]
<1>2. /\ Len(ks) = l + 1 /\ l \in Nat /\ ks[l + 1] = k
      /\ \A i \in 1 .. l : ks[i] = keys[i]
  OBVIOUS
<1>3. /\ pos \in [1 .. l -> 0 .. n]
      /\ \A i, j \in 1 .. l : i < j => pos[i] < pos[j]
      /\ \A i \in 1 .. l : pos[i] > 0 => Visible(r, p, pos[i]) /\ r[pos[i]].method = keys[i]
      /\ \A j \in 1 .. n : Visible(r, p, j) => \E i \in 1 .. l : pos[i] = j
  BY <1>1 DEF Mirrors
<1> HIDE DEF l, n, ks
<1>4. /\ q \in [1 .. l + 1 -> 0 .. n + 1] /\ q[l + 1] = n + 1
      /\ \A i \in 1 .. l : q[i] = pos[i] /\ pos[i] \in 0 .. n
  BY <1>2, <1>3 DEF n
<1> HIDE DEF q
<1>5. \A i \in 1 .. l + 1 : i \in 1 .. l \/ i = l + 1
  BY <1>2
<1>6. \A j \in 1 .. n : /\ Visible(s, p, j) <=> Visible(r, p, j)
                        /\ s[j].method = r[j].method
  BY DEF SameCalls, Visible, n
<1>7. \A i, j \in 1 .. l + 1 : i < j => q[i] < q[j]
  <2>1. SUFFICES ASSUME NEW i \in 1 .. l + 1, NEW j \in 1 .. l + 1, i < j
                 PROVE  q[i] < q[j]
    OBVIOUS
  <2>2. i \in 1 .. l
    BY <1>2, <2>1
  <2>3. CASE j \in 1 .. l
    BY <1>3, <1>4, <2>1, <2>2, <2>3
  <2>4. CASE j = l + 1
    BY <1>4, <2>2, <2>4 DEF n
  <2> QED BY <1>5, <2>3, <2>4
<1>8. ASSUME NEW i \in 1 .. l + 1, q[i] > 0
      PROVE  Visible(s, p, q[i]) /\ s[q[i]].method = ks[i]
  <2>1. CASE i \in 1 .. l
    <3>1. q[i] = pos[i] /\ pos[i] \in 1 .. n
      BY <1>4, <1>8, <2>1 DEF n
    <3> QED BY <1>2, <1>3, <1>6, <1>8, <2>1, <3>1
  <2>2. CASE i = l + 1
    BY <1>2, <1>4, <2>2 DEF n
  <2> QED BY <1>5, <2>1, <2>2
<1>9. ASSUME NEW j \in 1 .. n + 1, Visible(s, p, j)
      PROVE  \E i \in 1 .. l + 1 : q[i] = j
  <2>1. CASE j = n + 1
    BY <1>2, <1>4, <2>1
  <2>2. CASE j # n + 1
    <3>1. j \in 1 .. n
      BY <2>2 DEF n
    <3>2. PICK i \in 1 .. l : pos[i] = j
      BY <1>3, <1>6, <1>9, <3>1
    <3>3. i \in 1 .. l + 1 /\ q[i] = j
      BY <1>2, <1>4, <3>2
    <3> QED BY <3>3
  <2> QED BY <2>1, <2>2
<1>10. Mirrors(ks, s, p, q)
  BY <1>2, <1>4, <1>7, <1>8, <1>9 DEF Mirrors, n
<1> QED BY <1>10 DEF Mirrored, ks

(* A frame for no call is put on an empty stack. *)
LEMMA MirrorsBase ==
  ASSUME NEW r, Len(r) \in Nat, NEW p, NEW k \in Keys, Mirrored(<<>>, r, p)
  PROVE  Mirrored(<<k>>, r, p)
<1> DEFINE q == [i \in 1 .. 1 |-> 0]
<1>1. PICK pos : Mirrors(<<>>, r, p, pos)
  BY DEF Mirrored
<1>2. \A j \in 1 .. Len(r) : ~Visible(r, p, j)
  BY <1>1 DEF Mirrors
<1>3. Len(<<k>>) = 1 /\ q \in [1 .. 1 -> 0 .. Len(r)] /\ \A i \in 1 .. 1 : q[i] = 0
  OBVIOUS
<1> HIDE DEF q
<1>4. \A i, j \in 1 .. 1 : ~(i < j)
  OBVIOUS
<1>5. Mirrors(<<k>>, r, p, q)
  BY <1>2, <1>3, <1>4 DEF Mirrors
<1> QED BY <1>5 DEF Mirrored

(* A call that returns takes the top frame with it, whether it is told or  *)
(* not: if it is not, no call below is, and the frame is for no call.      *)
LEMMA MirrorsPop ==
  ASSUME NEW keys \in Seq(Keys), NEW new \in Seq(Keys), H!Returned(new, keys), NEW p,
         NEW r, NEW s, Len(s) \in Nat, Len(r) = Len(s) + 1, SameCalls(s, r, Len(s)),
         ~r[Len(r)].block, ToldAbove(r, p), Mirrored(keys, r, p)
  PROVE  Mirrored(new, s, p)
<1> DEFINE n == Len(s)
           l == Len(keys)
<1>1. PICK pos : Mirrors(keys, r, p, pos)
  BY DEF Mirrored
<1>2. /\ pos \in [1 .. l -> 0 .. n + 1]
      /\ \A i, j \in 1 .. l : i < j => pos[i] < pos[j]
      /\ \A i \in 1 .. l : pos[i] > 0 => Visible(r, p, pos[i]) /\ r[pos[i]].method = keys[i]
      /\ \A j \in 1 .. n + 1 : Visible(r, p, j) => \E i \in 1 .. l : pos[i] = j
  BY <1>1 DEF Mirrors
<1>3. \A j \in 1 .. n : /\ Visible(s, p, j) <=> Visible(r, p, j)
                        /\ s[j].method = r[j].method
  BY DEF SameCalls, Visible
<1>4. l \in Nat /\ n \in Nat /\ Len(new) \in Nat
  OBVIOUS
<1>5. CASE keys = <<>>
  <2>1. new = <<>> /\ l = 0
    BY <1>5 DEF H!Returned
  <2>2. \A j \in 1 .. n : ~Visible(s, p, j)
    BY <1>2, <1>3, <1>4, <2>1
  <2> DEFINE q == [i \in {} |-> 0]
  <2>3. Len(new) = 0 /\ 1 .. Len(new) = {} /\ q \in [1 .. Len(new) -> 0 .. n]
    BY <2>1
  <2> HIDE DEF q
  <2>4. Mirrors(new, s, p, q)
    BY <2>2, <2>3 DEF Mirrors
  <2> QED BY <2>4 DEF Mirrored
<1>6. CASE keys # <<>>
  <2>1. PICK k \in H!Keys : keys = Append(new, k)
    BY <1>6 DEF H!Returned
  <2>2. /\ l = Len(new) + 1
        /\ \A i \in 1 .. Len(new) : keys[i] = new[i] /\ i \in 1 .. l /\ i < l
    BY <1>4, <2>1
  <2> DEFINE q == [i \in 1 .. Len(new) |-> pos[i]]
  <2> HIDE DEF l, n
  <2>3. \A i \in 1 .. Len(new) : pos[i] \in 0 .. n
    <3>1. ASSUME NEW i \in 1 .. Len(new) PROVE pos[i] \in 0 .. n
      <4>1. i \in 1 .. l /\ l \in 1 .. l /\ i < l
        BY <1>4, <2>2
      <4>2. pos[i] < pos[l] /\ pos[i] \in 0 .. n + 1 /\ pos[l] \in 0 .. n + 1
        BY <1>2, <4>1
      <4> QED BY <1>4, <4>2
    <3> QED BY <3>1
  <2>4. q \in [1 .. Len(new) -> 0 .. n] /\ \A i \in 1 .. Len(new) : q[i] = pos[i]
    BY <2>3
  <2> HIDE DEF q
  <2>5. \A i, j \in 1 .. Len(new) : i < j => q[i] < q[j]
    BY <1>2, <2>2, <2>4
  <2>6. ASSUME NEW i \in 1 .. Len(new), q[i] > 0
        PROVE  Visible(s, p, q[i]) /\ s[q[i]].method = new[i]
    <3>1. q[i] = pos[i] /\ pos[i] \in 1 .. n /\ i \in 1 .. l /\ keys[i] = new[i]
      BY <1>4, <2>2, <2>3, <2>4, <2>6
    <3> QED BY <1>2, <1>3, <2>6, <3>1
  <2>7. ASSUME NEW j \in 1 .. n, Visible(s, p, j)
        PROVE  \E i \in 1 .. Len(new) : q[i] = j
    <3>1. Visible(r, p, j) /\ j \in 1 .. n + 1 /\ n + 1 \in 1 .. n + 1 /\ j < n + 1
      BY <1>3, <1>4, <2>7
    <3>2. Visible(r, p, n + 1)
      BY <3>1 DEF ToldAbove, n
    <3>3. PICK i \in 1 .. l : pos[i] = j
      BY <1>2, <3>1
    <3>4. PICK top \in 1 .. l : pos[top] = n + 1
      BY <1>2, <3>1, <3>2
    <3>5. i # l
      <4>1. SUFFICES ASSUME i = l PROVE FALSE
        OBVIOUS
      <4>2. top < i
        BY <1>4, <3>1, <3>3, <3>4, <4>1
      <4>3. pos[top] < pos[i]
        BY <1>2, <4>2
      <4> QED BY <1>4, <3>3, <3>4, <4>3
    <3>6. i \in 1 .. Len(new)
      BY <1>4, <2>2, <3>5
    <3> QED BY <2>4, <3>3, <3>6
  <2>8. Mirrors(new, s, p, q)
    BY <2>4, <2>5, <2>6, <2>7 DEF Mirrors, n
  <2> QED BY <2>8 DEF Mirrored
<1> QED BY <1>5, <1>6

(* Blocks have no frames: they come and go without a trace. *)
LEMMA MirrorsBlock ==
  ASSUME NEW keys \in Seq(Keys), NEW p,
         NEW r, NEW s, Len(r) \in Nat, Len(s) = Len(r) + 1, SameCalls(s, r, Len(r)),
         s[Len(s)].block
  PROVE  Mirrored(keys, r, p) <=> Mirrored(keys, s, p)
<1> DEFINE n == Len(r)
<1>1. \A j \in 1 .. n : /\ Visible(s, p, j) <=> Visible(r, p, j)
                        /\ s[j].method = r[j].method
  BY DEF SameCalls, Visible
<1>2. ~Visible(s, p, n + 1)
  BY DEF Visible
<1>3. Len(keys) \in Nat
  OBVIOUS
<1>4. ASSUME NEW pos, Mirrors(keys, r, p, pos) PROVE Mirrors(keys, s, p, pos)
  <2>1. /\ pos \in [1 .. Len(keys) -> 0 .. n]
        /\ \A i, j \in 1 .. Len(keys) : i < j => pos[i] < pos[j]
        /\ \A i \in 1 .. Len(keys) :
             pos[i] > 0 => Visible(r, p, pos[i]) /\ r[pos[i]].method = keys[i]
        /\ \A j \in 1 .. n : Visible(r, p, j) => \E i \in 1 .. Len(keys) : pos[i] = j
    BY <1>4 DEF Mirrors
  <2>2. \A i \in 1 .. Len(keys) : pos[i] > 0 => pos[i] \in 1 .. n
    BY <2>1
  <2>3. pos \in [1 .. Len(keys) -> 0 .. n + 1]
    BY <2>1
  <2>4. \A j \in 1 .. n + 1 : Visible(s, p, j) => j \in 1 .. n
    BY <1>2
  <2>5. \A i \in 1 .. Len(keys) :
          pos[i] > 0 => Visible(s, p, pos[i]) /\ s[pos[i]].method = keys[i]
    BY <1>1, <2>1, <2>2
  <2>6. \A j \in 1 .. n + 1 : Visible(s, p, j) => \E i \in 1 .. Len(keys) : pos[i] = j
    BY <1>1, <2>1, <2>4
  <2> QED BY <2>1, <2>3, <2>5, <2>6 DEF Mirrors
<1>5. ASSUME NEW pos, Mirrors(keys, s, p, pos) PROVE Mirrors(keys, r, p, pos)
  <2>1. /\ pos \in [1 .. Len(keys) -> 0 .. n + 1]
        /\ \A i, j \in 1 .. Len(keys) : i < j => pos[i] < pos[j]
        /\ \A i \in 1 .. Len(keys) :
             pos[i] > 0 => Visible(s, p, pos[i]) /\ s[pos[i]].method = keys[i]
        /\ \A j \in 1 .. n + 1 : Visible(s, p, j) => \E i \in 1 .. Len(keys) : pos[i] = j
    BY <1>5 DEF Mirrors
  <2>2. \A i \in 1 .. Len(keys) : pos[i] \in 0 .. n /\ (pos[i] > 0 => pos[i] \in 1 .. n)
    <3>1. ASSUME NEW i \in 1 .. Len(keys) PROVE pos[i] \in 0 .. n
      <4>1. pos[i] \in 0 .. n + 1 /\ pos[i] # n + 1
        BY <1>2, <2>1
      <4> QED BY <4>1
    <3> QED BY <3>1
  <2>3. pos \in [1 .. Len(keys) -> 0 .. n]
    BY <2>1, <2>2
  <2>4. \A i \in 1 .. Len(keys) :
          pos[i] > 0 => Visible(r, p, pos[i]) /\ r[pos[i]].method = keys[i]
    BY <1>1, <2>1, <2>2
  <2>5. \A j \in 1 .. n : Visible(r, p, j) => \E i \in 1 .. Len(keys) : pos[i] = j
    BY <1>1, <2>1
  <2> QED BY <2>1, <2>3, <2>4, <2>5 DEF Mirrors
<1> QED BY <1>4, <1>5 DEF Mirrored

(* Nor do lines matter. *)
LEMMA MirrorsSame ==
  ASSUME NEW keys, NEW p, NEW r, NEW s, Len(s) = Len(r), SameCalls(s, r, Len(r)),
         Mirrored(keys, r, p)
  PROVE  Mirrored(keys, s, p)
<1>1. PICK pos : Mirrors(keys, r, p, pos)
  BY DEF Mirrored
<1>2. \A j \in 1 .. Len(r) : /\ Visible(s, p, j) <=> Visible(r, p, j)
                             /\ s[j].method = r[j].method
  BY DEF SameCalls, Visible
<1>3. /\ pos \in [1 .. Len(keys) -> 0 .. Len(r)]
      /\ \A i \in 1 .. Len(keys) : pos[i] > 0 => pos[i] \in 1 .. Len(r)
  BY <1>1 DEF Mirrors
<1>4. Mirrors(keys, s, p, pos)
  BY <1>1, <1>2, <1>3 DEF Mirrors
<1> QED BY <1>4 DEF Mirrored

(* The shape of the program's stack is kept: by what is put on it ...      *)
LEMMA ShapeOfPush ==
  ASSUME NEW r, NEW s, Len(r) \in Nat, Len(s) = Len(r) + 1, SameCalls(s, r, Len(r))
  PROVE  /\ \A p : ToldAbove(r, p) /\ (s[Len(s)].block \/ p \in s[Len(s)].told)
                     => ToldAbove(s, p)
         /\ BlocksInMethods(r) /\ (s[Len(s)].block => \E i \in 1 .. Len(r) :
                r[i].method = s[Len(s)].method /\ r[i].told = s[Len(s)].told)
              => BlocksInMethods(s)
<1> DEFINE n == Len(r)
<1>1. \A j \in 1 .. n : /\ s[j].method = r[j].method /\ s[j].block = r[j].block
                        /\ s[j].told = r[j].told
  BY DEF SameCalls
<1>2. \A j \in 1 .. Len(s) : j \in 1 .. n \/ j = n + 1
  OBVIOUS
<1>3. ASSUME NEW p, ToldAbove(r, p), s[n + 1].block \/ p \in s[n + 1].told
      PROVE  ToldAbove(s, p)
  <2>1. SUFFICES ASSUME NEW i \in 1 .. Len(s), NEW j \in 1 .. Len(s), i < j,
                        Visible(s, p, i), ~s[j].block
                 PROVE  Visible(s, p, j)
    BY DEF ToldAbove
  <2>2. i \in 1 .. n
    BY <2>1
  <2>3. CASE j \in 1 .. n
    BY <1>1, <1>3, <2>1, <2>2, <2>3 DEF ToldAbove, Visible
  <2>4. CASE j = n + 1
    BY <1>3, <2>1, <2>4 DEF Visible
  <2> QED BY <1>2, <2>3, <2>4
<1>4. ASSUME BlocksInMethods(r), NEW j \in 1 .. n, r[j].block
      PROVE  \E i \in 1 .. n : /\ i < j /\ ~s[i].block
                               /\ s[i].method = r[j].method /\ s[i].told = r[j].told
  <2>1. PICK i \in 1 .. n : i < j /\ ~r[i].block /\ r[i].method = r[j].method
                            /\ r[i].told = r[j].told
    BY <1>4 DEF BlocksInMethods
  <2> QED BY <1>1, <2>1
<1>5. ASSUME BlocksInMethods(r), s[n + 1].block => \E i \in 1 .. n :
               r[i].method = s[n + 1].method /\ r[i].told = s[n + 1].told
      PROVE  BlocksInMethods(s)
  <2>1. SUFFICES ASSUME NEW j \in 1 .. Len(s), s[j].block
                 PROVE  \E i \in 1 .. Len(s) : /\ i < j /\ ~s[i].block
                          /\ s[i].method = s[j].method /\ s[i].told = s[j].told
    BY DEF BlocksInMethods
  <2>2. CASE j \in 1 .. n
    <3>1. PICK i \in 1 .. n : /\ i < j /\ ~s[i].block
                              /\ s[i].method = r[j].method /\ s[i].told = r[j].told
      BY <1>1, <1>4, <1>5, <2>1, <2>2
    <3>2. i \in 1 .. Len(s)
      OBVIOUS
    <3> QED BY <1>1, <2>2, <3>1, <3>2
  <2>3. CASE j = n + 1
    <3>1. PICK i \in 1 .. n : r[i].method = s[j].method /\ r[i].told = s[j].told
      BY <1>5, <2>1, <2>3
    <3>2. CASE ~r[i].block
      <4>1. i \in 1 .. Len(s) /\ i < j
        BY <2>3
      <4> QED BY <1>1, <3>1, <3>2, <4>1
    <3>3. CASE r[i].block
      <4>1. PICK h \in 1 .. n : /\ h < i /\ ~s[h].block
                                /\ s[h].method = r[i].method /\ s[h].told = r[i].told
        BY <1>4, <1>5, <3>3
      <4>2. h \in 1 .. Len(s) /\ h < j
        BY <2>3
      <4> QED BY <3>1, <4>1, <4>2
    <3> QED BY <3>2, <3>3
  <2> QED BY <1>2, <2>2, <2>3
<1> QED BY <1>3, <1>5

(* ... and by what is taken from it. *)
LEMMA ShapeOfPrefix ==
  ASSUME NEW r, NEW s, Len(r) \in Nat, Len(s) \in 0 .. Len(r), SameCalls(s, r, Len(s))
  PROVE  /\ \A p : ToldAbove(r, p) => ToldAbove(s, p)
         /\ BlocksInMethods(r) => BlocksInMethods(s)
<1>1. \A j \in 1 .. Len(s) : /\ s[j].method = r[j].method /\ s[j].block = r[j].block
                             /\ s[j].told = r[j].told /\ j \in 1 .. Len(r)
  BY DEF SameCalls
<1>2. ASSUME NEW p, ToldAbove(r, p) PROVE ToldAbove(s, p)
  BY <1>1, <1>2 DEF ToldAbove, Visible
<1>3. ASSUME BlocksInMethods(r) PROVE BlocksInMethods(s)
  <2>1. SUFFICES ASSUME NEW j \in 1 .. Len(s), s[j].block
                 PROVE  \E i \in 1 .. Len(s) : /\ i < j /\ ~s[i].block
                          /\ s[i].method = s[j].method /\ s[i].told = s[j].told
    BY DEF BlocksInMethods
  <2>2. PICK i \in 1 .. Len(r) : /\ i < j /\ ~r[i].block
                                 /\ r[i].method = r[j].method /\ r[i].told = r[j].told
    BY <1>1, <1>3, <2>1 DEF BlocksInMethods
  <2>3. i \in 1 .. Len(s)
    BY <2>2
  <2> QED BY <1>1, <2>2, <2>3
<1> QED BY <1>2, <1>3

(* What events do to the keys of the frames. *)
LEMMA EventKeys ==
  ASSUME NEW t, ThreadFine(t), NEW k \in Keys, NEW m \in Nat
  PROVE  /\ H!KeysOf(t) \in Seq(Keys)
         /\ H!Called(H!KeysOf(Hook!CallEvent(t, k, m)), H!KeysOf(t), k)
         /\ H!Returned(H!KeysOf(Hook!ReturnEvent(t, k, m)), H!KeysOf(t))
         /\ H!Lined(H!KeysOf(Hook!LineEvent(t, k, m)), H!KeysOf(t), k)
<1>1. k \in H!Keys /\ FALSE \in BOOLEAN /\ H!ThreadOK(t)
  BY SameOperators DEF ThreadFine
<1>2. H!KeysOf(t) \in Seq(Keys)
  BY <1>1, SameOperators, HookAssumption, H!KeysTyped DEF H!KeysTyped
<1>3. H!Called(H!KeysOf(H!CallEvent(t, k, m)), H!KeysOf(t), k)
  BY <1>1, HookAssumption, H!CallKeys DEF H!CallKeys
<1>4. H!Lined(H!KeysOf(H!LineEvent(t, k, m)), H!KeysOf(t), k)
  BY <1>1, HookAssumption, H!LineKeys DEF H!LineKeys
<1>5. H!Returned(H!KeysOf(H!ReturnEvent(t, k, m)), H!KeysOf(t))
  <2> DEFINE v == H!create_method(t, k)
  <2>1. H!HasKeys(v, t, H!KeysOf(t))
    BY <1>1, HookAssumption, H!MethodKeys DEF H!MethodKeys
  <2>2. H!ThreadOK(v) /\ H!KeysOf(v) = H!KeysOf(t)
    BY <2>1 DEF H!HasKeys
  <2> HIDE DEF v
  <2>3. H!Returned(H!KeysOf(H!prof_frame_pop(v, m)), H!KeysOf(v))
    BY <2>2, HookAssumption, H!PopKeys DEF H!PopKeys
  <2> QED BY <2>2, <2>3 DEF H!ReturnEvent, v
<1> QED BY <1>2, <1>3, <1>4, <1>5, SameCall, SameLine, SameReturn

(* What a running profile has for the calls it was told of. *)
FollowsOne(p) ==
  p \in Running =>
    /\ Mirrored(H!KeysOf(profiles[p].thread), rstack, p)
    /\ ToldAbove(rstack, p)
    /\ \A j \in 1 .. Len(rstack) : p \in rstack[j].told =>
         profiles[p].thread.method_table[rstack[j].method].created

(* A profile that has not started has been told of none. *)
UntoldOne(p) ==
  profiles[p].status = "new" => \A j \in 1 .. Len(rstack) : p \notin rstack[j].told

FramesInv ==
  BlocksInMethods(rstack) /\ \A p \in Profiles : FollowsOne(p) /\ UntoldOne(p)

(* The keys of a profile's frames after an event, and the methods it knows. *)
LEMMA EventFrames ==
  ASSUME AllocInv, NEW event \in {"call", "return", "line"},
         NEW k \in Methods, NEW loc \in Locations, Event(event, k, loc),
         NEW p \in Profiles
  PROVE  LET old == H!KeysOf(profiles[p].thread)
             new == H!KeysOf(profiles'[p].thread)
         IN  /\ old \in Seq(Keys) /\ new \in Seq(Keys) /\ k \in Keys
             /\ profiles'[p].status = profiles[p].status
             /\ p \in Running' <=> p \in Running
             /\ \A j \in Keys : profiles[p].thread.method_table[j].created =>
                  profiles'[p].thread.method_table[j].created
             /\ p \in Running =>
                  /\ event = "call" =>
                       /\ H!Called(new, old, k)
                       /\ profiles'[p].thread.method_table[k].created
                  /\ event = "return" => H!Returned(new, old)
                  /\ event = "line" => H!Lined(new, old, k)
<1> DEFINE t == profiles[p].thread
           u == profiles'[p].thread
           m == prof_measure(p)
<1>1. /\ p \in Running => profiles'[p] = prof_event_hook(profiles[p], event, k, loc, m)
      /\ m \in Nat /\ CodeAt(k, loc)
      /\ ProfileOK(profiles[p]) /\ ProfileOK(profiles'[p])
      /\ SourcesKept(profiles'[p], profiles[p])
  BY EventIs
<1>2. k \in Keys /\ ThreadFine(t) /\ ThreadFine(u)
  BY <1>1 DEF Keys, ProfileOK
<1>3. /\ profiles'[p].status = profiles[p].status
      /\ p \in Running' <=> p \in Running
      /\ \A j \in Keys : t.method_table[j].created => u.method_table[j].created
  BY <1>1 DEF SourcesKept, Running
<1>4. p \in Running =>
        /\ event # "line" => u.method_table[k].created
        /\ u = CASE event = "call" -> Hook!CallEvent(t, k, m)
                 [] event = "return" -> Hook!ReturnEvent(t, k, m)
                 [] event = "line" -> Hook!LineEvent(t, k, m)
  BY <1>1, EventKeepsProfile
<1> HIDE DEF t, u, m
<1>5. /\ H!KeysOf(t) \in Seq(Keys)
      /\ H!Called(H!KeysOf(Hook!CallEvent(t, k, m)), H!KeysOf(t), k)
      /\ H!Returned(H!KeysOf(Hook!ReturnEvent(t, k, m)), H!KeysOf(t))
      /\ H!Lined(H!KeysOf(Hook!LineEvent(t, k, m)), H!KeysOf(t), k)
  BY <1>1, <1>2, EventKeys
<1>6. H!KeysOf(u) \in Seq(Keys)
  BY <1>1, <1>2, EventKeys
<1>7. p \in Running =>
        /\ event = "call" => H!Called(H!KeysOf(u), H!KeysOf(t), k) /\ u.method_table[k].created
        /\ event = "return" => H!Returned(H!KeysOf(u), H!KeysOf(t))
        /\ event = "line" => H!Lined(H!KeysOf(u), H!KeysOf(t), k)
  BY <1>4, <1>5
<1> QED BY <1>2, <1>3, <1>5, <1>6, <1>7 DEF t, u

(* The entries of a pushed or popped stack, for the lemmas above.          *)
LEMMA RstackIs ==
  ASSUME AllocInv
  PROVE  /\ Len(rstack) \in Nat
         /\ \A j \in 1 .. Len(rstack) : rstack[j].method \in Keys
<1>1. rstack \in Seq(StackEntry)
  BY DEF AllocInv, StackOK
<1>2. \A j \in 1 .. Len(rstack) : rstack[j] \in StackEntry
  BY <1>1
<1> QED BY <1>1, <1>2 DEF StackEntry, Keys

(* A call: a frame on top for those who are told of it, that is all. *)
LEMMA CallFollowed ==
  ASSUME AllocInv, FramesInv, NEW k \in Methods, Call(k)
  PROVE  FramesInv'
<1> DEFINE r == rstack
           s == rstack'
<1>1. StackOK(r)
  BY DEF AllocInv
<1>2. PICK e \in StackEntry :
        /\ EntryOK(e) /\ e.method = k /\ ~e.block /\ e.told = Running
        /\ s = Append(r, e) /\ StackOK(s) /\ Event("call", k, Here(s))
  BY <1>1, CallIsEvent
<1>3. /\ Len(s) = Len(r) + 1 /\ Len(r) \in Nat /\ s[Len(s)] = e
      /\ SameCalls(s, r, Len(r))
      /\ \A j \in 1 .. Len(r) : s[j] = r[j]
  BY <1>1, <1>2, PushedStack DEF SameCalls
<1>4. Here(s) \in Locations
  BY <1>2 DEF Event
<1>5. BlocksInMethods(r) /\ \A p \in Profiles : FollowsOne(p) /\ UntoldOne(p)
  BY DEF FramesInv
<1>6. \A j \in 1 .. Len(s) : j \in 1 .. Len(r) \/ j = Len(s)
  BY <1>3
<1>7. \A j \in 1 .. Len(r) : r[j].method \in Keys
  BY RstackIs
<1> DEFINE loc == Here(s)
<1> HIDE DEF r, s, loc
<1>8. BlocksInMethods(s)
  BY <1>2, <1>3, <1>5, ShapeOfPush
<1>9. ASSUME NEW p \in Profiles PROVE (FollowsOne(p) /\ UntoldOne(p))'
  <2> DEFINE old == H!KeysOf(profiles[p].thread)
             new == H!KeysOf(profiles'[p].thread)
  <2>1. /\ old \in Seq(Keys) /\ new \in Seq(Keys) /\ k \in Keys
        /\ profiles'[p].status = profiles[p].status
        /\ p \in Running' <=> p \in Running
        /\ \A j \in Keys : profiles[p].thread.method_table[j].created =>
             profiles'[p].thread.method_table[j].created
        /\ p \in Running =>
             /\ H!Called(new, old, k)
             /\ profiles'[p].thread.method_table[k].created
    BY <1>2, <1>4, EventFrames DEF loc
  <2> HIDE DEF old, new
  <2>2. ASSUME p \in Running
        PROVE  Mirrored(new, s, p) /\ ToldAbove(s, p)
    <3>1. Mirrored(old, r, p) /\ ToldAbove(r, p)
      BY <1>5, <2>2 DEF FollowsOne, old, r
    <3>2. Visible(s, p, Len(s)) /\ s[Len(s)].method = k /\ p \in s[Len(s)].told
      BY <1>2, <1>3, <2>2 DEF Visible
    <3>3. ToldAbove(s, p)
      BY <1>3, <3>1, <3>2, ShapeOfPush
    <3>4. CASE new = Append(old, k)
      BY <1>3, <2>1, <3>1, <3>2, <3>3, <3>4, MirrorsPush
    <3>5. CASE old = <<>> /\ new = Append(<<InsertedParent>>, k)
      <4>1. InsertedParent \in Keys
        BY DEF Keys
      <4>2. Mirrored(<<InsertedParent>>, r, p)
        BY <1>3, <3>1, <3>5, <4>1, MirrorsBase
      <4>3. <<InsertedParent>> \in Seq(Keys)
        BY <4>1
      <4> QED BY <1>3, <2>1, <3>2, <3>3, <3>5, <4>2, <4>3, MirrorsPush
    <3> QED BY <2>1, <2>2, <3>4, <3>5 DEF H!Called
  <2>3. ASSUME p \in Running, NEW j \in 1 .. Len(s), p \in s[j].told
        PROVE  profiles'[p].thread.method_table[s[j].method].created
    <3>1. CASE j \in 1 .. Len(r)
      BY <1>3, <1>5, <1>7, <2>1, <2>3, <3>1 DEF FollowsOne, r
    <3>2. CASE j = Len(s)
      BY <1>2, <1>3, <2>1, <2>3, <3>2
    <3> QED BY <1>6, <3>1, <3>2
  <2>4. FollowsOne(p)'
    BY <2>1, <2>2, <2>3 DEF FollowsOne, new, s
  <2>5. UntoldOne(p)'
    <3>1. SUFFICES ASSUME profiles'[p].status = "new", NEW j \in 1 .. Len(s)
                   PROVE  p \notin s[j].told
      BY DEF UntoldOne, s
    <3>2. CASE j \in 1 .. Len(r)
      BY <1>3, <1>5, <2>1, <3>1, <3>2 DEF UntoldOne, r
    <3>3. CASE j = Len(s)
      <4>1. p \notin Running
        BY <2>1, <3>1 DEF Running
      <4> QED BY <1>2, <1>3, <3>3, <4>1
    <3> QED BY <1>6, <3>2, <3>3
  <2> QED BY <2>4, <2>5
<1> QED BY <1>8, <1>9 DEF FramesInv, s

(* A return. *)
LEMMA ReturnFollowed ==
  ASSUME AllocInv, FramesInv, Return
  PROVE  FramesInv'
<1> DEFINE r == rstack
           s == rstack'
           k == Last(rstack).method
           loc == Here(rstack)
<1>1. StackOK(r)
  BY DEF AllocInv
<1>2. /\ Len(r) > 1 /\ ~Last(r).block /\ s = SubSeq(r, 1, Len(r) - 1)
      /\ Event("return", k, loc)
  BY <1>1, ReturnIsEvent
<1>3. /\ Len(s) = Len(r) - 1 /\ Len(r) \in Nat /\ \A j \in 1 .. Len(s) : s[j] = r[j]
  BY <1>1, <1>2, PoppedStack
<1>4. k \in Methods /\ loc \in Locations
  BY <1>2 DEF Event
<1>5. BlocksInMethods(r) /\ \A p \in Profiles : FollowsOne(p) /\ UntoldOne(p)
  BY DEF FramesInv
<1>6. /\ Len(s) \in Nat /\ Len(r) = Len(s) + 1 /\ Len(s) \in 0 .. Len(r)
      /\ SameCalls(s, r, Len(s)) /\ ~r[Len(r)].block
  BY <1>2, <1>3 DEF SameCalls, Last
<1>7. \A j \in 1 .. Len(s) : j \in 1 .. Len(r) /\ s[j].method \in Keys /\ s[j] = r[j]
  BY <1>3, <1>6, RstackIs
<1> HIDE DEF r, s, k, loc
<1>8. BlocksInMethods(s)
  BY <1>5, <1>6, ShapeOfPrefix
<1>9. ASSUME NEW p \in Profiles PROVE (FollowsOne(p) /\ UntoldOne(p))'
  <2> DEFINE old == H!KeysOf(profiles[p].thread)
             new == H!KeysOf(profiles'[p].thread)
  <2>1. /\ old \in Seq(Keys) /\ new \in Seq(Keys)
        /\ profiles'[p].status = profiles[p].status
        /\ p \in Running' <=> p \in Running
        /\ \A j \in Keys : profiles[p].thread.method_table[j].created =>
             profiles'[p].thread.method_table[j].created
        /\ p \in Running => H!Returned(new, old)
    BY <1>2, <1>4, EventFrames
  <2> HIDE DEF old, new
  <2>2. ASSUME p \in Running
        PROVE  Mirrored(new, s, p) /\ ToldAbove(s, p)
    <3>1. Mirrored(old, r, p) /\ ToldAbove(r, p)
      BY <1>5, <2>2 DEF FollowsOne, old, r
    <3>2. ToldAbove(s, p)
      BY <1>3, <1>6, <3>1, ShapeOfPrefix
    <3> QED BY <1>6, <2>1, <2>2, <3>1, <3>2, MirrorsPop
  <2>3. FollowsOne(p)'
    <3>1. ASSUME p \in Running, NEW j \in 1 .. Len(s), p \in s[j].told
          PROVE  profiles'[p].thread.method_table[s[j].method].created
      BY <1>5, <1>7, <2>1, <3>1 DEF FollowsOne, r
    <3> QED BY <2>1, <2>2, <3>1 DEF FollowsOne, new, s
  <2>4. UntoldOne(p)'
    BY <1>5, <1>7, <2>1 DEF UntoldOne, r, s
  <2> QED BY <2>3, <2>4
<1> QED BY <1>8, <1>9 DEF FramesInv, s

(* A line. *)
LEMMA LineFollowed ==
  ASSUME AllocInv, FramesInv, NEW line, Line(line)
  PROVE  FramesInv'
<1> DEFINE r == rstack
           s == rstack'
           k == Last(rstack).method
           loc == At(Sources[k].file, line)
<1>1. StackOK(r)
  BY DEF AllocInv
<1>2. /\ k \in RubyMethods /\ line \in Sources[k].body
      /\ s = [r EXCEPT ![Len(r)].line = line]
      /\ Event("line", k, loc)
  BY <1>1, LineIsEvent
<1>3. /\ Len(s) = Len(r) /\ Len(r) \in Nat /\ Len(s) \in 0 .. Len(r)
      /\ SameCalls(s, r, Len(r))
  BY <1>1, <1>2, StackWithLine DEF SameCalls
<1>4. k \in Methods /\ loc \in Locations
  BY <1>2 DEF Event
<1>5. BlocksInMethods(r) /\ \A p \in Profiles : FollowsOne(p) /\ UntoldOne(p)
  BY DEF FramesInv
<1>6. \A j \in 1 .. Len(s) : /\ s[j].method = r[j].method /\ s[j].told = r[j].told
                             /\ s[j].method \in Keys /\ j \in 1 .. Len(r)
  BY <1>3, RstackIs DEF SameCalls
<1> HIDE DEF r, s, k, loc
<1>7. BlocksInMethods(s)
  BY <1>3, <1>5, ShapeOfPrefix
<1>8. ASSUME NEW p \in Profiles PROVE (FollowsOne(p) /\ UntoldOne(p))'
  <2> DEFINE old == H!KeysOf(profiles[p].thread)
             new == H!KeysOf(profiles'[p].thread)
  <2>1. /\ old \in Seq(Keys) /\ new \in Seq(Keys) /\ k \in Keys
        /\ profiles'[p].status = profiles[p].status
        /\ p \in Running' <=> p \in Running
        /\ \A j \in Keys : profiles[p].thread.method_table[j].created =>
             profiles'[p].thread.method_table[j].created
        /\ p \in Running => H!Lined(new, old, k)
    BY <1>2, <1>4, EventFrames
  <2> HIDE DEF old, new
  <2>2. ASSUME p \in Running
        PROVE  Mirrored(new, s, p) /\ ToldAbove(s, p)
    <3>1. Mirrored(old, r, p) /\ ToldAbove(r, p)
      BY <1>5, <2>2 DEF FollowsOne, old, r
    <3>2. ToldAbove(s, p)
      BY <1>3, <3>1, ShapeOfPrefix
    <3>3. Mirrored(new, r, p)
      BY <1>3, <2>1, <2>2, <3>1, MirrorsBase DEF H!Lined
    <3> QED BY <1>3, <3>2, <3>3, MirrorsSame
  <2>3. FollowsOne(p)'
    <3>1. ASSUME p \in Running, NEW j \in 1 .. Len(s), p \in s[j].told
          PROVE  profiles'[p].thread.method_table[s[j].method].created
      BY <1>5, <1>6, <2>1, <3>1 DEF FollowsOne, r
    <3> QED BY <2>1, <2>2, <3>1 DEF FollowsOne, new, s
  <2>4. UntoldOne(p)'
    BY <1>5, <1>6, <2>1 DEF UntoldOne, r, s
  <2> QED BY <2>3, <2>4
<1> QED BY <1>7, <1>8 DEF FramesInv, s

(* A block begins or ends. *)
LEMMA YieldFollowed ==
  ASSUME AllocInv, FramesInv, NEW i \in DOMAIN rstack, Yield(i)
  PROVE  FramesInv'
<1> DEFINE r == rstack
           s == rstack'
           e == [rstack[i] EXCEPT !.block = TRUE]
<1>1. StackOK(r)
  BY DEF AllocInv
<1>2. /\ e \in StackEntry /\ EntryOK(e) /\ e.block
      /\ e.method = r[i].method /\ e.told = r[i].told /\ i \in 1 .. Len(r)
      /\ s = Append(r, e) /\ profiles' = profiles
  BY <1>1, YieldIs
<1> HIDE DEF e
<1>3. /\ Len(s) = Len(r) + 1 /\ Len(r) \in Nat /\ s[Len(s)] = e
      /\ \A j \in 1 .. Len(r) : s[j] = r[j]
  BY <1>1, <1>2, PushedStack
<1>4. BlocksInMethods(r) /\ \A p \in Profiles : FollowsOne(p) /\ UntoldOne(p)
  BY DEF FramesInv
<1>5. \A j \in 1 .. Len(s) : j \in 1 .. Len(r) \/ j = Len(s)
  BY <1>3
<1>6. SameCalls(s, r, Len(r))
  BY <1>3 DEF SameCalls
<1> HIDE DEF r, s
<1>7. BlocksInMethods(s)
  BY <1>2, <1>3, <1>4, <1>6, ShapeOfPush
<1>8. ASSUME NEW p \in Profiles PROVE (FollowsOne(p) /\ UntoldOne(p))'
  <2>1. Running' = Running
    BY <1>2 DEF Running
  <2>2. \A j \in 1 .. Len(s) : \E h \in 1 .. Len(r) :
          s[j].told = r[h].told /\ s[j].method = r[h].method
    BY <1>2, <1>3, <1>5
  <2>3. FollowsOne(p)'
    <3> DEFINE keys == H!KeysOf(profiles[p].thread)
    <3>1. SUFFICES ASSUME p \in Running
                   PROVE  /\ Mirrored(keys, s, p) /\ ToldAbove(s, p)
                          /\ \A j \in 1 .. Len(s) : p \in s[j].told =>
                               profiles[p].thread.method_table[s[j].method].created
      BY <1>2, <2>1 DEF FollowsOne, s
    <3>2. /\ Mirrored(keys, r, p) /\ ToldAbove(r, p)
          /\ \A j \in 1 .. Len(r) : p \in r[j].told =>
               profiles[p].thread.method_table[r[j].method].created
      BY <1>4, <3>1 DEF FollowsOne, r
    <3>3. keys \in Seq(Keys)
      <4>1. ThreadFine(profiles[p].thread) /\ InsertedParent \in Keys /\ 0 \in Nat
        BY DEF AllocInv, ProfileOK, Keys
      <4> QED BY <4>1, EventKeys
    <3> HIDE DEF keys
    <3>4. Mirrored(keys, s, p)
      BY <1>2, <1>3, <1>6, <3>2, <3>3, MirrorsBlock
    <3>5. ToldAbove(s, p)
      BY <1>2, <1>3, <1>6, <3>2, ShapeOfPush
    <3> QED BY <2>2, <3>2, <3>4, <3>5
  <2>4. UntoldOne(p)'
    BY <1>2, <1>4, <2>2 DEF UntoldOne, r, s
  <2> QED BY <2>3, <2>4
<1> QED BY <1>7, <1>8 DEF FramesInv, s

(* A block ends. *)
LEMMA EndYieldFollowed ==
  ASSUME AllocInv, FramesInv, EndYield
  PROVE  FramesInv'
<1> DEFINE r == rstack
           s == rstack'
<1>1. StackOK(r)
  BY DEF AllocInv
<1>2. /\ Len(r) > 1 /\ Last(r).block
      /\ s = SubSeq(r, 1, Len(r) - 1) /\ profiles' = profiles
  BY <1>1, EndYieldIs
<1>3. /\ Len(s) = Len(r) - 1 /\ Len(r) \in Nat /\ \A j \in 1 .. Len(s) : s[j] = r[j]
  BY <1>1, <1>2, PoppedStack
<1>4. BlocksInMethods(r) /\ \A p \in Profiles : FollowsOne(p) /\ UntoldOne(p)
  BY DEF FramesInv
<1>5. /\ Len(s) \in Nat /\ Len(r) = Len(s) + 1 /\ Len(s) \in 0 .. Len(r)
      /\ SameCalls(s, r, Len(s)) /\ SameCalls(r, s, Len(s)) /\ r[Len(r)].block
      /\ \A j \in 1 .. Len(s) : j \in 1 .. Len(r)
  BY <1>2, <1>3 DEF SameCalls, Last
<1> HIDE DEF r, s
<1>6. BlocksInMethods(s)
  BY <1>4, <1>5, ShapeOfPrefix
<1>7. ASSUME NEW p \in Profiles PROVE (FollowsOne(p) /\ UntoldOne(p))'
  <2>1. Running' = Running
    BY <1>2 DEF Running
  <2>2. FollowsOne(p)'
    <3> DEFINE keys == H!KeysOf(profiles[p].thread)
    <3>1. SUFFICES ASSUME p \in Running
                   PROVE  /\ Mirrored(keys, s, p) /\ ToldAbove(s, p)
                          /\ \A j \in 1 .. Len(s) : p \in s[j].told =>
                               profiles[p].thread.method_table[s[j].method].created
      BY <1>2, <2>1 DEF FollowsOne, s
    <3>2. /\ Mirrored(keys, r, p) /\ ToldAbove(r, p)
          /\ \A j \in 1 .. Len(r) : p \in r[j].told =>
               profiles[p].thread.method_table[r[j].method].created
      BY <1>4, <3>1 DEF FollowsOne, r
    <3>3. keys \in Seq(Keys)
      <4>1. ThreadFine(profiles[p].thread) /\ InsertedParent \in Keys /\ 0 \in Nat
        BY DEF AllocInv, ProfileOK, Keys
      <4> QED BY <4>1, EventKeys
    <3> HIDE DEF keys
    <3>4. Mirrored(keys, s, p)
      BY <1>5, <3>2, <3>3, MirrorsBlock
    <3>5. ToldAbove(s, p)
      BY <1>3, <1>5, <3>2, ShapeOfPrefix
    <3> QED BY <1>3, <1>5, <3>2, <3>4, <3>5
  <2>3. UntoldOne(p)'
    BY <1>2, <1>3, <1>4, <1>5 DEF UntoldOne, r, s
  <2> QED BY <2>2, <2>3
<1> QED BY <1>6, <1>7 DEF FramesInv, s

(* A profile that has just started has no frames, and has been told of no  *)
(* call.                                                                   *)
LEMMA StartFollowed ==
  ASSUME AllocInv, FramesInv, NEW q \in Profiles, Start(q)
  PROVE  FramesInv'
<1>1. /\ profiles[q].status = "new"
      /\ profiles'[q] = NewProfile("running")
      /\ \A p \in Profiles : p # q => profiles'[p] = profiles[p]
      /\ rstack' = rstack
  BY StartIs
<1>2. BlocksInMethods(rstack) /\ \A p \in Profiles : FollowsOne(p) /\ UntoldOne(p)
  BY DEF FramesInv
<1>3. \A p \in Profiles : p # q => (p \in Running' <=> p \in Running)
  BY <1>1 DEF Running
<1>4. ASSUME NEW p \in Profiles, p # q PROVE (FollowsOne(p) /\ UntoldOne(p))'
  BY <1>1, <1>2, <1>3, <1>4 DEF FollowsOne, UntoldOne
<1>5. (FollowsOne(q) /\ UntoldOne(q))'
  <2> DEFINE t == profiles'[q].thread
             keys == H!KeysOf(t)
             r == rstack
  <2>1. ThreadFine(t) /\ t.stack = <<>> /\ profiles'[q].status = "running"
    BY <1>1, NewFine, NewProfileOK
  <2> HIDE DEF t
  <2>2. keys = <<>>
    <3>1. H!ThreadOK(t)
      BY <2>1 DEF ThreadFine
    <3> QED BY <2>1, <3>1, HookAssumption, H!KeysTyped DEF H!KeysTyped
  <2>3. Len(r) \in Nat /\ \A j \in 1 .. Len(r) : q \notin r[j].told
    BY <1>1, <1>2, RstackIs DEF UntoldOne
  <2> HIDE DEF r, keys
  <2>4. ToldAbove(r, q) /\ \A j \in 1 .. Len(r) : ~Visible(r, q, j)
    BY <2>3 DEF ToldAbove, Visible
  <2>5. Mirrored(keys, r, q)
    <3> DEFINE pos == [i \in {} |-> 0]
    <3>1. Len(keys) = 0 /\ 1 .. Len(keys) = {} /\ pos \in [1 .. Len(keys) -> 0 .. Len(r)]
      BY <2>2
    <3> HIDE DEF pos
    <3>2. Mirrors(keys, r, q, pos)
      BY <2>4, <3>1 DEF Mirrors
    <3> QED BY <3>2 DEF Mirrored
  <2> QED BY <1>1, <2>1, <2>3, <2>4, <2>5 DEF FollowsOne, UntoldOne, keys, t, r
<1> QED BY <1>1, <1>2, <1>4, <1>5 DEF FramesInv

(* No step leaves the frames behind the calls. *)
LEMMA FramesInvNext ==
  ASSUME AllocInv, FramesInv, [Next]_vars
  PROVE  FramesInv'
<1>1. \A p \in Profiles : FollowsOne(p) /\ UntoldOne(p)
  BY DEF FramesInv
<1>2. ASSUME rstack' = rstack, profiles' = profiles PROVE FramesInv'
  <2>1. Running' = Running
    BY <1>2 DEF Running
  <2> QED BY <1>1, <1>2, <2>1 DEF FramesInv, FollowsOne, UntoldOne
<1>3. ASSUME NEW c \in Classes \cup {Imemo}, Allocate(c) PROVE FramesInv'
  <2>1. /\ rstack' = rstack
        /\ \A p \in Profiles : /\ profiles'[p].thread = profiles[p].thread
                               /\ profiles'[p].status = profiles[p].status
    <3>1. rstack' = rstack
      BY <1>3 DEF Allocate
    <3> QED BY <1>3, <3>1, AllocateIs
  <2>2. \A p \in Profiles : p \in Running' <=> p \in Running
    BY <2>1 DEF Running
  <2> QED BY <1>1, <2>1, <2>2 DEF FramesInv, FollowsOne, UntoldOne
<1>4. ASSUME NEW q \in Profiles, Stop(q) PROVE FramesInv'
  <2>1. /\ rstack' = rstack /\ profiles'[q].status = "stopped"
        /\ \A p \in Profiles : p # q => profiles'[p] = profiles[p]
    BY <1>4, StopIs
  <2>2. /\ q \notin Running'
        /\ \A p \in Profiles : p # q => (p \in Running' <=> p \in Running)
    BY <2>1 DEF Running
  <2>3. ASSUME NEW p \in Profiles PROVE (FollowsOne(p) /\ UntoldOne(p))'
    <3>1. CASE p = q
      BY <2>1, <2>2, <3>1 DEF FollowsOne, UntoldOne
    <3>2. CASE p # q
      BY <1>1, <2>1, <2>2, <3>2 DEF FollowsOne, UntoldOne
    <3> QED BY <3>1, <3>2
  <2> QED BY <2>1, <2>3 DEF FramesInv
<1>5. CASE UNCHANGED vars
  BY <1>2, <1>5 DEF vars
<1>6. ASSUME NEW k \in RubyMethods, NEW line \in Sources[k].body, Line(line)
      PROVE FramesInv'
  BY <1>6, LineFollowed
<1>7. CASE Next
  BY <1>3, <1>4, <1>6, <1>7, CallFollowed, ReturnFollowed, YieldFollowed,
     EndYieldFollowed, StartFollowed DEF Next
<1> QED BY <1>5, <1>7

(* There are no frames, and nothing is told, at the beginning. *)
LEMMA FramesInvInit ==
  ASSUME Init
  PROVE  FramesInv
<1>1. /\ rstack = [i \in DOMAIN Home |-> Entry(Home[i], FALSE, Sources[Home[i]].first, {})]
      /\ \A p \in Profiles : profiles[p] = NewProfile("new")
  BY DEF Init
<1>2. Home \in Seq(RubyMethods)
  BY AllocationsAssumption DEF AllocationsAssumption
<1>3. \A j \in 1 .. Len(rstack) : ~rstack[j].block /\ rstack[j].told = {}
  <2>1. Len(Home) \in Nat /\ DOMAIN Home = 1 .. Len(Home)
    BY <1>2
  <2>2. Len(rstack) = Len(Home) /\ DOMAIN rstack = 1 .. Len(Home)
    BY <1>1, <2>1
  <2> QED BY <1>1, <2>1, <2>2 DEF Entry
<1>4. \A p \in Profiles : p \notin Running
  BY <1>1, NewProfileOK DEF Running
<1> QED BY <1>3, <1>4 DEF FramesInv, FollowsOne, UntoldOne, BlocksInMethods

(* The search through the frames of a profile finds what a search through  *)
(* the program's calls does, where CountedWhereMade says so.               *)
LEMMA FoundWhereMade ==
  ASSUME AllocInv, FramesInv, NEW p \in Running, p \in TopRuby(rstack).told,
         Lexical(rstack), FirstSeenCalled(p, TopRuby(rstack).method), NoneSeenReturning(p)
  PROVE  prof_find_method(profiles[p], Here(rstack)) = TopRuby(rstack).method
<1> DEFINE r == rstack
           n == Len(r)
           loc == Here(r)
           prof == profiles[p]
           keys == H!KeysOf(prof.thread)
           k == TopRuby(r).method
           found == prof_find_method(prof, loc)
<1>1. /\ StackOK(r) /\ ProfileOK(prof) /\ p \in Profiles
      /\ n \in Nat /\ DOMAIN r = 1 .. n
  BY DEF AllocInv, Running, StackOK
<1>2. loc \in Locations /\ CodeAt(k, loc)
  BY <1>1, TopRubyIs
<1>3. PICK t \in 1 .. n : TopRuby(r) = r[t] /\ r[t].method \in RubyMethods
  BY <1>1, TopRubyIs
<1>4. /\ BlocksInMethods(r) /\ ToldAbove(r, p) /\ Mirrored(keys, r, p)
  BY <1>1 DEF FramesInv, FollowsOne
<1>5. /\ k \in RubyMethods /\ p \in r[t].told /\ k = r[t].method
      /\ prof.source[k] = At(Sources[k].file, Sources[k].first)
      /\ \A c \in CMethods : prof.source[c] = Nowhere
      /\ loc.file = Sources[k].file /\ loc.line >= Sources[k].first
  BY <1>2, <1>3 DEF FirstSeenCalled, NoneSeenReturning, CodeAt
<1>6. /\ \A i \in 1 .. n : r[i].method \in Methods
      /\ \A i \in 1 .. n : Holds(r[i], loc) => i \in {j \in 1 .. n : Holds(r[j], loc)}
  <2>1. \A i \in 1 .. n : r[i] \in StackEntry
    BY <1>1 DEF StackOK
  <2> QED BY <2>1 DEF StackEntry
<1>7. \A i \in 1 .. n : (Holds(r[i], loc) /\ \A j \in 1 .. n : Holds(r[j], loc) => j <= i)
                          => r[i].method = k
  BY <1>1 DEF Lexical
<1>8. /\ keys \in Seq(Keys) /\ Len(keys) \in Nat
      /\ found # NULL =>
           /\ found \in Keys /\ CouldHold(prof, found, loc)
           /\ \E i \in 1 .. Len(keys) :
                /\ keys[i] = found
                /\ \A j \in 1 .. Len(keys) : CouldHold(prof, keys[j], loc) => j <= i
      /\ \A i \in 1 .. Len(keys) : CouldHold(prof, keys[i], loc) => found # NULL
  BY <1>1, <1>2, FoundIs
<1> HIDE DEF found, keys, loc, k, n, prof, r
<1>9. PICK pos : Mirrors(keys, r, p, pos)
  BY <1>4 DEF Mirrored
<1>10. /\ pos \in [1 .. Len(keys) -> 0 .. n]
       /\ \A i, j \in 1 .. Len(keys) : i < j => pos[i] < pos[j]
       /\ \A i \in 1 .. Len(keys) :
            pos[i] > 0 => Visible(r, p, pos[i]) /\ r[pos[i]].method = keys[i]
       /\ \A j \in 1 .. n : Visible(r, p, j) => \E i \in 1 .. Len(keys) : pos[i] = j
  BY <1>9 DEF Mirrors, n
<1> DEFINE S == {j \in 1 .. n : Holds(r[j], loc)}
<1>11. PICK low \in 1 .. n : Visible(r, p, low) /\ Holds(r[low], loc)
  <2>1. CASE ~r[t].block
    BY <1>5, <2>1 DEF Visible, Holds
  <2>2. CASE r[t].block
    <3>1. PICK i \in 1 .. n : ~r[i].block /\ r[i].method = r[t].method /\ r[i].told = r[t].told
      BY <1>4, <2>2 DEF BlocksInMethods, n
    <3> QED BY <1>5, <3>1 DEF Visible, Holds
  <2> QED BY <2>1, <2>2
<1>12. PICK high \in S : \A j \in S : j <= high
  <2>1. S \subseteq 1 .. n /\ S # {}
    BY <1>11
  <2> HIDE DEF S
  <2> QED BY <1>1, <2>1, TopmostExists
<1>13. /\ high \in 1 .. n /\ Holds(r[high], loc) /\ low <= high
       /\ \A j \in 1 .. n : Holds(r[j], loc) => j <= high
  BY <1>11, <1>12
<1>14. r[high].method = k /\ Visible(r, p, high)
  <2>1. r[high].method = k
    BY <1>7, <1>13
  <2>2. CASE low = high
    BY <1>11, <2>1, <2>2
  <2>3. CASE low < high
    BY <1>4, <1>11, <1>13, <2>1, <2>3 DEF ToldAbove, Holds, n
  <2> QED BY <1>1, <1>11, <1>13, <2>2, <2>3
<1>15. PICK own \in 1 .. Len(keys) : pos[own] = high
  BY <1>10, <1>13, <1>14
<1>16. keys[own] = k /\ CouldHold(prof, keys[own], loc)
  <2>1. keys[own] = k
    BY <1>10, <1>13, <1>14, <1>15
  <2>2. prof.source[k].file = loc.file /\ prof.source[k].line = Sources[k].first
    BY <1>5 DEF At
  <2> QED BY <1>5, <2>1, <2>2 DEF CouldHold
<1>17. PICK f \in 1 .. Len(keys) :
         keys[f] = found /\ \A j \in 1 .. Len(keys) : CouldHold(prof, keys[j], loc) => j <= f
  BY <1>8, <1>16
<1>18. found \in Keys /\ CouldHold(prof, found, loc) /\ own <= f
  BY <1>8, <1>16, <1>17
<1>19. own = f
  <2>1. SUFFICES ASSUME own < f PROVE FALSE
    BY <1>8, <1>18
  <2>2. pos[own] < pos[f] /\ pos[f] \in 0 .. n /\ pos[f] > 0
    BY <1>10, <1>13, <1>15, <2>1
  <2>3. /\ pos[f] \in 1 .. n /\ high < pos[f]
        /\ Visible(r, p, pos[f]) /\ r[pos[f]].method = found
    BY <1>10, <1>15, <1>17, <2>2
  <2>4. found \in Methods
    BY <1>6, <2>3
  <2>5. found \in RubyMethods
    <3>1. SUFFICES ASSUME found \in CMethods PROVE FALSE
      BY <2>4 DEF RubyMethods
    <3>2. prof.source[found].file = NoFile
      BY <1>5, <3>1, LocationsAre
    <3> QED BY <1>2, <1>18, <3>2, LocationsAre DEF CouldHold
  <2>6. prof.source[found] \in Locations /\ CodeAt(found, prof.source[found])
    <3>1. prof.source[found] # Nowhere
      BY <1>2, <1>18, LocationsAre DEF CouldHold
    <3> QED BY <1>1, <1>18, <3>1 DEF ProfileOK
  <2>7. loc.file = Sources[found].file /\ Sources[found].first <= loc.line
    <3>1. /\ loc.file = prof.source[found].file /\ loc.line >= prof.source[found].line
      BY <1>18 DEF CouldHold
    <3>2. /\ prof.source[found].file = Sources[found].file
          /\ prof.source[found].line >= Sources[found].first
      BY <2>5, <2>6 DEF CodeAt
    <3>3. /\ loc.line \in Nat /\ prof.source[found].line \in Nat /\ Sources[found].first \in Nat
      BY <1>2, <2>5, <2>6, LocationsAre
    <3> QED BY <3>1, <3>2, <3>3
  <2>8. Holds(r[pos[f]], loc)
    BY <2>3, <2>5, <2>7 DEF Holds, Visible
  <2>9. pos[f] <= high
    BY <1>13, <2>3, <2>8
  <2> QED BY <1>13, <2>2, <2>3, <2>9
<1>20. found = k
  BY <1>16, <1>17, <1>19
<1> QED BY <1>20 DEF found, k, prof, loc, r

(* What CountedWhereMade says of a profile, of objects that are well formed. *)
CountedOne(p) ==
  \A o \in DOMAIN made[p] :
    /\ o.klass \in Classes /\ o.loc \in Locations /\ o.method \in Keys
    /\ o.told => profiles[p].thread.method_table[o.method].created
    /\ track_allocations(p) /\ NoneSeenReturning(p) /\ o.told /\ o.lexical
         /\ FirstSeenCalled(p, o.method)
       => ChargedIn(profiles[p], o.method, o.klass, o.loc) >= made[p][o]

CountedInv == \A p \in Profiles : CountedOne(p)

(* A method is found where it was once found, and keeps its objects. *)
LEMMA CountedOneKept ==
  ASSUME NEW p \in Profiles, ProfileOK(profiles[p]), CountedOne(p), made'[p] = made[p],
         \A j \in Keys : profiles[p].thread.method_table[j].created =>
           /\ profiles'[p].thread.method_table[j].created
           /\ profiles'[p].source[j] = profiles[p].source[j],
         \A j \in Keys, c \in Classes, loc \in Locations :
           ChargedIn(profiles'[p], j, c, loc) = ChargedIn(profiles[p], j, c, loc)
  PROVE  CountedOne(p)'
<1>1. CMethods \subseteq Keys
  BY AllocationsAssumption DEF AllocationsAssumption, Keys
<1>2. NoneSeenReturning(p)' => NoneSeenReturning(p)
  BY <1>1 DEF NoneSeenReturning, ProfileOK
<1>3. SUFFICES ASSUME NEW o \in DOMAIN made[p]
      PROVE  /\ o.klass \in Classes /\ o.loc \in Locations /\ o.method \in Keys
             /\ o.told => profiles'[p].thread.method_table[o.method].created
             /\ track_allocations(p) /\ NoneSeenReturning(p)' /\ o.told /\ o.lexical
                  /\ FirstSeenCalled(p, o.method)'
                => ChargedIn(profiles'[p], o.method, o.klass, o.loc) >= made[p][o]
  BY DEF CountedOne, track_allocations
<1>4. /\ o.klass \in Classes /\ o.loc \in Locations /\ o.method \in Keys
      /\ o.told => profiles[p].thread.method_table[o.method].created
      /\ track_allocations(p) /\ NoneSeenReturning(p) /\ o.told /\ o.lexical
           /\ FirstSeenCalled(p, o.method)
         => ChargedIn(profiles[p], o.method, o.klass, o.loc) >= made[p][o]
  BY DEF CountedOne
<1>5. o.told /\ FirstSeenCalled(p, o.method)' => FirstSeenCalled(p, o.method)
  BY <1>4 DEF FirstSeenCalled
<1> QED BY <1>2, <1>4, <1>5

(* An object is charged to the method that made it, when it should be. *)
LEMMA CountedOneMore ==
  ASSUME KeysDiffer, AllocInv, FramesInv, NEW c \in Classes \cup {Imemo}, Allocate(c),
         NEW p \in Profiles, CountedOne(p)
  PROVE  CountedOne(p)'
<1> DEFINE loc == Here(rstack)
           o == Object(p, c, rstack)
           k == TopRuby(rstack).method
           prof == profiles[p]
           new == profiles'[p]
<1>1. /\ p \in Listening => new = NewObject(prof, c, loc)
      /\ p \notin Listening => new = prof
      /\ made'[p] = IF c # Imemo /\ p \in Running /\ prof.thread.stack # <<>>
                    THEN OneMore(made[p], o) ELSE made[p]
      /\ loc \in Locations /\ ProfileOK(prof) /\ MadeOK(made[p])
      /\ new.thread = prof.thread /\ new.source = prof.source
  BY AllocateIs
<1>2. CASE c = Imemo \/ p \notin Running \/ prof.thread.stack = <<>>
  <2>1. made'[p] = made[p]
    BY <1>1, <1>2
  <2>2. ASSUME NEW j \in Keys, NEW d \in Classes, NEW at \in Locations
        PROVE  ChargedIn(new, j, d, at) = ChargedIn(prof, j, d, at)
    <3>1. CASE p \notin Listening \/ c = Imemo
      <4>1. new = prof
        BY <1>1, <3>1 DEF NewObject
      <4> QED BY <4>1
    <3>2. CASE p \in Listening /\ c # Imemo
      <4>1. prof.thread.stack = <<>> /\ c \in Classes
        BY <1>2, <3>2 DEF Listening
      <4>2. prof_find_method(prof, loc) = NULL
        BY <4>1 DEF prof_find_method
      <4>3. new = prof
        BY <1>1, <3>2, <4>2 DEF NewObject
      <4> QED BY <4>3
    <3> QED BY <3>1, <3>2
  <2> QED BY <1>1, <2>1, <2>2, CountedOneKept
<1>3. CASE c # Imemo /\ p \in Running /\ prof.thread.stack # <<>>
  <2>1. c \in Classes /\ made'[p] = OneMore(made[p], o)
    BY <1>1, <1>3
  <2>2. /\ DOMAIN made'[p] = DOMAIN made[p] \cup {o}
        /\ made'[p][o] = (IF o \in DOMAIN made[p] THEN made[p][o] ELSE 0) + 1
        /\ \A x \in DOMAIN made[p] : x # o => made'[p][x] = made[p][x]
        /\ \A x \in DOMAIN made[p] : made[p][x] \in Nat
    <3>1. \A x \in DOMAIN made[p] : made[p][x] \in Nat
      BY <1>1 DEF MadeOK
    <3> HIDE DEF o
    <3> DEFINE more == OneMore(made[p], o)
    <3>2. /\ DOMAIN more = DOMAIN made[p] \cup {o}
          /\ more[o] = (IF o \in DOMAIN made[p] THEN made[p][o] ELSE 0) + 1
          /\ \A x \in DOMAIN made[p] : x # o => more[x] = made[p][x]
      BY <1>1, OneMoreIs
    <3> HIDE DEF more
    <3>3. made'[p] = more
      BY <2>1 DEF more
    <3> QED BY <3>1, <3>2, <3>3
  <2>3. /\ o.klass = c /\ o.loc = loc /\ o.method = k
        /\ o.told <=> p \in TopRuby(rstack).told
        /\ o.lexical <=> Lexical(rstack)
    BY DEF Object
  <2>4. k \in Keys /\ (p \in TopRuby(rstack).told => prof.thread.method_table[k].created)
    <3>1. StackOK(rstack) /\ FollowsOne(p)
      BY DEF AllocInv, FramesInv
    <3>2. PICK t \in 1 .. Len(rstack) : TopRuby(rstack) = rstack[t]
      BY <3>1, TopRubyIs
    <3> QED BY <1>3, <3>1, <3>2, RstackIs DEF FollowsOne
  <2>5. track_allocations(p) =>
          \A j \in Keys, d \in Classes, at \in Locations :
            ChargedIn(new, j, d, at)
              = ChargedIn(prof, j, d, at)
                  + (IF j = prof_find_method(prof, loc) /\ d = c /\ at = loc THEN 1 ELSE 0)
    <3>1. track_allocations(p) => new = NewObject(prof, c, loc)
      BY <1>1, <1>3 DEF Listening
    <3> HIDE DEF new, prof, loc
    <3> QED BY <1>1, <2>1, <3>1, ObjectCharged
  <2>6. /\ \A j \in Keys, d \in Classes, at \in Locations : ChargedIn(prof, j, d, at) \in Nat
    BY <1>1, ChargedType
  <2>7. /\ NoneSeenReturning(p)' <=> NoneSeenReturning(p)
        /\ \A j : FirstSeenCalled(p, j)' <=> FirstSeenCalled(p, j)
    BY <1>1 DEF NoneSeenReturning, FirstSeenCalled
  <2>8. p \in TopRuby(rstack).told /\ Lexical(rstack) /\ NoneSeenReturning(p)
          /\ FirstSeenCalled(p, k) => prof_find_method(prof, loc) = k
    BY <1>3, FoundWhereMade
  <2> DEFINE Goal(x) ==
        /\ x.klass \in Classes /\ x.loc \in Locations /\ x.method \in Keys
        /\ x.told => prof.thread.method_table[x.method].created
        /\ track_allocations(p) /\ NoneSeenReturning(p) /\ x.told /\ x.lexical
             /\ FirstSeenCalled(p, x.method)
           => ChargedIn(new, x.method, x.klass, x.loc) >= made'[p][x]
  <2>9. \A x \in DOMAIN made[p] :
          /\ x.klass \in Classes /\ x.loc \in Locations /\ x.method \in Keys
          /\ x.told => prof.thread.method_table[x.method].created
          /\ track_allocations(p) /\ NoneSeenReturning(p) /\ x.told /\ x.lexical
               /\ FirstSeenCalled(p, x.method)
             => ChargedIn(prof, x.method, x.klass, x.loc) >= made[p][x]
    BY DEF CountedOne
  <2> HIDE DEF o, k, loc, new, prof
  <2>10. ASSUME NEW x \in DOMAIN made[p], x # o PROVE Goal(x)
    <3>1. x.klass \in Classes /\ x.loc \in Locations /\ x.method \in Keys
      BY <2>9
    <3> DEFINE made1 == made'[p]
               made0 == made[p]
    <3>2. made1[x] = made0[x] /\ made0[x] \in Nat
      BY <2>2, <2>10
    <3>3. ChargedIn(prof, x.method, x.klass, x.loc) \in Nat
      BY <2>6, <3>1
    <3>4. track_allocations(p) =>
            /\ ChargedIn(new, x.method, x.klass, x.loc) \in Nat
            /\ ChargedIn(new, x.method, x.klass, x.loc)
                 >= ChargedIn(prof, x.method, x.klass, x.loc)
      BY <2>5, <3>1, <3>3
    <3>5. x.told => prof.thread.method_table[x.method].created
      BY <2>9
    <3>6. ASSUME track_allocations(p), NoneSeenReturning(p), x.told, x.lexical,
                 FirstSeenCalled(p, x.method)
          PROVE  ChargedIn(new, x.method, x.klass, x.loc) >= made1[x]
      <4>1. ChargedIn(prof, x.method, x.klass, x.loc) >= made0[x]
        BY <2>9, <3>6
      <4> QED BY <3>2, <3>3, <3>4, <3>6, <4>1
    <3> QED BY <3>1, <3>5, <3>6
  <2>11. Goal(o)
    <3>1. ASSUME track_allocations(p), NoneSeenReturning(p), o.told, o.lexical,
                 FirstSeenCalled(p, o.method)
          PROVE  ChargedIn(new, o.method, o.klass, o.loc) >= made'[p][o]
      <4>1. ChargedIn(new, k, c, loc) = ChargedIn(prof, k, c, loc) + 1
        BY <1>1, <2>1, <2>3, <2>4, <2>5, <2>8, <3>1 DEF loc
      <4>2. ChargedIn(prof, k, c, loc) \in Nat
        BY <1>1, <2>1, <2>4, <2>6 DEF loc
      <4>3. o \in DOMAIN made[p] =>
              ChargedIn(prof, k, c, loc) >= made[p][o] /\ made[p][o] \in Nat
        BY <2>2, <2>3, <2>9, <3>1
      <4> QED BY <2>2, <2>3, <4>1, <4>2, <4>3
    <3> QED BY <1>1, <2>1, <2>3, <2>4, <3>1 DEF loc
  <2>12. \A x \in DOMAIN made'[p] : Goal(x)
    BY <2>2, <2>10, <2>11
  <2> QED BY <1>1, <2>7, <2>12 DEF CountedOne, track_allocations, new, prof
<1> QED BY <1>2, <1>3

(* Steps keep objects where they were made. *)
LEMMA CountedInvNext ==
  ASSUME KeysDiffer, AllocInv, Unstarted, FramesInv, CountedInv, [Next]_vars
  PROVE  CountedInv'
<1>1. ASSUME NEW p \in Profiles, made'[p] = made[p], profiles'[p] = profiles[p]
      PROVE  CountedOne(p)'
  BY <1>1 DEF CountedInv, CountedOne, NoneSeenReturning, FirstSeenCalled,
     track_allocations
<1>2. CASE UNCHANGED <<made, alone, counter, profiles>>
  BY <1>1, <1>2 DEF CountedInv
<1>3. CASE UNCHANGED vars
  BY <1>2, <1>3 DEF vars
<1>4. CASE Next
  <2>1. CASE EventStep
    <3>1. PICK event \in {"call", "return", "line"} : \E k \in Methods : \E loc \in Locations :
            Event(event, k, loc)
      BY <2>1 DEF EventStep
    <3>2. PICK k \in Methods : \E loc \in Locations : Event(event, k, loc)
      BY <3>1
    <3>3. PICK loc \in Locations : Event(event, k, loc)
      BY <3>2
    <3>4. ASSUME NEW p \in Profiles PROVE CountedOne(p)'
      <4>1. /\ ProfileOK(profiles[p]) /\ SourcesKept(profiles'[p], profiles[p])
            /\ made'[p] = made[p]
        BY <3>3, EventIs
      <4>2. \A j \in Keys, c \in Classes, at \in Locations :
              ChargedIn(profiles'[p], j, c, at) = ChargedIn(profiles[p], j, c, at)
        BY <4>1, EventCharges
      <4>3. \A j \in Keys : profiles[p].thread.method_table[j].created =>
              /\ profiles'[p].thread.method_table[j].created
              /\ profiles'[p].source[j] = profiles[p].source[j]
        BY <4>1 DEF SourcesKept
      <4> QED BY <4>1, <4>2, <4>3, CountedOneKept DEF CountedInv
    <3> QED BY <3>4 DEF CountedInv
  <2>2. ASSUME NEW c \in Classes \cup {Imemo}, Allocate(c) PROVE CountedInv'
    BY <2>2, CountedOneMore DEF CountedInv
  <2>3. ASSUME NEW q \in Profiles, Start(q) PROVE CountedInv'
    <3>1. /\ profiles[q].status = "new" /\ made' = made
          /\ \A p \in Profiles : p # q => profiles'[p] = profiles[p]
      BY <2>3, StartIs
    <3>2. CountedOne(q)'
      BY <3>1 DEF CountedOne, Unstarted
    <3> QED BY <1>1, <3>1, <3>2 DEF CountedInv
  <2>4. ASSUME NEW q \in Profiles, Stop(q) PROVE CountedInv'
    <3>1. /\ profiles'[q].source = profiles[q].source
          /\ profiles'[q].allocations = profiles[q].allocations
          /\ \A j \in Keys : profiles[q].thread.method_table[j].created =>
               profiles'[q].thread.method_table[j].created
          /\ made' = made
          /\ \A p \in Profiles : p # q => profiles'[p] = profiles[p]
      BY <2>4, StopIs
    <3>2. \A j \in Keys, c \in Classes, at \in Locations :
            ChargedIn(profiles'[q], j, c, at) = ChargedIn(profiles[q], j, c, at)
      BY <3>1 DEF ChargedIn
    <3>3. CountedOne(q)'
      BY <3>1, <3>2, CountedOneKept DEF CountedInv, AllocInv
    <3> QED BY <1>1, <3>1, <3>3 DEF CountedInv
  <2> QED BY <1>2, <1>4, <2>1, <2>2, <2>3, <2>4, StepIs
<1> QED BY <1>3, <1>4

(* rp_profile.c:319 wants allocations to be assigned lexically. Whatever   *)
(* calls itself, runs blocks of methods further up the stack or was open   *)
(* when the profile started, an object is charged to the method whose code *)
(* makes it, if a search of the program's own stack by file and line finds *)
(* it, if the profile saw the method called before anything else of it, if *)
(* it has not met a C method by its return, and if keys differ.            *)
THEOREM CountedWhereMadeAlways ==
  ASSUME KeysDiffer
  PROVE  Spec => []CountedWhereMade
<1>1. Init => AllocInv /\ Unstarted /\ FramesInv /\ CountedInv
  <2>1. Init => AllocInv /\ FramesInv
    BY AllocInvInit, FramesInvInit
  <2>2. Init => \A p \in Profiles : DOMAIN made[p] = {}
    BY DEF Init
  <2> QED BY <2>1, <2>2 DEF Unstarted, CountedInv, CountedOne
<1>2. AllocInv /\ Unstarted /\ FramesInv /\ CountedInv /\ [Next]_vars
        => AllocInv' /\ Unstarted' /\ FramesInv' /\ CountedInv'
  BY AllocInvNext, UnstartedNext, FramesInvNext, CountedInvNext
<1>3. CountedInv => CountedWhereMade
  BY ChargedIs DEF CountedInv, CountedOne, CountedWhereMade
<1> QED BY <1>1, <1>2, <1>3, PTL DEF Spec
=============================================================================
