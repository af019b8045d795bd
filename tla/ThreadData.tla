----------------------------- MODULE ThreadData -----------------------------
(***************************************************************************)
(* The data ruby-prof keeps for one fiber (thread_data_t) and the          *)
(* operations of rp_stack.c, rp_call_tree.c, rp_method.c and rp_thread.c   *)
(* that the event hook and the profile's methods apply to it.              *)
(*                                                                         *)
(* A thread record t has                                                   *)
(*   trace         whether events of this fiber are recorded               *)
(*   stack         the sequence of frames, the top one last                *)
(*   nodes         every call tree node ever created for the fiber; a node *)
(*                 is named by its index, NULL stands for no node          *)
(*   call_tree     the root of the call tree, or NULL                      *)
(*   method_table  the entry of every method key (method_table_lookup      *)
(*                 finds the entries with created = TRUE)                  *)
(***************************************************************************)
EXTENDS Integers, Sequences

CONSTANTS
  Methods,        \* keys of the methods of the profiled program
  InsertedParent  \* the key of the dummy method _inserted_parent_

ASSUME InsertedParentAssumption == InsertedParent \notin Methods

Keys == Methods \cup {InsertedParent}

NULL == 0

Last(seq) == seq[Len(seq)]

-----------------------------------------------------------------------------
(* The sets the records belong to. *)

Frame == [call_tree : Nat,   start_time : Nat,  switch_time : Nat,
          pause_time : Int,  wait_time : Int,   child_time : Int,
          dead_time : Int]

Node == [method : Keys,      parent : Nat,      children : [Keys -> Nat],
         total_time : Int,   self_time : Int,   wait_time : Int,
         called : Nat,       visits : Int]

Method == [created : BOOLEAN, total_time : Int,  self_time : Int,
           wait_time : Int,   called : Nat,      visits : Int,
           recursive : BOOLEAN, call_trees : SUBSET Nat]

Thread == [trace : BOOLEAN, stack : Seq(Frame), nodes : Seq(Node),
           call_tree : Nat, method_table : [Keys -> Method]]

-----------------------------------------------------------------------------
(* Creation. *)

NoMethod ==
  [created |-> FALSE, total_time |-> 0, self_time |-> 0, wait_time |-> 0,
   called |-> 0, visits |-> 0, recursive |-> FALSE, call_trees |-> {}]

thread_data_create(trace) ==
  [trace |-> trace, stack |-> <<>>, nodes |-> <<>>, call_tree |-> NULL,
   method_table |-> [k \in Keys |-> NoMethod]]

(* method_table_lookup and, when it finds nothing, create_method. *)
create_method(t, k) == [t EXCEPT !.method_table[k].created = TRUE]

NewNode(k, parent) ==
  [method |-> k, parent |-> parent, children |-> [c \in Keys |-> NULL],
   total_time |-> 0, self_time |-> 0, wait_time |-> 0,
   called |-> 0, visits |-> 0]

(* prof_call_tree_create followed, as at every call in the hook, by        *)
(* prof_add_call_tree. The new node is NewestNode of the result.           *)
prof_call_tree_create(t, k, parent) ==
  [t EXCEPT !.nodes = Append(t.nodes, NewNode(k, parent)),
            !.method_table[k].call_trees =
              t.method_table[k].call_trees \cup {Len(t.nodes) + 1}]

NewestNode(t) == Len(t.nodes)

prof_call_tree_add_child(t, self, child) ==
  [t EXCEPT !.nodes[self].children[t.nodes[child].method] = child]

(* Mutant: the child does not learn its parent. *)
AddParentOneWay(t, self, parent) == prof_call_tree_add_child(t, parent, self)

prof_call_tree_add_parent(t, self, parent) ==
  [prof_call_tree_add_child(t, parent, self)
     EXCEPT !.nodes[self].parent = parent]

-----------------------------------------------------------------------------
(* Frames. A frame is paused when its pause_time is not the -1 mark. *)

Paused(fr) == fr.pause_time >= 0

prof_frame_pause(fr, m) ==
  IF Paused(fr) THEN fr ELSE [fr EXCEPT !.pause_time = m]

(* Mutant: the frame stays marked as paused. *)
UnpauseKeepsMark(fr, m) ==
  IF Paused(fr)
  THEN [fr EXCEPT !.dead_time = fr.dead_time + (m - fr.pause_time)]
  ELSE fr

prof_frame_unpause(fr, m) ==
  IF Paused(fr)
  THEN [fr EXCEPT !.dead_time = fr.dead_time + (m - fr.pause_time),
                  !.pause_time = -1]
  ELSE fr

(* The top frame of a stack that has one, and its replacement. *)
prof_frame_current(t) == Last(t.stack)

SetLast(stack, fr) == [stack EXCEPT ![Len(stack)] = fr]

SetCurrent(t, fr) == [t EXCEPT !.stack = SetLast(t.stack, fr)]

(* The key of a node, and the entry of its method. *)
KeyOf(t, n) == t.nodes[n].method
MethodOf(t, n) == t.method_table[KeyOf(t, n)]

NewFrame(n, m) ==
  [call_tree |-> n, start_time |-> m, switch_time |-> 0, pause_time |-> -1,
   wait_time |-> 0, child_time |-> 0, dead_time |-> 0]

(* Mutant: the parent frame stays paused under its child. *)
ParentStaysPaused(stack, m) == stack

(* The stack below a new frame: its parent frame, if any, is unpaused.     *)
UnpauseParent(stack, m) ==
  IF stack = <<>> THEN <<>>
  ELSE SetLast(stack, prof_frame_unpause(Last(stack), m))

(* A node or a method with one more call under way. *)
Visited(rec) ==
  [rec EXCEPT !.called = rec.called + 1, !.visits = rec.visits + 1]

(* Mutant: a second call is taken for a recursive one. *)
RecursiveWhenCalledAgain(method) ==
  [Visited(method) EXCEPT !.recursive = method.recursive \/ method.called > 0]

VisitedMethod(method) ==
  [Visited(method) EXCEPT !.recursive = method.recursive \/ method.visits > 0]

prof_frame_push(t, n, m, paused) ==
  LET new == NewFrame(n, m)
      frame == IF paused THEN prof_frame_pause(new, m) ELSE new
  IN  [t EXCEPT
        !.stack = Append(UnpauseParent(t.stack, m), frame),
        !.nodes[n] = Visited(t.nodes[n]),
        !.method_table[KeyOf(t, n)] = VisitedMethod(MethodOf(t, n))]

(* The node put above the root once the stack has emptied takes over what  *)
(* the old root has measured so far. It is new, so its self time is 0.     *)
TakeOver(node, root) ==
  [node EXCEPT !.total_time = root.total_time,
               !.self_time = 0,
               !.wait_time = root.wait_time]

(* Mutant: the wait time is left out. *)
TakeOverTotalOnly(method, root) ==
  [method EXCEPT !.total_time = method.total_time + root.total_time]

TakeOverMethod(method, root) ==
  [method EXCEPT !.total_time = method.total_time + root.total_time,
                 !.wait_time = method.wait_time + root.wait_time]

prof_frame_unshift(t, parent, root, m) ==
  LET old == t.nodes[root]
      u == [t EXCEPT
             !.nodes[parent] = TakeOver(t.nodes[parent], old),
             !.method_table[KeyOf(t, parent)] =
               TakeOverMethod(MethodOf(t, parent), old)]
  IN  prof_frame_push(u, parent, m, FALSE)

(* Mutant: only the child's dead time is handed down. *)
CreditedDeadOnly(frame, total, dead) ==
  [frame EXCEPT !.dead_time = frame.dead_time + dead]

(* The parent frame after a child that took total and was paused for dead. *)
Credited(frame, total, dead) ==
  [frame EXCEPT !.child_time = frame.child_time + total,
                !.dead_time = frame.dead_time + dead]

CreditParent(stack, total, dead) ==
  IF stack = <<>> THEN <<>>
  ELSE SetLast(stack, Credited(Last(stack), total, dead))

(* Mutant: every call adds to the total, a recursive one too. *)
LeftAlwaysTotal(rec, total, self, wait) ==
  [rec EXCEPT !.total_time = rec.total_time + total,
              !.self_time = rec.self_time + self,
              !.wait_time = rec.wait_time + wait,
              !.visits = rec.visits - 1]

(* Mutant: the outermost call leaves its visit behind. *)
LeftStillVisited(rec, total, self, wait) ==
  [rec EXCEPT
     !.total_time = IF rec.visits = 1 THEN rec.total_time + total
                    ELSE rec.total_time,
     !.self_time = rec.self_time + self,
     !.wait_time = rec.wait_time + wait,
     !.visits = IF rec.visits > 1 THEN rec.visits - 1 ELSE rec.visits]

(* A node or a method after one of its calls. *)
Left(rec, total, self, wait) ==
  [rec EXCEPT
     !.total_time = IF rec.visits = 1 THEN rec.total_time + total
                    ELSE rec.total_time,
     !.self_time = rec.self_time + self,
     !.wait_time = rec.wait_time + wait,
     !.visits = rec.visits - 1]

prof_frame_pop(t, m) ==
  IF t.stack = <<>> THEN t
  ELSE LET frame == prof_frame_unpause(Last(t.stack), m)
           total == m - frame.start_time - frame.dead_time
           self  == total - frame.child_time - frame.wait_time
           n     == frame.call_tree
           rest  == SubSeq(t.stack, 1, Len(t.stack) - 1)
       IN  [t EXCEPT
             !.stack = CreditParent(rest, total, frame.dead_time),
             !.nodes[n] = Left(t.nodes[n], total, self, frame.wait_time),
             !.method_table[KeyOf(t, n)] =
               Left(MethodOf(t, n), total, self, frame.wait_time)]

(* Mutant: if (prof_frame_pop(stack, measurement)); *)
PopOnce(t, m) == prof_frame_pop(t, m)

(* while (prof_frame_pop(stack, measurement)); *)
PopAll(t, m) ==
  LET popped[i \in Nat] ==
        IF i = 0 THEN t ELSE prof_frame_pop(popped[i - 1], m)
  IN  popped[Len(t.stack)]

-----------------------------------------------------------------------------
(* The two halves of switch_thread: what happens to the fiber that takes   *)
(* over and to the one that is left.                                       *)

(* Mutant: switch_time is marked the way pause_time is. *)
ResumedMarked(frame, m) ==
  [frame EXCEPT !.wait_time = frame.wait_time + (m - frame.switch_time),
                !.switch_time = -1]

(* Mutant: an earlier wait of the same frame is forgotten. *)
ResumedForgets(frame, m) ==
  [frame EXCEPT !.wait_time = m - frame.switch_time, !.switch_time = 0]

Resumed(frame, m) ==
  [frame EXCEPT !.wait_time = frame.wait_time + (m - frame.switch_time),
                !.switch_time = 0]

SwitchIn(t, m) ==
  IF t.stack = <<>> THEN t
  ELSE SetCurrent(t, Resumed(prof_frame_current(t), m))

SwitchOut(t, m) ==
  IF t.stack = <<>> THEN t
  ELSE SetCurrent(t, [prof_frame_current(t) EXCEPT !.switch_time = m])

pause_thread(t, m) ==
  IF t.stack = <<>> THEN t
  ELSE SetCurrent(t, prof_frame_pause(prof_frame_current(t), m))

(* Defined only when the stack has a frame: see Resume in Profiler.        *)
unpause_thread(t, m) ==
  SetCurrent(t, prof_frame_unpause(prof_frame_current(t), m))

=============================================================================
