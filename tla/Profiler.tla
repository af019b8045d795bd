------------------------------ MODULE Profiler ------------------------------
(***************************************************************************)
(* A RubyProf::Profile at work (rp_profile.c): the event hook, the         *)
(* switching between fibers, and start, pause, resume, stop and their      *)
(* block forms, driven by a Ruby program whose fibers interleave.          *)
(*                                                                         *)
(* The program is the environment. Its state is rstack, the true call      *)
(* stack of each fiber, which the profiler never sees; it is told of calls *)
(* and returns, and of lines, by the hook and only while the hook is       *)
(* installed. A fiber runs under the interpreter's lock, so one step of    *)
(* one fiber, with the hook it triggers, is one atomic step.               *)
(***************************************************************************)
EXTENDS ThreadData

CONSTANTS
  Fibers,      \* the fibers of the program, over all its threads
  NoFiber,     \* stands for a NULL last_thread_data
  CMethods,    \* the methods written in C: no line event, no block of theirs
  Excluded,    \* the methods in exclude_methods_tbl
  Untraced,    \* the fibers of threads that exclude_threads or
               \* include_threads keep out
  Home,        \* the Ruby stack of each fiber at the beginning
  Uses,        \* the optional calls this program makes
  Ticks,       \* how much the clock can advance between two readings
  MaxTime,     \* bound: the last reading of the clock
  MaxDepth     \* bound: the depth of a Ruby stack

BlockKinds == {"block", "profiled", "resumed"}
Entry == [method : Methods, kind : BlockKinds \cup {"method"}]

ASSUME ProfilerAssumption ==
  /\ NoFiber \notin Fibers
  /\ CMethods \subseteq Methods
  /\ Excluded \subseteq Methods
  /\ Untraced \subseteq Fibers
  /\ Home \in [Fibers -> Seq(Entry)]
  /\ Ticks \subseteq Nat
  /\ MaxTime \in Nat
  /\ MaxDepth \in Nat

VARIABLES
  rstack,    \* the program: the true call stack of each fiber
  now,       \* the last reading of the measurer
  running,   \* profile->running; the tracepoints are enabled exactly then
  paused,    \* profile->paused
  last,      \* the fiber of profile->last_thread_data, or NoFiber
  threads,   \* profile->threads_tbl: fiber -> thread data
  crashed    \* the process died of a NULL frame

profile == <<now, running, paused, last, threads, crashed>>
vars == <<rstack, profile>>

Readings == {m \in {now + d : d \in Ticks} : m <= MaxTime}

-----------------------------------------------------------------------------
(* The threads table. *)

threads_table_insert(tbl, f) ==
  [g \in DOMAIN tbl \cup {f} |->
     IF g = f THEN thread_data_create(f \notin Untraced) ELSE tbl[g]]

threads_table_fetch(tbl, f) ==
  IF f \in DOMAIN tbl THEN tbl ELSE threads_table_insert(tbl, f)

(* The table after switch_thread from fiber g to fiber f.                  *)
switch_thread(tbl, f, g, m) ==
  [tbl EXCEPT ![f] = SwitchIn(tbl[f], m), ![g] = SwitchOut(tbl[g], m)]

check_fiber(f, m) ==
  IF last = f THEN threads
  ELSE switch_thread(threads_table_fetch(threads, f), f, last, m)

-----------------------------------------------------------------------------
(* The three kinds of events. k is the key of the event's method; the      *)
(* callers have made sure that it is not an excluded one.                  *)

(* Mutant: the new node is created as a child of the root it is put above. *)
ClimbBelowRoot(t, k, m) ==
  LET c == prof_call_tree_create(t, k, t.call_tree)
      n == NewestNode(c)
      p == prof_call_tree_add_parent(c, t.call_tree, n)
  IN  prof_frame_unshift([p EXCEPT !.call_tree = n], n, t.call_tree, m)

(* A node above the root for a frame that has none below it.               *)
Climb(t, k, m) ==
  LET c == prof_call_tree_create(t, k, NULL)
      n == NewestNode(c)
      p == prof_call_tree_add_parent(c, t.call_tree, n)
  IN  prof_frame_unshift([p EXCEPT !.call_tree = n], n, t.call_tree, m)

FirstFrame(t, k, m) ==
  LET c == prof_call_tree_create(t, k, NULL)
      n == NewestNode(c)
  IN  prof_frame_push([c EXCEPT !.call_tree = n], n, m, paused)

(* Mutant: the parent's table does not get the child. *)
CallOrphan(t, k, parent, m) ==
  LET c == prof_call_tree_create(t, k, parent)
  IN  prof_frame_push(c, NewestNode(c), m, paused)

CallChild(t, k, parent, m) ==
  LET c == prof_call_tree_create(t, k, parent)
      a == prof_call_tree_add_child(c, parent, NewestNode(c))
  IN  prof_frame_push(a, NewestNode(a), m, paused)

LineEvent(t, k, m) ==
  IF t.stack # <<>> THEN t
  ELSE IF t.call_tree = NULL THEN FirstFrame(create_method(t, k), k, m)
       ELSE Climb(create_method(t, k), k, m)

CallFromFrame(t, k, m) ==
  LET parent == prof_frame_current(t).call_tree
      child  == t.nodes[parent].children[k]
  IN  IF child # NULL THEN prof_frame_push(t, child, m, paused)
      ELSE CallChild(t, k, parent, m)

CallAboveRoot(t, k, m) ==
  LET t1 == Climb(create_method(t, InsertedParent), InsertedParent, m)
  IN  CallChild(t1, k, t1.call_tree, m)

CallEvent(t, k, m) ==
  LET t1 == create_method(t, k)
  IN  IF t.stack # <<>> THEN CallFromFrame(t1, k, m)
      ELSE IF t.call_tree = NULL THEN FirstFrame(t1, k, m)
           ELSE CallAboveRoot(t1, k, m)

(* The frame popped is the top one, whatever method it is of.              *)
ReturnEvent(t, k, m) == prof_frame_pop(create_method(t, k), m)

(* Mutant: a return is not checked for an excluded method. *)
ReturnsUnchecked(event, t, k, m) ==
  CASE event = "line"   -> IF k \in Excluded THEN t ELSE LineEvent(t, k, m)
    [] event = "call"   -> IF k \in Excluded THEN t ELSE CallEvent(t, k, m)
    [] event = "return" -> ReturnEvent(t, k, m)

Handle(event, t, k, m) ==
  IF k \in Excluded THEN t
  ELSE CASE event = "line"   -> LineEvent(t, k, m)
         [] event = "call"   -> CallEvent(t, k, m)
         [] event = "return" -> ReturnEvent(t, k, m)

prof_event_hook(f, event, k, m) ==
  LET tbl == check_fiber(f, m)
  IN  /\ now' = m
      /\ last' = f
      /\ threads' = IF tbl[f].trace
                    THEN [tbl EXCEPT ![f] = Handle(event, tbl[f], k, m)]
                    ELSE tbl
      /\ UNCHANGED <<running, paused, crashed>>

(* The hook on a call of a method of Profile itself ends in check_method.  *)
prof_event_hook_profile(f, m) ==
  /\ now' = m
  /\ last' = f

-----------------------------------------------------------------------------
(* Steps of the program. *)

Top(f) == Last(rstack[f])
Push(f, k, kind) ==
  rstack' = [rstack EXCEPT ![f] = Append(@, [method |-> k, kind |-> kind])]
Pop(f) ==
  rstack' = [rstack EXCEPT ![f] = SubSeq(@, 1, Len(@) - 1)]

CanRun(f) == ~crashed /\ rstack[f] # <<>>
CanPush(f) == CanRun(f) /\ Len(rstack[f]) < MaxDepth
InRuby(f) == CanRun(f) /\ (Top(f).kind = "method" => Top(f).method \notin CMethods)

(* While the tracepoints are disabled nobody sees what the program does.   *)
Observe(f, event, k) ==
  \/ running /\ \E m \in Readings : prof_event_hook(f, event, k, m)
  \/ ~running /\ "unobserved" \in Uses /\ UNCHANGED profile

Call(f, k) ==
  /\ CanPush(f)
  /\ Push(f, k, "method")
  /\ Observe(f, "call", k)

(* The outermost entry of Home never returns: its callers are not modelled.*)
Return(f) ==
  /\ CanRun(f)
  /\ Len(rstack[f]) > 1
  /\ Top(f).kind = "method"
  /\ Pop(f)
  /\ Observe(f, "return", Top(f).method)

Line(f) ==
  /\ InRuby(f)
  /\ running
  /\ Observe(f, "line", Top(f).method)
  /\ UNCHANGED rstack

(* A method runs a block of a Ruby method below it, which raises no event. *)
Yield(f, k) ==
  /\ "yield" \in Uses
  /\ CanPush(f)
  /\ Top(f).kind = "method"
  /\ k \notin CMethods
  /\ \E i \in 1 .. Len(rstack[f]) - 1 : rstack[f][i].method = k
  /\ Push(f, k, "block")
  /\ UNCHANGED profile

EndYield(f) ==
  /\ CanRun(f)
  /\ Len(rstack[f]) > 1
  /\ Top(f).kind = "block"
  /\ Pop(f)
  /\ UNCHANGED profile

-----------------------------------------------------------------------------
(* The methods of Profile. *)

MayStart == DOMAIN threads = {} \/ "restart" \in Uses

prof_start(f) ==
  /\ ~running
  /\ running' = TRUE
  /\ paused' = FALSE
  /\ threads' = threads_table_insert(threads, f)
  /\ last' = f
  /\ UNCHANGED <<now, crashed>>

(* prof_pause on the table tbl: the top frame of every thread is paused,   *)
(* unless the profile is paused already.                                   *)
prof_pause(tbl, m) ==
  /\ paused' = TRUE
  /\ threads' = IF paused THEN tbl
                ELSE [g \in DOMAIN tbl |-> pause_thread(tbl[g], m)]
  /\ UNCHANGED <<running, crashed>>

(* prof_resume on the table tbl. unpause_thread hands the top frame to     *)
(* prof_frame_unpause, which reads it: with an empty stack that is NULL.   *)
prof_resume(tbl, m) ==
  /\ paused' = FALSE
  /\ IF ~paused THEN threads' = tbl /\ UNCHANGED crashed
     ELSE IF \E g \in DOMAIN tbl : tbl[g].stack = <<>>
          THEN threads' = tbl /\ crashed' = TRUE
          ELSE /\ threads' = [g \in DOMAIN tbl |-> unpause_thread(tbl[g], m)]
               /\ UNCHANGED crashed
  /\ UNCHANGED running

(* prof_stop on the table tbl with last_thread_data that of fiber g: the   *)
(* threads are switched to one after the other, at the same reading, and   *)
(* their stacks emptied.                                                   *)
pop_frames(t, switched, m) ==
  PopAll(IF switched THEN SwitchIn(t, m) ELSE t, m)

prof_stop(tbl, g, m) ==
  /\ threads' = [h \in DOMAIN tbl |-> pop_frames(tbl[h], h # g, m)]
  /\ running' = FALSE
  /\ paused' = FALSE
  /\ last' = NoFiber
  /\ UNCHANGED crashed

Start(f) ==
  /\ InRuby(f)
  /\ MayStart
  /\ prof_start(f)
  /\ UNCHANGED rstack

Pause(f) ==
  /\ "pause" \in Uses
  /\ InRuby(f)
  /\ running
  /\ \E m \in Readings : /\ prof_event_hook_profile(f, m)
                         /\ prof_pause(check_fiber(f, m), m)
  /\ UNCHANGED rstack

Resume(f) ==
  /\ "pause" \in Uses
  /\ InRuby(f)
  /\ running
  /\ \E m \in Readings : /\ prof_event_hook_profile(f, m)
                         /\ prof_resume(check_fiber(f, m), m)
  /\ UNCHANGED rstack

Stop(f) ==
  /\ InRuby(f)
  /\ running
  /\ \E m \in Readings : now' = m /\ prof_stop(check_fiber(f, m), f, m)
  /\ UNCHANGED rstack

(* profile { ... }: the block runs between a start and a stop, which is    *)
(* called from C and so without an event.                                  *)
ProfileBlock(f) ==
  /\ "profile block" \in Uses
  /\ MayStart
  /\ InRuby(f)
  /\ CanPush(f)
  /\ prof_start(f)
  /\ Push(f, Top(f).method, "profiled")

EndProfileBlock(f) ==
  /\ CanRun(f)
  /\ Top(f).kind = "profiled"
  /\ Pop(f)
  /\ IF running
     THEN \E m \in Readings : now' = m /\ prof_stop(threads, last, m)
     ELSE UNCHANGED profile   \* prof_stop raises

(* resume { ... }: the block runs between a resume and a pause.            *)
ResumeBlock(f) ==
  /\ "resume block" \in Uses
  /\ InRuby(f)
  /\ CanPush(f)
  /\ running
  /\ \E m \in Readings : /\ prof_event_hook_profile(f, m)
                         /\ prof_resume(check_fiber(f, m), m)
  /\ IF crashed' THEN UNCHANGED rstack
     ELSE Push(f, Top(f).method, "resumed")

EndResumeBlock(f) ==
  /\ CanRun(f)
  /\ Top(f).kind = "resumed"
  /\ Pop(f)
  /\ IF running
     THEN \E m \in Readings : now' = m /\ prof_pause(threads, m) /\ UNCHANGED last
     ELSE UNCHANGED profile   \* prof_pause raises

-----------------------------------------------------------------------------
Init ==
  /\ rstack = Home
  /\ now = 0
  /\ running = FALSE
  /\ paused = FALSE
  /\ last = NoFiber
  /\ threads = [f \in {} |-> thread_data_create(TRUE)]
  /\ crashed = FALSE

Next ==
  \E f \in Fibers :
    \/ \E k \in Methods : Call(f, k) \/ Yield(f, k)
    \/ Return(f)
    \/ Line(f)
    \/ EndYield(f)
    \/ Start(f)
    \/ Pause(f)
    \/ Resume(f)
    \/ Stop(f)
    \/ ProfileBlock(f)
    \/ EndProfileBlock(f)
    \/ ResumeBlock(f)
    \/ EndResumeBlock(f)

Spec == Init /\ [][Next]_vars
=============================================================================
