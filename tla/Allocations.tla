----------------------------- MODULE Allocations ----------------------------
(***************************************************************************)
(* Allocations: the NEWOBJ event, the table of allocations of every method *)
(* (rp_allocation.c) and the measurer that counts allocations              *)
(* (rp_measure_allocations.c), for several profiles of one process that    *)
(* may run at the same time, each with its own data, while one fiber of a  *)
(* program calls, yields, moves from line to line and makes objects.       *)
(*                                                                         *)
(* The calls and returns are handled by the operators of Profiler. New     *)
(* here is where they happen: the file and the line that an event carries, *)
(* which a method keeps and by which an object is charged to a method.     *)
(* Pauses are left out: NEWOBJ is handled the same whether paused or not.  *)
(***************************************************************************)
EXTENDS ThreadData, FiniteSets

CONSTANTS
  Profiles,        \* the profiles of the process
  AllocationMode,  \* those that measure allocations
  Tracking,        \* those made with track_allocations
  CMethods,        \* the methods written in C
  Sources,         \* where each Ruby method is defined, and what it calls
  Classes,         \* the VALUEs of classes: addresses
  Imemo,           \* stands for the internal objects of type T_IMEMO
  NoFile,          \* nil as the name of a file
  Home,            \* the methods on the Ruby stack at the beginning
  MaxDepth,        \* bound: the depth of the Ruby stack
  MaxSteps         \* bound: the calls made and objects allocated

RubyMethods == Methods \ CMethods

Files == {Sources[k].file : k \in RubyMethods}

ASSUME AllocationsAssumption ==
  /\ IsFiniteSet(Methods) /\ IsFiniteSet(Profiles) /\ CMethods \subseteq Methods
  /\ AllocationMode \subseteq Profiles /\ Tracking \subseteq Profiles
  /\ \A k \in RubyMethods :
       /\ Sources[k].first \in Nat /\ Sources[k].body \subseteq Nat
       /\ \A line \in Sources[k].body : line >= Sources[k].first
  /\ Classes \subseteq Nat /\ Imemo \notin Classes
  /\ NoFile \notin Files /\ NULL \notin Keys
  /\ Home \in Seq(RubyMethods) /\ Home # <<>>
  /\ MaxDepth \in Nat /\ MaxSteps \in Nat

VARIABLES
  rstack,     \* the program: its true call stack
  steps,      \* the calls and objects it has made
  made,       \* the objects it has made before the eyes of each profile
  alone,      \* the profiles that no other one has disturbed: see Start
  counter,    \* the static variable result of measure_allocations
  profiles    \* the profiles

vars == <<rstack, steps, made, alone, counter, profiles>>

-----------------------------------------------------------------------------
(* The program. An entry of its stack is an activation of a method or of a *)
(* block written in that method; told has the profiles that have seen the  *)
(* call of the method.                                                     *)

Entry(k, block, line, told) ==
  [method |-> k, block |-> block, line |-> line, told |-> told]

(* The program ends with the last of its profiles: what it does then       *)
(* nobody sees.                                                            *)
Observed == \E p \in Profiles : profiles[p].status # "stopped"

(* The line of an event is that of the topmost Ruby code: an activation of *)
(* a C method has no line of its own.                                      *)
TopRuby(stack) ==
  LET ruby == {i \in DOMAIN stack : stack[i].block \/ stack[i].method \in RubyMethods}
  IN  stack[CHOOSE i \in ruby : \A j \in ruby : j <= i]

At(file, line) == [file |-> file, line |-> line]
Here(stack) ==
  LET e == TopRuby(stack) IN At(Sources[e.method].file, e.line)
Nowhere == At(NoFile, 0)

-----------------------------------------------------------------------------
(* A profile. source has where a method was when an event first named it,  *)
(* allocations the allocations_table of each method.                       *)

NoTable == [key \in {} |-> 0]

NewProfile(status) ==
  [status |-> status, thread |-> thread_data_create(TRUE),
   source |-> [k \in Keys |-> Nowhere],
   allocations |-> [k \in Keys |-> NoTable]]

Running == {p \in Profiles : profiles[p].status = "running"}

(* prof_install_hook asks the measurer, which wants the event whatever the *)
(* option says when it measures allocations.                               *)
track_allocations(p) == p \in Tracking \cup AllocationMode

Listening == {p \in Running : track_allocations(p)}

(* The hooks of a profile read the counter, or else a clock, which this    *)
(* module stops.                                                           *)
prof_measure(p) == IF p \in AllocationMode THEN counter ELSE 0

(* The three kinds of events that Profiler handles, for a profile that is  *)
(* not paused.                                                             *)
Hook == INSTANCE Profiler WITH
  Fibers <- {}, NoFiber <- NULL, Excluded <- {}, Untraced <- {},
  Uses <- {}, Ticks <- {}, MaxTime <- 0, Home <- <<>>,
  now <- counter, running <- TRUE, paused <- FALSE, last <- NULL,
  threads <- <<>>, crashed <- FALSE

(* Mutant: a C method that is called keeps the line of its caller.         *)
SourceLine(k, event, loc) ==
  IF event = "call" /\ k \in CMethods THEN At(NoFile, loc.line) ELSE loc

(* Where create_method puts a method that the event is the first to name.  *)
SourceOf(k, event, loc) ==
  IF event = "call" /\ k \in CMethods THEN Nowhere ELSE loc

check_method(prof, k, event, loc) ==
  IF prof.thread.method_table[k].created THEN prof
  ELSE [prof EXCEPT !.source[k] = SourceOf(k, event, loc)]

(* A line event looks for its method only when there is no frame.          *)
prof_event_hook(prof, event, k, loc, m) ==
  LET t == prof.thread
      checked == check_method(prof, k, event, loc)
  IN  CASE event = "call"   -> [checked EXCEPT !.thread = Hook!CallEvent(t, k, m)]
        [] event = "return" -> [checked EXCEPT !.thread = Hook!ReturnEvent(t, k, m)]
        [] event = "line"   ->
             IF t.stack # <<>> THEN prof
             ELSE [checked EXCEPT !.thread = Hook!LineEvent(t, k, m)]

Observe(event, k, loc) ==
  profiles' = [p \in Profiles |->
    IF p \in Running
    THEN prof_event_hook(profiles[p], event, k, loc, prof_measure(p))
    ELSE profiles[p]]

-----------------------------------------------------------------------------
(* The NEWOBJ event. *)

(* Mutant: the line does not matter. *)
InSameFile(prof, k, loc) == prof.source[k].file = loc.file

(* Is the method the one whose code is at loc? *)
CouldHold(prof, k, loc) ==
  prof.source[k].file = loc.file /\ loc.line >= prof.source[k].line

(* The methods of the frames that could hold loc, and the topmost.         *)
FrameMethod(prof, i) == KeyOf(prof.thread, prof.thread.stack[i].call_tree)

prof_find_method(prof, loc) ==
  LET found == {i \in DOMAIN prof.thread.stack :
                  CouldHold(prof, FrameMethod(prof, i), loc)}
  IN  IF found = {} THEN NULL
      ELSE FrameMethod(prof, CHOOSE i \in found : \A j \in found : j <= i)

(* Mutant: objects of a class share an entry wherever they are made. *)
KeyOfClass(c, line) == c * 16

allocations_key(c, line) == c * 16 + line

prof_allocate_increment(table, c, line) ==
  LET key == allocations_key(c, line)
      old == IF key \in DOMAIN table THEN table[key]
             ELSE [klass |-> c, source_line |-> line, count |-> 0]
      new == [old EXCEPT !.count = old.count + 1]
  IN  [j \in DOMAIN table \cup {key} |-> IF j = key THEN new ELSE table[j]]

NewObject(prof, c, loc) ==
  LET k == prof_find_method(prof, loc)
  IN  IF k = NULL \/ c = Imemo THEN prof
      ELSE [prof EXCEPT !.allocations[k] =
              prof_allocate_increment(prof.allocations[k], c, loc.line)]

(* Mutant: internal objects are counted too. *)
MeasureEverything(c, n) == counter + n

(* What n hooks of profiles that measure allocations leave in the counter. *)
measure_allocations(c, n) == IF c = Imemo THEN counter ELSE counter + n

-----------------------------------------------------------------------------
(* Steps of the program. *)

Top == Last(rstack)
InRuby == Top.block \/ Top.method \in RubyMethods
Push(e) == rstack' = Append(rstack, e)
Pop == rstack' = SubSeq(rstack, 1, Len(rstack) - 1)
Step == steps < MaxSteps /\ steps' = steps + 1

Call(k) ==
  /\ Observed /\ Step
  /\ Len(rstack) < MaxDepth
  /\ InRuby /\ k \in Sources[Top.method].calls
  /\ LET line == IF k \in CMethods THEN 0 ELSE Sources[k].first
         e == Entry(k, FALSE, line, Running)
     IN  Push(e) /\ Observe("call", k, Here(Append(rstack, e)))
  /\ UNCHANGED <<made, alone, counter>>

Return ==
  /\ Observed
  /\ Len(rstack) > 1
  /\ ~Top.block
  /\ Observe("return", Top.method, Here(rstack))
  /\ Pop
  /\ UNCHANGED <<steps, made, alone, counter>>

Line(line) ==
  /\ Observed
  /\ InRuby
  /\ line \in Sources[Top.method].body
  /\ rstack' = [rstack EXCEPT ![Len(rstack)].line = line]
  /\ Observe("line", Top.method, At(Sources[Top.method].file, line))
  /\ UNCHANGED <<steps, made, alone, counter>>

(* The topmost method runs the block that entry i has passed down. *)
Yield(i) ==
  /\ Observed /\ Step
  /\ Len(rstack) < MaxDepth
  /\ ~Top.block
  /\ i < Len(rstack) /\ rstack[i].method \in RubyMethods
  /\ Push([rstack[i] EXCEPT !.block = TRUE])
  /\ UNCHANGED <<made, alone, counter, profiles>>

EndYield ==
  /\ Observed /\ Top.block
  /\ Pop
  /\ UNCHANGED <<steps, made, alone, counter, profiles>>

(* Could the method of this call be the one whose code is at loc? *)
Holds(e, loc) ==
  /\ ~e.block /\ e.method \in RubyMethods
  /\ Sources[e.method].file = loc.file /\ Sources[e.method].first <= loc.line

(* Is it, for the topmost such call? It is where methods make objects by   *)
(* themselves, and where their blocks do if what runs these is defined     *)
(* further down the file or in another one.                                *)
Lexical(stack) ==
  LET calls == {i \in DOMAIN stack : Holds(stack[i], Here(stack))}
  IN  \A i \in calls : (\A j \in calls : j <= i) =>
        stack[i].method = TopRuby(stack).method

(* An object as the profile p could tell it: its class and place, the      *)
(* method that makes it, and whether p has seen the call of that method.   *)
Object(p, c, stack) ==
  [klass |-> c, loc |-> Here(stack), method |-> TopRuby(stack).method,
   told |-> p \in TopRuby(stack).told, lexical |-> Lexical(stack)]

(* How many of each, and then one more.                                    *)
OneMore(count, o) ==
  [x \in DOMAIN count \cup {o} |->
     (IF x \in DOMAIN count THEN count[x] ELSE 0) + (IF x = o THEN 1 ELSE 0)]

Allocate(c) ==
  /\ Observed /\ Step
  /\ counter' = measure_allocations(c, Cardinality(Listening \cap AllocationMode))
  /\ profiles' = [p \in Profiles |->
       IF p \in Listening THEN NewObject(profiles[p], c, Here(rstack)) ELSE profiles[p]]
  /\ made' = [p \in Profiles |->
       IF c # Imemo /\ p \in Running /\ profiles[p].thread.stack # <<>>
       THEN OneMore(made[p], Object(p, c, rstack)) ELSE made[p]]
  /\ UNCHANGED <<rstack, alone>>

-----------------------------------------------------------------------------
(* prof_start and prof_stop, which no hook reports. A profile is alone as  *)
(* long as no other one that measures allocations has run beside it. It is *)
(* started once here: Profiler has what a second start does.               *)

AloneAfterStart(p) ==
  LET others == Running \cap AllocationMode
  IN  IF p \notin AllocationMode THEN alone
      ELSE IF others = {} THEN alone \cup {p} ELSE alone \ (others \cup {p})

Start(p) ==
  /\ InRuby
  /\ profiles[p].status = "new"
  /\ profiles' = [profiles EXCEPT ![p] = NewProfile("running")]
  /\ alone' = AloneAfterStart(p)
  /\ UNCHANGED <<rstack, steps, made, counter>>

Stop(p) ==
  /\ InRuby
  /\ p \in Running
  /\ profiles' = [profiles EXCEPT ![p].status = "stopped",
                                  ![p].thread = PopAll(@, prof_measure(p))]
  /\ UNCHANGED <<rstack, steps, made, alone, counter>>

Init ==
  /\ rstack = [i \in DOMAIN Home |->
                 Entry(Home[i], FALSE, Sources[Home[i]].first, {})]
  /\ steps = 0
  /\ made = [p \in Profiles |-> [o \in {} |-> 0]]
  /\ alone = {}
  /\ counter = 0
  /\ profiles = [p \in Profiles |-> NewProfile("new")]

Next ==
  \/ \E k \in Methods : Call(k)
  \/ Return
  \/ \E k \in RubyMethods : \E line \in Sources[k].body : Line(line)
  \/ \E i \in DOMAIN rstack : Yield(i)
  \/ EndYield
  \/ \E c \in Classes \cup {Imemo} : Allocate(c)
  \/ \E p \in Profiles : Start(p) \/ Stop(p)

Spec == Init /\ [][Next]_vars
=============================================================================
