# A TLA+ specification of ruby-prof

ruby-prof is a C extension that profiles Ruby programs. The interpreter calls it
at every call, return and line of the program; from these events it builds, for
each fiber, a tree of calls with the time each call took. This directory models
that core: what the event hook does to the data of interleaving fibers, what
start, pause, resume and stop do to it while they run, how allocated objects are
counted, what `merge!` does to the finished results, how they are dumped and
loaded, who frees them, and the growing arrays under all of it.

References such as `rp_stack.c:95` are to `ext/ruby_prof/`.

## The system

| Component | State | Operations | Interacts with |
|---|---|---|---|
| Event hook (`rp_profile.c:75-331`) | none of its own | line, call, return and allocation events | finds the fiber's thread, its method and its node; pushes and pops frames |
| Life cycle (`rp_profile.c:477-828`) | running, paused, tracepoints, last_thread_data, threads_tbl | start, pause, resume, stop, the block forms, add_thread, remove_thread | installs the hook, pauses and empties every thread's stack |
| Frame stack (`rp_stack.c`) | an array of frames that doubles | push, unshift, pop, pause, unpause, find a method by line | adds a popped frame's times to its node and its method |
| Call tree (`rp_call_tree.c`) | nodes with a parent, a table of children, a measurement, visits | create, link, merge, dump, load | owned by a thread, listed by a method |
| Call trees of a method (`rp_call_trees.c`) | a growing array of nodes | add, callers, callees, dump, load | |
| Methods (`rp_method.c`) | measurement, visits, recursive, allocations; a table by key | create, look up, merge, dump, load | |
| Threads (`rp_thread.c`) | stack, method table, root node, trace flag, one per fiber; a table by fiber | create, switch, pause, unpause, merge, dump, load | |
| Measurers (`rp_measurement.c`, `rp_measure_*.c`) | a clock, or a counter of allocations | read | read once per event |
| Allocations (`rp_allocation.c`) | counters per class and line | increment | owned by a method |
| Exclusion (`rp_profile.c:852`, `exclude_common_methods.rb`) | tables of excluded methods and threads | exclude_method! before a start | read by the hook and by the creation of a thread |
| Memory ownership (`owner` in every structure) | C or Ruby | wrap, mark, free | the garbage collector |
| Marshal (`_dump_data`, `_load_data`) | none | dump and load of a finished profile | |
| Ruby classes, printers, Rack adapter, task, command line (`lib/`, `bin/`) | none that matters while profiling | sums, walks, formatting | read finished profiles |

There is no parallelism: the interpreter lets one fiber run at a time. What is
hard is the interleaving. The profile hears of a fiber switch at the first event
after it; it may be started deep in the program and then sees returns of methods
whose calls it never saw; blocks raise no events; pause, resume and stop come at
any moment, for all fibers at once; and every time that is reported is pieced
together from differences of readings kept in the frames of several fibers.
The results are read under the eyes of a garbage collector that frees what it has
not marked, object by object, between any two steps of the program; and they are
full of cycles that a dump has to get through.

Nothing in ruby-prof waits for anything. While a profile runs there is no
liveness to state, and no fairness is assumed. The one thing that could go on
for ever is dumping or loading cyclic results: see "Dump and load" below.

What makes each component correct:

- hook and threads: the frames of a fiber are the calls the fiber is in, whatever
  other fibers do;
- call tree: parents and children describe one tree, the stack is a path in it;
- times: each unit of time goes to one node, as self or as wait time, and totals
  add up, recursive calls once;
- pausing: paused time and nothing else is left out;
- stop: no frame is left;
- allocations: no object is counted twice, each is charged to the method whose
  code makes it, and a profile that measures allocations measures its own;
- arrays: they are sequences, wherever their memory moves;
- merging: results add up, and the tree, the methods' lists of its nodes and the
  graph of callers and callees remain three views of the same calls;
- marshal: every structure is dumped and loaded once, with its references;
- ownership: every structure is freed once, and not while it can be reached from
  what the program holds.

`PROJECT.json` lists, under `hazards`, the lines where these can go wrong.

## The modules

| Module | What it is |
|---|---|
| `ThreadData` | The data of one fiber, as a record, and the operations on it, named as in the C code: frames (`rp_stack.c`), nodes (`rp_call_tree.c`), methods (`rp_method.c`), the parts of `switch_thread` and the pausing of one thread (`rp_thread.c`) |
| `Profiler` | The system: the program's fibers, the event hook, and start, pause, resume, stop, `profile { }` and `resume { }` |
| `ProfilerShape` | Type invariant and properties of trees, stacks and pause marks |
| `ProfilerTimes` | Properties of times and counts |
| `PauseAudit` | `Profiler` with a history of which units of time were paused, and the properties of pausing |
| `StackAudit` | `Profiler` with a history of which of a fiber's calls the hook was told of, and the property that the profiler's stack is made of them |
| `TimeLedger` | The abstract specification of self and wait time |
| `ProfilerLedger` | The refinement from `Profiler` to `TimeLedger` |
| `Allocations` | The NEWOBJ event, `prof_find_method`, the tables of allocations and the counter that all profiles share, for several profiles at a time; calls and returns are those of `Profiler` |
| `AllocationCounts` | Its properties, against the objects really made |
| `GrowStack` | The arrays of `rp_stack.c` and `rp_call_trees.c`: pointers, blocks of memory, doubling, freeing |
| `FrameSequences` | The abstract specification of such an array: a sequence |
| `Merge` | `merge!`, `add_thread`, `remove_thread` and `Thread#methods` on finished results, pointer by pointer |
| `MergeShape` | `callers`, `callees`, `min_depth`, and the properties of merged results |
| `CallTreeSums` | The abstract specification of merging: results add up path by path and method by method |
| `Marshal` | `Marshal.dump` and `Marshal.load` of a profile: the `_dump_data` and `_load_data` of every class, and the links and empty objects by which Ruby deals with cycles |
| `MarshalGraph` | What loading promises |
| `Structures` | The C structures as records, and the heaps there are: who owns what, and what makes up a thread |
| `Ownership` | Structures and the Ruby objects that wrap them: marking, sweeping in any order, freeing, and a program that reads results meanwhile |
| `Lifetimes` | Who may free what, and when |
| `MCPrograms`, `MCProfiler`, `MCPause`, `MCStack`, `MCMerge`, `MCGrow`, `MCAllocations`, `MCMarshal`, `MCOwnership` | Programs and instances for TLC |
| `LoopsAndSums`, `ProfilerProofs` | What the proofs rest on: induction, growing sets and sums; types, links and paths of a thread and of the profile, and how a set of records is shown to be kept |
| `LifecycleProofs`, `CallTreeProofs`, `LedgerProofs`, `AllocationProofs`, `GrowStackProofs`, `OwnershipProofs` | Theorems about starting, pausing, stopping, and the program's stack; call trees, counts and times; the ledger; allocations; the arrays; freeing and marking |

`ProfilerShape` and `ProfilerTimes` extend `Profiler`, which extends `ThreadData`;
the audits, the ledger's refinement and the proofs extend these. `Merge` starts
where `Profiler` ends, from results given as a measurement per path; so do
`Marshal`, from a tree of calls, and `Ownership`, from structures that point to
each other. `Allocations` composes the operations of `ThreadData` and the events of
`Profiler` (`Hook == INSTANCE Profiler`) with the source positions it adds.
`GrowStack` is about the memory below one field of `ThreadData`'s records, the
`stack`, and below the `call_trees` of a method in both other models: that these
may be taken as a sequence and as a set is what it shows.

### How state and actions correspond to the code

A thread record is a `thread_data_t`. Its `nodes` are all call tree nodes ever
made for the fiber, named by their index where the code has a pointer, with 0
for NULL; a node in no children table is still there, as it is in memory. Its
`method_table` has an entry for every key, with a flag for those created. Times
are integers.

`rstack` is the program: the real call stack of each fiber, with blocks as
entries of their own. The profiler cannot see it. `Call`, `Return`, `Line`,
`Yield` and `EndYield` are steps of the program, the first three with the hook
they trigger while the profile runs (`Observe`); `Start`, `Pause`, `Resume`,
`Stop` and the block forms are calls of the profile's own methods, which first
pass through the hook (`check_method` ignores them, but `check_fiber` may switch
fibers). One such step is atomic because the hook runs under the interpreter's
lock. The other variables are fields of `prof_profile_t`; the tracepoints are
enabled exactly while `running` holds. `crashed` is set where the code reads
through a NULL frame, which kills the process.

Simplifications, and why they lose nothing the properties are about:

- The readings of the clock within one call into the profiler are equal: pause
  and stop read again after the hook has read, `pop_frames` once per thread. The
  time between them is shorter than any unit of the model.
- Steps that raise no event do not read the clock; the time they take is part of
  the next reading.
- Source files and lines, class names and allocations are left out: `Allocations`
  has them. The allocation event changes neither trees nor times.
- Frame fields are numbers, not doubles: rounding is not modelled.
- A program's outermost entry does not return, its callers are unknown.
- Exceptions unwind frames by return events, which is how the interpreter
  reports them; `allow_exceptions` only decides whether the block's exception is
  raised again after the profile has stopped.

### Merging

`Merge` names a node by its thread and path and a method by its thread and key,
and keeps every pointer of the code as a field: a node's `parent`, `children` and
`method`, a method's `call_trees`, a thread's `method_table`. So it can tell, as
the code can, whose structure a pointer leads to after
`prof_call_tree_merge_children` has copied a node. `merge!` is four actions, one
for each step of the Ruby loop: `BeginMerge` (`group_by`), `MergeNext`
(`Thread#merge!`, then `remove_thread`), `NextGroup` and `EndMerge`; the other
calls come between merges. The initial states are the results that the event hook
leaves for some tree of calls: what `Profiler`'s invariants say of trees, methods
and recursive totals.

Class names and source positions are left out, as is `Thread#wait_time`, which
sums over a method that `MethodInfo` does not have, and raises. A measurement has
its four fields, of integers.

### Allocations

Here events happen at places. A program's stack (`rstack`) has a line in each
entry, an event carries the file and line of the topmost Ruby code
(`rb_sourceline` in a C method is that of its caller), and `create_method` keeps
those of the event that first names a method: for a method seen called its
first line, for one seen later any line of it, for a C method nowhere,
unless it is first seen by its return: then its caller's (`rp_profile.c:150`).
`Allocate` runs the hook of every profile that listens; each that measures
allocations advances the one `counter`. `made` is the history that the tables and
totals are compared with: for each profile the objects made while it had a
frame, with their class and place, the method that made them, whether the profile
has seen the call of that method, and whether they are `Lexical`: the topmost call
of a method that could have code at that place (`Holds`) is one of that method. Pauses are left out, as NEWOBJ is counted while paused too. The profiles
run without a clock; one that measures allocations reads the counter instead.

### Dump and load

`tree` is the call tree of one thread. The actions are one step of Ruby's Marshal
each: `Write` writes an object's next field or its end, `Read` reads a token. An object
already met is written as a link. On loading, it is allocated before its data is
read (`prof_*_allocate`), and `_load_data` (the `prof_*_load` operators) runs when
they are complete. In between a link may lead to it, and what `prof_call_tree_load`
reads from it is then what the allocation left. A dump is deterministic, so the
model is too, once the tree is chosen; it terminates with the profile `Loaded`
and stutters there. `Spec` has `WF_vars(Next)`: dump and load are two calls that
nothing interrupts, so a step that can be taken is taken.

### Ownership

A structure is a value that stands for its address; its record has `owner`,
`object` and the pointers of its kind. `objects` are the Ruby objects by the
structures they wrap, `null` those whose data pointer has been set to NULL.
`Mark` runs the `prof_*_mark` functions from what the program holds to the end;
`Sweep(o)` runs `prof_*_ruby_gc_free` for one unmarked object. Between these steps
the program goes on (lazy sweeping): it reads (`Read`, the accessors that wrap
what they give), drops, aggregates callers and callees, duplicates measurements,
takes threads out of a profile and puts them into one. When a pointer
that would be followed leads nowhere, anything may happen, and the model stops
(`Sound`); `PointersStayValid` and `HeldAreThere` are the properties that say
where this can be.

A heap need not be a tree of owners. A call tree that a call above the start
replaced (`Replaced`) is in no table, has its parent still and is still in its
method's list: no mark from the top and no free gets to it or below it (`Unfreed`).
A call tree copied by merging can have a parent in another thread (`LeftBehind`).

### Growing arrays

In `GrowStack` a pointer is a block and a place in it; `realloc` may return the
same block or any unused one, and gives the old one back. A write outside of
allocated memory has no effect, which is the mildest thing it can do and enough
for `ImplementsSequences` to fail. What `prof_frame_push`, `prof_frame_pop` and the
pausing of frames do to the fields of a frame is here just a write of some value
through the pointer that the code uses, `ptr`, `ptr - 1` or `ptr - 2`. Stacks of
frames start zeroed and lists of call trees do not; both start as `Garbage`.
`MaxLength` bounds an array for TLC only.

## The runs

The runs of `Profiler` bound the clock (`MaxTime` = 6 readings, one unit apart; 5
in `mirror` and `excluded`), the depth of the program's stacks (`MaxDepth`) and take
at most three methods, of which `each` is a C method (no line events), and two
fibers, in `excluded` a third that is not traced. Six readings are enough for each
fiber to be left and resumed twice, or to climb above the start, call and return.
Depth 3 allows a method to be recursive below another one; `mirror` has depth 4,
for a call in a block called by a C method called in a Ruby method. Deadlock is not checked:
a run ends when the clock is at its bound or the process died.

The runs of `Merge` have three threads. Two have every tree of calls of two
methods with up to three nodes: a root with two calls, or a chain of two, so that
a copied node has a child that is copied after it, a method is below itself, and
paths that only one thread has occur in every place. The third has a root, of
either method, and decides which groups there are. Every node's times are a power
of four that differs by thread, so that no wrong sum is right by accident.
Together `merge!`, `add_thread` and `remove_thread` are called twice (`MaxCalls`),
which includes merging after a removal, merging again, and adding or removing
after a merge. Merging ends, so there is no deadlock to look for.

In the runs of `GrowStack` arrays start with room for one element and hold up to
three, so they double twice, among three blocks: each array can move and stay,
and can move to where another was. A run may end with everything allocated.

| Run | Question | Setting |
|---|---|---|
| `core` | Do trees, stacks, visits and times stay consistent, and is the profile a lazy form of the time ledger? | two fibers, start inside `foo` called by `main`, one profile |
| `mirror` | Is the profiler's stack made of the calls it was told of? | two fibers, an excluded Ruby method, a C method and the blocks it yields to, `profile { }` around stop and start, several profiles, unobserved code between them |
| `excluded` | Is the stack empty after stop, and always empty for an untraced fiber? | three fibers, an excluded method, blocks, pauses, both block forms, several profiles |
| `pause` | Do pause marks stay on top, and is only paused time left out? | two fibers, pause and resume in any order, `resume { }` |
| `merge` | After merging, are the tree, the methods' lists, the call graph from both sides, the depths, the sums and the cached methods consistent? | three threads |
| `grow` | Are the arrays sequences, with pointers that fit their memory? | a stack and a list that grow, move, shrink and are freed |
| `allocations` | Is each object counted once, where it was made, and in the right profile? | two profiles that measure allocations, in any order or at once; recursion, a C method, and blocks of methods further down the stack |
| `marshal` | Does dumping and loading end, and what does it keep? | every tree of up to four nodes over three methods, and two larger ones |
| `lifetimes` | Is all freed once, in time and not too early? | a recorded profile, one with a thread the program has built, a moved thread, two profiles with a replaced call tree and one with merged threads, in any order of marking, sweeping, reading and dropping |

The run of `Allocations` has one file with three methods, the second of which
calls down the file, into itself and into C, and two classes. Stacks are four
deep (`MaxDepth`) and calls, yields and objects four together (`MaxSteps`): enough
for a C method to call a block that makes an object below a recursive frame, or for
two profiles to start and stop around two objects. Starts, stops, lines and
returns are not limited, each profile runs once. A program may stop anywhere.

In the runs of `Marshal` four nodes are enough for a method to be pending while
its callers, its recursive calls and its siblings are read. `Mutual` has two
methods that call each other, `Crossing` is the smallest tree found without
recursion that loses a child. A correct dump has at
most seven objects for each call tree (`MaxObjects`); were there more,
`EventuallyLoaded` would fail.

The run `lifetimes` begins in one of six worlds. `Recorded` is a profile with two
threads, one with a recursive method; in `Built` the program has made the thread, in
`Moved` it is in another profile than the one that recorded it. So there are a parent,
a child, a list of two, a measurement and an allocation to hold. `Replacing` is what
a call above the start leaves that entered the method of the old root: the old root,
with a child, is in its method's list and in no table; in `MovedOn` the thread with
such a tree has been moved. In `Merging` a call was merged into the thread of a
profile, and the thread it came from moved to another profile, so that the merged
call tree can lose its parent. Measurements, allocations and lists of methods that
show no more than those of another world are left out. The
program holds two objects at a time (`MaxHeld`): one to reach a structure
by, one to keep. One aggregated copy and one duplicate exist at a time, and their
places are used again once freed. A program may stop anywhere.

The other three runs each show the code at odds with something said of it. The
statement is the property, and TLC finds it violated.

| Run | What it shows |
|---|---|
| `survives` | resume hands a NULL frame to `prof_frame_unpause` when some fiber of the table has an empty stack, for instance a thread that is excluded. |
| `lostchild` | A loaded call tree files its children by the keys of methods of which some are still empty: two siblings get one key, and one replaces the other (`rp_call_tree.c:476`). |
| `lists` | Nothing marks the object of a method's call trees (`rp_method.c:204`). Asked for between marking and sweeping, it is freed while the program holds it. |

### What the models do that one would not expect

These are in the models as they are in the code. The properties are stated so
that they hold, and the ones below say where they had to give way.

- A method that returns during a pause takes the pause mark with it; the rest of
  the pause is recorded as its caller's time (`rp_stack.c:184`). So `LiveTimeIsKept`
  is an inequality.
- When a pause and a fiber switch overlap, the overlap is subtracted twice, as
  dead and as wait time (`rp_stack.c:162`). So `ImplementsLedger` and
  `NodeTimesBalance` are about runs without pauses.
- A node put above the root takes over the old root's wait time, which its total
  has as a child's already (`rp_stack.c:144`): `NodeTimesBalance` allows climbed
  nodes to be off by it. It also adds the old root's total to its method
  (`rp_stack.c:146`), twice if the profile was started inside a recursive method:
  `MethodTotalsCountOnceBelowStart` stops where the profile has climbed.
- A call above the start does not look for the new top's existing child, and
  replaces it (`rp_profile.c:287`). The replaced tree stays in its method's list, so
  `MethodsSumTheirCallTrees` holds, but it is not reached from the root.
- That replaced tree is in no table (`rp_call_tree.c:240`), and freeing walks tables
  (`rp_call_tree.c:100`): it is never freed, with all that is below it and their
  measurements, although a comment says that the call trees of a list "will free
  themselves" (`rp_call_trees.c:56`). `NothingIsLeft` has an exception for it
  (`Unfreed`): as an equality, it says that the replaced call trees, and removed threads,
  are what is left, always. Nor is it marked from the top of the tree, so that its
  object, or that of a call tree below it, can be given by `call_trees`
  (`rp_call_trees.c:192`) or `children` between marking and sweeping and be swept while
  it is held: `HeldAreThere` has an exception for it.
- A child that merging copied keeps its parent pointer, to a call tree of the
  thread that was merged away (`rp_call_tree.c:388`). `GraphFromBothSides`,
  `CallersAccountForCalls` and `MinDepthIsLeastDepth` hold all the same: that
  parent has the same method and the same depth. That is not obvious from the
  code, and it is what `callers` and `min_depth` rely on. Nothing keeps that parent
  alive: if the thread merged away is put into another profile and freed with it, the
  pointer dangles. `PointersStayValid` has an exception for it (`LeftBehind`).
- Merging does not take over a method's `recursive` flag (`rp_method.c:303`), and
  no property says that it does.
- Two profiles that measure allocations at the same time count every object
  twice (`rp_measure_allocations.c:13`). `AloneMeasuresExactly` is about profiles
  that run without another.
- Objects are charged by file and first line only (`rp_profile.c:319`): to the
  topmost method that begins further up in the file, whoever made them. That is
  the right one where the same search through the program's own stack would find
  the method (`Lexical`), and need not be elsewhere: a block of `foo` that runs above
  a call of `bar`, defined before the block's line, has its objects charged to `bar`. The
  search goes by the lines the profile has seen. A method that was open at the start has
  whatever line it was first seen on (`FirstSeenCalled`), and a C method first
  seen by its return takes its caller's line for its own, and from then on objects
  made below that line (`NoneSeenReturning`). `CountedWhereMade` says that these are all
  the reasons there are.
- Two classes and lines get one key when their addresses differ by a sixteenth
  of the distance of the lines (`rp_allocation.c:125`). `NeverOvercounted` is
  checked with classes as far apart as they are on a heap page, and proved if no
  two pairs of a class and a line have one key (`KeysDiffer`).
- A loaded child can be filed under the key of an empty method, so that a later
  merge does not find it; a loaded method has no profile. `ReferencesSurvive`
  says what is kept, `ChildrenLostOnlyToPending` what can be lost.
- A method keeps alive the profile that it was recorded by, if any, which need
  not be the one that will free it: `add_thread` does not tell the methods of a thread
  that the program has built, or moved from another profile (`rp_profile.c:777`).
  What the program holds of such a thread, copies that `callers` or `callees`
  gave of its call trees, and its replaced call trees can outlive it, although
  `docs/architecture.md:209` says that a profile lives as long as there are references
  to any of its methods or call trees. `HeldKeepTheirData` and `PointersStayValid` have an exception for them
  (`OfStrangers`).
- A thread taken out of a profile stays owned by the C code and is never freed
  (`rp_profile.c:777`): `NothingIsLeft` has an exception for it. A thread added to
  two profiles would be freed twice; the model's programs do not.
- `prof_call_trees_free` frees the list and leaves its array (`rp_call_trees.c:57`).

### The ledger

`TimeLedger` says what self and wait time are: at each reading, the time since
the last one is charged to the node on top of each fiber's stack, as self time
for the fiber that ran and as wait time for the others. ruby-prof never does
this. It keeps start times, switch times and children's totals in the frames and
works the rest out when a frame is popped. The refinement mapping adds to what
is already in a node what its open frames will add, and TLC checks that every
step of `Profiler` without pauses is then a step of the ledger.

## What is proved

What is proved of `Profiler` holds for every set of fibers and methods, every
program, every clock and every exclusion, with pauses, restarts and every
interleaving of fibers. The assumptions are `InsertedParentAssumption` (the dummy's
key is not one of the program's methods) and `ProfilerAssumption` (the constants
have their types); `StackAlwaysMirrors` and `LedgerIsKept` have one more each,
below. What is assumed of allocations, of arrays and of the collector is in their
sections.

| Module | Theorem | Property |
|---|---|---|
| `ProfilerProofs` | `ProfileIsTyped` | `TypeOK` |
| | `CallTreesStayLinked` | `CallTreesLinked` |
| | `StackStaysARootPath` | `StackIsRootPath` |
| `LifecycleProofs` | `StoppedStaysIdle` | `StoppedIsIdle` |
| | `PauseMarksStayOnTop` | `PauseMarksOnTop` |
| | `LiveTimeAlwaysKept` | `LiveTimeIsKept` (of `AuditSpec`) |
| | `StackAlwaysMirrors` | `StackMirrorsProgram` (of `StackAuditSpec`), if stacks begin with `HomeEntered` |
| `CallTreeProofs` | `VisitsAlwaysCountFrames` | `VisitsCountFrames` |
| | `ParentLinksAlwaysEnd` | `ParentLinksEnd` |
| | `RecursiveAlwaysMeansNested` | `RecursiveMeansNested` |
| | `MethodsAlwaysSumTheirCallTrees` | `MethodsSumTheirCallTrees` |
| | `MethodTotalsAlwaysCountOnce` | `MethodTotalsCountOnceBelowStart` |
| | `NodeTimesAlwaysBalance` | `NodeTimesBalance` |
| `LedgerProofs` | `LedgerIsKept` | `ImplementsLedger`, if the program never pauses |
| `AllocationProofs` | `AllocationsTyped` | `TypeOK` (of `AllocationCounts`) |
| | `NeverOvercountedAlways` | `NeverOvercounted`, if `KeysDiffer` |
| | `CountedWhereMadeAlways` | `CountedWhereMade`, if `KeysDiffer` |
| | `AloneMeasuresExactlyAlways` | `AloneMeasuresExactly` |
| `GrowStackProofs` | `ArraysFit` | `TypeOK`, `PointersFit`, `ElementsWritten` |
| | `ArraysAreSequences` | `ImplementsSequences` |
| `OwnershipProofs` | `Typed` | `TypeOK` (of `Lifetimes`) |
| | `Linked` | `LinksAgree` |
| | `OwnedByOne` | `OneOwner` |
| | `NothingLeft` | `NothingIsLeft` |
| | `HeldThere` | `HeldAreThere` |
| | `PointersValid` | `PointersStayValid` |
| | `DataKept` | `HeldKeepTheirData` |

### Types, links, paths

They follow from one inductive invariant, `IInv`. The type invariant alone is not
inductive: a pop updates the node its frame names, so the frame has to name a
node of its own thread. Frames are only known to do that because they are a path
down from the root of the tree, and a push keeps the path only because the hook
pushes a child found in, or just entered into, the top node's table; that in turn
needs the tables to be linked to nodes of the right key. `LastIsKnown` says that a
running profile has its last thread in the table, which `switch_thread` reads
without a test.

The argument goes bottom up. `ProfilerProofs` shows first that the record updates keep
their types and leave links alone, then of each operation on a thread that it
keeps the tree linked (`SameTree`: only times change; `ChildTree`, `FirstTree`,
`ClimbTree`: a node is added below the top, first, or above the root) and the
stack a path. It then combines them along the paths of the hook and the methods of
the profile, one step per action. `LoopsAndSums` has the induction that the loop
emptying a stack needs (the library's induction theorems take an operator as a
parameter, which the provers cannot instantiate, so the principle is stated for
sets and derived from well-foundedness), and what a sum over a finite set is.

### Kept sets of records

The invariants about counts, marks and times are of the form "the record of each
thread is in a set". `ProfilerProofs` says what there is to prove for such a set:
whatever the hook, a switch, a pause or a stop do to a record is made of a change
of its times (`Alike`), a push (`PushedOn`), a pop (`PoppedOff`), growing below the top
(`GrownBelow`) and growing above the root (`GrownAbove`), and a set closed under
these five is a `Kept` one (`KeptAt` and `KeptRunning` for sets that speak of a
reading, with which time passes first and then the step is taken). `KeptIsInductive`
is then the whole of the induction over the actions of `Profiler`. These
theorems rest on such a set each (but for the marks, where what is kept also depends
on whether the profile is paused):

- `VisitsCountFrames` needs `Counted`: the visits of a node are its frames, at most
  one, since the frames are a path and a path passes no node twice; those of a
  method are the frames of all its nodes.
- `ParentLinksEnd` needs `Ranked`: there is a numbering of the nodes by which
  every parent is less than its children. Indices are no such numbering, a climb
  makes a parent that is younger.
- `RecursiveMeansNested` needs `Nested`: the frames of a fiber are the ancestors of
  the top frame's node, all of them. So a method that is open when it is pushed has
  a node above the one pushed.
- `MethodsSumTheirCallTrees` needs no more than types (`Summed`), but is about sums:
  what a pop adds to one node it adds to one method (`SumFunction` and its lemmas in `LoopsAndSums`).
- `MethodTotalsCountOnceBelowStart` needs `Once`: a method's visits are not zero
  exactly while an outermost node of it is open, so that the pop which adds to the
  total is that node's. After a climb it claims nothing, and that state lasts.
- `NodeTimesBalance` needs `Balanced`: a node's surplus over what its own time, its
  children and its open frames account for is changed by nothing but the climb
  that puts it above another node, and what it then takes over is a wait; and no
  wait is negative, since no frame was switched out after the last reading.
- `PauseMarksOnTop` needs `IdleInv` below: a new thread and an untraced one have no
  frame to mark, and a stop leaves none.
- `LiveTimeIsKept` needs `Lively`: the dead times of a frame and of the children
  popped into it, and those of the frames above it, come to no more than the
  paused units since it was started.

`StoppedIsIdle` is not of that form, it relates a record to `running`. The
invariant added, `IdleOK`, says of untraced fibers that they also keep the trace
flag which the hook tests. Then there is one lemma per entry into the profile:
switching and pausing leave an empty stack alone, a resume that finds one changes
nothing, and a stop pops as many frames as there are (`PopAllOK`).

### The program's stack

`StackMirrorsProgram` speaks of the nodes of frames and of the program's stack, and
the profiler never sees the latter. The proof first reduces what an event does to
the sequence of keys of the frames (`KeysOf`): a line sets the first one, a call
appends one, on an empty stack after the dummy if need be, a return takes the last,
and nothing else, no switch, pause or growth of the tree, changes any (`HandleKeys`,
`SwitchKeys`, `AlikeKeys`, `GrownKeys`). Then `Mirrors` relates such a sequence to a
stack and to the number of calls seen. It says more than the property: a frame
below those of the calls seen is the dummy or is of a method with an entry, a call or
a block, below all of these calls. Without that the method could have
returned while its frame was left at the bottom. One lemma says
what `Mirrors` becomes for each step of the program (`CallMirrored`,
`LineMirrored`, `ReturnMirrored`; `UnseenMirrored` for blocks and excluded methods),
`RunningSteps` that there are no others, action by action.

A block that ends must not take the last entry of its method with it. `Entered` says
so: below a block there is an entry of its method, except for the block a new fiber
begins with. Every step keeps it (`NextEntered`); that the program's stacks are such
when it begins, `HomeEntered`, is the hypothesis of the theorem. It is what Ruby
stacks look like, and `HomeDeep` and `HomeMain` of `MCPrograms` satisfy it.

### The ledger

`LedgerIsKept` proves `Spec => ImplementsLedger` from `NeverPaused`: the program
uses neither pause nor the block form of resume, and does not begin inside of one.
The restriction is the abstract specification's: a ledger in which somebody is
charged for every unit has no place for paused time, which is charged to nobody.
`MCProfiler_core` satisfies it.

A fiber that does not run is looked at as if it took over at that moment, so that
its top frame's wait is complete and one formula says what the frames of any
fiber will charge. `TimeCharges` says that when time passes each fiber's top node
is charged with it, and no other. `Booked` says of a step at one reading that it
may move charges from frames to nodes and creates none; `BookedKept` that
the hook, a switch and a stop are such steps. The invariant under which this holds,
`LedgerInv`, has `MarksInv`, `Balanced` and, for every record, that no frame has dead
time or a pause mark. `MaxTime` and `Ticks` may have any values.

### Allocations

The theorems of `AllocationProofs` hold for every program, file layout and set of
classes, and for any number of profiles that start and stop as they like. They assume
`AllocationsAssumption` (the constants have their types, and no method has code
above its first line), and two of them `KeysDiffer`, which depends on where the heap
puts classes; it is true of `Slots`. Each profile has a hook of its own and the
operators are those of `Profiler`, so `LedgerProofs` is instantiated as `H` and what is
a `Kept` set there is kept here by every event of every profile (`HookKept`).

- `AllocInv` is types, and that a table has entries for lines of its method's file
  under the keys computed from them (`TableFits`), which is `AllocationsTyped`.
  `CheckMethodIs`, `FoundIs` and `IncrementIs` say what the steps of the NEWOBJ event do,
  `StepIs` what a step of the program can be to the profiles.
- `NeverOvercounted` needs `NoneOvercounted`, the same for every class and place and
  summed over all methods: an object adds one to one method's entry or to none
  (`ObjectAddsOne`), and an event moves nothing.
- `AloneMeasuresExactly` needs `AloneInv`: what the root has measured, or will when
  it is popped at this reading of the counter (`RootMeasures`), is the number of
  objects made. A climb moves the start of the new root back to that of the old
  one, and what other profiles do leaves the counter alone while nobody else measures.
- `CountedWhereMade` needs `FramesInv`: a profile's frames mirror the calls it was
  told of, these are on top of those it was not (`ToldAbove`), and below a block
  there is a call of its method (`BlocksInMethods`). From that follows
  `FoundWhereMade`, the heart of it: the search through the frames comes to the same
  method as one through the program's calls, since of the frames above the right one
  none can have code at the place, and the right one is there. `CountedInv` counts
  what was found.

### Growing arrays

For every initial size, any numbers of stacks, lists and blocks, and wherever
memory moves, both theorems of `GrowStackProofs` follow from `GInv`, the
conjunction of three invariants none of which is inductive without the others: a
write through `ptr` keeps the types because the pointers fit, and a moved array
keeps its elements because its old size is that of its block. `StoreKeeps`,
`StoreLastElements` and `StoreNextElements` say what a write does to an array's
elements, `VerifyMakesRoom` what growing does, and `Replaced` and `Dropped` that a
step on one array leaves the others alone, which is where sharing no block is
needed. `StepImplements` combines one lemma per action into the refinement's step.
The assumption is `GrowStackAssumption`: stacks are not lists, the garbage is no
value, and the initial size is positive. `ArraysAreTyped` and `ElementsAlwaysWritten`
state the parts of `ArraysFit` that the run checks one by one.

### Ownership

The theorems of `OwnershipProofs` hold for every set of `Worlds`: any number of
profiles, threads and trees of any shape, recorded, built by the program or moved,
and any number of objects held (`MaxHeld`). `WorldsAssumption` says what such a world
is, and `AllWorlds` satisfies it: pointers go to the kinds they claim, everything is
owned at most once and nothing owns itself by way of others; what nobody owns is an
object's, a thread, or a replaced call tree (`OwnedOnce`). The methods of a thread know one
profile, and list calls that are of them and in C's hands (`CallsOf`), in the thread's
tree or replaced. Parents can be in another thread, as merging leaves them, if its methods
know the same profile (`Related`). What is allocated later
is not known to anyone (`Unknown`). The program keeps to it as in the model: it adds a
thread only if it is in no profile.

`HeapOK` is the part of the invariant about the heap: it stays such a world
(`Proper`), and structures and objects agree (`LinksAgree`). The first four theorems
need no more. A sweep keeps it because what it frees owns all it reaches
(`Freeable`, and `Frees` for each `prof_*_free`); a copy, because it takes
no children along and has its own measurement (`CopyFields`). That following
children as often as there are structures reaches all below a node, and marking as
often as there are objects all that is marked, is `ClosureReached` of
`LoopsAndSums`: a set that grows by a fixed rule stops growing before it runs
out of elements. `NothingLeft` goes up the owners of what is left (`NoCycle`) to a
thread in no table or to a replaced call tree.

`Marks` is the part about the collector. An object *leads to* the thread S
that its marks reach (`Leads`), and then the profile that the methods of S know is
not doomed, nor swept (`Alive`); a thread or the profile it is in *attends to* all of
its parts (`Attends`), none of which then is doomed, except lists of call trees (`Whole`).
That is what saves an object wrapped between marking and sweeping: it is not
marked, but what led to it was, and marked the profile by a method. After `Mark` this
holds of all that is marked, because marked sets are closed under `MarkedBy`
(`MarkedIs`); a sweep frees only threads nobody leads to or those of a profile
that their methods do not know; a reader gives what is part of the thread that its
object leads to already. A call tree, a copy or a replaced one too, leads to the thread
of its method (`NodeOfThread`). `MarksHold`, `MarksKeepPointers` and `MarksKeepData` draw
the conclusions. The exceptions are those of the properties: a built or moved
thread has methods that know no profile or another one, so nothing keeps the one that
frees it alive; a replaced call tree is freed with nothing, so it outlives its method
(`UnfreedStays`), and `Attends` does not reach it; and what is the parent of a merged call
tree when the program begins is the only parent that can go first (`LeftBehind`).

### Only model checked

- What dumping and loading keep: the order in which objects are written and
  links to them resolved is computed with operators of the community modules (`SelectSeq`
  and others) that are recursive or choose, and about which the provers know nothing.
- Merging: its recursion over pairs of trees is written with RECURSIVE operators,
  which the provers do not support, and what a recursive definition computes for
  every tree would take an induction over data.
- `EventuallyLoaded`: liveness is out of the provers' reach.
- The runs that expect a violation.

## Not modelled, and the plan

Not modelled, because it is output or glue: printers, the Rack adapter, the rake
task, the command line, the Ruby classes over finished results (but for `merge!`),
class name resolution, the list of names in `exclude_common_methods.rb`, the trace
file.

Also left out: `CallTree.new`, `add_child`, `Thread.new` and the setters of
measurements, by which tests build results by hand; the options of `initialize`,
which are constants here, and `allow_exceptions`; compaction, as objects do not
move in `Ownership` (`rp_call_trees.c:110` has no function for it); the ownership of
loaded structures; merging while objects are read, as `Ownership` begins when it is
done, and merging by hand of threads whose methods know different profiles; and the
data that a second start replaces in the table of threads (`rp_profile.c:650`) and leaks.

What is left to do: proofs about `Marshal`, which would begin by giving its
sequences a form the provers can reason about, and dumping and loading of results
that have been merged.
