---------------------------- MODULE ProfilerShape ---------------------------
(***************************************************************************)
(* The shape of what the profile keeps, whatever the fibers of the program *)
(* do and whenever it is started, paused, resumed and stopped: the call    *)
(* trees, the stacks of frames and how they mirror the program's stacks.   *)
(***************************************************************************)
EXTENDS Profiler, FiniteSets

-----------------------------------------------------------------------------
(* Reading the thread data. *)

Nodes(t) == DOMAIN t.nodes
Frames(t) == DOMAIN t.stack
FrameKey(t, i) == KeyOf(t, t.stack[i].call_tree)

(* The stack position of node n, if it has one. *)
FramesOf(t, n) == {i \in Frames(t) : t.stack[i].call_tree = n}

(* The nodes whose parent is n, also those no longer in its children table.*)
ChildrenOf(t, n) == {c \in Nodes(t) : t.nodes[c].parent = n}

NodesOf(t, k) == {n \in Nodes(t) : t.nodes[n].method = k}

(* Where the loop of prof_call_tree_figure_depth is after i rounds.        *)
Ancestor(t, n, i) ==
  LET up[j \in Nat] ==
        IF j = 0 THEN n
        ELSE IF up[j - 1] = NULL THEN NULL ELSE t.nodes[up[j - 1]].parent
  IN  up[i]

ProperAncestors(t, n) ==
  {Ancestor(t, n, i) : i \in 1 .. Len(t.nodes)} \ {NULL}

(* A node that Climb has put above an older one.                           *)
Climbed(t, n) == \E c \in ChildrenOf(t, n) : c < n

EveryThread(P(_)) == \A f \in DOMAIN threads : P(threads[f])

-----------------------------------------------------------------------------
(* Every variable has its type.                                            *)
TypeOK ==
  /\ rstack \in [Fibers -> Seq(Entry)]
  /\ now \in 0 .. MaxTime
  /\ running \in BOOLEAN
  /\ paused \in BOOLEAN
  /\ last \in Fibers \cup {NoFiber}
  /\ DOMAIN threads \subseteq Fibers
  /\ \A f \in DOMAIN threads : threads[f] \in Thread
  /\ crashed \in BOOLEAN

-----------------------------------------------------------------------------
(* The shape of the call tree. *)

LinkedNode(t, n) ==
  LET node == t.nodes[n] IN
  /\ \A k \in Keys : node.children[k] # NULL =>
       /\ node.children[k] \in Nodes(t)
       /\ t.nodes[node.children[k]].method = k
       /\ t.nodes[node.children[k]].parent = n
  /\ n = t.call_tree <=> node.parent = NULL
  /\ n # t.call_tree =>
       /\ node.parent \in Nodes(t)
       /\ \/ t.nodes[node.parent].children[node.method] = n
          \/ t.nodes[node.parent].method = InsertedParent

RootedTree(t) ==
  /\ t.nodes = <<>> <=> t.call_tree = NULL
  /\ t.nodes # <<>> => t.call_tree \in Nodes(t)
  /\ \A n \in Nodes(t) : LinkedNode(t, n)

(* The parent pointers and the children tables of a thread describe one    *)
(* tree with thread->call_tree on top: a table leads to a node of the key  *)
(* it is stored under whose parent is the table's owner, only the root has *)
(* no parent, and a node is in its parent's table unless that parent is a  *)
(* dummy inserted above it.                                                *)
CallTreesLinked == \A f \in DOMAIN threads : RootedTree(threads[f])

(* Following parents from any node ends (prof_call_tree_figure_depth and   *)
(* the visitors walk a tree assumed to be acyclic).                        *)
ParentLinksEnd ==
  EveryThread(LAMBDA t :
    \A n \in Nodes(t) : Ancestor(t, n, Len(t.nodes)) = NULL)

(* The frames of a fiber are a path down from the root of its call tree:   *)
(* each frame's node is in the children table of the node of the frame     *)
(* below, so what a frame measures can be found from the root.             *)
RootPath(t) ==
  \A i \in Frames(t) :
    /\ t.stack[i].call_tree \in Nodes(t)
    /\ IF i = 1 THEN t.stack[i].call_tree = t.call_tree
       ELSE t.nodes[t.stack[i - 1].call_tree].children[FrameKey(t, i)]
              = t.stack[i].call_tree

StackIsRootPath == \A f \in DOMAIN threads : RootPath(threads[f])

(* The visits of a node and of a method count their frames: the totals are *)
(* updated when visits = 1, so a stray visit would lose or double a total. *)
(* A node is never on the stack twice.                                     *)
VisitsMatch(t) ==
  /\ \A n \in Nodes(t) :
       Cardinality(FramesOf(t, n)) = t.nodes[n].visits /\ t.nodes[n].visits <= 1
  /\ \A k \in Keys :
       t.method_table[k].visits
         = Cardinality({i \in Frames(t) : FrameKey(t, i) = k})

VisitsCountFrames == \A f \in DOMAIN threads : VisitsMatch(threads[f])

(* Once stopped, and for a fiber that was never traced, no frame is left.  *)
StoppedIsIdle ==
  \A f \in DOMAIN threads :
    ~running \/ f \in Untraced => threads[f].stack = <<>>

-----------------------------------------------------------------------------
(* Pausing. *)

(* A frame that carries a pause mark is the top one of its fiber, and the  *)
(* profile is paused: otherwise the mark would take the time up to the     *)
(* next pop of that frame as paused.                                       *)
PauseMarksOnTop ==
  ~crashed => \A f \in DOMAIN threads : \A i \in Frames(threads[f]) :
    Paused(threads[f].stack[i]) => paused /\ i = Len(threads[f].stack)

(* The process survives every resume.                                      *)
ResumeSurvives == ~crashed

=============================================================================
