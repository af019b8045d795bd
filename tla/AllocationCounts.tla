-------------------------- MODULE AllocationCounts --------------------------
(***************************************************************************)
(* What the tables of allocations and the allocations measurer owe to the  *)
(* objects the program has made.                                           *)
(***************************************************************************)
EXTENDS Allocations, Functions

Locations ==
  UNION {{At(Sources[k].file, line) : line \in Sources[k].body \cup {Sources[k].first}}
         : k \in RubyMethods}

Allocation == [klass : Classes, source_line : Nat, count : Nat]

(* Every variable has its type.                                            *)
TypeOK ==
  /\ rstack \in Seq([method : Methods, block : BOOLEAN, line : Nat,
                     told : SUBSET Profiles])
  /\ steps \in 0 .. MaxSteps
  /\ \A p \in Profiles : made[p] \in [DOMAIN made[p] -> Nat \ {0}]
  /\ alone \subseteq AllocationMode
  /\ counter \in Nat
  /\ \A p \in Profiles :
       /\ profiles[p].status \in {"new", "running", "stopped"}
       /\ profiles[p].thread \in Thread
       /\ profiles[p].source \in [Keys -> Locations \cup {Nowhere}]
       /\ \A k \in Keys : LET table == profiles[p].allocations[k] IN
            \A key \in DOMAIN table :
              /\ key \in Nat
              /\ table[key] \in Allocation

-----------------------------------------------------------------------------
(* How many objects of class c made at loc the method k is charged with.   *)
Charged(p, k, c, loc) ==
  LET table == profiles[p].allocations[k]
      key == allocations_key(c, loc.line)
  IN  IF profiles[p].source[k].file = loc.file /\ key \in DOMAIN table
         /\ table[key].klass = c /\ table[key].source_line = loc.line
      THEN table[key].count ELSE 0

(* The objects of class c made at loc. *)
MadeAt(p, c, loc) ==
  LET objects == {o \in DOMAIN made[p] : o.klass = c /\ o.loc = loc}
  IN  SumFunction([o \in objects |-> made[p][o]])

(* No two pairs of a class and a line have one key. The key adds the line  *)
(* to the address of the class, so this is for the heap to grant.          *)
KeysDiffer ==
  \A c, d \in Classes, l, m \in {loc.line : loc \in Locations} :
    allocations_key(c, l) = allocations_key(d, m) => c = d /\ l = m

(* The table of each method has one entry for a class and a line, found    *)
(* by a key computed from both, and an object is looked for on the whole   *)
(* stack: still no object is counted twice, nor under the class or line of *)
(* another, as long as no two pairs of a class and a line have one key.    *)
NeverOvercounted ==
  \A p \in Profiles, k \in Keys :
    LET table == profiles[p].allocations[k] IN
    \A key \in DOMAIN table :
      LET c == table[key].klass
          loc == At(profiles[p].source[k].file, table[key].source_line)
      IN  SumFunction([j \in Keys |-> Charged(p, j, c, loc)]) <= MadeAt(p, c, loc)

(* rp_profile.c:319 wants allocations to be assigned lexically. The search *)
(* goes by what the profile takes for the lines of methods, and through    *)
(* frames of calls it has seen: it comes out as a search through the       *)
(* program's own stack would, for objects made in a method whose call was  *)
(* the first the profile saw of it, if it has not taken the place where a  *)
(* C method was first seen to return for that method's own.                *)
FirstSeenCalled(p, k) ==
  profiles[p].source[k] = At(Sources[k].file, Sources[k].first)

NoneSeenReturning(p) == \A k \in CMethods : profiles[p].source[k] = Nowhere

CountedWhereMade ==
  \A p \in Profiles : track_allocations(p) /\ NoneSeenReturning(p) =>
    \A o \in DOMAIN made[p] :
      o.told /\ o.lexical /\ FirstSeenCalled(p, o.method) =>
        Charged(p, o.method, o.klass, o.loc) >= made[p][o]

(* The counter of allocations belongs to the process, and every profile    *)
(* that measures allocations advances it. Yet a profile that ran without   *)
(* another such profile measures just the objects made under its root.     *)
AloneMeasuresExactly ==
  \A p \in alone \ Running :
    LET t == profiles[p].thread IN
    t.call_tree # NULL =>
      t.nodes[t.call_tree].total_time = SumFunction(made[p])
=============================================================================
