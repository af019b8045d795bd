------------------------------ MODULE Marshal -------------------------------
(***************************************************************************)
(* Marshal: a finished profile is dumped and loaded again. Ruby's Marshal  *)
(* asks each object for its data, a hash of further objects, with          *)
(* _dump_data; what it has met before it writes as a link, so that the     *)
(* cycles of the results (call trees know their parents, children and      *)
(* methods, methods their call trees) end. Reading, it allocates an object *)
(* before it reads its data and calls _load_data only when the data is     *)
(* complete: by a link, the loading of one object comes to see others that *)
(* are allocated and still empty.                                          *)
(***************************************************************************)
EXTENDS SequencesExt

CONSTANTS
  Trees,       \* the call trees to dump: see Child
  MaxObjects,  \* bound: the objects that are dumped, for each call tree
  UnsetKey,    \* stands for method_key(Qnil, 0)
  PendingKey   \* stands for method_key(Qnil, Qnil)

(* A tree is a sequence of call trees in the order of their creation, each *)
(* with the place of its parent and its method.                            *)
ASSUME MarshalAssumption ==
  /\ MaxObjects \in Nat
  /\ UnsetKey # PendingKey
  /\ \A t \in Trees : \A n \in DOMAIN t :
       t[n].parent \in 0 .. n - 1 /\ t[n].method \notin {UnsetKey, PendingKey}

VARIABLES
  tree,      \* the call tree of the only thread of the profile
  objects,   \* the C structure of each VALUE of the dumped results
  written,   \* Marshal.dump: the VALUEs written, in order
  writing,   \* the objects being written, each with what is left of its data
  stream,    \* the dump
  reading,   \* Marshal.load: the objects being read, with the data read
  position,  \* the tokens read
  loaded     \* the C structures of the objects allocated, in order

vars == <<tree, objects, written, writing, stream, reading, position, loaded>>

-----------------------------------------------------------------------------
(* The results. *)

Struct(type, of) == [type |-> type, of |-> of]
Profile == Struct("Profile", 0)
Thread == Struct("Thread", 0)

Child(n, c) == tree[c].parent = n
CreationOrder(S) == SetToSortSeq(S, <)
Children(n) == CreationOrder({c \in DOMAIN tree : Child(n, c)})
CallTreesOf(k) == CreationOrder({n \in DOMAIN tree : tree[n].method = k})

(* Methods enter the table when they are first called. *)
MethodTable ==
  LET first == SelectSeq([n \in DOMAIN tree |-> n],
                         LAMBDA n : n = CallTreesOf(tree[n].method)[1])
  IN  [i \in DOMAIN first |-> tree[first[i]].method]

(* The structures that the data of a structure has wrapped, by field. Each *)
(* method has made objects of one class.                                   *)
Field(name, s) == [field |-> name, struct |-> s]
Each(name, type, ids) == [i \in DOMAIN ids |-> Field(name, Struct(type, ids[i]))]

prof_profile_dump == <<Field("threads", Thread)>>

prof_thread_dump ==
  Each("methods", "Method", MethodTable) \o Each("call_tree", "CallTree", <<1>>)

prof_method_dump(k) ==
  Each("call_trees", "CallTrees", <<k>>) \o Each("measurement", "Measurement", <<k>>)
    \o Each("allocations", "Allocation", <<k>>)

prof_call_trees_dump(k) == Each("call_trees", "CallTree", CallTreesOf(k))

prof_call_tree_dump(n) ==
  Each("measurement", "Measurement", <<n>>)
    \o (IF n = 1 THEN <<>> ELSE Each("parent", "CallTree", <<tree[n].parent>>))
    \o Each("children", "CallTree", Children(n))
    \o Each("target", "Method", <<tree[n].method>>)

_dump_data(s) ==
  CASE s.type = "Profile" -> prof_profile_dump
    [] s.type = "Thread" -> prof_thread_dump
    [] s.type = "Method" -> prof_method_dump(s.of)
    [] s.type = "CallTrees" -> prof_call_trees_dump(s.of)
    [] s.type = "CallTree" -> prof_call_tree_dump(s.of)
    [] s.type \in {"Measurement", "Allocation"} -> <<>>

(* Mutant: every access makes a new Ruby object. *)
WrapAnew(objs, structs) == objs \o structs

(* The *_wrap functions: a structure is wrapped once.                      *)
wrap(objs, structs) == objs \o SelectSeq(structs, LAMBDA s : s \notin Range(objs))
ValueOf(objs, s) == SelectLastInSeq(objs, LAMBDA o : o = s)

-----------------------------------------------------------------------------
(* Marshal.dump. A token starts the data of an object, names one written   *)
(* before, or ends the data of the object started last and not yet ended.  *)

Data(field, s) == [token |-> "data", field |-> field, type |-> s.type, of |-> s.of]
Link(field, i) == [token |-> "link", field |-> field, to |-> i]
End == [token |-> "end"]

Dumped == writing = << <<>> >>

PlaceOf(v) == CHOOSE i \in DOMAIN written : written[i] = v

(* w_object with the next object to be written. The two sets of one       *)
(* element keep TLC from computing the data again at every use.            *)
WriteObject(next, rest) ==
  IF next.value \in Range(written)
  THEN /\ writing' = rest
       /\ stream' = Append(stream, Link(next.field, PlaceOf(next.value)))
       /\ UNCHANGED <<objects, written>>
  ELSE \E s \in {objects[next.value]} : \E data \in {_dump_data(s)} :
         /\ objects' = wrap(objects, [i \in DOMAIN data |-> data[i].struct])
         /\ written' = Append(written, next.value)
         /\ writing' = Append(rest, [i \in DOMAIN data |->
              [field |-> data[i].field, value |-> ValueOf(objects', data[i].struct)]])
         /\ stream' = Append(stream, Data(next.field, s))

Write ==
  /\ ~Dumped /\ Len(written) <= MaxObjects * Len(tree)
  /\ IF Last(writing) # <<>>
     THEN WriteObject(Head(Last(writing)), [writing EXCEPT ![Len(writing)] = Tail(@)])
     ELSE /\ writing' = Front(writing)
          /\ stream' = Append(stream, End)
          /\ UNCHANGED <<objects, written>>
  /\ UNCHANGED <<tree, reading, position, loaded>>

-----------------------------------------------------------------------------
(* Marshal.load. A loaded structure refers to others by their places in    *)
(* loaded; 0 is NULL, or what the structure was allocated with.            *)

NoTable == [key \in {} |-> 0]

allocate(type) ==
  CASE type = "Profile" -> [type |-> type, threads_tbl |-> {}]
    [] type = "Thread" -> [type |-> type, call_tree |-> 0, method_table |-> NoTable]
    [] type = "Method" ->
         [type |-> type, key |-> PendingKey, call_trees |-> 0, measurement |-> 0,
          allocations |-> NoTable]
    [] type = "CallTrees" -> [type |-> type, call_trees |-> <<>>]
    [] type = "CallTree" ->
         [type |-> type, measurement |-> 0, parent |-> 0, children |-> NoTable, method |-> 0]
    [] type = "Measurement" -> [type |-> type, times |-> 0]
    [] type = "Allocation" -> [type |-> type, key |-> 0]

(* The values that the data being read has for a field.                    *)
ValuesOf(data, field) ==
  LET found == SelectSeq(data, LAMBDA d : d.field = field)
  IN  [i \in DOMAIN found |-> found[i].value]
ValueIn(data, field) ==
  LET values == ValuesOf(data, field) IN IF values = <<>> THEN 0 ELSE values[1]

(* st_insert replaces what the table had for the key.                      *)
InsertAll(values, keys) ==
  [k \in {keys[v] : v \in Range(values)} |->
     Last(SelectSeq(values, LAMBDA v : keys[v] = k))]

(* The keys that loaded methods and allocations have by now. *)
OwnKeys ==
  [i \in {j \in DOMAIN loaded : "key" \in DOMAIN loaded[j]} |-> loaded[i].key]

(* Mutant: a child is filed under the method of its own parent.            *)
KeyOfCaller(c) ==
  LET p == loaded[c].parent
  IN  IF p = 0 \/ loaded[p].method = 0 THEN UnsetKey ELSE loaded[loaded[p].method].key

(* The key of a child, whose method may be still unknown or still empty.   *)
ChildKey(c) ==
  IF loaded[c].method = 0 THEN UnsetKey ELSE loaded[loaded[c].method].key

ChildKeys == [c \in {i \in DOMAIN loaded : loaded[i].type = "CallTree"} |-> ChildKey(c)]

(* Mutant: a call tree takes its parent for its target.                    *)
ParentAsTarget(t, data) ==
  [t EXCEPT !.measurement = ValueIn(data, "measurement"),
            !.children = InsertAll(ValuesOf(data, "children"), ChildKeys),
            !.method = ValueIn(data, "parent")]

prof_call_tree_load(t, data) ==
  [t EXCEPT !.measurement = ValueIn(data, "measurement"),
            !.parent = ValueIn(data, "parent"),
            !.children = InsertAll(ValuesOf(data, "children"), ChildKeys),
            !.method = ValueIn(data, "target")]

prof_call_trees_load(l, data) == [l EXCEPT !.call_trees = ValuesOf(data, "call_trees")]

prof_method_load(m, of, data) ==
  [m EXCEPT !.key = of, !.call_trees = ValueIn(data, "call_trees"),
            !.measurement = ValueIn(data, "measurement"),
            !.allocations = InsertAll(ValuesOf(data, "allocations"), OwnKeys)]

(* Mutant: the methods are kept under the keys they were allocated with.   *)
ThreadLoadUnkeyed(t, data) ==
  [t EXCEPT !.call_tree = ValueIn(data, "call_tree"),
            !.method_table = InsertAll(ValuesOf(data, "methods"), [m \in DOMAIN loaded |-> PendingKey])]

prof_thread_load(t, data) ==
  [t EXCEPT !.call_tree = ValueIn(data, "call_tree"),
            !.method_table = InsertAll(ValuesOf(data, "methods"), OwnKeys)]

prof_profile_load(p, data) == [p EXCEPT !.threads_tbl = Range(ValuesOf(data, "threads"))]

prof_measurement_load(m, of) == [m EXCEPT !.times = of]
prof_allocation_load(a, of) == [a EXCEPT !.key = of]

(* _load_data of the structure that was dumped as the data of the token of.*)
_load_data(s, of, data) ==
  CASE s.type = "Profile" -> prof_profile_load(s, data)
    [] s.type = "Thread" -> prof_thread_load(s, data)
    [] s.type = "Method" -> prof_method_load(s, of, data)
    [] s.type = "CallTrees" -> prof_call_trees_load(s, data)
    [] s.type = "CallTree" -> prof_call_tree_load(s, data)
    [] s.type = "Measurement" -> prof_measurement_load(s, of)
    [] s.type = "Allocation" -> prof_allocation_load(s, of)

(* Hands a value to the object being read, if there is one.                *)
Hand(field, v, frames) ==
  IF frames = <<>> THEN frames
  ELSE [frames EXCEPT ![Len(frames)].data = Append(@, [field |-> field, value |-> v])]

Read ==
  /\ Dumped /\ position < Len(stream)
  /\ position' = position + 1
  /\ LET t == stream[position + 1] IN
     \/ /\ t.token = "data"
        /\ loaded' = Append(loaded, allocate(t.type))
        /\ reading' = Append(reading, [object |-> Len(loaded) + 1, field |-> t.field,
                                       of |-> t.of, data |-> <<>>])
     \/ /\ t.token = "link"
        /\ reading' = Hand(t.field, t.to, reading)
        /\ UNCHANGED loaded
     \/ /\ t.token = "end"
        /\ LET top == Last(reading) IN
             /\ loaded' = [loaded EXCEPT ![top.object] = _load_data(@, top.of, top.data)]
             /\ reading' = Hand(top.field, top.object, Front(reading))
  /\ UNCHANGED <<tree, objects, written, writing, stream>>

Loaded == Dumped /\ position = Len(stream)

-----------------------------------------------------------------------------
Init ==
  /\ tree \in Trees
  /\ objects = <<Profile>>
  /\ written = <<>>
  /\ writing = << <<[field |-> "profile", value |-> 1]>> >>
  /\ stream = <<>>
  /\ reading = <<>>
  /\ position = 0
  /\ loaded = <<>>

Next == Write \/ Read

(* Marshal.dump and Marshal.load are called and return.                    *)
Spec == Init /\ [][Next]_vars /\ WF_vars(Next)
=============================================================================
