------------------------------- MODULE Assembly -------------------------------
(***************************************************************************)
(* Configured models on the host, and what an experiment makes of them:    *)
(* construction and assignment (src/cimba/modeling), the tree of a root    *)
(* model and of each design point (Assembly.of in src/cimba/schema,        *)
(* Design.of and Experiment._build_variants in src/cimba/experiments), the *)
(* image of a trial (TrialImageLayout) and its table of observations. The  *)
(* user edits models before an experiment, after it, and between two.      *)
(***************************************************************************)
EXTENDS Classes

CONSTANTS
  Default(_, _),   (* the value of a field on its class, Absent for none    *)
  Attach,          (* of each class, the Ref that its attached() hook sets  *)
                   (* to the owner, "" for none; user code                  *)
  Worlds,          (* host objects to start with: templates, then a root    *)
  Templates,       (* the class defaults among them                         *)
  Root,            (* the root among them                                   *)
  Edited,          (* fields the user assigns                               *)
  Axes,            (* axes of the user's sweeps                             *)
  Header,          (* bytes before the first record                         *)
  MaxObjects,      (* bound: host objects when the user makes a model       *)
  MaxEdits,        (* bound: edits                                          *)
  MaxBuilds        (* bound: experiments                                    *)

VARIABLES
  objects,   (* host objects: models, entities and lists, each with what    *)
             (* is set on it                                                *)
  phase,     (* "host", "visit" or "ready"                                  *)
  build,     (* the tree being assembled: the options picked, models left   *)
             (* to visit, and instances                                     *)
  trees,     (* trees of the experiment: the full one, then its variants    *)
  edits, builds

vars == <<objects, phase, build, trees, edits, builds>>

-----------------------------------------------------------------------------
(* Values *)

Absent     == [is |-> "none"]
Obj(i)     == [is |-> "object", id |-> i]
Tuple(s)   == [is |-> "tuple", items |-> s]
Swept(a, s) == [is |-> "sweep", axis |-> a, values |-> s]
Length(n)  == [is |-> "array", length |-> n]
Options(v) == IF v.is = "sweep" THEN v.values ELSE <<v>>

Entity(c, watched)  == [class |-> c, attrs |-> [observed |-> Tuple(watched)]]
HostList(items)     == [class |-> "list", attrs |-> [items |-> Tuple(items)]]
IsModel(h, v, c)    == v.is = "object" /\ IsA(h[v.id].class, c)
IsEntity(h, v, c)   ==
  v.is = "object" /\ h[v.id].class \in {c} \cup IF c = "Store" THEN {"PriorityStore"} ELSE {}
IsList(h, v)        == v.is = "object" /\ h[v.id].class = "list"
IsSequence(h, v)    == v.is = "tuple" \/ IsList(h, v)
Items(h, v)         == IF v.is = "tuple" THEN v.items ELSE h[v.id].attrs.items.items
Structural(f)       == Kind(f) \in {"Child", "Ref", "list", "list[Ref]"}
Target(f)           == [origin |-> f.arg, item |-> f.item]     (* of a reference *)
IsEntityRef(f)      == Kind(f) \in {"Ref", "list[Ref]"} /\ f.arg \in Entities

Get(h, m, f) == IF f.name \in DOMAIN h[m].attrs THEN h[m].attrs[f.name]
                                                ELSE Default(h[m].class, f.name)
Put(h, m, name, v) == [h EXCEPT ![m].attrs = (name :> v) @@ @]

(* deepcopy, with one memo: objects it reaches get copies, after the others.*)
Ids(v) ==
  CASE v.is = "object" -> {v.id}
    [] v.is = "tuple"  -> {x.id : x \in {y \in ToSet(v.items) : y.is = "object"}}
    [] v.is = "sweep"  -> {x.id : x \in {y \in ToSet(v.values) : y.is = "object"}}
    [] OTHER           -> {}
Reached(h, from) ==
  LET reach[n \in 0 .. Len(h)] ==
        IF n = 0 THEN from
        ELSE LET before == reach[n - 1]
             IN  before \cup UNION {UNION {Ids(h[i].attrs[a]) : a \in DOMAIN h[i].attrs} :
                                       i \in before}
  IN  reach[Len(h)]
Copied(h, values) ==
  LET ids     == Reached(h, UNION {Ids(values[i]) : i \in DOMAIN values})
      copy(i) == Len(h) + Cardinality({j \in ids : j <= i})
      one(v)  == IF v.is = "object" THEN Obj(copy(v.id)) ELSE v
      all(v)  == CASE v.is = "tuple" -> Tuple([i \in DOMAIN v.items |-> one(v.items[i])])
                   [] v.is = "sweep" -> Swept(v.axis, [i \in DOMAIN v.values |-> one(v.values[i])])
                   [] OTHER          -> one(v)
      copies  == [n \in 1 .. Cardinality(ids) |->
                    LET o == h[CHOOSE i \in ids : copy(i) = Len(h) + n]
                    IN  [o EXCEPT !.attrs = [a \in DOMAIN @ |-> all(@[a])]]]
  IN  [heap |-> h \o copies, values |-> [i \in DOMAIN values |-> all(values[i])]]

-----------------------------------------------------------------------------
(* ModelMeta.__call__: one copy of the class's default entities together.   *)
DefaultEntities(c) ==
  SelectSeq(FieldsOf[c], LAMBDA f : Kind(f) = "Entity" /\ Default(c, f.name) # Absent)
Constructed(h, c) ==
  LET named == DefaultEntities(c)
      new   == Append(h, [class |-> c, attrs |-> <<>>])
      copy  == Copied(new, [i \in DOMAIN named |-> Default(c, named[i].name)])
  IN  [copy.heap EXCEPT ![Len(new)].attrs =
         [n \in {named[i].name : i \in DOMAIN named} |->
            copy.values[CHOOSE i \in DOMAIN named : named[i].name = n]]]

(* Model.__setattr__: what a field accepts, and the attached() hooks.       *)
Accepts(h, f, v) ==
  CASE Kind(f) = "Child"     -> \/ v = Absent /\ f.optional
                                \/ \A x \in ToSet(Options(v)) : IsModel(h, x, f.origin)
    [] Kind(f) = "list"      -> \A l \in ToSet(Options(v)) :
                                  IsList(h, l) /\ \A x \in ToSet(Items(h, l)) : IsModel(h, x, f.arg)
    [] Kind(f) = "list[Ref]" -> v.is = "sweep" => \A l \in ToSet(v.values) : IsList(h, l)
    [] Kind(f) = "Array"     -> \A x \in ToSet(Options(v)) : x.is = "array"
    [] Kind(f) = "Entity"    -> v.is # "sweep"
    [] OTHER                 -> TRUE
Attached(h, f, v) ==
  CASE Kind(f) = "Child" /\ v # Absent -> UNION {Ids(x) : x \in ToSet(Options(v))}
    [] Kind(f) = "list"                ->
         UNION {UNION {Ids(x) : x \in ToSet(Items(h, l))} : l \in ToSet(Options(v))}
    [] OTHER                           -> {}
Setattr(h, m, f, v) ==
  LET set == Put(h, m, f.name, v)
  IN  [i \in DOMAIN set |->
         IF i \in Attached(h, f, v) /\ Attach[set[i].class] # ""
         THEN [set[i] EXCEPT !.attrs = (Attach[set[i].class] :> Obj(m)) @@ @] ELSE set[i]]

-----------------------------------------------------------------------------
(* Assembly.of: one visit *)

(* Defaults are materialized, once per owner, and entities created.         *)
IsTemplate_Always(h, m, f) == Kind(f) \in {"Child", "list"} /\ Default(h[m].class, f.name) # Absent
IsTemplate(h, m, f) ==
  /\ Kind(f) \in {"Child", "list"} /\ Default(h[m].class, f.name) # Absent
  /\ f.name \notin DOMAIN h[m].attrs
Materialized_Itself(h, m, f) ==
  IF IsTemplate(h, m, f) THEN Setattr(h, m, f, Default(h[m].class, f.name)) ELSE h
Materialized(h, m, f) ==
  LET value == Get(h, m, f)
      copy  == Copied(h, <<value>>)
  IN  CASE IsTemplate(h, m, f) -> Setattr(copy.heap, m, f, copy.values[1])
        [] Kind(f) = "Entity" /\ value = Absent ->
             Put(Append(h, Entity(f.origin, <<>>)), m, f.name, Obj(Len(h) + 1))
        [] Kind(f) = "Entity" /\ value # Absent /\ value = Default(h[m].class, f.name) ->
             Put(copy.heap, m, f.name, copy.values[1])
        [] OTHER -> h

Chosen1(h, m, f, picks) ==                (* or what a design point selects *)
  IF Structural(f) /\ Get(h, m, f).is = "sweep" /\ <<m, f.name>> \in DOMAIN picks
  THEN picks[<<m, f.name>>] ELSE Get(h, m, f)
Sound(h, f, v) ==
  CASE Kind(f) = "Entity"    -> IsEntity(h, v, f.origin)
    [] Kind(f) \in {"Param", "Field"} -> v # Absent
    [] Kind(f) = "Array"     -> \A x \in ToSet(Options(v)) : x.is = "array"
    [] Kind(f) = "Child"     -> \/ v = Absent /\ f.optional
                                \/ \A x \in ToSet(Options(v)) : IsModel(h, x, f.origin)
    [] Kind(f) \in {"list", "list[Ref]"} -> \A l \in ToSet(Options(v)) :
         /\ IsSequence(h, l)
         /\ ~IsEntityRef(f) => \A x \in ToSet(Items(h, l)) :
              IsModel(h, x, f.arg) \/ (x = Absent /\ Kind(f) = "list[Ref]")
    [] OTHER                 -> TRUE
Frozen_Live(h, f, v) == v
Frozen(h, f, v) ==                        (* lists are kept as tuples       *)
  IF Kind(f) \notin {"list", "list[Ref]"} THEN v
  ELSE IF v.is = "sweep"
  THEN Swept(v.axis, [i \in DOMAIN v.values |-> Tuple(Items(h, v.values[i]))])
  ELSE Tuple(Items(h, v))

Instance(h, m, picks) ==                  (* field by field, to a bad one   *)
  LET taken(acc, heap, f, value) ==
        IF Sound(heap, f, value)
        THEN [heap |-> heap, ok |-> TRUE,
              values |-> (f.name :> Frozen(heap, f, value)) @@ acc.values]
        ELSE [acc EXCEPT !.heap = heap, !.ok = FALSE]
      in(acc, heap, f) == taken(acc, heap, f, Chosen1(heap, m, f, picks))
      field(acc, f)    == IF acc.ok THEN in(acc, Materialized(acc.heap, m, f), f) ELSE acc
  IN  FoldLeft(field, [heap |-> h, ok |-> TRUE, values |-> <<>>], FieldsOf[h[m].class])

(* Every option of a child; the items of lists once each, in order.         *)
OnceEach(s) == SelectSeq([i \in DOMAIN s |-> IF \E j \in 1 .. i - 1 : s[j] = s[i]
                                              THEN Absent ELSE s[i]], LAMBDA x : x # Absent)
Children(h, c, values) ==
  FlattenSeq([i \in DOMAIN FieldsOf[c] |->
    LET f == FieldsOf[c][i]
        v == values[f.name]
    IN  CASE Kind(f) = "Child" /\ v # Absent -> Options(v)
          [] Kind(f) = "list" ->
               OnceEach(FlattenSeq([n \in DOMAIN Options(v) |-> Items(h, Options(v)[n])]))
          [] OTHER -> <<>>])

NoPicks == <<>>
StartTree(picks) == build' = [picks |-> picks, todo |-> <<Root>>, instances |-> <<>>]
Idle             == build' = [picks |-> NoPicks, todo |-> <<>>, instances |-> <<>>]

Known_Never == {}
Known == {build.instances[i].id : i \in DOMAIN build.instances}
Rejected(h) ==                            (* Experiment raises              *)
  objects' = h /\ phase' = "host" /\ trees' = <<>> /\ Idle /\ UNCHANGED <<edits, builds>>

Seen(m, seen) ==
  IF ~seen.ok THEN Rejected(seen.heap)
  ELSE LET c    == objects[m].class
           kids == Children(seen.heap, c, seen.values)
       IN  /\ objects' = seen.heap
           /\ build' = [build EXCEPT
                !.todo = [i \in DOMAIN kids |-> kids[i].id] \o Tail(@),
                !.instances = Append(@, [id |-> m, class |-> c, values |-> seen.values])]
           /\ UNCHANGED <<phase, trees, edits, builds>>
Visit ==
  /\ phase = "visit" /\ build.todo # <<>>
  /\ LET m == Head(build.todo)
     IN  IF m \in Known THEN Rejected(objects)
         ELSE Seen(m, Instance(objects, m, build.picks))

-----------------------------------------------------------------------------
(* The references of a tree, and the entities it holds *)

ModelsOf(tree) == {tree.instances[i].id : i \in DOMAIN tree.instances}
InstanceOf(tree, m) == CHOOSE x \in ToSet(tree.instances) : x.id = m

(* Entity fields, in the order of the native entity table.                  *)
EntityTable(tree) ==
  FlattenSeq([i \in DOMAIN tree.instances |->
    LET x == tree.instances[i]
        held == SelectSeq(FieldsOf[x.class], LAMBDA f : Kind(f) = "Entity")
    IN  [n \in DOMAIN held |-> [model |-> x.id, class |-> x.class, field |-> held[n],
                                entity |-> x.values[held[n].name].id]]])
Entries(tree, e) == {i \in DOMAIN EntityTable(tree) : EntityTable(tree)[i].entity = e}
HolderOf(tree, e) ==                      (* owners.setdefault              *)
  EntityTable(tree)[CHOOSE i \in Entries(tree, e) : \A j \in Entries(tree, e) : i <= j]

(* check_entity, check_model                                                *)
Annotation(f) == [origin |-> f.origin, item |-> f.arg]      (* of an entity *)
Resolves(tree, f, v) ==
  IF IsEntityRef(f)
  THEN /\ IsEntity(objects, v, f.arg) /\ Entries(tree, v.id) # {}
       /\ Annotation(HolderOf(tree, v.id).field) = Target(f)
  ELSE IsModel(objects, v, f.arg) /\ v.id \in ModelsOf(tree)
Refers(tree, f, option) ==
  CASE Kind(f) = "Ref"       -> IF option = Absent THEN f.optional ELSE Resolves(tree, f, option)
    [] Kind(f) = "list[Ref]" -> \A x \in ToSet(Items(objects, option)) :
                                  (x = Absent /\ ~IsEntityRef(f)) \/ Resolves(tree, f, x)
    [] OTHER                 -> TRUE

(* Snapshot._observation_table: entities are numbered as they are first     *)
(* met, by identity.                                                        *)
Observed(e) == [i \in DOMAIN objects[e].attrs.observed.items |->
                  objects[e].attrs.observed.items[i].id]
NumberOf_Own(tree, e) ==
  LET table == EntityTable(tree)
      first == CHOOSE i \in Entries(tree, e) : \A j \in Entries(tree, e) : i <= j
  IN  Cardinality({i \in 1 .. first : table[i].model = table[first].model})
NumberOf(tree, e) ==
  LET table == EntityTable(tree)
      first == CHOOSE i \in Entries(tree, e) : \A j \in Entries(tree, e) : i <= j
  IN  Cardinality({table[i].entity : i \in 1 .. first})
Observations(tree) ==
  UNION {LET item == EntityTable(tree)[i]
         IN  {<<Cardinality({EntityTable(tree)[j].entity : j \in 1 .. i}),
                NumberOf(tree, e)>> : e \in ToSet(Observed(item.entity))} :
            i \in {j \in DOMAIN EntityTable(tree) :
                     objects[EntityTable(tree)[j].entity].class = "Condition"}}
Observes(tree) == \A i \in DOMAIN EntityTable(tree) :
  \A e \in ToSet(Observed(EntityTable(tree)[i].entity)) : Entries(tree, e) # {}

-----------------------------------------------------------------------------
(* Design.of, and a variant per combination of structural options *)

Values(tree) == UNION {{x.values[n] : n \in DOMAIN x.values} : x \in ToSet(tree.instances)}
SweptAxes(tree) == {v.axis : v \in {w \in Values(tree) : w.is = "sweep"}}
Linked(tree) == \A v, w \in Values(tree) :
  v.is = "sweep" /\ w.is = "sweep" /\ v.axis = w.axis => Len(v.values) = Len(w.values)
Levels(tree) ==
  LET count(a) == Len((CHOOSE v \in Values(tree) : v.is = "sweep" /\ v.axis = a).values)
  IN  {l \in [SweptAxes(tree) -> 1 .. 9] : \A a \in SweptAxes(tree) : l[a] <= count(a)}
Binding(tree, level, m, name) ==          (* point.bindings                 *)
  LET v == InstanceOf(tree, m).values[name]
  IN  IF v.is = "sweep" THEN v.values[level[v.axis]] ELSE v
SweptStructure(tree) ==
  UNION {{<<x.id, f.name>> : f \in {g \in ToSet(FieldsOf[x.class]) :
                                      Structural(g) /\ x.values[g.name].is = "sweep"}} :
            x \in ToSet(tree.instances)}
Picks(tree, level) == [s \in SweptStructure(tree) |-> Binding(tree, level, s[1], s[2])]

Resolve ==
  /\ phase = "visit" /\ build.todo = <<>>
  /\ LET tree == [picks |-> build.picks, instances |-> build.instances]
         full == IF trees = <<>> THEN tree ELSE trees[1]
         left == {Picks(full, l) : l \in Levels(full)}
                   \ ({NoPicks} \cup {build.picks} \cup {trees[i].picks : i \in DOMAIN trees})
     IN  IF /\ \A x \in ToSet(tree.instances) : \A f \in ToSet(FieldsOf[x.class]) :
                 \A v \in ToSet(Options(x.values[f.name])) : Refers(tree, f, v)
            /\ Observes(tree) /\ Linked(full)
         THEN /\ trees' = Append(trees, tree @@ [observations |-> Observations(tree)])
              /\ IF left = {} THEN phase' = "ready" /\ Idle
                 ELSE phase' = "visit" /\ StartTree(CHOOSE p \in left : TRUE)
              /\ UNCHANGED <<objects, edits, builds>>
         ELSE Rejected(objects)
TreeOf(level) ==                          (* that trials of a point run on  *)
  trees[CHOOSE i \in DOMAIN trees : trees[i].picks = Picks(trees[1], level)]

-----------------------------------------------------------------------------
(* TrialImageLayout.of, and the addresses that fields are bound to *)

LongestOf(v) == LET ns == {x.length : x \in ToSet(Options(v))}
                IN  CHOOSE n \in ns : \A k \in ns : k <= n
RecordOffsets(tree) ==
  LET n == Len(tree.instances)
      start[i \in 1 .. n] ==
        Aligned(IF i = 1 THEN Header
                ELSE start[i - 1] + Size(tree.instances[i - 1].class), 8)
  IN  start
ArrayFields(tree) ==
  FlattenSeq([i \in DOMAIN tree.instances |->
    LET x == tree.instances[i]
        arrays == SelectSeq(FieldsOf[x.class], LAMBDA f : Kind(f) = "Array")
    IN  [n \in DOMAIN arrays |->
           [model |-> x.id, name |-> arrays[n].name,
            bytes |-> LongestOf(x.values[arrays[n].name])
                        * (IF arrays[n].arg = "bool" THEN 1 ELSE 8)]]])
ArrayOffsets(tree) ==
  LET fields == ArrayFields(tree)
      last   == Len(tree.instances)
      start  == RecordOffsets(tree)[last] + Size(tree.instances[last].class)
      end[i \in 0 .. Len(fields)] ==
        IF i = 0 THEN start ELSE Aligned(end[i - 1], 8) + fields[i].bytes
  IN  [i \in DOMAIN fields |-> end[i] - fields[i].bytes]

RecordAt(tree, m) == RecordOffsets(tree)[CHOOSE i \in DOMAIN tree.instances : tree.instances[i].id = m]
AddressOf(tree, o) ==                     (* Batch._address                 *)
  IF Entries(tree, o) # {}
  THEN RecordAt(tree, HolderOf(tree, o).model)
         + Offset(HolderOf(tree, o).class, HolderOf(tree, o).field.name)
  ELSE RecordAt(tree, o)

-----------------------------------------------------------------------------
(* The user *)

Models   == {i \in DOMAIN objects : objects[i].class \in Classes} \ Templates
Free     == phase \in {"host", "ready"}
Edit(h)  == Free /\ edits < MaxEdits /\ edits' = edits + 1 /\ objects' = h
            /\ UNCHANGED <<phase, build, trees, builds>>

Construct(c) == Len(objects) < MaxObjects /\ Edit(Constructed(objects, c))

Assign(m, f, v) == Accepts(objects, f, v) /\ Edit(Setattr(objects, m, f, v))
Candidates(f) ==
  LET some == IF f.arg \in Entities THEN {Obj(i) : i \in {j \in DOMAIN objects :
                                               objects[j].class = f.arg} \ Templates}
              ELSE {Obj(i) : i \in {j \in Models : IsA(objects[j].class,
                                        IF Kind(f) = "Child" THEN f.origin ELSE f.arg)}}
  IN  {Absent} \cup some \cup {Swept(a, <<x, y>>) : a \in Axes, x \in some, y \in some}
AssignOne == \E m \in Models : \E f \in ToSet(FieldsOf[objects[m].class]) :
  f.name \in Edited /\ Kind(f) \in {"Child", "Ref"} /\ \E v \in Candidates(f) : Assign(m, f, v)

(* A list is a host object: the field and the user both keep it.            *)
AssignList == \E m \in Models : \E f \in ToSet(FieldsOf[objects[m].class]) :
  /\ f.name \in Edited /\ Kind(f) \in {"list", "list[Ref]"}
  /\ LET some == {v \in Candidates(f) : v.is = "object"}
         n    == Len(objects)
     IN  \E x, y \in some :
           LET heap == objects \o <<HostList(<<x>>), HostList(<<x, y>>)>>
           IN  \E v \in {Obj(n + 2)} \cup {Swept(a, <<Obj(n + 1), Obj(n + 2)>>) : a \in Axes} :
                 Accepts(heap, f, v) /\ Edit(Setattr(heap, m, f, v))
Extend == \E l \in DOMAIN objects, x \in Models :
  /\ objects[l].class = "list" /\ l \notin Templates
  /\ Edit([objects EXCEPT ![l].attrs.items.items = Append(@, Obj(x))])

Observe == \E c, e \in DOMAIN objects \ Templates :
  /\ objects[c].class = "Condition" /\ objects[e].class = "Resource"
  /\ e \notin ToSet(Observed(c))
  /\ Edit([objects EXCEPT ![c].attrs.observed.items = Append(@, Obj(e))])

Experiment ==
  /\ Free /\ builds < MaxBuilds /\ builds' = builds + 1
  /\ phase' = "visit" /\ trees' = <<>> /\ StartTree(NoPicks)
  /\ UNCHANGED <<objects, edits>>

-----------------------------------------------------------------------------
Init ==
  /\ objects \in Worlds
  /\ phase = "host" /\ trees = <<>> /\ edits = 0 /\ builds = 0
  /\ build = [picks |-> NoPicks, todo |-> <<>>, instances |-> <<>>]

Next ==
  \/ \E c \in Classes : Construct(c)
  \/ AssignOne \/ AssignList \/ Extend \/ Observe
  \/ Experiment \/ Visit \/ Resolve

Spec == Init /\ [][Next]_vars
=============================================================================
