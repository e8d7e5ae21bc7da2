---------------------------- MODULE AssemblyProps -----------------------------
(* What an experiment promises of the models it was given. *)
EXTENDS Assembly

Ready == phase = "ready"

(* Host objects are well-formed, and a tree under way has no more than its  *)
(* instances and the models left.                                           *)
TypeOK ==
  /\ phase \in {"host", "visit", "ready"} /\ (phase # "visit" => build.todo = <<>>)
  /\ \A i \in DOMAIN objects :
       /\ objects[i].class \in Classes \cup Entities \cup {"list"}
       /\ \A a \in DOMAIN objects[i].attrs : Ids(objects[i].attrs[a]) \subseteq DOMAIN objects
  /\ ToSet(build.todo) \cup Known \subseteq DOMAIN objects
  /\ Ready <=> trees # <<>> /\ phase # "visit"

(* Host objects are well-formed.  An accepted tree holds the models that its*)
(* root owns, directly or not, with every option in the full tree: each     *)
(* once, each in a single field of a single owner, and the root in none.    *)
OwnedBy(x, f) ==
  IF Kind(f) = "Child" THEN Ids(x.values[f.name])
  ELSE IF Kind(f) = "list"
  THEN UNION {UNION {Ids(y) : y \in ToSet(Items(objects, l))} : l \in ToSet(Options(x.values[f.name]))}
  ELSE {}
OwnersOf(tree, m) ==
  UNION {{<<x.id, f.name>> : f \in {g \in ToSet(FieldsOf[x.class]) : m \in OwnedBy(x, g)}} :
            x \in ToSet(tree.instances)}
TreeExact == TypeOK /\ \A t \in ToSet(trees) :
  /\ Len(t.instances) = Cardinality(ModelsOf(t)) /\ t.instances[1].id = Root
  /\ \A m \in ModelsOf(t) : Cardinality(OwnersOf(t, m)) = IF m = Root THEN 0 ELSE 1
  /\ \A x \in ToSet(t.instances) : \A f \in ToSet(FieldsOf[x.class]) :
       OwnedBy(x, f) \subseteq ModelsOf(t)

(* The tree a design point runs on is made of the very models of the full   *)
(* tree, and holds what the point binds: a default that was materialized    *)
(* for the one is not copied again for the other.                           *)
VariantsAgree == Ready => \A l \in Levels(trees[1]) :
  /\ \E t \in ToSet(trees) : t.picks = Picks(trees[1], l)
  /\ ModelsOf(TreeOf(l)) \subseteq ModelsOf(trees[1])
  /\ \A x \in ToSet(TreeOf(l).instances) : \A f \in ToSet(FieldsOf[x.class]) :
       Structural(f) => x.values[f.name] = Binding(trees[1], l, x.id, f.name)

(* What a reference of a trial is bound to is in its own tree: a record of  *)
(* the class that the field was declared with, or the handle of an entity   *)
(* of that type, where its holder has it.                                   *)
Lands(t, f, v) ==
  IF IsEntityRef(f)
  THEN /\ Entries(t, v.id) # {}
       /\ \E x \in ToSet(t.instances) : \E g \in ToSet(FieldsOf[x.class]) :
            /\ Kind(g) = "Entity" /\ Annotation(g) = Target(f)
            /\ x.values[g.name] = v
            /\ AddressOf(t, v.id) = RecordAt(t, x.id) + Offset(x.class, g.name)
  ELSE /\ v.id \in ModelsOf(t)
       /\ IsA(InstanceOf(t, v.id).class, IF Kind(f) = "Child" THEN f.origin ELSE f.arg)
RefersInside == Ready => \A l \in Levels(trees[1]) :
  LET t == TreeOf(l)
  IN  \A x \in ToSet(t.instances) : \A f \in {g \in ToSet(FieldsOf[x.class]) : Structural(g)} :
        LET b == Binding(trees[1], l, x.id, f.name)
        IN  IF Kind(f) \in {"list", "list[Ref]"}
            THEN \A v \in ToSet(Items(objects, b)) : v = Absent \/ Lands(t, f, v)
            ELSE IF b = Absent THEN f.optional ELSE Lands(t, f, b)

(* Records and arrays of an image do not meet, are aligned, and every       *)
(* option of an array's length has room.                                    *)
Regions(t) ==
  {[at |-> RecordOffsets(t)[i], size |-> Size(t.instances[i].class)] : i \in DOMAIN t.instances}
  \cup UNION {{[at |-> ArrayOffsets(t)[i], size |-> x.length * 8] :
                 x \in ToSet(Options(InstanceOf(t, ArrayFields(t)[i].model)
                                       .values[ArrayFields(t)[i].name]))} :
                i \in DOMAIN ArrayFields(t)}
Starts(t) == ToSet(RecordOffsets(t)) \cup ToSet(ArrayOffsets(t))
ImageSound == \A t \in ToSet(trees) : \A r \in Regions(t) :
  /\ r.at >= Header /\ r.at % 8 = 0
  /\ \A at \in Starts(t) : at > r.at => r.at + r.size <= at

(* Whatever a trial's records are bound to lies in the block of its own     *)
(* tree, in a region of its own there, also if the user has edited the      *)
(* models and lists since (Batch._address, TrialImageLayout).               *)
BoundSound == RefersInside /\ ImageSound

(* A model's condition observes that model's resource: default entities that*)
(* refer to each other are copied with each other.                          *)
CopiedTogether == \A m \in Models :
  \A f, g \in ToSet(FieldsOf[objects[m].class]) :
    /\ Kind(f) = "Entity" /\ Kind(g) = "Entity"
    /\ Default(objects[m].class, f.name) # Absent /\ Default(objects[m].class, g.name) # Absent
    /\ Default(objects[m].class, g.name).id \in
         ToSet(Observed(Default(objects[m].class, f.name).id))
    => objects[m].attrs[g.name].id \in ToSet(Observed(objects[m].attrs[f.name].id))

(* Every observation of a trial is between a condition and an entity that   *)
(* the condition observes on the host, and so of the same model when it was *)
(* declared between class defaults (Condition, "every change to an observed *)
(* entity signals it").                                                     *)
ObservesItsOwn ==
  /\ CopiedTogether
  /\ \A t \in ToSet(trees) : \A p \in t.observations :
       LET table == EntityTable(t)
       IN  p[1] \in DOMAIN table /\ p[2] \in DOMAIN table
           /\ table[p[2]].entity \in ToSet(Observed(table[p[1]].entity))

(* Class defaults are templates: no edit and no experiment changes one, not *)
(* even the hooks that run when its copy is attached to an owner.           *)
TemplatesKept == [][\A i \in Templates : objects'[i] = objects[i]]_vars
=============================================================================
