------------------------------ MODULE Compiled -------------------------------
(***************************************************************************)
(* One trial as compiled model code runs it (src/cimba/compiler): records  *)
(* read and written through views typed by class, calls through dispatch   *)
(* tables, models spawned and released, arrays, stores of models, and the  *)
(* native functions called on handles. The code is any well-typed one: it  *)
(* holds its own model and one more value, and takes any step that the     *)
(* compiler accepts.                                                       *)
(***************************************************************************)
EXTENDS Classes, Handles

CONSTANTS
  Trees,      (* static trees: of each record its class and what its fields *)
              (* are bound to                                               *)
  Spawned,    (* classes that the code spawns                               *)
  ArrayDefault(_, _),  (* the length of a class default, -1 for none        *)
  Lengths,    (* array lengths given when spawning                          *)
  MaxSpawns,  (* bound: records spawned                                     *)
  StoreSize   (* bound: models in one store                                 *)

Null   == <<0, 0>>
Wild   == <<-1, 0>>                       (* some other bytes of a record   *)
Whole(r) == <<r, 0>>
Omitted  == -2                            (* an array length not given    *)
Quiet  == [act |-> "none"]

Usable == {c \in Classes : SchemaOf(c) /\ LayoutOf(c)}
At     == [c \in Classes |-> [f \in Names(c) |-> Offset(c, f)]]
TableOf == Slots                          (* an entry per slot              *)

ASSUME SpawnAssumption ==
  /\ Spawned \subseteq Classes /\ Lengths \subseteq Int
  /\ \A c \in Classes : \A name \in Names(c) : ArrayDefault(c, name) \in Int

(* Names of classes are not those of cimba's own types, and a reference is  *)
(* to a model or to an entity: typing its field fails otherwise.            *)
ASSUME NamesAssumption ==
  Classes \cap (Scalars \cup Entities \cup {"Param", "Output", "Input", "Series", "Ref",
                                          "Array", "list", "list[Ref]"}) = {}
Target(f) == [origin |-> f.arg, arg |-> f.item]   (* of Ref and lists     *)
ASSUME ReferencesAssumption ==
  \A c \in Classes : \A f \in ToSet(FieldsOf[c]) : Kind(f) \in {"Ref", "list", "list[Ref]"} =>
    f.arg \in Classes \/ (f.arg \in Entities /\ Storable(Target(f)))

VARIABLES
  phase,     (* "prepare", "trial", "refused", "failed" or "crashed"        *)
  compiled,  (* classes compiled                                            *)
  views,     (* classes whose records can be typed                          *)
  heap,      (* records: the class, whether spawned, whether released, and  *)
             (* the words at their offsets                                  *)
  buffers,   (* elements of arrays: the word that owns them, how many, and  *)
             (* whether they are freed                                      *)
  stores,    (* models in each store, by the place of its handle            *)
  self, other,   (* typed values: sort and class or item, optional, address,*)
             (* and (observed only) whether nothing has looked if it is there *)
  last       (* what the last step did outside the values                   *)

vars == <<phase, compiled, views, heap, buffers, stores, self, other, last>>

Value(type, optional, at) ==
  [sort |-> type[1], of |-> type[2], optional |-> optional, unchecked |-> FALSE, at |-> at]
Unchecked(type, at) == [Value(type, FALSE, at) EXCEPT !.unchecked = TRUE]
Seen(v, type) == [Value(type, FALSE, v.at) EXCEPT !.unchecked = v.unchecked]
Here(v)  == v.at[1] # 0                   (* not, or inside, a missing record *)
Nothing  == Value(<<"none", "">>, TRUE, Null)
Model(c, r) == Value(<<"model", c>>, FALSE, Whole(r))
Values   == {self, other}
IsModel(v) == v.sort = "model" /\ ~v.optional
IsStore(v) == v.sort \in {"store_model", "priority_model"} /\ ~v.optional

-----------------------------------------------------------------------------
(* Views: types and addresses of fields *)

HandleType(a) == <<Handle(a, Classes), IF a.origin \in {"Store", "PriorityStore"} THEN a.arg ELSE "">>
Referred(f) == IF f.arg \in Classes THEN <<"model", f.arg>> ELSE HandleType(Target(f))
TypeOf(f) ==
  CASE Kind(f) = "Child"  -> <<"model", f.origin>>
    [] Kind(f) \in {"Ref", "list", "list[Ref]"} -> Referred(f)
    [] Kind(f) = "Entity" -> HandleType(f)
    [] Kind(f) = "Array"  -> <<"array", f.arg>>
    [] OTHER              -> <<"scalar", f.arg>>

PlaceOf(v, name) == At[v.of][name]
WordAt(r, o) == IF o \in DOMAIN heap[r].word THEN heap[r].word[o] ELSE Wild
LoadAt(v, name) == WordAt(v.at[1], PlaceOf(v, name))

(* register_reachable_views                                                 *)
Exposed == [c \in Classes |-> Classes \cap
  ({f.arg : f \in {g \in ToSet(FieldsOf[c]) : Kind(g) \in {"Ref", "list", "list[Ref]"}}}
   \cup {f.origin : f \in {g \in ToSet(FieldsOf[c]) : Kind(g) = "Child"}}
   \cup UNION {ToSet(Types(Signature(c, n))) \cup {Signature(c, n).returns} :
                  n \in Functions(c)})]
Closed(near) == \A c \in near : Exposed[c] \subseteq near
Registered == [c \in Classes |->
  {d \in Classes : \A near \in SUBSET Classes : c \in near /\ Closed(near) => d \in near}]

(* A record as it is bound, or spawned with some fields given.              *)
WordOf(r, f, given, buffer) ==
  CASE Kind(f) = "Entity" -> [made |-> Created(f), type |-> HandleType(f)]
    [] Kind(f) = "Array"  -> <<buffer[f.name], given[f.name]>>
    [] OTHER              -> given[f.name]
Shown(c) == {f \in ToSet(FieldsOf[c]) :
               Kind(f) \in {"Child", "Ref", "list", "list[Ref]", "Entity", "Array"}}
NewRecord(r, c, dynamic, given, buffer) ==
  [class |-> c, dynamic |-> dynamic, released |-> FALSE,
   word |-> [o \in {At[c][f.name] : f \in Shown(c)} |->
               WordOf(r, CHOOSE f \in Shown(c) : At[c][f.name] = o, given, buffer)]]

(* Elements of the arrays of record r, after those there are. An array of   *)
(* none has no buffer.                                                      *)
Arrays(c) == {f \in ToSet(FieldsOf[c]) : Kind(f) = "Array"}
Ordinal(c, f) == Cardinality({g \in Arrays(c) : At[c][g.name] <= At[c][f.name]})
NewBuffers(r, c, lengths) ==
  [i \in 1 .. Cardinality(Arrays(c)) |->
     LET f == CHOOSE g \in Arrays(c) : Ordinal(c, g) = i
     IN  [owner |-> <<r, At[c][f.name]>>, size |-> lengths[f.name], freed |-> FALSE]]
Numbered(c, count) ==
  [n \in {f.name : f \in Arrays(c)} |-> count + Ordinal(c, Field(c, n))]

(* What is at an address, given the class of every record: a record of that *)
(* class or of a subclass, or an entity or array of that type.              *)
ClassOf(records) == [r \in DOMAIN records |-> records[r].class]
Points(class, type, p) ==
  /\ p = <<p[1], p[2]>> /\ p[1] \in DOMAIN class
  /\ IF type[1] = "model" THEN p[2] = 0 /\ IsA(class[p[1]], type[2])
     ELSE \E f \in Shown(class[p[1]]) : /\ Kind(f) \in {"Entity", "Array"}
                                        /\ At[class[p[1]]][f.name] = p[2] /\ TypeOf(f) = type

-----------------------------------------------------------------------------
(* A tree is bound record by record, its elements after those before.       *)
Bind(done, n, c, given) ==
  [records  |-> Append(done.records,
                       NewRecord(n, c, FALSE, given, Numbered(c, Len(done.elements)))),
   elements |-> done.elements \o NewBuffers(n, c, given)]
Bound(tree) ==
  LET bind[n \in 0 .. Len(tree)] ==
        IF n = 0 THEN [records |-> <<>>, elements |-> <<>>]
        ELSE Bind(bind[n - 1], n, tree[n].class, tree[n].bound)
  IN  bind[Len(tree)]
Placed(tree) == \A r \in DOMAIN tree : Registered[tree[r].class] \subseteq Usable

(* Trees have been compiled from objects of these classes, and what their   *)
(* references and lists hold has been looked at.                            *)
ASSUME TreeAssumption == \A tree \in Trees :
  /\ tree \in Seq(ToSet(tree))
  /\ \A r \in DOMAIN tree : tree[r].class \in Classes
  /\ Placed(tree) => \A r \in DOMAIN tree : \A f \in Shown(tree[r].class) :
       LET bound == tree[r].bound[f.name]
           Held(p) == p = Null \/ Points(ClassOf(tree), TypeOf(f), p)
       IN  /\ Kind(f) \in {"Child", "Ref"} => Held(bound)
           /\ Kind(f) \in {"list", "list[Ref]"} =>
                bound \in Seq(ToSet(bound)) /\ \A i \in DOMAIN bound : Held(bound[i])
           /\ Kind(f) = "Array" => bound \in Nat

Init ==
  /\ \E tree \in Trees :
       IF Placed(tree)
       THEN heap = Bound(tree).records /\ buffers = Bound(tree).elements /\ phase = "prepare"
       ELSE heap = <<>> /\ buffers = <<>> /\ phase = "refused"
  /\ compiled = {} /\ views = {}
  /\ stores = [p \in UNION {{<<r, o>> : o \in {o \in DOMAIN heap[r].word :
                                 \E f \in Shown(heap[r].class) :
                                   /\ At[heap[r].class][f.name] = o
                                   /\ f.origin \in {"Store", "PriorityStore"}}} :
                            r \in DOMAIN heap} |-> <<>>]
  /\ self = Nothing /\ other = Nothing /\ last = Quiet

(* ensure, once per class of the tree. *)
Ensure(c) ==
  /\ phase = "prepare" /\ c \in {heap[r].class : r \in DOMAIN heap} \ compiled
  /\ compiled' = compiled \cup {c}
  /\ views' = views \cup Registered[c]
  /\ phase' = IF {heap[r].class : r \in DOMAIN heap} \subseteq compiled' THEN "trial" ELSE phase
  /\ UNCHANGED <<heap, buffers, stores, self, other, last>>

Running == phase = "trial"
Fail    == phase' = "failed" /\ UNCHANGED <<compiled, views, heap, buffers, stores, self, other>>
           /\ last' = Quiet
Crash   == phase' = "crashed" /\ UNCHANGED <<compiled, views, heap, buffers, stores, self, other>>
           /\ last' = Quiet
Holds(v, done) ==                         (* the value of a step            *)
  other' = v /\ last' = done /\ UNCHANGED <<phase, compiled, heap, buffers, stores, self>>

(* A process of a model that is not released goes on.                       *)
Start(r) ==
  /\ Running /\ r \in DOMAIN heap /\ ~heap[r].released
  /\ self' = Model(heap[r].class, r) /\ other' = Nothing /\ last' = Quiet
  /\ UNCHANGED <<phase, compiled, views, heap, buffers, stores>>

Keep == Running /\ other' = self /\ last' = Quiet /\
        UNCHANGED <<phase, compiled, views, heap, buffers, stores, self>>

(* Nothing looks whether a record is there when it is read, written, called *)
(* or handed to a native function: at address 0 the program ends.           *)
UseMissing(v) == Running /\ v.sort # "none" /\ ~v.optional /\ ~Here(v) /\ Crash

(* v.name for a child or reference: an optional, or a pointer that is there *)
Follow(v, name) ==
  /\ Running /\ IsModel(v) /\ Here(v) /\ name \in Names(v.of)
  /\ LET f == Field(v.of, name)
         p == LoadAt(v, name)
     IN  /\ Kind(f) \in {"Child", "Ref"}
         /\ \/ /\ f.optional \/ p # Null
               /\ Holds(Value(TypeOf(f), f.optional, p), Quiet) /\ UNCHANGED views
            \/ ~f.optional /\ p = Null /\ Fail

Narrow == Running /\ other.optional /\ other.at # Null
          /\ Holds([other EXCEPT !.optional = FALSE], Quiet) /\ UNCHANGED views

(* v.name[i]: an index outside is no item; the item is what the list holds. *)
Item(v, name, i) ==
  /\ Running /\ IsModel(v) /\ Here(v) /\ name \in Names(v.of)
  /\ LET f == Field(v.of, name)
         items == LoadAt(v, name)
     IN  /\ Kind(f) \in {"list", "list[Ref]"}
         /\ \/ /\ i \in 0 .. Len(items) - 1
               /\ Holds(Unchecked(TypeOf(f), items[i + 1]), Quiet) /\ UNCHANGED views
            \/ i \notin 0 .. Len(items) - 1 /\ Fail

(* The entity itself: the place of its handle, of which nothing is read.    *)
Inner(v, name) ==
  [Value(TypeOf(Field(v.of, name)), FALSE, <<v.at[1], PlaceOf(v, name)>>)
     EXCEPT !.unchecked = v.unchecked]
EntityOf(v, name) ==
  /\ Running /\ IsModel(v) /\ name \in Names(v.of) /\ Kind(Field(v.of, name)) = "Entity"
  /\ Holds(Inner(v, name), Quiet)
  /\ UNCHANGED views

-----------------------------------------------------------------------------
(* Casts, and references assigned *)

Casts_Unchecked(v, type) == IF type[1] = "model" THEN v.sort = "model" ELSE <<v.sort, v.of>> = type
Casts(v, type) ==
  IF type[1] = "model" THEN v.sort = "model" /\ IsA(v.of, type[2])
                       ELSE <<v.sort, v.of>> = type
Assignable(v, type, optional) == IF v.sort = "none" THEN optional ELSE Casts(v, type)
Missing(v, optional) == v.optional /\ v.at = Null /\ ~optional

Assign(v, name, w) ==
  /\ Running /\ IsModel(v) /\ Here(v) /\ name \in Names(v.of)
  /\ LET f == Field(v.of, name)
     IN  /\ Kind(f) = "Ref" /\ Assignable(w, TypeOf(f), f.optional)
         /\ \/ /\ ~Missing(w, f.optional)
               /\ heap' = [heap EXCEPT ![v.at[1]].word[PlaceOf(v, name)] = w.at]
               /\ last' = Quiet
               /\ UNCHANGED <<phase, compiled, views, buffers, stores, self, other>>
            \/ Missing(w, f.optional) /\ Fail

-----------------------------------------------------------------------------
(* Calls through the table of the record *)

SlotOf(c, name) == CHOOSE i \in DOMAIN TableOf[c] : TableOf[c][i] = name
Reached(v, name) ==                       (* the slot's entry in the table  *)
  LET table == TableOf[heap[v.at[1]].class]
  IN  IF SlotOf(v.of, name) \in DOMAIN table THEN table[SlotOf(v.of, name)] ELSE "none"
Called(v, name) ==
  [act |-> "call", name |-> name, ran |-> Reached(v, name), on |-> v.at[1]]
Takes1(v, name) ==                        (* the first model it takes       *)
  IF name \in Functions(v.of) /\ 1 \in DOMAIN Types(Signature(v.of, name))
  THEN Types(Signature(v.of, name))[1] ELSE "none"

(* An event, predicate or function runs as a method of the record's class.  *)
Enter(v, name, w) ==
  /\ Running /\ IsModel(v) /\ Here(v) /\ v.of \in Usable /\ Contains(TableOf[v.of], name)
  /\ Takes1(v, name) # "none" => IsModel(w) /\ Casts(w, <<"model", Takes1(v, name)>>)
  /\ LET own == Model(heap[v.at[1]].class, v.at[1])
     IN  /\ self' = own
         /\ other' = IF Takes1(v, name) = "none" THEN Nothing
                 ELSE Seen(w, <<"model", Takes1(own, Reached(v, name))>>)
         /\ last' = Called(v, name)
  /\ UNCHANGED <<phase, compiled, views, heap, buffers, stores>>

(* It may return its own model or the one it took.                          *)
Return(v, name, w) ==
  /\ Running /\ IsModel(v) /\ Here(v) /\ name \in Functions(v.of)
  /\ Takes1(v, name) # "none" => IsModel(w) /\ Casts(w, <<"model", Takes1(v, name)>>)
  /\ Signature(v.of, name).returns \in Classes
  /\ LET own     == Model(heap[v.at[1]].class, v.at[1])
         taken   == Seen(w, <<"model", Takes1(own, Reached(v, name))>>)
         returns == Signature(own.of, Reached(v, name)).returns
     IN  \E value \in {own} \cup IF Takes1(v, name) = "none" THEN {} ELSE {taken} :
           /\ Casts(value, <<"model", returns>>)
           /\ Holds(Seen(value, <<"model", Signature(v.of, name).returns>>), Called(v, name))
  /\ UNCHANGED views

-----------------------------------------------------------------------------
(* Models spawned and released *)

Spawnable(c) == \A f \in ToSet(FieldsOf[c]) :
  Kind(f) \in {"Param", "Field", "Output", "Ref", "Input", "Series", "Array"}
Given(c) == {f \in Shown(c) : Kind(f) = "Ref"}
SpawnTakes(f, w) ==                       (* at compile time                *)
  IF w.sort = "none" THEN f.optional ELSE Casts(w, TypeOf(f))
LengthOf(c, f, n) == IF n = Omitted THEN ArrayDefault(c, f.name) ELSE n

Argument(f, w) ==
  IF SpawnTakes(f, w) THEN w ELSE CHOOSE g \in {self, Nothing} : SpawnTakes(f, g)
LengthsOf(c, n) == [m \in {f.name : f \in Arrays(c)} |-> LengthOf(c, Field(c, m), n)]
GivenOf(c, w, n) ==
  [m \in {f.name : f \in Given(c) \cup Arrays(c)} |->
     IF m \in DOMAIN LengthsOf(c, n) THEN LengthsOf(c, n)[m] ELSE Argument(Field(c, m), w).at]
Bad(c, w, n) ==                           (* found when it runs             *)
  \/ \E f \in Given(c) : Missing(Argument(f, w), f.optional)
  \/ \E m \in DOMAIN LengthsOf(c, n) : LengthsOf(c, n)[m] < 0

Spawn(c, w, n) ==
  /\ Running /\ c \in Spawned /\ Registered[c] \subseteq Usable /\ Spawnable(c)
  /\ Cardinality({r \in DOMAIN heap : heap[r].dynamic}) < MaxSpawns
  /\ \A f \in Given(c) : \E g \in {w, self, Nothing} : SpawnTakes(f, g)
  /\ n = Omitted => \A f \in Arrays(c) : ArrayDefault(c, f.name) >= 0
  /\ LET r == Len(heap) + 1
     IN  \/ /\ ~Bad(c, w, n)
            /\ heap' = Append(heap, NewRecord(r, c, TRUE, GivenOf(c, w, n),
                                              Numbered(c, Len(buffers))))
            /\ buffers' = buffers \o NewBuffers(r, c, LengthsOf(c, n))
            /\ compiled' = compiled \cup {c}
            /\ views' = views \cup Registered[c]
            /\ other' = Model(c, r) /\ last' = Quiet
            /\ UNCHANGED <<phase, stores, self>>
         \/ Bad(c, w, n) /\ Fail

(* Arrays of a spawned model go at once, and say so by a length of -1; one  *)
(* of no elements was never kept. The model's own processes stop, the one   *)
(* that runs may be one of them. A model is released once: the trial fails  *)
(* the second time. Address 0 counts as a model, of which nothing is read.  *)
Dropped(r) == {i \in DOMAIN buffers : /\ buffers[i].owner[1] = r /\ heap[r].dynamic
                                      /\ buffers[i].size > 0}
Unlinked(r) == {buffers[i].owner[2] : i \in Dropped(r)}
Release(v) ==
  /\ Running /\ IsModel(v) /\ Here(v) /\ ~heap[v.at[1]].released
  /\ LET r == v.at[1]
     IN  /\ buffers' = [i \in DOMAIN buffers |->
                          [buffers[i] EXCEPT !.freed = @ \/ i \in Dropped(r)]]
         /\ heap' = [heap EXCEPT ![r].released = TRUE,
                                 ![r].word = [o \in DOMAIN @ |->
                                    IF o \in Unlinked(r) THEN <<0, -1>> ELSE @[o]]]
         /\ \/ UNCHANGED <<self, other>>
            \/ self.at = Whole(r) /\ self' = Nothing /\ other' = Nothing
  /\ last' = Quiet
  /\ UNCHANGED <<phase, compiled, views, stores>>
ReleaseAgain(v) == Running /\ IsModel(v) /\ (Here(v) => heap[v.at[1]].released) /\ Fail

-----------------------------------------------------------------------------
(* Stores of models, and the other verbs of handles *)

PutModel(v, w) ==
  /\ Running /\ IsStore(v) /\ Here(v) /\ IsModel(w) /\ IsA(w.of, v.of)
  /\ Registered[v.of] \subseteq Usable
  /\ Len(stores[v.at]) < StoreSize
  /\ stores' = [stores EXCEPT ![v.at] = Append(@, w.at)]
  /\ last' = Quiet
  /\ views' = views \cup Registered[v.of]
  /\ UNCHANGED <<phase, compiled, heap, buffers, self, other>>

(* The order is the queue's. A wait that is interrupted, or that a timer    *)
(* ends, gives a model that is not there.                                   *)
GetModel(v) ==
  /\ Running /\ IsStore(v) /\ Here(v) /\ Registered[v.of] \subseteq Usable
  /\ \/ \E i \in DOMAIN stores[v.at] :
          /\ other' = Unchecked(<<"model", v.of>>, stores[v.at][i])
          /\ stores' = [stores EXCEPT ![v.at] =
                          SubSeq(@, 1, i - 1) \o SubSeq(@, i + 1, Len(@))]
     \/ other' = Unchecked(<<"model", v.of>>, Null) /\ UNCHANGED stores
  /\ views' = views \cup Registered[v.of]
  /\ last' = Quiet
  /\ UNCHANGED <<phase, compiled, heap, buffers, self>>

EntityAt(p) == heap[p[1]].word[p[2]]
Native(fn, p) == [act |-> "native", takes |-> Takes(fn), made |-> EntityAt(p).made]
Use(v, verb) ==
  /\ Running /\ ~v.optional /\ Here(v) /\ verb \in DOMAIN Verbs /\ v.sort \in DOMAIN Verbs[verb]
  /\ Holds(other, Native(Verbs[verb][v.sort], v.at)) /\ UNCHANGED views

(* Of a list of resources: all that it looks at have to be there.           *)
AnyOf(v, name) ==
  /\ Running /\ IsModel(v) /\ Here(v)
  /\ name \in Names(v.of) /\ Kind(Field(v.of, name)) = "list[Ref]"
  /\ TypeOf(Field(v.of, name))[1] \in DOMAIN AcquireAny
  /\ \E i \in DOMAIN LoadAt(v, name) :
       \/ /\ LoadAt(v, name)[i] # Null
          /\ Holds(other, Native(AcquireAny[TypeOf(Field(v.of, name))[1]], LoadAt(v, name)[i]))
          /\ UNCHANGED views
       \/ LoadAt(v, name)[i] = Null /\ Crash

-----------------------------------------------------------------------------
(* Arrays: a view is the place of the two words, read at every access *)

ArrayOf(v, name) ==
  /\ Running /\ IsModel(v) /\ name \in Names(v.of) /\ Kind(Field(v.of, name)) = "Array"
  /\ Holds(Inner(v, name), Quiet)
  /\ UNCHANGED views

Words(v) == [buffer |-> heap[v.at[1]].word[v.at[2]][1], length |-> heap[v.at[1]].word[v.at[2]][2]]
Touched(v, i) == [act |-> "element", buffer |-> Words(v).buffer, index |-> i, of |-> v.at]
Inside_Through(words, i) == i >= 0 /\ i <= words.length
Inside(words, i) == i >= 0 /\ i < words.length
Element(v, i) ==                          (* read or written                *)
  /\ Running /\ v.sort = "array" /\ Here(v)
  /\ \/ Inside(Words(v), i) /\ Holds(v, Touched(v, i)) /\ UNCHANGED views
     \/ ~Inside(Words(v), i) /\ Fail
Iterate(v, i) ==                          (* a step of a loop, or its end   *)
  /\ Running /\ v.sort = "array" /\ Here(v) /\ i >= 0
  /\ \/ i < Words(v).length /\ Holds(v, Touched(v, i))
     \/ i >= Words(v).length /\ Holds(Nothing, Quiet)
  /\ UNCHANGED views

-----------------------------------------------------------------------------
FieldNames == UNION {Names(c) : c \in Classes}
SlotNames  == UNION {ToSet(Slots[c]) : c \in Classes}
Indices    == -1 .. 1

Next ==
  \/ \E c \in Usable : Ensure(c)
  \/ \E r \in DOMAIN heap : Start(r)
  \/ Keep \/ Narrow
  \/ \E v \in Values :
       \/ \E name \in FieldNames :
            Follow(v, name) \/ EntityOf(v, name) \/ AnyOf(v, name) \/ ArrayOf(v, name)
       \/ \E name \in FieldNames, i \in Indices : Item(v, name, i)
       \/ \E name \in FieldNames, w \in Values \cup {Nothing} : Assign(v, name, w)
       \/ \E name \in SlotNames, w \in Values : Enter(v, name, w) \/ Return(v, name, w)
       \/ Release(v) \/ ReleaseAgain(v) \/ UseMissing(v)
  \/ \E c \in Spawned, n \in Lengths : Spawn(c, other, n)
  \/ \E w \in Values : PutModel(other, w)
  \/ GetModel(other)
  \/ \E verb \in DOMAIN Verbs : Use(other, verb)
  \/ \E i \in Indices : Element(other, i) \/ Iterate(other, i)

Spec == Init /\ [][Next]_vars
=============================================================================
