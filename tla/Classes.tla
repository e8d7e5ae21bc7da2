------------------------------- MODULE Classes -------------------------------
(***************************************************************************)
(* Model classes as the compiler sees them: the fields and callback slots  *)
(* of a class and its bases (src/cimba/schema), the record of an instance  *)
(* (src/cimba/layout) and the types its fields have in compiled code       *)
(* (src/cimba/compiler/views.py).                                          *)
(***************************************************************************)
EXTENDS Integers, SequencesExt

CONSTANTS
  Mro,        (* of each class the classes Python looks in, itself first,   *)
              (* without cimba.Model                                        *)
  Annotated,  (* of each class its annotations, in order: a name, origin,   *)
              (* argument, whether None is allowed, and whether a value is  *)
              (* given                                                      *)
  Methods,    (* and its methods: a name, a role and a signature            *)
  Enums,      (* of each enum, whether it is an IntEnum, and its codes      *)
  Int64,      (* the codes that fit                                         *)
  Reserved    (* the names that cimba.Model has itself                      *)

Classes  == DOMAIN Mro

(* Python's order of bases, and declarations in the order of a class body.  *)
ASSUME MroAssumption ==
  \A c \in Classes : /\ Mro[c] \in Seq(Classes) /\ Len(Mro[c]) > 0 /\ Mro[c][1] = c
                     /\ \A b \in ToSet(Mro[c]) : ToSet(Mro[b]) \subseteq ToSet(Mro[c])
ASSUME DeclarationAssumption ==
  \A c \in Classes : /\ Annotated[c] \in Seq(ToSet(Annotated[c]))
                     /\ Methods[c] \in Seq(ToSet(Methods[c]))

Bases(c) == {Mro[c][i] : i \in 2 .. Len(Mro[c])}
IsA(c, b) == b \in Classes /\ c \in Classes /\ Contains(Mro[c], b)
Lineage(c) == Reverse(Mro[c])
Scalars  == {"float", "int", "bool"}
Entities == {"Container", "FractionalContainer", "Store", "PriorityStore", "Resource",
             "Condition", "Dataset"}
IntEnum(t) == t \in DOMAIN Enums /\ Enums[t].int

-----------------------------------------------------------------------------
(* ClassSchema.of *)

ScalarType(t) == t \in DOMAIN Enums =>
  Enums[t].int /\ Enums[t].codes # {} /\ Enums[t].codes \subseteq Int64

Kind(a) ==
  CASE a.origin \in {"Param", "Output", "Input", "Series", "Ref", "Array"} -> a.origin
    [] a.origin \in Entities             -> "Entity"
    [] a.origin \in {"list", "list[Ref]"} -> a.origin
    [] a.origin \in Classes              -> "Child"
    [] OTHER                             -> "Field"

(* A field declared again keeps its place and takes the new declaration.    *)
Firsts(seq) == {i \in DOMAIN seq : \A j \in 1 .. i - 1 : seq[j].name # seq[i].name}
Chosen(seq, indices) ==                   (* the members at these indices   *)
  [n \in 1 .. Cardinality(indices) |->
     seq[CHOOSE i \in indices : Cardinality({j \in indices : j < i}) = n - 1]]
Declared == [c \in Classes |-> FlattenSeq([i \in DOMAIN Mro[c] |-> Annotated[Lineage(c)[i]]])]
LastNamed(seq, name) ==
  seq[CHOOSE i \in DOMAIN seq : /\ seq[i].name = name
                                /\ \A j \in DOMAIN seq : seq[j].name = name => j <= i]
FieldsOf == [c \in Classes |->
  LET kept == Chosen(Declared[c], Firsts(Declared[c]))
  IN  [i \in DOMAIN kept |-> LastNamed(Declared[c], kept[i].name)]]
Field(c, name) == CHOOSE f \in ToSet(FieldsOf[c]) : f.name = name
Names(c)       == {f.name : f \in ToSet(FieldsOf[c])}

SoundField(f) ==
  CASE Kind(f) \in {"Param", "Field", "Output"} -> ScalarType(f.arg)
    [] Kind(f) = "Array"                        -> f.arg \in Scalars
    [] OTHER                                    -> TRUE

SlotRoles == {"event", "predicate", "function"}
MethodsOf == [c \in Classes |-> FlattenSeq([i \in DOMAIN Mro[c] |-> Methods[Lineage(c)[i]]])]

(* Overrides keep their slot, and must keep the role.                       *)
Slotted(all) ==
  {i \in DOMAIN all : all[i].role \in SlotRoles /\ \A j \in 1 .. i - 1 :
                        all[j].role \in SlotRoles => all[j].name # all[i].name}
Slots == [c \in Classes |->
  LET slotted == Chosen(MethodsOf[c], Slotted(MethodsOf[c]))
  IN  [i \in DOMAIN slotted |-> slotted[i].name]]
KeepsRoles(c) ==
  LET all == MethodsOf[c]
  IN  \A i, j \in DOMAIN all :
        (i < j /\ all[i].name = all[j].name /\ all[i].role \in SlotRoles)
          => all[j].role = all[i].role

Defines(c, name) == \E m \in ToSet(Methods[c]) : m.name = name
Own(c, name)     == CHOOSE m \in ToSet(Methods[c]) : m.name = name
Impl(c, name)    ==                       (* getattr(cls, name)             *)
  Mro[c][CHOOSE i \in DOMAIN Mro[c] :
           Defines(Mro[c][i], name) /\ \A j \in 1 .. i - 1 : ~Defines(Mro[c][j], name)]
Signature(c, name) == Own(Impl(c, name), name).signature

SoundSignature(s) ==
  /\ \A p \in ToSet(s.parameters) : /\ p.type \in Scalars \cup Classes \/ IntEnum(p.type)
                                    /\ p.default => p.type \notin Classes
  /\ \A i \in DOMAIN s.parameters : \A j \in 1 .. i :
       s.parameters[j].default => s.parameters[i].default
  /\ s.returns \in Scalars \cup Classes \cup {"None"} \/ IntEnum(s.returns)
Types(s) == [i \in DOMAIN s.parameters |-> s.parameters[i].type]

Functions(c) ==
  {n \in ToSet(Slots[c]) : \E m \in ToSet(MethodsOf[c]) : m.name = n /\ m.role = "function"}
KeepsSignature(c) == \A n \in Functions(c) :
  LET overridden == {i \in 2 .. Len(Mro[c]) :
                       Defines(Mro[c][i], n) /\ Own(Mro[c][i], n).role = "function"}
  IN  /\ SoundSignature(Signature(c, n))
      /\ \A i \in overridden : (\A j \in overridden : i <= j) =>
           LET kept == Own(Mro[c][i], n).signature
           IN  /\ Types(kept) = Types(Signature(c, n))
               /\ kept.returns = Signature(c, n).returns

KeepsSlots_Never(c) == TRUE
KeepsSlots(c) == \A b \in Bases(c) : IsPrefix(Slots[b], Slots[c])

SchemaOf(c) ==                            (* accepted, as its bases are     *)
  \A b \in ToSet(Mro[c]) :
    /\ \A f \in ToSet(FieldsOf[b]) : SoundField(f)
    /\ KeepsRoles(b)
    /\ ToSet(Slots[b]) \cap (Names(b) \cup Reserved) = {}
    /\ KeepsSignature(b)
    /\ KeepsSlots(b)

-----------------------------------------------------------------------------
(* RecordLayout.of *)

HandleOf(f) == IF f.origin \in {"Store", "PriorityStore"} THEN <<f.origin, f.arg>>
                                                          ELSE <<f.origin>>
Storable(f) == f.origin \in {"Store", "PriorityStore"} => f.arg \in {"int", "float"} \cup Classes

Pointer == [type |-> <<"pointer">>, size |-> 8]
DType(f) ==
  CASE Kind(f) \in {"Param", "Field", "Output"} ->
         [type |-> <<IF f.arg \in DOMAIN Enums THEN "int" ELSE f.arg>>,
          size |-> IF f.arg = "bool" THEN 1 ELSE 8]
    [] Kind(f) \in {"Input", "Series"} -> [type |-> <<"slot", f.arg>>, size |-> 152]
    [] Kind(f) = "Entity"              -> [type |-> HandleOf(f), size |-> 8]
    [] OTHER                           -> Pointer
Word(name, type) == [name |-> name, type |-> type, size |-> 8]
MembersOf(f) ==
  <<[name |-> f.name, type |-> DType(f).type, size |-> DType(f).size]>> \o
  CASE Kind(f) \in {"list", "list[Ref]"} -> <<Word(f.name \o "_length", <<"uint">>)>>
    [] Kind(f) = "Array"                 -> <<Word(f.name \o "_length", <<"int">>)>>
    [] OTHER                             -> <<>>
Members(c) ==
  <<Word("class_descriptor", <<"pointer">>)>> \o
  FlattenSeq([i \in DOMAIN FieldsOf[c] |-> MembersOf(FieldsOf[c][i])])

Aligned(offset, n) == ((offset + n - 1) \div n) * n
EndOf(placed) == IF placed = <<>> THEN 0 ELSE Last(placed).offset + Last(placed).size
Place(placed, m) ==
  Append(placed, [name |-> m.name, type |-> m.type, size |-> m.size,
                  offset |-> Aligned(EndOf(placed), IF m.size = 1 THEN 1 ELSE 8)])
Laid(members) ==                          (* numpy's aligned members       *)
  LET placed[n \in 0 .. Len(members)] ==
        IF n = 0 THEN <<>> ELSE Place(placed[n - 1], members[n])
  IN  placed[Len(members)]
Record == [c \in Classes |-> Laid(Members(c))]
Member(c, name) == CHOOSE m \in ToSet(Record[c]) : m.name = name
Offset(c, name) == Member(c, name).offset
Size(c)         == Aligned(EndOf(Record[c]), 8)

(* Base-typed views read at the offsets of the base.                        *)
Preserves_Never(c) == TRUE 
Preserves(c) == \A b \in Bases(c) : \A m \in ToSet(Record[b]) :
  Member(c, m.name).offset = m.offset /\ Member(c, m.name).type = m.type
LayoutOf(c) ==
  \A b \in ToSet(Mro[c]) :
    /\ \A f \in ToSet(FieldsOf[b]) : Kind(f) = "Entity" => Storable(f)
    /\ \A f \in ToSet(FieldsOf[b]) : Kind(f) \in {"Input", "Series"} => f.arg \in Scalars
    /\ Preserves(b)
=============================================================================
