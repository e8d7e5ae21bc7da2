---------------------------- MODULE CompiledProps ----------------------------
(* What the views, tables and handles of compiled model code promise. *)
EXTENDS Compiled

(* What the proofs ask of classes and trees, beyond what cimba does: that a *)
(* class that declares a reference, entity or array again keeps its type    *)
(* (layouts only keep where it is, and that it is a pointer), and           *)
KeepsFields == \A c \in Usable : \A b \in Bases(c) : \A f \in Shown(b) :
  \E g \in Shown(c) : g.name = f.name /\ Kind(g) = Kind(f) /\ TypeOf(g) = TypeOf(f)
(* that a function has the types it has in every base (it is only compared  *)
(* with the first base that has it).                                        *)
KeepsCalls == \A c \in Usable : \A b \in Bases(c) : \A n \in Functions(b) :
  /\ n \in Functions(c) /\ Types(Signature(c, n)) = Types(Signature(b, n))
  /\ Signature(c, n).returns = Signature(b, n).returns

(* An address holds what a type says: a record of the class or of a         *)
(* subclass, or the handle or array that a field of that record has there.  *)
Denotes(type, p) ==
  /\ p[1] \in DOMAIN heap
  /\ IF type[1] = "model" THEN p[2] = 0 /\ IsA(heap[p[1]].class, type[2])
     ELSE \E f \in Shown(heap[p[1]].class) :
            At[heap[p[1]].class][f.name] = p[2] /\ TypeOf(f) = type

(* The state is well-formed: a trial has records of usable classes only.    *)
TypeOK ==
  /\ phase \in {"prepare", "trial", "refused", "failed", "crashed"}
  /\ compiled \subseteq Usable /\ views \subseteq Usable
  /\ \A r \in DOMAIN heap :
       /\ heap[r].class \in Usable /\ heap[r].dynamic \in BOOLEAN /\ heap[r].released \in BOOLEAN
       /\ DOMAIN heap[r].word = {At[heap[r].class][f.name] : f \in Shown(heap[r].class)}
  /\ \A i \in DOMAIN buffers : buffers[i].size >= 0 /\ buffers[i].freed \in BOOLEAN
  /\ phase = "trial" => {heap[r].class : r \in DOMAIN heap} \subseteq compiled

(* The places inside a record that is missing: where its entities would be. *)
Astray(type, p) == type[1] # "model" /\ p[1] = 0 /\ p # Null

(* Every value that compiled code can use is what its type says, wherever   *)
(* it came from (a reference seen through a base class, a list, a store, a  *)
(* call that an override answered), or it is missing: an optional reference,*)
(* or what a list or an interrupted get() gave, for which nobody looked, or *)
(* a place inside such a one. And the compiler knows how to type the record *)
(* of every model the code can come to hold.                                *)
ViewsSound == \A v \in Values :
  /\ v.sort # "none" => \/ v.at = Null /\ (v.optional \/ v.unchecked)
                        \/ Astray(<<v.sort, v.of>>, v.at)
                        \/ Denotes(<<v.sort, v.of>>, v.at)
  /\ v.sort = "model" => v.of \in views

(* Dereferencing a missing reference abandons the trial instead of crashing *)
(* (docs/architecture/packages.rst:134-135).                                *)
MissingAbandons == phase # "crashed"

(* The state is well-formed, and every base of a record's class finds at its*)
(* own offsets references of the type that base declares, whatever views    *)
(* they were written through, unless they are missing.                      *)
HeapSound ==
  /\ TypeOK
  /\ \A r \in DOMAIN heap : \A b \in ToSet(Mro[heap[r].class]) : \A f \in Shown(b) :
       LET word == WordAt(r, At[b][f.name])
       IN  CASE Kind(f) \in {"Child", "Ref"}       ->
                  word = Null \/ Astray(TypeOf(f), word) \/ Denotes(TypeOf(f), word)
             [] Kind(f) \in {"list", "list[Ref]"} ->
                  \A i \in DOMAIN word : word[i] = Null \/ Denotes(TypeOf(f), word[i])
             [] OTHER                              -> Denotes(TypeOf(f), <<r, At[b][f.name]>>)
  /\ \A p \in DOMAIN stores : \A i \in DOMAIN stores[p] :
       stores[p][i] = Null \/ Denotes(<<"model", EntityAt(p).type[2]>>, stores[p][i])

(* A call runs the method it names, at the slot that the caller's class has *)
(* for it, in the table of whatever class the record is of.                 *)
DispatchSound == last.act = "call" => last.ran = last.name

(* A native function only gets entities of the kind it was written for, as  *)
(* the trial made them, directly, by reference or from a list.              *)
KindsMatch == last.act = "native" => last.made \in last.takes

(* An array access stays inside a buffer that is not freed and that belongs *)
(* to that field of that record, also through a view kept since before the  *)
(* model was released.  Buffers that are not freed are those the words of   *)
(* records name, each by its own length; a freed one is named by none.      *)
ArraysSafe ==
  /\ last.act = "element" =>
       /\ last.buffer \in DOMAIN buffers
       /\ buffers[last.buffer].owner = last.of /\ ~buffers[last.buffer].freed
       /\ last.index \in 0 .. buffers[last.buffer].size - 1
  /\ \A i \in DOMAIN buffers :
       LET word == heap[buffers[i].owner[1]].word[buffers[i].owner[2]]
       IN  word = IF buffers[i].freed THEN <<0, -1>> ELSE <<i, buffers[i].size>>
=============================================================================
