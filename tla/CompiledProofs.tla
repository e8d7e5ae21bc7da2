---------------------------- MODULE CompiledProofs ----------------------------
(***************************************************************************)
(* Proofs about compiled model code: whatever well-typed steps it takes, on*)
(* whatever classes and trees, values, records, calls, native functions and*)
(* arrays are what their types say.                                        *)
(***************************************************************************)
EXTENDS CompiledProps, Counting, SequenceTheorems

-----------------------------------------------------------------------------
(* Classes *)

(* What Python's order of bases means for a class.                          *)
LEMMA Inherited ==
  ASSUME NEW c \in Classes
  PROVE  /\ Mro[c] \in Seq(Classes) /\ c \in ToSet(Mro[c])
         /\ ToSet(Mro[c]) \subseteq Classes
         /\ \A b \in ToSet(Mro[c]) : b = c \/ b \in Bases(c)
         /\ \A b \in Classes : IsA(c, b) <=> b \in ToSet(Mro[c])
<1>1. /\ Mro[c] \in Seq(Classes) /\ Len(Mro[c]) > 0 /\ Mro[c][1] = c
      /\ DOMAIN Mro[c] = 1 .. Len(Mro[c])
  BY MroAssumption
<1>2. 1 \in DOMAIN Mro[c] /\ \A i \in DOMAIN Mro[c] : i = 1 \/ i \in 2 .. Len(Mro[c])
  BY <1>1
<1> QED
  BY <1>1, <1>2 DEF ToSet, Bases, IsA, Contains

(* A base of a base is a base.                                              *)
LEMMA BasesOfBases ==
  ASSUME NEW a, NEW b, NEW c, IsA(a, b), IsA(b, c)
  PROVE  IsA(a, c)
<1>1. a \in Classes /\ b \in Classes /\ c \in Classes
  BY DEF IsA
<1>2. b \in ToSet(Mro[a]) /\ c \in ToSet(Mro[b])
  BY <1>1, Inherited
<1>3. c \in ToSet(Mro[a])
  BY <1>1, <1>2, MroAssumption
<1> QED
  BY <1>1, <1>3, Inherited

(* What the classes of a lineage list, one after the other.                 *)
LEMMA Listed ==
  ASSUME NEW L, \A c \in Classes : L[c] \in Seq(ToSet(L[c])), NEW c \in Classes
  PROVE  FlattenSeq([i \in DOMAIN Mro[c] |-> L[Lineage(c)[i]]])
         \in Seq(UNION {ToSet(L[b]) : b \in Classes})
<1> DEFINE S == UNION {ToSet(L[b]) : b \in Classes}
<1>1. /\ Mro[c] \in Seq(Classes) /\ DOMAIN Mro[c] = 1 .. Len(Mro[c])
      /\ Len(Mro[c]) \in Nat
  BY Inherited
<1>2. \A i \in DOMAIN Mro[c] : Lineage(c)[i] \in Classes
  BY <1>1 DEF Lineage, Reverse
<1>3. \A b \in Classes : L[b] \in Seq(S)
  <2> TAKE b \in Classes
  <2>1. ToSet(L[b]) \subseteq S
    OBVIOUS
  <2> QED
    BY <2>1, SeqMonotonic
<1> HIDE DEF S
<1>4. [i \in DOMAIN Mro[c] |-> L[Lineage(c)[i]]] \in Seq(Seq(S))
  <2>1. [i \in 1 .. Len(Mro[c]) |-> L[Lineage(c)[i]]] \in [1 .. Len(Mro[c]) -> Seq(S)]
    BY <1>1, <1>2, <1>3
  <2> QED
    BY <1>1, <2>1, SeqDef
<1>5. FlattenSeq([i \in DOMAIN Mro[c] |-> L[Lineage(c)[i]]]) \in Seq(S)
  BY <1>4, FlattenProperties
<1> QED
  BY <1>5 DEF S

(* The declarations of a class are those of its bases.                      *)
LEMMA DeclaredListed ==
  ASSUME NEW c \in Classes
  PROVE  Declared[c] \in Seq(UNION {ToSet(Annotated[b]) : b \in Classes})
BY DeclarationAssumption, Listed DEF Declared

(* And its methods those of its bases.                                      *)
LEMMA MethodsListed ==
  ASSUME NEW c \in Classes
  PROVE  MethodsOf[c] \in Seq(UNION {ToSet(Methods[b]) : b \in Classes})
BY DeclarationAssumption, Listed DEF MethodsOf

(* The chosen members of a sequence stay in their order, one each.          *)
LEMMA ChosenOnce ==
  ASSUME NEW S, NEW seq \in Seq(S), NEW indices \in SUBSET DOMAIN seq
  PROVE  /\ Chosen(seq, indices) \in Seq(S)
         /\ \A n \in DOMAIN Chosen(seq, indices) : \E i \in indices :
              /\ Chosen(seq, indices)[n] = seq[i]
              /\ Cardinality(Below(indices, i)) = n - 1
<1> PICK N : N = Cardinality(indices)
  OBVIOUS
<1>1. indices \in SUBSET Int /\ IsFiniteSet(indices)
  <2>1. DOMAIN seq = 1 .. Len(seq) /\ IsFiniteSet(1 .. Len(seq))
    BY FS_Interval
  <2> QED
    BY <2>1, FS_Subset
<1>2. N \in Nat
  BY <1>1, FS_CardinalityType
<1> DEFINE At1(n) == CHOOSE i \in indices : Cardinality({j \in indices : j < i}) = n - 1
<1>3. \A n \in 1 .. N : At1(n) \in indices /\ Cardinality(Below(indices, At1(n))) = n - 1
  <2> TAKE n \in 1 .. N
  <2>1. \E i \in indices : Cardinality(Below(indices, i)) = n - 1
    BY <1>1, RanksOccur
  <2> QED
    BY <2>1 DEF Below
<1>4. Chosen(seq, indices) = [n \in 1 .. N |-> seq[At1(n)]]
  BY DEF Chosen
<1> HIDE DEF At1
<1>5. [n \in 1 .. N |-> seq[At1(n)]] \in [1 .. N -> S]
  BY <1>3
<1> QED
  BY <1>2, <1>3, <1>4, <1>5, SeqDef

(* Of the members with a name there is a last one.                          *)
LEMMA LastHasName ==
  ASSUME NEW S, NEW seq \in Seq(S), NEW k \in DOMAIN seq
  PROVE  LastNamed(seq, seq[k].name).name = seq[k].name
<1> PICK N \in Nat : N = Len(seq) /\ DOMAIN seq = 1 .. N
  OBVIOUS
<1> PICK name : name = seq[k].name
  OBVIOUS
<1> DEFINE T == {N - i : i \in {i \in 1 .. N : seq[i].name = name}}
<1>1. PICK m \in T : \A n \in T : m <= n
  <2>1. T \in SUBSET Nat /\ N - k \in T
    OBVIOUS
  <2> HIDE DEF T
  <2> QED
    BY <2>1, LeastNatural
<1>2. PICK i \in 1 .. N : seq[i].name = name /\ m = N - i
  OBVIOUS
<1>3. \A j \in 1 .. N : seq[j].name = name => j <= i
  <2> SUFFICES ASSUME NEW j \in 1 .. N, seq[j].name = name PROVE j <= i
    OBVIOUS
  <2>1. N - j \in T
    OBVIOUS
  <2> HIDE DEF T
  <2>2. N - i <= N - j
    BY <1>1, <1>2, <2>1
  <2> QED
    BY <2>2
<1> DEFINE latest == CHOOSE l \in DOMAIN seq : /\ seq[l].name = name
                                               /\ \A j \in DOMAIN seq : seq[j].name = name => j <= l
<1>4. latest \in DOMAIN seq /\ seq[latest].name = name
  BY <1>2, <1>3
<1> HIDE DEF latest
<1>5. LastNamed(seq, name) = seq[latest]
  BY DEF LastNamed, latest
<1> QED
  BY <1>4, <1>5

(* A class has one field of a name.                                         *)
LEMMA FieldsNamed ==
  ASSUME NEW c \in Classes
  PROVE  /\ DOMAIN FieldsOf[c] \in SUBSET Int /\ FieldsOf[c] \in Seq(ToSet(FieldsOf[c]))
         /\ \A f, g \in ToSet(FieldsOf[c]) : f.name = g.name => f = g
         /\ \A f \in ToSet(FieldsOf[c]) : Field(c, f.name) = f /\ f.name \in Names(c)
         /\ \A name \in Names(c) : /\ Field(c, name) \in ToSet(FieldsOf[c])
                                   /\ Field(c, name).name = name
<1> PICK D : D = Declared[c]
  OBVIOUS
<1> PICK S : S = UNION {ToSet(Annotated[b]) : b \in Classes}
  OBVIOUS
<1>1. D \in Seq(S)
  BY DeclaredListed
<1> PICK I : I = Firsts(D)
  OBVIOUS
<1>2. I \in SUBSET DOMAIN D
  BY DEF Firsts
<1> PICK kept : kept = Chosen(D, I)
  OBVIOUS
<1>3. /\ kept \in Seq(S)
      /\ \A n \in DOMAIN kept : \E i \in I : /\ kept[n] = D[i]
                                             /\ Cardinality(Below(I, i)) = n - 1
  BY <1>1, <1>2, ChosenOnce
<1>4. FieldsOf[c] = [n \in DOMAIN kept |-> LastNamed(D, kept[n].name)]
  BY DEF FieldsOf
<1>5. \A n \in DOMAIN kept : LastNamed(D, kept[n].name).name = kept[n].name
  BY <1>1, <1>2, <1>3, LastHasName
<1>6. DOMAIN kept = 1 .. Len(kept) /\ Len(kept) \in Nat
  BY <1>3
<1>7. \A i, j \in I : D[i].name = D[j].name => i = j
  <2> SUFFICES ASSUME NEW i \in I, NEW j \in I, i < j PROVE D[i].name # D[j].name
    BY <1>1, <1>2
  <2>1. i \in 1 .. j - 1
    BY <1>1, <1>2
  <2> QED
    BY <2>1 DEF Firsts
<1>8. \A n, m \in DOMAIN kept : kept[n].name = kept[m].name => n = m
  BY <1>3, <1>6, <1>7
<1>9. \A n, m \in DOMAIN FieldsOf[c] :
        FieldsOf[c][n].name = FieldsOf[c][m].name => n = m
  BY <1>4, <1>5, <1>8
<1>10. \A f, g \in ToSet(FieldsOf[c]) : f.name = g.name => f = g
  BY <1>9 DEF ToSet
<1>11. DOMAIN FieldsOf[c] = 1 .. Len(kept)
  BY <1>4, <1>6
<1>12. FieldsOf[c] \in Seq(ToSet(FieldsOf[c]))
  <2>1. FieldsOf[c] \in [1 .. Len(kept) -> ToSet(FieldsOf[c])]
    BY <1>4, <1>11 DEF ToSet
  <2> QED
    BY <1>6, <2>1, SeqDef
<1> QED
  BY <1>6, <1>10, <1>11, <1>12 DEF Field, Names


-----------------------------------------------------------------------------
(* Records *)

Sized(m) == DOMAIN m = {"name", "type", "size"} /\ m.size \in Nat \ {0}

(* A field takes words of its own in the record, one with its name.         *)
LEMMA MembersOfField ==
  ASSUME NEW f
  PROVE  /\ MembersOf(f) \in Seq(ToSet(MembersOf(f)))
         /\ \A m \in ToSet(MembersOf(f)) : Sized(m)
         /\ \E m \in ToSet(MembersOf(f)) : m.name = f.name
<1> PICK d : d = DType(f)
  OBVIOUS
<1>1. DOMAIN d = {"type", "size"} /\ d.size \in {1, 8, 152}
  <2>1. CASE Kind(f) \in {"Param", "Field", "Output"}
    BY <2>1 DEF DType
  <2>2. CASE Kind(f) \in {"Input", "Series"}
    BY <2>2 DEF DType
  <2>3. CASE Kind(f) = "Entity"
    BY <2>3 DEF DType
  <2>4. CASE Kind(f) \notin {"Param", "Field", "Output", "Input", "Series", "Entity"}
    BY <2>4 DEF DType, Pointer
  <2> QED
    BY <2>1, <2>2, <2>3, <2>4
<1> PICK m : m = [name |-> f.name, type |-> d.type, size |-> d.size]
  OBVIOUS
<1>2. Sized(m) /\ m.name = f.name
  BY <1>1 DEF Sized
<1> PICK w : w = f.name \o "_length"
  OBVIOUS
<1>3. Sized(Word(w, <<"uint">>)) /\ Sized(Word(w, <<"int">>))
  BY DEF Sized, Word
<1>4. \/ MembersOf(f) = <<m>>
      \/ MembersOf(f) = <<m, Word(w, <<"uint">>)>>
      \/ MembersOf(f) = <<m, Word(w, <<"int">>)>>
  <2> DEFINE rest == CASE Kind(f) \in {"list", "list[Ref]"} -> <<Word(w, <<"uint">>)>>
                       [] Kind(f) = "Array"                 -> <<Word(w, <<"int">>)>>
                       [] OTHER                             -> <<>>
  <2>1. MembersOf(f) = <<m>> \o rest
    BY DEF MembersOf
  <2>2. rest = <<>> \/ rest = <<Word(w, <<"uint">>)>> \/ rest = <<Word(w, <<"int">>)>>
    <3>1. CASE Kind(f) \in {"list", "list[Ref]"}
      BY <3>1
    <3>2. CASE Kind(f) = "Array"
      BY <3>2
    <3>3. CASE Kind(f) \notin {"list", "list[Ref]", "Array"}
      BY <3>3
    <3> QED
      BY <3>1, <3>2, <3>3
  <2>3. <<m>> \o <<>> = <<m>>
    OBVIOUS
  <2>4. ASSUME NEW x PROVE <<m>> \o <<x>> = <<m, x>>
    <3>1. /\ <<m>> \o <<x>> \in Seq({m, x}) /\ Len(<<m>> \o <<x>>) = 2
          /\ (<<m>> \o <<x>>)[1] = m /\ (<<m>> \o <<x>>)[2] = x
      <4>1. <<m>> \in Seq({m, x}) /\ <<x>> \in Seq({m, x})
        OBVIOUS
      <4> QED
        BY <4>1
    <3>2. <<m, x>> \in Seq({m, x}) /\ Len(<<m, x>>) = 2
      OBVIOUS
    <3>3. \A s, t \in Seq({m, x}) :
            Len(s) = 2 /\ Len(t) = 2 /\ s[1] = t[1] /\ s[2] = t[2] => s = t
      OBVIOUS
    <3> QED
      BY <3>1, <3>2, <3>3
  <2> HIDE DEF rest
  <2> QED
    BY <2>1, <2>2, <2>3, <2>4
<1>5. ASSUME NEW s, s = <<m>> \/ \E x : Sized(x) /\ s = <<m, x>>
      PROVE  /\ s \in Seq(ToSet(s)) /\ m \in ToSet(s)
             /\ \A x \in ToSet(s) : Sized(x)
  <2>1. CASE s = <<m>>
    BY <1>2, <2>1 DEF ToSet
  <2>2. CASE s # <<m>>
    <3> PICK x : Sized(x) /\ s = <<m, x>>
      BY <1>5, <2>2
    <3>1. s = <<m, x>> /\ DOMAIN s = {1, 2} /\ s[1] = m /\ s[2] = x
      OBVIOUS
    <3>2. ToSet(s) = {m, x}
      BY <3>1 DEF ToSet
    <3>3. s \in Seq({m, x})
      BY <3>1
    <3> QED
      BY <1>2, <3>2, <3>3, <2>2
  <2> QED
    BY <2>1, <2>2
<1> QED
  BY <1>2, <1>3, <1>4, <1>5

(* A sequence over some set is one over its own elements.                   *)
LEMMA OwnMembers ==
  ASSUME NEW S, NEW s \in Seq(S)
  PROVE  s \in Seq(ToSet(s)) /\ ToSet(s) \subseteq S
<1>1. PICK n \in Nat : s \in [1 .. n -> S]
  BY SeqDef
<1>2. DOMAIN s = 1 .. n /\ \A i \in 1 .. n : s[i] \in S
  BY <1>1
<1>3. s = [i \in 1 .. n |-> s[i]]
  BY <1>1
<1>4. \A i \in 1 .. n : s[i] \in ToSet(s)
  BY <1>2 DEF ToSet
<1>5. [i \in 1 .. n |-> s[i]] \in [1 .. n -> ToSet(s)]
  BY <1>4
<1>6. s \in [1 .. n -> ToSet(s)]
  BY <1>3, <1>5
<1>7. s \in Seq(ToSet(s))
  BY <1>6, SeqDef
<1>8. ToSet(s) \subseteq S
  BY <1>2 DEF ToSet
<1> QED
  BY <1>7, <1>8

(* What an appended element changes.                                        *)
LEMMA AppendHas ==
  ASSUME NEW s, s \in Seq(ToSet(s)), NEW x
  PROVE  /\ Append(s, x) \in Seq(ToSet(Append(s, x))) /\ Len(s) \in Nat
         /\ Len(Append(s, x)) = Len(s) + 1
         /\ DOMAIN s = 1 .. Len(s) /\ DOMAIN Append(s, x) = 1 .. Len(s) + 1
         /\ \A i \in 1 .. Len(s) : Append(s, x)[i] = s[i]
         /\ Append(s, x)[Len(s) + 1] = x
<1>t. PICK t : t = Append(s, x)
  OBVIOUS
<1> PICK S : S = ToSet(s) \cup {x}
  OBVIOUS
<1>1. s \in Seq(S)
  BY SeqMonotonic
<1>2. /\ t \in Seq(S) /\ Len(s) \in Nat
      /\ Len(t) = Len(s) + 1 /\ DOMAIN s = 1 .. Len(s) /\ DOMAIN t = 1 .. Len(s) + 1
      /\ \A i \in 1 .. Len(s) : t[i] = s[i]
      /\ t[Len(s) + 1] = x
  BY <1>t, <1>1
<1>3. t \in Seq(ToSet(t))
  BY <1>2, OwnMembers
<1> QED
  BY <1>t, <1>2, <1>3

(* A record has a member of the name of every field.                        *)
LEMMA MembersOfClass ==
  ASSUME NEW c \in Classes
  PROVE  /\ Members(c) \in Seq(ToSet(Members(c)))
         /\ \A m \in ToSet(Members(c)) : Sized(m)
         /\ \A f \in ToSet(FieldsOf[c]) : \E m \in ToSet(Members(c)) : m.name = f.name
<1> PICK F : F = FieldsOf[c]
  OBVIOUS
<1>1. F \in Seq(ToSet(F)) /\ DOMAIN F = 1 .. Len(F) /\ Len(F) \in Nat
  BY FieldsNamed
<1> PICK first : first = Word("class_descriptor", <<"pointer">>)
  OBVIOUS
<1>2. Sized(first)
  BY DEF Word, Sized
<1> PICK S : S = {first} \cup UNION {ToSet(MembersOf(f)) : f \in ToSet(F)}
  OBVIOUS
<1> PICK seqs : seqs = [i \in DOMAIN F |-> MembersOf(F[i])]
  OBVIOUS
<1>3. \A i \in DOMAIN F : F[i] \in ToSet(F) /\ MembersOf(F[i]) \in Seq(S)
  <2> TAKE i \in DOMAIN F
  <2>1. F[i] \in ToSet(F)
    BY DEF ToSet
  <2>2. ToSet(MembersOf(F[i])) \subseteq S
    BY <2>1
  <2>3. MembersOf(F[i]) \in Seq(ToSet(MembersOf(F[i])))
    BY MembersOfField
  <2> QED
    BY <2>1, <2>2, <2>3, SeqMonotonic
<1>4. seqs \in Seq(Seq(S)) /\ DOMAIN seqs = DOMAIN F
  <2>1. seqs \in [1 .. Len(F) -> Seq(S)]
    BY <1>1, <1>3
  <2> QED
    BY <1>1, <2>1, SeqDef
<1> PICK flat : flat = FlattenSeq(seqs)
  OBVIOUS
<1>5. /\ flat \in Seq(S)
      /\ \A i \in DOMAIN F : ToSet(MembersOf(F[i])) \subseteq ToSet(flat)
  <2>1. FlattenSeq(seqs) \in Seq(S)
        /\ \A i \in DOMAIN seqs : ToSet(seqs[i]) \subseteq ToSet(FlattenSeq(seqs))
    BY <1>4, FlattenProperties
  <2> QED
    BY <1>4, <2>1
<1> PICK M : M = <<first>> \o flat
  OBVIOUS
<1>6. M = Members(c)
  BY DEF Members
<1>7. M \in Seq(S) /\ ToSet(flat) \subseteq ToSet(M)
  <2>1. <<first>> \in Seq(S)
    OBVIOUS
  <2> QED
    BY <1>5, <2>1, ConcatHas
<1>8. \A m \in S : Sized(m)
  BY <1>2, MembersOfField
<1>9. M \in Seq(ToSet(M)) /\ ToSet(M) \subseteq S
  <2>1. M \in Seq(S)
    BY <1>7
  <2> QED
    BY ONLY <2>1, OwnMembers
<1>10. ASSUME NEW f \in ToSet(F) PROVE \E m \in ToSet(M) : m.name = f.name
  <2>1. PICK i \in DOMAIN F : f = F[i]
    BY DEF ToSet
  <2>2. PICK m \in ToSet(MembersOf(f)) : m.name = f.name
    BY MembersOfField
  <2> QED
    BY <1>5, <1>7, <2>1, <2>2
<1> QED
  BY <1>6, <1>8, <1>9, <1>10

(* The first few members placed, each after those before.                   *)
PlacedTo(members, placed, n) ==
  placed = [i \in 0 .. n |-> IF i = 0 THEN <<>> ELSE Place(placed[i - 1], members[i])]

(* A layout unrolled so far can be unrolled by one more member.             *)
LEMMA PlacesFurther ==
  ASSUME NEW members, NEW n \in Nat, NEW f, PlacedTo(members, f, n)
  PROVE  \E g : PlacedTo(members, g, n + 1)
<1> PICK g : g = [i \in 0 .. n + 1 |-> IF i <= n THEN f[i] ELSE Place(f[n], members[i])]
  OBVIOUS
<1>1. \A i \in 0 .. n : f[i] = IF i = 0 THEN <<>> ELSE Place(f[i - 1], members[i])
  BY DEF PlacedTo
<1>2. (\A i \in 0 .. n : g[i] = f[i]) /\ g[n + 1] = Place(f[n], members[n + 1])
  <2>1. n + 1 \in 0 .. n + 1 /\ ~(n + 1 <= n)
    OBVIOUS
  <2>2. \A i \in 0 .. n : i \in 0 .. n + 1 /\ i <= n
    OBVIOUS
  <2> QED
    BY <2>1, <2>2
<1>3. \A i \in 0 .. n + 1 : g[i] = IF i = 0 THEN <<>> ELSE Place(g[i - 1], members[i])
  <2> TAKE i \in 0 .. n + 1
  <2>1. CASE i \in 0 .. n
    <3>1. i # 0 => i - 1 \in 0 .. n
      BY <2>1
    <3>2. i # 0 => g[i - 1] = f[i - 1]
      BY <1>2, <3>1
    <3>3. g[i] = f[i] /\ f[i] = IF i = 0 THEN <<>> ELSE Place(f[i - 1], members[i])
      BY <1>1, <1>2, <2>1
    <3> QED
      BY <3>2, <3>3
  <2>2. CASE i = n + 1
    <3>1. i # 0 /\ i - 1 = n /\ n \in 0 .. n
      BY <2>2
    <3>2. g[i - 1] = f[n]
      BY <1>2, <3>1
    <3> QED
      BY <1>2, <2>2, <3>1, <3>2
  <2> QED
    BY <2>1, <2>2
<1>4. g = [i \in 0 .. n + 1 |-> g[i]]
  OBVIOUS
<1>5. [i \in 0 .. n + 1 |-> g[i]]
      = [i \in 0 .. n + 1 |-> IF i = 0 THEN <<>> ELSE Place(g[i - 1], members[i])]
  BY <1>3
<1>6. PlacedTo(members, g, n + 1)
  BY <1>4, <1>5 DEF PlacedTo
<1> QED
  BY <1>6

(* The layout of a class is its members placed one after another.           *)
LEMMA RecordUnrolls ==
  ASSUME NEW c \in Classes
  PROVE  \E placed : /\ Record[c] = placed[Len(Members(c))]
                     /\ placed[0] = <<>>
                     /\ \A n \in 1 .. Len(Members(c)) :
                          placed[n] = Place(placed[n - 1], Members(c)[n])
<1> PICK members : members = Members(c)
  OBVIOUS
<1> PICK N \in Nat : N = Len(members)
  BY MembersOfClass
<1> DEFINE S == {n \in Nat : \E f : PlacedTo(members, f, n)}
<1>1. 0 \in S
  <2> PICK f : f = [i \in 0 .. 0 |-> <<>>]
    OBVIOUS
  <2>1. f = [i \in 0 .. 0 |-> IF i = 0 THEN <<>> ELSE Place(f[i - 1], members[i])]
    OBVIOUS
  <2> QED
    BY <2>1 DEF PlacedTo
<1>2. ASSUME NEW n \in 0 .. N - 1, n \in S PROVE n + 1 \in S
  BY <1>2, PlacesFurther
<1>3. N \in S
  <2> HIDE DEF S
  <2>1. 0 .. N \subseteq S
    BY <1>1, <1>2, CountsUp
  <2> QED
    BY <2>1
<1> DEFINE placed == CHOOSE f : PlacedTo(members, f, N)
<1>4. PlacedTo(members, placed, N)
  BY <1>3
<1>5. Record[c] = placed[N]
  <2>1. Record[c] = Laid(members)
    BY DEF Record
  <2>2. Laid(members) = placed[N]
    BY DEF Laid, PlacedTo
  <2> QED
    BY <2>1, <2>2
<1> HIDE DEF placed
<1>6. \A n \in 0 .. N : placed[n] = IF n = 0 THEN <<>> ELSE Place(placed[n - 1], members[n])
  BY <1>4 DEF PlacedTo
<1>7. 0 \in 0 .. N /\ \A n \in 1 .. N : n \in 0 .. N /\ n # 0
  OBVIOUS
<1> QED
  BY <1>5, <1>6, <1>7

(* Where the next member goes: not before the end of the last.              *)
LEMMA AlignedAfter ==
  ASSUME NEW o \in Nat, NEW n \in {1, 8}
  PROVE  Aligned(o, n) \in Nat /\ o <= Aligned(o, n)
BY DEF Aligned

(* The members of a record, in their order and apart.                       *)
Spread(r, members, n) ==
  /\ r \in Seq(ToSet(r)) /\ DOMAIN r = 1 .. n
  /\ \A i \in 1 .. n : /\ r[i].name = members[i].name
                       /\ r[i].offset \in Nat /\ r[i].size \in Nat \ {0}
  /\ \A i, j \in 1 .. n : i < j => r[i].offset + r[i].size <= r[j].offset

(* A member placed last overlaps none of those before.                      *)
LEMMA PlaceSpreads ==
  ASSUME NEW r, NEW members, NEW n \in Nat, Spread(r, members, n), Sized(members[n + 1])
  PROVE  Spread(Place(r, members[n + 1]), members, n + 1)
<1> PICK m : m = members[n + 1]
  OBVIOUS
<1>1. m.size \in Nat \ {0}
  BY DEF Sized
<1>2. r \in Seq(ToSet(r)) /\ Len(r) = n /\ DOMAIN r = 1 .. n
  <2>1. r \in Seq(ToSet(r)) /\ DOMAIN r = 1 .. n
    BY DEF Spread
  <2> QED
    BY <2>1
<1> PICK end : end = EndOf(r)
  OBVIOUS
<1>3. /\ end \in Nat
      /\ \A i \in 1 .. n : r[i].offset + r[i].size <= end
  <2>1. CASE r = <<>>
    <3>1. n = 0
      BY <1>2, <2>1
    <3> QED
      BY <2>1, <3>1 DEF EndOf
  <2>2. CASE r # <<>>
    <3>1. n # 0 /\ n \in 1 .. n
      BY <1>2, <2>2
    <3>2. end = r[n].offset + r[n].size
      BY <1>2, <2>2 DEF EndOf, Last
    <3>3. \A i \in 1 .. n : r[i].offset \in Nat /\ r[i].size \in Nat
      BY DEF Spread
    <3>4. \A i \in 1 .. n : i = n \/ r[i].offset + r[i].size <= r[n].offset
      BY <3>1 DEF Spread
    <3> QED
      BY <3>1, <3>2, <3>3, <3>4
  <2> QED
    BY <2>1, <2>2
<1>o. PICK o : o = Aligned(end, IF m.size = 1 THEN 1 ELSE 8)
  OBVIOUS
<1>4. o \in Nat /\ end <= o
  BY <1>o, <1>3, AlignedAfter
<1> PICK x : x = [name |-> m.name, type |-> m.type, size |-> m.size, offset |-> o]
  OBVIOUS
<1>t. PICK t : t = Append(r, x)
  OBVIOUS
<1>5. t = Place(r, members[n + 1])
  BY <1>o, <1>t DEF Place
<1>6. /\ t \in Seq(ToSet(t)) /\ DOMAIN t = 1 .. n + 1
      /\ \A i \in 1 .. n : t[i] = r[i]
      /\ t[n + 1] = x
  <2>1. r \in Seq(ToSet(r))
    BY <1>2
  <2>2. /\ t \in Seq(ToSet(t))
        /\ DOMAIN t = 1 .. Len(r) + 1
        /\ \A i \in 1 .. Len(r) : t[i] = r[i]
        /\ t[Len(r) + 1] = x
    BY ONLY <2>1, <1>t, AppendHas
  <2> QED
    BY <1>2, <2>2
<1>7. x.name = m.name /\ x.size = m.size /\ x.offset = o
  OBVIOUS
<1>8. \A i \in 1 .. n + 1 : i \in 1 .. n \/ i = n + 1
  OBVIOUS
<1>9. \A i \in 1 .. n : /\ r[i].name = members[i].name
                        /\ r[i].offset \in Nat /\ r[i].size \in Nat \ {0}
  BY DEF Spread
<1>10. \A i, j \in 1 .. n : i < j => r[i].offset + r[i].size <= r[j].offset
  BY DEF Spread
<1>11. \A i \in 1 .. n + 1 : /\ t[i].name = members[i].name
                             /\ t[i].offset \in Nat /\ t[i].size \in Nat \ {0}
  BY <1>1, <1>4, <1>6, <1>7, <1>8, <1>9
<1>12. \A i, j \in 1 .. n + 1 : i < j => t[i].offset + t[i].size <= t[j].offset
  <2> SUFFICES ASSUME NEW i \in 1 .. n + 1, NEW j \in 1 .. n + 1, i < j
               PROVE  t[i].offset + t[i].size <= t[j].offset
    OBVIOUS
  <2>1. i \in 1 .. n
    OBVIOUS
  <2>2. CASE j \in 1 .. n
    BY <1>6, <1>10, <2>1, <2>2
  <2>3. CASE j = n + 1
    <3>1. t[i] = r[i] /\ t[j].offset = o
      BY <1>6, <1>7, <2>1, <2>3
    <3>2. r[i].offset \in Nat /\ r[i].size \in Nat /\ r[i].offset + r[i].size <= end
      BY <1>3, <1>9, <2>1
    <3>3. t[i].offset + t[i].size <= end
      BY <3>1, <3>2
    <3>4. t[i].offset \in Nat /\ t[i].size \in Nat
      BY <3>1, <3>2
    <3> QED
      BY <1>3, <1>4, <3>1, <3>3, <3>4
  <2> QED
    BY <1>8, <2>2, <2>3
<1>13. Spread(t, members, n + 1)
  BY <1>6, <1>11, <1>12 DEF Spread
<1> QED
  BY <1>5, <1>13

(* So no two members of a record overlap.                                   *)
LEMMA RecordSpreads ==
  ASSUME NEW c \in Classes
  PROVE  Spread(Record[c], Members(c), Len(Members(c)))
<1> PICK members : members = Members(c)
  OBVIOUS
<1>0. /\ Len(members) \in Nat /\ DOMAIN members = 1 .. Len(members)
      /\ \A i \in DOMAIN members : Sized(members[i])
  <2>1. members \in Seq(ToSet(members)) /\ \A m \in ToSet(members) : Sized(m)
    BY MembersOfClass
  <2>2. \A i \in DOMAIN members : members[i] \in ToSet(members)
    BY DEF ToSet
  <2> QED
    BY <2>1, <2>2
<1> PICK N \in Nat : N = Len(members)
  BY <1>0
<1>1. PICK placed : /\ Record[c] = placed[N]
                    /\ placed[0] = <<>>
                    /\ \A n \in 1 .. N : placed[n] = Place(placed[n - 1], members[n])
  BY RecordUnrolls
<1> DEFINE S == {n \in 0 .. N : Spread(placed[n], members, n)}
<1>2. 0 \in S
  <2>1. <<>> \in Seq(ToSet(<<>>)) /\ DOMAIN <<>> = 1 .. 0 /\ 0 \in 0 .. N
    OBVIOUS
  <2>2. \A i \in 1 .. 0 : FALSE
    OBVIOUS
  <2>3. Spread(<<>>, members, 0)
    BY <2>1, <2>2 DEF Spread
  <2> QED
    BY <1>1, <2>1, <2>3
<1>3. ASSUME NEW n \in 0 .. N - 1, n \in S PROVE n + 1 \in S
  <2>1. n + 1 \in 1 .. N /\ (n + 1) - 1 = n /\ n \in Nat
    OBVIOUS
  <2>2. placed[n + 1] = Place(placed[n], members[n + 1])
    BY <1>1, <2>1
  <2>3. Spread(placed[n + 1], members, n + 1)
    BY <1>0, <1>3, <2>1, <2>2, PlaceSpreads
  <2> QED
    BY <2>1, <2>3
<1>4. N \in S
  <2> HIDE DEF S
  <2>1. 0 .. N \subseteq S
    BY <1>2, <1>3, CountsUp
  <2> QED
    BY <2>1
<1> QED
  BY <1>1, <1>4

(* The offset of a field says which it is.                                  *)
LEMMA OffsetsApart ==
  ASSUME NEW c \in Classes
  PROVE  /\ \A n \in Names(c) : At[c][n] = Offset(c, n) /\ At[c][n] \in Nat
         /\ \A f, g \in ToSet(FieldsOf[c]) : At[c][f.name] = At[c][g.name] => f = g
         /\ \A n \in Names(c) : \E m \in ToSet(Record[c]) : m.name = n
<1> PICK members : members = Members(c)
  OBVIOUS
<1> PICK R : R = Record[c]
  OBVIOUS
<1> PICK N \in Nat : N = Len(members) /\ DOMAIN members = 1 .. N
  BY MembersOfClass
<1>1. /\ DOMAIN R = 1 .. N
      /\ \A i \in 1 .. N : /\ R[i].name = members[i].name
                           /\ R[i].offset \in Nat /\ R[i].size \in Nat \ {0}
      /\ \A i, j \in 1 .. N : i < j => R[i].offset + R[i].size <= R[j].offset
  <2>1. Spread(R, members, N)
    BY RecordSpreads
  <2> QED
    BY <2>1 DEF Spread
<1>2. \A i, j \in 1 .. N : R[i].offset = R[j].offset => i = j
  <2> SUFFICES ASSUME NEW i \in 1 .. N, NEW j \in 1 .. N, i < j
               PROVE  R[i].offset # R[j].offset
    OBVIOUS
  <2> QED
    BY <1>1
<1>3. \A n \in Names(c) : \E i \in 1 .. N : R[i].name = n
  <2> SUFFICES ASSUME NEW f \in ToSet(FieldsOf[c]) PROVE \E i \in 1 .. N : R[i].name = f.name
    BY DEF Names
  <2>1. PICK m \in ToSet(members) : m.name = f.name
    BY MembersOfClass
  <2>2. PICK i \in 1 .. N : members[i] = m
    BY DEF ToSet
  <2> QED
    BY <1>1, <2>1, <2>2
<1>4. \A n \in Names(c) : \E m \in ToSet(R) : m.name = n
  <2>1. \A i \in 1 .. N : R[i] \in ToSet(R)
    BY <1>1 DEF ToSet
  <2> QED
    BY <1>3, <2>1
<1>5. \A n \in Names(c) : Member(c, n) \in ToSet(R) /\ Member(c, n).name = n
  BY <1>4 DEF Member
<1>6. \A n \in Names(c) : \E i \in 1 .. N : R[i].name = n /\ Offset(c, n) = R[i].offset
  BY <1>1, <1>5 DEF Offset, ToSet
<1>7. \A n \in Names(c) : At[c][n] = Offset(c, n)
  <2> TAKE n \in Names(c)
  <2>1. \A f \in Names(c) : [m \in Names(c) |-> Offset(c, m)][f] = Offset(c, f)
    OBVIOUS
  <2> QED
    BY <2>1 DEF At
<1>8. ASSUME NEW f \in ToSet(FieldsOf[c]), NEW g \in ToSet(FieldsOf[c]),
             At[c][f.name] = At[c][g.name]
      PROVE  f = g
  <2>1. f.name \in Names(c) /\ g.name \in Names(c)
    BY DEF Names
  <2>2. f.name = g.name
    BY <1>2, <1>6, <1>7, <1>8, <2>1
  <2> QED
    BY <2>2, FieldsNamed
<1>9. \A n \in Names(c) : At[c][n] \in Nat
  BY <1>1, <1>6, <1>7
<1> QED
  BY <1>4, <1>7, <1>8, <1>9

-----------------------------------------------------------------------------
(* Usable classes *)

(* What the compiler checks before it makes a view of a class.              *)
LEMMA UsableClass ==
  ASSUME NEW c \in Usable
  PROVE  /\ c \in Classes
         /\ \A b \in Classes : IsA(c, b) => b \in Usable
         /\ \A b \in Bases(c) : b \in Classes /\ IsA(c, b)
         /\ IsA(c, c)
         /\ Preserves(c) /\ KeepsSlots(c)
         /\ \A f \in ToSet(FieldsOf[c]) : Kind(f) = "Entity" => Storable(f)
<1>1. c \in Classes /\ SchemaOf(c) /\ LayoutOf(c)
  BY DEF Usable
<1>2. /\ Mro[c] \in Seq(Classes) /\ c \in ToSet(Mro[c])
      /\ ToSet(Mro[c]) \subseteq Classes
      /\ \A b \in Classes : IsA(c, b) <=> b \in ToSet(Mro[c])
  BY <1>1, Inherited
<1>3. ASSUME NEW b \in Classes, IsA(c, b) PROVE b \in Usable
  <2>1. b \in ToSet(Mro[c])
    BY <1>2, <1>3
  <2>2. ToSet(Mro[b]) \subseteq ToSet(Mro[c])
    BY <1>1, <2>1, MroAssumption
  <2>3. SchemaOf(b)
    BY <1>1, <2>2 DEF SchemaOf
  <2>4. LayoutOf(b)
    BY <1>1, <2>2 DEF LayoutOf
  <2> QED
    BY <2>3, <2>4 DEF Usable
<1>4. ASSUME NEW b \in Bases(c) PROVE b \in Classes /\ IsA(c, b)
  <2>1. PICK i \in 2 .. Len(Mro[c]) : b = Mro[c][i]
    BY DEF Bases
  <2>2. i \in DOMAIN Mro[c]
    BY <1>2, <2>1
  <2>3. b \in ToSet(Mro[c])
    BY <2>1, <2>2 DEF ToSet
  <2> QED
    BY <1>2, <2>3
<1>5. Preserves(c) /\ \A f \in ToSet(FieldsOf[c]) : Kind(f) = "Entity" => Storable(f)
  BY <1>1, <1>2 DEF LayoutOf
<1>6. KeepsSlots(c)
  BY <1>1, <1>2 DEF SchemaOf
<1> QED
  BY <1>1, <1>2, <1>3, <1>4, <1>5, <1>6

(* A view finds each field by its name, at an offset of its own.            *)
LEMMA ShownFields ==
  ASSUME NEW c \in Classes
  PROVE  /\ \A f \in Shown(c) : /\ f \in ToSet(FieldsOf[c]) /\ f.name \in Names(c)
                                /\ Field(c, f.name) = f
                                /\ At[c][f.name] \in Nat
         /\ \A f, g \in Shown(c) : At[c][f.name] = At[c][g.name] => f = g
         /\ \A n \in Names(c) : Kind(Field(c, n)) \in {"Child", "Ref", "list", "list[Ref]",
                                                        "Entity", "Array"}
                                 => Field(c, n) \in Shown(c) /\ Field(c, n).name = n
         /\ Arrays(c) \subseteq Shown(c)
<1>1. \A f \in Shown(c) : f \in ToSet(FieldsOf[c])
  BY DEF Shown
<1>2. \A f \in ToSet(FieldsOf[c]) : f.name \in Names(c) /\ Field(c, f.name) = f
  BY FieldsNamed
<1>3. \A n \in Names(c) : Field(c, n) \in ToSet(FieldsOf[c]) /\ Field(c, n).name = n
  BY FieldsNamed
<1>4. /\ \A n \in Names(c) : At[c][n] \in Nat
      /\ \A f, g \in ToSet(FieldsOf[c]) : At[c][f.name] = At[c][g.name] => f = g
  BY OffsetsApart
<1>5. \A f \in ToSet(FieldsOf[c]) :
        Kind(f) \in {"Child", "Ref", "list", "list[Ref]", "Entity", "Array"} => f \in Shown(c)
  BY DEF Shown
<1>6. Arrays(c) \subseteq Shown(c)
  BY DEF Arrays, Shown
<1> QED
  BY <1>1, <1>2, <1>3, <1>4, <1>5, <1>6

(* What a base shows, a class has, at the same place.                       *)
LEMMA SeenThroughBase ==
  ASSUME KeepsFields, NEW c \in Usable, NEW b \in Classes, IsA(c, b), NEW f \in Shown(b)
  PROVE  \E g \in Shown(c) : /\ g.name = f.name /\ Kind(g) = Kind(f) /\ TypeOf(g) = TypeOf(f)
                             /\ At[c][f.name] = At[b][f.name]
<1>1. CASE b = c
  BY <1>1
<1>2. CASE b # c
  <2>1. c \in Classes /\ b \in Bases(c)
    BY <1>2, UsableClass, Inherited
  <2>2. PICK g \in Shown(c) : g.name = f.name /\ Kind(g) = Kind(f) /\ TypeOf(g) = TypeOf(f)
    BY <2>1 DEF KeepsFields
  <2>3. f.name \in Names(b) /\ f.name \in Names(c)
    BY <2>1, <2>2, ShownFields
  <2>4. PICK m \in ToSet(Record[b]) : m = Member(b, f.name) /\ m.name = f.name
    <3>1. \E m \in ToSet(Record[b]) : m.name = f.name
      BY <2>3, OffsetsApart
    <3> QED
      BY <3>1 DEF Member
  <2>5. Member(c, f.name).offset = m.offset
    BY <2>1, <2>4, UsableClass DEF Preserves
  <2>6. At[c][f.name] = Member(c, f.name).offset /\ At[b][f.name] = m.offset
    BY <2>1, <2>3, <2>4, OffsetsApart DEF Offset
  <2> QED
    BY <2>2, <2>5, <2>6
<1> QED
  BY <1>1, <1>2

(* A slot of a base is the class's slot for the same name.                  *)
LEMMA SlotsListed ==
  ASSUME NEW c \in Classes
  PROVE  Slots[c] \in Seq(ToSet(Slots[c]))
<1> PICK all : all = MethodsOf[c]
  OBVIOUS
<1> PICK S : S = UNION {ToSet(Methods[b]) : b \in Classes}
  OBVIOUS
<1>1. all \in Seq(S)
  BY MethodsListed
<1>2. Slotted(all) \in SUBSET DOMAIN all
  BY DEF Slotted
<1>3. Chosen(all, Slotted(all)) \in Seq(S)
  BY <1>1, <1>2, ChosenOnce
<1> PICK slotted : slotted = Chosen(all, Slotted(all))
  OBVIOUS
<1>4. Slots[c] = [i \in DOMAIN slotted |-> slotted[i].name]
  BY DEF Slots
<1>5. DOMAIN slotted = 1 .. Len(slotted) /\ Len(slotted) \in Nat
  BY <1>3
<1>6. Slots[c] \in [1 .. Len(slotted) -> ToSet(Slots[c])]
  BY <1>4, <1>5 DEF ToSet
<1> QED
  BY <1>5, <1>6, SeqDef

(* A subclass has every method of its base in the slot of the base.         *)
LEMMA SameSlot ==
  ASSUME NEW c \in Usable, NEW b \in Classes, IsA(c, b), NEW name, Contains(TableOf[b], name)
  PROVE  /\ SlotOf(b, name) \in DOMAIN TableOf[c]
         /\ TableOf[c][SlotOf(b, name)] = name
<1>1. c \in Classes
  BY UsableClass
<1> PICK s : s = TableOf[b]
  OBVIOUS
<1> PICK t : t = TableOf[c]
  OBVIOUS
<1>2. s \in Seq(ToSet(s)) /\ t \in Seq(ToSet(t))
  BY <1>1, SlotsListed DEF TableOf
<1>3. SlotOf(b, name) \in DOMAIN s /\ s[SlotOf(b, name)] = name
  <2>1. \E i \in 1 .. Len(s) : s[i] = name
    BY DEF Contains
  <2>2. \E i \in DOMAIN s : s[i] = name
    BY <1>2, <2>1
  <2> QED
    BY <2>2 DEF SlotOf
<1>4. CASE b = c
  BY <1>3, <1>4
<1>5. CASE b # c
  <2>1. b \in Bases(c)
    BY <1>1, <1>5, Inherited
  <2>2. IsPrefix(s, t)
    BY <2>1, UsableClass DEF KeepsSlots, TableOf
  <2>3. Len(s) <= Len(t) /\ SubSeq(s, 1, Len(s)) = SubSeq(t, 1, Len(s))
    BY <2>2 DEF IsPrefix
  <2> PICK i : i = SlotOf(b, name)
    OBVIOUS
  <2>4. i \in 1 .. Len(s) /\ i \in 1 .. Len(t) /\ Len(s) \in Nat /\ Len(t) \in Nat
    BY <1>2, <1>3, <2>3
  <2>5. SubSeq(s, 1, Len(s))[i] = s[i] /\ SubSeq(t, 1, Len(s))[i] = t[i]
    BY <1>2, <2>4
  <2> QED
    BY <1>2, <1>3, <2>3, <2>4, <2>5
<1> QED
  BY <1>4, <1>5

-----------------------------------------------------------------------------
(* Entities *)

(* The code of the kind of entity behind a handle.                          *)
KindCode(sort) ==
  CASE sort = "container"  -> 1
    [] sort = "resource"   -> 2
    [] sort = "dataset"    -> 3
    [] sort \in {"store_int", "store_float", "store_model"}          -> 4
    [] sort \in {"priority_int", "priority_float", "priority_model"} -> 5
    [] sort = "condition"  -> 6
    [] sort = "fractional" -> 7
HandleSorts == {"container", "resource", "dataset", "condition", "fractional",
                "store_int", "store_float", "store_model",
                "priority_int", "priority_float", "priority_model"}

(* An entity field is typed by the handle of what the trial makes.          *)
LEMMA HandlesOfKind ==
  ASSUME NEW a, a.origin \in Entities, Storable(a)
  PROVE  /\ Handle(a, Classes) \in HandleSorts
         /\ Created(a) = KindCode(Handle(a, Classes))
         /\ Handle(a, Classes) \in {"store_model", "priority_model"} =>
              a.origin \in {"Store", "PriorityStore"} /\ a.arg \in Classes
<1>1. Classes \cap {"int", "float"} = {}
  BY NamesAssumption DEF Scalars
<1>2. CASE a.origin = "Container"
  <2>1. Handle(a, Classes) = "container" /\ Created(a) = 1
    BY <1>2 DEF Handle, Created
  <2> QED
    BY <2>1 DEF HandleSorts, KindCode
<1>3. CASE a.origin = "FractionalContainer"
  <2>1. Handle(a, Classes) = "fractional" /\ Created(a) = 7
    BY <1>3 DEF Handle, Created
  <2> QED
    BY <2>1 DEF HandleSorts, KindCode
<1>4. CASE a.origin = "Resource"
  <2>1. Handle(a, Classes) = "resource" /\ Created(a) = 2
    BY <1>4 DEF Handle, Created
  <2> QED
    BY <2>1 DEF HandleSorts, KindCode
<1>5. CASE a.origin = "Dataset"
  <2>1. Handle(a, Classes) = "dataset" /\ Created(a) = 3
    BY <1>5 DEF Handle, Created
  <2> QED
    BY <2>1 DEF HandleSorts, KindCode
<1>6. CASE a.origin = "Condition"
  <2>1. Handle(a, Classes) = "condition" /\ Created(a) = 6
    BY <1>6 DEF Handle, Created
  <2> QED
    BY <2>1 DEF HandleSorts, KindCode
<1>7. CASE a.origin = "Store"
  <2>1. Created(a) = 4
    BY <1>7 DEF Created
  <2>2. a.arg \in {"int", "float"} \cup Classes
    BY <1>7 DEF Storable
  <2>3. CASE a.arg = "int"
    <3>1. Handle(a, Classes) = "store_int"
      BY <1>1, <1>7, <2>3 DEF Handle
    <3> QED
      BY <2>1, <3>1 DEF HandleSorts, KindCode
  <2>4. CASE a.arg = "float"
    <3>1. Handle(a, Classes) = "store_float"
      BY <1>1, <1>7, <2>4 DEF Handle
    <3> QED
      BY <2>1, <3>1 DEF HandleSorts, KindCode
  <2>5. CASE a.arg \in Classes
    <3>1. Handle(a, Classes) = "store_model"
      BY <1>1, <1>7, <2>5 DEF Handle
    <3> QED
      BY <1>7, <2>1, <2>5, <3>1 DEF HandleSorts, KindCode
  <2> QED
    BY <2>2, <2>3, <2>4, <2>5
<1>8. CASE a.origin = "PriorityStore"
  <2>1. Created(a) = 5
    BY <1>8 DEF Created
  <2>2. a.arg \in {"int", "float"} \cup Classes
    BY <1>8 DEF Storable
  <2>3. CASE a.arg = "int"
    <3>1. Handle(a, Classes) = "priority_int"
      BY <1>1, <1>8, <2>3 DEF Handle
    <3> QED
      BY <2>1, <3>1 DEF HandleSorts, KindCode
  <2>4. CASE a.arg = "float"
    <3>1. Handle(a, Classes) = "priority_float"
      BY <1>1, <1>8, <2>4 DEF Handle
    <3> QED
      BY <2>1, <3>1 DEF HandleSorts, KindCode
  <2>5. CASE a.arg \in Classes
    <3>1. Handle(a, Classes) = "priority_model"
      BY <1>1, <1>8, <2>5 DEF Handle
    <3> QED
      BY <1>8, <2>1, <2>5, <3>1 DEF HandleSorts, KindCode
  <2> QED
    BY <2>2, <2>3, <2>4, <2>5
<1> QED
  BY <1>2, <1>3, <1>4, <1>5, <1>6, <1>7, <1>8 DEF Entities

(* Every verb's function takes entities of the kind that it is called on.   *)
LEMMA VerbsTake ==
  ASSUME NEW verb \in DOMAIN Verbs, NEW sort \in DOMAIN Verbs[verb]
  PROVE  sort \in HandleSorts /\ KindCode(sort) \in Takes(Verbs[verb][sort])
<1> DEFINE Fits(fns) == \A s \in DOMAIN fns : s \in HandleSorts /\ KindCode(s) \in Takes(fns[s])
<1> USE DEF HandleSorts, KindCode, Takes, TakesBuffer, TakesFractional, TakesPool,
            TakesDataset, TakesStore, TakesPriority, TakesCondition
<1>1. \A v \in DOMAIN Levels : Fits(Levels[v])
  <2>1. Fits(Levels.mean_level) /\ Fits(Levels.max_level)
    BY DEF Levels
  <2>2. Fits(Levels.round) /\ Fits(Levels.level)
    BY DEF Levels
  <2>3. DOMAIN Levels = {"mean_level", "max_level", "round", "level"}
    BY DEF Levels
  <2> HIDE DEF Fits
  <2> QED
    BY <2>1, <2>2, <2>3
<1>2. \A v \in DOMAIN Pool : Fits(Pool[v])
  <2>1. Fits(Pool.held) /\ Fits(Pool.release) /\ Fits(Pool.mean_in_use) /\ Fits(Pool.available)
    BY DEF Pool
  <2>2. Fits(Pool.capacity) /\ Fits(Pool.mean_capacity) /\ Fits(Pool.utilization)
    BY DEF Pool
  <2>3. DOMAIN Pool = {"held", "release", "mean_in_use", "available", "capacity",
                       "mean_capacity", "utilization"}
    BY DEF Pool
  <2> HIDE DEF Fits
  <2> QED
    BY <2>1, <2>2, <2>3
<1>3. \A v \in DOMAIN Datasets : Fits(Datasets[v])
  <2>1. Fits(Datasets.record) /\ Fits(Datasets.sample_mean)
    BY DEF Datasets
  <2>2. Fits(Datasets.sample_count) /\ Fits(Datasets.sample_max)
    BY DEF Datasets
  <2>3. DOMAIN Datasets = {"record", "sample_mean", "sample_count", "sample_max"}
    BY DEF Datasets
  <2> HIDE DEF Fits
  <2> QED
    BY <2>1, <2>2, <2>3
<1>4. \A v \in DOMAIN Conditions : Fits(Conditions[v])
  <2>1. Fits(Conditions.wait_until) /\ Fits(Conditions.signal)
    BY DEF Conditions
  <2>2. DOMAIN Conditions = {"wait_until", "signal"}
    BY DEF Conditions
  <2> QED
    BY <2>1, <2>2
<1>5. \A v \in DOMAIN Requests : Fits(Requests[v])
  <2>1. Fits(Put)
    BY DEF Put
  <2>2. Fits(Get)
    BY DEF Get
  <2>3. Fits(Enqueue) /\ Fits(Cancel) /\ Fits(Position) /\ Fits(Length)
    BY DEF Enqueue, Cancel, Position, Length
  <2>4. Fits(Acquire(FALSE)) /\ Fits(Acquire(TRUE))
    BY DEF Acquire
  <2>5. Fits(Preempt(FALSE)) /\ Fits(Preempt(TRUE)) /\ Fits(SetCapacity)
    BY DEF Preempt, SetCapacity
  <2> HIDE DEF Fits
  <2>6. DOMAIN Requests = {"put", "enqueue", "cancel", "position", "length", "get", "acquire",
          "acquire_ranked", "preempt", "preempt_ranked", "set_capacity"}
    BY DEF Requests
  <2>7. /\ Requests.put = Put /\ Requests.enqueue = Enqueue /\ Requests.cancel = Cancel
        /\ Requests.position = Position /\ Requests.length = Length /\ Requests.get = Get
        /\ Requests.acquire = Acquire(FALSE) /\ Requests.acquire_ranked = Acquire(TRUE)
        /\ Requests.preempt = Preempt(FALSE) /\ Requests.preempt_ranked = Preempt(TRUE)
        /\ Requests.set_capacity = SetCapacity
    BY DEF Requests
  <2> QED
    BY <2>1, <2>2, <2>3, <2>4, <2>5, <2>6, <2>7
<1> HIDE DEF Fits
<1>6. PICK table \in Tables : verb \in DOMAIN table /\ Verbs[verb] = table[verb]
  <2>1. verb \in UNION {DOMAIN table : table \in Tables}
    BY DEF Verbs
  <2>2. PICK t : t = CHOOSE table \in Tables : verb \in DOMAIN table
    OBVIOUS
  <2>3. t \in Tables /\ verb \in DOMAIN t
    BY <2>1, <2>2
  <2>4. Verbs[verb] = t[verb]
    BY <2>1, <2>2 DEF Verbs
  <2> QED
    BY <2>3, <2>4
<1>7. Fits(table[verb])
  BY <1>1, <1>2, <1>3, <1>4, <1>5, <1>6 DEF Tables
<1> QED
  BY <1>6, <1>7 DEF Fits

-----------------------------------------------------------------------------
(* The invariant *)

Offsets(c)  == {At[c][f.name] : f \in Shown(c)}
WordFor(h, r, f) == h[r].word[At[h[r].class][f.name]]

(* Records have the words of their class.                                   *)
Shaped(h) ==
  /\ h \in Seq(ToSet(h))
  /\ \A r \in DOMAIN h :
       /\ DOMAIN h[r] = {"class", "dynamic", "released", "word"}
       /\ h[r].class \in Usable /\ h[r].dynamic \in BOOLEAN /\ h[r].released \in BOOLEAN
       /\ DOMAIN h[r].word = Offsets(h[r].class)

(* A word of a reference, and of a list or store, points to what its type   *)
(* says or to nothing; that of a reference may be inside what is missing.   *)
MayPoint(class, type, p) == p = Null \/ Points(class, type, p)
Reaches(class, type, p)  == Astray(type, p) \/ MayPoint(class, type, p)

(* References, lists and handles are what the record's own class says.      *)
Filled(class, h) == \A r \in DOMAIN h : \A f \in Shown(h[r].class) :
  /\ Kind(f) \in {"Child", "Ref"} =>
       Reaches(class, TypeOf(f), WordFor(h, r, f))
  /\ Kind(f) \in {"list", "list[Ref]"} =>
       /\ DOMAIN WordFor(h, r, f) = 1 .. Len(WordFor(h, r, f))
       /\ \A i \in DOMAIN WordFor(h, r, f) : MayPoint(class, TypeOf(f), WordFor(h, r, f)[i])
  /\ Kind(f) = "Entity" => WordFor(h, r, f) = [made |-> Created(f), type |-> HandleType(f)]

(* Buffers and the words that name them are in step.                        *)
Owner(h, r, f) == <<r, At[h[r].class][f.name]>>
Owned(h, b) ==
  /\ b \in Seq(ToSet(b))
  /\ \A i \in DOMAIN b : /\ DOMAIN b[i] = {"owner", "size", "freed"}
                         /\ b[i].size \in Nat /\ b[i].freed \in BOOLEAN
                         /\ \E r \in DOMAIN h : \E f \in Arrays(h[r].class) :
                              /\ b[i].owner = Owner(h, r, f)
                              /\ WordFor(h, r, f) = IF b[i].freed THEN <<0, -1>>
                                                                  ELSE <<i, b[i].size>>
  /\ \A r \in DOMAIN h : \A f \in Arrays(h[r].class) :
       \/ WordFor(h, r, f) = <<0, -1>>
       \/ \E i \in DOMAIN b : /\ b[i].owner = Owner(h, r, f) /\ ~b[i].freed
                              /\ WordFor(h, r, f) = <<i, b[i].size>>

(* A store has what its field is declared to have.                          *)
IsQueue(f) == f.origin \in {"Store", "PriorityStore"}
Stocked(h, s) ==
  /\ \A r \in DOMAIN h : \A f \in Shown(h[r].class) : IsQueue(f) => Owner(h, r, f) \in DOMAIN s
  /\ \A p \in DOMAIN s : \E r \in DOMAIN h : \E f \in Shown(h[r].class) :
       /\ Kind(f) = "Entity" /\ IsQueue(f) /\ p = Owner(h, r, f)
       /\ \A i \in DOMAIN s[p] : MayPoint(ClassOf(h), <<"model", f.arg>>, s[p][i])
  /\ \A p \in DOMAIN s : s[p] \in Seq(ToSet(s[p]))

(* A value that code holds is what its type says, or missing.               *)
Absent(v) == \/ v.at = Null /\ (v.optional \/ v.unchecked)
             \/ Astray(<<v.sort, v.of>>, v.at)
IsValue(v) == v = [sort |-> v.sort, of |-> v.of, optional |-> v.optional,
                   unchecked |-> v.unchecked, at |-> v.at]
Sound(class, near, v) ==
  /\ IsValue(v)
  /\ v.sort = "none" => v = Nothing
  /\ v.sort = "array" => ~v.optional
  /\ v.sort # "none" => Absent(v) \/ Points(class, <<v.sort, v.of>>, v.at)
  /\ v.sort = "model" => v.of \in near

(* Whose code is compiled, what it can come to hold, and who waits for it.  *)
Known ==
  /\ phase \in {"prepare", "trial", "refused", "failed", "crashed"}
  /\ compiled \subseteq views /\ views \subseteq Usable
  /\ \A c \in views : Exposed[c] \subseteq views
  /\ phase = "prepare" => \A r \in DOMAIN heap : Registered[heap[r].class] \subseteq Usable
  /\ phase = "trial" => \A r \in DOMAIN heap : heap[r].class \in compiled

(* What the last step did was right.                                        *)
ElementSafe == last.act = "element" =>
  /\ last.buffer \in DOMAIN buffers
  /\ buffers[last.buffer].owner = last.of /\ ~buffers[last.buffer].freed
  /\ last.index \in 0 .. buffers[last.buffer].size - 1
Right == DispatchSound /\ KindsMatch /\ ElementSafe

(* What the memory, the compiler's views and the values in hand keep to.    *)
CInv ==
  /\ Shaped(heap) /\ Filled(ClassOf(heap), heap) /\ Owned(heap, buffers) /\ Stocked(heap, stores)
  /\ Known /\ Right
  /\ \A v \in Values : Sound(ClassOf(heap), views, v)

-----------------------------------------------------------------------------
(* Types of fields, and views *)

(* The parts of a handle type.                                              *)
LEMMA HandleTypeHas ==
  ASSUME NEW a
  PROVE  /\ HandleType(a) = <<HandleType(a)[1], HandleType(a)[2]>>
         /\ HandleType(a)[1] = Handle(a, Classes)
         /\ a.origin \in {"Store", "PriorityStore"} => HandleType(a)[2] = a.arg
<1>1. PICK x : x = Handle(a, Classes)
  OBVIOUS
<1>2. PICK y : y = IF a.origin \in {"Store", "PriorityStore"} THEN a.arg ELSE ""
  OBVIOUS
<1>3. HandleType(a) = <<x, y>>
  BY <1>1, <1>2 DEF HandleType
<1>4. HandleType(a)[1] = x /\ HandleType(a)[2] = y
  BY <1>3
<1> QED
  BY <1>1, <1>2, <1>3, <1>4

(* The parts of a field's type.                                             *)
LEMMA FieldTypes ==
  ASSUME NEW c \in Usable, NEW f \in Shown(c)
  PROVE  /\ TypeOf(f) = <<TypeOf(f)[1], TypeOf(f)[2]>>
         /\ Kind(f) = "Array" => TypeOf(f)[1] = "array"
         /\ Kind(f) = "Entity" =>
              /\ TypeOf(f) = HandleType(f) /\ TypeOf(f)[1] \in HandleSorts
              /\ Created(f) = KindCode(TypeOf(f)[1])
              /\ TypeOf(f)[1] \in {"store_model", "priority_model"} =>
                   f.origin \in {"Store", "PriorityStore"} /\ f.arg \in Classes
                   /\ TypeOf(f)[2] = f.arg
         /\ Kind(f) \in {"Child", "Ref", "list", "list[Ref]"} =>
              TypeOf(f)[1] \in HandleSorts \cup {"model"}
         /\ TypeOf(f)[1] = "model" => TypeOf(f)[2] \in Exposed[c]
         /\ f.origin \in {"Store", "PriorityStore"} => Kind(f) = "Entity"
<1> PICK k : k = Kind(f)
  OBVIOUS
<1>0. c \in Classes /\ f \in ToSet(FieldsOf[c])
      /\ k \in {"Child", "Ref", "list", "list[Ref]", "Entity", "Array"}
  BY UsableClass DEF Shown
<1>1. f.origin \in {"Store", "PriorityStore"} => k = "Entity"
  BY NamesAssumption DEF Kind, Entities
<1>3. CASE k = "Array"
  <2>1. TypeOf(f) = <<"array", f.arg>>
    BY <1>3 DEF TypeOf
  <2> QED
    BY <1>1, <1>3, <2>1
<1>4. CASE k = "Entity"
  <2>1. TypeOf(f) = HandleType(f)
    BY <1>4 DEF TypeOf
  <2>2. f.origin \in Entities
    BY <1>4 DEF Kind
  <2>3. Storable(f)
    BY <1>0, <1>4, UsableClass
  <2>4. /\ Handle(f, Classes) \in HandleSorts
        /\ Created(f) = KindCode(Handle(f, Classes))
        /\ Handle(f, Classes) \in {"store_model", "priority_model"} =>
             f.origin \in {"Store", "PriorityStore"} /\ f.arg \in Classes
    BY <2>2, <2>3, HandlesOfKind
  <2>5. Handle(f, Classes) # "model"
    BY <2>4 DEF HandleSorts
  <2>6. /\ TypeOf(f) = <<TypeOf(f)[1], TypeOf(f)[2]>>
        /\ TypeOf(f)[1] = Handle(f, Classes)
        /\ f.origin \in {"Store", "PriorityStore"} => TypeOf(f)[2] = f.arg
    BY ONLY <2>1, HandleTypeHas
  <2> QED
    BY <1>1, <1>4, <2>1, <2>4, <2>5, <2>6
<1>5. CASE k = "Child"
  <2>1. TypeOf(f) = <<"model", f.origin>>
    BY <1>5 DEF TypeOf
  <2>2. f.origin \in Classes
    BY <1>5 DEF Kind
  <2>3. f.origin \in Exposed[c]
    BY <1>0, <1>5, <2>2 DEF Exposed
  <2> QED
    BY <1>1, <1>5, <2>1, <2>3
<1>6. CASE k \in {"Ref", "list", "list[Ref]"}
  <2>1. TypeOf(f) = Referred(f)
    BY <1>6 DEF TypeOf
  <2>2. f.arg \in Classes
        \/ (f.arg \in Entities /\ Storable(Target(f)))
    <3>1. Kind(f) \in {"Ref", "list", "list[Ref]"}
      BY <1>6
    <3> QED
      BY ONLY <1>0, <3>1, ReferencesAssumption
  <2>3. CASE f.arg \in Classes
    <3>1. TypeOf(f) = <<"model", f.arg>>
      BY <2>1, <2>3 DEF Referred
    <3>2. f.arg \in Exposed[c]
      BY <1>0, <1>6, <2>3 DEF Exposed
    <3> QED
      BY <1>1, <1>6, <3>1, <3>2
  <2>4. CASE f.arg \notin Classes
    <3>a. PICK a : a = Target(f)
      OBVIOUS
    <3>1. TypeOf(f) = HandleType(a)
      BY <2>1, <2>4, <3>a DEF Referred
    <3>2. Handle(a, Classes) \in HandleSorts
      <4>1. a.origin = f.arg
        BY <3>a DEF Target
      <4> QED
        BY <2>2, <2>4, <3>a, <4>1, HandlesOfKind
    <3>3. Handle(a, Classes) # "model"
      BY <3>2 DEF HandleSorts
    <3>4. TypeOf(f) = <<TypeOf(f)[1], TypeOf(f)[2]>> /\ TypeOf(f)[1] = Handle(a, Classes)
      BY ONLY <3>1, HandleTypeHas
    <3> QED
      BY <1>1, <1>6, <3>2, <3>3, <3>4
  <2> QED
    BY <2>3, <2>4
<1> QED
  BY <1>0, <1>3, <1>4, <1>5, <1>6

(* Registering a class registers all it can lead to.                        *)
LEMMA RegisteredClosed ==
  ASSUME NEW c \in Classes
  PROVE  /\ c \in Registered[c] /\ Registered[c] \subseteq Classes
         /\ \A d \in Registered[c] : Exposed[d] \subseteq Registered[c]
<1> PICK R : R = Registered[c]
  OBVIOUS
<1>1. R = {d \in Classes : \A near \in SUBSET Classes : c \in near /\ Closed(near) => d \in near}
  BY DEF Registered
<1>2. \A d \in Classes : Exposed[d] \subseteq Classes
  BY DEF Exposed
<1>3. ASSUME NEW d \in R, NEW e \in Exposed[d] PROVE e \in R
  <2>1. d \in Classes /\ e \in Classes
    BY <1>1, <1>2
  <2>2. ASSUME NEW near \in SUBSET Classes, c \in near, Closed(near) PROVE e \in near
    <3>1. d \in near
      BY <1>1, <2>2
    <3> QED
      BY <2>2, <3>1 DEF Closed
  <2> QED
    BY <1>1, <2>1, <2>2
<1> QED
  BY <1>1, <1>3

(* What something is does not change as records are added.                  *)
LEMMA PointsStay ==
  ASSUME NEW class, NEW further, \A r \in DOMAIN class : r \in DOMAIN further /\ further[r] = class[r],
         NEW type, NEW p, Points(class, type, p)
  PROVE  Points(further, type, p)
BY DEF Points

(* And what may be missing.                                                 *)
LEMMA ReachesStay ==
  ASSUME NEW class, NEW further, \A r \in DOMAIN class : r \in DOMAIN further /\ further[r] = class[r],
         NEW type, NEW p
  PROVE  /\ MayPoint(class, type, p) => MayPoint(further, type, p)
         /\ Reaches(class, type, p) => Reaches(further, type, p)
BY PointsStay DEF MayPoint, Reaches

(* A model seen as a class is one seen as a base of it.                     *)
LEMMA PointsToBase ==
  ASSUME NEW class, NEW c, NEW b, IsA(c, b), NEW p, Points(class, <<"model", c>>, p)
  PROVE  Points(class, <<"model", b>>, p)
<1>1. /\ p = <<p[1], p[2]>> /\ p[1] \in DOMAIN class
      /\ p[2] = 0 /\ IsA(class[p[1]], c)
  BY DEF Points
<1>2. IsA(class[p[1]], b)
  BY <1>1, BasesOfBases
<1> QED
  BY <1>1, <1>2 DEF Points

(* What a value of a model has at a field of its class.                     *)
LEMMA SeenAtValue ==
  ASSUME KeepsFields, NEW h, Shaped(h), NEW b, NEW p, Points(ClassOf(h), <<"model", b>>, p),
         NEW f \in Shown(b)
  PROVE  /\ p[1] \in DOMAIN h /\ b \in Usable
         /\ \E g \in Shown(h[p[1]].class) :
              /\ g.name = f.name /\ Kind(g) = Kind(f) /\ TypeOf(g) = TypeOf(f)
              /\ At[h[p[1]].class][f.name] = At[b][f.name]
              /\ At[b][f.name] \in DOMAIN h[p[1]].word
<1>1. p[1] \in DOMAIN h /\ IsA(h[p[1]].class, b)
  BY DEF Points, ClassOf
<1> PICK c \in Usable : c = h[p[1]].class
  BY <1>1 DEF Shaped
<1>2. b \in Classes /\ b \in Usable
  BY <1>1, UsableClass DEF IsA
<1>3. PICK g \in Shown(c) : /\ g.name = f.name /\ Kind(g) = Kind(f) /\ TypeOf(g) = TypeOf(f)
                            /\ At[c][f.name] = At[b][f.name]
  BY <1>1, <1>2, SeenThroughBase
<1>4. At[c][g.name] \in DOMAIN h[p[1]].word
  BY <1>1, <1>3 DEF Shaped, Offsets
<1> QED
  BY <1>1, <1>2, <1>3, <1>4

-----------------------------------------------------------------------------
(* Steps that leave records, buffers and stores alone *)

(* More records and more views leave a value what it was.                   *)
LEMMA SoundStays ==
  ASSUME NEW class, NEW further, \A r \in DOMAIN class : r \in DOMAIN further /\ further[r] = class[r],
         NEW near, NEW more, near \subseteq more, NEW v, Sound(class, near, v)
  PROVE  Sound(further, more, v)
BY PointsStay DEF Sound

(* The parts of a value.                                                    *)
LEMMA ValueIs ==
  ASSUME NEW t, NEW optional, NEW p
  PROVE  IsValue(Value(t, optional, p))
BY DEF Value, IsValue

LEMMA ValueFlags ==
  ASSUME NEW t, NEW optional, NEW p
  PROVE  Value(t, optional, p).optional = optional /\ Value(t, optional, p).unchecked = FALSE
BY DEF Value

(* What the mark of an unchecked value leaves alone.                        *)
LEMMA MarkHas ==
  ASSUME NEW v, IsValue(v), NEW b
  PROVE  /\ [v EXCEPT !.unchecked = b].sort = v.sort /\ [v EXCEPT !.unchecked = b].of = v.of
         /\ [v EXCEPT !.unchecked = b].at = v.at
BY DEF IsValue

LEMMA MarkFlags ==
  ASSUME NEW v, IsValue(v), NEW b
  PROVE  /\ [v EXCEPT !.unchecked = b].optional = v.optional
         /\ [v EXCEPT !.unchecked = b].unchecked = b
BY DEF IsValue

LEMMA MarkIs ==
  ASSUME NEW v, IsValue(v), NEW b
  PROVE  IsValue([v EXCEPT !.unchecked = b])
<1>w. PICK w : w = [v EXCEPT !.unchecked = b]
  OBVIOUS
<1>1. DOMAIN v = {"sort", "of", "optional", "unchecked", "at"}
  BY DEF IsValue
<1>2. w = [x \in {"sort", "of", "optional", "unchecked", "at"} |-> w[x]]
  BY <1>w, <1>1
<1>3. IsValue(w)
  BY <1>2 DEF IsValue
<1> QED
  BY <1>w, <1>3

LEMMA SeenHas ==
  ASSUME NEW v, NEW t
  PROVE  Seen(v, t).sort = t[1] /\ Seen(v, t).of = t[2] /\ Seen(v, t).at = v.at
<1>u. PICK u : u = Value(t, FALSE, v.at)
  OBVIOUS
<1>1. u.sort = t[1] /\ u.of = t[2] /\ u.at = v.at
  BY <1>u DEF Value
<1>2. IsValue(u)
  BY <1>u, ValueIs
<1>3. Seen(v, t) = [u EXCEPT !.unchecked = v.unchecked]
  BY <1>u DEF Seen
<1> QED
  BY <1>1, <1>2, <1>3, MarkHas

LEMMA SeenIs ==
  ASSUME NEW v, NEW t
  PROVE  Seen(v, t).optional = FALSE /\ Seen(v, t).unchecked = v.unchecked /\ IsValue(Seen(v, t))
<1>u. PICK u : u = Value(t, FALSE, v.at)
  OBVIOUS
<1>1. u.optional = FALSE
  BY <1>u, ValueFlags
<1>2. IsValue(u)
  BY <1>u, ValueIs
<1>3. Seen(v, t) = [u EXCEPT !.unchecked = v.unchecked]
  BY <1>u DEF Seen
<1>4. Seen(v, t).optional = FALSE /\ Seen(v, t).unchecked = v.unchecked
  BY <1>1, <1>2, <1>3, MarkFlags
<1>5. IsValue(Seen(v, t))
  BY <1>1, <1>2, <1>3, MarkIs
<1> QED
  BY <1>4, <1>5

LEMMA UncheckedHas ==
  ASSUME NEW t, NEW p
  PROVE  Unchecked(t, p).sort = t[1] /\ Unchecked(t, p).of = t[2] /\ Unchecked(t, p).at = p
<1>u. PICK u : u = Value(t, FALSE, p)
  OBVIOUS
<1>1. u.sort = t[1] /\ u.of = t[2] /\ u.at = p
  BY <1>u DEF Value
<1>2. IsValue(u)
  BY <1>u, ValueIs
<1>3. Unchecked(t, p) = [u EXCEPT !.unchecked = TRUE]
  BY <1>u DEF Unchecked
<1> QED
  BY <1>1, <1>2, <1>3, MarkHas

LEMMA UncheckedIs ==
  ASSUME NEW t, NEW p
  PROVE  Unchecked(t, p).optional = FALSE /\ Unchecked(t, p).unchecked = TRUE /\ IsValue(Unchecked(t, p))
<1>u. PICK u : u = Value(t, FALSE, p)
  OBVIOUS
<1>1. u.optional = FALSE
  BY <1>u, ValueFlags
<1>2. IsValue(u)
  BY <1>u, ValueIs
<1>3. Unchecked(t, p) = [u EXCEPT !.unchecked = TRUE]
  BY <1>u DEF Unchecked
<1>4. Unchecked(t, p).optional = FALSE /\ Unchecked(t, p).unchecked = TRUE
  BY <1>1, <1>2, <1>3, MarkFlags
<1>5. IsValue(Unchecked(t, p))
  BY <1>1, <1>2, <1>3, MarkIs
<1> QED
  BY <1>4, <1>5

(* Nothing at all is well typed.                                            *)
LEMMA NothingSound ==
  ASSUME NEW class, NEW near
  PROVE  Sound(class, near, Nothing)
<1>t. PICK t : t = <<"none", "">>
  OBVIOUS
<1>1. /\ Nothing = Value(t, TRUE, Null) /\ t[1] = "none"
  BY <1>t DEF Nothing
<1>2. Nothing.sort = "none"
  BY <1>1 DEF Value
<1>3. IsValue(Nothing)
  BY <1>1, ValueIs
<1> QED
  BY <1>2, <1>3 DEF Sound

(* So is a model that is there, or that nobody looked for, in a view that is. *)
LEMMA ModelSeen ==
  ASSUME NEW class, NEW near, NEW v, IsValue(v), v.sort = "model", v.of \in near,
         \/ v.at = Null /\ v.unchecked
         \/ Points(class, <<"model", v.of>>, v.at)
  PROVE  Sound(class, near, v)
BY DEF Sound, Absent

LEMMA ModelSound ==
  ASSUME NEW class, NEW near, NEW c \in near, NEW p, Points(class, <<"model", c>>, p)
  PROVE  Sound(class, near, Value(<<"model", c>>, FALSE, p))
<1>v. PICK v : v = Value(<<"model", c>>, FALSE, p)
  OBVIOUS
<1>t. PICK t : t = <<"model", c>>
  OBVIOUS
<1>1. t[1] = "model" /\ t[2] = c
  BY <1>t
<1>2. v.sort = "model" /\ v.of = c /\ v.at = p
  BY <1>v, <1>t, <1>1 DEF Value
<1>3. IsValue(v)
  BY <1>v, ValueIs
<1> QED
  BY <1>v, <1>2, <1>3, ModelSeen

(* A record is a model of its own class.                                    *)
LEMMA OwnModel ==
  ASSUME NEW h, Shaped(h), NEW r \in DOMAIN h
  PROVE  Points(ClassOf(h), <<"model", h[r].class>>, Whole(r))
<1>1. h[r].class \in Usable
  BY DEF Shaped
<1>2. IsA(h[r].class, h[r].class)
  BY <1>1, UsableClass
<1>3. Whole(r) = <<r, 0>> /\ Whole(r)[1] = r /\ Whole(r)[2] = 0
  BY DEF Whole
<1>4. r \in DOMAIN ClassOf(h) /\ ClassOf(h)[r] = h[r].class
  BY DEF ClassOf
<1> QED
  BY <1>2, <1>3, <1>4 DEF Points

(* A step that calls and touches nothing does nothing wrong.                *)
LEMMA QuietRight ==
  ASSUME last' = Quiet
  PROVE  Right'
BY DEF Right, Quiet, DispatchSound, KindsMatch, ElementSafe

(* A step that changes no memory keeps the invariant if what it read is     *)
(* well typed.                                                              *)
LEMMA ValuesKeep ==
  ASSUME CInv, UNCHANGED <<phase, compiled, heap, buffers, stores>>, Right',
         views \subseteq views', views' \subseteq Usable, \A c \in views' : Exposed[c] \subseteq views',
         Sound(ClassOf(heap), views', self'), Sound(ClassOf(heap), views', other')
  PROVE  CInv'
<1>1. Known'
  BY DEF CInv, Known
<1>2. /\ Shaped(heap') /\ Filled(ClassOf(heap'), heap') /\ Owned(heap', buffers')
      /\ Stocked(heap', stores')
  BY DEF CInv
<1>3. \A v \in Values' : Sound(ClassOf(heap'), views', v)
  BY DEF Values
<1> QED
  BY <1>1, <1>2, <1>3 DEF CInv

(* The same, when no views are added.                                       *)
LEMMA ValuesOnly ==
  ASSUME CInv, UNCHANGED <<phase, compiled, views, heap, buffers, stores>>, Right',
         Sound(ClassOf(heap), views, self'), Sound(ClassOf(heap), views, other')
  PROVE  CInv'
BY ValuesKeep DEF CInv, Known

(* What code holds is well typed.                                           *)
LEMMA ValuesSound ==
  ASSUME CInv
  PROVE  Sound(ClassOf(heap), views, self) /\ Sound(ClassOf(heap), views, other)
BY DEF CInv, Values

(* A step that raises leaves everything well typed.                         *)
LEMMA FailKeeps ==
  ASSUME CInv, Fail
  PROVE  CInv'
<1>1. /\ phase' = "failed" /\ last' = Quiet
      /\ UNCHANGED <<compiled, views, heap, buffers, stores, self, other>>
  BY DEF Fail
<1>2. Right'
  BY <1>1, QuietRight
<1>3. Known'
  BY <1>1 DEF CInv, Known
<1>4. /\ Shaped(heap') /\ Filled(ClassOf(heap'), heap') /\ Owned(heap', buffers')
      /\ Stocked(heap', stores')
  BY <1>1 DEF CInv
<1>5. \A v \in Values' : Sound(ClassOf(heap'), views', v)
  BY <1>1 DEF CInv, Values
<1> QED
  BY <1>2, <1>3, <1>4, <1>5 DEF CInv

(* And so does one that ends the program.                                   *)
LEMMA CrashKeeps ==
  ASSUME CInv, Crash
  PROVE  CInv'
<1>1. /\ phase' = "crashed" /\ last' = Quiet
      /\ UNCHANGED <<compiled, views, heap, buffers, stores, self, other>>
  BY DEF Crash
<1>2. Right'
  BY <1>1, QuietRight
<1>3. Known'
  BY <1>1 DEF CInv, Known
<1>4. /\ Shaped(heap') /\ Filled(ClassOf(heap'), heap') /\ Owned(heap', buffers')
      /\ Stocked(heap', stores')
  BY <1>1 DEF CInv
<1>5. \A v \in Values' : Sound(ClassOf(heap'), views', v)
  BY <1>1 DEF CInv, Values
<1> QED
  BY <1>2, <1>3, <1>4, <1>5 DEF CInv

(* A missing record is nowhere.                                             *)
LEMMA NullIsNowhere ==
  Null[1] = 0 /\ Null[2] = 0
BY DEF Null

(* A value is what its type says, or it is not there.                       *)
LEMMA HereIsSound ==
  ASSUME CInv, NEW v \in Values, v.sort # "none", Here(v)
  PROVE  Points(ClassOf(heap), <<v.sort, v.of>>, v.at)
BY NullIsNowhere DEF CInv, Sound, Absent, Astray, Here

(* Code that holds a model that is there holds a record of the class or of  *)
(* a subclass.                                                              *)
LEMMA HoldsModel ==
  ASSUME CInv, NEW v \in Values, IsModel(v), Here(v)
  PROVE  /\ v.of \in views /\ v.of \in Usable /\ v.of \in Classes
         /\ v.at[1] \in DOMAIN heap /\ v.at = Whole(v.at[1])
         /\ heap[v.at[1]].class \in Usable /\ IsA(heap[v.at[1]].class, v.of)
         /\ Points(ClassOf(heap), <<"model", v.of>>, v.at)
<1>1. Sound(ClassOf(heap), views, v) /\ views \subseteq Usable /\ Shaped(heap)
  BY DEF CInv, Known
<1>2. Points(ClassOf(heap), <<"model", v.of>>, v.at) /\ v.of \in views
  BY <1>1, HereIsSound DEF Sound, IsModel
<1>3. /\ v.at = <<v.at[1], v.at[2]>> /\ v.at[1] \in DOMAIN heap
      /\ v.at[2] = 0 /\ IsA(heap[v.at[1]].class, v.of)
  BY <1>2 DEF Points, ClassOf
<1>4. heap[v.at[1]].class \in Usable
  BY <1>1, <1>3 DEF Shaped
<1> QED
  BY <1>1, <1>2, <1>3, <1>4, UsableClass DEF Whole

(* What it holds as a model is one, or nothing that anybody looked for.     *)
LEMMA HoldsSome ==
  ASSUME CInv, NEW v \in Values, IsModel(v)
  PROVE  /\ v.of \in views /\ v.of \in Usable /\ v.of \in Classes
         /\ \/ v.at = Null /\ v.unchecked
            \/ Points(ClassOf(heap), <<"model", v.of>>, v.at)
<1>1. Sound(ClassOf(heap), views, v) /\ views \subseteq Usable
  BY DEF CInv, Known
<1>2. v.of \in views /\ (Absent(v) \/ Points(ClassOf(heap), <<"model", v.of>>, v.at))
  BY <1>1 DEF Sound, IsModel
<1>t. PICK t : t = <<v.sort, v.of>>
  OBVIOUS
<1>3. ~Astray(t, v.at)
  BY <1>t DEF Astray, IsModel
<1> QED
  BY <1>1, <1>2, <1>t, <1>3, UsableClass DEF Absent, IsModel

(* What it reads at a field is what the record has for its own field.       *)
LEMMA LoadsOwn ==
  ASSUME KeepsFields, CInv, NEW v \in Values, IsModel(v), Here(v), NEW name \in Names(v.of),
         Kind(Field(v.of, name)) \in {"Child", "Ref", "list", "list[Ref]", "Entity", "Array"}
  PROVE  \E g \in Shown(heap[v.at[1]].class) :
           /\ Kind(g) = Kind(Field(v.of, name)) /\ TypeOf(g) = TypeOf(Field(v.of, name))
           /\ PlaceOf(v, name) = At[heap[v.at[1]].class][g.name]
           /\ LoadAt(v, name) = WordFor(heap, v.at[1], g)
<1>1. /\ v.of \in Classes /\ v.at[1] \in DOMAIN heap /\ Shaped(heap)
      /\ Points(ClassOf(heap), <<"model", v.of>>, v.at)
  BY HoldsModel DEF CInv
<1>2. PICK f \in Shown(v.of) : f = Field(v.of, name) /\ f.name = name
  BY <1>1, ShownFields
<1>3. PICK g \in Shown(heap[v.at[1]].class) :
        /\ g.name = f.name /\ Kind(g) = Kind(f) /\ TypeOf(g) = TypeOf(f)
        /\ At[heap[v.at[1]].class][f.name] = At[v.of][f.name]
        /\ At[v.of][f.name] \in DOMAIN heap[v.at[1]].word
  BY <1>1, SeenAtValue
<1>4. PlaceOf(v, name) = At[v.of][f.name]
  BY <1>2 DEF PlaceOf
<1>5. LoadAt(v, name) = heap[v.at[1]].word[At[v.of][f.name]]
  BY <1>3, <1>4 DEF LoadAt, WordAt
<1> QED
  BY <1>2, <1>3, <1>4, <1>5 DEF WordFor

(* A process gets the model it runs on (entries.py).                        *)
LEMMA StartKeeps ==
  ASSUME CInv, NEW r \in DOMAIN heap, Start(r)
  PROVE  CInv'
<1>1. /\ phase = "trial" /\ self' = Model(heap[r].class, r) /\ other' = Nothing /\ last' = Quiet
      /\ UNCHANGED <<phase, compiled, views, heap, buffers, stores>>
  BY DEF Start, Running
<1>2. heap[r].class \in views
  BY <1>1 DEF CInv, Known
<1>3. Sound(ClassOf(heap), views, self')
  BY <1>1, <1>2, OwnModel, ModelSound DEF CInv, Model
<1> QED
  BY <1>1, <1>3, NothingSound, QuietRight, ValuesOnly

(* Code may keep a value for later.                                         *)
LEMMA KeepKeeps ==
  ASSUME CInv, Keep
  PROVE  CInv'
BY QuietRight, ValuesSound, ValuesOnly DEF Keep

(* A value tested against None is not None.                                 *)
LEMMA NarrowKeeps ==
  ASSUME CInv, Narrow
  PROVE  CInv'
<1>1. /\ other.optional /\ other.at # Null /\ other' = [other EXCEPT !.optional = FALSE]
      /\ last' = Quiet /\ UNCHANGED <<phase, compiled, views, heap, buffers, stores, self>>
  BY DEF Narrow, Holds
<1>2. Sound(ClassOf(heap), views, self) /\ Sound(ClassOf(heap), views, other)
  BY ValuesSound
<1>o. PICK o : o = other
  OBVIOUS
<1>3. IsValue(o)
  BY <1>o, <1>2 DEF Sound
<1>4. o.sort # "none"
  <2>1. Nothing.at = Null
    BY DEF Nothing, Value
  <2> QED
    BY <1>o, <1>1, <1>2, <2>1 DEF Sound
<1>5. /\ Astray(<<o.sort, o.of>>, o.at) \/ Points(ClassOf(heap), <<o.sort, o.of>>, o.at)
      /\ o.sort = "model" => o.of \in views
  BY <1>o, <1>1, <1>2, <1>4 DEF Sound, Absent
<1>w. PICK w : w = other'
  OBVIOUS
<1>6. /\ w.sort = o.sort /\ w.of = o.of /\ w.at = o.at /\ w.optional = FALSE /\ IsValue(w)
  <2>1. w = [o EXCEPT !.optional = FALSE]
    BY <1>o, <1>w, <1>1
  <2>2. DOMAIN o = {"sort", "of", "optional", "unchecked", "at"}
    BY <1>3 DEF IsValue
  <2>3. /\ w.sort = o.sort /\ w.of = o.of /\ w.at = o.at /\ w.optional = FALSE
        /\ w = [x \in {"sort", "of", "optional", "unchecked", "at"} |-> w[x]]
    BY <2>1, <2>2
  <2> QED
    BY <2>3 DEF IsValue
<1>7. Sound(ClassOf(heap), views, other')
  BY <1>4, <1>5, <1>6, <1>w DEF Sound, Absent
<1> QED
  BY <1>1, <1>2, <1>7, QuietRight, ValuesOnly

(* A value of the type of a field, of a class that code can see.            *)
LEMMA TypedSound ==
  ASSUME NEW class, NEW near, NEW c \in near, near \subseteq Usable, Exposed[c] \subseteq near,
         NEW f \in Shown(c), NEW v, IsValue(v), v.sort = TypeOf(f)[1], v.of = TypeOf(f)[2],
         v.optional => Kind(f) \in {"Child", "Ref"},
         \/ v.at = Null /\ (v.optional \/ v.unchecked)
         \/ Astray(TypeOf(f), v.at) \/ Points(class, TypeOf(f), v.at)
  PROVE  Sound(class, near, v)
<1>1. c \in Usable
  OBVIOUS
<1>t. PICK t : t = TypeOf(f)
  OBVIOUS
<1>2. /\ t = <<t[1], t[2]>>
      /\ Kind(f) = "Array" => t[1] = "array"
      /\ Kind(f) = "Entity" => t[1] \in HandleSorts
      /\ Kind(f) \in {"Child", "Ref", "list", "list[Ref]"} => t[1] \in HandleSorts \cup {"model"}
      /\ t[1] = "model" => t[2] \in near
  BY <1>1, <1>t, FieldTypes
<1>3. Kind(f) \in {"Child", "Ref", "list", "list[Ref]", "Entity", "Array"}
  BY DEF Shown
<1>4. t[1] # "none" /\ (t[1] = "array" => ~v.optional)
  BY <1>2, <1>3 DEF HandleSorts
<1>5. v.sort = t[1] /\ v.of = t[2]
  BY <1>t
<1>6. v.sort = "model" => v.of \in near
  BY <1>2, <1>5
<1>7. Absent(v) \/ Points(class, <<v.sort, v.of>>, v.at)
  <2>1. <<v.sort, v.of>> = TypeOf(f)
    BY <1>t, <1>2, <1>5
  <2> QED
    BY <2>1 DEF Absent
<1>8. v.sort # "none" /\ (v.sort = "array" => ~v.optional)
  BY <1>4, <1>5
<1> QED
  BY <1>6, <1>7, <1>8 DEF Sound

(* The class of a model that code holds, and what its fields expose.        *)
LEMMA TypedByModel ==
  ASSUME CInv, NEW v \in Values, IsModel(v), NEW name \in Names(v.of),
         Kind(Field(v.of, name)) \in {"Child", "Ref", "list", "list[Ref]", "Entity", "Array"},
         NEW w, IsValue(w), w.sort = TypeOf(Field(v.of, name))[1],
         w.of = TypeOf(Field(v.of, name))[2],
         w.optional => Kind(Field(v.of, name)) \in {"Child", "Ref"},
         \/ w.at = Null /\ (w.optional \/ w.unchecked)
         \/ Astray(TypeOf(Field(v.of, name)), w.at)
         \/ Points(ClassOf(heap), TypeOf(Field(v.of, name)), w.at)
  PROVE  Sound(ClassOf(heap), views, w)
<1>f. PICK f : f = Field(v.of, name)
  OBVIOUS
<1>1. v.of \in views /\ v.of \in Classes
  BY HoldsSome
<1>2. views \subseteq Usable /\ Exposed[v.of] \subseteq views
  BY <1>1 DEF CInv, Known
<1>3. f \in Shown(v.of)
  BY <1>f, <1>1, ShownFields
<1> QED
  BY <1>f, <1>1, <1>2, <1>3, TypedSound

(* A reference read from a field is what the field's type says.             *)
LEMMA FollowKeeps ==
  ASSUME KeepsFields, CInv, NEW v \in Values, NEW name, Follow(v, name)
  PROVE  CInv'
<1>f. PICK f : f = Field(v.of, name)
  OBVIOUS
<1>p. PICK p : p = LoadAt(v, name)
  OBVIOUS
<1>1. /\ IsModel(v) /\ Here(v) /\ name \in Names(v.of) /\ Kind(f) \in {"Child", "Ref"}
      /\ \/ /\ f.optional \/ p # Null
            /\ Holds(Value(TypeOf(f), f.optional, p), Quiet) /\ UNCHANGED views
         \/ Fail
  BY <1>f, <1>p DEF Follow
<1>2. CASE Fail
  BY <1>2, FailKeeps
<1>3. CASE /\ f.optional \/ p # Null
           /\ Holds(Value(TypeOf(f), f.optional, p), Quiet) /\ UNCHANGED views
  <2>1. PICK g \in Shown(heap[v.at[1]].class) :
          Kind(g) = Kind(f) /\ TypeOf(g) = TypeOf(f) /\ p = WordFor(heap, v.at[1], g)
    BY <1>f, <1>p, <1>1, LoadsOwn
  <2>2. v.at[1] \in DOMAIN heap /\ Filled(ClassOf(heap), heap)
    BY <1>1, HoldsModel DEF CInv
  <2>3. Reaches(ClassOf(heap), TypeOf(f), p)
    BY <1>1, <2>1, <2>2 DEF Filled
  <2>w. PICK w : w = Value(TypeOf(f), f.optional, p)
    OBVIOUS
  <2>u. w.sort = TypeOf(f)[1] /\ w.of = TypeOf(f)[2] /\ w.at = p
    BY <2>w DEF Value
  <2>b. PICK b : b = f.optional
    OBVIOUS
  <2>o. w.optional = f.optional
    <3>1. w = Value(TypeOf(f), b, p)
      BY <2>w, <2>b
    <3>2. w.optional = b
      BY <3>1 DEF Value
    <3> QED
      BY <3>2, <2>b
  <2>i. IsValue(w)
    BY <2>w, ValueIs
  <2>4. \/ w.at = Null /\ w.optional
        \/ Astray(TypeOf(f), w.at) \/ Points(ClassOf(heap), TypeOf(f), w.at)
    BY <1>3, <2>3, <2>u, <2>o DEF Reaches, MayPoint
  <2>5. Sound(ClassOf(heap), views, w)
    BY <1>f, <1>1, <2>4, <2>u, <2>i, TypedByModel
  <2>6. /\ other' = Value(TypeOf(f), f.optional, p) /\ last' = Quiet
        /\ UNCHANGED <<phase, compiled, views, heap, buffers, stores, self>>
    BY <1>3 DEF Holds
  <2> QED
    BY <2>5, <2>6, <2>w, QuietRight, ValuesSound, ValuesOnly
<1> QED
  BY <1>1, <1>2, <1>3

(* And so is an item of a list.                                             *)
LEMMA ItemKeeps ==
  ASSUME KeepsFields, CInv, NEW v \in Values, NEW name, NEW i \in Indices, Item(v, name, i)
  PROVE  CInv'
<1>f. PICK f : f = Field(v.of, name)
  OBVIOUS
<1>p. PICK p : p = LoadAt(v, name)
  OBVIOUS
<1>1. /\ IsModel(v) /\ Here(v) /\ name \in Names(v.of) /\ Kind(f) \in {"list", "list[Ref]"}
      /\ \/ /\ i \in 0 .. Len(p) - 1
            /\ Holds(Unchecked(TypeOf(f), p[i + 1]), Quiet) /\ UNCHANGED views
         \/ Fail
  BY <1>f, <1>p DEF Item
<1>2. CASE Fail
  BY <1>2, FailKeeps
<1>3. CASE /\ i \in 0 .. Len(p) - 1
           /\ Holds(Unchecked(TypeOf(f), p[i + 1]), Quiet) /\ UNCHANGED views
  <2>1. PICK g \in Shown(heap[v.at[1]].class) :
          Kind(g) = Kind(f) /\ TypeOf(g) = TypeOf(f) /\ p = WordFor(heap, v.at[1], g)
    BY <1>f, <1>p, <1>1, LoadsOwn
  <2>2. v.at[1] \in DOMAIN heap /\ Filled(ClassOf(heap), heap)
    BY <1>1, HoldsModel DEF CInv
  <2>3. /\ DOMAIN p = 1 .. Len(p)
        /\ \A n \in DOMAIN p : MayPoint(ClassOf(heap), TypeOf(f), p[n])
    BY <1>1, <2>1, <2>2 DEF Filled
  <2>4. i + 1 \in 1 .. Len(p)
    BY <1>3 DEF Indices
  <2>w. PICK w : w = Unchecked(TypeOf(f), p[i + 1])
    OBVIOUS
  <2>u. w.sort = TypeOf(f)[1] /\ w.of = TypeOf(f)[2] /\ w.at = p[i + 1]
    BY <2>w, UncheckedHas
  <2>i. w.optional = FALSE /\ w.unchecked = TRUE /\ IsValue(w)
    BY <2>w, UncheckedIs
  <2>5. (w.at = Null /\ w.unchecked) \/ Points(ClassOf(heap), TypeOf(f), w.at)
    BY <2>3, <2>4, <2>u, <2>i DEF MayPoint
  <2>6. Sound(ClassOf(heap), views, w)
    BY <1>f, <1>1, <2>5, <2>u, <2>i, TypedByModel
  <2>7. /\ other' = Unchecked(TypeOf(f), p[i + 1]) /\ last' = Quiet
        /\ UNCHANGED <<phase, compiled, views, heap, buffers, stores, self>>
    BY <1>3 DEF Holds
  <2> QED
    BY <2>6, <2>7, <2>w, QuietRight, ValuesSound, ValuesOnly
<1> QED
  BY <1>1, <1>2, <1>3

(* The place of an entity or array is what the type says.                   *)
LEMMA PlacePoints ==
  ASSUME KeepsFields, CInv, NEW v \in Values, IsModel(v), Here(v), NEW name \in Names(v.of),
         Kind(Field(v.of, name)) \in {"Entity", "Array"}
  PROVE  Points(ClassOf(heap), TypeOf(Field(v.of, name)), <<v.at[1], PlaceOf(v, name)>>)
<1>f. PICK f : f = Field(v.of, name)
  OBVIOUS
<1>1. PICK g \in Shown(heap[v.at[1]].class) :
        /\ Kind(g) = Kind(f) /\ TypeOf(g) = TypeOf(f)
        /\ PlaceOf(v, name) = At[heap[v.at[1]].class][g.name]
  BY <1>f, LoadsOwn
<1>2. v.at[1] \in DOMAIN heap /\ heap[v.at[1]].class \in Usable
  BY HoldsModel
<1>3. TypeOf(g)[1] # "model"
  <2>1. TypeOf(g)[1] \in HandleSorts \cup {"array"}
    BY <1>f, <1>1, <1>2, FieldTypes
  <2> QED
    BY <2>1 DEF HandleSorts
<1>p. PICK p : p = <<v.at[1], PlaceOf(v, name)>>
  OBVIOUS
<1>4. p = <<p[1], p[2]>> /\ p[1] = v.at[1] /\ p[2] = PlaceOf(v, name)
  BY <1>p
<1>5. p[1] \in DOMAIN ClassOf(heap) /\ ClassOf(heap)[p[1]] = heap[v.at[1]].class
  BY <1>2, <1>4 DEF ClassOf
<1>6. Points(ClassOf(heap), TypeOf(f), p)
  BY <1>f, <1>1, <1>3, <1>4, <1>5 DEF Points
<1> QED
  BY <1>f, <1>p, <1>6

(* An entity or array is where the offset of its field says, also in a      *)
(* record that is missing.                                                  *)
LEMMA PlaceKeeps ==
  ASSUME KeepsFields, CInv, NEW v \in Values, NEW name, EntityOf(v, name) \/ ArrayOf(v, name)
  PROVE  CInv'
<1>f. PICK f : f = Field(v.of, name)
  OBVIOUS
<1>p. PICK p : p = <<v.at[1], PlaceOf(v, name)>>
  OBVIOUS
<1>w. PICK w : w = Inner(v, name)
  OBVIOUS
<1>1. /\ IsModel(v) /\ name \in Names(v.of) /\ Kind(f) \in {"Entity", "Array"}
      /\ other' = w
      /\ last' = Quiet /\ UNCHANGED <<phase, compiled, views, heap, buffers, stores, self>>
  BY <1>f, <1>w DEF EntityOf, ArrayOf, Holds
<1>2. /\ w.sort = TypeOf(f)[1] /\ w.of = TypeOf(f)[2] /\ w.optional = FALSE /\ w.at = p
      /\ w.unchecked = v.unchecked /\ IsValue(w)
  <2>u. PICK u : u = Value(TypeOf(f), FALSE, p)
    OBVIOUS
  <2>1. u.sort = TypeOf(f)[1] /\ u.of = TypeOf(f)[2] /\ u.at = p
    BY <2>u DEF Value
  <2>2. u.optional = FALSE
    BY <2>u, ValueFlags
  <2>3. IsValue(u)
    BY <2>u, ValueIs
  <2>4. w = [u EXCEPT !.unchecked = v.unchecked]
    BY <1>f, <1>p, <1>w, <2>u DEF Inner
  <2>5. w.sort = u.sort /\ w.of = u.of /\ w.at = u.at
    BY <2>3, <2>4, MarkHas
  <2>6. w.optional = u.optional /\ w.unchecked = v.unchecked
    BY <2>3, <2>4, MarkFlags
  <2>7. IsValue(w)
    BY <2>3, <2>4, MarkIs
  <2> QED
    BY <2>1, <2>2, <2>5, <2>6, <2>7
<1>3. \/ w.at = Null /\ w.unchecked
      \/ Astray(TypeOf(f), w.at) \/ Points(ClassOf(heap), TypeOf(f), w.at)
  <2>1. CASE Here(v)
    <3>1. Points(ClassOf(heap), TypeOf(Field(v.of, name)), <<v.at[1], PlaceOf(v, name)>>)
      BY <1>f, <1>1, <2>1, PlacePoints
    <3> QED
      BY <1>f, <1>p, <1>2, <3>1
  <2>2. CASE ~Here(v)
    <3>1. v.unchecked
      <4>1. \/ v.at = Null /\ v.unchecked
            \/ Points(ClassOf(heap), <<"model", v.of>>, v.at)
        BY <1>1, HoldsSome
      <4>2. ASSUME Points(ClassOf(heap), <<"model", v.of>>, v.at) PROVE FALSE
        <5>1. v.at[1] \in DOMAIN heap /\ heap \in Seq(ToSet(heap))
          BY <4>2 DEF Points, ClassOf, CInv, Shaped
        <5>2. DOMAIN heap = 1 .. Len(heap) /\ Len(heap) \in Nat
          BY <5>1
        <5> QED
          BY <2>2, <5>1, <5>2 DEF Here
      <4> QED
        BY <4>1, <4>2
    <3>2. p[1] = 0
      BY <1>p, <2>2 DEF Here
    <3>3. TypeOf(f)[1] # "model"
      <4>1. v.of \in Classes /\ v.of \in Usable
        BY <1>1, HoldsSome
      <4>2. f \in Shown(v.of)
        BY <1>f, <1>1, <4>1, ShownFields
      <4>3. TypeOf(f)[1] \in HandleSorts \cup {"array"}
        BY <1>1, <4>1, <4>2, FieldTypes
      <4> QED
        BY <4>3 DEF HandleSorts
    <3> QED
      BY <1>2, <3>1, <3>2, <3>3 DEF Astray
  <2> QED
    BY <2>1, <2>2
<1>4. Sound(ClassOf(heap), views, w)
  BY <1>f, <1>1, <1>2, <1>3, TypedByModel
<1> QED
  BY <1>1, <1>4, QuietRight, ValuesSound, ValuesOnly

-----------------------------------------------------------------------------
(* Native functions and arrays *)

(* A typed handle is on the kind of entity that the trial made there.       *)
LEMMA EntityMade ==
  ASSUME CInv, NEW type, NEW p, Points(ClassOf(heap), type, p), type[1] \in HandleSorts
  PROVE  EntityAt(p).made = KindCode(type[1])
<1>1. type[1] # "model" /\ type[1] # "array"
  BY DEF HandleSorts
<1>2. /\ p[1] \in DOMAIN heap /\ ClassOf(heap)[p[1]] = heap[p[1]].class
      /\ heap[p[1]].class \in Usable
  BY DEF Points, ClassOf, CInv, Shaped
<1>3. PICK f \in Shown(heap[p[1]].class) :
        /\ Kind(f) \in {"Entity", "Array"} /\ At[heap[p[1]].class][f.name] = p[2] /\ TypeOf(f) = type
  BY <1>1, <1>2 DEF Points
<1>4. Kind(f) = "Entity" /\ Created(f) = KindCode(type[1])
  BY <1>1, <1>2, <1>3, FieldTypes
<1>5. WordFor(heap, p[1], f) = [made |-> Created(f), type |-> HandleType(f)]
  BY <1>2, <1>3, <1>4 DEF CInv, Filled
<1>6. EntityAt(p) = WordFor(heap, p[1], f)
  BY <1>3 DEF EntityAt, WordFor
<1> QED
  BY <1>4, <1>5, <1>6

(* A native call is right if it takes that kind.                            *)
LEMMA NativeRight ==
  ASSUME NEW fn, NEW p, last' = Native(fn, p), EntityAt(p).made \in Takes(fn)
  PROVE  Right'
BY DEF Right, Native, DispatchSound, KindsMatch, ElementSafe

(* A verb calls the native function of its handle's own kind.               *)
LEMMA UseKeeps ==
  ASSUME CInv, NEW verb \in DOMAIN Verbs, Use(other, verb)
  PROVE  CInv'
<1>o. PICK o : o = other
  OBVIOUS
<1>1. /\ ~o.optional /\ Here(o) /\ o.sort \in DOMAIN Verbs[verb]
      /\ other' = o /\ last' = Native(Verbs[verb][o.sort], o.at)
      /\ UNCHANGED <<phase, compiled, views, heap, buffers, stores, self>>
  BY <1>o DEF Use, Holds
<1>2. o.sort \in HandleSorts /\ KindCode(o.sort) \in Takes(Verbs[verb][o.sort])
  BY <1>1, VerbsTake
<1>3. Points(ClassOf(heap), <<o.sort, o.of>>, o.at)
  <2>1. o.sort # "none"
    BY <1>2 DEF HandleSorts
  <2> QED
    BY <1>o, <1>1, <2>1, HereIsSound DEF Values
<1>4. EntityAt(o.at).made = KindCode(o.sort)
  BY <1>2, <1>3, EntityMade
<1>5. Right'
  BY <1>1, <1>2, <1>4, NativeRight
<1> QED
  BY <1>o, <1>1, <1>5, ValuesSound, ValuesOnly

(* Condition sets are given handles of kinds that can be waited for.        *)
LEMMA AnyOfKeeps ==
  ASSUME KeepsFields, CInv, NEW v \in Values, NEW name, AnyOf(v, name)
  PROVE  CInv'
<1>f. PICK f : f = Field(v.of, name)
  OBVIOUS
<1>p. PICK p : p = LoadAt(v, name)
  OBVIOUS
<1>1. /\ IsModel(v) /\ Here(v) /\ name \in Names(v.of) /\ Kind(f) = "list[Ref]"
      /\ TypeOf(f)[1] \in DOMAIN AcquireAny
  BY <1>f DEF AnyOf
<1>c. CASE Crash
  BY <1>c, CrashKeeps
<1>n. CASE ~Crash
  <2>2. PICK i \in DOMAIN p : /\ p[i] # Null
                              /\ Holds(other, Native(AcquireAny[TypeOf(f)[1]], p[i]))
                              /\ UNCHANGED views
    BY <1>f, <1>p, <1>n DEF AnyOf
  <2>3. /\ other' = other /\ last' = Native(AcquireAny[TypeOf(f)[1]], p[i])
        /\ UNCHANGED <<phase, compiled, views, heap, buffers, stores, self>>
    BY <2>2 DEF Holds
  <2>4. PICK g \in Shown(heap[v.at[1]].class) :
          Kind(g) = Kind(f) /\ TypeOf(g) = TypeOf(f) /\ p = WordFor(heap, v.at[1], g)
    BY <1>f, <1>p, <1>1, LoadsOwn
  <2>5. v.at[1] \in DOMAIN heap /\ Filled(ClassOf(heap), heap)
    BY <1>1, HoldsModel DEF CInv
  <2>6. Points(ClassOf(heap), TypeOf(f), p[i])
    BY <1>1, <2>4, <2>5, <2>2 DEF Filled, MayPoint
  <2>7. TypeOf(f)[1] = "resource"
    BY <1>1 DEF AcquireAny
  <2>8. KindCode("resource") = 2 /\ "resource" \in HandleSorts
    BY DEF KindCode, HandleSorts
  <2>9. Takes(AcquireAny["resource"]) = {2}
    BY DEF AcquireAny, Takes, TakesBuffer, TakesFractional, TakesPool, TakesDataset, TakesStore,
           TakesPriority, TakesCondition
  <2>10. EntityAt(p[i]).made \in Takes(AcquireAny[TypeOf(f)[1]])
    BY <2>6, <2>7, <2>8, <2>9, EntityMade
  <2>11. Right'
    BY <2>3, <2>10, NativeRight
  <2> QED
    BY <2>3, <2>11, ValuesSound, ValuesOnly
<1> QED
  BY <1>c, <1>n

(* The words that a view of an array reads name a buffer of their own, or   *)
(* none at all.                                                             *)
LEMMA ArrayWords ==
  ASSUME CInv, NEW v \in Values, v.sort = "array", Here(v)
  PROVE  \/ Words(v).length = -1
         \/ /\ Words(v).buffer \in DOMAIN buffers
            /\ buffers[Words(v).buffer].owner = v.at
            /\ buffers[Words(v).buffer].freed = FALSE
            /\ Words(v).length = buffers[Words(v).buffer].size
            /\ buffers[Words(v).buffer].size \in Nat
<1>p. PICK p : p = v.at
  OBVIOUS
<1>1. Points(ClassOf(heap), <<"array", v.of>>, p)
  BY <1>p, HereIsSound
<1>2. /\ p = <<p[1], p[2]>>
      /\ p[1] \in DOMAIN heap /\ ClassOf(heap)[p[1]] = heap[p[1]].class
      /\ heap[p[1]].class \in Usable
  BY <1>1 DEF Points, ClassOf, CInv, Shaped
<1>3. PICK f \in Shown(heap[p[1]].class) :
        /\ Kind(f) \in {"Entity", "Array"} /\ At[heap[p[1]].class][f.name] = p[2]
        /\ TypeOf(f) = <<"array", v.of>>
  BY <1>1, <1>2 DEF Points
<1>4. Kind(f) = "Array"
  <2>1. TypeOf(f)[1] = "array"
    BY <1>3
  <2>2. "array" \notin HandleSorts
    BY DEF HandleSorts
  <2> QED
    BY <1>2, <1>3, <2>1, <2>2, FieldTypes
<1>5. f \in Arrays(heap[p[1]].class)
  BY <1>3, <1>4 DEF Shown, Arrays
<1>w. PICK w : w = WordFor(heap, p[1], f)
  OBVIOUS
<1>6. Words(v) = [buffer |-> w[1], length |-> w[2]]
  BY <1>p, <1>w, <1>3 DEF Words, WordFor
<1>7. Owner(heap, p[1], f) = p
  BY <1>2, <1>3 DEF Owner
<1>8. \/ w = <<0, -1>>
      \/ \E i \in DOMAIN buffers : /\ buffers[i].owner = p /\ ~buffers[i].freed
                                   /\ w = <<i, buffers[i].size>>
  BY <1>w, <1>2, <1>5, <1>7 DEF CInv, Owned
<1>9. CASE w = <<0, -1>>
  BY <1>6, <1>9
<1>10. CASE w # <<0, -1>>
  <2>1. PICK i \in DOMAIN buffers : /\ buffers[i].owner = p /\ ~buffers[i].freed
                                    /\ w = <<i, buffers[i].size>>
    BY <1>8, <1>10
  <2>2. buffers[i].size \in Nat /\ buffers[i].freed = FALSE
    BY <2>1 DEF CInv, Owned
  <2>3. Words(v).buffer = i /\ Words(v).length = buffers[i].size
    BY <1>6, <2>1
  <2> QED
    BY <1>p, <2>1, <2>2, <2>3
<1> QED
  BY <1>9, <1>10

(* An index inside the array's length is inside its buffer.                 *)
LEMMA TouchedRight ==
  ASSUME CInv, NEW v \in Values, v.sort = "array", Here(v), NEW i, i \in Int, 0 <= i, i < Words(v).length,
         UNCHANGED buffers, last' = Touched(v, i)
  PROVE  Right'
<1>w. PICK w : w = Words(v)
  OBVIOUS
<1>1. /\ w.buffer \in DOMAIN buffers
      /\ buffers[w.buffer].owner = v.at /\ buffers[w.buffer].freed = FALSE
      /\ w.length = buffers[w.buffer].size /\ buffers[w.buffer].size \in Nat
  <2>1. w.length # -1
    BY <1>w
  <2> QED
    BY <1>w, <2>1, ArrayWords
<1>2. i \in 0 .. buffers[w.buffer].size - 1
  BY <1>w, <1>1
<1>3. /\ last'.act = "element" /\ last'.buffer = w.buffer /\ last'.index = i
      /\ last'.of = v.at
  BY <1>w DEF Touched
<1>4. ElementSafe'
  BY <1>1, <1>2, <1>3 DEF ElementSafe
<1> QED
  BY <1>3, <1>4 DEF Right, DispatchSound, KindsMatch

(* An element is read after the index is checked,                           *)
LEMMA ElementKeeps ==
  ASSUME CInv, NEW i \in Indices, Element(other, i)
  PROVE  CInv'
<1>1. CASE Fail
  BY <1>1, FailKeeps
<1>2. CASE ~Fail
  <2>1. /\ other.sort = "array" /\ Here(other) /\ Inside(Words(other), i)
        /\ other' = other /\ last' = Touched(other, i)
        /\ UNCHANGED <<phase, compiled, views, heap, buffers, stores, self>>
    BY <1>2 DEF Element, Holds
  <2>2. i \in Int /\ 0 <= i /\ i < Words(other).length /\ other \in Values
    BY <2>1 DEF Inside, Indices, Values
  <2>3. Right'
    BY <2>1, <2>2, TouchedRight
  <2> QED
    BY <2>1, <2>3, ValuesSound, ValuesOnly
<1> QED
  BY <1>1, <1>2

(* and iteration stops at the length.                                       *)
LEMMA IterateKeeps ==
  ASSUME CInv, NEW i \in Indices, Iterate(other, i)
  PROVE  CInv'
<1>1. /\ other.sort = "array" /\ Here(other) /\ i \in Int /\ 0 <= i /\ UNCHANGED views /\ other \in Values
  BY DEF Iterate, Indices, Values
<1>2. CASE i < Words(other).length /\ Holds(other, Touched(other, i))
  <2>1. /\ other' = other /\ last' = Touched(other, i)
        /\ UNCHANGED <<phase, compiled, views, heap, buffers, stores, self>>
    BY <1>1, <1>2 DEF Holds
  <2>2. Right'
    BY <1>1, <1>2, <2>1, TouchedRight
  <2> QED
    BY <2>1, <2>2, ValuesSound, ValuesOnly
<1>3. CASE Holds(Nothing, Quiet)
  <2>1. /\ other' = Nothing /\ last' = Quiet
        /\ UNCHANGED <<phase, compiled, views, heap, buffers, stores, self>>
    BY <1>1, <1>3 DEF Holds
  <2> QED
    BY <2>1, NothingSound, QuietRight, ValuesSound, ValuesOnly
<1> QED
  BY <1>2, <1>3 DEF Iterate

-----------------------------------------------------------------------------
(* Calls *)

(* A function has the same types in every subclass.                         *)
LEMMA CallsAgree ==
  ASSUME KeepsCalls, NEW c \in Usable, NEW b \in Classes, IsA(c, b), NEW n \in Functions(b)
  PROVE  /\ n \in Functions(c) /\ Types(Signature(c, n)) = Types(Signature(b, n))
         /\ Signature(c, n).returns = Signature(b, n).returns
<1>1. CASE b = c
  BY <1>1
<1>2. CASE b # c
  <2>1. b \in Bases(c)
    BY <1>2, UsableClass, Inherited
  <2> QED
    BY <2>1 DEF KeepsCalls
<1> QED
  BY <1>1, <1>2

(* The method named is the one that runs.                                   *)
LEMMA RunsNamed ==
  ASSUME CInv, NEW v \in Values, IsModel(v), Here(v), NEW name, Contains(TableOf[v.of], name)
  PROVE  Reached(v, name) = name
<1>1. /\ v.of \in Classes /\ heap[v.at[1]].class \in Usable /\ IsA(heap[v.at[1]].class, v.of)
  BY HoldsModel
<1>2. /\ SlotOf(v.of, name) \in DOMAIN TableOf[heap[v.at[1]].class]
      /\ TableOf[heap[v.at[1]].class][SlotOf(v.of, name)] = name
  BY <1>1, SameSlot
<1> QED
  BY <1>2 DEF Reached

(* A call is right if the slot it takes has the method it names.            *)
LEMMA CalledRight ==
  ASSUME NEW v, NEW name, last' = Called(v, name), Reached(v, name) = name
  PROVE  Right'
BY DEF Right, Called, DispatchSound, KindsMatch, ElementSafe

(* It takes what its name takes in the caller's view.                       *)
LEMMA TakesSame ==
  ASSUME KeepsCalls, CInv, NEW v \in Values, IsModel(v), Here(v), NEW name,
         NEW own, own.of = heap[v.at[1]].class, Takes1(v, name) # "none"
  PROVE  Takes1(own, name) = Takes1(v, name)
<1>1. /\ v.of \in Classes /\ heap[v.at[1]].class \in Usable /\ IsA(heap[v.at[1]].class, v.of)
  BY HoldsModel
<1>2. name \in Functions(v.of) /\ 1 \in DOMAIN Types(Signature(v.of, name))
  BY DEF Takes1
<1>3. /\ name \in Functions(own.of)
      /\ Types(Signature(own.of, name)) = Types(Signature(v.of, name))
  BY <1>1, <1>2, CallsAgree
<1> QED
  BY <1>2, <1>3 DEF Takes1

(* An argument is of the class that the method takes, which is typed.       *)
LEMMA ArgumentFits ==
  ASSUME CInv, NEW v \in Values, IsModel(v), NEW name, NEW w \in Values,
         Takes1(v, name) # "none", IsModel(w), Casts(w, <<"model", Takes1(v, name)>>)
  PROVE  /\ \/ w.at = Null /\ w.unchecked
            \/ Points(ClassOf(heap), <<"model", Takes1(v, name)>>, w.at)
         /\ Takes1(v, name) \in views
<1>t. PICK t : t = Takes1(v, name)
  OBVIOUS
<1>1. IsA(w.of, t)
  BY <1>t DEF Casts
<1>2. /\ \/ w.at = Null /\ w.unchecked
         \/ Points(ClassOf(heap), <<"model", w.of>>, w.at)
      /\ v.of \in views /\ v.of \in Classes
  BY HoldsSome
<1>3. (w.at = Null /\ w.unchecked) \/ Points(ClassOf(heap), <<"model", t>>, w.at)
  BY <1>1, <1>2, PointsToBase
<1>4. t \in Exposed[v.of]
  <2>1. name \in Functions(v.of) /\ 1 \in DOMAIN Types(Signature(v.of, name))
        /\ t = Types(Signature(v.of, name))[1]
    BY <1>t DEF Takes1
  <2>2. t \in ToSet(Types(Signature(v.of, name)))
    BY <2>1 DEF ToSet
  <2>3. t \in Classes
    BY <1>1 DEF IsA
  <2> QED
    BY <1>2, <2>1, <2>2, <2>3 DEF Exposed
<1>5. t \in views
  BY <1>2, <1>4 DEF CInv, Known
<1> QED
  BY <1>t, <1>3, <1>5

(* The parts of a model value.                                              *)
LEMMA ModelFields ==
  ASSUME NEW c, NEW r
  PROVE  /\ Model(c, r).of = c /\ Model(c, r).sort = "model" /\ Model(c, r).at = Whole(r)
         /\ IsValue(Model(c, r))
<1>t. PICK t : t = <<"model", c>>
  OBVIOUS
<1>1. t[1] = "model" /\ t[2] = c
  BY <1>t
<1>2. Model(c, r).of = c /\ Model(c, r).sort = "model" /\ Model(c, r).at = Whole(r)
  BY <1>t, <1>1 DEF Model, Value
<1>3. IsValue(Model(c, r))
  BY ValueIs DEF Model
<1> QED
  BY <1>2, <1>3

(* A call gives the method the arguments its own signature asks for,        *)
LEMMA EnterKeeps ==
  ASSUME KeepsCalls, CInv, NEW v \in Values, NEW name, NEW w \in Values, Enter(v, name, w)
  PROVE  CInv'
<1>c. PICK c : c = heap[v.at[1]].class
  OBVIOUS
<1>o. PICK own : own = Model(c, v.at[1])
  OBVIOUS
<1>1. /\ phase = "trial" /\ IsModel(v) /\ Here(v) /\ Contains(TableOf[v.of], name)
      /\ Takes1(v, name) # "none" => IsModel(w) /\ Casts(w, <<"model", Takes1(v, name)>>)
      /\ self' = own /\ last' = Called(v, name)
      /\ other' = IF Takes1(v, name) = "none" THEN Nothing
                  ELSE Seen(w, <<"model", Takes1(own, Reached(v, name))>>)
      /\ UNCHANGED <<phase, compiled, views, heap, buffers, stores>>
  BY <1>c, <1>o DEF Enter, Running
<1>2. Reached(v, name) = name
  BY <1>1, RunsNamed
<1>3. Right'
  BY <1>1, <1>2, CalledRight
<1>4. v.at[1] \in DOMAIN heap /\ Shaped(heap)
  BY <1>1, HoldsModel DEF CInv
<1>5. Sound(ClassOf(heap), views, self')
  <2>1. c \in views
    BY <1>c, <1>1, <1>4 DEF CInv, Known
  <2>2. Points(ClassOf(heap), <<"model", c>>, Whole(v.at[1]))
    BY <1>c, <1>4, OwnModel
  <2> QED
    BY <1>o, <1>1, <2>1, <2>2, ModelSound DEF Model
<1>6. Sound(ClassOf(heap), views, other')
  <2>1. CASE Takes1(v, name) = "none"
    BY <1>1, <2>1, NothingSound
  <2>2. CASE Takes1(v, name) # "none"
    <3>1. own.of = heap[v.at[1]].class
      BY <1>c, <1>o, ModelFields
    <3>t. PICK t : t = <<"model", Takes1(v, name)>>
      OBVIOUS
    <3>2. other' = Seen(w, t)
      BY <1>1, <1>2, <2>2, <3>1, <3>t, TakesSame
    <3>3. /\ (w.at = Null /\ w.unchecked) \/ Points(ClassOf(heap), t, w.at)
          /\ Takes1(v, name) \in views
      BY <1>1, <2>2, <3>t, ArgumentFits
    <3>4. t[1] = "model" /\ t[2] = Takes1(v, name)
      BY <3>t
    <3>u. PICK u : u = other'
      OBVIOUS
    <3>5. /\ u.sort = "model" /\ u.of = Takes1(v, name) /\ u.at = w.at
          /\ u.unchecked = w.unchecked /\ IsValue(u)
      BY <3>2, <3>4, <3>u, SeenHas, SeenIs
    <3> QED
      BY <3>t, <3>3, <3>5, <3>u, ModelSeen
  <2> QED
    BY <2>1, <2>2
<1> QED
  BY <1>1, <1>3, <1>5, <1>6, ValuesOnly

(* and returns what the caller's class was promised.                        *)
LEMMA ReturnKeeps ==
  ASSUME KeepsCalls, CInv, NEW v \in Values, NEW name, NEW w \in Values, Return(v, name, w)
  PROVE  CInv'
<1>c. PICK c : c = heap[v.at[1]].class
  OBVIOUS
<1>o. PICK own : own = Model(c, v.at[1])
  OBVIOUS
<1>t. PICK taken : taken = Seen(w, <<"model", Takes1(own, Reached(v, name))>>)
  OBVIOUS
<1>b. PICK back : back = Signature(own.of, Reached(v, name)).returns
  OBVIOUS
<1>1. /\ IsModel(v) /\ Here(v) /\ name \in Functions(v.of) /\ UNCHANGED views
      /\ Takes1(v, name) # "none" => IsModel(w) /\ Casts(w, <<"model", Takes1(v, name)>>)
      /\ Signature(v.of, name).returns \in Classes
  BY DEF Return
<1>2. PICK value \in {own} \cup IF Takes1(v, name) = "none" THEN {} ELSE {taken} :
        /\ Casts(value, <<"model", back>>)
        /\ Holds(Seen(value, <<"model", Signature(v.of, name).returns>>), Called(v, name))
  BY <1>c, <1>o, <1>t, <1>b DEF Return
<1>3. /\ other' = Seen(value, <<"model", Signature(v.of, name).returns>>)
      /\ last' = Called(v, name)
      /\ UNCHANGED <<phase, compiled, views, heap, buffers, stores, self>>
  BY <1>1, <1>2 DEF Holds
<1>4. Reached(v, name) = name
  <2>1. name \in ToSet(Slots[v.of]) /\ v.of \in Classes
    BY <1>1, HoldsModel DEF Functions
  <2>2. Slots[v.of] \in Seq(ToSet(Slots[v.of]))
    BY <2>1, SlotsListed
  <2>3. Contains(TableOf[v.of], name)
    BY <2>1, <2>2 DEF Contains, ToSet, TableOf
  <2> QED
    BY <1>1, <2>3, RunsNamed
<1>5. Right'
  BY <1>3, <1>4, CalledRight
<1>6. /\ v.of \in Classes /\ v.of \in views /\ c \in Usable /\ IsA(c, v.of)
      /\ v.at[1] \in DOMAIN heap /\ Shaped(heap)
  BY <1>c, <1>1, HoldsModel DEF CInv
<1>7. own.of = c /\ own.at = Whole(v.at[1])
  BY <1>o, ModelFields
<1>8. back = Signature(v.of, name).returns
  BY <1>b, <1>1, <1>4, <1>6, <1>7, CallsAgree
<1>9. \/ value.at = Null /\ value.unchecked
      \/ Points(ClassOf(heap), <<"model", value.of>>, value.at)
  <2>1. CASE value = own
    BY <1>c, <1>6, <1>7, <2>1, OwnModel
  <2>2. CASE value # own
    <3>1. Takes1(v, name) # "none" /\ value = taken
      BY <1>2, <2>2
    <3>2. Takes1(own, name) = Takes1(v, name)
      BY <1>c, <1>1, <1>7, <3>1, TakesSame
    <3>t. PICK t : t = <<"model", Takes1(v, name)>>
      OBVIOUS
    <3>3. value.of = Takes1(v, name) /\ value.at = w.at /\ value.unchecked = w.unchecked
      <4>1. t[2] = Takes1(v, name) /\ value = Seen(w, t)
        BY <1>t, <1>4, <3>1, <3>2, <3>t
      <4> QED
        BY <4>1, SeenHas, SeenIs
    <3>4. \/ w.at = Null /\ w.unchecked
          \/ Points(ClassOf(heap), <<"model", Takes1(v, name)>>, w.at)
      BY <1>1, <3>1, ArgumentFits
    <3> QED
      BY <3>3, <3>4
  <2> QED
    BY <2>1, <2>2
<1>10. IsA(value.of, back)
  BY <1>2 DEF Casts
<1>11. (value.at = Null /\ value.unchecked) \/ Points(ClassOf(heap), <<"model", back>>, value.at)
  BY <1>9, <1>10, PointsToBase
<1>12. back \in views
  <2>1. back \in Exposed[v.of]
    BY <1>1, <1>6, <1>8 DEF Exposed
  <2> QED
    BY <1>6, <2>1 DEF CInv, Known
<1>13. Sound(ClassOf(heap), views, other')
  <2>t. PICK t : t = <<"model", back>>
    OBVIOUS
  <2>1. t[1] = "model" /\ t[2] = back /\ other' = Seen(value, t)
    BY <1>3, <1>8, <2>t
  <2>u. PICK u : u = other'
    OBVIOUS
  <2>2. /\ u.sort = "model" /\ u.of = back /\ u.at = value.at
        /\ u.unchecked = value.unchecked /\ IsValue(u)
    BY <2>1, <2>u, SeenHas, SeenIs
  <2> QED
    BY <1>11, <1>12, <2>2, <2>u, ModelSeen
<1> QED
  BY <1>3, <1>5, <1>13, ValuesSound, ValuesOnly

-----------------------------------------------------------------------------
(* References assigned, and stores *)

(* A sequence whose elements change is still a sequence.                    *)
LEMMA RangeKept ==
  ASSUME NEW s, s \in Seq(ToSet(s)), NEW D, D = DOMAIN s, NEW t, t = [i \in D |-> t[i]]
  PROVE  t \in Seq(ToSet(t)) /\ Len(t) = Len(s) /\ DOMAIN t = DOMAIN s
<1>1. D = 1 .. Len(s) /\ Len(s) \in Nat
  OBVIOUS
<1>2. DOMAIN t = D
  OBVIOUS
<1>3. \A i \in D : t[i] \in ToSet(t)
  BY <1>2 DEF ToSet
<1>4. [i \in D |-> t[i]] \in [1 .. Len(s) -> ToSet(t)]
  BY <1>1, <1>3
<1>5. t \in [1 .. Len(s) -> ToSet(t)]
  BY <1>4
<1>6. t \in Seq(ToSet(t))
  BY <1>1, <1>5, SeqDef
<1> QED
  BY <1>1, <1>2, <1>6

SameClasses(h, k) == DOMAIN k = DOMAIN h /\ \A r \in DOMAIN h : k[r].class = h[r].class

(* Where no record changes its class, stores keep what they may hold.       *)
LEMMA ClassesKept ==
  ASSUME NEW h, NEW k, SameClasses(h, k)
  PROVE  /\ ClassOf(k) = ClassOf(h)
         /\ \A r, f : r \in DOMAIN h => Owner(k, r, f) = Owner(h, r, f)
         /\ \A s : Stocked(h, s) => Stocked(k, s)
<1>1. ClassOf(k) = ClassOf(h)
  BY DEF ClassOf, SameClasses
<1>2. \A r, f : r \in DOMAIN h => Owner(k, r, f) = Owner(h, r, f)
  BY DEF Owner, SameClasses
<1>3. ASSUME NEW s, Stocked(h, s) PROVE Stocked(k, s)
  <2>1. \A r \in DOMAIN k : \A f \in Shown(k[r].class) : IsQueue(f) => Owner(k, r, f) \in DOMAIN s
    BY <1>2, <1>3 DEF Stocked, SameClasses
  <2>2. ASSUME NEW p \in DOMAIN s
        PROVE  \E r \in DOMAIN k : \E f \in Shown(k[r].class) :
                 /\ Kind(f) = "Entity" /\ IsQueue(f) /\ p = Owner(k, r, f)
                 /\ \A i \in DOMAIN s[p] : MayPoint(ClassOf(k), <<"model", f.arg>>, s[p][i])
    <3>1. PICK r \in DOMAIN h : \E f \in Shown(h[r].class) :
            /\ Kind(f) = "Entity" /\ IsQueue(f) /\ p = Owner(h, r, f)
            /\ \A i \in DOMAIN s[p] : MayPoint(ClassOf(h), <<"model", f.arg>>, s[p][i])
      BY <1>3 DEF Stocked
    <3>2. PICK f \in Shown(h[r].class) :
            /\ Kind(f) = "Entity" /\ IsQueue(f) /\ p = Owner(h, r, f)
            /\ \A i \in DOMAIN s[p] : MayPoint(ClassOf(h), <<"model", f.arg>>, s[p][i])
      BY <3>1
    <3>3. r \in DOMAIN k /\ f \in Shown(k[r].class) /\ p = Owner(k, r, f)
      BY <1>2, <3>2 DEF SameClasses
    <3>4. \A i \in DOMAIN s[p] : MayPoint(ClassOf(k), <<"model", f.arg>>, s[p][i])
      BY <1>1, <3>2
    <3> QED
      BY <3>2, <3>3, <3>4
  <2>3. \A p \in DOMAIN s : s[p] \in Seq(ToSet(s[p]))
    BY <1>3 DEF Stocked
  <2> QED
    BY <2>1, <2>2, <2>3 DEF Stocked
<1> QED
  BY <1>1, <1>2, <1>3

(* A step that changes words only.                                          *)
LEMMA WordsOnly ==
  ASSUME CInv, UNCHANGED <<phase, compiled, views, stores>>, Right',
         SameClasses(heap, heap'), Shaped(heap'), Filled(ClassOf(heap), heap'),
         Owned(heap', buffers'),
         Sound(ClassOf(heap), views, self'), Sound(ClassOf(heap), views, other')
  PROVE  CInv'
<1>1. ClassOf(heap') = ClassOf(heap) /\ Stocked(heap', stores')
  BY ClassesKept DEF CInv
<1>2. Known'
  BY DEF CInv, Known, SameClasses
<1>3. \A v \in Values' : Sound(ClassOf(heap'), views', v)
  BY <1>1 DEF Values
<1> QED
  BY <1>1, <1>2, <1>3 DEF CInv

(* One word set: no other changes.                                          *)
WithWord(h, r, o, x) == [h EXCEPT ![r].word[o] = x]

SetsOnly(h, k, r, g, x) ==
  /\ Shaped(k) /\ SameClasses(h, k) /\ WordFor(k, r, g) = x
  /\ \A q \in DOMAIN h : \A f \in Shown(h[q].class) :
       q # r \/ f # g => WordFor(k, q, f) = WordFor(h, q, f)

(* One word of a record set through a field: no other word changes.         *)
LEMMA WordSet ==
  ASSUME NEW h, Shaped(h), NEW r \in DOMAIN h, NEW g \in Shown(h[r].class), NEW x
  PROVE  SetsOnly(h, WithWord(h, r, At[h[r].class][g.name], x), r, g, x)
<1>k. PICK k : k = WithWord(h, r, At[h[r].class][g.name], x)
  OBVIOUS
<1>o. PICK o : o = At[h[r].class][g.name]
  OBVIOUS
<1>w. PICK w : w = [h[r].word EXCEPT ![o] = x]
  OBVIOUS
<1>x. PICK record : record = [h[r] EXCEPT !.word = w]
  OBVIOUS
<1>1. /\ DOMAIN h[r] = {"class", "dynamic", "released", "word"}
      /\ h[r].class \in Usable /\ h[r].dynamic \in BOOLEAN /\ h[r].released \in BOOLEAN
      /\ DOMAIN h[r].word = Offsets(h[r].class)
  BY DEF Shaped
<1>2. /\ DOMAIN record = {"class", "dynamic", "released", "word"}
      /\ record.class = h[r].class /\ record.dynamic = h[r].dynamic
      /\ record.released = h[r].released /\ record.word = w
  BY <1>x, <1>1
<1>3. k = [q \in DOMAIN h |-> IF q = r THEN record ELSE h[q]]
  BY <1>k, <1>o, <1>w, <1>x DEF WithWord
<1>4. DOMAIN k = DOMAIN h /\ k[r] = record /\ \A q \in DOMAIN h : q # r => k[q] = h[q]
  BY <1>3
<1>5. SameClasses(h, k)
  BY <1>2, <1>4 DEF SameClasses
<1>6. DOMAIN w = Offsets(h[r].class)
  BY <1>w, <1>1
<1>7. k \in Seq(ToSet(k))
  <2>1. k = [q \in DOMAIN h |-> k[q]] /\ h \in Seq(ToSet(h))
    BY <1>3 DEF Shaped
  <2> QED
    BY ONLY <2>1, RangeKept
<1>8. Shaped(k)
  BY <1>1, <1>2, <1>4, <1>6, <1>7 DEF Shaped
<1>9. o \in DOMAIN h[r].word
  BY <1>o, <1>1 DEF Offsets
<1>10. w[o] = x /\ \A p \in DOMAIN h[r].word : p # o => w[p] = h[r].word[p]
  BY <1>w, <1>9
<1>11. WordFor(k, r, g) = x
  BY <1>o, <1>2, <1>4, <1>10 DEF WordFor
<1>12. ASSUME NEW q \in DOMAIN h, NEW f \in Shown(h[q].class), q # r \/ f # g
       PROVE  WordFor(k, q, f) = WordFor(h, q, f)
  <2>1. CASE q # r
    BY <1>4, <2>1 DEF WordFor
  <2>2. CASE q = r
    <3>1. h[r].class \in Classes
      BY <1>1, UsableClass
    <3>2. At[h[r].class][f.name] # o
      BY <1>o, <1>12, <2>2, <3>1, ShownFields
    <3>3. At[h[r].class][f.name] \in DOMAIN h[r].word
      BY <1>1, <2>2 DEF Offsets
    <3>4. w[At[h[r].class][f.name]] = h[r].word[At[h[r].class][f.name]]
      BY <1>10, <3>2, <3>3
    <3> QED
      BY <1>2, <1>4, <2>2, <3>4 DEF WordFor
  <2> QED
    BY <2>1, <2>2
<1> QED
  BY <1>k, <1>5, <1>8, <1>11, <1>12 DEF SetsOnly

(* Buffers stay owned while the words that name them do not change.         *)
LEMMA OwnedKept ==
  ASSUME NEW h, NEW k, NEW b, SameClasses(h, k), Owned(h, b),
         \A q \in DOMAIN h : \A f \in Arrays(h[q].class) : WordFor(k, q, f) = WordFor(h, q, f)
  PROVE  Owned(k, b)
<1>1. \A r, f : r \in DOMAIN h => Owner(k, r, f) = Owner(h, r, f)
  BY ClassesKept
<1>2. ASSUME NEW i \in DOMAIN b
      PROVE  \E r \in DOMAIN k : \E f \in Arrays(k[r].class) :
               /\ b[i].owner = Owner(k, r, f)
               /\ WordFor(k, r, f) = IF b[i].freed THEN <<0, -1>> ELSE <<i, b[i].size>>
  <2>1. PICK r \in DOMAIN h : \E f \in Arrays(h[r].class) :
          /\ b[i].owner = Owner(h, r, f)
          /\ WordFor(h, r, f) = IF b[i].freed THEN <<0, -1>> ELSE <<i, b[i].size>>
    BY DEF Owned
  <2>2. PICK f \in Arrays(h[r].class) :
          /\ b[i].owner = Owner(h, r, f)
          /\ WordFor(h, r, f) = IF b[i].freed THEN <<0, -1>> ELSE <<i, b[i].size>>
    BY <2>1
  <2>3. r \in DOMAIN k /\ f \in Arrays(k[r].class)
    BY DEF SameClasses
  <2>4. b[i].owner = Owner(k, r, f) /\ WordFor(k, r, f) = WordFor(h, r, f)
    BY <1>1, <2>2
  <2> QED
    BY <2>2, <2>3, <2>4
<1>3. ASSUME NEW r \in DOMAIN k, NEW f \in Arrays(k[r].class)
      PROVE  \/ WordFor(k, r, f) = <<0, -1>>
             \/ \E i \in DOMAIN b : /\ b[i].owner = Owner(k, r, f) /\ ~b[i].freed
                                    /\ WordFor(k, r, f) = <<i, b[i].size>>
  <2>1. r \in DOMAIN h /\ f \in Arrays(h[r].class)
    BY DEF SameClasses
  <2>2. \/ WordFor(h, r, f) = <<0, -1>>
        \/ \E i \in DOMAIN b : /\ b[i].owner = Owner(h, r, f) /\ ~b[i].freed
                               /\ WordFor(h, r, f) = <<i, b[i].size>>
    BY <2>1 DEF Owned
  <2>3. WordFor(k, r, f) = WordFor(h, r, f) /\ Owner(k, r, f) = Owner(h, r, f)
    BY <1>1, <2>1
  <2> QED
    BY <2>2, <2>3
<1>4. /\ b \in Seq(ToSet(b))
      /\ \A i \in DOMAIN b : /\ DOMAIN b[i] = {"owner", "size", "freed"}
                             /\ b[i].size \in Nat /\ b[i].freed \in BOOLEAN
  BY DEF Owned
<1> QED
  BY <1>2, <1>3, <1>4 DEF Owned

(* A value that may be cast to the type of a field is of that type.         *)
LEMMA CastSound ==
  ASSUME NEW class, NEW near, NEW w, Sound(class, near, w),
         NEW c \in Usable, NEW f \in Shown(c), Assignable(w, TypeOf(f), f.optional)
  PROVE  Reaches(class, TypeOf(f), w.at)
<1>t. PICK t : t = TypeOf(f)
  OBVIOUS
<1>1. CASE w.sort = "none"
  <2>1. w = Nothing
    BY <1>1 DEF Sound
  <2> QED
    BY <2>1 DEF Nothing, Value, Reaches, MayPoint
<1>2. CASE w.sort # "none"
  <2>1. Casts(w, t) /\ t = <<t[1], t[2]>>
    BY <1>2, <1>t, FieldTypes DEF Assignable
  <2>2. w.at = Null \/ Astray(<<w.sort, w.of>>, w.at) \/ Points(class, <<w.sort, w.of>>, w.at)
    BY <1>2 DEF Sound, Absent
  <2>3. CASE t[1] = "model"
    <3>1. w.sort = "model" /\ IsA(w.of, t[2]) /\ t = <<"model", t[2]>>
      BY <2>1, <2>3 DEF Casts
    <3>2. w.at = Null \/ Points(class, <<"model", w.of>>, w.at)
      <4>t. PICK q : q = <<"model", w.of>>
        OBVIOUS
      <4>1. ~Astray(q, w.at)
        BY <4>t DEF Astray
      <4> QED
        BY <2>2, <3>1, <4>t, <4>1
    <3>3. w.at = Null \/ Points(class, <<"model", t[2]>>, w.at)
      BY <3>1, <3>2, PointsToBase
    <3> QED
      BY <1>t, <3>1, <3>3 DEF Reaches, MayPoint
  <2>4. CASE t[1] # "model"
    <3>1. <<w.sort, w.of>> = t
      BY <2>1, <2>4 DEF Casts
    <3> QED
      BY <1>t, <2>2, <3>1 DEF Reaches, MayPoint
  <2> QED
    BY <2>3, <2>4
<1> QED
  BY <1>1, <1>2

(* A reference assigned through a view is right for every view of the       *)
(* record.                                                                  *)
LEMMA AssignKeeps ==
  ASSUME KeepsFields, CInv, NEW v \in Values, NEW name, NEW w \in Values \cup {Nothing},
         Assign(v, name, w)
  PROVE  CInv'
<1>f. PICK f : f = Field(v.of, name)
  OBVIOUS
<1>1. /\ IsModel(v) /\ Here(v) /\ name \in Names(v.of) /\ Kind(f) = "Ref"
      /\ Assignable(w, TypeOf(f), f.optional)
  BY <1>f DEF Assign
<1>2. CASE Fail
  BY <1>2, FailKeeps
<1>3. CASE ~Fail
  <2>r. PICK r : r = v.at[1]
    OBVIOUS
  <2>1. /\ heap' = [heap EXCEPT ![r].word[PlaceOf(v, name)] = w.at]
        /\ last' = Quiet
        /\ UNCHANGED <<phase, compiled, views, buffers, stores, self, other>>
    BY <1>3, <2>r DEF Assign
  <2>2. r \in DOMAIN heap /\ v.of \in Usable /\ f \in Shown(v.of)
    BY <1>f, <1>1, <2>r, HoldsModel, ShownFields
  <2>3. PICK g \in Shown(heap[r].class) :
          /\ Kind(g) = "Ref" /\ TypeOf(g) = TypeOf(f)
          /\ PlaceOf(v, name) = At[heap[r].class][g.name]
    BY <1>f, <1>1, <2>r, LoadsOwn
  <2>4. Reaches(ClassOf(heap), TypeOf(f), w.at)
    <3>1. Sound(ClassOf(heap), views, w)
      BY NothingSound DEF CInv
    <3> QED
      BY <1>1, <2>2, <3>1, CastSound
  <2>h. PICK h : h = heap
    OBVIOUS
  <2>k. PICK k : k = heap'
    OBVIOUS
  <2>5. /\ Shaped(h) /\ r \in DOMAIN h /\ g \in Shown(h[r].class)
        /\ k = WithWord(h, r, At[h[r].class][g.name], w.at)
    BY <2>h, <2>k, <2>1, <2>2, <2>3 DEF CInv, WithWord
  <2>6. /\ Shaped(k) /\ SameClasses(h, k) /\ WordFor(k, r, g) = w.at
        /\ \A q \in DOMAIN h : \A d \in Shown(h[q].class) :
             q # r \/ d # g => WordFor(k, q, d) = WordFor(h, q, d)
    <3>1. SetsOnly(h, WithWord(h, r, At[h[r].class][g.name], w.at), r, g, w.at)
      BY ONLY <2>5, WordSet
    <3>2. SetsOnly(h, k, r, g, w.at)
      BY <2>5, <3>1
    <3> QED
      BY ONLY <3>2 DEF SetsOnly
  <2>7. \A q \in DOMAIN h : \A d \in Arrays(h[q].class) : WordFor(k, q, d) = WordFor(h, q, d)
    <3> SUFFICES ASSUME NEW q \in DOMAIN h, NEW d \in Arrays(h[q].class)
                 PROVE  WordFor(k, q, d) = WordFor(h, q, d)
      OBVIOUS
    <3>1. Kind(d) = "Array" /\ d \in Shown(h[q].class)
      BY DEF Arrays, Shown
    <3> QED
      BY <2>3, <2>6, <3>1
  <2>8. Owned(k, buffers')
    <3>1. Owned(h, buffers)
      BY <2>h DEF CInv
    <3>2. Owned(k, buffers)
      BY <2>6, <2>7, <3>1, OwnedKept
    <3> QED
      BY <2>1, <3>2
  <2>9. Filled(ClassOf(h), k)
    <3>1. Filled(ClassOf(h), h)
      BY <2>h DEF CInv
    <3> SUFFICES ASSUME NEW q \in DOMAIN k, NEW d \in Shown(k[q].class)
                 PROVE  /\ Kind(d) \in {"Child", "Ref"} =>
                             Reaches(ClassOf(h), TypeOf(d), WordFor(k, q, d))
                        /\ Kind(d) \in {"list", "list[Ref]"} =>
                             /\ DOMAIN WordFor(k, q, d) = 1 .. Len(WordFor(k, q, d))
                             /\ \A i \in DOMAIN WordFor(k, q, d) :
                                  MayPoint(ClassOf(h), TypeOf(d), WordFor(k, q, d)[i])
                        /\ Kind(d) = "Entity" =>
                             WordFor(k, q, d) = [made |-> Created(d), type |-> HandleType(d)]
      BY DEF Filled
    <3>2. q \in DOMAIN h /\ d \in Shown(h[q].class)
      BY <2>6 DEF SameClasses
    <3>3. CASE q # r \/ d # g
      <4>1. WordFor(k, q, d) = WordFor(h, q, d)
        BY <2>6, <3>2, <3>3
      <4> QED
        BY <3>1, <3>2, <4>1 DEF Filled
    <3>4. CASE q = r /\ d = g
      <4>1. WordFor(k, q, d) = w.at /\ Kind(d) = "Ref" /\ TypeOf(d) = TypeOf(f)
        BY <2>3, <2>6, <3>4
      <4> QED
        BY <2>4, <2>h, <4>1
    <3> QED
      BY <3>3, <3>4
  <2>10. Right'
    BY <2>1, QuietRight
  <2>11. Sound(ClassOf(heap), views, self') /\ Sound(ClassOf(heap), views, other')
    BY <2>1, ValuesSound
  <2> QED
    BY <2>h, <2>k, <2>1, <2>6, <2>8, <2>9, <2>10, <2>11, WordsOnly
<1> QED
  BY <1>2, <1>3

(* A model released: the arrays of a spawned one are freed, and only those. *)
LEMMA ReleaseKeeps ==
  ASSUME CInv, NEW v \in Values, Release(v)
  PROVE  CInv'
<1>r. PICK r : r = v.at[1]
  OBVIOUS
<1>w. PICK w : w = [o \in DOMAIN heap[r].word |->
                      IF o \in Unlinked(r) THEN <<0, -1>> ELSE heap[r].word[o]]
  OBVIOUS
<1>1. /\ IsModel(v) /\ Here(v) /\ last' = Quiet /\ UNCHANGED <<phase, compiled, views, stores>>
      /\ buffers' = [i \in DOMAIN buffers |->
                       [buffers[i] EXCEPT !.freed = @ \/ i \in Dropped(r)]]
      /\ UNCHANGED <<self, other>> \/ (self' = Nothing /\ other' = Nothing)
  BY <1>r DEF Release
<1>2. heap' = [heap EXCEPT ![r].released = TRUE, ![r].word = w]
  BY <1>r, <1>w DEF Release
<1>3. r \in DOMAIN heap /\ Shaped(heap) /\ Filled(ClassOf(heap), heap) /\ Owned(heap, buffers)
  BY <1>r, <1>1, HoldsModel DEF CInv
<1>4. \A q \in DOMAIN heap :
        /\ DOMAIN heap[q] = {"class", "dynamic", "released", "word"}
        /\ heap[q].class \in Usable /\ heap[q].dynamic \in BOOLEAN /\ heap[q].released \in BOOLEAN
        /\ DOMAIN heap[q].word = Offsets(heap[q].class) /\ heap[q].class \in Classes
  BY <1>3, UsableClass DEF Shaped
<1>5. /\ DOMAIN heap' = DOMAIN heap /\ heap' = [q \in DOMAIN heap |-> heap'[q]]
      /\ \A q \in DOMAIN heap : q # r => heap'[q] = heap[q]
      /\ DOMAIN heap'[r] = {"class", "dynamic", "released", "word"}
      /\ heap'[r].class = heap[r].class /\ heap'[r].dynamic = heap[r].dynamic
      /\ heap'[r].released = TRUE /\ heap'[r].word = w
  <2>1. PICK record : record = [heap[r] EXCEPT !.released = TRUE, !.word = w]
    OBVIOUS
  <2>2. /\ DOMAIN record = {"class", "dynamic", "released", "word"}
        /\ record.class = heap[r].class /\ record.dynamic = heap[r].dynamic
        /\ record.released = TRUE /\ record.word = w
    BY <1>3, <1>4, <2>1
  <2>3. heap' = [q \in DOMAIN heap |-> IF q = r THEN record ELSE heap[q]]
    BY <1>2, <1>3, <1>4, <2>1
  <2>4. heap'[r] = record
    BY <1>3, <2>3
  <2> QED
    BY <2>2, <2>3, <2>4
<1>6. SameClasses(heap, heap')
  BY <1>5 DEF SameClasses
<1>7. Shaped(heap')
  <2>1. heap' \in Seq(ToSet(heap'))
    <3>1. heap \in Seq(ToSet(heap))
      BY <1>3 DEF Shaped
    <3> QED
      BY <1>5, <3>1, RangeKept
  <2>2. DOMAIN w = DOMAIN heap[r].word
    BY <1>w
  <2>3. \A q \in DOMAIN heap' :
          /\ DOMAIN heap'[q] = {"class", "dynamic", "released", "word"}
          /\ heap'[q].class \in Usable /\ heap'[q].dynamic \in BOOLEAN
          /\ heap'[q].released \in BOOLEAN /\ DOMAIN heap'[q].word = Offsets(heap'[q].class)
    <3> SUFFICES ASSUME NEW q \in DOMAIN heap
                 PROVE  /\ DOMAIN heap'[q] = {"class", "dynamic", "released", "word"}
                        /\ heap'[q].class \in Usable /\ heap'[q].dynamic \in BOOLEAN
                        /\ heap'[q].released \in BOOLEAN
                        /\ DOMAIN heap'[q].word = Offsets(heap'[q].class)
      BY <1>5
    <3>1. CASE q = r
      BY <1>3, <1>4, <1>5, <2>2, <3>1
    <3>2. CASE q # r
      BY <1>4, <1>5, <3>2
    <3> QED
      BY <3>1, <3>2
  <2> QED
    BY <2>1, <2>3 DEF Shaped
<1>8. \A i \in DOMAIN buffers : \E q \in DOMAIN heap : \E f \in Arrays(heap[q].class) :
        /\ buffers[i].owner = Owner(heap, q, f)
        /\ WordFor(heap, q, f) = IF buffers[i].freed THEN <<0, -1>> ELSE <<i, buffers[i].size>>
  BY <1>3 DEF Owned
<1>9. \A q, f : Owner(heap, q, f)[1] = q /\ Owner(heap, q, f)[2] = At[heap[q].class][f.name]
  BY DEF Owner
(* The words unlinked are those of arrays, and none if it was not spawned.  *)
<1>10. \A o \in Unlinked(r) : \E f \in Arrays(heap[r].class) : o = At[heap[r].class][f.name]
  BY <1>8, <1>9 DEF Unlinked, Dropped
<1>11. \A f \in Shown(heap[r].class) : At[heap[r].class][f.name] \in Offsets(heap[r].class)
  BY DEF Offsets
<1>12. ASSUME NEW q \in DOMAIN heap, NEW f \in Shown(heap[q].class)
       PROVE  WordFor(heap', q, f) =
                IF q = r /\ At[heap[r].class][f.name] \in Unlinked(r) THEN <<0, -1>>
                                                                      ELSE WordFor(heap, q, f)
  <2>1. CASE q # r
    BY <1>5, <2>1 DEF WordFor
  <2>2. CASE q = r
    <3>1. At[heap[r].class][f.name] \in DOMAIN heap[r].word
      BY <1>3, <1>4, <1>11, <2>2
    <3> QED
      BY <1>5, <1>w, <2>2, <3>1 DEF WordFor
  <2> QED
    BY <2>1, <2>2
<1>13. \A q \in DOMAIN heap : \A f \in Shown(heap[q].class) :
         Kind(f) # "Array" => WordFor(heap', q, f) = WordFor(heap, q, f)
  <2> SUFFICES ASSUME NEW q \in DOMAIN heap, NEW f \in Shown(heap[q].class), Kind(f) # "Array"
               PROVE  WordFor(heap', q, f) = WordFor(heap, q, f)
    OBVIOUS
  <2>1. q = r => At[heap[r].class][f.name] \notin Unlinked(r)
    <3> SUFFICES ASSUME q = r, At[heap[r].class][f.name] \in Unlinked(r) PROVE FALSE
      OBVIOUS
    <3>1. PICK g \in Arrays(heap[r].class) :
            At[heap[r].class][f.name] = At[heap[r].class][g.name]
      BY <1>10
    <3>2. g \in Shown(heap[r].class) /\ Kind(g) = "Array"
      BY DEF Arrays, Shown
    <3> QED
      BY <1>3, <1>4, <3>1, <3>2, ShownFields
  <2> QED
    BY <1>12, <2>1
<1>14. Filled(ClassOf(heap), heap')
  <2>1. \A f : Kind(f) \in {"Child", "Ref", "list", "list[Ref]", "Entity"} => Kind(f) # "Array"
    OBVIOUS
  <2> SUFFICES ASSUME NEW q \in DOMAIN heap', NEW d \in Shown(heap'[q].class)
               PROVE  /\ Kind(d) \in {"Child", "Ref"} =>
                           Reaches(ClassOf(heap), TypeOf(d), WordFor(heap', q, d))
                      /\ Kind(d) \in {"list", "list[Ref]"} =>
                           /\ DOMAIN WordFor(heap', q, d) = 1 .. Len(WordFor(heap', q, d))
                           /\ \A i \in DOMAIN WordFor(heap', q, d) :
                                MayPoint(ClassOf(heap), TypeOf(d), WordFor(heap', q, d)[i])
                      /\ Kind(d) = "Entity" =>
                           WordFor(heap', q, d) = [made |-> Created(d), type |-> HandleType(d)]
    BY DEF Filled
  <2>2. q \in DOMAIN heap /\ d \in Shown(heap[q].class)
    BY <1>6 DEF SameClasses
  <2>3. Kind(d) # "Array" => WordFor(heap', q, d) = WordFor(heap, q, d)
    BY <1>13, <2>2
  <2> QED
    BY <1>3, <2>2, <2>3 DEF Filled
<1>15. Owned(heap', buffers')
  <2>c. \A q, f : q \in DOMAIN heap => Owner(heap', q, f) = Owner(heap, q, f)
    BY <1>6, ClassesKept
  <2>s. \A q \in DOMAIN heap : \A f \in Arrays(heap[q].class) : f \in Shown(heap[q].class)
    BY DEF Arrays, Shown
  <2>1. \A i \in DOMAIN buffers :
          /\ DOMAIN buffers[i] = {"owner", "size", "freed"}
          /\ buffers[i].size \in Nat /\ buffers[i].freed \in BOOLEAN
    BY <1>3 DEF Owned
  <2>2. /\ DOMAIN buffers' = DOMAIN buffers /\ buffers' = [i \in DOMAIN buffers |-> buffers'[i]]
        /\ \A i \in DOMAIN buffers :
             /\ DOMAIN buffers'[i] = {"owner", "size", "freed"}
             /\ buffers'[i].owner = buffers[i].owner /\ buffers'[i].size = buffers[i].size
             /\ buffers'[i].freed = (buffers[i].freed \/ i \in Dropped(r))
    BY <1>1, <2>1
  <2>3. buffers' \in Seq(ToSet(buffers'))
    <3>1. buffers \in Seq(ToSet(buffers))
      BY <1>3 DEF Owned
    <3> QED
      BY <2>2, <3>1, RangeKept
  <2>4. ASSUME NEW i \in DOMAIN buffers
        PROVE  \E q \in DOMAIN heap' : \E f \in Arrays(heap'[q].class) :
                 /\ buffers'[i].owner = Owner(heap', q, f)
                 /\ WordFor(heap', q, f) = IF buffers'[i].freed THEN <<0, -1>>
                                                                ELSE <<i, buffers'[i].size>>
    <3>1. PICK q \in DOMAIN heap : \E f \in Arrays(heap[q].class) :
            /\ buffers[i].owner = Owner(heap, q, f)
            /\ WordFor(heap, q, f) = IF buffers[i].freed THEN <<0, -1>> ELSE <<i, buffers[i].size>>
      BY <1>8
    <3>2. PICK f \in Arrays(heap[q].class) :
            /\ buffers[i].owner = Owner(heap, q, f)
            /\ WordFor(heap, q, f) = IF buffers[i].freed THEN <<0, -1>> ELSE <<i, buffers[i].size>>
      BY <3>1
    <3>3. /\ q \in DOMAIN heap' /\ f \in Arrays(heap'[q].class)
          /\ buffers'[i].owner = Owner(heap', q, f)
      BY <1>6, <2>2, <2>c, <3>2 DEF SameClasses
    <3>4. WordFor(heap', q, f) = IF buffers'[i].freed THEN <<0, -1>> ELSE <<i, buffers'[i].size>>
      <4>1. CASE i \in Dropped(r)
        <5>1. q = r /\ At[heap[r].class][f.name] \in Unlinked(r)
          BY <1>9, <3>2, <4>1 DEF Dropped, Unlinked
        <5> QED
          BY <1>12, <2>2, <2>s, <4>1, <5>1
      <4>2. CASE i \notin Dropped(r)
        <5>1. buffers'[i].freed = buffers[i].freed
          BY <2>1, <2>2, <4>2
        <5>2. CASE ~(q = r /\ At[heap[r].class][f.name] \in Unlinked(r))
          <6>1. WordFor(heap', q, f) = WordFor(heap, q, f)
            BY <1>12, <2>s, <5>2
          <6> QED
            BY <2>2, <3>2, <5>1, <6>1
        (* Another buffer of that word is dropped: neither is in use.       *)
        <5>3. CASE q = r /\ At[heap[r].class][f.name] \in Unlinked(r)
          <6>1. PICK j \in Dropped(r) : buffers[j].owner[2] = At[heap[r].class][f.name]
            BY <5>3 DEF Unlinked
          <6>2. j \in DOMAIN buffers /\ buffers[j].owner[1] = r /\ i # j
            BY <4>2, <6>1 DEF Dropped
          <6>3. PICK p \in DOMAIN heap : \E g \in Arrays(heap[p].class) :
                  /\ buffers[j].owner = Owner(heap, p, g)
                  /\ WordFor(heap, p, g) = IF buffers[j].freed THEN <<0, -1>>
                                                               ELSE <<j, buffers[j].size>>
            BY <1>8, <6>2
          <6>4. PICK g \in Arrays(heap[p].class) :
                  /\ buffers[j].owner = Owner(heap, p, g)
                  /\ WordFor(heap, p, g) = IF buffers[j].freed THEN <<0, -1>>
                                                               ELSE <<j, buffers[j].size>>
            BY <6>3
          <6>5. p = r /\ At[heap[r].class][g.name] = At[heap[r].class][f.name]
            BY <1>9, <6>1, <6>2, <6>4
          <6>6. WordFor(heap, q, f) = WordFor(heap, p, g)
            BY <5>3, <6>5 DEF WordFor
          <6>7. buffers[i].freed
            <7>1. PICK x : x = WordFor(heap, q, f)
              OBVIOUS
            <7>2. /\ buffers[i].freed \in BOOLEAN /\ buffers[i].size \in Nat
                  /\ buffers[j].freed \in BOOLEAN
              BY <2>1, <6>2
            <7>3. ~buffers[i].freed => x[1] = i /\ x[2] = buffers[i].size
              BY <3>2, <7>1
            <7>4. /\ buffers[j].freed => x[2] = -1
                  /\ ~buffers[j].freed => x[1] = j
              BY <6>4, <6>6, <7>1
            <7> QED
              BY <6>2, <7>2, <7>3, <7>4
          <6>8. WordFor(heap', q, f) = <<0, -1>>
            BY <1>12, <2>s, <5>3
          <6> QED
            BY <5>1, <6>7, <6>8
        <5> QED
          BY <5>2, <5>3
      <4> QED
        BY <4>1, <4>2
    <3> QED
      BY <3>3, <3>4
  <2>5. ASSUME NEW q \in DOMAIN heap', NEW f \in Arrays(heap'[q].class)
        PROVE  \/ WordFor(heap', q, f) = <<0, -1>>
               \/ \E i \in DOMAIN buffers' :
                    /\ buffers'[i].owner = Owner(heap', q, f) /\ ~buffers'[i].freed
                    /\ WordFor(heap', q, f) = <<i, buffers'[i].size>>
    <3>1. q \in DOMAIN heap /\ f \in Arrays(heap[q].class)
      BY <1>6 DEF SameClasses
    <3>2. CASE q = r /\ At[heap[r].class][f.name] \in Unlinked(r)
      BY <1>12, <2>s, <3>1, <3>2
    <3>3. CASE ~(q = r /\ At[heap[r].class][f.name] \in Unlinked(r))
      <4>1. WordFor(heap', q, f) = WordFor(heap, q, f)
        BY <1>12, <2>s, <3>1, <3>3
      <4>2. CASE WordFor(heap, q, f) = <<0, -1>>
        BY <4>1, <4>2
      <4>3. CASE WordFor(heap, q, f) # <<0, -1>>
        <5>1. PICK i \in DOMAIN buffers :
                /\ buffers[i].owner = Owner(heap, q, f) /\ ~buffers[i].freed
                /\ WordFor(heap, q, f) = <<i, buffers[i].size>>
          BY <1>3, <3>1, <4>3 DEF Owned
        <5>2. i \notin Dropped(r)
          BY <1>9, <3>3, <5>1 DEF Dropped, Unlinked
        <5>3. ~buffers'[i].freed
          BY <2>2, <5>1, <5>2
        <5> QED
          BY <2>2, <2>c, <3>1, <4>1, <5>1, <5>3
      <4> QED
        BY <4>2, <4>3
    <3> QED
      BY <3>2, <3>3
  <2>6. \A i \in DOMAIN buffers' : /\ DOMAIN buffers'[i] = {"owner", "size", "freed"}
                                   /\ buffers'[i].size \in Nat /\ buffers'[i].freed \in BOOLEAN
    BY <2>1, <2>2
  <2> QED
    BY <2>2, <2>3, <2>4, <2>5, <2>6 DEF Owned
<1>16. Sound(ClassOf(heap), views, self') /\ Sound(ClassOf(heap), views, other')
  BY <1>1, ValuesSound, NothingSound
<1>17. Right'
  BY <1>1, QuietRight
<1> QED
  BY <1>1, <1>6, <1>7, <1>14, <1>15, <1>16, <1>17, WordsOnly

(* What a handle of a store of models has been filled with.                 *)
LEMMA StoreOf ==
  ASSUME CInv, NEW v \in Values, IsStore(v), Here(v)
  PROVE  /\ v.of \in Classes /\ v.at \in DOMAIN stores
         /\ stores[v.at] \in Seq(ToSet(stores[v.at]))
         /\ \A i \in DOMAIN stores[v.at] :
              MayPoint(ClassOf(heap), <<"model", v.of>>, stores[v.at][i])
         /\ \E r \in DOMAIN heap : \E f \in Shown(heap[r].class) :
              Kind(f) = "Entity" /\ IsQueue(f) /\ v.at = Owner(heap, r, f) /\ f.arg = v.of
<1>p. PICK p : p = v.at
  OBVIOUS
<1>t. PICK t : t = <<v.sort, v.of>>
  OBVIOUS
<1>1. t[1] = v.sort /\ t[2] = v.of
  BY <1>t
<1>2. /\ v.sort \in {"store_model", "priority_model"} /\ ~v.optional
      /\ Points(ClassOf(heap), t, p)
  <2>1. v.sort # "none"
    BY DEF IsStore
  <2> QED
    BY <1>p, <1>t, <2>1, HereIsSound DEF IsStore
<1>r. PICK r : r = p[1]
  OBVIOUS
<1>3. p = <<r, p[2]>> /\ r \in DOMAIN heap
  BY <1>2, <1>r DEF Points, ClassOf
<1>4. PICK f \in Shown(heap[r].class) : /\ Kind(f) \in {"Entity", "Array"}
                                        /\ At[heap[r].class][f.name] = p[2] /\ TypeOf(f) = t
  <2>1. t[1] # "model"
    BY <1>1, <1>2
  <2>2. \E f \in Shown(ClassOf(heap)[p[1]]) :
          /\ Kind(f) \in {"Entity", "Array"}
          /\ At[ClassOf(heap)[p[1]]][f.name] = p[2] /\ TypeOf(f) = t
    BY <1>2, <2>1 DEF Points
  <2> QED
    BY <1>r, <1>3, <2>2 DEF ClassOf
<1>5. Shaped(heap) /\ Stocked(heap, stores)
  BY DEF CInv
<1>6. heap[r].class \in Usable /\ heap[r].class \in Classes
  BY <1>3, <1>5, UsableClass DEF Shaped
<1>7. Kind(f) = "Entity" /\ IsQueue(f) /\ f.arg \in Classes /\ f.arg = v.of
  <2>1. Kind(f) # "Array"
    BY <1>1, <1>2, <1>4, <1>6, FieldTypes
  <2>2. /\ f.origin \in {"Store", "PriorityStore"} /\ f.arg \in Classes
        /\ TypeOf(f)[2] = f.arg
    BY <1>1, <1>2, <1>4, <1>6, <2>1, FieldTypes
  <2> QED
    BY <1>1, <1>4, <2>1, <2>2 DEF IsQueue
<1>8. p = Owner(heap, r, f)
  BY <1>3, <1>4 DEF Owner
<1>9. p \in DOMAIN stores
  BY <1>3, <1>5, <1>7, <1>8 DEF Stocked
<1>10. PICK q \in DOMAIN heap : \E g \in Shown(heap[q].class) :
         /\ Kind(g) = "Entity" /\ IsQueue(g) /\ p = Owner(heap, q, g)
         /\ \A i \in DOMAIN stores[p] : MayPoint(ClassOf(heap), <<"model", g.arg>>, stores[p][i])
  BY <1>5, <1>9 DEF Stocked
<1>11. PICK g \in Shown(heap[q].class) :
         /\ Kind(g) = "Entity" /\ IsQueue(g) /\ p = Owner(heap, q, g)
         /\ \A i \in DOMAIN stores[p] : MayPoint(ClassOf(heap), <<"model", g.arg>>, stores[p][i])
  BY <1>10
<1>12. g = f
  <2>1. q = r /\ At[heap[q].class][g.name] = At[heap[r].class][f.name]
    BY <1>8, <1>11 DEF Owner
  <2> QED
    BY <1>6, <2>1, ShownFields
<1>13. stores[p] \in Seq(ToSet(stores[p]))
  BY <1>5, <1>9 DEF Stocked
<1> QED
  BY <1>p, <1>3, <1>7, <1>8, <1>9, <1>11, <1>12, <1>13

(* A store filled with other models of its class.                           *)
LEMMA Restocked ==
  ASSUME NEW h, NEW s, Stocked(h, s), NEW r \in DOMAIN h, NEW f \in Shown(h[r].class),
         Kind(f) = "Entity", IsQueue(f), NEW p \in DOMAIN s, p = Owner(h, r, f),
         NEW items, items \in Seq(ToSet(items)),
         \A i \in DOMAIN items : MayPoint(ClassOf(h), <<"model", f.arg>>, items[i])
  PROVE  Stocked(h, [s EXCEPT ![p] = items])
<1>t. PICK t : t = [s EXCEPT ![p] = items]
  OBVIOUS
<1>1. DOMAIN t = DOMAIN s /\ t[p] = items /\ \A q \in DOMAIN s : q # p => t[q] = s[q]
  BY <1>t
<1>2. \A q \in DOMAIN h : \A g \in Shown(h[q].class) : IsQueue(g) => Owner(h, q, g) \in DOMAIN t
  BY <1>1 DEF Stocked
<1>3. ASSUME NEW q \in DOMAIN t
      PROVE  \E n \in DOMAIN h : \E g \in Shown(h[n].class) :
               /\ Kind(g) = "Entity" /\ IsQueue(g) /\ q = Owner(h, n, g)
               /\ \A i \in DOMAIN t[q] : MayPoint(ClassOf(h), <<"model", g.arg>>, t[q][i])
  <2>1. CASE q = p
    BY <1>1, <2>1
  <2>2. CASE q # p
    BY <1>1, <2>2 DEF Stocked
  <2> QED
    BY <2>1, <2>2
<1>4. \A q \in DOMAIN t : t[q] \in Seq(ToSet(t[q]))
  <2> SUFFICES ASSUME NEW q \in DOMAIN t PROVE t[q] \in Seq(ToSet(t[q]))
    OBVIOUS
  <2>1. CASE q = p
    BY <1>1, <2>1
  <2>2. CASE q # p
    BY <1>1, <2>2 DEF Stocked
  <2> QED
    BY <2>1, <2>2
<1>5. Stocked(h, t)
  BY <1>2, <1>3, <1>4 DEF Stocked
<1> QED
  BY <1>t, <1>5

(* More views of usable classes, with all that these expose.                *)
LEMMA ViewsGrow ==
  ASSUME CInv, NEW c \in Classes, Registered[c] \subseteq Usable, views' = views \cup Registered[c]
  PROVE  /\ views \subseteq views' /\ views' \subseteq Usable /\ c \in views'
         /\ \A d \in views' : Exposed[d] \subseteq views'
<1>1. /\ c \in Registered[c]
      /\ \A d \in Registered[c] : Exposed[d] \subseteq Registered[c]
  BY RegisteredClosed
<1>2. views \subseteq Usable /\ \A d \in views : Exposed[d] \subseteq views
  BY DEF CInv, Known
<1> QED
  BY <1>1, <1>2

(* A step that changes one store, and what code can see.                    *)
LEMMA StoresOnly ==
  ASSUME CInv, UNCHANGED <<phase, compiled, heap, buffers>>, Right', Stocked(heap, stores'),
         views \subseteq views', views' \subseteq Usable, \A c \in views' : Exposed[c] \subseteq views',
         Sound(ClassOf(heap), views', self'), Sound(ClassOf(heap), views', other')
  PROVE  CInv'
<1>1. Known'
  BY DEF CInv, Known
<1>2. /\ Shaped(heap') /\ Filled(ClassOf(heap'), heap') /\ Owned(heap', buffers')
      /\ Stocked(heap', stores')
  BY DEF CInv
<1>3. \A v \in Values' : Sound(ClassOf(heap'), views', v)
  BY DEF Values
<1> QED
  BY <1>1, <1>2, <1>3 DEF CInv

(* A model put is of the class that the store was declared for, or missing. *)
LEMMA PutKeeps ==
  ASSUME CInv, NEW w \in Values, PutModel(other, w)
  PROVE  CInv'
<1>v. PICK v : v = other
  OBVIOUS
<1>1. /\ IsStore(v) /\ Here(v) /\ IsModel(w) /\ IsA(w.of, v.of) /\ v \in Values
      /\ Registered[v.of] \subseteq Usable /\ last' = Quiet
      /\ views' = views \cup Registered[v.of]
      /\ UNCHANGED <<phase, compiled, heap, buffers, self, other>>
  BY <1>v DEF PutModel, Values
<1>s. PICK s : s = stores[v.at]
  OBVIOUS
<1>2. stores' = [stores EXCEPT ![v.at] = Append(s, w.at)]
  BY <1>v, <1>s DEF PutModel
<1>3. /\ v.of \in Classes /\ v.at \in DOMAIN stores /\ s \in Seq(ToSet(s))
      /\ \A i \in DOMAIN s : MayPoint(ClassOf(heap), <<"model", v.of>>, s[i])
  BY <1>1, <1>s, StoreOf
<1>4. PICK r \in DOMAIN heap : \E f \in Shown(heap[r].class) :
        Kind(f) = "Entity" /\ IsQueue(f) /\ v.at = Owner(heap, r, f) /\ f.arg = v.of
  BY <1>1, StoreOf
<1>5. PICK f \in Shown(heap[r].class) :
        Kind(f) = "Entity" /\ IsQueue(f) /\ v.at = Owner(heap, r, f) /\ f.arg = v.of
  BY <1>4
<1>6. MayPoint(ClassOf(heap), <<"model", v.of>>, w.at)
  BY <1>1, HoldsSome, PointsToBase DEF MayPoint
<1>i. PICK items : items = Append(s, w.at)
  OBVIOUS
<1>7. /\ items \in Seq(ToSet(items))
      /\ \A i \in DOMAIN items : MayPoint(ClassOf(heap), <<"model", v.of>>, items[i])
  <2>1. /\ items \in Seq(ToSet(items)) /\ Len(s) \in Nat
        /\ DOMAIN s = 1 .. Len(s) /\ DOMAIN items = 1 .. Len(s) + 1
        /\ \A i \in 1 .. Len(s) : items[i] = s[i]
        /\ items[Len(s) + 1] = w.at
    BY ONLY <1>i, <1>3, AppendHas
  <2>2. \A i \in DOMAIN items : i \in 1 .. Len(s) \/ i = Len(s) + 1
    BY <2>1
  <2> QED
    BY <1>3, <1>6, <2>1, <2>2
<1>8. Stocked(heap, stores')
  <2>1. Stocked(heap, stores)
    BY DEF CInv
  <2>2. \A i \in DOMAIN items : MayPoint(ClassOf(heap), <<"model", f.arg>>, items[i])
    BY <1>5, <1>7
  <2>3. Stocked(heap, [stores EXCEPT ![v.at] = items])
    BY <1>3, <1>5, <1>7, <2>1, <2>2, Restocked
  <2> QED
    BY <1>2, <1>i, <2>3
<1>9. /\ views \subseteq views' /\ views' \subseteq Usable
      /\ \A d \in views' : Exposed[d] \subseteq views'
  BY <1>1, <1>3, ViewsGrow
<1>10. Sound(ClassOf(heap), views', self') /\ Sound(ClassOf(heap), views', other')
  BY <1>1, <1>9, ValuesSound, SoundStays
<1> QED
  BY <1>1, <1>8, <1>9, <1>10, QuietRight, StoresOnly

(* A model got is one that was put, or missing.                             *)
LEMMA GetKeeps ==
  ASSUME CInv, GetModel(other)
  PROVE  CInv'
<1>v. PICK v : v = other
  OBVIOUS
<1>s. PICK s : s = stores[v.at]
  OBVIOUS
<1>1. /\ IsStore(v) /\ Here(v) /\ v \in Values
      /\ Registered[v.of] \subseteq Usable /\ last' = Quiet
      /\ views' = views \cup Registered[v.of]
      /\ UNCHANGED <<phase, compiled, heap, buffers, self>>
  BY <1>v DEF GetModel, Values
<1>3. /\ v.of \in Classes /\ v.at \in DOMAIN stores /\ s \in Seq(ToSet(s))
      /\ \A n \in DOMAIN s : MayPoint(ClassOf(heap), <<"model", v.of>>, s[n])
  BY <1>1, <1>s, StoreOf
<1>4. PICK r \in DOMAIN heap : \E f \in Shown(heap[r].class) :
        Kind(f) = "Entity" /\ IsQueue(f) /\ v.at = Owner(heap, r, f) /\ f.arg = v.of
  BY <1>1, StoreOf
<1>5. PICK f \in Shown(heap[r].class) :
        Kind(f) = "Entity" /\ IsQueue(f) /\ v.at = Owner(heap, r, f) /\ f.arg = v.of
  BY <1>4
<1>6. /\ views \subseteq views' /\ views' \subseteq Usable /\ v.of \in views'
      /\ \A d \in views' : Exposed[d] \subseteq views'
  BY <1>1, <1>3, ViewsGrow
<1>7. Sound(ClassOf(heap), views', self')
  BY <1>1, <1>6, ValuesSound, SoundStays
<1>w. PICK w : w = other'
  OBVIOUS
<1>t. PICK t : t = <<"model", v.of>>
  OBVIOUS
<1>8. t[1] = "model" /\ t[2] = v.of
  BY <1>t
<1>9. ASSUME NEW p, other' = Unchecked(<<"model", v.of>>, p), MayPoint(ClassOf(heap), t, p)
      PROVE  Sound(ClassOf(heap), views', other')
  <2>1. w.sort = "model" /\ w.of = v.of /\ w.at = p
    BY <1>w, <1>t, <1>8, <1>9, UncheckedHas
  <2>2. w.unchecked = TRUE /\ IsValue(w)
    BY <1>w, <1>9, UncheckedIs
  <2> QED
    BY <1>w, <1>t, <1>6, <1>9, <2>1, <2>2, ModelSeen DEF MayPoint
<1>10. CASE other' = Unchecked(<<"model", v.of>>, Null) /\ UNCHANGED stores
  <2>1. Sound(ClassOf(heap), views', other')
    BY <1>9, <1>10 DEF MayPoint
  <2>2. Stocked(heap, stores')
    BY <1>10 DEF CInv
  <2> QED
    BY <1>1, <1>6, <1>7, <2>1, <2>2, QuietRight, StoresOnly
<1>11. ASSUME NEW i \in DOMAIN s, other' = Unchecked(<<"model", v.of>>, s[i]),
              stores' = [stores EXCEPT ![v.at] = SubSeq(s, 1, i - 1) \o SubSeq(s, i + 1, Len(s))]
       PROVE  CInv'
  <2>i. PICK items : items = SubSeq(s, 1, i - 1) \o SubSeq(s, i + 1, Len(s))
    OBVIOUS
  <2>4. /\ items \in Seq(ToSet(items))
        /\ \A n \in DOMAIN items : MayPoint(ClassOf(heap), <<"model", f.arg>>, items[n])
    <3>1. items \in Seq(ToSet(s))
      <4>1. i \in 1 .. Len(s) /\ Len(s) \in Nat
        BY <1>3
      <4>2. SubSeq(s, 1, i - 1) \in Seq(ToSet(s)) /\ SubSeq(s, i + 1, Len(s)) \in Seq(ToSet(s))
        BY <1>3, <4>1
      <4> QED
        BY <2>i, <4>2
    <3>2. items \in Seq(ToSet(items)) /\ ToSet(items) \subseteq ToSet(s)
      BY ONLY <3>1, OwnMembers
    <3> QED
      BY <1>3, <1>5, <3>2 DEF ToSet
  <2>5. Stocked(heap, stores')
    <3>1. Stocked(heap, stores)
      BY DEF CInv
    <3>3. Stocked(heap, [stores EXCEPT ![v.at] = items])
      BY <1>3, <1>5, <2>4, <3>1, Restocked
    <3> QED
      BY <1>11, <2>i, <3>3
  <2>6. Sound(ClassOf(heap), views', other')
    BY <1>t, <1>3, <1>9, <1>11
  <2> QED
    BY <1>1, <1>6, <1>7, <2>5, <2>6, QuietRight, StoresOnly
<1> QED
  BY <1>v, <1>s, <1>10, <1>11 DEF GetModel

(* Compiling the class of a record registers what its code can come to hold. *)
LEMMA EnsureKeeps ==
  ASSUME CInv, NEW c \in Usable, Ensure(c)
  PROVE  CInv'
<1>1. /\ phase = "prepare" /\ compiled' = compiled \cup {c}
      /\ views' = views \cup Registered[c]
      /\ phase' = IF {heap[r].class : r \in DOMAIN heap} \subseteq compiled' THEN "trial" ELSE phase
      /\ UNCHANGED <<heap, buffers, stores, self, other, last>>
      /\ c \in {heap[r].class : r \in DOMAIN heap}
  BY DEF Ensure
<1>2. c \in Classes /\ Registered[c] \subseteq Usable
  BY <1>1, UsableClass DEF CInv, Known
<1>3. /\ views \subseteq views' /\ views' \subseteq Usable /\ c \in views'
      /\ \A d \in views' : Exposed[d] \subseteq views'
  BY <1>1, <1>2, ViewsGrow
<1>4. Known'
  BY <1>1, <1>3 DEF CInv, Known
<1>5. Right'
  BY <1>1 DEF CInv, Right, DispatchSound, KindsMatch, ElementSafe
<1>6. /\ Shaped(heap') /\ Filled(ClassOf(heap'), heap') /\ Owned(heap', buffers')
      /\ Stocked(heap', stores')
  BY <1>1 DEF CInv
<1>7. \A v \in Values' : Sound(ClassOf(heap'), views', v)
  BY <1>1, <1>3, ValuesSound, SoundStays DEF Values
<1> QED
  BY <1>4, <1>5, <1>6, <1>7 DEF CInv

-----------------------------------------------------------------------------
(* Records added, with the elements of their arrays *)

(* A class has finitely many arrays.                                        *)
LEMMA ArraysFinite ==
  ASSUME NEW c \in Classes
  PROVE  IsFiniteSet(Arrays(c)) /\ Cardinality(Arrays(c)) \in Nat
<1>f. PICK F : F = FieldsOf[c]
  OBVIOUS
<1>1. F \in Seq(ToSet(F))
  BY <1>f, FieldsNamed
<1>2. DOMAIN F = 1 .. Len(F) /\ Len(F) \in Nat
  BY <1>1
<1>3. F \in Surjection(1 .. Len(F), ToSet(F))
  <2>1. F \in [1 .. Len(F) -> ToSet(F)]
    BY <1>1, <1>2 DEF ToSet
  <2>2. \A x \in ToSet(F) : \E i \in 1 .. Len(F) : F[i] = x
    BY <1>2 DEF ToSet
  <2> QED
    BY <2>1, <2>2 DEF Surjection
<1>4. IsFiniteSet(ToSet(F))
  <2>1. IsFiniteSet(1 .. Len(F))
    BY <1>2, FS_Interval
  <2> QED
    BY <1>3, <2>1, FS_Surjection
<1>5. Arrays(c) \in SUBSET ToSet(F)
  BY <1>f DEF Arrays
<1> QED
  BY <1>4, <1>5, FS_Subset, FS_CardinalityType

(* The arrays of a class are numbered from one, each once.                  *)
LEMMA OrdinalHas ==
  ASSUME NEW c \in Classes
  PROVE  /\ \A f \in Arrays(c) : Ordinal(c, f) \in 1 .. Cardinality(Arrays(c))
         /\ \A f, g \in Arrays(c) : Ordinal(c, f) = Ordinal(c, g) => f = g
         /\ \A i \in 1 .. Cardinality(Arrays(c)) : \E f \in Arrays(c) : Ordinal(c, f) = i
<1>a. PICK A : A = Arrays(c)
  OBVIOUS
<1>n. PICK N : N = Cardinality(A)
  OBVIOUS
<1>1. IsFiniteSet(A) /\ N \in Nat
  BY <1>a, <1>n, ArraysFinite
<1>2. /\ \A f \in A : At[c][f.name] \in Nat
      /\ \A f, g \in A : At[c][f.name] = At[c][g.name] => f = g
  BY <1>a, ShownFields
<1> DEFINE Upto(f) == {g \in A : At[c][g.name] <= At[c][f.name]}
<1>3. \A f \in A : Ordinal(c, f) = Cardinality(Upto(f))
  BY <1>a DEF Ordinal
<1>4. \A f \in A : /\ Upto(f) \in SUBSET A /\ f \in Upto(f) /\ IsFiniteSet(Upto(f))
                   /\ Cardinality(Upto(f)) \in Nat /\ Cardinality(Upto(f)) <= N
                   /\ Cardinality(Upto(f)) # 0
  <2> SUFFICES ASSUME NEW f \in A
               PROVE  /\ Upto(f) \in SUBSET A /\ f \in Upto(f) /\ IsFiniteSet(Upto(f))
                      /\ Cardinality(Upto(f)) \in Nat /\ Cardinality(Upto(f)) <= N
                      /\ Cardinality(Upto(f)) # 0
    OBVIOUS
  <2>1. Upto(f) \in SUBSET A /\ f \in Upto(f)
    BY <1>2
  <2> HIDE DEF Upto
  <2>2. /\ IsFiniteSet(Upto(f)) /\ Cardinality(Upto(f)) \in Nat /\ Cardinality(Upto(f)) <= N
    BY <1>1, <1>n, <2>1, FS_Subset, FS_CardinalityType
  <2>3. Cardinality(Upto(f)) # 0
    BY <2>1, <2>2, FS_EmptySet
  <2> QED
    BY <2>1, <2>2, <2>3
<1>5. ASSUME NEW f \in A, NEW g \in A, At[c][f.name] < At[c][g.name]
      PROVE  Cardinality(Upto(f)) < Cardinality(Upto(g))
  <2>1. Upto(f) \in SUBSET Upto(g) /\ g \notin Upto(f)
    BY <1>2, <1>5
  <2> HIDE DEF Upto
  <2>2. Cardinality(Upto(f)) <= Cardinality(Upto(g)) /\ Upto(f) # Upto(g)
    BY <1>4, <2>1, FS_Subset
  <2>3. Cardinality(Upto(f)) # Cardinality(Upto(g))
    BY <1>4, <2>1, <2>2, FS_Subset
  <2> QED
    BY <1>4, <2>2, <2>3
<1> DEFINE rank == [f \in A |-> Cardinality(Upto(f))]
<1> HIDE DEF Upto
<1>6. \A f, g \in A : rank[f] = rank[g] => f = g
  <2> SUFFICES ASSUME NEW f \in A, NEW g \in A, rank[f] = rank[g] PROVE f = g
    OBVIOUS
  <2>1. ~(At[c][f.name] < At[c][g.name])
    BY <1>4, <1>5
  <2>2. ~(At[c][g.name] < At[c][f.name])
    BY <1>4, <1>5
  <2>3. At[c][f.name] = At[c][g.name]
    BY <1>2, <2>1, <2>2
  <2> QED
    BY <1>2, <2>3
<1>7. \A f \in A : rank[f] \in 1 .. N
  BY <1>1, <1>4
<1>8. rank \in Injection(A, 1 .. N)
  BY <1>6, <1>7 DEF Injection, IsInjective
<1>9. rank \in Surjection(A, 1 .. N)
  <2>1. IsFiniteSet(1 .. N) /\ Cardinality(1 .. N) = N
    BY <1>1, FS_Interval
  <2> HIDE DEF rank
  <2> QED
    BY <1>8, <1>n, <2>1, FS_Injection
<1>10. \A i \in 1 .. N : \E f \in A : rank[f] = i
  BY <1>9 DEF Surjection
<1>11. \A f \in A : rank[f] = Ordinal(c, f)
  BY <1>3
<1> HIDE DEF rank
<1> QED
  BY <1>a, <1>n, <1>6, <1>7, <1>10, <1>11

(* What a concatenation has, element by element.                            *)
LEMMA ConcatIs ==
  ASSUME NEW s, s \in Seq(ToSet(s)), NEW t, t \in Seq(ToSet(t))
  PROVE  /\ s \o t \in Seq(ToSet(s \o t)) /\ Len(s) \in Nat /\ Len(t) \in Nat
         /\ DOMAIN s = 1 .. Len(s) /\ DOMAIN t = 1 .. Len(t)
         /\ DOMAIN (s \o t) = 1 .. Len(s) + Len(t) /\ Len(s \o t) = Len(s) + Len(t)
         /\ \A i \in 1 .. Len(s) : (s \o t)[i] = s[i]
         /\ \A i \in 1 .. Len(t) : (s \o t)[Len(s) + i] = t[i]
<1>u. PICK u : u = s \o t
  OBVIOUS
<1>s. PICK S : S = ToSet(s) \cup ToSet(t)
  OBVIOUS
<1>1. s \in Seq(S) /\ t \in Seq(S)
  BY <1>s, SeqMonotonic
<1>2. /\ u \in Seq(S) /\ Len(s) \in Nat /\ Len(t) \in Nat
      /\ DOMAIN s = 1 .. Len(s) /\ DOMAIN t = 1 .. Len(t)
      /\ DOMAIN u = 1 .. Len(s) + Len(t) /\ Len(u) = Len(s) + Len(t)
      /\ \A i \in 1 .. Len(s) : u[i] = s[i]
      /\ \A i \in 1 .. Len(t) : u[Len(s) + i] = t[i]
  BY <1>u, <1>1
<1>3. u \in Seq(ToSet(u))
  BY <1>2, OwnMembers
<1> QED
  BY <1>u, <1>2, <1>3

(* A new record has its class's words, each as it is given.                 *)
IsNew(record, r, c, dynamic, given, buffer) ==
  /\ DOMAIN record = {"class", "dynamic", "released", "word"}
  /\ record.class = c /\ record.dynamic = dynamic /\ record.released = FALSE
  /\ DOMAIN record.word = Offsets(c)
  /\ \A f \in Shown(c) : record.word[At[c][f.name]] = WordOf(r, f, given, buffer)

(* The record that NewRecord makes has the words of its class.              *)
LEMMA NewRecordHas ==
  ASSUME NEW r, NEW c \in Classes, NEW dynamic, NEW given, NEW buffer
  PROVE  IsNew(NewRecord(r, c, dynamic, given, buffer), r, c, dynamic, given, buffer)
<1>w. PICK w : w = [o \in {At[c][f.name] : f \in Shown(c)} |->
                      WordOf(r, CHOOSE f \in Shown(c) : At[c][f.name] = o, given, buffer)]
  OBVIOUS
<1>1. NewRecord(r, c, dynamic, given, buffer)
      = [class |-> c, dynamic |-> dynamic, released |-> FALSE, word |-> w]
  BY <1>w DEF NewRecord
<1>2. DOMAIN w = Offsets(c)
  BY <1>w DEF Offsets
<1>3. ASSUME NEW f \in Shown(c) PROVE w[At[c][f.name]] = WordOf(r, f, given, buffer)
  <2>o. PICK o : o = At[c][f.name]
    OBVIOUS
  <2>g. PICK g : g = CHOOSE d \in Shown(c) : At[c][d.name] = o
    OBVIOUS
  <2>1. g \in Shown(c) /\ At[c][g.name] = o
    BY <2>o, <2>g
  <2>2. g = f
    BY <2>o, <2>1, ShownFields
  <2>3. o \in {At[c][d.name] : d \in Shown(c)}
    BY <2>o
  <2>4. w[o] = WordOf(r, g, given, buffer)
    BY <1>w, <2>g, <2>3
  <2> QED
    BY <2>o, <2>2, <2>4
<1> QED
  BY <1>1, <1>2, <1>3 DEF IsNew

(* New elements are those of its arrays, in the order of their words.       *)
AreNew(new, r, c, lengths) ==
  /\ new \in Seq(ToSet(new))
  /\ \A i \in DOMAIN new :
       /\ DOMAIN new[i] = {"owner", "size", "freed"}
       /\ new[i].size \in Nat /\ new[i].freed = FALSE
       /\ \E f \in Arrays(c) : /\ Ordinal(c, f) = i
                               /\ new[i].owner = <<r, At[c][f.name]>>
                               /\ new[i].size = lengths[f.name]
  /\ \A f \in Arrays(c) :
       /\ Ordinal(c, f) \in DOMAIN new
       /\ new[Ordinal(c, f)].owner = <<r, At[c][f.name]>>
       /\ new[Ordinal(c, f)].size = lengths[f.name]

(* NewBuffers makes one buffer for each array, in the order of offsets.     *)
LEMMA NewBuffersHas ==
  ASSUME NEW r, NEW c \in Classes, NEW lengths, \A f \in Arrays(c) : lengths[f.name] \in Nat
  PROVE  AreNew(NewBuffers(r, c, lengths), r, c, lengths)
<1>n. PICK N : N = Cardinality(Arrays(c))
  OBVIOUS
<1>1. N \in Nat
  BY <1>n, ArraysFinite
<1>2. /\ \A f \in Arrays(c) : Ordinal(c, f) \in 1 .. N
      /\ \A f, g \in Arrays(c) : Ordinal(c, f) = Ordinal(c, g) => f = g
      /\ \A i \in 1 .. N : \E f \in Arrays(c) : Ordinal(c, f) = i
  BY <1>n, OrdinalHas
<1> DEFINE Of(i) == CHOOSE g \in Arrays(c) : Ordinal(c, g) = i
<1>3. \A i \in 1 .. N : Of(i) \in Arrays(c) /\ Ordinal(c, Of(i)) = i
  BY <1>2
<1>4. \A f \in Arrays(c) : Of(Ordinal(c, f)) = f
  BY <1>2, <1>3
<1>w. PICK new : new = NewBuffers(r, c, lengths)
  OBVIOUS
<1>5. new = [i \in 1 .. N |-> [owner |-> <<r, At[c][Of(i).name]>>, size |-> lengths[Of(i).name],
                               freed |-> FALSE]]
  BY <1>n, <1>w DEF NewBuffers
<1> HIDE DEF Of
<1>6. /\ DOMAIN new = 1 .. N
      /\ \A i \in 1 .. N : /\ DOMAIN new[i] = {"owner", "size", "freed"}
                           /\ new[i].owner = <<r, At[c][Of(i).name]>>
                           /\ new[i].size = lengths[Of(i).name] /\ new[i].freed = FALSE
  BY <1>5
<1>7. new \in Seq(ToSet(new))
  <2>1. new = [i \in 1 .. N |-> new[i]]
    BY <1>5
  <2>2. \A i \in 1 .. N : new[i] \in ToSet(new)
    BY <1>6 DEF ToSet
  <2>3. [i \in 1 .. N |-> new[i]] \in [1 .. N -> ToSet(new)]
    BY <2>2
  <2>4. new \in [1 .. N -> ToSet(new)]
    BY <2>1, <2>3
  <2> QED
    BY <1>1, <2>4, SeqDef
<1>8. \A i \in DOMAIN new :
        /\ DOMAIN new[i] = {"owner", "size", "freed"}
        /\ new[i].size \in Nat /\ new[i].freed = FALSE
        /\ \E f \in Arrays(c) : /\ Ordinal(c, f) = i
                                /\ new[i].owner = <<r, At[c][f.name]>>
                                /\ new[i].size = lengths[f.name]
  BY <1>3, <1>6
<1>9. \A f \in Arrays(c) : /\ Ordinal(c, f) \in DOMAIN new
                           /\ new[Ordinal(c, f)].owner = <<r, At[c][f.name]>>
                           /\ new[Ordinal(c, f)].size = lengths[f.name]
  BY <1>2, <1>4, <1>6
<1> QED
  BY <1>w, <1>7, <1>8, <1>9 DEF AreNew

(* Records with one more, and the elements with its.                        *)
WithRecord(h, b, c, dynamic, given) ==
  Append(h, NewRecord(Len(h) + 1, c, dynamic, given, Numbered(c, Len(b))))
WithElements(h, b, c, lengths) == b \o NewBuffers(Len(h) + 1, c, lengths)
Grown(h, k, b, c, given) ==
  /\ Len(h) \in Nat /\ DOMAIN h = 1 .. Len(h) /\ Len(k) = Len(h) + 1 /\ DOMAIN k = 1 .. Len(h) + 1
  /\ \A q \in DOMAIN h : k[q] = h[q]
  /\ k[Len(h) + 1].class = c
  /\ \A f \in Shown(c) : WordFor(k, Len(h) + 1, f) =
                           WordOf(Len(h) + 1, f, given, Numbered(c, Len(b)))

(* A record added to well-formed ones.                                      *)
LEMMA RecordAdded ==
  ASSUME NEW h, Shaped(h), NEW b, NEW c \in Usable, NEW dynamic \in BOOLEAN, NEW given
  PROVE  /\ Shaped(WithRecord(h, b, c, dynamic, given))
         /\ Grown(h, WithRecord(h, b, c, dynamic, given), b, c, given)
<1>x. PICK x : x = NewRecord(Len(h) + 1, c, dynamic, given, Numbered(c, Len(b)))
  OBVIOUS
<1>k. PICK k : k = WithRecord(h, b, c, dynamic, given)
  OBVIOUS
<1>1. k = Append(h, x)
  BY <1>x, <1>k DEF WithRecord
<1>2. h \in Seq(ToSet(h))
  BY DEF Shaped
<1>3. /\ k \in Seq(ToSet(k)) /\ Len(h) \in Nat /\ Len(k) = Len(h) + 1
      /\ DOMAIN h = 1 .. Len(h) /\ DOMAIN k = 1 .. Len(h) + 1
      /\ \A i \in 1 .. Len(h) : k[i] = h[i]
      /\ k[Len(h) + 1] = x
  BY ONLY <1>1, <1>2, AppendHas
<1>4. c \in Classes
  BY UsableClass
<1>5. /\ DOMAIN x = {"class", "dynamic", "released", "word"}
      /\ x.class = c /\ x.dynamic = dynamic /\ x.released = FALSE
      /\ DOMAIN x.word = Offsets(c)
      /\ \A f \in Shown(c) : x.word[At[c][f.name]] =
                               WordOf(Len(h) + 1, f, given, Numbered(c, Len(b)))
  <2>1. IsNew(x, Len(h) + 1, c, dynamic, given, Numbered(c, Len(b)))
    BY ONLY <1>x, <1>4, NewRecordHas
  <2> QED
    BY ONLY <2>1 DEF IsNew
<1>6. \A r \in DOMAIN k :
        /\ DOMAIN k[r] = {"class", "dynamic", "released", "word"}
        /\ k[r].class \in Usable /\ k[r].dynamic \in BOOLEAN /\ k[r].released \in BOOLEAN
        /\ DOMAIN k[r].word = Offsets(k[r].class)
  <2> SUFFICES ASSUME NEW r \in 1 .. Len(h) + 1
               PROVE  /\ DOMAIN k[r] = {"class", "dynamic", "released", "word"}
                      /\ k[r].class \in Usable /\ k[r].dynamic \in BOOLEAN
                      /\ k[r].released \in BOOLEAN
                      /\ DOMAIN k[r].word = Offsets(k[r].class)
    BY <1>3
  <2>1. CASE r \in 1 .. Len(h)
    BY <1>3, <2>1 DEF Shaped
  <2>2. CASE r = Len(h) + 1
    BY <1>3, <1>5, <2>2
  <2> QED
    BY <1>3, <2>1, <2>2
<1>7. Shaped(k)
  BY <1>3, <1>6 DEF Shaped
<1>8. Grown(h, k, b, c, given)
  BY <1>3, <1>5 DEF Grown, WordFor
<1> QED
  BY <1>k, <1>7, <1>8

(* Its arrays have their elements, and no others do.                        *)
LEMMA ElementsAdded ==
  ASSUME NEW h, NEW k, NEW b, NEW c \in Usable, NEW given, NEW lengths,
         Owned(h, b), Grown(h, k, b, c, given),
         \A f \in Arrays(c) : lengths[f.name] \in Nat /\ given[f.name] = lengths[f.name]
  PROVE  Owned(k, WithElements(h, b, c, lengths))
<1>r. PICK r : r = Len(h) + 1
  OBVIOUS
<1>n. PICK new : new = NewBuffers(r, c, lengths)
  OBVIOUS
<1>d. PICK d : d = WithElements(h, b, c, lengths)
  OBVIOUS
<1>l. PICK l : l = Len(b)
  OBVIOUS
<1>0. c \in Classes
  BY UsableClass
<1>1. /\ new \in Seq(ToSet(new))
      /\ \A i \in DOMAIN new :
           /\ DOMAIN new[i] = {"owner", "size", "freed"}
           /\ new[i].size \in Nat /\ new[i].freed = FALSE
           /\ \E f \in Arrays(c) : /\ Ordinal(c, f) = i
                                   /\ new[i].owner = <<r, At[c][f.name]>>
                                   /\ new[i].size = lengths[f.name]
      /\ \A f \in Arrays(c) :
           /\ Ordinal(c, f) \in DOMAIN new
           /\ new[Ordinal(c, f)].owner = <<r, At[c][f.name]>>
           /\ new[Ordinal(c, f)].size = lengths[f.name]
  <2>1. \A f \in Arrays(c) : lengths[f.name] \in Nat
    OBVIOUS
  <2>2. AreNew(new, r, c, lengths)
    BY ONLY <1>0, <1>n, <2>1, NewBuffersHas
  <2> QED
    BY ONLY <2>2 DEF AreNew
<1>2. b \in Seq(ToSet(b))
  BY DEF Owned
<1>3. /\ d \in Seq(ToSet(d)) /\ l \in Nat /\ Len(new) \in Nat
      /\ DOMAIN b = 1 .. l /\ DOMAIN new = 1 .. Len(new)
      /\ DOMAIN d = 1 .. l + Len(new)
      /\ \A i \in 1 .. l : d[i] = b[i]
      /\ \A i \in 1 .. Len(new) : d[l + i] = new[i]
  <2>1. d = b \o new
    BY <1>r, <1>n, <1>d DEF WithElements
  <2>2. new \in Seq(ToSet(new))
    BY <1>1
  <2> QED
    BY ONLY <1>2, <1>l, <2>1, <2>2, ConcatIs
<1>4. /\ DOMAIN h = 1 .. Len(h) /\ DOMAIN k = 1 .. r /\ Len(h) \in Nat
      /\ r \in DOMAIN k /\ r \notin DOMAIN h
      /\ \A q \in DOMAIN h : q \in DOMAIN k /\ k[q] = h[q]
      /\ \A q \in DOMAIN k : q \in DOMAIN h \/ q = r
      /\ k[r].class = c
  BY <1>r DEF Grown
<1>5. \A f \in Arrays(c) : WordFor(k, r, f) = <<l + Ordinal(c, f), lengths[f.name]>>
  <2> SUFFICES ASSUME NEW f \in Arrays(c)
               PROVE  WordFor(k, r, f) = <<l + Ordinal(c, f), lengths[f.name]>>
    OBVIOUS
  <2>1. f \in Shown(c) /\ Kind(f) = "Array" /\ Field(c, f.name) = f
    BY <1>0, ShownFields DEF Arrays
  <2>b. PICK buffer : buffer = Numbered(c, l)
    OBVIOUS
  <2>2. WordFor(k, r, f) = WordOf(r, f, given, buffer)
    BY <1>r, <1>l, <2>1, <2>b DEF Grown
  <2>3. WordOf(r, f, given, buffer) = <<buffer[f.name], given[f.name]>>
    BY <2>1 DEF WordOf
  <2>4. buffer[f.name] = l + Ordinal(c, f)
    <3>1. f.name \in {g.name : g \in Arrays(c)}
      OBVIOUS
    <3> QED
      BY <2>1, <2>b, <3>1 DEF Numbered
  <2> QED
    BY <2>2, <2>3, <2>4
<1>6. /\ \A q, f : q \in DOMAIN h => Owner(k, q, f) = Owner(h, q, f)
      /\ \A q, f : q \in DOMAIN h => WordFor(k, q, f) = WordFor(h, q, f)
      /\ \A f : Owner(k, r, f) = <<r, At[c][f.name]>>
  BY <1>4 DEF Owner, WordFor
<1>7. ASSUME NEW i \in DOMAIN d
      PROVE  /\ DOMAIN d[i] = {"owner", "size", "freed"}
             /\ d[i].size \in Nat /\ d[i].freed \in BOOLEAN
             /\ \E q \in DOMAIN k : \E f \in Arrays(k[q].class) :
                  /\ d[i].owner = Owner(k, q, f)
                  /\ WordFor(k, q, f) = IF d[i].freed THEN <<0, -1>> ELSE <<i, d[i].size>>
  <2>1. CASE i \in 1 .. l
    <3>1. d[i] = b[i] /\ i \in DOMAIN b
      BY <1>3, <2>1
    <3>2. PICK q \in DOMAIN h : \E f \in Arrays(h[q].class) :
            /\ b[i].owner = Owner(h, q, f)
            /\ WordFor(h, q, f) = IF b[i].freed THEN <<0, -1>> ELSE <<i, b[i].size>>
      BY <3>1 DEF Owned
    <3>3. PICK f \in Arrays(h[q].class) :
            /\ b[i].owner = Owner(h, q, f)
            /\ WordFor(h, q, f) = IF b[i].freed THEN <<0, -1>> ELSE <<i, b[i].size>>
      BY <3>2
    <3>4. q \in DOMAIN k /\ f \in Arrays(k[q].class)
      BY <1>4
    <3>5. /\ d[i].owner = Owner(k, q, f)
          /\ WordFor(k, q, f) = IF d[i].freed THEN <<0, -1>> ELSE <<i, d[i].size>>
      BY <1>6, <3>1, <3>3
    <3>6. DOMAIN d[i] = {"owner", "size", "freed"} /\ d[i].size \in Nat /\ d[i].freed \in BOOLEAN
      BY <3>1 DEF Owned
    <3> QED
      BY <3>4, <3>5, <3>6
  <2>2. CASE i \notin 1 .. l
    <3>1. PICK j \in 1 .. Len(new) : i = l + j
      <4>1. i - l \in 1 .. Len(new) /\ i = l + (i - l)
        BY <1>3, <2>2
      <4> QED
        BY <4>1
    <3>2. d[i] = new[j] /\ j \in DOMAIN new
      BY <1>3, <3>1
    <3>3. PICK f \in Arrays(c) : /\ Ordinal(c, f) = j
                                 /\ new[j].owner = <<r, At[c][f.name]>>
                                 /\ new[j].size = lengths[f.name]
      BY <1>1, <3>2
    <3>4. d[i].owner = Owner(k, r, f)
      BY <1>6, <3>2, <3>3
    <3>5. WordFor(k, r, f) = <<i, d[i].size>> /\ ~d[i].freed
      BY <1>1, <1>5, <3>1, <3>2, <3>3
    <3>6. DOMAIN d[i] = {"owner", "size", "freed"} /\ d[i].size \in Nat /\ d[i].freed \in BOOLEAN
      BY <1>1, <3>2
    <3> QED
      BY <1>4, <3>4, <3>5, <3>6
  <2> QED
    BY <2>1, <2>2
<1>8. ASSUME NEW q \in DOMAIN k, NEW f \in Arrays(k[q].class)
      PROVE  \/ WordFor(k, q, f) = <<0, -1>>
             \/ \E i \in DOMAIN d : /\ d[i].owner = Owner(k, q, f) /\ ~d[i].freed
                                    /\ WordFor(k, q, f) = <<i, d[i].size>>
  <2>1. CASE q \in DOMAIN h
    <3>1. f \in Arrays(h[q].class)
      BY <1>4, <2>1
    <3>2. CASE WordFor(h, q, f) = <<0, -1>>
      BY <1>6, <2>1, <3>2
    <3>3. CASE WordFor(h, q, f) # <<0, -1>>
      <4>1. PICK i \in DOMAIN b : /\ b[i].owner = Owner(h, q, f) /\ ~b[i].freed
                                  /\ WordFor(h, q, f) = <<i, b[i].size>>
        BY <2>1, <3>1, <3>3 DEF Owned
      <4>2. i \in DOMAIN d /\ d[i] = b[i]
        BY <1>3
      <4> QED
        BY <1>6, <2>1, <4>1, <4>2
    <3> QED
      BY <3>2, <3>3
  <2>2. CASE q = r
    <3>1. f \in Arrays(c)
      BY <1>4, <2>2
    <3>2. /\ Ordinal(c, f) \in DOMAIN new
          /\ new[Ordinal(c, f)].owner = <<r, At[c][f.name]>>
          /\ new[Ordinal(c, f)].size = lengths[f.name] /\ new[Ordinal(c, f)].freed = FALSE
      BY <1>1, <3>1
    <3>3. PICK i : i = l + Ordinal(c, f)
      OBVIOUS
    <3>4. i \in DOMAIN d /\ d[i] = new[Ordinal(c, f)]
      BY <1>3, <3>2, <3>3
    <3>5. WordFor(k, q, f) = <<i, d[i].size>> /\ d[i].owner = Owner(k, q, f) /\ ~d[i].freed
      BY <1>5, <1>6, <2>2, <3>1, <3>2, <3>3, <3>4
    <3> QED
      BY <3>4, <3>5
  <2> QED
    BY <1>4, <2>1, <2>2
<1>9. Owned(k, d)
  BY <1>3, <1>7, <1>8 DEF Owned
<1> QED
  BY <1>d, <1>9

(* What a record is bound to, or spawned with, is what its fields say.      *)
GivenFits(class, c, given) == \A f \in Shown(c) :
  /\ Kind(f) \in {"Child", "Ref"} =>
       Reaches(class, TypeOf(f), given[f.name])
  /\ Kind(f) \in {"list", "list[Ref]"} =>
       /\ DOMAIN given[f.name] = 1 .. Len(given[f.name])
       /\ \A i \in DOMAIN given[f.name] : MayPoint(class, TypeOf(f), given[f.name][i])

(* Its references fit if those it was given do.                             *)
LEMMA FilledAdded ==
  ASSUME NEW class, NEW h, NEW k, NEW b, NEW c \in Usable, NEW given,
         Filled(class, h), Grown(h, k, b, c, given), GivenFits(class, c, given)
  PROVE  Filled(class, k)
<1>r. PICK r : r = Len(h) + 1
  OBVIOUS
<1>1. /\ \A q \in DOMAIN h : q \in DOMAIN k /\ k[q] = h[q]
      /\ \A q \in DOMAIN k : q \in DOMAIN h \/ q = r
      /\ k[r].class = c
      /\ \A f \in Shown(c) : WordFor(k, r, f) = WordOf(r, f, given, Numbered(c, Len(b)))
  BY <1>r DEF Grown
<1> SUFFICES ASSUME NEW q \in DOMAIN k, NEW f \in Shown(k[q].class)
             PROVE  /\ Kind(f) \in {"Child", "Ref"} =>
                         Reaches(class, TypeOf(f), WordFor(k, q, f))
                    /\ Kind(f) \in {"list", "list[Ref]"} =>
                         /\ DOMAIN WordFor(k, q, f) = 1 .. Len(WordFor(k, q, f))
                         /\ \A i \in DOMAIN WordFor(k, q, f) :
                              MayPoint(class, TypeOf(f), WordFor(k, q, f)[i])
                    /\ Kind(f) = "Entity" =>
                         WordFor(k, q, f) = [made |-> Created(f), type |-> HandleType(f)]
  BY DEF Filled
<1>2. CASE q \in DOMAIN h
  <2>1. f \in Shown(h[q].class) /\ WordFor(k, q, f) = WordFor(h, q, f)
    BY <1>1, <1>2 DEF WordFor
  <2> QED
    BY <1>2, <2>1 DEF Filled
<1>3. CASE q = r
  <2>1. f \in Shown(c) /\ WordFor(k, q, f) = WordOf(r, f, given, Numbered(c, Len(b)))
    BY <1>1, <1>3
  <2>2. CASE Kind(f) = "Entity"
    <3>1. WordFor(k, q, f) = [made |-> Created(f), type |-> HandleType(f)]
      BY <2>1, <2>2 DEF WordOf
    <3> QED
      BY <2>2, <3>1
  <2>3. CASE Kind(f) \in {"Child", "Ref", "list", "list[Ref]"}
    <3>1. WordFor(k, q, f) = given[f.name]
      BY <2>1, <2>3 DEF WordOf
    <3> QED
      BY <2>1, <2>3, <3>1 DEF GivenFits
  <2>4. CASE Kind(f) \notin {"Entity", "Child", "Ref", "list", "list[Ref]"}
    BY <2>4
  <2> QED
    BY <2>2, <2>3, <2>4
<1> QED
  BY <1>1, <1>2, <1>3

(* What fits some records still fits when there are more.                   *)
LEMMA FilledStays ==
  ASSUME NEW class, NEW further, \A r \in DOMAIN class : r \in DOMAIN further /\ further[r] = class[r],
         NEW h, Filled(class, h)
  PROVE  Filled(further, h)
<1> SUFFICES ASSUME NEW r \in DOMAIN h, NEW f \in Shown(h[r].class)
             PROVE  /\ Kind(f) \in {"Child", "Ref"} =>
                         Reaches(further, TypeOf(f), WordFor(h, r, f))
                    /\ Kind(f) \in {"list", "list[Ref]"} =>
                         /\ DOMAIN WordFor(h, r, f) = 1 .. Len(WordFor(h, r, f))
                         /\ \A i \in DOMAIN WordFor(h, r, f) :
                              MayPoint(further, TypeOf(f), WordFor(h, r, f)[i])
                    /\ Kind(f) = "Entity" =>
                         WordFor(h, r, f) = [made |-> Created(f), type |-> HandleType(f)]
  BY DEF Filled
<1> QED
  BY ReachesStay DEF Filled

(* A record added leaves the classes of the others.                         *)
LEMMA ClassesGrow ==
  ASSUME NEW h, NEW k, NEW b, NEW c, NEW given, Grown(h, k, b, c, given)
  PROVE  \A r \in DOMAIN ClassOf(h) : r \in DOMAIN ClassOf(k) /\ ClassOf(k)[r] = ClassOf(h)[r]
BY DEF Grown, ClassOf

(* A record without entities leaves the stores as they are.                 *)
LEMMA StockedAdded ==
  ASSUME NEW h, NEW k, NEW b, NEW c \in Usable, NEW given, Grown(h, k, b, c, given),
         \A f \in Shown(c) : Kind(f) # "Entity", NEW s, Stocked(h, s)
  PROVE  Stocked(k, s)
<1>1. \A r \in DOMAIN ClassOf(h) : r \in DOMAIN ClassOf(k) /\ ClassOf(k)[r] = ClassOf(h)[r]
  BY ClassesGrow
<1>2. /\ \A q \in DOMAIN h : q \in DOMAIN k /\ k[q] = h[q]
      /\ \A q \in DOMAIN k : q \in DOMAIN h \/ k[q].class = c
  BY DEF Grown
<1>3. \A q, f : q \in DOMAIN h => Owner(k, q, f) = Owner(h, q, f)
  BY <1>2 DEF Owner
<1>4. ASSUME NEW q \in DOMAIN k, NEW f \in Shown(k[q].class), IsQueue(f)
      PROVE  Owner(k, q, f) \in DOMAIN s
  <2>1. q \in DOMAIN h
    <3> SUFFICES ASSUME q \notin DOMAIN h PROVE FALSE
      OBVIOUS
    <3>1. f \in Shown(c)
      BY <1>2
    <3>2. Kind(f) = "Entity"
      BY <1>4, <3>1, FieldTypes DEF IsQueue
    <3> QED
      BY <3>1, <3>2
  <2> QED
    BY <1>2, <1>3, <1>4, <2>1 DEF Stocked
<1>5. ASSUME NEW p \in DOMAIN s
      PROVE  \E q \in DOMAIN k : \E f \in Shown(k[q].class) :
               /\ Kind(f) = "Entity" /\ IsQueue(f) /\ p = Owner(k, q, f)
               /\ \A i \in DOMAIN s[p] : MayPoint(ClassOf(k), <<"model", f.arg>>, s[p][i])
  <2>1. PICK q \in DOMAIN h : \E f \in Shown(h[q].class) :
          /\ Kind(f) = "Entity" /\ IsQueue(f) /\ p = Owner(h, q, f)
          /\ \A i \in DOMAIN s[p] : MayPoint(ClassOf(h), <<"model", f.arg>>, s[p][i])
    BY DEF Stocked
  <2>2. PICK f \in Shown(h[q].class) :
          /\ Kind(f) = "Entity" /\ IsQueue(f) /\ p = Owner(h, q, f)
          /\ \A i \in DOMAIN s[p] : MayPoint(ClassOf(h), <<"model", f.arg>>, s[p][i])
    BY <2>1
  <2>3. \A i \in DOMAIN s[p] : MayPoint(ClassOf(k), <<"model", f.arg>>, s[p][i])
    BY <1>1, <2>2, ReachesStay
  <2>4. q \in DOMAIN k /\ f \in Shown(k[q].class) /\ p = Owner(k, q, f)
    BY <1>2, <1>3, <2>2
  <2> QED
    BY <2>2, <2>3, <2>4
<1>6. \A p \in DOMAIN s : s[p] \in Seq(ToSet(s[p]))
  BY DEF Stocked
<1> QED
  BY <1>4, <1>5, <1>6 DEF Stocked

(* A model spawned: what it is given is what its fields say, and its class  *)
(* brings no entities.                                                      *)
LEMMA SpawnKeeps ==
  ASSUME CInv, NEW c \in Spawned, NEW n \in Lengths, Spawn(c, other, n)
  PROVE  CInv'
<1>r. PICK r : r = Len(heap) + 1
  OBVIOUS
<1>l. PICK lengths : lengths = LengthsOf(c, n)
  OBVIOUS
<1>g. PICK given : given = GivenOf(c, other, n)
  OBVIOUS
<1>d. DOMAIN lengths = {f.name : f \in Arrays(c)}
  BY <1>l DEF LengthsOf
<1>1. /\ phase = "trial" /\ Registered[c] \subseteq Usable /\ Spawnable(c)
      /\ \A f \in Given(c) : \E g \in {other, self, Nothing} : SpawnTakes(f, g)
  BY DEF Spawn, Running
<1>2. CASE Fail
  BY <1>2, FailKeeps
<1>3. CASE ~Fail
  <2>1. /\ \A f \in Given(c) : ~Missing(Argument(f, other), f.optional)
        /\ \A m \in DOMAIN lengths : ~(lengths[m] < 0)
        /\ heap' = WithRecord(heap, buffers, c, TRUE, given)
        /\ buffers' = WithElements(heap, buffers, c, lengths)
        /\ compiled' = compiled \cup {c}
        /\ views' = views \cup Registered[c]
        /\ other' = Model(c, r) /\ last' = Quiet
        /\ UNCHANGED <<phase, stores, self>>
    BY <1>3, <1>r, <1>l, <1>g DEF Spawn, Bad, WithRecord, WithElements
  <2>2. c \in Classes /\ c \in Usable
    <3>1. c \in Classes
      BY SpawnAssumption
    <3> QED
      BY <1>1, <3>1, RegisteredClosed
  <2>3. \A f \in Shown(c) : /\ Kind(f) \in {"Ref", "Array"} /\ f \in ToSet(FieldsOf[c])
                            /\ f.name \in Names(c) /\ Field(c, f.name) = f
                            /\ Kind(f) = "Ref" => f \in Given(c)
    BY <1>1, <2>2, ShownFields DEF Spawnable, Shown, Given
  <2>4. \A f \in Arrays(c) : lengths[f.name] \in Nat /\ given[f.name] = lengths[f.name]
    <3> SUFFICES ASSUME NEW f \in Arrays(c)
                 PROVE  lengths[f.name] \in Nat /\ given[f.name] = lengths[f.name]
      OBVIOUS
    <3>1. f.name \in Names(c) /\ Field(c, f.name) = f
      BY <2>2, <2>3, ShownFields
    <3>2. f.name \in DOMAIN lengths /\ lengths[f.name] = LengthOf(c, f, n)
      BY <1>l, <1>d, <3>1 DEF LengthsOf
    <3>3. LengthOf(c, f, n) \in Int
      BY <2>2, <3>1, SpawnAssumption DEF LengthOf
    <3>4. given[f.name] = lengths[f.name]
      <4>1. f.name \in {g.name : g \in Given(c) \cup Arrays(c)}
        OBVIOUS
      <4> QED
        BY <1>g, <1>l, <3>2, <4>1 DEF GivenOf
    <3> QED
      BY <2>1, <3>2, <3>3, <3>4
  <2>5. /\ Shaped(heap) /\ Filled(ClassOf(heap), heap) /\ Owned(heap, buffers)
        /\ Stocked(heap, stores)
    BY DEF CInv
  <2>6. Shaped(heap') /\ Grown(heap, heap', buffers, c, given)
    BY <2>1, <2>2, <2>5, RecordAdded
  <2>7. Owned(heap', buffers')
    <3>1. Owned(heap', WithElements(heap, buffers, c, lengths))
      BY <2>2, <2>4, <2>5, <2>6, ElementsAdded
    <3> QED
      BY <2>1, <3>1
  <2>8. \A q \in DOMAIN ClassOf(heap) :
          q \in DOMAIN ClassOf(heap') /\ ClassOf(heap')[q] = ClassOf(heap)[q]
    BY <2>6, ClassesGrow
  <2>9. \A f \in Given(c) : Reaches(ClassOf(heap), TypeOf(f), given[f.name])
    <3> SUFFICES ASSUME NEW f \in Given(c)
                 PROVE  Reaches(ClassOf(heap), TypeOf(f), given[f.name])
      OBVIOUS
    <3>1. f \in Shown(c) /\ Kind(f) = "Ref" /\ Field(c, f.name) = f
      BY <2>3 DEF Given
    <3>2. f.name \notin DOMAIN lengths
      <4> SUFFICES ASSUME f.name \in DOMAIN lengths PROVE FALSE
        OBVIOUS
      <4>1. PICK g \in Arrays(c) : g.name = f.name
        BY <1>d
      <4>2. g \in Shown(c) /\ Kind(g) = "Array" /\ Field(c, g.name) = g
        BY <2>2, <2>3, ShownFields DEF Arrays
      <4> QED
        BY <3>1, <4>1, <4>2
    <3>a. PICK w : w = Argument(f, other)
      OBVIOUS
    <3>3. given[f.name] = w.at
      <4>1. f.name \in {g.name : g \in Given(c) \cup Arrays(c)}
        OBVIOUS
      <4> QED
        BY <1>g, <1>l, <3>a, <3>1, <3>2, <4>1 DEF GivenOf
    <3>4. w \in {other, self, Nothing} /\ SpawnTakes(f, w)
      BY <1>1, <3>a DEF Argument
    <3>5. Assignable(w, TypeOf(f), f.optional)
      BY <3>4 DEF SpawnTakes, Assignable
    <3>6. Sound(ClassOf(heap), views, w)
      BY <3>4, ValuesSound, NothingSound
    <3>7. Reaches(ClassOf(heap), TypeOf(f), w.at)
      BY <2>2, <3>1, <3>5, <3>6, CastSound
    <3> QED
      BY <3>3, <3>7
  <2>10. GivenFits(ClassOf(heap'), c, given)
    <3> SUFFICES ASSUME NEW f \in Shown(c)
                 PROVE  /\ Kind(f) \in {"Child", "Ref"} =>
                             Reaches(ClassOf(heap'), TypeOf(f), given[f.name])
                        /\ Kind(f) \notin {"list", "list[Ref]"}
      BY DEF GivenFits
    <3>1. Kind(f) \in {"Ref", "Array"} /\ (Kind(f) = "Ref" => f \in Given(c))
      BY <2>3
    <3>2. CASE Kind(f) = "Ref"
      <4>1. Reaches(ClassOf(heap), TypeOf(f), given[f.name])
        BY <2>9, <3>1, <3>2
      <4>2. Reaches(ClassOf(heap'), TypeOf(f), given[f.name])
        BY <2>8, <4>1, ReachesStay
      <4> QED
        BY <3>2, <4>2
    <3> QED
      BY <3>1, <3>2
  <2>11. Filled(ClassOf(heap'), heap')
    <3>1. Filled(ClassOf(heap'), heap)
      BY <2>5, <2>8, FilledStays
    <3> QED
      BY <2>2, <2>6, <2>10, <3>1, FilledAdded
  <2>12. Stocked(heap', stores')
    <3>1. \A f \in Shown(c) : Kind(f) # "Entity"
      BY <2>3
    <3>2. Stocked(heap', stores)
      BY <2>2, <2>5, <2>6, <3>1, StockedAdded
    <3> QED
      BY <2>1, <3>2
  <2>13. /\ views \subseteq views' /\ views' \subseteq Usable /\ c \in views'
         /\ \A d \in views' : Exposed[d] \subseteq views'
    BY <1>1, <2>1, <2>2, ViewsGrow
  <2>14. r \in DOMAIN heap' /\ heap'[r].class = c /\ DOMAIN heap' = DOMAIN heap \cup {r}
         /\ \A q \in DOMAIN heap : heap'[q] = heap[q]
    BY <1>r, <2>6 DEF Grown
  <2>15. Known'
    <3>1. \A q \in DOMAIN heap' : heap'[q].class \in compiled'
      BY <1>1, <2>1, <2>14 DEF CInv, Known
    <3> QED
      BY <1>1, <2>1, <2>13, <3>1 DEF CInv, Known
  <2>16. Sound(ClassOf(heap'), views', self')
    BY <2>1, <2>8, <2>13, ValuesSound, SoundStays
  <2>17. Sound(ClassOf(heap'), views', other')
    <3>1. Points(ClassOf(heap'), <<"model", c>>, Whole(r))
      BY <2>6, <2>14, OwnModel
    <3> QED
      BY <2>1, <2>13, <3>1, ModelSound DEF Model
  <2>18. Right'
    BY <2>1, QuietRight
  <2> QED
    BY <2>6, <2>7, <2>11, <2>12, <2>15, <2>16, <2>17, <2>18 DEF CInv, Values
<1> QED
  BY <1>2, <1>3

-----------------------------------------------------------------------------
(* The initial states *)

BoundTo(tree, bind, n) ==
  bind = [i \in 0 .. n |-> IF i = 0 THEN [records |-> <<>>, elements |-> <<>>]
                           ELSE Bind(bind[i - 1], i, tree[i].class, tree[i].bound)]

(* A tree bound so far can be bound by one more record.                     *)
LEMMA BindsFurther ==
  ASSUME NEW tree, NEW n \in Nat, NEW f, BoundTo(tree, f, n)
  PROVE  \E g : BoundTo(tree, g, n + 1)
<1> DEFINE Next1(i, before) == Bind(before, i, tree[i].class, tree[i].bound)
           none == [records |-> <<>>, elements |-> <<>>]
<1> PICK g : g = [i \in 0 .. n + 1 |-> IF i <= n THEN f[i] ELSE Next1(i, f[n])]
  OBVIOUS
<1>1. \A i \in 0 .. n : f[i] = IF i = 0 THEN none ELSE Next1(i, f[i - 1])
  BY DEF BoundTo
<1> HIDE DEF Next1, none
<1>2. (\A i \in 0 .. n : g[i] = f[i]) /\ g[n + 1] = Next1(n + 1, f[n])
  <2>1. n + 1 \in 0 .. n + 1 /\ ~(n + 1 <= n)
    OBVIOUS
  <2>2. \A i \in 0 .. n : i \in 0 .. n + 1 /\ i <= n
    OBVIOUS
  <2> QED
    BY <2>1, <2>2
<1>3. \A i \in 0 .. n + 1 : g[i] = IF i = 0 THEN none ELSE Next1(i, g[i - 1])
  <2> TAKE i \in 0 .. n + 1
  <2>1. CASE i \in 0 .. n
    <3>1. i # 0 => i - 1 \in 0 .. n
      BY <2>1
    <3>2. i # 0 => g[i - 1] = f[i - 1]
      BY <1>2, <3>1
    <3>3. g[i] = f[i] /\ f[i] = IF i = 0 THEN none ELSE Next1(i, f[i - 1])
      BY <1>1, <1>2, <2>1
    <3> QED
      BY <3>2, <3>3
  <2>2. CASE i = n + 1
    <3>1. i # 0 /\ i - 1 = n /\ n \in 0 .. n
      BY <2>2
    <3>2. g[i - 1] = f[n]
      BY <1>2, <3>1
    <3> QED
      BY <1>2, <2>2, <3>1, <3>2
  <2> QED
    BY <2>1, <2>2
<1>4. g = [i \in 0 .. n + 1 |-> g[i]]
  OBVIOUS
<1>5. [i \in 0 .. n + 1 |-> g[i]]
      = [i \in 0 .. n + 1 |-> IF i = 0 THEN none ELSE Next1(i, g[i - 1])]
  BY <1>3
<1>6. BoundTo(tree, g, n + 1)
  BY <1>4, <1>5 DEF BoundTo, Next1, none
<1> QED
  BY <1>6

(* A tree is bound one record after the other.                              *)
LEMMA BoundUnrolls ==
  ASSUME NEW tree, Len(tree) \in Nat
  PROVE  \E bind : /\ Bound(tree) = bind[Len(tree)]
                   /\ bind[0] = [records |-> <<>>, elements |-> <<>>]
                   /\ \A n \in 1 .. Len(tree) :
                        bind[n] = Bind(bind[n - 1], n, tree[n].class, tree[n].bound)
<1> PICK N \in Nat : N = Len(tree)
  OBVIOUS
<1> DEFINE S == {n \in Nat : \E f : BoundTo(tree, f, n)}
<1>1. 0 \in S
  <2> PICK f : f = [i \in 0 .. 0 |-> [records |-> <<>>, elements |-> <<>>]]
    OBVIOUS
  <2>1. f = [i \in 0 .. 0 |-> IF i = 0 THEN [records |-> <<>>, elements |-> <<>>]
                              ELSE Bind(f[i - 1], i, tree[i].class, tree[i].bound)]
    OBVIOUS
  <2> QED
    BY <2>1 DEF BoundTo
<1>2. ASSUME NEW n \in 0 .. N - 1, n \in S PROVE n + 1 \in S
  BY <1>2, BindsFurther
<1>3. N \in S
  <2> HIDE DEF S
  <2>1. 0 .. N \subseteq S
    BY <1>1, <1>2, CountsUp
  <2> QED
    BY <2>1
<1> DEFINE bind == CHOOSE f : BoundTo(tree, f, N)
<1>4. BoundTo(tree, bind, N)
  BY <1>3
<1>5. Bound(tree) = bind[N]
  BY DEF Bound, BoundTo
<1> HIDE DEF bind
<1>6. \A n \in 0 .. N : bind[n] = IF n = 0 THEN [records |-> <<>>, elements |-> <<>>]
                                  ELSE Bind(bind[n - 1], n, tree[n].class, tree[n].bound)
  BY <1>4 DEF BoundTo
<1>7. 0 \in 0 .. N /\ \A n \in 1 .. N : n \in 0 .. N /\ n # 0
  OBVIOUS
<1> QED
  BY <1>5, <1>6, <1>7

(* What is bound of a tree, after its first n records.                      *)
Binds(tree, done, n) ==
  /\ Shaped(done.records) /\ Owned(done.records, done.elements)
  /\ Filled(ClassOf(tree), done.records)
  /\ Len(done.records) = n /\ DOMAIN done.records = 1 .. n
  /\ \A r \in 1 .. n : done.records[r].class = tree[r].class

(* And that record is well formed, with buffers of its own.                 *)
LEMMA BindsOne ==
  ASSUME NEW tree \in Trees, Placed(tree), NEW n \in Nat, n + 1 \in DOMAIN tree,
         NEW done, Binds(tree, done, n)
  PROVE  Binds(tree, Bind(done, n + 1, tree[n + 1].class, tree[n + 1].bound), n + 1)
<1>h. PICK h : h = done.records
  OBVIOUS
<1>b. PICK b : b = done.elements
  OBVIOUS
<1>c. PICK c : c = tree[n + 1].class
  OBVIOUS
<1>g. PICK given : given = tree[n + 1].bound
  OBVIOUS
<1>e. PICK next : next = Bind(done, n + 1, tree[n + 1].class, tree[n + 1].bound)
  OBVIOUS
<1>k. PICK k : k = next.records
  OBVIOUS
<1>d. PICK d : d = next.elements
  OBVIOUS
<1>1. /\ Shaped(h) /\ Owned(h, b) /\ Filled(ClassOf(tree), h) /\ Len(h) = n /\ DOMAIN h = 1 .. n
      /\ \A r \in 1 .. n : h[r].class = tree[r].class
  BY <1>h, <1>b DEF Binds
<1>2. k = WithRecord(h, b, c, FALSE, given) /\ d = WithElements(h, b, c, given)
  BY <1>h, <1>b, <1>c, <1>g, <1>e, <1>k, <1>d, <1>1 DEF Bind, WithRecord, WithElements
<1>3. c \in Classes /\ c \in Usable
  <2>1. c \in Classes
    BY <1>c, TreeAssumption
  <2>2. Registered[c] \subseteq Usable
    BY <1>c DEF Placed
  <2> QED
    BY <2>1, <2>2, RegisteredClosed
<1>4. \A f \in Shown(c) :
        /\ Kind(f) \in {"Child", "Ref"} => MayPoint(ClassOf(tree), TypeOf(f), given[f.name])
        /\ Kind(f) \in {"list", "list[Ref]"} =>
             /\ given[f.name] \in Seq(ToSet(given[f.name]))
             /\ \A i \in DOMAIN given[f.name] :
                  MayPoint(ClassOf(tree), TypeOf(f), given[f.name][i])
        /\ Kind(f) = "Array" => given[f.name] \in Nat
  BY <1>c, <1>g, TreeAssumption DEF MayPoint
<1>6. GivenFits(ClassOf(tree), c, given)
  <2> SUFFICES ASSUME NEW f \in Shown(c)
               PROVE  /\ Kind(f) \in {"Child", "Ref"} =>
                           Reaches(ClassOf(tree), TypeOf(f), given[f.name])
                      /\ Kind(f) \in {"list", "list[Ref]"} =>
                           /\ DOMAIN given[f.name] = 1 .. Len(given[f.name])
                           /\ \A i \in DOMAIN given[f.name] :
                                MayPoint(ClassOf(tree), TypeOf(f), given[f.name][i])
    BY DEF GivenFits
  <2>x. PICK x : x = given[f.name]
    OBVIOUS
  <2>1. Kind(f) \in {"list", "list[Ref]"} =>
          x \in Seq(ToSet(x)) /\ \A i \in DOMAIN x : MayPoint(ClassOf(tree), TypeOf(f), x[i])
    BY <1>4, <2>x
  <2>2. x \in Seq(ToSet(x)) => DOMAIN x = 1 .. Len(x)
    OBVIOUS
  <2> QED
    BY <1>4, <2>1, <2>2, <2>x DEF Reaches
<1>7. \A f \in Arrays(c) : given[f.name] \in Nat /\ given[f.name] = given[f.name]
  <2>1. \A f \in Arrays(c) : f \in Shown(c) /\ Kind(f) = "Array"
    BY DEF Arrays, Shown
  <2> QED
    BY <1>4, <2>1
<1>8. Shaped(k) /\ Grown(h, k, b, c, given)
  BY <1>1, <1>2, <1>3, RecordAdded
<1>9. Owned(k, d)
  BY <1>1, <1>2, <1>3, <1>7, <1>8, ElementsAdded
<1>10. Filled(ClassOf(tree), k)
  BY <1>1, <1>3, <1>6, <1>8, FilledAdded
<1>11. /\ Len(k) = n + 1 /\ DOMAIN k = 1 .. n + 1
       /\ \A r \in 1 .. n + 1 : k[r].class = tree[r].class
  <2>1. /\ Len(k) = n + 1 /\ DOMAIN k = 1 .. n + 1
        /\ \A r \in 1 .. n : k[r] = h[r]
        /\ k[n + 1].class = c
    BY <1>1, <1>8 DEF Grown
  <2>2. \A r \in 1 .. n + 1 : r \in 1 .. n \/ r = n + 1
    OBVIOUS
  <2> QED
    BY <1>1, <1>c, <2>1, <2>2
<1>12. Binds(tree, next, n + 1)
  BY <1>k, <1>d, <1>8, <1>9, <1>10, <1>11 DEF Binds
<1> QED
  BY <1>e, <1>12

(* Nothing bound is well formed.                                            *)
LEMMA NoneBound ==
  ASSUME NEW class
  PROVE  Shaped(<<>>) /\ Owned(<<>>, <<>>) /\ Filled(class, <<>>)
<1>1. <<>> \in Seq(ToSet(<<>>)) /\ DOMAIN <<>> = {}
  OBVIOUS
<1> QED
  BY <1>1 DEF Shaped, Owned, Filled

(* A tree is bound to well-formed records with buffers of their own.        *)
LEMMA TreeBinds ==
  ASSUME NEW tree \in Trees, Placed(tree)
  PROVE  Binds(tree, Bound(tree), Len(tree)) /\ DOMAIN tree = 1 .. Len(tree)
<1>1. Len(tree) \in Nat /\ DOMAIN tree = 1 .. Len(tree)
  BY TreeAssumption
<1> PICK N \in Nat : N = Len(tree)
  BY <1>1
<1>2. PICK bind : /\ Bound(tree) = bind[N]
                  /\ bind[0] = [records |-> <<>>, elements |-> <<>>]
                  /\ \A n \in 1 .. N :
                       bind[n] = Bind(bind[n - 1], n, tree[n].class, tree[n].bound)
  BY BoundUnrolls
<1> DEFINE S == {n \in 0 .. N : Binds(tree, bind[n], n)}
<1>3. 0 \in S
  <2>1. bind[0].records = <<>> /\ bind[0].elements = <<>>
    BY <1>2
  <2>2. Len(<<>>) = 0 /\ DOMAIN <<>> = 1 .. 0 /\ 0 \in 0 .. N /\ \A r \in 1 .. 0 : FALSE
    OBVIOUS
  <2>3. Binds(tree, bind[0], 0)
    BY <2>1, <2>2, NoneBound DEF Binds
  <2> QED
    BY <2>2, <2>3
<1>4. ASSUME NEW n \in 0 .. N - 1, n \in S PROVE n + 1 \in S
  <2>1. n + 1 \in 1 .. N /\ (n + 1) - 1 = n /\ n \in Nat /\ n + 1 \in DOMAIN tree
    BY <1>1
  <2>2. bind[n + 1] = Bind(bind[n], n + 1, tree[n + 1].class, tree[n + 1].bound)
    BY <1>2, <2>1
  <2>3. Binds(tree, bind[n + 1], n + 1)
    BY <1>4, <2>1, <2>2, BindsOne
  <2> QED
    BY <2>1, <2>3
<1>5. N \in S
  <2> HIDE DEF S
  <2>1. 0 .. N \subseteq S
    BY <1>3, <1>4, CountsUp
  <2> QED
    BY <2>1
<1> QED
  BY <1>1, <1>2, <1>5

(* A trial starts well typed.                                               *)
LEMMA InitHolds ==
  ASSUME Init
  PROVE  CInv
<1>0. /\ compiled = {} /\ views = {} /\ self = Nothing /\ other = Nothing /\ last = Quiet
  BY DEF Init
<1>1. PICK tree \in Trees :
        IF Placed(tree)
        THEN heap = Bound(tree).records /\ buffers = Bound(tree).elements /\ phase = "prepare"
        ELSE heap = <<>> /\ buffers = <<>> /\ phase = "refused"
  BY DEF Init
<1>2. Right
  BY <1>0 DEF Right, Quiet, DispatchSound, KindsMatch, ElementSafe
<1>3. \A v \in Values : Sound(ClassOf(heap), views, v)
  BY <1>0, NothingSound DEF Values
<1>4. /\ Shaped(heap) /\ Filled(ClassOf(heap), heap) /\ Owned(heap, buffers)
      /\ phase \in {"prepare", "refused"}
      /\ phase = "prepare" => \A r \in DOMAIN heap : Registered[heap[r].class] \subseteq Usable
  <2>1. CASE Placed(tree)
    <3>1. heap = Bound(tree).records /\ buffers = Bound(tree).elements /\ phase = "prepare"
      BY <1>1, <2>1
    <3>2. Binds(tree, Bound(tree), Len(tree)) /\ DOMAIN tree = 1 .. Len(tree)
      BY <2>1, TreeBinds
    <3>3. /\ Shaped(heap) /\ Owned(heap, buffers) /\ Filled(ClassOf(tree), heap)
          /\ DOMAIN heap = DOMAIN tree /\ \A r \in DOMAIN tree : heap[r].class = tree[r].class
      BY <3>1, <3>2 DEF Binds
    <3>4. ClassOf(heap) = ClassOf(tree)
      BY <3>3 DEF ClassOf
    <3> QED
      BY <2>1, <3>1, <3>3, <3>4 DEF Placed
  <2>2. CASE ~Placed(tree)
    <3>1. heap = <<>> /\ buffers = <<>> /\ phase = "refused"
      BY <1>1, <2>2
    <3> QED
      BY <3>1, NoneBound
  <2> QED
    BY <2>1, <2>2
<1>5. Known
  BY <1>0, <1>4 DEF Known
<1>6. Stocked(heap, stores)
  <2> DEFINE QueuesOf(r) == {o \in DOMAIN heap[r].word :
                               \E f \in Shown(heap[r].class) :
                                 /\ At[heap[r].class][f.name] = o
                                 /\ f.origin \in {"Store", "PriorityStore"}}
             Places == UNION {{<<r, o>> : o \in QueuesOf(r)} : r \in DOMAIN heap}
  <2>1. stores = [p \in Places |-> <<>>]
    BY DEF Init
  <2>2. \A r \in DOMAIN heap : /\ heap[r].class \in Usable
                               /\ DOMAIN heap[r].word = Offsets(heap[r].class)
    BY <1>4 DEF Shaped
  <2>3. ASSUME NEW r \in DOMAIN heap, NEW f \in Shown(heap[r].class), IsQueue(f)
        PROVE  Owner(heap, r, f) \in Places
    <3>1. At[heap[r].class][f.name] \in QueuesOf(r)
      BY <2>2, <2>3 DEF Offsets, IsQueue
    <3> HIDE DEF QueuesOf
    <3> QED
      BY <3>1 DEF Owner
  <2>4. ASSUME NEW p \in Places
        PROVE  \E r \in DOMAIN heap : \E f \in Shown(heap[r].class) :
                 Kind(f) = "Entity" /\ IsQueue(f) /\ p = Owner(heap, r, f)
    <3>1. PICK r \in DOMAIN heap : \E o \in QueuesOf(r) : p = <<r, o>>
      OBVIOUS
    <3>2. PICK o \in QueuesOf(r) : p = <<r, o>>
      BY <3>1
    <3>3. PICK f \in Shown(heap[r].class) : /\ At[heap[r].class][f.name] = o
                                            /\ f.origin \in {"Store", "PriorityStore"}
      OBVIOUS
    <3>4. Kind(f) = "Entity" /\ IsQueue(f)
      BY <2>2, <3>3, FieldTypes DEF IsQueue
    <3> QED
      BY <3>2, <3>3, <3>4 DEF Owner
  <2> HIDE DEF Places
  <2>5. <<>> \in Seq(ToSet(<<>>)) /\ DOMAIN <<>> = {}
    OBVIOUS
  <2>6. DOMAIN stores = Places /\ \A p \in Places : stores[p] = <<>>
    BY <2>1
  <2>7. ASSUME NEW p \in DOMAIN stores
        PROVE  \E r \in DOMAIN heap : \E f \in Shown(heap[r].class) :
                 /\ Kind(f) = "Entity" /\ IsQueue(f) /\ p = Owner(heap, r, f)
                 /\ \A i \in DOMAIN stores[p] : MayPoint(ClassOf(heap), <<"model", f.arg>>, stores[p][i])
    BY <2>4, <2>5, <2>6
  <2> QED
    BY <2>3, <2>5, <2>6, <2>7 DEF Stocked
<1> QED
  BY <1>2, <1>3, <1>4, <1>5, <1>6 DEF CInv

(* Every step keeps the invariant.                                          *)
LEMMA NextKeeps ==
  ASSUME KeepsFields, KeepsCalls, CInv, [Next]_vars
  PROVE  CInv'
<1>1. CASE UNCHANGED vars
  <2>1. UNCHANGED <<phase, compiled, views, heap, buffers, stores, self, other, last>>
    BY <1>1 DEF vars
  <2>2. Right'
    BY <2>1 DEF CInv, Right, DispatchSound, KindsMatch, ElementSafe
  <2>3. Sound(ClassOf(heap), views, self') /\ Sound(ClassOf(heap), views, other')
    BY <2>1, ValuesSound
  <2> QED
    BY <2>1, <2>2, <2>3, ValuesOnly
<1>2. CASE \E c \in Usable : Ensure(c)
  BY <1>2, EnsureKeeps
<1>3. CASE \E r \in DOMAIN heap : Start(r)
  BY <1>3, StartKeeps
<1>4. CASE Keep \/ Narrow
  BY <1>4, KeepKeeps, NarrowKeeps
<1>5. CASE \E v \in Values : \E name \in FieldNames :
             Follow(v, name) \/ EntityOf(v, name) \/ AnyOf(v, name) \/ ArrayOf(v, name)
  BY <1>5, FollowKeeps, PlaceKeeps, AnyOfKeeps
<1>6. CASE \E v \in Values : \E name \in FieldNames, i \in Indices : Item(v, name, i)
  BY <1>6, ItemKeeps
<1>7. CASE \E v \in Values : \E name \in FieldNames, w \in Values \cup {Nothing} :
             Assign(v, name, w)
  BY <1>7, AssignKeeps
<1>8. CASE \E v \in Values : \E name \in SlotNames, w \in Values :
             Enter(v, name, w) \/ Return(v, name, w)
  BY <1>8, EnterKeeps, ReturnKeeps
<1>9. CASE \E v \in Values : Release(v) \/ ReleaseAgain(v) \/ UseMissing(v)
  BY <1>9, ReleaseKeeps, FailKeeps, CrashKeeps DEF ReleaseAgain, UseMissing
<1>10. CASE \E c \in Spawned, n \in Lengths : Spawn(c, other, n)
  BY <1>10, SpawnKeeps
<1>11. CASE (\E w \in Values : PutModel(other, w)) \/ GetModel(other)
  BY <1>11, PutKeeps, GetKeeps
<1>12. CASE \E verb \in DOMAIN Verbs : Use(other, verb)
  BY <1>12, UseKeeps
<1>13. CASE \E i \in Indices : Element(other, i) \/ Iterate(other, i)
  BY <1>13, ElementKeeps, IterateKeeps
<1> QED
  BY <1>1, <1>2, <1>3, <1>4, <1>5, <1>6, <1>7, <1>8, <1>9, <1>10, <1>11, <1>12, <1>13 DEF Next

(* The invariant holds whatever code runs, on whatever classes and trees.   *)
LEMMA AlwaysCInv ==
  KeepsFields /\ KeepsCalls => (Spec => []CInv)
<1> SUFFICES ASSUME KeepsFields, KeepsCalls PROVE Spec => []CInv
  OBVIOUS
<1>1. Init => CInv
  BY InitHolds
<1>2. CInv /\ [Next]_vars => CInv'
  BY NextKeeps
<1> QED
  BY <1>1, <1>2, PTL DEF Spec

-----------------------------------------------------------------------------
(* What it means for the properties *)

(* The model's reading of an address is that of the properties.             *)
LEMMA PointsDenotes ==
  ASSUME NEW type, NEW p, Points(ClassOf(heap), type, p)
  PROVE  Denotes(type, p)
BY DEF Points, ClassOf, Denotes

(* Every value that compiled code holds, through whatever reference, list,  *)
(* cast, store or call it came, is a record or entity of the type that the  *)
(* compiler gave it, or missing where the type or a missing check allows    *)
(* that, and its class can be typed.                                        *)
THEOREM ValuesAreTyped ==
  KeepsFields /\ KeepsCalls => (Spec => []ViewsSound)
<1> SUFFICES ASSUME KeepsFields, KeepsCalls PROVE Spec => []ViewsSound
  OBVIOUS
<1>1. CInv => ViewsSound
  BY PointsDenotes DEF CInv, Sound, Absent, ViewsSound
<1>2. Spec => []CInv
  BY AlwaysCInv
<1> QED
  BY <1>1, <1>2, PTL

(* A call through the table of a record runs the method that the caller's   *)
(* class has under that name, whatever subclass the record is of.           *)
THEOREM CallsRunNamed ==
  KeepsFields /\ KeepsCalls => (Spec => []DispatchSound)
<1> SUFFICES ASSUME KeepsFields, KeepsCalls PROVE Spec => []DispatchSound
  OBVIOUS
<1>1. CInv => DispatchSound
  BY DEF CInv, Right
<1>2. Spec => []CInv
  BY AlwaysCInv
<1> QED
  BY <1>1, <1>2, PTL

(* A native function is only called on entities of the kind it takes.       *)
THEOREM NativesGetTheirKind ==
  KeepsFields /\ KeepsCalls => (Spec => []KindsMatch)
<1> SUFFICES ASSUME KeepsFields, KeepsCalls PROVE Spec => []KindsMatch
  OBVIOUS
<1>1. CInv => KindsMatch
  BY DEF CInv, Right
<1>2. Spec => []CInv
  BY AlwaysCInv
<1> QED
  BY <1>1, <1>2, PTL

(* An element read or written lies in the live buffer of that very array,   *)
(* also after its model was released, and buffers and words agree.          *)
THEOREM ElementsAreOwned ==
  KeepsFields /\ KeepsCalls => (Spec => []ArraysSafe)
<1> SUFFICES ASSUME KeepsFields, KeepsCalls PROVE Spec => []ArraysSafe
  OBVIOUS
<1>1. ASSUME CInv PROVE ArraysSafe
  <2>1. ElementSafe /\ Owned(heap, buffers)
    BY <1>1 DEF CInv, Right
  <2>2. ASSUME NEW i \in DOMAIN buffers
        PROVE  heap[buffers[i].owner[1]].word[buffers[i].owner[2]]
               = IF buffers[i].freed THEN <<0, -1>> ELSE <<i, buffers[i].size>>
    <3>1. PICK r \in DOMAIN heap : \E f \in Arrays(heap[r].class) :
            /\ buffers[i].owner = Owner(heap, r, f)
            /\ WordFor(heap, r, f) = IF buffers[i].freed THEN <<0, -1>> ELSE <<i, buffers[i].size>>
      BY <2>1 DEF Owned
    <3>2. PICK f \in Arrays(heap[r].class) :
            /\ buffers[i].owner = Owner(heap, r, f)
            /\ WordFor(heap, r, f) = IF buffers[i].freed THEN <<0, -1>> ELSE <<i, buffers[i].size>>
      BY <3>1
    <3>3. buffers[i].owner[1] = r /\ buffers[i].owner[2] = At[heap[r].class][f.name]
      BY <3>2 DEF Owner
    <3> QED
      BY <3>2, <3>3 DEF WordFor
  <2> QED
    BY <2>1, <2>2 DEF ArraysSafe, ElementSafe
<1>2. Spec => []CInv
  BY AlwaysCInv
<1> QED
  BY <1>1, <1>2, PTL

(* What a base of a record's class finds there.                             *)
LEMMA SeenByBase ==
  ASSUME KeepsFields, CInv, NEW r \in DOMAIN heap, NEW b \in ToSet(Mro[heap[r].class]),
         NEW f \in Shown(b)
  PROVE  LET word == WordAt(r, At[b][f.name])
         IN  CASE Kind(f) \in {"Child", "Ref"}       ->
                    word = Null \/ Astray(TypeOf(f), word) \/ Denotes(TypeOf(f), word)
               [] Kind(f) \in {"list", "list[Ref]"} ->
                    \A i \in DOMAIN word : word[i] = Null \/ Denotes(TypeOf(f), word[i])
               [] OTHER                              -> Denotes(TypeOf(f), <<r, At[b][f.name]>>)
<1>w. PICK word : word = WordAt(r, At[b][f.name])
  OBVIOUS
<1>c. PICK c : c = heap[r].class
  OBVIOUS
<1>1. c \in Usable /\ c \in Classes
  BY <1>c, UsableClass DEF CInv, Shaped
<1>2. b \in Classes /\ IsA(c, b)
  BY <1>1, <1>c, Inherited
<1>3. PICK g \in Shown(c) : /\ g.name = f.name /\ Kind(g) = Kind(f) /\ TypeOf(g) = TypeOf(f)
                            /\ At[c][f.name] = At[b][f.name]
  BY <1>1, <1>2, SeenThroughBase
<1>4. word = WordFor(heap, r, g)
  <2>1. At[c][g.name] \in DOMAIN heap[r].word
    BY <1>c DEF CInv, Shaped, Offsets
  <2> QED
    BY <1>w, <1>c, <1>3, <2>1 DEF WordAt, WordFor
<1>5. /\ Kind(f) \in {"Child", "Ref"} =>
           Reaches(ClassOf(heap), TypeOf(f), word)
      /\ Kind(f) \in {"list", "list[Ref]"} =>
           \A i \in DOMAIN word : MayPoint(ClassOf(heap), TypeOf(f), word[i])
  BY <1>c, <1>3, <1>4 DEF CInv, Filled
<1>6. CASE Kind(f) \in {"Child", "Ref"}
  BY <1>w, <1>5, <1>6, PointsDenotes DEF Reaches, MayPoint
<1>7. CASE Kind(f) \in {"list", "list[Ref]"}
  BY <1>w, <1>5, <1>7, PointsDenotes DEF MayPoint
<1>8. CASE Kind(f) \notin {"Child", "Ref", "list", "list[Ref]"}
  <2>1. Kind(g) \in {"Entity", "Array"}
    BY <1>3, <1>8 DEF Shown
  <2>2. TypeOf(f)[1] # "model"
    <3>1. TypeOf(g)[1] \in HandleSorts \cup {"array"}
      BY <1>1, <2>1, FieldTypes
    <3> QED
      BY <1>3, <3>1 DEF HandleSorts
  <2>p. PICK p : p = <<r, At[b][f.name]>>
    OBVIOUS
  <2>3. p[1] = r /\ p[2] = At[c][g.name]
    BY <2>p, <1>3
  <2>4. Denotes(TypeOf(f), p)
    BY <1>c, <1>3, <2>2, <2>3 DEF Denotes
  <2> QED
    BY <1>8, <2>4, <2>p
<1> QED
  BY <1>6, <1>7, <1>8

(* The state is well-formed; what a record holds is what the class that     *)
(* looks at it declares, for every base; and stores hold models of their    *)
(* class.                                                                   *)
THEOREM RecordsAreTyped ==
  KeepsFields /\ KeepsCalls => (Spec => []HeapSound)
<1> SUFFICES ASSUME KeepsFields, KeepsCalls PROVE Spec => []HeapSound
  OBVIOUS
<1>1. ASSUME CInv PROVE HeapSound
  <2>1. TypeOK
    BY <1>1 DEF CInv, Known, Shaped, Offsets, Owned, TypeOK
  <2>2. ASSUME NEW p \in DOMAIN stores, NEW i \in DOMAIN stores[p]
        PROVE  \/ stores[p][i] = Null
               \/ Denotes(<<"model", EntityAt(p).type[2]>>, stores[p][i])
    <3>1. PICK r \in DOMAIN heap : \E f \in Shown(heap[r].class) :
            /\ Kind(f) = "Entity" /\ IsQueue(f) /\ p = Owner(heap, r, f)
            /\ \A n \in DOMAIN stores[p] : MayPoint(ClassOf(heap), <<"model", f.arg>>, stores[p][n])
      BY <1>1 DEF CInv, Stocked
    <3>2. PICK f \in Shown(heap[r].class) :
            /\ Kind(f) = "Entity" /\ IsQueue(f) /\ p = Owner(heap, r, f)
            /\ \A n \in DOMAIN stores[p] : MayPoint(ClassOf(heap), <<"model", f.arg>>, stores[p][n])
      BY <3>1
    <3>3. EntityAt(p) = WordFor(heap, r, f)
      BY <3>2 DEF EntityAt, Owner, WordFor
    <3>4. WordFor(heap, r, f) = [made |-> Created(f), type |-> HandleType(f)]
      BY <1>1, <3>2 DEF CInv, Filled
    <3>5. EntityAt(p).type = HandleType(f)
      BY <3>3, <3>4
    <3>6. HandleType(f)[2] = f.arg
      BY <3>2, HandleTypeHas DEF IsQueue
    <3>7. stores[p][i] = Null \/ Denotes(<<"model", f.arg>>, stores[p][i])
      BY <3>2, PointsDenotes DEF MayPoint
    <3> QED
      BY <3>5, <3>6, <3>7
  <2> QED
    BY <1>1, <2>1, <2>2, SeenByBase DEF HeapSound
<1>2. Spec => []CInv
  BY AlwaysCInv
<1> QED
  BY <1>1, <1>2, PTL
=============================================================================
