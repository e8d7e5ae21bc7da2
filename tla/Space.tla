-------------------------------- MODULE Space --------------------------------
(***************************************************************************)
(* The decision space of an optimization (src/cimba/optimize/space.py): a  *)
(* vector of search coordinates and the candidate it stands for.  Numbers  *)
(* are counted in fractions, U of them to 1.                               *)
(***************************************************************************)
EXTENDS Integers, Sequences

CONSTANTS
  U,             (* fractions to 1: the precision of coordinates            *)
  Dimensions,    (* the root decisions, with the type of their fields       *)
  Exp(_), Log(_),(* float exponential and logarithm; neither undoes the other*)
                 (* exactly                                                 *)
  Fields,        (* the scalar fields of the model                          *)
  RootOf,        (* for each decision its dimension: the roots come first,  *)
                 (* the decisions mapped from them follow                   *)
  Map(_,_),      (* of a mapped decision and its root's value               *)
  DecisionOf,    (* the decision that a field holds, 0 if it is a plain value*)
  Fixed          (* the plain values                                        *)

NoStep == 0
Dimension == [type : {"float", "int", "bool"}, low : Int, high : Int, step : Nat,
              log : BOOLEAN]

(* The checks of Decision and of Dimension.                                 *)
WellFormed(d) ==
  /\ d \in Dimension /\ d.low < d.high
  /\ d.step # NoStep => (d.high - d.low) % d.step = 0 /\ ~d.log
  /\ d.log => d.low > 0 /\ d.type = "float"
  /\ d.type = "int" => \A x \in {d.low, d.high, d.step} : x % U = 0
  /\ d.type = "bool" => d.low = 0 /\ d.high = U /\ d.step = NoStep /\ ~d.log

ASSUME UnitAssumption      == U \in Nat \ {0}
ASSUME DimensionAssumption == /\ Dimensions \in Seq(Dimension)
                              /\ \A i \in 1 .. Len(Dimensions) : WellFormed(Dimensions[i])
ASSUME DecisionAssumption  == /\ RootOf \in Seq(1 .. Len(Dimensions))
                              /\ Len(RootOf) >= Len(Dimensions)
                              /\ \A i \in 1 .. Len(Dimensions) : RootOf[i] = i
ASSUME FieldAssumption     == DecisionOf \in [Fields -> 0 .. Len(RootOf)]

Roots  == 1 .. Len(Dimensions)
Held   == {DecisionOf[f] : f \in Fields} \ {0}    (* decisions that fields hold *)
Mapped == Held \ Roots

Clip(x, low, high) == IF x < low THEN low ELSE IF x > high THEN high ELSE x

(* rint: the nearest integer, the even one of two.                          *)
Rint(x) ==
  LET q == x \div U
      r == 2 * (x % U)
  IN  U * (IF r < U \/ (r = U /\ q % 2 = 0) THEN q ELSE q + 1)

Integral(d) == d.type \in {"int", "bool"} \/ d.step # NoStep
Low(d)  == IF d.step # NoStep THEN 0 ELSE IF d.log THEN Log(d.low) ELSE d.low
High(d) == IF d.step # NoStep THEN U * ((d.high - d.low) \div d.step)
           ELSE IF d.log THEN Log(d.high) ELSE d.high

(* Dimension.decode: from a coordinate to the value that a field is given.  *)
OnLattice(d, x) == IF d.step # NoStep THEN d.low + (x \div U) * d.step
                   ELSE IF d.log THEN Exp(x) ELSE x
Decode_Unclipped(d, coordinate) ==
  LET x == Clip(coordinate, Low(d), High(d))
  IN  OnLattice(d, IF Integral(d) THEN Rint(x) ELSE x)
Decode(d, coordinate) ==
  LET x == Clip(coordinate, Low(d), High(d))
  IN  Clip(OnLattice(d, IF Integral(d) THEN Rint(x) ELSE x), d.low, d.high)

(* Dimension.encode, for values that it accepts.                            *)
Encodable(d, value) ==
  /\ value \in d.low .. d.high
  /\ d.type \in {"int", "bool"} => value % U = 0
  /\ d.step # NoStep => (value - d.low) % d.step = 0
Encode(d, value) ==
  IF d.step # NoStep THEN U * ((value - d.low) \div d.step)
  ELSE IF d.log THEN Log(value) ELSE value

(* Space.decode of a vector, and Space.candidate of explicit values: they   *)
(* give every root decision and no other, one on a step lattice takes the   *)
(* way of a coordinate, the others stay as given.                           *)
DecodeAll(vector) == [i \in Roots |-> Decode(Dimensions[i], vector[i])]
Valid(values) ==
  DOMAIN values = Roots /\ \A i \in Roots : Encodable(Dimensions[i], values[i])
Candidate(values) ==
  [i \in Roots |->
     IF Dimensions[i].step # NoStep
     THEN Decode(Dimensions[i], Encode(Dimensions[i], values[i]))
     ELSE values[i]]

(* Space.values, which an Evaluation and the Optimum have: of the decisions *)
(* mapped from the roots too, where a field holds them.                     *)
ValueOf(c, d) == IF d \in Roots THEN c[d] ELSE Map(d, c[RootOf[d]])
Values(c)     == [d \in Roots \cup Mapped |-> ValueOf(c, d)]

(* Space.design: what each field is bound to for a candidate.               *)
Bound(c, f) == IF DecisionOf[f] = 0 THEN Fixed[f] ELSE ValueOf(c, DecisionOf[f])
Bindings(c) == [f \in Fields |-> Bound(c, f)]
=============================================================================
