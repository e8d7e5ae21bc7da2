-------------------------------- MODULE Draws --------------------------------
(***************************************************************************)
(* Where the values of inputs come from (src/cimba/inputs): recorded       *)
(* traces, rows that are resampled or fitted on the host, and distributions*)
(* drawn in the trial.  A generator is a stream of raw numbers; a draw     *)
(* function takes them one after the other, and says with its order what a *)
(* longer row has in common with a shorter one.                            *)
(***************************************************************************)
EXTENDS Integers, Sequences, FiniteSets

CONSTANTS
  Raw(_, _, _),  (* the k-th raw number of the generator of a seed and a tag*)
  Sources,       (* the input sources of a study, by name                   *)
  NoMax          (* no bound on the length of a row                         *)

Policies == {"fail", "wrap", "end_trial", "extend"}
Rows     == {"iid", "moving_block", "circular_block", "stationary", "intermittent",
             "residual", "wild", "sieve", "custom"}

(* Every source is a record with these fields and those of its kind.        *)
Shape == {"kind", "policy", "tag", "max", "hint", "stable", "data"}

(* The checks of GeneratedRows, of trace, and of the bootstrap and fitted   *)
(* constructors.                                                            *)
Built(s) ==
  /\ Shape \subseteq DOMAIN s /\ s.policy \in Policies
  /\ s.kind \in Rows \cup {"trace", "distribution", "empty"}
  /\ s.policy = "extend" => s.kind \in Rows /\ s.stable
  /\ s.kind \in Rows => (s.max = NoMax \/ s.max \in Nat \ {0}) /\ s.hint \in Nat \ {0}
  /\ s.kind \in Rows \cup {"trace"} => DOMAIN s.data = 1 .. Len(s.data) /\ Len(s.data) \in Nat \ {0}
  /\ s.kind \in {"moving_block", "circular_block"} => s.block \in 1 .. Len(s.data)
  /\ s.kind = "intermittent" => /\ Cardinality({i \in DOMAIN s.data : s.data[i] # 0}) >= 2
                                /\ \E i \in DOMAIN s.data : s.data[i] = 0
  /\ s.kind = "stationary" => s.mean_block \in Nat \ {0}
  /\ s.kind = "residual" => s.mean_block \in Nat /\ Len(s.errors) \in Nat \ {0}  (* 0: independent *)
  /\ s.kind = "sieve" => s.burn \in Nat
  /\ s.kind = "custom" => ~s.stable
  /\ s.kind = "wild" => /\ s.start \in 0 .. Len(s.data) - 1
                        /\ s.max = Len(s.data) - s.start /\ s.policy = "fail"

ASSUME SourceAssumption == \A x \in DOMAIN Sources : Built(Sources[x])

-----------------------------------------------------------------------------
(* The structure of a fitted series *)

(* _decompose, evaluated on start .. start + length - 1: a seasonal fit     *)
(* tiles its last period beyond the data and extends its trend by a line; a *)
(* polynomial is just evaluated.  STL and the least squares are given.      *)
Phase(s, t) ==
  LET last == Len(s.data) - s.period
  IN  IF t < Len(s.data) THEN t ELSE last + ((t - last) % s.period)
Trend(s, t) == IF t < Len(s.data) THEN s.trend[t + 1] ELSE s.line[1] + s.line[2] * t
Structure(s, length) ==
  [i \in 1 .. length |->
     LET t == s.start + i - 1
     IN  IF s.period = 0 THEN s.poly[1] + s.poly[2] * t
         ELSE Trend(s, t) + s.seasonal[Phase(s, t) + 1]]

Floor(s, x) == IF s.nonnegative /\ x < 0 THEN 0 ELSE x

-----------------------------------------------------------------------------
(* Draw functions, of a generator g = <<seed, tag>> and a length *)

Number(g, k)     == Raw(g[1], g[2], k)
Integer(g, k, n) == Number(g, k) % n             (* rng.integers(0, n)        *)

Iid(g, s, length) == [i \in 1 .. length |-> s.data[Integer(g, i, Len(s.data)) + 1]]

(* Blocks of a fixed length from random starts, cut to the row.             *)
MovingBlock(g, s, length) ==
  [i \in 1 .. length |->
     LET start == Integer(g, (i - 1) \div s.block + 1, Len(s.data) - s.block + 1)
     IN  s.data[start + ((i - 1) % s.block) + 1]]
CircularBlock(g, s, length) ==
  [i \in 1 .. length |->
     LET start == Integer(g, (i - 1) \div s.block + 1, Len(s.data))
     IN  s.data[((start + ((i - 1) % s.block)) % Len(s.data)) + 1]]

(* stationary_indices: a start and a run, each from the generator, until the*)
(* row is full.                                                             *)
StationaryIndices_Starts(g, size, mean_block, length) ==
  [i \in 1 .. length |-> ((Integer(g, 1, size) + Integer(g, length, size) + i) % size) + 1]
StationaryIndices(g, size, mean_block, length) ==
  LET filled[k \in 0 .. length] ==
        IF k = 0 THEN <<>>
        ELSE LET out   == filled[k - 1]
                 start == Integer(g, 2 * k - 1, size)
                 run   == 1 + Integer(g, 2 * k, 2 * mean_block - 1)    (* geometric *)
                 cut   == IF run < length - Len(out) THEN run ELSE length - Len(out)
             IN  out \o [i \in 1 .. cut |-> ((start + i - 1) % size) + 1]
  IN  filled[length]

(* intermittent: in time order, whether there is a demand, then its size.   *)
Nonzero(s) == SelectSeq(s.data, LAMBDA x : x # 0)
Intermittent(g, s, length) ==
  LET state[i \in 0 .. length] ==
        IF i = 0 THEN [on |-> Number(g, 1) % 2 = 0, used |-> 1, row |-> <<>>]
        ELSE LET before == state[i - 1]
                 on     == Number(g, before.used + 1) % 4 < (IF before.on THEN s.p11 ELSE s.p01)
                 size   == Nonzero(s)[Integer(g, before.used + 2, Len(Nonzero(s))) + 1]
             IN  [on |-> on, used |-> before.used + (IF on THEN 2 ELSE 1),
                  row |-> Append(before.row, IF on THEN size ELSE 0)]
  IN  state[length].row

Residual(g, s, length) ==
  LET indices == IF s.mean_block = 0
                 THEN [i \in 1 .. length |-> Integer(g, i, Len(s.errors)) + 1]
                 ELSE StationaryIndices(g, Len(s.errors), s.mean_block, length)
  IN  [i \in 1 .. length |-> Floor(s, Structure(s, length)[i] + s.errors[indices[i]])]

Wild(g, s, length) ==
  [i \in 1 .. length |->
     Floor(s, Structure(s, length)[i] + s.errors[s.start + i] * (2 * Integer(g, i, 2) - 1))]

(* sieve: an autoregression over resampled innovations, burnt in.           *)
Sieve(g, s, length) ==
  LET noise(i) == s.errors[Integer(g, i, Len(s.errors)) + 1]
      state[i \in 0 .. s.burn + length] ==
        IF i = 0 THEN 0 ELSE noise(i) + (s.phi * state[i - 1]) \div 2
  IN  [i \in 1 .. length |-> Floor(s, Structure(s, length)[i] + state[s.burn + i])]

(* A custom source that is not prefix-stable: it depends on the length.     *)
Custom(g, s, length) == [i \in 1 .. length |-> Number(g, i) + length]

-----------------------------------------------------------------------------
(* Rows and streams *)

(* GeneratedRows.generate                                                   *)
Row(s, g, length) ==
  CASE s.kind = "iid"            -> Iid(g, s, length)
    [] s.kind = "moving_block"   -> MovingBlock(g, s, length)
    [] s.kind = "circular_block" -> CircularBlock(g, s, length)
    [] s.kind = "stationary"     ->
         [i \in 1 .. length |->
            s.data[StationaryIndices(g, Len(s.data), s.mean_block, length)[i]]]
    [] s.kind = "intermittent"   -> Intermittent(g, s, length)
    [] s.kind = "residual"       -> Residual(g, s, length)
    [] s.kind = "wild"           -> Wild(g, s, length)
    [] s.kind = "sieve"          -> Sieve(g, s, length)
    [] s.kind = "custom"         -> Custom(g, s, length)

Generated(s) == s.kind \in Rows
=============================================================================
