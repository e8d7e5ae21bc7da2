------------------------------- MODULE MCStudy -------------------------------
(* A study of two decisions, for TLC: an integer on a lattice, with a linked*)
(* field, and a logarithmic float.                                          *)
EXTENDS StudyProps

(* In halves.  The lattice is 2, 5; the log dimension has 2 .. 8.           *)
TwoDimensions == <<[type |-> "int", low |-> 4, high |-> 10, step |-> 6, log |-> FALSE],
                   [type |-> "float", low |-> 2, high |-> 8, step |-> 0, log |-> TRUE]>>
Vectors == {<<1, 0>>, <<2, 0>>, <<1, 3>>}
Logarithm(x)   == IF x < 4 THEN 0 ELSE IF x < 8 THEN 2 ELSE 3
Exponential(x) == CASE x = 0 -> 1 [] x = 2 -> 4 [] OTHER -> 9   (* a bit off at both ends *)
(* The third decision is mapped from the first; reorder holds it.           *)
DecisionRoots == <<1, 2, 1>>
Below(d, x) == x - 2
FieldDecisions == [size |-> 1, reorder |-> 3, rate |-> 2, cost |-> 0]
Outcomes == {[mean |-> 1, failed |-> 0], [mean |-> 2, failed |-> 1], [mean |-> 1, failed |-> 2]}
SomeBudgets == {2, -1}
None == -1
Plain == [size |-> 0, reorder |-> 0, rate |-> 0, cost |-> 3]
=============================================================================
