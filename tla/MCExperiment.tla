---------------------------- MODULE MCExperiment ----------------------------
(* A small world of inputs for Experiment. *)
EXTENDS ExperimentProps, TLC

TagNumber(tag) == CASE tag = "a" -> 1 [] tag = "b" -> 4 [] tag = "c" -> 6 [] tag = "j" -> 11
                    [] tag = "clone" -> 17
MCRaw(seed, tag, k) == (7 * seed + 5 * TagNumber(tag) + 3 * k + k * k * seed) % 23
MCSeeds(mode, p, r) == CASE mode = "common"      -> 3 * r
                            [] mode = "independent" -> 3 * r + 10 * p

(* Joint observations, and a series with a season of two buckets.           *)
Base(kind, policy) == [kind |-> kind, policy |-> policy, tag |-> None, max |-> NoMax, hint |-> 2,
                       stable |-> TRUE, data |-> <<10, 21, 32, 43, 54>>]
Fit == [nonnegative |-> TRUE, start |-> 3, period |-> 2, errors |-> <<-1, 2, 0, 3, -2>>,
        trend |-> <<1, 2, 3, 4, 5>>, line |-> <<0, 1>>, seasonal |-> <<0, 6, 1, 5, 0>>,
        poly |-> <<2, 1>>, phi |-> 1, burn |-> 2, mean_block |-> 2]
Joint(data) == [Base("stationary", "extend") EXCEPT !.tag = "j", !.data = data]
               @@ [mean_block |-> 2]
MCSources ==
  [first   |-> Joint(<<10, 21, 32, 43, 54>>),
   second  |-> Joint(<<5, 4, 3, 2, 1>>),
   iid     |-> [Base("iid", "extend") EXCEPT !.max = 5],
   circle  |-> Base("circular_block", "extend") @@ [block |-> 3],
   blocks  |-> Base("moving_block", "extend") @@ [block |-> 3],
   demand  |-> [Base("intermittent", "extend") EXCEPT !.data = <<0, 7, 0, 8, 9>>]
               @@ [p01 |-> 2, p11 |-> 3],
   fitted  |-> Base("residual", "extend") @@ Fit,
   poly    |-> Base("residual", "extend") @@ [Fit EXCEPT !.period = 0, !.mean_block = 0],
   signs   |-> [Base("wild", "fail") EXCEPT !.max = 2] @@ Fit,
   sieve   |-> Base("sieve", "extend") @@ Fit,
   wrapped |-> [Base("iid", "wrap") EXCEPT !.max = 2],
   round   |-> Base("iid", "wrap"),
   custom  |-> [Base("custom", "fail") EXCEPT !.stable = FALSE],
   stops   |-> [Base("trace", "end_trial") EXCEPT !.data = <<1, 2>>],
   draws   |-> Base("distribution", "fail"),
   none    |-> Base("empty", "fail")]

Next1(f)     == [field |-> f, clone |-> FALSE, bucket |-> -1]
Spawned(f)   == [field |-> f, clone |-> TRUE, bucket |-> -1]
Bucket(f, k) == [field |-> f, clone |-> FALSE, bucket |-> k]
Times(n, s)  == FlattenSeq([i \in 1 .. n |-> s])
Bind(a, b, c) == [a |-> a, b |-> b, c |-> c]
P(bind, option, reads) == [bind |-> bind, option |-> option, reads |-> reads]

(* Joint members read at different rates, common or not, under two options. *)
JointDesign ==
  <<P(Bind("first", "second", "fitted"), "both", Times(3, <<Next1("a")>>) \o <<Next1("b")>>),
    P(Bind("first", "second", "fitted"), "one", Times(5, <<Next1("a")>>)),
    P(Bind("first", "second", "sieve"), "both", <<Next1("b"), Bucket("c", 6), Next1("b"), Next1("b")>>)>>
(* Bounded sources: one that may not double, one that runs out for good.    *)
BoundedDesign ==
  <<P(Bind("iid", "circle", "poly"), "both", Times(4, <<Next1("a"), Next1("b")>>)),
    P(Bind("iid", "demand", "poly"), "both", Times(5, <<Next1("a")>>)),
    P(Bind("blocks", "demand", "sieve"), "both", Times(4, <<Next1("b")>>) \o <<Bucket("c", 9)>>)>>
(* Policies that end a trial, and code that fails.                          *)
PolicyDesign ==
  <<P(Bind("stops", "draws", "fitted"), "both", Times(3, <<Next1("b"), Next1("a")>>)),
    P(Bind("signs", "draws", "fitted"), "both", Times(3, <<Next1("b"), Next1("a")>>)),
    P(Bind("stops", "none", "sieve"), "one", <<Next1("a"), NoRead>>)>>
(* A spawned model's copies.                                                *)
CloneDesign ==
  <<P(Bind("first", "draws", "fitted"), "both",
      <<Next1("a")>> \o Times(3, <<Spawned("a")>>) \o <<Spawned("b"), Next1("a")>>),
    P(Bind("blocks", "stops", "sieve"), "both", Times(3, <<Next1("a"), Spawned("a")>>))>>
(* Rows read round past their end, by a copy too, one of them of a bounded  *)
(* source, and one that depends on its length.                              *)
RoundDesign ==
  <<P(Bind("wrapped", "round", "fitted"), "both",
      Times(3, <<Next1("a"), Next1("b"), Spawned("a")>>)),
    P(Bind("custom", "wrapped", "fitted"), "one", <<Next1("a"), Next1("b"), Next1("a")>>)>>
MCDesigns == {JointDesign, BoundedDesign, PolicyDesign, CloneDesign, RoundDesign}

MCFields   == <<"a", "b", "c">>
MCParts    == [both |-> {"a", "b", "c"}, one |-> {"a", "b"}]
MCSelected == {<<3, 1>>}
MCMemories == {4, 14, 100}

(* What the proof about reports asks of the reads holds of the designs.     *)
ASSUME ReportAssumption == Reportable
=============================================================================
