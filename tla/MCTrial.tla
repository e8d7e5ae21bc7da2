------------------------------- MODULE MCTrial -------------------------------
(* An instance of Trial for TLC: one static process, and a model with two   *)
(* processes to spawn.                                                      *)
EXTENDS TrialProps, TLC

CONSTANTS s, a, b, Main, Pair

OwnerOf == (s :> Main) @@ (a :> Pair) @@ (b :> Pair)
(* What each one's code does *)
Lives == (s :> {"spawn", "hold", "interrupt", "release", "resume"})
         @@ (a :> {"hold", "acquire", "release"})
         @@ (b :> {"suspend", "acquire", "timer_set", "interrupt", "end_trial"})
         @@ (Hook :> {"spawn", "release", "fail", "schedule"})
=============================================================================
