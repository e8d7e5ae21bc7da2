------------------------------- MODULE Engine -------------------------------
(***************************************************************************)
(* What the resource code relies on from the vendored Cimba engine (a git  *)
(* submodule that is not part of the repository): the signals a suspended  *)
(* call can return, and the order in which a cmb_resourceguard serves the  *)
(* requests in its waiting room.  Everything here is read off the way      *)
(* src/cimba/native uses the engine.                                       *)
(***************************************************************************)
EXTENDS Integers

(* The signals of docs/concepts/processes.rst, as the code names them.     *)
CMB_PROCESS_SUCCESS     == 0
CMB_PROCESS_PREEMPTED   == -1
CMB_PROCESS_INTERRUPTED == -2
CMB_PROCESS_CANCELLED   == -4
CMB_PROCESS_TIMEOUT     == -5

(* A request key is <<sequence number, episode>>.  Zero is no request.     *)
NoKey == <<0, 0>>

(* One entry of a waiting room: higher rank first, then the request made   *)
(* first.  The entry time needs no field: sequence numbers grow with it.   *)
Ahead(e, f) == \/ e.rank > f.rank
               \/ e.rank = f.rank /\ e.key[1] < f.key[1]

(* The front entry of a waiting room q, as a set: empty when q is.         *)
Front(q) == {e \in q : \A f \in q : f = e \/ Ahead(e, f)}

(* cmb_resourceguard_signal looks at the front entry only, and grants it   *)
(* when the demand function "something to grab" holds.                     *)
Granted(q, in_use, capacity) == IF in_use < capacity THEN Front(q) ELSE {}
=============================================================================
