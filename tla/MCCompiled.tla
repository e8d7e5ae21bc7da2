----------------------------- MODULE MCCompiled ------------------------------
(* A few classes for compiled code to run on. *)
EXTENDS CompiledProps

An(name, origin, arg) ==
  [name |-> name, origin |-> origin, arg |-> arg, item |-> "", optional |-> FALSE]
Opt(a) == [a EXCEPT !.optional = TRUE]

MCMro ==
  [Shop   |-> <<"Shop", "Item">>, Part |-> <<"Part">>, Item |-> <<"Item">>,
   Node   |-> <<"Node", "Item">>, Leaf |-> <<"Leaf", "Node", "Item">>,
   Strict |-> <<"Strict", "Node", "Item">>,   (* must have what Node may    *)
   Side   |-> <<"Side">>,
   Both   |-> <<"Both", "Node", "Item", "Side">>,   (* two with fields      *)
   Calls  |-> <<"Calls">>,
   Mixed  |-> <<"Mixed", "Calls", "Node", "Item">>, (* and two with slots   *)
   Loose  |-> <<"Loose", "Node", "Item">>]    (* overrides undecorated      *)
MCAnnotated ==
  [Shop   |-> <<An("lead", "Node", ""), An("crew", "list[Ref]", "Node"),
                An("desk", "Resource", ""), An("jobs", "PriorityStore", "Item"),
                [An("desks", "list[Ref]", "Resource") EXCEPT !.item = ""]>>,
   Item   |-> <<An("flag", "Field", "bool")>>,
   Node   |-> <<Opt(An("next", "Ref", "Node")), An("clerk", "Ref", "Resource")>>,
   Part   |-> <<An("size", "Param", "int"), An("table", "Array", "int")>>,
   Leaf   |-> <<An("open", "Field", "bool"), An("table", "Array", "int")>>,
   Strict |-> <<An("next", "Ref", "Node")>>,
   Side   |-> <<Opt(An("link", "Ref", "Part"))>>,
   Both   |-> <<>>, Calls |-> <<>>, Mixed |-> <<>>, Loose |-> <<>>]
Fn(name, role, types, returns) ==
  [name |-> name, role |-> role,
   signature |-> [parameters |-> [i \in DOMAIN types |-> [type |-> types[i], default |-> FALSE]],
                  returns |-> returns]]
Pick == Fn("pick", "function", <<"Item">>, "Item")
MCMethods ==
  [Shop   |-> <<Fn("serve", "process", <<>>, "None")>>,
   Item   |-> <<Pick>>,
   Node   |-> <<Fn("tick", "event", <<>>, "None")>>,
   Leaf   |-> <<Fn("ready", "predicate", <<>>, "None"), Pick>>,
   Calls  |-> <<Fn("tick", "event", <<>>, "None"), Fn("hand", "function", <<"Calls">>, "None")>>,
   Loose  |-> <<Fn("tick", "none", <<>>, "None")>>]
  @@ [c \in {"Part", "Strict", "Side", "Both", "Mixed"} |-> <<>>]
MCEnums == [Color |-> [int |-> TRUE, codes |-> {0, 1}]]

S(r) == <<r, 0>>
Desk == <<1, Offset("Shop", "desk")>>
Shop(crew) ==
  [class |-> "Shop", bound |-> [lead |-> S(2), crew |-> crew,
                                desks |-> <<Desk>>]]
NodeOf(c, next) == [class |-> c, bound |-> [next |-> next, clerk |-> Desk, table |-> 1,
                                  link |-> <<0, 0>>]]
PartOf  == [class |-> "Part", bound |-> [table |-> 1]]
Tree(c) == <<Shop(<<S(2)>>), NodeOf(c, S(2))>>

MCTrees    == {Tree("Leaf"), Tree("Strict"), Tree("Both"), Tree("Mixed"), Tree("Loose")}
LooseTrees == {<<Shop(<<S(2), <<0, 0>>>>), NodeOf("Leaf", S(2))>>}
MCDefault(c, name) == IF c = "Leaf" THEN 1 ELSE -1
MCLengths == {Omitted, -1, 0}

(* What the proofs ask of classes holds of these. *)
ASSUME InstanceAssumption == KeepsFields /\ KeepsCalls
=============================================================================
