------------------------------ MODULE MCAssembly -------------------------------
(* A shop with a default desk, a list of desks, and references to them. *)
EXTENDS AssemblyProps

An(name, origin, arg) ==
  [name |-> name, origin |-> origin, arg |-> arg, item |-> "", optional |-> FALSE]
Opt(a) == [a EXCEPT !.optional = TRUE]
MCMro == [Shop |-> <<"Shop">>, Desk |-> <<"Desk">>, Fast |-> <<"Fast", "Desk">>]
MCAnnotated ==
  [Shop |-> <<An("desk", "Desk", ""), An("rows", "list", "Desk"),
              Opt(An("watch", "Ref", "Desk")), Opt(An("pick", "Ref", "Resource"))>>,
   Desk |-> <<An("clerk", "Resource", ""), An("idle", "Condition", ""),
              Opt(An("shop", "Ref", "Shop")), Opt(An("inner", "Desk", "")),
              An("seats", "Array", "int")>>,
   Fast |-> <<An("open", "Field", "bool")>>]
MCMethods == [c \in DOMAIN MCMro |-> <<>>]
MCEnums   == [Color |-> [int |-> TRUE, codes |-> {0, 1}]]
MCAttach  == [Shop |-> "", Desk |-> "shop", Fast |-> "shop"]
Scalar    == [is |-> "scalar"]
MCDefault(c, name) ==
  CASE c = "Shop" /\ name = "desk"  -> Obj(3)
    [] c # "Shop" /\ name = "clerk" -> Obj(1)
    [] c # "Shop" /\ name = "idle"  -> Obj(2)
    [] c # "Shop" /\ name = "seats" -> Length(2)
    [] name = "open"                -> Scalar
    [] OTHER                        -> Absent

Desk(c, clerk, idle) == [class |-> c, attrs |-> [clerk |-> Obj(clerk), idle |-> Obj(idle)]]
MCTemplates == 1 .. 5
Base == <<Entity("Resource", <<>>), Entity("Condition", <<Obj(1)>>), Desk("Desk", 4, 5),
          Entity("Resource", <<>>), Entity("Condition", <<Obj(4)>>)>>
Plain == Base \o
  <<[class |-> "Shop", attrs |-> [rows |-> Obj(7)]], HostList(<<>>),
    Desk("Desk", 9, 10), Entity("Resource", <<>>), Entity("Condition", <<Obj(9)>>),
    Desk("Fast", 12, 13), Entity("Resource", <<>>), Entity("Condition", <<Obj(12)>>)>>
Tables == [Plain EXCEPT ![8].attrs = (("seats" :> Swept(2, <<Length(1), Length(3)>>)) @@ @)]
MCWorlds == {Tables}

(* One resource is the clerk of two desks that are both in the list.        *)
Shared == [Plain EXCEPT ![11].attrs.clerk = Obj(9), ![13].attrs.observed = Tuple(<<Obj(9)>>),
                        ![7].attrs.items = Tuple(<<Obj(8), Obj(11)>>)]
SharedWorlds == {Shared}
=============================================================================
