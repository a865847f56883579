------------------------------- MODULE MCQuery -------------------------------
(* Three rows of a class whose columns x and x_0 give parameters that could   *)
(* have the same names, with a null and a reference.                          *)

EXTENDS Query

MCFields == {"id", "x", "x_0", "r"}
MCColumn == "id" :> <<"id">> @@ "x" :> <<"x">> @@ "x_0" :> <<"x", "_", "0">> @@ "r" :> <<"r">>
MCWords == {"id", "x", "_", "r", "limit", "offset"} \cup ToSet(Digit)
MCLike == {<<0, 0>>, <<1, 1>>, <<2, 2>>, <<2, 1>>}

R(id, x, x0, r) == "id" :> id @@ "x" :> x @@ "x_0" :> x0 @@ "r" :> r

MCTables == {{R(0, 1, 2, 0), R(1, 2, 1, Null), R(2, Null, 2, 0)},
             {R(0, 1, 0, Null), R(1, 1, 1, 1)}}

In == Terminal("x", "IN", <<2, 1>>)
MCFilters ==
    {Expression(In),
     Expression(Not(Terminal("x", "IN", <<0, Null>>))),
     Expression(Not(Binary(Terminal("x_0", "=", <<2>>), "OR", Terminal("x", ">=", <<2>>)))),
     Expression(Binary(Terminal("x_0", "<>", <<1>>), "AND", Terminal("x", "<>", <<1>>))),
     Expression(Terminal("x", "NOT LIKE", <<1>>)),
     Expression(Terminal("r", "=", <<Null>>)),
     Expression(Terminal("r", "IN", <<1>>)),
     Expression(Terminal("x", "<", <<Null>>)),
     Expression(Terminal("y", "=", <<1>>)),
     Invokable({r \in Row : r["x_0"] = 2})}

MCOrders == {[field |-> "x_0", ascending |-> FALSE], [field |-> "x", ascending |-> TRUE]}
MCLimits == {-1, 0, 1}
MCOffsets == {-1, 1}

=============================================================================
