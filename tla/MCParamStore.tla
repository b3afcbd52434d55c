---------------------------- MODULE MCParamStore ----------------------------
(* Instance of ParamStore for TLC: three parameters, and firmware that has  *)
(* two of them in the other order.                                          *)
EXTENDS ParamStore

CONSTANTS a, b, c, v0, v1

Order(names) == [i \in Index |-> names[i + 1]]
MCLayouts == {Order(<<a, b, c>>), Order(<<b, a, c>>)}
MCDefaultValue == [n \in Names |-> IF n = a THEN v0 ELSE v1]
=============================================================================
