--------------------------- MODULE MCCorrections ---------------------------
(***************************************************************************)
(* Analysis results over two addresses besides the entry point: each is a  *)
(* function or not, with or without a name, a body, padding before it and  *)
(* calls; the second may be outside the executable sections.               *)
(***************************************************************************)
EXTENDS Corrections

CONSTANTS e, a, b

Result(X, F, N, Z, T, C, D) ==
    [exec |-> X, found |-> {e} \cup F, named |-> N, empty |-> Z, tiny |-> T,
     calls |-> [f \in Addr |-> CASE f = e -> C [] f = a -> D [] f = b -> {a}]]

MCProgram ==
    {Result(Addr, F, N, Z, F \ Z, C, {b}) : F \in SUBSET {a, b},
         N \in SUBSET {a}, Z \in SUBSET {b}, C \in SUBSET {a, b}}
    \cup {Result({e, a}, F, {}, {}, T, {a, b}, {b}) : F \in SUBSET {a},
                                                     T \in SUBSET {a}}
=============================================================================
