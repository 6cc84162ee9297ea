----------------------------- MODULE MCGdbSession -----------------------------
(***************************************************************************)
(* Instances of GdbSession for TLC: a program that loops, one that stores  *)
(* and returns, and one that jumps into a fault.                           *)
(***************************************************************************)
EXTENDS GdbSession

I(op) == [op |-> op, to |-> 0, stores |-> FALSE]
Store(op) == [I(op) EXCEPT !.stores = TRUE]
Jump(t) == [I("jump") EXCEPT !.to = t]
Loops == <<I("next"), Jump(1)>>
MCPrograms == {Loops, <<Store("next"), I("ret")>>, <<Jump(2), Store("fault")>>}
MCImage == [x \in Cell |-> 0]

Plain(kinds) == [op : kinds, at : {0}, val : {0}]
MCMessages ==
         Plain({"?", "g", "c", "s", "q", "bad", "", "k", "D", "int"})
    \cup [op : {"Z", "z"}, at : {1}, val : {0}]
    \cup [op : {"m"}, at : Cell, val : {0}]
    \cup [op : {"M"}, at : Cell, val : {1}]
    \cup [op : {"G"}, at : {1, NoPC}, val : {1}]
===============================================================================
