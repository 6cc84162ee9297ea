----------------------------- MODULE MCSharedLift -----------------------------
(***************************************************************************)
(* Instances of SharedLift for TLC: five addresses; the instruction at 2   *)
(* is two bytes long, so that 3 is no instruction of a lift from 1, which  *)
(* runs into the function at 4; a lift from there wraps around.            *)
(***************************************************************************)
EXTENDS SharedLift

MCLift == [e \in Entries |-> [n \in Budgets |->
             LET all == IF e = 1 THEN <<1, 2, 4, 5>> ELSE <<4, 5, 1>>
             IN  {all[i] : i \in {j \in DOMAIN all : j <= n}}]]
MCBodies == {{}, {1, 2, 3, 4}, {4, 5}}
MCRef == {[from |-> 1, to |-> 4, type |-> "jump"],
          [from |-> 3, to |-> 4, type |-> "jump"],
          [from |-> 2, to |-> 4, type |-> "table"],
          [from |-> 5, to |-> 3, type |-> "jump"],
          [from |-> 3, to |-> 2, type |-> "call"]}
===============================================================================
