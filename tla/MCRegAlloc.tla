---------------------------- MODULE MCRegAlloc ----------------------------
(* RegAlloc on every table of four intervals over four positions, with any *)
(* calls at the two inner positions, and two integer and one float         *)
(* register.                                                               *)
EXTENDS RegAlloc

Positions == 0 .. 3
OneCaller == <<"r10">>
OneCallee == <<"rbx">>
OneFloat == <<"xmm8">>

Ranges == {r \in Positions \X Positions : r[1] <= r[2]}

\* Either four integers, or integers and floats in turn.
Classes == {[v \in 0 .. 3 |-> "int"], [v \in 0 .. 3 |-> IF v % 2 = 0 THEN "int" ELSE "float"]}

AllTables ==
    {[v \in 0 .. 3 |->
        [start |-> t[v][1], end |-> t[v][2], class |-> c[v],
         crosses |-> \E p \in calls : t[v][1] < p /\ p < t[v][2]]] :
      t \in [0 .. 3 -> Ranges], c \in Classes, calls \in SUBSET {1, 2}}
=============================================================================
