---------------------------- MODULE MCMapRuntime ----------------------------
(* MapRuntime on five keys.  At capacity 4 and 8 the probes of three of     *)
(* them start in the last two slots and wrap around into the home of a     *)
(* fourth; at capacity 16 they spread.                                     *)
EXTENDS MapRuntime, TLC

CONSTANTS k1, k2, k3, k4, k5

MCKeys == {k1, k2, k3, k4, k5}
MCHash == k1 :> 7 @@ k2 :> 15 @@ k3 :> 6 @@ k4 :> 16 @@ k5 :> 3
=============================================================================
