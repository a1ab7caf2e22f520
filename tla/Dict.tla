-------------------------------- MODULE Dict --------------------------------
(***************************************************************************)
(* What a compiled `map[K]V' promises its program: a partial function from *)
(* keys to values, changed in one step by the operation that returns.      *)
(* put takes ownership of the value and frees the one it replaces, remove  *)
(* gives the value back, free frees all of them; get and remove of a       *)
(* missing key end the program, and so may any operation that allocates.   *)
(***************************************************************************)
EXTENDS Integers, FiniteSets, Sequences

CONSTANTS Keys, Values, NULL

VARIABLES live,    \* the map exists
          dict,    \* its contents
          op,      \* the operation that was called, or "idle", or "exited"
          key, val,
          ret, owner

vars == <<live, dict, op, key, val, ret, owner>>

Held(d) == {d[k] : k \in DOMAIN d}
Without(d, k) == [x \in DOMAIN d \ {k} |-> d[x]]
With(d, k, v) == [x \in DOMAIN d \cup {k} |-> IF x = k THEN v ELSE d[x]]
Give(o, vs, who) == [v \in Values |-> IF v \in vs THEN who ELSE o[v]]

Init ==
  /\ live = FALSE /\ dict = [k \in {} |-> NULL]
  /\ op = "idle" /\ key = NULL /\ val = NULL /\ ret = << >>
  /\ owner = [v \in Values |-> "caller"]

Exit == op' = "exited" /\ UNCHANGED <<live, dict, key, val, ret, owner>>

New == /\ op = "idle" /\ ~live
       /\ \/ Exit
          \/ live' = TRUE /\ UNCHANGED <<dict, op, key, val, ret, owner>>

Call(o, k, v) == /\ op = "idle"
                 /\ op' = o /\ key' = k /\ val' = v
                 /\ UNCHANGED <<live, dict, ret, owner>>

Return(r) == op' = "idle" /\ key' = NULL /\ val' = NULL /\ ret' = r

Put ==
  /\ op = "put"
  /\ \/ Exit
     \/ ~live /\ Return(<< >>) /\ UNCHANGED <<live, dict, owner>>
     \/ /\ live
        /\ dict' = With(dict, key, val)
        /\ owner' = [Give(owner, Held(dict) \ Held(dict'), "freed") EXCEPT ![val] = "map"]
        /\ Return(<< >>)
        /\ UNCHANGED live

Get ==
  /\ op = "get"
  /\ IF live /\ key \in DOMAIN dict
     THEN Return(<<dict[key]>>) /\ UNCHANGED <<live, dict, owner>>
     ELSE Exit

Has == /\ op = "has"
       /\ Return(<<live /\ key \in DOMAIN dict>>)
       /\ UNCHANGED <<live, dict, owner>>

Remove ==
  /\ op = "remove"
  /\ IF live /\ key \in DOMAIN dict
     THEN /\ dict' = Without(dict, key)
          /\ owner' = Give(owner, {dict[key]}, "caller")
          /\ Return(<<dict[key]>>)
          /\ UNCHANGED live
     ELSE Exit

(* Every key once, in no promised order. *)
ListKeys ==
  /\ op = "keys"
  /\ \E list \in [1 .. Cardinality(DOMAIN dict) -> DOMAIN dict] :
       /\ {list[n] : n \in DOMAIN list} = DOMAIN dict
       /\ Return(list)
  /\ UNCHANGED <<live, dict, owner>>

Free == /\ op = "idle" /\ live
        /\ live' = FALSE /\ dict' = [k \in {} |-> NULL]
        /\ owner' = Give(owner, Held(dict), "freed")
        /\ UNCHANGED <<op, key, val, ret>>

Allocate == /\ op = "idle"
            /\ \E v \in Values : owner[v] = "freed" /\ owner' = Give(owner, {v}, "caller")
            /\ UNCHANGED <<live, dict, op, key, val, ret>>

Next ==
  \/ New \/ Free \/ Allocate
  \/ \E k \in Keys, v \in Values : owner[v] = "caller" /\ Call("put", k, v)
  \/ \E k \in Keys, o \in {"get", "has", "remove"} : Call(o, k, NULL)
  \/ Call("keys", NULL, NULL)
  \/ Put \/ Get \/ Has \/ Remove \/ ListKeys

(* A called operation returns or ends the program. *)
Spec == /\ Init /\ [][Next]_vars
        /\ WF_vars(Put \/ Get \/ Has \/ Remove \/ ListKeys)
=============================================================================
