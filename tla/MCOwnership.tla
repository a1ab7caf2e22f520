---------------------------- MODULE MCOwnership ----------------------------
(* Families of small functions for model-checking Ownership. *)
EXTENDS Ownership

\* Moves, assignments and jumps in nested blocks and loops.
Moving == [names |-> {"a", "b"}, params |-> <<"a">>,
           ops |-> {"let_new", "let_move", "set_new", "set_self", "eat", "use", "ret", "break", "continue",
                    "if", "while", "match"},
           features |-> {}, code |-> 5, depth |-> 2, iter |-> 2]

\* Borrows of variables of the same and of enclosing blocks.
Borrowing == [names |-> {"a", "b", "r"}, params |-> <<"a">>,
              ops |-> {"let_new", "let_move", "let_borrow", "set_move", "set_borrow", "eat", "use", "ret0", "if"},
              features |-> {}, code |-> 4, depth |-> 1, iter |-> 0]

\* A branch that gives a moved variable a new value.
Reviving == [names |-> {"a", "b"}, params |-> <<"a", "b">>, ops |-> {"set_new", "eat", "use", "if"},
             features |-> {"revive"}, code |-> 5, depth |-> 1, iter |-> 0]

SafeFamilies == {Moving, Borrowing}
RevivingFamilies == {Reviving}
============================================================================
