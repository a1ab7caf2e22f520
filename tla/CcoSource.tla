------------------------------ MODULE CcoSource ------------------------------
(***************************************************************************)
(* The reference: what a Cco function over integer variables prints, calls *)
(* and returns, statement by statement, with lexical block scopes and      *)
(* short-circuiting && and ||.  Statements and expressions are tuples that *)
(* start with the name of their AST node:                                  *)
(*    <<"num", k>> <<"var", x>> <<"bin", op, l, r>> <<"un", op, e>>        *)
(*    <<"call", e>>                                                        *)
(*    <<"let", x, e>> <<"set", x, e>> <<"print", e>> <<"expr", e>>         *)
(*    <<"if", c, B>> <<"ifelse", c, B, C>> <<"while", c, B>>               *)
(*    <<"for", init, c, step, B>> <<"break">> <<"continue">> <<"return", e>>*)
(* where B and C are sequences of statements.                              *)
(***************************************************************************)
EXTENDS IrFunction

\* The position of the innermost declaration of x.
DeclOf(env, x) == SelectLastInSeq(env, LAMBDA d : d[1] = x)

\* An expression gives its value (field v) and the calls it made.
RECURSIVE Eval(_, _)
Eval(s, e) ==
    CASE e[1] = "num" -> [v |-> e[2], s |-> s]
      [] e[1] = "var" -> [v |-> s.env[DeclOf(s.env, e[2])][2], s |-> s]
      [] e[1] = "un" ->
            LET r == Eval(s, e[3])
            IN  [r EXCEPT !.v = IF e[2] = "neg" THEN Compute("sub", 0, @)
                                                ELSE Compute("eq", @, 0)]
      [] e[1] = "call" ->
            LET r == Eval(s, e[2]) IN [r EXCEPT !.s = Emit(@, <<"call", r.v>>)]
      [] e[1] = "bin" ->
            LET l == Eval(s, e[3])
            IN  IF e[2] \in Logical /\ (l.v = 0) = (e[2] = "and")
                  THEN [l EXCEPT !.v = Truth(@ # 0)]
                  ELSE LET r == Eval(l.s, e[4])
                       IN  [r EXCEPT !.v = Compute(e[2], l.v, @)]

\* mode: run, or why the statements that follow are skipped.
RECURSIVE RunStmt(_, _), RunBlock(_, _), RunLoop(_, _, _, _)
RunStmt(s, t) ==
    IF s.mode # "run" THEN s ELSE
    CASE t[1] = "let" ->
            LET r == Eval(s, t[3]) IN [r.s EXCEPT !.env = Append(@, <<t[2], r.v>>)]
      [] t[1] = "set" ->
            LET r == Eval(s, t[3]) IN [r.s EXCEPT !.env[DeclOf(s.env, t[2])][2] = r.v]
      [] t[1] = "print" -> LET r == Eval(s, t[2]) IN Emit(r.s, <<"print", r.v>>)
      [] t[1] = "expr" -> Eval(s, t[2]).s
      [] t[1] = "if" ->
            LET r == Eval(s, t[2]) IN IF r.v # 0 THEN RunBlock(r.s, t[3]) ELSE r.s
      [] t[1] = "ifelse" ->
            LET r == Eval(s, t[2]) IN RunBlock(r.s, IF r.v # 0 THEN t[3] ELSE t[4])
      [] t[1] = "while" -> RunLoop(s, t[2], << >>, t[3])
      [] t[1] = "for" ->
            LET r == RunLoop(RunStmt(s, t[2]), t[3], <<t[4]>>, t[5])
            IN  [r EXCEPT !.env = SubSeq(@, 1, Len(s.env))]
      [] t[1] \in {"break", "continue"} -> [s EXCEPT !.mode = t[1]]
      [] t[1] = "return" ->
            LET r == Eval(s, t[2])
            IN  [Emit(r.s, <<"return", r.v>>) EXCEPT !.mode = "return"]

\* A block's own variables end with it.
RunBlock(s, B) ==
    LET r == FoldLeft(RunStmt, s, B) IN [r EXCEPT !.env = SubSeq(@, 1, Len(s.env))]

\* One loop; when the trips are used up the run is given up (mode lost).
RunLoop(s, c, step, B) ==
    LET t == Eval(s, c)
        r == RunBlock([t.s EXCEPT !.trips = @ - 1], B)
    IN  CASE t.v = 0 -> t.s
          [] t.v # 0 /\ s.trips = 0 -> [s EXCEPT !.mode = "lost"]
          [] OTHER ->
                IF r.mode \in {"run", "continue"}
                  THEN RunLoop(FoldLeft(RunStmt, [r EXCEPT !.mode = "run"], step), c, step, B)
                  ELSE [r EXCEPT !.mode = IF @ = "break" THEN "run" ELSE @]

\* What the program does with argument p, its parameter being named "p"; a
\* function that ends without a return returns 0.
RunSource(program, p, trips) ==
    LET s == RunBlock([env |-> <<<<"p", p>>>>, out |-> << >>, mode |-> "run",
                       trips |-> trips], program)
    IN  [out |-> IF s.mode = "run" THEN Append(s.out, <<"return", 0>>) ELSE s.out,
         done |-> s.mode # "lost"]
=============================================================================
