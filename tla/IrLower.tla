------------------------------- MODULE IrLower -------------------------------
(***************************************************************************)
(* Lowering of a function's statements to IR (src/ir/ir_lower.c), on       *)
(* functions over scalar variables.  The context c is the LowerCtx: the    *)
(* function being built, the block instructions are added to, the names    *)
(* bound so far and the innermost loop's targets.                          *)
(***************************************************************************)
EXTENDS CcoSource

\* No enclosing loop.
NoLoop == [step |-> -1, exit |-> -1]

CurrentTerminated(c) == Terminated(c.fn.body[c.block])

EmitInst(c, inst) == [c EXCEPT !.fn = AddInstruction(@, c.block, inst)]

\* An instruction with a result: ir_builder_next_reg, then the add.
EmitDef(c, inst) ==
    LET r == Reg(c.fn.nreg)
    IN  [c |-> EmitInst([c EXCEPT !.fn.nreg = @ + 1], [inst EXCEPT !.dst = r]), v |-> r]

EmitOp(c, op, lhs, rhs) == EmitDef(c, Instr(op, Null, lhs, rhs))

\* sym_push; a binding is never popped, and a variable's slot is named after
\* the variable alone.
SymPush(c, x) == [c EXCEPT !.syms = @ \cup {x}]

\* lower_expr
RECURSIVE LowerExpr(_, _)
LowerExpr(c, e) ==
    CASE e[1] = "num" -> EmitOp(c, "const", IntVal(e[2]), Null)
      [] e[1] = "var" /\ e[2] \in c.syms -> EmitOp(c, "load", Slot(e[2]), Null)
      [] e[1] = "var" /\ e[2] \notin c.syms -> EmitOp(c, "const", IntVal(0), Null)
      [] e[1] = "un" -> LET r == LowerExpr(c, e[3]) IN EmitOp(r.c, e[2], r.v, Null)
      [] e[1] = "bin" ->
            LET l == LowerExpr(c, e[3])
                r == LowerExpr(l.c, e[4])
            IN  EmitOp(r.c, e[2], l.v, r.v)
      [] e[1] = "call" ->
            LET r == LowerExpr(c, e[2])
            IN  EmitDef(r.c, [Instr("call", Null, Null, Null) EXCEPT !.args = <<r.v>>])

\* lower_stmt NODE_LET: the slot is added to the entry block and bound
\* before the initializer is lowered.
LowerLet(c, x, e) ==
    LET a == [c EXCEPT !.fn = AddInstruction(@, 0, Instr("alloca", Slot(x), Null, Null))]
        r == LowerExpr(SymPush(a, x), e)
    IN  EmitInst(r.c, Instr("store", Null, r.v, Slot(x)))

\* lower_stmt NODE_ASSIGN: an unknown name is dropped.
LowerAssign(c, x, e) ==
    IF x \notin c.syms THEN c ELSE
    LET r == LowerExpr(c, e) IN EmitInst(r.c, Instr("store", Null, r.v, Slot(x)))

\* ir_builder_set_insert_block; a branch to b unless the block has ended.
At(c, b) == [c EXCEPT !.block = b]
Close(c, b) == IF CurrentTerminated(c) THEN c ELSE EmitInst(c, Br(b))
NewBlocks(c, n) == [c EXCEPT !.fn = FoldLeft(LAMBDA f, i : BlockCreate(f), @, [i \in 1..n |-> i])]

RECURSIVE LowerStmt(_, _), LowerBlock(_, _)

LowerIf(c, cond, thenB) ==
    LET r == LowerExpr(c, cond)
        b == c.fn.nblock                                   \* if.then, if.merge
        t == At(EmitInst(NewBlocks(r.c, 2), CondBr(r.v, b, b + 1)), b)
    IN  At(Close(LowerBlock(t, thenB), b + 1), b + 1)

LowerIfElse(c, cond, thenB, elseB) ==
    LET r == LowerExpr(c, cond)
        b == c.fn.nblock                          \* if.then, if.else, if.merge
        t == At(EmitInst(NewBlocks(r.c, 3), CondBr(r.v, b, b + 1)), b)
        e == At(Close(LowerBlock(t, thenB), b + 2), b + 1)
    IN  At(Close(LowerBlock(e, elseB), b + 2), b + 2)

LowerWhile(c, cond, body) ==
    LET b == c.fn.nblock                  \* while.cond, while.body, while.end
        h == At(EmitInst(NewBlocks(c, 3), Br(b)), b)
        r == LowerExpr(h, cond)
        l == [At(EmitInst(r.c, CondBr(r.v, b + 1, b + 2)), b + 1)
                EXCEPT !.loop = [step |-> b, exit |-> b + 2]]
    IN  [At(Close(LowerBlock(l, body), b), b + 2) EXCEPT !.loop = c.loop]

LowerFor(c, init, cond, step, body) ==
    LET i == LowerStmt(c, init)
        b == i.fn.nblock              \* for.cond, for.body, for.step, for.end
        h == At(EmitInst(NewBlocks(i, 4), Br(b)), b)
        r == LowerExpr(h, cond)
        l == [At(EmitInst(r.c, CondBr(r.v, b + 1, b + 3)), b + 1)
                EXCEPT !.loop = [step |-> b + 2, exit |-> b + 3]]
        s == LowerStmt(At(Close(LowerBlock(l, body), b + 2), b + 2), step)
    IN  [At(Close(s, b), b + 3) EXCEPT !.loop = c.loop]

\* lower_stmt: nothing is added once the current block has ended.
LowerStmt(c, t) ==
    IF CurrentTerminated(c) THEN c ELSE
    CASE t[1] = "let" -> LowerLet(c, t[2], t[3])
      [] t[1] = "set" -> LowerAssign(c, t[2], t[3])
      [] t[1] = "expr" -> LowerExpr(c, t[2]).c
      [] t[1] = "print" ->
            LET r == LowerExpr(c, t[2]) IN EmitInst(r.c, Instr("print", Null, r.v, Null))
      [] t[1] = "if" -> LowerIf(c, t[2], t[3])
      [] t[1] = "ifelse" -> LowerIfElse(c, t[2], t[3], t[4])
      [] t[1] = "while" -> LowerWhile(c, t[2], t[3])
      [] t[1] = "for" -> LowerFor(c, t[2], t[3], t[4], t[5])
      [] t[1] = "break" -> IF c.loop = NoLoop THEN c ELSE EmitInst(c, Br(c.loop.exit))
      [] t[1] = "continue" -> IF c.loop = NoLoop THEN c ELSE EmitInst(c, Br(c.loop.step))
      [] t[1] = "return" ->
            LET r == LowerExpr(c, t[2]) IN EmitInst(r.c, Instr("ret", Null, r.v, Null))

LowerBlock(c, B) == FoldLeft(LowerStmt, c, B)

\* lower_function, with one integer parameter p and an integer result.
LowerFunction(program) ==
    LET e == BlockCreate(NoFunction)
        a == AddInstruction(e, 0, Instr("alloca", Slot("p"), Null, Null))
        p == AddInstruction(a, 0, Instr("store", Null, Param, Slot("p")))
        b == LowerBlock([fn |-> p, block |-> 0, syms |-> {"p"}, loop |-> NoLoop], program)
        z == EmitOp(b, "const", IntVal(0), Null)
    IN  IF CurrentTerminated(b) THEN b.fn
        ELSE EmitInst(z.c, Instr("ret", Null, z.v, Null)).fn
=============================================================================
