-------------------------------- MODULE IrOpt --------------------------------
(***************************************************************************)
(* The optimization passes on IR outside SSA form (src/ir/ir_opt.c).  Each *)
(* takes a function and gives [fn, changed], changed being what the pass   *)
(* reports to the fixed-point loop of ir_optimize_function.                *)
(***************************************************************************)
EXTENDS IrVerify

\* replace_value_uses_in_fn; hit tells whether anything was replaced.
ReplaceValue(fn, old, new) ==
    MapFn(fn, LAMBDA i : MapOperands(i, LAMBDA v : IF v = old THEN new ELSE v))
Replaces(fn, old) == \E i \in Instructions(fn) : old \in Operands(i)

\* The positions of a function's instructions, in list order.
Positions(fn) ==
    LET order == Layout(Blocks(fn))
    IN  FlattenSeq([i \in DOMAIN order |->
                       [j \in DOMAIN fn.body[order[i]] |-> <<order[i], j>>]])

AsConst(inst, v) == [inst EXCEPT !.op = "const", !.lhs = v, !.rhs = Null]

(* ------------------------------------------------ pass 4: copy propagation *)
\* ir_opt_copy_propagation: within a block, a load of a slot stored to
\* before it is replaced by the stored value; a call forgets the stores.
ForwardInst(w, b, i) ==
    LET inst == w.fn.body[b][i]
    IN  CASE inst.op = "store" -> [w EXCEPT !.known = (inst.rhs[2] :> inst.lhs) @@ @]
          [] inst.op = "load" /\ inst.lhs[2] \in DOMAIN w.known ->
                [w EXCEPT !.fn = ReplaceValue(@, inst.dst, w.known[inst.lhs[2]]),
                          !.changed = @ \/ Replaces(w.fn, inst.dst)]
          [] inst.op = "call" -> [w EXCEPT !.known = << >>]
          [] OTHER -> w

CopyPropagation(fn) ==
    LET w == FoldLeft(LAMBDA v, at : ForwardInst(IF at[2] = 1 THEN [v EXCEPT !.known = << >>] ELSE v,
                                                 at[1], at[2]),
                      [fn |-> fn, known |-> << >>, changed |-> FALSE], Positions(fn))
    IN  [fn |-> w.fn, changed |-> w.changed]

(* -------------------------------------------- pass 2: constant propagation *)
\* ir_opt_constant_propagation: registers with one definition, a constant.
KnownConst(fn, r) ==
    LET defs == {at \in ToSet(Positions(fn)) : fn.body[at[1]][at[2]].dst = r}
    IN  {fn.body[at[1]][at[2]].lhs : at \in
            {d \in defs : /\ Cardinality(defs) = 1
                          /\ fn.body[d[1]][d[2]].op = "const"
                          /\ IsConst(fn.body[d[1]][d[2]].lhs)}}

ConstantPropagation(fn) ==
    LET known == [r \in {i.dst : i \in {j \in Instructions(fn) : j.op = "const"}} |-> KnownConst(fn, r)]
        sub(v) == IF v \in DOMAIN known /\ known[v] # {} THEN CHOOSE k \in known[v] : TRUE ELSE v
        new == MapFn(fn, LAMBDA i : IF i.op = "const" THEN i ELSE MapOperands(i, sub))
    IN  [fn |-> new, changed |-> new # fn]

(* ----------------------------------------------- pass 1: constant folding *)
\* ir_opt_constant_folding: a division by zero is kept.
FoldInst(inst) ==
    LET a == inst.lhs
        b == inst.rhs
        k == Compute(inst.op, a[2], b[2])
    IN  CASE inst.op \in Arithmetic /\ IsInt(a) /\ IsInt(b)
                /\ (inst.op \in {"div", "mod"} => b[2] # 0) -> AsConst(inst, IntVal(k))
          [] inst.op \in Comparison /\ IsInt(a) /\ IsInt(b) -> AsConst(inst, BoolVal(k))
          [] inst.op \in Logical /\ a[1] = "bool" /\ b[1] = "bool" -> AsConst(inst, BoolVal(k))
          [] inst.op = "neg" /\ IsInt(a) -> AsConst(inst, IntVal(-a[2]))
          [] inst.op = "not" /\ a[1] = "bool" -> AsConst(inst, BoolVal(1 - a[2]))
          [] OTHER -> inst

ConstantFolding(fn) == LET new == MapFn(fn, FoldInst) IN [fn |-> new, changed |-> new # fn]

(* -------------------------------------- pass 3: algebraic simplification *)
\* ir_opt_algebraic_simplification: the operand an instruction is the same
\* as (x + 0, 0 + x, x - 0, x * 1, 1 * x, x / 1), and the constants it gives
\* (x - x, x * 0, 0 * x, x == x, x != x).
SameAs(inst) ==
    LET a == inst.lhs
        b == inst.rhs
        l == [add |-> 0, sub |-> 0, mul |-> 1, div |-> 1]
    IN  IF inst.op \in DOMAIN l /\ b = IntVal(l[inst.op]) THEN a
        ELSE IF inst.op \in {"add", "mul"} /\ a = IntVal(l[inst.op]) THEN b
        ELSE Null

ConstantOf(inst) ==
    LET same == inst.lhs = inst.rhs
    IN  CASE inst.op = "sub" /\ same -> IntVal(0)
          [] inst.op = "mul" /\ IntVal(0) \in {inst.lhs, inst.rhs} -> IntVal(0)
          [] inst.op \in {"eq", "ne"} /\ same -> BoolVal(Truth(inst.op = "eq"))
          [] OTHER -> Null

SimplifyInst(w, b, i) ==
    LET inst == w.fn.body[b][i]
        same == SameAs(inst)
        known == ConstantOf(inst)
    IN  IF same # Null
          THEN [fn |-> [ReplaceValue(w.fn, inst.dst, same) EXCEPT !.body[b][i] = AsConst(inst, same)],
                changed |-> TRUE]
        ELSE IF known # Null
          THEN [fn |-> [w.fn EXCEPT !.body[b][i] = AsConst(inst, known)], changed |-> TRUE]
        ELSE w

AlgebraicSimplification(fn) ==
    FoldLeft(LAMBDA w, at : SimplifyInst(w, at[1], at[2]),
             [fn |-> fn, changed |-> FALSE], Positions(fn))

(* -------------------------------------------- pass 5: dead code elimination *)
\* is_instruction_side_effecting
SideEffecting(op) == op \in {"call", "print", "store", "alloca"} \cup Terminators

\* ir_opt_dead_code_elimination: rounds of removals until one removes nothing.
Unused(fn, inst) ==
    /\ IsReg(inst.dst)
    /\ ~ SideEffecting(inst.op)
    /\ ~ Replaces(fn, inst.dst)

RECURSIVE RemoveDead(_)
RemoveDead(fn) ==
    LET new == [fn EXCEPT !.body = [b \in DOMAIN fn.body |->
                   SelectSeq(fn.body[b], LAMBDA i : ~ Unused(fn, i))]]
    IN  IF new = fn THEN fn ELSE RemoveDead(new)

DeadCodeElimination(fn) == LET new == RemoveDead(fn) IN [fn |-> new, changed |-> new # fn]

(* -------------------------------------------------- pass 6: simplified CFG *)
\* ir_opt_cfg_simplification: branches on a constant, or to one place, become
\* unconditional, and blocks no longer reached from the entry are removed.
SimplifyBranch(inst) ==
    IF inst.op # "condbr" THEN inst
    ELSE IF IsConst(inst.lhs) THEN Br(inst.to[IF inst.lhs[2] # 0 THEN 1 ELSE 2])
    ELSE IF inst.to[1] = inst.to[2] THEN Br(inst.to[1])
    ELSE inst

CfgSimplification(fn) ==
    LET f == MapFn(fn, SimplifyBranch)
        new == [f EXCEPT !.body = [b \in Reachable(f) |-> f.body[b]]]
    IN  [fn |-> new, changed |-> new # fn]

\* The passes in the order ir_optimize_function runs them.
Passes == <<"copy", "constprop", "fold", "algebra", "dce", "cfg">>
RunPass(pass, fn) ==
    CASE pass = "copy" -> CopyPropagation(fn)
      [] pass = "constprop" -> ConstantPropagation(fn)
      [] pass = "fold" -> ConstantFolding(fn)
      [] pass = "algebra" -> AlgebraicSimplification(fn)
      [] pass = "dce" -> DeadCodeElimination(fn)
      [] pass = "cfg" -> CfgSimplification(fn)
=============================================================================
