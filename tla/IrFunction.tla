----------------------------- MODULE IrFunction -----------------------------
(***************************************************************************)
(* One function of the Cco intermediate representation (src/ir/ir.c): its  *)
(* values, instructions, basic blocks and control-flow graph, and what     *)
(* running it prints, calls and returns, as the C that ir_codegen_c.c      *)
(* writes for it does.  A block is known by its id; ids are handed out in  *)
(* list order and blocks are never moved, so the list order is the order   *)
(* of the ids.                                                             *)
(***************************************************************************)
EXTENDS Integers, Sequences, FiniteSets, SequencesExt

(* ---------------------------------------------------------------- values *)
\* IrValue.  Null is the C NULL pointer; a slot is a stack variable by name.
Null == <<"null">>
Reg(n) == <<"reg", n>>
IntVal(k) == <<"int", k>>
BoolVal(k) == <<"bool", k>>
Slot(x) == <<"slot", x>>
Param == <<"param">>

IsReg(v) == v[1] = "reg"
IsInt(v) == v[1] = "int"
IsConst(v) == v[1] \in {"int", "bool"}

(* ---------------------------------------------------------- instructions *)
\* create_instruction: to holds the branch targets, phi the incoming value
\* of each predecessor and slot the variable a phi stands for.
Instr(op, dst, lhs, rhs) ==
    [op |-> op, dst |-> dst, lhs |-> lhs, rhs |-> rhs, args |-> << >>,
     to |-> << >>, phi |-> << >>, slot |-> ""]

Br(b) == [Instr("br", Null, Null, Null) EXCEPT !.to = <<b>>]
CondBr(v, b, c) == [Instr("condbr", Null, v, Null) EXCEPT !.to = <<b, c>>]

Terminators == {"br", "condbr", "ret"}
Terminated(insts) == insts # << >> /\ Last(insts).op \in Terminators

Arithmetic == {"add", "sub", "mul", "div", "mod"}
Comparison == {"eq", "ne", "lt", "le", "gt", "ge"}
Logical == {"and", "or"}

(* --------------------------------------------------- functions and blocks *)
NoFunction == [body |-> << >>, nreg |-> 0, nblock |-> 0]

Blocks(fn) == DOMAIN fn.body

\* A set of blocks in list order.
Layout(S) ==
    IF S = {} THEN << >>
    ELSE SelectSeq([i \in 1..Max(S) + 1 |-> i - 1], LAMBDA b : b \in S)

\* ir_block_create
BlockCreate(fn) ==
    [fn EXCEPT !.body = @ @@ (fn.nblock :> << >>), !.nblock = @ + 1]

\* Mutant: every instruction goes at the end.
AppendAlways(fn, b, inst) == [fn EXCEPT !.body[b] = Append(@, inst)]

\* ir_block_add_instruction: an alloca goes before the block's terminator.
AddInstruction(fn, b, inst) ==
    [fn EXCEPT !.body[b] =
        IF inst.op = "alloca" /\ Terminated(@)
          THEN Front(@) \o <<inst, Last(@)>>
          ELSE Append(@, inst)]

\* ir_recompute_cfg
Successors(fn, b) == IF fn.body[b] = << >> THEN {} ELSE ToSet(Last(fn.body[b]).to)
Predecessors(fn, b) == {a \in Blocks(fn) : b \in Successors(fn, a)}

RECURSIVE Closure(_, _)
Closure(fn, S) ==
    LET T == S \cup UNION {Successors(fn, b) : b \in S}
    IN  IF T = S THEN S ELSE Closure(fn, T)
Reachable(fn) == Closure(fn, {0})

(* ------------------------------------------------------ rewriting a function *)
MapSeq(s, F(_)) == [i \in DOMAIN s |-> F(s[i])]
MapOperands(inst, F(_)) ==
    [inst EXCEPT !.lhs = F(inst.lhs), !.rhs = F(inst.rhs), !.args = MapSeq(inst.args, F)]
MapBlock(fn, b, F(_)) == [fn EXCEPT !.body[b] = MapSeq(fn.body[b], F)]
MapFn(fn, F(_)) == [fn EXCEPT !.body = [b \in DOMAIN fn.body |-> MapSeq(fn.body[b], F)]]

\* Every operand of an instruction, and the registers an instruction reads.
Operands(inst) == {inst.lhs, inst.rhs} \cup ToSet(inst.args)
Uses(inst) == {v \in Operands(inst) : IsReg(v)}

Instructions(fn) == UNION {ToSet(fn.body[b]) : b \in Blocks(fn)}
SlotsOf(fn) == {v[2] : v \in {w \in UNION {Operands(i) \cup {i.dst} : i \in Instructions(fn)} :
                              w[1] = "slot"}}

(* ------------------------------------------------------------ execution *)
\* What a read of a variable or register that was never written gives: a
\* value of its own, so that no run depends on it without showing it.
Undef == 777

TruncDiv(a, b) == LET q == (IF a < 0 THEN -a ELSE a) \div (IF b < 0 THEN -b ELSE b)
                  IN  IF (a < 0) = (b < 0) THEN q ELSE -q
Truth(p) == IF p THEN 1 ELSE 0

Compute(op, a, b) ==
    IF Undef \in {a, b} THEN Undef ELSE
    CASE op = "add" -> a + b
      [] op = "sub" -> a - b
      [] op = "mul" -> a * b
      [] op = "div" -> IF b = 0 THEN Undef ELSE TruncDiv(a, b)
      [] op = "mod" -> IF b = 0 THEN Undef ELSE a - b * TruncDiv(a, b)
      [] op = "eq" -> Truth(a = b)
      [] op = "ne" -> Truth(a # b)
      [] op = "lt" -> Truth(a < b)
      [] op = "le" -> Truth(a <= b)
      [] op = "gt" -> Truth(a > b)
      [] op = "ge" -> Truth(a >= b)
      [] op = "and" -> Truth(a # 0 /\ b # 0)
      [] op = "or" -> Truth(a # 0 \/ b # 0)

\* print_c_val: a missing operand is written as 0.
ValueIn(s, v) ==
    CASE v[1] = "reg" -> s.regs[v[2]]
      [] v[1] \in {"int", "bool"} -> v[2]
      [] v[1] = "param" -> s.param
      [] v[1] = "null" -> 0

Define(s, dst, k) == [s EXCEPT !.regs[dst[2]] = k]
Emit(s, event) == [s EXCEPT !.out = Append(@, event)]

\* gen_function_c: one instruction.  A called function shows its argument
\* and returns it.
RunInst(s, inst) ==
    LET a == ValueIn(s, inst.lhs)
    IN
    CASE inst.op \in {"alloca", "phi"} -> s
      [] inst.op = "load" -> Define(s, inst.dst, s.mem[inst.lhs[2]])
      [] inst.op = "store" -> [s EXCEPT !.mem[inst.rhs[2]] = a]
      [] inst.op = "const" -> Define(s, inst.dst, a)
      [] inst.op = "neg" -> Define(s, inst.dst, Compute("sub", 0, a))
      [] inst.op = "not" -> Define(s, inst.dst, Compute("eq", a, 0))
      [] inst.op \in Arithmetic \cup Comparison \cup Logical ->
            Define(s, inst.dst, Compute(inst.op, a, ValueIn(s, inst.rhs)))
      [] inst.op = "call" ->
            LET v == ValueIn(s, inst.args[1])
            IN  Define(Emit(s, <<"call", v>>), inst.dst, v)
      [] inst.op = "print" -> Emit(s, <<"print", a>>)
      [] inst.op = "br" -> [s EXCEPT !.at = inst.to[1]]
      [] inst.op = "condbr" ->
            IF a = Undef THEN [Emit(s, <<"undef", 0>>) EXCEPT !.done = TRUE]
                         ELSE [s EXCEPT !.at = inst.to[IF a # 0 THEN 1 ELSE 2]]
      [] inst.op = "ret" -> [Emit(s, <<"return", a>>) EXCEPT !.done = TRUE]

\* In SSA form the phis of a block are read together on entry, by the edge
\* taken.
EnterBlock(s, from, insts) ==
    [s EXCEPT !.regs = [r \in DOMAIN s.regs |->
        IF \E i \in DOMAIN insts : insts[i].op = "phi" /\ insts[i].dst = Reg(r)
          THEN ValueIn(s, (CHOOSE i \in ToSet(insts) :
                              i.op = "phi" /\ i.dst = Reg(r)).phi[from])
          ELSE s.regs[r]]]

RECURSIVE RunFrom(_, _, _, _)
RunFrom(fn, s, from, fuel) ==
    IF s.done \/ fuel = 0 THEN s ELSE
    LET insts == fn.body[s.at]
    IN  RunFrom(fn, FoldLeft(RunInst, EnterBlock(s, from, insts), insts), s.at, fuel - 1)

\* What the function prints, calls and returns when its argument is p and at
\* most fuel blocks are run.
RunFunction(fn, p, fuel) ==
    LET s == RunFrom(fn, [at |-> 0, param |-> p, out |-> << >>, done |-> FALSE,
                          regs |-> [r \in 0..fn.nreg - 1 |-> Undef],
                          mem |-> [x \in SlotsOf(fn) |-> Undef]], 0, fuel)
    IN  [out |-> s.out, done |-> s.done]
=============================================================================
