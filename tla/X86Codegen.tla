----------------------------- MODULE X86Codegen -----------------------------
(***************************************************************************)
(* The native back end on one IR function of integers and Booleans, as     *)
(* gen_function_instructions_timed (x86_64_codegen.c) puts it together:    *)
(* liveness and intervals (x86_64_regalloc.c), the linear scan and the     *)
(* frame (module LinearScan), instruction selection and the peephole pass  *)
(* (module X86Instr).                                                      *)
(***************************************************************************)
EXTENDS X86Instr, LinearScan

(* --------------------------------------------------------------- liveness *)
\* Instructions are numbered in layout order.
Numbered(fn) == FoldLeft(LAMBDA seq, b : seq \o fn.body[b], << >>, Layout(Blocks(fn)))

StartInst(fn, b) ==
    FoldLeft(LAMBDA n, c : n + Len(fn.body[c]), 0, Layout({c \in Blocks(fn) : c < b}))
EndInst(fn, b) ==
    IF fn.body[b] = << >> THEN StartInst(fn, b) ELSE StartInst(fn, b) + Len(fn.body[b]) - 1

\* is_call_op
CallOps == {"call", "print"}
CallsIn(seq) == {i - 1 : i \in {j \in DOMAIN seq : seq[j].op \in CallOps}}

DefsBefore(insts, i) == {insts[k].dst : k \in 1 .. i - 1}

\* use and def of a block
UseOf(insts) == UNION {Uses(insts[i]) \ DefsBefore(insts, i) : i \in DOMAIN insts}
DefOf(insts) == {v \in DefsBefore(insts, Len(insts) + 1) : IsReg(v)}

\* live_in of every block: the dataflow equations, swept until they hold.
RECURSIVE LiveFrom(_, _)
LiveFrom(fn, in) ==
    LET next == [b \in Blocks(fn) |->
                   UseOf(fn.body[b]) \cup (UNION {in[c] : c \in Successors(fn, b)} \ DefOf(fn.body[b]))]
    IN  IF next = in THEN in ELSE LiveFrom(fn, next)

\* Mutant: the equations are swept once.
LiveInOnce(fn) ==
    [b \in Blocks(fn) |->
        UseOf(fn.body[b]) \cup (UNION {UseOf(fn.body[c]) : c \in Successors(fn, b)} \ DefOf(fn.body[b]))]

LiveIn(fn) == LiveFrom(fn, [b \in Blocks(fn) |-> {}])
LiveOut(fn, in, b) == UNION {in[c] : c \in Successors(fn, b)}

\* One range for every virtual register, from the first point it is set or
\* live into a block to the last point it is needed, with the calls strictly
\* inside the range.
Interval(from, to, calls) ==
    LET start == IF from = {} THEN 0 ELSE Min(from)
        end == IF from = {} THEN 0 ELSE Max(from \cup to)
    IN  [start |-> start, end |-> end, class |-> "int",
         crosses |-> \E c \in calls : start < c /\ c < end]

IntervalsOf(fn, seq, in, calls) ==
    LET at(P(_)) == {i - 1 : i \in {j \in DOMAIN seq : P(seq[j])}}
        entered(v) == {StartInst(fn, b) : b \in {c \in Blocks(fn) : v \in in[c]}}
        left(v) == {EndInst(fn, b) : b \in {c \in Blocks(fn) : v \in LiveOut(fn, in, c)}}
    IN  [n \in 0 .. fn.nreg - 1 |->
            Interval(entered(Reg(n)) \cup at(LAMBDA i : i.dst = Reg(n)),
                     left(Reg(n)) \cup at(LAMBDA i : Reg(n) \in Uses(i)), calls)]

Intervals(fn) == IntervalsOf(fn, Numbered(fn), LiveIn(fn), CallsIn(Numbered(fn)))

(* ------------------------------------------------- allocation and frame *)
\* The scan of regalloc_run as a function.
Allocate(iv) ==
    LET step(s, v) ==
            IF ~ NoneFree(iv, s, v)
              THEN Assigned(iv, s, v, CHOOSE r \in Regs : IsFirstFree(iv, s, v, r))
            ELSE IF \E w \in DOMAIN iv : IsVictim(iv, s, v, w)
              THEN Stolen(iv, s, v, CHOOSE w \in DOMAIN iv : IsVictim(iv, s, v, w))
            ELSE SpilledSelf(iv, s, v)
    IN  FoldLeft(step, NothingAllocated(iv),
                 SortSeq(Layout(DOMAIN iv), LAMBDA v, w : v # w /\ Earlier(iv, v, w)))

\* The slots of variables, in the order of their allocas.
Variables(fn) ==
    LET allocas == SelectSeq(Numbered(fn), LAMBDA i : i.op = "alloca")
    IN  FoldLeft(LAMBDA xs, i : IF Contains(xs, i.dst[2]) THEN xs ELSE Append(xs, i.dst[2]),
                 << >>, allocas)

\* x86_frame_build: the registers to push, the size to reserve, and where
\* the parameter, the variables and the virtual registers live.
LayOut(iv, s, vars, pushed) ==
    [iv |-> iv, phys |-> s.phys, pushed |-> pushed,
     size |-> FrameSize(iv, s, Len(pushed), 1 + Len(vars)),
     param |-> - 8 * (Len(pushed) + 1),
     var |-> [x \in ToSet(vars) |-> - 8 * (Len(pushed) + 1 + (CHOOSE n \in DOMAIN vars : vars[n] = x))],
     slot |-> [v \in {w \in DOMAIN iv : NeedsSlot(iv, s, w)} |->
                  SlotOffset(iv, s, Len(pushed), 1 + Len(vars), v)]]

FrameFor(iv, s, vars) == LayOut(iv, s, vars, SelectSeq(CalleeSaved, LAMBDA r : r \in s.used))
FrameOf(iv, vars) == FrameFor(iv, Allocate(iv), vars)
Frame(fn) == FrameOf(Intervals(fn), Variables(fn))

(* --------------------------------------------------- instruction selection *)
RBP(disp) == Mem("rbp", disp)

\* emit_load_val
LoadVal(f, v, target) ==
    CASE v = Null -> <<Mov(4, IntVal(0), Reg(target))>>
      [] IsConst(v) -> <<Mov(4, IntVal(v[2]), Reg(target))>>
      [] v = Param -> <<Mov(4, RBP(f.param), Reg(target))>>
      [] IsReg(v) ->
            IF f.phys[v[2]] = NONE THEN <<Mov(4, RBP(f.slot[v[2]]), Reg(target))>>
            ELSE IF f.phys[v[2]] = target THEN << >>
            ELSE <<Mov(4, Reg(f.phys[v[2]]), Reg(target))>>

\* emit_store_result: a value with a register and a slot goes to both.
StoreResult(f, dst, from) ==
    LET r == f.phys[dst[2]]
        saved == IF dst[2] \in DOMAIN f.slot
                   THEN <<Mov(4, Reg(IF r = NONE THEN from ELSE r), RBP(f.slot[dst[2]]))>> ELSE << >>
    IN  IF dst = Null THEN << >>
        ELSE IF r \in {NONE, from} THEN saved
        ELSE <<Mov(4, Reg(from), Reg(r))>> \o saved

TargetOf(f, dst) == IF f.phys[dst[2]] = NONE THEN "rax" ELSE f.phys[dst[2]]

\* Mutant: values in caller-saved registers are not reloaded.
ReloadNothing(f, n) == << >>

\* reload_caller_saved_after_call
ReloadAfterCall(f, n) ==
    LET lost == {v \in DOMAIN f.slot : /\ IsCallerSaved(f.phys[v])
                                       /\ f.iv[v].start < n /\ n < f.iv[v].end}
        order == Layout(lost)
    IN  [i \in DOMAIN order |-> Mov(4, RBP(f.slot[order[i]]), Reg(f.phys[order[i]]))]

\* add, sub, mul, and, or: the right operand is kept out of the target.
GenBinary(f, op, inst) ==
    LET target == TargetOf(f, inst.dst)
        direct == IsReg(inst.rhs) /\ f.phys[inst.rhs[2]] \notin {NONE, target}
        rhs == IF direct THEN f.phys[inst.rhs[2]] ELSE "rdx"
    IN  (IF direct THEN << >> ELSE LoadVal(f, inst.rhs, "rdx"))
            \o LoadVal(f, inst.lhs, target)
            \o <<X(op, 4, Reg(rhs), Reg(target))>>
            \o StoreResult(f, inst.dst, target)

GenDivision(f, inst) ==
    LoadVal(f, inst.lhs, "rax") \o <<X("cltd", 4, Null, Null)>> \o LoadVal(f, inst.rhs, "rcx")
        \o <<X("idiv", 4, Reg("rcx"), Null)>>
        \o StoreResult(f, inst.dst, IF inst.op = "div" THEN "rax" ELSE "rdx")

\* The flag of a comparison in the target.
GenFlag(f, cc, dst) ==
    <<X("set", 1, <<"cc", cc>>, Reg("rax")), X("movzbl", 4, Reg("rax"), Reg(TargetOf(f, dst)))>>
        \o StoreResult(f, dst, TargetOf(f, dst))

GenCompare(f, inst) ==
    LoadVal(f, inst.lhs, "rax") \o LoadVal(f, inst.rhs, "rdx")
        \o <<X("cmp", 4, Reg("rdx"), Reg("rax"))>> \o GenFlag(f, inst.op, inst.dst)

GenNot(f, inst) ==
    LoadVal(f, inst.lhs, "rax") \o <<X("cmp", 4, IntVal(0), Reg("rax"))>> \o GenFlag(f, "eq", inst.dst)

\* A variable without a slot is dereferenced as address 0.
GenLoad(f, inst) ==
    LET target == TargetOf(f, inst.dst)
        x == inst.lhs[2]
    IN  (IF x \in DOMAIN f.var
           THEN <<Mov(4, RBP(f.var[x]), Reg(target))>>
           ELSE <<Mov(8, IntVal(0), Reg("rax")), Mov(4, Mem("rax", 0), Reg(target))>>)
        \o StoreResult(f, inst.dst, target)

GenStore(f, inst) ==
    LET held == IsReg(inst.lhs) /\ f.phys[inst.lhs[2]] # NONE
        x == inst.rhs[2]
        known == x \in DOMAIN f.var
        scratch == IF known THEN "rax" ELSE "rdx"
    IN  (IF known THEN << >> ELSE <<Mov(8, IntVal(0), Reg("rax"))>>)
        \o (IF held THEN << >> ELSE LoadVal(f, inst.lhs, scratch))
        \o <<Mov(4, Reg(IF held THEN f.phys[inst.lhs[2]] ELSE scratch),
                 IF known THEN RBP(f.var[x]) ELSE Mem("rax", 0))>>

\* One integer argument: through the stack into rdi.
GenCall(f, inst, n) ==
    <<X("addrsp", 8, IntVal(-128), Null)>> \o LoadVal(f, inst.args[1], "rax")
        \o <<X("movslq", 8, Reg("rax"), Reg("rax")), Mov(8, Reg("rax"), Mem("rsp", 64)),
             Mov(8, Mem("rsp", 64), Reg("rdi")), X("addrsp", 8, IntVal(128), Null),
             X("movb", 1, IntVal(0), Reg("rax")), X("call", 0, <<"sym", "call">>, Null)>>
        \o StoreResult(f, inst.dst, "rax") \o ReloadAfterCall(f, n)

GenPrint(f, inst, n) ==
    LoadVal(f, inst.lhs, "rax")
        \o <<X("movslq", 8, Reg("rax"), Reg("rsi")), X("xor", 4, Reg("rax"), Reg("rax")),
             X("call", 0, <<"sym", "print">>, Null)>>
        \o ReloadAfterCall(f, n)

\* gen_instruction; n is the number of the instruction.
GenInstruction(f, inst, n) ==
    CASE inst.op = "alloca" -> << >>
      [] inst.op = "load" -> GenLoad(f, inst)
      [] inst.op = "store" -> GenStore(f, inst)
      [] inst.op = "const" ->
            LoadVal(f, inst.lhs, TargetOf(f, inst.dst)) \o StoreResult(f, inst.dst, TargetOf(f, inst.dst))
      [] inst.op \in {"add", "sub", "and", "or"} -> GenBinary(f, inst.op, inst)
      [] inst.op = "mul" -> GenBinary(f, "imul", inst)
      [] inst.op \in {"div", "mod"} -> GenDivision(f, inst)
      [] inst.op = "neg" ->
            LoadVal(f, inst.lhs, TargetOf(f, inst.dst))
                \o <<X("neg", 4, Null, Reg(TargetOf(f, inst.dst)))>>
                \o StoreResult(f, inst.dst, TargetOf(f, inst.dst))
      [] inst.op \in Comparison -> GenCompare(f, inst)
      [] inst.op = "not" -> GenNot(f, inst)
      [] inst.op = "br" -> <<Jump("jmp", inst.to[1])>>
      [] inst.op = "condbr" ->
            LoadVal(f, inst.lhs, "rax")
                \o <<X("cmp", 4, IntVal(0), Reg("rax")), Jump("jne", inst.to[1]), Jump("jmp", inst.to[2])>>
      [] inst.op = "ret" -> Append(LoadVal(f, inst.lhs, "rax"), Jump("jmp", Epilogue))
      [] inst.op = "call" -> GenCall(f, inst, n)
      [] inst.op = "print" -> GenPrint(f, inst, n)

GenBlock(f, fn, b) ==
    LET insts == fn.body[b]
    IN  <<Mark(b)>> \o FlattenSeq([i \in DOMAIN insts |->
                                     GenInstruction(f, insts[i], StartInst(fn, b) + i - 1)])

GenPrologue(f) ==
    <<Mark(Entry), X("push", 8, Reg("rbp"), Null), Mov(8, Reg("rsp"), Reg("rbp"))>>
        \o [i \in DOMAIN f.pushed |-> X("push", 8, Reg(f.pushed[i]), Null)]
        \o (IF f.size > 0 THEN <<X("addrsp", 8, IntVal(- f.size), Null)>> ELSE << >>)
        \o <<Mov(8, Reg("rdi"), RBP(f.param))>>

GenEpilogue(f) ==
    LET k == Len(f.pushed)
    IN  <<Mark(Epilogue)>>
        \o (IF k > 0 THEN <<X("lea", 8, RBP(- 8 * k), Reg("rsp"))>>
            ELSE IF f.size > 0 THEN <<Mov(8, Reg("rbp"), Reg("rsp"))>> ELSE << >>)
        \o [i \in 1 .. k |-> X("pop", 8, Null, Reg(f.pushed[k + 1 - i]))]
        \o <<X("pop", 8, Null, Reg("rbp")), X("ret", 0, Null, Null)>>

\* gen_function_instructions_timed
GenWith(f, fn, order) ==
    GenPrologue(f) \o FlattenSeq([i \in DOMAIN order |-> GenBlock(f, fn, order[i])]) \o GenEpilogue(f)
GenFunction(fn) == GenWith(Frame(fn), fn, Layout(Blocks(fn)))

(* ------------------------------------------------------------- execution *)
ScratchRegs == {"rax", "rcx", "rdx", "rsi", "rdi", "rsp"}
RunNative(list, p, fuel) ==
    RunList(list, Regs \cup ScratchRegs, Append(CalleeSaved, "rbp"), p, fuel)
=============================================================================
