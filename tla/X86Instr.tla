------------------------------ MODULE X86Instr ------------------------------
(***************************************************************************)
(* The instruction lists of the native back end (x86_64_instr.c): their    *)
(* instructions, the peephole pass over a list, and what running a list    *)
(* on the machine prints, calls and returns.  Machine registers are named  *)
(* by strings; a label is the id of a basic block, Entry or Epilogue.      *)
(***************************************************************************)
EXTENDS IrFunction

Epilogue == -1
Entry == -2

Mem(base, disp) == <<"mem", base, disp>>
Label(l) == <<"label", l>>
IsMem(v) == v[1] = "mem"
IsLabel(v) == v[1] = "label"

\* X86Instr, with the operand size in bytes where the code looks at it.
X(op, size, src, dst) == [op |-> op, size |-> size, src |-> src, dst |-> dst]
Mov(size, src, dst) == X("mov", size, src, dst)
\* A jump has its label in the source and no destination; a label's own name
\* is its destination.
Jump(op, l) == X(op, 0, Label(l), Null)
Mark(l) == X("label", 0, Null, Label(l))

(* ------------------------------------------------------- the peephole pass *)
\* 1. mov %r, %r
IsSelfMove(x) == x.op = "mov" /\ IsReg(x.src) /\ x.src = x.dst

\* 2. mov $0, %r becomes xor %r, %r
Zeroed(x) == IF x.op = "mov" /\ IsReg(x.dst) /\ x.src = IntVal(0)
               THEN X("xor", 4, x.dst, x.dst) ELSE x

\* 3. a load of what the instruction before it stored
IsReload(x, y) == /\ x.op = "mov" /\ IsReg(x.src) /\ IsMem(x.dst)
                  /\ y.op = "mov" /\ y.src = x.dst /\ y.dst = x.src /\ x.size = y.size

\* Rules 4 to 6 are about jumps, but look for their labels in the destination,
\* where the emitters put none (Jump): they match no list of the back end.

\* 4. a jump to the label that follows it
IsFallThrough(x, y) == /\ x.op = "jmp" /\ y.op = "label"
                       /\ IsLabel(x.dst) /\ x.dst = y.dst

\* 5. jne L1; jmp L2; L1:
IsJumpOver(x, y, z) == /\ x.op \in {"jne", "je"} /\ y.op = "jmp" /\ z.op = "label"
                       /\ IsLabel(x.dst) /\ IsLabel(y.dst) /\ x.dst = z.dst
Inverted(x, y) == [x EXCEPT !.op = IF @ = "jne" THEN "je" ELSE "jne", !.dst = y.dst]

\* One sweep over the list: done is behind the current instruction, which
\* is the first of rest.
RECURSIVE Sweep(_, _)
Sweep(done, rest) ==
    IF rest = << >> THEN done ELSE
    LET x == Zeroed(rest[1])
        has(k) == Len(rest) >= k
        from(k) == SubSeq(rest, k, Len(rest))
    IN  CASE IsSelfMove(rest[1]) -> Sweep(done, from(2))
          [] has(2) /\ IsReload(x, rest[2]) -> Sweep(Append(done, x), from(3))
          [] has(2) /\ IsFallThrough(x, rest[2]) -> Sweep(done, from(2))
          [] has(3) /\ IsJumpOver(x, rest[2], rest[3]) ->
                Sweep(Append(done, Inverted(x, rest[2])), from(3))
          [] OTHER -> Sweep(Append(done, x), from(2))

\* 6. labels that are followed by a jump elsewhere, at most MaxAliases
MaxAliases == 64
AliasesOf(list) ==
    LET at == SelectSeq([i \in DOMAIN list |-> i], LAMBDA i :
                 /\ list[i].op = "label" /\ i < Len(list) /\ list[i + 1].op = "jmp"
                 /\ IsLabel(list[i + 1].dst) /\ list[i].dst # list[i + 1].dst)
    IN  [n \in 1 .. Min({MaxAliases, Len(at)}) |-> <<list[at[n]].dst, list[at[n] + 1].dst>>]

Collapsed(list) ==
    LET aliases == AliasesOf(list)
        of(x) == {n \in DOMAIN aliases : aliases[n][1] = x.dst}
    IN  [i \in DOMAIN list |->
            IF /\ list[i].op \in {"jmp", "je", "jne"} /\ IsLabel(list[i].dst)
               /\ of(list[i]) # {}
              THEN [list[i] EXCEPT !.dst = aliases[Min(of(list[i]))][2]]
              ELSE list[i]]

\* x86_instr_list_optimize: at most four rounds
RECURSIVE PeepholeFrom(_, _)
PeepholeFrom(list, rounds) ==
    LET next == Collapsed(Sweep(<< >>, list))
    IN  IF rounds = 0 \/ next = list THEN list ELSE PeepholeFrom(next, rounds - 1)
Peephole(list) == PeepholeFrom(list, 4)

(* ------------------------------------------------------------- execution *)
\* The machine under the System V ABI: saved lists the registers a callee
\* preserves, rsp is 0 on entry, and a call leaves nothing in the other
\* registers and below the stack pointer.
SavedMarker(saved) == [r \in ToSet(saved) |-> 900 + (CHOOSE n \in DOMAIN saved : saved[n] = r)]

Start(regs, saved, p) ==
    [regs |-> SavedMarker(saved) @@ [r \in regs |->
                 CASE r = "rdi" -> p [] r = "rsp" -> 0 [] OTHER -> Undef],
     mem |-> << >>, flags |-> <<Undef, Undef>>, seg |-> 1, jump |-> Null,
     out |-> << >>, done |-> FALSE]

Address(s, v) == s.regs[v[2]] + v[3]
Content(s, v) ==
    CASE IsReg(v) -> s.regs[v[2]]
      [] IsMem(v) -> IF Address(s, v) \in DOMAIN s.mem THEN s.mem[Address(s, v)] ELSE Undef
      [] IsInt(v) -> v[2]
Put(s, v, k) ==
    IF IsReg(v) THEN [s EXCEPT !.regs[v[2]] = k]
                ELSE [s EXCEPT !.mem = (Address(s, v) :> k) @@ @]

Stop(s, event) == [Emit(s, event) EXCEPT !.done = TRUE]

\* and and or work on the bits, which is the Boolean operator on 0 and 1.
Alu(op, a, b) ==
    CASE op = "imul" -> Compute("mul", a, b)
      [] op = "xor" -> 0
      [] op \in Logical -> IF {a, b} \subseteq {0, 1} THEN Compute(op, a, b) ELSE Undef
      [] OTHER -> Compute(op, a, b)

CallOn(s, callee, saved) ==
    LET arg == s.regs[IF callee = "print" THEN "rsi" ELSE "rdi"]
        kept == ToSet(saved) \cup {"rsp"}
    IN  IF (s.regs["rsp"] + 8) % 16 # 0 THEN Stop(s, <<"misaligned", 0>>) ELSE
        [Emit(s, <<callee, arg>>) EXCEPT
            !.regs = [r \in DOMAIN @ |-> IF r \in kept THEN @[r]
                                      ELSE IF r = "rax" /\ callee = "call" THEN arg ELSE Undef],
            !.mem = [a \in {b \in DOMAIN @ : b >= s.regs["rsp"]} |-> @[a]]]

Execute(s, x, saved) ==
    LET a == Content(s, x.dst)
        b == Content(s, x.src)
        rsp == s.regs["rsp"]
        moved(k) == [s EXCEPT !.regs["rsp"] = rsp + k]
    IN
    CASE x.op = "label" -> s
      [] x.op \in {"mov", "movb", "movslq", "movzbl"} -> Put(s, x.dst, b)
      [] x.op = "lea" -> Put(s, x.dst, Address(s, x.src))
      [] x.op = "addrsp" -> moved(x.src[2])
      [] x.op = "push" -> Put(moved(-8), Mem("rsp", 0), b)
      [] x.op = "pop" -> Put(moved(8), x.dst, Content(s, Mem("rsp", 0)))
      [] x.op \in {"add", "sub", "imul", "xor", "and", "or"} ->
            [Put(s, x.dst, Alu(x.op, a, b)) EXCEPT !.flags = <<Undef, Undef>>]
      [] x.op = "neg" -> [Put(s, x.dst, Compute("sub", 0, a)) EXCEPT !.flags = <<Undef, Undef>>]
      [] x.op = "cltd" -> Put(s, Reg("rdx"), Undef)
      [] x.op = "idiv" ->
            Put(Put(s, Reg("rax"), Compute("div", s.regs["rax"], b)),
                Reg("rdx"), Compute("mod", s.regs["rax"], b))
      [] x.op = "cmp" -> [s EXCEPT !.flags = <<a, b>>]
      [] x.op = "set" -> Put(s, x.dst, Compute(x.src[2], s.flags[1], s.flags[2]))
      [] x.op = "jmp" -> [s EXCEPT !.jump = x.src]
      [] x.op \in {"je", "jne"} ->
            IF Undef \in ToSet(s.flags) THEN Stop(s, <<"undef", 0>>)
            ELSE [s EXCEPT !.jump = IF (s.flags[1] = s.flags[2]) = (x.op = "je")
                                      THEN x.src ELSE @]
      [] x.op = "call" -> CallOn(s, x.src[2], saved)
      [] x.op = "ret" ->
            IF rsp = 0 /\ \A r \in ToSet(saved) : s.regs[r] = SavedMarker(saved)[r]
              THEN Stop(s, <<"return", s.regs["rax"]>>) ELSE Stop(s, <<"clobbered", 0>>)

\* The list cut before each label.
Cut(list, marks) ==
    [n \in DOMAIN marks |->
        SubSeq(list, marks[n], IF n = Len(marks) THEN Len(list) ELSE marks[n + 1] - 1)]
Segments(list) ==
    Cut(list, SelectSeq([i \in DOMAIN list |-> i], LAMBDA i : list[i].op = "label"))

\* Where the run goes on after a segment.
Target(segs, s) ==
    IF s.jump = Null THEN s.seg + 1 ELSE CHOOSE n \in DOMAIN segs : segs[n][1].dst = s.jump
Transfer(segs, s) == [s EXCEPT !.seg = Target(segs, s), !.jump = Null]

RECURSIVE RunSegments(_, _, _, _)
RunSegments(segs, s, saved, fuel) ==
    IF s.done \/ fuel = 0 THEN s ELSE
    LET step(t, x) == IF t.done \/ t.jump # Null THEN t ELSE Execute(t, x, saved)
    IN  RunSegments(segs, Transfer(segs, FoldLeft(step, s, segs[s.seg])), saved, fuel - 1)

Observed(s) == [out |-> s.out, done |-> s.done]

\* What the list prints, calls and returns with argument p.
RunList(list, regs, saved, p, fuel) ==
    Observed(RunSegments(Segments(list), Start(regs, saved, p), saved, fuel))
=============================================================================
