----------------------------- MODULE X86Encode ------------------------------
(***************************************************************************)
(* The machine code encoder (x86_64_encode.c): the bytes of each           *)
(* instruction of a list, the two passes that resolve labels, and the      *)
(* relocations it leaves for the linker; beside it the assembly text of    *)
(* the same instruction (x86_instr_list_to_asm) and, from the processor's  *)
(* manual, how bytes are decoded.  An immediate or a displacement is its   *)
(* eight bytes in two's complement, lowest first.                          *)
(***************************************************************************)
EXTENDS Integers, Sequences

RSP == 4
XMM0 == 16
reg_hw_id(r) == r % 16
Low3(r) == r % 8

\* X86Operand
Register(r, size) == [kind |-> "reg", reg |-> r, size |-> size]
Immediate(v, size) == [kind |-> "imm", imm |-> v, size |-> size]
MemBase(r, v, size) == [kind |-> "mem", reg |-> r, imm |-> v, size |-> size]
MemRip(s) == [kind |-> "rip", symbol |-> s, size |-> 8]
Condition(c) == [kind |-> "cond", cond |-> c, size |-> 0]
Symbol(s) == [kind |-> "symbol", symbol |-> s, size |-> 0]
NoOperand == [kind |-> "none", size |-> 0]

\* X86Instr
Instr(op, src, dst) == [op |-> op, src |-> src, dst |-> dst]

(* ---------------------------------------------------------------- numbers *)
Byte == 0 .. 255
Extended(bytes, n) ==
    bytes \o [i \in 1 .. n - Len(bytes) |-> IF bytes[Len(bytes)] >= 128 THEN 255 ELSE 0]
Low(v, n) == SubSeq(v, 1, n)

\* v lies in the range of n signed bytes
Fits(v, n) == v = Extended(Low(v, n), 8)
Zero == [i \in 1 .. 8 |-> 0]

\* byte_buf_append_u32 of an int32_t, and back
Bytes4(d) == <<d % 256, (d \div 256) % 256, (d \div 65536) % 256, (d \div 16777216) % 256>>
Number4(b) == b[1] + 256 * b[2] + 65536 * b[3]
                + 16777216 * (IF b[4] >= 128 THEN b[4] - 256 ELSE b[4])

(* ------------------------------------------------------------ the encoder *)
High(r) == reg_hw_id(r) >= 8
Bit(b, k) == IF b THEN k ELSE 0

\* emit_rex_prefix; reg and rm are the registers of the ModRM fields
emit_rex_prefix(w, reg, rm) ==
    LET bits == Bit(w, 8) + Bit(High(reg), 4) + Bit(High(rm), 1)
    IN  IF bits = 0 THEN << >> ELSE <<64 + bits>>

ModRegs(reg, rm) == <<192 + 8 * Low3(reg) + Low3(rm)>>
ModRip(reg) == <<8 * Low3(reg) + 5>>

\* RSP and R12 need a SIB byte, RBP and R13 a displacement.
emit_modrm_sib_disp(reg, base, disp) ==
    LET rm == Low3(base)
        mod == IF disp = Zero /\ rm \notin {4, 5} THEN 0 ELSE IF Fits(disp, 1) THEN 1 ELSE 2
    IN  <<64 * mod + 8 * Low3(reg) + rm>>
        \o (IF rm = 4 THEN <<36>> ELSE << >>)
        \o Low(disp, IF mod = 2 THEN 4 ELSE mod)

cond_to_opcode_byte ==
    [e |-> 148, ne |-> 149, l |-> 156, ge |-> 157, le |-> 158, g |-> 159,
     b |-> 146, ae |-> 147, be |-> 150, a |-> 151, p |-> 154, np |-> 155]

\* op %src, %dst with the source in the reg field
StoreOpcode == [add |-> 1, sub |-> 41, and |-> 33, or |-> 9, xor |-> 49, cmp |-> 57,
                andb |-> 32, orb |-> 8]
\* op %src, %dst with the destination in the reg field
LoadOpcode == [movslq |-> <<99>>, movzbl |-> <<15, 182>>, cmove |-> <<15, 68>>,
               imul |-> <<15, 175>>]
SseOpcode == [addsd |-> 88, subsd |-> 92, mulsd |-> 89, divsd |-> 94,
              xorpd |-> 87, ucomisd |-> 46]
ShiftedOps == {"xorpd", "ucomisd"}      \* prefix 66, the others F2
BranchOpcode == [jmp |-> <<233>>, jne |-> <<15, 133>>, je |-> <<15, 132>>]

\* The instructions that the x86_emit functions make: an operation comes
\* with the operands its case of the encoder expects.
IsGpr(o) == o.kind = "reg" /\ o.reg \in 0 .. 15
IsXmm(o) == o.kind = "reg" /\ o.reg \in 16 .. 31
IsImmediate(o) == o.kind = "imm" /\ o.imm \in [1 .. 8 -> Byte]
IsMemory(o) == o.kind = "mem" /\ o.reg \in 0 .. 15 /\ o.imm \in [1 .. 8 -> Byte]
IsRip(o) == o.kind = "rip" /\ o.symbol \in STRING
IsSymbol(o) == o.kind = "symbol" /\ o.symbol \in STRING
Emitted(x) ==
    LET s == x.src
        d == x.dst
    IN  \/ x.op = "label" /\ s.kind = "none" /\ IsSymbol(d)
        \/ x.op \in {"ret", "cltd"} /\ s.kind = "none"
        \/ x.op \in {"push", "pop", "neg"} /\ s.kind = "none" /\ IsGpr(d)
        \/ x.op = "idiv" /\ IsGpr(s)
        \/ x.op \in {"sub_imm", "add_imm"} /\ IsImmediate(s)
        \/ x.op \in {"cmp_imm", "movb_imm"} /\ IsImmediate(s) /\ IsGpr(d)
        \/ x.op = "lea" /\ (IsMemory(s) \/ IsRip(s)) /\ IsGpr(d)
        \/ x.op = "mov" /\ (IsImmediate(s) \/ IsGpr(s) \/ IsMemory(s) \/ IsRip(s)) /\ IsGpr(d)
        \/ x.op = "mov" /\ IsGpr(s) /\ IsMemory(d)
        \/ x.op \in DOMAIN LoadOpcode \cup DOMAIN StoreOpcode /\ IsGpr(s) /\ IsGpr(d)
        \/ x.op = "setcc" /\ s.kind = "cond" /\ s.cond \in DOMAIN cond_to_opcode_byte /\ IsGpr(d)
        \/ x.op \in DOMAIN BranchOpcode \cup {"call"} /\ IsSymbol(s)
        \/ x.op = "movsd" /\ (IsXmm(s) \/ IsMemory(s) \/ IsRip(s)) /\ IsXmm(d)
        \/ x.op = "movsd" /\ IsXmm(s) /\ IsMemory(d)
        \/ x.op \in DOMAIN SseOpcode /\ IsXmm(s) /\ IsXmm(d)

IsWide(x) == x.dst.size = 8 \/ x.src.size = 8
Field == <<0, 0, 0, 0>>

encode_mov(x) ==
    LET s == x.src
        d == x.dst
        w == IsWide(x)
    IN  CASE s.kind = "imm" /\ ~ w ->
               emit_rex_prefix(FALSE, 0, d.reg) \o <<184 + Low3(d.reg)>> \o Low(s.imm, 4)
          [] s.kind = "imm" /\ w /\ Fits(s.imm, 4) ->
               emit_rex_prefix(TRUE, 0, d.reg) \o <<199>> \o ModRegs(0, d.reg) \o Low(s.imm, 4)
          [] s.kind = "imm" /\ w /\ ~ Fits(s.imm, 4) ->
               emit_rex_prefix(TRUE, 0, d.reg) \o <<184 + Low3(d.reg)>> \o s.imm
          [] s.kind = "reg" /\ d.kind = "reg" ->
               emit_rex_prefix(w, s.reg, d.reg) \o <<137>> \o ModRegs(s.reg, d.reg)
          [] s.kind = "mem" ->
               emit_rex_prefix(w, d.reg, s.reg) \o <<139>> \o emit_modrm_sib_disp(d.reg, s.reg, s.imm)
          [] d.kind = "mem" ->
               emit_rex_prefix(w, s.reg, d.reg) \o <<137>> \o emit_modrm_sib_disp(s.reg, d.reg, d.imm)
          [] s.kind = "rip" ->
               emit_rex_prefix(TRUE, d.reg, 0) \o <<139>> \o ModRip(d.reg) \o Field

encode_movsd(x) ==
    LET s == x.src
        d == x.dst
    IN  <<242>> \o
        CASE s.kind = "reg" /\ d.kind = "reg" ->
               emit_rex_prefix(FALSE, d.reg, s.reg) \o <<15, 16>> \o ModRegs(d.reg, s.reg)
          [] s.kind = "mem" ->
               emit_rex_prefix(FALSE, d.reg, s.reg) \o <<15, 16>>
               \o emit_modrm_sib_disp(d.reg, s.reg, s.imm)
          [] d.kind = "mem" ->
               emit_rex_prefix(FALSE, s.reg, d.reg) \o <<15, 17>>
               \o emit_modrm_sib_disp(s.reg, d.reg, d.imm)
          [] s.kind = "rip" ->
               emit_rex_prefix(FALSE, d.reg, 0) \o <<15, 16>> \o ModRip(d.reg) \o Field

\* sub and add of an immediate work on RSP, cmp on a 32 bit register.
ImmediateForm(rex, digit, rm, v) ==
    rex \o (IF Fits(v, 1) THEN <<131>> ELSE <<129>>) \o <<192 + 8 * digit + Low3(rm)>>
        \o Low(v, IF Fits(v, 1) THEN 1 ELSE 4)

\* The bytes of one instruction, the field of a branch or of a relocation
\* last or left empty.
Encoded(x, branch) ==
    LET s == x.src
        d == x.dst
        op == x.op
    IN  CASE op = "label" -> << >>
          [] op = "push" -> emit_rex_prefix(FALSE, 0, d.reg) \o <<80 + Low3(d.reg)>>
          [] op = "pop" -> emit_rex_prefix(FALSE, 0, d.reg) \o <<88 + Low3(d.reg)>>
          [] op = "ret" -> <<195>>
          [] op = "sub_imm" -> ImmediateForm(<<72>>, 5, RSP, s.imm)
          [] op = "add_imm" -> ImmediateForm(<<72>>, 0, RSP, s.imm)
          [] op = "cmp_imm" -> ImmediateForm(emit_rex_prefix(FALSE, 0, d.reg), 7, d.reg, s.imm)
          [] op = "lea" /\ s.kind = "mem" ->
               emit_rex_prefix(TRUE, d.reg, s.reg) \o <<141>> \o emit_modrm_sib_disp(d.reg, s.reg, s.imm)
          [] op = "lea" /\ s.kind = "rip" ->
               emit_rex_prefix(TRUE, d.reg, 0) \o <<141>> \o ModRip(d.reg) \o Field
          [] op = "mov" -> encode_mov(x)
          [] op = "movb_imm" ->
               emit_rex_prefix(FALSE, 0, d.reg) \o <<176 + Low3(d.reg)>> \o Low(s.imm, 1)
          [] op \in DOMAIN LoadOpcode ->
               emit_rex_prefix(op \in {"movslq", "cmove"}, d.reg, s.reg)
               \o LoadOpcode[op] \o ModRegs(d.reg, s.reg)
          [] op \in DOMAIN StoreOpcode ->
               emit_rex_prefix(FALSE, s.reg, d.reg) \o <<StoreOpcode[op]>> \o ModRegs(s.reg, d.reg)
          [] op = "idiv" -> emit_rex_prefix(FALSE, 0, s.reg) \o <<247>> \o ModRegs(7, s.reg)
          [] op = "neg" -> emit_rex_prefix(FALSE, 0, d.reg) \o <<247>> \o ModRegs(3, d.reg)
          [] op = "cltd" -> <<153>>
          [] op = "setcc" ->
               emit_rex_prefix(FALSE, 0, d.reg) \o <<15, cond_to_opcode_byte[s.cond]>> \o ModRegs(0, d.reg)
          [] op \in DOMAIN BranchOpcode -> BranchOpcode[op] \o branch
          [] op = "call" -> <<232>> \o Field
          [] op = "movsd" -> encode_movsd(x)
          [] op \in DOMAIN SseOpcode ->
               <<IF op \in ShiftedOps THEN 102 ELSE 242>> \o emit_rex_prefix(FALSE, d.reg, s.reg)
               \o <<15, SseOpcode[op]>> \o ModRegs(d.reg, s.reg)

(* ------------------------------------- the lengths that the code counts *)
\* The encoder counts the bytes beside writing them; pass 1 only counts.
RexLength(w, reg, rm) == IF w \/ High(reg) \/ High(rm) THEN 1 ELSE 0
\* Mutant: a base of RSP or R12 is measured without its SIB byte.
AddressLengthNoSib(base, disp) ==
    LET near == Fits(disp, 1)
    IN  CASE Low3(base) \in {4, 5} -> IF near THEN 2 ELSE 5
          [] OTHER -> IF disp = Zero THEN 1 ELSE IF near THEN 2 ELSE 5

AddressLength(base, disp) ==
    LET near == Fits(disp, 1)
    IN  CASE Low3(base) = 4 -> IF near THEN 3 ELSE 6
          [] Low3(base) = 5 -> IF near THEN 2 ELSE 5
          [] OTHER -> IF disp = Zero THEN 1 ELSE IF near THEN 2 ELSE 5

MovLength(x) ==
    LET s == x.src
        d == x.dst
        w == IsWide(x)
    IN  CASE s.kind = "imm" /\ ~ w -> 5 + RexLength(FALSE, 0, d.reg)
          [] s.kind = "imm" /\ w -> RexLength(TRUE, 0, d.reg) + (IF Fits(s.imm, 4) THEN 6 ELSE 9)
          [] s.kind = "reg" /\ d.kind = "reg" -> 2 + RexLength(w, s.reg, d.reg)
          [] s.kind = "mem" -> RexLength(w, d.reg, s.reg) + 1 + AddressLength(s.reg, s.imm)
          [] d.kind = "mem" -> RexLength(w, s.reg, d.reg) + 1 + AddressLength(d.reg, d.imm)
          [] s.kind = "rip" -> RexLength(TRUE, d.reg, 0) + 6

MovsdLength(x) ==
    LET s == x.src
        d == x.dst
    IN  1 + CASE s.kind = "reg" /\ d.kind = "reg" -> 3 + RexLength(FALSE, d.reg, s.reg)
              [] s.kind = "mem" -> RexLength(FALSE, d.reg, s.reg) + 2 + AddressLength(s.reg, s.imm)
              [] d.kind = "mem" -> RexLength(FALSE, s.reg, d.reg) + 2 + AddressLength(d.reg, d.imm)
              [] s.kind = "rip" -> RexLength(FALSE, d.reg, 0) + 7

Measured(x) ==
    LET s == x.src
        d == x.dst
        op == x.op
    IN  CASE op = "label" -> 0
          [] op \in {"ret", "cltd"} -> 1
          [] op \in {"push", "pop"} -> 1 + RexLength(FALSE, 0, d.reg)
          [] op \in {"sub_imm", "add_imm"} -> IF Fits(s.imm, 1) THEN 4 ELSE 7
          [] op = "cmp_imm" -> RexLength(FALSE, 0, d.reg) + (IF Fits(s.imm, 1) THEN 3 ELSE 6)
          [] op = "lea" /\ s.kind = "mem" -> RexLength(TRUE, d.reg, s.reg) + 1 + AddressLength(s.reg, s.imm)
          [] op = "lea" /\ s.kind = "rip" -> RexLength(TRUE, d.reg, 0) + 6
          [] op = "mov" -> MovLength(x)
          [] op = "movb_imm" -> 2 + RexLength(FALSE, 0, d.reg)
          [] op \in {"movslq", "cmove"} ->
               RexLength(TRUE, d.reg, s.reg) + (IF op = "movslq" THEN 2 ELSE 3)
          [] op \in {"movzbl", "imul"} -> 3 + RexLength(FALSE, d.reg, s.reg)
          [] op \in DOMAIN StoreOpcode -> 2 + RexLength(FALSE, s.reg, d.reg)
          [] op = "idiv" -> 2 + RexLength(FALSE, 0, s.reg)
          [] op = "neg" -> 2 + RexLength(FALSE, 0, d.reg)
          [] op = "setcc" -> 3 + RexLength(FALSE, 0, d.reg)
          [] op \in {"jmp", "call"} -> 5
          [] op \in {"je", "jne"} -> 6
          [] op = "movsd" -> MovsdLength(x)
          [] op \in DOMAIN SseOpcode -> 4 + RexLength(FALSE, d.reg, s.reg)

(* --------------------------------------------- a function, in two passes *)
\* Lists of records with names are searched from the front.
Named(seq, name) == \E k \in DOMAIN seq : seq[k].name = name
Find(seq, name) ==
    CHOOSE k \in DOMAIN seq :
        seq[k].name = name /\ \A j \in DOMAIN seq : seq[j].name = name => k <= j

\* label_map_get; a name without an entry leaves the displacement 0.
Displacement(labels, l, next) ==
    IF Named(labels, l) THEN labels[Find(labels, l)].offset - next ELSE 0

\* The field of an instruction at pc, given the labels that pass 1 found.
BranchField(x, labels, pc) ==
    IF x.op \in DOMAIN BranchOpcode
      THEN Bytes4(Displacement(labels, x.src.symbol, pc + Measured(x)))
      ELSE Field

\* The instructions that refer to a symbol of the program.
IsRelocated(x) == x.op = "call" \/ x.src.kind = "rip"

\* The relocation an instruction at pc leaves for its four byte field.
Reloc(offset, symbol, type) ==
    <<[offset |-> offset, symbol |-> symbol, type |-> type, addend |-> -4]>>

RelocOf(x, pc) ==
    CASE x.op = "call" -> Reloc(pc + 1, x.src.symbol, "PLT32")
      [] x.op \in {"lea", "mov"} /\ x.src.kind = "rip" ->
           Reloc(pc + RexLength(TRUE, x.dst.reg, 0) + 2, x.src.symbol, "PC32")
      [] x.op = "movsd" /\ x.src.kind = "rip" ->
           Reloc(pc + 1 + RexLength(FALSE, x.dst.reg, 0) + 3, x.src.symbol, "PC32")
      [] OTHER -> << >>

(* ------------------------------------------------- the assembly text *)
\* x86_instr_list_to_asm: the operation with its width, and the operands; a
\* symbol stands for its address.
Width(x) ==
    CASE x.op \in {"push", "pop", "ret", "sub_imm", "add_imm", "lea", "movslq", "cmove"} -> 8
      [] x.op = "mov" -> IF IsWide(x) THEN 8 ELSE 4
      [] x.op \in {"movb_imm", "setcc", "andb", "orb"} -> 1
      [] OTHER -> 4

Shown(o, width, address) ==
    CASE o.kind = "imm" -> <<"imm", Low(o.imm, width)>>
      [] o.kind = "reg" -> <<"reg", o.reg>>
      [] o.kind = "mem" -> <<"mem", o.reg, o.imm>>
      [] o.kind \in {"rip", "symbol"} -> <<"at", address[o.symbol]>>
      [] o.kind = "cond" -> <<"cond", o.cond>>
      [] o.kind = "none" -> <<"none">>
Printed(x, address) ==
    <<x.op, Width(x), Shown(x.src, Width(x), address), Shown(x.dst, Width(x), address)>>
=============================================================================
