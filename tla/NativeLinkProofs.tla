-------------------------- MODULE NativeLinkProofs --------------------------
(***************************************************************************)
(* What the encoder measures is what it writes, a program is linked        *)
(* exactly when its names allow it, and the executable can be loaded: for  *)
(* every program and every page size.                                      *)
(***************************************************************************)
EXTENDS NativeLink, FiniteSetTheorems, SequenceTheorems, WellFoundedInduction, TLAPS

(* Names: those of a program, and those the compiler and the linker add.   *)
Names == STRING \union
    {"LC_neg_float_mask", "LC_fmt_int", "LC_fmt_float", "LC_fmt_str", "LC_str_true", "LC_str_false",
     "padding", "", "program.cco", ".rodata", "_start", "exit", "malloc", "free", "printf", "main"}

-----------------------------------------------------------------------------
(* A function on 1 .. n is a sequence.                                     *)
LEMMA FcnSeq ==
  ASSUME NEW S, NEW n \in Nat, NEW f \in [1 .. n -> S]
  PROVE  f \in Seq(S) /\ Len(f) = n
  <1>1. f = [i \in 1 .. n |-> f[i]]
    OBVIOUS
  <1>2. [i \in 1 .. n |-> f[i]] \in Seq(S) /\ Len([i \in 1 .. n |-> f[i]]) = n
    OBVIOUS
  <1> QED
    BY <1>1, <1>2

(* Pieces of code of a given length.                                       *)
Code(s, n) == n \in Nat /\ s \in Seq(Byte) /\ Len(s) = n

LEMMA CodeEmpty == Code(<< >>, 0)
  BY DEF Code

LEMMA CodeOne ==
  ASSUME NEW b \in Byte
  PROVE  Code(<<b>>, 1)
  BY DEF Code

LEMMA CodeTwo ==
  ASSUME NEW b \in Byte, NEW c \in Byte
  PROVE  Code(<<b, c>>, 2)
  BY DEF Code

LEMMA CodeCat ==
  ASSUME NEW s, NEW t, NEW m, NEW n, Code(s, m), Code(t, n)
  PROVE  Code(s \o t, m + n)
  BY DEF Code

LEMMA CodeThree ==
  ASSUME NEW s, NEW t, NEW u, NEW m, NEW n, NEW k,
         Code(s, m), Code(t, n), Code(u, k)
  PROVE  Code(s \o t \o u, m + n + k)
  <1>1. Code(s \o t, m + n)
    BY CodeCat
  <1> QED
    BY <1>1, CodeCat

LEMMA CodeFour ==
  ASSUME NEW s, NEW t, NEW u, NEW v, NEW m, NEW n, NEW k, NEW l,
         Code(s, m), Code(t, n), Code(u, k), Code(v, l)
  PROVE  Code(s \o t \o u \o v, m + n + k + l)
  <1>1. Code(s \o t \o u, m + n + k)
    BY CodeThree
  <1> QED
    BY <1>1, CodeCat

LEMMA CodeField == Code(Field, 4)
  <1>1. 0 \in Byte
    BY DEF Byte
  <1> QED
    BY <1>1 DEF Code, Field

(* A number in two's complement has eight bytes, and its low bytes.        *)
LEMMA CodeLow ==
  ASSUME NEW v \in [1 .. 8 -> Byte], NEW n \in 0 .. 8
  PROVE  Code(Low(v, n), n) /\ Code(v, 8)
  <1>1. v \in Seq(Byte) /\ Len(v) = 8
    BY FcnSeq
  <1>2. SubSeq(v, 1, n) \in Seq(Byte) /\ Len(SubSeq(v, 1, n)) = n
    BY <1>1
  <1> QED
    BY <1>1, <1>2 DEF Code, Low

(* The four bytes of a displacement.                                       *)
LEMMA CodeBytes4 ==
  ASSUME NEW d \in Int
  PROVE  Code(Bytes4(d), 4)
  <1>1. /\ d % 256 \in Byte /\ (d \div 256) % 256 \in Byte
        /\ (d \div 65536) % 256 \in Byte /\ (d \div 16777216) % 256 \in Byte
    BY SMT DEF Byte
  <1> QED
    BY <1>1 DEF Code, Bytes4

(* General and XMM registers.                                              *)
Registers == 0 .. 31

LEMMA Low3Type ==
  ASSUME NEW r \in Registers
  PROVE  Low3(r) \in 0 .. 7
  BY DEF Low3, Registers

LEMMA OperandTypes ==
  ASSUME NEW o
  PROVE  /\ IsGpr(o) => o.kind = "reg" /\ o.reg \in Registers
         /\ IsXmm(o) => o.kind = "reg" /\ o.reg \in Registers
         /\ IsMemory(o) => o.kind = "mem" /\ o.reg \in Registers /\ o.imm \in [1 .. 8 -> Byte]
         /\ IsImmediate(o) => o.kind = "imm" /\ o.imm \in [1 .. 8 -> Byte]
         /\ IsRip(o) => o.kind = "rip"
         /\ 0 \in Registers
  BY DEF IsGpr, IsXmm, IsMemory, IsImmediate, IsRip, Registers

(* The opcodes, alone or with a register in the low three bits.            *)
LEMMA CodeOpcode ==
  /\ \A b \in {137, 139, 141, 153, 195, 199, 232, 242, 247} : Code(<<b>>, 1)
  /\ \A r \in Registers : \A b \in {80, 88, 176, 184} : Code(<<b + Low3(r)>>, 1)
  <1>1. \A b \in {137, 139, 141, 153, 195, 199, 232, 242, 247} : b \in Byte
    BY DEF Byte
  <1>2. \A r \in Registers : \A b \in {80, 88, 176, 184} : b + Low3(r) \in Byte
    BY Low3Type DEF Byte
  <1> QED
    BY <1>1, <1>2, CodeOne

LEMMA CodeOpcodeRegister ==
  ASSUME NEW r, r \in Registers
  PROVE  /\ Code(<<80 + Low3(r)>>, 1) /\ Code(<<88 + Low3(r)>>, 1)
         /\ Code(<<176 + Low3(r)>>, 1) /\ Code(<<184 + Low3(r)>>, 1)
  BY CodeOpcode

(* emit_rex_prefix writes the byte that is counted.                        *)
LEMMA CodeRex ==
  ASSUME NEW w \in BOOLEAN, NEW reg \in Registers, NEW rm \in Registers
  PROVE  Code(emit_rex_prefix(w, reg, rm), RexLength(w, reg, rm))
  <1> DEFINE bits == Bit(w, 8) + Bit(High(reg), 4) + Bit(High(rm), 1)
  <1>1. High(reg) \in BOOLEAN /\ High(rm) \in BOOLEAN
    BY DEF High
  <1>2. bits \in 0 .. 13 /\ (bits = 0 <=> ~ (w \/ High(reg) \/ High(rm)))
    BY <1>1 DEF Bit
  <1>3. emit_rex_prefix(w, reg, rm) = IF bits = 0 THEN << >> ELSE <<64 + bits>>
    BY DEF emit_rex_prefix
  <1> HIDE DEF bits
  <1>4. 64 + bits \in Byte
    BY <1>2 DEF Byte
  <1> QED
    BY <1>1, <1>2, <1>3, <1>4, CodeEmpty, CodeOne DEF RexLength

LEMMA CodeRegs ==
  ASSUME NEW reg \in Registers, NEW rm \in Registers
  PROVE  Code(ModRegs(reg, rm), 1) /\ Code(ModRip(reg), 1)
  <1>1. Low3(reg) \in 0 .. 7 /\ Low3(rm) \in 0 .. 7
    BY Low3Type
  <1>2. 192 + 8 * Low3(reg) + Low3(rm) \in Byte /\ 8 * Low3(reg) + 5 \in Byte
    BY <1>1 DEF Byte
  <1> QED
    BY <1>2, CodeOne DEF ModRegs, ModRip

(* emit_modrm_sib_disp writes the bytes that are counted.                  *)
LEMMA CodeAddress ==
  ASSUME NEW reg \in Registers, NEW base \in Registers, NEW disp \in [1 .. 8 -> Byte]
  PROVE  Code(emit_modrm_sib_disp(reg, base, disp), AddressLength(base, disp))
  <1> DEFINE rm == Low3(base)
             mod == IF disp = Zero /\ rm \notin {4, 5} THEN 0 ELSE IF Fits(disp, 1) THEN 1 ELSE 2
             size == IF mod = 2 THEN 4 ELSE mod
             head == <<64 * mod + 8 * Low3(reg) + rm>>
             sib == IF rm = 4 THEN <<36>> ELSE << >>
             tail == Low(disp, size)
  <1>1. Low3(reg) \in 0 .. 7 /\ rm \in 0 .. 7
    BY Low3Type
  <1>2. mod \in 0 .. 2 /\ size \in 0 .. 4
    OBVIOUS
  <1>3. Code(head, 1)
    <2>1. 64 * mod + 8 * Low3(reg) + rm \in Byte
      <3> HIDE DEF mod, rm
      <3> QED BY <1>1, <1>2 DEF Byte
    <2> QED
      BY <2>1, CodeOne
  <1>4. Code(sib, IF rm = 4 THEN 1 ELSE 0)
    <2>1. 36 \in Byte
      BY DEF Byte
    <2> QED
      BY <2>1, CodeOne, CodeEmpty
  <1>5. Code(tail, size)
    <2> HIDE DEF size
    <2> QED BY <1>2, CodeLow
  <1>6. emit_modrm_sib_disp(reg, base, disp) = head \o sib \o tail
    BY DEF emit_modrm_sib_disp
  <1>7. AddressLength(base, disp) = 1 + (IF rm = 4 THEN 1 ELSE 0) + size
    BY <1>1 DEF AddressLength
  <1> HIDE DEF head, sib, tail, size, rm, mod
  <1>8. Code(head \o sib \o tail, 1 + (IF rm = 4 THEN 1 ELSE 0) + size)
    BY <1>3, <1>4, <1>5, CodeThree
  <1> QED
    BY <1>6, <1>7, <1>8

(* The two forms of an instruction with an immediate.                      *)
LEMMA CodeImmediate ==
  ASSUME NEW rex, NEW n, Code(rex, n), NEW digit \in 0 .. 7, NEW rm \in Registers,
         NEW v \in [1 .. 8 -> Byte]
  PROVE  Code(ImmediateForm(rex, digit, rm, v), n + (IF Fits(v, 1) THEN 3 ELSE 6))
  <1> DEFINE size == IF Fits(v, 1) THEN 1 ELSE 4
             opcode == IF Fits(v, 1) THEN <<131>> ELSE <<129>>
             modrm == <<192 + 8 * digit + Low3(rm)>>
             imm == Low(v, size)
  <1>1. Code(opcode, 1)
    <2>1. 131 \in Byte /\ 129 \in Byte
      BY DEF Byte
    <2> QED
      BY <2>1, CodeOne
  <1>2. Code(modrm, 1)
    <2>1. Low3(rm) \in 0 .. 7
      BY Low3Type
    <2>2. 192 + 8 * digit + Low3(rm) \in Byte
      BY <2>1 DEF Byte
    <2> QED
      BY <2>2, CodeOne
  <1>3. size \in 0 .. 8 /\ n \in Nat
    BY DEF Code
  <1>4. Code(imm, size)
    <2> HIDE DEF size
    <2> QED BY <1>3, CodeLow
  <1>5. ImmediateForm(rex, digit, rm, v) = rex \o opcode \o modrm \o imm
    BY DEF ImmediateForm
  <1>6. n + 1 + 1 + size = n + (IF Fits(v, 1) THEN 3 ELSE 6)
    BY <1>3
  <1> HIDE DEF opcode, modrm, imm, size
  <1>7. Code(rex \o opcode \o modrm \o imm, n + 1 + 1 + size)
    BY <1>1, <1>2, <1>4, CodeFour
  <1> QED
    BY <1>5, <1>6, <1>7

(* Lengths that the code adds up in another order.                         *)
LEMMA CodeIs ==
  ASSUME NEW s, NEW n, NEW m, Code(s, n), n = m
  PROVE  Code(s, m)
  OBVIOUS

(* mov: each of its forms.                                                 *)
LEMMA CodeMov ==
  ASSUME NEW x, x.op = "mov", Emitted(x)
  PROVE  Code(encode_mov(x), MovLength(x)) /\ MovLength(x) > 0
  <1> DEFINE s == x.src
             d == x.dst
             w == IsWide(x)
  <1>1. \/ IsGpr(d) /\ (IsImmediate(s) \/ IsGpr(s) \/ IsMemory(s) \/ IsRip(s))
        \/ IsGpr(s) /\ IsMemory(d)
    BY DEF Emitted, LoadOpcode, StoreOpcode, BranchOpcode, SseOpcode
  <1>2. w \in BOOLEAN
    BY DEF IsWide
  <1>3. d.reg \in Registers /\ 0 \in Registers
    BY <1>1, OperandTypes
  <1> HIDE DEF s, d, w
  <1>4. CASE IsImmediate(s) /\ IsGpr(d) /\ ~ w
    <2> DEFINE rex == emit_rex_prefix(FALSE, 0, d.reg)
               n == RexLength(FALSE, 0, d.reg)
    <2>1. Code(rex, n)
      BY <1>2, <1>3, <1>4, OperandTypes, CodeRex
    <2>2. n \in Nat
      BY <2>1 DEF Code
    <2>3. Code(<<184 + Low3(d.reg)>>, 1)
      <3>1. d.reg \in Registers
        BY <1>3
      <3> QED
        BY <3>1, CodeOpcodeRegister
    <2>4. Code(Low(s.imm, 4), 4)
      BY <1>2, <1>3, <1>4, OperandTypes, CodeLow
    <2>5. encode_mov(x) = rex \o <<184 + Low3(d.reg)>> \o Low(s.imm, 4)
      BY <1>2, <1>3, <1>4, OperandTypes DEF encode_mov, IsWide, s, d, w
    <2>6. MovLength(x) = 5 + n
      BY <1>2, <1>3, <1>4, OperandTypes DEF MovLength, IsWide, s, d, w
    <2> HIDE DEF rex, n
    <2>7. Code(encode_mov(x), n + 1 + 4)
      BY <2>1, <2>3, <2>4, <2>5, CodeThree
    <2>8. n + 1 + 4 = MovLength(x) /\ MovLength(x) > 0
      BY <2>2, <2>6
    <2> QED
      BY <2>7, <2>8
  <1>5. CASE IsImmediate(s) /\ IsGpr(d) /\ w /\ Fits(s.imm, 4)
    <2> DEFINE rex == emit_rex_prefix(TRUE, 0, d.reg)
               n == RexLength(TRUE, 0, d.reg)
    <2>1. Code(rex, n)
      BY <1>2, <1>3, <1>5, OperandTypes, CodeRex
    <2>2. n \in Nat
      BY <2>1 DEF Code
    <2>3. Code(<<199>>, 1)
      BY <1>2, <1>3, <1>5, OperandTypes, CodeOpcode
    <2>4. Code(ModRegs(0, d.reg), 1)
      BY <1>2, <1>3, <1>5, OperandTypes, CodeRegs
    <2>5. Code(Low(s.imm, 4), 4)
      BY <1>2, <1>3, <1>5, OperandTypes, CodeLow
    <2>6. encode_mov(x) = rex \o <<199>> \o ModRegs(0, d.reg) \o Low(s.imm, 4)
      BY <1>2, <1>3, <1>5, OperandTypes DEF encode_mov, IsWide, s, d, w
    <2>7. MovLength(x) = n + 6
      BY <1>2, <1>3, <1>5, OperandTypes DEF MovLength, IsWide, s, d, w
    <2> HIDE DEF rex, n
    <2>8. Code(encode_mov(x), n + 1 + 1 + 4)
      BY <2>1, <2>3, <2>4, <2>5, <2>6, CodeFour
    <2>9. n + 1 + 1 + 4 = MovLength(x) /\ MovLength(x) > 0
      BY <2>2, <2>7
    <2> QED
      BY <2>8, <2>9
  <1>6. CASE IsImmediate(s) /\ IsGpr(d) /\ w /\ ~ Fits(s.imm, 4)
    <2> DEFINE rex == emit_rex_prefix(TRUE, 0, d.reg)
               n == RexLength(TRUE, 0, d.reg)
    <2>1. Code(rex, n)
      BY <1>2, <1>3, <1>6, OperandTypes, CodeRex
    <2>2. n \in Nat
      BY <2>1 DEF Code
    <2>3. Code(<<184 + Low3(d.reg)>>, 1)
      <3>1. d.reg \in Registers
        BY <1>3
      <3> QED
        BY <3>1, CodeOpcodeRegister
    <2>4. Code(s.imm, 8)
      BY <1>2, <1>3, <1>6, OperandTypes, CodeLow
    <2>5. encode_mov(x) = rex \o <<184 + Low3(d.reg)>> \o s.imm
      BY <1>2, <1>3, <1>6, OperandTypes DEF encode_mov, IsWide, s, d, w
    <2>6. MovLength(x) = n + 9
      BY <1>2, <1>3, <1>6, OperandTypes DEF MovLength, IsWide, s, d, w
    <2> HIDE DEF rex, n
    <2>7. Code(encode_mov(x), n + 1 + 8)
      BY <2>1, <2>3, <2>4, <2>5, CodeThree
    <2>8. n + 1 + 8 = MovLength(x) /\ MovLength(x) > 0
      BY <2>2, <2>6
    <2> QED
      BY <2>7, <2>8
  <1>7. CASE IsGpr(s) /\ IsGpr(d)
    <2> DEFINE rex == emit_rex_prefix(w, s.reg, d.reg)
               n == RexLength(w, s.reg, d.reg)
    <2>1. Code(rex, n)
      BY <1>2, <1>3, <1>7, OperandTypes, CodeRex
    <2>2. n \in Nat
      BY <2>1 DEF Code
    <2>3. Code(<<137>>, 1)
      BY <1>2, <1>3, <1>7, OperandTypes, CodeOpcode
    <2>4. Code(ModRegs(s.reg, d.reg), 1)
      BY <1>2, <1>3, <1>7, OperandTypes, CodeRegs
    <2>5. encode_mov(x) = rex \o <<137>> \o ModRegs(s.reg, d.reg)
      BY <1>2, <1>3, <1>7, OperandTypes DEF encode_mov, IsWide, s, d, w
    <2>6. MovLength(x) = 2 + n
      BY <1>2, <1>3, <1>7, OperandTypes DEF MovLength, IsWide, s, d, w
    <2> HIDE DEF rex, n
    <2>7. Code(encode_mov(x), n + 1 + 1)
      BY <2>1, <2>3, <2>4, <2>5, CodeThree
    <2>8. n + 1 + 1 = MovLength(x) /\ MovLength(x) > 0
      BY <2>2, <2>6
    <2> QED
      BY <2>7, <2>8
  <1>8. CASE IsMemory(s) /\ IsGpr(d)
    <2> DEFINE rex == emit_rex_prefix(w, d.reg, s.reg)
               n == RexLength(w, d.reg, s.reg)
               address == emit_modrm_sib_disp(d.reg, s.reg, s.imm)
               m == AddressLength(s.reg, s.imm)
    <2>1. Code(rex, n)
      BY <1>2, <1>3, <1>8, OperandTypes, CodeRex
    <2>2. n \in Nat
      BY <2>1 DEF Code
    <2>3. Code(<<139>>, 1)
      BY <1>2, <1>3, <1>8, OperandTypes, CodeOpcode
    <2>4. Code(address, m)
      BY <1>2, <1>3, <1>8, OperandTypes, CodeAddress
    <2>5. m \in Nat
      BY <2>4 DEF Code
    <2>6. encode_mov(x) = rex \o <<139>> \o address
      BY <1>2, <1>3, <1>8, OperandTypes DEF encode_mov, IsWide, s, d, w
    <2>7. MovLength(x) = n + 1 + m
      BY <1>2, <1>3, <1>8, OperandTypes DEF MovLength, IsWide, s, d, w
    <2> HIDE DEF rex, n, address, m
    <2>8. Code(encode_mov(x), n + 1 + m)
      BY <2>1, <2>3, <2>4, <2>6, CodeThree
    <2>9. n + 1 + m = MovLength(x) /\ MovLength(x) > 0
      BY <2>2, <2>5, <2>7
    <2> QED
      BY <2>8, <2>9
  <1>9. CASE IsGpr(s) /\ IsMemory(d)
    <2> DEFINE rex == emit_rex_prefix(w, s.reg, d.reg)
               n == RexLength(w, s.reg, d.reg)
               address == emit_modrm_sib_disp(s.reg, d.reg, d.imm)
               m == AddressLength(d.reg, d.imm)
    <2>1. Code(rex, n)
      BY <1>2, <1>3, <1>9, OperandTypes, CodeRex
    <2>2. n \in Nat
      BY <2>1 DEF Code
    <2>3. Code(<<137>>, 1)
      BY <1>2, <1>3, <1>9, OperandTypes, CodeOpcode
    <2>4. Code(address, m)
      BY <1>2, <1>3, <1>9, OperandTypes, CodeAddress
    <2>5. m \in Nat
      BY <2>4 DEF Code
    <2>6. encode_mov(x) = rex \o <<137>> \o address
      BY <1>2, <1>3, <1>9, OperandTypes DEF encode_mov, IsWide, s, d, w
    <2>7. MovLength(x) = n + 1 + m
      BY <1>2, <1>3, <1>9, OperandTypes DEF MovLength, IsWide, s, d, w
    <2> HIDE DEF rex, n, address, m
    <2>8. Code(encode_mov(x), n + 1 + m)
      BY <2>1, <2>3, <2>4, <2>6, CodeThree
    <2>9. n + 1 + m = MovLength(x) /\ MovLength(x) > 0
      BY <2>2, <2>5, <2>7
    <2> QED
      BY <2>8, <2>9
  <1>10. CASE IsRip(s) /\ IsGpr(d)
    <2> DEFINE rex == emit_rex_prefix(TRUE, d.reg, 0)
               n == RexLength(TRUE, d.reg, 0)
    <2>1. Code(rex, n)
      BY <1>2, <1>3, <1>10, OperandTypes, CodeRex
    <2>2. n \in Nat
      BY <2>1 DEF Code
    <2>3. Code(<<139>>, 1)
      BY <1>2, <1>3, <1>10, OperandTypes, CodeOpcode
    <2>4. Code(ModRip(d.reg), 1)
      BY <1>2, <1>3, <1>10, OperandTypes, CodeRegs
    <2>5. Code(Field, 4)
      BY <1>2, <1>3, <1>10, OperandTypes, CodeField
    <2>6. encode_mov(x) = rex \o <<139>> \o ModRip(d.reg) \o Field
      BY <1>2, <1>3, <1>10, OperandTypes DEF encode_mov, IsWide, s, d, w
    <2>7. MovLength(x) = n + 6
      BY <1>2, <1>3, <1>10, OperandTypes DEF MovLength, IsWide, s, d, w
    <2> HIDE DEF rex, n
    <2>8. Code(encode_mov(x), n + 1 + 1 + 4)
      BY <2>1, <2>3, <2>4, <2>5, <2>6, CodeFour
    <2>9. n + 1 + 1 + 4 = MovLength(x) /\ MovLength(x) > 0
      BY <2>2, <2>7
    <2> QED
      BY <2>8, <2>9
  <1> QED
    BY <1>1, <1>2, <1>4, <1>5, <1>6, <1>7, <1>8, <1>9, <1>10

(* movsd: each of its forms.                                               *)
LEMMA CodeMovsd ==
  ASSUME NEW x, x.op = "movsd", Emitted(x)
  PROVE  Code(encode_movsd(x), MovsdLength(x)) /\ MovsdLength(x) > 0
  <1> DEFINE s == x.src
             d == x.dst
  <1>1. \/ IsXmm(d) /\ (IsXmm(s) \/ IsMemory(s) \/ IsRip(s))
        \/ IsXmm(s) /\ IsMemory(d)
    BY DEF Emitted, LoadOpcode, StoreOpcode, BranchOpcode, SseOpcode
  <1>2. d.reg \in Registers /\ 0 \in Registers
    BY <1>1, OperandTypes
  <1>3. Code(<<15, 16>>, 2) /\ Code(<<15, 17>>, 2)
    <2>1. 15 \in Byte /\ 16 \in Byte /\ 17 \in Byte
      BY DEF Byte
    <2> QED
      BY <2>1, CodeTwo
  <1> HIDE DEF s, d
  <1>4. CASE IsXmm(s) /\ IsXmm(d)
    <2> DEFINE rex == emit_rex_prefix(FALSE, d.reg, s.reg)
               n == RexLength(FALSE, d.reg, s.reg)
               tail == ModRegs(d.reg, s.reg)
               m == 1
    <2>1. Code(rex, n)
      BY <1>2, <1>4, OperandTypes, CodeRex
    <2>2. Code(tail, m)
      BY <1>2, <1>4, OperandTypes, CodeRegs
    <2>3. encode_movsd(x) = <<242>> \o (rex \o <<15, 16>> \o ModRegs(d.reg, s.reg))
      BY <1>4, OperandTypes DEF encode_movsd, s, d
    <2>4. MovsdLength(x) = 1 + (3 + n)
      BY <1>4, OperandTypes DEF MovsdLength, s, d
    <2>5. n \in Nat /\ m \in Nat
      BY <2>1, <2>2 DEF Code
    <2> HIDE DEF rex, n, tail, m
    <2>6. Code(rex \o <<15, 16>> \o tail, n + 2 + m)
      BY <1>3, <2>1, <2>2, CodeThree
    <2>7. Code(<<242>> \o (rex \o <<15, 16>> \o tail), 1 + (n + 2 + m))
      BY <2>6, CodeOpcode, CodeCat
    <2>8. 1 + (n + 2 + m) = MovsdLength(x) /\ MovsdLength(x) > 0
      BY <2>4, <2>5 DEF m
    <2> QED
      BY <2>3, <2>7, <2>8 DEF tail
  <1>5. CASE IsMemory(s) /\ IsXmm(d)
    <2> DEFINE rex == emit_rex_prefix(FALSE, d.reg, s.reg)
               n == RexLength(FALSE, d.reg, s.reg)
               tail == emit_modrm_sib_disp(d.reg, s.reg, s.imm)
               m == AddressLength(s.reg, s.imm)
    <2>1. Code(rex, n)
      BY <1>2, <1>5, OperandTypes, CodeRex
    <2>2. Code(tail, m)
      BY <1>2, <1>5, OperandTypes, CodeAddress
    <2>3. encode_movsd(x) = <<242>> \o (rex \o <<15, 16>> \o tail)
      BY <1>5, OperandTypes DEF encode_movsd, s, d
    <2>4. MovsdLength(x) = 1 + (n + 2 + m)
      BY <1>5, OperandTypes DEF MovsdLength, s, d
    <2>5. n \in Nat /\ m \in Nat
      BY <2>1, <2>2 DEF Code
    <2> HIDE DEF rex, n, tail, m
    <2>6. Code(rex \o <<15, 16>> \o tail, n + 2 + m)
      BY <1>3, <2>1, <2>2, CodeThree
    <2>7. Code(<<242>> \o (rex \o <<15, 16>> \o tail), 1 + (n + 2 + m))
      BY <2>6, CodeOpcode, CodeCat
    <2>8. 1 + (n + 2 + m) = MovsdLength(x) /\ MovsdLength(x) > 0
      BY <2>4, <2>5 DEF m
    <2> QED
      BY <2>3, <2>7, <2>8 DEF tail
  <1>6. CASE IsXmm(s) /\ IsMemory(d)
    <2> DEFINE rex == emit_rex_prefix(FALSE, s.reg, d.reg)
               n == RexLength(FALSE, s.reg, d.reg)
               tail == emit_modrm_sib_disp(s.reg, d.reg, d.imm)
               m == AddressLength(d.reg, d.imm)
    <2>1. Code(rex, n)
      BY <1>2, <1>6, OperandTypes, CodeRex
    <2>2. Code(tail, m)
      BY <1>2, <1>6, OperandTypes, CodeAddress
    <2>3. encode_movsd(x) = <<242>> \o (rex \o <<15, 17>> \o tail)
      BY <1>6, OperandTypes DEF encode_movsd, s, d
    <2>4. MovsdLength(x) = 1 + (n + 2 + m)
      BY <1>6, OperandTypes DEF MovsdLength, s, d
    <2>5. n \in Nat /\ m \in Nat
      BY <2>1, <2>2 DEF Code
    <2> HIDE DEF rex, n, tail, m
    <2>6. Code(rex \o <<15, 17>> \o tail, n + 2 + m)
      BY <1>3, <2>1, <2>2, CodeThree
    <2>7. Code(<<242>> \o (rex \o <<15, 17>> \o tail), 1 + (n + 2 + m))
      BY <2>6, CodeOpcode, CodeCat
    <2>8. 1 + (n + 2 + m) = MovsdLength(x) /\ MovsdLength(x) > 0
      BY <2>4, <2>5 DEF m
    <2> QED
      BY <2>3, <2>7, <2>8 DEF tail
  <1>7. CASE IsRip(s) /\ IsXmm(d)
    <2> DEFINE rex == emit_rex_prefix(FALSE, d.reg, 0)
               n == RexLength(FALSE, d.reg, 0)
    <2>1. Code(rex, n)
      BY <1>2, CodeRex
    <2>2. Code(ModRip(d.reg), 1)
      BY <1>2, CodeRegs
    <2>3. encode_movsd(x) = <<242>> \o (rex \o <<15, 16>> \o ModRip(d.reg) \o Field)
      BY <1>7, OperandTypes DEF encode_movsd, s, d
    <2>4. MovsdLength(x) = 1 + (n + 7)
      BY <1>7, OperandTypes DEF MovsdLength, s, d
    <2>5. n \in Nat
      BY <2>1 DEF Code
    <2> HIDE DEF rex, n
    <2>6. Code(rex \o <<15, 16>> \o ModRip(d.reg) \o Field, n + 2 + 1 + 4)
      BY <1>3, <2>1, <2>2, CodeField, CodeFour
    <2>7. Code(<<242>> \o (rex \o <<15, 16>> \o ModRip(d.reg) \o Field), 1 + (n + 2 + 1 + 4))
      BY <2>6, CodeOpcode, CodeCat
    <2>8. 1 + (n + 2 + 1 + 4) = MovsdLength(x) /\ MovsdLength(x) > 0
      BY <2>4, <2>5
    <2> QED
      BY <2>3, <2>7, <2>8
  <1> QED
    BY <1>1, <1>4, <1>5, <1>6, <1>7

(* The instructions of the four tables.                                    *)
LEMMA OpcodeNames ==
  /\ DOMAIN LoadOpcode = {"movslq", "movzbl", "cmove", "imul"}
  /\ DOMAIN StoreOpcode = {"add", "sub", "and", "or", "xor", "cmp", "andb", "orb"}
  /\ DOMAIN SseOpcode = {"addsd", "subsd", "mulsd", "divsd", "xorpd", "ucomisd"}
  /\ DOMAIN BranchOpcode = {"jmp", "jne", "je"}
  BY DEF LoadOpcode, StoreOpcode, SseOpcode, BranchOpcode

LEMMA OpcodeBytes ==
  /\ \A op \in DOMAIN LoadOpcode : Code(LoadOpcode[op], IF op = "movslq" THEN 1 ELSE 2)
  /\ \A op \in DOMAIN StoreOpcode : Code(<<StoreOpcode[op]>>, 1)
  /\ \A op \in DOMAIN SseOpcode : Code(<<15, SseOpcode[op]>>, 2)
  /\ \A op \in DOMAIN BranchOpcode : Code(BranchOpcode[op], IF op = "jmp" THEN 1 ELSE 2)
  /\ \A c \in DOMAIN cond_to_opcode_byte : Code(<<15, cond_to_opcode_byte[c]>>, 2)
  /\ Code(<<102>>, 1) /\ Code(<<242>>, 1)
  <1>1. /\ LoadOpcode["movslq"] = <<99>> /\ LoadOpcode["movzbl"] = <<15, 182>>
        /\ LoadOpcode["cmove"] = <<15, 68>> /\ LoadOpcode["imul"] = <<15, 175>>
        /\ BranchOpcode["jmp"] = <<233>> /\ BranchOpcode["jne"] = <<15, 133>>
        /\ BranchOpcode["je"] = <<15, 132>>
    BY DEF LoadOpcode, BranchOpcode
  <1>2. \A k \in {15, 68, 99, 102, 132, 133, 175, 182, 233, 242} : k \in Byte
    BY DEF Byte
  <1>3. \A op \in DOMAIN StoreOpcode : StoreOpcode[op] \in Byte
    BY DEF StoreOpcode, Byte
  <1>4. \A op \in DOMAIN SseOpcode : SseOpcode[op] \in Byte
    BY DEF SseOpcode, Byte
  <1>5. \A c \in DOMAIN cond_to_opcode_byte : cond_to_opcode_byte[c] \in Byte
    BY DEF cond_to_opcode_byte, Byte
  <1>6. /\ Code(<<99>>, 1) /\ Code(<<15, 182>>, 2) /\ Code(<<15, 68>>, 2) /\ Code(<<15, 175>>, 2)
        /\ Code(<<233>>, 1) /\ Code(<<15, 133>>, 2) /\ Code(<<15, 132>>, 2)
    BY <1>2, CodeOne, CodeTwo
  <1>7. \A op \in DOMAIN LoadOpcode : Code(LoadOpcode[op], IF op = "movslq" THEN 1 ELSE 2)
    BY <1>1, <1>6, OpcodeNames
  <1>8. \A op \in DOMAIN BranchOpcode : Code(BranchOpcode[op], IF op = "jmp" THEN 1 ELSE 2)
    BY <1>1, <1>6, OpcodeNames
  <1> QED
    BY <1>2, <1>3, <1>4, <1>5, <1>7, <1>8, CodeOne, CodeTwo

(* What pass 1 counts for an instruction is what pass 2 writes for it,     *)
(* whatever the displacement of a branch: the property the offsets of all  *)
(* labels rest on.                                                         *)
THEOREM MeasuredExact ==
  ASSUME NEW x, NEW b, Emitted(x), Code(b, 4)
  PROVE  Code(Encoded(x, b), Measured(x)) /\ (x.op = "label" \/ Measured(x) > 0)
  <1> DEFINE s == x.src
             d == x.dst
  <1>1. 0 \in Registers /\ 7 \in Registers /\ 3 \in Registers /\ RSP \in Registers
    BY DEF Registers, RSP
  <1> HIDE DEF s, d
  <1>2. CASE x.op = "label"
    <2>1. Encoded(x, b) = << >> /\ Measured(x) = 0
      BY <1>2, OpcodeNames DEF Encoded, Measured
    <2> QED
      BY <1>2, <2>1, CodeEmpty
  <1>3. CASE x.op \in {"ret", "cltd"}
    <2>1. Measured(x) = 1
      BY <1>3, OpcodeNames DEF Measured
    <2>2. CASE x.op = "ret"
      <3>1. Encoded(x, b) = <<195>>
        BY <2>2, OpcodeNames DEF Encoded
      <3> QED
        BY <2>1, <3>1, CodeOpcode
    <2>3. CASE x.op = "cltd"
      <3>1. Encoded(x, b) = <<153>>
        BY <2>3, OpcodeNames DEF Encoded
      <3> QED
        BY <2>1, <3>1, CodeOpcode
    <2> QED
      BY <1>3, <2>2, <2>3
  <1>4. CASE x.op = "push" /\ IsGpr(d)
    <2> DEFINE rex == emit_rex_prefix(FALSE, 0, d.reg)
               n == RexLength(FALSE, 0, d.reg)
    <2>1. Code(rex, n)
      BY <1>1, <1>4, OperandTypes, CodeRex
    <2>2. n \in Nat
      BY <2>1 DEF Code
    <2>3. Code(<<80 + Low3(d.reg)>>, 1)
      <3>1. d.reg \in Registers
        BY <1>1, <1>4, OperandTypes
      <3> QED
        BY <3>1, CodeOpcodeRegister
    <2>4. Encoded(x, b) = rex \o <<80 + Low3(d.reg)>>
      BY <1>4, OperandTypes, OpcodeNames DEF Encoded, s, d
    <2>5. Measured(x) = 1 + n
      BY <1>4, OperandTypes, OpcodeNames DEF Measured, s, d
    <2> HIDE DEF rex, n
    <2>6. Code(Encoded(x, b), n + 1)
      BY <2>1, <2>3, <2>4, CodeCat
    <2>7. n + 1 = Measured(x) /\ Measured(x) > 0
      BY <2>2, <2>5
    <2> QED
      BY <2>6, <2>7
  <1>5. CASE x.op = "pop" /\ IsGpr(d)
    <2> DEFINE rex == emit_rex_prefix(FALSE, 0, d.reg)
               n == RexLength(FALSE, 0, d.reg)
    <2>1. Code(rex, n)
      BY <1>1, <1>5, OperandTypes, CodeRex
    <2>2. n \in Nat
      BY <2>1 DEF Code
    <2>3. Code(<<88 + Low3(d.reg)>>, 1)
      <3>1. d.reg \in Registers
        BY <1>1, <1>5, OperandTypes
      <3> QED
        BY <3>1, CodeOpcodeRegister
    <2>4. Encoded(x, b) = rex \o <<88 + Low3(d.reg)>>
      BY <1>5, OperandTypes, OpcodeNames DEF Encoded, s, d
    <2>5. Measured(x) = 1 + n
      BY <1>5, OperandTypes, OpcodeNames DEF Measured, s, d
    <2> HIDE DEF rex, n
    <2>6. Code(Encoded(x, b), n + 1)
      BY <2>1, <2>3, <2>4, CodeCat
    <2>7. n + 1 = Measured(x) /\ Measured(x) > 0
      BY <2>2, <2>5
    <2> QED
      BY <2>6, <2>7
  <1>6. CASE x.op = "neg" /\ IsGpr(d)
    <2> DEFINE rex == emit_rex_prefix(FALSE, 0, d.reg)
               n == RexLength(FALSE, 0, d.reg)
    <2>1. Code(rex, n)
      BY <1>1, <1>6, OperandTypes, CodeRex
    <2>2. n \in Nat
      BY <2>1 DEF Code
    <2>3. Code(<<247>>, 1)
      BY <1>1, <1>6, OperandTypes, CodeOpcode
    <2>4. Code(ModRegs(3, d.reg), 1)
      BY <1>1, <1>6, OperandTypes, CodeRegs
    <2>5. Encoded(x, b) = rex \o <<247>> \o ModRegs(3, d.reg)
      BY <1>6, OperandTypes, OpcodeNames DEF Encoded, s, d
    <2>6. Measured(x) = 2 + n
      BY <1>6, OperandTypes, OpcodeNames DEF Measured, s, d
    <2> HIDE DEF rex, n
    <2>7. Code(Encoded(x, b), n + 1 + 1)
      BY <2>1, <2>3, <2>4, <2>5, CodeThree
    <2>8. n + 1 + 1 = Measured(x) /\ Measured(x) > 0
      BY <2>2, <2>6
    <2> QED
      BY <2>7, <2>8
  <1>7. CASE x.op = "idiv" /\ IsGpr(s)
    <2> DEFINE rex == emit_rex_prefix(FALSE, 0, s.reg)
               n == RexLength(FALSE, 0, s.reg)
    <2>1. Code(rex, n)
      BY <1>1, <1>7, OperandTypes, CodeRex
    <2>2. n \in Nat
      BY <2>1 DEF Code
    <2>3. Code(<<247>>, 1)
      BY <1>1, <1>7, OperandTypes, CodeOpcode
    <2>4. Code(ModRegs(7, s.reg), 1)
      BY <1>1, <1>7, OperandTypes, CodeRegs
    <2>5. Encoded(x, b) = rex \o <<247>> \o ModRegs(7, s.reg)
      BY <1>7, OperandTypes, OpcodeNames DEF Encoded, s, d
    <2>6. Measured(x) = 2 + n
      BY <1>7, OperandTypes, OpcodeNames DEF Measured, s, d
    <2> HIDE DEF rex, n
    <2>7. Code(Encoded(x, b), n + 1 + 1)
      BY <2>1, <2>3, <2>4, <2>5, CodeThree
    <2>8. n + 1 + 1 = Measured(x) /\ Measured(x) > 0
      BY <2>2, <2>6
    <2> QED
      BY <2>7, <2>8
  <1>8. CASE x.op \in {"sub_imm", "add_imm"} /\ IsImmediate(s)
    <2>1. Code(<<72>>, 1)
      BY CodeOne DEF Byte
    <2>2. \A digit \in 0 .. 7 :
            Code(ImmediateForm(<<72>>, digit, RSP, s.imm), 1 + (IF Fits(s.imm, 1) THEN 3 ELSE 6))
      BY <1>1, <1>8, <2>1, OperandTypes, CodeImmediate
    <2>3. Encoded(x, b) \in {ImmediateForm(<<72>>, digit, RSP, s.imm) : digit \in {0, 5}}
      BY <1>8, OpcodeNames DEF Encoded, s
    <2>4. Measured(x) = IF Fits(s.imm, 1) THEN 4 ELSE 7
      BY <1>8, OpcodeNames DEF Measured, s
    <2>5. 1 + (IF Fits(s.imm, 1) THEN 3 ELSE 6) = Measured(x) /\ Measured(x) > 0
      BY <2>4
    <2> QED
      BY <2>2, <2>3, <2>5, 0 \in 0 .. 7, 5 \in 0 .. 7
  <1>9. CASE x.op = "cmp_imm" /\ IsImmediate(s) /\ IsGpr(d)
    <2> DEFINE rex == emit_rex_prefix(FALSE, 0, d.reg)
               n == RexLength(FALSE, 0, d.reg)
    <2>1. Code(rex, n)
      BY <1>1, <1>9, OperandTypes, CodeRex
    <2>2. n \in Nat
      BY <2>1 DEF Code
    <2>3. Encoded(x, b) = ImmediateForm(rex, 7, d.reg, s.imm)
      BY <1>9, OpcodeNames DEF Encoded, s, d
    <2>4. Measured(x) = n + (IF Fits(s.imm, 1) THEN 3 ELSE 6)
      BY <1>9, OpcodeNames DEF Measured, s, d
    <2> HIDE DEF rex, n
    <2>5. Code(Encoded(x, b), n + (IF Fits(s.imm, 1) THEN 3 ELSE 6))
      BY <1>9, <2>1, <2>3, OperandTypes, CodeImmediate
    <2> QED
      BY <2>2, <2>4, <2>5
  <1>10. CASE x.op = "movb_imm" /\ IsImmediate(s) /\ IsGpr(d)
    <2> DEFINE rex == emit_rex_prefix(FALSE, 0, d.reg)
               n == RexLength(FALSE, 0, d.reg)
    <2>1. Code(rex, n)
      BY <1>1, <1>10, OperandTypes, CodeRex
    <2>2. n \in Nat
      BY <2>1 DEF Code
    <2>3. Code(<<176 + Low3(d.reg)>>, 1)
      <3>1. d.reg \in Registers
        BY <1>1, <1>10, OperandTypes
      <3> QED
        BY <3>1, CodeOpcodeRegister
    <2>4. Code(Low(s.imm, 1), 1)
      BY <1>1, <1>10, OperandTypes, CodeLow
    <2>5. Encoded(x, b) = rex \o <<176 + Low3(d.reg)>> \o Low(s.imm, 1)
      BY <1>10, OperandTypes, OpcodeNames DEF Encoded, s, d
    <2>6. Measured(x) = 2 + n
      BY <1>10, OperandTypes, OpcodeNames DEF Measured, s, d
    <2> HIDE DEF rex, n
    <2>7. Code(Encoded(x, b), n + 1 + 1)
      BY <2>1, <2>3, <2>4, <2>5, CodeThree
    <2>8. n + 1 + 1 = Measured(x) /\ Measured(x) > 0
      BY <2>2, <2>6
    <2> QED
      BY <2>7, <2>8
  <1>11. CASE x.op = "lea" /\ IsMemory(s) /\ IsGpr(d)
    <2> DEFINE rex == emit_rex_prefix(TRUE, d.reg, s.reg)
               n == RexLength(TRUE, d.reg, s.reg)
               address == emit_modrm_sib_disp(d.reg, s.reg, s.imm)
               m == AddressLength(s.reg, s.imm)
    <2>1. Code(rex, n)
      BY <1>11, OperandTypes, CodeRex
    <2>2. Code(address, m)
      BY <1>11, OperandTypes, CodeAddress
    <2>3. n \in Nat /\ m \in Nat
      BY <2>1, <2>2 DEF Code
    <2>4. Encoded(x, b) = rex \o <<141>> \o address
      BY <1>11, OperandTypes, OpcodeNames DEF Encoded, s, d
    <2>5. Measured(x) = n + 1 + m
      BY <1>11, OperandTypes, OpcodeNames DEF Measured, s, d
    <2> HIDE DEF rex, n, address, m
    <2>6. Code(Encoded(x, b), n + 1 + m)
      BY <2>1, <2>2, <2>4, CodeOpcode, CodeThree
    <2> QED
      BY <2>3, <2>5, <2>6
  <1>12. CASE x.op = "lea" /\ IsRip(s) /\ IsGpr(d)
    <2> DEFINE rex == emit_rex_prefix(TRUE, d.reg, 0)
               n == RexLength(TRUE, d.reg, 0)
    <2>1. Code(rex, n)
      BY <1>1, <1>12, OperandTypes, CodeRex
    <2>2. n \in Nat
      BY <2>1 DEF Code
    <2>3. Code(<<141>>, 1)
      BY <1>1, <1>12, OperandTypes, CodeOpcode
    <2>4. Code(ModRip(d.reg), 1)
      BY <1>1, <1>12, OperandTypes, CodeRegs
    <2>5. Code(Field, 4)
      BY <1>1, <1>12, OperandTypes, CodeField
    <2>6. Encoded(x, b) = rex \o <<141>> \o ModRip(d.reg) \o Field
      BY <1>12, OperandTypes, OpcodeNames DEF Encoded, s, d
    <2>7. Measured(x) = n + 6
      BY <1>12, OperandTypes, OpcodeNames DEF Measured, s, d
    <2> HIDE DEF rex, n
    <2>8. Code(Encoded(x, b), n + 1 + 1 + 4)
      BY <2>1, <2>3, <2>4, <2>5, <2>6, CodeFour
    <2>9. n + 1 + 1 + 4 = Measured(x) /\ Measured(x) > 0
      BY <2>2, <2>7
    <2> QED
      BY <2>8, <2>9
  <1>13. CASE x.op = "mov"
    <2>1. Encoded(x, b) = encode_mov(x) /\ Measured(x) = MovLength(x)
      BY <1>13, OpcodeNames DEF Encoded, Measured
    <2> QED
      BY <1>13, <2>1, CodeMov
  <1>14. CASE x.op \in DOMAIN LoadOpcode /\ IsGpr(s) /\ IsGpr(d)
    <2> DEFINE w == x.op \in {"movslq", "cmove"}
               rex == emit_rex_prefix(w, d.reg, s.reg)
               n == RexLength(w, d.reg, s.reg)
               m == IF x.op = "movslq" THEN 1 ELSE 2
    <2>1. Code(rex, n)
      <3>1. w \in BOOLEAN
        OBVIOUS
      <3> HIDE DEF w
      <3> QED BY <1>14, <3>1, OperandTypes, CodeRex
    <2>2. Code(LoadOpcode[x.op], m) /\ Code(ModRegs(d.reg, s.reg), 1)
      BY <1>14, OperandTypes, OpcodeBytes, CodeRegs
    <2>3. n \in Nat /\ m \in 1 .. 2
      BY <2>1 DEF Code
    <2>4. Encoded(x, b) = rex \o LoadOpcode[x.op] \o ModRegs(d.reg, s.reg)
      <3>1. /\ x.op \notin {"label", "push", "pop", "ret", "sub_imm", "add_imm", "cmp_imm", "lea", "mov",
                            "movb_imm", "idiv", "neg", "cltd", "setcc", "call", "movsd"}
            /\ x.op \notin DOMAIN StoreOpcode /\ x.op \notin DOMAIN BranchOpcode
            /\ x.op \notin DOMAIN SseOpcode
        BY <1>14, OpcodeNames
      <3> QED
        BY <1>14, <3>1 DEF Encoded, s, d
    <2>5. Measured(x) = n + m + 1
      <3>1. CASE w
        <4> DEFINE k == RexLength(TRUE, d.reg, s.reg)
        <4>1. Measured(x) = k + (IF x.op = "movslq" THEN 2 ELSE 3)
          BY <1>14, <3>1, OpcodeNames DEF Measured, s, d
        <4>2. n = k
          BY <3>1 DEF RexLength
        <4>3. (IF x.op = "movslq" THEN 2 ELSE 3) = m + 1
          OBVIOUS
        <4> HIDE DEF n, m, k
        <4> QED
          BY <2>3, <4>1, <4>2, <4>3
      <3>2. CASE ~ w
        <4> DEFINE k == RexLength(FALSE, d.reg, s.reg)
        <4>1. Measured(x) = 3 + k
          BY <1>14, <3>2, OpcodeNames DEF Measured, s, d
        <4>2. n = k /\ m = 2
          BY <3>2 DEF RexLength
        <4> HIDE DEF n, m, k
        <4> QED
          BY <2>3, <4>1, <4>2
      <3> QED
        BY <3>1, <3>2
    <2> HIDE DEF rex, n, m
    <2>6. Code(Encoded(x, b), n + m + 1)
      BY <2>1, <2>2, <2>4, CodeThree
    <2> QED
      BY <2>3, <2>5, <2>6
  <1>15. CASE x.op \in DOMAIN StoreOpcode /\ IsGpr(s) /\ IsGpr(d)
    <2> DEFINE rex == emit_rex_prefix(FALSE, s.reg, d.reg)
               n == RexLength(FALSE, s.reg, d.reg)
    <2>1. Code(rex, n)
      BY <1>1, <1>15, OperandTypes, CodeRex
    <2>2. n \in Nat
      BY <2>1 DEF Code
    <2>3. Code(<<StoreOpcode[x.op]>>, 1)
      BY <1>1, <1>15, OperandTypes, OpcodeBytes
    <2>4. Code(ModRegs(s.reg, d.reg), 1)
      BY <1>1, <1>15, OperandTypes, CodeRegs
    <2>5. Encoded(x, b) = rex \o <<StoreOpcode[x.op]>> \o ModRegs(s.reg, d.reg)
      <3>1. /\ x.op \notin {"label", "push", "pop", "ret", "sub_imm", "add_imm", "cmp_imm", "lea", "mov",
                            "movb_imm", "idiv", "neg", "cltd", "setcc", "call", "movsd"}
            /\ x.op \notin DOMAIN LoadOpcode /\ x.op \notin DOMAIN BranchOpcode
            /\ x.op \notin DOMAIN SseOpcode
        BY <1>15, OpcodeNames
      <3> QED
        BY <1>15, <3>1 DEF Encoded, s, d
    <2>6. Measured(x) = 2 + n
      BY <1>15, OperandTypes, OpcodeNames DEF Measured, s, d
    <2> HIDE DEF rex, n
    <2>7. Code(Encoded(x, b), n + 1 + 1)
      BY <2>1, <2>3, <2>4, <2>5, CodeThree
    <2>8. n + 1 + 1 = Measured(x) /\ Measured(x) > 0
      BY <2>2, <2>6
    <2> QED
      BY <2>7, <2>8
  <1>16. CASE x.op = "setcc" /\ s.cond \in DOMAIN cond_to_opcode_byte /\ IsGpr(d)
    <2> DEFINE rex == emit_rex_prefix(FALSE, 0, d.reg)
               n == RexLength(FALSE, 0, d.reg)
    <2>1. Code(rex, n)
      BY <1>1, <1>16, OperandTypes, CodeRex
    <2>2. n \in Nat
      BY <2>1 DEF Code
    <2>3. Code(<<15, cond_to_opcode_byte[s.cond]>>, 2)
      BY <1>1, <1>16, OperandTypes, OpcodeBytes
    <2>4. Code(ModRegs(0, d.reg), 1)
      BY <1>1, <1>16, OperandTypes, CodeRegs
    <2>5. Encoded(x, b) = rex \o <<15, cond_to_opcode_byte[s.cond]>> \o ModRegs(0, d.reg)
      BY <1>16, OperandTypes, OpcodeNames DEF Encoded, s, d
    <2>6. Measured(x) = 3 + n
      BY <1>16, OperandTypes, OpcodeNames DEF Measured, s, d
    <2> HIDE DEF rex, n
    <2>7. Code(Encoded(x, b), n + 2 + 1)
      BY <2>1, <2>3, <2>4, <2>5, CodeThree
    <2>8. n + 2 + 1 = Measured(x) /\ Measured(x) > 0
      BY <2>2, <2>6
    <2> QED
      BY <2>7, <2>8
  <1>17. CASE x.op \in DOMAIN BranchOpcode
    <2> DEFINE m == IF x.op = "jmp" THEN 1 ELSE 2
    <2>1. Code(BranchOpcode[x.op], m) /\ m \in 1 .. 2
      BY <1>17, OpcodeBytes
    <2>2. Encoded(x, b) = BranchOpcode[x.op] \o b
      BY <1>17, OpcodeNames DEF Encoded
    <2>3. Measured(x) = IF x.op = "jmp" THEN 5 ELSE 6
      BY <1>17, OpcodeNames DEF Measured
    <2>4. Measured(x) = m + 4
      BY <2>3
    <2> HIDE DEF m
    <2>5. Code(Encoded(x, b), m + 4)
      BY <2>1, <2>2, CodeCat
    <2> QED
      BY <2>1, <2>4, <2>5
  <1>18. CASE x.op = "call"
    <2>1. Encoded(x, b) = <<232>> \o Field /\ Measured(x) = 5
      BY <1>18, OpcodeNames DEF Encoded, Measured
    <2>2. Code(<<232>>, 1) /\ Code(Field, 4)
      BY CodeOpcode, CodeField
    <2>3. Code(<<232>> \o Field, 1 + 4)
      BY <2>2, CodeCat
    <2> QED
      BY <2>1, <2>3
  <1>19. CASE x.op = "movsd"
    <2>1. Encoded(x, b) = encode_movsd(x) /\ Measured(x) = MovsdLength(x)
      BY <1>19, OpcodeNames DEF Encoded, Measured
    <2> QED
      BY <1>19, <2>1, CodeMovsd
  <1>20. CASE x.op \in DOMAIN SseOpcode /\ IsXmm(s) /\ IsXmm(d)
    <2> DEFINE prefix == <<IF x.op \in ShiftedOps THEN 102 ELSE 242>>
               rex == emit_rex_prefix(FALSE, d.reg, s.reg)
               n == RexLength(FALSE, d.reg, s.reg)
    <2>1. Code(rex, n) /\ Code(ModRegs(d.reg, s.reg), 1)
      BY <1>20, OperandTypes, CodeRex, CodeRegs
    <2>2. Code(prefix, 1) /\ Code(<<15, SseOpcode[x.op]>>, 2)
      BY <1>20, OpcodeBytes
    <2>3. n \in Nat
      BY <2>1 DEF Code
    <2>4. Encoded(x, b) = prefix \o rex \o <<15, SseOpcode[x.op]>> \o ModRegs(d.reg, s.reg)
      <3>1. /\ x.op \notin {"label", "push", "pop", "ret", "sub_imm", "add_imm", "cmp_imm", "lea", "mov",
                            "movb_imm", "idiv", "neg", "cltd", "setcc", "call", "movsd"}
            /\ x.op \notin DOMAIN LoadOpcode /\ x.op \notin DOMAIN StoreOpcode
            /\ x.op \notin DOMAIN BranchOpcode
        BY <1>20, OpcodeNames
      <3> QED
        BY <1>20, <3>1 DEF Encoded, s, d
    <2>5. Measured(x) = 4 + n
      BY <1>20, OpcodeNames DEF Measured, s, d
    <2> HIDE DEF prefix, rex, n
    <2>6. Code(Encoded(x, b), 1 + n + 2 + 1)
      BY <2>1, <2>2, <2>4, CodeFour
    <2>7. 1 + n + 2 + 1 = Measured(x) /\ Measured(x) > 0
      BY <2>3, <2>5
    <2> QED
      BY <2>6, <2>7
  <1> QED
    BY <1>2, <1>3, <1>4, <1>5, <1>6, <1>7, <1>8, <1>9, <1>10, <1>11, <1>12, <1>13, <1>14, <1>15,
       <1>16, <1>17, <1>18, <1>19, <1>20 DEF Emitted, s, d

(* A relocation is left by a call and by an instruction that reads a       *)
(* symbol, and by no other; its field is the last four bytes of the        *)
(* instruction, which is what the addend -4 stands for.                    *)
RelocRecord == [offset : Nat, symbol : Names, type : {"PLT32", "PC32"}, addend : Int]

THEOREM RelocExact ==
  ASSUME NEW x, NEW p \in Nat, Emitted(x)
  PROVE  /\ ~ IsRelocated(x) => RelocOf(x, p) = << >>
         /\ IsRelocated(x) => \E r \in RelocRecord :
                /\ RelocOf(x, p) = <<r>>
                /\ r.symbol = x.src.symbol /\ r.addend = -4
                /\ p <= r.offset /\ r.offset + 4 = p + Measured(x)
  <1> DEFINE Good(r) == /\ RelocOf(x, p) = <<r>>
                        /\ r.symbol = x.src.symbol /\ r.addend = -4
                        /\ p <= r.offset /\ r.offset + 4 = p + Measured(x)
             rec(offset, type) == [offset |-> offset, symbol |-> x.src.symbol,
                                   type |-> type, addend |-> -4]
  <1>1. CASE x.op = "call"
    <2>1. Measured(x) = 5
      BY <1>1, OpcodeNames DEF Measured
    <2>2. x.src.symbol \in Names /\ IsRelocated(x)
      BY <1>1, OpcodeNames DEF Emitted, IsSymbol, IsRelocated, Names
    <2>3. RelocOf(x, p) = <<rec(p + 1, "PLT32")>>
      BY <1>1 DEF RelocOf, Reloc
    <2>4. rec(p + 1, "PLT32") \in RelocRecord /\ Good(rec(p + 1, "PLT32"))
      BY <2>1, <2>2, <2>3 DEF RelocRecord
    <2> QED
      BY <2>2, <2>4
  <1>2. CASE x.op # "call" /\ x.src.kind = "rip"
    <2>1. /\ x.op \in {"lea", "mov", "movsd"} /\ IsRelocated(x)
          /\ x.src.symbol \in STRING /\ x.dst.kind = "reg" /\ x.dst.reg \in 0 .. 31
      BY <1>2, OpcodeNames
         DEF Emitted, IsRelocated, IsRip, IsGpr, IsXmm, IsMemory, IsImmediate, IsSymbol
    <2>2. x.src.symbol \in Names
      BY <2>1 DEF Names
    <2>5. 0 \in Registers /\ x.dst.reg \in Registers
      BY <2>1 DEF Registers
    <2>3. CASE x.op \in {"lea", "mov"}
      <3> DEFINE n == RexLength(TRUE, x.dst.reg, 0)
      <3>1. n \in Nat
        BY <2>5, CodeRex DEF Code
      <3>2. Measured(x) = n + 6
        BY <1>2, <2>1, <2>3, OpcodeNames DEF Measured, MovLength
      <3>3. RelocOf(x, p) = <<rec(p + n + 2, "PC32")>>
        BY <1>2, <2>3 DEF RelocOf, Reloc
      <3> HIDE DEF n
      <3>4. rec(p + n + 2, "PC32") \in RelocRecord
        BY <2>2, <3>1 DEF RelocRecord
      <3>5. Good(rec(p + n + 2, "PC32"))
        BY <3>1, <3>2, <3>3
      <3> QED
        BY <2>1, <3>4, <3>5
    <2>4. CASE x.op = "movsd"
      <3> DEFINE n == RexLength(FALSE, x.dst.reg, 0)
      <3>1. n \in Nat
        BY <2>5, CodeRex DEF Code
      <3>2. Measured(x) = 1 + (n + 7)
        BY <1>2, <2>1, <2>4, OpcodeNames DEF Measured, MovsdLength
      <3>3. RelocOf(x, p) = <<rec(p + 1 + n + 3, "PC32")>>
        BY <1>2, <2>4 DEF RelocOf, Reloc
      <3> HIDE DEF n
      <3>4. rec(p + 1 + n + 3, "PC32") \in RelocRecord
        BY <2>2, <3>1 DEF RelocRecord
      <3>5. Good(rec(p + 1 + n + 3, "PC32"))
        BY <3>1, <3>2, <3>3
      <3> QED
        BY <2>1, <3>4, <3>5
    <2> QED
      BY <2>1, <2>3, <2>4
  <1>3. CASE x.op # "call" /\ x.src.kind # "rip"
    BY <1>3 DEF IsRelocated, RelocOf
  <1> QED
    BY <1>1, <1>2, <1>3

-----------------------------------------------------------------------------
(* Lists of records with names, and sums of lengths.                       *)

(* A non-empty set of natural numbers has a least element.                 *)
LEMMA LeastNat ==
  ASSUME NEW T, T \subseteq Nat, T # {}
  PROVE  \E i \in T : \A j \in T : i <= j
  <1>1. PICK x \in T : \A y \in T : ~ (<<y, x>> \in OpToRel(<, Nat))
    BY NatLessThanWellFounded, WFMin
  <1>2. \A y \in T : ~ (y < x)
    BY <1>1 DEF OpToRel
  <1> QED
    BY <1>2

(* Find returns the first record with the name.                            *)
LEMMA FindFirst ==
  ASSUME NEW seq, NEW name, IsList(seq), Named(seq, name)
  PROVE  /\ Find(seq, name) \in DOMAIN seq /\ seq[Find(seq, name)].name = name
         /\ \A j \in DOMAIN seq : seq[j].name = name => Find(seq, name) <= j
  <1> DEFINE T == {k \in DOMAIN seq : seq[k].name = name}
  <1>1. T \subseteq Nat /\ T # {}
    BY DEF IsList, Named
  <1>2. \E i \in T : \A j \in T : i <= j
    BY <1>1, LeastNat
  <1>3. \E k \in DOMAIN seq :
           seq[k].name = name /\ \A j \in DOMAIN seq : seq[j].name = name => k <= j
    BY <1>2
  <1> QED
    BY <1>3 DEF Find

(* The sums of the lengths are defined, and grow by one length each.       *)
LEMMA SumsExact ==
  ASSUME NEW lengths, IsList(lengths), \A k \in DOMAIN lengths : lengths[k] \in Nat
  PROVE  /\ Sums(lengths) \in [0 .. Len(lengths) -> Nat] /\ Sums(lengths)[0] = 0
         /\ \A k \in 1 .. Len(lengths) : Sums(lengths)[k] = Sums(lengths)[k - 1] + lengths[k]
  <1> DEFINE N == Len(lengths)
             Adds(f, n) == /\ f \in [0 .. n -> Nat]
                           /\ f[0] = 0 /\ \A k \in 1 .. n : f[k] = f[k - 1] + lengths[k]
             T == {n \in 0 .. N : ~ \E f : Adds(f, n)}
  <1>1. N \in Nat /\ DOMAIN lengths = 1 .. N
    BY DEF IsList
  <1>2. T = {}
    <2> SUFFICES ASSUME T # {} PROVE FALSE
      OBVIOUS
    <2>1. T \subseteq Nat
      BY <1>1
    <2>2. PICK n \in T : \A j \in T : n <= j
      <3> HIDE DEF T
      <3> QED BY <2>1, LeastNat
    <2>3. n # 0
      <3>1. Adds([k \in 0 .. 0 |-> 0], 0)
        OBVIOUS
      <3>2. \E f : Adds(f, 0)
        BY <3>1
      <3> HIDE DEF Adds
      <3> QED
        BY <2>2, <3>2
    <2>4. n - 1 \in 0 .. N /\ n - 1 \notin T
      <3>1. n \in 0 .. N
        BY <2>2
      <3> HIDE DEF T, N
      <3> QED
        BY <1>1, <2>2, <2>3, <3>1
    <2>5. PICK f : Adds(f, n - 1)
      BY <2>4
    <2>6. Adds([k \in 0 .. n |-> IF k = n THEN f[n - 1] + lengths[n] ELSE f[k]], n)
      <3>1. n \in 1 .. N
        BY <1>1, <2>2, <2>3
      <3>2. lengths[n] \in Nat /\ f[n - 1] \in Nat
        BY <1>1, <2>5, <3>1
      <3> HIDE DEF N
      <3> QED
        BY <1>1, <2>5, <3>1, <3>2
    <2>7. \E g : Adds(g, n)
      BY <2>6
    <2> HIDE DEF Adds
    <2> QED
      BY <2>2, <2>7
  <1>3. PICK f : Adds(f, N)
    <2>1. N \in 0 .. N /\ N \notin T
      <3> HIDE DEF T, N
      <3> QED BY <1>1, <1>2
    <2> HIDE DEF Adds, N
    <2> QED BY <2>1
  <1>4. f = [k \in 0 .. N |-> IF k = 0 THEN 0 ELSE f[k - 1] + lengths[k]]
    BY <1>1, <1>3
  <1>5. Sums(lengths) = CHOOSE g : g = [k \in 0 .. N |-> IF k = 0 THEN 0 ELSE g[k - 1] + lengths[k]]
    BY DEF Sums
  <1>6. Sums(lengths) = [k \in 0 .. N |-> IF k = 0 THEN 0 ELSE Sums(lengths)[k - 1] + lengths[k]]
    BY <1>4, <1>5
  <1>7. {k \in 0 .. N : Sums(lengths)[k] \notin Nat} = {}
    <2> DEFINE g == Sums(lengths)
               U == {k \in 0 .. N : g[k] \notin Nat}
    <2> HIDE DEF g, N
    <2> SUFFICES ASSUME U # {} PROVE FALSE
      BY DEF g
    <2>1. U \subseteq Nat
      BY <1>1
    <2>2. PICK n \in U : \A j \in U : n <= j
      <3> HIDE DEF U
      <3> QED BY <2>1, LeastNat
    <2>3. g[0] = 0 /\ \A k \in 1 .. N : g[k] = g[k - 1] + lengths[k]
      BY <1>1, <1>6 DEF g
    <2>4. n \in 1 .. N /\ g[n - 1] \in Nat /\ lengths[n] \in Nat
      <3>1. n \in 0 .. N /\ g[n] \notin Nat
        BY <2>2
      <3>2. n # 0
        BY <2>3, <3>1
      <3>3. n \in 1 .. N /\ n - 1 \in 0 .. N /\ ~ (n <= n - 1)
        BY <1>1, <3>1, <3>2
      <3>4. n - 1 \notin U
        BY <2>2, <3>3
      <3>5. g[n - 1] \in Nat
        BY <3>3, <3>4
      <3> QED
        BY <1>1, <3>3, <3>5
    <2> QED
      BY <2>2, <2>3, <2>4
  <1> QED
    <2> DEFINE g == Sums(lengths)
    <2>1. g = [k \in 0 .. N |-> IF k = 0 THEN 0 ELSE g[k - 1] + lengths[k]]
      BY <1>6
    <2>2. \A k \in 0 .. N : g[k] \in Nat
      BY <1>7
    <2> HIDE DEF g, N
    <2>3. g \in [0 .. N -> Nat] /\ g[0] = 0
      BY <1>1, <2>1, <2>2
    <2>4. \A k \in 1 .. N : g[k] = g[k - 1] + lengths[k]
      BY <1>1, <2>1
    <2> QED
      BY <2>3, <2>4 DEF g, N

-----------------------------------------------------------------------------
(* The inductive invariant.                                                *)
Cell == Nat \X Names \X Nat
Entry == [name : Names, offset : Nat]
Definition == [name : Names, value : Nat, defined : BOOLEAN]
Sections == {"undef", "abs", "rodata", "text"}
SymRecord == [name : Names, bind : {"local", "global"}, type : {"notype", "file", "section", "func"},
              section : Sections, value : Nat]
Rela == [offset : Nat, sym : Nat, type : {"PLT32", "PC32"}, addend : Int]
Object == [text : Seq(Byte), rodata : Seq(Cell), syms : Seq(SymRecord), relas : Seq(Rela)]
Global == [name : Names, object : Nat, section : Sections, value : Nat, defined : BOOLEAN, vaddr : Int]
Image == [text : Seq(Byte), rodata : Seq(Cell), textOff : Seq(Nat), rodataOff : Seq(Nat), entry : Int]
Image0 == [text |-> << >>, rodata |-> << >>, textOff |-> << >>, rodataOff |-> << >>, entry |-> 0]

CodeStages == {"measure", "encode"}
SymbolStages == {"resolve", "defined", "undefined"}
CompileStages == {"strings", "floats"} \union CodeStages \union SymbolStages
LinkStages == {"collect", "merge", "relocate", "linked"}

CompilerTypes ==
    /\ rodata \in Seq(Cell) /\ rodata_map \in Seq(Entry)
    /\ text \in Seq(Byte) /\ relocs \in Seq(RelocRecord) /\ fn_start_pc \in Nat /\ pc \in Nat
    /\ labels \in Seq(Entry) /\ symbols \in Seq(Definition) /\ symtab_entries \in Seq(SymRecord)
LinkerTypes ==
    /\ symtab \in Seq(Global) /\ image \in Image
    /\ Len(image.textOff) = Len(image.rodataOff)
    /\ (error = "none") = (stage # "failed")
Shape ==
    /\ units \in Programs
    /\ stage \in CompileStages \union LinkStages \union {"read", "failed"}
    /\ at \in Nat \ {0} /\ item \in Nat \ {0}
    /\ objects \in Seq(Object) /\ Len(objects) <= Len(units) + 1
    /\ stage \in CompileStages => Len(objects) < Len(units)
    /\ stage = "read" => Len(objects) = Len(units)
    /\ stage \in CompileStages \union {"read"} => symtab = << >> /\ image = Image0

(* The constants: each has its entry, under its name.                      *)
Strings(unit) == FixedData \o unit.strings
DataInv ==
    stage \in CompileStages =>
        /\ stage = "strings" => item <= Len(Strings(CurrentUnit)) + 1 /\ Len(rodata_map) = item - 1
        /\ stage = "floats" => /\ item <= Len(CurrentUnit.floats) + 1
                               /\ Len(rodata_map) = Len(Strings(CurrentUnit)) + item - 1
        /\ stage \in CodeStages \union SymbolStages => Len(rodata_map) = Len(Constants(CurrentUnit))
        /\ \A k \in DOMAIN rodata_map : rodata_map[k].name = Constants(CurrentUnit)[k][1]

(* The code: both passes are where the bytes of the instructions say.      *)
Within(k) == Sums(Lengths(CurrentList))[k]
LabelAtEntry(list, start, entry, k) ==
    /\ list[k].op = "label" /\ entry.name = list[k].dst.symbol
    /\ entry.offset = start + Sums(Lengths(list))[k - 1]
LabelsBefore(list, start, found, n) ==
    /\ \A j \in DOMAIN found : \E k \in 1 .. n - 1 : LabelAtEntry(list, start, found[j], k)
    /\ \A k \in 1 .. n - 1 : list[k].op = "label" => \E j \in DOMAIN found : LabelAtEntry(list, start, found[j], k)
PositionInv ==
    /\ stage \in {"strings", "floats"} =>
          at = 1 /\ text = << >> /\ fn_start_pc = 0 /\ pc = 0 /\ labels = << >>
    /\ stage \in CodeStages =>
          /\ at <= Len(CurrentUnit.functions) + 1 /\ fn_start_pc = FunctionStart(CurrentUnit, at)
          /\ at <= Len(CurrentUnit.functions) =>
                item <= Len(CurrentList) + 1 /\ pc = fn_start_pc + Within(item - 1)
    /\ stage = "measure" =>
          /\ Len(text) = fn_start_pc
          /\ at <= Len(CurrentUnit.functions) => LabelsBefore(CurrentList, fn_start_pc, labels, item)
          /\ at > Len(CurrentUnit.functions) => labels = << >>
    /\ stage = "encode" =>
          /\ at <= Len(CurrentUnit.functions) /\ Len(text) = pc
          /\ LabelsBefore(CurrentList, fn_start_pc, labels, Len(CurrentList) + 1)
          /\ \A k \in 1 .. item - 1 : CurrentList[k].op # "label" => fn_start_pc < Len(text)

(* The functions encoded so far are the first symbols, at their places.    *)
FunctionSymbol(f) ==
    [name |-> CurrentUnit.functions[f].name, value |-> FunctionStart(CurrentUnit, f), defined |-> TRUE]
SymbolInv ==
    /\ stage \in {"strings", "floats"} => symbols = << >>
    /\ stage \in CodeStages => Len(symbols) = at - 1
    /\ stage \in SymbolStages => Len(symbols) >= Len(CurrentUnit.functions)
    /\ stage \in CompileStages =>
          /\ \A f \in DOMAIN symbols : f <= Len(CurrentUnit.functions) =>
                symbols[f] = FunctionSymbol(f) /\ symbols[f].value < Len(text)
          /\ \A k \in DOMAIN symbols : k > Len(CurrentUnit.functions) =>
                ~ symbols[k].defined /\ symbols[k].name \in UsedBy(CurrentUnit)

(* The relocations name what the functions use, and all of it.             *)
SymbolAt(f, k) == CurrentUnit.functions[f].list[k].src.symbol
References(unit) ==
    UNION {{unit.functions[f].list[k].src.symbol : k \in Relocated(unit.functions[f].list)}
           : f \in DOMAIN unit.functions}
Passed(f, k) == f < at \/ (f = at /\ stage = "encode" /\ k < item)
RelocInv ==
    /\ stage \in {"strings", "floats"} => relocs = << >>
    /\ stage \in CompileStages => \A k \in DOMAIN relocs : relocs[k].offset < Len(text)
    /\ stage \in CodeStages =>
          /\ \A j \in DOMAIN relocs : relocs[j].symbol \in References(CurrentUnit)
          /\ \A f \in DOMAIN CurrentUnit.functions : \A k \in Relocated(CurrentUnit.functions[f].list) :
                Passed(f, k) => \E j \in DOMAIN relocs : relocs[j].symbol = SymbolAt(f, k)
    /\ stage = "resolve" =>
          /\ item <= Len(relocs) + 1
          /\ \A j \in item .. Len(relocs) : relocs[j].symbol \in References(CurrentUnit)
          /\ \A n \in UsedBy(CurrentUnit) :
                Named(symbols, n) \/ \E j \in item .. Len(relocs) : relocs[j].symbol = n
    /\ stage \in {"defined", "undefined"} => \A n \in UsedBy(CurrentUnit) : Named(symbols, n)

(* The symbol table follows the symbols, behind the three local ones.      *)
Written ==
    LET F == Len(CurrentUnit.functions)
    IN  CASE stage = "defined" -> IF item - 1 <= F THEN item - 1 ELSE F
          [] stage = "undefined" -> IF item - 1 <= F THEN F ELSE item - 1
          [] OTHER -> 0
SymtabInv ==
    stage \in CompileStages =>
        /\ stage \in {"defined", "undefined"} => item <= Len(symbols) + 1
        /\ Len(symtab_entries) = 3 + Written
        /\ \A k \in DOMAIN symtab_entries :
              symtab_entries[k] = IF k <= 3 THEN LocalSyms[k] ELSE GlobalSym(symbols[k - 3])

CompileInv == DataInv /\ PositionInv /\ SymbolInv /\ RelocInv /\ SymtabInv

(* An object file says what its unit defines and needs.                    *)
ObjectOf(o, unit) ==
    LET F == Len(unit.functions)
    IN  /\ Len(o.syms) >= 3 + F
        /\ \A k \in 1 .. 3 : o.syms[k] = LocalSyms[k]
        /\ \A f \in 1 .. F : /\ o.syms[3 + f] = Sym(unit.functions[f].name, "global", "func", "text",
                                                    FunctionStart(unit, f))
                             /\ FunctionStart(unit, f) < Len(o.text)
        /\ \A k \in 4 + F .. Len(o.syms) :
              /\ o.syms[k].bind = "global" /\ o.syms[k].section = "undef"
              /\ o.syms[k].name \in UsedBy(unit)
        /\ \A n \in UsedBy(unit) : \E k \in 4 .. Len(o.syms) : o.syms[k].name = n
        /\ ValidObject(o)
ObjectsInv ==
    /\ \A i \in DOMAIN objects : /\ i <= Len(units) => ObjectOf(objects[i], units[i])
                                 /\ i > Len(units) => objects[i] = StartupObject
    /\ stage \in LinkStages => Len(objects) = Len(units) + (IF WithStartup THEN 1 ELSE 0)

(* The table of the linker holds the symbols visited so far, and the one   *)
(* definition of each name.                                                *)
Visited(i, k) ==
    /\ i \in DOMAIN objects /\ k \in DOMAIN objects[i].syms /\ objects[i].syms[k].bind = "global"
    /\ stage = "collect" => i < at \/ (i = at /\ k < item)
DefinedAt(i, k) == Visited(i, k) /\ objects[i].syms[k].section # "undef"
IsEntryOf(j, i, k) ==
    /\ symtab[j].object = i /\ symtab[j].name = objects[i].syms[k].name
    /\ symtab[j].section = objects[i].syms[k].section /\ symtab[j].value = objects[i].syms[k].value
TableInv ==
    stage \in LinkStages =>
        /\ \A j, k \in DOMAIN symtab : symtab[j].name = symtab[k].name => j = k
        /\ \A j \in DOMAIN symtab : /\ symtab[j].defined = (symtab[j].section # "undef")
                                    /\ \E i, k : Visited(i, k) /\ IsEntryOf(j, i, k)
        /\ \A i, k : Visited(i, k) => Named(symtab, objects[i].syms[k].name)
        /\ \A i, k : DefinedAt(i, k) => \E j \in DOMAIN symtab : IsEntryOf(j, i, k)
        /\ \A i, k, m, n : DefinedAt(i, k) /\ DefinedAt(m, n) /\ objects[i].syms[k].name = objects[m].syms[n].name
                              => i = m /\ k = n
        /\ stage # "collect" => \A j \in DOMAIN symtab : symtab[j].defined

(* The parts of the objects lie inside the merged code.                    *)
Inside(i) == image.textOff[i] + Len(objects[i].text) <= Len(image.text)
EntryName == IF WithStartup \/ Definitions("_start") # {} THEN "_start" ELSE "main"
ImageInv ==
    /\ stage = "collect" => image = Image0
    /\ stage = "merge" => /\ at <= Len(objects) + 1 /\ Len(image.textOff) = at - 1
                          /\ \A i \in 1 .. at - 1 : Inside(i)
    /\ stage \in {"relocate", "linked"} =>
          /\ Len(image.textOff) = Len(objects) /\ \A i \in DOMAIN objects : Inside(i)
          /\ image.entry = FunctionAddress(EntryName)
          /\ image.entry \in TextVaddr .. TextVaddr + Len(image.text) - 1

(* What is decided depends on the program alone.                           *)
Linkable ==
    /\ \A n \in NamesUsed : DefinitionCount(n) = 1
    /\ \A n \in NamesDefined : DefinitionCount(n) = 1
VerdictInv ==
    /\ stage \in {"merge", "relocate", "linked"} => Linkable
    /\ error = "duplicate symbol" => \E n \in NamesDefined : DefinitionCount(n) > 1
    /\ error = "undefined symbol" => \E n \in NamesUsed : DefinitionCount(n) = 0
    /\ error = "no entry point" => Definitions("main") = {} /\ Definitions("_start") = {}
    /\ error # "invalid object"

LinkInv == TableInv /\ ImageInv /\ VerdictInv
Inv == Shape /\ CompilerTypes /\ LinkerTypes /\ CompileInv /\ ObjectsInv /\ LinkInv

(* Elements of sequences, and fields of records.                           *)
LEMMA SeqAt ==
  ASSUME NEW S, NEW s \in Seq(S)
  PROVE  IsList(s) /\ Len(s) \in Nat /\ DOMAIN s = 1 .. Len(s) /\ \A k \in DOMAIN s : s[k] \in S
  BY DEF IsList

LEMMA CatAt ==
  ASSUME NEW S, NEW s \in Seq(S), NEW t \in Seq(S)
  PROVE  /\ s \o t \in Seq(S) /\ Len(s \o t) = Len(s) + Len(t)
         /\ \A k \in 1 .. Len(s) : (s \o t)[k] = s[k]
         /\ \A k \in 1 .. Len(t) : (s \o t)[Len(s) + k] = t[k]
  OBVIOUS

LEMMA FieldFacts ==
  /\ \A e \in Entry : e.name \in Names /\ e.offset \in Nat
  /\ \A r \in RelocRecord : r.offset \in Nat /\ r.symbol \in Names /\ r.addend \in Int
                            /\ r.type \in {"PLT32", "PC32"}
  /\ \A d \in Definition : d.name \in Names /\ d.value \in Nat /\ d.defined \in BOOLEAN
  /\ \A s \in SymRecord : s.name \in Names /\ s.value \in Nat /\ s.section \in Sections
                          /\ s.bind \in {"local", "global"}
  /\ \A r \in Rela : r.offset \in Nat /\ r.sym \in Nat /\ r.addend \in Int
  /\ \A g \in Global : g.name \in Names /\ g.object \in Nat /\ g.section \in Sections
                       /\ g.value \in Nat /\ g.defined \in BOOLEAN /\ g.vaddr \in Int
  <1>1. \A e \in Entry : e.name \in Names /\ e.offset \in Nat
    BY DEF Entry
  <1>2. \A r \in RelocRecord : r.offset \in Nat /\ r.symbol \in Names /\ r.addend \in Int
                            /\ r.type \in {"PLT32", "PC32"}
    BY DEF RelocRecord
  <1>3. \A d \in Definition : d.name \in Names /\ d.value \in Nat /\ d.defined \in BOOLEAN
    BY DEF Definition
  <1>4. \A s \in SymRecord : s.name \in Names /\ s.value \in Nat /\ s.section \in Sections
                          /\ s.bind \in {"local", "global"}
    BY DEF SymRecord
  <1>5. \A r \in Rela : r.offset \in Nat /\ r.sym \in Nat /\ r.addend \in Int
    BY DEF Rela
  <1>6. \A g \in Global : g.name \in Names /\ g.object \in Nat /\ g.section \in Sections
                       /\ g.value \in Nat /\ g.defined \in BOOLEAN /\ g.vaddr \in Int
    BY DEF Global
  <1> QED
    BY <1>1, <1>2, <1>3, <1>4, <1>5, <1>6

-----------------------------------------------------------------------------
(* Units, constants and functions.                                         *)

LEMMA UnitFacts ==
  ASSUME units \in Programs
  PROVE  /\ IsList(units) /\ Len(units) \in Nat \ {0} /\ DOMAIN units = 1 .. Len(units)
         /\ \A i \in DOMAIN units : IsUnit(units[i])
  BY ProgramsAssumption DEF IsList

LEMMA CurrentFacts ==
  ASSUME Shape, stage \in CompileStages
  PROVE  /\ Len(objects) + 1 \in DOMAIN units /\ Len(objects) + 1 \in Nat
         /\ IsUnit(CurrentUnit)
  <1>1. units \in Programs /\ objects \in Seq(Object) /\ Len(objects) < Len(units)
    BY DEF Shape
  <1>2. Len(objects) \in Nat
    BY <1>1
  <1> QED
    BY <1>1, <1>2, UnitFacts DEF CurrentUnit

Constant == Names \X (Nat \ {0})

LEMMA ConstantFacts ==
  ASSUME NEW unit, IsUnit(unit)
  PROVE  /\ Strings(unit) \in Seq(Constant) /\ unit.floats \in Seq(Constant)
         /\ Constants(unit) \in Seq(Constant)
         /\ Len(Constants(unit)) = Len(Strings(unit)) + Len(unit.floats)
         /\ \A k \in 1 .. Len(Strings(unit)) : Constants(unit)[k] = Strings(unit)[k]
         /\ \A k \in 1 .. Len(unit.floats) :
               Constants(unit)[Len(Strings(unit)) + k] = unit.floats[k]
         /\ RodataNames(unit) = {Constants(unit)[k][1] : k \in 1 .. Len(Constants(unit))}
  <1>1. FixedData \in Seq(Constant)
    <2>1. \A n \in Names, k \in Nat \ {0} : <<n, k>> \in Constant
      BY DEF Constant
    <2>2. {"LC_neg_float_mask", "LC_fmt_int", "LC_fmt_float", "LC_fmt_str", "LC_str_true",
           "LC_str_false"} \subseteq Names /\ {16, 5, 4, 6} \subseteq Nat \ {0}
      BY DEF Names
    <2>3. /\ <<"LC_neg_float_mask", 16>> \in Constant /\ <<"LC_fmt_int", 5>> \in Constant
          /\ <<"LC_fmt_float", 4>> \in Constant /\ <<"LC_fmt_str", 4>> \in Constant
          /\ <<"LC_str_true", 5>> \in Constant /\ <<"LC_str_false", 6>> \in Constant
      BY <2>1, <2>2
    <2> QED
      BY <2>3 DEF FixedData
  <1>2. STRING \X (Nat \ {0}) \subseteq Constant
    BY DEF Constant, Names
  <1>3. unit.strings \in Seq(Constant) /\ unit.floats \in Seq(Constant)
    <2> DEFINE S == STRING \X (Nat \ {0})
    <2>1. unit.strings \in Seq(S) /\ unit.floats \in Seq(S)
      BY DEF IsUnit
    <2> HIDE DEF S
    <2> QED BY <1>2, <2>1 DEF S
  <1>4. Strings(unit) \in Seq(Constant)
    BY <1>1, <1>3 DEF Strings
  <1>5. Constants(unit) = Strings(unit) \o unit.floats
    BY DEF Constants, Strings
  <1> QED
    BY <1>3, <1>4, <1>5 DEF RodataNames

LEMMA ListFacts ==
  ASSUME NEW fn, IsFunction(fn)
  PROVE  /\ IsList(fn.list)
         /\ \A k \in 1 .. Len(fn.list) : Emitted(fn.list[k]) /\ Measured(fn.list[k]) \in Nat
         /\ Sums(Lengths(fn.list)) \in [0 .. Len(fn.list) -> Nat]
         /\ Sums(Lengths(fn.list))[0] = 0
         /\ \A k \in 1 .. Len(fn.list) :
               Sums(Lengths(fn.list))[k] = Sums(Lengths(fn.list))[k - 1] + Measured(fn.list[k])
  <1> DEFINE list == fn.list
             l == Lengths(list)
  <1>1. Len(list) \in Nat /\ DOMAIN list = 1 .. Len(list) /\ \A k \in DOMAIN list : Emitted(list[k])
    BY DEF IsFunction, IsList
  <1>2. \A k \in DOMAIN list : Len(Encoded(list[k], Field)) = Measured(list[k]) /\ Measured(list[k]) \in Nat
    BY <1>1, MeasuredExact, CodeField DEF Code
  <1> HIDE DEF list
  <1>3. IsList(l) /\ Len(l) = Len(list)
    BY <1>1 DEF IsList, Lengths
  <1>4. \A k \in 1 .. Len(list) : l[k] = Measured(list[k])
    BY <1>1, <1>2 DEF Lengths
  <1>5. \A k \in DOMAIN l : l[k] \in Nat
    BY <1>1, <1>2, <1>3, <1>4 DEF IsList
  <1>6. /\ Sums(l) \in [0 .. Len(l) -> Nat] /\ Sums(l)[0] = 0
        /\ \A k \in 1 .. Len(l) : Sums(l)[k] = Sums(l)[k - 1] + l[k]
    <2> HIDE DEF l
    <2> QED BY <1>3, <1>5, SumsExact
  <1> HIDE DEF l
  <1> QED
    BY <1>1, <1>2, <1>3, <1>4, <1>6 DEF IsList, l, list

LEMMA StartFacts ==
  ASSUME NEW unit, IsUnit(unit)
  PROVE  /\ IsList(unit.functions) /\ FunctionStart(unit, 1) = 0
         /\ \A f \in 1 .. Len(unit.functions) + 1 : FunctionStart(unit, f) \in Nat
         /\ \A f \in 1 .. Len(unit.functions) :
               /\ IsFunction(unit.functions[f])
               /\ FunctionStart(unit, f + 1) =
                     FunctionStart(unit, f)
                     + Sums(Lengths(unit.functions[f].list))[Len(unit.functions[f].list)]
  <1> DEFINE F == Len(unit.functions)
             size(f) == Sums(Lengths(unit.functions[f].list))[Len(unit.functions[f].list)]
             l == CodeLengths(unit)
  <1>1. F \in Nat /\ DOMAIN unit.functions = 1 .. F
    BY DEF IsUnit, IsList
  <1>2. \A f \in 1 .. F : IsFunction(unit.functions[f])
    BY <1>1 DEF IsUnit
  <1>3. \A f \in 1 .. F : size(f) \in Nat
    <2> TAKE f \in 1 .. F
    <2>1. IsFunction(unit.functions[f])
      BY <1>2
    <2>2. /\ Sums(Lengths(unit.functions[f].list)) \in [0 .. Len(unit.functions[f].list) -> Nat]
          /\ Len(unit.functions[f].list) \in Nat
      BY <2>1, ListFacts DEF IsList
    <2> QED
      BY <2>2
  <1>4. l = [f \in 1 .. F |-> size(f)]
    BY <1>1 DEF CodeLengths
  <1> HIDE DEF F, size, l
  <1>5. IsList(l) /\ Len(l) = F /\ \A k \in DOMAIN l : l[k] = size(k) /\ l[k] \in Nat
    BY <1>1, <1>3, <1>4 DEF IsList
  <1> DEFINE g == Sums(l)
  <1>6. /\ g \in [0 .. F -> Nat] /\ g[0] = 0
        /\ \A k \in 1 .. F : g[k] = g[k - 1] + size(k)
    BY <1>1, <1>5, SumsExact DEF IsList
  <1>7. \A f \in 1 .. F + 1 : FunctionStart(unit, f) = g[f - 1]
    BY DEF FunctionStart, l
  <1> HIDE DEF g
  <1>8. FunctionStart(unit, 1) = 0 /\ \A f \in 1 .. F + 1 : FunctionStart(unit, f) \in Nat
    BY <1>1, <1>6, <1>7
  <1>9. \A f \in 1 .. F : FunctionStart(unit, f + 1) = FunctionStart(unit, f) + size(f)
    <2> TAKE f \in 1 .. F
    <2>1. f + 1 \in 1 .. F + 1 /\ f \in 1 .. F + 1 /\ f + 1 - 1 = f
      BY <1>1
    <2> QED
      BY <1>6, <1>7, <2>1
  <1> QED
    BY <1>1, <1>2, <1>8, <1>9 DEF IsList, F, size

-----------------------------------------------------------------------------
(* Compiling: each step keeps the invariant.                               *)

(* What depends on the unit alone stays as it is.                          *)
LEMMA SameUnit ==
  ASSUME UNCHANGED <<units, objects>>
  PROVE  /\ CurrentUnit' = CurrentUnit
         /\ \A f : FunctionSymbol(f)' = FunctionSymbol(f)
         /\ \A f, k : SymbolAt(f, k)' = SymbolAt(f, k)
  BY DEF CurrentUnit, FunctionSymbol, SymbolAt

LEMMA SameList ==
  ASSUME UNCHANGED <<units, objects, at>>
  PROVE  CurrentList' = CurrentList /\ \A k : Within(k)' = Within(k)
  BY DEF CurrentUnit, CurrentList, Within

(* The steps of the compiler leave the linker alone.                       *)
LEMMA LinkerIdle ==
  ASSUME Inv, stage \in CompileStages, stage' \in CompileStages \union {"read"},
         UNCHANGED <<symtab, image, error>>
  PROVE  LinkerTypes' /\ LinkInv'
  <1>1. stage # "failed" /\ stage' # "failed" /\ stage' \notin LinkStages
    BY DEF CompileStages, CodeStages, SymbolStages, LinkStages
  <1>2. error = "none" /\ error' = "none"
    BY <1>1 DEF Inv, LinkerTypes
  <1>3. LinkerTypes'
    BY <1>1, <1>2 DEF Inv, LinkerTypes
  <1>4. TableInv'
    BY <1>1 DEF TableInv
  <1>5. ImageInv'
    BY <1>1 DEF ImageInv, LinkStages
  <1>6. VerdictInv'
    BY <1>1, <1>2 DEF VerdictInv, LinkStages
  <1> QED
    BY <1>3, <1>4, <1>5, <1>6 DEF LinkInv

LEMMA ObjectsIdle ==
  ASSUME Inv, stage' \in CompileStages, UNCHANGED <<units, objects>>
  PROVE  ObjectsInv'
  <1>1. stage' \notin LinkStages
    BY DEF CompileStages, CodeStages, SymbolStages, LinkStages
  <1> QED
    BY <1>1 DEF Inv, ObjectsInv

LEMMA ShapeKept ==
  ASSUME Inv, stage \in CompileStages, stage' \in CompileStages, at' \in Nat \ {0}, item' \in Nat \ {0},
         UNCHANGED <<units, objects, symtab, image>>
  PROVE  Shape'
  <1>1. stage' # "read"
    BY DEF CompileStages, CodeStages, SymbolStages
  <1> QED
    BY <1>1 DEF Inv, Shape

(* The cells of a constant.                                                *)
LEMMA CellFacts ==
  ASSUME NEW u \in Nat, NEW c \in Constant
  PROVE  CellsOf(u, c) \in Seq(Cell)
  <1>1. c[1] \in Names /\ c[2] \in Nat
    BY DEF Constant
  <1>2. \A k \in 1 .. c[2] : <<u, c[1], k>> \in Cell
    BY <1>1 DEF Cell
  <1> QED
    BY <1>1, <1>2 DEF CellsOf

(* Adding a constant keeps everything but the data.                        *)
LEMMA AddConstantKeeps ==
  ASSUME Inv, stage \in {"strings", "floats"}, NEW c \in Constant, AddConstant(c),
         c = Constants(CurrentUnit)[Len(rodata_map) + 1]
  PROVE  /\ Shape' /\ CompilerTypes' /\ LinkerTypes' /\ ObjectsInv' /\ LinkInv'
         /\ PositionInv' /\ SymbolInv' /\ RelocInv' /\ SymtabInv'
         /\ Len(rodata_map') = Len(rodata_map) + 1
         /\ \A k \in DOMAIN rodata_map' : rodata_map'[k].name = Constants(CurrentUnit)[k][1]
  <1>1. stage \in CompileStages /\ stage' = stage /\ stage' \in CompileStages
    BY DEF AddConstant, CompileStages
  <1>2. /\ UNCHANGED <<units, at, text, relocs, fn_start_pc, pc, labels, symbols, symtab_entries,
                       objects, symtab, image, error>>
        /\ item' = item + 1
    BY DEF AddConstant, NextItem, code, linker
  <1>3. Shape'
    BY <1>1, <1>2, ShapeKept DEF Inv, Shape
  <1>4. LinkerTypes' /\ LinkInv'
    BY <1>1, <1>2, LinkerIdle
  <1>5. ObjectsInv'
    BY <1>1, <1>2, ObjectsIdle
  <1>6. Len(objects) + 1 \in Nat /\ c[1] \in Names
    BY <1>1, CurrentFacts DEF Inv, Constant
  <1>7. rodata \in Seq(Cell) /\ rodata_map \in Seq(Entry)
    BY DEF Inv, CompilerTypes
  <1> DEFINE e == [name |-> c[1], offset |-> Len(rodata)]
  <1>8. e \in Entry /\ e.name = c[1]
    BY <1>6, <1>7 DEF Entry
  <1>9. rodata' \in Seq(Cell)
    <2>1. CellsOf(Len(objects) + 1, c) \in Seq(Cell)
      BY <1>6, CellFacts
    <2> QED
      BY <1>7, <2>1 DEF AddConstant
  <1>10. rodata_map' = Append(rodata_map, e)
    BY DEF AddConstant
  <1> HIDE DEF e
  <1>11. rodata_map' \in Seq(Entry) /\ Len(rodata_map') = Len(rodata_map) + 1
    BY <1>7, <1>8, <1>10
  <1>12. \A k \in DOMAIN rodata_map' : rodata_map'[k].name = Constants(CurrentUnit)[k][1]
    <2>1. \A k \in DOMAIN rodata_map : rodata_map[k].name = Constants(CurrentUnit)[k][1]
      BY <1>1 DEF Inv, CompileInv, DataInv
    <2> QED
      BY <1>7, <1>8, <1>10, <1>11, <2>1
  <1>13. CompilerTypes'
    BY <1>2, <1>9, <1>11 DEF Inv, CompilerTypes
  <1>14. stage' \notin CodeStages /\ stage' \notin SymbolStages /\ stage' \notin {"defined", "undefined", "measure", "encode", "resolve"}
    BY <1>1 DEF CodeStages, SymbolStages
  <1>15. PositionInv'
    BY <1>1, <1>2, <1>14 DEF Inv, CompileInv, PositionInv
  <1>16. SymbolInv'
    BY <1>1, <1>2, <1>14, SameUnit DEF Inv, CompileInv, SymbolInv
  <1>17. RelocInv'
    BY <1>1, <1>2, <1>14 DEF Inv, CompileInv, RelocInv
  <1>18. SymtabInv'
    BY <1>1, <1>2, <1>14 DEF Inv, CompileInv, SymtabInv, Written
  <1> QED
    BY <1>3, <1>4, <1>5, <1>11, <1>12, <1>13, <1>15, <1>16, <1>17, <1>18

LEMMA AddStringKeeps == Inv /\ AddString => Inv'
  <1> SUFFICES ASSUME Inv, AddString PROVE Inv'
    OBVIOUS
  <1> DEFINE unit == CurrentUnit
             c == Strings(unit)[item]
  <1>1. stage = "strings" /\ item <= Len(Strings(unit)) /\ AddConstant(c)
    BY DEF AddString, Strings
  <1>2. stage \in CompileStages /\ item \in Nat \ {0}
    BY <1>1 DEF CompileStages, Inv, Shape
  <1>3. IsUnit(unit)
    BY <1>2, CurrentFacts DEF Inv
  <1>4. Strings(unit) \in Seq(Constant) /\ Constants(unit)[item] = c
    BY <1>1, <1>2, <1>3, ConstantFacts
  <1>5. Len(rodata_map) = item - 1
    BY <1>1, <1>2 DEF Inv, CompileInv, DataInv
  <1>6. c \in Constant /\ item = Len(rodata_map) + 1
    BY <1>1, <1>2, <1>4, <1>5
  <1>7. item' = item + 1 /\ stage' = stage /\ CurrentUnit' = unit
    BY <1>1 DEF AddConstant, NextItem, CurrentUnit
  <1> HIDE DEF c, unit
  <1>8. /\ Shape' /\ CompilerTypes' /\ LinkerTypes' /\ ObjectsInv' /\ LinkInv'
        /\ PositionInv' /\ SymbolInv' /\ RelocInv' /\ SymtabInv'
        /\ Len(rodata_map') = Len(rodata_map) + 1
        /\ \A k \in DOMAIN rodata_map' : rodata_map'[k].name = Constants(unit)[k][1]
    BY <1>1, <1>4, <1>6, AddConstantKeeps DEF unit
  <1>9. Len(Strings(unit)) \in Nat
    BY <1>4
  <1>10. DataInv'
    BY <1>1, <1>2, <1>5, <1>7, <1>8, <1>9 DEF DataInv, CodeStages, SymbolStages
  <1> QED
    BY <1>8, <1>10 DEF Inv, CompileInv

LEMMA AddFloatKeeps == Inv /\ AddFloat => Inv'
  <1> SUFFICES ASSUME Inv, AddFloat PROVE Inv'
    OBVIOUS
  <1> DEFINE unit == CurrentUnit
             c == unit.floats[item]
             m == Len(Strings(unit))
  <1>1. stage = "floats" /\ item <= Len(unit.floats) /\ AddConstant(c)
    BY DEF AddFloat
  <1>2. stage \in CompileStages /\ item \in Nat \ {0}
    BY <1>1 DEF CompileStages, Inv, Shape
  <1>3. IsUnit(unit)
    BY <1>2, CurrentFacts DEF Inv
  <1>4. unit.floats \in Seq(Constant) /\ Constants(unit)[m + item] = c /\ m \in Nat
    BY <1>1, <1>2, <1>3, ConstantFacts
  <1>5. Len(rodata_map) = m + item - 1
    BY <1>1, <1>2 DEF Inv, CompileInv, DataInv
  <1>6. c \in Constant /\ m + item = Len(rodata_map) + 1 /\ Len(unit.floats) \in Nat
    BY <1>1, <1>2, <1>4, <1>5
  <1>7. item' = item + 1 /\ stage' = stage /\ CurrentUnit' = unit
    BY <1>1 DEF AddConstant, NextItem, CurrentUnit
  <1> HIDE DEF c, unit, m
  <1>8. /\ Shape' /\ CompilerTypes' /\ LinkerTypes' /\ ObjectsInv' /\ LinkInv'
        /\ PositionInv' /\ SymbolInv' /\ RelocInv' /\ SymtabInv'
        /\ Len(rodata_map') = Len(rodata_map) + 1
        /\ \A k \in DOMAIN rodata_map' : rodata_map'[k].name = Constants(unit)[k][1]
    BY <1>1, <1>4, <1>6, AddConstantKeeps DEF unit
  <1>9. Len(rodata_map') = m + item' - 1 /\ item' <= Len(unit.floats) + 1
    BY <1>1, <1>2, <1>4, <1>5, <1>6, <1>7, <1>8
  <1>10. DataInv'
    BY <1>1, <1>7, <1>8, <1>9 DEF DataInv, CodeStages, SymbolStages, m
  <1> QED
    BY <1>8, <1>10 DEF Inv, CompileInv

(* Padding up to a multiple of 8 or 16.                                    *)
LEMMA AlignFacts ==
  ASSUME NEW v \in Nat, NEW align \in {8, 16}
  PROVE  align_to(v, align) \in Nat /\ align_to(v, align) >= v
  BY DEF align_to

LEMMA PadFacts ==
  ASSUME NEW S, NEW cells \in Seq(S), NEW align \in {8, 16}, NEW cell \in S
  PROVE  Pad(cells, align, cell) \in Seq(S) /\ Len(Pad(cells, align, cell)) = align_to(Len(cells), align)
  <1> DEFINE n == align_to(Len(cells), align) - Len(cells)
             fill == [k \in 1 .. n |-> cell]
  <1>1. n \in Nat /\ Len(cells) \in Nat /\ align_to(Len(cells), align) \in Nat
    <2>1. Len(cells) \in Nat
      OBVIOUS
    <2>2. align_to(Len(cells), align) \in Nat /\ align_to(Len(cells), align) >= Len(cells)
      BY <2>1, AlignFacts
    <2> QED
      BY <2>1, <2>2
  <1>2. fill \in Seq(S) /\ Len(fill) = n
    <2> HIDE DEF n
    <2> QED BY <1>1
  <1>3. Pad(cells, align, cell) = cells \o fill
    BY DEF Pad
  <1>4. Len(cells) + n = align_to(Len(cells), align)
    BY <1>1
  <1> HIDE DEF fill, n
  <1> QED
    BY <1>2, <1>3, <1>4

LEMMA AlignFloatsKeeps == Inv /\ AlignFloats => Inv'
  <1> SUFFICES ASSUME Inv, AlignFloats PROVE Inv'
    OBVIOUS
  <1>1. /\ stage = "strings" /\ item > Len(Strings(CurrentUnit)) /\ stage' = "floats" /\ item' = 1
        /\ UNCHANGED <<units, at, rodata_map, text, relocs, fn_start_pc, pc, labels, symbols, symtab_entries,
                       objects, symtab, image, error>>
        /\ rodata' = Pad(rodata, 8, Padding(Len(objects) + 1))
    BY DEF AlignFloats, Stage, Strings, code, linker
  <1>2. stage \in CompileStages /\ stage' \in CompileStages /\ stage' \notin CodeStages /\ stage' \notin SymbolStages
    BY <1>1 DEF CompileStages, CodeStages, SymbolStages
  <1>3. Shape' /\ LinkerTypes' /\ LinkInv' /\ ObjectsInv'
    BY <1>1, <1>2, ShapeKept, LinkerIdle, ObjectsIdle DEF Inv, Shape
  <1>4. IsUnit(CurrentUnit) /\ Len(objects) + 1 \in Nat
    BY <1>2, CurrentFacts DEF Inv
  <1>5. rodata' \in Seq(Cell)
    <2>1. Padding(Len(objects) + 1) \in Cell
      BY <1>4 DEF Padding, Cell, Names
    <2>2. rodata \in Seq(Cell)
      BY DEF Inv, CompilerTypes
    <2> QED
      BY <1>1, <2>1, <2>2, PadFacts
  <1>6. CompilerTypes'
    BY <1>1, <1>5 DEF Inv, CompilerTypes
  <1>7. DataInv'
    <2>1. CurrentUnit' = CurrentUnit
      BY <1>1, SameUnit
    <2>2. Len(Strings(CurrentUnit)) \in Nat /\ Len(CurrentUnit.floats) \in Nat
      BY <1>4, ConstantFacts
    <2>3. Len(rodata_map) = item - 1 /\ item <= Len(Strings(CurrentUnit)) + 1 /\ item \in Nat
      BY <1>1, <1>2 DEF Inv, CompileInv, DataInv, Shape
    <2>4. \A k \in DOMAIN rodata_map : rodata_map[k].name = Constants(CurrentUnit)[k][1]
      BY <1>2 DEF Inv, CompileInv, DataInv
    <2>5. Len(rodata_map') = Len(Strings(CurrentUnit)) + item' - 1 /\ item' <= Len(CurrentUnit.floats) + 1
      BY <1>1, <2>2, <2>3
    <2> QED
      BY <1>1, <1>2, <2>1, <2>4, <2>5 DEF DataInv
  <1>8. PositionInv'
    BY <1>1, <1>2 DEF Inv, CompileInv, PositionInv, CodeStages
  <1>9. SymbolInv'
    BY <1>1, <1>2, SameUnit DEF Inv, CompileInv, SymbolInv
  <1>10. RelocInv'
    BY <1>1, <1>2 DEF Inv, CompileInv, RelocInv
  <1>11. SymtabInv'
    BY <1>1, <1>2 DEF Inv, CompileInv, SymtabInv, Written
  <1> QED
    BY <1>3, <1>6, <1>7, <1>8, <1>9, <1>10, <1>11 DEF Inv, CompileInv

(* What every step within a unit keeps.                                    *)
LEMMA CompileKeeps ==
  ASSUME Inv, stage \in CompileStages, stage' \in CompileStages, at' \in Nat \ {0}, item' \in Nat \ {0},
         UNCHANGED <<units, objects, symtab, image, error>>
  PROVE  Shape' /\ LinkerTypes' /\ LinkInv' /\ ObjectsInv' /\ CurrentUnit' = CurrentUnit
  BY ShapeKept, LinkerIdle, ObjectsIdle, SameUnit

LEMMA DataKept ==
  ASSUME Inv, UNCHANGED <<units, objects, rodata_map>>,
         stage \in CodeStages \union SymbolStages, stage' \in CodeStages \union SymbolStages
  PROVE  DataInv'
  <1>1. /\ stage \in CompileStages /\ stage' \notin {"strings", "floats"}
    BY DEF CompileStages, CodeStages, SymbolStages
  <1>2. CurrentUnit' = CurrentUnit
    BY SameUnit
  <1> QED
    BY <1>1, <1>2 DEF Inv, CompileInv, DataInv

(* The function and the instruction a pass is at.                          *)
LEMMA PassFacts ==
  ASSUME Inv, stage \in CodeStages, at <= Len(CurrentUnit.functions)
  PROVE  /\ IsFunction(CurrentUnit.functions[at]) /\ IsList(CurrentList)
         /\ at \in 1 .. Len(CurrentUnit.functions) /\ Len(CurrentUnit.functions) \in Nat
         /\ Len(CurrentList) \in Nat
         /\ DOMAIN CurrentList = 1 .. Len(CurrentList)
         /\ item \in 1 .. Len(CurrentList) + 1
         /\ Within(0) = 0 /\ \A k \in 0 .. Len(CurrentList) : Within(k) \in Nat
         /\ \A k \in 1 .. Len(CurrentList) :
               /\ Emitted(CurrentList[k]) /\ Measured(CurrentList[k]) \in Nat
               /\ Within(k) = Within(k - 1) + Measured(CurrentList[k])
         /\ FunctionStart(CurrentUnit, at + 1) = FunctionStart(CurrentUnit, at) + Within(Len(CurrentList))
         /\ \E k \in 1 .. Len(CurrentList) : CurrentList[k].op # "label"
  <1>1. stage \in CompileStages /\ at \in Nat \ {0} /\ item \in Nat \ {0}
    BY DEF CompileStages, Inv, Shape
  <1>2. IsUnit(CurrentUnit)
    BY <1>1, CurrentFacts DEF Inv
  <1>3. Len(CurrentUnit.functions) \in Nat
    BY <1>2 DEF IsUnit, IsList
  <1>4. at \in 1 .. Len(CurrentUnit.functions)
    BY <1>1, <1>3
  <1>5. IsFunction(CurrentUnit.functions[at])
    BY <1>2, <1>4, StartFacts
  <1>6. FunctionStart(CurrentUnit, at + 1) = FunctionStart(CurrentUnit, at) + Within(Len(CurrentList))
    BY <1>2, <1>4, StartFacts DEF Within, CurrentList
  <1> DEFINE fn == CurrentUnit.functions[at]
  <1>7. CurrentList = fn.list /\ \A k : Within(k) = Sums(Lengths(fn.list))[k]
    BY DEF CurrentList, Within
  <1>8. item <= Len(CurrentList) + 1
    BY DEF Inv, CompileInv, PositionInv
  <1> HIDE DEF fn
  <1>9. IsFunction(fn)
    BY <1>5 DEF fn
  <1>10. IsList(CurrentList) /\ Len(CurrentList) \in Nat /\ DOMAIN CurrentList = 1 .. Len(CurrentList)
    BY <1>7, <1>9, ListFacts DEF IsList
  <1>11. \E k \in 1 .. Len(CurrentList) : CurrentList[k].op # "label"
    BY <1>7, <1>9, <1>10 DEF IsFunction
  <1>12. /\ Within(0) = 0 /\ \A k \in 0 .. Len(CurrentList) : Within(k) \in Nat
         /\ \A k \in 1 .. Len(CurrentList) :
               /\ Emitted(CurrentList[k]) /\ Measured(CurrentList[k]) \in Nat
               /\ Within(k) = Within(k - 1) + Measured(CurrentList[k])
    BY <1>7, <1>9, ListFacts
  <1> QED
    BY <1>1, <1>3, <1>4, <1>5, <1>6, <1>8, <1>10, <1>11, <1>12

LEMMA FloatsAddedKeeps == Inv /\ FloatsAdded => Inv'
  <1> SUFFICES ASSUME Inv, FloatsAdded PROVE Inv'
    OBVIOUS
  <1> DEFINE unit == CurrentUnit
  <1>1. /\ stage = "floats" /\ item > Len(unit.floats) /\ stage' = "measure" /\ item' = 1
        /\ UNCHANGED <<units, at, rodata, rodata_map, text, relocs, fn_start_pc, pc, labels, symbols,
                       symtab_entries, objects, symtab, image, error>>
    BY DEF FloatsAdded, Stage, data, code, linker
  <1>2. /\ stage \in CompileStages /\ stage' \in CompileStages /\ stage' \in CodeStages
        /\ stage' \notin SymbolStages /\ stage' \notin {"strings", "floats"}
    BY <1>1 DEF CompileStages, CodeStages, SymbolStages
  <1>3. at = 1 /\ text = << >> /\ fn_start_pc = 0 /\ pc = 0 /\ labels = << >> /\ relocs = << >> /\ symbols = << >>
    BY <1>1 DEF Inv, CompileInv, PositionInv, RelocInv, SymbolInv
  <1>4. Shape' /\ LinkerTypes' /\ LinkInv' /\ ObjectsInv' /\ CurrentUnit' = unit
    BY <1>1, <1>2, CompileKeeps DEF Inv, Shape
  <1>5. CompilerTypes'
    BY <1>1 DEF Inv, CompilerTypes
  <1>6. IsUnit(unit) /\ item \in Nat
    BY <1>2, CurrentFacts DEF Inv, Shape
  <1>7. DataInv'
    <2>1. Len(rodata_map) = Len(Strings(unit)) + item - 1 /\ item <= Len(unit.floats) + 1
      BY <1>1, <1>2 DEF Inv, CompileInv, DataInv
    <2>2. /\ Len(Strings(unit)) \in Nat /\ Len(unit.floats) \in Nat
          /\ Len(Constants(unit)) = Len(Strings(unit)) + Len(unit.floats)
      BY <1>6, ConstantFacts
    <2>3. Len(rodata_map) = Len(Constants(unit))
      BY <1>1, <1>6, <2>1, <2>2
    <2>4. \A k \in DOMAIN rodata_map : rodata_map[k].name = Constants(unit)[k][1]
      BY <1>2 DEF Inv, CompileInv, DataInv
    <2> HIDE DEF unit
    <2> QED
      BY <1>1, <1>2, <1>4, <2>3, <2>4 DEF DataInv
  <1>8. PositionInv'
    <2> DEFINE list == unit.functions[1].list
    <2>1. IsList(unit.functions) /\ FunctionStart(unit, 1) = 0
      BY <1>6, StartFacts
    <2>2. 1 <= Len(unit.functions) => IsFunction(unit.functions[1])
      BY <1>6, StartFacts DEF IsList
    <2>3. 1 <= Len(unit.functions) => Len(list) \in Nat /\ Sums(Lengths(list))[0] = 0
      BY <2>2, ListFacts DEF IsList
    <2>4. CurrentList' = list /\ Within(item - 1)' = Sums(Lengths(list))[0]
      BY <1>1, <1>3, <1>4 DEF CurrentList, Within
    <2>5. LabelsBefore(CurrentList, fn_start_pc, labels, item)'
      BY <1>1, <1>3 DEF LabelsBefore
    <2> HIDE DEF list, unit
    <2> QED
      BY <1>1, <1>2, <1>3, <1>4, <2>1, <2>3, <2>4, <2>5 DEF PositionInv, IsList
  <1>9. SymbolInv'
    BY <1>1, <1>2, <1>3 DEF SymbolInv
  <1>10. RelocInv'
    <2>1. \A f \in DOMAIN CurrentUnit'.functions : \A k : ~ Passed(f, k)'
      <3>1. IsList(unit.functions)
        BY <1>6, StartFacts
      <3> QED
        BY <1>1, <1>3, <1>4, <3>1 DEF Passed, IsList
    <2> QED
      BY <1>1, <1>2, <1>3, <2>1 DEF RelocInv
  <1>11. SymtabInv'
    BY <1>1, <1>2 DEF Inv, CompileInv, SymtabInv, Written
  <1> QED
    BY <1>4, <1>5, <1>7, <1>8, <1>9, <1>10, <1>11 DEF Inv, CompileInv

(* Pass 1 adds the label it is at.                                         *)
LEMMA LabelsGrow ==
  ASSUME NEW list, NEW start, NEW found \in Seq(Entry), NEW n \in Nat \ {0}, NEW e \in Entry,
         LabelsBefore(list, start, found, n),
         list[n].op = "label" => LabelAtEntry(list, start, e, n)
  PROVE  LabelsBefore(list, start, IF list[n].op = "label" THEN Append(found, e) ELSE found, n + 1)
  <1>1. 1 .. n + 1 - 1 = (1 .. n - 1) \union {n}
    OBVIOUS
  <1>2. CASE list[n].op # "label"
    BY <1>1, <1>2 DEF LabelsBefore
  <1>3. CASE list[n].op = "label"
    <2> DEFINE m == Len(found) + 1
               new == Append(found, e)
    <2>1. /\ m \in DOMAIN new /\ new[m] = e /\ DOMAIN new = DOMAIN found \union {m}
          /\ \A j \in DOMAIN found : new[j] = found[j]
      OBVIOUS
    <2>2. LabelAtEntry(list, start, new[m], n)
      BY <1>3, <2>1
    <2> HIDE DEF m, new
    <2>3. \A j \in DOMAIN new : \E k \in 1 .. n + 1 - 1 : LabelAtEntry(list, start, new[j], k)
      BY <1>1, <2>1, <2>2 DEF LabelsBefore
    <2>4. \A k \in 1 .. n + 1 - 1 : list[k].op = "label" => \E j \in DOMAIN new : LabelAtEntry(list, start, new[j], k)
      BY <1>1, <2>1, <2>2 DEF LabelsBefore
    <2>5. LabelsBefore(list, start, new, n + 1)
      BY <2>3, <2>4 DEF LabelsBefore
    <2> QED
      BY <1>3, <2>5 DEF new
  <1> QED
    BY <1>2, <1>3

LEMMA MeasureInstructionKeeps == Inv /\ MeasureInstruction => Inv'
  <1> SUFFICES ASSUME Inv, MeasureInstruction PROVE Inv'
    OBVIOUS
  <1> DEFINE x == CurrentList[item]
             e == [name |-> x.dst.symbol, offset |-> pc]
  <1>1. /\ stage = "measure" /\ stage' = stage /\ item' = item + 1
        /\ at <= Len(CurrentUnit.functions) /\ item <= Len(CurrentList)
        /\ UNCHANGED <<units, at, rodata, rodata_map, text, relocs, fn_start_pc, symbols,
                       symtab_entries, objects, symtab, image, error>>
        /\ labels' = IF x.op = "label" THEN Append(labels, e) ELSE labels
        /\ pc' = pc + Measured(x)
    BY DEF MeasureInstruction, NextItem, data, linker
  <1>2. /\ stage \in CompileStages /\ stage' \in CompileStages /\ stage \in CodeStages
        /\ stage' \notin SymbolStages /\ stage' \notin {"strings", "floats"}
    BY <1>1 DEF CompileStages, CodeStages, SymbolStages
  <1>3. Shape' /\ LinkerTypes' /\ LinkInv' /\ ObjectsInv' /\ CurrentUnit' = CurrentUnit
    BY <1>1, <1>2, CompileKeeps DEF Inv, Shape
  <1>4. DataInv'
    BY <1>1, <1>2, DataKept
  <1>5. item \in 1 .. Len(CurrentList) /\ Len(CurrentList) \in Nat
    BY <1>1, <1>2, PassFacts
  <1>6. /\ Emitted(x) /\ Measured(x) \in Nat /\ Within(item) = Within(item - 1) + Measured(x)
        /\ Within(item - 1) \in Nat /\ Within(item) \in Nat
    <2>1. item - 1 \in 0 .. Len(CurrentList) /\ item \in 0 .. Len(CurrentList)
      BY <1>5
    <2> QED
      BY <1>1, <1>2, <1>5, <2>1, PassFacts
  <1>7. /\ pc = fn_start_pc + Within(item - 1) /\ pc \in Nat /\ fn_start_pc \in Nat
        /\ LabelsBefore(CurrentList, fn_start_pc, labels, item)
    BY <1>1, <1>2 DEF Inv, CompileInv, PositionInv, CompilerTypes
  <1>8. x.op = "label" => e \in Entry
    <2>1. x.op = "label" => x.dst.symbol \in STRING
      BY <1>6, OpcodeNames DEF Emitted, IsSymbol
    <2>2. x.op = "label" => x.dst.symbol \in Names
      BY <2>1 DEF Names
    <2> QED
      BY <1>7, <2>2 DEF Entry
  <1>9. labels \in Seq(Entry)
    BY DEF Inv, CompilerTypes
  <1>10. labels' \in Seq(Entry) /\ pc' \in Nat
    <2> HIDE DEF e, x
    <2> QED BY <1>1, <1>6, <1>7, <1>8, <1>9
  <1>11. CompilerTypes'
    BY <1>1, <1>10 DEF Inv, CompilerTypes
  <1>12. CurrentList' = CurrentList /\ \A k : Within(k)' = Within(k)
    BY <1>1, SameList
  <1>13. pc' = fn_start_pc + Within(item)
    <2> HIDE DEF x
    <2> QED BY <1>1, <1>6, <1>7
  <1>14. LabelsBefore(CurrentList, fn_start_pc, labels', item + 1)
    <2>1. CASE x.op = "label"
      <3>1. LabelAtEntry(CurrentList, fn_start_pc, e, item)
        BY <1>7, <2>1 DEF LabelAtEntry, Within
      <3>2. e \in Entry /\ labels' = Append(labels, e)
        BY <1>1, <1>8, <2>1
      <3> HIDE DEF e
      <3>3. LabelsBefore(CurrentList, fn_start_pc, IF CurrentList[item].op = "label" THEN Append(labels, e)
                         ELSE labels, item + 1)
        BY <1>5, <1>7, <1>9, <3>1, <3>2, LabelsGrow
      <3> QED
        BY <2>1, <3>2, <3>3
    <2>2. CASE x.op # "label"
      <3>1. 1 .. item + 1 - 1 = (1 .. item - 1) \union {item} /\ labels' = labels
        BY <1>1, <1>5, <2>2
      <3> QED
        BY <1>7, <2>2, <3>1 DEF LabelsBefore
    <2> QED
      BY <2>1, <2>2
  <1>15. PositionInv'
    <2>1. at <= Len(CurrentUnit.functions) + 1 /\ fn_start_pc = FunctionStart(CurrentUnit, at) /\ Len(text) = fn_start_pc
      BY <1>1, <1>2 DEF Inv, CompileInv, PositionInv
    <2>2. item + 1 <= Len(CurrentList) + 1 /\ item + 1 - 1 = item
      BY <1>5
    <2>3. LabelsBefore(CurrentList, fn_start_pc, labels, item)'
      BY <1>1, <1>12, <1>14
    <2>4. pc' = fn_start_pc' + Within(item - 1)'
      <3>1. item' = item + 1 /\ item \in Nat
        BY <1>1, <1>5
      <3>2. CurrentList' = CurrentList /\ item' - 1 = item /\ fn_start_pc' = fn_start_pc
        BY <1>1, <1>12, <3>1
      <3> QED
        BY <1>13, <3>2 DEF Within
    <2>5. item' <= Len(CurrentList') + 1
      BY <1>1, <1>12, <2>2
    <2>6. at' <= Len(CurrentUnit'.functions) /\ fn_start_pc' = FunctionStart(CurrentUnit, at)'
      BY <1>1, <1>3, <2>1
    <2>7. at' \in Nat /\ Len(CurrentUnit'.functions) \in Nat /\ stage' = "measure" /\ Len(text') = fn_start_pc'
      <3>1. at \in 1 .. Len(CurrentUnit.functions) /\ Len(CurrentUnit.functions) \in Nat
        BY <1>1, <1>2, PassFacts
      <3>2. stage' = "measure" /\ at' = at /\ text' = text /\ fn_start_pc' = fn_start_pc
        BY <1>1
      <3> QED
        BY <1>3, <2>1, <3>1, <3>2
    <2> HIDE DEF x, e
    <2> QED
      BY <2>3, <2>4, <2>5, <2>6, <2>7 DEF PositionInv
  <1>16. SymbolInv'
    BY <1>1, <1>2, <1>3, SameUnit DEF Inv, CompileInv, SymbolInv
  <1>17. RelocInv'
    <2>1. \A f, k : Passed(f, k)' <=> Passed(f, k)
      BY <1>1 DEF Passed
    <2> QED
      BY <1>1, <1>2, <1>3, <2>1, SameUnit DEF Inv, CompileInv, RelocInv
  <1>18. SymtabInv'
    BY <1>1, <1>2, <1>3 DEF Inv, CompileInv, SymtabInv, Written
  <1> QED
    BY <1>3, <1>4, <1>11, <1>15, <1>16, <1>17, <1>18 DEF Inv, CompileInv

LEMMA FunctionMeasuredKeeps == Inv /\ FunctionMeasured => Inv'
  <1> SUFFICES ASSUME Inv, FunctionMeasured PROVE Inv'
    OBVIOUS
  <1> DEFINE F == Len(CurrentUnit.functions)
  <1>1. /\ stage = "measure" /\ stage' = "encode" /\ item' = 1 /\ pc' = Len(text)
        /\ at <= F /\ item > Len(CurrentList)
        /\ UNCHANGED <<units, at, rodata, rodata_map, text, relocs, fn_start_pc, labels, symbols,
                       symtab_entries, objects, symtab, image, error>>
    BY DEF FunctionMeasured, Stage, data, linker
  <1>2. /\ stage \in CompileStages /\ stage' \in CompileStages /\ stage \in CodeStages /\ stage' \in CodeStages
        /\ stage' \notin SymbolStages /\ stage' \notin {"strings", "floats"}
    BY <1>1 DEF CompileStages, CodeStages, SymbolStages
  <1>3. Shape' /\ LinkerTypes' /\ LinkInv' /\ ObjectsInv' /\ CurrentUnit' = CurrentUnit
    BY <1>1, <1>2, CompileKeeps DEF Inv, Shape
  <1>4. DataInv'
    BY <1>1, <1>2, DataKept
  <1>5. /\ item \in 1 .. Len(CurrentList) + 1 /\ Len(CurrentList) \in Nat /\ Within(0) = 0
        /\ at \in 1 .. F /\ F \in Nat /\ DOMAIN CurrentList = 1 .. Len(CurrentList)
    BY <1>1, <1>2, PassFacts
  <1>6. item = Len(CurrentList) + 1
    BY <1>1, <1>5
  <1>7. /\ fn_start_pc = FunctionStart(CurrentUnit, at) /\ Len(text) = fn_start_pc /\ fn_start_pc \in Nat
        /\ LabelsBefore(CurrentList, fn_start_pc, labels, Len(CurrentList) + 1)
    BY <1>1, <1>2, <1>6 DEF Inv, CompileInv, PositionInv, CompilerTypes
  <1>8. CompilerTypes'
    BY <1>1, <1>7 DEF Inv, CompilerTypes
  <1>9. CurrentList' = CurrentList
    BY <1>1, SameList
  <1>10. PositionInv'
    <2>1. pc' = fn_start_pc' + Within(item - 1)'
      <3>1. Within(item - 1)' = Within(0)
        BY <1>1, <1>9 DEF Within
      <3> QED
        BY <1>1, <1>5, <1>7, <3>1
    <2>2. LabelsBefore(CurrentList, fn_start_pc, labels, Len(CurrentList) + 1)'
      BY <1>1, <1>7, <1>9
    <2>3. item' <= Len(CurrentList') + 1 /\ at' <= Len(CurrentUnit'.functions) /\ at' \in Nat
          /\ Len(CurrentUnit'.functions) \in Nat /\ stage' = "encode" /\ Len(text') = pc' /\ item' = 1
      BY <1>1, <1>3, <1>5, <1>9
    <2>4. fn_start_pc' = FunctionStart(CurrentUnit, at)'
      BY <1>1, <1>3, <1>7
    <2>5. 1 .. item' - 1 = {}
      BY <2>3
    <2> HIDE DEF F
    <2> QED
      BY <2>1, <2>2, <2>3, <2>4, <2>5 DEF PositionInv
  <1>11. SymbolInv'
    BY <1>1, <1>2, <1>3, SameUnit DEF Inv, CompileInv, SymbolInv
  <1>12. RelocInv'
    <2>1. \A f, k : k \in Relocated(CurrentUnit.functions[f].list) /\ Passed(f, k)' => Passed(f, k)
      <3> SUFFICES ASSUME NEW f, NEW k, k \in Relocated(CurrentUnit.functions[f].list), Passed(f, k)', f = at
                   PROVE  Passed(f, k)
        BY <1>1 DEF Passed
      <3>1. k \in 1 .. Len(CurrentList)
        BY <1>5 DEF Relocated, CurrentList
      <3>2. ~ (k < item')
        BY <1>1, <1>5, <3>1
      <3> QED
        BY <1>1, <3>2 DEF Passed
    <2> QED
      BY <1>1, <1>2, <1>3, <2>1, SameUnit DEF Inv, CompileInv, RelocInv
  <1>13. SymtabInv'
    BY <1>1, <1>2, <1>3 DEF Inv, CompileInv, SymtabInv, Written
  <1> QED
    BY <1>3, <1>4, <1>8, <1>10, <1>11, <1>12, <1>13 DEF Inv, CompileInv

(* The field of a branch is four bytes.                                    *)
LEMMA CodeBranch ==
  ASSUME NEW x, NEW found \in Seq(Entry), NEW p \in Nat, Measured(x) \in Nat
  PROVE  Code(BranchField(x, found, p), 4)
  <1> DEFINE l == x.src.symbol
             d == Displacement(found, l, p + Measured(x))
  <1>1. d \in Int
    <2>1. CASE Named(found, l)
      <3>1. IsList(found)
        BY DEF IsList
      <3>2. Find(found, l) \in DOMAIN found
        BY <2>1, <3>1, FindFirst
      <3>3. found[Find(found, l)].offset \in Nat
        BY <3>2, SeqAt, FieldFacts
      <3> QED
        BY <2>1, <3>3 DEF Displacement
    <2>2. CASE ~ Named(found, l)
      BY <2>2 DEF Displacement
    <2> QED
      BY <2>1, <2>2
  <1>2. Code(Bytes4(d), 4)
    <2> HIDE DEF d
    <2> QED BY <1>1, CodeBytes4
  <1> QED
    BY <1>2, CodeField DEF BranchField

LEMMA EncodeInstructionKeeps == Inv /\ EncodeInstruction => Inv'
  <1> SUFFICES ASSUME Inv, EncodeInstruction PROVE Inv'
    OBVIOUS
  <1> DEFINE F == Len(CurrentUnit.functions)
             x == CurrentList[item]
             written == Encoded(x, BranchField(x, labels, pc))
             rel == RelocOf(x, pc)
  <1>1. /\ stage = "encode" /\ stage' = stage /\ item' = item + 1 /\ item <= Len(CurrentList)
        /\ UNCHANGED <<units, at, rodata, rodata_map, fn_start_pc, labels, symbols,
                       symtab_entries, objects, symtab, image, error>>
        /\ text' = text \o written /\ relocs' = relocs \o rel /\ pc' = pc + Len(written)
    BY DEF EncodeInstruction, NextItem, data, linker
  <1>2. /\ stage \in CompileStages /\ stage' \in CompileStages /\ stage \in CodeStages
        /\ stage' \notin SymbolStages /\ stage' \notin {"strings", "floats"}
    BY <1>1 DEF CompileStages, CodeStages, SymbolStages
  <1>3. Shape' /\ LinkerTypes' /\ LinkInv' /\ ObjectsInv' /\ CurrentUnit' = CurrentUnit
    BY <1>1, <1>2, CompileKeeps DEF Inv, Shape
  <1>4. DataInv'
    BY <1>1, <1>2, DataKept
  <1>5. /\ at <= F /\ Len(text) = pc /\ fn_start_pc = FunctionStart(CurrentUnit, at)
        /\ LabelsBefore(CurrentList, fn_start_pc, labels, Len(CurrentList) + 1)
        /\ \A k \in 1 .. item - 1 : CurrentList[k].op # "label" => fn_start_pc < Len(text)
    BY <1>1, <1>2 DEF Inv, CompileInv, PositionInv
  <1>6. /\ item \in 1 .. Len(CurrentList) /\ Len(CurrentList) \in Nat /\ at \in 1 .. F /\ F \in Nat
        /\ DOMAIN CurrentList = 1 .. Len(CurrentList)
    BY <1>1, <1>2, <1>5, PassFacts
  <1>7. /\ Emitted(x) /\ Measured(x) \in Nat /\ Within(item) = Within(item - 1) + Measured(x)
        /\ Within(item - 1) \in Nat /\ Within(item) \in Nat
    <2>1. item - 1 \in 0 .. Len(CurrentList) /\ item \in 0 .. Len(CurrentList)
      BY <1>6
    <2> QED
      BY <1>1, <1>2, <1>5, <1>6, <2>1, PassFacts
  <1>8. /\ text \in Seq(Byte) /\ relocs \in Seq(RelocRecord) /\ pc \in Nat /\ fn_start_pc \in Nat
        /\ labels \in Seq(Entry)
    BY DEF Inv, CompilerTypes
  <1>9. pc = fn_start_pc + Within(item - 1)
    BY <1>2, <1>5 DEF Inv, CompileInv, PositionInv
  <1>10. Code(written, Measured(x)) /\ (x.op = "label" \/ Measured(x) > 0)
    <2>1. Code(BranchField(x, labels, pc), 4)
      <3> HIDE DEF x
      <3> QED BY <1>7, <1>8, CodeBranch
    <2> HIDE DEF x
    <2> QED
      BY <1>7, <2>1, MeasuredExact
  <1>11. /\ ~ IsRelocated(x) => rel = << >>
         /\ IsRelocated(x) => \E r \in RelocRecord :
                /\ rel = <<r>> /\ r.symbol = x.src.symbol /\ r.offset + 4 = pc + Measured(x)
    <2> HIDE DEF x
    <2> QED BY <1>7, <1>8, RelocExact
  <1> DEFINE m == Measured(x)
             mark == x.src.symbol
             nolabel == x.op # "label"
             relocated == IsRelocated(x)
  <1>12. x = CurrentList[item] /\ x = CurrentUnit.functions[at].list[item]
    BY DEF CurrentList
  <1> HIDE DEF F, x, written, rel, m, mark, nolabel, relocated
  <1>13. /\ written \in Seq(Byte) /\ Len(written) = m /\ m \in Nat /\ (nolabel => m > 0)
    BY <1>7, <1>10 DEF Code, m, nolabel
  <1>14. /\ text' \in Seq(Byte) /\ Len(text') = Len(text) + m /\ pc' = pc + m
         /\ pc' \in Nat /\ pc' = fn_start_pc + Within(item) /\ Len(text') = pc'
         /\ fn_start_pc <= Len(text)
    <2>1. Within(item) = Within(item - 1) + m
      BY <1>7 DEF m
    <2>2. text' \in Seq(Byte) /\ Len(text') = Len(text) + m
      <3>1. Code(text, Len(text)) /\ Code(written, m) /\ text' = text \o written
        BY <1>1, <1>8, <1>13 DEF Code
      <3>2. Code(text \o written, Len(text) + m)
        BY <3>1, CodeCat
      <3> QED
        BY <3>1, <3>2 DEF Code
    <2>3. pc' = pc + m
      BY <1>1, <1>13
    <2> DEFINE a == Within(item - 1)
               b == Within(item)
    <2>4. a \in Nat /\ b = a + m /\ pc = fn_start_pc + a /\ Len(text) = pc
      BY <1>5, <1>7, <1>9, <2>1
    <2> HIDE DEF a, b
    <2>5. pc' \in Nat /\ pc' = fn_start_pc + b /\ Len(text') = pc' /\ fn_start_pc <= Len(text)
      BY <1>8, <1>13, <2>2, <2>3, <2>4
    <2> QED
      BY <2>2, <2>3, <2>5 DEF b
  <1>15. /\ rel \in Seq(RelocRecord)
         /\ \A j \in DOMAIN rel : rel[j].offset < Len(text') /\ rel[j].symbol = mark
         /\ relocated => 1 \in DOMAIN rel
         /\ ~ relocated => DOMAIN rel = {}
    <2>1. CASE ~ relocated
      BY <1>11, <2>1 DEF relocated
    <2>2. CASE relocated
      <3>1. PICK r \in RelocRecord : rel = <<r>> /\ r.symbol = mark /\ r.offset + 4 = pc + m
        BY <1>11, <2>2 DEF relocated, mark, m
      <3>2. r.offset \in Nat
        BY DEF RelocRecord
      <3>3. r.offset < Len(text')
        BY <1>5, <1>8, <1>13, <1>14, <3>1, <3>2
      <3> QED
        BY <2>2, <3>1, <3>3
    <2> QED
      BY <2>1, <2>2
  <1>16. /\ relocs' \in Seq(RelocRecord)
         /\ \A j \in DOMAIN relocs' : (j \in DOMAIN relocs /\ relocs'[j] = relocs[j])
                                      \/ \E i \in DOMAIN rel : relocs'[j] = rel[i]
         /\ \A j \in DOMAIN relocs : j \in DOMAIN relocs' /\ relocs'[j] = relocs[j]
         /\ relocated => \E j \in DOMAIN relocs' : relocs'[j] = rel[1]
    <2>1. relocs' = relocs \o rel
      BY <1>1
    <2>2. relocs' \in Seq(RelocRecord) /\ Len(relocs') = Len(relocs) + Len(rel)
      BY <1>8, <1>15, <2>1
    <2>3. /\ \A j \in 1 .. Len(relocs) : relocs'[j] = relocs[j]
          /\ \A j \in 1 .. Len(rel) : relocs'[Len(relocs) + j] = rel[j]
      BY <1>8, <1>15, <2>1
    <2>4. Len(relocs) \in Nat /\ Len(rel) \in Nat /\ DOMAIN relocs = 1 .. Len(relocs) /\ DOMAIN rel = 1 .. Len(rel)
          /\ DOMAIN relocs' = 1 .. Len(relocs')
      BY <1>8, <1>15, <2>2
    <2>5. \A j \in DOMAIN relocs' : j \in DOMAIN relocs \/ (j - Len(relocs) \in DOMAIN rel /\ Len(relocs) + (j - Len(relocs)) = j)
      BY <2>2, <2>4
    <2>6. \A j \in DOMAIN relocs' : (j \in DOMAIN relocs /\ relocs'[j] = relocs[j])
                                      \/ \E i \in DOMAIN rel : relocs'[j] = rel[i]
      BY <2>3, <2>4, <2>5
    <2>7. \A j \in DOMAIN relocs : j \in DOMAIN relocs' /\ relocs'[j] = relocs[j]
      BY <2>2, <2>3, <2>4
    <2>8. relocated => Len(relocs) + 1 \in DOMAIN relocs' /\ relocs'[Len(relocs) + 1] = rel[1]
      BY <1>15, <2>2, <2>3, <2>4
    <2> QED
      BY <2>2, <2>6, <2>7, <2>8
  <1>17. CompilerTypes'
    BY <1>1, <1>14, <1>16 DEF Inv, CompilerTypes
  <1>18. CurrentList' = CurrentList
    BY <1>1, SameList
  <1>19. PositionInv'
    <2>1. item' = item + 1 /\ item' - 1 = item /\ item' <= Len(CurrentList') + 1
      BY <1>1, <1>6, <1>18
    <2>2. pc' = fn_start_pc' + Within(item - 1)'
      BY <1>1, <1>14, <1>18, <2>1 DEF Within
    <2>3. LabelsBefore(CurrentList, fn_start_pc, labels, Len(CurrentList) + 1)'
      BY <1>1, <1>5, <1>18
    <2>4. /\ at' <= Len(CurrentUnit'.functions) /\ at' \in Nat /\ Len(CurrentUnit'.functions) \in Nat
          /\ stage' = "encode" /\ Len(text') = pc' /\ fn_start_pc' = FunctionStart(CurrentUnit, at)'
      BY <1>1, <1>3, <1>5, <1>6, <1>14 DEF F
    <2>5. \A k \in 1 .. item : CurrentList[k].op # "label" => fn_start_pc < Len(text')
      <3> SUFFICES ASSUME NEW k \in 1 .. item, CurrentList[k].op # "label" PROVE fn_start_pc < Len(text')
        OBVIOUS
      <3>1. Len(text) \in Nat /\ m \in Nat /\ Len(text') = Len(text) + m /\ fn_start_pc <= Len(text)
        BY <1>8, <1>13, <1>14
      <3>2. CASE k = item
        <4>1. m > 0
          BY <1>12, <1>13, <3>2 DEF nolabel
        <4> QED
          BY <1>8, <3>1, <4>1
      <3>3. CASE k # item
        <4>1. k \in 1 .. item - 1
          BY <1>6, <3>3
        <4>2. fn_start_pc < Len(text)
          BY <1>5, <4>1
        <4> QED
          BY <1>8, <3>1, <4>2
      <3> QED
        BY <3>2, <3>3
    <2>6. \A k \in 1 .. item' - 1 : CurrentList'[k].op # "label" => fn_start_pc' < Len(text')
      BY <1>1, <1>18, <2>1, <2>5
    <2> QED
      BY <2>1, <2>2, <2>3, <2>4, <2>6 DEF PositionInv
  <1>20. SymbolInv'
    <2>1. \A v : v \in Nat /\ v < Len(text) => v < Len(text')
      BY <1>8, <1>13, <1>14
    <2>2. \A f \in DOMAIN symbols : symbols[f].value \in Nat
      BY SeqAt, FieldFacts DEF Inv, CompilerTypes
    <2> QED
      BY <1>1, <1>2, <1>3, <2>1, <2>2, SameUnit DEF Inv, CompileInv, SymbolInv
  <1>21. RelocInv'
    <2>1. \A j \in DOMAIN relocs' : relocs'[j].offset < Len(text')
      <3>1. \A v : v \in Nat /\ v < Len(text) => v < Len(text')
        BY <1>8, <1>13, <1>14
      <3>2. \A j \in DOMAIN relocs : relocs[j].offset < Len(text)
        BY <1>2 DEF Inv, CompileInv, RelocInv
      <3>3. \A j \in DOMAIN relocs : relocs[j].offset \in Nat
        BY <1>8, SeqAt, FieldFacts
      <3> QED
        BY <1>15, <1>16, <3>1, <3>2, <3>3
    <2>2. relocated => mark \in References(CurrentUnit) /\ item \in Relocated(CurrentUnit.functions[at].list)
      <3>1. at \in DOMAIN CurrentUnit.functions
        BY <1>2, <1>6, CurrentFacts DEF Inv, IsUnit, IsList, F
      <3>2. relocated => item \in Relocated(CurrentUnit.functions[at].list)
        BY <1>6, <1>12 DEF Relocated, relocated, CurrentList
      <3>3. mark = CurrentUnit.functions[at].list[item].src.symbol
        BY <1>12 DEF mark
      <3>4. relocated => mark \in {CurrentUnit.functions[at].list[k].src.symbol :
                                      k \in Relocated(CurrentUnit.functions[at].list)}
        BY <3>2, <3>3
      <3> QED
        BY <3>1, <3>2, <3>4, Zenon DEF References
    <2>3. \A j \in DOMAIN relocs' : relocs'[j].symbol \in References(CurrentUnit)
      <3>1. \A j \in DOMAIN relocs : relocs[j].symbol \in References(CurrentUnit)
        BY <1>2 DEF Inv, CompileInv, RelocInv
      <3> QED
        BY <1>15, <1>16, <2>2, <3>1
    <2>4. ASSUME NEW f \in DOMAIN CurrentUnit.functions, NEW k \in Relocated(CurrentUnit.functions[f].list),
                 Passed(f, k)'
          PROVE  \E j \in DOMAIN relocs' : relocs'[j].symbol = SymbolAt(f, k)
      <3>1. CASE Passed(f, k)
        <4>1. PICK j \in DOMAIN relocs : relocs[j].symbol = SymbolAt(f, k)
          BY <1>2, <3>1 DEF Inv, CompileInv, RelocInv
        <4> QED
          BY <1>16, <4>1
      <3>2. CASE ~ Passed(f, k)
        <4>1. f = at /\ k < item + 1 /\ ~ (k < item)
          BY <1>1, <2>4, <3>2 DEF Passed
        <4>2. k \in 1 .. Len(CurrentList)
          BY <1>6, <4>1 DEF Relocated, CurrentList
        <4>3. k = item
          BY <1>6, <4>1, <4>2
        <4>4. SymbolAt(f, k) = mark /\ relocated
          BY <1>12, <4>1, <4>3 DEF SymbolAt, mark, relocated, Relocated
        <4> QED
          BY <1>15, <1>16, <4>4
      <3> QED
        BY <3>1, <3>2
    <2>5. \A f, k : SymbolAt(f, k)' = SymbolAt(f, k)
      BY <1>1, SameUnit
    <2> QED
      BY <1>1, <1>2, <1>3, <2>1, <2>3, <2>4, <2>5 DEF RelocInv
  <1>22. SymtabInv'
    BY <1>1, <1>2, <1>3 DEF Inv, CompileInv, SymtabInv, Written
  <1> QED
    BY <1>3, <1>4, <1>17, <1>19, <1>20, <1>21, <1>22 DEF Inv, CompileInv

(* The symbol table before the symbols are written.                        *)
LEMMA SymtabIdle ==
  ASSUME Inv, stage \in CompileStages, stage \notin {"defined", "undefined"},
         stage' \notin {"defined", "undefined"}, UNCHANGED symtab_entries
  PROVE  SymtabInv'
  <1>1. Len(symtab_entries) = 3 + Written /\ Written = 0 /\ Written' = 0
    BY DEF Inv, CompileInv, SymtabInv, Written
  <1>2. DOMAIN symtab_entries = 1 .. 3
    BY <1>1 DEF Inv, CompilerTypes
  <1>3. \A k \in DOMAIN symtab_entries : k <= 3 /\ symtab_entries[k] = LocalSyms[k]
    BY <1>2 DEF Inv, CompileInv, SymtabInv
  <1> QED
    BY <1>1, <1>3 DEF SymtabInv

LEMMA FunctionEncodedKeeps == Inv /\ FunctionEncoded => Inv'
  <1> SUFFICES ASSUME Inv, FunctionEncoded PROVE Inv'
    OBVIOUS
  <1> DEFINE unit == CurrentUnit
             F == Len(unit.functions)
             s == [name |-> unit.functions[at].name, value |-> fn_start_pc, defined |-> TRUE]
  <1>1. /\ stage = "encode" /\ stage' = "measure" /\ item' = 1 /\ at' = at + 1 /\ item > Len(CurrentList)
        /\ UNCHANGED <<units, rodata, rodata_map, text, relocs, symtab_entries, objects, symtab, image, error>>
        /\ symbols' = Append(symbols, s)
        /\ fn_start_pc' = Len(text) /\ pc' = Len(text) /\ labels' = << >>
    BY DEF FunctionEncoded, Stage, data, linker
  <1>2. /\ stage \in CompileStages /\ stage' \in CompileStages /\ stage \in CodeStages /\ stage' \in CodeStages
        /\ stage' \notin SymbolStages /\ stage' \notin {"strings", "floats"} /\ stage' # "encode"
    BY <1>1 DEF CompileStages, CodeStages, SymbolStages
  <1>3. at \in Nat \ {0}
    BY DEF Inv, Shape
  <1>4. Shape' /\ LinkerTypes' /\ LinkInv' /\ ObjectsInv' /\ CurrentUnit' = unit
    BY <1>1, <1>2, <1>3, CompileKeeps
  <1>5. DataInv'
    BY <1>1, <1>2, DataKept
  <1>6. /\ at <= F /\ Len(text) = pc /\ fn_start_pc = FunctionStart(unit, at)
        /\ pc = fn_start_pc + Within(item - 1) /\ pc \in Nat /\ fn_start_pc \in Nat
        /\ \A k \in 1 .. item - 1 : CurrentList[k].op # "label" => fn_start_pc < Len(text)
    BY <1>1, <1>2 DEF Inv, CompileInv, PositionInv, CompilerTypes
  <1>7. /\ IsFunction(unit.functions[at]) /\ item \in 1 .. Len(CurrentList) + 1 /\ Len(CurrentList) \in Nat
        /\ at \in 1 .. F /\ F \in Nat
        /\ DOMAIN CurrentList = 1 .. Len(CurrentList)
        /\ FunctionStart(unit, at + 1) = FunctionStart(unit, at) + Within(Len(CurrentList))
        /\ \E k \in 1 .. Len(CurrentList) : CurrentList[k].op # "label"
    BY <1>1, <1>2, <1>6, PassFacts
  <1>8. item - 1 = Len(CurrentList)
    <2> DEFINE L == Len(CurrentList)
    <2>1. item \in 1 .. L + 1 /\ L \in Nat /\ item > L
      BY <1>1, <1>7
    <2> HIDE DEF L
    <2>2. item - 1 = L
      BY <2>1
    <2> QED
      BY <2>2 DEF L
  <1>9. fn_start_pc < Len(text) /\ Len(text) = FunctionStart(unit, at + 1)
    BY <1>6, <1>7, <1>8
  <1>10. IsUnit(unit)
    BY <1>2, CurrentFacts DEF Inv
  <1>11. s = FunctionSymbol(at) /\ s.value < Len(text) /\ s \in Definition
    <2>1. unit.functions[at].name \in STRING
      BY <1>7 DEF IsFunction
    <2>2. unit.functions[at].name \in Names
      BY <2>1 DEF Names
    <2> QED
      BY <1>6, <1>9, <2>2 DEF FunctionSymbol, Definition
  <1>12. symbols \in Seq(Definition) /\ Len(symbols) = at - 1
    BY <1>2 DEF Inv, CompilerTypes, CompileInv, SymbolInv
  <1> HIDE DEF unit, F, s
  <1>13. /\ symbols' \in Seq(Definition) /\ Len(symbols') = at /\ symbols'[at] = s
         /\ DOMAIN symbols' = 1 .. at /\ DOMAIN symbols = 1 .. at - 1
         /\ \A k \in 1 .. at - 1 : symbols'[k] = symbols[k]
    BY <1>1, <1>3, <1>11, <1>12
  <1>14. CompilerTypes'
    BY <1>1, <1>6, <1>13 DEF Inv, CompilerTypes
  <1>15. PositionInv'
    <2>1. at' \in Nat /\ at' <= F + 1 /\ fn_start_pc' = FunctionStart(unit, at') /\ item' - 1 = 0 /\ item' = 1
      BY <1>1, <1>3, <1>7, <1>9
    <2>2. ASSUME at' <= F
          PROVE  Len(CurrentList') \in Nat /\ Within(item - 1)' = 0
      <3>1. IsFunction(unit.functions[at'])
        BY <1>10, <2>1, <2>2, <1>1, <1>3, StartFacts DEF F
      <3>2. CurrentList' = unit.functions[at'].list
        BY <1>4 DEF CurrentList
      <3>3. Len(CurrentList') \in Nat /\ Sums(Lengths(CurrentList'))[0] = 0
        BY <3>1, <3>2, ListFacts DEF IsList
      <3>4. Within(item - 1)' = Sums(Lengths(CurrentList'))[0]
        BY <2>1 DEF Within
      <3> QED
        BY <3>3, <3>4
    <2>3. LabelsBefore(CurrentList, fn_start_pc, labels, item)'
      BY <1>1 DEF LabelsBefore
    <2>4. Len(text') = fn_start_pc' /\ pc' = fn_start_pc' + 0 /\ F \in Nat /\ labels' = << >>
          /\ stage' = "measure"
      BY <1>1, <1>6, <1>7
    <2>5. F = Len(CurrentUnit'.functions) /\ FunctionStart(unit, at') = FunctionStart(CurrentUnit, at)'
      BY <1>4 DEF F
    <2> QED
      BY <2>1, <2>2, <2>3, <2>4, <2>5 DEF PositionInv
  <1>16. SymbolInv'
    <2>1. \A f \in 1 .. at - 1 : symbols[f] = FunctionSymbol(f) /\ symbols[f].value < Len(text)
      <3>1. \A f \in 1 .. at - 1 : f \in DOMAIN symbols /\ f <= F
        BY <1>3, <1>7, <1>13
      <3> QED
        BY <1>2, <3>1 DEF Inv, CompileInv, SymbolInv, F, unit
    <2>2. \A f \in 1 .. at : f = at \/ f \in 1 .. at - 1
      BY <1>3
    <2>3. \A f \in DOMAIN symbols' : symbols'[f] = FunctionSymbol(f) /\ symbols'[f].value < Len(text)
      BY <1>11, <1>13, <2>1, <2>2
    <2>4. \A f \in DOMAIN symbols' : ~ (f > F)
      BY <1>3, <1>7, <1>13
    <2>5. Len(symbols') = at' - 1 /\ F = Len(CurrentUnit'.functions) /\ text' = text
      BY <1>1, <1>3, <1>4, <1>13 DEF F
    <2>6. \A f : FunctionSymbol(f)' = FunctionSymbol(f)
      BY <1>1, SameUnit
    <2> QED
      BY <1>2, <2>3, <2>4, <2>5, <2>6 DEF SymbolInv
  <1>17. RelocInv'
    <2>1. \A f \in DOMAIN unit.functions : \A k \in Relocated(unit.functions[f].list) : Passed(f, k)' => Passed(f, k)
      <3> SUFFICES ASSUME NEW f \in DOMAIN unit.functions, NEW k \in Relocated(unit.functions[f].list),
                          Passed(f, k)', ~ (f < at)
                   PROVE  Passed(f, k)
        BY DEF Passed
      <3>1. f < at + 1 /\ f \in Nat
        BY <1>1, <1>2, <1>10 DEF Passed, IsUnit, IsList
      <3>2. f = at
        BY <1>3, <3>1
      <3>3. k \in 1 .. Len(CurrentList)
        BY <1>7, <3>2 DEF Relocated, CurrentList, unit
      <3>4. k < item
        BY <1>7, <1>8, <3>3
      <3> QED
        BY <1>1, <3>2, <3>4 DEF Passed
    <2> QED
      BY <1>1, <1>2, <1>4, <2>1, SameUnit DEF Inv, CompileInv, RelocInv, unit
  <1>18. SymtabInv'
    BY <1>1, <1>2, SymtabIdle
  <1> QED
    BY <1>4, <1>5, <1>14, <1>15, <1>16, <1>17, <1>18 DEF Inv, CompileInv

LEMMA FunctionsEncodedKeeps == Inv /\ FunctionsEncoded => Inv'
  <1> SUFFICES ASSUME Inv, FunctionsEncoded PROVE Inv'
    OBVIOUS
  <1> DEFINE unit == CurrentUnit
             F == Len(unit.functions)
  <1>1. /\ stage = "measure" /\ stage' = "resolve" /\ item' = 1 /\ at > F
        /\ UNCHANGED <<units, at, rodata, rodata_map, text, relocs, fn_start_pc, pc, labels, symbols,
                       symtab_entries, objects, symtab, image, error>>
    BY DEF FunctionsEncoded, Stage, data, code, linker
  <1>2. /\ stage \in CompileStages /\ stage' \in CompileStages /\ stage \in CodeStages
        /\ stage' \in SymbolStages /\ stage' \notin CodeStages
        /\ stage' \notin {"strings", "floats", "defined", "undefined"}
        /\ stage \notin {"defined", "undefined"}
    BY <1>1 DEF CompileStages, CodeStages, SymbolStages
  <1>3. at \in Nat \ {0}
    BY DEF Inv, Shape
  <1>4. Shape' /\ LinkerTypes' /\ LinkInv' /\ ObjectsInv' /\ CurrentUnit' = unit
    BY <1>1, <1>2, <1>3, CompileKeeps
  <1>5. DataInv'
    BY <1>1, <1>2, DataKept
  <1>6. CompilerTypes'
    BY <1>1 DEF Inv, CompilerTypes
  <1>7. IsUnit(unit)
    BY <1>2, CurrentFacts DEF Inv
  <1>8. F \in Nat /\ DOMAIN unit.functions = 1 .. F
    BY <1>7 DEF IsUnit, IsList
  <1>9. PositionInv'
    BY <1>1, <1>2 DEF PositionInv
  <1>10. SymbolInv'
    <2>1. Len(symbols) = at - 1
      BY <1>2 DEF Inv, CompileInv, SymbolInv
    <2>2. Len(symbols) >= F
      BY <1>1, <1>3, <1>8, <2>1
    <2> QED
      BY <1>1, <1>2, <1>4, <2>2, SameUnit DEF Inv, CompileInv, SymbolInv
  <1>11. RelocInv'
    <2>1. relocs \in Seq(RelocRecord)
      BY DEF Inv, CompilerTypes
    <2>2. \A j \in 1 .. Len(relocs) : relocs[j].symbol \in References(unit)
      BY <1>2, <2>1 DEF Inv, CompileInv, RelocInv
    <2>3. \A n \in UsedBy(unit) : \E j \in 1 .. Len(relocs) : relocs[j].symbol = n
      <3> SUFFICES ASSUME NEW n \in UsedBy(unit) PROVE \E j \in 1 .. Len(relocs) : relocs[j].symbol = n
        OBVIOUS
      <3>1. PICK f \in DOMAIN unit.functions :
              \E k \in Relocated(unit.functions[f].list) : n = unit.functions[f].list[k].src.symbol
        BY DEF UsedBy
      <3>2. PICK k \in Relocated(unit.functions[f].list) : n = SymbolAt(f, k)
        BY <3>1 DEF SymbolAt
      <3>3. Passed(f, k)
        BY <1>1, <1>3, <1>8 DEF Passed
      <3>4. \E j \in DOMAIN relocs : relocs[j].symbol = SymbolAt(f, k)
        BY <1>2, <3>3 DEF Inv, CompileInv, RelocInv
      <3> QED
        BY <2>1, <3>2, <3>4
    <2>4. \A k \in DOMAIN relocs : relocs[k].offset < Len(text)
      BY <1>2 DEF Inv, CompileInv, RelocInv
    <2>5. 1 <= Len(relocs) + 1
      BY <2>1
    <2> QED
      BY <1>1, <1>2, <1>4, <2>2, <2>3, <2>4, <2>5 DEF RelocInv
  <1>12. SymtabInv'
    BY <1>1, <1>2, SymtabIdle
  <1> QED
    BY <1>4, <1>5, <1>6, <1>9, <1>10, <1>11, <1>12 DEF Inv, CompileInv

LEMMA UsedFacts ==
  ASSUME NEW unit
  PROVE  UsedBy(unit) = References(unit) \ RodataNames(unit)
  BY DEF UsedBy, References

(* Replacing an element of a sequence.                                     *)
LEMMA ReplaceAt ==
  ASSUME NEW S, NEW s \in Seq(S), NEW k \in DOMAIN s, NEW e \in S
  PROVE  /\ [s EXCEPT ![k] = e] \in Seq(S) /\ Len([s EXCEPT ![k] = e]) = Len(s)
         /\ DOMAIN [s EXCEPT ![k] = e] = DOMAIN s /\ [s EXCEPT ![k] = e][k] = e
         /\ \A j \in DOMAIN s : j # k => [s EXCEPT ![k] = e][j] = s[j]
  OBVIOUS

(* The names in the map of the constants are the names of the constants.   *)
LEMMA MapFacts ==
  ASSUME Inv, stage \in SymbolStages, NEW n
  PROVE  Named(rodata_map, n) <=> n \in RodataNames(CurrentUnit)
  <1>1. stage \in CompileStages
    BY DEF CompileStages
  <1>2. IsUnit(CurrentUnit)
    BY <1>1, CurrentFacts DEF Inv
  <1>3. /\ Len(rodata_map) = Len(Constants(CurrentUnit))
        /\ \A k \in DOMAIN rodata_map : rodata_map[k].name = Constants(CurrentUnit)[k][1]
    BY <1>1 DEF Inv, CompileInv, DataInv
  <1>4. DOMAIN rodata_map = 1 .. Len(Constants(CurrentUnit))
    BY <1>3 DEF Inv, CompilerTypes
  <1>5. RodataNames(CurrentUnit) = {Constants(CurrentUnit)[k][1] : k \in 1 .. Len(Constants(CurrentUnit))}
    BY <1>2, ConstantFacts
  <1> QED
    BY <1>3, <1>4, <1>5 DEF Named

LEMMA ResolveRelocKeeps == Inv /\ ResolveReloc => Inv'
  <1> SUFFICES ASSUME Inv, ResolveReloc PROVE Inv'
    OBVIOUS
  <1> DEFINE unit == CurrentUnit
             F == Len(unit.functions)
             r == relocs[item]
             found == rodata_map[Find(rodata_map, r.symbol)].offset
             q == [r EXCEPT !.symbol = ".rodata", !.addend = found - 4]
             s == [name |-> r.symbol, value |-> 0, defined |-> FALSE]
             constant == Named(rodata_map, r.symbol)
             known == Named(symbols, r.symbol)
  <1>1. /\ stage = "resolve" /\ stage' = stage /\ item' = item + 1 /\ item <= Len(relocs)
        /\ UNCHANGED <<units, at, rodata, rodata_map, text, fn_start_pc, pc, labels,
                       symtab_entries, objects, symtab, image, error>>
    BY DEF ResolveReloc, NextItem, data, linker
  <1>2. /\ constant => relocs' = [relocs EXCEPT ![item] = q] /\ symbols' = symbols
        /\ ~ constant => relocs' = relocs /\ symbols' = IF known THEN symbols ELSE Append(symbols, s)
    BY DEF ResolveReloc
  <1>3. /\ stage \in CompileStages /\ stage' \in CompileStages /\ stage \in SymbolStages
        /\ stage' \notin CodeStages /\ stage' \notin {"strings", "floats", "defined", "undefined"}
        /\ stage \notin {"defined", "undefined"}
    BY <1>1 DEF CompileStages, CodeStages, SymbolStages
  <1>4. at \in Nat \ {0} /\ item \in Nat \ {0}
    BY DEF Inv, Shape
  <1>5. Shape' /\ LinkerTypes' /\ LinkInv' /\ ObjectsInv' /\ CurrentUnit' = unit
    BY <1>1, <1>3, <1>4, CompileKeeps
  <1>6. DataInv'
    BY <1>1, <1>3, DataKept
  <1>7. F \in Nat
    BY <1>3, CurrentFacts DEF Inv, IsUnit, IsList
  <1>8. /\ relocs \in Seq(RelocRecord) /\ symbols \in Seq(Definition) /\ rodata_map \in Seq(Entry)
    BY DEF Inv, CompilerTypes
  <1>9. /\ r \in RelocRecord /\ r.symbol \in References(unit)
        /\ constant <=> r.symbol \in RodataNames(unit)
    <2>1. item \in DOMAIN relocs /\ item \in item .. Len(relocs)
      BY <1>1, <1>4, <1>8
    <2>2. r \in RelocRecord
      BY <1>8, <2>1, SeqAt
    <2>3. r.symbol \in References(unit)
      BY <1>1, <2>1 DEF Inv, CompileInv, RelocInv
    <2> QED
      BY <1>3, <2>2, <2>3, MapFacts
  <1>10. constant => q \in RelocRecord /\ q.offset = r.offset
    <2>1. constant => Find(rodata_map, r.symbol) \in DOMAIN rodata_map
      BY <1>8, SeqAt, FindFirst
    <2>2. constant => found \in Nat
      BY <1>8, <2>1, SeqAt, FieldFacts
    <2>3. ".rodata" \in Names
      BY DEF Names
    <2> HIDE DEF found, r, constant
    <2>4. constant => found - 4 \in Int
      BY <2>2
    <2> QED
      BY <1>9, <2>3, <2>4 DEF RelocRecord
  <1>11. s \in Definition /\ ~ s.defined /\ s.name = r.symbol
    <2>1. r.symbol \in Names
      BY <1>9, FieldFacts
    <2> QED
      BY <2>1 DEF Definition
  <1>12. ~ constant => r.symbol \in UsedBy(unit)
    BY <1>9, UsedFacts
  <1> DEFINE mark == r.symbol
  <1>13. relocs[item] = r /\ r.symbol = mark /\ (known => Named(symbols, mark))
    OBVIOUS
  <1>14. mark \in RodataNames(unit) <=> constant
    BY <1>9
  <1> HIDE DEF unit, F, r, q, s, constant, known, found, mark
  <1>15. /\ relocs' \in Seq(RelocRecord) /\ Len(relocs') = Len(relocs) /\ DOMAIN relocs' = 1 .. Len(relocs)
         /\ \A k \in DOMAIN relocs : k # item => relocs'[k] = relocs[k]
         /\ \A k \in DOMAIN relocs : relocs'[k].offset = relocs[k].offset
    <2>1. CASE constant
      <3>1. relocs' = [relocs EXCEPT ![item] = q] /\ q \in RelocRecord /\ q.offset = r.offset
        BY <1>2, <1>10, <2>1
      <3>2. item \in DOMAIN relocs
        BY <1>1, <1>4, <1>8
      <3>3. /\ relocs' \in Seq(RelocRecord) /\ Len(relocs') = Len(relocs) /\ DOMAIN relocs' = DOMAIN relocs
            /\ relocs'[item] = q /\ \A k \in DOMAIN relocs : k # item => relocs'[k] = relocs[k]
        BY <1>8, <3>1, <3>2, ReplaceAt
      <3>4. DOMAIN relocs = 1 .. Len(relocs)
        BY <1>8
      <3> QED
        BY <1>13, <3>1, <3>3, <3>4
    <2>2. CASE ~ constant
      BY <1>2, <1>8, <2>2
    <2> QED
      BY <2>1, <2>2
  <1>16. /\ symbols' \in Seq(Definition) /\ Len(symbols') >= Len(symbols)
         /\ \A k \in DOMAIN symbols : k \in DOMAIN symbols' /\ symbols'[k] = symbols[k]
         /\ \A k \in DOMAIN symbols' : k \in DOMAIN symbols \/
               (k = Len(symbols) + 1 /\ ~ symbols'[k].defined /\ symbols'[k].name = mark /\ mark \in UsedBy(unit))
         /\ constant \/ Named(symbols', mark)
    <2>1. CASE ~ constant /\ ~ known
      <3>1. symbols' = Append(symbols, s)
        BY <1>2, <2>1
      <3>2. /\ symbols' \in Seq(Definition) /\ Len(symbols') = Len(symbols) + 1
            /\ DOMAIN symbols' = DOMAIN symbols \union {Len(symbols) + 1}
            /\ symbols'[Len(symbols) + 1] = s
            /\ \A k \in DOMAIN symbols : symbols'[k] = symbols[k]
        BY <1>8, <1>11, <3>1
      <3>3. Named(symbols', mark)
        BY <1>11, <1>13, <3>2 DEF Named
      <3>4. Len(symbols') >= Len(symbols)
        BY <1>8, <3>2
      <3> QED
        BY <1>11, <1>12, <1>13, <2>1, <3>2, <3>3, <3>4
    <2>2. CASE constant \/ known
      <3>1. symbols' = symbols
        BY <1>2, <2>2
      <3> QED
        BY <1>8, <1>13, <2>2, <3>1
    <2> QED
      BY <2>1, <2>2
  <1>17. CompilerTypes'
    BY <1>1, <1>15, <1>16 DEF Inv, CompilerTypes
  <1>18. PositionInv'
    BY <1>1, <1>3 DEF PositionInv
  <1>19. SymbolInv'
    <2>1. Len(symbols) >= F /\ Len(symbols) \in Nat /\ Len(symbols') \in Nat /\ DOMAIN symbols = 1 .. Len(symbols)
      BY <1>3, <1>8, <1>16 DEF Inv, CompileInv, SymbolInv, F, unit
    <2>2. Len(symbols') >= F
      BY <1>7, <1>16, <2>1
    <2>3. \A f \in DOMAIN symbols : f <= F => symbols[f] = FunctionSymbol(f) /\ symbols[f].value < Len(text)
      BY <1>3 DEF Inv, CompileInv, SymbolInv, F, unit
    <2>4. \A k \in DOMAIN symbols : k > F => ~ symbols[k].defined /\ symbols[k].name \in UsedBy(unit)
      BY <1>3 DEF Inv, CompileInv, SymbolInv, F, unit
    <2>5. ~ (Len(symbols) + 1 <= F)
      BY <1>7, <2>1
    <2>6. \A f \in DOMAIN symbols' : f <= F => symbols'[f] = FunctionSymbol(f) /\ symbols'[f].value < Len(text)
      BY <1>16, <2>3, <2>5
    <2>7. \A k \in DOMAIN symbols' : k > F => ~ symbols'[k].defined /\ symbols'[k].name \in UsedBy(unit)
      BY <1>16, <2>4
    <2>8. F = Len(CurrentUnit'.functions) /\ text' = text /\ CurrentUnit' = unit
      BY <1>1, <1>5 DEF F
    <2>9. \A f : FunctionSymbol(f)' = FunctionSymbol(f)
      BY <1>1, SameUnit
    <2> QED
      BY <1>3, <2>2, <2>6, <2>7, <2>8, <2>9 DEF SymbolInv
  <1>20. RelocInv'
    <2>1. \A k \in DOMAIN relocs : relocs[k].offset < Len(text)
      BY <1>3 DEF Inv, CompileInv, RelocInv
    <2>2. DOMAIN relocs = 1 .. Len(relocs) /\ Len(relocs) \in Nat
      BY <1>8
    <2>3. \A k \in DOMAIN relocs' : relocs'[k].offset < Len(text)
      BY <1>15, <2>1, <2>2
    <2>4. \A j \in item + 1 .. Len(relocs) : j \in item .. Len(relocs) /\ j # item /\ j \in DOMAIN relocs
      BY <1>4, <2>2
    <2>5. \A j \in item + 1 .. Len(relocs) : relocs'[j] = relocs[j]
      BY <1>15, <2>4
    <2>6. \A j \in item + 1 .. Len(relocs) : relocs'[j].symbol \in References(unit)
      BY <1>1, <2>4, <2>5 DEF Inv, CompileInv, RelocInv, unit
    <2>7. ASSUME NEW n \in UsedBy(unit)
          PROVE  Named(symbols', n) \/ \E j \in item + 1 .. Len(relocs) : relocs'[j].symbol = n
      <3>1. CASE Named(symbols, n)
        BY <1>16, <3>1 DEF Named
      <3>2. CASE ~ Named(symbols, n)
        <4>1. PICK j \in item .. Len(relocs) : relocs[j].symbol = n
          BY <1>1, <3>2 DEF Inv, CompileInv, RelocInv, unit
        <4>2. CASE j = item
          <5>1. n = mark
            BY <1>13, <4>1, <4>2
          <5>2. n \notin RodataNames(unit)
            BY UsedFacts
          <5> QED
            BY <1>14, <1>16, <5>1, <5>2
        <4>3. CASE j # item
          <5>1. j \in item + 1 .. Len(relocs)
            BY <1>4, <2>2, <4>3
          <5> QED
            BY <2>5, <4>1, <5>1
        <4> QED
          BY <4>2, <4>3
      <3> QED
        BY <3>1, <3>2
    <2>8. item + 1 <= Len(relocs) + 1
      BY <1>1, <1>4, <2>2
    <2>9. Len(relocs') = Len(relocs) /\ item' = item + 1 /\ text' = text /\ CurrentUnit' = unit /\ stage' = "resolve"
      BY <1>1, <1>5, <1>15
    <2> QED
      BY <1>3, <2>3, <2>6, <2>7, <2>8, <2>9 DEF RelocInv
  <1>21. SymtabInv'
    BY <1>1, <1>3, SymtabIdle
  <1> QED
    BY <1>5, <1>6, <1>17, <1>18, <1>19, <1>20, <1>21 DEF Inv, CompileInv

LEMMA RelocsResolvedKeeps == Inv /\ RelocsResolved => Inv'
  <1> SUFFICES ASSUME Inv, RelocsResolved PROVE Inv'
    OBVIOUS
  <1> DEFINE unit == CurrentUnit
  <1>1. /\ stage = "resolve" /\ stage' = "defined" /\ item' = 1 /\ item > Len(relocs)
        /\ UNCHANGED <<units, at, rodata, rodata_map, text, relocs, fn_start_pc, pc, labels, symbols,
                       symtab_entries, objects, symtab, image, error>>
    BY DEF RelocsResolved, Stage, data, code, linker
  <1>2. /\ stage \in CompileStages /\ stage' \in CompileStages /\ stage \in SymbolStages
        /\ stage' \in SymbolStages /\ stage' \notin CodeStages /\ stage' \notin {"strings", "floats", "resolve"}
    BY <1>1 DEF CompileStages, CodeStages, SymbolStages
  <1>3. at \in Nat \ {0} /\ item \in Nat
    BY DEF Inv, Shape
  <1>4. Shape' /\ LinkerTypes' /\ LinkInv' /\ ObjectsInv' /\ CurrentUnit' = unit
    BY <1>1, <1>2, <1>3, CompileKeeps
  <1>5. DataInv'
    BY <1>1, <1>2, DataKept
  <1>6. CompilerTypes'
    BY <1>1 DEF Inv, CompilerTypes
  <1>7. PositionInv'
    BY <1>1, <1>2 DEF PositionInv
  <1>8. SymbolInv'
    BY <1>1, <1>2, <1>4, SameUnit DEF Inv, CompileInv, SymbolInv
  <1>9. RelocInv'
    <2>1. item .. Len(relocs) = {}
      <3>1. Len(relocs) \in Nat
        BY DEF Inv, CompilerTypes
      <3> QED
        BY <1>1, <1>3, <3>1
    <2>2. \A n \in UsedBy(unit) : Named(symbols, n)
      BY <1>1, <2>1 DEF Inv, CompileInv, RelocInv
    <2>3. \A k \in DOMAIN relocs : relocs[k].offset < Len(text)
      BY <1>2 DEF Inv, CompileInv, RelocInv
    <2>4. symbols' = symbols /\ relocs' = relocs /\ text' = text
      BY <1>1
    <2> HIDE DEF unit
    <2> QED
      BY <1>2, <1>4, <2>2, <2>3, <2>4 DEF RelocInv
  <1>10. SymtabInv'
    <2>1. /\ Len(symtab_entries) = 3
          /\ \A k \in DOMAIN symtab_entries :
                symtab_entries[k] = IF k <= 3 THEN LocalSyms[k] ELSE GlobalSym(symbols[k - 3])
      BY <1>1, <1>2 DEF Inv, CompileInv, SymtabInv, Written
    <2>2. Len(unit.functions) \in Nat /\ Len(symbols) \in Nat
      BY <1>2, CurrentFacts DEF Inv, IsUnit, IsList, CompilerTypes
    <2>3. Written' = 0
      BY <1>1, <1>4, <2>2 DEF Written
    <2> QED
      BY <1>1, <2>1, <2>2, <2>3 DEF SymtabInv
  <1> QED
    BY <1>4, <1>5, <1>6, <1>7, <1>8, <1>9, <1>10 DEF Inv, CompileInv

(* While the symbols are written, which ones are defined.                  *)
LEMMA SymbolFacts ==
  ASSUME Inv, stage \in SymbolStages
  PROVE  /\ Len(CurrentUnit.functions) \in Nat /\ Len(symbols) \in Nat /\ Len(symbols) >= Len(CurrentUnit.functions)
         /\ IsUnit(CurrentUnit) /\ DOMAIN symbols = 1 .. Len(symbols)
         /\ \A k \in DOMAIN symbols :
               /\ GlobalSym(symbols[k]) \in SymRecord /\ symbols[k] \in Definition
               /\ symbols[k].defined = (k <= Len(CurrentUnit.functions))
  <1>1. stage \in CompileStages
    BY DEF CompileStages
  <1>2. IsUnit(CurrentUnit)
    BY <1>1, CurrentFacts DEF Inv
  <1>3. Len(CurrentUnit.functions) \in Nat /\ symbols \in Seq(Definition)
    BY <1>2 DEF IsUnit, IsList, Inv, CompilerTypes
  <1>4. /\ Len(symbols) >= Len(CurrentUnit.functions)
        /\ \A f \in DOMAIN symbols : f <= Len(CurrentUnit.functions) => symbols[f] = FunctionSymbol(f)
        /\ \A k \in DOMAIN symbols : k > Len(CurrentUnit.functions) => ~ symbols[k].defined
    BY <1>1 DEF Inv, CompileInv, SymbolInv
  <1>5. \A f : FunctionSymbol(f).defined = TRUE
    BY DEF FunctionSymbol
  <1>6. \A k \in DOMAIN symbols : k \in Nat /\ symbols[k] \in Definition /\ symbols[k].defined \in BOOLEAN
    BY <1>3, SeqAt, FieldFacts
  <1>7. \A k \in DOMAIN symbols : symbols[k].defined = (k <= Len(CurrentUnit.functions))
    BY <1>3, <1>4, <1>5, <1>6
  <1>8. \A d \in Definition : GlobalSym(d) \in SymRecord
    <2> SUFFICES ASSUME NEW d \in Definition PROVE GlobalSym(d) \in SymRecord
      OBVIOUS
    <2>1. d.name \in Names /\ d.value \in Nat
      BY FieldFacts
    <2> QED
      BY <2>1 DEF GlobalSym, Sym, SymRecord, Sections
  <1> QED
    BY <1>2, <1>3, <1>4, <1>6, <1>7, <1>8

LEMMA WriteSymbolKeeps == Inv /\ WriteSymbol => Inv'
  <1> SUFFICES ASSUME Inv, WriteSymbol PROVE Inv'
    OBVIOUS
  <1> DEFINE F == Len(CurrentUnit.functions)
             g == GlobalSym(symbols[item])
             chosen == symbols[item].defined = (stage = "defined")
  <1>1. /\ stage \in {"defined", "undefined"} /\ stage' = stage /\ item' = item + 1 /\ item <= Len(symbols)
        /\ UNCHANGED <<units, at, rodata, rodata_map, text, relocs, fn_start_pc, pc, labels, symbols,
                       objects, symtab, image, error>>
        /\ symtab_entries' = IF chosen THEN Append(symtab_entries, g) ELSE symtab_entries
    BY DEF WriteSymbol, NextItem, data, code, linker
  <1>2. /\ stage \in CompileStages /\ stage' \in CompileStages /\ stage \in SymbolStages
        /\ stage' \notin CodeStages /\ stage' \notin {"strings", "floats", "resolve"}
    BY <1>1 DEF CompileStages, CodeStages, SymbolStages
  <1>3. at \in Nat \ {0} /\ item \in Nat \ {0}
    BY DEF Inv, Shape
  <1>4. Shape' /\ LinkerTypes' /\ LinkInv' /\ ObjectsInv' /\ CurrentUnit' = CurrentUnit
    BY <1>1, <1>2, <1>3, CompileKeeps
  <1>5. DataInv'
    BY <1>1, <1>2, DataKept
  <1>6. /\ F \in Nat /\ Len(symbols) \in Nat /\ Len(symbols) >= F /\ item \in DOMAIN symbols
        /\ g \in SymRecord /\ symbols[item].defined = (item <= F)
    BY <1>1, <1>2, <1>3, SymbolFacts
  <1>7. symtab_entries \in Seq(SymRecord)
    BY DEF Inv, CompilerTypes
  <1>8. g = GlobalSym(symbols[item])
    OBVIOUS
  <1>9. chosen <=> ((item <= F) <=> (stage = "defined"))
    BY <1>6
  <1> HIDE DEF g, chosen, F
  <1>10. symtab_entries' \in Seq(SymRecord)
    BY <1>1, <1>6, <1>7
  <1>11. CompilerTypes'
    BY <1>1, <1>10 DEF Inv, CompilerTypes
  <1>12. PositionInv'
    BY <1>1, <1>2 DEF PositionInv
  <1>13. SymbolInv'
    BY <1>1, <1>2, <1>4, SameUnit DEF Inv, CompileInv, SymbolInv
  <1>14. RelocInv'
    BY <1>1, <1>2, <1>4 DEF Inv, CompileInv, RelocInv
  <1>15. SymtabInv'
    <2> DEFINE w == Written
    <2>1. /\ Len(symtab_entries) = 3 + w
          /\ \A k \in DOMAIN symtab_entries :
                symtab_entries[k] = IF k <= 3 THEN LocalSyms[k] ELSE GlobalSym(symbols[k - 3])
      BY <1>2 DEF Inv, CompileInv, SymtabInv
    <2>2. /\ stage = "defined" => w = IF item - 1 <= F THEN item - 1 ELSE F
          /\ stage = "undefined" => w = IF item - 1 <= F THEN F ELSE item - 1
      BY DEF Written, F
    <2>3. /\ stage = "defined" => Written' = IF item <= F THEN item ELSE F
          /\ stage = "undefined" => Written' = IF item <= F THEN F ELSE item
      <3>1. item' - 1 = item /\ stage' = stage /\ CurrentUnit' = CurrentUnit
        BY <1>1, <1>3, <1>4
      <3> QED
        BY <3>1 DEF Written, F
    <2>4. item + 1 <= Len(symbols) + 1
      BY <1>1, <1>3, <1>6
    <2> HIDE DEF w
    <2>5. CASE chosen
      <3>1. symtab_entries' = Append(symtab_entries, g)
        BY <1>1, <2>5
      <3>2. w = item - 1 /\ Written' = item
        <4>1. CASE stage = "defined"
          <5>1. item <= F
            BY <1>9, <2>5, <4>1
          <5> QED
            BY <1>3, <1>6, <2>2, <2>3, <4>1, <5>1
        <4>2. CASE stage = "undefined"
          <5>1. ~ (item <= F)
            BY <1>9, <2>5, <4>2
          <5> QED
            BY <1>3, <1>6, <2>2, <2>3, <4>2, <5>1
        <4> QED
          BY <1>1, <4>1, <4>2
      <3>3. /\ Len(symtab_entries') = 3 + Written' /\ DOMAIN symtab_entries' = DOMAIN symtab_entries \union {3 + item}
            /\ symtab_entries'[3 + item] = g
            /\ \A k \in DOMAIN symtab_entries : symtab_entries'[k] = symtab_entries[k]
        <4>1. Len(symtab_entries) + 1 = 3 + item
          BY <1>3, <2>1, <3>2
        <4>2. /\ Len(symtab_entries') = Len(symtab_entries) + 1
              /\ DOMAIN symtab_entries' = DOMAIN symtab_entries \union {Len(symtab_entries) + 1}
              /\ symtab_entries'[Len(symtab_entries) + 1] = g
              /\ \A k \in DOMAIN symtab_entries : symtab_entries'[k] = symtab_entries[k]
          BY <1>6, <1>7, <3>1
        <4> QED
          BY <3>2, <4>1, <4>2
      <3>4. \A k \in DOMAIN symtab_entries' :
                symtab_entries'[k] = IF k <= 3 THEN LocalSyms[k] ELSE GlobalSym(symbols[k - 3])
        <4> TAKE k \in DOMAIN symtab_entries'
        <4>1. CASE k = 3 + item
          <5>1. ~ (k <= 3) /\ k - 3 = item
            BY <1>3, <4>1
          <5> QED
            BY <1>8, <3>3, <4>1, <5>1
        <4>2. CASE k \in DOMAIN symtab_entries
          BY <2>1, <3>3, <4>2
        <4> QED
          BY <3>3, <4>1, <4>2
      <3> QED
        BY <1>1, <2>4, <3>3, <3>4 DEF SymtabInv
    <2>6. CASE ~ chosen
      <3>1. symtab_entries' = symtab_entries
        BY <1>1, <2>6
      <3>2. w = F /\ Written' = F
        <4>1. CASE stage = "defined"
          <5>1. ~ (item <= F)
            BY <1>9, <2>6, <4>1
          <5> QED
            BY <1>3, <1>6, <2>2, <2>3, <4>1, <5>1
        <4>2. CASE stage = "undefined"
          <5>1. item <= F
            BY <1>9, <2>6, <4>2
          <5> QED
            BY <1>3, <1>6, <2>2, <2>3, <4>2, <5>1
        <4> QED
          BY <1>1, <4>1, <4>2
      <3> QED
        BY <1>1, <2>1, <2>4, <3>1, <3>2 DEF SymtabInv
    <2> QED
      BY <2>5, <2>6
  <1> QED
    BY <1>4, <1>5, <1>11, <1>12, <1>13, <1>14, <1>15 DEF Inv, CompileInv

LEMMA DefinedWrittenKeeps == Inv /\ DefinedWritten => Inv'
  <1> SUFFICES ASSUME Inv, DefinedWritten PROVE Inv'
    OBVIOUS
  <1> DEFINE F == Len(CurrentUnit.functions)
  <1>1. /\ stage = "defined" /\ stage' = "undefined" /\ item' = 1 /\ item > Len(symbols)
        /\ UNCHANGED <<units, at, rodata, rodata_map, text, relocs, fn_start_pc, pc, labels, symbols,
                       symtab_entries, objects, symtab, image, error>>
    BY DEF DefinedWritten, Stage, data, code, linker
  <1>2. /\ stage \in CompileStages /\ stage' \in CompileStages /\ stage \in SymbolStages
        /\ stage' \in SymbolStages /\ stage' \notin CodeStages /\ stage' \notin {"strings", "floats", "resolve"}
    BY <1>1 DEF CompileStages, CodeStages, SymbolStages
  <1>3. at \in Nat \ {0} /\ item \in Nat
    BY DEF Inv, Shape
  <1>4. Shape' /\ LinkerTypes' /\ LinkInv' /\ ObjectsInv' /\ CurrentUnit' = CurrentUnit
    BY <1>1, <1>2, <1>3, CompileKeeps
  <1>5. DataInv'
    BY <1>1, <1>2, DataKept
  <1>6. CompilerTypes'
    BY <1>1 DEF Inv, CompilerTypes
  <1>7. PositionInv'
    BY <1>1, <1>2 DEF PositionInv
  <1>8. SymbolInv'
    BY <1>1, <1>2, <1>4, SameUnit DEF Inv, CompileInv, SymbolInv
  <1>9. RelocInv'
    BY <1>1, <1>2, <1>4 DEF Inv, CompileInv, RelocInv
  <1>10. SymtabInv'
    <2>1. F \in Nat /\ Len(symbols) \in Nat /\ Len(symbols) >= F
      BY <1>2, SymbolFacts
    <2>2. Written = IF item - 1 <= F THEN item - 1 ELSE F
      BY <1>1 DEF Written
    <2>3. Written = F
      BY <1>1, <1>3, <2>1, <2>2
    <2>4. Written' = F
      BY <1>1, <1>4, <2>1 DEF Written
    <2> HIDE DEF F
    <2> QED
      BY <1>1, <1>2, <2>1, <2>3, <2>4 DEF Inv, CompileInv, SymtabInv
  <1> QED
    BY <1>4, <1>5, <1>6, <1>7, <1>8, <1>9, <1>10 DEF Inv, CompileInv

(* The local symbols of every object.                                      *)
LEMMA LocalFacts ==
  /\ LocalSyms \in Seq(SymRecord) /\ Len(LocalSyms) = 3 /\ DOMAIN LocalSyms = 1 .. 3
  /\ \A k \in 1 .. 3 : LocalSyms[k].bind = "local" /\ LocalSyms[k].name \notin {"_start", "main"}
  /\ LocalSyms[1].section = "undef" /\ LocalSyms[2].section = "abs" /\ LocalSyms[3].section = "rodata"
  /\ \A k \in 1 .. 3 : LocalSyms[k].value = 0
  <1> DEFINE a == Sym("", "local", "notype", "undef", 0)
             b == Sym("program.cco", "local", "file", "abs", 0)
             c == Sym("", "local", "section", "rodata", 0)
  <1>1. "" \in Names /\ "program.cco" \in Names
    BY DEF Names
  <1>2. a \in SymRecord /\ b \in SymRecord /\ c \in SymRecord
    BY <1>1 DEF Sym, SymRecord, Sections
  <1>3. /\ a.bind = "local" /\ b.bind = "local" /\ c.bind = "local"
        /\ a.section = "undef" /\ b.section = "abs" /\ c.section = "rodata"
        /\ a.name = "" /\ b.name = "program.cco" /\ c.name = ""
        /\ a.value = 0 /\ b.value = 0 /\ c.value = 0
    BY DEF Sym
  <1>4. LocalSyms = <<a, b, c>>
    BY DEF LocalSyms
  <1> HIDE DEF a, b, c
  <1>5. /\ LocalSyms \in Seq(SymRecord) /\ Len(LocalSyms) = 3 /\ DOMAIN LocalSyms = 1 .. 3
        /\ LocalSyms[1] = a /\ LocalSyms[2] = b /\ LocalSyms[3] = c
    BY <1>2, <1>4
  <1>6. \A k \in 1 .. 3 : k = 1 \/ k = 2 \/ k = 3
    OBVIOUS
  <1> QED
    BY <1>3, <1>5, <1>6

(* The index of a symbol is one of the symbol table.                       *)
LEMMA SymIndexFacts ==
  ASSUME NEW syms \in Seq(SymRecord), Len(syms) >= 3, NEW name
  PROVE  SymIndex(syms, name) \in Nat /\ SymIndex(syms, name) < Len(syms)
  <1> DEFINE g == Globals(syms)
             n == Len(syms)
  <1>1. n \in Nat /\ n >= 3
    OBVIOUS
  <1>2. CASE name = ".rodata"
    BY <1>1, <1>2 DEF SymIndex
  <1>3. CASE name # ".rodata" /\ Named(g, name)
    <2>1. g = SubSeq(syms, 4, n)
      BY DEF Globals
    <2>2. g \in Seq(SymRecord) /\ Len(g) = n - 3
      <3>1. n \in Int /\ 4 \in Int /\ \A i \in 4 .. n : syms[i] \in SymRecord
        OBVIOUS
      <3>2. g \in Seq(SymRecord) /\ Len(g) = IF 4 <= n THEN n - 4 + 1 ELSE 0
        <4> HIDE DEF g, n
        <4> QED BY <2>1, <3>1, SubSeqProperties
      <3> HIDE DEF g, n
      <3> QED BY <1>1, <3>2
    <2>3. Find(g, name) \in DOMAIN g
      <3> HIDE DEF g
      <3> QED BY <1>3, <2>2, SeqAt, FindFirst
    <2>4. Find(g, name) \in 1 .. n - 3
      <3> HIDE DEF g, n
      <3> QED BY <2>2, <2>3
    <2>5. SymIndex(syms, name) = Find(g, name) + 2
      BY <1>3 DEF SymIndex
    <2> DEFINE i == Find(g, name)
    <2> HIDE DEF g, n, i
    <2>6. i \in 1 .. n - 3 /\ SymIndex(syms, name) = i + 2
      BY <2>4, <2>5 DEF i
    <2>7. i + 2 \in Nat /\ i + 2 < n
      BY <1>1, <2>6
    <2> QED
      BY <2>6, <2>7 DEF n
  <1>4. CASE name # ".rodata" /\ ~ Named(g, name)
    BY <1>1, <1>4 DEF SymIndex
  <1> QED
    BY <1>2, <1>3, <1>4

(* The object written for the unit.                                        *)
LEMMA NewObject ==
  ASSUME Inv, WriteObject
  PROVE  \E o \in Object : objects' = Append(objects, o) /\ ObjectOf(o, CurrentUnit)
  <1> DEFINE unit == CurrentUnit
             F == Len(unit.functions)
             o == [text |-> text, rodata |-> rodata, syms |-> symtab_entries,
                   relas |-> [k \in DOMAIN relocs |-> RelaOf(relocs[k])]]
             N == Len(symbols)
  <1>1. objects' = Append(objects, o) /\ stage = "undefined" /\ item > N
    BY DEF WriteObject
  <1>2. stage \in SymbolStages /\ stage \in CompileStages /\ item \in Nat
    BY <1>1 DEF SymbolStages, CompileStages, Inv, Shape
  <1>3. /\ text \in Seq(Byte) /\ rodata \in Seq(Cell) /\ symtab_entries \in Seq(SymRecord)
        /\ relocs \in Seq(RelocRecord)
    BY DEF Inv, CompilerTypes
  <1>4. /\ F \in Nat /\ N \in Nat /\ N >= F /\ IsUnit(unit) /\ DOMAIN symbols = 1 .. N
        /\ \A k \in 1 .. N : symbols[k].defined = (k <= F)
    BY <1>2, SymbolFacts
  <1>5. /\ item = N + 1 /\ Len(symtab_entries) = 3 + N
        /\ \A k \in DOMAIN symtab_entries :
              symtab_entries[k] = IF k <= 3 THEN LocalSyms[k] ELSE GlobalSym(symbols[k - 3])
    <2>1. Written = IF item - 1 <= F THEN F ELSE item - 1
      BY <1>1 DEF Written
    <2>2. item <= N + 1 /\ Len(symtab_entries) = 3 + Written
      BY <1>1, <1>2 DEF Inv, CompileInv, SymtabInv
    <2>3. item = N + 1
      BY <1>1, <1>2, <1>4, <2>2
    <2>4. Written = N
      BY <1>4, <2>1, <2>3
    <2> QED
      BY <1>2, <2>2, <2>3, <2>4 DEF Inv, CompileInv, SymtabInv
  <1>6. \A r \in RelocRecord : RelaOf(r) \in Rela /\ RelaOf(r).sym < Len(symtab_entries) /\ RelaOf(r).offset = r.offset
    <2> TAKE r \in RelocRecord
    <2>1. SymIndex(symtab_entries, r.symbol) \in Nat /\ SymIndex(symtab_entries, r.symbol) < Len(symtab_entries)
      <3>1. Len(symtab_entries) >= 3
        BY <1>4, <1>5
      <3> QED
        BY <1>3, <3>1, SymIndexFacts
    <2>2. r.offset \in Nat /\ r.type \in {"PLT32", "PC32"} /\ r.addend \in Int
      BY FieldFacts
    <2> QED
      BY <2>1, <2>2 DEF RelaOf, Rela
  <1>7. /\ o.text = text /\ o.syms = symtab_entries /\ DOMAIN o.relas = DOMAIN relocs
        /\ \A k \in DOMAIN relocs : o.relas[k] = RelaOf(relocs[k])
    OBVIOUS
  <1>8. o \in Object
    <2> DEFINE q == [k \in DOMAIN relocs |-> RelaOf(relocs[k])]
    <2>1. \A k \in DOMAIN relocs : RelaOf(relocs[k]) \in Rela
      BY <1>3, <1>6, SeqAt
    <2>2. DOMAIN relocs = 1 .. Len(relocs) /\ Len(relocs) \in Nat
      BY <1>3
    <2>3. q \in Seq(Rela)
      <3>1. q = [k \in 1 .. Len(relocs) |-> RelaOf(relocs[k])]
        BY <2>2
      <3>2. \A k \in 1 .. Len(relocs) : RelaOf(relocs[k]) \in Rela
        BY <2>1, <2>2
      <3> QED
        BY <2>2, <3>1, <3>2
    <2> HIDE DEF q
    <2>4. o = [text |-> text, rodata |-> rodata, syms |-> symtab_entries, relas |-> q]
      BY DEF q
    <2> QED
      BY <1>3, <2>3, <2>4 DEF Object
  <1> HIDE DEF o
  <1>9. ValidObject(o)
    <2>1. \A k \in DOMAIN relocs : relocs[k].offset < Len(text)
      BY <1>2 DEF Inv, CompileInv, RelocInv
    <2>2. \A k \in DOMAIN relocs : relocs[k] \in RelocRecord
      BY <1>3, SeqAt
    <2> QED
      BY <1>6, <1>7, <2>1, <2>2 DEF ValidObject
  <1>10. /\ \A f \in 1 .. F : symbols[f] = FunctionSymbol(f) /\ symbols[f].value < Len(text)
         /\ \A k \in 1 .. N : k > F => ~ symbols[k].defined /\ symbols[k].name \in UsedBy(unit)
    <2>1. /\ \A f \in 1 .. N : f <= F => symbols[f] = FunctionSymbol(f) /\ symbols[f].value < Len(text)
          /\ \A k \in 1 .. N : k > F => ~ symbols[k].defined /\ symbols[k].name \in UsedBy(unit)
      BY <1>2, <1>4 DEF Inv, CompileInv, SymbolInv
    <2>2. \A f \in 1 .. F : f \in 1 .. N /\ f <= F
      BY <1>4
    <2> QED
      BY <2>1, <2>2
  <1>11. \A k \in 1 .. N : 3 + k \in DOMAIN symtab_entries /\ symtab_entries[3 + k] = GlobalSym(symbols[k])
    <2> TAKE k \in 1 .. N
    <2>1. 3 + k \in DOMAIN symtab_entries /\ ~ (3 + k <= 3) /\ 3 + k - 3 = k
      BY <1>3, <1>4, <1>5
    <2> QED
      BY <1>5, <2>1
  <1>12. \A k \in 1 .. 3 : o.syms[k] = LocalSyms[k]
    <2>1. \A k \in 1 .. 3 : k \in DOMAIN symtab_entries /\ k <= 3
      BY <1>3, <1>4, <1>5
    <2> QED
      BY <1>5, <1>7, <2>1
  <1>13. \A f \in 1 .. F : /\ o.syms[3 + f] = Sym(unit.functions[f].name, "global", "func", "text", FunctionStart(unit, f))
                           /\ FunctionStart(unit, f) < Len(o.text)
    <2> TAKE f \in 1 .. F
    <2>1. f \in 1 .. N
      BY <1>4
    <2>2. symbols[f] = FunctionSymbol(f) /\ symbols[f].value < Len(text)
      BY <1>10
    <2>3. /\ FunctionSymbol(f).name = unit.functions[f].name /\ FunctionSymbol(f).value = FunctionStart(unit, f)
          /\ FunctionSymbol(f).defined = TRUE
      BY DEF FunctionSymbol
    <2> HIDE DEF unit
    <2>4. GlobalSym(symbols[f]) = Sym(unit.functions[f].name, "global", "func", "text", FunctionStart(unit, f))
      BY <2>2, <2>3 DEF GlobalSym
    <2> QED
      BY <1>7, <1>11, <2>1, <2>2, <2>3, <2>4
  <1>14. \A k \in 4 + F .. Len(o.syms) : /\ o.syms[k].bind = "global" /\ o.syms[k].section = "undef"
                                         /\ o.syms[k].name \in UsedBy(unit)
    <2> TAKE k \in 4 + F .. Len(o.syms)
    <2>1. k - 3 \in 1 .. N /\ k - 3 > F /\ 3 + (k - 3) = k
      BY <1>4, <1>5, <1>7
    <2>2. o.syms[k] = GlobalSym(symbols[k - 3]) /\ ~ symbols[k - 3].defined /\ symbols[k - 3].name \in UsedBy(unit)
      BY <1>7, <1>10, <1>11, <2>1
    <2> QED
      BY <2>2 DEF GlobalSym, Sym
  <1>15. \A n \in UsedBy(unit) : \E k \in 4 .. Len(o.syms) : o.syms[k].name = n
    <2> TAKE n \in UsedBy(unit)
    <2>1. Named(symbols, n)
      BY <1>1 DEF Inv, CompileInv, RelocInv
    <2>2. PICK k \in 1 .. N : symbols[k].name = n
      BY <1>4, <2>1 DEF Named
    <2>3. 3 + k \in 4 .. Len(o.syms)
      BY <1>4, <1>5, <1>7
    <2>4. o.syms[3 + k].name = n
      <3>1. \A d : GlobalSym(d).name = d.name
        BY DEF GlobalSym, Sym
      <3> QED
        BY <1>7, <1>11, <2>2, <3>1
    <2> QED
      BY <2>3, <2>4
  <1>16. Len(o.syms) >= 3 + F
    BY <1>4, <1>5, <1>7
  <1>17. ObjectOf(o, unit)
    BY <1>9, <1>12, <1>13, <1>14, <1>15, <1>16 DEF ObjectOf
  <1> QED
    BY <1>1, <1>8, <1>17

LEMMA WriteObjectKeeps == Inv /\ WriteObject => Inv'
  <1> SUFFICES ASSUME Inv, WriteObject PROVE Inv'
    OBVIOUS
  <1> DEFINE n == Len(objects)
  <1>1. /\ stage = "undefined" /\ stage' = (IF n + 1 = Len(units) THEN "read" ELSE "strings")
        /\ item' = 1 /\ at' = 1 /\ UNCHANGED <<units, symtab, image, error>>
        /\ rodata' = << >> /\ rodata_map' = << >>
        /\ text' = << >> /\ relocs' = << >> /\ fn_start_pc' = 0 /\ pc' = 0 /\ labels' = << >>
        /\ symbols' = << >> /\ symtab_entries' = LocalSyms
    BY DEF WriteObject, Stage, linker
  <1>2. PICK o \in Object : objects' = Append(objects, o) /\ ObjectOf(o, CurrentUnit)
    BY NewObject
  <1>3. /\ stage \in CompileStages /\ stage' \in {"read", "strings"} /\ stage' \notin SymbolStages
        /\ stage' \notin CodeStages /\ stage' \notin LinkStages
        /\ stage' \notin {"floats", "measure", "encode", "resolve", "defined", "undefined"}
        /\ stage' \in CompileStages \union {"read"}
    BY <1>1 DEF CompileStages, CodeStages, SymbolStages, LinkStages
  <1>4. /\ objects \in Seq(Object) /\ n \in Nat /\ n < Len(units) /\ Len(units) \in Nat
        /\ units \in Programs /\ DOMAIN units = 1 .. Len(units) /\ symtab = << >> /\ image = Image0
    BY <1>3, UnitFacts DEF Inv, Shape
  <1>5. /\ objects' \in Seq(Object) /\ Len(objects') = n + 1 /\ objects'[n + 1] = o
        /\ DOMAIN objects' = DOMAIN objects \union {n + 1} /\ \A i \in DOMAIN objects : objects'[i] = objects[i]
    BY <1>2, <1>4
  <1>6. /\ stage' = "read" => n + 1 = Len(units)
        /\ stage' = "strings" => n + 1 < Len(units)
    <2>1. stage' = "read" => n + 1 = Len(units)
      BY <1>1
    <2>2. stage' = "strings" => n + 1 # Len(units)
      BY <1>1
    <2>3. n \in Nat /\ n < Len(units) /\ Len(units) \in Nat
      BY <1>4
    <2> HIDE DEF n
    <2> QED BY <2>1, <2>2, <2>3
  <1>7. Shape'
    <2>1. /\ n + 1 <= Len(units) + 1
      BY <1>4
    <2>2. stage' = "read" \/ stage' = "strings"
      BY <1>3
    <2> HIDE DEF n
    <2>3. stage' \in CompileStages => stage' = "strings"
      BY <2>2 DEF CompileStages, CodeStages, SymbolStages
    <2>4. units' = units /\ symtab' = symtab /\ image' = image /\ at' = 1 /\ item' = 1
      BY <1>1
    <2>5. stage' \in CompileStages \union LinkStages \union {"read", "failed"}
      BY <1>3
    <2>6. /\ units' \in Programs /\ at' \in Nat \ {0} /\ item' \in Nat \ {0}
          /\ symtab' = << >> /\ image' = Image0
      BY <1>4, <2>4
    <2>7. objects' \in Seq(Object) /\ Len(objects') <= Len(units') + 1
      BY <1>5, <2>1, <2>4
    <2>8. stage' \in CompileStages => Len(objects') < Len(units')
      BY <1>5, <1>6, <2>3, <2>4
    <2>9. stage' = "read" => Len(objects') = Len(units')
      BY <1>5, <1>6, <2>4
    <2> QED
      BY <2>5, <2>6, <2>7, <2>8, <2>9 DEF Shape
  <1>8. LinkerTypes' /\ LinkInv'
    BY <1>1, <1>3, LinkerIdle
  <1>9. CompilerTypes'
    BY <1>1, LocalFacts DEF CompilerTypes
  <1>10. ObjectsInv'
    <2>1. CurrentUnit = units[n + 1]
      BY DEF CurrentUnit
    <2>2. \A i \in DOMAIN objects : i \in 1 .. n /\ i <= Len(units) /\ ObjectOf(objects[i], units[i])
      <3>1. \A i \in DOMAIN objects : i \in 1 .. n /\ i <= Len(units)
        BY <1>4
      <3> QED
        BY <3>1 DEF Inv, ObjectsInv
    <2>3. ~ (n + 1 > Len(units)) /\ \A i \in DOMAIN objects : ~ (i > Len(units))
      BY <1>4, <2>2
    <2> HIDE DEF n
    <2>4. \A i \in DOMAIN objects' : ObjectOf(objects'[i], units[i]) /\ ~ (i > Len(units))
      BY <1>2, <1>5, <2>1, <2>2, <2>3
    <2>5. units' = units
      BY <1>1
    <2> QED
      BY <1>3, <2>4, <2>5 DEF ObjectsInv
  <1>11. DataInv'
    <2> SUFFICES ASSUME stage' = "strings"
                 PROVE  item' <= Len(Strings(CurrentUnit')) + 1 /\ Len(rodata_map') = item' - 1
      BY <1>1, <1>3 DEF DataInv, CompileStages
    <2>1. IsUnit(CurrentUnit)'
      <3>1. n + 1 + 1 \in DOMAIN units
        BY <1>4, <1>6
      <3>2. CurrentUnit' = units[n + 1 + 1]
        BY <1>1, <1>5 DEF CurrentUnit
      <3>3. IsUnit(units[n + 1 + 1])
        BY <1>4, <3>1, UnitFacts
      <3> QED
        BY <3>2, <3>3
    <2>2. Len(Strings(CurrentUnit')) \in Nat
      BY <2>1, ConstantFacts
    <2> QED
      BY <1>1, <2>2
  <1>12. PositionInv'
    BY <1>1, <1>3 DEF PositionInv
  <1>13. SymbolInv'
    BY <1>1, <1>3 DEF SymbolInv
  <1>14. RelocInv'
    BY <1>1, <1>3 DEF RelocInv
  <1>15. SymtabInv'
    <2>1. Written' = 0
      BY <1>3 DEF Written
    <2> QED
      BY <1>1, <1>3, <2>1, LocalFacts DEF SymtabInv
  <1> QED
    BY <1>7, <1>8, <1>9, <1>10, <1>11, <1>12, <1>13, <1>14, <1>15 DEF Inv, CompileInv

-----------------------------------------------------------------------------
(* The startup object.                                                     *)

LEMMA StartupUnitFacts ==
  /\ Len(StartupUnit.functions) = 5 /\ DOMAIN StartupUnit.functions = 1 .. 5
  /\ StartupUnit.functions[1].name = "_start" /\ StartupUnit.functions[2].name = "exit"
  /\ StartupUnit.functions[3].name = "malloc" /\ StartupUnit.functions[4].name = "free"
  /\ StartupUnit.functions[5].name = "printf"
  <1> DEFINE l1 == <<Instr("lea", MemBase(RSP, Extended(<<8>>, 8), 8), Register(6, 8)),
                     Instr("call", Symbol("main"), NoOperand),
                     Instr("mov", Register(0, 8), Register(7, 8))>>
             l2 == <<Instr("mov", Immediate(Extended(<<60>>, 8), 8), Register(0, 8))>>
             f1 == [name |-> "_start", list |-> l1]
             f2 == [name |-> "exit", list |-> l2]
             fs == <<f1, f2, Plain("malloc"), Plain("free"), Plain("printf")>>
  <1>1. StartupUnit = [functions |-> fs, strings |-> << >>, floats |-> << >>]
    BY DEF StartupUnit
  <1> HIDE DEF l1, l2
  <1>2. f1.name = "_start" /\ f2.name = "exit" /\ \A n : Plain(n).name = n
    BY DEF Plain
  <1> HIDE DEF f1, f2
  <1>3. Len(fs) = 5 /\ DOMAIN fs = 1 .. 5 /\ fs[1] = f1 /\ fs[2] = f2 /\ fs[3] = Plain("malloc")
        /\ fs[4] = Plain("free") /\ fs[5] = Plain("printf")
    OBVIOUS
  <1> HIDE DEF fs
  <1>4. StartupUnit.functions = fs
    BY <1>1
  <1> QED
    BY <1>2, <1>3, <1>4

LEMMA StartupSyms ==
  /\ StartupObject.syms \in Seq(SymRecord) /\ Len(StartupObject.syms) = 9
  /\ \A k \in 1 .. 3 : StartupObject.syms[k] = LocalSyms[k]
  /\ StartupObject.syms[4] = Sym("_start", "global", "func", "text", 0)
  /\ StartupObject.syms[5] = Sym("exit", "global", "func", "text", 13)
  /\ StartupObject.syms[6] = Sym("malloc", "global", "func", "text", 20)
  /\ StartupObject.syms[7] = Sym("free", "global", "func", "text", 21)
  /\ StartupObject.syms[8] = Sym("printf", "global", "func", "text", 22)
  /\ StartupObject.syms[9] = Sym("main", "global", "notype", "undef", 0)
  <1> DEFINE function(name, value) == [name |-> name, value |-> value, defined |-> TRUE]
             main == [name |-> "main", value |-> 0, defined |-> FALSE]
             T == StartupSymbols
             g == [k \in DOMAIN T |-> GlobalSym(T[k])]
  <1>1. \A name, value : GlobalSym(function(name, value)) = Sym(name, "global", "func", "text", value)
    BY DEF GlobalSym
  <1>2. GlobalSym(main) = Sym("main", "global", "notype", "undef", 0)
    BY DEF GlobalSym
  <1>3. T = <<function("_start", 0), function("exit", 13), function("malloc", 20), function("free", 21),
              function("printf", 22), main>>
    BY DEF StartupSymbols
  <1> HIDE DEF function, main, T
  <1>4. /\ DOMAIN T = 1 .. 6 /\ T[1] = function("_start", 0) /\ T[2] = function("exit", 13)
        /\ T[3] = function("malloc", 20) /\ T[4] = function("free", 21) /\ T[5] = function("printf", 22)
        /\ T[6] = main
    BY <1>3
  <1>5. /\ DOMAIN g = 1 .. 6
        /\ g[1] = Sym("_start", "global", "func", "text", 0)
        /\ g[2] = Sym("exit", "global", "func", "text", 13)
        /\ g[3] = Sym("malloc", "global", "func", "text", 20)
        /\ g[4] = Sym("free", "global", "func", "text", 21)
        /\ g[5] = Sym("printf", "global", "func", "text", 22)
        /\ g[6] = Sym("main", "global", "notype", "undef", 0)
    BY <1>1, <1>2, <1>4
  <1>6. \A k \in 1 .. 6 : g[k] \in SymRecord
    <2>1. {"_start", "exit", "malloc", "free", "printf", "main"} \subseteq Names
      BY DEF Names
    <2>2. \A n \in Names, v \in Nat : /\ Sym(n, "global", "func", "text", v) \in SymRecord
                                     /\ Sym(n, "global", "notype", "undef", v) \in SymRecord
      BY DEF Sym, SymRecord, Sections
    <2>3. g[1] \in SymRecord /\ g[2] \in SymRecord /\ g[3] \in SymRecord
      BY <1>5, <2>1, <2>2
    <2>4. g[4] \in SymRecord /\ g[5] \in SymRecord /\ g[6] \in SymRecord
      BY <1>5, <2>1, <2>2
    <2> HIDE DEF g
    <2>5. \A k \in 1 .. 6 : k = 1 \/ k = 2 \/ k = 3 \/ k = 4 \/ k = 5 \/ k = 6
      OBVIOUS
    <2> QED
      BY <2>3, <2>4, <2>5
  <1>7. g = [k \in 1 .. 6 |-> g[k]]
    BY <1>4
  <1>8. StartupObject.syms = LocalSyms \o g
    BY DEF StartupObject, T
  <1> HIDE DEF g
  <1>9. g \in [1 .. 6 -> SymRecord]
    BY <1>6, <1>7
  <1>10. g \in Seq(SymRecord) /\ Len(g) = 6
    BY <1>9, FcnSeq
  <1>11. /\ StartupObject.syms \in Seq(SymRecord) /\ Len(StartupObject.syms) = 9
         /\ \A k \in 1 .. 3 : StartupObject.syms[k] = LocalSyms[k]
         /\ \A k \in 1 .. 6 : StartupObject.syms[3 + k] = g[k]
    <2> DEFINE l == LocalSyms
    <2>1. l \in Seq(SymRecord) /\ Len(l) = 3
      BY LocalFacts
    <2> HIDE DEF l
    <2> DEFINE c == l \o g
    <2>2. /\ c \in Seq(SymRecord) /\ Len(c) = Len(l) + Len(g)
          /\ \A k \in 1 .. Len(l) : c[k] = l[k]
          /\ \A k \in 1 .. Len(g) : c[Len(l) + k] = g[k]
      <3>1. l \in Seq(SymRecord) /\ g \in Seq(SymRecord)
        BY <1>10, <2>1
      <3> QED
        BY <3>1, CatAt
    <2>3. StartupObject.syms = c
      BY <1>8 DEF l
    <2> HIDE DEF c
    <2>4. Len(c) = 9 /\ (\A k \in 1 .. 3 : c[k] = l[k]) /\ (\A k \in 1 .. 6 : c[3 + k] = g[k])
      BY <1>10, <2>1, <2>2
    <2> QED
      BY <2>2, <2>3, <2>4 DEF l
  <1> QED
    BY <1>5, <1>11

LEMMA StartupObjectFacts ==
  /\ StartupObject \in Object /\ Len(StartupObject.text) = 23 /\ ValidObject(StartupObject)
  <1> DEFINE r == [offset |-> 6, sym |-> 8, type |-> "PLT32", addend |-> -4]
             o == StartupObject
  <1>1. o.text = StartupText /\ o.rodata = << >> /\ o.relas = <<r>>
        /\ o = [text |-> o.text, rodata |-> o.rodata, syms |-> o.syms, relas |-> o.relas]
    BY DEF StartupObject
  <1>2. StartupText \in Seq(Byte) /\ Len(StartupText) = 23
    <2> DEFINE a == <<72, 141, 116, 36, 8, 232, 0, 0, 0, 0, 72, 137, 199, 72, 199, 192, 60, 0, 0, 0, 195, 195, 195>>
    <2>1. a \in Seq(Byte) /\ Len(a) = 23
      BY SMT DEF Byte
    <2> QED
      BY <2>1 DEF StartupText
  <1>3. r \in Rela /\ r.offset = 6 /\ r.sym = 8
    BY DEF Rela
  <1> HIDE DEF r, o
  <1>4. <<r>> \in Seq(Rela)
    BY <1>3
  <1>5. o.syms \in Seq(SymRecord) /\ Len(o.syms) = 9
    BY StartupSyms DEF o
  <1>6. o.rodata \in Seq(Cell)
    BY <1>1
  <1>7. o \in Object
    BY <1>1, <1>2, <1>4, <1>5, <1>6 DEF Object
  <1>8. ValidObject(o)
    BY <1>1, <1>2, <1>3, <1>5 DEF ValidObject
  <1> QED
    BY <1>1, <1>2, <1>7, <1>8 DEF o

-----------------------------------------------------------------------------
(* Linking: what the objects define and need.                              *)

LEMMA CompilerIdle ==
  ASSUME Inv, stage' \in LinkStages \union {"failed"}, UNCHANGED compiler
  PROVE  CompilerTypes' /\ CompileInv'
  <1>1. /\ UNCHANGED <<rodata, rodata_map, text, relocs, fn_start_pc, pc, labels, symbols, symtab_entries>>
    BY DEF compiler, data, code
  <1>2. /\ stage' \notin CompileStages /\ stage' \notin CodeStages /\ stage' \notin SymbolStages
        /\ stage' \notin {"strings", "floats", "measure", "encode", "resolve", "defined", "undefined"}
    BY DEF LinkStages, CompileStages, CodeStages, SymbolStages
  <1>3. CompilerTypes'
    BY <1>1 DEF Inv, CompilerTypes
  <1>4. DataInv' /\ PositionInv' /\ SymbolInv' /\ RelocInv' /\ SymtabInv'
    BY <1>2 DEF DataInv, PositionInv, SymbolInv, RelocInv, SymtabInv
  <1> QED
    BY <1>3, <1>4 DEF CompileInv

(* The symbols of object i: the local ones, the functions of its unit, and *)
(* what it needs from others.                                              *)
FunctionCount(i) == Len(UnitOf(i).functions)

LEMMA ObjectSyms ==
  ASSUME Inv, NEW i \in DOMAIN objects
  PROVE  /\ i \in Nat /\ FunctionCount(i) \in Nat /\ DOMAIN UnitOf(i).functions = 1 .. FunctionCount(i)
         /\ objects[i] \in Object /\ ValidObject(objects[i])
         /\ IsList(objects[i].syms) /\ 3 + FunctionCount(i) <= Len(objects[i].syms)
         /\ \A k \in DOMAIN objects[i].syms :
               /\ k \in Nat /\ objects[i].syms[k] \in SymRecord
               /\ k <= 3 => objects[i].syms[k] = LocalSyms[k]
               /\ k > 3 => objects[i].syms[k].bind = "global"
               /\ k > 3 /\ k - 3 <= FunctionCount(i) =>
                     /\ objects[i].syms[k].section = "text"
                     /\ objects[i].syms[k].name = UnitOf(i).functions[k - 3].name
                     /\ objects[i].syms[k].value < Len(objects[i].text)
               /\ k - 3 > FunctionCount(i) =>
                     /\ objects[i].syms[k].section = "undef"
                     /\ objects[i].syms[k].name \in (IF i <= Len(units) THEN UsedBy(units[i]) ELSE {"main"})
  <1> DEFINE o == objects[i]
             F == FunctionCount(i)
             syms == o.syms
  <1>1. objects \in Seq(Object) /\ units \in Programs
    BY DEF Inv, Shape
  <1>2. i \in Nat /\ i > 0 /\ o \in Object
    BY <1>1
  <1>3. Len(units) \in Nat /\ DOMAIN units = 1 .. Len(units) /\ \A j \in DOMAIN units : IsUnit(units[j])
    BY <1>1, UnitFacts
  <1>4. syms \in Seq(SymRecord)
    BY <1>2 DEF Object
  <1>5. IsList(syms) /\ Len(syms) \in Nat /\ DOMAIN syms = 1 .. Len(syms) /\ \A k \in DOMAIN syms : syms[k] \in SymRecord
    BY <1>4, SeqAt
  <1>6. CASE i <= Len(units)
    <2> DEFINE unit == units[i]
    <2>1. UnitOf(i) = unit /\ IsUnit(unit)
      BY <1>2, <1>3, <1>6 DEF UnitOf
    <2>2. F = Len(unit.functions) /\ F \in Nat /\ DOMAIN unit.functions = 1 .. F
      BY <2>1 DEF FunctionCount, IsUnit, IsList
    <2>3. ObjectOf(o, unit)
      BY <1>6 DEF Inv, ObjectsInv
    <2>4. /\ Len(syms) >= 3 + F /\ ValidObject(o)
          /\ \A k \in 1 .. 3 : syms[k] = LocalSyms[k]
          /\ \A f \in 1 .. F : /\ syms[3 + f] = Sym(unit.functions[f].name, "global", "func", "text",
                                                    FunctionStart(unit, f))
                               /\ FunctionStart(unit, f) < Len(o.text)
          /\ \A k \in 4 + F .. Len(syms) : /\ syms[k].bind = "global" /\ syms[k].section = "undef"
                                           /\ syms[k].name \in UsedBy(unit)
      BY <2>2, <2>3 DEF ObjectOf
    <2> HIDE DEF o, F, syms, unit
    <2>5. ASSUME NEW k \in DOMAIN syms
          PROVE  /\ k \in Nat /\ syms[k] \in SymRecord
                 /\ k <= 3 => syms[k] = LocalSyms[k]
                 /\ k > 3 => syms[k].bind = "global"
                 /\ k > 3 /\ k - 3 <= F =>
                       /\ syms[k].section = "text" /\ syms[k].name = unit.functions[k - 3].name
                       /\ syms[k].value < Len(o.text)
                 /\ k - 3 > F => syms[k].section = "undef" /\ syms[k].name \in UsedBy(unit)
      <3>1. k \in 1 .. Len(syms) /\ syms[k] \in SymRecord
        BY <1>5
      <3>2. CASE k <= 3
        <4>1. k \in 1 .. 3 /\ ~ (k > 3) /\ ~ (k - 3 > F)
          BY <1>5, <2>2, <3>1, <3>2
        <4> QED
          BY <2>4, <3>1, <4>1
      <3>3. CASE k > 3 /\ k - 3 <= F
        <4>1. k - 3 \in 1 .. F /\ 3 + (k - 3) = k /\ ~ (k <= 3) /\ ~ (k - 3 > F)
          BY <1>5, <2>2, <3>1, <3>3
        <4>2. syms[k] = Sym(unit.functions[k - 3].name, "global", "func", "text", FunctionStart(unit, k - 3))
              /\ FunctionStart(unit, k - 3) < Len(o.text)
          BY <2>4, <4>1
        <4>3. \A n, v : Sym(n, "global", "func", "text", v).bind = "global" /\ Sym(n, "global", "func", "text", v).section = "text"
                        /\ Sym(n, "global", "func", "text", v).name = n /\ Sym(n, "global", "func", "text", v).value = v
          BY DEF Sym
        <4> QED
          BY <3>1, <4>1, <4>2, <4>3
      <3>4. CASE k - 3 > F
        <4>1. k \in 4 + F .. Len(syms) /\ ~ (k <= 3) /\ ~ (k - 3 <= F)
          BY <1>5, <2>2, <3>1, <3>4
        <4> QED
          BY <2>4, <3>1, <4>1
      <3> QED
        BY <1>5, <2>2, <3>1, <3>2, <3>3, <3>4
    <2>6. 3 + F <= Len(syms)
      BY <1>5, <2>2, <2>4
    <2> QED
      BY <1>2, <1>5, <1>6, <2>1, <2>2, <2>4, <2>5, <2>6 DEF unit, o, F, syms
  <1>7. CASE ~ (i <= Len(units))
    <2>1. o = StartupObject
      BY <1>2, <1>3, <1>7 DEF Inv, ObjectsInv
    <2>2. UnitOf(i) = StartupUnit /\ F = 5 /\ DOMAIN StartupUnit.functions = 1 .. 5
      BY <1>7, StartupUnitFacts DEF UnitOf, FunctionCount
    <2>3. Len(syms) = 9 /\ DOMAIN syms = 1 .. 9 /\ Len(o.text) = 23 /\ ValidObject(o)
      BY <1>5, <2>1, StartupSyms, StartupObjectFacts
    <2> DEFINE Fn(k, n, v) == /\ syms[k].bind = "global" /\ syms[k].section = "text" /\ syms[k].name = n
                              /\ StartupUnit.functions[k - 3].name = n /\ syms[k].value = v
    <2>4. Fn(4, "_start", 0) /\ Fn(5, "exit", 13) /\ Fn(6, "malloc", 20) /\ Fn(7, "free", 21) /\ Fn(8, "printf", 22)
      BY <2>1, StartupSyms, StartupUnitFacts DEF Sym
    <2>5. syms[9].bind = "global" /\ syms[9].section = "undef" /\ syms[9].name = "main"
      BY <2>1, StartupSyms DEF Sym
    <2>6. \A k \in 1 .. 3 : syms[k] = LocalSyms[k]
      BY <2>1, StartupSyms
    <2> HIDE DEF o, F, syms
    <2>7. ASSUME NEW k \in 1 .. 9
          PROVE  /\ k <= 3 => syms[k] = LocalSyms[k]
                 /\ k > 3 => syms[k].bind = "global"
                 /\ k > 3 /\ k - 3 <= 5 =>
                       /\ syms[k].section = "text" /\ syms[k].name = StartupUnit.functions[k - 3].name
                       /\ syms[k].value < 23
                 /\ k - 3 > 5 => syms[k].section = "undef" /\ syms[k].name \in {"main"}
      <3>1. CASE k \in 1 .. 3
        BY <2>6, <3>1
      <3>2. CASE k = 4 \/ k = 5
        BY <2>4, <3>2
      <3>3. CASE k = 6 \/ k = 7 \/ k = 8
        BY <2>4, <3>3
      <3>4. CASE k = 9
        BY <2>5, <3>4
      <3>5. k \in 1 .. 3 \/ k = 4 \/ k = 5 \/ k = 6 \/ k = 7 \/ k = 8 \/ k = 9
        OBVIOUS
      <3> QED
        BY <3>1, <3>2, <3>3, <3>4, <3>5
    <2> HIDE DEF Fn
    <2>8. \A k \in DOMAIN syms : k \in Nat
      BY <2>3
    <2>9. 3 + F <= Len(syms) /\ F \in Nat
      BY <2>2, <2>3
    <2> QED
      BY <1>2, <1>5, <1>7, <2>2, <2>3, <2>7, <2>8, <2>9 DEF o, F, syms
  <1> QED
    BY <1>6, <1>7

(* What depends on the program alone.                                      *)
LEMMA SameProgram ==
  ASSUME UNCHANGED units
  PROVE  /\ \A n : Definitions(n)' = Definitions(n) /\ DefinitionCount(n)' = DefinitionCount(n)
         /\ WithStartup' = WithStartup /\ NamesUsed' = NamesUsed /\ NamesDefined' = NamesDefined
         /\ \A i : UnitOf(i)' = UnitOf(i) /\ FunctionCount(i)' = FunctionCount(i)
         /\ Linkable' = Linkable /\ EntryName' = EntryName
  BY DEF Definitions, FunctionsOf, NameOf, UnitOf, DefinitionCount, WithStartup, NamesUsed, NamesDefined,
         FunctionCount, Linkable, EntryName

LEMMA PairFacts ==
  ASSUME units \in Programs
  PROVE  /\ \A w : w \in FunctionsOf(Len(units)) <=>
               \E i \in 1 .. Len(units) : \E f \in 1 .. FunctionCount(i) : w = <<i, f>>
         /\ \A i \in 1 .. Len(units) : UnitOf(i) = units[i] /\ FunctionCount(i) \in Nat
         /\ \A i, f : NameOf(<<i, f>>) = UnitOf(i).functions[f].name
  <1>1. Len(units) \in Nat /\ \A i \in 1 .. Len(units) : IsUnit(units[i])
    BY UnitFacts
  <1>2. \A i \in 1 .. Len(units) : UnitOf(i) = units[i]
    BY <1>1 DEF UnitOf
  <1>3. \A i \in 1 .. Len(units) : FunctionCount(i) \in Nat /\ DOMAIN UnitOf(i).functions = 1 .. FunctionCount(i)
    BY <1>1, <1>2 DEF FunctionCount, IsUnit, IsList
  <1>4. \A w : w \in FunctionsOf(Len(units)) <=>
               \E i \in 1 .. Len(units) : \E f \in 1 .. FunctionCount(i) : w = <<i, f>>
    <2> TAKE w
    <2>1. w \in FunctionsOf(Len(units)) <=> \E i \in 1 .. Len(units) : w \in {i} \X DOMAIN UnitOf(i).functions
      BY DEF FunctionsOf
    <2>2. \A i \in 1 .. Len(units) : w \in {i} \X DOMAIN UnitOf(i).functions <=>
               \E f \in 1 .. FunctionCount(i) : w = <<i, f>>
      BY <1>3
    <2> QED
      BY <2>1, <2>2
  <1> QED
    BY <1>2, <1>3, <1>4 DEF NameOf

LEMMA DefinitionFacts ==
  ASSUME units \in Programs, NEW n
  PROVE  /\ \A w : w \in Definitions(n) <=>
               \E i \in 1 .. Len(units) : \E f \in 1 .. FunctionCount(i) :
                  w = <<i, f>> /\ UnitOf(i).functions[f].name = n
         /\ n \in NamesDefined <=> Definitions(n) # {}
  <1>1. \A w : w \in FunctionsOf(Len(units)) <=>
               \E i \in 1 .. Len(units) : \E f \in 1 .. FunctionCount(i) : w = <<i, f>>
    BY PairFacts
  <1>2. \A i, f : NameOf(<<i, f>>) = UnitOf(i).functions[f].name
    BY PairFacts
  <1>3. \A w : w \in Definitions(n) <=> w \in FunctionsOf(Len(units)) /\ NameOf(w) = n
    BY DEF Definitions
  <1>4. n \in NamesDefined <=> \E w \in FunctionsOf(Len(units)) : NameOf(w) = n
    BY DEF NamesDefined
  <1> QED
    BY <1>1, <1>2, <1>3, <1>4

LEMMA FiniteDefinitions ==
  ASSUME units \in Programs, NEW n
  PROVE  IsFiniteSet(Definitions(n))
  <1> DEFINE N == Len(units)
  <1>1. N \in Nat /\ \A i \in 1 .. N : FunctionCount(i) \in Nat
    BY PairFacts, UnitFacts
  <1> HIDE DEF N
  <1> DEFINE D == Definitions(n)
             T == {k \in 0 .. N : ~ IsFiniteSet({w \in D : w[1] <= k})}
  <1>2. \A w \in D : \E i \in 1 .. N : \E f \in 1 .. FunctionCount(i) : w = <<i, f>>
    BY DefinitionFacts DEF N
  <1> HIDE DEF D
  <1>3. T = {}
    <2> SUFFICES ASSUME T # {} PROVE FALSE
      OBVIOUS
    <2>1. T \subseteq Nat
      BY <1>1
    <2>2. PICK k \in T : \A j \in T : k <= j
      <3> HIDE DEF T
      <3> QED BY <2>1, LeastNat
    <2>3. k # 0
      <3>1. {w \in D : w[1] <= 0} = {}
        BY <1>1, <1>2
      <3> QED
        BY <2>2, <3>1, FS_EmptySet
    <2>4. k - 1 \in 0 .. N /\ k \in 1 .. N /\ k - 1 \notin T
      <3>1. k \in 0 .. N
        BY <2>2
      <3> HIDE DEF T
      <3> QED BY <1>1, <2>2, <2>3, <3>1
    <2> DEFINE A == {w \in D : w[1] <= k - 1}
               B == {w \in D : w[1] = k}
               h == [w \in B |-> w[2]]
    <2>5. IsFiniteSet(A)
      BY <2>4
    <2>6. h \in Injection(B, 1 .. FunctionCount(k))
      <3>1. \A w \in B : w[2] \in 1 .. FunctionCount(k) /\ w = <<k, w[2]>>
        BY <1>2, <2>4
      <3> HIDE DEF B
      <3> QED
        BY <3>1 DEF Injection, IsInjective
    <2>7. IsFiniteSet(1 .. FunctionCount(k))
      BY <1>1, <2>4, FS_Interval
    <2>8. IsFiniteSet(B)
      <3> HIDE DEF B, h
      <3> QED BY <2>6, <2>7, FS_Injection
    <2>9. {w \in D : w[1] <= k} = A \union B
      BY <1>1, <1>2, <2>4
    <2> HIDE DEF A, B, h
    <2>10. IsFiniteSet(A \union B)
      BY <2>5, <2>8, FS_Union
    <2> QED
      BY <2>2, <2>9, <2>10
  <1>4. {w \in D : w[1] <= N} = D
    BY <1>1, <1>2
  <1>5. N \notin T /\ N \in 0 .. N
    <2> HIDE DEF T
    <2> QED BY <1>1, <1>3
  <1> QED
    BY <1>4, <1>5 DEF D

(* How often a name is defined.                                            *)
LEMMA CountFacts ==
  ASSUME units \in Programs, NEW n
  PROVE  /\ Definitions(n) = {} /\ ~ (WithStartup /\ n \in StartupNames) => DefinitionCount(n) = 0
         /\ Definitions(n) = {} /\ WithStartup /\ n \in StartupNames => DefinitionCount(n) = 1
         /\ (\E w : Definitions(n) = {w}) /\ ~ (WithStartup /\ n \in StartupNames) => DefinitionCount(n) = 1
         /\ \A v, w \in Definitions(n) : v # w => DefinitionCount(n) > 1
         /\ Definitions(n) # {} /\ WithStartup /\ n \in StartupNames => DefinitionCount(n) > 1
  <1> DEFINE D == Definitions(n)
             c == Cardinality(D)
             b == WithStartup /\ n \in StartupNames
  <1>1. IsFiniteSet(D)
    BY FiniteDefinitions
  <1>2. DefinitionCount(n) = c + (IF b THEN 1 ELSE 0)
    BY DEF DefinitionCount
  <1> HIDE DEF D, b
  <1>3. c \in Nat /\ (c = 0 <=> D = {})
    BY <1>1, FS_CardinalityType, FS_EmptySet
  <1>4. (\E w : D = {w}) => c = 1
    BY FS_Singleton
  <1>5. ASSUME NEW v \in D, NEW w \in D, v # w PROVE c > 1
    <2> DEFINE A == D \ {v}
    <2>1. IsFiniteSet(A) /\ Cardinality(A) = c - 1
      BY <1>1, FS_RemoveElement
    <2>2. A # {}
      BY <1>5
    <2> HIDE DEF A
    <2>3. Cardinality(A) \in Nat /\ Cardinality(A) # 0
      BY <2>1, <2>2, FS_CardinalityType, FS_EmptySet
    <2> QED
      BY <1>3, <2>1, <2>3
  <1> HIDE DEF c
  <1>6. /\ D = {} /\ ~ b => DefinitionCount(n) = 0
        /\ D = {} /\ b => DefinitionCount(n) = 1
        /\ (\E w : D = {w}) /\ ~ b => DefinitionCount(n) = 1
        /\ \A v, w \in D : v # w => DefinitionCount(n) > 1
        /\ D # {} /\ b => DefinitionCount(n) > 1
    BY <1>2, <1>3, <1>4, <1>5
  <1> QED
    BY <1>6 DEF D, b

(* Function f of object i has the name n.                                  *)
HasFunction(i, f, n) ==
    i \in DOMAIN objects /\ f \in 1 .. FunctionCount(i) /\ UnitOf(i).functions[f].name = n

LEMMA OwnerFacts ==
  ASSUME Inv, stage \in LinkStages, NEW n
  PROVE  /\ \A i, f : i <= Len(units) => (HasFunction(i, f, n) <=> <<i, f>> \in Definitions(n))
         /\ \A i, f : HasFunction(i, f, n) /\ ~ (i <= Len(units)) =>
               i = Len(units) + 1 /\ WithStartup /\ n \in StartupNames
         /\ WithStartup /\ n \in StartupNames => \E f : HasFunction(Len(units) + 1, f, n)
         /\ \A i, f, g : HasFunction(i, f, n) /\ HasFunction(i, g, n) /\ ~ (i <= Len(units)) => f = g
         /\ \A w \in Definitions(n) : \E i, f : w = <<i, f>> /\ i <= Len(units) /\ HasFunction(i, f, n)
  <1> DEFINE N == Len(units)
             S == Len(objects)
  <1>1. units \in Programs /\ objects \in Seq(Object) /\ S = N + (IF WithStartup THEN 1 ELSE 0)
    BY DEF Inv, Shape, ObjectsInv
  <1>2. N \in Nat /\ S \in Nat /\ DOMAIN objects = 1 .. S
    BY <1>1, UnitFacts
  <1>3. /\ \A w : w \in Definitions(n) <=>
               \E i \in 1 .. N : \E f \in 1 .. FunctionCount(i) : w = <<i, f>> /\ UnitOf(i).functions[f].name = n
    BY <1>1, DefinitionFacts
  <1>4. \A i : ~ (i <= N) => FunctionCount(i) = 5 /\ UnitOf(i) = StartupUnit
    BY StartupUnitFacts DEF FunctionCount, UnitOf
  <1>5. n \in StartupNames <=> \E f \in 1 .. 5 : StartupUnit.functions[f].name = n
    BY StartupUnitFacts DEF StartupNames
  <1>6. \A f, g \in 1 .. 5 : StartupUnit.functions[f].name = StartupUnit.functions[g].name => f = g
    <2> DEFINE h(f) == StartupUnit.functions[f].name
    <2>1. h(1) = "_start" /\ h(2) = "exit" /\ h(3) = "malloc" /\ h(4) = "free" /\ h(5) = "printf"
      BY StartupUnitFacts
    <2> SUFFICES ASSUME NEW f \in 1 .. 5, NEW g \in 1 .. 5, h(f) = h(g) PROVE f = g
      OBVIOUS
    <2>2. (f = 1 \/ f = 2 \/ f = 3 \/ f = 4 \/ f = 5) /\ (g = 1 \/ g = 2 \/ g = 3 \/ g = 4 \/ g = 5)
      OBVIOUS
    <2> QED
      BY <2>1, <2>2
  <1> HIDE DEF N, S
  <1>7. 1 .. N \subseteq DOMAIN objects /\ \A i \in DOMAIN objects : i <= N => i \in 1 .. N
    BY <1>1, <1>2
  <1>8. \A i \in DOMAIN objects : ~ (i <= N) => WithStartup /\ i = N + 1
    BY <1>1, <1>2
  <1>9. WithStartup => N + 1 \in DOMAIN objects /\ ~ (N + 1 <= N)
    BY <1>1, <1>2
  <1>10. \A i, f : i <= N => (HasFunction(i, f, n) <=> <<i, f>> \in Definitions(n))
    BY <1>3, <1>7 DEF HasFunction
  <1>11. \A i, f : HasFunction(i, f, n) /\ ~ (i <= N) => i = N + 1 /\ WithStartup /\ n \in StartupNames
    BY <1>4, <1>5, <1>8 DEF HasFunction
  <1>12. WithStartup /\ n \in StartupNames => \E f : HasFunction(N + 1, f, n)
    BY <1>4, <1>5, <1>9 DEF HasFunction
  <1>13. \A i, f, g : HasFunction(i, f, n) /\ HasFunction(i, g, n) /\ ~ (i <= N) => f = g
    BY <1>4, <1>6 DEF HasFunction
  <1>14. \A w \in Definitions(n) : \E i, f : w = <<i, f>> /\ i <= N /\ HasFunction(i, f, n)
    <2> TAKE w \in Definitions(n)
    <2>1. PICK i \in 1 .. N : \E f \in 1 .. FunctionCount(i) : w = <<i, f>> /\ UnitOf(i).functions[f].name = n
      BY <1>3
    <2>2. PICK f : w = <<i, f>>
      BY <2>1
    <2>3. i <= N
      BY <1>2, <2>1
    <2>4. HasFunction(i, f, n)
      BY <1>10, <2>2, <2>3
    <2> QED
      BY <2>2, <2>3, <2>4
  <1> QED
    BY <1>10, <1>11, <1>12, <1>13, <1>14 DEF N

(* No function, one function, two functions with a name.                   *)
LEMMA CountByOwners ==
  ASSUME Inv, stage \in LinkStages, NEW n
  PROVE  /\ (~ \E i, f : HasFunction(i, f, n)) => DefinitionCount(n) = 0
         /\ \A i, f : HasFunction(i, f, n) /\ (\A j, g : HasFunction(j, g, n) => j = i /\ g = f)
               => DefinitionCount(n) = 1
         /\ \A i, f, j, g : HasFunction(i, f, n) /\ HasFunction(j, g, n) /\ ~ (i = j /\ f = g)
               => DefinitionCount(n) > 1 /\ n \in NamesDefined
  <1> DEFINE N == Len(units)
             D == Definitions(n)
             b == WithStartup /\ n \in StartupNames
             Count == DefinitionCount(n)
  <1>1. units \in Programs /\ N \in Nat
    BY UnitFacts DEF Inv, Shape
  <1>2. /\ D = {} /\ ~ b => Count = 0
        /\ D = {} /\ b => Count = 1
        /\ (\E w : D = {w}) /\ ~ b => Count = 1
        /\ \A v, w \in D : v # w => Count > 1
        /\ D # {} /\ b => Count > 1
    BY <1>1, CountFacts
  <1>3. n \in NamesDefined <=> D # {}
    BY <1>1, DefinitionFacts
  <1>4. /\ \A i, f : i <= N => (HasFunction(i, f, n) <=> <<i, f>> \in D)
        /\ \A i, f : HasFunction(i, f, n) /\ ~ (i <= N) => i = N + 1 /\ b
        /\ b => \E f : HasFunction(N + 1, f, n)
        /\ \A i, f, g : HasFunction(i, f, n) /\ HasFunction(i, g, n) /\ ~ (i <= N) => f = g
        /\ \A w \in D : \E i, f : w = <<i, f>> /\ i <= N /\ HasFunction(i, f, n)
    BY OwnerFacts
  <1>5. ~ (N + 1 <= N)
    BY <1>1
  <1> HIDE DEF N, D, b, Count
  <1>6. (~ \E i, f : HasFunction(i, f, n)) => Count = 0
    BY <1>2, <1>4
  <1>7. ASSUME NEW i, NEW f, HasFunction(i, f, n), \A j, g : HasFunction(j, g, n) => j = i /\ g = f
        PROVE  Count = 1
    <2>1. CASE i <= N
      <3>1. D = {<<i, f>>}
        BY <1>4, <1>7, <2>1
      <3>2. ~ b
        BY <1>4, <1>5, <1>7, <2>1
      <3> QED
        BY <1>2, <3>1, <3>2
    <2>2. CASE ~ (i <= N)
      <3>1. D = {} /\ b
        BY <1>4, <1>7, <2>2
      <3> QED
        BY <1>2, <3>1
    <2> QED
      BY <2>1, <2>2
  <1>8. ASSUME NEW i, NEW f, NEW j, NEW g, HasFunction(i, f, n), HasFunction(j, g, n), ~ (i = j /\ f = g)
        PROVE  Count > 1 /\ D # {}
    <2>1. CASE i <= N /\ j <= N
      <3>1. <<i, f>> \in D /\ <<j, g>> \in D /\ <<i, f>> # <<j, g>>
        BY <1>4, <1>8, <2>1
      <3> QED
        BY <1>2, <3>1
    <2>2. CASE i <= N /\ ~ (j <= N)
      <3>1. <<i, f>> \in D /\ b
        BY <1>4, <1>8, <2>2
      <3> QED
        BY <1>2, <3>1
    <2>3. CASE ~ (i <= N) /\ j <= N
      <3>1. <<j, g>> \in D /\ b
        BY <1>4, <1>8, <2>3
      <3> QED
        BY <1>2, <3>1
    <2>4. CASE ~ (i <= N) /\ ~ (j <= N)
      BY <1>4, <1>8, <2>4
    <2> QED
      BY <2>1, <2>2, <2>3, <2>4
  <1> QED
    BY <1>3, <1>6, <1>7, <1>8 DEF Count

(* Whether the startup object is needed is decided by the functions.       *)
LEMMA StartupNeeded ==
  ASSUME Inv, stage = "read"
  PROVE  NeedsStartup <=> WithStartup
  <1>1. units \in Programs /\ objects \in Seq(Object) /\ Len(objects) = Len(units)
    BY DEF Inv, Shape
  <1>2. DOMAIN objects = 1 .. Len(units) /\ Len(units) \in Nat
    BY <1>1, UnitFacts
  <1>3. ASSUME NEW n \in {"_start", "main"} PROVE AnyDefines(n) <=> Definitions(n) # {}
    <2>1. ASSUME AnyDefines(n) PROVE Definitions(n) # {}
      <3>1. PICK i \in DOMAIN objects : DefinedIn(objects[i], n)
        BY <2>1 DEF AnyDefines
      <3>2. PICK k \in DOMAIN objects[i].syms : objects[i].syms[k].section # "undef" /\ objects[i].syms[k].name = n
        BY <3>1 DEF DefinedIn
      <3> DEFINE s == objects[i].syms[k]
                 F == FunctionCount(i)
      <3>3. /\ F \in Nat /\ k \in Nat /\ (k <= 3 => s = LocalSyms[k])
            /\ k > 3 /\ k - 3 <= F => s.name = UnitOf(i).functions[k - 3].name
            /\ k - 3 > F => s.section = "undef"
        BY ObjectSyms
      <3>4. k > 0
        BY ObjectSyms DEF IsList
      <3>5. ~ (k <= 3)
        <4>1. k <= 3 => k \in 1 .. 3
          BY <3>3, <3>4
        <4> QED
          BY <3>2, <3>3, <4>1, LocalFacts
      <3> HIDE DEF s, F
      <3>6. k - 3 \in 1 .. F
        <4>1. ~ (k - 3 > F)
          BY <3>2, <3>3 DEF s
        <4> QED
          BY <3>3, <3>5, <4>1
      <3>7. UnitOf(i).functions[k - 3].name = n
        <4>1. k > 3 /\ k - 3 <= F
          BY <3>3, <3>6
        <4> QED
          BY <3>2, <3>3, <4>1 DEF s
      <3>8. <<i, k - 3>> \in Definitions(n)
        BY <1>1, <1>2, <3>6, <3>7, DefinitionFacts DEF F
      <3> QED
        BY <3>8
    <2>2. ASSUME Definitions(n) # {} PROVE AnyDefines(n)
      <3>1. PICK i \in 1 .. Len(units) : \E f \in 1 .. FunctionCount(i) : UnitOf(i).functions[f].name = n
        BY <1>1, <2>2, DefinitionFacts
      <3>2. PICK f \in 1 .. FunctionCount(i) : UnitOf(i).functions[f].name = n
        BY <3>1
      <3> DEFINE k == 3 + f
                 s == objects[i].syms[k]
                 F == FunctionCount(i)
                 m == Len(objects[i].syms)
      <3>3. i \in DOMAIN objects
        BY <1>2
      <3>4. F \in Nat /\ 3 + F <= m /\ m \in Nat /\ DOMAIN objects[i].syms = 1 .. m
        BY <3>3, ObjectSyms DEF IsList
      <3>5. f \in 1 .. F
        OBVIOUS
      <3> HIDE DEF F, m
      <3>6. k \in DOMAIN objects[i].syms /\ k > 3 /\ k - 3 <= F /\ k - 3 = f
        BY <3>4, <3>5
      <3> HIDE DEF k
      <3>7. s.section = "text" /\ s.name = UnitOf(i).functions[k - 3].name
        BY <3>3, <3>6, ObjectSyms DEF F
      <3>8. s.section # "undef" /\ s.name = n
        BY <3>2, <3>6, <3>7
      <3> QED
        BY <3>3, <3>6, <3>8 DEF AnyDefines, DefinedIn
    <2> QED
      BY <2>1, <2>2
  <1> QED
    BY <1>3 DEF NeedsStartup, WithStartup

(* The steps of the linker up to the merged sections leave the rest alone. *)
LEMMA ReadObjectsKeeps == Inv /\ ReadObjects => Inv'
  <1> SUFFICES ASSUME Inv, ReadObjects PROVE Inv'
    OBVIOUS
  <1> DEFINE N == Len(units)
  <1>1. stage = "read" /\ UNCHANGED <<units, symtab, image>> /\ UNCHANGED compiler
    BY DEF ReadObjects
  <1>2. \A k \in DOMAIN objects : ValidObject(objects[k])
    BY ObjectSyms
  <1>3. /\ objects' = IF NeedsStartup THEN Append(objects, StartupObject) ELSE objects
        /\ stage' = "collect" /\ at' = 1 /\ item' = 1 /\ error' = error
    BY <1>2 DEF ReadObjects, Goto
  <1>4. stage' \in LinkStages /\ stage' \notin CompileStages /\ stage' \notin {"read", "failed", "merge", "relocate", "linked"}
    BY <1>3 DEF LinkStages, CompileStages, CodeStages, SymbolStages
  <1>5. CompilerTypes' /\ CompileInv'
    BY <1>1, <1>4, CompilerIdle
  <1>6. /\ objects \in Seq(Object) /\ Len(objects) = N /\ units \in Programs /\ N \in Nat
        /\ symtab = << >> /\ image = Image0 /\ (error = "none") = (stage # "failed")
    BY <1>1, UnitFacts DEF Inv, Shape, LinkerTypes
  <1>7. error' = "none" /\ symtab' = << >> /\ image' = Image0
    BY <1>1, <1>3, <1>6
  <1>8. NeedsStartup <=> WithStartup
    BY <1>1, StartupNeeded
  <1>9. WithStartup' = WithStartup
    BY <1>1, SameProgram
  <1>10. /\ objects' \in Seq(Object) /\ Len(objects') = N + (IF WithStartup THEN 1 ELSE 0)
         /\ \A i \in DOMAIN objects' : (i \in 1 .. N /\ i \in DOMAIN objects /\ objects'[i] = objects[i])
                                       \/ (i = N + 1 /\ objects'[i] = StartupObject)
    <2>1. CASE WithStartup
      <3>1. objects' = Append(objects, StartupObject) /\ StartupObject \in Object
        BY <1>3, <1>8, <2>1, StartupObjectFacts
      <3> QED
        BY <1>6, <2>1, <3>1
    <2>2. CASE ~ WithStartup
      <3>1. objects' = objects
        BY <1>3, <1>8, <2>2
      <3> QED
        BY <1>6, <2>2, <3>1
    <2> QED
      BY <2>1, <2>2
  <1> HIDE DEF N
  <1>11. Shape'
    <2>1. Len(objects') <= N + 1
      BY <1>6, <1>10
    <2> QED
      BY <1>1, <1>3, <1>4, <1>6, <1>10, <2>1 DEF Shape, N
  <1>12. LinkerTypes'
    <2>1. image \in Image /\ Len(image.textOff) = Len(image.rodataOff) /\ symtab \in Seq(Global)
      BY DEF Inv, LinkerTypes
    <2> QED
      BY <1>1, <1>4, <1>7, <2>1 DEF LinkerTypes
  <1>13. ObjectsInv'
    <2>1. \A i \in DOMAIN objects' : /\ i <= N => ObjectOf(objects'[i], units[i])
                                     /\ i > N => objects'[i] = StartupObject
      <3> TAKE i \in DOMAIN objects'
      <3>1. CASE i \in 1 .. N /\ i \in DOMAIN objects /\ objects'[i] = objects[i]
        <4>1. ~ (i > N) /\ i <= N
          BY <1>6, <3>1
        <4> QED
          BY <3>1, <4>1 DEF Inv, ObjectsInv, N
      <3>2. CASE i = N + 1 /\ objects'[i] = StartupObject
        BY <1>6, <3>2
      <3> QED
        BY <1>10, <3>1, <3>2
    <2> QED
      BY <1>1, <1>9, <1>10, <2>1 DEF ObjectsInv, N
  <1>14. \A i, k : ~ Visited(i, k)'
    <2> SUFFICES ASSUME NEW i, NEW k, Visited(i, k)' PROVE FALSE
      OBVIOUS
    <2>1. /\ i \in DOMAIN objects' /\ k \in DOMAIN objects'[i].syms
          /\ i < 1 \/ (i = 1 /\ k < 1)
      BY <1>3 DEF Visited
    <2>2. i \in Nat /\ i >= 1 /\ objects'[i] \in Object
      BY <1>10, <2>1
    <2>3. objects'[i].syms \in Seq(SymRecord)
      BY <2>2 DEF Object
    <2>4. k \in Nat /\ k >= 1
      BY <2>1, <2>3
    <2> QED
      BY <2>1, <2>2, <2>4
  <1>15. TableInv'
    BY <1>3, <1>7, <1>14 DEF TableInv, DefinedAt
  <1>16. ImageInv'
    BY <1>3, <1>7 DEF ImageInv
  <1>17. VerdictInv'
    BY <1>4, <1>7 DEF VerdictInv
  <1> QED
    BY <1>5, <1>11, <1>12, <1>13, <1>15, <1>16, <1>17 DEF Inv, LinkInv

(* What every step of the linker behind ReadObjects keeps.                 *)
LEMMA LinkKeeps ==
  ASSUME Inv, stage \in LinkStages, stage' \in LinkStages \union {"failed"},
         at' \in Nat \ {0}, item' \in Nat \ {0}, UNCHANGED <<units, objects>>, UNCHANGED compiler
  PROVE  Shape' /\ CompilerTypes' /\ CompileInv' /\ ObjectsInv'
  <1>1. stage' \notin CompileStages /\ stage' # "read"
    BY DEF LinkStages, CompileStages, CodeStages, SymbolStages
  <1>2. Shape'
    BY <1>1 DEF Inv, Shape
  <1>3. ObjectsInv'
    BY SameProgram DEF Inv, ObjectsInv
  <1> QED
    BY <1>2, <1>3, CompilerIdle

(* A global symbol is a function of its object or is needed by it.         *)
LEMMA GlobalFacts ==
  ASSUME Inv, NEW i \in DOMAIN objects, NEW k \in DOMAIN objects[i].syms
  PROVE  LET s == objects[i].syms[k]
         IN  /\ s \in SymRecord /\ i \in Nat /\ k \in Nat
             /\ s.bind = "global" => k > 3
             /\ s.bind = "global" /\ s.section # "undef" =>
                   /\ HasFunction(i, k - 3, s.name) /\ s.section = "text" /\ s.value < Len(objects[i].text)
             /\ s.bind = "global" /\ s.section = "undef" =>
                   s.name \in (IF i <= Len(units) THEN UsedBy(units[i]) ELSE {"main"})
  <1> DEFINE s == objects[i].syms[k]
             F == FunctionCount(i)
  <1>1. /\ i \in Nat /\ k \in Nat /\ F \in Nat /\ s \in SymRecord
        /\ k <= 3 => s = LocalSyms[k]
        /\ k > 3 => s.bind = "global"
        /\ k > 3 /\ k - 3 <= F => /\ s.section = "text" /\ s.name = UnitOf(i).functions[k - 3].name
                                  /\ s.value < Len(objects[i].text)
        /\ k - 3 > F => /\ s.section = "undef"
                        /\ s.name \in (IF i <= Len(units) THEN UsedBy(units[i]) ELSE {"main"})
    BY ObjectSyms
  <1>2. k > 0
    BY ObjectSyms DEF IsList
  <1> HIDE DEF s, F
  <1>3. s.bind = "global" => k > 3
    <2>1. k <= 3 => k \in 1 .. 3
      BY <1>1, <1>2
    <2>2. k <= 3 => s.bind = "local"
      BY <1>1, <2>1, LocalFacts
    <2> QED
      BY <1>1, <2>2
  <1>4. k > 3 => k - 3 > F \/ (k - 3 <= F /\ k - 3 \in 1 .. F)
    BY <1>1
  <1>5. s.bind = "global" /\ s.section # "undef" =>
                   /\ HasFunction(i, k - 3, s.name) /\ s.section = "text" /\ s.value < Len(objects[i].text)
    BY <1>1, <1>3, <1>4 DEF HasFunction, F
  <1>6. s.bind = "global" /\ s.section = "undef" =>
                   s.name \in (IF i <= Len(units) THEN UsedBy(units[i]) ELSE {"main"})
    BY <1>1, <1>3, <1>4
  <1> QED
    BY <1>1, <1>3, <1>5, <1>6 DEF s

(* And a function is a global symbol.                                      *)
LEMMA FunctionGlobal ==
  ASSUME Inv, NEW i, NEW f, NEW n, HasFunction(i, f, n)
  PROVE  /\ i \in DOMAIN objects /\ 3 + f \in DOMAIN objects[i].syms
         /\ objects[i].syms[3 + f].bind = "global" /\ objects[i].syms[3 + f].section # "undef"
         /\ objects[i].syms[3 + f].name = n
  <1> DEFINE k == 3 + f
             s == objects[i].syms[k]
             F == FunctionCount(i)
             m == Len(objects[i].syms)
  <1>1. i \in DOMAIN objects /\ f \in 1 .. F /\ UnitOf(i).functions[f].name = n
    BY DEF HasFunction
  <1>2. F \in Nat /\ 3 + F <= m /\ m \in Nat /\ DOMAIN objects[i].syms = 1 .. m
    BY <1>1, ObjectSyms DEF IsList
  <1> HIDE DEF F, m
  <1>3. k \in DOMAIN objects[i].syms /\ k > 3 /\ k - 3 <= F /\ k - 3 = f
    BY <1>1, <1>2
  <1> HIDE DEF k
  <1>4. s.bind = "global" /\ s.section = "text" /\ s.name = UnitOf(i).functions[k - 3].name
    BY <1>1, <1>3, ObjectSyms DEF F
  <1> QED
    BY <1>1, <1>3, <1>4 DEF k

(* symtab_add: a new name is appended, a definition takes the place of a   *)
(* mere use, and a definition that is already there stays.                 *)
Unique(table) == \A j, k \in DOMAIN table : table[j].name = table[k].name => j = k
EntryFor(i, s) ==
    [name |-> s.name, object |-> i, section |-> s.section, value |-> s.value,
     defined |-> s.section # "undef", vaddr |-> 0]

LEMMA AddedFacts ==
  ASSUME NEW table \in Seq(Global), Unique(table), NEW i \in Nat, NEW s \in SymRecord, ~ Redefines(table, s),
         NEW t, t = Added(table, i, s)
  PROVE  /\ t \in Seq(Global) /\ Unique(t)
         /\ \A j \in DOMAIN t : t[j] = EntryFor(i, s) \/ (j \in DOMAIN table /\ t[j] = table[j])
         /\ \A j \in DOMAIN table : j \in DOMAIN t /\ t[j].name = table[j].name
         /\ \A j \in DOMAIN table : table[j].defined => t[j] = table[j]
         /\ Named(t, s.name)
         /\ s.section # "undef" => \E j \in DOMAIN t : t[j] = EntryFor(i, s)
         /\ s.section # "undef" => \A j \in DOMAIN table : table[j].name = s.name => ~ table[j].defined
  <1> DEFINE e == EntryFor(i, s)
             n == s.name
             defined == s.section # "undef"
  <1>1. e \in Global /\ e.name = n /\ (e.defined <=> defined)
    <2>1. s.name \in Names /\ s.section \in Sections /\ s.value \in Nat
      BY FieldFacts
    <2> DEFINE b == s.section # "undef"
    <2>2. b \in BOOLEAN
      OBVIOUS
    <2>3. e = [name |-> s.name, object |-> i, section |-> s.section, value |-> s.value, defined |-> b, vaddr |-> 0]
      BY DEF EntryFor
    <2>4. b <=> defined
      OBVIOUS
    <2> HIDE DEF b, e, defined
    <2>5. e.name = s.name /\ e.defined = b
      BY <2>3
    <2>6. e \in Global
      BY <2>1, <2>2, <2>3 DEF Global
    <2> QED
      BY <2>4, <2>5, <2>6
  <1>2. t = IF ~ Named(table, n) THEN Append(table, e)
            ELSE IF e.defined THEN [table EXCEPT ![Find(table, n)] = e] ELSE table
    BY DEF Added, EntryFor
  <1>3. Redefines(table, s) <=> defined /\ Named(table, n) /\ table[Find(table, n)].defined
    BY DEF Redefines
  <1>4. IsList(table) /\ \A j \in DOMAIN table : table[j] \in Global
    BY SeqAt
  <1> HIDE DEF e, n, defined
  <1>5. CASE ~ Named(table, n)
    <2> DEFINE m == Len(table) + 1
    <2>1. t = Append(table, e)
      BY <1>2, <1>5
    <2>2. /\ t \in Seq(Global) /\ DOMAIN t = DOMAIN table \union {m} /\ t[m] = e /\ m \notin DOMAIN table
          /\ \A j \in DOMAIN table : t[j] = table[j]
      BY <1>1, <2>1
    <2> HIDE DEF m
    <2>3. \A j \in DOMAIN table : table[j].name # n
      BY <1>5 DEF Named
    <2>4. Unique(t)
      BY <1>1, <2>2, <2>3 DEF Unique
    <2>5. Named(t, n)
      BY <1>1, <2>2 DEF Named
    <2> QED
      BY <2>2, <2>3, <2>4, <2>5 DEF e, n, defined
  <1>6. CASE Named(table, n) /\ ~ defined
    <2>1. t = table
      BY <1>1, <1>2, <1>6
    <2> QED
      BY <1>6, <2>1 DEF n, defined
  <1>7. CASE Named(table, n) /\ defined
    <2> DEFINE j0 == Find(table, n)
    <2>1. j0 \in DOMAIN table /\ table[j0].name = n
      BY <1>4, <1>7, FindFirst
    <2>2. ~ table[j0].defined
      BY <1>3, <1>7
    <2>3. t = [table EXCEPT ![j0] = e]
      BY <1>1, <1>2, <1>7
    <2> HIDE DEF j0
    <2>4. /\ t \in Seq(Global) /\ DOMAIN t = DOMAIN table /\ t[j0] = e
          /\ \A j \in DOMAIN table : j # j0 => t[j] = table[j]
      BY <1>1, <2>1, <2>3, ReplaceAt
    <2>5. \A j \in DOMAIN table : t[j].name = table[j].name
      BY <1>1, <2>1, <2>4
    <2>6. Unique(t)
      BY <2>4, <2>5 DEF Unique
    <2>7. \A j \in DOMAIN table : table[j].name = n => j = j0
      BY <2>1 DEF Unique
    <2>8. Named(t, n)
      BY <1>1, <2>1, <2>4 DEF Named
    <2> QED
      BY <2>1, <2>2, <2>4, <2>5, <2>6, <2>7, <2>8 DEF e, n, defined
  <1> QED
    BY <1>5, <1>6, <1>7

(* A refusal with a reason that is true.                                   *)
LEMMA FailKeeps ==
  ASSUME Inv, stage \in LinkStages, UNCHANGED <<units, objects, at, item, image>>, UNCHANGED compiler,
         NEW why \in {"duplicate symbol", "undefined symbol", "no entry point", "relocation out of range"},
         Fail(why), symtab' \in Seq(Global),
         why = "duplicate symbol" => \E n \in NamesDefined : DefinitionCount(n) > 1,
         why = "undefined symbol" => \E n \in NamesUsed : DefinitionCount(n) = 0,
         why = "no entry point" => Definitions("main") = {} /\ Definitions("_start") = {}
  PROVE  Inv'
  <1>1. stage' = "failed" /\ error' = why
    BY DEF Fail
  <1>2. stage' \notin LinkStages /\ stage' \notin {"collect", "merge", "relocate", "linked"}
    BY <1>1 DEF LinkStages
  <1>3. at' \in Nat \ {0} /\ item' \in Nat \ {0}
    BY DEF Inv, Shape
  <1>4. Shape' /\ CompilerTypes' /\ CompileInv' /\ ObjectsInv'
    BY <1>1, <1>3, LinkKeeps
  <1>5. LinkerTypes'
    <2>1. error' # "none"
      BY <1>1
    <2> QED
      BY <1>1, <2>1 DEF Inv, LinkerTypes
  <1>6. TableInv' /\ ImageInv'
    BY <1>2 DEF TableInv, ImageInv
  <1>7. VerdictInv'
    <2>1. /\ NamesUsed' = NamesUsed /\ NamesDefined' = NamesDefined
          /\ \A n : Definitions(n)' = Definitions(n) /\ DefinitionCount(n)' = DefinitionCount(n)
      BY SameProgram
    <2> QED
      BY <1>1, <1>2, <2>1 DEF VerdictInv
  <1> QED
    BY <1>4, <1>5, <1>6, <1>7 DEF Inv, LinkInv

(* While the symbols are collected only the table changes.                 *)
LEMMA CollectKeeps ==
  ASSUME Inv, stage = "collect", UNCHANGED <<units, stage, objects, image, error>>, UNCHANGED compiler,
         at' \in Nat \ {0}, item' \in Nat \ {0}, symtab' \in Seq(Global), TableInv'
  PROVE  Inv'
  <1>1. stage' \in LinkStages /\ stage' \notin {"merge", "relocate", "linked"} /\ stage \in LinkStages
        /\ stage' = "collect"
    BY DEF LinkStages
  <1>2. Shape' /\ CompilerTypes' /\ CompileInv' /\ ObjectsInv'
    BY <1>1, LinkKeeps
  <1>3. LinkerTypes'
    BY DEF Inv, LinkerTypes
  <1>4. ImageInv'
    BY <1>1 DEF Inv, LinkInv, ImageInv
  <1>5. error' = "none"
    BY <1>1 DEF Inv, LinkerTypes
  <1>6. VerdictInv'
    BY <1>1, <1>5 DEF VerdictInv
  <1> QED
    BY <1>2, <1>3, <1>4, <1>6 DEF Inv, LinkInv

(* A name that is defined again is defined by two functions.               *)
LEMMA DuplicateFound ==
  ASSUME Inv, stage = "collect", at \in DOMAIN objects, item \in DOMAIN objects[at].syms,
         objects[at].syms[item].bind = "global", Redefines(symtab, objects[at].syms[item])
  PROVE  \E n \in NamesDefined : DefinitionCount(n) > 1
  <1> DEFINE s == objects[at].syms[item]
             n == s.name
             j == Find(symtab, n)
  <1>1. stage \in LinkStages
    BY DEF LinkStages
  <1>2. s.section # "undef" /\ Named(symtab, n) /\ symtab[j].defined
    BY DEF Redefines
  <1>3. symtab \in Seq(Global)
    BY DEF Inv, LinkerTypes
  <1>4. j \in DOMAIN symtab /\ symtab[j].name = n
    BY <1>2, <1>3, SeqAt, FindFirst
  <1> HIDE DEF j
  <1>5. PICK i, k : Visited(i, k) /\ IsEntryOf(j, i, k)
    BY <1>1, <1>4 DEF Inv, LinkInv, TableInv
  <1>6. symtab[j].defined = (symtab[j].section # "undef")
    BY <1>1, <1>4 DEF Inv, LinkInv, TableInv
  <1>7. symtab[j].section # "undef"
    BY <1>2, <1>6
  <1> DEFINE t == objects[i].syms[k]
  <1>8. /\ i \in DOMAIN objects /\ k \in DOMAIN objects[i].syms /\ t.bind = "global" /\ t.section # "undef" /\ t.name = n
        /\ i < at \/ (i = at /\ k < item)
    BY <1>4, <1>5, <1>7 DEF Visited, IsEntryOf
  <1>9. HasFunction(at, item - 3, n) /\ at \in Nat /\ item \in Nat
    BY <1>2, GlobalFacts
  <1>10. HasFunction(i, k - 3, n) /\ i \in Nat /\ k \in Nat
    BY <1>8, GlobalFacts
  <1> HIDE DEF s, n, t
  <1>11. ~ (i = at /\ k - 3 = item - 3)
    BY <1>8, <1>9, <1>10
  <1>12. DefinitionCount(n) > 1 /\ n \in NamesDefined
    BY <1>1, <1>9, <1>10, <1>11, CountByOwners
  <1> QED
    BY <1>12

LEMMA CollectSymbolKeeps == Inv /\ CollectSymbol => Inv'
  <1> SUFFICES ASSUME Inv, CollectSymbol PROVE Inv'
    OBVIOUS
  <1> DEFINE s == objects[at].syms[item]
             global == s.bind = "global"
  <1>1. stage = "collect" /\ UNCHANGED <<units, objects, image>> /\ UNCHANGED compiler
        /\ at <= Len(objects) /\ item <= Len(objects[at].syms)
    BY DEF CollectSymbol
  <1>2. at \in DOMAIN objects /\ at \in Nat \ {0}
    BY <1>1 DEF Inv, Shape
  <1>3. item \in DOMAIN objects[at].syms /\ item \in Nat \ {0}
    <2>1. item \in Nat \ {0}
      BY DEF Inv, Shape
    <2>2. Len(objects[at].syms) \in Nat /\ DOMAIN objects[at].syms = 1 .. Len(objects[at].syms)
      BY <1>2, ObjectSyms DEF IsList
    <2> QED
      BY <1>1, <2>1, <2>2
  <1>4. stage \in LinkStages /\ symtab \in Seq(Global)
    BY <1>1 DEF LinkStages, Inv, LinkerTypes
  <1>5. s \in SymRecord
    BY <1>2, <1>3, GlobalFacts
  <1>6. CASE global /\ Redefines(symtab, s)
    <2>1. Fail("duplicate symbol") /\ UNCHANGED <<at, item, symtab>>
      BY <1>6 DEF CollectSymbol
    <2>2. \E n \in NamesDefined : DefinitionCount(n) > 1
      BY <1>1, <1>2, <1>3, <1>6, DuplicateFound
    <2> QED
      BY <1>1, <1>4, <2>1, <2>2, FailKeeps
  <1>7. CASE ~ (global /\ Redefines(symtab, s))
    <2>1. /\ symtab' = IF global THEN Added(symtab, at, s) ELSE symtab
          /\ at' = at /\ item' = item + 1 /\ UNCHANGED <<stage, error>>
      BY <1>7 DEF CollectSymbol, NextItem
    <2>2. \A i, k : Visited(i, k)' <=> Visited(i, k) \/ (i = at /\ k = item /\ global)
      <3> TAKE i, k
      <3>1. CASE i \in DOMAIN objects /\ k \in DOMAIN objects[i].syms
        <4>1. i \in Nat /\ k \in Nat
          BY <3>1, GlobalFacts
        <4>2. k < item + 1 <=> k < item \/ k = item
          BY <1>3, <4>1
        <4> QED
          BY <1>1, <2>1, <3>1, <4>1, <4>2 DEF Visited
      <3>2. CASE ~ (i \in DOMAIN objects /\ k \in DOMAIN objects[i].syms)
        BY <1>1, <1>2, <1>3, <3>2 DEF Visited
      <3> QED
        BY <3>1, <3>2
    <2>3. /\ Unique(symtab)
          /\ \A j \in DOMAIN symtab : /\ symtab[j].defined = (symtab[j].section # "undef")
                                      /\ \E i, k : Visited(i, k) /\ IsEntryOf(j, i, k)
          /\ \A i, k : Visited(i, k) => Named(symtab, objects[i].syms[k].name)
          /\ \A i, k : DefinedAt(i, k) => \E j \in DOMAIN symtab : IsEntryOf(j, i, k)
          /\ \A i, k, m, n : DefinedAt(i, k) /\ DefinedAt(m, n) /\ objects[i].syms[k].name = objects[m].syms[n].name
                              => i = m /\ k = n
      BY <1>4 DEF Inv, LinkInv, TableInv, Unique
    <2>4. symtab' \in Seq(Global) /\ TableInv'
      <3>1. CASE ~ global
        <4>1. symtab' = symtab
          BY <2>1, <3>1
        <4>2. \A i, k : Visited(i, k)' <=> Visited(i, k)
          BY <2>2, <3>1
        <4>3. \A i, k : DefinedAt(i, k)' <=> DefinedAt(i, k)
          BY <1>1, <4>2 DEF DefinedAt
        <4>4. \A j, i, k : IsEntryOf(j, i, k)' <=> IsEntryOf(j, i, k)
          BY <1>1, <4>1 DEF IsEntryOf
        <4> QED
          BY <1>1, <1>4, <2>1, <2>3, <4>1, <4>2, <4>3, <4>4 DEF TableInv, Unique
      <3>2. CASE global
        <4> DEFINE t == symtab'
                   e == EntryFor(at, s)
        <4>1. ~ Redefines(symtab, s) /\ t = Added(symtab, at, s)
          BY <1>7, <2>1, <3>2
        <4>0. at \in Nat /\ Unique(symtab) /\ symtab \in Seq(Global) /\ s \in SymRecord
          BY <1>2, <1>4, <1>5, <2>3
        <4> HIDE DEF t, s, e
        <4>2. /\ t \in Seq(Global) /\ Unique(t)
              /\ \A j \in DOMAIN t : t[j] = e \/ (j \in DOMAIN symtab /\ t[j] = symtab[j])
              /\ \A j \in DOMAIN symtab : j \in DOMAIN t /\ t[j].name = symtab[j].name
              /\ \A j \in DOMAIN symtab : symtab[j].defined => t[j] = symtab[j]
              /\ Named(t, s.name)
              /\ s.section # "undef" => \E j \in DOMAIN t : t[j] = e
              /\ s.section # "undef" => \A j \in DOMAIN symtab : symtab[j].name = s.name => ~ symtab[j].defined
          BY <4>0, <4>1, AddedFacts, SMTT(30) DEF e
        <4>3. /\ e.name = s.name /\ e.object = at /\ e.section = s.section /\ e.value = s.value
              /\ e.defined = (s.section # "undef")
          BY DEF EntryFor, e
        <4> HIDE DEF e
        <4> USE DEF t, s
        <4>4. \A j, i, k : t[j] = e /\ i = at /\ k = item => IsEntryOf(j, i, k)'
          BY <1>1, <4>3 DEF IsEntryOf
        <4>5. \A j, i, k : t[j] = symtab[j] => (IsEntryOf(j, i, k)' <=> IsEntryOf(j, i, k))
          BY <1>1 DEF IsEntryOf
        <4>6. \A i, k : DefinedAt(i, k)' <=> DefinedAt(i, k) \/ (i = at /\ k = item /\ s.section # "undef")
          BY <1>1, <2>2, <3>2 DEF DefinedAt
        <4>7. \A j \in DOMAIN t : /\ t[j].defined = (t[j].section # "undef")
                                  /\ \E i, k : Visited(i, k)' /\ IsEntryOf(j, i, k)'
          <5> TAKE j \in DOMAIN t
          <5>1. CASE t[j] = e
            BY <2>2, <3>2, <4>3, <4>4, <5>1
          <5>2. CASE j \in DOMAIN symtab /\ t[j] = symtab[j]
            <6>1. PICK i, k : Visited(i, k) /\ IsEntryOf(j, i, k)
              BY <2>3, <5>2
            <6>2. Visited(i, k)' /\ IsEntryOf(j, i, k)'
              BY <2>2, <4>5, <5>2, <6>1
            <6> QED
              BY <2>3, <5>2, <6>2
          <5> QED
            BY <4>2, <5>1, <5>2
        <4>8. \A i, k : Visited(i, k)' => Named(t, objects[i].syms[k].name)
          <5> TAKE i, k
          <5>1. ASSUME Visited(i, k) PROVE Named(t, objects[i].syms[k].name)
            <6>1. Named(symtab, objects[i].syms[k].name)
              BY <2>3, <5>1
            <6> QED
              BY <4>2, <6>1 DEF Named
          <5> QED
            BY <2>2, <4>2, <5>1
        <4>9. \A i, k : DefinedAt(i, k) =>
                 \E j \in DOMAIN symtab : IsEntryOf(j, i, k) /\ symtab[j].defined /\ symtab[j].name = objects[i].syms[k].name
          <5> SUFFICES ASSUME NEW i, NEW k, DefinedAt(i, k)
                       PROVE \E j \in DOMAIN symtab : IsEntryOf(j, i, k) /\ symtab[j].defined
                                                      /\ symtab[j].name = objects[i].syms[k].name
            OBVIOUS
          <5>1. PICK j \in DOMAIN symtab : IsEntryOf(j, i, k)
            BY <2>3
          <5>2. symtab[j].section # "undef" /\ symtab[j].name = objects[i].syms[k].name
            BY <5>1 DEF IsEntryOf, DefinedAt
          <5>3. symtab[j].defined
            BY <2>3, <5>2
          <5> QED
            BY <5>1, <5>2, <5>3
        <4>10. \A i, k : DefinedAt(i, k)' => \E j \in DOMAIN t : IsEntryOf(j, i, k)'
          <5> TAKE i, k
          <5>1. ASSUME DefinedAt(i, k) PROVE \E j \in DOMAIN t : IsEntryOf(j, i, k)'
            <6>1. PICK j \in DOMAIN symtab : IsEntryOf(j, i, k) /\ symtab[j].defined
              BY <4>9, <5>1
            <6>2. j \in DOMAIN t /\ t[j] = symtab[j]
              BY <4>2, <6>1
            <6> QED
              BY <4>5, <6>1, <6>2
          <5>2. ASSUME s.section # "undef", i = at, k = item PROVE \E j \in DOMAIN t : IsEntryOf(j, i, k)'
            BY <4>2, <4>4, <5>2
          <5> QED
            BY <4>6, <5>1, <5>2
        <4>11. \A i, k : DefinedAt(i, k) /\ s.section # "undef" => objects[i].syms[k].name # s.name
          BY <4>2, <4>9
        <4>12. \A i, k, m, n : DefinedAt(i, k)' /\ DefinedAt(m, n)' /\ objects[i].syms[k].name = objects[m].syms[n].name
                              => i = m /\ k = n
          BY <2>3, <4>6, <4>11
        <4> HIDE DEF t
        <4>13. stage' = "collect" /\ objects' = objects
          BY <1>1, <2>1
        <4> QED
          BY <4>2, <4>7, <4>8, <4>10, <4>12, <4>13 DEF TableInv, Unique, t
      <3> QED
        BY <3>1, <3>2
    <2>5. at' \in Nat \ {0} /\ item' \in Nat \ {0}
      BY <1>2, <1>3, <2>1
    <2> QED
      BY <1>1, <2>1, <2>4, <2>5, CollectKeeps
  <1> QED
    BY <1>6, <1>7

LEMMA SymbolsCollectedKeeps == Inv /\ SymbolsCollected => Inv'
  <1> SUFFICES ASSUME Inv, SymbolsCollected PROVE Inv'
    OBVIOUS
  <1>1. /\ stage = "collect" /\ UNCHANGED <<units, stage, objects, symtab, image, error>> /\ UNCHANGED compiler
        /\ at <= Len(objects) /\ item > Len(objects[at].syms) /\ at' = at + 1 /\ item' = 1
    BY DEF SymbolsCollected, NextObject
  <1>2. at \in DOMAIN objects /\ at \in Nat \ {0} /\ item \in Nat \ {0}
    BY <1>1 DEF Inv, Shape
  <1>3. Len(objects[at].syms) \in Nat /\ DOMAIN objects[at].syms = 1 .. Len(objects[at].syms)
    BY <1>2, ObjectSyms DEF IsList
  <1>4. \A i, k : Visited(i, k)' <=> Visited(i, k)
    <2> TAKE i, k
    <2>1. CASE i \in DOMAIN objects /\ k \in DOMAIN objects[i].syms
      <3>1. i \in Nat /\ k \in Nat /\ k > 0
        <4>1. i \in Nat /\ k \in Nat
          BY <2>1, GlobalFacts
        <4>2. k > 0
          BY <2>1, ObjectSyms DEF IsList
        <4> QED
          BY <4>1, <4>2
      <3>2. (i < at + 1 \/ (i = at + 1 /\ k < 1)) <=> i <= at
        BY <1>2, <3>1
      <3>3. (i < at \/ (i = at /\ k < item)) <=> i <= at
        <4>1. i = at => k < item
          BY <1>1, <1>2, <1>3, <2>1, <3>1
        <4> QED
          BY <1>2, <3>1, <4>1
      <3> QED
        BY <1>1, <2>1, <3>2, <3>3 DEF Visited
    <2>2. CASE ~ (i \in DOMAIN objects /\ k \in DOMAIN objects[i].syms)
      BY <1>1, <2>2 DEF Visited
    <2> QED
      BY <2>1, <2>2
  <1>5. \A i, k : DefinedAt(i, k)' <=> DefinedAt(i, k)
    BY <1>1, <1>4 DEF DefinedAt
  <1>6. \A j, i, k : IsEntryOf(j, i, k)' <=> IsEntryOf(j, i, k)
    BY <1>1 DEF IsEntryOf
  <1>7. TableInv'
    BY <1>1, <1>4, <1>5, <1>6 DEF Inv, LinkInv, TableInv
  <1>8. symtab' \in Seq(Global)
    BY <1>1 DEF Inv, LinkerTypes
  <1> QED
    BY <1>1, <1>2, <1>7, <1>8, CollectKeeps

(* Behind the last object every global symbol has been visited.            *)
LEMMA AllVisited ==
  ASSUME Inv, stage \in LinkStages, stage = "collect" => at > Len(objects),
         NEW i \in DOMAIN objects, NEW k \in DOMAIN objects[i].syms, objects[i].syms[k].bind = "global"
  PROVE  Visited(i, k)
  <1>1. Len(objects) \in Nat /\ DOMAIN objects = 1 .. Len(objects) /\ at \in Nat
    BY DEF Inv, Shape
  <1>2. stage = "collect" => i < at
    BY <1>1
  <1> QED
    BY <1>2 DEF Visited

(* The complete table: a function is defined in it, no name is defined     *)
(* twice, and an entry that is defined is a function.                      *)
LEMMA TableComplete ==
  ASSUME Inv, stage \in LinkStages, stage = "collect" => at > Len(objects), NEW n
  PROVE  /\ \A i, f : HasFunction(i, f, n) =>
               \E j \in DOMAIN symtab : IsEntryOf(j, i, 3 + f) /\ symtab[j].defined /\ symtab[j].name = n
         /\ \A i, f, m, g : HasFunction(i, f, n) /\ HasFunction(m, g, n) => i = m /\ f = g
         /\ \A j \in DOMAIN symtab : symtab[j].name = n /\ symtab[j].defined =>
               \E i, k : /\ i \in DOMAIN objects /\ k \in DOMAIN objects[i].syms /\ IsEntryOf(j, i, k)
                         /\ HasFunction(i, k - 3, n)
  <1>1. /\ \A j \in DOMAIN symtab : /\ symtab[j].defined = (symtab[j].section # "undef")
                                    /\ \E i, k : Visited(i, k) /\ IsEntryOf(j, i, k)
        /\ \A i, k : DefinedAt(i, k) => \E j \in DOMAIN symtab : IsEntryOf(j, i, k)
        /\ \A i, k, m, g : DefinedAt(i, k) /\ DefinedAt(m, g) /\ objects[i].syms[k].name = objects[m].syms[g].name
                              => i = m /\ k = g
    BY DEF Inv, LinkInv, TableInv
  <1>2. ASSUME NEW i, NEW f, HasFunction(i, f, n)
        PROVE  /\ DefinedAt(i, 3 + f) /\ objects[i].syms[3 + f].name = n /\ f \in Nat
               /\ objects[i].syms[3 + f].section # "undef"
    <2>1. /\ i \in DOMAIN objects /\ 3 + f \in DOMAIN objects[i].syms
          /\ objects[i].syms[3 + f].bind = "global" /\ objects[i].syms[3 + f].section # "undef"
          /\ objects[i].syms[3 + f].name = n
      BY <1>2, FunctionGlobal
    <2>2. Visited(i, 3 + f)
      BY <2>1, AllVisited
    <2>3. f \in Nat
      BY <1>2, <2>1, ObjectSyms DEF HasFunction
    <2> QED
      BY <2>1, <2>2, <2>3 DEF DefinedAt
  <1>3. ASSUME NEW i, NEW f, HasFunction(i, f, n)
        PROVE  \E j \in DOMAIN symtab : IsEntryOf(j, i, 3 + f) /\ symtab[j].defined /\ symtab[j].name = n
    <2>1. PICK j \in DOMAIN symtab : IsEntryOf(j, i, 3 + f)
      BY <1>1, <1>2, <1>3
    <2>2. symtab[j].name = n /\ symtab[j].section # "undef"
      BY <1>2, <1>3, <2>1 DEF IsEntryOf
    <2>3. symtab[j].defined
      BY <1>1, <2>2
    <2> QED
      BY <2>1, <2>2, <2>3
  <1>4. ASSUME NEW i, NEW f, NEW m, NEW g, HasFunction(i, f, n), HasFunction(m, g, n) PROVE i = m /\ f = g
    <2>1. DefinedAt(i, 3 + f) /\ objects[i].syms[3 + f].name = n /\ f \in Nat
      BY <1>2, <1>4
    <2>2. DefinedAt(m, 3 + g) /\ objects[m].syms[3 + g].name = n /\ g \in Nat
      BY <1>2, <1>4
    <2>3. i = m /\ 3 + f = 3 + g
      BY <1>1, <2>1, <2>2
    <2> QED
      BY <2>1, <2>2, <2>3
  <1>5. ASSUME NEW j \in DOMAIN symtab, symtab[j].name = n, symtab[j].defined
        PROVE  \E i, k : /\ i \in DOMAIN objects /\ k \in DOMAIN objects[i].syms /\ IsEntryOf(j, i, k)
                         /\ HasFunction(i, k - 3, n)
    <2>1. PICK i, k : Visited(i, k) /\ IsEntryOf(j, i, k)
      BY <1>1
    <2>2. symtab[j].section # "undef"
      BY <1>1, <1>5
    <2>3. /\ i \in DOMAIN objects /\ k \in DOMAIN objects[i].syms /\ objects[i].syms[k].bind = "global"
          /\ objects[i].syms[k].section # "undef" /\ objects[i].syms[k].name = n
      BY <1>5, <2>1, <2>2 DEF Visited, IsEntryOf
    <2>4. HasFunction(i, k - 3, n)
      BY <2>3, GlobalFacts
    <2> QED
      BY <2>1, <2>3, <2>4
  <1> QED
    BY <1>3, <1>4, <1>5

(* Every name that a unit uses is in the complete table.                   *)
LEMMA UsedNamed ==
  ASSUME Inv, stage \in LinkStages, stage = "collect" => at > Len(objects), NEW n \in NamesUsed
  PROVE  Named(symtab, n)
  <1>1. PICK i \in DOMAIN units : n \in UsedBy(units[i])
    BY DEF NamesUsed
  <1>2. units \in Programs /\ objects \in Seq(Object) /\ Len(objects) = Len(units) + (IF WithStartup THEN 1 ELSE 0)
    BY DEF Inv, Shape, ObjectsInv
  <1>3. Len(units) \in Nat /\ DOMAIN units = 1 .. Len(units)
    BY <1>2, UnitFacts
  <1>4. i \in DOMAIN objects /\ i <= Len(units)
    BY <1>1, <1>2, <1>3
  <1>5. ObjectOf(objects[i], units[i])
    BY <1>4 DEF Inv, ObjectsInv
  <1>6. PICK k \in 4 .. Len(objects[i].syms) : objects[i].syms[k].name = n
    BY <1>1, <1>5 DEF ObjectOf
  <1>7. k \in DOMAIN objects[i].syms /\ objects[i].syms[k].bind = "global"
    <2>1. Len(objects[i].syms) \in Nat /\ DOMAIN objects[i].syms = 1 .. Len(objects[i].syms)
      BY <1>4, ObjectSyms DEF IsList
    <2>2. k \in DOMAIN objects[i].syms /\ k > 3
      BY <2>1
    <2> QED
      BY <1>4, <2>2, ObjectSyms
  <1>8. Visited(i, k)
    BY <1>4, <1>7, AllVisited
  <1> QED
    BY <1>6, <1>8 DEF Inv, LinkInv, TableInv

LEMMA UndefinedFound ==
  ASSUME Inv, stage = "collect", at > Len(objects), NEW j \in DOMAIN symtab, ~ symtab[j].defined
  PROVE  \E n \in NamesUsed : DefinitionCount(n) = 0
  <1> DEFINE n == symtab[j].name
  <1>1. stage \in LinkStages
    BY DEF LinkStages
  <1>2. /\ Unique(symtab) /\ symtab[j].defined = (symtab[j].section # "undef")
        /\ \E i, k : Visited(i, k) /\ IsEntryOf(j, i, k)
    BY <1>1 DEF Inv, LinkInv, TableInv, Unique
  <1>3. ASSUME NEW i, NEW f, HasFunction(i, f, n) PROVE FALSE
    <2>1. PICK m \in DOMAIN symtab : symtab[m].defined /\ symtab[m].name = n
      BY <1>1, <1>3, TableComplete
    <2> QED
      BY <1>2, <2>1 DEF Unique
  <1>4. DefinitionCount(n) = 0
    BY <1>1, <1>3, CountByOwners
  <1>5. PICK i, k : Visited(i, k) /\ IsEntryOf(j, i, k)
    BY <1>2
  <1>6. /\ i \in DOMAIN objects /\ k \in DOMAIN objects[i].syms /\ objects[i].syms[k].bind = "global"
        /\ objects[i].syms[k].section = "undef" /\ objects[i].syms[k].name = n
    BY <1>2, <1>5 DEF Visited, IsEntryOf
  <1>7. n \in (IF i <= Len(units) THEN UsedBy(units[i]) ELSE {"main"})
    BY <1>6, GlobalFacts
  <1>8. units \in Programs /\ objects \in Seq(Object) /\ Len(objects) = Len(units) + (IF WithStartup THEN 1 ELSE 0)
    BY <1>1 DEF Inv, Shape, ObjectsInv
  <1>9. Len(units) \in Nat /\ DOMAIN units = 1 .. Len(units)
    BY <1>8, UnitFacts
  <1>10. CASE i <= Len(units)
    <2>1. i \in DOMAIN units
      BY <1>6, <1>8, <1>9, <1>10
    <2>2. n \in NamesUsed
      BY <1>7, <1>10, <2>1 DEF NamesUsed
    <2> QED
      BY <1>4, <2>2
  <1>11. CASE ~ (i <= Len(units))
    <2>1. WithStartup
      BY <1>6, <1>8, <1>9, <1>11
    <2>2. n = "main"
      BY <1>7, <1>11
    <2>3. PICK w \in Definitions(n) : TRUE
      BY <2>1, <2>2 DEF WithStartup
    <2>4. \E m, f : HasFunction(m, f, n)
      BY <1>1, <2>3, OwnerFacts
    <2> QED
      BY <1>3, <2>4
  <1> QED
    BY <1>10, <1>11

(* A complete table without undefined names: the program can be linked.    *)
LEMMA LinkableFound ==
  ASSUME Inv, stage = "collect", at > Len(objects), \A j \in DOMAIN symtab : symtab[j].defined
  PROVE  Linkable
  <1>1. stage \in LinkStages
    BY DEF LinkStages
  <1>2. ASSUME NEW n, NEW i, NEW f, HasFunction(i, f, n) PROVE DefinitionCount(n) = 1
    <2>1. \A m, g : HasFunction(m, g, n) => m = i /\ g = f
      BY <1>1, <1>2, TableComplete
    <2> QED
      BY <1>1, <1>2, <2>1, CountByOwners
  <1>3. ASSUME NEW n \in NamesUsed PROVE DefinitionCount(n) = 1
    <2>1. PICK j \in DOMAIN symtab : symtab[j].name = n
      BY <1>1, UsedNamed DEF Named
    <2>2. \E i, f : HasFunction(i, f, n)
      BY <1>1, <2>1, TableComplete
    <2> QED
      BY <1>2, <2>2
  <1>4. ASSUME NEW n \in NamesDefined PROVE DefinitionCount(n) = 1
    <2>1. units \in Programs
      BY DEF Inv, Shape
    <2>2. PICK w \in Definitions(n) : TRUE
      BY <2>1, DefinitionFacts
    <2>3. \E i, f : HasFunction(i, f, n)
      BY <1>1, <2>2, OwnerFacts
    <2> QED
      BY <1>2, <2>3
  <1> QED
    BY <1>3, <1>4 DEF Linkable

(* The table is complete from here on: only addresses are filled in.       *)
LEMMA TableKept ==
  ASSUME Inv, stage \in LinkStages, stage' \in LinkStages, stage' # "collect", UNCHANGED objects,
         stage = "collect" => at > Len(objects) /\ \A j \in DOMAIN symtab : symtab[j].defined,
         DOMAIN symtab' = DOMAIN symtab,
         \A j \in DOMAIN symtab : /\ symtab'[j].name = symtab[j].name /\ symtab'[j].object = symtab[j].object
                                  /\ symtab'[j].section = symtab[j].section /\ symtab'[j].value = symtab[j].value
                                  /\ symtab'[j].defined = symtab[j].defined
  PROVE  TableInv'
  <1>1. /\ \A j, k \in DOMAIN symtab : symtab[j].name = symtab[k].name => j = k
        /\ \A j \in DOMAIN symtab : /\ symtab[j].defined = (symtab[j].section # "undef")
                                    /\ \E i, k : Visited(i, k) /\ IsEntryOf(j, i, k)
        /\ \A i, k : Visited(i, k) => Named(symtab, objects[i].syms[k].name)
        /\ \A i, k : DefinedAt(i, k) => \E j \in DOMAIN symtab : IsEntryOf(j, i, k)
        /\ \A i, k, m, n : DefinedAt(i, k) /\ DefinedAt(m, n) /\ objects[i].syms[k].name = objects[m].syms[n].name
                              => i = m /\ k = n
        /\ \A j \in DOMAIN symtab : symtab[j].defined
    BY DEF Inv, LinkInv, TableInv
  <1>2. \A i, k : Visited(i, k)' <=> Visited(i, k)
    <2> TAKE i, k
    <2>1. Visited(i, k)' <=> i \in DOMAIN objects /\ k \in DOMAIN objects[i].syms /\ objects[i].syms[k].bind = "global"
      BY DEF Visited
    <2>2. Visited(i, k) => i \in DOMAIN objects /\ k \in DOMAIN objects[i].syms /\ objects[i].syms[k].bind = "global"
      BY DEF Visited
    <2>3. i \in DOMAIN objects /\ k \in DOMAIN objects[i].syms /\ objects[i].syms[k].bind = "global" => Visited(i, k)
      BY AllVisited
    <2> QED
      BY <2>1, <2>2, <2>3
  <1>3. \A i, k : DefinedAt(i, k)' <=> DefinedAt(i, k)
    BY <1>2 DEF DefinedAt
  <1>4. \A j \in DOMAIN symtab : \A i, k : IsEntryOf(j, i, k)' <=> IsEntryOf(j, i, k)
    BY DEF IsEntryOf
  <1>5. \A n : Named(symtab', n) <=> Named(symtab, n)
    BY DEF Named
  <1>6. \A j \in DOMAIN symtab : \E i, k : Visited(i, k)' /\ IsEntryOf(j, i, k)'
    BY <1>1, <1>2, <1>4
  <1>7. \A i, k : DefinedAt(i, k)' => \E j \in DOMAIN symtab' : IsEntryOf(j, i, k)'
    BY <1>1, <1>3, <1>4
  <1>8. \A i, k, m, n : DefinedAt(i, k)' /\ DefinedAt(m, n)' /\ objects'[i].syms[k].name = objects'[m].syms[n].name
                              => i = m /\ k = n
    BY <1>1, <1>3
  <1>9. \A i, k : Visited(i, k)' => Named(symtab', objects'[i].syms[k].name)
    BY <1>1, <1>2, <1>5
  <1> QED
    BY <1>1, <1>6, <1>7, <1>8, <1>9 DEF TableInv

LEMMA CheckUndefinedKeeps == Inv /\ CheckUndefined => Inv'
  <1> SUFFICES ASSUME Inv, CheckUndefined PROVE Inv'
    OBVIOUS
  <1>1. /\ stage = "collect" /\ UNCHANGED <<units, objects, symtab, image>> /\ UNCHANGED compiler
        /\ at > Len(objects)
    BY DEF CheckUndefined
  <1>2. stage \in LinkStages /\ symtab \in Seq(Global) /\ image \in Image /\ error = "none" /\ image = Image0
        /\ Len(objects) \in Nat /\ Len(image.textOff) = Len(image.rodataOff)
    BY <1>1 DEF LinkStages, Inv, LinkerTypes, LinkInv, ImageInv, Shape
  <1>3. CASE \A j \in DOMAIN symtab : symtab[j].defined
    <2>1. stage' = "merge" /\ at' = 1 /\ item' = 1 /\ error' = error
      BY <1>3 DEF CheckUndefined, Goto
    <2>2. stage' \in LinkStages /\ stage' \notin {"collect", "relocate", "linked"}
      BY <2>1 DEF LinkStages
    <2>3. Shape' /\ CompilerTypes' /\ CompileInv' /\ ObjectsInv'
      BY <1>1, <1>2, <2>1, <2>2, LinkKeeps
    <2>4. LinkerTypes'
      BY <1>1, <1>2, <2>1 DEF LinkerTypes
    <2>5. TableInv'
      BY <1>1, <1>2, <1>3, <2>2, TableKept
    <2>6. ImageInv'
      <3>1. Len(image.textOff) = 0
        BY <1>2 DEF Image0
      <3> QED
        BY <1>1, <1>2, <2>1, <2>2, <3>1 DEF ImageInv
    <2>7. VerdictInv'
      <3>1. Linkable /\ Linkable' = Linkable
        BY <1>1, <1>3, LinkableFound, SameProgram
      <3>2. error' = "none"
        BY <1>2, <2>1
      <3> QED
        BY <3>1, <3>2 DEF VerdictInv
    <2> QED
      BY <2>3, <2>4, <2>5, <2>6, <2>7 DEF Inv, LinkInv
  <1>4. CASE ~ \A j \in DOMAIN symtab : symtab[j].defined
    <2>1. Fail("undefined symbol") /\ UNCHANGED <<at, item>>
      BY <1>4 DEF CheckUndefined
    <2>2. \E n \in NamesUsed : DefinitionCount(n) = 0
      BY <1>1, <1>4, UndefinedFound
    <2> QED
      BY <1>1, <1>2, <2>1, <2>2, FailKeeps
  <1> QED
    BY <1>3, <1>4

-----------------------------------------------------------------------------
(* Linking: the image.                                                     *)

(* What every step behind the collection of the symbols keeps.             *)
LEMMA ImageKeeps ==
  ASSUME Inv, stage \in {"merge", "relocate"}, stage' \in {"merge", "relocate", "linked"},
         UNCHANGED <<units, objects, error>>, UNCHANGED compiler,
         at' \in Nat \ {0}, item' \in Nat \ {0}, symtab' \in Seq(Global), image' \in Image,
         Len(image'.textOff) = Len(image'.rodataOff), TableInv', ImageInv'
  PROVE  Inv'
  <1>1. stage' \in LinkStages /\ stage \in LinkStages /\ stage' \notin {"collect", "failed"} /\ stage # "failed"
    BY DEF LinkStages
  <1>2. Shape' /\ CompilerTypes' /\ CompileInv' /\ ObjectsInv'
    BY <1>1, LinkKeeps
  <1>3. error' = "none"
    BY <1>1 DEF Inv, LinkerTypes
  <1>4. LinkerTypes'
    BY <1>1, <1>3 DEF LinkerTypes
  <1>5. VerdictInv'
    <2>1. Linkable /\ Linkable' = Linkable
      BY SameProgram DEF Inv, LinkInv, VerdictInv
    <2> QED
      BY <1>3, <2>1 DEF VerdictInv
  <1> QED
    BY <1>2, <1>4, <1>5 DEF Inv, LinkInv

(* A part of a section is appended, and starts where StartOf says.         *)
LEMMA JoinFacts ==
  ASSUME NEW S, NEW cells \in Seq(S), NEW part \in Seq(S), NEW pad \in S
  PROVE  /\ Joined(cells, part, pad) \in Seq(S) /\ StartOf(cells, part) \in Nat
         /\ Len(cells) <= Len(Joined(cells, part, pad))
         /\ StartOf(cells, part) + Len(part) = Len(Joined(cells, part, pad))
  <1>1. Len(cells) \in Nat /\ Len(part) \in Nat
    BY SeqAt
  <1>2. CASE part = << >>
    <2>1. Joined(cells, part, pad) = cells /\ StartOf(cells, part) = Len(cells)
      BY <1>2 DEF Joined, StartOf
    <2>2. Len(part) = 0
      BY <1>2
    <2> QED
      BY <1>1, <2>1, <2>2
  <1>3. CASE part # << >>
    <2> DEFINE p == Pad(cells, 16, pad)
               a == align_to(Len(cells), 16)
    <2>1. Joined(cells, part, pad) = p \o part /\ StartOf(cells, part) = a
      BY <1>3 DEF Joined, StartOf
    <2>2. p \in Seq(S) /\ Len(p) = a
      BY PadFacts
    <2>3. a \in Nat /\ a >= Len(cells)
      BY <1>1, AlignFacts
    <2> HIDE DEF p, a
    <2>4. p \o part \in Seq(S) /\ Len(p \o part) = a + Len(part)
      BY <2>2, CatAt
    <2> QED
      BY <1>1, <2>1, <2>3, <2>4
  <1> QED
    BY <1>2, <1>3

LEMMA ImageFields ==
  ASSUME image \in Image
  PROVE  /\ image.text \in Seq(Byte) /\ image.rodata \in Seq(Cell) /\ image.textOff \in Seq(Nat)
         /\ image.rodataOff \in Seq(Nat) /\ image.entry \in Int
         /\ image = [text |-> image.text, rodata |-> image.rodata, textOff |-> image.textOff,
                     rodataOff |-> image.rodataOff, entry |-> image.entry]
  BY DEF Image

LEMMA MergeSectionsKeeps == Inv /\ MergeSections => Inv'
  <1> SUFFICES ASSUME Inv, MergeSections PROVE Inv'
    OBVIOUS
  <1> DEFINE o == objects[at]
             nop == 144
             t == Joined(image.text, o.text, nop)
             r == Joined(image.rodata, o.rodata, Padding(0))
             ts == StartOf(image.text, o.text)
             rs == StartOf(image.rodata, o.rodata)
             to == Append(image.textOff, ts)
             ro == Append(image.rodataOff, rs)
  <1>1. /\ stage = "merge" /\ at <= Len(objects) /\ at' = at + 1 /\ item' = 1
        /\ UNCHANGED <<units, stage, objects, symtab, error>> /\ UNCHANGED compiler
        /\ image' = [image EXCEPT !.text = t, !.rodata = r, !.textOff = to, !.rodataOff = ro]
    BY DEF MergeSections, NextObject
  <1>2. at \in Nat \ {0} /\ at \in DOMAIN objects /\ Len(objects) \in Nat /\ DOMAIN objects = 1 .. Len(objects)
    BY <1>1 DEF Inv, Shape
  <1>3. o.text \in Seq(Byte) /\ o.rodata \in Seq(Cell)
    <2>1. o \in Object
      BY <1>2, ObjectSyms
    <2> QED
      BY <2>1 DEF Object
  <1>4. image \in Image /\ Len(image.textOff) = Len(image.rodataOff) /\ symtab \in Seq(Global)
    BY DEF Inv, LinkerTypes
  <1>5. /\ image.text \in Seq(Byte) /\ image.rodata \in Seq(Cell) /\ image.textOff \in Seq(Nat)
        /\ image.rodataOff \in Seq(Nat) /\ image.entry \in Int
        /\ image = [text |-> image.text, rodata |-> image.rodata, textOff |-> image.textOff,
                     rodataOff |-> image.rodataOff, entry |-> image.entry]
    BY <1>4, ImageFields
  <1>6. /\ t \in Seq(Byte) /\ ts \in Nat /\ Len(image.text) <= Len(t) /\ ts + Len(o.text) = Len(t)
    <2>1. nop \in Byte
      BY DEF Byte
    <2> DEFINE cells == image.text
               part == o.text
    <2>2. cells \in Seq(Byte) /\ part \in Seq(Byte)
      BY <1>3, <1>5
    <2> HIDE DEF nop, cells, part
    <2>3. /\ Joined(cells, part, nop) \in Seq(Byte) /\ StartOf(cells, part) \in Nat
          /\ Len(cells) <= Len(Joined(cells, part, nop))
          /\ StartOf(cells, part) + Len(part) = Len(Joined(cells, part, nop))
      BY <2>1, <2>2, JoinFacts
    <2> QED
      BY <2>3 DEF nop, cells, part
  <1>7. r \in Seq(Cell) /\ rs \in Nat
    <2>1. Padding(0) \in Cell
      <3>1. "padding" \in Names
        BY DEF Names
      <3> QED
        BY <3>1 DEF Padding, Cell
    <2> QED
      BY <1>3, <1>5, <2>1, JoinFacts
  <1> HIDE DEF o, t, r, ts, rs
  <1>8. /\ to \in Seq(Nat) /\ Len(to) = Len(image.textOff) + 1 /\ to[Len(image.textOff) + 1] = ts
        /\ \A k \in 1 .. Len(image.textOff) : to[k] = image.textOff[k]
    BY <1>5, <1>6
  <1>9. ro \in Seq(Nat) /\ Len(ro) = Len(image.rodataOff) + 1
    BY <1>5, <1>7
  <1> HIDE DEF to, ro
  <1>10. image' = [text |-> t, rodata |-> r, textOff |-> to, rodataOff |-> ro, entry |-> image.entry]
    BY <1>1, <1>5
  <1>11. image'.text = t /\ image'.textOff = to /\ image'.rodataOff = ro
    BY <1>10
  <1>12. image' \in Image
    BY <1>5, <1>6, <1>7, <1>8, <1>9, <1>10 DEF Image
  <1>13. /\ at <= Len(objects) + 1 /\ Len(image.textOff) = at - 1 /\ \A i \in 1 .. at - 1 : Inside(i)
    BY <1>1 DEF Inv, LinkInv, ImageInv
  <1>14. Len(to) = at /\ to[at] = ts /\ \A k \in 1 .. at - 1 : to[k] = image.textOff[k]
    BY <1>2, <1>8, <1>13
  <1>15. \A i \in 1 .. at : to[i] + Len(objects[i].text) <= Len(t)
    <2> TAKE i \in 1 .. at
    <2>1. CASE i = at
      <3>1. Len(t) \in Nat
        BY <1>6
      <3> QED
        BY <1>6, <1>14, <2>1, <3>1 DEF o
    <2>2. CASE i # at
      <3>1. i \in 1 .. at - 1 /\ i \in DOMAIN objects /\ i \in DOMAIN image.textOff
        BY <1>2, <1>5, <1>13, <2>2
      <3>2. objects[i].text \in Seq(Byte)
        <4>1. objects[i] \in Object
          BY <3>1, ObjectSyms
        <4> QED
          BY <4>1 DEF Object
      <3>3. image.textOff[i] \in Nat /\ Len(objects[i].text) \in Nat /\ Len(image.text) \in Nat /\ Len(t) \in Nat
        <4>1. image.textOff[i] \in Nat
          BY <1>5, <3>1, SeqAt
        <4> QED
          BY <1>5, <1>6, <3>2, <4>1, SeqAt
      <3>4. image.textOff[i] + Len(objects[i].text) <= Len(image.text)
        BY <1>13, <3>1 DEF Inside
      <3>5. to[i] = image.textOff[i]
        BY <1>14, <3>1
      <3> QED
        BY <1>6, <3>3, <3>4, <3>5
    <2> QED
      BY <2>1, <2>2
  <1>16. ImageInv'
    <2>1. /\ at + 1 <= Len(objects) + 1 /\ (at + 1) - 1 = at
      BY <1>1, <1>2
    <2>2. \A i \in 1 .. at : Inside(i)'
      BY <1>1, <1>11, <1>15 DEF Inside
    <2>3. stage' = "merge" /\ at' = at + 1 /\ objects' = objects
      BY <1>1
    <2> QED
      BY <1>11, <1>14, <2>1, <2>2, <2>3 DEF ImageInv
  <1>17. TableInv'
    <2>1. stage \in LinkStages /\ stage' \in LinkStages /\ stage' # "collect" /\ stage # "collect"
      BY <1>1 DEF LinkStages
    <2> QED
      BY <1>1, <2>1, TableKept
  <1>18. at' \in Nat \ {0} /\ item' \in Nat \ {0} /\ Len(image'.textOff) = Len(image'.rodataOff)
    <2>1. at' \in Nat \ {0} /\ item' \in Nat \ {0}
      <3>1. at' = at + 1 /\ item' = 1
        BY <1>1
      <3> QED
        BY <1>2, <3>1
    <2>2. Len(to) = Len(ro)
      BY <1>4, <1>8, <1>9
    <2> QED
      BY <1>11, <2>1, <2>2
  <1> QED
    BY <1>1, <1>4, <1>12, <1>16, <1>17, <1>18, ImageKeeps

(* The first sum is 0, whatever the lengths are.                           *)
LEMMA SumsZero ==
  ASSUME NEW lengths, IsList(lengths)
  PROVE  Sums(lengths)[0] = 0
  <1> DEFINE N == Len(lengths)
             Adds(f, n) == f = [k \in 0 .. n |-> IF k = 0 THEN 0 ELSE f[k - 1] + lengths[k]]
             T == {n \in 0 .. N : ~ \E f : Adds(f, n)}
  <1>1. N \in Nat
    BY DEF IsList
  <1> HIDE DEF N
  <1>2. T = {}
    <2> SUFFICES ASSUME T # {} PROVE FALSE
      OBVIOUS
    <2>1. T \subseteq Nat
      BY <1>1
    <2>2. PICK n \in T : \A j \in T : n <= j
      <3> HIDE DEF T
      <3> QED BY <2>1, LeastNat
    <2>3. n # 0
      <3>1. Adds([k \in 0 .. 0 |-> 0], 0)
        OBVIOUS
      <3>2. \E f : Adds(f, 0)
        BY <3>1
      <3> HIDE DEF Adds
      <3> QED
        BY <2>2, <3>2
    <2>4. n - 1 \in 0 .. N /\ n - 1 \notin T
      <3>1. n \in 0 .. N
        BY <2>2
      <3> HIDE DEF T
      <3> QED
        BY <1>1, <2>2, <2>3, <3>1
    <2>5. PICK f : Adds(f, n - 1)
      BY <2>4
    <2> DEFINE last == f[n - 1] + lengths[n]
               g == [k \in 0 .. n |-> IF k = n THEN last ELSE f[k]]
               h == [k \in 0 .. n |-> IF k = 0 THEN 0 ELSE g[k - 1] + lengths[k]]
    <2>6. Adds(g, n)
      <3>1. n \in Nat \ {0}
        BY <1>1, <2>2, <2>3
      <3>2. f = [k \in 0 .. n - 1 |-> IF k = 0 THEN 0 ELSE f[k - 1] + lengths[k]]
        BY <2>5
      <3>3. \A k \in 0 .. n - 1 : f[k] = IF k = 0 THEN 0 ELSE f[k - 1] + lengths[k]
        BY <3>1, <3>2
      <3>4. \A k \in 0 .. n : g[k] = h[k]
        <4> TAKE k \in 0 .. n
        <4>1. CASE k = 0
          BY <3>1, <3>3, <4>1
        <4>2. CASE k # 0
          <5>1. k - 1 \in 0 .. n - 1 /\ k - 1 # n /\ k - 1 \in 0 .. n
            BY <3>1, <4>2
          <5>2. g[k - 1] = f[k - 1]
            BY <5>1
          <5>3. h[k] = f[k - 1] + lengths[k]
            BY <4>2, <5>2
          <5>4. g[k] = f[k - 1] + lengths[k]
            <6>1. CASE k = n
              BY <6>1
            <6>2. CASE k # n
              <7>1. k \in 0 .. n - 1
                BY <3>1, <6>2
              <7> QED
                BY <3>3, <4>2, <6>2, <7>1
            <6> QED
              BY <6>1, <6>2
          <5> QED
            BY <5>3, <5>4
        <4> QED
          BY <4>1, <4>2
      <3>5. g = h
        BY <3>4
      <3> QED
        BY <3>5
    <2>7. \E x : Adds(x, n)
      BY <2>6
    <2> HIDE DEF Adds
    <2> QED
      BY <2>2, <2>7
  <1>3. PICK f : Adds(f, N)
    <2>1. N \in 0 .. N /\ N \notin T
      <3> HIDE DEF T
      <3> QED BY <1>1, <1>2
    <2> HIDE DEF Adds
    <2> QED BY <2>1
  <1>4. Sums(lengths) = CHOOSE g : g = [k \in 0 .. N |-> IF k = 0 THEN 0 ELSE g[k - 1] + lengths[k]]
    BY DEF Sums, N
  <1>5. Sums(lengths) = [k \in 0 .. N |-> IF k = 0 THEN 0 ELSE Sums(lengths)[k - 1] + lengths[k]]
    BY <1>3, <1>4
  <1>6. 0 \in 0 .. N
    BY <1>1
  <1> QED
    BY <1>5, <1>6

(* A function symbol has the place of the function as its value.           *)
LEMMA FunctionValue ==
  ASSUME Inv, NEW i, NEW f, NEW n \in {"_start", "main"}, HasFunction(i, f, n)
  PROVE  objects[i].syms[3 + f].value = FunctionStart(UnitOf(i), f)
  <1>1. i \in DOMAIN objects /\ f \in 1 .. FunctionCount(i) /\ UnitOf(i).functions[f].name = n
    BY DEF HasFunction
  <1>2. Len(units) \in Nat /\ i \in Nat
    <2>1. units \in Programs
      BY DEF Inv, Shape
    <2> QED
      BY <1>1, <2>1, UnitFacts, ObjectSyms
  <1>3. CASE i <= Len(units)
    <2>1. ObjectOf(objects[i], units[i]) /\ UnitOf(i) = units[i]
      BY <1>1, <1>3 DEF Inv, ObjectsInv, UnitOf
    <2>2. f \in 1 .. Len(units[i].functions)
      BY <1>1, <2>1 DEF FunctionCount
    <2>3. objects[i].syms[3 + f] = Sym(units[i].functions[f].name, "global", "func", "text", FunctionStart(units[i], f))
      BY <2>1, <2>2 DEF ObjectOf
    <2>4. objects[i].syms[3 + f].value = FunctionStart(units[i], f)
      BY <2>3 DEF Sym
    <2> QED
      BY <2>1, <2>4
  <1>4. CASE ~ (i <= Len(units))
    <2>1. objects[i] = StartupObject /\ UnitOf(i) = StartupUnit
      <3>1. i > Len(units)
        BY <1>2, <1>4
      <3> QED
        BY <1>1, <1>4, <3>1 DEF Inv, ObjectsInv, UnitOf
    <2>2. f \in 1 .. 5 /\ StartupUnit.functions[f].name = n
      BY <1>1, <2>1, StartupUnitFacts DEF FunctionCount
    <2>3. f = 1
      BY <2>2, StartupUnitFacts
    <2>4. objects[i].syms[4].value = 0
      <3>1. objects[i].syms[4] = Sym("_start", "global", "func", "text", 0)
        BY <2>1, StartupSyms
      <3> QED
        BY <3>1 DEF Sym
    <2>5. IsList(CodeLengths(StartupUnit))
      <3>1. DOMAIN StartupUnit.functions = 1 .. 5
        BY StartupUnitFacts
      <3> DEFINE size(g) == Sums(Lengths(StartupUnit.functions[g].list))[Len(StartupUnit.functions[g].list)]
                 l == [g \in 1 .. 5 |-> size(g)]
      <3>2. CodeLengths(StartupUnit) = l
        BY <3>1 DEF CodeLengths
      <3> HIDE DEF size
      <3>3. DOMAIN l = 1 .. 5 /\ Len(l) = 5
        OBVIOUS
      <3> HIDE DEF l
      <3> QED
        BY <3>2, <3>3 DEF IsList
    <2>6. FunctionStart(StartupUnit, 1) = 0
      <3>1. Sums(CodeLengths(StartupUnit))[0] = 0
        BY <2>5, SumsZero
      <3>2. 1 - 1 = 0
        OBVIOUS
      <3> QED
        BY <3>1, <3>2 DEF FunctionStart
    <2>7. 3 + f = 4
      BY <2>3
    <2> QED
      BY <2>1, <2>3, <2>4, <2>6, <2>7
  <1> QED
    BY <1>3, <1>4

LEMMA Addresses == TextVaddr \in Nat /\ BaseVaddr \in Nat /\ PageSize \in Nat /\ PageSize > 0 /\ TextVaddr = BaseVaddr + PageSize
  <1>1. PageSize \in Nat /\ PageSize >= 64 + 56 * 4
    BY PageAssumption DEF HeaderSize
  <1>2. PageSize > 0
    BY <1>1
  <1>3. BaseVaddr \in Nat
    BY SMT DEF BaseVaddr
  <1>4. TextVaddr = BaseVaddr + PageSize
    BY DEF TextVaddr
  <1> HIDE DEF BaseVaddr
  <1> QED
    BY <1>1, <1>2, <1>3, <1>4

(* The complete table has the names of the functions.                      *)
LEMMA NamedFunctions ==
  ASSUME Inv, stage \in LinkStages, stage # "collect", NEW n
  PROVE  Named(symtab, n) <=> \E i, f : HasFunction(i, f, n)
  <1>1. \A j \in DOMAIN symtab : symtab[j].defined
    BY DEF Inv, LinkInv, TableInv
  <1>2. \A i, f : HasFunction(i, f, n) => \E j \in DOMAIN symtab : symtab[j].name = n
    BY TableComplete
  <1>3. \A j \in DOMAIN symtab : symtab[j].name = n => \E i, f : HasFunction(i, f, n)
    BY <1>1, TableComplete
  <1> QED
    BY <1>2, <1>3 DEF Named

(* The program starts at _start when there is one, and else at main.       *)
LEMMA EntryNames ==
  ASSUME Inv, stage \in LinkStages, stage # "collect"
  PROVE  /\ EntryName = IF Named(symtab, "_start") THEN "_start" ELSE "main"
         /\ ~ Named(symtab, "_start") => Definitions("_start") = {}
         /\ ~ Named(symtab, "main") => Definitions("main") = {}
  <1>1. ASSUME NEW n, Definitions(n) # {} PROVE Named(symtab, n)
    <2>1. PICK w \in Definitions(n) : TRUE
      BY <1>1
    <2>2. \E i, f : HasFunction(i, f, n)
      BY <2>1, OwnerFacts
    <2> QED
      BY <2>2, NamedFunctions
  <1>2. ASSUME WithStartup PROVE Named(symtab, "_start")
    <2>1. "_start" \in StartupNames
      <3>1. 1 \in DOMAIN StartupUnit.functions /\ StartupUnit.functions[1].name = "_start"
        BY StartupUnitFacts
      <3> QED
        BY <3>1 DEF StartupNames
    <2>2. \E i, f : HasFunction(i, f, "_start")
      BY <1>2, <2>1, OwnerFacts
    <2> QED
      BY <2>2, NamedFunctions
  <1>3. ASSUME Named(symtab, "_start") PROVE WithStartup \/ Definitions("_start") # {}
    <2>1. PICK i, f : HasFunction(i, f, "_start")
      BY <1>3, NamedFunctions
    <2>2. i <= Len(units) => <<i, f>> \in Definitions("_start")
      BY <2>1, OwnerFacts
    <2>3. ~ (i <= Len(units)) => WithStartup
      BY <2>1, OwnerFacts
    <2> QED
      BY <2>2, <2>3
  <1> QED
    BY <1>1, <1>2, <1>3 DEF EntryName

(* The address of a function.                                              *)
LEMMA AddressOfFunction ==
  ASSUME Inv, stage \in LinkStages, stage # "collect", NEW i, NEW f, NEW n, HasFunction(i, f, n)
  PROVE  FunctionAddress(n) = TextVaddr + image.textOff[i] + FunctionStart(UnitOf(i), f)
  <1>1. ASSUME NEW v \in FunctionsNamed(n) PROVE v = <<i, f>>
    <2>1. v \in FunctionsOf(Len(objects)) /\ NameOf(v) = n
      BY <1>1 DEF FunctionsNamed
    <2>2. PICK j \in 1 .. Len(objects) : v \in {j} \X DOMAIN UnitOf(j).functions
      BY <2>1 DEF FunctionsOf
    <2>3. PICK g \in DOMAIN UnitOf(j).functions : v = <<j, g>>
      BY <2>2
    <2>4. j \in DOMAIN objects
      BY DEF Inv, Shape
    <2>5. g \in 1 .. FunctionCount(j)
      BY <2>4, ObjectSyms
    <2>6. UnitOf(j).functions[g].name = n
      BY <2>1, <2>3 DEF NameOf
    <2>7. HasFunction(j, g, n)
      BY <2>4, <2>5, <2>6 DEF HasFunction
    <2>8. j = i /\ g = f
      BY <2>7, TableComplete
    <2> QED
      BY <2>3, <2>8
  <1>2. <<i, f>> \in FunctionsNamed(n)
    <2>1. i \in DOMAIN objects /\ f \in DOMAIN UnitOf(i).functions /\ UnitOf(i).functions[f].name = n
      BY ObjectSyms DEF HasFunction
    <2>2. i \in 1 .. Len(objects)
      BY <2>1 DEF Inv, Shape
    <2>3. <<i, f>> \in {i} \X DOMAIN UnitOf(i).functions
      BY <2>1
    <2>4. <<i, f>> \in FunctionsOf(Len(objects))
      BY <2>2, <2>3 DEF FunctionsOf
    <2>5. NameOf(<<i, f>>) = n
      BY <2>1 DEF NameOf
    <2> QED
      BY <2>4, <2>5 DEF FunctionsNamed
  <1> DEFINE w == CHOOSE v \in FunctionsNamed(n) : TRUE
  <1>3. w = <<i, f>>
    BY <1>1, <1>2
  <1>4. FunctionAddress(n) = TextVaddr + image.textOff[w[1]] + FunctionStart(UnitOf(w[1]), w[2])
    BY DEF FunctionAddress
  <1> HIDE DEF w
  <1>5. w[1] = i /\ w[2] = f
    BY <1>3
  <1> QED
    BY <1>4, <1>5

LEMMA SameAddress ==
  ASSUME UNCHANGED <<units, objects>>, image'.textOff = image.textOff
  PROVE  /\ \A n : FunctionAddress(n)' = FunctionAddress(n)
         /\ FunctionAddress(EntryName)' = FunctionAddress(EntryName)
  <1>1. \A n : FunctionAddress(n)' = FunctionAddress(n)
    BY DEF FunctionAddress, FunctionsNamed, FunctionsOf, NameOf, UnitOf
  <1>2. EntryName' = EntryName
    BY SameProgram
  <1> QED
    BY <1>1, <1>2 DEF FunctionAddress

(* When all sections are merged an entry of the table lies in the code.    *)
LEMMA EntryPlace ==
  ASSUME Inv, stage = "merge", at > Len(objects), NEW j \in DOMAIN symtab
  PROVE  LET g == symtab[j]
             v == VaddrIn(g.object, g.section, g.value)
         IN  /\ v = TextVaddr + image.textOff[g.object] + g.value
             /\ v \in Int /\ v \in TextVaddr .. TextVaddr + Len(image.text) - 1
             /\ \E f : HasFunction(g.object, f, g.name) /\ g.value = objects[g.object].syms[3 + f].value
  <1> DEFINE g == symtab[j]
             v == VaddrIn(g.object, g.section, g.value)
             off == image.textOff[g.object]
             size == Len(objects[g.object].text)
             total == Len(image.text)
  <1>1. stage \in LinkStages /\ stage # "collect"
    BY DEF LinkStages
  <1>2. symtab[j].defined
    BY <1>1 DEF Inv, LinkInv, TableInv
  <1>3. PICK i, k : /\ i \in DOMAIN objects /\ k \in DOMAIN objects[i].syms /\ IsEntryOf(j, i, k)
                    /\ HasFunction(i, k - 3, g.name)
    BY <1>1, <1>2, TableComplete
  <1>4. /\ g.object = i /\ g.section = objects[i].syms[k].section /\ g.value = objects[i].syms[k].value
    BY <1>3 DEF IsEntryOf
  <1>5. k \in Nat /\ i \in Nat
    BY <1>3, GlobalFacts
  <1>6. 3 + (k - 3) = k
    BY <1>5
  <1>7. objects[i].syms[k].section # "undef" /\ objects[i].syms[k].bind = "global"
    <2>1. objects[i].syms[3 + (k - 3)].section # "undef" /\ objects[i].syms[3 + (k - 3)].bind = "global"
      BY <1>3, FunctionGlobal
    <2> QED
      BY <1>6, <2>1
  <1>8. g.section = "text" /\ g.value < size
    BY <1>3, <1>4, <1>7, GlobalFacts
  <1>9. g.value \in Nat
    <2>1. g \in Global
      BY DEF Inv, LinkerTypes
    <2> QED
      BY <2>1, FieldFacts
  <1>10. \E f : HasFunction(g.object, f, g.name) /\ g.value = objects[g.object].syms[3 + f].value
    BY <1>3, <1>4, <1>6
  <1>11. /\ objects \in Seq(Object) /\ at \in Nat /\ image \in Image
         /\ at <= Len(objects) + 1 /\ Len(image.textOff) = at - 1 /\ \A m \in 1 .. at - 1 : Inside(m)
    BY DEF Inv, Shape, LinkerTypes, LinkInv, ImageInv
  <1>12. i \in 1 .. at - 1
    BY <1>3, <1>11
  <1>13. off + size <= total
    BY <1>4, <1>11, <1>12 DEF Inside
  <1>14. off \in Nat /\ total \in Nat
    <2>1. image.textOff \in Seq(Nat) /\ image.text \in Seq(Byte)
      BY <1>11, ImageFields
    <2>2. i \in DOMAIN image.textOff
      BY <1>11, <1>12, <2>1
    <2> QED
      BY <1>4, <2>1, <2>2, SeqAt
  <1>15. size \in Nat
    <2>1. objects[i] \in Object
      BY <1>3, ObjectSyms
    <2>2. objects[i].text \in Seq(Byte)
      BY <2>1 DEF Object
    <2> QED
      BY <1>4, <2>2
  <1>16. v = TextVaddr + off + g.value
    BY <1>8 DEF VaddrIn
  <1> HIDE DEF g, v, off, size, total
  <1>17. TextVaddr \in Nat
    BY Addresses
  <1>18. v \in Int /\ v \in TextVaddr .. TextVaddr + total - 1
    BY <1>8, <1>9, <1>13, <1>14, <1>15, <1>16, <1>17
  <1> QED
    BY <1>10, <1>16, <1>18 DEF g, v, off, total

LEMMA ComputeAddressesKeeps == Inv /\ ComputeAddresses => Inv'
  <1> SUFFICES ASSUME Inv, ComputeAddresses PROVE Inv'
    OBVIOUS
  <1> DEFINE v(j) == VaddrIn(symtab[j].object, symtab[j].section, symtab[j].value)
             t == symtab'
             named == Named(symtab, "_start") \/ Named(symtab, "main")
  <1>1. /\ stage = "merge" /\ at > Len(objects) /\ UNCHANGED <<units, objects>> /\ UNCHANGED compiler
        /\ t = [j \in DOMAIN symtab |-> [symtab[j] EXCEPT !.vaddr = v(j)]]
    BY DEF ComputeAddresses
  <1>2. /\ stage \in LinkStages /\ stage # "collect" /\ symtab \in Seq(Global) /\ image \in Image
        /\ Len(image.textOff) = Len(image.rodataOff)
    BY <1>1 DEF LinkStages, Inv, LinkerTypes
  <1>3. \A j \in DOMAIN symtab : /\ v(j) \in Int /\ v(j) \in TextVaddr .. TextVaddr + Len(image.text) - 1
                                 /\ v(j) = TextVaddr + image.textOff[symtab[j].object] + symtab[j].value
    BY <1>1, EntryPlace
  <1> HIDE DEF v
  <1>4. ASSUME NEW g \in Global, NEW a \in Int
        PROVE  /\ [g EXCEPT !.vaddr = a] \in Global
               /\ [g EXCEPT !.vaddr = a].vaddr = a /\ [g EXCEPT !.vaddr = a].name = g.name
               /\ [g EXCEPT !.vaddr = a].object = g.object /\ [g EXCEPT !.vaddr = a].section = g.section
               /\ [g EXCEPT !.vaddr = a].value = g.value /\ [g EXCEPT !.vaddr = a].defined = g.defined
    BY DEF Global
  <1>5. \A j \in DOMAIN symtab : symtab[j] \in Global
    BY <1>2, SeqAt
  <1>6. DOMAIN t = DOMAIN symtab /\ \A j \in DOMAIN symtab : t[j] = [symtab[j] EXCEPT !.vaddr = v(j)]
    BY <1>1
  <1>7. \A j \in DOMAIN symtab : /\ t[j] \in Global /\ t[j].vaddr = v(j)
                                 /\ t[j].name = symtab[j].name /\ t[j].object = symtab[j].object
                                 /\ t[j].section = symtab[j].section /\ t[j].value = symtab[j].value
                                 /\ t[j].defined = symtab[j].defined
    <2> TAKE j \in DOMAIN symtab
    <2> DEFINE g == symtab[j]
               a == v(j)
    <2>1. g \in Global /\ a \in Int /\ t[j] = [g EXCEPT !.vaddr = a]
      BY <1>3, <1>5, <1>6
    <2> HIDE DEF g, a
    <2>2. /\ t[j] \in Global /\ t[j].vaddr = a /\ t[j].name = g.name /\ t[j].object = g.object
          /\ t[j].section = g.section /\ t[j].value = g.value /\ t[j].defined = g.defined
      BY <1>4, <2>1
    <2> QED
      BY <2>2 DEF g, a
  <1>8. t \in Seq(Global)
    <2>1. Len(symtab) \in Nat /\ DOMAIN symtab = 1 .. Len(symtab)
      BY <1>2, SeqAt
    <2>2. t \in [1 .. Len(symtab) -> Global]
      BY <1>1, <1>6, <1>7, <2>1
    <2> QED
      BY <2>1, <2>2, FcnSeq
  <1>9. \A n : Named(t, n) <=> Named(symtab, n)
    BY <1>6, <1>7 DEF Named
  <1>10. CASE named
    <2> DEFINE n == IF Named(symtab, "_start") THEN "_start" ELSE "main"
               j == Find(t, n)
               entry == EntryOf(t)
    <2>1. image' = [image EXCEPT !.entry = entry] /\ stage' = "relocate" /\ at' = 1 /\ item' = 1 /\ error' = error
      BY <1>10 DEF ComputeAddresses, Goto
    <2>2. Named(t, n) /\ n \in {"_start", "main"}
      BY <1>9, <1>10
    <2>3. entry = t[j].vaddr
      BY <1>9 DEF EntryOf
    <2>4. EntryName = n
      BY <1>2, EntryNames
    <2> HIDE DEF n, entry, t
    <2>5. j \in DOMAIN symtab /\ t[j].name = n
      BY <1>6, <1>8, <2>2, SeqAt, FindFirst
    <2> HIDE DEF j
    <2> DEFINE i == symtab[j].object
    <2>6. PICK f : HasFunction(i, f, n) /\ symtab[j].value = objects[i].syms[3 + f].value
      BY <1>1, <1>7, <2>5, EntryPlace
    <2>7. symtab[j].value = FunctionStart(UnitOf(i), f)
      BY <2>2, <2>6, FunctionValue
    <2>8. FunctionAddress(n) = TextVaddr + image.textOff[i] + FunctionStart(UnitOf(i), f)
      BY <1>2, <2>6, AddressOfFunction
    <2>9. entry = FunctionAddress(EntryName) /\ entry \in TextVaddr .. TextVaddr + Len(image.text) - 1 /\ entry \in Int
      BY <1>3, <1>7, <2>3, <2>4, <2>5, <2>7, <2>8
    <2>10. /\ image.text \in Seq(Byte) /\ image.rodata \in Seq(Cell) /\ image.textOff \in Seq(Nat)
           /\ image.rodataOff \in Seq(Nat) /\ image.entry \in Int
           /\ image = [text |-> image.text, rodata |-> image.rodata, textOff |-> image.textOff,
                     rodataOff |-> image.rodataOff, entry |-> image.entry]
      BY <1>2, ImageFields
    <2>11. image' = [text |-> image.text, rodata |-> image.rodata, textOff |-> image.textOff,
                     rodataOff |-> image.rodataOff, entry |-> entry]
      BY <2>1, <2>10
    <2>12. /\ image'.text = image.text /\ image'.textOff = image.textOff /\ image'.rodataOff = image.rodataOff
           /\ image'.entry = entry
      BY <2>11
    <2>13. image' \in Image
      BY <2>9, <2>10, <2>11 DEF Image
    <2>14. ImageInv'
      <3>1. /\ objects \in Seq(Object) /\ at \in Nat
            /\ at <= Len(objects) + 1 /\ Len(image.textOff) = at - 1 /\ \A m \in 1 .. at - 1 : Inside(m)
        BY <1>1 DEF Inv, Shape, LinkInv, ImageInv
      <3>2. at = Len(objects) + 1 /\ DOMAIN objects = 1 .. Len(objects) /\ Len(objects) \in Nat
        BY <1>1, <3>1
      <3>3. Len(image.textOff) = Len(objects) /\ \A m \in DOMAIN objects : Inside(m)
        BY <3>1, <3>2
      <3>4. \A m \in DOMAIN objects : Inside(m)'
        BY <1>1, <2>12, <3>3 DEF Inside
      <3>5. FunctionAddress(EntryName)' = FunctionAddress(EntryName)
        BY <1>1, <2>12, SameAddress
      <3>6. stage' = "relocate" /\ objects' = objects
        BY <1>1, <2>1
      <3> QED
        BY <2>9, <2>12, <3>3, <3>4, <3>5, <3>6 DEF ImageInv, TextVaddr
    <2>15. stage' \in LinkStages /\ stage' # "collect"
      BY <2>1 DEF LinkStages
    <2>16. TableInv'
      BY <1>1, <1>2, <1>6, <1>7, <2>15, TableKept DEF t
    <2>17. Len(image'.textOff) = Len(image'.rodataOff) /\ at' \in Nat \ {0} /\ item' \in Nat \ {0}
      BY <1>2, <2>1, <2>12
    <2> QED
      BY <1>1, <1>8, <2>1, <2>13, <2>14, <2>16, <2>17, ImageKeeps DEF t
  <1>11. CASE ~ named
    <2>1. Fail("no entry point") /\ UNCHANGED <<at, item, image>>
      BY <1>11 DEF ComputeAddresses
    <2>2. Definitions("main") = {} /\ Definitions("_start") = {}
      BY <1>2, <1>11, EntryNames
    <2> QED
      BY <1>1, <1>2, <1>8, <2>1, <2>2, FailKeeps
  <1> QED
    BY <1>10, <1>11

(* A relocation has a target: its symbol exists, and a global one is in    *)
(* the table.                                                              *)
LEMMA TargetFacts ==
  ASSUME Inv, stage = "relocate", at \in DOMAIN objects, NEW r \in Rela, r.sym < Len(objects[at].syms)
  PROVE  Target(at, r) \in Int
  <1> DEFINE syms == objects[at].syms
             k == r.sym + 1
             s == syms[k]
  <1>1. stage \in LinkStages /\ stage # "collect"
    BY DEF LinkStages
  <1>2. Len(syms) \in Nat /\ DOMAIN syms = 1 .. Len(syms) /\ r.sym \in Nat
    BY ObjectSyms, FieldFacts DEF IsList
  <1> HIDE DEF syms
  <1>3. k \in DOMAIN syms
    BY <1>2 DEF syms
  <1> HIDE DEF k
  <1> USE DEF syms
  <1>4. s \in SymRecord
    BY <1>3, GlobalFacts
  <1>5. Target(at, r) = IF s.type = "section" \/ s.bind = "local" THEN VaddrIn(at, s.section, s.value)
                        ELSE symtab[Find(symtab, s.name)].vaddr
    BY DEF Target, k
  <1>6. CASE s.type = "section" \/ s.bind = "local"
    <2> DEFINE sec == s.section
               val == s.value
    <2>1. sec \in Sections /\ val \in Nat
      BY <1>4, FieldFacts
    <2> HIDE DEF sec, val
    <2>2. /\ image \in Image /\ objects \in Seq(Object) /\ Len(image.textOff) = Len(image.rodataOff)
          /\ Len(image.textOff) = Len(objects)
      BY DEF Inv, Shape, LinkerTypes, LinkInv, ImageInv
    <2>3. image.textOff \in Seq(Nat) /\ image.rodataOff \in Seq(Nat) /\ image.text \in Seq(Byte)
      BY <2>2, ImageFields
    <2>4. at \in DOMAIN image.textOff /\ at \in DOMAIN image.rodataOff
      <3>1. DOMAIN objects = 1 .. Len(objects)
        BY <2>2, SeqAt
      <3>2. DOMAIN image.textOff = 1 .. Len(image.textOff) /\ DOMAIN image.rodataOff = 1 .. Len(image.rodataOff)
        BY <2>3, SeqAt
      <3> QED
        BY <2>2, <3>1, <3>2
    <2>5. image.textOff[at] \in Nat /\ image.rodataOff[at] \in Nat
      BY <2>3, <2>4, SeqAt
    <2>6. TextVaddr \in Nat /\ RodataVaddr \in Int
      <3>1. TextVaddr \in Nat /\ PageSize \in Nat /\ PageSize > 0
        BY Addresses
      <3>2. Len(image.text) \in Nat
        BY <2>3
      <3>3. TextSpan(Len(image.text)) \in Int
        BY <3>1, <3>2 DEF TextSpan, align_to
      <3> QED
        BY <3>1, <3>3 DEF RodataVaddr
    <2>7. sec = "text" => VaddrIn(at, sec, val) = TextVaddr + image.textOff[at] + val
      BY DEF VaddrIn
    <2>8. sec = "rodata" => VaddrIn(at, sec, val) = RodataVaddr + image.rodataOff[at] + val
      BY DEF VaddrIn
    <2>9. sec \in {"undef", "abs"} => VaddrIn(at, sec, val) = 0
      BY DEF VaddrIn
    <2>10. VaddrIn(at, sec, val) \in Int
      BY <2>1, <2>5, <2>6, <2>7, <2>8, <2>9 DEF Sections
    <2> QED
      BY <1>5, <1>6, <2>10 DEF sec, val
  <1>7. CASE ~ (s.type = "section" \/ s.bind = "local")
    <2>1. s.bind = "global"
      BY <1>4, <1>7, FieldFacts
    <2>2. Visited(at, k)
      BY <1>1, <1>3, <2>1, AllVisited
    <2>3. Named(symtab, s.name)
      BY <1>1, <2>2 DEF Inv, LinkInv, TableInv
    <2>4. symtab \in Seq(Global)
      BY DEF Inv, LinkerTypes
    <2> DEFINE j == Find(symtab, s.name)
    <2>5. j \in DOMAIN symtab
      BY <2>3, <2>4, SeqAt, FindFirst
    <2> HIDE DEF j
    <2>6. symtab[j].vaddr \in Int
      BY <2>4, <2>5, SeqAt, FieldFacts
    <2> QED
      BY <1>5, <1>7, <2>6 DEF j
  <1> QED
    BY <1>6, <1>7

LEMMA PatchedFacts ==
  ASSUME NEW cells \in Seq(Byte), NEW offset \in Int, NEW bytes, Code(bytes, 4)
  PROVE  Patched(cells, offset, bytes) \in Seq(Byte) /\ Len(Patched(cells, offset, bytes)) = Len(cells)
  <1> DEFINE n == Len(cells)
             p == Patched(cells, offset, bytes)
  <1>1. n \in Nat /\ DOMAIN cells = 1 .. n /\ \A k \in 1 .. n : cells[k] \in Byte
    BY SeqAt
  <1>2. \A k \in 1 .. 4 : bytes[k] \in Byte
    <2>1. bytes \in Seq(Byte) /\ Len(bytes) = 4
      BY DEF Code
    <2> QED
      BY <2>1, SeqAt
  <1> HIDE DEF n
  <1>3. p = [k \in 1 .. n |-> IF k - offset \in 1 .. 4 THEN bytes[k - offset] ELSE cells[k]]
    BY <1>1 DEF Patched
  <1> HIDE DEF p
  <1>4. p \in [1 .. n -> Byte]
    BY <1>1, <1>2, <1>3
  <1>5. p \in Seq(Byte) /\ Len(p) = n
    BY <1>1, <1>4, FcnSeq
  <1> QED
    BY <1>5 DEF p, n

(* The last steps leave the parts of the objects where they are.           *)
LEMMA PlacesKept ==
  ASSUME Inv, stage = "relocate", stage' \in {"relocate", "linked"},
         UNCHANGED <<units, objects, symtab, error>>, UNCHANGED compiler,
         at' \in Nat \ {0}, item' \in Nat \ {0}, image' \in Image,
         image'.textOff = image.textOff, image'.rodataOff = image.rodataOff, image'.entry = image.entry,
         Len(image'.text) = Len(image.text)
  PROVE  Inv'
  <1>1. stage \in LinkStages /\ stage' \in LinkStages /\ stage' # "collect" /\ stage # "collect"
        /\ stage' \notin {"collect", "merge"}
    BY DEF LinkStages
  <1>2. symtab \in Seq(Global) /\ Len(image.textOff) = Len(image.rodataOff)
    BY DEF Inv, LinkerTypes
  <1>3. TableInv'
    BY <1>1, TableKept
  <1>4. /\ Len(image.textOff) = Len(objects) /\ \A i \in DOMAIN objects : Inside(i)
        /\ image.entry = FunctionAddress(EntryName)
        /\ image.entry \in TextVaddr .. TextVaddr + Len(image.text) - 1
    BY DEF Inv, LinkInv, ImageInv
  <1>5. FunctionAddress(EntryName)' = FunctionAddress(EntryName)
    BY SameAddress
  <1>6. \A i \in DOMAIN objects : Inside(i)'
    BY <1>4 DEF Inside
  <1>7. ImageInv'
    BY <1>1, <1>4, <1>5, <1>6 DEF ImageInv, TextVaddr
  <1> QED
    BY <1>2, <1>3, <1>7, ImageKeeps

LEMMA RelocateKeeps == Inv /\ Relocate => Inv'
  <1> SUFFICES ASSUME Inv, Relocate PROVE Inv'
    OBVIOUS
  <1> DEFINE r == objects[at].relas[item]
             offset == PatchOffset(at, r)
             val == PatchValue(at, r)
             fits == FitsInt32(val)
  <1>1. /\ stage = "relocate" /\ at <= Len(objects) /\ item <= Len(objects[at].relas)
        /\ UNCHANGED <<units, objects, symtab>> /\ UNCHANGED compiler
    BY DEF Relocate
  <1>2. /\ fits => /\ image' = [image EXCEPT !.text = Patched(image.text, offset, Bytes4(val))]
                   /\ NextItem /\ UNCHANGED <<stage, error>>
        /\ ~ fits => Fail("relocation out of range") /\ UNCHANGED <<at, item, image>>
    BY DEF Relocate
  <1>3. at \in DOMAIN objects /\ at \in Nat \ {0} /\ item \in Nat \ {0}
    BY <1>1 DEF Inv, Shape
  <1>4. objects[at].relas \in Seq(Rela) /\ ValidObject(objects[at])
    <2>1. objects[at] \in Object /\ ValidObject(objects[at])
      BY <1>3, ObjectSyms
    <2> QED
      BY <2>1 DEF Object
  <1>5. item \in DOMAIN objects[at].relas
    BY <1>1, <1>3, <1>4
  <1>6. r \in Rela /\ r.sym < Len(objects[at].syms)
    BY <1>4, <1>5, SeqAt DEF ValidObject
  <1>7. r.offset \in Nat /\ r.addend \in Int
    BY <1>6, FieldFacts
  <1>8. Target(at, r) \in Int
    BY <1>1, <1>3, <1>6, TargetFacts
  <1> HIDE DEF r
  <1>9. /\ image \in Image /\ objects \in Seq(Object) /\ Len(image.textOff) = Len(objects)
        /\ stage \in LinkStages /\ symtab \in Seq(Global)
    BY <1>1 DEF Inv, Shape, LinkerTypes, LinkInv, ImageInv, LinkStages
  <1>10. /\ image.text \in Seq(Byte) /\ image.rodata \in Seq(Cell) /\ image.textOff \in Seq(Nat)
         /\ image.rodataOff \in Seq(Nat) /\ image.entry \in Int
         /\ image = [text |-> image.text, rodata |-> image.rodata, textOff |-> image.textOff,
                     rodataOff |-> image.rodataOff, entry |-> image.entry]
    BY <1>9, ImageFields
  <1>11. image.textOff[at] \in Nat
    <2>1. at \in DOMAIN image.textOff
      BY <1>3, <1>9, <1>10
    <2> QED
      BY <1>10, <2>1, SeqAt
  <1>12. offset \in Int /\ val \in Int
    <2>1. TextVaddr \in Nat
      BY Addresses
    <2> QED
      BY <1>7, <1>8, <1>11, <2>1 DEF PatchOffset, PatchValue
  <1> HIDE DEF offset, val, fits
  <1>13. CASE fits
    <2> DEFINE p == Patched(image.text, offset, Bytes4(val))
    <2>1. p \in Seq(Byte) /\ Len(p) = Len(image.text)
      BY <1>10, <1>12, CodeBytes4, PatchedFacts
    <2>2. image' = [image EXCEPT !.text = p] /\ at' = at /\ item' = item + 1 /\ UNCHANGED <<stage, error>>
      BY <1>2, <1>13 DEF NextItem
    <2> HIDE DEF p
    <2>3. image' = [text |-> p, rodata |-> image.rodata, textOff |-> image.textOff,
                    rodataOff |-> image.rodataOff, entry |-> image.entry]
      BY <1>10, <2>2
    <2>4. /\ image'.text = p /\ image'.textOff = image.textOff /\ image'.rodataOff = image.rodataOff
          /\ image'.entry = image.entry
      BY <2>3
    <2>5. image' \in Image
      BY <1>10, <2>1, <2>3 DEF Image
    <2>6. at' \in Nat \ {0} /\ item' \in Nat \ {0} /\ stage' \in {"relocate", "linked"}
      BY <1>1, <1>3, <2>2
    <2>7. Len(image'.text) = Len(image.text)
      BY <2>1, <2>4
    <2> QED
      BY <1>1, <2>2, <2>4, <2>5, <2>6, <2>7, PlacesKept
  <1>14. CASE ~ fits
    <2>1. Fail("relocation out of range") /\ UNCHANGED <<at, item, image>> /\ symtab' \in Seq(Global)
      BY <1>1, <1>2, <1>9, <1>14
    <2> QED
      BY <1>1, <1>9, <2>1, FailKeeps
  <1> QED
    BY <1>13, <1>14

LEMMA ObjectRelocatedKeeps == Inv /\ ObjectRelocated => Inv'
  <1> SUFFICES ASSUME Inv, ObjectRelocated PROVE Inv'
    OBVIOUS
  <1>1. /\ stage = "relocate" /\ stage' = "relocate" /\ at' = at + 1 /\ item' = 1
        /\ UNCHANGED <<units, objects, symtab, image, error>> /\ UNCHANGED compiler
    BY DEF ObjectRelocated, NextObject
  <1>2. at' \in Nat \ {0} /\ item' \in Nat \ {0} /\ image' \in Image
    BY <1>1 DEF Inv, Shape, LinkerTypes
  <1> QED
    BY <1>1, <1>2, PlacesKept

LEMMA WriteExecutableKeeps == Inv /\ WriteExecutable => Inv'
  <1> SUFFICES ASSUME Inv, WriteExecutable PROVE Inv'
    OBVIOUS
  <1>1. /\ stage = "relocate" /\ stage' = "linked" /\ at' = 1 /\ item' = 1
        /\ UNCHANGED <<units, objects, symtab, image, error>> /\ UNCHANGED compiler
    BY DEF WriteExecutable, Goto
  <1>2. at' \in Nat \ {0} /\ item' \in Nat \ {0} /\ image' \in Image
    BY <1>1 DEF Inv, Shape, LinkerTypes
  <1> QED
    BY <1>1, <1>2, PlacesKept

-----------------------------------------------------------------------------
(* The invariant holds.                                                    *)

LEMMA InitKeeps == Init => Inv
  <1> SUFFICES ASSUME Init PROVE Inv
    OBVIOUS
  <1>1. /\ units \in Programs /\ stage = "strings" /\ at = 1 /\ item = 1
        /\ rodata = << >> /\ rodata_map = << >>
        /\ text = << >> /\ relocs = << >> /\ fn_start_pc = 0 /\ pc = 0 /\ labels = << >>
        /\ symbols = << >> /\ symtab_entries = LocalSyms /\ objects = << >> /\ symtab = << >>
        /\ image = Image0 /\ error = "none"
    BY DEF Init, Image0
  <1>2. /\ stage \in CompileStages /\ stage \notin LinkStages
        /\ stage \notin {"floats", "read", "failed", "collect", "merge", "relocate", "linked"}
        /\ stage \notin CodeStages /\ stage \notin SymbolStages
        /\ stage \notin {"measure", "encode", "resolve", "defined", "undefined"}
    BY <1>1 DEF CompileStages, CodeStages, SymbolStages, LinkStages
  <1>3. Len(units) \in Nat \ {0}
    BY <1>1, UnitFacts
  <1>4. objects \in Seq(Object) /\ Len(objects) = 0 /\ DOMAIN objects = {}
    BY <1>1
  <1>5. image \in Image /\ Len(image.textOff) = Len(image.rodataOff)
    BY <1>1 DEF Image, Image0
  <1>6. Shape
    BY <1>1, <1>2, <1>3, <1>4 DEF Shape
  <1>7. CompilerTypes
    BY <1>1, LocalFacts DEF CompilerTypes
  <1>8. LinkerTypes
    BY <1>1, <1>5 DEF LinkerTypes
  <1>9. DataInv
    <2>1. Strings(CurrentUnit) \in Seq(Constant)
      BY <1>2, <1>6, CurrentFacts, ConstantFacts
    <2>2. Len(Strings(CurrentUnit)) \in Nat
      BY <2>1
    <2>3. Len(rodata_map) = 0 /\ DOMAIN rodata_map = {}
      BY <1>1
    <2> QED
      BY <1>1, <1>2, <2>2, <2>3 DEF DataInv
  <1>10. PositionInv
    BY <1>1, <1>2 DEF PositionInv
  <1>11. SymbolInv
    <2>1. DOMAIN symbols = {}
      BY <1>1
    <2> QED
      BY <1>1, <1>2, <2>1 DEF SymbolInv
  <1>12. RelocInv
    <2>1. DOMAIN relocs = {}
      BY <1>1
    <2> QED
      BY <1>1, <1>2, <2>1 DEF RelocInv
  <1>13. SymtabInv
    <2>1. Written = 0
      BY <1>1 DEF Written
    <2>2. Len(symtab_entries) = 3 + Written
      BY <1>1, <2>1, LocalFacts
    <2>3. \A k \in DOMAIN symtab_entries : k <= 3 /\ symtab_entries[k] = LocalSyms[k]
      BY <1>1, LocalFacts
    <2> QED
      BY <1>2, <2>2, <2>3 DEF SymtabInv
  <1>14. ObjectsInv
    BY <1>2, <1>4 DEF ObjectsInv
  <1>15. TableInv /\ ImageInv
    BY <1>2 DEF TableInv, ImageInv
  <1>16. VerdictInv
    BY <1>1, <1>2 DEF VerdictInv
  <1> QED
    BY <1>6, <1>7, <1>8, <1>9, <1>10, <1>11, <1>12, <1>13, <1>14, <1>15, <1>16 DEF Inv, CompileInv, LinkInv

LEMMA StutterKeeps == Inv /\ UNCHANGED vars => Inv'
  <1> SUFFICES ASSUME Inv, UNCHANGED vars PROVE Inv'
    OBVIOUS
  <1>1. UNCHANGED <<units, stage, at, item, rodata, rodata_map, text, relocs, fn_start_pc, pc, labels,
                    symbols, symtab_entries, objects, symtab, image, error>>
    BY DEF vars, data, code, linker
  <1>2. CurrentUnit' = CurrentUnit /\ CurrentList' = CurrentList
    BY <1>1 DEF CurrentUnit, CurrentList
  <1>3. Shape' /\ CompilerTypes' /\ LinkerTypes'
    BY <1>1 DEF Inv, Shape, CompilerTypes, LinkerTypes
  <1>4. DataInv'
    BY <1>1, <1>2 DEF Inv, CompileInv, DataInv
  <1>5. PositionInv'
    BY <1>1, <1>2 DEF Inv, CompileInv, PositionInv, Within
  <1>6. SymbolInv'
    <2>1. \A f : FunctionSymbol(f)' = FunctionSymbol(f)
      BY <1>2 DEF FunctionSymbol
    <2> QED
      BY <1>1, <1>2, <2>1 DEF Inv, CompileInv, SymbolInv
  <1>7. RelocInv'
    <2>1. \A f, k : (Passed(f, k)' <=> Passed(f, k)) /\ SymbolAt(f, k)' = SymbolAt(f, k)
      BY <1>1, <1>2 DEF Passed, SymbolAt
    <2> QED
      BY <1>1, <1>2, <2>1 DEF Inv, CompileInv, RelocInv
  <1>8. SymtabInv'
    <2>1. Written' = Written
      BY <1>1, <1>2 DEF Written
    <2> QED
      BY <1>1, <1>2, <2>1 DEF Inv, CompileInv, SymtabInv
  <1>9. ObjectsInv'
    BY <1>1, SameProgram DEF Inv, ObjectsInv
  <1>10. TableInv'
    <2>1. \A i, k : (Visited(i, k)' <=> Visited(i, k)) /\ (DefinedAt(i, k)' <=> DefinedAt(i, k))
      BY <1>1 DEF Visited, DefinedAt
    <2>2. \A j, i, k : IsEntryOf(j, i, k)' <=> IsEntryOf(j, i, k)
      BY <1>1 DEF IsEntryOf
    <2> QED
      BY <1>1, <2>1, <2>2 DEF Inv, LinkInv, TableInv
  <1>11. ImageInv'
    <2>1. \A i : Inside(i)' <=> Inside(i)
      BY <1>1 DEF Inside
    <2>2. FunctionAddress(EntryName)' = FunctionAddress(EntryName)
      BY <1>1, SameAddress
    <2> QED
      BY <1>1, <2>1, <2>2 DEF Inv, LinkInv, ImageInv, TextVaddr
  <1>12. VerdictInv'
    <2>1. /\ NamesUsed' = NamesUsed /\ NamesDefined' = NamesDefined /\ Linkable' = Linkable
          /\ \A n : Definitions(n)' = Definitions(n) /\ DefinitionCount(n)' = DefinitionCount(n)
      BY <1>1, SameProgram
    <2> QED
      BY <1>1, <2>1 DEF Inv, LinkInv, VerdictInv
  <1> QED
    BY <1>3, <1>4, <1>5, <1>6, <1>7, <1>8, <1>9, <1>10, <1>11, <1>12 DEF Inv, CompileInv, LinkInv

(* The inductive invariant: at every step of the compiler and the linker   *)
(* the offsets, symbols and relocations follow the instructions of the     *)
(* program, the objects say what their units define and need, and the      *)
(* table, the merged sections and the verdict follow the objects.          *)
THEOREM InvSafe == Spec => []Inv
  <1>1. Init => Inv
    BY InitKeeps
  <1>2. Inv /\ [Next]_vars => Inv'
    <2> SUFFICES ASSUME Inv, [Next]_vars PROVE Inv'
      OBVIOUS
    <2>1. CASE AddString \/ AlignFloats \/ AddFloat \/ FloatsAdded
      BY <2>1, AddStringKeeps, AlignFloatsKeeps, AddFloatKeeps, FloatsAddedKeeps
    <2>2. CASE MeasureInstruction \/ FunctionMeasured \/ EncodeInstruction \/ FunctionEncoded \/ FunctionsEncoded
      BY <2>2, MeasureInstructionKeeps, FunctionMeasuredKeeps, EncodeInstructionKeeps, FunctionEncodedKeeps,
         FunctionsEncodedKeeps
    <2>3. CASE ResolveReloc \/ RelocsResolved \/ WriteSymbol \/ DefinedWritten \/ WriteObject
      BY <2>3, ResolveRelocKeeps, RelocsResolvedKeeps, WriteSymbolKeeps, DefinedWrittenKeeps, WriteObjectKeeps
    <2>4. CASE ReadObjects \/ CollectSymbol \/ SymbolsCollected \/ CheckUndefined
      BY <2>4, ReadObjectsKeeps, CollectSymbolKeeps, SymbolsCollectedKeeps, CheckUndefinedKeeps
    <2>5. CASE MergeSections \/ ComputeAddresses \/ Relocate \/ ObjectRelocated \/ WriteExecutable
      BY <2>5, MergeSectionsKeeps, ComputeAddressesKeeps, RelocateKeeps, ObjectRelocatedKeeps, WriteExecutableKeeps
    <2>6. CASE UNCHANGED vars
      BY <2>6, StutterKeeps
    <2> QED
      BY <2>1, <2>2, <2>3, <2>4, <2>5, <2>6 DEF Next
  <1> QED
    BY <1>1, <1>2, PTL DEF Spec

(* LinkDecision: whatever the program, the linker makes an executable only *)
(* when every name used or defined has exactly one definition, and a       *)
(* refusal of symtab_add, of the check for undefined symbols or of the     *)
(* search for an entry point gives a reason that is true of the program.   *)
THEOREM LinkDecisionSafe == Spec => []LinkDecision
  <1>1. Inv => LinkDecision
    <2> SUFFICES ASSUME Inv PROVE LinkDecision
      OBVIOUS
    <2>1. image \in Image
      BY DEF Inv, LinkerTypes
    <2>2. TypeOK
      <3>1. image.text \in Seq(Byte)
        BY <2>1, ImageFields
      <3>2. stage \in {"strings", "floats", "measure", "encode", "resolve", "defined", "undefined",
                       "read", "collect", "merge", "relocate", "linked", "failed"}
        BY DEF Inv, Shape, CompileStages, CodeStages, SymbolStages, LinkStages
      <3> QED
        BY <3>1, <3>2 DEF Inv, Shape, CompilerTypes, LinkerTypes, TypeOK
    <2>3. stage = "linked" => Linkable /\ image.entry = FunctionAddress(EntryName)
      BY DEF Inv, LinkInv, ImageInv, VerdictInv
    <2>4. VerdictInv
      BY DEF Inv, LinkInv
    <2> QED
      BY <2>2, <2>3, <2>4 DEF LinkDecision, VerdictInv, Linkable, EntryName
  <1> QED
    BY <1>1, InvSafe, PTL

-----------------------------------------------------------------------------
(* Pages.                                                                  *)

LEMMA MulMono ==
  ASSUME NEW x \in Int, NEW y \in Int, NEW p \in Nat, x <= y
  PROVE  x * p <= y * p /\ x * p \in Int
  <1> DEFINE z == y - x
  <1>1. z \in Nat /\ y = x + z
    OBVIOUS
  <1> HIDE DEF z
  <1>2. z * p \in Nat
    BY <1>1
  <1>3. (x + z) * p = x * p + z * p
    BY <1>1
  <1> QED
    BY <1>1, <1>2, <1>3

LEMMA DivMod ==
  ASSUME NEW a \in Int, NEW p \in Nat \ {0}
  PROVE  a \div p \in Int /\ a % p \in 0 .. p - 1 /\ a = (a \div p) * p + (a % p)
  <1> DEFINE d == a \div p
             m == a % p
  <1>1. d \in Int /\ m \in 0 .. p - 1 /\ a = p * d + m
    OBVIOUS
  <1> HIDE DEF d, m
  <1>2. p * d = d * p
    BY <1>1
  <1>3. d \in Int /\ m \in 0 .. p - 1 /\ a = d * p + m
    BY <1>1, <1>2
  <1> QED
    BY <1>3 DEF d, m

(* The page of an address, and the multiples of the page size.             *)
LEMMA DivBelow ==
  ASSUME NEW a \in Int, NEW q \in Int, NEW p \in Nat \ {0}, a < q * p
  PROVE  a \div p \in Int /\ a \div p < q
  <1> DEFINE d == a \div p
             m == a % p
  <1>1. d \in Int /\ m \in 0 .. p - 1 /\ a = d * p + m
    BY DivMod
  <1> HIDE DEF d, m
  <1>2. d * p \in Int /\ q * p \in Int
    BY <1>1
  <1>3. ASSUME q <= d PROVE FALSE
    <2>1. q * p <= d * p
      BY <1>1, <1>3, MulMono
    <2> QED
      BY <1>1, <1>2, <2>1
  <1> QED
    BY <1>1, <1>3 DEF d

LEMMA Multiple ==
  ASSUME NEW q \in Int, NEW p \in Nat \ {0}
  PROVE  (q * p) \div p = q /\ (q * p) % p = 0 /\ q * p \in Int
  <1> DEFINE a == q * p
             d == a \div p
             m == a % p
  <1>1. a \in Int /\ (q + 1) * p = a + p
    OBVIOUS
  <1>2. d \in Int /\ m \in 0 .. p - 1 /\ a = d * p + m
    BY <1>1, DivMod
  <1>3. d < q + 1
    <2>1. a < (q + 1) * p
      BY <1>1
    <2> QED
      BY <1>1, <2>1, DivBelow
  <1>4. a = q * p
    OBVIOUS
  <1> HIDE DEF a, d, m
  <1>5. d * p \in Int /\ (d + 1) * p = d * p + p
    BY <1>2
  <1>6. ASSUME d < q PROVE FALSE
    <2>1. (d + 1) * p <= q * p
      BY <1>2, <1>6, MulMono
    <2> QED
      BY <1>1, <1>2, <1>4, <1>5, <2>1
  <1>7. d = q
    BY <1>2, <1>3, <1>6
  <1>8. m = 0
    BY <1>1, <1>2, <1>4, <1>5, <1>7
  <1> QED
    BY <1>1, <1>7, <1>8 DEF a, d, m

(* The code takes q whole pages.                                           *)
LEMMA SpanFacts ==
  ASSUME NEW size \in Nat \ {0}
  PROVE  \E q \in Nat \ {0} : TextSpan(size) = q * PageSize /\ size <= q * PageSize
  <1> DEFINE p == PageSize
             a == size + p - 1
             q == a \div p
  <1>1. p \in Nat \ {0}
    BY Addresses
  <1>2. TextSpan(size) = q * p
    BY DEF TextSpan, align_to
  <1> HIDE DEF p
  <1>3. a \in Int
    BY <1>1
  <1>4. q \in Int /\ a % p \in 0 .. p - 1 /\ a = q * p + (a % p)
    BY <1>1, <1>3, DivMod
  <1> HIDE DEF q
  <1>5. q * p \in Int
    BY <1>1, <1>4
  <1>6. size <= q * p
    BY <1>1, <1>4, <1>5
  <1>7. q > 0
    <2>1. ASSUME q <= 0 PROVE FALSE
      <3>1. q * p <= 0 * p
        BY <1>1, <1>4, <2>1, MulMono
      <3>2. 0 * p = 0
        BY <1>1
      <3> QED
        BY <1>5, <1>6, <3>1, <3>2
    <2> QED
      BY <1>4, <2>1
  <1>8. q \in Nat \ {0}
    BY <1>4, <1>7
  <1> QED
    BY <1>2, <1>6, <1>8 DEF p

(* The segments of an executable: the headers in the page of the base      *)
(* address, the code in the pages behind it, the constants behind those.   *)
LEMMA SegmentPages ==
  ASSUME Inv, stage = "linked"
  PROVE  \E b, q \in Int :
            /\ q > 0
            /\ \A k \in DOMAIN Segments :
                  LET s == Segments[k]
                  IN  /\ s.off % PageSize = 0 /\ s.vaddr % PageSize = 0
                      /\ k = 1 => \A x \in PagesOf(s) : x = b
                      /\ k = 2 => \A x \in PagesOf(s) : b < x /\ x <= b + q
                      /\ k = 3 => \A x \in PagesOf(s) : x > b + q
            /\ DOMAIN Segments \subseteq {1, 2, 3}
  <1> DEFINE p == PageSize
             size == Len(image.text)
             rsize == Len(image.rodata)
             constants == image.rodata # << >>
             h == HeaderSize(IF constants THEN 4 ELSE 3)
             base == BaseVaddr
             tv == TextVaddr
             b == base \div p
             s1 == Segment(0, base, h)
             s2 == Segment(p, tv, size)
             s3 == Segment(p + TextSpan(size), RodataVaddr, rsize)
  <1>1. /\ p \in Nat \ {0} /\ base \in Nat /\ tv \in Nat /\ tv = base + p
    BY Addresses
  <1>2. base % p = 0
    BY PageAssumption
  <1>3. h \in Nat /\ 0 < h /\ h <= p
    <2>1. p \in Nat /\ p >= 64 + 56 * 4
      BY PageAssumption DEF HeaderSize
    <2>2. h = 64 + 56 * 4 \/ h = 64 + 56 * 3
      BY DEF HeaderSize
    <2> HIDE DEF h, p
    <2> QED
      BY <2>1, <2>2
  <1>4. image \in Image /\ image.entry \in tv .. tv + size - 1
    BY DEF Inv, LinkerTypes, LinkInv, ImageInv
  <1>5. size \in Nat /\ rsize \in Nat
    BY <1>4, ImageFields
  <1>6. size \in Nat \ {0}
    <2> HIDE DEF size, tv
    <2> QED BY <1>1, <1>4, <1>5
  <1>7. PICK q \in Nat \ {0} : TextSpan(size) = q * p /\ size <= q * p
    BY <1>6, SpanFacts
  <1>8. constants => RodataVaddr = tv + TextSpan(size)
    BY DEF RodataVaddr
  <1>9. Segments = <<s1, s2>> \o (IF constants THEN <<s3>> ELSE << >>)
    BY DEF Segments
  <1> DEFINE rv == RodataVaddr
             span == TextSpan(size)
  <1>10. /\ s1.off = 0 /\ s1.vaddr = base /\ s1.size = h
         /\ s2.off = p /\ s2.vaddr = tv /\ s2.size = size
         /\ s3.off = p + span /\ s3.vaddr = rv /\ s3.size = rsize
    BY DEF Segment
  <1> HIDE DEF s1, s2, s3, p, size, rsize, h, base, tv, rv, span, constants
  <1>11. base = b * p /\ b \in Int
    BY <1>1, <1>2, DivMod
  <1> HIDE DEF b
  <1>12. tv = (b + 1) * p /\ (constants => rv = (b + 1 + q) * p) /\ p + span = (1 + q) * p /\ p = 1 * p
    <2>1. (b + 1) * p = b * p + p /\ (b + 1 + q) * p = b * p + p + q * p /\ (1 + q) * p = p + q * p /\ 1 * p = p
      BY <1>1, <1>7, <1>11
    <2>2. span = q * p
      BY <1>7 DEF span
    <2>3. q * p \in Int /\ b * p \in Int
      BY <1>1, <1>7, <1>11
    <2>4. constants => rv = tv + span
      BY <1>8 DEF rv, span
    <2> QED
      BY <1>1, <1>11, <2>1, <2>2, <2>3, <2>4
  <1>13. /\ s1.off % p = 0 /\ s1.vaddr % p = 0 /\ s2.off % p = 0 /\ s2.vaddr % p = 0
         /\ s3.off % p = 0 /\ (constants => s3.vaddr % p = 0)
    <2>1. 0 % p = 0 /\ 0 = 0 * p
      BY <1>1
    <2>2. (1 * p) % p = 0 /\ ((b + 1) * p) % p = 0 /\ ((1 + q) * p) % p = 0 /\ ((b + 1 + q) * p) % p = 0
      BY <1>1, <1>7, <1>11, Multiple
    <2> QED
      BY <1>2, <1>10, <1>12, <2>1, <2>2
  <1>14. \A x \in PagesOf(s1) : x = b
    <2>1. PagesOf(s1) = (base \div p) .. ((base + h - 1) \div p)
      BY <1>10 DEF PagesOf, p
    <2>2. base \div p = b
      BY <1>1, <1>11, Multiple
    <2>3. (base + h - 1) \div p < b + 1 /\ (base + h - 1) \div p \in Int
      <3>1. base + h - 1 < (b + 1) * p /\ base + h - 1 \in Int
        BY <1>1, <1>3, <1>12
      <3> QED
        BY <1>1, <1>11, <3>1, DivBelow
    <2> QED
      BY <1>11, <2>1, <2>2, <2>3
  <1>15. \A x \in PagesOf(s2) : b < x /\ x <= b + q
    <2>1. PagesOf(s2) = (tv \div p) .. ((tv + size - 1) \div p)
      BY <1>10 DEF PagesOf, p
    <2>2. tv \div p = b + 1
      BY <1>1, <1>11, <1>12, Multiple
    <2>3. (tv + size - 1) \div p < b + 1 + q /\ (tv + size - 1) \div p \in Int
      <3>1. (b + 1 + q) * p = (b + 1) * p + q * p /\ q * p \in Int
        BY <1>1, <1>7, <1>11
      <3>2. tv + size - 1 < (b + 1 + q) * p /\ tv + size - 1 \in Int
        BY <1>1, <1>6, <1>7, <1>12, <3>1
      <3> DEFINE c == b + 1 + q
                 a == tv + size - 1
      <3>3. c \in Int /\ a \in Int /\ a < c * p
        BY <1>7, <1>11, <3>2
      <3> HIDE DEF c, a
      <3>4. a \div p < c /\ a \div p \in Int
        BY <1>1, <3>3, DivBelow
      <3> QED
        BY <3>4 DEF c, a
    <2> QED
      BY <1>7, <1>11, <2>1, <2>2, <2>3
  <1>16. ASSUME constants PROVE \A x \in PagesOf(s3) : x > b + q
    <2>1. PagesOf(s3) = (rv \div p) .. ((rv + rsize - 1) \div p)
      BY <1>10 DEF PagesOf, p
    <2>2. rv \div p = b + 1 + q
      BY <1>1, <1>7, <1>11, <1>12, <1>16, Multiple
    <2>3. rv \in Int
      BY <1>1, <1>7, <1>11, <1>12, <1>16
    <2>4. (rv + rsize - 1) \div p \in Int
      BY <1>1, <1>5, <2>3, DivMod
    <2> QED
      BY <1>7, <1>11, <2>1, <2>2, <2>4
  <1>17. /\ DOMAIN Segments \subseteq {1, 2, 3} /\ (3 \in DOMAIN Segments => constants)
         /\ Segments[1] = s1 /\ Segments[2] = s2 /\ (constants => Segments[3] = s3)
    <2>1. CASE constants
      <3>1. Segments = <<s1, s2>> \o <<s3>>
        BY <1>9, <2>1
      <3> QED
        BY <2>1, <3>1
    <2>2. CASE ~ constants
      <3>1. Segments = <<s1, s2>> \o << >>
        BY <1>9, <2>2
      <3> QED
        BY <2>2, <3>1
    <2> QED
      BY <2>1, <2>2
  <1>18. \A k \in DOMAIN Segments :
            LET s == Segments[k]
            IN  /\ s.off % PageSize = 0 /\ s.vaddr % PageSize = 0
                /\ k = 1 => \A x \in PagesOf(s) : x = b
                /\ k = 2 => \A x \in PagesOf(s) : b < x /\ x <= b + q
                /\ k = 3 => \A x \in PagesOf(s) : x > b + q
    <2> TAKE k \in DOMAIN Segments
    <2>1. CASE k = 1
      BY <1>13, <1>14, <1>17, <2>1 DEF p
    <2>2. CASE k = 2
      BY <1>13, <1>15, <1>17, <2>2 DEF p
    <2>3. CASE k = 3
      BY <1>13, <1>16, <1>17, <2>3 DEF p
    <2> QED
      BY <1>17, <2>1, <2>2, <2>3
  <1>19. b \in Int /\ q \in Int /\ q > 0
    BY <1>7, <1>11
  <1> QED
    BY <1>17, <1>18, <1>19

(* SegmentsLoadable: whatever the sizes of the code and the constants, the *)
(* segments in the program headers elf64_link_objects writes lie at the    *)
(* same place in their pages in the file and in memory, share no page, and *)
(* the entry point is in the code.                                         *)
THEOREM SegmentsSafe == Spec => []SegmentsLoadable
  <1>1. Inv => SegmentsLoadable
    <2> SUFFICES ASSUME Inv, stage = "linked"
                 PROVE  /\ \A k \in DOMAIN Segments : Segments[k].off % PageSize = Segments[k].vaddr % PageSize
                        /\ \A j, k \in DOMAIN Segments : j # k => PagesOf(Segments[j]) \cap PagesOf(Segments[k]) = {}
                        /\ image.entry \in TextVaddr .. TextVaddr + Len(image.text) - 1
      BY DEF SegmentsLoadable
    <2>1. image.entry \in TextVaddr .. TextVaddr + Len(image.text) - 1
      BY DEF Inv, LinkInv, ImageInv
    <2>2. PICK b, q \in Int :
            /\ q > 0
            /\ \A k \in DOMAIN Segments :
                  LET s == Segments[k]
                  IN  /\ s.off % PageSize = 0 /\ s.vaddr % PageSize = 0
                      /\ k = 1 => \A x \in PagesOf(s) : x = b
                      /\ k = 2 => \A x \in PagesOf(s) : b < x /\ x <= b + q
                      /\ k = 3 => \A x \in PagesOf(s) : x > b + q
            /\ DOMAIN Segments \subseteq {1, 2, 3}
      BY SegmentPages
    <2>3. \A k \in DOMAIN Segments : Segments[k].off % PageSize = Segments[k].vaddr % PageSize
      BY <2>2
    <2>4. ASSUME NEW j \in DOMAIN Segments, NEW k \in DOMAIN Segments, j # k,
                 NEW x \in PagesOf(Segments[j]), x \in PagesOf(Segments[k])
          PROVE  FALSE
      <3>1. x \in Int
        <4>1. \A s : PagesOf(s) \subseteq Int
          BY DEF PagesOf
        <4> QED
          BY <2>4, <4>1
      <3>2. /\ j = 1 => x = b
            /\ j = 2 => b < x /\ x <= b + q
            /\ j = 3 => x > b + q
        BY <2>2, <2>4
      <3>3. /\ k = 1 => x = b
            /\ k = 2 => b < x /\ x <= b + q
            /\ k = 3 => x > b + q
        BY <2>2, <2>4
      <3>4. j \in {1, 2, 3} /\ k \in {1, 2, 3} /\ q > 0 /\ b \in Int /\ q \in Int
        BY <2>2
      <3> QED
        BY <2>4, <3>1, <3>2, <3>3, <3>4
    <2> QED
      BY <2>1, <2>3, <2>4
  <1> QED
    BY <1>1, InvSafe, PTL

-----------------------------------------------------------------------------
(* Pass 2 appends a branch as its opcode and the distance from the byte    *)
(* behind it to the instruction that follows its label, where pass 1 has   *)
(* to count that instruction before it is encoded.                         *)
IsLabelOf(k, x) == CurrentList[k].op = "label" /\ CurrentList[k].dst.symbol = x.src.symbol
BranchExact ==
    EncodeInstruction /\ IsBranch(CurrentList[item]) =>
        \A k \in DOMAIN CurrentList :
            /\ IsLabelOf(k, CurrentList[item])
            /\ \A j \in DOMAIN CurrentList : IsLabelOf(j, CurrentList[item]) => j = k
            => text' = text \o BranchOpcode[CurrentList[item].op]
                            \o Bytes4((FunctionStart(CurrentUnit, at) + Within(k - 1)) - Len(text'))

(* Code is put together in any grouping.                                   *)
LEMMA BytesAssociate ==
  \A a, b, c \in Seq(Byte) : (a \o b) \o c = a \o (b \o c)
  <1> TAKE a, b, c \in Seq(Byte)
  <1> QED BY ConcatAssociative

(* The entry that label_map_get finds is that of the label's place.        *)
LEMMA BranchAppended ==
  ASSUME Inv, EncodeInstruction, IsBranch(CurrentList[item]),
         NEW k \in DOMAIN CurrentList, IsLabelOf(k, CurrentList[item]),
         \A j \in DOMAIN CurrentList : IsLabelOf(j, CurrentList[item]) => j = k
  PROVE  text' = text \o BranchOpcode[CurrentList[item].op]
                      \o Bytes4((FunctionStart(CurrentUnit, at) + Within(k - 1)) - Len(text'))
  <1> DEFINE x == CurrentList[item]
             l == x.src.symbol
             field == BranchField(x, labels, pc)
             m == Measured(x)
             start == FunctionStart(CurrentUnit, at)
             there == start + Within(k - 1)
  <1>1. /\ stage = "encode" /\ item <= Len(CurrentList)
        /\ text' = text \o Encoded(x, field)
    BY DEF EncodeInstruction
  <1>2. stage \in CodeStages
    BY <1>1 DEF CodeStages
  <1>3. /\ at <= Len(CurrentUnit.functions) /\ Len(text) = pc /\ fn_start_pc = start
        /\ LabelsBefore(CurrentList, fn_start_pc, labels, Len(CurrentList) + 1)
    BY <1>1, <1>2 DEF Inv, CompileInv, PositionInv
  <1>4. /\ item \in 1 .. Len(CurrentList) /\ Len(CurrentList) \in Nat
        /\ DOMAIN CurrentList = 1 .. Len(CurrentList)
    BY <1>1, <1>2, <1>3, PassFacts
  <1>5. Emitted(x) /\ m \in Nat
    BY <1>2, <1>3, <1>4, PassFacts
  <1>6. /\ text \in Seq(Byte) /\ pc \in Nat /\ labels \in Seq(Entry)
    BY DEF Inv, CompilerTypes
  <1>7. x.op \in DOMAIN BranchOpcode
    BY OpcodeNames DEF IsBranch
  <1>8. /\ Encoded(x, field) = BranchOpcode[x.op] \o field
        /\ Code(field, 4)
    <2>1. Code(field, 4)
      <3> HIDE DEF x
      <3> QED BY <1>5, <1>6, CodeBranch
    <2> HIDE DEF field, x
    <2> QED BY <1>7, <2>1, OpcodeNames DEF Encoded
  <1>9. Code(Encoded(x, field), m)
    <2> HIDE DEF x, field
    <2> QED
      BY <1>5, <1>8, MeasuredExact
  <1>10. Len(text') = pc + m
    <2> HIDE DEF x, field, m
    <2>1. Code(text, Len(text)) /\ Len(text) = pc
      BY <1>3, <1>6 DEF Code
    <2>2. Code(text \o Encoded(x, field), pc + m)
      BY <1>9, <2>1, CodeCat
    <2> QED
      BY <1>1, <2>2 DEF Code
  <1>11. IsList(labels) /\ DOMAIN labels = 1 .. Len(labels)
    BY <1>6, SeqAt
  <1>12. k \in 1 .. Len(CurrentList) + 1 - 1 /\ \A j \in 1 .. Len(CurrentList) + 1 - 1 : j \in DOMAIN CurrentList
    BY <1>4
  <1>13. \E j \in DOMAIN labels : LabelAtEntry(CurrentList, fn_start_pc, labels[j], k)
    BY <1>3, <1>12 DEF LabelsBefore, IsLabelOf
  <1>14. Named(labels, l)
    BY <1>13 DEF LabelAtEntry, IsLabelOf, Named
  <1>15. Find(labels, l) \in DOMAIN labels /\ labels[Find(labels, l)].name = l
    BY <1>11, <1>14, FindFirst
  <1>16. PICK j \in 1 .. Len(CurrentList) + 1 - 1 :
            LabelAtEntry(CurrentList, fn_start_pc, labels[Find(labels, l)], j)
    BY <1>3, <1>15 DEF LabelsBefore
  <1>17. j = k
    BY <1>12, <1>15, <1>16 DEF LabelAtEntry, IsLabelOf
  <1>18. labels[Find(labels, l)].offset = there
    BY <1>3, <1>16, <1>17 DEF LabelAtEntry, Within
  <1>19. field = Bytes4(there - Len(text'))
    <2>1. field = Bytes4(Displacement(labels, l, pc + m))
      <3> HIDE DEF x
      <3> QED BY <1>7 DEF BranchField
    <2>2. Displacement(labels, l, pc + m) = there - (pc + m)
      <3> HIDE DEF x, l, m, there
      <3> QED BY <1>14, <1>18 DEF Displacement
    <2> HIDE DEF x, l, m, there, field
    <2> QED BY <1>10, <2>1, <2>2
  <1>20. text \o (BranchOpcode[x.op] \o field) = text \o BranchOpcode[x.op] \o field
    <2>1. BranchOpcode[x.op] \in Seq(Byte)
      <3> HIDE DEF x
      <3> QED BY <1>7, OpcodeBytes DEF Code
    <2> HIDE DEF x, field
    <2>2. field \in Seq(Byte)
      BY <1>8 DEF Code
    <2> QED BY <1>6, <2>1, <2>2, BytesAssociate, Zenon
  <1>21. text' = text \o BranchOpcode[x.op] \o Bytes4(there - Len(text'))
    <2> HIDE DEF x, field, there
    <2> QED BY <1>1, <1>8, <1>19, <1>20
  <1> QED
    BY <1>21

(* Branches: whatever the list, the field of every jump that               *)
(* x86_64_emit_object_file_timed writes leads to the place of its label by *)
(* the bytes pass 2 writes, although the offsets in the label map are the  *)
(* lengths pass 1 only predicts.                                           *)
THEOREM BranchesSafe == Spec => [][BranchExact]_vars
  <1>1. Inv /\ [Next]_vars => [BranchExact]_vars
    BY BranchAppended DEF BranchExact
  <1> QED
    BY <1>1, InvSafe, PTL DEF Spec

-----------------------------------------------------------------------------
(* The linker accepts a relocation whose offset is in the code and then    *)
(* writes four bytes there. Objects the compiler wrote have room for them. *)
FieldsIn(rs, length) == \A k \in DOMAIN rs : rs[k].offset + 4 <= length
FieldsInside ==
    /\ FieldsIn(relocs, Len(text))
    /\ \A i \in DOMAIN objects : FieldsIn(objects[i].relas, Len(objects[i].text))

(* An element of a concatenation is one of the first or of the second.     *)
LEMMA CatFrom ==
  ASSUME NEW S, NEW s \in Seq(S), NEW t \in Seq(S), NEW k \in DOMAIN (s \o t)
  PROVE  \/ k \in DOMAIN s /\ (s \o t)[k] = s[k]
         \/ \E j \in DOMAIN t : (s \o t)[k] = t[j]
  <1> DEFINE c == s \o t
  <1>1. /\ c \in Seq(S) /\ Len(c) = Len(s) + Len(t)
        /\ \A i \in 1 .. Len(s) : c[i] = s[i]
        /\ \A i \in 1 .. Len(t) : c[Len(s) + i] = t[i]
    BY CatAt
  <1>2. /\ Len(s) \in Nat /\ DOMAIN s = 1 .. Len(s) /\ Len(t) \in Nat /\ DOMAIN t = 1 .. Len(t)
    BY SeqAt
  <1>3. k \in 1 .. Len(c)
    BY <1>1, SeqAt
  <1> HIDE DEF c
  <1>4. CASE k <= Len(s)
    <2>1. k \in 1 .. Len(s)
      BY <1>2, <1>3, <1>4
    <2> QED
      BY <1>1, <1>2, <2>1 DEF c
  <1>5. CASE ~ (k <= Len(s))
    <2>1. k - Len(s) \in 1 .. Len(t) /\ Len(s) + (k - Len(s)) = k
      BY <1>1, <1>2, <1>3, <1>5
    <2>2. c[k] = t[k - Len(s)]
      BY <1>1, <2>1
    <2> QED
      BY <1>2, <2>1, <2>2 DEF c
  <1> QED
    BY <1>4, <1>5

(* Most steps change neither the code nor the relocations nor an object.   *)
LEMMA FieldsKept ==
  ASSUME FieldsInside, text' = text, relocs' = relocs, objects' = objects
  PROVE  FieldsInside'
  BY DEF FieldsInside, FieldsIn

(* Nothing is encoded yet.                                                 *)
LEMMA FieldsAtStart == Init => FieldsInside
  BY DEF Init, FieldsInside, FieldsIn

(* A field is the end of its instruction, and so of the code so far.       *)
LEMMA EncodeInstructionFields ==
  ASSUME Inv, FieldsInside, EncodeInstruction
  PROVE  FieldsInside'
  <1> DEFINE x == CurrentList[item]
             field == BranchField(x, labels, pc)
             rel == RelocOf(x, pc)
             m == Measured(x)
  <1>1. /\ stage = "encode" /\ item <= Len(CurrentList) /\ objects' = objects
        /\ text' = text \o Encoded(x, field) /\ relocs' = relocs \o rel
    BY DEF EncodeInstruction
  <1>2. stage \in CodeStages
    BY <1>1 DEF CodeStages
  <1>3. at <= Len(CurrentUnit.functions) /\ Len(text) = pc
    BY <1>1 DEF Inv, CompileInv, PositionInv
  <1>4. Emitted(x) /\ m \in Nat
    <2>1. item \in 1 .. Len(CurrentList)
      BY <1>1, <1>2, <1>3, PassFacts
    <2> QED
      BY <1>2, <1>3, <2>1, PassFacts
  <1>5. /\ text \in Seq(Byte) /\ relocs \in Seq(RelocRecord) /\ pc \in Nat /\ labels \in Seq(Entry)
    BY DEF Inv, CompilerTypes
  <1> HIDE DEF x
  <1>6. Code(field, 4)
    BY <1>4, <1>5, CodeBranch
  <1>7. Code(Encoded(x, field), m)
    <2> HIDE DEF field
    <2> QED BY <1>4, <1>6, MeasuredExact
  <1>8. /\ ~ IsRelocated(x) => rel = << >>
        /\ IsRelocated(x) => \E r \in RelocRecord : rel = <<r>> /\ r.offset + 4 = pc + m
    BY <1>4, <1>5, RelocExact
  <1> HIDE DEF field, rel, m
  <1>9. Len(text') = pc + m
    <2>1. Code(text, pc)
      BY <1>3, <1>5 DEF Code
    <2>2. Code(text \o Encoded(x, field), pc + m)
      BY <1>7, <2>1, CodeCat
    <2> QED
      BY <1>1, <2>2 DEF Code
  <1>10. rel \in Seq(RelocRecord) /\ \A k \in DOMAIN rel : rel[k].offset + 4 = pc + m
    <2>1. CASE ~ IsRelocated(x)
      BY <1>8, <2>1
    <2>2. CASE IsRelocated(x)
      <3>1. PICK r \in RelocRecord : rel = <<r>> /\ r.offset + 4 = pc + m
        BY <1>8, <2>2
      <3> QED
        BY <3>1
    <2> QED
      BY <2>1, <2>2
  <1>11. FieldsIn(relocs', Len(text'))
    <2> SUFFICES ASSUME NEW k \in DOMAIN relocs' PROVE relocs'[k].offset + 4 <= Len(text')
      BY DEF FieldsIn
    <2>1. \/ k \in DOMAIN relocs /\ relocs'[k] = relocs[k]
          \/ \E j \in DOMAIN rel : relocs'[k] = rel[j]
      BY <1>1, <1>5, <1>10, CatFrom
    <2>2. CASE k \in DOMAIN relocs /\ relocs'[k] = relocs[k]
      <3>1. relocs[k].offset + 4 <= pc
        BY <1>3, <2>2 DEF FieldsInside, FieldsIn
      <3>2. relocs[k].offset \in Nat
        BY <1>5, <2>2, SeqAt, FieldFacts
      <3> QED
        BY <1>4, <1>5, <1>9, <2>2, <3>1, <3>2
    <2>3. CASE \E j \in DOMAIN rel : relocs'[k] = rel[j]
      <3>1. relocs'[k].offset + 4 = pc + m
        BY <1>10, <2>3
      <3> QED
        BY <1>4, <1>5, <1>9, <3>1
    <2> QED
      BY <2>1, <2>2, <2>3
  <1> QED
    BY <1>1, <1>11 DEF FieldsInside

(* Resolution changes what a relocation refers to, not where it is.        *)
LEMMA ResolveRelocFields ==
  ASSUME Inv, FieldsInside, ResolveReloc
  PROVE  FieldsInside'
  <1> DEFINE r == relocs[item]
             addend == rodata_map[Find(rodata_map, r.symbol)].offset - 4
             q == [r EXCEPT !.symbol = ".rodata", !.addend = addend]
  <1>1. /\ text' = text /\ objects' = objects
        /\ relocs' = relocs \/ relocs' = [relocs EXCEPT ![item] = q]
    BY DEF ResolveReloc
  <1>2. relocs \in Seq(RelocRecord) /\ \A k \in DOMAIN relocs : relocs[k] \in RelocRecord
    BY SeqAt DEF Inv, CompilerTypes
  <1>3. r \in RelocRecord => q.offset = r.offset
    <2> HIDE DEF r, addend
    <2> QED BY DEF RelocRecord
  <1> HIDE DEF q
  <1>4. \A k \in DOMAIN relocs' : k \in DOMAIN relocs /\ relocs'[k].offset = relocs[k].offset
    BY <1>1, <1>2, <1>3
  <1> QED
    BY <1>1, <1>4 DEF FieldsInside, FieldsIn

(* The object takes over the code and the offsets.                         *)
LEMMA WriteObjectFields ==
  ASSUME Inv, FieldsInside, WriteObject
  PROVE  FieldsInside'
  <1> DEFINE rs == [k \in DOMAIN relocs |-> RelaOf(relocs[k])]
             o == [text |-> text, rodata |-> rodata, syms |-> symtab_entries, relas |-> rs]
  <1>1. objects' = Append(objects, o) /\ text' = << >> /\ relocs' = << >>
    BY DEF WriteObject
  <1>2. \A k \in DOMAIN relocs : RelaOf(relocs[k]).offset = relocs[k].offset
    BY DEF RelaOf
  <1>3. o.text = text /\ o.relas = rs
    OBVIOUS
  <1>4. FieldsIn(o.relas, Len(o.text))
    BY <1>2, <1>3 DEF FieldsInside, FieldsIn
  <1>5. objects \in Seq(Object)
    BY DEF Inv, Shape
  <1> HIDE DEF o
  <1>6. \A i \in DOMAIN objects' : objects'[i] = o \/ (i \in DOMAIN objects /\ objects'[i] = objects[i])
    BY <1>1, <1>5
  <1> QED
    BY <1>1, <1>4, <1>6 DEF FieldsInside, FieldsIn

(* The startup object's one relocation is the operand of its call.         *)
LEMMA ReadObjectsFields ==
  ASSUME Inv, FieldsInside, ReadObjects
  PROVE  FieldsInside'
  <1>1. /\ text' = text /\ relocs' = relocs
        /\ objects' = objects \/ objects' = Append(objects, StartupObject)
    BY DEF ReadObjects, compiler, code
  <1>2. FieldsIn(StartupObject.relas, Len(StartupObject.text))
    <2> DEFINE r == [offset |-> 6, sym |-> 8, type |-> "PLT32", addend |-> -4]
    <2>1. StartupObject.relas = <<r>> /\ r.offset = 6
      BY DEF StartupObject
    <2>2. Len(StartupObject.text) = 23
      BY StartupObjectFacts
    <2> HIDE DEF r
    <2> QED
      BY <2>1, <2>2 DEF FieldsIn
  <1>3. objects \in Seq(Object)
    BY DEF Inv, Shape
  <1>4. \A i \in DOMAIN objects' : objects'[i] = StartupObject \/ (i \in DOMAIN objects /\ objects'[i] = objects[i])
    BY <1>1, <1>3
  <1> QED
    BY <1>1, <1>2, <1>4 DEF FieldsInside

(* The other steps.                                                        *)
LEMMA OtherFields ==
  ASSUME FieldsInside,
         \/ AddString \/ AlignFloats \/ AddFloat \/ FloatsAdded
         \/ MeasureInstruction \/ FunctionMeasured \/ FunctionEncoded \/ FunctionsEncoded
         \/ RelocsResolved \/ WriteSymbol \/ DefinedWritten
         \/ CollectSymbol \/ SymbolsCollected \/ CheckUndefined
         \/ MergeSections \/ ComputeAddresses \/ Relocate \/ ObjectRelocated \/ WriteExecutable
         \/ UNCHANGED vars
  PROVE  FieldsInside'
  <1>1. CASE AddString \/ AlignFloats \/ AddFloat \/ FloatsAdded
    <2>1. text' = text /\ relocs' = relocs /\ objects' = objects
      BY <1>1 DEF AddString, AddFloat, AddConstant, AlignFloats, FloatsAdded, code
    <2> QED
      BY <2>1, FieldsKept
  <1>2. CASE MeasureInstruction \/ FunctionMeasured \/ FunctionEncoded \/ FunctionsEncoded
    <2>1. text' = text /\ relocs' = relocs /\ objects' = objects
      BY <1>2 DEF MeasureInstruction, FunctionMeasured, FunctionEncoded, FunctionsEncoded, code
    <2> QED
      BY <2>1, FieldsKept
  <1>3. CASE RelocsResolved \/ WriteSymbol \/ DefinedWritten
    <2>1. text' = text /\ relocs' = relocs /\ objects' = objects
      BY <1>3 DEF RelocsResolved, WriteSymbol, DefinedWritten, code
    <2> QED
      BY <2>1, FieldsKept
  <1>4. CASE CollectSymbol \/ SymbolsCollected \/ CheckUndefined
    <2>1. text' = text /\ relocs' = relocs /\ objects' = objects
      BY <1>4 DEF CollectSymbol, SymbolsCollected, CheckUndefined, compiler, code
    <2> QED
      BY <2>1, FieldsKept
  <1>5. CASE MergeSections \/ ComputeAddresses \/ Relocate \/ ObjectRelocated \/ WriteExecutable
    <2>1. text' = text /\ relocs' = relocs /\ objects' = objects
      BY <1>5 DEF MergeSections, ComputeAddresses, Relocate, ObjectRelocated, WriteExecutable, compiler, code
    <2> QED
      BY <2>1, FieldsKept
  <1>6. CASE UNCHANGED vars
    <2>1. text' = text /\ relocs' = relocs /\ objects' = objects
      BY <1>6 DEF vars, code
    <2> QED
      BY <2>1, FieldsKept
  <1> QED
    BY <1>1, <1>2, <1>3, <1>4, <1>5, <1>6

(* The four bytes of a relocation lie in the code of their own object, and *)
(* that code in the merged section.                                        *)
PatchInside ==
    stage = "relocate" =>
        \A i \in DOMAIN objects : \A k \in DOMAIN objects[i].relas :
            LET offset == PatchOffset(i, objects[i].relas[k])
            IN  /\ image.textOff[i] <= offset
                /\ offset + 4 <= image.textOff[i] + Len(objects[i].text)
                /\ image.textOff[i] + Len(objects[i].text) <= Len(image.text)

LEMMA FieldsArePatches == Inv /\ FieldsInside => PatchInside
  <1> SUFFICES ASSUME Inv, FieldsInside, stage = "relocate",
                      NEW i \in DOMAIN objects, NEW k \in DOMAIN objects[i].relas
               PROVE  LET offset == PatchOffset(i, objects[i].relas[k])
                      IN  /\ image.textOff[i] <= offset
                          /\ offset + 4 <= image.textOff[i] + Len(objects[i].text)
                          /\ image.textOff[i] + Len(objects[i].text) <= Len(image.text)
    BY DEF PatchInside
  <1> DEFINE t == image.textOff[i]
             n == Len(objects[i].text)
             p == objects[i].relas[k].offset
  <1>1. p + 4 <= n
    BY DEF FieldsInside, FieldsIn
  <1>2. t + n <= Len(image.text) /\ Len(image.textOff) = Len(objects)
    BY DEF Inv, LinkInv, ImageInv, Inside
  <1>3. objects[i] \in Object
    BY ObjectSyms
  <1>4. p \in Nat /\ n \in Nat
    <2>1. objects[i].relas \in Seq(Rela) /\ objects[i].text \in Seq(Byte)
      BY <1>3 DEF Object
    <2>2. objects[i].relas[k] \in Rela
      BY <2>1, SeqAt
    <2> QED
      BY <2>1, <2>2, FieldFacts
  <1>5. t \in Nat
    <2>1. image.textOff \in Seq(Nat)
      BY ImageFields DEF Inv, LinkerTypes
    <2>2. i \in DOMAIN image.textOff
      <3>1. objects \in Seq(Object)
        BY DEF Inv, Shape
      <3> QED
        BY <1>2, <2>1, <3>1
    <2> QED
      BY <2>1, <2>2, SeqAt
  <1>6. PatchOffset(i, objects[i].relas[k]) = t + p
    BY DEF PatchOffset
  <1> HIDE DEF t, n, p
  <1>7. t <= t + p /\ (t + p) + 4 <= t + n
    BY <1>1, <1>4, <1>5
  <1> QED
    BY <1>2, <1>6, <1>7 DEF t, n

(* Relocation: the linker tests only that the offset of a relocation is in *)
(* the code before it copies four bytes there (elf64_read_object_memory,   *)
(* elf64_link_objects). For the objects the compiler wrote and the startup *)
(* object the four bytes never leave the code of the object they belong    *)
(* to, so no relocation writes behind the merged code or into a neighbour. *)
THEOREM PatchesSafe == Spec => []PatchInside
  <1>1. Init => FieldsInside
    BY FieldsAtStart
  <1>2. Inv /\ FieldsInside /\ [Next]_vars => FieldsInside'
    BY EncodeInstructionFields, ResolveRelocFields, WriteObjectFields, ReadObjectsFields, OtherFields DEF Next
  <1>3. Inv /\ FieldsInside => PatchInside
    BY FieldsArePatches
  <1> QED
    BY <1>1, <1>2, <1>3, InvSafe, PTL DEF Spec

=============================================================================
