---------------------------- MODULE MCNativeLink ----------------------------
(***************************************************************************)
(* Programs for NativeLink.  Single units run through every form of every  *)
(* instruction, with registers that need a REX prefix, a SIB byte or a     *)
(* displacement and immediates at the ends of their ranges, between        *)
(* branches in both directions; pairs of units combine definitions, calls  *)
(* and constants.                                                          *)
(***************************************************************************)
EXTENDS NativeLink, FiniteSetsExt

Gprs == {0, 4, 5, 7, 8, 12, 13, 15}
Xmms == {16, 20, 21, 24, 29, 31}
ByteRegs == {0, 2}

\* -2^63, -2^31 - 1, -2^31, -129, -128, -1, 0, 1, 127, 128, 2^31 - 1, 2^31
Small == {Extended(b, 8) : b \in {<<127, 255>>, <<128>>, <<255>>, <<0>>, <<127>>, <<128, 0>>,
                                  <<255, 255, 255, 127>>, <<0, 0, 0, 128>>}}
Large == {<<0, 0, 0, 0, 0, 0, 0, 128>>, <<255, 255, 255, 127, 255, 255, 255, 255>>,
          <<0, 0, 0, 128, 0, 0, 0, 0>>}
N == NoOperand
R(r, size) == Register(r, size)

\* Families of instructions that differ in one operand.
TwoRegs(op, w, ss, ds) == {{Instr(op, R(a, w), R(b, w)) : a \in ss} : b \in ds}
Memory(op, regs, ws) ==
    {UNION {{Instr(op, MemBase(b, v, w), R(a, w)), Instr(op, R(a, w), MemBase(b, v, w))} : a \in regs}
     : b \in Gprs, v \in Small, w \in ws}
Immediates ==
    {{Instr("mov", Immediate(v, w), R(a, w)) : a \in Gprs} : v \in Small, w \in {4, 8}}
    \cup {{Instr("cmp_imm", Immediate(v, 4), R(a, 4)) : a \in {0, 13}}
       \cup {Instr(op, Immediate(v, 8), R(RSP, 8)) : op \in {"sub_imm", "add_imm"}}
       \cup {Instr("movb_imm", Immediate(v, 1), R(0, 1))} : v \in Small}
    \cup {{Instr("mov", Immediate(v, 8), R(a, 8)) : a \in Gprs} : v \in Large}
Single ==
    {{Instr(op, N, R(a, w)) : a \in Gprs} : <<op, w>> \in {<<"push", 8>>, <<"pop", 8>>, <<"neg", 4>>}}
    \cup {{Instr("idiv", R(a, 4), N) : a \in Gprs}, {Instr(op, N, N) : op \in {"ret", "cltd"}}}
    \cup {{Instr("setcc", Condition(c), R(a, 1)) : c \in DOMAIN cond_to_opcode_byte} : a \in ByteRegs}
    \cup {{Instr("lea", MemBase(b, v, 8), R(a, 8)) : a \in Gprs} : b \in Gprs, v \in Small}

ShortOps == {"add", "sub", "and", "or", "xor", "cmp", "imul"}
SseOps == {"movsd", "addsd", "subsd", "mulsd", "divsd", "xorpd", "ucomisd"}
Families ==
    UNION {TwoRegs(op, 4, Gprs, Gprs) : op \in ShortOps \cup {"mov"}}
    \cup UNION {TwoRegs(op, 8, Xmms, Xmms) : op \in SseOps}
    \cup UNION {TwoRegs(op, 8, Gprs, Gprs) : op \in {"mov", "movslq", "cmove"}}
    \cup UNION {TwoRegs(op, 1, ByteRegs, ByteRegs) : op \in {"andb", "orb"}}
    \cup TwoRegs("movzbl", 1, ByteRegs, Gprs)
    \cup Memory("mov", {0, 8}, {4, 8}) \cup Memory("movsd", {16, 31}, {8})
    \cup Immediates \cup Single

Branch(op, l) == Instr(op, Symbol(l), N)
Mark(l) == Instr("label", N, Symbol(l))

\* A forward and a backward branch across the instructions of a family.
Between(list) ==
    <<Mark("main"), Mark("L1"), Branch("jne", "L2")>> \o list
    \o <<Branch("jmp", "L1"), Mark("L2"), Branch("je", "L1"), Instr("ret", N, N)>>

Unit(functions, strings, floats) == [functions |-> functions, strings |-> strings, floats |-> floats]
Function(name, list) == [name |-> name, list |-> list]
EncodingPrograms ==
    {<<Unit(<<Function("main", Between(FoldSet(LAMBDA x, seq : Append(seq, x), << >>, family)))>>, << >>, << >>)>> : family \in Families}

(* ------------------------------------------------------ units to be linked *)
Call(name) == Instr("call", Symbol(name), N)
Address(name, r) == Instr("lea", MemRip(name), R(r, 8))
LoadFloat(name, r) == Instr("movsd", MemRip(name), R(r, 8))

Bodies == {<<Call("printf")>>, <<Call("f"), Address("LC_str_0", 7), Call("g")>>,
           <<Address("LC_str_0", 12), LoadFloat("LC_float_0", 16), LoadFloat("LC_float_0", 31), Branch("jmp", "L1")>>}
Body(list) == <<Instr("push", N, R(13, 8))>> \o list \o <<Mark("L1"), Instr("ret", N, N)>>
FunctionLists(names) ==
    {<<Function(n, Body(b))>> : n \in names, b \in Bodies}
PairLists(names) ==
    {<<Function(n[1], Body(b)), Function(n[2], Body(c))>> : n \in names, b \in Bodies, c \in Bodies}

\* The lengths of the strings differ, so that the sections' parts are and
\* are not multiples of 16.
FirstUnits == {Unit(fs, <<<<"LC_str_0", 3>>>>, <<<<"LC_float_0", 8>>>>)
               : fs \in FunctionLists({"main", "f"})
                          \cup PairLists({<<"main", "f">>, <<"f", "main">>, <<"main", "_start">>})}
SecondUnits == {Unit(fs, <<<<"LC_str_1", 9>>, <<"LC_str_0", 5>>>>, <<<<"LC_float_0", 8>>>>)
                : fs \in FunctionLists({"f", "g", "free"})}
\* Code of more than a page.
LongList == [k \in 1 .. 14 |-> Instr("mov", Immediate(Extended(<<0, 0, 0, 0, 1>>, 8), 8), R(8, 8))]
LongUnit ==
    Unit(<<Function("main", LongList \o Body(<<Call("h3"), Address("LC_str_0", 7)>>)),
           Function("h1", LongList), Function("h2", LongList),
           Function("h3", LongList \o Body(<<Call("printf"), Address("LC_str_0", 7)>>))>>,
         <<<<"LC_str_0", 3>>>>, <<<<"LC_float_0", 8>>>>)

MCPrograms ==
    EncodingPrograms \cup {<<u>> : u \in FirstUnits \cup {LongUnit}}
    \cup {<<u, v>> : u \in FirstUnits, v \in SecondUnits}
=============================================================================
