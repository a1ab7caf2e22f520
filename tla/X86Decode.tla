----------------------------- MODULE X86Decode ------------------------------
(***************************************************************************)
(* How an x86-64 processor in 64 bit mode reads the instructions that the  *)
(* encoder writes, after the manual: prefixes, opcode, ModRM, SIB and      *)
(* displacement, immediate.  A relative address is read as the address it  *)
(* leads to.                                                               *)
(***************************************************************************)
EXTENDS X86Encode, TLC

\* The prefixes of the instruction s begins with and where its opcode is; a
\* two byte opcode is numbered from 256.
ReadPrefixes(s) ==
    LET prefixed == s[1] \in {242, 102}
        p == IF prefixed THEN 2 ELSE 1
        rex == s[p] \in 64 .. 79
        bits == IF rex THEN s[p] - 64 ELSE 0
        q == IF rex THEN p + 1 ELSE p
        two == s[q] = 15
    IN  [prefix |-> IF prefixed THEN s[1] ELSE 0, rex |-> rex, wide |-> bits >= 8,
         r |-> 8 * ((bits \div 4) % 2), b |-> 8 * (bits % 2),
         opcode |-> IF two THEN 256 + s[q + 1] ELSE s[q],
         next |-> IF two THEN q + 2 ELSE q + 1]

\* The ModRM byte at h.next with the SIB byte and displacement it calls for.
ModRM(s, h) ==
    LET m == s[h.next]
        mod == m \div 64
        rm == m % 8
        sib == mod # 3 /\ rm = 4
        at == h.next + (IF sib THEN 2 ELSE 1)
        size == CASE mod = 1 -> 1 [] mod = 2 -> 4 [] mod = 0 /\ rm = 5 -> 4 [] OTHER -> 0
        disp == SubSeq(s, at, at + size - 1)
    IN  [digit |-> (m \div 8) % 8, reg |-> ((m \div 8) % 8) + h.r, next |-> at + size,
         rm |-> CASE mod = 3 -> <<"reg", rm + h.b>>
                  [] mod = 0 /\ rm = 5 -> <<"rip", Number4(disp)>>
                  [] sib -> <<"mem", (s[h.next + 1] % 8) + h.b,
                              IF size = 0 THEN Zero ELSE Extended(disp, 8)>>
                  [] OTHER -> <<"mem", rm + h.b, IF size = 0 THEN Zero ELSE Extended(disp, 8)>>]

\* Without a REX prefix the byte registers 4 to 7 are AH, CH, DH and BH.
ByteRegister(r, h) == IF r \in 4 .. 7 /\ ~ h.rex THEN <<"high", r - 4>> ELSE <<"reg", r>>
Xmm(o) == IF o[1] = "reg" THEN <<"reg", o[2] + XMM0>> ELSE o

\* The opcode maps of the manual.
Conditions == <<"o", "no", "b", "ae", "e", "ne", "be", "a", "s", "ns", "p", "np", "l", "ge", "le", "g">>
ImmediateSize == (131 :> 1) @@ (129 :> 4)
Group1 == (0 :> "add_imm") @@ (5 :> "sub_imm") @@ (7 :> "cmp_imm")
Arithmetic == (1 :> "add") @@ (9 :> "or") @@ (33 :> "and") @@ (41 :> "sub") @@ (49 :> "xor") @@ (57 :> "cmp")
ByteArithmetic == (8 :> "orb") @@ (32 :> "andb")
Loads == (139 :> "mov") @@ (141 :> "lea") @@ (99 :> "movslq") @@ (256 + 68 :> "cmove") @@ (256 + 175 :> "imul")
Scalar == (88 :> "addsd") @@ (89 :> "mulsd") @@ (92 :> "subsd") @@ (94 :> "divsd")
Packed == (87 :> "xorpd") @@ (46 :> "ucomisd")

\* The instruction at the front of s when it lies at address pc: as it would
\* be printed, and its length.
Decode(s, pc) ==
    LET h == ReadPrefixes(s)
        m == ModRM(s, h)
        w == IF h.wide THEN 8 ELSE 4
        low == <<"reg", (h.opcode % 8) + h.b>>
        bytes(at, n) == SubSeq(s, at, at + n - 1)
        near == <<"at", pc + h.next + 3 + Number4(bytes(h.next, 4))>>
        found(i, end) == [instr |-> i, length |-> end - 1]
        rm == IF m.rm[1] = "rip" THEN <<"at", pc + m.next - 1 + m.rm[2]>> ELSE m.rm
        imm(at, n, width) == <<"imm", Extended(bytes(at, n), width)>>
        opc == h.opcode
        reg == <<"reg", m.reg>>
        none == <<"none">>
    IN  CASE opc \in 80 .. 87 -> found(<<"push", 8, none, low>>, h.next)
          [] opc \in 88 .. 95 -> found(<<"pop", 8, none, low>>, h.next)
          [] opc = 195 -> found(<<"ret", 8, none, none>>, h.next)
          [] opc = 153 -> found(<<"cltd", w, none, none>>, h.next)
          [] opc \in 184 .. 191 -> found(<<"mov", w, <<"imm", bytes(h.next, w)>>, low>>, h.next + w)
          [] opc \in 176 .. 183 ->
               found(<<"movb_imm", 1, imm(h.next, 1, 1), ByteRegister(low[2], h)>>, h.next + 1)
          [] opc = 233 -> found(<<"jmp", 4, near, none>>, h.next + 4)
          [] opc = 232 -> found(<<"call", 4, near, none>>, h.next + 4)
          [] opc \in {256 + 132, 256 + 133} ->
               found(<<IF opc = 256 + 132 THEN "je" ELSE "jne", 4, near, none>>, h.next + 4)
          [] opc = 199 /\ m.digit = 0 -> found(<<"mov", w, imm(m.next, 4, w), rm>>, m.next + 4)
          [] opc \in DOMAIN ImmediateSize /\ m.digit \in DOMAIN Group1 ->
               found(<<Group1[m.digit], w, imm(m.next, ImmediateSize[opc], w), rm>>,
                     m.next + ImmediateSize[opc])
          [] opc = 137 -> found(<<"mov", w, reg, rm>>, m.next)
          [] opc \in DOMAIN Loads -> found(<<Loads[opc], w, rm, reg>>, m.next)
          [] opc = 247 /\ m.digit = 7 -> found(<<"idiv", w, rm, none>>, m.next)
          [] opc = 247 /\ m.digit = 3 -> found(<<"neg", w, none, rm>>, m.next)
          [] opc \in DOMAIN Arithmetic -> found(<<Arithmetic[opc], w, reg, rm>>, m.next)
          [] opc \in DOMAIN ByteArithmetic ->
               found(<<ByteArithmetic[opc], 1, ByteRegister(m.reg, h), ByteRegister(rm[2], h)>>, m.next)
          [] opc = 256 + 182 -> found(<<"movzbl", w, ByteRegister(rm[2], h), reg>>, m.next)
          [] opc \in 256 + 144 .. 256 + 159 ->
               found(<<"setcc", 1, <<"cond", Conditions[opc - 399]>>, ByteRegister(rm[2], h)>>, m.next)
          [] opc = 256 + 16 /\ h.prefix = 242 -> found(<<"movsd", 4, Xmm(rm), Xmm(reg)>>, m.next)
          [] opc = 256 + 17 /\ h.prefix = 242 -> found(<<"movsd", 4, Xmm(reg), Xmm(rm)>>, m.next)
          [] opc - 256 \in DOMAIN Scalar /\ h.prefix = 242 ->
               found(<<Scalar[opc - 256], 4, Xmm(rm), Xmm(reg)>>, m.next)
          [] opc - 256 \in DOMAIN Packed /\ h.prefix = 102 ->
               found(<<Packed[opc - 256], 4, Xmm(rm), Xmm(reg)>>, m.next)
          [] OTHER -> found(<<"undefined", 0, none, none>>, h.next)
=============================================================================
