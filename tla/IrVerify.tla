------------------------------ MODULE IrVerify ------------------------------
(***************************************************************************)
(* The IR verifier (src/ir/ir_verify.c), without its checks of types: the  *)
(* functions modelled have integer variables and conditions made by        *)
(* comparisons, on which those checks pass.                                *)
(***************************************************************************)
EXTENDS IrFunction

\* verify_instruction: the operands an instruction must have, and targets
\* that are blocks of the function.
VerifyInst(fn, inst) ==
    /\ inst.op \in {"load", "const", "neg", "not", "print", "condbr", "ret"} => inst.lhs # Null
    /\ inst.op \in {"store"} \cup Arithmetic \cup Comparison \cup Logical =>
          Null \notin {inst.lhs, inst.rhs}
    /\ inst.op \in {"alloca", "load", "const", "phi", "neg", "not"}
                   \cup Arithmetic \cup Comparison \cup Logical => inst.dst # Null
    /\ inst.op = "phi" => DOMAIN inst.phi # {} /\ \A b \in DOMAIN inst.phi : inst.phi[b] # Null
    /\ inst.op \in {"br", "condbr"} => ToSet(inst.to) \subseteq Blocks(fn)

PhisFirst(insts) ==
    \A i, j \in DOMAIN insts : i < j /\ insts[j].op = "phi" => insts[i].op = "phi"

\* ir_verify_function
VerifyFunction(fn) ==
    /\ 0 \in Blocks(fn)
    /\ \A b \in Blocks(fn) :
          LET insts == fn.body[b] IN
          /\ Terminated(insts)
          /\ PhisFirst(insts)
          /\ \A i \in DOMAIN insts :
                /\ insts[i].op \in Terminators => i = Len(insts)
                /\ VerifyInst(fn, insts[i])
=============================================================================
