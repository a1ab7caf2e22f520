----------------------------- MODULE IrPipeline -----------------------------
(***************************************************************************)
(* The compiler from a parsed function on, in the order of                 *)
(* build_ir_module (src/main.c): lowering and verification; with --ssa,    *)
(* SSA construction and destruction, and between them, with -O1 too, the   *)
(* passes on SSA form; with -O1, the passes of ir_optimize_function; with  *)
(* --use-native, the x86-64 back end.                                      *)
(***************************************************************************)
EXTENDS IrLower, IrSsaOpt, IrOpt, X86Codegen

CONSTANTS Cases,         \* the functions to compile and the options: [program, opts]
          Inputs,        \* the arguments to compare runs on
          MaxTrips,      \* loop iterations a run of the source may take
          MaxBlocks      \* blocks a run of the IR may execute

ASSUME OptionsAssumption ==
    \A c \in Cases : c.opts \in [ssa : BOOLEAN, native : BOOLEAN, level : {0, 1}]

VARIABLES program, opts, fn,
          phase,     \* the next stage, or "done" or "rejected"
          pass,      \* in phases "ssaopt" and "optimize": the pass to run next
          iter,      \* rounds of passes begun
          changed,   \* pass_changed of this round
          asm        \* the instruction list of the native back end
vars == <<program, opts, fn, phase, pass, iter, changed, asm>>

\* Mutant: the passes run once.
OneRound == 1

\* max_iterations in ir_optimize_function
MaxIterations == 10

Init ==
    /\ \E c \in Cases : program = c.program /\ opts = c.opts
    /\ fn = NoFunction
    /\ phase = "source"
    /\ pass = 1 /\ iter = 1 /\ changed = FALSE /\ asm = << >>

\* What follows the SSA stage: build_ir_module skips ir_optimize_module at
\* level 0.
OptimizeOrDone == IF opts.level > 0 THEN "optimize" ELSE "done"

\* ir_lower_ast and ir_verify_module.
Lower ==
    /\ phase = "source"
    /\ fn' = LowerFunction(program)
    /\ phase' = IF ~ VerifyFunction(fn') THEN "rejected"
                ELSE IF opts.ssa THEN "construct" ELSE OptimizeOrDone
    /\ UNCHANGED <<program, opts, pass, iter, changed, asm>>

\* ir_ssa_construct_function with the check it ends with.
Construct ==
    /\ phase = "construct"
    /\ fn' = SsaConstruct(fn)
    /\ phase' = IF ~ SsaVerify(fn') THEN "rejected"
                ELSE IF opts.level > 0 THEN "ssaopt" ELSE "ssa"
    /\ UNCHANGED <<program, opts, pass, iter, changed, asm>>

\* One pass of ir_ssa_advanced_optimize_function with the check after it;
\* ir_ssa_pipeline_function checks once more after the last.
SsaOptimizePass ==
    /\ phase = "ssaopt"
    /\ fn' = RunSsaPass(SsaPasses[pass], fn)
    /\ phase' = IF ~ SsaVerify(fn') THEN "rejected"
                ELSE IF pass = Len(SsaPasses) THEN "ssa" ELSE "ssaopt"
    /\ pass' = IF pass = Len(SsaPasses) THEN 1 ELSE pass + 1
    /\ UNCHANGED <<program, opts, iter, changed, asm>>

\* ir_ssa_deconstruct_function with the check it ends with.
Deconstruct ==
    /\ phase = "ssa"
    /\ fn' = SsaDeconstruct(fn)
    /\ phase' = IF VerifyFunction(fn') THEN OptimizeOrDone ELSE "rejected"
    /\ UNCHANGED <<program, opts, pass, iter, changed, asm>>

\* One pass of a round of ir_optimize_function.
OptimizePass ==
    /\ phase = "optimize" /\ pass < Len(Passes)
    /\ LET r == RunPass(Passes[pass], fn)
       IN  fn' = r.fn /\ changed' = (changed \/ r.changed)
    /\ pass' = pass + 1
    /\ UNCHANGED <<program, opts, phase, iter, asm>>

\* The last pass of a round, the verification, and the decision to go on.
EndRound ==
    /\ phase = "optimize" /\ pass = Len(Passes)
    /\ LET r == RunPass(Passes[pass], fn)
           more == (changed \/ r.changed) /\ iter < MaxIterations
       IN  /\ fn' = r.fn
           /\ changed' = (~ more /\ (changed \/ r.changed))
           /\ phase' = IF ~ VerifyFunction(r.fn) THEN "rejected"
                       ELSE IF more THEN "optimize" ELSE "done"
           /\ iter' = IF more THEN iter + 1 ELSE iter
    /\ pass' = 1
    /\ UNCHANGED <<program, opts, asm>>

\* regalloc_run, x86_frame_build and gen_instruction for every instruction.
Select ==
    /\ phase = "done" /\ opts.native
    /\ asm' = GenFunction(fn)
    /\ phase' = "selected"
    /\ UNCHANGED <<program, opts, fn, pass, iter, changed>>

\* x86_instr_list_optimize, the last step of the back end.
OptimizeList ==
    /\ phase = "selected"
    /\ asm' = Peephole(asm)
    /\ phase' = "native"
    /\ UNCHANGED <<program, opts, fn, pass, iter, changed>>

Next == \/ Lower \/ Construct \/ SsaOptimizePass \/ Deconstruct
        \/ OptimizePass \/ EndRound \/ Select \/ OptimizeList

Spec == Init /\ [][Next]_vars

(* -------------------------------------------------------------- properties *)
\* The variables have values of their kinds: registers and blocks named by
\* the function exist.
TypeOK ==
    /\ phase \in {"source", "construct", "ssaopt", "ssa", "optimize", "done", "rejected",
                  "selected", "native"}
    /\ pass \in DOMAIN (IF phase = "ssaopt" THEN SsaPasses ELSE Passes)
    /\ iter \in 1..MaxIterations /\ changed \in BOOLEAN
    /\ Blocks(fn) \subseteq 0..fn.nblock - 1
    /\ \A i \in Instructions(fn) :
          \A v \in {w \in Operands(i) \cup {i.dst} : IsReg(w)} : v[2] \in 0..fn.nreg - 1

\* Every stage keeps the meaning of the program: what the function prints,
\* the calls it makes and what it returns are those of the source
\* (lower_function, ir_ssa_pipeline_function, ir_optimize_function).
SemanticsPreserved ==
    phase \notin {"source", "rejected", "selected", "native"} =>
        \A p \in Inputs :
            LET source == RunSource(program, p, MaxTrips)
            IN  source.done => RunFunction(fn, p, MaxBlocks) = source

\* v is read on some path from the start of b before it is set.
ReadLater(v, b) ==
    LET cut == [fn EXCEPT !.body = [c \in Blocks(fn) |->
                   IF v \in DefOf(fn.body[c]) THEN << >> ELSE fn.body[c]]]
    IN  \E c \in Closure(cut, {b}) : v \in UseOf(fn.body[c])

\* v is read after instruction i of b, on some path that does not set it first.
LiveAfter(v, b, i) ==
    LET rest == SubSeq(fn.body[b], i + 1, Len(fn.body[b]))
    IN  \/ v \in UseOf(rest)
        \/ v \notin DefOf(rest) /\ \E c \in Successors(fn, b) : ReadLater(v, c)

\* A register that is live after an instruction has that instruction in its
\* interval (the dataflow analysis and the ranges built from it).
IntervalsCover ==
    phase = "selected" =>
        LET iv == Intervals(fn)
        IN  \A b \in Blocks(fn) : \A i \in DOMAIN fn.body[b] : \A n \in DOMAIN iv :
                LET at == StartInst(fn, b) + i - 1
                IN  (iv[n].start <= at /\ at <= iv[n].end) \/ ~ LiveAfter(Reg(n), b, i)

\* A register that is live across a call is known to cross a call, so that
\* it survives it.
CrossingsFound ==
    phase \in {"selected", "native"} =>
        LET iv == Intervals(fn)
        IN  \A b \in Blocks(fn) : \A i \in DOMAIN fn.body[b] :
               fn.body[b][i].op \in CallOps =>
                  \A n \in DOMAIN iv : \/ iv[n].crosses \/ fn.body[b][i].dst = Reg(n)
                                        \/ ~ LiveAfter(Reg(n), b, i)

\* The machine code does what the source does, keeps the callee-saved
\* registers and the stack, and aligns the stack at calls, before and after
\* the peephole pass.
NativePreserved ==
    phase \in {"selected", "native"} =>
        \A p \in Inputs :
            LET source == RunSource(program, p, MaxTrips)
            IN  source.done => RunNative(asm, p, MaxBlocks) = source

\* A well-formed program is compiled with every option: no stage produces IR
\* that the verifier refuses, and every register and block that a stage
\* leaves a reference to exists.
NeverRejected == TypeOK /\ phase # "rejected"

\* b is reached from the entry only through d.
AlwaysThrough(d, b) ==
    LET cut == [fn EXCEPT !.body = [c \in Blocks(fn) |-> IF c = d THEN << >> ELSE fn.body[c]]]
    IN  d = b \/ b \notin Reachable(cut)

\* ir_dominance_compute gives what the definitions say: dominators by paths,
\* the immediate dominator as the closest one, and the frontier as the
\* blocks where dominance ends.
DominanceExact ==
    phase = "construct" =>
        LET dom == Dominators(fn)
            R == Reachable(fn)
        IN  /\ \A b \in R : dom[b] = {d \in R : AlwaysThrough(d, b)}
            /\ \A b \in R \ {0} :
                  \E d \in R : /\ ImmediateCandidates(dom, b) = {d}
                               /\ \A o \in R \ {b} : AlwaysThrough(o, b) => AlwaysThrough(o, d)
            /\ \A x, y \in R :
                  y \in Frontier(fn, dom, x) <=>
                     /\ \E p \in Predecessors(fn, y) \cap R : AlwaysThrough(x, p)
                     /\ x = y \/ ~ AlwaysThrough(x, y)

\* SSA form as the algorithms after construction rely on it: every register
\* has one definition, which every path to a use passes; a phi has a value
\* for every predecessor, defined on every path to that predecessor; and no
\* promoted variable is left in memory.  Every pass on SSA form keeps it,
\* within a block too, where ir_ssa_verify_function does not look.
SsaForm ==
    phase \in {"ssaopt", "ssa"} =>
        /\ \A n \in 0..fn.nreg - 1 : Cardinality(DefsOf(fn, Reg(n))) <= 1
        /\ \A b \in Reachable(fn) : \A i \in DOMAIN fn.body[b] :
              LET inst == fn.body[b][i]
                  avail(r, at, j) == \E d \in DefsOf(fn, r) :
                                        IF d[1] = at THEN d[2] < j ELSE AlwaysThrough(d[1], at)
              IN  /\ inst.op \notin {"alloca", "load", "store"}
                  /\ \A r \in Uses(inst) : avail(r, b, i)
                  /\ inst.op = "phi" =>
                        /\ DOMAIN inst.phi = Predecessors(fn, b)
                        /\ \A p \in DOMAIN inst.phi :
                              /\ inst.phi[p] # Null
                              /\ IsReg(inst.phi[p]) => avail(inst.phi[p], p, Len(fn.body[p]))

\* What the code motion is about to be given by ir_loop_analysis_compute are
\* the natural loops of the definition: one for each header, with the blocks
\* from which a latch can be reached around the header; any two are disjoint
\* or nested, the depth of a loop is the number of loops around its header,
\* and each has a block to hoist into that runs exactly when it is entered
\* (ir_loop_get_or_create_preheader never has to make one).
LoopsExact ==
    phase = "ssaopt" /\ SsaPasses[pass] = "licm" =>
        \A loops \in {LoopsOf(fn, Dominators(fn))} :
            LET R == Reachable(fn)
                latches(h) == {b \in R : h \in Successors(fn, b) /\ AlwaysThrough(h, b)}
                cut(h) == [fn EXCEPT !.body[h] = << >>]
                natural(h) == {h} \cup {b \in R \ {h} : Closure(cut(h), {b}) \cap latches(h) # {}}
            IN  /\ {loops[i].header : i \in DOMAIN loops} = {h \in R : latches(h) # {}}
                /\ \A i \in DOMAIN loops :
                      /\ HasPreheader(fn, loops[i])
                      /\ loops[i].latches = latches(loops[i].header)
                      /\ ToSet(loops[i].blocks) = natural(loops[i].header)
                      /\ \A j \in DOMAIN loops \ {i} :
                            LET common == natural(loops[i].header) \cap natural(loops[j].header)
                            IN  common \in {{}, natural(loops[i].header), natural(loops[j].header)}
                      /\ Depth(loops, i) =
                            Cardinality({j \in DOMAIN loops : loops[i].header \in natural(loops[j].header)})

\* The optimizer stops because a round of passes found nothing more to do,
\* never because it ran out of rounds.
FixpointReached ==
    phase = "done" /\ opts.level > 0 =>
        \A i \in DOMAIN Passes : RunPass(Passes[i], fn).fn = fn
=============================================================================
