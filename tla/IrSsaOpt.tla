------------------------------ MODULE IrSsaOpt ------------------------------
(***************************************************************************)
(* The passes on SSA form that --ssa -O1 runs                              *)
(* (src/ir/ir_ssa_opt.c, ir_ssa_advanced_optimize_function): sparse        *)
(* conditional constant propagation, value numbering, loop-invariant code  *)
(* motion, dead code and branches to one place.                            *)
(***************************************************************************)
EXTENDS IrSsa, IrLoop

\* is_pure_operation and is_commutative
Pure == {"const", "neg", "not"} \cup Arithmetic \cup Comparison \cup Logical
Commutative == {"add", "mul", "eq", "ne", "and", "or"}

\* Every register an instruction reads, those of its phi values too.
ReadsOf(inst) == Uses(inst) \cup {v \in {inst.phi[p] : p \in DOMAIN inst.phi} : IsReg(v)}

(* -------------------------------------------------------------------- SCCP *)
\* A lattice value is Top (not reached), a constant, or Bot (varying).
Top == <<"top">>
Bot == <<"bot">>

\* eval_binary_op and eval_unary_op: no constant (Bot) where C gives NULL.
EvalBinary(op, a, b) ==
    CASE op \in Arithmetic /\ IsInt(a) /\ IsInt(b) ->
            IF op \in {"div", "mod"} /\ b[2] = 0 THEN Bot ELSE IntVal(Compute(op, a[2], b[2]))
      [] op \in Comparison /\ IsInt(a) /\ IsInt(b) -> BoolVal(Compute(op, a[2], b[2]))
      [] op \in Logical \cup {"eq", "ne"} /\ a[1] = "bool" /\ b[1] = "bool" ->
            BoolVal(Compute(op, a[2], b[2]))
      [] OTHER -> Bot

EvalUnary(op, a) ==
    CASE op = "neg" /\ IsInt(a) -> IntVal(-a[2])
      [] op = "not" /\ a[1] = "bool" -> BoolVal(1 - a[2])
      [] OTHER -> Bot

\* The state of the analysis: lat of every register, the executable blocks
\* and edges, and the two worklists.  The one parameter has id 0, and marking
\* it varying marks register 0.
SccpStart(fn) ==
    [lat |-> [r \in 0..fn.nreg |-> IF r = 0 THEN Bot ELSE Top],
     exec |-> {}, edges |-> {}, cfg |-> <<<<-1, 0>>>>, ssa |-> << >>]

LatOf(w, v) == CASE IsReg(v) -> w.lat[v[2]] [] IsConst(v) -> v [] OTHER -> Bot

\* A phi: the meet of the values that arrive over executable edges.
PhiLat(w, inst, b) ==
    LET in == {LatOf(w, inst.phi[p]) : p \in {q \in DOMAIN inst.phi : <<q, b>> \in w.edges}} \ {Top}
    IN  IF in = {} THEN Top ELSE IF Cardinality(in) > 1 THEN Bot ELSE CHOOSE v \in in : TRUE

\* A pure operation
OpLat(w, inst) ==
    LET l == LatOf(w, inst.lhs)
        r == LatOf(w, inst.rhs)
    IN  CASE inst.op = "const" -> inst.lhs
          [] inst.op \in {"neg", "not"} -> IF IsConst(l) THEN EvalUnary(inst.op, l) ELSE l
          [] OTHER -> IF Bot \in {l, r} THEN Bot
                      ELSE IF IsConst(l) /\ IsConst(r) THEN EvalBinary(inst.op, l, r) ELSE Top

\* The register gets its value and, when wake holds, its readers are looked
\* at again (in_ssa_wl: once is enough).
SetLat(w, r, v, wake) ==
    [w EXCEPT !.lat[r] = v, !.ssa = IF wake /\ r \notin ToSet(@) THEN Append(@, r) ELSE @]

AddEdges(w, b, targets) == [w EXCEPT !.cfg = @ \o [i \in DOMAIN targets |-> <<b, targets[i]>>]]
Taken(inst, c) == inst.to[IF c[2] # 0 THEN 1 ELSE 2]

EvalPhi(w, b, inst) ==
    LET v == PhiLat(w, inst, b) IN SetLat(w, inst.dst[2], v, v # w.lat[inst.dst[2]])

\* An instruction of a block that becomes executable.
VisitInst(w, b, inst) ==
    CASE inst.op = "phi" -> EvalPhi(w, b, inst)
      [] inst.op \in Pure -> LET v == OpLat(w, inst) IN SetLat(w, inst.dst[2], v, v # Top)
      [] inst.op = "br" -> AddEdges(w, b, inst.to)
      [] inst.op = "condbr" ->
            LET c == LatOf(w, inst.lhs) IN AddEdges(w, b, IF IsConst(c) THEN <<Taken(inst, c)>> ELSE inst.to)
      [] OTHER -> IF IsReg(inst.dst) THEN SetLat(w, inst.dst[2], Bot, FALSE) ELSE w

\* An instruction that reads register r, whose value changed.
ReviseInst(w, b, inst, r) ==
    CASE inst.op = "phi" -> EvalPhi(w, b, inst)
      [] inst.op \in Pure ->
            LET v == OpLat(w, inst) IN SetLat(w, inst.dst[2], v, v # w.lat[inst.dst[2]])
      [] inst.op = "condbr" ->
            AddEdges(w, b, CASE w.lat[r] = Top -> << >>
                             [] w.lat[r] = Bot -> inst.to
                             [] OTHER -> <<Taken(inst, w.lat[r])>>)
      [] OTHER -> w

\* The first edge of the CFG worklist: a block seen before has only its phis
\* evaluated again.
CfgStep(fn, w) ==
    LET b == Head(w.cfg)[2]
        v == [w EXCEPT !.cfg = Tail(@), !.exec = @ \cup {b}, !.edges = @ \cup {Head(w.cfg)}]
        insts == IF b \notin w.exec THEN fn.body[b]
                 ELSE SelectSeq(fn.body[b], LAMBDA i : i.op = "phi")
    IN  FoldLeft(LAMBDA u, i : VisitInst(u, b, i), v, insts)

\* The first register of the SSA worklist: its readers in executable blocks.
SsaStep(fn, w) ==
    LET r == Head(w.ssa)
        in(u, b) == FoldLeft(LAMBDA t, i : ReviseInst(t, b, i, r), u,
                             SelectSeq(fn.body[b], LAMBDA i : Reg(r) \in ReadsOf(i)))
    IN  FoldLeft(in, [w EXCEPT !.ssa = Tail(@)], Layout(w.exec))

RECURSIVE DrainCfg(_, _), DrainSsa(_, _), SccpFix(_, _)
DrainCfg(fn, w) == IF w.cfg = << >> THEN w ELSE DrainCfg(fn, CfgStep(fn, w))
DrainSsa(fn, w) == IF w.ssa = << >> THEN w ELSE DrainSsa(fn, SsaStep(fn, w))
SccpFix(fn, w) ==
    IF w.cfg = << >> /\ w.ssa = << >> THEN w ELSE SccpFix(fn, DrainSsa(fn, DrainCfg(fn, w)))

\* Step D: a phi keeps the values of edges that are left; one value stands
\* for the phi.
PrunePhi(fn, edges, b, r) ==
    LET inst == CHOOSE i \in ToSet(fn.body[b]) : i.dst = r
        kept == {p \in DOMAIN inst.phi : p \in Predecessors(fn, b) /\ <<p, b>> \in edges}
        without == [fn EXCEPT !.body[b] = SelectSeq(@, LAMBDA i : i # inst)]
    IN  IF kept = {} THEN without
        ELSE IF Cardinality(kept) = 1
          THEN ReplaceUses(without, r :> inst.phi[CHOOSE p \in kept : TRUE])
        ELSE MapBlock(fn, b, LAMBDA i : IF i # inst THEN i
                                        ELSE [i EXCEPT !.phi = [p \in kept |-> i.phi[p]]])

\* Steps A to C: constants for registers, branches on constants, the blocks
\* that are left.
SccpRewrite(fn, w) ==
    LET known == {r \in DOMAIN w.lat : IsConst(w.lat[r])}
        f == ReplaceUses(fn, [v \in {Reg(r) : r \in known} |-> w.lat[v[2]]])
        g == MapFn(f, LAMBDA i : IF i.op = "condbr" /\ IsConst(i.lhs) THEN Br(Taken(i, i.lhs)) ELSE i)
    IN  [g EXCEPT !.body = [b \in w.exec |-> g.body[b]]]

Phis(fn) ==
    LET order == Layout(Blocks(fn))
        in(b) == SelectSeq(fn.body[b], LAMBDA i : i.op = "phi")
    IN  FlattenSeq([k \in DOMAIN order |-> [j \in DOMAIN in(order[k]) |-> <<order[k], in(order[k])[j].dst>>]])

\* ir_ssa_sccp
Sccp(fn) ==
    LET w == SccpFix(fn, SccpStart(fn))
        f == SccpRewrite(fn, w)
    IN  FoldLeft(LAMBDA g, at : PrunePhi(g, w.edges, at[1], at[2]), f, Phis(f))

(* --------------------------------------------------------------------- GVN *)
\* What lookup_gvn compares.  The type follows from the operation but for a
\* constant; -1 stands for no register, -10 for the parameter.
RegOf(v) == CASE IsReg(v) -> v[2] [] v = Param -> -10 [] OTHER -> -1
ImmOf(kind, inst) ==
    IF inst.rhs[1] = kind THEN inst.rhs[2] ELSE IF inst.lhs[1] = kind THEN inst.lhs[2] ELSE 0

KeyOf(inst) ==
    LET l == RegOf(inst.lhs)
        r == RegOf(inst.rhs)
        swap == inst.op \in Commutative /\ -1 \notin {l, r} /\ l > r
    IN  [op |-> inst.op, type |-> IF inst.op = "const" THEN inst.lhs[1] ELSE "", int |-> ImmOf("int", inst),
         bool |-> ImmOf("bool", inst), args |-> IF swap THEN <<r, l>> ELSE <<l, r>>]

\* gvn_walk_dom_tree: an expression computed before, in this block or in one
\* that dominates it, is removed; scope gives its leader.
RECURSIVE GvnBlock(_, _, _)
GvnBlock(g, b, i) ==
    IF i > Len(g.fn.body[b]) THEN g ELSE
    LET inst == g.fn.body[b][i]
        key == KeyOf(inst)
    IN  CASE inst.op \notin Pure -> GvnBlock(g, b, i + 1)
          [] inst.op \in Pure /\ key \notin DOMAIN g.scope ->
                GvnBlock([g EXCEPT !.scope = (key :> inst.dst) @@ @], b, i + 1)
          [] OTHER ->
                GvnBlock([g EXCEPT !.fn = ReplaceUses([@ EXCEPT !.body[b] = RemoveAt(@, i)],
                                                      inst.dst :> g.scope[key])], b, i)

RECURSIVE GvnWalk(_, _, _)
GvnWalk(g, dom, b) ==
    [FoldLeft(LAMBDA h, c : GvnWalk(h, dom, c), GvnBlock(g, b, 1), Layout(Children(dom, b)))
        EXCEPT !.scope = g.scope]

Gvn(fn) == GvnWalk([fn |-> fn, scope |-> << >>], Dominators(fn), 0).fn

(* --------------------------------------------------------------- dead code *)
\* ir_ssa_dce: rounds of removals; the uses are counted at the start of each.
RECURSIVE SsaDce(_)
SsaDce(fn) ==
    LET used == UNION {ReadsOf(i) : i \in Instructions(fn)}
        live(i) == i.op \notin Pure \cup {"phi"} \/ i.dst \in used
        new == [fn EXCEPT !.body = [b \in Blocks(fn) |-> SelectSeq(fn.body[b], live)]]
    IN  IF new = fn THEN fn ELSE SsaDce(new)

\* ir_ssa_cfg_simplify
SsaCfgSimplify(fn) ==
    MapFn(fn, LAMBDA i : IF i.op = "condbr" /\ i.to[1] = i.to[2] THEN Br(i.to[1]) ELSE i)

(* -------------------------------------------------------------------- LICM *)
\* is_instruction_invariant
InvariantInst(inst, inv) ==
    /\ inst.op \in Pure
    /\ inst.op \in {"div", "mod"} => inst.rhs # IntVal(0)
    /\ {v \in {inst.lhs, inst.rhs} : IsReg(v)} \subseteq inv

RECURSIVE InvariantRegs(_, _)
InvariantRegs(insts, inv) ==
    LET new == inv \cup {i.dst : i \in {j \in insts : InvariantInst(j, inv)}}
    IN  IF new = inv THEN inv ELSE InvariantRegs(insts, new)

\* ir_ssa_licm for one loop: a register is invariant when it is set outside,
\* by an invariant instruction, or has the id of the parameter.  The
\* instructions go to the end of the preheader in the order of loop->blocks.
LicmLoop(fn, loop) ==
    LET in == ToSet(loop.blocks)
        outer == {i.dst : i \in UNION {ToSet(fn.body[b]) : b \in Blocks(fn) \ in}}
        inv == InvariantRegs(UNION {ToSet(fn.body[b]) : b \in in},
                             {v \in outer : IsReg(v)} \cup {Reg(0)})
        hoisted(i) == i.dst \in inv
        moved == FlattenSeq([k \in DOMAIN loop.blocks |-> SelectSeq(fn.body[loop.blocks[k]], hoisted)])
        f == [fn EXCEPT !.body = [b \in Blocks(fn) |->
                 IF b \in in THEN SelectSeq(fn.body[b], LAMBDA i : ~ hoisted(i)) ELSE fn.body[b]]]
    IN  IF moved = << >> THEN fn
        ELSE [f EXCEPT !.body[Preheader(fn, loop)] = Front(@) \o moved \o <<Last(@)>>]

Licm(fn) == FoldLeft(LicmLoop, fn, LoopsOf(fn, Dominators(fn)))

\* The passes in the order ir_ssa_advanced_optimize_function runs them.
SsaPasses == <<"sccp", "cfg", "gvn", "dce", "licm", "dce", "cfg">>
RunSsaPass(pass, fn) ==
    CASE pass = "sccp" -> Sccp(fn)
      [] pass = "cfg" -> SsaCfgSimplify(fn)
      [] pass = "gvn" -> Gvn(fn)
      [] pass = "dce" -> SsaDce(fn)
      [] pass = "licm" -> Licm(fn)
=============================================================================
