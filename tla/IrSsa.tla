-------------------------------- MODULE IrSsa --------------------------------
(***************************************************************************)
(* SSA construction, verification and destruction (src/ir/ir_ssa.c).       *)
(***************************************************************************)
EXTENDS IrDominance, IrVerify

\* The size of the array of parallel copies in ir_ssa_deconstruct_function.
CONSTANT MaxCopies
ASSUME MaxCopiesAssumption == MaxCopies \in Nat \ {0}

\* replace_uses_in_fn for every load that was removed: sub gives the value
\* that stands for a register.  A value is looked up when it is read, after
\* the loads before it, so it never stands for another removed load.
Subst(sub, v) == IF v \in DOMAIN sub THEN sub[v] ELSE v
ReplaceUses(fn, sub) ==
    MapFn(fn, LAMBDA i : [MapOperands(i, LAMBDA v : Subst(sub, v)) EXCEPT
                             !.phi = MapSeq(i.phi, LAMBDA v : Subst(sub, v))])

(* ----------------------------------------------------------- construction *)
\* is_var_escaped: the slot is used other than by a load from it or a store
\* to it.
Escapes(fn, x) ==
    \E i \in Instructions(fn) :
        CASE i.op = "load" -> i.rhs = Slot(x)
          [] i.op = "store" -> i.lhs = Slot(x)
          [] OTHER -> Slot(x) \in Operands(i)

\* find_promotable_vars: one entry per alloca of the entry block, in order.
PromotableVars(fn) ==
    LET promotable == SelectSeq(fn.body[0], LAMBDA j : j.op = "alloca" /\ ~ Escapes(fn, j.dst[2]))
    IN  [i \in DOMAIN promotable |-> promotable[i].dst[2]]

DefBlocks(fn, x) ==
    {b \in Blocks(fn) : \E i \in DOMAIN fn.body[b] :
        fn.body[b][i].op = "store" /\ fn.body[b][i].rhs = Slot(x)}

\* place_phi_nodes: the blocks of the iterated dominance frontier, in the
\* order the worklist finds them.
RECURSIVE PhiBlocks(_, _, _, _, _)
PhiBlocks(fn, dom, worklist, seen, phis) ==
    IF worklist = << >> THEN phis ELSE
    LET new == Layout(Frontier(fn, dom, Head(worklist)) \ ToSet(phis))
    IN  PhiBlocks(fn, dom, Tail(worklist) \o SelectSeq(new, LAMBDA b : b \notin seen),
                  seen \cup ToSet(new), phis \o new)

\* insert_phi_node_at_block_front: no second phi for a variable; the value
\* of every predecessor is NULL until the renaming walk fills it.
InsertPhi(fn, b, x) ==
    IF \E i \in DOMAIN fn.body[b] : fn.body[b][i].op = "phi" /\ fn.body[b][i].slot = x
      THEN fn
      ELSE [fn EXCEPT !.nreg = @ + 1,
              !.body[b] = <<[Instr("phi", Reg(fn.nreg), Null, Null) EXCEPT
                               !.slot = x,
                               !.phi = [p \in Predecessors(fn, b) |-> Null]]>> \o @]

PlacePhis(fn, dom) ==
    FoldLeft(LAMBDA f, x :
                FoldLeft(LAMBDA g, b : InsertPhi(g, b, x), f,
                         PhiBlocks(fn, dom, Layout(DefBlocks(fn, x)), DefBlocks(fn, x), << >>)),
             fn, PromotableVars(fn))

\* stack_top: a variable read before any write is 0.
StackTop(stack) == IF stack = << >> THEN IntVal(0) ELSE Last(stack)
Push(w, x, v) == [w EXCEPT !.stacks[x] = Append(@, v)]

\* rename_dominator_tree, steps 1 and 2: one instruction of a block.  Loads
\* and stores of promoted variables go; the others are kept, in w.out.
RenameInst(w, inst) ==
    CASE inst.op = "phi" -> Push([w EXCEPT !.out = Append(@, inst)], inst.slot, inst.dst)
      [] inst.op = "load" /\ inst.lhs[2] \in DOMAIN w.stacks ->
            [w EXCEPT !.sub = (inst.dst :> StackTop(w.stacks[inst.lhs[2]])) @@ @]
      [] inst.op = "store" /\ inst.rhs[2] \in DOMAIN w.stacks ->
            Push(w, inst.rhs[2], Subst(w.sub, inst.lhs))
      [] OTHER -> [w EXCEPT !.out = Append(@, inst)]

RenameBlock(w, b) ==
    LET r == FoldLeft(RenameInst, [w EXCEPT !.out = << >>], w.fn.body[b])
    IN  [r EXCEPT !.fn.body[b] = r.out]

\* Mutant: only the first target of a branch has its phis filled.
FillFirstTarget(w, b) ==
    LET filled(inst) == IF inst.op = "phi"
                          THEN [inst EXCEPT !.phi[b] = StackTop(w.stacks[inst.slot])] ELSE inst
    IN  IF Successors(w.fn, b) = {} THEN w
        ELSE [w EXCEPT !.fn = MapBlock(w.fn, Min(Successors(w.fn, b)), filled)]

\* Step 3: the value each variable has at the end of b is what its successors'
\* phis receive from b.
FillPhis(w, b) ==
    LET filled(inst) == IF inst.op = "phi"
                          THEN [inst EXCEPT !.phi[b] = StackTop(w.stacks[inst.slot])] ELSE inst
    IN  [w EXCEPT !.fn = FoldLeft(LAMBDA f, s : MapBlock(f, s, filled), w.fn,
                                  Layout(Successors(w.fn, b)))]

\* Steps 4 and 5: the children in the dominator tree, each starting from
\* this block's stacks, and then the stacks as they were.
RECURSIVE RenameTree(_, _, _)
RenameTree(w, dom, b) ==
    [FoldLeft(LAMBDA v, c : RenameTree(v, dom, c), FillPhis(RenameBlock(w, b), b),
              Layout(Children(dom, b)))
        EXCEPT !.stacks = w.stacks]

\* ir_ssa_construct_function, up to its final check.
SsaConstruct(fn) ==
    LET dom == Dominators(fn)
        vars == ToSet(PromotableVars(fn))
        w == RenameTree([fn |-> PlacePhis(fn, dom), stacks |-> [x \in vars |-> << >>],
                         sub |-> << >>, out |-> << >>], dom, 0)
    IN  [ReplaceUses(w.fn, w.sub) EXCEPT !.body[0] =
            SelectSeq(@, LAMBDA i : i.op # "alloca" \/ i.dst[2] \notin vars)]

(* ----------------------------------------------------------- verification *)
\* ir_ssa_verify_function
DefsOf(fn, r) == {<<b, i>> \in UNION {{b} \X DOMAIN fn.body[b] : b \in Blocks(fn)} :
                     fn.body[b][i].dst = r}

SsaVerify(fn) ==
    LET dom == Dominators(fn)
    IN  /\ \A n \in 0..fn.nreg - 1 : Cardinality(DefsOf(fn, Reg(n))) <= 1
        /\ \A b \in Blocks(fn) : \A i \in DOMAIN fn.body[b] :
              LET inst == fn.body[b][i] IN
              IF inst.op = "phi"
                THEN DOMAIN inst.phi \subseteq Predecessors(fn, b)
                ELSE \A r \in Uses(inst) : \E d \in DefsOf(fn, r) : Dominates(dom, d[1], b)
        /\ \A b \in Blocks(fn) : PhisFirst(fn.body[b])

(* ------------------------------------------------------------ destruction *)
HasPhis(insts) == insts # << >> /\ insts[1].op = "phi"

\* split_critical_edges: an edge from a block with two successors to a block
\* with phis and several predecessors gets a block of its own.  Edges are
\* those of the control-flow graph before any split.
CriticalEdges(fn) ==
    LET joins == {s \in Blocks(fn) : Cardinality(Predecessors(fn, s)) > 1 /\ HasPhis(fn.body[s])}
        from(b) == LET to == Last(fn.body[b]).to
                       critical == SelectSeq(to, LAMBDA s : s \in joins)
                   IN  IF Cardinality(ToSet(to)) < 2 THEN << >>
                       ELSE [j \in DOMAIN critical |-> <<b, critical[j]>>]
        order == Layout(Blocks(fn))
    IN  FlattenSeq([i \in DOMAIN order |-> from(order[i])])

SplitEdge(fn, e) ==
    LET b == e[1]
        s == e[2]
        n == fn.nblock
        f == AddInstruction(BlockCreate(fn), n, Br(s))
        moved(i) == IF i.op # "phi" THEN i
                    ELSE [i EXCEPT !.phi = [p \in (DOMAIN i.phi \ {b}) \cup {n} |->
                                               i.phi[IF p = n THEN b ELSE p]]]
        retargeted(i) == [i EXCEPT !.to = MapSeq(i.to, LAMBDA d : IF d = s THEN n ELSE d)]
    IN  MapBlock(MapBlock(f, s, moved), b, retargeted)

SplitCriticalEdges(fn) == FoldLeft(SplitEdge, fn, CriticalEdges(fn))

\* Mutant: copies are emitted in the order of the phis.
AnyCopy(copies) == DOMAIN copies

\* emit_sequential_copies_before_term: the first copy whose target no other
\* remaining copy reads; when there is none, the first copy's source is
\* saved in a new register.  A copy is <<target, source>>.
FreeCopies(copies) ==
    {i \in DOMAIN copies : \A j \in DOMAIN copies \ {i} : copies[j][2] # copies[i][1]}

BeforeTerm(fn, b, inst) == [fn EXCEPT !.body[b] = Front(@) \o <<inst, Last(@)>>]

RECURSIVE EmitCopies(_, _, _)
EmitCopies(fn, b, copies) ==
    IF copies = << >> THEN fn
    ELSE IF FreeCopies(copies) # {}
      THEN LET i == CHOOSE k \in FreeCopies(copies) : \A m \in FreeCopies(copies) : k <= m
           IN  EmitCopies(BeforeTerm(fn, b, Instr("const", copies[i][1], copies[i][2], Null)),
                          b, RemoveAt(copies, i))
      ELSE LET tmp == Reg(fn.nreg)
           IN  EmitCopies(BeforeTerm([fn EXCEPT !.nreg = @ + 1], b,
                                     Instr("const", tmp, copies[1][2], Null)),
                          b, [copies EXCEPT ![1][2] = tmp])

\* ir_ssa_deconstruct_function: for each block with phis and each of its
\* predecessors, at most MaxCopies copies; then the phis go.
CopiesFor(fn, b, p) ==
    LET phis == SelectSeq(fn.body[b], LAMBDA i : i.op = "phi")
        all == [i \in DOMAIN phis |-> <<phis[i].dst, phis[i].phi[p]>>]
        needed == SelectSeq(all, LAMBDA c : c[1] # c[2])
    IN  SubSeq(needed, 1, IF Len(needed) < MaxCopies THEN Len(needed) ELSE MaxCopies)

LowerPhis(fn, b) ==
    LET f == FoldLeft(LAMBDA g, p : EmitCopies(g, p, CopiesFor(fn, b, p)), fn,
                      Layout(Predecessors(fn, b)))
    IN  [f EXCEPT !.body[b] = SelectSeq(@, LAMBDA i : i.op # "phi")]

SsaDeconstruct(fn) ==
    LET f == SplitCriticalEdges(fn)
    IN  FoldLeft(LowerPhis, f, Layout({b \in Blocks(f) : HasPhis(f.body[b])}))
=============================================================================
