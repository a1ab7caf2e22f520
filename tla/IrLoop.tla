------------------------------- MODULE IrLoop -------------------------------
(***************************************************************************)
(* Natural loops of a function in SSA form (src/ir/ir_loop.c).  A loop is  *)
(* its header, its latches and the sequence of its blocks in the order     *)
(* they were found: code motion takes instructions in that order.          *)
(***************************************************************************)
EXTENDS IrDominance

\* create_loop
CreateLoop(h) == [header |-> h, latches |-> {}, blocks |-> <<h>>]

\* Step 1: the edges to a block that dominates their source, in list order.
BackEdges(fn, dom) ==
    LET order == Layout(Blocks(fn))
        of(b) == SelectSeq(Last(fn.body[b]).to, LAMBDA h : Dominates(dom, h, b))
    IN  FlattenSeq([i \in DOMAIN order |-> [j \in DOMAIN of(order[i]) |-> <<order[i], of(order[i])[j]>>]])

\* Mutant: predecessors are added, but not followed further.
GrowOnce(fn, blocks, worklist) ==
    blocks \o SelectSeq(Layout(Predecessors(fn, Head(worklist))), LAMBDA p : p \notin ToSet(blocks))

\* Step 3: the blocks that reach the latch without passing the header, which
\* is among the blocks from the start.
RECURSIVE Grow(_, _, _)
Grow(fn, blocks, worklist) ==
    IF worklist = << >> THEN blocks ELSE
    LET new == SelectSeq(Layout(Predecessors(fn, Head(worklist))), LAMBDA p : p \notin ToSet(blocks))
    IN  Grow(fn, blocks \o new, Tail(worklist) \o new)

\* loop_add_latch, loop_add_block and the walk from the latch.
AddLatch(fn, loop, b) ==
    LET with == IF b \in ToSet(loop.blocks) THEN loop.blocks ELSE Append(loop.blocks, b)
    IN  [loop EXCEPT !.latches = @ \cup {b},
                     !.blocks = IF b = loop.header THEN with ELSE Grow(fn, with, <<b>>)]

\* Step 2: back edges with the same header make one loop.
AddBackEdge(fn, loops, e) ==
    LET known == {i \in DOMAIN loops : loops[i].header = e[2]}
    IN  IF known = {} THEN Append(loops, AddLatch(fn, CreateLoop(e[2]), e[1]))
        ELSE [loops EXCEPT ![Min(known)] = AddLatch(fn, @, e[1])]

LoopsOf(fn, dom) == FoldLeft(LAMBDA loops, e : AddBackEdge(fn, loops, e), << >>, BackEdges(fn, dom))

\* Step 4: the smallest of the loops that strictly contain loop i, the first
\* of them when several are; 0 when there is none.
Parent(loops, i) ==
    LET around == {j \in DOMAIN loops : /\ Len(loops[i].blocks) < Len(loops[j].blocks)
                                        /\ ToSet(loops[i].blocks) \subseteq ToSet(loops[j].blocks)}
        closest == {j \in around : \A k \in around : Len(loops[j].blocks) <= Len(loops[k].blocks)}
    IN  IF around = {} THEN 0 ELSE Min(closest)

\* Step 5
RECURSIVE Depth(_, _)
Depth(loops, i) == IF Parent(loops, i) = 0 THEN 1 ELSE 1 + Depth(loops, Parent(loops, i))

\* ir_loop_get_or_create_preheader: the predecessors from outside.  When there
\* is one and the header is its only successor, it is the preheader; the
\* creation of a block for the other cases is not modelled (the functions the
\* front end makes never need it: property LoopsExact).
Outside(fn, loop) == Predecessors(fn, loop.header) \ ToSet(loop.blocks)
HasPreheader(fn, loop) ==
    \E p \in Outside(fn, loop) : Outside(fn, loop) = {p} /\ Successors(fn, p) = {loop.header}
Preheader(fn, loop) == CHOOSE p \in Outside(fn, loop) : TRUE
=============================================================================
