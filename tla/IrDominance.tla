---------------------------- MODULE IrDominance -----------------------------
(***************************************************************************)
(* Dominators, the dominator tree and dominance frontiers                  *)
(* (src/ir/ir_dominance.c, ir_dominance_compute).  dom[b] is the set of    *)
(* blocks that dominate b, empty when b cannot be reached from the entry.  *)
(***************************************************************************)
EXTENDS IrFunction

\* Step 3: the entry dominates itself, every other reachable block starts
\* with all of them.
DomStart(fn) ==
    LET R == Reachable(fn)
    IN  [b \in Blocks(fn) |-> IF b = 0 THEN {0} ELSE IF b \in R THEN R ELSE {}]

\* What a block's reachable predecessors have in common.
MeetOfPreds(fn, dom, b) ==
    LET P == Predecessors(fn, b) \cap Reachable(fn)
    IN  {d \in Blocks(fn) : P # {} /\ \A p \in P : d \in dom[p]}

\* Step 4: sweeps over the blocks in list order until nothing changes.
DomSweep(fn, dom) ==
    FoldLeft(LAMBDA m, b : [m EXCEPT ![b] = MeetOfPreds(fn, m, b) \cup {b}],
             dom, Layout(Reachable(fn) \ {0}))

RECURSIVE DomFix(_, _)
DomFix(fn, dom) ==
    LET next == DomSweep(fn, dom) IN IF next = dom THEN dom ELSE DomFix(fn, next)

Dominators(fn) == DomFix(fn, DomStart(fn))

\* Step 5: the strict dominators of b that all others dominate; idom is the
\* first of them.
ImmediateCandidates(dom, b) ==
    {c \in dom[b] \ {b} : \A o \in dom[b] \ {b, c} : o \in dom[c]}
Children(dom, b) == {c \in DOMAIN dom : b \in ImmediateCandidates(dom, c)}

\* Mutant: a block that dominates itself is never in its own frontier.
FrontierNotSelf(fn, dom, b) ==
    {y \in Blocks(fn) : dom[b] # {} /\ (\E p \in Predecessors(fn, y) : b \in dom[p]) /\ b \notin dom[y]}

\* Step 7: blocks just beyond what b dominates.
Frontier(fn, dom, b) ==
    {y \in Blocks(fn) : /\ dom[b] # {} /\ dom[y] # {}
                        /\ \E p \in Predecessors(fn, y) : b \in dom[p]
                        /\ ~ (b # y /\ b \in dom[y])}

\* ir_dominates
Dominates(dom, a, b) == a = b \/ a \in dom[b]
=============================================================================
