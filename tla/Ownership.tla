------------------------------ MODULE Ownership ------------------------------
(***************************************************************************)
(* The single-ownership pass of the compiler (pass 3 of                     *)
(* src/frontend/scope_analysis.c) together with the code the C11 back end   *)
(* emits from its annotations.                                              *)
(*                                                                          *)
(* A behaviour has two phases.  In phase "analyse" one function body is     *)
(* chosen statement by statement, and each statement is analysed as it is   *)
(* appended to code, exactly as analyze_own_stmt walks a body: it is either *)
(* rejected with a diagnostic, which ends the compilation, or annotated     *)
(* with the variables the emitted C frees and sets to NULL.  In phase "run" *)
(* the emitted C is executed: conditions are chosen freely and every heap   *)
(* object is tracked, so that what the pass promises about a program is     *)
(* compared with what its execution does.                                   *)
(*                                                                          *)
(* All variables hold one heap class, and objects are identified by the     *)
(* order of their allocation.  NULL is 0.                                   *)
(***************************************************************************)
EXTENDS Integers, Sequences, SequencesExt, FiniteSets, FiniteSetsExt

\* The families of functions to analyse; a family is a record of
\*   names     the variable names of the function
\*   params    the owned parameters, in declaration order
\*   ops       the statements the function may contain
\*   features  the risky idioms (see the section Fragment) it may contain
\*   code      bound on the number of statements, block ends not counted
\*   depth     bound on the nesting of blocks
\*   iter      bound on the loop iterations of an execution
CONSTANT Families

Plain   == {"let_new", "let_move", "let_borrow", "set_new", "set_move",
            "set_self", "set_borrow", "eat", "use"}
Jumps   == {"ret", "ret0", "break", "continue"}
Openers == {"if", "while", "match"}
Idioms  == {"revive", "shadow", "loop_return", "match_break", "late_borrow"}

ASSUME ConstantsAssumption ==
    \A f \in Families :
        /\ Range(f.params) \subseteq f.names
        /\ IsInjective(f.params)
        /\ f.ops \subseteq Plain \union Jumps \union Openers
        /\ f.features \subseteq Idioms
        /\ f.code \in Nat /\ f.depth \in Nat /\ f.iter \in Nat

VARIABLES
    family,  \* the family the function is from
    phase,   \* "analyse", "rejected", "run" or "done"
    code,    \* the annotated statements
    open,    \* the stack of open blocks: OwnScopeStack.scopes and, for a
             \* branch, the snapshots NODE_IF and NODE_MATCH keep
    moved,   \* OwnScopeStack.moved, the table of moved variables
    pc, frames, heap, iter, fault   \* the execution of the emitted C

analysis == <<code, open, moved>>
execution == <<pc, frames, heap, iter, fault>>
vars == <<family, phase, analysis, execution>>

Names == family.names
Params == family.params
Ops == family.ops
Features == family.features
MaxCode == family.code
MaxDepth == family.depth
MaxIter == family.iter

Null == 0
Undeclared == -1
None == "-"

MovedVar == [name : Names, cond : BOOLEAN]
OwnVar   == [name : Names, loop : Nat, borrowed : BOOLEAN]

-----------------------------------------------------------------------------
(* The scope stack and the moved table *)

\* The block whose variable a name means: the innermost that declares it.
\* 0 if none does.
ScopeOf(n) == Max({0} \union {i \in DOMAIN open :
                        \E j \in DOMAIN open[i].vars : open[i].vars[j].name = n})

InScope(n) == ScopeOf(n) # 0

find_own_var(n) ==
    LET vs == open[ScopeOf(n)].vars
    IN  vs[SelectInSeq(vs, LAMBDA v : v.name = n)]

\* Position in the moved table, which knows variables by name only.  0 if absent.
find_moved_var(m, n) == SelectInSeq(m, LAMBDA e : e.name = n)

IsMoved(n) == find_moved_var(moved, n) # 0

mark_moved(m, n, cond) ==
    LET i == find_moved_var(m, n)
    IN  IF i = 0 THEN Append(m, [name |-> n, cond |-> cond])
                 ELSE [m EXCEPT ![i].cond = @ \/ cond]

\* The last entry takes the place of the removed one.
unmark_moved(m, n) ==
    LET i == find_moved_var(m, n)
    IN  IF i = 0 THEN m ELSE Front([m EXCEPT ![i] = Last(m)])

\* Mutant: a borrow is treated like an owner.
TransferredIfMoved(m, v) == \E i \in DOMAIN m : m[i].name = v.name /\ ~m[i].cond

is_var_transferred(m, v) ==
    \/ v.borrowed
    \/ \E i \in DOMAIN m : m[i].name = v.name /\ ~m[i].cond

loop_depth == Cardinality({i \in DOMAIN open : open[i].kind = "while"})

\* Mutant: no loop check.
LoopMoveAlways(n, stmt) == TRUE

\* A variable of an enclosing block may not be moved in a loop, except by a
\* return and by the assignment that gives it a new value.
check_loop_move_allowed(n, stmt) ==
    \/ stmt \in {"ret", "set_self"}
    \/ find_own_var(n).loop >= loop_depth

\* What a consuming use of n needs; otherwise the pass prints a diagnostic.
MayMove(n, stmt) ==
    /\ ~IsMoved(n)
    /\ ~find_own_var(n).borrowed
    /\ check_loop_move_allowed(n, stmt)

-----------------------------------------------------------------------------
(* Annotations: the frees a statement or a block end emits *)

AddRelease(rel, n) == IF Contains(rel, n) THEN rel ELSE Append(rel, n)

ReleasesOf(m, block) ==
    LET kept == SelectSeq(block.vars, LAMBDA v : ~is_var_transferred(m, v))
    IN  [i \in DOMAIN kept |-> kept[i].name]

\* Mutant: only the innermost block is freed.
ReleasesInnermost(m, b) == ReleasesOf(m, Last(open))

\* The releases of all blocks from the innermost out to block number b,
\* each name once.
ReleasesDownTo(m, b) ==
    LET lists == [k \in 1 .. Len(open) + 1 - b |->
                     ReleasesOf(m, open[Len(open) + 1 - k])]
    IN  FoldLeft(AddRelease, <<>>, FlattenSeq(lists))

Block(kind, vs, orig, arms) ==
    [kind |-> kind, vars |-> vs, orig |-> orig, arms |-> arms]

Stmt(op, x, y) ==
    [op |-> op, x |-> x, y |-> y, depth |-> Len(open),
     rel |-> <<>>, nul |-> <<>>, release_old |-> FALSE, table |-> moved]

\* The statements so far, without the ends of blocks and branches.
Size == Len(SelectSeq(code, LAMBDA s : s.op \notin {"next", "end"}))

LastOp == IF code = <<>> THEN None ELSE Last(code).op

-----------------------------------------------------------------------------
(* Fragment: which programs are analysed.  Without any feature the program   *)
(* avoids the idioms below; a run that studies one idiom switches it on.     *)

\* Giving a value to a name that was already moved when the enclosing block
\* was entered, or that is moved on some paths only.
Revives(n) ==
    LET i == find_moved_var(moved, n)
    IN  i # 0 /\ (moved[i].cond \/ i <= Len(Last(open).orig))

\* Declaring a name that an enclosing block declares too.
Shadows(n) == InScope(n)

\* Returning, straight from a loop body, a variable of an enclosing block.
ReturnsFromLoop(n) == Last(open).kind = "while" /\ ScopeOf(n) # Len(open)

\* A break whose nearest enclosing loop or match is a match.
BreaksInMatch ==
    LET near == {i \in DOMAIN open : open[i].kind \in {"while", "match"}}
    IN  near # {} /\ open[Max(near)].kind = "match"

BorrowInScope ==
    \E i \in DOMAIN open : \E j \in DOMAIN open[i].vars : open[i].vars[j].borrowed

\* Moving or overwriting an owner while something borrows, or borrowing
\* from an inner block.
BorrowsLate(op, x, y) ==
    \/ /\ BorrowInScope
       /\ \/ op \in {"set_new", "set_self", "eat"}
          \/ /\ op \in {"let_move", "set_move"}
             /\ InScope(y) /\ ~find_own_var(y).borrowed
    \/ op = "set_borrow" /\ ScopeOf(y) > ScopeOf(x)

InFragment(op, x, y) ==
    /\ \/ "revive" \in Features
       \/ op \notin {"let_new", "let_move", "let_borrow", "set_new", "set_move"}
       \/ ~Revives(x)
    /\ \/ "shadow" \in Features
       \/ op \notin {"let_new", "let_move", "let_borrow"}
       \/ ~Shadows(x)
    /\ "loop_return" \in Features \/ op # "ret" \/ ~ReturnsFromLoop(x)
    /\ "match_break" \in Features \/ op # "break" \/ ~BreaksInMatch
    /\ "late_borrow" \in Features \/ ~BorrowsLate(op, x, y)

\* Room for one more statement, which no jump precedes in its block.
CanAdd(op, x, y) ==
    /\ phase = "analyse"
    /\ op \in Ops
    /\ Size < MaxCode
    /\ LastOp \notin Jumps
    /\ InFragment(op, x, y)

-----------------------------------------------------------------------------
(* Analysis of one statement *)

Accept(s) == phase' = phase /\ code' = Append(code, s) /\ UNCHANGED execution

\* print_formatted_error: the compilation ends.
Reject == phase' = "rejected" /\ UNCHANGED <<analysis, execution>>

Declare(n, borrowed) ==
    open' = [open EXCEPT ![Len(open)].vars =
                Append(@, [name |-> n, loop |-> loop_depth, borrowed |-> borrowed])]

\* C allows a name once per block.
Declarable(n) == ScopeOf(n) # Len(open)

LetNew(x) ==
    /\ CanAdd("let_new", x, None)
    /\ Declarable(x)
    /\ Declare(x, FALSE)
    /\ moved' = unmark_moved(moved, x)
    /\ Accept(Stmt("let_new", x, None))

\* let x = y.  The copy of a borrow is a borrow.
LetMove(x, y) ==
    /\ CanAdd("let_move", x, y)
    /\ Declarable(x) /\ InScope(y) /\ x # y
    /\ \/ /\ ~IsMoved(y) /\ find_own_var(y).borrowed
          /\ Declare(x, TRUE)
          /\ moved' = unmark_moved(moved, x)
          /\ Accept(Stmt("let_move", x, y))
       \/ /\ MayMove(y, "let_move")
          /\ Declare(x, FALSE)
          /\ moved' = unmark_moved(mark_moved(moved, y, FALSE), x)
          /\ Accept([Stmt("let_move", x, y) EXCEPT !.nul = <<y>>])
       \/ /\ ~find_own_var(y).borrowed \/ IsMoved(y)
          /\ ~MayMove(y, "let_move")
          /\ Reject

LetBorrow(x, y) ==
    /\ CanAdd("let_borrow", x, y)
    /\ Declarable(x) /\ InScope(y) /\ x # y
    /\ IF IsMoved(y) THEN Reject
       ELSE /\ Declare(x, TRUE)
            /\ moved' = unmark_moved(moved, x)
            /\ Accept(Stmt("let_borrow", x, y))

\* Whether an assignment frees the value it overwrites.
release_old(m, x) == find_moved_var(m, x) = 0

AssignOwned(m, s) ==
    /\ moved' = unmark_moved(m, s.x)
    /\ Accept([s EXCEPT !.release_old = release_old(m, s.x)])
    /\ UNCHANGED open

SetNew(x) ==
    /\ CanAdd("set_new", x, None)
    /\ InScope(x)
    /\ IF find_own_var(x).borrowed THEN Reject
       ELSE AssignOwned(moved, Stmt("set_new", x, None))

\* x = y
SetMove(x, y) ==
    /\ CanAdd("set_move", x, y)
    /\ InScope(x) /\ InScope(y) /\ x # y
    /\ \/ /\ ~IsMoved(y)
          /\ find_own_var(x).borrowed /\ find_own_var(y).borrowed
          /\ Accept(Stmt("set_move", x, y))
          /\ UNCHANGED <<open, moved>>
       \/ /\ MayMove(y, "set_move") /\ ~find_own_var(x).borrowed
          /\ AssignOwned(mark_moved(moved, y, FALSE),
                         [Stmt("set_move", x, y) EXCEPT !.nul = <<y>>])
       \/ /\ \/ IsMoved(y)
             \/ find_own_var(x).borrowed # find_own_var(y).borrowed
             \/ ~find_own_var(y).borrowed /\ ~MayMove(y, "set_move")
          /\ Reject

\* x = f(x), the idiom of put and push: the call consumes x, the assignment
\* gives it a new value.
SetSelf(x) ==
    /\ CanAdd("set_self", x, None)
    /\ InScope(x)
    /\ IF MayMove(x, "set_self")
       THEN AssignOwned(mark_moved(moved, x, FALSE), Stmt("set_self", x, None))
       ELSE Reject

SetBorrow(x, y) ==
    /\ CanAdd("set_borrow", x, y)
    /\ InScope(x) /\ InScope(y) /\ x # y
    /\ IF ~IsMoved(y) /\ find_own_var(x).borrowed
       THEN Accept(Stmt("set_borrow", x, y)) /\ UNCHANGED <<open, moved>>
       ELSE Reject

\* f(x) with a consuming parameter
Eat(x) ==
    /\ CanAdd("eat", x, None)
    /\ InScope(x)
    /\ IF MayMove(x, "eat")
       THEN /\ moved' = mark_moved(moved, x, FALSE)
            /\ Accept([Stmt("eat", x, None) EXCEPT !.nul = <<x>>])
            /\ UNCHANGED open
       ELSE Reject

\* f(&x), x.field, print(x)
Use(x) ==
    /\ CanAdd("use", x, None)
    /\ InScope(x)
    /\ IF IsMoved(x) THEN Reject
       ELSE Accept(Stmt("use", x, None)) /\ UNCHANGED <<open, moved>>

ReturnVar(x) ==
    /\ CanAdd("ret", x, None)
    /\ InScope(x)
    /\ IF MayMove(x, "ret")
       THEN LET m == mark_moved(moved, x, FALSE)
            IN  /\ moved' = m
                /\ Accept([Stmt("ret", x, None) EXCEPT !.rel = ReleasesDownTo(m, 1)])
                /\ UNCHANGED open
       ELSE Reject

ReturnNone ==
    /\ CanAdd("ret0", None, None)
    /\ Accept([Stmt("ret0", None, None) EXCEPT !.rel = ReleasesDownTo(moved, 1)])
    /\ UNCHANGED <<open, moved>>

\* break and continue free the blocks they leave, the loop body included.
LoopJump(op) ==
    /\ CanAdd(op, None, None)
    /\ IF loop_depth = 0 THEN Reject
       ELSE LET loop == Max({i \in DOMAIN open : open[i].kind = "while"})
            IN  /\ Accept([Stmt(op, None, None) EXCEPT
                             !.rel = ReleasesDownTo(moved, loop)])
                /\ UNCHANGED <<open, moved>>

-----------------------------------------------------------------------------
(* Blocks: if, match and while *)

OpenBlock(op) ==
    /\ CanAdd(op, None, None)
    /\ Len(open) <= MaxDepth
    /\ open' = Append(open, Block(op, <<>>, moved, <<>>))
    /\ Accept(Stmt(op, None, None))
    /\ UNCHANGED moved

\* Whether control cannot leave the branch being closed at its end.
Terminates(kind) ==
    IF kind = "if" THEN LastOp \in Jumps ELSE LastOp \in {"ret", "ret0"}

ClosedArm == [moved |-> moved, term |-> Terminates(Last(open).kind)]

CloseStmt(op) ==
    [Stmt(op, None, None) EXCEPT !.depth = Len(open) - 1,
                                 !.rel = ReleasesOf(moved, Last(open))]

\* Mutant: a move in one branch counts as a move in all.
ConditionalIfInNone(arms, base, n) ==
    \A a \in DOMAIN arms :
        ~ \E j \in DOMAIN arms[a].moved :
              j > base /\ arms[a].moved[j].name = n /\ ~arms[a].moved[j].cond

\* What moved[i] of a branch says of paths that take another branch.
\* Entries up to the number present before the branches are taken as unchanged.
Conditional(arms, base, n) ==
    \E a \in DOMAIN arms :
        ~ \E j \in DOMAIN arms[a].moved :
              /\ j > base
              /\ arms[a].moved[j].name = n
              /\ ~arms[a].moved[j].cond

\* The moves of the branches that fall through, joined onto the table as it
\* was before them.  outer is the stack without the branch's block.
Reconcile(orig, arms, outer) ==
    LET base == Len(orig)
        news == FlattenSeq([a \in DOMAIN arms |->
                    SubSeq(arms[a].moved, base + 1, Len(arms[a].moved))])
        seen == SelectSeq(news, LAMBDA e :
                    \E i \in DOMAIN outer : \E j \in DOMAIN outer[i].vars :
                        outer[i].vars[j].name = e.name)
    IN  FoldLeft(LAMBDA m, e : mark_moved(m, e.name, Conditional(arms, base, e.name)),
                 orig, seen)

FallingThrough(arms) == SelectSeq(arms, LAMBDA a : ~a.term)

\* NODE_IF.  A missing else is a branch that moves nothing.
JoinIf(orig, arms, outer) ==
    LET both == IF Len(arms) = 1
                THEN Append(arms, [moved |-> orig, term |-> FALSE])
                ELSE arms
        live == FallingThrough(both)
    IN  CASE Len(live) = 0 -> orig
          [] Len(live) = 1 -> live[1].moved
          [] OTHER         -> Reconcile(orig, live, outer)

\* NODE_MATCH
JoinMatch(orig, arms, outer) == Reconcile(orig, FallingThrough(arms), outer)

\* else, or the next arm of a match (two branches at most)
NextBranch ==
    /\ phase = "analyse" /\ Size < MaxCode
    /\ Last(open).kind \in {"if", "match"} /\ Last(open).arms = <<>>
    /\ LastOp \notin Openers
    /\ open' = Append(Front(open), Block(Last(open).kind, <<>>, Last(open).orig,
                                         <<ClosedArm>>))
    /\ moved' = Last(open).orig
    /\ Accept(CloseStmt("next"))

CloseBlock ==
    /\ phase = "analyse" /\ Len(open) > 1
    /\ LastOp \notin Openers
    /\ LET b    == Last(open)
           arms == Append(b.arms, ClosedArm)
       IN  moved' = CASE b.kind = "if"    -> JoinIf(b.orig, arms, Front(open))
                      [] b.kind = "match" -> JoinMatch(b.orig, arms, Front(open))
                      [] b.kind = "while" -> moved
    /\ open' = Front(open)
    /\ Accept(CloseStmt("end"))

\* The end of the function body; the annotated program is emitted and started.
FinishAnalysis ==
    /\ phase = "analyse" /\ Len(open) = 1 /\ code # <<>>
    /\ phase' = "run"
    /\ code' = Append(code, CloseStmt("end"))
    /\ UNCHANGED <<open, moved, execution>>

-----------------------------------------------------------------------------
(* Execution of the emitted C *)

FrameOf(n) == Max({i \in DOMAIN frames : frames[i][n] # Undeclared})
Value(n) == frames[FrameOf(n)][n]
NewFrame == [n \in Names |-> Undeclared]

Here == code[pc]
Running(op) == phase = "run" /\ Here.op = op

\* The close of the block opened at p; of its branch at p.
EndOf(p) == Min({j \in DOMAIN code : j > p /\ code[j].op = "end"
                                     /\ code[j].depth = code[p].depth})
BranchEnd(p) == Min({j \in DOMAIN code : j > p /\ code[j].op \in {"next", "end"}
                                         /\ code[j].depth = code[p].depth})

\* The innermost block of one of these kinds around pc.
Enclosing(kinds) ==
    Max({j \in DOMAIN code : j < pc /\ code[j].op \in kinds
                             /\ code[j].depth < Here.depth /\ EndOf(j) > pc})

\* A list of names is freed one by one, NULL being skipped.  An object
\* freed before, or named twice, is freed twice.
Freeing(rel) == {Value(rel[i]) : i \in DOMAIN rel} \ {Null}
FreesTwice(rel) ==
    \/ \E v \in Freeing(rel) : heap[v] # "live"
    \/ \E i, j \in DOMAIN rel : i # j /\ Value(rel[i]) = Value(rel[j])
                                      /\ Value(rel[i]) # Null
HeapAfter(rel) ==
    [v \in DOMAIN heap |-> IF v \in Freeing(rel) THEN "freed" ELSE heap[v]]

Fault(f) == phase' = "done" /\ fault' = f /\ UNCHANGED <<analysis, pc, frames, heap, iter>>

\* Reading the object of n.
UseFault(n) == CASE Value(n) = Null           -> "null"
                 [] heap[Value(n)] = "freed"  -> "freed"
                 [] OTHER                     -> "none"

Goto(p) == pc' = p /\ UNCHANGED <<phase, analysis, fault>>

Store(fs, i, n, v) == [fs EXCEPT ![i][n] = v]

WithNulls(fs, nul) ==
    IF nul = <<>> THEN fs
    ELSE [fs EXCEPT ![FrameOf(nul[1])][nul[1]] = Null]

RunLet ==
    /\ \E op \in {"let_new", "let_move", "let_borrow"} : Running(op)
    /\ LET new == Here.op = "let_new"
           v   == IF new THEN Len(heap) + 1 ELSE Value(Here.y)
       IN  /\ frames' = WithNulls(Store(frames, Len(frames), Here.x, v), Here.nul)
           /\ heap' = IF new THEN Append(heap, "live") ELSE heap
    /\ Goto(pc + 1) /\ UNCHANGED iter

\* The value is computed first, then the old one freed if it is another
\* object, then the variable set.  The call of x = f(x) frees what it is
\* given and returns a new object.
RunSet ==
    /\ \E op \in {"set_new", "set_move", "set_self", "set_borrow"} : Running(op)
    /\ LET self == Here.op = "set_self"
           new  == self \/ Here.op = "set_new"
           v    == IF new THEN Len(heap) + 1 ELSE Value(Here.y)
           old  == IF Here.release_old /\ Value(Here.x) # v THEN <<Here.x>> ELSE <<>>
           gone == IF self THEN <<Here.x>> ELSE old
       IN  IF self /\ UseFault(Here.x) # "none" THEN Fault(UseFault(Here.x))
           ELSE IF FreesTwice(gone) \/ (self /\ Here.release_old) THEN Fault("double")
           ELSE /\ heap' = HeapAfter(gone) \o (IF new THEN <<"live">> ELSE <<>>)
                /\ frames' = WithNulls(Store(frames, FrameOf(Here.x), Here.x, v),
                                       Here.nul)
                /\ Goto(pc + 1) /\ UNCHANGED iter

RunEat ==
    /\ Running("eat")
    /\ IF UseFault(Here.x) # "none" THEN Fault(UseFault(Here.x))
       ELSE /\ heap' = HeapAfter(<<Here.x>>)
            /\ frames' = WithNulls(frames, Here.nul)
            /\ Goto(pc + 1) /\ UNCHANGED iter

RunUse ==
    /\ Running("use")
    /\ IF UseFault(Here.x) # "none" THEN Fault(UseFault(Here.x))
       ELSE Goto(pc + 1) /\ UNCHANGED <<frames, heap, iter>>

\* The value is taken before the frees.
RunReturn ==
    /\ Running("ret") \/ Running("ret0")
    /\ LET v == IF Here.op = "ret" THEN Value(Here.x) ELSE Null
       IN  IF Here.op = "ret" /\ UseFault(Here.x) # "none"
           THEN Fault(UseFault(Here.x))
           ELSE IF FreesTwice(Here.rel) THEN Fault("double")
           ELSE /\ heap' = [o \in DOMAIN heap |-> IF o = v THEN "given"
                                                  ELSE HeapAfter(Here.rel)[o]]
                /\ phase' = "done"
                /\ UNCHANGED <<analysis, pc, frames, iter, fault>>

\* The emitted C break leaves the nearest loop or switch, and a match is a
\* switch; continue goes to the nearest loop.
JumpKinds(op) == IF op = "break" THEN {"while", "match"} ELSE {"while"}

RunJump ==
    /\ Running("break") \/ Running("continue")
    /\ LET b == Enclosing(JumpKinds(Here.op))
       IN  IF FreesTwice(Here.rel) THEN Fault("double")
           ELSE /\ heap' = HeapAfter(Here.rel)
                /\ frames' = SubSeq(frames, 1, code[b].depth)
                /\ Goto(IF Here.op = "break" THEN EndOf(b) + 1 ELSE b)
                /\ UNCHANGED iter

EnterAt(p) == Goto(p) /\ frames' = Append(frames, NewFrame) /\ UNCHANGED heap

RunIf ==
    /\ Running("if")
    /\ \/ EnterAt(pc + 1)
       \/ code[BranchEnd(pc)].op = "next" /\ EnterAt(BranchEnd(pc) + 1)
       \/ code[BranchEnd(pc)].op = "end" /\ Goto(EndOf(pc) + 1)
                                         /\ UNCHANGED <<frames, heap>>
    /\ UNCHANGED iter

RunMatch ==
    /\ Running("match")
    /\ \/ EnterAt(pc + 1)
       \/ code[BranchEnd(pc)].op = "next" /\ EnterAt(BranchEnd(pc) + 1)
    /\ UNCHANGED iter

RunWhile ==
    /\ Running("while")
    /\ \/ iter < MaxIter /\ iter' = iter + 1 /\ EnterAt(pc + 1)
       \/ Goto(EndOf(pc) + 1) /\ UNCHANGED <<frames, heap, iter>>

\* The end of a block frees its variables and continues behind it, or at
\* the head of the loop whose body it is.
RunClose ==
    /\ Running("next") \/ Running("end")
    /\ Here.depth > 0
    /\ LET b == Max({j \in 1 .. pc - 1 : code[j].op \in Openers
                                         /\ code[j].depth = Here.depth})
       IN  IF FreesTwice(Here.rel) THEN Fault("double")
           ELSE /\ heap' = HeapAfter(Here.rel)
                /\ frames' = Front(frames)
                /\ Goto(IF code[b].op = "while" THEN b ELSE EndOf(b) + 1)
                /\ UNCHANGED iter

RunFinish ==
    /\ Running("end") /\ Here.depth = 0
    /\ IF FreesTwice(Here.rel) THEN Fault("double")
       ELSE /\ heap' = HeapAfter(Here.rel)
            /\ phase' = "done"
            /\ UNCHANGED <<analysis, pc, frames, iter, fault>>

-----------------------------------------------------------------------------
Init ==
    /\ family \in Families
    /\ phase = "analyse"
    /\ code = <<>>
    /\ open = <<Block("fn", [i \in DOMAIN Params |->
                    [name |-> Params[i], loop |-> 0, borrowed |-> FALSE]],
                    <<>>, <<>>)>>
    /\ moved = <<>>
    /\ pc = 1
    /\ frames = <<[n \in Names |-> IF Contains(Params, n)
                                   THEN SelectInSeq(Params, LAMBDA p : p = n)
                                   ELSE Undeclared]>>
    /\ heap = [i \in DOMAIN Params |-> "live"]
    /\ iter = 0
    /\ fault = "none"

Analyse ==
    \/ \E x \in Names :
         \/ LetNew(x) \/ SetNew(x) \/ SetSelf(x)
         \/ Eat(x) \/ Use(x) \/ ReturnVar(x)
         \/ \E y \in Names :
              LetMove(x, y) \/ LetBorrow(x, y) \/ SetMove(x, y) \/ SetBorrow(x, y)
    \/ ReturnNone
    \/ \E op \in {"break", "continue"} : LoopJump(op)
    \/ \E op \in Openers : OpenBlock(op)
    \/ NextBranch \/ CloseBlock \/ FinishAnalysis

Run ==
    \/ RunLet \/ RunSet \/ RunEat \/ RunUse \/ RunReturn \/ RunJump
    \/ RunIf \/ RunMatch \/ RunWhile \/ RunClose \/ RunFinish

Next == (Analyse \/ Run) /\ UNCHANGED family

Spec == Init /\ [][Next]_vars
-----------------------------------------------------------------------------
(* Properties *)

\* Every variable holds a value of its kind: the tables name variables of the
\* function, frames and open blocks nest alike, and heap objects exist.
TypeOK ==
    /\ phase \in {"analyse", "rejected", "run", "done"}
    /\ moved \in Seq(MovedVar)
    /\ \A i \in DOMAIN open : open[i].vars \in Seq(OwnVar)
    /\ pc \in 1 .. 3 * MaxCode + 1
    /\ heap \in Seq({"live", "freed", "given"})
    /\ \A i \in DOMAIN frames :
           frames[i] \in [Names -> {Undeclared, Null} \union DOMAIN heap]
    /\ phase = "run" => Len(frames) = IF Here.op \in {"next", "end"}
                                      THEN Here.depth + 1 ELSE Here.depth
    /\ iter \in 0 .. MaxIter
    /\ fault \in {"none", "null", "freed", "double"}

\* No accepted program uses a variable that was moved and is NULL: the pass
\* finds every use after move (check_use_var).
NoUseAfterMove == fault # "null"

\* No accepted program touches an object that was freed, borrows included,
\* and the frees annotated on blocks, returns, jumps and assignments free
\* no object twice on any path (add_free_release_to_node_desc,
\* emit_releases).
FreedIsGone == fault \notin {"freed", "double"}

\* When the function is left every object has been freed, consumed by a
\* call or returned, on any path.
NoLeak == phase = "done" /\ fault = "none" =>
              \A v \in DOMAIN heap : heap[v] # "live"

\* The moved table at a statement agrees with every execution that reaches
\* it: a variable moved on all paths is NULL, one that is not listed holds
\* an object.  Entries marked conditional claim nothing.  Both tables are
\* well formed, and the frames of the run nest as the blocks analysed.
TableAgreesWithRun ==
    /\ TypeOK
    /\ phase = "run" =>
        \A n \in Names :
            (\E i \in DOMAIN frames : frames[i][n] # Undeclared) =>
                LET e == find_moved_var(Here.table, n)
                IN  /\ e = 0 => Value(n) # Null
                    /\ e # 0 /\ ~Here.table[e].cond => Value(n) = Null
=============================================================================
