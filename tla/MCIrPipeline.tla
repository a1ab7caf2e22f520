---------------------------- MODULE MCIrPipeline ----------------------------
(* Small functions over a, b, t and i for model-checking IrPipeline, and the *)
(* options each is compiled with.                                            *)
EXTENDS IrPipeline

Num(k) == <<"num", k>>
Var(x) == <<"var", x>>
Bin(op, l, r) == <<"bin", op, l, r>>
Lt(x, e) == Bin("lt", Var(x), e)
SetTo(x, e) == <<"set", x, e>>
Show(x) == <<"print", Var(x)>>
Incr(x) == SetTo(x, Bin("add", Var(x), Num(1)))

Native(ssa, level) == [ssa |-> ssa, native |-> TRUE, level |-> level]
Compile(P, O) == [program : P, opts : O]

\* One register of each kind, so that values are spilled.
OneCaller == <<"r10">>
OneCallee == <<"rbx">>
OneFloat == <<"xmm8">>

Setup == <<<<"let", "a", Num(0)>>, <<"let", "b", Num(1)>>, <<"let", "t", Var("p")>>>>
ShowAll == <<Show("a"), Show("b"), Show("t")>>

\* Copies between variables, arithmetic the passes can simplify, a call.
Moves == {SetTo("t", Var("a")), SetTo("a", Var("b")), SetTo("b", Var("t")),
          SetTo("a", Var("i")), Incr("b")}
Sums == {SetTo("a", Bin("mul", Var("i"), Num(0))),
         SetTo("t", Bin("add", Var("b"), Bin("sub", Var("a"), Num(0)))),
         SetTo("b", <<"call", Var("a")>>)}
Tests == {Lt("i", Var("p")), Lt("a", Var("b"))}

\* A branch, an inner loop or a block with a variable inside a loop body.
Branches(T) ==
    {<<"if", c, <<m>>>> : c \in T, m \in {SetTo("a", Var("b")), <<"break">>, <<"continue">>,
                                             <<"return", Var("a")>>}}
    \cup {<<"ifelse", c, <<SetTo("a", Var("t"))>>, <<m>>>> :
            c \in T, m \in {SetTo("t", Var("i")), <<"break">>}}
    \cup {<<"while", Lt("b", Num(3)), <<Incr("b"), SetTo("a", Var("t"))>>>>,
          <<"if", Lt("a", Var("b")), <<<<"let", "u", Var("b")>>, Incr("u"), SetTo("a", Var("u"))>>>>}

While(B) ==
    Setup \o <<<<"let", "i", Num(0)>>, <<"while", Lt("i", Num(3)), B \o <<Incr("i")>>>>>> \o ShowAll
For(B) ==
    Setup \o <<<<"for", <<"let", "i", Num(0)>>, Lt("i", Num(3)), Incr("i"), B>>>> \o ShowAll

Copies == {<<x, y, z>> : x, y, z \in Moves}
Pairs == {<<x, y>> : x \in Moves, y \in Sums \cup Branches(Tests)}
         \cup {<<x, y>> : x \in Sums \cup Branches(Tests), y \in Branches({Lt("a", Var("b"))})}

\* Branches outside loops, on constants and on values known at compile time,
\* with unary operators, a call for its effect and code after a return.
ChoicePrograms ==
    {Setup \o <<<<"let", "i", e>>, <<"ifelse", c, <<m, SetTo("b", Num(7))>>, <<n>>>>>> \o ShowAll :
        e \in {Num(2), <<"un", "neg", Var("p")>>},
        c \in {Lt("a", Var("i")), Bin("eq", Var("b"), Var("b")), <<"un", "not", Lt("i", Num(1))>>,
               Bin("and", Lt("a", Num(1)), Lt("t", Var("b")))},
        m \in {SetTo("t", Bin("mod", Var("a"), Num(2))), <<"expr", <<"call", Var("i")>>>>, Incr("t")},
        n \in {<<"return", Var("i")>>, SetTo("a", Bin("div", Var("b"), Num(1)))}}

SoundPrograms ==
    {While(B) : B \in Copies \cup Pairs} \cup {For(B) : B \in Pairs} \cup ChoicePrograms

\* A variable set in a nested branch and returned after a call: the block after
\* both branches begins with the call and holds the variable in a register.
NestedPrograms ==
    {Setup \o <<<<"let", "i", Var("p")>>,
               <<"if", Lt("a", Var("t")), <<<<"if", Lt("b", Var("t")), <<SetTo("a", Num(2))>>>>>>>>>>
           \o <<Show(x), <<"return", Var("a")>>>> : x \in {"t", "i"}}

(* ------------------------------------------------ programs for --ssa -O1 *)
\* Expressions that are invariant in the loop, computed twice, or constant
\* only because a branch is never taken.
Values == {Bin("mul", Var("b"), Var("p")), Bin("sub", Var("t"), Var("i")), Bin("sub", Var("i"), Var("t")),
           Bin("add", Var("b"), Num(1)), Bin("mul", Var("p"), Num(2)), <<"call", Var("i")>>,
           <<"call", Var("p")>>}
Steps == {SetTo(x, e) : x \in {"a", "t"}, e \in Values}
Turns == {<<"if", Lt("a", Var("t")), <<m>>>> : m \in {SetTo("b", Num(1)), SetTo("b", Num(2)), <<"break">>,
                                                       <<"continue">>}}
         \cup {<<"if", Lt("i", Num(1)), <<SetTo("t", Bin("sub", Var("t"), Var("i")))>>>>}
         \cup {<<"ifelse", Bin("eq", Var("b"), Num(1)), <<SetTo("t", Var("p"))>>, <<SetTo("b", Num(3))>>>>,
               <<"while", Lt("a", Num(2)), <<Incr("a"), SetTo("t", Bin("mul", Var("p"), Num(2)))>>>>}

SsaOptPrograms ==
    {While(<<x, y>>) : x \in Steps, y \in Steps \cup Turns} \cup {While(<<y, x>>) : x \in Steps, y \in Turns}
    \cup {For(<<x, y>>) : x \in Turns, y \in Turns} \cup ChoicePrograms

\* An invariant of a loop that is computed from another one, in a later block.
InvariantPrograms ==
    {Setup \o <<<<"let", "i", Num(0)>>,
               <<"while", Lt("i", Num(3)),
                   <<SetTo("a", Bin("mul", Var("p"), Num(2))),
                     <<"if", Lt("i", Num(1)), <<Incr("b")>>>>,
                     SetTo("b", Bin("add", Var("b"), Bin("add", Var("a"), Num(1)))),
                     Incr("i")>>>>>> \o ShowAll}

\* A loop that keeps the value its counter had: t = i + 0.
LastPrograms ==
    {Setup \o <<<<"let", "i", Num(0)>>,
               <<"while", Lt("i", Num(3)), <<SetTo("t", Bin("add", Var("i"), Num(0))), Incr("i")>>>>>>
           \o ShowAll}

SoundCases == Compile(SoundPrograms, {Native(FALSE, 0), Native(TRUE, 0), Native(FALSE, 1)})
              \cup Compile(SsaOptPrograms, {Native(TRUE, 1)})
NestedCases == Compile(NestedPrograms, {Native(TRUE, 0)})
InvariantCases == Compile(InvariantPrograms, {Native(TRUE, 1)})
LastCases == Compile(LastPrograms, {Native(TRUE, 1)})

ThreeInputs == {0, 1, 2}
=============================================================================
