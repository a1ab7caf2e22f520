----------------------------- MODULE MCFrontend -----------------------------
(* Small file systems and programs for model-checking Frontend.             *)
(* The entry file and a.cco are in the current directory, b.cco and another *)
(* a.cco in the library's; std/b leads to the library.                      *)
EXTENDS Frontend, SequencesExt

CONSTANTS EntryFile, FileA, LibB, LibA, none

MCFiles == {EntryFile, FileA, LibB, LibA}
MCPaths == {"a", "e", "std/b", "x"}
MCStdPaths == {"std/b"}
MCDirs == {"here", "lib"}
MCStdDirs == <<"lib">>
MCDirOf == [f \in MCFiles |-> IF f \in {EntryFile, FileA} THEN "here" ELSE "lib"]
MCAt == [dp \in MCDirs \X MCPaths |->
           CASE dp = <<"here", "a">>    -> FileA
             [] dp = <<"here", "e">>    -> EntryFile
             [] dp = <<"lib", "a">>     -> LibA
             [] dp = <<"lib", "std/b">> -> LibB
             [] OTHER                   -> none]

-----------------------------------------------------------------------------
(* Declarations *)

Plain(k, n) == [kind |-> k, name |-> n, methods |-> << >>, iface |-> << >>,
                class |-> << >>, params |-> << >>, ret |-> [cls |-> NoName], body |-> << >>]

Type(ty, c) == [ty |-> ty, cls |-> c, borrowed |-> FALSE, array |-> FALSE, map |-> FALSE]
Int32 == Type("int", NoName)
Param(n, c) == [name |-> n, trait |-> NoName, type |-> Type("class", c)]
ImplParam(n, i) == [name |-> n, trait |-> i, type |-> Type("class", NoName)]
Counts == [name |-> "m", trait |-> NoName, type |-> [Int32 EXCEPT !.map = TRUE]]

Method(n, prms, b) == [name |-> n, params |-> prms, ret |-> Int32, body |-> b]
Function(n, prms, r, b) ==
    [Plain("function", n) EXCEPT !.params = prms, !.ret = r, !.body = b]

Var(x) == [e |-> "var", var |-> x]
New(c) == [e |-> "new", cls |-> c]
CallOf(f) == [e |-> "call", callee |-> f]
Literal == [e |-> "literal"]

Let(x, c, v, blk) ==
    [op |-> "let", var |-> x, cls |-> c, val |-> v, block |-> blk, seen |-> TRUE]
Call(f, args, blk) ==
    [op |-> "call", callee |-> f, args |-> args, block |-> blk, seen |-> TRUE]
OnParam(x, m) == [op |-> "method", on |-> x, name |-> m, block |-> 0, seen |-> TRUE]

Sq == <<"Sq">>
Ci == <<"Ci">>
ShapeName == <<"Shape">>
Shape == [Plain("interface", ShapeName) EXCEPT !.methods =
            <<Method("same", <<Param("self", <<"Self">>), Param("o", <<"Self">>)>>, << >>)>>]

\* A class whose method same takes an argument of class c and has body b.
Class(n, c, b) ==
    [Plain("class", n) EXCEPT !.methods =
        <<Method("size", <<Param("self", n)>>, << >>),
          Method("same", <<Param("self", n), Param("o", c)>>, b)>>]
Impl(c) == [Plain("impl", <<ShapeName, c>>) EXCEPT !.iface = ShapeName, !.class = c]

Show == <<"show">>
Pair == <<"pair">>
Main == <<"main">>
Make == Function(<<"make">>, << >>, Type("class", Ci), << >>)

\* fn show(x: impl Shape, m: map[..]int) { x.<method>(..) } and
\* fn pair(x: impl Shape, y: impl Shape) { y.same(..); <inner> }
ShowWith(method) ==
    Function(Show, <<ImplParam("x", ShapeName), Counts>>, Int32, <<OnParam("x", method)>>)
PairWith(inner) ==
    Function(Pair, <<ImplParam("x", ShapeName), ImplParam("y", ShapeName)>>, Int32,
             <<OnParam("y", "same")>> \o inner)

Args == {Var("p"), Var("q"), New(Sq), CallOf(<<"make">>), Literal}

\* main: let p, let q in the body, a let in an inner block and a call of show
\* there, then two calls of pair in the body.
MainBody(arg1, arg2, arg3) ==
    <<Let("p", Sq, New(Sq), 0), Let("q", NoName, CallOf(<<"make">>), 0),
      Let("r", Ci, New(Ci), 1), Call(Show, <<arg1, Literal>>, 1),
      Call(Pair, <<arg2, arg3>>, 0), Call(Pair, <<arg2, New(Sq)>>, 0)>>

-----------------------------------------------------------------------------
(* Sources *)

\* The declarations of a file in the parser's lists.
ByKind(ds) ==
    LET of(kinds) == SelectSeq(ds, LAMBDA d : d.kind \in kinds)
    IN  [classes |-> of({"class"}), structs |-> of({"struct"}), enums |-> of({"enum"}),
         interfaces |-> of({"interface"}), impls |-> of({"impl"}), functions |-> of(FnKinds)]
File(imps, ds) ==
    [imports |-> imps, decls |-> ByKind(ds), statements |-> FALSE, health |-> "ok"]
UpTo(S, n) == UNION {[1 .. k -> S] : k \in 0 .. n}

\* The name of an impl or an operator is not an identifier.
DupIn(k) == <<Plain(k, CASE k = "impl"     -> <<ShapeName, <<"Dup">>>>
                          [] k = "operator" -> <<"operator+">>
                          [] OTHER          -> <<"Dup">>)>>

\* All import graphs of a certain size.
Graphs ==
    {[f \in MCFiles |-> File(CASE f = EntryFile -> ie [] f = FileA -> ia
                                [] f = LibB -> ib [] OTHER -> il, << >>)] :
        ie \in UpTo(MCPaths, 2), ia \in UpTo({"e", "std/b"}, 2),
        ib \in UpTo({"a", "e"}, 1), il \in UpTo({"std/b", "a"}, 1)}

Tree(ds) == [f \in MCFiles |->
               File(CASE f = EntryFile -> <<"a", "std/b">> [] f = FileA -> <<"std/b">>
                      [] OTHER -> << >>, ds[f])]

\* Files that cannot be read or parsed, and files with statements.
Broken ==
    {[Tree([f \in MCFiles |-> IF f = EntryFile THEN own ELSE << >>])
        EXCEPT ![g].health = h, ![k].statements = TRUE] :
        own \in {<< >>, <<Function(Main, << >>, Int32, << >>)>>},
        g \in MCFiles, h \in {"ok", "unreadable", "syntax"}, k \in MCFiles}

\* A name declared in two files, in every pair of kinds.
Twice ==
    {Tree([f \in MCFiles |-> CASE f = EntryFile -> DupIn(k) [] f = LibB -> DupIn(l)
                               [] OTHER -> << >>]) : k \in Kinds, l \in Kinds}

\* Templates in a.cco, classes and interface in b.cco, impls and calls in
\* the entry file.
Templates ==
    {Tree([f \in MCFiles |->
        CASE f = EntryFile -> imps \o <<Make, Function(Main, << >>, Int32, MainBody(x, y, z))>>
          [] f = FileA -> <<ShowWith(method), PairWith(nested)>>
          [] f = LibB -> <<Shape, Class(Sq, Sq, own), Class(Ci, c, << >>)>>
          [] OTHER     -> << >>]) :
        imps \in {<<Impl(Sq)>>, <<Impl(Sq), Impl(Ci)>>, <<Impl(<<"No">>)>>},
        method \in {"same", "size"}, c \in {Sq, Ci},
        nested \in {<< >>, <<Call(Show, <<Var("x")>>, 0)>>},
        own \in {<< >>, <<Call(Show, <<Var("self"), Literal>>, 0)>>},
        x \in Args \union {Var("r")}, y \in {Var("p"), Var("q"), Literal}, z \in Args \ {Literal}}

MCSources == Graphs \union Broken \union Twice \union Templates
MCSynthMain == Function(Main, << >>, Int32, << >>)
MCDecls ==
    UNION {UNION {UNION {Range(s[f].decls[k]) : k \in DOMAIN s[f].decls} : f \in MCFiles} :
             s \in MCSources}
=============================================================================
