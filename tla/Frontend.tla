------------------------------ MODULE Frontend ------------------------------
(***************************************************************************)
(* The first two stages of the compiler as main.c runs them: the program    *)
(* that resolve_program merged from the files is handed to                  *)
(* resolve_and_monomorphize_traits.                                         *)
(***************************************************************************)
EXTENDS ModuleResolver

CONSTANT NoName

VARIABLES program, stage, pos, impl_table, specs, bound, functions

Traits == INSTANCE TraitResolver

traits == <<program, stage, pos, impl_table, specs, bound, functions>>
frontendVars == <<vars, traits>>

OfKinds(ks) == SelectSeq(merged, LAMBDA d : d.kind \in ks)

FrontendInit == Init /\ Traits!TraitInit

Resolve == Next /\ UNCHANGED traits

\* The end of resolve_program: the merged lists become a NODE_PROGRAM.
MergedProgram ==
    /\ status = "done" /\ stage = "waiting"
    /\ program' = [classes |-> OfKinds({"class"}), structs |-> OfKinds({"struct"}),
                   enums |-> OfKinds({"enum"}), interfaces |-> OfKinds({"interface"}),
                   impls |-> OfKinds({"impl"}), functions |-> OfKinds(FnKinds)]
    /\ stage' = "impls"
    /\ UNCHANGED <<vars, pos, impl_table, specs, bound, functions>>

Monomorphize == Traits!TraitNext /\ UNCHANGED <<vars, program>>

FrontendNext == Resolve \/ MergedProgram \/ Monomorphize

\* The compiler is one thread: a stage that was started goes on.
FrontendSpec == FrontendInit /\ [][FrontendNext]_frontendVars
                  /\ WF_frontendVars(FrontendNext)

-----------------------------------------------------------------------------
RightInstance == Traits!RightInstance
CallsBound == Traits!CallsBound

\* The front end ends with a program or with a diagnostic, whatever the
\* imports and the templates.
FrontendEnds == <>(\/ status \in Errors
                   \/ stage \in {"monomorphic", "rejected"})
=============================================================================
