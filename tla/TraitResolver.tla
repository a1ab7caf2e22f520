---------------------------- MODULE TraitResolver ----------------------------
(***************************************************************************)
(* resolve_and_monomorphize_traits of src/frontend/trait_resolver.c.  It    *)
(* checks that every impl declares what its interface asks for, that        *)
(* templates (functions with impl-Trait parameters) call only methods of    *)
(* the interface, binds every call of a template to a copy of it for the    *)
(* classes of the arguments, and replaces the templates by these copies.    *)
(*                                                                          *)
(* A declaration is a record with a kind and a name.                        *)
(*   interface  methods : sequence of [name, params, ret]                   *)
(*   class      methods : sequence of [name, params, ret, body]             *)
(*   impl       iface, class                                                *)
(*   function   params, ret, body                                           *)
(* A parameter is [name, trait, type], where trait is NULL unless it is an  *)
(* impl-Trait parameter, whose class is NULL.  A type is                    *)
(* [ty, cls, borrowed, array, map].  A body is the sequence of              *)
(* the nodes of the function that matter here, in the order in which the    *)
(* recursive walks meet them; block is 0 for a statement of the body itself *)
(* and else the inner block it is in, and seen is FALSE for nodes below an  *)
(* f-string, an index, an index assignment, a member access or a            *)
(* constructor's field, which the walks do not enter.  A name is the        *)
(* sequence of its parts between "__".                                      *)
(***************************************************************************)
EXTENDS Integers, Sequences, SequencesExt, FiniteSets

CONSTANT NoName   \* NULL

VARIABLES
    program,    \* NODE_PROGRAM: the lists of declarations by kind
    stage,      \* the section of the function that runs
    pos,        \* its loop's progress
    impl_table, \* the confirmed pairs of interface and class
    specs,      \* the recorded specializations
    bound,      \* the recorded rewrites: call node -> specialized name
    functions   \* program->functions as rebuilt

\* The first element of a sequence that satisfies Test; NoName if none does.
FirstOf(s, Test(_)) ==
    LET i == SelectInSeq(s, Test) IN IF i = 0 THEN NoName ELSE s[i]

Named(s, n) == FirstOf(s, LAMBDA d : d.name = n)

-----------------------------------------------------------------------------
(* Section 1: conformance *)

\* The type that stands for req in the class: Self is the class itself.
SameType(req, act, class) ==
    IF req.ty = "class" /\ req.cls = <<"Self">>
    THEN act.ty = "class" /\ act.cls = class
    ELSE req.ty = act.ty /\ (req.ty = "class" => req.cls = act.cls)

SigMatches(req, act, class) ==
    /\ Len(req.params) = Len(act.params)
    /\ \A p \in DOMAIN req.params :
          /\ req.params[p].type.borrowed = act.params[p].type.borrowed
          /\ req.params[p].type.array = act.params[p].type.array
          /\ SameType(req.params[p].type, act.params[p].type, class)
    /\ SameType(req.ret, act.ret, class)
    /\ req.ret.array = act.ret.array
    /\ req.ret.map = act.ret.map

IsStruct(n) == Named(program.structs, n) # NoName

Conforms(imp) ==
    LET iface == Named(program.interfaces, imp.iface)
        class == Named(program.classes, imp.class)
    IN  /\ iface # NoName
        /\ ~IsStruct(imp.class)
        /\ class # NoName
        /\ \A m \in DOMAIN iface.methods :
              LET act == Named(class.methods, iface.methods[m].name)
              IN  /\ act # NoName
                  /\ SigMatches(iface.methods[m], act, imp.class)

Reject == stage' = "rejected" /\ UNCHANGED <<pos, impl_table, specs, bound, functions>>

\* The next section starts at its first item.
Proceed(to) == stage' = to /\ pos' = 1

CheckImpl ==
    /\ stage = "impls" /\ pos <= Len(program.impls)
    /\ \/ ~Conforms(program.impls[pos]) /\ Reject
       \/ /\ Conforms(program.impls[pos])
          /\ impl_table' = impl_table \union {<<program.impls[pos].iface, program.impls[pos].class>>}
          /\ pos' = pos + 1
          /\ UNCHANGED <<stage, specs, bound, functions>>

ImplsDone ==
    /\ stage = "impls" /\ pos > Len(program.impls)
    /\ Proceed("templates")
    /\ UNCHANGED <<impl_table, specs, bound, functions>>

has_confirmed_impl(i, c) == <<i, c>> \in impl_table

-----------------------------------------------------------------------------
(* Section 2: template bodies *)

Generic(fn) == {p \in DOMAIN fn.params : fn.params[p].trait # NoName}

\* Only methods of the interface may be called on the parameter, wherever
\* the walk goes.  An unknown interface is not noticed here.
validate_template_body(fn, p) ==
    LET iface == Named(program.interfaces, fn.params[p].trait)
    IN  iface # NoName =>
          \A i \in DOMAIN fn.body :
             fn.body[i].op = "method" /\ fn.body[i].seen /\ fn.body[i].on = fn.params[p].name
               => Named(iface.methods, fn.body[i].name) # NoName

CheckTemplate ==
    /\ stage = "templates" /\ pos <= Len(program.functions)
    /\ LET ok == \A p \in Generic(program.functions[pos]) :
                    validate_template_body(program.functions[pos], p)
       IN  \/ ~ok /\ Reject
           \/ ok /\ pos' = pos + 1 /\ UNCHANGED <<stage, impl_table, specs, bound, functions>>

TemplatesDone ==
    /\ stage = "templates" /\ pos > Len(program.functions)
    /\ Proceed("calls")
    /\ UNCHANGED <<impl_table, specs, bound, functions>>

-----------------------------------------------------------------------------
(* Section 3: call sites *)

\* The functions and methods whose bodies are scanned, in this order.
Owners == program.functions \o FlattenSeq([c \in DOMAIN program.classes |-> program.classes[c].methods])

\* The call nodes the scan meets: <<owner, index in its body>>.
Sites ==
    LET os == Owners
        calls(o) == SelectSeq([i \in DOMAIN os[o].body |-> <<o, i>>],
                              LAMBDA s : os[o].body[s[2]].op = "call" /\ os[o].body[s[2]].seen)
    IN  FlattenSeq([o \in DOMAIN os |-> calls(o)])

NodeAt(s) == Owners[s[1]].body[s[2]]

ReturnClass(callee) ==
    LET f == Named(program.functions, callee) IN IF f = NoName THEN NoName ELSE f.ret.cls

\* The class of an argument: that of a parameter of its name, else of the
\* first let of its name among the statements of the body itself.
RECURSIVE determine_expr_class(_, _)
determine_expr_class(owner, e) ==
    CASE e.e = "new"   -> e.cls
      [] e.e = "call"  -> ReturnClass(e.callee)
      [] e.e = "var"   ->
           LET param == Named(owner.params, e.var)
               def == FirstOf(owner.body,
                              LAMBDA n : n.op = "let" /\ n.block = 0 /\ n.var = e.var)
           IN  CASE param # NoName   -> param.type.cls
                 [] def = NoName     -> NoName
                 [] def.cls # NoName -> def.cls
                 [] OTHER            -> determine_expr_class(owner, def.val)
      [] OTHER         -> NoName

\* The classes for the generic parameters of callee at a call site.
ConcreteTypes(owner, call, callee) ==
    [p \in DOMAIN callee.params |->
        IF callee.params[p].trait = NoName \/ p \notin DOMAIN call.args THEN NoName
        ELSE determine_expr_class(owner, call.args[p])]

\* Mutant: only the first class goes into the name.
MangleFirst(name, types) ==
    name \o FirstOf(types, LAMBDA c : c # NoName)

\* "%s__%s"
Mangle(name, types) == name \o FlattenSeq(SelectSeq(types, LAMBDA c : c # NoName))

Implements(callee, types) ==
    \A p \in Generic(callee) : /\ types[p] # NoName
                               /\ has_confirmed_impl(callee.params[p].trait, types[p])

\* The call at site s of a template is bound to the specialization for types.
Record(s, callee, types, name) ==
    \/ ~Implements(callee, types) /\ Reject
    \/ /\ Implements(callee, types)
       /\ specs' = IF \E i \in DOMAIN specs : specs[i].name = name THEN specs
                   ELSE Append(specs, [template |-> callee.name,
                                       types |-> types, name |-> name])
       /\ bound' = bound \union {<<s, name>>}
       /\ pos' = pos + 1
       /\ UNCHANGED <<stage, impl_table, functions>>

record_call_site(s, callee) ==
    \/ /\ callee = NoName \/ Generic(callee) = {}
       /\ pos' = pos + 1
       /\ UNCHANGED <<stage, impl_table, specs, bound, functions>>
    \/ /\ callee # NoName /\ Generic(callee) # {}
       /\ \E types \in {ConcreteTypes(Owners[s[1]], NodeAt(s), callee)} :
            Record(s, callee, types, Mangle(callee.name, types))

RecordCall ==
    /\ stage = "calls" /\ pos <= Len(Sites)
    /\ \E s \in {Sites[pos]} : record_call_site(s, Named(program.functions, NodeAt(s).callee))

CallsDone ==
    /\ stage = "calls" /\ pos > Len(Sites)
    /\ Proceed("generate")
    /\ UNCHANGED <<impl_table, specs, bound, functions>>

-----------------------------------------------------------------------------
(* Sections 4 and 5: rewriting the calls, then copying the templates *)

Bound(s, callee) ==
    IF \E r \in bound : r[1] = s THEN (CHOOSE r \in bound : r[1] = s)[2] ELSE callee

\* The body of an owner with its recorded calls rewritten.
Rewritten(o) ==
    [i \in DOMAIN Owners[o].body |->
       IF Owners[o].body[i].op # "call" THEN Owners[o].body[i]
       ELSE [Owners[o].body[i] EXCEPT !.callee = Bound(<<o, i>>, @)]]

\* A copied parameter keeps its type, class, borrow and array flag, but not
\* that it is a map.
CloneParam(prm) == [prm EXCEPT !.type.map = FALSE]

\* A copy of a function with the given body, which is copied node by node.
clone_node(fn, body) ==
    [fn EXCEPT !.params = [p \in DOMAIN @ |-> CloneParam(@[p])],
               !.body = [i \in DOMAIN body |-> body[i]]]

Concrete(prm, class) ==
    IF prm.trait = NoName THEN prm
    ELSE [prm EXCEPT !.trait = NoName, !.type.ty = "class", !.type.cls = class]

Specialize(o, spec) ==
    [clone_node(program.functions[o], Rewritten(o)) EXCEPT
       !.name = spec.name,
       !.params = [p \in DOMAIN @ |-> Concrete(@[p], spec.types[p])]]

\* Mutant: templates are kept beside their copies.
CopiesAndTemplate(o) ==
    <<[program.functions[o] EXCEPT !.body = Rewritten(o)]>>

\* What takes the place of function number o.
Generated(o) ==
    IF Generic(program.functions[o]) = {}
    THEN <<[program.functions[o] EXCEPT !.body = Rewritten(o)]>>
    ELSE LET own == SelectSeq(specs, LAMBDA s : s.template = program.functions[o].name)
         IN  [i \in DOMAIN own |-> Specialize(o, own[i])]

Generate ==
    /\ stage = "generate" /\ pos <= Len(program.functions)
    /\ functions' = functions \o Generated(pos)
    /\ pos' = pos + 1
    /\ UNCHANGED <<stage, impl_table, specs, bound>>

GenerateDone ==
    /\ stage = "generate" /\ pos > Len(program.functions)
    /\ Proceed("monomorphic")
    /\ UNCHANGED <<impl_table, specs, bound, functions>>

TraitInit ==
    /\ program = NoName
    /\ stage = "waiting" /\ pos = 1
    /\ impl_table = {} /\ specs = << >> /\ bound = {} /\ functions = << >>

TraitNext == \/ CheckImpl \/ ImplsDone
             \/ CheckTemplate \/ TemplatesDone
             \/ RecordCall \/ CallsDone
             \/ Generate \/ GenerateDone

-----------------------------------------------------------------------------
(* What monomorphization promises *)

\* The class of the value of an argument at node i of an owner's body, by
\* the scoping rules of the language: the latest visible let, else the
\* parameter.
RECURSIVE ClassAt(_, _, _)
ClassAt(owner, i, e) ==
    IF e.e # "var" THEN determine_expr_class(owner, e)
    ELSE LET lets == {j \in 1 .. i - 1 :
                        /\ owner.body[j].op = "let" /\ owner.body[j].var = e.var
                        /\ owner.body[j].block \in {0, owner.body[i].block}}
             j == CHOOSE k \in lets : \A l \in lets : l <= k
         IN  IF lets = {} THEN Named(owner.params, e.var).type.cls
             ELSE IF owner.body[j].cls # NoName THEN owner.body[j].cls
             ELSE ClassAt(owner, j, owner.body[j].val)

\* A call of a template is bound to a copy of that template whose parameters
\* have the classes the arguments have when the call runs.
RightInstance ==
    stage = "monomorphic" =>
      \A r \in bound :
        LET owner == Owners[r[1][1]]
            call == NodeAt(r[1])
            callee == CHOOSE o \in DOMAIN program.functions : program.functions[o].name = call.callee
            copy == Named(functions, r[2])
        IN  /\ copy # NoName
            /\ copy.body = Rewritten(callee)
            /\ \A p \in Generic(program.functions[callee]) :
                  copy.params[p].type.cls = ClassAt(owner, r[1][2], call.args[p])

\* After monomorphization no template is left, no two functions have one
\* name, and every call the scan visits of a function that was declared
\* names a function that still exists. A method called in a copy on a
\* specialized parameter is a method of that parameter's class, with the
\* signature of the interface.
CallsBound ==
    stage = "monomorphic" =>
      /\ \A i \in DOMAIN functions : Generic(functions[i]) = {}
      /\ \A i, j \in DOMAIN functions : functions[i].name = functions[j].name => i = j
      /\ \A o \in DOMAIN Owners : Generic(Owners[o]) = {} =>
            \A i \in DOMAIN Owners[o].body :
              LET node == Owners[o].body[i]
              IN  node.op = "call" /\ node.seen /\ Named(program.functions, node.callee) # NoName
                    => Named(functions, Bound(<<o, i>>, node.callee)) # NoName
      /\ \A s \in Range(specs) :
           LET template == Named(program.functions, s.template)
           IN  \A p \in Generic(template) : \A i \in DOMAIN template.body :
                 LET node == template.body[i]
                     req == Named(Named(program.interfaces, template.params[p].trait).methods, node.name)
                     act == Named(Named(program.classes, s.types[p]).methods, node.name)
                 IN  node.op = "method" /\ node.seen /\ node.on = template.params[p].name
                       => /\ act # NoName
                          /\ Len(req.params) = Len(act.params)
                          /\ \A k \in DOMAIN req.params :
                                act.params[k].type.cls =
                                  IF req.params[k].type.cls = <<"Self">>
                                  THEN s.types[p] ELSE req.params[k].type.cls
=============================================================================
