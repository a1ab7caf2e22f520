--------------------------- MODULE ModuleResolver ---------------------------
(***************************************************************************)
(* resolve_program of src/frontend/module_resolver.c: starting from the     *)
(* entry file, imports are followed depth-first, every file is parsed once, *)
(* and the declarations of a file are appended to the merged program after  *)
(* those of the files it imports.  The C recursion of resolve_file_rec is   *)
(* the stack: a frame remembers which import and which declaration of its   *)
(* file comes next.                                                         *)
(*                                                                          *)
(* The file system is a constant: At gives the canonical file that a path   *)
(* names in a directory.  Parsing is external; a file that does not parse   *)
(* ends the compilation.                                                    *)
(***************************************************************************)
EXTENDS Integers, Sequences, FiniteSets

CONSTANTS
    Files,       \* canonical paths
    Entry,       \* the file given on the command line
    Paths,       \* the paths written in import statements
    StdPaths,    \* those that begin with "std/"
    Dirs,        \* directories
    Cwd,         \* the current directory
    StdDirs,     \* where the standard library is looked for, in order
    DirOf,       \* the directory of a file
    At,          \* At[d, p]: the file that path p names in directory d
    Missing,     \* realpath failed
    Decls,       \* the declarations a file may contain
    SynthMain,   \* the main that stands for the entry file's statements
    Sources,     \* the contents of the files that are considered
    Limit        \* the size of resolved_paths and of stack: 128 in the code

\* The kinds of declarations.
TypeKinds == {"class", "struct", "enum", "interface"}
FnKinds == {"function", "operator"}
Kinds == TypeKinds \union FnKinds \union {"impl"}

\* What reading and parsing a file yields.  A declaration has a kind and a
\* name; the name of an impl is its interface and class, that of an operator
\* its symbol, its arity and the class of its first parameter.  The parser
\* keeps a list per kind; operators are in the list of the functions.
DeclLists == [classes : Seq(Decls), structs : Seq(Decls), enums : Seq(Decls),
              interfaces : Seq(Decls), impls : Seq(Decls), functions : Seq(Decls)]

Source == [imports : Seq(Paths), decls : DeclLists, statements : BOOLEAN,
           health : {"ok", "unreadable", "syntax"}]

ASSUME FilesAssumption ==
    /\ Entry \in Files
    /\ IsFiniteSet(Files)
    /\ Missing \notin Files
    /\ At \in [Dirs \X Paths -> Files \union {Missing}]
    /\ DirOf \in [Files -> Dirs]
    /\ Cwd \in Dirs
    /\ StdDirs \in Seq(Dirs)
    /\ \A d \in Decls \union {SynthMain} : d.kind \in Kinds
    /\ Sources \subseteq [Files -> Source]

ASSUME LimitAssumption == Limit \in Nat

VARIABLES
    source,      \* the parsed content of every file
    stack,       \* ctx.stack and the progress of the frame's two loops
    resolved,    \* ctx.resolved_paths
    merged,      \* the merged declarations in the order they were added
    status       \* "resolving", "done", or why the compiler stopped

vars == <<source, stack, resolved, merged, status>>

Errors == {"missing", "circular", "unreadable", "syntax", "statements",
           "mixed", "duplicate", "overrun"}

-----------------------------------------------------------------------------
(* Paths *)

\* The directories in which resolve_path looks for p, in order: that of the
\* importing file, the current one, and the library's if p is "std/...".
SearchDirs(p, importer) ==
    <<DirOf[importer], Cwd>> \o (IF p \in StdPaths THEN StdDirs ELSE << >>)

resolve_path(p, importer) ==
    LET dirs == SearchDirs(p, importer)
        hits == {i \in DOMAIN dirs : At[dirs[i], p] # Missing}
    IN  IF hits = {} THEN Missing
        ELSE At[dirs[CHOOSE i \in hits : \A j \in hits : i <= j], p]

StackFiles == {stack[i].file : i \in DOMAIN stack}
ResolvedFiles == {resolved[i] : i \in DOMAIN resolved}

\* Mutant: only the importing file itself is recognised.
find_importer(f) == stack[Len(stack)].file = f

\* Mutant: a file that was visited before is taken for a cycle.
find_visited(f) == f \in StackFiles \union ResolvedFiles

find_in_stack(f) == f \in StackFiles

\* Mutant: a file is looked for among the files that are being resolved.
resolved_is_open(f) == f \in StackFiles

is_already_resolved(f) == f \in ResolvedFiles

-----------------------------------------------------------------------------
(* Declarations *)

\* desugar_top_level_program: the statements of the entry file, the only one
\* that has any, become its last function.
SynthMains(f) == IF source[f].statements THEN <<SynthMain>> ELSE << >>

\* The declarations of a file in the order in which they are merged.
DeclsOf(f) ==
    LET d == source[f].decls
    IN  d.classes \o d.structs \o d.enums \o d.interfaces \o d.impls
          \o d.functions \o SynthMains(f)

DeclaresMain(f) ==
    LET functions == source[f].decls.functions
    IN  \E i \in DOMAIN functions : /\ functions[i].kind = "function"
                                    /\ functions[i].name = SynthMain.name

\* The kinds of the earlier declarations with which check_and_add_* compares
\* one of the given kind.
Compared(kind) ==
    CASE kind \in {"class", "struct"} -> {"class", "struct"}
      [] kind = "enum"                -> {"class", "struct", "enum"}
      [] kind = "interface"           -> TypeKinds
      [] OTHER                        -> {kind}

Clashes(d) == \E i \in DOMAIN merged : /\ merged[i].kind \in Compared(d.kind)
                                       /\ merged[i].name = d.name

-----------------------------------------------------------------------------
Frame(f) == [file |-> f, import |-> 1, decl |-> 1]

Top == stack[Len(stack)]

Init ==
    /\ source \in Sources
    /\ stack = << >> /\ resolved = << >> /\ merged = << >>
    /\ status = "resolving"

Fail(why) == status' = why /\ UNCHANGED <<source, stack, resolved, merged>>

\* Mutants: the import after a resolved one is skipped; the loop does not go on.
SkipImport == [stack EXCEPT ![Len(stack)].import = @ + 2]
SameImport == stack

\* Advance the import loop of the top frame.
NextImport == [stack EXCEPT ![Len(stack)].import = @ + 1]

\* Why reading and parsing f ends the compilation, if it does.  Statements
\* are for the entry file, which then may not declare main as well.
Refusal(f, imported) ==
    CASE source[f].health # "ok"                  -> source[f].health
      [] source[f].statements /\ imported         -> "statements"
      [] source[f].statements /\ DeclaresMain(f)  -> "mixed"
      [] OTHER                                     -> "ok"

\* The part of resolve_file_rec from the push to the import loop, for the
\* frames below the new one.  The push does not look at the array's size.
Enter(f, frames) ==
    \/ Len(frames) >= Limit /\ Fail("overrun")
    \/ /\ Len(frames) < Limit
       /\ Refusal(f, frames # << >>) # "ok"
       /\ Fail(Refusal(f, frames # << >>))
    \/ /\ Len(frames) < Limit
       /\ Refusal(f, frames # << >>) = "ok"
       /\ stack' = Append(frames, Frame(f))
       /\ UNCHANGED <<source, resolved, merged, status>>

\* resolve_program's call for the entry file.
Start ==
    /\ status = "resolving"
    /\ stack = << >> /\ resolved = << >>
    /\ Enter(Entry, << >>)

\* The top frame has an import left.
Importing == /\ status = "resolving"
             /\ stack # << >>
             /\ Top.import <= Len(source[Top.file].imports)

Target == resolve_path(source[Top.file].imports[Top.import], Top.file)

ImportMissing == Importing /\ Target = Missing /\ Fail("missing")

ImportCircular == /\ Importing /\ Target # Missing
                  /\ find_in_stack(Target)
                  /\ Fail("circular")

\* The file was merged before: nothing to do.
ImportKnown == /\ Importing /\ Target # Missing
               /\ ~find_in_stack(Target)
               /\ is_already_resolved(Target)
               /\ stack' = NextImport
               /\ UNCHANGED <<source, resolved, merged, status>>

ImportNew == /\ Importing /\ Target # Missing
             /\ ~find_in_stack(Target)
             /\ ~is_already_resolved(Target)
             /\ Enter(Target, NextImport)

\* All imports of the top frame are resolved and declarations are left.
Merging == /\ status = "resolving"
           /\ stack # << >>
           /\ Top.import > Len(source[Top.file].imports)
           /\ Top.decl <= Len(DeclsOf(Top.file))

MergeDuplicate == /\ Merging
                  /\ Clashes(DeclsOf(Top.file)[Top.decl])
                  /\ Fail("duplicate")

MergeDecl == /\ Merging
             /\ ~Clashes(DeclsOf(Top.file)[Top.decl])
             /\ merged' = Append(merged, DeclsOf(Top.file)[Top.decl])
             /\ stack' = [stack EXCEPT ![Len(stack)].decl = @ + 1]
             /\ UNCHANGED <<source, resolved, status>>

Leaving == /\ status = "resolving"
           /\ stack # << >>
           /\ Top.import > Len(source[Top.file].imports)
           /\ Top.decl > Len(DeclsOf(Top.file))

\* Everything of the file is merged: it is marked resolved and its frame is
\* popped; the entry file's is the last one.
Leave ==
    /\ Leaving
    /\ \/ Len(resolved) >= Limit /\ Fail("overrun")
       \/ /\ Len(resolved) < Limit
          /\ resolved' = Append(resolved, Top.file)
          /\ stack' = SubSeq(stack, 1, Len(stack) - 1)
          /\ status' = IF Len(stack) = 1 THEN "done" ELSE status
          /\ UNCHANGED <<source, merged>>

Next == \/ Start
        \/ ImportMissing \/ ImportCircular \/ ImportKnown \/ ImportNew
        \/ MergeDuplicate \/ MergeDecl
        \/ Leave

\* A recursive call that was made runs: the compiler is one thread.
Spec == Init /\ [][Next]_vars /\ WF_vars(Next)

-----------------------------------------------------------------------------
(* What the resolver promises *)

\* Every variable has its type, and the frames point into their files.
TypeOK ==
    /\ stack \in Seq([file : Files, import : Nat \ {0}, decl : Nat \ {0}])
    /\ resolved \in Seq(Files)
    /\ \A i \in DOMAIN merged : merged[i].kind \in Kinds
    /\ status \in {"resolving", "done"} \union Errors

\* The files that f imports, as the search of resolve_path finds them.
Imports(f) == {resolve_path(source[f].imports[i], f) :
                  i \in DOMAIN source[f].imports} \ {Missing}

Closed(S) == \A f \in S : Imports(f) \subseteq S

\* The files that the imports of the files in S lead to, S included.
Reach(S) == {f \in Files : \A T \in SUBSET Files :
                              S \subseteq T /\ Closed(T) => f \in T}

\* No file is resolved twice or while it is still open: a file reached over
\* two paths (a diamond, or two spellings of one path) is merged once.
OnceEach ==
    /\ \A i, j \in DOMAIN resolved : resolved[i] = resolved[j] => i = j
    /\ \A i, j \in DOMAIN stack : stack[i].file = stack[j].file => i = j
    /\ StackFiles \intersect ResolvedFiles = {}

\* A file is resolved after all the files it imports, so that the merged
\* program declares before it uses, in whatever order the imports are
\* written.
ImportsFirst ==
    \A i \in DOMAIN resolved : \A g \in Imports(resolved[i]) :
        \E j \in 1 .. i - 1 : resolved[j] = g

\* When resolve_program returns, every file the entry file depends on is
\* merged, none of them is missing, and they have no cycle; a cycle is
\* reported only if there is one.
CircularExact ==
    /\ status = "circular" => \E f \in Reach({Entry}) : f \in Reach(Imports(f))
    /\ status = "done" => /\ ResolvedFiles = Reach({Entry})
                          /\ \A f \in ResolvedFiles : f \notin Reach(Imports(f))

\* The fixed arrays are overrun only by a program of more than Limit files:
\* frames and resolved files are never more than there are files.
FitsArrays == status = "overrun" => Cardinality(Reach({Entry})) > Limit

\* A duplicate is reported only if two declarations of the program clash;
\* importing a file twice never makes it clash with itself.
DuplicateReal ==
    status = "duplicate" =>
      \E f, g \in Reach({Entry}) :
        \E i \in DOMAIN DeclsOf(f), j \in DOMAIN DeclsOf(g) :
          /\ <<f, i>> # <<g, j>>
          /\ DeclsOf(f)[i].name = DeclsOf(g)[j].name
          /\ DeclsOf(f)[i].kind \in Compared(DeclsOf(g)[j].kind)
=============================================================================
