------------------------ MODULE ModuleResolverProofs ------------------------
(***************************************************************************)
(* The depth-first search of resolve_file_rec does what the merge of a     *)
(* program needs, for every file system, every content of the files and    *)
(* every size of the two arrays.                                           *)
(***************************************************************************)
EXTENDS ModuleResolver, FiniteSetTheorems, WellFoundedInduction, TLAPS

Frames == [file : Files, import : Nat \ {0}, decl : Nat \ {0}]

-----------------------------------------------------------------------------
(* Paths and imports.                                                      *)

(* A non-empty set of natural numbers has a least element.                 *)
LEMMA Least ==
  ASSUME NEW T, T \subseteq Nat, T # {}
  PROVE  \E i \in T : \A j \in T : i <= j
  <1>1. \E x \in T : \A y \in T : ~ (<<y, x>> \in OpToRel(<, Nat))
    BY NatLessThanWellFounded, WFMin
  <1>2. PICK x \in T : \A y \in T : ~ (<<y, x>> \in OpToRel(<, Nat))
    BY <1>1
  <1>3. \A y \in T : ~ (y < x)
    BY <1>2 DEF OpToRel
  <1> QED
    BY <1>3

(* A path leads to a file or nowhere.                                      *)
LEMMA PathType ==
  ASSUME source \in Sources, NEW f \in Files, NEW i \in DOMAIN source[f].imports
  PROVE  resolve_path(source[f].imports[i], f) \in Files \union {Missing}
  <1> DEFINE p == source[f].imports[i]
             dirs == SearchDirs(p, f)
             hits == {k \in DOMAIN dirs : At[dirs[k], p] # Missing}
  <1>1. source[f].imports \in Seq(Paths)
    BY FilesAssumption DEF Source
  <1>2. p \in Paths
    BY <1>1
  <1>3. dirs \in Seq(Dirs)
    BY FilesAssumption DEF SearchDirs
  <1>4. CASE hits = {}
    BY <1>4 DEF resolve_path
  <1>5. CASE hits # {}
    <2> DEFINE k == CHOOSE k \in hits : \A j \in hits : k <= j
    <2>1. hits \subseteq Nat /\ \A m \in hits : dirs[m] \in Dirs
      <3>1. hits \subseteq DOMAIN dirs
        OBVIOUS
      <3> HIDE DEF dirs, hits
      <3> QED BY <1>3, <3>1
    <2>2. \E m \in hits : \A j \in hits : m <= j
      <3> HIDE DEF hits
      <3> QED BY <2>1, <1>5, Least
    <2>3. k \in hits
      <3> HIDE DEF hits
      <3> QED BY <2>2
    <2>4. resolve_path(p, f) = At[dirs[k], p]
      BY <1>5 DEF resolve_path
    <2>5. dirs[k] \in Dirs
      BY <2>3, <2>1
    <2> HIDE DEF k, dirs, p
    <2>6. <<dirs[k], p>> \in Dirs \X Paths
      BY <2>5, <1>2
    <2>7. At[dirs[k], p] \in Files \union {Missing}
      BY <2>6, FilesAssumption
    <2> QED
      BY <2>4, <2>7 DEF p
  <1> QED
    BY <1>4, <1>5

(* Imports lead to files, and to the same files as long as the sources are *)
(* the same, which they always are.                                        *)
LEMMA ImportsType ==
  ASSUME source \in Sources, NEW f \in Files
  PROVE  Imports(f) \subseteq Files
  BY PathType DEF Imports

LEMMA SameImports ==
  ASSUME source' = source
  PROVE  \A f : Imports(f)' = Imports(f)
  BY DEF Imports, resolve_path, SearchDirs

LEMMA SameReach ==
  ASSUME source' = source
  PROVE  \A S : Reach(S)' = Reach(S)
  BY SameImports DEF Reach, Closed

(* Reach(S) is the least set that contains S and is closed under imports.  *)
LEMMA ReachContains ==
  ASSUME NEW S, S \subseteq Files
  PROVE  S \subseteq Reach(S)
  BY DEF Reach

LEMMA ReachClosed ==
  ASSUME source \in Sources, NEW S, NEW f \in Reach(S)
  PROVE  Imports(f) \subseteq Reach(S)
  <1>1. f \in Files
    BY DEF Reach
  <1>2. Imports(f) \subseteq Files
    BY <1>1, ImportsType
  <1> QED
    BY <1>2 DEF Reach, Closed

LEMMA ReachLeast ==
  ASSUME NEW S, NEW T, T \subseteq Files, S \subseteq T, Closed(T)
  PROVE  Reach(S) \subseteq T
  BY DEF Reach

LEMMA ReachFinite ==
  ASSUME NEW S
  PROVE  Reach(S) \subseteq Files /\ IsFiniteSet(Reach(S))
  <1>1. Reach(S) \in SUBSET Files
    BY DEF Reach
  <1> QED
    BY <1>1, FilesAssumption, FS_Subset

(* The declarations of a file are a sequence of declarations.              *)
LEMMA DeclsType ==
  ASSUME source \in Sources, NEW f \in Files
  PROVE  DeclsOf(f) \in Seq(Decls \union {SynthMain})
  <1> DEFINE D == Decls \union {SynthMain}
             d == source[f].decls
  <1>1. d \in DeclLists
    BY FilesAssumption DEF Source
  <1>2. /\ d.classes \in Seq(D) /\ d.structs \in Seq(D) /\ d.enums \in Seq(D)
        /\ d.interfaces \in Seq(D) /\ d.impls \in Seq(D) /\ d.functions \in Seq(D)
    <2> HIDE DEF d
    <2> QED BY <1>1 DEF DeclLists
  <1>3. SynthMains(f) \in Seq(D)
    <2>1. SynthMain \in D
      OBVIOUS
    <2> HIDE DEF D
    <2>2. <<SynthMain>> \in Seq(D) /\ << >> \in Seq(D)
      BY <2>1
    <2>3. SynthMains(f) \in {<<SynthMain>>, << >>}
      BY Zenon DEF SynthMains
    <2> QED
      BY <2>2, <2>3
  <1> HIDE DEF D
  <1> DEFINE types == d.classes \o d.structs \o d.enums \o d.interfaces
             all == types \o d.impls \o d.functions \o SynthMains(f)
  <1>4. DeclsOf(f) = all
    BY DEF DeclsOf
  <1> HIDE DEF d
  <1>5. d.classes \o d.structs \in Seq(D)
    BY <1>2
  <1>6. types \in Seq(D)
    BY <1>2, <1>5
  <1> HIDE DEF types
  <1>7. types \o d.impls \o d.functions \in Seq(D)
    BY <1>2, <1>6
  <1> QED
    BY <1>3, <1>4, <1>7 DEF D

LEMMA SameDecls ==
  ASSUME source' = source
  PROVE  \A f : DeclsOf(f)' = DeclsOf(f)
  BY DEF DeclsOf, SynthMains

-----------------------------------------------------------------------------
(* The invariant.  Known files are those that are open or resolved.  The   *)
(* bottom frame is the entry file's; a frame's imports before the current  *)
(* one exist and are resolved, except that the last of them is the file of *)
(* the next frame; every frame is reached from the imports of the frames   *)
(* below it; a merged declaration is one that its file has gone past.      *)
Known == StackFiles \union ResolvedFiles

Typed == /\ source \in Sources
         /\ stack \in Seq(Frames)
         /\ resolved \in Seq(Files)
         /\ merged \in Seq(Decls \union {SynthMain})
         /\ status \in {"resolving", "done"} \union Errors

Bottom == /\ stack # << >> => stack[1].file = Entry
          /\ status = "resolving" /\ stack = << >> => resolved = << >>
          /\ status = "done" => Entry \in ResolvedFiles

\* The file that import number k of file f leads to, and the numbers.
Led(f, k) == resolve_path(source[f].imports[k], f)
Numbers(f) == DOMAIN source[f].imports

Followed ==
  \A i \in DOMAIN stack : \A k \in Numbers(stack[i].file) :
    k < stack[i].import => \/ Led(stack[i].file, k) \in ResolvedFiles
                           \/ /\ i < Len(stack)
                              /\ k = stack[i].import - 1
                              /\ Led(stack[i].file, k) = stack[i + 1].file

Nested ==
  \A i, j \in DOMAIN stack :
    i < j => stack[j].file \in Reach(Imports(stack[i].file))

FromEntry == Known \subseteq Reach({Entry})

\* The declaration number k of file f was merged.
Past(f, k) == \/ f \in ResolvedFiles
              \/ \E i \in DOMAIN stack : stack[i].file = f /\ k < stack[i].decl

Merged ==
  \A m \in DOMAIN merged :
    \E f \in Known : \E k \in DOMAIN DeclsOf(f) :
      Past(f, k) /\ merged[m] = DeclsOf(f)[k]

\* What a failure says of the program.
Reports ==
  /\ status = "circular" => \E f \in Reach({Entry}) : f \in Reach(Imports(f))
  /\ FitsArrays
  /\ DuplicateReal

ResolverInv == /\ Typed /\ Bottom /\ OnceEach /\ Followed /\ Nested /\ FromEntry
               /\ ImportsFirst /\ Merged /\ Reports

LEMMA NumbersType ==
  ASSUME source \in Sources, NEW f \in Files
  PROVE  /\ source[f].imports \in Seq(Paths)
         /\ Numbers(f) \subseteq Nat \ {0}
         /\ Imports(f) = {Led(f, k) : k \in Numbers(f)} \ {Missing}
  <1>1. source[f].imports \in Seq(Paths)
    BY FilesAssumption DEF Source
  <1> QED
    BY <1>1 DEF Numbers, Imports, Led

LEMMA SameNumbers ==
  ASSUME source' = source
  PROVE  \A f : Numbers(f)' = Numbers(f) /\ \A k : Led(f, k)' = Led(f, k)
  BY DEF Numbers, Led

(* At first nothing is known.                                              *)
LEMMA ResolverInit == Init => ResolverInv
  BY DEF Init, ResolverInv, Typed, Bottom, OnceEach, Followed, Nested, FromEntry,
     Known, ImportsFirst, Merged, Reports, FitsArrays, DuplicateReal, StackFiles,
     ResolvedFiles

-----------------------------------------------------------------------------
(* Steps that end the resolution change the status only.                   *)
LEMMA FailKeeps ==
  ASSUME ResolverInv, NEW why \in Errors, Fail(why),
         why = "circular" => \E f \in Reach({Entry}) : f \in Reach(Imports(f)),
         why = "overrun" => Cardinality(Reach({Entry})) > Limit,
         why = "duplicate" =>
           \E f, g \in Reach({Entry}) :
             \E i \in DOMAIN DeclsOf(f), j \in DOMAIN DeclsOf(g) :
               /\ <<f, i>> # <<g, j>>
               /\ DeclsOf(f)[i].name = DeclsOf(g)[j].name
               /\ DeclsOf(f)[i].kind \in Compared(DeclsOf(g)[j].kind)
  PROVE  ResolverInv'
  <1>1. /\ UNCHANGED <<source, stack, resolved, merged>>
        /\ status' = why /\ why # "resolving" /\ why # "done"
    BY DEF Fail, Errors
  <1>2. \A f : Imports(f)' = Imports(f) /\ DeclsOf(f)' = DeclsOf(f)
    BY <1>1, SameImports, SameDecls
  <1>3. \A S : Reach(S)' = Reach(S)
    BY <1>1, SameReach
  <1>4. StackFiles' = StackFiles /\ ResolvedFiles' = ResolvedFiles
    BY <1>1 DEF StackFiles, ResolvedFiles
  <1>5. Typed' /\ Bottom' /\ OnceEach' /\ Followed'
    BY <1>1, <1>4, SameNumbers DEF ResolverInv, Typed, Bottom, OnceEach, Followed
  <1>6. Nested' /\ FromEntry' /\ ImportsFirst'
    BY <1>1, <1>2, <1>3, <1>4 DEF ResolverInv, Nested, FromEntry, Known, ImportsFirst
  <1>7. Merged'
    BY <1>1, <1>2, <1>4 DEF ResolverInv, Merged, Known, Past
  <1>8. Reports'
    BY <1>1, <1>2, <1>3 DEF Reports, FitsArrays, DuplicateReal
  <1> QED
    BY <1>5, <1>6, <1>7, <1>8 DEF ResolverInv

(* What advancing the import loop does to the frames.                      *)
LEMMA Advanced ==
  ASSUME Typed, stack # << >>
  PROVE  /\ Len(stack) \in Nat \ {0}
         /\ NextImport \in Seq(Frames)
         /\ Len(NextImport) = Len(stack)
         /\ \A i \in 1 .. Len(stack) :
              /\ NextImport[i].file = stack[i].file
              /\ NextImport[i].decl = stack[i].decl
              /\ NextImport[i].import = IF i = Len(stack) THEN stack[i].import + 1
                                        ELSE stack[i].import
  <1>1. stack \in Seq(Frames) /\ Len(stack) \in Nat \ {0}
    BY DEF Typed
  <1>2. stack[Len(stack)] \in Frames
    BY <1>1
  <1>3. [stack[Len(stack)] EXCEPT !.import = @ + 1] \in Frames
    BY <1>2 DEF Frames
  <1>4. NextImport = [stack EXCEPT ![Len(stack)] = [stack[Len(stack)] EXCEPT !.import = @ + 1]]
    BY DEF NextImport
  <1>5. NextImport \in Seq(Frames) /\ Len(NextImport) = Len(stack)
    BY <1>1, <1>3, <1>4
  <1>6. \A i \in 1 .. Len(stack) :
          NextImport[i] = IF i = Len(stack) THEN [stack[i] EXCEPT !.import = @ + 1]
                          ELSE stack[i]
    BY <1>1, <1>4
  <1>7. \A i \in 1 .. Len(stack) : stack[i] \in Frames
    BY <1>1
  <1> QED
    BY <1>1, <1>5, <1>6, <1>7 DEF Frames

(* The file that the current import leads to.                              *)
LEMMA TargetIs ==
  ASSUME ResolverInv, Importing
  PROVE  /\ Top.file \in Files /\ Top.import \in DOMAIN source[Top.file].imports
         /\ Target # Missing => Target \in Imports(Top.file)
         /\ Target # Missing => Target \in Files
         /\ Target # Missing => Target \in Reach({Entry})
         /\ Top.file \in StackFiles
  <1>1. Top \in Frames /\ Len(stack) \in DOMAIN stack
    BY DEF ResolverInv, Typed, Importing, Top
  <1>2. Top.file \in Files /\ Top.import \in Nat \ {0}
    BY <1>1 DEF Frames
  <1>3. source[Top.file].imports \in Seq(Paths)
    BY <1>2, FilesAssumption DEF ResolverInv, Typed, Source
  <1>4. Top.import \in DOMAIN source[Top.file].imports
    BY <1>2, <1>3 DEF Importing
  <1>5. Target # Missing => Target \in Imports(Top.file)
    BY <1>4 DEF Target, Imports
  <1>6. Top.file \in StackFiles
    BY <1>1 DEF Top, StackFiles
  <1>7. Top.file \in Reach({Entry})
    BY <1>6 DEF ResolverInv, FromEntry, Known
  <1> QED
    BY <1>2, <1>4, <1>5, <1>6, <1>7, ImportsType, ReachClosed DEF ResolverInv, Typed

(* An import that is resolved already: the loop goes on.                   *)
LEMMA KnownKeeps == ResolverInv /\ ImportKnown => ResolverInv'
  <1> SUFFICES ASSUME ResolverInv, ImportKnown PROVE ResolverInv'
    OBVIOUS
  <1>1. /\ Importing /\ is_already_resolved(Target) /\ stack # << >>
        /\ stack' = NextImport
        /\ UNCHANGED <<source, resolved, merged, status>>
    BY DEF ImportKnown, Importing
  <1>2. Typed /\ Bottom /\ OnceEach /\ Followed /\ Nested /\ FromEntry
    BY DEF ResolverInv
  <1> DEFINE n == Len(stack)
  <1>3. /\ n \in Nat \ {0} /\ stack' \in Seq(Frames) /\ Len(stack') = n
        /\ stack \in Seq(Frames)
        /\ \A i \in 1 .. n :
             /\ stack'[i].file = stack[i].file
             /\ stack'[i].decl = stack[i].decl
             /\ stack'[i].import = IF i = n THEN stack[i].import + 1 ELSE stack[i].import
    BY <1>1, <1>2, Advanced DEF Typed
  <1>4. DOMAIN stack = 1 .. n /\ DOMAIN stack' = 1 .. n
    BY <1>3
  <1> HIDE DEF n
  <1>5. StackFiles' = StackFiles /\ ResolvedFiles' = ResolvedFiles
    <2>1. StackFiles = {stack[i].file : i \in 1 .. n}
      BY <1>4 DEF StackFiles
    <2>2. StackFiles' = {stack'[i].file : i \in 1 .. n}
      BY <1>4 DEF StackFiles
    <2> QED
      BY <2>1, <2>2, <1>1, <1>3 DEF ResolvedFiles
  <1>6. \A f : Imports(f)' = Imports(f) /\ DeclsOf(f)' = DeclsOf(f)
    BY <1>1, SameImports, SameDecls
  <1>7. \A S : Reach(S)' = Reach(S)
    BY <1>1, SameReach
  <1>8. Typed'
    BY <1>1, <1>2, <1>3 DEF Typed
  <1>9. Bottom'
    BY <1>1, <1>2, <1>3, <1>5 DEF Bottom
  <1>10. OnceEach'
    BY <1>1, <1>2, <1>3, <1>4, <1>5 DEF OnceEach
  <1>11. Followed'
    <2> SUFFICES ASSUME NEW i \in 1 .. n, NEW k \in Numbers(stack[i].file),
                        k < stack'[i].import
                 PROVE  \/ Led(stack[i].file, k) \in ResolvedFiles
                        \/ /\ i < n /\ k = stack'[i].import - 1
                           /\ Led(stack[i].file, k) = stack'[i + 1].file
      BY <1>1, <1>3, <1>4, <1>5, SameNumbers DEF Followed
    <2>1. stack[i].file \in Files /\ stack[i].import \in Nat /\ k \in Nat
      <3>1. stack[i] \in Frames
        BY <1>3, <1>4
      <3>2. stack[i].file \in Files /\ stack[i].import \in Nat
        BY <3>1 DEF Frames
      <3> QED
        BY <3>2, <1>2, NumbersType DEF Typed
    <2>2. \/ k < stack[i].import
          \/ i = n /\ k = stack[i].import
      BY <2>1, <1>3
    <2>3. CASE k < stack[i].import
      <3>1. \/ Led(stack[i].file, k) \in ResolvedFiles
            \/ /\ i < n /\ k = stack[i].import - 1
               /\ Led(stack[i].file, k) = stack[i + 1].file
        BY <2>3, <1>2, <1>4 DEF Followed, n
      <3>2. i < n => stack'[i + 1].file = stack[i + 1].file /\ stack'[i].import = stack[i].import
        BY <1>3
      <3> QED
        BY <3>1, <3>2
    <2>4. CASE i = n /\ k = stack[i].import
      BY <2>4, <1>1 DEF is_already_resolved, Target, Top, Led, n
    <2> QED
      BY <2>2, <2>3, <2>4
  <1>12. Nested' /\ FromEntry' /\ ImportsFirst'
    <2>1. Nested'
      BY <1>1, <1>2, <1>3, <1>4, <1>5, <1>6, <1>7 DEF ResolverInv, Nested
    <2>2. FromEntry'
      BY <1>1, <1>2, <1>3, <1>4, <1>5, <1>6, <1>7 DEF ResolverInv, FromEntry, Known
    <2>3. ImportsFirst'
      BY <1>1, <1>2, <1>3, <1>4, <1>5, <1>6, <1>7 DEF ResolverInv, ImportsFirst
    <2> QED
      BY <2>1, <2>2, <2>3
  <1>13. Merged'
    <2>1. \A f, k : Past(f, k)' <=> Past(f, k)
      BY <1>3, <1>4, <1>5 DEF Past
    <2> QED
      BY <2>1, <1>1, <1>5, <1>6 DEF ResolverInv, Merged, Known
  <1>14. Reports'
    BY <1>1, <1>6, <1>7 DEF ResolverInv, Reports, FitsArrays, DuplicateReal
  <1> QED
    BY <1>8, <1>9, <1>10, <1>11, <1>12, <1>13, <1>14 DEF ResolverInv

(* A file is entered: its frame is put on the others.                      *)
LEMMA PushKeeps ==
  ASSUME ResolverInv, NEW f \in Files, NEW frames, stack' = Append(frames, Frame(f)),
         UNCHANGED <<source, resolved, merged, status>>, status = "resolving",
         \/ stack = << >> /\ frames = << >> /\ f = Entry
         \/ /\ Importing /\ frames = NextImport /\ f = Target
            /\ Target # Missing /\ ~find_in_stack(f) /\ ~is_already_resolved(f)
  PROVE  ResolverInv'
  <1>0. Typed /\ Bottom /\ OnceEach /\ Followed /\ Nested /\ FromEntry
    BY DEF ResolverInv
  <1> DEFINE n == Len(stack)
  <1>1. /\ n \in Nat /\ stack \in Seq(Frames) /\ frames \in Seq(Frames) /\ Len(frames) = n
        /\ \A i \in 1 .. n :
             /\ frames[i].file = stack[i].file
             /\ frames[i].decl = stack[i].decl
             /\ frames[i].import = IF i = n THEN stack[i].import + 1 ELSE stack[i].import
    <2>1. CASE stack = << >> /\ frames = << >>
      BY <2>1, <1>0 DEF Typed
    <2>2. CASE Importing /\ frames = NextImport
      BY <2>2, <1>0, Advanced DEF Typed, Importing
    <2> QED
      BY <2>1, <2>2
  <1>2. Frame(f) \in Frames
    BY DEF Frame, Frames
  <1>3. /\ stack' \in Seq(Frames) /\ Len(stack') = n + 1 /\ DOMAIN stack' = 1 .. n + 1
        /\ DOMAIN stack = 1 .. n
        /\ \A i \in 1 .. n :
             /\ stack'[i].file = stack[i].file
             /\ stack'[i].decl = stack[i].decl
             /\ stack'[i].import = IF i = n THEN stack[i].import + 1 ELSE stack[i].import
        /\ stack'[n + 1] = Frame(f)
    BY <1>1, <1>2
  <1>4. stack'[n + 1].file = f /\ stack'[n + 1].import = 1 /\ stack'[n + 1].decl = 1
    <2>1. Frame(f).file = f /\ Frame(f).import = 1 /\ Frame(f).decl = 1
      BY DEF Frame
    <2> QED
      BY <1>3, <2>1
  <1> HIDE DEF n
  <1>5. StackFiles' = StackFiles \union {f} /\ ResolvedFiles' = ResolvedFiles
    <2>1. StackFiles = {stack[i].file : i \in 1 .. n}
      BY <1>3 DEF StackFiles
    <2>2. StackFiles' = {stack'[i].file : i \in 1 .. n + 1}
      BY <1>3 DEF StackFiles
    <2>3. 1 .. n + 1 = (1 .. n) \union {n + 1}
      BY <1>1
    <2> QED
      BY <2>1, <2>2, <2>3, <1>3, <1>4 DEF ResolvedFiles
  <1>6. \A h : Imports(h)' = Imports(h) /\ DeclsOf(h)' = DeclsOf(h)
    BY SameImports, SameDecls
  <1>7. \A S : Reach(S)' = Reach(S)
    BY SameReach
  <1>8. f \notin StackFiles /\ f \notin ResolvedFiles
    BY <1>0 DEF find_in_stack, is_already_resolved, Bottom, StackFiles, ResolvedFiles
  <1>9. Typed'
    BY <1>0, <1>3 DEF Typed
  <1>10. Bottom'
    <2>1. stack'[1].file = Entry
      <3>1. CASE n = 0
        BY <3>1, <1>1, <1>4 DEF Importing, n
      <3>2. CASE n # 0
        BY <3>2, <1>0, <1>1, <1>3 DEF Bottom
      <3> QED BY <3>1, <3>2
    <2> QED
      BY <2>1, <1>3, <1>1 DEF Bottom
  <1>11. OnceEach'
    <2>1. \A i, j \in 1 .. n + 1 : stack'[i].file = stack'[j].file => i = j
      <3>1. \A i \in 1 .. n : stack'[i].file \in StackFiles
        BY <1>3 DEF StackFiles
      <3>2. \A i, j \in 1 .. n : stack'[i].file = stack'[j].file => i = j
        BY <1>0, <1>3 DEF OnceEach
      <3>3. \A i \in 1 .. n : stack'[i].file # f
        BY <3>1, <1>8
      <3>4. \A i \in 1 .. n + 1 : i \in 1 .. n \/ i = n + 1
        BY <1>1
      <3> QED
        BY <3>2, <3>3, <3>4, <1>4
    <2> QED
      BY <2>1, <1>0, <1>3, <1>5, <1>8 DEF OnceEach
  <1>12. Followed'
    <2> SUFFICES ASSUME NEW i \in 1 .. n + 1, NEW k \in Numbers(stack'[i].file),
                        k < stack'[i].import
                 PROVE  \/ Led(stack'[i].file, k) \in ResolvedFiles
                        \/ /\ i < n + 1 /\ k = stack'[i].import - 1
                           /\ Led(stack'[i].file, k) = stack'[i + 1].file
      BY <1>3, <1>5, SameNumbers DEF Followed
    <2>1. stack'[i].file \in Files /\ stack'[i].import \in Nat /\ k \in Nat \ {0}
      <3>1. stack'[i] \in Frames
        BY <1>3
      <3>2. stack'[i].file \in Files /\ stack'[i].import \in Nat
        BY <3>1 DEF Frames
      <3> QED
        BY <3>2, <1>0, NumbersType DEF Typed
    <2>2. i # n + 1
      <3>1. ~ (k < 1)
        BY <2>1
      <3> QED
        BY <3>1, <1>4
    <2>3. /\ stack'[i].file = stack[i].file /\ stack[i].import \in Nat /\ i \in 1 .. n
          /\ \/ k < stack[i].import
             \/ i = n /\ k = stack[i].import
      <3>1. i \in 1 .. n
        BY <2>2, <1>1
      <3>2. stack[i] \in Frames
        BY <3>1, <1>1, <1>3
      <3>3. stack[i].import \in Nat
        BY <3>2 DEF Frames
      <3> QED
        BY <3>1, <3>3, <2>1, <1>3
    <2>4. CASE k < stack[i].import
      <3>1. \/ Led(stack[i].file, k) \in ResolvedFiles
            \/ /\ i < n /\ k = stack[i].import - 1
               /\ Led(stack[i].file, k) = stack[i + 1].file
        BY <2>3, <2>4, <1>0, <1>3 DEF Followed, n
      <3>2. i < n => stack'[i + 1].file = stack[i + 1].file /\ stack'[i].import = stack[i].import
        BY <2>3, <1>1, <1>3
      <3> QED
        BY <2>3, <3>1, <3>2, <1>1
    <2>5. CASE i = n /\ k = stack[i].import
      <3>1. Importing /\ f = Target
        BY <2>3, <1>1 DEF n
      <3>2. Led(stack'[i].file, k) = f
        BY <2>3, <2>5, <3>1 DEF Target, Top, Led, n
      <3> QED
        <4>1. stack'[i].import = stack[i].import + 1
          BY <2>3, <2>5, <1>3
        <4>2. stack'[i + 1].file = f
          BY <2>5, <1>4
        <4>3. i < n + 1 /\ k = stack'[i].import - 1
          BY <2>3, <2>5, <4>1, <1>1
        <4> QED
          BY <3>2, <4>2, <4>3
    <2> QED
      BY <2>3, <2>4, <2>5
  <1>13. Nested'
    <2>1. \A i \in 1 .. n : f \in Reach(Imports(stack[i].file))
      <3> SUFFICES ASSUME NEW i \in 1 .. n PROVE f \in Reach(Imports(stack[i].file))
        OBVIOUS
      <3>1. Importing /\ f = Target /\ Target # Missing
        BY <1>1 DEF n
      <3>2. f \in Imports(stack[n].file)
        BY <3>1, TargetIs DEF Top, n
      <3>3. stack[i].file \in Files
        <4>1. stack[i] \in Frames
          BY <1>1, <1>3
        <4> QED
          BY <4>1 DEF Frames
      <3>4. CASE i = n
        BY <3>2, <3>3, <3>4, <1>0, ImportsType, ReachContains DEF Typed
      <3>5. CASE i < n
        <4>1. stack[n].file \in Reach(Imports(stack[i].file))
          BY <3>5, <1>0, <1>1, <1>3 DEF Nested
        <4> QED
          BY <4>1, <3>2, <1>0, ReachClosed DEF Typed
      <3> QED
        BY <3>4, <3>5, <1>1
    <2>2. \A i, j \in 1 .. n : i < j => stack[j].file \in Reach(Imports(stack[i].file))
      BY <1>0, <1>3 DEF Nested
    <2> QED
      BY <2>1, <2>2, <1>1, <1>3, <1>4, <1>6, <1>7 DEF Nested
  <1>14. FromEntry'
    <2>1. f \in Reach({Entry})
      BY TargetIs, ReachContains, FilesAssumption
    <2> QED
      BY <2>1, <1>0, <1>5, <1>7 DEF FromEntry, Known
  <1>15. ImportsFirst'
    BY <1>6 DEF ResolverInv, ImportsFirst
  <1>16. Merged'
    <2>1. \A h, k : Past(h, k) => Past(h, k)'
      BY <1>3, <1>5, <1>1 DEF Past
    <2> QED
      BY <2>1, <1>5, <1>6 DEF ResolverInv, Merged, Known
  <1>17. Reports'
    BY <1>6, <1>7 DEF ResolverInv, Reports, FitsArrays, DuplicateReal
  <1> QED
    BY <1>9, <1>10, <1>11, <1>12, <1>13, <1>14, <1>15, <1>16, <1>17 DEF ResolverInv

(* A declaration is merged: the loop over the file's declarations goes on. *)
LEMMA MergeKeeps == ResolverInv /\ MergeDecl => ResolverInv'
  <1> SUFFICES ASSUME ResolverInv, MergeDecl PROVE ResolverInv'
    OBVIOUS
  <1> DEFINE n == Len(stack)
             d == DeclsOf(Top.file)[Top.decl]
  <1>1. /\ Merging /\ stack # << >>
        /\ merged' = Append(merged, d)
        /\ stack' = [stack EXCEPT ![n].decl = @ + 1]
        /\ UNCHANGED <<source, resolved, status>>
    BY DEF MergeDecl, Merging
  <1>2. Typed /\ Bottom /\ OnceEach /\ Followed /\ Nested /\ FromEntry
    BY DEF ResolverInv
  <1>3. stack \in Seq(Frames) /\ n \in Nat \ {0} /\ DOMAIN stack = 1 .. n
    BY <1>1, <1>2 DEF Typed
  <1>4. \A i \in 1 .. n : stack[i] \in Frames
    BY <1>3
  <1>5. [stack[n] EXCEPT !.decl = @ + 1] \in Frames
    BY <1>3, <1>4 DEF Frames
  <1>6. stack' = [stack EXCEPT ![n] = [stack[n] EXCEPT !.decl = @ + 1]]
    BY <1>1
  <1>7. stack' \in Seq(Frames) /\ Len(stack') = n /\ DOMAIN stack' = 1 .. n
    BY <1>3, <1>5, <1>6
  <1>8. \A i \in 1 .. n :
          /\ stack'[i].file = stack[i].file
          /\ stack'[i].import = stack[i].import
          /\ stack'[i].decl = IF i = n THEN stack[i].decl + 1 ELSE stack[i].decl
    BY <1>3, <1>4, <1>6 DEF Frames
  <1>9. Top = stack[n] /\ Top.file \in Files /\ Top.decl \in Nat \ {0} /\ Top.file \in StackFiles
    BY <1>3, <1>4 DEF Top, Frames, StackFiles
  <1> HIDE DEF n
  <1>10. DeclsOf(Top.file) \in Seq(Decls \union {SynthMain})
    BY <1>2, <1>9, DeclsType DEF Typed
  <1>11. Top.decl \in DOMAIN DeclsOf(Top.file) /\ d \in Decls \union {SynthMain}
    BY <1>1, <1>9, <1>10 DEF Merging
  <1> HIDE DEF d
  <1>12. StackFiles' = StackFiles /\ ResolvedFiles' = ResolvedFiles
    <2>1. StackFiles = {stack[i].file : i \in 1 .. n}
      BY <1>3 DEF StackFiles
    <2>2. StackFiles' = {stack'[i].file : i \in 1 .. n}
      BY <1>7 DEF StackFiles
    <2> QED
      BY <2>1, <2>2, <1>1, <1>8 DEF ResolvedFiles
  <1>13. \A f : Imports(f)' = Imports(f) /\ DeclsOf(f)' = DeclsOf(f)
    BY <1>1, SameImports, SameDecls
  <1>14. \A S : Reach(S)' = Reach(S)
    BY <1>1, SameReach
  <1>15. Typed'
    BY <1>1, <1>2, <1>7, <1>11 DEF Typed
  <1>16. Bottom' /\ OnceEach'
    BY <1>1, <1>2, <1>3, <1>7, <1>8, <1>12 DEF Bottom, OnceEach
  <1>17. Followed'
    <2>1. Len(stack) = n /\ \A i \in 1 .. n : i < n => i + 1 \in 1 .. n
      BY <1>3 DEF n
    <2> QED
      BY <2>1, <1>1, <1>2, <1>3, <1>7, <1>8, <1>12, SameNumbers DEF Followed
  <1>18. Nested' /\ FromEntry' /\ ImportsFirst'
    <2>1. Nested'
      BY <1>2, <1>3, <1>7, <1>8, <1>13, <1>14 DEF Nested
    <2>2. FromEntry'
      BY <1>2, <1>12, <1>14 DEF FromEntry, Known
    <2>3. ImportsFirst'
      BY <1>1, <1>13 DEF ResolverInv, ImportsFirst
    <2> QED
      BY <2>1, <2>2, <2>3
  <1>19. Merged'
    <2>1. \A f : \A k \in Nat : Past(f, k) => Past(f, k)'
      <3> SUFFICES ASSUME NEW f, NEW k \in Nat, f \notin ResolvedFiles,
                          NEW i \in 1 .. n, stack[i].file = f, k < stack[i].decl
                   PROVE  k < stack'[i].decl /\ stack'[i].file = f
        BY <1>3, <1>7, <1>12 DEF Past
      <3>1. stack[i].decl \in Nat
        BY <1>4 DEF Frames
      <3> QED
        BY <3>1, <1>8
    <2>2. PICK tf, td : tf = Top.file /\ td = Top.decl
      OBVIOUS
    <2>3. Past(tf, td)'
      <3>1. stack'[n].file = tf /\ td < stack'[n].decl
        BY <2>2, <1>3, <1>8, <1>9
      <3>2. n \in DOMAIN stack'
        BY <1>3, <1>7
      <3> QED
        BY <3>1, <3>2 DEF Past
    <2>4. tf \in Known' /\ td \in DOMAIN DeclsOf(tf) /\ d = DeclsOf(tf)[td]
      BY <2>2, <1>9, <1>11, <1>12 DEF Known, d
    <2>5. \A f \in Known : f \in Known' /\ DOMAIN DeclsOf(f) \subseteq Nat
      <3>1. Known \subseteq Reach({Entry}) /\ Reach({Entry}) \subseteq Files
        BY <1>2, ReachFinite DEF FromEntry
      <3>2. \A f \in Files : DeclsOf(f) \in Seq(Decls \union {SynthMain})
        BY <1>2, DeclsType DEF Typed
      <3>3. \A f \in Files : DOMAIN DeclsOf(f) \subseteq Nat
        BY <3>2
      <3> QED
        BY <3>1, <3>3, <1>12 DEF Known
    <2> SUFFICES ASSUME NEW m \in DOMAIN merged'
                 PROVE  \E f \in Known' : \E k \in DOMAIN DeclsOf(f) :
                          Past(f, k)' /\ merged'[m] = DeclsOf(f)[k]
      BY <1>13 DEF Merged
    <2>6. (m \in DOMAIN merged /\ merged'[m] = merged[m]) \/ merged'[m] = d
      BY <1>1, <1>2 DEF Typed
    <2>7. CASE m \in DOMAIN merged /\ merged'[m] = merged[m]
      <3>1. PICK f \in Known : \E k \in DOMAIN DeclsOf(f) : Past(f, k) /\ merged[m] = DeclsOf(f)[k]
        BY <2>7 DEF ResolverInv, Merged
      <3> QED
        BY <3>1, <2>1, <2>5, <2>7
    <2>8. CASE merged'[m] = d
      BY <2>3, <2>4, <2>8
    <2> QED
      BY <2>6, <2>7, <2>8
  <1>20. Reports'
    BY <1>1, <1>13, <1>14 DEF ResolverInv, Reports, FitsArrays, DuplicateReal
  <1> QED
    BY <1>15, <1>16, <1>17, <1>18, <1>19, <1>20 DEF ResolverInv

(* A file is left: it is resolved and its frame is gone.                   *)
Popped ==
  /\ resolved' = Append(resolved, Top.file)
  /\ stack' = SubSeq(stack, 1, Len(stack) - 1)
  /\ status' = IF Len(stack) = 1 THEN "done" ELSE status
  /\ UNCHANGED <<source, merged>>

LEMMA LeaveKeeps ==
  ASSUME ResolverInv, Leaving, Popped
  PROVE  ResolverInv'
  <1>0. source' = source /\ merged' = merged
    BY DEF Popped
  <1> DEFINE n == Len(stack)
             m == Len(resolved)
  <1>1. status = "resolving" /\ stack # << >>
    BY DEF Leaving
  <1>2. Typed /\ Bottom /\ OnceEach /\ Followed /\ Nested /\ FromEntry /\ ImportsFirst
    BY DEF ResolverInv
  <1>3. stack \in Seq(Frames) /\ n \in Nat \ {0} /\ DOMAIN stack = 1 .. n
    BY <1>1, <1>2 DEF Typed
  <1>4. \A i \in 1 .. n : stack[i] \in Frames
    BY <1>3
  <1>5. PICK top : top = Top.file
    OBVIOUS
  <1>6. Top = stack[n] /\ top \in Files /\ top = stack[n].file /\ stack[n].import \in Nat
    <2>1. stack[n] \in Frames
      BY <1>3, <1>4
    <2>2. Top = stack[n]
      BY DEF Top
    <2> QED
      BY <2>1, <2>2, <1>5 DEF Frames
  <1>7. /\ stack' \in Seq(Frames) /\ Len(stack') = n - 1 /\ DOMAIN stack' = 1 .. n - 1
        /\ \A i \in 1 .. n - 1 : stack'[i] = stack[i]
    BY <1>3 DEF Popped
  <1>8. /\ resolved \in Seq(Files) /\ m \in Nat /\ DOMAIN resolved = 1 .. m
        /\ resolved' \in Seq(Files) /\ DOMAIN resolved' = 1 .. m + 1
        /\ \A i \in 1 .. m : resolved'[i] = resolved[i]
        /\ resolved'[m + 1] = top
    BY <1>2, <1>5, <1>6 DEF Typed, Popped
  <1>9. status' = IF n = 1 THEN "done" ELSE "resolving"
    BY <1>1 DEF Popped
  <1>10. Len(stack) = n
    OBVIOUS
  <1> HIDE DEF n, m
  <1>11. (1 .. n) = (1 .. n - 1) \union {n} /\ (1 .. m + 1) = (1 .. m) \union {m + 1}
    BY <1>3, <1>8
  <1>12. StackFiles = StackFiles' \union {top} /\ top \notin StackFiles'
    <2>1. StackFiles = {stack[i].file : i \in 1 .. n}
      BY <1>3 DEF StackFiles
    <2>2. StackFiles' = {stack[i].file : i \in 1 .. n - 1}
      BY <1>7 DEF StackFiles
    <2>3. \A i \in 1 .. n - 1 : stack[i].file # top
      BY <1>2, <1>3, <1>6 DEF OnceEach
    <2> QED
      BY <2>1, <2>2, <2>3, <1>6, <1>11
  <1>13. ResolvedFiles' = ResolvedFiles \union {top} /\ top \notin ResolvedFiles
    <2>1. ResolvedFiles = {resolved[i] : i \in 1 .. m}
      BY <1>8 DEF ResolvedFiles
    <2>2. ResolvedFiles' = {resolved'[i] : i \in 1 .. m + 1}
      BY <1>8 DEF ResolvedFiles
    <2>3. top \notin ResolvedFiles
      BY <1>2, <1>12 DEF OnceEach
    <2> QED
      BY <2>1, <2>2, <2>3, <1>8, <1>11
  <1>14. Known' = Known
    BY <1>12, <1>13 DEF Known
  <1>15. \A f : Imports(f)' = Imports(f) /\ DeclsOf(f)' = DeclsOf(f)
    BY <1>0, SameImports, SameDecls
  <1>16. \A S : Reach(S)' = Reach(S)
    BY <1>0, SameReach
  <1>17. Typed'
    BY <1>0, <1>2, <1>7, <1>8, <1>9 DEF Typed
  <1>18. Bottom'
    <2>1. CASE n = 1
      BY <2>1, <1>1, <1>2, <1>6, <1>7, <1>9, <1>13 DEF Bottom
    <2>2. CASE n # 1
      <3>1. n - 1 \in Nat \ {0} /\ 1 \in 1 .. n - 1
        BY <2>2, <1>3
      <3> QED
        BY <2>2, <3>1, <1>1, <1>2, <1>7, <1>9 DEF Bottom
    <2> QED
      BY <2>1, <2>2
  <1>19. OnceEach'
    <2>1. \A i, j \in DOMAIN stack' : stack'[i].file = stack'[j].file => i = j
      BY <1>2, <1>3, <1>7, <1>11 DEF OnceEach
    <2>2. \A i, j \in DOMAIN resolved' : resolved'[i] = resolved'[j] => i = j
      <3>1. \A i, j \in 1 .. m : resolved'[i] = resolved'[j] => i = j
        BY <1>2, <1>8 DEF OnceEach
      <3>2. \A i \in 1 .. m : resolved'[i] # top
        BY <1>8, <1>13 DEF ResolvedFiles
      <3> QED
        BY <3>1, <3>2, <1>8, <1>11
    <2> QED
      BY <2>1, <2>2, <1>2, <1>12, <1>13 DEF OnceEach
  <1>20. Followed'
    <2> SUFFICES ASSUME NEW i \in 1 .. n - 1, NEW k \in Numbers(stack'[i].file),
                        k < stack'[i].import
                 PROVE  \/ Led(stack'[i].file, k) \in ResolvedFiles'
                        \/ /\ i < n - 1 /\ k = stack'[i].import - 1
                           /\ Led(stack'[i].file, k) = stack'[i + 1].file
      BY <1>0, <1>7, SameNumbers DEF Followed
    <2>0. stack'[i] = stack[i]
      BY <1>7
    <2>1. \/ Led(stack[i].file, k) \in ResolvedFiles
          \/ /\ i < n /\ k = stack[i].import - 1
             /\ Led(stack[i].file, k) = stack[i + 1].file
      BY <2>0, <1>2, <1>3, <1>10, <1>11 DEF Followed
    <2>2. CASE i = n - 1
      BY <2>0, <2>1, <2>2, <1>3, <1>6, <1>13
    <2>3. CASE i < n - 1
      <3>1. stack'[i + 1] = stack[i + 1]
        BY <2>3, <1>3, <1>7
      <3> QED
        BY <2>0, <2>1, <2>3, <3>1, <1>13
    <2> QED
      BY <2>2, <2>3, <1>3
  <1>21. Nested'
    BY <1>2, <1>3, <1>7, <1>11, <1>15, <1>16 DEF Nested
  <1>22. FromEntry'
    BY <1>2, <1>14, <1>16 DEF FromEntry
  <1>23. ImportsFirst'
    <2>1. \A g \in Imports(top) : g \in ResolvedFiles
      <3> SUFFICES ASSUME NEW k \in Numbers(top) PROVE Led(top, k) \in ResolvedFiles
        BY <1>2, <1>6, NumbersType DEF Typed
      <3>1. source[top].imports \in Seq(Paths)
        BY <1>2, <1>6, NumbersType DEF Typed
      <3>2. k < stack[n].import
        BY <3>1, <1>5, <1>6 DEF Leaving, Numbers
      <3> QED
        BY <3>2, <1>2, <1>3, <1>6, <1>10 DEF Followed
    <2>2. \A g \in ResolvedFiles : \E j \in 1 .. m : resolved'[j] = g
      BY <1>8 DEF ResolvedFiles
    <2> SUFFICES ASSUME NEW i \in 1 .. m + 1, NEW g \in Imports(resolved'[i])
                 PROVE  \E j \in 1 .. i - 1 : resolved'[j] = g
      BY <1>8, <1>15 DEF ImportsFirst
    <2>3. CASE i = m + 1
      <3>1. \E j \in 1 .. m : resolved'[j] = g
        BY <2>1, <2>2, <2>3, <1>8
      <3> QED
        BY <2>3, <3>1, <1>8
    <2>4. CASE i \in 1 .. m
      <3>1. \E j \in 1 .. i - 1 : resolved[j] = g
        BY <2>4, <1>2, <1>8 DEF ImportsFirst
      <3>2. \A j \in 1 .. i - 1 : j \in 1 .. m
        BY <2>4, <1>8
      <3> QED
        BY <3>1, <3>2, <1>8
    <2> QED
      BY <2>3, <2>4, <1>11
  <1>24. Merged'
    <2>1. \A f, k : Past(f, k) => Past(f, k)'
      <3> SUFFICES ASSUME NEW f, NEW k, Past(f, k) PROVE Past(f, k)'
        OBVIOUS
      <3>1. CASE f \in ResolvedFiles
        BY <3>1, <1>13 DEF Past
      <3>2. CASE f \notin ResolvedFiles
        <4>1. PICK i \in 1 .. n : stack[i].file = f /\ k < stack[i].decl
          BY <3>2, <1>3 DEF Past
        <4>2. CASE i = n
          BY <4>1, <4>2, <1>6, <1>13 DEF Past
        <4>3. CASE i \in 1 .. n - 1
          BY <4>1, <4>3, <1>7 DEF Past
        <4> QED
          BY <4>2, <4>3, <1>11
      <3> QED
        BY <3>1, <3>2
    <2> QED
      BY <2>1, <1>0, <1>14, <1>15 DEF ResolverInv, Merged
  <1>25. Reports'
    BY <1>9 DEF Reports, FitsArrays, DuplicateReal
  <1> QED
    BY <1>17, <1>18, <1>19, <1>20, <1>21, <1>22, <1>23, <1>24, <1>25 DEF ResolverInv

-----------------------------------------------------------------------------
(* A sequence of distinct elements is no longer than the set they are in.  *)
LEMMA Distinct ==
  ASSUME NEW T, IsFiniteSet(T), NEW n \in Nat, NEW h \in [1 .. n -> T],
         \A i, j \in 1 .. n : h[i] = h[j] => i = j
  PROVE  n <= Cardinality(T)
  <1>1. h \in Injection(1 .. n, T)
    BY DEF Injection, IsInjective
  <1>2. Cardinality(1 .. n) <= Cardinality(T)
    BY <1>1, FS_Injection
  <1>3. Cardinality(1 .. n) = n
    BY FS_Interval
  <1> QED
    BY <1>2, <1>3

(* So is a sequence of distinct files and one more file, which is what the *)
(* arrays hold when an entry is added.                                     *)
LEMMA OneMore ==
  ASSUME NEW T, IsFiniteSet(T), NEW n \in Nat, NEW h \in [1 .. n -> T],
         \A i, j \in 1 .. n : h[i] = h[j] => i = j,
         NEW f \in T, \A i \in 1 .. n : h[i] # f
  PROVE  n < Cardinality(T)
  <1> DEFINE g == [i \in 1 .. n + 1 |-> IF i = n + 1 THEN f ELSE h[i]]
  <1>1. \A i \in 1 .. n + 1 : i = n + 1 \/ i \in 1 .. n
    OBVIOUS
  <1>2. g \in [1 .. n + 1 -> T]
    BY <1>1
  <1>3. \A i, j \in 1 .. n + 1 : g[i] = g[j] => i = j
    BY <1>1
  <1> HIDE DEF g
  <1>4. n + 1 <= Cardinality(T)
    BY <1>2, <1>3, Distinct
  <1> QED
    BY <1>4, FS_CardinalityType

(* Entering a file keeps the invariant, whatever reading it yields.        *)
LEMMA EnterKeeps ==
  ASSUME ResolverInv, NEW f \in Files, NEW frames, Enter(f, frames), status = "resolving",
         \/ stack = << >> /\ frames = << >> /\ f = Entry
         \/ /\ Importing /\ frames = NextImport /\ f = Target
            /\ Target # Missing /\ ~find_in_stack(f) /\ ~is_already_resolved(f)
  PROVE  ResolverInv'
  <1>1. CASE Len(frames) >= Limit /\ Fail("overrun")
    <2> DEFINE n == Len(stack)
               h == [i \in 1 .. n |-> stack[i].file]
    <2>1. Typed /\ OnceEach /\ FromEntry
      BY DEF ResolverInv
    <2>2. n \in Nat /\ DOMAIN stack = 1 .. n
      BY <2>1 DEF Typed
    <2>3. Len(frames) = n
      <3>1. CASE stack = << >> /\ frames = << >>
        BY <3>1
      <3>2. CASE Importing /\ frames = NextImport
        BY <3>2, <2>1, Advanced DEF Importing
      <3> QED
        BY <3>1, <3>2
    <2> HIDE DEF n
    <2>4. f \in Reach({Entry})
      BY TargetIs, ReachContains, FilesAssumption
    <2>5. \A i \in 1 .. n : stack[i].file \in StackFiles
      BY <2>2 DEF StackFiles
    <2>6. h \in [1 .. n -> Reach({Entry})]
      BY <2>1, <2>5 DEF FromEntry, Known
    <2>7. \A i, j \in 1 .. n : h[i] = h[j] => i = j
      BY <2>1, <2>2 DEF OnceEach
    <2>8. \A i \in 1 .. n : h[i] # f
      BY <2>2, <2>5 DEF find_in_stack, n
    <2> HIDE DEF h
    <2>9. n < Cardinality(Reach({Entry})) /\ Cardinality(Reach({Entry})) \in Nat
      BY <2>2, <2>4, <2>6, <2>7, <2>8, OneMore, ReachFinite, FS_CardinalityType
    <2>10. Cardinality(Reach({Entry})) > Limit
      BY <1>1, <2>2, <2>3, <2>9, LimitAssumption
    <2> QED
      BY <1>1, <2>10, FailKeeps DEF Errors
  <1>2. CASE Refusal(f, frames # << >>) # "ok" /\ Fail(Refusal(f, frames # << >>))
    <2>1. PICK why : why = Refusal(f, frames # << >>)
      OBVIOUS
    <2>2. source[f].health \in {"ok", "unreadable", "syntax"}
      BY FilesAssumption DEF ResolverInv, Typed, Source
    <2>3. why \in {"ok", "unreadable", "syntax", "statements", "mixed"}
      BY <2>1, <2>2, Zenon DEF Refusal
    <2>4. why \in Errors /\ why # "circular" /\ why # "overrun" /\ why # "duplicate"
      BY <1>2, <2>1, <2>3 DEF Errors
    <2>5. Fail(why)
      BY <1>2, <2>1 DEF Fail
    <2> QED
      BY <2>4, <2>5, FailKeeps
  <1>3. CASE stack' = Append(frames, Frame(f)) /\ UNCHANGED <<source, resolved, merged, status>>
    BY <1>3, PushKeeps
  <1> QED
    BY <1>1, <1>2, <1>3 DEF Enter

(* The array of resolved files is full when a file is left: together with  *)
(* the file there are more files than entries.                             *)
LEMMA LeaveOverrun ==
  ASSUME ResolverInv, Leaving, Len(resolved) >= Limit
  PROVE  Cardinality(Reach({Entry})) > Limit
  <1> DEFINE m == Len(resolved)
  <1>1. Typed /\ OnceEach /\ FromEntry
    BY DEF ResolverInv
  <1>2. m \in Nat /\ DOMAIN resolved = 1 .. m /\ resolved \in [1 .. m -> Files]
    BY <1>1 DEF Typed
  <1>3. Top.file \in StackFiles
    <2>1. Len(stack) \in DOMAIN stack
      BY <1>1 DEF Typed, Leaving
    <2> QED
      BY <2>1 DEF Top, StackFiles
  <1>4. \A i \in 1 .. m : resolved[i] \in ResolvedFiles
    BY <1>2 DEF ResolvedFiles
  <1>5. resolved \in [1 .. m -> Reach({Entry})]
    BY <1>1, <1>2, <1>4 DEF FromEntry, Known
  <1>6. \A i, j \in 1 .. m : resolved[i] = resolved[j] => i = j
    BY <1>1, <1>2 DEF OnceEach
  <1>7. Top.file \in Reach({Entry}) /\ \A i \in 1 .. m : resolved[i] # Top.file
    BY <1>1, <1>3, <1>4 DEF FromEntry, Known, OnceEach
  <1>8. m >= Limit
    OBVIOUS
  <1> HIDE DEF m
  <1>9. m < Cardinality(Reach({Entry})) /\ Cardinality(Reach({Entry})) \in Nat
    BY <1>2, <1>5, <1>6, <1>7, OneMore, ReachFinite, FS_CardinalityType
  <1> QED
    BY <1>2, <1>8, <1>9, LimitAssumption

(* A cycle that is reported is one: the target is an open file, and every  *)
(* open file leads to the frames above it.                                 *)
LEMMA CircularReal ==
  ASSUME ResolverInv, ImportCircular
  PROVE  \E f \in Reach({Entry}) : f \in Reach(Imports(f))
  <1>1. Importing /\ Target # Missing /\ Target \in StackFiles
    BY DEF ImportCircular, find_in_stack
  <1>2. Typed /\ Nested
    BY DEF ResolverInv
  <1>3. /\ Target \in Imports(Top.file) /\ Target \in Files /\ Top.file \in Files
        /\ Target \in Reach({Entry})
    BY <1>1, TargetIs
  <1>4. PICK i \in DOMAIN stack : stack[i].file = Target
    BY <1>1 DEF StackFiles
  <1>5. Target \in Reach(Imports(Target))
    <2>1. Len(stack) \in DOMAIN stack /\ DOMAIN stack = 1 .. Len(stack) /\ Len(stack) \in Nat
      BY <1>1, <1>2 DEF Typed, Importing
    <2>2. CASE i = Len(stack)
      BY <2>2, <1>2, <1>3, <1>4, ImportsType, ReachContains DEF Typed, Top
    <2>3. CASE i < Len(stack)
      <3>1. Top.file \in Reach(Imports(Target))
        BY <2>1, <2>3, <1>2, <1>4 DEF Nested, Top
      <3> QED
        BY <3>1, <1>2, <1>3, ReachClosed DEF Typed
    <2> QED
      BY <2>1, <2>2, <2>3
  <1> QED
    BY <1>3, <1>5

(* A duplicate that is reported is one: the declaration that clashes was   *)
(* merged before, so it is another one.                                    *)
LEMMA DuplicateIsReal ==
  ASSUME ResolverInv, MergeDuplicate
  PROVE  \E f, g \in Reach({Entry}) :
           \E i \in DOMAIN DeclsOf(f), j \in DOMAIN DeclsOf(g) :
             /\ <<f, i>> # <<g, j>>
             /\ DeclsOf(f)[i].name = DeclsOf(g)[j].name
             /\ DeclsOf(f)[i].kind \in Compared(DeclsOf(g)[j].kind)
  <1>1. Typed /\ OnceEach /\ FromEntry /\ Merged
    BY DEF ResolverInv
  <1> DEFINE n == Len(stack)
             d == DeclsOf(Top.file)[Top.decl]
  <1>2. n \in DOMAIN stack /\ stack[n] \in Frames /\ Top = stack[n]
    BY <1>1 DEF Typed, MergeDuplicate, Merging, Top
  <1>3. Top.file \in Files /\ Top.decl \in Nat \ {0} /\ Top.file \in StackFiles
    BY <1>2 DEF Frames, StackFiles
  <1> HIDE DEF n
  <1>4. DeclsOf(Top.file) \in Seq(Decls \union {SynthMain})
    BY <1>1, <1>3, DeclsType DEF Typed
  <1>5. Top.decl \in DOMAIN DeclsOf(Top.file)
    BY <1>3, <1>4 DEF MergeDuplicate, Merging
  <1>6. PICK m \in DOMAIN merged : merged[m].kind \in Compared(d.kind) /\ merged[m].name = d.name
    BY DEF MergeDuplicate, Clashes
  <1>7. PICK f \in Known : \E k \in DOMAIN DeclsOf(f) : Past(f, k) /\ merged[m] = DeclsOf(f)[k]
    BY <1>1 DEF Merged
  <1>8. PICK k \in DOMAIN DeclsOf(f) : Past(f, k) /\ merged[m] = DeclsOf(f)[k]
    BY <1>7
  <1>9. ~ (f = Top.file /\ k = Top.decl)
    <2> SUFFICES ASSUME f = Top.file, k = Top.decl PROVE FALSE
      OBVIOUS
    <2>1. f \notin ResolvedFiles
      BY <1>1, <1>3 DEF OnceEach
    <2>2. PICK i \in DOMAIN stack : stack[i].file = f /\ k < stack[i].decl
      BY <1>8, <2>1 DEF Past
    <2>3. i = n
      BY <2>2, <1>1, <1>2 DEF OnceEach
    <2> QED
      BY <2>2, <2>3, <1>2, <1>3
  <1>10. f \in Reach({Entry}) /\ Top.file \in Reach({Entry})
    BY <1>1, <1>3 DEF FromEntry, Known
  <1>11. PICK g, j : g = Top.file /\ j = Top.decl
    OBVIOUS
  <1>12. /\ g \in Reach({Entry}) /\ j \in DOMAIN DeclsOf(g) /\ <<f, k>> # <<g, j>>
         /\ DeclsOf(f)[k].name = DeclsOf(g)[j].name
         /\ DeclsOf(f)[k].kind \in Compared(DeclsOf(g)[j].kind)
    BY <1>5, <1>6, <1>8, <1>9, <1>10, <1>11
  <1> QED
    BY <1>8, <1>10, <1>12

LEMMA StutterKeeps == ResolverInv /\ UNCHANGED vars => ResolverInv'
  <1> SUFFICES ASSUME ResolverInv, UNCHANGED vars PROVE ResolverInv'
    OBVIOUS
  <1>1. UNCHANGED <<source, stack, resolved, merged, status>>
    BY DEF vars
  <1>2. \A f : Imports(f)' = Imports(f) /\ DeclsOf(f)' = DeclsOf(f)
    BY <1>1, SameImports, SameDecls
  <1>3. \A S : Reach(S)' = Reach(S)
    BY <1>1, SameReach
  <1>4. StackFiles' = StackFiles /\ ResolvedFiles' = ResolvedFiles
    BY <1>1 DEF StackFiles, ResolvedFiles
  <1>5. Typed' /\ Bottom' /\ OnceEach' /\ Followed'
    BY <1>1, <1>4, SameNumbers DEF ResolverInv, Typed, Bottom, OnceEach, Followed
  <1>6. Nested' /\ FromEntry' /\ ImportsFirst'
    BY <1>1, <1>2, <1>3, <1>4 DEF ResolverInv, Nested, FromEntry, Known, ImportsFirst
  <1>7. Merged'
    BY <1>1, <1>2, <1>4 DEF ResolverInv, Merged, Known, Past
  <1>8. Reports'
    BY <1>1, <1>2, <1>3 DEF ResolverInv, Reports, FitsArrays, DuplicateReal
  <1> QED
    BY <1>5, <1>6, <1>7, <1>8 DEF ResolverInv

LEMMA ResolverStep == ResolverInv /\ [Next]_vars => ResolverInv'
  <1> SUFFICES ASSUME ResolverInv, [Next]_vars PROVE ResolverInv'
    OBVIOUS
  <1>1. CASE Start
    BY <1>1, EnterKeeps, FilesAssumption DEF Start
  <1>2. CASE ImportMissing
    <2>1. Fail("missing")
      BY <1>2 DEF ImportMissing
    <2> QED
      BY <2>1, FailKeeps DEF Errors
  <1>3. CASE ImportCircular
    <2>1. Fail("circular")
      BY <1>3 DEF ImportCircular
    <2> QED
      BY <1>3, <2>1, CircularReal, FailKeeps DEF Errors
  <1>4. CASE ImportKnown
    BY <1>4, KnownKeeps
  <1>5. CASE ImportNew
    <2>1. /\ Importing /\ Target # Missing /\ status = "resolving"
          /\ ~find_in_stack(Target) /\ ~is_already_resolved(Target)
          /\ Enter(Target, NextImport)
      BY <1>5 DEF ImportNew, Importing
    <2>2. Target \in Files
      BY <2>1, TargetIs
    <2> QED
      BY <2>1, <2>2, EnterKeeps
  <1>6. CASE MergeDuplicate
    <2>1. Fail("duplicate")
      BY <1>6 DEF MergeDuplicate
    <2> QED
      BY <1>6, <2>1, DuplicateIsReal, FailKeeps DEF Errors
  <1>7. CASE MergeDecl
    BY <1>7, MergeKeeps
  <1>8. CASE Leave
    <2>1. CASE Len(resolved) >= Limit /\ Fail("overrun")
      BY <1>8, <2>1, LeaveOverrun, FailKeeps DEF Leave, Errors
    <2>2. CASE Popped
      BY <1>8, <2>2, LeaveKeeps DEF Leave
    <2> QED
      BY <1>8, <2>1, <2>2 DEF Leave, Popped
  <1>9. CASE UNCHANGED vars
    BY <1>9, StutterKeeps
  <1> QED
    BY <1>1, <1>2, <1>3, <1>4, <1>5, <1>6, <1>7, <1>8, <1>9 DEF Next

LEMMA ResolverAlways == Spec => []ResolverInv
  BY ResolverInit, ResolverStep, PTL DEF Spec

-----------------------------------------------------------------------------
(* Every variable keeps its type: the frames of resolve_file_rec point to  *)
(* files and count from 1, and only declarations are merged.               *)
THEOREM TypeCorrect == Spec => []TypeOK
  <1>1. ResolverInv => TypeOK
    <2> SUFFICES ASSUME Typed PROVE TypeOK
      BY DEF ResolverInv
    <2>1. \A i \in DOMAIN merged : merged[i] \in Decls \union {SynthMain}
      BY DEF Typed
    <2>2. \A i \in DOMAIN merged : merged[i].kind \in Kinds
      BY <2>1, FilesAssumption
    <2> QED
      BY <2>2 DEF Typed, TypeOK, Frames
  <1> QED
    BY <1>1, ResolverAlways, PTL

(* No file is merged twice or entered while it is open, in any graph of    *)
(* imports (find_in_stack, is_already_resolved).                           *)
THEOREM EachOnce == Spec => []OnceEach
  <1>1. ResolverInv => OnceEach
    BY DEF ResolverInv
  <1> QED
    BY <1>1, ResolverAlways, PTL

(* A file is merged after everything it imports (the order of the import   *)
(* loop and the merge in resolve_file_rec).                                *)
THEOREM ImportsBefore == Spec => []ImportsFirst
  <1>1. ResolverInv => ImportsFirst
    BY DEF ResolverInv
  <1> QED
    BY <1>1, ResolverAlways, PTL

(* The cycle report is exact: it is made only when the program has a       *)
(* cycle, and a program that is resolved has none and is complete.         *)
THEOREM CyclesExact == Spec => []CircularExact
  <1>1. ResolverInv => CircularExact
    <2> SUFFICES ASSUME ResolverInv PROVE CircularExact
      OBVIOUS
    <2>1. Typed /\ Bottom /\ OnceEach /\ FromEntry /\ ImportsFirst /\ Reports
      BY DEF ResolverInv
    <2>2. resolved \in Seq(Files) /\ DOMAIN resolved = 1 .. Len(resolved) /\ Len(resolved) \in Nat
      BY <2>1 DEF Typed
    <2>3. status = "done" => ResolvedFiles = Reach({Entry})
      <3>1. ResolvedFiles \subseteq Reach({Entry}) /\ ResolvedFiles \subseteq Files
        BY <2>1, ReachFinite DEF FromEntry, Known
      <3>2. Closed(ResolvedFiles)
        <4> SUFFICES ASSUME NEW i \in DOMAIN resolved, NEW g \in Imports(resolved[i])
                     PROVE  g \in ResolvedFiles
          BY DEF Closed, ResolvedFiles
        <4>1. PICK j \in 1 .. i - 1 : resolved[j] = g
          BY <2>1 DEF ImportsFirst
        <4>2. j \in DOMAIN resolved
          BY <2>2
        <4> QED
          BY <4>1, <4>2 DEF ResolvedFiles
      <3>3. status = "done" => {Entry} \subseteq ResolvedFiles
        BY <2>1 DEF Bottom
      <3> QED
        BY <3>1, <3>2, <3>3, ReachLeast
    <2>4. \A f \in ResolvedFiles : f \notin Reach(Imports(f))
      <3> SUFFICES ASSUME NEW i \in DOMAIN resolved
                   PROVE  resolved[i] \notin Reach(Imports(resolved[i]))
        BY DEF ResolvedFiles
      <3> DEFINE T == {resolved[j] : j \in 1 .. i - 1}
      <3>1. 1 .. i - 1 \subseteq DOMAIN resolved /\ i \in Nat
        BY <2>2
      <3>2. T \subseteq Files
        BY <2>2, <3>1
      <3>3. Imports(resolved[i]) \subseteq T
        BY <2>1 DEF ImportsFirst
      <3>4. Closed(T)
        <4> SUFFICES ASSUME NEW j \in 1 .. i - 1, NEW g \in Imports(resolved[j])
                     PROVE  g \in T
          BY DEF Closed
        <4>1. PICK k \in 1 .. j - 1 : resolved[k] = g
          BY <2>1, <3>1 DEF ImportsFirst
        <4>2. k \in 1 .. i - 1
          BY <3>1
        <4> QED
          BY <4>1, <4>2
      <3>5. resolved[i] \notin T
        <4>1. \A j \in 1 .. i - 1 : j # i
          BY <3>1
        <4> QED
          BY <4>1, <2>1, <3>1 DEF OnceEach
      <3> HIDE DEF T
      <3>6. Reach(Imports(resolved[i])) \subseteq T
        BY <3>2, <3>3, <3>4, ReachLeast
      <3> QED
        BY <3>5, <3>6
    <2> QED
      BY <2>1, <2>3, <2>4 DEF CircularExact, Reports
  <1> QED
    BY <1>1, ResolverAlways, PTL

(* The two arrays of 128 entries, which are filled without a test, are     *)
(* overrun only by a program of more files than entries.                   *)
THEOREM ArraysFit == Spec => []FitsArrays
  <1>1. ResolverInv => FitsArrays
    BY DEF ResolverInv, Reports
  <1> QED
    BY <1>1, ResolverAlways, PTL

(* A duplicate declaration is reported only when the program has two       *)
(* declarations that clash (Clashes, in the check_and_add functions).      *)
THEOREM DuplicatesReal == Spec => []DuplicateReal
  <1>1. ResolverInv => DuplicateReal
    BY DEF ResolverInv, Reports
  <1> QED
    BY <1>1, ResolverAlways, PTL
=============================================================================
