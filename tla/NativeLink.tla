----------------------------- MODULE NativeLink -----------------------------
(***************************************************************************)
(* From instruction lists to an executable: the object files that          *)
(* x86_64_emit_object_file_timed and elf64_write_object_file make of the   *)
(* units of a program, and the static linker (x86_64_link.c) that puts     *)
(* them together, with the built-in startup object when it is needed.      *)
(* A byte of read-only data is tagged with the unit and the constant it    *)
(* belongs to; a byte of code is its value.                                *)
(***************************************************************************)
EXTENDS X86Decode, FiniteSets

CONSTANTS
    Programs,       \* sequences of units to compile and link
    PageSize        \* PAGE_SIZE

BaseVaddr == 4194304                        \* BASE_VADDR
TextVaddr == BaseVaddr + PageSize           \* TEXT_VADDR_BASE
HeaderSize(segments) == 64 + 56 * segments  \* Elf64_Ehdr, Elf64_Phdr

\* The headers fit in the page in front of the code, and a page starts at
\* the base address.
ASSUME PageAssumption ==
    /\ PageSize \in Nat /\ PageSize % 16 = 0 /\ PageSize >= HeaderSize(4)
    /\ BaseVaddr % PageSize = 0

\* A program has a unit; a constant has a name and bytes; a function is a
\* list of emitted instructions that are not all labels, and nothing is
\* called or read by the name of the section.
IsList(s) == Len(s) \in Nat /\ DOMAIN s = 1 .. Len(s)
IsFunction(fn) ==
    /\ fn.name \in STRING /\ IsList(fn.list)
    /\ \A k \in DOMAIN fn.list :
           Emitted(fn.list[k]) /\ (IsRelocated(fn.list[k]) => fn.list[k].src.symbol # ".rodata")
    /\ \E k \in DOMAIN fn.list : fn.list[k].op # "label"
IsUnit(unit) ==
    /\ IsList(unit.functions) /\ \A f \in DOMAIN unit.functions : IsFunction(unit.functions[f])
    /\ unit.strings \in Seq(STRING \X (Nat \ {0}))
    /\ unit.floats \in Seq(STRING \X (Nat \ {0}))
ASSUME ProgramsAssumption ==
    \A p \in Programs : IsList(p) /\ Len(p) > 0 /\ \A i \in DOMAIN p : IsUnit(p[i])

VARIABLES
    units,          \* the program
    stage,          \* what the compiler or the linker does next
    at,             \* the function or the object it is at
    item,           \* the constant, instruction, symbol or relocation it is at
    rodata,         \* rodata_buf of the unit being compiled
    rodata_map,     \* its constants and their offsets
    text,           \* text_buf of the unit
    relocs,         \* text_relocs
    symbols,        \* the functions of the unit and what it needs from others
    fn_start_pc,    \* where the current function starts
    pc,             \* the offset both passes over a function count
    labels,         \* the labels that pass 1 has found
    symtab_entries, \* symbol table of the object file
    objects,        \* the object files written or built in
    symtab,         \* GlobalSymTable of the linker
    image,          \* merged sections and where each object's part lies
    error           \* why the link failed

data == <<rodata, rodata_map>>
code == <<text, relocs, fn_start_pc, pc, labels>>
linker == <<symtab, image, error>>
vars == <<units, stage, at, item, data, code, symbols, symtab_entries, objects, linker>>

align_to(v, align) == ((v + align - 1) \div align) * align

(* -------------------------------------------------------- read-only data *)
\* The constants every object has, with their sizes.
FixedData == << <<"LC_neg_float_mask", 16>>, <<"LC_fmt_int", 5>>, <<"LC_fmt_float", 4>>,
                <<"LC_fmt_str", 4>>, <<"LC_str_true", 5>>, <<"LC_str_false", 6>> >>
Padding(u) == <<u, "padding", 0>>
CellsOf(u, c) == [k \in 1 .. c[2] |-> <<u, c[1], k>>]
Pad(cells, align, cell) ==
    cells \o [k \in 1 .. align_to(Len(cells), align) - Len(cells) |-> cell]

Constants(unit) == FixedData \o unit.strings \o unit.floats
RodataNames(unit) == {Constants(unit)[k][1] : k \in DOMAIN Constants(unit)}

(* ---------------------------------------------------- the symbol table *)
\* The null, file and section symbols, then the defined and then the
\* undefined ones.
Sym(name, bind, type, section, value) ==
    [name |-> name, bind |-> bind, type |-> type, section |-> section, value |-> value]
LocalSyms == <<Sym("", "local", "notype", "undef", 0), Sym("program.cco", "local", "file", "abs", 0),
               Sym("", "local", "section", "rodata", 0)>>
GlobalSym(s) == IF s.defined THEN Sym(s.name, "global", "func", "text", s.value)
                             ELSE Sym(s.name, "global", "notype", "undef", 0)

\* A relocation names its symbol by index, 0 when there is none.
Globals(syms) == SubSeq(syms, 4, Len(syms))
SymIndex(syms, name) ==
    IF name = ".rodata" THEN 2
    ELSE IF Named(Globals(syms), name) THEN Find(Globals(syms), name) + 2 ELSE 0

\* The startup object as the linker sees it: _start calls main and goes on
\* into exit.
Plain(name) == [name |-> name, list |-> <<Instr("ret", NoOperand, NoOperand)>>]
StartupUnit ==
    [functions |->
        <<[name |-> "_start",
           list |-> <<Instr("lea", MemBase(RSP, Extended(<<8>>, 8), 8), Register(6, 8)),
                      Instr("call", Symbol("main"), NoOperand),
                      Instr("mov", Register(0, 8), Register(7, 8))>>],
          [name |-> "exit", list |-> <<Instr("mov", Immediate(Extended(<<60>>, 8), 8), Register(0, 8))>>],
          Plain("malloc"), Plain("free"), Plain("printf")>>,
     strings |-> << >>, floats |-> << >>]
StartupText ==
    <<72, 141, 116, 36, 8, 232, 0, 0, 0, 0, 72, 137, 199, 72, 199, 192, 60, 0, 0, 0, 195, 195, 195>>
StartupSymbols ==
    LET function(name, value) == [name |-> name, value |-> value, defined |-> TRUE]
    IN  <<function("_start", 0), function("exit", 13), function("malloc", 20), function("free", 21),
          function("printf", 22), [name |-> "main", value |-> 0, defined |-> FALSE]>>
StartupObject ==
    [text |-> StartupText, rodata |-> << >>,
     syms |-> LocalSyms \o [k \in DOMAIN StartupSymbols |-> GlobalSym(StartupSymbols[k])],
     relas |-> <<[offset |-> 6, sym |-> 8, type |-> "PLT32", addend |-> -4]>>]

(* ------------------------------------------------------- compiling a unit *)
Init ==
    /\ units \in Programs
    /\ stage = "strings" /\ at = 1 /\ item = 1
    /\ rodata = << >> /\ rodata_map = << >>
    /\ text = << >> /\ relocs = << >> /\ fn_start_pc = 0 /\ pc = 0 /\ labels = << >>
    /\ symbols = << >> /\ symtab_entries = LocalSyms
    /\ objects = << >>
    /\ symtab = << >>
    /\ image = [text |-> << >>, rodata |-> << >>, textOff |-> << >>, rodataOff |-> << >>, entry |-> 0]
    /\ error = "none"

CurrentUnit == units[Len(objects) + 1]
CurrentList == CurrentUnit.functions[at].list
NextItem == item' = item + 1 /\ UNCHANGED at
Stage(next) == stage' = next /\ item' = 1

\* ADD_RODATA_SYM
AddConstant(c) ==
    /\ rodata' = rodata \o CellsOf(Len(objects) + 1, c)
    /\ rodata_map' = Append(rodata_map, [name |-> c[1], offset |-> Len(rodata)])
    /\ NextItem
    /\ UNCHANGED <<units, stage, code, symbols, symtab_entries, objects, linker>>

AddString ==
    /\ stage = "strings" /\ item <= Len(FixedData \o CurrentUnit.strings)
    /\ AddConstant((FixedData \o CurrentUnit.strings)[item])

\* The floats start at a multiple of 8.
AlignFloats ==
    /\ stage = "strings" /\ item > Len(FixedData \o CurrentUnit.strings)
    /\ rodata' = Pad(rodata, 8, Padding(Len(objects) + 1))
    /\ Stage("floats")
    /\ UNCHANGED <<units, at, rodata_map, code, symbols, symtab_entries, objects, linker>>

AddFloat ==
    /\ stage = "floats" /\ item <= Len(CurrentUnit.floats)
    /\ AddConstant(CurrentUnit.floats[item])

FloatsAdded ==
    /\ stage = "floats" /\ item > Len(CurrentUnit.floats)
    /\ Stage("measure")
    /\ UNCHANGED <<units, at, data, code, symbols, symtab_entries, objects, linker>>

\* Pass 1 over function at: the offsets of the labels.
MeasureInstruction ==
    /\ stage = "measure" /\ at <= Len(CurrentUnit.functions)
    /\ item <= Len(CurrentList)
    /\ LET x == CurrentList[item]
       IN  /\ labels' = IF x.op = "label" THEN Append(labels, [name |-> x.dst.symbol, offset |-> pc])
                                          ELSE labels
           /\ pc' = pc + Measured(x)
    /\ NextItem
    /\ UNCHANGED <<units, stage, data, text, relocs, fn_start_pc, symbols, symtab_entries, objects, linker>>

FunctionMeasured ==
    /\ stage = "measure" /\ at <= Len(CurrentUnit.functions)
    /\ item > Len(CurrentList)
    /\ pc' = Len(text)
    /\ Stage("encode")
    /\ UNCHANGED <<units, at, data, text, relocs, fn_start_pc, labels, symbols, symtab_entries, objects, linker>>

\* Pass 2: the bytes and the relocations.
EncodeInstruction ==
    /\ stage = "encode" /\ item <= Len(CurrentList)
    /\ LET x == CurrentList[item]
           written == Encoded(x, BranchField(x, labels, pc))
       IN  /\ text' = text \o written
           /\ relocs' = relocs \o RelocOf(x, pc)
           /\ pc' = pc + Len(written)
    /\ NextItem
    /\ UNCHANGED <<units, stage, data, fn_start_pc, labels, symbols, symtab_entries, objects, linker>>

FunctionEncoded ==
    /\ stage = "encode" /\ item > Len(CurrentList)
    /\ symbols' = Append(symbols, [name |-> CurrentUnit.functions[at].name,
                                  value |-> fn_start_pc, defined |-> TRUE])
    /\ fn_start_pc' = Len(text) /\ pc' = Len(text) /\ labels' = << >>
    /\ Stage("measure") /\ at' = at + 1
    /\ UNCHANGED <<units, data, text, relocs, symtab_entries, objects, linker>>

FunctionsEncoded ==
    /\ stage = "measure" /\ at > Len(CurrentUnit.functions)
    /\ Stage("resolve")
    /\ UNCHANGED <<units, at, data, code, symbols, symtab_entries, objects, linker>>

\* A relocation against a constant becomes one against the section; any
\* other symbol that is not known yet is external.
ResolveReloc ==
    /\ stage = "resolve" /\ item <= Len(relocs)
    /\ LET r == relocs[item]
       IN  IF Named(rodata_map, r.symbol)
             THEN /\ relocs' = [relocs EXCEPT ![item] =
                        [r EXCEPT !.symbol = ".rodata",
                                  !.addend = rodata_map[Find(rodata_map, r.symbol)].offset - 4]]
                  /\ UNCHANGED symbols
             ELSE /\ symbols' = IF Named(symbols, r.symbol) THEN symbols
                                ELSE Append(symbols, [name |-> r.symbol, value |-> 0, defined |-> FALSE])
                  /\ UNCHANGED relocs
    /\ NextItem
    /\ UNCHANGED <<units, stage, data, text, fn_start_pc, pc, labels, symtab_entries, objects, linker>>

RelocsResolved ==
    /\ stage = "resolve" /\ item > Len(relocs)
    /\ Stage("defined")
    /\ UNCHANGED <<units, at, data, code, symbols, symtab_entries, objects, linker>>

\* elf64_write_object_file goes over the symbols twice, and writes.
WriteSymbol ==
    /\ stage \in {"defined", "undefined"} /\ item <= Len(symbols)
    /\ symtab_entries' = IF symbols[item].defined = (stage = "defined")
                           THEN Append(symtab_entries, GlobalSym(symbols[item]))
                           ELSE symtab_entries
    /\ NextItem
    /\ UNCHANGED <<units, stage, data, code, symbols, objects, linker>>

DefinedWritten ==
    /\ stage = "defined" /\ item > Len(symbols)
    /\ Stage("undefined")
    /\ UNCHANGED <<units, at, data, code, symbols, symtab_entries, objects, linker>>

RelaOf(r) == [offset |-> r.offset, sym |-> SymIndex(symtab_entries, r.symbol),
              type |-> r.type, addend |-> r.addend]
WriteObject ==
    /\ stage = "undefined" /\ item > Len(symbols)
    /\ objects' = Append(objects, [text |-> text, rodata |-> rodata, syms |-> symtab_entries,
                                  relas |-> [k \in DOMAIN relocs |-> RelaOf(relocs[k])]])
    /\ rodata' = << >> /\ rodata_map' = << >>
    /\ text' = << >> /\ relocs' = << >> /\ fn_start_pc' = 0 /\ pc' = 0 /\ labels' = << >>
    /\ symbols' = << >> /\ symtab_entries' = LocalSyms
    /\ at' = 1
    /\ Stage(IF Len(objects) + 1 = Len(units) THEN "read" ELSE "strings")
    /\ UNCHANGED <<units, linker>>

(* ----------------------------------------------------------- the linker *)
compiler == <<data, code, symbols, symtab_entries>>
Fail(why) == stage' = "failed" /\ error' = why
Goto(next) == stage' = next /\ at' = 1 /\ item' = 1 /\ UNCHANGED error
NextObject == at' = at + 1 /\ item' = 1

\* elf64_read_object_memory
ValidObject(obj) ==
    \A k \in DOMAIN obj.relas : /\ obj.relas[k].offset < Len(obj.text)
                               /\ obj.relas[k].sym < Len(obj.syms)
DefinedIn(obj, name) == \E k \in DOMAIN obj.syms : obj.syms[k].section # "undef" /\ obj.syms[k].name = name
AnyDefines(name) == \E k \in DOMAIN objects : DefinedIn(objects[k], name)

\* Whether the startup object is linked too.
NeedsStartup == ~ AnyDefines("_start") /\ AnyDefines("main")

ReadObjects ==
    /\ stage = "read"
    /\ IF \A k \in DOMAIN objects : ValidObject(objects[k])
         THEN /\ objects' = IF NeedsStartup THEN Append(objects, StartupObject) ELSE objects
              /\ Goto("collect")
         ELSE Fail("invalid object") /\ UNCHANGED <<at, item, objects>>
    /\ UNCHANGED <<units, compiler, symtab, image>>

\* symtab_add of the global symbol s of object i
Added(table, i, s) ==
    LET entry == [name |-> s.name, object |-> i, section |-> s.section, value |-> s.value,
                  defined |-> s.section # "undef", vaddr |-> 0]
    IN  IF ~ Named(table, s.name) THEN Append(table, entry)
        ELSE IF entry.defined THEN [table EXCEPT ![Find(table, s.name)] = entry]
        ELSE table

\* Mutant: a second definition goes unnoticed.
RedefinesNever(table, s) == FALSE

Redefines(table, s) ==
    s.section # "undef" /\ Named(table, s.name) /\ table[Find(table, s.name)].defined

\* The next symbol of object at; only global ones count.
CollectSymbol ==
    /\ stage = "collect" /\ at <= Len(objects)
    /\ item <= Len(objects[at].syms)
    /\ LET s == objects[at].syms[item]
       IN  IF s.bind = "global" /\ Redefines(symtab, s)
             THEN Fail("duplicate symbol") /\ UNCHANGED <<at, item, symtab>>
             ELSE /\ symtab' = IF s.bind = "global" THEN Added(symtab, at, s) ELSE symtab
                  /\ NextItem /\ UNCHANGED <<stage, error>>
    /\ UNCHANGED <<units, compiler, objects, image>>

SymbolsCollected ==
    /\ stage = "collect" /\ at <= Len(objects)
    /\ item > Len(objects[at].syms)
    /\ NextObject
    /\ UNCHANGED <<units, stage, compiler, objects, symtab, image, error>>

CheckUndefined ==
    /\ stage = "collect" /\ at > Len(objects)
    /\ IF \A k \in DOMAIN symtab : symtab[k].defined
         THEN Goto("merge")
         ELSE Fail("undefined symbol") /\ UNCHANGED <<at, item>>
    /\ UNCHANGED <<units, compiler, objects, symtab, image>>

\* An object's part of a section starts at a multiple of 16, unless it is
\* empty.
Joined(cells, part, pad) == IF part = << >> THEN cells ELSE Pad(cells, 16, pad) \o part
StartOf(cells, part) == IF part = << >> THEN Len(cells) ELSE align_to(Len(cells), 16)

MergeSections ==
    LET o == objects[at]
    IN  /\ stage = "merge" /\ at <= Len(objects)
        /\ image' = [image EXCEPT
                        !.text = Joined(@, o.text, 144),
                        !.rodata = Joined(@, o.rodata, Padding(0)),
                        !.textOff = Append(@, StartOf(image.text, o.text)),
                        !.rodataOff = Append(@, StartOf(image.rodata, o.rodata))]
        /\ NextObject
        /\ UNCHANGED <<units, stage, compiler, objects, symtab, error>>

\* Mutant: the data follows the code in the same page.
TextSpanExact(size) == align_to(size, 16)

\* The code takes whole pages, at least one, and the data the pages after it.
TextSpan(size) == IF size = 0 THEN PageSize ELSE align_to(size, PageSize)

RodataVaddr == IF image.rodata = << >> THEN 0 ELSE TextVaddr + TextSpan(Len(image.text))
VaddrIn(i, section, value) ==
    CASE section = "text" -> TextVaddr + image.textOff[i] + value
      [] section = "rodata" -> RodataVaddr + image.rodataOff[i] + value
      [] OTHER -> 0

EntryOf(table) == IF Named(table, "_start") THEN table[Find(table, "_start")].vaddr
                                            ELSE table[Find(table, "main")].vaddr
ComputeAddresses ==
    /\ stage = "merge" /\ at > Len(objects)
    /\ symtab' = [k \in DOMAIN symtab |->
                     [symtab[k] EXCEPT !.vaddr = VaddrIn(symtab[k].object, symtab[k].section, symtab[k].value)]]
    /\ IF Named(symtab, "_start") \/ Named(symtab, "main")
         THEN image' = [image EXCEPT !.entry = EntryOf(symtab')] /\ Goto("relocate")
         ELSE Fail("no entry point") /\ UNCHANGED <<at, item, image>>
    /\ UNCHANGED <<units, compiler, objects>>

\* Mutant: the section symbol stands for the merged section.
TargetMerged(i, r) ==
    LET s == objects[i].syms[r.sym + 1]
    IN  IF s.type = "section" \/ s.bind = "local" THEN VaddrIn(1, s.section, s.value)
        ELSE symtab[Find(symtab, s.name)].vaddr

\* The address the relocation r of object i refers to.
Target(i, r) ==
    LET s == objects[i].syms[r.sym + 1]
    IN  IF s.type = "section" \/ s.bind = "local" THEN VaddrIn(i, s.section, s.value)
        ELSE symtab[Find(symtab, s.name)].vaddr

Patched(cells, offset, bytes) ==
    [k \in DOMAIN cells |-> IF k - offset \in 1 .. 4 THEN bytes[k - offset] ELSE cells[k]]

\* S + A - P
PatchOffset(i, r) == image.textOff[i] + r.offset
PatchValue(i, r) == Target(i, r) + r.addend - (TextVaddr + PatchOffset(i, r))
FitsInt32(v) == -2147483647 - 1 <= v /\ v <= 2147483647

\* The next relocation of object at is written when it fits 32 bits.
Relocate ==
    /\ stage = "relocate" /\ at <= Len(objects)
    /\ item <= Len(objects[at].relas)
    /\ LET r == objects[at].relas[item]
       IN  IF FitsInt32(PatchValue(at, r))
             THEN /\ image' = [image EXCEPT
                                  !.text = Patched(image.text, PatchOffset(at, r), Bytes4(PatchValue(at, r)))]
                  /\ NextItem /\ UNCHANGED <<stage, error>>
             ELSE Fail("relocation out of range") /\ UNCHANGED <<at, item, image>>
    /\ UNCHANGED <<units, compiler, objects, symtab>>

ObjectRelocated ==
    /\ stage = "relocate" /\ at <= Len(objects)
    /\ item > Len(objects[at].relas)
    /\ NextObject
    /\ UNCHANGED <<units, stage, compiler, objects, symtab, image, error>>

WriteExecutable ==
    /\ stage = "relocate" /\ at > Len(objects)
    /\ Goto("linked")
    /\ UNCHANGED <<units, compiler, objects, symtab, image>>

Next ==
    \/ AddString \/ AlignFloats \/ AddFloat \/ FloatsAdded
    \/ MeasureInstruction \/ FunctionMeasured \/ EncodeInstruction \/ FunctionEncoded \/ FunctionsEncoded
    \/ ResolveReloc \/ RelocsResolved \/ WriteSymbol \/ DefinedWritten \/ WriteObject
    \/ ReadObjects \/ CollectSymbol \/ SymbolsCollected \/ CheckUndefined
    \/ MergeSections \/ ComputeAddresses
    \/ Relocate \/ ObjectRelocated \/ WriteExecutable

Spec == Init /\ [][Next]_vars

\* The program headers: offset and size in the file, address.
Segment(off, vaddr, size) == [off |-> off, vaddr |-> vaddr, size |-> size]
Segments ==
    LET constants == image.rodata # << >>
    IN  <<Segment(0, BaseVaddr, HeaderSize(IF constants THEN 4 ELSE 3)),
          Segment(PageSize, TextVaddr, Len(image.text))>>
        \o (IF constants
              THEN <<Segment(PageSize + TextSpan(Len(image.text)), RodataVaddr, Len(image.rodata))>>
              ELSE << >>)

(* ------------------------------------------------------------ properties *)
\* The sections hold bytes, and a link has failed exactly when it says why.
TypeOK ==
    /\ stage \in {"strings", "floats", "measure", "encode", "resolve", "defined", "undefined",
                  "read", "collect", "merge", "relocate", "linked", "failed"}
    /\ at \in Nat /\ item \in Nat /\ Len(objects) <= Len(units) + 1
    /\ text \in Seq(Byte) /\ image.text \in Seq(Byte)
    /\ Len(image.textOff) = Len(image.rodataOff)
    /\ (error = "none") = (stage # "failed")

\* Object i comes from this unit.
UnitOf(i) == IF i <= Len(units) THEN units[i] ELSE StartupUnit
Owner(i) == IF i <= Len(units) THEN i ELSE 0

\* Where the instructions of each function of a unit lie, by the bytes
\* written.
Sums(lengths) ==
    LET upTo[k \in 0 .. Len(lengths)] == IF k = 0 THEN 0 ELSE upTo[k - 1] + lengths[k]
    IN  upTo
Lengths(list) == [k \in DOMAIN list |-> Len(Encoded(list[k], Field))]
CodeLengths(unit) ==
    [f \in DOMAIN unit.functions |-> Sums(Lengths(unit.functions[f].list))[Len(unit.functions[f].list)]]
FunctionStart(unit, f) == Sums(CodeLengths(unit))[f - 1]
Places(unit) ==
    LET starts == Sums(CodeLengths(unit))
    IN  [f \in DOMAIN unit.functions |->
            LET within == Sums(Lengths(unit.functions[f].list))
            IN  [k \in DOMAIN unit.functions[f].list |-> starts[f - 1] + within[k - 1]]]
LabelAt(list, l) == CHOOSE k \in DOMAIN list : list[k].op = "label" /\ list[k].dst.symbol = l

\* The processor that reads the code, loaded at base, finds x at offset.
ReadsAs(cells, base, offset, x, address) ==
    LET bytes == SubSeq(cells, offset + 1, Len(cells)) \o Zero \o Zero
        d == Decode(Low(bytes, 16), base + offset)
    IN  /\ d.instr = Printed(x, address)
        /\ d.length = Len(Encoded(x, Field))

IsBranch(x) == x.op \in {"jmp", "je", "jne"}

\* Every instruction of an object file that waits for no relocation is read
\* by the processor as the instruction the assembly text of the same list
\* shows, and a branch leads to the instruction behind its label: prefixes,
\* operands, short and long displacements and the offsets that pass 1
\* measured all agree.
ObjectExact ==
    stage = "read" =>
        \A i \in DOMAIN objects : \A places \in {Places(units[i])} : \A f \in DOMAIN places :
            LET list == units[i].functions[f].list
            IN  \A k \in {n \in DOMAIN list : list[n].op # "label" /\ ~ IsRelocated(list[n])} :
                    LET address == IF IsBranch(list[k])
                                     THEN [l \in {list[k].src.symbol} |-> places[f][LabelAt(list, l)]]
                                     ELSE << >>
                    IN  ReadsAs(objects[i].text, 0, places[f][k], list[k], address)

\* Where a symbol that unit i refers to ends up in the image.
FunctionsOf(n) == UNION {{i} \X DOMAIN UnitOf(i).functions : i \in 1 .. n}
NameOf(w) == UnitOf(w[1]).functions[w[2]].name
FunctionsNamed(name) == {w \in FunctionsOf(Len(objects)) : NameOf(w) = name}
FunctionAddress(name) ==
    LET w == CHOOSE v \in FunctionsNamed(name) : TRUE
    IN  TextVaddr + image.textOff[w[1]] + FunctionStart(UnitOf(w[1]), w[2])
ConstantAddress(i, name) ==
    RodataVaddr + (CHOOSE k \in DOMAIN image.rodata : image.rodata[k] = <<Owner(i), name, 1>>) - 1
SymbolAddress(i, name) ==
    IF name \in RodataNames(UnitOf(i)) THEN ConstantAddress(i, name) ELSE FunctionAddress(name)

\* In the executable every call reaches the first instruction of the
\* function it names, in whatever object that is, and every reference to a
\* constant reads that constant of its own unit.
LinkedExactly ==
    stage = "linked" =>
        \A i \in DOMAIN objects : \A places \in {Places(UnitOf(i))} : \A f \in DOMAIN places :
            LET list == UnitOf(i).functions[f].list
            IN  \A k \in {n \in DOMAIN list : IsRelocated(list[n])} :
                    ReadsAs(image.text, TextVaddr, image.textOff[i] + places[f][k], list[k],
                            [s \in {list[k].src.symbol} |-> SymbolAddress(i, s)])

\* What the link owes to the program alone: the functions with a name, and
\* the names that are called or read and are no constants.
Definitions(name) == {w \in FunctionsOf(Len(units)) : NameOf(w) = name}
StartupNames == {StartupUnit.functions[f].name : f \in DOMAIN StartupUnit.functions}
WithStartup == Definitions("_start") = {} /\ Definitions("main") # {}
DefinitionCount(name) ==
    Cardinality(Definitions(name)) + (IF WithStartup /\ name \in StartupNames THEN 1 ELSE 0)
Relocated(list) == {k \in DOMAIN list : IsRelocated(list[k])}
UsedBy(unit) ==
    (UNION {{unit.functions[f].list[k].src.symbol : k \in Relocated(unit.functions[f].list)}
            : f \in DOMAIN unit.functions}) \ RodataNames(unit)
NamesUsed == UNION {UsedBy(units[i]) : i \in DOMAIN units}
NamesDefined == {NameOf(w) : w \in FunctionsOf(Len(units))}

\* A program is linked exactly when every name that is used has one
\* definition and none has two, among the units and the startup object, and
\* there is somewhere to start: then the entry point is _start, or main when
\* there is no _start; and the reason of a refusal is true.
LinkDecision ==
    /\ TypeOK
    /\ stage = "linked" =>
          /\ \A n \in NamesUsed : DefinitionCount(n) = 1
          /\ \A n \in NamesDefined : DefinitionCount(n) = 1
          /\ image.entry = FunctionAddress(IF WithStartup \/ Definitions("_start") # {}
                                             THEN "_start" ELSE "main")
    /\ error = "duplicate symbol" => \E n \in NamesDefined : DefinitionCount(n) > 1
    /\ error = "undefined symbol" => \E n \in NamesUsed : DefinitionCount(n) = 0
    /\ error = "no entry point" => Definitions("main") = {} /\ Definitions("_start") = {}
    /\ error # "invalid object"

PagesOf(s) == (s.vaddr \div PageSize) .. ((s.vaddr + s.size - 1) \div PageSize)

\* The kernel can map the executable: every segment lies at the same place
\* in its page in the file and in memory, no page belongs to two segments of
\* different permissions, and the entry point is in the code.
SegmentsLoadable ==
    stage = "linked" =>
        /\ \A k \in DOMAIN Segments : Segments[k].off % PageSize = Segments[k].vaddr % PageSize
        /\ \A j, k \in DOMAIN Segments : j # k => PagesOf(Segments[j]) \cap PagesOf(Segments[k]) = {}
        /\ image.entry \in TextVaddr .. TextVaddr + Len(image.text) - 1
=============================================================================
