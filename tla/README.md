# TLA+ models of the Cco compiler and runtime

Cco is a small ownership-typed language. Its compiler, written in C, parses a
program, resolves imports and traits, analyses ownership, and then emits
either C11 directly or a control-flow-graph IR that is optimised and compiled
to C or to x86-64. This directory holds TLA+ models of the parts that carry
the compiler's own logic, the TLC configurations that check them on small
instances, and TLAPS proofs of the facts that should hold for every size.

Paths below are relative to the repository; `src/` is the C source.

## 1. Inventory

| Component | State | Operations | What must hold |
|---|---|---|---|
| lexer, parser, AST (`src/frontend/lexer.c`, `parser.c`, `ast.c`) | position, token, tree | scan, parse | the tree is the one the grammar gives |
| module resolver (`module_resolver.c`) | resolved paths[128], stack[128] | resolve imports depth-first | each module once, cycles reported, arrays never overrun |
| traits and classes (`trait_resolver.c`, `class_decl.c`) | tables of impls and classes | collect, check, specialise | every call bound to one method |
| ownership analysis (`scope_analysis.c`) | scopes of owned variables, table of moved ones, loop depth | one case per statement | on every path of the emitted C each object is freed once and no moved variable is used |
| C11 back end (`backend/c11/codegen.c`) | output text | one case per node | emits the releases the analysis asked for where it asked for them |
| prelude and map runtime (`stdlib_prelude.h`, `runtime/map_runtime.h`) | hash table, lists, strings, sockets | put, get, has, remove, keys, free, ... | the map is a dictionary; probe loops end; nothing leaks |
| standard library (`std/*.cco`) | ring buffer of the deque | push, pop, peek at both ends | the ring is a bounded deque |
| byte buffers and TCP (`std/buffer.cco`, `std/net.cco`, the socket calls of `stdlib_prelude.h`) | reader and writer position; total and chunk counts of a send | write, read, send, receive, shut down | no byte is skipped; a retry repeats less than a chunk; values arrive as written |
| IR and builder (`ir/ir.c`) | functions, blocks, instructions, CFG edges | create, append, recompute CFG | every block ends with one terminator |
| lowering (`ir_lower.c`) | current block, symbol list, loop targets | one case per node | the IR does what the source does |
| verifier (`ir_verify.c`) | none | check a function | rejects malformed IR, accepts what the passes produce |
| dominance (`ir_dominance.c`) | dominator sets, idom, frontiers | sweep to a fixed point | what the definitions by paths say |
| SSA (`ir_ssa.c`) | value stacks, phis, pending copies | promote, rename, split edges, copy | SSA form; destruction keeps the meaning |
| optimizer (`ir_opt.c`) | the function, `pass_changed`, round | six passes to a fixed point | keeps the meaning; ends because nothing is left to do |
| SSA optimizer, loops, IPA, profiles (`ir_ssa_opt.c`, `ir_loop.c`, `ir_ipa.c`, `ir_profile.c`) | lattice values, value numbers, call graph, counters | SCCP, GVN, LICM, inlining, layout | keep the meaning |
| register allocation and frame (`x86_64_regalloc.c`, `x86_64_target.c`) | live sets, intervals, active list, busy registers, slots | dataflow, linear scan, frame layout | values live together never share a register; values survive calls; slots do not overlap |
| instruction selection, peephole (`x86_64_codegen.c`, `x86_64_instr.c`) | instruction list | one case per IR instruction; six rewrite rules | the machine code does what the IR does and keeps the ABI |
| encoder, ELF writer, linker (`x86_64_encode.c`, `x86_64_elf.c`, `x86_64_link.c`) | sections, symbols, relocations | encode, write, resolve, patch | the bytes are the instructions; patches are in range |
| driver (`main.c`), diagnostics, self-hosted compiler (`selfhost/`) | options, files | run the stages in order | the order of the stages |

Components interact by calls on shared trees: the analysis leaves release
lists on AST nodes which the C11 back end prints; the IR stages rewrite one
function in place; the allocator's intervals are consulted again by the frame
and by the reload after each call. The compiler is one thread. What is hard is
not concurrency but *history*: tables that shift while positions in them are
remembered (the moved table, the hash buckets during a rehash), decisions
taken once for all paths (releases, spills), fixed points that must be swept
far enough, and rewrites that are each right alone and applied in sequence.
The exception is the socket code, where the kernel and the peer run beside the
program: sends and receives are cut anywhere, interrupted, timed out or reset,
and the caller retries.

Three fixed arrays (128 imports, 64 phi copies, 256 crossed calls), the
table's load limit and the buffers of a connection are the resource bounds;
the peephole pass has a fourth, of 64 jump aliases, that stays empty
(section 6).

## 2. Modules

| Module | Models | Kind |
|---|---|---|
| `Dict` | what a `map[K]V` promises | abstract specification |
| `MapRuntime` | `runtime/map_runtime.h` | component |
| `MapRuntimeProofs` | counters and load of the map | proofs |
| `MapContentsProofs` | entries, ownership and refinement of `Dict` | proofs |
| `BoundedDeque` | what `std/deque.cco` promises | abstract specification |
| `RingDeque` | `std/deque.cco` | component |
| `RingDequeProofs` | ring invariant and refinement | proofs |
| `Ownership` | pass 3 of `scope_analysis.c` and the C emitted from it | component, composed with execution |
| `CcoSource` | meaning of source functions | reference |
| `IrFunction` | `ir.c`, and the execution of IR | data and reference |
| `ModuleResolver` | `module_resolver.c` | component |
| `ModuleResolverProofs` | resolution invariant | proofs |
| `TraitResolver` | `trait_resolver.c` | component |
| `Frontend` | the two in the order of `main.c` | composition |
| `IrLower`, `IrVerify`, `IrDominance`, `IrSsa`, `IrLoop`, `IrSsaOpt`, `IrOpt` | the files of those names | algorithms as operators |
| `LinearScan` | linear scan and frame layout | algorithm as operators |
| `RegAlloc` | the scan as a state machine over every interval table | component |
| `RegAllocProofs` | allocation, frame and spilling | proofs |
| `X86Instr` | instruction lists, the peephole pass, the machine | algorithm and reference |
| `X86Codegen` | liveness, frame, instruction selection | algorithm as operators |
| `IrPipeline` | the stages from a parsed function to an instruction list | composition |
| `X86Encode` | `x86_64_encode.c` | algorithm as operators |
| `X86Decode` | how the processor reads instructions | reference |
| `NativeLink` | objects, `x86_64_elf.c`, `x86_64_link.c`, the startup object | component |
| `NativeLinkProofs` | lengths, branches, patches, the verdict of the linker, the segments | proofs |
| `ByteBuffer` | `std/buffer.cco` | operators on a record |
| `TcpStream` | `std/net.cco` and the prelude's socket loops, between two programs | component, composed with the kernel |
| `TcpStreamProofs` | what is sent, received and taken for the end | proofs |
| `MC*` | small instances | TLC |

Each definition that models code is listed with its lines in `PROJECT.json`
under `map`. Definitions commented *Mutant* are plausible wrong versions of
the definition that follows; substituting one must make TLC find a violation.

### MapRuntime and Dict

One handle. `buckets` is a function on 0..capacity-1 to empty, tombstone or
an entry; `occupied`, `tombstones` and `capacity` are the fields of
`__cco_map`. A call is several steps: the caller's step sets the arguments,
then the body runs; `__cco_map_rehash` is a step per old bucket, so its
half-moved table is visible to the invariants. A probe loop is one step to
the bucket at which it stops; where the code would loop forever the step is
disabled and TLC reports a deadlock. `malloc` failure ends the program
(`Exit`), as in the code. `keyCopies` counts the live copies of string keys,
`owner` says who must free each value. The hash is the constant `Hash`.
`RefinesDict` maps the table to the dictionary of its entries, the rehash
counted as not yet happened for the entries not yet moved.

### RingDeque and BoundedDeque

One deque; `buffer`, `head`, `tail`, `size` and `capacity` as in the class,
an action per method. The plain `pop` and `peek` are their `_opt` twins with
-1 for `None`. `RefinesDeque` maps the ring to the sequence of its items.

### Ownership

Two phases over the same program. In phase *analyse* TLC writes a function
statement by statement: each action is one case of `analyze_stmt_own`,
changes the scopes (`open`) and the moved table (`moved`) as the code does,
and appends the statement annotated with the releases, NULL assignments and
old-value release the analysis decided; a statement the analysis refuses
ends in *rejected*. In phase *run* the annotated program executes with every
outcome of every condition, on a heap of objects that are live or freed.
`fault` records the first use of NULL, use of a freed object or double free.
The moved table is a sequence because its positions matter: `unmark_moved`
moves the last entry into the hole.

Programs contain one heap class; expressions are reduced to the reads and
moves they make. `Families` says which functions are written: their names,
parameters, kinds of statements and bounds. The *features* of a family are
the idioms known to be compiled wrongly that its functions may contain; a
program containing any other of them is not generated. The passing run has
none of them and covers everything else; adding *late_borrow* to the family
*Borrowing* or *match_break* to *Moving* makes TLC find `FreedIsGone` violated:

- *revive*: a branch reassigns a variable that was moved before it;
- *shadow*: an inner variable has the name of an outer one;
- *loop_return*: a return in a loop body of a variable declared outside;
- *match_break*: a break in a match arm inside a loop;
- *late_borrow*: a borrow assigned in an inner block from a variable of it.

### The front end

`ModuleResolver` takes the file system and the search directories as
constants: `At` gives the file a path names in a directory, `source` what
each file imports and declares, and whether it can be read and parsed. The
recursion of `resolve_file_rec` is the variable `stack`, a frame per open
file with its positions in the imports and in the declarations, so that the
tests against the open and the finished files are made at the moment they are
made in the code. `resolved` and `stack` are the arrays of 128 entries;
`Limit` is that 128, and a write behind the end ends the run with the status
*overrun*. Declarations are merged kind by kind in the order of the code's
loops, each with the duplicate test of its kind.

`TraitResolver` then walks the merged program: it checks the impls against
the interfaces and the templates against both, binds each call of a template
to a copy for the classes of its arguments, and replaces templates by copies.
Names are sequences of parts, so that `template__class` is what it is in C.
The nodes the recursive walks do not enter carry `seen = FALSE`. `Frontend`
runs one after the other.

### The compiler pipeline

A program is a tree of tuples (`MCIrPipeline`); a case is a program and the
options to compile it with. `IrPipeline` takes it through the stages of
`build_ir_module_timed`: `Lower` (with the verifier), `Construct`, in the
phase *ssaopt* the passes of `ir_ssa_advanced_optimize_function` (SCCP, value
numbering, loop-invariant code motion, dead code, branches) one action each,
`Deconstruct`, the passes of `ir_optimize_function` one action each, and with
`--use-native` `Select` and `OptimizeList`. `fn` is the function after each
stage, `asm` the instruction list.

`CcoSource!RunSource`, `IrFunction!RunFunction` and `X86Instr!RunList` give
the same kind of result: the sequence of prints and calls and the returned
value. Calls return their argument. The machine follows the System V ABI:
a call destroys every caller-saved register and the memory below the stack
pointer, must find the stack aligned, and `ret` must find the callee-saved
registers and the stack pointer as on entry. Arithmetic other than compare
leaves undefined flags, and reading anything undefined is an observable
difference, so a missed reload or a flag used too late cannot pass as luck.
A jump carries its label in the source operand, a label instruction in the
destination; the peephole rules 4 to 6 test the destination of jumps and so
never apply, in the model as in the program.
Integers are unbounded; the programs keep them far from 32 bits.

`LinearScan` is used twice: by `X86Codegen` on the intervals of real
functions and by `RegAlloc`, whose initial states are *all* interval tables
of a given size, also those no function of the pipeline happens to have.

### Encoding and linking

`X86Encode` gives the bytes of an instruction (`Encoded`), the length pass 1
counts for it (`Measured`) and the relocation it leaves. `X86Decode` reads
bytes as the manual says and is written independently of the encoder: it is
the reference, and marked external in the map. `NativeLink` compiles a program
unit by unit with the loops of `x86_64_emit_object_file_timed` as steps: a
step per constant, per instruction in each of the two passes over a function,
per relocation to be resolved and per symbol written. `at` and `item` are the
positions of the running loop, `pc` the offset that pass 1 predicts and pass 2
counts, `labels` the label map of the current function. The linker reads the
objects, adds the startup object when there is a `main` and no `_start`, and
goes on in steps too: collect a symbol, refuse a duplicate, refuse what is
undefined, merge the sections of an object, place the symbols, write a
relocation or refuse it when its value does not fit 32 bits. A byte of code is
its value; a byte of read-only data is tagged with the constant it belongs to,
so that a relocation that lands on the wrong constant is seen. ELF headers and
string tables are the records the linker reads from them. The startup object
is a reduced stand-in for the assembled `runtime_start.s`: its symbols, its
call of `main` and its fall into `exit` are there, while `malloc`, `free` and
`printf` are a return each.

`PageAssumption` asks of the page size what the layout uses: a multiple of 16
that divides the base address and holds the headers. `ProgramsAssumption` says
what instruction selection hands over: lists of the forms of instructions it
emits (`Emitted`), at least one of them not a label in every function, since
each ends with a return; constants of at least one byte; and no symbol with
the name of the section.

### ByteBuffer and TcpStream

The sending program writes the values of a script into its buffer and calls
`tcp_send_buffer` until the buffer is drained, again after a call that failed;
the receiver decodes the same script. `call` is the state of the two nested
loops of `net_send_bytes`: `total_sent` of finished chunks, `chunk_sent` of
the current one. The kernel is the environment: `send` takes any part, is
interrupted, times out on a full socket, returns 0 or fails after a reset,
`recv` returns any part of what arrived. Four history variables, which nothing
reads, are there to say what must hold: `stream` is every byte ever written to
the buffer, `start` where each value begins in it, `log` the places in the
stream of the bytes that `send` accepted, in the order it did, and `torn`
whether a call failed inside a chunk. Places, not bytes, tell a byte sent
twice from two equal bytes. The receiver asks for exactly what the next value
lacks (*exact*) or for everything that fits (*greedy*). With all its values
read it still reads on to the end of the stream; bytes that come instead of
the end, which only a torn chunk can cause, are an error to it (`Surplus`).

## 3. Runs

| Run | Shows |
|---|---|
| `map` | a stored key is found where its probe ends, counters and ownership are exact, probes end, and the table implements `Dict` including that every call returns |
| `deque_refinement` | index safety and `BoundedDeque` |
| `ownership` | accepted programs outside the idioms free everything once, never use a moved variable or a freed object, and the moved table is right at every statement of every execution |
| `frontend` | each file once, imports first, cycles and duplicates reported exactly, arrays overrun only by more files than they hold; each call bound to the right copy; the front end ends |
| `ir_pipeline` | every stage keeps the meaning; dominance, loops, SSA form, live ranges and the fixed point are what they should be |
| `regalloc` | the scan and the frame on every table of four intervals |
| `native_link` | decoding the executable gives the instructions, every reference reaches its definition, the link is refused exactly when it has to be, and the segments can be mapped |
| `tcp_stream` | the reader position trails what was sent by less than a chunk, untorn streams arrive exactly, 0 means the end, everything is delivered |
| `own_if_revive`, `native_crossing`, `ir_licm_order`, `ir_algebra` | violations, see section 6 |

Bounds and why they suffice:

- `map`: five keys whose hashes collide at the end of the table and wrap
  around, two values, capacity 4 growing to 16 instead of 8 upwards. Two
  rehashes, full probe chains, tombstones at every position of a chain and
  their reuse all occur; a larger table only makes chains sparser. The proofs
  cover every size, hash and set of keys; the run adds liveness.
- `deque_refinement`: a ring of four slots and two values: every position of
  head and tail, full and empty rings and wraps at both ends are reached.
- `ownership`: two families. *Moving*: two variables, one a parameter, five
  statements in two nested blocks, two iterations of a loop; a join needs one
  move per branch, a second join one more, a loop two iterations to see its
  own effect. *Borrowing*: three variables, four statements, one block.
- `frontend`: four files in two directories, with a path that names different
  files from each, one that leads back to the entry file and one that names
  nothing; every list of up to two imports (one in the library's files), so
  diamonds, self-imports and cycles of all lengths up to four occur, and
  `Limit` 3 is exceeded; unreadable and malformed files at every position;
  every pair of kinds declaring one name; templates, impls and calls spread
  over three files with every class of argument.
- `ir_pipeline`: loops of a fixed outer shape around all pairs of statements,
  branches and inner loops over three variables, and while loops around all
  triples of copies, so that every permutation of three phis (swaps, cycles,
  lost copies) meets the parallel copy; straight-line choices with constants,
  unary operators and code after a return; loops with invariant, repeated and
  conditionally constant expressions for the passes on SSA form. Inputs 0..2
  take both sides of each condition; `MaxTrips` 8 loop iterations and
  `MaxBlocks` 60 blocks are never the reason a comparison is skipped for a
  terminating program. One register per pool forces spills, reloads and
  evictions that ten registers would hide. Options: none, `--ssa`, `-O1` and,
  for the last family, `--ssa -O1`, always with `--use-native`.
- `regalloc`: every table of four intervals over positions 0..3, all integers
  or integers and floats in turn, with every set of calls at the inner
  positions, one register per pool, at most one home slot.
- `native_link`: every form of every instruction, with registers that need a
  REX prefix, a SIB byte or a displacement, and immediates at the ends of the
  ranges of 8, 32 and 64 bits, between a forward and a backward branch; pairs
  of units that define, call and read each other's names. `PageSize` 512
  makes code of more than one page small; the layout only uses that it is a
  multiple of 16 that divides the base address and holds the headers.
- `tcp_stream`: values of one, two and four bytes, buffers of 5 bytes, chunks
  of 2 (4096), transfers of 4 (16 MiB), a socket of 3, three faults: two
  whole chunks and a part of a third, a call that transfers less than is
  buffered, a socket that fills in the middle of a chunk and a failure of the
  retry of a failed call all occur. The proofs cover every size, every script
  and every number of faults for the three safety properties; the run is what
  covers `Delivered`.

Symmetry is not used. Deadlock is checked in `map` (a probe loop that never
ends) and in `deque_refinement`; the other systems stop when their program
is compiled, linked or has run, or the connection is closed, so their
configurations say `CHECK_DEADLOCK FALSE`.

Fairness. `Dict` and `MapRuntime`: weak fairness of the body of a called
operation, none of the caller. `ModuleResolver` and `Frontend`: weak fairness
of the next step. In each case the code is one thread of sequential calls:
once entered, its next statement is executed. `TcpStream`: weak fairness of
the steps of both programs and of `send` and `recv` when the kernel has room
or bytes; a blocking call in a live connection returns. None is assumed of
faults, whose number is bounded by `MaxFaults`, a bound on the model: without
it a connection that always times out delivers nothing, which is right.

The type invariants of `Ownership`, `IrPipeline`, `NativeLink` and
`TcpStream` are conjuncts of `TableAgreesWithRun`, `NeverRejected`,
`LinkDecision` and `ReaderTrailsSent`; that of the ring is checked by itself;
those of the ring, the map, the allocator, the resolver, `TcpStream` and
`NativeLink` are proved.

## 4. Proofs

All are checked by TLAPS for every value of the constants, from the named
assumptions of the modules only (capacities are positive naturals, the hash
is a natural number, the pools are sequences of registers and the general
pools share none with the floating-point one, interval tables are well formed,
files and their lists are finite and a path names a file or nothing, the
scripts of a connection are sequences of integers of 1, 2 or 4 bytes that fit
the buffers, pages hold the headers, and units are lists of instructions the
code generator emits).

- **Map** (`MapRuntimeProofs`): `CountersExact`, `LoadBelowThreshold`,
  `ProbesTerminate` and `TypeOK` are consequences of `CountInv`, which is
  inductive. The counters alone are not: in the middle of a rehash they
  describe the new table, and that it has room for the entries still to be
  moved needs the number of unmoved entries of the old one. `CountInv`
  therefore bounds occupied plus unmoved entries, plus the one about to be
  inserted, by the load of the *new* capacity (`Load`), and says what the
  arguments of a running call are (`Control`). Finite-set cardinality lemmas
  (`CountStore`, `CountDelete`) give the effect of one bucket; `EmptySlotLeft`
  turns the load bound into an empty bucket, which is why the probe loops without a
  round limit end.
- **Map contents** (`MapContentsProofs`): `NoHiddenEntry`, `OwnershipExact`
  and the safety part of `RefinesDict`, from `MapInv`. `NoHiddenEntry` is not
  inductive: that the probe of an entry meets no second entry of its key is
  no property of one chain, so `MapInv` has it as `AllReached` (no empty
  bucket before an entry) and `KeysDistinct` (no key twice in the two tables
  together). A bucket that is taken or deleted never becomes empty, so
  chains survive (`ReachKept`); a search that stops at an empty bucket proves
  the key absent (`SearchIsExact`), so an insertion doubles nothing, although
  it writes to the tombstone it met first; a rehash moves the next entry and
  no other. `OwnershipExact` counts; the invariant says instead that the map
  owns a value exactly if a bucket holds it (`OwnedStored`), that no value is
  in two (`ValuesDistinct`) and that the argument of a running put is still
  the caller's (`ArgumentOwned`), and the numbers follow by cardinality of
  the image. `RefinementSafe` goes through the actions of the table: the
  steps of a rehash leave the dictionary alone, the last step of each call is
  the step of `Dict`.
- **Deque** (`RingDequeProofs`): `Inv` ties `tail` to `head + size` modulo
  the capacity. With it every operation of the ring maps to one of
  `BoundedDeque`; `Forward` and `Backward` are the modular arithmetic of a
  step in each direction, `ItemsFacts` says which items a changed head, size
  or slot leaves alone. The full refinement `Spec => RefinesDeque` is proved.
- **Register allocation** (`RegAllocProofs`): `AllocInv` says that active
  intervals hold distinct registers (`ActiveDistinct`), `busy` is exactly
  their set, and an interval that has a register and is no longer active
  ended before every interval still to come starts (`DroppedAreOver`, which
  is where the order of the scan enters). `NoSharing` is preserved because a
  new interval takes a register no active interval holds, or the one of an
  evicted interval, which loses it. Expiry is a lemma of its own: all three
  actions begin with it. `PlacedAcrossCalls` and `FrameSafe` follow from what
  `FrameBuilt` says of the frame once it is there: nothing is left to
  allocate, and the frame is that of the final allocation. Its slots belong to
  exactly the registers that need one, and the k-th of them lies k words below
  the pushed registers and the homes (`SlotRank`, a cardinality that grows from
  one slot to the next). `SpilledUnderPressure` needs the history of the scan: active
  intervals hold registers of their own class (`OwnClass`), every interval
  taken starts no later than those to come (`TakenInOrder`), and every spill
  up to now is justified (`SpillsJustified`). When the scan finds no free
  register all those of the class are held by active intervals; they and the
  current one are live at its start, which is one more than the class has.
  The victim is live there too, so the point justifies whichever is spilled.
- **Module resolver** (`ModuleResolverProofs`): `TypeOK`, `OnceEach`,
  `ImportsFirst`, `CircularExact`, `FitsArrays` and `DuplicateReal`, for every
  set of files, every import graph and every limit, from `ResolverInv`. The
  resolution is depth-first, and the argument rests on what the open files
  are to each other: the file of a frame can be reached over the imports of
  every frame below it (`Nested`), and each import a frame has passed is
  finished or is the file of the frame above (`Followed`). So an open file
  met again lies on a cycle, and when a frame is finished all its imports
  are, which is `ImportsFirst`. `Reach` is membership in every set closed
  under imports; `ImportsFirst` makes the finished files such a set, and the
  first of them in a supposed cycle (`Least`, from the well-foundedness of
  the naturals) would have an import before it that is on the cycle too.
  `Merged` traces every merged declaration to the file and the position it
  came from, so a reported duplicate is two declarations. `FitsArrays` counts:
  the files in an array are different files that the entry reaches
  (`OnceEach`, `FromEntry`), and so is the one to be added (`OneMore`).

- **TCP streams** (`TcpStreamProofs`): `ReaderTrailsSent`, `ExactStream` and
  `EofIsEnd`, from `StreamInv`. Everything is measured in places of the
  stream. `SourceInv` puts the unread bytes of the sender at its end, so a
  position in the buffer, moved back by `reset` or not, is a place in the
  stream. `LogInv` says that what `send` accepted has no gap, reaches as far
  as the call in progress has come, and is less than a chunk ahead of the
  whole chunks the call would report if it failed now; this is why the retry
  repeats less than a chunk, and it is inductive where the property, which
  speaks of finished calls, is not. `UntornInv` is the same without
  repetition. `Framed` cuts the stream into the values of the script
  (`ReadBack`: decoding undoes `BigEndian`), and `ReceivedInv` continues
  the values decoded with the bytes in the receiver's buffer and on the wire.
  `ExactInv` holds the *exact* receiver to at most one value in its buffer,
  from which follows that it never asks for 0 bytes, so that 0 is the end.
  The proof attempt showed `EofIsEnd` to fail in an earlier version of the
  model for more faults than its run had: bytes repeated behind the last
  value made the receiver ask for nothing. What such a receiver does is now
  an action (`Surplus`).
- **Encoder and linker** (`NativeLinkProofs`): `LinkDecision` and
  `SegmentsLoadable`, for every program and every page size, from `Inv`; and
  three facts about the encoder. `MeasuredExact`, by cases of the instruction
  forms, is that pass 2 writes the number of bytes pass 1 counts, whatever a
  branch field holds; `RelocExact` is that the relocated field is the last four
  bytes of its instruction. `BranchesSafe` is the action property they are for:
  a jump is appended with the distance from its end to its label, although the
  distance is taken from a map made before the code was.
  The verdict on a program is about its names, and the linker decides it long
  after the names have gone through four representations; the properties say
  nothing of the states between, so the invariant has to. `CompileInv` follows
  one unit: `PositionInv` ties `pc`, the code and the labels found to the sums
  of the instruction lengths, `SymbolInv` and `RelocInv` say that what is
  defined so far are the functions passed and that every use passed has a
  relocation and later a symbol, `SymtabInv` that the table written is the
  three local symbols and then those. `ObjectsInv` keeps of a finished object
  what the linker depends on: its symbols are the functions of the unit at
  their places and the names the unit uses, and its relocations are valid,
  which is why `invalid object` never happens to objects the compiler wrote.
  `TableInv` says that the linker's table has one entry for each name visited
  and that two definitions visited never share a name; when all symbols are
  visited, one definition in the table is one function of the program
  (`DefinitionCount`, by cardinality). `ImageInv` puts each object's part
  inside the merged code, hence the entry point too, and `VerdictInv` keeps a
  verdict once it is given: it depends on the program alone, which no step
  changes. `SegmentsSafe` adds the arithmetic of pages (`DivBelow`,
  `SpanFacts`, `SegmentPages`): the code takes whole pages, so the page behind
  its last byte is not one of its own. `PatchesSafe` is about the copy of four
  bytes at an offset that `elf64_read_object_memory` has only found to be
  inside the code: in objects the compiler wrote there is room
  (`FieldsInside`, inductive with `Inv`, because by `RelocExact` a field ends
  with its instruction), so a relocation changes no byte of another object.
  All parts of `Inv`, `FieldsInside` and the properties of `BranchesSafe` and
  `PatchesSafe` were also checked on the states of `native_link`.

Only model-checked: liveness (`RefinesDict`'s fairness, `Delivered`, the
termination of the front end), which with `ENABLED` is outside what the prover
can reason about; `ObjectExact` and `LinkedExactly`, which compare with
`Decode`, a parser of bytes, for every immediate and every form (the parts of
them that do not need it are `MeasuredExact`, `RelocExact`, `BranchesSafe`
and `PatchesSafe`); everything about `Ownership` and traits, whose programs are
trees that recursive operators walk; and the pipeline, whose algorithms
(lowering, renaming, the fixed points, execution) are recursive over data as
well.

## 5. Not modelled, and the plan

Not modelled: the lexer; the parser, whose trees are the models' inputs; the
C11 generator beyond the cleanup code and jumps that are part of `Ownership`,
since it is text; passes 1 and 2 of the scope analysis (strings); inlining
and the call graph (`ir_ipa.c`), profiles and block layout; the IR to C back
end, whose result is the execution in `IrFunction`; the list, string and file
helpers of the prelude; the driver. Left out for good: printers and dumps,
diagnostics, file and process handling, generated data, the byte formats of
ELF headers, and the self-hosted compiler, a second implementation of the
same algorithms.

Next, in this order:

1. for and for-each scopes, arrays, members and methods in `Ownership`, and
   the string passes 1 and 2;
2. inlining and dead functions, which need programs of several functions in
   the pipeline;
3. 32-bit arithmetic in the pipeline's references;
4. proofs: the values relocations have written so far, as an invariant of the
   image, from which `LinkedExactly` would follow but for the decoder.

## 6. Where the code departs from what it says

Each of the first four has a violation run; the finding in `PROJECT.json`
quotes the line the code departs from.

- `own_if_revive` (`scope_analysis.c:1721`): the join of an if takes the table
  entries beyond the old count as the new moves, but reviving a variable
  shifted them, so a move is lost and the variable is used after it.
- `native_crossing` (`x86_64_regalloc.c:323`): a phi register that is live
  into a block beginning with a call is not seen to cross it and is
  destroyed by the call.
- `ir_licm_order` (`ir_ssa_opt.c:954`): invariants are hoisted in the order
  the loop's blocks were found, so one may be put before the invariant it is
  computed from.
- `ir_algebra` (`ir_opt.c:350`): after SSA destruction `x + 0` is replaced by
  `x` although `x` has several definitions; a loop that keeps `i + 0` ends
  with the next value of `i`.

Seen while modelling and reproduced with the compiler, without a run:

- ownership: a break in a match arm becomes the break of the C switch, after
  the loop body's variables were freed (`backend/c11/codegen.c:2991`); a
  borrow assigned in an inner block outlives its owner
  (`scope_analysis.c:1398`); a move on some paths followed by an assignment
  leaks (`scope_analysis.c:1450`); a moved inner variable suppresses the
  release of the outer one it shadows (`scope_analysis.c:925`); a return
  inside a while leaks;
- traits: the class of an argument is that of the first let of its name,
  whatever hides it at the call (`trait_resolver.c:431`); calls below
  f-strings, indices, members and constructor fields are not bound
  (`trait_resolver.c:764`);
- lowering and SSA: an inner variable shares the slot of the outer one of its
  name (`ir_lower.c:242`); `&&` and `||` evaluate both operands
  (`ir_lower.c:152`); phis keep NULL for unreachable predecessors, and
  `--ssa` refuses a valid program (`ir_ssa.c:360`); more than 64 phis at one
  join lose copies (`ir_ssa.c:929`);
- SSA optimizer: a guarded division by a variable is hoisted out of its guard
  and traps (`ir_ssa_opt.c:877`); the key of an expression leaves out
  character and string constants (`ir_ssa_opt.c:800`); parameters and
  registers share one table of ids in the code motion (`ir_ssa_opt.c:926`);
- peephole: the rules for jumps to the next label, for a conditional jump over
  a jump and for chains of jumps look for the label in the destination
  (`x86_64_instr.c:621`), while the emitters put it in the source
  (`x86_64_instr.c:415`), so they never apply; all such jumps stay in the
  assembly, although `docs/CCO_PHASE8_PROFILE_GUIDED_OPTIMIZATION.md:147`
  says they are deleted, inverted and collapsed;
- sockets: a send that fails inside a chunk reports the finished chunks only,
  so the retry sends the beginning of the chunk twice
  (`stdlib_prelude.h:1263`; `ExactStream` is stated for untorn streams);
  `tcp_recv_buffer` returns 0 for a full buffer, the value that means the end
  of the stream (`net.cco:226`; `EofIsEnd` is stated for receivers that ask
  for what the next value lacks).
