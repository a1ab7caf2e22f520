----------------------------- MODULE LinearScan -----------------------------
(***************************************************************************)
(* One step of the linear-scan register allocator (regalloc_run in         *)
(* src/backend/x86_64/x86_64_regalloc.c) and the stack frame built from    *)
(* its result (x86_frame_build in x86_64_target.c), as operators on        *)
(*    iv   the live interval of every virtual register, by its number      *)
(*    s    the allocation made so far                                      *)
(* The code keeps the active intervals in a list sorted by end, in which   *)
(* an interval goes behind the ones with the same end.  Intervals arrive   *)
(* in the order Earlier, so a set is enough: the order of the list is the  *)
(* order by end and then Earlier.                                          *)
(***************************************************************************)
EXTENDS Integers, Sequences, FiniteSets

CONSTANTS CallerSaved,   \* CALLER_SAVED_INT_POOL, in order of preference
          CalleeSaved,   \* CALLEE_SAVED_INT_POOL
          FloatPool,     \* FLOAT_POOL
          NONE           \* X86_REG_NONE

RegsIn(pool) == {pool[n] : n \in DOMAIN pool}
Regs == RegsIn(CallerSaved) \cup RegsIn(CalleeSaved) \cup RegsIn(FloatPool)

ASSUME PoolsAssumption ==
    /\ \A pool \in {CallerSaved, CalleeSaved, FloatPool} : pool \in Seq(RegsIn(pool))
    /\ NONE \notin Regs
    /\ (RegsIn(CallerSaved) \cup RegsIn(CalleeSaved)) \cap RegsIn(FloatPool) = {}

LiveInterval == [start : Nat, end : Nat, class : {"int", "float"}, crosses : BOOLEAN]

\* The order of compare_start_pos.
Earlier(iv, v, w) ==
    iv[v].start < iv[w].start \/ (iv[v].start = iv[w].start /\ v <= w)

IsNext(iv, s, v) == v \in s.todo /\ \A w \in s.todo : Earlier(iv, v, w)

\* Mutant: an interval that crosses a call only gets a callee-saved register.
PoolCalleeOnly(i) ==
    IF i.class = "float" THEN FloatPool
    ELSE IF i.crosses THEN CalleeSaved ELSE CallerSaved \o CalleeSaved

\* The registers an interval may get, in the order they are tried.
PoolFor(i) ==
    IF i.class = "float" THEN FloatPool
    ELSE IF i.crosses THEN CalleeSaved \o CallerSaved
                      ELSE CallerSaved \o CalleeSaved

\* Mutant: an interval expires where the next one starts.
ActiveBefore(iv, s, v) == {a \in s.active : iv[a].end > iv[v].start}

\* Expire old intervals: those that end before v starts.
ActiveAt(iv, s, v) == {a \in s.active : iv[a].end >= iv[v].start}

\* Mutant: the registers of expired intervals stay busy.
BusyForever(iv, s, v) == s.busy

BusyAt(iv, s, v) == s.busy \ {s.phys[a] : a \in s.active \ ActiveAt(iv, s, v)}

\* r is the first register of the pool that is not busy.
IsFirstFree(iv, s, v, r) ==
    \E n \in DOMAIN PoolFor(iv[v]) :
        /\ r = PoolFor(iv[v])[n]
        /\ r \notin BusyAt(iv, s, v)
        /\ \A k \in 1 .. n - 1 : PoolFor(iv[v])[k] \in BusyAt(iv, s, v)

NoneFree(iv, s, v) == RegsIn(PoolFor(iv[v])) \subseteq BusyAt(iv, s, v)

\* w is the last active interval of v's class and ends after v.
IsVictim(iv, s, v, w) ==
    /\ w \in ActiveAt(iv, s, v) /\ iv[w].class = iv[v].class
    /\ iv[w].end > iv[v].end
    /\ \A a \in ActiveAt(iv, s, v) :
          iv[a].class = iv[v].class =>
             iv[a].end < iv[w].end \/ (iv[a].end = iv[w].end /\ Earlier(iv, a, w))

(* ------------------------------------------------- the outcomes of a step *)
\* v gets the free register r.
Assigned(iv, s, v, r) ==
    [todo |-> s.todo \ {v}, active |-> ActiveAt(iv, s, v) \cup {v},
     busy |-> BusyAt(iv, s, v) \cup {r}, phys |-> [s.phys EXCEPT ![v] = r],
     spilled |-> s.spilled, used |-> s.used \cup {r}]

\* v takes the register of w, which is spilled.
Stolen(iv, s, v, w) ==
    [todo |-> s.todo \ {v}, active |-> (ActiveAt(iv, s, v) \ {w}) \cup {v},
     busy |-> BusyAt(iv, s, v), phys |-> [s.phys EXCEPT ![v] = s.phys[w], ![w] = NONE],
     spilled |-> s.spilled \cup {w}, used |-> s.used]

\* v is spilled.
SpilledSelf(iv, s, v) ==
    [todo |-> s.todo \ {v}, active |-> ActiveAt(iv, s, v),
     busy |-> BusyAt(iv, s, v), phys |-> s.phys,
     spilled |-> s.spilled \cup {v}, used |-> s.used]

NothingAllocated(iv) ==
    [todo |-> DOMAIN iv, active |-> {}, busy |-> {},
     phys |-> [v \in DOMAIN iv |-> NONE], spilled |-> {}, used |-> {}]

(* -------------------------------------------------------------- the frame *)
\* x86_reg_is_caller_saved: every register that is neither callee-saved nor
\* absent.
IsCallerSaved(r) == r # NONE /\ r \notin RegsIn(CalleeSaved)

\* callee_saved_used: what the prologue pushes.
PushedRegs(s) == RegsIn(CalleeSaved) \cap s.used

\* Mutant: only spilled registers get a slot.
NeedsSlotIfSpilled(iv, s, v) == v \in s.spilled

\* needs_spill in x86_frame_build
NeedsSlot(iv, s, v) ==
    v \in s.spilled \/ (iv[v].crosses /\ IsCallerSaved(s.phys[v]))

\* Mutant: the pushed registers are not counted.
SlotOffsetNoPushed(iv, s, pushed, homes, v) ==
    - 8 * (homes + Cardinality({w \in DOMAIN iv : NeedsSlot(iv, s, w) /\ w <= v}))

\* The slots of virtual registers lie below the pushed registers and the
\* homes of parameters and variables (pushed and homes count them), in
\* numeric order, 8 bytes each.
SlotOffset(iv, s, pushed, homes, v) ==
    - 8 * (pushed + homes + Cardinality({w \in DOMAIN iv : NeedsSlot(iv, s, w) /\ w <= v}))

\* total_stack_size: with the pushed registers a multiple of 16.
FrameSize(iv, s, pushed, homes) ==
    LET words == pushed + homes + Cardinality({v \in DOMAIN iv : NeedsSlot(iv, s, v)})
    IN  8 * (words + (words % 2)) - 8 * pushed
=============================================================================
