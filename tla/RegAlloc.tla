------------------------------ MODULE RegAlloc ------------------------------
(***************************************************************************)
(* The register allocator of the native back end as a state machine: the   *)
(* main loop of regalloc_run takes the live intervals of a function in the *)
(* order of their starts and gives each a register or a stack slot;        *)
(* x86_frame_build then lays out the frame.                                *)
(***************************************************************************)
EXTENDS LinearScan

CONSTANTS Inputs,     \* the interval tables to allocate
          MaxHomes    \* bound on the slots of parameters and variables

\* What liveness analysis hands to the allocator: intervals by number, each
\* normalised to start before it ends.
IsTable(iv) ==
    /\ DOMAIN iv \subseteq Nat /\ IsFiniteSet(DOMAIN iv)
    /\ \A v \in DOMAIN iv : iv[v] \in LiveInterval /\ iv[v].start <= iv[v].end

ASSUME InputsAssumption ==
    /\ \A iv \in Inputs : IsTable(iv)
    /\ MaxHomes \in Nat

VARIABLES intervals,  \* of the function being compiled
          alloc,      \* the allocation (LinearScan)
          homes,      \* slots of parameters and variables
          frame       \* the stack frame, or NONE before it is built
vars == <<intervals, alloc, homes, frame>>

Values == DOMAIN intervals

Init ==
    /\ intervals \in Inputs
    /\ alloc = NothingAllocated(intervals)
    /\ homes \in 0 .. MaxHomes
    /\ frame = NONE

AssignFree(v) ==
    /\ IsNext(intervals, alloc, v)
    /\ \E r \in Regs : /\ IsFirstFree(intervals, alloc, v, r)
                       /\ alloc' = Assigned(intervals, alloc, v, r)
    /\ UNCHANGED <<intervals, homes, frame>>

SpillVictim(v) ==
    /\ IsNext(intervals, alloc, v)
    /\ NoneFree(intervals, alloc, v)
    /\ \E w \in Values : /\ IsVictim(intervals, alloc, v, w)
                         /\ alloc' = Stolen(intervals, alloc, v, w)
    /\ UNCHANGED <<intervals, homes, frame>>

SpillCurrent(v) ==
    /\ IsNext(intervals, alloc, v)
    /\ NoneFree(intervals, alloc, v)
    /\ \A w \in Values : ~ IsVictim(intervals, alloc, v, w)
    /\ alloc' = SpilledSelf(intervals, alloc, v)
    /\ UNCHANGED <<intervals, homes, frame>>

BuildFrame ==
    /\ alloc.todo = {} /\ frame = NONE
    /\ LET pushed == Cardinality(PushedRegs(alloc))
       IN  frame' = [pushed |-> pushed,
                     size |-> FrameSize(intervals, alloc, pushed, homes),
                     slot |-> [v \in {w \in Values : NeedsSlot(intervals, alloc, w)} |->
                                  SlotOffset(intervals, alloc, pushed, homes, v)]]
    /\ UNCHANGED <<intervals, alloc, homes>>

Next ==
    \/ \E v \in Values : AssignFree(v) \/ SpillVictim(v) \/ SpillCurrent(v)
    \/ BuildFrame

Spec == Init /\ [][Next]_vars

(* -------------------------------------------------------------- properties *)
\* The allocation is made of the function's virtual registers and of
\* registers of the pools.
TypeOK ==
    /\ IsTable(intervals)
    /\ homes \in 0 .. MaxHomes
    /\ alloc \in [todo : SUBSET Values, active : SUBSET Values, busy : SUBSET Regs,
                  phys : [Values -> Regs \cup {NONE}], spilled : SUBSET Values,
                  used : SUBSET Regs]

Overlap(v, w) == /\ intervals[v].start <= intervals[w].end
                 /\ intervals[w].start <= intervals[v].end

\* Two virtual registers that are live at the same point are never in the
\* same register (the expiry, the choice of a free register and the spilling
\* of a victim in regalloc_run).
NoSharing ==
    \A v, w \in Values :
        v # w /\ alloc.phys[v] # NONE /\ alloc.phys[v] = alloc.phys[w] => ~ Overlap(v, w)

\* A register is busy exactly while an active interval holds it: none leaks
\* and none is handed out twice (reg_busy).
BusyExact == alloc.busy = {alloc.phys[a] : a \in alloc.active}

\* When the frame is built every virtual register has a place, and one that
\* is live across a call survives it: in a callee-saved register that the
\* prologue pushes, or with a slot from which the call site reloads it
\* (callee_saved_used, needs_spill, reload_caller_saved_after_call).
PlacedAcrossCalls ==
    frame # NONE =>
        \A v \in Values :
            /\ alloc.phys[v] = NONE => v \in DOMAIN frame.slot
            /\ intervals[v].crosses => \/ v \in DOMAIN frame.slot
                                       \/ alloc.phys[v] \in PushedRegs(alloc)

\* The slots of the frame are apart from each other, from the pushed
\* registers and from the homes, inside the reserved stack, and the stack
\* is 16-byte aligned at calls (x86_frame_build).
FrameSafe ==
    frame # NONE =>
        /\ (8 * frame.pushed + frame.size) % 16 = 0
        /\ \A v \in DOMAIN frame.slot :
              /\ frame.slot[v] + 8 <= - 8 * (frame.pushed + homes)
              /\ frame.slot[v] >= - (8 * frame.pushed + frame.size)
              /\ \A w \in DOMAIN frame.slot :
                    v < w => frame.slot[w] + 8 <= frame.slot[v]

RegsOfClass(c) ==
    IF c = "float" THEN RegsIn(FloatPool) ELSE RegsIn(CallerSaved) \cup RegsIn(CalleeSaved)

\* Nothing is spilled while registers would do: a spilled interval has a
\* point in it where more intervals of its class are live than that class
\* has registers (the two pools tried in turn for integers, and the choice
\* between the victim and the current interval).
SpilledUnderPressure ==
    \A v \in alloc.spilled : \E p \in {intervals[w].start : w \in Values} :
        /\ intervals[v].start <= p /\ p <= intervals[v].end
        /\ Cardinality({w \in Values : /\ intervals[w].class = intervals[v].class
                                       /\ intervals[w].start <= p /\ p <= intervals[w].end})
             > Cardinality(RegsOfClass(intervals[v].class))
=============================================================================
