--------------------------- MODULE RegAllocProofs ---------------------------
(***************************************************************************)
(* The allocator and the frame, for any function and any register pools:   *)
(* two virtual registers live at the same time never share a register,     *)
(* every one has a place that survives the calls it is live across, the    *)
(* slots of the frame are apart, and nothing is spilled without pressure.  *)
(***************************************************************************)
EXTENDS RegAlloc, FiniteSetTheorems, TLAPS

(* The active intervals hold distinct, busy registers, and busy is nothing *)
(* else; an interval that was dropped from the active ones is over when    *)
(* any interval still to come starts; every register in use is recorded in *)
(* used, and every interval that was taken has a register or is spilled.   *)
ActiveDistinct ==
  \A a, b \in alloc.active : a # b => alloc.phys[a] # alloc.phys[b]
ActiveHold ==
  \A a \in alloc.active : a \notin alloc.todo /\ alloc.phys[a] # NONE
DroppedAreOver ==
  \A v \in Values : \/ v \in alloc.todo \cup alloc.active
                    \/ alloc.phys[v] = NONE
                    \/ \A w \in alloc.todo : intervals[v].end < intervals[w].start
TodoUntouched == \A v \in alloc.todo : alloc.phys[v] = NONE
Recorded ==
  \A v \in Values : /\ alloc.phys[v] # NONE => alloc.phys[v] \in alloc.used
                    /\ v \in alloc.todo \cup alloc.spilled \/ alloc.phys[v] # NONE

AllocInv == /\ TypeOK /\ BusyExact /\ NoSharing
            /\ ActiveDistinct /\ ActiveHold /\ DroppedAreOver /\ TodoUntouched /\ Recorded

(* Nothing is allocated at first.                                          *)
LEMMA AllocInit == Init => AllocInv
  <1> SUFFICES ASSUME Init PROVE AllocInv
    OBVIOUS
  <1>1. IsTable(intervals) /\ homes \in 0 .. MaxHomes
    BY InputsAssumption DEF Init
  <1>2. alloc = [todo |-> Values, active |-> {}, busy |-> {},
                 phys |-> [v \in Values |-> NONE], spilled |-> {}, used |-> {}]
    BY DEF Init, NothingAllocated, Values
  <1> QED
    BY <1>1, <1>2 DEF AllocInv, TypeOK, BusyExact, NoSharing, ActiveDistinct,
       ActiveHold, DroppedAreOver, TodoUntouched, Recorded

(* What expiring the intervals that end before v starts leaves: the        *)
(* remaining active intervals still hold exactly the busy registers, and   *)
(* an interval outside them that has a register ended before v starts.     *)
LEMMA Expiry ==
  ASSUME AllocInv, NEW v \in Values, IsNext(intervals, alloc, v)
  PROVE  /\ ActiveAt(intervals, alloc, v) \subseteq alloc.active
         /\ v \notin ActiveAt(intervals, alloc, v)
         /\ BusyAt(intervals, alloc, v)
              = {alloc.phys[a] : a \in ActiveAt(intervals, alloc, v)}
         /\ \A u \in Values : \/ u \in alloc.todo
                              \/ u \in ActiveAt(intervals, alloc, v)
                              \/ alloc.phys[u] = NONE
                              \/ intervals[u].end < intervals[v].start
         /\ \A w \in alloc.todo : intervals[v].start <= intervals[w].start
  <1> DEFINE A == ActiveAt(intervals, alloc, v)
  <1>0. /\ v \in alloc.todo
        /\ alloc.todo \subseteq Values /\ alloc.active \subseteq Values
        /\ \A u \in Values : /\ intervals[u].start \in Nat /\ intervals[u].end \in Nat
    BY DEF AllocInv, TypeOK, IsNext, IsTable, LiveInterval, Values
  <1>1. A \subseteq alloc.active
    BY DEF ActiveAt
  <1>2. v \notin A
    BY <1>0, <1>1 DEF AllocInv, ActiveHold
  <1>3. BusyAt(intervals, alloc, v) = {alloc.phys[a] : a \in A}
    <2>1. alloc.busy = {alloc.phys[a] : a \in alloc.active}
      BY DEF AllocInv, BusyExact
    <2>2. \A a \in A, b \in alloc.active \ A : alloc.phys[a] # alloc.phys[b]
      BY <1>1 DEF AllocInv, ActiveDistinct
    <2> HIDE DEF A
    <2>3. BusyAt(intervals, alloc, v) = alloc.busy \ {alloc.phys[a] : a \in alloc.active \ A}
      BY DEF BusyAt, A
    <2> QED
      BY <1>1, <2>1, <2>2, <2>3
  <1>4. ASSUME NEW u \in Values, u \notin alloc.todo, u \notin A, alloc.phys[u] # NONE
        PROVE  intervals[u].end < intervals[v].start
    <2>1. CASE u \in alloc.active
      BY <1>0, <1>4, <2>1 DEF ActiveAt
    <2>2. CASE u \notin alloc.active
      BY <1>0, <1>4, <2>2 DEF AllocInv, DroppedAreOver
    <2> QED BY <2>1, <2>2
  <1>5. \A w \in alloc.todo : intervals[v].start <= intervals[w].start
    BY <1>0 DEF IsNext, Earlier
  <1> QED
    BY <1>1, <1>2, <1>3, <1>4, <1>5

(* Taking a free register preserves the invariant: whoever else has had    *)
(* the register is over, because those who are not hold busy registers.    *)
LEMMA AssignStep ==
  ASSUME AllocInv, NEW v \in Values, AssignFree(v)
  PROVE  AllocInv'
  <1> DEFINE A == ActiveAt(intervals, alloc, v)
             B == BusyAt(intervals, alloc, v)
  <1>0. PICK r \in Regs : /\ IsFirstFree(intervals, alloc, v, r)
                         /\ alloc' = Assigned(intervals, alloc, v, r)
    BY DEF AssignFree
  <1>1. IsNext(intervals, alloc, v) /\ intervals' = intervals /\ homes' = homes
    BY DEF AssignFree
  <1>2. v \in alloc.todo /\ Values' = Values
    BY <1>1 DEF IsNext, Values
  <1>3. r \notin B /\ r # NONE
    BY <1>0, PoolsAssumption DEF IsFirstFree
  <1>4. /\ alloc'.todo = alloc.todo \ {v} /\ alloc'.active = A \cup {v}
        /\ alloc'.busy = B \cup {r} /\ alloc'.phys = [alloc.phys EXCEPT ![v] = r]
        /\ alloc'.spilled = alloc.spilled /\ alloc'.used = alloc.used \cup {r}
    BY <1>0 DEF Assigned
  <1>5. /\ A \subseteq alloc.active /\ v \notin A
        /\ B = {alloc.phys[a] : a \in A}
        /\ \A u \in Values : \/ u \in alloc.todo \/ u \in A \/ alloc.phys[u] = NONE
                             \/ intervals[u].end < intervals[v].start
        /\ \A w \in alloc.todo : intervals[v].start <= intervals[w].start
    BY <1>1, Expiry
  <1>6. /\ alloc.active \subseteq Values /\ alloc.todo \subseteq Values
        /\ alloc.phys \in [Values -> Regs \cup {NONE}]
        /\ \A u \in Values : /\ intervals[u].start \in Nat /\ intervals[u].end \in Nat
                             /\ intervals[u].start <= intervals[u].end
    BY DEF AllocInv, TypeOK, IsTable, LiveInterval, Values
  <1> HIDE DEF A, B
  <1>7. /\ alloc'.phys[v] = r
        /\ \A u \in Values \ {v} : alloc'.phys[u] = alloc.phys[u]
    BY <1>4, <1>6
  <1>8. TypeOK'
    <2>1. alloc' = [todo |-> alloc.todo \ {v}, active |-> A \cup {v}, busy |-> B \cup {r},
                    phys |-> [alloc.phys EXCEPT ![v] = r], spilled |-> alloc.spilled,
                    used |-> alloc.used \cup {r}]
      BY <1>0 DEF Assigned, A, B
    <2>2. B \subseteq Regs
      BY DEF B, BusyAt, AllocInv, TypeOK
    <2> QED
      BY <1>1, <1>2, <1>5, <1>6, <2>1, <2>2 DEF AllocInv, TypeOK
  <1>9. BusyExact'
    BY <1>4, <1>5, <1>6, <1>7 DEF BusyExact
  <1>10. NoSharing'
    <2> SUFFICES ASSUME NEW u \in Values, NEW w \in Values, u # w,
                        alloc'.phys[u] # NONE, alloc'.phys[u] = alloc'.phys[w]
                 PROVE  ~ Overlap(u, w)
      BY <1>1, <1>2 DEF NoSharing, Overlap
    <2>1. CASE u # v /\ w # v
      BY <1>7, <2>1 DEF AllocInv, NoSharing
    <2>2. ASSUME NEW x \in Values, x # v, alloc'.phys[x] = r
          PROVE  intervals[x].end < intervals[v].start
      <3>1. alloc.phys[x] = r
        BY <1>7, <2>2
      <3>2. x \notin A
        BY <1>3, <1>5, <3>1
      <3>3. x \notin alloc.todo
        BY <1>3, <3>1 DEF AllocInv, TodoUntouched
      <3> QED
        BY <1>3, <1>5, <3>1, <3>2, <3>3
    <2> QED
      BY <1>6, <1>7, <2>1, <2>2 DEF Overlap
  <1>11. ActiveDistinct'
    <2>1. \A a \in A : alloc.phys[a] # r
      BY <1>3, <1>5
    <2> QED
      BY <1>4, <1>5, <1>6, <1>7, <2>1 DEF AllocInv, ActiveDistinct
  <1>12. ActiveHold' /\ TodoUntouched'
    BY <1>2, <1>3, <1>4, <1>5, <1>6, <1>7 DEF AllocInv, ActiveHold, TodoUntouched
  <1>13. DroppedAreOver'
    BY <1>1, <1>2, <1>4, <1>5, <1>6, <1>7 DEF DroppedAreOver
  <1>14. Recorded'
    BY <1>2, <1>3, <1>4, <1>6, <1>7 DEF AllocInv, Recorded
  <1> QED
    BY <1>8, <1>9, <1>10, <1>11, <1>12, <1>13, <1>14 DEF AllocInv

(* Taking the register of an active interval preserves it: the victim is   *)
(* the only one not over yet that holds that register, and gives it up.    *)
LEMMA StealStep ==
  ASSUME AllocInv, NEW v \in Values, SpillVictim(v)
  PROVE  AllocInv'
  <1> DEFINE A == ActiveAt(intervals, alloc, v)
             B == BusyAt(intervals, alloc, v)
  <1>0. PICK x \in Values : /\ IsVictim(intervals, alloc, v, x)
                           /\ alloc' = Stolen(intervals, alloc, v, x)
    BY DEF SpillVictim
  <1> DEFINE r == alloc.phys[x]
  <1>1. IsNext(intervals, alloc, v) /\ intervals' = intervals /\ homes' = homes
    BY DEF SpillVictim
  <1>2. v \in alloc.todo /\ Values' = Values
    BY <1>1 DEF IsNext, Values
  <1>3. x \in A
    BY <1>0 DEF IsVictim
  <1>4. /\ alloc'.todo = alloc.todo \ {v} /\ alloc'.active = (A \ {x}) \cup {v}
        /\ alloc'.busy = B /\ alloc'.phys = [alloc.phys EXCEPT ![v] = r, ![x] = NONE]
        /\ alloc'.spilled = alloc.spilled \cup {x} /\ alloc'.used = alloc.used
    BY <1>0 DEF Stolen
  <1>5. /\ A \subseteq alloc.active /\ v \notin A
        /\ B = {alloc.phys[a] : a \in A}
        /\ \A u \in Values : \/ u \in alloc.todo \/ u \in A \/ alloc.phys[u] = NONE
                             \/ intervals[u].end < intervals[v].start
        /\ \A w \in alloc.todo : intervals[v].start <= intervals[w].start
    BY <1>1, Expiry
  <1>6. /\ alloc.active \subseteq Values /\ alloc.todo \subseteq Values
        /\ alloc.phys \in [Values -> Regs \cup {NONE}]
        /\ \A u \in Values : /\ intervals[u].start \in Nat /\ intervals[u].end \in Nat
                             /\ intervals[u].start <= intervals[u].end
    BY DEF AllocInv, TypeOK, IsTable, LiveInterval, Values
  <1>a. TypeOK'
    <2>1. alloc' = [todo |-> alloc.todo \ {v}, active |-> (A \ {x}) \cup {v}, busy |-> B,
                    phys |-> [alloc.phys EXCEPT ![v] = r, ![x] = NONE],
                    spilled |-> alloc.spilled \cup {x}, used |-> alloc.used]
      BY <1>0 DEF Stolen
    <2>2. B \subseteq Regs
      BY DEF BusyAt, AllocInv, TypeOK
    <2>3. r \in Regs \cup {NONE}
      BY <1>6
    <2> HIDE DEF A, B, r
    <2> QED
      BY <1>1, <1>2, <1>5, <1>6, <2>1, <2>2, <2>3 DEF AllocInv, TypeOK
  <1> HIDE DEF A, B
  <1>7. /\ x # v /\ r # NONE
        /\ \A a \in A \ {x} : alloc.phys[a] # r
    BY <1>3, <1>5 DEF AllocInv, ActiveHold, ActiveDistinct
  <1>8. /\ alloc'.phys[v] = r /\ alloc'.phys[x] = NONE
        /\ \A u \in Values \ {v, x} : alloc'.phys[u] = alloc.phys[u]
    BY <1>4, <1>6, <1>7
  <1>r. r = alloc.phys[x]
    OBVIOUS
  <1> HIDE DEF r
  <1>9. BusyExact'
    <2>1. B = {alloc.phys[a] : a \in A \ {x}} \cup {r}
      BY <1>3, <1>5, <1>r
    <2>2. \A a \in A \ {x} : alloc'.phys[a] = alloc.phys[a]
      BY <1>5, <1>6, <1>8
    <2> QED
      BY <1>4, <1>8, <2>1, <2>2 DEF BusyExact
  <1>10. NoSharing'
    <2> SUFFICES ASSUME NEW u \in Values, NEW w \in Values, u # w,
                        alloc'.phys[u] # NONE, alloc'.phys[u] = alloc'.phys[w]
                 PROVE  ~ Overlap(u, w)
      BY <1>1, <1>2 DEF NoSharing, Overlap
    <2>0. u # x /\ w # x
      BY <1>8
    <2>1. CASE u # v /\ w # v
      BY <1>8, <2>0, <2>1 DEF AllocInv, NoSharing
    <2>2. ASSUME NEW y \in Values, y # v, y # x, alloc'.phys[y] = r
          PROVE  intervals[y].end < intervals[v].start
      <3>1. alloc.phys[y] = r
        BY <1>8, <2>2
      <3>2. y \notin A
        BY <1>7, <2>2, <3>1
      <3>3. y \notin alloc.todo
        BY <1>7, <3>1 DEF AllocInv, TodoUntouched
      <3> QED
        BY <1>5, <1>7, <3>1, <3>2, <3>3
    <2> QED
      BY <1>6, <1>8, <2>0, <2>1, <2>2 DEF Overlap
  <1>11. ActiveDistinct'
    BY <1>4, <1>5, <1>6, <1>7, <1>8 DEF AllocInv, ActiveDistinct
  <1>12. ActiveHold' /\ TodoUntouched'
    BY <1>2, <1>4, <1>5, <1>6, <1>7, <1>8 DEF AllocInv, ActiveHold, TodoUntouched
  <1>13. DroppedAreOver'
    BY <1>1, <1>2, <1>4, <1>5, <1>6, <1>8 DEF DroppedAreOver
  <1>14. Recorded'
    BY <1>2, <1>4, <1>6, <1>7, <1>8, <1>r DEF AllocInv, Recorded
  <1> QED
    BY <1>a, <1>9, <1>10, <1>11, <1>12, <1>13, <1>14 DEF AllocInv

(* Spilling the current interval only expires the old ones.                *)
LEMMA SpillStep ==
  ASSUME AllocInv, NEW v \in Values, SpillCurrent(v)
  PROVE  AllocInv'
  <1> DEFINE A == ActiveAt(intervals, alloc, v)
             B == BusyAt(intervals, alloc, v)
  <1>1. IsNext(intervals, alloc, v) /\ intervals' = intervals /\ homes' = homes
    BY DEF SpillCurrent
  <1>2. v \in alloc.todo /\ Values' = Values
    BY <1>1 DEF IsNext, Values
  <1>3. alloc' = [todo |-> alloc.todo \ {v}, active |-> A, busy |-> B, phys |-> alloc.phys,
                  spilled |-> alloc.spilled \cup {v}, used |-> alloc.used]
    BY DEF SpillCurrent, SpilledSelf
  <1>4. /\ A \subseteq alloc.active /\ v \notin A
        /\ B = {alloc.phys[a] : a \in A}
        /\ \A u \in Values : \/ u \in alloc.todo \/ u \in A \/ alloc.phys[u] = NONE
                             \/ intervals[u].end < intervals[v].start
        /\ \A w \in alloc.todo : intervals[v].start <= intervals[w].start
    BY <1>1, Expiry
  <1>5. /\ alloc.todo \subseteq Values
        /\ \A u \in Values : intervals[u].start \in Nat /\ intervals[u].end \in Nat
    BY DEF AllocInv, TypeOK, IsTable, LiveInterval, Values
  <1>6. B \subseteq Regs
    BY DEF BusyAt, AllocInv, TypeOK
  <1> HIDE DEF A, B
  <1>7. TypeOK'
    BY <1>1, <1>2, <1>3, <1>4, <1>6 DEF AllocInv, TypeOK
  <1>8. BusyExact'
    BY <1>3, <1>4 DEF BusyExact
  <1>9. NoSharing'
    BY <1>1, <1>2, <1>3 DEF AllocInv, NoSharing, Overlap
  <1>10. ActiveDistinct' /\ ActiveHold' /\ TodoUntouched'
    BY <1>3, <1>4 DEF AllocInv, ActiveDistinct, ActiveHold, TodoUntouched
  <1>11. DroppedAreOver'
    <2>1. alloc.phys[v] = NONE
      BY <1>2 DEF AllocInv, TodoUntouched
    <2> QED
      BY <1>1, <1>2, <1>3, <1>4, <1>5, <2>1 DEF DroppedAreOver
  <1>12. Recorded'
    BY <1>2, <1>3 DEF AllocInv, Recorded
  <1> QED
    BY <1>7, <1>8, <1>9, <1>10, <1>11, <1>12 DEF AllocInv

(* Every step of the allocator preserves the invariant; building the frame *)
(* leaves the allocation alone.                                            *)
LEMMA AllocStep == AllocInv /\ [Next]_vars => AllocInv'
  <1> SUFFICES ASSUME AllocInv, [Next]_vars PROVE AllocInv'
    OBVIOUS
  <1>1. CASE \E v \in Values : AssignFree(v) \/ SpillVictim(v) \/ SpillCurrent(v)
    BY <1>1, AssignStep, StealStep, SpillStep
  <1>2. CASE UNCHANGED <<intervals, alloc, homes>>
    BY <1>2 DEF AllocInv, TypeOK, BusyExact, NoSharing, Overlap, ActiveDistinct, ActiveHold,
       DroppedAreOver, TodoUntouched, Recorded, Values
  <1> QED
    BY <1>1, <1>2 DEF Next, vars, BuildFrame

(* The invariant holds throughout regalloc_run.                            *)
THEOREM AllocSafe == Spec => []AllocInv
  BY AllocInit, AllocStep, PTL DEF Spec

(* Two virtual registers live at the same time never share a register, for *)
(* every function, every set of pools and any number of spills.            *)
THEOREM SharingSafe == Spec => []NoSharing
  <1>1. AllocInv => NoSharing BY DEF AllocInv
  <1> QED BY <1>1, AllocSafe, PTL

(* reg_busy is exact throughout the scan.                                  *)
THEOREM BusySafe == Spec => []BusyExact
  <1>1. AllocInv => BusyExact BY DEF AllocInv
  <1> QED BY <1>1, AllocSafe, PTL

(* The allocation stays within the function's registers and the pools.     *)
THEOREM TypeSafe == Spec => []TypeOK
  <1>1. AllocInv => TypeOK BY DEF AllocInv
  <1> QED BY <1>1, AllocSafe, PTL

(* ------------------------------------------------------------- the frame *)
(* The virtual registers with a slot, and how many of them have a slot no  *)
(* lower in the frame than v's.                                            *)
Slotted == {w \in Values : NeedsSlot(intervals, alloc, w)}
SlotRank(v) == Cardinality({w \in Values : NeedsSlot(intervals, alloc, w) /\ w <= v})

(* Once the frame is built nothing is left to allocate, and the frame is   *)
(* that of the final allocation.                                           *)
FrameBuilt ==
  frame # NONE =>
    /\ alloc.todo = {}
    /\ frame.pushed = Cardinality(PushedRegs(alloc))
    /\ frame.size = FrameSize(intervals, alloc, frame.pushed, homes)
    /\ frame.slot = [v \in Slotted |-> SlotOffset(intervals, alloc, frame.pushed, homes, v)]

(* The frame is built when the scan is over, and no step follows that.     *)
LEMMA FrameStep == FrameBuilt /\ [Next]_vars => FrameBuilt'
  <1> SUFFICES ASSUME FrameBuilt, [Next]_vars PROVE FrameBuilt'
    OBVIOUS
  <1>1. CASE \E v \in Values : AssignFree(v) \/ SpillVictim(v) \/ SpillCurrent(v)
    <2>1. frame' = frame /\ alloc.todo # {}
      BY <1>1 DEF AssignFree, SpillVictim, SpillCurrent, IsNext
    <2> QED
      BY <2>1 DEF FrameBuilt
  <1>2. CASE BuildFrame
    <2>1. /\ alloc.todo = {} /\ intervals' = intervals /\ alloc' = alloc /\ homes' = homes
          /\ frame' = [pushed |-> Cardinality(PushedRegs(alloc)),
                       size |-> FrameSize(intervals, alloc, Cardinality(PushedRegs(alloc)), homes),
                       slot |-> [v \in Slotted |->
                         SlotOffset(intervals, alloc, Cardinality(PushedRegs(alloc)), homes, v)]]
      BY <1>2 DEF BuildFrame, Slotted
    <2>2. Slotted' = Slotted
      BY <2>1 DEF Slotted, Values
    <2> QED
      BY <2>1, <2>2 DEF FrameBuilt
  <1>3. CASE UNCHANGED vars
    <2>1. Slotted' = Slotted
      BY <1>3 DEF Slotted, Values, vars
    <2> QED
      BY <1>3, <2>1 DEF FrameBuilt, vars
  <1> QED
    BY <1>1, <1>2, <1>3 DEF Next

(* The frame is always that of a finished allocation.                      *)
LEMMA FrameAlways == Spec => []FrameBuilt
  <1>1. Init => FrameBuilt
    BY DEF Init, FrameBuilt
  <1> QED
    BY <1>1, FrameStep, PTL DEF Spec

(* For every function and all pools: when the frame is built each virtual  *)
(* register has a register or a slot, and one that is live across a call   *)
(* is in a pushed callee-saved register or has a slot to be reloaded from. *)
THEOREM PlacedSafe == Spec => []PlacedAcrossCalls
  <1>1. AllocInv /\ FrameBuilt => PlacedAcrossCalls
    <2> SUFFICES ASSUME AllocInv, FrameBuilt, frame # NONE, NEW v \in Values
                 PROVE  /\ alloc.phys[v] = NONE => v \in DOMAIN frame.slot
                        /\ intervals[v].crosses => \/ v \in DOMAIN frame.slot
                                                   \/ alloc.phys[v] \in PushedRegs(alloc)
      BY DEF PlacedAcrossCalls
    <2>1. alloc.todo = {} /\ DOMAIN frame.slot = Slotted
      BY DEF FrameBuilt
    <2>2. alloc.phys[v] = NONE => v \in Slotted
      BY <2>1 DEF AllocInv, Recorded, Slotted, NeedsSlot
    <2>3. ASSUME intervals[v].crosses, v \notin Slotted
          PROVE  alloc.phys[v] \in PushedRegs(alloc)
      <3>1. alloc.phys[v] # NONE
        BY <2>2, <2>3
      <3>2. alloc.phys[v] \in RegsIn(CalleeSaved)
        BY <2>3, <3>1 DEF Slotted, NeedsSlot, IsCallerSaved
      <3>3. alloc.phys[v] \in alloc.used
        BY <3>1 DEF AllocInv, Recorded
      <3> QED
        BY <3>2, <3>3 DEF PushedRegs
    <2> QED
      BY <2>1, <2>2, <2>3
  <1> QED
    BY <1>1, AllocSafe, FrameAlways, PTL

(* A pool has finitely many registers.                                     *)
LEMMA PoolFinite ==
  ASSUME NEW pool \in {CallerSaved, CalleeSaved, FloatPool}
  PROVE  IsFiniteSet(RegsIn(pool))
  <1>1. pool \in Seq(RegsIn(pool))
    BY PoolsAssumption
  <1>2. DOMAIN pool = 1 .. Len(pool) /\ Len(pool) \in Nat
    BY <1>1
  <1>3. IsFiniteSet(1 .. Len(pool))
    BY <1>2, FS_Interval
  <1>4. pool \in Surjection(1 .. Len(pool), RegsIn(pool))
    BY <1>1, <1>2 DEF RegsIn, Surjection
  <1> QED
    BY <1>3, <1>4, FS_Surjection

(* Slots are numbered 1, 2, ... by register: a register's number is at     *)
(* least 1, at most the number of slots, and grows with the register.      *)
LEMMA SlotRanks ==
  ASSUME AllocInv
  PROVE  /\ IsFiniteSet(Slotted) /\ Cardinality(Slotted) \in Nat
         /\ \A v \in Slotted :
              /\ SlotRank(v) \in 1 .. Cardinality(Slotted)
              /\ \A w \in Slotted : v < w => SlotRank(v) + 1 <= SlotRank(w)
  <1> DEFINE Below(v) == {w \in Values : NeedsSlot(intervals, alloc, w) /\ w <= v}
  <1>1. IsFiniteSet(Values) /\ Values \subseteq Nat
    BY DEF AllocInv, TypeOK, IsTable, Values
  <1>2. Slotted \subseteq Values
    BY DEF Slotted
  <1>3. IsFiniteSet(Slotted) /\ Cardinality(Slotted) \in Nat
    BY <1>1, <1>2, FS_Subset, FS_CardinalityType
  <1>4. ASSUME NEW v \in Slotted
        PROVE  /\ Below(v) \subseteq Slotted /\ v \in Below(v)
               /\ IsFiniteSet(Below(v)) /\ SlotRank(v) = Cardinality(Below(v))
    <2>1. Below(v) \subseteq Slotted
      BY DEF Slotted
    <2>2. v \in Below(v)
      BY <1>1, <1>2 DEF Slotted
    <2> QED
      BY <1>3, <2>1, <2>2, FS_Subset DEF SlotRank
  <1> HIDE DEF Below
  <1>5. ASSUME NEW v \in Slotted
        PROVE  SlotRank(v) \in 1 .. Cardinality(Slotted)
    <2>1. Cardinality(Below(v)) \in Nat /\ Cardinality(Below(v)) <= Cardinality(Slotted)
      BY <1>3, <1>4, FS_Subset, FS_CardinalityType
    <2>2. Cardinality(Below(v)) # 0
      BY <1>4, FS_EmptySet
    <2> QED
      BY <1>3, <1>4, <2>1, <2>2
  <1>6. ASSUME NEW v \in Slotted, NEW w \in Slotted, v < w
        PROVE  SlotRank(v) + 1 <= SlotRank(w)
    <2>1. w \notin Below(v)
      BY <1>1, <1>2, <1>6 DEF Below
    <2>2. Below(v) \cup {w} \subseteq Below(w)
      <3>1. \A u \in Below(v) : u <= w
        BY <1>1, <1>2, <1>6 DEF Below
      <3>2. Below(v) \subseteq Below(w)
        BY <3>1 DEF Below
      <3> QED
        BY <1>4, <3>2
    <2>3. /\ IsFiniteSet(Below(v) \cup {w})
          /\ Cardinality(Below(v) \cup {w}) = Cardinality(Below(v)) + 1
      BY <1>4, <2>1, FS_AddElement
    <2>4. Cardinality(Below(v) \cup {w}) <= Cardinality(Below(w))
      BY <1>4, <2>2, FS_Subset
    <2> QED
      BY <1>4, <2>3, <2>4
  <1> QED
    BY <1>3, <1>5, <1>6

(* For every function, all pools and any number of homes: the slots lie    *)
(* below the pushed registers and the homes, inside the reserved stack and *)
(* apart from each other, and the stack is 16-byte aligned at calls.       *)
THEOREM FrameLayoutSafe == Spec => []FrameSafe
  <1>1. AllocInv /\ FrameBuilt => FrameSafe
    <2> SUFFICES ASSUME AllocInv, FrameBuilt, frame # NONE
                 PROVE  /\ (8 * frame.pushed + frame.size) % 16 = 0
                        /\ \A v \in DOMAIN frame.slot :
                             /\ frame.slot[v] + 8 <= - 8 * (frame.pushed + homes)
                             /\ frame.slot[v] >= - (8 * frame.pushed + frame.size)
                             /\ \A w \in DOMAIN frame.slot :
                                   v < w => frame.slot[w] + 8 <= frame.slot[v]
      BY DEF FrameSafe
    <2> DEFINE N == Cardinality(Slotted)
               words == frame.pushed + homes + N
    <2>1. frame.pushed \in Nat
      <3>1. IsFiniteSet(RegsIn(CalleeSaved))
        BY PoolFinite
      <3>2. IsFiniteSet(PushedRegs(alloc))
        BY <3>1, FS_Subset DEF PushedRegs
      <3> QED
        BY <3>2, FS_CardinalityType DEF FrameBuilt
    <2>2. homes \in Nat
      BY InputsAssumption DEF AllocInv, TypeOK
    <2>3. /\ N \in Nat
          /\ \A v \in Slotted :
               /\ SlotRank(v) \in 1 .. N
               /\ \A w \in Slotted : v < w => SlotRank(v) + 1 <= SlotRank(w)
      BY SlotRanks
    <2>4. frame.size = 8 * (words + (words % 2)) - 8 * frame.pushed
      BY DEF FrameBuilt, FrameSize, Slotted, Values
    <2>5. /\ DOMAIN frame.slot = Slotted
          /\ \A v \in Slotted : frame.slot[v] = - 8 * (frame.pushed + homes + SlotRank(v))
      BY DEF FrameBuilt, SlotOffset, SlotRank, Values
    <2> HIDE DEF N
    <2>6. words \in Nat /\ words % 2 \in 0 .. 1
      BY <2>1, <2>2, <2>3
    <2>7. (8 * frame.pushed + frame.size) % 16 = 0
      <3> DEFINE even == words + (words % 2)
      <3>1. even \in Nat /\ even % 2 = 0
        BY <2>6
      <3>2. 8 * frame.pushed + frame.size = 8 * even
        BY <2>1, <2>4, <3>1
      <3> HIDE DEF even
      <3>3. (8 * even) % 16 = 0
        BY <3>1
      <3> QED
        BY <3>2, <3>3
    <2>8. ASSUME NEW v \in Slotted
          PROVE  /\ frame.slot[v] + 8 <= - 8 * (frame.pushed + homes)
                 /\ frame.slot[v] >= - (8 * frame.pushed + frame.size)
                 /\ \A w \in Slotted : v < w => frame.slot[w] + 8 <= frame.slot[v]
      <3>1. /\ SlotRank(v) \in 1 .. N
            /\ frame.slot[v] = - 8 * (frame.pushed + homes + SlotRank(v))
        BY <2>3, <2>5
      <3>2. 8 * frame.pushed + frame.size >= 8 * (frame.pushed + homes + N)
        BY <2>1, <2>2, <2>3, <2>4, <2>6
      <3>3. 8 * frame.pushed + frame.size \in Int
        BY <2>1, <2>2, <2>3, <2>4, <2>6
      <3>4. frame.slot[v] >= - (8 * frame.pushed + frame.size)
        <4> HIDE DEF words
        <4> DEFINE top == 8 * frame.pushed + frame.size
        <4>1. top \in Int /\ top >= 8 * (frame.pushed + homes + N)
          BY <3>2, <3>3
        <4> HIDE DEF top
        <4>2. - 8 * (frame.pushed + homes + SlotRank(v)) >= - top
          BY <2>1, <2>2, <2>3, <3>1, <4>1
        <4> QED BY <3>1, <4>2 DEF top
      <3> QED
        BY <2>1, <2>2, <2>3, <2>5, <3>1, <3>4
    <2> QED
      BY <2>5, <2>7, <2>8
  <1> QED
    BY <1>1, AllocSafe, FrameAlways, PTL

(* ---------------------------------------------------------- the spilling *)
(* An interval holds a register of its own class, and the intervals that   *)
(* were taken start no later than those still to come.                     *)
OwnClass ==
  \A v \in Values : alloc.phys[v] # NONE => alloc.phys[v] \in RegsOfClass(intervals[v].class)
TakenInOrder ==
  \A a \in Values \ alloc.todo, w \in alloc.todo : intervals[a].start <= intervals[w].start

(* The spill of x is justified by a point of high pressure inside it; this *)
(* depends on the interval table only, which no step changes.              *)
Justified(iv, x) ==
  \E p \in {iv[w].start : w \in DOMAIN iv} :
    /\ iv[x].start <= p /\ p <= iv[x].end
    /\ Cardinality({w \in DOMAIN iv : /\ iv[w].class = iv[x].class
                                     /\ iv[w].start <= p /\ p <= iv[w].end})
         > Cardinality(RegsOfClass(iv[x].class))

SpillsJustified == \A x \in alloc.spilled : Justified(intervals, x)

SpillInv == OwnClass /\ TakenInOrder /\ SpillsJustified

(* Whatever the order in which the pools are tried, they are the registers *)
(* of the interval's class.                                                *)
LEMMA PoolOfClass ==
  ASSUME NEW i \in LiveInterval
  PROVE  RegsIn(PoolFor(i)) = RegsOfClass(i.class)
  <1>1. ASSUME NEW a \in {CallerSaved, CalleeSaved}, NEW b \in {CallerSaved, CalleeSaved}
        PROVE  RegsIn(a \o b) = RegsIn(a) \cup RegsIn(b)
    <2>1. a \in Seq(Regs) /\ b \in Seq(Regs)
      BY PoolsAssumption DEF Regs
    <2>2. /\ DOMAIN a = 1 .. Len(a) /\ Len(a) \in Nat
          /\ DOMAIN b = 1 .. Len(b) /\ Len(b) \in Nat
          /\ DOMAIN (a \o b) = 1 .. Len(a) + Len(b)
          /\ \A n \in 1 .. Len(a) : (a \o b)[n] = a[n]
          /\ \A n \in Len(a) + 1 .. Len(a) + Len(b) : (a \o b)[n] = b[n - Len(a)]
      BY <2>1
    <2>3. ASSUME NEW n \in DOMAIN b
          PROVE  n + Len(a) \in DOMAIN (a \o b) /\ (a \o b)[n + Len(a)] = b[n]
      BY <2>2, <2>3
    <2>4. RegsIn(a) \cup RegsIn(b) \subseteq RegsIn(a \o b)
      <3>1. ASSUME NEW n \in DOMAIN a
            PROVE  n \in DOMAIN (a \o b) /\ (a \o b)[n] = a[n]
        BY <2>2, <3>1
      <3> DEFINE ab == a \o b
      <3> HIDE DEF ab
      <3>2. RegsIn(a) \subseteq RegsIn(ab)
        BY <3>1 DEF RegsIn, ab
      <3>3. RegsIn(b) \subseteq RegsIn(ab)
        BY <2>3 DEF RegsIn, ab
      <3> QED
        BY <3>2, <3>3 DEF ab
    <2>5. ASSUME NEW n \in DOMAIN (a \o b)
          PROVE  (a \o b)[n] \in RegsIn(a) \cup RegsIn(b)
      <3>1. CASE n <= Len(a)
        BY <2>2, <3>1 DEF RegsIn
      <3>2. CASE n > Len(a)
        <4>1. n - Len(a) \in DOMAIN b /\ (a \o b)[n] = b[n - Len(a)]
          BY <2>2, <3>2
        <4> QED
          BY <4>1 DEF RegsIn
      <3> QED
        BY <2>2, <3>1, <3>2
    <2> QED
      BY <2>4, <2>5 DEF RegsIn
  <1> QED
    BY <1>1 DEF PoolFor, RegsOfClass

(* Expressed for one point: where no register of v's class is free, more   *)
(* intervals of that class are live than it has registers.                 *)
LEMMA Pressure ==
  ASSUME AllocInv, OwnClass, TakenInOrder, NEW v \in Values,
         IsNext(intervals, alloc, v), NoneFree(intervals, alloc, v)
  PROVE  Cardinality({w \in Values : /\ intervals[w].class = intervals[v].class
                                     /\ intervals[w].start <= intervals[v].start
                                     /\ intervals[v].start <= intervals[w].end})
           > Cardinality(RegsOfClass(intervals[v].class))
  <1> DEFINE c == intervals[v].class
             A == ActiveAt(intervals, alloc, v)
             Held == {a \in A : alloc.phys[a] \in RegsOfClass(c)}
             Live == {w \in Values : /\ intervals[w].class = intervals[v].class
                                     /\ intervals[w].start <= intervals[v].start
                                     /\ intervals[v].start <= intervals[w].end}
  <1>1. /\ v \in alloc.todo /\ alloc.todo \subseteq Values /\ alloc.active \subseteq Values
        /\ IsFiniteSet(Values)
        /\ \A u \in Values : /\ intervals[u] \in LiveInterval
                             /\ intervals[u].start \in Nat /\ intervals[u].end \in Nat
                             /\ intervals[u].start <= intervals[u].end
                             /\ intervals[u].class \in {"int", "float"}
    BY DEF AllocInv, TypeOK, IsNext, IsTable, LiveInterval, Values
  <1>2. /\ A \subseteq alloc.active /\ v \notin A
        /\ BusyAt(intervals, alloc, v) = {alloc.phys[a] : a \in A}
    BY Expiry
  <1>3. RegsOfClass(c) \subseteq {alloc.phys[a] : a \in A}
    BY <1>1, <1>2, PoolOfClass DEF NoneFree
  <1>4. ASSUME NEW a \in Held PROVE a \in Live
    <2>1. a \in Values /\ a \notin alloc.todo /\ alloc.phys[a] # NONE
      BY <1>1, <1>2 DEF AllocInv, ActiveHold
    <2>2. alloc.phys[a] \in RegsOfClass(intervals[a].class)
      BY <2>1 DEF OwnClass
    <2>3. alloc.phys[a] \in RegsOfClass(c)
      OBVIOUS
    <2>4. intervals[a].class = c
      BY <1>1, <2>1, <2>2, <2>3, PoolsAssumption DEF RegsOfClass
    <2>5. intervals[a].start <= intervals[v].start
      BY <1>1, <2>1 DEF TakenInOrder
    <2>6. intervals[v].start <= intervals[a].end
      BY <1>1, <2>1 DEF ActiveAt
    <2> QED
      BY <2>1, <2>4, <2>5, <2>6
  <1>5. v \in Live
    BY <1>1
  <1>6. IsFiniteSet(Held) /\ IsFiniteSet(Live)
    <2>1. Held \subseteq Values /\ Live \subseteq Values
      BY <1>1, <1>2
    <2> QED
      BY <1>1, <2>1, FS_Subset
  <1> HIDE DEF A, c, Live
  <1>7. Cardinality(RegsOfClass(c)) <= Cardinality(Held)
    <2> DEFINE f == [a \in Held |-> alloc.phys[a]]
    <2>1. f \in Surjection(Held, RegsOfClass(c))
      BY <1>3 DEF Surjection
    <2> HIDE DEF f, Held
    <2> QED
      BY <1>6, <2>1, FS_Surjection
  <1>8. IsFiniteSet(RegsOfClass(c))
    BY PoolFinite, FS_Union DEF RegsOfClass
  <1>9. Cardinality(Held \cup {v}) = Cardinality(Held) + 1 /\ Cardinality(Held \cup {v}) <= Cardinality(Live)
    <2>1. v \notin Held
      BY <1>2
    <2>2. Held \cup {v} \subseteq Live
      BY <1>4, <1>5
    <2> HIDE DEF Held
    <2> QED
      BY <1>6, <2>1, <2>2, FS_AddElement, FS_Subset
  <1> HIDE DEF Held
  <1>10. /\ Cardinality(Held) \in Nat /\ Cardinality(Live) \in Nat
         /\ Cardinality(RegsOfClass(c)) \in Nat
    BY <1>6, <1>8, FS_CardinalityType
  <1>11. Cardinality(Live) > Cardinality(RegsOfClass(c))
    BY <1>7, <1>9, <1>10
  <1> QED
    BY <1>11 DEF Live, c

(* A step that takes v and spills nothing but u, which is live where v     *)
(* starts and of v's class, keeps every spill justified.                   *)
LEMMA SpillJustified ==
  ASSUME AllocInv, SpillInv, NEW v \in Values, NEW u \in Values,
         IsNext(intervals, alloc, v), NoneFree(intervals, alloc, v),
         intervals' = intervals, alloc'.spilled = alloc.spilled \cup {u},
         intervals[u].class = intervals[v].class,
         intervals[u].start <= intervals[v].start, intervals[v].start <= intervals[u].end
  PROVE  SpillsJustified'
  <1>1. Cardinality({w \in Values : /\ intervals[w].class = intervals[v].class
                                    /\ intervals[w].start <= intervals[v].start
                                    /\ intervals[v].start <= intervals[w].end})
          > Cardinality(RegsOfClass(intervals[v].class))
    BY Pressure DEF SpillInv
  <1>2. Justified(intervals, u)
    <2>1. intervals[v].start \in {intervals[w].start : w \in DOMAIN intervals}
      BY DEF Values
    <2> QED
      BY <1>1, <2>1 DEF Justified, Values
  <1>4. \A x \in alloc.spilled : Justified(intervals, x)
    BY DEF SpillInv, SpillsJustified
  <1>5. \A x \in alloc'.spilled : Justified(intervals', x)
    BY <1>2, <1>4
  <1> QED
    BY <1>5 DEF SpillsJustified

(* A step that spills nothing keeps every spill justified.                 *)
LEMMA SpillKept ==
  ASSUME SpillInv, intervals' = intervals, alloc'.spilled = alloc.spilled
  PROVE  SpillsJustified'
  <1>1. \A x \in alloc.spilled : Justified(intervals, x)
    BY DEF SpillInv, SpillsJustified
  <1>2. \A x \in alloc'.spilled : Justified(intervals', x)
    BY <1>1
  <1> QED
    BY <1>2 DEF SpillsJustified

(* A step that takes the next interval keeps the intervals in order.       *)
LEMMA OrderKept ==
  ASSUME AllocInv, TakenInOrder, NEW v \in Values, IsNext(intervals, alloc, v),
         intervals' = intervals, alloc'.todo = alloc.todo \ {v}
  PROVE  TakenInOrder'
  <1>1. \A w \in alloc.todo : intervals[v].start <= intervals[w].start
    BY Expiry
  <1>2. Values' = Values
    BY DEF Values
  <1> QED
    BY <1>1, <1>2 DEF TakenInOrder

(* Every step of the allocator preserves the invariant of the spills.      *)
LEMMA SpillInvStep == AllocInv /\ SpillInv /\ [Next]_vars => SpillInv'
  <1> SUFFICES ASSUME AllocInv, SpillInv, [Next]_vars PROVE SpillInv'
    OBVIOUS
  <1>0. /\ alloc.phys \in [Values -> Regs \cup {NONE}]
        /\ \A u \in Values : /\ intervals[u] \in LiveInterval
                             /\ intervals[u].start \in Nat /\ intervals[u].end \in Nat
                             /\ intervals[u].start <= intervals[u].end
    BY DEF AllocInv, TypeOK, IsTable, LiveInterval, Values
  <1>1. ASSUME NEW v \in Values, AssignFree(v) PROVE SpillInv'
    <2>1. /\ IsNext(intervals, alloc, v) /\ intervals' = intervals /\ Values' = Values
      BY <1>1 DEF AssignFree, Values
    <2>2. PICK r \in Regs : /\ IsFirstFree(intervals, alloc, v, r)
                           /\ alloc' = Assigned(intervals, alloc, v, r)
      BY <1>1 DEF AssignFree
    <2>3. /\ alloc'.todo = alloc.todo \ {v} /\ alloc'.spilled = alloc.spilled
          /\ alloc'.phys = [alloc.phys EXCEPT ![v] = r]
      BY <2>2 DEF Assigned
    <2>4. r \in RegsIn(PoolFor(intervals[v]))
      BY <2>2 DEF IsFirstFree, RegsIn
    <2>5. r \in RegsOfClass(intervals[v].class)
      BY <1>0, <2>4, PoolOfClass
    <2>6. OwnClass'
      BY <1>0, <2>1, <2>3, <2>5 DEF OwnClass, SpillInv, RegsOfClass
    <2> QED
      BY <2>1, <2>3, <2>6, SpillKept, OrderKept DEF SpillInv
  <1>2. ASSUME NEW v \in Values, SpillVictim(v) PROVE SpillInv'
    <2>1. /\ IsNext(intervals, alloc, v) /\ intervals' = intervals /\ Values' = Values
          /\ NoneFree(intervals, alloc, v)
      BY <1>2 DEF SpillVictim, Values
    <2>2. PICK x \in Values : /\ IsVictim(intervals, alloc, v, x)
                             /\ alloc' = Stolen(intervals, alloc, v, x)
      BY <1>2 DEF SpillVictim
    <2>3. /\ alloc'.todo = alloc.todo \ {v} /\ alloc'.spilled = alloc.spilled \cup {x}
          /\ alloc'.phys = [alloc.phys EXCEPT ![v] = alloc.phys[x], ![x] = NONE]
      BY <2>2 DEF Stolen
    <2>4. /\ x \in alloc.active /\ x \notin alloc.todo /\ alloc.phys[x] # NONE
          /\ intervals[x].class = intervals[v].class
          /\ intervals[v].start <= intervals[x].end
      BY <1>0, <2>2 DEF IsVictim, ActiveAt, AllocInv, ActiveHold
    <2>5. intervals[x].start <= intervals[v].start
      BY <2>1, <2>4 DEF SpillInv, TakenInOrder, IsNext
    <2>6. OwnClass'
      BY <1>0, <2>1, <2>3, <2>4 DEF OwnClass, SpillInv, RegsOfClass
    <2>7. SpillsJustified'
      BY <2>1, <2>3, <2>4, <2>5, SpillJustified
    <2> QED
      BY <2>1, <2>3, <2>6, <2>7, OrderKept DEF SpillInv
  <1>3. ASSUME NEW v \in Values, SpillCurrent(v) PROVE SpillInv'
    <2>1. /\ IsNext(intervals, alloc, v) /\ intervals' = intervals /\ Values' = Values
          /\ NoneFree(intervals, alloc, v)
      BY <1>3 DEF SpillCurrent, Values
    <2>2. /\ alloc'.todo = alloc.todo \ {v} /\ alloc'.spilled = alloc.spilled \cup {v}
          /\ alloc'.phys = alloc.phys
      BY <1>3 DEF SpillCurrent, SpilledSelf
    <2>3. OwnClass'
      BY <2>1, <2>2 DEF OwnClass, SpillInv, RegsOfClass
    <2>4. SpillsJustified'
      BY <1>0, <2>1, <2>2, SpillJustified
    <2> QED
      BY <2>1, <2>2, <2>3, <2>4, OrderKept DEF SpillInv
  <1>4. CASE UNCHANGED <<intervals, alloc>>
    <2>1. OwnClass' /\ TakenInOrder'
      BY <1>4 DEF SpillInv, OwnClass, TakenInOrder, Values, RegsOfClass
    <2> QED
      BY <1>4, <2>1, SpillKept DEF SpillInv
  <1> QED
    BY <1>1, <1>2, <1>3, <1>4 DEF Next, vars, BuildFrame

(* For every function and all pools whose integer and float registers are  *)
(* different ones: nothing is spilled unless, somewhere in the spilled     *)
(* interval, more intervals of its class are live than it has registers.   *)
THEOREM SpillSafe == Spec => []SpilledUnderPressure
  <1>1. Init => SpillInv
    <2> SUFFICES ASSUME Init PROVE SpillInv
      OBVIOUS
    <2>1. alloc = [todo |-> Values, active |-> {}, busy |-> {},
                   phys |-> [v \in Values |-> NONE], spilled |-> {}, used |-> {}]
      BY DEF Init, NothingAllocated, Values
    <2> QED
      BY <2>1 DEF SpillInv, OwnClass, TakenInOrder, SpillsJustified
  <1>2. SpillInv => SpilledUnderPressure
    BY Zenon DEF SpillInv, SpillsJustified, SpilledUnderPressure, Justified, Values
  <1> QED
    BY <1>1, <1>2, SpillInvStep, AllocSafe, PTL DEF Spec
=============================================================================
