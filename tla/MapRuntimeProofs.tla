-------------------------- MODULE MapRuntimeProofs --------------------------
(***************************************************************************)
(* Proofs about MapRuntime for any number of keys and values, any hash     *)
(* function and any capacity: the counters are exact, the load stays       *)
(* below the threshold and every probe loop finds a bucket to stop at.     *)
(***************************************************************************)
EXTENDS MapRuntime, FiniteSetTheorems, TLAPS

(* The running call has the arguments its operation takes, the locals of   *)
(* rehash are live only while it runs, and a map that is not there has no  *)
(* bucket.                                                                 *)
Control ==
  /\ pc \in {"put", "rehash", "insert"} => key \in Keys /\ val \in Values
  /\ pc \in {"get", "has", "remove"} => key \in Keys
  /\ pc \in {"rehash", "insert"} => m = "live"
  /\ pc # "rehash" => oldCap = 0 /\ i = 0
  /\ m = "live" => capacity >= 1
  /\ m = "null" => capacity = 0

(* An occupied bucket holds a key and a value. *)
EntriesTyped ==
  /\ \A s \in Full : buckets[s].key \in Keys /\ buckets[s].value \in Values
  /\ \A s \in Unmoved : oldBuckets[s].key \in Keys /\ oldBuckets[s].value \in Values

(* The entries still to be moved, and the entry to be inserted, fit below  *)
(* the threshold as well.                                                  *)
Load ==
  /\ pc = "rehash" => tombstones = 0
  /\ m = "live" => (occupied + tombstones + Cardinality(Unmoved)
                    + (IF pc \in {"rehash", "insert"} THEN 1 ELSE 0)) * 10 < capacity * 7

KeyCopiesExact ==
  keyCopies = IF OwnsKeys THEN Cardinality(Full) + Cardinality(Unmoved) ELSE 0

CountInv == TypeOK /\ Control /\ EntriesTyped /\ CountersExact /\ Load /\ KeyCopiesExact

----------------------------------------------------------------------------
(* The slots in one state are finitely many. *)
LEMMA FilledFinite ==
  ASSUME NEW b, NEW c \in Nat, NEW st
  PROVE  IsFiniteSet(Filled(b, c, st))
<1>1. IsFiniteSet(Slots(c))
  BY FS_Interval DEF Slots
<1>2. Filled(b, c, st) \subseteq Slots(c)
  BY DEF Filled
<1> QED
  BY <1>1, <1>2, FS_Subset

(* A probe never leaves the table. *)
LEMMA AtInSlots ==
  ASSUME NEW k \in Keys, NEW c \in Nat, c >= 1, NEW j \in Slots(c)
  PROVE  At(k, j, c) \in Slots(c)
<1>1. Hash[k] \in Nat
  BY KeyAssumption
<1>2. Hash[k] % c \in 0 .. c - 1
  BY <1>1
<1> QED
  BY <1>2 DEF At, Home, Slots

(* An empty table has no filled slot. *)
LEMMA FreshEmpty ==
  ASSUME NEW c \in Nat
  PROVE  /\ Fresh(c) \in [Slots(c) -> Bucket]
         /\ Filled(Fresh(c), c, "OCCUPIED") = {}
         /\ Filled(Fresh(c), c, "TOMBSTONE") = {}
BY DEF Fresh, Filled, EmptyBucket, Bucket, BucketState

(* Below the threshold some slot is empty: the filled ones are fewer than  *)
(* the slots.                                                              *)
LEMMA EmptySlotLeft ==
  ASSUME NEW c \in Nat, c >= 1, NEW b \in [Slots(c) -> Bucket],
         (Cardinality(Filled(b, c, "OCCUPIED"))
            + Cardinality(Filled(b, c, "TOMBSTONE"))) * 10 < c * 7
  PROVE  Filled(b, c, "EMPTY") # {}
<1> DEFINE O == Filled(b, c, "OCCUPIED")
           T == Filled(b, c, "TOMBSTONE")
<1>1. IsFiniteSet(O) /\ IsFiniteSet(T)
  BY FilledFinite
<1>2. O \cap T = {}
  BY DEF Filled
<1>3. Cardinality(O \cup T) = Cardinality(O) + Cardinality(T)
  <2>1. Cardinality(O \cap T) = 0
    BY <1>2, FS_EmptySet
  <2>2. Cardinality(O) \in Nat /\ Cardinality(T) \in Nat
    BY <1>1, FS_CardinalityType
  <2>3. Cardinality(O \cup T) = Cardinality(O) + Cardinality(T) - Cardinality(O \cap T)
    BY <1>1, FS_Union
  <2> HIDE DEF O, T
  <2> QED
    BY <2>1, <2>2, <2>3
<1>4. Cardinality(Slots(c)) = c
  BY FS_Interval DEF Slots
<1>5. SUFFICES ASSUME Filled(b, c, "EMPTY") = {} PROVE FALSE
  OBVIOUS
<1>6. Slots(c) = O \cup T
  BY <1>5 DEF Filled, Bucket, BucketState
<1>7. Cardinality(O) \in Nat /\ Cardinality(T) \in Nat
  BY <1>1, FS_CardinalityType
<1> QED
  BY <1>3, <1>4, <1>6, <1>7

----------------------------------------------------------------------------
(* The counting invariant holds of the state before the map exists. *)
LEMMA CountInit == Init => CountInv
<1> SUFFICES ASSUME Init PROVE CountInv
  OBVIOUS
<1> USE DEF Init
<1>1. Full = {} /\ Unmoved = {} /\ Filled(buckets, capacity, "TOMBSTONE") = {}
  BY DEF Full, Unmoved, Filled, Slots
<1>2. Cardinality({}) = 0
  BY FS_EmptySet
<1>3. TypeOK
  <2>1. buckets \in [Slots(capacity) -> Bucket] /\ oldBuckets \in [Slots(oldCap) -> Bucket]
    BY FreshEmpty
  <2>2. ret \in Seq(Keys \cup Values \cup BOOLEAN \cup {NULL})
    OBVIOUS
  <2> QED
    BY <2>1, <2>2 DEF TypeOK
<1>4. Control /\ EntriesTyped
  BY <1>1 DEF Control, EntriesTyped
<1>5. CountersExact /\ Load
  BY <1>1, <1>2 DEF CountersExact, Load
<1>6. KeyCopiesExact
  <2>1. Cardinality(Full) + Cardinality(Unmoved) = 0
    BY <1>1, <1>2
  <2> QED
    BY <2>1 DEF KeyCopiesExact
<1> QED
  BY <1>3, <1>4, <1>5, <1>6 DEF CountInv

(* A step that leaves the table and the key copies alone leaves the counts *)
(* alone.                                                                  *)
LEMMA TableUnchanged ==
  ASSUME CountInv, UNCHANGED <<table, rehashVars, keyCopies, m>>,
         TypeOK', Control',
         pc' \in {"rehash", "insert"} => pc \in {"rehash", "insert"} \/ ~NeedsRehash,
         pc' = "rehash" => pc = "rehash"
  PROVE  CountInv'
<1>1. Full' = Full /\ Unmoved' = Unmoved
      /\ Filled(buckets, capacity, "TOMBSTONE")' = Filled(buckets, capacity, "TOMBSTONE")
  BY DEF Full, Unmoved, table, rehashVars, Filled, Slots
<1>2. EntriesTyped' /\ CountersExact' /\ KeyCopiesExact'
  BY <1>1 DEF CountInv, EntriesTyped, CountersExact, KeyCopiesExact, table, rehashVars
<1>3. Load'
  <2>1. Cardinality(Unmoved) \in Nat
    BY FilledFinite, FS_Subset, FS_CardinalityType DEF CountInv, TypeOK, Unmoved
  <2>2. pc # "rehash" => Cardinality(Unmoved) = 0
    <3>1. pc # "rehash" => Unmoved = {}
      BY DEF CountInv, Control, Unmoved, Filled, Slots
    <3> QED
      BY <3>1, FS_EmptySet
  <2> QED
    BY <1>1, <2>1, <2>2 DEF CountInv, TypeOK, Load, table, rehashVars, NeedsRehash
<1> QED
  BY <1>2, <1>3 DEF CountInv

(* Storing an entry in a slot that was not occupied adds one occupied      *)
(* slot, and takes one tombstone away if the slot was one.                 *)
LEMMA CountStore ==
  ASSUME NEW c \in Nat, NEW b \in [Slots(c) -> Bucket],
         NEW s \in Slots(c), b[s].state # "OCCUPIED",
         NEW d \in [Slots(c) -> Bucket], d[s].state = "OCCUPIED",
         \A t \in Slots(c) : t # s => d[t] = b[t]
  PROVE  /\ Filled(d, c, "OCCUPIED") = Filled(b, c, "OCCUPIED") \cup {s}
         /\ Filled(d, c, "TOMBSTONE") = Filled(b, c, "TOMBSTONE") \ {s}
         /\ Cardinality(Filled(d, c, "OCCUPIED")) = Cardinality(Filled(b, c, "OCCUPIED")) + 1
         /\ Cardinality(Filled(d, c, "TOMBSTONE")) =
              IF b[s].state = "TOMBSTONE" THEN Cardinality(Filled(b, c, "TOMBSTONE")) - 1
              ELSE Cardinality(Filled(b, c, "TOMBSTONE"))
<1>2. Filled(d, c, "OCCUPIED") = Filled(b, c, "OCCUPIED") \cup {s}
  BY DEF Filled
<1>3. Filled(d, c, "TOMBSTONE") = Filled(b, c, "TOMBSTONE") \ {s}
  BY DEF Filled
<1>4. s \notin Filled(b, c, "OCCUPIED") /\ (s \in Filled(b, c, "TOMBSTONE") <=> b[s].state = "TOMBSTONE")
  BY DEF Filled
<1>5. Cardinality(Filled(d, c, "OCCUPIED")) = Cardinality(Filled(b, c, "OCCUPIED")) + 1
  BY <1>2, <1>4, FilledFinite, FS_AddElement
<1>6. Cardinality(Filled(d, c, "TOMBSTONE")) =
        IF b[s].state = "TOMBSTONE" THEN Cardinality(Filled(b, c, "TOMBSTONE")) - 1
        ELSE Cardinality(Filled(b, c, "TOMBSTONE"))
  BY <1>3, <1>4, FilledFinite, FS_RemoveElement
<1> QED
  BY <1>2, <1>3, <1>5, <1>6

(* Turning an occupied slot into a tombstone moves it from one count to    *)
(* the other.                                                              *)
LEMMA CountDelete ==
  ASSUME NEW c \in Nat, NEW b \in [Slots(c) -> Bucket],
         NEW s \in Slots(c), b[s].state = "OCCUPIED",
         NEW d \in [Slots(c) -> Bucket], d[s].state = "TOMBSTONE",
         \A t \in Slots(c) : t # s => d[t] = b[t]
  PROVE          /\ Filled(d, c, "OCCUPIED") = Filled(b, c, "OCCUPIED") \ {s}
         /\ Cardinality(Filled(d, c, "OCCUPIED")) = Cardinality(Filled(b, c, "OCCUPIED")) - 1
         /\ Cardinality(Filled(d, c, "TOMBSTONE")) = Cardinality(Filled(b, c, "TOMBSTONE")) + 1
         /\ Cardinality(Filled(b, c, "OCCUPIED")) >= 1
<1>2. Filled(d, c, "OCCUPIED") = Filled(b, c, "OCCUPIED") \ {s}
  BY DEF Filled
<1>3. Filled(d, c, "TOMBSTONE") = Filled(b, c, "TOMBSTONE") \cup {s}
  BY DEF Filled
<1>4. s \in Filled(b, c, "OCCUPIED") /\ s \notin Filled(b, c, "TOMBSTONE")
  BY DEF Filled
<1>5. Cardinality(Filled(d, c, "OCCUPIED")) = Cardinality(Filled(b, c, "OCCUPIED")) - 1
  BY <1>2, <1>4, FilledFinite, FS_RemoveElement
<1>6. Cardinality(Filled(d, c, "TOMBSTONE")) = Cardinality(Filled(b, c, "TOMBSTONE")) + 1
  BY <1>3, <1>4, FilledFinite, FS_AddElement
<1>7. Cardinality(Filled(b, c, "OCCUPIED")) >= 1
  <2>1. Cardinality(Filled(d, c, "OCCUPIED")) \in Nat /\ Cardinality(Filled(b, c, "OCCUPIED")) \in Nat
    BY FilledFinite, FS_CardinalityType
  <2> QED
    BY <1>5, <2>1
<1> QED
  BY <1>2, <1>5, <1>6, <1>7

(* Outside a rehash nothing is left to move. *)
LEMMA NothingUnmoved ==
  ASSUME oldCap = 0
  PROVE  Unmoved = {} /\ Cardinality(Unmoved) = 0
<1>1. Unmoved = {}
  BY DEF Unmoved, Filled, Slots
<1> QED
  BY <1>1, FS_EmptySet

(* The steps that change pc, the arguments and the result only. *)
LEMMA CountQuiet ==
  ASSUME CountInv,
         \/ \E k \in Keys, v \in Values : CallPut(k, v)
         \/ \E k \in Keys, op \in {"get", "has", "remove"} : CallLookup(op, k)
         \/ CallKeys \/ PutNull \/ PutDirect \/ Get \/ Has \/ MapKeys
         \/ \E v \in Values : Allocate(v)
         \/ Exited
  PROVE  CountInv'
<1> USE DEF CountInv
<1>1. CASE \E k \in Keys, v \in Values : CallPut(k, v)
  <2>1. TypeOK' /\ Control'
    BY <1>1 DEF CallPut, Call, TypeOK, Control, table, rehashVars
  <2> QED
    BY <1>1, <2>1, TableUnchanged DEF CallPut, Call, table, rehashVars
<1>2. CASE \E k \in Keys, op \in {"get", "has", "remove"} : CallLookup(op, k)
  <2>1. TypeOK' /\ Control'
    BY <1>2 DEF CallLookup, Call, TypeOK, Control, table, rehashVars
  <2> QED
    BY <1>2, <2>1, TableUnchanged DEF CallLookup, Call, table, rehashVars
<1>3. CASE CallKeys
  <2>1. TypeOK' /\ Control'
    BY <1>3 DEF CallKeys, Call, TypeOK, Control, table, rehashVars
  <2> QED
    BY <1>3, <2>1, TableUnchanged DEF CallKeys, Call, table, rehashVars
<1>4. CASE PutNull
  <2>1. TypeOK' /\ Control'
    BY <1>4 DEF PutNull, Return, TypeOK, Control, table, rehashVars
  <2> QED
    BY <1>4, <2>1, TableUnchanged DEF PutNull, Return, table, rehashVars
<1>5. CASE PutDirect
  <2>1. TypeOK' /\ Control'
    BY <1>5 DEF PutDirect, TypeOK, Control, table, rehashVars
  <2> QED
    BY <1>5, <2>1, TableUnchanged DEF PutDirect, table, rehashVars
<1>6. CASE Get
  <2>1. CASE Exit
    <3>1. TypeOK' /\ Control'
      BY <1>6, <2>1 DEF Get, Exit, TypeOK, Control, table, rehashVars
    <3> QED
      BY <2>1, <3>1, TableUnchanged DEF Exit, table, rehashVars
  <2>2. CASE ~Exit
    <3>1. PICK j \in Slots(capacity) :
            /\ Match(buckets, At(key, j, capacity), key)
            /\ Return(<<buckets[At(key, j, capacity)].value>>)
            /\ UNCHANGED <<m, table, rehashVars, keyCopies, owner>>
      BY <1>6, <2>2 DEF Get
    <3>2. capacity \in Nat /\ capacity >= 1 /\ key \in Keys /\ pc = "get"
      BY <1>6, <3>1 DEF Get, Control, TypeOK, Slots
    <3>3. At(key, j, capacity) \in Full
      BY <3>1, <3>2, AtInSlots DEF Match, Full, Filled
    <3>4. buckets[At(key, j, capacity)].value \in Values
      BY <3>3 DEF EntriesTyped
    <3>5. TypeOK' /\ Control'
      BY <3>1, <3>2, <3>4 DEF Return, TypeOK, Control, table, rehashVars
    <3> QED
      BY <3>1, <3>5, TableUnchanged DEF Return, table, rehashVars
  <2> QED
    BY <2>1, <2>2
<1>7. CASE Has
  <2>1. PICK r \in BOOLEAN : Return(<<r>>)
    BY <1>7 DEF Has, Match
  <2>2. TypeOK' /\ Control'
    BY <1>7, <2>1 DEF Has, Return, TypeOK, Control, table, rehashVars
  <2> QED
    BY <1>7, <2>1, <2>2, TableUnchanged DEF Has, Return, table, rehashVars
<1>8. CASE MapKeys
  <2>1. PICK r \in Seq(Keys) : Return(r)
    <3>1. CASE Return(<< >>)
      <4>1. << >> \in Seq(Keys)
        OBVIOUS
      <4> QED
        BY <3>1, <4>1
    <3>2. CASE \E at \in [1 .. occupied -> Full] :
                 Return([n \in 1 .. occupied |-> buckets[at[n]].key])
      <4>1. PICK at \in [1 .. occupied -> Full] :
                 Return([n \in 1 .. occupied |-> buckets[at[n]].key])
        BY <3>2
      <4>2. [n \in 1 .. occupied |-> buckets[at[n]].key] \in [1 .. occupied -> Keys]
        BY DEF EntriesTyped
      <4>3. [n \in 1 .. occupied |-> buckets[at[n]].key] \in Seq(Keys)
        BY <4>2 DEF TypeOK
      <4> QED
        BY <4>1, <4>3
    <3> QED
      BY <1>8, <3>1, <3>2 DEF MapKeys, Full
  <2>2. r \in Seq(Keys \cup Values \cup BOOLEAN \cup {NULL})
    OBVIOUS
  <2>3. TypeOK' /\ Control'
    BY <1>8, <2>1, <2>2 DEF MapKeys, Return, TypeOK, Control, table, rehashVars
  <2> QED
    BY <1>8, <2>1, <2>3, TableUnchanged DEF MapKeys, Return, table, rehashVars
<1>9. CASE \E v \in Values : Allocate(v)
  <2>1. TypeOK' /\ Control'
    BY <1>9 DEF Allocate, TypeOK, Control, table, rehashVars
  <2> QED
    BY <1>9, <2>1, TableUnchanged DEF Allocate, table, rehashVars
<1>10. CASE Exited
  <2>1. TypeOK' /\ Control'
    BY <1>10 DEF Exited, vars, TypeOK, Control, table, rehashVars
  <2> QED
    BY <1>10, <2>1, TableUnchanged DEF Exited, vars, table, rehashVars
<1> QED
  BY <1>1, <1>2, <1>3, <1>4, <1>5, <1>6, <1>7, <1>8, <1>9, <1>10

(* __cco_map_new and __cco_map_free. *)
LEMMA CountNewFree ==
  ASSUME CountInv, MapNew \/ MapFree
  PROVE  CountInv'
<1> USE DEF CountInv
<1>0. oldCap = 0 /\ i = 0 /\ pc = "idle"
  BY DEF MapNew, MapFree, Control
<1>1. CASE Exit
  <2>1. TypeOK' /\ Control'
    BY <1>0, <1>1 DEF Exit, TypeOK, Control, table, rehashVars
  <2> QED
    BY <1>1, <2>1, TableUnchanged DEF Exit, table, rehashVars
<1>2. CASE ~Exit
  <2> DEFINE n == IF m = "null" THEN InitialCapacity ELSE 0
  <2>1. /\ capacity' = n /\ buckets' = Fresh(n)
        /\ occupied' = 0 /\ tombstones' = 0
        /\ UNCHANGED <<rehashVars, pc, key, val, ret>>
        /\ m' = IF m = "null" THEN "live" ELSE "null"
    BY <1>2 DEF MapNew, MapFree
  <2>2. n \in Nat /\ (m = "null" => n >= 1) /\ (m # "null" => n = 0)
    BY CapacityAssumption
  <2>3. Full' = {} /\ Filled(buckets, capacity, "TOMBSTONE")' = {}
    BY <2>1, <2>2, FreshEmpty DEF Full, Filled, Slots
  <2>4. Unmoved' = {}
    BY <1>0, <2>1 DEF Unmoved, Filled, Slots, rehashVars
  <2>5. Cardinality({}) = 0
    BY FS_EmptySet
  <2>6. Cardinality(Unmoved) = 0
    BY <1>0, NothingUnmoved
  <2>7. keyCopies' = 0
    <3>1. CASE MapNew
      <4>1. m = "null" /\ keyCopies' = keyCopies
        BY <1>2, <3>1 DEF MapNew
      <4>2. Full = {}
        BY <4>1 DEF Control, Full, Filled, Slots
      <4> QED
        BY <2>5, <2>6, <4>1, <4>2 DEF KeyCopiesExact
    <3>2. CASE MapFree
      <4>1. Cardinality(Full) \in Nat
        BY FilledFinite, FS_CardinalityType DEF Full, TypeOK
      <4>2. CASE OwnsKeys
        BY <3>2, <4>1, <4>2, <2>6 DEF MapFree, KeyCopiesExact, Full
      <4>3. CASE ~OwnsKeys
        BY <3>2, <4>3 DEF MapFree, KeyCopiesExact
      <4> QED
        BY <4>2, <4>3
    <3> QED
      BY <3>1, <3>2
  <2>8. owner' \in [Values -> {"caller", "map", "freed"}]
    BY <1>2 DEF MapNew, MapFree, TypeOK
  <2>9. buckets' \in [Slots(n) -> Bucket]
    BY <2>1, <2>2, FreshEmpty
  <2> HIDE DEF n
  <2>10. TypeOK'
    BY <1>0, <2>1, <2>2, <2>7, <2>8, <2>9 DEF TypeOK, rehashVars
  <2>11. Control' /\ EntriesTyped'
    BY <1>0, <2>1, <2>2, <2>3, <2>4 DEF Control, EntriesTyped, rehashVars, TypeOK
  <2>12. CountersExact' /\ Load'
    <3>1. CountersExact'
      BY <2>1, <2>3, <2>5 DEF CountersExact
    <3>2. Cardinality(Unmoved') = 0 /\ pc' = "idle"
      BY <1>0, <2>1, <2>4, <2>5
    <3>3. m' = "live" => capacity' \in Nat /\ capacity' >= 1
      BY <2>1, <2>2
    <3>4. Load'
      BY <2>1, <3>2, <3>3 DEF Load
    <3> QED
      BY <3>1, <3>4
  <2>13. KeyCopiesExact'
    <3>1. Cardinality(Full') + Cardinality(Unmoved') = 0
      BY <2>3, <2>4, <2>5
    <3> QED
      BY <2>7, <3>1 DEF KeyCopiesExact
  <2> QED
    BY <2>10, <2>11, <2>12, <2>13
<1> QED
  BY <1>1, <1>2

(* The rehash: it starts with no entry in the new table and all of them    *)
(* unmoved, moves or skips one bucket of the old table at a time, and      *)
(* ends with none left.                                                    *)
LEMMA CountRehash ==
  ASSUME CountInv, RehashStart \/ RehashMove \/ RehashSkip \/ RehashEnd
  PROVE  CountInv'
<1> USE DEF CountInv
<1>a. Cardinality({}) = 0
  BY FS_EmptySet
<1>b. IsFiniteSet(Unmoved) /\ Cardinality(Unmoved) \in Nat
  <2>1. IsFiniteSet(Filled(oldBuckets, oldCap, "OCCUPIED"))
    BY FilledFinite DEF TypeOK
  <2>2. Unmoved \in SUBSET Filled(oldBuckets, oldCap, "OCCUPIED")
    BY DEF Unmoved
  <2> QED
    BY <2>1, <2>2, FS_Subset, FS_CardinalityType
<1>c. IsFiniteSet(Full) /\ Cardinality(Full) \in Nat
  BY FilledFinite, FS_CardinalityType DEF Full, TypeOK
<1>1. CASE RehashStart /\ Exit
  <2>1. TypeOK' /\ Control'
    BY <1>1 DEF RehashStart, Exit, TypeOK, Control, table, rehashVars
  <2> QED
    BY <1>1, <2>1, TableUnchanged DEF Exit, table, rehashVars
<1>2. CASE RehashStart /\ ~Exit
  <2>1. /\ pc = "put" /\ m = "live" /\ NeedsRehash /\ pc' = "rehash"
        /\ oldBuckets' = buckets /\ oldCap' = capacity /\ i' = 0
        /\ capacity' = capacity * 2 /\ buckets' = Fresh(capacity * 2)
        /\ occupied' = 0 /\ tombstones' = 0
        /\ UNCHANGED <<m, key, val, ret, keyCopies, owner>>
    BY <1>2 DEF RehashStart
  <2>2. capacity * 2 \in Nat /\ capacity * 2 >= 1
    BY <2>1 DEF TypeOK, Control
  <2>3. /\ buckets' \in [Slots(capacity') -> Bucket]
        /\ Full' = {} /\ Filled(buckets, capacity, "TOMBSTONE")' = {}
    BY <2>1, <2>2, FreshEmpty DEF Full, Filled, Slots
  <2>4. Unmoved' = Full
    BY <2>1 DEF Unmoved, Full, Filled, Slots, TypeOK
  <2>5. Unmoved = {}
    BY <2>1, NothingUnmoved DEF Control
  <2>6. TypeOK' /\ Control'
    BY <2>1, <2>2, <2>3 DEF TypeOK, Control
  <2>7. EntriesTyped'
    BY <2>1, <2>3, <2>4 DEF EntriesTyped, Full, Filled
  <2>8. CountersExact'
    BY <2>1, <2>3, <1>a DEF CountersExact
  <2>9. Load'
    BY <2>1, <2>2, <2>4, <2>5, <1>a, <1>c DEF Load, CountersExact, TypeOK, Control
  <2>10. KeyCopiesExact'
    <3>1. Cardinality(Full') + Cardinality(Unmoved') = Cardinality(Full) + Cardinality(Unmoved)
      BY <2>3, <2>4, <2>5, <1>a, <1>c
    <3> QED
      BY <2>1, <3>1 DEF KeyCopiesExact
  <2> QED
    BY <2>6, <2>7, <2>8, <2>9, <2>10
<1>3. CASE RehashMove
  <2> DEFINE k == oldBuckets[i].key
             v == oldBuckets[i].value
  <2>1. PICK j \in Slots(capacity) :
          /\ PlaceEndsAt(buckets, capacity, k, j)
          /\ buckets' = [buckets EXCEPT ![At(k, j, capacity)] = Entry(k, v)]
    BY <1>3 DEF RehashMove
  <2>2. /\ pc = "rehash" /\ i < oldCap /\ oldBuckets[i].state = "OCCUPIED"
        /\ occupied' = occupied + 1 /\ i' = i + 1
        /\ UNCHANGED <<m, capacity, tombstones, oldBuckets, oldCap, pc, key, val, ret, keyCopies, owner>>
    BY <1>3 DEF RehashMove
  <2>3. i \in Unmoved
    BY <2>2 DEF Unmoved, Filled, Slots, TypeOK
  <2>4. k \in Keys /\ v \in Values
    BY <2>3 DEF EntriesTyped
  <2> DEFINE s == At(k, j, capacity)
  <2>5. capacity \in Nat /\ capacity >= 1 /\ m = "live"
    BY <2>2 DEF TypeOK, Control
  <2>6. s \in Slots(capacity) /\ buckets[s].state # "OCCUPIED"
    BY <2>1, <2>4, <2>5, AtInSlots DEF PlaceEndsAt
  <2>7. buckets[s].state # "TOMBSTONE"
    <3>1. tombstones = 0 /\ IsFiniteSet(Filled(buckets, capacity, "TOMBSTONE"))
      BY <2>2, <2>5, FilledFinite DEF Load
    <3>2. Filled(buckets, capacity, "TOMBSTONE") = {}
      BY <3>1, FS_EmptySet DEF CountersExact
    <3> QED
      BY <3>2, <2>6 DEF Filled
  <2>8. Unmoved' = Unmoved \ {i}
    BY <2>2 DEF Unmoved, Filled, Slots, TypeOK
  <2>9. Cardinality(Unmoved') = Cardinality(Unmoved) - 1 /\ Cardinality(Unmoved') \in Nat
    BY <2>3, <2>8, <1>b, FS_RemoveElement, FS_CardinalityType
  <2> HIDE DEF k, v, s
  <2>10. buckets' = [buckets EXCEPT ![s] = Entry(k, v)]
    BY <2>1 DEF s
  <2>11. buckets \in [Slots(capacity) -> Bucket]
    BY DEF TypeOK
  <2>12. /\ buckets' \in [Slots(capacity) -> Bucket]
         /\ Full' = Full \cup {s}
         /\ Cardinality(Full') = Cardinality(Full) + 1
         /\ Cardinality(Filled(buckets', capacity, "TOMBSTONE")) = Cardinality(Filled(buckets, capacity, "TOMBSTONE"))
    <3>1. buckets' \in [Slots(capacity) -> Bucket] /\ buckets'[s].state = "OCCUPIED"
      BY <2>4, <2>6, <2>10, <2>11 DEF Entry, Bucket, BucketState
    <3>2. \A t \in Slots(capacity) : t # s => buckets'[t] = buckets[t]
      BY <2>10, <2>11
    <3>3. /\ Filled(buckets', capacity, "OCCUPIED") = Filled(buckets, capacity, "OCCUPIED") \cup {s}
          /\ Cardinality(Filled(buckets', capacity, "OCCUPIED")) = Cardinality(Filled(buckets, capacity, "OCCUPIED")) + 1
          /\ Cardinality(Filled(buckets', capacity, "TOMBSTONE")) =
               IF buckets[s].state = "TOMBSTONE" THEN Cardinality(Filled(buckets, capacity, "TOMBSTONE")) - 1
               ELSE Cardinality(Filled(buckets, capacity, "TOMBSTONE"))
      BY <2>5, <2>6, <2>11, <3>1, <3>2, CountStore
    <3> QED
      BY <2>2, <2>7, <3>1, <3>3 DEF Full
  <2>13. TypeOK'
    BY <2>2, <2>12 DEF TypeOK
  <2>14. Control'
    BY <2>2 DEF Control
  <2>15. EntriesTyped'
    BY <2>2, <2>4, <2>8, <2>10, <2>11, <2>12 DEF EntriesTyped, Entry, Full, Filled
  <2>16. CountersExact'
    BY <2>2, <2>12 DEF CountersExact
  <2>17. Load'
    BY <2>2, <2>5, <2>9, <1>b DEF Load, TypeOK
  <2>18. KeyCopiesExact'
    <3>1. Cardinality(Full') + Cardinality(Unmoved') = Cardinality(Full) + Cardinality(Unmoved)
      BY <2>9, <2>12, <1>b, <1>c
    <3> QED
      BY <2>2, <3>1 DEF KeyCopiesExact
  <2> QED
    BY <2>13, <2>14, <2>15, <2>16, <2>17, <2>18
<1>4. CASE RehashSkip
  <2>1. Unmoved' = Unmoved
    BY <1>4 DEF RehashSkip, Unmoved, Filled, Slots, TypeOK
  <2>2. Full' = Full /\ Filled(buckets, capacity, "TOMBSTONE")' = Filled(buckets, capacity, "TOMBSTONE")
    BY <1>4 DEF RehashSkip, Full, Filled, Slots, table
  <2>3. TypeOK' /\ Control'
    BY <1>4 DEF RehashSkip, TypeOK, Control, table
  <2>4. EntriesTyped' /\ CountersExact' /\ Load' /\ KeyCopiesExact'
    BY <1>4, <2>1, <2>2 DEF RehashSkip, EntriesTyped, CountersExact, Load, KeyCopiesExact, table
  <2> QED
    BY <2>3, <2>4
<1>5. CASE RehashEnd
  <2>1. Unmoved = {} /\ Unmoved' = {}
    BY <1>5 DEF RehashEnd, Unmoved, Filled, Slots, TypeOK
  <2>2. Full' = Full /\ Filled(buckets, capacity, "TOMBSTONE")' = Filled(buckets, capacity, "TOMBSTONE")
    BY <1>5 DEF RehashEnd, Full, Filled, Slots, table
  <2>3. oldBuckets' \in [Slots(oldCap') -> Bucket]
    BY <1>5, FreshEmpty DEF RehashEnd
  <2>4. TypeOK' /\ Control'
    BY <1>5, <2>3 DEF RehashEnd, TypeOK, Control, table
  <2>5. EntriesTyped' /\ CountersExact' /\ Load' /\ KeyCopiesExact'
    BY <1>5, <2>1, <2>2 DEF RehashEnd, EntriesTyped, CountersExact, Load, KeyCopiesExact, table
  <2> QED
    BY <2>4, <2>5
<1> QED
  BY <1>1, <1>2, <1>3, <1>4, <1>5

(* The steps that store, replace or delete an entry. *)
LEMMA CountUpdate ==
  ASSUME CountInv, PutOverwrite \/ PutInsert \/ Remove
  PROVE  CountInv'
<1> USE DEF CountInv
<1>a. pc \in {"insert", "remove"}
  BY DEF PutOverwrite, PutInsert, Remove
<1>b. oldCap = 0 /\ i = 0 /\ key \in Keys /\ (pc = "insert" => val \in Values)
  BY <1>a DEF Control
<1>c. Unmoved = {} /\ Cardinality(Unmoved) = 0
  BY <1>b, NothingUnmoved
<1>d. capacity \in Nat /\ buckets \in [Slots(capacity) -> Bucket]
  BY DEF TypeOK
<1>e. IsFiniteSet(Full) /\ Cardinality(Full) \in Nat
  BY FilledFinite, FS_CardinalityType DEF Full, TypeOK
<1>f. IsFiniteSet(Filled(buckets, capacity, "TOMBSTONE"))
  BY FilledFinite, <1>d
<1>1. CASE Exit
  <2>1. TypeOK' /\ Control'
    BY <1>a, <1>b, <1>1 DEF Exit, TypeOK, Control, table, rehashVars
  <2> QED
    BY <1>1, <2>1, TableUnchanged DEF Exit, table, rehashVars
<1>2. CASE PutOverwrite
  <2>1. PICK j \in Slots(capacity) :
          /\ Match(buckets, At(key, j, capacity), key)
          /\ owner' = OwnersAfterOverwrite(At(key, j, capacity))
          /\ buckets' = [buckets EXCEPT ![At(key, j, capacity)].value = val]
    BY <1>2 DEF PutOverwrite
  <2>2. /\ pc = "insert" /\ Return(<< >>)
        /\ UNCHANGED <<m, capacity, occupied, tombstones, rehashVars, keyCopies>>
    BY <1>2 DEF PutOverwrite
  <2> DEFINE s == At(key, j, capacity)
  <2>3. capacity >= 1
    BY <1>d DEF Slots
  <2>4. s \in Slots(capacity)
    BY <1>b, <1>d, <2>3, AtInSlots
  <2> HIDE DEF s
  <2>5. /\ buckets' = [buckets EXCEPT ![s] = [@ EXCEPT !.value = val]]
        /\ buckets[s].state = "OCCUPIED"
    BY <2>1 DEF s, Match
  <2>6. buckets' \in [Slots(capacity) -> Bucket]
    BY <1>b, <1>d, <2>2, <2>4, <2>5 DEF Bucket
  <2>7. \A t \in Slots(capacity) : /\ buckets'[t].state = buckets[t].state
                                   /\ buckets'[t].key = buckets[t].key
    BY <1>d, <2>4, <2>5 DEF Bucket
  <2>8. Full' = Full /\ Filled(buckets, capacity, "TOMBSTONE")' = Filled(buckets, capacity, "TOMBSTONE")
    BY <2>2, <2>7 DEF Full, Filled
  <2>9. Unmoved' = {} /\ Cardinality(Unmoved') = 0
    BY <1>b, <1>c, <2>2 DEF Unmoved, Filled, Slots, rehashVars
  <2>10. owner' \in [Values -> {"caller", "map", "freed"}]
    BY <2>1 DEF OwnersAfterOverwrite, TypeOK
  <2>11. TypeOK'
    BY <2>2, <2>6, <2>10 DEF TypeOK, Return, rehashVars
  <2>12. Control'
    BY <2>2 DEF Control, Return, rehashVars
  <2>13. EntriesTyped'
    <3>1. \A t \in Full : buckets'[t].key \in Keys /\ buckets'[t].value \in Values
      <4>1. \A t \in Full : t # s => buckets'[t] = buckets[t]
        BY <1>d, <2>5 DEF Full, Filled
      <4>2. buckets'[s].value = val
        BY <1>d, <2>4, <2>5 DEF Bucket
      <4> QED
        BY <1>b, <2>2, <2>7, <4>1, <4>2 DEF EntriesTyped, Full, Filled
    <3> QED
      BY <2>8, <2>9, <3>1 DEF EntriesTyped
  <2>14. CountersExact' /\ KeyCopiesExact'
    BY <1>c, <2>2, <2>8, <2>9 DEF CountersExact, KeyCopiesExact
  <2>15. Load'
    BY <1>c, <2>2, <2>9 DEF Load, TypeOK, Return
  <2> QED
    BY <2>11, <2>12, <2>13, <2>14, <2>15
<1>3. CASE PutInsert /\ ~Exit
  <2>1. PICK j \in Slots(capacity) : \E t \in 0 .. j :
          /\ SearchEndsAt(buckets, capacity, key, j)
          /\ ~Match(buckets, At(key, j, capacity), key)
          /\ InsertsAt(buckets, capacity, key, j, t)
          /\ buckets' = [buckets EXCEPT ![At(key, t, capacity)] = Entry(key, val)]
          /\ tombstones' = TombstonesAfter(At(key, t, capacity))
          /\ occupied' = occupied + 1
          /\ keyCopies' = IF OwnsKeys THEN keyCopies + 1 ELSE keyCopies
          /\ owner' = [owner EXCEPT ![val] = "map"]
          /\ Return(<< >>)
          /\ UNCHANGED <<m, capacity, rehashVars>>
    BY <1>3 DEF PutInsert
  <2>2. PICK t \in 0 .. j :
          /\ SearchEndsAt(buckets, capacity, key, j)
          /\ ~Match(buckets, At(key, j, capacity), key)
          /\ InsertsAt(buckets, capacity, key, j, t)
          /\ buckets' = [buckets EXCEPT ![At(key, t, capacity)] = Entry(key, val)]
          /\ tombstones' = TombstonesAfter(At(key, t, capacity))
          /\ occupied' = occupied + 1
          /\ keyCopies' = IF OwnsKeys THEN keyCopies + 1 ELSE keyCopies
          /\ owner' = [owner EXCEPT ![val] = "map"]
          /\ Return(<< >>)
          /\ UNCHANGED <<m, capacity, rehashVars>>
    BY <2>1
  <2> DEFINE s == At(key, t, capacity)
  <2>3. capacity >= 1 /\ t \in Slots(capacity) /\ pc = "insert" /\ val \in Values /\ m = "live"
    BY <1>b, <1>d, <1>3 DEF Slots, PutInsert, Control
  <2>4. s \in Slots(capacity)
    BY <1>b, <1>d, <2>3, AtInSlots
  <2>5. buckets[s].state # "OCCUPIED"
    <3>1. CASE t = j
      BY <2>2, <3>1 DEF SearchEndsAt, Match
    <3>2. CASE t # j
      BY <2>2, <3>2 DEF InsertsAt
    <3> QED
      BY <3>1, <3>2
  <2>6. buckets' = [buckets EXCEPT ![s] = Entry(key, val)]
    BY <2>2
  <2>7. tombstones' = IF buckets[s].state = "TOMBSTONE" THEN tombstones - 1 ELSE tombstones
    BY <2>2 DEF TombstonesAfter
  <2> HIDE DEF s
  <2>8. buckets' \in [Slots(capacity) -> Bucket] /\ buckets'[s].state = "OCCUPIED"
    BY <1>b, <1>d, <2>3, <2>4, <2>6 DEF Entry, Bucket, BucketState
  <2>9. \A u \in Slots(capacity) : u # s => buckets'[u] = buckets[u]
    BY <1>d, <2>6
  <2>10. /\ Filled(buckets', capacity, "OCCUPIED") = Filled(buckets, capacity, "OCCUPIED") \cup {s}
         /\ Cardinality(Filled(buckets', capacity, "OCCUPIED")) = Cardinality(Filled(buckets, capacity, "OCCUPIED")) + 1
         /\ Cardinality(Filled(buckets', capacity, "TOMBSTONE")) =
              IF buckets[s].state = "TOMBSTONE" THEN Cardinality(Filled(buckets, capacity, "TOMBSTONE")) - 1
              ELSE Cardinality(Filled(buckets, capacity, "TOMBSTONE"))
    BY <1>d, <2>4, <2>5, <2>8, <2>9, CountStore
  <2>11. Full' = Full \cup {s} /\ Cardinality(Full') = Cardinality(Full) + 1
    BY <2>2, <2>10 DEF Full
  <2>12. Unmoved' = {} /\ Cardinality(Unmoved') = 0
    BY <1>b, <1>c, <2>2 DEF Unmoved, Filled, Slots, rehashVars
  <2>13. CountersExact'
    BY <2>2, <2>7, <2>10, <2>11 DEF CountersExact
  <2>14. tombstones' \in Nat /\ occupied' \in Nat /\ occupied' + tombstones' <= occupied + tombstones + 1
    <3>1. IsFiniteSet(Filled(buckets', capacity', "TOMBSTONE"))
      BY <1>d, <2>2, FilledFinite
    <3>2. tombstones' \in Nat
      BY <3>1, <2>13, FS_CardinalityType DEF CountersExact
    <3> QED
      BY <2>2, <2>7, <3>2 DEF TypeOK
  <2>15. keyCopies' \in Nat /\ KeyCopiesExact'
    <3>1. CASE OwnsKeys
      <4>1. keyCopies = Cardinality(Full) + Cardinality(Unmoved) /\ keyCopies' = keyCopies + 1
        BY <2>2, <3>1 DEF KeyCopiesExact
      <4>2. keyCopies' = Cardinality(Full') + Cardinality(Unmoved')
        BY <1>c, <1>e, <2>11, <2>12, <4>1
      <4> QED
        BY <3>1, <4>1, <4>2 DEF KeyCopiesExact, TypeOK
    <3>2. CASE ~OwnsKeys
      BY <2>2, <3>2 DEF KeyCopiesExact, TypeOK
    <3> QED
      BY <3>1, <3>2
  <2>16. owner' \in [Values -> {"caller", "map", "freed"}]
    BY <2>2 DEF TypeOK
  <2>17. TypeOK'
    BY <2>2, <2>8, <2>14, <2>15, <2>16 DEF TypeOK, Return, rehashVars
  <2>18. Control'
    BY <2>2, <2>3 DEF Control, Return, rehashVars
  <2>19. EntriesTyped'
    BY <1>b, <1>d, <2>3, <2>4, <2>6, <2>9, <2>11, <2>12 DEF EntriesTyped, Entry, Full, Filled
  <2>20. Load'
    BY <1>c, <1>d, <2>2, <2>3, <2>12, <2>14 DEF Load, TypeOK, Return
  <2> QED
    BY <2>13, <2>15, <2>17, <2>18, <2>19, <2>20
<1>4. CASE Remove /\ ~Exit
  <2>1. PICK j \in Slots(capacity) :
          /\ Match(buckets, At(key, j, capacity), key)
          /\ buckets' = [buckets EXCEPT ![At(key, j, capacity)] = Tombstone]
          /\ occupied' = occupied - 1
          /\ tombstones' = tombstones + 1
          /\ keyCopies' = IF OwnsKeys THEN keyCopies - 1 ELSE keyCopies
          /\ owner' = [owner EXCEPT ![buckets[At(key, j, capacity)].value] = "caller"]
          /\ Return(<<buckets[At(key, j, capacity)].value>>)
          /\ UNCHANGED <<m, capacity, rehashVars>>
    BY <1>4 DEF Remove
  <2> DEFINE s == At(key, j, capacity)
  <2>2. capacity >= 1 /\ pc = "remove" /\ m = "live"
    BY <1>d, <1>4 DEF Slots, Remove
  <2>3. s \in Slots(capacity)
    BY <1>b, <1>d, <2>2, AtInSlots
  <2>4. /\ buckets[s].state = "OCCUPIED"
        /\ buckets' = [buckets EXCEPT ![s] = Tombstone]
        /\ Return(<<buckets[s].value>>)
    BY <2>1 DEF Match
  <2> HIDE DEF s
  <2>5. buckets' \in [Slots(capacity) -> Bucket] /\ buckets'[s].state = "TOMBSTONE"
    BY <1>d, <2>3, <2>4 DEF Tombstone, Bucket, BucketState
  <2>6. \A u \in Slots(capacity) : u # s => buckets'[u] = buckets[u]
    BY <1>d, <2>4
  <2>7. /\ Filled(buckets', capacity, "OCCUPIED") = Filled(buckets, capacity, "OCCUPIED") \ {s}
        /\ Cardinality(Filled(buckets', capacity, "OCCUPIED")) = Cardinality(Filled(buckets, capacity, "OCCUPIED")) - 1
        /\ Cardinality(Filled(buckets', capacity, "TOMBSTONE")) = Cardinality(Filled(buckets, capacity, "TOMBSTONE")) + 1
        /\ Cardinality(Filled(buckets, capacity, "OCCUPIED")) >= 1
    <3>1. buckets[s].state = "OCCUPIED"
      BY <2>4
    <3> QED
      BY <1>d, <2>3, <2>5, <2>6, <3>1, CountDelete
  <2>8. Full' = Full \ {s} /\ Cardinality(Full') = Cardinality(Full) - 1 /\ Cardinality(Full) >= 1
    BY <2>1, <2>7 DEF Full
  <2>9. Unmoved' = {} /\ Cardinality(Unmoved') = 0
    BY <1>b, <1>c, <2>1 DEF Unmoved, Filled, Slots, rehashVars
  <2>10. CountersExact'
    BY <2>1, <2>7, <2>8 DEF CountersExact
  <2>11. occupied' \in Nat /\ tombstones' \in Nat
    BY <2>1, <2>8 DEF CountersExact, TypeOK
  <2>12. keyCopies' \in Nat /\ KeyCopiesExact'
    <3>1. CASE OwnsKeys
      <4>1. keyCopies = Cardinality(Full) + Cardinality(Unmoved) /\ keyCopies' = keyCopies - 1
        BY <2>1, <3>1 DEF KeyCopiesExact
      <4>2. keyCopies' = Cardinality(Full') + Cardinality(Unmoved') /\ keyCopies' \in Nat
        BY <1>c, <1>e, <2>8, <2>9, <4>1
      <4> QED
        BY <3>1, <4>2 DEF KeyCopiesExact
    <3>2. CASE ~OwnsKeys
      BY <2>1, <3>2 DEF KeyCopiesExact, TypeOK
    <3> QED
      BY <3>1, <3>2
  <2>13. buckets[s].value \in Values
    BY <2>3, <2>4 DEF EntriesTyped, Full, Filled
  <2>14. owner' \in [Values -> {"caller", "map", "freed"}]
    BY <2>1 DEF TypeOK
  <2>15. ret' \in Seq(Keys \cup Values \cup BOOLEAN \cup {NULL})
    BY <2>4, <2>13 DEF Return
  <2>16. TypeOK'
    BY <2>1, <2>4, <2>5, <2>11, <2>12, <2>14, <2>15 DEF TypeOK, Return, rehashVars
  <2>17. Control'
    BY <2>1, <2>2, <2>4 DEF Control, Return, rehashVars
  <2>18. EntriesTyped'
    BY <2>6, <2>8, <2>9 DEF EntriesTyped, Full, Filled
  <2>19. Load'
    BY <1>c, <1>d, <2>1, <2>2, <2>4, <2>9, <2>11 DEF Load, TypeOK, Return
  <2> QED
    BY <2>10, <2>12, <2>16, <2>17, <2>18, <2>19
<1> QED
  BY <1>1, <1>2, <1>3, <1>4

(* Every step keeps the counting invariant. *)
LEMMA CountStep == CountInv /\ [Next]_vars => CountInv'
<1> SUFFICES ASSUME CountInv, [Next]_vars PROVE CountInv'
  OBVIOUS
<1>1. CASE Next
  BY <1>1, CountQuiet, CountNewFree, CountRehash, CountUpdate DEF Next, Body
<1>2. CASE UNCHANGED vars
  <2>1. TypeOK' /\ Control'
    BY <1>2 DEF CountInv, vars, TypeOK, Control
  <2> QED
    BY <1>2, <2>1, TableUnchanged DEF vars, table, rehashVars
<1> QED
  BY <1>1, <1>2

(* The counting invariant holds of every reachable state, for every hash   *)
(* function, key set and value set.                                        *)
THEOREM CountSafe == Spec => []CountInv
BY CountInit, CountStep, PTL DEF Spec

(* Every variable of the runtime keeps its type: in particular the         *)
(* unsigned counters occupied and tombstones never go below zero.          *)
THEOREM TypeSafe == Spec => []TypeOK
<1>1. CountInv => TypeOK
  BY DEF CountInv
<1> QED
  BY <1>1, CountSafe, PTL

(* The counters say what the buckets hold, in the middle of a rehash too.  *)
THEOREM CountersSafe == Spec => []CountersExact
<1>1. CountInv => CountersExact
  BY DEF CountInv
<1> QED
  BY <1>1, CountSafe, PTL

(* Between calls the table is below the load threshold of put. *)
THEOREM LoadSafe == Spec => []LoadBelowThreshold
<1>1. CountInv => LoadBelowThreshold
  <2> SUFFICES ASSUME CountInv, m = "live", pc = "idle"
               PROVE  (occupied + tombstones) * 10 < capacity * 7
    BY DEF LoadBelowThreshold
  <2>1. Cardinality(Unmoved) = 0
    BY NothingUnmoved DEF CountInv, Control
  <2> QED
    BY <2>1 DEF CountInv, Load, TypeOK
<1> QED
  BY <1>1, CountSafe, PTL

(* A live table always has an empty bucket, so no probe loop runs for      *)
(* ever.                                                                   *)
THEOREM ProbesSafe == Spec => []ProbesTerminate
<1>1. CountInv => ProbesTerminate
  <2> SUFFICES ASSUME CountInv, m = "live"
               PROVE  Filled(buckets, capacity, "EMPTY") # {}
    BY DEF ProbesTerminate
  <2> USE DEF CountInv
  <2>1. capacity \in Nat /\ capacity >= 1 /\ buckets \in [Slots(capacity) -> Bucket]
    BY DEF TypeOK, Control
  <2>2. Cardinality(Unmoved) \in Nat
    <3>1. IsFiniteSet(Filled(oldBuckets, oldCap, "OCCUPIED"))
      BY FilledFinite DEF TypeOK
    <3>2. Unmoved \in SUBSET Filled(oldBuckets, oldCap, "OCCUPIED")
      BY DEF Unmoved
    <3> QED
      BY <3>1, <3>2, FS_Subset, FS_CardinalityType
  <2>3. (occupied + tombstones) * 10 < capacity * 7
    BY <2>2 DEF Load, TypeOK
  <2> QED
    BY <2>1, <2>3, EmptySlotLeft DEF CountersExact, Full
<1> QED
  BY <1>1, CountSafe, PTL
=============================================================================
